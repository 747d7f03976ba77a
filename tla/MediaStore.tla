------------------------------ MODULE MediaStore ------------------------------
(***************************************************************************)
(* Files that live in a private bucket and are published by a row of the   *)
(* database: the images of a brand (archivos_marca), the PDF menus of a    *)
(* branch (branch_menu_documents and branch_menus) and the photo of a      *)
(* profile (usuarios.foto_url and profile_media_deletions).  No            *)
(* transaction spans both stores, so an upload is a sequence of steps that *)
(* any error may cut, and a maintenance worker erases what is left over.   *)
(* The three protocols differ; Init chooses which one this is.             *)
(*                                                                         *)
(* An operator named after another with a suffix is that operator with one *)
(* mistake in it and is not part of Spec.                                  *)
(***************************************************************************)
EXTENDS Integers, FiniteSets

CONSTANTS
    Files,       \* object keys, each used by one upload
    Uploads,     \* requests that upload at the same time
    Workers,     \* maintenance workers of the replicas
    MaxVersion,  \* bound: version up to which a menu is published or withdrawn
    MaxLost,     \* bound: errors, lost answers, stops and leases that end early
    None

ASSUME BoundsAreNatural == {MaxVersion, MaxLost} \subseteq Nat
ASSUME NoneIsNothing == None \notin Files \cup Workers

VARIABLES
    kind,      \* "image", "menu" or "photo"
    files,     \* rows of archivos_marca or branch_menu_documents
    place,     \* branch_menus, or the user: what is published, and where
    waiting,   \* profile_media_deletions
    stored,    \* objects in the bucket
    links,     \* files with a signed URL that still works
    started,   \* keys handed out so far
    uploads,   \* what each request is at
    workers,   \* what each worker is at
    doubtful,  \* files published although their upload was told it failed
    untracked, \* photos that only a request that is over knew of
    lost       \* faults so far

db == <<files, place, waiting>>
vars == <<kind, files, place, waiting, stored, links, started, uploads, workers,
          doubtful, untracked, lost>>

Deletable == {"pending", "failed", "deleting"}
\* owner: lease_owner; due: delete_after is absent or has passed; old: created more
\* than 15 minutes ago; replaces: replaces_id.
File == [status: Deletable \cup {"none", "live", "deleted"}, due: BOOLEAN, old: BOOLEAN,
         owner: Workers \cup {None}, leased: BOOLEAN, replaces: Files \cup {None}]
NoFile == [status |-> "none", due |-> TRUE, old |-> FALSE, owner |-> None,
           leased |-> FALSE, replaces |-> None]
Versions == Nat \ {0}
Place == [open: BOOLEAN, draft: Files \cup {None}, shown: Files \cup {None},
          version: Versions]
\* seen: what was published when the request began (history, for the properties).
Upload == [step: {"idle", "put", "activate", "undo", "fail", "previous"},
           file: Files \cup {None}, version: Versions, seen: SUBSET Files]
NoUpload == [step |-> "idle", file |-> None, version |-> 1, seen |-> {}]
Worker == [batch: SUBSET Files, item: Files \cup {None}, erased: BOOLEAN]
NoWorker == [batch |-> {}, item |-> None, erased |-> FALSE]

Published == IF kind = "image" THEN {f \in Files : files[f].status = "live"}
             ELSE {place.draft, place.shown} \ {None}

\* Only a row that is to be deleted is leased.
TypeOK ==
    /\ kind \in {"image", "menu", "photo"}
    /\ files \in [Files -> File] /\ place \in Place
    /\ UNION {waiting, stored, links, started, doubtful, untracked} \subseteq Files
    /\ uploads \in [Uploads -> Upload] /\ workers \in [Workers -> Worker]
    /\ lost \in 0..MaxLost
    /\ \A f \in Files : files[f].leased => files[f].owner # None /\ files[f].status \in Deletable

Init ==
    /\ kind \in {"image", "menu", "photo"}
    /\ files = [f \in Files |-> NoFile]
    /\ place = [open |-> TRUE, draft |-> None, shown |-> None, version |-> 1]
    /\ uploads = [u \in Uploads |-> NoUpload] /\ workers = [w \in Workers |-> NoWorker]
    /\ waiting = {} /\ stored = {} /\ links = {} /\ started = {}
    /\ doubtful = {} /\ untracked = {} /\ lost = 0

Lose == lost < MaxLost /\ lost' = lost + 1
Step(u, step) == uploads' = [uploads EXCEPT ![u].step = step]
Over(u) == uploads' = [uploads EXCEPT ![u] = NoUpload]
Unleased(row) == [row EXCEPT !.owner = None, !.leased = FALSE]
\* The object stays for the time a signed URL may live, and longer.
Retired(row) == [Unleased(row) EXCEPT !.status = "deleting", !.due = FALSE]

-----------------------------------------------------------------------------
(* Uploads *)

\* ReserveBrandImage: a slot has one pending row; it is to replace the active one.
ReserveBrandImage(f) ==
    /\ \A g \in Files : files[g].status # "pending"
    /\ files' = [files EXCEPT ![f] = [NoFile EXCEPT !.status = "pending",
            !.replaces = IF Published = {} THEN None ELSE CHOOSE g \in Published : TRUE]]

\* ReserveMenuDocument: the version the request names is still the menu's.
ReserveMenuDocument(f) ==
    files' = [files EXCEPT ![f] = [NoFile EXCEPT !.status = "pending"]]

BeginUpload(u) ==
    /\ uploads[u].step = "idle" /\ place.open
    /\ \E f \in Files \ started :
         /\ started' = started \cup {f}
         /\ CASE kind = "image" -> ReserveBrandImage(f)
              [] kind = "menu" -> ReserveMenuDocument(f)
              [] kind = "photo" -> UNCHANGED files
         /\ uploads' = [uploads EXCEPT ![u] =
                [step |-> "put", file |-> f, version |-> place.version, seen |-> Published]]
    /\ UNCHANGED <<kind, place, waiting, stored, links, workers, doubtful, untracked, lost>>

\* The error of a Put does not say whether the object is there.
Put(u) ==
    /\ uploads[u].step = "put"
    /\ LET f == uploads[u].file IN
       \/ /\ stored' = stored \cup {f} /\ Step(u, "activate")
          /\ UNCHANGED <<untracked, lost>>
       \/ /\ Lose /\ stored' \in {stored, stored \cup {f}}
          /\ IF kind = "photo"
             THEN Over(u) /\ untracked' = untracked \cup {f}
             ELSE Step(u, "fail") /\ UNCHANGED untracked
    /\ UNCHANGED <<kind, files, place, waiting, links, started, workers, doubtful>>

\* The menu or the profile is still the one the request began with.
SameVersion(u) == kind = "image" \/ place.version = uploads[u].version

Activatable(u) ==
    LET f == uploads[u].file IN
    /\ place.open /\ SameVersion(u)
    /\ CASE kind = "image" -> /\ files[f].status = "pending"
                              /\ Published \subseteq {files[f].replaces}
         [] kind = "menu" -> files[f].status = "pending" /\ files[f].owner = None
         [] kind = "photo" -> TRUE

ActivateBrandImage(f) ==
    /\ files' = [g \in Files |->
            IF g = f THEN [files[f] EXCEPT !.status = "live"]
            ELSE IF g = files[f].replaces /\ files[g].status = "live"
                 THEN [files[g] EXCEPT !.status = "deleting", !.due = FALSE] ELSE files[g]]
    /\ UNCHANGED <<place, waiting>>

ActivateMenuDraft(f) ==
    /\ files' = [g \in Files |->
            IF g = f THEN [files[f] EXCEPT !.status = "live"]
            ELSE IF g = place.draft THEN Retired(files[g]) ELSE files[g]]
    /\ place' = [place EXCEPT !.draft = f, !.version = @ + 1]
    /\ UNCHANGED waiting

ReplaceProfilePhotoAsIs(f) ==
    /\ place' = [place EXCEPT !.shown = f]
    /\ waiting' = waiting \cup ({place.shown} \ {None})
    /\ UNCHANGED files
ReplaceProfilePhoto(f) ==
    /\ place' = [place EXCEPT !.shown = f, !.version = @ + 1]
    /\ waiting' = waiting \cup ({place.shown} \ {None})
    /\ UNCHANGED files

Publish(f) ==
    CASE kind = "image" -> ActivateBrandImage(f)
      [] kind = "menu" -> ActivateMenuDraft(f)
      [] kind = "photo" -> ReplaceProfilePhoto(f)

\* After an error: an image and a photo are erased first.
AfterErrorErasing == "undo"
AfterError == IF kind = "menu" THEN "fail" ELSE "undo"

\* The transaction commits.  Its answer may be lost; of a photo, the profile that is
\* read next may fail to be read, which the caller takes for the same error.
Activate(u) ==
    /\ uploads[u].step = "activate" /\ Activatable(u)
    /\ Publish(uploads[u].file)
    /\ \/ /\ IF kind = "photo" /\ place.shown # None
             THEN uploads' = [uploads EXCEPT ![u].step = "previous", ![u].file = place.shown]
             ELSE Over(u)
          /\ UNCHANGED <<doubtful, lost>>
       \/ /\ Lose /\ Step(u, AfterError)
          /\ doubtful' = doubtful \cup {uploads[u].file}
    /\ UNCHANGED <<kind, stored, links, started, workers, untracked>>

ActivateFails(u) ==
    /\ uploads[u].step = "activate"
    /\ IF Activatable(u) THEN Lose ELSE UNCHANGED lost
    /\ Step(u, AfterError)
    /\ UNCHANGED <<kind, db, stored, links, started, workers, doubtful, untracked>>

\* Store.Delete of the object that was just put, its error ignored.
Undo(u) ==
    /\ uploads[u].step = "undo"
    /\ LET f == uploads[u].file IN
       /\ \/ stored' = stored \ {f} /\ UNCHANGED <<untracked, lost>>
          \/ /\ Lose /\ UNCHANGED stored
             /\ untracked' = IF kind = "photo" THEN untracked \cup {f} ELSE untracked
       /\ IF kind = "image" THEN Step(u, "fail") ELSE Over(u)
    /\ UNCHANGED <<kind, db, links, started, workers, doubtful>>

Failed(f) ==
    IF files[f].status # "pending" THEN files[f]
    ELSE IF kind = "image" THEN [files[f] EXCEPT !.status = "failed", !.due = TRUE]
    ELSE Retired(files[f])

\* FailBrandImage, FailMenuUpload: their error is ignored.
FailUpload(u) ==
    /\ uploads[u].step = "fail" /\ Over(u)
    /\ \/ files' = [files EXCEPT ![uploads[u].file] = Failed(uploads[u].file)] /\ UNCHANGED lost
       \/ Lose /\ UNCHANGED files
    /\ UNCHANGED <<kind, place, waiting, stored, links, started, workers, doubtful, untracked>>

\* The photo that was replaced, erased at once if the bucket answers.
ErasePrevious(u) ==
    /\ uploads[u].step = "previous" /\ Over(u)
    /\ \/ stored' = stored \ {uploads[u].file} /\ UNCHANGED lost
       \/ Lose /\ UNCHANGED stored
    /\ UNCHANGED <<kind, db, links, started, workers, doubtful, untracked>>

StopUpload(u) ==
    /\ uploads[u].step # "idle" /\ Lose /\ Over(u)
    /\ untracked' = IF kind = "photo" /\ uploads[u].step # "previous"
                    THEN untracked \cup {uploads[u].file} ELSE untracked
    /\ UNCHANGED <<kind, db, stored, links, started, workers, doubtful>>

-----------------------------------------------------------------------------
(* What becomes of published files *)

\* DeleteBrandImage; of a menu, publish, unpublish and discard.
DeleteBrandImage ==
    /\ kind = "image"
    /\ \E f \in Published : files' = [files EXCEPT ![f].status = "deleting", ![f].due = FALSE]
    /\ UNCHANGED place

MenuMoves(draft, shown, retired) ==
    /\ kind = "menu" /\ place.version < MaxVersion
    /\ place' = [place EXCEPT !.draft = draft, !.shown = shown, !.version = @ + 1]
    /\ files' = [f \in Files |-> IF f = retired THEN Retired(files[f]) ELSE files[f]]

PublishMenu == place.draft # None /\ MenuMoves(None, place.draft, place.shown)
UnpublishMenu == place.shown # None /\ MenuMoves(place.draft, None, place.shown)
DiscardMenuDraft == place.draft # None /\ MenuMoves(None, place.shown, place.draft)

ChangePublication ==
    /\ DeleteBrandImage \/ PublishMenu \/ UnpublishMenu \/ DiscardMenuDraft
    /\ UNCHANGED <<kind, waiting, stored, links, started, uploads, workers, doubtful,
                   untracked, lost>>

\* The brand or the branch closes, or the account is deleted.
Close ==
    /\ place.open
    /\ place' = [place EXCEPT !.open = FALSE, !.draft = None, !.shown = None]
    /\ files' = [f \in Files |->
            IF \/ files[f].status \in {"live", "pending"}
               \/ kind = "image" /\ files[f].status = "failed"
            THEN Retired(files[f]) ELSE files[f]]
    /\ waiting' = IF kind = "photo" THEN waiting \cup ({place.shown} \ {None}) ELSE waiting
    /\ UNCHANGED <<kind, stored, links, started, uploads, workers, doubtful, untracked, lost>>

\* BrandImages; BranchMenu, PublicBranchMenu; ProfilePhoto, and UploadProfilePhoto once
\* it has published: a URL of minutes for the key that was just read.
Sign(f) ==
    /\ f \in Published \ links /\ links' = links \cup {f}
    /\ UNCHANGED <<kind, db, stored, started, uploads, workers, doubtful, untracked, lost>>

LinkEnds(f) ==
    /\ f \in links /\ links' = links \ {f}
    /\ UNCHANGED <<kind, db, stored, started, uploads, workers, doubtful, untracked, lost>>

-----------------------------------------------------------------------------
(* The maintenance worker *)

\* A request is over after 12 seconds and 10 for its clean-up.
InHand(f) == \E u \in Uploads : uploads[u].file = f

\* A day, an hour or six minutes pass, longer than a request or a signed URL lives.
ComeDue(f) ==
    /\ files[f].status \in Deletable /\ ~files[f].due /\ f \notin links /\ ~InHand(f)
    /\ files' = [files EXCEPT ![f].due = TRUE]
    /\ UNCHANGED <<kind, place, waiting, stored, links, started, uploads, workers,
                   doubtful, untracked, lost>>

\* Fifteen minutes pass.
Age(f) ==
    /\ files[f].status = "pending" /\ ~files[f].old /\ ~InHand(f)
    /\ files' = [files EXCEPT ![f].old = TRUE]
    /\ UNCHANGED <<kind, place, waiting, stored, links, started, uploads, workers,
                   doubtful, untracked, lost>>

DueOnlyRetired(f) ==
    /\ ~files[f].leased /\ files[f].due
    /\ files[f].status \in {"deleting", "failed"}
Due(f) ==
    /\ ~files[f].leased /\ f \notin {place.draft, place.shown}
    /\ \/ files[f].status \in {"deleting", "failed"} /\ files[f].due
       \/ files[f].status = "pending" /\ files[f].old /\ (kind = "image" => files[f].due)

\* DueBrandMedia leaves the state alone, DueMenuMedia does not.
Claimed(f, w) ==
    [files[f] EXCEPT !.owner = w, !.leased = TRUE,
                     !.status = IF kind = "menu" THEN "deleting" ELSE @]

\* PendingProfileDeletions takes no lease.
Claim(w) ==
    /\ workers[w] = NoWorker
    /\ \E batch \in IF kind = "photo" THEN {waiting} ELSE SUBSET {f \in Files : Due(f)} :
         /\ batch # {}
         /\ files' = IF kind = "photo" THEN files
                     ELSE [f \in Files |-> IF f \in batch THEN Claimed(f, w) ELSE files[f]]
         /\ workers' = [workers EXCEPT ![w].batch = batch]
    /\ UNCHANGED <<kind, place, waiting, stored, links, started, uploads, doubtful,
                   untracked, lost>>

EraseObject(w) ==
    /\ workers[w].item = None
    /\ \E f \in workers[w].batch :
         \/ /\ stored' = stored \ {f} /\ UNCHANGED lost
            /\ workers' = [workers EXCEPT ![w].item = f, ![w].erased = TRUE]
         \/ /\ Lose /\ UNCHANGED stored
            /\ workers' = [workers EXCEPT ![w].item = f, ![w].erased = FALSE]
    /\ UNCHANGED <<kind, db, links, started, uploads, doubtful, untracked>>

CompletedAnyway(f, w) == [Unleased(files[f]) EXCEPT !.status = "deleted"]
\* CompleteBrandMediaDeletion, CompleteMenuMediaDeletion.
Completed(f, w) ==
    IF files[f].owner # w \/ files[f].status \notin Deletable THEN files[f]
    ELSE IF workers[w].erased THEN [Unleased(files[f]) EXCEPT !.status = "deleted"]
    ELSE [Unleased(files[f]) EXCEPT !.due = FALSE]

Complete(w) ==
    LET f == workers[w].item IN
    /\ f # None
    /\ \/ /\ files' = IF kind = "photo" THEN files ELSE [files EXCEPT ![f] = Completed(f, w)]
          /\ waiting' = IF workers[w].erased THEN waiting \ {f} ELSE waiting
          /\ UNCHANGED lost
       \/ Lose /\ UNCHANGED <<files, waiting>>
    /\ workers' = [workers EXCEPT ![w] =
            [NoWorker EXCEPT !.batch = workers[w].batch \ {f}]]
    /\ UNCHANGED <<kind, place, stored, links, started, uploads, doubtful, untracked>>

\* The process starts again with another lease owner: rows it holds stay leased.
StopWorker(w) ==
    /\ workers[w] # NoWorker /\ Lose
    /\ workers' = [workers EXCEPT ![w] = NoWorker]
    /\ UNCHANGED <<kind, db, stored, links, started, uploads, doubtful, untracked>>

LeaseEnds(f) ==
    /\ files[f].leased
    /\ IF \E w \in Workers : f \in workers[w].batch THEN Lose ELSE UNCHANGED lost
    /\ files' = [files EXCEPT ![f].leased = FALSE]
    /\ UNCHANGED <<kind, place, waiting, stored, links, started, uploads, workers,
                   doubtful, untracked>>

-----------------------------------------------------------------------------
UploadStep(u) ==
    Put(u) \/ Activate(u) \/ ActivateFails(u) \/ Undo(u) \/ FailUpload(u) \/ ErasePrevious(u)
WorkerStep(w) == Claim(w) \/ EraseObject(w) \/ Complete(w)
TimePasses(f) == ComeDue(f) \/ Age(f) \/ LeaseEnds(f) \/ LinkEnds(f)

Next ==
    \/ \E u \in Uploads : BeginUpload(u) \/ UploadStep(u) \/ StopUpload(u)
    \/ ChangePublication \/ Close
    \/ \E f \in Files : Sign(f) \/ TimePasses(f)
    \/ \E w \in Workers : WorkerStep(w) \/ StopWorker(w)

Spec == Init /\ [][Next]_vars

\* A request ends, time passes and the worker's ticker fires.
FairSpec ==
    /\ Spec
    /\ \A u \in Uploads : WF_vars(UploadStep(u))
    /\ \A f \in Files : WF_vars(LeaseEnds(f)) /\ WF_vars(LinkEnds(f))
                        /\ WF_vars(ComeDue(f)) /\ WF_vars(Age(f))
    /\ \A w \in Workers : WF_vars(WorkerStep(w))

-----------------------------------------------------------------------------
(* Properties *)

\* What is published can be fetched.  The exception is an image or a photo whose
\* upload was told that its commit failed when it had not: the compensation erases
\* the object that is now published (UploadBrandImage, UploadProfilePhoto).  The
\* menus have no such exception.
PublishedHasObject ==
    \A f \in Published : f \in stored \/ (kind # "menu" /\ f \in doubtful)

\* Every object in the bucket is published, or a row, the deletion queue or a
\* request still leads to it; the exception is a photo whose request was cut or
\* whose clean-up failed, since no row is written before it is put.
ObjectsAreAccountedFor ==
    \A f \in stored :
        \/ f \in Published \cup waiting \cup untracked
        \/ files[f].status \in Deletable
        \/ InHand(f)

\* A signed URL of an image or a menu works until it expires, even if what it shows is
\* withdrawn or replaced meanwhile and the worker runs at once.  A photo's works only
\* while the photo is shown: UploadProfilePhoto erases the one it replaced at once, and
\* what the deletion queue holds is due at once.
LinksWorkUntilTheyEnd ==
    \A f \in links : \/ f \in stored
                     \/ kind # "menu" /\ f \in doubtful
                     \/ kind = "photo" /\ f \notin Published

\* An upload publishes only over what it saw when it began, however many others
\* published, moved, withdrew or closed while its object was put: a menu draft or a
\* photo over exactly that, an image over that or over a slot emptied since.
NothingReplacedUnseen ==
    [][\A u \in Uploads :
         /\ uploads[u].step = "activate" /\ uploads'[u] # uploads[u]
         /\ uploads[u].file \in Published' \ Published
         => /\ Published \subseteq uploads[u].seen
            /\ kind # "image" => Published = uploads[u].seen]_vars

\* Whatever is cut, retired or withdrawn is erased in the end, and a slot that an
\* interrupted upload occupies becomes free.
LeftoversAreErased ==
    \A f \in Files :
        /\ files[f].status \in Deletable ~> files[f].status = "live" \/
                                            (files[f].status = "deleted" /\ f \notin stored)
        /\ f \in waiting ~> f \notin waiting \cup stored

\* The rows stay well formed, every object has something that leads to it, and every
\* signed link has its object: of an image or a menu until it ends, of a photo while
\* that is shown.
MediaInv == TypeOK /\ ObjectsAreAccountedFor /\ LinksWorkUntilTheyEnd

=============================================================================
