--------------------------- MODULE MediaStoreProofs ---------------------------
(***************************************************************************)
(* Proofs about MediaStore for any sets of files, uploads and workers and  *)
(* any number of faults: what is published can be fetched, what is in the  *)
(* bucket is accounted for, and signed links of images and menus work      *)
(* until they end, those of photos while the photo is shown.               *)
(*                                                                         *)
(* Two transactions of different stores can only be kept in step because   *)
(* nothing ever comes back: a file that left an upload unpublished, or was *)
(* retired, is published by nobody (Gone), and whoever erases an           *)
(* object erases one of these.  Inv says so of everybody's notes.          *)
(***************************************************************************)
EXTENDS MediaStore, TLAPS

-----------------------------------------------------------------------------
(* The inductive invariant *)

\* Some request may still publish f.
ToPublish(f) ==
    \E u \in Uploads : uploads[u].file = f /\ uploads[u].step \in {"put", "activate"}

\* f was handed out, and nobody publishes it any more; a row is nobody's by then.
Gone(f) ==
    /\ f \in started /\ f \notin Published /\ ~ToPublish(f)
    /\ kind # "photo" => ~InHand(f)

\* Keys are handed out before anything else is known of them.
KeysAreFresh ==
    /\ \A f \in Files : files[f].status # "none" => f \in started
    /\ stored \cup links \cup waiting \cup ({place.draft, place.shown} \ {None}) \subseteq started
    /\ \A u \in Uploads : uploads[u].file \in started \cup {None}

\* What a request in progress knows is still so.
UploadSound(u) ==
    LET f == uploads[u].file IN
    /\ uploads[u].step = "idle" <=> f = None
    /\ uploads[u].step \in {"put", "activate"} =>
         f \notin Published \cup waiting \cup links
    /\ \/ uploads[u].step \in {"put", "activate"}
       \/ uploads[u].step # "idle" /\ kind # "photo"
       => \A v \in Uploads : uploads[v].file = f => v = u
    /\ uploads[u].step = "activate" => f \in stored
    /\ uploads[u].step = "undo" =>
         kind # "menu" /\ (f \in Published \cup links => f \in doubtful)
    /\ uploads[u].step = "fail" => kind # "photo"
    /\ uploads[u].step = "previous" =>
         kind = "photo" /\ f \notin Published /\ (f \in stored => f \in waiting)
UploadsSound == \A u \in Uploads : UploadSound(u)

\* A row is not up for deletion while its upload is in progress or a link works.
RowSound(f) ==
    /\ kind # "photo" /\ InHand(f) =>
         /\ files[f].status \in {"pending", "live", "deleting"}
         /\ ~files[f].old /\ ~files[f].leased
         /\ files[f].status = "deleting" => ~files[f].due
    /\ kind # "photo" /\ f \in links =>
         files[f].status = "live" \/ (files[f].status = "deleting" /\ ~files[f].due)
RowsSound == \A f \in Files : RowSound(f)

\* What is published where.
PlaceSound ==
    /\ kind = "photo" => /\ \A f \in Files : files[f].status = "none"
                         /\ place.draft = None
    /\ kind = "menu" => /\ \A f \in Files : files[f].status = "live" <=> f \in Published
                        /\ place.draft = place.shown => place.draft = None

\* What waits for the worker, or is in its hands, is gone for good.
WorkerSound(w) ==
    /\ \A f \in workers[w].batch : Gone(f) /\ (kind # "photo" => f \notin links)
    /\ workers[w].item # None => workers[w].item \in workers[w].batch
    /\ workers[w].erased => workers[w].item # None /\ workers[w].item \notin stored
ErasuresSound ==
    /\ \A f \in waiting : Gone(f)
    /\ \A w \in Workers : WorkerSound(w)

Inv ==
    /\ TypeOK /\ KeysAreFresh /\ UploadsSound /\ RowsSound /\ PlaceSound /\ ErasuresSound
    /\ PublishedHasObject /\ ObjectsAreAccountedFor /\ LinksWorkUntilTheyEnd

-----------------------------------------------------------------------------
(* What the steps of a request do to the table of requests *)

\* Where nothing else moves, what is published is the same.
LEMMA PublishedStays ==
    ASSUME UNCHANGED <<kind, files, place>>
    PROVE  Published' = Published
  BY DEF Published

\* What is published are files.
LEMMA PublishedFiles ==
    ASSUME TypeOK
    PROVE  Published \in SUBSET Files
  BY DEF Published, TypeOK, Place

\* A request that goes on keeps its file and what it saw.
LEMMA StepMoves ==
    ASSUME TypeOK, NEW u \in Uploads, NEW s \in {"put", "activate", "undo", "fail", "previous"},
           Step(u, s)
    PROVE  /\ uploads' \in [Uploads -> Upload]
           /\ uploads'[u].step = s /\ uploads'[u].file = uploads[u].file
           /\ uploads'[u].version = uploads[u].version /\ uploads'[u].seen = uploads[u].seen
           /\ \A v \in Uploads : v # u => uploads'[v] = uploads[v]
  BY DEF TypeOK, Step, Upload

\* A request that is over forgets it.
LEMMA OverMoves ==
    ASSUME TypeOK, NEW u \in Uploads, Over(u)
    PROVE  /\ uploads' \in [Uploads -> Upload]
           /\ uploads'[u].step = "idle" /\ uploads'[u].file = None
           /\ \A v \in Uploads : v # u => uploads'[v] = uploads[v]
  BY DEF TypeOK, Over, Upload, NoUpload, Versions

-----------------------------------------------------------------------------
(* Uploads *)

\* The file is put for the request that holds it, and nobody else knows of it.
LEMMA PutInv ==
    ASSUME Inv, NEW u \in Uploads, Put(u)
    PROVE  Inv'
<1> DEFINE f == uploads[u].file
<1>1. /\ uploads[u].step = "put" /\ f \in Files /\ f # None
      /\ UNCHANGED <<kind, files, place, waiting, links, started, workers, doubtful>>
      /\ Published' = Published
  BY NoneIsNothing, PublishedStays DEF Inv, TypeOK, Upload, UploadsSound, UploadSound, Put
<1>2. /\ stored \subseteq stored' /\ stored' \subseteq stored \cup {f}
      /\ untracked \subseteq untracked' /\ untracked' \subseteq untracked \cup {f}
      /\ lost' \in 0..MaxLost
  BY BoundsAreNatural DEF Put, Lose, Inv, TypeOK
<1>3. \/ Step(u, "activate") /\ f \in stored'
      \/ kind = "photo" /\ Over(u) /\ f \in untracked'
      \/ kind # "photo" /\ Step(u, "fail")
  BY DEF Put
<1>4. /\ uploads' \in [Uploads -> Upload]
      /\ \A v \in Uploads : v # u => uploads'[v] = uploads[v]
      /\ \/ uploads'[u].step = "activate" /\ uploads'[u].file = f /\ f \in stored'
         \/ kind = "photo" /\ uploads'[u].step = "idle" /\ uploads'[u].file = None
            /\ f \in untracked'
         \/ kind # "photo" /\ uploads'[u].step = "fail" /\ uploads'[u].file = f
  BY <1>3, StepMoves, OverMoves DEF Inv
<1> HIDE DEF f
<1>5. TypeOK'
  BY <1>1, <1>2, <1>4 DEF Inv, TypeOK
<1>6. KeysAreFresh'
  BY <1>1, <1>2, <1>4 DEF Inv, KeysAreFresh, f
<1>7. UploadsSound'
  <2> SUFFICES ASSUME NEW v \in Uploads PROVE UploadSound(v)'
    BY DEF UploadsSound
  <2>1. CASE v = u
    BY <1>1, <1>2, <1>4, <2>1 DEF Inv, UploadsSound, UploadSound, f
  <2>2. CASE v # u
    BY <1>1, <1>2, <1>4, <2>2 DEF Inv, UploadsSound, UploadSound, f
  <2> QED BY <2>1, <2>2
<1>8. RowsSound'
  BY <1>1, <1>4 DEF Inv, RowsSound, RowSound, InHand, f
<1>9. PlaceSound'
  BY <1>1 DEF Inv, PlaceSound
<1>10. \A g : Gone(g) => Gone(g)'
  BY <1>1, <1>4 DEF Gone, ToPublish, InHand, f
<1>11. ErasuresSound'
  <2>1. \A g : Gone(g) => g # f
    BY <1>1 DEF Gone, ToPublish, InHand, f
  <2> QED BY <1>1, <1>2, <1>10, <2>1 DEF Inv, ErasuresSound, WorkerSound
<1>12. PublishedHasObject' /\ LinksWorkUntilTheyEnd'
  BY <1>1, <1>2 DEF Inv, PublishedHasObject, LinksWorkUntilTheyEnd
<1>13. ObjectsAreAccountedFor'
  BY <1>1, <1>2, <1>4 DEF Inv, ObjectsAreAccountedFor, InHand, f
<1> QED
  BY <1>5, <1>6, <1>7, <1>8, <1>9, <1>11, <1>12, <1>13 DEF Inv

\* A request that gives up, cleans up or stops publishes nothing, and what it
\* erases is neither published nor linked, unless its answer was lost.
CleansUp(u) ==
    LET f == uploads[u].file IN
    /\ uploads[u].step # "idle"
    /\ UNCHANGED <<kind, files, place, waiting, links, started, workers, doubtful>>
    /\ stored' \subseteq stored /\ stored \subseteq stored' \cup {f}
    /\ stored' # stored => uploads[u].step \in {"undo", "previous"}
    /\ untracked \subseteq untracked' /\ untracked' \subseteq untracked \cup {f}
    /\ lost' \in 0..MaxLost
    /\ uploads' \in [Uploads -> Upload]
    /\ \A v \in Uploads : v # u => uploads'[v] = uploads[v]
    /\ \/ /\ uploads'[u].file = f
          /\ \/ uploads'[u].step = "undo" /\ uploads[u].step = "activate" /\ kind # "menu"
             \/ uploads'[u].step = "fail" /\ kind # "photo"
       \/ /\ uploads'[u].step = "idle" /\ uploads'[u].file = None
          /\ kind = "photo" /\ uploads[u].step # "previous" => f \in untracked' \/ f \notin stored'

\* A failed upload that cleans up touches nothing but its own object and row.
LEMMA CleanUpInv ==
    ASSUME Inv, NEW u \in Uploads, CleansUp(u)
    PROVE  Inv'
<1> DEFINE f == uploads[u].file
<1>1. f \in Files /\ f # None /\ Published' = Published
  BY NoneIsNothing, PublishedStays
     DEF Inv, TypeOK, Upload, UploadsSound, UploadSound, CleansUp
<1>2. \A g : Gone(g) => Gone(g)'
  BY <1>1, NoneIsNothing DEF Gone, ToPublish, InHand, CleansUp, Inv, TypeOK
<1>3. stored' # stored => \/ f \notin Published \cup links
                          \/ kind # "menu" /\ f \in doubtful
                          \/ kind = "photo" /\ f \notin Published
  BY DEF CleansUp, Inv, UploadsSound, UploadSound, PlaceSound
<1>4. TypeOK'
  BY <1>1 DEF Inv, TypeOK, CleansUp
<1>5. KeysAreFresh'
  BY <1>1 DEF Inv, KeysAreFresh, CleansUp
<1>6. UploadsSound'
  <2> SUFFICES ASSUME NEW v \in Uploads PROVE UploadSound(v)'
    BY DEF UploadsSound
  <2>1. CASE v = u
    BY <1>1, <2>1 DEF Inv, UploadsSound, UploadSound, CleansUp
  <2>2. CASE v # u
    <3>1. uploads[v].step = "activate" => uploads[v].file # f
      BY <2>2 DEF Inv, UploadsSound, UploadSound
    <3> QED BY <1>1, <2>2, <3>1 DEF Inv, UploadsSound, UploadSound, CleansUp
  <2> QED BY <2>1, <2>2
<1>7. RowsSound'
  <2>1. \A g \in Files : InHand(g)' => InHand(g)
    BY <1>1, NoneIsNothing DEF InHand, CleansUp
  <2> QED BY <2>1 DEF Inv, RowsSound, RowSound, CleansUp
<1>8. PlaceSound'
  BY <1>1 DEF Inv, PlaceSound, CleansUp
<1>9. ErasuresSound'
  BY <1>2 DEF Inv, ErasuresSound, WorkerSound, CleansUp
<1>10. PublishedHasObject' /\ LinksWorkUntilTheyEnd'
  BY <1>1, <1>3 DEF Inv, PublishedHasObject, LinksWorkUntilTheyEnd, CleansUp
<1>11. ObjectsAreAccountedFor'
  <2> SUFFICES ASSUME NEW g \in stored', InHand(g), ~InHand(g)'
               PROVE  g \in Published \cup waiting \cup untracked' \/ files[g].status \in Deletable
    BY <1>1 DEF Inv, ObjectsAreAccountedFor, CleansUp
  <2>1. g = f /\ uploads'[u].file = None
    BY DEF InHand, CleansUp
  <2>2. CASE kind = "photo"
    BY <2>1, <2>2, <1>1 DEF CleansUp, Inv, UploadsSound, UploadSound
  <2>3. CASE kind # "photo"
    <3>1. files[f].status \in {"pending", "live", "deleting"}
      BY <1>1, <2>1, <2>3 DEF Inv, RowsSound, RowSound
    <3>2. kind # "menu" => kind = "image"
      BY <2>3 DEF Inv, TypeOK
    <3>3. files[f].status = "live" => f \in Published
      BY <1>1, <2>3, <3>2 DEF Inv, PlaceSound, Published
    <3> QED BY <2>1, <3>1, <3>3 DEF Deletable
  <2> QED BY <2>2, <2>3
<1> QED
  BY <1>4, <1>5, <1>6, <1>7, <1>8, <1>9, <1>10, <1>11 DEF Inv

\* A failed activation sends the upload to its clean-up.
LEMMA ActivateFailsInv ==
    ASSUME Inv, NEW u \in Uploads, ActivateFails(u)
    PROVE  Inv'
<1>1. AfterError \in {"undo", "fail"} /\ (AfterError = "undo" <=> kind # "menu")
  BY DEF AfterError
<1>2. lost' \in 0..MaxLost
  BY BoundsAreNatural DEF ActivateFails, Lose, Inv, TypeOK
<1>3. CleansUp(u)
  BY <1>1, <1>2, StepMoves DEF ActivateFails, CleansUp, db, Inv
<1> QED BY <1>3, CleanUpInv

\* Undoing an upload erases an object that is not published, or leaves it on record.
LEMMA UndoInv ==
    ASSUME Inv, NEW u \in Uploads, Undo(u)
    PROVE  Inv'
<1>1. kind # "menu" /\ lost' \in 0..MaxLost
  BY BoundsAreNatural DEF Undo, Lose, Inv, TypeOK, UploadsSound, UploadSound
<1>2. CASE kind = "image"
  BY <1>1, <1>2, StepMoves, CleanUpInv DEF Undo, CleansUp, db, Inv
<1>3. CASE kind = "photo"
  BY <1>1, <1>3, OverMoves, CleanUpInv DEF Undo, CleansUp, db, Inv
<1>4. kind \in {"image", "photo"}
  BY <1>1 DEF Inv, TypeOK
<1> QED BY <1>2, <1>3, <1>4

\* The photo that was replaced is erased, and is published nowhere.
LEMMA ErasePreviousInv ==
    ASSUME Inv, NEW u \in Uploads, ErasePrevious(u)
    PROVE  Inv'
<1>1. lost' \in 0..MaxLost
  BY BoundsAreNatural DEF ErasePrevious, Lose, Inv, TypeOK
<1> QED BY <1>1, OverMoves, CleanUpInv DEF ErasePrevious, CleansUp, db, Inv

\* A request that stops leaves behind what the worker finds, or an untracked photo.
LEMMA StopUploadInv ==
    ASSUME Inv, NEW u \in Uploads, StopUpload(u)
    PROVE  Inv'
<1>1. lost' \in 0..MaxLost
  BY BoundsAreNatural DEF StopUpload, Lose, Inv, TypeOK
<1> QED BY <1>1, OverMoves, CleanUpInv DEF StopUpload, CleansUp, db, Inv

\* A row that is retired, or marked as failed.
LEMMA RetiredRow ==
    ASSUME NEW row \in File
    PROVE  /\ Retired(row) \in File /\ Retired(row).status = "deleting"
           /\ ~Retired(row).due /\ ~Retired(row).leased /\ Retired(row).old = row.old
  BY DEF Retired, Unleased, File, Deletable

\* An upload that failed leaves a row that the worker will delete.
LEMMA FailedRow ==
    ASSUME TypeOK, NEW f \in Files, files[f].status = "pending"
    PROVE  /\ Failed(f) \in File
           /\ Failed(f).status \in {"failed", "deleting"}
           /\ Failed(f).status = "deleting" => ~Failed(f).due
           /\ Failed(f).leased => Failed(f).owner # None
<1> files[f] \in File
  BY DEF TypeOK
<1>1. CASE kind = "image"
  BY <1>1 DEF Failed, File, Deletable, TypeOK
<1>2. CASE kind # "image"
  BY <1>2, RetiredRow DEF Failed
<1> QED BY <1>1, <1>2

\* A row that was not published is up for deletion, whose upload nobody holds now.
LEMMA FailUploadInv ==
    ASSUME Inv, NEW u \in Uploads, FailUpload(u)
    PROVE  Inv'
<1> DEFINE f == uploads[u].file
<1>1. /\ uploads[u].step = "fail" /\ kind # "photo" /\ f \in Files /\ f # None
      /\ UNCHANGED <<kind, place, waiting, stored, links, started, workers, doubtful, untracked>>
  BY NoneIsNothing DEF Inv, TypeOK, Upload, UploadsSound, UploadSound, FailUpload
<1>2. /\ uploads' \in [Uploads -> Upload]
      /\ uploads'[u].step = "idle" /\ uploads'[u].file = None
      /\ \A v \in Uploads : v # u => uploads'[v] = uploads[v]
  BY OverMoves DEF FailUpload, Inv
<1>3. CASE UNCHANGED files
  <2>1. CleansUp(u)
    BY <1>1, <1>2, <1>3, BoundsAreNatural DEF CleansUp, FailUpload, Lose, Inv, TypeOK
  <2> QED BY <2>1, CleanUpInv
<1>4. CASE files[f].status # "pending" /\ files' = [files EXCEPT ![f] = Failed(f)]
  BY <1>3, <1>4 DEF Failed, Inv, TypeOK
<1>5. CASE files[f].status = "pending" /\ files' = [files EXCEPT ![f] = Failed(f)] /\ lost' = lost
  <2>1. /\ files' \in [Files -> File]
        /\ files'[f].status \in {"failed", "deleting"}
        /\ files'[f].status = "deleting" => ~files'[f].due
        /\ files'[f].leased => files'[f].owner # None
        /\ \A g \in Files : g # f => files'[g] = files[g]
    BY <1>1, <1>5, FailedRow DEF Inv, TypeOK
  <2>2. Published' = Published
    BY <1>1, <1>5, <2>1 DEF Published
  <2>3. \A g : Gone(g) => Gone(g)'
    BY <1>1, <1>2, <2>2, NoneIsNothing DEF Gone, ToPublish, InHand, Inv, TypeOK
  <2>4. f \notin links /\ f \in started
    BY <1>1, <1>5 DEF Inv, RowsSound, RowSound, KeysAreFresh
  <2> HIDE DEF f
  <2>5. TypeOK'
    BY <1>1, <1>2, <1>5, <2>1 DEF Inv, TypeOK, Deletable
  <2>6. KeysAreFresh'
    BY <1>1, <1>2, <2>1, <2>4 DEF Inv, KeysAreFresh
  <2>7. UploadsSound'
    BY <1>1, <1>2, <2>2 DEF Inv, UploadsSound, UploadSound, f
  <2>8. RowsSound'
    <3>1. \A g \in Files : InHand(g)' => InHand(g)
      BY <1>2, NoneIsNothing DEF InHand
    <3>2. \A g \in Files : g = f => ~InHand(g)'
      BY <1>1, <1>2 DEF InHand, Inv, UploadsSound, UploadSound, f
    <3> QED BY <1>1, <2>1, <2>4, <3>1, <3>2 DEF Inv, RowsSound, RowSound
  <2>9. PlaceSound'
    BY <1>1, <1>5, <2>1, <2>2 DEF Inv, PlaceSound
  <2>10. ErasuresSound'
    BY <1>1, <2>3 DEF Inv, ErasuresSound, WorkerSound
  <2>11. PublishedHasObject' /\ LinksWorkUntilTheyEnd'
    BY <1>1, <2>2 DEF Inv, PublishedHasObject, LinksWorkUntilTheyEnd
  <2>12. ObjectsAreAccountedFor'
    <3> SUFFICES ASSUME NEW g \in stored, g # f, InHand(g), ~InHand(g)'
                 PROVE  FALSE
      BY <1>1, <2>1, <2>2 DEF Inv, ObjectsAreAccountedFor, Deletable, TypeOK
    <3> QED BY <1>2 DEF InHand, f
  <2> QED
    BY <2>5, <2>6, <2>7, <2>8, <2>9, <2>10, <2>11, <2>12 DEF Inv
<1> QED
  BY <1>3, <1>4, <1>5 DEF FailUpload

\* A key that nobody has used is handed out.
LEMMA BeginUploadInv ==
    ASSUME Inv, NEW u \in Uploads, BeginUpload(u)
    PROVE  Inv'
<1>1. PICK f \in Files \ started :
        /\ started' = started \cup {f}
        /\ CASE kind = "image" -> ReserveBrandImage(f)
             [] kind = "menu" -> ReserveMenuDocument(f)
             [] kind = "photo" -> UNCHANGED files
        /\ uploads' = [uploads EXCEPT ![u] =
               [step |-> "put", file |-> f, version |-> place.version, seen |-> Published]]
  BY DEF BeginUpload
<1>2. /\ uploads[u].step = "idle" /\ place.version \in Versions /\ f # None
      /\ UNCHANGED <<kind, place, waiting, stored, links, workers, doubtful, untracked, lost>>
  BY NoneIsNothing DEF BeginUpload, Inv, TypeOK, Place
<1>3. /\ uploads' \in [Uploads -> Upload]
      /\ uploads'[u].step = "put" /\ uploads'[u].file = f
      /\ \A v \in Uploads : v # u => uploads'[v] = uploads[v]
  BY <1>1, <1>2, PublishedFiles DEF Inv, TypeOK, Upload
<1>4. /\ files[f].status = "none" /\ f \notin stored \cup links \cup waiting
      /\ f \notin {place.draft, place.shown}
      /\ \A v \in Uploads : uploads[v].file # f
      /\ \A g : Gone(g) => g # f
  BY <1>1, <1>2 DEF Inv, KeysAreFresh, Gone
<1>5. /\ files' \in [Files -> File]
      /\ \A g \in Files : g # f => files'[g] = files[g]
      /\ kind = "photo" => UNCHANGED files
      /\ kind # "photo" =>
           /\ files'[f].status = "pending" /\ ~files'[f].old /\ ~files'[f].leased
  <2>1. CASE kind = "image"
    <3>1. Published \subseteq Files
      BY <2>1 DEF Published
    <3>2. PICK g \in Files \cup {None} :
            files' = [files EXCEPT ![f] = [NoFile EXCEPT !.status = "pending", !.replaces = g]]
      BY <1>1, <2>1, <3>1 DEF ReserveBrandImage
    <3> QED BY <1>1, <2>1, <3>2 DEF NoFile, File, Deletable, Inv, TypeOK
  <2>2. CASE kind = "menu"
    <3>1. files' = [files EXCEPT ![f] = [NoFile EXCEPT !.status = "pending"]]
      BY <1>1, <2>2 DEF ReserveMenuDocument
    <3> QED BY <1>1, <2>2, <3>1 DEF NoFile, File, Deletable, Inv, TypeOK
  <2>3. CASE kind = "photo"
    BY <1>1, <2>3 DEF Inv, TypeOK
  <2> QED BY <2>1, <2>2, <2>3 DEF Inv, TypeOK
<1>6. Published' = Published
  BY <1>2, <1>4, <1>5 DEF Published, Inv, TypeOK
<1>7. \A g : Gone(g) => Gone(g)'
  BY <1>1, <1>2, <1>3, <1>4, <1>6 DEF Gone, ToPublish, InHand
<1>8. TypeOK'
  BY <1>1, <1>2, <1>3, <1>5 DEF Inv, TypeOK, Deletable
<1>9. KeysAreFresh'
  BY <1>1, <1>2, <1>3, <1>5 DEF Inv, KeysAreFresh
<1>10. UploadsSound'
  <2> SUFFICES ASSUME NEW v \in Uploads PROVE UploadSound(v)'
    BY DEF UploadsSound
  <2>1. CASE v = u
    <3>1. f \notin Published
      BY <1>2, <1>4 DEF Published
    <3> QED BY <1>2, <1>3, <1>4, <1>6, <2>1, <3>1 DEF UploadSound
  <2>2. CASE v # u
    <3>1. uploads[v].file # f
      BY <1>4
    <3> QED BY <1>2, <1>3, <1>6, <2>2, <3>1 DEF Inv, UploadsSound, UploadSound
  <2> QED BY <2>1, <2>2
<1>11. RowsSound'
  BY <1>2, <1>3, <1>4, <1>5 DEF Inv, RowsSound, RowSound, InHand
<1>12. PlaceSound'
  BY <1>1, <1>2, <1>4, <1>5, <1>6 DEF Inv, PlaceSound, Published
<1>13. ErasuresSound'
  BY <1>2, <1>7 DEF Inv, ErasuresSound, WorkerSound
<1>14. PublishedHasObject' /\ LinksWorkUntilTheyEnd'
  BY <1>2, <1>6 DEF Inv, PublishedHasObject, LinksWorkUntilTheyEnd
<1>15. ObjectsAreAccountedFor'
  <2>1. uploads[u].file = None
    BY <1>2 DEF Inv, UploadsSound, UploadSound
  <2>2. \A g \in Files : InHand(g) => InHand(g)'
    BY <1>3, <2>1, NoneIsNothing DEF InHand
  <2> QED BY <1>2, <1>4, <1>5, <1>6, <2>2 DEF Inv, ObjectsAreAccountedFor, TypeOK
<1> QED
  BY <1>8, <1>9, <1>10, <1>11, <1>12, <1>13, <1>14, <1>15 DEF Inv

\* What publishing does to rows, place and queue: f comes in, and what it replaces
\* is retired where the worker finds it.
Replaced(g) == \/ kind = "photo" /\ g \in waiting'
               \/ /\ kind # "photo" /\ files'[g].status = "deleting"
                  /\ ~files'[g].due /\ ~files'[g].leased /\ files'[g].old = files[g].old
Publishes(f) ==
    /\ files' \in [Files -> File] /\ place' \in Place /\ waiting' \subseteq Files
    /\ Published' \subseteq Published \cup {f} /\ f \in Published'
    /\ {place'.draft, place'.shown} \subseteq {place.draft, place.shown, f}
    /\ kind = "photo" => /\ UNCHANGED files /\ place'.draft = None
                         /\ Published' = {f} /\ waiting' = waiting \cup Published
    /\ kind = "menu" => place'.draft # place'.shown
    /\ kind # "photo" =>
         /\ files'[f].status = "live" /\ UNCHANGED waiting
         /\ files'[f].old = files[f].old /\ files'[f].leased = files[f].leased
    /\ \A g \in Files : g # f =>
         \/ files'[g] = files[g] /\ (g \in Published => g \in Published')
         \/ Replaced(g) /\ g \in Published /\ g \notin Published'
    /\ waiting \subseteq waiting'
    /\ \A g \in waiting' : g \in waiting \/ (g \in Published /\ g \notin Published')

\* ActivateBrandImage publishes the file and retires what it replaces.
LEMMA ImagePublishes ==
    ASSUME Inv, kind = "image", NEW f \in Files, files[f].status = "pending",
           ActivateBrandImage(f), UNCHANGED kind
    PROVE  Publishes(f)
<1>1. /\ files' \in [Files -> File] /\ UNCHANGED <<place, waiting>>
      /\ files'[f].status = "live" /\ files'[f].old = files[f].old
      /\ files'[f].leased = files[f].leased
  <2>1. \A g \in Files : files[g] \in File
    BY DEF Inv, TypeOK
  <2>2. \A g \in Files : /\ [files[g] EXCEPT !.status = "live"] \in File
                          /\ [files[g] EXCEPT !.status = "deleting", !.due = FALSE] \in File
    BY <2>1 DEF File, Deletable
  <2>3. files' \in [Files -> File] /\ UNCHANGED <<place, waiting>>
    BY <2>1, <2>2 DEF ActivateBrandImage
  <2>4. files'[f] = [files[f] EXCEPT !.status = "live"]
    BY DEF ActivateBrandImage
  <2> QED BY <2>1, <2>3, <2>4 DEF File
<1>2. ASSUME NEW g \in Files, g # f
      PROVE  \/ files'[g] = files[g]
             \/ /\ files[g].status = "live"
                /\ files'[g].status = "deleting" /\ ~files'[g].due
                /\ files'[g].leased = files[g].leased /\ files'[g].old = files[g].old
  BY <1>2 DEF ActivateBrandImage, Inv, TypeOK, File
<1>3. \A g \in Files : files[g].status = "live" => ~files[g].leased
  BY DEF Inv, TypeOK, Deletable
<1> QED
  BY <1>1, <1>2, <1>3 DEF Publishes, Replaced, Published, Inv, TypeOK

\* ActivateMenuDraft puts the file in the draft's place.
LEMMA MenuPublishes ==
    ASSUME Inv, kind = "menu", NEW f \in Files, f \notin Published,
           ActivateMenuDraft(f), UNCHANGED kind
    PROVE  Publishes(f)
<1>1. /\ files' \in [Files -> File] /\ UNCHANGED waiting
      /\ files'[f].status = "live" /\ files'[f].old = files[f].old
      /\ files'[f].leased = files[f].leased
  BY RetiredRow DEF ActivateMenuDraft, Inv, TypeOK, File
<1>2. /\ place' \in Place /\ place'.draft = f /\ place'.shown = place.shown
  <2>1. place \in Place /\ place.version + 1 \in Versions
    BY DEF Inv, TypeOK, Place, Versions
  <2> QED BY <2>1 DEF ActivateMenuDraft, Place
<1>3. ASSUME NEW g \in Files, g # f
      PROVE  \/ g # place.draft /\ files'[g] = files[g]
             \/ g = place.draft /\ files'[g] = Retired(files[g])
  BY <1>3 DEF ActivateMenuDraft
<1>4. \A g \in Files : files[g] \in File
  BY DEF Inv, TypeOK
<1>5. place.draft = place.shown => place.draft = None
  BY DEF Inv, PlaceSound
<1> QED
  BY <1>1, <1>2, <1>3, <1>4, <1>5, RetiredRow, NoneIsNothing
     DEF Publishes, Replaced, Published, Inv, TypeOK

\* ReplaceProfilePhoto shows the file and queues the photo it replaces.
LEMMA PhotoPublishes ==
    ASSUME Inv, kind = "photo", NEW f \in Files, f \notin Published,
           ReplaceProfilePhoto(f), UNCHANGED kind
    PROVE  Publishes(f)
<1>1. /\ place' \in Place /\ place'.draft = None /\ place'.shown = f /\ place.draft = None
      /\ place.shown \in Files \cup {None}
  <2>1. place \in Place /\ place.version + 1 \in Versions /\ place.draft = None
    BY DEF Inv, TypeOK, Place, Versions, PlaceSound
  <2> QED BY <2>1 DEF ReplaceProfilePhoto, Place
<1>2. waiting' = waiting \cup ({place.shown} \ {None}) /\ UNCHANGED files
  BY DEF ReplaceProfilePhoto
<1> QED
  BY <1>1, <1>2, NoneIsNothing DEF Publishes, Replaced, Published, Inv, TypeOK

\* A request publishes the file it holds, which is in the bucket; all it leaves
\* behind is the photo it replaced, or the doubt that it published at all.
LEMMA ActivateInv ==
    ASSUME Inv, NEW u \in Uploads, Activate(u)
    PROVE  Inv'
<1>1. PICK f \in Files : f = uploads[u].file
  BY NoneIsNothing DEF Inv, TypeOK, Upload, UploadsSound, UploadSound, Activate
<1>2. /\ uploads[u].step = "activate" /\ f # None /\ f \in stored
      /\ f \notin Published \cup waiting \cup links
      /\ \A v \in Uploads : uploads[v].file = f => v = u
      /\ InHand(f) /\ ToPublish(f)
      /\ UNCHANGED <<kind, stored, links, started, workers, untracked>>
  BY <1>1, NoneIsNothing DEF Activate, Inv, UploadsSound, UploadSound, InHand, ToPublish
<1>3. Publishes(f)
  <2>1. CASE kind = "image"
    BY <1>1, <1>2, <2>1, ImagePublishes DEF Activate, Activatable, Publish
  <2>2. CASE kind = "menu"
    BY <1>1, <1>2, <2>2, MenuPublishes DEF Activate, Activatable, Publish
  <2>3. CASE kind = "photo"
    BY <1>1, <1>2, <2>3, PhotoPublishes DEF Activate, Activatable, Publish
  <2> QED BY <2>1, <2>2, <2>3 DEF Inv, TypeOK
<1>4. /\ uploads' \in [Uploads -> Upload]
      /\ \A v \in Uploads : v # u => uploads'[v] = uploads[v]
      /\ doubtful \subseteq doubtful' /\ doubtful' \subseteq Files /\ lost' \in 0..MaxLost
      /\ \/ uploads'[u].step = "idle" /\ uploads'[u].file = None
         \/ /\ kind = "photo" /\ uploads'[u].step = "previous"
            /\ uploads'[u].file = place.shown /\ place.shown # None
         \/ /\ uploads'[u].file = f /\ f \in doubtful'
            /\ \/ uploads'[u].step = "undo" /\ kind # "menu"
               \/ uploads'[u].step = "fail" /\ kind = "menu"
  <2>1. CASE Over(u) /\ UNCHANGED <<doubtful, lost>>
    BY <2>1, OverMoves DEF Inv, TypeOK
  <2>2. CASE /\ kind = "photo" /\ place.shown # None
             /\ uploads' = [uploads EXCEPT ![u].step = "previous", ![u].file = place.shown]
             /\ UNCHANGED <<doubtful, lost>>
    BY <2>2 DEF Inv, TypeOK, Upload, Place
  <2>3. CASE Lose /\ Step(u, AfterError) /\ doubtful' = doubtful \cup {f}
    BY <1>1, <2>3, StepMoves, BoundsAreNatural DEF Inv, TypeOK, AfterError, Lose
  <2> QED BY <1>1, <2>1, <2>2, <2>3 DEF Activate
<1>5. \A v \in Uploads : v # u => uploads[v].file # f
  BY <1>2
<1>6. \A g \in Published : ~ToPublish(g)
  BY DEF ToPublish, Inv, UploadsSound, UploadSound
<1>7. \A g : ToPublish(g)' => ToPublish(g)
  BY <1>4 DEF ToPublish
<1>8. \A g : Gone(g) => Gone(g)' /\ g # f
  <2>1. \A g \in started : kind # "photo" /\ InHand(g)' => InHand(g)
    BY <1>1, <1>4, NoneIsNothing DEF InHand, Inv, TypeOK
  <2> QED BY <1>2, <1>3, <1>7, <2>1 DEF Gone, Publishes
<1>9. \A g \in Published : g \in Files /\ g \in started
  BY NoneIsNothing DEF Published, Inv, KeysAreFresh, TypeOK, Place
<1>10. TypeOK'
  <2>1. kind # "photo" => ~files[f].leased
    BY <1>2 DEF Inv, RowsSound, RowSound
  <2>2. \A g \in Files : files'[g].leased =>
                            files'[g].owner # None /\ files'[g].status \in Deletable
    BY <1>3, <2>1 DEF Inv, TypeOK, Publishes, Replaced
  <2> QED BY <1>2, <1>3, <1>4, <2>2 DEF Inv, TypeOK, Publishes
<1>11. KeysAreFresh'
  BY <1>1, <1>2, <1>3, <1>4, <1>9 DEF Inv, KeysAreFresh, Publishes, Replaced
<1>12. UploadsSound'
  <2> SUFFICES ASSUME NEW v \in Uploads PROVE UploadSound(v)'
    BY DEF UploadsSound
  <2>1. CASE v = u /\ uploads'[u].step = "idle" /\ uploads'[u].file = None
    BY <2>1 DEF UploadSound
  <2>2. CASE v = u /\ uploads'[u].step = "previous"
    <3>1. place.shown \in Published /\ kind = "photo" /\ uploads'[u].file = place.shown
          /\ place.shown # None
      BY <1>4, <2>2 DEF Published
    <3> QED BY <1>2, <1>3, <2>2, <3>1 DEF UploadSound, Publishes
  <2>3. CASE /\ v = u /\ uploads'[u].file = f /\ f \in doubtful'
             /\ \/ uploads'[u].step = "undo" /\ kind # "menu"
                \/ uploads'[u].step = "fail" /\ kind = "menu"
    <3>1. \A w \in Uploads : uploads'[w].file = f => w = u
      BY <1>4, <1>5
    <3> QED BY <1>2, <1>4, <2>3, <3>1 DEF UploadSound
  <2>4. CASE v # u
    <3>1. UploadSound(v) /\ uploads[v].file # f /\ uploads'[v] = uploads[v]
      BY <1>4, <1>5, <2>4 DEF Inv, UploadsSound
    <3>2. uploads'[u].file \in {None, f} \cup Published
      BY <1>4 DEF Published
    <3>3. \/ uploads[v].step \in {"put", "activate"}
          \/ uploads[v].step # "idle" /\ kind # "photo"
          => \A w \in Uploads : uploads'[w].file = uploads[v].file => w = v
      BY <1>4, <3>1, <3>2 DEF UploadSound
    <3>4. uploads[v].file \in Published' => uploads[v].file \in Published
      BY <1>3, <3>1 DEF Publishes
    <3>5. uploads[v].file \in waiting' => uploads[v].file \in waiting \cup Published
      BY <1>3 DEF Publishes
    <3> QED BY <1>2, <1>3, <1>4, <3>1, <3>3, <3>4, <3>5 DEF UploadSound, Publishes
  <2> QED BY <1>4, <2>1, <2>2, <2>3, <2>4
<1>13. RowsSound'
  <2> SUFFICES ASSUME NEW g \in Files PROVE RowSound(g)'
    BY DEF RowsSound
  <2>1. kind # "photo" /\ InHand(g)' => InHand(g)
    BY <1>1, <1>4, NoneIsNothing DEF InHand
  <2>2. RowSound(g)
    BY DEF Inv, RowsSound
  <2> QED BY <1>2, <1>3, <2>1, <2>2 DEF RowSound, Publishes, Replaced
<1>14. PlaceSound'
  BY <1>2, <1>3 DEF Inv, PlaceSound, Publishes, Replaced, Published
<1>15. ErasuresSound'
  BY <1>2, <1>3, <1>6, <1>7, <1>8, <1>9 DEF Inv, ErasuresSound, WorkerSound, Publishes, Gone
<1>16. PublishedHasObject' /\ LinksWorkUntilTheyEnd'
  BY <1>2, <1>3, <1>4 DEF Inv, PublishedHasObject, LinksWorkUntilTheyEnd, Publishes
<1>17. ObjectsAreAccountedFor'
  <2> SUFFICES ASSUME NEW g \in stored, g # f
               PROVE  \/ g \in Published' \cup waiting' \cup untracked
                      \/ files'[g].status \in Deletable
                      \/ InHand(g)'
    BY <1>2, <1>3 DEF ObjectsAreAccountedFor, Publishes
  <2>1. g \in Files
    BY DEF Inv, TypeOK
  <2>2. InHand(g) => InHand(g)'
    BY <1>1, <1>4 DEF InHand
  <2> QED BY <1>3, <2>1, <2>2 DEF Inv, ObjectsAreAccountedFor, Publishes, Replaced, Deletable
<1> QED
  BY <1>10, <1>11, <1>12, <1>13, <1>14, <1>15, <1>16, <1>17 DEF Inv

-----------------------------------------------------------------------------
(* What becomes of published files *)

\* Rows that are retired stop being published, and one that is neither pending nor
\* live stays what it is.
Retires ==
    /\ UNCHANGED <<kind, stored, links, started, uploads, workers, doubtful, untracked, lost>>
    /\ files' \in [Files -> File] /\ place' \in Place
    /\ Published' \subseteq Published
    /\ {place'.draft, place'.shown} \subseteq {place.draft, place.shown, None}
    /\ \A g \in Files :
         \/ files'[g] = files[g] /\ (g \in Published => g \in Published' \cup waiting')
         \/ /\ files[g].status \in {"live", "pending", "failed"} /\ kind # "photo"
            /\ files'[g].status = "deleting" /\ ~files'[g].due /\ ~files'[g].leased
            /\ files'[g].old = files[g].old /\ g \notin Published'
    /\ waiting \subseteq waiting'
    /\ \A g \in waiting' : g \in waiting \/ (g \in Published /\ g \notin Published')
    /\ IF kind = "photo" THEN place'.draft = None ELSE UNCHANGED waiting
    /\ kind = "menu" => /\ \A g \in Files : files'[g].status = "live" <=> g \in Published'
                        /\ place'.draft = place'.shown => place'.draft = None

\* What is retired and no longer published breaks nobody's notes.
LEMMA RetiresInv ==
    ASSUME Inv, Retires
    PROVE  Inv'
<1>1. \A g \in Published : ~ToPublish(g) /\ g \in started /\ g \in Files
  BY NoneIsNothing
     DEF ToPublish, Inv, UploadsSound, UploadSound, Published, KeysAreFresh, TypeOK, Place
<1>2. \A g : Gone(g) => Gone(g)'
  BY DEF Gone, ToPublish, InHand, Retires
<1>3. \A g \in Files : InHand(g)' <=> InHand(g)
  BY DEF InHand, Retires
<1>4. TypeOK'
  BY <1>1 DEF Inv, TypeOK, Retires, Deletable
<1>5. KeysAreFresh'
  BY <1>1 DEF Inv, KeysAreFresh, Retires
<1>6. UploadsSound'
  <2> SUFFICES ASSUME NEW v \in Uploads PROVE UploadSound(v)'
    BY DEF UploadsSound
  <2> QED BY DEF Inv, UploadsSound, UploadSound, Retires
<1>7. RowsSound'
  BY <1>3 DEF Inv, RowsSound, RowSound, Retires
<1>8. PlaceSound'
  BY DEF Inv, PlaceSound, Retires
<1>9. ErasuresSound'
  BY <1>1, <1>2 DEF Inv, ErasuresSound, WorkerSound, Retires, Gone, ToPublish, InHand
<1>10. PublishedHasObject' /\ LinksWorkUntilTheyEnd'
  BY DEF Inv, PublishedHasObject, LinksWorkUntilTheyEnd, Retires
<1>11. ObjectsAreAccountedFor'
  BY <1>3 DEF Inv, ObjectsAreAccountedFor, Retires, TypeOK, Deletable
<1> QED
  BY <1>4, <1>5, <1>6, <1>7, <1>8, <1>9, <1>10, <1>11 DEF Inv

\* Publishing, withdrawing and discarding only move or retire what is published.
LEMMA ChangePublicationInv ==
    ASSUME Inv, ChangePublication
    PROVE  Inv'
<1>1. UNCHANGED <<kind, waiting, stored, links, started, uploads, workers, doubtful,
                  untracked, lost>>
  BY DEF ChangePublication
<1>2. \A g \in Files : files[g] \in File
  BY DEF Inv, TypeOK
<1>3. CASE DeleteBrandImage
  <2>1. kind = "image" /\ UNCHANGED place
    BY <1>3 DEF DeleteBrandImage
  <2>2. PICK f \in Published :
          files' = [files EXCEPT ![f].status = "deleting", ![f].due = FALSE]
    BY <1>3 DEF DeleteBrandImage
  <2>3. /\ f \in Files /\ files[f].status = "live" /\ ~files[f].leased
        /\ \A g \in Files : g \in Published <=> files[g].status = "live"
    BY <2>1, <2>2 DEF Published, Inv, TypeOK, Deletable
  <2>4. /\ files' \in [Files -> File] /\ \A g \in Files : g # f => files'[g] = files[g]
        /\ files'[f].status = "deleting" /\ ~files'[f].due
        /\ files'[f].leased = files[f].leased /\ files'[f].old = files[f].old
    BY <1>2, <2>2, <2>3 DEF Inv, TypeOK, File, Deletable
  <2>5. Published' = Published \ {f}
    BY <1>1, <2>1, <2>3, <2>4 DEF Published
  <2> QED
    BY <1>1, <2>1, <2>3, <2>4, <2>5, RetiresInv DEF Retires, Inv, TypeOK
<1>4. ASSUME NEW draft \in {None, place.draft}, NEW shown \in {None, place.draft, place.shown},
             NEW retired \in {place.draft, place.shown}, MenuMoves(draft, shown, retired),
             {place.draft, place.shown} \subseteq {draft, shown, retired, None},
             retired # None => retired \notin {draft, shown},
             draft = shown => draft = None
      PROVE  Inv'
  <2>1. kind = "menu" /\ place \in Place /\ place.version + 1 \in Versions
    BY <1>4 DEF MenuMoves, Inv, TypeOK, Place, Versions
  <2>2. place' \in Place /\ place'.draft = draft /\ place'.shown = shown
    BY <1>4, <2>1 DEF MenuMoves, Place
  <2>3. \A g \in Files : /\ g # retired => files'[g] = files[g]
                         /\ g = retired => files'[g] = Retired(files[g])
    BY <1>4 DEF MenuMoves
  <2>4. files' \in [Files -> File]
    BY <1>2, <1>4, RetiredRow DEF MenuMoves
  <2>5. Published' = {draft, shown} \ {None} /\ Published = {place.draft, place.shown} \ {None}
    BY <1>1, <2>1, <2>2 DEF Published
  <2>6. \A g \in Files : files[g].status = "live" <=> g \in Published
    BY <2>1 DEF Inv, PlaceSound
  <2>7. retired \in Files => /\ files'[retired].status = "deleting" /\ ~files'[retired].due
                             /\ ~files'[retired].leased
                             /\ files'[retired].old = files[retired].old
    BY <1>2, <2>3, RetiredRow
  <2>8. Retires
    BY <1>1, <1>4, <2>1, <2>2, <2>3, <2>4, <2>5, <2>6, <2>7, NoneIsNothing DEF Retires
  <2> QED BY <2>8, RetiresInv
<1>5. kind = "menu" => (place.draft = place.shown => place.draft = None)
  BY DEF Inv, PlaceSound
<1>6. PublishMenu \/ UnpublishMenu \/ DiscardMenuDraft => kind = "menu"
  BY DEF PublishMenu, UnpublishMenu, DiscardMenuDraft, MenuMoves
<1>7. CASE PublishMenu
  BY <1>4, <1>5, <1>6, <1>7 DEF PublishMenu
<1>8. CASE UnpublishMenu
  BY <1>4, <1>5, <1>6, <1>8 DEF UnpublishMenu
<1>9. CASE DiscardMenuDraft
  BY <1>4, <1>5, <1>6, <1>9 DEF DiscardMenuDraft
<1> QED
  BY <1>3, <1>7, <1>8, <1>9 DEF ChangePublication

\* A place that closes retires everything it published.
LEMMA CloseInv ==
    ASSUME Inv, Close
    PROVE  Inv'
<1>1. UNCHANGED <<kind, stored, links, started, uploads, workers, doubtful, untracked, lost>>
  BY DEF Close
<1>2. /\ place' \in Place /\ place'.draft = None /\ place'.shown = None
  <2>1. place \in Place
    BY DEF Inv, TypeOK
  <2> QED BY <2>1 DEF Close, Place
<1>3. \A g \in Files : files[g] \in File
  BY DEF Inv, TypeOK
<1> DEFINE Ends(g) == \/ files[g].status \in {"live", "pending"}
                      \/ kind = "image" /\ files[g].status = "failed"
<1>4. \A g \in Files : files'[g] = IF Ends(g) THEN Retired(files[g]) ELSE files[g]
  BY DEF Close
<1>5. files' \in [Files -> File]
  BY <1>3, RetiredRow DEF Close
<1>6. Published' = {}
  <2>1. \A g \in Files : files'[g].status # "live"
    BY <1>3, <1>4, RetiredRow
  <2> QED BY <1>1, <1>2, <2>1 DEF Published
<1>7. kind = "photo" => /\ waiting' = waiting \cup Published
                        /\ \A g \in Files : files[g].status = "none"
  BY DEF Close, Published, Inv, PlaceSound
<1>8. kind # "photo" => waiting' = waiting
  BY DEF Close
<1>9. \A g \in Files : g \in Published /\ kind # "photo" => files[g].status = "live"
  <2>1. kind = "image" => \A g \in Files : g \in Published => files[g].status = "live"
    BY DEF Published
  <2>2. kind = "menu" => \A g \in Files : g \in Published => files[g].status = "live"
    BY DEF Inv, PlaceSound
  <2> QED BY <2>1, <2>2 DEF Inv, TypeOK
<1>10. ASSUME NEW g \in Files
       PROVE  \/ files'[g] = files[g] /\ (g \in Published => g \in Published' \cup waiting')
              \/ /\ files[g].status \in {"live", "pending", "failed"} /\ kind # "photo"
                 /\ files'[g].status = "deleting" /\ ~files'[g].due /\ ~files'[g].leased
                 /\ files'[g].old = files[g].old /\ g \notin Published'
  <2>1. CASE Ends(g)
    BY <1>3, <1>4, <1>6, <1>7, <2>1, RetiredRow
  <2>2. CASE ~Ends(g)
    BY <1>4, <1>7, <1>9, <2>2
  <2> QED BY <2>1, <2>2
<1>11. Retires
  <2>1. \A g \in Files : files'[g].status # "live"
    BY <1>3, <1>4, RetiredRow
  <2> HIDE DEF Ends
  <2> QED BY <1>1, <1>2, <1>5, <1>6, <1>7, <1>8, <1>10, <2>1 DEF Retires
<1> QED BY <1>11, RetiresInv

\* A file is signed for while it is published.
LEMMA SignInv ==
    ASSUME Inv, NEW f \in Files, Sign(f)
    PROVE  Inv'
<1>1. /\ f \in Published /\ links' = links \cup {f}
      /\ UNCHANGED <<kind, files, place, waiting, stored, started, uploads, workers,
                     doubtful, untracked, lost>>
  BY DEF Sign, db
<1>2. Published' = Published
  BY <1>1, PublishedStays
<1>3. f \in started /\ (kind # "photo" => files[f].status = "live")
  <2>1. kind = "image" => files[f].status = "live"
    BY <1>1 DEF Published
  <2>2. kind = "menu" => files[f].status = "live"
    BY <1>1 DEF Inv, PlaceSound
  <2>3. f \in started
    BY <1>1, <2>1 DEF Published, Inv, KeysAreFresh
  <2> QED BY <2>1, <2>2, <2>3 DEF Inv, TypeOK
<1>4. \A g : Gone(g) => Gone(g)' /\ g # f
  BY <1>1, <1>2 DEF Gone, ToPublish, InHand
<1>5. TypeOK'
  BY <1>1 DEF Inv, TypeOK
<1>6. KeysAreFresh'
  BY <1>1, <1>3 DEF Inv, KeysAreFresh
<1>7. UploadsSound'
  BY <1>1, <1>2 DEF Inv, UploadsSound, UploadSound
<1>8. RowsSound'
  BY <1>1, <1>3 DEF Inv, RowsSound, RowSound, InHand
<1>9. PlaceSound'
  BY <1>1, <1>2 DEF Inv, PlaceSound
<1>10. ErasuresSound'
  BY <1>1, <1>4 DEF Inv, ErasuresSound, WorkerSound
<1>11. PublishedHasObject' /\ LinksWorkUntilTheyEnd' /\ ObjectsAreAccountedFor'
  BY <1>1, <1>2
     DEF Inv, PublishedHasObject, LinksWorkUntilTheyEnd, ObjectsAreAccountedFor, InHand
<1> QED
  BY <1>5, <1>6, <1>7, <1>8, <1>9, <1>10, <1>11 DEF Inv

\* A signed link ends.
LEMMA LinkEndsInv ==
    ASSUME Inv, NEW f \in Files, LinkEnds(f)
    PROVE  Inv'
<1>1. /\ links' \subseteq links
      /\ UNCHANGED <<kind, files, place, waiting, stored, started, uploads, workers,
                     doubtful, untracked, lost>>
  BY DEF LinkEnds, db
<1>2. Published' = Published
  BY <1>1, PublishedStays
<1>3. TypeOK'
  BY <1>1 DEF Inv, TypeOK
<1>4. KeysAreFresh' /\ UploadsSound' /\ RowsSound' /\ PlaceSound'
  BY <1>1, <1>2
     DEF Inv, KeysAreFresh, UploadsSound, UploadSound, RowsSound, RowSound, InHand, PlaceSound
<1>5. ErasuresSound'
  BY <1>1, <1>2 DEF Inv, ErasuresSound, WorkerSound, Gone, ToPublish, InHand
<1>6. PublishedHasObject' /\ LinksWorkUntilTheyEnd' /\ ObjectsAreAccountedFor'
  BY <1>1, <1>2
     DEF Inv, PublishedHasObject, LinksWorkUntilTheyEnd, ObjectsAreAccountedFor, InHand
<1> QED
  BY <1>3, <1>4, <1>5, <1>6 DEF Inv

-----------------------------------------------------------------------------
(* The maintenance worker *)

\* Time and the worker's leases move no row from one state to another, except that
\* a menu that is claimed is being deleted; what becomes due has no request and no
\* link left.
Tends ==
    /\ UNCHANGED <<kind, place, waiting, stored, links, started, uploads, doubtful, untracked>>
    /\ lost' \in 0..MaxLost
    /\ files' \in [Files -> File]
    /\ \A g \in Files :
         /\ \/ files'[g].status = files[g].status
            \/ files[g].status \in Deletable /\ files'[g].status = "deleting" /\ ~InHand(g)
         /\ files'[g].old # files[g].old => ~InHand(g)
         /\ files'[g].due # files[g].due => ~InHand(g) /\ g \notin links
         /\ files'[g].leased =>
              /\ files'[g].owner # None /\ files'[g].status \in Deletable
              /\ InHand(g) => files[g].leased

\* Tending rows publishes nothing and withdraws nothing.
LEMMA TendsPublished ==
    ASSUME Tends
    PROVE  Published' = Published
<1>1. \A g \in Files : files'[g].status = "live" <=> files[g].status = "live"
  BY DEF Tends, Deletable
<1> QED BY <1>1 DEF Published, Tends

\* Tending rows keeps everybody's notes true.
LEMMA TendsInv ==
    ASSUME Inv, Tends, workers' \in [Workers -> Worker], ErasuresSound'
    PROVE  Inv'
<1>1. \A g \in Files : files'[g].status = "live" <=> files[g].status = "live"
  BY DEF Tends, Deletable
<1>2. Published' = Published
  BY TendsPublished
<1>3. TypeOK'
  BY DEF Inv, TypeOK, Tends
<1>4. KeysAreFresh'
  BY DEF Inv, KeysAreFresh, Tends, Deletable
<1>5. UploadsSound'
  BY <1>2 DEF Inv, UploadsSound, UploadSound, Tends
<1>6. RowsSound'
  <2> SUFFICES ASSUME NEW g \in Files PROVE RowSound(g)'
    BY DEF RowsSound
  <2>1. InHand(g)' <=> InHand(g)
    BY DEF InHand, Tends
  <2>2. files[g].due \in BOOLEAN /\ files'[g].due \in BOOLEAN
    BY DEF Inv, TypeOK, File, Tends
  <2> QED BY <1>1, <2>1, <2>2 DEF Inv, RowsSound, RowSound, Tends, Deletable
<1>7. PlaceSound'
  BY <1>1, <1>2 DEF Inv, PlaceSound, Tends, Deletable
<1>8. PublishedHasObject' /\ LinksWorkUntilTheyEnd'
  BY <1>2 DEF Inv, PublishedHasObject, LinksWorkUntilTheyEnd, Tends
<1>9. ObjectsAreAccountedFor'
  <2>1. \A g \in Files : files[g].status \in Deletable => files'[g].status \in Deletable
    BY DEF Tends, Deletable
  <2> QED BY <1>2, <2>1 DEF Inv, ObjectsAreAccountedFor, InHand, Tends, TypeOK
<1> QED
  BY <1>3, <1>4, <1>5, <1>6, <1>7, <1>8, <1>9 DEF Inv

\* A retired row becomes due when no request and no link is left.
LEMMA ComeDueInv ==
    ASSUME Inv, NEW f \in Files, ComeDue(f)
    PROVE  Inv'
<1>1. /\ files' = [files EXCEPT ![f].due = TRUE] /\ f \notin links /\ ~InHand(f)
      /\ UNCHANGED <<kind, place, waiting, stored, links, started, uploads, workers,
                     doubtful, untracked, lost>>
  BY DEF ComeDue
<1>2. /\ files' \in [Files -> File] /\ \A g \in Files : g # f => files'[g] = files[g]
      /\ files'[f].status = files[f].status /\ files'[f].old = files[f].old
      /\ files'[f].leased = files[f].leased /\ files'[f].owner = files[f].owner
  BY <1>1 DEF Inv, TypeOK, File
<1>3. Tends
  BY <1>1, <1>2 DEF Tends, Inv, TypeOK
<1>4. Published' = Published
  BY <1>3, TendsPublished
<1>5. ErasuresSound'
  BY <1>1, <1>4 DEF Inv, ErasuresSound, WorkerSound, Gone, ToPublish, InHand
<1> QED BY <1>1, <1>3, <1>5, TendsInv DEF Inv, TypeOK

\* A pending row grows old when no request has it.
LEMMA AgeInv ==
    ASSUME Inv, NEW f \in Files, Age(f)
    PROVE  Inv'
<1>1. /\ files' = [files EXCEPT ![f].old = TRUE] /\ ~InHand(f)
      /\ UNCHANGED <<kind, place, waiting, stored, links, started, uploads, workers,
                     doubtful, untracked, lost>>
  BY DEF Age
<1>2. /\ files' \in [Files -> File] /\ \A g \in Files : g # f => files'[g] = files[g]
      /\ files'[f].status = files[f].status /\ files'[f].due = files[f].due
      /\ files'[f].leased = files[f].leased /\ files'[f].owner = files[f].owner
  BY <1>1 DEF Inv, TypeOK, File
<1>3. Tends
  BY <1>1, <1>2 DEF Tends, Inv, TypeOK
<1>4. Published' = Published
  BY <1>3, TendsPublished
<1>5. ErasuresSound'
  BY <1>1, <1>4 DEF Inv, ErasuresSound, WorkerSound, Gone, ToPublish, InHand
<1> QED BY <1>1, <1>3, <1>5, TendsInv DEF Inv, TypeOK

\* A worker's lease ends, early or on time.
LEMMA LeaseEndsInv ==
    ASSUME Inv, NEW f \in Files, LeaseEnds(f)
    PROVE  Inv'
<1>1. /\ files' = [files EXCEPT ![f].leased = FALSE]
      /\ UNCHANGED <<kind, place, waiting, stored, links, started, uploads, workers,
                     doubtful, untracked>>
  BY DEF LeaseEnds
<1>2. /\ files' \in [Files -> File] /\ \A g \in Files : g # f => files'[g] = files[g]
      /\ files'[f].status = files[f].status /\ files'[f].due = files[f].due
      /\ files'[f].old = files[f].old /\ ~files'[f].leased
  BY <1>1 DEF Inv, TypeOK, File
<1>3. lost' \in 0..MaxLost
  BY BoundsAreNatural DEF LeaseEnds, Lose, Inv, TypeOK
<1>4. Tends
  BY <1>1, <1>2, <1>3 DEF Tends, Inv, TypeOK
<1>5. Published' = Published
  BY <1>4, TendsPublished
<1>6. ErasuresSound'
  BY <1>1, <1>5 DEF Inv, ErasuresSound, WorkerSound, Gone, ToPublish, InHand
<1> QED BY <1>1, <1>4, <1>6, TendsInv DEF Inv, TypeOK

\* A worker that has begun nothing of its batch yet.
LEMMA BatchInHand ==
    ASSUME NEW batch \in SUBSET Files
    PROVE  LET hands == [NoWorker EXCEPT !.batch = batch]
           IN  hands \in Worker /\ hands.batch = batch /\ hands.item = None /\ ~hands.erased
  BY DEF NoWorker, Worker

\* What is due has neither request nor link, so that a worker takes only what is
\* gone; a photo that waits was replaced.
LEMMA ClaimInv ==
    ASSUME Inv, NEW w \in Workers, Claim(w)
    PROVE  Inv'
<1>1. PICK batch \in IF kind = "photo" THEN {waiting} ELSE SUBSET {f \in Files : Due(f)} :
        /\ files' = IF kind = "photo" THEN files
                    ELSE [f \in Files |-> IF f \in batch THEN Claimed(f, w) ELSE files[f]]
        /\ workers' = [workers EXCEPT ![w].batch = batch]
  BY DEF Claim
<1>2. /\ workers[w] = NoWorker
      /\ UNCHANGED <<kind, place, waiting, stored, links, started, uploads, doubtful,
                     untracked, lost>>
  BY DEF Claim
<1>3. ASSUME NEW f \in Files, Due(f), kind # "photo"
      PROVE  Gone(f) /\ f \notin links /\ ~InHand(f) /\ files[f].status \in Deletable
  <2>1. files[f].status \in Deletable
    BY <1>3 DEF Due, Deletable
  <2>2. ~InHand(f) /\ f \notin links
    BY <1>3 DEF Due, Inv, RowsSound, RowSound
  <2>3. ~ToPublish(f) /\ f \in started
    BY <2>1, <2>2 DEF ToPublish, InHand, Inv, KeysAreFresh, Deletable
  <2>4. f \notin Published
    BY <1>3, <2>1 DEF Published, Due, Deletable
  <2> QED BY <2>1, <2>2, <2>3, <2>4 DEF Gone
<1>4. /\ batch \subseteq Files
      /\ \A f \in batch : Gone(f) /\ (kind # "photo" => f \notin links)
  BY <1>1, <1>3 DEF Inv, TypeOK, ErasuresSound
<1>5. /\ workers' \in [Workers -> Worker]
      /\ workers'[w].batch = batch /\ workers'[w].item = None /\ ~workers'[w].erased
      /\ \A x \in Workers : x # w => workers'[x] = workers[x]
  <2>1. workers' = [workers EXCEPT ![w] = [NoWorker EXCEPT !.batch = batch]]
    BY <1>1, <1>2
  <2>3. workers \in [Workers -> Worker]
    BY DEF Inv, TypeOK
  <2> QED BY <1>4, <2>1, <2>3, BatchInHand
<1>6. ASSUME NEW g \in Files, kind # "photo", g \in batch
      PROVE  /\ Claimed(g, w) \in File /\ Claimed(g, w).owner = w
             /\ Claimed(g, w).status \in {files[g].status, "deleting"}
             /\ Claimed(g, w).old = files[g].old /\ Claimed(g, w).due = files[g].due
  <2>1. files[g] \in File
    BY DEF Inv, TypeOK
  <2>2. CASE kind = "menu"
    BY <2>1, <2>2 DEF Claimed, File, Deletable
  <2>3. CASE kind # "menu"
    BY <2>1, <2>3 DEF Claimed, File, Deletable
  <2> QED BY <2>2, <2>3
<1>7. Tends
  <2>1. CASE kind = "photo"
    BY <1>1, <1>2, <2>1 DEF Tends, Inv, TypeOK
  <2>2. CASE kind # "photo"
    <3>1. ASSUME NEW g \in Files
          PROVE  \/ files'[g] = files[g]
                 \/ g \in batch /\ files'[g] = Claimed(g, w) /\ Due(g)
      BY <1>1, <2>2
    <3>2. files' \in [Files -> File]
      BY <1>1, <1>6, <2>2 DEF Inv, TypeOK
    <3>3. w # None
      BY NoneIsNothing
    <3> QED
      BY <1>2, <1>3, <1>6, <2>2, <3>1, <3>2, <3>3 DEF Tends, Inv, TypeOK, Deletable
  <2> QED BY <2>1, <2>2
<1>8. Published' = Published
  BY <1>7, TendsPublished
<1>9. \A g : Gone(g) => Gone(g)'
  BY <1>2, <1>8 DEF Gone, ToPublish, InHand
<1>10. ErasuresSound'
  BY <1>2, <1>4, <1>5, <1>9 DEF Inv, ErasuresSound, WorkerSound
<1> QED BY <1>5, <1>7, <1>10, TendsInv

\* What a worker erases is gone, and no link shows it.
LEMMA EraseObjectInv ==
    ASSUME Inv, NEW w \in Workers, EraseObject(w)
    PROVE  Inv'
<1>1. PICK f \in workers[w].batch :
        \/ /\ stored' = stored \ {f} /\ UNCHANGED lost
           /\ workers' = [workers EXCEPT ![w].item = f, ![w].erased = TRUE]
        \/ /\ Lose /\ UNCHANGED stored
           /\ workers' = [workers EXCEPT ![w].item = f, ![w].erased = FALSE]
  BY DEF EraseObject
<1>2. UNCHANGED <<kind, files, place, waiting, links, started, uploads, doubtful, untracked>>
  BY DEF EraseObject, db
<1>3. f \in Files /\ Gone(f) /\ (kind # "photo" => f \notin links)
  BY DEF Inv, TypeOK, Worker, ErasuresSound, WorkerSound
<1>4. /\ stored' \subseteq stored /\ stored \subseteq stored' \cup {f}
      /\ lost' \in 0..MaxLost
  BY <1>1, BoundsAreNatural DEF Lose, Inv, TypeOK
<1>5. /\ workers' \in [Workers -> Worker]
      /\ workers'[w].batch = workers[w].batch /\ workers'[w].item = f
      /\ workers'[w].erased => f \notin stored'
      /\ \A x \in Workers : x # w => workers'[x] = workers[x]
  BY <1>1, <1>3 DEF Inv, TypeOK, Worker
<1>6. Published' = Published
  BY <1>2, PublishedStays
<1>7. \A g : Gone(g) => Gone(g)'
  BY <1>2, <1>6 DEF Gone, ToPublish, InHand
<1>8. TypeOK'
  BY <1>2, <1>4, <1>5 DEF Inv, TypeOK
<1>9. KeysAreFresh' /\ RowsSound' /\ PlaceSound'
  BY <1>2, <1>4, <1>6 DEF Inv, KeysAreFresh, RowsSound, RowSound, InHand, PlaceSound
<1>10. UploadsSound'
  BY <1>2, <1>3, <1>4, <1>6 DEF Inv, UploadsSound, UploadSound, Gone, ToPublish, InHand
<1>11. ErasuresSound'
  <2>1. \A g \in waiting' : Gone(g)'
    BY <1>2, <1>7 DEF Inv, ErasuresSound
  <2>2. ASSUME NEW x \in Workers PROVE WorkerSound(x)'
    <3>1. CASE x = w
      BY <1>2, <1>3, <1>5, <1>7, <3>1, NoneIsNothing DEF Inv, ErasuresSound, WorkerSound
    <3>2. CASE x # w
      BY <1>2, <1>4, <1>5, <1>7, <3>2 DEF Inv, ErasuresSound, WorkerSound
    <3> QED BY <3>1, <3>2
  <2> QED BY <2>1, <2>2 DEF ErasuresSound
<1>12. PublishedHasObject' /\ LinksWorkUntilTheyEnd' /\ ObjectsAreAccountedFor'
  BY <1>2, <1>3, <1>4, <1>6
     DEF Inv, PublishedHasObject, LinksWorkUntilTheyEnd, ObjectsAreAccountedFor, InHand, Gone
<1> QED
  BY <1>8, <1>9, <1>10, <1>11, <1>12 DEF Inv

\* A row is finished, or leaves the queue, only when its object is gone.
LEMMA CompleteInv ==
    ASSUME Inv, NEW w \in Workers, Complete(w)
    PROVE  Inv'
<1>1. PICK f \in Files : f = workers[w].item
  BY DEF Complete, Inv, TypeOK, Worker
<1>2. /\ Gone(f) /\ (kind # "photo" => f \notin links) /\ f \in workers[w].batch
      /\ workers[w].erased => f \notin stored
      /\ UNCHANGED <<kind, place, stored, links, started, uploads, doubtful, untracked>>
  BY <1>1, NoneIsNothing DEF Complete, Inv, ErasuresSound, WorkerSound
<1>3. /\ waiting' \subseteq waiting /\ waiting \subseteq waiting' \cup {f}
      /\ waiting' # waiting => f \notin stored
      /\ lost' \in 0..MaxLost
  BY <1>1, <1>2, BoundsAreNatural DEF Complete, Lose, Inv, TypeOK
<1>4. /\ files' \in [Files -> File]
      /\ \A g \in Files : g # f => files'[g] = files[g]
      /\ \/ files'[f] = files[f]
         \/ /\ files[f].status \in Deletable /\ kind # "photo" /\ ~files'[f].leased
            /\ \/ files'[f].status = "deleted" /\ f \notin stored
               \/ files'[f].status = files[f].status /\ ~files'[f].due
                  /\ files'[f].old = files[f].old
  <2>1. files \in [Files -> File] /\ files[f] \in File
    BY DEF Inv, TypeOK
  <2>2. Completed(f, w) \in File
    BY <2>1 DEF Completed, Unleased, File, Deletable
  <2>3. \/ Completed(f, w) = files[f]
        \/ /\ files[f].status \in Deletable /\ ~Completed(f, w).leased
           /\ \/ Completed(f, w).status = "deleted" /\ f \notin stored
              \/ Completed(f, w).status = files[f].status /\ ~Completed(f, w).due
                 /\ Completed(f, w).old = files[f].old
    BY <1>2, <2>1 DEF Completed, Unleased, File
  <2>4. \/ files' = files
        \/ kind # "photo" /\ files' = [files EXCEPT ![f] = Completed(f, w)]
    BY <1>1 DEF Complete
  <2> QED BY <2>1, <2>2, <2>3, <2>4
<1>5. /\ workers' \in [Workers -> Worker]
      /\ workers'[w].batch \subseteq workers[w].batch
      /\ workers'[w].item = None /\ ~workers'[w].erased
      /\ \A x \in Workers : x # w => workers'[x] = workers[x]
  <2>1. workers' = [workers EXCEPT ![w] =
                       [NoWorker EXCEPT !.batch = workers[w].batch \ {f}]]
    BY <1>1 DEF Complete
  <2>2. workers \in [Workers -> Worker] /\ workers[w].batch \subseteq Files
    BY DEF Inv, TypeOK, Worker
  <2> QED BY <2>1, <2>2, BatchInHand
<1>6. Published' = Published
  <2>1. \A g \in Files : files'[g].status = "live" <=> files[g].status = "live"
    BY <1>4 DEF Deletable
  <2> QED BY <1>2, <2>1 DEF Published
<1>7. \A g : Gone(g) => Gone(g)'
  BY <1>2, <1>6 DEF Gone, ToPublish, InHand
<1>8. TypeOK'
  BY <1>2, <1>3, <1>4, <1>5 DEF Inv, TypeOK
<1>9. KeysAreFresh'
  BY <1>2, <1>3, <1>4 DEF Inv, KeysAreFresh, Gone
<1>10. UploadsSound'
  BY <1>2, <1>3, <1>6 DEF Inv, UploadsSound, UploadSound
<1>11. RowsSound'
  <2> SUFFICES ASSUME NEW g \in Files PROVE RowSound(g)'
    BY DEF RowsSound
  <2>1. InHand(g)' <=> InHand(g)
    BY <1>2 DEF InHand
  <2>2. CASE g = f /\ files'[f].status = "deleted"
    BY <1>2, <2>1, <2>2 DEF RowSound, Gone
  <2>3. CASE ~(g = f /\ files'[f].status = "deleted")
    BY <1>2, <1>4, <2>1, <2>3 DEF Inv, RowsSound, RowSound
  <2> QED BY <2>2, <2>3
<1>12. PlaceSound'
  BY <1>2, <1>4, <1>6 DEF Inv, PlaceSound, Deletable
<1>13. ErasuresSound'
  BY <1>2, <1>3, <1>5, <1>7 DEF Inv, ErasuresSound, WorkerSound
<1>14. PublishedHasObject' /\ LinksWorkUntilTheyEnd'
  BY <1>2, <1>6 DEF Inv, PublishedHasObject, LinksWorkUntilTheyEnd
<1>15. ObjectsAreAccountedFor'
  BY <1>2, <1>3, <1>4, <1>6 DEF Inv, ObjectsAreAccountedFor, InHand, TypeOK
<1> QED
  BY <1>8, <1>9, <1>10, <1>11, <1>12, <1>13, <1>14, <1>15 DEF Inv

\* A worker stops; the rows it had leased stay as they are.
LEMMA StopWorkerInv ==
    ASSUME Inv, NEW w \in Workers, StopWorker(w)
    PROVE  Inv'
<1>1. /\ UNCHANGED <<kind, files, place, waiting, stored, links, started, uploads, doubtful,
                     untracked>>
      /\ workers' = [workers EXCEPT ![w] = NoWorker] /\ lost' \in 0..MaxLost
  BY BoundsAreNatural DEF StopWorker, Lose, db, Inv, TypeOK
<1>2. workers' \in [Workers -> Worker] /\ workers'[w] = NoWorker
      /\ \A x \in Workers : x # w => workers'[x] = workers[x]
  BY <1>1 DEF Inv, TypeOK, Worker, NoWorker
<1>3. Tends
  BY <1>1 DEF Tends, Inv, TypeOK
<1>4. ErasuresSound'
  <2>1. Published' = Published
    BY <1>1, PublishedStays
  <2>2. \A g : Gone(g) => Gone(g)'
    BY <1>1, <2>1 DEF Gone, ToPublish, InHand
  <2> QED BY <1>1, <1>2, <2>2 DEF Inv, ErasuresSound, WorkerSound, NoWorker
<1> QED BY <1>2, <1>3, <1>4, TendsInv

-----------------------------------------------------------------------------
(* The theorems *)

\* An empty store satisfies the invariant.
LEMMA InitInv == Init => Inv
<1> SUFFICES ASSUME Init PROVE Inv
  OBVIOUS
<1>1. /\ \A f \in Files : files[f].status = "none" /\ ~files[f].leased
      /\ files \in [Files -> File] /\ place \in Place
      /\ \A u \in Uploads : uploads[u].step = "idle" /\ uploads[u].file = None
      /\ uploads \in [Uploads -> Upload]
      /\ \A w \in Workers : /\ workers[w].batch = {} /\ workers[w].item = None
                            /\ ~workers[w].erased
      /\ workers \in [Workers -> Worker]
  BY DEF Init, NoFile, File, Place, Versions, NoUpload, Upload, NoWorker, Worker
<1>2. Published = {} /\ place.draft = None /\ place.shown = None
  BY <1>1 DEF Published, Init
<1>3. TypeOK
  BY <1>1, BoundsAreNatural DEF TypeOK, Init
<1>4. KeysAreFresh /\ UploadsSound /\ RowsSound /\ PlaceSound
  BY <1>1, <1>2, NoneIsNothing
     DEF Init, KeysAreFresh, UploadsSound, UploadSound, RowsSound, RowSound, InHand, PlaceSound
<1>5. ErasuresSound
  BY <1>1 DEF Init, ErasuresSound, WorkerSound
<1>6. PublishedHasObject /\ ObjectsAreAccountedFor /\ LinksWorkUntilTheyEnd
  BY <1>2 DEF Init, PublishedHasObject, ObjectsAreAccountedFor, LinksWorkUntilTheyEnd
<1> QED
  BY <1>3, <1>4, <1>5, <1>6 DEF Inv

\* The invariant speaks of the variables only.
LEMMA StutterInv ==
    ASSUME Inv, UNCHANGED vars
    PROVE  Inv'
<1>1. /\ UNCHANGED <<kind, files, place, waiting, stored, links, started, uploads, workers,
                     doubtful, untracked, lost>>
      /\ Published' = Published
  BY PublishedStays DEF vars
<1>2. ErasuresSound'
  BY <1>1 DEF Inv, ErasuresSound, WorkerSound, Gone, ToPublish, InHand
<1>3. Tends
  BY <1>1 DEF Tends, Inv, TypeOK
<1> QED BY <1>1, <1>2, <1>3, TendsInv DEF Inv, TypeOK

\* Everything Inv says holds of every reachable state.
THEOREM InductiveInvariant == Spec => []Inv
<1>1. Inv /\ [Next]_vars => Inv'
  <2> SUFFICES ASSUME Inv, [Next]_vars PROVE Inv'
    OBVIOUS
  <2>1. ASSUME NEW u \in Uploads, BeginUpload(u) \/ UploadStep(u) \/ StopUpload(u)
        PROVE  Inv'
    BY <2>1, BeginUploadInv, PutInv, ActivateInv, ActivateFailsInv, UndoInv, FailUploadInv,
       ErasePreviousInv, StopUploadInv DEF UploadStep
  <2>2. CASE ChangePublication \/ Close
    BY <2>2, ChangePublicationInv, CloseInv
  <2>3. ASSUME NEW f \in Files, Sign(f) \/ TimePasses(f)
        PROVE  Inv'
    BY <2>3, SignInv, ComeDueInv, AgeInv, LeaseEndsInv, LinkEndsInv DEF TimePasses
  <2>4. ASSUME NEW w \in Workers, WorkerStep(w) \/ StopWorker(w)
        PROVE  Inv'
    BY <2>4, ClaimInv, EraseObjectInv, CompleteInv, StopWorkerInv DEF WorkerStep
  <2>5. CASE UNCHANGED vars
    BY <2>5, StutterInv
  <2> QED BY <2>1, <2>2, <2>3, <2>4, <2>5 DEF Next
<1> QED BY <1>1, InitInv, PTL DEF Spec

\* The rows stay well formed; every object in the bucket is published, or known to a
\* row, the queue, a request or the list of cut photos; a signed link of an image or a
\* menu works until it ends (BrandImages, PublicBranchMenu against the maintenance
\* worker), one of a photo while the photo is shown (ProfilePhoto against
\* UploadProfilePhoto).
THEOREM MediaIsAccountedFor == Spec => []MediaInv
<1>1. Inv => MediaInv
  BY DEF Inv, MediaInv
<1> QED BY <1>1, InductiveInvariant, PTL

\* What is published can be fetched, whatever was cut, retired and erased, with the
\* exception of what was published in doubt; menus have none.
THEOREM PublishedIsStored == Spec => []PublishedHasObject
<1>1. Inv => PublishedHasObject
  BY DEF Inv
<1> QED BY <1>1, InductiveInvariant, PTL

-----------------------------------------------------------------------------
(* What a request saw *)

\* As long as the place is open at the version a request began with, what is published
\* there is what the request saw; an image's row names what its request saw, if anything.
Saw(u) ==
    /\ uploads[u].version <= place.version
    /\ uploads[u].step \in {"put", "activate"} =>
         /\ kind # "image" /\ place.open /\ place.version = uploads[u].version =>
              Published = uploads[u].seen
         /\ kind = "image" /\ files[uploads[u].file].status = "pending" =>
              files[uploads[u].file].replaces \in uploads[u].seen \cup {None}
AllSaw == \A u \in Uploads : Saw(u)

\* Whatever changes what is published there moves the version on, or closes the place.
LEMMA PlaceMoves ==
    ASSUME Inv, [Next]_vars
    PROVE  /\ UNCHANGED kind /\ place.version <= place'.version /\ place'.version \in Versions
           /\ place'.open => place.open
           /\ kind # "image" =>
                \/ place'.version # place.version
                \/ ~place'.open
                \/ Published' = Published
<1>1. place \in Place /\ place.version \in Nat /\ place.version >= 1
      /\ place.version + 1 \in Versions
  BY DEF Inv, TypeOK, Place, Versions
<1>2. CASE UNCHANGED <<kind, place>>
  BY <1>1, <1>2 DEF Published, Place, Versions
<1>3. ASSUME NEW u \in Uploads, Activate(u)
      PROVE  \/ UNCHANGED <<kind, place>>
             \/ /\ UNCHANGED kind /\ place'.version = place.version + 1
                /\ place'.open = place.open
  <2>1. CASE kind = "image"
    BY <1>3, <2>1 DEF Activate, Publish, ActivateBrandImage
  <2>2. CASE kind = "menu"
    BY <1>1, <1>3, <2>2 DEF Activate, Publish, ActivateMenuDraft, Place
  <2>3. CASE kind = "photo"
    BY <1>1, <1>3, <2>3 DEF Activate, Publish, ReplaceProfilePhoto, Place
  <2> QED BY <2>1, <2>2, <2>3 DEF Inv, TypeOK
<1>4. ASSUME ChangePublication
      PROVE  \/ UNCHANGED <<kind, place>>
             \/ /\ UNCHANGED kind /\ place'.version = place.version + 1
                /\ place'.open = place.open
  BY <1>1, <1>4 DEF ChangePublication, DeleteBrandImage, PublishMenu, UnpublishMenu,
                    DiscardMenuDraft, MenuMoves, Place
<1>5. ASSUME Close
      PROVE  UNCHANGED kind /\ place'.version = place.version /\ ~place'.open
  BY <1>1, <1>5 DEF Close, Place
<1>6. \/ UNCHANGED <<kind, place>>
      \/ \E u \in Uploads : Activate(u)
      \/ ChangePublication \/ Close
  <2>1. ASSUME NEW u \in Uploads, BeginUpload(u) \/ UploadStep(u) \/ StopUpload(u)
        PROVE  Activate(u) \/ UNCHANGED <<kind, place>>
    BY <2>1 DEF BeginUpload, UploadStep, Put, ActivateFails, Undo, FailUpload, ErasePrevious,
                StopUpload, db
  <2>2. ASSUME NEW f \in Files, Sign(f) \/ TimePasses(f) PROVE UNCHANGED <<kind, place>>
    BY <2>2 DEF Sign, TimePasses, ComeDue, Age, LeaseEnds, LinkEnds, db
  <2>3. ASSUME NEW w \in Workers, WorkerStep(w) \/ StopWorker(w)
        PROVE  UNCHANGED <<kind, place>>
    BY <2>3 DEF WorkerStep, Claim, EraseObject, Complete, StopWorker, db
  <2> QED BY <2>1, <2>2, <2>3 DEF Next, vars
<1> QED BY <1>1, <1>2, <1>3, <1>4, <1>5, <1>6 DEF Versions

\* A row that is pending now was so before, to replace the same image, or is new.
LEMMA PendingStays ==
    ASSUME Inv, [Next]_vars, kind = "image", NEW f \in Files, files'[f].status = "pending"
    PROVE  \/ files[f].status = "pending" /\ files'[f].replaces = files[f].replaces
           \/ f \notin started
<1>1. files \in [Files -> File] /\ \A g \in Files : files[g] \in File
  BY DEF Inv, TypeOK
<1>2. ASSUME NEW u \in Uploads, BeginUpload(u) \/ UploadStep(u) \/ StopUpload(u)
      PROVE  \/ files'[f].status = files[f].status /\ files'[f].replaces = files[f].replaces
             \/ f \notin started
  <2>1. CASE BeginUpload(u)
    BY <1>1, <2>1 DEF BeginUpload, ReserveBrandImage
  <2>2. CASE Activate(u)
    <3>1. ActivateBrandImage(uploads[u].file)
      BY <2>2 DEF Activate, Publish
    <3>2. files[f] \in File /\ files'[f].status # "live"
      BY <1>1
    <3>3. \/ files'[f] = [files[uploads[u].file] EXCEPT !.status = "live"]
          \/ files'[f] = [files[f] EXCEPT !.status = "deleting", !.due = FALSE]
          \/ files'[f] = files[f]
      BY <3>1 DEF ActivateBrandImage
    <3>4. uploads[u].file \in Files
      BY <2>2, NoneIsNothing DEF Activate, Inv, TypeOK, Upload, UploadsSound, UploadSound
    <3>5. files[uploads[u].file] \in File
      BY <1>1, <3>4
    <3> QED BY <3>2, <3>3, <3>5 DEF File
  <2>3. CASE FailUpload(u)
    <3>1. CASE files' = [files EXCEPT ![uploads[u].file] = Failed(uploads[u].file)]
      BY <1>1, <3>1 DEF Failed, File
    <3> QED BY <2>3, <3>1 DEF FailUpload
  <2> QED BY <1>2, <2>1, <2>2, <2>3
          DEF UploadStep, Put, ActivateFails, Undo, ErasePrevious, StopUpload, db
<1>3. CASE ChangePublication
  BY <1>1, <1>3 DEF ChangePublication, DeleteBrandImage, PublishMenu, UnpublishMenu,
                    DiscardMenuDraft, MenuMoves, File
<1>4. CASE Close
  BY <1>1, <1>4, RetiredRow DEF Close
<1>5. ASSUME NEW g \in Files, Sign(g) \/ TimePasses(g)
      PROVE  files'[f].status = files[f].status /\ files'[f].replaces = files[f].replaces
  BY <1>1, <1>5 DEF Sign, TimePasses, ComeDue, Age, LeaseEnds, LinkEnds, db, File
<1>6. ASSUME NEW w \in Workers, WorkerStep(w) \/ StopWorker(w)
      PROVE  files'[f].status = files[f].status /\ files'[f].replaces = files[f].replaces
  <2>1. CASE Claim(w)
    <3>1. Claimed(f, w).status = files[f].status
          /\ Claimed(f, w).replaces = files[f].replaces
      BY <1>1 DEF Claimed, File
    <3> QED BY <1>1, <2>1, <3>1 DEF Claim
  <2>2. CASE Complete(w)
    <3>1. files'[f] = files[f] \/ files'[f] = Completed(f, w)
      BY <1>1, <2>2 DEF Complete
    <3>2. \/ Completed(f, w) = files[f]
          \/ Completed(f, w).status = "deleted"
          \/ /\ Completed(f, w).status = files[f].status
             /\ Completed(f, w).replaces = files[f].replaces
      BY <1>1 DEF Completed, Unleased, File
    <3> QED BY <3>1, <3>2
  <2> QED BY <1>6, <2>1, <2>2 DEF WorkerStep, EraseObject, StopWorker, db
<1> QED BY <1>2, <1>3, <1>4, <1>5, <1>6 DEF Next, vars

\* A request that may still publish is as it was before, or has just begun.
LEMMA UploadMoves ==
    ASSUME Inv, [Next]_vars, NEW u \in Uploads
    PROVE  \/ /\ uploads'[u].version = uploads[u].version
              /\ uploads'[u].seen = uploads[u].seen
              /\ uploads'[u].step \in {"put", "activate"} =>
                   /\ uploads[u].step \in {"put", "activate"}
                   /\ uploads'[u].file = uploads[u].file
           \/ uploads'[u].step = "idle" /\ uploads'[u].version = 1
           \/ /\ uploads'[u].step = "put" /\ UNCHANGED <<kind, place>>
              /\ uploads'[u].version = place.version /\ uploads'[u].seen = Published
              /\ uploads'[u].file \in Files \ started
              /\ kind = "image" => files'[uploads'[u].file].replaces \in Published \cup {None}
<1>1. CASE UNCHANGED uploads
  BY <1>1
<1>2. ASSUME NEW v \in Uploads, UploadStep(v) \/ StopUpload(v)
      PROVE  \/ uploads'[u] = uploads[u]
             \/ u = v /\ uploads' = [uploads EXCEPT ![v] = NoUpload]
             \/ /\ u = v /\ uploads'[v].version = uploads[v].version
                /\ uploads'[v].seen = uploads[v].seen
                /\ uploads'[v].step \in {"put", "activate"} =>
                     /\ uploads[v].step \in {"put", "activate"}
                     /\ uploads'[v].file = uploads[v].file
  <2>1. CASE Over(v)
    BY <2>1 DEF Over, Inv, TypeOK
  <2>2. ASSUME NEW s \in {"activate", "undo", "fail"}, Step(v, s),
               s = "activate" => uploads[v].step = "put"
        PROVE  \/ uploads'[u] = uploads[u]
               \/ /\ u = v /\ uploads'[v].version = uploads[v].version
                  /\ uploads'[v].seen = uploads[v].seen
                  /\ uploads'[v].step \in {"put", "activate"} =>
                       /\ uploads[v].step \in {"put", "activate"}
                       /\ uploads'[v].file = uploads[v].file
    BY <2>2, StepMoves DEF Inv
  <2>3. CASE uploads' = [uploads EXCEPT ![v].step = "previous", ![v].file = place.shown]
    BY <2>3 DEF Inv, TypeOK, Upload
  <2>4. AfterError \in {"undo", "fail"}
    BY DEF AfterError
  <2>5. \/ Over(v)
        \/ \E s \in {"activate", "undo", "fail"} :
             Step(v, s) /\ (s = "activate" => uploads[v].step = "put")
        \/ uploads' = [uploads EXCEPT ![v].step = "previous", ![v].file = place.shown]
    BY <1>2, <2>4 DEF UploadStep, Put, Activate, ActivateFails, Undo, FailUpload,
                      ErasePrevious, StopUpload
  <2> QED BY <2>1, <2>2, <2>3, <2>5 DEF Over
<1>3. ASSUME NEW v \in Uploads, BeginUpload(v), v = u
      PROVE  /\ uploads'[u].step = "put" /\ UNCHANGED <<kind, place>>
             /\ uploads'[u].version = place.version /\ uploads'[u].seen = Published
             /\ uploads'[u].file \in Files \ started
             /\ kind = "image" => files'[uploads'[u].file].replaces \in Published \cup {None}
  <2>1. PICK f \in Files \ started :
          /\ kind = "image" => ReserveBrandImage(f)
          /\ uploads' = [uploads EXCEPT ![u] =
                 [step |-> "put", file |-> f, version |-> place.version, seen |-> Published]]
    BY <1>3 DEF BeginUpload
  <2>2. /\ uploads'[u].step = "put" /\ uploads'[u].file = f
        /\ uploads'[u].version = place.version /\ uploads'[u].seen = Published
    BY <2>1 DEF Inv, TypeOK
  <2>3. kind = "image" => files'[f].replaces \in Published \cup {None}
    <3>1. PICK g \in Published \cup {None} :
            kind = "image" =>
              files' = [files EXCEPT ![f] = [NoFile EXCEPT !.status = "pending", !.replaces = g]]
      BY <2>1 DEF ReserveBrandImage
    <3> QED BY <2>1, <3>1 DEF NoFile, Inv, TypeOK
  <2> QED BY <1>3, <2>1, <2>2, <2>3 DEF BeginUpload
<1>4. ASSUME NEW v \in Uploads, BeginUpload(v), v # u
      PROVE  uploads'[u] = uploads[u]
  BY <1>4 DEF BeginUpload, Inv, TypeOK
<1>5. \/ UNCHANGED uploads
      \/ \E v \in Uploads : BeginUpload(v) \/ UploadStep(v) \/ StopUpload(v)
  BY DEF Next, ChangePublication, Close, Sign, TimePasses, ComeDue, Age, LeaseEnds, LinkEnds,
         WorkerStep, Claim, EraseObject, Complete, StopWorker, vars
<1>6. u \in DOMAIN uploads
  BY DEF Inv, TypeOK
<1> QED BY <1>1, <1>2, <1>3, <1>4, <1>5, <1>6 DEF NoUpload

\* What requests saw stays what is published, or they cannot publish.
LEMMA SawStays ==
    ASSUME Inv, AllSaw, [Next]_vars
    PROVE  AllSaw'
<1> SUFFICES ASSUME NEW u \in Uploads PROVE Saw(u)'
  BY DEF AllSaw
<1>1. /\ Saw(u) /\ uploads[u] \in Upload /\ place \in Place
      /\ uploads[u].file \in started \cup {None}
  BY DEF AllSaw, Inv, TypeOK, KeysAreFresh
<1>2. /\ uploads[u].version \in Nat /\ place.version \in Nat /\ place'.version \in Nat
      /\ place.version <= place'.version /\ 1 <= place'.version
  BY <1>1, PlaceMoves DEF Upload, Place, Versions
<1>3. CASE uploads'[u].step = "idle" /\ uploads'[u].version = 1
  BY <1>2, <1>3 DEF Saw
<1>4. CASE /\ uploads'[u].step = "put" /\ UNCHANGED <<kind, place>>
           /\ uploads'[u].version = place.version /\ uploads'[u].seen = Published
           /\ uploads'[u].file \in Files \ started
           /\ kind = "image" => files'[uploads'[u].file].replaces \in Published \cup {None}
  <2>1. kind # "image" => Published' = Published
    BY <1>4 DEF Published
  <2> QED BY <1>2, <1>4, <2>1 DEF Saw
<1>5. CASE /\ uploads'[u].version = uploads[u].version /\ uploads'[u].seen = uploads[u].seen
           /\ uploads'[u].step \in {"put", "activate"} =>
                /\ uploads[u].step \in {"put", "activate"}
                /\ uploads'[u].file = uploads[u].file
  <2>1. uploads'[u].version <= place'.version
    BY <1>1, <1>2, <1>5 DEF Saw
  <2>2. ASSUME uploads'[u].step \in {"put", "activate"}, kind # "image", place'.open,
               place'.version = uploads'[u].version
        PROVE  Published' = uploads'[u].seen
    <3>1. place.version = place'.version /\ place.open
      BY <1>1, <1>2, <1>5, <2>2, PlaceMoves DEF Saw
    <3>2. Published' = Published
      BY <2>2, <3>1, PlaceMoves
    <3> QED BY <1>1, <1>5, <2>2, <3>1, <3>2 DEF Saw
  <2>3. ASSUME uploads'[u].step \in {"put", "activate"}, kind = "image",
               files'[uploads'[u].file].status = "pending"
        PROVE  files'[uploads'[u].file].replaces \in uploads'[u].seen \cup {None}
    <3>1. uploads[u].file \in Files /\ uploads[u].file \in started
      BY <1>1, <1>5, <2>3, NoneIsNothing DEF Inv, UploadsSound, UploadSound, Upload
    <3> QED BY <1>1, <1>5, <2>3, <3>1, PendingStays DEF Saw
  <2> QED BY <2>1, <2>2, <2>3, PlaceMoves DEF Saw
<1> QED BY <1>3, <1>4, <1>5, UploadMoves

\* An upload publishes only over what was published when it began: a menu or a photo
\* over exactly that, an image over that or an emptied slot (ActivateBrandImage,
\* ActivateMenuDraft and ReplaceProfilePhoto against all that changes the place).
THEOREM ReplacesWhatItSaw == Spec => NothingReplacedUnseen
<1>1. ASSUME Inv, AllSaw, [Next]_vars, NEW u \in Uploads,
             uploads[u].step = "activate", uploads'[u] # uploads[u],
             uploads[u].file \in Published' \ Published
      PROVE  /\ Published \subseteq uploads[u].seen
             /\ kind # "image" => Published = uploads[u].seen
  <2>1. PICK v \in Uploads : BeginUpload(v) \/ UploadStep(v) \/ StopUpload(v)
    BY <1>1 DEF Next, ChangePublication, Close, Sign, TimePasses, ComeDue, Age, LeaseEnds,
                LinkEnds, WorkerStep, Claim, EraseObject, Complete, StopWorker, vars
  <2>2. v = u
    BY <1>1, <2>1, StepMoves, OverMoves
       DEF BeginUpload, UploadStep, StopUpload, Put, Activate, ActivateFails, Undo, FailUpload,
           ErasePrevious, AfterError, Inv, TypeOK
  <2>3. Activate(u) \/ ActivateFails(u) \/ StopUpload(u)
    BY <1>1, <2>1, <2>2 DEF BeginUpload, UploadStep, Put, Undo, FailUpload, ErasePrevious
  <2>4. ActivateFails(u) \/ StopUpload(u) => Published' = Published
    BY PublishedStays DEF ActivateFails, StopUpload, db
  <2>5. Activatable(u) /\ Saw(u)
    BY <1>1, <2>3, <2>4 DEF Activate, AllSaw
  <2>6. CASE kind # "image"
    BY <1>1, <2>5, <2>6 DEF Activatable, SameVersion, Saw
  <2>7. CASE kind = "image"
    <3>1. /\ files[uploads[u].file].status = "pending"
          /\ Published \subseteq {files[uploads[u].file].replaces}
      BY <2>5, <2>7 DEF Activatable
    <3>2. None \notin Published
      BY <1>1, NoneIsNothing, PublishedFiles DEF Inv
    <3> QED BY <1>1, <2>5, <2>7, <3>1, <3>2 DEF Saw
  <2> QED BY <2>6, <2>7
<1>2. Inv /\ AllSaw /\ [Next]_vars =>
        [\A u \in Uploads :
           /\ uploads[u].step = "activate" /\ uploads'[u] # uploads[u]
           /\ uploads[u].file \in Published' \ Published
           => /\ Published \subseteq uploads[u].seen
              /\ kind # "image" => Published = uploads[u].seen]_vars
  BY <1>1
<1>3. Init => AllSaw
  BY DEF Init, AllSaw, Saw, NoUpload
<1>4. Inv /\ AllSaw /\ [Next]_vars => AllSaw'
  BY SawStays
<1> QED BY <1>2, <1>3, <1>4, InductiveInvariant, PTL DEF Spec, NothingReplacedUnseen

=============================================================================
