------------------------------ MODULE BrandStaff ------------------------------
(***************************************************************************)
(* The people and branches of one brand: invitations and their mails,      *)
(* registration through a link, changes of role and branches, removal,     *)
(* branches and the primary one, and the end of the brand.                 *)
(*                                                                         *)
(* UpdateStaff, DeleteStaff, CreateInvitation, RegisterInvitation and      *)
(* AnonymizeAccount run SERIALIZABLE, the others READ COMMITTED.  A        *)
(* request is split where it reads, without a lock or in its snapshot,     *)
(* what it relies on when it writes; PostgreSQL's part (row locks, the     *)
(* first updater wins, a pair of transactions that each read what the      *)
(* other wrote loses one) is in the guards of the commits, and a refused   *)
(* transaction is Abort.  Versions sent by clients are abstracted to "the  *)
(* row has not changed since".  An operator named after another with a     *)
(* suffix is that operator with one mistake in it and is not part of Spec. *)
(***************************************************************************)
EXTENDS Integers, FiniteSets

CONSTANTS
    Owner,      \* the account that registered the brand
    Staff,      \* accounts of PERSONAL_MARCA that may work for it
    Branches, First,  \* its branches, and the one it was registered with
    Invites,    \* invitations, to one address each
    Requests,   \* requests being served
    MaxLinks,   \* bound: links issued per invitation
    MaxChanges, \* bound: changes committed
    None

ASSUME OneOwnerOneBranch ==
    First \in Branches /\ Owner \notin Staff /\ {MaxLinks, MaxChanges} \subseteq Nat

VARIABLES
    brand,     \* marcas: "open" or "closed"
    branches,  \* sucursales
    members,   \* membresias_marca with membresias_sucursales
    invites,   \* invitaciones_marca
    mails,     \* email_outbox, by invitation and link
    taken,     \* invitations whose address has an account
    reqs,      \* requests in progress
    removals,  \* <<actor, target>> of every DeleteStaff committed
    gone,      \* accounts that were deleted
    overlooked,  \* branches created while the owner's account was being deleted
    changes    \* changes committed so far

rows == <<brand, branches, members, invites, mails, taken>>
past == <<removals, gone, overlooked>>
vars == <<rows, reqs, past, changes>>
People == Staff \cup {Owner}
Links == 1..MaxLinks

Branch == [status: {"none", "open", "closed"}, primary: BOOLEAN]
Member == [role: {"owner", "admin", "operator", "none"}, active: BOOLEAN,
           at: SUBSET Branches]
\* by: whose mail took the latest link.
Invite == [status: {"none", "PENDIENTE", "ACEPTADA", "REVOCADA", "EXPIRADA"},
           role: {"admin", "operator"}, at: SUBSET Branches, link: 0..MaxLinks,
           by: People \cup {None}, late: BOOLEAN]
\* UNSENT is what the worker made FAILED, FAILED what a transaction did.
MailStatus == {"none", "PENDING", "SENT", "UNSENT", "FAILED"}
\* link: what the form was opened with; at: the open branches and since: the staff
\* changes committed since, of the transaction's snapshot; queued: invitations whose
\* mail DeleteBrand has failed, or AnonymizeAccount saw queued and will fail.
Request == [op: {"none", "update", "remove", "revoke", "resend", "register", "close",
                 "erase"},
            actor: People \cup {None}, target: People \cup {None},
            invite: Invites \cup {None}, link: 0..MaxLinks,
            at: SUBSET Branches,
            since: SUBSET (People \X People), queued: SUBSET Invites]
NoRequest == [op |-> "none", actor |-> None, target |-> None, invite |-> None,
              link |-> 0, at |-> {}, since |-> {}, queued |-> {}]

\* One transaction at a time holds the brand.
TypeOK ==
    /\ brand \in {"open", "closed"}
    /\ branches \in [Branches -> Branch]
    /\ members \in [People -> Member]
    /\ invites \in [Invites -> Invite]
    /\ mails \in [Invites -> [Links -> MailStatus]]
    /\ taken \subseteq Invites /\ changes \in 0..MaxChanges
    /\ gone \subseteq People /\ overlooked \subseteq Branches
    /\ reqs \in [Requests -> Request]
    /\ removals \subseteq People \X Staff
    /\ \A r, s \in Requests : reqs[r].op = "close" /\ reqs[s].op = "close" => r = s

\* createMerchantResources, and whoever joined since.
Init ==
    /\ brand = "open"
    /\ branches = [b \in Branches |-> [status |-> IF b = First THEN "open" ELSE "none",
                                       primary |-> b = First]]
    /\ members \in {f \in [People -> Member] :
         /\ f[Owner] = [role |-> "owner", active |-> TRUE, at |-> {First}]
         /\ \A p \in Staff : f[p] \in
              {[role |-> "none", active |-> FALSE, at |-> {}],
               [role |-> "admin", active |-> TRUE, at |-> {}],
               [role |-> "operator", active |-> TRUE, at |-> {First}]}}
    /\ invites = [i \in Invites |-> [status |-> "none", role |-> "admin", at |-> {},
                                     link |-> 0, by |-> None, late |-> FALSE]]
    /\ mails = [i \in Invites |-> [l \in Links |-> "none"]]
    /\ taken = {} /\ removals = {} /\ gone = {} /\ overlooked = {} /\ changes = 0
    /\ reqs = [r \in Requests |-> NoRequest]

\* requireStaffManager, mutableRole.
Manages(p) == members[p].active /\ members[p].role \in {"owner", "admin"}
OpenBranches == {b \in Branches : branches[b].status = "open"}
\* A request holds marcas FOR UPDATE.
BrandLocked == \E r \in Requests : reqs[r].op = "close"
\* With this account its brand is closed.
Closes(p) == p = Owner /\ members[p].active

\* The rows that the account deletion s has in its snapshot and will write.
Undisturbed(s) ==
    /\ members'[reqs[s].actor] = members[reqs[s].actor]
    /\ \A i \in reqs[s].queued : mails'[i] = mails[i]
    /\ Closes(reqs[s].actor) =>
          /\ UNCHANGED <<brand, members, invites>>
          /\ \A b \in reqs[s].at : branches'[b] = branches[b]
\* Others write them only once that deletion is refused, whose Abort is taken to
\* come first: it leaves nothing behind.
FirstUpdaterWins == \A s \in Requests :
    reqs[s].op = "erase" /\ reqs'[s] = reqs[s] => Undisturbed(s)

Change == changes < MaxChanges /\ changes' = changes + 1
Commit == Change /\ FirstUpdaterWins
Free(r) == reqs[r].op = "none"
Begin(r, request) == reqs' = [reqs EXCEPT ![r] = request]
End(r) == reqs' = [reqs EXCEPT ![r] = NoRequest]

\* PostgreSQL, a timeout or a later check refuses it: nothing was written.
Abort(r) ==
    /\ ~Free(r) /\ End(r)
    /\ UNCHANGED <<rows, past, changes>>

-----------------------------------------------------------------------------
(* Invitations *)

\* expireInvitations, the first write of every transaction about invitations.
Expiring(i) == invites[i].status = "PENDIENTE" /\ invites[i].late
AfterExpiry(i) ==
    IF Expiring(i) THEN [invites[i] EXCEPT !.status = "EXPIRADA"] ELSE invites[i]
\* Its mails that have not left are given up.
Cancelled(i) == [l \in Links |-> IF mails[i][l] = "PENDING" THEN "FAILED" ELSE mails[i][l]]
MailsAfterExpiry(i) == IF Expiring(i) THEN Cancelled(i) ELSE mails[i]

ListInvitations ==
    /\ \E p \in People : Manages(p)
    /\ \E i \in Invites : Expiring(i)
    /\ invites' = [i \in Invites |-> AfterExpiry(i)]
    /\ mails' = [i \in Invites |-> MailsAfterExpiry(i)]
    /\ UNCHANGED <<brand, branches, members, taken, reqs, past>>
    /\ Commit

\* cleanInvitation
Invitable(role, at) == role = "operator" => at # {}
\* SERIALIZABLE, and its insert waits for whoever has the brand locked.  It reads
\* the membership that the deletion of p's account writes, which looks for p's mails.
CreateInvitation(i, p) ==
    /\ Manages(p) /\ ~\E r \in Requests : reqs[r].op = "erase" /\ reqs[r].actor = p
    /\ ~BrandLocked /\ invites[i].status = "none" /\ i \notin taken
    /\ MaxLinks >= 1
    /\ \E role \in {"admin", "operator"}, at \in SUBSET OpenBranches :
         /\ Invitable(role, at)
         /\ invites' = [j \in Invites |->
                IF j = i THEN [status |-> "PENDIENTE", role |-> role, at |-> at,
                               link |-> 1, by |-> p, late |-> FALSE] ELSE AfterExpiry(j)]
    /\ mails' = [j \in Invites |-> IF j = i THEN [mails[i] EXCEPT ![1] = "PENDING"]
                                   ELSE MailsAfterExpiry(j)]
    /\ UNCHANGED <<brand, branches, members, taken, reqs, past>>
    /\ Commit

\* The 72 hours of the latest link are over.
LinkExpires(i) ==
    /\ invites[i].status = "PENDIENTE" /\ ~invites[i].late
    /\ invites' = [invites EXCEPT ![i].late = TRUE]
    /\ Change
    /\ UNCHANGED <<brand, branches, members, mails, taken, reqs, past>>

\* The manager is read, unlocked, before anything else.
BeginInvitationChange(r, p, i, op) ==
    /\ Free(r) /\ Manages(p)
    /\ op \in {"revoke", "resend"} /\ invites[i].status = "PENDIENTE"
    /\ Begin(r, [NoRequest EXCEPT !.op = op, !.invite = i,
                                  !.actor = IF op = "resend" THEN p ELSE None])
    /\ UNCHANGED <<rows, past, changes>>

\* DeleteBrand has updated mails of i: whoever wants them waits for it.
MailsLocked(i) == \E r \in Requests : reqs[r].op = "close" /\ i \in reqs[r].queued

RevokeInvitation(r) ==
    LET i == reqs[r].invite IN
    /\ reqs[r].op = "revoke"
    /\ invites[i].status = "PENDIENTE" /\ ~invites[i].late /\ ~MailsLocked(i)
    /\ invites' = [j \in Invites |-> IF j = i THEN [invites[i] EXCEPT !.status = "REVOCADA"]
                                     ELSE AfterExpiry(j)]
    /\ mails' = [j \in Invites |-> IF j = i THEN Cancelled(i) ELSE MailsAfterExpiry(j)]
    /\ End(r)
    /\ UNCHANGED <<brand, branches, members, taken, past>>
    /\ Commit

\* Older mails are given up before the new one is queued.
NewMailThenCancelled(i, link) ==
    [l \in Links |-> IF l = link \/ mails[i][l] = "PENDING" THEN "FAILED" ELSE mails[i][l]]
NewMail(i, link) == [Cancelled(i) EXCEPT ![link] = "PENDING"]

\* It does not lock the brand.
ResendInvitation(r) ==
    LET i == reqs[r].invite
        link == invites[i].link + 1 IN
    /\ reqs[r].op = "resend" /\ link \in Links
    /\ invites[i].status = "PENDIENTE" /\ ~invites[i].late /\ ~MailsLocked(i)
    /\ invites' = [j \in Invites |->
           IF j = i THEN [invites[i] EXCEPT !.link = link, !.by = reqs[r].actor]
           ELSE AfterExpiry(j)]
    /\ mails' = [j \in Invites |-> IF j = i THEN NewMail(i, link) ELSE MailsAfterExpiry(j)]
    /\ End(r)
    /\ UNCHANGED <<brand, branches, members, taken, past>>
    /\ Commit

\* The mail worker looks once more (ValidateClaimedEmail) and sends, or the mail is
\* given up: that look fails, of a live invitation too, or the fifth attempt to send.
Deliver(i, l) ==
    /\ mails[i][l] = "PENDING"
    /\ LET live == invites[i].status = "PENDIENTE" /\ ~invites[i].late /\ invites[i].link = l IN
       \E status \in {"SENT", "UNSENT"} :
          /\ status = "SENT" => live
          /\ mails' = [mails EXCEPT ![i][l] = status]
    /\ UNCHANGED <<brand, branches, members, invites, taken, reqs, past, changes>>
    /\ FirstUpdaterWins

\* Somebody registers with the invited address by another way.
AddressTaken(i) ==
    /\ i \notin taken /\ taken' = taken \cup {i}
    /\ Change
    /\ UNCHANGED <<brand, branches, members, invites, mails, reqs, past>>

\* That account is deleted (AnonymizeAccount), and with it what was sent to the
\* address.
AddressFreed(i) ==
    /\ i \in taken /\ invites[i].status # "ACEPTADA" /\ ~MailsLocked(i)
    /\ taken' = taken \ {i} /\ mails' = [mails EXCEPT ![i] = Cancelled(i)]
    /\ invites' = [invites EXCEPT ![i].status = IF @ = "PENDIENTE" THEN "REVOCADA" ELSE @]
    /\ UNCHANGED <<brand, branches, members, reqs, past>>
    /\ Commit

\* PublicInvitation: the form shows what the link is good for; then the captcha
\* and the password hash take their time.  A mail may be out before its row says so.
OpenLink(r, i, l) ==
    /\ Free(r) /\ mails[i][l] # "none"
    /\ brand = "open" /\ invites[i].status = "PENDIENTE" /\ ~invites[i].late
    /\ invites[i].link = l
    /\ Begin(r, [NoRequest EXCEPT !.op = "register", !.invite = i, !.link = l])
    /\ UNCHANGED <<rows, past, changes>>

JoinableWhenOpened(i, l) == i \notin taken
\* The invitation and its brand, locked: still pending, this link, still open.
Joinable(i, l) ==
    /\ i \notin taken /\ brand = "open" /\ ~BrandLocked
    /\ invites[i].status = "PENDIENTE" /\ ~invites[i].late /\ invites[i].link = l

RegisterInvitation(r, p) ==
    LET i == reqs[r].invite IN
    /\ reqs[r].op = "register" /\ Joinable(i, reqs[r].link)
    /\ p \in Staff /\ members[p].role = "none"
    /\ members' = [members EXCEPT ![p] = [role |-> invites[i].role, active |-> TRUE,
                                          at |-> invites[i].at]]
    /\ invites' = [invites EXCEPT ![i].status = "ACEPTADA"]
    /\ mails' = [mails EXCEPT ![i] = Cancelled(i)]
    /\ taken' = taken \cup {i} /\ End(r)
    /\ UNCHANGED <<brand, branches, past>>
    /\ Commit

-----------------------------------------------------------------------------
(* Staff *)

\* The transaction's snapshot: the manager, the row to change, the branches.
BeginStaffChange(r, p, target, op) ==
    /\ Free(r) /\ op \in {"update", "remove"} /\ Manages(p)
    /\ members[target].active /\ members[target].role # "owner" /\ target # p
    /\ Begin(r, [NoRequest EXCEPT !.op = op, !.actor = p, !.target = target,
                                  !.at = OpenBranches])
    /\ UNCHANGED <<rows, past, changes>>

SerializableRowsOnly(r) == \A c \in reqs[r].since : c[2] # reqs[r].target
\* The target is as it was, and no transaction committed since read what this one
\* writes and wrote what this one read.
Serializable(r) == \A c \in reqs[r].since :
    /\ c[2] # reqs[r].target
    /\ ~(c[1] = reqs[r].target /\ c[2] = reqs[r].actor)

\* Every transaction still running learns of the change.
EndStaffChange(r) == reqs' = [s \in Requests |->
    IF s = r THEN NoRequest
    ELSE IF reqs[s].op \in {"update", "remove"}
    THEN [reqs[s] EXCEPT !.since = @ \cup {<<reqs[r].actor, reqs[r].target>>}]
    ELSE reqs[s]]

\* Neither does an administrator get branches, nor an operator none.
Assignable(role, at) == IF role = "admin" THEN at = {} ELSE at # {}

\* The role, the branches or both; an administrator loses them.
UpdateStaff(r) ==
    LET m == members[reqs[r].target] IN
    /\ reqs[r].op = "update" /\ m.active /\ Serializable(r)
    /\ \E role \in {"admin", "operator"}, at \in (SUBSET reqs[r].at) \cup {m.at} :
         LET assigned == IF role = "admin" THEN {} ELSE at IN
         /\ Assignable(role, assigned)
         /\ members' = [members EXCEPT ![reqs[r].target].role = role,
                                       ![reqs[r].target].at = assigned]
    /\ EndStaffChange(r)
    /\ UNCHANGED <<brand, branches, invites, mails, taken, past>>
    /\ Commit

DeleteStaff(r) ==
    /\ reqs[r].op = "remove" /\ members[reqs[r].target].active /\ Serializable(r)
    /\ members' = [members EXCEPT ![reqs[r].target].active = FALSE,
                                  ![reqs[r].target].at = {}]
    /\ removals' = removals \cup {<<reqs[r].actor, reqs[r].target>>}
    /\ EndStaffChange(r)
    /\ UNCHANGED <<brand, branches, invites, mails, taken, gone, overlooked>>
    /\ Commit

-----------------------------------------------------------------------------
(* Branches: every change has marcas locked *)

\* It inserts a row and changes none: whoever deletes the brand with the account and
\* has its snapshot does not see the branch, and is not refused for it.
CreateBranch(b) ==
    /\ brand = "open" /\ ~BrandLocked /\ \E p \in People : Manages(p)
    /\ branches[b].status = "none"
    /\ branches' = [branches EXCEPT ![b].status = "open"]
    /\ overlooked' = overlooked \cup
          {x \in {b} : \E r \in Requests : reqs[r].op = "erase" /\ Closes(reqs[r].actor)}
    /\ Change
    /\ UNCHANGED <<brand, members, invites, mails, taken, reqs, removals, gone>>

KeepsAPrimary(after) == \E b \in Branches : after[b].status = "open" /\ after[b].primary

UpdateBranch(b) ==
    /\ ~BrandLocked /\ \E p \in People : Manages(p)
    /\ branches[b].status = "open"
    /\ \E primary \in BOOLEAN :
         LET after == [x \in Branches |->
                 IF x = b THEN [branches[b] EXCEPT !.primary = primary]
                 ELSE IF primary /\ branches[x].status = "open"
                 THEN [branches[x] EXCEPT !.primary = FALSE] ELSE branches[x]] IN
         /\ ~primary => KeepsAPrimary(after)
         /\ branches' = after
    /\ UNCHANGED <<brand, members, invites, mails, taken, reqs, past>>
    /\ Commit

\* The count of branches is as old as the statement that waited for the lock:
\* others may have closed one since.  Whether this one is primary is not.
DeleteBranch(b) ==
    /\ ~BrandLocked /\ \E p \in People : Manages(p)
    /\ branches[b].status = "open" /\ ~branches[b].primary
    /\ \E closedSince \in 0..1 : Cardinality(OpenBranches) + closedSince > 1
    /\ branches' = [branches EXCEPT ![b].status = "closed"]
    /\ UNCHANGED <<brand, members, invites, mails, taken, reqs, past>>
    /\ Commit

-----------------------------------------------------------------------------
(* The end of the brand *)

\* marcas is locked; the mails of pending invitations fail now, the invitations
\* are revoked by a later statement.
BeginDeleteBrand(r) ==
    /\ Free(r) /\ (\E p \in People : Manages(p)) /\ brand = "open" /\ ~BrandLocked
    /\ Begin(r, [NoRequest EXCEPT !.op = "close",
          !.queued = {i \in Invites : /\ invites[i].status = "PENDIENTE"
                                      /\ \E l \in Links : mails[i][l] = "PENDING"}])
    /\ UNCHANGED <<rows, past, changes>>

\* The brand ends with the branches that the transaction sees.
Close(seen) ==
    /\ brand' = "closed"
    /\ branches' = [b \in Branches |-> IF b \in seen
                       THEN [branches[b] EXCEPT !.status = "closed"] ELSE branches[b]]
    /\ invites' = [i \in Invites |-> IF invites[i].status = "PENDIENTE"
                       THEN [invites[i] EXCEPT !.status = "REVOCADA"] ELSE invites[i]]
CancelQueued(r) ==
    mails' = [i \in Invites |-> IF i \in reqs[r].queued THEN Cancelled(i) ELSE mails[i]]

DeleteBrand(r) ==
    /\ reqs[r].op = "close" /\ Close(OpenBranches)
    /\ members' = [p \in People |-> [members[p] EXCEPT !.active = FALSE]]
    /\ CancelQueued(r)
    /\ End(r)
    /\ UNCHANGED <<taken, past>>
    /\ Commit

\* The snapshot of AnonymizeAccount: it waits for the account and then for the
\* brand, and does not see what others commit meanwhile.
BeginAnonymize(r, p) ==
    /\ Free(r) /\ members[p].role # "none" /\ p \notin gone
    /\ Begin(r, [NoRequest EXCEPT !.op = "erase", !.actor = p,
          !.at = IF Closes(p) THEN OpenBranches ELSE {},
          !.queued = {i \in Invites :
              /\ \E l \in Links : mails[i][l] = "PENDING"
              /\ invites[i].by = p \/ (Closes(p) /\ invites[i].status = "PENDIENTE")}])
    /\ UNCHANGED <<rows, past, changes>>

\* Staff leave, and what they sent and is queued is given up, not the invitations;
\* with the owner the brand closes.
AnonymizeAccount(r) ==
    LET p == reqs[r].actor IN
    /\ reqs[r].op = "erase" /\ p \notin gone /\ gone' = gone \cup {p}
    /\ \A i \in reqs[r].queued : ~MailsLocked(i)
    /\ CancelQueued(r)
    /\ \/ /\ Closes(p) /\ ~BrandLocked /\ Close(reqs[r].at)
          /\ members' = [q \in People |-> [members[q] EXCEPT !.active = FALSE, !.at = {}]]
       \/ /\ ~Closes(p)
          /\ members' = [members EXCEPT ![p].active = FALSE, ![p].at = {}]
          /\ UNCHANGED <<brand, branches, invites>>
    /\ End(r)
    /\ UNCHANGED <<taken, removals, overlooked>>
    /\ Commit

-----------------------------------------------------------------------------

Next ==
    \/ ListInvitations
    \/ \E i \in Invites : \/ LinkExpires(i) \/ AddressTaken(i) \/ AddressFreed(i)
                          \/ \E p \in People : CreateInvitation(i, p)
                          \/ \E l \in Links : Deliver(i, l)
    \/ \E b \in Branches : CreateBranch(b) \/ UpdateBranch(b) \/ DeleteBranch(b)
    \/ \E r \in Requests :
         \/ Abort(r) \/ RevokeInvitation(r) \/ ResendInvitation(r)
         \/ UpdateStaff(r) \/ DeleteStaff(r) \/ BeginDeleteBrand(r) \/ DeleteBrand(r)
         \/ AnonymizeAccount(r)
         \/ \E p \in People : RegisterInvitation(r, p) \/ BeginAnonymize(r, p)
         \/ \E i \in Invites, l \in Links : OpenLink(r, i, l)
         \/ \E p \in People, i \in Invites, op \in {"revoke", "resend"} :
               BeginInvitationChange(r, p, i, op)
         \/ \E p, q \in People, op \in {"update", "remove"} : BeginStaffChange(r, p, q, op)

Spec == Init /\ [][Next]_vars

-----------------------------------------------------------------------------
(* Properties *)

\* Whatever was being registered, resent or changed when a brand was deleted or its
\* owner left, nobody works for it afterwards, no invitation to it is pending, and the
\* only branches open are those created while the owner's deletion waited with its
\* snapshot (DeleteBrand, AnonymizeAccount, RegisterInvitation's FOR UPDATE OF i,m).
ClosedBrandIsEmpty == brand = "closed" =>
    /\ \A p \in People : ~members[p].active
    /\ \A i \in Invites : invites[i].status # "PENDIENTE"
    /\ OpenBranches \subseteq overlooked

\* Two administrators who remove each other at the same moment do not both
\* succeed: DeleteStaff is SERIALIZABLE.
NoMutualRemoval == \A c \in removals : <<c[2], c[1]>> \notin removals

\* However role and branches were changed, by invitation or by UpdateStaff, an
\* operator has a branch.
OperatorsHaveBranches == \A p \in People :
    members[p].active /\ members[p].role = "operator" => members[p].at # {}

\* As long as the brand is open, exactly one open branch is the primary one.
OnePrimaryBranch == brand = "open" =>
    Cardinality({b \in OpenBranches : branches[b].primary}) = 1

\* The mail with the latest link of an invitation that can still be accepted is queued
\* or sent, whoever else resent, revoked or left meanwhile, unless the worker could not
\* send it or its sender deleted the account (ResendInvitation, AnonymizeAccount).
LiveLinkIsMailed == \A i \in Invites :
    invites[i].status = "PENDIENTE" /\ ~invites[i].late =>
        \/ mails[i][invites[i].link] \in {"PENDING", "SENT", "UNSENT"}
        \/ invites[i].by \in gone

\* The rows stay well formed: operators have branches, an open brand has one
\* primary branch, and a pending invitation the mail of its latest link.
StaffInv == TypeOK /\ OperatorsHaveBranches /\ OnePrimaryBranch /\ LiveLinkIsMailed

=============================================================================
