-------------------------- MODULE BrandStaffProofs --------------------------
(***************************************************************************)
(* Proofs about BrandStaff for any staff, branches, invitations, links and *)
(* concurrent requests.                                                    *)
(***************************************************************************)
EXTENDS BrandStaff, FiniteSetTheorems, TLAPS

USE DEF rows, past

-----------------------------------------------------------------------------
(* The inductive invariant *)

\* Only the account that registered the brand is its owner, and who works for
\* it has a role.
MembersSound == \A p \in People :
    /\ members[p].role = "owner" <=> p = Owner
    /\ members[p].active => members[p].role # "none"

\* Who was removed keeps the role, and so can neither be changed, nor register
\* again, nor begin a change.
RemovedStayOut == \A c \in removals :
    ~members[c[2]].active /\ members[c[2]].role # "none"

\* An invitation that can be accepted has what a member needs, and a link.
InviteSound(i) ==
    /\ invites[i].status = "PENDIENTE" =>
          invites[i].link \in Links /\ Invitable(invites[i].role, invites[i].at)
    /\ invites[i].status = "PENDIENTE" /\ ~invites[i].late =>
          \/ mails[i][invites[i].link] \in {"PENDING", "SENT", "UNSENT"}
          \/ invites[i].by \in gone

InvitesSound == \A i \in Invites : InviteSound(i)

Primaries == {b \in OpenBranches : branches[b].primary}

\* One open branch is the primary one, and a branch that opens is not.
PrimaryFound ==
    /\ brand = "open" => \E b \in Branches : Primaries = {b}
    /\ \A b \in Branches : branches[b].status = "none" => ~branches[b].primary

\* A change of staff is of somebody else, never of the owner, and whoever
\* removed its actor since the snapshot is known to it.
RequestSound(q) ==
    /\ q.op \in {"update", "remove"} =>
          /\ q.actor \in People /\ q.target \in Staff /\ q.actor # q.target
          /\ \A p \in People : <<p, q.actor>> \in removals => <<p, q.actor>> \in q.since
    /\ q.op \in {"revoke", "resend", "register"} => q.invite \in Invites
    /\ q.op \in {"resend", "erase"} => q.actor \in People

RequestsSound == \A r \in Requests : RequestSound(reqs[r])

Core ==
    /\ TypeOK
    /\ MembersSound /\ OperatorsHaveBranches
    /\ RemovedStayOut /\ NoMutualRemoval
    /\ InvitesSound
    /\ PrimaryFound
    /\ RequestsSound
    /\ ClosedBrandIsEmpty

\* No link is mailed before it is issued, and none is issued before the invitation.
LinksInOrder == \A i \in Invites :
    /\ invites[i].status = "none" => invites[i].link = 0
    /\ \A l \in Links : l > invites[i].link => mails[i][l] = "none"

\* A deletion that closes the brand has every open branch in its snapshot, or the
\* branch was created since; another one saw mails of its own, still queued.
ErasureSound(q) == q.op = "erase" =>
    /\ Closes(q.actor) => OpenBranches \subseteq q.at \cup overlooked
    /\ ~Closes(q.actor) => \A i \in q.queued :
          invites[i].by = q.actor /\ \E l \in Links : mails[i][l] = "PENDING"

ErasuresSound == \A r \in Requests : ErasureSound(reqs[r])

Inv == Core /\ LinksInOrder /\ ErasuresSound

\* The constants, as the proofs use them.
LEMMA Bounds ==
    /\ MaxLinks \in Nat /\ MaxChanges \in Nat /\ First \in Branches /\ Owner \notin Staff
    /\ Links \subseteq 0..MaxLinks
  BY OneOwnerOneBranch DEF Links

\* The row of a request that does nothing.
LEMMA NoRequestTyped == NoRequest \in Request /\ NoRequest.op = "none"
  BY Bounds DEF NoRequest, Request

\* The count of primary branches, which the model states with a cardinality.
LEMMA OnePrimaryIsFound ==
    PrimaryFound => OnePrimaryBranch
<1> SUFFICES ASSUME PrimaryFound, brand = "open"
             PROVE  Cardinality(Primaries) = 1
  BY DEF OnePrimaryBranch, Primaries
<1> QED BY FS_Singleton DEF PrimaryFound

\* The mail of the latest link is part of what is said of an invitation.
LEMMA SoundInvitesAreMailed == InvitesSound => LiveLinkIsMailed
  BY DEF InvitesSound, InviteSound, LiveLinkIsMailed

\* A brand as it was registered.
LEMMA InitCore == Init => Core
<1> SUFFICES ASSUME Init PROVE Core
  OBVIOUS
<1> USE Bounds
<1>1. TypeOK
  <2>1. brand \in {"open", "closed"} /\ branches \in [Branches -> Branch]
    BY DEF Init, Branch
  <2>2. members \in [People -> Member]
    BY DEF Init
  <2>3. invites \in [Invites -> Invite]
    BY DEF Init, Invite
  <2>4. mails \in [Invites -> [Links -> MailStatus]]
    BY DEF Init, MailStatus
  <2>5. /\ taken \subseteq Invites /\ changes \in 0..MaxChanges
        /\ removals \subseteq People \X Staff /\ gone = {} /\ overlooked = {}
    BY DEF Init
  <2>6. /\ reqs \in [Requests -> Request]
        /\ \A r, s \in Requests : reqs[r].op = "close" /\ reqs[s].op = "close" => r = s
    BY NoRequestTyped DEF Init
  <2> QED BY <2>1, <2>2, <2>3, <2>4, <2>5, <2>6 DEF TypeOK
<1>2. ASSUME NEW p \in People
      PROVE  /\ members[p].role = "owner" <=> p = Owner
             /\ members[p].active => members[p].role # "none"
             /\ members[p].role = "operator" => members[p].at # {}
  <2>1. CASE p = Owner
    BY <2>1 DEF Init
  <2>2. CASE p \in Staff
    <3>1. members[p] \in {[role |-> "none", active |-> FALSE, at |-> {}],
                          [role |-> "admin", active |-> TRUE, at |-> {}],
                          [role |-> "operator", active |-> TRUE, at |-> {First}]}
      BY <2>2 DEF Init
    <3> QED BY <2>2, <3>1
  <2> QED BY <2>1, <2>2 DEF People
<1>3. MembersSound /\ OperatorsHaveBranches
  BY <1>2 DEF MembersSound, OperatorsHaveBranches
<1>4. RemovedStayOut /\ NoMutualRemoval /\ InvitesSound /\ RequestsSound
  BY NoRequestTyped
  DEF Init, RemovedStayOut, NoMutualRemoval, InvitesSound, InviteSound, RequestsSound,
      RequestSound
<1>5. PrimaryFound
  <2>1. Primaries = {First}
    BY DEF Init, Primaries, OpenBranches
  <2> QED BY <2>1 DEF Init, PrimaryFound
<1>6. ClosedBrandIsEmpty
  BY DEF Init, ClosedBrandIsEmpty
<1> QED BY <1>1, <1>3, <1>4, <1>5, <1>6 DEF Core

-----------------------------------------------------------------------------
(* What a step may do to the requests *)

\* The requests are of their types, rely on what is true, and one at most has
\* the brand locked.
RequestsFit ==
    /\ reqs \in [Requests -> Request]
    /\ \A r, s \in Requests : reqs[r].op = "close" /\ reqs[s].op = "close" => r = s
    /\ RequestsSound

\* The requests go on as they are.
LEMMA SameRequests == ASSUME Core, UNCHANGED <<reqs, removals>> PROVE RequestsFit'
  BY DEF Core, TypeOK, RequestsFit, RequestsSound, RequestSound

\* One request begins or ends.
LEMMA OneRequest ==
    ASSUME Core, removals' = removals, NEW r \in Requests, NEW q \in Request,
           reqs' = [reqs EXCEPT ![r] = q], RequestSound(q),
           q.op = "close" => ~BrandLocked
    PROVE  RequestsFit'
<1>1. \A s \in Requests : reqs'[s] = IF s = r THEN q ELSE reqs[s]
  BY DEF Core, TypeOK
<1>2. reqs' \in [Requests -> Request]
  BY DEF Core, TypeOK
<1>3. \A t, s \in Requests : reqs'[t].op = "close" /\ reqs'[s].op = "close" => t = s
  BY <1>1 DEF Core, TypeOK, BrandLocked
<1>4. \A s \in Requests : RequestSound(reqs'[s])
  BY <1>1 DEF Core, RequestsSound
<1>5. RequestsSound'
  BY <1>4 DEF RequestsSound, RequestSound
<1> QED BY <1>2, <1>3, <1>5 DEF RequestsFit

\* A request that ends relies on nothing.
LEMMA EndedRequest ==
    ASSUME Core, removals' = removals, NEW r \in Requests, End(r)
    PROVE  RequestsFit'
<1>1. RequestSound(NoRequest)
  BY NoRequestTyped DEF RequestSound
<1> QED BY <1>1, NoRequestTyped, OneRequest DEF End

\* A request begins and nothing else changes.
LEMMA BegunRequest ==
    ASSUME Core, NEW r \in Requests, NEW q \in Request, reqs' = [reqs EXCEPT ![r] = q],
           RequestSound(q), q.op = "close" => ~BrandLocked,
           UNCHANGED <<brand, branches, members, invites, mails, taken, past, changes>>
    PROVE  Core'
<1>1. RequestsFit'
  BY OneRequest
<1>2. TypeOK'
  BY <1>1 DEF RequestsFit, Core, TypeOK
<1>3. InvitesSound' /\ PrimaryFound' /\ ClosedBrandIsEmpty'
  BY DEF Core, InvitesSound, InviteSound, PrimaryFound, Primaries, OpenBranches,
         ClosedBrandIsEmpty
<1>4. MembersSound' /\ OperatorsHaveBranches' /\ RemovedStayOut' /\ NoMutualRemoval'
  BY DEF Core, MembersSound, OperatorsHaveBranches, RemovedStayOut, NoMutualRemoval
<1> QED BY <1>1, <1>2, <1>3, <1>4 DEF RequestsFit, Core

-----------------------------------------------------------------------------
(* Requests that begin, end or are refused *)

\* A refused request leaves nothing behind.
LEMMA AbortInv == \A r \in Requests : Core /\ Abort(r) => Core'
<1> SUFFICES ASSUME NEW r \in Requests, Core, Abort(r) PROVE Core'
  OBVIOUS
<1>1. RequestSound(NoRequest)
  BY NoRequestTyped DEF RequestSound
<1> QED BY <1>1, NoRequestTyped, BegunRequest DEF Abort, End

\* A manager starts to revoke or to send again.
LEMMA BeginInvitationChangeInv ==
    \A r \in Requests, p \in People, i \in Invites, op \in {"revoke", "resend"} :
        Core /\ BeginInvitationChange(r, p, i, op) => Core'
<1> SUFFICES ASSUME NEW r \in Requests, NEW p \in People, NEW i \in Invites,
                    NEW op \in {"revoke", "resend"}, Core,
                    BeginInvitationChange(r, p, i, op)
             PROVE  Core'
  OBVIOUS
<1> DEFINE q == [NoRequest EXCEPT !.op = op, !.invite = i,
                                  !.actor = IF op = "resend" THEN p ELSE None]
<1>1. /\ q \in Request /\ q.op = op /\ q.invite = i
      /\ op = "resend" => q.actor \in People
  BY NoRequestTyped DEF NoRequest, Request
<1>2. RequestSound(q)
  BY <1>1 DEF RequestSound
<1>3. reqs' = [reqs EXCEPT ![r] = q]
  BY DEF BeginInvitationChange, Begin
<1> HIDE DEF q
<1> QED BY <1>1, <1>2, <1>3, BegunRequest DEF BeginInvitationChange

\* Somebody opens the form of a link.
LEMMA OpenLinkInv ==
    \A r \in Requests, i \in Invites, l \in Links : Core /\ OpenLink(r, i, l) => Core'
<1> SUFFICES ASSUME NEW r \in Requests, NEW i \in Invites, NEW l \in Links,
                    Core, OpenLink(r, i, l)
             PROVE  Core'
  OBVIOUS
<1> DEFINE q == [NoRequest EXCEPT !.op = "register", !.invite = i, !.link = l]
<1>1. q \in Request /\ q.op = "register" /\ q.invite = i
  BY NoRequestTyped, Bounds DEF NoRequest, Request
<1>2. RequestSound(q)
  BY <1>1 DEF RequestSound
<1>3. reqs' = [reqs EXCEPT ![r] = q]
  BY DEF OpenLink, Begin
<1> HIDE DEF q
<1> QED BY <1>1, <1>2, <1>3, BegunRequest DEF OpenLink

\* Who was removed is not active, so no change begins whose actor was.
LEMMA BeginStaffChangeInv ==
    \A r \in Requests, p \in People, target \in People, op \in {"update", "remove"} :
        Core /\ BeginStaffChange(r, p, target, op) => Core'
<1> SUFFICES ASSUME NEW r \in Requests, NEW p \in People, NEW target \in People,
                    NEW op \in {"update", "remove"}, Core, BeginStaffChange(r, p, target, op)
             PROVE  Core'
  OBVIOUS
<1> DEFINE q == [NoRequest EXCEPT !.op = op, !.actor = p, !.target = target,
                                  !.at = OpenBranches]
<1>1. /\ q \in Request /\ q.op = op /\ q.actor = p /\ q.target = target
  BY NoRequestTyped DEF NoRequest, Request, OpenBranches
<1>2. target \in Staff /\ target # p
  BY DEF BeginStaffChange, Core, MembersSound, People
<1>3. \A x \in People : <<x, p>> \notin removals
  BY DEF BeginStaffChange, Manages, Core, RemovedStayOut
<1>4. RequestSound(q)
  BY <1>1, <1>2, <1>3 DEF RequestSound
<1>5. reqs' = [reqs EXCEPT ![r] = q]
  BY DEF BeginStaffChange, Begin
<1> HIDE DEF q
<1> QED BY <1>1, <1>4, <1>5, BegunRequest DEF BeginStaffChange

\* One request at most has the brand locked.
LEMMA BeginDeleteBrandInv == \A r \in Requests : Core /\ BeginDeleteBrand(r) => Core'
<1> SUFFICES ASSUME NEW r \in Requests, Core, BeginDeleteBrand(r) PROVE Core'
  OBVIOUS
<1> DEFINE doomed == {i \in Invites : /\ invites[i].status = "PENDIENTE"
                                      /\ \E l \in Links : mails[i][l] = "PENDING"}
           q == [NoRequest EXCEPT !.op = "close", !.queued = doomed]
<1>1. q \in Request /\ q.op = "close"
  BY NoRequestTyped DEF NoRequest, Request
<1>2. RequestSound(q)
  BY <1>1 DEF RequestSound
<1>3. reqs' = [reqs EXCEPT ![r] = q]
  BY DEF BeginDeleteBrand, Begin
<1> HIDE DEF q
<1> QED BY <1>1, <1>2, <1>3, BegunRequest DEF BeginDeleteBrand

\* The deletion of an account takes its snapshot.
LEMMA BeginAnonymizeInv ==
    \A r \in Requests, p \in People : Core /\ BeginAnonymize(r, p) => Core'
<1> SUFFICES ASSUME NEW r \in Requests, NEW p \in People, Core, BeginAnonymize(r, p)
             PROVE  Core'
  OBVIOUS
<1> DEFINE seen == IF Closes(p) THEN OpenBranches ELSE {}
           doomed == {i \in Invites :
              /\ \E l \in Links : mails[i][l] = "PENDING"
              /\ invites[i].by = p \/ (Closes(p) /\ invites[i].status = "PENDIENTE")}
           q == [NoRequest EXCEPT !.op = "erase", !.actor = p, !.at = seen,
                                  !.queued = doomed]
<1>1. seen \subseteq Branches /\ doomed \subseteq Invites
  BY DEF OpenBranches
<1>2. q \in Request /\ q.op = "erase" /\ q.actor = p
  <2> HIDE DEF seen, doomed
  <2> QED BY <1>1, NoRequestTyped DEF NoRequest, Request
<1>3. RequestSound(q)
  BY <1>2 DEF RequestSound
<1>4. reqs' = [reqs EXCEPT ![r] = q]
  BY DEF BeginAnonymize, Begin
<1> HIDE DEF q
<1> QED BY <1>2, <1>3, <1>4, BegunRequest DEF BeginAnonymize

-----------------------------------------------------------------------------
(* Invitations *)

\* Giving up mails leaves them mails.
LEMMA CancelledTyped ==
    ASSUME TypeOK, NEW i \in Invites
    PROVE  Cancelled(i) \in [Links -> MailStatus]
  BY DEF TypeOK, Cancelled, MailStatus

\* Expiry takes what was pending and late, with its mails; it leaves the rest.
LEMMA ExpiryKeeps ==
    ASSUME Core, NEW i \in Invites
    PROVE  /\ AfterExpiry(i) \in Invite /\ MailsAfterExpiry(i) \in [Links -> MailStatus]
           /\ AfterExpiry(i).status = "PENDIENTE" =>
                 AfterExpiry(i) = invites[i] /\ MailsAfterExpiry(i) = mails[i]
<1>1. invites[i] \in Invite /\ mails[i] \in [Links -> MailStatus]
  BY DEF Core, TypeOK, MailStatus
<1>2. [invites[i] EXCEPT !.status = "EXPIRADA"] \in Invite
      /\ [invites[i] EXCEPT !.status = "EXPIRADA"].status = "EXPIRADA"
  BY <1>1 DEF Invite
<1>3. CASE Expiring(i)
  BY <1>1, <1>2, <1>3, CancelledTyped DEF Core, AfterExpiry, MailsAfterExpiry
<1>4. CASE ~Expiring(i)
  BY <1>1, <1>4 DEF AfterExpiry, MailsAfterExpiry
<1> QED BY <1>3, <1>4

\* A step about invitations: everybody and every branch stays as it is, and only
\* an open brand gets a pending invitation.
LEMMA InvitationsStep ==
    ASSUME Core, UNCHANGED <<brand, branches, members, past>>,
           invites' \in [Invites -> Invite], mails' \in [Invites -> [Links -> MailStatus]],
           taken' \subseteq Invites, changes' \in 0..MaxChanges, RequestsFit',
           \A i \in Invites : InviteSound(i)',
           \A i \in Invites : invites'[i].status = "PENDIENTE" => brand = "open"
    PROVE  Core'
<1>1. TypeOK'
  BY DEF RequestsFit, Core, TypeOK, MailStatus
<1>2. MembersSound' /\ OperatorsHaveBranches' /\ RemovedStayOut' /\ NoMutualRemoval'
  BY DEF Core, MembersSound, OperatorsHaveBranches, RemovedStayOut, NoMutualRemoval
<1>3. InvitesSound' /\ PrimaryFound'
  BY DEF Core, InvitesSound, PrimaryFound, Primaries, OpenBranches
<1>4. ClosedBrandIsEmpty'
  BY DEF Core, TypeOK, ClosedBrandIsEmpty, OpenBranches
<1> QED BY <1>1, <1>2, <1>3, <1>4 DEF RequestsFit, Core

\* What is bounded stays so, and somebody who manages the brand finds it open.
LEMMA ChangeIsBounded == ASSUME Core, Change PROVE changes' \in 0..MaxChanges
  BY Bounds DEF Core, TypeOK, Change

\* Whoever is active works for an open brand.
LEMMA ManagedBrandIsOpen ==
    ASSUME Core, NEW p \in People, members[p].active PROVE brand = "open"
  BY DEF Core, TypeOK, ClosedBrandIsEmpty

\* An invitation that is pending is to an open brand.
LEMMA PendingBrandIsOpen ==
    ASSUME Core, NEW i \in Invites, invites[i].status = "PENDIENTE" PROVE brand = "open"
  BY DEF Core, TypeOK, ClosedBrandIsEmpty

\* An invitation that only expires, or goes on, is as sound as it was.
LEMMA ExpiredIsSound ==
    ASSUME Core, NEW i \in Invites, gone' = gone,
           \/ invites'[i] = AfterExpiry(i) /\ mails'[i] = MailsAfterExpiry(i)
           \/ invites'[i] = invites[i] /\ mails'[i] = mails[i]
    PROVE  /\ invites'[i] \in Invite /\ mails'[i] \in [Links -> MailStatus]
           /\ InviteSound(i)'
           /\ invites'[i].status = "PENDIENTE" => brand = "open"
<1>1. /\ invites'[i] \in Invite /\ mails'[i] \in [Links -> MailStatus]
      /\ invites'[i].status = "PENDIENTE" => invites'[i] = invites[i] /\ mails'[i] = mails[i]
  BY ExpiryKeeps DEF Core, TypeOK, MailStatus
<1>2. InviteSound(i)
  BY DEF Core, InvitesSound
<1>3. InviteSound(i)'
  BY <1>1, <1>2 DEF InviteSound
<1> QED BY <1>1, <1>3, PendingBrandIsOpen

\* Looking at the invitations expires the late ones.
LEMMA ListInvitationsInv == Core /\ ListInvitations => Core'
<1> SUFFICES ASSUME Core, ListInvitations PROVE Core'
  OBVIOUS
<1>1. /\ invites' = [i \in Invites |-> AfterExpiry(i)]
      /\ mails' = [i \in Invites |-> MailsAfterExpiry(i)]
      /\ UNCHANGED <<brand, branches, members, taken, reqs, past>> /\ Change
  BY DEF ListInvitations, Commit
<1>2. \A i \in Invites :
        /\ invites'[i] \in Invite /\ mails'[i] \in [Links -> MailStatus] /\ InviteSound(i)'
        /\ invites'[i].status = "PENDIENTE" => brand = "open"
  BY <1>1, ExpiredIsSound
<1>3. invites' \in [Invites -> Invite] /\ mails' \in [Invites -> [Links -> MailStatus]]
  BY <1>1, <1>2
<1> QED BY <1>1, <1>2, <1>3, InvitationsStep, SameRequests, ChangeIsBounded DEF Core, TypeOK

\* A new invitation: its one link is on its way.
LEMMA CreateInvitationInv ==
    \A i \in Invites, p \in People : Core /\ CreateInvitation(i, p) => Core'
<1> SUFFICES ASSUME NEW i \in Invites, NEW p \in People, Core, CreateInvitation(i, p)
             PROVE  Core'
  OBVIOUS
<1>1. PICK role \in {"admin", "operator"}, at \in SUBSET OpenBranches :
        /\ Invitable(role, at)
        /\ invites' = [j \in Invites |->
               IF j = i THEN [status |-> "PENDIENTE", role |-> role, at |-> at,
                              link |-> 1, by |-> p, late |-> FALSE] ELSE AfterExpiry(j)]
  BY DEF CreateInvitation
<1>2. /\ mails' = [j \in Invites |-> IF j = i THEN [mails[i] EXCEPT ![1] = "PENDING"]
                                     ELSE MailsAfterExpiry(j)]
      /\ UNCHANGED <<brand, branches, members, taken, reqs, past>> /\ Change
      /\ 1 \in Links
  BY Bounds DEF CreateInvitation, Links, Commit
<1>3. brand = "open"
  BY ManagedBrandIsOpen DEF CreateInvitation, Manages
<1>4. mails[i] \in [Links -> MailStatus]
  BY DEF Core, TypeOK, MailStatus
<1>5. \A j \in Invites :
        /\ invites'[j] \in Invite /\ mails'[j] \in [Links -> MailStatus] /\ InviteSound(j)'
        /\ invites'[j].status = "PENDIENTE" => brand = "open"
  <2>1. ASSUME NEW j \in Invites, j # i
        PROVE  /\ invites'[j] \in Invite /\ mails'[j] \in [Links -> MailStatus]
               /\ InviteSound(j)'
    BY <1>1, <1>2, <2>1, ExpiredIsSound
  <2>2. invites'[i] = [status |-> "PENDIENTE", role |-> role, at |-> at,
                       link |-> 1, by |-> p, late |-> FALSE]
    BY <1>1
  <2>3. invites'[i] \in Invite
    BY <1>2, <2>2, Bounds DEF Invite, OpenBranches
  <2>4. /\ mails'[i] = [mails[i] EXCEPT ![1] = "PENDING"]
        /\ mails'[i] \in [Links -> MailStatus] /\ mails'[i][1] = "PENDING"
    BY <1>2, <1>4 DEF MailStatus
  <2>5. InviteSound(i)'
    BY <1>1, <1>2, <2>2, <2>4 DEF InviteSound
  <2> QED BY <1>3, <2>1, <2>3, <2>4, <2>5
<1>6. invites' \in [Invites -> Invite] /\ mails' \in [Invites -> [Links -> MailStatus]]
  BY <1>1, <1>2, <1>5
<1> QED BY <1>2, <1>5, <1>6, InvitationsStep, SameRequests, ChangeIsBounded DEF Core, TypeOK

\* The latest link runs out; nobody can accept it any more.
LEMMA LinkExpiresInv == \A i \in Invites : Core /\ LinkExpires(i) => Core'
<1> SUFFICES ASSUME NEW i \in Invites, Core, LinkExpires(i) PROVE Core'
  OBVIOUS
<1>1. /\ invites' = [invites EXCEPT ![i].late = TRUE]
      /\ UNCHANGED <<brand, branches, members, mails, taken, reqs, past>> /\ Change
      /\ invites[i].status = "PENDIENTE"
      /\ invites \in [Invites -> Invite] /\ mails \in [Invites -> [Links -> MailStatus]]
  BY DEF LinkExpires, Core, TypeOK, MailStatus
<1>2. /\ invites'[i] = [invites[i] EXCEPT !.late = TRUE]
      /\ invites'[i] \in Invite /\ invites'[i].late /\ invites'[i].status = invites[i].status
      /\ invites'[i].role = invites[i].role /\ invites'[i].at = invites[i].at
      /\ invites'[i].link = invites[i].link /\ invites'[i].by = invites[i].by
  BY <1>1 DEF Invite
<1>3. invites' \in [Invites -> Invite]
  BY <1>1, <1>2
<1>4. \A j \in Invites :
        InviteSound(j)' /\ (invites'[j].status = "PENDIENTE" => brand = "open")
  <2>1. ASSUME NEW j \in Invites, j # i
        PROVE  InviteSound(j)' /\ (invites'[j].status = "PENDIENTE" => brand = "open")
    BY <1>1, <2>1, ExpiredIsSound
  <2>2. InviteSound(i)
    BY DEF Core, InvitesSound
  <2>3. InviteSound(i)'
    BY <1>1, <1>2, <2>2 DEF InviteSound
  <2> QED BY <1>1, <2>1, <2>3, PendingBrandIsOpen
<1> QED BY <1>1, <1>3, <1>4, InvitationsStep, SameRequests, ChangeIsBounded DEF Core, TypeOK

\* A mail that the worker sends or gives up.
LEMMA DeliverInv == \A i \in Invites, l \in Links : Core /\ Deliver(i, l) => Core'
<1> SUFFICES ASSUME NEW i \in Invites, NEW l \in Links, Core, Deliver(i, l) PROVE Core'
  OBVIOUS
<1>1. PICK outcome \in {"SENT", "UNSENT"} :
         mails' = [mails EXCEPT ![i][l] = outcome]
  BY DEF Deliver
<1>2. /\ UNCHANGED <<brand, branches, members, invites, taken, reqs, past, changes>>
      /\ mails \in [Invites -> [Links -> MailStatus]] /\ invites \in [Invites -> Invite]
      /\ outcome \in MailStatus
  BY DEF Deliver, Core, TypeOK, MailStatus
<1>3. /\ mails' \in [Invites -> [Links -> MailStatus]]
      /\ mails'[i][l] = outcome
      /\ \A k \in Links \ {l} : mails'[i][k] = mails[i][k]
      /\ \A j \in Invites \ {i} : mails'[j] = mails[j]
  BY <1>1, <1>2
<1>4. \A j \in Invites :
        InviteSound(j)' /\ (invites'[j].status = "PENDIENTE" => brand = "open")
  <2>1. ASSUME NEW j \in Invites, j # i PROVE InviteSound(j)'
    BY <1>2, <1>3, <2>1, ExpiredIsSound
  <2>2. InviteSound(i)
    BY DEF Core, InvitesSound
  <2>3. InviteSound(i)'
    BY <1>2, <1>3, <2>2 DEF InviteSound
  <2> QED BY <1>2, <2>1, <2>3, PendingBrandIsOpen
<1> QED BY <1>2, <1>3, <1>4, InvitationsStep, SameRequests DEF Core, TypeOK

\* An address that gets an account of its own changes no invitation.
LEMMA AddressTakenInv == \A i \in Invites : Core /\ AddressTaken(i) => Core'
<1> SUFFICES ASSUME NEW i \in Invites, Core, AddressTaken(i) PROVE Core'
  OBVIOUS
<1>1. /\ UNCHANGED <<brand, branches, members, invites, mails, reqs, past>> /\ Change
      /\ taken' \subseteq Invites
  BY DEF AddressTaken, Core, TypeOK
<1>2. \A j \in Invites :
        InviteSound(j)' /\ (invites'[j].status = "PENDIENTE" => brand = "open")
  BY <1>1, ExpiredIsSound
<1>3. invites' \in [Invites -> Invite] /\ mails' \in [Invites -> [Links -> MailStatus]]
  BY <1>1 DEF Core, TypeOK, MailStatus
<1> QED BY <1>1, <1>2, <1>3, InvitationsStep, SameRequests, ChangeIsBounded

\* An address whose account is deleted takes its invitation with it.
LEMMA AddressFreedInv == \A i \in Invites : Core /\ AddressFreed(i) => Core'
<1> SUFFICES ASSUME NEW i \in Invites, Core, AddressFreed(i) PROVE Core'
  OBVIOUS
<1>1. /\ UNCHANGED <<brand, branches, members, reqs, past>> /\ Change
      /\ mails' = [mails EXCEPT ![i] = Cancelled(i)] /\ taken' \subseteq Invites
      /\ invites' = [invites EXCEPT ![i].status =
                        IF invites[i].status = "PENDIENTE" THEN "REVOCADA"
                        ELSE invites[i].status]
      /\ invites \in [Invites -> Invite] /\ mails \in [Invites -> [Links -> MailStatus]]
  BY DEF AddressFreed, Commit, Core, TypeOK
<1>2. Cancelled(i) \in [Links -> MailStatus]
  BY CancelledTyped DEF Core
<1>3. invites'[i] \in Invite /\ invites'[i].status # "PENDIENTE"
  BY <1>1 DEF Invite
<1>4. \A j \in Invites :
        /\ invites'[j] \in Invite /\ mails'[j] \in [Links -> MailStatus] /\ InviteSound(j)'
        /\ invites'[j].status = "PENDIENTE" => brand = "open"
  <2>1. ASSUME NEW j \in Invites, j # i
        PROVE  /\ invites'[j] \in Invite /\ mails'[j] \in [Links -> MailStatus]
               /\ InviteSound(j)'
               /\ invites'[j].status = "PENDIENTE" => brand = "open"
    BY <1>1, <2>1, ExpiredIsSound
  <2>2. InviteSound(i)'
    BY <1>3 DEF InviteSound
  <2>3. mails'[i] \in [Links -> MailStatus]
    BY <1>1, <1>2
  <2> QED BY <1>3, <2>1, <2>2, <2>3
<1>5. invites' \in [Invites -> Invite] /\ mails' \in [Invites -> [Links -> MailStatus]]
  BY <1>1, <1>4
<1> QED BY <1>1, <1>4, <1>5, InvitationsStep, SameRequests, ChangeIsBounded

\* Revoking or sending again: one invitation moves, the late ones expire.
LEMMA InvitationChange ==
    ASSUME Core, NEW r \in Requests, NEW i \in Invites, NEW invite \in Invite,
           NEW sent \in [Links -> MailStatus],
           invites' = [j \in Invites |-> IF j = i THEN invite ELSE AfterExpiry(j)],
           mails' = [j \in Invites |-> IF j = i THEN sent ELSE MailsAfterExpiry(j)],
           UNCHANGED <<brand, branches, members, taken, past>>, End(r), Change,
           invite.status = "PENDIENTE" =>
               /\ invites[i].status = "PENDIENTE"
               /\ invite.link \in Links /\ sent[invite.link] = "PENDING"
               /\ Invitable(invite.role, invite.at)
    PROVE  Core'
<1>1. \A j \in Invites :
        /\ invites'[j] \in Invite /\ mails'[j] \in [Links -> MailStatus] /\ InviteSound(j)'
        /\ invites'[j].status = "PENDIENTE" => brand = "open"
  <2>1. ASSUME NEW j \in Invites, j # i
        PROVE  /\ invites'[j] \in Invite /\ mails'[j] \in [Links -> MailStatus]
               /\ InviteSound(j)'
               /\ invites'[j].status = "PENDIENTE" => brand = "open"
    BY <2>1, ExpiredIsSound
  <2>2. invites'[i] = invite /\ mails'[i] = sent
    OBVIOUS
  <2>3. InviteSound(i)'
    BY <2>2 DEF InviteSound
  <2> QED BY <2>1, <2>2, <2>3, PendingBrandIsOpen
<1>2. invites' \in [Invites -> Invite] /\ mails' \in [Invites -> [Links -> MailStatus]]
  BY <1>1
<1> QED BY <1>1, <1>2, InvitationsStep, EndedRequest, ChangeIsBounded DEF Core, TypeOK

\* Revoking gives the mails up with the invitation.
LEMMA RevokeInvitationInv == \A r \in Requests : Core /\ RevokeInvitation(r) => Core'
<1> SUFFICES ASSUME NEW r \in Requests, Core, RevokeInvitation(r) PROVE Core'
  OBVIOUS
<1>1. PICK i \in Invites : i = reqs[r].invite
  BY DEF RevokeInvitation, Core, RequestsSound, RequestSound
<1>2. PICK invite : invite = [invites[i] EXCEPT !.status = "REVOCADA"]
  OBVIOUS
<1>3. invite \in Invite /\ invite.status = "REVOCADA"
  BY <1>2 DEF Core, TypeOK, Invite
<1>4. Cancelled(i) \in [Links -> MailStatus]
  BY CancelledTyped DEF Core
<1>5. PICK sent \in [Links -> MailStatus] : sent = Cancelled(i)
  BY <1>4
<1>6. /\ invites' = [j \in Invites |-> IF j = i THEN invite ELSE AfterExpiry(j)]
      /\ mails' = [j \in Invites |-> IF j = i THEN sent ELSE MailsAfterExpiry(j)]
      /\ UNCHANGED <<brand, branches, members, taken, past>> /\ End(r) /\ Change
  BY <1>1, <1>2, <1>5 DEF RevokeInvitation, Commit
<1> QED BY <1>3, <1>6, InvitationChange

\* Sending again queues the mail of the new link after giving the others up.
LEMMA ResendInvitationInv == \A r \in Requests : Core /\ ResendInvitation(r) => Core'
<1> SUFFICES ASSUME NEW r \in Requests, Core, ResendInvitation(r) PROVE Core'
  OBVIOUS
<1>1. PICK i \in Invites : i = reqs[r].invite
  BY DEF ResendInvitation, Core, RequestsSound, RequestSound
<1>2. PICK link : link = invites[i].link + 1
  OBVIOUS
<1>3. /\ link \in Links /\ invites[i].status = "PENDIENTE"
      /\ reqs[r].actor \in People
      /\ invites' = [j \in Invites |->
             IF j = i THEN [invites[i] EXCEPT !.link = link, !.by = reqs[r].actor]
             ELSE AfterExpiry(j)]
      /\ mails' = [j \in Invites |-> IF j = i THEN NewMail(i, link) ELSE MailsAfterExpiry(j)]
      /\ UNCHANGED <<brand, branches, members, taken, past>> /\ End(r) /\ Change
  BY <1>1, <1>2 DEF ResendInvitation, Commit, Core, RequestsSound, RequestSound
<1>4. PICK invite : invite = [invites[i] EXCEPT !.link = link, !.by = reqs[r].actor]
  OBVIOUS
<1>5. /\ invite \in Invite /\ invite.link = link
      /\ invite.role = invites[i].role /\ invite.at = invites[i].at
  BY <1>3, <1>4, Bounds DEF Core, TypeOK, Invite
<1>6. Invitable(invite.role, invite.at)
  BY <1>3, <1>5 DEF Core, InvitesSound, InviteSound
<1>7. Cancelled(i) \in [Links -> MailStatus]
  BY CancelledTyped DEF Core
<1>8. NewMail(i, link) \in [Links -> MailStatus] /\ NewMail(i, link)[link] = "PENDING"
  BY <1>3, <1>7 DEF NewMail, MailStatus
<1>9. PICK sent \in [Links -> MailStatus] : sent = NewMail(i, link)
  BY <1>8
<1>10. /\ invites' = [j \in Invites |-> IF j = i THEN invite ELSE AfterExpiry(j)]
       /\ mails' = [j \in Invites |-> IF j = i THEN sent ELSE MailsAfterExpiry(j)]
  BY <1>3, <1>4, <1>9
<1>11. sent[invite.link] = "PENDING"
  BY <1>5, <1>8, <1>9
<1> QED BY <1>3, <1>5, <1>6, <1>10, <1>11, InvitationChange

\* Somebody joins through a link, as what the invitation says.
LEMMA RegisterInvitationInv ==
    \A r \in Requests, p \in People : Core /\ RegisterInvitation(r, p) => Core'
<1> SUFFICES ASSUME NEW r \in Requests, NEW p \in People, Core, RegisterInvitation(r, p)
             PROVE  Core'
  OBVIOUS
<1>1. PICK i \in Invites : i = reqs[r].invite
  BY DEF RegisterInvitation, Core, RequestsSound, RequestSound
<1>2. PICK joined : joined = [role |-> invites[i].role, active |-> TRUE, at |-> invites[i].at]
  OBVIOUS
<1>3. /\ brand = "open" /\ invites[i].status = "PENDIENTE"
      /\ p \in Staff /\ members[p].role = "none"
      /\ members' = [members EXCEPT ![p] = joined]
      /\ invites' = [invites EXCEPT ![i].status = "ACEPTADA"]
      /\ mails' = [mails EXCEPT ![i] = Cancelled(i)]
      /\ taken' = taken \cup {i} /\ End(r) /\ Change
      /\ UNCHANGED <<brand, branches, past>>
  BY <1>1, <1>2 DEF RegisterInvitation, Joinable, Commit
<1>4. /\ members \in [People -> Member] /\ invites \in [Invites -> Invite]
      /\ mails \in [Invites -> [Links -> MailStatus]]
      /\ invites[i] \in Invite /\ Cancelled(i) \in [Links -> MailStatus]
  BY CancelledTyped DEF Core, TypeOK, MailStatus
<1>5. /\ joined \in Member /\ joined.active /\ joined.role \in {"admin", "operator"}
      /\ joined.role = "operator" => joined.at # {}
  BY <1>2, <1>3, <1>4 DEF Member, Invite, Core, InvitesSound, InviteSound, Invitable
<1>6. /\ invites'[i] \in Invite /\ invites'[i].status = "ACEPTADA"
  BY <1>3, <1>4 DEF Invite
<1>7. RequestsFit'
  BY <1>3, EndedRequest
<1>8. TypeOK'
  <2>1. members' \in [People -> Member]
    BY <1>3, <1>4, <1>5
  <2>2. invites' \in [Invites -> Invite]
    BY <1>3, <1>4, <1>6
  <2>3. mails' \in [Invites -> [Links -> MailStatus]]
    BY <1>3, <1>4
  <2> QED BY <1>3, <1>7, <2>1, <2>2, <2>3, ChangeIsBounded
          DEF RequestsFit, Core, TypeOK, MailStatus
<1>9. \A q \in People : members'[q] = IF q = p THEN joined ELSE members[q]
  BY <1>3, <1>4
<1>10. MembersSound' /\ OperatorsHaveBranches'
  BY <1>3, <1>5, <1>9, Bounds DEF Core, MembersSound, OperatorsHaveBranches
<1>11. RemovedStayOut' /\ NoMutualRemoval'
  <2>1. \A c \in removals : c[2] \in People /\ c[2] # p
    BY <1>3 DEF Core, TypeOK, RemovedStayOut, People
  <2> QED BY <1>3, <1>9, <2>1 DEF Core, RemovedStayOut, NoMutualRemoval
<1>12. InvitesSound'
  <2>1. ASSUME NEW j \in Invites, j # i PROVE InviteSound(j)'
    <3>1. invites'[j] = invites[j] /\ mails'[j] = mails[j]
      BY <1>3, <1>4, <2>1
    <3> QED BY <1>3, <3>1, ExpiredIsSound
  <2>2. InviteSound(i)'
    BY <1>6 DEF InviteSound
  <2> QED BY <2>1, <2>2 DEF InvitesSound
<1>13. PrimaryFound' /\ ClosedBrandIsEmpty'
  BY <1>3 DEF Core, PrimaryFound, Primaries, OpenBranches, ClosedBrandIsEmpty
<1> QED BY <1>7, <1>8, <1>10, <1>11, <1>12, <1>13 DEF RequestsFit, Core

-----------------------------------------------------------------------------
(* Staff *)

\* Every transaction still running learns of the change; what else it relies on
\* stays true, and a removal adds only what it learns.
LEMMA ChangeIsLearnt ==
    ASSUME Core, NEW r \in Requests, reqs[r].op \in {"update", "remove"}, EndStaffChange(r),
           removals' \subseteq removals \cup {<<reqs[r].actor, reqs[r].target>>}
    PROVE  RequestsFit'
<1>1. PICK a, t : a = reqs[r].actor /\ t = reqs[r].target
  OBVIOUS
<1>2. a \in People /\ t \in People
  BY <1>1 DEF Core, RequestsSound, RequestSound, People
<1>3. \A s \in Requests :
        reqs'[s] = IF s = r THEN NoRequest
                   ELSE IF reqs[s].op \in {"update", "remove"}
                   THEN [reqs[s] EXCEPT !.since = reqs[s].since \cup {<<a, t>>}]
                   ELSE reqs[s]
  BY <1>1 DEF EndStaffChange
<1>4. ASSUME NEW s \in Requests, NEW q, q = reqs'[s]
      PROVE  /\ q \in Request
             /\ q.op = IF s = r THEN "none" ELSE reqs[s].op
             /\ RequestSound(q)'
  <2>1. reqs[s] \in Request /\ RequestSound(reqs[s])
    BY DEF Core, TypeOK, RequestsSound
  <2>2. CASE s = r
    <3>1. q = NoRequest
      BY <1>3, <1>4, <2>2
    <3> QED BY <2>2, <3>1, NoRequestTyped DEF RequestSound
  <2>3. CASE s # r /\ reqs[s].op \notin {"update", "remove"}
    <3>1. q = reqs[s]
      BY <1>3, <1>4, <2>3
    <3>2. RequestSound(q)'
      BY <2>1, <2>3, <3>1 DEF RequestSound
    <3> QED BY <2>1, <2>3, <3>1, <3>2
  <2>4. CASE s # r /\ reqs[s].op \in {"update", "remove"}
    <3>1. q = [reqs[s] EXCEPT !.since = reqs[s].since \cup {<<a, t>>}]
      BY <1>3, <1>4, <2>4
    <3>2. /\ q \in Request
          /\ q.op = reqs[s].op /\ q.actor = reqs[s].actor
          /\ q.target = reqs[s].target
          /\ q.since = reqs[s].since \cup {<<a, t>>}
      BY <1>2, <2>1, <3>1 DEF Request
    <3>3. \A p \in People : <<p, reqs[s].actor>> \in removals'
                               => <<p, reqs[s].actor>> \in reqs[s].since \cup {<<a, t>>}
      BY <1>1, <2>1, <2>4 DEF RequestSound
    <3>4. \A p \in People : <<p, q.actor>> \in removals' => <<p, q.actor>> \in q.since
      BY <3>2, <3>3
    <3>5. RequestSound(q)'
      BY <2>1, <2>4, <3>2, <3>4 DEF RequestSound
    <3> QED BY <2>4, <3>2, <3>5
  <2> QED BY <2>2, <2>3, <2>4
<1>5. \A s \in Requests : reqs'[s] \in Request
                          /\ reqs'[s].op = IF s = r THEN "none" ELSE reqs[s].op
  BY <1>4
<1>6. reqs' \in [Requests -> Request]
  BY <1>5 DEF EndStaffChange
<1>7. \A u, s \in Requests : reqs'[u].op = "close" /\ reqs'[s].op = "close" => u = s
  BY <1>5 DEF Core, TypeOK
<1>8. RequestsSound'
  BY <1>4 DEF RequestsSound, RequestSound
<1> QED BY <1>6, <1>7, <1>8 DEF RequestsFit

\* Steps that leave the brand, its branches and its invitations.
LEMMA StaffStep ==
    ASSUME Core, UNCHANGED <<brand, branches, invites, mails, taken, gone, overlooked>>,
           brand = "open",
           changes' \in 0..MaxChanges, members' \in [People -> Member],
           removals' \subseteq People \X Staff, RequestsFit',
           MembersSound', OperatorsHaveBranches', RemovedStayOut', NoMutualRemoval'
    PROVE  Core'
<1>1. TypeOK'
  BY DEF RequestsFit, Core, TypeOK
<1>2. InvitesSound' /\ PrimaryFound' /\ ClosedBrandIsEmpty'
  BY DEF Core, InvitesSound, InviteSound, PrimaryFound, Primaries, OpenBranches,
         ClosedBrandIsEmpty
<1> QED BY <1>1, <1>2 DEF RequestsFit, Core

\* The role and the branches are changed together, of somebody still active.
LEMMA UpdateStaffInv == \A r \in Requests : Core /\ UpdateStaff(r) => Core'
<1> SUFFICES ASSUME NEW r \in Requests, Core, UpdateStaff(r) PROVE Core'
  OBVIOUS
<1>1. PICK t \in Staff : t = reqs[r].target
  BY DEF UpdateStaff, Core, RequestsSound, RequestSound
<1>2. t \in People /\ t # Owner
  BY Bounds DEF People
<1>3. PICK role \in {"admin", "operator"}, at \in (SUBSET reqs[r].at) \cup {members[t].at} :
        LET assigned == IF role = "admin" THEN {} ELSE at IN
        /\ Assignable(role, assigned)
        /\ members' = [members EXCEPT ![t].role = role, ![t].at = assigned]
  BY <1>1 DEF UpdateStaff
<1>4. PICK assigned : assigned = IF role = "admin" THEN {} ELSE at
  OBVIOUS
<1>5. /\ members[t].active /\ members \in [People -> Member] /\ members[t] \in Member
      /\ reqs[r].at \subseteq Branches
  BY <1>1, <1>2 DEF UpdateStaff, Core, TypeOK, Request
<1>6. assigned \subseteq Branches
  BY <1>4, <1>5 DEF Member
<1>7. /\ members' = [members EXCEPT ![t].role = role, ![t].at = assigned]
      /\ role = "operator" => assigned # {}
  BY <1>3, <1>4 DEF Assignable
<1>8. /\ members' \in [People -> Member]
      /\ members'[t].role = role /\ members'[t].at = assigned /\ members'[t].active
      /\ \A p \in People \ {t} : members'[p] = members[p]
  BY <1>2, <1>5, <1>6, <1>7 DEF Member
<1>9. MembersSound' /\ OperatorsHaveBranches'
  BY <1>2, <1>7, <1>8 DEF Core, MembersSound, OperatorsHaveBranches
<1>10. RemovedStayOut' /\ NoMutualRemoval'
  <2>1. \A c \in removals : c[2] \in People /\ c[2] # t
    BY <1>5 DEF Core, TypeOK, RemovedStayOut, People
  <2> QED BY <1>8, <2>1 DEF UpdateStaff, Core, RemovedStayOut, NoMutualRemoval
<1>11. RequestsFit' /\ changes' \in 0..MaxChanges
  BY ChangeIsLearnt, ChangeIsBounded DEF UpdateStaff, Commit
<1>12. brand = "open"
  BY <1>2, <1>5, ManagedBrandIsOpen
<1> QED BY <1>8, <1>9, <1>10, <1>11, <1>12, StaffStep DEF UpdateStaff, Core, TypeOK

\* A removal: had the target removed the actor, this request would know.
LEMMA DeleteStaffInv == \A r \in Requests : Core /\ DeleteStaff(r) => Core'
<1> SUFFICES ASSUME NEW r \in Requests, Core, DeleteStaff(r) PROVE Core'
  OBVIOUS
<1>1. PICK a, t : a = reqs[r].actor /\ t = reqs[r].target
  OBVIOUS
<1>2. /\ reqs[r].op = "remove" /\ a \in People /\ t \in Staff /\ t \in People /\ a # t
      /\ \A p \in People : <<p, a>> \in removals => <<p, a>> \in reqs[r].since
  BY <1>1 DEF DeleteStaff, Core, RequestsSound, RequestSound, People
<1>3. /\ members[t].active /\ members \in [People -> Member] /\ members[t] \in Member
      /\ members' = [members EXCEPT ![t].active = FALSE, ![t].at = {}]
      /\ removals' = removals \cup {<<a, t>>}
      /\ UNCHANGED <<brand, branches, invites, mails, taken, gone, overlooked>>
  BY <1>1, <1>2 DEF DeleteStaff, Core, TypeOK
<1>4. /\ members' \in [People -> Member]
      /\ ~members'[t].active /\ members'[t].role = members[t].role
      /\ \A p \in People \ {t} : members'[p] = members[p]
  BY <1>2, <1>3 DEF Member
<1>5. MembersSound' /\ OperatorsHaveBranches'
  BY <1>2, <1>4 DEF Core, MembersSound, OperatorsHaveBranches
<1>6. removals' \subseteq People \X Staff
  BY <1>2, <1>3 DEF Core, TypeOK
<1>7. RemovedStayOut'
  <2>1. members[t].role # "none"
    BY <1>2, <1>3 DEF Core, MembersSound
  <2>2. ASSUME NEW c \in removals'
        PROVE  ~members'[c[2]].active /\ members'[c[2]].role # "none"
    <3>1. CASE c = <<a, t>>
      BY <1>4, <2>1, <3>1
    <3>2. CASE c \in removals
      <4>1. c[2] \in People
        BY <3>2 DEF Core, TypeOK, People
      <4> QED BY <1>4, <2>1, <3>2, <4>1 DEF Core, RemovedStayOut
    <3> QED BY <1>3, <3>1, <3>2
  <2> QED BY <2>2 DEF RemovedStayOut
<1>8. NoMutualRemoval'
  <2>1. <<t, a>> \notin removals
    <3>1. <<t, a>> \notin reqs[r].since
      BY <1>1 DEF DeleteStaff, Serializable
    <3> QED BY <1>2, <3>1
  <2>2. ASSUME NEW c \in removals' PROVE <<c[2], c[1]>> \notin removals'
    <3>1. CASE c = <<a, t>>
      BY <1>2, <1>3, <2>1, <3>1
    <3>2. CASE c \in removals
      <4>1. c = <<c[1], c[2]>>
        BY <3>2 DEF Core, TypeOK
      <4>2. <<c[2], c[1]>> # <<a, t>>
        BY <2>1, <3>2, <4>1
      <4> QED BY <1>3, <3>2, <4>2 DEF Core, NoMutualRemoval
    <3> QED BY <1>3, <3>1, <3>2
  <2> QED BY <2>2 DEF NoMutualRemoval
<1>9. RequestsFit' /\ changes' \in 0..MaxChanges
  BY <1>1, <1>2, <1>3, ChangeIsLearnt, ChangeIsBounded DEF DeleteStaff, Commit
<1>10. brand = "open"
  BY <1>2, <1>3, ManagedBrandIsOpen
<1> QED BY <1>3, <1>4, <1>5, <1>6, <1>7, <1>8, <1>9, <1>10, StaffStep

-----------------------------------------------------------------------------
(* Branches *)

\* Steps that leave everything but the branches of an open brand.
LEMMA BranchesStep ==
    ASSUME Core, UNCHANGED <<brand, members, invites, mails, taken, reqs, removals, gone>>,
           overlooked' \subseteq Branches,
           brand = "open", Change, branches' \in [Branches -> Branch], PrimaryFound'
    PROVE  Core'
<1>1. RequestsFit' /\ changes' \in 0..MaxChanges
  BY SameRequests, ChangeIsBounded
<1>2. TypeOK'
  BY <1>1 DEF RequestsFit, Core, TypeOK
<1>3. InvitesSound' /\ ClosedBrandIsEmpty'
  BY DEF Core, InvitesSound, InviteSound, ClosedBrandIsEmpty
<1>4. MembersSound' /\ OperatorsHaveBranches' /\ RemovedStayOut' /\ NoMutualRemoval'
  BY DEF Core, MembersSound, OperatorsHaveBranches, RemovedStayOut, NoMutualRemoval
<1> QED BY <1>1, <1>2, <1>3, <1>4 DEF RequestsFit, Core

\* A new branch is not the primary one.
LEMMA CreateBranchInv == \A b \in Branches : Core /\ CreateBranch(b) => Core'
<1> SUFFICES ASSUME NEW b \in Branches, Core, CreateBranch(b) PROVE Core'
  OBVIOUS
<1>1. /\ brand = "open" /\ branches[b].status = "none"
      /\ branches' = [branches EXCEPT ![b].status = "open"]
      /\ UNCHANGED <<brand, members, invites, mails, taken, reqs, removals, gone>>
      /\ Change /\ overlooked' \subseteq Branches
      /\ branches \in [Branches -> Branch]
      /\ ~branches[b].primary
  BY DEF CreateBranch, Core, TypeOK, PrimaryFound
<1>2. /\ branches' \in [Branches -> Branch]
      /\ branches'[b].status = "open" /\ ~branches'[b].primary
      /\ \A x \in Branches \ {b} : branches'[x] = branches[x]
  BY <1>1 DEF Branch
<1>3. Primaries' = Primaries
  BY <1>1, <1>2 DEF Primaries, OpenBranches
<1>4. PrimaryFound'
  BY <1>1, <1>2, <1>3 DEF Core, PrimaryFound
<1> QED BY <1>1, <1>2, <1>4, BranchesStep

\* The primary branch changes, or stays because another one is open and primary.
LEMMA UpdateBranchInv == \A b \in Branches : Core /\ UpdateBranch(b) => Core'
<1> SUFFICES ASSUME NEW b \in Branches, Core, UpdateBranch(b) PROVE Core'
  OBVIOUS
<1>1. PICK primary \in BOOLEAN :
        LET after == [x \in Branches |->
                IF x = b THEN [branches[b] EXCEPT !.primary = primary]
                ELSE IF primary /\ branches[x].status = "open"
                THEN [branches[x] EXCEPT !.primary = FALSE] ELSE branches[x]] IN
        /\ ~primary => KeepsAPrimary(after)
        /\ branches' = after
  BY DEF UpdateBranch
<1>2. /\ branches[b].status = "open" /\ brand = "open"
      /\ UNCHANGED <<brand, members, invites, mails, taken, reqs, past>> /\ Change
      /\ branches \in [Branches -> Branch]
  BY ManagedBrandIsOpen DEF UpdateBranch, Manages, Core, TypeOK, Commit
<1>3. /\ branches' \in [Branches -> Branch]
      /\ \A x \in Branches :
            /\ branches'[x].status = branches[x].status
            /\ branches'[x].primary = IF x = b THEN primary
                                      ELSE IF primary /\ branches[x].status = "open"
                                      THEN FALSE ELSE branches[x].primary
  BY <1>1, <1>2 DEF Branch
<1>4. \E x \in Branches : Primaries' = {x}
  <2>1. CASE primary
    <3>1. Primaries' = {b}
      BY <1>2, <1>3, <2>1 DEF Primaries, OpenBranches
    <3> QED BY <3>1
  <2>2. CASE ~primary
    <3>1. PICK x \in Branches : branches'[x].status = "open" /\ branches'[x].primary
      BY <1>1, <2>2 DEF KeepsAPrimary
    <3>2. x \in Primaries /\ x # b
      BY <1>3, <2>2, <3>1 DEF Primaries, OpenBranches
    <3>3. Primaries = {x}
      BY <1>2, <3>2 DEF Core, PrimaryFound
    <3>4. Primaries' = {x}
      BY <1>3, <2>2, <3>1, <3>3 DEF Primaries, OpenBranches
    <3> QED BY <3>4
  <2> QED BY <2>1, <2>2
<1>5. PrimaryFound'
  BY <1>2, <1>3, <1>4 DEF Core, PrimaryFound
<1> QED BY <1>2, <1>3, <1>5, BranchesStep DEF Core, TypeOK

\* The primary branch is not deleted.
LEMMA DeleteBranchInv == \A b \in Branches : Core /\ DeleteBranch(b) => Core'
<1> SUFFICES ASSUME NEW b \in Branches, Core, DeleteBranch(b) PROVE Core'
  OBVIOUS
<1>1. /\ branches[b].status = "open" /\ ~branches[b].primary /\ brand = "open"
      /\ branches' = [branches EXCEPT ![b].status = "closed"]
      /\ UNCHANGED <<brand, members, invites, mails, taken, reqs, past>> /\ Change
      /\ branches \in [Branches -> Branch]
  BY ManagedBrandIsOpen DEF DeleteBranch, Manages, Core, TypeOK, Commit
<1>2. /\ branches' \in [Branches -> Branch]
      /\ branches'[b].status = "closed"
      /\ \A x \in Branches \ {b} : branches'[x] = branches[x]
  BY <1>1 DEF Branch
<1>3. Primaries' = Primaries
  BY <1>1, <1>2 DEF Primaries, OpenBranches
<1>4. PrimaryFound'
  BY <1>1, <1>2, <1>3 DEF Core, PrimaryFound
<1> QED BY <1>1, <1>2, <1>4, BranchesStep DEF Core, TypeOK

-----------------------------------------------------------------------------
(* The end of the brand *)

\* After Close what it saw is not open, and no invitation is pending.
LEMMA CloseEmpties ==
    ASSUME Core, NEW seen \in SUBSET Branches, Close(seen)
    PROVE  /\ branches' \in [Branches -> Branch] /\ invites' \in [Invites -> Invite]
           /\ OpenBranches' \subseteq OpenBranches \ seen
           /\ \A i \in Invites : invites'[i].status # "PENDIENTE"
           /\ InvitesSound'
           /\ PrimaryFound'
<1>1. branches \in [Branches -> Branch] /\ invites \in [Invites -> Invite]
  BY DEF Core, TypeOK
<1>2. ASSUME NEW b \in Branches
      PROVE  /\ branches'[b] \in Branch
             /\ branches'[b].status = IF b \in seen THEN "closed" ELSE branches[b].status
             /\ branches'[b].primary = branches[b].primary
  BY <1>1 DEF Close, Branch
<1>3. ASSUME NEW i \in Invites
      PROVE  invites'[i] \in Invite /\ invites'[i].status # "PENDIENTE"
  BY <1>1 DEF Close, Invite
<1>4. branches' \in [Branches -> Branch] /\ invites' \in [Invites -> Invite]
  BY <1>2, <1>3 DEF Close
<1>5. PrimaryFound'
  BY <1>2 DEF Close, PrimaryFound, Core
<1>6. InvitesSound'
  BY <1>3 DEF InvitesSound, InviteSound
<1> QED BY <1>2, <1>3, <1>4, <1>5, <1>6 DEF OpenBranches

\* The brand is closed and nobody is active any more.
LEMMA ClosingStep ==
    ASSUME Core, NEW seen \in SUBSET Branches, Close(seen),
           OpenBranches \subseteq seen \cup overlooked,
           members' \in [People -> Member],
           \A p \in People : ~members'[p].active /\ members'[p].role = members[p].role,
           mails' \in [Invites -> [Links -> MailStatus]], gone' \subseteq People,
           UNCHANGED <<taken, removals, overlooked>>, changes' \in 0..MaxChanges,
           RequestsFit'
    PROVE  Core'
<1>1. brand' = "closed"
  BY DEF Close
<1>2. TypeOK'
  BY <1>1, CloseEmpties DEF RequestsFit, Core, TypeOK
<1>3. MembersSound' /\ OperatorsHaveBranches'
  BY DEF Core, MembersSound, OperatorsHaveBranches
<1>4. RemovedStayOut' /\ NoMutualRemoval'
  <2>1. \A c \in removals : c[2] \in People
    BY DEF Core, TypeOK, People
  <2> QED BY <2>1 DEF Core, RemovedStayOut, NoMutualRemoval
<1>5. ClosedBrandIsEmpty'
  BY CloseEmpties DEF ClosedBrandIsEmpty
<1> QED BY <1>2, <1>3, <1>4, <1>5, CloseEmpties DEF RequestsFit, Core

\* The mails given up at the end are mails.
LEMMA QueuedTyped ==
    ASSUME Core, NEW r \in Requests, CancelQueued(r)
    PROVE  mails' \in [Invites -> [Links -> MailStatus]]
<1>1. \A i \in Invites :
        Cancelled(i) \in [Links -> MailStatus] /\ mails[i] \in [Links -> MailStatus]
  BY CancelledTyped DEF Core, TypeOK
<1> QED BY <1>1 DEF CancelQueued

\* The brand is deleted by the request that has it locked.
LEMMA DeleteBrandInv == \A r \in Requests : Core /\ DeleteBrand(r) => Core'
<1> SUFFICES ASSUME NEW r \in Requests, Core, DeleteBrand(r) PROVE Core'
  OBVIOUS
<1>1. /\ Close(OpenBranches) /\ End(r) /\ Change /\ UNCHANGED <<taken, past>>
      /\ members' = [p \in People |-> [members[p] EXCEPT !.active = FALSE]]
      /\ CancelQueued(r) /\ OpenBranches \subseteq Branches
  BY DEF DeleteBrand, Commit, OpenBranches
<1>2. /\ members' \in [People -> Member]
      /\ \A p \in People : ~members'[p].active /\ members'[p].role = members[p].role
  BY <1>1 DEF Core, TypeOK, Member
<1>3. gone' \subseteq People
  BY <1>1 DEF Core, TypeOK
<1> QED BY <1>1, <1>2, <1>3, QueuedTyped, ClosingStep, EndedRequest, ChangeIsBounded

\* An account is deleted: staff leave with what they had queued, and with the owner
\* the brand closes, all of it that the snapshot has.
LEMMA AnonymizeAccountInv ==
    \A r \in Requests : Inv /\ AnonymizeAccount(r) => Core'
<1> SUFFICES ASSUME NEW r \in Requests, Inv, AnonymizeAccount(r) PROVE Core'
  OBVIOUS
<1>1. PICK p : p = reqs[r].actor
  OBVIOUS
<1>2. /\ Core /\ p \in People /\ reqs[r].op = "erase" /\ reqs[r].at \subseteq Branches
      /\ gone' = gone \cup {p} /\ CancelQueued(r) /\ End(r) /\ Change
      /\ UNCHANGED <<taken, removals, overlooked>> /\ members \in [People -> Member]
      /\ invites \in [Invites -> Invite] /\ mails \in [Invites -> [Links -> MailStatus]]
  BY <1>1 DEF AnonymizeAccount, Commit, Inv, Core, TypeOK, Request, RequestsSound,
              RequestSound
<1>3. /\ RequestsFit' /\ changes' \in 0..MaxChanges
      /\ mails' \in [Invites -> [Links -> MailStatus]] /\ gone' \subseteq People
  BY <1>2, EndedRequest, ChangeIsBounded, QueuedTyped DEF Core, TypeOK
<1>4. ErasureSound(reqs[r])
  BY DEF Inv, ErasuresSound
<1>5. CASE Closes(p)
  <2>1. /\ Close(reqs[r].at)
        /\ members' = [q \in People |-> [members[q] EXCEPT !.active = FALSE, !.at = {}]]
    BY <1>1, <1>5 DEF AnonymizeAccount
  <2>2. /\ members' \in [People -> Member]
        /\ \A q \in People : ~members'[q].active /\ members'[q].role = members[q].role
    BY <1>2, <2>1 DEF Member
  <2>3. OpenBranches \subseteq reqs[r].at \cup overlooked
    BY <1>1, <1>2, <1>4, <1>5 DEF ErasureSound
  <2> QED BY <1>2, <1>3, <2>1, <2>2, <2>3, ClosingStep
<1>6. CASE ~Closes(p)
  <2>1. /\ members' = [members EXCEPT ![p].active = FALSE, ![p].at = {}]
        /\ UNCHANGED <<brand, branches, invites>>
    BY <1>1, <1>6 DEF AnonymizeAccount
  <2>2. /\ members' \in [People -> Member]
        /\ ~members'[p].active /\ members'[p].role = members[p].role
        /\ \A q \in People \ {p} : members'[q] = members[q]
    BY <1>2, <2>1 DEF Member
  <2>3. MembersSound' /\ OperatorsHaveBranches'
    BY <1>2, <2>2 DEF Core, MembersSound, OperatorsHaveBranches
  <2>4. RemovedStayOut' /\ NoMutualRemoval'
    <3>1. \A c \in removals : c[2] \in People
      BY <1>2 DEF Core, TypeOK, People
    <3> QED BY <1>2, <2>2, <3>1 DEF Core, RemovedStayOut, NoMutualRemoval
  <2>5. InvitesSound'
    <3>1. ASSUME NEW i \in Invites, i \in reqs[r].queued PROVE InviteSound(i)'
      <4>1. invites[i].by \in gone'
        BY <1>1, <1>2, <1>4, <1>6, <3>1 DEF ErasureSound
      <4>2. InviteSound(i)
        BY <1>2 DEF Core, InvitesSound
      <4> QED BY <2>1, <4>1, <4>2 DEF InviteSound
    <3>2. ASSUME NEW i \in Invites, i \notin reqs[r].queued PROVE InviteSound(i)'
      <4>1. mails'[i] = mails[i]
        BY <1>2, <3>2 DEF CancelQueued
      <4>2. InviteSound(i)
        BY <1>2 DEF Core, InvitesSound
      <4> QED BY <1>2, <2>1, <4>1, <4>2 DEF InviteSound
    <3> QED BY <3>1, <3>2 DEF InvitesSound
  <2>6. TypeOK'
    BY <1>2, <1>3, <2>1, <2>2 DEF RequestsFit, Core, TypeOK
  <2>7. PrimaryFound'
    BY <1>2, <2>1 DEF Core, PrimaryFound, Primaries, OpenBranches
  <2>8. ClosedBrandIsEmpty'
    BY <1>2, <2>1, <2>2 DEF Core, ClosedBrandIsEmpty, OpenBranches
  <2> QED BY <1>3, <2>3, <2>4, <2>5, <2>6, <2>7, <2>8 DEF RequestsFit, Core
<1> QED BY <1>5, <1>6

-----------------------------------------------------------------------------
(* What a deletion under way relies on *)

\* No link is taken back, none is mailed before it is issued, and a new sender has a
\* new mail.
RowGoesOn(i) ==
    /\ invites'[i].status = "none" =>
          invites[i].status = "none" /\ invites'[i].link = invites[i].link
    /\ invites'[i].link \in Nat /\ invites'[i].link >= invites[i].link
    /\ \A l \in Links :
          l > invites'[i].link /\ mails[i][l] = "none" => mails'[i][l] = "none"
    /\ \/ invites'[i].by = invites[i].by
       \/ mails'[i] # mails[i]
       \/ \A l \in Links : mails[i][l] # "PENDING"

\* A deletion that is not refused keeps what it saw.
LEMMA ErasuresGoOn ==
    ASSUME Inv,
           \A r \in Requests : reqs'[r].op = "erase" => reqs'[r] = reqs[r],
           FirstUpdaterWins \/ UNCHANGED <<members, mails>>,
           \A i \in Invites : RowGoesOn(i), overlooked \subseteq overlooked',
           \A r \in Requests : reqs[r].op = "erase" /\ Closes(reqs[r].actor) =>
               OpenBranches' \subseteq OpenBranches \cup overlooked'
    PROVE  LinksInOrder' /\ ErasuresSound'
<1>1. LinksInOrder'
  <2>1. ASSUME NEW i \in Invites, NEW l \in Links, l > invites'[i].link
        PROVE  mails'[i][l] = "none"
    <3>1. /\ invites[i].link \in 0..MaxLinks /\ l \in Int
          /\ invites'[i].link \in Nat /\ invites'[i].link >= invites[i].link
      BY DEF Inv, Core, TypeOK, Invite, RowGoesOn, Links
    <3>2. l > invites[i].link
      BY <2>1, <3>1, Bounds
    <3> QED BY <2>1, <3>1, <3>2 DEF Inv, LinksInOrder, RowGoesOn
  <2>2. ASSUME NEW i \in Invites, invites'[i].status = "none" PROVE invites'[i].link = 0
    BY <2>2 DEF Inv, LinksInOrder, RowGoesOn
  <2> QED BY <2>1, <2>2 DEF LinksInOrder
<1>2. ASSUME NEW r \in Requests, reqs'[r].op = "erase" PROVE ErasureSound(reqs[r])'
  <2>1. /\ reqs'[r] = reqs[r] /\ reqs[r].op = "erase" /\ ErasureSound(reqs[r])
        /\ reqs[r].queued \subseteq Invites
    BY <1>2 DEF Inv, ErasuresSound, Core, TypeOK, Request
  <2>2. /\ members'[reqs[r].actor] = members[reqs[r].actor]
        /\ \A i \in reqs[r].queued : mails'[i] = mails[i]
    BY <2>1 DEF FirstUpdaterWins, Undisturbed
  <2>3. Closes(reqs[r].actor)' <=> Closes(reqs[r].actor)
    BY <2>1, <2>2 DEF Closes
  <2>4. CASE Closes(reqs[r].actor)
    BY <2>1, <2>3, <2>4 DEF ErasureSound
  <2>5. CASE ~Closes(reqs[r].actor)
    <3>1. ASSUME NEW i \in reqs[r].queued
          PROVE  invites'[i].by = reqs[r].actor /\ \E l \in Links : mails'[i][l] = "PENDING"
      BY <2>1, <2>2, <2>5 DEF ErasureSound, RowGoesOn
    <3> QED BY <2>1, <2>3, <2>5, <3>1 DEF ErasureSound
  <2> QED BY <2>4, <2>5
<1> QED BY <1>1, <1>2 DEF ErasuresSound, ErasureSound

\* Nothing about invitations changes, or what is late expires, or a mail is given up.
LEMMA RowKept ==
    ASSUME Inv, NEW i \in Invites,
           invites'[i].link = invites[i].link /\ invites'[i].by = invites[i].by,
           invites'[i].status = "none" => invites[i].status = "none",
           mails'[i] \in {mails[i], Cancelled(i), MailsAfterExpiry(i)}
    PROVE  RowGoesOn(i)
<1>1. invites[i].link \in Nat
  BY Bounds DEF Inv, Core, TypeOK, Invite
<1>2. \A l \in Links : mails[i][l] = "none" => mails'[i][l] = "none"
  BY DEF Cancelled, MailsAfterExpiry
<1> QED BY <1>1, <1>2 DEF RowGoesOn

\* Nothing that a deletion saw is written, or it was refused.
LEMMA FrameInv == Inv /\ [Next]_vars => LinksInOrder' /\ ErasuresSound'
<1> SUFFICES ASSUME Inv, [Next]_vars PROVE LinksInOrder' /\ ErasuresSound'
  OBVIOUS
<1> USE NoRequestTyped
<1> DEFINE OthersGoOn == \A r \in Requests : reqs'[r].op = "erase" => reqs'[r] = reqs[r]
<1>1. /\ reqs \in [Requests -> Request] /\ members \in [People -> Member]
      /\ invites \in [Invites -> Invite] /\ mails \in [Invites -> [Links -> MailStatus]]
  BY DEF Inv, Core, TypeOK
<1>2. ASSUME UNCHANGED <<invites, mails>> PROVE \A i \in Invites : RowGoesOn(i)
  BY <1>2, RowKept
<1>3. ASSUME NEW r \in Requests, End(r) PROVE OthersGoOn
  BY <1>1, <1>3 DEF End
<1>4. ASSUME NEW r \in Requests, NEW q \in Request, Begin(r, q), q.op # "erase"
      PROVE  OthersGoOn
  BY <1>1, <1>4 DEF Begin
<1>5. ASSUME NEW i \in Invites,
             invites'[i] = AfterExpiry(i), mails'[i] = MailsAfterExpiry(i)
      PROVE  RowGoesOn(i)
  <2>1. /\ invites'[i].link = invites[i].link /\ invites'[i].by = invites[i].by
        /\ invites'[i].status = "none" => invites[i].status = "none"
    BY <1>1, <1>5 DEF AfterExpiry, Invite
  <2> QED BY <1>5, <2>1, RowKept
<1>6. CASE UNCHANGED vars
  BY <1>2, <1>6, ErasuresGoOn DEF vars, OpenBranches
<1>7. CASE ListInvitations
  <2>1. \A i \in Invites : RowGoesOn(i)
    BY <1>5, <1>7 DEF ListInvitations
  <2> QED BY <1>7, <2>1, ErasuresGoOn DEF ListInvitations, Commit, OpenBranches
<1>8. ASSUME NEW i \in Invites, NEW p \in People, CreateInvitation(i, p)
      PROVE  LinksInOrder' /\ ErasuresSound'
  <2>1. invites[i].status = "none" /\ UNCHANGED <<brand, branches, members, taken, reqs, past>>
        /\ FirstUpdaterWins /\ 1 \in Links
    BY <1>8, Bounds DEF CreateInvitation, Commit, Links
  <2>2. /\ mails' = [j \in Invites |-> IF j = i THEN [mails[i] EXCEPT ![1] = "PENDING"]
                                       ELSE MailsAfterExpiry(j)]
        /\ invites'[i].link = 1 /\ invites'[i].status = "PENDIENTE"
        /\ \A j \in Invites \ {i} : invites'[j] = AfterExpiry(j)
    BY <1>8 DEF CreateInvitation
  <2>3. invites[i].link = 0
    BY <2>1 DEF Inv, LinksInOrder
  <2>4. \A l \in Links : mails[i][l] = "none"
    BY <2>3, Bounds DEF Inv, LinksInOrder, Links
  <2>5. RowGoesOn(i)
    BY <1>1, <2>2, <2>3, <2>4 DEF RowGoesOn, Links
  <2>6. \A j \in Invites : RowGoesOn(j)
    BY <1>5, <2>2, <2>5
  <2> QED BY <2>1, <2>6, ErasuresGoOn DEF OpenBranches
<1>9. ASSUME NEW i \in Invites, LinkExpires(i) PROVE LinksInOrder' /\ ErasuresSound'
  <2>1. \A j \in Invites :
          /\ invites'[j].link = invites[j].link /\ invites'[j].by = invites[j].by
          /\ invites'[j].status = "none" => invites[j].status = "none"
    BY <1>1, <1>9 DEF LinkExpires, Invite
  <2>2. \A j \in Invites : RowGoesOn(j)
    BY <1>9, <2>1, RowKept DEF LinkExpires
  <2> QED BY <1>9, <2>2, ErasuresGoOn DEF LinkExpires, OpenBranches
<1>10. ASSUME NEW i \in Invites, AddressTaken(i) PROVE LinksInOrder' /\ ErasuresSound'
  BY <1>2, <1>10, ErasuresGoOn DEF AddressTaken, OpenBranches
<1>11. ASSUME NEW i \in Invites, AddressFreed(i) PROVE LinksInOrder' /\ ErasuresSound'
  <2>1. \A j \in Invites :
          /\ invites'[j].link = invites[j].link /\ invites'[j].by = invites[j].by
          /\ invites'[j].status = "none" => invites[j].status = "none"
          /\ mails'[j] \in {mails[j], Cancelled(j)}
    BY <1>1, <1>11 DEF AddressFreed, Invite
  <2>2. \A j \in Invites : RowGoesOn(j)
    BY <2>1, RowKept
  <2> QED BY <1>11, <2>2, ErasuresGoOn DEF AddressFreed, Commit, OpenBranches
<1>12. ASSUME NEW i \in Invites, NEW l \in Links, Deliver(i, l)
       PROVE  LinksInOrder' /\ ErasuresSound'
  <2>1. \A j \in Invites : RowGoesOn(j)
    <3>1. PICK outcome \in {"SENT", "UNSENT"} : mails' = [mails EXCEPT ![i][l] = outcome]
      BY <1>12 DEF Deliver
    <3>2. invites' = invites /\ mails[i][l] = "PENDING"
      BY <1>12 DEF Deliver
    <3>3. ASSUME NEW j \in Invites PROVE invites[j].link \in Nat
      BY <1>1, Bounds DEF Invite
    <3> QED BY <1>1, <3>1, <3>2, <3>3 DEF RowGoesOn
  <2> QED BY <1>12, <2>1, ErasuresGoOn DEF Deliver, OpenBranches
<1>13. ASSUME NEW b \in Branches, CreateBranch(b) PROVE LinksInOrder' /\ ErasuresSound'
  <2>1. /\ UNCHANGED <<members, invites, mails, reqs>>
        /\ branches' = [branches EXCEPT ![b].status = "open"]
        /\ overlooked \subseteq overlooked'
        /\ \A r \in Requests : reqs[r].op = "erase" /\ Closes(reqs[r].actor) =>
              b \in overlooked'
    BY <1>13 DEF CreateBranch
  <2>2. OpenBranches' \subseteq OpenBranches \cup {b}
    BY <2>1 DEF Inv, Core, TypeOK, OpenBranches
  <2>3. \A r \in Requests : reqs[r].op = "erase" /\ Closes(reqs[r].actor) =>
          OpenBranches' \subseteq OpenBranches \cup overlooked'
    BY <2>1, <2>2
  <2> QED BY <1>2, <2>1, <2>3, ErasuresGoOn
<1>14. ASSUME NEW b \in Branches, UpdateBranch(b) \/ DeleteBranch(b)
       PROVE  LinksInOrder' /\ ErasuresSound'
  <2>1. UNCHANGED <<invites, mails, reqs, past>> /\ FirstUpdaterWins
    BY <1>14 DEF UpdateBranch, DeleteBranch, Commit
  <2>2. OpenBranches' \subseteq OpenBranches
    BY <1>14 DEF UpdateBranch, DeleteBranch, Inv, Core, TypeOK, Branch, OpenBranches
  <2> QED BY <1>2, <2>1, <2>2, ErasuresGoOn
<1>15. ASSUME NEW r \in Requests, Abort(r) PROVE LinksInOrder' /\ ErasuresSound'
  BY <1>2, <1>3, <1>15, ErasuresGoOn DEF Abort, OpenBranches
<1>16. ASSUME NEW r \in Requests, RevokeInvitation(r) PROVE LinksInOrder' /\ ErasuresSound'
  <2>1. ASSUME NEW j \in Invites PROVE RowGoesOn(j)
    <3>1. CASE j = reqs[r].invite
      <4>1. invites'[j] = [invites[j] EXCEPT !.status = "REVOCADA"] /\ mails'[j] = Cancelled(j)
        BY <1>16, <3>1 DEF RevokeInvitation
      <4>2. /\ invites'[j].link = invites[j].link /\ invites'[j].by = invites[j].by
            /\ invites'[j].status # "none"
        BY <1>1, <4>1 DEF Invite
      <4> QED BY <4>1, <4>2, RowKept
    <3>2. CASE j # reqs[r].invite
      BY <1>5, <1>16, <3>2 DEF RevokeInvitation
    <3> QED BY <3>1, <3>2
  <2> QED BY <1>3, <1>16, <2>1, ErasuresGoOn DEF RevokeInvitation, Commit, OpenBranches
<1>17. ASSUME NEW r \in Requests, ResendInvitation(r) PROVE LinksInOrder' /\ ErasuresSound'
  <2>1. ASSUME NEW j \in Invites, j = reqs[r].invite PROVE RowGoesOn(j)
    <3>1. PICK link : link = invites[j].link + 1
      OBVIOUS
    <3>2. /\ link \in Links /\ mails'[j] = NewMail(j, link)
          /\ invites'[j] = [invites[j] EXCEPT !.link = link, !.by = reqs[r].actor]
          /\ invites[j].status = "PENDIENTE"
      BY <1>17, <2>1, <3>1 DEF ResendInvitation
    <3>3. /\ invites'[j].link = link /\ invites[j].link \in Nat /\ link \in Nat
          /\ link > invites[j].link /\ invites'[j].status = "PENDIENTE"
      BY <1>1, <3>1, <3>2, Bounds DEF Invite
    <3>4. mails[j][link] = "none"
      BY <3>2, <3>3 DEF Inv, LinksInOrder
    <3>5. \A l \in Links : mails'[j][l] =
            IF l = link THEN "PENDING" ELSE IF mails[j][l] = "PENDING" THEN "FAILED"
                                            ELSE mails[j][l]
      BY <3>2 DEF NewMail, Cancelled
    <3> QED BY <3>2, <3>3, <3>4, <3>5 DEF RowGoesOn
  <2>2. ASSUME NEW j \in Invites, j # reqs[r].invite PROVE RowGoesOn(j)
    BY <1>5, <1>17, <2>2 DEF ResendInvitation
  <2> QED BY <1>3, <1>17, <2>1, <2>2, ErasuresGoOn DEF ResendInvitation, Commit, OpenBranches
<1>18. ASSUME NEW r \in Requests, NEW p \in People, RegisterInvitation(r, p)
       PROVE  LinksInOrder' /\ ErasuresSound'
  <2>1. ASSUME NEW j \in Invites
        PROVE  /\ invites'[j].link = invites[j].link /\ invites'[j].by = invites[j].by
               /\ invites'[j].status = "none" => invites[j].status = "none"
               /\ mails'[j] \in {mails[j], Cancelled(j)}
    BY <1>1, <1>18 DEF RegisterInvitation, Invite
  <2>2. \A j \in Invites : RowGoesOn(j)
    BY <2>1, RowKept
  <2> QED BY <1>3, <1>18, <2>2, ErasuresGoOn DEF RegisterInvitation, Commit, OpenBranches
<1>19. ASSUME NEW r \in Requests, UpdateStaff(r) \/ DeleteStaff(r)
       PROVE  LinksInOrder' /\ ErasuresSound'
  <2>1. /\ EndStaffChange(r) /\ FirstUpdaterWins
        /\ UNCHANGED <<branches, invites, mails, overlooked>>
    BY <1>19 DEF UpdateStaff, DeleteStaff, Commit
  <2>2. OthersGoOn
    BY <1>1, <2>1 DEF EndStaffChange, Request
  <2> QED BY <1>2, <2>1, <2>2, ErasuresGoOn DEF OpenBranches
<1>20. ASSUME NEW r \in Requests, NEW i \in Invites, NEW l \in Links, OpenLink(r, i, l)
       PROVE  LinksInOrder' /\ ErasuresSound'
  <2>1. OthersGoOn
    BY <1>1, <1>20 DEF OpenLink, Begin, NoRequest
  <2> QED BY <1>2, <1>20, <2>1, ErasuresGoOn DEF OpenLink, OpenBranches
<1>21. ASSUME NEW r \in Requests, NEW p \in People, NEW i \in Invites,
              NEW op \in {"revoke", "resend"}, BeginInvitationChange(r, p, i, op)
       PROVE  LinksInOrder' /\ ErasuresSound'
  <2>1. OthersGoOn
    BY <1>1, <1>21 DEF BeginInvitationChange, Begin, NoRequest
  <2> QED BY <1>2, <1>21, <2>1, ErasuresGoOn DEF BeginInvitationChange, OpenBranches
<1>22. ASSUME NEW r \in Requests, NEW p \in People, NEW q \in People,
              NEW op \in {"update", "remove"}, BeginStaffChange(r, p, q, op)
       PROVE  LinksInOrder' /\ ErasuresSound'
  <2>1. OthersGoOn
    BY <1>1, <1>22 DEF BeginStaffChange, Begin, NoRequest
  <2> QED BY <1>2, <1>22, <2>1, ErasuresGoOn DEF BeginStaffChange, OpenBranches
<1>23. ASSUME NEW r \in Requests, BeginDeleteBrand(r) PROVE LinksInOrder' /\ ErasuresSound'
  <2>1. OthersGoOn
    BY <1>1, <1>23 DEF BeginDeleteBrand, Begin, NoRequest
  <2> QED BY <1>2, <1>23, <2>1, ErasuresGoOn DEF BeginDeleteBrand, OpenBranches
<1>24. ASSUME NEW r \in Requests, DeleteBrand(r) \/ AnonymizeAccount(r)
       PROVE  LinksInOrder' /\ ErasuresSound'
  <2>1. /\ CancelQueued(r) /\ End(r) /\ FirstUpdaterWins /\ UNCHANGED overlooked
        /\ UNCHANGED invites \/ \E seen : Close(seen)
    BY <1>24 DEF DeleteBrand, AnonymizeAccount, Commit
  <2>2. OpenBranches' \subseteq OpenBranches
    <3>1. branches' = branches \/ \E seen : Close(seen)
      BY <1>24 DEF DeleteBrand, AnonymizeAccount
    <3> QED BY <3>1 DEF Close, Inv, Core, TypeOK, Branch, OpenBranches
  <2>3. ASSUME NEW j \in Invites
        PROVE  /\ invites'[j].link = invites[j].link /\ invites'[j].by = invites[j].by
               /\ invites'[j].status = "none" => invites[j].status = "none"
               /\ mails'[j] \in {mails[j], Cancelled(j)}
    BY <1>1, <2>1 DEF CancelQueued, Close, Invite
  <2>4. \A j \in Invites : RowGoesOn(j)
    BY <2>3, RowKept
  <2> QED BY <1>3, <2>1, <2>2, <2>4, ErasuresGoOn
<1>25. ASSUME NEW r \in Requests, NEW p \in People, BeginAnonymize(r, p)
       PROVE  LinksInOrder' /\ ErasuresSound'
  <2>1. UNCHANGED <<rows, past, changes>>
    BY <1>25 DEF BeginAnonymize
  <2>2. LinksInOrder'
    BY <2>1 DEF Inv, LinksInOrder
  <2>3. \A s \in Requests \ {r} : ErasureSound(reqs[s])'
    <3>1. \A s \in Requests \ {r} : reqs'[s] = reqs[s]
      BY <1>1, <1>25 DEF BeginAnonymize, Begin
    <3> QED BY <2>1, <3>1 DEF Inv, ErasuresSound, ErasureSound, Closes, OpenBranches
  <2>4. /\ reqs'[r].actor = p
        /\ Closes(p) => reqs'[r].at = OpenBranches
        /\ ~Closes(p) => reqs'[r].queued = {i \in Invites :
              (\E l \in Links : mails[i][l] = "PENDING") /\ invites[i].by = p}
    BY <1>1, <1>25 DEF BeginAnonymize, Begin, NoRequest
  <2>5. ErasureSound(reqs[r])'
    BY <2>1, <2>4 DEF ErasureSound, Closes, OpenBranches
  <2> QED BY <2>2, <2>3, <2>5 DEF ErasuresSound
<1> QED BY <1>6, <1>7, <1>8, <1>9, <1>10, <1>11, <1>12, <1>13, <1>14, <1>15, <1>16, <1>17,
           <1>18, <1>19, <1>20, <1>21, <1>22, <1>23, <1>24, <1>25 DEF Next

-----------------------------------------------------------------------------
(* The theorems *)

\* Every step, and no step, preserves what is said of the rows.
LEMMA CoreInv == Inv /\ [Next]_vars => Core'
<1> SUFFICES ASSUME Inv, [Next]_vars PROVE Core'
  OBVIOUS
<1> Core
  BY DEF Inv
<1>1. CASE UNCHANGED vars
  <2>1. RequestsFit' /\ UNCHANGED <<brand, branches, members, past, invites, mails, taken,
                                    changes>>
    BY <1>1, SameRequests DEF vars
  <2>2. \A i \in Invites :
          InviteSound(i)' /\ (invites'[i].status = "PENDIENTE" => brand = "open")
    BY <2>1, ExpiredIsSound
  <2> QED BY <2>1, <2>2, InvitationsStep DEF Core, TypeOK
<1>2. CASE ListInvitations
  BY <1>2, ListInvitationsInv
<1>3. ASSUME NEW i \in Invites,
             \/ LinkExpires(i) \/ AddressTaken(i) \/ AddressFreed(i)
             \/ \E p \in People : CreateInvitation(i, p)
             \/ \E l \in Links : Deliver(i, l)
      PROVE  Core'
  BY <1>3, CreateInvitationInv, LinkExpiresInv, AddressTakenInv, AddressFreedInv, DeliverInv
<1>4. ASSUME NEW b \in Branches, CreateBranch(b) \/ UpdateBranch(b) \/ DeleteBranch(b)
      PROVE  Core'
  BY <1>4, CreateBranchInv, UpdateBranchInv, DeleteBranchInv
<1>5. ASSUME NEW r \in Requests,
             \/ Abort(r) \/ RevokeInvitation(r) \/ ResendInvitation(r)
             \/ UpdateStaff(r) \/ DeleteStaff(r) \/ BeginDeleteBrand(r) \/ DeleteBrand(r)
             \/ AnonymizeAccount(r)
             \/ \E p \in People : RegisterInvitation(r, p) \/ BeginAnonymize(r, p)
      PROVE  Core'
  BY <1>5, AbortInv, RevokeInvitationInv, ResendInvitationInv, UpdateStaffInv,
     DeleteStaffInv, BeginDeleteBrandInv, DeleteBrandInv, AnonymizeAccountInv,
     RegisterInvitationInv, BeginAnonymizeInv
<1>6. ASSUME NEW r \in Requests,
             \/ \E i \in Invites, l \in Links : OpenLink(r, i, l)
             \/ \E p \in People, i \in Invites, op \in {"revoke", "resend"} :
                    BeginInvitationChange(r, p, i, op)
             \/ \E p, q \in People, op \in {"update", "remove"} :
                    BeginStaffChange(r, p, q, op)
      PROVE  Core'
  BY <1>6, OpenLinkInv, BeginInvitationChangeInv, BeginStaffChangeInv
<1> QED BY <1>1, <1>2, <1>3, <1>4, <1>5, <1>6 DEF Next

\* Every step, and no step, preserves the invariant.
LEMMA NextInv == Inv /\ [Next]_vars => Inv'
  BY CoreInv, FrameInv DEF Inv

\* A brand as it was registered has no mail and no deletion under way.
LEMMA InitInv == Init => Inv
<1> SUFFICES ASSUME Init PROVE Inv
  OBVIOUS
<1>1. Core
  BY InitCore
<1>2. LinksInOrder
  BY DEF Init, LinksInOrder
<1>3. ErasuresSound
  BY NoRequestTyped DEF Init, ErasuresSound, ErasureSound
<1> QED BY <1>1, <1>2, <1>3 DEF Inv

\* The invariant holds for any people, branches, invitations and requests.
THEOREM InvariantTheorem == Spec => []Inv
<1> QED BY InitInv, NextInv, PTL DEF Spec

\* Operators have branches, an open brand has one primary branch, and no
\* transaction gives up the mail of a link that can be accepted but the deletion of
\* its sender's account, whoever changes, resends or revokes at once (UpdateStaff,
\* UpdateBranch, ResendInvitation, AnonymizeAccount).
THEOREM RowsStayWellFormed == Spec => []StaffInv
<1>1. Inv => StaffInv
  BY OnePrimaryIsFound, SoundInvitesAreMailed DEF Inv, Core, StaffInv
<1> QED BY <1>1, InvariantTheorem, PTL

\* A brand that ended stays without staff and without pending invitations, whatever
\* was being registered, invited or changed meanwhile, and open in it are only
\* branches created while its owner's deletion waited (DeleteBrand, CreateBranch,
\* AnonymizeAccount).
THEOREM DeletedBrandStaysEmpty == Spec => []ClosedBrandIsEmpty
<1>1. Inv => ClosedBrandIsEmpty
  BY DEF Inv, Core
<1> QED BY <1>1, InvariantTheorem, PTL

\* Administrators cannot remove each other at the same moment, however many try
\* (DeleteStaff at SERIALIZABLE).
THEOREM NeverRemovedMutually == Spec => []NoMutualRemoval
<1>1. Inv => NoMutualRemoval
  BY DEF Inv, Core
<1> QED BY <1>1, InvariantTheorem, PTL

\* Who was removed never works for the brand again: no change that was under
\* way, and no invitation, brings the membership back (UpdateStaff, DeleteStaff,
\* RegisterInvitation).
THEOREM RemovedNeverReturn == Spec => []RemovedStayOut
<1>1. Inv => RemovedStayOut
  BY DEF Inv, Core
<1> QED BY <1>1, InvariantTheorem, PTL

=============================================================================
