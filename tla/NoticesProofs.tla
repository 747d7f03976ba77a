----------------------------- MODULE NoticesProofs -----------------------------
(***************************************************************************)
(* Proofs about what the program tells a customer: the invitation to       *)
(* review a branch (Reviews), the news of a card that changed (CardEvents) *)
(* and the mails and pushes that workers deliver (Deliveries).  The three  *)
(* share no state; each part is about one of them alone, for any sets of   *)
(* devices, browsers, rows and workers and any bounds.  Init, Next, Spec   *)
(* and TypeOK are those of Reviews.                                        *)
(***************************************************************************)
EXTENDS Reviews, CardEvents, Deliveries, FiniteSetTheorems, TLAPS

-----------------------------------------------------------------------------
(* Counting *)

\* One for what holds and nothing for what does not.
One(condition) == IF condition THEN 1 ELSE 0

\* A finite set gains or loses at most w.
LEMMA OneMoreOrLess ==
    ASSUME NEW S, NEW T, NEW w, IsFiniteSet(S), \A v : v # w => (v \in T <=> v \in S)
    PROVE  /\ IsFiniteSet(T)
           /\ Cardinality(S) \in Nat /\ Cardinality(T) \in Nat
           /\ Cardinality(T) + One(w \in S) = Cardinality(S) + One(w \in T)
<1>1. CASE w \in S <=> w \in T
  <2>1. T = S
    BY <1>1
  <2> QED BY <1>1, <2>1, FS_CardinalityType DEF One
<1>2. CASE w \notin S /\ w \in T
  <2>1. T = S \cup {w}
    BY <1>2
  <2> QED BY <1>2, <2>1, FS_AddElement, FS_CardinalityType DEF One
<1>3. CASE w \in S /\ w \notin T
  <2>1. T = S \ {w}
    BY <1>3
  <2> QED BY <1>3, <2>1, FS_RemoveElement, FS_CardinalityType DEF One
<1> QED BY <1>1, <1>2, <1>3

-----------------------------------------------------------------------------
(* Reviews: the inductive invariant *)

Holds(d) == devices[d].step \in {"holding", "showing"}

\* A reservation is of a pending invitation, and its token was given out once.
TokensAreUnique ==
    /\ invite.token <= tokens /\ (invite.token # 0 => invite.status = "pending")
    /\ \A d \in Devices : Holds(d) => devices[d].token \in 1..tokens
    /\ \A d, e \in Devices :
         Holds(d) /\ Holds(e) /\ devices[d].token = devices[e].token => d = e

\* Nobody but who was told can still use the reservation that was shown.
ToldHoldIt ==
    /\ told # {} => invite.shown
    /\ \A d, e \in told : d = e
    /\ \A d \in told, e \in Devices :
         Holds(e) /\ devices[e].token = invite.token => e = d

\* A device that found the feature on can use its reservation only while it is.
ActiveIsOffered ==
    \A d \in Devices :
        /\ devices[d].step = "showing" /\ devices[d].active
        /\ devices[d].token = invite.token /\ ~invite.shown
        => settings.enabled /\ branch

\* One purchase at a time, begun within the bound.
PurchaseFits == buying # {} => purchases < MaxPurchases

InvitationInv == TypeOK /\ PurchaseFits /\ TokensAreUnique /\ ToldHoldIt /\ ActiveIsOffered

-----------------------------------------------------------------------------
(* Reviews: types *)

\* An invitation that is cancelled (cancelar_resenas) is a row of the table, and
\* its reservation is nobody's.
LEMMA CancelledRow ==
    ASSUME TypeOK
    PROVE  /\ Cancelled \in Invite
           /\ Cancelled.shown = invite.shown /\ Cancelled.skipped = invite.skipped
           /\ Cancelled.clicked = invite.clicked
           /\ Cancelled = invite \/ (Cancelled.token = 0 /\ ~Cancelled.leased)
           /\ invite.status = "pending" /\ ~invite.shown => Cancelled.token = 0
<1>1. invite \in Invite /\ 0 \in 0..MaxTokens
  BY BoundsAreNatural DEF TypeOK
<1> QED
  BY <1>1 DEF Cancelled, Invite

\* Every handler keeps the rows' types.
LEMMA TypesStep ==
    ASSUME TypeOK, PurchaseFits, [Next]_vars
    PROVE  TypeOK'
<1> USE BoundsAreNatural
<1>1. /\ settings \in Settings /\ invite \in Invite /\ devices \in [Devices -> Device]
      /\ saving \in {{}} \cup {{s} : s \in Settings}
      /\ buying \in {{}} \cup {{s} : s \in Settings}
      /\ {MaxVersion, MaxPurchases, MaxTokens} \subseteq Nat \ {0}
  BY DEF TypeOK
<1>2. Idle \in Device
  BY <1>1 DEF Idle, Device
<1>3. ASSUME NEW d \in Devices, NEW row \in Device, Does(d, row)
      PROVE  devices' \in [Devices -> Device]
  BY <1>1, <1>3 DEF Does
<1>4. ASSUME NEW d \in Devices PROVE devices[d] \in Device
  BY <1>1
<1>5. CASE BeginSave
  <2>1. settings.version + 1 \in 1..MaxVersion
    BY <1>1, <1>5 DEF BeginSave, Settings
  <2>2. PICK enabled \in BOOLEAN, threshold \in 1..MaxPurchases :
          saving' = {[version |-> settings.version + 1, enabled |-> enabled,
                      threshold |-> threshold]}
    BY <1>5 DEF BeginSave
  <2>3. [version |-> settings.version + 1, enabled |-> enabled, threshold |-> threshold]
           \in Settings
    BY <2>1 DEF Settings
  <2> QED
    BY <1>5, <2>2, <2>3 DEF BeginSave, TypeOK
<1>6. CASE SaveReviewSettings
  <2>1. PICK s \in Settings : saving = {s}
    BY <1>1, <1>6 DEF SaveReviewSettings, BranchLocked
  <2>2. settings' = s
    BY <1>6, <2>1 DEF SaveReviewSettings
  <2>3. invite' \in {invite, Cancelled}
    BY <1>6 DEF SaveReviewSettings
  <2> QED
    BY <1>6, <2>2, <2>3, CancelledRow DEF SaveReviewSettings, TypeOK
<1>7. CASE SaveFails
  BY <1>7 DEF SaveFails, TypeOK
<1>8. CASE CloseBranch
  BY <1>8, CancelledRow DEF CloseBranch, TypeOK
<1>9. CASE BeginPurchase
  BY <1>9 DEF BeginPurchase, TypeOK
<1>10. CASE CommitPurchase
  <2>1. purchases + 1 \in 0..MaxPurchases
    BY <1>1, <1>10 DEF CommitPurchase, TypeOK, PurchaseFits
  <2>2. PICK snapshot \in buying :
          invite' = IF Reached(snapshot, purchases + 1) /\ invite.status = "none"
                    THEN [invite EXCEPT !.status = "pending"] ELSE invite
    BY <1>10 DEF CommitPurchase
  <2> QED
    BY <1>1, <1>10, <2>1, <2>2 DEF CommitPurchase, TypeOK, Invite
<1>11. CASE AbortPurchase
  BY <1>11 DEF AbortPurchase, TypeOK
<1>12. CASE AnonymizeAccount
  <2>1. 0 \in 0..MaxTokens
    BY <1>1
  <2> QED
    BY <1>1, <1>12, <2>1 DEF AnonymizeAccount, TypeOK, Invite
<1>13. CASE LeaseEnds
  BY <1>1, <1>13 DEF LeaseEnds, TypeOK, Invite
<1>14. ASSUME NEW d \in Devices, ReviewCandidate(d)
       PROVE  TypeOK'
  <2>1. settings.version \in 0..MaxVersion
    BY <1>1 DEF Settings
  <2>2. [Idle EXCEPT !.step = "resolving", !.version = settings.version] \in Device
    BY <1>2, <2>1 DEF Device
  <2> QED
    BY <1>3, <1>14, <2>2 DEF ReviewCandidate, TypeOK
<1>15. ASSUME NEW d \in Devices, BeginReserve(d)
       PROVE  TypeOK'
  <2>1. [devices[d] EXCEPT !.step = "reserving"] \in Device
    BY <1>4 DEF Device
  <2> QED
    BY <1>3, <1>15, <2>1 DEF BeginReserve, TypeOK
<1>16. ASSUME NEW d \in Devices, ReserveReview(d)
       PROVE  TypeOK'
  <2>1. tokens + 1 \in 0..MaxTokens /\ tokens + 1 # 0
    BY <1>1, <1>16 DEF ReserveReview, TypeOK
  <2>2. [devices[d] EXCEPT !.step = "holding", !.token = tokens + 1] \in Device
    BY <1>4, <2>1 DEF Device
  <2>3. /\ invite' \in Invite /\ invite'.token # 0
        /\ invite'.skipped \/ invite'.clicked => invite'.shown
    BY <1>1, <1>16, <2>1 DEF ReserveReview, TypeOK, Invite
  <2> QED
    BY <1>3, <1>16, <2>1, <2>2, <2>3 DEF ReserveReview, TypeOK
<1>17. ASSUME NEW d \in Devices, Forget(d)
       PROVE  TypeOK'
  BY <1>2, <1>3, <1>17 DEF Forget, TypeOK
<1>18. ASSUME NEW d \in Devices, BeginShow(d)
       PROVE  TypeOK'
  <2>1. (branch /\ settings.enabled) \in BOOLEAN
    OBVIOUS
  <2>2. [devices[d] EXCEPT !.step = "showing", !.active = branch /\ settings.enabled]
           \in Device
    BY <1>4, <2>1 DEF Device
  <2> QED
    BY <1>3, <1>18, <2>2 DEF BeginShow, TypeOK
<1>19. ASSUME NEW d \in Devices, ReviewEvent(d)
       PROVE  TypeOK'
  <2>1. [devices[d] EXCEPT !.step = "holding", !.active = FALSE] \in Device
    BY <1>4 DEF Device
  <2>2. devices' \in [Devices -> Device]
    BY <1>3, <1>19, <2>1 DEF ReviewEvent
  <2>3. told' \subseteq Devices
    BY <1>19 DEF ReviewEvent, TypeOK
  <2>4. /\ invite' \in Invite /\ invite'.shown
        /\ invite'.leased = invite.leased /\ invite'.token = invite.token
    BY <1>1, <1>19 DEF ReviewEvent, Invite
  <2> QED
    BY <1>19, <2>2, <2>3, <2>4 DEF ReviewEvent, TypeOK
<1>20. ASSUME NEW d \in Devices, Answer(d)
       PROVE  TypeOK'
  <2>1. /\ invite' \in Invite /\ invite'.shown
        /\ invite'.leased = invite.leased /\ invite'.token = invite.token
    BY <1>1, <1>20 DEF Answer, Invite
  <2> QED
    BY <1>20, <2>1 DEF Answer, TypeOK
<1>21. CASE UNCHANGED vars
  BY <1>21 DEF vars, TypeOK
<1> QED
  BY <1>5, <1>6, <1>7, <1>8, <1>9, <1>10, <1>11, <1>12, <1>13, <1>14, <1>15, <1>16,
     <1>17, <1>18, <1>19, <1>20, <1>21 DEF Next

-----------------------------------------------------------------------------
(* Reservations *)

\* What a step does to a device: it holds what it held, it takes a new
\* reservation, or it holds none.
LEMMA DeviceKeeps ==
    ASSUME TypeOK, NEW d \in Devices, NEW row, Does(d, row)
    PROVE  /\ devices'[d] = row
           /\ \A e \in Devices : e # d => devices'[e] = devices[e]
BY DEF Does, TypeOK

\* Every handler keeps the rest of InvitationInv, and first shows an invitation only while
\* it is offered.
LEMMA ReservationsStep ==
    ASSUME InvitationInv, [Next]_vars
    PROVE  /\ TokensAreUnique' /\ ToldHoldIt' /\ ActiveIsOffered' /\ PurchaseFits'
           /\ ~invite.shown /\ invite'.shown => settings.enabled /\ branch /\ customer
<1> USE BoundsAreNatural
<1> DEFINE Goal == /\ TokensAreUnique' /\ ToldHoldIt' /\ ActiveIsOffered' /\ PurchaseFits'
                   /\ ~invite.shown /\ invite'.shown =>
                         settings.enabled /\ branch /\ customer
<1>1. /\ TypeOK /\ PurchaseFits /\ TokensAreUnique /\ ToldHoldIt /\ ActiveIsOffered
      /\ invite \in Invite /\ devices \in [Devices -> Device] /\ told \subseteq Devices
      /\ tokens \in Nat /\ invite.token \in Nat /\ purchases \in Nat
      /\ settings.enabled \in BOOLEAN
      /\ \A d \in Devices : devices[d].token \in Nat
  BY DEF InvitationInv, TypeOK, Invite, Device, Settings
\* The devices, and who was told, are what they were; the invitation is the same,
\* or its reservation is nobody's.
<1>2. ASSUME UNCHANGED <<devices, tokens, told>>, PurchaseFits',
             \/ /\ invite'.token = invite.token /\ invite'.shown = invite.shown
                /\ invite.token # 0 => invite'.status = invite.status
             \/ invite'.token = 0 /\ invite'.shown = invite.shown,
             \/ UNCHANGED <<settings, branch>>
             \/ settings'.enabled /\ UNCHANGED branch
             \/ invite'.token = 0
             \/ invite'.shown
      PROVE  Goal
  <2>1. TokensAreUnique'
    BY <1>1, <1>2 DEF TokensAreUnique, Holds
  <2>2. ToldHoldIt'
    BY <1>1, <1>2 DEF TokensAreUnique, ToldHoldIt, Holds
  <2>3. ActiveIsOffered'
    BY <1>1, <1>2 DEF TokensAreUnique, ActiveIsOffered, Holds
  <2> QED
    BY <1>2, <2>1, <2>2, <2>3
\* A device that holds no reservation, or the one it held, and asks nothing new.
<1>3. ASSUME NEW d \in Devices, NEW row, Does(d, row),
             \/ row.step \notin {"holding", "showing"}
             \/ /\ row.step \in {"holding", "showing"} /\ Holds(d)
                /\ row.token = devices[d].token
                /\ row.active /\ row.step = "showing" => settings.enabled /\ branch,
             UNCHANGED <<settings, branch, invite, tokens, told, buying, purchases>>
      PROVE  Goal
  <2>1. /\ devices'[d] = row
        /\ \A e \in Devices : e # d => devices'[e] = devices[e]
    BY <1>1, <1>3, DeviceKeeps
  <2>2. TokensAreUnique'
    BY <1>1, <1>3, <2>1 DEF TokensAreUnique, Holds
  <2>3. ToldHoldIt'
    BY <1>1, <1>3, <2>1 DEF ToldHoldIt, Holds
  <2>4. ActiveIsOffered'
    BY <1>1, <1>3, <2>1 DEF ActiveIsOffered
  <2>5. PurchaseFits'
    BY <1>1, <1>3 DEF PurchaseFits
  <2> QED
    BY <1>3, <2>2, <2>3, <2>4, <2>5
<1>4. CASE BeginSave \/ SaveFails \/ AbortPurchase \/ UNCHANGED vars
  <2>1. /\ UNCHANGED <<settings, branch, invite, devices, tokens, told>>
        /\ PurchaseFits'
    BY <1>1, <1>4 DEF BeginSave, SaveFails, AbortPurchase, vars, PurchaseFits
  <2> QED
    BY <1>2, <2>1
<1>5. CASE SaveReviewSettings
  <2>1. /\ UNCHANGED <<devices, tokens, told, branch>> /\ PurchaseFits'
        /\ invite' = IF settings'.enabled THEN invite ELSE Cancelled
    BY <1>1, <1>5 DEF SaveReviewSettings, PurchaseFits
  <2>2. CASE settings'.enabled
    BY <1>2, <2>1, <2>2
  <2>3. CASE ~settings'.enabled
    <3>1. invite'.shown = invite.shown /\ (invite' = invite \/ invite'.token = 0)
      BY <1>1, <2>1, <2>3, CancelledRow
    <3>2. invite'.token = 0 \/ invite'.shown
      BY <1>1, <2>1, <2>3, <3>1, CancelledRow DEF TokensAreUnique
    <3> QED
      BY <1>2, <2>1, <3>1, <3>2
  <2> QED
    BY <2>2, <2>3
<1>6. CASE CloseBranch
  <2>1. /\ UNCHANGED <<devices, tokens, told>> /\ PurchaseFits' /\ invite' = Cancelled
    BY <1>1, <1>6 DEF CloseBranch, PurchaseFits
  <2>2. invite'.shown = invite.shown /\ (invite' = invite \/ invite'.token = 0)
    BY <1>1, <2>1, CancelledRow
  <2>3. invite'.token = 0 \/ invite'.shown
    BY <1>1, <2>1, <2>2, CancelledRow DEF TokensAreUnique
  <2> QED
    BY <1>2, <2>1, <2>2, <2>3
<1>7. CASE BeginPurchase
  <2>1. /\ UNCHANGED <<settings, branch, invite, devices, tokens, told>>
        /\ PurchaseFits'
    BY <1>7 DEF BeginPurchase, PurchaseFits
  <2> QED
    BY <1>2, <2>1
<1>8. CASE CommitPurchase
  <2>1. /\ UNCHANGED <<settings, branch, devices, tokens, told>> /\ PurchaseFits'
        /\ \/ invite' = invite
           \/ invite.status = "none" /\ invite' = [invite EXCEPT !.status = "pending"]
    BY <1>8 DEF CommitPurchase, PurchaseFits
  <2>2. /\ invite'.token = invite.token /\ invite'.shown = invite.shown
        /\ invite.token # 0 => invite'.status = invite.status
    BY <1>1, <2>1 DEF TokensAreUnique, Invite
  <2> QED
    BY <1>2, <2>1, <2>2
<1>9. CASE AnonymizeAccount
  <2>1. /\ UNCHANGED <<settings, branch, devices, tokens, told>> /\ PurchaseFits'
        /\ invite'.shown = invite.shown /\ (invite' = invite \/ invite'.token = 0)
    BY <1>1, <1>9 DEF AnonymizeAccount, PurchaseFits, Invite
  <2> QED
    BY <1>2, <2>1
<1>10. CASE LeaseEnds
  <2>1. /\ UNCHANGED <<settings, branch, devices, tokens, told>> /\ PurchaseFits'
        /\ invite'.token = invite.token /\ invite'.shown = invite.shown
        /\ invite'.status = invite.status
    BY <1>1, <1>10 DEF LeaseEnds, PurchaseFits, Invite
  <2> QED
    BY <1>2, <2>1
<1>11. ASSUME NEW d \in Devices, Answer(d)
       PROVE  Goal
  <2>1. /\ UNCHANGED <<settings, branch, devices, tokens, told>> /\ PurchaseFits'
        /\ invite'.token = invite.token /\ invite'.shown = invite.shown
        /\ invite'.status = invite.status
    BY <1>1, <1>11 DEF Answer, PurchaseFits, Invite
  <2> QED
    BY <1>2, <2>1
<1>12. ASSUME NEW d \in Devices, ReviewCandidate(d)
       PROVE  Goal
  <2> DEFINE row == [Idle EXCEPT !.step = "resolving", !.version = settings.version]
  <2>1. row.step = "resolving" /\ Does(d, row)
    BY <1>12 DEF ReviewCandidate, Idle
  <2> QED
    BY <1>3, <1>12, <2>1 DEF ReviewCandidate
<1>13. ASSUME NEW d \in Devices, BeginReserve(d)
       PROVE  Goal
  <2> DEFINE row == [devices[d] EXCEPT !.step = "reserving"]
  <2>1. row.step = "reserving" /\ Does(d, row)
    BY <1>1, <1>13 DEF BeginReserve, Device
  <2> QED
    BY <1>3, <1>13, <2>1 DEF BeginReserve
<1>14. ASSUME NEW d \in Devices, Forget(d)
       PROVE  Goal
  <2>1. Idle.step = "idle"
    BY DEF Idle
  <2> QED
    BY <1>3, <1>14, <2>1 DEF Forget
<1>15. ASSUME NEW d \in Devices, BeginShow(d)
       PROVE  Goal
  <2> DEFINE row == [devices[d] EXCEPT !.step = "showing",
                                          !.active = branch /\ settings.enabled]
  <2>1. /\ row.step = "showing" /\ row.token = devices[d].token
        /\ row.active => settings.enabled /\ branch
    BY <1>1 DEF Device
  <2>2. Holds(d) /\ Does(d, row)
    BY <1>15 DEF BeginShow, Holds
  <2> HIDE DEF row
  <2> QED
    BY <1>3, <1>15, <2>1, <2>2 DEF BeginShow
\* A new token, for an invitation that nobody was told of.
<1>16. ASSUME NEW d \in Devices, ReserveReview(d)
       PROVE  Goal
  <2> DEFINE row == [devices[d] EXCEPT !.step = "holding", !.token = tokens + 1]
  <2>1. row.step = "holding" /\ row.token = tokens + 1
    BY <1>1 DEF Device
  <2>2. Does(d, row)
    BY <1>16 DEF ReserveReview
  <2> HIDE DEF row
  <2>3. /\ devices'[d] = row
        /\ \A e \in Devices : e # d => devices'[e] = devices[e]
    BY <1>1, <2>2, DeviceKeeps
  <2>4. /\ invite'.token = tokens + 1 /\ tokens' = tokens + 1
        /\ invite'.status = "pending" /\ ~invite.shown /\ ~invite'.shown
        /\ UNCHANGED <<settings, branch, told, buying, purchases>>
    BY <1>1, <1>16 DEF ReserveReview, Reservable, Invite
  <2>5. told = {}
    BY <1>1, <2>4 DEF ToldHoldIt
  <2>6. TokensAreUnique'
    BY <1>1, <2>1, <2>3, <2>4 DEF TokensAreUnique, Holds
  <2>7. ToldHoldIt'
    BY <2>4, <2>5 DEF ToldHoldIt
  <2>8. ActiveIsOffered'
    BY <1>1, <2>1, <2>3, <2>4 DEF ActiveIsOffered, TokensAreUnique, Holds
  <2>9. PurchaseFits'
    BY <1>1, <2>4 DEF PurchaseFits
  <2> QED
    BY <2>4, <2>6, <2>7, <2>8, <2>9
\* The device that is told holds the reservation, and nobody else does.
<1>17. ASSUME NEW d \in Devices, ReviewEvent(d)
       PROVE  Goal
  <2> DEFINE row == [devices[d] EXCEPT !.step = "holding", !.active = FALSE]
  <2>1. row.step = "holding" /\ row.token = devices[d].token
    BY <1>1 DEF Device
  <2>2. Does(d, row) /\ Holds(d)
    BY <1>17 DEF ReviewEvent, Holds
  <2> HIDE DEF row
  <2>3. /\ devices'[d] = row
        /\ \A e \in Devices : e # d => devices'[e] = devices[e]
    BY <1>1, <2>2, DeviceKeeps
  <2>4. /\ invite'.token = invite.token /\ invite'.status = invite.status /\ invite'.shown
        /\ invite.token = devices[d].token
        /\ UNCHANGED <<settings, branch, tokens, buying, purchases>>
        /\ told' \subseteq told \cup {d}
    BY <1>1, <1>17 DEF ReviewEvent, Reserved, Invite
  <2>5. \A e \in Devices : (Holds(e))' => Holds(e) /\ devices'[e].token = devices[e].token
    BY <2>1, <2>2, <2>3 DEF Holds
  <2>6. TokensAreUnique'
    BY <1>1, <2>4, <2>5 DEF TokensAreUnique
  <2>7. \A e \in told : e = d
    BY <1>1, <2>2, <2>4 DEF ToldHoldIt
  <2>8. \A e \in Devices : Holds(e) /\ devices[e].token = invite.token => e = d
    BY <1>1, <2>2, <2>4 DEF TokensAreUnique
  <2>9. ToldHoldIt'
    BY <2>4, <2>5, <2>7, <2>8 DEF ToldHoldIt
  <2>10. ActiveIsOffered'
    BY <2>4 DEF ActiveIsOffered
  <2>11. PurchaseFits'
    BY <1>1, <2>4 DEF PurchaseFits
  <2>12. ~invite.shown => settings.enabled /\ branch /\ customer
    BY <1>1, <1>17, <2>4 DEF ReviewEvent, ActiveIsOffered
  <2> QED
    BY <2>6, <2>9, <2>10, <2>11, <2>12
<1> QED
  BY <1>4, <1>5, <1>6, <1>7, <1>8, <1>9, <1>10, <1>11, <1>12, <1>13, <1>14, <1>15,
     <1>16, <1>17 DEF Next

-----------------------------------------------------------------------------
(* Reviews: theorems *)

\* A branch that has not turned reviews on satisfies InvitationInv.
LEMMA InvitationStarts == Init => InvitationInv
<1> SUFFICES ASSUME Init PROVE InvitationInv
  OBVIOUS
<1>1. /\ 0 \in 0..MaxTokens /\ 0 \in 0..MaxVersion /\ 0 \in 0..MaxPurchases
      /\ 1 \in 1..MaxVersion /\ 1 \in 1..MaxPurchases
  BY BoundsAreNatural
<1>2. TypeOK
  BY <1>1 DEF Init, TypeOK, Settings, Invite, Idle, Device
<1>3. PurchaseFits /\ TokensAreUnique /\ ToldHoldIt /\ ActiveIsOffered
  BY DEF Init, PurchaseFits, TokensAreUnique, ToldHoldIt, ActiveIsOffered, Holds, Idle
<1> QED
  BY <1>2, <1>3 DEF InvitationInv

\* Everything InvitationInv says holds of every reachable state.
THEOREM InvitationInvariant == Spec => []InvitationInv
<1>1. Init => InvitationInv
  BY InvitationStarts
<1>2. InvitationInv /\ [Next]_vars => InvitationInv'
  BY TypesStep, ReservationsStep DEF InvitationInv
<1> QED
  BY <1>1, <1>2, PTL DEF Spec

\* The rows stay well formed, and however many devices reserve, retry and ask
\* again, one is told to show the invitation (ReserveReview, ReviewEvent).
THEOREM ReviewsCorrect == Spec => []ReviewInv
<1>1. InvitationInv => ReviewInv
  <2> SUFFICES ASSUME InvitationInv PROVE Cardinality(told) <= 1
    BY DEF InvitationInv, ReviewInv, OneDeviceShows
  <2>1. \A d, e \in told : d = e
    BY DEF InvitationInv, ToldHoldIt
  <2>2. CASE told = {}
    BY <2>2, FS_EmptySet
  <2>3. CASE told # {}
    <3>1. PICK d : told = {d}
      BY <2>1, <2>3
    <3>2. Cardinality({d}) = 1
      BY FS_Singleton
    <3> QED
      BY <3>1, <3>2
  <2> QED
    BY <2>2, <2>3
<1> QED
  BY <1>1, InvitationInvariant, PTL

\* A request that found the feature on shows nothing once it was turned off, the
\* branch closed or the customer gone (SaveReviewSettings, CloseBranch,
\* AnonymizeAccount against ReviewEvent).
THEOREM OnlyShownWhileOffered == Spec => ShownWhileOffered
<1>1. InvitationInv /\ [Next]_vars =>
         [~invite.shown /\ invite'.shown => settings.enabled /\ branch /\ customer]_vars
  BY ReservationsStep
<1> QED
  BY <1>1, InvitationInvariant, PTL DEF Spec, ShownWhileOffered

-----------------------------------------------------------------------------
(* CardEvents: the inductive invariant *)

\* Nothing is on its way that will make the stream of c look again.
Quiet(c) == listener = "on" /\ wire = 0 /\ ~streams[c].event
\* A stream that the broker knows has told its browser of the last movement, is
\* about to, will yet read the revision, or will be woken.
Informed(c) ==
    streams[c].registered /\ Quiet(c) =>
        /\ streams[c].step \in {"greeting", "telling"} => streams[c].value >= announced
        /\ streams[c].step = "waiting" => streams[c].last >= announced

StreamSound(c) ==
    /\ streams[c].registered =>
         broker.ready /\ ~streams[c].down /\ streams[c].step # "none"
    /\ streams[c].step # "none" =>
         /\ streams[c].registered \/ streams[c].down
         /\ streams[c].last = clients[c].has
    /\ Informed(c)
    /\ clients[c].session => clients[c].heard = 0
    /\ clients[c].heard # 0 =>
         clients[c].heard = 1 /\ streams[c].step \in {"none", "waiting", "woken"}
StreamsSound == \A c \in Clients : StreamSound(c)

EventsInv ==
    /\ EventsTypeOK
    /\ broker \in [ready: BOOLEAN, total: Nat]
    /\ IsFiniteSet(Registered)
    /\ wire <= revision
    /\ broker.ready => listener # "off"
    /\ StreamsSound

-----------------------------------------------------------------------------
(* CardEvents: the steps of one stream *)

\* A step of one stream keeps the invariant if it keeps that stream in order
\* and the broker counts it for what it now is.
LEMMA StreamStepKept ==
    ASSUME EventsInv, NEW c \in Clients,
           UNCHANGED <<revision, announced, listener, wire>>, failures' \in 0..MaxFailures,
           streams' \in [Clients -> Stream], clients' \in [Clients -> Client],
           \A d \in Clients : d # c => streams'[d] = streams[d] /\ clients'[d] = clients[d],
           broker' \in [ready: BOOLEAN, total: Int], broker'.ready = broker.ready,
           broker'.total = broker.total - One(streams[c].registered)
                             + One(streams'[c].registered),
           broker'.total <= Capacity,
           StreamSound(c)'
    PROVE  EventsInv'
<1>1. /\ IsFiniteSet(Registered')
      /\ Cardinality(Registered) \in Nat /\ Cardinality(Registered') \in Nat
      /\ Cardinality(Registered') + One(streams[c].registered)
           = Cardinality(Registered) + One(streams'[c].registered)
  <2>1. \A d : d # c => (d \in Registered' <=> d \in Registered)
    BY DEF Registered
  <2>2. (c \in Registered <=> streams[c].registered) /\ (c \in Registered' <=> streams'[c].registered)
    BY DEF Registered
  <2>3. IsFiniteSet(Registered)
    BY DEF EventsInv
  <2>4. /\ IsFiniteSet(Registered')
        /\ Cardinality(Registered) \in Nat /\ Cardinality(Registered') \in Nat
        /\ Cardinality(Registered') + One(c \in Registered)
             = Cardinality(Registered) + One(c \in Registered')
    BY <2>1, <2>3, OneMoreOrLess
  <2> QED BY <2>2, <2>4 DEF One
<1>2. One(streams[c].registered) \in Nat /\ One(streams'[c].registered) \in Nat
  BY DEF One
<1>3. broker.total = Cardinality(Registered)
  BY DEF EventsInv, EventsTypeOK
<1>4. broker'.total = Cardinality(Registered')
  BY <1>1, <1>2, <1>3
<1>5. broker' \in [ready: BOOLEAN, total: Nat]
  BY <1>1, <1>4
<1>6. EventsTypeOK'
  BY <1>4, <1>5 DEF EventsInv, EventsTypeOK
<1>7. ASSUME NEW d \in Clients, d # c
      PROVE  StreamSound(d)'
  <2>1. StreamSound(d) /\ streams'[d] = streams[d] /\ clients'[d] = clients[d]
    BY <1>7 DEF EventsInv, StreamsSound
  <2> QED BY <2>1 DEF StreamSound, Informed, Quiet
<1> QED BY <1>1, <1>5, <1>6, <1>7 DEF EventsInv, StreamsSound

\* The stream of c goes on and the broker need not know.
LEMMA StreamGoesOn ==
    ASSUME EventsInv, NEW c \in Clients,
           UNCHANGED <<revision, announced, listener, wire, broker, failures>>,
           NEW row \in Stream, streams' = [streams EXCEPT ![c] = row],
           row.registered = streams[c].registered,
           clients' \in [Clients -> Client],
           \A d \in Clients : d # c => clients'[d] = clients[d],
           StreamSound(c)'
    PROVE  EventsInv'
<1>1. /\ streams' \in [Clients -> Stream] /\ streams'[c] = row
      /\ \A d \in Clients : d # c => streams'[d] = streams[d]
      /\ failures' \in 0..MaxFailures
  BY DEF EventsInv, EventsTypeOK
<1>2. One(streams[c].registered) \in Int /\ One(streams'[c].registered) = One(streams[c].registered)
  BY <1>1 DEF One
<1>3. broker \in [ready: BOOLEAN, total: Nat] /\ broker.total <= Capacity /\ broker.total \in Nat
  BY DEF EventsInv, EventsTypeOK
<1>4. broker.total = broker.total - One(streams[c].registered) + One(streams'[c].registered)
  BY <1>2, <1>3
<1> QED BY <1>1, <1>3, <1>4, StreamStepKept

\* A browser hears of the revision that its stream read.
LEMMA HearsMoves ==
    ASSUME EventsTypeOK, NEW c \in Clients, Hears(c), clients[c].heard = 0
    PROVE  /\ clients' \in [Clients -> Client]
           /\ \A d \in Clients : d # c => clients'[d] = clients[d]
           /\ clients'[c].has = streams[c].value /\ clients'[c].session = clients[c].session
           /\ clients'[c].session => clients'[c].heard = 0
           /\ clients'[c].heard \in {0, 1}
<1>1. clients \in [Clients -> Client] /\ clients[c] \in Client /\ streams[c].value \in 0..MaxRevision
  BY DEF EventsTypeOK, Stream
<1>2. \A d \in Clients : d # c => clients'[d] = clients[d]
  BY <1>1 DEF Hears
<1>3. /\ clients'[c].has = streams[c].value /\ clients'[c].session = clients[c].session
      /\ clients'[c].heard = IF clients[c].session THEN 0 ELSE 1
  BY <1>1 DEF Hears, Client
<1>4. clients'[c] \in Client
  <2> DEFINE shown == [clients EXCEPT ![c].has = streams[c].value]
  <2>1. shown \in [Clients -> Client] /\ shown[c] \in Client /\ shown[c].heard = 0
    BY <1>1 DEF Client
  <2>2. clients' = [shown EXCEPT ![c].heard = IF clients[c].session THEN 0 ELSE @ + 1]
    BY DEF Hears
  <2> HIDE DEF shown
  <2>3. clients'[c] = [shown[c] EXCEPT !.heard = IF clients[c].session THEN 0 ELSE 1]
    BY <2>1, <2>2
  <2> QED BY <2>1, <2>3 DEF Client
<1>5. clients' \in [Clients -> Client]
  BY <1>1, <1>2, <1>4 DEF Hears
<1> QED BY <1>2, <1>3, <1>5

\* The stream of c ends, after a last word to its browser or without one.
LEMMA LeaveKept ==
    ASSUME EventsInv, NEW c \in Clients, Leave(c),
           UNCHANGED <<revision, announced, listener, wire>>, failures' \in 0..MaxFailures,
           \/ UNCHANGED clients
           \/ Hears(c) /\ streams[c].step \in {"greeting", "telling"}
    PROVE  EventsInv'
<1>1. EventsTypeOK /\ Capacity \in Nat /\ MaxRevision \in Nat
  BY EventBoundsAreNatural DEF EventsInv
<1>2. /\ NoStream \in Stream /\ ~NoStream.registered /\ NoStream.step = "none"
  BY <1>1 DEF NoStream, Stream
<1>3. /\ streams' \in [Clients -> Stream] /\ streams'[c] = NoStream
      /\ \A d \in Clients : d # c => streams'[d] = streams[d]
  BY <1>1, <1>2 DEF Leave, EventsTypeOK
<1>4. /\ broker \in [ready: BOOLEAN, total: Nat] /\ broker.total \in Nat /\ broker.total <= Capacity
  BY <1>1 DEF EventsInv, EventsTypeOK
<1>5. /\ broker' \in [ready: BOOLEAN, total: Int] /\ broker'.ready = broker.ready
      /\ broker'.total = broker.total - One(streams[c].registered) + One(streams'[c].registered)
      /\ broker'.total <= Capacity
  BY <1>1, <1>2, <1>3, <1>4 DEF Leave, Leaving, One
<1>6. StreamSound(c)
  BY DEF EventsInv, StreamsSound
<1>7. /\ clients' \in [Clients -> Client] /\ \A d \in Clients : d # c => clients'[d] = clients[d]
      /\ clients'[c].session = clients[c].session
      /\ clients'[c].session => clients'[c].heard = 0
      /\ clients'[c].heard # 0 => clients'[c].heard = 1
  <2>1. CASE UNCHANGED clients
    BY <1>1, <1>6, <2>1 DEF EventsTypeOK, StreamSound
  <2>2. CASE Hears(c) /\ streams[c].step \in {"greeting", "telling"}
    <3>1. clients[c].heard = 0
      BY <1>6, <2>2 DEF StreamSound
    <3> QED BY <1>1, <2>2, <3>1, HearsMoves
  <2> QED BY <2>1, <2>2
<1>8. StreamSound(c)'
  BY <1>2, <1>3, <1>7 DEF StreamSound, Informed
<1> QED BY <1>3, <1>5, <1>7, <1>8, StreamStepKept

\* A browser connects.
LEMMA SubscribeKept ==
    ASSUME EventsInv, NEW c \in Clients, Subscribe(c)
    PROVE  EventsInv'
<1>1. /\ EventsTypeOK /\ Capacity \in Nat /\ MaxRevision \in Nat /\ StreamSound(c)
      /\ streams[c].step = "none" /\ clients[c].session /\ broker.ready /\ broker.total < Capacity
      /\ UNCHANGED <<revision, announced, listener, wire, clients, failures>>
  BY EventBoundsAreNatural DEF EventsInv, StreamsSound, Subscribe, At
<1> DEFINE row == [NoStream EXCEPT !.step = "subscribed", !.registered = TRUE,
                      !.last = clients[c].has]
<1>2. clients[c] \in Client /\ clients[c].has \in 0..MaxRevision
  BY <1>1 DEF EventsTypeOK, Client
<1>3. /\ row \in Stream /\ row.registered /\ row.step = "subscribed" /\ ~row.down
      /\ row.last = clients[c].has
  <2>1. NoStream \in Stream /\ ~NoStream.down
    BY <1>1 DEF NoStream, Stream
  <2> QED BY <1>2, <2>1 DEF Stream
<1>4. streams' = [streams EXCEPT ![c] = row]
  BY DEF Subscribe
<1> HIDE DEF row
<1>5. /\ streams' \in [Clients -> Stream] /\ streams'[c] = row
      /\ \A d \in Clients : d # c => streams'[d] = streams[d]
  BY <1>1, <1>3, <1>4 DEF EventsTypeOK
<1>6. broker \in [ready: BOOLEAN, total: Nat] /\ ~streams[c].registered
  BY <1>1 DEF EventsInv, StreamSound
<1>7. /\ broker' \in [ready: BOOLEAN, total: Int] /\ broker'.ready = broker.ready
      /\ broker'.total = broker.total + 1
      /\ broker'.total <= Capacity
  <2>1. broker' = [broker EXCEPT !.total = @ + 1]
    BY DEF Subscribe
  <2>2. broker.total \in Nat /\ broker.total + 1 <= Capacity
    BY <1>1, <1>6
  <2> QED BY <1>6, <2>1, <2>2
<1>8. broker'.total = broker.total - One(streams[c].registered) + One(streams'[c].registered)
  BY <1>3, <1>5, <1>6, <1>7 DEF One
<1>9. StreamSound(c)'
  BY <1>1, <1>3, <1>5, <1>7 DEF StreamSound, Informed
<1> QED BY <1>1, <1>5, <1>7, <1>8, <1>9, StreamStepKept DEF EventsTypeOK

\* A stream reads the revision.
LEMMA ReadRevisionKept ==
    ASSUME EventsInv, NEW c \in Clients, ReadRevision(c)
    PROVE  EventsInv'
<1>1. /\ EventsTypeOK /\ StreamSound(c) /\ streams[c].step \in {"subscribed", "checked"}
      /\ UNCHANGED <<revision, announced, listener, wire, broker, clients, failures>>
  BY DEF EventsInv, StreamsSound, ReadRevision, At
<1>2. PICK step \in {"greeting", "telling"} :
         streams' = [streams EXCEPT ![c].value = revision, ![c].step = step]
  BY DEF ReadRevision
<1> DEFINE row == [streams[c] EXCEPT !.value = revision, !.step = step]
<1>3. streams' = [streams EXCEPT ![c] = row]
  BY <1>1, <1>2 DEF EventsTypeOK
<1>4. streams[c] \in Stream /\ revision \in 0..MaxRevision /\ announced \in 0..revision
  BY <1>1 DEF EventsTypeOK
<1>5. /\ row \in Stream /\ row.registered = streams[c].registered /\ row.down = streams[c].down
      /\ row.last = streams[c].last /\ row.value = revision /\ row.step = step
  BY <1>4 DEF Stream
<1> HIDE DEF row
<1>6. streams'[c] = row /\ announced <= revision
  BY <1>1, <1>3, <1>4 DEF EventsTypeOK
<1>7. StreamSound(c)'
  BY <1>1, <1>5, <1>6 DEF StreamSound, Informed
<1> QED BY <1>1, <1>3, <1>5, <1>7, StreamGoesOn DEF EventsTypeOK

\* A stream tells its browser, or has no news.
LEMMA WriteKept ==
    ASSUME EventsInv, NEW c \in Clients, Write(c)
    PROVE  EventsInv'
<1>1. /\ EventsTypeOK /\ StreamSound(c) /\ streams[c].step \in {"greeting", "telling"}
      /\ UNCHANGED <<revision, announced, listener, wire, broker, failures>>
  BY DEF EventsInv, StreamsSound, Write, At
<1>2. /\ streams[c] \in Stream /\ clients[c] \in Client /\ streams[c].value \in 0..MaxRevision
      /\ clients[c].heard = 0
  BY <1>1 DEF EventsTypeOK, Stream, StreamSound, Client
<1> DEFINE row == [streams[c] EXCEPT !.step = "waiting", !.last = streams[c].value]
<1>3. /\ row \in Stream /\ row.registered = streams[c].registered /\ row.down = streams[c].down
      /\ row.last = streams[c].value /\ row.event = streams[c].event /\ row.step = "waiting"
  BY <1>2 DEF Stream
<1>4. /\ streams' = [streams EXCEPT ![c] = row]
      /\ clients' \in [Clients -> Client] /\ \A d \in Clients : d # c => clients'[d] = clients[d]
      /\ clients'[c].has = streams[c].value /\ clients'[c].session = clients[c].session
      /\ clients'[c].session => clients'[c].heard = 0
      /\ clients'[c].heard \in {0, 1}
  <2>1. CASE NewsTo(c)
    <3>1. Hears(c) /\ streams' = [streams EXCEPT ![c] = row]
      BY <1>1, <2>1 DEF Write, EventsTypeOK
    <3> QED BY <1>1, <1>2, <3>1, HearsMoves
  <2>2. CASE ~NewsTo(c)
    <3>1. Goes(c, "waiting") /\ UNCHANGED clients /\ streams[c].value = streams[c].last
      BY <2>2 DEF Write, NewsTo
    <3>2. streams' = [streams EXCEPT ![c] = [streams[c] EXCEPT !.step = "waiting"]]
      BY <3>1 DEF Goes
    <3>3. row = [streams[c] EXCEPT !.step = "waiting"]
      BY <1>2, <3>1 DEF Stream
    <3>4. clients[c].has = streams[c].value
      BY <1>1, <3>1 DEF StreamSound
    <3> QED BY <1>1, <1>2, <3>1, <3>2, <3>3, <3>4 DEF EventsTypeOK
  <2> QED BY <2>1, <2>2
<1> HIDE DEF row
<1>5. streams'[c] = row
  BY <1>1, <1>4 DEF EventsTypeOK
<1>6. StreamSound(c)'
  BY <1>1, <1>3, <1>4, <1>5 DEF StreamSound, Informed, Quiet
<1> QED BY <1>1, <1>3, <1>4, <1>6, StreamGoesOn

\* A stream takes its event from the channel.
LEMMA WakeKept ==
    ASSUME EventsInv, NEW c \in Clients, Wake(c)
    PROVE  EventsInv'
<1>1. /\ EventsTypeOK /\ StreamSound(c) /\ streams[c].step = "waiting"
      /\ UNCHANGED <<revision, announced, listener, wire, broker, clients, failures>>
  BY DEF EventsInv, StreamsSound, Wake, At
<1> DEFINE row == [streams[c] EXCEPT !.event = FALSE, !.step = "woken"]
<1>2. streams' = [streams EXCEPT ![c] = row] /\ streams[c] \in Stream
  BY <1>1 DEF Wake, EventsTypeOK
<1>3. /\ row \in Stream /\ row.registered = streams[c].registered /\ row.down = streams[c].down
      /\ row.last = streams[c].last /\ row.step = "woken"
  BY <1>2 DEF Stream
<1> HIDE DEF row
<1>4. streams'[c] = row
  BY <1>1, <1>2 DEF EventsTypeOK
<1>5. StreamSound(c)'
  BY <1>1, <1>3, <1>4 DEF StreamSound, Informed
<1> QED BY <1>1, <1>2, <1>3, <1>5, StreamGoesOn DEF EventsTypeOK

\* A woken stream asks whether its session still is one.
LEMMA CheckSessionKept ==
    ASSUME EventsInv, NEW c \in Clients, CheckSession(c)
    PROVE  EventsInv'
<1>1. /\ EventsTypeOK /\ StreamSound(c) /\ streams[c].step = "woken"
      /\ UNCHANGED <<revision, announced, listener, wire, clients, failures>>
  BY DEF EventsInv, StreamsSound, CheckSession, At
<1>2. CASE MayStay(c)
  <2> DEFINE row == [streams[c] EXCEPT !.step = "checked"]
  <2>1. /\ streams' = [streams EXCEPT ![c] = row] /\ streams[c] \in Stream
        /\ UNCHANGED broker /\ clients[c].session
    BY <1>1, <1>2 DEF CheckSession, MayStay, Goes, EventsTypeOK
  <2>2. /\ row \in Stream /\ row.registered = streams[c].registered /\ row.down = streams[c].down
        /\ row.last = streams[c].last /\ row.step = "checked"
    BY <2>1 DEF Stream
  <2> HIDE DEF row
  <2>3. streams'[c] = row
    BY <1>1, <2>1 DEF EventsTypeOK
  <2>4. StreamSound(c)'
    BY <1>1, <2>1, <2>2, <2>3 DEF StreamSound, Informed
  <2> QED BY <1>1, <2>1, <2>2, <2>4, StreamGoesOn DEF EventsTypeOK
<1>3. CASE ~MayStay(c)
  <2>1. Leave(c)
    BY <1>3 DEF CheckSession
  <2> QED BY <1>1, <2>1, LeaveKept DEF EventsTypeOK
<1> QED BY <1>2, <1>3

\* A stream ends for any other reason.
LEMMA EndsKept ==
    ASSUME EventsInv, NEW c \in Clients,
           Heartbeat(c) \/ ClosesWhenDown(c) \/ Closes(c) \/ ReadFails(c) \/ WriteFails(c)
    PROVE  EventsInv'
<1>1. Leave(c) /\ UNCHANGED <<revision, announced, listener, wire>>
  BY DEF Heartbeat, ClosesWhenDown, Closes, ReadFails, WriteFails
<1>2. failures' \in 0..MaxFailures
  BY EventBoundsAreNatural DEF Heartbeat, ClosesWhenDown, Closes, ReadFails, WriteFails, Fail,
        EventsInv, EventsTypeOK
<1>3. \/ UNCHANGED clients
      \/ Hears(c) /\ streams[c].step \in {"greeting", "telling"}
  BY DEF Heartbeat, ClosesWhenDown, Closes, ReadFails, WriteFails, At
<1> QED BY <1>1, <1>2, <1>3, LeaveKept

\* A session ends.
LEMMA SessionEndsKept ==
    ASSUME EventsInv, NEW c \in Clients, SessionEnds(c)
    PROVE  EventsInv'
<1>1. /\ EventsTypeOK /\ StreamSound(c) /\ clients[c].session
      /\ UNCHANGED <<revision, announced, listener, wire, broker, streams, failures>>
  BY DEF EventsInv, StreamsSound, SessionEnds
<1>2. /\ clients' \in [Clients -> Client]
      /\ \A d \in Clients : d # c => clients'[d] = clients[d]
      /\ clients'[c].has = clients[c].has /\ clients'[c].heard = clients[c].heard
      /\ ~clients'[c].session
  BY <1>1 DEF SessionEnds, EventsTypeOK, Client
<1>3. StreamSound(c)'
  BY <1>1, <1>2 DEF StreamSound, Informed, Quiet
<1>4. streams[c] \in Stream /\ streams' = [streams EXCEPT ![c] = streams[c]]
  BY <1>1 DEF EventsTypeOK
<1> QED BY <1>1, <1>2, <1>3, <1>4, StreamGoesOn

-----------------------------------------------------------------------------
(* CardEvents: the database and the broker *)

\* A movement: what the browsers have is old, and the notification on its way.
LEMMA MovementKept ==
    ASSUME EventsInv, Movement
    PROVE  EventsInv'
<1>1. /\ EventsTypeOK /\ revision < MaxRevision /\ revision' = revision + 1 /\ announced' = revision + 1
      /\ wire' = IF listener = "on" THEN wire + 1 ELSE wire
      /\ UNCHANGED <<listener, broker, streams, clients, failures>>
  BY DEF EventsInv, Movement
<1>2. revision \in Nat /\ wire \in Nat /\ wire <= revision /\ MaxRevision \in Nat
  BY <1>1, EventBoundsAreNatural DEF EventsInv, EventsTypeOK
<1>3. /\ revision' \in 0..MaxRevision /\ announced' \in 0..revision'
      /\ wire' \in 0..MaxRevision /\ wire' <= revision'
      /\ listener = "on" => wire' # 0
  BY <1>1, <1>2
<1>4. Registered' = Registered
  BY <1>1 DEF Registered
<1>5. EventsTypeOK'
  BY <1>1, <1>3, <1>4 DEF EventsTypeOK
<1>6. ASSUME NEW c \in Clients
      PROVE  StreamSound(c)'
  BY <1>1, <1>3 DEF EventsInv, StreamsSound, StreamSound, Informed, Quiet
<1> QED BY <1>1, <1>3, <1>4, <1>5, <1>6 DEF EventsInv, StreamsSound

\* A card comes or goes: nobody is told.
LEMMA SilentChangeKept ==
    ASSUME EventsInv, SilentChange
    PROVE  EventsInv'
<1>1. /\ EventsTypeOK /\ revision < MaxRevision /\ revision' = revision + 1
      /\ UNCHANGED <<announced, listener, wire, broker, streams, clients, failures>>
  BY DEF EventsInv, SilentChange
<1>2. revision \in Nat /\ wire \in Nat /\ wire <= revision /\ MaxRevision \in Nat
      /\ announced \in 0..revision
  BY <1>1, EventBoundsAreNatural DEF EventsInv, EventsTypeOK
<1>3. revision' \in 0..MaxRevision /\ announced' \in 0..revision' /\ wire' <= revision'
  BY <1>1, <1>2
<1>4. Registered' = Registered
  BY <1>1 DEF Registered
<1>5. EventsTypeOK'
  BY <1>1, <1>3, <1>4 DEF EventsTypeOK
<1>6. ASSUME NEW c \in Clients
      PROVE  StreamSound(c)'
  BY <1>1 DEF EventsInv, StreamsSound, StreamSound, Informed, Quiet
<1> QED BY <1>1, <1>3, <1>4, <1>5, <1>6 DEF EventsInv, StreamsSound

\* The connection listens, is known to be ready, or goes deaf.
LEMMA ListenKept ==
    ASSUME EventsInv, Listen \/ SetReady \/ GoesDeaf
    PROVE  EventsInv'
<1>1. /\ EventsTypeOK /\ UNCHANGED <<revision, announced, streams, clients>>
      /\ broker \in [ready: BOOLEAN, total: Nat] /\ wire <= revision /\ IsFiniteSet(Registered)
      /\ broker.ready => listener # "off"
      /\ revision \in 0..MaxRevision /\ MaxRevision \in Nat
  BY EventBoundsAreNatural DEF EventsInv, EventsTypeOK, Listen, SetReady, GoesDeaf
<1>2. Registered' = Registered
  BY <1>1 DEF Registered
<1>3. failures' \in 0..MaxFailures
  BY <1>1, EventBoundsAreNatural DEF EventsTypeOK, Listen, SetReady, GoesDeaf, Fail
<1>4. /\ listener' \in {"off", "on", "deaf"} /\ wire' \in 0..MaxRevision /\ wire' <= revision'
      /\ broker' \in [ready: BOOLEAN, total: Nat] /\ broker'.total = broker.total
      /\ broker'.ready => listener' # "off"
      /\ broker.ready => broker'.ready
  <2>1. CASE Listen
    BY <1>1, <2>1 DEF EventsTypeOK, Listen
  <2>2. CASE SetReady
    <3>1. broker' = [broker EXCEPT !.ready = TRUE] /\ listener # "off" /\ UNCHANGED <<listener, wire>>
      BY <2>2 DEF SetReady
    <3> QED BY <1>1, <3>1 DEF EventsTypeOK
  <2>3. CASE GoesDeaf
    BY <1>1, <2>3 DEF EventsTypeOK, GoesDeaf
  <2> QED BY <2>1, <2>2, <2>3
<1>5. EventsTypeOK'
  BY <1>1, <1>2, <1>3, <1>4 DEF EventsTypeOK
<1>6. ASSUME NEW c \in Clients
      PROVE  StreamSound(c)'
  <2>1. StreamSound(c)
    BY DEF EventsInv, StreamsSound
  <2>2. streams[c].registered /\ Quiet(c)' => Quiet(c)
    BY <1>1, <2>1 DEF StreamSound, Quiet, Listen, SetReady, GoesDeaf
  <2> QED BY <1>1, <1>4, <2>1, <2>2 DEF StreamSound, Informed
<1> QED BY <1>1, <1>2, <1>4, <1>5, <1>6 DEF EventsInv, StreamsSound

\* A notification arrives: every stream that the broker knows has an event.
LEMMA PublishKept ==
    ASSUME EventsInv, Publish
    PROVE  EventsInv'
<1>1. /\ EventsTypeOK /\ wire > 0 /\ wire' = wire - 1
      /\ streams' = [c \in Clients |-> Woken(c)]
      /\ UNCHANGED <<revision, announced, listener, broker, clients, failures>>
  BY DEF EventsInv, Publish
<1>2. wire \in 0..MaxRevision /\ MaxRevision \in Nat /\ wire <= revision /\ revision \in Nat
  BY <1>1, EventBoundsAreNatural DEF EventsInv, EventsTypeOK
<1>3. wire' \in 0..MaxRevision /\ wire' <= revision'
  BY <1>1, <1>2
<1>4. ASSUME NEW c \in Clients
      PROVE  /\ streams'[c] \in Stream
             /\ streams'[c].registered = streams[c].registered
             /\ streams'[c].step = streams[c].step /\ streams'[c].down = streams[c].down
             /\ streams'[c].last = streams[c].last /\ streams'[c].value = streams[c].value
             /\ streams[c].registered => streams'[c].event
  <2>1. streams[c] \in Stream /\ streams'[c] = Woken(c)
    BY <1>1 DEF EventsTypeOK
  <2> QED BY <2>1 DEF Woken, Stream
<1>5. Registered' = Registered
  BY <1>4 DEF Registered
<1>6. streams' \in [Clients -> Stream]
  BY <1>1, <1>4
<1>7. EventsTypeOK'
  BY <1>1, <1>3, <1>5, <1>6 DEF EventsTypeOK
<1>8. ASSUME NEW c \in Clients
      PROVE  StreamSound(c)'
  <2>1. Informed(c)'
    BY <1>4 DEF Informed, Quiet
  <2> QED BY <1>1, <1>4, <2>1 DEF EventsInv, StreamsSound, StreamSound
<1> QED BY <1>1, <1>3, <1>5, <1>7, <1>8 DEF EventsInv, StreamsSound

\* The connection is lost, and every stream learns of it.
LEMMA SetDownKept ==
    ASSUME EventsInv, ListenFails \/ ListenTimesOut
    PROVE  EventsInv'
<1>1. /\ EventsTypeOK /\ SetDown
      /\ listener' = "off" /\ wire' = 0 /\ broker' = [ready |-> FALSE, total |-> 0]
      /\ streams' = [c \in Clients |-> Down(c)]
      /\ UNCHANGED <<revision, announced, clients>>
  BY DEF EventsInv, ListenFails, ListenTimesOut, SetDown
<1>2. /\ revision \in 0..MaxRevision /\ MaxRevision \in Nat /\ Capacity \in Nat
      /\ failures' \in 0..MaxFailures
  BY <1>1, EventBoundsAreNatural DEF EventsTypeOK, ListenFails, ListenTimesOut, Fail
<1>3. ASSUME NEW c \in Clients
      PROVE  /\ streams'[c] \in Stream /\ ~streams'[c].registered
             /\ streams'[c].step = streams[c].step /\ streams'[c].last = streams[c].last
             /\ streams[c].registered \/ streams[c].down => streams'[c].down
  <2>1. streams[c] \in Stream /\ streams'[c] = Down(c)
    BY <1>1 DEF EventsTypeOK
  <2> QED BY <2>1 DEF Down, Stream
<1>4. Registered' = {}
  BY <1>3 DEF Registered
<1>5. streams' \in [Clients -> Stream]
  BY <1>1, <1>3
<1>6. EventsTypeOK' /\ IsFiniteSet(Registered') /\ broker' \in [ready: BOOLEAN, total: Nat]
  BY <1>1, <1>2, <1>4, <1>5, FS_EmptySet DEF EventsTypeOK
<1>7. ASSUME NEW c \in Clients
      PROVE  StreamSound(c)'
  BY <1>1, <1>3 DEF EventsInv, StreamsSound, StreamSound, Informed
<1> QED BY <1>1, <1>2, <1>6, <1>7 DEF EventsInv, StreamsSound

-----------------------------------------------------------------------------
(* CardEvents: the theorem *)

\* Nobody is connected yet.
LEMMA EventsStart == EventsInit => EventsInv
<1> SUFFICES ASSUME EventsInit PROVE EventsInv
  OBVIOUS
<1>1. MaxRevision \in Nat /\ MaxFailures \in Nat /\ Capacity \in Nat
  BY EventBoundsAreNatural
<1>2. \A c \in Clients : streams[c] = NoStream
  BY DEF EventsInit
<1>3. NoStream \in Stream /\ ~NoStream.registered /\ NoStream.step = "none"
  BY <1>1 DEF NoStream, Stream
<1>4. Registered = {}
  BY <1>2, <1>3 DEF Registered
<1>5. EventsTypeOK /\ broker \in [ready: BOOLEAN, total: Nat] /\ IsFiniteSet(Registered)
  BY <1>1, <1>3, <1>4, FS_EmptySet DEF EventsInit, EventsTypeOK, Client
<1>6. ASSUME NEW c \in Clients
      PROVE  StreamSound(c)
  BY <1>2, <1>3 DEF EventsInit, StreamSound, Informed
<1> QED BY <1>5, <1>6 DEF EventsInit, EventsInv, StreamsSound

\* Every step keeps the invariant.
LEMMA EventsKept == EventsInv /\ [EventsNext]_eventVars => EventsInv'
<1> SUFFICES ASSUME EventsInv, [EventsNext]_eventVars PROVE EventsInv'
  OBVIOUS
<1>1. CASE UNCHANGED eventVars
  BY <1>1 DEF eventVars, EventsInv, EventsTypeOK, StreamsSound, StreamSound, Informed, Quiet, Registered
<1>2. CASE Movement \/ SilentChange \/ Broker \/ GoesDeaf \/ ListenFails
  BY <1>2, MovementKept, SilentChangeKept, ListenKept, PublishKept, SetDownKept DEF Broker
<1>3. ASSUME NEW c \in Clients,
             \/ SessionEnds(c) \/ Subscribe(c) \/ Handler(c) \/ Heartbeat(c)
             \/ ClosesWhenDown(c) \/ Closes(c) \/ ReadFails(c) \/ WriteFails(c)
      PROVE  EventsInv'
  BY <1>3, SessionEndsKept, SubscribeKept, ReadRevisionKept, WriteKept, WakeKept,
     CheckSessionKept, EndsKept DEF Handler
<1> QED BY <1>1, <1>2, <1>3 DEF EventsNext

\* A stream that waits with nothing pending has told its browser.
LEMMA EventsSuffice == EventsInv => StreamInv
<1> SUFFICES ASSUME EventsInv PROVE StreamInv
  OBVIOUS
<1>1. ASSUME NEW c \in Clients
      PROVE  StreamSound(c) /\ clients[c].heard \in 0..2
  BY DEF EventsInv, StreamsSound, EventsTypeOK, Client
<1>2. QuietStreamIsCurrent
  BY <1>1 DEF QuietStreamIsCurrent, StreamSound, Informed, Quiet, At
<1>3. EndedSessionHearsOneFrame
  BY <1>1 DEF EndedSessionHearsOneFrame, StreamSound
<1> QED BY <1>2, <1>3 DEF EventsInv, StreamInv

\* StreamInv: whatever connections die, a stream that waits with nothing queued
\* for it has told its browser of the last movement, and one whose session ended
\* says at most one thing more.
THEOREM NoWakeUpIsLost == EventsSpec => []StreamInv
<1>1. EventsSpec => []EventsInv
  BY EventsStart, EventsKept, PTL DEF EventsSpec
<1> QED BY <1>1, EventsSuffice, PTL

-----------------------------------------------------------------------------
(* CardEvents: what a browser has never gets older *)

\* A browser has a revision that there was, and one that its stream is about to
\* write is not older.
Ahead(c) ==
    /\ clients[c].has <= revision
    /\ streams[c].step \in {"greeting", "telling"} =>
         clients[c].has <= streams[c].value /\ streams[c].value <= revision
AllAhead == \A c \in Clients : Ahead(c)

\* No step takes a browser back to what it knew before.
Forward == \A c \in Clients : clients'[c].has >= clients[c].has

\* What is said of the stream of c stays true when the cards move on without it.
LEMMA AheadStays ==
    ASSUME EventsInv, EventsInv', NEW c \in Clients, Ahead(c), revision' >= revision,
           clients'[c].has = clients[c].has,
           \/ streams'[c].step \notin {"greeting", "telling"}
           \/ streams'[c].step = streams[c].step /\ streams'[c].value = streams[c].value
    PROVE  Ahead(c)' /\ clients'[c].has >= clients[c].has
<1>1. /\ revision \in Int /\ revision' \in Int /\ clients[c].has \in Int
      /\ streams[c].value \in Int
  BY DEF EventsInv, EventsTypeOK, Client, Stream
<1> QED BY <1>1 DEF Ahead

\* The steps that are not of a stream leave every browser what it has.
LEMMA AheadOfBroker ==
    ASSUME EventsInv, EventsInv', AllAhead,
           Movement \/ SilentChange \/ Broker \/ GoesDeaf \/ ListenFails
    PROVE  AllAhead' /\ Forward
<1> SUFFICES ASSUME NEW c \in Clients
             PROVE  Ahead(c)' /\ clients'[c].has >= clients[c].has
  BY DEF AllAhead, Forward
<1>1. clients' = clients /\ revision' >= revision
  <2>1. revision \in Int
    BY DEF EventsInv, EventsTypeOK
  <2> QED BY <2>1 DEF Movement, SilentChange, Broker, Listen, SetReady, Publish, GoesDeaf,
                      ListenFails, ListenTimesOut, SetDown
<1>2. streams'[c].step = streams[c].step /\ streams'[c].value = streams[c].value
  <2>1. streams[c] \in Stream
    BY DEF EventsInv, EventsTypeOK
  <2>2. streams' = streams \/ streams' = [d \in Clients |-> Woken(d)]
           \/ streams' = [d \in Clients |-> Down(d)]
    BY DEF Movement, SilentChange, Broker, Listen, SetReady, Publish, GoesDeaf,
           ListenFails, ListenTimesOut, SetDown
  <2>3. streams'[c] \in {streams[c], Woken(c), Down(c)}
    BY <2>2
  <2> QED BY <2>1, <2>3 DEF Woken, Down, Stream
<1> QED BY <1>1, <1>2, AheadStays DEF AllAhead

\* The stream of c leaves the browser what it has, or writes what it read later.
LEMMA AheadOfStream ==
    ASSUME EventsInv, EventsInv', NEW c \in Clients, Ahead(c),
           \/ SessionEnds(c) \/ Subscribe(c) \/ Handler(c) \/ Heartbeat(c)
           \/ ClosesWhenDown(c) \/ Closes(c) \/ ReadFails(c) \/ WriteFails(c)
    PROVE  Ahead(c)' /\ clients'[c].has >= clients[c].has
<1>1. /\ clients \in [Clients -> Client] /\ clients[c] \in Client
      /\ streams \in [Clients -> Stream] /\ streams[c] \in Stream
      /\ clients[c].has \in Int /\ revision \in Int /\ streams[c].value \in Int
  BY DEF EventsInv, EventsTypeOK, Client, Stream
<1>2. revision' = revision
  BY DEF SessionEnds, Subscribe, Handler, ReadRevision, Write, Wake, CheckSession, Heartbeat,
         ClosesWhenDown, Closes, ReadFails, WriteFails
<1>3. ASSUME UNCHANGED clients, Leave(c)
      PROVE  Ahead(c)' /\ clients'[c].has >= clients[c].has
  BY <1>1, <1>2, <1>3, AheadStays DEF Leave, NoStream
<1>4. CASE SessionEnds(c)
  BY <1>1, <1>2, <1>4, AheadStays DEF SessionEnds, Client
<1>5. CASE Subscribe(c)
  <2>1. streams'[c].step = "subscribed" /\ clients' = clients
    BY <1>1, <1>5 DEF Subscribe, NoStream
  <2> QED BY <1>1, <1>2, <2>1, AheadStays
<1>6. CASE ReadRevision(c)
  <2>1. clients' = clients /\ streams'[c].value = revision
    BY <1>1, <1>6 DEF ReadRevision, Stream
  <2> QED BY <1>1, <1>2, <2>1 DEF Ahead
<1>7. CASE Write(c)
  <2>1. streams[c].step \in {"greeting", "telling"} /\ streams'[c].step = "waiting"
    BY <1>1, <1>7 DEF Write, At, Goes, Stream
  <2>2. clients'[c].has = streams[c].value \/ clients' = clients
    BY <1>1, <1>7 DEF Write, Hears, Client
  <2> QED BY <1>1, <1>2, <2>1, <2>2 DEF Ahead
<1>8. CASE Wake(c)
  <2>1. streams'[c].step = "woken" /\ clients' = clients
    BY <1>1, <1>8 DEF Wake, Stream
  <2> QED BY <1>1, <1>2, <2>1, AheadStays
<1>9. CASE CheckSession(c)
  <2>1. CASE MayStay(c)
    <3>1. streams'[c].step = "checked" /\ clients' = clients
      BY <1>1, <1>9, <2>1 DEF CheckSession, Goes, Stream
    <3> QED BY <1>1, <1>2, <3>1, AheadStays
  <2>2. CASE ~MayStay(c)
    BY <1>3, <1>9, <2>2 DEF CheckSession
  <2> QED BY <2>1, <2>2
<1>10. CASE Heartbeat(c) \/ ClosesWhenDown(c) \/ Closes(c) \/ ReadFails(c)
  BY <1>3, <1>10 DEF Heartbeat, ClosesWhenDown, Closes, ReadFails
<1>11. CASE WriteFails(c)
  <2>1. /\ streams[c].step \in {"greeting", "telling"} /\ Leave(c)
        /\ clients'[c].has = streams[c].value \/ clients' = clients
    BY <1>1, <1>11 DEF WriteFails, At, Hears, Client
  <2>2. streams'[c].step = "none"
    BY <1>1, <2>1 DEF Leave, NoStream
  <2> QED BY <1>1, <1>2, <2>1, <2>2 DEF Ahead
<1> QED BY <1>4, <1>5, <1>6, <1>7, <1>8, <1>9, <1>10, <1>11 DEF Handler

\* The other streams and browsers do not notice.
LEMMA OthersUnmoved ==
    ASSUME EventsInv, NEW c \in Clients, NEW d \in Clients, d # c,
           \/ SessionEnds(c) \/ Subscribe(c) \/ Handler(c) \/ Heartbeat(c)
           \/ ClosesWhenDown(c) \/ Closes(c) \/ ReadFails(c) \/ WriteFails(c)
    PROVE  streams'[d] = streams[d] /\ clients'[d] = clients[d] /\ revision' = revision
<1>1. clients \in [Clients -> Client] /\ streams \in [Clients -> Stream]
  BY DEF EventsInv, EventsTypeOK
<1>2. CASE SessionEnds(c) \/ Subscribe(c) \/ ReadRevision(c) \/ Wake(c)
  BY <1>1, <1>2 DEF SessionEnds, Subscribe, ReadRevision, Wake
<1>3. CASE Write(c)
  BY <1>1, <1>3 DEF Write, Goes, Hears
<1>4. CASE CheckSession(c) \/ Heartbeat(c) \/ ClosesWhenDown(c) \/ Closes(c) \/ ReadFails(c)
  BY <1>1, <1>4 DEF CheckSession, Heartbeat, ClosesWhenDown, Closes, ReadFails, Goes, Leave
<1>5. CASE WriteFails(c)
  BY <1>1, <1>5 DEF WriteFails, Leave, Hears
<1> QED BY <1>2, <1>3, <1>4, <1>5 DEF Handler

\* Every step keeps every stream ahead of its browser and takes no browser back.
LEMMA AheadKept ==
    EventsInv /\ EventsInv' /\ AllAhead /\ [EventsNext]_eventVars => AllAhead' /\ Forward
<1> SUFFICES ASSUME EventsInv, EventsInv', AllAhead, [EventsNext]_eventVars
             PROVE  AllAhead' /\ Forward
  OBVIOUS
<1>1. CASE UNCHANGED eventVars
  <2>1. \A c \in Clients : clients[c].has \in Int
    BY DEF EventsInv, EventsTypeOK, Client
  <2> QED BY <1>1, <2>1 DEF eventVars, AllAhead, Ahead, Forward
<1>2. CASE Movement \/ SilentChange \/ Broker \/ GoesDeaf \/ ListenFails
  BY <1>2, AheadOfBroker
<1>3. ASSUME NEW c \in Clients,
             \/ SessionEnds(c) \/ Subscribe(c) \/ Handler(c) \/ Heartbeat(c)
             \/ ClosesWhenDown(c) \/ Closes(c) \/ ReadFails(c) \/ WriteFails(c)
      PROVE  AllAhead' /\ Forward
  <2>1. ASSUME NEW d \in Clients
        PROVE  Ahead(d)' /\ clients'[d].has >= clients[d].has
    <3>1. Ahead(d) /\ revision \in Int
      BY DEF AllAhead, EventsInv, EventsTypeOK
    <3>2. CASE d = c
      BY <1>3, <3>1, <3>2, AheadOfStream
    <3>3. CASE d # c
      <4>1. streams'[d] = streams[d] /\ clients'[d] = clients[d] /\ revision' = revision
        BY <1>3, <3>3, OthersUnmoved
      <4> QED BY <3>1, <4>1, AheadStays
    <3> QED BY <3>2, <3>3
  <2> QED BY <2>1 DEF AllAhead, Forward
<1> QED BY <1>1, <1>2, <1>3 DEF EventsNext

\* Streams that fail in the middle of a frame, reconnect with what the browser
\* got (Last-Event-ID) or write what they read before the cards moved on never
\* replace what a browser has by something older.
THEOREM NothingIsUnlearned == EventsSpec => [][Forward]_eventVars
<1>1. EventsInit => AllAhead
  <2> SUFFICES ASSUME EventsInit, NEW c \in Clients PROVE Ahead(c)
    BY DEF AllAhead
  <2>1. clients[c].has = 0 /\ revision = 0 /\ streams[c].step = "none"
    BY DEF EventsInit, NoStream
  <2> QED BY <2>1 DEF Ahead
<1>2. EventsInv /\ EventsInv' /\ AllAhead /\ [EventsNext]_eventVars => AllAhead' /\ [Forward]_eventVars
  BY AheadKept
<1> QED BY <1>1, <1>2, EventsStart, EventsKept, PTL DEF EventsSpec

-----------------------------------------------------------------------------
(* Deliveries: the inductive invariant *)

\* The worker w has not sent i, or has reason to have i sent again.
MaySend(w, i) ==
    /\ i \in workers[w].batch
    /\ ~(workers[w].step = "mark" /\ workers[w].item = i /\ workers[w].result = "ok")
Senders(i) == {w \in Workers : MaySend(w, i)}

\* Nothing that is recorded keeps i from being claimed now, or when its lease ends.
Unclaimed(i) ==
    \/ items[i].status = "PENDING"
    \/ items[i].status = "SENDING" /\ ~(items[i].leased /\ AtWork(i))

\* What keeps duplicates in check: a row that may be claimed for nothing, a worker
\* that may still send it and a message that left are never more than one and the
\* reasons there were to send again.
Balanced ==
    /\ sent \in [Items -> Nat] /\ excused \in [Items -> Nat]
    /\ \A i \in Items :
         /\ IsFiniteSet(Senders(i))
         /\ sent[i] + Cardinality(Senders(i)) + One(Unclaimed(i)) <= 1 + excused[i]

\* Attempts are the claims that were not given back, which only mails are.
AttemptsCounted ==
    \A i \in Items :
        /\ items[i].attempts = items[i].claims - items[i].deferred
        /\ items[i].status = "SENDING" => items[i].attempts >= 1
        /\ ~Mail => items[i].deferred = 0

\* A worker's copy of a row is of a claim of it, and true while the claim lasts.
WorkerSound(w) ==
    /\ workers[w].step = "idle" => workers[w].batch = {}
    /\ workers[w].step \in {"send", "mark"} => workers[w].item \in workers[w].batch
    /\ \A i \in workers[w].batch :
         /\ workers[w].claim[i] <= items[i].claims
         /\ items[i].status = "SENDING" /\ workers[w].claim[i] = items[i].claims
              => workers[w].tries[i] = items[i].attempts
         /\ ~Mail => workers[w].tries[i] = workers[w].claim[i]
WorkersSound == \A w \in Workers : WorkerSound(w)

QueueInv == QueueTypeOK /\ AttemptsCounted /\ WorkersSound /\ Balanced /\ GivenUpForCause

-----------------------------------------------------------------------------
(* Deliveries: what steps do to rows and to a worker's notes *)

\* A row that is released keeps its counts.
LEMMA ReleasedRow ==
    ASSUME QueueTypeOK, NEW i \in Items, NEW s \in {"PENDING", "SENT", "FAILED", "none"}
    PROVE  LET row == Released(i, s) IN
           /\ row \in Item /\ row.status = s /\ ~row.leased
           /\ row.claims = items[i].claims /\ row.attempts = items[i].attempts
           /\ row.deferred = items[i].deferred
<1> items[i] \in Item
  BY DEF QueueTypeOK
<1> QED BY DEF Released, Item

\* The worker is done with i and goes on with the rest of its batch.
LEMMA AfterMoves ==
    ASSUME QueueTypeOK, NEW w \in Workers, NEW i \in Items, After(w, i)
    PROVE  /\ workers' \in [Workers -> Worker]
           /\ \A v \in Workers : v # w => workers'[v] = workers[v]
           /\ workers'[w].batch = workers[w].batch \ {i}
           /\ workers'[w].step \in {"idle", "next"}
           /\ workers'[w].step = "idle" => workers'[w].batch = {}
           /\ \A j \in workers'[w].batch : /\ workers'[w].claim[j] = workers[w].claim[j]
                                           /\ workers'[w].tries[j] = workers[w].tries[j]
<1>1. workers[w] \in Worker /\ workers \in [Workers -> Worker]
  BY DEF QueueTypeOK
<1>2. MaxClaims \in Nat /\ 0 \in 0..MaxClaims /\ 0 \in 0..MaxStamp
  BY LimitsAreNatural DEF MaxClaims
<1>3. CASE workers[w].batch \ {i} = {}
  <2>1. workers' = [workers EXCEPT ![w] = NoWorker]
    BY <1>3 DEF After, Without
  <2>2. NoWorker \in Worker /\ NoWorker.batch = {} /\ NoWorker.step = "idle"
    BY <1>2 DEF NoWorker, Worker
  <2> QED BY <1>1, <1>3, <2>1, <2>2
<1>4. CASE workers[w].batch \ {i} # {}
  <2> DEFINE row == [workers[w] EXCEPT !.step = "next", !.batch = @ \ {i}, !.item = None,
                        !.result = "none", !.claim[i] = 0, !.tries[i] = 0, !.stamp[i] = 0]
  <2>1. workers' = [workers EXCEPT ![w] = row]
    BY <1>4 DEF After, Without
  <2>2. /\ row.claim = [workers[w].claim EXCEPT ![i] = 0]
        /\ row.tries = [workers[w].tries EXCEPT ![i] = 0]
        /\ row.stamp = [workers[w].stamp EXCEPT ![i] = 0]
        /\ row.step = "next" /\ row.batch = workers[w].batch \ {i}
        /\ row \in Worker
    BY <1>1, <1>2 DEF Worker
  <2> HIDE DEF row
  <2>3. workers'[w] = row
    BY <1>1, <1>4, <2>1
  <2>4. \A j \in row.batch : row.claim[j] = workers[w].claim[j] /\ row.tries[j] = workers[w].tries[j]
    BY <1>1, <2>2 DEF Worker
  <2> QED BY <1>1, <2>1, <2>2, <2>3, <2>4
<1> QED BY <1>3, <1>4

\* The worker takes up i.
LEMMA SendingMoves ==
    ASSUME QueueTypeOK, NEW w \in Workers, NEW i \in Items, Sending(w, i)
    PROVE  /\ workers' \in [Workers -> Worker]
           /\ \A v \in Workers : v # w => workers'[v] = workers[v]
           /\ workers'[w].batch = workers[w].batch
           /\ workers'[w].claim = workers[w].claim /\ workers'[w].tries = workers[w].tries
           /\ workers'[w].step = "send" /\ workers'[w].item = i
  BY DEF QueueTypeOK, Sending, Worker

\* Whichever way a queue fences its marks, it is the claim that counts.
LEMMA HeldIsCurrent ==
    ASSUME QueueInv, NEW w \in Workers, NEW i \in workers[w].batch
    PROVE  Held(w, i) <=> items[i].status = "SENDING" /\ workers[w].claim[i] = items[i].claims
<1>1. i \in Items /\ items[i] \in Item
  BY DEF QueueInv, QueueTypeOK, Worker
<1>2. CASE Mail
  BY <1>2 DEF Held
<1>3. CASE ~Mail
  <2>1. items[i].attempts = items[i].claims
    BY <1>1, <1>3 DEF QueueInv, AttemptsCounted, Item
  <2>2. workers[w].tries[i] = workers[w].claim[i]
    BY <1>3 DEF QueueInv, WorkersSound, WorkerSound
  <2> QED BY <1>3, <2>1, <2>2 DEF Held
<1> QED BY <1>2, <1>3

-----------------------------------------------------------------------------
(* Deliveries: what a step may do *)

\* What a row may become other than by being claimed.
RowStep(i) ==
    /\ items'[i] \in Item
    /\ items'[i].claims = items[i].claims
    /\ \/ items'[i].attempts = items[i].attempts /\ items'[i].deferred = items[i].deferred
       \/ /\ Mail /\ items[i].status = "SENDING" /\ items'[i].status = "PENDING"
          /\ items'[i].deferred = items[i].deferred + 1
          /\ items'[i].attempts = items[i].attempts - 1
    /\ items'[i].status = "SENDING" => items[i].status = "SENDING"
    /\ items'[i].leased => items'[i].status = "SENDING"
    /\ subject'[i] = "valid" => subject[i] = "valid"
    /\ items'[i].status = "FAILED" =>
         \/ items[i].status = "FAILED" \/ subject'[i] # "valid"
         \/ items[i].attempts >= MaxAttempts \/ i \in unread'
    /\ i \in unread => i \in unread'

\* What a worker may note down other than by claiming.
WorkerStep(w) ==
    /\ workers'[w].batch \subseteq workers[w].batch
    /\ workers'[w].step = "idle" => workers'[w].batch = {}
    /\ workers'[w].step \in {"send", "mark"} => workers'[w].item \in workers'[w].batch
    /\ \A i \in workers'[w].batch : /\ workers'[w].claim[i] = workers[w].claim[i]
                                    /\ workers'[w].tries[i] = workers[w].tries[i]

OthersWait(w) == \A v \in Workers : v # w => workers'[v] = workers[v]

\* What i gains in messages, in the sender w and in being free to claim is made
\* up for by the excuses it gains.
Fair(w, i) ==
    sent'[i] + One(w \in Senders(i)') + One(Unclaimed(i)') + excused[i]
      <= sent[i] + One(w \in Senders(i)) + One(Unclaimed(i)) + excused'[i]

\* A step that is fair to every row keeps the balance.
LEMMA BalanceKept ==
    ASSUME Balanced, NEW w, OthersWait(w), sent' \in [Items -> Nat], excused' \in [Items -> Nat],
           \A i \in Items : Fair(w, i)
    PROVE  Balanced'
<1> SUFFICES ASSUME NEW i \in Items
             PROVE  /\ IsFiniteSet(Senders(i)')
                    /\ sent'[i] + Cardinality(Senders(i)') + One(Unclaimed(i)') <= 1 + excused'[i]
  BY DEF Balanced
<1>1. \A v : v # w => (v \in Senders(i)' <=> v \in Senders(i))
  BY DEF OthersWait, Senders, MaySend
<1>2. /\ IsFiniteSet(Senders(i))
      /\ sent[i] + Cardinality(Senders(i)) + One(Unclaimed(i)) <= 1 + excused[i]
      /\ sent[i] \in Nat /\ excused[i] \in Nat
  BY DEF Balanced
<1>3. /\ IsFiniteSet(Senders(i)')
      /\ Cardinality(Senders(i)) \in Nat /\ Cardinality(Senders(i)') \in Nat
      /\ Cardinality(Senders(i)') + One(w \in Senders(i))
           = Cardinality(Senders(i)) + One(w \in Senders(i)')
  BY <1>1, <1>2, OneMoreOrLess
<1>4. /\ One(w \in Senders(i)) \in Nat /\ One(w \in Senders(i)') \in Nat
      /\ One(Unclaimed(i)) \in Nat /\ One(Unclaimed(i)') \in Nat
  BY DEF One
<1>5. sent'[i] \in Nat /\ excused'[i] \in Nat /\ Fair(w, i)
  OBVIOUS
<1> HIDE DEF One
<1> QED BY <1>2, <1>3, <1>4, <1>5 DEF Fair

\* Rows and notes that change as they may stay in step.
LEMMA RecordsKept ==
    ASSUME QueueInv, NEW w, OthersWait(w), w \in Workers => WorkerStep(w),
           queue' = queue,
           items' \in [Items -> Item], subject' \in [Items -> {"valid", "void", "expired"}],
           device' \in [Items -> Registration], workers' \in [Workers -> Worker],
           unread' \subseteq Items, lost' \in 0..MaxLost,
           \A i \in Items : RowStep(i)
    PROVE  QueueTypeOK' /\ AttemptsCounted' /\ WorkersSound' /\ GivenUpForCause'
<1>1. QueueTypeOK /\ QueueTypeOK'
  BY DEF QueueInv, QueueTypeOK, RowStep
<1>2. Mail' = Mail
  BY DEF Mail
<1>3. ASSUME NEW i \in Items
      PROVE  /\ items[i].attempts \in Int /\ items[i].claims \in Int /\ items[i].deferred \in Int
             /\ items'[i].attempts \in Int /\ items'[i].claims \in Int /\ items'[i].deferred \in Int
  BY <1>1 DEF QueueTypeOK, Item
<1>4. ASSUME NEW i \in Items
      PROVE  /\ items'[i].attempts = items'[i].claims - items'[i].deferred
             /\ items'[i].status = "SENDING" =>
                  items'[i].attempts >= 1 /\ items'[i].attempts = items[i].attempts
             /\ ~Mail => items'[i].deferred = 0
  BY <1>3 DEF QueueInv, AttemptsCounted, RowStep
<1>5. AttemptsCounted'
  BY <1>2, <1>4 DEF AttemptsCounted
<1>6. ASSUME NEW i \in Items, items'[i].status = "FAILED", subject'[i] = "valid", i \notin unread'
      PROVE  items'[i].claims - items'[i].deferred >= MaxAttempts
  <2>1. items'[i].attempts = items[i].attempts /\ items'[i].deferred = items[i].deferred
    BY <1>6 DEF RowStep
  <2>2. subject[i] = "valid" /\ items'[i].claims = items[i].claims /\ i \notin unread
    BY <1>6 DEF RowStep
  <2>3. items[i].attempts = items[i].claims - items[i].deferred
    BY DEF QueueInv, AttemptsCounted
  <2>4. CASE items[i].status = "FAILED"
    BY <2>1, <2>2, <2>4 DEF QueueInv, GivenUpForCause
  <2>5. CASE items[i].attempts >= MaxAttempts
    BY <2>1, <2>2, <2>3, <2>5
  <2> QED BY <1>6, <2>4, <2>5 DEF RowStep
<1>7. GivenUpForCause'
  BY <1>6 DEF GivenUpForCause
<1>8. ASSUME NEW v \in Workers
      PROVE  WorkerSound(v)'
  <2>1. WorkerSound(v)
    BY DEF QueueInv, WorkersSound
  <2>2. /\ workers'[v].batch \subseteq workers[v].batch
        /\ workers'[v].step = "idle" => workers'[v].batch = {}
        /\ workers'[v].step \in {"send", "mark"} => workers'[v].item \in workers'[v].batch
        /\ \A i \in workers'[v].batch : /\ workers'[v].claim[i] = workers[v].claim[i]
                                        /\ workers'[v].tries[i] = workers[v].tries[i]
    <3>1. CASE v = w
      BY <3>1 DEF WorkerStep
    <3>2. CASE v # w
      BY <2>1, <3>2 DEF OthersWait, WorkerSound
    <3> QED BY <3>1, <3>2
  <2>3. ASSUME NEW i \in workers'[v].batch
        PROVE  /\ workers'[v].claim[i] <= items'[i].claims
               /\ items'[i].status = "SENDING" /\ workers'[v].claim[i] = items'[i].claims
                    => workers'[v].tries[i] = items'[i].attempts
               /\ ~Mail => workers'[v].tries[i] = workers'[v].claim[i]
    <3>1. i \in workers[v].batch /\ i \in Items
      BY <1>1, <2>2 DEF QueueTypeOK, Worker
    <3>2. /\ workers'[v].claim[i] = workers[v].claim[i]
          /\ workers'[v].tries[i] = workers[v].tries[i]
      BY <2>2
    <3>3. /\ items'[i].claims = items[i].claims
          /\ items'[i].status = "SENDING" => /\ items[i].status = "SENDING"
                                             /\ items'[i].attempts = items[i].attempts
      BY <1>4, <3>1 DEF RowStep
    <3> QED BY <2>1, <3>1, <3>2, <3>3 DEF WorkerSound
  <2> QED BY <1>2, <2>2, <2>3 DEF WorkerSound
<1> QED BY <1>1, <1>5, <1>7, <1>8 DEF WorkersSound

\* The two together: a step of one worker, or of none.
LEMMA StepKept ==
    ASSUME QueueInv, NEW w, OthersWait(w), w \in Workers => WorkerStep(w),
           queue' = queue,
           items' \in [Items -> Item], subject' \in [Items -> {"valid", "void", "expired"}],
           device' \in [Items -> Registration], workers' \in [Workers -> Worker],
           unread' \subseteq Items, lost' \in 0..MaxLost,
           sent' \in [Items -> Nat], excused' \in [Items -> Nat],
           \A i \in Items : RowStep(i) /\ Fair(w, i)
    PROVE  QueueInv'
<1>1. Balanced'
  BY BalanceKept DEF QueueInv
<1>2. QueueTypeOK' /\ AttemptsCounted' /\ WorkersSound' /\ GivenUpForCause'
  BY RecordsKept
<1> QED BY <1>1, <1>2 DEF QueueInv

\* A row that nobody touches.
LEMMA RowStays ==
    ASSUME QueueTypeOK, NEW i \in Items, items'[i] = items[i],
           subject'[i] = "valid" => subject[i] = "valid", i \in unread => i \in unread'
    PROVE  RowStep(i)
  BY DEF RowStep, QueueTypeOK

\* A row that is released; what is given up is void, has been tried enough, or
\* its check failed.
LEMMA RowReleased ==
    ASSUME QueueTypeOK, NEW i \in Items, NEW s \in {"PENDING", "SENT", "FAILED", "none"},
           items'[i] = Released(i, s), subject'[i] = "valid" => subject[i] = "valid",
           i \in unread => i \in unread',
           s = "FAILED" => \/ subject'[i] # "valid" \/ items[i].attempts >= MaxAttempts
                           \/ i \in unread'
    PROVE  RowStep(i)
  BY ReleasedRow DEF RowStep

\* A row that stays as it is does not become free to claim while its worker
\* keeps its note of it.
LEMMA NotFreed ==
    ASSUME NEW w, NEW i, OthersWait(w), items'[i] = items[i],
           /\ w \in Workers /\ i \in workers[w].batch
           /\ items[i].status = "SENDING" /\ workers[w].claim[i] = items[i].claims
           => i \in workers'[w].batch /\ workers'[w].claim[i] = workers[w].claim[i]
    PROVE  Unclaimed(i)' => Unclaimed(i)
<1>1. SUFFICES ASSUME items[i].status = "SENDING", AtWork(i)
               PROVE  AtWork(i)'
  BY DEF Unclaimed
<1>2. PICK v \in Workers : i \in workers[v].batch /\ workers[v].claim[i] = items[i].claims
  BY <1>1 DEF AtWork
<1>3. i \in workers'[v].batch /\ workers'[v].claim[i] = items'[i].claims
  BY <1>1, <1>2 DEF OthersWait
<1> QED BY <1>3 DEF AtWork

\* A step that leaves the workers alone.
LEMMA RowsKept ==
    ASSUME QueueInv, UNCHANGED <<queue, workers, sent>>,
           items' \in [Items -> Item], subject' \in [Items -> {"valid", "void", "expired"}],
           device' \in [Items -> Registration], unread' \subseteq Items, lost' \in 0..MaxLost,
           \A i \in Items : RowStep(i),
           excused' \in [Items -> Nat],
           \A i \in Items :
               \/ /\ excused'[i] = excused[i]
                  /\ \/ items'[i] = items[i]
                     \/ items'[i].status \notin {"PENDING", "SENDING"}
                     \/ items[i].status = "SENDING" /\ ~AtWork(i)
               \/ excused'[i] = excused[i] + 1
    PROVE  QueueInv'
<1>1. OthersWait(None) /\ (None \in Workers => WorkerStep(None))
  BY DEF OthersWait, WorkerStep, QueueInv, WorkersSound, WorkerSound
<1>2. ASSUME NEW i \in Items
      PROVE  Fair(None, i)
  <2>1. sent'[i] = sent[i] /\ sent[i] \in Nat /\ excused[i] \in Nat /\ excused'[i] \in Nat
    BY DEF QueueInv, Balanced
  <2>2. One(None \in Senders(i)') = One(None \in Senders(i))
    BY DEF Senders, MaySend
  <2>3. /\ One(None \in Senders(i)) \in Nat
        /\ One(Unclaimed(i)) \in 0..1 /\ One(Unclaimed(i)') \in 0..1
    BY DEF One
  <2>4. CASE excused'[i] = excused[i] + 1
    BY <2>1, <2>2, <2>3, <2>4 DEF Fair
  <2>5. CASE excused'[i] = excused[i]
    <3>1. Unclaimed(i)' => Unclaimed(i)
      <4>1. CASE items'[i] = items[i]
        BY <1>1, <4>1, NotFreed
      <4>2. CASE items'[i].status \notin {"PENDING", "SENDING"}
        BY <4>2 DEF Unclaimed
      <4>3. CASE items[i].status = "SENDING" /\ ~AtWork(i)
        BY <4>3 DEF Unclaimed
      <4> QED BY <2>1, <2>5, <4>1, <4>2, <4>3
    <3>2. One(Unclaimed(i)') <= One(Unclaimed(i))
      BY <3>1 DEF One
    <3> QED BY <2>1, <2>2, <2>3, <2>5, <3>2 DEF Fair
  <2> QED BY <2>4, <2>5
<1>3. workers' \in [Workers -> Worker] /\ sent' \in [Items -> Nat]
  BY DEF QueueInv, QueueTypeOK, Balanced
<1> QED BY <1>1, <1>2, <1>3, StepKept

-----------------------------------------------------------------------------
(* Deliveries: the steps that leave the workers alone *)

\* A mail's subject is void.
LEMMA VoidKept ==
    ASSUME QueueInv, NEW i \in Items, Void(i)
    PROVE  QueueInv'
<1>1. QueueTypeOK /\ UNCHANGED <<queue, device, workers, sent, excused, unread, lost>>
  BY DEF QueueInv, Void
<1>2. subject' \in [Items -> {"valid", "void", "expired"}] /\ subject'[i] = "void"
  BY <1>1 DEF Void, QueueTypeOK
<1>3. \A j \in Items : subject'[j] = "valid" => subject[j] = "valid"
  BY <1>1 DEF Void, QueueTypeOK
<1>4. CASE UNCHANGED items
  BY <1>1, <1>2, <1>3, <1>4, RowStays, RowsKept DEF QueueInv, QueueTypeOK, Balanced
<1>5. CASE items' = [items EXCEPT ![i] = Released(i, "FAILED")]
  <2>1. /\ items' \in [Items -> Item] /\ items'[i] = Released(i, "FAILED")
        /\ items'[i].status = "FAILED" /\ \A j \in Items : j # i => items'[j] = items[j]
    BY <1>1, <1>5, ReleasedRow DEF QueueTypeOK
  <2>2. \A j \in Items : RowStep(j)
    BY <1>1, <1>2, <1>3, <2>1, RowStays, RowReleased
  <2> QED BY <1>1, <1>2, <2>1, <2>2, RowsKept DEF QueueInv, QueueTypeOK, Balanced
<1> QED BY <1>4, <1>5 DEF Void

\* A mail's link or invitation expires.
LEMMA ExpireKept ==
    ASSUME QueueInv, NEW i \in Items, Expire(i)
    PROVE  QueueInv'
<1>1. QueueTypeOK /\ UNCHANGED <<queue, items, device, workers, sent, excused, unread, lost>>
  BY DEF QueueInv, Expire
<1>2. /\ subject' \in [Items -> {"valid", "void", "expired"}]
      /\ \A j \in Items : subject'[j] = "valid" => subject[j] = "valid"
  BY <1>1 DEF Expire, QueueTypeOK
<1> QED BY <1>1, <1>2, RowStays, RowsKept DEF QueueInv, QueueTypeOK, Balanced

\* A device registers again.
LEMMA RegisterKept ==
    ASSUME QueueInv, NEW i \in Items, RegisterAgain(i)
    PROVE  QueueInv'
<1>1. QueueTypeOK /\ UNCHANGED <<queue, items, subject, workers, sent, excused, unread, lost>>
  BY DEF QueueInv, RegisterAgain
<1>2. device' \in [Items -> Registration]
  <2>1. device[i] \in Registration /\ device[i].stamp < MaxStamp /\ MaxStamp \in Nat
    BY <1>1, LimitsAreNatural DEF QueueTypeOK, RegisterAgain
  <2>2. [device[i] EXCEPT !.stamp = @ + 1] \in Registration
    BY <2>1 DEF Registration
  <2>3. device' = [device EXCEPT ![i] = [device[i] EXCEPT !.stamp = @ + 1]]
    BY DEF RegisterAgain
  <2> QED BY <1>1, <2>2, <2>3 DEF QueueTypeOK
<1> QED BY <1>1, <1>2, RowStays, RowsKept DEF QueueInv, QueueTypeOK, Balanced

\* A device changes hands and takes what was queued for it along.
LEMMA MoveDeviceKept ==
    ASSUME QueueInv, NEW i \in Items, NEW owner \in {"other", "none"}, MoveDevice(i, owner)
    PROVE  QueueInv'
<1>1. QueueTypeOK /\ UNCHANGED <<queue, subject, workers, sent, excused, unread, lost>>
  BY DEF QueueInv, MoveDevice
<1>2. device' \in [Items -> Registration]
  BY <1>1 DEF MoveDevice, QueueTypeOK, Registration
<1>3. /\ items' \in [Items -> Item] /\ items'[i] = Released(i, "none")
      /\ items'[i].status = "none" /\ \A j \in Items : j # i => items'[j] = items[j]
  BY <1>1, ReleasedRow DEF MoveDevice, QueueTypeOK
<1>4. \A j \in Items : RowStep(j)
  BY <1>1, <1>3, RowStays, RowReleased
<1> QED BY <1>1, <1>2, <1>3, <1>4, RowsKept DEF QueueInv, QueueTypeOK, Balanced

\* Mails that expired while they waited are given up.
LEMMA FailExpiredKept ==
    ASSUME QueueInv, FailExpired
    PROVE  QueueInv'
<1>1. QueueTypeOK /\ UNCHANGED <<queue, subject, device, workers, sent, excused, unread, lost>>
  BY DEF QueueInv, FailExpired
<1> DEFINE expired == {j \in Items : items[j].status \in {"PENDING", "SENDING"}
                                      /\ subject[j] = "expired"}
<1>2. items' = [j \in Items |-> IF j \in expired THEN Released(j, "FAILED") ELSE items[j]]
  BY DEF FailExpired
<1>3. ASSUME NEW j \in Items
      PROVE  /\ items'[j] \in Item /\ RowStep(j)
             /\ items'[j] = items[j] \/ items'[j].status \notin {"PENDING", "SENDING"}
  <2>1. CASE j \in expired
    <3>1. items'[j] = Released(j, "FAILED") /\ subject'[j] # "valid"
      BY <1>1, <1>2, <2>1
    <3> QED BY <1>1, <3>1, RowReleased, ReleasedRow
  <2>2. CASE j \notin expired
    BY <1>1, <1>2, <2>2, RowStays DEF QueueTypeOK
  <2> QED BY <2>1, <2>2
<1>4. items' \in [Items -> Item]
  BY <1>2, <1>3 DEF QueueTypeOK
<1> QED BY <1>1, <1>3, <1>4, RowsKept DEF QueueInv, QueueTypeOK, Balanced

\* A lease ends: nobody works on the row, or it is an excuse.
LEMMA LeaseEndKept ==
    ASSUME QueueInv, NEW i \in Items, LeaseRunsOut(i) \/ LeaseEndsEarly(i)
    PROVE  QueueInv'
<1>1. /\ QueueTypeOK /\ UNCHANGED <<queue, subject, device, workers, sent, unread>>
      /\ items' = [items EXCEPT ![i].leased = FALSE] /\ items[i].leased
  BY DEF QueueInv, LeaseRunsOut, LeaseEndsEarly
<1>2. lost' \in 0..MaxLost
  BY <1>1, LimitsAreNatural DEF LeaseRunsOut, LeaseEndsEarly, Lose, QueueTypeOK
<1>3. items[i] \in Item /\ items[i].status = "SENDING"
  BY <1>1 DEF QueueTypeOK
<1>4. /\ items'[i] = [items[i] EXCEPT !.leased = FALSE]
      /\ \A j \in Items : j # i => items'[j] = items[j]
  BY <1>1 DEF QueueTypeOK
<1>5. /\ items'[i] \in Item /\ ~items'[i].leased /\ items'[i].status = "SENDING"
      /\ items'[i].claims = items[i].claims /\ items'[i].attempts = items[i].attempts
      /\ items'[i].deferred = items[i].deferred
  BY <1>3, <1>4 DEF Item
<1>6. items' \in [Items -> Item] /\ \A j \in Items : RowStep(j)
  <2>1. RowStep(i)
    BY <1>1, <1>3, <1>5 DEF RowStep
  <2> QED BY <1>1, <1>4, <1>5, <2>1, RowStays DEF QueueTypeOK
<1>7. excused \in [Items -> Nat]
  BY DEF QueueInv, Balanced
<1>8. CASE LeaseRunsOut(i)
  <2>1. ~AtWork(i) /\ excused' = excused
    BY <1>8 DEF LeaseRunsOut
  <2> QED BY <1>1, <1>2, <1>3, <1>4, <1>6, <1>7, <2>1, RowsKept DEF QueueTypeOK
<1>9. CASE LeaseEndsEarly(i)
  <2>1. /\ excused' \in [Items -> Nat] /\ excused'[i] = excused[i] + 1
        /\ \A j \in Items : j # i => excused'[j] = excused[j]
    BY <1>7, <1>9 DEF LeaseEndsEarly, Excuse
  <2> QED BY <1>1, <1>2, <1>4, <1>6, <2>1, RowsKept DEF QueueTypeOK
<1> QED BY <1>8, <1>9

-----------------------------------------------------------------------------
(* Deliveries: the steps of a worker *)

\* A worker is done with i: the row ended, or w had not sent it, or no longer
\* held it, or there is reason to send it again.
LEMMA AfterKept ==
    ASSUME QueueInv, NEW w \in Workers, NEW i \in workers[w].batch, After(w, i),
           workers[w].step = "mark" => workers[w].item = i,
           UNCHANGED <<queue, subject, sent>>,
           device' \in [Items -> Registration], unread' \subseteq Items, lost' \in 0..MaxLost,
           \A j \in Items : j \in unread => j \in unread',
           items' \in [Items -> Item], RowStep(i), excused' \in [Items -> Nat],
           \A j \in Items : j # i => items'[j] = items[j] /\ excused'[j] = excused[j],
           \/ excused'[i] = excused[i] + 1
           \/ /\ excused'[i] = excused[i]
              /\ \/ MaySend(w, i)
                 \/ items'[i].status \notin {"PENDING", "SENDING"}
                 \/ items'[i] = items[i] /\ ~Held(w, i)
    PROVE  QueueInv'
<1>1. QueueTypeOK /\ i \in Items
  BY DEF QueueInv, QueueTypeOK, Worker
<1>2. /\ workers' \in [Workers -> Worker]
      /\ OthersWait(w)
      /\ workers'[w].batch = workers[w].batch \ {i}
      /\ workers'[w].step \in {"idle", "next"}
      /\ workers'[w].step = "idle" => workers'[w].batch = {}
      /\ \A j \in workers'[w].batch : /\ workers'[w].claim[j] = workers[w].claim[j]
                                      /\ workers'[w].tries[j] = workers[w].tries[j]
  BY <1>1, AfterMoves DEF OthersWait
<1>3. WorkerStep(w)
  BY <1>2 DEF WorkerStep
<1>4. sent \in [Items -> Nat] /\ excused \in [Items -> Nat]
  BY DEF QueueInv, Balanced
<1>5. ASSUME NEW j \in Items
      PROVE  /\ sent'[j] = sent[j] /\ sent[j] \in Nat
             /\ excused[j] \in Nat /\ excused'[j] \in Nat
             /\ One(w \in Senders(j)) \in 0..1 /\ One(w \in Senders(j)') \in 0..1
             /\ One(Unclaimed(j)) \in 0..1 /\ One(Unclaimed(j)') \in 0..1
  BY <1>4 DEF One
<1>6. ASSUME NEW j \in Items, j # i
      PROVE  RowStep(j) /\ Fair(w, j)
  <2>1. RowStep(j)
    BY <1>1, <1>6, RowStays
  <2>2. w \in Senders(j)' => w \in Senders(j)
    BY <1>2, <1>6 DEF Senders, MaySend
  <2>3. One(w \in Senders(j)') <= One(w \in Senders(j))
    BY <2>2 DEF One
  <2>4. Unclaimed(j)' => Unclaimed(j)
    BY <1>2, <1>6, NotFreed
  <2>5. One(Unclaimed(j)') <= One(Unclaimed(j))
    BY <2>4 DEF One
  <2>6. excused'[j] = excused[j]
    BY <1>6
  <2> QED BY <1>5, <2>1, <2>3, <2>5, <2>6 DEF Fair
<1>7. w \notin Senders(i)'
  BY <1>2 DEF Senders, MaySend
<1>8. One(w \in Senders(i)') = 0
  BY <1>7 DEF One
<1>9. CASE excused'[i] = excused[i] + 1
  <2>1. Fair(w, i)
    BY <1>1, <1>5, <1>8, <1>9 DEF Fair
  <2> QED BY <1>2, <1>3, <1>4, <1>6, <2>1, StepKept DEF QueueInv, QueueTypeOK
<1>10. CASE excused'[i] = excused[i] /\ MaySend(w, i)
  <2>1. One(w \in Senders(i)) = 1
    BY <1>10 DEF One, Senders
  <2>2. Fair(w, i)
    BY <1>1, <1>5, <1>8, <1>10, <2>1 DEF Fair
  <2> QED BY <1>2, <1>3, <1>4, <1>6, <2>2, StepKept DEF QueueInv, QueueTypeOK
<1>11. CASE /\ excused'[i] = excused[i]
            /\ \/ items'[i].status \notin {"PENDING", "SENDING"}
               \/ items'[i] = items[i] /\ ~Held(w, i)
  <2>1. Unclaimed(i)' => Unclaimed(i)
    <3>1. CASE items'[i].status \notin {"PENDING", "SENDING"}
      BY <3>1 DEF Unclaimed
    <3>2. CASE items'[i] = items[i] /\ ~Held(w, i)
      BY <1>2, <3>2, HeldIsCurrent, NotFreed
    <3> QED BY <1>11, <3>1, <3>2
  <2>2. One(Unclaimed(i)') <= One(Unclaimed(i))
    BY <2>1 DEF One
  <2>3. Fair(w, i)
    BY <1>1, <1>5, <1>8, <1>11, <2>2 DEF Fair
  <2> QED BY <1>2, <1>3, <1>4, <1>6, <2>3, StepKept DEF QueueInv, QueueTypeOK
<1> QED BY <1>9, <1>10, <1>11

\* A worker takes up a row of its batch.
LEMMA SendingKept ==
    ASSUME QueueInv, NEW w \in Workers, NEW i \in workers[w].batch, Sending(w, i),
           workers[w].step = "next",
           UNCHANGED <<queue, items, subject, device, sent, excused, unread, lost>>
    PROVE  QueueInv'
<1>1. QueueTypeOK /\ i \in Items
  BY DEF QueueInv, QueueTypeOK, Worker
<1>2. /\ workers' \in [Workers -> Worker]
      /\ OthersWait(w)
      /\ workers'[w].batch = workers[w].batch
      /\ workers'[w].claim = workers[w].claim /\ workers'[w].tries = workers[w].tries
      /\ workers'[w].step = "send" /\ workers'[w].item = i
  BY <1>1, SendingMoves DEF OthersWait
<1>3. WorkerStep(w)
  BY <1>2 DEF WorkerStep
<1>4. sent \in [Items -> Nat] /\ excused \in [Items -> Nat]
  BY DEF QueueInv, Balanced
<1>5. ASSUME NEW j \in Items
      PROVE  RowStep(j) /\ Fair(w, j)
  <2>1. RowStep(j)
    BY <1>1, RowStays
  <2>2. w \in Senders(j)' <=> w \in Senders(j)
    BY <1>2 DEF Senders, MaySend
  <2>3. Unclaimed(j)' => Unclaimed(j)
    BY <1>2, NotFreed
  <2>4. /\ One(w \in Senders(j)') = One(w \in Senders(j))
        /\ One(Unclaimed(j)') <= One(Unclaimed(j))
        /\ One(w \in Senders(j)) \in 0..1
        /\ One(Unclaimed(j)) \in 0..1 /\ One(Unclaimed(j)') \in 0..1
    BY <2>2, <2>3 DEF One
  <2> QED BY <1>4, <2>1, <2>4 DEF Fair
<1> QED BY <1>1, <1>2, <1>3, <1>4, <1>5, StepKept DEF QueueTypeOK

\* MarkEmail* and the like: the row is released if the worker still holds it.
LEMMA MarkedRow ==
    ASSUME QueueTypeOK, NEW w \in Workers, NEW i \in Items, NEW row \in Item, Mark(w, i, row)
    PROVE  /\ items' \in [Items -> Item]
           /\ \A j \in Items : j # i => items'[j] = items[j]
           /\ Held(w, i) => items'[i] = row
           /\ ~Held(w, i) => items'[i] = items[i]
  BY DEF QueueTypeOK, Mark

\* Before it sends a mail the worker looks once more.
LEMMA CheckMailKept ==
    ASSUME QueueInv, NEW w \in Workers, NEW i \in Items, CheckMail(w, i)
    PROVE  QueueInv'
<1>1. /\ QueueTypeOK /\ i \in workers[w].batch /\ workers[w].step = "next" /\ Mail
      /\ UNCHANGED <<queue, subject, device, sent, excused, unread, lost>>
  BY DEF QueueInv, CheckMail
<1>2. CASE Rejected(w, i)
  <2>1. Mark(w, i, Released(i, "FAILED")) /\ After(w, i)
    BY <1>2 DEF CheckMail
  <2>2. Released(i, "FAILED") \in Item /\ Released(i, "FAILED").status = "FAILED"
    BY <1>1, ReleasedRow
  <2>3. /\ items' \in [Items -> Item]
        /\ \A j \in Items : j # i => items'[j] = items[j]
        /\ Held(w, i) => items'[i] = Released(i, "FAILED")
        /\ ~Held(w, i) => items'[i] = items[i]
    BY <1>1, <2>1, <2>2, MarkedRow
  <2>4. Held(w, i) => subject[i] # "valid"
    BY <1>2 DEF Rejected
  <2>5. RowStep(i)
    BY <1>1, <2>3, <2>4, RowStays, RowReleased
  <2>6. \/ items'[i].status \notin {"PENDING", "SENDING"}
        \/ items'[i] = items[i] /\ ~Held(w, i)
    <3>1. CASE Held(w, i)
      BY <2>2, <2>3, <3>1
    <3>2. CASE ~Held(w, i)
      BY <2>3, <3>2
    <3> QED BY <3>1, <3>2
  <2>7. excused \in [Items -> Nat]
    BY DEF QueueInv, Balanced
  <2> QED BY <1>1, <2>1, <2>3, <2>5, <2>6, <2>7, AfterKept DEF QueueTypeOK
<1>3. CASE ~Rejected(w, i)
  <2>1. Sending(w, i) /\ UNCHANGED items
    BY <1>3 DEF CheckMail
  <2> QED BY <1>1, <2>1, SendingKept
<1> QED BY <1>2, <1>3

\* A mail waits for the delivery budget.
LEMMA DeferKept ==
    ASSUME QueueInv, NEW w \in Workers, NEW i \in Items, DeferEmail(w, i)
    PROVE  QueueInv'
<1>1. /\ QueueTypeOK /\ i \in workers[w].batch /\ workers[w].step = "next" /\ Mail
      /\ Mark(w, i, Deferred(i)) /\ After(w, i) /\ Excuse({i}) /\ items[i].deferred < MaxDefers
      /\ UNCHANGED <<queue, subject, device, sent, unread, lost>>
  BY DEF QueueInv, DeferEmail
<1>2. items[i] \in Item
  BY <1>1 DEF QueueTypeOK
<1>3. Held(w, i) => items[i].status = "SENDING" /\ items[i].attempts >= 1
  BY DEF QueueInv, AttemptsCounted, Held
<1>4. /\ excused' \in [Items -> Nat] /\ excused'[i] = excused[i] + 1
      /\ \A j \in Items : j # i => excused'[j] = excused[j]
  BY <1>1 DEF QueueInv, Balanced, Excuse
<1>5. CASE Held(w, i)
  <2> DEFINE released == Released(i, "PENDING")
  <2>1. /\ released \in Item /\ released.status = "PENDING" /\ ~released.leased
        /\ released.claims = items[i].claims /\ released.attempts = items[i].attempts
        /\ released.deferred = items[i].deferred
    BY <1>1, ReleasedRow
  <2>2. Deferred(i) = [released EXCEPT !.deferred = @ + 1, !.attempts = @ - 1]
    BY DEF Deferred
  <2>3. /\ items[i].attempts \in 1..MaxClaims /\ items[i].deferred \in 0..MaxDefers
        /\ MaxClaims \in Nat /\ MaxDefers \in Nat
    BY <1>2, <1>3, <1>5, LimitsAreNatural DEF Item, MaxClaims
  <2> HIDE DEF released
  <2>4. released.attempts - 1 \in 0..MaxClaims /\ released.deferred + 1 \in 0..MaxDefers
    BY <1>1, <2>1, <2>3
  <2>5. /\ Deferred(i) \in Item /\ Deferred(i).status = "PENDING" /\ ~Deferred(i).leased
        /\ Deferred(i).claims = released.claims
        /\ Deferred(i).attempts = released.attempts - 1
        /\ Deferred(i).deferred = released.deferred + 1
    BY <2>1, <2>2, <2>4 DEF Item
  <2>6. /\ items' \in [Items -> Item] /\ items'[i] = Deferred(i)
        /\ \A j \in Items : j # i => items'[j] = items[j]
    BY <1>1, <1>5, <2>5, MarkedRow
  <2>7. RowStep(i)
    BY <1>1, <1>3, <1>5, <2>1, <2>5, <2>6 DEF RowStep
  <2> QED BY <1>1, <1>4, <2>6, <2>7, AfterKept DEF QueueTypeOK
<1>6. CASE ~Held(w, i)
  <2>1. UNCHANGED items
    BY <1>1, <1>6 DEF Mark
  <2>2. RowStep(i)
    BY <1>1, <2>1, RowStays
  <2> QED BY <1>1, <1>4, <2>1, <2>2, AfterKept DEF QueueTypeOK
<1> QED BY <1>5, <1>6

\* AfterError on a row that the worker still holds: given up after MaxAttempts.
LEMMA ErrorMarked ==
    ASSUME QueueInv, NEW w \in Workers, NEW i \in workers[w].batch, Mark(w, i, AfterError(w, i)),
           UNCHANGED <<subject, unread>>
    PROVE  /\ items' \in [Items -> Item] /\ RowStep(i)
           /\ \A j \in Items : j # i => items'[j] = items[j]
<1>1. QueueTypeOK /\ i \in Items
  BY DEF QueueInv, QueueTypeOK, Worker
<1>2. PICK s \in {"PENDING", "FAILED"} :
         /\ AfterError(w, i) = Released(i, s)
         /\ s = "FAILED" => workers[w].tries[i] >= MaxAttempts
  BY DEF AfterError
<1>3. AfterError(w, i) \in Item
  BY <1>1, <1>2, ReleasedRow
<1>4. /\ items' \in [Items -> Item]
      /\ \A j \in Items : j # i => items'[j] = items[j]
      /\ Held(w, i) => items'[i] = Released(i, s)
      /\ ~Held(w, i) => items'[i] = items[i]
  BY <1>1, <1>2, <1>3, MarkedRow
<1>5. CASE Held(w, i)
  <2>1. workers[w].tries[i] = items[i].attempts
    BY <1>5, HeldIsCurrent DEF QueueInv, WorkersSound, WorkerSound
  <2> QED BY <1>1, <1>2, <1>4, <1>5, <2>1, RowReleased
<1>6. CASE ~Held(w, i)
  BY <1>1, <1>4, <1>6, RowStays
<1> QED BY <1>4, <1>5, <1>6

\* The check fails: the mail is given up and noted as unread, or nothing is
\* written.
LEMMA CheckFailsKept ==
    ASSUME QueueInv, NEW w \in Workers, NEW i \in Items, CheckFails(w, i)
    PROVE  QueueInv'
<1>1. /\ QueueTypeOK /\ i \in workers[w].batch /\ workers[w].step = "next"
      /\ After(w, i) /\ Lose /\ UNCHANGED <<queue, subject, device, sent, excused>>
  BY DEF QueueInv, CheckFails
<1>2. lost' \in 0..MaxLost /\ MaySend(w, i) /\ excused \in [Items -> Nat]
  BY <1>1, LimitsAreNatural DEF Lose, QueueInv, QueueTypeOK, Balanced, MaySend
<1>3. CASE /\ Mark(w, i, Released(i, "FAILED"))
           /\ unread' = IF Held(w, i) THEN unread \cup {i} ELSE unread
  <2>1. Released(i, "FAILED") \in Item
    BY <1>1, ReleasedRow
  <2>2. /\ items' \in [Items -> Item]
        /\ \A j \in Items : j # i => items'[j] = items[j]
        /\ Held(w, i) => items'[i] = Released(i, "FAILED") /\ i \in unread'
        /\ ~Held(w, i) => items'[i] = items[i]
    BY <1>1, <1>3, <2>1, MarkedRow
  <2>3. unread' \subseteq Items /\ \A j \in Items : j \in unread => j \in unread'
    BY <1>1, <1>3 DEF QueueTypeOK
  <2>4. RowStep(i)
    BY <1>1, <2>2, <2>3, RowStays, RowReleased
  <2> QED BY <1>1, <1>2, <2>2, <2>3, <2>4, AfterKept DEF QueueTypeOK
<1>4. CASE UNCHANGED <<items, unread>>
  <2>1. RowStep(i)
    BY <1>1, <1>4, RowStays
  <2> QED BY <1>1, <1>2, <1>4, <2>1, AfterKept DEF QueueTypeOK
<1> QED BY <1>3, <1>4 DEF CheckFails

\* The link's lookup fails: an attempt like one that was sent in vain.
LEMMA LookupFailsKept ==
    ASSUME QueueInv, NEW w \in Workers, NEW i \in Items, LookupFails(w, i)
    PROVE  QueueInv'
<1>1. /\ QueueTypeOK /\ i \in workers[w].batch /\ workers[w].step = "next"
      /\ After(w, i) /\ Lose /\ Mark(w, i, AfterError(w, i))
      /\ UNCHANGED <<queue, subject, device, sent, excused, unread>>
  BY DEF QueueInv, LookupFails
<1>2. lost' \in 0..MaxLost /\ MaySend(w, i) /\ excused \in [Items -> Nat]
  BY <1>1, LimitsAreNatural DEF Lose, QueueInv, QueueTypeOK, Balanced, MaySend
<1>3. /\ items' \in [Items -> Item] /\ RowStep(i)
      /\ \A j \in Items : j # i => items'[j] = items[j]
  BY <1>1, ErrorMarked
<1> QED BY <1>1, <1>2, <1>3, AfterKept DEF QueueTypeOK

\* A push is sent, or a browser no longer wants it.
LEMMA CheckPushKept ==
    ASSUME QueueInv, NEW w \in Workers, NEW i \in Items, CheckPush(w, i)
    PROVE  QueueInv'
<1>1. /\ QueueTypeOK /\ i \in workers[w].batch /\ workers[w].step = "next"
      /\ UNCHANGED <<queue, items, subject, device, sent, excused, unread, lost>>
  BY DEF QueueInv, CheckPush
<1>2. CASE Sending(w, i)
  BY <1>1, <1>2, SendingKept
<1>3. CASE After(w, i)
  <2>1. MaySend(w, i)
    BY <1>1 DEF MaySend
  <2>2. RowStep(i) /\ excused \in [Items -> Nat]
    BY <1>1, RowStays DEF QueueInv, Balanced
  <2> QED BY <1>1, <1>3, <2>1, <2>2, AfterKept DEF QueueTypeOK
<1> QED BY <1>2, <1>3 DEF CheckPush

\* A message leaves, or not, and the answer comes, or not.
LEMMA SendKept ==
    ASSUME QueueInv, NEW w \in Workers, Send(w)
    PROVE  QueueInv'
<1>i. PICK i \in Items : i = workers[w].item /\ i \in workers[w].batch
  <2>1. workers[w].step \in {"send", "mark"}
    BY DEF Send, Finish, FinishFails
  <2>2. workers[w].item \in workers[w].batch
    BY <2>1 DEF QueueInv, WorkersSound, WorkerSound
  <2>3. workers[w].batch \subseteq Items
    BY DEF QueueInv, QueueTypeOK, Worker
  <2> QED BY <2>2, <2>3
<1>1. QueueTypeOK /\ UNCHANGED <<queue, items, subject, device, unread, lost>> /\ workers[w].step = "send"
  BY DEF QueueInv, Send
<1>2. i \in workers[w].batch /\ i \in Items
  BY <1>i
<1>3. PICK result \in {"ok", "error", "gone"}, arrives \in BOOLEAN :
         /\ result = "ok" => arrives
         /\ result = "gone" => ~Mail /\ ~arrives
         /\ workers' = [workers EXCEPT ![w].step = "mark", ![w].result = result]
         /\ sent' = IF arrives THEN [sent EXCEPT ![i] = @ + 1] ELSE sent
         /\ Excuse(IF result = "error" THEN {i} ELSE {})
  BY <1>i DEF Send
<1>4. /\ workers' \in [Workers -> Worker]
      /\ \A v \in Workers : v # w => workers'[v] = workers[v]
      /\ workers'[w].batch = workers[w].batch
      /\ workers'[w].claim = workers[w].claim /\ workers'[w].tries = workers[w].tries
      /\ workers'[w].step = "mark" /\ workers'[w].item = i /\ workers'[w].result = result
  BY <1>1, <1>3, <1>i DEF QueueTypeOK, Worker
<1>5. sent \in [Items -> Nat] /\ excused \in [Items -> Nat]
  BY DEF QueueInv, Balanced
<1>6. /\ sent' \in [Items -> Nat] /\ excused' \in [Items -> Nat]
      /\ sent'[i] = sent[i] + One(arrives)
      /\ excused'[i] = excused[i] + One(result = "error")
      /\ \A j \in Items : j # i => sent'[j] = sent[j] /\ excused'[j] = excused[j]
  BY <1>2, <1>3, <1>5 DEF Excuse, One
<1>7. OthersWait(w) /\ WorkerStep(w)
  BY <1>2, <1>4 DEF OthersWait, WorkerStep
<1>8. ASSUME NEW j \in Items
      PROVE  /\ One(Unclaimed(j)') <= One(Unclaimed(j))
             /\ One(Unclaimed(j)) \in 0..1 /\ One(Unclaimed(j)') \in 0..1
             /\ One(w \in Senders(j)) \in 0..1 /\ One(w \in Senders(j)') \in 0..1
             /\ sent[j] \in Nat /\ excused[j] \in Nat
  <2>1. Unclaimed(j)' => Unclaimed(j)
    BY <1>1, <1>4, <1>7, NotFreed
  <2> QED BY <1>5, <2>1 DEF One
<1>9. ASSUME NEW j \in Items, j # i
      PROVE  Fair(w, j)
  <2>1. w \in Senders(j)' => w \in Senders(j)
    BY <1>1, <1>4, <1>9 DEF Senders, MaySend
  <2>2. One(w \in Senders(j)') <= One(w \in Senders(j))
    BY <2>1 DEF One
  <2> QED BY <1>6, <1>8, <1>9, <2>2 DEF Fair
<1>10. One(w \in Senders(i)) = 1
  BY <1>1, <1>2 DEF Senders, MaySend, One
<1>11. Fair(w, i)
  <2>1. CASE result = "ok"
    <3>1. One(w \in Senders(i)') = 0 /\ One(arrives) = 1 /\ One(result = "error") = 0
      BY <1>3, <1>4, <2>1 DEF Senders, MaySend, One
    <3> QED BY <1>2, <1>6, <1>8, <1>10, <3>1 DEF Fair
  <2>2. CASE result = "error"
    <3>1. One(arrives) \in 0..1 /\ One(result = "error") = 1
      BY <2>2 DEF One
    <3> QED BY <1>2, <1>6, <1>8, <1>10, <3>1 DEF Fair
  <2>3. CASE result = "gone"
    <3>1. One(arrives) = 0 /\ One(result = "error") = 0
      BY <1>3, <2>3 DEF One
    <3> QED BY <1>2, <1>6, <1>8, <1>10, <3>1 DEF Fair
  <2> QED BY <2>1, <2>2, <2>3
<1>12. \A j \in Items : RowStep(j)
  BY <1>1, RowStays
<1> QED BY <1>1, <1>4, <1>6, <1>7, <1>9, <1>11, <1>12, StepKept DEF QueueTypeOK

\* The answer is written down, if it is still the worker's to write.
LEMMA FinishKept ==
    ASSUME QueueInv, NEW w \in Workers, Finish(w)
    PROVE  QueueInv'
<1>i. PICK i \in Items : i = workers[w].item /\ i \in workers[w].batch
  <2>1. workers[w].step \in {"send", "mark"}
    BY DEF Send, Finish, FinishFails
  <2>2. workers[w].item \in workers[w].batch
    BY <2>1 DEF QueueInv, WorkersSound, WorkerSound
  <2>3. workers[w].batch \subseteq Items
    BY DEF QueueInv, QueueTypeOK, Worker
  <2> QED BY <2>2, <2>3
<1>1. /\ QueueTypeOK /\ UNCHANGED <<queue, subject, sent, excused, unread, lost>>
      /\ workers[w].step = "mark" /\ After(w, i)
  BY <1>i DEF QueueInv, Finish
<1>2. i \in workers[w].batch /\ i \in Items /\ workers[w].result \in {"none", "ok", "error", "gone"}
  BY <1>i DEF QueueInv, QueueTypeOK, Worker
<1>3. excused \in [Items -> Nat]
  BY DEF QueueInv, Balanced
<1>4. CASE workers[w].result = "ok"
  <2>1. Mark(w, i, Released(i, "SENT")) /\ UNCHANGED device
    BY <1>4, <1>i DEF Finish
  <2>2. Released(i, "SENT") \in Item /\ Released(i, "SENT").status = "SENT"
    BY <1>1, <1>2, ReleasedRow
  <2>3. /\ items' \in [Items -> Item]
        /\ \A j \in Items : j # i => items'[j] = items[j]
        /\ Held(w, i) => items'[i] = Released(i, "SENT")
        /\ ~Held(w, i) => items'[i] = items[i]
    BY <1>1, <1>2, <2>1, <2>2, MarkedRow
  <2>4. RowStep(i)
    BY <1>1, <1>2, <2>3, RowStays, RowReleased
  <2>5. \/ items'[i].status \notin {"PENDING", "SENDING"}
        \/ items'[i] = items[i] /\ ~Held(w, i)
    <3>1. CASE Held(w, i)
      BY <2>2, <2>3, <3>1
    <3>2. CASE ~Held(w, i)
      BY <2>3, <3>2
    <3> QED BY <3>1, <3>2
  <2> QED BY <1>1, <1>2, <1>3, <2>1, <2>3, <2>4, <2>5, <1>i, AfterKept DEF QueueTypeOK
<1>5. CASE workers[w].result # "ok"
  <2>1. MaySend(w, i)
    BY <1>2, <1>5 DEF MaySend
  <2>2. CASE workers[w].result = "error"
    <3>1. Mark(w, i, AfterError(w, i)) /\ UNCHANGED device
      BY <2>2, <1>i DEF Finish
    <3>2. /\ items' \in [Items -> Item] /\ RowStep(i)
          /\ \A j \in Items : j # i => items'[j] = items[j]
      BY <1>1, <1>2, <3>1, ErrorMarked
    <3> QED BY <1>1, <1>2, <1>3, <2>1, <3>1, <3>2, <1>i, AfterKept DEF QueueTypeOK
  <2>3. CASE workers[w].result # "error"
    <3>1. IF SameRegistration(w, i)
          THEN /\ device' = [device EXCEPT ![i].owner = "none"]
               /\ items' = [items EXCEPT ![i] = Released(i, "none")]
          ELSE UNCHANGED <<device, items>>
      BY <1>5, <2>3, <1>i DEF Finish
    <3>2. /\ items' \in [Items -> Item] /\ device' \in [Items -> Registration]
          /\ \A j \in Items : j # i => items'[j] = items[j]
          /\ items'[i] = items[i] \/ items'[i] = Released(i, "none")
      <4>1. Released(i, "none") \in Item
        BY <1>1, <1>2, ReleasedRow
      <4>2. [device[i] EXCEPT !.owner = "none"] \in Registration
        BY <1>1, <1>2 DEF QueueTypeOK, Registration
      <4>3. CASE SameRegistration(w, i)
        BY <1>1, <1>2, <3>1, <4>1, <4>2, <4>3 DEF QueueTypeOK
      <4>4. CASE ~SameRegistration(w, i)
        BY <1>1, <3>1, <4>4 DEF QueueTypeOK
      <4> QED BY <4>3, <4>4
    <3>3. RowStep(i)
      BY <1>1, <1>2, <3>2, RowStays, RowReleased
    <3> QED BY <1>1, <1>2, <1>3, <2>1, <3>2, <3>3, <1>i, AfterKept DEF QueueTypeOK
  <2> QED BY <2>2, <2>3
<1> QED BY <1>4, <1>5

\* The answer is lost: the row waits for its lease to end.
LEMMA FinishFailsKept ==
    ASSUME QueueInv, NEW w \in Workers, FinishFails(w)
    PROVE  QueueInv'
<1>i. PICK i \in Items : i = workers[w].item /\ i \in workers[w].batch
  <2>1. workers[w].step \in {"send", "mark"}
    BY DEF Send, Finish, FinishFails
  <2>2. workers[w].item \in workers[w].batch
    BY <2>1 DEF QueueInv, WorkersSound, WorkerSound
  <2>3. workers[w].batch \subseteq Items
    BY DEF QueueInv, QueueTypeOK, Worker
  <2> QED BY <2>2, <2>3
<1>1. /\ QueueTypeOK /\ UNCHANGED <<queue, items, subject, device, sent, unread>>
      /\ workers[w].step = "mark" /\ After(w, i) /\ Lose /\ Excuse({i})
  BY <1>i DEF QueueInv, FinishFails
<1>2. i \in workers[w].batch /\ i \in Items
  BY <1>i
<1>3. /\ excused' \in [Items -> Nat] /\ excused'[i] = excused[i] + 1
      /\ \A j \in Items : j # i => excused'[j] = excused[j]
  BY <1>1, <1>2 DEF QueueInv, Balanced, Excuse
<1>4. lost' \in 0..MaxLost
  BY <1>1, LimitsAreNatural DEF Lose, QueueTypeOK
<1>5. RowStep(i)
  BY <1>1, <1>2, RowStays
<1> QED BY <1>1, <1>2, <1>3, <1>4, <1>5, <1>i, AfterKept DEF QueueTypeOK

\* A worker stops with a batch at hand.
LEMMA CrashKept ==
    ASSUME QueueInv, NEW w \in Workers, Crash(w)
    PROVE  QueueInv'
<1>1. /\ QueueTypeOK /\ UNCHANGED <<queue, items, subject, device, sent, unread>>
      /\ Lose /\ Excuse(workers[w].batch) /\ workers' = [workers EXCEPT ![w] = NoWorker]
  BY DEF QueueInv, Crash
<1>2. lost' \in 0..MaxLost
  BY <1>1, LimitsAreNatural DEF Lose, QueueTypeOK
<1>3. NoWorker \in Worker /\ NoWorker.batch = {} /\ NoWorker.step = "idle"
  BY LimitsAreNatural DEF NoWorker, Worker, MaxClaims
<1>4. /\ workers' \in [Workers -> Worker] /\ workers'[w] = NoWorker
      /\ OthersWait(w) /\ WorkerStep(w)
  BY <1>1, <1>3 DEF QueueTypeOK, OthersWait, WorkerStep
<1>5. sent \in [Items -> Nat] /\ excused \in [Items -> Nat]
  BY DEF QueueInv, Balanced
<1>6. /\ excused' \in [Items -> Nat]
      /\ \A j \in Items :
           excused'[j] = IF j \in workers[w].batch THEN excused[j] + 1 ELSE excused[j]
  BY <1>1, <1>5 DEF Excuse
<1>7. ASSUME NEW j \in Items
      PROVE  RowStep(j) /\ Fair(w, j)
  <2>1. RowStep(j)
    BY <1>1, RowStays
  <2>2. One(w \in Senders(j)') = 0
    BY <1>3, <1>4 DEF Senders, MaySend, One
  <2>3. /\ One(w \in Senders(j)) \in 0..1
        /\ One(Unclaimed(j)) \in 0..1 /\ One(Unclaimed(j)') \in 0..1
    BY DEF One
  <2>4. CASE j \in workers[w].batch
    BY <1>1, <1>5, <1>6, <2>1, <2>2, <2>3, <2>4 DEF Fair
  <2>5. CASE j \notin workers[w].batch
    <3>1. Unclaimed(j)' => Unclaimed(j)
      BY <1>1, <1>4, <2>5, NotFreed
    <3>2. One(Unclaimed(j)') <= One(Unclaimed(j))
      BY <3>1 DEF One
    <3> QED BY <1>1, <1>5, <1>6, <2>1, <2>2, <2>3, <2>5, <3>2 DEF Fair
  <2> QED BY <2>4, <2>5
<1> QED BY <1>1, <1>2, <1>4, <1>5, <1>6, <1>7, StepKept DEF QueueTypeOK

\* A worker claims a batch of rows that were free, with a fresh note of each.
LEMMA ClaimKept ==
    ASSUME QueueInv, NEW w \in Workers, Claim(w)
    PROVE  QueueInv'
<1>1. /\ QueueTypeOK /\ UNCHANGED <<queue, subject, device, sent, excused, unread, lost>>
      /\ workers[w].step = "idle" /\ workers[w].batch = {}
  BY DEF QueueInv, Claim, WorkersSound, WorkerSound
<1>2. PICK batch \in SUBSET {i \in Items : Claimable(i)} :
         /\ batch # {} /\ \A i \in batch : items[i].claims < MaxClaims
         /\ items' = [i \in Items |-> IF i \in batch THEN Claimed(i) ELSE items[i]]
         /\ workers' = [workers EXCEPT ![w] =
                [NoWorker EXCEPT !.step = "next", !.batch = batch,
                    !.claim = [i \in Items |-> IF i \in batch THEN Job(i).claim ELSE 0],
                    !.tries = [i \in Items |-> IF i \in batch THEN Job(i).tries ELSE 0],
                    !.stamp = [i \in Items |-> IF i \in batch THEN Job(i).stamp ELSE 0]]]
  BY DEF Claim
<1>3. batch \subseteq Items
  OBVIOUS
<1>4. MaxClaims \in Nat /\ MaxDefers \in Nat /\ MaxStamp \in Nat
  BY LimitsAreNatural DEF MaxClaims
<1>5. ASSUME NEW i \in Items
      PROVE  /\ items[i].claims \in 0..MaxClaims /\ items[i].attempts \in 0..MaxClaims
             /\ items[i].deferred \in 0..MaxDefers /\ items[i].attempts <= items[i].claims
             /\ items[i].attempts = items[i].claims - items[i].deferred
             /\ device[i].stamp \in 0..MaxStamp
  BY <1>1 DEF QueueInv, QueueTypeOK, Item, Registration, AttemptsCounted
<1>6. ASSUME NEW i \in batch
      PROVE  /\ items'[i] \in Item
             /\ items'[i].status = "SENDING" /\ items'[i].leased
             /\ items'[i].claims = items[i].claims + 1
             /\ items'[i].attempts = items[i].attempts + 1
             /\ items'[i].deferred = items[i].deferred
  <2>1. items'[i] = Claimed(i) /\ items[i] \in Item /\ items[i].claims < MaxClaims
    BY <1>1, <1>2, <1>3 DEF QueueTypeOK
  <2>2. items[i].claims + 1 \in 0..MaxClaims /\ items[i].attempts + 1 \in 0..MaxClaims
    BY <1>3, <1>4, <1>5, <2>1
  <2> QED BY <2>1, <2>2 DEF Claimed, Item
<1>7. \A i \in Items : i \notin batch => items'[i] = items[i]
  BY <1>2
<1>8. items' \in [Items -> Item]
  BY <1>1, <1>2, <1>6, <1>7 DEF QueueTypeOK
<1> DEFINE claim == [i \in Items |-> IF i \in batch THEN Job(i).claim ELSE 0]
           tries == [i \in Items |-> IF i \in batch THEN Job(i).tries ELSE 0]
           stamp == [i \in Items |-> IF i \in batch THEN Job(i).stamp ELSE 0]
<1>9. /\ claim \in [Items -> 0..MaxClaims] /\ tries \in [Items -> 0..MaxClaims]
      /\ stamp \in [Items -> 0..MaxStamp]
      /\ \A i \in batch : claim[i] = items[i].claims + 1 /\ tries[i] = items[i].attempts + 1
  <2>1. ASSUME NEW i \in batch
        PROVE  /\ Job(i).claim = items[i].claims + 1 /\ Job(i).tries = items[i].attempts + 1
               /\ Job(i).stamp = device[i].stamp
               /\ Job(i).claim \in 0..MaxClaims /\ Job(i).tries \in 0..MaxClaims
               /\ Job(i).stamp \in 0..MaxStamp
    BY <1>2, <1>3, <1>4, <1>5 DEF Job
  <2> QED BY <1>3, <1>4, <2>1
<1>10. /\ workers' \in [Workers -> Worker]
       /\ \A v \in Workers : v # w => workers'[v] = workers[v]
       /\ workers'[w].step = "next" /\ workers'[w].batch = batch
       /\ \A i \in batch : /\ workers'[w].claim[i] = items'[i].claims
                           /\ workers'[w].tries[i] = items'[i].attempts
  <2> DEFINE row == [NoWorker EXCEPT !.step = "next", !.batch = batch, !.claim = claim,
                        !.tries = tries, !.stamp = stamp]
  <2>1. workers' = [workers EXCEPT ![w] = row]
    BY <1>2
  <2> HIDE DEF claim, tries, stamp
  <2>3. /\ row \in Worker /\ row.step = "next" /\ row.batch = batch
        /\ row.claim = claim /\ row.tries = tries
    BY <1>3, <1>9 DEF NoWorker, Worker
  <2> HIDE DEF row
  <2>4. workers'[w] = row /\ workers' \in [Workers -> Worker]
    BY <1>1, <2>1, <2>3 DEF QueueTypeOK
  <2> QED BY <1>1, <1>6, <1>9, <2>1, <2>3, <2>4 DEF QueueTypeOK
<1> HIDE DEF claim, tries, stamp
<1>11. Mail' = Mail
  BY <1>1 DEF Mail
<1>12. QueueTypeOK'
  BY <1>1, <1>6, <1>7, <1>8, <1>10 DEF QueueTypeOK
<1>13. AttemptsCounted'
  <2> SUFFICES ASSUME NEW i \in Items
               PROVE  /\ items'[i].attempts = items'[i].claims - items'[i].deferred
                      /\ items'[i].status = "SENDING" => items'[i].attempts >= 1
                      /\ ~Mail => items'[i].deferred = 0
    BY <1>11 DEF AttemptsCounted
  <2>1. CASE i \in batch
    <3>1. ~Mail => items[i].deferred = 0
      BY DEF QueueInv, AttemptsCounted
    <3> QED BY <1>5, <1>6, <2>1, <3>1
  <2>2. CASE i \notin batch
    BY <1>7, <2>2 DEF QueueInv, AttemptsCounted
  <2> QED BY <2>1, <2>2
<1>14. GivenUpForCause'
  <2> SUFFICES ASSUME NEW i \in Items, items'[i].status = "FAILED", subject'[i] = "valid",
                      i \notin unread'
               PROVE  items'[i].claims - items'[i].deferred >= MaxAttempts
    BY DEF GivenUpForCause
  <2>1. i \notin batch
    BY <1>6
  <2> QED BY <1>1, <1>7, <2>1 DEF QueueInv, GivenUpForCause
<1>15. ASSUME NEW v \in Workers
       PROVE  WorkerSound(v)'
  <2>1. CASE v = w
    <3>1. ~Mail => \A i \in batch : items'[i].attempts = items'[i].claims
      <4>1. ASSUME ~Mail, NEW i \in batch
            PROVE  items'[i].attempts = items'[i].claims
        <5>1. items[i].deferred = 0 /\ i \in Items
          BY <1>3, <4>1 DEF QueueInv, AttemptsCounted
        <5> QED BY <1>5, <1>6, <5>1
      <4> QED BY <4>1
    <3>2. \A i \in batch : items'[i].claims \in Int
      BY <1>6 DEF Item
    <3> QED BY <1>10, <1>11, <2>1, <3>1, <3>2 DEF WorkerSound
  <2>2. CASE v # w
    <3>1. WorkerSound(v) /\ workers'[v] = workers[v]
      BY <1>10, <2>2 DEF QueueInv, WorkersSound
    <3>2. ASSUME NEW i \in workers[v].batch
          PROVE  /\ workers[v].claim[i] <= items'[i].claims
                 /\ items'[i].status = "SENDING" /\ workers[v].claim[i] = items'[i].claims
                      => workers[v].tries[i] = items'[i].attempts
                 /\ ~Mail => workers[v].tries[i] = workers[v].claim[i]
      <4>1. i \in Items /\ workers[v].claim[i] \in 0..MaxClaims
        BY <1>1 DEF QueueTypeOK, Worker
      <4>2. workers[v].claim[i] <= items[i].claims
        BY <3>1 DEF WorkerSound
      <4>3. CASE i \in batch
        BY <1>5, <1>6, <3>1, <4>1, <4>2, <4>3 DEF WorkerSound
      <4>4. CASE i \notin batch
        BY <1>7, <3>1, <4>1, <4>4 DEF WorkerSound
      <4> QED BY <4>3, <4>4
    <3> QED BY <1>11, <3>1, <3>2 DEF WorkerSound
  <2> QED BY <2>1, <2>2
<1>16. ASSUME NEW i \in Items
       PROVE  Fair(w, i)
  <2>1. /\ sent'[i] = sent[i] /\ sent[i] \in Nat /\ excused'[i] = excused[i] /\ excused[i] \in Nat
    BY <1>1 DEF QueueInv, Balanced
  <2>2. One(w \in Senders(i)) = 0
    BY <1>1 DEF Senders, MaySend, One
  <2>3. CASE i \in batch
    <3>1. Claimable(i) /\ Unclaimed(i)
      BY <2>3 DEF Claimable, Unclaimed
    <3>2. AtWork(i)' /\ ~Unclaimed(i)'
      BY <1>6, <1>10, <2>3 DEF AtWork, Unclaimed
    <3>3. One(Unclaimed(i)) = 1 /\ One(Unclaimed(i)') = 0 /\ One(w \in Senders(i)') \in 0..1
      BY <3>1, <3>2 DEF One
    <3> QED BY <2>1, <2>2, <3>3 DEF Fair
  <2>4. CASE i \notin batch
    <3>1. One(w \in Senders(i)') = 0
      BY <1>10, <2>4 DEF Senders, MaySend, One
    <3>2. Unclaimed(i)' => Unclaimed(i)
      BY <1>1, <1>7, <1>10, <2>4, NotFreed DEF OthersWait
    <3>3. /\ One(Unclaimed(i)') <= One(Unclaimed(i))
          /\ One(Unclaimed(i)) \in 0..1 /\ One(Unclaimed(i)') \in 0..1
      BY <3>2 DEF One
    <3> QED BY <2>1, <2>2, <3>1, <3>3 DEF Fair
  <2> QED BY <2>3, <2>4
<1>17. Balanced'
  BY <1>1, <1>10, <1>16, BalanceKept DEF QueueInv, Balanced, OthersWait
<1> QED BY <1>12, <1>13, <1>14, <1>15, <1>17 DEF QueueInv, WorkersSound

-----------------------------------------------------------------------------
(* Deliveries: the theorems *)

\* Nobody has claimed anything yet.
LEMMA QueueStarts == QueueInit => QueueInv
<1> SUFFICES ASSUME QueueInit PROVE QueueInv
  OBVIOUS
<1>1. 0 \in 0..MaxClaims /\ 0 \in 0..MaxDefers /\ 0 \in 0..MaxStamp /\ 0 \in 0..MaxLost
  BY LimitsAreNatural DEF MaxClaims
<1>2. NoWorker \in Worker /\ NoWorker.batch = {} /\ NoWorker.step = "idle"
  BY <1>1 DEF NoWorker, Worker
<1>3. QueueTypeOK
  BY <1>1, <1>2 DEF QueueInit, QueueTypeOK, Item, Registration
<1>4. AttemptsCounted
  BY DEF QueueInit, AttemptsCounted
<1>5. \A w \in Workers : workers[w] = NoWorker
  BY DEF QueueInit
<1>6. WorkersSound
  BY <1>2, <1>5 DEF WorkersSound, WorkerSound
<1>7. ASSUME NEW i \in Items
      PROVE  /\ IsFiniteSet(Senders(i)) /\ Cardinality(Senders(i)) = 0
  <2>1. Senders(i) = {}
    BY <1>2, <1>5 DEF Senders, MaySend
  <2> QED BY <2>1, FS_EmptySet
<1>8. Balanced
  BY <1>7 DEF QueueInit, Balanced, One
<1>9. GivenUpForCause
  BY DEF QueueInit, GivenUpForCause
<1> QED BY <1>3, <1>4, <1>6, <1>8, <1>9 DEF QueueInv

\* Every step keeps the invariant.
LEMMA QueueKept == QueueInv /\ [QueueNext]_queueVars => QueueInv'
<1> SUFFICES ASSUME QueueInv, [QueueNext]_queueVars PROVE QueueInv'
  OBVIOUS
<1>1. CASE UNCHANGED queueVars
  <2>1. UNCHANGED <<queue, items, subject, device, workers, sent, excused, unread, lost>>
    BY <1>1 DEF queueVars
  <2>2. ASSUME NEW i \in Items
        PROVE  RowStep(i)
    BY <2>1, RowStays DEF QueueInv
  <2> QED BY <2>1, <2>2, RowsKept DEF QueueInv, QueueTypeOK, Balanced
<1>2. ASSUME NEW i \in Items,
             \/ Void(i) \/ Expire(i) \/ RegisterAgain(i) \/ MoveDevice(i, "other")
             \/ MoveDevice(i, "none") \/ LeaseEndsEarly(i) \/ LeaseRunsOut(i)
      PROVE  QueueInv'
  BY <1>2, VoidKept, ExpireKept, RegisterKept, MoveDeviceKept, LeaseEndKept
<1>3. CASE FailExpired
  BY <1>3, FailExpiredKept
<1>4. ASSUME NEW w \in Workers, Work(w)
      PROVE  QueueInv'
  BY <1>4, ClaimKept, SendKept, FinishKept, CheckMailKept, CheckPushKept DEF Work
<1>5. ASSUME NEW w \in Workers,
             \/ FinishFails(w) \/ Crash(w)
             \/ \E i \in Items : DeferEmail(w, i) \/ CheckFails(w, i) \/ LookupFails(w, i)
      PROVE  QueueInv'
  BY <1>5, FinishFailsKept, CrashKept, DeferKept, CheckFailsKept, LookupFailsKept
<1> QED BY <1>1, <1>2, <1>3, <1>4, <1>5 DEF QueueNext

\* The balance is what limits duplicates.
LEMMA BalanceSuffices == QueueInv => DeliveryInv
<1> SUFFICES ASSUME QueueInv PROVE DeliveryInv
  OBVIOUS
<1>1. ASSUME NEW i \in Items
      PROVE  sent[i] <= 1 + excused[i]
  <2>1. /\ IsFiniteSet(Senders(i)) /\ sent[i] \in Nat /\ excused[i] \in Nat
        /\ sent[i] + Cardinality(Senders(i)) + One(Unclaimed(i)) <= 1 + excused[i]
    BY DEF QueueInv, Balanced
  <2>2. Cardinality(Senders(i)) \in Nat /\ One(Unclaimed(i)) \in Nat
    BY <2>1, FS_CardinalityType DEF One
  <2> HIDE DEF One
  <2> QED BY <2>1, <2>2
<1> QED BY <1>1 DEF QueueInv, DeliveryInv, NoNeedlessDuplicate

THEOREM QueueInvariant == QueueSpec => []QueueInv
<1> QED BY QueueStarts, QueueKept, PTL DEF QueueSpec

\* DeliveryInv: in every queue, whatever stops or fails, a message leaves more
\* than once only for a reason, and what is given up while it still holds used up
\* its attempts or fell to a check that failed.
THEOREM NothingSentTwiceForNothing == QueueSpec => []DeliveryInv
<1> QED BY QueueInvariant, BalanceSuffices, PTL

\* FinishedByItsClaimant: a row that is being sent is finished, or put back, by
\* the worker whose claim it carries.
LEMMA ClaimantFinishes ==
    ASSUME QueueInv, [QueueNext]_queueVars, NEW i \in Items,
           items[i].status = "SENDING", items'[i].status \in {"SENT", "PENDING"}
    PROVE  \E w \in Workers : /\ workers'[w] # workers[w]
                              /\ i \in workers[w].batch
                              /\ workers[w].claim[i] = items[i].claims
<1>1. QueueTypeOK
  BY DEF QueueInv
<1>2. items'[i] # items[i]
  OBVIOUS
\* A worker that is done with its item and held the item's row.
<1>3. ASSUME NEW w \in Workers, NEW j \in workers[w].batch, After(w, j), Held(w, j),
             \A k \in Items : k # j => items'[k] = items[k]
      PROVE  /\ workers'[w] # workers[w]
             /\ i \in workers[w].batch
             /\ workers[w].claim[i] = items[i].claims
  <2>1. j = i
    BY <1>2, <1>3
  <2>2. workers'[w].batch = workers[w].batch \ {j}
    BY <1>1, <1>3, <2>1, AfterMoves
  <2>3. workers[w].claim[i] = items[i].claims
    BY <1>3, <2>1, HeldIsCurrent
  <2> QED BY <1>3, <2>1, <2>2, <2>3
<1>4. ASSUME NEW row \in {Released(i, "FAILED"), Released(i, "none")}
      PROVE  items'[i] # row
  BY <1>1, ReleasedRow
<1>5. ASSUME NEW w \in Workers, NEW j \in Items, NEW row, Mark(w, j, row), After(w, j),
             j \in workers[w].batch
      PROVE  /\ workers'[w] # workers[w]
             /\ i \in workers[w].batch
             /\ workers[w].claim[i] = items[i].claims
  <2>1. Held(w, j)
    BY <1>2, <1>5 DEF Mark
  <2>2. \A k \in Items : k # j => items'[k] = items[k]
    BY <1>1, <1>5 DEF Mark, QueueTypeOK
  <2> QED BY <1>3, <1>5, <2>1, <2>2
<1>6. CASE \E j \in Items : Void(j) \/ MoveDevice(j, "other") \/ MoveDevice(j, "none")
  <2>1. PICK j \in Items : Void(j) \/ MoveDevice(j, "other") \/ MoveDevice(j, "none")
    BY <1>6
  <2>2. \/ items' = [items EXCEPT ![j] = Released(j, "FAILED")]
        \/ items' = [items EXCEPT ![j] = Released(j, "none")]
    BY <1>2, <2>1 DEF Void, MoveDevice
  <2>3. items'[i] \in {Released(i, "FAILED"), Released(i, "none")}
    BY <1>1, <1>2, <2>2 DEF QueueTypeOK
  <2> QED BY <1>4, <2>3
<1>7. CASE \E j \in Items : LeaseRunsOut(j) \/ LeaseEndsEarly(j)
  <2>1. PICK j \in Items : items' = [items EXCEPT ![j].leased = FALSE]
    BY <1>7 DEF LeaseRunsOut, LeaseEndsEarly
  <2>2. items[i] \in Item /\ items'[i] = [items[i] EXCEPT !.leased = FALSE]
    BY <1>1, <1>2, <2>1 DEF QueueTypeOK
  <2> QED BY <2>2 DEF Item
<1>8. CASE FailExpired
  BY <1>2, <1>4, <1>8 DEF FailExpired
<1>9. ASSUME NEW w \in Workers, Claim(w)
      PROVE  FALSE
  <2>1. items'[i] = Claimed(i) /\ items[i] \in Item
    BY <1>1, <1>2, <1>9 DEF Claim, QueueTypeOK
  <2>2. items'[i].status = "SENDING"
    BY <2>1 DEF Claimed, Item
  <2> QED BY <2>2
<1>10. ASSUME NEW w \in Workers, Finish(w)
       PROVE  /\ workers'[w] # workers[w]
              /\ i \in workers[w].batch
              /\ workers[w].claim[i] = items[i].claims
  <2>1. PICK j \in Items : j = workers[w].item /\ j \in workers[w].batch
    BY <1>10 DEF Finish, QueueInv, WorkersSound, WorkerSound, QueueTypeOK, Worker
  <2>2. After(w, j)
    BY <1>10, <2>1 DEF Finish
  <2>3. CASE \E row : Mark(w, j, row)
    BY <1>5, <2>1, <2>2, <2>3
  <2>4. CASE items' = [items EXCEPT ![j] = Released(j, "none")]
    BY <1>1, <1>2, <1>4, <2>4 DEF QueueTypeOK
  <2> QED BY <1>2, <1>10, <2>1, <2>3, <2>4 DEF Finish
<1>11. ASSUME NEW w \in Workers, NEW j \in Items,
              CheckMail(w, j) \/ DeferEmail(w, j) \/ CheckFails(w, j) \/ LookupFails(w, j)
       PROVE  /\ workers'[w] # workers[w]
              /\ i \in workers[w].batch
              /\ workers[w].claim[i] = items[i].claims
  <2>1. After(w, j) /\ j \in workers[w].batch /\ \E row : Mark(w, j, row)
    BY <1>2, <1>11 DEF CheckMail, DeferEmail, CheckFails, LookupFails
  <2> QED BY <1>5, <2>1
<1>12. ~UNCHANGED items
  BY <1>2
<1>13. \A w \in Workers, j \in Items : ~CheckPush(w, j)
  BY <1>12 DEF CheckPush
<1>14. \A j \in Items : ~Expire(j) /\ ~RegisterAgain(j)
  BY <1>12 DEF Expire, RegisterAgain
<1>15. \A w \in Workers : ~Send(w) /\ ~FinishFails(w) /\ ~Crash(w)
  BY <1>12 DEF Send, FinishFails, Crash
<1> QED BY <1>6, <1>7, <1>8, <1>9, <1>10, <1>11, <1>12, <1>13, <1>14, <1>15 DEF QueueNext, Work, queueVars

\* StaleAnswerKeepsDevice: what removes a browser's registration at a worker's
\* answer is an answer about that registration.
LEMMA CurrentAnswerRemoves ==
    ASSUME QueueInv, [QueueNext]_queueVars, NEW i \in Items, NEW w \in Workers,
           queue = "web", device'[i].owner = "none", device[i].owner # "none",
           workers[w].step = "mark", workers[w].item = i, workers'[w] # workers[w]
    PROVE  workers[w].stamp[i] = device[i].stamp
<1>1. QueueTypeOK
  BY DEF QueueInv
<1>2. device' # device /\ workers' # workers
  OBVIOUS
<1>3. ASSUME NEW v \in Workers, Finish(v)
      PROVE  v = w /\ SameRegistration(w, i)
  <2>1. PICK j \in Items : j = workers[v].item /\ j \in workers[v].batch
    BY <1>3 DEF Finish, QueueInv, WorkersSound, WorkerSound, QueueTypeOK, Worker
  <2>2. After(v, j)
    BY <1>3, <2>1 DEF Finish
  <2>3. v = w
    BY <1>1, <2>1, <2>2, AfterMoves
  <2>4. SameRegistration(v, j)
    BY <1>2, <1>3, <2>1 DEF Finish
  <2> QED BY <2>1, <2>3, <2>4
<1>4. \E v \in Workers : Finish(v)
  <2>1. \A j \in Items : ~Void(j) /\ ~Expire(j) /\ ~RegisterAgain(j) /\ ~MoveDevice(j, "other")
           /\ ~MoveDevice(j, "none") /\ ~LeaseEndsEarly(j) /\ ~LeaseRunsOut(j)
    BY <1>2 DEF Void, Expire, RegisterAgain, MoveDevice, LeaseEndsEarly, LeaseRunsOut
  <2>2. ~FailExpired /\ ~UNCHANGED queueVars
    BY <1>2 DEF FailExpired, queueVars
  <2>3. \A v \in Workers : ~Claim(v) /\ ~Send(v) /\ ~FinishFails(v) /\ ~Crash(v)
    BY <1>2 DEF Claim, Send, FinishFails, Crash
  <2>4. \A v \in Workers, j \in Items : /\ ~CheckMail(v, j) /\ ~CheckPush(v, j)
                                        /\ ~DeferEmail(v, j) /\ ~CheckFails(v, j)
                                        /\ ~LookupFails(v, j)
    BY <1>2 DEF CheckMail, CheckPush, DeferEmail, CheckFails, LookupFails
  <2> QED BY <2>1, <2>2, <2>3, <2>4 DEF QueueNext, Work
<1> QED BY <1>3, <1>4 DEF SameRegistration

\* AnswersAreCurrent: an answer that comes too late changes neither a row that
\* another worker has claimed nor a device that has registered again.
THEOREM LateAnswersChangeNothing == QueueSpec => AnswersAreCurrent
<1>1. QueueInv /\ [QueueNext]_queueVars => [\A i \in Items :
        items[i].status = "SENDING" /\ items'[i].status \in {"SENT", "PENDING"} =>
            \E w \in Workers : /\ workers'[w] # workers[w]
                               /\ i \in workers[w].batch
                               /\ workers[w].claim[i] = items[i].claims]_queueVars
  BY ClaimantFinishes
<1>2. QueueInv /\ [QueueNext]_queueVars => [\A i \in Items, w \in Workers :
        /\ queue = "web" /\ device'[i].owner = "none" /\ device[i].owner # "none"
        /\ workers[w].step = "mark" /\ workers[w].item = i /\ workers'[w] # workers[w]
        => workers[w].stamp[i] = device[i].stamp]_queueVars
  BY CurrentAnswerRemoves
<1> QED BY <1>1, <1>2, QueueInvariant, PTL
        DEF QueueSpec, AnswersAreCurrent, FinishedByItsClaimant, StaleAnswerKeepsDevice

=============================================================================
