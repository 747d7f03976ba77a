-------------------------------- MODULE Reviews --------------------------------
(***************************************************************************)
(* The invitation of a customer to review a branch: created by the ledger  *)
(* trigger of the purchase that reaches the branch's threshold, reserved   *)
(* by one device for 60 seconds, shown, then skipped or followed;          *)
(* cancelled when the branch pauses the feature or closes, or the customer *)
(* leaves.  One customer and one branch.                                   *)
(*                                                                         *)
(* Settings are saved with the branch locked FOR UPDATE; purchases,        *)
(* reservations and events lock it FOR SHARE.  That lock changes no row,   *)
(* so who waited for it goes on with the settings its own statement, or    *)
(* its SERIALIZABLE transaction, had read before: those are the Begin and  *)
(* Finish steps below.  An operator named after another with a suffix is   *)
(* that operator with one mistake in it and is not part of Spec.           *)
(***************************************************************************)
EXTENDS Integers, FiniteSets

CONSTANTS
    Devices,       \* sessions of the customer
    MaxVersion,    \* bound: settings saved
    MaxPurchases,  \* bound: purchases, and thresholds
    MaxTokens      \* bound: reservations

ASSUME BoundsAreNatural == {MaxVersion, MaxPurchases, MaxTokens} \subseteq Nat \ {0}

VARIABLES
    settings,   \* configuracion_resenas
    saving,     \* SaveReviewSettings in progress: the branch is locked
    branch,     \* sucursales.activo
    customer,   \* usuarios.activo
    purchases,  \* progreso_resenas
    buying,     \* ConfirmMovement in progress: its snapshot of the settings
    invite,     \* invitaciones_resenas
    devices,    \* what each device is doing
    tokens,     \* reservations so far
    told        \* devices told that the invitation is theirs to show

vars == <<settings, saving, branch, customer, purchases, buying, invite, devices,
          tokens, told>>

Settings == [version: 1..MaxVersion, enabled: BOOLEAN, threshold: 1..MaxPurchases]
Invite == [status: {"none", "pending", "cancelled"}, token: 0..MaxTokens,
           leased: BOOLEAN, shown: BOOLEAN, skipped: BOOLEAN, clicked: BOOLEAN]
Device == [step: {"idle", "resolving", "reserving", "holding", "showing"},
           version: 0..MaxVersion, token: 0..MaxTokens, active: BOOLEAN]
Idle == [step |-> "idle", version |-> 0, token |-> 0, active |-> FALSE]

\* The table's own checks: a lease has a token, and what was skipped or followed
\* was shown.
TypeOK ==
    /\ settings \in Settings
    /\ saving \in {{}} \cup {{s} : s \in Settings}
    /\ branch \in BOOLEAN /\ customer \in BOOLEAN
    /\ purchases \in 0..MaxPurchases
    /\ buying \in {{}} \cup {{s} : s \in Settings}
    /\ invite \in Invite
    /\ devices \in [Devices -> Device]
    /\ tokens \in 0..MaxTokens /\ told \subseteq Devices
    /\ invite.leased => invite.token # 0
    /\ invite.skipped \/ invite.clicked => invite.shown

Init ==
    /\ settings = [version |-> 1, enabled |-> FALSE, threshold |-> 1]
    /\ saving = {} /\ branch = TRUE /\ customer = TRUE
    /\ purchases = 0 /\ buying = {}
    /\ invite = [status |-> "none", token |-> 0, leased |-> FALSE, shown |-> FALSE,
                 skipped |-> FALSE, clicked |-> FALSE]
    /\ devices = [d \in Devices |-> Idle]
    /\ tokens = 0 /\ told = {}

-----------------------------------------------------------------------------
(* Settings *)

BranchLocked == saving # {}
CancelledNever == invite
\* cancelar_resenas: what has been shown stays.
Cancelled == IF invite.status = "pending" /\ ~invite.shown
             THEN [invite EXCEPT !.status = "cancelled", !.token = 0, !.leased = FALSE]
             ELSE invite

BeginSave ==
    /\ ~BranchLocked /\ branch /\ settings.version < MaxVersion
    /\ \E enabled \in BOOLEAN, threshold \in 1..MaxPurchases :
         saving' = {[version |-> settings.version + 1, enabled |-> enabled,
                     threshold |-> threshold]}
    /\ UNCHANGED <<settings, branch, customer, purchases, buying, invite, devices,
                   tokens, told>>

\* The trigger fires on updates, which the first save is not: then there is nothing
\* to cancel.
SaveReviewSettings ==
    /\ BranchLocked /\ saving' = {}
    /\ settings' = CHOOSE s \in saving : TRUE
    /\ invite' = IF settings'.enabled THEN invite ELSE Cancelled
    /\ UNCHANGED <<branch, customer, purchases, buying, devices, tokens, told>>

SaveFails ==
    /\ BranchLocked /\ saving' = {}
    /\ UNCHANGED <<settings, branch, customer, purchases, buying, invite, devices,
                   tokens, told>>

\* DeleteBranch, DeleteBrand.
CloseBranch ==
    /\ branch /\ ~BranchLocked
    /\ branch' = FALSE /\ invite' = Cancelled
    /\ UNCHANGED <<settings, saving, customer, purchases, buying, devices, tokens, told>>

-----------------------------------------------------------------------------
(* Purchases *)

BeginPurchase ==
    /\ buying = {} /\ branch /\ customer /\ purchases < MaxPurchases
    /\ buying' = {settings}
    /\ UNCHANGED <<settings, saving, branch, customer, purchases, invite, devices,
                   tokens, told>>

Reached(snapshot, total) == snapshot.enabled /\ snapshot.threshold = total
\* registrar_compra_resena: the branch's row, had it changed, would stop the
\* transaction; the settings are those of its snapshot.
CommitPurchase ==
    /\ buying # {} /\ ~BranchLocked /\ branch /\ customer
    /\ buying' = {} /\ purchases' = purchases + 1
    /\ \E snapshot \in buying :
         invite' = IF Reached(snapshot, purchases + 1) /\ invite.status = "none"
                   THEN [invite EXCEPT !.status = "pending"] ELSE invite
    /\ UNCHANGED <<settings, saving, branch, customer, devices, tokens, told>>

AbortPurchase ==
    /\ buying # {} /\ buying' = {}
    /\ UNCHANGED <<settings, saving, branch, customer, purchases, invite, devices,
                   tokens, told>>

\* AnonymizeAccount
AnonymizeAccount ==
    /\ customer /\ customer' = FALSE
    /\ invite' = IF invite.status = "none" THEN invite
                 ELSE [invite EXCEPT !.status = "cancelled", !.token = 0, !.leased = FALSE]
    /\ UNCHANGED <<settings, saving, branch, purchases, buying, devices, tokens, told>>

-----------------------------------------------------------------------------
(* Devices *)

Does(d, device) == devices' = [devices EXCEPT ![d] = device]
\* Refused, timed out, or the answer was lost.
Forget(d) ==
    /\ devices[d].step \notin {"idle", "holding"} /\ Does(d, Idle)
    /\ UNCHANGED <<settings, saving, branch, customer, purchases, buying, invite,
                   tokens, told>>

Reservable == invite.status = "pending" /\ ~invite.shown /\ ~invite.leased
\* What the customer's application lists.
PendingReviews == customer /\ branch /\ settings.enabled /\ Reservable
\* The device gives up, or starts again after its reservation.
ReviewCandidate(d) ==
    /\ devices[d].step \in {"idle", "holding"} /\ PendingReviews
    /\ Does(d, [Idle EXCEPT !.step = "resolving", !.version = settings.version])
    /\ UNCHANGED <<settings, saving, branch, customer, purchases, buying, invite,
                   tokens, told>>

\* The link is resolved; the settings must still be those of the candidate.
BeginReserve(d) ==
    /\ devices[d].step = "resolving" /\ customer /\ branch
    /\ settings.enabled /\ settings.version = devices[d].version
    /\ Does(d, [devices[d] EXCEPT !.step = "reserving"])
    /\ UNCHANGED <<settings, saving, branch, customer, purchases, buying, invite,
                   tokens, told>>

ReserveReview(d) ==
    /\ devices[d].step = "reserving" /\ customer /\ branch /\ ~BranchLocked
    /\ Reservable /\ tokens < MaxTokens
    /\ tokens' = tokens + 1
    /\ invite' = [invite EXCEPT !.token = tokens + 1, !.leased = TRUE]
    /\ Does(d, [devices[d] EXCEPT !.step = "holding", !.token = tokens + 1])
    /\ UNCHANGED <<settings, saving, branch, customer, purchases, buying, told>>

LeaseEnds ==
    /\ invite.leased /\ invite' = [invite EXCEPT !.leased = FALSE]
    /\ UNCHANGED <<settings, saving, branch, customer, purchases, buying, devices,
                   tokens, told>>

\* ReviewEvent PRESENTADA: is the feature on, then the branch's lock, then the row.
BeginShow(d) ==
    /\ devices[d].step = "holding" /\ customer
    /\ Does(d, [devices[d] EXCEPT !.step = "showing",
                                  !.active = branch /\ settings.enabled])
    /\ UNCHANGED <<settings, saving, branch, customer, purchases, buying, invite,
                   tokens, told>>

ReservedByAnyone(d) == invite.token # 0 /\ invite.status # "cancelled"
Reserved(d) == invite.token = devices[d].token /\ invite.status # "cancelled"

\* Told again when it asks again; the answer may be lost.
ReviewEvent(d) ==
    /\ devices[d].step = "showing" /\ customer /\ ~BranchLocked
    /\ Reserved(d)
    /\ ~invite.shown => devices[d].active /\ invite.leased
    /\ invite' = [invite EXCEPT !.shown = TRUE]
    /\ Does(d, [devices[d] EXCEPT !.step = "holding", !.active = FALSE])
    /\ told' \in {told, told \cup {d}}
    /\ UNCHANGED <<settings, saving, branch, customer, purchases, buying, tokens>>

\* OMITIDA, CLIC
Answer(d) ==
    /\ devices[d].step = "holding" /\ customer /\ ~BranchLocked
    /\ Reserved(d) /\ invite.shown
    /\ \/ ~invite.skipped /\ invite' = [invite EXCEPT !.skipped = TRUE]
       \/ ~invite.clicked /\ invite' = [invite EXCEPT !.clicked = TRUE]
    /\ UNCHANGED <<settings, saving, branch, customer, purchases, buying, devices,
                   tokens, told>>

-----------------------------------------------------------------------------

Next ==
    \/ BeginSave \/ SaveReviewSettings \/ SaveFails \/ CloseBranch
    \/ BeginPurchase \/ CommitPurchase \/ AbortPurchase \/ AnonymizeAccount \/ LeaseEnds
    \/ \E d \in Devices :
         \/ ReviewCandidate(d) \/ BeginReserve(d) \/ ReserveReview(d) \/ Forget(d)
         \/ BeginShow(d) \/ ReviewEvent(d) \/ Answer(d)

Spec == Init /\ [][Next]_vars

-----------------------------------------------------------------------------
(* Properties *)

\* However reservations expire, race and are retried, only one device is told to
\* show the invitation (ReserveReview, ReviewEvent).
OneDeviceShows == Cardinality(told) <= 1

\* An invitation is never first shown once its branch has paused reviews or
\* closed, or its customer has left, even when the request began before.
ShownWhileOffered ==
    [][~invite.shown /\ invite'.shown => settings.enabled /\ branch /\ customer]_vars

\* The rows stay well formed, and two devices never both show an invitation.
ReviewInv == TypeOK /\ OneDeviceShows

=============================================================================
