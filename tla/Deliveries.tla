------------------------------ MODULE Deliveries ------------------------------
(***************************************************************************)
(* The three queues that workers of every replica drain: email_outbox,     *)
(* push_notifications (Expo) and web_push_notifications.  They differ in   *)
(* what a worker checks before it sends and in how the row knows that the  *)
(* answer comes from the worker that holds it, so Init chooses which queue *)
(* this is; mails whose link or invitation is checked once more before it  *)
(* leaves (ValidateClaimedEmail) are a queue of their own here.            *)
(*                                                                         *)
(* A worker claims a batch, then checks, sends and marks its items one at  *)
(* a time, outside any transaction: its lease may end meanwhile, it may    *)
(* stop, its send may reach the other side although its answer is lost,    *)
(* and its mark may fail.  An operator named after another with a suffix   *)
(* is that operator with one mistake in it and is not part of Spec.        *)
(***************************************************************************)
EXTENDS Integers, FiniteSets

CONSTANTS
    Items,        \* rows of the queue
    Workers,      \* workers of all replicas
    MaxAttempts,  \* claims after which a failure is final (5)
    MaxLost,      \* bound: stops, leases that end early, database calls that fail
    MaxDefers,    \* bound: mails that wait for the delivery budget
    MaxStamp,     \* bound: registrations of one device
    None

ASSUME LimitsAreNatural ==
    MaxAttempts \in Nat \ {0} /\ {MaxLost, MaxDefers, MaxStamp} \subseteq Nat

VARIABLES
    queue,    \* "link", "checked", "expo" or "web"
    items,    \* the rows
    subject,  \* whether what a mail is about still holds
    device,   \* push_tokens, web_push_subscriptions: one per row
    workers,  \* what each worker is at
    sent,     \* messages that left, by item
    excused,  \* reasons for sending an item again
    unread,   \* history: mails that a failing check gave up
    lost      \* stops, early ends of leases and failed calls so far

queueVars == <<queue, items, subject, device, workers, sent, excused, unread, lost>>

Mail == queue \in {"link", "checked"}
MaxClaims == MaxAttempts + MaxLost + MaxDefers
\* claims: the lease_owner of a mail, a new one each time; deferred: claims that
\* were given back.
Item == [status: {"PENDING", "SENDING", "SENT", "FAILED", "none"},
         attempts: 0..MaxClaims, claims: 0..MaxClaims, deferred: 0..MaxDefers,
         leased: BOOLEAN]
Registration == [owner: {"addressee", "other", "none"}, stamp: 0..MaxStamp]
\* batch: claims not yet worked on; the rest is about the item being sent.
Worker == [step: {"idle", "next", "send", "mark"}, batch: SUBSET Items,
           claim: [Items -> 0..MaxClaims], tries: [Items -> 0..MaxClaims],
           item: Items \cup {None}, stamp: [Items -> 0..MaxStamp],
           result: {"none", "ok", "error", "gone"}]
NoWorker == [step |-> "idle", batch |-> {}, claim |-> [i \in Items |-> 0],
             tries |-> [i \in Items |-> 0], item |-> None,
             stamp |-> [i \in Items |-> 0], result |-> "none"]

\* Only a row that is being sent is leased.
QueueTypeOK ==
    /\ queue \in {"link", "checked", "expo", "web"}
    /\ items \in [Items -> Item]
    /\ subject \in [Items -> {"valid", "void", "expired"}]
    /\ device \in [Items -> Registration]
    /\ workers \in [Workers -> Worker]
    /\ unread \subseteq Items /\ lost \in 0..MaxLost
    /\ \A i \in Items : items[i].leased => items[i].status = "SENDING"

QueueInit ==
    /\ queue \in {"link", "checked", "expo", "web"}
    /\ items = [i \in Items |-> [status |-> "PENDING", attempts |-> 0, claims |-> 0,
                                 deferred |-> 0, leased |-> FALSE]]
    /\ subject = [i \in Items |-> "valid"]
    /\ device = [i \in Items |-> [owner |-> "addressee", stamp |-> 0]]
    /\ workers = [w \in Workers |-> NoWorker]
    /\ sent = [i \in Items |-> 0] /\ excused = [i \in Items |-> 0]
    /\ unread = {} /\ lost = 0

\* The row leaves SENDING, and its lease with it.
Released(i, status) == [items[i] EXCEPT !.status = status, !.leased = FALSE]
Excuse(set) == excused' = [i \in Items |-> IF i \in set THEN excused[i] + 1 ELSE excused[i]]
Lose == lost < MaxLost /\ lost' = lost + 1

-----------------------------------------------------------------------------
(* What the rows are about *)

\* A newer link, its use, or a revoked invitation: rows still waiting fail, and
\* so do some of those being sent.
Void(i) ==
    /\ Mail /\ subject[i] = "valid"
    /\ subject' = [subject EXCEPT ![i] = "void"]
    /\ \/ /\ items[i].status \in {"PENDING", "SENDING"}
          /\ items' = [items EXCEPT ![i] = Released(i, "FAILED")]
       \/ items[i].status # "PENDING" /\ UNCHANGED items
    /\ UNCHANGED <<queue, device, workers, sent, excused, unread, lost>>

Expire(i) ==
    /\ Mail /\ subject[i] # "expired"
    /\ subject' = [subject EXCEPT ![i] = "expired"]
    /\ UNCHANGED <<queue, items, device, workers, sent, excused, unread, lost>>

\* SavePushToken, SaveWebPushSubscription by the same customer.
RegisterAgain(i) ==
    /\ ~Mail /\ device[i].owner = "addressee" /\ device[i].stamp < MaxStamp
    /\ device' = [device EXCEPT ![i].stamp = @ + 1]
    /\ UNCHANGED <<queue, items, subject, workers, sent, excused, unread, lost>>

\* The device signs in with another account, or its account is deleted: what was
\* queued for it goes.
MoveDevice(i, owner) ==
    /\ ~Mail /\ device[i].owner = "addressee"
    /\ device' = [device EXCEPT ![i].owner = owner]
    /\ items' = [items EXCEPT ![i] = Released(i, "none")]
    /\ UNCHANGED <<queue, subject, workers, sent, excused, unread, lost>>

-----------------------------------------------------------------------------
(* Workers *)

\* The first statement of ClaimEmails.
FailExpired ==
    /\ \E w \in Workers : workers[w].step = "idle"
    /\ LET expired == {i \in Items : /\ items[i].status \in {"PENDING", "SENDING"}
                                     /\ subject[i] = "expired"} IN
       /\ expired # {}
       /\ items' = [i \in Items |-> IF i \in expired THEN Released(i, "FAILED") ELSE items[i]]
    /\ UNCHANGED <<queue, subject, device, workers, sent, excused, unread, lost>>

Deliverable(i) == IF Mail THEN subject[i] # "expired" ELSE device[i].owner # "none"
ClaimableAlways(i) == Deliverable(i) /\ items[i].status \in {"PENDING", "SENDING"}
ClaimablePending(i) == Deliverable(i) /\ items[i].status = "PENDING"
Claimable(i) ==
    /\ Deliverable(i)
    /\ \/ items[i].status = "PENDING"
       \/ items[i].status = "SENDING" /\ ~items[i].leased

Claimed(i) == [items[i] EXCEPT !.status = "SENDING", !.leased = TRUE,
                               !.attempts = @ + 1, !.claims = @ + 1]
\* What the worker keeps of a row: lease_owner, intentos, the device's updated_at.
Job(i) == [claim |-> items[i].claims + 1, tries |-> items[i].attempts + 1,
           stamp |-> device[i].stamp]
\* ClaimEmails, ClaimPushJobs, ClaimWebPushJobs: rows another transaction has
\* locked are skipped.
Claim(w) ==
    /\ workers[w].step = "idle"
    /\ \E batch \in SUBSET {i \in Items : Claimable(i)} :
         /\ batch # {} /\ \A i \in batch : items[i].claims < MaxClaims
         /\ items' = [i \in Items |-> IF i \in batch THEN Claimed(i) ELSE items[i]]
         /\ workers' = [workers EXCEPT ![w] =
                [NoWorker EXCEPT !.step = "next", !.batch = batch,
                    !.claim = [i \in Items |-> IF i \in batch THEN Job(i).claim ELSE 0],
                    !.tries = [i \in Items |-> IF i \in batch THEN Job(i).tries ELSE 0],
                    !.stamp = [i \in Items |-> IF i \in batch THEN Job(i).stamp ELSE 0]]]
    /\ UNCHANGED <<queue, subject, device, sent, excused, unread, lost>>

\* Done with item i: on to the next one, or the batch is over.  What was read of
\* it is forgotten.
Without(w, i) ==
    IF workers[w].batch \ {i} = {} THEN NoWorker
    ELSE [workers[w] EXCEPT !.step = "next", !.batch = @ \ {i}, !.item = None,
                            !.result = "none", !.claim[i] = 0, !.tries[i] = 0, !.stamp[i] = 0]
After(w, i) == workers' = [workers EXCEPT ![w] = Without(w, i)]
Sending(w, i) ==
    workers' = [workers EXCEPT ![w].step = "send", ![w].item = i]

HeldUnfenced(w, i) == items[i].status = "SENDING"
\* The row still is what this worker claimed: by lease_owner for mails, by the
\* number of attempts for the others.
Held(w, i) ==
    /\ items[i].status = "SENDING"
    /\ IF Mail THEN items[i].claims = workers[w].claim[i]
       ELSE items[i].attempts = workers[w].tries[i]
Mark(w, i, row) == items' = IF Held(w, i) THEN [items EXCEPT ![i] = row] ELSE items

AfterError(w, i) ==
    Released(i, IF workers[w].tries[i] >= MaxAttempts THEN "FAILED" ELSE "PENDING")

\* What stops a mail for good: it expired, or it is checked and void.
Rejected(w, i) ==
    \/ subject[i] = "expired"
    \/ queue = "checked" /\ (subject[i] = "void" \/ ~Held(w, i))

CheckMail(w, i) ==
    /\ Mail /\ workers[w].step = "next" /\ i \in workers[w].batch
    /\ IF Rejected(w, i) THEN Mark(w, i, Released(i, "FAILED")) /\ After(w, i)
       ELSE Sending(w, i) /\ UNCHANGED items
    /\ UNCHANGED <<queue, subject, device, sent, excused, unread, lost>>

\* The check itself fails: the payload cannot be decrypted, or the database does
\* not answer ValidateClaimedEmail.  flush takes it for a mail that no longer
\* holds, and gives it up; if that is not written either (as after a rejection,
\* or DeferEmail), the row waits for its lease to end.
CheckFails(w, i) ==
    /\ Mail /\ workers[w].step = "next" /\ i \in workers[w].batch
    /\ After(w, i) /\ Lose
    /\ \/ /\ Mark(w, i, Released(i, "FAILED"))
          /\ unread' = IF Held(w, i) THEN unread \cup {i} ELSE unread
       \/ UNCHANGED <<items, unread>>
    /\ UNCHANGED <<queue, subject, device, sent, excused>>

\* VerificationActivationToken fails: an attempt without a send.
LookupFails(w, i) ==
    /\ queue = "checked" /\ workers[w].step = "next" /\ i \in workers[w].batch
    /\ ~Rejected(w, i)
    /\ After(w, i) /\ Lose
    /\ Mark(w, i, AfterError(w, i))
    /\ UNCHANGED <<queue, subject, device, sent, excused, unread>>

\* DeferEmail gives the attempt back.
Deferred(i) == [Released(i, "PENDING") EXCEPT !.deferred = @ + 1, !.attempts = @ - 1]
DeferEmail(w, i) ==
    /\ Mail /\ workers[w].step = "next" /\ i \in workers[w].batch
    /\ ~Rejected(w, i) /\ items[i].deferred < MaxDefers
    /\ Mark(w, i, Deferred(i)) /\ After(w, i) /\ Excuse({i})
    /\ UNCHANGED <<queue, subject, device, sent, unread, lost>>

\* Expo sends without another look; a browser's worker asks WebPushJobActive.
CheckPush(w, i) ==
    /\ ~Mail /\ workers[w].step = "next" /\ i \in workers[w].batch
    /\ IF queue = "expo" \/ (Held(w, i) /\ device[i].owner = "addressee")
       THEN Sending(w, i) ELSE After(w, i)
    /\ UNCHANGED <<queue, items, subject, device, sent, excused, unread, lost>>

Send(w) ==
    LET i == workers[w].item IN
    /\ workers[w].step = "send"
    /\ \E result \in {"ok", "error", "gone"}, arrives \in BOOLEAN :
         /\ result = "ok" => arrives
         /\ result = "gone" => ~Mail /\ ~arrives
         /\ workers' = [workers EXCEPT ![w].step = "mark", ![w].result = result]
         /\ sent' = IF arrives THEN [sent EXCEPT ![i] = @ + 1] ELSE sent
         /\ Excuse(IF result = "error" THEN {i} ELSE {})
    /\ UNCHANGED <<queue, items, subject, device, unread, lost>>

\* A browser's subscription is compared with updated_at; an Expo token is the
\* same token whenever it was registered.
SameRegistration(w, i) ==
    /\ device[i].owner = "addressee"
    /\ queue = "web" => device[i].stamp = workers[w].stamp[i]

\* MarkEmailSent, MarkEmailFailed, CompletePushJob, FailPushJob,
\* FinishWebPushJob, DeleteInvalidPushToken.
Finish(w) ==
    LET i == workers[w].item IN
    /\ workers[w].step = "mark" /\ After(w, i)
    /\ CASE workers[w].result = "ok" -> Mark(w, i, Released(i, "SENT")) /\ UNCHANGED device
         [] workers[w].result = "error" -> Mark(w, i, AfterError(w, i)) /\ UNCHANGED device
         [] OTHER ->
              IF SameRegistration(w, i)
              THEN /\ device' = [device EXCEPT ![i].owner = "none"]
                   /\ items' = [items EXCEPT ![i] = Released(i, "none")]
              ELSE UNCHANGED <<device, items>>
    /\ UNCHANGED <<queue, subject, sent, excused, unread, lost>>

\* The database does not answer: the row waits for its lease to end.
FinishFails(w) ==
    /\ workers[w].step = "mark" /\ After(w, workers[w].item) /\ Lose
    /\ Excuse({workers[w].item})
    /\ UNCHANGED <<queue, items, subject, device, sent, unread>>

Crash(w) ==
    /\ workers[w].step # "idle" /\ Lose
    /\ workers' = [workers EXCEPT ![w] = NoWorker]
    /\ Excuse(workers[w].batch)
    /\ UNCHANGED <<queue, items, subject, device, sent, unread>>

\* Somebody still works on the claim of i.
AtWork(i) == \E w \in Workers : i \in workers[w].batch /\ workers[w].claim[i] = items[i].claims

\* Before its worker is done with it: the batch is long, the other side slow.
LeaseEndsEarly(i) ==
    /\ items[i].leased /\ AtWork(i) /\ Lose
    /\ items' = [items EXCEPT ![i].leased = FALSE]
    /\ Excuse({i})
    /\ UNCHANGED <<queue, subject, device, workers, sent, unread>>

LeaseRunsOut(i) ==
    /\ items[i].leased /\ ~AtWork(i)
    /\ items' = [items EXCEPT ![i].leased = FALSE]
    /\ UNCHANGED <<queue, subject, device, workers, sent, excused, unread, lost>>

-----------------------------------------------------------------------------

Work(w) ==
    \/ Claim(w) \/ Send(w) \/ Finish(w)
    \/ \E i \in Items : CheckMail(w, i) \/ CheckPush(w, i)

QueueNext ==
    \/ \E i \in Items : \/ Void(i) \/ Expire(i) \/ RegisterAgain(i)
                        \/ MoveDevice(i, "other") \/ MoveDevice(i, "none")
                        \/ LeaseEndsEarly(i) \/ LeaseRunsOut(i)
    \/ FailExpired
    \/ \E w \in Workers : \/ Work(w) \/ FinishFails(w) \/ Crash(w)
                          \/ \E i \in Items : \/ DeferEmail(w, i)
                                              \/ CheckFails(w, i) \/ LookupFails(w, i)

QueueSpec == QueueInit /\ [][QueueNext]_queueVars

\* Every worker's loop keeps running, sends have timeouts, and leases end.
FairQueueSpec ==
    /\ QueueSpec
    /\ WF_queueVars(FailExpired)
    /\ \A w \in Workers : WF_queueVars(Work(w))
    /\ \A i \in Items : WF_queueVars(LeaseRunsOut(i))

-----------------------------------------------------------------------------
(* Properties *)

\* A worker whose lease ran out does not mark a row that another one has claimed
\* since (lease_owner, intentos in MarkEmail*, *PushJob).
FinishedByItsClaimant == [][\A i \in Items :
    items[i].status = "SENDING" /\ items'[i].status \in {"SENT", "PENDING"} =>
        \E w \in Workers : /\ workers'[w] # workers[w]
                           /\ i \in workers[w].batch
                           /\ workers[w].claim[i] = items[i].claims]_queueVars

\* At least once, and more than once only for a reason: a send that failed or
\* whose answer was lost, a worker that stopped, a lease that ended early.
NoNeedlessDuplicate == \A i \in Items : sent[i] <= 1 + excused[i]

\* What is FAILED while it still holds has used up MaxAttempts claims, those not
\* counted that were given back to wait for the hourly budget (DeferEmail); or
\* else the one check before its send failed, and that alone gave it up (flush,
\* MarkEmailFailed with 5).
GivenUpForCause == \A i \in Items :
    items[i].status = "FAILED" /\ subject[i] = "valid" /\ i \notin unread =>
        items[i].claims - items[i].deferred >= MaxAttempts

\* An answer that a subscription is gone, to a message sent before the browser
\* registered again, does not remove the new registration.
StaleAnswerKeepsDevice == [][\A i \in Items, w \in Workers :
    /\ queue = "web" /\ device'[i].owner = "none" /\ device[i].owner # "none"
    /\ workers[w].step = "mark" /\ workers[w].item = i /\ workers'[w] # workers[w]
    => workers[w].stamp[i] = device[i].stamp]_queueVars

\* Whatever stops, fails or runs late, every row ends: sent, given up, or gone.
EveryItemEnds == \A i \in Items :
    items[i].status \in {"PENDING", "SENDING"} ~> items[i].status \in {"SENT", "FAILED", "none"}

\* The rows stay well formed, nothing is sent again without a reason, and
\* nothing is given up while it holds but after its attempts or a failed check.
DeliveryInv == QueueTypeOK /\ NoNeedlessDuplicate /\ GivenUpForCause

\* What a worker learns too late changes neither a row that another one has
\* claimed nor a device that has registered again.
AnswersAreCurrent == FinishedByItsClaimant /\ StaleAnswerKeepsDevice

=============================================================================
