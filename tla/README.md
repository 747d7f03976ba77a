# Puntazo loyalty back end: TLA+ specifications

Puntazo lets shops give stamps or points to their customers and exchange them
for benefits. The back end is a Go program (Gin, pgx) in front of PostgreSQL;
it bills the shops through Mercado Pago, and sends mail and pushes from queues
kept in the same database. Several requests, the background workers and the
provider's webhooks change the same rows concurrently, and most of what can go
wrong lies in what happens between two of them.

These modules model the parts where that matters most, check them with TLC on
small instances, and prove every safety property that the runs check for all sizes
with TLAPS. Source paths are relative to the repository root
(`internal/...`, `migrations/...`); `PROJECT.json` maps every definition to the lines
it stands for.

## 1. Inventory

| Component | State it keeps | Operations | Hard behaviour | Correct when | Modelled in |
|---|---|---|---|---|---|
| Movement ledger (`repository/movement.go`, `movement_reversal.go`, `idempotency.go`, `cards.go`) | cards with balances and versions, ledger rows, reversals, previews, idempotency keys | preview, confirm, reverse, card revision | snapshot transactions, lost answers and retries, keys pruned under a retry, other writers of the same rows | each preview counts once, balances are the sum of what stands, nothing is confirmed on old terms | `LoyaltyLedger` |
| Branch proration (`repository/branch_*.go`, `service/branch_proration.go`, `mercadopago/branch.go`) | quotes, operations, the subscription's quantity; at the provider the recurring amount and the payments | quote, confirm, reconcile (worker, polling, webhook), cancel | a transaction held open across provider calls, each of which may take effect unanswered; duplicate and late payments | provider and database agree, no branch without payment, no payment without branch or refund | `BranchProration`, partly |
| Subscription checkout (`subscription.go`) | one subscription row per brand; at the provider the preapprovals | reserve, one provider call, recover, webhook, cancel, close | a POST without idempotency; answers lost, late and out of order | at most one preapproval, findable and cancellable; no reactivation; the row ends as the provider has it | `SubscriptionBilling` |
| Subscription prices (`subscription_prices.go`) | price changes and their items, price history | change, retry, apply | the provider is updated before the commit | only the price in force is sent; a difference shows | `SubscriptionBilling` |
| Referral billing (`referral_credit.go`, the invoices of `subscription.go`) | charges, rewards, allocations | record an invoice, refund, settle, credit | webhooks duplicated and reordered, the last discounted charge raises the amount before its commit, credits at the same time | rewards follow charges, the discount ends in time, credits are covered | `ReferralBilling`; campaigns and codes are not |
| Sessions, identity codes, reauthentication (`session.go`, `email.go`, `email_code.go`, `email_change.go`, `reauthenticate.go`, `service/auth.go`) | the account's versions, session families, one-time tokens, the code | log in, rotate, revoke, reset, verify, change address, prove again | what was proved in one read is used in a later transaction; refresh tokens are retried or copied | nothing outlives the proof it rests on; a family has one live session; a link dies with its code | `Identity` |
| Outbox and push (`email.go`, `push.go`, `web_push.go`, their workers) | three queues with leases and attempts | enqueue, claim, check, send, mark, expire | at-least-once, leases that end early, answers that are lost or stale | duplicates only for a reason; a late worker changes nothing; every row ends | `Deliveries` |
| Media (`media.go`, `menu.go`, `profile_photo.go`, `storage/s3.go`, `maintenance/worker.go`) | rows and objects | upload, publish, withdraw, sign, erase | two stores, no common commit | what is published has its object, what is left over is erased | `MediaStore` |
| Staff, invitations, branches (`staff.go`, `merchant_registration.go`, `commercial.go`) | memberships, branch access, invitations and their mails, branches | invite, resend, revoke, register, change, remove, delete the brand | unlocked checks, write skew between administrators, mails that supersede each other | a deleted brand is empty; operators have branches; the working link is the mailed one | `BrandStaff` |
| Card events (`cardevents/broker.go`, `handler/card_events.go`) | subscribers, the LISTEN connection, streams | subscribe, publish, reconnect | wake-ups between reading and waiting, half-open connections, sessions that end | every movement is seen; an ended session hears no more | `CardEvents` |
| Reviews (`reviews.go`, its trigger) | invitations and reservations | create, reserve, show, skip, pause | a share lock taken after the read it protects, leases | one device shows it, while it is offered | `Reviews` |
| Account deletion (`account.go`) | everything that hangs from an account | `AnonymizeAccount` | races with every handler of that account; the last owner closes the brand | nothing is left or comes back; no brand without owner | as a part of each module above; the journal is not |
| Brand, program, benefits (`commercial.go`, `merchant.go`, `benefit.go`) | programs, benefits, demo access | create, edit, close | edits against previews and confirmations in flight | the type of a program is frozen by its first use; a closed brand moves nothing | `LoyaltyLedger`, partly |
| Retention (`retention.go`, `maintenance/worker.go`) | none of its own | prune previews, keys, sessions, tokens, mail | pruning under retries | no forgotten key lets a request count twice | `LoyaltyLedger`, `Identity`, `MediaStore`, partly |
| Rate limiter, upload semaphore; favorites, backoffice, analytics; HTTP layer; configuration; operator tools | | | | | not modelled (section 7) |

How they interact: handlers call the service layer, which calls one repository
function per request, nearly always one database transaction; where a handler
calls a provider in between, it reads, calls, and writes what it was told in a
transaction of its own. Everything shared is a row. `service.retry` repeats the
ledger's transactions when PostgreSQL fails them with 40001 or 40P01. The ledger
tells card events and push by `pg_notify` and by inserting queue rows in its own
transaction, and a trigger on its rows creates review invitations. Branch
proration and price changes share the subscription row and exclude each other by
the active operation. Invitations, links and codes leave as mails through the
outbox. Account deletion writes rows of all of them.

`PROJECT.json` lists the hazards found in this code, each at its line, with the
properties that cover it or the reason none does.

## 2. Modules

```
LoyaltyLedger            the ledger and every writer of its rows
  LedgerRefinement       maps it to IdealLedger
    LoyaltyLedgerProofs  its rows, its books and the refinement
    MCLoyaltyLedger      instances
IdealLedger              what a balance promises
BranchProration          branch sales against Mercado Pago
  BranchProrationProofs
SubscriptionBilling      checkout, webhooks, cancellation, price changes
  SubscriptionBillingProofs
ReferralBilling          invoices, rewards, discounts, credits
  ReferralBillingProofs
Identity                 sessions, links, codes, proofs
  IdentityProofs
MediaStore               images, menus and photos over two stores
  MediaStoreProofs
BrandStaff               people, invitations, branches, the end of a brand
  BrandStaffProofs
Deliveries               mail outbox, Expo and web push queues
CardEvents               LISTEN/NOTIFY to browsers
Reviews                  review invitations
  NoticesProofs          these three: what a customer is told
MC<module>               an instance of each
```

In every module a variable stands for a table, or for what a process, a request
or the provider holds; an action is a transaction, or one step of a handler
between two calls; a request that fails a check writes nothing and is no step.
An operator named after another one with a suffix is that operator with one
plausible mistake; no specification uses it, and each property is shown to be
violated when it takes the other's place. `Deliveries` and `CardEvents` name their
initial states, steps and specifications after themselves (`QueueInit`, `EventsNext`,
...), since one module of proofs extends both and `Reviews`.

### LoyaltyLedger

One brand. A variable per table (`cards`, `previews`, `keys`, `benefits`,
`program`, ...); `ledger` holds, per card, the rows of `historial_movimientos`
and `reversiones_movimiento` in the order in which the card's row lock admitted
them; `txns` holds the transactions in progress; `movements` is a history
variable.

`CreatePreview` runs at REPEATABLE READ and `ConfirmMovement`,
`ReverseBrandMovement` and `AnonymizeAccount` at SERIALIZABLE. Each is a Begin
action, which takes the snapshot and passes the handler's checks, and a Commit
action, which writes. Any other transaction may commit between them. What
PostgreSQL guarantees is modelled by what it does:

* `Locks(x)` are the rows transaction `x` locks or writes: FOR UPDATE, FOR SHARE,
  the key-share lock of a foreign key. If another transaction commits a write to
  one of them first, `x` gets 40001: `RollBack` returns it to idle. The retry is
  a new Begin.
* A row that is only read keeps its snapshot value: staff access, branch, brand and
  demo access may change under a confirmation. What holds at its commit all the same
  is `ConfirmedOnCurrentTerms`: brand and demo access, because whoever ends them also
  writes the program row that is locked, and the branch of a credit, which the trigger
  `registrar_compra_resena` shares. The branch of a redemption and the operator's
  access may be gone (section 4).
* A row inserted after the snapshot is not seen: `missed`.
* Of the conflicts that only serializable isolation detects, the two that matter
  here (a card inserted where a deletion looked for cards, and two owners leaving
  at once) are counted among `Locks`. PostgreSQL may raise more of them; that is
  `Abort`.

`DeleteBrand`, `DeleteBranch`, `UpdateProgram` and the benefit handlers run at READ
COMMITTED, re-read what they lock, and are one step each. The branch is the one at which
the movements are made; it may be deleted where `Closable` says so. Deadlocks and
timeouts are `Abort`. A request that fails a check writes nothing and is no step.

Abstractions: an amount of points is one of `CreditAmounts`; QR codes, other branches
and the request's fingerprint are part of "a request that differs is refused";
version preconditions (If-Match) are left out because they only forbid edits;
owners cannot be made or unmade, as in the code; the guard on an active
subscription when a brand is closed is left out for the same reason; a benefit
whose `expires_on` passes only becomes unusable. The rows that triggers on
`historial_movimientos` insert (mobile push, review invitations) are not part of
the model; `announced` has `pg_notify` and `web_push_notifications`.

### IdealLedger and LedgerRefinement

`IdealLedger` knows customers, operations and balances: an operation is booked at
most once, taken back at most once, and an account is forgotten as a whole.
`LedgerRefinement` maps a preview to its operation, reads from the card's rows
whether it stands, and states `ImplementsIdealLedger`; `BooksBalance` adds to
`TypeOK` and `LedgerIsConsistent` that each balance is the sum of what stands.

### BranchProration

The database rows are `ops` (quote and operation as one row) and `sub`; the
provider's side is `plan` (the preapproval) and `payments`. `rec` is the
`ReconcileBranch` in progress, with the row as it will be saved. `ReconcileBranch`
keeps brand, subscription and operation locked, so there is at most one per brand
and local writers wait (`Unlocked`), while the provider, the clock and the
membership change under it. There is one step per provider call; what lies
between two calls belongs to the first of them. Each call can be answered, fail
without effect (`ProviderFails`), take effect and have its answer lost
(`PutAnswerLost`, `PutBackAnswerLost`, `RefundAnswerLost`), or be cut off
(`Crash`, also a lost commit: the provider keeps what was done, the row does
not).

Amounts are counted in branches, since the unit price cannot change while an
operation is active. `SyncSubscription` lets webhooks and reads store any earlier
renewal date, as they may be delayed. `LoseBrand` is the owner's removal or the
brand's closing. The provider is modelled from how `internal/mercadopago` uses
it. Not modelled: the simulator; a payment whose amount or currency is wrong; a
plan paused by the provider (the code treats it as not authorized, like a
cancelled one); provider effects that arrive after a timeout; the back-off of
`next_attempt_at` and the 30 days after which completed operations are no longer
polled. `FindBranchPayment` makes several provider calls and is one step, except
that it may fail after any part of its refunds.

### SubscriptionBilling

The row of one brand (`sub`), its preapprovals at the provider (`plans`), the
price in force and the bulk changes (`price`, `changes`), and `requests`, the
handlers in progress. A handler that has called the provider keeps the answer and
writes it in a later step, so that answers are applied out of order; it may stop
after any step, and any call may take effect without its answer (`Stop`).
`ReserveSubscriptionCheckout` reserves the row and a reference;
`ClaimSubscriptionProviderCall` lets one POST out; what that POST created is found
again by `ReadSubscription`, by reference, and by webhooks. The price worker holds
the rows locked across its call, so its steps (`Apply`, `PutAmount`,
`CommitApply`, `FailApply`, `StopWorker`) exclude other writers (`Unlocked`) but
not the provider. `DeleteBrand` and `AnonymizeAccount` cancel first.

`NoForgottenPlan` is the point of the reservation: a preapproval that can charge
is the only one and the row leads to it. Each of `CheckoutIsRecovered`,
`RowConverges` and `ItemsSettle` (together `EverythingSettles`) says that what was
interrupted is finished.

### ReferralBilling

The invoices of a referred brand at the provider, the charges and rewards in the
database, and the credits of the brand that referred it. Webhooks read first and
record later; `RecordReferralInvoice` raises the amount with the last discounted
charge (`Advance`) and may then fail to commit. `BeginAllocation` and
`InsertAllocation` are the two halves of a merchant credit; the lock of the
referring brand's row lies between them. Amounts are a price and whether it is
discounted, rewards count one. `changes` are the changes of the list price with the
item of this brand. The worker visits the oldest pending one: it closes it without a
call (`CloseItem`), sends the amount and commits (`ApplyItem`), or sends it, with or
without effect, and does not commit (`ItemFails`: the call fails, its answer or the
commit is lost, the process stops). A call takes effect when it is made or never.

### Identity

One account with its versions, `sessions`, `tokens` (verify, reset and change of
address) and the `code` that goes with a link. Every transaction locks the account
row and is one step. What precedes it is not: `Login`, `ResetPassword`,
`Reauthenticate` and the code's log in prove something with a read and act later
(`requests`), so versions may move in between; account deletion takes its snapshot
before it waits for the lock. The `proof` of a session is a history field, the
version at which its first proof was given.

### Deliveries

One queue per behaviour: mails with a link, mails that are checked again before
they leave, Expo and web push. `Init` chooses. `Claim`, `CheckMail` or `CheckPush`,
`Send` and `Finish` are steps of a worker; leases end on time (`LeaseRunsOut`) or early
(`LeaseEndsEarly`, a slow worker), workers crash, the last
write fails (`FinishFails`), devices register
again or move to another account. The check of a mail may fail for a reason that is
not the mail's (`CheckFails`: a database that does not answer, a payload that cannot
be decrypted), which gives the mail up, and so may the search for its activation link
(`LookupFails`), which costs an attempt. `excused` counts the reasons for a duplicate
and `unread` remembers what was given up by a check that failed.

### MediaStore

One kind of file per behaviour (image, menu, photo); `Init` chooses. `files` are
the rows, `stored` the bucket, `waiting` the deletion queue of photos, `uploads`
the requests in progress, `links` the signed URLs that are still valid. Commits
and calls to the bucket may fail or take effect unanswered (`doubtful`,
`untracked`). The maintenance worker leases what is due, erases and marks. URLs are
signed for all three kinds (`Sign`). An upload remembers what it saw published (`seen`).

### BrandStaff

People, branches, invitations with one mail per link sent, and requests split
where they read without a lock or in their snapshot. What PostgreSQL refuses is in
the guards of the commits: a pair of SERIALIZABLE transactions each of which read what
the other writes (`Serializable`), and the first updater wins over the deletion of an
account (`FirstUpdaterWins`: who writes a row that a deletion has in its snapshot and
will write commits only once that deletion is refused, and since a refused deletion
leaves nothing, `Abort` is taken to come first). `BeginAnonymize` is that snapshot,
which precedes the wait for the brand, and `AnonymizeAccount` writes what it saw: a
branch inserted meanwhile is not refused and not seen. Mails belong to who sent them
(`by`), and the worker may fail to send one (`UNSENT`). `removals`, `gone` (deleted
accounts) and `overlooked` (branches inserted in that gap) are history variables.

### CardEvents

One process and one customer: the LISTEN connection, the broker's map with its
one-element channels, and a stream per browser with the position of its handler.
Connections fail or go deaf without being closed, reads and writes fail, sessions
end.

### Reviews

One customer and one branch. Settings are saved under FOR UPDATE on the branch,
the others take FOR SHARE, which changes no row: who waited goes on with the
settings that were read before. `Begin...` actions take what was read.

## 3. Runs

| Run | Instance | Shows |
|---|---|---|
| `LoyaltyLedger` | 2 customers, 1 owner, 2 previews, 1 key, 2 requests; credits of 2, costs 1 and 2 | the books (`BooksBalance`: types and no negative balance, balance against rows and standing operations, rows against movements, frozen type, notifications), replay, deletion of a customer, terms at the commit of a confirmation, refinement of `IdealLedger` |
| `LedgerStaff` | 2 owners and a clerk, 1 preview, 2 keys, a branch that may be deleted | no brand without an owner, nobody commits after being deleted, one movement per preview, terms at the commit of a credit |
| `BranchProration` | 2 quotes, 1 payment each, 1 renewal | charged amount, terms at activation |
| `BranchOneOperation` | 1 quote, 2 payments, 1 renewal, with fairness | refunds, which payment is kept, waiting ends, refunds complete |
| `SubscriptionBilling` | 2 handlers, 3 references, prices 1 and 2, with fairness | no forgotten preapproval, cancelled stays cancelled, price in force, differences show, everything settles |
| `ReferralBilling` | 3 invoices, 2 discounted, 1 rewarded; 2 requests, 2 keys, 1 own payment, 2 price changes, 4 events | end of the discount, provider against row, rewards against charges, credits covered |
| `Identity` | 2 requests, 3 sessions, 3 tokens, 2 guesses | one live session per family, sessions against proofs, links against codes, last address wins |
| `Deliveries` | 4 queues, 1 row, 2 workers, 2 attempts, 2 losses, with fairness | duplicates, what is given up, stale workers, every row ends |
| `MediaStore` | 3 kinds, 2 files, 2 uploads, 2 workers, 2 losses, with fairness | published and linked objects, lost updates, left-overs |
| `BrandStaff` | owner and 2 employees, 2 branches, 1 invitation with 2 links, 2 requests, 3 changes | end of the brand, mutual removal, roles and branches, primary branch, mails |
| `CardEvents` | 2 browsers, 2 changes, 1 failure, with fairness | no lost wake-up, every movement seen |
| `Reviews` | 2 devices, 2 purchases, 4 versions, 2 reservations | one device shows, and only while offered |

The bounds. Two requests, workers, devices or browsers are enough for every pairwise
race, and the environment's actions run beside them. Two previews make a second movement
on a card possible, and so reversals in both orders, coverage failures and pruning
between retries; two keys let one preview be confirmed under different keys, one key
lets two requests meet on it; the branch stays open in `LoyaltyLedger`, whose two
customers make it the largest instance, and may be deleted in `LedgerStaff`, whose one
preview can only be a credit: a redemption does not lock it; costs 1 and 2 against
credits of 2 make a redemption that is covered, one that no longer is, and a price that
changes. `MaxPayments` = 2 is the smallest number with duplicates and `MaxCycle` = 1 the
smallest with a renewal. `MaxKeys` = 3 allows a rejected or cancelled checkout and two
more, and two bulk changes of the price. Three invoices with two discounts have one
before, one at and one after the end of the discount. Two price changes between two
prices, each tried again and again, are enough for a newer one that makes an older one's
item SKIPPED after its call took effect, and for one back to the price the row has; four
events (invoices, changes, refunds of the own payment, credits) are three invoices and a
change, or two and two. Three changes of a brand are an invitation and its second link,
or two removals at once, and one more. Three sessions are a family with a rotation and a
reuse, or two families; three tokens one link, its successor, and one of another kind.
`MaxAttempts` = 2 has a retry and an end. Failures (`MaxLost`, `MaxFailures`) are few
because each adds only a repetition of what a first one does, and two make the
repetition fail as well; `CardEvents` has one, with two browsers.

Deadlock is not checked: a run ends when all previews, quotes, invoices or events
are used and everything has expired.

### Fairness

Every fair specification (`FairSpec`, `FairQueueSpec`, `FairEventsSpec`) assumes that
programs go on and that the environment does not fail for ever, and nothing of users.

* `BranchProration`: the worker, which ticks every three seconds, visits what its
  query selects again and again (`SF` on `Poll`: the visit is disabled while
  another reconciliation holds the lock); quotes expire; from some moment on calls
  are answered (`Answered`), and then no answer is lost.
* `SubscriptionBilling`: a handler goes on or is cut by its deadline; the owner's
  page keeps reading the subscription, and neither those reads nor the price
  worker are stopped at the same point every time (`SF`). The provider's own
  moves, new checkouts and webhooks have no fairness.
* `Deliveries`, `MediaStore`: workers loop, requests end, leases and links end,
  time passes. Stops and failures are bounded by `MaxLost`.
* `CardEvents`: `Run` reconnects for ever, handlers go on, and a browser whose
  stream ended connects again (`SF`, since it needs a moment in which the broker
  is ready). No one makes movements happen.

## 4. Statements the code does not keep

Met while modelling, and confirmed with TLC by checking the formula at the bounds
of the module's run (in `BranchProration`, those of `BranchOneOperation`). They
are documented here rather than kept as failing runs.

* **An applied price change that was not applied.** "Retain failed items for an
  explicit retry; never claim provider success"
  (`repository/subscription_prices.go:306`). The PUT of a change takes effect and
  its answer is lost: the item is FAILED and the row keeps the old unit. A new
  change back to that unit is reported APPLIED without a call (line 301 compares
  with the row), while the provider bills the other amount. In
  `SubscriptionBilling`:
  `\A c \in Versions : changes[c].status = "APPLIED" /\ ~Outdated(c) /\ plans[sub.id].status # "CANCELLED" => plans[sub.id].amount = changes[c].unit`.
* **A branch without payment.** "A crash after the external update/refund is
  recovered by reading provider state before retry"
  (`repository/branch_reconcile.go:70`). Plan update rejected, payment refunded
  (line 346), commit lost; the next visit resumes at PLAN_UPDATING, does not look
  at the payment, and if the update is accepted now the branch is COMPLETED:
  `ops[o].status = "COMPLETED" /\ ops[o].required => ops[o].payment \in Approved(o)`.
* **A refund that does not end.** "A failed update triggers refund; a failed refund
  remains pending" (`docs/branch-proration-local.md:36`). A second payment approved
  during the refund of the first is what the readback finds (line 349); the
  operation stays in REFUND_PENDING: `[]Untouched(o) => RefundEnds(o)`.
* **Checkouts nobody looks at.** "Real checkouts remain reconciled after expiry"
  (`branch_reconcile.go:204`). One failed readback of an expired checkout (line
  165) overwrites QUOTE_EXPIRED, by which the worker selects it:
  `ops[o].status = "FAILED" /\ ops[o].checkout => Pollable(o)`. And after a rejected
  payment (line 197) the preference still accepts another one, which neither worker
  nor webhook visits: `ops[o].status = "PAYMENT_REJECTED" /\ Approved(o) # {}` leads
  to neither a branch nor a refund.
* **A price that bills nothing.** `RecordReferralInvoice` accepts an invoice at the
  amount of the row or of a change in the history
  (`repository/subscription.go:259-284`). The call of a price change takes effect and
  its answer or commit is lost, and a newer change skips the item: an invoice issued in
  between has an amount that no row ever had, and is refused whenever it is read (in
  `ReferralBilling`):
  `(\A c \in DOMAIN changes : changes[c].status \in {"APPLIED", "SKIPPED"}) => \A i \in DOMAIN invoices : i \in Recorded \/ InvoiceMatches(i, Paid + 1) \/ invoices[i].amount.price = row.price`.
* **A refund that is not followed.** A refund cancels a pending reward
  (`README.md:210`). A payment refunded after the readback of its approval and
  before that is committed: its own notification finds no charge and is answered
  with 200 (`service/subscription.go:255`), and the reward stays pending. With the
  answered notifications in a variable `told`:
  `(\A r \in Requests : Idle(r)) => \A i \in told : rewards[i] \notin {"PENDING", "SETTLED"}`.
* **A mail given up untried.** The payload is deleted "al completar o agotar cinco
  intentos" (`README.md:282`). Any error of `ValidateClaimedEmail`, of the database too,
  counts as a mail that no longer holds (`mailer/worker.go:60-70`) and ends a valid one
  after a single claim: `GivenUpForCause` without `i \notin unread`.
* **A former owner's event.** "A transferred token must not receive a former
  owner's queued events" (`repository/push.go:24`). A row that a worker holds
  already is sent after the token has moved (`push/worker.go:67`): in `Deliveries`,
  a `Send` that arrives while `device[i].owner = "other"`.
* **An interrupted photo.** "El worker reconcilia uploads interrumpidos"
  (`README.md:265`). A profile photo is put before any row names it
  (`service/profile_photo.go:72`); if the request is cut there, nothing leads to
  it: `untracked \cap stored \subseteq Published \cup waiting`.
* **A photo's link.** The answers of `ProfilePhoto` and `UploadProfilePhoto` give the
  time their URL expires (`service/profile_photo.go:48`), but a replaced photo is erased
  at once (line 84): `\A f \in links : f \in stored \/ f \in doubtful` in `MediaStore`.
  Images and menus wait for their links to end (`LinksWorkUntilTheyEnd`).
* **A published object that is erased.** `UploadBrandImage` and
  `UploadProfilePhoto` erase the object when the commit reports an error
  (`service/media.go:126`), also when it was made. `PublishedHasObject` states what
  remains.
* **An invitation while reviews are paused.** "Serialize creation with settings
  writes" (`migrations/0022_google_reviews.up.sql:49`). The purchase's snapshot is
  older than the lock it waits for, so an invitation may be created right after the
  pause: `~settings.enabled => invite.status # "pending" \/ invite.shown`. It is
  never shown (`ShownWhileOffered`).
* **An open branch of a closed brand.** The owner's account deletion takes its snapshot
  with its first read (`repository/account.go:161`) and then waits for the brand (line
  169). A branch that `CreateBranch` (READ COMMITTED, `commercial.go:115-139`) inserts
  in between is not a row the deletion writes, so nothing is refused, and line 222 does
  not see it: `brand = "closed" => OpenBranches = {}` in `BrandStaff`.
  `ClosedBrandIsEmpty` states what remains.
* **An invitation without its mail.** Deleting an account fails every queued mail with
  its `usuario_id` (`account.go:291`), which for an invitation is the sender
  (`staff.go:82-88`); line 294 revokes only invitations to that account. An
  administrator who invites and then deletes the account leaves a pending invitation
  whose mail never leaves: `LiveLinkIsMailed` without `invites[i].by \in gone`. It can
  be sent again by hand.
* **A departed operator's preview.** "The departing actor's preview is always
  revoked" (`repository/account_deletion_integration_test.go:120`). One committed
  after the deletion's snapshot stays open:
  `previews[p].state = "open" /\ ~previews[p].expired => previews[p].actor \in live`.
  It cannot be confirmed.
* **A redemption at a deleted branch.** `ConfirmMovement` reads the branch in its
  snapshot and locks only the preview there (`repository/movement.go:160`). A branch
  deleted between that read and the commit (`commercial.go:193`) stops a credit, whose
  review trigger shares the branch (`migrations/0022_google_reviews.up.sql:46-50`), not
  a redemption: `[][\A t \in Transactions : CommitConfirm(t) => branchOpen]_vars` with
  `Closable = TRUE`. The same holds of the operator's access to the branch, which
  nothing locks: `txns[t].actor \in authorized` instead, in `LedgerStaff`.
* **Demo access changes.** "Not locked because it is immutable in this slice"
  (`repository/movement.go:196`), but `commercial.go:73` and `account.go:229` clear
  it: `[][access' = access]_vars`. No confirmation slips through, because both also
  write the program row that it locks (`ConfirmedOnCurrentTerms`).

The repository describes the real-payment adapters as not yet certified and keeps
them out of production (`docs/branch-proration-local.md`).

## 5. Proofs

Every `...Proofs` module states its theorems at the end and begins with the
inductive invariant they rest on (`NoticesProofs` and `LoyaltyLedgerProofs` have a
part for each), which TLC has checked on the module's run (and, for branches, on one
with two operations) before it was proved. Below, "for any
size" means: for any sets of accounts, requests, keys and so on, finite or not, and
any values of the bounds, under the `ASSUME`s of the modules. Those say that bounds
are natural numbers, prices and amounts positive, the kinds of accounts disjoint,
`None` no identifier, and that `MaxDelta` of the refinement is no less than any
amount. One theorem assumes more: `OpenBrandHasOwner` is about a brand that had an
owner to begin with (`Managers # {}`).

### The ledger (`LoyaltyLedgerProofs`)

Part one proves `TypeCorrect` (balances stay natural numbers: nothing computed from
an old snapshot overdraws a card) and `PreviewConfirmedAtMostOnce`. Neither is
inductive. A commit writes what its Begin computed, so the invariant must say that
this is still right (`InFlight`): the balance a confirmation or reversal read is the
balance of the card, its preview is open and its key free, the movement it reverses
is recorded and, for a credit, covered. This is what `RollBack` preserves, row by row
of `Locks`. The rest of `Inv`: active benefits have a price (`BenefitsPriced`), open
previews are filled in (`PreviewsFilled`), a preview with a movement is never open
again (`MovedPreviewsSpent`).

Part two proves, from `BooksInv`:

* `BooksAreConsistent` (`LedgerIsConsistent`): the balance of a card is the one its
  last row left, rows are justified by their movements, the type of the program is
  frozen by its first movement, and every row was announced exactly once.
* `KeysReplayTheirMovement`, `DeletedCustomersStayDeleted`, `OpenBrandHasOwner`.
* `ConfirmsOnCurrentTerms`, `LiveOperatorsWrite`: about steps.

`BooksInv` adds to `Inv` what a request checked on its snapshot and does not check
again (`Current`): the program, the customer, the card, the benefit, the actor. It
is true at any time the request can commit, because whoever changes one of them writes
a row that the request locks: the program for brand and demo access, the shared branch
for a credit. The type of a program is frozen because a preview needs a benefit
(`Catalogued`).

### The refinement (`LoyaltyLedgerProofs`, part three)

`LedgerImplementsIdeal` proves `Spec => ImplementsIdealLedger`. Each commit of the
ledger is shown to be a `Book`, `TakeBack` or `Forget` of `IdealLedger`, and every other
step (retries, expiry, pruning, closures) a stutter: the booking of a preview is
read from the rows, so that removing the preview or the key changes nothing.
`BooksAreBalanced` proves that a balance is the sum of the operations that stand, for
histories of any length. The sum is the community modules' `MapThenSumSet`, whose
recursion runs over the subsets of the standing operations (`SumOn`). That it exists,
is unique and may be taken in any order is proved from a smallest counterexample
(`SmallestSubset`), because an induction theorem would need an operator as parameter.

### Branches (`BranchProrationProofs`)

`ChargesAreRight`, `RefundsAreReal`, `BranchPaymentsAreKept`, `QuotedTermsHold`. One
operation is active at a time (`OneActive`); what a saved status says of the payment
and of the plan is `OpsSound`: before a payment was approved the plan is untouched,
PLAN_UPDATING and REFUND_PENDING keep the number of branches of the quote. The amount
at the provider is explained by the branches the brand has, or by one operation that
marked its row before it changed the plan (`AmountExplained`): the mark that
`ReconcileBranch` saves before its first PUT is what the whole argument rests on.
`InHand` relates the row that a reconciliation holds in memory to the saved one, step
by step. Payments only go forward, which is why a row may rely on a readback that
is no longer fresh.

### Subscriptions (`SubscriptionBillingProofs`)

`NoPlanIsForgotten`, `CancellationIsFinal`, `OnlyThePriceInForce`,
`RowsShowDivergence`. `OnePlanPerReference` says that a reservation is posted once and
only by who claimed it; `InFlight` says it of the request about to post, and that an
answer in hand, however old, tells the truth about cancellation, which is final at
the provider. `WorkerSound` keeps the change in the price worker's hands current
while the rows are locked. `DivergenceShows` is not inductive: a new change could
hide which of them the provider has; `DivergenceNamed` names the change whose amount
the provider bills.

### Referrals (`ReferralBillingProofs`)

`DiscountsEndInTime`, `RewardsFollowCharges`, `CreditsAreCovered`, and
`NothingIsRewritten` (charges keep their place, settled and dropped rewards do not
come back; it is stated in the proofs' module only). A refund that a webhook was told
of stays one (`RequestsTold`); an allocation that counted under the lock finds its room
until it inserts (`InsertsHaveRoom`), although rewards are not locked, because what was
earned stays counted whatever becomes of it (`Earned`). Places in the paid sequence
need the cardinality of the charges. What the provider bills is the row's amount or
has a witness: the last discounted charge, not recorded yet, or an item that is not
APPLIED. Such an item stays one when its price is no longer the newest, and the charge
that changes what it stands for, the last discounted one, sends the row's own amount.

### Staff (`BrandStaffProofs`)

`RowsStayWellFormed`, `DeletedBrandStaysEmpty`, `NeverRemovedMutually`, and
`RemovedNeverReturn` (in the proofs' module only). A removal in progress knows of
every removal of its own actor since its snapshot (`RequestsSound`), and whoever was
removed before it is inactive with a role and so cannot begin one (`RemovedStayOut`):
that is what SERIALIZABLE buys. The count of primary branches is carried as a
witness (`PrimaryFound`). Of a deletion in progress `ErasuresSound` says that what was
opened since its snapshot is in `overlooked`, and that the mails it will fail are still
queued and still those of its account, so that failing them leaves every other
invitation its mail. `LinksInOrder` says that links are issued one after the other. Both
are shown for every action from the same few facts about rows (`RowGoesOn`, `RowKept`)
and requests (`ErasuresGoOn`).

### Sessions and links (`IdentityProofs`)

* `SessionsAlwaysCurrent`, `FamiliesHaveOneLive`: `SessionsInv` adds that a family
  is named after its first session (so that a log in founds a new one) and that no
  session was made since the snapshot of a deletion that can still commit, which is
  what the write to the account's row in `CreateSession` and `RotateSession` buys.
* `IdentityCorrect`, `LastAddressAlwaysWins`: a link that works is the latest of its
  purpose and only verifications come with a code (`LinksAreLatest`); for resets,
  a request in progress has read a reset link, and links that were used stay used
  (`Aged`), so that every change of the password adds one to them. What a step does
  to the rows is stated once (`Fewer`, `Aged`) and proved of each action.

### Media (`MediaStoreProofs`)

`MediaIsAccountedFor`, `PublishedIsStored`, `ReplacesWhatItSaw`. Rows and objects
share no commit, so each side must be explained by what the other, or a request in
progress, still knows. `UploadSound` says it of an upload at every step: before its
file is published nobody else has it and no link leads to it, once it is put the object
is there, and what it is about to erase is published only if its commit was in
doubt. Nothing comes back: a file that was handed out and left its upload
unpublished, or was retired, is published by nobody again (`Gone`), and whoever erases
an object holds one of these; a row comes due only when no upload has it and no signed
link leads to it (`RowSound`). Publication is stated once for the three kinds
(`Publishes`), retirement once for withdrawing and closing (`Retires`), and the
worker's bookkeeping once (`Tends`). That an upload publishes over what it saw
(`ReplacesWhatItSaw`) is not its guard, which compares versions: `AllSaw` says that as
long as the version is the one an upload read, what is published is what it saw, and
each action that publishes, moves or withdraws has to move the version or leave less.

### What a customer is told (`NoticesProofs`)

* Reviews: `ReviewsCorrect`, `OnlyShownWhileOffered`. A token was given out once and
  belongs to a pending invitation, nobody but who was told holds the reservation that
  was shown, and a device which found the feature on and holds the current reservation
  finds it on still: pausing takes the reservation away.
* Card events: `NoWakeUpIsLost`, `NothingIsUnlearned`. `Informed` strengthens `QuietStreamIsCurrent` to every
  step of a handler: with nothing pending, a stream about to write has read the last
  movement and one that waits has told it. It holds because a stream subscribes before it
  reads and because its place in the channel outlives the read. A browser has
  the revision its stream last wrote, a stream the broker does not know is down, and
  the broker is ready only with a connection. The broker's count is the cardinality of a
  set that changes by one stream at a time, or is emptied. On top of that invariant, what a stream
  is about to write is never older than what its browser has (`Ahead`), so no step, a
  frame that fails half way included, takes a browser back (`Forward`; a theorem only, no
  run spends a property on it).
* Deliveries: `NothingSentTwiceForNothing`, `LateAnswersChangeNothing`. Duplicates are
  kept in check by a balance (`Balanced`): the messages that left, the workers that
  may still send the row (`Senders`) and the chance that it is claimed without any
  record of a failure (`Unclaimed`) are together at most one more than the reasons there
  were. Every step is shown to be `Fair` to every row. That an answer in hand is
  about the claim it was made under is `HeldIsCurrent`: a mail compares its lease's
  owner and a push its number of attempts, and since only mails give attempts back,
  both come to comparing claims (`AttemptsCounted`, `WorkerSound`). A row that is given
  up while it is still valid had every attempt, or is in `unread`: rejection is only for
  what is void or expired, and every other way to FAILED counts the claims
  (`GivenUpForCause`). `LateAnswersChangeNothing`
  covers a device that registers again for web push, whose registrations are stamped; an
  Expo token that is registered again under the same value can be removed by a late
  answer about it (`push.go:95-98`).

### Only model-checked

Liveness, which this prover does not do: `WaitsAndRefundsEnd`, `EverythingSettles`,
`EveryItemEnds`, `LeftoversAreErased`, `EveryMovementIsSeen`. Every other property of
the runs is stated by a theorem.

## 6. Plan

1. `discountedMinor` and `referralRewardMinor` as functions against a reference
   definition.
2. A subscription shared by `BranchProration` and `SubscriptionBilling`, with the
   active operation that makes the price worker skip the brand.
3. An abstract queue that `Deliveries` implements.

## 7. Not modelled

* The rate limiter and the upload semaphore: each operation is atomic (one Redis
  script, one mutex, non-blocking channel operations), a refused request does
  nothing, and the slot taken is given back by the handler that took it.
* Favorites, lists, backoffice pages, analytics, metrics: reads and updates of
  single rows.
* The HTTP layer, parsing, configuration, JWT and bcrypt, image decoding, SMTP and
  web push encryption: no state that outlives a request.
* `cmd/`: one-shot tools run by an operator, the deletion journal's replay among
  them.
* The branch simulator of development, amounts or currencies that do not match,
  the arithmetic of prorated amounts.
* Provider effects that arrive after a time-out and a later readback: the provider
  promises no bound on them.
* The order of the erasures of photos: `PendingProfileDeletions` takes the oldest under
  a limit and has no back-off, so that objects which the bucket never erases can keep the
  newer ones waiting; in `MediaStore` any of them may be next and failures are bounded.
