# PayFlow: specification, model checking and proofs

This directory holds TLA+ specifications of the payment API in this repository,
the TLC configurations that check them on small instances, and TLAPS proofs of
their main properties for every value of their constants. `PROJECT.json` maps
each definition to the lines of code it stands for.

Paths below are relative to the repository; `tasks.py` is `app/workers/tasks.py`,
and so on.

## 1. The system

### Parts, state and operations

| Part | Code | State it keeps | Operations |
|---|---|---|---|
| Payment creation | `api/payments.py`, `services/payment_service.py` | none of its own; a request goes lock → transaction → release → publish → answer | `create_payment`, `create_idempotent_payment` |
| Idempotency lock | `services/idempotency.py` | a Redis key per merchant and idempotency key: the owner's token, 30 s | `SET NX EX`, release by a token-checked script |
| Payment tables | `schema.sql` | `payments`, `payment_events` (ledger), `outbox_events`, `webhook_events` | INSERT, and UPDATE under `SELECT ... FOR UPDATE` |
| Payment task | `workers/tasks.py`, `workers/celery_app.py` | the message (payment, retry number) and whether it is acknowledged | `process_payment`, `record_transition`, `record_awaiting_webhook`, `record_retry` |
| Provider client | `services/provider_client.py` | none | POST a payment (3 s timeout), GET a payment, POST a refund (5 s timeout) |
| Provider simulator | `provider_simulator/main.py` | `PROVIDER_PAYMENTS`, `PROVIDER_REFUNDS`, in memory; sleeping requests; webhooks to deliver | create, look up, refund, deliver webhooks |
| Webhook handler | `api/webhooks.py` | one `webhook_events` row per provider event | `receive_provider_webhook` |
| Reconciliation | `services/reconciliation.py` | a snapshot of old PROCESSING rows | select, look up, apply |
| Refunds | `api/refunds.py`, `services/refund_service.py`, `tasks.py:437-` | `refunds`, `refund_events`, REFUND_PENDING on the payment | create, `process_refund`, complete or restore the payment |
| Outbox publisher | `services/outbox_publisher.py` | `status`, `attempts`, `available_at` of outbox rows; a Redis stream | `publish_pending_outbox_events` |
| Rate limiter | `core/rate_limit.py`, added twice in `main.py` | a Redis counter per API key and window | count, refuse, let pass when Redis fails |
| Migrations | `scripts/migrate.py` | the migrations applied | apply each pending file |

### How they interact

The API commits a payment row, releases the lock and then publishes a Celery
message. A worker reads the row in one transaction and acts on what it read in
later ones: it moves the row to PROCESSING, posts to the provider without holding
any transaction, and records the answer. A retry is a new message, published
before the current one is acknowledged. The provider may confirm by webhook; the
handler, the reconciliation job and the workers are three writers of the same row
that meet only at its row lock. Every status change adds an outbox row that a
scheduled job publishes.

A refund takes a payment from SUCCEEDED to REFUND_PENDING when it is accepted, and
its task takes the payment back, or on to REFUNDED, in a transaction of its own
after the one that decided the refund. The payment's own tasks and the refund's
share the row, so a late copy of one meets the other.

### What is hard

* Everything a worker, a handler or the reconciler knows was read in an earlier
  transaction, or before a network call.
* Messages are acknowledged late, so a task may run twice at once. A pool child
  that dies loses its task, a worker that dies has it redelivered.
* A request to the provider that times out may still succeed, and the provider
  has no idempotency key: a retry is another charge.
* A webhook may come before the provider id is stored, twice, late or never.
* Commit and publication are separate steps, in both directions: the row may
  exist without a message.
* A refund and its payment are two rows written in two transactions, by a task that
  returns early when it runs again; a refund that timed out is posted again.
* The Redis lock may be lost while its owner works, and Redis may time out after
  it has executed a command.

### What makes each part correct

* Creation and lock: one payment, one message per key; replays are told of that
  payment and only if they ask for the same; a lock is only released by its owner.
* Tables: the ledger tells the history of the row; the outbox holds every change.
* Task, webhook, reconciliation: a final status rests on a finished charge; a
  success is never overwritten; no unfinished payment is left to nobody; every
  payment settles.
* Refunds: the sum of refunds never exceeds the payment; a refund is decided once,
  by the provider's answer; the payment is REFUNDED exactly when all of it was
  given back; REFUND_PENDING ends.
* Publisher: at least once, nothing marked published that was not; order.
* Rate limiter: a client is refused only beyond the limit. Migrations: each applied once.

## 2. Modules

| Module | Models |
|---|---|
| `PaymentTable` | the three tables and the transactions on them; one operator per transaction |
| `PaymentLifecycle` | the abstract specification: a payment moves one permitted edge at a time and each move is announced |
| `PaymentProcessing` | API publication, broker, worker pool, provider, webhooks, reconciliation, faults; properties |
| `PaymentInvariants` | the inductive strengthenings of those properties |
| `MCPaymentProcessing` | fault budgets, scenario sets and symmetry for TLC |
| `PaymentProcessingProofs`, `PaymentSafetyProofs`, `PaymentDeliveryProofs` | proofs |
| `IdempotencyContract` | the abstract specification of an idempotency key, without a lock |
| `IdempotentCreation` | the creation endpoint with its lock; properties |
| `MCIdempotentCreation`, `IdempotentCreationProofs` | its instance and its proofs |
| `OutboxPublisher` | runs of the scheduled publisher; properties |
| `MCOutboxPublisher`, `OutboxPublisherProofs` | its instance and its proofs |
| `Amounts` | `SUM(amount_cents)` of a set of refunds |
| `RefundReserve` | the abstract specification of refunding: an amount is held once, then spent or returned for good |
| `RefundProcessing` | the refund endpoint, its task and the provider's refunds, beside all of `PaymentProcessing`; properties |
| `MCRefundProcessing` | its instance |
| `AmountTheorems`, `RefundReserveProofs`, `RefundProcessingProofs` | proofs |
| `RateLimit` | the two layers of the rate limiter, for one client |

### PaymentTable and PaymentProcessing

A step ends where the code commits a transaction, sends a request or talks to the
broker. So `process_payment` has these places (`pc`): `start` (it read CREATED),
`call` (the request is being made), `answered` (a reply is in `reply[w]`), `retry`
(record_retry has committed, the next message not yet published), `ack` (the body
has ended, the message is not yet acknowledged). What a worker read is in its
place: a task at `start` acts on a CREATED that may no longer be true, exactly as
in the code, where `record_transition` tests the status again under the lock.

| Code | Model |
|---|---|
| `create_idempotent_payment`, INSERT | `CreatePayment` (`InsertPayment`); the payment is then in `unpublished` |
| `process_payment.delay` | `PublishTask`, or `PublishFails` |
| `get_payment` and early returns | `TakeTask`, `Entry` |
| `record_transition` | `RecordTransition`: permitted move, silent repetition or ValueError |
| `send_payment_to_provider` | `Charge` with `ReplyKind`; `RequestLost`, `ReplyLost`, `ProviderRejects`, `ProviderHangsUp` |
| simulator's `sleep` and later update | a charge whose status stays PROCESSING until `ProviderWakes` |
| reply handling | `FinishSucceeded`, `AwaitWebhook`, `FinishDeclined`, `FinishRejected`, `CountRetry`, then `RetryLater` or `GiveUp` |
| `receive_provider_webhook` | `WebhookDuplicate`, `WebhookAlreadyFinal`, `WebhookApplies`, `WebhookConflict` (the 409, whose event row is rolled back) |
| `reconcile_processing_payments` | `Snapshot`, one lookup per row, `ApplyFinding` |
| broker and pool | `queue`, `leased`, `Redeliver`, `WorkerCrashes`, `LoseTask` |

A provider id is the index of a charge in `charges[p]`. `updated_at` is kept as the
set `recent`, which is all that reconciliation asks of it. Back-off delays are not
modelled: a queued message may be taken at any time. The reconciler's `LIMIT 100`
is above the number of payments of the model.

### IdempotentCreation

A request goes `lock` → `insert` → `release` → `publish` → `done`, or `lock` →
`read` → `done` when another holds the lock. A payment and a lock token are named
by the request that drew them (both are fresh `uuid4`s). Failures of Redis, the
database and the broker strike before or after the command took effect. The lock
may vanish at any time (`LockExpires`): by its 30 s, or because Redis lost it.
A body has a `content`, which the request hash covers, and a `spelling`, which it
does not: the case of the currency and the test scenario. `CreatePayment` and
`Publish` of `PaymentProcessing` are what this module shows of one key: a payment
created once, and published at most once.

### OutboxPublisher

A run of the publisher selects a batch of unlocked pending rows (`Select`), handles
them by `created_at` (`Publish`, `PublishFails`) and commits (`Commit`), or loses its
transaction (`Lose`). What it will commit is in `added` and `putOff`; what is in the
Redis stream cannot be taken back, so a lost transaction leaves an event sent and
PENDING. An XADD may raise after it took effect. The back-off evaluates
`POWER(2, attempts + 1)` before `LEAST` caps it: at `MaxExponent` (1023 in
PostgreSQL's double precision) the UPDATE raises and the transaction is lost. Rows
become visible in any order (`CommitEvent`), whatever their `created_at`.

### RefundProcessing

The module extends `PaymentProcessing`: `RefundNext` is a refund step or any step of
the payment side, so webhooks, late copies of `process_payment` and the reconciler
run between the steps of a refund, and `RefundStep` writes the same `status`,
`ledger` and `outbox`. A worker running `process_refund` has these places:

| Code | Model |
|---|---|
| `create_refund` up to its commit | `CreateRefund` |
| `process_refund.delay` | `PublishRefund`, or `RefundPublishFails` |
| `get_refund` and early returns | `TakeRefund`, `RefundEntry` |
| `record_refund_transition` to PROCESSING | place `start`: `StartRefund` |
| the provider id read in its own transaction | place `read`: `ReadProviderId` |
| `send_refund_to_provider`, `create_provider_refund` | place `call`: `RefundAnswered`, `RefundCallLost`, `RefundHangsUp`; a refund asleep in the provider ends with `RefundWakes` |
| the refund's last transaction | place `answered` or `retry`: `RefundSucceeds`, `RefundDeclined`, `RefundRejected`, `GiveUpRefund` (`Conclude`) |
| `record_refund_retry`, then `self.retry` | `CountRefundRetry`, `RetryRefund` |
| `complete_successful_refund` | place `complete`: `CompleteRefund` |
| `restore_payment_after_failed_refund` | place `restore`: `RestoreAfterRefund` |

Between `answered` and `complete` or `restore` the worker may die: that gap is the
module's main subject. Amounts are kept, because sums of them decide what is
accepted and what REFUNDED means; `Total` counts them in cents. Workers of refunds
and of payments are separate sets, a pool that is never too busy for one of the two.
Provider's refund ids are indices into `payouts[p]`. Requests that change nothing
(a known key, 404, 409, 422) have no action.

### RateLimit

A request of one client passes two layers (`outer`, `inner`). Each looks at the clock
(`SeeWindow`) and then counts on the key of the window it saw, which may have turned in
between. INCR and EXPIRE are one MULTI, so `Count` is one step; a RedisError lets the
request pass, counted or not (`FailOpen`). A key lasts a second longer than a window
after it was counted on, so it expires only once its window is over (`KeyExpires`).

## 3. Runs

Every cfg says `CHECK_DEADLOCK FALSE`: once each payment, or request, is done and
no fault is left to strike, nothing has to happen.

| Run | Shows |
|---|---|
| `delivery` | every kind of fault, any two of them: type, ledger, outbox, backing, SUCCEEDED final, refinement of `PaymentLifecycle`; one task at a time, retries that account for every charge, FAILED final and nobody left behind, each unless a fault the property names has struck |
| `settles` | liveness, with every scenario, network faults and one other fault: `Settles` (every payment ends), `AwaitedPaymentsSettle` (one that has its provider id ends even if tasks are dropped), `ConfirmedPaymentsSucceed` (a paid one to be confirmed by webhook ends SUCCEEDED although webhooks are lost) |
| `creation` | every failure, an expiring lock, two keys: one payment per key, one message, faithful replays, one answer as new, the lock's ownership, refinement of `IdempotencyContract` |
| `outbox` | overlapping runs, failing XADDs, lost transactions, the overflow: marked only after sent; duplicates accounted for; liveness: every committed event is published once failures stop |
| `refunds` | two refunds of one payment, late copies of both kinds of task, every kind of fault, any two of them: the reserve, backing by the provider, REFUNDED in full and only then, history, finality, agreement of the payment with its refunds, refinement of `RefundReserve` |
| `refunds_settle` | liveness, every mode of the refund endpoint, any one fault of every kind: a refund is decided, REFUND_PENDING ends |
| `safe_retry`, `paid_but_failed`, `refund_completion`, `refund_total`, `restoration_logged`, `rate_limit` | disagreements with the documentation, section 5 |

Properties that some fault defeats name that fault (`OnceDelivered`, `NothingLost`,
`Dependable`, `TaskDropped`) and are checked in the runs that include it, so what is
checked is also that no other fault defeats them. The name is a counter of what has
struck, not of what may strike.

### Bounds

* One payment, two workers, one reconciler. Payments share only the pool and the
  broker, so a second payment adds no interference on the row. Two workers are what
  docker-compose starts, and two writers of a row at a time plus the webhook and the
  reconciler meet in every order.
* `MaxRetries = 1` (the code has 3): a first attempt, a retry and giving up all
  happen, and the limit is compared at its boundary.
* `MaxFaults`: each kind of fault strikes at most once in a run that includes it, at
  any point.
* `TwoFaults`, `OneFault`, `OneFaultAndNetwork` (constraints): how many kinds of fault
  strike in one behaviour; in `settles` the network's does not count. A fault is
  never owed by fairness, so the behaviours cut off take one fault more, and the
  liveness of those that remain is checked in full.
* Webhooks, sleeping requests and lookups have no bound of their own.
* `DistinctScenarios` (run `delivery`): `delayed_success` differs from `timeout`
  only in how long the provider sleeps beyond the client's 3 s; `server_error` is
  a request that never wakes, which a step that need not happen includes;
  `delayed_webhook` and `lost_webhook` deliver a subset of what
  `duplicate_webhook` may. The runs of the other properties use all scenarios, or
  those named in their cfg.
* Creation: three requests reach a lock taken by the second while the first still
  works and released while the third waits, under one key or beside another; two
  contents and two spellings tell a replay from a different request. Symmetry is used
  for invariants and action properties only, over requests, refunds or workers, which
  no property names.
* Refunds: two refunds of a payment of two cents are one full, two partial, or one
  too many; two refund workers run both at once, or two copies of one; one payment
  worker and its redelivery give the late copy that meets REFUND_PENDING. In
  `refunds`, the payment is of the scenario `success` without a reconciler, and a
  call that fails is left to network faults; `refunds_settle` has the modes `timeout`
  and `server_error`, with one refund.
* Rate limiter: two requests and a limit of two, the smallest instance that disagrees.
* Outbox: three events and batches of two, so that a batch leaves a row to the other
  run. `MaxExponent = 1` brings the overflow within two
  failures; `MaxFailures = 2` lets one event fail twice or two once, `MaxAborts = 1`.

### Fairness

`FairSpec` asks weak fairness of what the deployment keeps running: the API ends
its requests (`Publish`), each worker goes on (`WorkerStep`), Celery beat runs
reconciliation every 15 s (`ReconcilerStep`), time passes (`Age`) and the
provider's `sleep`s end (`ProviderWakes`). Nothing is asked of clients, of webhook
deliveries or of faults. `IdempotentCreation` has no liveness property.
`OutboxPublisher` asks the same of the publisher's runs, every 5 s, and of time;
failures are finitely many, which is what "once Redis and the database answer
again" means. `FairRefundSpec` adds the same for refunds: the API ends its requests
(`SendRefund`), the pool goes on (`RefundWorkerStep`), the provider's sleeps end
(`RefundWakes`). `RateLimit` has no liveness property.

## 4. Proofs

All proofs are for any sets of payments, workers, reconcilers, requests and keys, any
finite set of refunds, any positive price (`schema.sql:22`), any retry limit and any
budget of faults. The assumptions are those the modules name (`MaxRetriesAssumption`,
`PriceAssumption`, `NilAssumption`, ...); TLC evaluates them in every run.

| Theorem | States |
|---|---|
| `TypeCorrect` | `TypeOK`; the payment side never writes a refund status |
| `LedgerCorrect`, `OutboxCorrect` | `LedgerConsistent`, `OutboxComplete` |
| `SucceededNeverRewritten` | `SucceededIsFinal` |
| `LifecycleImplemented` | `PaymentProcessing` implements `PaymentLifecycle` |
| `BackingAlways`, `FinalStatusAlwaysBacked` | `Backing`, hence `FinalStatusBacked` |
| `OneTaskAtATime`, `SingleFlightAlways`, `FailedNeverRewritten` | `OneAtATime`, hence `SingleFlight`; `FailedIsFinal`: both until a redelivery or a crash strikes |
| `NeverOrphaned`, `NoOrphansAlways` | `Owned`, hence `NoOrphans`: until a publication, task, message or connection is lost |
| `AlwaysCounted`, `RetriesAlwaysAccounted` | `Counted`, hence `RetriesAccounted`: until a redelivery or a crash strikes |
| `CreationTypeCorrect`, `BookkeepingAlways`, `OnePaymentAlways`, `AlwaysHandedOverOnce`, `ReplayAlwaysFaithful`, `AcceptedAlwaysHandedOver`, `ExactlyOneAlwaysNew`, `LockAlwaysRespected` | the properties of the run `creation` |
| `ContractHonoured` | `IdempotentCreation` implements `IdempotencyContract` |
| `OutboxTypeCorrect`, `RowsAlwaysHeldOnce`, `AlwaysMarkedAfterSent`, `DuplicatesAlwaysAccounted` | the safety properties of the run `outbox` |
| `ReserveWithinPrice` | `RefundReserve` never holds and spends more than the payment |
| `ReserveImplemented`, `RefundsAlwaysWithinPayment` | `RefundProcessing` implements `RefundReserve`; `RefundsWithinPayment` |
| `RefundTypeCorrect`, `RefundNeverRewritten`, `RefundedOnlyInFull`, `RefundsAlwaysBacked`, `RefundHistoryAlways`, `BooksAlwaysAgree` | the other properties of the run `refunds` |
| `PaymentsAndRefunds`, `RefundsKeepBacking`, `RefundsKeepSingleFlight`, `RefundsKeepOwners`, `RefundsKeepFailed` | `FinalStatusBacked`, `SingleFlight`, `NoOrphans` and `FailedIsFinal` of `RefundSpec`: payments and refunds together |

No theorem assumes anything of the budget of faults.

**The ledger.** `StepWrites` reduces every action to four ways of writing one row
(`Written`). The ledger, the final SUCCEEDED and the refinement follow from those
four, so an action more or less changes one case.

**The outbox.** `OutboxComplete` says that the moves of a ledger (the events that change
the status, and the creation) are as many as the outbox records, and that the n-th
record announces the n-th move, a move's number being the count of moves up to it. It
is inductive given the ledger's consistency: an event appended leaves the numbers of
the earlier ones alone (`AppendMoves`), and a transaction appends a move and its record
together (`MoveAnnounced`) or an event that is no move and no record (`StayAnnounced`).

**Backing.** `FinalStatusBacked` is not inductive: a worker that holds a reply, or
a reconciler that holds a finding, will write it later. `Backing` says of each of
them what has to be true: rows exist before anything acts on them, a charge ends
as its scenario says, the provider id of a row names a finished charge, and replies
and findings agree with the charge they name. A restart of the provider does not
break it, because a record that is forgotten (`known`) did finish.

**One task at a time.** `SingleFlight` counts publication, queue and workers as one
token per payment. `FreshStart` adds that a worker that read CREATED still finds
it so, since only a worker moves a payment from CREATED and there is one. With it
FAILED is final; after a redelivery it need not be (section 5).

**Nobody is left.** `NoOrphans` needs that a running worker's message is still
leased (so a crash puts it back) and that a worker past its first transaction works
on a payment that is not CREATED (so that leaving it by a webhook leaves a provider
id behind).

**Retries.** `RetriesAccounted` needs to know which attempt is in flight. `Counted` says,
of a payment whose messages are delivered once, that nothing is charged or counted
before the first task starts; that the message of a payment that is not final, and the
task that runs it, carry the number of retries recorded so far (a task between
`record_retry` and the next message carries one less); and that the attempt under way is
the one charge that may not be counted yet. It rests on `OneAtATime`, which makes that
message unique. `Counted` was checked by TLC on the instance of the run `delivery` before
it was proved.

**Idempotency.** `Bookkeeping` says that a row is the request that inserted it,
that this request has decided, that an undecided request has done nothing, and that
only a creator reaches the publication, once. The lock appears nowhere in it: the
endpoint keeps its contract by the unique constraint alone, as
`idempotency.py:67` says.

**The outbox publisher.** `RowsHeldOnce` says that an open row is in the hands of one
run, pending, and in one place of its batch; so a row's counts change by one run's
commit, and an XADD adds a copy of a row that nobody else has sent.

**Refunds on the payment side's proofs.** The lemmas about the payment side are
stated of `Typed`, the type invariant without the clause that excludes the refund
statuses, so they hold of the composed system too: `RefundProcessingProofs` uses
`StepKeepsTyped`, `BackingStep`, `OneAtATimeStep` and `OwnedStep` for every step of
`PaymentStep`, and adds what a step of `RefundStep` does. What a payment step may do to a
row that has refunds is `PaymentMoves`, which includes the move a late copy of the task
makes from REFUND_PENDING to SUCCEEDED.

**Payments beside their refunds.** A refund's completion writes the status of its payment
without looking at it, so the composition is safe only if no payment with a refund is
ever PROCESSING or FAILED again. That is `RefundsOfPaid`: a refund is accepted for a
SUCCEEDED payment, and from SUCCEEDED, REFUND_PENDING and REFUNDED every writer stays
among the three (`StaysPaid`). With it a refund changes nothing that `Backing`,
`OneAtATime` or `Owned` speak of, and `Together`, their conjunction with the types, is
inductive. Three properties of payments alone do not carry over, and TLC shows each
failing in the composition: `LedgerConsistent` (run `restoration_logged`),
`OutboxComplete` (accepting a refund and restoring a payment announce nothing of the
payment) and `RetriesAccounted` (section 5).

**The reserve.** `RefundReserve` gets its invariant from counting: holding an amount
adds exactly that many cents to `Taken` (`TotalAdd`), and returning one only removes
some (`TotalMonotone`). Each step of `RefundProcessing` is one step of it or a
stutter, because only `CreateRefund` and `Conclude` write what it sees, so the
guarantee does not depend on what the payment's status does meanwhile;
`RefundsWithinPayment` comes of the same count on the concrete side.

**Refunds backed.** A worker that holds an answer will write it later, so the
invariant (`RefundBacking`) says of each answer what `RefundsBacked` says of each row,
and that an undecided refund has no provider id yet. The record an answer or a
decided row names has ended, so `RefundWakes` cannot change it.

**Refunded in full.** `CompletePayment` adds up SUCCEEDED refunds, which never become
anything else: the sum that justified REFUNDED can only grow, and by the reserve it
stays at the price. No payment step leaves REFUNDED or enters it.

**The books.** `BooksAgree` speaks of the moment nobody is at work, so its invariant
(`BooksKept`) says who is: as long as no task was dropped and no worker died, a
REFUND_PENDING payment has a refund under way or a worker about to close one
(`Attended`), and a payment given back in full is REFUNDED or has a worker about to
complete it (`SettledUp`). A refund is decided and its worker goes to `complete` or
`restore` in one step (`DecisionStep`), and stays there until it writes the payment
(`ClosingStep`). The worker that completes last adds up all refunds, and `restore` writes
only REFUND_PENDING, so a restoration cannot undo REFUNDED. This is where a positive
price is needed: a payment of nothing would be given back before any refund. TLC checked
`BooksKept` on the instance of the run `refunds` before it was proved.

Only model-checked: liveness (`Settles`, `AwaitedPaymentsSettle`,
`ConfirmedPaymentsSucceed`, `EventuallyPublished`, `RefundsSettle`,
`PendingPaymentsReturn`), which under fairness is beyond the proof system. Every other
property of a passing run is a theorem.

## 5. Where the code and its documentation disagree

* `safe_retry`. `provider_client.py:9` calls a transient error one "that can safely
  be retried". It is raised for a timeout, after which the provider may complete the
  request; the retry posts again, and both charges are paid. No fault is needed:
  the `timeout` scenario shows it.
* `paid_but_failed`. `README.md:193-195` says that reconciliation corrects a payment
  the provider completed. A charge that completes after the client's timeout leaves
  no provider id, the retries end in FAILED, and reconciliation selects PROCESSING
  rows with a provider id only.
* `refund_completion`. `README.md:67` says that a payment becomes REFUNDED after a
  complete refund. If the worker dies between `REFUND_SUCCEEDED` and
  `complete_successful_refund`, the redelivered task finds the refund SUCCEEDED and
  returns (`tasks.py:460`): the payment stays REFUND_PENDING.
* `refund_total`. `README.md:66` says that refunds cannot exceed what is refundable.
  The service's books keep to it (`RefundsWithinPayment`, proved), but a refund that
  times out is posted again, and the provider completes both: it counts completed
  refunds only, and does not recognise the refund's id.
* `restoration_logged`. `README.md:146` says that every important transition is
  written to `payment_events`. The restoration of a payment after a failed refund
  is not: the ledger ends at REFUND_PENDING while the row is SUCCEEDED. The last step
  of the trace leaves the payment's outbox as it was, too (next list, second point).
* `rate_limit`. `main.py` adds the rate limiter twice and both layers count, so a
  client configured for `RATE_LIMIT_REQUESTS` requests is refused after half of them.

Two more have no run of their own:

* `README.md:139` draws the edge `FAILED --> PROCESSING: Retry`. Retries happen before
  FAILED: a task counts them while the payment is PROCESSING, and FAILED is where they
  end. `process_payment` returns early on FAILED. `tasks.py:79` permits the edge, but
  only a second copy that read CREATED before the first one failed the payment takes
  it (`FailedIsFinal` states that nobody else does).
* `README.md:205-209` says that payment and refund state changes create an outbox record
  in the same transaction. Two changes of a payment do not. Accepting a refund moves it
  to REFUND_PENDING with a `payment_events` row and an outbox record of the refund only
  (`refunds.py:214-313`), and restoring it writes neither (`refund_service.py:356-367`).
  `OutboxComplete` is therefore a theorem of `Spec` and fails in `RefundSpec` as soon as
  a refund is accepted; TLC shows it when `restoration_logged.cfg` is given
  `OutboxComplete` for its invariant.

Known from the model and not contradicted by a document:

* A payment whose message is never published stays CREATED, a replay is told of it
  and publishes nothing, and no job looks for it (hazard at `payments.py:113`). The
  same goes for a refund (`refunds.py:315`). The properties it defeats name it.
* A second copy of `process_payment` that read CREATED moves a payment that the first
  one has failed back to PROCESSING, and one that reads REFUND_PENDING charges again
  and moves the payment to SUCCEEDED under the refund (`tasks.py:346`). `FailedIsFinal`
  therefore holds only while each message is delivered once; the books of the refunds
  survive both (`RefundsWithinPayment`, `BooksAgree`).
* The charge of a refunded payment needs no redelivery: when the reply to a charge is
  lost, the retry waits in the broker; its webhook comes and a refund is accepted before
  the retry is taken, and the retry then reads REFUND_PENDING and charges again without
  a retry recorded. `RetriesAccounted` is therefore a theorem of `Spec` and false of
  `RefundSpec`.

## 6. Plan

Done: payments, creation, outbox publisher, refunds and their composition with
payments, rate limiter. Left, in this order:

1. `OutboxPublisher` as the consumer side of `PaymentTable`'s `outbox`, and what
   becomes of the order of one payment's events.
2. `RetriesAccounted` in a form that also holds beside refunds: charges made of a
   payment that had not been paid when they were sent.

## 7. Not modelled, and why

* `LIMIT 100` of the reconciler: the model takes every due row, which is the code
  below 100 of them. Beyond, rows the provider does not know stay the oldest and are
  looked up first (hazard at `reconciliation.py:27`); telling this needs the order of
  `updated_at` over more rows than the other properties can afford.
* Migrations: applied at deployment, before the program runs; without a lock, so of two
  instances deployed at once one may fail to start (hazard at `migrate.py:33`).
* GET endpoints, health, metrics, logging, request ids: they read or count, and
  nothing reads what they write.
* Requests that change nothing: a refund request under a key already used is
  answered with that refund, whatever it asks for; two at once may be answered with
  409 or 500 instead (hazard at `refunds.py:57`).
* Authentication, signatures and payload validation: they refuse a request before
  any state changes.
* `version`, currencies, merchants: written once or never read by a decision.
  Amounts matter to refunds only and are in that module. `failure_code` and
  `retry_count` of a refund are read back by nothing.
* Back-off times and the 30 s, 15 s and 10 s periods: only their order relative to
  other events matters, and any order is allowed.
* The 500 of `payment_service.py:191`, for a conflicting row that cannot be read:
  no code deletes payments, so it cannot happen.
