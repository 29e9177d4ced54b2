-------------------------- MODULE RefundProcessing ---------------------------
(***************************************************************************)
(* Refunds, composed with the payments they are paid from: POST            *)
(* /v1/payments/{id}/refunds, the workers running process_refund and the   *)
(* refund endpoint of the provider simulator run beside everything         *)
(* PaymentProcessing describes, on the same payments table.                *)
(*                                                                         *)
(* As there, a step ends where the code commits a transaction, sends a     *)
(* request or talks to the broker.  A refund is named by its idempotency   *)
(* key, which UNIQUE (merchant_id, idempotency_key) makes sound.  The      *)
(* requests that change nothing (a replayed key, 404, 409, 422) have no    *)
(* action.  Left out: failure_code and retry_count of a refund, which no   *)
(* code reads back.                                                        *)
(***************************************************************************)
EXTENDS PaymentProcessing, Amounts

CONSTANTS
    Refunds,        \* the idempotency keys refunds may be asked under
    RefundWorkers,  \* slots of the pool that run process_refund
    Modes,          \* the X-Test-Scenario values of refund requests
    Price           \* amount_cents of every payment

AllModes == {"success", "declined", "timeout", "server_error"}

ASSUME RefundsAssumption == IsFiniteSet(Refunds)
ASSUME PriceAssumption == Price \in Nat \ {0}   \* schema: amount_cents > 0
ASSUME ModesAssumption == Modes \subseteq AllModes

(* A queued process_refund message; its max_retries is process_payment's.  *)
RefundTasks == [refund : Refunds, retries : 0 .. MaxRetries]

ASSUME NilAssumptionForRefunds == Nil \notin RefundTasks \cup Payments

VARIABLES
    target,             \* refunds.payment_id, Nil before the INSERT
    amount,             \* refunds.amount_cents, 0 before the INSERT
    mode,               \* the X-Test-Scenario of the request
    refundStatus,       \* refunds.status, NoRow before the INSERT
    refundId,           \* refunds.provider_refund_id, NoId for NULL
    refundLog,          \* refund_events of each refund, in commit order
    unsentRefunds,      \* refunds committed, process_refund.delay to come
    refundQueue,        \* how many copies of each task wait in the broker
    place,              \* where each worker is in process_refund
    job,                \* the task each worker runs, Nil when idle
    onLease,            \* workers whose delivery is unacknowledged
    answer,             \* the provider id read, then what the call returned
    payouts             \* PROVIDER_REFUNDS of each payment, oldest first

refundRows == <<target, amount, mode, refundStatus, refundId, refundLog>>
refundPool == <<place, job, onLease, answer>>
refundVars == <<refundRows, unsentRefunds, refundQueue, refundPool, payouts>>

(* What no step of a refund touches, and what only some steps do. *)
elsewhere == <<scenario, broker, pool, provider, webhookEvents,
               reconciliation>>
paymentSide == <<table, elsewhere>>

everything == <<vars, refundVars>>

RefundStatuses == {"CREATED", "PROCESSING", "SUCCEEDED", "FAILED"}

Places == {"idle", "start", "read", "call", "answered", "retry", "complete",
           "restore", "ack"}

(* `announced`: an outbox record was written in the same transaction. *)
RefundEvents ==
    [type : {"REFUND_CREATED", "REFUND_PROCESSING", "REFUND_SUCCEEDED",
             "REFUND_FAILED", "REFUND_RETRY_SCHEDULED"},
     new : RefundStatuses,
     announced : BOOLEAN]

Payouts == [refund : Refunds, charge : Nat,
            status : {"PROCESSING", "SUCCEEDED", "FAILED"}]

RefundTypeOK ==
    /\ target \in [Refunds -> Payments \cup {Nil}]
    /\ amount \in [Refunds -> 0 .. Price]
    /\ mode \in [Refunds -> AllModes]
    /\ refundStatus \in [Refunds -> RefundStatuses \cup {NoRow}]
    /\ refundId \in [Refunds -> Nat]
    /\ refundLog \in [Refunds -> Seq(RefundEvents)]
    /\ unsentRefunds \subseteq Refunds
    /\ refundQueue \in [RefundTasks -> Nat]
    /\ place \in [RefundWorkers -> Places]
    /\ job \in [RefundWorkers -> RefundTasks \cup {Nil}]
    /\ \A v \in RefundWorkers :
         place[v] # "idle" => /\ job[v] \in RefundTasks
                              /\ target[job[v].refund] \in Payments
    /\ onLease \subseteq RefundWorkers
    /\ answer \in [RefundWorkers -> Replies]
    /\ payouts \in [Payments -> Seq(Payouts)]
    /\ \A r \in Refunds :
         target[r] = Nil <=> refundStatus[r] = NoRow

RefundInit ==
    /\ Init
    /\ target = [r \in Refunds |-> Nil]
    /\ amount = [r \in Refunds |-> 0]
    /\ mode = [r \in Refunds |-> "success"]
    /\ refundStatus = [r \in Refunds |-> NoRow]
    /\ refundId = [r \in Refunds |-> NoId]
    /\ refundLog = [r \in Refunds |-> <<>>]
    /\ unsentRefunds = {}
    /\ refundQueue = [t \in RefundTasks |-> 0]
    /\ place = [v \in RefundWorkers |-> "idle"]
    /\ job = [v \in RefundWorkers |-> Nil]
    /\ onLease = {}
    /\ answer = [v \in RefundWorkers |-> NoReply]
    /\ payouts = [p \in Payments |-> <<>>]

-----------------------------------------------------------------------------
(* The tables.                                                             *)

SetRefund(r, new) == refundStatus' = [refundStatus EXCEPT ![r] = new]

LogRefund(r, type, new, announced) ==
    refundLog' = [refundLog EXCEPT ![r] =
        Append(@, [type |-> type, new |-> new, announced |-> announced])]

(* UPDATE payments SET status, version, updated_at. *)
SetStatus(p, new) ==
    /\ status' = [status EXCEPT ![p] = new]
    /\ recent' = recent \cup {p}
    /\ UNCHANGED <<providerId, failure, retryCount>>

RefundsOf(p, which) ==
    {r \in Refunds : target[r] = p /\ refundStatus[r] \in which}

(* A bug to detect: a refund under way reserves nothing. *)
ReservedIfSettled(p) == Total(amount, RefundsOf(p, {"SUCCEEDED"}), Price)

(* reserved_amount of create_refund. *)
Reserved(p) ==
    Total(amount, RefundsOf(p, {"CREATED", "PROCESSING", "SUCCEEDED"}), Price)

(* successful_total of complete_successful_refund. *)
Refunded(p) == Total(amount, RefundsOf(p, {"SUCCEEDED"}), Price)

(* create_refund up to its commit: the payment's row is locked while the   *)
(* refunds of it are added up and the new one is inserted.                 *)
CreateRefund(r, p) ==
    /\ refundStatus[r] = NoRow
    /\ status[p] = "SUCCEEDED"
    /\ providerId[p] # NoId
    /\ \E cents \in 1 .. Price :
         /\ cents + Reserved(p) <= Price
         /\ amount' = [amount EXCEPT ![r] = cents]
    /\ \E m \in Modes : mode' = [mode EXCEPT ![r] = m]
    /\ target' = [target EXCEPT ![r] = p]
    /\ SetRefund(r, "CREATED")
    /\ LogRefund(r, "REFUND_CREATED", "CREATED", TRUE)
    /\ SetStatus(p, "REFUND_PENDING")
    /\ LogEvent(p, "PAYMENT_REFUND_PENDING", "SUCCEEDED", "REFUND_PENDING")
    /\ unsentRefunds' = unsentRefunds \cup {r}
    /\ UNCHANGED <<outbox, elsewhere, faults, refundId, refundQueue,
                   refundPool, payouts>>

(* A bug to detect: a failed refund may be tried again. *)
ReopeningRefundTransitions ==
    {<<"CREATED", "PROCESSING">>, <<"PROCESSING", "SUCCEEDED">>,
     <<"PROCESSING", "FAILED">>, <<"FAILED", "SUCCEEDED">>}

(* The edges of valid_transitions in record_refund_transition. *)
ValidRefundTransitions ==
    {<<"CREATED", "PROCESSING">>, <<"PROCESSING", "SUCCEEDED">>,
     <<"PROCESSING", "FAILED">>}

(* record_refund_transition returns: it moved the refund, or found it      *)
(* there already.  Otherwise it raises ValueError.                         *)
Permits(r, new) ==
    \/ <<refundStatus[r], new>> \in ValidRefundTransitions
    \/ refundStatus[r] = new

(* A bug to detect: the provider's id is not stored. *)
RefundTransitionWithoutId(r, type, new, id) ==
    /\ UNCHANGED <<target, amount, mode, refundId>>
    /\ IF <<refundStatus[r], new>> \in ValidRefundTransitions
       THEN SetRefund(r, new) /\ LogRefund(r, type, new, TRUE)
       ELSE UNCHANGED <<refundStatus, refundLog>>

(* record_refund_transition. *)
RecordRefundTransition(r, type, new, id) ==
    /\ UNCHANGED <<target, amount, mode>>
    /\ \/ /\ <<refundStatus[r], new>> \in ValidRefundTransitions
          /\ SetRefund(r, new)
          /\ LogRefund(r, type, new, TRUE)
          /\ refundId' = [refundId EXCEPT ![r] = Coalesce(id, @)]
       \/ /\ <<refundStatus[r], new>> \notin ValidRefundTransitions
          /\ UNCHANGED <<refundStatus, refundLog, refundId>>

(* A bug to detect: record_refund_retry without its test of the status. *)
RefundRetryUnchecked(r) ==
    /\ LogRefund(r, "REFUND_RETRY_SCHEDULED", "PROCESSING", FALSE)
    /\ UNCHANGED <<target, amount, mode, refundStatus, refundId>>

(* record_refund_retry: an event, and no outbox record. *)
RecordRefundRetry(r) ==
    \/ /\ refundStatus[r] = "PROCESSING"
       /\ LogRefund(r, "REFUND_RETRY_SCHEDULED", "PROCESSING", FALSE)
       /\ UNCHANGED <<target, amount, mode, refundStatus, refundId>>
    \/ /\ refundStatus[r] # "PROCESSING"
       /\ UNCHANGED refundRows

(* A bug to detect: any successful refund counts as a full one. *)
CompletePaymentAlwaysFull(p) ==
    /\ SetStatus(p, "REFUNDED")
    /\ LogEvent(p, "PAYMENT_REFUNDED", status[p], "REFUNDED")
    /\ Announce(p, "PAYMENT_REFUNDED", "REFUNDED")

(* complete_successful_refund, whatever the status of the payment is.      *)
CompletePayment(p) ==
    LET full == Refunded(p) >= Price
        new == IF full THEN "REFUNDED" ELSE "SUCCEEDED"
        type == IF full THEN "PAYMENT_REFUNDED"
                        ELSE "PAYMENT_PARTIALLY_REFUNDED"
    IN /\ SetStatus(p, new)
       /\ LogEvent(p, type, status[p], new)
       /\ Announce(p, type, new)

(* A bug to detect: the payment is restored whatever its status is by then. *)
RestoreUnchecked(p) == SetStatus(p, "SUCCEEDED") /\ UNCHANGED <<ledger, outbox>>

(* restore_payment_after_failed_refund: no event and no outbox record. *)
RestorePayment(p) ==
    \/ /\ status[p] = "REFUND_PENDING"
       /\ SetStatus(p, "SUCCEEDED")
       /\ UNCHANGED <<ledger, outbox>>
    \/ /\ status[p] # "REFUND_PENDING"
       /\ UNCHANGED table

-----------------------------------------------------------------------------
(* The API process and the broker.                                         *)

EnqueueRefund(t) == refundQueue' = [refundQueue EXCEPT ![t] = @ + 1]

PublishRefund(r) ==
    /\ r \in unsentRefunds
    /\ unsentRefunds' = unsentRefunds \ {r}
    /\ EnqueueRefund([refund |-> r, retries |-> 0])
    /\ UNCHANGED <<paymentSide, faults, refundRows, refundPool, payouts>>

(* The API dies, or the broker refuses, after the commit. *)
RefundPublishFails(r) ==
    /\ r \in unsentRefunds
    /\ Strike("publish")
    /\ unsentRefunds' = unsentRefunds \ {r}
    /\ UNCHANGED <<paymentSide, refundRows, refundQueue, refundPool, payouts>>

-----------------------------------------------------------------------------
(* A worker running process_refund.                                        *)

Step(v, from, to) ==
    /\ place[v] = from
    /\ place' = [place EXCEPT ![v] = to]

(* A bug to detect: a task that finds its refund under way leaves it.      *)
RefundEntrySkips(r) == IF refundStatus[r] = "CREATED" THEN "start" ELSE "ack"

(* get_refund and the tests on the status it returned. *)
RefundEntry(r) ==
    CASE refundStatus[r] = "CREATED" -> "start"
      [] refundStatus[r] = "PROCESSING" -> "read"
      [] OTHER -> "ack"

(* A bug to detect: a message is handed out once too often. *)
WaitingOnceMore(t) == refundQueue[t] >= 0

Waiting(t) == refundQueue[t] > 0

TakeRefund(v) ==
    /\ \E t \in RefundTasks :
         /\ Waiting(t)
         /\ refundQueue' = [refundQueue EXCEPT ![t] = @ - 1]
         /\ job' = [job EXCEPT ![v] = t]
         /\ Step(v, "idle", RefundEntry(t.refund))
    /\ onLease' = onLease \cup {v}
    /\ UNCHANGED <<paymentSide, faults, refundRows, unsentRefunds, answer,
                   payouts>>

(* What a step of a worker between two transactions leaves alone. *)
OnlyWorker ==
    UNCHANGED <<elsewhere, unsentRefunds, job, onLease>>

StartRefund(v) ==
    LET r == job[v].refund IN
    /\ Step(v, "start", IF Permits(r, "PROCESSING") THEN "read" ELSE "ack")
    /\ RecordRefundTransition(r, "REFUND_PROCESSING", "PROCESSING", NoId)
    /\ OnlyWorker
    /\ UNCHANGED <<table, faults, refundQueue, answer, payouts>>

Receive(v, kind, id) ==
    answer' = [answer EXCEPT ![v] = [kind |-> kind, id |-> id]]

(* The payment's provider id is read in a transaction of its own; NULL is  *)
(* a PermanentProviderError.                                               *)
ReadProviderId(v) ==
    LET id == providerId[target[job[v].refund]] IN
    /\ \/ /\ Step(v, "read", "call")
          /\ id # NoId
          /\ Receive(v, "none", id)
       \/ /\ Step(v, "read", "answered")
          /\ id = NoId
          /\ Receive(v, "permanent", NoId)
    /\ OnlyWorker
    /\ UNCHANGED <<table, faults, refundRows, refundQueue, payouts>>

-----------------------------------------------------------------------------
(* The provider: create_provider_refund and its client.  A refund asleep   *)
(* for 15 seconds outlasts the client's 5.                                 *)

PayoutAmounts(p) ==
    [i \in DOMAIN payouts[p] |-> amount[payouts[p][i].refund]]

(* already_refunded: the SUCCEEDED refunds of one charge. *)
PaidOut(p, n) ==
    Total(PayoutAmounts(p),
          {i \in DOMAIN payouts[p] : /\ payouts[p][i].charge = n
                                     /\ payouts[p][i].status = "SUCCEEDED"},
          Price)

(* 404, 409 or 422. *)
Denied(p, n, cents) ==
    \/ n \notin DOMAIN charges[p]
    \/ ~charges[p][n].known
    \/ charges[p][n].status # "SUCCEEDED"
    \/ cents + PaidOut(p, n) > Price

(* The record a POST leaves in PROVIDER_REFUNDS by the time the client has *)
(* its reply or has given up.  Every POST makes a new one.                 *)
PayoutFor(r, n) ==
    [refund |-> r, charge |-> n,
     status |-> CASE mode[r] = "success" -> "SUCCEEDED"
                  [] mode[r] = "declined" -> "FAILED"
                  [] OTHER -> "PROCESSING"]

(* What send_refund_to_provider returns or raises. *)
RefundReplyKind(m) ==
    CASE m = "success" -> "SUCCEEDED"
      [] m = "declined" -> "FAILED"
      [] OTHER -> "transient"

PayOut(r, n) ==
    LET p == target[r] IN
    payouts' = IF Denied(p, n, amount[r]) THEN payouts
               ELSE [payouts EXCEPT ![p] = Append(@, PayoutFor(r, n))]

RefundCalling(v, to) ==
    /\ Step(v, "call", to)
    /\ OnlyWorker
    /\ UNCHANGED <<table, refundRows, refundQueue>>

RefundAnswered(v) ==
    LET r == job[v].refund
        denied == Denied(target[r], answer[v].id, amount[r])
        kind == RefundReplyKind(mode[r])
    IN /\ RefundCalling(v, "answered")
       /\ PayOut(r, answer[v].id)
       /\ \/ denied /\ Receive(v, "permanent", NoId)
          \/ ~denied /\ kind = "transient" /\ Receive(v, kind, NoId)
          \/ /\ ~denied /\ kind # "transient"
             /\ Receive(v, kind, Len(payouts[target[r]]) + 1)
       /\ UNCHANGED faults

(* The request or its reply is lost, or takes too long. *)
RefundCallLost(v) ==
    /\ RefundCalling(v, "answered")
    /\ Strike("network")
    /\ \/ PayOut(job[v].refund, answer[v].id)
       \/ UNCHANGED payouts
    /\ Receive(v, "transient", NoId)

(* httpx.RemoteProtocolError is caught by nothing in the task. *)
RefundHangsUp(v) ==
    /\ RefundCalling(v, "ack")
    /\ Strike("disconnect")
    /\ PayOut(job[v].refund, answer[v].id)
    /\ UNCHANGED answer

(* The sleep of a request whose client has left ends. *)
RefundWakes(p) ==
    /\ \E i \in DOMAIN payouts[p] :
         /\ payouts[p][i].status = "PROCESSING"
         /\ mode[payouts[p][i].refund] = "timeout"
         /\ charges[p][payouts[p][i].charge].known
         /\ payouts' = [payouts EXCEPT ![p][i].status = "SUCCEEDED"]
    /\ UNCHANGED <<paymentSide, faults, refundRows, unsentRefunds,
                   refundQueue, refundPool>>

-----------------------------------------------------------------------------
(* process_refund after the call.                                          *)

(* A refund's last transaction, then the one of its payment; ValueError    *)
(* ends the task before it.                                                *)
Conclude(v, from, type, new, id, next) ==
    LET r == job[v].refund IN
    /\ Step(v, from, IF Permits(r, new) THEN next ELSE "ack")
    /\ RecordRefundTransition(r, type, new, id)
    /\ answer' = [answer EXCEPT ![v] = NoReply]
    /\ OnlyWorker
    /\ UNCHANGED <<table, faults, refundQueue, payouts>>

RefundSucceeds(v) ==
    /\ answer[v].kind = "SUCCEEDED"
    /\ Conclude(v, "answered", "REFUND_SUCCEEDED", "SUCCEEDED", answer[v].id,
                "complete")

RefundDeclined(v) ==
    /\ answer[v].kind = "FAILED"
    /\ Conclude(v, "answered", "REFUND_FAILED", "FAILED", answer[v].id,
                "restore")

RefundRejected(v) ==
    /\ answer[v].kind = "permanent"
    /\ Conclude(v, "answered", "REFUND_FAILED", "FAILED", NoId, "restore")

CountRefundRetry(v) ==
    /\ answer[v].kind = "transient"
    /\ Step(v, "answered", "retry")
    /\ RecordRefundRetry(job[v].refund)
    /\ answer' = [answer EXCEPT ![v] = NoReply]
    /\ OnlyWorker
    /\ UNCHANGED <<table, faults, refundQueue, payouts>>

RetryRefund(v) ==
    /\ Step(v, "retry", "ack")
    /\ RetriesLeft(job[v])
    /\ EnqueueRefund([job[v] EXCEPT !.retries = @ + 1])
    /\ OnlyWorker
    /\ UNCHANGED <<table, faults, refundRows, answer, payouts>>

GiveUpRefund(v) ==
    /\ Conclude(v, "retry", "REFUND_FAILED", "FAILED", NoId, "restore")
    /\ ~RetriesLeft(job[v])

CompleteRefund(v) ==
    /\ Step(v, "complete", "ack")
    /\ CompletePayment(target[job[v].refund])
    /\ OnlyWorker
    /\ UNCHANGED <<faults, refundRows, refundQueue, answer, payouts>>

RestoreAfterRefund(v) ==
    /\ Step(v, "restore", "ack")
    /\ RestorePayment(target[job[v].refund])
    /\ OnlyWorker
    /\ UNCHANGED <<faults, refundRows, refundQueue, answer, payouts>>

ReleaseRefund(v) ==
    /\ place' = [place EXCEPT ![v] = "idle"]
    /\ job' = [job EXCEPT ![v] = Nil]
    /\ answer' = [answer EXCEPT ![v] = NoReply]
    /\ onLease' = onLease \ {v}
    /\ UNCHANGED <<paymentSide, refundRows, unsentRefunds, payouts>>

AcknowledgeRefund(v) ==
    /\ place[v] = "ack"
    /\ ReleaseRefund(v)
    /\ UNCHANGED <<faults, refundQueue>>

(* A bug to detect: the message is acknowledged before the task runs. *)
CrashForgets(v) == UNCHANGED refundQueue

(* task_acks_late: the broker redelivers what was not acknowledged. *)
CrashRedelivers(v) ==
    IF v \in onLease THEN EnqueueRefund(job[v]) ELSE UNCHANGED refundQueue

RefundWorkerCrashes(v) ==
    /\ place[v] # "idle"
    /\ Strike("crash")
    /\ CrashRedelivers(v)
    /\ ReleaseRefund(v)

LoseRefundTask(v) ==
    /\ place[v] # "idle"
    /\ Strike("lost_task")
    /\ ReleaseRefund(v)
    /\ UNCHANGED refundQueue

RedeliverRefund(v) ==
    /\ place[v] # "idle"
    /\ v \in onLease
    /\ Strike("redeliver")
    /\ EnqueueRefund(job[v])
    /\ onLease' = onLease \ {v}
    /\ UNCHANGED <<paymentSide, refundRows, unsentRefunds, place, job, answer,
                   payouts>>

-----------------------------------------------------------------------------
SendRefund(r) == PublishRefund(r) \/ RefundPublishFails(r)

CallRefundProvider(v) ==
    RefundAnswered(v) \/ RefundCallLost(v) \/ RefundHangsUp(v)

FinishRefund(v) ==
    \/ RefundSucceeds(v) \/ RefundDeclined(v) \/ RefundRejected(v)
    \/ CountRefundRetry(v) \/ RetryRefund(v) \/ GiveUpRefund(v)
    \/ CompleteRefund(v) \/ RestoreAfterRefund(v)

RefundWorkerStep(v) ==
    \/ TakeRefund(v) \/ StartRefund(v) \/ ReadProviderId(v)
    \/ CallRefundProvider(v) \/ FinishRefund(v) \/ AcknowledgeRefund(v)

RefundFault(v) ==
    RefundWorkerCrashes(v) \/ LoseRefundTask(v) \/ RedeliverRefund(v)

RefundStep ==
    \/ \E r \in Refunds : \/ \E p \in Payments : CreateRefund(r, p)
                          \/ SendRefund(r)
    \/ \E v \in RefundWorkers : RefundWorkerStep(v) \/ RefundFault(v)
    \/ \E p \in Payments : RefundWakes(p)

PaymentStep == Next /\ UNCHANGED refundVars

RefundNext == RefundStep \/ PaymentStep

RefundSpec == RefundInit /\ [][RefundNext]_everything

(* Besides what keeps payments going: the API finishes its requests, the   *)
(* pool runs its tasks, sleeping requests end.                             *)
RefundFairness ==
    /\ Fairness
    /\ \A r \in Refunds : WF_everything(SendRefund(r))
    /\ \A v \in RefundWorkers : WF_everything(RefundWorkerStep(v))
    /\ \A p \in Payments : WF_everything(RefundWakes(p))

FairRefundSpec == RefundSpec /\ RefundFairness

-----------------------------------------------------------------------------
(* Properties that hold whatever fails.                                    *)

(* README.md:66, in the service's own books: the refunds under way and     *)
(* done never come to more than the payment, even when a late copy of      *)
(* process_payment returns it to SUCCEEDED while a refund is under way and *)
(* a second refund is then accepted beside it.                             *)
RefundsWithinPayment == \A p \in Payments : Reserved(p) <= Price

(* A refund that SUCCEEDED or FAILED is never written again, although the  *)
(* tasks that run it test a status read before the lock.                   *)
RefundRow(r) == <<target[r], amount[r], refundStatus[r], refundId[r],
                  refundLog[r]>>

RefundIsFinal ==
    [][\A r \in Refunds :
          refundStatus[r] \in {"SUCCEEDED", "FAILED"} =>
              RefundRow(r)' = RefundRow(r)]_everything

(* A refund is SUCCEEDED only for a refund the provider made of it, from a *)
(* charge of its payment that was paid, and FAILED with a provider's id    *)
(* only for one that the provider declined.                                *)
BackedBy(r, outcome) ==
    /\ refundId[r] \in DOMAIN payouts[target[r]]
    /\ payouts[target[r]][refundId[r]].refund = r
    /\ payouts[target[r]][refundId[r]].status = outcome

RefundsBacked ==
    \A r \in Refunds :
        /\ refundStatus[r] = "SUCCEEDED" => BackedBy(r, "SUCCEEDED")
        /\ refundStatus[r] = "FAILED" /\ refundId[r] # NoId =>
              BackedBy(r, "FAILED")

(* A payment is REFUNDED only when all of it has been given back, however  *)
(* the completions of its refunds interleave.                              *)
RefundedInFull ==
    \A p \in Payments : status[p] = "REFUNDED" => Refunded(p) = Price

(* The refund_events of a refund end at its status and move along          *)
(* valid_transitions, and exactly the moves were announced (README.md:205). *)
RefundHistory ==
    \A r \in Refunds :
        LET log == refundLog[r] IN
        IF refundStatus[r] = NoRow
        THEN log = <<>>
        ELSE /\ log # <<>>
             /\ log[1].type = "REFUND_CREATED" /\ log[1].announced
             /\ log[Len(log)].new = refundStatus[r]
             /\ \A i \in 2 .. Len(log) :
                  IF log[i].announced
                  THEN <<log[i - 1].new, log[i].new>>
                          \in ValidRefundTransitions
                  ELSE log[i].new = log[i - 1].new

(* The reserve refunding promises. *)
ReserveState ==
    [r \in Refunds |->
        CASE refundStatus[r] = NoRow -> "unasked"
          [] refundStatus[r] = "SUCCEEDED" -> "spent"
          [] refundStatus[r] = "FAILED" -> "returned"
          [] OTHER -> "held"]

Reserve == INSTANCE RefundReserve WITH state <- ReserveState

ImplementsReserve == Reserve!Spec

-----------------------------------------------------------------------------
(* Properties that fail with some faults: they say so.                     *)

UnderWay(r) == refundStatus[r] \in {"CREATED", "PROCESSING"}

TaskDropped ==
    \E kind \in {"publish", "disconnect", "lost_task"} : faults[kind] > 0

(* Someone is between the refund's last transaction and the payment's. *)
Closing(p) == \E v \in RefundWorkers : /\ place[v] \in {"complete", "restore"}
                                       /\ target[job[v].refund] = p

(* As long as no task was dropped and no worker died, a payment without a  *)
(* refund under way is not left REFUND_PENDING, and it is REFUNDED exactly *)
(* when its refunds add up to it: with copies of process_refund and of     *)
(* process_payment running late and completing in any order.               *)
BooksAgree ==
    \A p \in Payments :
        /\ ~TaskDropped /\ faults["crash"] = 0
        /\ \A r \in Refunds : target[r] = p => ~UnderWay(r)
        /\ ~Closing(p)
        => /\ status[p] # "REFUND_PENDING"
           /\ status[p] = "REFUNDED" <=> Refunded(p) = Price

(* Every refund accepted is decided, unless its task was dropped; a worker *)
(* that crashes only delays it.                                            *)
RefundsSettle ==
    \A r \in Refunds : UnderWay(r) ~> ~UnderWay(r) \/ TaskDropped

(* README.md:141-142: a payment does not stay REFUND_PENDING.              *)
PendingPaymentsReturn ==
    \A p \in Payments :
        status[p] = "REFUND_PENDING" ~>
            \/ status[p] # "REFUND_PENDING"
            \/ TaskDropped
            \/ faults["crash"] > 0

-----------------------------------------------------------------------------
(* What the documents say, against what the code does.                     *)

(* README.md:67, "Payment transition to REFUNDED after a complete refund". *)
CompleteRefundsRefund ==
    \A p \in Payments : Refunded(p) = Price ~> status[p] = "REFUNDED"

(* README.md:66, "Prevention of refunds greater than the remaining         *)
(* refundable amount": what the provider pays back for a payment is not    *)
(* more than its amount.                                                   *)
PaidBackWithinPayment ==
    \A p \in Payments :
        Total(PayoutAmounts(p),
              {i \in DOMAIN payouts[p] : payouts[p][i].status = "SUCCEEDED"},
              Price) <= Price
=============================================================================
