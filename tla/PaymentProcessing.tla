------------------------- MODULE PaymentProcessing --------------------------
(***************************************************************************)
(* The life of a payment from POST /v1/payments to its final status: the   *)
(* API process that commits the row and then publishes the task, the       *)
(* broker, the Celery workers running process_payment, the provider        *)
(* simulator, the webhook handler and the reconciliation job.              *)
(*                                                                         *)
(* A step of a process ends where the code commits a transaction, sends a  *)
(* request or talks to the broker, so whatever runs between two of them    *)
(* runs on what was read before.  Refunds are not in this module: a        *)
(* payment here never leaves SUCCEEDED.                                    *)
(***************************************************************************)
EXTENDS PaymentTable

CONSTANTS
    Workers,        \* the slots of the Celery pool (docker-compose.yml: 2)
    Reconcilers,    \* the reconcile_payments tasks that may run at once
    MaxRetries,     \* max_retries of process_payment (the code says 3)
    Scenarios,      \* the X-Test-Scenario values clients may send
    MaxFaults,      \* bound: how often each kind of fault may strike
    Nil             \* no task held, nothing found

AllScenarios == {"success", "declined", "timeout", "server_error",
                 "delayed_success", "delayed_webhook", "duplicate_webhook",
                 "lost_webhook"}

(* publish: the API dies, or the broker refuses, between commit and delay  *)
(* network: a request or a reply is lost, or takes too long                *)
(* disconnect: the peer closes without replying (httpx.RemoteProtocolError)*)
(* rejected: the provider answers 4xx                                      *)
(* redeliver: the broker hands a task out again while its worker runs it   *)
(* crash: the worker process dies and its task is redelivered              *)
(* lost_task: the pool child dies and its task is acknowledged             *)
(* restart: the provider restarts and forgets its records                  *)
FaultKinds == {"publish", "network", "disconnect", "rejected", "redeliver",
               "crash", "lost_task", "restart"}

ASSUME MaxRetriesAssumption == MaxRetries \in Nat
ASSUME ScenariosAssumption == Scenarios \subseteq AllScenarios
ASSUME MaxFaultsAssumption == MaxFaults \in [FaultKinds -> Nat]

(* A queued process_payment message. *)
Tasks == [payment : Payments, retries : 0 .. MaxRetries]

ASSUME NilAssumption == Nil \notin Tasks

VARIABLES
    scenario,       \* the X-Test-Scenario each payment was created with
    unpublished,    \* payments committed by an API process yet to call delay
    queue,          \* how many copies of each task wait in the broker
    pc,             \* where each worker is in process_payment
    task,           \* the task each worker runs, Nil when idle
    leased,         \* workers whose delivery the broker holds unacknowledged
    reply,          \* what the provider call of each worker came back with
    charges,        \* PROVIDER_PAYMENTS of each payment, in creation order
    webhookEvents,  \* the provider_event_id column of webhook_events
    todo,           \* the snapshot rows each reconciler has yet to look up
    finding,        \* the final status a reconciler is about to apply
    faults          \* how often each kind of fault has struck

broker == <<unpublished, queue>>
pool == <<pc, task, leased, reply>>
provider == <<charges>>
reconciliation == <<todo, finding>>
vars == <<table, scenario, broker, pool, provider, webhookEvents,
          reconciliation, faults>>

Locations == {"idle", "start", "call", "answered", "retry", "ack"}

NoReply == [kind |-> "none", id |-> NoId]
Replies == [kind : {"none", "SUCCEEDED", "PROCESSING", "FAILED",
                    "transient", "permanent"},
            id : Nat]

(* webhook: which delivery of the charge's webhook comes next. *)
Charges == [status : {"PROCESSING", "SUCCEEDED", "FAILED"},
            known : BOOLEAN,
            webhook : {"none", "single", "double", "again"}]

Findings == [payment : Payments, status : {"SUCCEEDED", "FAILED"}]

TypeOK ==
    /\ TableTypeOK
    /\ \A p \in Payments : status[p] \notin {"REFUND_PENDING", "REFUNDED"}
    /\ scenario \in [Payments -> AllScenarios]
    /\ unpublished \subseteq Payments
    /\ queue \in [Tasks -> Nat]
    /\ pc \in [Workers -> Locations]
    /\ task \in [Workers -> Tasks \cup {Nil}]
    /\ \A w \in Workers : pc[w] # "idle" => task[w] \in Tasks
    /\ leased \subseteq Workers
    /\ reply \in [Workers -> Replies]
    /\ charges \in [Payments -> Seq(Charges)]
    /\ webhookEvents \subseteq Payments \X Nat
    /\ todo \in [Reconcilers -> SUBSET (Payments \X Nat)]
    /\ finding \in [Reconcilers -> Findings \cup {Nil}]
    /\ faults \in [FaultKinds -> Nat]

Init ==
    /\ TableInit
    /\ scenario = [p \in Payments |-> "success"]
    /\ unpublished = {}
    /\ queue = [t \in Tasks |-> 0]
    /\ pc = [w \in Workers |-> "idle"]
    /\ task = [w \in Workers |-> Nil]
    /\ leased = {}
    /\ reply = [w \in Workers |-> NoReply]
    /\ charges = [p \in Payments |-> <<>>]
    /\ webhookEvents = {}
    /\ todo = [r \in Reconcilers |-> {}]
    /\ finding = [r \in Reconcilers |-> Nil]
    /\ faults = [k \in FaultKinds |-> 0]

Strike(kind) ==
    /\ faults[kind] < MaxFaults[kind]
    /\ faults' = [faults EXCEPT ![kind] = @ + 1]

-----------------------------------------------------------------------------
(* The API process and the broker.                                         *)

(* create_payment up to the commit of the new row: the task is published   *)
(* afterwards, outside the transaction and the lock.                       *)
CreatePayment(p) ==
    /\ InsertPayment(p)
    /\ \E s \in Scenarios : scenario' = [scenario EXCEPT ![p] = s]
    /\ unpublished' = unpublished \cup {p}
    /\ UNCHANGED <<queue, pool, provider, webhookEvents, reconciliation,
                   faults>>

Enqueue(t) == queue' = [queue EXCEPT ![t] = @ + 1]

(* A bug to detect: a replayed request publishes the task again. *)
PublishOnReplay(p) ==
    /\ p \in unpublished
    /\ Enqueue([payment |-> p, retries |-> 0])
    /\ UNCHANGED <<table, scenario, unpublished, pool, provider,
                   webhookEvents, reconciliation, faults>>

PublishTask(p) ==
    /\ p \in unpublished
    /\ unpublished' = unpublished \ {p}
    /\ Enqueue([payment |-> p, retries |-> 0])
    /\ UNCHANGED <<table, scenario, pool, provider, webhookEvents,
                   reconciliation, faults>>

(* The request ends without the task: nobody else will publish it, since a *)
(* replay of the request finds the row and is a duplicate.                 *)
PublishFails(p) ==
    /\ p \in unpublished
    /\ Strike("publish")
    /\ unpublished' = unpublished \ {p}
    /\ UNCHANGED <<table, scenario, queue, pool, provider, webhookEvents,
                   reconciliation>>

-----------------------------------------------------------------------------
(* A worker running process_payment.                                       *)

Goto(w, location) == pc' = [pc EXCEPT ![w] = location]

(* A bug to detect: a PROCESSING payment is left to whoever began it. *)
EntrySkipsProcessing(p) == IF status[p] = "CREATED" THEN "start" ELSE "ack"

(* get_payment and the tests on the status it returned.                    *)
Entry(p) ==
    CASE status[p] \in {"SUCCEEDED", "REFUNDED", "FAILED"} -> "ack"
      [] status[p] = "CREATED" -> "start"
      [] OTHER -> "call"

(* A bug to detect: a message is handed out once too often. *)
AvailableOnceMore(t) == queue[t] >= 0

(* The broker hands out messages it holds. *)
Available(t) == queue[t] > 0

(* A bug to detect: the message is acknowledged before the task runs. *)
AcknowledgedEarly(w) == leased

(* task_acks_late: the broker keeps a message until it is acknowledged. *)
LeaseTo(w) == leased \cup {w}

TakeTask(w) ==
    /\ pc[w] = "idle"
    /\ \E t \in Tasks :
         /\ Available(t)
         /\ queue' = [queue EXCEPT ![t] = @ - 1]
         /\ task' = [task EXCEPT ![w] = t]
         /\ Goto(w, Entry(t.payment))
    /\ leased' = LeaseTo(w)
    /\ UNCHANGED <<table, scenario, unpublished, reply, provider,
                   webhookEvents, reconciliation, faults>>

(* record_transition to PROCESSING, on the strength of the status read     *)
(* when the task began.  A ValueError ends the task.                       *)
StartProcessing(w) ==
    LET p == task[w].payment IN
    /\ pc[w] = "start"
    /\ RecordTransition(p, "PAYMENT_PROCESSING", "PROCESSING", NoId, NoCode)
    /\ Goto(w, IF Refuses(p, "PROCESSING") THEN "ack" ELSE "call")
    /\ UNCHANGED <<scenario, broker, task, leased, reply, provider,
                   webhookEvents, reconciliation, faults>>

-----------------------------------------------------------------------------
(* The provider: create_provider_payment and its client.                   *)

ClientTimeout == 3                       \* seconds, send_payment_to_provider

ProviderDelay(s) ==                      \* seconds asleep before the reply
    CASE s = "timeout" -> 15
      [] s = "delayed_success" -> 5
      [] OTHER -> 0

TimesOut(s) == ProviderDelay(s) > ClientTimeout

(* The record a POST leaves in PROVIDER_PAYMENTS by the time the client    *)
(* has its reply or has given up.  Every POST makes a new one.             *)
ChargeFor(s) ==
    [status |-> CASE s = "declined" -> "FAILED"
                  [] s = "server_error" \/ TimesOut(s) -> "PROCESSING"
                  [] OTHER -> "SUCCEEDED",
     known |-> TRUE,
     webhook |-> CASE s = "delayed_webhook" -> "single"
                   [] s = "duplicate_webhook" -> "double"
                   [] OTHER -> "none"]

(* What send_payment_to_provider returns or raises. *)
ReplyKind(s) ==
    CASE s = "server_error" \/ TimesOut(s) -> "transient"
      [] s = "declined" -> "FAILED"
      [] s \in {"delayed_webhook", "duplicate_webhook", "lost_webhook"} ->
            "PROCESSING"
      [] OTHER -> "SUCCEEDED"

Charge(p) ==
    charges' = [charges EXCEPT ![p] = Append(@, ChargeFor(scenario[p]))]

Return(w, kind, id) ==
    /\ reply' = [reply EXCEPT ![w] = [kind |-> kind, id |-> id]]
    /\ Goto(w, "answered")

Calling(w) ==
    /\ pc[w] = "call"
    /\ UNCHANGED <<table, scenario, broker, task, leased, webhookEvents,
                   reconciliation>>

ProviderAnswers(w) ==
    LET p == task[w].payment IN
    /\ Calling(w)
    /\ Charge(p)
    /\ LET kind == ReplyKind(scenario[p]) IN
       Return(w, kind, IF kind = "transient" THEN NoId ELSE Len(charges[p]) + 1)
    /\ UNCHANGED faults

RequestLost(w) ==
    /\ Calling(w)
    /\ Strike("network")
    /\ Return(w, "transient", NoId)
    /\ UNCHANGED provider

ReplyLost(w) ==
    /\ Calling(w)
    /\ Strike("network")
    /\ Charge(task[w].payment)
    /\ Return(w, "transient", NoId)

ProviderRejects(w) ==
    /\ Calling(w)
    /\ Strike("rejected")
    /\ Return(w, "permanent", NoId)
    /\ UNCHANGED provider

(* The provider took the request and closed the connection: httpx raises   *)
(* RemoteProtocolError, which is neither a timeout nor a network error, so *)
(* nothing in the task catches it and the task ends.                       *)
ProviderHangsUp(w) ==
    /\ Calling(w)
    /\ Strike("disconnect")
    /\ Charge(task[w].payment)
    /\ Goto(w, "ack")
    /\ UNCHANGED reply

(* A request asleep in the provider wakes up after its client has left. *)
ProviderWakes(p) ==
    /\ TimesOut(scenario[p])
    /\ \E n \in DOMAIN charges[p] :
         /\ charges[p][n].known
         /\ charges[p][n].status = "PROCESSING"
         /\ charges' = [charges EXCEPT ![p][n].status = "SUCCEEDED"]
    /\ UNCHANGED <<table, scenario, broker, pool, webhookEvents,
                   reconciliation, faults>>

(* The records, the sleeping requests and the background webhooks are all  *)
(* in the memory of the process.                                           *)
ProviderRestarts ==
    /\ Strike("restart")
    /\ charges' = [p \in Payments |->
                     [n \in DOMAIN charges[p] |->
                        [charges[p][n] EXCEPT !.known = FALSE,
                                              !.webhook = "none"]]]
    /\ UNCHANGED <<table, scenario, broker, pool, webhookEvents,
                   reconciliation>>

-----------------------------------------------------------------------------
(* process_payment after the call.                                         *)

Answered(w, kind) ==
    /\ pc[w] = "answered"
    /\ reply[w].kind = kind
    /\ reply' = [reply EXCEPT ![w] = NoReply]
    /\ UNCHANGED <<scenario, broker, task, leased, provider, webhookEvents,
                   reconciliation, faults>>

FinishSucceeded(w) ==
    /\ Answered(w, "SUCCEEDED")
    /\ RecordTransition(task[w].payment, "PAYMENT_SUCCEEDED", "SUCCEEDED",
                        reply[w].id, NoCode)
    /\ Goto(w, "ack")

AwaitWebhook(w) ==
    /\ Answered(w, "PROCESSING")
    /\ RecordAwaitingWebhook(task[w].payment, reply[w].id)
    /\ Goto(w, "ack")

FinishDeclined(w) ==
    /\ Answered(w, "FAILED")
    /\ RecordTransition(task[w].payment, "PAYMENT_FAILED", "FAILED",
                        reply[w].id, "PROVIDER_DECLINED")
    /\ Goto(w, "ack")

FinishRejected(w) ==
    /\ Answered(w, "permanent")
    /\ RecordTransition(task[w].payment, "PAYMENT_FAILED", "FAILED",
                        NoId, "PROVIDER_REJECTED")
    /\ Goto(w, "ack")

CountRetry(w) ==
    /\ Answered(w, "transient")
    /\ RecordRetry(task[w].payment)
    /\ Goto(w, "retry")

(* A bug to detect: off by one in the test of the retry limit. *)
RetriesLeftShort(t) == t.retries + 1 < MaxRetries

(* ~(self.request.retries >= self.max_retries) *)
RetriesLeft(t) == t.retries < MaxRetries

(* self.retry publishes the next attempt; the countdown only delays it.    *)
RetryLater(w) ==
    /\ pc[w] = "retry"
    /\ RetriesLeft(task[w])
    /\ Enqueue([task[w] EXCEPT !.retries = @ + 1])
    /\ Goto(w, "ack")
    /\ UNCHANGED <<table, scenario, unpublished, task, leased, reply,
                   provider, webhookEvents, reconciliation, faults>>

GiveUp(w) ==
    /\ pc[w] = "retry"
    /\ ~RetriesLeft(task[w])
    /\ RecordTransition(task[w].payment, "PAYMENT_FAILED", "FAILED",
                        NoId, "RETRIES_EXHAUSTED")
    /\ Goto(w, "ack")
    /\ UNCHANGED <<scenario, broker, task, leased, reply, provider,
                   webhookEvents, reconciliation, faults>>

(* Everything that empties a worker: the task is gone from its hands. *)
Release(w) ==
    /\ pc' = [pc EXCEPT ![w] = "idle"]
    /\ task' = [task EXCEPT ![w] = Nil]
    /\ reply' = [reply EXCEPT ![w] = NoReply]
    /\ leased' = leased \ {w}
    /\ UNCHANGED <<table, scenario, unpublished, provider, webhookEvents,
                   reconciliation>>

(* task_acks_late: the message is acknowledged when the task has ended,    *)
(* with or without an exception.                                           *)
Acknowledge(w) ==
    /\ pc[w] = "ack"
    /\ Release(w)
    /\ UNCHANGED <<queue, faults>>

(* The broker connection drops, or the visibility timeout passes, while    *)
(* the task runs: the broker hands out a copy and the worker runs on.      *)
Redeliver(w) ==
    /\ pc[w] # "idle"
    /\ w \in leased
    /\ Strike("redeliver")
    /\ Enqueue(task[w])
    /\ leased' = leased \ {w}
    /\ UNCHANGED <<table, scenario, unpublished, pc, task, reply, provider,
                   webhookEvents, reconciliation>>

WorkerCrashes(w) ==
    /\ pc[w] # "idle"
    /\ Strike("crash")
    /\ IF w \in leased THEN Enqueue(task[w]) ELSE UNCHANGED queue
    /\ Release(w)

(* task_reject_on_worker_lost is off: when the child process of the pool   *)
(* dies, the parent acknowledges its task.  A task that ends with an       *)
(* exception, such as a failed transaction, is acknowledged the same way.  *)
LoseTask(w) ==
    /\ pc[w] # "idle"
    /\ Strike("lost_task")
    /\ Release(w)
    /\ UNCHANGED queue

-----------------------------------------------------------------------------
(* receive_provider_webhook.  The simulator gives each charge one event id *)
(* and always reports SUCCEEDED.                                           *)

(* What deliver_webhook sends after a 2xx. *)
NextDelivery(webhook) == IF webhook = "double" THEN "again" ELSE "none"

SetWebhook(p, n, next) == charges' = [charges EXCEPT ![p][n].webhook = next]

WebhookPending(p, n) ==
    /\ n \in DOMAIN charges[p]
    /\ charges[p][n].webhook # "none"
    /\ UNCHANGED <<scenario, broker, pool, reconciliation, faults>>

WebhookDuplicate(p, n) ==
    /\ WebhookPending(p, n)
    /\ <<p, n>> \in webhookEvents
    /\ SetWebhook(p, n, NextDelivery(charges[p][n].webhook))
    /\ UNCHANGED <<table, webhookEvents>>

AcceptEvent(p, n) ==
    /\ WebhookPending(p, n)
    /\ <<p, n>> \notin webhookEvents
    /\ webhookEvents' = webhookEvents \cup {<<p, n>>}
    /\ SetWebhook(p, n, NextDelivery(charges[p][n].webhook))

WebhookAlreadyFinal(p, n) ==
    /\ status[p] \in {"SUCCEEDED", "REFUNDED"}
    /\ AcceptEvent(p, n)
    /\ UNCHANGED table

WebhookApplies(p, n) ==
    /\ status[p] = "PROCESSING"
    /\ AcceptEvent(p, n)
    /\ Commit(p, "PAYMENT_SUCCEEDED", status[p], "SUCCEEDED", n, NoCode)

(* 409: the transaction rolls back, the event row with it, and             *)
(* deliver_webhook gives up for good.                                      *)
WebhookConflict(p, n) ==
    /\ WebhookPending(p, n)
    /\ <<p, n>> \notin webhookEvents
    /\ status[p] \notin {"SUCCEEDED", "REFUNDED", "PROCESSING"}
    /\ SetWebhook(p, n, "none")
    /\ UNCHANGED <<table, webhookEvents>>

(* The delivery fails, or its reply does: deliver_webhook gives up. *)
WebhookLost(p, n) ==
    /\ WebhookPending(p, n)
    /\ SetWebhook(p, n, "none")
    /\ UNCHANGED <<table, webhookEvents>>

-----------------------------------------------------------------------------
(* reconcile_processing_payments.                                          *)

(* Ten seconds pass without a write to the row. *)
Age(p) ==
    /\ p \in recent
    /\ recent' = recent \ {p}
    /\ UNCHANGED <<status, providerId, failure, retryCount, ledger, outbox,
                   scenario, broker, pool, provider, webhookEvents,
                   reconciliation, faults>>

(* A bug to detect: the age test of the query the wrong way round. *)
DueWhileRecent == {p \in Payments : /\ status[p] = "PROCESSING"
                                    /\ providerId[p] # NoId
                                    /\ p \in recent}

(* The snapshot query; its LIMIT 100 is above the payments of this model.  *)
Due == {p \in Payments : /\ status[p] = "PROCESSING"
                         /\ providerId[p] # NoId
                         /\ p \notin recent}

Snapshot(r) ==
    /\ todo[r] = {} /\ finding[r] = Nil
    /\ Due # {}
    /\ todo' = [todo EXCEPT ![r] = {<<p, providerId[p]>> : p \in Due}]
    /\ UNCHANGED <<table, scenario, broker, pool, provider, webhookEvents,
                   finding, faults>>

(* The next row of the snapshot is looked up at the provider by the id the *)
(* snapshot holds.                                                         *)
NextLookup(r, p, n) ==
    /\ finding[r] = Nil
    /\ <<p, n>> \in todo[r]
    /\ todo' = [todo EXCEPT ![r] = @ \ {<<p, n>>}]
    /\ UNCHANGED <<table, scenario, broker, pool, provider, webhookEvents>>

LookupAnswers(r) ==
    \E p \in Payments : \E n \in DOMAIN charges[p] :
        /\ NextLookup(r, p, n)
        /\ charges[p][n].known
        /\ finding' = [finding EXCEPT ![r] =
              IF charges[p][n].status \in {"SUCCEEDED", "FAILED"}
              THEN [payment |-> p, status |-> charges[p][n].status]
              ELSE Nil]
        /\ UNCHANGED faults

(* 404: the provider has no such record.  The row is left as it is. *)
LookupNotFound(r) ==
    \E p \in Payments : \E n \in DOMAIN charges[p] :
        /\ NextLookup(r, p, n)
        /\ ~charges[p][n].known
        /\ UNCHANGED <<finding, faults>>

LookupFails(r) ==
    /\ Strike("network")
    /\ \E p \in Payments : \E n \in DOMAIN charges[p] : NextLookup(r, p, n)
    /\ UNCHANGED finding

(* The second transaction of the loop body. *)
ReconciledType(new) ==
    IF new = "SUCCEEDED" THEN "PAYMENT_RECONCILED_SUCCEEDED"
                         ELSE "PAYMENT_RECONCILED_FAILED"

ReconciledCode(new) ==
    IF new = "FAILED" THEN "RECONCILED_PROVIDER_FAILURE" ELSE NoCode

(* A bug to detect: the row is not tested again under its lock. *)
ReconcilesUnchecked(p, new) ==
    Commit(p, ReconciledType(new), "PROCESSING", new, providerId[p],
           ReconciledCode(new))

Reconciles(p, new) ==
    \/ /\ status[p] = "PROCESSING"
       /\ Commit(p, ReconciledType(new), "PROCESSING", new, providerId[p],
                 ReconciledCode(new))
    \/ /\ status[p] # "PROCESSING"
       /\ UNCHANGED table

ApplyFinding(r) ==
    /\ finding[r] # Nil
    /\ Reconciles(finding[r].payment, finding[r].status)
    /\ finding' = [finding EXCEPT ![r] = Nil]
    /\ UNCHANGED <<scenario, broker, pool, provider, webhookEvents, todo,
                   faults>>

(* The task dies between two transactions: the rest of its snapshot is     *)
(* left to the next run.                                                   *)
ReconcilerCrashes(r) ==
    /\ todo[r] # {} \/ finding[r] # Nil
    /\ Strike("crash")
    /\ todo' = [todo EXCEPT ![r] = {}]
    /\ finding' = [finding EXCEPT ![r] = Nil]
    /\ UNCHANGED <<table, scenario, broker, pool, provider, webhookEvents>>

-----------------------------------------------------------------------------
Publish(p) == PublishTask(p) \/ PublishFails(p)

CallProvider(w) ==
    \/ ProviderAnswers(w) \/ RequestLost(w) \/ ReplyLost(w)
    \/ ProviderRejects(w) \/ ProviderHangsUp(w)

Finish(w) ==
    \/ FinishSucceeded(w) \/ AwaitWebhook(w) \/ FinishDeclined(w)
    \/ FinishRejected(w) \/ CountRetry(w) \/ RetryLater(w) \/ GiveUp(w)

WorkerStep(w) ==
    TakeTask(w) \/ StartProcessing(w) \/ CallProvider(w) \/ Finish(w)
    \/ Acknowledge(w)

BrokerFault(w) == Redeliver(w) \/ WorkerCrashes(w) \/ LoseTask(w)

Webhook(p, n) ==
    \/ WebhookDuplicate(p, n) \/ WebhookAlreadyFinal(p, n)
    \/ WebhookApplies(p, n) \/ WebhookConflict(p, n) \/ WebhookLost(p, n)

Lookup(r) == LookupAnswers(r) \/ LookupNotFound(r) \/ LookupFails(r)

ReconcilerStep(r) == Snapshot(r) \/ Lookup(r) \/ ApplyFinding(r)

Next ==
    \/ \E p \in Payments : CreatePayment(p) \/ Publish(p) \/ ProviderWakes(p)
                           \/ Age(p)
    \/ \E w \in Workers : WorkerStep(w) \/ BrokerFault(w)
    \/ \E p \in Payments : \E n \in DOMAIN charges[p] : Webhook(p, n)
    \/ \E r \in Reconcilers : ReconcilerStep(r) \/ ReconcilerCrashes(r)
    \/ ProviderRestarts

Spec == Init /\ [][Next]_vars

(* What the deployment keeps running: the API finishes its requests, the   *)
(* pool runs its tasks, the beat schedules reconciliation, time passes and *)
(* the provider's sleeping requests end.  Clients, faults and webhooks owe *)
(* nobody a step.                                                          *)
Fairness ==
    /\ \A p \in Payments : /\ WF_vars(Publish(p))
                           /\ WF_vars(Age(p))
                           /\ WF_vars(ProviderWakes(p))
    /\ \A w \in Workers : WF_vars(WorkerStep(w))
    /\ \A r \in Reconcilers : WF_vars(ReconcilerStep(r))

FairSpec == Spec /\ Fairness

-----------------------------------------------------------------------------
(* Properties that hold whatever fails.                                    *)

(* A payment is final for a reason the provider gave: a SUCCEEDED row      *)
(* names a charge that did succeed, by whichever of the four writers       *)
(* (worker, webhook, reconciliation, late worker) got there first, and a   *)
(* row declined by the provider names a charge that did fail.              *)
FinalStatusBacked ==
    \A p \in Payments :
        /\ status[p] = "SUCCEEDED" =>
              /\ failure[p] = NoCode
              /\ providerId[p] \in DOMAIN charges[p]
              /\ charges[p][providerId[p]].status = "SUCCEEDED"
        /\ status[p] = "FAILED" =>
              /\ failure[p] \in FinalFailures
              /\ failure[p] \in {"PROVIDER_DECLINED",
                                 "RECONCILED_PROVIDER_FAILURE"} =>
                    /\ providerId[p] \in DOMAIN charges[p]
                    /\ charges[p][providerId[p]].status = "FAILED"

Row(p) == <<status[p], providerId[p], failure[p], retryCount[p], ledger[p],
            outbox[p]>>

(* Once SUCCEEDED, neither a task that read the row earlier, nor a second  *)
(* webhook, nor a reconciler with an old snapshot writes the row, its      *)
(* ledger or its outbox again.                                             *)
SucceededIsFinal ==
    [][\A p \in Payments :
          status[p] = "SUCCEEDED" => Row(p)' = Row(p)]_vars

(* The refinement: the outbox is what has been announced. *)
Announced == [p \in Payments |->
                [i \in DOMAIN outbox[p] |-> outbox[p][i].new]]

Lifecycle == INSTANCE PaymentLifecycle WITH announced <- Announced

(* The service implements the lifecycle README.md draws, one permitted and *)
(* announced edge at a time.                                               *)
ImplementsLifecycle == Lifecycle!Spec

-----------------------------------------------------------------------------
(* Properties that fail with some faults: they say which.                  *)

Running(w) == pc[w] \notin {"idle", "ack"}

Queued(p) == {t \in Tasks : t.payment = p /\ queue[t] > 0}

Runners(p) == {w \in Workers : Running(w) /\ task[w].payment = p}

(* The broker has handed out no task twice. *)
OnceDelivered == faults["redeliver"] = 0 /\ faults["crash"] = 0

(* Every task is in the broker or in the hands of a worker that leases it. *)
NothingLost ==
    \A kind \in {"publish", "lost_task", "disconnect", "redeliver"} :
        faults[kind] = 0

(* As long as the broker delivers each task once, one task at a time acts  *)
(* on a payment, across publication, every retry and the pool:             *)
(* process_payment itself takes no lock that would ensure it, its first    *)
(* read (get_payment) being in a transaction of its own.                   *)
SingleFlight ==
    OnceDelivered => \A p \in Payments :
        /\ p \in unpublished => Queued(p) = {} /\ Runners(p) = {}
        /\ \A t \in Queued(p) :
              queue[t] = 1 /\ Queued(p) = {t} /\ Runners(p) = {}
        /\ \A w \in Runners(p) : Runners(p) = {w}

(* tasks.py:316, "Permanent failures immediately finalize the payment": as *)
(* long as the broker delivers each task once, a FAILED payment is never   *)
(* written again.  (A second copy that read CREATED before would move it   *)
(* back to PROCESSING.)                                                    *)
FailedIsFinal ==
    [][OnceDelivered => \A p \in Payments :
          status[p] = "FAILED" => Row(p)' = Row(p)]_vars

(* As long as the broker delivers each task once, every provider charge    *)
(* beyond the first is accounted for by a recorded retry, and retries are  *)
(* exhausted only after all of them were recorded.                         *)
RetriesAccounted ==
    OnceDelivered => \A p \in Payments :
        /\ Len(charges[p]) <= retryCount[p] + 1
        /\ retryCount[p] <= MaxRetries + 1
        /\ failure[p] = "RETRIES_EXHAUSTED" => retryCount[p] = MaxRetries + 1

-----------------------------------------------------------------------------
(* Who will finish a payment.                                              *)

Unfinished(p) == status[p] \in {"CREATED", "PROCESSING"}

Paid(p) == {n \in DOMAIN charges[p] : charges[p][n].status = "SUCCEEDED"}

(* An unfinished payment is never left to nobody: its task is about to be  *)
(* published, is queued or runs, or reconciliation can find the row.       *)
(* It is what acknowledging late buys when a worker crashes.               *)
NoOrphans ==
    NothingLost => \A p \in Payments :
        Unfinished(p) =>
            \/ p \in unpublished
            \/ Queued(p) # {}
            \/ Runners(p) # {}
            \/ status[p] = "PROCESSING" /\ providerId[p] # NoId

(* README.md:177-183: temporary failures are retried, and after the limit  *)
(* the payment is FAILED: every payment accepted reaches a final status,   *)
(* unless a task was lost or the provider forgot its charge.               *)
Dependable == NothingLost /\ faults["restart"] = 0

Settles ==
    \A p \in Payments :
        Unfinished(p) ~> status[p] \in {"SUCCEEDED", "FAILED"} \/ ~Dependable

(* A payment waiting for a webhook is settled by the webhook or by the     *)
(* reconciliation job, even if every task of it is lost, unless the        *)
(* provider forgot the charge.                                             *)
AwaitedPaymentsSettle ==
    \A p \in Payments :
        status[p] = "PROCESSING" /\ providerId[p] # NoId
            ~> status[p] \in {"SUCCEEDED", "FAILED"} \/ faults["restart"] > 0

(* README.md:193-195, for the scenarios that are confirmed by a webhook: a *)
(* payment the provider completed ends up SUCCEEDED, although its webhooks *)
(* may come early, twice or never, unless a task was lost, the provider    *)
(* rejected or forgot it, or the network failed every attempt.             *)
Confirmed(p) ==
    scenario[p] \in {"delayed_webhook", "duplicate_webhook", "lost_webhook"}

ConfirmedPaymentsSucceed ==
    \A p \in Payments :
        Confirmed(p) /\ Paid(p) # {} ~>
            \/ status[p] = "SUCCEEDED"
            \/ ~Dependable
            \/ faults["rejected"] > 0
            \/ faults["network"] > MaxRetries

-----------------------------------------------------------------------------
(* What comments and documents say, against what the code does.            *)

(* provider_client.py:9, "Temporary failure that can safely be retried":   *)
(* retrying a payment does not charge the customer a second time.          *)
AtMostOnePaidCharge ==
    \A p \in Payments : \A m, n \in Paid(p) : m = n

(* README.md:193-195: the provider "may successfully complete a payment",  *)
(* and the system "corrects the local state when necessary": a payment the *)
(* provider completed ends up SUCCEEDED.                                   *)
PaidPaymentsSucceed ==
    \A p \in Payments : Paid(p) # {} ~> status[p] = "SUCCEEDED"
=============================================================================
