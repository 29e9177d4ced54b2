---------------------- MODULE PaymentProcessingProofs -----------------------
(***************************************************************************)
(* Proofs about PaymentProcessing, for any number of payments, workers and *)
(* reconcilers, any retry limit and any budget of faults.                  *)
(***************************************************************************)
EXTENDS PaymentProcessing, SequenceTheorems, FiniteSetTheorems, TLAPS

(* The types of the variables outside the tables. *)
SystemTypeOK ==
    /\ scenario \in [Payments -> AllScenarios]
    /\ unpublished \subseteq Payments
    /\ queue \in [Tasks -> Nat]
    /\ pc \in [Workers -> Locations]
    /\ task \in [Workers -> Tasks \cup {Nil}]
    /\ \A w \in Workers : pc[w] # "idle" => task[w] \in Tasks
    /\ leased \subseteq Workers
    /\ reply \in [Workers -> Replies]
    /\ charges \in [Payments -> Seq(Charges)]
    /\ webhookEvents \subseteq Payments \X Nat
    /\ todo \in [Reconcilers -> SUBSET (Payments \X Nat)]
    /\ finding \in [Reconcilers -> Findings \cup {Nil}]
    /\ faults \in [FaultKinds -> Nat]

(* Type correctness but for the statuses that only refunds reach, so that   *)
(* the lemmas below also serve where payments are refunded.                *)
Typed == TableTypeOK /\ SystemTypeOK

LEMMA TypedSplit ==
    TypeOK <=> /\ Typed
               /\ \A p \in Payments :
                     status[p] \notin {"REFUND_PENDING", "REFUNDED"}
BY DEF TypeOK, Typed, SystemTypeOK

(* The variables of the tables that a status is told by: all but `recent`. *)
rows == <<status, providerId, failure, retryCount, ledger, outbox>>

(* A step that writes no row: at most some rows grow older. *)
RowsKept == UNCHANGED rows /\ recent' \subseteq recent

(* The edges the payment side takes: record_transition is only ever called *)
(* with PROCESSING, SUCCEEDED or FAILED.  The last edge is open to a task   *)
(* that runs late, once there are refunds.                                 *)
PaymentMoves == {<<"CREATED", "PROCESSING">>, <<"PROCESSING", "SUCCEEDED">>,
                 <<"PROCESSING", "FAILED">>, <<"FAILED", "PROCESSING">>,
                 <<"REFUND_PENDING", "SUCCEEDED">>}

Moved(p) ==
    \E type \in EventTypes, new \in Statuses, id \in Nat,
       code \in FailureCodes :
          /\ <<status[p], new>> \in PaymentMoves
          /\ Commit(p, type, status[p], new, id, code)

(* What one transaction may do to the row of p. *)
Written(p) ==
    \/ InsertPayment(p)
    \/ Moved(p)
    \/ /\ status[p] = "PROCESSING"
       /\ \E id \in Nat : RecordAwaitingWebhook(p, id)
    \/ status[p] = "PROCESSING" /\ RecordRetry(p)

(* record_transition to one of the three statuses moves the payment along  *)
(* an edge of PaymentMoves or leaves the tables alone.                     *)
LEMMA TransitionIsMove ==
    ASSUME TableTypeOK,
           NEW p \in Payments, NEW type \in EventTypes,
           NEW new \in {"PROCESSING", "SUCCEEDED", "FAILED"},
           NEW id \in Nat, NEW code \in FailureCodes,
           RecordTransition(p, type, new, id, code)
    PROVE  Moved(p) \/ UNCHANGED table
<1>1. CASE <<status[p], new>> \in ValidTransitions
           /\ Commit(p, type, status[p], new,
                     Coalesce(id, providerId[p]), code)
  <2>1. Coalesce(id, providerId[p]) \in Nat
    BY DEF Coalesce, TableTypeOK
  <2>2. <<status[p], new>> \in PaymentMoves
    BY <1>1 DEF ValidTransitions, PaymentMoves
  <2>3. new \in Statuses
    BY DEF Statuses
  <2> QED
    BY <1>1, <2>1, <2>2, <2>3 DEF Moved
<1>2. CASE UNCHANGED table
  BY <1>2
<1> QED
  BY <1>1, <1>2 DEF RecordTransition

(* The two INSERTs append an event of the right type. *)
LEMMA EventTyped ==
    ASSUME TableTypeOK, NEW p \in Payments, NEW type \in EventTypes,
           NEW prev \in Statuses \cup {NoRow}, NEW new \in Statuses
    PROVE  /\ LogEvent(p, type, prev, new) =>
                 ledger' \in [Payments -> Seq(LedgerEvents)]
           /\ Announce(p, type, new) =>
                 outbox' \in [Payments -> Seq(OutboxEvents)]
<1> DEFINE e == [type |-> type, prev |-> prev, new |-> new]
           a == [type |-> type, new |-> new]
<1>1. e \in LedgerEvents /\ a \in OutboxEvents
  BY DEF TableTypeOK, LedgerEvents, OutboxEvents
<1>2. ledger[p] \in Seq(LedgerEvents) /\ outbox[p] \in Seq(OutboxEvents)
  BY DEF TableTypeOK
<1> HIDE DEF e, a
<1>3. /\ Append(ledger[p], e) \in Seq(LedgerEvents)
      /\ Append(outbox[p], a) \in Seq(OutboxEvents)
  BY <1>1, <1>2
<1>4. LogEvent(p, type, prev, new) => ledger' = [ledger EXCEPT ![p] = Append(@, e)]
  BY DEF LogEvent, e
<1>5. Announce(p, type, new) => outbox' = [outbox EXCEPT ![p] = Append(@, a)]
  BY DEF Announce, a
<1> QED
  BY <1>3, <1>4, <1>5 DEF TableTypeOK

(* Every write of a row keeps the types of the tables. *)
LEMMA WrittenType ==
    ASSUME TableTypeOK, NEW p \in Payments, Written(p)
    PROVE  TableTypeOK'
<1> USE DEF TableTypeOK
<1>1. CASE InsertPayment(p)
  BY <1>1, EventTyped DEF InsertPayment, EventTypes, Statuses
<1>2. CASE Moved(p)
  <2>1. PICK type \in EventTypes, new \in Statuses, id \in Nat,
             code \in FailureCodes : Commit(p, type, status[p], new, id, code)
    BY <1>2 DEF Moved
  <2> QED
    BY <2>1, EventTyped DEF Commit
<1>3. ASSUME NEW id \in Nat, status[p] = "PROCESSING",
             RecordAwaitingWebhook(p, id)
      PROVE  TableTypeOK'
  <2>1. ledger' \in [Payments -> Seq(LedgerEvents)]
    BY <1>3, EventTyped DEF RecordAwaitingWebhook, EventTypes, Statuses
  <2> QED
    BY <1>3, <2>1 DEF RecordAwaitingWebhook
<1>4. CASE status[p] = "PROCESSING" /\ RecordRetry(p)
  <2>1. ledger' \in [Payments -> Seq(LedgerEvents)]
    BY <1>4, EventTyped DEF RecordRetry, EventTypes, Statuses
  <2>2. "TRANSIENT" \in FailureCodes
    BY DEF FailureCodes
  <2>3. /\ retryCount' = [retryCount EXCEPT ![p] = @ + 1]
        /\ failure' = [failure EXCEPT ![p] = "TRANSIENT"]
        /\ recent' = recent \cup {p}
        /\ UNCHANGED <<status, providerId, outbox>>
    BY <1>4 DEF RecordRetry
  <2>4. retryCount' \in [Payments -> Nat]
    BY <2>3
  <2>5. failure' \in [Payments -> FailureCodes] /\ recent' \subseteq Payments
    BY <2>2, <2>3
  <2> QED
    BY <2>1, <2>3, <2>4, <2>5
<1> QED
  BY <1>1, <1>2, <1>3, <1>4 DEF Written

(* Every write of a row leaves it in a status of the payment side. *)
LEMMA WrittenStatus ==
    ASSUME TableTypeOK, NEW p \in Payments, Written(p),
           \A q \in Payments : status[q] \notin {"REFUND_PENDING", "REFUNDED"}
    PROVE  \A q \in Payments : status'[q] \notin {"REFUND_PENDING", "REFUNDED"}
<1> USE DEF TableTypeOK
<1>1. CASE InsertPayment(p)
  BY <1>1 DEF InsertPayment
<1>2. CASE Moved(p)
  BY <1>2 DEF Moved, Commit, PaymentMoves
<1>3. CASE UNCHANGED status
  BY <1>3
<1> QED
  BY <1>1, <1>2, <1>3 DEF Written, RecordAwaitingWebhook, RecordRetry, table

-----------------------------------------------------------------------------
(* Every step writes at most one row, as Written says.                     *)
LEMMA StepWrites ==
    ASSUME Typed, [Next]_vars
    PROVE  RowsKept \/ \E p \in Payments : Written(p)
<1> USE DEF RowsKept, rows, table
<1>1. ASSUME NEW p \in Payments,
             CreatePayment(p) \/ Publish(p) \/ ProviderWakes(p) \/ Age(p)
      PROVE  RowsKept \/ Written(p)
  BY <1>1 DEF CreatePayment, Publish, PublishTask, PublishFails,
              ProviderWakes, Age, Written
<1>2. ASSUME NEW w \in Workers, WorkerStep(w)
      PROVE  RowsKept \/ \E p \in Payments : Written(p)
  <2>1. CASE TakeTask(w) \/ CallProvider(w) \/ RetryLater(w)
             \/ Acknowledge(w)
    BY <2>1 DEF TakeTask, CallProvider, ProviderAnswers, RequestLost,
                ReplyLost, ProviderRejects, ProviderHangsUp, Calling,
                RetryLater, Acknowledge, Release
  <2>2. SUFFICES ASSUME pc[w] \in {"start", "answered", "retry"},
                        ~(TakeTask(w) \/ CallProvider(w) \/ RetryLater(w)
                          \/ Acknowledge(w))
                 PROVE  RowsKept \/ \E p \in Payments : Written(p)
    BY <1>2, <2>1 DEF WorkerStep, StartProcessing, Finish, FinishSucceeded,
                      AwaitWebhook, FinishDeclined, FinishRejected,
                      CountRetry, GiveUp, Answered
  <2> DEFINE p == task[w].payment
  <2>3. task[w] \in Tasks /\ p \in Payments
    BY <2>2 DEF Typed, SystemTypeOK, Tasks
  <2>4. reply[w].id \in Nat
    BY DEF Typed, SystemTypeOK, Replies
  <2>5. TableTypeOK
    BY DEF Typed
  <2>6. NoId \in Nat /\ NoCode \in FailureCodes
        /\ {"PROVIDER_DECLINED", "PROVIDER_REJECTED", "RETRIES_EXHAUSTED"}
              \subseteq FailureCodes
        /\ {"PAYMENT_PROCESSING", "PAYMENT_SUCCEEDED", "PAYMENT_FAILED"}
              \subseteq EventTypes
    BY DEF NoId, FailureCodes, FinalFailures, EventTypes
  <2> HIDE DEF p
  <2>7. ASSUME NEW type \in EventTypes,
               NEW new \in {"PROCESSING", "SUCCEEDED", "FAILED"},
               NEW id \in Nat, NEW code \in FailureCodes,
               RecordTransition(p, type, new, id, code)
        PROVE  RowsKept \/ \E q \in Payments : Written(q)
    BY <2>3, <2>5, <2>7, TransitionIsMove DEF Written
  <2>8. CASE StartProcessing(w)
    BY <2>6, <2>7, <2>8 DEF StartProcessing, p
  <2>9. CASE FinishSucceeded(w)
    BY <2>4, <2>6, <2>7, <2>9 DEF FinishSucceeded, p
  <2>10. CASE AwaitWebhook(w)
    BY <2>3, <2>4, <2>10 DEF AwaitWebhook, Written, RecordAwaitingWebhook, p
  <2>11. CASE FinishDeclined(w)
    BY <2>4, <2>6, <2>7, <2>11 DEF FinishDeclined, p
  <2>12. CASE FinishRejected(w)
    BY <2>6, <2>7, <2>12 DEF FinishRejected, p
  <2>13. CASE CountRetry(w)
    BY <2>3, <2>13 DEF CountRetry, Written, RecordRetry, p
  <2>14. CASE GiveUp(w)
    BY <2>6, <2>7, <2>14 DEF GiveUp, p
  <2> QED
    BY <1>2, <2>2, <2>8, <2>9, <2>10, <2>11, <2>12, <2>13, <2>14
       DEF WorkerStep, Finish
<1>3. ASSUME NEW w \in Workers, BrokerFault(w)
      PROVE  RowsKept
  BY <1>3 DEF BrokerFault, Redeliver, WorkerCrashes, LoseTask, Release
<1>4. ASSUME NEW p \in Payments, NEW n \in DOMAIN charges[p], Webhook(p, n)
      PROVE  RowsKept \/ Written(p)
  <2>1. CASE WebhookApplies(p, n)
    <3>1. n \in Nat
      BY DEF Typed, SystemTypeOK
    <3>2. <<status[p], "SUCCEEDED">> \in PaymentMoves
          /\ "SUCCEEDED" \in Statuses /\ NoCode \in FailureCodes
          /\ "PAYMENT_SUCCEEDED" \in EventTypes
      BY <2>1 DEF WebhookApplies, PaymentMoves, Statuses, FailureCodes,
                  EventTypes
    <3> QED
      BY <2>1, <3>1, <3>2 DEF WebhookApplies, Moved, Written
  <2>2. CASE UNCHANGED table
    BY <2>2
  <2> QED
    BY <1>4, <2>1, <2>2 DEF Webhook, WebhookDuplicate, WebhookAlreadyFinal,
                            WebhookConflict, WebhookLost
<1>5. ASSUME NEW r \in Reconcilers, ReconcilerStep(r) \/ ReconcilerCrashes(r)
      PROVE  RowsKept \/ \E p \in Payments : Written(p)
  <2>1. CASE ApplyFinding(r)
    <3> DEFINE p == finding[r].payment
               new == finding[r].status
    <3>1. p \in Payments /\ new \in {"SUCCEEDED", "FAILED"}
      BY <2>1 DEF ApplyFinding, Typed, SystemTypeOK, Findings
    <3>2. providerId[p] \in Nat
      BY <3>1 DEF Typed, TableTypeOK
    <3>3. ReconciledType(new) \in EventTypes
          /\ ReconciledCode(new) \in FailureCodes /\ new \in Statuses
      BY <3>1 DEF ReconciledType, ReconciledCode, EventTypes, FailureCodes,
                  FinalFailures, Statuses
    <3> HIDE DEF p, new
    <3>4. Reconciles(p, new)
      BY <2>1 DEF ApplyFinding, p, new
    <3>5. CASE UNCHANGED table
      BY <3>5
    <3>6. CASE status[p] = "PROCESSING"
               /\ Commit(p, ReconciledType(new), "PROCESSING", new,
                         providerId[p], ReconciledCode(new))
      <4>1. <<status[p], new>> \in PaymentMoves
        BY <3>1, <3>6 DEF PaymentMoves
      <4>2. Moved(p)
        BY <3>2, <3>3, <3>6, <4>1 DEF Moved
      <4> QED
        BY <3>1, <4>2 DEF Written
    <3> QED
      BY <3>4, <3>5, <3>6 DEF Reconciles
  <2>2. CASE Snapshot(r) \/ Lookup(r) \/ ReconcilerCrashes(r)
    BY <2>2 DEF Snapshot, Lookup, LookupAnswers, LookupNotFound, LookupFails,
                NextLookup, ReconcilerCrashes
  <2> QED
    BY <1>5, <2>1, <2>2 DEF ReconcilerStep
<1>6. CASE ProviderRestarts
  BY <1>6 DEF ProviderRestarts
<1>7. CASE UNCHANGED vars
  BY <1>7 DEF vars
<1> QED
  BY <1>1, <1>2, <1>3, <1>4, <1>5, <1>6, <1>7 DEF Next

-----------------------------------------------------------------------------
(* Type correctness.                                                       *)

(* Counting a fault keeps the fault counters typed. *)
LEMMA StrikeTyped ==
    ASSUME faults \in [FaultKinds -> Nat], NEW kind \in FaultKinds,
           Strike(kind)
    PROVE  faults' \in [FaultKinds -> Nat]
BY DEF Strike

(* A fault that has struck is not forgotten. *)
LEMMA FaultsStay ==
    ASSUME faults \in [FaultKinds -> Nat], [Next]_vars,
           NEW kind \in FaultKinds, faults'[kind] = 0
    PROVE  faults[kind] = 0
<1>1. ASSUME NEW other \in FaultKinds, Strike(other)
      PROVE  faults[kind] = 0
  BY <1>1 DEF Strike
<1>2. ASSUME NEW p \in Payments, CreatePayment(p) \/ Publish(p)
                                   \/ ProviderWakes(p) \/ Age(p)
      PROVE  faults[kind] = 0
  BY <1>1, <1>2 DEF CreatePayment, Publish, PublishTask, PublishFails,
                    ProviderWakes, Age, FaultKinds
<1>3. ASSUME NEW w \in Workers, BrokerFault(w) \/ CallProvider(w)
      PROVE  faults[kind] = 0
  BY <1>1, <1>3 DEF BrokerFault, Redeliver, WorkerCrashes, LoseTask,
                    CallProvider, ProviderAnswers, RequestLost, ReplyLost,
                    ProviderRejects, ProviderHangsUp, FaultKinds
<1>4. ASSUME NEW w \in Workers,
             \/ TakeTask(w) \/ StartProcessing(w) \/ Finish(w)
             \/ Acknowledge(w)
      PROVE  faults[kind] = 0
  BY <1>4 DEF TakeTask, StartProcessing, Finish, FinishSucceeded,
              AwaitWebhook, FinishDeclined, FinishRejected, CountRetry,
              RetryLater, GiveUp, Answered, Acknowledge
<1>5. ASSUME NEW p \in Payments, NEW n \in DOMAIN charges[p], Webhook(p, n)
      PROVE  faults[kind] = 0
  BY <1>5 DEF Webhook, WebhookDuplicate, WebhookAlreadyFinal,
              WebhookApplies, WebhookConflict, WebhookLost, AcceptEvent,
              WebhookPending
<1>6. ASSUME NEW r \in Reconcilers, ReconcilerStep(r) \/ ReconcilerCrashes(r)
      PROVE  faults[kind] = 0
  BY <1>1, <1>6 DEF ReconcilerStep, Snapshot, Lookup, LookupAnswers,
                    LookupNotFound, LookupFails, ApplyFinding,
                    ReconcilerCrashes, FaultKinds
<1>7. CASE ProviderRestarts
  BY <1>1, <1>7 DEF ProviderRestarts, FaultKinds
<1> QED
  BY <1>2, <1>3, <1>4, <1>5, <1>6, <1>7 DEF Next, WorkerStep, vars

(* Queueing a task keeps the queue typed. *)
LEMMA EnqueueTyped ==
    ASSUME queue \in [Tasks -> Nat], NEW t \in Tasks, Enqueue(t)
    PROVE  queue' \in [Tasks -> Nat]
BY DEF Enqueue

(* Emptying a worker keeps the pool typed. *)
LEMMA ReleaseTyped ==
    ASSUME SystemTypeOK, NEW w \in Workers, Release(w),
           queue' \in [Tasks -> Nat], faults' \in [FaultKinds -> Nat]
    PROVE  SystemTypeOK'
<1>1. /\ pc' \in [Workers -> Locations]
      /\ task' \in [Workers -> Tasks \cup {Nil}]
      /\ reply' \in [Workers -> Replies]
  BY DEF SystemTypeOK, Release, Locations, Replies, NoReply, NoId
<1> QED
  BY <1>1 DEF SystemTypeOK, Release, provider, reconciliation

(* The charge a scenario leaves, appended to the provider's records. *)
LEMMA ChargeTyped ==
    ASSUME SystemTypeOK, NEW p \in Payments
    PROVE  /\ ChargeFor(scenario[p]) \in Charges
           /\ Charge(p) => charges' \in [Payments -> Seq(Charges)]
<1>1. ChargeFor(scenario[p]) \in Charges
  BY DEF ChargeFor, Charges
<1>2. charges[p] \in Seq(Charges)
  BY DEF SystemTypeOK
<1> DEFINE c == ChargeFor(scenario[p])
<1> HIDE DEF c
<1>3. Append(charges[p], c) \in Seq(Charges)
  BY <1>1, <1>2 DEF c
<1>4. Charge(p) => charges' = [charges EXCEPT ![p] = Append(@, c)]
  BY DEF Charge, c
<1> QED
  BY <1>1, <1>3, <1>4 DEF SystemTypeOK

(* Rewriting one charge. *)
LEMMA RewriteTyped ==
    ASSUME SystemTypeOK, NEW p \in Payments, NEW n \in DOMAIN charges[p],
           NEW c \in Charges,
           charges' = [charges EXCEPT ![p] = [@ EXCEPT ![n] = c]]
    PROVE  charges' \in [Payments -> Seq(Charges)]
<1>1. charges[p] \in Seq(Charges)
  BY DEF SystemTypeOK
<1>2. [charges[p] EXCEPT ![n] = c] \in Seq(Charges)
  BY <1>1
<1> QED
  BY <1>2 DEF SystemTypeOK

(* The steps of a worker keep the variables outside the tables typed. *)
LEMMA WorkerTyped ==
    ASSUME Typed, NEW w \in Workers, WorkerStep(w) \/ BrokerFault(w)
    PROVE  SystemTypeOK'
<1>0. SystemTypeOK
  BY DEF Typed
<1> USE DEF broker, pool, provider, reconciliation, Goto
<1> DEFINE p == task[w].payment
<1>1. pc[w] # "idle" =>
        /\ task[w] \in Tasks /\ p \in Payments
        /\ task[w].retries \in 0 .. MaxRetries
  BY <1>0 DEF SystemTypeOK, Tasks
<1>2. {"idle", "start", "call", "answered", "retry", "ack"} = Locations
  BY DEF Locations
<1>3. NoReply \in Replies
  BY DEF NoReply, NoId, Replies
<1>4. CASE TakeTask(w)
  <2>1. PICK t \in Tasks :
           /\ Available(t)
           /\ queue' = [queue EXCEPT ![t] = @ - 1]
           /\ task' = [task EXCEPT ![w] = t]
           /\ Goto(w, Entry(t.payment))
    BY <1>4 DEF TakeTask
  <2>2. Entry(t.payment) \in Locations
    BY <1>2 DEF Entry
  <2>3. queue[t] \in Nat /\ queue[t] - 1 \in Nat
    BY <1>0, <2>1 DEF SystemTypeOK, Available
  <2>4. queue' \in [Tasks -> Nat]
    BY <1>0, <2>1, <2>3 DEF SystemTypeOK
  <2>5. /\ pc' \in [Workers -> Locations]
        /\ task' \in [Workers -> Tasks \cup {Nil}]
        /\ \A v \in Workers : pc'[v] # "idle" => task'[v] \in Tasks
    BY <1>0, <2>1, <2>2 DEF SystemTypeOK
  <2> QED
    BY <1>0, <1>4, <2>4, <2>5 DEF TakeTask, LeaseTo, SystemTypeOK
<1>5. CASE StartProcessing(w)
  BY <1>0, <1>1, <1>2, <1>5 DEF StartProcessing, SystemTypeOK
<1>6. CASE CallProvider(w)
  <2>1. p \in Payments /\ pc[w] # "idle"
    BY <1>1, <1>6 DEF CallProvider, ProviderAnswers, RequestLost, ReplyLost,
                      ProviderRejects, ProviderHangsUp, Calling
  <2>2. charges' \in [Payments -> Seq(Charges)]
    BY <1>0, <1>6, <2>1, ChargeTyped
       DEF CallProvider, ProviderAnswers, RequestLost, ReplyLost,
           ProviderRejects, ProviderHangsUp, SystemTypeOK
  <2>3. faults' \in [FaultKinds -> Nat]
    BY <1>0, <1>6, StrikeTyped
       DEF CallProvider, ProviderAnswers, RequestLost, ReplyLost,
           ProviderRejects, ProviderHangsUp, SystemTypeOK, FaultKinds
  <2>4. ReplyKind(scenario[p]) \in
           {"SUCCEEDED", "PROCESSING", "FAILED", "transient", "permanent"}
    BY DEF ReplyKind
  <2>5. charges[p] \in Seq(Charges)
    BY <1>0, <2>1 DEF SystemTypeOK
  <2>50. Len(charges[p]) \in Nat
    BY <2>5
  <2>6. reply' \in [Workers -> Replies]
    <3>1. ASSUME NEW kind \in {"none", "SUCCEEDED", "PROCESSING", "FAILED",
                               "transient", "permanent"},
                 NEW id \in Nat, Return(w, kind, id)
          PROVE  reply' \in [Workers -> Replies]
      BY <1>0, <3>1 DEF Return, Replies, SystemTypeOK
    <3>2. CASE reply' = reply
      BY <1>0, <3>2 DEF SystemTypeOK
    <3>3. CASE ProviderAnswers(w)
      <4>1. (IF ReplyKind(scenario[p]) = "transient"
             THEN NoId ELSE Len(charges[p]) + 1) \in Nat
        BY <2>50 DEF NoId
      <4> QED
        BY <2>4, <3>1, <3>3, <4>1 DEF ProviderAnswers
    <3>4. CASE RequestLost(w) \/ ReplyLost(w) \/ ProviderRejects(w)
      BY <3>1, <3>4 DEF RequestLost, ReplyLost, ProviderRejects, NoId
    <3> QED
      BY <1>6, <3>2, <3>3, <3>4 DEF CallProvider, ProviderHangsUp
  <2>7. /\ pc' \in [Workers -> Locations]
        /\ \A v \in Workers : pc'[v] # "idle" => pc[v] # "idle"
    BY <1>0, <1>2, <1>6, <2>1
       DEF CallProvider, ProviderAnswers, RequestLost, ReplyLost,
           ProviderRejects, ProviderHangsUp, Return, SystemTypeOK
  <2>8. UNCHANGED <<scenario, broker, task, leased, webhookEvents,
                    reconciliation>>
    BY <1>6 DEF CallProvider, ProviderAnswers, RequestLost, ReplyLost,
                ProviderRejects, ProviderHangsUp, Calling
  <2> QED
    BY <1>0, <2>2, <2>3, <2>6, <2>7, <2>8 DEF SystemTypeOK
<1>7. CASE Finish(w) /\ ~RetryLater(w)
  <2>1. /\ pc[w] # "idle"
        /\ pc' \in [Workers -> Locations]
        /\ \A v \in Workers : pc'[v] # "idle" => pc[v] # "idle"
    BY <1>0, <1>2, <1>7
       DEF Finish, FinishSucceeded, AwaitWebhook, FinishDeclined,
           FinishRejected, CountRetry, GiveUp, Answered, SystemTypeOK
  <2>2. reply' \in [Workers -> Replies]
    BY <1>0, <1>3, <1>7
       DEF Finish, FinishSucceeded, AwaitWebhook, FinishDeclined,
           FinishRejected, CountRetry, GiveUp, Answered, SystemTypeOK
  <2>3. UNCHANGED <<scenario, broker, task, leased, provider, webhookEvents,
                    reconciliation, faults>>
    BY <1>7 DEF Finish, FinishSucceeded, AwaitWebhook, FinishDeclined,
                FinishRejected, CountRetry, GiveUp, Answered
  <2> QED
    BY <1>0, <2>1, <2>2, <2>3 DEF SystemTypeOK
<1>8. CASE RetryLater(w)
  <2>1. [task[w] EXCEPT !.retries = @ + 1] \in Tasks
    BY <1>1, <1>8, MaxRetriesAssumption DEF RetryLater, RetriesLeft, Tasks
  <2>2. queue' \in [Tasks -> Nat]
    BY <1>0, <1>8, <2>1, EnqueueTyped DEF RetryLater, SystemTypeOK
  <2> QED
    BY <1>0, <1>1, <1>2, <1>8, <2>2 DEF RetryLater, SystemTypeOK
<1>9. CASE Acknowledge(w)
  BY <1>0, <1>9, ReleaseTyped DEF Acknowledge, SystemTypeOK
<1>10. CASE BrokerFault(w)
  <2>1. pc[w] # "idle"
    BY <1>10 DEF BrokerFault, Redeliver, WorkerCrashes, LoseTask
  <2>2. queue' \in [Tasks -> Nat]
    BY <1>0, <1>1, <1>10, <2>1, EnqueueTyped
       DEF BrokerFault, Redeliver, WorkerCrashes, LoseTask, SystemTypeOK
  <2>3. faults' \in [FaultKinds -> Nat]
    BY <1>0, <1>10, StrikeTyped
       DEF BrokerFault, Redeliver, WorkerCrashes, LoseTask, SystemTypeOK,
           FaultKinds
  <2>4. CASE Redeliver(w)
    BY <1>0, <2>2, <2>3, <2>4 DEF Redeliver, SystemTypeOK
  <2>5. CASE Release(w)
    BY <1>0, <2>2, <2>3, <2>5, ReleaseTyped
  <2> QED
    BY <1>10, <2>4, <2>5 DEF BrokerFault, WorkerCrashes, LoseTask
<1> QED
  BY <1>4, <1>5, <1>6, <1>7, <1>8, <1>9, <1>10 DEF WorkerStep

(* So do the steps of the API process, the webhook handler and the clock. *)
LEMMA EnvironmentTyped ==
    ASSUME Typed, NEW p \in Payments,
           \/ CreatePayment(p) \/ Publish(p) \/ ProviderWakes(p) \/ Age(p)
           \/ \E n \in DOMAIN charges[p] : Webhook(p, n)
    PROVE  SystemTypeOK'
<1>0. SystemTypeOK /\ charges[p] \in Seq(Charges)
  BY DEF Typed, SystemTypeOK
<1> USE DEF broker, pool, provider, reconciliation
<1>1. CASE CreatePayment(p)
  BY <1>0, <1>1, ScenariosAssumption DEF CreatePayment, SystemTypeOK
<1>2. CASE PublishTask(p)
  <2>1. [payment |-> p, retries |-> 0] \in Tasks
    BY MaxRetriesAssumption DEF Tasks
  <2>2. queue' \in [Tasks -> Nat]
    BY <1>0, <1>2, <2>1, EnqueueTyped DEF PublishTask, SystemTypeOK
  <2> QED
    BY <1>0, <1>2, <2>2 DEF PublishTask, SystemTypeOK
<1>3. CASE PublishFails(p)
  <2>1. faults' \in [FaultKinds -> Nat]
    BY <1>0, <1>3, StrikeTyped DEF PublishFails, SystemTypeOK, FaultKinds
  <2> QED
    BY <1>0, <1>3, <2>1 DEF PublishFails, SystemTypeOK
<1>4. CASE ProviderWakes(p)
  <2>1. PICK n \in DOMAIN charges[p] :
           charges' = [charges EXCEPT ![p][n].status = "SUCCEEDED"]
    BY <1>4 DEF ProviderWakes
  <2>2. charges[p][n] \in Charges
    BY <1>0
  <2>3. [charges[p][n] EXCEPT !.status = "SUCCEEDED"] \in Charges
    BY <2>2 DEF Charges
  <2>4. charges' \in [Payments -> Seq(Charges)]
    BY <1>0, <2>1, <2>3, RewriteTyped
  <2> QED
    BY <1>0, <1>4, <2>4 DEF ProviderWakes, SystemTypeOK
<1>5. CASE Age(p)
  BY <1>0, <1>5 DEF Age, SystemTypeOK
<1>7. ASSUME NEW n \in DOMAIN charges[p], Webhook(p, n)
      PROVE  SystemTypeOK'
  <2>1. PICK next \in {"none", "again"} : SetWebhook(p, n, next)
    BY <1>7 DEF Webhook, WebhookDuplicate, WebhookAlreadyFinal,
                WebhookApplies, WebhookConflict, WebhookLost, AcceptEvent,
                NextDelivery
  <2>2. charges[p][n] \in Charges /\ n \in Nat
    BY <1>0
  <2>3. [charges[p][n] EXCEPT !.webhook = next] \in Charges
    BY <2>2 DEF Charges
  <2>4. charges' \in [Payments -> Seq(Charges)]
    BY <1>0, <2>1, <2>3, RewriteTyped DEF SetWebhook
  <2>5. webhookEvents' \subseteq Payments \X Nat
    BY <1>0, <1>7, <2>2
       DEF Webhook, WebhookDuplicate, WebhookAlreadyFinal, WebhookApplies,
           WebhookConflict, WebhookLost, AcceptEvent, SystemTypeOK
  <2>6. UNCHANGED <<scenario, broker, pool, reconciliation, faults>>
    BY <1>7 DEF Webhook, WebhookDuplicate, WebhookAlreadyFinal,
                WebhookApplies, WebhookConflict, WebhookLost, AcceptEvent,
                WebhookPending
  <2> QED
    BY <1>0, <2>4, <2>5, <2>6 DEF SystemTypeOK
<1> QED
  BY <1>1, <1>2, <1>3, <1>4, <1>5, <1>7 DEF Publish

(* So does a restart of the provider. *)
LEMMA RestartTyped ==
    ASSUME Typed, ProviderRestarts
    PROVE  SystemTypeOK'
<1>0. SystemTypeOK
  BY DEF Typed
<1> USE DEF broker, pool, provider, reconciliation
<1>1. faults' \in [FaultKinds -> Nat]
  BY <1>0, StrikeTyped DEF ProviderRestarts, SystemTypeOK, FaultKinds
<1>2. ASSUME NEW q \in Payments
      PROVE  [n \in DOMAIN charges[q] |->
                [charges[q][n] EXCEPT !.known = FALSE, !.webhook = "none"]]
                  \in Seq(Charges)
  <2>1. charges[q] \in Seq(Charges)
    BY <1>0 DEF SystemTypeOK
  <2>2. ASSUME NEW n \in DOMAIN charges[q]
        PROVE  [charges[q][n] EXCEPT !.known = FALSE, !.webhook = "none"]
                  \in Charges
    <3>1. charges[q][n] \in Charges
      BY <2>1
    <3> QED
      BY <3>1 DEF Charges
  <2>3. DOMAIN charges[q] = 1 .. Len(charges[q]) /\ Len(charges[q]) \in Nat
    BY <2>1
  <2> DEFINE forgotten == [n \in DOMAIN charges[q] |->
               [charges[q][n] EXCEPT !.known = FALSE, !.webhook = "none"]]
  <2>4. forgotten \in [1 .. Len(charges[q]) -> Charges]
    BY <2>2, <2>3
  <2> HIDE DEF forgotten
  <2>5. forgotten \in Seq(Charges)
    BY <2>3, <2>4, SeqDef
  <2> QED
    BY <2>5 DEF forgotten
<1>3. charges' \in [Payments -> Seq(Charges)]
  BY <1>2 DEF ProviderRestarts
<1> QED
  BY <1>0, <1>1, <1>3 DEF ProviderRestarts, SystemTypeOK

(* So do the steps of a reconciler. *)
LEMMA ReconcilerTyped ==
    ASSUME Typed, NEW r \in Reconcilers,
           ReconcilerStep(r) \/ ReconcilerCrashes(r)
    PROVE  SystemTypeOK'
<1>0. SystemTypeOK /\ TableTypeOK
  BY DEF Typed
<1> USE DEF broker, pool, provider, reconciliation
<1>1. CASE Snapshot(r)
  <2>1. {<<p, providerId[p]>> : p \in Due} \subseteq Payments \X Nat
    BY <1>0 DEF Due, TableTypeOK
  <2> QED
    BY <1>0, <1>1, <2>1 DEF Snapshot, SystemTypeOK
<1>2. CASE Lookup(r)
  <2>1. PICK p \in Payments : \E n \in DOMAIN charges[p] : NextLookup(r, p, n)
    BY <1>2 DEF Lookup, LookupAnswers, LookupNotFound, LookupFails
  <2>2. todo' \in [Reconcilers -> SUBSET (Payments \X Nat)]
    BY <1>0, <2>1 DEF NextLookup, SystemTypeOK
  <2>3. faults' \in [FaultKinds -> Nat]
    BY <1>0, <1>2, StrikeTyped
       DEF Lookup, LookupAnswers, LookupNotFound, LookupFails, SystemTypeOK,
           FaultKinds
  <2>4. finding' \in [Reconcilers -> Findings \cup {Nil}]
    BY <1>0, <1>2 DEF Lookup, LookupAnswers, LookupNotFound, LookupFails,
                      SystemTypeOK, Findings
  <2> QED
    BY <1>0, <2>1, <2>2, <2>3, <2>4 DEF NextLookup, SystemTypeOK
<1>3. CASE ApplyFinding(r)
  BY <1>0, <1>3 DEF ApplyFinding, SystemTypeOK
<1>4. CASE ReconcilerCrashes(r)
  <2>1. faults' \in [FaultKinds -> Nat]
    BY <1>0, <1>4, StrikeTyped DEF ReconcilerCrashes, SystemTypeOK, FaultKinds
  <2> QED
    BY <1>0, <1>4, <2>1 DEF ReconcilerCrashes, SystemTypeOK
<1> QED
  BY <1>1, <1>2, <1>3, <1>4 DEF ReconcilerStep

(* Every step keeps every variable typed. *)
LEMMA StepKeepsTyped ==
    ASSUME Typed, [Next]_vars
    PROVE  Typed'
<1>1. TableTypeOK'
  <2>1. TableTypeOK
    BY DEF Typed
  <2>2. CASE RowsKept
    BY <2>1, <2>2 DEF RowsKept, rows, TableTypeOK
  <2>3. ASSUME NEW p \in Payments, Written(p)
        PROVE  TableTypeOK'
    BY <2>1, <2>3, WrittenType
  <2> QED
    BY <2>2, <2>3, StepWrites
<1>2. SystemTypeOK'
  <2>1. CASE UNCHANGED vars
    BY <2>1 DEF vars, broker, pool, provider, reconciliation, Typed,
                SystemTypeOK
  <2>2. ASSUME NEW p \in Payments,
               CreatePayment(p) \/ Publish(p) \/ ProviderWakes(p) \/ Age(p)
                \/ \E n \in DOMAIN charges[p] : Webhook(p, n)
        PROVE  SystemTypeOK'
    BY <2>2, EnvironmentTyped
  <2>3. ASSUME NEW w \in Workers, WorkerStep(w) \/ BrokerFault(w)
        PROVE  SystemTypeOK'
    BY <2>3, WorkerTyped
  <2>4. ASSUME NEW r \in Reconcilers, ReconcilerStep(r) \/ ReconcilerCrashes(r)
        PROVE  SystemTypeOK'
    BY <2>4, ReconcilerTyped
  <2>5. CASE ProviderRestarts
    BY <2>5, RestartTyped
  <2> QED
    BY <2>1, <2>2, <2>3, <2>4, <2>5 DEF Next
<1> QED
  BY <1>1, <1>2 DEF Typed

(* Without refunds, no step makes a payment a refunded one. *)
LEMMA StepTyped ==
    ASSUME TypeOK, [Next]_vars
    PROVE  TypeOK'
<1>1. /\ Typed /\ TableTypeOK
      /\ \A p \in Payments : status[p] \notin {"REFUND_PENDING", "REFUNDED"}
  BY TypedSplit DEF Typed
<1>2. \A p \in Payments : status'[p] \notin {"REFUND_PENDING", "REFUNDED"}
  <2>1. CASE RowsKept
    BY <1>1, <2>1 DEF RowsKept, rows
  <2>2. ASSUME NEW p \in Payments, Written(p)
        PROVE  \A q \in Payments :
                  status'[q] \notin {"REFUND_PENDING", "REFUNDED"}
    BY <1>1, <2>2, WrittenStatus
  <2> QED
    BY <1>1, <2>1, <2>2, StepWrites
<1>3. Typed'
  BY <1>1, StepKeepsTyped
<1> QED
  BY <1>2, <1>3 DEF TypeOK, Typed, SystemTypeOK

(* The system starts with every variable typed. *)
LEMMA InitTyped == Init => TypeOK
<1> SUFFICES ASSUME Init PROVE TypeOK
  OBVIOUS
<1>1. TableTypeOK
  BY DEF Init, TableInit, TableTypeOK, NoId, NoCode, FailureCodes
<1>2. "success" \in AllScenarios /\ NoReply \in Replies
      /\ "idle" \in Locations
  BY DEF AllScenarios, NoReply, NoId, Replies, Locations
<1> QED
  BY <1>1, <1>2 DEF Init, TableInit, TypeOK, NoRow

(* The variables keep their types in every behaviour, with the statuses of *)
(* the payment side only.                                                  *)
THEOREM TypeCorrect == Spec => []TypeOK
<1>1. Init => TypeOK
  BY InitTyped
<1>2. TypeOK /\ [Next]_vars => TypeOK'
  BY StepTyped
<1> QED
  BY <1>1, <1>2, PTL DEF Spec

-----------------------------------------------------------------------------
(* The ledger.                                                             *)

(* Appending to a consistent ledger an event that starts at the row's      *)
(* status and stays there or takes a permitted edge keeps it consistent.   *)
LEMMA AppendConsistent ==
    ASSUME TableTypeOK, TableTypeOK', LedgerConsistent,
           NEW p \in Payments, NEW type \in EventTypes, NEW new \in Statuses,
           status[p] # NoRow,
           status[p] = new \/ <<status[p], new>> \in ValidTransitions,
           LogEvent(p, type, status[p], new), status' = [status EXCEPT ![p] = new]
    PROVE  LedgerConsistent'
<1> DEFINE e == [type |-> type, prev |-> status[p], new |-> new]
           log == ledger[p]
<1>1. e \in LedgerEvents /\ log \in Seq(LedgerEvents)
  BY DEF TableTypeOK, LedgerEvents
<1>2. e.prev = status[p] /\ e.new = new
  OBVIOUS
<1>3. ledger' = [ledger EXCEPT ![p] = Append(log, e)]
  BY DEF LogEvent
<1>4. /\ Len(log) >= 1
      /\ log[1].prev = NoRow /\ log[1].new = "CREATED"
      /\ log[Len(log)].new = status[p]
      /\ \A i \in 2 .. Len(log) :
           /\ log[i].prev = log[i - 1].new
           /\ \/ log[i].prev = log[i].new
              \/ <<log[i].prev, log[i].new>> \in ValidTransitions
  BY DEF LedgerConsistent, LedgerTellsRow
<1> HIDE DEF e, log
<1> DEFINE longer == Append(log, e)
<1>5. /\ Len(longer) = Len(log) + 1 /\ Len(log) \in Nat
      /\ longer[Len(log) + 1] = e
      /\ \A i \in 1 .. Len(log) : longer[i] = log[i]
  BY <1>1
<1>6. ledger'[p] = longer /\ status'[p] = new
  BY <1>3 DEF TableTypeOK
<1>7. LedgerTellsRow(p)'
  <2>1. /\ Len(longer) >= 1
        /\ longer[1].prev = NoRow /\ longer[1].new = "CREATED"
        /\ longer[Len(longer)].new = new
    BY <1>2, <1>4, <1>5
  <2>2. ASSUME NEW i \in 2 .. Len(longer)
        PROVE  /\ longer[i].prev = longer[i - 1].new
               /\ \/ longer[i].prev = longer[i].new
                  \/ <<longer[i].prev, longer[i].new>> \in ValidTransitions
    <3>1. CASE i \in 2 .. Len(log)
      BY <1>4, <1>5, <3>1
    <3>2. CASE i = Len(log) + 1
      BY <1>2, <1>4, <1>5, <3>2
    <3> QED
      BY <1>5, <2>2, <3>1, <3>2
  <2>3. status'[p] # NoRow
    BY <1>6 DEF Statuses, NoRow
  <2> HIDE DEF longer
  <2> QED
    BY <1>6, <2>1, <2>2, <2>3 DEF LedgerTellsRow
<1>8. ASSUME NEW q \in Payments, q # p
      PROVE  LedgerTellsRow(q)'
  <2>1. ledger'[q] = ledger[q] /\ status'[q] = status[q] /\ LedgerTellsRow(q)
    BY <1>3, <1>8 DEF TableTypeOK, LedgerConsistent
  <2> QED
    BY <2>1 DEF LedgerTellsRow
<1> QED
  BY <1>7, <1>8 DEF LedgerConsistent

(* A transaction that writes a row leaves its ledger telling its story. *)
LEMMA WrittenConsistent ==
    ASSUME TableTypeOK, TableTypeOK', LedgerConsistent, NEW p \in Payments,
           Written(p)
    PROVE  LedgerConsistent'
<1>1. CASE InsertPayment(p)
  <2> DEFINE e == [type |-> "PAYMENT_CREATED", prev |-> NoRow,
                   new |-> "CREATED"]
  <2>1. ledger[p] = <<>> /\ status[p] = NoRow
    BY <1>1 DEF InsertPayment, LedgerConsistent, LedgerTellsRow
  <2>2. ledger'[p] = <<e>> /\ status'[p] = "CREATED"
    BY <1>1, <2>1 DEF InsertPayment, LogEvent, TableTypeOK
  <2>3. LedgerTellsRow(p)'
    BY <2>2 DEF LedgerTellsRow, NoRow
  <2>4. ASSUME NEW q \in Payments, q # p
        PROVE  LedgerTellsRow(q)'
    <3>1. ledger'[q] = ledger[q] /\ status'[q] = status[q]
      BY <1>1, <2>4 DEF InsertPayment, LogEvent, TableTypeOK
    <3>2. LedgerTellsRow(q)
      BY DEF LedgerConsistent
    <3> QED
      BY <3>1, <3>2 DEF LedgerTellsRow
  <2> QED
    BY <2>3, <2>4 DEF LedgerConsistent
<1>2. CASE Moved(p)
  <2>1. PICK type \in EventTypes, new \in Statuses, id \in Nat,
             code \in FailureCodes :
               /\ <<status[p], new>> \in PaymentMoves
               /\ Commit(p, type, status[p], new, id, code)
    BY <1>2 DEF Moved
  <2>2. status[p] # NoRow /\ <<status[p], new>> \in ValidTransitions
    BY <2>1 DEF PaymentMoves, ValidTransitions, NoRow
  <2> QED
    BY <2>1, <2>2, AppendConsistent DEF Commit
<1>3. ASSUME status[p] = "PROCESSING", UNCHANGED status,
             NEW type \in EventTypes, LogEvent(p, type, "PROCESSING", "PROCESSING")
      PROVE  LedgerConsistent'
  <2>1. status' = [status EXCEPT ![p] = "PROCESSING"]
    BY <1>3 DEF TableTypeOK
  <2>2. "PROCESSING" \in Statuses /\ status[p] # NoRow
    BY <1>3 DEF Statuses, NoRow
  <2> QED
    BY <1>3, <2>1, <2>2, AppendConsistent
<1>4. CASE status[p] = "PROCESSING" /\ \E id \in Nat :
             RecordAwaitingWebhook(p, id)
  BY <1>3, <1>4 DEF RecordAwaitingWebhook, EventTypes
<1>5. CASE status[p] = "PROCESSING" /\ RecordRetry(p)
  BY <1>3, <1>5 DEF RecordRetry, EventTypes
<1> QED
  BY <1>1, <1>2, <1>4, <1>5 DEF Written

(* payment_events tells the whole story of every row (README.md:146), with *)
(* permitted transitions only (README.md:131), whoever wrote it and        *)
(* whatever failed.                                                        *)
THEOREM LedgerCorrect == Spec => []LedgerConsistent
<1>1. Init => LedgerConsistent
  <2> SUFFICES ASSUME Init, NEW p \in Payments
               PROVE  LedgerTellsRow(p)
    BY DEF LedgerConsistent
  <2>1. status[p] = NoRow /\ ledger[p] = <<>>
    BY DEF Init, TableInit
  <2> QED
    BY <2>1 DEF LedgerTellsRow
<1>2. TypeOK /\ TypeOK' /\ LedgerConsistent /\ [Next]_vars => LedgerConsistent'
  <2> SUFFICES ASSUME TypeOK, TypeOK', LedgerConsistent, [Next]_vars
               PROVE  LedgerConsistent'
    OBVIOUS
  <2>1. CASE RowsKept
    BY <2>1 DEF RowsKept, rows, LedgerConsistent, LedgerTellsRow
  <2>2. ASSUME NEW p \in Payments, Written(p)
        PROVE  LedgerConsistent'
    BY <2>2, WrittenConsistent DEF TypeOK
  <2> QED
    BY <2>1, <2>2, TypedSplit, StepWrites
<1> QED
  BY <1>1, <1>2, TypeCorrect, PTL DEF Spec

-----------------------------------------------------------------------------
(* Final rows.                                                             *)

(* A transaction writes the row of one payment and no other. *)
LEMMA WrittenElsewhere ==
    ASSUME TableTypeOK, NEW p \in Payments, Written(p),
           NEW q \in Payments, q # p
    PROVE  Row(q)' = Row(q)
<1> USE DEF TableTypeOK, Row
<1>1. CASE InsertPayment(p)
  BY <1>1 DEF InsertPayment, LogEvent
<1>2. CASE Moved(p)
  <2>1. PICK type \in EventTypes, new \in Statuses, id \in Nat,
             code \in FailureCodes : Commit(p, type, status[p], new, id, code)
    BY <1>2 DEF Moved
  <2> QED
    BY <2>1 DEF Commit, LogEvent, Announce
<1>3. ASSUME NEW id \in Nat, status[p] = "PROCESSING",
             RecordAwaitingWebhook(p, id)
      PROVE  Row(q)' = Row(q)
  BY <1>3 DEF RecordAwaitingWebhook, LogEvent
<1>4. CASE status[p] = "PROCESSING" /\ RecordRetry(p)
  BY <1>4 DEF RecordRetry, LogEvent
<1> QED
  BY <1>1, <1>2, <1>3, <1>4 DEF Written

(* No step writes the row of a SUCCEEDED payment: no transaction starts    *)
(* there.                                                                  *)
LEMMA SucceededRowKept ==
    ASSUME TypeOK, [Next]_vars, NEW p \in Payments, status[p] = "SUCCEEDED"
    PROVE  Row(p)' = Row(p)
<1>1. CASE RowsKept
  BY <1>1 DEF RowsKept, rows, Row
<1>2. ASSUME NEW q \in Payments, Written(q)
      PROVE  Row(p)' = Row(p)
  <2>1. q # p
    BY <1>2 DEF Written, InsertPayment, Moved, PaymentMoves, NoRow
  <2> QED
    BY <1>2, <2>1, WrittenElsewhere DEF TypeOK
<1> QED
  BY <1>1, <1>2, TypedSplit, StepWrites

(* No late worker, repeated webhook or stale reconciler touches the row,   *)
(* the ledger or the outbox of a payment that has SUCCEEDED.               *)
THEOREM SucceededNeverRewritten == Spec => SucceededIsFinal
<1>1. TypeOK /\ [Next]_vars =>
        [\A p \in Payments : status[p] = "SUCCEEDED" => Row(p)' = Row(p)]_vars
  BY SucceededRowKept
<1> QED
  BY <1>1, TypeCorrect, PTL DEF Spec, SucceededIsFinal

-----------------------------------------------------------------------------
(* The outbox.                                                             *)

(* The moves of a log are finitely many, and so are those up to an event. *)
LEMMA MovesFinite ==
    ASSUME NEW log \in Seq(LedgerEvents)
    PROVE  /\ Moves(log) \subseteq 1 .. Len(log)
           /\ IsFiniteSet(Moves(log)) /\ Cardinality(Moves(log)) \in Nat
           /\ \A i \in Moves(log) :
                 /\ MovesUpTo(log, i) \in Nat
                 /\ 1 <= MovesUpTo(log, i)
                 /\ MovesUpTo(log, i) <= Cardinality(Moves(log))
<1>1. Len(log) \in Nat /\ DOMAIN log = 1 .. Len(log)
  OBVIOUS
<1>2. IsFiniteSet(1 .. Len(log))
  BY <1>1, FS_Interval
<1>3. Moves(log) \subseteq 1 .. Len(log)
  BY <1>1 DEF Moves
<1>4. IsFiniteSet(Moves(log))
  BY <1>2, <1>3, FS_Subset
<1>5. ASSUME NEW i \in Moves(log)
      PROVE  /\ MovesUpTo(log, i) \in Nat
             /\ 1 <= MovesUpTo(log, i)
             /\ MovesUpTo(log, i) <= Cardinality(Moves(log))
  <2> DEFINE upto == {j \in Moves(log) : j <= i}
  <2>1. upto \subseteq Moves(log) /\ {i} \subseteq upto
    BY <1>3, <1>5
  <2>2. IsFiniteSet(upto) /\ Cardinality(upto) <= Cardinality(Moves(log))
    BY <1>4, <2>1, FS_Subset
  <2>3. Cardinality({i}) <= Cardinality(upto)
    BY <2>1, <2>2, FS_Subset
  <2>4. Cardinality({i}) = 1
    BY FS_Singleton
  <2>5. Cardinality(upto) \in Nat
    BY <2>2, FS_CardinalityType
  <2>6. MovesUpTo(log, i) = Cardinality(upto)
    BY DEF MovesUpTo
  <2> HIDE DEF upto
  <2> QED
    BY <2>2, <2>3, <2>4, <2>5, <2>6
<1> QED
  BY <1>3, <1>4, <1>5, FS_CardinalityType

(* What one more event does to the moves of a log: it joins them if it is   *)
(* one, and the places of the earlier moves among them stay.               *)
LEMMA AppendMoves ==
    ASSUME NEW log \in Seq(LedgerEvents), NEW e \in LedgerEvents
    PROVE  /\ Moves(Append(log, e)) =
                 IF IsMove(e) THEN Moves(log) \cup {Len(log) + 1}
                              ELSE Moves(log)
           /\ \A i \in Moves(log) :
                 /\ Append(log, e)[i] = log[i]
                 /\ MovesUpTo(Append(log, e), i) = MovesUpTo(log, i)
           /\ Append(log, e)[Len(log) + 1] = e
<1> DEFINE longer == Append(log, e)
<1>1. /\ Len(log) \in Nat
      /\ DOMAIN longer = 1 .. Len(log) + 1
      /\ DOMAIN log = 1 .. Len(log)
      /\ \A i \in 1 .. Len(log) : longer[i] = log[i]
      /\ longer[Len(log) + 1] = e
  OBVIOUS
<1> HIDE DEF longer
<1>2. Moves(longer) = IF IsMove(e) THEN Moves(log) \cup {Len(log) + 1}
                                   ELSE Moves(log)
  <2>1. \A i \in 1 .. Len(log) : IsMove(longer[i]) <=> IsMove(log[i])
    BY <1>1
  <2>2. IsMove(longer[Len(log) + 1]) <=> IsMove(e)
    BY <1>1
  <2>3. \A i : i \in DOMAIN longer
                  <=> i \in DOMAIN log \/ i = Len(log) + 1
    BY <1>1
  <2> HIDE DEF IsMove
  <2> QED
    BY <1>1, <2>1, <2>2, <2>3 DEF Moves
<1>3. ASSUME NEW i \in Moves(log)
      PROVE  MovesUpTo(longer, i) = MovesUpTo(log, i)
  <2>1. i \in 1 .. Len(log) /\ Moves(log) \subseteq 1 .. Len(log)
    BY <1>1 DEF Moves
  <2>2. {j \in Moves(longer) : j <= i} = {j \in Moves(log) : j <= i}
    BY <1>1, <1>2, <2>1
  <2> QED
    BY <2>2 DEF MovesUpTo
<1>4. Moves(log) \subseteq 1 .. Len(log)
  BY <1>1 DEF Moves
<1> QED
  BY <1>1, <1>2, <1>3, <1>4 DEF longer

(* An event that is no move needs no announcement. *)
LEMMA StayAnnounced ==
    ASSUME NEW log \in Seq(LedgerEvents), NEW out \in Seq(OutboxEvents),
           NEW e \in LedgerEvents, ~IsMove(e), Announces(out, log)
    PROVE  Announces(out, Append(log, e))
<1> DEFINE longer == Append(log, e)
<1>1. /\ Moves(longer) = Moves(log)
      /\ \A i \in Moves(log) :
            longer[i] = log[i] /\ MovesUpTo(longer, i) = MovesUpTo(log, i)
  BY AppendMoves
<1> HIDE DEF longer
<1>2. Announces(out, longer)
  BY <1>1 DEF Announces
<1> QED
  BY <1>2 DEF longer

(* A move announced with the ledger's event is in its place. *)
LEMMA MoveAnnounced ==
    ASSUME NEW log \in Seq(LedgerEvents), NEW out \in Seq(OutboxEvents),
           NEW e \in LedgerEvents, IsMove(e), Announces(out, log)
    PROVE  Announces(Append(out, [type |-> e.type, new |-> e.new]),
                     Append(log, e))
<1> DEFINE longer == Append(log, e)
           a == [type |-> e.type, new |-> e.new]
           last == Len(log) + 1
<1>1. a \in OutboxEvents
  BY DEF LedgerEvents, OutboxEvents
<1>2. /\ Moves(log) \subseteq 1 .. Len(log)
      /\ IsFiniteSet(Moves(log)) /\ Cardinality(Moves(log)) \in Nat
      /\ \A i \in Moves(log) :
            /\ MovesUpTo(log, i) \in Nat
            /\ 1 <= MovesUpTo(log, i)
            /\ MovesUpTo(log, i) <= Cardinality(Moves(log))
  BY MovesFinite
<1>3. /\ Moves(longer) = Moves(log) \cup {last}
      /\ \A i \in Moves(log) :
            longer[i] = log[i] /\ MovesUpTo(longer, i) = MovesUpTo(log, i)
      /\ longer[last] = e
  BY AppendMoves
<1>4. last \notin Moves(log) /\ Len(log) \in Nat
  BY <1>2
<1>5. Cardinality(Moves(longer)) = Cardinality(Moves(log)) + 1
  BY <1>2, <1>3, <1>4, FS_AddElement
<1>6. MovesUpTo(longer, last) = Cardinality(Moves(log)) + 1
  <2>1. {j \in Moves(longer) : j <= last} = Moves(longer)
    BY <1>2, <1>3, <1>4
  <2> QED
    BY <1>5, <2>1 DEF MovesUpTo
<1> HIDE DEF longer, a, last
<1>7. /\ Len(Append(out, a)) = Len(out) + 1
      /\ \A i \in 1 .. Len(out) : Append(out, a)[i] = out[i]
      /\ Append(out, a)[Len(out) + 1] = a
  BY <1>1
<1>8. /\ Len(out) = Cardinality(Moves(log))
      /\ \A i \in Moves(log) :
            out[MovesUpTo(log, i)] = [type |-> log[i].type, new |-> log[i].new]
  BY DEF Announces
<1>9. ASSUME NEW i \in Moves(longer)
      PROVE  Append(out, a)[MovesUpTo(longer, i)]
                = [type |-> longer[i].type, new |-> longer[i].new]
  <2>1. CASE i = last
    BY <1>3, <1>6, <1>7, <1>8, <2>1 DEF a
  <2>2. CASE i \in Moves(log)
    <3>1. MovesUpTo(log, i) \in 1 .. Len(out)
      BY <1>2, <1>8, <2>2
    <3> QED
      BY <1>3, <1>7, <1>8, <2>2, <3>1
  <2> QED
    BY <1>3, <1>9, <2>1, <2>2
<1>10. Announces(Append(out, a), longer)
  BY <1>5, <1>7, <1>8, <1>9 DEF Announces
<1> QED
  BY <1>10 DEF longer, a

(* A transaction that writes a row announces its move, if it is one.       *)
LEMMA WrittenAnnounced ==
    ASSUME TableTypeOK, OutboxComplete, NEW p \in Payments, Written(p)
    PROVE  OutboxComplete'
<1>1. \A q \in Payments : /\ ledger[q] \in Seq(LedgerEvents)
                          /\ outbox[q] \in Seq(OutboxEvents)
                          /\ Announces(outbox[q], ledger[q])
  BY DEF TableTypeOK, OutboxComplete
<1>2. ASSUME NEW q \in Payments, q # p
      PROVE  Announces(outbox'[q], ledger'[q])
  <2>1. outbox'[q] = outbox[q] /\ ledger'[q] = ledger[q]
    BY <1>2, WrittenElsewhere DEF Row
  <2> QED
    BY <1>1, <2>1
<1>3. ASSUME NEW type \in EventTypes, NEW prev \in Statuses \cup {NoRow},
             NEW new \in Statuses, prev = NoRow \/ prev = new,
             LogEvent(p, type, prev, new), UNCHANGED outbox
      PROVE  Announces(outbox'[p], ledger'[p])
  <2> DEFINE e == [type |-> type, prev |-> prev, new |-> new]
  <2>1. e \in LedgerEvents /\ ~IsMove(e)
    BY <1>3 DEF LedgerEvents, IsMove
  <2>2. ledger' = [ledger EXCEPT ![p] = Append(@, e)]
    BY <1>3 DEF LogEvent
  <2> HIDE DEF e
  <2>3. ledger'[p] = Append(ledger[p], e) /\ outbox'[p] = outbox[p]
    BY <1>3, <2>2 DEF TableTypeOK
  <2> QED
    BY <1>1, <2>1, <2>3, StayAnnounced
<1>4. CASE InsertPayment(p)
  <2>1. "PAYMENT_CREATED" \in EventTypes /\ "CREATED" \in Statuses
    BY DEF EventTypes, Statuses
  <2>2. Announces(outbox'[p], ledger'[p])
    BY <1>3, <1>4, <2>1 DEF InsertPayment
  <2> QED
    BY <1>2, <2>2 DEF OutboxComplete
<1>5. CASE Moved(p)
  <2>1. PICK type \in EventTypes, new \in Statuses, id \in Nat,
             code \in FailureCodes :
               /\ <<status[p], new>> \in PaymentMoves
               /\ Commit(p, type, status[p], new, id, code)
    BY <1>5 DEF Moved
  <2> DEFINE e == [type |-> type, prev |-> status[p], new |-> new]
             a == [type |-> e.type, new |-> e.new]
  <2>2. status[p] \in Statuses \cup {NoRow}
    BY DEF TableTypeOK
  <2>3. e \in LedgerEvents /\ IsMove(e)
    BY <2>1, <2>2 DEF LedgerEvents, IsMove, PaymentMoves, NoRow
  <2>4. /\ ledger' = [ledger EXCEPT ![p] = Append(@, e)]
        /\ outbox' = [outbox EXCEPT ![p] = Append(@, a)]
    BY <2>1 DEF Commit, LogEvent, Announce
  <2> HIDE DEF e
  <2>5. ledger'[p] = Append(ledger[p], e) /\ outbox'[p] = Append(outbox[p], a)
    BY <2>4 DEF TableTypeOK
  <2>6. Announces(outbox'[p], ledger'[p])
    BY <1>1, <2>3, <2>5, MoveAnnounced
  <2> QED
    BY <1>2, <2>6 DEF OutboxComplete
<1>6. CASE /\ status[p] = "PROCESSING"
           /\ \/ \E id \in Nat : RecordAwaitingWebhook(p, id)
              \/ RecordRetry(p)
  <2>1. "PROCESSING" \in Statuses
        /\ {"PAYMENT_AWAITING_WEBHOOK", "PAYMENT_RETRY_SCHEDULED"}
              \subseteq EventTypes
    BY DEF Statuses, EventTypes
  <2>2. Announces(outbox'[p], ledger'[p])
    BY <1>3, <1>6, <2>1 DEF RecordAwaitingWebhook, RecordRetry
  <2> QED
    BY <1>2, <2>2 DEF OutboxComplete
<1> QED
  BY <1>4, <1>5, <1>6 DEF Written

(* Whoever changes a status, and whatever fails, the change is announced   *)
(* by the transaction that makes it, once and in the order of the changes  *)
(* (README.md:205).                                                        *)
THEOREM OutboxCorrect == Spec => []OutboxComplete
<1>1. Init => OutboxComplete
  <2> SUFFICES ASSUME Init, NEW p \in Payments
               PROVE  Announces(outbox[p], ledger[p])
    BY DEF OutboxComplete
  <2>1. outbox[p] = <<>> /\ ledger[p] = <<>>
    BY DEF Init, TableInit
  <2>2. Moves(<<>>) = {}
    BY DEF Moves
  <2>3. Cardinality({}) = 0
    BY FS_EmptySet
  <2> QED
    BY <2>1, <2>2, <2>3 DEF Announces
<1>2. TypeOK /\ OutboxComplete /\ [Next]_vars => OutboxComplete'
  <2> SUFFICES ASSUME TypeOK, OutboxComplete, [Next]_vars
               PROVE  OutboxComplete'
    OBVIOUS
  <2>1. CASE RowsKept
    BY <2>1 DEF RowsKept, rows, OutboxComplete
  <2>2. ASSUME NEW p \in Payments, Written(p)
        PROVE  OutboxComplete'
    BY <2>2, WrittenAnnounced DEF TypeOK
  <2> QED
    BY <2>1, <2>2, TypedSplit, StepWrites
<1> QED
  BY <1>1, <1>2, TypeCorrect, PTL DEF Spec

-----------------------------------------------------------------------------
(* The refinement of PaymentLifecycle.                                     *)

(* The initial states map to those of PaymentLifecycle. *)
LEMMA InitImplements == Init => Lifecycle!Init
BY DEF Init, TableInit, Lifecycle!Init, Announced, NoRow

(* Appending to an outbox announces one more status. *)
LEMMA AnnouncedAppend ==
    ASSUME TableTypeOK, TableTypeOK', NEW p \in Payments,
           NEW type \in EventTypes, NEW new \in Statuses,
           Announce(p, type, new)
    PROVE  Announced' = [Announced EXCEPT ![p] = Append(@, new)]
<1> DEFINE a == [type |-> type, new |-> new]
           said(q) == [i \in DOMAIN outbox[q] |-> outbox[q][i].new]
<1>1. a \in OutboxEvents /\ a.new = new
  BY DEF OutboxEvents
<1>2. outbox[p] \in Seq(OutboxEvents)
  BY DEF TableTypeOK
<1>3. outbox' = [outbox EXCEPT ![p] = Append(@, a)]
  BY DEF Announce
<1> HIDE DEF a
<1>4. outbox'[p] = Append(outbox[p], a)
  BY <1>3 DEF TableTypeOK
<1>5. /\ DOMAIN outbox[p] = 1 .. Len(outbox[p]) /\ Len(outbox[p]) \in Nat
      /\ DOMAIN outbox'[p] = 1 .. (Len(outbox[p]) + 1)
      /\ outbox'[p][Len(outbox[p]) + 1] = a
      /\ \A i \in 1 .. Len(outbox[p]) : outbox'[p][i] = outbox[p][i]
  BY <1>1, <1>2, <1>4
<1>6. \A i \in DOMAIN outbox[p] : outbox[p][i].new \in Statuses
  <2> TAKE i \in DOMAIN outbox[p]
  <2>1. outbox[p][i] \in OutboxEvents
    BY <1>2
  <2> QED
    BY <2>1 DEF OutboxEvents
<1>7. said(p) \in Seq(Statuses) /\ Len(said(p)) = Len(outbox[p])
  <2>1. said(p) \in [1 .. Len(outbox[p]) -> Statuses]
    BY <1>5, <1>6
  <2> HIDE DEF said
  <2>2. said(p) \in Seq(Statuses)
    BY <1>5, <2>1, SeqDef
  <2> QED
    BY <1>5, <2>1, <2>2
<1> DEFINE told == [i \in DOMAIN outbox'[p] |-> outbox'[p][i].new]
<1>8. told = Append(said(p), new)
  <2> DEFINE k == Len(outbox[p])
             longer == Append(said(p), new)
  <2>1. /\ k \in Nat /\ Len(said(p)) = k /\ said(p) \in Seq(Statuses)
        /\ \A i \in 1 .. k : said(p)[i] = outbox[p][i].new
    BY <1>5, <1>7
  <2>2. /\ DOMAIN told = 1 .. (k + 1)
        /\ \A i \in 1 .. (k + 1) : told[i] = outbox'[p][i].new
    BY <1>5
  <2> HIDE DEF said, told
  <2>3. /\ longer \in Seq(Statuses)
        /\ Len(longer) = k + 1 /\ DOMAIN longer = 1 .. (k + 1)
        /\ longer[k + 1] = new
        /\ \A i \in 1 .. k : longer[i] = said(p)[i]
    BY <2>1
  <2>4. \A i \in 1 .. (k + 1) : told[i] = longer[i]
    <3> TAKE i \in 1 .. (k + 1)
    <3>1. CASE i \in 1 .. k
      BY <1>5, <2>1, <2>2, <2>3, <3>1
    <3>2. CASE i = k + 1
      BY <1>1, <1>5, <2>2, <2>3, <3>2
    <3> QED
      BY <2>1, <3>1, <3>2
  <2>5. told = [i \in 1 .. (k + 1) |-> told[i]]
    BY <2>2 DEF told
  <2>6. longer = [i \in 1 .. (k + 1) |-> longer[i]]
    <3> HIDE DEF longer
    <3>1. PICK n \in Nat : longer \in [1 .. n -> Statuses]
      BY <2>3, SeqDef
    <3>2. DOMAIN longer = 1 .. n /\ longer = [i \in 1 .. n |-> longer[i]]
      BY <3>1
    <3> QED
      BY <2>3, <3>2
  <2> QED
    BY <2>4, <2>5, <2>6
<1>9. ASSUME NEW q \in Payments, q # p
      PROVE  outbox'[q] = outbox[q]
  BY <1>3, <1>9 DEF TableTypeOK
<1> QED
  BY <1>8, <1>9 DEF Announced

(* A step that writes a row maps to a step of PaymentLifecycle or to none. *)
LEMMA StepImplements ==
    ASSUME TypeOK, TypeOK', [Next]_vars
    PROVE  [Lifecycle!Next]_<<status, Announced>>
<1>1. CASE RowsKept
  BY <1>1 DEF RowsKept, rows, Announced
<1>2. ASSUME NEW p \in Payments, InsertPayment(p)
      PROVE  Lifecycle!Next
  BY <1>2 DEF InsertPayment, Lifecycle!Next, Lifecycle!Create, Announced,
              NoRow
<1>3. ASSUME NEW p \in Payments, Moved(p)
      PROVE  Lifecycle!Next
  <2>1. PICK type \in EventTypes, new \in Statuses, id \in Nat,
             code \in FailureCodes :
               /\ <<status[p], new>> \in PaymentMoves
               /\ Commit(p, type, status[p], new, id, code)
    BY <1>3 DEF Moved
  <2>2. Announced' = [Announced EXCEPT ![p] = Append(@, new)]
    BY <2>1, AnnouncedAppend DEF Commit, TypeOK
  <2>3. <<status[p], new>> \in Lifecycle!Permitted
    BY <2>1 DEF PaymentMoves, Lifecycle!Permitted
  <2>4. status' = [status EXCEPT ![p] = new]
    BY <2>1 DEF Commit
  <2>5. \E edge \in Lifecycle!Permitted :
           /\ status[p] = edge[1]
           /\ status' = [status EXCEPT ![p] = edge[2]]
           /\ Announced' = [Announced EXCEPT ![p] = Append(@, edge[2])]
    <3> WITNESS <<status[p], new>> \in Lifecycle!Permitted
    <3> QED
      BY <2>2, <2>4
  <2> QED
    BY <2>5 DEF Lifecycle!Next, Lifecycle!Move
<1>4. ASSUME NEW p \in Payments, UNCHANGED <<status, outbox>>
      PROVE  UNCHANGED <<status, Announced>>
  BY <1>4 DEF Announced
<1>5. ASSUME NEW p \in Payments, Written(p)
      PROVE  Lifecycle!Next \/ UNCHANGED <<status, Announced>>
  BY <1>2, <1>3, <1>4, <1>5 DEF Written, RecordAwaitingWebhook, RecordRetry,
                                table
<1> QED
  BY <1>1, <1>5, TypedSplit, StepWrites

(* PaymentProcessing implements PaymentLifecycle: whatever fails, a        *)
(* payment moves one permitted edge at a time (README.md:131) and every    *)
(* move is announced in the transaction that makes it (README.md:205).     *)
THEOREM LifecycleImplemented == Spec => ImplementsLifecycle
<1>1. Init => Lifecycle!Init
  BY InitImplements
<1>2. TypeOK /\ TypeOK' /\ [Next]_vars => [Lifecycle!Next]_<<status, Announced>>
  BY StepImplements
<1> QED
  BY <1>1, <1>2, TypeCorrect, PTL
     DEF Spec, ImplementsLifecycle, Lifecycle!Spec, Lifecycle!lifecycle
=============================================================================
