----------------------- MODULE RefundProcessingProofs -----------------------
(***************************************************************************)
(* Proofs about RefundProcessing, for any number of payments, refunds and  *)
(* workers, any price, any retry limit and any budget of faults.           *)
(***************************************************************************)
EXTENDS RefundProcessing, PaymentDeliveryProofs, AmountTheorems

(* Only refunds that exist are handed to the workers. *)
Handed ==
    /\ \A r \in unsentRefunds : target[r] \in Payments
    /\ \A t \in RefundTasks :
          refundQueue[t] > 0 => target[t.refund] \in Payments

(* What types need: Typed is the payment side's, without its bound on the  *)
(* statuses, which refunds go beyond.                                      *)
RefundTyped == Typed /\ RefundTypeOK /\ Handed

-----------------------------------------------------------------------------
(* What one step may do to the refunds, and to the provider's records.     *)

MovesRefund(r, new) ==
    \E type \in {"REFUND_PROCESSING", "REFUND_SUCCEEDED", "REFUND_FAILED"},
       id \in Nat :
        /\ <<refundStatus[r], new>> \in ValidRefundTransitions
        /\ SetRefund(r, new)
        /\ LogRefund(r, type, new, TRUE)
        /\ refundId' = [refundId EXCEPT ![r] = Coalesce(id, @)]
        /\ UNCHANGED <<target, amount, mode>>
        /\ \/ new = "PROCESSING" /\ id = NoId
           \/ new = "FAILED" /\ id = NoId
           \/ /\ new \in {"SUCCEEDED", "FAILED"}
              /\ \E v \in RefundWorkers :
                   /\ place[v] = "answered" /\ job[v].refund = r
                   /\ answer[v].kind = new /\ answer[v].id = id

RetriesRefund(r) ==
    /\ refundStatus[r] = "PROCESSING"
    /\ LogRefund(r, "REFUND_RETRY_SCHEDULED", "PROCESSING", FALSE)
    /\ UNCHANGED <<target, amount, mode, refundStatus, refundId>>

PayoutAdded ==
    \E r \in Refunds, n \in Nat :
        /\ target[r] \in Payments
        /\ payouts' = [payouts EXCEPT ![target[r]] =
                          Append(@, PayoutFor(r, n))]

PayoutCompleted ==
    \E p \in Payments : \E i \in DOMAIN payouts[p] :
        /\ payouts[p][i].status = "PROCESSING"
        /\ payouts' = [payouts EXCEPT ![p][i].status = "SUCCEEDED"]

(* A worker that is not idle runs a task of a refund that has a payment. *)
LEMMA JobTyped ==
    ASSUME RefundTypeOK, NEW v \in RefundWorkers, place[v] # "idle"
    PROVE  /\ job[v] \in RefundTasks
           /\ job[v].refund \in Refunds
           /\ target[job[v].refund] \in Payments
           /\ answer[v].id \in Nat
BY DEF RefundTypeOK, RefundTasks, Replies

(* record_refund_transition moves the refund along an edge or leaves it. *)
LEMMA TransitionMoves ==
    ASSUME NEW r, NEW new, NEW id \in Nat,
           NEW type \in {"REFUND_PROCESSING", "REFUND_SUCCEEDED",
                         "REFUND_FAILED"},
           RecordRefundTransition(r, type, new, id),
           \/ new = "PROCESSING" /\ id = NoId
           \/ new = "FAILED" /\ id = NoId
           \/ /\ new \in {"SUCCEEDED", "FAILED"}
              /\ \E v \in RefundWorkers :
                   /\ place[v] = "answered" /\ job[v].refund = r
                   /\ answer[v].kind = new /\ answer[v].id = id
    PROVE  MovesRefund(r, new) \/ UNCHANGED refundRows
BY DEF RecordRefundTransition, MovesRefund, refundRows

(* What the worker steps that write no refund leave alone. *)
LEMMA QuietSteps ==
    ASSUME NEW v \in RefundWorkers,
           \/ TakeRefund(v) \/ ReadProviderId(v) \/ CallRefundProvider(v)
           \/ RetryRefund(v) \/ CompleteRefund(v) \/ RestoreAfterRefund(v)
           \/ AcknowledgeRefund(v) \/ RefundFault(v)
    PROVE  UNCHANGED refundRows
BY DEF TakeRefund, ReadProviderId, CallRefundProvider, RefundAnswered,
       RefundCallLost, RefundHangsUp, RefundCalling, RetryRefund,
       CompleteRefund, RestoreAfterRefund, AcknowledgeRefund, RefundFault,
       RefundWorkerCrashes, LoseRefundTask, RedeliverRefund, ReleaseRefund

(* Every step writes at most one refund. *)
LEMMA RefundRowStep ==
    ASSUME RefundTyped, [RefundNext]_everything
    PROVE  \/ UNCHANGED refundRows
           \/ \E r \in Refunds, p \in Payments : CreateRefund(r, p)
           \/ \E r \in Refunds, new \in RefundStatuses : MovesRefund(r, new)
           \/ \E r \in Refunds : RetriesRefund(r)
<1>1. ASSUME NEW v \in RefundWorkers, RefundWorkerStep(v)
      PROVE  \/ UNCHANGED refundRows
             \/ \E r \in Refunds, new \in RefundStatuses : MovesRefund(r, new)
             \/ \E r \in Refunds : RetriesRefund(r)
  <2>1. SUFFICES ASSUME \/ StartRefund(v) \/ RefundSucceeds(v)
                        \/ RefundDeclined(v) \/ RefundRejected(v)
                        \/ CountRefundRetry(v) \/ GiveUpRefund(v)
                 PROVE  \/ UNCHANGED refundRows
                        \/ \E r \in Refunds, new \in RefundStatuses :
                              MovesRefund(r, new)
                        \/ \E r \in Refunds : RetriesRefund(r)
    BY <1>1, QuietSteps DEF RefundWorkerStep, FinishRefund
  <2> DEFINE r == job[v].refund
  <2>2. place[v] # "idle"
    BY <2>1 DEF StartRefund, RefundSucceeds, RefundDeclined, RefundRejected,
                CountRefundRetry, GiveUpRefund, Conclude, Step
  <2>3. r \in Refunds /\ answer[v].id \in Nat
    BY <2>2, JobTyped DEF RefundTyped
  <2>4. NoId \in Nat /\ {"PROCESSING", "SUCCEEDED", "FAILED"} \subseteq RefundStatuses
    BY DEF NoId, RefundStatuses
  <2>5. CASE StartRefund(v)
    <3>1. RecordRefundTransition(r, "REFUND_PROCESSING", "PROCESSING", NoId)
      BY <2>5 DEF StartRefund
    <3> QED
      BY <2>3, <2>4, <3>1, TransitionMoves
  <2>6. CASE RefundSucceeds(v)
    <3>1. /\ RecordRefundTransition(r, "REFUND_SUCCEEDED", "SUCCEEDED",
                                    answer[v].id)
          /\ place[v] = "answered" /\ answer[v].kind = "SUCCEEDED"
      BY <2>6 DEF RefundSucceeds, Conclude, Step
    <3> QED
      BY <2>3, <2>4, <3>1, TransitionMoves
  <2>7. CASE RefundDeclined(v)
    <3>1. /\ RecordRefundTransition(r, "REFUND_FAILED", "FAILED", answer[v].id)
          /\ place[v] = "answered" /\ answer[v].kind = "FAILED"
      BY <2>7 DEF RefundDeclined, Conclude, Step
    <3> QED
      BY <2>3, <2>4, <3>1, TransitionMoves
  <2>8. CASE RefundRejected(v) \/ GiveUpRefund(v)
    <3>1. RecordRefundTransition(r, "REFUND_FAILED", "FAILED", NoId)
      BY <2>8 DEF RefundRejected, GiveUpRefund, Conclude
    <3> QED
      BY <2>3, <2>4, <3>1, TransitionMoves
  <2>9. CASE CountRefundRetry(v)
    BY <2>3, <2>9 DEF CountRefundRetry, RecordRefundRetry, RetriesRefund,
                      refundRows
  <2> QED
    BY <2>1, <2>5, <2>6, <2>7, <2>8, <2>9
<1>2. ASSUME NEW v \in RefundWorkers, RefundFault(v)
      PROVE  UNCHANGED refundRows
  BY <1>2, QuietSteps
<1>3. ASSUME NEW r \in Refunds, SendRefund(r)
      PROVE  UNCHANGED refundRows
  BY <1>3 DEF SendRefund, PublishRefund, RefundPublishFails
<1>4. ASSUME NEW p \in Payments, RefundWakes(p)
      PROVE  UNCHANGED refundRows
  BY <1>4 DEF RefundWakes
<1>5. CASE PaymentStep \/ UNCHANGED everything
  BY <1>5 DEF PaymentStep, everything, refundVars
<1> QED
  BY <1>1, <1>2, <1>3, <1>4, <1>5 DEF RefundNext, RefundStep

(* Every step adds at most one record to the provider's, or completes one. *)
LEMMA PayoutStep ==
    ASSUME RefundTyped, [RefundNext]_everything
    PROVE  UNCHANGED payouts \/ PayoutAdded \/ PayoutCompleted
<1>1. ASSUME NEW v \in RefundWorkers, CallRefundProvider(v)
      PROVE  UNCHANGED payouts \/ PayoutAdded
  <2>1. place[v] # "idle"
    BY <1>1 DEF CallRefundProvider, RefundAnswered, RefundCallLost,
                RefundHangsUp, RefundCalling, Step
  <2>2. /\ job[v].refund \in Refunds /\ target[job[v].refund] \in Payments
        /\ answer[v].id \in Nat
    BY <2>1, JobTyped DEF RefundTyped
  <2>3. UNCHANGED payouts \/ PayOut(job[v].refund, answer[v].id)
    BY <1>1 DEF CallRefundProvider, RefundAnswered, RefundCallLost,
                RefundHangsUp
  <2> QED
    BY <2>2, <2>3 DEF PayOut, PayoutAdded
<1>2. ASSUME NEW v \in RefundWorkers, RefundWorkerStep(v),
             ~CallRefundProvider(v)
      PROVE  UNCHANGED payouts
  BY <1>2 DEF RefundWorkerStep, TakeRefund, StartRefund, ReadProviderId,
              FinishRefund, RefundSucceeds, RefundDeclined, RefundRejected,
              CountRefundRetry, RetryRefund, GiveUpRefund, CompleteRefund,
              RestoreAfterRefund, AcknowledgeRefund, ReleaseRefund, Conclude
<1>3. ASSUME NEW v \in RefundWorkers, RefundFault(v)
      PROVE  UNCHANGED payouts
  BY <1>3 DEF RefundFault, RefundWorkerCrashes, LoseRefundTask,
              RedeliverRefund, ReleaseRefund
<1>4. ASSUME NEW r \in Refunds,
             SendRefund(r) \/ \E p \in Payments : CreateRefund(r, p)
      PROVE  UNCHANGED payouts
  BY <1>4 DEF SendRefund, PublishRefund, RefundPublishFails, CreateRefund
<1>5. ASSUME NEW p \in Payments, RefundWakes(p)
      PROVE  PayoutCompleted
  BY <1>5 DEF RefundWakes, PayoutCompleted
<1>6. CASE PaymentStep \/ UNCHANGED everything
  BY <1>6 DEF PaymentStep, everything, refundVars
<1> QED
  BY <1>1, <1>2, <1>3, <1>4, <1>5, <1>6 DEF RefundNext, RefundStep

-----------------------------------------------------------------------------
(* Type correctness.                                                       *)

(* The rows of the refunds. *)
RefundRowsTyped ==
    /\ target \in [Refunds -> Payments \cup {Nil}]
    /\ amount \in [Refunds -> 0 .. Price]
    /\ mode \in [Refunds -> AllModes]
    /\ refundStatus \in [Refunds -> RefundStatuses \cup {NoRow}]
    /\ refundId \in [Refunds -> Nat]
    /\ refundLog \in [Refunds -> Seq(RefundEvents)]
    /\ \A r \in Refunds : target[r] = Nil <=> refundStatus[r] = NoRow

(* Appending an event of the right type. *)
LEMMA RefundEventTyped ==
    ASSUME RefundRowsTyped, NEW r \in Refunds,
           NEW type \in {"REFUND_CREATED", "REFUND_PROCESSING",
                         "REFUND_SUCCEEDED", "REFUND_FAILED",
                         "REFUND_RETRY_SCHEDULED"},
           NEW new \in RefundStatuses, NEW announced \in BOOLEAN,
           LogRefund(r, type, new, announced)
    PROVE  refundLog' \in [Refunds -> Seq(RefundEvents)]
<1> DEFINE e == [type |-> type, new |-> new, announced |-> announced]
<1>1. e \in RefundEvents
  BY DEF RefundEvents
<1>2. refundLog' = [refundLog EXCEPT ![r] = Append(@, e)]
  BY DEF LogRefund
<1> HIDE DEF e
<1>3. refundLog[r] \in Seq(RefundEvents)
  BY DEF RefundRowsTyped
<1>4. Append(refundLog[r], e) \in Seq(RefundEvents)
  BY <1>1, <1>3
<1> QED
  BY <1>2, <1>4 DEF RefundRowsTyped

(* A refund that has a payment keeps it. *)
LEMMA TargetStays ==
    ASSUME RefundTyped, [RefundNext]_everything, NEW r \in Refunds,
           refundStatus[r] # NoRow
    PROVE  target'[r] = target[r] /\ amount'[r] = amount[r] /\ mode'[r] = mode[r]
<1> USE DEF RefundTyped, RefundTypeOK
<1>1. ASSUME NEW q \in Refunds, NEW p \in Payments, CreateRefund(q, p)
      PROVE  q # r /\ UNCHANGED <<target[r], amount[r], mode[r]>>
  BY <1>1 DEF CreateRefund
<1> QED
  BY <1>1, RefundRowStep DEF MovesRefund, RetriesRefund, refundRows

LEMMA RefundRowsStepTyped ==
    ASSUME RefundTyped, [RefundNext]_everything
    PROVE  RefundRowsTyped'
<1>0. RefundRowsTyped
  BY DEF RefundTyped, RefundTypeOK, RefundRowsTyped
<1> USE DEF RefundRowsTyped
<1>1. ASSUME NEW r \in Refunds, NEW p \in Payments, CreateRefund(r, p)
      PROVE  RefundRowsTyped'
  <2>1. refundLog' \in [Refunds -> Seq(RefundEvents)]
    BY <1>0, <1>1, RefundEventTyped DEF CreateRefund, RefundStatuses
  <2>2. amount' \in [Refunds -> 0 .. Price]
    BY <1>0, <1>1, PriceAssumption DEF CreateRefund
  <2>3. mode' \in [Refunds -> AllModes]
    BY <1>0, <1>1, ModesAssumption DEF CreateRefund
  <2>4. /\ target' = [target EXCEPT ![r] = p]
        /\ refundStatus' = [refundStatus EXCEPT ![r] = "CREATED"]
        /\ refundId' = refundId
    BY <1>1 DEF CreateRefund, SetRefund
  <2>5. p # Nil /\ "CREATED" # NoRow
    BY NilAssumptionForRefunds DEF NoRow
  <2>6. "CREATED" \in RefundStatuses
    BY DEF RefundStatuses
  <2> QED
    BY <1>0, <2>1, <2>2, <2>3, <2>4, <2>5, <2>6
<1>2. ASSUME NEW r \in Refunds, NEW new \in RefundStatuses,
             MovesRefund(r, new)
      PROVE  RefundRowsTyped'
  <2>1. refundLog' \in [Refunds -> Seq(RefundEvents)]
    <3>1. PICK type \in {"REFUND_PROCESSING", "REFUND_SUCCEEDED",
                         "REFUND_FAILED"} : LogRefund(r, type, new, TRUE)
      BY <1>2 DEF MovesRefund
    <3> QED
      BY <1>0, <3>1, RefundEventTyped
  <2>2. PICK id \in Nat : refundId' = [refundId EXCEPT ![r] = Coalesce(id, @)]
    BY <1>2 DEF MovesRefund
  <2>3. refundId' \in [Refunds -> Nat]
    <3>1. Coalesce(id, refundId[r]) \in Nat
      BY <1>0 DEF Coalesce
    <3> QED
      BY <1>0, <2>2, <3>1
  <2>4. /\ refundStatus' = [refundStatus EXCEPT ![r] = new]
        /\ refundStatus[r] # NoRow /\ new # NoRow
        /\ UNCHANGED <<target, amount, mode>>
    BY <1>2 DEF MovesRefund, SetRefund, ValidRefundTransitions, NoRow
  <2> QED
    BY <1>0, <2>1, <2>3, <2>4
<1>3. ASSUME NEW r \in Refunds, RetriesRefund(r)
      PROVE  RefundRowsTyped'
  <2>1. refundLog' \in [Refunds -> Seq(RefundEvents)]
    BY <1>0, <1>3, RefundEventTyped DEF RetriesRefund, RefundStatuses
  <2> QED
    BY <1>0, <1>3, <2>1 DEF RetriesRefund
<1>4. CASE UNCHANGED refundRows
  BY <1>0, <1>4 DEF refundRows
<1> QED
  BY <1>1, <1>2, <1>3, <1>4, RefundRowStep

(* What the provider keeps of a refund. *)
LEMMA PayoutsTyped ==
    ASSUME RefundTyped, [RefundNext]_everything
    PROVE  payouts' \in [Payments -> Seq(Payouts)]
<1>0. payouts \in [Payments -> Seq(Payouts)]
  BY DEF RefundTyped, RefundTypeOK
<1>1. CASE PayoutAdded
  <2>1. PICK r \in Refunds, n \in Nat :
             /\ target[r] \in Payments
             /\ payouts' = [payouts EXCEPT ![target[r]] =
                               Append(@, PayoutFor(r, n))]
    BY <1>1 DEF PayoutAdded
  <2>2. PayoutFor(r, n) \in Payouts
    BY DEF PayoutFor, Payouts
  <2> DEFINE e == PayoutFor(r, n)
  <2> HIDE DEF e
  <2>3. Append(payouts[target[r]], e) \in Seq(Payouts)
    BY <1>0, <2>1, <2>2 DEF e
  <2> QED
    BY <1>0, <2>1, <2>3 DEF e
<1>2. CASE PayoutCompleted
  <2>1. PICK p \in Payments : \E i \in DOMAIN payouts[p] :
             payouts' = [payouts EXCEPT ![p][i].status = "SUCCEEDED"]
    BY <1>2 DEF PayoutCompleted
  <2>2. PICK i \in DOMAIN payouts[p] :
             payouts' = [payouts EXCEPT ![p][i].status = "SUCCEEDED"]
    BY <2>1
  <2>3. payouts[p] \in Seq(Payouts) /\ payouts[p][i] \in Payouts
    BY <1>0
  <2>4. [payouts[p][i] EXCEPT !.status = "SUCCEEDED"] \in Payouts
    BY <2>3 DEF Payouts
  <2> DEFINE c == [payouts[p][i] EXCEPT !.status = "SUCCEEDED"]
  <2>5. payouts' = [payouts EXCEPT ![p] = [@ EXCEPT ![i] = c]]
    BY <2>2
  <2> HIDE DEF c
  <2>6. [payouts[p] EXCEPT ![i] = c] \in Seq(Payouts)
    BY <2>3, <2>4 DEF c
  <2> QED
    BY <1>0, <2>5, <2>6
<1> QED
  BY <1>0, <1>1, <1>2, PayoutStep

(* The rest: the broker and the pool. *)
RefundPoolTyped ==
    /\ unsentRefunds \subseteq Refunds
    /\ refundQueue \in [RefundTasks -> Nat]
    /\ place \in [RefundWorkers -> Places]
    /\ job \in [RefundWorkers -> RefundTasks \cup {Nil}]
    /\ \A v \in RefundWorkers :
         place[v] # "idle" => /\ job[v] \in RefundTasks
                              /\ target[job[v].refund] \in Payments
    /\ onLease \subseteq RefundWorkers
    /\ answer \in [RefundWorkers -> Replies]
    /\ Handed

(* Handing over a task of a refund that has a payment. *)
LEMMA EnqueueRefundTyped ==
    ASSUME RefundPoolTyped, NEW t \in RefundTasks, EnqueueRefund(t)
    PROVE  /\ refundQueue' \in [RefundTasks -> Nat]
           /\ \A u \in RefundTasks :
                 refundQueue'[u] > 0 => u = t \/ refundQueue[u] > 0
BY DEF EnqueueRefund, RefundPoolTyped

(* The steps that change neither a refund's payment nor the provider's     *)
(* records of it: all of a worker's but its call.                          *)
LEMMA WorkerPoolTyped ==
    ASSUME RefundTyped, NEW v \in RefundWorkers,
           RefundWorkerStep(v), UNCHANGED target
    PROVE  RefundPoolTyped'
<1>0. RefundPoolTyped
  BY DEF RefundTyped, RefundTypeOK, RefundPoolTyped
<1> USE DEF RefundPoolTyped, Handed
<1>1. {"idle", "start", "read", "call", "answered", "retry", "complete",
       "restore", "ack"} = Places
  BY DEF Places
<1>2. ASSUME NEW from \in Places, NEW to \in Places, Step(v, from, to),
             from # "idle", UNCHANGED <<job, onLease, unsentRefunds>>,
             answer' \in [RefundWorkers -> Replies],
             refundQueue' \in [RefundTasks -> Nat],
             \A u \in RefundTasks :
                refundQueue'[u] > 0 => u = job[v] \/ refundQueue[u] > 0
      PROVE  RefundPoolTyped'
  BY <1>0, <1>2 DEF Step
<1>3. place[v] # "idle" => /\ job[v] \in RefundTasks
                           /\ job[v].refund \in Refunds
                           /\ target[job[v].refund] \in Payments
                           /\ answer[v].id \in Nat
  BY JobTyped DEF RefundTyped
<1>4. NoReply \in Replies
  BY DEF NoReply, NoId, Replies
<1>5. ASSUME NEW kind \in {"none", "SUCCEEDED", "FAILED", "transient",
                           "permanent"},
             NEW id \in Nat, Receive(v, kind, id)
      PROVE  answer' \in [RefundWorkers -> Replies]
  BY <1>0, <1>5 DEF Receive, Replies
<1>6. CASE TakeRefund(v)
  <2>1. PICK t \in RefundTasks :
             /\ refundQueue[t] > 0
             /\ refundQueue' = [refundQueue EXCEPT ![t] = @ - 1]
             /\ job' = [job EXCEPT ![v] = t]
             /\ place' = [place EXCEPT ![v] = RefundEntry(t.refund)]
    BY <1>6 DEF TakeRefund, Waiting, Step
  <2>2. RefundEntry(t.refund) \in Places
    BY <1>1 DEF RefundEntry
  <2>3. /\ refundQueue' \in [RefundTasks -> Nat]
        /\ \A u \in RefundTasks : refundQueue'[u] > 0 => refundQueue[u] > 0
    BY <1>0, <2>1
  <2>4. UNCHANGED <<unsentRefunds, answer>> /\ onLease' = onLease \cup {v}
    BY <1>6 DEF TakeRefund
  <2> QED
    BY <1>0, <2>1, <2>2, <2>3, <2>4
<1>7. CASE StartRefund(v)
  <2>1. PICK to \in {"read", "ack"} : Step(v, "start", to)
    BY <1>7 DEF StartRefund
  <2> QED
    BY <1>0, <1>1, <1>2, <1>7, <2>1 DEF StartRefund, OnlyWorker
<1>8. CASE ReadProviderId(v)
  <2>1. place[v] # "idle"
    BY <1>8 DEF ReadProviderId, Step
  <2>2. providerId[target[job[v].refund]] \in Nat /\ NoId \in Nat
    BY <1>3, <2>1 DEF RefundTyped, Typed, TableTypeOK, NoId
  <2>3. answer' \in [RefundWorkers -> Replies]
    BY <1>5, <1>8, <2>2 DEF ReadProviderId
  <2>4. PICK to \in {"call", "answered"} : Step(v, "read", to)
    BY <1>8 DEF ReadProviderId
  <2> QED
    BY <1>0, <1>1, <1>2, <1>8, <2>3, <2>4 DEF ReadProviderId, OnlyWorker
<1>9. CASE CallRefundProvider(v)
  <2>1. PICK to \in {"answered", "ack"} : RefundCalling(v, to)
    BY <1>9 DEF CallRefundProvider, RefundAnswered, RefundCallLost,
                RefundHangsUp
  <2>2. place[v] # "idle"
    BY <2>1 DEF RefundCalling, Step
  <2>3. Len(payouts[target[job[v].refund]]) + 1 \in Nat /\ NoId \in Nat
    <3>1. payouts[target[job[v].refund]] \in Seq(Payouts)
      BY <1>3, <2>2 DEF RefundTyped, RefundTypeOK
    <3> QED
      BY <3>1, LenProperties DEF NoId
  <2>4. \A m : RefundReplyKind(m) \in {"SUCCEEDED", "FAILED", "transient"}
    BY DEF RefundReplyKind
  <2>5. CASE RefundAnswered(v)
    <3>1. \/ Receive(v, "permanent", NoId) \/ Receive(v, "transient", NoId)
          \/ \E kind \in {"SUCCEEDED", "FAILED"} :
                Receive(v, kind, Len(payouts[target[job[v].refund]]) + 1)
      BY <2>4, <2>5 DEF RefundAnswered
    <3>2. answer' \in [RefundWorkers -> Replies]
      BY <1>5, <2>3, <3>1
    <3> QED
      BY <1>0, <1>1, <1>2, <2>1, <3>2 DEF RefundCalling, OnlyWorker
  <2>6. CASE RefundCallLost(v)
    <3>1. answer' \in [RefundWorkers -> Replies]
      BY <1>5, <2>3, <2>6 DEF RefundCallLost
    <3> QED
      BY <1>0, <1>1, <1>2, <2>1, <3>1 DEF RefundCalling, OnlyWorker
  <2>7. CASE RefundHangsUp(v)
    BY <1>0, <1>1, <1>2, <2>1, <2>7 DEF RefundHangsUp, RefundCalling,
                                        OnlyWorker
  <2> QED
    BY <1>9, <2>5, <2>6, <2>7 DEF CallRefundProvider
<1>10. CASE \/ RefundSucceeds(v) \/ RefundDeclined(v) \/ RefundRejected(v)
            \/ GiveUpRefund(v)
  <2>1. PICK from \in {"answered", "retry"}, to \in {"complete", "restore", "ack"} :
             Step(v, from, to)
    BY <1>10 DEF RefundSucceeds, RefundDeclined, RefundRejected, GiveUpRefund,
                 Conclude
  <2>2. /\ answer' = [answer EXCEPT ![v] = NoReply]
        /\ UNCHANGED <<job, onLease, unsentRefunds, refundQueue>>
    BY <1>10 DEF RefundSucceeds, RefundDeclined, RefundRejected, GiveUpRefund,
                 Conclude, OnlyWorker
  <2>3. answer' \in [RefundWorkers -> Replies]
    BY <1>0, <1>4, <2>2
  <2> QED
    BY <1>0, <1>1, <1>2, <2>1, <2>2, <2>3
<1>11. CASE CountRefundRetry(v)
  <2>1. answer' \in [RefundWorkers -> Replies]
    BY <1>0, <1>4, <1>11 DEF CountRefundRetry
  <2> QED
    BY <1>0, <1>1, <1>2, <1>11, <2>1 DEF CountRefundRetry, OnlyWorker
<1>12. CASE RetryRefund(v)
  <2> DEFINE t == [job[v] EXCEPT !.retries = @ + 1]
  <2>1. job[v] \in RefundTasks /\ Step(v, "retry", "ack")
    BY <1>3, <1>12 DEF RetryRefund, Step
  <2>2. t \in RefundTasks
    BY <1>12, <2>1, MaxRetriesAssumption DEF RetryRefund, RetriesLeft, RefundTasks
  <2>3. t.refund = job[v].refund
    BY <2>1 DEF RefundTasks
  <2>4. EnqueueRefund(t)
    BY <1>12 DEF RetryRefund
  <2> HIDE DEF t
  <2>5. /\ refundQueue' \in [RefundTasks -> Nat]
        /\ \A u \in RefundTasks :
              refundQueue'[u] > 0 => u = t \/ refundQueue[u] > 0
    BY <1>0, <2>2, <2>4, EnqueueRefundTyped
  <2>6. UNCHANGED <<job, onLease, unsentRefunds, answer>>
    BY <1>12 DEF RetryRefund, OnlyWorker
  <2>7. target[t.refund] \in Payments
    BY <1>3, <2>1, <2>3 DEF Step
  <2> QED
    BY <1>0, <1>1, <2>1, <2>5, <2>6, <2>7 DEF Step
<1>13. CASE CompleteRefund(v) \/ RestoreAfterRefund(v)
  <2>1. PICK from \in {"complete", "restore"} : Step(v, from, "ack")
    BY <1>13 DEF CompleteRefund, RestoreAfterRefund
  <2> QED
    BY <1>0, <1>1, <1>2, <1>13, <2>1
       DEF CompleteRefund, RestoreAfterRefund, OnlyWorker
<1>14. CASE AcknowledgeRefund(v)
  BY <1>0, <1>1, <1>4, <1>14 DEF AcknowledgeRefund, ReleaseRefund
<1> QED
  BY <1>6, <1>7, <1>8, <1>9, <1>10, <1>11, <1>12, <1>13, <1>14
     DEF RefundWorkerStep, FinishRefund

(* So do the steps of the API process and of the broker. *)
LEMMA BrokerPoolTyped ==
    ASSUME RefundTyped,
           \/ \E r \in Refunds : \/ SendRefund(r)
                                 \/ \E p \in Payments : CreateRefund(r, p)
           \/ \E v \in RefundWorkers : RefundFault(v)
           \/ \E p \in Payments : RefundWakes(p)
           \/ PaymentStep \/ UNCHANGED everything
    PROVE  RefundPoolTyped'
<1>0. RefundPoolTyped
  BY DEF RefundTyped, RefundTypeOK, RefundPoolTyped
<1> USE DEF RefundPoolTyped, Handed
<1>1. ASSUME NEW r \in Refunds, NEW p \in Payments, CreateRefund(r, p)
      PROVE  RefundPoolTyped'
  <2>1. /\ target' = [target EXCEPT ![r] = p]
        /\ unsentRefunds' = unsentRefunds \cup {r}
        /\ UNCHANGED <<refundQueue, refundPool>>
    BY <1>1 DEF CreateRefund
  <2>2. target \in [Refunds -> Payments \cup {Nil}]
    BY DEF RefundTyped, RefundTypeOK
  <2>3. \A q \in Refunds : target[q] \in Payments => target'[q] \in Payments
    BY <2>1, <2>2
  <2>4. \A t \in RefundTasks : t.refund \in Refunds
    BY DEF RefundTasks
  <2>5. target'[r] \in Payments
    BY <2>1, <2>2
  <2>6. \A q \in unsentRefunds' : target'[q] \in Payments
    BY <1>0, <2>1, <2>3, <2>5
  <2> QED
    BY <1>0, <2>1, <2>3, <2>4, <2>6 DEF refundPool
<1>2. ASSUME NEW r \in Refunds, PublishRefund(r)
      PROVE  RefundPoolTyped'
  <2> DEFINE t == [refund |-> r, retries |-> 0]
  <2>1. t \in RefundTasks /\ t.refund = r
    BY MaxRetriesAssumption DEF RefundTasks
  <2>2. r \in unsentRefunds /\ EnqueueRefund(t)
    BY <1>2 DEF PublishRefund
  <2> HIDE DEF t
  <2>3. /\ refundQueue' \in [RefundTasks -> Nat]
        /\ \A u \in RefundTasks :
              refundQueue'[u] > 0 => u = t \/ refundQueue[u] > 0
    BY <1>0, <2>1, <2>2, EnqueueRefundTyped
  <2>4. target[t.refund] \in Payments
    BY <1>0, <2>1, <2>2
  <2>5. /\ unsentRefunds' = unsentRefunds \ {r}
        /\ UNCHANGED <<target, refundPool>>
    BY <1>2 DEF PublishRefund, refundRows
  <2> QED
    BY <1>0, <2>3, <2>4, <2>5 DEF refundPool
<1>3. ASSUME NEW r \in Refunds, RefundPublishFails(r)
      PROVE  RefundPoolTyped'
  BY <1>0, <1>3 DEF RefundPublishFails, refundRows, refundPool
<1>4. ASSUME NEW v \in RefundWorkers, RefundFault(v)
      PROVE  RefundPoolTyped'
  <2>1. place[v] # "idle" /\ job[v] \in RefundTasks
        /\ target[job[v].refund] \in Payments
    BY <1>0, <1>4 DEF RefundFault, RefundWorkerCrashes, LoseRefundTask,
                      RedeliverRefund
  <2>2. /\ refundQueue' \in [RefundTasks -> Nat]
        /\ \A u \in RefundTasks :
              refundQueue'[u] > 0 => u = job[v] \/ refundQueue[u] > 0
    <3>1. EnqueueRefund(job[v]) \/ UNCHANGED refundQueue
      BY <1>4 DEF RefundFault, RefundWorkerCrashes, LoseRefundTask,
                  RedeliverRefund, CrashRedelivers
    <3> QED
      BY <1>0, <2>1, <3>1, EnqueueRefundTyped
  <2>3. UNCHANGED <<target, unsentRefunds>>
    BY <1>4 DEF RefundFault, RefundWorkerCrashes, LoseRefundTask,
                RedeliverRefund, ReleaseRefund, refundRows
  <2>4. CASE ReleaseRefund(v)
    <3>1. NoReply \in Replies /\ "idle" \in Places
      BY DEF NoReply, NoId, Replies, Places
    <3> QED
      BY <1>0, <2>1, <2>2, <2>3, <2>4, <3>1 DEF ReleaseRefund
  <2>5. CASE RedeliverRefund(v)
    BY <1>0, <2>1, <2>2, <2>3, <2>5 DEF RedeliverRefund
  <2> QED
    BY <1>4, <2>4, <2>5 DEF RefundFault, RefundWorkerCrashes, LoseRefundTask
<1>5. ASSUME NEW p \in Payments, RefundWakes(p)
      PROVE  RefundPoolTyped'
  BY <1>0, <1>5 DEF RefundWakes, refundRows, refundPool
<1>6. CASE PaymentStep \/ UNCHANGED everything
  BY <1>0, <1>6 DEF PaymentStep, everything, refundVars, refundRows, refundPool
<1> QED
  BY <1>1, <1>2, <1>3, <1>4, <1>5, <1>6 DEF SendRefund

(* What the refund side writes of a payment: its status, and only of one   *)
(* that has a refund or is REFUND_PENDING.                                 *)
LEMMA RefundWrites ==
    ASSUME RefundTyped, RefundStep
    PROVE  \/ UNCHANGED table
           \/ \E p \in Payments :
                \/ \E r \in Refunds : CreateRefund(r, p)
                \/ CompletePayment(p) /\ \E r \in Refunds : target[r] = p
                \/ RestorePayment(p)
<1>1. ASSUME NEW v \in RefundWorkers, RefundWorkerStep(v)
      PROVE  \/ UNCHANGED table
             \/ \E p \in Payments :
                  \/ CompletePayment(p) /\ \E r \in Refunds : target[r] = p
                  \/ RestorePayment(p)
  <2>1. CASE CompleteRefund(v) \/ RestoreAfterRefund(v)
    <3>1. place[v] # "idle"
      BY <2>1 DEF CompleteRefund, RestoreAfterRefund, Step
    <3>2. job[v].refund \in Refunds /\ target[job[v].refund] \in Payments
      BY <3>1, JobTyped DEF RefundTyped
    <3> QED
      BY <2>1, <3>2 DEF CompleteRefund, RestoreAfterRefund
  <2>2. CASE ~(CompleteRefund(v) \/ RestoreAfterRefund(v))
    BY <1>1, <2>2
       DEF RefundWorkerStep, TakeRefund, StartRefund, ReadProviderId,
           CallRefundProvider, RefundAnswered, RefundCallLost, RefundHangsUp,
           RefundCalling, FinishRefund, RefundSucceeds, RefundDeclined,
           RefundRejected, CountRefundRetry, RetryRefund, GiveUpRefund,
           Conclude, AcknowledgeRefund, ReleaseRefund, paymentSide
  <2> QED
    BY <2>1, <2>2
<1>2. ASSUME NEW v \in RefundWorkers, RefundFault(v)
      PROVE  UNCHANGED table
  BY <1>2 DEF RefundFault, RefundWorkerCrashes, LoseRefundTask,
              RedeliverRefund, ReleaseRefund, paymentSide
<1>3. ASSUME NEW r \in Refunds, SendRefund(r)
      PROVE  UNCHANGED table
  BY <1>3 DEF SendRefund, PublishRefund, RefundPublishFails, paymentSide
<1>4. ASSUME NEW p \in Payments, RefundWakes(p)
      PROVE  UNCHANGED table
  BY <1>4 DEF RefundWakes, paymentSide
<1> QED
  BY <1>1, <1>2, <1>3, <1>4 DEF RefundStep

(* Everything else of the payment side stays, but for the faults counted. *)
LEMMA RefundLeaves ==
    ASSUME RefundTyped, RefundStep
    PROVE  UNCHANGED elsewhere /\ faults' \in [FaultKinds -> Nat]
<1>0. faults \in [FaultKinds -> Nat]
  BY DEF RefundTyped, Typed, SystemTypeOK
<1>1. \A kind \in FaultKinds : Strike(kind) => faults' \in [FaultKinds -> Nat]
  BY <1>0, StrikeTyped
<1>2. {"publish", "network", "disconnect", "redeliver", "crash", "lost_task"}
         \subseteq FaultKinds
  BY DEF FaultKinds
<1>3. ASSUME NEW v \in RefundWorkers, RefundWorkerStep(v)
      PROVE  UNCHANGED elsewhere /\ faults' \in [FaultKinds -> Nat]
  BY <1>0, <1>1, <1>2, <1>3
     DEF RefundWorkerStep, TakeRefund, StartRefund, ReadProviderId,
         CallRefundProvider, RefundAnswered, RefundCallLost, RefundHangsUp,
         RefundCalling, FinishRefund, RefundSucceeds, RefundDeclined,
         RefundRejected, CountRefundRetry, RetryRefund, GiveUpRefund,
         CompleteRefund, RestoreAfterRefund, Conclude, AcknowledgeRefund,
         ReleaseRefund, OnlyWorker, paymentSide
<1>4. ASSUME NEW v \in RefundWorkers, RefundFault(v)
      PROVE  UNCHANGED elsewhere /\ faults' \in [FaultKinds -> Nat]
  BY <1>1, <1>2, <1>4
     DEF RefundFault, RefundWorkerCrashes, LoseRefundTask, RedeliverRefund,
         ReleaseRefund, paymentSide
<1>5. ASSUME NEW r \in Refunds,
             SendRefund(r) \/ \E p \in Payments : CreateRefund(r, p)
      PROVE  UNCHANGED elsewhere /\ faults' \in [FaultKinds -> Nat]
  BY <1>0, <1>1, <1>2, <1>5
     DEF SendRefund, PublishRefund, RefundPublishFails, CreateRefund,
         paymentSide
<1>6. ASSUME NEW p \in Payments, RefundWakes(p)
      PROVE  UNCHANGED elsewhere /\ faults' \in [FaultKinds -> Nat]
  BY <1>0, <1>6 DEF RefundWakes, paymentSide
<1> QED
  BY <1>3, <1>4, <1>5, <1>6 DEF RefundStep

(* The two writes of process_refund after a refund is decided. *)
LEMMA RefundTableTyped ==
    ASSUME RefundTyped, NEW p \in Payments,
           \/ \E r \in Refunds : CreateRefund(r, p)
           \/ CompletePayment(p) \/ RestorePayment(p)
    PROVE  TableTypeOK'
<1>0. TableTypeOK
  BY DEF RefundTyped, Typed
<1> USE DEF TableTypeOK
<1>1. {"SUCCEEDED", "REFUND_PENDING", "REFUNDED"} \subseteq Statuses
      /\ {"PAYMENT_REFUND_PENDING", "PAYMENT_REFUNDED",
          "PAYMENT_PARTIALLY_REFUNDED"} \subseteq EventTypes
  BY DEF Statuses, EventTypes
<1>2. ASSUME NEW new \in Statuses, SetStatus(p, new)
      PROVE  /\ status' \in [Payments -> Statuses \cup {NoRow}]
             /\ recent' \subseteq Payments
             /\ UNCHANGED <<providerId, failure, retryCount>>
  BY <1>0, <1>2 DEF SetStatus
<1>3. ASSUME NEW r \in Refunds, CreateRefund(r, p)
      PROVE  TableTypeOK'
  <2>1. ledger' \in [Payments -> Seq(LedgerEvents)]
    BY <1>0, <1>1, <1>3, EventTyped DEF CreateRefund
  <2> QED
    BY <1>0, <1>1, <1>2, <1>3, <2>1 DEF CreateRefund
<1>4. CASE CompletePayment(p)
  <2>1. PICK new \in {"REFUNDED", "SUCCEEDED"},
             type \in {"PAYMENT_REFUNDED", "PAYMENT_PARTIALLY_REFUNDED"} :
             /\ SetStatus(p, new)
             /\ LogEvent(p, type, status[p], new)
             /\ Announce(p, type, new)
    BY <1>4 DEF CompletePayment
  <2>2. ledger' \in [Payments -> Seq(LedgerEvents)]
        /\ outbox' \in [Payments -> Seq(OutboxEvents)]
    BY <1>0, <1>1, <2>1, EventTyped
  <2> QED
    BY <1>0, <1>1, <1>2, <2>1, <2>2
<1>5. CASE RestorePayment(p)
  BY <1>0, <1>1, <1>2, <1>5 DEF RestorePayment, table
<1> QED
  BY <1>3, <1>4, <1>5

(* Every step keeps every variable typed. *)
LEMMA RefundStepTyped ==
    ASSUME RefundTyped, [RefundNext]_everything
    PROVE  RefundTyped'
<1>1. Typed'
  <2>1. CASE PaymentStep \/ UNCHANGED everything
    BY <2>1, StepKeepsTyped DEF PaymentStep, everything, RefundTyped
  <2>2. CASE RefundStep
    <3>1. TableTypeOK'
      <4>1. CASE UNCHANGED table
        BY <4>1 DEF RefundTyped, Typed, TableTypeOK, table
      <4>2. ASSUME NEW p \in Payments,
                   \/ \E r \in Refunds : CreateRefund(r, p)
                   \/ CompletePayment(p) \/ RestorePayment(p)
            PROVE  TableTypeOK'
        BY <4>2, RefundTableTyped
      <4> QED
        BY <2>2, <4>1, <4>2, RefundWrites
    <3>2. SystemTypeOK'
      BY <2>2, RefundLeaves
         DEF RefundTyped, Typed, SystemTypeOK, elsewhere, broker, pool,
             provider, reconciliation
    <3> QED
      BY <3>1, <3>2 DEF Typed
  <2> QED
    BY <2>1, <2>2 DEF RefundNext
<1>2. RefundPoolTyped'
  <2>1. ASSUME NEW v \in RefundWorkers, RefundWorkerStep(v)
        PROVE  UNCHANGED target
    BY <2>1, QuietSteps
       DEF RefundWorkerStep, FinishRefund, StartRefund, RefundSucceeds,
           RefundDeclined, RefundRejected, CountRefundRetry, GiveUpRefund,
           Conclude, RecordRefundTransition, RecordRefundRetry, refundRows
  <2> QED
    BY <2>1, WorkerPoolTyped, BrokerPoolTyped DEF RefundNext, RefundStep
<1>3. RefundRowsTyped' /\ payouts' \in [Payments -> Seq(Payouts)]
  BY RefundRowsStepTyped, PayoutsTyped
<1> QED
  BY <1>1, <1>2, <1>3
     DEF RefundTyped, RefundTypeOK, RefundRowsTyped, RefundPoolTyped

LEMMA RefundInitTyped == RefundInit => RefundTyped
<1> SUFFICES ASSUME RefundInit PROVE RefundTyped
  OBVIOUS
<1>1. Typed
  BY InitTyped, TypedSplit DEF RefundInit
<1>2. "success" \in AllModes /\ NoReply \in Replies /\ "idle" \in Places
      /\ NoId \in Nat
  BY DEF AllModes, NoReply, NoId, Replies, Places
<1>3. RefundTypeOK
  BY <1>2, PriceAssumption DEF RefundInit, RefundTypeOK
<1>4. Handed
  BY DEF RefundInit, Handed
<1> QED
  BY <1>1, <1>3, <1>4 DEF RefundTyped

(* With refunds beside the payments, every variable of the refund side     *)
(* keeps its type: no task ever runs for a refund without a payment.       *)
THEOREM RefundTypeCorrect == RefundSpec => []RefundTypeOK
<1>1. RefundInit => RefundTyped
  BY RefundInitTyped
<1>2. RefundTyped /\ [RefundNext]_everything => RefundTyped'
  BY RefundStepTyped
<1>3. RefundTyped => RefundTypeOK
  BY DEF RefundTyped
<1> QED
  BY <1>1, <1>2, <1>3, PTL DEF RefundSpec

-----------------------------------------------------------------------------
(* A decided refund stays as it was decided.                               *)

LEMMA DecidedStays ==
    ASSUME RefundTyped, [RefundNext]_everything, NEW r \in Refunds,
           refundStatus[r] \in {"SUCCEEDED", "FAILED"}
    PROVE  RefundRow(r)' = RefundRow(r)
<1> USE DEF RefundTyped, RefundTypeOK
<1>1. ASSUME NEW q \in Refunds, NEW p \in Payments, CreateRefund(q, p)
      PROVE  q # r
  BY <1>1 DEF CreateRefund, NoRow
<1>2. ASSUME NEW q \in Refunds, NEW p \in Payments, CreateRefund(q, p)
      PROVE  RefundRow(r)' = RefundRow(r)
  BY <1>1, <1>2 DEF CreateRefund, SetRefund, LogRefund, RefundRow
<1>3. ASSUME NEW q \in Refunds, NEW new \in RefundStatuses,
             MovesRefund(q, new)
      PROVE  RefundRow(r)' = RefundRow(r)
  <2>1. q # r
    BY <1>3 DEF MovesRefund, ValidRefundTransitions
  <2> QED
    BY <1>3, <2>1 DEF MovesRefund, SetRefund, LogRefund, RefundRow
<1>4. ASSUME NEW q \in Refunds, RetriesRefund(q)
      PROVE  RefundRow(r)' = RefundRow(r)
  BY <1>4 DEF RetriesRefund, LogRefund, RefundRow
<1>5. CASE UNCHANGED refundRows
  BY <1>5 DEF refundRows, RefundRow
<1> QED
  BY <1>2, <1>3, <1>4, <1>5, RefundRowStep

(* A refund that SUCCEEDED or FAILED is never written again, however late  *)
(* the copies of its task are and whatever fails.                          *)
THEOREM RefundNeverRewritten == RefundSpec => RefundIsFinal
<1>1. RefundInit => RefundTyped
  BY RefundInitTyped
<1>2. RefundTyped /\ [RefundNext]_everything => RefundTyped'
  BY RefundStepTyped
<1>3. RefundTyped /\ [RefundNext]_everything
        => [\A r \in Refunds :
               refundStatus[r] \in {"SUCCEEDED", "FAILED"} =>
                   RefundRow(r)' = RefundRow(r)]_everything
  BY DecidedStays
<1> QED
  BY <1>1, <1>2, <1>3, PTL DEF RefundSpec, RefundIsFinal

-----------------------------------------------------------------------------
(* The reserve.                                                            *)

(* What the reserve counts as taken is what create_refund adds up. *)
LEMMA TakenIsReserved ==
    ASSUME RefundTyped
    PROVE  \A p \in Payments :
              Reserve!Taken(p) =
                 RefundsOf(p, {"CREATED", "PROCESSING", "SUCCEEDED"})
BY DEF RefundTyped, RefundTypeOK, Reserve!Taken, ReserveState, RefundsOf,
       RefundStatuses, NoRow

(* Every step of the system holds a refund, decides one or stutters. *)
LEMMA ReserveStep ==
    ASSUME RefundTyped, [RefundNext]_everything
    PROVE  [Reserve!Next]_(Reserve!reserve)
<1> USE DEF RefundTyped, RefundTypeOK
<1>1. ASSUME NEW r \in Refunds, NEW p \in Payments, CreateRefund(r, p)
      PROVE  Reserve!Next
  <2>1. PICK cents \in 1 .. Price :
             /\ cents + Reserved(p) <= Price
             /\ amount' = [amount EXCEPT ![r] = cents]
    BY <1>1 DEF CreateRefund
  <2>2. ReserveState[r] = "unasked"
    BY <1>1 DEF CreateRefund, ReserveState, NoRow
  <2>3. ReserveState' = [ReserveState EXCEPT ![r] = "held"]
    BY <1>1 DEF CreateRefund, SetRefund, ReserveState, NoRow
  <2>4. cents + Total(amount, Reserve!Taken(p), Price) <= Price
    BY <2>1, TakenIsReserved DEF Reserved
  <2>5. target' = [target EXCEPT ![r] = p]
    BY <1>1 DEF CreateRefund
  <2>6. Reserve!Hold(r, p, cents)
    BY <2>1, <2>2, <2>3, <2>4, <2>5
       DEF Reserve!Hold, Reserve!Total, Reserve!Cents, Total, Cents,
           Reserve!Cardinality, Cardinality
  <2> QED
    BY <2>6 DEF Reserve!Next
<1>2. ASSUME NEW r \in Refunds, NEW new \in RefundStatuses,
             MovesRefund(r, new)
      PROVE  [Reserve!Next]_(Reserve!reserve)
  <2>1. /\ refundStatus' = [refundStatus EXCEPT ![r] = new]
        /\ UNCHANGED <<target, amount>>
        /\ <<refundStatus[r], new>> \in ValidRefundTransitions
    BY <1>2 DEF MovesRefund, SetRefund
  <2>2. CASE new = "PROCESSING"
    <3>1. ReserveState' = ReserveState
      BY <2>1, <2>2 DEF ReserveState, ValidRefundTransitions, NoRow
    <3> QED
      BY <2>1, <3>1 DEF Reserve!reserve
  <2>3. ASSUME NEW fate \in {"spent", "returned"},
               \/ new = "SUCCEEDED" /\ fate = "spent"
               \/ new = "FAILED" /\ fate = "returned"
        PROVE  Reserve!Next
    <3>1. ReserveState[r] = "held"
      BY <2>1, <2>3 DEF ReserveState, ValidRefundTransitions, NoRow
    <3>2. ReserveState' = [ReserveState EXCEPT ![r] = fate]
      BY <2>1, <2>3 DEF ReserveState, NoRow
    <3>3. Reserve!Decide(r, fate)
      BY <2>1, <3>1, <3>2 DEF Reserve!Decide
    <3> QED
      BY <3>3 DEF Reserve!Next
  <2> QED
    BY <2>1, <2>2, <2>3 DEF ValidRefundTransitions
<1>3. ASSUME UNCHANGED <<target, amount, refundStatus>>
      PROVE  UNCHANGED Reserve!reserve
  BY <1>3 DEF Reserve!reserve, ReserveState
<1> QED
  BY <1>1, <1>2, <1>3, RefundRowStep DEF RetriesRefund, refundRows

(* Refunding implements the reserve: a refund is held once, within what is *)
(* left of its payment, and then spent or returned for good.               *)
THEOREM ReserveImplemented == RefundSpec => ImplementsReserve
<1>1. RefundInit => RefundTyped
  BY RefundInitTyped
<1>2. RefundTyped /\ [RefundNext]_everything => RefundTyped'
  BY RefundStepTyped
<1>3. RefundInit => Reserve!Init
  BY DEF RefundInit, Reserve!Init, ReserveState, NoRow
<1>4. RefundTyped /\ [RefundNext]_everything
        => [Reserve!Next]_(Reserve!reserve)
  BY ReserveStep
<1> QED
  BY <1>1, <1>2, <1>3, <1>4, PTL
     DEF RefundSpec, ImplementsReserve, Reserve!Spec

(* The refunds of a payment are finitely many, and their total a number. *)
LEMMA RefundsOfFinite ==
    \A p : \A which : /\ IsFiniteSet(RefundsOf(p, which))
                      /\ Total(amount, RefundsOf(p, which), Price) \in Nat
<1>1. ASSUME NEW p, NEW which PROVE IsFiniteSet(RefundsOf(p, which))
  BY RefundsAssumption, FS_Subset DEF RefundsOf
<1> QED
  BY <1>1, TotalType, PriceAssumption

LEMMA WithinStep ==
    ASSUME RefundTyped, RefundsWithinPayment, [RefundNext]_everything
    PROVE  RefundsWithinPayment'
<1> USE DEF RefundTyped, RefundTypeOK
<1> DEFINE live == {"CREATED", "PROCESSING", "SUCCEEDED"}
<1>1. SUFFICES ASSUME NEW q \in Payments
               PROVE  Total(amount', RefundsOf(q, live)', Price) <= Price
  BY DEF RefundsWithinPayment, Reserved
<1>2. /\ Total(amount, RefundsOf(q, live), Price) <= Price
      /\ Total(amount, RefundsOf(q, live), Price) \in Nat
      /\ IsFiniteSet(RefundsOf(q, live))
  BY RefundsOfFinite DEF RefundsWithinPayment, Reserved
<1>3. CASE RefundsOf(q, live)' \in SUBSET RefundsOf(q, live)
           /\ amount' = amount
  <2>1. Total(amount, RefundsOf(q, live)', Price)
          <= Total(amount, RefundsOf(q, live), Price)
    BY <1>2, <1>3, TotalMonotone, PriceAssumption
  <2>2. IsFiniteSet(RefundsOf(q, live)')
    BY <1>2, <1>3, FS_Subset
  <2>3. Total(amount, RefundsOf(q, live)', Price) \in Nat
    BY <2>2, TotalType, PriceAssumption
  <2> QED
    BY <1>2, <1>3, <2>1, <2>3, PriceAssumption
<1>4. ASSUME NEW r \in Refunds, NEW p \in Payments, CreateRefund(r, p)
      PROVE  Total(amount', RefundsOf(q, live)', Price) <= Price
  <2>1. PICK cents \in 1 .. Price :
             /\ cents + Reserved(p) <= Price
             /\ amount' = [amount EXCEPT ![r] = cents]
    BY <1>4 DEF CreateRefund
  <2>2. /\ r \notin RefundsOf(q, live)
        /\ \A s \in RefundsOf(q, live) : amount'[s] = amount[s]
        /\ amount'[r] = cents /\ amount'[r] \in 0 .. Price
    BY <1>4, <2>1, PriceAssumption DEF CreateRefund, RefundsOf, NoRow
  <2>3. Total(amount', RefundsOf(q, live), Price)
          = Total(amount, RefundsOf(q, live), Price)
    BY <2>2, TotalCongruence
  <2>4. RefundsOf(q, live)' = IF q = p THEN RefundsOf(q, live) \cup {r}
                                       ELSE RefundsOf(q, live)
    BY <1>4 DEF CreateRefund, SetRefund, RefundsOf, NoRow
  <2>5. Total(amount', RefundsOf(q, live) \cup {r}, Price)
          = Total(amount', RefundsOf(q, live), Price) + amount'[r]
    <3> DEFINE S == RefundsOf(q, live)
    <3>1. IsFiniteSet(S) /\ r \notin S /\ amount'[r] \in 0 .. Price
      BY <1>2, <2>2
    <3> HIDE DEF S, live
    <3>2. Total(amount', S \cup {r}, Price)
            = Total(amount', S, Price) + amount'[r]
      BY <3>1, TotalAdd, PriceAssumption
    <3> QED
      BY <3>2 DEF S, live
  <2>6. CASE q = p
    <3>1. RefundsOf(q, live)' = RefundsOf(q, live) \cup {r}
      BY <2>4, <2>6
    <3>2. cents + Total(amount, RefundsOf(q, live), Price) <= Price
      BY <2>1, <2>6 DEF Reserved
    <3>3. Total(amount', RefundsOf(q, live) \cup {r}, Price)
            = Total(amount, RefundsOf(q, live), Price) + cents
      BY <2>2, <2>3, <2>5
    <3>4. Total(amount', RefundsOf(q, live) \cup {r}, Price) <= Price
      BY <1>2, <3>2, <3>3, PriceAssumption
    <3> QED
      BY <3>1, <3>4
  <2>7. CASE q # p
    BY <1>2, <2>3, <2>4, <2>7
  <2> QED
    BY <2>6, <2>7
<1>5. ASSUME NEW r \in Refunds, NEW new \in RefundStatuses,
             MovesRefund(r, new)
      PROVE  RefundsOf(q, live)' \in SUBSET RefundsOf(q, live)
             /\ amount' = amount
  BY <1>5 DEF MovesRefund, SetRefund, RefundsOf, ValidRefundTransitions
<1>6. ASSUME UNCHANGED <<target, amount, refundStatus>>
      PROVE  RefundsOf(q, live)' \in SUBSET RefundsOf(q, live)
             /\ amount' = amount
  BY <1>6 DEF RefundsOf
<1> QED
  BY <1>3, <1>4, <1>5, <1>6, RefundRowStep DEF RetriesRefund, refundRows

LEMMA RefundInitWithin == RefundInit => RefundsWithinPayment
<1> SUFFICES ASSUME RefundInit, NEW p \in Payments
             PROVE  Reserved(p) <= Price
  BY DEF RefundsWithinPayment
<1>1. RefundsOf(p, {"CREATED", "PROCESSING", "SUCCEEDED"}) = {}
  BY DEF RefundInit, RefundsOf, NoRow
<1>2. Cents(amount, {}, Price) = {}
  BY DEF Cents
<1> QED
  BY <1>1, <1>2, FS_EmptySet, PriceAssumption DEF Reserved, Total

(* In the service's own books, the refunds of a payment never come to more *)
(* than it, however many requests and late tasks interleave (README.md:66). *)
THEOREM RefundsAlwaysWithinPayment == RefundSpec => []RefundsWithinPayment
<1>1. RefundInit => RefundTyped /\ RefundsWithinPayment
  BY RefundInitTyped, RefundInitWithin
<1>2. RefundTyped /\ RefundsWithinPayment /\ [RefundNext]_everything
        => (RefundTyped /\ RefundsWithinPayment)'
  BY RefundStepTyped, WithinStep
<1> QED
  BY <1>1, <1>2, PTL DEF RefundSpec

-----------------------------------------------------------------------------
(* REFUNDED.                                                               *)

(* What has been given back of a payment never gets less. *)
LEMMA RefundedGrows ==
    ASSUME RefundTyped, RefundsWithinPayment, [RefundNext]_everything,
           NEW p \in Payments
    PROVE  /\ Refunded(p) \in Nat /\ Refunded(p)' \in Nat
           /\ Refunded(p) <= Refunded(p)'
           /\ Refunded(p) <= Price /\ Refunded(p)' <= Price
<1> DEFINE done == RefundsOf(p, {"SUCCEEDED"})
           live == RefundsOf(p, {"CREATED", "PROCESSING", "SUCCEEDED"})
<1>1. /\ done \in SUBSET live /\ IsFiniteSet(live) /\ IsFiniteSet(done)
      /\ done' \in SUBSET live' /\ IsFiniteSet(live') /\ IsFiniteSet(done')
  <2>1. done \in SUBSET live /\ done' \in SUBSET live'
    BY DEF RefundsOf
  <2>2. live \in SUBSET Refunds /\ live' \in SUBSET Refunds
        /\ done \in SUBSET Refunds /\ done' \in SUBSET Refunds
    BY DEF RefundsOf
  <2> QED
    BY <2>1, <2>2, RefundsAssumption, FS_Subset
<1>2. \A s \in done : s \in done' /\ amount'[s] = amount[s]
  <2>1. SUFFICES ASSUME NEW s \in done
                 PROVE  s \in done' /\ amount'[s] = amount[s]
    OBVIOUS
  <2>2. s \in Refunds /\ target[s] = p /\ refundStatus[s] = "SUCCEEDED"
    BY DEF RefundsOf
  <2>3. RefundRow(s)' = RefundRow(s)
    BY <2>2, DecidedStays
  <2> QED
    BY <2>2, <2>3 DEF RefundRow, RefundsOf
<1>3. RefundsWithinPayment'
  BY WithinStep
<1>4. Total(amount, live, Price) <= Price
      /\ Total(amount', live', Price) <= Price
  BY <1>3 DEF RefundsWithinPayment, Reserved
<1> HIDE DEF done, live
<1>5. /\ Total(amount, done, Price) <= Total(amount, live, Price)
      /\ Total(amount', done', Price) <= Total(amount', live', Price)
  BY <1>1, TotalMonotone, PriceAssumption
<1>6. Total(amount', done, Price) = Total(amount, done, Price)
  BY <1>2, TotalCongruence
<1>7. Total(amount', done, Price) <= Total(amount', done', Price)
  <2>1. done \in SUBSET done'
    BY <1>2
  <2> QED
    BY <1>1, <2>1, TotalMonotone, PriceAssumption
<1>8. /\ Total(amount, done, Price) \in Nat /\ Total(amount', done', Price) \in Nat
      /\ Total(amount, live, Price) \in Nat /\ Total(amount', live', Price) \in Nat
  BY <1>1, TotalType, PriceAssumption
<1>9. Refunded(p) = Total(amount, done, Price)
      /\ Refunded(p)' = Total(amount', done', Price)
  BY DEF Refunded, done
<1> QED
  BY <1>4, <1>5, <1>6, <1>7, <1>8, <1>9, PriceAssumption

(* Only the completion of a refund makes a payment REFUNDED. *)
LEMMA FullStep ==
    ASSUME RefundTyped, RefundsWithinPayment, RefundedInFull,
           [RefundNext]_everything
    PROVE  RefundedInFull'
<1>1. SUFFICES ASSUME NEW p \in Payments, status'[p] = "REFUNDED"
               PROVE  Refunded(p)' = Price
  BY DEF RefundedInFull
<1>2. /\ Refunded(p) \in Nat /\ Refunded(p)' \in Nat
      /\ Refunded(p) <= Refunded(p)' /\ Refunded(p)' <= Price
  BY RefundedGrows
<1>3. CASE status[p] = "REFUNDED"
  BY <1>2, <1>3, PriceAssumption DEF RefundedInFull
<1>4. CASE status[p] # "REFUNDED"
  <2>0. status \in [Payments -> Statuses \cup {NoRow}]
    BY DEF RefundTyped, Typed, TableTypeOK
  <2>1. CASE PaymentStep \/ UNCHANGED everything
    <3>1. RowsKept \/ \E q \in Payments : Written(q)
      BY <2>1, StepWrites DEF PaymentStep, everything, RefundTyped
    <3>2. ASSUME NEW q \in Payments, Written(q)
          PROVE  status'[p] # "REFUNDED"
      BY <1>4, <2>0, <3>2
         DEF Written, InsertPayment, Moved, PaymentMoves, Commit,
             RecordAwaitingWebhook, RecordRetry, table
    <3> QED
      BY <1>1, <1>4, <3>1, <3>2 DEF RowsKept, rows
  <2>2. CASE RefundStep
    <3>1. UNCHANGED table => status'[p] = status[p]
      BY DEF table
    <3>2. ASSUME NEW q \in Payments, NEW r \in Refunds, CreateRefund(r, q)
          PROVE  status'[p] # "REFUNDED"
      BY <1>4, <2>0, <3>2 DEF CreateRefund, SetStatus
    <3>3. ASSUME NEW q \in Payments, RestorePayment(q)
          PROVE  status'[p] # "REFUNDED"
      BY <1>4, <2>0, <3>3 DEF RestorePayment, SetStatus, table
    <3>4. ASSUME NEW q \in Payments, CompletePayment(q)
          PROVE  Refunded(p) >= Price
      <4>1. SetStatus(q, IF Refunded(q) >= Price THEN "REFUNDED"
                                                 ELSE "SUCCEEDED")
        BY <3>4 DEF CompletePayment
      <4> QED
        BY <1>1, <1>4, <2>0, <4>1 DEF SetStatus
    <3>5. CASE Refunded(p) >= Price
      BY <1>2, <3>5, PriceAssumption
    <3> QED
      BY <1>1, <1>4, <2>2, <3>1, <3>2, <3>3, <3>4, <3>5, RefundWrites
  <2> QED
    BY <2>1, <2>2 DEF RefundNext
<1> QED
  BY <1>3, <1>4

(* A payment is REFUNDED only when all of it has been given back, in       *)
(* whatever order the refunds of it complete.                              *)
THEOREM RefundedOnlyInFull == RefundSpec => []RefundedInFull
<1>1. RefundInit => RefundTyped /\ RefundsWithinPayment /\ RefundedInFull
  <2>1. RefundInit => RefundedInFull
    BY DEF RefundInit, Init, TableInit, RefundedInFull, NoRow
  <2> QED
    BY <2>1, RefundInitTyped, RefundInitWithin
<1>2. RefundTyped /\ RefundsWithinPayment /\ RefundedInFull
        /\ [RefundNext]_everything
        => (RefundTyped /\ RefundsWithinPayment /\ RefundedInFull)'
  BY RefundStepTyped, WithinStep, FullStep
<1> QED
  BY <1>1, <1>2, PTL DEF RefundSpec

-----------------------------------------------------------------------------
(* What the decisions rest on.                                             *)

(* The answer a worker is about to record is that of a record of the       *)
(* provider's, and a refund without a decision has no provider id yet.     *)
AnswersBacked ==
    \A v \in RefundWorkers :
        place[v] = "answered" /\ answer[v].kind \in {"SUCCEEDED", "FAILED"} =>
            LET r == job[v].refund IN
            /\ answer[v].id \in DOMAIN payouts[target[r]]
            /\ payouts[target[r]][answer[v].id].refund = r
            /\ payouts[target[r]][answer[v].id].status = answer[v].kind

UndecidedHaveNoId ==
    \A r \in Refunds :
        refundStatus[r] \notin {"SUCCEEDED", "FAILED"} => refundId[r] = NoId

RefundBacking == AnswersBacked /\ UndecidedHaveNoId /\ RefundsBacked

(* The provider never takes back how a refund of its ended. *)
LEMMA PayoutStays ==
    ASSUME RefundTyped, [RefundNext]_everything, NEW p \in Payments,
           NEW i \in DOMAIN payouts[p],
           payouts[p][i].status \in {"SUCCEEDED", "FAILED"}
    PROVE  i \in DOMAIN payouts'[p] /\ payouts'[p][i] = payouts[p][i]
<1>1. payouts \in [Payments -> Seq(Payouts)] /\ payouts[p] \in Seq(Payouts)
  BY DEF RefundTyped, RefundTypeOK
<1>2. CASE PayoutAdded
  <2>1. PICK r \in Refunds, n \in Nat :
             /\ target[r] \in Payments
             /\ payouts' = [payouts EXCEPT ![target[r]] =
                               Append(@, PayoutFor(r, n))]
    BY <1>2 DEF PayoutAdded
  <2> DEFINE e == PayoutFor(r, n)
  <2>2. e \in Payouts
    BY DEF PayoutFor, Payouts
  <2> HIDE DEF e
  <2>3. CASE target[r] = p
    <3>1. payouts'[p] = Append(payouts[p], e)
      BY <1>1, <2>1, <2>3 DEF e
    <3>2. i \in 1 .. Len(payouts[p])
      BY <1>1
    <3> QED
      BY <1>1, <2>2, <3>1, <3>2, AppendProperties
  <2>4. CASE target[r] # p
    BY <1>1, <2>1, <2>4
  <2> QED
    BY <2>3, <2>4
<1>3. CASE PayoutCompleted
  <2>1. PICK q \in Payments : \E j \in DOMAIN payouts[q] :
             /\ payouts[q][j].status = "PROCESSING"
             /\ payouts' = [payouts EXCEPT ![q][j].status = "SUCCEEDED"]
    BY <1>3 DEF PayoutCompleted
  <2>2. PICK j \in DOMAIN payouts[q] :
             /\ payouts[q][j].status = "PROCESSING"
             /\ payouts' = [payouts EXCEPT ![q][j].status = "SUCCEEDED"]
    BY <2>1
  <2>3. q # p \/ j # i
    BY <2>2
  <2> QED
    BY <1>1, <2>2, <2>3
<1>4. CASE UNCHANGED payouts
  BY <1>4
<1> QED
  BY <1>2, <1>3, <1>4, PayoutStep

(* A worker whose answer is a final status either had it before the step,  *)
(* or got it in this step from the record the provider made.               *)
KeptAnswer(v) ==
    /\ place[v] = "answered"
    /\ answer'[v] = answer[v] /\ job'[v] = job[v]

NewAnswer(v) ==
    LET r == job[v].refund IN
    /\ place[v] # "idle"
    /\ job'[v] = job[v] /\ target'[r] = target[r]
    /\ payouts' = [payouts EXCEPT ![target[r]] =
                      Append(@, PayoutFor(r, answer[v].id))]
    /\ answer'[v].id = Len(payouts[target[r]]) + 1
    /\ PayoutFor(r, answer[v].id).status = answer'[v].kind

LEMMA AnswerStep ==
    ASSUME RefundTyped, [RefundNext]_everything, NEW v \in RefundWorkers,
           place'[v] = "answered",
           answer'[v].kind \in {"SUCCEEDED", "FAILED"}
    PROVE  KeptAnswer(v) \/ NewAnswer(v)
<1>0. /\ place \in [RefundWorkers -> Places]
      /\ job \in [RefundWorkers -> RefundTasks \cup {Nil}]
      /\ answer \in [RefundWorkers -> Replies]
  BY DEF RefundTyped, RefundTypeOK
<1>1. ASSUME NEW w \in RefundWorkers, RefundWorkerStep(w) \/ RefundFault(w),
             w # v
      PROVE  KeptAnswer(v)
  <2>1. place'[v] = place[v] /\ job'[v] = job[v] /\ answer'[v] = answer[v]
    BY <1>0, <1>1
       DEF RefundWorkerStep, TakeRefund, StartRefund, ReadProviderId,
           CallRefundProvider, RefundAnswered, RefundCallLost, RefundHangsUp,
           RefundCalling, FinishRefund, RefundSucceeds, RefundDeclined,
           RefundRejected, CountRefundRetry, RetryRefund, GiveUpRefund,
           CompleteRefund, RestoreAfterRefund, Conclude, AcknowledgeRefund,
           RefundFault, RefundWorkerCrashes, LoseRefundTask, RedeliverRefund,
           ReleaseRefund, OnlyWorker, Receive, Step
  <2> QED
    BY <2>1 DEF KeptAnswer
<1>2. CASE TakeRefund(v) \/ StartRefund(v) \/ RefundHangsUp(v)
           \/ FinishRefund(v) \/ AcknowledgeRefund(v) \/ RefundWorkerCrashes(v)
           \/ LoseRefundTask(v)
  <2>1. place'[v] # "answered"
    BY <1>0, <1>2
       DEF TakeRefund, StartRefund, RefundHangsUp, RefundCalling,
           FinishRefund, RefundSucceeds, RefundDeclined, RefundRejected,
           CountRefundRetry, RetryRefund, GiveUpRefund, CompleteRefund,
           RestoreAfterRefund, Conclude, AcknowledgeRefund,
           RefundWorkerCrashes, LoseRefundTask, ReleaseRefund, Step,
           RefundEntry
  <2> QED
    BY <2>1
<1>3. CASE ReadProviderId(v) \/ RefundCallLost(v)
  <2>1. answer'[v].kind \notin {"SUCCEEDED", "FAILED"}
    BY <1>0, <1>3 DEF ReadProviderId, RefundCallLost, Receive
  <2> QED
    BY <2>1
<1>4. CASE RefundAnswered(v)
  <2> DEFINE r == job[v].refund
             denied == Denied(target[r], answer[v].id, amount[r])
             kind == RefundReplyKind(mode[r])
  <2>1. /\ PayOut(r, answer[v].id)
        /\ \/ denied /\ Receive(v, "permanent", NoId)
           \/ ~denied /\ kind = "transient" /\ Receive(v, kind, NoId)
           \/ /\ ~denied /\ kind # "transient"
              /\ Receive(v, kind, Len(payouts[target[r]]) + 1)
        /\ RefundCalling(v, "answered")
    BY <1>4 DEF RefundAnswered
  <2>2. /\ answer'[v] = [kind |-> kind, id |-> Len(payouts[target[r]]) + 1]
        /\ ~denied /\ kind # "transient"
    BY <1>0, <2>1 DEF Receive
  <2>3. /\ place[v] # "idle" /\ UNCHANGED <<job, target>>
    BY <2>1 DEF RefundCalling, Step, OnlyWorker, refundRows
  <2>4. payouts' = [payouts EXCEPT ![target[r]] =
                       Append(@, PayoutFor(r, answer[v].id))]
    BY <2>1, <2>2 DEF PayOut
  <2>5. PayoutFor(r, answer[v].id).status = kind
    BY <2>2 DEF PayoutFor, RefundReplyKind
  <2> QED
    BY <2>2, <2>3, <2>4, <2>5 DEF NewAnswer
<1>5. CASE RedeliverRefund(v)
  BY <1>5 DEF RedeliverRefund, KeptAnswer
<1>6. ASSUME UNCHANGED <<place, job, answer>>
      PROVE  KeptAnswer(v)
  BY <1>6 DEF KeptAnswer
<1>7. ASSUME NEW r \in Refunds,
             SendRefund(r) \/ \E p \in Payments : CreateRefund(r, p)
      PROVE  UNCHANGED <<place, job, answer>>
  BY <1>7 DEF SendRefund, PublishRefund, RefundPublishFails, CreateRefund,
              refundPool
<1>8. ASSUME NEW p \in Payments, RefundWakes(p)
      PROVE  UNCHANGED <<place, job, answer>>
  BY <1>8 DEF RefundWakes, refundPool
<1>9. CASE PaymentStep \/ UNCHANGED everything
  BY <1>6, <1>9 DEF PaymentStep, everything, refundVars, refundPool
<1>10. ASSUME NEW w \in RefundWorkers, RefundWorkerStep(w) \/ RefundFault(w)
       PROVE  KeptAnswer(v) \/ NewAnswer(v)
  BY <1>1, <1>2, <1>3, <1>4, <1>5, <1>10
     DEF RefundWorkerStep, CallRefundProvider, RefundFault
<1> QED
  BY <1>6, <1>7, <1>8, <1>9, <1>10 DEF RefundNext, RefundStep

(* The answers stay backed. *)
LEMMA AnswersStep ==
    ASSUME RefundTyped, AnswersBacked, [RefundNext]_everything
    PROVE  AnswersBacked'
<1>1. SUFFICES ASSUME NEW v \in RefundWorkers, place'[v] = "answered",
                      answer'[v].kind \in {"SUCCEEDED", "FAILED"}
               PROVE  LET r == job'[v].refund IN
                      /\ answer'[v].id \in DOMAIN payouts'[target'[r]]
                      /\ payouts'[target'[r]][answer'[v].id].refund = r
                      /\ payouts'[target'[r]][answer'[v].id].status
                            = answer'[v].kind
  BY DEF AnswersBacked
<1> DEFINE r == job[v].refund
           p == target[r]
<1>2. payouts \in [Payments -> Seq(Payouts)]
  BY DEF RefundTyped, RefundTypeOK
<1>3. place[v] # "idle" => r \in Refunds /\ p \in Payments
                           /\ refundStatus[r] # NoRow
  <2>1. place[v] # "idle" => r \in Refunds /\ p \in Payments
    BY JobTyped DEF RefundTyped
  <2> QED
    BY <2>1, NilAssumptionForRefunds DEF RefundTyped, RefundTypeOK
<1>4. CASE KeptAnswer(v)
  <2>1. /\ r \in Refunds /\ p \in Payments /\ target'[r] = p
        /\ job'[v] = job[v] /\ answer'[v] = answer[v]
    BY <1>3, <1>4, TargetStays DEF KeptAnswer
  <2>2. /\ answer[v].id \in DOMAIN payouts[p]
        /\ payouts[p][answer[v].id].refund = r
        /\ payouts[p][answer[v].id].status = answer[v].kind
    BY <1>1, <1>4, <2>1 DEF AnswersBacked, KeptAnswer
  <2>3. answer[v].id \in DOMAIN payouts'[p]
        /\ payouts'[p][answer[v].id] = payouts[p][answer[v].id]
    BY <1>1, <2>1, <2>2, PayoutStays
  <2> QED
    BY <2>1, <2>2, <2>3
<1>5. CASE NewAnswer(v)
  <2> DEFINE e == PayoutFor(r, answer[v].id)
  <2>1. /\ r \in Refunds /\ p \in Payments /\ target'[r] = p
        /\ job'[v] = job[v]
        /\ payouts' = [payouts EXCEPT ![p] = Append(@, e)]
        /\ answer'[v].id = Len(payouts[p]) + 1
        /\ e.status = answer'[v].kind
    BY <1>3, <1>5 DEF NewAnswer
  <2>2. e \in Payouts /\ e.refund = r
    <3>1. answer[v].id \in Nat
      BY <1>5, JobTyped DEF NewAnswer, RefundTyped
    <3> QED
      BY <2>1, <3>1 DEF PayoutFor, Payouts
  <2> HIDE DEF e
  <2>3. payouts[p] \in Seq(Payouts) /\ payouts'[p] = Append(payouts[p], e)
    BY <1>2, <2>1
  <2>4. /\ Len(payouts[p]) + 1 \in DOMAIN payouts'[p]
        /\ payouts'[p][Len(payouts[p]) + 1] = e
    BY <2>2, <2>3, AppendProperties
  <2> QED
    BY <2>1, <2>2, <2>4
<1> QED
  BY <1>1, <1>4, <1>5, AnswerStep

(* A refund is decided, and given its id, by an answer or without one. *)
LEMMA BackedStep ==
    ASSUME RefundTyped, RefundBacking, [RefundNext]_everything
    PROVE  (UndecidedHaveNoId /\ RefundsBacked)'
<1>0. /\ refundStatus \in [Refunds -> RefundStatuses \cup {NoRow}]
      /\ refundId \in [Refunds -> Nat]
  BY DEF RefundTyped, RefundTypeOK
<1> DEFINE Fine(r) ==
              /\ refundStatus[r] \notin {"SUCCEEDED", "FAILED"} =>
                    refundId[r] = NoId
              /\ refundStatus[r] = "SUCCEEDED" => BackedBy(r, "SUCCEEDED")
              /\ refundStatus[r] = "FAILED" /\ refundId[r] # NoId =>
                    BackedBy(r, "FAILED")
<1>1. SUFFICES ASSUME NEW r \in Refunds PROVE Fine(r)'
  BY DEF UndecidedHaveNoId, RefundsBacked
<1>2. Fine(r)
  BY DEF RefundBacking, UndecidedHaveNoId, RefundsBacked
<1>3. refundStatus[r] # NoRow => target[r] \in Payments
  BY DEF RefundTyped, RefundTypeOK
<1>4. ASSUME NEW outcome \in {"SUCCEEDED", "FAILED"},
             refundStatus[r] # NoRow, BackedBy(r, outcome),
             refundId'[r] = refundId[r]
      PROVE  BackedBy(r, outcome)'
  BY <1>3, <1>4, TargetStays, PayoutStays DEF BackedBy
<1>5. CASE refundStatus'[r] = refundStatus[r] /\ refundId'[r] = refundId[r]
  BY <1>2, <1>4, <1>5 DEF NoRow
<1>6. ASSUME NEW new \in RefundStatuses, MovesRefund(r, new)
      PROVE  Fine(r)'
  <2>1. PICK id \in Nat :
             /\ refundId' = [refundId EXCEPT ![r] = Coalesce(id, @)]
             /\ \/ new = "PROCESSING" /\ id = NoId
                \/ new = "FAILED" /\ id = NoId
                \/ /\ new \in {"SUCCEEDED", "FAILED"}
                   /\ \E v \in RefundWorkers :
                        /\ place[v] = "answered" /\ job[v].refund = r
                        /\ answer[v].kind = new /\ answer[v].id = id
    BY <1>6 DEF MovesRefund
  <2>2. /\ refundStatus'[r] = new /\ refundId[r] = NoId
        /\ new \in {"PROCESSING", "SUCCEEDED", "FAILED"}
        /\ refundStatus[r] # NoRow
    BY <1>0, <1>2, <1>6 DEF MovesRefund, SetRefund, ValidRefundTransitions,
                            NoRow
  <2>3. refundId'[r] = id
    BY <1>0, <2>1, <2>2 DEF Coalesce
  <2>4. CASE id = NoId /\ new # "SUCCEEDED"
    BY <2>2, <2>3, <2>4
  <2>5. CASE new \in {"SUCCEEDED", "FAILED"} /\ \E v \in RefundWorkers :
                  /\ place[v] = "answered" /\ job[v].refund = r
                  /\ answer[v].kind = new /\ answer[v].id = id
    <3>1. /\ id \in DOMAIN payouts[target[r]]
          /\ payouts[target[r]][id].refund = r
          /\ payouts[target[r]][id].status = new
      BY <2>5 DEF RefundBacking, AnswersBacked
    <3>2. target'[r] = target[r] /\ target[r] \in Payments
      BY <1>3, <2>2, TargetStays
    <3>3. BackedBy(r, new)'
      BY <2>3, <2>5, <3>1, <3>2, PayoutStays DEF BackedBy
    <3> QED
      BY <2>2, <2>5, <3>3
  <2> QED
    BY <2>1, <2>4, <2>5
<1>7. ASSUME NEW q \in Refunds, NEW new \in RefundStatuses,
             MovesRefund(q, new), q # r
      PROVE  refundStatus'[r] = refundStatus[r] /\ refundId'[r] = refundId[r]
  BY <1>0, <1>7 DEF MovesRefund, SetRefund
<1>8. ASSUME NEW q \in Refunds, NEW p \in Payments, CreateRefund(q, p)
      PROVE  Fine(r)'
  <2>1. CASE q = r
    <3>1. /\ refundStatus[r] = NoRow /\ refundStatus'[r] = "CREATED"
          /\ refundId'[r] = refundId[r]
      BY <1>0, <1>8, <2>1 DEF CreateRefund, SetRefund
    <3> QED
      BY <1>2, <3>1 DEF NoRow
  <2>2. CASE q # r
    <3>1. refundStatus'[r] = refundStatus[r] /\ refundId'[r] = refundId[r]
      BY <1>0, <1>8, <2>2 DEF CreateRefund, SetRefund
    <3> QED
      BY <1>5, <3>1
  <2> QED
    BY <2>1, <2>2
<1> HIDE DEF Fine
<1> QED
  BY <1>5, <1>6, <1>7, <1>8, RefundRowStep DEF RetriesRefund, refundRows

(* A refund is SUCCEEDED, or FAILED with an id, only for a refund of the   *)
(* provider's that was made of it and ended that way.                      *)
THEOREM RefundsAlwaysBacked == RefundSpec => []RefundsBacked
<1>1. RefundInit => RefundTyped /\ RefundBacking
  <2>1. RefundInit => RefundBacking
    BY DEF RefundInit, RefundBacking, AnswersBacked, UndecidedHaveNoId,
           RefundsBacked, NoRow
  <2> QED
    BY <2>1, RefundInitTyped
<1>2. RefundTyped /\ RefundBacking /\ [RefundNext]_everything
        => (RefundTyped /\ RefundBacking)'
  BY RefundStepTyped, AnswersStep, BackedStep DEF RefundBacking
<1>3. RefundBacking => RefundsBacked
  BY DEF RefundBacking
<1> QED
  BY <1>1, <1>2, <1>3, PTL DEF RefundSpec

-----------------------------------------------------------------------------
(* The refund_events.                                                      *)

(* What RefundHistory says of one refund that has a row. *)
Tells(log, current) ==
    /\ log # <<>>
    /\ log[1].type = "REFUND_CREATED" /\ log[1].announced
    /\ log[Len(log)].new = current
    /\ \A i \in 2 .. Len(log) :
         IF log[i].announced
         THEN <<log[i - 1].new, log[i].new>> \in ValidRefundTransitions
         ELSE log[i].new = log[i - 1].new

(* One more event: a move that was announced, or a retry that was not. *)
LEMMA TellsMore ==
    ASSUME NEW log \in Seq(RefundEvents), NEW current, Tells(log, current),
           NEW e \in RefundEvents,
           IF e.announced
           THEN <<current, e.new>> \in ValidRefundTransitions
           ELSE e.new = current
    PROVE  Tells(Append(log, e), e.new)
<1> DEFINE longer == Append(log, e)
           n == Len(log)
<1>1. n \in Nat /\ n >= 1
  BY EmptySeq, LenProperties DEF Tells
<1>2. /\ Len(longer) = n + 1 /\ longer \in Seq(RefundEvents)
      /\ \A i \in 1 .. n : longer[i] = log[i]
      /\ longer[n + 1] = e
  BY AppendProperties
<1>3. longer # <<>> /\ longer[1] = log[1]
  BY <1>1, <1>2
<1> HIDE DEF longer, n
<1>4. ASSUME NEW i \in 2 .. n + 1
      PROVE  IF longer[i].announced
             THEN <<longer[i - 1].new, longer[i].new>> \in ValidRefundTransitions
             ELSE longer[i].new = longer[i - 1].new
  <2>1. CASE i = n + 1
    <3>1. longer[i] = e /\ longer[i - 1] = log[n] /\ log[n].new = current
      BY <1>1, <1>2, <2>1 DEF Tells, n
    <3> QED
      BY <3>1
  <2>2. CASE i \in 2 .. n
    <3>1. longer[i] = log[i] /\ longer[i - 1] = log[i - 1]
      BY <1>1, <1>2, <2>2
    <3> QED
      BY <2>2, <3>1 DEF Tells, n
  <2> QED
    BY <1>1, <2>1, <2>2
<1>5. longer[1].type = "REFUND_CREATED" /\ longer[1].announced
      /\ longer[Len(longer)].new = e.new
  BY <1>2, <1>3 DEF Tells
<1>6. Tells(longer, e.new)
  BY <1>2, <1>3, <1>4, <1>5 DEF Tells
<1> QED
  BY <1>6 DEF longer

LEMMA HistoryStep ==
    ASSUME RefundTyped, RefundHistory, [RefundNext]_everything
    PROVE  RefundHistory'
<1>0. /\ refundStatus \in [Refunds -> RefundStatuses \cup {NoRow}]
      /\ refundLog \in [Refunds -> Seq(RefundEvents)]
  BY DEF RefundTyped, RefundTypeOK
<1> DEFINE Told(r) == IF refundStatus[r] = NoRow THEN refundLog[r] = <<>>
                      ELSE Tells(refundLog[r], refundStatus[r])
<1>1. RefundHistory <=> \A r \in Refunds : Told(r)
  BY DEF RefundHistory, Tells
<1>2. RefundHistory' <=> \A r \in Refunds : Told(r)'
  BY DEF RefundHistory, Tells
<1>3. SUFFICES ASSUME NEW r \in Refunds PROVE Told(r)'
  BY <1>2
<1>4. Told(r)
  BY <1>1
<1>5. CASE refundStatus'[r] = refundStatus[r] /\ refundLog'[r] = refundLog[r]
  BY <1>4, <1>5
<1>6. ASSUME NEW new \in RefundStatuses, MovesRefund(r, new)
      PROVE  Told(r)'
  <2>1. PICK type \in {"REFUND_PROCESSING", "REFUND_SUCCEEDED",
                       "REFUND_FAILED"} : LogRefund(r, type, new, TRUE)
    BY <1>6 DEF MovesRefund
  <2> DEFINE e == [type |-> type, new |-> new, announced |-> TRUE]
  <2>2. e \in RefundEvents /\ e.new = new /\ e.announced
    BY DEF RefundEvents
  <2>3. refundLog'[r] = Append(refundLog[r], e)
    BY <1>0, <2>1 DEF LogRefund
  <2>4. /\ <<refundStatus[r], new>> \in ValidRefundTransitions
        /\ refundStatus'[r] = new /\ refundStatus[r] # NoRow /\ new # NoRow
    BY <1>0, <1>6 DEF MovesRefund, SetRefund, ValidRefundTransitions, NoRow
  <2> HIDE DEF e
  <2>5. Tells(refundLog[r], refundStatus[r]) /\ refundLog[r] \in Seq(RefundEvents)
    BY <1>0, <1>4, <2>4
  <2>6. Tells(Append(refundLog[r], e), new)
    BY <2>2, <2>4, <2>5, TellsMore
  <2> QED
    BY <2>3, <2>4, <2>6
<1>7. CASE RetriesRefund(r)
  <2> DEFINE e == [type |-> "REFUND_RETRY_SCHEDULED", new |-> "PROCESSING",
                   announced |-> FALSE]
  <2>1. e \in RefundEvents /\ e.new = "PROCESSING" /\ ~e.announced
    BY DEF RefundEvents, RefundStatuses
  <2>2. refundLog'[r] = Append(refundLog[r], e)
    BY <1>0, <1>7 DEF RetriesRefund, LogRefund
  <2>3. refundStatus[r] = "PROCESSING" /\ refundStatus'[r] = "PROCESSING"
        /\ "PROCESSING" # NoRow
    BY <1>7 DEF RetriesRefund, NoRow
  <2> HIDE DEF e
  <2>4. Tells(refundLog[r], "PROCESSING") /\ refundLog[r] \in Seq(RefundEvents)
    BY <1>0, <1>4, <2>3
  <2>5. Tells(Append(refundLog[r], e), "PROCESSING")
    BY <2>1, <2>4, TellsMore
  <2> QED
    BY <2>2, <2>3, <2>5
<1>8. ASSUME NEW p \in Payments, CreateRefund(r, p)
      PROVE  Told(r)'
  <2> DEFINE e == [type |-> "REFUND_CREATED", new |-> "CREATED",
                   announced |-> TRUE]
  <2>1. e \in RefundEvents /\ e.new = "CREATED" /\ e.announced
        /\ e.type = "REFUND_CREATED"
    BY DEF RefundEvents, RefundStatuses
  <2>2. /\ refundLog[r] = <<>> /\ refundStatus'[r] = "CREATED"
        /\ refundLog'[r] = Append(refundLog[r], e)
    BY <1>0, <1>4, <1>8 DEF CreateRefund, SetRefund, LogRefund
  <2> HIDE DEF e
  <2>3. refundLog'[r] = <<e>>
    BY <2>2
  <2>4. Tells(<<e>>, "CREATED")
    BY <2>1 DEF Tells
  <2> QED
    BY <2>2, <2>3, <2>4 DEF NoRow
<1>9. ASSUME NEW q \in Refunds, q # r,
             \/ \E new \in RefundStatuses : MovesRefund(q, new)
             \/ RetriesRefund(q)
             \/ \E p \in Payments : CreateRefund(q, p)
      PROVE  refundStatus'[r] = refundStatus[r] /\ refundLog'[r] = refundLog[r]
  BY <1>0, <1>9 DEF MovesRefund, RetriesRefund, CreateRefund, SetRefund,
                    LogRefund
<1> HIDE DEF Told
<1> QED
  BY <1>5, <1>6, <1>7, <1>8, <1>9, RefundRowStep DEF refundRows

(* The refund_events tell the story of their refund along the permitted    *)
(* moves, and exactly the moves were announced (README.md:205).            *)
THEOREM RefundHistoryAlways == RefundSpec => []RefundHistory
<1>1. RefundInit => RefundTyped /\ RefundHistory
  <2>1. RefundInit => RefundHistory
    BY DEF RefundInit, RefundHistory
  <2> QED
    BY <2>1, RefundInitTyped
<1>2. RefundTyped /\ RefundHistory /\ [RefundNext]_everything
        => (RefundTyped /\ RefundHistory)'
  BY RefundStepTyped, HistoryStep
<1> QED
  BY <1>1, <1>2, PTL DEF RefundSpec

-----------------------------------------------------------------------------
(* The books.                                                              *)

(* No task was dropped and no worker died. *)
Undisturbed == ~TaskDropped /\ faults["crash"] = 0

(* A payment that waits for a refund has someone who will end the wait: a  *)
(* refund under way, or a worker between a refund's last transaction and   *)
(* the payment's.                                                          *)
Attended(p) ==
    status[p] = "REFUND_PENDING" =>
        \/ \E r \in Refunds : target[r] = p /\ UnderWay(r)
        \/ Closing(p)

Completing(p) == \E v \in RefundWorkers : /\ place[v] = "complete"
                                          /\ target[job[v].refund] = p

(* A payment given back in full is REFUNDED, or a worker is about to see   *)
(* that it is.                                                             *)
SettledUp(p) ==
    Refunded(p) = Price => status[p] = "REFUNDED" \/ Completing(p)

BooksKept == Undisturbed => \A p \in Payments : Attended(p) /\ SettledUp(p)

(* The refund side counts at most one fault in a step. *)
LEMMA RefundFaults ==
    ASSUME RefundStep
    PROVE  UNCHANGED faults \/ \E kind \in FaultKinds : Strike(kind)
<1>1. {"publish", "network", "disconnect", "redeliver", "crash", "lost_task"}
         \subseteq FaultKinds
  BY DEF FaultKinds
<1>2. ASSUME NEW v \in RefundWorkers, CallRefundProvider(v) \/ RefundFault(v)
      PROVE  UNCHANGED faults \/ \E kind \in FaultKinds : Strike(kind)
  BY <1>1, <1>2
     DEF CallRefundProvider, RefundAnswered, RefundCallLost, RefundHangsUp,
         RefundFault, RefundWorkerCrashes, LoseRefundTask, RedeliverRefund
<1>3. ASSUME NEW v \in RefundWorkers, RefundWorkerStep(v),
             ~CallRefundProvider(v)
      PROVE  UNCHANGED faults
  BY <1>3 DEF RefundWorkerStep, TakeRefund, StartRefund, ReadProviderId,
              FinishRefund, RefundSucceeds, RefundDeclined, RefundRejected,
              CountRefundRetry, RetryRefund, GiveUpRefund, CompleteRefund,
              RestoreAfterRefund, AcknowledgeRefund, Conclude
<1>4. ASSUME NEW r \in Refunds,
             SendRefund(r) \/ \E p \in Payments : CreateRefund(r, p)
      PROVE  UNCHANGED faults \/ \E kind \in FaultKinds : Strike(kind)
  BY <1>1, <1>4 DEF SendRefund, PublishRefund, RefundPublishFails, CreateRefund
<1>5. ASSUME NEW p \in Payments, RefundWakes(p)
      PROVE  UNCHANGED faults
  BY <1>5 DEF RefundWakes
<1> QED
  BY <1>2, <1>3, <1>4, <1>5 DEF RefundStep

LEMMA RefundFaultsStay ==
    ASSUME RefundTyped, [RefundNext]_everything,
           NEW kind \in FaultKinds, faults'[kind] = 0
    PROVE  faults[kind] = 0
<1>1. faults \in [FaultKinds -> Nat]
  BY DEF RefundTyped, Typed, SystemTypeOK
<1>2. CASE RefundStep
  BY <1>1, <1>2, RefundFaults DEF Strike
<1>3. CASE PaymentStep \/ UNCHANGED everything
  BY <1>1, <1>3, FaultsStay DEF PaymentStep, everything
<1> QED
  BY <1>2, <1>3 DEF RefundNext

LEMMA StaysUndisturbed ==
    ASSUME RefundTyped, [RefundNext]_everything, Undisturbed'
    PROVE  Undisturbed
<1>1. {"publish", "disconnect", "lost_task", "crash"} \subseteq FaultKinds
  BY DEF FaultKinds
<1>2. \A kind \in FaultKinds : faults[kind] \in Nat /\ faults'[kind] \in Nat
  BY RefundStepTyped DEF RefundTyped, Typed, SystemTypeOK
<1>3. \A kind \in {"publish", "disconnect", "lost_task", "crash"} :
         faults'[kind] = 0
  BY <1>1, <1>2 DEF Undisturbed, TaskDropped
<1>4. \A kind \in {"publish", "disconnect", "lost_task", "crash"} :
         faults[kind] = 0
  BY <1>1, <1>3, RefundFaultsStay
<1> QED
  BY <1>4 DEF Undisturbed, TaskDropped

(* A worker that closes a refund is not stopped halfway. *)
LEMMA NoneStopped ==
    ASSUME RefundTyped, Undisturbed', NEW v \in RefundWorkers
    PROVE  ~RefundWorkerCrashes(v) /\ ~LoseRefundTask(v)
<1>1. faults \in [FaultKinds -> Nat]
      /\ {"crash", "lost_task"} \subseteq FaultKinds
  BY DEF RefundTyped, Typed, SystemTypeOK, FaultKinds
<1>2. ASSUME NEW kind \in FaultKinds, Strike(kind)
      PROVE  faults'[kind] > 0
  BY <1>1, <1>2 DEF Strike
<1> QED
  BY <1>1, <1>2 DEF RefundWorkerCrashes, LoseRefundTask, Undisturbed,
                    TaskDropped

(* A refund is decided by a worker that goes on to its payment: with       *)
(* complete_successful_refund after a success, and with                    *)
(* restore_payment_after_failed_refund after a failure.                    *)
LEMMA DecisionStep ==
    ASSUME RefundTyped, [RefundNext]_everything, NEW r \in Refunds,
           refundStatus'[r] # refundStatus[r],
           refundStatus'[r] \in {"SUCCEEDED", "FAILED"}
    PROVE  \E v \in RefundWorkers :
              /\ job'[v].refund = r
              /\ place'[v] = IF refundStatus'[r] = "SUCCEEDED"
                             THEN "complete" ELSE "restore"
<1>0. /\ refundStatus \in [Refunds -> RefundStatuses \cup {NoRow}]
      /\ place \in [RefundWorkers -> Places]
  BY DEF RefundTyped, RefundTypeOK
<1> DEFINE Decides(v) == \/ RefundSucceeds(v) \/ RefundDeclined(v)
                         \/ RefundRejected(v) \/ GiveUpRefund(v)
<1>1. PICK v \in RefundWorkers : Decides(v)
  <2>1. ASSUME NEW v \in RefundWorkers, RefundWorkerStep(v)
        PROVE  Decides(v)
    <3>1. ~ UNCHANGED refundRows
      BY DEF refundRows
    <3>2. ~StartRefund(v)
      BY <1>0 DEF StartRefund, RecordRefundTransition, SetRefund
    <3>3. ~CountRefundRetry(v)
      BY <3>1 DEF CountRefundRetry, RecordRefundRetry
    <3> QED
      BY <2>1, <3>1, <3>2, <3>3, QuietSteps DEF RefundWorkerStep, FinishRefund
  <2>2. ASSUME NEW v \in RefundWorkers PROVE ~RefundFault(v)
    BY <2>2, QuietSteps DEF refundRows
  <2>3. ASSUME NEW q \in Refunds, NEW p \in Payments
        PROVE  ~CreateRefund(q, p)
    BY <1>0 DEF CreateRefund, SetRefund
  <2>4. ASSUME NEW q \in Refunds PROVE ~SendRefund(q)
    BY DEF SendRefund, PublishRefund, RefundPublishFails, refundRows
  <2>5. ASSUME NEW p \in Payments PROVE ~RefundWakes(p)
    BY DEF RefundWakes, refundRows
  <2>6. ~(PaymentStep \/ UNCHANGED everything)
    BY DEF PaymentStep, everything, refundVars, refundRows
  <2> QED
    BY <2>1, <2>2, <2>3, <2>4, <2>5, <2>6 DEF RefundNext, RefundStep
<1>2. \E from, type, id :
         \/ Conclude(v, from, type, "SUCCEEDED", id, "complete")
         \/ Conclude(v, from, type, "FAILED", id, "restore")
  BY <1>1 DEF RefundSucceeds, RefundDeclined, RefundRejected, GiveUpRefund
<1>3. ASSUME NEW new \in {"SUCCEEDED", "FAILED"}, NEW next \in Places,
             NEW from, NEW type, NEW id,
             Conclude(v, from, type, new, id, next)
      PROVE  job'[v].refund = r /\ place'[v] = next /\ refundStatus'[r] = new
  <2>1. /\ Step(v, from, IF Permits(job[v].refund, new) THEN next ELSE "ack")
        /\ RecordRefundTransition(job[v].refund, type, new, id)
        /\ job' = job
    BY <1>3 DEF Conclude, OnlyWorker
  <2>2. /\ <<refundStatus[job[v].refund], new>> \in ValidRefundTransitions
        /\ refundStatus' = [refundStatus EXCEPT ![job[v].refund] = new]
    BY <2>1 DEF RecordRefundTransition, SetRefund
  <2>3. job[v].refund = r /\ refundStatus'[r] = new
    BY <1>0, <2>2
  <2>4. place' = [place EXCEPT ![v] = next]
    BY <2>1, <2>2 DEF Step, Permits
  <2> QED
    BY <1>0, <2>1, <2>3, <2>4
<1>4. "complete" \in Places /\ "restore" \in Places
  BY DEF Places
<1> QED
  BY <1>2, <1>3, <1>4

(* A worker that closes a refund goes on closing it, or does what it is    *)
(* there for.                                                              *)
LEMMA ClosingStep ==
    ASSUME RefundTyped, [RefundNext]_everything, Undisturbed',
           NEW v \in RefundWorkers, place[v] \in {"complete", "restore"}
    PROVE  \/ /\ place'[v] = place[v] /\ job'[v] = job[v]
              /\ target'[job[v].refund] = target[job[v].refund]
           \/ place[v] = "complete" /\ CompletePayment(target[job[v].refund])
           \/ place[v] = "restore" /\ RestorePayment(target[job[v].refund])
<1>0. /\ place \in [RefundWorkers -> Places]
      /\ job \in [RefundWorkers -> RefundTasks \cup {Nil}]
  BY DEF RefundTyped, RefundTypeOK
<1>1. target'[job[v].refund] = target[job[v].refund]
  <2>1. job[v].refund \in Refunds /\ target[job[v].refund] \in Payments
    BY JobTyped DEF RefundTyped
  <2>2. refundStatus[job[v].refund] # NoRow
    BY <2>1, NilAssumptionForRefunds DEF RefundTyped, RefundTypeOK
  <2> QED
    BY <2>1, <2>2, TargetStays
<1>2. SUFFICES ASSUME ~(place'[v] = place[v] /\ job'[v] = job[v])
               PROVE  \/ /\ place[v] = "complete"
                         /\ CompletePayment(target[job[v].refund])
                      \/ /\ place[v] = "restore"
                         /\ RestorePayment(target[job[v].refund])
  BY <1>1
<1>3. ASSUME NEW w \in RefundWorkers, RefundWorkerStep(w) \/ RefundFault(w)
      PROVE  w = v
  BY <1>0, <1>2, <1>3
     DEF RefundWorkerStep, TakeRefund, StartRefund, ReadProviderId,
         CallRefundProvider, RefundAnswered, RefundCallLost, RefundHangsUp,
         RefundCalling, FinishRefund, RefundSucceeds, RefundDeclined,
         RefundRejected, CountRefundRetry, RetryRefund, GiveUpRefund,
         CompleteRefund, RestoreAfterRefund, Conclude, AcknowledgeRefund,
         RefundFault, RefundWorkerCrashes, LoseRefundTask, RedeliverRefund,
         ReleaseRefund, OnlyWorker, Step
<1>4. RefundWorkerStep(v) \/ RefundFault(v)
  <2>1. ASSUME UNCHANGED refundPool PROVE FALSE
    BY <1>2, <2>1 DEF refundPool
  <2>2. ASSUME NEW q \in Refunds,
               SendRefund(q) \/ \E p \in Payments : CreateRefund(q, p)
        PROVE  UNCHANGED refundPool
    BY <2>2 DEF SendRefund, PublishRefund, RefundPublishFails, CreateRefund
  <2>3. ASSUME NEW p \in Payments, RefundWakes(p)
        PROVE  UNCHANGED refundPool
    BY <2>3 DEF RefundWakes
  <2>4. ~(PaymentStep \/ UNCHANGED everything)
    BY <2>1 DEF PaymentStep, everything, refundVars
  <2> QED
    BY <1>3, <2>1, <2>2, <2>3, <2>4 DEF RefundNext, RefundStep
<1>5. ~RefundFault(v)
  <2>1. ~RedeliverRefund(v)
    BY <1>2 DEF RedeliverRefund
  <2> QED
    BY <2>1, NoneStopped DEF RefundFault
<1>6. CompleteRefund(v) \/ RestoreAfterRefund(v)
  BY <1>4, <1>5
     DEF RefundWorkerStep, TakeRefund, StartRefund, ReadProviderId,
         CallRefundProvider, RefundAnswered, RefundCallLost, RefundHangsUp,
         RefundCalling, FinishRefund, RefundSucceeds, RefundDeclined,
         RefundRejected, CountRefundRetry, RetryRefund, GiveUpRefund,
         Conclude, AcknowledgeRefund, Step
<1> QED
  BY <1>6 DEF CompleteRefund, RestoreAfterRefund, Step

(* Who changes the status of a payment. *)
LEMMA StatusStep ==
    ASSUME RefundTyped, [RefundNext]_everything, NEW p \in Payments,
           status'[p] # status[p]
    PROVE  \/ \E r \in Refunds : CreateRefund(r, p)
           \/ CompletePayment(p)
           \/ RestorePayment(p)
           \/ status[p] # "REFUNDED" /\ status'[p] # "REFUND_PENDING"
<1>0. status \in [Payments -> Statuses \cup {NoRow}]
  BY DEF RefundTyped, Typed, TableTypeOK
<1>1. CASE PaymentStep \/ UNCHANGED everything
  <2>1. RowsKept \/ \E q \in Payments : Written(q)
    BY <1>1, StepWrites DEF PaymentStep, everything, RefundTyped
  <2>2. ASSUME NEW q \in Payments, Written(q)
        PROVE  status[p] # "REFUNDED" /\ status'[p] # "REFUND_PENDING"
    BY <1>0, <2>2
       DEF Written, InsertPayment, Moved, PaymentMoves, Commit,
           RecordAwaitingWebhook, RecordRetry, table, NoRow
  <2> QED
    BY <2>1, <2>2 DEF RowsKept, rows
<1>2. CASE RefundStep
  <2>1. ASSUME NEW q \in Payments,
               \/ \E r \in Refunds : CreateRefund(r, q)
               \/ CompletePayment(q) \/ RestorePayment(q)
        PROVE  q = p
    BY <1>0, <2>1 DEF CreateRefund, CompletePayment, RestorePayment,
                      SetStatus, table
  <2> QED
    BY <1>2, <2>1, RefundWrites DEF table
<1> QED
  BY <1>1, <1>2 DEF RefundNext

(* What has been given back grows only when a refund is decided. *)
LEMMA GivenBackStep ==
    ASSUME RefundTyped, [RefundNext]_everything, NEW p \in Payments,
           Refunded(p)' # Refunded(p)
    PROVE  Completing(p)'
<1> DEFINE done == RefundsOf(p, {"SUCCEEDED"})
<1>1. \A s \in done : s \in done' /\ amount'[s] = amount[s]
  <2>1. SUFFICES ASSUME NEW s \in done
                 PROVE  s \in done' /\ amount'[s] = amount[s]
    OBVIOUS
  <2>2. s \in Refunds /\ target[s] = p /\ refundStatus[s] = "SUCCEEDED"
    BY DEF RefundsOf
  <2>3. RefundRow(s)' = RefundRow(s)
    BY <2>2, DecidedStays
  <2> QED
    BY <2>2, <2>3 DEF RefundRow, RefundsOf
<1>2. done' # done
  <2>1. Total(amount', done, Price) = Total(amount, done, Price)
    BY <1>1, TotalCongruence
  <2> QED
    BY <2>1 DEF Refunded
<1>3. PICK s \in done' : s \notin done
  BY <1>1, <1>2
<1>4. /\ s \in Refunds /\ target'[s] = p /\ refundStatus'[s] = "SUCCEEDED"
      /\ refundStatus[s] # "SUCCEEDED"
  <2>1. s \in Refunds /\ target'[s] = p /\ refundStatus'[s] = "SUCCEEDED"
    BY <1>3 DEF RefundsOf
  <2>2. ASSUME refundStatus[s] = "SUCCEEDED" PROVE FALSE
    <3>1. RefundRow(s)' = RefundRow(s)
      BY <2>1, <2>2, DecidedStays
    <3> QED
      BY <1>3, <2>1, <2>2, <3>1 DEF RefundRow, RefundsOf
  <2> QED
    BY <2>1, <2>2
<1>5. \E v \in RefundWorkers : job'[v].refund = s /\ place'[v] = "complete"
  BY <1>4, DecisionStep
<1> QED
  BY <1>4, <1>5 DEF Completing

LEMMA SettledUpStep ==
    ASSUME RefundTyped, RefundsWithinPayment, [RefundNext]_everything,
           Undisturbed', NEW p \in Payments, SettledUp(p)
    PROVE  SettledUp(p)'
<1>0. /\ status \in [Payments -> Statuses \cup {NoRow}]
      /\ Refunded(p) \in Nat /\ Price \in Nat
  BY RefundedGrows, PriceAssumption DEF RefundTyped, Typed, TableTypeOK
<1>1. SUFFICES ASSUME Refunded(p)' = Price, Refunded(p) = Price
               PROVE  status'[p] = "REFUNDED" \/ Completing(p)'
  BY GivenBackStep DEF SettledUp
<1>2. CompletePayment(p) => status'[p] = "REFUNDED"
  BY <1>0, <1>1 DEF CompletePayment, SetStatus
<1>3. CASE status[p] = "REFUNDED"
  <2>1. ASSUME NEW r \in Refunds PROVE ~CreateRefund(r, p)
    BY <1>3 DEF CreateRefund
  <2>2. RestorePayment(p) => status'[p] = "REFUNDED"
    BY <1>3 DEF RestorePayment, table
  <2> QED
    BY <1>2, <1>3, <2>1, <2>2, StatusStep
<1>4. CASE Completing(p)
  <2>1. PICK v \in RefundWorkers : /\ place[v] = "complete"
                                   /\ target[job[v].refund] = p
    BY <1>4 DEF Completing
  <2>2. \/ /\ place'[v] = place[v] /\ job'[v] = job[v]
           /\ target'[job[v].refund] = target[job[v].refund]
        \/ CompletePayment(p)
    BY <2>1, ClosingStep
  <2> QED
    BY <1>2, <2>1, <2>2 DEF Completing
<1> QED
  BY <1>1, <1>3, <1>4 DEF SettledUp

LEMMA AttendedStep ==
    ASSUME RefundTyped, [RefundNext]_everything, Undisturbed',
           NEW p \in Payments, Attended(p)
    PROVE  Attended(p)'
<1>0. /\ status \in [Payments -> Statuses \cup {NoRow}]
      /\ refundStatus \in [Refunds -> RefundStatuses \cup {NoRow}]
      /\ target \in [Refunds -> Payments \cup {Nil}]
  BY DEF RefundTyped, RefundTypeOK, Typed, TableTypeOK
<1>1. SUFFICES ASSUME status'[p] = "REFUND_PENDING"
               PROVE  \/ \E r \in Refunds : target'[r] = p /\ UnderWay(r)'
                      \/ Closing(p)'
  BY DEF Attended
<1>2. ~CompletePayment(p)
  BY <1>0, <1>1 DEF CompletePayment, SetStatus
<1>3. ~RestorePayment(p)
  BY <1>0, <1>1 DEF RestorePayment, SetStatus, table
<1>4. CASE status[p] # "REFUND_PENDING"
  <2>1. PICK r \in Refunds : CreateRefund(r, p)
    BY <1>1, <1>2, <1>3, <1>4, StatusStep
  <2>2. target'[r] = p /\ refundStatus'[r] = "CREATED"
    BY <1>0, <2>1 DEF CreateRefund, SetRefund
  <2> QED
    BY <2>2 DEF UnderWay
<1>5. ASSUME NEW r \in Refunds, target[r] = p, UnderWay(r)
      PROVE  UnderWay(r)' \/ Closing(p)'
  <2>1. CASE refundStatus'[r] = refundStatus[r]
    BY <1>5, <2>1 DEF UnderWay
  <2>2. CASE refundStatus'[r] # refundStatus[r]
    <3>1. refundStatus'[r] \in RefundStatuses
      <4>1. target'[r] = p
        BY <1>5, TargetStays DEF UnderWay, NoRow
      <4> QED
        BY <4>1, RefundStepTyped, NilAssumptionForRefunds
           DEF RefundTyped, RefundTypeOK
    <3>2. CASE refundStatus'[r] \in {"SUCCEEDED", "FAILED"}
      <4>1. \E v \in RefundWorkers : /\ job'[v].refund = r
                                     /\ place'[v] \in {"complete", "restore"}
        BY <2>2, <3>2, DecisionStep
      <4>2. target'[r] = p
        BY <1>5, TargetStays DEF UnderWay, NoRow
      <4> QED
        BY <4>1, <4>2 DEF Closing
    <3> QED
      BY <3>1, <3>2 DEF UnderWay, RefundStatuses
  <2> QED
    BY <2>1, <2>2
<1>6. ASSUME Closing(p)
      PROVE  Closing(p)'
  <2>1. PICK v \in RefundWorkers : /\ place[v] \in {"complete", "restore"}
                                   /\ target[job[v].refund] = p
    BY <1>6 DEF Closing
  <2>2. /\ place'[v] = place[v] /\ job'[v] = job[v]
        /\ target'[job[v].refund] = p
    BY <1>2, <1>3, <2>1, ClosingStep
  <2> QED
    BY <2>1, <2>2 DEF Closing
<1>7. CASE status[p] = "REFUND_PENDING"
  <2>1. \/ \E r \in Refunds : target[r] = p /\ UnderWay(r)
        \/ Closing(p)
    BY <1>7 DEF Attended
  <2>2. ASSUME NEW r \in Refunds, target[r] = p, UnderWay(r)
        PROVE  target'[r] = p
    BY <2>2, TargetStays DEF UnderWay, NoRow
  <2> QED
    BY <1>5, <1>6, <2>1, <2>2
<1> QED
  BY <1>4, <1>7

LEMMA RefundInitKept == RefundInit => BooksKept
<1> SUFFICES ASSUME RefundInit, NEW p \in Payments
             PROVE  Attended(p) /\ SettledUp(p)
  BY DEF BooksKept
<1>1. Attended(p)
  BY DEF RefundInit, Init, TableInit, Attended, NoRow
<1>2. RefundsOf(p, {"SUCCEEDED"}) = {}
  BY DEF RefundInit, RefundsOf, NoRow
<1>3. Cents(amount, {}, Price) = {}
  BY DEF Cents
<1>4. Refunded(p) = 0
  BY <1>2, <1>3, FS_EmptySet DEF Refunded, Total
<1> QED
  BY <1>1, <1>4, PriceAssumption DEF SettledUp

(* As long as no task is dropped and no worker dies, a payment none of     *)
(* whose refunds is under way is not left REFUND_PENDING, and it is        *)
(* REFUNDED exactly when its refunds add up to it.                         *)
THEOREM BooksAlwaysAgree == RefundSpec => []BooksAgree
<1> DEFINE Kept == /\ RefundTyped /\ RefundsWithinPayment
                   /\ RefundedInFull /\ BooksKept
<1>1. RefundInit => Kept
  <2>1. RefundInit => RefundedInFull
    BY DEF RefundInit, Init, TableInit, RefundedInFull, NoRow
  <2> QED
    BY <2>1, RefundInitTyped, RefundInitWithin, RefundInitKept
<1>2. Kept /\ [RefundNext]_everything => Kept'
  <2>1. RefundTyped /\ RefundsWithinPayment /\ BooksKept
           /\ [RefundNext]_everything => BooksKept'
    BY StaysUndisturbed, AttendedStep, SettledUpStep DEF BooksKept
  <2> QED
    BY <2>1, RefundStepTyped, WithinStep, FullStep
<1>3. Kept => BooksAgree
  <2> SUFFICES ASSUME Kept, NEW p \in Payments, Undisturbed,
                      \A r \in Refunds : target[r] = p => ~UnderWay(r),
                      ~Closing(p)
               PROVE  /\ status[p] # "REFUND_PENDING"
                      /\ status[p] = "REFUNDED" <=> Refunded(p) = Price
    BY DEF BooksAgree, Undisturbed
  <2>1. Attended(p) /\ SettledUp(p)
    BY DEF BooksKept
  <2>2. ~Completing(p)
    BY DEF Completing, Closing
  <2> QED
    BY <2>1, <2>2 DEF Attended, SettledUp, RefundedInFull
<1> QED
  BY <1>1, <1>2, <1>3, PTL DEF RefundSpec

-----------------------------------------------------------------------------
(* The payments beside their refunds.  What is proved of payments alone    *)
(* also holds with everything of this module running beside them, but for  *)
(* what a refund really changes: the ledger and the outbox (no event is    *)
(* written when a payment is restored), and the count of the retries.      *)

(* The provider was paid. *)
PaidStatuses == {"SUCCEEDED", "REFUND_PENDING", "REFUNDED"}

WasPaid(p) == status[p] \in PaidStatuses

(* No refund is of a payment that was never paid, or that a late task has  *)
(* taken back to PROCESSING or FAILED.                                     *)
RefundsOfPaid == \A r \in Refunds : target[r] # Nil => WasPaid(target[r])

(* A refund writes the status of a payment that was paid, and of no other  *)
(* payment anything.                                                       *)
LEMMA RefundWritesPaid ==
    ASSUME RefundTyped, RefundsOfPaid, RefundStep, NEW p \in Payments
    PROVE  /\ UNCHANGED <<providerId, failure, retryCount>>
           /\ (WasPaid(p) /\ WasPaid(p)') \/ Row(p)' = Row(p)
<1> USE DEF RefundTyped, Typed, TableTypeOK
<1>1. ASSUME NEW q \in Payments, NEW new, WasPaid(q), SetStatus(q, new),
             new \in PaidStatuses,
             \A x \in Payments \ {q} : ledger'[x] = ledger[x]
                                       /\ outbox'[x] = outbox[x]
      PROVE  /\ UNCHANGED <<providerId, failure, retryCount>>
             /\ (WasPaid(p) /\ WasPaid(p)') \/ Row(p)' = Row(p)
  BY <1>1 DEF SetStatus, WasPaid, Row
<1>2. ASSUME NEW q \in Payments, NEW r \in Refunds, CreateRefund(r, q)
      PROVE  /\ UNCHANGED <<providerId, failure, retryCount>>
             /\ (WasPaid(p) /\ WasPaid(p)') \/ Row(p)' = Row(p)
  BY <1>1, <1>2 DEF CreateRefund, LogEvent, WasPaid, PaidStatuses
<1>3. ASSUME NEW q \in Payments, NEW r \in Refunds, CompletePayment(q),
             target[r] = q
      PROVE  /\ UNCHANGED <<providerId, failure, retryCount>>
             /\ (WasPaid(p) /\ WasPaid(p)') \/ Row(p)' = Row(p)
  <2>1. WasPaid(q)
    BY <1>3, NilAssumptionForRefunds DEF RefundsOfPaid
  <2> QED
    BY <1>1, <1>3, <2>1 DEF CompletePayment, LogEvent, Announce, PaidStatuses
<1>4. ASSUME NEW q \in Payments, RestorePayment(q)
      PROVE  /\ UNCHANGED <<providerId, failure, retryCount>>
             /\ (WasPaid(p) /\ WasPaid(p)') \/ Row(p)' = Row(p)
  <2>1. CASE UNCHANGED table
    BY <2>1 DEF table, Row
  <2> QED
    BY <1>1, <1>4, <2>1 DEF RestorePayment, WasPaid, PaidStatuses
<1>5. CASE UNCHANGED table
  BY <1>5 DEF table, Row
<1> QED
  BY <1>2, <1>3, <1>4, <1>5, RefundWrites

(* A payment that was paid is not taken back to PROCESSING or FAILED, by a *)
(* refund or by a task of it that runs late.                               *)
LEMMA StaysPaid ==
    ASSUME RefundTyped, RefundsOfPaid, [RefundNext]_everything,
           NEW p \in Payments, WasPaid(p)
    PROVE  WasPaid(p)'
<1> USE DEF RefundTyped, Typed, TableTypeOK
<1>1. CASE RefundStep
  BY <1>1, RefundWritesPaid DEF WasPaid, Row
<1>2. ASSUME NEW q \in Payments, Written(q)
      PROVE  WasPaid(p)'
  <2>1. CASE q # p
    BY <1>2, <2>1, WrittenElsewhere DEF WasPaid, Row
  <2>2. CASE q = p
    <3>1. Moved(p)
      BY <1>2, <2>2 DEF Written, InsertPayment, WasPaid, PaidStatuses,
                          NoRow
    <3> QED
      BY <3>1 DEF Moved, PaymentMoves, Commit, WasPaid,
                   PaidStatuses
  <2> QED
    BY <2>1, <2>2
<1>3. CASE [Next]_vars
  <2>1. CASE RowsKept
    BY <2>1 DEF RowsKept, rows, WasPaid
  <2> QED
    BY <1>2, <1>3, <2>1, StepWrites
<1> QED
  BY <1>1, <1>3 DEF RefundNext, PaymentStep, everything

LEMMA RefundsOfPaidStep ==
    ASSUME RefundTyped, RefundsOfPaid, [RefundNext]_everything
    PROVE  RefundsOfPaid'
<1> USE DEF RefundTyped, RefundTypeOK
<1> SUFFICES ASSUME NEW r \in Refunds, target'[r] # Nil
             PROVE  status'[target'[r]] \in PaidStatuses
  BY DEF RefundsOfPaid, WasPaid
<1>1. CASE target[r] # Nil
  <2>1. target'[r] = target[r] /\ target[r] \in Payments
    BY <1>1, TargetStays
  <2>2. WasPaid(target[r])
    BY <1>1 DEF RefundsOfPaid
  <2> QED
    BY <2>1, <2>2, StaysPaid DEF WasPaid
<1>2. CASE target[r] = Nil
  <2>1. PICK q \in Refunds, p \in Payments : CreateRefund(q, p)
    BY <1>2, RefundRowStep DEF MovesRefund, RetriesRefund, refundRows
  <2>2. target'[r] = p
    BY <1>2, <2>1 DEF CreateRefund
  <2>3. status'[p] = "REFUND_PENDING"
    BY <2>1 DEF CreateRefund, SetStatus, Typed, TableTypeOK
  <2> QED
    BY <2>2, <2>3 DEF PaidStatuses
<1> QED
  BY <1>1, <1>2

(* Everything recorded stays backed when a refund moves on. *)
LEMMA PaymentsStayBacked ==
    ASSUME RefundTyped, RefundsOfPaid, Backing, RefundStep
    PROVE  Backing'
<1>1. UNCHANGED <<scenario, unpublished, queue, pc, task, reply, charges,
                  todo, finding>>
  BY RefundLeaves DEF elsewhere, broker, pool, provider, reconciliation
<1>2. \A p \in Payments : /\ providerId'[p] = providerId[p]
                          /\ \/ WasPaid(p) /\ WasPaid(p)'
                             \/ Row(p)' = Row(p)
  BY RefundWritesPaid
<1> USE DEF RefundTyped, Typed, TableTypeOK, SystemTypeOK
<1>3. \A p \in Payments : status'[p] = NoRow <=> status[p] = NoRow
  BY <1>2 DEF WasPaid, PaidStatuses, Row, NoRow
<1>4. RowFirst'
  <2>1. \A w \in Workers : pc[w] # "idle" => task[w].payment \in Payments
    BY DEF Tasks
  <2>2. \A t \in Tasks : t.payment \in Payments
    BY DEF Tasks
  <2> QED
    BY <1>1, <1>3, <2>1, <2>2 DEF Backing, RowFirst
<1>5. RowsBacked'
  <2> SUFFICES ASSUME NEW p \in Payments
               PROVE  RowBacked(p)'
    BY DEF RowsBacked, RowBacked
  <2>1. RowBacked(p)
    BY DEF Backing, RowsBacked, RowBacked
  <2>2. Row(p)' = Row(p) => failure'[p] = failure[p]
    BY DEF Row
  <2>3. failure'[p] = failure[p]
    BY RefundWritesPaid
  <2>4. \A n : Settled(p, n)' <=> Settled(p, n)
    BY <1>1 DEF Settled
  <2>5. CASE Row(p)' = Row(p)
    BY <1>1, <1>2, <2>1, <2>4, <2>5 DEF RowBacked, Row
  <2>6. CASE WasPaid(p) /\ WasPaid(p)'
    BY <1>1, <1>2, <2>1, <2>3, <2>4, <2>6
       DEF RowBacked, WasPaid, PaidStatuses
  <2> QED
    BY <1>2, <2>5, <2>6
<1>6. ChargesFollowScenario' /\ RepliesBacked'
  BY <1>1 DEF Backing, ChargesFollowScenario, RepliesBacked, Settled
<1>7. FindingsBacked'
  <2>1. \A r \in Reconcilers : /\ \A x \in todo[r] : x[1] \in Payments
                              /\ finding[r] # Nil =>
                                    finding[r].payment \in Payments
    BY DEF Findings
  <2> QED
    BY <1>1, <1>2, <2>1 DEF Backing, FindingsBacked
<1> QED
  BY <1>4, <1>5, <1>6, <1>7 DEF Backing

(* And nobody takes a task, or leaves one, of the payments' pool. *)
LEMMA PaymentsStayOwned ==
    ASSUME RefundTyped, RefundsOfPaid, RefundStep, OneAtATime, Owned,
           RowFirst'
    PROVE  OneAtATime' /\ Owned'
<1>1. UNCHANGED <<unpublished, queue, pc, task, leased>>
  BY RefundLeaves DEF elsewhere, broker, pool, provider, reconciliation
<1>2. \A p \in Payments :
         /\ providerId'[p] = providerId[p]
         /\ \/ WasPaid(p) /\ WasPaid(p)'
            \/ status'[p] = status[p]
  BY RefundWritesPaid DEF Row
<1> USE DEF RefundTyped, Typed, TableTypeOK, SystemTypeOK
<1>3. \A p \in Payments :
         /\ status'[p] = "CREATED" <=> status[p] = "CREATED"
         /\ status'[p] = "PROCESSING" <=> status[p] = "PROCESSING"
  BY <1>2 DEF WasPaid, PaidStatuses
<1>4. \A w \in Workers : pc[w] # "idle" => task[w].payment \in Payments
  BY DEF Tasks
<1>5. (OnceDelivered' => OnceDelivered) /\ (NothingLost' => NothingLost)
  BY RefundFaultsStay DEF OnceDelivered, NothingLost, FaultKinds, RefundNext
<1>6. \A p \in Payments : /\ Queued(p)' = Queued(p)
                          /\ Runners(p)' = Runners(p)
                          /\ Unfinished(p)' <=> Unfinished(p)
  BY <1>1, <1>3 DEF Queued, Runners, Running, Unfinished
<1>7. SingleFlight'
  BY <1>1, <1>5, <1>6 DEF OneAtATime, SingleFlight
<1>8. OnceDelivered' => FreshStart'
  BY <1>1, <1>3, <1>4, <1>5 DEF OneAtATime, FreshStart
<1>9. PastCreated' /\ (NothingLost' => EveryTaskLeased')
  BY <1>1, <1>3, <1>4, <1>5 DEF Owned, PastCreated, EveryTaskLeased
<1>10. NoOrphans'
  BY <1>1, <1>2, <1>3, <1>5, <1>6 DEF Owned, NoOrphans
<1> QED
  BY <1>7, <1>8, <1>9, <1>10 DEF OneAtATime, Owned

(* What holds of payments and refunds together. *)
Together ==
    RefundTyped /\ RefundsOfPaid /\ Backing /\ OneAtATime /\ Owned

LEMMA TogetherStep ==
    ASSUME Together, [RefundNext]_everything
    PROVE  Together'
<1>1. RefundTyped'
  BY RefundStepTyped DEF Together
<1>2. RefundsOfPaid'
  BY RefundsOfPaidStep DEF Together
<1>3. CASE [Next]_vars
  BY <1>1, <1>2, <1>3, BackingStep, OneAtATimeStep, OwnedStep
     DEF Together, RefundTyped
<1>4. CASE RefundStep
  <2>1. Backing'
    BY <1>4, PaymentsStayBacked DEF Together
  <2> QED
    BY <1>1, <1>2, <1>4, <2>1, PaymentsStayOwned DEF Together, Backing
<1> QED
  BY <1>3, <1>4 DEF RefundNext, PaymentStep, everything

LEMMA TogetherInit == RefundInit => Together
<1>1. RefundInit => RefundsOfPaid
  BY DEF RefundInit, RefundsOfPaid
<1> QED
  BY <1>1, RefundInitTyped, InitBacked, InitOneAtATime, InitOwned
     DEF RefundInit, Together

(* While refunds are asked for, run and closed, no late task takes a       *)
(* payment that has a refund back to PROCESSING or FAILED, and what is     *)
(* proved below of payments alone keeps holding.                           *)
THEOREM PaymentsAndRefunds == RefundSpec => []Together
BY TogetherInit, TogetherStep, PTL DEF RefundSpec

(* With refunds beside the payments too, a payment is SUCCEEDED or         *)
(* declined only as a charge of the provider ended (tasks.py:359-433,      *)
(* webhooks.py:160-181, reconciliation.py:51-90), also when a refund has   *)
(* returned it to SUCCEEDED (refund_service.py:206, 338).                  *)
THEOREM RefundsKeepBacking == RefundSpec => []FinalStatusBacked
<1>1. Together => FinalStatusBacked
  BY BackingBacks DEF Together
<1> QED
  BY <1>1, PaymentsAndRefunds, PTL

(* With refunds too, one task at a time acts on a payment as long as the   *)
(* broker delivers each message once.                                      *)
THEOREM RefundsKeepSingleFlight == RefundSpec => []SingleFlight
<1>1. Together => SingleFlight
  BY DEF Together, OneAtATime
<1> QED
  BY <1>1, PaymentsAndRefunds, PTL

(* With refunds too, nobody's payment is forgotten: an unfinished payment  *)
(* has its task or can be reconciled, as long as no task is lost.          *)
THEOREM RefundsKeepOwners == RefundSpec => []NoOrphans
<1>1. Together => NoOrphans
  BY DEF Together, Owned
<1> QED
  BY <1>1, PaymentsAndRefunds, PTL

(* With refunds too, no writer touches a FAILED payment again as long as   *)
(* the broker delivers each message once: no refund is accepted for one,   *)
(* and none completes or restores one.                                     *)
THEOREM RefundsKeepFailed == RefundSpec => FailedIsFinal
<1>1. Together /\ [RefundNext]_everything =>
        [OnceDelivered => \A p \in Payments :
            status[p] = "FAILED" => Row(p)' = Row(p)]_vars
  <2> SUFFICES ASSUME Together, [RefundNext]_everything, OnceDelivered,
                      NEW p \in Payments, status[p] = "FAILED"
               PROVE  Row(p)' = Row(p)
    OBVIOUS
  <2>1. CASE [Next]_vars
    BY <2>1, FailedStep DEF Together, RefundTyped
  <2>2. CASE RefundStep
    BY <2>2, RefundWritesPaid DEF Together, WasPaid, PaidStatuses
  <2> QED
    BY <2>1, <2>2 DEF RefundNext, PaymentStep, everything
<1> QED
  BY <1>1, PaymentsAndRefunds, PTL DEF RefundSpec, FailedIsFinal
====
