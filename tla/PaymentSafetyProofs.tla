------------------------ MODULE PaymentSafetyProofs -------------------------
(***************************************************************************)
(* Proofs of the invariants that tie the rows to the provider, the broker  *)
(* and the pool.                                                           *)
(***************************************************************************)
EXTENDS PaymentInvariants, PaymentProcessingProofs

USE DEF broker, pool, provider, reconciliation

(* A row is never deleted, and the scenario of a payment is fixed when its *)
(* row is inserted.                                                        *)
LEMMA RowStays ==
    ASSUME Typed, [Next]_vars, NEW p \in Payments, status[p] # NoRow
    PROVE  status'[p] # NoRow /\ scenario'[p] = scenario[p]
<1>1. status'[p] # NoRow
  <2>1. CASE RowsKept
    BY <2>1 DEF RowsKept, rows
  <2>2. ASSUME NEW q \in Payments, Written(q)
        PROVE  status'[p] # NoRow
    BY <2>2 DEF Written, InsertPayment, Moved, Commit, PaymentMoves,
                RecordAwaitingWebhook, RecordRetry, table, NoRow, Typed,
                TableTypeOK
  <2> QED
    BY <2>1, <2>2, TypedSplit, StepWrites
<1>2. ASSUME NEW q \in Payments, CreatePayment(q)
      PROVE  scenario'[p] = scenario[p]
  BY <1>2 DEF CreatePayment, InsertPayment, Typed, SystemTypeOK
<1>3. ASSUME ~ \E q \in Payments : CreatePayment(q)
      PROVE  UNCHANGED scenario
  <2>1. ASSUME NEW q \in Payments,
               Publish(q) \/ ProviderWakes(q) \/ Age(q)
               \/ \E n \in DOMAIN charges[q] : Webhook(q, n)
        PROVE  UNCHANGED scenario
    BY <2>1 DEF Publish, PublishTask, PublishFails, ProviderWakes, Age,
                Webhook, WebhookDuplicate, WebhookAlreadyFinal,
                WebhookApplies, WebhookConflict, WebhookLost, AcceptEvent,
                WebhookPending
  <2>2. ASSUME NEW w \in Workers, WorkerStep(w)
        PROVE  UNCHANGED scenario
    BY <2>2 DEF WorkerStep, TakeTask, StartProcessing, CallProvider,
                ProviderAnswers, RequestLost, ReplyLost, ProviderRejects,
                ProviderHangsUp, Calling, Finish, FinishSucceeded,
                AwaitWebhook, FinishDeclined, FinishRejected, CountRetry,
                Answered, RetryLater, GiveUp, Acknowledge, Release
  <2>3. ASSUME NEW w \in Workers, BrokerFault(w)
        PROVE  UNCHANGED scenario
    BY <2>3 DEF BrokerFault, Redeliver, WorkerCrashes, LoseTask, Release
  <2>4. ASSUME NEW r \in Reconcilers, ReconcilerStep(r) \/ ReconcilerCrashes(r)
        PROVE  UNCHANGED scenario
    BY <2>4 DEF ReconcilerStep, Snapshot, Lookup, LookupAnswers,
                LookupNotFound, LookupFails, NextLookup, ApplyFinding,
                ReconcilerCrashes
  <2> QED
    BY <1>3, <2>1, <2>2, <2>3, <2>4 DEF Next, vars, ProviderRestarts
<1> QED
  BY <1>1, <1>2, <1>3

(* The task self.retry publishes is one of the same payment. *)
LEMMA NextAttempt ==
    ASSUME NEW t \in Tasks, RetriesLeft(t)
    PROVE  /\ [t EXCEPT !.retries = @ + 1] \in Tasks
           /\ [t EXCEPT !.retries = @ + 1].payment = t.payment
BY MaxRetriesAssumption DEF RetriesLeft, Tasks

(* What the steps of a worker leave alone, and what it holds. *)
LEMMA WorkerFrame ==
    ASSUME Typed, NEW w \in Workers, WorkerStep(w) \/ BrokerFault(w)
    PROVE  /\ UNCHANGED <<unpublished, webhookEvents, todo, finding>>
           /\ \A v \in Workers \ {w} :
                 pc'[v] = pc[v] /\ task'[v] = task[v] /\ reply'[v] = reply[v]
           /\ ~TakeTask(w) => pc[w] # "idle"
           /\ ~TakeTask(w) /\ pc'[w] # "idle" => task'[w] = task[w]
           /\ ~TakeTask(w) =>
                 \A t \in Tasks :
                    queue'[t] > 0 =>
                       \/ queue[t] > 0
                       \/ t.payment = task[w].payment
<1> USE DEF Typed, SystemTypeOK, Goto
<1>1. CASE TakeTask(w)
  BY <1>1 DEF TakeTask
<1>2. CASE CallProvider(w)
  BY <1>2 DEF CallProvider, ProviderAnswers, RequestLost, ReplyLost,
              ProviderRejects, ProviderHangsUp, Calling, Return
<1>3. CASE StartProcessing(w) \/ FinishSucceeded(w) \/ AwaitWebhook(w)
           \/ FinishDeclined(w) \/ FinishRejected(w) \/ CountRetry(w)
           \/ GiveUp(w)
  BY <1>3 DEF StartProcessing, FinishSucceeded, AwaitWebhook,
              FinishDeclined, FinishRejected, CountRetry, GiveUp, Answered
<1>4. CASE Acknowledge(w) \/ LoseTask(w)
  BY <1>4 DEF Acknowledge, LoseTask, Release
<1>5. ASSUME NEW t \in Tasks, t.payment = task[w].payment,
             Enqueue(t) \/ UNCHANGED queue
      PROVE  \A u \in Tasks :
                queue'[u] > 0 => queue[u] > 0 \/ u.payment = task[w].payment
  BY <1>5 DEF Enqueue
<1>6. CASE RetryLater(w)
  <2>1. task[w] \in Tasks /\ RetriesLeft(task[w])
    BY <1>6 DEF RetryLater
  <2> QED
    BY <1>5, <1>6, <2>1, NextAttempt DEF RetryLater
<1>7. CASE Redeliver(w) \/ WorkerCrashes(w)
  <2>1. task[w] \in Tasks
    BY <1>7 DEF Redeliver, WorkerCrashes
  <2> QED
    BY <1>5, <1>7, <2>1 DEF Redeliver, WorkerCrashes, Release
<1> QED
  BY <1>1, <1>2, <1>3, <1>4, <1>6, <1>7 DEF WorkerStep, Finish, BrokerFault

(* What the steps outside the pool leave alone. *)
LEMMA OutsideFrame ==
    ASSUME [Next]_vars
    PROVE  \/ \E w \in Workers : WorkerStep(w) \/ BrokerFault(w)
           \/ /\ UNCHANGED pool
              /\ \/ UNCHANGED queue
                 \/ \E p \in Payments : PublishTask(p)
<1>1. ASSUME NEW q \in Payments,
             CreatePayment(q) \/ Publish(q) \/ ProviderWakes(q) \/ Age(q)
               \/ \E n \in DOMAIN charges[q] : Webhook(q, n)
      PROVE  UNCHANGED pool /\ (PublishTask(q) \/ UNCHANGED queue)
  BY <1>1 DEF CreatePayment, Publish, PublishTask, PublishFails,
              ProviderWakes, Age, Webhook, WebhookDuplicate,
              WebhookAlreadyFinal, WebhookApplies, WebhookConflict,
              WebhookLost, AcceptEvent, WebhookPending
<1>2. ASSUME NEW r \in Reconcilers, ReconcilerStep(r) \/ ReconcilerCrashes(r)
      PROVE  UNCHANGED <<pool, queue>>
  BY <1>2 DEF ReconcilerStep, Snapshot, Lookup, LookupAnswers,
              LookupNotFound, LookupFails, NextLookup, ApplyFinding,
              ReconcilerCrashes
<1> QED
  BY <1>1, <1>2 DEF Next, vars, ProviderRestarts

(* Which payment a step may give a new charge. *)
LEMMA ChargesGrow ==
    ASSUME Typed, [Next]_vars, NEW p \in Payments, charges[p] = <<>>,
           ~ \E w \in Workers : pc[w] = "call" /\ task[w].payment = p
    PROVE  charges'[p] = <<>>
<1> USE DEF Typed, SystemTypeOK
<1>1. ASSUME NEW w \in Workers, CallProvider(w)
      PROVE  charges'[p] = <<>>
  BY <1>1 DEF CallProvider, ProviderAnswers, RequestLost, ReplyLost,
              ProviderRejects, ProviderHangsUp, Calling, Charge
<1>2. ASSUME NEW w \in Workers, WorkerStep(w) \/ BrokerFault(w),
             ~CallProvider(w)
      PROVE  UNCHANGED charges
  BY <1>2 DEF WorkerStep, TakeTask, StartProcessing, Finish,
              FinishSucceeded, AwaitWebhook, FinishDeclined, FinishRejected,
              CountRetry, Answered, RetryLater, GiveUp, Acknowledge, Release,
              BrokerFault, Redeliver, WorkerCrashes, LoseTask
<1>3. ASSUME NEW q \in Payments, ProviderWakes(q)
      PROVE  charges'[p] = <<>>
  BY <1>3 DEF ProviderWakes
<1>4. ASSUME NEW q \in Payments, NEW n \in DOMAIN charges[q], Webhook(q, n)
      PROVE  charges'[p] = <<>>
  <2>1. q # p
    BY <1>4
  <2> QED
    BY <1>4, <2>1 DEF Webhook, WebhookDuplicate, WebhookAlreadyFinal,
                      WebhookApplies, WebhookConflict, WebhookLost,
                      AcceptEvent, SetWebhook
<1>5. ASSUME NEW q \in Payments, CreatePayment(q) \/ Publish(q) \/ Age(q)
      PROVE  UNCHANGED charges
  BY <1>5 DEF CreatePayment, Publish, PublishTask, PublishFails, Age
<1>6. CASE ProviderRestarts
  <2>1. DOMAIN charges'[p] = DOMAIN charges[p]
    BY <1>6 DEF ProviderRestarts
  <2>2. charges'[p] \in Seq(Charges) /\ DOMAIN charges'[p] = {}
    BY <2>1, StepKeepsTyped
  <2>3. Len(charges'[p]) = 0
    BY <2>2
  <2> QED
    BY <2>2, <2>3
<1>7. ASSUME NEW r \in Reconcilers, ReconcilerStep(r) \/ ReconcilerCrashes(r)
      PROVE  UNCHANGED charges
  BY <1>7 DEF ReconcilerStep, Snapshot, Lookup, LookupAnswers,
              LookupNotFound, LookupFails, NextLookup, ApplyFinding,
              ReconcilerCrashes
<1> QED
  BY <1>1, <1>2, <1>3, <1>4, <1>5, <1>6, <1>7 DEF Next, vars

-----------------------------------------------------------------------------
(* Nothing acts on a payment before its row exists.                        *)

(* Every step keeps RowFirst. *)
LEMMA RowFirstStep ==
    ASSUME Typed, Typed', RowFirst, [Next]_vars
    PROVE  RowFirst'
<1>1. \A p \in unpublished' : status'[p] # NoRow
  <2>1. ASSUME NEW p \in unpublished' \ unpublished
        PROVE  status'[p] # NoRow
    <3>1. ASSUME NEW q \in Payments, CreatePayment(q)
          PROVE  status'[p] # NoRow
      BY <2>1, <3>1 DEF CreatePayment, InsertPayment, NoRow, Typed,
                        TableTypeOK
    <3>2. ASSUME NEW q \in Payments,
                 Publish(q) \/ ProviderWakes(q) \/ Age(q)
                   \/ \E n \in DOMAIN charges[q] : Webhook(q, n)
          PROVE  unpublished' \subseteq unpublished
      BY <3>2 DEF Publish, PublishTask, PublishFails, ProviderWakes, Age,
                  Webhook, WebhookDuplicate, WebhookAlreadyFinal,
                  WebhookApplies, WebhookConflict, WebhookLost, AcceptEvent,
                  WebhookPending
    <3>3. ASSUME NEW w \in Workers, WorkerStep(w) \/ BrokerFault(w)
          PROVE  unpublished' \subseteq unpublished
      BY <3>3, WorkerFrame
    <3>4. ASSUME NEW r \in Reconcilers,
                 ReconcilerStep(r) \/ ReconcilerCrashes(r)
          PROVE  unpublished' \subseteq unpublished
      BY <3>4 DEF ReconcilerStep, Snapshot, Lookup, LookupAnswers,
                  LookupNotFound, LookupFails, NextLookup, ApplyFinding,
                  ReconcilerCrashes
    <3> QED
      BY <2>1, <3>1, <3>2, <3>3, <3>4 DEF Next, vars, ProviderRestarts
  <2>2. ASSUME NEW p \in unpublished
        PROVE  status'[p] # NoRow
    BY RowStays DEF RowFirst, Typed, SystemTypeOK
  <2> QED
    BY <2>1, <2>2
<1>2. ASSUME NEW t \in Tasks, queue'[t] > 0
      PROVE  status'[t.payment] # NoRow
  <2>1. t.payment \in Payments
    BY DEF Tasks
  <2>2. SUFFICES status[t.payment] # NoRow
    BY <2>1, RowStays
  <2>3. CASE queue[t] > 0
    BY <2>3 DEF RowFirst
  <2>4. ASSUME NEW w \in Workers, WorkerStep(w) \/ BrokerFault(w)
        PROVE  status[t.payment] # NoRow
    <3>1. CASE TakeTask(w)
      <4>1. queue[t] > 0
        BY <1>2, <3>1 DEF TakeTask, Typed, SystemTypeOK, Available
      <4> QED
        BY <2>3, <4>1
    <3>2. CASE ~TakeTask(w)
      BY <1>2, <2>4, <3>2, WorkerFrame DEF RowFirst
    <3> QED
      BY <3>1, <3>2
  <2>5. ASSUME NEW p \in Payments, PublishTask(p)
        PROVE  status[t.payment] # NoRow
    <3>1. [payment |-> p, retries |-> 0] \in Tasks
      BY MaxRetriesAssumption DEF Tasks
    <3>2. t = [payment |-> p, retries |-> 0] \/ queue'[t] = queue[t]
      BY <2>5, <3>1 DEF PublishTask, Enqueue, Typed, SystemTypeOK
    <3>3. status[p] # NoRow
      BY <2>5 DEF PublishTask, RowFirst
    <3>4. CASE queue'[t] = queue[t]
      BY <1>2, <2>3, <3>4
    <3> QED
      BY <3>2, <3>3, <3>4
  <2> QED
    BY <1>2, <2>3, <2>4, <2>5, OutsideFrame
<1>3. ASSUME NEW w \in Workers, pc'[w] # "idle"
      PROVE  status'[task'[w].payment] # NoRow
  <2>1. task'[w].payment \in Payments
    BY <1>3 DEF Typed, SystemTypeOK, Tasks
  <2>2. SUFFICES status[task'[w].payment] # NoRow
    BY <2>1, RowStays
  <2>3. CASE pc[w] # "idle" /\ task'[w] = task[w]
    BY <2>3 DEF RowFirst
  <2>4. CASE UNCHANGED pool
    BY <1>3, <2>3, <2>4
  <2>5. ASSUME NEW v \in Workers, WorkerStep(v) \/ BrokerFault(v)
        PROVE  status[task'[w].payment] # NoRow
    <3>1. CASE v # w
      BY <1>3, <2>3, <2>5, <3>1, WorkerFrame
    <3>2. CASE v = w /\ ~TakeTask(v)
      BY <1>3, <2>3, <2>5, <3>2, WorkerFrame
    <3>3. CASE v = w /\ TakeTask(v)
      <4>1. PICK t \in Tasks : Available(t) /\ task' = [task EXCEPT ![v] = t]
        BY <3>3 DEF TakeTask
      <4>2. task'[w] = t
        BY <3>3, <4>1 DEF Typed, SystemTypeOK
      <4> QED
        BY <4>1, <4>2 DEF Available, RowFirst
    <3> QED
      BY <3>1, <3>2, <3>3
  <2> QED
    BY <2>4, <2>5, OutsideFrame
<1>4. ASSUME NEW p \in Payments, status'[p] = NoRow
      PROVE  charges'[p] = <<>>
  <2>1. status[p] = NoRow /\ charges[p] = <<>>
    BY <1>4, RowStays DEF RowFirst
  <2>2. ~ \E w \in Workers : pc[w] = "call" /\ task[w].payment = p
    BY <2>1 DEF RowFirst
  <2> QED
    BY <2>1, <2>2, ChargesGrow
<1> QED
  BY <1>1, <1>2, <1>3, <1>4 DEF RowFirst

(* Nothing acts on anything when the system starts. *)
LEMMA RowFirstInit == Init => RowFirst
BY DEF Init, TableInit, RowFirst

-----------------------------------------------------------------------------
(* The records of the provider.                                            *)

(* How the charges of p may change: a charge is never forgotten by the     *)
(* model, one still PROCESSING may come to its end, and a new one is what  *)
(* the scenario leaves.                                                    *)
Evolved(p) ==
    /\ \A n \in DOMAIN charges[p] :
          /\ n \in DOMAIN charges'[p]
          /\ \/ charges'[p][n].status = charges[p][n].status
             \/ /\ charges[p][n].status = "PROCESSING"
                /\ charges'[p][n].status = "SUCCEEDED"
                /\ Outcome(scenario[p]) = "SUCCEEDED"
          /\ charges'[p][n].webhook # "none" => charges[p][n].webhook # "none"
    /\ \A n \in DOMAIN charges'[p] \ DOMAIN charges[p] :
          charges'[p][n] = ChargeFor(scenario[p])

(* A POST adds one charge, the one its scenario leaves. *)
LEMMA ChargeEvolves ==
    ASSUME SystemTypeOK, NEW p \in Payments, NEW q \in Payments, Charge(q)
    PROVE  Evolved(p)
<1>1. CASE p # q
  BY <1>1 DEF Charge, Evolved, SystemTypeOK
<1>2. CASE p = q
  <2> DEFINE c == ChargeFor(scenario[p])
  <2>1. charges[p] \in Seq(Charges) /\ c \in Charges
    BY ChargeTyped DEF SystemTypeOK
  <2>2. charges'[p] = Append(charges[p], c)
    BY <1>2 DEF Charge, SystemTypeOK
  <2> HIDE DEF c
  <2>3. /\ DOMAIN charges[p] \subseteq DOMAIN charges'[p]
        /\ \A n \in DOMAIN charges[p] : charges'[p][n] = charges[p][n]
        /\ \A n \in DOMAIN charges'[p] \ DOMAIN charges[p] :
              charges'[p][n] = c
    BY <2>1, <2>2
  <2> QED
    BY <2>3 DEF Evolved, c
<1> QED
  BY <1>1, <1>2

(* One field of one charge is rewritten. *)
LEMMA RewriteEvolves ==
    ASSUME SystemTypeOK, NEW p \in Payments, NEW q \in Payments,
           NEW n \in DOMAIN charges[q], NEW c \in Charges,
           charges' = [charges EXCEPT ![q] = [@ EXCEPT ![n] = c]],
           \/ c.status = charges[q][n].status
           \/ /\ charges[q][n].status = "PROCESSING"
              /\ c.status = "SUCCEEDED"
              /\ Outcome(scenario[q]) = "SUCCEEDED",
           c.webhook # "none" => charges[q][n].webhook # "none"
    PROVE  Evolved(p)
<1>1. CASE p # q
  BY <1>1 DEF Evolved, SystemTypeOK
<1>2. CASE p = q
  <2>1. charges'[p] = [charges[p] EXCEPT ![n] = c]
    BY <1>2 DEF SystemTypeOK
  <2>2. /\ DOMAIN charges'[p] = DOMAIN charges[p]
        /\ charges'[p][n] = c
        /\ \A m \in DOMAIN charges[p] \ {n} : charges'[p][m] = charges[p][m]
    BY <1>2, <2>1
  <2> QED
    BY <1>2, <2>2 DEF Evolved
<1> QED
  BY <1>1, <1>2

(* Every step changes the charges of a payment as Evolved says. *)
LEMMA EveryStepEvolves ==
    ASSUME Typed, [Next]_vars, NEW p \in Payments
    PROVE  Evolved(p)
<1>0. SystemTypeOK
  BY DEF Typed, SystemTypeOK
<1>1. CASE UNCHANGED charges
  BY <1>1 DEF Evolved
<1>2. ASSUME NEW w \in Workers, CallProvider(w)
      PROVE  Evolved(p)
  <2>1. task[w].payment \in Payments
    BY <1>2 DEF CallProvider, ProviderAnswers, RequestLost, ReplyLost,
                ProviderRejects, ProviderHangsUp, Calling, Typed, SystemTypeOK,
                Tasks
  <2> QED
    BY <1>0, <1>1, <1>2, <2>1, ChargeEvolves
       DEF CallProvider, ProviderAnswers, RequestLost, ReplyLost,
           ProviderRejects, ProviderHangsUp
<1>3. ASSUME NEW w \in Workers, WorkerStep(w) \/ BrokerFault(w),
             ~CallProvider(w)
      PROVE  UNCHANGED charges
  BY <1>3 DEF WorkerStep, TakeTask, StartProcessing, Finish,
              FinishSucceeded, AwaitWebhook, FinishDeclined, FinishRejected,
              CountRetry, Answered, RetryLater, GiveUp, Acknowledge, Release,
              BrokerFault, Redeliver, WorkerCrashes, LoseTask
<1>4. ASSUME NEW q \in Payments, ProviderWakes(q)
      PROVE  Evolved(p)
  <2>1. PICK n \in DOMAIN charges[q] :
           /\ charges[q][n].status = "PROCESSING"
           /\ charges' = [charges EXCEPT ![q][n].status = "SUCCEEDED"]
    BY <1>4 DEF ProviderWakes
  <2>2. charges[q][n] \in Charges
    BY <1>0 DEF SystemTypeOK
  <2> DEFINE c == [charges[q][n] EXCEPT !.status = "SUCCEEDED"]
  <2>3. c \in Charges /\ c.status = "SUCCEEDED"
        /\ c.webhook = charges[q][n].webhook
    BY <2>2 DEF Charges
  <2>4. Outcome(scenario[q]) = "SUCCEEDED"
    BY <1>4 DEF ProviderWakes, TimesOut, ProviderDelay, ClientTimeout, Outcome
  <2> QED
    BY <1>0, <2>1, <2>3, <2>4, RewriteEvolves
<1>5. ASSUME NEW q \in Payments, NEW n \in DOMAIN charges[q], Webhook(q, n)
      PROVE  Evolved(p)
  <2>1. PICK next \in {"none", "again"} : SetWebhook(q, n, next)
    BY <1>5 DEF Webhook, WebhookDuplicate, WebhookAlreadyFinal,
                WebhookApplies, WebhookConflict, WebhookLost, AcceptEvent,
                NextDelivery
  <2>2. charges[q][n] \in Charges /\ charges[q][n].webhook # "none"
    BY <1>0, <1>5
       DEF Webhook, WebhookDuplicate, WebhookAlreadyFinal, WebhookApplies,
           WebhookConflict, WebhookLost, AcceptEvent, WebhookPending,
           SystemTypeOK
  <2> DEFINE c == [charges[q][n] EXCEPT !.webhook = next]
  <2>3. c \in Charges /\ c.status = charges[q][n].status
    BY <2>2 DEF Charges
  <2>4. charges' = [charges EXCEPT ![q] = [@ EXCEPT ![n] = c]]
    BY <2>1 DEF SetWebhook
  <2> HIDE DEF c
  <2> QED
    BY <1>0, <2>2, <2>3, <2>4, RewriteEvolves
<1>6. ASSUME NEW q \in Payments, CreatePayment(q) \/ Publish(q) \/ Age(q)
      PROVE  UNCHANGED charges
  BY <1>6 DEF CreatePayment, Publish, PublishTask, PublishFails, Age
<1>7. CASE ProviderRestarts
  <2>1. /\ DOMAIN charges'[p] = DOMAIN charges[p]
        /\ \A n \in DOMAIN charges[p] :
              charges'[p][n] = [charges[p][n] EXCEPT !.known = FALSE,
                                                     !.webhook = "none"]
    BY <1>7 DEF ProviderRestarts
  <2>2. ASSUME NEW n \in DOMAIN charges[p]
        PROVE  /\ charges'[p][n].status = charges[p][n].status
               /\ charges'[p][n].webhook = "none"
    <3>1. charges[p][n] \in Charges
      BY <1>0 DEF SystemTypeOK
    <3> QED
      BY <2>1, <3>1 DEF Charges
  <2> QED
    BY <2>1, <2>2 DEF Evolved
<1>8. ASSUME NEW r \in Reconcilers, ReconcilerStep(r) \/ ReconcilerCrashes(r)
      PROVE  UNCHANGED charges
  BY <1>8 DEF ReconcilerStep, Snapshot, Lookup, LookupAnswers,
              LookupNotFound, LookupFails, NextLookup, ApplyFinding,
              ReconcilerCrashes
<1> QED
  BY <1>1, <1>2, <1>3, <1>4, <1>5, <1>6, <1>7, <1>8 DEF Next, vars

(* Every step keeps ChargesFollowScenario. *)
LEMMA ChargesFollowStep ==
    ASSUME Typed, Typed', RowFirst, RowFirst', ChargesFollowScenario,
           [Next]_vars
    PROVE  ChargesFollowScenario'
<1> SUFFICES ASSUME NEW p \in Payments, NEW n \in DOMAIN charges'[p]
             PROVE  /\ charges'[p][n].status \in
                          {"PROCESSING", Outcome(scenario'[p])}
                    /\ charges'[p][n].webhook # "none" =>
                          charges'[p][n].status = "SUCCEEDED"
  BY DEF ChargesFollowScenario
<1>1. Evolved(p)
  BY EveryStepEvolves
<1>2. status[p] # NoRow
  <2>1. ASSUME status[p] = NoRow
        PROVE  charges'[p] = <<>>
    <3>1. charges[p] = <<>>
      BY <2>1 DEF RowFirst
    <3>2. ~ \E w \in Workers : pc[w] = "call" /\ task[w].payment = p
      BY <2>1 DEF RowFirst
    <3> QED
      BY <3>1, <3>2, ChargesGrow
  <2> QED
    BY <2>1
<1>3. scenario'[p] = scenario[p]
  BY <1>2, RowStays
<1>4. CASE n \in DOMAIN charges[p]
  BY <1>1, <1>3, <1>4 DEF Evolved, ChargesFollowScenario, Outcome
<1>5. CASE n \notin DOMAIN charges[p]
  <2>1. charges'[p][n] = ChargeFor(scenario[p])
    BY <1>1, <1>5 DEF Evolved
  <2>2. /\ ChargeFor(scenario[p]).status \in
              {"PROCESSING", Outcome(scenario[p])}
        /\ ChargeFor(scenario[p]).webhook # "none" =>
              ChargeFor(scenario[p]).status = "SUCCEEDED"
    BY DEF ChargeFor, Outcome, TimesOut, ProviderDelay, ClientTimeout
  <2> QED
    BY <1>3, <2>1, <2>2
<1> QED
  BY <1>4, <1>5

(* A finished charge stays finished. *)
LEMMA SettledStays ==
    ASSUME Typed, [Next]_vars, NEW p \in Payments, NEW n, Settled(p, n)
    PROVE  Settled(p, n)'
BY EveryStepEvolves DEF Settled, Evolved

-----------------------------------------------------------------------------
(* The replies the workers hold.                                           *)

(* Every step keeps RepliesBacked. *)
LEMMA RepliesStep ==
    ASSUME Typed, Typed', RowFirst, RepliesBacked, [Next]_vars
    PROVE  RepliesBacked'
<1> SUFFICES ASSUME NEW w \in Workers, pc'[w] = "answered",
                    reply'[w].kind \in {"SUCCEEDED", "PROCESSING", "FAILED"}
             PROVE  /\ reply'[w].id \in DOMAIN charges'[task'[w].payment]
                    /\ charges'[task'[w].payment][reply'[w].id].status
                          # "PROCESSING"
                    /\ reply'[w].id # NoId
                    /\ (reply'[w].kind = "FAILED") <=>
                         (Outcome(scenario'[task'[w].payment]) = "FAILED")
  BY DEF RepliesBacked, Settled
<1>1. CASE /\ pc[w] = "answered" /\ reply'[w] = reply[w]
           /\ task'[w] = task[w]
  <2>1. task[w].payment \in Payments /\ status[task[w].payment] # NoRow
    BY <1>1 DEF Typed, SystemTypeOK, Tasks, RowFirst
  <2>2. scenario'[task[w].payment] = scenario[task[w].payment]
    BY <2>1, RowStays
  <2>3. Settled(task[w].payment, reply[w].id)
    BY <1>1 DEF RepliesBacked
  <2> DEFINE p == task[w].payment
             n == reply[w].id
  <2>4. n \in DOMAIN charges'[p] /\ charges'[p][n].status # "PROCESSING"
    BY <2>1, <2>3, EveryStepEvolves DEF Settled, Evolved
  <2> QED
    BY <1>1, <2>2, <2>4 DEF RepliesBacked
<1>2. CASE CallProvider(w)
  <2> DEFINE p == task[w].payment
             n == Len(charges[p]) + 1
  <2>1. p \in Payments /\ task' = task /\ status[p] # NoRow
    BY <1>2 DEF CallProvider, ProviderAnswers, RequestLost, ReplyLost,
                ProviderRejects, ProviderHangsUp, Calling, Typed, SystemTypeOK,
                Tasks,
                RowFirst
  <2>2. ProviderAnswers(w)
    BY <1>2 DEF CallProvider, RequestLost, ReplyLost, ProviderRejects,
                ProviderHangsUp, Calling, Return, Goto, Typed, SystemTypeOK
  <2>3. reply'[w] = [kind |-> ReplyKind(scenario[p]),
                     id |-> IF ReplyKind(scenario[p]) = "transient"
                            THEN NoId ELSE n]
    BY <2>2 DEF ProviderAnswers, Return, Typed, SystemTypeOK
  <2>4. ReplyKind(scenario[p]) # "transient" /\ reply'[w].id = n
    BY <2>3
  <2>5. charges[p] \in Seq(Charges) /\ ChargeFor(scenario[p]) \in Charges
    BY <2>1, ChargeTyped DEF Typed, SystemTypeOK
  <2>6. charges'[p] = Append(charges[p], ChargeFor(scenario[p]))
    BY <2>1, <2>2 DEF ProviderAnswers, Charge, Typed, SystemTypeOK
  <2>7. /\ n \in DOMAIN charges'[p] /\ n # NoId
        /\ charges'[p][n] = ChargeFor(scenario[p])
    <3> DEFINE c == ChargeFor(scenario[p])
               log == charges[p]
    <3>1. log \in Seq(Charges) /\ c \in Charges /\ charges'[p] = Append(log, c)
      BY <2>5, <2>6
    <3> HIDE DEF c, log
    <3>2. /\ Len(log) \in Nat /\ Len(log) + 1 \in DOMAIN charges'[p]
          /\ charges'[p][Len(log) + 1] = c
      BY <3>1
    <3> QED
      BY <3>2 DEF c, log, NoId
  <2>8. /\ ChargeFor(scenario[p]).status # "PROCESSING"
        /\ ReplyKind(scenario[p]) = "FAILED" <=>
              Outcome(scenario[p]) = "FAILED"
    BY <2>4 DEF ReplyKind, ChargeFor, Outcome, TimesOut, ProviderDelay,
                ClientTimeout
  <2>9. scenario'[p] = scenario[p]
    BY <2>1, RowStays
  <2>10. task'[w].payment = p /\ reply'[w].kind = ReplyKind(scenario[p])
    BY <2>1, <2>3
  <2> HIDE DEF p, n
  <2> QED
    BY <2>4, <2>7, <2>8, <2>9, <2>10
<1>3. ASSUME NEW v \in Workers, WorkerStep(v) \/ BrokerFault(v),
             ~CallProvider(w)
      PROVE  pc[w] = "answered" /\ reply'[w] = reply[w] /\ task'[w] = task[w]
  <2>1. CASE v # w
    BY <1>3, <2>1, WorkerFrame
  <2>2. CASE v = w
    <3>1. ~(StartProcessing(w) \/ Finish(w) \/ TakeTask(w))
      BY DEF StartProcessing, Finish, FinishSucceeded, AwaitWebhook,
             FinishDeclined, FinishRejected, CountRetry, RetryLater, GiveUp,
             Goto, TakeTask, Entry, Typed, SystemTypeOK
    <3>2. ~(Acknowledge(w) \/ WorkerCrashes(w) \/ LoseTask(w))
      BY DEF Acknowledge, WorkerCrashes, LoseTask, Release, Typed,
             SystemTypeOK
    <3>3. Redeliver(w)
      BY <1>3, <2>2, <3>1, <3>2 DEF WorkerStep, BrokerFault
    <3> QED
      BY <3>3 DEF Redeliver
  <2> QED
    BY <2>1, <2>2
<1>4. CASE UNCHANGED pool
  BY <1>1, <1>4
<1> QED
  BY <1>1, <1>2, <1>3, <1>4, OutsideFrame

-----------------------------------------------------------------------------
(* The rows and the reconcilers.                                           *)

(* The row of p is backed by the records of the provider. *)
RowBacked(p) ==
    /\ providerId[p] # NoId => Settled(p, providerId[p])
    /\ status[p] \in {"SUCCEEDED", "REFUND_PENDING", "REFUNDED"} =>
          /\ failure[p] = NoCode
          /\ providerId[p] # NoId
          /\ Outcome(scenario[p]) = "SUCCEEDED"
    /\ status[p] = "FAILED" =>
          /\ failure[p] \in FinalFailures
          /\ failure[p] \in {"PROVIDER_DECLINED",
                             "RECONCILED_PROVIDER_FAILURE"} =>
                /\ providerId[p] # NoId
                /\ Outcome(scenario[p]) = "FAILED"

(* A step keeps the backing of a row it does not write. *)
LEMMA BackedKept ==
    ASSUME Typed, [Next]_vars, NEW p \in Payments, RowBacked(p),
           UNCHANGED <<status, providerId, failure>>
             \/ /\ status'[p] = status[p] /\ providerId'[p] = providerId[p]
                /\ failure'[p] = failure[p]
    PROVE  RowBacked(p)' /\ (providerId[p] # NoId => providerId'[p] # NoId)
<1>1. /\ status'[p] = status[p] /\ providerId'[p] = providerId[p]
      /\ failure'[p] = failure[p]
  OBVIOUS
<1>2. providerId[p] # NoId =>
         /\ providerId[p] \in DOMAIN charges'[p]
         /\ charges'[p][providerId[p]].status # "PROCESSING"
  BY EveryStepEvolves DEF RowBacked, Settled, Evolved
<1>3. status[p] # NoRow => scenario'[p] = scenario[p]
  BY RowStays
<1> QED
  BY <1>1, <1>2, <1>3 DEF RowBacked, Settled, NoRow

(* A committed move is backed if what it writes is. *)
LEMMA CommitBacked ==
    ASSUME Typed, [Next]_vars, RowsBacked,
           NEW p \in Payments, status[p] # NoRow,
           NEW type, NEW prev, NEW new \in {"PROCESSING", "SUCCEEDED", "FAILED"},
           NEW id, NEW code,
           Commit(p, type, prev, new, id, code),
           id # NoId => Settled(p, id),
           id = NoId => providerId[p] = NoId,
           new = "SUCCEEDED" => /\ code = NoCode /\ id # NoId
                                /\ Outcome(scenario[p]) = "SUCCEEDED",
           new = "FAILED" => /\ code \in FinalFailures
                             /\ code \in {"PROVIDER_DECLINED",
                                          "RECONCILED_PROVIDER_FAILURE"} =>
                                   /\ id # NoId
                                   /\ Outcome(scenario[p]) = "FAILED"
    PROVE  /\ RowsBacked'
           /\ \A q \in Payments : providerId[q] # NoId => providerId'[q] # NoId
<1>1. /\ status'[p] = new /\ providerId'[p] = id /\ failure'[p] = code
  BY DEF Commit, Typed, SystemTypeOK, TableTypeOK
<1>2. id # NoId => /\ id \in DOMAIN charges'[p]
                   /\ charges'[p][id].status # "PROCESSING"
  BY EveryStepEvolves DEF Settled, Evolved
<1>3. scenario'[p] = scenario[p]
  BY RowStays
<1>4. RowBacked(p)'
  BY <1>1, <1>2, <1>3 DEF RowBacked, Settled
<1>5. ASSUME NEW q \in Payments, q # p
      PROVE  RowBacked(q)' /\ (providerId[q] # NoId => providerId'[q] # NoId)
  <2>1. /\ status'[q] = status[q] /\ providerId'[q] = providerId[q]
        /\ failure'[q] = failure[q]
    BY <1>5 DEF Commit, Typed, SystemTypeOK, TableTypeOK
  <2>2. RowBacked(q)
    BY DEF RowsBacked, RowBacked
  <2> QED
    BY <2>1, <2>2, BackedKept
<1> QED
  BY <1>1, <1>4, <1>5 DEF RowsBacked, RowBacked

(* record_transition keeps the rows backed, on the same conditions. *)
LEMMA TransitionBacked ==
    ASSUME Typed, [Next]_vars, RowsBacked,
           NEW p \in Payments, status[p] # NoRow,
           NEW type, NEW new \in {"PROCESSING", "SUCCEEDED", "FAILED"},
           NEW id \in Nat, NEW code,
           RecordTransition(p, type, new, id, code),
           id # NoId => Settled(p, id),
           new = "SUCCEEDED" => /\ code = NoCode /\ id # NoId
                                /\ Outcome(scenario[p]) = "SUCCEEDED",
           new = "FAILED" => /\ code \in FinalFailures
                             /\ code \in {"PROVIDER_DECLINED",
                                          "RECONCILED_PROVIDER_FAILURE"} =>
                                   /\ id # NoId
                                   /\ Outcome(scenario[p]) = "FAILED"
    PROVE  /\ RowsBacked'
           /\ \A q \in Payments : providerId[q] # NoId => providerId'[q] # NoId
<1> DEFINE kept == Coalesce(id, providerId[p])
<1>1. /\ kept # NoId => Settled(p, kept)
      /\ kept = NoId => providerId[p] = NoId
      /\ id # NoId => kept # NoId
  BY DEF Coalesce, RowsBacked
<1>2. CASE Commit(p, type, status[p], new, kept, code)
  <2> HIDE DEF kept
  <2> QED
    BY <1>1, <1>2, CommitBacked
<1>3. CASE UNCHANGED table
  <2>1. UNCHANGED <<status, providerId, failure>>
    BY <1>3 DEF table
  <2>2. ASSUME NEW q \in Payments
        PROVE  RowBacked(q)' /\ (providerId[q] # NoId => providerId'[q] # NoId)
    <3>1. RowBacked(q)
      BY DEF RowsBacked, RowBacked
    <3> QED
      BY <2>1, <3>1, BackedKept
  <2> QED
    BY <2>2 DEF RowsBacked, RowBacked
<1> QED
  BY <1>2, <1>3 DEF RecordTransition

(* A provider id, once stored, is never erased. *)
IdsStay == \A q \in Payments : providerId[q] # NoId => providerId'[q] # NoId

(* A step that writes the row of no payment keeps every row backed. *)
LEMMA QuietBacked ==
    ASSUME Typed, [Next]_vars, RowsBacked,
           UNCHANGED <<status, providerId, failure>>
    PROVE  RowsBacked' /\ IdsStay
<1>1. ASSUME NEW q \in Payments
      PROVE  RowBacked(q)' /\ (providerId[q] # NoId => providerId'[q] # NoId)
  <2>1. RowBacked(q)
    BY DEF RowsBacked, RowBacked
  <2> QED
    BY <2>1, BackedKept
<1> QED
  BY <1>1 DEF RowsBacked, RowBacked, IdsStay

(* The transactions of a worker keep every row backed. *)
LEMMA WorkerRowsBacked ==
    ASSUME Typed, [Next]_vars, RowFirst, RowsBacked, RepliesBacked,
           NEW w \in Workers, WorkerStep(w) \/ BrokerFault(w)
    PROVE  RowsBacked' /\ IdsStay
<1> DEFINE p == task[w].payment
<1>1. CASE \/ TakeTask(w) \/ CallProvider(w) \/ RetryLater(w)
           \/ Acknowledge(w) \/ BrokerFault(w)
  <2>1. UNCHANGED <<status, providerId, failure>>
    BY <1>1 DEF TakeTask, CallProvider, ProviderAnswers, RequestLost,
                ReplyLost, ProviderRejects, ProviderHangsUp, Calling,
                RetryLater, Acknowledge, BrokerFault, Redeliver,
                WorkerCrashes, LoseTask, Release, table
  <2> QED
    BY <2>1, QuietBacked
<1>2. pc[w] # "idle" => p \in Payments /\ status[p] # NoRow
  BY DEF Typed, SystemTypeOK, Tasks, RowFirst
<1>3. NoId \in Nat /\ reply[w].id \in Nat
  BY DEF Typed, SystemTypeOK, Replies, NoId
<1>4. CASE StartProcessing(w)
  <2>1. p \in Payments /\ status[p] # NoRow
    BY <1>2, <1>4 DEF StartProcessing
  <2>2. RecordTransition(p, "PAYMENT_PROCESSING", "PROCESSING", NoId, NoCode)
    BY <1>4 DEF StartProcessing
  <2> HIDE DEF p
  <2> QED
    BY <1>3, <2>1, <2>2, TransitionBacked DEF IdsStay
<1>5. CASE GiveUp(w)
  <2>1. p \in Payments /\ status[p] # NoRow
    BY <1>2, <1>5 DEF GiveUp
  <2>2. RecordTransition(p, "PAYMENT_FAILED", "FAILED", NoId,
                         "RETRIES_EXHAUSTED")
    BY <1>5 DEF GiveUp
  <2> HIDE DEF p
  <2> QED
    BY <1>3, <2>1, <2>2, TransitionBacked DEF IdsStay, FinalFailures
<1>6. CASE FinishRejected(w)
  <2>1. p \in Payments /\ status[p] # NoRow
    BY <1>2, <1>6 DEF FinishRejected, Answered
  <2>2. RecordTransition(p, "PAYMENT_FAILED", "FAILED", NoId,
                         "PROVIDER_REJECTED")
    BY <1>6 DEF FinishRejected
  <2> HIDE DEF p
  <2> QED
    BY <1>3, <2>1, <2>2, TransitionBacked DEF IdsStay, FinalFailures
<1>7. ASSUME pc[w] = "answered",
             reply[w].kind \in {"SUCCEEDED", "PROCESSING", "FAILED"}
      PROVE  /\ p \in Payments /\ status[p] # NoRow
             /\ Settled(p, reply[w].id) /\ reply[w].id # NoId
             /\ reply[w].kind = "FAILED" <=> Outcome(scenario[p]) = "FAILED"
             /\ Outcome(scenario[p]) \in {"SUCCEEDED", "FAILED"}
  BY <1>2, <1>7 DEF RepliesBacked, Outcome
<1>8. CASE FinishSucceeded(w)
  <2>1. /\ p \in Payments /\ status[p] # NoRow
        /\ Settled(p, reply[w].id) /\ reply[w].id # NoId
        /\ Outcome(scenario[p]) = "SUCCEEDED"
    BY <1>7, <1>8 DEF FinishSucceeded, Answered
  <2>2. RecordTransition(p, "PAYMENT_SUCCEEDED", "SUCCEEDED", reply[w].id,
                         NoCode)
    BY <1>8 DEF FinishSucceeded
  <2> HIDE DEF p
  <2> QED
    BY <1>3, <2>1, <2>2, TransitionBacked DEF IdsStay
<1>9. CASE FinishDeclined(w)
  <2>1. /\ p \in Payments /\ status[p] # NoRow
        /\ Settled(p, reply[w].id) /\ reply[w].id # NoId
        /\ Outcome(scenario[p]) = "FAILED"
    BY <1>7, <1>9 DEF FinishDeclined, Answered
  <2>2. RecordTransition(p, "PAYMENT_FAILED", "FAILED", reply[w].id,
                         "PROVIDER_DECLINED")
    BY <1>9 DEF FinishDeclined
  <2> HIDE DEF p
  <2> QED
    BY <1>3, <2>1, <2>2, TransitionBacked DEF IdsStay, FinalFailures
<1>10. CASE CountRetry(w)
  <2>1. p \in Payments /\ status[p] # NoRow
    BY <1>2, <1>10 DEF CountRetry, Answered
  <2>2. ASSUME NEW q \in Payments
        PROVE  RowBacked(q)' /\ (providerId[q] # NoId => providerId'[q] # NoId)
    <3>1. RowBacked(q)
      BY DEF RowsBacked, RowBacked
    <3>2. CASE UNCHANGED <<status, providerId, failure>>
      BY <3>1, <3>2, BackedKept
    <3>3. CASE /\ status[p] = "PROCESSING"
               /\ UNCHANGED <<status, providerId>>
               /\ failure' = [failure EXCEPT ![p] = "TRANSIENT"]
      <4>1. CASE q # p
        BY <3>1, <3>3, <4>1, BackedKept DEF Typed, SystemTypeOK, TableTypeOK
      <4>2. CASE q = p
        <5>1. providerId[p] # NoId =>
                 /\ providerId[p] \in DOMAIN charges'[p]
                 /\ charges'[p][providerId[p]].status # "PROCESSING"
          BY <2>1, <3>1, <4>2, EveryStepEvolves
             DEF RowBacked, Settled, Evolved
        <5> HIDE DEF p
        <5> QED
          BY <3>3, <4>2, <5>1 DEF RowBacked, Settled
      <4> QED
        BY <4>1, <4>2
    <3> QED
      BY <1>10, <3>2, <3>3 DEF CountRetry, RecordRetry, table
  <2> QED
    BY <2>2 DEF RowsBacked, RowBacked, IdsStay
<1>11. CASE AwaitWebhook(w)
  <2>1. /\ p \in Payments /\ status[p] # NoRow
        /\ Settled(p, reply[w].id) /\ reply[w].id # NoId
    BY <1>7, <1>11 DEF AwaitWebhook, Answered
  <2>2. ASSUME NEW q \in Payments
        PROVE  RowBacked(q)' /\ (providerId[q] # NoId => providerId'[q] # NoId)
    <3>1. RowBacked(q)
      BY DEF RowsBacked, RowBacked
    <3>2. CASE UNCHANGED <<status, providerId, failure>>
      BY <3>1, <3>2, BackedKept
    <3>3. CASE /\ status[p] = "PROCESSING"
               /\ UNCHANGED <<status, failure>>
               /\ providerId' = [providerId EXCEPT ![p] = reply[w].id]
      <4>1. CASE q # p
        BY <3>1, <3>3, <4>1, BackedKept DEF Typed, SystemTypeOK, TableTypeOK
      <4>2. CASE q = p
        <5>1. /\ reply[w].id \in DOMAIN charges'[p]
              /\ charges'[p][reply[w].id].status # "PROCESSING"
          BY <2>1, EveryStepEvolves DEF Settled, Evolved
        <5>2. providerId'[p] = reply[w].id
          BY <2>1, <3>3 DEF Typed, SystemTypeOK, TableTypeOK
        <5> HIDE DEF p
        <5> QED
          BY <2>1, <3>3, <4>2, <5>1, <5>2 DEF RowBacked, Settled
      <4> QED
        BY <4>1, <4>2
    <3> QED
      BY <1>11, <3>2, <3>3 DEF AwaitWebhook, RecordAwaitingWebhook, table
  <2> QED
    BY <2>2 DEF RowsBacked, RowBacked, IdsStay
<1> QED
  BY <1>1, <1>4, <1>5, <1>6, <1>8, <1>9, <1>10, <1>11
     DEF WorkerStep, Finish

(* A webhook is only sent for a charge that was paid, so what it writes is *)
(* backed.                                                                 *)
LEMMA WebhookRowsBacked ==
    ASSUME Typed, [Next]_vars, ChargesFollowScenario, RowsBacked,
           NEW p \in Payments, NEW n \in DOMAIN charges[p], Webhook(p, n)
    PROVE  RowsBacked' /\ IdsStay
<1>1. CASE WebhookApplies(p, n)
  <2>1. /\ status[p] = "PROCESSING"
        /\ charges[p][n].webhook # "none"
        /\ Commit(p, "PAYMENT_SUCCEEDED", "PROCESSING", "SUCCEEDED", n,
                  NoCode)
    BY <1>1 DEF WebhookApplies, AcceptEvent, WebhookPending
  <2>2. charges[p][n].status = "SUCCEEDED"
    BY <2>1 DEF ChargesFollowScenario
  <2>3. Settled(p, n) /\ Outcome(scenario[p]) = "SUCCEEDED"
    BY <2>2 DEF Settled, ChargesFollowScenario
  <2>4. n # NoId
    BY DEF Typed, SystemTypeOK, NoId
  <2> QED
    BY <2>1, <2>3, <2>4, CommitBacked DEF IdsStay, NoRow
<1>2. CASE ~WebhookApplies(p, n)
  <2>1. UNCHANGED <<status, providerId, failure>>
    BY <1>2 DEF Webhook, WebhookDuplicate, WebhookAlreadyFinal,
                WebhookConflict, WebhookLost, table
  <2> QED
    BY <2>1, QuietBacked
<1> QED
  BY <1>1, <1>2

(* What a reconciler found stays true until it is applied, so what it      *)
(* writes is backed.                                                       *)
LEMMA ReconcilerRowsBacked ==
    ASSUME Typed, [Next]_vars, RowsBacked, FindingsBacked,
           NEW r \in Reconcilers, ReconcilerStep(r) \/ ReconcilerCrashes(r)
    PROVE  RowsBacked' /\ IdsStay
<1>1. CASE UNCHANGED table
  BY <1>1, QuietBacked DEF table
<1>2. ASSUME ApplyFinding(r), ~UNCHANGED table
      PROVE  RowsBacked' /\ IdsStay
  <2> DEFINE p == finding[r].payment
             new == finding[r].status
             code == ReconciledCode(new)
             type == ReconciledType(new)
             id == providerId[p]
  <2>1. /\ p \in Payments /\ new \in {"SUCCEEDED", "FAILED"}
        /\ providerId[p] # NoId /\ Outcome(scenario[p]) = new
    BY <1>2 DEF ApplyFinding, FindingsBacked, Typed, SystemTypeOK, Findings
  <2>2. /\ status[p] = "PROCESSING"
        /\ Commit(p, ReconciledType(new), "PROCESSING", new, providerId[p],
                  ReconciledCode(new))
    BY <1>2 DEF ApplyFinding, Reconciles
  <2>3. Settled(p, providerId[p])
    BY <2>1 DEF RowsBacked
  <2>4. /\ new = "SUCCEEDED" => ReconciledCode(new) = NoCode
        /\ new = "FAILED" => ReconciledCode(new) \in FinalFailures
    BY DEF ReconciledCode, FinalFailures
  <2>5. Commit(p, type, "PROCESSING", new, id, code)
    BY <2>2
  <2>6. /\ id # NoId /\ Settled(p, id)
        /\ new = "SUCCEEDED" => code = NoCode
        /\ new = "FAILED" => code \in FinalFailures
    BY <2>1, <2>3, <2>4
  <2> HIDE DEF p, new, code, type, id
  <2> QED
    BY <2>1, <2>2, <2>5, <2>6, CommitBacked DEF IdsStay, NoRow
<1> QED
  BY <1>1, <1>2 DEF ReconcilerStep, Snapshot, Lookup, LookupAnswers,
                    LookupNotFound, LookupFails, NextLookup,
                    ReconcilerCrashes

(* Every step keeps every row backed and every provider id stored. *)
LEMMA RowsStep ==
    ASSUME Typed, RowFirst, ChargesFollowScenario, RowsBacked,
           RepliesBacked, FindingsBacked, [Next]_vars
    PROVE  RowsBacked' /\ IdsStay
<1>1. ASSUME NEW p \in Payments, CreatePayment(p)
      PROVE  RowsBacked' /\ IdsStay
  <2>1. /\ status[p] = NoRow
        /\ status' = [status EXCEPT ![p] = "CREATED"]
        /\ UNCHANGED <<providerId, failure>>
    BY <1>1 DEF CreatePayment, InsertPayment
  <2>2. ASSUME NEW q \in Payments
        PROVE  RowBacked(q)' /\ (providerId[q] # NoId => providerId'[q] # NoId)
    <3>1. RowBacked(q)
      BY DEF RowsBacked, RowBacked
    <3>2. CASE q # p
      BY <2>1, <3>1, <3>2, BackedKept DEF Typed, SystemTypeOK, TableTypeOK
    <3>3. CASE q = p
      <4>1. providerId[p] = NoId
        <5>1. charges[p] = <<>>
          BY <2>1 DEF RowFirst
        <5> QED
          BY <3>1, <3>3, <5>1 DEF RowBacked, Settled
      <4> QED
        BY <2>1, <3>3, <4>1 DEF RowBacked, Typed, SystemTypeOK, TableTypeOK
    <3> QED
      BY <3>2, <3>3
  <2> QED
    BY <2>2 DEF RowsBacked, RowBacked, IdsStay
<1>2. ASSUME NEW p \in Payments, Publish(p) \/ ProviderWakes(p) \/ Age(p)
      PROVE  RowsBacked' /\ IdsStay
  <2>1. UNCHANGED <<status, providerId, failure>>
    BY <1>2 DEF Publish, PublishTask, PublishFails, ProviderWakes, Age, table
  <2> QED
    BY <2>1, QuietBacked
<1>3. CASE ProviderRestarts \/ UNCHANGED vars
  <2>1. UNCHANGED <<status, providerId, failure>>
    BY <1>3 DEF ProviderRestarts, vars, table
  <2> QED
    BY <2>1, QuietBacked
<1> QED
  BY <1>1, <1>2, <1>3, WorkerRowsBacked, WebhookRowsBacked,
     ReconcilerRowsBacked DEF Next

(* The snapshot and the finding of a reconciler. *)
LEMMA FindingsStep ==
    ASSUME Typed, Typed', RowFirst, ChargesFollowScenario, RowsBacked,
           FindingsBacked, IdsStay, [Next]_vars
    PROVE  FindingsBacked'
<1> SUFFICES ASSUME NEW r \in Reconcilers
             PROVE  /\ \A x \in todo'[r] : providerId'[x[1]] # NoId
                    /\ finding'[r] # Nil =>
                          /\ providerId'[finding'[r].payment] # NoId
                          /\ finding'[r].status =
                                Outcome(scenario'[finding'[r].payment])
  BY DEF FindingsBacked
<1>1. ASSUME NEW x \in todo'[r], x \in todo[r]
      PROVE  providerId'[x[1]] # NoId
  <2>1. x[1] \in Payments /\ providerId[x[1]] # NoId
    BY <1>1 DEF FindingsBacked, Typed, SystemTypeOK
  <2> QED
    BY <2>1 DEF IdsStay
<1>2. ASSUME finding'[r] # Nil, finding'[r] = finding[r]
      PROVE  /\ providerId'[finding'[r].payment] # NoId
             /\ finding'[r].status = Outcome(scenario'[finding'[r].payment])
  <2> DEFINE p == finding[r].payment
  <2>1. p \in Payments /\ providerId[p] # NoId
    BY <1>2 DEF FindingsBacked, Typed, SystemTypeOK, Findings
  <2>2. status[p] # NoRow
    BY <2>1 DEF RowFirst, RowsBacked, Settled
  <2>3. scenario'[p] = scenario[p]
    BY <2>1, <2>2, RowStays
  <2> QED
    BY <1>2, <2>1, <2>3 DEF FindingsBacked, IdsStay
<1>3. CASE todo' = todo /\ finding' = finding
  BY <1>1, <1>2, <1>3
<1>4. ASSUME NEW v \in Reconcilers, ReconcilerStep(v) \/ ReconcilerCrashes(v)
      PROVE  /\ \A x \in todo'[r] : providerId'[x[1]] # NoId
             /\ finding'[r] # Nil =>
                   /\ providerId'[finding'[r].payment] # NoId
                   /\ finding'[r].status =
                         Outcome(scenario'[finding'[r].payment])
  <2>1. CASE v # r
    <3>1. todo'[r] = todo[r] /\ finding'[r] = finding[r]
      BY <1>4, <2>1 DEF ReconcilerStep, Snapshot, Lookup, LookupAnswers,
                        LookupNotFound, LookupFails, NextLookup,
                        ApplyFinding, ReconcilerCrashes, Typed, SystemTypeOK
    <3> QED
      BY <1>1, <1>2, <3>1
  <2>2. CASE Snapshot(r)
    <3>1. /\ todo'[r] = {<<p, providerId[p]>> : p \in Due}
          /\ finding' = finding
      BY <2>2 DEF Snapshot, Typed, SystemTypeOK
    <3>2. \A x \in todo'[r] : providerId'[x[1]] # NoId
      BY <3>1 DEF Due, IdsStay
    <3> QED
      BY <1>2, <3>1, <3>2
  <2>3. CASE LookupAnswers(r)
    <3> PICK p \in Payments : \E n \in DOMAIN charges[p] :
             /\ NextLookup(r, p, n)
             /\ finding'[r] =
                   IF charges[p][n].status \in {"SUCCEEDED", "FAILED"}
                   THEN [payment |-> p, status |-> charges[p][n].status]
                   ELSE Nil
      BY <2>3 DEF LookupAnswers, Typed, SystemTypeOK
    <3>1. PICK n \in DOMAIN charges[p] :
             /\ NextLookup(r, p, n)
             /\ finding'[r] =
                   IF charges[p][n].status \in {"SUCCEEDED", "FAILED"}
                   THEN [payment |-> p, status |-> charges[p][n].status]
                   ELSE Nil
      OBVIOUS
    <3>2. todo'[r] \subseteq todo[r] /\ <<p, n>> \in todo[r]
      BY <3>1 DEF NextLookup, Typed, SystemTypeOK
    <3>3. providerId[p] # NoId /\ status[p] # NoRow
      BY <3>2 DEF FindingsBacked, RowFirst
    <3>4. scenario'[p] = scenario[p] /\ providerId'[p] # NoId
      BY <3>3, RowStays DEF IdsStay
    <3>5. ASSUME finding'[r] # Nil
          PROVE  /\ finding'[r].payment = p
                 /\ finding'[r].status = Outcome(scenario[p])
      BY <3>1, <3>5 DEF ChargesFollowScenario
    <3> QED
      BY <1>1, <3>2, <3>4, <3>5
  <2>4. CASE LookupNotFound(r) \/ LookupFails(r)
    <3>1. todo'[r] \subseteq todo[r] /\ finding' = finding
      BY <2>4 DEF LookupNotFound, LookupFails, NextLookup, Typed, SystemTypeOK
    <3> QED
      BY <1>1, <1>2, <3>1
  <2>5. CASE ApplyFinding(r) \/ ReconcilerCrashes(r)
    <3>1. todo'[r] \subseteq todo[r] /\ finding'[r] = Nil
      BY <2>5 DEF ApplyFinding, ReconcilerCrashes, Typed, SystemTypeOK
    <3> QED
      BY <1>1, <3>1
  <2> QED
    BY <1>4, <2>1, <2>2, <2>3, <2>4, <2>5 DEF ReconcilerStep, Lookup
<1>5. ASSUME NEW w \in Workers, WorkerStep(w) \/ BrokerFault(w)
      PROVE  todo' = todo /\ finding' = finding
  BY <1>5, WorkerFrame
<1>6. ASSUME NEW q \in Payments,
             CreatePayment(q) \/ Publish(q) \/ ProviderWakes(q) \/ Age(q)
               \/ \E n \in DOMAIN charges[q] : Webhook(q, n)
      PROVE  todo' = todo /\ finding' = finding
  BY <1>6 DEF CreatePayment, Publish, PublishTask, PublishFails,
              ProviderWakes, Age, Webhook, WebhookDuplicate,
              WebhookAlreadyFinal, WebhookApplies, WebhookConflict,
              WebhookLost, AcceptEvent, WebhookPending
<1>7. CASE ProviderRestarts \/ UNCHANGED vars
  BY <1>3, <1>7 DEF ProviderRestarts, vars
<1> QED
  BY <1>3, <1>4, <1>5, <1>6, <1>7 DEF Next

(* Nothing is recorded anywhere when the system starts. *)
LEMMA InitBacked == Init => Backing
BY RowFirstInit
   DEF Init, Backing, TableInit, ChargesFollowScenario, RowsBacked,
       RepliesBacked, FindingsBacked, NoRow, NoId

(* Every step of the payment side, with refunds beside it or without, keeps *)
(* everything recorded backed.                                             *)
LEMMA BackingStep ==
    ASSUME Typed, Typed', Backing, [Next]_vars
    PROVE  Backing'
BY RowFirstStep, ChargesFollowStep, RowsStep, RepliesStep, FindingsStep
   DEF Backing

LEMMA BackingBacks == Backing => FinalStatusBacked
BY DEF Backing, RowsBacked, ChargesFollowScenario, Settled, FinalStatusBacked

(* The inductive invariant behind FinalStatusBacked: every reply a worker  *)
(* holds, every row with a provider id and every finding of a reconciler   *)
(* speaks of a charge that is finished, and finished as it says.           *)
THEOREM BackingAlways == Spec => []Backing
<1>1. Typed /\ Backing /\ [Next]_vars /\ Typed' => Backing'
  BY BackingStep
<1>2. TypeOK => Typed
  BY TypedSplit
<1> QED
  BY <1>1, <1>2, InitBacked, TypeCorrect, PTL DEF Spec

(* No worker, webhook or reconciler, however late or repeated, makes a     *)
(* payment SUCCEEDED or declined without a charge of the provider that     *)
(* ended that way (tasks.py:359-433, webhooks.py:160-181,                  *)
(* reconciliation.py:51-90).                                               *)
THEOREM FinalStatusAlwaysBacked == Spec => []FinalStatusBacked
<1>1. Backing => FinalStatusBacked
  BY BackingBacks
<1> QED
  BY <1>1, BackingAlways, PTL
=============================================================================
