----------------------- MODULE PaymentDeliveryProofs -----------------------
(***************************************************************************)
(* Proofs of what holds for a broker that keeps its promises: that one     *)
(* task at a time acts on a payment when no message is delivered twice,    *)
(* and that a payment always has somebody to finish it when none is lost.  *)
(***************************************************************************)
EXTENDS PaymentSafetyProofs

USE DEF broker, pool, provider, reconciliation

(* A worker that runs a task of p. *)
Flies(w, p) == Running(w) /\ task[w].payment = p

(* SingleFlight for one payment, without the sets it is written with. *)
Flight(p) ==
    /\ p \in unpublished =>
          /\ \A t \in Tasks : t.payment = p => ~(queue[t] > 0)
          /\ \A w \in Workers : ~Flies(w, p)
    /\ \A t \in Tasks :
          t.payment = p /\ queue[t] > 0 =>
             /\ queue[t] = 1
             /\ \A u \in Tasks : u.payment = p /\ queue[u] > 0 => u = t
             /\ \A w \in Workers : ~Flies(w, p)
    /\ \A v, w \in Workers : Flies(v, p) /\ Flies(w, p) => v = w

(* The two ways of writing it say the same. *)
LEMMA FlightIsSingle ==
    SingleFlight <=> (OnceDelivered => \A p \in Payments : Flight(p))
<1>1. ASSUME NEW p \in Payments, Flight(p)
      PROVE  /\ p \in unpublished => Queued(p) = {} /\ Runners(p) = {}
             /\ \A t \in Queued(p) :
                   queue[t] = 1 /\ Queued(p) = {t} /\ Runners(p) = {}
             /\ \A w \in Runners(p) : Runners(p) = {w}
  BY <1>1 DEF Flight, Flies, Queued, Runners
<1>2. ASSUME NEW p \in Payments,
             p \in unpublished => Queued(p) = {} /\ Runners(p) = {},
             \A t \in Queued(p) :
                queue[t] = 1 /\ Queued(p) = {t} /\ Runners(p) = {},
             \A w \in Runners(p) : Runners(p) = {w}
      PROVE  Flight(p)
  <2>1. \A t \in Tasks : t.payment = p /\ queue[t] > 0 <=> t \in Queued(p)
    BY DEF Queued
  <2>2. \A w \in Workers : Flies(w, p) <=> w \in Runners(p)
    BY DEF Flies, Runners
  <2>3. /\ p \in unpublished =>
              /\ \A t \in Tasks : t.payment = p => ~(queue[t] > 0)
              /\ \A w \in Workers : ~Flies(w, p)
    BY <1>2, <2>1, <2>2
  <2>4. \A v, w \in Workers : Flies(v, p) /\ Flies(w, p) => v = w
    BY <1>2, <2>2
  <2>5. ASSUME NEW t \in Tasks, t.payment = p, queue[t] > 0
        PROVE  /\ queue[t] = 1
               /\ \A u \in Tasks : u.payment = p /\ queue[u] > 0 => u = t
               /\ \A w \in Workers : ~Flies(w, p)
    BY <1>2, <2>1, <2>2, <2>5
  <2> QED
    BY <2>3, <2>4, <2>5 DEF Flight
<1> QED
  BY <1>1, <1>2 DEF SingleFlight

-----------------------------------------------------------------------------
(* A broker that delivers each message once, to workers that do not crash. *)

LEMMA StaysOnceDelivered ==
    ASSUME Typed, [Next]_vars, OnceDelivered'
    PROVE  OnceDelivered
BY FaultsStay DEF OnceDelivered, FaultKinds, Typed, SystemTypeOK

(* A step that delivers nothing twice puts no task back into the queue     *)
(* while a worker may still run it.                                        *)
LEMMA NoSecondDelivery ==
    ASSUME Typed, OnceDelivered', NEW w \in Workers
    PROVE  ~Redeliver(w) /\ ~WorkerCrashes(w)
BY DEF Typed, SystemTypeOK, OnceDelivered, FaultKinds, Redeliver,
       WorkerCrashes, Strike

(* A step that adds no task, no runner and no request to publish for p. *)
LEMMA FlightKept ==
    ASSUME NEW p \in Payments, Flight(p),
           p \in unpublished' => p \in unpublished,
           \A t \in Tasks : t.payment = p => queue'[t] = queue[t],
           \A w \in Workers : Flies(w, p)' => Flies(w, p)
    PROVE  Flight(p)'
BY DEF Flight

(* The steps of a worker that neither take a task nor queue one. *)
LEMMA WorkerKeepsFlight ==
    ASSUME Typed, NEW w \in Workers, WorkerStep(w) \/ LoseTask(w),
           ~TakeTask(w), ~RetryLater(w)
    PROVE  /\ UNCHANGED <<unpublished, queue>>
           /\ \A p \in Payments, v \in Workers : Flies(v, p)' => Flies(v, p)
<1>1. UNCHANGED <<unpublished, queue>>
  <2>1. CASE LoseTask(w) \/ Acknowledge(w)
    BY <2>1 DEF LoseTask, Acknowledge, Release
  <2>2. CASE CallProvider(w)
    BY <2>2 DEF CallProvider, ProviderAnswers, RequestLost, ReplyLost,
                ProviderRejects, ProviderHangsUp, Calling
  <2>3. CASE StartProcessing(w) \/ GiveUp(w)
    BY <2>3 DEF StartProcessing, GiveUp
  <2>4. CASE \/ FinishSucceeded(w) \/ AwaitWebhook(w) \/ FinishDeclined(w)
             \/ FinishRejected(w) \/ CountRetry(w)
    BY <2>4 DEF FinishSucceeded, AwaitWebhook, FinishDeclined,
                FinishRejected, CountRetry, Answered
  <2> QED
    BY <2>1, <2>2, <2>3, <2>4 DEF WorkerStep, Finish
<1>2. /\ \A v \in Workers \ {w} : pc'[v] = pc[v] /\ task'[v] = task[v]
      /\ pc[w] # "idle"
      /\ pc'[w] # "idle" => task'[w] = task[w]
  BY WorkerFrame DEF BrokerFault
<1>3. pc[w] = "ack" => pc'[w] = "idle"
  BY DEF WorkerStep, LoseTask, StartProcessing, CallProvider,
         ProviderAnswers, RequestLost, ReplyLost, ProviderRejects,
         ProviderHangsUp, Calling, Finish, FinishSucceeded, AwaitWebhook,
         FinishDeclined, FinishRejected, CountRetry, Answered, GiveUp,
         Acknowledge, Release, Typed, SystemTypeOK
<1> QED
  BY <1>1, <1>2, <1>3 DEF Flies, Running

(* Every step keeps SingleFlight. *)
LEMMA FlightStep ==
    ASSUME Typed, RowFirst, OnceDelivered', [Next]_vars,
           NEW p \in Payments, \A q \in Payments : Flight(q)
    PROVE  Flight(p)'
<1> USE DEF Typed, SystemTypeOK
<1>1. ASSUME NEW q \in Payments, CreatePayment(q)
      PROVE  Flight(p)'
  <2>1. /\ UNCHANGED <<queue, pc, task>>
        /\ unpublished' = unpublished \cup {q}
        /\ status[q] = NoRow
    BY <1>1 DEF CreatePayment, InsertPayment
  <2>2. CASE q # p
    BY <2>1, <2>2, FlightKept DEF Flies, Running
  <2>3. CASE q = p
    <3>1. \A t \in Tasks : t.payment = p => ~(queue[t] > 0)
      BY <2>1, <2>3 DEF RowFirst
    <3>2. \A w \in Workers : ~Flies(w, p)
      BY <2>1, <2>3 DEF RowFirst, Flies, Running
    <3> QED
      BY <2>1, <3>1, <3>2 DEF Flight, Flies, Running
  <2> QED
    BY <2>2, <2>3
<1>2. ASSUME NEW q \in Payments, PublishTask(q)
      PROVE  Flight(p)'
  <2> DEFINE t0 == [payment |-> q, retries |-> 0]
  <2>0. /\ t0 \in Tasks /\ t0.payment = q
        /\ UNCHANGED <<pc, task>> /\ unpublished' = unpublished \ {q}
        /\ queue' = [queue EXCEPT ![t0] = @ + 1]
        /\ q \in unpublished
    BY <1>2, MaxRetriesAssumption DEF PublishTask, Enqueue, Tasks
  <2> HIDE DEF t0
  <2>1. /\ UNCHANGED <<pc, task>> /\ unpublished' = unpublished \ {q}
        /\ t0 \in Tasks /\ t0.payment = q
        /\ \A t \in Tasks : t # t0 => queue'[t] = queue[t]
        /\ queue'[t0] = queue[t0] + 1
        /\ q \in unpublished
    BY <2>0
  <2>2. CASE q # p
    BY <2>1, <2>2, FlightKept DEF Flies, Running
  <2>3. CASE q = p
    <3>1. /\ \A t \in Tasks : t.payment = p => ~(queue[t] > 0)
          /\ \A w \in Workers : ~Flies(w, p)
      BY <2>1, <2>3 DEF Flight
    <3>2. queue'[t0] = 1
      BY <2>1, <2>3, <3>1
    <3> QED
      BY <2>1, <2>3, <3>1, <3>2 DEF Flight, Flies, Running
  <2> QED
    BY <2>2, <2>3
<1>3. ASSUME NEW w \in Workers, TakeTask(w)
      PROVE  Flight(p)'
  <2>1. PICK t \in Tasks : /\ queue[t] > 0
                           /\ queue' = [queue EXCEPT ![t] = @ - 1]
                           /\ task' = [task EXCEPT ![w] = t]
                           /\ Goto(w, Entry(t.payment))
    BY <1>3 DEF TakeTask, Available
  <2>2. /\ UNCHANGED unpublished
        /\ task'[w] = t
        /\ \A v \in Workers \ {w} : pc'[v] = pc[v] /\ task'[v] = task[v]
        /\ queue'[t] = queue[t] - 1
        /\ \A u \in Tasks \ {t} : queue'[u] = queue[u]
        /\ pc[w] = "idle"
    BY <1>3, <2>1 DEF TakeTask, Goto
  <2>3. CASE t.payment # p
    BY <2>2, <2>3, FlightKept DEF Flies, Running
  <2>4. CASE t.payment = p
    <3>1. /\ queue[t] = 1
          /\ \A u \in Tasks : u.payment = p /\ queue[u] > 0 => u = t
          /\ \A v \in Workers : ~Flies(v, p)
          /\ p \notin unpublished
      BY <2>1, <2>4 DEF Flight
    <3>2. ASSUME NEW u \in Tasks, u.payment = p
          PROVE  ~(queue'[u] > 0)
      <4>1. CASE u = t
        BY <2>2, <3>1, <4>1
      <4>2. CASE u # t
        BY <2>2, <3>1, <3>2, <4>2
      <4> QED
        BY <4>1, <4>2
    <3>3. \A v \in Workers : Flies(v, p)' => v = w
      BY <2>2, <3>1 DEF Flies, Running
    <3> QED
      BY <2>2, <3>1, <3>2, <3>3 DEF Flight
  <2> QED
    BY <2>3, <2>4
<1>4. ASSUME NEW w \in Workers, RetryLater(w)
      PROVE  Flight(p)'
  <2> DEFINE t0 == [task[w] EXCEPT !.retries = @ + 1]
  <2>1. task[w] \in Tasks /\ RetriesLeft(task[w]) /\ pc[w] = "retry"
    BY <1>4 DEF RetryLater
  <2>2. t0 \in Tasks /\ t0.payment = task[w].payment
    BY <2>1, NextAttempt
  <2>3. /\ UNCHANGED <<unpublished, task>>
        /\ pc'[w] = "ack"
        /\ \A v \in Workers \ {w} : pc'[v] = pc[v]
        /\ queue' = [queue EXCEPT ![t0] = @ + 1]
    BY <1>4 DEF RetryLater, Enqueue, Goto
  <2> HIDE DEF t0
  <2>4. /\ queue'[t0] = queue[t0] + 1
        /\ \A t \in Tasks : t # t0 => queue'[t] = queue[t]
    BY <2>2, <2>3
  <2>5. CASE task[w].payment # p
    BY <2>2, <2>3, <2>4, <2>5, FlightKept DEF Flies, Running
  <2>6. CASE task[w].payment = p
    <3>1. Flies(w, p)
      BY <2>1, <2>6 DEF Flies, Running
    <3>2. /\ p \notin unpublished
          /\ \A t \in Tasks : t.payment = p => ~(queue[t] > 0)
          /\ \A v \in Workers : Flies(v, p) => v = w
      BY <3>1 DEF Flight
    <3>3. queue'[t0] = 1
      BY <2>2, <2>4, <2>6, <3>2
    <3>4. \A v \in Workers : ~Flies(v, p)'
      BY <2>3, <3>2 DEF Flies, Running
    <3> QED
      BY <2>2, <2>3, <2>4, <3>2, <3>3, <3>4 DEF Flight
  <2> QED
    BY <2>5, <2>6
<1>5. ASSUME NEW w \in Workers, WorkerStep(w) \/ BrokerFault(w),
             ~TakeTask(w), ~RetryLater(w)
      PROVE  Flight(p)'
  <2>1. WorkerStep(w) \/ LoseTask(w)
    BY <1>5, NoSecondDelivery DEF BrokerFault
  <2> QED
    BY <1>5, <2>1, WorkerKeepsFlight, FlightKept
<1>6. CASE UNCHANGED pool /\ UNCHANGED queue /\ unpublished' \subseteq unpublished
  BY <1>6, FlightKept DEF Flies, Running
<1>7. ASSUME NEW q \in Payments,
             PublishFails(q) \/ ProviderWakes(q) \/ Age(q)
               \/ \E n \in DOMAIN charges[q] : Webhook(q, n)
      PROVE  UNCHANGED pool /\ UNCHANGED queue /\ unpublished' \subseteq unpublished
  BY <1>7 DEF PublishFails, ProviderWakes, Age, Webhook, WebhookDuplicate,
              WebhookAlreadyFinal, WebhookApplies, WebhookConflict,
              WebhookLost, AcceptEvent, WebhookPending
<1>8. ASSUME NEW r \in Reconcilers, ReconcilerStep(r) \/ ReconcilerCrashes(r)
      PROVE  UNCHANGED pool /\ UNCHANGED broker
  BY <1>8 DEF ReconcilerStep, Snapshot, Lookup, LookupAnswers,
              LookupNotFound, LookupFails, NextLookup, ApplyFinding,
              ReconcilerCrashes
<1> QED
  BY <1>1, <1>2, <1>3, <1>4, <1>5, <1>6, <1>7, <1>8
     DEF Next, Publish, vars, ProviderRestarts

(* Only the INSERT and the first transaction of a task make a payment      *)
(* unfinished that was not, or move it while it is.                        *)
LEMMA UnfinishedMoves ==
    ASSUME Typed, [Next]_vars, NEW p \in Payments,
           Unfinished(p)', status'[p] # status[p]
    PROVE  \/ CreatePayment(p)
           \/ \E w \in Workers : StartProcessing(w) /\ task[w].payment = p
<1> USE DEF Typed, SystemTypeOK, TableTypeOK, Commit
<1>1. ASSUME NEW q \in Payments,
             CreatePayment(q) \/ Publish(q) \/ ProviderWakes(q) \/ Age(q)
      PROVE  status'[p] = status[p] \/ CreatePayment(p)
  BY <1>1 DEF CreatePayment, InsertPayment, Publish, PublishTask,
              PublishFails, ProviderWakes, Age, table
<1>2. ASSUME NEW w \in Workers,
             \/ TakeTask(w) \/ CallProvider(w) \/ RetryLater(w)
             \/ Acknowledge(w) \/ BrokerFault(w)
      PROVE  UNCHANGED status
  BY <1>2 DEF TakeTask, CallProvider, ProviderAnswers, RequestLost,
              ReplyLost, ProviderRejects, ProviderHangsUp, Calling,
              RetryLater, Acknowledge, BrokerFault, Redeliver,
              WorkerCrashes, LoseTask, Release, table
<1>3. ASSUME NEW w \in Workers, AwaitWebhook(w) \/ CountRetry(w)
      PROVE  UNCHANGED status
  BY <1>3 DEF AwaitWebhook, RecordAwaitingWebhook, CountRetry, RecordRetry,
              table
<1>4. ASSUME NEW q \in Payments, NEW type, NEW new \in {"SUCCEEDED", "FAILED"},
             NEW id, NEW code, RecordTransition(q, type, new, id, code)
      PROVE  status'[p] \in {status[p], "SUCCEEDED", "FAILED"}
  BY <1>4 DEF RecordTransition, table
<1>5. ASSUME NEW w \in Workers,
             \/ FinishSucceeded(w) \/ FinishDeclined(w)
             \/ FinishRejected(w) \/ GiveUp(w)
      PROVE  status'[p] \in {status[p], "SUCCEEDED", "FAILED"}
  <2>1. task[w].payment \in Payments
    BY <1>5 DEF FinishSucceeded, FinishDeclined, FinishRejected, GiveUp,
                Answered, Tasks
  <2> QED
    BY <1>4, <1>5, <2>1 DEF FinishSucceeded, FinishDeclined, FinishRejected,
                            GiveUp
<1>6. ASSUME NEW w \in Workers, StartProcessing(w), task[w].payment # p
      PROVE  status'[p] = status[p]
  BY <1>6 DEF StartProcessing, RecordTransition, table
<1>7. ASSUME NEW q \in Payments, NEW n \in DOMAIN charges[q], Webhook(q, n)
      PROVE  status'[p] \in {status[p], "SUCCEEDED", "FAILED"}
  BY <1>7 DEF Webhook, WebhookDuplicate, WebhookAlreadyFinal,
              WebhookApplies, WebhookConflict, WebhookLost, table
<1>8. ASSUME NEW r \in Reconcilers, ReconcilerStep(r) \/ ReconcilerCrashes(r)
      PROVE  status'[p] \in {status[p], "SUCCEEDED", "FAILED"}
  <2>1. CASE ApplyFinding(r)
    BY <2>1 DEF ApplyFinding, Reconciles, Findings, table
  <2>2. CASE Snapshot(r) \/ Lookup(r) \/ ReconcilerCrashes(r)
    BY <2>2 DEF Snapshot, Lookup, LookupAnswers, LookupNotFound, LookupFails,
                NextLookup, ReconcilerCrashes, table
  <2> QED
    BY <1>8, <2>1, <2>2 DEF ReconcilerStep
<1> QED
  BY <1>1, <1>2, <1>3, <1>5, <1>6, <1>7, <1>8
     DEF Next, WorkerStep, Finish, ProviderRestarts, vars, table,
         Unfinished

(* So nothing else writes the row of a payment that is CREATED or FAILED. *)
LEMMA OnlyStartsWrite ==
    ASSUME Typed, [Next]_vars, NEW p \in Payments,
           status[p] \in {"CREATED", "FAILED"}, Row(p)' # Row(p)
    PROVE  \E w \in Workers : StartProcessing(w) /\ task[w].payment = p
<1>1. ~RowsKept
  BY DEF RowsKept, rows, Row
<1>2. PICK q \in Payments : Written(q)
  BY <1>1, TypedSplit, StepWrites
<1>3. Written(p)
  BY <1>2, WrittenElsewhere DEF Typed, SystemTypeOK
<1>4. Moved(p)
  BY <1>3 DEF Written, InsertPayment, NoRow
<1>5. status'[p] = "PROCESSING"
  <2>1. PICK type \in EventTypes, new \in Statuses, id \in Nat,
             code \in FailureCodes : /\ <<status[p], new>> \in PaymentMoves
                                     /\ Commit(p, type, status[p], new, id, code)
    BY <1>4 DEF Moved
  <2>2. new = "PROCESSING"
    BY <2>1 DEF PaymentMoves
  <2> QED
    BY <2>1, <2>2 DEF Commit, Typed, SystemTypeOK, TableTypeOK
<1> QED
  BY <1>5, UnfinishedMoves
     DEF Unfinished, CreatePayment, InsertPayment, NoRow

(* A task that has read CREATED still finds the payment CREATED. *)
LEMMA FreshStep ==
    ASSUME Typed, Typed', \A p \in Payments : Flight(p), FreshStart,
           OnceDelivered', [Next]_vars
    PROVE  FreshStart'
<1> SUFFICES ASSUME NEW w \in Workers, pc'[w] = "start"
             PROVE  status'[task'[w].payment] = "CREATED"
  BY DEF FreshStart
<1> DEFINE p == task[w].payment
<1>1. CASE TakeTask(w)
  <2>1. PICK t \in Tasks : /\ task' = [task EXCEPT ![w] = t]
                           /\ Goto(w, Entry(t.payment))
                           /\ UNCHANGED status
    BY <1>1 DEF TakeTask, table
  <2>2. Entry(t.payment) = "start" /\ task'[w] = t
    BY <2>1 DEF Goto, Typed, SystemTypeOK
  <2>3. status[t.payment] = "CREATED"
    BY <2>2 DEF Entry
  <2> QED
    BY <2>1, <2>2, <2>3
<1>2. CASE pc[w] = "start" /\ task'[w] = task[w]
  <2>1. p \in Payments /\ status[p] = "CREATED"
    BY <1>2 DEF FreshStart, Typed, SystemTypeOK, Tasks
  <2>2. ASSUME status'[p] # "CREATED"
        PROVE  FALSE
    <3>1. PICK v \in Workers : StartProcessing(v) /\ task[v].payment = p
      BY <2>1, <2>2, OnlyStartsWrite DEF Row
    <3>2. Flies(v, p) /\ Flies(w, p)
      BY <1>2, <3>1 DEF StartProcessing, Flies, Running
    <3>3. v = w
      BY <2>1, <3>2 DEF Flight
    <3> QED
      BY <3>1, <3>3 DEF StartProcessing, Goto, Typed, SystemTypeOK
  <2> QED
    BY <1>2, <2>2
<1>3. ASSUME NEW v \in Workers, WorkerStep(v) \/ BrokerFault(v),
             ~TakeTask(w)
      PROVE  pc[w] = "start" /\ task'[w] = task[w]
  <2>1. CASE v # w
    BY <1>3, <2>1, WorkerFrame
  <2>2. CASE v = w
    <3>1. ~(StartProcessing(w) \/ CallProvider(w) \/ Finish(w))
      BY DEF StartProcessing, CallProvider, ProviderAnswers, RequestLost,
             ReplyLost, ProviderRejects, ProviderHangsUp, Return, Finish,
             FinishSucceeded, AwaitWebhook, FinishDeclined, FinishRejected,
             CountRetry, RetryLater, GiveUp, Goto, Typed, SystemTypeOK
    <3>2. ~(Acknowledge(w) \/ WorkerCrashes(w) \/ LoseTask(w))
      BY DEF Acknowledge, WorkerCrashes, LoseTask, Release, Typed, SystemTypeOK
    <3> QED
      BY <1>3, <2>2, <3>1, <3>2, NoSecondDelivery
         DEF WorkerStep, BrokerFault
  <2> QED
    BY <2>1, <2>2
<1> QED
  BY <1>1, <1>2, <1>3, OutsideFrame

(* OneAtATime holds when nothing has been sent yet. *)
LEMMA InitOneAtATime == Init => OneAtATime
<1> SUFFICES ASSUME Init
             PROVE  RowFirst /\ SingleFlight /\ FreshStart
  BY DEF OneAtATime
<1>1. /\ \A t \in Tasks : ~(queue[t] > 0)
      /\ \A w \in Workers : pc[w] = "idle"
  <2>1. queue = [t \in Tasks |-> 0] /\ pc = [w \in Workers |-> "idle"]
    BY DEF Init
  <2> QED
    BY <2>1
<1>2. \A p \in Payments : Queued(p) = {} /\ Runners(p) = {}
  BY <1>1 DEF Queued, Runners, Running
<1> QED
  BY <1>1, <1>2, RowFirstInit DEF Init, SingleFlight, FreshStart

(* With refunds beside the payments or without. *)
LEMMA OneAtATimeStep ==
    ASSUME Typed, Typed', OneAtATime, [Next]_vars
    PROVE  OneAtATime'
<1>1. RowFirst'
  BY RowFirstStep DEF OneAtATime
<1>2. ASSUME OnceDelivered'
      PROVE  FreshStart' /\ (\A p \in Payments : Flight(p))'
  <2>1. OnceDelivered
    BY <1>2, StaysOnceDelivered
  <2>2. RowFirst /\ FreshStart /\ \A p \in Payments : Flight(p)
    BY <2>1, FlightIsSingle DEF OneAtATime
  <2>3. FreshStart'
    BY <1>2, <2>2, FreshStep
  <2> QED
    BY <1>2, <2>2, <2>3, FlightStep
<1>3. (OnceDelivered => \A p \in Payments : Flight(p))'
  BY <1>2
<1>4. SingleFlight'
  BY <1>3, FlightIsSingle, PTL
<1> QED
  BY <1>1, <1>2, <1>4 DEF OneAtATime

(* As long as the broker delivers each message once, at most one task acts *)
(* on a payment at any time, across its publication, its retries           *)
(* (tasks.py:412) and the pool, although process_payment takes no lock.    *)
THEOREM OneTaskAtATime == Spec => []OneAtATime
<1>1. Typed /\ Typed' /\ OneAtATime /\ [Next]_vars => OneAtATime'
  BY OneAtATimeStep
<1>2. TypeOK => Typed
  BY TypedSplit
<1> QED
  BY <1>1, <1>2, InitOneAtATime, TypeCorrect, PTL DEF Spec

(* The half of it that the callers of a payment rely on. *)
THEOREM SingleFlightAlways == Spec => []SingleFlight
<1>1. OneAtATime => SingleFlight
  BY DEF OneAtATime
<1> QED
  BY <1>1, OneTaskAtATime, PTL

LEMMA FailedStep ==
    ASSUME Typed, OneAtATime, [Next]_vars, OnceDelivered,
           NEW p \in Payments, status[p] = "FAILED"
    PROVE  Row(p)' = Row(p)
<1> SUFFICES ASSUME Row(p)' # Row(p) PROVE FALSE
  OBVIOUS
<1>1. PICK w \in Workers : StartProcessing(w) /\ task[w].payment = p
  BY OnlyStartsWrite
<1> QED
  BY <1>1 DEF OneAtATime, FreshStart, StartProcessing

(* As long as the broker delivers each message once, no writer touches the *)
(* row, the ledger or the outbox of a FAILED payment again: tasks.py:316,  *)
(* "Permanent failures immediately finalize the payment", needs that.      *)
THEOREM FailedNeverRewritten == Spec => FailedIsFinal
<1>1. Typed /\ OneAtATime /\ [Next]_vars =>
        [OnceDelivered => \A p \in Payments :
            status[p] = "FAILED" => Row(p)' = Row(p)]_vars
  BY FailedStep
<1>2. TypeOK => Typed
  BY TypedSplit
<1> QED
  BY <1>1, <1>2, OneTaskAtATime, TypeCorrect, PTL DEF Spec, FailedIsFinal

-----------------------------------------------------------------------------
(* A broker and a pool that lose no message: a worker may crash, and its   *)
(* task comes back.                                                        *)

LEMMA StaysNothingLost ==
    ASSUME Typed, [Next]_vars, NothingLost'
    PROVE  NothingLost
BY FaultsStay DEF NothingLost, FaultKinds, Typed, SystemTypeOK

(* A step that loses nothing drops no task, and no lease on one. *)
LEMMA NoLoss ==
    ASSUME Typed, NothingLost'
    PROVE  /\ \A p \in Payments : ~PublishFails(p)
           /\ \A w \in Workers : ~LoseTask(w) /\ ~ProviderHangsUp(w)
                                 /\ ~Redeliver(w)
BY DEF Typed, SystemTypeOK, NothingLost, FaultKinds, PublishFails, LoseTask,
       ProviderHangsUp, Redeliver, Strike

(* Somebody will finish p. *)
Owner(p) ==
    \/ p \in unpublished
    \/ \E t \in Tasks : t.payment = p /\ queue[t] > 0
    \/ \E w \in Workers : Flies(w, p)
    \/ status[p] = "PROCESSING" /\ providerId[p] # NoId

(* NoOrphans, without the sets it is written with. *)
LEMMA OwnersAreNoOrphans ==
    NoOrphans <=>
        (NothingLost => \A p \in Payments : Unfinished(p) => Owner(p))
BY DEF NoOrphans, Owner, Flies, Queued, Runners

(* A payment whose task is past its first transaction stays past CREATED,  *)
(* and the broker holds the message of every task that runs while no lease *)
(* is lost.                                                                *)
LEMMA HeldStep ==
    ASSUME Typed, Typed', RowFirst, PastCreated, [Next]_vars,
           NothingLost' => EveryTaskLeased
    PROVE  PastCreated' /\ (NothingLost' => EveryTaskLeased')
<1> SUFFICES ASSUME NEW w \in Workers
             PROVE  /\ pc'[w] \in {"call", "answered", "retry"} =>
                          status'[task'[w].payment] # "CREATED"
                    /\ NothingLost' => (pc'[w] # "idle" => w \in leased')
  BY DEF PastCreated, EveryTaskLeased
<1> USE DEF Typed, SystemTypeOK
<1>1. ASSUME NEW p \in Payments, status[p] \notin {"CREATED", NoRow}
      PROVE  status'[p] # "CREATED"
  <2> SUFFICES ASSUME status'[p] = "CREATED"
               PROVE  FALSE
    OBVIOUS
  <2>1. Unfinished(p)' /\ status'[p] # status[p]
    BY <1>1 DEF Unfinished
  <2>2. ~CreatePayment(p)
    BY <1>1 DEF CreatePayment, InsertPayment
  <2>3. PICK v \in Workers : StartProcessing(v) /\ task[v].payment = p
    BY <2>1, <2>2, UnfinishedMoves
  <2>4. RecordTransition(p, "PAYMENT_PROCESSING", "PROCESSING", NoId, NoCode)
    BY <2>3 DEF StartProcessing
  <2> QED
    BY <1>1, <2>4 DEF RecordTransition, Commit, table, TableTypeOK
<1>2. ASSUME pc[w] \in {"call", "answered", "retry"}, task'[w] = task[w]
      PROVE  status'[task'[w].payment] # "CREATED"
  <2>1. /\ task[w].payment \in Payments
        /\ status[task[w].payment] \notin {"CREATED", NoRow}
    BY <1>2 DEF PastCreated, RowFirst, Tasks
  <2> QED
    BY <1>1, <1>2, <2>1
<1>3. CASE /\ pc'[w] = pc[w] /\ task'[w] = task[w]
           /\ NothingLost' => (w \in leased => w \in leased')
  BY <1>2, <1>3 DEF EveryTaskLeased
<1>4. CASE TakeTask(w)
  <2>1. PICK t \in Tasks : /\ queue[t] > 0
                           /\ task' = [task EXCEPT ![w] = t]
                           /\ Goto(w, Entry(t.payment))
                           /\ UNCHANGED status
                           /\ leased' = leased \cup {w}
    BY <1>4 DEF TakeTask, Available, LeaseTo, table
  <2>2. pc'[w] = Entry(t.payment) /\ task'[w] = t
    BY <2>1 DEF Goto
  <2>3. Entry(t.payment) = "call" => status[t.payment] # "CREATED"
    BY DEF Entry
  <2>4. Entry(t.payment) \in {"ack", "start", "call"}
    BY DEF Entry
  <2> QED
    BY <2>1, <2>2, <2>3, <2>4
<1>5. CASE StartProcessing(w)
  <2> DEFINE p == task[w].payment
  <2>1. p \in Payments /\ task' = task /\ leased' = leased
        /\ pc[w] = "start"
    BY <1>5 DEF StartProcessing, Tasks
  <2>2. RecordTransition(p, "PAYMENT_PROCESSING", "PROCESSING", NoId, NoCode)
        /\ (pc'[w] = "call" => ~Refuses(p, "PROCESSING"))
        /\ pc'[w] \in {"ack", "call"}
    BY <1>5 DEF StartProcessing, Goto
  <2>3. ~Refuses(p, "PROCESSING") => status'[p] # "CREATED"
    BY <2>1, <2>2 DEF Refuses, RecordTransition, Commit, table, TableTypeOK
  <2> QED
    BY <2>1, <2>2, <2>3 DEF EveryTaskLeased
<1>6. CASE CallProvider(w) \/ Finish(w)
  <2>1. /\ pc[w] \in {"call", "answered", "retry"}
        /\ task' = task /\ leased' = leased
    BY <1>6 DEF CallProvider, ProviderAnswers, RequestLost, ReplyLost,
                ProviderRejects, ProviderHangsUp, Calling, Finish,
                FinishSucceeded, AwaitWebhook, FinishDeclined,
                FinishRejected, CountRetry, Answered, RetryLater, GiveUp
  <2> QED
    BY <1>2, <2>1 DEF EveryTaskLeased
<1>7. CASE Acknowledge(w) \/ BrokerFault(w)
  <2>1. CASE Redeliver(w)
    <3>1. pc'[w] = pc[w] /\ task'[w] = task[w]
      BY <2>1 DEF Redeliver
    <3> QED
      BY <1>2, <2>1, <3>1, NoLoss
  <2>2. CASE ~Redeliver(w)
    <3>1. pc'[w] = "idle"
      BY <1>7, <2>2 DEF Acknowledge, BrokerFault, WorkerCrashes, LoseTask,
                        Release
    <3> QED
      BY <3>1
  <2> QED
    BY <2>1, <2>2
<1>8. ASSUME NEW v \in Workers, v # w, WorkerStep(v) \/ BrokerFault(v)
      PROVE  /\ pc'[w] = pc[w] /\ task'[w] = task[w]
             /\ NothingLost' => (w \in leased => w \in leased')
  <2>1. pc'[w] = pc[w] /\ task'[w] = task[w]
    BY <1>8, WorkerFrame
  <2>2. CASE TakeTask(v)
    BY <2>1, <2>2 DEF TakeTask, LeaseTo
  <2>3. CASE Acknowledge(v) \/ WorkerCrashes(v)
    BY <1>8, <2>1, <2>3 DEF Acknowledge, WorkerCrashes, Release
  <2>4. CASE StartProcessing(v) \/ CallProvider(v) \/ Finish(v)
    <3>1. leased' = leased
      BY <2>4 DEF StartProcessing, CallProvider, ProviderAnswers,
                  RequestLost, ReplyLost, ProviderRejects, ProviderHangsUp,
                  Calling, Finish, FinishSucceeded, AwaitWebhook,
                  FinishDeclined, FinishRejected, CountRetry, Answered,
                  RetryLater, GiveUp
    <3> QED
      BY <2>1, <3>1
  <2> QED
    BY <1>8, <2>1, <2>2, <2>3, <2>4, NoLoss DEF WorkerStep, BrokerFault
<1> QED
  BY <1>3, <1>4, <1>5, <1>6, <1>7, <1>8, OutsideFrame DEF WorkerStep

(* The publication of a task is dropped by nothing but PublishFails, and a *)
(* queued message by nothing but the worker that takes it.                 *)
LEMMA MessagesStay ==
    ASSUME Typed, NothingLost', [Next]_vars, NEW p \in Payments
    PROVE  /\ p \in unpublished => p \in unpublished' \/ PublishTask(p)
           /\ \A t \in Tasks :
                 queue[t] > 0 =>
                    \/ queue'[t] > 0
                    \/ \E w \in Workers : /\ TakeTask(w)
                                          /\ task'[w] = t
                                          /\ pc'[w] = Entry(t.payment)
<1> USE DEF Typed, SystemTypeOK
<1>1. ASSUME NEW t \in Tasks, Enqueue(t)
      PROVE  \A u \in Tasks : queue[u] > 0 => queue'[u] > 0
  BY <1>1 DEF Enqueue
<1>2. ASSUME NEW q \in Payments, PublishTask(q)
      PROVE  /\ p \in unpublished => p \in unpublished' \/ PublishTask(p)
             /\ \A u \in Tasks : queue[u] > 0 => queue'[u] > 0
  <2>1. [payment |-> q, retries |-> 0] \in Tasks
    BY MaxRetriesAssumption DEF Tasks
  <2> QED
    BY <1>1, <1>2, <2>1 DEF PublishTask
<1>3. ASSUME NEW q \in Payments,
             CreatePayment(q) \/ ProviderWakes(q) \/ Age(q)
               \/ \E n \in DOMAIN charges[q] : Webhook(q, n)
      PROVE  unpublished \subseteq unpublished' /\ UNCHANGED queue
  BY <1>3 DEF CreatePayment, ProviderWakes, Age, Webhook, WebhookDuplicate,
              WebhookAlreadyFinal, WebhookApplies, WebhookConflict,
              WebhookLost, AcceptEvent, WebhookPending
<1>4. ASSUME NEW r \in Reconcilers, ReconcilerStep(r) \/ ReconcilerCrashes(r)
      PROVE  UNCHANGED <<unpublished, queue>>
  BY <1>4 DEF ReconcilerStep, Snapshot, Lookup, LookupAnswers,
              LookupNotFound, LookupFails, NextLookup, ApplyFinding,
              ReconcilerCrashes
<1>5. ASSUME NEW w \in Workers, TakeTask(w)
      PROVE  /\ UNCHANGED unpublished
             /\ \A t \in Tasks :
                   queue[t] > 0 =>
                      \/ queue'[t] > 0
                      \/ /\ task'[w] = t
                         /\ pc'[w] = Entry(t.payment)
  <2>1. PICK t \in Tasks : /\ queue' = [queue EXCEPT ![t] = @ - 1]
                           /\ task' = [task EXCEPT ![w] = t]
                           /\ Goto(w, Entry(t.payment))
    BY <1>5 DEF TakeTask
  <2>2. task'[w] = t /\ pc'[w] = Entry(t.payment)
    BY <2>1 DEF Goto
  <2>3. \A u \in Tasks \ {t} : queue'[u] = queue[u]
    BY <2>1
  <2> QED
    BY <1>5, <2>2, <2>3 DEF TakeTask
<1>6. ASSUME NEW w \in Workers, WorkerStep(w) \/ BrokerFault(w), ~TakeTask(w)
      PROVE  /\ UNCHANGED unpublished
             /\ \A u \in Tasks : queue[u] > 0 => queue'[u] > 0
  <2>1. CASE RetryLater(w)
    BY <1>1, <2>1, NextAttempt DEF RetryLater
  <2>2. CASE WorkerCrashes(w)
    BY <1>1, <2>2 DEF WorkerCrashes, Release
  <2>3. CASE (WorkerStep(w) \/ LoseTask(w)) /\ ~TakeTask(w) /\ ~RetryLater(w)
    BY <2>3, WorkerKeepsFlight
  <2> QED
    BY <1>6, <2>1, <2>2, <2>3, NoLoss DEF BrokerFault
<1> QED
  BY <1>2, <1>3, <1>4, <1>5, <1>6, NoLoss
     DEF Next, Publish, vars, ProviderRestarts

(* A worker that lets go of an unfinished payment leaves it to somebody.   *)
LEMMA RunnerHandsOver ==
    ASSUME Typed, Typed', RepliesBacked, PastCreated, EveryTaskLeased,
           NothingLost', NEW p \in Payments, NEW w \in Workers, Flies(w, p),
           WorkerStep(w) \/ BrokerFault(w), ~StartProcessing(w),
           status'[p] = status[p], Unfinished(p)
    PROVE  Owner(p)'
<1> USE DEF Typed, SystemTypeOK
<1>1. /\ pc[w] \notin {"idle", "ack"} /\ task[w] \in Tasks
      /\ task[w].payment = p
  BY DEF Flies, Running
<1>2. CASE CallProvider(w)
  <2>1. pc'[w] = "answered" /\ task'[w] = task[w]
    BY <1>2, NoLoss DEF CallProvider, ProviderAnswers, RequestLost,
                        ReplyLost, ProviderRejects, Calling, Return, Goto
  <2> QED
    BY <1>1, <2>1 DEF Owner, Flies, Running
<1>3. ASSUME pc[w] \in {"answered", "retry"}
      PROVE  status[p] = "PROCESSING"
  BY <1>1, <1>3 DEF PastCreated, Unfinished
<1>4. ~(FinishSucceeded(w) \/ FinishDeclined(w) \/ FinishRejected(w)
        \/ GiveUp(w))
  <2>1. ASSUME FinishSucceeded(w)
        PROVE  FALSE
    BY <1>1, <1>3, <2>1 DEF FinishSucceeded, Answered, RecordTransition,
                             ValidTransitions, Commit, TableTypeOK
  <2>2. ASSUME FinishDeclined(w)
        PROVE  FALSE
    BY <1>1, <1>3, <2>2 DEF FinishDeclined, Answered, RecordTransition,
                             ValidTransitions, Commit, TableTypeOK
  <2>3. ASSUME FinishRejected(w)
        PROVE  FALSE
    BY <1>1, <1>3, <2>3 DEF FinishRejected, Answered, RecordTransition,
                             ValidTransitions, Commit, TableTypeOK
  <2>4. ASSUME GiveUp(w)
        PROVE  FALSE
    BY <1>1, <1>3, <2>4 DEF GiveUp, RecordTransition,
                             ValidTransitions, Commit, TableTypeOK
  <2> QED
    BY <2>1, <2>2, <2>3, <2>4
<1>5. CASE AwaitWebhook(w)
  <2>1. reply[w].id # NoId /\ status[p] = "PROCESSING"
    BY <1>3, <1>5 DEF AwaitWebhook, Answered, RepliesBacked
  <2>2. providerId'[p] = reply[w].id
    BY <1>1, <1>5, <2>1 DEF AwaitWebhook, RecordAwaitingWebhook, TableTypeOK
  <2> QED
    BY <2>1, <2>2 DEF Owner
<1>6. CASE CountRetry(w)
  <2>1. pc'[w] = "retry" /\ task'[w] = task[w]
    BY <1>6 DEF CountRetry, Answered, Goto
  <2> QED
    BY <1>1, <2>1 DEF Owner, Flies, Running
<1>7. ASSUME NEW t \in Tasks, t.payment = p, Enqueue(t)
      PROVE  Owner(p)'
  BY <1>7 DEF Enqueue, Owner
<1>8. CASE RetryLater(w)
  BY <1>1, <1>7, <1>8, NextAttempt DEF RetryLater
<1>9. CASE WorkerCrashes(w)
  BY <1>1, <1>7, <1>9 DEF WorkerCrashes, EveryTaskLeased
<1>10. ~TakeTask(w) /\ ~Acknowledge(w)
  BY <1>1 DEF TakeTask, Acknowledge
<1> QED
  BY <1>2, <1>4, <1>5, <1>6, <1>8, <1>9, <1>10, NoLoss
     DEF WorkerStep, Finish, BrokerFault

(* Every step leaves an unfinished payment to somebody. *)
LEMMA OwnersStep ==
    ASSUME Typed, Typed', RepliesBacked, PastCreated, EveryTaskLeased,
           NothingLost', IdsStay, [Next]_vars,
           NEW p \in Payments, Unfinished(p) => Owner(p), Unfinished(p)'
    PROVE  Owner(p)'
<1> USE DEF Typed, SystemTypeOK
<1>1. CASE CreatePayment(p)
  BY <1>1 DEF CreatePayment, Owner
<1>2. ASSUME NEW w \in Workers, StartProcessing(w), task[w].payment = p
      PROVE  Owner(p)'
  <2>1. /\ RecordTransition(p, "PAYMENT_PROCESSING", "PROCESSING", NoId,
                            NoCode)
        /\ task'[w] = task[w]
        /\ Refuses(p, "PROCESSING") \/ pc'[w] = "call"
    BY <1>2 DEF StartProcessing, Goto
  <2>2. ~Refuses(p, "PROCESSING")
    BY <2>1 DEF Refuses, RecordTransition, table, Unfinished,
                ValidTransitions
  <2> QED
    BY <1>2, <2>1, <2>2 DEF Owner, Flies, Running
<1>3. ASSUME status'[p] = status[p],
             ~ \E w \in Workers : StartProcessing(w) /\ task[w].payment = p
      PROVE  Owner(p)'
  <2>1. Unfinished(p) /\ Owner(p)
    BY <1>3 DEF Unfinished
  <2>2. CASE p \in unpublished
    <3>1. CASE PublishTask(p)
      <4> DEFINE t0 == [payment |-> p, retries |-> 0]
      <4>1. t0 \in Tasks /\ t0.payment = p
        BY MaxRetriesAssumption DEF Tasks
      <4>2. queue' = [queue EXCEPT ![t0] = @ + 1]
        BY <3>1 DEF PublishTask, Enqueue
      <4> HIDE DEF t0
      <4>3. queue'[t0] > 0
        BY <4>1, <4>2
      <4> QED
        BY <4>1, <4>3 DEF Owner
    <3> QED
      BY <2>2, <3>1, MessagesStay DEF Owner
  <2>3. ASSUME NEW t \in Tasks, t.payment = p, queue[t] > 0
        PROVE  Owner(p)'
    <3>1. ASSUME NEW w \in Workers, task'[w] = t, pc'[w] = Entry(p)
          PROVE  Owner(p)'
      <4>1. pc'[w] \in {"start", "call"}
        BY <2>1, <3>1 DEF Entry, Unfinished
      <4> QED
        BY <2>3, <3>1, <4>1 DEF Owner, Flies, Running
    <3> QED
      BY <2>3, <3>1, MessagesStay DEF Owner
  <2>4. ASSUME NEW w \in Workers, Flies(w, p)
        PROVE  Owner(p)'
    <3>1. CASE pc'[w] = pc[w] /\ task'[w] = task[w]
      BY <2>4, <3>1 DEF Owner, Flies, Running
    <3>2. CASE WorkerStep(w) \/ BrokerFault(w)
      <4>1. ~StartProcessing(w)
        BY <1>3, <2>4 DEF Flies
      <4> QED
        BY <1>3, <2>1, <2>4, <3>2, <4>1, RunnerHandsOver
    <3>3. ASSUME NEW v \in Workers, v # w, WorkerStep(v) \/ BrokerFault(v)
          PROVE  pc'[w] = pc[w] /\ task'[w] = task[w]
      BY <3>3, WorkerFrame
    <3> QED
      BY <3>1, <3>2, <3>3, OutsideFrame
  <2>5. CASE status[p] = "PROCESSING" /\ providerId[p] # NoId
    BY <1>3, <2>5 DEF Owner, IdsStay
  <2> QED
    BY <2>1, <2>2, <2>3, <2>4, <2>5 DEF Owner
<1> QED
  BY <1>1, <1>2, <1>3, UnfinishedMoves

(* Nothing is unfinished and nothing runs when the system starts. *)
LEMMA InitOwned == Init => Owned
<1> SUFFICES ASSUME Init
             PROVE  Owned
  OBVIOUS
<1>1. /\ \A w \in Workers : pc[w] = "idle"
      /\ \A p \in Payments : status[p] = NoRow
  <2>1. pc = [w \in Workers |-> "idle"]
        /\ status = [p \in Payments |-> NoRow]
    BY DEF Init, TableInit
  <2> QED
    BY <2>1
<1> QED
  BY <1>1 DEF Owned, PastCreated, EveryTaskLeased, NoOrphans, Unfinished,
              NoRow

LEMMA OwnedStep ==
    ASSUME Typed, Typed', Backing, Owned, [Next]_vars
    PROVE  Owned'
<1>1. NothingLost' => NothingLost /\ EveryTaskLeased
  BY StaysNothingLost DEF Owned
<1>2. PastCreated' /\ (NothingLost' => EveryTaskLeased')
  BY <1>1, HeldStep DEF Backing, Owned
<1>3. IdsStay
  BY RowsStep DEF Backing
<1>4. ASSUME NothingLost', NEW p \in Payments
      PROVE  Unfinished(p)' => Owner(p)'
  <2>1. Unfinished(p) => Owner(p)
    BY <1>1, <1>4, OwnersAreNoOrphans DEF Owned
  <2> QED
    BY <1>1, <1>3, <1>4, <2>1, OwnersStep DEF Backing, Owned
<1>5. (NothingLost => \A p \in Payments : Unfinished(p) => Owner(p))'
  BY <1>4
<1>6. NoOrphans'
  BY <1>5, OwnersAreNoOrphans, PTL
<1> QED
  BY <1>2, <1>6 DEF Owned

(* As long as no publication of a task and no message of one is lost,      *)
(* workers that acknowledge late (celery_app.py:21) may crash at any       *)
(* point: an unfinished payment has its task queued or running, or its     *)
(* provider id stored for the reconciliation job.                          *)
THEOREM NeverOrphaned == Spec => []Owned
<1>1. Typed /\ Typed' /\ Backing /\ Owned /\ [Next]_vars => Owned'
  BY OwnedStep
<1>2. TypeOK => Typed
  BY TypedSplit
<1> QED
  BY <1>1, <1>2, InitOwned, BackingAlways, TypeCorrect, PTL DEF Spec

(* The half of it that matters to a client: nobody's payment is forgotten. *)
THEOREM NoOrphansAlways == Spec => []NoOrphans
<1>1. Owned => NoOrphans
  BY DEF Owned
<1> QED
  BY <1>1, NeverOrphaned, PTL

-----------------------------------------------------------------------------
(* What retries account for.                                               *)

(* The only step that lengthens the provider's records of a payment. *)
LEMMA ChargesCounted ==
    ASSUME Typed, Typed', [Next]_vars, NEW p \in Payments
    PROVE  \/ Len(charges'[p]) = Len(charges[p])
           \/ \E w \in Workers : /\ CallProvider(w) /\ task[w].payment = p
                                 /\ Len(charges'[p]) = Len(charges[p]) + 1
<1> USE DEF Typed, SystemTypeOK
<1>0. charges[p] \in Seq(Charges) /\ charges'[p] \in Seq(Charges)
  OBVIOUS
<1>1. ASSUME DOMAIN charges'[p] = DOMAIN charges[p]
      PROVE  Len(charges'[p]) = Len(charges[p])
  BY <1>0, <1>1
<1>2. ASSUME NEW w \in Workers, CallProvider(w)
      PROVE  \/ charges'[p] = charges[p]
             \/ task[w].payment = p /\ Len(charges'[p]) = Len(charges[p]) + 1
  <2>1. task[w].payment \in Payments
    BY <1>2 DEF CallProvider, ProviderAnswers, RequestLost, ReplyLost,
                ProviderRejects, ProviderHangsUp, Calling, Tasks
  <2>2. UNCHANGED charges \/ Charge(task[w].payment)
    BY <1>2 DEF CallProvider, ProviderAnswers, RequestLost, ReplyLost,
                ProviderRejects, ProviderHangsUp
  <2>3. CASE Charge(task[w].payment)
    <3> DEFINE c == ChargeFor(scenario[task[w].payment])
    <3>1. c \in Charges
      BY <2>1, ChargeTyped DEF SystemTypeOK
    <3> HIDE DEF c
    <3>2. charges' = [charges EXCEPT ![task[w].payment] = Append(@, c)]
      BY <2>3 DEF Charge, c
    <3>3. CASE task[w].payment = p
      <4>1. charges'[p] = Append(charges[p], c)
        BY <3>2, <3>3
      <4> QED
        BY <1>0, <3>1, <3>3, <4>1
    <3>4. CASE task[w].payment # p
      BY <3>2, <3>4
    <3> QED
      BY <3>3, <3>4
  <2> QED
    BY <2>2, <2>3
<1>3. ASSUME NEW w \in Workers, WorkerStep(w) \/ BrokerFault(w),
             ~CallProvider(w)
      PROVE  UNCHANGED charges
  BY <1>3 DEF WorkerStep, TakeTask, StartProcessing, Finish,
              FinishSucceeded, AwaitWebhook, FinishDeclined, FinishRejected,
              CountRetry, Answered, RetryLater, GiveUp, Acknowledge, Release,
              BrokerFault, Redeliver, WorkerCrashes, LoseTask
<1>4. ASSUME NEW q \in Payments,
             CreatePayment(q) \/ Publish(q) \/ Age(q) \/ ProviderWakes(q)
      PROVE  DOMAIN charges'[p] = DOMAIN charges[p]
  BY <1>4 DEF CreatePayment, Publish, PublishTask, PublishFails, Age,
              ProviderWakes
<1>5. ASSUME NEW q \in Payments, NEW n \in DOMAIN charges[q], Webhook(q, n)
      PROVE  DOMAIN charges'[p] = DOMAIN charges[p]
  <2>1. PICK next : SetWebhook(q, n, next)
    BY <1>5 DEF Webhook, WebhookDuplicate, WebhookAlreadyFinal,
                WebhookApplies, WebhookConflict, WebhookLost, AcceptEvent
  <2> QED
    BY <2>1 DEF SetWebhook
<1>6. CASE ProviderRestarts
  BY <1>1, <1>6 DEF ProviderRestarts
<1>7. ASSUME NEW r \in Reconcilers, ReconcilerStep(r) \/ ReconcilerCrashes(r)
      PROVE  UNCHANGED charges
  BY <1>7 DEF ReconcilerStep, Snapshot, Lookup, LookupAnswers,
              LookupNotFound, LookupFails, NextLookup, ApplyFinding,
              ReconcilerCrashes
<1> QED
  BY <1>1, <1>2, <1>3, <1>4, <1>5, <1>6, <1>7 DEF Next, vars

(* The only step that counts a retry, and the only one that finds them     *)
(* exhausted.                                                              *)
LEMMA RetriesCounted ==
    ASSUME Typed, [Next]_vars, NEW p \in Payments
    PROVE  /\ \/ retryCount'[p] = retryCount[p]
              \/ /\ \E w \in Workers : CountRetry(w) /\ task[w].payment = p
                 /\ status[p] = "PROCESSING"
                 /\ retryCount'[p] = retryCount[p] + 1
                 /\ failure'[p] = "TRANSIENT"
           /\ failure'[p] = "RETRIES_EXHAUSTED" =>
                 \/ failure[p] = "RETRIES_EXHAUSTED"
                 \/ \E w \in Workers : /\ GiveUp(w) /\ task[w].payment = p
                                       /\ status[p] = "PROCESSING"
<1> USE DEF Typed, SystemTypeOK, TableTypeOK
<1> DEFINE Quiet == /\ retryCount'[p] = retryCount[p]
                    /\ failure'[p] = "RETRIES_EXHAUSTED" =>
                          failure[p] = "RETRIES_EXHAUSTED"
<1>1. ASSUME UNCHANGED <<retryCount, failure>>
      PROVE  Quiet
  BY <1>1
<1>2. ASSUME NEW q \in Payments, NEW type, NEW new, NEW id, NEW code,
             code # "RETRIES_EXHAUSTED", RecordTransition(q, type, new, id, code)
      PROVE  Quiet
  BY <1>2 DEF RecordTransition, Commit, table
<1>3. ASSUME NEW q \in Payments,
             CreatePayment(q) \/ Publish(q) \/ ProviderWakes(q) \/ Age(q)
      PROVE  Quiet
  BY <1>3 DEF CreatePayment, InsertPayment, Publish, PublishTask,
              PublishFails, ProviderWakes, Age, table
<1>4. ASSUME NEW w \in Workers,
             \/ TakeTask(w) \/ CallProvider(w) \/ RetryLater(w)
             \/ Acknowledge(w) \/ BrokerFault(w)
      PROVE  Quiet
  BY <1>1, <1>4 DEF TakeTask, CallProvider, ProviderAnswers, RequestLost,
              ReplyLost, ProviderRejects, ProviderHangsUp, Calling,
              RetryLater, Acknowledge, BrokerFault, Redeliver,
              WorkerCrashes, LoseTask, Release, table
<1>5. ASSUME NEW w \in Workers,
             \/ StartProcessing(w) \/ FinishSucceeded(w)
             \/ FinishDeclined(w) \/ FinishRejected(w)
      PROVE  Quiet
  <2>1. task[w].payment \in Payments
    BY <1>5 DEF StartProcessing, FinishSucceeded, FinishDeclined,
                FinishRejected, Answered, Tasks
  <2> QED
    BY <1>2, <1>5, <2>1 DEF StartProcessing, FinishSucceeded,
                            FinishDeclined, FinishRejected, NoCode
<1>6. ASSUME NEW w \in Workers, AwaitWebhook(w)
      PROVE  Quiet
  BY <1>1, <1>6 DEF AwaitWebhook, RecordAwaitingWebhook, table
<1>7. ASSUME NEW w \in Workers, CountRetry(w)
      PROVE  \/ Quiet
             \/ /\ task[w].payment = p /\ status[p] = "PROCESSING"
                /\ retryCount'[p] = retryCount[p] + 1
                /\ failure'[p] = "TRANSIENT"
  <2>1. task[w].payment \in Payments
    BY <1>7 DEF CountRetry, Answered, Tasks
  <2>2. CASE task[w].payment = p
    BY <1>7, <2>1, <2>2 DEF CountRetry, RecordRetry, table
  <2>3. CASE task[w].payment # p
    BY <1>7, <2>1, <2>3 DEF CountRetry, RecordRetry, table
  <2> QED
    BY <2>2, <2>3
<1>8. ASSUME NEW w \in Workers, GiveUp(w)
      PROVE  \/ Quiet
             \/ /\ task[w].payment = p /\ status[p] = "PROCESSING"
                /\ retryCount'[p] = retryCount[p]
  <2>1. task[w].payment \in Payments
    BY <1>8 DEF GiveUp, Tasks
  <2>2. CASE task[w].payment # p \/ status[p] # "PROCESSING"
    BY <1>8, <2>1, <2>2 DEF GiveUp, RecordTransition, Commit, table,
                            ValidTransitions
  <2>3. UNCHANGED retryCount
    BY <1>8 DEF GiveUp, RecordTransition, Commit, table
  <2> QED
    BY <2>2, <2>3
<1>9. ASSUME NEW q \in Payments, NEW n \in DOMAIN charges[q], Webhook(q, n)
      PROVE  Quiet
  BY <1>9 DEF Webhook, WebhookDuplicate, WebhookAlreadyFinal,
              WebhookApplies, WebhookConflict, WebhookLost, Commit, table,
              NoCode
<1>10. ASSUME NEW r \in Reconcilers, ReconcilerStep(r) \/ ReconcilerCrashes(r)
       PROVE  Quiet
  <2>1. CASE ApplyFinding(r)
    BY <2>1 DEF ApplyFinding, Reconciles, Commit, ReconciledCode, NoCode,
                Findings, table
  <2>2. CASE Snapshot(r) \/ Lookup(r) \/ ReconcilerCrashes(r)
    BY <1>1, <2>2 DEF Snapshot, Lookup, LookupAnswers, LookupNotFound,
                      LookupFails, NextLookup, ReconcilerCrashes, table
  <2> QED
    BY <1>10, <2>1, <2>2 DEF ReconcilerStep
<1>11. ASSUME ProviderRestarts \/ UNCHANGED vars
       PROVE  Quiet
  BY <1>1, <1>11 DEF ProviderRestarts, vars, table
<1> HIDE DEF Quiet
<1>12. ASSUME NEW w \in Workers, WorkerStep(w) \/ BrokerFault(w)
       PROVE  \/ Quiet
              \/ /\ CountRetry(w) /\ task[w].payment = p
                 /\ status[p] = "PROCESSING"
                 /\ retryCount'[p] = retryCount[p] + 1
                 /\ failure'[p] = "TRANSIENT"
              \/ /\ GiveUp(w) /\ task[w].payment = p
                 /\ status[p] = "PROCESSING"
                 /\ retryCount'[p] = retryCount[p]
  BY <1>4, <1>5, <1>6, <1>7, <1>8, <1>12 DEF WorkerStep, Finish
<1>13. ASSUME ~ \E w \in Workers : WorkerStep(w) \/ BrokerFault(w)
       PROVE  Quiet
  BY <1>3, <1>9, <1>10, <1>11, <1>13 DEF Next
<1>14. CASE \E w \in Workers : WorkerStep(w) \/ BrokerFault(w)
  <2>1. PICK w \in Workers : WorkerStep(w) \/ BrokerFault(w)
    BY <1>14
  <2> HIDE DEF Typed, SystemTypeOK, TableTypeOK
  <2>2. CASE Quiet
    BY <2>2 DEF Quiet
  <2>3. CASE CountRetry(w) /\ ~Quiet
    BY <1>12, <2>1, <2>3 DEF Quiet, CountRetry, GiveUp, Answered
  <2>4. CASE GiveUp(w) /\ ~Quiet
    BY <1>12, <2>1, <2>4 DEF CountRetry, GiveUp, Answered
  <2> QED
    BY <1>12, <2>1, <2>2, <2>3, <2>4
<1> QED
  BY <1>13, <1>14 DEF Quiet

(* How a message gets into the queue when none is delivered twice. *)
LEMMA NewMessage ==
    ASSUME Typed, [Next]_vars, OnceDelivered', NEW t \in Tasks,
           queue'[t] > 0, ~(queue[t] > 0)
    PROVE  \/ \E p \in Payments : /\ PublishTask(p)
                                  /\ t = [payment |-> p, retries |-> 0]
           \/ \E w \in Workers : /\ RetryLater(w)
                                 /\ t = [task[w] EXCEPT !.retries = @ + 1]
<1> USE DEF Typed, SystemTypeOK
<1>1. ASSUME NEW u \in Tasks, Enqueue(u)
      PROVE  t = u
  BY <1>1 DEF Enqueue
<1>2. ASSUME NEW p \in Payments, PublishTask(p)
      PROVE  t = [payment |-> p, retries |-> 0]
  <2>1. [payment |-> p, retries |-> 0] \in Tasks
    BY MaxRetriesAssumption DEF Tasks
  <2> QED
    BY <1>1, <1>2, <2>1 DEF PublishTask
<1>3. ASSUME NEW w \in Workers, RetryLater(w)
      PROVE  t = [task[w] EXCEPT !.retries = @ + 1]
  BY <1>1, <1>3, NextAttempt DEF RetryLater
<1>4. ASSUME NEW w \in Workers, TakeTask(w)
      PROVE  FALSE
  BY <1>4 DEF TakeTask, Available
<1>5. ASSUME NEW w \in Workers, WorkerStep(w) \/ LoseTask(w),
             ~TakeTask(w), ~RetryLater(w)
      PROVE  FALSE
  BY <1>5, WorkerKeepsFlight
<1> QED
  BY <1>2, <1>3, <1>4, <1>5, NoSecondDelivery, OutsideFrame
     DEF BrokerFault

(* Before its first transaction a payment has no charge and no retry.      *)
UntouchedYet(p) ==
    /\ p \in unpublished => status[p] = "CREATED"
    /\ status[p] \in {NoRow, "CREATED"} =>
          retryCount[p] = 0 /\ Len(charges[p]) = 0

(* RetriesAccounted for one payment. *)
Accounted(p) ==
    /\ Len(charges[p]) <= retryCount[p] + 1
    /\ retryCount[p] <= MaxRetries + 1
    /\ failure[p] = "RETRIES_EXHAUSTED" => retryCount[p] = MaxRetries + 1

(* The message of an unfinished payment carries the number of retries its  *)
(* row has counted, and none of them left more than one charge.            *)
MessageNumbered(p) ==
    \A t \in Tasks :
        t.payment = p /\ queue[t] > 0 /\ Unfinished(p) =>
            t.retries = retryCount[p] /\ Len(charges[p]) <= retryCount[p]

(* So does the task that runs; between the row's retry and the publication *)
(* of the next message the row is one ahead.                               *)
RunnerNumbered(p) ==
    \A w \in Workers :
        pc[w] # "idle" /\ task[w].payment = p =>
            /\ pc[w] = "call" => Len(charges[p]) <= retryCount[p]
            /\ pc[w] \in {"start", "call", "answered"} /\ Unfinished(p) =>
                  task[w].retries = retryCount[p]
            /\ pc[w] = "retry" /\ Unfinished(p) =>
                  /\ task[w].retries + 1 = retryCount[p]
                  /\ Len(charges[p]) <= retryCount[p]

Numbered(p) ==
    UntouchedYet(p) /\ Accounted(p) /\ MessageNumbered(p) /\ RunnerNumbered(p)

(* The strengthening of RetriesAccounted. *)
Counted == OnceDelivered => \A p \in Payments : Numbered(p)

(* A late message of a payment that is being refunded is charged again     *)
(* (tasks.py:346), whatever number it carries: this excludes it.           *)
NotRefunded ==
    \A p \in Payments : status[p] \notin {"REFUND_PENDING", "REFUNDED"}

(* What the other invariants say while each task is delivered once. *)
Orderly ==
    /\ Typed /\ NotRefunded
    /\ RowFirst /\ FreshStart /\ PastCreated
    /\ \A p \in Payments : Flight(p)

(* The workers whose steps the counts of a payment depend on. *)
LEMMA CountersFly ==
    ASSUME NEW p \in Payments, NEW w \in Workers, task[w].payment = p,
           CallProvider(w) \/ CountRetry(w) \/ GiveUp(w) \/ StartProcessing(w)
             \/ RetryLater(w)
    PROVE  Flies(w, p)
BY DEF Flies, Running, CallProvider, ProviderAnswers, RequestLost, ReplyLost,
       ProviderRejects, ProviderHangsUp, Calling, CountRetry, Answered,
       GiveUp, StartProcessing, RetryLater

(* The first steps of a payment: nothing is charged or counted before      *)
(* StartProcessing, and no message is out before PublishTask.              *)
LEMMA UntouchedStep ==
    ASSUME Orderly, Typed', OnceDelivered', [Next]_vars, NEW p \in Payments,
           UntouchedYet(p)
    PROVE  UntouchedYet(p)'
<1> USE DEF Orderly
<1>1. ASSUME p \in unpublished'
      PROVE  status'[p] = "CREATED"
  <2>1. CASE CreatePayment(p)
    BY <2>1 DEF CreatePayment, InsertPayment, Typed, SystemTypeOK, TableTypeOK
  <2>2. CASE ~CreatePayment(p)
    <3>1. p \in unpublished
      <4>1. ASSUME NEW q \in Payments,
                   \/ CreatePayment(q) \/ Publish(q) \/ ProviderWakes(q)
                   \/ Age(q) \/ \E n \in DOMAIN charges[q] : Webhook(q, n)
            PROVE  p \in unpublished
        BY <1>1, <2>2, <4>1
           DEF CreatePayment, Publish, PublishTask, PublishFails,
               ProviderWakes, Age, Webhook, WebhookDuplicate,
               WebhookAlreadyFinal, WebhookApplies, WebhookConflict,
               WebhookLost, AcceptEvent, WebhookPending
      <4>2. ASSUME NEW w \in Workers, WorkerStep(w) \/ BrokerFault(w)
            PROVE  p \in unpublished
        BY <1>1, <4>2, WorkerFrame
      <4>3. ASSUME NEW r \in Reconcilers,
                   ReconcilerStep(r) \/ ReconcilerCrashes(r)
            PROVE  p \in unpublished
        BY <1>1, <4>3
           DEF ReconcilerStep, Snapshot, Lookup, LookupAnswers,
               LookupNotFound, LookupFails, NextLookup, ApplyFinding,
               ReconcilerCrashes
      <4> QED
        BY <1>1, <4>1, <4>2, <4>3 DEF Next, vars, ProviderRestarts
    <3>2. status[p] = "CREATED" /\ \A w \in Workers : ~Flies(w, p)
      BY <3>1 DEF UntouchedYet, Flight
    <3> QED
      BY <3>2, OnlyStartsWrite, CountersFly DEF Row
  <2> QED
    BY <2>1, <2>2
<1>2. ASSUME status'[p] \in {NoRow, "CREATED"}
      PROVE  retryCount'[p] = 0 /\ Len(charges'[p]) = 0
  <2>1. status[p] \in {NoRow, "CREATED"}
    <3>1. CASE status'[p] = NoRow
      BY <3>1, RowStays
    <3>2. CASE status'[p] = "CREATED"
      <4>1. CASE CreatePayment(p)
        BY <4>1 DEF CreatePayment, InsertPayment
      <4>2. ASSUME NEW w \in Workers, StartProcessing(w), task[w].payment = p
            PROVE  status'[p] = status[p] \/ status'[p] = "PROCESSING"
        BY <4>2 DEF StartProcessing, RecordTransition, Commit, table,
                    Typed, SystemTypeOK, TableTypeOK
      <4> QED
        BY <3>2, <4>1, <4>2, UnfinishedMoves DEF Unfinished
    <3> QED
      BY <1>2, <3>1, <3>2
  <2>2. retryCount[p] = 0 /\ Len(charges[p]) = 0
    BY <2>1 DEF UntouchedYet
  <2>3. ~ \E w \in Workers : CallProvider(w) /\ task[w].payment = p
    BY <2>1 DEF PastCreated, RowFirst, CallProvider, ProviderAnswers,
                RequestLost, ReplyLost, ProviderRejects, ProviderHangsUp,
                Calling
  <2> QED
    BY <2>1, <2>2, <2>3, ChargesCounted, RetriesCounted DEF NoRow
<1> QED
  BY <1>1, <1>2 DEF UntouchedYet

(* A charge follows a retry that was counted, and retries are exhausted    *)
(* when the last of them was counted.                                      *)
LEMMA AccountedStep ==
    ASSUME Orderly, Typed', [Next]_vars, NEW p \in Payments,
           Accounted(p), RunnerNumbered(p)
    PROVE  Accounted(p)'
<1> USE DEF Orderly
<1>0. /\ Len(charges[p]) \in Nat /\ Len(charges'[p]) \in Nat
      /\ retryCount[p] \in Nat /\ retryCount'[p] \in Nat
  <2>1. charges[p] \in Seq(Charges) /\ charges'[p] \in Seq(Charges)
    BY DEF Typed, SystemTypeOK
  <2> QED
    BY <2>1 DEF Typed, SystemTypeOK, TableTypeOK
<1>1. retryCount'[p] \in {retryCount[p], retryCount[p] + 1}
  BY RetriesCounted
<1>2. Len(charges'[p]) <= retryCount'[p] + 1
  <2>1. CASE Len(charges'[p]) = Len(charges[p])
    BY <1>0, <1>1, <2>1 DEF Accounted
  <2>2. ASSUME NEW w \in Workers, CallProvider(w), task[w].payment = p,
               Len(charges'[p]) = Len(charges[p]) + 1
        PROVE  Len(charges'[p]) <= retryCount'[p] + 1
    <3>1. pc[w] = "call"
      BY <2>2 DEF CallProvider, ProviderAnswers, RequestLost, ReplyLost,
                  ProviderRejects, ProviderHangsUp, Calling
    <3>2. Len(charges[p]) <= retryCount[p]
      BY <2>2, <3>1 DEF RunnerNumbered
    <3> QED
      BY <1>0, <1>1, <2>2, <3>2
  <2> QED
    BY <2>1, <2>2, ChargesCounted
<1>3. retryCount'[p] <= MaxRetries + 1
  <2>1. CASE retryCount'[p] = retryCount[p]
    BY <2>1 DEF Accounted
  <2>2. ASSUME NEW w \in Workers, CountRetry(w), task[w].payment = p,
               status[p] = "PROCESSING", retryCount'[p] = retryCount[p] + 1
        PROVE  retryCount'[p] <= MaxRetries + 1
    <3>1. pc[w] = "answered" /\ Unfinished(p)
      BY <2>2 DEF CountRetry, Answered, Unfinished
    <3>2. task[w].retries = retryCount[p] /\ task[w].retries \in 0 .. MaxRetries
      BY <2>2, <3>1 DEF RunnerNumbered, Typed, SystemTypeOK, Tasks
    <3> QED
      BY <1>0, <2>2, <3>2, MaxRetriesAssumption
  <2> QED
    BY <2>1, <2>2, RetriesCounted
<1>4. ASSUME failure'[p] = "RETRIES_EXHAUSTED"
      PROVE  retryCount'[p] = MaxRetries + 1
  <2>1. retryCount'[p] = retryCount[p]
    BY <1>4, RetriesCounted
  <2>2. CASE failure[p] = "RETRIES_EXHAUSTED"
    BY <2>1, <2>2 DEF Accounted
  <2>3. ASSUME NEW w \in Workers, GiveUp(w), task[w].payment = p,
               status[p] = "PROCESSING"
        PROVE  retryCount[p] = MaxRetries + 1
    <3>1. pc[w] = "retry" /\ ~RetriesLeft(task[w]) /\ Unfinished(p)
      BY <2>3 DEF GiveUp, Unfinished
    <3>2. /\ task[w].retries + 1 = retryCount[p]
          /\ task[w].retries \in 0 .. MaxRetries
      BY <2>3, <3>1 DEF RunnerNumbered, Typed, SystemTypeOK, Tasks
    <3> QED
      BY <3>1, <3>2, MaxRetriesAssumption DEF RetriesLeft
  <2> QED
    BY <1>4, <2>1, <2>2, <2>3, RetriesCounted
<1> QED
  BY <1>2, <1>3, <1>4 DEF Accounted

(* While a message waits nobody charges or counts, and a new message takes *)
(* over the number of the task that publishes it.                          *)
LEMMA MessageStep ==
    ASSUME Orderly, Typed', OnceDelivered', [Next]_vars, NEW p \in Payments,
           Numbered(p)
    PROVE  MessageNumbered(p)'
<1> USE DEF Orderly
<1> SUFFICES ASSUME NEW t \in Tasks, t.payment = p, queue'[t] > 0,
                    Unfinished(p)'
             PROVE  /\ t.retries = retryCount'[p]
                    /\ Len(charges'[p]) <= retryCount'[p]
  BY DEF MessageNumbered
<1>1. CASE queue[t] > 0
  <2>1. \A w \in Workers : ~Flies(w, p)
    BY <1>1 DEF Flight
  <2>2. Unfinished(p)
    <3>1. ~CreatePayment(p)
      BY <1>1 DEF RowFirst, CreatePayment, InsertPayment
    <3>2. status'[p] = status[p]
      BY <2>1, <3>1, UnfinishedMoves, CountersFly
    <3> QED
      BY <3>2 DEF Unfinished
  <2>3. Len(charges'[p]) = Len(charges[p])
    BY <2>1, ChargesCounted, CountersFly
  <2>4. retryCount'[p] = retryCount[p]
    BY <2>1, RetriesCounted, CountersFly
  <2> QED
    BY <1>1, <2>2, <2>3, <2>4 DEF Numbered, MessageNumbered
<1>2. ASSUME NEW q \in Payments, PublishTask(q),
             t = [payment |-> q, retries |-> 0]
      PROVE  /\ t.retries = retryCount'[p]
             /\ Len(charges'[p]) <= retryCount'[p]
  <2>1. UNCHANGED <<retryCount, charges>> /\ p \in unpublished
    BY <1>2 DEF PublishTask, table
  <2>2. retryCount[p] = 0 /\ Len(charges[p]) = 0
    BY <2>1 DEF Numbered, UntouchedYet
  <2> QED
    BY <1>2, <2>1, <2>2
<1>3. ASSUME NEW w \in Workers, RetryLater(w),
             t = [task[w] EXCEPT !.retries = @ + 1]
      PROVE  /\ t.retries = retryCount'[p]
             /\ Len(charges'[p]) <= retryCount'[p]
  <2>1. UNCHANGED <<status, retryCount, charges>> /\ pc[w] = "retry"
    BY <1>3 DEF RetryLater, table
  <2>2. task[w] \in Tasks
    BY <2>1 DEF Typed, SystemTypeOK
  <2>3. t.payment = task[w].payment /\ t.retries = task[w].retries + 1
    BY <1>3, <2>2 DEF Tasks
  <2>4. /\ task[w].retries + 1 = retryCount[p]
        /\ Len(charges[p]) <= retryCount[p]
    BY <2>1, <2>3 DEF Numbered, RunnerNumbered, Unfinished
  <2> QED
    BY <2>1, <2>3, <2>4
<1> QED
  BY <1>1, <1>2, <1>3, NewMessage

(* How a worker that is past taking its task goes on. *)
LEMMA RunnerMoves ==
    ASSUME Typed, OnceDelivered', [Next]_vars, NEW w \in Workers,
           pc'[w] \in {"start", "call", "answered", "retry"}, ~TakeTask(w)
    PROVE  /\ task'[w] = task[w] /\ pc[w] # "idle"
           /\ \/ /\ pc'[w] = pc[w]
                 /\ ~StartProcessing(w) /\ ~CallProvider(w) /\ ~CountRetry(w)
              \/ StartProcessing(w) /\ pc[w] = "start" /\ pc'[w] = "call"
              \/ CallProvider(w) /\ pc[w] = "call" /\ pc'[w] = "answered"
              \/ CountRetry(w) /\ pc[w] = "answered" /\ pc'[w] = "retry"
<1> USE DEF Typed, SystemTypeOK, Goto
<1>1. /\ StartProcessing(w) => pc[w] = "start" /\ pc'[w] \in {"call", "ack"}
      /\ CallProvider(w) => pc[w] = "call" /\ pc'[w] \in {"answered", "ack"}
      /\ CountRetry(w) => pc[w] = "answered" /\ pc'[w] = "retry"
      /\ Finish(w) /\ ~CountRetry(w) => pc'[w] = "ack"
  BY DEF StartProcessing, CallProvider, ProviderAnswers, RequestLost,
         ReplyLost, ProviderRejects, ProviderHangsUp, Calling, Return,
         Finish, FinishSucceeded, AwaitWebhook, FinishDeclined,
         FinishRejected, CountRetry, RetryLater, GiveUp, Answered
<1>2. ~(Acknowledge(w) \/ LoseTask(w) \/ BrokerFault(w))
  BY NoSecondDelivery DEF Acknowledge, LoseTask, BrokerFault, Release
<1>3. ASSUME WorkerStep(w) \/ BrokerFault(w)
      PROVE  task'[w] = task[w] /\ pc[w] # "idle"
  BY <1>3, WorkerFrame
<1>4. ASSUME NEW v \in Workers, v # w, WorkerStep(v) \/ BrokerFault(v)
      PROVE  pc'[w] = pc[w] /\ task'[w] = task[w]
  BY <1>4, WorkerFrame
<1>5. CASE WorkerStep(w) \/ BrokerFault(w)
  BY <1>1, <1>2, <1>3, <1>5 DEF WorkerStep
<1>6. CASE ~(WorkerStep(w) \/ BrokerFault(w))
  <2>1. pc'[w] = pc[w] /\ task'[w] = task[w]
    BY <1>4, <1>6, OutsideFrame
  <2> QED
    BY <1>6, <2>1 DEF WorkerStep, Finish
<1> QED
  BY <1>5, <1>6

(* The number of the task that runs goes with the counts of its payment.   *)
LEMMA RunnerStep ==
    ASSUME Orderly, Typed', OnceDelivered', [Next]_vars, NEW p \in Payments,
           Numbered(p)
    PROVE  RunnerNumbered(p)'
<1> USE DEF Orderly
<1> SUFFICES ASSUME NEW w \in Workers, task'[w].payment = p,
                    pc'[w] \in {"start", "call", "answered", "retry"}
             PROVE  /\ pc'[w] = "call" => Len(charges'[p]) <= retryCount'[p]
                    /\ pc'[w] \in {"start", "call", "answered"}
                         /\ Unfinished(p)' =>
                          task'[w].retries = retryCount'[p]
                    /\ pc'[w] = "retry" /\ Unfinished(p)' =>
                          /\ task'[w].retries + 1 = retryCount'[p]
                          /\ Len(charges'[p]) <= retryCount'[p]
  BY DEF RunnerNumbered
<1>0. /\ Len(charges[p]) \in Nat /\ retryCount[p] \in Nat
  <2>1. charges[p] \in Seq(Charges)
    BY DEF Typed, SystemTypeOK
  <2> QED
    BY <2>1 DEF Typed, SystemTypeOK, TableTypeOK
<1>1. CASE TakeTask(w)
  <2>1. PICK t \in Tasks : /\ queue[t] > 0
                           /\ task' = [task EXCEPT ![w] = t]
                           /\ Goto(w, Entry(t.payment))
    BY <1>1 DEF TakeTask, Available
  <2>2. task'[w] = t /\ pc'[w] = Entry(p) /\ t.payment = p
    BY <2>1 DEF Typed, SystemTypeOK, Goto
  <2>3. UNCHANGED <<status, retryCount, charges>>
    BY <1>1 DEF TakeTask, table
  <2>4. pc'[w] \in {"start", "call"} /\ Unfinished(p)
    BY <2>1, <2>2 DEF NotRefunded, Entry, RowFirst, Typed, SystemTypeOK,
                      TableTypeOK, Statuses, Unfinished
  <2>5. t.retries = retryCount[p] /\ Len(charges[p]) <= retryCount[p]
    BY <2>1, <2>2, <2>4 DEF Numbered, MessageNumbered
  <2> QED
    BY <2>2, <2>3, <2>4, <2>5
<1>2. CASE ~TakeTask(w)
  <2>1. /\ task'[w] = task[w] /\ pc[w] # "idle" /\ task[w].payment = p
        /\ \/ /\ pc'[w] = pc[w]
              /\ ~StartProcessing(w) /\ ~CallProvider(w) /\ ~CountRetry(w)
           \/ StartProcessing(w) /\ pc[w] = "start" /\ pc'[w] = "call"
           \/ CallProvider(w) /\ pc[w] = "call" /\ pc'[w] = "answered"
           \/ CountRetry(w) /\ pc[w] = "answered" /\ pc'[w] = "retry"
    BY <1>2, RunnerMoves
  <2>2. ASSUME NEW v \in Workers, Flies(v, p)
        PROVE  v = w
    <3>1. Flies(w, p)
      BY <2>1 DEF Flies, Running
    <3> QED
      BY <2>2, <3>1 DEF Flight
  <2>3. ~CallProvider(w) => Len(charges'[p]) = Len(charges[p])
    BY <2>2, ChargesCounted, CountersFly
  <2>4. ~CountRetry(w) => retryCount'[p] = retryCount[p]
    BY <2>2, RetriesCounted, CountersFly
  <2>5. Unfinished(p)' /\ ~StartProcessing(w) => Unfinished(p)
    <3>1. ~CreatePayment(p)
      BY <2>1 DEF RowFirst, CreatePayment, InsertPayment
    <3> QED
      BY <2>2, <3>1, UnfinishedMoves, CountersFly DEF Unfinished
  <2>6. /\ pc[w] = "call" => Len(charges[p]) <= retryCount[p]
        /\ pc[w] \in {"start", "call", "answered"} /\ Unfinished(p) =>
              task[w].retries = retryCount[p]
        /\ pc[w] = "retry" /\ Unfinished(p) =>
              /\ task[w].retries + 1 = retryCount[p]
              /\ Len(charges[p]) <= retryCount[p]
    BY <2>1 DEF Numbered, RunnerNumbered
  <2>7. CASE pc'[w] = pc[w] /\ ~StartProcessing(w) /\ ~CallProvider(w)
             /\ ~CountRetry(w)
    BY <2>1, <2>3, <2>4, <2>5, <2>6, <2>7
  <2>8. CASE StartProcessing(w) /\ pc[w] = "start" /\ pc'[w] = "call"
    <3>1. /\ Len(charges'[p]) = Len(charges[p])
          /\ retryCount'[p] = retryCount[p]
      BY <2>3, <2>4, <2>8
         DEF StartProcessing, CallProvider, ProviderAnswers, RequestLost,
             ReplyLost, ProviderRejects, ProviderHangsUp, Calling,
             CountRetry, Answered
    <3>2. status[p] = "CREATED"
      BY <2>1, <2>8 DEF FreshStart
    <3>3. retryCount[p] = 0 /\ Len(charges[p]) = 0 /\ Unfinished(p)
      BY <3>2 DEF Numbered, UntouchedYet, Unfinished
    <3> QED
      BY <2>1, <2>6, <2>8, <3>1, <3>3
  <2>9. CASE CallProvider(w) /\ pc[w] = "call" /\ pc'[w] = "answered"
    <3>1. retryCount'[p] = retryCount[p] /\ ~StartProcessing(w)
      BY <2>4, <2>9 DEF CountRetry, Answered, StartProcessing
    <3> QED
      BY <2>1, <2>5, <2>6, <2>9, <3>1
  <2>10. CASE CountRetry(w) /\ pc[w] = "answered" /\ pc'[w] = "retry"
    <3>1. Len(charges'[p]) = Len(charges[p]) /\ ~StartProcessing(w)
      BY <2>3, <2>10
         DEF CallProvider, ProviderAnswers, RequestLost, ReplyLost,
             ProviderRejects, ProviderHangsUp, Calling, StartProcessing
    <3>2. Len(charges[p]) <= retryCount[p] + 1
      BY DEF Numbered, Accounted
    <3>3. ASSUME Unfinished(p)'
          PROVE  retryCount'[p] = retryCount[p] + 1 /\ Unfinished(p)
      <4>1. Unfinished(p) /\ status[p] # "CREATED"
        BY <2>1, <2>5, <2>10, <3>1, <3>3 DEF PastCreated
      <4> QED
        BY <2>1, <2>10, <4>1 DEF CountRetry, RecordRetry, Unfinished,
                                 Typed, SystemTypeOK, TableTypeOK
    <3> QED
      BY <1>0, <2>1, <2>6, <2>10, <3>1, <3>2, <3>3
  <2> QED
    BY <2>1, <2>7, <2>8, <2>9, <2>10
<1> QED
  BY <1>1, <1>2

(* Nothing has been counted when the system starts. *)
LEMMA InitCounted == Init => Counted
<1> SUFFICES ASSUME Init, NEW p \in Payments
             PROVE  Numbered(p)
  BY DEF Counted
<1>1. /\ status[p] = NoRow /\ retryCount[p] = 0 /\ failure[p] = NoCode
      /\ charges[p] = <<>> /\ unpublished = {}
      /\ \A t \in Tasks : ~(queue[t] > 0)
      /\ \A w \in Workers : pc[w] = "idle"
  BY DEF Init, TableInit
<1> QED
  BY <1>1, MaxRetriesAssumption
     DEF Numbered, UntouchedYet, Accounted, MessageNumbered, RunnerNumbered,
         NoCode

(* As long as the broker delivers each message once, the numbers the       *)
(* messages carry, the retries the rows count and the charges the provider *)
(* holds go together, through every timeout, lost reply and late webhook.  *)
THEOREM AlwaysCounted == Spec => []Counted
<1>1. /\ Typed /\ Typed' /\ NotRefunded
      /\ OneAtATime /\ Owned /\ Counted /\ [Next]_vars
      => Counted'
  <2> SUFFICES ASSUME Typed, Typed', NotRefunded, OneAtATime, Owned, Counted,
                      [Next]_vars, OnceDelivered', NEW p \in Payments
               PROVE  Numbered(p)'
    BY DEF Counted
  <2>1. OnceDelivered
    BY StaysOnceDelivered
  <2>2. Orderly
    BY <2>1, FlightIsSingle DEF Orderly, OneAtATime, Owned
  <2>3. Numbered(p)
    BY <2>1 DEF Counted
  <2>4. UntouchedYet(p)' /\ Accounted(p)'
    BY <2>2, <2>3, UntouchedStep, AccountedStep DEF Numbered
  <2>5. MessageNumbered(p)' /\ RunnerNumbered(p)'
    BY <2>2, <2>3, MessageStep, RunnerStep
  <2> QED
    BY <2>4, <2>5 DEF Numbered
<1>2. TypeOK => Typed /\ NotRefunded
  BY TypedSplit DEF NotRefunded
<1> QED
  BY <1>1, <1>2, InitCounted, TypeCorrect, OneTaskAtATime, NeverOrphaned, PTL
     DEF Spec

(* What it says of the records: a customer is charged at most once more    *)
(* than the row has retries, and a payment fails as RETRIES_EXHAUSTED      *)
(* (tasks.py:404) only after every retry it was due.                       *)
THEOREM RetriesAlwaysAccounted == Spec => []RetriesAccounted
<1>1. Counted => RetriesAccounted
  BY DEF Counted, Numbered, Accounted, RetriesAccounted
<1> QED
  BY <1>1, AlwaysCounted, PTL
=============================================================================
