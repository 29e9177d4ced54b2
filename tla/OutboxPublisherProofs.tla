----------------------- MODULE OutboxPublisherProofs ------------------------
(***************************************************************************)
(* Proofs about OutboxPublisher, for any number of events and of runs at   *)
(* once, any batch size and any number of failures.                        *)
(***************************************************************************)
EXTENDS OutboxPublisher, TLAPS

(* What the proofs carry along: the marks of the committed rows too. *)
IInv ==
    /\ TypeOK
    /\ RowsHeldOnce
    /\ MarkedAfterSent
    /\ DuplicatesAccounted

LEMMA InitInductive == Init => IInv
<1> SUFFICES ASSUME Init PROVE IInv
  OBVIOUS
<1>1. TypeOK
  BY DEF Init, TypeOK
<1>2. RowsHeldOnce
  BY DEF Init, RowsHeldOnce, Locked
<1>3. MarkedAfterSent
  BY DEF Init, MarkedAfterSent
<1>4. DuplicatesAccounted
  BY DEF Init, DuplicatesAccounted, UnderWay
<1> QED
  BY <1>1, <1>2, <1>3, <1>4 DEF IInv

(* A selection takes pending rows that nobody holds. *)
LEMMA SelectSteps ==
    ASSUME IInv, NEW w \in Publishers, Select(w)
    PROVE  IInv'
<1>1. PICK batch \in SUBSET Due : todo' = [todo EXCEPT ![w] = batch]
  BY DEF Select
<1>2. /\ batch \subseteq Events
      /\ \A e \in batch : row[e] = "PENDING"
      /\ \A e \in batch : \A v \in Publishers : e \notin Locked(v)
  BY DEF Due, Unlocked, IInv, TypeOK
<1>3. TypeOK'
  BY <1>1, <1>2 DEF IInv, TypeOK, Select
<1>4. /\ Locked(w)' = batch
      /\ added[w] = {} /\ putOff[w] = {}
      /\ \A v \in Publishers : v # w => Locked(v)' = Locked(v)
  BY <1>1 DEF Select, Locked, Running, IInv, TypeOK
<1>5. RowsHeldOnce'
  <2>1. \A u, v \in Publishers : u # v => Locked(u)' \cap Locked(v)' = {}
    BY <1>2, <1>4 DEF IInv, RowsHeldOnce
  <2>2. ASSUME NEW v \in Publishers
        PROVE  /\ todo'[v] \cap (added'[v] \cup putOff'[v]) = {}
               /\ \A e \in Locked(v)' : row'[e] = "PENDING"
               /\ \A e \in added'[v] : stream'[e] > 0
    BY <1>1, <1>2, <1>4 DEF IInv, TypeOK, RowsHeldOnce, Select
  <2> QED
    BY <2>1, <2>2 DEF RowsHeldOnce
<1>6. MarkedAfterSent' /\ DuplicatesAccounted'
  BY DEF IInv, MarkedAfterSent, DuplicatesAccounted, UnderWay, Select
<1> QED
  BY <1>3, <1>5, <1>6 DEF IInv

(* A row that a run has still to handle is under way nowhere. *)
LEMMA NotUnderWay ==
    ASSUME IInv, NEW w \in Publishers, NEW e \in todo[w]
    PROVE  ~UnderWay(e) /\ e \in Events /\ row[e] = "PENDING"
BY DEF IInv, TypeOK, RowsHeldOnce, UnderWay, Locked

(* The loop handles one row: it was sent, or it will be put off. *)
LEMMA HandleSteps ==
    ASSUME IInv, NEW w \in Publishers, NEW e \in todo[w],
           todo' = [todo EXCEPT ![w] = @ \ {e}],
           \/ /\ added' = [added EXCEPT ![w] = @ \cup {e}]
              /\ AddToStream(e)
              /\ UNCHANGED putOff
           \/ /\ putOff' = [putOff EXCEPT ![w] = @ \cup {e}]
              /\ AddToStream(e) \/ UNCHANGED stream
              /\ UNCHANGED added,
           failures' \in Nat,
           UNCHANGED <<row, attempts, available, aborts>>
    PROVE  IInv'
<1>1. e \in Events /\ ~UnderWay(e) /\ row[e] = "PENDING"
  BY NotUnderWay
<1>2. \A f \in Events :
        /\ f # e => stream'[f] = stream[f]
        /\ stream'[f] \in {stream[f], stream[f] + 1}
        /\ e \in added'[w] => stream'[e] > 0
  BY <1>1 DEF AddToStream, IInv, TypeOK, UnderWay
<1>3. TypeOK'
  <2>1. stream' \in [Events -> Nat]
    BY <1>1 DEF AddToStream, IInv, TypeOK
  <2> QED
    BY <1>1, <2>1 DEF IInv, TypeOK
<1>4. \A v \in Publishers : Locked(v)' = Locked(v)
  BY DEF Locked, IInv, TypeOK
<1>5. RowsHeldOnce'
  <2>1. ASSUME NEW v \in Publishers
        PROVE  todo'[v] \cap (added'[v] \cup putOff'[v]) = {}
    BY DEF IInv, TypeOK, RowsHeldOnce
  <2>2. ASSUME NEW v \in Publishers, NEW f \in added'[v]
        PROVE  stream'[f] > 0
    <3>1. CASE f = e
      <4>1. e \in Locked(w)' /\ e \in Locked(v)'
        BY <2>2, <3>1, <1>4 DEF Locked
      <4>2. v = w
        BY <4>1, <1>4 DEF IInv, RowsHeldOnce
      <4> QED
        BY <1>1, <1>2, <2>2, <3>1, <4>2
    <3>2. CASE f # e
      <4>1. f \in added[v] /\ f \in Events
        BY <2>2, <3>2 DEF IInv, TypeOK
      <4> QED
        BY <1>2, <3>2, <4>1 DEF IInv, RowsHeldOnce
    <3> QED
      BY <3>1, <3>2
  <2> QED
    BY <1>4, <2>1, <2>2 DEF IInv, RowsHeldOnce
<1>6. MarkedAfterSent'
  BY <1>2 DEF IInv, TypeOK, MarkedAfterSent
<1>7. DuplicatesAccounted'
  <2> SUFFICES ASSUME NEW f \in Events
               PROVE  stream'[f] <= attempts[f] + aborts
                                    + (IF UnderWay(f)' THEN 1 ELSE 0)
    BY DEF DuplicatesAccounted
  <2>1. stream[f] <= attempts[f] + aborts
                     + (IF UnderWay(f) THEN 1 ELSE 0)
    BY DEF IInv, DuplicatesAccounted
  <2>2. CASE f = e
    <3>1. UnderWay(e)'
      BY DEF UnderWay, IInv, TypeOK
    <3> QED
      BY <1>1, <1>2, <2>1, <2>2, <3>1 DEF IInv, TypeOK
  <2>3. CASE f # e
    <3>1. UnderWay(f)' = UnderWay(f)
      BY <2>3 DEF UnderWay, IInv, TypeOK
    <3> QED
      BY <1>2, <2>1, <2>3, <3>1
  <2> QED
    BY <2>2, <2>3
<1> QED
  BY <1>3, <1>5, <1>6, <1>7 DEF IInv

(* A transaction is lost, perhaps just after a row it had still to handle  *)
(* was sent.                                                               *)
LEMMA AbortSteps ==
    ASSUME IInv, NEW w \in Publishers, Abort(w),
           UNCHANGED stream \/ \E e \in todo[w] : AddToStream(e),
           failures' \in Nat,
           UNCHANGED <<row, attempts, available>>
    PROVE  IInv'
<1>1. \A f \in Events :
        \/ stream'[f] = stream[f]
        \/ stream'[f] = stream[f] + 1 /\ ~UnderWay(f)
  <2>1. ASSUME NEW e \in todo[w], AddToStream(e), NEW f \in Events
        PROVE  \/ stream'[f] = stream[f]
               \/ stream'[f] = stream[f] + 1 /\ ~UnderWay(f)
    BY <2>1, NotUnderWay DEF AddToStream, IInv, TypeOK
  <2> QED
    BY <2>1
<1>2. TypeOK'
  <2>1. stream' \in [Events -> Nat]
    BY NotUnderWay DEF AddToStream, IInv, TypeOK
  <2> QED
    BY <2>1 DEF Abort, IInv, TypeOK
<1>3. \A v \in Publishers :
        /\ todo'[v] \in {todo[v], {}}
        /\ \/ added'[v] = added[v] /\ putOff'[v] = putOff[v]
           \/ v = w /\ added'[v] = {} /\ putOff'[v] = {}
        /\ Locked(v)' \subseteq Locked(v)
  BY DEF Abort, Locked, IInv, TypeOK
<1>4. RowsHeldOnce'
  <2>1. \A u, v \in Publishers : u # v => Locked(u)' \cap Locked(v)' = {}
    BY <1>3 DEF IInv, RowsHeldOnce
  <2>2. ASSUME NEW v \in Publishers
        PROVE  /\ todo'[v] \cap (added'[v] \cup putOff'[v]) = {}
               /\ \A e \in Locked(v)' : row'[e] = "PENDING"
    BY <1>3 DEF IInv, RowsHeldOnce
  <2>3. ASSUME NEW v \in Publishers, NEW e \in added'[v]
        PROVE  stream'[e] > 0
    <3>1. e \in added[v] /\ e \in Events
      BY <1>3, <2>3 DEF IInv, TypeOK
    <3>2. stream[e] > 0 /\ stream[e] \in Nat
      BY <3>1 DEF IInv, TypeOK, RowsHeldOnce
    <3> QED
      BY <1>1, <3>1, <3>2
  <2> QED
    BY <2>1, <2>2, <2>3 DEF RowsHeldOnce
<1>5. MarkedAfterSent'
  BY <1>1 DEF IInv, TypeOK, MarkedAfterSent
<1>6. DuplicatesAccounted'
  <2> SUFFICES ASSUME NEW f \in Events
               PROVE  stream'[f] <= attempts[f] + aborts'
                                    + (IF UnderWay(f)' THEN 1 ELSE 0)
    BY DEF DuplicatesAccounted
  <2>1. stream[f] <= attempts[f] + aborts
                     + (IF UnderWay(f) THEN 1 ELSE 0)
    BY DEF IInv, DuplicatesAccounted
  <2>2. aborts' = aborts + 1
    BY DEF Abort
  <2> QED
    BY <1>1, <2>1, <2>2 DEF IInv, TypeOK
<1> QED
  BY <1>2, <1>4, <1>5, <1>6 DEF IInv

(* The end of a run: what was sent is marked, every attempt is counted. *)
LEMMA CommitSteps ==
    ASSUME IInv, NEW w \in Publishers, Commit(w)
    PROVE  IInv'
<1>1. TypeOK'
  BY DEF Commit, IInv, TypeOK
<1>2. /\ Locked(w)' = {}
      /\ \A v \in Publishers :
           /\ v # w => Locked(v)' = Locked(v)
           /\ v # w => added'[v] = added[v] /\ putOff'[v] = putOff[v]
  BY DEF Commit, Locked, IInv, TypeOK
<1>3. RowsHeldOnce'
  <2>1. \A u, v \in Publishers : u # v => Locked(u)' \cap Locked(v)' = {}
    BY <1>2 DEF IInv, RowsHeldOnce
  <2>2. ASSUME NEW v \in Publishers, v # w
        PROVE  /\ todo'[v] \cap (added'[v] \cup putOff'[v]) = {}
               /\ \A e \in added'[v] : stream'[e] > 0
    BY <1>2, <2>2 DEF IInv, RowsHeldOnce, Commit
  <2>3. ASSUME NEW v \in Publishers, v # w, NEW e \in Locked(v)'
        PROVE  row'[e] = "PENDING"
    <3>1. e \in Locked(v) /\ e \notin added[w] /\ e \in Events
      BY <1>2, <2>3 DEF IInv, RowsHeldOnce, Locked, TypeOK
    <3> QED
      BY <3>1 DEF Commit, IInv, RowsHeldOnce
  <2>4. todo'[w] = {} /\ added'[w] = {} /\ putOff'[w] = {}
    BY <1>2 DEF Locked
  <2> QED
    BY <1>2, <2>1, <2>2, <2>3, <2>4 DEF RowsHeldOnce
<1>4. MarkedAfterSent'
  BY DEF Commit, IInv, TypeOK, MarkedAfterSent, RowsHeldOnce
<1>5. DuplicatesAccounted'
  <2> SUFFICES ASSUME NEW f \in Events
               PROVE  stream[f] <= attempts'[f] + aborts
                                   + (IF UnderWay(f)' THEN 1 ELSE 0)
    BY DEF DuplicatesAccounted, Commit
  <2>1. stream[f] <= attempts[f] + aborts
                     + (IF UnderWay(f) THEN 1 ELSE 0)
    BY DEF IInv, DuplicatesAccounted
  <2>2. CASE f \in added[w] \cup putOff[w]
    <3>1. attempts'[f] = attempts[f] + 1
      BY <2>2 DEF Commit
    <3> QED
      BY <2>1, <3>1 DEF IInv, TypeOK
  <2>3. CASE f \notin added[w] \cup putOff[w]
    <3>1. attempts'[f] = attempts[f]
      BY <2>3 DEF Commit
    <3>2. UnderWay(f)' = UnderWay(f)
      <4>1. added'[w] = {} /\ putOff'[w] = {}
        BY <1>2 DEF Locked
      <4> QED
        BY <1>2, <2>3, <4>1 DEF UnderWay
    <3> QED
      BY <2>1, <3>1, <3>2
  <2> QED
    BY <2>2, <2>3
<1> QED
  BY <1>1, <1>3, <1>4, <1>5 DEF IInv

(* A new row, or the end of a back-off. *)
LEMMA ArrivalSteps ==
    ASSUME IInv, NEW e \in Events, CommitEvent(e) \/ BecomeAvailable(e)
    PROVE  IInv'
<1>1. \A f \in Events :
        /\ row[f] = "PENDING" => row'[f] = "PENDING"
        /\ row'[f] = "PUBLISHED" => row[f] = "PUBLISHED"
  BY DEF CommitEvent, BecomeAvailable, IInv, TypeOK
<1>2. UNCHANGED <<attempts, todo, added, putOff, stream, failures, aborts>>
  BY DEF CommitEvent, BecomeAvailable
<1>3. TypeOK'
  BY DEF CommitEvent, BecomeAvailable, IInv, TypeOK
<1>4. RowsHeldOnce'
  <2>1. \A v \in Publishers : Locked(v)' = Locked(v) /\ Locked(v) \subseteq Events
    BY <1>2 DEF Locked, IInv, TypeOK
  <2> QED
    BY <1>1, <1>2, <2>1 DEF IInv, RowsHeldOnce
<1>5. MarkedAfterSent' /\ DuplicatesAccounted'
  BY <1>1, <1>2 DEF IInv, MarkedAfterSent, DuplicatesAccounted, UnderWay
<1> QED
  BY <1>3, <1>4, <1>5 DEF IInv

(* Every step keeps the invariant. *)
LEMMA StepInductive == IInv /\ [Next]_vars => IInv'
<1> SUFFICES ASSUME IInv, [Next]_vars PROVE IInv'
  OBVIOUS
<1>1. ASSUME NEW e \in Events, CommitEvent(e) \/ BecomeAvailable(e)
      PROVE  IInv'
  BY <1>1, ArrivalSteps
<1>2. ASSUME NEW w \in Publishers, Select(w) PROVE IInv'
  BY <1>2, SelectSteps
<1>3. ASSUME NEW w \in Publishers, Commit(w) PROVE IInv'
  BY <1>3, CommitSteps
<1>4. ASSUME NEW w \in Publishers, NEW e \in Events, Publish(w, e)
      PROVE  IInv'
  BY <1>4, HandleSteps DEF Publish, IsNext, IInv, TypeOK
<1>5. ASSUME NEW w \in Publishers, NEW e \in Events, PublishFails(w, e)
      PROVE  IInv'
  <2>1. e \in todo[w] /\ failures' \in Nat
    BY <1>5 DEF PublishFails, IsNext, IInv, TypeOK
  <2>2. CASE Abort(w)
    BY <1>5, <2>1, <2>2, AbortSteps DEF PublishFails
  <2>3. CASE ~Abort(w)
    BY <1>5, <2>1, <2>3, HandleSteps DEF PublishFails, PutOff
  <2> QED
    BY <2>2, <2>3
<1>6. ASSUME NEW w \in Publishers, Lose(w) PROVE IInv'
  BY <1>6, AbortSteps DEF Lose, IInv, TypeOK
<1>7. CASE UNCHANGED vars
  BY <1>7 DEF vars, IInv, TypeOK, RowsHeldOnce, Locked, MarkedAfterSent,
              DuplicatesAccounted, UnderWay
<1> QED
  BY <1>1, <1>2, <1>3, <1>4, <1>5, <1>6, <1>7 DEF Next, Run

LEMMA Inductive == Spec => []IInv
BY InitInductive, StepInductive, PTL DEF Spec

(* Every variable keeps its type, whatever is lost. *)
THEOREM OutboxTypeCorrect == Spec => []TypeOK
<1>1. IInv => TypeOK
  BY DEF IInv
<1> QED
  BY <1>1, Inductive, PTL

(* FOR UPDATE SKIP LOCKED gives each pending row to one run at a time,     *)
(* however the runs of the beat overlap (outbox_publisher.py:47).          *)
THEOREM RowsAlwaysHeldOnce == Spec => []RowsHeldOnce
<1>1. IInv => RowsHeldOnce
  BY DEF IInv
<1> QED
  BY <1>1, Inductive, PTL

(* A record is marked as published only after its publication succeeded,   *)
(* whatever is lost and however many runs overlap (README.md:207).         *)
THEOREM AlwaysMarkedAfterSent == Spec => []MarkedAfterSent
<1>1. IInv => MarkedAfterSent
  BY DEF IInv
<1> QED
  BY <1>1, Inductive, PTL

(* Every copy of an event in the stream is one of its recorded attempts, a *)
(* lost transaction, or the attempt under way: overlapping runs add none.  *)
THEOREM DuplicatesAlwaysAccounted == Spec => []DuplicatesAccounted
<1>1. IInv => DuplicatesAccounted
  BY DEF IInv
<1> QED
  BY <1>1, Inductive, PTL
=============================================================================
