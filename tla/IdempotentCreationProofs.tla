---------------------- MODULE IdempotentCreationProofs ----------------------
(***************************************************************************)
(* Proofs about IdempotentCreation, for any number of requests, keys and   *)
(* contents and whatever Redis, the database, the broker and the API       *)
(* processes do.                                                           *)
(***************************************************************************)
EXTENDS IdempotentCreation, TLAPS

IInv == TypeOK /\ Bookkeeping

(* The rows, answers and messages that the properties speak of. *)
records == <<sent, rows, outcome, published>>

(* A step that only moves a request from one undecided place to another,   *)
(* or only touches the lock.                                               *)
LEMMA QuietSteps ==
    ASSUME IInv, UNCHANGED records,
           pc' \in [Requests -> Locations],
           \A r \in Requests : (sent[r] = Nil <=> pc'[r] = "new"),
           \A r \in Requests :
              pc'[r] # pc[r] =>
                \/ Undecided(r) /\ pc'[r] \in {"read", "insert", "dead"}
                \/ pc'[r] \in {"done", "dead"} /\ ~Undecided(r)
                \/ /\ pc[r] = "release" /\ pc'[r] = "publish"
                   /\ outcome[r].kind = "created",
           lock' \in [Keys -> Requests \cup {Nil}]
    PROVE  IInv'
<1>1. TypeOK'
  BY DEF IInv, TypeOK, records
<1>2. \A row \in rows : row.payment \in Requests
  BY DEF IInv, TypeOK, Rows
<1>3. Bookkeeping'
  <2>1. OnePaymentPerKey'
    BY DEF IInv, Bookkeeping, OnePaymentPerKey, records
  <2>2. ASSUME NEW row \in rows'
        PROVE  row = NewRow(row.payment)' /\ ~Undecided(row.payment)'
    BY <1>2 DEF IInv, Bookkeeping, NewRow, Undecided, records
  <2>3. ASSUME NEW r \in Requests
        PROVE  /\ Undecided(r)' => outcome'[r] = NoAnswer
               /\ (Undecided(r) \/ pc[r] \in {"release", "publish"})' =>
                     published'[r] = 0
               /\ pc'[r] = "publish" => outcome'[r].kind = "created"
    BY DEF IInv, Bookkeeping, Undecided, records
  <2>4. ASSUME NEW r \in Requests
        PROVE  /\ outcome'[r].kind = "created" => outcome'[r].payment = r
               /\ published'[r] > 0 =>
                     published'[r] = 1 /\ NewRow(r)' \in rows'
               /\ IsAccepted(r)' =>
                    \E row \in rows' : /\ row.payment = outcome'[r].payment
                                       /\ row.key = sent'[r].key
                                       /\ row.hash = sent'[r].body.content
    BY DEF IInv, Bookkeeping, NewRow, IsAccepted, records
  <2> QED
    BY <2>1, <2>2, <2>3, <2>4 DEF Bookkeeping
<1> QED
  BY <1>1, <1>3 DEF IInv

(* What a request may be told is of the right type. *)
LEMMA OutcomesTyped ==
    /\ Error \in Outcomes /\ Refusal("busy") \in Outcomes
    /\ \A r \in Requests :
         /\ Accepted("created", r) \in Outcomes
         /\ \A row \in Rows : Compare(r, row) \in Outcomes
BY DEF Error, Refusal, Accepted, Compare, Outcomes, Rows

LEMMA NewRowTyped ==
    ASSUME TypeOK, NEW r \in Requests, sent[r] # Nil
    PROVE  sent[r] \in Messages /\ NewRow(r) \in Rows
BY DEF TypeOK, NewRow, Rows, Messages, Bodies, generate_request_hash

(* What a row a request is told about must be. *)
Told(o, r, table) ==
    o.kind \in {"created", "replayed"} =>
        \E row \in table : /\ row.payment = o.payment
                           /\ row.key = sent[r].key
                           /\ row.hash = sent[r].body.content

(* A step that decides about a request, and perhaps inserts its row. *)
LEMMA DecisionSteps ==
    ASSUME IInv, NEW r \in Requests, Undecided(r), sent[r] # Nil,
           NEW o \in Outcomes, outcome' = [outcome EXCEPT ![r] = o],
           NEW l \in {"release", "done"}, pc' = [pc EXCEPT ![r] = l],
           UNCHANGED <<sent, lock, published>>,
           UNCHANGED rows \/ InsertRow(r),
           o.kind = "created" => o.payment = r,
           Told(o, r, rows')
    PROVE  IInv'
<1>1. NewRow(r) \in Rows /\ sent[r] \in Messages
  BY NewRowTyped DEF IInv
<1>2. TypeOK'
  <2>1. rows' \subseteq Rows
    BY <1>1 DEF IInv, TypeOK, InsertRow
  <2> QED
    BY <2>1 DEF IInv, TypeOK, Locations, Undecided
<1>3. rows \subseteq rows' /\ \A row \in rows' : row \in rows \/ row = NewRow(r)
  BY DEF InsertRow
<1>4. \A row \in rows : row.payment \in Requests /\ row.payment # r
  BY DEF IInv, TypeOK, Bookkeeping, Rows
<1>5. NewRow(r).payment = r /\ NewRow(r).key = sent[r].key
  BY DEF NewRow
<1>6. OnePaymentPerKey'
  <2>1. CASE UNCHANGED rows
    BY <2>1 DEF IInv, Bookkeeping, OnePaymentPerKey
  <2>2. CASE InsertRow(r)
    <3>1. \A row \in rows : row.key # sent[r].key
      BY <2>2 DEF InsertRow, Conflicting, RowsOf
    <3> QED
      BY <1>3, <1>5, <3>1 DEF IInv, Bookkeeping, OnePaymentPerKey
  <2> QED
    BY <2>1, <2>2
<1>7. ASSUME NEW row \in rows'
      PROVE  row = NewRow(row.payment)' /\ ~Undecided(row.payment)'
  <2>1. CASE row \in rows
    BY <1>4, <2>1 DEF IInv, Bookkeeping, TypeOK, NewRow, Undecided
  <2>2. CASE row = NewRow(r)
    BY <1>5, <2>2 DEF NewRow, Undecided, IInv, TypeOK
  <2> QED
    BY <1>3, <2>1, <2>2
<1>8. ASSUME NEW s \in Requests
      PROVE  /\ Undecided(s)' => outcome'[s] = NoAnswer
             /\ (Undecided(s) \/ pc[s] \in {"release", "publish"})' =>
                   published'[s] = 0
             /\ pc'[s] = "publish" => outcome'[s].kind = "created"
             /\ outcome'[s].kind = "created" => outcome'[s].payment = s
  <2>1. CASE s = r
    BY <2>1 DEF IInv, TypeOK, Bookkeeping, Undecided
  <2>2. CASE s # r
    BY <2>2 DEF IInv, TypeOK, Bookkeeping, Undecided
  <2> QED
    BY <2>1, <2>2
<1>9. ASSUME NEW s \in Requests
      PROVE  /\ published'[s] > 0 =>
                   published'[s] = 1 /\ NewRow(s)' \in rows'
             /\ IsAccepted(s)' =>
                  \E row \in rows' : /\ row.payment = outcome'[s].payment
                                     /\ row.key = sent'[s].key
                                     /\ row.hash = sent'[s].body.content
  <2>1. published'[s] > 0 => published'[s] = 1 /\ NewRow(s)' \in rows'
    BY <1>3 DEF IInv, Bookkeeping, NewRow
  <2>2. CASE s = r
    BY <2>1, <2>2 DEF Told, IsAccepted, IInv, TypeOK
  <2>3. CASE s # r
    BY <1>3, <2>1, <2>3 DEF IsAccepted, IInv, TypeOK, Bookkeeping
  <2> QED
    BY <2>2, <2>3
<1>10. Bookkeeping'
  BY <1>6, <1>7, <1>8, <1>9 DEF Bookkeeping
<1> QED
  BY <1>2, <1>10 DEF IInv

(* A step that ends the publication, with the message sent or not. *)
LEMMA PublicationSteps ==
    ASSUME IInv, NEW r \in Requests, pc[r] = "publish",
           pc' = [pc EXCEPT ![r] = "done"],
           UNCHANGED <<sent, lock, rows>>,
           Deliver(r) \/ UNCHANGED published,
           UNCHANGED outcome \/ outcome' = [outcome EXCEPT ![r] = Error]
    PROVE  IInv'
<1>1. outcome[r].payment = r /\ published[r] = 0 /\ ~Undecided(r)
  BY DEF IInv, Bookkeeping, Undecided
<1>2. NewRow(r) \in rows
  <2>1. IsAccepted(r)
    BY DEF IInv, Bookkeeping, IsAccepted
  <2>2. PICK row \in rows : row.payment = r
    BY <1>1, <2>1 DEF IInv, Bookkeeping
  <2> QED
    BY <2>2 DEF IInv, Bookkeeping
<1>3. \A s \in Requests :
        /\ s # r => published'[s] = published[s]
        /\ published'[r] \in {0, 1}
  BY <1>1 DEF Deliver, IInv, TypeOK
<1>4. TypeOK'
  <2>1. published' \in [Requests -> Nat]
    BY <1>1 DEF Deliver, IInv, TypeOK
  <2>2. outcome' \in [Requests -> Outcomes]
    BY OutcomesTyped DEF IInv, TypeOK
  <2> QED
    BY <2>1, <2>2 DEF IInv, TypeOK, Locations
<1>5. OnePaymentPerKey'
  BY DEF IInv, Bookkeeping, OnePaymentPerKey
<1>6. ASSUME NEW row \in rows'
      PROVE  row = NewRow(row.payment)' /\ ~Undecided(row.payment)'
  <2>1. row.payment \in Requests
    BY DEF IInv, TypeOK, Rows
  <2> QED
    BY <2>1 DEF IInv, TypeOK, Bookkeeping, NewRow, Undecided
<1>7. ASSUME NEW s \in Requests
      PROVE  /\ Undecided(s)' => outcome'[s] = NoAnswer
             /\ (Undecided(s) \/ pc[s] \in {"release", "publish"})' =>
                   published'[s] = 0
             /\ pc'[s] = "publish" => outcome'[s].kind = "created"
             /\ outcome'[s].kind = "created" => outcome'[s].payment = s
  <2>1. CASE s = r
    BY <1>1, <2>1 DEF IInv, TypeOK, Bookkeeping, Undecided, Error
  <2>2. CASE s # r
    BY <1>3, <2>2 DEF IInv, TypeOK, Bookkeeping, Undecided
  <2> QED
    BY <2>1, <2>2
<1>8. ASSUME NEW s \in Requests
      PROVE  published'[s] > 0 => published'[s] = 1 /\ NewRow(s)' \in rows'
  BY <1>2, <1>3 DEF IInv, TypeOK, Bookkeeping, NewRow
<1>9. ASSUME NEW s \in Requests, IsAccepted(s)'
      PROVE  \E row \in rows' : /\ row.payment = outcome'[s].payment
                                /\ row.key = sent'[s].key
                                /\ row.hash = sent'[s].body.content
  <2>1. outcome'[s] = outcome[s]
    BY <1>9 DEF IInv, TypeOK, IsAccepted, Error
  <2> QED
    BY <1>9, <2>1 DEF IInv, Bookkeeping, IsAccepted
<1>10. Bookkeeping'
  BY <1>5, <1>6, <1>7, <1>8, <1>9 DEF Bookkeeping
<1> QED
  BY <1>4, <1>10 DEF IInv

(* A request that arrives: there is nothing about it in the tables yet. *)
LEMMA ArrivalSteps ==
    ASSUME IInv, NEW r \in Requests, Send(r)
    PROVE  IInv'
<1>1. PICK m \in Messages : sent' = [sent EXCEPT ![r] = m]
  BY DEF Send
<1>2. TypeOK'
  BY <1>1, MessagesAssumption DEF IInv, TypeOK, Send, Goto, Locations
<1>3. ASSUME NEW row \in rows
      PROVE  row.payment \in Requests /\ row.payment # r
  BY DEF IInv, TypeOK, Rows, Bookkeeping, Undecided, Send
<1>4. outcome[r] = NoAnswer /\ published[r] = 0
  BY DEF IInv, Bookkeeping, Undecided, Send
<1>5. OnePaymentPerKey'
  BY DEF IInv, Bookkeeping, OnePaymentPerKey, Send
<1>6. ASSUME NEW row \in rows'
      PROVE  row = NewRow(row.payment)' /\ ~Undecided(row.payment)'
  BY <1>1, <1>3 DEF IInv, TypeOK, Bookkeeping, NewRow, Undecided, Send, Goto
<1>7. ASSUME NEW s \in Requests
      PROVE  /\ Undecided(s)' => outcome'[s] = NoAnswer
             /\ (Undecided(s) \/ pc[s] \in {"release", "publish"})' =>
                   published'[s] = 0
             /\ pc'[s] = "publish" => outcome'[s].kind = "created"
             /\ outcome'[s].kind = "created" => outcome'[s].payment = s
  BY <1>4 DEF IInv, TypeOK, Bookkeeping, Undecided, NoAnswer, Send, Goto
<1>8. ASSUME NEW s \in Requests
      PROVE  /\ published'[s] > 0 =>
                   published'[s] = 1 /\ NewRow(s)' \in rows'
             /\ IsAccepted(s)' =>
                  \E row \in rows' : /\ row.payment = outcome'[s].payment
                                     /\ row.key = sent'[s].key
                                     /\ row.hash = sent'[s].body.content
  <2>1. CASE s = r
    BY <1>4, <2>1 DEF Send, IsAccepted, NoAnswer
  <2>2. CASE s # r
    <3>1. sent'[s] = sent[s]
      BY <1>1, <2>2 DEF IInv, TypeOK
    <3> QED
      BY <3>1 DEF IInv, Bookkeeping, NewRow, IsAccepted, Send
  <2> QED
    BY <2>1, <2>2
<1>9. Bookkeeping'
  BY <1>5, <1>6, <1>7, <1>8 DEF Bookkeeping
<1> QED
  BY <1>2, <1>9 DEF IInv

(* Every step keeps the invariant. *)
LEMMA StepInductive == IInv /\ [Next]_vars => IInv'
<1> SUFFICES ASSUME IInv, [Next]_vars PROVE IInv'
  OBVIOUS
<1>1. ASSUME NEW r \in Requests, Send(r) PROVE IInv'
  BY <1>1, ArrivalSteps
<1>2. ASSUME NEW r \in Requests, TakeLock(r) \/ LockError(r) PROVE IInv'
  <2>1. pc[r] = "lock" /\ sent[r] \in Messages
    BY <1>2 DEF TakeLock, LockError, IInv, TypeOK
  <2>2. lock' \in [Keys -> Requests \cup {Nil}]
    BY <1>2, <2>1 DEF TakeLock, LockError, SetLock, IInv, TypeOK, Messages
  <2>3. pc' \in [Requests -> Locations]
    BY <1>2 DEF TakeLock, LockError, Goto, IInv, TypeOK, Locations
  <2>4. \A s \in Requests :
          /\ sent[s] = Nil <=> pc'[s] = "new"
          /\ pc'[s] # pc[s] =>
                Undecided(s) /\ pc'[s] \in {"read", "insert", "dead"}
    BY <1>2, <2>1, MessagesAssumption
       DEF TakeLock, LockError, Goto, IInv, TypeOK, Undecided
  <2>5. UNCHANGED records
    BY <1>2 DEF TakeLock, LockError, records
  <2> QED
    BY <2>2, <2>3, <2>4, <2>5, QuietSteps
<1>3. ASSUME NEW r \in Requests, ReadExisting(r) PROVE IInv'
  <2>1. PICK o \in Outcomes :
          /\ \/ \E row \in RowsOf(sent[r].key) : o = Compare(r, row)
             \/ RowsOf(sent[r].key) = {} /\ o = Refusal("busy")
          /\ Return(r, o)
          /\ Goto(r, AfterLock(r, o))
    BY <1>3 DEF ReadExisting
  <2>2. o.kind # "created" /\ Told(o, r, rows)
    BY <2>1 DEF Told, Compare, Accepted, Refusal, RowsOf,
                generate_request_hash
  <2>3. AfterLock(r, o) = "done"
    BY <2>2 DEF AfterLock
  <2>4. Undecided(r) /\ sent[r] # Nil
    BY <1>3 DEF ReadExisting, Undecided, IInv, TypeOK
  <2> QED
    BY <1>3, <2>1, <2>2, <2>3, <2>4, DecisionSteps
       DEF ReadExisting, Return, Goto
<1>4. ASSUME NEW r \in Requests, Insert(r) PROVE IInv'
  <2>1. Undecided(r) /\ sent[r] # Nil
    BY <1>4 DEF Insert, Undecided, IInv, TypeOK
  <2>2. CASE InsertRow(r) /\ Return(r, Accepted("created", r))
    <3> DEFINE o == Accepted("created", r)
    <3>1. o \in Outcomes /\ o.kind = "created" /\ o.payment = r
      BY OutcomesTyped DEF Accepted
    <3>2. Told(o, r, rows')
      <4>1. NewRow(r) \in rows'
        BY <2>2 DEF InsertRow
      <4>2. /\ NewRow(r).payment = r /\ NewRow(r).key = sent[r].key
            /\ NewRow(r).hash = sent[r].body.content
        BY DEF NewRow, generate_request_hash
      <4>3. \E row \in rows' : /\ row.payment = o.payment
                               /\ row.key = sent[r].key
                               /\ row.hash = sent[r].body.content
        BY <3>1, <4>1, <4>2
      <4> QED
        BY <4>3 DEF Told
    <3> HIDE DEF o
    <3> QED
      BY <1>4, <2>1, <2>2, <3>1, <3>2, DecisionSteps
         DEF Insert, Goto, Return, o
  <2>3. ASSUME NEW row \in Conflicting(sent[r].key),
               Return(r, Compare(r, row)), UNCHANGED rows
        PROVE  IInv'
    <3> DEFINE o == Compare(r, row)
    <3>1. row \in rows /\ row.key = sent[r].key
      BY DEF Conflicting, RowsOf
    <3>2. o \in Outcomes
      BY <3>1, OutcomesTyped DEF IInv, TypeOK
    <3>3. o.kind # "created" /\ Told(o, r, rows')
      BY <2>3, <3>1 DEF Told, Compare, Accepted, Refusal,
                        generate_request_hash
    <3> HIDE DEF o
    <3> QED
      BY <1>4, <2>1, <2>3, <3>2, <3>3, DecisionSteps
         DEF Insert, Goto, Return, o
  <2> QED
    BY <1>4, <2>2, <2>3 DEF Insert
<1>5. ASSUME NEW r \in Requests, DatabaseFails(r) PROVE IInv'
  <2>1. Undecided(r) /\ sent[r] # Nil
    BY <1>5 DEF DatabaseFails, Undecided, IInv, TypeOK
  <2>2. Error \in Outcomes /\ Error.kind = "error" /\ Told(Error, r, rows')
    BY OutcomesTyped DEF Error, Told
  <2>3. PICK l \in {"release", "done"} : pc' = [pc EXCEPT ![r] = l]
    BY <1>5 DEF DatabaseFails, Goto
  <2> QED
    BY <1>5, <2>1, <2>2, <2>3, DecisionSteps DEF DatabaseFails, Return
<1>6. ASSUME NEW r \in Requests, ReleaseLock(r) PROVE IInv'
  <2>1. lock' \in [Keys -> Requests \cup {Nil}]
    BY <1>6 DEF ReleaseLock, DeleteLock, IInv, TypeOK
  <2>2. pc' \in [Requests -> Locations]
    BY <1>6 DEF ReleaseLock, AfterLock, Goto, IInv, TypeOK, Locations
  <2>3. \A s \in Requests :
          /\ sent[s] = Nil <=> pc'[s] = "new"
          /\ pc'[s] # pc[s] =>
                \/ pc'[s] = "done" /\ ~Undecided(s)
                \/ /\ pc[s] = "release" /\ pc'[s] = "publish"
                   /\ outcome[s].kind = "created"
    BY <1>6 DEF ReleaseLock, AfterLock, Goto, IInv, TypeOK, Undecided
  <2>4. UNCHANGED records
    BY <1>6 DEF ReleaseLock, records
  <2> QED
    BY <2>1, <2>2, <2>3, <2>4, QuietSteps
<1>7. ASSUME NEW r \in Requests, Publish(r) \/ PublishFails(r) PROVE IInv'
  BY <1>7, PublicationSteps DEF Publish, PublishFails, Goto, Return
<1>8. ASSUME NEW r \in Requests, Crash(r) PROVE IInv'
  <2>1. UNCHANGED <<records, lock>>
    BY <1>8 DEF Crash, records
  <2>2. pc' \in [Requests -> Locations]
    BY <1>8 DEF Crash, Goto, IInv, TypeOK, Locations
  <2>3. \A s \in Requests :
          /\ sent[s] = Nil <=> pc'[s] = "new"
          /\ pc'[s] # pc[s] => pc'[s] = "dead"
    BY <1>8 DEF Crash, Goto, IInv, TypeOK
  <2>4. lock' \in [Keys -> Requests \cup {Nil}]
    BY <2>1 DEF IInv, TypeOK
  <2> QED
    BY <2>1, <2>2, <2>3, <2>4, QuietSteps
<1>9. ASSUME NEW k \in Keys, LockExpires(k) PROVE IInv'
  <2>1. UNCHANGED <<records, pc>>
    BY <1>9 DEF LockExpires, records
  <2>2. lock' \in [Keys -> Requests \cup {Nil}]
    BY <1>9 DEF LockExpires, IInv, TypeOK
  <2>3. pc' \in [Requests -> Locations]
        /\ \A s \in Requests : sent[s] = Nil <=> pc'[s] = "new"
    BY <2>1 DEF IInv, TypeOK
  <2> QED
    BY <2>1, <2>2, <2>3, QuietSteps
<1>10. CASE UNCHANGED vars
  <2>1. UNCHANGED <<records, pc, lock>>
    BY <1>10 DEF vars, records
  <2>2. lock' \in [Keys -> Requests \cup {Nil}]
        /\ pc' \in [Requests -> Locations]
        /\ \A s \in Requests : sent[s] = Nil <=> pc'[s] = "new"
    BY <2>1 DEF IInv, TypeOK
  <2> QED
    BY <2>1, <2>2, QuietSteps
<1> QED
  BY <1>1, <1>2, <1>3, <1>4, <1>5, <1>6, <1>7, <1>8, <1>9, <1>10
     DEF Next, Work

(* The empty tables of a fresh deployment. *)
LEMMA InitInductive == Init => IInv
<1> SUFFICES ASSUME Init PROVE IInv
  OBVIOUS
<1>1. TypeOK
  BY DEF Init, TypeOK, NoAnswer, Outcomes, Locations
<1>2. Bookkeeping
  BY DEF Init, Bookkeeping, OnePaymentPerKey, Undecided, NoAnswer, IsAccepted
<1> QED
  BY <1>1, <1>2 DEF IInv

LEMMA Inductive == Spec => []IInv
BY InitInductive, StepInductive, PTL DEF Spec

(* Every variable keeps its type. *)
THEOREM CreationTypeCorrect == Spec => []TypeOK
<1>1. IInv => TypeOK
  BY DEF IInv
<1> QED
  BY <1>1, Inductive, PTL

(* What ties the requests to the table, for every schedule. *)
THEOREM BookkeepingAlways == Spec => []Bookkeeping
<1>1. IInv => Bookkeeping
  BY DEF IInv
<1> QED
  BY <1>1, Inductive, PTL

(* A key never has two payments, whether or not the lock did its work: the *)
(* rows create_idempotent_payment commits differ in their keys.            *)
THEOREM OnePaymentAlways == Spec => []OnePaymentPerKey
<1>1. IInv => OnePaymentPerKey
  BY DEF IInv, Bookkeeping
<1> QED
  BY <1>1, Inductive, PTL

(* A payment is handed to the workers at most once, and of all requests of *)
(* a key at most one leads to a payment that is.                           *)
THEOREM AlwaysHandedOverOnce == Spec => []HandedOverOnce
<1>1. IInv => HandedOverOnce
  <2> SUFFICES ASSUME IInv, NEW r \in Requests, published[r] > 0
               PROVE  /\ published[r] = 1
                      /\ NewRow(r) \in rows
                      /\ \A s \in Requests :
                           published[s] > 0 /\ sent[s].key = sent[r].key =>
                               s = r
    BY DEF HandedOverOnce
  <2>1. \A s \in Requests :
          published[s] > 0 => published[s] = 1 /\ NewRow(s) \in rows
    BY DEF IInv, Bookkeeping
  <2>2. ASSUME NEW s \in Requests,
               published[s] > 0, sent[s].key = sent[r].key
        PROVE  s = r
    <3>1. NewRow(s) = NewRow(r)
      BY <2>1, <2>2 DEF IInv, Bookkeeping, OnePaymentPerKey, NewRow
    <3> QED
      BY <3>1 DEF NewRow
  <2> QED
    BY <2>1, <2>2
<1> QED
  BY <1>1, Inductive, PTL

(* Whoever is told of a payment asked for that payment's content under     *)
(* that payment's key, so all who are accepted are told of the same one.   *)
THEOREM ReplayAlwaysFaithful == Spec => []ReplayFaithful
<1>1. IInv => ReplayFaithful
  <2> SUFFICES ASSUME IInv, NEW r \in Requests, IsAccepted(r)
               PROVE  /\ \E row \in rows :
                           /\ row.payment = outcome[r].payment
                           /\ row.key = sent[r].key
                           /\ row.hash = sent[r].body.content
                      /\ \A s \in Requests :
                           IsAccepted(s) /\ sent[s].key = sent[r].key =>
                               outcome[s].payment = outcome[r].payment
    BY DEF ReplayFaithful
  <2>1. \A s \in Requests : IsAccepted(s) =>
          \E row \in rows : /\ row.payment = outcome[s].payment
                            /\ row.key = sent[s].key
                            /\ row.hash = sent[s].body.content
    BY DEF IInv, Bookkeeping
  <2> QED
    BY <2>1 DEF IInv, Bookkeeping, OnePaymentPerKey
<1> QED
  BY <1>1, Inductive, PTL

(* The creator of a payment will hand it over, has done so, has told its   *)
(* client of an error, or is dead.                                         *)
Handing(c) ==
    \/ published[c] > 0
    \/ pc[c] = "dead"
    \/ outcome[c] = Error
    \/ outcome[c].kind = "created" /\ pc[c] \in {"release", "publish"}

(* Once a request has inserted its row, no step loses the hand-over. *)
LEMMA HandingStays ==
    ASSUME IInv, [Next]_vars, NEW c \in Requests, Handing(c), ~Undecided(c)
    PROVE  Handing(c)'
<1> USE DEF IInv, TypeOK
<1>1. ASSUME NEW r \in Requests, r # c,
             Send(r) \/ Work(r) \/ DatabaseFails(r) \/ PublishFails(r)
               \/ Crash(r)
      PROVE  /\ pc'[c] = pc[c] /\ outcome'[c] = outcome[c]
             /\ published[c] > 0 => published'[c] > 0
  BY <1>1 DEF Send, Work, TakeLock, LockError, ReadExisting, Insert,
              ReleaseLock, Publish, DatabaseFails, PublishFails, Crash,
              Goto, Return, Deliver
<1>2. pc[c] \in {"release", "publish", "done", "dead"}
  BY DEF Undecided, Locations
<1>3. CASE ReleaseLock(c)
  BY <1>3 DEF ReleaseLock, Goto, AfterLock, Handing
<1>4. CASE Publish(c)
  <2>1. outcome[c].payment = c
    BY <1>4 DEF Publish, Bookkeeping
  <2>2. published'[c] > 0
    BY <1>4, <2>1 DEF Publish, Deliver
  <2> QED
    BY <2>2 DEF Handing
<1>5. CASE PublishFails(c)
  BY <1>5 DEF PublishFails, Return, Handing
<1>6. CASE Crash(c)
  BY <1>6 DEF Crash, Goto, Handing
<1>7. ~Send(c) /\ ~TakeLock(c) /\ ~LockError(c) /\ ~ReadExisting(c)
      /\ ~Insert(c) /\ ~DatabaseFails(c)
  BY <1>2 DEF Send, TakeLock, LockError, ReadExisting, Insert, DatabaseFails
<1>8. CASE \/ UNCHANGED vars
           \/ \E k \in Keys : LockExpires(k)
  BY <1>8 DEF vars, LockExpires, Handing
<1> QED
  BY <1>1, <1>3, <1>4, <1>5, <1>6, <1>7, <1>8 DEF Next, Work, Handing

(* A row that appears is the one of a request about to hand it over, or    *)
(* one whose client is told of an error.                                   *)
LEMMA RowsAppear ==
    ASSUME IInv, [Next]_vars, NEW row \in rows', row \notin rows
    PROVE  row.payment \in Requests /\ Handing(row.payment)'
<1> USE DEF IInv, TypeOK
<1>1. ASSUME NEW r \in Requests, Insert(r) \/ DatabaseFails(r)
      PROVE  row.payment \in Requests /\ Handing(row.payment)'
  <2>1. row = NewRow(r)
    BY <1>1 DEF Insert, DatabaseFails, InsertRow
  <2>2. row.payment = r
    BY <2>1 DEF NewRow
  <2>3. CASE DatabaseFails(r)
    BY <2>2, <2>3 DEF DatabaseFails, Return, Handing
  <2>4. CASE Insert(r)
    <3>1. Return(r, Accepted("created", r)) /\ Goto(r, "release")
      BY <2>4 DEF Insert, InsertRow
    <3> QED
      BY <2>2, <3>1 DEF Return, Goto, Accepted, Handing
  <2> QED
    BY <1>1, <2>3, <2>4
<1>2. ASSUME NEW r \in Requests,
             \/ Send(r) \/ TakeLock(r) \/ LockError(r) \/ ReadExisting(r)
             \/ ReleaseLock(r) \/ Publish(r) \/ PublishFails(r) \/ Crash(r)
      PROVE  UNCHANGED rows
  BY <1>2 DEF Send, TakeLock, LockError, ReadExisting, ReleaseLock, Publish,
              PublishFails, Crash
<1> QED
  BY <1>1, <1>2 DEF Next, Work, LockExpires, vars

(* Whoever is told of a payment, even by a replay, is told of one that the *)
(* workers have or are about to get, unless the request that created it    *)
(* ended with an error or died (payments.py:113).                          *)
THEOREM AcceptedAlwaysHandedOver == Spec => []AcceptedIsHandedOver
<1> DEFINE HInv == \A row \in rows : Handing(row.payment)
<1>1. Init => HInv
  BY DEF Init
<1>2. IInv /\ HInv /\ [Next]_vars => HInv'
  <2> SUFFICES ASSUME IInv, HInv, [Next]_vars, NEW row \in rows'
               PROVE  Handing(row.payment)'
    OBVIOUS
  <2>1. CASE row \in rows
    <3>1. row.payment \in Requests /\ ~Undecided(row.payment)
      BY <2>1 DEF IInv, TypeOK, Rows, Bookkeeping
    <3> QED
      BY <2>1, <3>1, HandingStays
  <2>2. CASE row \notin rows
    BY <2>2, RowsAppear
  <2> QED
    BY <2>1, <2>2
<1>3. IInv /\ HInv => AcceptedIsHandedOver
  <2> SUFFICES ASSUME IInv, HInv, NEW r \in Requests, IsAccepted(r)
               PROVE  \/ published[outcome[r].payment] > 0
                      \/ pc[outcome[r].payment] \in
                            {"release", "publish", "dead"}
                      \/ outcome[outcome[r].payment] = Error
    BY DEF AcceptedIsHandedOver
  <2>1. PICK row \in rows : row.payment = outcome[r].payment
    BY DEF IInv, Bookkeeping
  <2> QED
    BY <2>1 DEF Handing
<1> QED
  <2> HIDE DEF HInv
  <2> QED
    BY <1>1, <1>2, <1>3, Inductive, PTL DEF Spec

(* A request that held the lock, or went on as if, and whoever ended after *)
(* that: it is not one of those who wait for somebody else.                *)
GoneIn(h) ==
    \/ pc[h] \in {"insert", "dead"}
    \/ outcome[h].kind \in {"created", "replayed", "mismatch", "error"}

GoneInUnder(h, k) == sent[h] # Nil /\ sent[h].key = k /\ GoneIn(h)

(* What has become of the request that inserted a row. *)
Owned(c) ==
    pc[c] = "dead" \/ outcome[c] = Error \/ outcome[c].kind = "created"

(* Why the losers do not all wait for each other: a lock was taken by one  *)
(* who went in, and one who was told to wait found such a lock.            *)
WInv ==
    /\ \A k \in Keys : lock[k] # Nil => GoneInUnder(lock[k], k)
    /\ \A r \in Requests :
         /\ pc[r] = "read" \/ outcome[r].kind = "busy" =>
               \E h \in Requests : GoneInUnder(h, sent[r].key)
         /\ pc[r] \in {"release", "publish", "done"} =>
               outcome[r].kind # "none"
         /\ outcome[r].kind = "mismatch" => RowsOf(sent[r].key) # {}
    /\ \A row \in rows : Owned(row.payment)

LEMMA GoneInStays ==
    ASSUME IInv, [Next]_vars, NEW h \in Requests, NEW k, GoneInUnder(h, k)
    PROVE  GoneInUnder(h, k)'
<1> USE DEF IInv, TypeOK
<1>1. ASSUME NEW r \in Requests, r # h,
             Send(r) \/ Work(r) \/ DatabaseFails(r) \/ PublishFails(r)
               \/ Crash(r)
      PROVE  /\ pc'[h] = pc[h] /\ outcome'[h] = outcome[h]
             /\ sent'[h] = sent[h]
  BY <1>1 DEF Send, Work, TakeLock, LockError, ReadExisting, Insert,
              ReleaseLock, Publish, DatabaseFails, PublishFails, Crash,
              Goto, Return, Deliver
<1>2. ~Send(h) /\ sent[h] # Nil /\ sent[h].key = k /\ GoneIn(h)
  BY DEF Send, GoneInUnder
<1>3. CASE Insert(h)
  BY <1>2, <1>3 DEF Insert, InsertRow, Return, Accepted, Compare, Refusal,
                    GoneInUnder, GoneIn
<1>4. CASE DatabaseFails(h) \/ PublishFails(h)
  BY <1>2, <1>4 DEF DatabaseFails, PublishFails, Return, Error, GoneInUnder,
                    GoneIn
<1>5. CASE Crash(h)
  BY <1>2, <1>5 DEF Crash, Goto, GoneInUnder, GoneIn
<1>6. ~TakeLock(h) /\ ~LockError(h) /\ ~ReadExisting(h)
  <2>1. pc[h] \in {"lock", "read"} => outcome[h] = NoAnswer
    BY DEF Bookkeeping, Undecided
  <2> QED
    BY <1>2, <2>1 DEF TakeLock, LockError, ReadExisting, GoneIn, NoAnswer
<1>7. CASE ReleaseLock(h) \/ Publish(h)
  <2>1. /\ pc[h] \in {"release", "publish"}
        /\ outcome' = outcome /\ sent' = sent
    BY <1>7 DEF ReleaseLock, Publish
  <2> QED
    BY <1>2, <2>1 DEF GoneInUnder, GoneIn
<1>8. CASE \/ UNCHANGED vars
           \/ \E key \in Keys : LockExpires(key)
  BY <1>2, <1>8 DEF vars, LockExpires, GoneInUnder, GoneIn
<1> QED
  BY <1>1, <1>2, <1>3, <1>4, <1>5, <1>6, <1>7, <1>8
     DEF Next, Work, GoneInUnder, GoneIn

(* Whoever holds a lock went in with it. *)
LEMMA LocksStep ==
    ASSUME IInv, WInv, [Next]_vars, NEW k \in Keys, lock'[k] # Nil
    PROVE  \E h \in Requests : lock'[k] = h /\ GoneInUnder(h, k)'
<1> USE DEF IInv, TypeOK
<1>1. CASE lock'[k] = lock[k]
  <2>1. lock[k] \in Requests /\ GoneInUnder(lock[k], k)
    BY <1>1 DEF WInv
  <2> QED
    BY <1>1, <2>1, GoneInStays
<1>2. ASSUME NEW r \in Requests, TakeLock(r) \/ LockError(r),
             lock'[k] # lock[k]
      PROVE  /\ lock'[k] = r /\ sent'[r] # Nil /\ sent'[r].key = k
             /\ pc'[r] = "insert"
  <2>1. SetLock(r) /\ Goto(r, "insert") /\ pc[r] = "lock"
    BY <1>2 DEF TakeLock, LockError
  <2>2. sent[r] \in Messages /\ sent'[r] = sent[r]
    BY <1>2, <2>1 DEF TakeLock, LockError
  <2> QED
    BY <1>2, <2>1, <2>2 DEF SetLock, Goto, Messages
<1>3. ASSUME NEW r \in Requests,
             \/ Send(r) \/ ReadExisting(r) \/ Insert(r) \/ Publish(r)
             \/ DatabaseFails(r) \/ PublishFails(r) \/ Crash(r)
      PROVE  lock' = lock
  BY <1>3 DEF Send, ReadExisting, Insert, Publish, DatabaseFails,
              PublishFails, Crash
<1>4. ASSUME NEW r \in Requests, ReleaseLock(r)
      PROVE  lock'[k] = lock[k]
  BY <1>4 DEF ReleaseLock, DeleteLock
<1>5. CASE \/ UNCHANGED vars
           \/ \E key \in Keys : LockExpires(key)
  <2>1. lock'[k] = lock[k]
    BY <1>5 DEF vars, LockExpires
  <2> QED
    BY <1>1, <2>1
<1> QED
  BY <1>1, <1>2, <1>3, <1>4, <1>5 DEF Next, Work, GoneInUnder, GoneIn

(* Whoever waits, or was told that a request is being processed, does so   *)
(* for somebody who went in.                                               *)
LEMMA WaitersStep ==
    ASSUME IInv, WInv, [Next]_vars, NEW r \in Requests,
           pc'[r] = "read" \/ outcome'[r].kind = "busy"
    PROVE  (\E h \in Requests : GoneInUnder(h, sent[r].key))'
<1> USE DEF IInv, TypeOK
<1>0. ASSUME NEW h \in Requests, GoneInUnder(h, sent[r].key),
             sent'[r] = sent[r]
      PROVE  GoneInUnder(h, sent[r].key)'
  <2>1. PICK k : k = sent[r].key
    OBVIOUS
  <2>2. GoneInUnder(h, k)'
    BY <1>0, <2>1, GoneInStays
  <2> QED
    BY <1>0, <2>1, <2>2 DEF GoneInUnder, GoneIn
<1>1. CASE /\ pc[r] = "read" \/ outcome[r].kind = "busy"
           /\ sent'[r] = sent[r]
  <2>1. PICK h \in Requests : GoneInUnder(h, sent[r].key)
    BY <1>1 DEF WInv
  <2> QED
    BY <1>0, <1>1, <2>1
<1>2. CASE TakeLock(r) /\ pc'[r] = "read"
  <2>1. lock[sent[r].key] # Nil /\ sent[r] \in Messages /\ sent' = sent
    BY <1>2 DEF TakeLock, Goto
  <2>2. lock[sent[r].key] \in Requests
    BY <2>1 DEF Messages
  <2>3. GoneInUnder(lock[sent[r].key], sent[r].key)
    BY <2>1 DEF WInv, Messages
  <2> QED
    BY <1>0, <2>1, <2>2, <2>3
<1>3. ASSUME NEW s \in Requests, s # r,
             Send(s) \/ Work(s) \/ DatabaseFails(s) \/ PublishFails(s)
               \/ Crash(s)
      PROVE  pc'[r] = pc[r] /\ outcome'[r] = outcome[r] /\ sent'[r] = sent[r]
  BY <1>3 DEF Send, Work, TakeLock, LockError, ReadExisting, Insert,
              ReleaseLock, Publish, DatabaseFails, PublishFails, Crash,
              Goto, Return, Deliver
<1>4. CASE Send(r)
  <2>1. pc'[r] = "lock" /\ outcome' = outcome /\ outcome[r] = NoAnswer
    BY <1>4 DEF Send, Goto, Bookkeeping, Undecided
  <2> QED
    BY <2>1 DEF NoAnswer
<1>5. CASE LockError(r) \/ Insert(r)
  <2>1. pc'[r] # "read" /\ sent' = sent
    BY <1>5 DEF LockError, Insert, Goto
  <2>2. outcome'[r] # Refusal("busy") => outcome'[r].kind # "busy"
    <3>1. outcome'[r] \in Outcomes
      BY StepInductive
    <3> QED
      BY <3>1 DEF Outcomes, Refusal
  <2>3. CASE Insert(r)
    BY <2>1, <2>3 DEF Insert, InsertRow, Return, Accepted, Compare, Refusal
  <2>4. CASE LockError(r)
    BY <1>1, <2>1, <2>4 DEF LockError
  <2> QED
    BY <1>5, <2>3, <2>4
<1>6. CASE \/ ReadExisting(r) \/ ReleaseLock(r) \/ Publish(r)
           \/ DatabaseFails(r) \/ PublishFails(r) \/ Crash(r)
           \/ TakeLock(r) /\ pc'[r] # "read"
  <2>1. /\ sent' = sent
        /\ pc'[r] # "read"
        /\ pc[r] = "read" \/ outcome'[r] \in {outcome[r], Error}
    BY <1>6 DEF ReadExisting, ReleaseLock, Publish, DatabaseFails,
                PublishFails, Crash, TakeLock, Goto, AfterLock, Return
  <2> QED
    BY <1>1, <2>1 DEF Error
<1>7. CASE \/ UNCHANGED vars
           \/ \E key \in Keys : LockExpires(key)
  BY <1>1, <1>7 DEF vars, LockExpires
<1> QED
  BY <1>1, <1>2, <1>3, <1>4, <1>5, <1>6, <1>7 DEF Next, Work

(* A request that is past its critical section has an outcome, and one     *)
(* that was told of a mismatch was shown a row of its key.                 *)
LEMMA DecidedStep ==
    ASSUME IInv, WInv, [Next]_vars, NEW r \in Requests
    PROVE  /\ pc'[r] \in {"release", "publish", "done"} =>
                 outcome'[r].kind # "none"
           /\ outcome'[r].kind = "mismatch" => RowsOf(sent[r].key)' # {}
<1> USE DEF IInv, TypeOK
<1>1. rows \subseteq rows'
  BY DEF Next, Work, Send, TakeLock, LockError, ReadExisting, Insert,
         InsertRow, ReleaseLock, Publish, DatabaseFails, PublishFails, Crash,
         LockExpires, vars
<1>2. CASE /\ outcome'[r] = outcome[r]
           /\ sent'[r] = sent[r] \/ outcome[r].kind # "mismatch"
           /\ pc'[r] \in {"release", "publish", "done"} =>
                 pc[r] \in {"release", "publish", "done"}
  <2>1. outcome[r].kind = "mismatch" => RowsOf(sent[r].key) # {}
    BY DEF WInv
  <2> QED
    BY <1>1, <1>2, <2>1 DEF WInv, RowsOf
<1>3. CASE outcome'[r] = Error
  BY <1>3 DEF Error
<1>4. ASSUME NEW row \in rows, row.key = sent[r].key, sent'[r] = sent[r],
             outcome'[r] = Compare(r, row)
      PROVE  /\ outcome'[r].kind # "none"
             /\ RowsOf(sent[r].key)' # {}
  BY <1>1, <1>4 DEF Compare, Accepted, Refusal, RowsOf
<1>5. CASE ReadExisting(r)
  <2>1. PICK o \in Outcomes :
          /\ \/ \E row \in RowsOf(sent[r].key) : o = Compare(r, row)
             \/ RowsOf(sent[r].key) = {} /\ o = Refusal("busy")
          /\ outcome'[r] = o
          /\ sent'[r] = sent[r]
    BY <1>5 DEF ReadExisting, Return
  <2> QED
    BY <1>4, <2>1 DEF RowsOf, Refusal
<1>6. CASE Insert(r)
  <2>1. CASE InsertRow(r) /\ Return(r, Accepted("created", r))
    BY <2>1 DEF Return, Accepted
  <2>2. ASSUME NEW row \in Conflicting(sent[r].key),
               Return(r, Compare(r, row))
        PROVE  /\ outcome'[r].kind # "none"
               /\ RowsOf(sent[r].key)' # {}
    <3>1. row \in rows /\ row.key = sent[r].key
      BY DEF Conflicting, RowsOf
    <3>2. outcome'[r] = Compare(r, row) /\ sent'[r] = sent[r]
      BY <1>6, <2>2 DEF Return, Insert
    <3> QED
      BY <1>4, <3>1, <3>2
  <2> QED
    BY <1>6, <2>1, <2>2 DEF Insert
<1>7. CASE DatabaseFails(r) \/ PublishFails(r)
  BY <1>3, <1>7 DEF DatabaseFails, PublishFails, Return
<1>8. CASE Send(r)
  <2>1. outcome[r] = NoAnswer /\ pc'[r] = "lock" /\ outcome' = outcome
    BY <1>8 DEF Send, Goto, Bookkeeping, Undecided
  <2> QED
    BY <2>1 DEF NoAnswer
<1>9. CASE \/ TakeLock(r) \/ LockError(r) \/ ReleaseLock(r) \/ Publish(r)
           \/ Crash(r)
  <2>1. /\ outcome' = outcome /\ sent' = sent
        /\ pc'[r] \in {"release", "publish", "done"} =>
                 pc[r] \in {"release", "publish", "done"}
    BY <1>9 DEF TakeLock, LockError, ReleaseLock, Publish, Crash, Goto
  <2> QED
    BY <1>2, <2>1
<1>10. ASSUME NEW q \in Requests, q # r,
             Send(q) \/ Work(q) \/ DatabaseFails(q) \/ PublishFails(q)
               \/ Crash(q)
      PROVE  pc'[r] = pc[r] /\ outcome'[r] = outcome[r] /\ sent'[r] = sent[r]
  BY <1>10 DEF Send, Work, TakeLock, LockError, ReadExisting, Insert,
              ReleaseLock, Publish, DatabaseFails, PublishFails, Crash,
              Goto, Return, Deliver
<1>11. CASE \/ UNCHANGED vars
            \/ \E key \in Keys : LockExpires(key)
  BY <1>2, <1>11 DEF vars, LockExpires
<1> QED
  BY <1>2, <1>5, <1>6, <1>7, <1>8, <1>9, <1>10, <1>11 DEF Next, Work

(* The request that inserted a row was told so, told of an error or died.  *)
LEMMA OwnedStep ==
    ASSUME IInv, WInv, [Next]_vars, NEW row \in rows'
    PROVE  Owned(row.payment)'
<1> USE DEF IInv, TypeOK
<1>1. ASSUME row \in rows
      PROVE  Owned(row.payment)'
  <2> DEFINE c == row.payment
  <2>1. c \in Requests /\ ~Undecided(c) /\ Owned(c)
    BY <1>1 DEF Rows, Bookkeeping, WInv
  <2>2. ASSUME NEW q \in Requests, q # c,
               Send(q) \/ Work(q) \/ DatabaseFails(q) \/ PublishFails(q)
                 \/ Crash(q)
        PROVE  pc'[c] = pc[c] /\ outcome'[c] = outcome[c]
    BY <2>1, <2>2 DEF Send, Work, TakeLock, LockError, ReadExisting, Insert,
                ReleaseLock, Publish, DatabaseFails, PublishFails, Crash,
                Goto, Return, Deliver
  <2>3. ~Send(c) /\ ~TakeLock(c) /\ ~LockError(c) /\ ~ReadExisting(c)
        /\ ~Insert(c) /\ ~DatabaseFails(c)
    BY <2>1 DEF Undecided, Send, TakeLock, LockError, ReadExisting, Insert,
                DatabaseFails
  <2>4. CASE ReleaseLock(c) \/ Publish(c)
    BY <2>1, <2>4 DEF ReleaseLock, Publish, Owned
  <2>5. CASE PublishFails(c)
    BY <2>1, <2>5 DEF PublishFails, Return, Owned
  <2>6. CASE Crash(c)
    BY <2>1, <2>6 DEF Crash, Goto, Owned
  <2>7. CASE \/ UNCHANGED vars
             \/ \E key \in Keys : LockExpires(key)
    BY <2>1, <2>7 DEF vars, LockExpires, Owned
  <2> HIDE DEF c
  <2> QED
    BY <2>1, <2>2, <2>3, <2>4, <2>5, <2>6, <2>7 DEF Next, Work, Owned, c
<1>2. ASSUME row \notin rows, NEW r \in Requests, Insert(r) \/ DatabaseFails(r)
      PROVE  Owned(row.payment)'
  <2>1. row = NewRow(r)
    BY <1>2 DEF Insert, DatabaseFails, InsertRow
  <2>2. row.payment = r
    BY <2>1 DEF NewRow
  <2>3. outcome'[r] \in {Accepted("created", r), Error}
    BY <1>2 DEF Insert, InsertRow, DatabaseFails, Return
  <2> QED
    BY <2>2, <2>3 DEF Accepted, Owned
<1>3. ASSUME NEW r \in Requests,
             \/ Send(r) \/ TakeLock(r) \/ LockError(r) \/ ReadExisting(r)
             \/ ReleaseLock(r) \/ Publish(r) \/ PublishFails(r) \/ Crash(r)
      PROVE  UNCHANGED rows
  BY <1>3 DEF Send, TakeLock, LockError, ReadExisting, ReleaseLock, Publish,
              PublishFails, Crash
<1> QED
  BY <1>1, <1>2, <1>3 DEF Next, Work, LockExpires, vars

LEMMA WaitInductive == Spec => []WInv
<1>1. Init => WInv
  BY DEF Init, WInv, NoAnswer
<1>2. IInv /\ WInv /\ [Next]_vars => WInv'
  <2> SUFFICES ASSUME IInv, WInv, [Next]_vars
               PROVE  WInv'
    OBVIOUS
  <2>1. ASSUME NEW k \in Keys, lock'[k] # Nil
        PROVE  GoneInUnder(lock[k], k)'
    <3>1. PICK h \in Requests : lock'[k] = h /\ GoneInUnder(h, k)'
      BY <2>1, LocksStep
    <3> QED
      BY <3>1 DEF GoneInUnder, GoneIn
  <2> QED
    BY <2>1, WaitersStep, DecidedStep, OwnedStep DEF WInv
<1> QED
  BY <1>1, <1>2, Inductive, PTL DEF Spec

(* race_test.py:4, for any number of requests of a key, with an expiring   *)
(* lock and a failing Redis: unless one of them ended with an error or     *)
(* died, exactly one is told that its payment is new.                      *)
THEOREM ExactlyOneAlwaysNew == Spec => []ExactlyOneNew
<1>1. IInv /\ WInv => ExactlyOneNew
  <2> SUFFICES ASSUME IInv, WInv, NEW k \in Keys, RequestsOf(k) # {},
                      \A r \in RequestsOf(k) :
                          pc[r] = "done" /\ outcome[r] # Error
               PROVE  \E r \in RequestsOf(k) :
                        /\ outcome[r].kind = "created"
                        /\ \A s \in RequestsOf(k) :
                             outcome[s].kind = "created" => s = r
    BY DEF ExactlyOneNew
  <2> USE DEF IInv, TypeOK
  <2>1. PICK h \in RequestsOf(k) :
            outcome[h].kind \in {"created", "replayed", "mismatch"}
    <3>1. PICK r \in RequestsOf(k) : TRUE
      OBVIOUS
    <3>2. \A h \in Requests : GoneInUnder(h, k) => h \in RequestsOf(k)
      BY DEF GoneInUnder, RequestsOf
    <3>3. \A h \in RequestsOf(k) :
             GoneIn(h) =>
               outcome[h].kind \in {"created", "replayed", "mismatch"}
      <4>1. ASSUME NEW h \in RequestsOf(k)
            PROVE  outcome[h].kind # "error"
        BY DEF RequestsOf, Outcomes, Error
      <4> QED
        BY <4>1 DEF GoneIn
    <3>4. CASE outcome[r].kind = "busy"
      <4>1. PICK h \in Requests : GoneInUnder(h, k)
        BY <3>4 DEF WInv, RequestsOf
      <4> QED
        BY <3>2, <3>3, <4>1 DEF GoneInUnder
    <3>5. CASE outcome[r].kind # "busy"
      <4>1. outcome[r].kind # "none" /\ outcome[r] \in Outcomes
        BY DEF WInv, RequestsOf
      <4>2. outcome[r].kind # "error"
        BY <4>1 DEF Outcomes, Error
      <4> QED
        BY <3>1, <3>5, <4>1, <4>2 DEF Outcomes
    <3> QED
      BY <3>4, <3>5
  <2>2. PICK row \in rows : row.key = k
    <3>1. h \in Requests /\ sent[h].key = k
      BY DEF RequestsOf
    <3> QED
      BY <2>1, <3>1 DEF WInv, RowsOf, Bookkeeping, IsAccepted
  <2>3. row.payment \in RequestsOf(k) /\ outcome[row.payment].kind = "created"
    <3>1. /\ row.payment \in Requests /\ ~Undecided(row.payment)
          /\ row = NewRow(row.payment) /\ Owned(row.payment)
      BY DEF Bookkeeping, WInv, Rows
    <3>2. sent[row.payment].key = k /\ sent[row.payment] # Nil
      BY <2>2, <3>1 DEF NewRow, Undecided
    <3> QED
      BY <3>1, <3>2 DEF RequestsOf, Owned
  <2>4. ASSUME NEW s \in RequestsOf(k), outcome[s].kind = "created"
        PROVE  s = row.payment
    <3>1. s \in Requests /\ sent[s].key = k /\ outcome[s].payment = s
      BY <2>4 DEF RequestsOf, Bookkeeping
    <3>2. PICK other \in rows : other.payment = s /\ other.key = k
      BY <2>4, <3>1 DEF Bookkeeping, IsAccepted
    <3> QED
      BY <2>2, <3>2 DEF Bookkeeping, OnePaymentPerKey
  <2> QED
    BY <2>3, <2>4
<1> QED
  BY <1>1, Inductive, WaitInductive, PTL

(* The lock of a key goes when it expires or when its owner releases it:   *)
(* the token comparison of RELEASE_LOCK_SCRIPT is enough, however late a   *)
(* request comes back to a lock that is no longer its own.                 *)
THEOREM LockAlwaysRespected == Spec => LockRespected
<1>1. IInv /\ [Next]_vars =>
        \A k \in Keys : lock[k] # Nil /\ lock'[k] # lock[k] =>
           \/ pc' = pc
           \/ pc[lock[k]] = "release" /\ pc'[lock[k]] # "release"
  <2> SUFFICES ASSUME IInv, [Next]_vars, NEW k \in Keys,
                      lock[k] # Nil, lock'[k] # lock[k]
               PROVE  \/ pc' = pc
                      \/ pc[lock[k]] = "release" /\ pc'[lock[k]] # "release"
    OBVIOUS
  <2>1. ASSUME NEW r \in Requests, TakeLock(r) \/ LockError(r) PROVE FALSE
    <3>1. sent[r].key \in Keys
      BY <2>1 DEF TakeLock, LockError, IInv, TypeOK, Messages
    <3> QED
      BY <2>1, <3>1 DEF TakeLock, LockError, SetLock, IInv, TypeOK
  <2>2. ASSUME NEW r \in Requests, ReleaseLock(r)
        PROVE  pc[lock[k]] = "release" /\ pc'[lock[k]] # "release"
    <3>1. lock[k] = r
      BY <2>2 DEF ReleaseLock, DeleteLock, IInv, TypeOK
    <3> QED
      BY <2>2, <3>1 DEF ReleaseLock, Goto, AfterLock, IInv, TypeOK
  <2>3. ASSUME NEW r \in Requests,
               \/ Send(r) \/ ReadExisting(r) \/ Insert(r) \/ Publish(r)
               \/ DatabaseFails(r) \/ PublishFails(r) \/ Crash(r)
        PROVE  FALSE
    BY <2>3 DEF Send, ReadExisting, Insert, Publish, DatabaseFails,
                PublishFails, Crash
  <2>4. ASSUME NEW j \in Keys, LockExpires(j) PROVE pc' = pc
    BY <2>4 DEF LockExpires
  <2>5. CASE UNCHANGED vars
    BY <2>5 DEF vars
  <2> QED
    BY <2>1, <2>2, <2>3, <2>4, <2>5 DEF Next, Work
<1> QED
  BY <1>1, Inductive, PTL DEF Spec, LockRespected

(* What a request is told in the two specifications is written the same. *)
LEMMA SameAnswers ==
    /\ Contract!NoAnswer = NoAnswer /\ Contract!Error = Error
    /\ \A why : Contract!Refusal(why) = Refusal(why)
    /\ \A kind, p : Contract!Accepted(kind, p) = Accepted(kind, p)
    /\ \A r : Contract!Row(r) = NewRow(r)
    /\ \A k : Contract!RowsOf(k) = RowsOf(k)
BY DEF Contract!NoAnswer, NoAnswer, Contract!Error, Error, Contract!Refusal,
       Refusal, Contract!Accepted, Accepted, Contract!Row, NewRow,
       generate_request_hash, Contract!RowsOf, RowsOf

(* A decision on the strength of an existing row, or of none.  *)
LEMMA AnswersAnswer ==
    ASSUME NEW r \in Requests, sent[r] # Nil, outcome[r] = NoAnswer,
           NEW o, Return(r, o),
           \/ \E row \in RowsOf(sent[r].key) : o = Compare(r, row)
           \/ RowsOf(sent[r].key) = {} /\ o = Refusal("busy"),
           UNCHANGED <<sent, rows, published>>
    PROVE  Contract!Answer(r)
<1>1. Contract!Waiting(r)
  BY SameAnswers DEF Contract!Waiting
<1>2. Contract!Decide(r, o)
  BY DEF Contract!Decide, Return
<1>3. CASE RowsOf(sent[r].key) = {} /\ o = Refusal("busy")
  BY <1>1, <1>2, <1>3, SameAnswers DEF Contract!Answer
<1>4. ASSUME NEW row \in RowsOf(sent[r].key), o = Compare(r, row)
      PROVE  Contract!Answer(r)
  <2>1. row \in Contract!RowsOf(sent[r].key)
    BY SameAnswers
  <2>2. CASE row.hash = sent[r].body.content
    <3>1. o = Contract!Accepted("replayed", row.payment)
      BY <1>4, <2>2, SameAnswers DEF Compare, generate_request_hash
    <3> QED
      BY <1>1, <1>2, <2>1, <2>2, <3>1 DEF Contract!Answer
  <2>3. CASE row.hash # sent[r].body.content
    <3>1. o = Contract!Refusal("mismatch")
      BY <1>4, <2>3, SameAnswers DEF Compare, generate_request_hash
    <3> QED
      BY <1>1, <1>2, <2>1, <2>3, <3>1 DEF Contract!Answer
  <2> QED
    BY <2>2, <2>3
<1> QED
  BY <1>3, <1>4

(* The message of the creator's payment, sent or not. *)
LEMMA PublicationHands ==
    ASSUME IInv, NEW r \in Requests, Publish(r) \/ PublishFails(r)
    PROVE  Contract!Next
<1>1. /\ sent[r] # Nil
      /\ outcome[r] = Contract!Accepted("created", r)
      /\ published[r] = 0
  <2>1. pc[r] = "publish"
    BY DEF Publish, PublishFails
  <2>2. outcome[r].kind = "created" /\ outcome[r].payment = r
    BY <2>1 DEF IInv, Bookkeeping
  <2>3. outcome[r] = Accepted("created", r)
    BY <2>2 DEF IInv, TypeOK, Outcomes, Accepted
  <2> QED
    BY <2>1, <2>3, SameAnswers DEF IInv, TypeOK, Bookkeeping
<1>2. Deliver(r) => published' = [published EXCEPT ![r] = 1]
  BY <1>1 DEF Deliver, Contract!Accepted, IInv, TypeOK
<1>3. CASE Publish(r)
  BY <1>1, <1>2, <1>3 DEF Publish, Contract!Hand, Contract!Next
<1>4. CASE PublishFails(r)
  <2>1. Contract!Decide(r, Contract!Error)
    BY <1>4, SameAnswers DEF PublishFails, Return, Contract!Decide
  <2>2. CASE Deliver(r)
    BY <1>1, <1>2, <1>4, <2>1, <2>2
       DEF PublishFails, Contract!Hand, Contract!Next
  <2>3. CASE UNCHANGED published
    BY <1>1, <1>4, <2>1, <2>3 DEF PublishFails, Contract!Fail, Contract!Next
  <2> QED
    BY <1>4, <2>2, <2>3 DEF PublishFails
<1> QED
  BY <1>3, <1>4

(* Every step is a step of the contract or leaves it where it is. *)
LEMMA StepHonoursContract ==
    IInv /\ [Next]_vars => [Contract!Next]_(Contract!contract)
<1> SUFFICES ASSUME IInv, [Next]_vars
             PROVE  Contract!Next \/ UNCHANGED Contract!contract
  OBVIOUS
<1>1. ASSUME NEW r \in Requests, Send(r) PROVE Contract!Next
  <2>1. sent[r] = Nil
    BY <1>1 DEF Send, IInv, TypeOK
  <2>2. PICK m \in Messages : sent' = [sent EXCEPT ![r] = m]
    BY <1>1 DEF Send
  <2>3. PICK k \in Keys, b \in Bodies : m = [key |-> k, body |-> b]
    BY DEF Messages
  <2> QED
    BY <1>1, <2>1, <2>2, <2>3 DEF Send, Contract!Send, Contract!Next
<1>2. ASSUME NEW r \in Requests,
             TakeLock(r) \/ LockError(r) \/ ReleaseLock(r) \/ Crash(r)
      PROVE  UNCHANGED Contract!contract
  BY <1>2 DEF TakeLock, LockError, ReleaseLock, Crash, Contract!contract
<1>3. ASSUME NEW r \in Requests, ReadExisting(r) PROVE Contract!Next
  <2>1. sent[r] # Nil /\ outcome[r] = NoAnswer
    BY <1>3 DEF ReadExisting, IInv, TypeOK, Bookkeeping, Undecided
  <2> QED
    BY <1>3, <2>1, AnswersAnswer DEF ReadExisting, Contract!Next
<1>4. ASSUME NEW r \in Requests, Insert(r) PROVE Contract!Next
  <2>1. sent[r] # Nil /\ outcome[r] = NoAnswer
    BY <1>4 DEF Insert, IInv, TypeOK, Bookkeeping, Undecided
  <2>2. CASE InsertRow(r) /\ Return(r, Accepted("created", r))
    <3>1. Contract!Create(r)
      BY <1>4, <2>1, <2>2, SameAnswers
         DEF Insert, InsertRow, Conflicting, Return, Contract!Create,
             Contract!Waiting, Contract!Decide
    <3> QED
      BY <3>1 DEF Contract!Next
  <2>3. ASSUME NEW row \in Conflicting(sent[r].key),
               Return(r, Compare(r, row)), UNCHANGED rows
        PROVE  Contract!Next
    BY <1>4, <2>1, <2>3, AnswersAnswer DEF Insert, Conflicting, Contract!Next
  <2> QED
    BY <1>4, <2>2, <2>3 DEF Insert
<1>5. ASSUME NEW r \in Requests, DatabaseFails(r) PROVE Contract!Next
  <2>1. sent[r] # Nil /\ outcome[r] = NoAnswer
    BY <1>5 DEF DatabaseFails, IInv, TypeOK, Bookkeeping, Undecided
  <2>2. Contract!Decide(r, Contract!Error)
    BY <1>5, SameAnswers DEF DatabaseFails, Return, Contract!Decide
  <2>3. CASE InsertRow(r)
    <3>1. Contract!Create(r)
      BY <1>5, <2>1, <2>2, <2>3, SameAnswers
         DEF DatabaseFails, InsertRow, Conflicting, Contract!Create,
             Contract!Waiting
    <3> QED
      BY <3>1 DEF Contract!Next
  <2>4. CASE UNCHANGED rows
    <3>1. Contract!Fail(r)
      BY <1>5, <2>1, <2>2, <2>4, SameAnswers DEF DatabaseFails, Contract!Fail
    <3> QED
      BY <3>1 DEF Contract!Next
  <2> QED
    BY <1>5, <2>3, <2>4 DEF DatabaseFails
<1>6. ASSUME NEW r \in Requests, Publish(r) \/ PublishFails(r)
      PROVE  Contract!Next
  BY <1>6, PublicationHands
<1>7. ASSUME NEW k \in Keys, LockExpires(k)
      PROVE  UNCHANGED Contract!contract
  BY <1>7 DEF LockExpires, Contract!contract
<1>8. CASE UNCHANGED vars
  BY <1>8 DEF vars, Contract!contract
<1> QED
  BY <1>1, <1>2, <1>3, <1>4, <1>5, <1>6, <1>7, <1>8 DEF Next, Work

(* IdempotentCreation implements IdempotencyContract: with or without its  *)
(* lock, the endpoint keeps the promise of an idempotency key.             *)
THEOREM ContractHonoured == Spec => ImplementsContract
<1>1. Init => Contract!Init
  BY SameAnswers DEF Init, Contract!Init
<1> QED
  BY <1>1, StepHonoursContract, Inductive, PTL
     DEF Spec, ImplementsContract, Contract!Spec
=============================================================================
