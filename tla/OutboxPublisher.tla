-------------------------- MODULE OutboxPublisher ---------------------------
(***************************************************************************)
(* publish_pending_outbox_events: runs of the scheduled task that select   *)
(* pending outbox rows, add them to the Redis stream one by one and commit *)
(* what became of them in one transaction.  Runs may overlap; SKIP LOCKED  *)
(* keeps them off each other's rows.                                       *)
(*                                                                         *)
(* The XADD takes effect at once, the row's update only at the commit: if  *)
(* the run dies in between, the event is in the stream and still PENDING.  *)
(* An event is a number, by created_at; rows may be committed in another   *)
(* order than that, since NOW() is the start of a transaction.             *)
(***************************************************************************)
EXTENDS Naturals, FiniteSets

CONSTANTS
    NumEvents,      \* how many outbox rows will be written
    Publishers,     \* the publish_outbox_events tasks that may run at once
    BatchSize,      \* batch_size (the code says 100)
    MaxExponent,    \* the largest x with POWER(2, x) in range (1023)
    MaxFailures,    \* bound: how many XADDs raise RedisError
    MaxAborts       \* bound: how many transactions are lost

ASSUME NumEventsAssumption == NumEvents \in Nat
ASSUME BatchAssumption == BatchSize \in Nat \ {0}
ASSUME BoundsAssumption == MaxFailures \in Nat /\ MaxAborts \in Nat

Events == 1 .. NumEvents

VARIABLES
    row,            \* outbox_events.status, "absent" before the INSERT
    attempts,       \* outbox_events.attempts
    available,      \* the events whose available_at has passed
    todo,           \* the rows each run has selected and not yet handled
    added,          \* the rows of each run to be committed as PUBLISHED
    putOff,         \* the rows of each run to be committed with a back-off
    stream,         \* how many entries of the stream carry each event
    failures,       \* how many XADDs have raised
    aborts          \* how many transactions have been lost

vars == <<row, attempts, available, todo, added, putOff, stream, failures,
          aborts>>

TypeOK ==
    /\ row \in [Events -> {"absent", "PENDING", "PUBLISHED"}]
    /\ attempts \in [Events -> Nat]
    /\ available \subseteq Events
    /\ todo \in [Publishers -> SUBSET Events]
    /\ added \in [Publishers -> SUBSET Events]
    /\ putOff \in [Publishers -> SUBSET Events]
    /\ stream \in [Events -> Nat]
    /\ failures \in Nat
    /\ aborts \in Nat

Init ==
    /\ row = [e \in Events |-> "absent"]
    /\ attempts = [e \in Events |-> 0]
    /\ available = Events
    /\ todo = [w \in Publishers |-> {}]
    /\ added = [w \in Publishers |-> {}]
    /\ putOff = [w \in Publishers |-> {}]
    /\ stream = [e \in Events |-> 0]
    /\ failures = 0
    /\ aborts = 0

(* A payment's or refund's transaction commits its outbox row. *)
CommitEvent(e) ==
    /\ row[e] = "absent"
    /\ row' = [row EXCEPT ![e] = "PENDING"]
    /\ UNCHANGED <<attempts, available, todo, added, putOff, stream,
                   failures, aborts>>

(* The rows the open transaction of a run has locked. *)
Locked(w) == todo[w] \cup added[w] \cup putOff[w]

Running(w) == Locked(w) # {}

(* A bug to detect: SKIP LOCKED is left out, and the lock with it. *)
AnyRow(e) == TRUE

Unlocked(e) == \A w \in Publishers : e \notin Locked(w)

Due == {e \in available : row[e] = "PENDING" /\ Unlocked(e)}

(* ORDER BY created_at ... FOR UPDATE SKIP LOCKED LIMIT batch_size. *)
Select(w) ==
    /\ ~Running(w)
    /\ \E batch \in SUBSET Due :
         /\ batch # {}
         /\ Cardinality(batch) <= BatchSize
         /\ batch = Due \/ Cardinality(batch) = BatchSize
         /\ \A e \in batch, f \in Due \ batch : e < f
         /\ todo' = [todo EXCEPT ![w] = batch]
    /\ UNCHANGED <<row, attempts, available, added, putOff, stream, failures,
                   aborts>>

(* The loop takes the rows by created_at. *)
IsNext(w, e) == e \in todo[w] /\ \A f \in todo[w] : e <= f

AddToStream(e) == stream' = [stream EXCEPT ![e] = @ + 1]

Publish(w, e) ==
    /\ IsNext(w, e)
    /\ todo' = [todo EXCEPT ![w] = @ \ {e}]
    /\ added' = [added EXCEPT ![w] = @ \cup {e}]
    /\ AddToStream(e)
    /\ UNCHANGED <<row, attempts, available, putOff, failures, aborts>>

(* A bug to detect: the event is marked although XADD raised. *)
MarkedAnyway(w, e) ==
    /\ todo' = [todo EXCEPT ![w] = @ \ {e}]
    /\ added' = [added EXCEPT ![w] = @ \cup {e}]
    /\ UNCHANGED <<putOff, aborts>>

(* The transaction is rolled back, its locks are gone. *)
Abort(w) ==
    /\ todo' = [todo EXCEPT ![w] = {}]
    /\ added' = [added EXCEPT ![w] = {}]
    /\ putOff' = [putOff EXCEPT ![w] = {}]
    /\ aborts' = aborts + 1

(* The UPDATE of available_at, whose POWER(2, attempts + 1) is evaluated   *)
(* before LEAST caps it: past the range of a double it raises, and the     *)
(* whole transaction is rolled back.                                       *)
PutOff(w, e) ==
    \/ /\ attempts[e] + 1 <= MaxExponent
       /\ todo' = [todo EXCEPT ![w] = @ \ {e}]
       /\ putOff' = [putOff EXCEPT ![w] = @ \cup {e}]
       /\ UNCHANGED <<added, aborts>>
    \/ /\ attempts[e] + 1 > MaxExponent
       /\ Abort(w)

(* XADD raises RedisError, before or after Redis added the entry. *)
PublishFails(w, e) ==
    /\ IsNext(w, e)
    /\ failures < MaxFailures
    /\ failures' = failures + 1
    /\ AddToStream(e) \/ UNCHANGED stream
    /\ PutOff(w, e)
    /\ UNCHANGED <<row, attempts, available>>

(* A bug to detect: an event that could not be sent is given up. *)
CommitGivesUp(w) ==
    /\ Running(w)
    /\ todo[w] = {}
    /\ row' = [e \in Events |-> CASE e \in added[w] -> "PUBLISHED"
                                 [] e \in putOff[w] -> "FAILED"
                                 [] OTHER -> row[e]]
    /\ added' = [added EXCEPT ![w] = {}]
    /\ putOff' = [putOff EXCEPT ![w] = {}]
    /\ UNCHANGED <<attempts, available, todo, stream, failures, aborts>>

(* The end of the run, as one transaction. *)
Commit(w) ==
    /\ Running(w)
    /\ todo[w] = {}
    /\ row' = [e \in Events |->
                 IF e \in added[w] THEN "PUBLISHED" ELSE row[e]]
    /\ attempts' = [e \in Events |->
                      IF e \in added[w] \cup putOff[w] THEN attempts[e] + 1
                                                       ELSE attempts[e]]
    /\ available' = available \ putOff[w]
    /\ added' = [added EXCEPT ![w] = {}]
    /\ putOff' = [putOff EXCEPT ![w] = {}]
    /\ UNCHANGED <<todo, stream, failures, aborts>>

(* The worker dies, or the database refuses a statement or the commit. *)
Lose(w) ==
    /\ Running(w)
    /\ aborts < MaxAborts
    /\ Abort(w)
    /\ UNCHANGED <<row, attempts, available, stream, failures>>

(* available_at passes. *)
BecomeAvailable(e) ==
    /\ e \notin available
    /\ available' = available \cup {e}
    /\ UNCHANGED <<row, attempts, todo, added, putOff, stream, failures,
                   aborts>>

Run(w) ==
    Select(w) \/ Commit(w) \/ \E e \in Events : Publish(w, e)

Next ==
    \/ \E e \in Events : CommitEvent(e) \/ BecomeAvailable(e)
    \/ \E w \in Publishers :
         Run(w) \/ Lose(w) \/ \E e \in Events : PublishFails(w, e)

Spec == Init /\ [][Next]_vars

(* Celery beat starts a run every five seconds, a run goes on, and time    *)
(* passes.                                                                 *)
Fairness ==
    /\ \A w \in Publishers : WF_vars(Run(w))
    /\ \A e \in Events : WF_vars(BecomeAvailable(e))

FairSpec == Spec /\ Fairness

-----------------------------------------------------------------------------
(* Properties.                                                             *)

(* README.md:207, "It marks a record as published only after publication   *)
(* succeeds": neither a lost transaction nor a failing Redis leads to an   *)
(* event that is marked and was never sent.                                *)
MarkedAfterSent == \A e \in Events : row[e] = "PUBLISHED" => stream[e] > 0

(* The consumer of the stream sees an event once for every attempt that is *)
(* recorded, every transaction that was lost and the attempt that is under *)
(* way, and no more: two runs never send the same row twice, since each    *)
(* has its rows for itself.                                                *)
UnderWay(e) == \E w \in Publishers : e \in added[w] \cup putOff[w]

DuplicatesAccounted ==
    \A e \in Events :
        stream[e] <= attempts[e] + aborts + (IF UnderWay(e) THEN 1 ELSE 0)

(* What makes the two inductive: a row is in the hands of one run, in one  *)
(* place, and pending; a row about to be marked has been sent.             *)
RowsHeldOnce ==
    /\ \A v, w \in Publishers : v # w => Locked(v) \cap Locked(w) = {}
    /\ \A w \in Publishers :
         /\ todo[w] \cap (added[w] \cup putOff[w]) = {}
         /\ \A e \in Locked(w) : row[e] = "PENDING"
         /\ \A e \in added[w] : stream[e] > 0

(* README.md:688, "Publication can safely be retried later": an event that *)
(* was committed with its payment is published in the end, once Redis and  *)
(* the database answer again.                                              *)
EventuallyPublished ==
    \A e \in Events : row[e] = "PENDING" ~> row[e] = "PUBLISHED"
=============================================================================
