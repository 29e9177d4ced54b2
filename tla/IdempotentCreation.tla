------------------------- MODULE IdempotentCreation --------------------------
(***************************************************************************)
(* POST /v1/payments under one Idempotency-Key: the Redis lock of          *)
(* acquire_payment_lock, the transaction of create_idempotent_payment and  *)
(* the publication of the task by create_payment, as many requests run     *)
(* them at once.                                                           *)
(*                                                                         *)
(* A step ends where a request talks to Redis, commits a transaction or    *)
(* talks to the broker.  The lock may vanish at any time: it expires after *)
(* idempotency_lock_seconds, and a Redis that restarts forgets it.  A      *)
(* payment is named by the request that drew its uuid4, and so is the      *)
(* ownership token.  The 500 of a row that conflicts but cannot be read is *)
(* left out: no code deletes payments.                                     *)
(***************************************************************************)
EXTENDS Naturals

CONSTANTS
    Requests,       \* the POST /v1/payments requests
    Keys,           \* the pairs of a merchant and an idempotency key
    Contents,       \* the (user_id, amount_cents, CURRENCY) of a request
    Spellings,      \* the case of the currency and X-Test-Scenario
    Failures,       \* the kinds of failure that may strike a request
    Nil             \* not sent, lock not held, no payment

(* redis: a command raises RedisError, whether or not it took effect       *)
(* database: a transaction raises, whether or not its commit took effect   *)
(* publish: delay raises, whether or not the message was sent              *)
(* crash: the API process dies                                             *)
FailureKinds == {"redis", "database", "publish", "crash"}

ASSUME FailuresAssumption == Failures \subseteq FailureKinds
ASSUME RequestsAssumption == Nil \notin Requests

Bodies == [content : Contents, spelling : Spellings]
Messages == [key : Keys, body : Bodies]

ASSUME MessagesAssumption == Nil \notin Messages

VARIABLES
    sent,           \* the key and the body of each request, Nil before
    pc,             \* where each request is in create_payment
    lock,           \* the token under each lock key, Nil when unset
    rows,           \* the payments table: id, key and request_hash
    outcome,        \* what create_idempotent_payment returned or raised
    published       \* how many process_payment messages name each payment

vars == <<sent, pc, lock, rows, outcome, published>>

Locations == {"new", "lock", "read", "insert", "release", "publish", "done",
              "dead"}

NoAnswer == [kind |-> "none", payment |-> Nil]
Error == [kind |-> "error", payment |-> Nil]
Refusal(why) == [kind |-> why, payment |-> Nil]
Accepted(kind, p) == [kind |-> kind, payment |-> p]

Outcomes == [kind : {"none", "error", "busy", "mismatch"}, payment : {Nil}]
            \cup [kind : {"created", "replayed"}, payment : Requests]

(* A bug to detect: the hash covers the currency as it was typed. *)
HashAsTyped(b) == <<b.content, b.spelling>>

(* generate_request_hash: the currency is upper-cased and the scenario is  *)
(* not hashed; sha256 is taken to be injective.                            *)
generate_request_hash(b) == b.content

Rows == [payment : Requests, key : Keys, hash : Contents]

TypeOK ==
    /\ sent \in [Requests -> Messages \cup {Nil}]
    /\ pc \in [Requests -> Locations]
    /\ \A r \in Requests : sent[r] = Nil <=> pc[r] = "new"
    /\ lock \in [Keys -> Requests \cup {Nil}]
    /\ rows \subseteq Rows
    /\ outcome \in [Requests -> Outcomes]
    /\ published \in [Requests -> Nat]

Init ==
    /\ sent = [r \in Requests |-> Nil]
    /\ pc = [r \in Requests |-> "new"]
    /\ lock = [k \in Keys |-> Nil]
    /\ rows = {}
    /\ outcome = [r \in Requests |-> NoAnswer]
    /\ published = [r \in Requests |-> 0]

Goto(r, location) == pc' = [pc EXCEPT ![r] = location]

RowsOf(k) == {row \in rows : row.key = k}

(* A request arrives and passes validation and authentication. *)
Send(r) ==
    /\ pc[r] = "new"
    /\ \E m \in Messages : sent' = [sent EXCEPT ![r] = m]
    /\ Goto(r, "lock")
    /\ UNCHANGED <<lock, rows, outcome, published>>

(* SET lock_key token NX EX. *)
SetLock(r) ==
    LET k == sent[r].key IN
    /\ lock[k] = Nil
    /\ lock' = [lock EXCEPT ![k] = r]

TakeLock(r) ==
    /\ pc[r] = "lock"
    /\ \/ /\ SetLock(r)
          /\ Goto(r, "insert")
       \/ /\ lock[sent[r].key] # Nil
          /\ Goto(r, "read")
          /\ UNCHANGED lock
    /\ UNCHANGED <<sent, rows, outcome, published>>

(* A bug to detect: without Redis the request counts as a loser. *)
LockErrorRefuses(r) ==
    /\ pc[r] = "lock"
    /\ "redis" \in Failures
    /\ SetLock(r) \/ UNCHANGED lock
    /\ Goto(r, "read")
    /\ UNCHANGED <<sent, rows, outcome, published>>

(* RedisError, before or after the SET took effect: the request goes on as *)
(* if it held the lock.                                                    *)
LockError(r) ==
    /\ pc[r] = "lock"
    /\ "redis" \in Failures
    /\ SetLock(r) \/ UNCHANGED lock
    /\ Goto(r, "insert")
    /\ UNCHANGED <<sent, rows, outcome, published>>

(* The EX of the SET has passed, or Redis lost the key. *)
LockExpires(k) ==
    /\ lock[k] # Nil
    /\ lock' = [lock EXCEPT ![k] = Nil]
    /\ UNCHANGED <<sent, pc, rows, outcome, published>>

(* A bug to detect: only a request that still holds its lock publishes. *)
AfterLockIfHeld(r, o) ==
    IF o.kind = "created" /\ lock[sent[r].key] = r THEN "publish" ELSE "done"

(* A bug to detect: create_payment publishes on replay too. *)
AfterLockAlways(r, o) ==
    IF o.kind \in {"created", "replayed"} THEN "publish" ELSE "done"

(* create_payment: `if not duplicate`. *)
AfterLock(r, o) == IF o.kind = "created" THEN "publish" ELSE "done"

(* A bug to detect: the hashes are not compared. *)
CompareNothing(r, row) == Accepted("replayed", row.payment)

(* The comparison of request_hash with an existing row. *)
Compare(r, row) ==
    IF row.hash = generate_request_hash(sent[r].body)
    THEN Accepted("replayed", row.payment)
    ELSE Refusal("mismatch")

Return(r, o) == outcome' = [outcome EXCEPT ![r] = o]

(* The branch of a request that did not get the lock. *)
ReadExisting(r) ==
    /\ pc[r] = "read"
    /\ \E o \in Outcomes :
         /\ \/ \E row \in RowsOf(sent[r].key) : o = Compare(r, row)
            \/ RowsOf(sent[r].key) = {} /\ o = Refusal("busy")
         /\ Return(r, o)
         /\ Goto(r, AfterLock(r, o))
    /\ UNCHANGED <<sent, lock, rows, published>>

NewRow(r) ==
    [payment |-> r, key |-> sent[r].key,
     hash |-> generate_request_hash(sent[r].body)]

(* A bug to detect: a SELECT in place of the unique constraint, so that    *)
(* two requests that both found nothing both insert.                       *)
ConflictUnseen(k) == {}

(* UNIQUE (merchant_id, idempotency_key): the rows ON CONFLICT sees.       *)
Conflicting(k) == RowsOf(k)

InsertRow(r) ==
    /\ Conflicting(sent[r].key) = {}
    /\ rows' = rows \cup {NewRow(r)}

(* The transaction of a request that holds the lock, or thinks it does.    *)
(* PostgreSQL makes an INSERT wait for a concurrent one of the same key,   *)
(* so the transactions of a key are as if one ran after the other.         *)
Insert(r) ==
    /\ pc[r] = "insert"
    /\ \/ /\ InsertRow(r)
          /\ Return(r, Accepted("created", r))
       \/ /\ \E row \in Conflicting(sent[r].key) : Return(r, Compare(r, row))
          /\ UNCHANGED rows
    /\ Goto(r, "release")
    /\ UNCHANGED <<sent, lock, published>>

(* The connection fails: the request raises, and the transaction was       *)
(* committed or not.  Before the lock's `with` is left, its finally runs.  *)
DatabaseFails(r) ==
    /\ "database" \in Failures
    /\ \/ /\ pc[r] = "insert"
          /\ InsertRow(r) \/ UNCHANGED rows
          /\ Goto(r, "release")
       \/ /\ pc[r] = "read"
          /\ Goto(r, "done")
          /\ UNCHANGED rows
    /\ Return(r, Error)
    /\ UNCHANGED <<sent, lock, published>>

(* A bug to detect: the lock is deleted whoever holds it. *)
DeleteAny(r) == lock' = [lock EXCEPT ![sent[r].key] = Nil]

(* RELEASE_LOCK_SCRIPT: delete the lock if it still carries our token. *)
DeleteLock(r) ==
    LET k == sent[r].key IN
    lock' = [lock EXCEPT ![k] = IF @ = r THEN Nil ELSE @]

(* The finally of acquire_payment_lock; a RedisError is swallowed. *)
ReleaseLock(r) ==
    /\ pc[r] = "release"
    /\ \/ DeleteLock(r)
       \/ "redis" \in Failures /\ UNCHANGED lock
    /\ Goto(r, AfterLock(r, outcome[r]))
    /\ UNCHANGED <<sent, rows, outcome, published>>

Deliver(r) ==
    published' = [published EXCEPT ![outcome[r].payment] = @ + 1]

Publish(r) ==
    /\ pc[r] = "publish"
    /\ Deliver(r)
    /\ Goto(r, "done")
    /\ UNCHANGED <<sent, lock, rows, outcome>>

(* delay raises: the client gets a 500 although its payment exists.        *)
PublishFails(r) ==
    /\ pc[r] = "publish"
    /\ "publish" \in Failures
    /\ Deliver(r) \/ UNCHANGED published
    /\ Return(r, Error)
    /\ Goto(r, "done")
    /\ UNCHANGED <<sent, lock, rows>>

(* The API process dies: no finally, no answer. *)
Crash(r) ==
    /\ "crash" \in Failures
    /\ pc[r] \notin {"new", "done", "dead"}
    /\ Goto(r, "dead")
    /\ UNCHANGED <<sent, lock, rows, outcome, published>>

Work(r) == \/ TakeLock(r) \/ LockError(r) \/ ReadExisting(r) \/ Insert(r)
           \/ ReleaseLock(r) \/ Publish(r)

Next ==
    \/ \E r \in Requests :
         Send(r) \/ Work(r) \/ DatabaseFails(r) \/ PublishFails(r) \/ Crash(r)
    \/ \E k \in Keys : LockExpires(k)

Spec == Init /\ [][Next]_vars

-----------------------------------------------------------------------------
(* Properties.                                                             *)

(* README.md:171 and :676: whatever happens to Redis, a key has at most    *)
(* one payment, and the database alone guarantees it.                      *)
OnePaymentPerKey == \A a, b \in rows : a.key = b.key => a = b

(* A payment is handed to the workers at most once, and no two payments    *)
(* handed to them were asked for under the same key: losing the lock, a    *)
(* replay or a retry of the client never leads to a second charge.         *)
HandedOverOnce ==
    \A r \in Requests : published[r] > 0 =>
        /\ published[r] = 1
        /\ NewRow(r) \in rows
        /\ \A s \in Requests :
             published[s] > 0 /\ sent[s].key = sent[r].key => s = r

(* Any two requests of one key that were accepted, as the creator or as a  *)
(* replay, asked for the same and are told of the same payment; and what   *)
(* they are told of is in the table.                                       *)
IsAccepted(r) == outcome[r].kind \in {"created", "replayed"}

ReplayFaithful ==
    \A r \in Requests : IsAccepted(r) =>
        /\ \E row \in rows : /\ row.payment = outcome[r].payment
                             /\ row.key = sent[r].key
                             /\ row.hash = sent[r].body.content
        /\ \A s \in Requests :
             IsAccepted(s) /\ sent[s].key = sent[r].key =>
                 outcome[s].payment = outcome[r].payment

(* Nobody takes the lock from a request: it goes when its time is up or    *)
(* when its owner leaves the critical section.  A slow request whose lock  *)
(* expired must not delete the lock of the one that came after it.         *)
LockRespected ==
    [][\A k \in Keys : lock[k] # Nil /\ lock'[k] # lock[k] =>
           \/ pc' = pc
           \/ pc[lock[k]] = "release" /\ pc'[lock[k]] # "release"]_vars

(* race_test.py:4: of the concurrent requests of one key, exactly one is   *)
(* answered as new once all are answered, although the lock may expire and *)
(* Redis may fail: the losers never all wait for each other.  It takes an  *)
(* error or a dead process among them to leave all of them without it.     *)
RequestsOf(k) == {r \in Requests : sent[r] # Nil /\ sent[r].key = k}

ExactlyOneNew ==
    \A k \in Keys :
        /\ RequestsOf(k) # {}
        /\ \A r \in RequestsOf(k) : pc[r] = "done" /\ outcome[r] # Error
        => \E r \in RequestsOf(k) :
             /\ outcome[r].kind = "created"
             /\ \A s \in RequestsOf(k) : outcome[s].kind = "created" => s = r

(* A payment that a client was told about, even by a replay, has been      *)
(* handed to the workers or is about to be by the request that created it, *)
(* unless that one ended with an error or died.                            *)
AcceptedIsHandedOver ==
    \A r \in Requests : IsAccepted(r) =>
        LET creator == outcome[r].payment IN
        \/ published[creator] > 0
        \/ pc[creator] \in {"release", "publish", "dead"}
        \/ outcome[creator] = Error

(* What ties the requests to the table, and makes the properties above     *)
(* inductive: a row is the request that inserted it and has decided since, *)
(* an undecided request has done nothing, and only the creator of a        *)
(* payment reaches the publication, which it has not yet made.             *)
Undecided(r) == pc[r] \in {"new", "lock", "read", "insert"}

Bookkeeping ==
    /\ OnePaymentPerKey
    /\ \A row \in rows : row = NewRow(row.payment) /\ ~Undecided(row.payment)
    /\ \A r \in Requests :
         /\ Undecided(r) => outcome[r] = NoAnswer
         /\ Undecided(r) \/ pc[r] \in {"release", "publish"} =>
                published[r] = 0
         /\ pc[r] = "publish" => outcome[r].kind = "created"
         /\ outcome[r].kind = "created" => outcome[r].payment = r
         /\ published[r] > 0 => published[r] = 1 /\ NewRow(r) \in rows
         /\ IsAccepted(r) =>
              \E row \in rows : /\ row.payment = outcome[r].payment
                                /\ row.key = sent[r].key
                                /\ row.hash = sent[r].body.content

(* The contract of an idempotency key, with the lock hidden: an answer is  *)
(* decided when the transaction that decides it commits.                   *)
Contract == INSTANCE IdempotencyContract
                WITH answer <- outcome, tasks <- published

ImplementsContract == Contract!Spec
=============================================================================
