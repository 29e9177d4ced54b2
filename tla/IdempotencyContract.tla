------------------------- MODULE IdempotencyContract -------------------------
(***************************************************************************)
(* What an Idempotency-Key promises (README.md, "Duplicate payment         *)
(* requests"): the first accepted request of a key creates its payment,    *)
(* later ones with the same content are told about that payment, ones with *)
(* another content are refused, and the payment is handed to the workers   *)
(* at most once.  There is no lock here: IdempotentCreation implements     *)
(* this specification whatever its lock does.                              *)
(***************************************************************************)
EXTENDS Naturals

CONSTANTS
    Requests,       \* the POST /v1/payments requests
    Keys,           \* the pairs of a merchant and an idempotency key
    Bodies,         \* the requests' contents and what their hash ignores
    Nil             \* not sent, no payment

VARIABLES
    sent,           \* the key and the body of each request, Nil before
    rows,           \* the payments that exist
    answer,         \* what has been decided for each request
    tasks           \* how often each payment was handed to the workers

contract == <<sent, rows, answer, tasks>>

NoAnswer == [kind |-> "none", payment |-> Nil]
Error == [kind |-> "error", payment |-> Nil]
Refusal(why) == [kind |-> why, payment |-> Nil]
Accepted(kind, p) == [kind |-> kind, payment |-> p]

Row(r) == [payment |-> r, key |-> sent[r].key, hash |-> sent[r].body.content]

RowsOf(k) == {row \in rows : row.key = k}

Init ==
    /\ sent = [r \in Requests |-> Nil]
    /\ rows = {}
    /\ answer = [r \in Requests |-> NoAnswer]
    /\ tasks = [r \in Requests |-> 0]

Send(r) ==
    /\ sent[r] = Nil
    /\ \E k \in Keys, b \in Bodies :
         sent' = [sent EXCEPT ![r] = [key |-> k, body |-> b]]
    /\ UNCHANGED <<rows, answer, tasks>>

Waiting(r) == sent[r] # Nil /\ answer[r] = NoAnswer

Decide(r, a) == answer' = [answer EXCEPT ![r] = a]

(* The first request of its key creates the payment.  If the reply of the  *)
(* database is lost, the client is told of an error.                       *)
Create(r) ==
    /\ Waiting(r)
    /\ RowsOf(sent[r].key) = {}
    /\ rows' = rows \cup {Row(r)}
    /\ \/ Decide(r, Accepted("created", r))
       \/ Decide(r, Error)
    /\ UNCHANGED <<sent, tasks>>

(* A request whose key has a payment is answered by comparing contents;    *)
(* one whose key has none may be told that another is being processed.     *)
Answer(r) ==
    /\ Waiting(r)
    /\ \/ \E row \in RowsOf(sent[r].key) :
            \/ /\ row.hash = sent[r].body.content
               /\ Decide(r, Accepted("replayed", row.payment))
            \/ /\ row.hash # sent[r].body.content
               /\ Decide(r, Refusal("mismatch"))
       \/ /\ RowsOf(sent[r].key) = {}
          /\ Decide(r, Refusal("busy"))
    /\ UNCHANGED <<sent, rows, tasks>>

(* The creator hands its payment over, at most once. *)
Hand(r) ==
    /\ answer[r] = Accepted("created", r)
    /\ tasks[r] = 0
    /\ tasks' = [tasks EXCEPT ![r] = 1]
    /\ \/ UNCHANGED answer
       \/ Decide(r, Error)
    /\ UNCHANGED <<sent, rows>>

(* Something failed: the client is told, or never hears. *)
Fail(r) ==
    /\ sent[r] # Nil
    /\ answer[r] \in {NoAnswer, Accepted("created", r)}
    /\ Decide(r, Error)
    /\ UNCHANGED <<sent, rows, tasks>>

Next == \E r \in Requests :
            Send(r) \/ Create(r) \/ Answer(r) \/ Hand(r) \/ Fail(r)

Spec == Init /\ [][Next]_contract
=============================================================================
