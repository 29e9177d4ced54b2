---------------------------- MODULE PaymentTable ----------------------------
(***************************************************************************)
(* The PostgreSQL tables payments, payment_events and outbox_events, with  *)
(* the transactions that every writer of a payment row shares: the ones of *)
(* app/workers/tasks.py and of app/services/payment_service.py.  Each      *)
(* operator is one transaction: it locks the row (SELECT ... FOR UPDATE),  *)
(* so the row it tests is the row it writes, and it commits as one step.   *)
(*                                                                         *)
(* Left out: version (written, never read), amounts, merchants and users.  *)
(* updated_at is kept only as far as the reconciliation job reads it: the  *)
(* set `recent` of payments whose row was written less than ten seconds    *)
(* ago.                                                                    *)
(***************************************************************************)
EXTENDS Naturals, Sequences, FiniteSets

CONSTANT Payments       \* the payment ids the API may hand out

VARIABLES
    status,             \* payments.status, NoRow before the INSERT
    providerId,         \* payments.provider_payment_id, NoId for NULL
    failure,            \* payments.failure_code, NoCode for NULL
    retryCount,         \* payments.retry_count
    ledger,             \* payment_events of each payment, in commit order
    outbox,             \* outbox_events of each payment, in commit order
    recent              \* payments with updated_at > NOW() - 10 seconds

table == <<status, providerId, failure, retryCount, ledger, outbox, recent>>

NoRow == "NONE"
NoId == 0
NoCode == "NULL"

Statuses == {"CREATED", "PROCESSING", "SUCCEEDED", "FAILED",
             "REFUND_PENDING", "REFUNDED"}

FinalFailures == {"PROVIDER_DECLINED", "RETRIES_EXHAUSTED",
                  "PROVIDER_REJECTED", "RECONCILED_PROVIDER_FAILURE",
                  "PROVIDER_WEBHOOK_FAILURE"}

FailureCodes == FinalFailures \cup {NoCode, "TRANSIENT"}

EventTypes == {"PAYMENT_CREATED", "PAYMENT_PROCESSING", "PAYMENT_SUCCEEDED",
               "PAYMENT_FAILED", "PAYMENT_AWAITING_WEBHOOK",
               "PAYMENT_RETRY_SCHEDULED", "PAYMENT_RECONCILED_SUCCEEDED",
               "PAYMENT_RECONCILED_FAILED", "PAYMENT_REFUND_PENDING",
               "PAYMENT_REFUNDED", "PAYMENT_PARTIALLY_REFUNDED"}

LedgerEvents == [type : EventTypes, prev : Statuses \cup {NoRow},
                 new : Statuses]

OutboxEvents == [type : EventTypes, new : Statuses]

(* A bug to detect: a late start reopens a success, as it does a failure. *)
ReopeningTransitions == {<<"CREATED", "PROCESSING">>,
                         <<"PROCESSING", "SUCCEEDED">>,
                         <<"PROCESSING", "FAILED">>,
                         <<"FAILED", "PROCESSING">>,
                         <<"SUCCEEDED", "PROCESSING">>}

(* The edges of valid_transitions in record_transition. *)
ValidTransitions == {<<"CREATED", "PROCESSING">>,
                     <<"PROCESSING", "SUCCEEDED">>,
                     <<"PROCESSING", "FAILED">>,
                     <<"FAILED", "PROCESSING">>,
                     <<"SUCCEEDED", "REFUND_PENDING">>,
                     <<"REFUND_PENDING", "REFUNDED">>,
                     <<"REFUND_PENDING", "SUCCEEDED">>}

TableTypeOK ==
    /\ status \in [Payments -> Statuses \cup {NoRow}]
    /\ providerId \in [Payments -> Nat]
    /\ failure \in [Payments -> FailureCodes]
    /\ retryCount \in [Payments -> Nat]
    /\ ledger \in [Payments -> Seq(LedgerEvents)]
    /\ outbox \in [Payments -> Seq(OutboxEvents)]
    /\ recent \subseteq Payments

TableInit ==
    /\ status = [p \in Payments |-> NoRow]
    /\ providerId = [p \in Payments |-> NoId]
    /\ failure = [p \in Payments |-> NoCode]
    /\ retryCount = [p \in Payments |-> 0]
    /\ ledger = [p \in Payments |-> <<>>]
    /\ outbox = [p \in Payments |-> <<>>]
    /\ recent = {}

(* A bug to detect: record_transition drops the provider id it is given. *)
CoalesceDropped(id, default) == default

Coalesce(id, default) == IF id = NoId THEN default ELSE id

(* INSERT INTO payment_events. *)
LogEvent(p, type, prev, new) ==
    ledger' = [ledger EXCEPT ![p] =
                 Append(@, [type |-> type, prev |-> prev, new |-> new])]

(* A bug to detect: the outbox INSERT is forgotten. *)
AnnounceForgotten(p, type, new) == UNCHANGED outbox

(* INSERT INTO outbox_events. *)
Announce(p, type, new) ==
    outbox' = [outbox EXCEPT ![p] = Append(@, [type |-> type, new |-> new])]

(* The body that record_transition, the webhook handler and the           *)
(* reconciliation job share: the UPDATE of the row, its ledger event and   *)
(* its outbox event, committed together.                                   *)
Commit(p, type, prev, new, id, code) ==
    /\ status' = [status EXCEPT ![p] = new]
    /\ providerId' = [providerId EXCEPT ![p] = id]
    /\ failure' = [failure EXCEPT ![p] = code]
    /\ recent' = recent \cup {p}
    /\ LogEvent(p, type, prev, new)
    /\ Announce(p, type, new)
    /\ UNCHANGED retryCount

(* create_idempotent_payment, the INSERT that found no row for the key.    *)
(* It writes a ledger event and no outbox event.                           *)
InsertPayment(p) ==
    /\ status[p] = NoRow
    /\ status' = [status EXCEPT ![p] = "CREATED"]
    /\ recent' = recent \cup {p}
    /\ LogEvent(p, "PAYMENT_CREATED", NoRow, "CREATED")
    /\ UNCHANGED <<providerId, failure, retryCount, outbox>>

(* record_transition raises ValueError, before it writes anything. *)
Refuses(p, new) ==
    /\ <<status[p], new>> \notin ValidTransitions
    /\ status[p] # new

(* record_transition.  A refused transition (ValueError) and a repeated    *)
(* one (silent return) both leave the tables alone.                        *)
RecordTransition(p, type, new, id, code) ==
    \/ /\ <<status[p], new>> \in ValidTransitions
       /\ Commit(p, type, status[p], new, Coalesce(id, providerId[p]), code)
    \/ /\ <<status[p], new>> \notin ValidTransitions
       /\ UNCHANGED table

(* A bug to detect: the provider id of a waiting payment is not stored. *)
AwaitWithoutId(p, id) ==
    \/ /\ status[p] = "PROCESSING"
       /\ recent' = recent \cup {p}
       /\ LogEvent(p, "PAYMENT_AWAITING_WEBHOOK", "PROCESSING", "PROCESSING")
       /\ UNCHANGED <<status, providerId, failure, retryCount, outbox>>
    \/ /\ status[p] # "PROCESSING"
       /\ UNCHANGED table

(* record_awaiting_webhook. *)
RecordAwaitingWebhook(p, id) ==
    \/ /\ status[p] = "PROCESSING"
       /\ providerId' = [providerId EXCEPT ![p] = id]
       /\ recent' = recent \cup {p}
       /\ LogEvent(p, "PAYMENT_AWAITING_WEBHOOK", "PROCESSING", "PROCESSING")
       /\ UNCHANGED <<status, failure, retryCount, outbox>>
    \/ /\ status[p] # "PROCESSING"
       /\ UNCHANGED table

(* A bug to detect: record_retry without its test of the status. *)
RetryUnchecked(p) ==
    /\ retryCount' = [retryCount EXCEPT ![p] = @ + 1]
    /\ failure' = [failure EXCEPT ![p] = "TRANSIENT"]
    /\ recent' = recent \cup {p}
    /\ LogEvent(p, "PAYMENT_RETRY_SCHEDULED", status[p], status[p])
    /\ UNCHANGED <<status, providerId, outbox>>

(* record_retry. *)
RecordRetry(p) ==
    \/ /\ status[p] = "PROCESSING"
       /\ retryCount' = [retryCount EXCEPT ![p] = @ + 1]
       /\ failure' = [failure EXCEPT ![p] = "TRANSIENT"]
       /\ recent' = recent \cup {p}
       /\ LogEvent(p, "PAYMENT_RETRY_SCHEDULED", status[p], status[p])
       /\ UNCHANGED <<status, providerId, outbox>>
    \/ /\ status[p] # "PROCESSING"
       /\ UNCHANGED table

-----------------------------------------------------------------------------
(* Consistency of the three tables.                                        *)

(* The ledger of a payment tells the whole story of its row: it starts     *)
(* with the creation, each event starts where the one before ended, every  *)
(* move it records is one of valid_transitions, and it ends at the row's   *)
(* status.  The webhook handler and the reconciliation job write the       *)
(* ledger without going through record_transition.                         *)
LedgerTellsRow(p) ==
    IF status[p] = NoRow
    THEN ledger[p] = <<>>
    ELSE LET log == ledger[p] IN
         /\ Len(log) >= 1
         /\ log[1].prev = NoRow /\ log[1].new = "CREATED"
         /\ log[Len(log)].new = status[p]
         /\ \A i \in 2 .. Len(log) :
              /\ log[i].prev = log[i - 1].new
              /\ \/ log[i].prev = log[i].new
                 \/ <<log[i].prev, log[i].new>> \in ValidTransitions

LedgerConsistent == \A p \in Payments : LedgerTellsRow(p)

(* The events of a log that record a change of status. *)
IsMove(e) == e.prev # e.new /\ e.prev # NoRow

Moves(log) == {i \in DOMAIN log : IsMove(log[i])}

(* How many of them come up to event i. *)
MovesUpTo(log, i) == Cardinality({j \in Moves(log) : j <= i})

(* README.md:205: "Payment and refund state changes also create an outbox  *)
(* record in the same database transaction": the outbox holds exactly the  *)
(* status changes of the ledger, in the ledger's order.                    *)
Announces(out, log) ==
    /\ Len(out) = Cardinality(Moves(log))
    /\ \A i \in Moves(log) :
          out[MovesUpTo(log, i)] = [type |-> log[i].type, new |-> log[i].new]

OutboxComplete == \A p \in Payments : Announces(outbox[p], ledger[p])
=============================================================================
