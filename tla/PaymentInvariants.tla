------------------------- MODULE PaymentInvariants --------------------------
(***************************************************************************)
(* Inductive strengthenings of the invariants of PaymentProcessing: what   *)
(* has to be said of the tasks, the replies, the provider's records and    *)
(* the reconcilers for the invariants of the rows to be preserved by every *)
(* step.  TLC checks them on small instances; PaymentSafetyProofs and      *)
(* PaymentDeliveryProofs prove them for every one.                         *)
(***************************************************************************)
EXTENDS PaymentProcessing

(* The status every request of a scenario ends with at the provider. *)
Outcome(s) == IF s = "declined" THEN "FAILED" ELSE "SUCCEEDED"

(* The provider has finished charge n of p. *)
Settled(p, n) == n \in DOMAIN charges[p] /\ charges[p][n].status # "PROCESSING"

(* Nothing acts on a payment before its row exists. *)
RowFirst ==
    /\ \A p \in unpublished : status[p] # NoRow
    /\ \A t \in Tasks : queue[t] > 0 => status[t.payment] # NoRow
    /\ \A w \in Workers : pc[w] # "idle" => status[task[w].payment] # NoRow
    /\ \A p \in Payments : status[p] = NoRow => charges[p] = <<>>

(* A charge ends as its scenario says, and only a paid charge has a        *)
(* webhook.                                                                *)
ChargesFollowScenario ==
    \A p \in Payments : \A n \in DOMAIN charges[p] :
        /\ charges[p][n].status \in {"PROCESSING", Outcome(scenario[p])}
        /\ charges[p][n].webhook # "none" => charges[p][n].status = "SUCCEEDED"

(* The provider id of a row names a finished charge, and the row agrees    *)
(* with it: a payment that SUCCEEDED, refunded or not, was paid.           *)
RowsBacked ==
    \A p \in Payments :
        /\ providerId[p] # NoId => Settled(p, providerId[p])
        /\ status[p] \in {"SUCCEEDED", "REFUND_PENDING", "REFUNDED"} =>
              /\ failure[p] = NoCode
              /\ providerId[p] # NoId
              /\ Outcome(scenario[p]) = "SUCCEEDED"
        /\ status[p] = "FAILED" =>
              /\ failure[p] \in FinalFailures
              /\ failure[p] \in {"PROVIDER_DECLINED",
                                 "RECONCILED_PROVIDER_FAILURE"} =>
                    /\ providerId[p] # NoId
                    /\ Outcome(scenario[p]) = "FAILED"

(* A reply that names a charge names a finished one, and says FAILED just  *)
(* when the scenario does.                                                 *)
RepliesBacked ==
    \A w \in Workers :
        pc[w] = "answered" /\ reply[w].kind \in {"SUCCEEDED", "PROCESSING",
                                                 "FAILED"} =>
            /\ Settled(task[w].payment, reply[w].id)
            /\ reply[w].id # NoId
            /\ (reply[w].kind = "FAILED")
                  <=> (Outcome(scenario[task[w].payment]) = "FAILED")

(* A reconciler works on rows that have a provider id for good, and what   *)
(* it found is how the scenario ends.                                      *)
FindingsBacked ==
    \A r \in Reconcilers :
        /\ \A x \in todo[r] : providerId[x[1]] # NoId
        /\ finding[r] # Nil =>
              /\ providerId[finding[r].payment] # NoId
              /\ finding[r].status = Outcome(scenario[finding[r].payment])

(* The strengthening of FinalStatusBacked. *)
Backing ==
    /\ RowFirst
    /\ ChargesFollowScenario
    /\ RowsBacked
    /\ RepliesBacked
    /\ FindingsBacked

(* A worker that is past its first transaction works on a payment past     *)
(* CREATED, and a worker about to make that transaction, when no other     *)
(* runs for the payment, works on one that is still CREATED.               *)
PastCreated ==
    \A w \in Workers :
        pc[w] \in {"call", "answered", "retry"} =>
            status[task[w].payment] # "CREATED"

FreshStart ==
    \A w \in Workers : pc[w] = "start" => status[task[w].payment] = "CREATED"

(* The strengthening of SingleFlight and FailedIsFinal. *)
OneAtATime == RowFirst /\ SingleFlight /\ (OnceDelivered => FreshStart)

(* The broker holds the message of every task that runs. *)
EveryTaskLeased == \A w \in Workers : pc[w] # "idle" => w \in leased

(* The strengthening of NoOrphans. *)
Owned == PastCreated /\ (NothingLost => EveryTaskLeased) /\ NoOrphans
=============================================================================
