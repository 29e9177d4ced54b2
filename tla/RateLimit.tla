------------------------------ MODULE RateLimit ------------------------------
(***************************************************************************)
(* The fixed-window rate limiter in front of the /v1/ endpoints, for the   *)
(* requests of one API key: clients with different keys count apart.       *)
(*                                                                         *)
(* main.py adds RateLimitMiddleware twice, so a request passes two layers, *)
(* each with a Redis client of its own and both on the same Redis key.  A  *)
(* layer looks at the clock first and counts in the window it saw, which   *)
(* may have turned by then.  INCR and EXPIRE are one MULTI, so counting is *)
(* one step.  The numbers in the response headers are left out.            *)
(***************************************************************************)
EXTENDS Naturals, FiniteSets

CONSTANTS
    Requests,       \* the requests of the client
    Limit,          \* RATE_LIMIT_REQUESTS
    LastWindow      \* bound: how often the window may turn

Windows == 0 .. LastWindow

VARIABLES
    now,            \* time.time() // RATE_LIMIT_WINDOW_SECONDS
    counter,        \* the Redis key of each window, 0 when absent
    place,          \* the layer each request is at, or how it ended
    window,         \* the window its layer has seen, as a set: {} before
    seen            \* the windows each request was counted in

vars == <<now, counter, place, window, seen>>

Init ==
    /\ now = 0
    /\ counter = [w \in Windows |-> 0]
    /\ place = [q \in Requests |-> "outer"]
    /\ window = [q \in Requests |-> {}]
    /\ seen = [q \in Requests |-> {}]

(* call_next of each layer. *)
Onward == [outer |-> "inner", inner |-> "admitted"]

(* dispatch up to the key it counts on. *)
SeeWindow(q) ==
    /\ place[q] \in DOMAIN Onward
    /\ window[q] = {}
    /\ window' = [window EXCEPT ![q] = {now}]
    /\ UNCHANGED <<now, counter, place, seen>>

(* The pipeline: INCR and EXPIRE of the key of window w. *)
Incr(q, w) ==
    /\ counter' = [counter EXCEPT ![w] = @ + 1]
    /\ seen' = [seen EXCEPT ![q] = @ \cup {w}]

(* dispatch, when Redis answers. *)
Count(q) ==
    \E w \in window[q] :
        /\ Incr(q, w)
        /\ place' = [place EXCEPT ![q] =
                        IF counter'[w] > Limit THEN "refused" ELSE Onward[@]]
        /\ window' = [window EXCEPT ![q] = {}]
        /\ UNCHANGED now

(* dispatch fails open: a RedisError lets the request pass, whether or not *)
(* the pipeline took effect.                                               *)
FailOpen(q) ==
    \E w \in window[q] :
        /\ Incr(q, w) \/ UNCHANGED <<counter, seen>>
        /\ place' = [place EXCEPT ![q] = Onward[@]]
        /\ window' = [window EXCEPT ![q] = {}]
        /\ UNCHANGED now

WindowTurns ==
    /\ now < LastWindow
    /\ now' = now + 1
    /\ UNCHANGED <<counter, place, window, seen>>

(* EXPIRE: a key lasts a second longer than a window after it was counted  *)
(* on, so that its own window is over when it goes.                        *)
KeyExpires(w) ==
    /\ w < now
    /\ counter[w] > 0
    /\ counter' = [counter EXCEPT ![w] = 0]
    /\ UNCHANGED <<now, place, window, seen>>

Next ==
    \/ \E q \in Requests : SeeWindow(q) \/ Count(q) \/ FailOpen(q)
    \/ WindowTurns
    \/ \E w \in Windows : KeyExpires(w)

Spec == Init /\ [][Next]_vars

(* The requests counted in a window, whatever became of them. *)
Made(w) == {q \in Requests : w \in seen[q]}

(* RATE_LIMIT_REQUESTS=100, RATE_LIMIT_WINDOW_SECONDS=60 (README.md:337):  *)
(* a request is refused only in a window in which the client has made more *)
(* requests than that.                                                     *)
RefusedBeyondLimit ==
    \A q \in Requests :
        place[q] = "refused" => \E w \in seen[q] : Cardinality(Made(w)) > Limit
=============================================================================
