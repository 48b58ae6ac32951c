---------------------------- MODULE TokenBucket ----------------------------
(***************************************************************************)
(* What the rate limiter promises an identity: a bucket that holds at most *)
(* Capacity tokens, gains one each tick, and serves a request exactly when *)
(* it holds the request's cost.  RateLimiter implements it without a       *)
(* background job: it refills when a request arrives.                      *)
(***************************************************************************)
EXTENDS Integers

CONSTANTS
    Request,    \* slots for the requests in flight
    Cost,       \* token costs a request may have
    Capacity    \* tokens the bucket holds at most

VARIABLES
    level,      \* tokens in the bucket
    pc,         \* where each request is
    cost        \* what each request costs

vars == <<level, pc, cost>>

Init ==
    /\ level = Capacity
    /\ pc = [r \in Request |-> "idle"]
    /\ cost = [r \in Request |-> 0]

Goto(r, from, to) == pc[r] = from /\ pc' = [pc EXCEPT ![r] = to]

Arrive(r) ==
    /\ Goto(r, "idle", "sampled")
    /\ \E c \in Cost : cost' = [cost EXCEPT ![r] = c]
    /\ UNCHANGED level

Grant(r) ==
    /\ Goto(r, "sampled", "allowed")
    /\ level >= cost[r]
    /\ level' = level - cost[r]
    /\ UNCHANGED cost

Deny(r) ==
    /\ Goto(r, "sampled", "denied")
    /\ level < cost[r]
    /\ UNCHANGED <<level, cost>>

Leave(r) ==
    /\ pc[r] \in {"allowed", "denied"}
    /\ pc' = [pc EXCEPT ![r] = "idle"]
    /\ cost' = [cost EXCEPT ![r] = 0]
    /\ UNCHANGED level

Refill ==
    /\ level < Capacity
    /\ level' = level + 1
    /\ UNCHANGED <<pc, cost>>

Next ==
    \/ Refill
    \/ \E r \in Request : Arrive(r) \/ Grant(r) \/ Deny(r) \/ Leave(r)

Spec == Init /\ [][Next]_vars

=============================================================================
