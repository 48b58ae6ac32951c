---------------------------- MODULE RateLimiter ----------------------------
(***************************************************************************)
(* Allow of internal/redisInternal/rateLimiter.go, for the requests of one *)
(* identity (every identity has a key of its own).                         *)
(*                                                                         *)
(* Allow reads the clock in the Go process and then has Redis run the      *)
(* token-bucket script, which is one atomic step.  Requests overlap, so    *)
(* the script runs may come in another order than the clock readings, up   *)
(* to MaxDelay ticks late.                                                 *)
(*                                                                         *)
(* A tick is the time in which one token comes back (2 s at 0.5 tokens per *)
(* second), so the refill rate is one and the key's expiry, twice the time *)
(* an empty bucket takes to fill, is 2 * Capacity ticks.                   *)
(***************************************************************************)
EXTENDS Integers

CONSTANTS
    Request,     \* slots for the requests in flight
    Cost,        \* PageTokenCost, FormTokenCost, JWTTokenCost, LLMTokenCost
    Capacity,    \* capacity: tokens a full bucket holds
    MaxDelay,    \* ticks a script run may lag behind its clock reading
    MaxClock,    \* bound: the clock stops here
    MaxCredit,   \* bound: no restart of Redis beyond this credit
    MaxRewound   \* bound: no script run beyond this total

ASSUME LimiterAssumption ==
    /\ Capacity \in Nat \ {0}
    /\ Cost \subseteq Nat
    /\ MaxDelay \in Nat /\ MaxClock \in Nat
    /\ MaxCredit \in Nat /\ MaxRewound \in Nat

VARIABLES
    tokens,     \* field maxTokens of the key, 0 when the key is absent
    last,       \* field last_refill, 0 when the key is absent
    ttl,        \* ticks the key has left, 0 when absent
    clock,      \* the time
    pc,         \* where each request is, or how Allow answered
    stamp,      \* now: the clock as each request read it
    cost,       \* what each request costs
    \* history, read by no action
    spent,      \* tokens of the requests answered "allowed"
    credit,     \* a full bucket whenever Redis starts, and one per tick
    rewound,    \* ticks by which script runs set last_refill back
    due         \* what a bucket would hold that gains a token each tick and
                \* pays what the script charges when it runs

bucket == <<tokens, last, ttl>>
vars == <<bucket, clock, pc, stamp, cost, spent, credit, rewound, due>>

TypeOK ==
    /\ tokens \in 0..Capacity /\ last \in 0..clock
    /\ ttl \in 0..(2 * Capacity)
    /\ clock \in Nat
    /\ pc \in [Request -> {"idle", "sampled", "allowed", "denied", "failed"}]
    /\ stamp \in [Request -> 0..clock]
    /\ cost \in [Request -> Nat]
    /\ spent \in Nat /\ credit \in Nat /\ rewound \in Nat
    /\ due \in 0..Capacity

Init ==
    /\ tokens = 0 /\ last = 0 /\ ttl = 0
    /\ clock = 0
    /\ pc = [r \in Request |-> "idle"]
    /\ stamp = [r \in Request |-> 0]
    /\ cost = [r \in Request |-> 0]
    /\ spent = 0 /\ credit = Capacity /\ rewound = 0 /\ due = Capacity

Goto(r, from, to) == pc[r] = from /\ pc' = [pc EXCEPT ![r] = to]

Lesser(x, y) == IF x < y THEN x ELSE y

\* now := time.Now(), in the Go process.
ReadClock(r) ==
    /\ Goto(r, "idle", "sampled")
    /\ stamp' = [stamp EXCEPT ![r] = clock]
    /\ \E c \in Cost : cost' = [cost EXCEPT ![r] = c]
    /\ UNCHANGED <<bucket, clock, spent, credit, rewound, due>>

\* Mutant: the refill is not clamped at zero.
ElapsedSigned(r) == stamp[r] - last

\* math.max(0, now - last_refill)
Elapsed(r) == IF stamp[r] > last THEN stamp[r] - last ELSE 0

\* The tokens the script finds: a full bucket under a missing key, otherwise
\* what was left and what came back since, at most Capacity.
Balance(r) ==
    IF ttl = 0 THEN Capacity ELSE Lesser(Capacity, tokens + Elapsed(r))

\* Mutant: a request that finds too little is charged what there is.
ChargedAlways(r) == IF Balance(r) >= cost[r] THEN Balance(r) - cost[r] ELSE 0

\* Mutant: the key is kept only as long as half a refill takes.
LifetimeShort == Capacity \div 2

\* Twice the ticks in which an empty bucket fills.
Lifetime == 2 * Capacity

\* What the script leaves in the bucket: a denied request costs nothing.
Charged(r) ==
    IF Balance(r) >= cost[r] THEN Balance(r) - cost[r] ELSE Balance(r)

\* One run of tokenBucketScript.
Script(r) ==
    LET from == IF ttl = 0 THEN clock ELSE last
        back == IF stamp[r] < from THEN from - stamp[r] ELSE 0
    IN  /\ rewound + back <= MaxRewound
        /\ tokens' = Charged(r)
        /\ last' = stamp[r]
        /\ ttl' = Lifetime
        /\ rewound' = rewound + back
        /\ due' = IF Balance(r) < cost[r] THEN due
                  ELSE IF due < cost[r] THEN 0 ELSE due - cost[r]

\* The script runs and Allow answers true.
RunAllowed(r) ==
    /\ Goto(r, "sampled", "allowed")
    /\ Balance(r) >= cost[r]
    /\ Script(r)
    /\ spent' = spent + cost[r]
    /\ UNCHANGED <<clock, stamp, cost, credit>>

\* The script runs and Allow answers false.
RunDenied(r) ==
    /\ Goto(r, "sampled", "denied")
    /\ Balance(r) < cost[r]
    /\ Script(r)
    /\ UNCHANGED <<clock, stamp, cost, spent, credit>>

\* The caller has the answer; the slot is free for another request.
Finish(r) ==
    /\ pc[r] \in {"allowed", "denied", "failed"}
    /\ pc' = [pc EXCEPT ![r] = "idle"]
    /\ stamp' = [stamp EXCEPT ![r] = 0]
    /\ cost' = [cost EXCEPT ![r] = 0]
    /\ UNCHANGED <<bucket, clock, spent, credit, rewound, due>>

\* Time passes and Redis drops the key when its time is over.
Tick ==
    /\ clock < MaxClock
    /\ \A r \in Request : pc[r] = "sampled" => clock - stamp[r] < MaxDelay
    /\ clock' = clock + 1 /\ credit' = credit + 1
    /\ ttl' = IF ttl = 0 THEN 0 ELSE ttl - 1
    /\ tokens' = IF ttl' = 0 THEN 0 ELSE tokens
    /\ last' = IF ttl' = 0 THEN 0 ELSE last
    /\ due' = Lesser(Capacity, due + 1)
    /\ UNCHANGED <<pc, stamp, cost, spent, rewound>>

\* The command fails, the reply cannot be read or the browser has left: the
\* callers of Allow turn the request away.
Fail(r) ==
    /\ Goto(r, "sampled", "failed")
    /\ UNCHANGED <<bucket, clock, stamp, cost, spent, credit, rewound, due>>

\* The script runs, its reply is lost and the client library sends it again,
\* with the arguments it had.
RunUnseen(r) ==
    /\ pc[r] = "sampled"
    /\ Script(r)
    /\ UNCHANGED <<clock, pc, stamp, cost, spent, credit>>

\* Redis loses its data: compose.yml gives it no volume.  A restart that reloads
\* an older snapshot is not modelled.
RedisRestart ==
    /\ credit + Capacity <= MaxCredit
    /\ tokens' = 0 /\ last' = 0 /\ ttl' = 0
    /\ credit' = credit + Capacity /\ due' = Capacity
    /\ UNCHANGED <<clock, pc, stamp, cost, spent, rewound>>

-----------------------------------------------------------------------------

Next ==
    \/ Tick
    \/ \E r \in Request :
           ReadClock(r) \/ RunAllowed(r) \/ RunDenied(r) \/ Finish(r)

Fault == RedisRestart \/ \E r \in Request : Fail(r) \/ RunUnseen(r)

Spec == Init /\ [][Next]_vars

FaultySpec == Init /\ [][Next \/ Fault]_vars

-----------------------------------------------------------------------------
(* Properties                                                              *)

\* However script runs and clock readings interleave, and whatever Redis
\* loses, an identity is granted no more than a full bucket for each start of
\* Redis, one token per tick, and the ticks refilled twice because a late run
\* set last_refill back (lines 78 to 97).
GrantsBounded == spent <= credit + rewound

\* Nobody is turned away without cause, however late the script runs come and
\* in whatever order, and though keys expire and retries are charged twice: a
\* denied request finds less than its cost in a bucket that gains a token each
\* tick, but for the ticks between its clock reading and its script run (lines
\* 72 to 93).  A limiter that lost refill time would break it.
DenialsJustified ==
    [][\A r \in Request :
           (pc[r] = "sampled" /\ pc'[r] = "denied")
               => due < cost[r] + (clock - stamp[r])]_vars

\* The bucket a client could infer: full without a key, otherwise what the
\* next script run would find.
Level ==
    IF ttl = 0 THEN Capacity ELSE Lesser(Capacity, tokens + (clock - last))

\* When the script runs at the time its caller read (MaxDelay = 0), the lazy
\* refill of lines 72 to 97 and the expiry of lines 99 to 104 cannot be told
\* from a bucket that gains a token every tick and never expires.
Abstract == INSTANCE TokenBucket WITH level <- Level

ImplementsTokenBucket == Abstract!Spec

=============================================================================
