------------------------- MODULE RateLimiter_proofs -------------------------
(***************************************************************************)
(* Proofs about RateLimiter, for every capacity, every set of costs and    *)
(* requests and every delay.                                               *)
(*                                                                         *)
(* The bound on what is granted rests on a balance sheet: the tokens in    *)
(* the key, those already granted and those still to be refilled up to now *)
(* never exceed what the bucket has been given.  It needs ttl as well: a   *)
(* key disappears only when it has lain untouched for 2 * Capacity ticks,  *)
(* and by then the refill it loses is worth the full bucket that replaces  *)
(* it.                                                                     *)
(*                                                                         *)
(* That denials have a cause is the opposite bound: what the key is worth  *)
(* now never falls behind due, the bucket that is refilled every tick.     *)
(***************************************************************************)
EXTENDS RateLimiter, TLAPS

\* A key that is present was last run at most Lifetime - ttl ticks ago.
Expiry == ttl > 0 => ttl + (clock - last) >= Lifetime

\* Granted, in the bucket, and due by now.
Balanced ==
    /\ ttl > 0 => spent + tokens + (clock - last) <= credit + rewound
    /\ ttl = 0 => spent + Capacity <= credit + rewound

IInv == TypeOK /\ Expiry /\ Balanced

-----------------------------------------------------------------------------

\* What a script run finds is a legal bucket content, and no more than what
\* was left and what came back since, or a full bucket.
LEMMA BalanceBounds ==
    ASSUME TypeOK, NEW r \in Request
    PROVE  /\ Balance(r) \in 0..Capacity
           /\ ttl = 0 => Balance(r) = Capacity
           /\ stamp[r] >= last /\ ttl > 0
                  => Balance(r) <= tokens + (stamp[r] - last)
           /\ stamp[r] < last /\ ttl > 0 => Balance(r) <= tokens
  BY LimiterAssumption DEF TypeOK, Balance, Lesser, Elapsed

LEMMA InitInv == Init => IInv
  BY LimiterAssumption
  DEF Init, IInv, TypeOK, Expiry, Balanced, Lifetime

\* What a script run leaves in the bucket: no more than it found, and less by
\* the cost of a request it can serve.
LEMMA ChargedBounds ==
    ASSUME TypeOK, NEW r \in Request
    PROVE  /\ Charged(r) \in 0..Capacity /\ Charged(r) <= Balance(r)
           /\ Balance(r) >= cost[r] => Charged(r) + cost[r] = Balance(r)
<1>1. Balance(r) \in 0..Capacity /\ cost[r] \in Nat
  BY BalanceBounds DEF TypeOK
<1>2. QED
  BY <1>1, LimiterAssumption DEF Charged

\* A script run, whether or not its answer arrives, keeps the balance sheet
\* when what is granted fits what it took out.
LEMMA ScriptInv ==
    ASSUME IInv, NEW r \in Request, Script(r), NEW paid \in Nat,
           clock' = clock, credit' = credit, spent' = spent + paid,
           Charged(r) + paid <= Balance(r)
    PROVE  /\ tokens' \in 0..Capacity /\ last' \in 0..clock'
           /\ ttl' \in 0..(2 * Capacity)
           /\ spent' \in Nat /\ rewound' \in Nat
           /\ Expiry' /\ Balanced'
<1>1. /\ spent \in Nat /\ credit \in Nat /\ rewound \in Nat /\ clock \in Nat
      /\ tokens \in Nat /\ last \in 0..clock /\ ttl \in Nat
      /\ Capacity \in Nat /\ Capacity > 0
  BY LimiterAssumption DEF IInv, TypeOK
<1>2. PICK now \in 0..clock : now = stamp[r]
  BY DEF IInv, TypeOK
<1>3. PICK found \in 0..Capacity :
          /\ found = Balance(r)
          /\ ttl = 0 => found = Capacity
          /\ now >= last /\ ttl > 0 => found <= tokens + (now - last)
          /\ now < last /\ ttl > 0 => found <= tokens
  BY <1>2, BalanceBounds DEF IInv
<1>4. PICK left \in 0..Capacity : left = Charged(r)
  BY ChargedBounds DEF IInv
<1>5. left + paid <= found
  BY <1>3, <1>4
<1>6. tokens' = left /\ last' = now /\ ttl' = 2 * Capacity
  BY <1>2, <1>4 DEF Script, Lifetime
<1>7. PICK back \in Nat :
          /\ rewound' = rewound + back
          /\ ttl = 0 => back = clock - now
          /\ ttl > 0 /\ now < last => back = last - now
          /\ ttl > 0 /\ now >= last => back = 0
  <2>1. CASE ttl = 0
    <3>1. rewound' = rewound + (clock - now)
      BY <2>1, <1>1, <1>2 DEF Script
    <3>2. QED BY <2>1, <3>1, <1>1
  <2>2. CASE ttl > 0 /\ now < last
    <3>1. rewound' = rewound + (last - now)
      BY <2>2, <1>1, <1>2 DEF Script
    <3>2. QED BY <2>2, <3>1, <1>1
  <2>3. CASE ttl > 0 /\ now >= last
    <3>1. rewound' = rewound + 0
      BY <2>3, <1>1, <1>2 DEF Script
    <3>2. QED BY <2>3, <3>1, <1>1
  <2>4. QED
    BY <2>1, <2>2, <2>3, <1>1
<1>8. /\ tokens' \in 0..Capacity /\ last' \in 0..clock'
      /\ ttl' \in 0..(2 * Capacity) /\ ttl' > 0
      /\ spent' \in Nat /\ rewound' \in Nat
  BY <1>1, <1>6, <1>7
<1>9. Expiry'
  BY <1>1, <1>6 DEF Expiry, Lifetime
<1>10. Balanced'
  <2>1. spent + found + (clock - now) <= credit + rewound + back
    BY <1>1, <1>3, <1>7 DEF IInv, Balanced
  <2>2. spent + paid + left + (clock - now) <= credit + rewound + back
    BY <2>1, <1>1, <1>5, <1>7
  <2>3. spent' + tokens' + (clock' - last') <= credit' + rewound'
    BY <2>2, <1>1, <1>6, <1>7
  <2>4. QED
    BY <2>3, <1>8 DEF Balanced
<1>11. QED
  BY <1>8, <1>9, <1>10

LEMMA ScriptDue ==
    ASSUME TypeOK, NEW r \in Request, Script(r)
    PROVE  due' \in 0..Capacity
<1>1. due \in 0..Capacity /\ cost[r] \in Nat /\ Capacity \in Nat
  BY LimiterAssumption DEF TypeOK
<1>2. due' = due \/ due' = 0 \/ (due >= cost[r] /\ due' = due - cost[r])
  BY <1>1 DEF Script
<1>3. QED
  BY <1>1, <1>2

\* No step, faults included, leaves IInv.
LEMMA StepInv == IInv /\ [Next \/ Fault]_vars => IInv'
<1> SUFFICES ASSUME IInv, [Next \/ Fault]_vars PROVE IInv'
  OBVIOUS
<1> USE LimiterAssumption DEF bucket
<1>1. ASSUME NEW r \in Request, ReadClock(r) PROVE IInv'
  BY <1>1 DEF ReadClock, Goto, IInv, TypeOK, Expiry, Balanced, Lifetime
<1>2. ASSUME NEW r \in Request, RunAllowed(r) PROVE IInv'
  <2>1. Script(r) /\ clock' = clock /\ credit' = credit
        /\ spent' = spent + cost[r] /\ Balance(r) >= cost[r]
    BY <1>2 DEF RunAllowed
  <2>2. cost[r] \in Nat /\ Charged(r) + cost[r] <= Balance(r)
    BY <2>1, ChargedBounds, BalanceBounds DEF IInv, TypeOK
  <2>3. QED BY <2>2, <1>2, <2>1, ScriptInv, ScriptDue DEF RunAllowed, Goto, IInv, TypeOK
<1>3. ASSUME NEW r \in Request, RunDenied(r) PROVE IInv'
  <2>1. Script(r) /\ clock' = clock /\ credit' = credit
        /\ spent' = spent + 0
    BY <1>3 DEF RunDenied, IInv, TypeOK
  <2>2. Charged(r) + 0 <= Balance(r)
    BY ChargedBounds, BalanceBounds DEF IInv
  <2>3. QED BY <2>2, <1>3, <2>1, ScriptInv, ScriptDue DEF RunDenied, Goto, IInv, TypeOK
<1>4. ASSUME NEW r \in Request, Finish(r) PROVE IInv'
  BY <1>4 DEF Finish, IInv, TypeOK, Expiry, Balanced, Lifetime
<1>5. ASSUME NEW r \in Request, Fail(r) PROVE IInv'
  BY <1>5 DEF Fail, Goto, IInv, TypeOK, Expiry, Balanced, Lifetime
<1>6. ASSUME NEW r \in Request, RunUnseen(r) PROVE IInv'
  <2>1. Script(r) /\ clock' = clock /\ credit' = credit
        /\ spent' = spent + 0
    BY <1>6 DEF RunUnseen, IInv, TypeOK
  <2>2. Charged(r) + 0 <= Balance(r)
    BY ChargedBounds, BalanceBounds DEF IInv
  <2>3. QED BY <2>2, <1>6, <2>1, ScriptInv, ScriptDue DEF RunUnseen, IInv, TypeOK
<1>7. CASE Tick
  <2>1. TypeOK'
    BY <1>7 DEF Tick, IInv, TypeOK, Lesser
  <2>2. Expiry'
    BY <1>7 DEF Tick, IInv, TypeOK, Expiry, Lifetime
  <2>3. Balanced'
    BY <1>7 DEF Tick, IInv, TypeOK, Expiry, Balanced, Lifetime
  <2>4. QED BY <2>1, <2>2, <2>3 DEF IInv
<1>8. CASE RedisRestart
  BY <1>8 DEF RedisRestart, IInv, TypeOK, Expiry, Balanced, Lifetime
<1>9. CASE UNCHANGED vars
  BY <1>9 DEF vars, IInv, TypeOK, Expiry, Balanced, Lifetime
<1>10. QED
  BY <1>1, <1>2, <1>3, <1>4, <1>5, <1>6, <1>7, <1>8, <1>9 DEF Next, Fault

\* The states of RateLimiter have their types: the bucket never holds more than
\* its capacity, nor less than nothing.
THEOREM TypeCorrect == FaultySpec => []TypeOK
<1>1. IInv => TypeOK
  BY DEF IInv
<1>2. QED
  BY <1>1, InitInv, StepInv, PTL DEF FaultySpec

\* An identity is granted no more than its bucket was given, for any capacity,
\* costs, delays, lost replies and restarts.
THEOREM GrantsStayBounded == FaultySpec => []GrantsBounded
<1>1. IInv => GrantsBounded
  BY LimiterAssumption DEF IInv, TypeOK, Balanced, GrantsBounded
<1>2. QED
  BY <1>1, InitInv, StepInv, PTL DEF FaultySpec

-----------------------------------------------------------------------------
(* Nobody is turned away without cause                                     *)

LEMMA LevelType == TypeOK => Level \in 0..Capacity
  BY LimiterAssumption DEF TypeOK, Level, Lesser

\* A run with an old clock reading finds at most the missing ticks too little.
LEMMA LateBalance ==
    ASSUME TypeOK, NEW r \in Request
    PROVE  Balance(r) >= Level - (clock - stamp[r])
<1>1. /\ tokens \in 0..Capacity /\ last \in 0..clock /\ clock \in Nat
      /\ Capacity \in Nat /\ ttl \in Nat /\ stamp[r] \in 0..clock
  BY LimiterAssumption DEF TypeOK
<1>2. CASE ttl = 0
  BY <1>1, <1>2 DEF Balance, Level
<1>3. CASE ttl # 0
  <2>1. Level <= Capacity /\ Level <= tokens + (clock - last)
    BY <1>1, <1>3 DEF Level, Lesser
  <2>2. \/ Balance(r) = Capacity
        \/ stamp[r] > last /\ Balance(r) = tokens + (stamp[r] - last)
        \/ stamp[r] <= last /\ Balance(r) = tokens
    BY <1>1, <1>3 DEF Balance, Lesser, Elapsed
  <2>3. Level \in 0..Capacity
    BY LevelType
  <2>4. QED
    BY <1>1, <2>1, <2>2, <2>3
<1>4. QED
  BY <1>2, <1>3

\* What it finds too little is not lost: the next run refills the same ticks
\* again, since last_refill is set to the old reading.
LEMMA LateLevel ==
    ASSUME TypeOK, NEW r \in Request, Script(r), clock' = clock
    PROVE  /\ Balance(r) < cost[r] => Level' >= Level
           /\ Balance(r) >= cost[r] => Level' >= Level - cost[r]
           /\ Level' \in Nat
<1>1. /\ tokens \in 0..Capacity /\ last \in 0..clock /\ clock \in Nat
      /\ Capacity \in Nat /\ Capacity > 0 /\ ttl \in Nat
      /\ stamp[r] \in 0..clock /\ cost[r] \in Nat
  BY LimiterAssumption DEF TypeOK
<1>2. PICK late \in 0..clock : late = clock - stamp[r]
  BY <1>1
<1>3. PICK found \in 0..Capacity : found = Balance(r)
  BY BalanceBounds
<1>4. PICK now \in 0..Capacity : now = Level
  BY LevelType
<1>5. now <= Capacity /\ (now <= found + late)
  BY <1>1, <1>2, <1>3, <1>4, LateBalance
<1>6. PICK left \in 0..Capacity : left = Charged(r)
  BY ChargedBounds
<1>7. /\ found < cost[r] => left = found
      /\ found >= cost[r] => left = found - cost[r]
  BY <1>1, <1>3, <1>6 DEF Charged
<1>8. tokens' = left /\ clock' - last' = late /\ ttl' # 0
  BY <1>1, <1>2, <1>6 DEF Script, Lifetime
<1>9. Level' = IF Capacity < left + late THEN Capacity ELSE left + late
  BY <1>8 DEF Level, Lesser
<1>10. /\ found < cost[r] => Level' >= now
       /\ found >= cost[r] => Level' >= now - cost[r]
       /\ Level' \in Nat
  BY <1>1, <1>2, <1>5, <1>7, <1>9
<1>11. QED
  BY <1>3, <1>4, <1>10

\* The limiter's bucket never holds less than the one that is refilled each tick.
NeverShort == due <= Level

\* The passing of a tick refills the abstract bucket or finds it full; the
\* expiry of the key goes unnoticed.
LEMMA TickLevel ==
    ASSUME TypeOK, Expiry, Tick
    PROVE  \/ Level < Capacity /\ Level' = Level + 1
           \/ Level = Capacity /\ Level' = Level
<1>1. /\ tokens \in 0..Capacity /\ last \in 0..clock /\ clock \in Nat
      /\ ttl \in Nat /\ Capacity \in Nat /\ Capacity > 0
      /\ clock' = clock + 1
  BY LimiterAssumption DEF TypeOK, Tick
<1>2. CASE ttl = 0
  BY <1>1, <1>2 DEF Tick, Level
<1>3. CASE ttl = 1
  <2>1. clock - last >= Capacity
    BY <1>1, <1>3 DEF Expiry, Lifetime
  <2>2. Level = Capacity
    BY <1>1, <1>3, <2>1 DEF Level, Lesser
  <2>3. Level' = Capacity
    BY <1>1, <1>3 DEF Tick, Level
  <2>4. QED BY <2>2, <2>3
<1>4. CASE ttl > 1
  <2>1. ttl' > 0 /\ ttl' \in Nat /\ tokens' = tokens /\ last' = last
    BY <1>1, <1>4 DEF Tick
  <2>2. Level' = Lesser(Capacity, tokens + (clock + 1 - last))
    BY <1>1, <2>1 DEF Level
  <2>3. Level = Lesser(Capacity, tokens + (clock - last))
    BY <1>1, <1>4 DEF Level
  <2>4. QED
    BY <1>1, <2>2, <2>3 DEF Lesser
<1>5. QED
  BY <1>1, <1>2, <1>3, <1>4

LEMMA StepNeverShort ==
    ASSUME IInv, NeverShort, [Next \/ Fault]_vars
    PROVE  NeverShort'
<1>1. /\ due \in 0..Capacity /\ Level \in 0..Capacity /\ due <= Level
      /\ Capacity \in Nat
  BY LevelType, LimiterAssumption DEF IInv, TypeOK, NeverShort
<1>2. ASSUME NEW r \in Request, Script(r), clock' = clock PROVE NeverShort'
  <2>1. /\ cost[r] \in Nat /\ Balance(r) \in 0..Capacity
    BY BalanceBounds DEF IInv, TypeOK
  <2>2. \/ Balance(r) < cost[r] /\ due' = due
        \/ Balance(r) >= cost[r] /\ due < cost[r] /\ due' = 0
        \/ Balance(r) >= cost[r] /\ due >= cost[r] /\ due' = due - cost[r]
    BY <1>1, <1>2, <2>1 DEF Script
  <2>3. /\ Balance(r) < cost[r] => Level' >= Level
        /\ Balance(r) >= cost[r] => Level' >= Level - cost[r]
        /\ Level' \in Nat
    BY <1>2, LateLevel DEF IInv
  <2>4. due' <= Level'
    BY <1>1, <2>1, <2>2, <2>3
  <2>5. QED
    BY <2>4 DEF NeverShort
<1>3. ASSUME NEW r \in Request, RunAllowed(r) \/ RunDenied(r) \/ RunUnseen(r)
      PROVE  NeverShort'
  BY <1>2, <1>3 DEF RunAllowed, RunDenied, RunUnseen
<1>4. ASSUME NEW r \in Request, ReadClock(r) \/ Finish(r) \/ Fail(r)
      PROVE  NeverShort'
  BY <1>1, <1>4 DEF ReadClock, Finish, Fail, bucket, NeverShort, Level
<1>5. CASE Tick
  <2>1. due' = IF Capacity < due + 1 THEN Capacity ELSE due + 1
    BY <1>5 DEF Tick, Lesser
  <2>2. \/ Level < Capacity /\ Level' = Level + 1
        \/ Level = Capacity /\ Level' = Level
    BY <1>5, TickLevel DEF IInv
  <2>3. QED
    BY <1>1, <2>1, <2>2 DEF NeverShort
<1>6. CASE RedisRestart
  BY <1>1, <1>6 DEF RedisRestart, NeverShort, Level
<1>7. CASE UNCHANGED vars
  BY <1>1, <1>7 DEF vars, bucket, NeverShort, Level
<1>8. QED
  BY <1>3, <1>4, <1>5, <1>6, <1>7 DEF Next, Fault

\* No request is denied what a bucket that is refilled each tick would have
\* granted it, but for the ticks its script run was late: for any capacity,
\* costs, delays, retries and restarts.
THEOREM DenialsHaveCause == FaultySpec => DenialsJustified
<1> DEFINE A == \A r \in Request :
                   (pc[r] = "sampled" /\ pc'[r] = "denied")
                       => due < cost[r] + (clock - stamp[r])
<1>1. Init => IInv /\ NeverShort
  BY InitInv, LimiterAssumption DEF Init, NeverShort, Level
<1>2. IInv /\ NeverShort /\ [Next \/ Fault]_vars => (IInv /\ NeverShort)'
  BY StepInv, StepNeverShort
<1>3. IInv /\ NeverShort /\ [Next \/ Fault]_vars => [A]_vars
  <2> SUFFICES ASSUME IInv, NeverShort, Next \/ Fault, NEW r \in Request,
                      pc[r] = "sampled", pc'[r] = "denied"
               PROVE  due < cost[r] + (clock - stamp[r])
    BY DEF vars
  <2>1. pc \in [Request -> {"idle", "sampled", "allowed", "denied", "failed"}]
    BY DEF IInv, TypeOK
  <2>2. Balance(r) < cost[r]
    BY <2>1
    DEF Next, Fault, ReadClock, RunAllowed, RunDenied, Finish, Tick, Fail,
        RunUnseen, RedisRestart, Goto
  <2>3. Balance(r) >= Level - (clock - stamp[r])
    BY LateBalance DEF IInv
  <2>4. /\ Balance(r) \in Nat /\ Level \in Nat /\ due \in Nat /\ due <= Level
        /\ cost[r] \in Nat /\ clock \in Nat /\ stamp[r] \in Nat
    BY BalanceBounds, LevelType, LimiterAssumption DEF IInv, TypeOK, NeverShort
  <2>5. QED
    BY <2>2, <2>3, <2>4
<1>4. QED
  BY <1>1, <1>2, <1>3, PTL DEF FaultySpec, DenialsJustified

-----------------------------------------------------------------------------
(* Without delay, RateLimiter implements TokenBucket.                      *)

\* Whoever waits for the script has just read the clock; nobody has failed.
Fresh ==
    \A r \in Request :
        /\ pc[r] # "failed"
        /\ pc[r] = "sampled" => stamp[r] = clock

LEMMA FreshInit == Init => Fresh
  BY DEF Init, Fresh

LEMMA FreshStep ==
    ASSUME MaxDelay = 0, TypeOK, Fresh, [Next]_vars
    PROVE  Fresh'
<1> USE DEF TypeOK, Fresh
<1>1. ASSUME NEW r \in Request, ReadClock(r) PROVE Fresh'
  BY <1>1 DEF ReadClock, Goto
<1>2. ASSUME NEW r \in Request, RunAllowed(r) PROVE Fresh'
  BY <1>2 DEF RunAllowed, Goto
<1>3. ASSUME NEW r \in Request, RunDenied(r) PROVE Fresh'
  BY <1>3 DEF RunDenied, Goto
<1>4. ASSUME NEW r \in Request, Finish(r) PROVE Fresh'
  BY <1>4 DEF Finish
<1>5. CASE Tick
  BY <1>5 DEF Tick
<1>6. CASE UNCHANGED vars
  BY <1>6 DEF vars
<1>7. QED
  BY <1>1, <1>2, <1>3, <1>4, <1>5, <1>6 DEF Next

\* A request whose reading is fresh finds the abstract bucket's level.
LEMMA FreshBalance ==
    ASSUME TypeOK, NEW r \in Request, stamp[r] = clock
    PROVE  Balance(r) = Level /\ Level \in 0..Capacity
  BY LimiterAssumption DEF TypeOK, Balance, Elapsed, Level, Lesser

\* After a run with a fresh reading the level is what the script wrote.
LEMMA FreshLevel ==
    ASSUME TypeOK, NEW r \in Request, stamp[r] = clock, Script(r),
           clock' = clock
    PROVE  Level' = Charged(r)
<1>1. PICK left \in 0..Capacity : left = Charged(r)
  BY ChargedBounds
<1>2. tokens' = left /\ last' = clock /\ ttl' = 2 * Capacity
  BY <1>1 DEF Script, Lifetime
<1>3. clock \in Nat /\ Capacity \in Nat /\ Capacity > 0
  BY LimiterAssumption DEF TypeOK
<1>4. Level' = left
  BY <1>2, <1>3 DEF Level, Lesser
<1>5. QED
  BY <1>1, <1>4

LEMMA StepRefines ==
    ASSUME TypeOK, Expiry, Fresh, [Next]_vars
    PROVE  [Abstract!Next]_(Abstract!vars)
<1>1. ASSUME NEW r \in Request, ReadClock(r) PROVE Abstract!Arrive(r)
  BY <1>1 DEF ReadClock, Goto, bucket, Level, Abstract!Arrive, Abstract!Goto
<1>2. ASSUME NEW r \in Request, RunAllowed(r) PROVE Abstract!Grant(r)
  <2>1. stamp[r] = clock /\ Script(r) /\ clock' = clock
    BY <1>2 DEF RunAllowed, Goto, Fresh
  <2>2. Level >= cost[r] /\ Level' = Level - cost[r]
    BY <1>2, <2>1, FreshBalance, FreshLevel DEF RunAllowed, Charged
  <2>3. QED
    BY <1>2, <2>2 DEF RunAllowed, Goto, Abstract!Grant, Abstract!Goto
<1>3. ASSUME NEW r \in Request, RunDenied(r) PROVE Abstract!Deny(r)
  <2>1. stamp[r] = clock /\ Script(r) /\ clock' = clock /\ Balance(r) < cost[r]
    BY <1>3 DEF RunDenied, Goto, Fresh
  <2>2. cost[r] \in Nat
    BY DEF TypeOK
  <2>3. Level < cost[r] /\ Level' = Level
    BY <2>1, <2>2, FreshBalance, FreshLevel, LimiterAssumption DEF Charged
  <2>4. QED
    BY <1>3, <2>3 DEF RunDenied, Goto, Abstract!Deny, Abstract!Goto
<1>4. ASSUME NEW r \in Request, Finish(r) PROVE Abstract!Leave(r)
  BY <1>4 DEF Finish, Fresh, bucket, Level, Abstract!Leave
<1>5. CASE Tick
  <2>1. UNCHANGED <<pc, cost>>
    BY <1>5 DEF Tick
  <2>2. QED
    BY <1>5, <2>1, TickLevel DEF Abstract!Next, Abstract!Refill, Abstract!vars
<1>6. CASE UNCHANGED vars
  BY <1>6 DEF vars, bucket, Level, Abstract!vars
<1>7. QED
  BY <1>1, <1>2, <1>3, <1>4, <1>5, <1>6 DEF Next, Abstract!Next

\* When every script run comes at the time its caller read, clients cannot
\* tell the lazily refilled, expiring key from an abstract token bucket.
THEOREM LazyRefillIsExact ==
    ASSUME MaxDelay = 0
    PROVE  Spec => ImplementsTokenBucket
<1>1. Init => Abstract!Init
  BY DEF Init, Level, Abstract!Init
<1>2. IInv /\ Fresh /\ [Next]_vars => IInv' /\ Fresh'
  BY StepInv, FreshStep DEF IInv
<1>3. IInv /\ Fresh /\ [Next]_vars => [Abstract!Next]_(Abstract!vars)
  BY StepRefines DEF IInv
<1>4. QED
  BY <1>1, <1>2, <1>3, InitInv, FreshInit, PTL
  DEF Spec, ImplementsTokenBucket, Abstract!Spec

=============================================================================
