----------------------------- MODULE OTP_proofs -----------------------------
(***************************************************************************)
(* Proofs about OTP, for any number of requests and any lifetimes, with    *)
(* every fault the module has: FaultySpec.                                 *)
(*                                                                         *)
(* The argument: a CreateOTP call mails its code only after its own SET,   *)
(* SET and DEL, so once a code is mailed the pipeline that installed it    *)
(* has been seen in full (todo = {}), whatever other pipelines ran in      *)
(* between.  From the DEL on, the counter counts every submission compared *)
(* with the code and lives at least as long as the code; from the second   *)
(* SET on, the cooldown outlasts the code by the difference of their       *)
(* lifetimes.                                                              *)
(***************************************************************************)
EXTENDS OTP, FiniteSetTheorems, TLAPS

\* Whoever is at work holds a code, and a call that has drawn one and not
\* yet mailed it is alone with it.
OwnCode ==
    /\ \A r \in Request :
           pc[r] \in Creating \cup Verifying => mine[r] # 0
    /\ \A r \in Request : pc[r] \in Creating => mine[r] \notin mailed
    /\ \A r, s \in Request :
           (pc[r] \in Creating /\ pc[s] \in Creating /\ r # s)
               => mine[r] # mine[s]

\* How far the pipeline of the live code has come.
Progress ==
    /\ \A r \in Request :
           (code # 0 /\ mine[r] = code /\ pc[r] = "delAttempts")
               => "setCooldown" \notin todo
    /\ \A r \in Request :
           (code # 0 /\ mine[r] = code /\ pc[r] = "mail") => todo = {}
    /\ code \in mailed => todo = {}

\* Since the counter of the live code was reset it has counted every
\* comparison, and it expires no sooner than the code.
Counting ==
    (code # 0 /\ "delAttempts" \notin todo) =>
        /\ tries <= attempts /\ tries <= MaxAttempts
        /\ attempts > 0 => (attemptsTTL = Forever \/ codeTTL <= attemptsTTL)

\* The cooldown set along with the live code has kept pace with it.
Cooling ==
    (code # 0 /\ "setCooldown" \notin todo) =>
        codeTTL + ResendCooldown <= cooldown + OtpTTL

Core == TypeOK /\ OwnCode /\ Progress /\ Counting /\ Cooling

\* Requests begin one by one, so only so many pipelines are under way.
Few == IsFiniteSet(Installing)

IInv == Core /\ Few

-----------------------------------------------------------------------------

\* SetCode puts a pipeline under way; DelAttempts, or a failure, ends it.
LEMMA InstallingSteps ==
    ASSUME TypeOK, [NextFaulty]_vars
    PROVE  \/ Installing' = Installing
           \/ \E r \in Request : /\ SetCode(r) /\ r \notin Installing
                                 /\ Installing' = Installing \cup {r}
           \/ \E r \in Installing : /\ DelAttempts(r) \/ Abandon(r)
                                    /\ Installing' = Installing \ {r}
<1> USE DEF Installing, Goto
<1>1. pc \in [Request -> {"idle"} \cup Creating \cup Verifying \cup Outcome]
  BY DEF TypeOK
<1>2. ASSUME NEW r \in Request, SetCode(r)
      PROVE  r \notin Installing /\ Installing' = Installing \cup {r}
  BY <1>1, <1>2 DEF SetCode
<1>3. ASSUME NEW r \in Request, DelAttempts(r)
      PROVE  r \in Installing /\ Installing' = Installing \ {r}
  BY <1>1, <1>3 DEF DelAttempts
<1>4. ASSUME NEW r \in Request, Abandon(r)
      PROVE  \/ Installing' = Installing
             \/ r \in Installing /\ Installing' = Installing \ {r}
  BY <1>1, <1>4 DEF Abandon
<1>5. ASSUME NEW r \in Request,
             CheckCooldown(r) \/ ReadCode(r) \/ SetCooldown(r) \/ SendMail(r)
      PROVE  Installing' = Installing
  BY <1>1, <1>5 DEF CheckCooldown, ReadCode, SetCooldown, SendMail
<1>6. ASSUME NEW r \in Request,
             \/ CountAttempt(r) \/ ExpireCounter(r) \/ DelLocked(r)
             \/ DelUsed(r) \/ Finish(r)
      PROVE  Installing' = Installing
  BY <1>1, <1>6
  DEF CountAttempt, ExpireCounter, DelLocked, DelUsed, Finish, Counted,
      Compared, Outcome
<1>7. ASSUME NEW r \in Request,
             MailReplyLost(r) \/ ExpireLost(r) \/ DelLost(r) \/ CountUnseen(r)
      PROVE  Installing' = Installing
  BY <1>1, <1>7 DEF MailReplyLost, ExpireLost, DelLost, CountUnseen, Compared
<1>8. CASE Tick \/ RedisRestart \/ UNCHANGED vars
  BY <1>8 DEF Tick, RedisRestart, vars
<1>9. QED
  BY <1>2, <1>3, <1>4, <1>5, <1>6, <1>7, <1>8
  DEF NextFaulty, Next, Fault, Continue

LEMMA StepFew == TypeOK /\ Few /\ [NextFaulty]_vars => Few'
<1> SUFFICES ASSUME TypeOK, Few, [NextFaulty]_vars PROVE IsFiniteSet(Installing')
  BY DEF Few
<1>1. IsFiniteSet(Installing)
  BY DEF Few
<1>2. ASSUME NEW r \in Request PROVE IsFiniteSet(Installing \cup {r})
  BY <1>1, FS_AddElement
<1>3. ASSUME NEW r \in Request PROVE IsFiniteSet(Installing \ {r})
  BY <1>1, FS_RemoveElement
<1>4. QED
  BY <1>1, <1>2, <1>3, InstallingSteps DEF Installing

LEMMA InitInv == Init => IInv
<1> SUFFICES ASSUME Init PROVE IInv
  OBVIOUS
<1>1. Core
  BY OtpAssumption
  DEF Init, Core, TypeOK, OwnCode, Progress, Counting, Cooling, Forever,
      Creating, Verifying, Pipeline
<1>2. Installing = {}
  BY DEF Init, Installing
<1>3. QED
  BY <1>1, <1>2, FS_EmptySet DEF IInv, Few

\* No step, faults included, leaves IInv.
LEMMA StepInv == IInv /\ [NextFaulty]_vars => IInv'
<1> SUFFICES ASSUME IInv, [NextFaulty]_vars PROVE IInv'
  OBVIOUS
<1>0. Few'
  BY StepFew DEF IInv, Core
<1> USE OtpAssumption
  DEF IInv, Core, TypeOK, OwnCode, Progress, Counting, Cooling, keyVars, history,
      Forever, Creating, Verifying, Pipeline, Outcome
<1>1. ASSUME NEW r \in Request, CheckCooldown(r) PROVE Core'
  <2>1. TypeOK'
    <3>1. /\ mine' \in [Request -> 0..issued'] /\ issued' \in Nat
          /\ issued <= issued'
      BY <1>1 DEF CheckCooldown
    <3>2. code' \in 0..issued'
      BY <1>1, <3>1 DEF CheckCooldown
    <3>3. 1..issued \subseteq 1..issued'
      BY <3>1
    <3>4. mailed' \subseteq 1..issued' /\ used' \subseteq 1..issued'
      BY <1>1, <3>3 DEF CheckCooldown
    <3>5. pc' \in [Request ->
                     {"idle"} \cup Creating \cup Verifying \cup Outcome]
      BY <1>1 DEF CheckCooldown, Goto
    <3>6. QED BY <1>1, <3>1, <3>2, <3>4, <3>5 DEF CheckCooldown
  <2>2. OwnCode'
    BY <1>1 DEF CheckCooldown, Goto
  <2>3. Progress'
    BY <1>1 DEF CheckCooldown, Goto
  <2>4. Counting'
    BY <1>1 DEF CheckCooldown, Goto
  <2>5. Cooling'
    BY <1>1 DEF CheckCooldown, Goto
  <2>6. QED BY <2>1, <2>2, <2>3, <2>4, <2>5
<1>2. ASSUME NEW r \in Request, SetCode(r) PROVE Core'
  <2>1. TypeOK'
    <3>1. Cardinality(Installing) \in Nat
      BY FS_CardinalityType DEF Few
    <3>2. QED BY <1>2, <3>1 DEF SetCode, Goto
  <2>2. OwnCode'
    BY <1>2 DEF SetCode, Goto
  <2>3. Progress'
    BY <1>2 DEF SetCode, Goto
  <2>4. Counting'
    BY <1>2 DEF SetCode, Goto
  <2>5. Cooling'
    BY <1>2 DEF SetCode, Goto
  <2>6. QED BY <2>1, <2>2, <2>3, <2>4, <2>5
<1>3. ASSUME NEW r \in Request, SetCooldown(r) PROVE Core'
  <2>1. TypeOK'
    BY <1>3 DEF SetCooldown, Goto
  <2>2. OwnCode'
    BY <1>3 DEF SetCooldown, Goto
  <2>3. Progress'
    BY <1>3 DEF SetCooldown, Goto
  <2>4. Counting'
    BY <1>3 DEF SetCooldown, Goto
  <2>5. Cooling'
    BY <1>3 DEF SetCooldown, Goto
  <2>6. QED BY <2>1, <2>2, <2>3, <2>4, <2>5
<1>4. ASSUME NEW r \in Request, DelAttempts(r) PROVE Core'
  <2>1. TypeOK'
    BY <1>4 DEF DelAttempts, Goto
  <2>2. OwnCode'
    BY <1>4 DEF DelAttempts, Goto
  <2>3. Progress'
    BY <1>4 DEF DelAttempts, Goto
  <2>4. Counting'
    BY <1>4 DEF DelAttempts, Goto
  <2>5. Cooling'
    BY <1>4 DEF DelAttempts, Goto
  <2>6. QED BY <2>1, <2>2, <2>3, <2>4, <2>5
<1>5. ASSUME NEW r \in Request, SendMail(r) PROVE Core'
  <2>1. TypeOK'
    <3>1. mine[r] \in 1..issued
      BY <1>5 DEF SendMail, Goto
    <3>2. mailed' \subseteq 1..issued'
      BY <1>5, <3>1 DEF SendMail, Goto
    <3>3. QED BY <1>5, <3>2 DEF SendMail, Goto
  <2>2. OwnCode'
    BY <1>5 DEF SendMail, Goto
  <2>3. Progress'
    BY <1>5 DEF SendMail, Goto
  <2>4. Counting'
    BY <1>5 DEF SendMail, Goto
  <2>5. Cooling'
    BY <1>5 DEF SendMail, Goto
  <2>6. QED BY <2>1, <2>2, <2>3, <2>4, <2>5
<1>6. ASSUME NEW r \in Request, ReadCode(r) PROVE Core'
  <2>1. TypeOK'
    BY <1>6 DEF ReadCode, Goto
  <2>2. OwnCode'
    BY <1>6 DEF ReadCode, Goto
  <2>3. Progress'
    BY <1>6 DEF ReadCode, Goto
  <2>4. Counting'
    BY <1>6 DEF ReadCode, Goto
  <2>5. Cooling'
    BY <1>6 DEF ReadCode, Goto
  <2>6. QED BY <2>1, <2>2, <2>3, <2>4, <2>5
<1>7. ASSUME NEW r \in Request, CountAttempt(r) PROVE Core'
  <2>1. TypeOK'
    BY <1>7 DEF CountAttempt, Goto, Incr, Counted, Compared
  <2>2. OwnCode'
    BY <1>7 DEF CountAttempt, Goto, Incr, Counted, Compared
  <2>3. Progress'
    BY <1>7 DEF CountAttempt, Goto, Incr, Counted, Compared
  <2>4. Counting'
    BY <1>7 DEF CountAttempt, Goto, Incr, Counted, Compared
  <2>5. Cooling'
    BY <1>7 DEF CountAttempt, Goto, Incr, Counted, Compared
  <2>6. QED BY <2>1, <2>2, <2>3, <2>4, <2>5
<1>8. ASSUME NEW r \in Request, ExpireCounter(r) PROVE Core'
  <2>1. TypeOK'
    BY <1>8 DEF ExpireCounter, Goto, Compared
  <2>2. OwnCode'
    BY <1>8 DEF ExpireCounter, Goto, Compared
  <2>3. Progress'
    BY <1>8 DEF ExpireCounter, Goto, Compared
  <2>4. Counting'
    BY <1>8 DEF ExpireCounter, Goto, Compared
  <2>5. Cooling'
    BY <1>8 DEF ExpireCounter, Goto, Compared
  <2>6. QED BY <2>1, <2>2, <2>3, <2>4, <2>5
<1>9. ASSUME NEW r \in Request, DelLocked(r) PROVE Core'
  <2>1. TypeOK'
    BY <1>9 DEF DelLocked, Goto
  <2>2. OwnCode'
    BY <1>9 DEF DelLocked, Goto
  <2>3. Progress'
    BY <1>9 DEF DelLocked, Goto
  <2>4. Counting'
    BY <1>9 DEF DelLocked, Goto
  <2>5. Cooling'
    BY <1>9 DEF DelLocked, Goto
  <2>6. QED BY <2>1, <2>2, <2>3, <2>4, <2>5
<1>10. ASSUME NEW r \in Request, DelUsed(r) PROVE Core'
  <2>1. TypeOK'
    <3>1. mine[r] \in 1..issued
      BY <1>10 DEF DelUsed, Goto
    <3>2. used' \subseteq 1..issued'
      BY <1>10, <3>1 DEF DelUsed, Goto
    <3>3. QED BY <1>10, <3>2 DEF DelUsed, Goto
  <2>2. OwnCode'
    BY <1>10 DEF DelUsed, Goto
  <2>3. Progress'
    BY <1>10 DEF DelUsed, Goto
  <2>4. Counting'
    BY <1>10 DEF DelUsed, Goto
  <2>5. Cooling'
    BY <1>10 DEF DelUsed, Goto
  <2>6. QED BY <2>1, <2>2, <2>3, <2>4, <2>5
<1>11. ASSUME NEW r \in Request, Finish(r) PROVE Core'
  <2>1. TypeOK'
    BY <1>11 DEF Finish
  <2>2. OwnCode'
    BY <1>11 DEF Finish
  <2>3. Progress'
    BY <1>11 DEF Finish
  <2>4. Counting'
    BY <1>11 DEF Finish
  <2>5. Cooling'
    BY <1>11 DEF Finish
  <2>6. QED BY <2>1, <2>2, <2>3, <2>4, <2>5
<1>12. ASSUME NEW r \in Request, Abandon(r) PROVE Core'
  <2>1. TypeOK'
    BY <1>12 DEF Abandon
  <2>2. OwnCode'
    BY <1>12 DEF Abandon
  <2>3. Progress'
    BY <1>12 DEF Abandon
  <2>4. Counting'
    BY <1>12 DEF Abandon
  <2>5. Cooling'
    BY <1>12 DEF Abandon
  <2>6. QED BY <2>1, <2>2, <2>3, <2>4, <2>5
<1>13. ASSUME NEW r \in Request, MailReplyLost(r) PROVE Core'
  <2>1. TypeOK'
    <3>1. mine[r] \in 1..issued
      BY <1>13 DEF MailReplyLost, Goto
    <3>2. mailed' \subseteq 1..issued'
      BY <1>13, <3>1 DEF MailReplyLost, Goto
    <3>3. QED BY <1>13, <3>2 DEF MailReplyLost, Goto
  <2>2. OwnCode'
    BY <1>13 DEF MailReplyLost, Goto
  <2>3. Progress'
    BY <1>13 DEF MailReplyLost, Goto
  <2>4. Counting'
    BY <1>13 DEF MailReplyLost, Goto
  <2>5. Cooling'
    BY <1>13 DEF MailReplyLost, Goto
  <2>6. QED BY <2>1, <2>2, <2>3, <2>4, <2>5
<1>14. ASSUME NEW r \in Request, ExpireLost(r) PROVE Core'
  <2>1. TypeOK'
    BY <1>14 DEF ExpireLost, Goto, Compared
  <2>2. OwnCode'
    BY <1>14 DEF ExpireLost, Goto, Compared
  <2>3. Progress'
    BY <1>14 DEF ExpireLost, Goto, Compared
  <2>4. Counting'
    BY <1>14 DEF ExpireLost, Goto, Compared
  <2>5. Cooling'
    BY <1>14 DEF ExpireLost, Goto, Compared
  <2>6. QED BY <2>1, <2>2, <2>3, <2>4, <2>5
<1>15. ASSUME NEW r \in Request, DelLost(r) PROVE Core'
  <2>1. TypeOK'
    <3>1. mine[r] \in 1..issued
      BY <1>15 DEF DelLost, Goto
    <3>2. used' \subseteq 1..issued'
      BY <1>15, <3>1 DEF DelLost, Goto
    <3>3. QED BY <1>15, <3>2 DEF DelLost, Goto
  <2>2. OwnCode'
    BY <1>15 DEF DelLost, Goto
  <2>3. Progress'
    BY <1>15 DEF DelLost, Goto
  <2>4. Counting'
    BY <1>15 DEF DelLost, Goto
  <2>5. Cooling'
    BY <1>15 DEF DelLost, Goto
  <2>6. QED BY <2>1, <2>2, <2>3, <2>4, <2>5
<1>16. ASSUME NEW r \in Request, CountUnseen(r) PROVE Core'
  <2>1. TypeOK'
    BY <1>16 DEF CountUnseen, Incr
  <2>2. OwnCode'
    BY <1>16 DEF CountUnseen, Incr
  <2>3. Progress'
    BY <1>16 DEF CountUnseen, Incr
  <2>4. Counting'
    BY <1>16 DEF CountUnseen, Incr
  <2>5. Cooling'
    BY <1>16 DEF CountUnseen, Incr
  <2>6. QED BY <2>1, <2>2, <2>3, <2>4, <2>5
<1>17. ASSUME Tick PROVE Core'
  <2>1. TypeOK'
    BY <1>17 DEF Tick, Aged
  <2>2. OwnCode'
    BY <1>17 DEF Tick, Aged
  <2>3. Progress'
    BY <1>17 DEF Tick, Aged
  <2>4. Counting'
    BY <1>17 DEF Tick, Aged
  <2>5. Cooling'
    BY <1>17 DEF Tick, Aged
  <2>6. QED BY <2>1, <2>2, <2>3, <2>4, <2>5
<1>18. ASSUME RedisRestart PROVE Core'
  BY <1>18 DEF RedisRestart
<1>19. ASSUME UNCHANGED vars PROVE Core'
  BY <1>19 DEF vars
<1>20. QED
  BY <1>0, <1>1, <1>2, <1>3, <1>4, <1>5, <1>6, <1>7, <1>8, <1>9, <1>10, <1>11, <1>12, <1>13, <1>14, <1>15, <1>16, <1>17, <1>18, <1>19
  DEF NextFaulty, Next, Fault, Continue

\* The values of the variables, faults included.
THEOREM TypeCorrect == FaultySpec => []TypeOK
<1>1. IInv => TypeOK
  BY DEF IInv, Core
<1>2. QED
  BY <1>1, InitInv, StepInv, PTL DEF FaultySpec

\* A code its owner has received meets at most MaxAttempts submissions between
\* two resets of its counter, under every fault: the guarantee VerifyOTP's
\* counter is there for.
THEOREM TriesBounded == FaultySpec => []MailedCodeTries
<1>1. IInv => MailedCodeTries
  <2>1. SUFFICES ASSUME IInv, code \in mailed PROVE tries <= MaxAttempts
    BY DEF MailedCodeTries
  <2>2. code # 0
    BY <2>1 DEF IInv, Core, TypeOK
  <2>3. "delAttempts" \notin todo
    BY <2>1 DEF IInv, Core, Progress
  <2>4. QED
    BY <2>1, <2>2, <2>3 DEF IInv, Core, Counting
<1>2. QED
  BY <1>1, InitInv, StepInv, PTL DEF FaultySpec

\* No code is drawn while a mailed one has been live for less than
\* ResendCooldown ticks, under every fault.
THEOREM CooldownKept == FaultySpec => NoEarlyReissue
<1> DEFINE A == \A r \in Request :
                   (pc[r] = "idle" /\ pc'[r] = "setCode" /\ code \in mailed)
                       => codeTTL + ResendCooldown <= OtpTTL
<1>1. IInv /\ [NextFaulty]_vars => [A]_vars
  <2> SUFFICES ASSUME IInv, NextFaulty, NEW r \in Request,
                      pc[r] = "idle", pc'[r] = "setCode", code \in mailed
               PROVE  codeTTL + ResendCooldown <= OtpTTL
    BY DEF vars
  <2>1. cooldown = 0
    <3>1. pc \in [Request ->
                     {"idle"} \cup Creating \cup Verifying \cup Outcome]
      BY DEF IInv, Core, TypeOK
    <3> USE <3>1 DEF Goto
    <3>2. ~Tick /\ ~RedisRestart
      BY DEF Tick, RedisRestart
    <3>3. ASSUME NEW s \in Request PROVE ~Continue(s)
      BY DEF Continue, SetCode, SetCooldown, DelAttempts, SendMail,
             CountAttempt, ExpireCounter, DelLocked, DelUsed, Finish,
             Counted, Compared
    <3>4. ASSUME NEW s \in Request PROVE ~ReadCode(s)
      BY DEF ReadCode
    <3>5. ASSUME NEW s \in Request
          PROVE  /\ ~Abandon(s) /\ ~MailReplyLost(s) /\ ~ExpireLost(s)
                 /\ ~DelLost(s) /\ ~CountUnseen(s)
      BY DEF Abandon, MailReplyLost, ExpireLost, DelLost, CountUnseen, Compared
    <3>6. PICK s \in Request : CheckCooldown(s)
      BY <3>2, <3>3, <3>4, <3>5 DEF NextFaulty, Next, Fault
    <3>7. QED
      BY <3>6 DEF CheckCooldown
  <2>2. code # 0 /\ "setCooldown" \notin todo
    BY DEF IInv, Core, TypeOK, Progress
  <2>3. QED
    BY <2>1, <2>2, OtpAssumption DEF IInv, Core, TypeOK, Cooling
<1>2. QED
  BY <1>1, InitInv, StepInv, PTL DEF FaultySpec, NoEarlyReissue

-----------------------------------------------------------------------------
(* The comparisons of a code over all its resets                           *)

\* What the pipelines still under way can give the live code: MaxAttempts more
\* comparisons for each DEL to come.  Before the first DEL they are one more
\* than overlap; from then on each DEL trades its share for the comparisons
\* counted in tries, which start over.
Resets ==
    IF code = 0 THEN total = 0
    ELSE IF "delAttempts" \in todo
    THEN total = 0 /\ Cardinality(Installing) <= overlap + 1
    ELSE total + MaxAttempts * Cardinality(Installing)
             <= MaxAttempts * overlap + tries

RInv == IInv /\ Resets

LEMMA TimesMore ==
    ASSUME NEW m \in Nat, NEW j \in Nat, NEW k \in Nat, j <= k
    PROVE  m * j <= m * k /\ m * j \in Nat
  OBVIOUS

LEMMA TimesOneMore ==
    ASSUME NEW m \in Nat, NEW k \in Nat
    PROVE  m * (k + 1) = m * k + m /\ m * (1 + k) = m * k + m
  OBVIOUS

\* Everything but SetCode, DelAttempts, CountAttempt and what removes the code
\* leaves the bound alone, or takes a pipeline away.
LEMMA ResetsKept ==
    ASSUME IInv, Resets,
           UNCHANGED <<code, total, overlap, tries, todo>>,
           \/ Installing' = Installing
           \/ \E r \in Installing : Installing' = Installing \ {r}
    PROVE  Resets'
<1> DEFINE n == Cardinality(Installing)
<1>1. n \in Nat
  BY FS_CardinalityType DEF IInv, Few
<1>2. Cardinality(Installing') \in Nat /\ Cardinality(Installing') <= n
  <2>1. CASE Installing' = Installing
    BY <1>1, <2>1
  <2>2. CASE \E r \in Installing : Installing' = Installing \ {r}
    <3>1. PICK r \in Installing : Installing' = Installing \ {r}
      BY <2>2
    <3>2. IsFiniteSet(Installing)
      BY DEF IInv, Few
    <3>3. /\ IsFiniteSet(Installing \ {r})
          /\ Cardinality(Installing \ {r}) = n - 1
      BY <3>2, FS_RemoveElement
    <3>4. Cardinality(Installing \ {r}) \in Nat
      BY <3>3, FS_CardinalityType
    <3>5. QED BY <1>1, <3>1, <3>3, <3>4
  <2>3. QED BY <2>1, <2>2
<1>3. MaxAttempts * Cardinality(Installing') <= MaxAttempts * n
  BY <1>1, <1>2, TimesMore, OtpAssumption
<1>4. /\ MaxAttempts * Cardinality(Installing') \in Int
      /\ MaxAttempts * n \in Int /\ MaxAttempts * overlap \in Int
      /\ total \in Int /\ overlap \in Int /\ tries \in Int
  BY <1>1, <1>2, OtpAssumption DEF IInv, Core, TypeOK
<1> HIDE DEF n
<1>5. QED
  <2>1. CASE code = 0
    BY <2>1 DEF Resets
  <2>2. CASE code # 0 /\ "delAttempts" \in todo
    BY <1>1, <1>2, <1>4, <2>2 DEF Resets, n
  <2>3. CASE code # 0 /\ "delAttempts" \notin todo
    <3>1. total + MaxAttempts * n <= MaxAttempts * overlap + tries
      BY <2>3 DEF Resets, n
    <3>2. total + MaxAttempts * Cardinality(Installing')
             <= MaxAttempts * overlap + tries
      BY <1>3, <1>4, <3>1
    <3>3. QED
      BY <2>3, <3>2 DEF Resets
  <2>4. QED BY <2>1, <2>2, <2>3

LEMMA StepResets == RInv /\ [NextFaulty]_vars => RInv'
<1> SUFFICES ASSUME IInv, Resets, [NextFaulty]_vars PROVE Resets'
  BY StepInv DEF RInv
<1> DEFINE n == Cardinality(Installing)
<1>0. IInv'
  BY StepInv
<1>1. n \in Nat
  BY FS_CardinalityType DEF IInv, Few
<1>2. /\ code \in Nat /\ total \in Nat /\ overlap \in Nat /\ tries \in Nat
      /\ MaxAttempts \in Nat
      /\ pc \in [Request -> {"idle"} \cup Creating \cup Verifying \cup Outcome]
  BY OtpAssumption DEF IInv, Core, TypeOK
<1>3. IsFiniteSet(Installing)
  BY DEF IInv, Few
<1>4. ASSUME NEW r \in Request, SetCode(r) PROVE Resets'
  <2>1. r \notin Installing /\ Installing' = Installing \cup {r}
    BY <1>2, <1>4 DEF SetCode, Goto, Installing
  <2>2. Cardinality(Installing') = n + 1
    BY <1>3, <2>1, FS_AddElement
  <2>3. overlap' = n /\ total' = 0 /\ todo' = Pipeline
    BY <1>4 DEF SetCode
  <2> HIDE DEF n
  <2>4. QED
    BY <1>1, <2>2, <2>3 DEF Resets, Pipeline
<1>5. ASSUME NEW r \in Request, DelAttempts(r) PROVE Resets'
  <2>1. r \in Installing /\ Installing' = Installing \ {r}
    BY <1>2, <1>5 DEF DelAttempts, Goto, Installing
  <2> DEFINE k == Cardinality(Installing')
  <2>2. k = n - 1 /\ k \in Nat
    <3>1. Cardinality(Installing \ {r}) = n - 1
      BY <1>3, <2>1, FS_RemoveElement
    <3>2. IsFiniteSet(Installing \ {r})
      BY <1>3, FS_RemoveElement
    <3>3. Cardinality(Installing \ {r}) \in Nat
      BY <3>2, FS_CardinalityType
    <3>4. QED BY <2>1, <3>1, <3>3
  <2>3. n = k + 1
    BY <1>1, <2>2
  <2>4. /\ code' = code /\ total' = total /\ overlap' = overlap /\ tries' = 0
        /\ "delAttempts" \notin todo'
    BY <1>5 DEF DelAttempts
  <2>5. MaxAttempts * n = MaxAttempts * k + MaxAttempts
    BY <1>2, <2>2, <2>3, TimesOneMore
  <2>6. /\ MaxAttempts * k \in Int /\ MaxAttempts * n \in Int
        /\ MaxAttempts * overlap \in Int
    BY <1>1, <1>2, <2>2
  <2> HIDE DEF n, k
  <2>7. CASE code = 0
    BY <2>4, <2>7 DEF Resets
  <2>8. CASE code # 0 /\ "delAttempts" \in todo
    <3>1. total = 0 /\ k <= overlap
      BY <1>1, <1>2, <2>2, <2>3, <2>8 DEF Resets, n
    <3>2. MaxAttempts * k <= MaxAttempts * overlap
      BY <1>2, <2>2, <3>1, TimesMore
    <3>3. total + MaxAttempts * k <= MaxAttempts * overlap + 0
      BY <2>6, <3>1, <3>2
    <3>4. QED
      BY <2>4, <2>8, <3>3 DEF Resets, k
  <2>9. CASE code # 0 /\ "delAttempts" \notin todo
    <3>1. total + MaxAttempts * n <= MaxAttempts * overlap + tries
      BY <2>9 DEF Resets, n
    <3>2. tries <= MaxAttempts
      BY <2>9 DEF IInv, Core, Counting
    <3>3. total + MaxAttempts * k <= MaxAttempts * overlap + 0
      BY <1>2, <2>5, <2>6, <3>1, <3>2
    <3>4. QED
      BY <2>4, <2>9, <3>3 DEF Resets, k
  <2>10. QED BY <2>7, <2>8, <2>9
<1>6. ASSUME NEW r \in Request, CountAttempt(r) PROVE Resets'
  <2>1. Installing' = Installing
    BY <1>2, <1>6 DEF CountAttempt, Goto, Installing, Counted, Compared
  <2>2. /\ code' = code /\ overlap' = overlap /\ todo' = todo
        /\ \/ tries' = tries /\ total' = total
           \/ code # 0 /\ tries' = tries + 1 /\ "delAttempts" \notin todo
              /\ total' = total + 1
           \/ code # 0 /\ "delAttempts" \in todo /\ total' = total
    BY <1>6 DEF CountAttempt
  <2>3. MaxAttempts * n \in Int /\ MaxAttempts * overlap \in Int
    BY <1>1, <1>2
  <2>4. n = Cardinality(Installing')
    BY <2>1
  <2> HIDE DEF n
  <2>5. CASE code = 0
    BY <2>2, <2>5 DEF Resets
  <2>6. CASE code # 0 /\ "delAttempts" \in todo
    <3>1. total = 0 /\ n <= overlap + 1
      BY <2>6 DEF Resets, n
    <3>2. total' = 0
      BY <2>2, <2>6, <3>1
    <3>3. QED
      BY <2>2, <2>4, <2>6, <3>1, <3>2 DEF Resets
  <2>7. CASE code # 0 /\ "delAttempts" \notin todo
    <3>1. total + MaxAttempts * n <= MaxAttempts * overlap + tries
      BY <2>7 DEF Resets, n
    <3>2. total' + MaxAttempts * n <= MaxAttempts * overlap + tries'
      BY <1>2, <2>2, <2>3, <2>7, <3>1
    <3>3. QED
      BY <2>2, <2>4, <2>7, <3>2 DEF Resets
  <2>8. QED BY <2>5, <2>6, <2>7
<1>7. ASSUME NEW r \in Request, DelLocked(r) \/ DelUsed(r) PROVE Resets'
  BY <1>7 DEF DelLocked, DelUsed, Resets
<1>8. ASSUME RedisRestart PROVE Resets'
  BY <1>8 DEF RedisRestart, Resets
<1>9. ASSUME Tick PROVE Resets'
  <2>1. CASE codeTTL' = 0
    BY <1>9, <2>1 DEF Tick, Resets
  <2>2. CASE codeTTL' # 0
    <3>1. UNCHANGED <<code, total, overlap, tries, todo, pc>>
      BY <1>9, <2>2 DEF Tick
    <3>2. Installing' = Installing
      BY <3>1 DEF Installing
    <3>3. QED BY <3>1, <3>2, ResetsKept
  <2>3. QED BY <2>1, <2>2
<1>10. ASSUME NEW r \in Request, Abandon(r) PROVE Resets'
  <2>1. UNCHANGED <<code, total, overlap, tries, todo>>
    BY <1>10 DEF Abandon, keyVars, history
  <2>2. \/ Installing' = Installing
        \/ \E s \in Installing : Installing' = Installing \ {s}
    BY <1>2, <1>10 DEF Abandon, Installing
  <2>3. QED BY <2>1, <2>2, ResetsKept
<1>11. ASSUME NEW r \in Request,
              \/ CheckCooldown(r) \/ ReadCode(r) \/ SendMail(r)
              \/ ExpireCounter(r) \/ Finish(r) \/ MailReplyLost(r)
              \/ ExpireLost(r) \/ DelLost(r) \/ CountUnseen(r)
       PROVE  Resets'
  <2>1. UNCHANGED <<code, total, overlap, tries, todo>>
    BY <1>11
    DEF CheckCooldown, ReadCode, SendMail, ExpireCounter, Finish,
        MailReplyLost, ExpireLost, DelLost, CountUnseen, keyVars, history
  <2>2. Installing' = Installing
    BY <1>2, <1>11
    DEF CheckCooldown, ReadCode, SendMail, ExpireCounter, Finish,
        MailReplyLost, ExpireLost, DelLost, CountUnseen, Goto, Compared,
        Installing, Outcome
  <2>3. QED BY <2>1, <2>2, ResetsKept
<1>12. ASSUME NEW r \in Request, SetCooldown(r) PROVE Resets'
  <2>1. /\ UNCHANGED <<code, total, overlap, tries>>
        /\ ("delAttempts" \in todo') = ("delAttempts" \in todo)
    BY <1>12 DEF SetCooldown
  <2>2. Installing' = Installing
    BY <1>2, <1>12 DEF SetCooldown, Goto, Installing
  <2>3. QED BY <2>1, <2>2 DEF Resets
<1>13. ASSUME UNCHANGED vars PROVE Resets'
  <2>1. UNCHANGED <<code, total, overlap, tries, todo, pc>>
    BY <1>13 DEF vars, keyVars, history
  <2>2. Installing' = Installing
    BY <2>1 DEF Installing
  <2>3. QED BY <2>1, <2>2, ResetsKept
<1>14. QED
  BY <1>4, <1>5, <1>6, <1>7, <1>8, <1>9, <1>10, <1>11, <1>12, <1>13
  DEF NextFaulty, Next, Fault, Continue

\* All resets of its counter together give a code MaxAttempts comparisons for
\* each pipeline that was under way when it was set, under every fault and for
\* any number of requests: the bound a test of two overlapping calls of
\* CreateOTP could only sample.
THEOREM TotalTriesBounded == FaultySpec => []TotalTries
<1>1. Init => RInv
  BY InitInv DEF Init, RInv, Resets
<1>2. RInv => TotalTries
  <2> SUFFICES ASSUME IInv, Resets PROVE total <= MaxAttempts * (1 + overlap)
    BY DEF RInv, TotalTries
  <2> DEFINE n == Cardinality(Installing)
  <2>1. /\ code \in Nat /\ total \in Nat /\ overlap \in Nat /\ tries \in Nat
        /\ MaxAttempts \in Nat /\ n \in Nat
    BY OtpAssumption, FS_CardinalityType DEF IInv, Core, TypeOK, Few
  <2>2. /\ MaxAttempts * (1 + overlap) = MaxAttempts * overlap + MaxAttempts
        /\ MaxAttempts * overlap \in Nat /\ MaxAttempts * n \in Nat
    BY <2>1, TimesOneMore
  <2> HIDE DEF n
  <2>3. CASE code = 0 \/ "delAttempts" \in todo
    BY <2>1, <2>2, <2>3 DEF Resets
  <2>4. CASE code # 0 /\ "delAttempts" \notin todo
    <3>1. total + MaxAttempts * n <= MaxAttempts * overlap + tries
      BY <2>4 DEF Resets, n
    <3>2. tries <= MaxAttempts
      BY <2>4 DEF IInv, Core, Counting
    <3>3. QED BY <2>1, <2>2, <3>1, <3>2
  <2>5. QED BY <2>3, <2>4
<1>3. QED
  BY <1>1, <1>2, StepResets, PTL DEF FaultySpec

-----------------------------------------------------------------------------
(* Without faults a used code does not return                              *)

\* A code that is about to be set has not been live before: nobody has read it
\* or reported it as used.
Fresh ==
    \A r \in Request :
        pc[r] = "setCode" =>
            /\ mine[r] \notin used /\ mine[r] # code
            /\ \A s \in Request : pc[s] \in Verifying => mine[s] # mine[r]

UInv == IInv /\ Fresh /\ UsedStaysUsed

LEMMA StepFresh == UInv /\ [Next]_vars => UInv'
<1> SUFFICES ASSUME UInv, [Next]_vars PROVE UInv'
  OBVIOUS
<1>1. IInv /\ IInv'
  BY StepInv DEF UInv, NextFaulty
<1> USE OtpAssumption
  DEF UInv, IInv, Core, Fresh, UsedStaysUsed, TypeOK, OwnCode, keyVars, history,
      Creating, Verifying, Outcome
<1>2. ASSUME NEW r \in Request, CheckCooldown(r) PROVE (Fresh /\ UsedStaysUsed)'
  BY <1>2 DEF CheckCooldown, Goto
<1>3. ASSUME NEW r \in Request, SetCode(r) PROVE (Fresh /\ UsedStaysUsed)'
  BY <1>3 DEF SetCode, Goto
<1>4. ASSUME NEW r \in Request, SetCooldown(r) \/ DelAttempts(r) \/ SendMail(r)
      PROVE  (Fresh /\ UsedStaysUsed)'
  BY <1>4 DEF SetCooldown, DelAttempts, SendMail, Goto
<1>5. ASSUME NEW r \in Request, ReadCode(r) PROVE (Fresh /\ UsedStaysUsed)'
  BY <1>5 DEF ReadCode, Goto
<1>6. ASSUME NEW r \in Request, CountAttempt(r) \/ ExpireCounter(r)
      PROVE  (Fresh /\ UsedStaysUsed)'
  BY <1>6 DEF CountAttempt, ExpireCounter, Goto, Incr, Counted, Compared
<1>7. ASSUME NEW r \in Request, DelLocked(r) PROVE (Fresh /\ UsedStaysUsed)'
  BY <1>1, <1>7 DEF DelLocked, Goto
<1>8. ASSUME NEW r \in Request, DelUsed(r) PROVE (Fresh /\ UsedStaysUsed)'
  BY <1>1, <1>8 DEF DelUsed, Goto
<1>9. ASSUME NEW r \in Request, Finish(r) PROVE (Fresh /\ UsedStaysUsed)'
  BY <1>9 DEF Finish
<1>10. CASE Tick
  BY <1>1, <1>10 DEF Tick, Aged
<1>11. CASE UNCHANGED vars
  BY <1>1, <1>11 DEF vars
<1>12. QED
  BY <1>1, <1>2, <1>3, <1>4, <1>5, <1>6, <1>7, <1>8, <1>9, <1>10, <1>11
  DEF Next, Continue

\* As long as no command is lost, a code that was reported as verified is never
\* live again, whatever submissions and new codes overlap with it.
THEOREM UsedCodesStayUsed == Spec => []UsedStaysUsed
<1>1. Init => UInv
  BY InitInv DEF Init, UInv, Fresh, UsedStaysUsed
<1>2. UInv => UsedStaysUsed
  BY DEF UInv
<1>3. QED
  BY <1>1, <1>2, StepFresh, PTL DEF Spec

-----------------------------------------------------------------------------
(* The safety half of CounterExpires                                       *)

\* Without faults the request whose EXPIRE a counter waits for is there, for any
\* number of overlapping requests (lines 121 to 133).
THEOREM CounterHasKeeper == Spec => []CounterKept
<1>1. Init => IInv /\ CounterKept
  BY InitInv DEF Init, CounterKept
<1>2. IInv /\ CounterKept /\ [Next]_vars => (IInv /\ CounterKept)'
  <2> SUFFICES ASSUME IInv, CounterKept, [Next]_vars PROVE CounterKept'
    BY StepInv DEF NextFaulty
  <2>1. /\ attempts \in Nat /\ attemptsTTL \in Forever..OtpTTL
        /\ ((attempts = 0) <=> (attemptsTTL = 0)) /\ OtpTTL \in Nat \ {0}
        /\ pc \in [Request -> {"idle"} \cup Creating \cup Verifying \cup Outcome]
    BY OtpAssumption DEF IInv, Core, TypeOK
  <2> USE <2>1 DEF CounterKept, Forever, keyVars, history, Goto
  <2>2. ASSUME NEW r \in Request,
               CheckCooldown(r) \/ ReadCode(r) \/ SetCode(r) \/ SetCooldown(r)
                   \/ SendMail(r) \/ DelLocked(r) \/ Finish(r)
        PROVE  CounterKept'
    BY <2>2 DEF CheckCooldown, ReadCode, SetCode, SetCooldown, SendMail,
                DelLocked, Finish, Outcome
  <2>3. ASSUME NEW r \in Request, DelAttempts(r) \/ DelUsed(r)
        PROVE  CounterKept'
    BY <2>3 DEF DelAttempts, DelUsed
  <2>4. ASSUME NEW r \in Request, CountAttempt(r) PROVE CounterKept'
    <3>1. CASE attempts = 0
      <4>1. pc' = [pc EXCEPT ![r] = "expire"]
        BY <2>4, <3>1 DEF CountAttempt, Counted
      <4>2. QED BY <4>1
    <3>2. CASE attempts # 0
      <4>1. attempts' > 0 /\ attemptsTTL' = attemptsTTL
        BY <2>4, <3>2 DEF CountAttempt, Incr
      <4>2. ASSUME NEW s \in Request, pc[s] = "expire" PROVE pc'[s] = "expire"
        BY <2>4, <4>2 DEF CountAttempt
      <4>3. QED BY <3>2, <4>1, <4>2
    <3>3. QED BY <3>1, <3>2
  <2>5. ASSUME NEW r \in Request, ExpireCounter(r) PROVE CounterKept'
    BY <2>5 DEF ExpireCounter
  <2>6. CASE Tick
    BY <2>6 DEF Tick, Aged
  <2>7. CASE UNCHANGED vars
    BY <2>7 DEF vars
  <2>8. QED
    BY <2>2, <2>3, <2>4, <2>5, <2>6, <2>7 DEF Next, Continue
<1>3. QED
  BY <1>1, <1>2, PTL DEF Spec

=============================================================================
