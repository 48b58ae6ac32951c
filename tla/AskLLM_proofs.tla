---------------------------- MODULE AskLLM_proofs ----------------------------
(***************************************************************************)
(* Proofs about AskLLM, for any number of turns and of tool calls in one   *)
(* reply.                                                                  *)
(*                                                                         *)
(* EveryCallAnswered speaks of the moments at which the model is called.   *)
(* In between the last reply lacks the results that are still to come, so  *)
(* the invariant counts them: as many as OSS has calls left to dispatch.   *)
(* The same invariant bounds the request: a turn that is still to come is  *)
(* worth a call of the model and a full list of tool calls (Effort).       *)
(***************************************************************************)
EXTENDS AskLLM, SequenceTheorems, TLAPS

Message == {System, User, Result} \cup {Asks(n) : n \in 1..MaxCalls}

Reply(m, i) == i \in 3..Len(m) /\ m[i].role = "assistant"

\* Where a reply with its results may end in a conversation m that lacks gap
\* results: at the next reply, or where m ends once they have come.
End(m, gap, i) == i = Len(m) + 1 + gap \/ Reply(m, i)

Conversation(m, gap) ==
    /\ Len(m) >= 2
    /\ m[1] = System /\ m[2] = User
    /\ Reply(m, 3) \/ (Len(m) = 2 /\ gap = 0)
    /\ \A i \in 3..Len(m) :
           Reply(m, i) =>
               /\ End(m, gap, i + m[i].calls + 1)
               /\ \A j \in 1..m[i].calls :
                      i + j <= Len(m) => m[i + j] = Result

\* Gemma's request joins the conversation with its result, the message of OSS
\* before them.
Missing == IF route = "oss" /\ pc = "dispatch" THEN pending ELSE 0

IInv ==
    /\ TypeOK
    /\ pc = "start" => turn = 0
    /\ pc \in {"start", "call", "dispatch"} => turn < MaxTurns
    /\ pc = "dispatch" => pending >= 1
    /\ pc \notin {"start", "rejected"} => Conversation(messages, Missing)

-----------------------------------------------------------------------------
(* Messages                                                                *)

LEMMA Roles ==
    /\ System \in Message /\ User \in Message /\ Result \in Message
    /\ System.role # "assistant" /\ User.role # "assistant"
    /\ Result.role # "assistant"
    /\ \A n \in 1..MaxCalls :
           /\ Asks(n) \in Message
           /\ Asks(n).role = "assistant" /\ Asks(n).calls = n
  BY DEF Message, System, User, Result, Asks

\* What a message asks for is a number.
LEMMA CallsAreNat == \A x \in Message : x.calls \in Nat
  BY AskAssumption DEF Message, System, User, Result, Asks

\* The messages of m are those of k as well, at the same places.
Extends(k, m) ==
    /\ k \in Seq(Message) /\ m \in Seq(Message)
    /\ Len(k) >= Len(m)
    /\ \A i \in 1..Len(m) : k[i] = m[i]

LEMMA AppendExtends ==
    ASSUME NEW m \in Seq(Message), NEW x \in Message
    PROVE  /\ Extends(Append(m, x), m)
           /\ Len(Append(m, x)) = Len(m) + 1
           /\ Append(m, x)[Len(m) + 1] = x
  BY AppendProperties DEF Extends

LEMMA TwoMoreExtend ==
    ASSUME NEW m \in Seq(Message), NEW x \in Message, NEW y \in Message
    PROVE  /\ Extends(m \o <<x, y>>, m)
           /\ Len(m \o <<x, y>>) = Len(m) + 2
           /\ (m \o <<x, y>>)[Len(m) + 1] = x
           /\ (m \o <<x, y>>)[Len(m) + 2] = y
<1>1. <<x, y>> \in Seq(Message) /\ Len(<<x, y>>) = 2
      /\ <<x, y>>[1] = x /\ <<x, y>>[2] = y
  OBVIOUS
<1>2. QED
  BY <1>1, ConcatProperties DEF Extends

-----------------------------------------------------------------------------
(* The conversation                                                        *)

\* What a step has to show of a longer conversation: that its replies may end
\* where they did, and that the new messages are as they should be.
LEMMA LongerConversation ==
    ASSUME NEW m, NEW k, Extends(k, m), NEW gap \in Nat, NEW left \in Nat,
           Conversation(m, gap),
           \A e \in Nat : End(m, gap, e) => End(k, left, e),
           Reply(k, 3),
           \A i \in (Len(m) + 1)..Len(k) :
               \/ /\ gap = 0
                  /\ Reply(k, i) /\ End(k, left, i + k[i].calls + 1)
                  /\ \A j \in 1..k[i].calls :
                         i + j <= Len(k) => k[i + j] = Result
               \/ ~Reply(k, i) /\ (i <= Len(m) + gap => k[i] = Result)
    PROVE  Conversation(k, left)
<1>1. /\ Len(m) \in Nat /\ Len(k) \in Nat /\ Len(k) >= Len(m)
      /\ Len(m) >= 2
      /\ \A i \in 1..Len(m) : k[i] = m[i] /\ m[i] \in Message
  BY DEF Extends, Conversation
<1>2. k[1] = System /\ k[2] = User
  BY <1>1 DEF Conversation
<1>3. ASSUME NEW i \in 3..Len(k), Reply(k, i)
      PROVE  /\ End(k, left, i + k[i].calls + 1)
             /\ \A j \in 1..k[i].calls :
                    i + j <= Len(k) => k[i + j] = Result
  <2>1. CASE i <= Len(m)
    <3>1. i \in 3..Len(m) /\ k[i] = m[i] /\ m[i].calls \in Nat
      BY <1>1, <2>1, CallsAreNat
    <3>2. Reply(m, i)
      BY <1>3, <3>1 DEF Reply
    <3>3. /\ End(m, gap, i + m[i].calls + 1)
          /\ \A j \in 1..m[i].calls : i + j <= Len(m) => m[i + j] = Result
      BY <3>1, <3>2 DEF Conversation
    <3>4. i + m[i].calls <= Len(m) + gap
      BY <1>1, <3>1, <3>3 DEF End, Reply
    <3>5. ASSUME NEW j \in 1..m[i].calls, i + j <= Len(k)
          PROVE  k[i + j] = Result
      <4>1. CASE i + j <= Len(m)
        <5>1. i + j \in 1..Len(m) /\ m[i + j] = Result
          BY <1>1, <3>1, <3>3, <4>1
        <5>2. QED
          BY <1>1, <5>1
      <4>2. CASE i + j > Len(m)
        <5>1. i + j \in (Len(m) + 1)..Len(k) /\ i + j <= Len(m) + gap
          BY <1>1, <3>1, <3>4, <3>5, <4>2
        <5>2. gap # 0
          BY <1>1, <5>1
        <5>3. QED
          BY <5>1, <5>2
      <4>3. QED
        BY <1>1, <3>1, <4>1, <4>2
    <3>6. QED
      BY <3>1, <3>3, <3>5
  <2>2. CASE i > Len(m)
    BY <1>1, <1>3, <2>2
  <2>3. QED
    BY <1>1, <2>1, <2>2
<1>4. QED
  BY <1>1, <1>2, <1>3 DEF Conversation

\* Gemma's request and its result join together.
LEMMA RequestAndResult ==
    ASSUME NEW m \in Seq(Message), Conversation(m, 0)
    PROVE  Conversation(m \o <<Asks(1), Result>>, 0)
<1> DEFINE k == m \o <<Asks(1), Result>>
<1>1. /\ Extends(k, m) /\ Len(k) = Len(m) + 2
      /\ k[Len(m) + 1] = Asks(1) /\ k[Len(m) + 2] = Result
  BY TwoMoreExtend, Roles, AskAssumption
<1>2. Asks(1).role = "assistant" /\ Asks(1).calls = 1
      /\ Result.role # "assistant"
  BY Roles, AskAssumption
<1> HIDE DEF k
<1>3. Len(m) \in Nat /\ Len(m) >= 2
  BY DEF Conversation
<1>4. Reply(k, Len(m) + 1) /\ ~Reply(k, Len(m) + 2)
  BY <1>1, <1>2, <1>3 DEF Reply
<1>5. \A e \in Nat : End(m, 0, e) => End(k, 0, e)
  BY <1>1, <1>3, <1>4 DEF End, Reply, Extends
<1>6. Reply(k, 3)
  BY <1>1, <1>3, <1>4 DEF Conversation, Reply, Extends
<1>7. ASSUME NEW i \in (Len(m) + 1)..Len(k)
      PROVE  \/ Reply(k, i) /\ End(k, 0, i + k[i].calls + 1)
                  /\ \A j \in 1..k[i].calls :
                         i + j <= Len(k) => k[i + j] = Result
             \/ ~Reply(k, i) /\ (i <= Len(m) + 0 => k[i] = Result)
  <2>1. CASE i = Len(m) + 1
    BY <1>1, <1>2, <1>3, <1>4, <2>1 DEF End
  <2>2. CASE i = Len(m) + 2
    BY <1>1, <1>3, <1>4, <2>2
  <2>3. QED
    BY <1>1, <1>3, <2>1, <2>2
<1>8. Conversation(k, 0)
  BY <1>1, <1>5, <1>6, <1>7, LongerConversation
<1>9. QED
  BY <1>8 DEF k

\* A reply of OSS joins with its results missing.
LEMMA ReplyJoins ==
    ASSUME NEW m \in Seq(Message), Conversation(m, 0), NEW n \in 1..MaxCalls
    PROVE  Conversation(Append(m, Asks(n)), n)
<1> DEFINE k == Append(m, Asks(n))
<1>1. /\ Extends(k, m) /\ Len(k) = Len(m) + 1
      /\ k[Len(m) + 1] = Asks(n)
  BY AppendExtends, Roles
<1>2. Asks(n).role = "assistant" /\ Asks(n).calls = n
  BY Roles
<1> HIDE DEF k
<1>3. Len(m) \in Nat /\ Len(m) >= 2
  BY DEF Conversation
<1>4. Reply(k, Len(m) + 1)
  BY <1>1, <1>2, <1>3 DEF Reply
<1>5. \A e \in Nat : End(m, 0, e) => End(k, n, e)
  BY <1>1, <1>3, <1>4 DEF End, Reply, Extends
<1>6. Reply(k, 3)
  BY <1>1, <1>3, <1>4 DEF Conversation, Reply, Extends
<1>7. ASSUME NEW i \in (Len(m) + 1)..Len(k)
      PROVE  Reply(k, i) /\ End(k, n, i + k[i].calls + 1)
                  /\ \A j \in 1..k[i].calls :
                         i + j <= Len(k) => k[i + j] = Result
  <2>1. i = Len(m) + 1
    BY <1>1, <1>3
  <2>2. QED
    BY <1>1, <1>2, <1>3, <1>4, <2>1 DEF End
<1>8. Conversation(k, n)
  BY <1>1, <1>5, <1>6, <1>7, LongerConversation
<1>9. QED
  BY <1>8 DEF k

\* A missing result joins.
LEMMA ResultJoins ==
    ASSUME NEW m \in Seq(Message), NEW gap \in Nat \ {0}, Conversation(m, gap)
    PROVE  Conversation(Append(m, Result), gap - 1)
<1> DEFINE k == Append(m, Result)
<1>1. /\ Extends(k, m) /\ Len(k) = Len(m) + 1
      /\ k[Len(m) + 1] = Result
  BY AppendExtends, Roles
<1> HIDE DEF k
<1>2. Len(m) \in Nat /\ Len(m) >= 2
  BY DEF Conversation
<1>3. ~Reply(k, Len(m) + 1)
  BY <1>1, <1>2, Roles DEF Reply
<1>4. \A e \in Nat : End(m, gap, e) => End(k, gap - 1, e)
  BY <1>1, <1>2 DEF End, Reply, Extends
<1>5. Reply(k, 3)
  BY <1>1, <1>2 DEF Conversation, Reply, Extends
<1>6. ASSUME NEW i \in (Len(m) + 1)..Len(k)
      PROVE  ~Reply(k, i) /\ k[i] = Result
  BY <1>1, <1>2, <1>3
<1>7. Conversation(k, gap - 1)
  BY <1>1, <1>4, <1>5, <1>6, LongerConversation
<1>8. QED
  BY <1>7 DEF k

-----------------------------------------------------------------------------
(* The steps                                                               *)

LEMMA InitInv == Init => IInv
  BY AskAssumption DEF Init, IInv, TypeOK, Returned

\* The conversation as it begins.
LEMMA FirstMessages ==
    /\ <<System, User>> \in Seq(Message)
    /\ Conversation(<<System, User>>, 0)
  BY Roles DEF Conversation, Reply

\* A turn is over: the next one begins, or the loop ends.
LEMMA TurnOver ==
    ASSUME IInv, pc = "dispatch", NextTurn
    PROVE  /\ turn' \in 0..MaxTurns /\ pc' \in {"call", "overLimit"}
           /\ pc' = "call" => turn' < MaxTurns
  BY AskAssumption DEF IInv, TypeOK, NextTurn

\* No step leaves IInv.
LEMMA StepInv == IInv /\ [Next]_vars => IInv'
<1> SUFFICES ASSUME IInv, [Next]_vars PROVE IInv'
  OBVIOUS
<1>1. /\ messages \in Seq(Message)
      /\ turn \in 0..MaxTurns /\ pending \in 0..MaxCalls
      /\ MaxTurns \in Nat \ {0} /\ MaxCalls \in Nat \ {0}
  BY AskAssumption DEF IInv, TypeOK, Message
<1>2. CASE Start
  <2>1. \/ pc' = "rejected" /\ messages' = messages
        \/ pc' = "call" /\ messages' = <<System, User>>
    BY <1>2 DEF Start
  <2>2. TypeOK'
    BY <1>1, <1>2, <2>1, FirstMessages DEF Start, IInv, TypeOK, Message
  <2>3. pc' = "call" => Conversation(messages', Missing')
    BY <2>1, FirstMessages DEF Missing
  <2>4. QED
    BY <1>2, <2>1, <2>2, <2>3 DEF Start, IInv
<1>3. CASE \/ GemmaCallFails \/ GemmaUnusable \/ GemmaAnswers
           \/ OssCallFails \/ OssUnusable \/ OssAnswers
  <2>1. /\ pc = "call" /\ pc' \in {"failed", "answered"}
        /\ UNCHANGED <<route, turn, messages, pending>>
    BY <1>3 DEF GemmaCallFails, GemmaUnusable, GemmaAnswers, OssCallFails,
                OssUnusable, OssAnswers, Goto
  <2>2. TypeOK'
    BY <2>1 DEF IInv, TypeOK, Returned
  <2>3. Missing = 0 /\ Missing' = 0
    BY <2>1 DEF Missing
  <2>4. Conversation(messages', Missing')
    BY <2>1, <2>3 DEF IInv
  <2>5. QED
    BY <2>1, <2>2, <2>4 DEF IInv
<1>4. CASE GemmaAsksTool
  <2>1. /\ pc = "call" /\ pc' = "dispatch" /\ pending' = 1
        /\ route = "gemma" /\ UNCHANGED <<route, turn, messages>>
    BY <1>4 DEF GemmaAsksTool, Goto
  <2>2. TypeOK'
    BY <1>1, <2>1 DEF IInv, TypeOK
  <2>3. Missing = 0 /\ Missing' = 0
    BY <2>1 DEF Missing
  <2>4. Conversation(messages', Missing')
    BY <2>1, <2>3 DEF IInv
  <2>5. QED
    BY <2>1, <2>2, <2>4 DEF IInv
<1>5. CASE GemmaDispatch
  <2>1. /\ pc = "dispatch" /\ pending' = 0 /\ NextTurn
        /\ messages' = messages \o <<Asks(1), Result>>
        /\ route = "gemma" /\ route' = route
    BY <1>5 DEF GemmaDispatch
  <2>2. messages' \in Seq(Message)
    BY <1>1, <2>1, TwoMoreExtend, Roles DEF Extends
  <2>3. TypeOK'
    BY <1>1, <2>1, <2>2, TurnOver DEF IInv, TypeOK, Returned, Message
  <2>4. Missing = 0 /\ Missing' = 0
    BY <2>1 DEF Missing
  <2>5. Conversation(messages', Missing')
    BY <1>1, <2>1, <2>4, RequestAndResult DEF IInv
  <2>6. QED
    BY <2>1, <2>3, <2>5, TurnOver DEF IInv
<1>6. CASE OssAsksTools
  <2>1. PICK n \in 1..MaxCalls :
            pending' = n /\ messages' = Append(messages, Asks(n))
    BY <1>6 DEF OssAsksTools
  <2>2. /\ pc = "call" /\ pc' = "dispatch" /\ route = "oss"
        /\ UNCHANGED <<route, turn>>
    BY <1>6 DEF OssAsksTools, Goto
  <2>3. messages' \in Seq(Message)
    BY <1>1, <2>1, AppendExtends, Roles DEF Extends
  <2>4. TypeOK'
    BY <1>1, <2>1, <2>2, <2>3 DEF IInv, TypeOK, Message
  <2>5. Missing = 0 /\ Missing' = n
    BY <2>1, <2>2 DEF Missing
  <2>6. Conversation(messages', Missing')
    BY <1>1, <2>1, <2>2, <2>5, ReplyJoins DEF IInv
  <2>7. QED
    BY <2>1, <2>2, <2>4, <2>6 DEF IInv
<1>7. CASE OssDispatch
  <2>1. /\ pc = "dispatch" /\ NextCall /\ route = "oss" /\ route' = route
        /\ messages' = Append(messages, Result)
    BY <1>7 DEF OssDispatch
  <2>2. pending \in Nat \ {0} /\ pending' = pending - 1
    BY <1>1, <2>1 DEF NextCall, IInv
  <2>3. \/ pending = 1 /\ NextTurn
        \/ pending > 1 /\ UNCHANGED <<turn, pc>>
    BY <2>1, <2>2 DEF NextCall
  <2>4. messages' \in Seq(Message)
    BY <1>1, <2>1, AppendExtends, Roles DEF Extends
  <2>5. /\ turn' \in 0..MaxTurns /\ pc' \in {"call", "overLimit", "dispatch"}
        /\ pc' \in {"call", "dispatch"} => turn' < MaxTurns
        /\ pc' = "dispatch" => pending' >= 1
    BY <1>1, <2>1, <2>2, <2>3, TurnOver DEF IInv
  <2>6. TypeOK'
    BY <1>1, <2>1, <2>2, <2>4, <2>5 DEF IInv, TypeOK, Returned, Message
  <2>7. Missing = pending /\ Missing' = pending - 1
    BY <2>1, <2>2, <2>3, TurnOver DEF Missing
  <2>8. Conversation(messages', Missing')
    BY <1>1, <2>1, <2>2, <2>7, ResultJoins DEF IInv
  <2>9. QED
    BY <2>5, <2>6, <2>8 DEF IInv
<1>8. CASE UNCHANGED vars
  BY <1>8 DEF vars, IInv, TypeOK, Missing
<1>9. QED
  BY <1>2, <1>3, <1>4, <1>5, <1>6, <1>7, <1>8 DEF Next, Step

-----------------------------------------------------------------------------
(* Effort                                                                  *)

\* What a turn more or less is worth.
LEMMA TurnsTimes ==
    ASSUME NEW k \in Nat, NEW a \in Nat
    PROVE  /\ k * a \in Nat
           /\ (k + 1) * a = k * a + a
  OBVIOUS

\* Where a request can take a step, it has steps left to take.
LEMMA EffortLeft ==
    ASSUME IInv
    PROVE  /\ Effort \in Nat
           /\ pc \in {"start", "call", "dispatch"} => Effort >= 1
<1> DEFINE ATurn == MaxCalls + 1
<1>1. /\ turn \in 0..MaxTurns /\ pending \in 0..MaxCalls
      /\ MaxTurns \in Nat \ {0} /\ MaxCalls \in Nat \ {0}
      /\ pc \in {"start", "call", "dispatch"} => turn < MaxTurns
      /\ pc = "dispatch" => pending >= 1
  BY AskAssumption DEF IInv, TypeOK
<1>2. ATurn \in Nat /\ ATurn >= 2
  BY <1>1
<1>3. /\ Effort = IF pc = "start" THEN MaxTurns * ATurn + 1
                 ELSE IF pc = "call" THEN (MaxTurns - turn) * ATurn
                 ELSE IF pc = "dispatch"
                      THEN (MaxTurns - turn - 1) * ATurn + pending
                 ELSE 0
  BY DEF Effort
<1> HIDE DEF ATurn
<1>4. CASE pc = "start"
  <2>1. MaxTurns * ATurn \in Nat
    BY <1>1, <1>2, TurnsTimes
  <2>2. QED
    BY <1>3, <1>4, <2>1
<1>5. CASE pc \in {"call", "dispatch"}
  <2>1. MaxTurns - turn - 1 \in Nat
    BY <1>1, <1>5
  <2>2. /\ (MaxTurns - turn - 1) * ATurn \in Nat
        /\ (MaxTurns - turn - 1 + 1) * ATurn
               = (MaxTurns - turn - 1) * ATurn + ATurn
    BY <1>2, <2>1, TurnsTimes
  <2>3. MaxTurns - turn - 1 + 1 = MaxTurns - turn
    BY <1>1
  <2>4. (MaxTurns - turn) * ATurn = (MaxTurns - turn - 1) * ATurn + ATurn
    BY <2>2, <2>3
  <2>5. QED
    BY <1>1, <1>2, <1>3, <1>5, <2>2, <2>4
<1>6. QED
  BY <1>3, <1>4, <1>5

\* A turn that ends has been paid for by the call that began it.
LEMMA TurnOverShrinks ==
    ASSUME IInv, pc = "dispatch", NextTurn
    PROVE  Effort' \in 0..(Effort - 1)
<1> DEFINE ATurn == MaxCalls + 1
<1>1. /\ turn \in 0..MaxTurns /\ turn < MaxTurns /\ pending \in Nat \ {0}
      /\ MaxTurns \in Nat \ {0} /\ MaxCalls \in Nat \ {0}
  BY AskAssumption DEF IInv, TypeOK
<1>2. Effort = (MaxTurns - turn - 1) * ATurn + pending
  BY DEF Effort
<1>3. turn' = turn + 1 /\ pc' \in {"call", "overLimit"}
  BY DEF NextTurn
<1>4. Effort' = IF pc' = "call" THEN (MaxTurns - (turn + 1)) * ATurn ELSE 0
  BY <1>3 DEF Effort
<1>5. MaxTurns - (turn + 1) = MaxTurns - turn - 1 /\ MaxTurns - turn - 1 \in Nat
  BY <1>1
<1>6. ATurn \in Nat
  BY <1>1
<1> HIDE DEF ATurn
<1>7. (MaxTurns - turn - 1) * ATurn \in Nat
  BY <1>5, <1>6, TurnsTimes
<1>8. QED
  BY <1>1, <1>2, <1>4, <1>5, <1>7

\* A reply with n calls pays for them out of the turn it has begun.
LEMMA AskingShrinks ==
    ASSUME IInv, pc = "call", pc' = "dispatch", turn' = turn,
           pending' \in 1..MaxCalls
    PROVE  Effort' \in 0..(Effort - 1)
<1> DEFINE ATurn == MaxCalls + 1
<1>1. /\ turn \in 0..MaxTurns /\ turn < MaxTurns
      /\ MaxTurns \in Nat \ {0} /\ MaxCalls \in Nat \ {0}
  BY AskAssumption DEF IInv, TypeOK
<1>2. /\ Effort = (MaxTurns - turn) * ATurn
      /\ Effort' = (MaxTurns - turn - 1) * ATurn + pending'
  BY DEF Effort
<1>3. MaxTurns - turn - 1 \in Nat /\ MaxTurns - turn = (MaxTurns - turn - 1) + 1
  BY <1>1
<1>4. ATurn \in Nat /\ pending' < ATurn
  BY <1>1
<1> HIDE DEF ATurn
<1>5. /\ (MaxTurns - turn - 1) * ATurn \in Nat
      /\ Effort = (MaxTurns - turn - 1) * ATurn + ATurn
  BY <1>2, <1>3, <1>4, TurnsTimes
<1>6. QED
  BY <1>2, <1>4, <1>5

\* Every step of a request costs some of what is left.
LEMMA StepShrinks ==
    ASSUME IInv, Next
    PROVE  Effort' \in 0..(Effort - 1)
<1>1. /\ MaxTurns \in Nat \ {0} /\ MaxCalls \in Nat \ {0}
      /\ turn \in 0..MaxTurns /\ pending \in 0..MaxCalls
  BY AskAssumption DEF IInv, TypeOK
<1>2. CASE Start
  <2>1. CASE pc' = "rejected"
    <3>1. Effort' = 0
      BY <2>1 DEF Effort
    <3>2. QED
      BY <1>2, <3>1, EffortLeft DEF Start
  <2>2. CASE pc' = "call"
    <3>1. /\ Effort = MaxTurns * (MaxCalls + 1) + 1
          /\ Effort' = (MaxTurns - turn) * (MaxCalls + 1)
      BY <1>2, <2>2 DEF Start, Effort
    <3>2. turn = 0
      BY <1>2 DEF IInv, Start
    <3>3. Effort' = MaxTurns * (MaxCalls + 1)
      BY <1>1, <3>1, <3>2
    <3>4. MaxTurns * (MaxCalls + 1) \in Nat
      BY <1>1, TurnsTimes
    <3>5. QED
      BY <3>1, <3>3, <3>4
  <2>3. QED
    BY <1>2, <2>1, <2>2 DEF Start
<1>3. CASE \/ GemmaCallFails \/ GemmaUnusable \/ GemmaAnswers
           \/ OssCallFails \/ OssUnusable \/ OssAnswers
  <2>1. pc = "call" /\ pc' \in {"failed", "answered"}
    BY <1>3 DEF GemmaCallFails, GemmaUnusable, GemmaAnswers, OssCallFails,
                OssUnusable, OssAnswers, Goto
  <2>2. Effort' = 0
    BY <2>1 DEF Effort
  <2>3. QED
    BY <2>1, <2>2, EffortLeft
<1>4. CASE GemmaAsksTool \/ OssAsksTools
  <2>1. /\ pc = "call" /\ pc' = "dispatch" /\ turn' = turn
        /\ pending' \in 1..MaxCalls
    BY <1>1, <1>4 DEF GemmaAsksTool, OssAsksTools, Goto
  <2>2. QED
    BY <2>1, AskingShrinks
<1>5. CASE GemmaDispatch
  BY <1>5, TurnOverShrinks DEF GemmaDispatch
<1>6. CASE OssDispatch
  <2>1. pc = "dispatch" /\ NextCall
    BY <1>6 DEF OssDispatch
  <2>2. CASE pending = 1
    BY <2>1, <2>2, TurnOverShrinks DEF NextCall
  <2>3. CASE pending # 1
    <3>1. /\ UNCHANGED <<turn, pc>> /\ pending' = pending - 1
          /\ pending - 1 \in Nat \ {0}
      BY <1>1, <2>1, <2>3 DEF NextCall, IInv
    <3>2. /\ Effort = (MaxTurns - turn - 1) * (MaxCalls + 1) + pending
          /\ Effort' = (MaxTurns - turn - 1) * (MaxCalls + 1) + pending'
      BY <2>1, <3>1 DEF Effort
    <3>3. MaxTurns - turn - 1 \in Nat
      BY <1>1, <2>1 DEF IInv
    <3>4. (MaxTurns - turn - 1) * (MaxCalls + 1) \in Nat
      BY <1>1, <3>3, TurnsTimes
    <3>5. QED
      BY <1>1, <3>1, <3>2, <3>4
  <2>4. QED
    BY <2>2, <2>3
<1>7. QED
  BY <1>2, <1>3, <1>4, <1>5, <1>6 DEF Next, Step

-----------------------------------------------------------------------------
(* The theorems                                                            *)

\* The values of the variables; the loop counter stays within maxTurns.
THEOREM TypeCorrect == Spec => []TypeOK
<1>1. IInv => TypeOK
  BY DEF IInv
<1>2. QED
  BY <1>1, InitInv, StepInv, PTL DEF Spec

\* Whenever the model is called, every tool call of every earlier reply has
\* exactly one result behind it, for any number of turns and of calls in a
\* reply.
THEOREM CallsAnswered == Spec => []EveryCallAnswered
<1>1. IInv => EveryCallAnswered
  <2> SUFFICES ASSUME IInv, pc = "call" PROVE EveryCallAnswered
    BY DEF EveryCallAnswered
  <2>1. Conversation(messages, 0)
    BY DEF IInv, Missing
  <2>2. messages \in Seq(Message)
    BY DEF IInv, TypeOK, Message
  <2>3. Len(messages) \in Nat
    BY <2>2
  <2>4. \A i \in 3..Len(messages) : messages[i].calls \in Nat
    BY <2>2, <2>3, CallsAreNat
  <2>5. ASSUME NEW i \in 3..Len(messages), Reply(messages, i),
               NEW j \in 1..messages[i].calls
        PROVE  messages[i + j] = Result
    <3>1. /\ End(messages, 0, i + messages[i].calls + 1)
          /\ i + j <= Len(messages) => messages[i + j] = Result
      BY <2>1, <2>5 DEF Conversation
    <3>2. i + messages[i].calls <= Len(messages)
      BY <2>3, <2>4, <2>5, <3>1 DEF End, Reply
    <3>3. QED
      BY <2>3, <2>4, <2>5, <3>1, <3>2
  <2>6. \A i : End(messages, 0, i) =>
            i = Len(messages) + 1 \/ Reply(messages, i)
    BY <2>3 DEF End
  <2>7. QED
    BY <2>1, <2>3, <2>5, <2>6 DEF EveryCallAnswered, Conversation, Reply
<1>2. QED
  BY <1>1, InitInv, StepInv, PTL DEF Spec

\* A request takes no more steps than maxTurns pays for, whatever the model
\* replies: each one leaves less to do, so that no retry and no list of tool
\* calls keeps it going (AskGemma lines 66 to 131, AskOss lines 125 to 173).
THEOREM RequestsRunDown == Spec => EffortShrinks
<1>1. IInv /\ [Next]_vars => [Effort' \in 0..(Effort - 1)]_vars
  BY StepShrinks
<1>2. QED
  BY <1>1, InitInv, StepInv, PTL DEF Spec, EffortShrinks

=============================================================================
