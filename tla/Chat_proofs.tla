----------------------------- MODULE Chat_proofs -----------------------------
(***************************************************************************)
(* Proofs about Chat, for any number of overlapping messages, any costs    *)
(* and capacity of the bucket and any length of the loops.                 *)
(*                                                                         *)
(* LoopsPaid counts the loops that run, but a loop was paid for when it    *)
(* began, and the bucket has been refilled since.  The invariant Paid      *)
(* therefore looks at the loops by age: those with at least k ticks left   *)
(* began within the last LoopLife - k ticks, and what they cost was in the *)
(* bucket then or came back since.                                         *)
(***************************************************************************)
EXTENDS Chat, FiniteSetTheorems, TLAPS

\* The loops that may still run for k ticks.
Young(k) == {r \in Request : life[r] >= k}

Paid ==
    \A k \in 1..LoopLife :
        ChatCost * Cardinality(Young(k)) + level <= Capacity + LoopLife - k

\* The part of TypeOK that is about the page, and that about the server.
PageType ==
    /\ rows \in Nat /\ disabled \in BOOLEAN /\ unanswered \in Nat
    /\ page \in [Request -> {"settled", "waiting", "reading"}]

ServerType ==
    /\ transit \in [Request -> BOOLEAN]
    /\ answer \in [Request -> {"none", "reply", "error"}]
    /\ life \in [Request -> 0..LoopLife]
    /\ level \in 0..Capacity
    /\ \A r \in Request : transit[r] => life[r] = 0

\* An answer on its way is awaited.
Awaited == \A r \in Request : answer[r] # "none" => r \in Pending

PageInv == PageType /\ OneAnswerEach /\ PageSettles
ServerInv == ServerType /\ Paid
IInv == PageInv /\ ServerInv /\ Awaited

LEMMA TypeParts == TypeOK <=> PageType /\ ServerType /\ Awaited
  BY DEF TypeOK, PageType, ServerType, Awaited

-----------------------------------------------------------------------------
(* Sets of requests                                                        *)

LEMMA SubsetFinite ==
    ASSUME NEW S \in SUBSET Request
    PROVE  IsFiniteSet(S) /\ Cardinality(S) \in Nat
  BY FS_Subset, FS_CardinalityType, ChatAssumption

LEMMA OneMore ==
    ASSUME NEW S \in SUBSET Request, NEW r \in Request, r \notin S
    PROVE  Cardinality(S \cup {r}) = Cardinality(S) + 1
  BY SubsetFinite, FS_AddElement

LEMMA OneLess ==
    ASSUME NEW S \in SUBSET Request, NEW r \in S
    PROVE  /\ Cardinality(S \ {r}) = Cardinality(S) - 1
           /\ Cardinality(S) > 0
<1>1. Cardinality(S \ {r}) = Cardinality(S) - 1
  BY SubsetFinite, FS_RemoveElement
<1>2. Cardinality(S \ {r}) \in Nat /\ Cardinality(S) \in Nat
  BY SubsetFinite
<1>3. QED
  BY <1>1, <1>2

LEMMA Fewer ==
    ASSUME NEW S \in SUBSET Request, NEW T \in SUBSET S
    PROVE  Cardinality(T) <= Cardinality(S)
  BY SubsetFinite, FS_Subset

\* The two facts about products that the balance needs.
LEMMA CostGrows ==
    \A c, m, n \in Nat : m <= n => c * m <= c * n /\ c * m \in Nat
  OBVIOUS

LEMMA CostOfOne == \A c, n \in Nat : c * (n + 1) = c * n + c
  OBVIOUS

-----------------------------------------------------------------------------
(* The page                                                                *)

LEMMA WaitingPending ==
    /\ Waiting \in SUBSET Pending /\ Pending \in SUBSET Request
    /\ Cardinality(Waiting) \in Nat /\ Cardinality(Pending) \in Nat
<1>1. Waiting \in SUBSET Pending /\ Pending \in SUBSET Request
  BY DEF Waiting, Pending
<1>2. QED
  BY <1>1, SubsetFinite

LEMMA SendPage ==
    ASSUME PageInv, NEW r \in Request, Send(r)
    PROVE  PageInv' /\ \A q \in Pending : q \in Pending'
<1>1. /\ Pending' = Pending \cup {r} /\ r \notin Pending
      /\ Waiting' = Waiting \cup {r} /\ r \notin Waiting
  BY DEF Send, Pending, Waiting, PageInv, PageType
<1>2. /\ Cardinality(Pending') = Cardinality(Pending) + 1
      /\ Cardinality(Waiting') = Cardinality(Waiting) + 1
  BY <1>1, OneMore, WaitingPending
<1>3. PageType'
  BY DEF Send, PageInv, PageType
<1>4. QED
  BY <1>1, <1>2, <1>3, WaitingPending
  DEF Send, PageInv, PageType, OneAnswerEach, PageSettles

\* A message is settled; an indicator goes with it if it was waiting.
LEMMA SettlePage ==
    ASSUME PageInv, NEW r \in Pending, Settle(r),
           rows' \in {rows, RowsLess},
           r \in Waiting => rows' = RowsLess
    PROVE  PageInv' /\ \A q \in Pending \ {r} : q \in Pending'
<1>1. /\ Pending' = Pending \ {r}
      /\ Waiting' = Waiting \ {r}
  BY DEF Settle, Pending, Waiting, PageInv, PageType
<1>2. /\ Cardinality(Pending') = Cardinality(Pending) - 1
      /\ Cardinality(Pending) > 0
  BY <1>1, OneLess, WaitingPending
<1>3. Cardinality(Waiting') = IF r \in Waiting THEN Cardinality(Waiting) - 1
                                               ELSE Cardinality(Waiting)
  BY <1>1, OneLess, WaitingPending
<1>4. rows' \in Nat /\ rows' <= rows /\ (rows > 0 => RowsLess = rows - 1)
      /\ (rows = 0 => RowsLess = 0)
  BY DEF RowsLess, PageInv, PageType
<1>5. PageType'
  <2>1. r \in Request
    BY DEF Pending
  <2>2. unanswered' \in Nat
    BY <1>2, WaitingPending DEF Settle, PageInv, PageType, OneAnswerEach
  <2>3. QED
    BY <1>4, <2>1, <2>2 DEF Settle, PageInv, PageType
<1>6. rows' <= Cardinality(Waiting')
  <2>1. CASE r \in Waiting
    <3>1. Cardinality(Waiting) > 0
      BY <2>1, OneLess, WaitingPending
    <3>2. QED
      BY <2>1, <3>1, <1>3, <1>4, WaitingPending DEF PageInv, PageType, PageSettles
  <2>2. CASE r \notin Waiting
    BY <2>2, <1>3, <1>4, WaitingPending DEF PageInv, PageType, PageSettles
  <2>3. QED
    BY <2>1, <2>2
<1>7. QED
  BY <1>1, <1>2, <1>5, <1>6, WaitingPending
  DEF Settle, PageInv, OneAnswerEach, PageSettles

LEMMA ResolvePage ==
    ASSUME PageInv, NEW r \in Request, Resolve(r)
    PROVE  PageInv' /\ Pending' = Pending
<1>1. /\ Pending' = Pending /\ r \in Pending
      /\ Waiting' = Waiting \ {r} /\ r \in Waiting
  BY DEF Resolve, Pending, Waiting, PageInv, PageType
<1>2. /\ Cardinality(Waiting') = Cardinality(Waiting) - 1
      /\ Cardinality(Waiting) > 0
  BY <1>1, OneLess, WaitingPending
<1>3. PageType'
  BY DEF Resolve, RowsLess, PageInv, PageType
<1>4. rows' <= Cardinality(Waiting')
  BY <1>2, WaitingPending DEF Resolve, RowsLess, PageInv, PageType, PageSettles
<1>5. QED
  BY <1>1, <1>3, <1>4 DEF Resolve, PageInv, OneAnswerEach, PageSettles

LEMMA ReloadPage ==
    ASSUME PageInv, Reload
    PROVE  PageInv' /\ Pending' = {}
<1>1. Pending' = {} /\ Waiting' = {}
  BY DEF Reload, Pending, Waiting
<1>2. PageType'
  BY DEF Reload, PageInv, PageType
<1>3. Cardinality(Pending') = 0 /\ Cardinality(Waiting') = 0
  BY <1>1, FS_EmptySet
<1>4. QED
  BY <1>1, <1>2, <1>3 DEF Reload, PageInv, OneAnswerEach, PageSettles

LEMMA QuietPage ==
    ASSUME PageInv, UNCHANGED pageVars
    PROVE  PageInv' /\ Pending' = Pending
  BY DEF PageInv, PageType, OneAnswerEach, PageSettles, pageVars, Pending, Waiting

-----------------------------------------------------------------------------
(* The server                                                              *)

\* No more loops than before, of any age, and no more tokens.
LEMMA NoMoreLoops ==
    ASSUME ServerInv, life' \in [Request -> 0..LoopLife],
           \A r \in Request : life'[r] <= life[r],
           level' \in 0..Capacity, level' <= level
    PROVE  Paid'
<1> SUFFICES ASSUME NEW k \in 1..LoopLife
             PROVE  ChatCost * Cardinality(Young(k)') + level'
                        <= Capacity + LoopLife - k
  BY DEF Paid
<1>1. Young(k)' \in SUBSET Young(k) /\ Young(k) \in SUBSET Request
  BY ChatAssumption DEF Young, ServerInv, ServerType
<1>2. /\ Cardinality(Young(k)') <= Cardinality(Young(k))
      /\ Cardinality(Young(k)') \in Nat /\ Cardinality(Young(k)) \in Nat
  BY <1>1, Fewer, SubsetFinite
<1>3. /\ ChatCost * Cardinality(Young(k)') <= ChatCost * Cardinality(Young(k))
      /\ ChatCost * Cardinality(Young(k)') \in Nat
      /\ ChatCost * Cardinality(Young(k)) \in Nat
  BY <1>2, CostGrows, ChatAssumption
<1>4. ChatCost * Cardinality(Young(k)) + level <= Capacity + LoopLife - k
  BY DEF ServerInv, Paid
<1>5. QED
  BY <1>3, <1>4, ChatAssumption DEF ServerInv, ServerType

LEMMA AdmitServer ==
    ASSUME ServerInv, NEW r \in Request, Admit(r)
    PROVE  ServerInv'
<1>1. /\ ServerType' /\ life[r] = 0 /\ level' = level - ChatCost
      /\ life' = [life EXCEPT ![r] = LoopLife]
  BY ChatAssumption DEF Admit, ServerInv, ServerType
<1>2. ASSUME NEW k \in 1..LoopLife
      PROVE  ChatCost * Cardinality(Young(k)') + level'
                 <= Capacity + LoopLife - k
  <2>1. Young(k)' = Young(k) \cup {r} /\ r \notin Young(k)
        /\ Young(k) \in SUBSET Request
    BY <1>1, ChatAssumption DEF Young, ServerInv, ServerType
  <2>2. Cardinality(Young(k)') = Cardinality(Young(k)) + 1
        /\ Cardinality(Young(k)) \in Nat
    BY <2>1, OneMore, SubsetFinite
  <2>3. /\ ChatCost * Cardinality(Young(k)')
               = ChatCost * Cardinality(Young(k)) + ChatCost
        /\ ChatCost * Cardinality(Young(k)) \in Nat
    BY <2>2, CostOfOne, CostGrows, ChatAssumption
  <2>4. ChatCost * Cardinality(Young(k)) + level <= Capacity + LoopLife - k
    BY DEF ServerInv, Paid
  <2>5. QED
    BY <1>1, <2>3, <2>4, ChatAssumption DEF ServerInv, ServerType
<1>3. QED
  BY <1>1, <1>2 DEF ServerInv, Paid

LEMMA TickServer ==
    ASSUME ServerInv, Tick
    PROVE  ServerInv'
<1>1. /\ ServerType' /\ level' <= level + 1
      /\ \A r \in Request : life'[r] = IF life[r] > 0 THEN life[r] - 1 ELSE 0
  BY ChatAssumption DEF Tick, ServerInv, ServerType
<1>2. ASSUME NEW k \in 1..LoopLife
      PROVE  ChatCost * Cardinality(Young(k)') + level'
                 <= Capacity + LoopLife - k
  <2>1. Young(k)' = Young(k + 1) /\ Young(k + 1) \in SUBSET Request
    BY <1>1, ChatAssumption DEF Young, ServerInv, ServerType
  <2>2. CASE k = LoopLife
    <3>1. \A q \in Request : ~(life[q] >= k + 1)
      <4>1. \A q \in Request : life[q] \in 0..LoopLife
        BY DEF ServerInv, ServerType
      <4>2. QED
        BY <2>2, <4>1, ChatAssumption
    <3>2. Cardinality(Young(k)') = 0
      BY <2>1, <3>1, FS_EmptySet DEF Young
    <3>3. ChatCost * Cardinality(Young(k)') = 0
      BY <3>2, ChatAssumption
    <3>4. level' \in Nat /\ level' <= Capacity
      BY <1>1, ChatAssumption DEF ServerType
    <3>5. Capacity + LoopLife - k = Capacity
      BY <2>2, ChatAssumption
    <3>6. QED
      BY <3>3, <3>4, <3>5
  <2>3. CASE k < LoopLife
    <3>1. ChatCost * Cardinality(Young(k + 1)) + level
              <= Capacity + LoopLife - (k + 1)
      BY <2>3, ChatAssumption DEF ServerInv, Paid
    <3>2. ChatCost * Cardinality(Young(k + 1)) \in Nat
      BY <2>1, SubsetFinite, CostGrows, ChatAssumption
    <3>3. QED
      BY <1>1, <2>1, <3>1, <3>2, ChatAssumption DEF ServerInv, ServerType
  <2>4. QED
    BY <2>2, <2>3, ChatAssumption
<1>3. QED
  BY <1>1, <1>2 DEF ServerInv, Paid

LEMMA ServerSame ==
    ASSUME ServerInv, UNCHANGED <<transit, life, level>>,
           answer' \in [Request -> {"none", "reply", "error"}]
    PROVE  ServerInv'
  BY DEF ServerInv, ServerType, Paid, Young

-----------------------------------------------------------------------------
(* The steps                                                               *)

LEMMA InitInv == Init => IInv
<1> SUFFICES ASSUME Init PROVE IInv
  OBVIOUS
<1>1. Pending = {} /\ Waiting = {}
  BY DEF Init, Pending, Waiting
<1>2. Cardinality(Pending) = 0 /\ Cardinality(Waiting) = 0
  BY <1>1, FS_EmptySet
<1>3. PageType
  BY DEF Init, PageType
<1>4. ServerType
  BY ChatAssumption DEF Init, ServerType
<1>5. Paid
  <2> SUFFICES ASSUME NEW k \in 1..LoopLife
               PROVE  ChatCost * Cardinality(Young(k)) + level
                          <= Capacity + LoopLife - k
    BY DEF Paid
  <2>1. Young(k) = {}
    BY ChatAssumption DEF Init, Young
  <2>2. ChatCost * Cardinality(Young(k)) = 0
    BY <2>1, FS_EmptySet, ChatAssumption
  <2>3. QED
    BY <2>2, ChatAssumption DEF Init
<1>6. QED
  BY <1>1, <1>2, <1>3, <1>4, <1>5
  DEF Init, IInv, PageInv, ServerInv, Awaited, OneAnswerEach, PageSettles

LEMMA StepInv == IInv /\ [Next]_vars => IInv'
<1> SUFFICES ASSUME IInv, [Next]_vars PROVE IInv'
  OBVIOUS
<1>1. CASE Reload
  <2>1. PageInv' /\ Pending' = {}
    BY <1>1, ReloadPage DEF IInv
  <2>2. /\ ServerType' /\ level' <= level
        /\ UNCHANGED life
    BY <1>1, ChatAssumption DEF Reload, IInv, ServerInv, ServerType
  <2>3. Paid'
    BY <2>2, NoMoreLoops, ChatAssumption DEF IInv, ServerInv, ServerType
  <2>4. Awaited'
    BY <1>1 DEF Reload, Awaited
  <2>5. QED
    BY <2>1, <2>2, <2>3, <2>4 DEF IInv, ServerInv
<1>2. CASE Tick
  <2>1. PageInv' /\ Pending' = Pending /\ answer' = answer
    BY <1>2, QuietPage DEF Tick, IInv
  <2>2. QED
    BY <1>2, <2>1, TickServer DEF IInv, Awaited
<1>3. ASSUME NEW r \in Request, Send(r) PROVE IInv'
  <2>1. PageInv' /\ \A q \in Pending : q \in Pending'
    BY <1>3, SendPage DEF IInv
  <2>2. ServerInv'
    BY <1>3 DEF Send, IInv, ServerInv, ServerType, Paid, Young
  <2>3. QED
    BY <1>3, <2>1, <2>2 DEF Send, IInv, Awaited
<1>4. ASSUME NEW r \in Request, Resolve(r) PROVE IInv'
  <2>1. PageInv' /\ Pending' = Pending
    BY <1>4, ResolvePage DEF IInv
  <2>2. UNCHANGED serverVars
    BY <1>4 DEF Resolve
  <2>3. ServerInv'
    BY <2>2, ServerSame DEF serverVars, IInv, ServerInv, ServerType
  <2>4. QED
    BY <2>1, <2>2, <2>3 DEF serverVars, IInv, Awaited
<1>5. ASSUME NEW r \in Request, Show(r) \/ Break(r) PROVE IInv'
  <2>1. /\ r \in Pending
        /\ rows' \in {rows, RowsLess}
        /\ r \in Waiting => rows' = RowsLess
        /\ UNCHANGED <<transit, life, level>>
        /\ answer' = [answer EXCEPT ![r] = "none"]
    BY <1>5 DEF Show, Break, Pending, Waiting
  <2>2. Settle(r)
    BY <1>5 DEF Show, Break
  <2>3. PageInv' /\ \A q \in Pending \ {r} : q \in Pending'
    BY <2>1, <2>2, SettlePage DEF IInv
  <2>4. ServerInv'
    BY <2>1, ServerSame DEF IInv, ServerInv, ServerType
  <2>5. QED
    BY <2>1, <2>3, <2>4 DEF IInv, Awaited, ServerInv, ServerType
<1>6. ASSUME NEW r \in Request, TurnAway(r) PROVE IInv'
  <2>1. PageInv' /\ Pending' = Pending
    BY <1>6, QuietPage DEF TurnAway, IInv
  <2>2. ServerType' /\ level' <= level /\ UNCHANGED life
    BY <1>6, ChatAssumption DEF TurnAway, Return, IInv, ServerInv, ServerType
  <2>3. Paid'
    BY <2>2, NoMoreLoops, ChatAssumption DEF IInv, ServerInv, ServerType
  <2>4. Awaited'
    BY <1>6, <2>1
    DEF TurnAway, Return, IInv, Awaited, ServerInv, ServerType, Pending
  <2>5. QED
    BY <2>1, <2>2, <2>3, <2>4 DEF IInv, ServerInv
<1>7. ASSUME NEW r \in Request, Admit(r) PROVE IInv'
  <2>1. PageInv' /\ Pending' = Pending
    BY <1>7, QuietPage DEF Admit, IInv
  <2>2. QED
    BY <1>7, <2>1, AdmitServer DEF Admit, IInv, Awaited
<1>8. ASSUME NEW r \in Request, LoopEnds(r) PROVE IInv'
  <2>1. PageInv' /\ Pending' = Pending
    BY <1>8, QuietPage DEF LoopEnds, IInv
  <2>2. /\ ServerType' /\ level' = level
        /\ \A q \in Request : life'[q] <= life[q]
    BY <1>8, ChatAssumption DEF LoopEnds, Return, IInv, ServerInv, ServerType
  <2>3. Paid'
    BY <2>2, NoMoreLoops, ChatAssumption DEF IInv, ServerInv, ServerType
  <2>4. Awaited'
    BY <1>8, <2>1
    DEF LoopEnds, Return, IInv, Awaited, ServerInv, ServerType, Pending
  <2>5. QED
    BY <2>1, <2>2, <2>3, <2>4 DEF IInv, ServerInv
<1>9. ASSUME NEW r \in Request, ProxyGivesUp(r) PROVE IInv'
  <2>1. PageInv' /\ Pending' = Pending
    BY <1>9, QuietPage DEF ProxyGivesUp, IInv
  <2>2. ServerInv'
    BY <1>9, ServerSame DEF ProxyGivesUp, IInv, ServerInv, ServerType
  <2>3. Awaited'
    BY <1>9, <2>1
    DEF ProxyGivesUp, IInv, Awaited, ServerInv, ServerType, Pending
  <2>4. QED
    BY <2>1, <2>2, <2>3 DEF IInv
<1>10. CASE UNCHANGED vars
  <2>1. PageInv' /\ Pending' = Pending /\ UNCHANGED serverVars
    BY <1>10, QuietPage DEF vars, IInv
  <2>2. ServerInv'
    BY <2>1, ServerSame DEF serverVars, IInv, ServerInv, ServerType
  <2>3. QED
    BY <2>1, <2>2 DEF serverVars, IInv, Awaited
<1>11. QED
  BY <1>1, <1>2, <1>3, <1>3, <1>4, <1>5, <1>6, <1>7, <1>8, <1>9, <1>10 DEF Next

-----------------------------------------------------------------------------
(* Answers                                                                 *)

\* One request's part of AnswerOwed.
Owed(r) ==
    /\ page[r] = "waiting" => transit[r] \/ life[r] > 0 \/ answer[r] # "none"
    /\ page[r] = "reading" => answer[r] # "none"

\* A step that leaves the slot of a request alone leaves its answer owed.
LEMMA OwedStill ==
    ASSUME NEW r \in Request, Owed(r), page'[r] = page[r],
           transit[r] => transit'[r], life[r] > 0 => life'[r] > 0,
           answer[r] # "none" => answer'[r] # "none"
    PROVE  Owed(r)'
  BY DEF Owed

\* Who takes a request, a loop or an answer away leaves the next one behind.
LEMMA StepOwed ==
    ASSUME IInv, [Next]_vars, AnswerOwed
    PROVE  AnswerOwed'
<1> SUFFICES ASSUME NEW q \in Request PROVE Owed(q)'
  BY DEF AnswerOwed, Owed
<1>1. /\ page \in [Request -> {"settled", "waiting", "reading"}]
      /\ transit \in [Request -> BOOLEAN]
      /\ answer \in [Request -> {"none", "reply", "error"}]
      /\ life \in [Request -> 0..LoopLife]
      /\ LoopLife \in Nat \ {0}
  BY ChatAssumption DEF IInv, PageInv, PageType, ServerInv, ServerType
<1>2. Owed(q)
  BY DEF AnswerOwed, Owed
<1>3. CASE Reload
  BY <1>3 DEF Reload, Owed
<1>4. CASE Tick
  <2>1. life[q] > 0 => life'[q] > 0
    BY <1>1, <1>4 DEF Tick
  <2>2. QED
    BY <1>2, <1>4, <2>1, OwedStill DEF Tick, pageVars
<1>5. ASSUME NEW r \in Request, q # r,
             \/ Send(r) \/ Resolve(r) \/ Show(r) \/ Break(r)
             \/ TurnAway(r) \/ Admit(r) \/ LoopEnds(r) \/ ProxyGivesUp(r)
      PROVE  Owed(q)'
  <2>1. /\ page'[q] = page[q] /\ transit'[q] = transit[q]
        /\ life'[q] = life[q] /\ answer'[q] = answer[q]
    BY <1>1, <1>5
    DEF Send, Resolve, Show, Break, TurnAway, Admit, LoopEnds, ProxyGivesUp,
        Settle, Return, pageVars, serverVars
  <2>2. QED
    BY <1>2, <2>1, OwedStill
<1>6. CASE Send(q)
  BY <1>1, <1>6 DEF Send, Owed
<1>7. CASE Resolve(q)
  BY <1>1, <1>7 DEF Resolve, Owed, serverVars
<1>8. CASE Show(q) \/ Break(q)
  BY <1>1, <1>8 DEF Show, Break, Settle, Owed
<1>9. CASE Admit(q)
  BY <1>1, <1>2, <1>9 DEF Admit, Owed, pageVars
<1>10. CASE TurnAway(q) \/ LoopEnds(q) \/ ProxyGivesUp(q)
  <2>1. /\ page' = page
        /\ answer'[q] # "none" \/ (page[q] # "waiting" /\ answer'[q] = answer[q])
    BY <1>1, <1>10 DEF TurnAway, LoopEnds, ProxyGivesUp, Return, pageVars
  <2>2. QED
    BY <1>2, <2>1 DEF Owed
<1>11. CASE UNCHANGED vars
  BY <1>2, <1>11 DEF vars, pageVars, serverVars, Owed
<1>12. QED
  BY <1>3, <1>4, <1>5, <1>5, <1>6, <1>7, <1>8, <1>9, <1>10, <1>11 DEF Next

-----------------------------------------------------------------------------
(* Theorems                                                                *)

\* The states of Chat have their types.
THEOREM TypeCorrect == Spec => []TypeOK
<1>1. IInv => TypeOK
  BY TypeParts DEF IInv, PageInv, ServerInv
<1>2. QED
  BY <1>1, InitInv, StepInv, PTL DEF Spec

\* Every message gets exactly one row in answer, however many overlap and
\* however their answers fail (LLMChatWindow.templ lines 633 to 666).
THEOREM AnswersMatch == Spec => []OneAnswerEach
<1>1. IInv => OneAnswerEach
  BY DEF IInv, PageInv
<1>2. QED
  BY <1>1, InitInv, StepInv, PTL DEF Spec

\* No indicator outlives the messages that wait, and with nothing pending the
\* button works (LLMChatWindow.templ lines 598 to 601 and 640 to 685).
THEOREM PageComesToRest == Spec => []PageSettles
<1>1. IInv => PageSettles
  BY DEF IInv, PageInv
<1>2. QED
  BY <1>1, InitInv, StepInv, PTL DEF Spec

\* The loops one user keeps running at once cost no more than a full bucket
\* and its refill during one loop, however often pages are left and proxies
\* give up (runGemma.go line 52, LLMRoutes.go lines 16 and 17).
THEOREM LoopsStayPaid == Spec => []LoopsPaid
<1>1. ASSUME IInv PROVE LoopsPaid
  <2>1. Running = Young(1) /\ Young(1) \in SUBSET Request
    BY <1>1, ChatAssumption DEF Running, Young, IInv, ServerInv, ServerType
  <2>2. ChatCost * Cardinality(Young(1)) + level <= Capacity + LoopLife - 1
    BY <1>1, ChatAssumption DEF IInv, ServerInv, Paid
  <2>3. ChatCost * Cardinality(Young(1)) \in Nat
    BY <2>1, SubsetFinite, CostGrows, ChatAssumption
  <2>4. QED
    BY <1>1, <2>1, <2>2, <2>3, ChatAssumption
    DEF LoopsPaid, IInv, ServerInv, ServerType
<1>2. QED
  BY <1>1, InitInv, StepInv, PTL DEF Spec

\* No message is forgotten: while the page waits, the gate, a loop or the
\* network still has its answer to deliver (LLMCaller.go lines 20 to 60,
\* LLMChatWindow.templ lines 633 to 666).
THEOREM NoMessageForgotten == Spec => []AnswerOwed
<1>1. Init => AnswerOwed
  BY DEF Init, AnswerOwed
<1>2. QED
  BY <1>1, InitInv, StepInv, StepOwed, PTL DEF Spec

=============================================================================
