-------------------------------- MODULE Chat --------------------------------
(***************************************************************************)
(* One user's chat page (tempFrontend/LLMHandling/LLMChatWindow.templ),    *)
(* the gate in front of the chat endpoints (CheckJwtToken of               *)
(* internal/middleware/JWTmiddleware.go with LLMTokenCost) and the tool    *)
(* loops behind it, seen from outside: module AskLLM looks into one.       *)
(*                                                                         *)
(* Enter sends while the button is disabled, so messages overlap and their *)
(* answers come in any order.  The loops run on a background context       *)
(* (runGemma.go line 52, runOSS.go line 109): neither the time limit of    *)
(* the proxy nor a page that is left or reloaded stops one.  What bounds   *)
(* them is the user's token bucket, which is here as TokenBucket promises  *)
(* it; a tick is the time one token takes to come back.                    *)
(***************************************************************************)
EXTENDS Integers, FiniteSets

CONSTANTS
    Request,     \* slots for messages sent and loops running
    Capacity,    \* tokens of a full bucket
    PageCost,    \* JWTTokenCost, for loading the page
    ChatCost,    \* LLMTokenCost, for a message
    LoopLife     \* ticks a loop lasts at most

ASSUME ChatAssumption ==
    /\ IsFiniteSet(Request)
    /\ Capacity \in Nat /\ PageCost \in Nat /\ ChatCost \in Nat
    /\ LoopLife \in Nat \ {0}

VARIABLES
    \* the page
    rows,        \* how many rows have the id typingRow
    disabled,    \* is the send button disabled?
    unanswered,  \* messages of the user without a row of the bot or an error
    page,        \* how far each message is
    \* the network and the server
    transit,     \* has the request still to reach the gate?
    answer,      \* the answer on its way to the page
    life,        \* ticks the loop of a message may still run, 0: no loop
    level        \* tokens in the user's bucket

pageVars == <<rows, disabled, unanswered, page>>
serverVars == <<transit, answer, life, level>>
vars == <<pageVars, serverVars>>

Waiting == {r \in Request : page[r] = "waiting"}
Pending == {r \in Request : page[r] \in {"waiting", "reading"}}
Running == {r \in Request : life[r] > 0}

TypeOK ==
    /\ rows \in Nat /\ disabled \in BOOLEAN /\ unanswered \in Nat
    /\ page \in [Request -> {"settled", "waiting", "reading"}]
    /\ transit \in [Request -> BOOLEAN]
    /\ answer \in [Request -> {"none", "reply", "error"}]
    /\ life \in [Request -> 0..LoopLife]
    /\ level \in 0..Capacity
    /\ \A r \in Request :
           /\ transit[r] => life[r] = 0
           /\ answer[r] # "none" => r \in Pending

Init ==
    /\ rows = 0 /\ disabled = FALSE /\ unanswered = 0
    /\ page = [r \in Request |-> "settled"]
    /\ transit = [r \in Request |-> FALSE]
    /\ answer = [r \in Request |-> "none"]
    /\ life = [r \in Request |-> 0]
    /\ level = Capacity

-----------------------------------------------------------------------------
(* The page                                                                *)

\* A message that is not blank, by the button or by Enter, up to the call of
\* fetch.  The slot is free: its last message is settled on both sides.
Send(r) ==
    /\ r \notin Pending /\ ~transit[r] /\ life[r] = 0
    /\ unanswered' = unanswered + 1
    /\ disabled' = TRUE
    /\ rows' = rows + 1
    /\ page' = [page EXCEPT ![r] = "waiting"]
    /\ transit' = [transit EXCEPT ![r] = TRUE]
    /\ UNCHANGED <<answer, life, level>>

\* removeTypingIndicator: getElementById finds the first of the rows, whichever
\* message it belongs to, or none.
RowsLess == IF rows = 0 THEN 0 ELSE rows - 1

\* A row of the bot or of an error ends the message; sendMessage returns and
\* the button is enabled, whatever else is pending.
Settle(r) ==
    /\ page' = [page EXCEPT ![r] = "settled"]
    /\ unanswered' = unanswered - 1
    /\ disabled' = FALSE

\* fetch resolves with the status and the headers of the answer.
Resolve(r) ==
    /\ page[r] = "waiting" /\ answer[r] # "none"
    /\ page' = [page EXCEPT ![r] = "reading"]
    /\ rows' = RowsLess
    /\ UNCHANGED <<disabled, unanswered, serverVars>>

\* Mutant: an error status leaves no row.
ShowRepliesOnly(r) ==
    /\ page[r] = "reading"
    /\ page' = [page EXCEPT ![r] = "settled"]
    /\ unanswered' = IF answer[r] = "reply" THEN unanswered - 1 ELSE unanswered
    /\ disabled' = FALSE
    /\ answer' = [answer EXCEPT ![r] = "none"]
    /\ UNCHANGED <<rows, transit, life, level>>

\* The body has been read: a reply, or the text of an error status.
Show(r) ==
    /\ page[r] = "reading"
    /\ Settle(r)
    /\ answer' = [answer EXCEPT ![r] = "none"]
    /\ UNCHANGED <<rows, transit, life, level>>

\* Mutant: the catch block leaves the indicator alone.
BreakAndKeepRow(r) ==
    /\ r \in Pending
    /\ Settle(r) /\ UNCHANGED rows
    /\ answer' = [answer EXCEPT ![r] = "none"]
    /\ UNCHANGED <<transit, life, level>>

\* The connection breaks, or the body cannot be read: the catch block removes
\* a row, after Resolve a second one.  The server may not notice.
Break(r) ==
    /\ r \in Pending
    /\ Settle(r) /\ rows' = RowsLess
    /\ answer' = [answer EXCEPT ![r] = "none"]
    /\ UNCHANGED <<transit, life, level>>

\* The page is left or reloaded.  Its requests are dropped by the browser; what
\* runs on the server goes on.  Loading it again is charged, unless the browser
\* went elsewhere or the gate refused.
Reload ==
    /\ level' \in {level, level - PageCost} \cap Nat
    /\ rows' = 0 /\ disabled' = FALSE /\ unanswered' = 0
    /\ page' = [r \in Request |-> "settled"]
    /\ answer' = [r \in Request |-> "none"]
    /\ UNCHANGED <<transit, life>>

-----------------------------------------------------------------------------
(* The gate, the loops and the proxy                                       *)

\* What goes back is lost unless the page still waits for an answer.
Return(r, a) ==
    answer' = [answer EXCEPT ![r] =
                   IF page[r] = "waiting" /\ @ = "none" THEN a ELSE @]

\* The gate turns the request away: no token or an expired one (the address
\* pays), too few tokens, or the limiter fails, with the charge made or not.
TurnAway(r) ==
    /\ transit[r]
    /\ transit' = [transit EXCEPT ![r] = FALSE]
    /\ Return(r, "error")
    /\ level' \in {level, level - ChatCost} \cap Nat
    /\ UNCHANGED <<pageVars, life>>

\* Mutant: a message is charged like a page.
AdmitCheaply(r) ==
    /\ transit[r] /\ level >= PageCost
    /\ transit' = [transit EXCEPT ![r] = FALSE]
    /\ level' = level - PageCost
    /\ life' = [life EXCEPT ![r] = LoopLife]
    /\ UNCHANGED <<pageVars, answer>>

\* The user pays and the handler calls the loop.
Admit(r) ==
    /\ transit[r] /\ level >= ChatCost
    /\ transit' = [transit EXCEPT ![r] = FALSE]
    /\ level' = level - ChatCost
    /\ life' = [life EXCEPT ![r] = LoopLife]
    /\ UNCHANGED <<pageVars, answer>>

\* Mutant: a failed loop is only logged.
LoopEndsSilently(r) ==
    /\ life[r] > 0 /\ life' = [life EXCEPT ![r] = 0]
    /\ Return(r, "reply") \/ UNCHANGED answer
    /\ UNCHANGED <<pageVars, transit, level>>

\* The loop returns an answer or an error (AskReturns of AskLLM).
LoopEnds(r) ==
    /\ life[r] > 0 /\ life' = [life EXCEPT ![r] = 0]
    /\ Return(r, "reply") \/ Return(r, "error")
    /\ UNCHANGED <<pageVars, transit, level>>

\* The proxy stops waiting and answers in the server's place.
ProxyGivesUp(r) ==
    /\ life[r] > 0 /\ page[r] = "waiting" /\ answer[r] = "none"
    /\ answer' = [answer EXCEPT ![r] = "error"]
    /\ UNCHANGED <<pageVars, transit, life, level>>

\* Mutant: the bucket has no brim.
TickOverfull ==
    /\ \A r \in Request : life[r] # 1
    /\ level < 2 * Capacity /\ level' = level + 1
    /\ life' = [r \in Request |-> IF life[r] > 0 THEN life[r] - 1 ELSE 0]
    /\ UNCHANGED <<pageVars, transit, answer>>

\* Time passes: a token comes back, and no loop outlives LoopLife.
Tick ==
    /\ \A r \in Request : life[r] # 1
    /\ level' = IF level < Capacity THEN level + 1 ELSE level
    /\ life' = [r \in Request |-> IF life[r] > 0 THEN life[r] - 1 ELSE 0]
    /\ UNCHANGED <<pageVars, transit, answer>>

-----------------------------------------------------------------------------

Next ==
    \/ Reload \/ Tick
    \/ \E r \in Request :
           \/ Send(r) \/ Resolve(r) \/ Show(r) \/ Break(r)
           \/ TurnAway(r) \/ Admit(r) \/ LoopEnds(r) \/ ProxyGivesUp(r)

\* The handler runs, its loop ends (AskReturns of AskLLM), and the page handles
\* what arrives.
Proceed(r) == TurnAway(r) \/ Admit(r) \/ LoopEnds(r) \/ Resolve(r) \/ Show(r)

Spec == Init /\ [][Next]_vars /\ \A r \in Request : WF_vars(Proceed(r))

-----------------------------------------------------------------------------
(* Properties                                                              *)

\* Every message gets exactly one row in answer, a reply or an error, however
\* sends overlap and answers fail half way: what is unanswered is what is
\* pending (lines 633 to 666).
OneAnswerEach == unanswered = Cardinality(Pending)

\* No indicator outlives the messages waiting, although the rows share one id
\* and a failing body removes two of them; and when nothing is pending the
\* button can be used (lines 598 to 601 and 640 to 685).
PageSettles ==
    /\ rows <= Cardinality(Waiting)
    /\ Pending = {} => ~disabled

\* While the page waits, its answer is still to come: the request has not
\* reached the gate, or its loop runs, or the answer is on its way, and the body
\* of a response that has begun is there to be read.  Every turn the gate, the
\* loop and the proxy can take, in whatever order, leaves one of these behind
\* (LLMCaller.go lines 20 to 60, LLMChatWindow.templ lines 633 to 666).
AnswerOwed ==
    \A r \in Request :
        /\ page[r] = "waiting" => transit[r] \/ life[r] > 0 \/ answer[r] # "none"
        /\ page[r] = "reading" => answer[r] # "none"

\* Nobody waits for ever: whatever the gate, the loop and the proxy do, and
\* however often the page is left, a message sent is settled (lines 633 to 666).
EveryMessageSettles == \A r \in Request : r \in Pending ~> r \notin Pending

\* However often a page is reloaded or the proxy gives up, the loops one user
\* keeps running at once are paid for: at most what a full bucket and the
\* refill during one loop buy (LLMRoutes.go lines 15 and 16, rateLimiter.go
\* line 24).
LoopsPaid == ChatCost * Cardinality(Running) <= Capacity + LoopLife - 1

=============================================================================
