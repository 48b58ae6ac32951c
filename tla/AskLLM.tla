------------------------------- MODULE AskLLM -------------------------------
(***************************************************************************)
(* One chat request: serverSideLLMboilerPlate of                           *)
(* internal/httpcallers/LLMCaller.go and the tool loop behind it, AskGemma *)
(* (internal/LLM/runGemma.go) or AskOss (runOSS.go).  Requests share no    *)
(* state, so the module follows one.                                       *)
(*                                                                         *)
(* The model decides what it replies; a reply is what the loop makes of    *)
(* it.  Gemma asks for one tool at a time, in the JSON of its reply; OSS   *)
(* asks for a list of them.                                                *)
(***************************************************************************)
EXTENDS Integers, Sequences

CONSTANTS
    MaxTurns,   \* maxTurns: calls of the model in one request
    MaxCalls    \* bound: tool calls in one reply of OSS

ASSUME AskAssumption == MaxTurns \in Nat \ {0} /\ MaxCalls \in Nat \ {0}

VARIABLES
    route,      \* the loop behind the endpoint
    pc,         \* where the request is, or how it was answered
    turn,       \* loop counter
    messages,   \* the conversation the next call of the model carries
    pending     \* tool calls of the last reply not yet dispatched

vars == <<route, pc, turn, messages, pending>>

System == [role |-> "system", calls |-> 0]
User == [role |-> "user", calls |-> 0]
Asks(n) == [role |-> "assistant", calls |-> n]
Result == [role |-> "tool", calls |-> 0]

Returned == {"answered", "failed", "overLimit"}

TypeOK ==
    /\ route \in {"gemma", "oss"}
    /\ pc \in {"start", "call", "dispatch", "rejected"} \cup Returned
    /\ turn \in 0..MaxTurns
    /\ messages \in Seq({System, User, Result}
                            \cup {Asks(n) : n \in 1..MaxCalls})
    /\ pending \in 0..MaxCalls

Init ==
    /\ route \in {"gemma", "oss"}
    /\ pc = "start" /\ turn = 0
    /\ messages = <<>> /\ pending = 0

\* A blank message is turned down; any other starts the conversation.
Start ==
    /\ pc = "start"
    /\ \/ pc' = "rejected" /\ UNCHANGED messages
       \/ pc' = "call" /\ messages' = <<System, User>>
    /\ UNCHANGED <<route, turn, pending>>

Goto(from, to) == pc = from /\ pc' = to

\* callOllama: the connection fails, the client's 120 s are over, or the
\* status or the body of the response is not what it should be.
GemmaCallFails ==
    /\ route = "gemma"
    /\ Goto("call", "failed")
    /\ UNCHANGED <<route, turn, messages, pending>>

\* callOllamaOss, in the same cases.
OssCallFails ==
    /\ route = "oss"
    /\ Goto("call", "failed")
    /\ UNCHANGED <<route, turn, messages, pending>>

\* parseAIResponse: the reply is not the JSON of the protocol, or its final
\* answer, its tool name or its type is missing.
GemmaUnusable ==
    /\ route = "gemma"
    /\ Goto("call", "failed")
    /\ UNCHANGED <<route, turn, messages, pending>>

\* The reply is blank and asks for no tool.
OssUnusable ==
    /\ route = "oss"
    /\ Goto("call", "failed")
    /\ UNCHANGED <<route, turn, messages, pending>>

\* A final answer with content is returned as it is.
GemmaAnswers ==
    /\ route = "gemma"
    /\ Goto("call", "answered")
    /\ UNCHANGED <<route, turn, messages, pending>>

\* A reply with content and without tool calls is returned as it is.
OssAnswers ==
    /\ route = "oss"
    /\ Goto("call", "answered")
    /\ UNCHANGED <<route, turn, messages, pending>>

\* Mutant: the loop runs one turn too many.
NextTurnLate ==
    /\ turn' = turn + 1
    /\ pc' = IF turn + 1 <= MaxTurns THEN "call" ELSE "overLimit"

\* The for loop: the next turn, or the error after the last one.
NextTurn ==
    /\ turn' = turn + 1
    /\ pc' = IF turn + 1 < MaxTurns THEN "call" ELSE "overLimit"

\* Gemma asks for a tool.  The request joins the conversation once Dispatch
\* is through with it, so nothing is recorded yet.
GemmaAsksTool ==
    /\ route = "gemma"
    /\ Goto("call", "dispatch")
    /\ pending' = 1
    /\ UNCHANGED <<route, turn, messages>>

\* Mutant: a failed tool is tried again and costs no turn.
GemmaDispatchAgain ==
    /\ route = "gemma"
    /\ Goto("dispatch", "call")
    /\ pending' = 0
    /\ UNCHANGED <<route, turn, messages>>

\* Dispatch runs the tool or refuses to (an unknown name, a bad query, the
\* search failed); either way the model is told, and the turn is over.
GemmaDispatch ==
    /\ route = "gemma" /\ pc = "dispatch"
    /\ messages' = messages \o <<Asks(1), Result>>
    /\ pending' = 0
    /\ NextTurn
    /\ UNCHANGED route

\* OSS asks for n tools at once; its message joins the conversation as it is.
OssAsksTools ==
    /\ route = "oss"
    /\ Goto("call", "dispatch")
    /\ \E n \in 1..MaxCalls :
           pending' = n /\ messages' = Append(messages, Asks(n))
    /\ UNCHANGED <<route, turn>>

\* One iteration of the loop over ToolCalls is over.
NextCall ==
    /\ pending' = pending - 1
    /\ IF pending = 1 THEN NextTurn ELSE UNCHANGED <<turn, pc>>

\* Mutant: a tool with another name is skipped without a word.
OssDispatchOrSkip ==
    /\ route = "oss" /\ pc = "dispatch"
    /\ messages' \in {messages, Append(messages, Result)}
    /\ NextCall
    /\ UNCHANGED route

\* web_search goes through Dispatch, which runs it or refuses to; a tool with
\* another name is answered without Dispatch.  Either way the model is told.
OssDispatch ==
    /\ route = "oss" /\ pc = "dispatch"
    /\ messages' = Append(messages, Result)
    /\ NextCall
    /\ UNCHANGED route

Step ==
    \/ GemmaCallFails \/ GemmaUnusable \/ GemmaAnswers
    \/ GemmaAsksTool \/ GemmaDispatch
    \/ OssCallFails \/ OssUnusable \/ OssAnswers
    \/ OssAsksTools \/ OssDispatch

Next == Start \/ Step

\* Both HTTP clients have timeouts (120 s and 15 s), so every call of the model
\* and every search comes to an end.
Spec == Init /\ [][Next]_vars /\ WF_vars(Step)

-----------------------------------------------------------------------------
(* Properties                                                              *)

\* When the model is called, every reply that asked for n tools is followed
\* by exactly n results and then by the next reply: no call is lost, answered
\* twice or left open, which the chat API of the model relies on (AskGemma
\* lines 104 to 123, AskOss lines 142 to 169).
EveryCallAnswered ==
    pc = "call" =>
        LET IsReply(i) == i \in 3..Len(messages)
                              /\ messages[i].role = "assistant"
            IsEnd(i) == i = Len(messages) + 1 \/ IsReply(i)
        IN  /\ messages[1] = System /\ messages[2] = User /\ IsEnd(3)
            /\ \A i \in 3..Len(messages) :
                   IsReply(i) =>
                       /\ IsEnd(i + messages[i].calls + 1)
                       /\ \A j \in 1..messages[i].calls :
                              messages[i + j] = Result

\* How many steps a request may still take: a turn costs one call of the model
\* and the tool calls it asks for.
Effort ==
    LET ATurn == MaxCalls + 1
    IN  IF pc = "start" THEN MaxTurns * ATurn + 1
        ELSE IF pc = "call" THEN (MaxTurns - turn) * ATurn
        ELSE IF pc = "dispatch" THEN (MaxTurns - turn - 1) * ATurn + pending
        ELSE 0

\* Every call of the model and of a tool is paid for out of the turns of the
\* request: no step gives back what another has spent, be it a retry of a failed
\* tool or a list of calls as long as a reply may make it (AskGemma lines 66 to
\* 131, AskOss lines 125 to 173).
EffortShrinks == [][Effort' \in 0..(Effort - 1)]_vars

\* A request that reaches the model is answered, whatever it replies: with an
\* answer or with an error (the loops' bound maxTurns).
AskReturns == pc \in {"call", "dispatch"} ~> pc \in Returned

=============================================================================
