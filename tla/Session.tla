------------------------------ MODULE Session ------------------------------
(***************************************************************************)
(* The cookie Authorization of one browser, next to the accounts and the   *)
(* tokens of module Accounts.  The server keeps no sessions: who is logged *)
(* in is what this cookie says, and the answers of the gate                *)
(* (internal/middleware/JWTmiddleware.go), of the pages for visitors       *)
(* (handleTokenEdgeCase) and of the handlers in userCaller.go set, delete  *)
(* or keep it.  A request leaves with the cookie of that moment; tabs and  *)
(* repeated clicks make requests overlap, their answers come in any order  *)
(* and may be lost.                                                        *)
(*                                                                         *)
(* The slots of Accounts carry the requests of this browser, which are on  *)
(* a trip, and those of everybody else, which are not.                     *)
(***************************************************************************)
EXTENDS Accounts

VARIABLES
    jar,         \* the cookie, as the browser holds it
    trip,        \* what this browser asked for in a slot, "none": not its own
    sent,        \* the cookie each of its requests left with
    effect       \* what each of its answers tells the browser to do

browser == <<jar, trip, sent, effect>>
allVars == <<vars, browser>>

\* No cookie, and one whose token the server no longer accepts.
NoCookie == [id |-> 0]
StaleCookie == [id |-> -1]

\* No answer yet, one without the header Set-Cookie, and one that deletes the
\* cookie.
Awaited == [id |-> -2]
Keep == [id |-> -3]
Clear == [id |-> -4]

\* "grant" stands for /createUser, /verifyLogin and /verifyOTP, "visit" for the
\* pages /loginUser and /newUser, "use" for the other requests behind the gate:
\* what they do to the table is among the steps of Accounts.
Gated == {"use", "logout", "delete"}
Errand == Gated \cup {"grant", "visit"}

OnTrip(r) == trip[r] # "none"
Arrived(r) == OnTrip(r) /\ pc[r] = "idle" /\ effect[r] = Awaited
Answered(r) == OnTrip(r) /\ (effect[r] # Awaited \/ pc[r] \in Outcome)

TypeOKS ==
    /\ TypeOK
    /\ jar \in valid \cup {NoCookie, StaleCookie}
    /\ trip \in [Request -> Errand \cup {"none"}]
    /\ sent \in [Request -> valid \cup {NoCookie, StaleCookie}]
    /\ effect \in [Request -> valid \cup {Awaited, Keep, Clear, StaleCookie}]
    /\ \A r \in Request :
           /\ effect[r] # Awaited => pc[r] \in {"idle"} \cup Outcome
           /\ ~OnTrip(r) => sent[r] = NoCookie /\ effect[r] = Awaited

InitS ==
    /\ Init
    /\ jar = NoCookie
    /\ trip = [r \in Request |-> "none"]
    /\ sent = [r \in Request |-> NoCookie]
    /\ effect = [r \in Request |-> Awaited]

-----------------------------------------------------------------------------
(* The browser                                                             *)

Depart(r, what) ==
    /\ ~OnTrip(r) /\ pc[r] = "idle"
    /\ trip' = [trip EXCEPT ![r] = what]
    /\ sent' = [sent EXCEPT ![r] = jar]
    /\ UNCHANGED <<vars, jar, effect>>

\* The slot of Accounts is free again, and the trip is over.
Return(r) ==
    /\ IF pc[r] \in Outcome THEN Finish(r) ELSE UNCHANGED vars
    /\ trip' = [trip EXCEPT ![r] = "none"]
    /\ sent' = [sent EXCEPT ![r] = NoCookie]
    /\ effect' = [effect EXCEPT ![r] = Awaited]

\* The answer arrives and the browser does what its Set-Cookie says.
Arrive(r) ==
    /\ Answered(r) /\ Return(r)
    /\ \/ effect[r] \in {Awaited, Keep} /\ UNCHANGED jar
       \/ effect[r] = Clear /\ jar' = NoCookie
       \/ effect[r] \notin {Awaited, Keep, Clear} /\ jar' = effect[r]

\* The connection breaks: before the request was handled, or with the answer.
\* A handler that is at work goes on, for nobody.
Lose(r) == OnTrip(r) /\ Return(r) /\ UNCHANGED jar

\* MaxAge: the cookie is set after its token was made and lives as long.
CookieAges ==
    /\ jar = StaleCookie /\ jar' = NoCookie
    /\ UNCHANGED <<vars, trip, sent, effect>>

-----------------------------------------------------------------------------
(* The answers                                                             *)

Answer(r, what) ==
    /\ Arrived(r)
    /\ effect' = [effect EXCEPT ![r] = what]
    /\ UNCHANGED <<vars, jar, trip, sent>>

\* Mutant: the gate deletes the cookie before it asks the limiter.
TurnAwayAndClear(r) == Answer(r, Clear)

\* The limiter says no or fails, the address is not accepted, the form is wrong
\* or a statement fails: an error, and the cookie stays.
TurnAway(r) == Answer(r, Keep)

\* The gate finds no token or one that it does not accept.
GateRefuses(r) ==
    /\ trip[r] \in Gated /\ sent[r] \notin valid
    /\ Answer(r, Clear)

\* A page for visitors: the form without a token, "already logged in" with a
\* valid one, otherwise the cookie is deleted and the page asked for again.
ServeVisit(r) ==
    /\ trip[r] = "visit"
    /\ Answer(r, IF sent[r] = StaleCookie THEN Clear ELSE Keep)

\* Requests behind the gate that leave the cookie alone.
ServeUse(r) ==
    /\ trip[r] = "use" /\ sent[r] \in valid
    /\ Answer(r, Keep)

\* CallLogoutUser deletes the cookie; the token stays valid.
ServeLogout(r) ==
    /\ trip[r] = "logout" /\ sent[r] \in valid
    /\ Answer(r, Clear)

\* CallDeleteUser: the cookie is deleted after the row, and stays with the error
\* when there is no row.
ServeDelete(r) ==
    /\ Arrived(r) /\ trip[r] = "delete" /\ sent[r] \in valid
    /\ DeleteUser(r, sent[r].id)
    /\ effect' = [effect EXCEPT ![r] =
                      IF sent[r].id \in DOMAIN users THEN Clear ELSE Keep]
    /\ UNCHANGED <<jar, trip, sent>>

\* Registration, login and the end of a password reset, up to the token.
ServeGrant(r) ==
    /\ Arrived(r) /\ trip[r] = "grant"
    /\ Public(r)
    /\ UNCHANGED browser

\* CreateToken, and the cookie with the token in the answer to this browser.
SetCookie(r) ==
    /\ IssueToken(r)
    /\ effect' = [effect EXCEPT ![r] = IF OnTrip(r) THEN work[r] ELSE Awaited]
    /\ UNCHANGED <<jar, trip, sent>>

-----------------------------------------------------------------------------

\* A token expires wherever it is.
Expire(t) ==
    LET aged(c) == IF c = t THEN StaleCookie ELSE c
    IN  /\ ExpireToken(t)
        /\ jar' = aged(jar)
        /\ sent' = [r \in Request |-> aged(sent[r])]
        /\ effect' = [r \in Request |-> aged(effect[r])]
        /\ UNCHANGED trip

\* What a request of somebody else does, with a token of its own or without.
Elsewhere(r) ==
    /\ ~OnTrip(r)
    /\ Public(r) \/ Authorised(r) \/ UpdateProfile(r) \/ Finish(r)
    /\ UNCHANGED browser

NextS ==
    \/ CookieAges
    \/ \E t \in valid : Expire(t)
    \/ \E r \in Request :
           \/ \E what \in Errand : Depart(r, what)
           \/ Arrive(r) \/ Lose(r)
           \/ TurnAway(r) \/ GateRefuses(r)
           \/ ServeVisit(r) \/ ServeUse(r) \/ ServeLogout(r)
           \/ ServeDelete(r) \/ ServeGrant(r) \/ SetCookie(r)
           \/ Abandon(r) /\ UNCHANGED browser
           \/ Elsewhere(r)

SpecS == InitS /\ [][NextS]_allVars

-----------------------------------------------------------------------------
(* Properties                                                              *)

\* Nobody is logged out by accident: whatever overlaps, a cookie with a token
\* the server accepts is removed only by the answer to a logout, to a deletion
\* that removed an account, or to a request that left without such a token
\* (JWTmiddleware.go lines 146 to 158, userCaller.go lines 88 to 112, 359, 398).
\* The last may answer late and remove the cookie of a login made since.
SessionLostForCause ==
    [][/\ jar \in valid
       /\ jar' = NoCookie
       => \E r \in Request :
               /\ Arrive(r)
               /\ \/ trip[r] = "logout"
                  \/ trip[r] = "delete" /\ pc[r] = "done"
                  \/ sent[r] \notin valid]_allVars

\* "Perform the deletion of both the user data and cookie" (userCaller.go line
\* 366): with nothing else under way, an answered deletion leaves no cookie of
\* an account that is gone.
DeleteEndsSession ==
    [][\A r \in Request :
           /\ Arrive(r)
           /\ trip[r] = "delete" /\ pc[r] \in {"done", "noUser"}
           /\ \A q \in Request \ {r} : ~OnTrip(q)
           => jar'.id \in DOMAIN users \cup {0, -1}]_allVars

=============================================================================
