--------------------------- MODULE Session_proofs ---------------------------
(***************************************************************************)
(* Proofs about Session, for any number of requests, addresses and ids.    *)
(*                                                                         *)
(* With the cookies left out, a browser is one more client of Accounts, so *)
(* what Accounts_proofs shows holds here.  That a session is lost for a    *)
(* cause needs an invariant: why each answer on its way deletes the        *)
(* cookie.                                                                 *)
(***************************************************************************)
EXTENDS Session, Accounts_proofs

\* An answer that deletes the cookie has a cause, fixed when it was given.
ClearedForCause ==
    \A r \in Request :
        effect[r] = Clear =>
            \/ trip[r] = "logout"
            \/ trip[r] = "delete" /\ pc[r] = "done"
            \/ sent[r] \in {NoCookie, StaleCookie}

SInv == TypeOKS /\ ClearedForCause

-----------------------------------------------------------------------------
(* Session implements Accounts                                             *)

\* Every step is one of Accounts or leaves its variables alone.
LEMMA StepImplements == [NextS]_allVars => [Next]_vars
<1> SUFFICES ASSUME [NextS]_allVars PROVE [Next]_vars
  OBVIOUS
<1>1. ASSUME NEW r \in Request, Return(r) PROVE [Next]_vars
  BY <1>1 DEF Return, Next
<1>2. ASSUME NEW r \in Request, ServeDelete(r) PROVE Authorised(r)
  BY <1>2 DEF ServeDelete, Authorised
<1>3. ASSUME NEW r \in Request, Arrive(r) \/ Lose(r) PROVE [Next]_vars
  BY <1>1, <1>3 DEF Arrive, Lose
<1>4. ASSUME NEW r \in Request,
             \/ \E what \in Errand : Depart(r, what)
             \/ TurnAway(r) \/ GateRefuses(r) \/ ServeVisit(r)
             \/ ServeUse(r) \/ ServeLogout(r)
      PROVE  UNCHANGED vars
  BY <1>4 DEF Depart, TurnAway, GateRefuses, ServeVisit, ServeUse, ServeLogout,
              Answer
<1>5. ASSUME NEW r \in Request,
             ServeGrant(r) \/ SetCookie(r) \/ Abandon(r) \/ Elsewhere(r)
      PROVE  Next
  BY <1>5 DEF ServeGrant, SetCookie, Elsewhere, Next
<1>6. CASE CookieAges
  BY <1>6 DEF CookieAges
<1>7. ASSUME NEW t \in valid, Expire(t) PROVE Next
  BY <1>7 DEF Expire, Next
<1>8. CASE UNCHANGED allVars
  BY <1>8 DEF allVars
<1>9. QED
  BY <1>2, <1>3, <1>4, <1>5, <1>6, <1>7, <1>8 DEF NextS, Next

\* A browser with its cookies is one more client of the accounts.
THEOREM SessionImplementsAccounts == SpecS => Spec
<1>1. InitS => Init
  BY DEF InitS
<1>2. QED
  BY <1>1, StepImplements, PTL DEF SpecS, Spec

\* So what holds of accounts and tokens holds with every browser at work.
THEOREM SessionKeepsAccounts ==
    SpecS => [](OneAccountPerEmail /\ TokenNamesItsUser) /\ DeletedForGood
  BY SessionImplementsAccounts, EmailsUnique, TokensKeepTheirUser,
     DeletionIsFinal, PTL

\* Nor can anybody tell, with the browsers at work, the table and the tokens
\* from a registry of accounts.
THEOREM SessionImplementsRegistry == SpecS => ImplementsRegistry
  BY SessionImplementsAccounts, AccountsImplementRegistry, PTL

-----------------------------------------------------------------------------
(* Why a session is lost                                                   *)

\* Ids are positive, so no token is taken for one of the marks.
LEMMA Marks ==
    \A t \in Token : t \notin {NoCookie, StaleCookie, Awaited, Keep, Clear}
<1>1. \A t \in Token : t.id \in Nat \ {0}
  BY AccountsAssumption DEF Token
<1>2. \A m \in {NoCookie, StaleCookie, Awaited, Keep, Clear} : m.id \notin Nat \ {0}
  BY DEF NoCookie, StaleCookie, Awaited, Keep, Clear
<1>3. QED
  BY <1>1, <1>2

LEMMA TokensDiffer ==
    ASSUME TypeOK
    PROVE  \A t \in valid :
               t \notin {NoCookie, StaleCookie, Awaited, Keep, Clear}
  BY Marks DEF TypeOK

\* The marks differ from each other.
LEMMA MarksDiffer ==
    /\ NoCookie # StaleCookie /\ NoCookie # Clear /\ StaleCookie # Clear
    /\ Awaited # Clear /\ Keep # Clear /\ Awaited # Keep
    /\ StaleCookie # Awaited
<1>1. /\ NoCookie.id = 0 /\ StaleCookie.id = -1 /\ Awaited.id = -2
      /\ Keep.id = -3 /\ Clear.id = -4
  BY DEF NoCookie, StaleCookie, Awaited, Keep, Clear
<1>2. QED
  BY <1>1

\* A trip that ends, with the answer or without.
LEMMA ReturnInv ==
    ASSUME SInv, TypeOK', NEW r \in Request, Return(r),
           jar' \in valid \cup {NoCookie, StaleCookie}
    PROVE  SInv'
<1>1. /\ valid' = valid
      /\ \A q \in Request \ {r} : pc'[q] = pc[q]
  BY DEF Return, Finish, Become, vars, SInv, TypeOKS, TypeOK
<1>2. QED
  BY <1>1, MarksDiffer
  DEF SInv, TypeOKS, ClearedForCause, Return, OnTrip

\* An answer that the accounts have no part in.
LEMMA AnswerInv ==
    ASSUME SInv, TypeOK', NEW r \in Request, NEW what \in {Keep, Clear},
           Answer(r, what),
           what = Clear => \/ trip[r] = "logout"
                           \/ sent[r] \in {NoCookie, StaleCookie}
    PROVE  SInv'
  BY DEF SInv, TypeOKS, ClearedForCause, Answer, Arrived, OnTrip, vars

\* A step of the accounts that leaves the cookies and what is sent alone; a
\* slot it moves on has no answer yet.
LEMMA QuietInv ==
    ASSUME SInv, TypeOK', UNCHANGED browser, valid' = valid, NEW r \in Request,
           effect[r] = Awaited,
           \A q \in Request \ {r} : pc'[q] = pc[q]
    PROVE  SInv'
  BY MarksDiffer DEF SInv, TypeOKS, ClearedForCause, browser, OnTrip

\* Which slot a step of the accounts moves on.
LEMMA OneSlot ==
    ASSUME TypeOK, NEW r \in Request,
           Public(r) \/ Authorised(r) \/ UpdateProfile(r) \/ Finish(r) \/ Abandon(r)
    PROVE  valid' = valid /\ \A q \in Request \ {r} : pc'[q] = pc[q]
<1>1. ASSUME NEW from, NEW to, NEW w, Become(r, from, to, w)
      PROVE  \A q \in Request \ {r} : pc'[q] = pc[q]
  BY <1>1 DEF Become, TypeOK
<1>2. CASE Public(r)
  BY <1>1, <1>2 DEF Public, Identify, Login, Register
<1>3. CASE Authorised(r)
  BY <1>1, <1>3 DEF Authorised, DeleteUser, SetPassword, FetchPassword
<1>4. CASE UpdateProfile(r) \/ Finish(r) \/ Abandon(r)
  BY <1>1, <1>4 DEF UpdateProfile, Finish, Abandon
<1>5. QED
  BY <1>2, <1>3, <1>4

LEMMA DeleteSInv ==
    ASSUME SInv, TypeOK', NEW r \in Request, ServeDelete(r)
    PROVE  SInv'
<1>1. /\ valid' = valid /\ UNCHANGED <<jar, trip, sent>>
      /\ \A q \in Request \ {r} : pc'[q] = pc[q]
      /\ trip[r] = "delete" /\ pc'[r] \in Outcome
      /\ sent[r].id \in DOMAIN users => pc'[r] = "done"
  BY DEF ServeDelete, Arrived, DeleteUser, Become, SInv, TypeOKS, TypeOK, Outcome
<1>2. /\ effect' \in [Request -> valid \cup {Awaited, Keep, Clear, StaleCookie}]
      /\ \A q \in Request \ {r} : effect'[q] = effect[q]
      /\ effect'[r] = Clear => pc'[r] = "done"
  BY <1>1, MarksDiffer DEF ServeDelete, SInv, TypeOKS
<1>3. QED
  BY <1>1, <1>2 DEF SInv, TypeOKS, ClearedForCause, OnTrip

LEMMA SetCookieInv ==
    ASSUME SInv, TypeOK', NEW r \in Request, SetCookie(r)
    PROVE  SInv'
<1>1. /\ valid' = valid \cup {work[r]} /\ UNCHANGED <<jar, trip, sent>>
      /\ \A q \in Request \ {r} : pc'[q] = pc[q]
      /\ pc'[r] = "done"
  BY DEF SetCookie, IssueToken, Become, SInv, TypeOKS, TypeOK
<1>2. work[r] \in Token
  BY <1>1 DEF TypeOK, Token
<1>3. /\ effect' \in [Request -> valid' \cup {Awaited, Keep, Clear, StaleCookie}]
      /\ \A q \in Request \ {r} : effect'[q] = effect[q]
      /\ effect'[r] # Clear
      /\ ~OnTrip(r) => effect'[r] = Awaited
  BY <1>1, <1>2, Marks, MarksDiffer DEF SetCookie, SInv, TypeOKS, OnTrip
<1>4. QED
  BY <1>1, <1>3 DEF SInv, TypeOKS, ClearedForCause, OnTrip, Outcome

LEMMA ExpireSInv ==
    ASSUME SInv, TypeOK', NEW t \in valid, Expire(t)
    PROVE  SInv'
<1>1. /\ valid' = valid \ {t} /\ UNCHANGED <<trip, pc>>
      /\ t \notin {NoCookie, StaleCookie, Awaited, Keep, Clear}
  BY TokensDiffer DEF Expire, ExpireToken, SInv, TypeOKS
<1>2. /\ jar' \in valid' \cup {NoCookie, StaleCookie}
      /\ sent' \in [Request -> valid' \cup {NoCookie, StaleCookie}]
      /\ effect' \in [Request -> valid' \cup {Awaited, Keep, Clear, StaleCookie}]
  BY <1>1 DEF Expire, SInv, TypeOKS
<1>3. \A r \in Request :
          /\ effect'[r] = IF effect[r] = t THEN StaleCookie ELSE effect[r]
          /\ sent'[r] = IF sent[r] = t THEN StaleCookie ELSE sent[r]
  BY DEF Expire
<1>4. QED
  BY <1>1, <1>2, <1>3, MarksDiffer DEF SInv, TypeOKS, ClearedForCause, OnTrip

LEMMA InitSInv == InitS => SInv
  BY InitInv, MarksDiffer
  DEF InitS, IInv, SInv, TypeOKS, ClearedForCause, OnTrip, Init

LEMMA StepSInv == SInv /\ TypeOK' /\ [NextS]_allVars => SInv'
<1> SUFFICES ASSUME SInv, TypeOK', [NextS]_allVars PROVE SInv'
  OBVIOUS
<1>1. ASSUME NEW r \in Request, NEW what \in Errand, Depart(r, what) PROVE SInv'
  <2>1. what # "none"
    BY DEF Errand, Gated
  <2>2. effect[r] = Awaited /\ effect' = effect /\ jar' = jar
    BY <1>1 DEF Depart, SInv, TypeOKS
  <2>3. /\ pc' = pc /\ valid' = valid
        /\ trip'[r] = what /\ sent'[r] = jar
        /\ \A q \in Request \ {r} : trip'[q] = trip[q] /\ sent'[q] = sent[q]
        /\ trip' \in [Request -> Errand \cup {"none"}]
        /\ sent' \in [Request -> valid' \cup {NoCookie, StaleCookie}]
    BY <1>1 DEF Depart, SInv, TypeOKS, vars
  <2>4. QED
    BY <2>1, <2>2, <2>3, MarksDiffer DEF SInv, TypeOKS, ClearedForCause, OnTrip
<1>2. ASSUME NEW r \in Request, Arrive(r) PROVE SInv'
  <2>1. jar' \in valid \cup {NoCookie, StaleCookie}
    BY <1>2 DEF Arrive, SInv, TypeOKS
  <2>2. QED
    BY <1>2, <2>1, ReturnInv DEF Arrive
<1>3. ASSUME NEW r \in Request, Lose(r) PROVE SInv'
  BY <1>3, ReturnInv DEF Lose, SInv, TypeOKS
<1>4. ASSUME NEW r \in Request, TurnAway(r) \/ ServeUse(r) PROVE SInv'
  BY <1>4, AnswerInv, MarksDiffer DEF TurnAway, ServeUse
<1>5. ASSUME NEW r \in Request, GateRefuses(r) PROVE SInv'
  BY <1>5, AnswerInv DEF GateRefuses, SInv, TypeOKS
<1>6. ASSUME NEW r \in Request, ServeVisit(r) PROVE SInv'
  BY <1>6, AnswerInv, MarksDiffer DEF ServeVisit
<1>7. ASSUME NEW r \in Request, ServeLogout(r) PROVE SInv'
  BY <1>7, AnswerInv DEF ServeLogout
<1>8. ASSUME NEW r \in Request, ServeGrant(r) PROVE SInv'
  BY <1>8, OneSlot, QuietInv DEF ServeGrant, Arrived, SInv, TypeOKS
<1>9. ASSUME NEW r \in Request, Abandon(r), UNCHANGED browser PROVE SInv'
  <2>1. effect[r] = Awaited
    BY <1>9 DEF Abandon, SInv, TypeOKS, Outcome
  <2>2. QED
    BY <1>9, <2>1, OneSlot, QuietInv DEF SInv, TypeOKS
<1>10. ASSUME NEW r \in Request, Elsewhere(r) PROVE SInv'
  BY <1>10, OneSlot, QuietInv DEF Elsewhere, SInv, TypeOKS
<1>11. CASE CookieAges
  BY <1>11 DEF CookieAges, SInv, TypeOKS, ClearedForCause, OnTrip, vars
<1>12. CASE UNCHANGED allVars
  BY <1>12 DEF allVars, vars, browser, SInv, TypeOKS, ClearedForCause, OnTrip
<1>13. QED
  BY <1>1, <1>2, <1>3, <1>4, <1>5, <1>6, <1>7, <1>8, <1>9, <1>10, <1>11, <1>12,
     DeleteSInv, SetCookieInv, ExpireSInv DEF NextS

\* The states of Session have their types: a cookie or a request on its way
\* carries a token the server accepts, a stale one or none.
THEOREM SessionTypeCorrect == SpecS => []TypeOKS
<1>1. SInv => TypeOKS
  BY DEF SInv
<1>2. SpecS => []TypeOK
  BY SessionImplementsAccounts, TypeCorrect, PTL
<1>3. QED
  BY <1>1, <1>2, InitSInv, StepSInv, PTL DEF SpecS

\* A cookie with a good token disappears only by the answer to a logout, to a
\* deletion that removed an account, or to a request that left without such a
\* token, however requests and answers overlap (JWTmiddleware.go lines 146 to
\* 158, userCaller.go lines 88 to 112, 359 and 398).
THEOREM SessionsLostForCause == SpecS => SessionLostForCause
<1> DEFINE Cause ==
        jar \in valid /\ jar' = NoCookie =>
            \E r \in Request :
                /\ Arrive(r)
                /\ \/ trip[r] = "logout"
                   \/ trip[r] = "delete" /\ pc[r] = "done"
                   \/ sent[r] \notin valid
<1>1. ASSUME SInv, [NextS]_allVars PROVE [Cause]_allVars
  <2> SUFFICES ASSUME jar \in valid, jar' = NoCookie, NextS PROVE Cause
    BY <1>1
  <2>1. jar # NoCookie /\ jar # StaleCookie /\ jar' # jar
    BY <1>1, TokensDiffer DEF SInv, TypeOKS
  <2>2. PICK r \in Request : Arrive(r)
    <3>1. ~CookieAges
      BY <2>1 DEF CookieAges
    <3>2. \A t \in valid : ~Expire(t)
      BY <2>1, MarksDiffer DEF Expire
    <3>3. QED
      BY <2>1, <3>1, <3>2
      DEF NextS, Depart, Lose, TurnAway, GateRefuses, ServeVisit, ServeUse,
          ServeLogout, Answer, ServeDelete, ServeGrant, SetCookie, Elsewhere,
          browser
  <2>3. effect[r] = Clear
    BY <1>1, <2>1, <2>2, TokensDiffer, MarksDiffer DEF Arrive, SInv, TypeOKS
  <2>4. \A c \in {NoCookie, StaleCookie} : c \notin valid
    BY <1>1, TokensDiffer DEF SInv, TypeOKS
  <2>5. QED
    BY <1>1, <2>2, <2>3, <2>4 DEF SInv, ClearedForCause
<1>2. SpecS => []TypeOK
  BY SessionImplementsAccounts, TypeCorrect, PTL
<1>3. QED
  BY <1>1, <1>2, InitSInv, StepSInv, PTL DEF SpecS, SessionLostForCause

=============================================================================
