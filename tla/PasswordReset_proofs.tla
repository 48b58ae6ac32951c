------------------------ MODULE PasswordReset_proofs ------------------------
(***************************************************************************)
(* Proofs about PasswordReset, for any number of requests under way at     *)
(* once and any lifetimes the assumption allows.                           *)
(*                                                                         *)
(* That the cookie stays with the code needs more than the browser sees:   *)
(* whose code a request carries that has yet to reach it (OwnCode), that   *)
(* one reset is about one address (OneReset), and that a code on which a   *)
(* verdict is on its way is not alive: what its address has by then is a   *)
(* later code (OldVerdict).                                                *)
(***************************************************************************)
EXTENDS PasswordReset, TLAPS

Sends(r) == req[r].kind \in {"send", "resend"}

\* A request whose code may still reach the user.
Carries(r) ==
    Sends(r) /\ (req[r].stage = "mailing" \/ req[r].result = "sent")

\* A live code is counted at most as often as it may be tried.
Unlocked ==
    \A a \in Email : store[a].code # 0 => store[a].attempts <= MaxAttempts

\* No two addresses have one code.
Distinct ==
    \A a, b \in Email :
        store[a].code # 0 /\ store[a].code = store[b].code => a = b

\* A code that a request carries is, while it lives, that of the address the
\* request is for.
OwnCode ==
    \A r \in Request :
        Carries(r) =>
            /\ To(r) \in Email /\ req[r].about \in 1..issued
            /\ \A a \in Email : store[a].code = req[r].about => a = To(r)

\* A verdict that has yet to reach the browser, or has just reached it.
Verdict(r) ==
    req[r].kind = "verify" /\ req[r].result \in {"ok", "locked", "undone"}

\* It is on a code that its address no longer has.
OldVerdict ==
    \A r \in Request :
        Verdict(r) => /\ req[r].cookie \in Email
                      /\ \/ store[req[r].cookie].code = 0
                         \/ store[req[r].cookie].code > req[r].about

\* An address that the reset is about, to the browser or to a request.
Named(a) ==
    \/ a = cookie.email
    \/ \E r \in Request : req[r] # Idle /\ a = To(r)
    \/ store[a].code \in told

OneReset == \A a, b \in Email : Named(a) /\ Named(b) => a = b

IInv ==
    /\ TypeOK /\ Unlocked /\ Distinct /\ OwnCode /\ OldVerdict /\ OneReset
    /\ LiveCodeCanBeEntered

-----------------------------------------------------------------------------
(* Types                                                                   *)

Keys ==
    [code : 0..issued, ttl : 0..OtpTTL, attempts : 0..(MaxAttempts + 1),
     attemptsTTL : 0..OtpTTL, cooldown : 0..ResendCooldown]

\* A key without a value has no life left.
Together(k) ==
    ((k.code = 0) <=> (k.ttl = 0)) /\ ((k.attempts = 0) <=> (k.attemptsTTL = 0))

Shown == [at : {"form", "code", "password", "error"}, life : 0..PageLife,
          ticking : BOOLEAN, wait : 0..PageCooldown, busy : BOOLEAN,
          leaving : SUBSET {"password", "account"}]

LEMMA TypeParts ==
    TypeOK <=> /\ store \in [Email -> Keys]
               /\ \A a \in Email : Together(store[a])
               /\ issued \in Nat /\ mailbox \subseteq 1..issued
               /\ cookie \in [email : Email \cup {None}, ttl : 0..CookieAge]
               /\ (cookie.email = None) <=> (cookie.ttl = 0)
               /\ auth \in {"none", "good", "bad"}
               /\ page \in Shown
               /\ req \in [Request -> {Idle} \cup UnderWay]
               /\ told \subseteq 1..issued /\ overtaken \in BOOLEAN
  BY DEF TypeOK, Keys, Together, Shown

-----------------------------------------------------------------------------
(* Initial states                                                          *)

LEMMA InitInv == Init => IInv
<1>. SUFFICES ASSUME Init PROVE IInv
  OBVIOUS
<1>. USE ResetAssumption DEF Init
<1>1. \A r \in Request : req[r].kind = "none"
  BY DEF Idle
<1>2. TypeOK
  <2>1. store \in [Email -> Keys] /\ \A a \in Email : Together(store[a])
    BY DEF NoKeys, Keys, Together
  <2>2. cookie \in [email : Email \cup {None}, ttl : 0..CookieAge]
    BY DEF NoCookie
  <2>3. page \in Shown
    BY DEF Plain, Shown
  <2>4. req \in [Request -> {Idle} \cup UnderWay]
    OBVIOUS
  <2>5. issued \in Nat /\ mailbox \subseteq 1..issued /\ told \subseteq 1..issued
    OBVIOUS
  <2>6. (cookie.email = None) <=> (cookie.ttl = 0)
    BY DEF NoCookie
  <2>7. auth \in {"none", "good", "bad"} /\ overtaken \in BOOLEAN
    OBVIOUS
  <2>. QED
    BY <2>1, <2>2, <2>3, <2>4, <2>5, <2>6, <2>7, TypeParts, Zenon
<1>3. Unlocked /\ Distinct /\ LiveCodeCanBeEntered
  BY DEF Unlocked, Distinct, LiveCodeCanBeEntered, NoKeys, Plain
<1>4. OwnCode /\ OldVerdict /\ OneReset
  BY <1>1 DEF OwnCode, OldVerdict, Verdict, OneReset, Named, NoCookie,
              Carries, Sends
<1>. QED
  BY <1>2, <1>3, <1>4 DEF IInv

-----------------------------------------------------------------------------
(* What steps do to the slots                                              *)

\* A slot with a kind of request is in use.
LEMMA InUse ==
  ASSUME TypeOK, NEW r \in Request
  PROVE  /\ req[r].kind \in {"send", "resend", "verify"} => req[r] \in UnderWay
         /\ req[r] # Idle => req[r] \in UnderWay
  BY DEF TypeOK, Idle

\* The others stay as they are.
Others(r) == \A q \in Request \ {r} : req'[q] = req[q]

\* An answer keeps what the request is for.
Keeps(r) ==
    /\ req'[r].kind = req[r].kind /\ req'[r].cookie = req[r].cookie
    /\ req'[r].typed = req[r].typed

LEMMA AnswerEffect ==
  ASSUME TypeOK, NEW r \in Request, req[r] \in UnderWay,
         NEW res \in Result, Answer(r, res)
  PROVE  /\ req' \in [Request -> {Idle} \cup UnderWay]
         /\ Others(r) /\ Keeps(r) /\ req'[r].about = req[r].about
         /\ req'[r].stage = "answered" /\ req'[r].result = res
<1>1. DOMAIN req = Request /\ req \in [Request -> {Idle} \cup UnderWay]
  BY DEF TypeOK
<1>2. req'[r] = [req[r] EXCEPT !.stage = "answered", !.result = res]
  BY <1>1 DEF Answer
<1>3. req'[r] \in UnderWay
  BY <1>2 DEF UnderWay
<1>4. Others(r)
  BY <1>1 DEF Answer, Others
<1>5. Keeps(r) /\ req'[r].about = req[r].about
      /\ req'[r].stage = "answered" /\ req'[r].result = res
  BY <1>2 DEF Keeps, UnderWay
<1>. QED
  BY <1>1, <1>3, <1>4, <1>5 DEF Answer

LEMMA DoneEffect ==
  ASSUME TypeOK, NEW r \in Request, Done(r)
  PROVE  /\ req' \in [Request -> {Idle} \cup UnderWay]
         /\ Others(r) /\ req'[r] = Idle
  BY DEF TypeOK, Done, Others, Idle

LEMMA FollowEffect ==
  ASSUME TypeOK, NEW r \in Request, req[r] \in UnderWay, Follow(r)
  PROVE  /\ req' \in [Request -> {Idle} \cup UnderWay]
         /\ Others(r) /\ Keeps(r) /\ req'[r].about = req[r].about
         /\ req'[r].stage = "following" /\ req'[r].result = req[r].result
<1>1. DOMAIN req = Request /\ req \in [Request -> {Idle} \cup UnderWay]
  BY DEF TypeOK
<1>2. req'[r] = [req[r] EXCEPT !.stage = "following"]
  BY <1>1 DEF Follow
<1>3. req'[r] \in UnderWay
  BY <1>2 DEF UnderWay
<1>4. Others(r)
  BY <1>1 DEF Follow, Others
<1>5. Keeps(r) /\ req'[r].about = req[r].about
      /\ req'[r].stage = "following" /\ req'[r].result = req[r].result
  BY <1>2 DEF Keeps, UnderWay
<1>. QED
  BY <1>1, <1>3, <1>4, <1>5 DEF Follow

LEMMA JudgeEffect ==
  ASSUME TypeOK, NEW r \in Request, req[r] \in UnderWay,
         NEW res \in Result, NEW c \in 0..issued, Judge(r, res, c)
  PROVE  /\ req' \in [Request -> {Idle} \cup UnderWay]
         /\ Others(r) /\ Keeps(r)
         /\ req'[r].stage = "answered" /\ req'[r].result = res
<1>1. DOMAIN req = Request /\ req \in [Request -> {Idle} \cup UnderWay]
  BY DEF TypeOK
<1>2. req'[r] = [req[r] EXCEPT !.stage = "answered", !.result = res,
                               !.about = c]
  BY <1>1 DEF Judge
<1>3. req'[r] \in UnderWay
  BY <1>2 DEF UnderWay
<1>4. Others(r)
  BY <1>1 DEF Judge, Others
<1>5. Keeps(r) /\ req'[r].stage = "answered" /\ req'[r].result = res
  BY <1>2 DEF Keeps, UnderWay
<1>. QED
  BY <1>1, <1>3, <1>4, <1>5 DEF Judge

LEMMA PostEffect ==
  ASSUME TypeOK, NEW r \in Request,
         NEW kind \in {"send", "resend", "verify"},
         NEW typed \in Email \cup {None}, NEW guess \in 0..issued,
         Post(r, kind, typed, guess)
  PROVE  /\ req' \in [Request -> {Idle} \cup UnderWay]
         /\ Others(r) /\ req'[r].kind = kind
         /\ req'[r].stage = "asked" /\ req'[r].result = "none"
         /\ req'[r].cookie = cookie.email /\ req'[r].typed = typed
<1>1. DOMAIN req = Request /\ req \in [Request -> {Idle} \cup UnderWay]
  BY DEF TypeOK
<1>2. req'[r] = [kind |-> kind, stage |-> "asked", cookie |-> cookie.email,
                 typed |-> typed, bad |-> auth = "bad", about |-> guess,
                 result |-> "none"]
  BY <1>1 DEF Post
<1>3. cookie.email \in Email \cup {None}
  BY DEF TypeOK
<1>4. req'[r] \in UnderWay
  BY <1>2, <1>3 DEF UnderWay
<1>5. Others(r)
  BY <1>1 DEF Post, Others
<1>. QED
  BY <1>1, <1>2, <1>4, <1>5 DEF Post

-----------------------------------------------------------------------------
(* What is kept                                                            *)

\* No request comes to carry a code, or a verdict.
CarriesOn ==
    \A q \in Request :
        Carries(q)' => /\ Carries(q) /\ To(q)' = To(q)
                       /\ req'[q].about = req[q].about

JudgesOn ==
    \A q \in Request :
        Verdict(q)' => /\ Verdict(q) /\ req'[q].cookie = req[q].cookie
                       /\ req'[q].about = req[q].about

Inherits == CarriesOn /\ JudgesOn

\* No request comes up, or changes the address it is for.
Onward ==
    \A q \in Request : req'[q] # Idle => req[q] # Idle /\ To(q)' = To(q)

\* No address gets a code.
Fewer == \A a \in Email : store'[a].code \in {store[a].code, 0}

LEMMA CodesKept ==
  ASSUME IInv, CarriesOn, Fewer, issued' = issued
  PROVE  (Distinct /\ OwnCode)'
<1>1. Distinct'
  BY DEF IInv, Distinct, Fewer
<1>2. ASSUME NEW q \in Request, Carries(q)'
      PROVE  (/\ To(q) \in Email /\ req[q].about \in 1..issued
              /\ \A a \in Email : store[a].code = req[q].about => a = To(q))'
  <2>1. Carries(q) /\ To(q)' = To(q) /\ req'[q].about = req[q].about
    BY <1>2 DEF CarriesOn
  <2>2. /\ To(q) \in Email /\ req[q].about \in 1..issued
        /\ \A a \in Email : store[a].code = req[q].about => a = To(q)
    BY <2>1 DEF IInv, OwnCode
  <2>3. \A a \in Email : store'[a].code = req[q].about
                            => store[a].code = req[q].about
    BY <2>2 DEF IInv, TypeOK, Fewer
  <2>. QED
    BY <2>1, <2>2, <2>3
<1>. QED
  BY <1>1, <1>2 DEF OwnCode

LEMMA VerdictsKept ==
  ASSUME IInv, JudgesOn, Fewer PROVE OldVerdict'
<1>1. ASSUME NEW q \in Request, Verdict(q)'
      PROVE  (/\ req[q].cookie \in Email
              /\ \/ store[req[q].cookie].code = 0
                 \/ store[req[q].cookie].code > req[q].about)'
  <2>1. Verdict(q) /\ req'[q].cookie = req[q].cookie
        /\ req'[q].about = req[q].about
    BY <1>1 DEF JudgesOn
  <2>. QED
    BY <2>1 DEF IInv, OldVerdict, Fewer
<1>. QED
  BY <1>1 DEF OldVerdict

LEMMA NamesKept ==
  ASSUME IInv, Onward, Fewer, told' = told,
         cookie'.email \in {cookie.email, None}
  PROVE  OneReset'
<1>1. None \notin Email /\ 0 \notin told
  BY ResetAssumption DEF IInv, TypeOK
<1>2. ASSUME NEW a \in Email, Named(a)' PROVE Named(a)
  <2>1. CASE a = cookie'.email
    BY <1>1, <2>1 DEF Named
  <2>2. CASE \E r \in Request : req'[r] # Idle /\ a = To(r)'
    BY <2>2 DEF Named, Onward
  <2>3. CASE store'[a].code \in told
    BY <1>1, <2>3 DEF Named, Fewer
  <2>. QED
    BY <1>2, <2>1, <2>2, <2>3 DEF Named
<1>3. \A a, b \in Email : Named(a) /\ Named(b) => a = b
  BY DEF IInv, OneReset
<1>4. \A a, b \in Email : Named(a)' /\ Named(b)' => a = b
  BY <1>2, <1>3
<1>. QED
  BY <1>4 DEF OneReset

\* An answer other than "sent", and without a verdict, leaves nothing to carry.
LEMMA Answered ==
  ASSUME IInv, NEW r \in Request, req[r] \in UnderWay,
         NEW res \in {"refused", "cooling", "login", "failed", "invalid"},
         Answer(r, res)
  PROVE  Inherits /\ Onward /\ req' \in [Request -> {Idle} \cup UnderWay]
<1>1. /\ req' \in [Request -> {Idle} \cup UnderWay]
      /\ Others(r) /\ Keeps(r)
      /\ req'[r].stage = "answered" /\ req'[r].result = res
  BY AnswerEffect DEF IInv, Result
<1>2. Inherits
  BY <1>1 DEF Inherits, CarriesOn, JudgesOn, Carries, Verdict, Sends, To, Others
<1>3. req[r] # Idle
  BY DEF Idle, UnderWay
<1>. QED
  BY <1>1, <1>2, <1>3 DEF Onward, Others, Keeps, To

\* A slot that is free again has nothing to carry, and a redirect carries on.
LEMMA Freed ==
  ASSUME IInv, NEW r \in Request, Done(r)
  PROVE  Inherits /\ Onward /\ req' \in [Request -> {Idle} \cup UnderWay]
<1>1. /\ req' \in [Request -> {Idle} \cup UnderWay]
      /\ Others(r) /\ req'[r] = Idle
  BY DoneEffect DEF IInv
<1>. QED
  BY <1>1 DEF Inherits, CarriesOn, JudgesOn, Onward, Carries, Verdict, Sends,
              To, Others, Idle

LEMMA Followed ==
  ASSUME IInv, NEW r \in Request, req[r] \in UnderWay,
         req[r].stage = "answered", Follow(r)
  PROVE  Inherits /\ Onward /\ req' \in [Request -> {Idle} \cup UnderWay]
<1>1. /\ req' \in [Request -> {Idle} \cup UnderWay]
      /\ Others(r) /\ Keeps(r) /\ req'[r].about = req[r].about
      /\ req'[r].stage = "following" /\ req'[r].result = req[r].result
  BY FollowEffect DEF IInv
<1>2. Inherits
  BY <1>1 DEF Inherits, CarriesOn, JudgesOn, Carries, Verdict, Sends, To, Others, Keeps
<1>3. req[r] # Idle
  BY DEF Idle, UnderWay
<1>. QED
  BY <1>1, <1>2, <1>3 DEF Onward, Others, Keeps, To

\* So does one that has just been taken.
LEMMA Posted ==
  ASSUME IInv, NEW r \in Request,
         NEW kind \in {"send", "resend", "verify"},
         NEW typed \in Email \cup {None}, NEW guess \in 0..issued,
         Post(r, kind, typed, guess)
  PROVE  /\ Inherits /\ req' \in [Request -> {Idle} \cup UnderWay]
         /\ Others(r)
         /\ To(r)' = IF cookie.email # None THEN cookie.email ELSE typed
<1>1. /\ req' \in [Request -> {Idle} \cup UnderWay]
      /\ Others(r) /\ req'[r].stage = "asked" /\ req'[r].result = "none"
      /\ req'[r].cookie = cookie.email /\ req'[r].typed = typed
  BY PostEffect DEF IInv
<1>2. Inherits
  BY <1>1 DEF Inherits, CarriesOn, JudgesOn, Carries, Verdict, Sends, To, Others
<1>. QED
  BY <1>1, <1>2 DEF To

\* A request of the page has the address of the cookie, if it has one.
LEMMA PostedNames ==
  ASSUME IInv, NEW r \in Request, Others(r),
         To(r)' \in {cookie.email, None}, UNCHANGED <<store, cookie, told>>
  PROVE  OneReset'
<1>1. None \notin Email
  BY ResetAssumption
<1>2. ASSUME NEW a \in Email, Named(a)' PROVE Named(a)
  <2>1. CASE \E q \in Request : req'[q] # Idle /\ a = To(q)'
    <3>1. PICK q \in Request : req'[q] # Idle /\ a = To(q)'
      BY <2>1
    <3>2. CASE q = r
      BY <1>1, <3>1, <3>2 DEF Named
    <3>3. CASE q # r
      BY <3>1, <3>3 DEF Named, Others, To
    <3>. QED
      BY <3>2, <3>3
  <2>. QED
    BY <1>2, <2>1 DEF Named
<1>3. \A a, b \in Email : Named(a) /\ Named(b) => a = b
  BY DEF IInv, OneReset
<1>4. \A a, b \in Email : Named(a)' /\ Named(b)' => a = b
  BY <1>2, <1>3
<1>. QED
  BY <1>4 DEF OneReset

\* Where no keys change, nor the cookie, and the user is told nothing, the
\* cookie goes on with its code.
LEMMA KeysKept ==
  ASSUME IInv, Inherits, OneReset',
         req' \in [Request -> {Idle} \cup UnderWay], page' \in Shown,
         auth' \in {"none", "good", "bad"}, mailbox' \subseteq 1..issued,
         told' \in {told, {}}, UNCHANGED <<store, issued, cookie, overtaken>>
  PROVE  IInv'
<1>1. TypeOK'
  <2>1. TypeOK
    BY DEF IInv
  <2>2. req' \in [Request -> {Idle} \cup UnderWay']
    BY DEF UnderWay
  <2>. QED
    BY <2>1, <2>2 DEF TypeOK, Shown
<1>2. Unlocked' /\ LiveCodeCanBeEntered'
  BY DEF IInv, Unlocked, LiveCodeCanBeEntered
<1>3. Distinct' /\ OwnCode' /\ OldVerdict'
  <2>1. Fewer
    BY DEF Fewer
  <2>. QED
    BY <2>1, CodesKept, VerdictsKept DEF Inherits
<1>. QED
  BY <1>1, <1>2, <1>3 DEF IInv

\* So it does where, besides, no request comes up.
LEMMA Undisturbed ==
  ASSUME IInv, Inherits, Onward,
         req' \in [Request -> {Idle} \cup UnderWay], page' \in Shown,
         auth' \in {"none", "good", "bad"}, mailbox' \subseteq 1..issued,
         UNCHANGED <<store, issued, cookie, told, overtaken>>
  PROVE  IInv'
<1>1. Fewer
  BY DEF Fewer
<1>2. OneReset'
  BY <1>1, NamesKept
<1>. QED
  BY <1>2, KeysKept

-----------------------------------------------------------------------------
(* The user's steps                                                        *)

LEMMA SubmitFormInv ==
  ASSUME IInv, NEW r \in Request, SubmitForm(r) PROVE IInv'
<1>1. PICK typed \in Email \cup {None} : Post(r, "send", typed, 0)
  BY DEF SubmitForm
<1>2. 0 \in 0..issued /\ page \in Shown /\ auth \in {"none", "good", "bad"}
      /\ mailbox \subseteq 1..issued
  BY DEF IInv, TypeOK, Shown
<1>3. /\ Inherits /\ req' \in [Request -> {Idle} \cup UnderWay]
      /\ Others(r)
      /\ To(r)' = IF cookie.email # None THEN cookie.email ELSE typed
  BY <1>1, <1>2, Posted
<1>4. told' = {} /\ UNCHANGED <<store, issued, mailbox, cookie, auth, overtaken,
                               page>>
  BY <1>1 DEF SubmitForm, Post
<1>5. OneReset'
  <2>1. \A q \in Request : req'[q] # Idle => q = r
    BY <1>3 DEF SubmitForm, Quiet, Others
  <2>2. \A a \in Email : Named(a)' => a = cookie.email \/ a = To(r)'
    BY <1>4, <2>1 DEF Named
  <2>3. None \notin Email
    BY ResetAssumption
  <2>4. \A a, b \in Email : Named(a)' /\ Named(b)' => a = b
    BY <1>3, <2>2, <2>3
  <2>. QED
    BY <2>4 DEF OneReset
<1>. QED
  BY <1>2, <1>3, <1>4, <1>5, KeysKept

\* A request of the code page.
LEMMA AskInv ==
  ASSUME IInv, NEW r \in Request, NEW kind \in {"resend", "verify"},
         NEW guess \in 0..issued, Post(r, kind, None, guess),
         told' = told, page' \in Shown
  PROVE  IInv'
<1>1. /\ Inherits /\ req' \in [Request -> {Idle} \cup UnderWay]
      /\ Others(r) /\ To(r)' \in {cookie.email, None}
  BY Posted
<1>2. UNCHANGED <<store, issued, mailbox, cookie, auth, overtaken>>
  BY DEF Post
<1>3. OneReset'
  BY <1>1, <1>2, PostedNames
<1>4. auth \in {"none", "good", "bad"} /\ mailbox \subseteq 1..issued
  BY DEF IInv, TypeOK
<1>. QED
  BY <1>1, <1>2, <1>3, <1>4, KeysKept

LEMMA ActInv ==
  ASSUME IInv, NEW r \in Request, Act(r) PROVE IInv'
<1>0. page \in Shown /\ issued \in Nat /\ mailbox \subseteq 1..issued
  BY DEF IInv, TypeOK, Shown
<1>1. CASE SubmitForm(r)
  BY <1>1, SubmitFormInv
<1>2. CASE ClickResend(r)
  <2>1. Post(r, "resend", None, 0) /\ told' = told /\ 0 \in 0..issued
    BY <1>0, <1>2 DEF ClickResend
  <2>2. page' \in Shown
    BY <1>0, <1>2 DEF ClickResend, Shown
  <2>. QED
    BY <2>1, <2>2, AskInv
<1>3. CASE SubmitCode(r)
  <2>1. PICK g \in mailbox \cup {0} : Post(r, "verify", None, g)
    BY <1>3 DEF SubmitCode
  <2>2. g \in 0..issued /\ told' = told /\ page' = page
    BY <1>0, <1>3 DEF SubmitCode
  <2>. QED
    BY <1>0, <2>1, <2>2, AskInv
<1>. QED
  BY <1>1, <1>2, <1>3 DEF Act

\* The pages without a countdown, and the code page after a resend.
LEMMA Pages ==
  ASSUME TypeOK
  PROVE  /\ page \in Shown /\ CodePage \in Shown
         /\ Resent \in Shown /\ ResentInVain \in Shown
         /\ \A at \in {"form", "code", "password", "error"} : Plain(at) \in Shown
<1>1. page \in Shown
  BY DEF TypeOK, Shown
<1>2. /\ 0 \in 0..PageLife /\ 0 \in 0..PageCooldown
      /\ PageLife \in 0..PageLife /\ PageCooldown \in 0..PageCooldown
  BY ResetAssumption
<1>3. Resent \in Shown
  BY <1>1, <1>2 DEF Resent, Shown
<1>4. ResentInVain \in Shown
  BY <1>1, <1>2 DEF ResentInVain, Shown
<1>5. \A at \in {"form", "code", "password", "error"} : Plain(at) \in Shown
  BY <1>2 DEF Plain, Shown
<1>6. CodePage \in Shown
  BY <1>2 DEF CodePage, Shown
<1>. QED
  BY <1>1, <1>3, <1>4, <1>5, <1>6

\* Nothing is under way that was not before.
LEMMA Unmoved ==
  ASSUME req' = req PROVE Inherits /\ Onward
BY DEF Inherits, CarriesOn, JudgesOn, Onward, Carries, Verdict, Sends, To

\* The page goes somewhere else.
LEMMA LeaveInv == ASSUME IInv, Leave \/ Navigate PROVE IInv'
<1>1. UNCHANGED <<store, issued, mailbox, cookie, req, told, overtaken>>
  BY DEF Leave, Navigate
<1>2. TypeOK /\ req \in [Request -> {Idle} \cup UnderWay]
      /\ mailbox \subseteq 1..issued
  BY DEF IInv, TypeOK
<1>3. page' \in Shown
  <2>1. PICK at \in {"form", "password", "error"} : page' = Plain(at)
    BY DEF Leave, Navigate
  <2>. QED
    BY <1>2, <2>1, Pages
<1>4. auth' \in {"none", "good", "bad"}
  BY <1>2 DEF Leave, Navigate, Gate, TypeOK
<1>. QED
  BY <1>1, <1>2, <1>3, <1>4, Unmoved, Undisturbed

-----------------------------------------------------------------------------
(* The server's steps                                                      *)

\* Requests that are answered without a look at the code.
LEMMA RefuseInv ==
  ASSUME IInv, NEW r \in Request,
         TurnAway(r) \/ RefuseSend(r) \/ NothingToVerify(r)
  PROVE  IInv'
<1>1. PICK res \in {"failed", "login", "refused", "cooling"} : Answer(r, res)
  BY DEF TurnAway, RefuseSend, NothingToVerify
<1>2. req[r] \in UnderWay
  BY InUse DEF TurnAway, RefuseSend, NothingToVerify, IInv
<1>3. UNCHANGED <<store, issued, mailbox, cookie, auth, page, told, overtaken>>
  BY DEF TurnAway, RefuseSend, NothingToVerify
<1>4. Inherits /\ Onward /\ req' \in [Request -> {Idle} \cup UnderWay]
  BY <1>1, <1>2, Answered
<1>5. page \in Shown /\ auth \in {"none", "good", "bad"}
      /\ mailbox \subseteq 1..issued
  BY DEF IInv, TypeOK, Shown
<1>. QED
  BY <1>3, <1>4, <1>5, Undisturbed

\* The code is a new one, so no other address has it and no page was told.
LEMMA DrawInv == ASSUME IInv, NEW r \in Request, DrawCode(r) PROVE IInv'
<1>. USE DEF IInv
<1>1. req[r] \in UnderWay /\ req \in [Request -> {Idle} \cup UnderWay]
  BY InUse DEF DrawCode, TypeOK
<1>2. To(r) \in Email
  BY <1>1 DEF DrawCode, To, UnderWay
<1>3. /\ req'[r] = [req[r] EXCEPT !.stage = "mailing", !.about = issued + 1]
      /\ Others(r)
  BY <1>1 DEF DrawCode, Others
<1>4. /\ Keeps(r) /\ req'[r].stage = "mailing"
      /\ req'[r].about = issued + 1 /\ req'[r].result = req[r].result
  BY <1>1, <1>3 DEF UnderWay, Keeps
<1>5. /\ store'[To(r)].code = issued + 1 /\ store'[To(r)].attempts = 0
      /\ \A a \in Email \ {To(r)} : store'[a] = store[a]
  BY <1>2 DEF DrawCode, TypeOK
<1>6. issued' = issued + 1 /\ issued \in Nat
      /\ UNCHANGED <<mailbox, cookie, auth, page, told, overtaken>>
  BY DEF DrawCode, TypeOK
<1>7. TypeOK'
  <2>1. req' \in [Request -> {Idle} \cup UnderWay']
    <3>1. req'[r] \in UnderWay'
      <4>1. issued + 1 \in 0..issued'
        BY <1>6
      <4>2. [req[r] EXCEPT !.stage = "mailing", !.about = issued + 1]
                \in UnderWay'
        BY <1>1, <4>1 DEF UnderWay
      <4>. QED
        BY <1>3, <4>2
    <3>2. UnderWay \subseteq UnderWay'
      BY <1>6 DEF UnderWay
    <3>3. DOMAIN req' = Request /\ req' = [q \in Request |-> req'[q]]
      BY <1>1 DEF DrawCode
    <3>. QED
      BY <1>1, <1>3, <3>1, <3>2, <3>3 DEF Others
  <2>2. store' \in [Email -> Keys']
    <3>1. store'[To(r)] \in Keys'
      BY <1>2, <1>6, ResetAssumption DEF DrawCode, TypeOK, Keys
    <3>2. \A a \in Email \ {To(r)} : store'[a] \in Keys'
      BY <1>5, <1>6 DEF TypeOK, Keys
    <3>. QED
      BY <1>2, <3>1, <3>2 DEF DrawCode, TypeOK
  <2>3. \A a \in Email : Together(store'[a])
    <3>1. Together(store'[To(r)])
      BY <1>2, <1>6, ResetAssumption DEF DrawCode, TypeOK, Together
    <3>2. \A a \in Email \ {To(r)} : Together(store'[a])
      BY <1>5 DEF TypeOK, Together
    <3>. QED
      BY <3>1, <3>2
  <2>. QED
    BY <1>6, <2>1, <2>2, <2>3 DEF TypeOK, Keys, Together
<1>8. Unlocked' /\ Distinct'
  BY <1>2, <1>5, <1>6, ResetAssumption DEF Unlocked, Distinct, TypeOK
<1>9. OwnCode'
  <2>1. (/\ To(r) \in Email /\ req[r].about \in 1..issued
         /\ \A a \in Email : store[a].code = req[r].about => a = To(r))'
    BY <1>2, <1>4, <1>5, <1>6 DEF To, Keeps, TypeOK
  <2>2. ASSUME NEW q \in Request \ {r}, Carries(q)'
        PROVE  (/\ To(q) \in Email /\ req[q].about \in 1..issued
                /\ \A a \in Email : store[a].code = req[q].about => a = To(q))'
    <3>1. Carries(q) /\ req'[q] = req[q]
      BY <1>3, <2>2 DEF Others, Carries, Sends
    <3>. QED
      BY <1>5, <1>6, <3>1 DEF OwnCode, To
  <2>. QED
    BY <2>1, <2>2 DEF OwnCode
<1>10. OldVerdict'
  <2>1. ~Verdict(r)'
    BY <1>4 DEF DrawCode, Verdict, Keeps
  <2>2. ASSUME NEW q \in Request \ {r}, Verdict(q)'
        PROVE  (/\ req[q].cookie \in Email
                /\ \/ store[req[q].cookie].code = 0
                   \/ store[req[q].cookie].code > req[q].about)'
    <3>1. Verdict(q) /\ req'[q] = req[q]
      BY <1>3, <2>2 DEF Others, Verdict
    <3>2. req[q].about \in 0..issued
      <4>1. req[q] \in UnderWay
        BY <3>1, InUse DEF Verdict
      <4>. QED
        BY <4>1 DEF UnderWay
    <3>3. req[q].cookie \in Email
          /\ (store[req[q].cookie].code = 0
                \/ store[req[q].cookie].code > req[q].about)
      BY <3>1 DEF OldVerdict
    <3>. QED
      BY <1>5, <1>6, <3>1, <3>2, <3>3
  <2>. QED
    BY <2>1, <2>2 DEF OldVerdict
<1>11. LiveCodeCanBeEntered'
  BY <1>2, <1>5, <1>6 DEF LiveCodeCanBeEntered, TypeOK
<1>12. OneReset'
  <2>1. \A q \in Request : req'[q] # Idle => req[q] # Idle /\ To(q)' = To(q)
    <3>1. req[r] # Idle
      BY <1>1 DEF Idle, UnderWay
    <3>. QED
      BY <1>3, <1>4, <3>1 DEF Others, Keeps, To
  <2>2. issued + 1 \notin told
    BY <1>6 DEF TypeOK
  <2>3. \A a \in Email : Named(a)' => Named(a)
    BY <1>5, <1>6, <2>1, <2>2 DEF Named
  <2>4. \A a, b \in Email : Named(a) /\ Named(b) => a = b
    BY DEF OneReset
  <2>5. \A a, b \in Email : Named(a)' /\ Named(b)' => a = b
    BY <2>3, <2>4
  <2>. QED
    BY <2>5 DEF OneReset
<1>. QED
  BY <1>7, <1>8, <1>9, <1>10, <1>11, <1>12

\* The answer to a mail is the one that goes on carrying the code.
LEMMA MailInv == ASSUME IInv, NEW r \in Request, Mail(r) PROVE IInv'
<1>1. req[r] \in UnderWay /\ Carries(r) /\ req[r] # Idle
  BY InUse DEF Mail, Carries, Sends, IInv, Idle
<1>2. PICK res \in {"sent", "failed"} : Answer(r, res)
  BY DEF Mail
<1>3. res \in Result
  BY DEF Result
<1>4. /\ req' \in [Request -> {Idle} \cup UnderWay] /\ Others(r)
      /\ Keeps(r) /\ req'[r].about = req[r].about /\ req'[r].result = res
  BY <1>1, <1>2, <1>3, AnswerEffect DEF IInv
<1>5. Inherits /\ Onward
  BY <1>1, <1>4 DEF Inherits, CarriesOn, JudgesOn, Onward, Carries, Verdict,
                    Sends, To, Others, Keeps
<1>6. UNCHANGED <<store, issued, cookie, auth, page, told, overtaken>>
  BY DEF Mail
<1>7. mailbox' \subseteq 1..issued
  <2>1. mailbox \subseteq 1..issued /\ req[r].about \in 1..issued
    BY <1>1 DEF IInv, OwnCode, TypeOK
  <2>. QED
    BY <2>1 DEF Mail
<1>8. page \in Shown /\ auth \in {"none", "good", "bad"}
  BY DEF IInv, TypeOK, Shown
<1>. QED
  BY <1>4, <1>5, <1>6, <1>7, <1>8, Undisturbed

\* What a submission may do to the keys k of an address.
Verified(k, kk) ==
    /\ kk \in Keys /\ Together(kk)
    /\ kk.code # 0 =>
           kk.code = k.code /\ kk.ttl = k.ttl /\ kk.attempts <= MaxAttempts

LEMMA Counted ==
  ASSUME IInv, NEW a \in Email, store[a].code # 0
  PROVE  /\ Verified(store[a],
                     [CountedKeys(store[a]) EXCEPT !.code = 0, !.ttl = 0])
         /\ store[a].attempts < MaxAttempts =>
                Verified(store[a], CountedKeys(store[a]))
         /\ Verified(store[a], [NoKeys EXCEPT !.cooldown = store[a].cooldown])
<1>1. store[a] \in Keys /\ Together(store[a]) /\ issued \in Nat
      /\ store[a].attempts <= MaxAttempts
  BY DEF IInv, TypeOK, Keys, Together, Unlocked
<1>. DEFINE k == store[a]  c == CountedKeys(k)
            d == [c EXCEPT !.code = 0, !.ttl = 0]
<1>2. /\ c \in Keys /\ c.code = k.code /\ c.ttl = k.ttl
      /\ c.attempts = k.attempts + 1
      /\ c.attemptsTTL = IF k.attempts = 0 THEN OtpTTL ELSE k.attemptsTTL
  <2>1. k.attempts + 1 \in 0..(MaxAttempts + 1) /\ OtpTTL \in 0..OtpTTL
    BY <1>1, ResetAssumption DEF Keys
  <2>. QED
    BY <1>1, <2>1 DEF CountedKeys, Keys
<1>3. c.attempts # 0 /\ c.attemptsTTL # 0
  BY <1>1, <1>2, ResetAssumption DEF Keys, Together
<1>4. Verified(k, d)
  <2>1. d \in Keys
    <3>1. 0 \in 0..issued /\ 0 \in 0..OtpTTL
      BY <1>1, ResetAssumption
    <3>. HIDE DEF c
    <3>. QED
      BY <1>2, <3>1 DEF Keys
  <2>2. /\ d.code = 0 /\ d.ttl = 0 /\ d.attempts = c.attempts
        /\ d.attemptsTTL = c.attemptsTTL
    <3>. HIDE DEF c
    <3>. QED
      BY <1>2 DEF Keys
  <2>. HIDE DEF c, d
  <2>. QED
    BY <1>3, <2>1, <2>2 DEF Verified, Together
<1>5. k.attempts < MaxAttempts => Verified(k, c)
  <2>. HIDE DEF c
  <2>. QED
    BY <1>1, <1>2, <1>3, ResetAssumption DEF Verified, Keys, Together
<1>6. Verified(store[a], [NoKeys EXCEPT !.cooldown = store[a].cooldown])
  BY <1>1, ResetAssumption DEF Verified, NoKeys, Keys, Together
<1>. QED
  BY <1>4, <1>5, <1>6

\* A submission takes codes away and gives none; a verdict goes with it.
LEMMA VerifyInv == ASSUME IInv, NEW r \in Request, Verify(r) PROVE IInv'
<1>. DEFINE a == req[r].cookie
<1>1. /\ req[r] \in UnderWay /\ req[r] # Idle /\ req[r].kind = "verify"
      /\ a \in Email /\ store[a].code # 0 /\ store[a].code \in 0..issued
  <2>1. req[r] \in UnderWay
    BY InUse DEF Verify, IInv
  <2>. QED
    BY <2>1 DEF Verify, UnderWay, Idle, IInv, TypeOK
<1>2. UNCHANGED <<issued, mailbox, cookie, auth, page, told, overtaken>>
  BY DEF Verify
<1>3. PICK res \in {"locked", "invalid", "ok", "undone"}, kk \in Keys :
          /\ \/ Answer(r, res) /\ res = "invalid"
             \/ Judge(r, res, store[a].code) /\ kk.code = 0
          /\ store' = [store EXCEPT ![a] = kk]
          /\ Verified(store[a], kk)
  <2>1. CASE /\ store' = [store EXCEPT ![a] =
                     [CountedKeys(store[a]) EXCEPT !.code = 0, !.ttl = 0]]
             /\ Judge(r, "locked", store[a].code)
    <3>1. [CountedKeys(store[a]) EXCEPT !.code = 0, !.ttl = 0].code = 0
      BY <1>1 DEF CountedKeys, IInv, TypeOK
    <3>. QED
      BY <1>1, <2>1, <3>1, Counted DEF Verified
  <2>2. CASE /\ store[a].attempts < MaxAttempts
             /\ store' = [store EXCEPT ![a] = CountedKeys(store[a])]
             /\ Answer(r, "invalid")
    BY <1>1, <2>2, Counted DEF Verified
  <2>3. CASE /\ store' = [store EXCEPT ![a] =
                              [NoKeys EXCEPT !.cooldown = store[a].cooldown]]
             /\ \/ Judge(r, "ok", store[a].code)
                \/ Judge(r, "undone", store[a].code)
    <3>1. [NoKeys EXCEPT !.cooldown = store[a].cooldown].code = 0
      BY DEF NoKeys
    <3>. QED
      BY <1>1, <2>3, <3>1, Counted DEF Verified
  <2>. QED
    BY <2>1, <2>2, <2>3 DEF Verify
<1>4. /\ req' \in [Request -> {Idle} \cup UnderWay] /\ Others(r) /\ Keeps(r)
      /\ req'[r].result = res
  <2>1. res \in Result
    BY DEF Result
  <2>. QED
    BY <1>1, <1>3, <2>1, AnswerEffect, JudgeEffect DEF IInv
<1>5. /\ store'[a] = kk /\ \A b \in Email \ {a} : store'[b] = store[b]
      /\ store' \in [Email -> Keys]
  BY <1>1, <1>3 DEF IInv, TypeOK, Keys
<1>6. Fewer
  BY <1>3, <1>5 DEF Fewer, Verified
<1>7. CarriesOn /\ Onward
  BY <1>1, <1>4 DEF CarriesOn, Onward, Carries, Sends, To, Others, Keeps
<1>8. Distinct' /\ OwnCode'
  BY <1>2, <1>6, <1>7, CodesKept
<1>9. OneReset'
  BY <1>2, <1>6, <1>7, NamesKept
<1>10. OldVerdict'
  <2>1. Verdict(r)' => kk.code = 0 /\ req'[r].cookie = a
    BY <1>3, <1>4 DEF Verdict, Keeps
  <2>2. ASSUME NEW q \in Request \ {r}, Verdict(q)'
        PROVE  (/\ req[q].cookie \in Email
                /\ \/ store[req[q].cookie].code = 0
                   \/ store[req[q].cookie].code > req[q].about)'
    <3>1. Verdict(q) /\ req'[q] = req[q]
      BY <1>4, <2>2 DEF Others, Verdict
    <3>. QED
      BY <1>6, <3>1 DEF IInv, OldVerdict, Fewer
  <2>. QED
    BY <1>1, <1>5, <2>1, <2>2 DEF OldVerdict
<1>11. Unlocked'
  BY <1>3, <1>5 DEF IInv, Unlocked, Verified
<1>12. LiveCodeCanBeEntered'
  <2>1. 0 \notin told
    BY DEF IInv, TypeOK
  <2>. QED
    BY <1>2, <1>3, <1>5, <2>1 DEF IInv, LiveCodeCanBeEntered, Verified
<1>13. TypeOK'
  <2>1. store' \in [Email -> Keys'] /\ req' \in [Request -> {Idle} \cup UnderWay']
    BY <1>2, <1>4, <1>5 DEF Keys, UnderWay
  <2>2. \A b \in Email : Together(store'[b])
    BY <1>3, <1>5 DEF IInv, TypeOK, Together, Verified
  <2>. QED
    BY <1>2, <2>1, <2>2 DEF IInv, TypeOK, Keys, Together
<1>. QED
  BY <1>8, <1>9, <1>10, <1>11, <1>12, <1>13 DEF IInv

-----------------------------------------------------------------------------
(* The browser's steps                                                     *)

\* The redirect of a mail brings the cookie with the code's address, fresh.
LEMMA SentInv == ASSUME IInv, NEW r \in Request, RedirectSent(r) PROVE IInv'
<1>1. req[r] \in UnderWay /\ req[r] # Idle /\ req[r].stage = "answered"
      /\ req[r].result = "sent" /\ Sends(r)
  BY InUse DEF RedirectSent, Arrives, Sends, IInv
<1>2. /\ To(r) \in Email /\ req[r].about \in 1..issued
      /\ \A a \in Email : store[a].code = req[r].about => a = To(r)
  BY <1>1 DEF Carries, IInv, OwnCode
<1>3. /\ cookie' = [email |-> To(r), ttl |-> CookieAge]
      /\ told' = told \cup {req[r].about} /\ overtaken' = FALSE /\ Follow(r)
      /\ UNCHANGED <<store, issued, mailbox, auth, page>>
  BY DEF RedirectSent
<1>4. Inherits /\ Onward /\ req' \in [Request -> {Idle} \cup UnderWay]
  BY <1>1, <1>3, Followed
<1>5. \A a \in Email : Named(a)' => Named(a)
  <2>1. ASSUME NEW a \in Email, store'[a].code \in told' PROVE Named(a)
    BY <1>1, <1>2, <1>3, <2>1 DEF Named
  <2>2. Named(To(r))
    BY <1>1 DEF Named
  <2>. QED
    BY <1>3, <1>4, <2>1, <2>2 DEF Named, Onward
<1>6. OneReset'
  <2>1. \A a, b \in Email : Named(a) /\ Named(b) => a = b
    BY DEF IInv, OneReset
  <2>2. \A a, b \in Email : Named(a)' /\ Named(b)' => a = b
    BY <1>5, <2>1
  <2>. QED
    BY <2>2 DEF OneReset
<1>7. Distinct' /\ OwnCode' /\ OldVerdict'
  <2>1. Fewer
    BY <1>3 DEF Fewer
  <2>. QED
    BY <1>3, <1>4, <2>1, CodesKept, VerdictsKept DEF Inherits
<1>8. Unlocked'
  BY <1>3 DEF IInv, Unlocked
<1>9. LiveCodeCanBeEntered'
  <2>1. ASSUME NEW a \in Email, store'[a].code \in told'
        PROVE  cookie'.email = a /\ cookie'.ttl >= store'[a].ttl
    <3>1. a = To(r)
      <4>1. Named(a)' /\ Named(a) /\ Named(To(r))
        BY <1>1, <1>5, <2>1 DEF Named
      <4>. QED
        BY <1>2, <4>1 DEF IInv, OneReset
    <3>2. store[a].ttl \in 0..OtpTTL
      BY DEF IInv, TypeOK
    <3>. QED
      BY <1>3, <3>1, <3>2, ResetAssumption
  <2>. QED
    BY <2>1 DEF LiveCodeCanBeEntered
<1>10. TypeOK'
  <2>1. req' \in [Request -> {Idle} \cup UnderWay']
    BY <1>3, <1>4 DEF UnderWay
  <2>2. /\ cookie' \in [email : Email \cup {None}, ttl : 0..CookieAge]
        /\ (cookie'.email = None) <=> (cookie'.ttl = 0)
    BY <1>2, <1>3, ResetAssumption
  <2>3. told' \subseteq 1..issued'
    BY <1>2, <1>3 DEF IInv, TypeOK
  <2>. QED
    BY <1>3, <2>1, <2>2, <2>3 DEF IInv, TypeOK
<1>. QED
  BY <1>6, <1>7, <1>8, <1>9, <1>10 DEF IInv

\* Answers that leave the cookie alone.
LEMMA EndInv ==
  ASSUME IInv, NEW r \in Request, Done(r), page' \in Shown,
         auth' \in {"none", "good", "bad"},
         UNCHANGED <<store, issued, mailbox, cookie, told, overtaken>>
  PROVE  IInv'
<1>1. Inherits /\ Onward /\ req' \in [Request -> {Idle} \cup UnderWay]
  BY Freed
<1>2. mailbox \subseteq 1..issued
  BY DEF IInv, TypeOK
<1>. QED
  BY <1>1, <1>2, Undisturbed

LEMMA LoginInv == ASSUME IInv, NEW r \in Request, RedirectLogin(r) PROVE IInv'
<1>1. req[r] \in UnderWay /\ req[r].stage = "answered" /\ Follow(r)
  BY InUse DEF RedirectLogin, Arrives, IInv
<1>2. Inherits /\ Onward /\ req' \in [Request -> {Idle} \cup UnderWay]
  BY <1>1, Followed
<1>3. page \in Shown /\ mailbox \subseteq 1..issued
  BY DEF IInv, TypeOK, Shown
<1>. QED
  BY <1>2, <1>3, Undisturbed DEF RedirectLogin

LEMMA AnsweredInv ==
  ASSUME IInv, NEW r \in Request, ReceiveWrong(r) \/ ReceiveNotSent(r)
  PROVE  IInv'
<1>1. /\ Done(r)
      /\ UNCHANGED <<store, issued, mailbox, cookie, auth, told, overtaken>>
      /\ page' \in {page, Plain("error"), Resent}
  BY DEF ReceiveWrong, ReceiveNotSent
<1>2. page' \in Shown /\ auth \in {"none", "good", "bad"}
  BY <1>1, Pages DEF IInv, TypeOK
<1>. QED
  BY <1>1, <1>2, EndInv

\* Where a redirect ends, the page may change but not the cookie.
LEMMA LandInv ==
  ASSUME IInv, NEW r \in Request,
         LandSend(r) \/ LandResend(r) \/ LandVerify(r)
  PROVE  IInv'
<1>1. /\ Done(r)
      /\ UNCHANGED <<store, issued, mailbox, cookie, told, overtaken>>
  BY DEF LandSend, LandResend, LandVerify
<1>2. auth' \in {"none", "good", "bad"}
  BY DEF LandSend, LandResend, LandVerify, Gate, IInv, TypeOK
<1>3. page' \in Shown
  <2>1. page \in Shown
    BY DEF IInv, TypeOK, Shown
  <2>2. CASE LandVerify(r)
    <3>. DEFINE d == IF req[r].result = "ok" THEN "password" ELSE "account"
    <3>1. page' = page
          \/ page' = [page EXCEPT !.ticking = FALSE,
                                  !.leaving = page.leaving \cup {d}]
      BY <2>1, <2>2 DEF LandVerify, Shown
    <3>2. page.leaving \cup {d} \in SUBSET {"password", "account"}
      BY <2>1 DEF Shown
    <3>. HIDE DEF d
    <3>. QED
      BY <2>1, <3>1, <3>2 DEF Shown
  <2>3. CASE LandSend(r) \/ LandResend(r)
    BY <2>3, Pages DEF LandSend, LandResend, IInv
  <2>. QED
    BY <2>2, <2>3
<1>. QED
  BY <1>1, <1>2, <1>3, EndInv

\* A broken connection tells the page nothing.
LEMMA BreakInv == ASSUME IInv, NEW r \in Request, Break(r) PROVE IInv'
<1>1. Done(r)
      /\ UNCHANGED <<store, issued, mailbox, cookie, auth, told, overtaken>>
  BY DEF Break
<1>2. page' \in Shown
  <2>1. page' = Plain("error") \/ page' = ResentInVain \/ page' = page
    BY DEF Break
  <2>. QED
    BY <2>1, Pages DEF IInv
<1>3. auth' \in {"none", "good", "bad"}
  BY <1>1 DEF IInv, TypeOK
<1>. QED
  BY <1>1, <1>2, <1>3, EndInv

\* The cookie goes: its address has the code of the verdict no longer, so a
\* live code that the user was told of is a later one, and has been overtaken.
LEMMA VerdictInv ==
  ASSUME IInv, NEW r \in Request, RedirectVerdict(r) \/ ReceiveUndone(r)
  PROVE  IInv'
<1>1. /\ DropCookie(r)
      /\ UNCHANGED <<store, issued, mailbox, page, told>>
      /\ req[r] \in UnderWay /\ req[r] # Idle /\ req[r].stage = "answered"
      /\ Verdict(r)
  BY InUse DEF RedirectVerdict, ReceiveUndone, Arrives, Verdict, IInv
<1>2. Inherits /\ Onward /\ req' \in [Request -> {Idle} \cup UnderWay]
  BY <1>1, Freed, Followed DEF RedirectVerdict, ReceiveUndone
<1>3. Fewer
  BY <1>1 DEF Fewer
<1>4. Distinct' /\ OwnCode' /\ OldVerdict'
  BY <1>1, <1>2, <1>3, CodesKept, VerdictsKept DEF Inherits
<1>5. OneReset'
  BY <1>1, <1>2, <1>3, NamesKept DEF DropCookie, NoCookie
<1>6. LiveCodeCanBeEntered'
  <2>1. SUFFICES ASSUME ~overtaken', NEW a \in Email, store[a].code \in told
                 PROVE  FALSE
    BY <1>1 DEF LiveCodeCanBeEntered
  <2>2. a = req[r].cookie
    <3>1. req[r].cookie \in Email /\ To(r) = req[r].cookie
      BY <1>1, ResetAssumption DEF IInv, OldVerdict, To
    <3>2. Named(a) /\ Named(req[r].cookie)
      BY <1>1, <2>1, <3>1 DEF Named
    <3>. QED
      BY <3>1, <3>2 DEF IInv, OneReset
  <2>3. store[a].code # 0
    BY <2>1 DEF IInv, TypeOK
  <2>4. store[a].code > req[r].about
    BY <1>1, <2>2, <2>3 DEF IInv, OldVerdict
  <2>. QED
    BY <1>1, <2>1, <2>4 DEF DropCookie
<1>7. Unlocked'
  BY <1>1 DEF IInv, Unlocked
<1>8. TypeOK'
  <2>1. req' \in [Request -> {Idle} \cup UnderWay']
    BY <1>1, <1>2 DEF UnderWay
  <2>2. /\ cookie' \in [email : Email \cup {None}, ttl : 0..CookieAge]
        /\ (cookie'.email = None) <=> (cookie'.ttl = 0)
    BY <1>1, ResetAssumption DEF DropCookie, NoCookie
  <2>3. auth' \in {"none", "good", "bad"}
    BY DEF RedirectVerdict, ReceiveUndone, IInv, TypeOK
  <2>4. overtaken' \in BOOLEAN
    BY <1>1 DEF DropCookie, IInv, TypeOK
  <2>. QED
    BY <1>1, <2>1, <2>2, <2>3, <2>4 DEF IInv, TypeOK
<1>. QED
  BY <1>4, <1>5, <1>6, <1>7, <1>8 DEF IInv

-----------------------------------------------------------------------------
(* Time                                                                    *)

\* A code and its cookie age together.
LEMMA TickInv == ASSUME IInv, Tick PROVE IInv'
<1>1. UNCHANGED <<issued, mailbox, auth, req, told, overtaken>>
      /\ store' = [a \in Email |-> AgedKeys(store[a])]
  BY DEF Tick
<1>2. ASSUME NEW a \in Email
      PROVE  /\ store'[a] \in Keys /\ Together(store'[a])
             /\ store'[a].code # 0 =>
                    /\ store'[a].code = store[a].code
                    /\ store'[a].ttl = store[a].ttl - 1 /\ store[a].ttl > 1
                    /\ store'[a].attempts \in {store[a].attempts, 0}
  <2>1. store[a] \in Keys /\ Together(store[a]) /\ issued \in Nat
    BY DEF IInv, TypeOK, Keys, Together
  <2>2. store'[a] = AgedKeys(store[a])
    BY <1>1
  <2>3. AgedKeys(store[a]) \in Keys
    BY <2>1, ResetAssumption DEF AgedKeys, Keys, Less
  <2>4. Together(AgedKeys(store[a]))
    BY <2>1, ResetAssumption DEF AgedKeys, Keys, Less, Together
  <2>5. AgedKeys(store[a]).code # 0 =>
            /\ AgedKeys(store[a]).code = store[a].code
            /\ AgedKeys(store[a]).ttl = store[a].ttl - 1 /\ store[a].ttl > 1
            /\ AgedKeys(store[a]).attempts \in {store[a].attempts, 0}
    BY <2>1, ResetAssumption DEF AgedKeys, Keys, Less
  <2>. QED
    BY <2>2, <2>3, <2>4, <2>5
<1>3. page' \in Shown /\ page'.at = page.at
  <2>. DEFINE life == IF page.ticking THEN Less(page.life) ELSE page.life
              ticking == page.ticking /\ page.life > 1
              wait == Less(page.wait)
  <2>1. page \in Shown
    BY DEF IInv, TypeOK, Shown
  <2>2. life \in 0..PageLife /\ wait \in 0..PageCooldown
    BY <2>1, ResetAssumption DEF Shown, Less
  <2>3. ticking \in BOOLEAN
    OBVIOUS
  <2>4. page' = [page EXCEPT !.life = life, !.ticking = ticking, !.wait = wait]
    BY DEF Tick
  <2>. HIDE DEF life, ticking, wait
  <2>. QED
    BY <2>1, <2>2, <2>3, <2>4 DEF Shown
<1>4. /\ cookie' \in [email : Email \cup {None}, ttl : 0..CookieAge]
      /\ (cookie'.email = None) <=> (cookie'.ttl = 0)
      /\ cookie.ttl > 1 =>
             cookie'.email = cookie.email /\ cookie'.ttl = cookie.ttl - 1
  BY ResetAssumption DEF Tick, IInv, TypeOK, NoCookie
<1>5. Inherits /\ Onward /\ Fewer
  BY <1>1, <1>2, Unmoved DEF Fewer
<1>6. Distinct' /\ OwnCode' /\ OldVerdict' /\ OneReset'
  <2>1. cookie'.email \in {cookie.email, None}
    BY DEF Tick, NoCookie, IInv, TypeOK
  <2>. QED
    BY <1>1, <1>5, <2>1, CodesKept, VerdictsKept, NamesKept DEF Inherits
<1>7. Unlocked'
  BY <1>1, <1>2, ResetAssumption DEF IInv, Unlocked
<1>8. LiveCodeCanBeEntered'
  <2>1. 0 \notin told
    BY DEF IInv, TypeOK
  <2>. QED
    BY <1>1, <1>2, <1>4, <2>1 DEF IInv, TypeOK, LiveCodeCanBeEntered
<1>9. TypeOK'
  <2>1. store' \in [Email -> Keys'] /\ req' \in [Request -> {Idle} \cup UnderWay']
    BY <1>1, <1>2 DEF IInv, TypeOK, Keys, UnderWay
  <2>. QED
    BY <1>1, <1>2, <1>3, <1>4, <2>1 DEF IInv, TypeOK, Keys, Together, Shown
<1>. QED
  BY <1>6, <1>7, <1>8, <1>9 DEF IInv

-----------------------------------------------------------------------------
(* The steps together                                                      *)

LEMMA StepInv == IInv /\ [Next]_vars => IInv'
<1>. SUFFICES ASSUME IInv, [Next]_vars PROVE IInv'
  OBVIOUS
<1>1. CASE UNCHANGED vars
  <2>1. req \in [Request -> {Idle} \cup UnderWay] /\ page \in Shown
        /\ auth \in {"none", "good", "bad"} /\ mailbox \subseteq 1..issued
    BY DEF IInv, TypeOK, Shown
  <2>. QED
    BY <1>1, <2>1, Unmoved, Undisturbed DEF vars
<1>2. CASE Leave \/ Navigate
  BY <1>2, LeaveInv
<1>3. CASE Tick
  BY <1>3, TickInv
<1>4. ASSUME NEW r \in Request, Act(r) PROVE IInv'
  BY <1>4, ActInv
<1>5. ASSUME NEW r \in Request, Serve(r) PROVE IInv'
  BY <1>5, RefuseInv, DrawInv, MailInv, VerifyInv, SentInv, LoginInv,
     VerdictInv, AnsweredInv, LandInv, BreakInv
  DEF Serve
<1>. QED
  BY <1>1, <1>2, <1>3, <1>4, <1>5 DEF Next

-----------------------------------------------------------------------------
(* The resend button                                                       *)

\* A step that presses nothing and ends no resend keeps the promise.
LEMMA StillAsking ==
  ASSUME BusyIsAsking,
         page'.at = "code" /\ page'.busy => page.at = "code" /\ page.busy,
         \A q \in Request : req[q].kind = "resend" => req'[q].kind = "resend"
  PROVE  BusyIsAsking'
  BY DEF BusyIsAsking

\* Nor does one that leaves the button free, or no code page.
LEMMA NotBusy ==
  ASSUME ~(page'.at = "code" /\ page'.busy) PROVE BusyIsAsking'
  BY DEF BusyIsAsking

\* The requests the server handles stay what they are.
LEMMA ServerAsking ==
  ASSUME IInv, BusyIsAsking, NEW r \in Request,
         \/ TurnAway(r) \/ RefuseSend(r) \/ NothingToVerify(r)
         \/ DrawCode(r) \/ Mail(r) \/ Verify(r)
  PROVE  BusyIsAsking'
<1>1. /\ req \in [Request -> {Idle} \cup UnderWay]
      /\ req[r] \in UnderWay
  BY InUse
  DEF IInv, TypeOK, TurnAway, RefuseSend, NothingToVerify, DrawCode, Mail, Verify
<1>2. req'[r].kind = req[r].kind /\ Others(r)
  <2>1. CASE \E res \in Result : Answer(r, res)
    BY <1>1, <2>1, AnswerEffect DEF IInv, Keeps
  <2>2. CASE DrawCode(r)
    <3>1. req' = [req EXCEPT ![r].stage = "mailing", ![r].about = issued + 1]
      BY <2>2 DEF DrawCode
    <3>. QED
      BY <1>1, <3>1 DEF Others, UnderWay
  <2>3. CASE \E res \in Result, c \in 0..issued : Judge(r, res, c)
    BY <1>1, <2>3, JudgeEffect DEF IInv, Keeps
  <2>4. Verify(r) => \/ \E res \in Result : Answer(r, res)
                     \/ \E res \in Result, c \in 0..issued : Judge(r, res, c)
    <3>1. Verify(r) => req[r].cookie \in Email
      BY <1>1 DEF Verify, UnderWay
    <3>2. Verify(r) => store[req[r].cookie].code \in 0..issued
      BY <3>1 DEF IInv, TypeOK
    <3>. QED
      BY <3>2 DEF Verify, Result
  <2>5. TurnAway(r) \/ RefuseSend(r) \/ NothingToVerify(r) \/ Mail(r)
            => \E res \in Result : Answer(r, res)
    BY DEF TurnAway, RefuseSend, NothingToVerify, Mail, Result
  <2>. QED
    BY <2>1, <2>2, <2>3, <2>4, <2>5
<1>3. page' = page
  BY DEF TurnAway, RefuseSend, NothingToVerify, DrawCode, Mail, Verify
<1>. QED
  BY <1>2, <1>3, StillAsking DEF Others

\* A redirect that is followed is still the same request.
LEMMA RedirectAsking ==
  ASSUME IInv, BusyIsAsking, NEW r \in Request,
         RedirectSent(r) \/ RedirectLogin(r) \/ RedirectVerdict(r)
  PROVE  BusyIsAsking'
<1>1. req[r] \in UnderWay /\ Follow(r) /\ page' = page
  BY InUse DEF RedirectSent, RedirectLogin, RedirectVerdict, Arrives, IInv
<1>2. Others(r) /\ Keeps(r)
  BY <1>1, FollowEffect DEF IInv
<1>. QED
  BY <1>1, <1>2, StillAsking DEF Others, Keeps

\* The end of a resend, however it ended, frees the button.
LEMMA BrowserAsking ==
  ASSUME IInv, BusyIsAsking, NEW r \in Request,
         \/ ReceiveUndone(r) \/ ReceiveWrong(r) \/ ReceiveNotSent(r)
         \/ LandSend(r) \/ LandResend(r) \/ LandVerify(r) \/ Break(r)
  PROVE  BusyIsAsking'
<1>1. Done(r) /\ req[r] # Idle
  BY DEF ReceiveUndone, ReceiveWrong, ReceiveNotSent, LandSend, LandResend,
         LandVerify, Break, Arrives, Idle
<1>2. Others(r) /\ page \in Shown /\ req[r] \in UnderWay
  BY <1>1, DoneEffect, InUse DEF IInv, TypeOK, Shown
<1>3. CASE req[r].kind = "resend"
  <2>1. page' = Resent \/ page' = ResentInVain
    <3>1. CASE Break(r)
      BY <1>3, <3>1 DEF Break
    <3>2. CASE ReceiveNotSent(r) \/ LandResend(r)
      BY <1>3, <3>2 DEF ReceiveNotSent, LandResend
    <3>. QED
      BY <1>3, <3>1, <3>2
      DEF ReceiveUndone, ReceiveWrong, LandSend, LandVerify
  <2>2. /\ ~(Resent.at = "code" /\ Resent.busy)
        /\ ~(ResentInVain.at = "code" /\ ResentInVain.busy)
    BY <1>2 DEF Resent, ResentInVain, Shown
  <2>. QED
    BY <2>1, <2>2, NotBusy
<1>4. CASE req[r].kind # "resend"
  <2>1. ~page'.busy \/ (page'.at = page.at /\ page'.busy = page.busy)
    <3>1. CASE LandVerify(r)
      <4>1. page' = page
            \/ page' = [page EXCEPT !.ticking = FALSE,
                                    !.leaving = page'.leaving]
        BY <1>2, <3>1 DEF LandVerify, Shown
      <4>. QED
        BY <1>2, <4>1 DEF Shown
    <3>2. CASE ReceiveUndone(r) \/ ReceiveWrong(r)
      BY <3>2 DEF ReceiveUndone, ReceiveWrong
    <3>3. CASE ReceiveNotSent(r) \/ LandSend(r) \/ LandResend(r) \/ Break(r)
      BY <1>4, <3>3 DEF ReceiveNotSent, LandSend, LandResend, Break, Plain,
                        CodePage
    <3>. QED
      BY <3>1, <3>2, <3>3
  <2>. QED
    BY <1>2, <1>4, <2>1, StillAsking DEF Others
<1>. QED
  BY <1>3, <1>4

LEMMA StepAsking ==
  ASSUME IInv, BusyIsAsking, [Next]_vars
  PROVE  BusyIsAsking'
<1>1. CASE UNCHANGED vars
  BY <1>1 DEF vars, BusyIsAsking
<1>2. CASE Leave \/ Navigate
  BY <1>2, NotBusy DEF Leave, Navigate, Plain
<1>3. CASE Tick
  <2>1. page \in Shown
    BY DEF IInv, TypeOK, Shown
  <2>2. page'.at = page.at /\ page'.busy = page.busy /\ req' = req
    BY <1>3, <2>1 DEF Tick, Shown
  <2>. QED
    BY <2>2, StillAsking
<1>4. ASSUME NEW r \in Request, ClickResend(r) PROVE BusyIsAsking'
  <2>1. req'[r].kind = "resend"
    BY <1>4 DEF ClickResend, Post, IInv, TypeOK
  <2>. QED
    BY <2>1 DEF BusyIsAsking
<1>5. ASSUME NEW r \in Request, SubmitForm(r) \/ SubmitCode(r)
      PROVE  BusyIsAsking'
  <2>1. req[r] = Idle /\ page' = page
    BY <1>5 DEF SubmitForm, SubmitCode, Post
  <2>2. \A q \in Request \ {r} : req'[q] = req[q]
    BY <1>5 DEF SubmitForm, SubmitCode, Post, IInv, TypeOK
  <2>. QED
    BY <2>1, <2>2, StillAsking DEF Idle
<1>6. ASSUME NEW r \in Request, Serve(r) PROVE BusyIsAsking'
  BY <1>6, ServerAsking, RedirectAsking, BrowserAsking DEF Serve
<1>. QED
  BY <1>1, <1>2, <1>3, <1>4, <1>5, <1>6 DEF Next, Act

-----------------------------------------------------------------------------
(* Theorems                                                                *)

\* The states of PasswordReset have their types: answers only go to requests
\* that can have them, and an attempt counter goes one beyond the limit at most.
THEOREM TypeCorrect == Spec => []TypeOK
<1>1. IInv => TypeOK
  BY DEF IInv
<1>2. QED
  BY <1>1, InitInv, StepInv, PTL DEF Spec

\* However requests overlap, break and overtake each other, the browser has the
\* cookie for every live code the user was told of, for as long as the code
\* lives, unless the verdict on an older code came after the word of a newer
\* one (userCaller.go lines 656 to 670, 737 and 753).
THEOREM CookieStays == Spec => []LiveCodeCanBeEntered
<1>1. IInv => LiveCodeCanBeEntered
  BY DEF IInv
<1>2. QED
  BY <1>1, InitInv, StepInv, PTL DEF Spec

\* The resend button does not stay pressed with nothing under way, whichever
\* requests break or overtake each other (OTPverification.templ lines 254 to
\* 293).
THEOREM ButtonIsFreed == Spec => []BusyIsAsking
<1>1. Init => BusyIsAsking
  BY DEF Init, Plain, BusyIsAsking
<1>2. QED
  BY <1>1, InitInv, StepInv, StepAsking, PTL DEF Spec

=============================================================================
