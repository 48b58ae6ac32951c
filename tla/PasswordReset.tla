---------------------------- MODULE PasswordReset ----------------------------
(***************************************************************************)
(* Resetting a password: a browser, its cookies and the code page          *)
(* (tempFrontend/userHandling/OTPverification.templ) in front of           *)
(* CallSendVerificationMail and CallVerifyOTPserverSide of                 *)
(* internal/httpcallers/userCaller.go.                                     *)
(*                                                                         *)
(* What links the requests of one reset is the cookie Email, which one     *)
(* response sets and another deletes.  Both are redirects: the browser     *)
(* obeys their Set-Cookie before it follows them, and the page that asked  *)
(* lives on until it is told where they led.  The page keeps a countdown   *)
(* and a resend timer of its own.  Its requests overlap (Request), and     *)
(* responses arrive in any order or not at all.                            *)
(*                                                                         *)
(* CreateOTP and VerifyOTP are one step each here; module OTP looks at     *)
(* what happens inside them.  Addresses in Email have an account.          *)
(***************************************************************************)
EXTENDS Integers, FiniteSets

CONSTANTS
    Request,         \* slots for the requests of the browser under way
    Email,           \* addresses the user may type
    OtpTTL,          \* otpTTD: ticks a code, and an attempt counter, live
    ResendCooldown,  \* resendCooldown: ticks before another code is drawn
    MaxAttempts,     \* maxAttempts: submissions compared with one code
    CookieAge,       \* MaxAge of the cookie Email, in ticks
    PageLife,        \* secondsLeft of a fresh page, in ticks
    PageCooldown,    \* startResendCooldown(65), in ticks
    None,            \* no address
    MaxCodes         \* bound: CreateOTP draws this many codes

ASSUME ResetAssumption ==
    /\ OtpTTL \in Nat \ {0} /\ ResendCooldown \in Nat \ {0}
    /\ MaxAttempts \in Nat \ {0}
    /\ CookieAge \in Nat /\ CookieAge >= OtpTTL
    /\ PageLife \in Nat \ {0} /\ PageCooldown \in Nat \ {0}
    /\ None \notin Email
    /\ MaxCodes \in Nat

VARIABLES
    store,      \* the Redis keys of each address
    issued,     \* codes drawn so far
    mailbox,    \* codes that have reached the user
    cookie,     \* the cookie Email
    auth,       \* the cookie Authorization: none, good or no longer valid
    page,       \* the page shown
    req,        \* the requests under way
    \* history, read by no action
    told,       \* the codes this reset was told have been sent
    overtaken   \* did the verdict on an older code delete the cookie since?

vars == <<store, issued, mailbox, cookie, auth, page, req, told, overtaken>>

NoKeys == [code |-> 0, ttl |-> 0, attempts |-> 0, attemptsTTL |-> 0,
           cooldown |-> 0]
NoCookie == [email |-> None, ttl |-> 0]

\* Nothing under way in a slot.
Idle == [kind |-> "none"]
Quiet == \A r \in Request : req[r] = Idle

\* A page without a countdown.
Plain(at) ==
    [at |-> at, life |-> 0, ticking |-> FALSE, wait |-> 0, busy |-> FALSE,
     leaving |-> {}]

\* The code page as it is loaded.
CodePage ==
    [at |-> "code", life |-> PageLife, ticking |-> TRUE,
     wait |-> PageCooldown, busy |-> FALSE, leaving |-> {}]

Result == {"sent", "refused", "cooling", "login", "failed",
           "ok", "invalid", "locked", "undone"}

\* A request: "following" is a redirect whose cookies are set.  It is about
\* the code that was typed or drawn, or that a verdict has ended.
UnderWay ==
    [kind : {"send", "resend", "verify"},
     stage : {"asked", "mailing", "answered", "following"},
     cookie : Email \cup {None}, typed : Email \cup {None},
     bad : BOOLEAN, about : 0..issued, result : Result \cup {"none"}]

TypeOK ==
    /\ store \in [Email -> [code : 0..issued, ttl : 0..OtpTTL,
                            attempts : 0..(MaxAttempts + 1),
                            attemptsTTL : 0..OtpTTL,
                            cooldown : 0..ResendCooldown]]
    /\ \A a \in Email :
           /\ (store[a].code = 0) <=> (store[a].ttl = 0)
           /\ (store[a].attempts = 0) <=> (store[a].attemptsTTL = 0)
    /\ issued \in Nat /\ mailbox \subseteq 1..issued
    /\ cookie \in [email : Email \cup {None}, ttl : 0..CookieAge]
    /\ (cookie.email = None) <=> (cookie.ttl = 0)
    /\ auth \in {"none", "good", "bad"}
    /\ page \in [at : {"form", "code", "password", "error"},
                 life : 0..PageLife, ticking : BOOLEAN,
                 wait : 0..PageCooldown, busy : BOOLEAN,
                 leaving : SUBSET {"password", "account"}]
    /\ req \in [Request -> {Idle} \cup UnderWay]
    /\ told \subseteq 1..issued /\ overtaken \in BOOLEAN

Init ==
    /\ store = [a \in Email |-> NoKeys]
    /\ issued = 0 /\ mailbox = {}
    /\ cookie = NoCookie /\ auth \in {"none", "good", "bad"}
    /\ page = Plain("form")
    /\ req = [r \in Request |-> Idle]
    /\ told = {} /\ overtaken = FALSE

-----------------------------------------------------------------------------
(* The user                                                                *)

\* A request leaves the browser with the cookies it has now.
Post(r, kind, typed, guess) ==
    /\ req[r] = Idle
    /\ req' = [req EXCEPT ![r] =
                   [kind |-> kind, stage |-> "asked", cookie |-> cookie.email,
                    typed |-> typed, bad |-> auth = "bad", about |-> guess,
                    result |-> "none"]]
    /\ UNCHANGED <<store, issued, mailbox, cookie, auth, overtaken>>

\* The form under "Forgot your password?", sent with an address that has an
\* account or with another one or none.  It is a navigation: one at a time.
SubmitForm(r) ==
    /\ page.at = "form" /\ Quiet
    /\ \E a \in Email \cup {None} : Post(r, "send", a, 0)
    /\ told' = {}
    /\ UNCHANGED page

\* The resend button, once its timer is over.  The page has no address.
ClickResend(r) ==
    /\ page.at = "code" /\ page.wait = 0 /\ ~page.busy
    /\ Post(r, "resend", None, 0)
    /\ page' = [page EXCEPT !.busy = TRUE]
    /\ UNCHANGED told

\* Six digits: those of a mail, or others (0).
SubmitCode(r) ==
    /\ page.at = "code"
    /\ \E g \in mailbox \cup {0} : Post(r, "verify", None, g)
    /\ UNCHANGED <<page, told>>

\* Back to a form, with nothing under way.
Leave ==
    /\ page.at # "form" /\ Quiet
    /\ page' = Plain("form")
    /\ UNCHANGED <<store, issued, mailbox, cookie, auth, req, told, overtaken>>

-----------------------------------------------------------------------------
(* The server                                                              *)

Answer(r, result) ==
    req' = [req EXCEPT ![r].stage = "answered", ![r].result = result]

\* The address a send handler takes: the cookie wins over the form.
To(r) == IF req[r].cookie # None THEN req[r].cookie ELSE req[r].typed

\* The rate limiter turns the request away, or Redis fails.
TurnAway(r) ==
    /\ req[r] # Idle /\ req[r].stage = "asked"
    /\ Answer(r, "failed")
    /\ UNCHANGED <<store, issued, mailbox, cookie, auth, page, told, overtaken>>

\* Early returns of CallSendVerificationMail: a bad token sends the browser to
\* the login page, an address is missing or has no account, CreateOTP refuses.
RefuseSend(r) ==
    /\ req[r].kind \in {"send", "resend"} /\ req[r].stage = "asked"
    /\ \/ req[r].bad /\ Answer(r, "login")
       \/ ~req[r].bad /\ To(r) = None /\ Answer(r, "refused")
       \/ /\ ~req[r].bad /\ To(r) # None
          /\ store[To(r)].cooldown > 0 /\ Answer(r, "cooling")
    /\ UNCHANGED <<store, issued, mailbox, cookie, auth, page, told, overtaken>>

\* CreateOTP draws a code; its pipeline clears the attempt counter.
DrawCode(r) ==
    /\ req[r].kind \in {"send", "resend"} /\ req[r].stage = "asked"
    /\ ~req[r].bad /\ To(r) # None /\ store[To(r)].cooldown = 0
    /\ issued < MaxCodes /\ issued' = issued + 1
    /\ store' = [store EXCEPT ![To(r)] =
                     [code |-> issued + 1, ttl |-> OtpTTL, attempts |-> 0,
                      attemptsTTL |-> 0, cooldown |-> ResendCooldown]]
    /\ req' = [req EXCEPT ![r].stage = "mailing", ![r].about = issued + 1]
    /\ UNCHANGED <<mailbox, cookie, auth, page, told, overtaken>>

\* The mail service takes the mail, or the call fails, with the mail sent or
\* not.
Mail(r) ==
    /\ req[r].kind \in {"send", "resend"} /\ req[r].stage = "mailing"
    /\ \/ Answer(r, "sent") /\ mailbox' = mailbox \cup {req[r].about}
       \/ /\ Answer(r, "failed")
          /\ mailbox' \in {mailbox, mailbox \cup {req[r].about}}
    /\ UNCHANGED <<store, issued, cookie, auth, page, told, overtaken>>

\* VerifyOTP finds no code, or no cookie names an address.
NothingToVerify(r) ==
    /\ req[r].kind = "verify" /\ req[r].stage = "asked"
    /\ IF req[r].cookie = None THEN TRUE ELSE store[req[r].cookie].code = 0
    /\ Answer(r, "failed")
    /\ UNCHANGED <<store, issued, mailbox, cookie, auth, page, told, overtaken>>

\* Mutant: the counter is left without an expiry.
CountedKeysForever(k) == [k EXCEPT !.attempts = @ + 1]

\* The counter after one more submission; the first one gives it an expiry.
CountedKeys(k) ==
    [k EXCEPT !.attempts = @ + 1,
              !.attemptsTTL = IF k.attempts = 0 THEN OtpTTL ELSE @]

\* The verdict on code c, which is no longer in the store.
Judge(r, result, c) ==
    req' = [req EXCEPT ![r].stage = "answered", ![r].result = result,
                       ![r].about = c]

\* VerifyOTP, and the session that a right code opens: the account is looked
\* up and the token made after the code is gone, and may fail ("undone").
Verify(r) ==
    /\ req[r].kind = "verify" /\ req[r].stage = "asked"
    /\ req[r].cookie # None
    /\ LET a == req[r].cookie
           k == store[a]
       IN  /\ k.code # 0
           /\ \/ /\ k.attempts >= MaxAttempts
                 /\ store' = [store EXCEPT ![a] =
                                  [CountedKeys(k) EXCEPT !.code = 0, !.ttl = 0]]
                 /\ Judge(r, "locked", k.code)
              \/ /\ k.attempts < MaxAttempts /\ req[r].about # k.code
                 /\ store' = [store EXCEPT ![a] = CountedKeys(k)]
                 /\ Answer(r, "invalid")
              \/ /\ k.attempts < MaxAttempts /\ req[r].about = k.code
                 /\ store' = [store EXCEPT ![a] =
                                  [NoKeys EXCEPT !.cooldown = k.cooldown]]
                 /\ Judge(r, "ok", k.code) \/ Judge(r, "undone", k.code)
    /\ UNCHANGED <<issued, mailbox, cookie, auth, page, told, overtaken>>

-----------------------------------------------------------------------------
(* The browser                                                             *)

Done(r) == req' = [req EXCEPT ![r] = Idle]

Follow(r) == req' = [req EXCEPT ![r].stage = "following"]

\* The resend handler of the page, if the page is still there, runs to its end
\* whatever the status was; a countdown that is over is not started again.
Resent ==
    IF page.at # "code" THEN page
    ELSE [page EXCEPT !.life = PageLife, !.wait = PageCooldown, !.busy = FALSE]

\* Mutant: the timer is only started after an answer.
ResentInVainStuck == page

\* The fetch has failed: only the timer starts again.
ResentInVain ==
    IF page.at # "code" THEN page
    ELSE [page EXCEPT !.wait = PageCooldown, !.busy = FALSE]

\* One of these answers reaches the browser.
Arrives(r, results) ==
    req[r] # Idle /\ req[r].stage = "answered" /\ req[r].result \in results

\* The mail handler's redirect to the code page sets the cookie.
RedirectSent(r) ==
    /\ req[r].kind \in {"send", "resend"} /\ Arrives(r, {"sent"})
    /\ cookie' = [email |-> To(r), ttl |-> CookieAge]
    /\ told' = told \cup {req[r].about} /\ overtaken' = FALSE
    /\ Follow(r)
    /\ UNCHANGED <<store, issued, mailbox, auth, page>>

\* The redirect of a bad token deletes it.
RedirectLogin(r) ==
    /\ req[r].kind \in {"send", "resend"} /\ Arrives(r, {"login"})
    /\ auth' = "none"
    /\ Follow(r)
    /\ UNCHANGED <<store, issued, mailbox, cookie, page, told, overtaken>>

\* The verdict has come: the cookie goes, whatever code it is there for by now.
DropCookie(r) ==
    /\ cookie' = NoCookie
    /\ overtaken' = (overtaken \/ \E c \in told : c > req[r].about)

\* The redirects of a code that was used or locked; the first opens a session.
RedirectVerdict(r) ==
    /\ req[r].kind = "verify" /\ Arrives(r, {"ok", "locked"})
    /\ DropCookie(r)
    /\ auth' = IF req[r].result = "ok" THEN "good" ELSE auth
    /\ Follow(r)
    /\ UNCHANGED <<store, issued, mailbox, page, told>>

\* The code was used for nothing; the page shows an error.
ReceiveUndone(r) ==
    /\ req[r].kind = "verify" /\ Arrives(r, {"undone"})
    /\ DropCookie(r)
    /\ Done(r)
    /\ UNCHANGED <<store, issued, mailbox, auth, page, told>>

\* Mutant: a wrong code ends the reset.
ReceiveWrongAndForget(r) ==
    /\ req[r].kind = "verify" /\ Arrives(r, {"invalid", "failed"})
    /\ cookie' = NoCookie
    /\ Done(r)
    /\ UNCHANGED <<store, issued, mailbox, auth, page, told, overtaken>>

\* The page shows an error.
ReceiveWrong(r) ==
    /\ req[r].kind = "verify" /\ Arrives(r, {"invalid", "failed"})
    /\ Done(r)
    /\ UNCHANGED <<store, issued, mailbox, cookie, auth, page, told, overtaken>>

\* A send without a redirect: an error page, or nothing the page looks at.
ReceiveNotSent(r) ==
    /\ req[r].kind \in {"send", "resend"}
    /\ Arrives(r, {"refused", "cooling", "failed"})
    /\ page' = IF req[r].kind = "send" THEN Plain("error") ELSE Resent
    /\ Done(r)
    /\ UNCHANGED <<store, issued, mailbox, cookie, auth, told, overtaken>>

\* Where a redirect leads the browser; the rate limiter may refuse to show the
\* code page.
LandSend(r) ==
    /\ req[r].kind = "send" /\ req[r].stage = "following"
    /\ \/ page' = Plain("error")
       \/ req[r].result = "sent" /\ page' = CodePage
    /\ Done(r)
    /\ UNCHANGED <<store, issued, mailbox, cookie, auth, told, overtaken>>

\* The page does not look where it led a resend.
LandResend(r) ==
    /\ req[r].kind = "resend" /\ req[r].stage = "following"
    /\ page' = Resent
    /\ Done(r)
    /\ UNCHANGED <<store, issued, mailbox, cookie, auth, told, overtaken>>

\* The gate of the pages behind a session deletes a token it finds bad, unless
\* the rate limiter came first.
Gate == auth' = auth \/ (auth = "bad" /\ auth' = "none")

\* The page stops its countdown and is about to go where the verdict led, at
\* once or after a pause; until then its handlers are at work.
LandVerify(r) ==
    /\ req[r].kind = "verify" /\ req[r].stage = "following"
    /\ page' = IF page.at # "code" THEN page
               ELSE [page EXCEPT !.ticking = FALSE,
                                 !.leaving = @ \cup {IF req[r].result = "ok"
                                                    THEN "password"
                                                    ELSE "account"}]
    /\ Gate
    /\ Done(r)
    /\ UNCHANGED <<store, issued, mailbox, cookie, told, overtaken>>

\* It goes: to the page for the new password, or to the account page with its
\* form.  Both want a session.
Navigate ==
    /\ page.at = "code"
    /\ \E d \in page.leaving :
           \/ page' = Plain("error")
           \/ /\ auth = "good"
              /\ page' = Plain(IF d = "password" THEN "password" ELSE "form")
    /\ Gate
    /\ UNCHANGED <<store, issued, mailbox, cookie, req, told, overtaken>>

\* The connection breaks before the request was handled, after it, or while a
\* redirect is followed.
Break(r) ==
    /\ req[r] # Idle /\ req[r].stage # "mailing"
    /\ page' = CASE req[r].kind = "send" -> Plain("error")
                 [] req[r].kind = "resend" -> ResentInVain
                 [] OTHER -> page
    /\ Done(r)
    /\ UNCHANGED <<store, issued, mailbox, cookie, auth, told, overtaken>>

Less(n) == IF n > 0 THEN n - 1 ELSE 0

AgedKeys(k) ==
    [code |-> IF k.ttl > 1 THEN k.code ELSE 0, ttl |-> Less(k.ttl),
     attempts |-> IF k.attemptsTTL > 1 THEN k.attempts ELSE 0,
     attemptsTTL |-> Less(k.attemptsTTL), cooldown |-> Less(k.cooldown)]

\* Time passes in Redis, in the browser and on the page.
Tick ==
    /\ store' = [a \in Email |-> AgedKeys(store[a])]
    /\ cookie' = IF cookie.ttl > 1 THEN [cookie EXCEPT !.ttl = @ - 1]
                 ELSE NoCookie
    /\ page' = [page EXCEPT !.life = IF page.ticking THEN Less(@) ELSE @,
                            !.ticking = page.ticking /\ page.life > 1,
                            !.wait = Less(@)]
    /\ UNCHANGED <<issued, mailbox, auth, req, told, overtaken>>

-----------------------------------------------------------------------------

\* What happens to a request once it is under way.
Serve(r) ==
    \/ TurnAway(r) \/ RefuseSend(r) \/ DrawCode(r) \/ Mail(r)
    \/ NothingToVerify(r) \/ Verify(r)
    \/ RedirectSent(r) \/ RedirectLogin(r) \/ RedirectVerdict(r)
    \/ ReceiveUndone(r) \/ ReceiveWrong(r) \/ ReceiveNotSent(r)
    \/ LandSend(r) \/ LandResend(r) \/ LandVerify(r) \/ Break(r)

Act(r) == SubmitForm(r) \/ ClickResend(r) \/ SubmitCode(r)

Next == Leave \/ Navigate \/ Tick \/ \E r \in Request : Act(r) \/ Serve(r)

Spec == Init /\ [][Next]_vars

\* Clocks advance, and a request is answered or its connection breaks.
FairSpec == Spec /\ WF_vars(Tick) /\ \A r \in Request : WF_vars(Serve(r))

-----------------------------------------------------------------------------
(* Properties                                                              *)

\* A live code that the user was told of can be entered: the browser has the
\* cookie that names its address, for as long as the code lives, although
\* overlapping responses set and delete it, in any order, and break after they
\* did (userCaller.go lines 656 to 670, 737 and 753).  The one way to lose it
\* is that the verdict on an older code arrives after the word of a new one.
LiveCodeCanBeEntered ==
    ~overtaken =>
        \A a \in Email :
            store[a].code \in told
                => cookie.email = a /\ cookie.ttl >= store[a].ttl

\* A resend button that has been pressed is not left pressed: while the page
\* shows it busy the request that will free it is under way, whichever of the
\* other requests end, break or take the page away in between
\* (OTPverification.templ lines 254 to 293).
BusyIsAsking ==
    page.at = "code" /\ page.busy => \E r \in Request : req[r].kind = "resend"

\* The code page does not lose its resend button: as long as it is shown the
\* button becomes usable again, whatever became of the last request
\* (OTPverification.templ lines 254 to 293).
ResendOfferedAgain ==
    page.at = "code" ~> page.at # "code" \/ (page.wait = 0 /\ ~page.busy)

\* "This code has expired. Request a new one below." (OTPverification.templ
\* line 184): the request for a new one is not refused for want of an address.
ResendIsServed ==
    \A r \in Request : req[r].kind = "resend" => req[r].result # "refused"

=============================================================================
