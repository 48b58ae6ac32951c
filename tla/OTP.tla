-------------------------------- MODULE OTP --------------------------------
(***************************************************************************)
(* The one-time codes of internal/authentication/redisOTPmanagement.go,    *)
(* at the grain of one Redis command per step.                             *)
(*                                                                         *)
(* Every HTTP request runs in a goroutine of its own, so requests to       *)
(* /sendVerificationMail (CreateOTP, then the mail) and to /verifyOTP      *)
(* (VerifyOTP) interleave between any two commands.  The pipeline of       *)
(* CreateOTP is not a transaction: its three commands run in order, with   *)
(* the commands of other clients in between, and a broken connection may   *)
(* leave only a prefix of them applied.                                    *)
(*                                                                         *)
(* keys() gives each identifier its own three keys, so the module follows  *)
(* one identifier.  A code is the number of the CreateOTP call that drew   *)
(* it: two draws of the same six digits are not modelled.  Time advances   *)
(* in ticks and a key carries the ticks it has left.                       *)
(***************************************************************************)
EXTENDS Integers, FiniteSets

CONSTANTS
    Request,         \* slots for the HTTP requests in flight
    OtpTTL,          \* otpTTD: ticks a code, and an attempt counter, live
    ResendCooldown,  \* resendCooldown: ticks before another code may be drawn
    MaxAttempts,     \* maxAttempts: submissions compared with one code
    MaxCodes,        \* bound: CreateOTP draws this many codes
    CountBound       \* bound: highest value the attempt counter reaches

ASSUME OtpAssumption ==
    /\ OtpTTL \in Nat \ {0}
    /\ ResendCooldown \in Nat \ {0}
    /\ MaxAttempts \in Nat \ {0}
    /\ MaxCodes \in Nat
    /\ CountBound \in Nat

VARIABLES
    code,         \* otp:code, 0 when the key is absent
    codeTTL,      \* ticks otp:code has left, 0 when absent
    attempts,     \* otp:attempts, 0 when the key is absent
    attemptsTTL,  \* ticks otp:attempts has left, Forever before its EXPIRE
    cooldown,     \* ticks otp:cooldown has left, 0 when absent
    pc,           \* the next command, or the outcome, of each request
    mine,         \* the code a request drew (CreateOTP) or read (VerifyOTP)
    match,        \* does the submitted code hash to the one that was read?
    issued,       \* codes drawn so far
    mailed,       \* codes the mail service has accepted
    \* history, read by no action
    used,         \* codes some VerifyOTP reported as verified
    tries,        \* comparisons with the live code since its counter was reset
    total,        \* comparisons with the live code since its first reset
    overlap,      \* other pipelines under way when the live code was set
    todo          \* pipeline commands not seen since the last SET of otp:code

keyVars == <<code, codeTTL, attempts, attemptsTTL, cooldown>>
history == <<used, tries, total, overlap, todo>>
vars == <<keyVars, pc, mine, match, issued, mailed, history>>

Forever == -1        \* what TTL answers for a key without expiry
Pipeline == {"setCooldown", "delAttempts"}
Creating == {"setCode", "setCooldown", "delAttempts", "mail"}
Verifying == {"incr", "expire", "delLocked", "delUsed"}
Outcome == {"sent", "coolingDown", "ok", "invalid", "locked", "notFound",
            "failed"}

TypeOK ==
    /\ code \in 0..issued /\ codeTTL \in 0..OtpTTL
    /\ (code = 0) <=> (codeTTL = 0)
    /\ attempts \in Nat /\ attemptsTTL \in Forever..OtpTTL
    /\ (attempts = 0) <=> (attemptsTTL = 0)
    /\ cooldown \in 0..ResendCooldown
    /\ pc \in [Request -> {"idle"} \cup Creating \cup Verifying \cup Outcome]
    /\ mine \in [Request -> 0..issued]
    /\ match \in [Request -> BOOLEAN]
    /\ issued \in Nat
    /\ mailed \subseteq 1..issued /\ used \subseteq 1..issued
    /\ tries \in Nat /\ total \in Nat /\ overlap \in Nat
    /\ todo \subseteq Pipeline

Init ==
    /\ code = 0 /\ codeTTL = 0
    /\ attempts = 0 /\ attemptsTTL = 0
    /\ cooldown = 0
    /\ pc = [r \in Request |-> "idle"]
    /\ mine = [r \in Request |-> 0]
    /\ match = [r \in Request |-> FALSE]
    /\ issued = 0 /\ mailed = {}
    /\ used = {} /\ tries = 0 /\ total = 0 /\ overlap = 0 /\ todo = {}

\* Calls of CreateOTP with a code set and DEL otp:attempts still to come.
Installing == {r \in Request : pc[r] \in {"setCooldown", "delAttempts"}}

Goto(r, from, to) == pc[r] = from /\ pc' = [pc EXCEPT ![r] = to]

-----------------------------------------------------------------------------
(* CreateOTP, and the mail its caller sends                                *)

\* Mutant: a cooldown in its last tick no longer counts.
CheckCooldownEarly(r) ==
    /\ cooldown <= 1 /\ issued < MaxCodes
    /\ Goto(r, "idle", "setCode")
    /\ issued' = issued + 1
    /\ mine' = [mine EXCEPT ![r] = issued + 1]
    /\ UNCHANGED <<keyVars, match, mailed, history>>

\* Mutant: a call refused for the cooldown resets the counter all the same.
CheckCooldownResets(r) ==
    \/ /\ cooldown > 0
       /\ Goto(r, "idle", "coolingDown")
       /\ attempts' = 0 /\ attemptsTTL' = 0 /\ tries' = 0
       /\ UNCHANGED <<code, codeTTL, cooldown, mine, match, issued, mailed,
                      used, total, overlap, todo>>
    \/ /\ cooldown = 0
       /\ issued < MaxCodes
       /\ Goto(r, "idle", "setCode")
       /\ issued' = issued + 1
       /\ mine' = [mine EXCEPT ![r] = issued + 1]
       /\ UNCHANGED <<keyVars, match, mailed, history>>

\* EXISTS otp:cooldown; when it is absent a code is drawn and hashed.
CheckCooldown(r) ==
    \/ /\ cooldown > 0
       /\ Goto(r, "idle", "coolingDown")
       /\ UNCHANGED <<keyVars, mine, match, issued, mailed, history>>
    \/ /\ cooldown = 0
       /\ issued < MaxCodes
       /\ Goto(r, "idle", "setCode")
       /\ issued' = issued + 1
       /\ mine' = [mine EXCEPT ![r] = issued + 1]
       /\ UNCHANGED <<keyVars, match, mailed, history>>

\* Mutant: SET without an expiry.
SetCodeForever(r) ==
    /\ Goto(r, "setCode", "setCooldown")
    /\ code' = mine[r] /\ codeTTL' = Forever
    /\ tries' = 0 /\ total' = 0 /\ overlap' = Cardinality(Installing)
    /\ todo' = Pipeline
    /\ UNCHANGED <<attempts, attemptsTTL, cooldown, mine, match, issued,
                   mailed, used>>

\* First command of the pipeline: SET otp:code, with its expiry.
SetCode(r) ==
    /\ Goto(r, "setCode", "setCooldown")
    /\ code' = mine[r] /\ codeTTL' = OtpTTL
    /\ tries' = 0 /\ total' = 0 /\ overlap' = Cardinality(Installing)
    /\ todo' = Pipeline
    /\ UNCHANGED <<attempts, attemptsTTL, cooldown, mine, match, issued,
                   mailed, used>>

\* Second command: SET otp:cooldown, with its expiry.
SetCooldown(r) ==
    /\ Goto(r, "setCooldown", "delAttempts")
    /\ cooldown' = ResendCooldown
    /\ todo' = todo \ {"setCooldown"}
    /\ UNCHANGED <<code, codeTTL, attempts, attemptsTTL, mine, match, issued,
                   mailed, used, tries, total, overlap>>

\* Third command: DEL otp:attempts.
DelAttempts(r) ==
    /\ Goto(r, "delAttempts", "mail")
    /\ attempts' = 0 /\ attemptsTTL' = 0
    /\ tries' = 0 /\ todo' = todo \ {"delAttempts"}
    /\ UNCHANGED <<code, codeTTL, cooldown, mine, match, issued, mailed, used,
                   total, overlap>>

\* CallSendVerificationMail mails the code after CreateOTP has returned it.
SendMail(r) ==
    /\ Goto(r, "mail", "sent")
    /\ mailed' = mailed \cup {mine[r]}
    /\ UNCHANGED <<keyVars, mine, match, issued, history>>

-----------------------------------------------------------------------------
(* VerifyOTP                                                               *)

\* GET otp:code.  What the user submits is right or wrong for the hash read
\* here, which is the one compared at the end.
ReadCode(r) ==
    \/ /\ code = 0
       /\ Goto(r, "idle", "notFound")
       /\ UNCHANGED <<keyVars, mine, match, issued, mailed, history>>
    \/ /\ code # 0
       /\ Goto(r, "idle", "incr")
       /\ mine' = [mine EXCEPT ![r] = code]
       /\ \E right \in BOOLEAN : match' = [match EXCEPT ![r] = right]
       /\ UNCHANGED <<keyVars, issued, mailed, history>>

\* Where the hash comparison leads.
Compared(r) == IF match[r] THEN "delUsed" ELSE "invalid"

\* Mutant: the expiry is set on the second count.
CountedLate(r, n) ==
    IF n = 2 THEN "expire" ELSE IF n > MaxAttempts THEN "delLocked"
    ELSE Compared(r)

\* The branch VerifyOTP takes on the value INCR returned.
Counted(r, n) ==
    IF n = 1 THEN "expire" ELSE IF n > MaxAttempts THEN "delLocked"
    ELSE Compared(r)

\* INCR creates a missing key, without expiry.
Incr ==
    /\ attempts < CountBound
    /\ attempts' = attempts + 1
    /\ attemptsTTL' = IF attempts = 0 THEN Forever ELSE attemptsTTL

\* INCR otp:attempts, and the branch on its value.
CountAttempt(r) ==
    /\ Incr
    /\ Goto(r, "incr", Counted(r, attempts + 1))
    /\ LET compared == code # 0 /\ mine[r] = code
                          /\ Counted(r, attempts + 1) # "delLocked"
       IN  /\ tries' = IF compared THEN tries + 1 ELSE tries
           /\ total' = IF compared /\ "delAttempts" \notin todo
                       THEN total + 1 ELSE total
    /\ UNCHANGED <<code, codeTTL, cooldown, mine, match, issued, mailed,
                   used, overlap, todo>>

\* Mutant: the counter lives as long as the cooldown.
ExpireCounterSoon(r) ==
    /\ Goto(r, "expire", Compared(r))
    /\ attemptsTTL' = IF attempts = 0 THEN 0 ELSE ResendCooldown
    /\ UNCHANGED <<code, codeTTL, attempts, cooldown, mine, match, issued,
                   mailed, history>>

\* EXPIRE otp:attempts after the first count; a key that is gone stays gone.
ExpireCounter(r) ==
    /\ Goto(r, "expire", Compared(r))
    /\ attemptsTTL' = IF attempts = 0 THEN 0 ELSE OtpTTL
    /\ UNCHANGED <<code, codeTTL, attempts, cooldown, mine, match, issued,
                   mailed, history>>

\* DEL otp:code once the counter is over the limit.
DelLocked(r) ==
    /\ Goto(r, "delLocked", "locked")
    /\ code' = 0 /\ codeTTL' = 0
    /\ tries' = 0 /\ total' = 0 /\ overlap' = 0
    /\ UNCHANGED <<attempts, attemptsTTL, cooldown, mine, match, issued,
                   mailed, used, todo>>

\* Mutant: only the counter is deleted.
DelCounterOnly(r) ==
    /\ Goto(r, "delUsed", "ok")
    /\ attempts' = 0 /\ attemptsTTL' = 0
    /\ used' = used \cup {mine[r]} /\ tries' = 0
    /\ UNCHANGED <<code, codeTTL, cooldown, mine, match, issued, mailed, total,
                   overlap, todo>>

\* DEL otp:code otp:attempts, one command, when the hashes agree.
DelUsed(r) ==
    /\ Goto(r, "delUsed", "ok")
    /\ code' = 0 /\ codeTTL' = 0
    /\ attempts' = 0 /\ attemptsTTL' = 0
    /\ used' = used \cup {mine[r]}
    /\ tries' = 0 /\ total' = 0 /\ overlap' = 0
    /\ UNCHANGED <<cooldown, mine, match, issued, mailed, todo>>

-----------------------------------------------------------------------------
(* The environment                                                         *)

\* The response is written; the slot is free for another request.
Finish(r) ==
    /\ pc[r] \in Outcome
    /\ pc' = [pc EXCEPT ![r] = "idle"]
    /\ mine' = [mine EXCEPT ![r] = 0]
    /\ match' = [match EXCEPT ![r] = FALSE]
    /\ UNCHANGED <<keyVars, issued, mailed, history>>

Aged(ttl) == IF ttl > 0 THEN ttl - 1 ELSE ttl

\* Time passes and Redis drops the keys whose time is over.
Tick ==
    /\ codeTTL' = Aged(codeTTL)
    /\ code' = IF codeTTL' = 0 THEN 0 ELSE code
    /\ attemptsTTL' = Aged(attemptsTTL)
    /\ attempts' = IF attemptsTTL' = 0 THEN 0 ELSE attempts
    /\ cooldown' = Aged(cooldown)
    /\ tries' = IF codeTTL' = 0 THEN 0 ELSE tries
    /\ total' = IF codeTTL' = 0 THEN 0 ELSE total
    /\ overlap' = IF codeTTL' = 0 THEN 0 ELSE overlap
    /\ UNCHANGED <<pc, mine, match, issued, mailed, used, todo>>

\* A request goes no further: the process died, a command returned an error
\* that the handler reports, or the browser left and its context is cancelled.
Abandon(r) ==
    /\ pc[r] \in Creating \cup Verifying
    /\ pc' = [pc EXCEPT ![r] = "failed"]
    /\ UNCHANGED <<keyVars, mine, match, issued, mailed, history>>

\* The mail was accepted but the call to the service reports an error.
MailReplyLost(r) ==
    /\ Goto(r, "mail", "failed")
    /\ mailed' = mailed \cup {mine[r]}
    /\ UNCHANGED <<keyVars, mine, match, issued, history>>

\* EXPIRE fails; VerifyOTP does not look at its result.
ExpireLost(r) ==
    /\ Goto(r, "expire", Compared(r))
    /\ UNCHANGED <<keyVars, mine, match, issued, mailed, history>>

\* DEL fails; VerifyOTP does not look at its result and answers as if done.
DelLost(r) ==
    /\ \/ Goto(r, "delLocked", "locked") /\ used' = used
       \/ Goto(r, "delUsed", "ok") /\ used' = used \cup {mine[r]}
    /\ UNCHANGED <<keyVars, mine, match, issued, mailed, tries, total, overlap,
                   todo>>

\* INCR is applied and its reply lost; the client library sends it again.
CountUnseen(r) ==
    /\ pc[r] = "incr"
    /\ Incr
    /\ UNCHANGED <<code, codeTTL, cooldown, pc, mine, match, issued, mailed,
                   history>>

\* Redis loses its data: compose.yml gives it no volume.  A restart that reloads
\* an older snapshot is not modelled.
RedisRestart ==
    /\ code' = 0 /\ codeTTL' = 0
    /\ attempts' = 0 /\ attemptsTTL' = 0
    /\ cooldown' = 0
    /\ tries' = 0 /\ total' = 0 /\ overlap' = 0
    /\ UNCHANGED <<pc, mine, match, issued, mailed, used, todo>>

-----------------------------------------------------------------------------

\* The commands a handler goes on with once it has begun.
Continue(r) ==
    \/ SetCode(r) \/ SetCooldown(r) \/ DelAttempts(r) \/ SendMail(r)
    \/ CountAttempt(r) \/ ExpireCounter(r) \/ DelLocked(r) \/ DelUsed(r)
    \/ Finish(r)

Next ==
    \/ Tick
    \/ \E r \in Request : CheckCooldown(r) \/ ReadCode(r) \/ Continue(r)

Fault ==
    \/ RedisRestart
    \/ \E r \in Request : \/ Abandon(r) \/ MailReplyLost(r)
                          \/ ExpireLost(r) \/ DelLost(r) \/ CountUnseen(r)

NextFaulty == Next \/ Fault

Spec == Init /\ [][Next]_vars

FaultySpec == Init /\ [][NextFaulty]_vars

\* Goroutines run and clocks advance; nobody has to send a request.
Fairness == WF_vars(Tick) /\ \A r \in Request : WF_vars(Continue(r))

FairSpec == Spec /\ Fairness

-----------------------------------------------------------------------------
(* Properties                                                              *)

\* However requests interleave, commands get lost and Redis restarts, a code
\* its owner has received is compared with at most MaxAttempts submissions
\* between two resets of its counter: VerifyOTP's counter and the code are
\* separate keys with expiries of their own (lines 131 to 139).
MailedCodeTries == code \in mailed => tries <= MaxAttempts

\* A code may have its counter reset more than once: each pipeline that was
\* under way when it was set still has its DEL to come (line 100).  All its
\* resets together give the code MaxAttempts comparisons each and no more,
\* however many codes were asked for at the same time and whatever fails: no
\* pipeline that begins later can reset the counter without replacing the code.
TotalTries == total <= MaxAttempts * (1 + overlap)

\* While a code that was mailed is live, CreateOTP draws no other until
\* ResendCooldown ticks have passed since it was set (lines 71 to 80): the
\* two expiries stay in step although the pipeline is not a transaction.
NoEarlyReissue ==
    [][\A r \in Request :
           (pc[r] = "idle" /\ pc'[r] = "setCode" /\ code \in mailed)
               => codeTTL + ResendCooldown <= OtpTTL]_vars

\* A code that some VerifyOTP reported as verified is never live again, in
\* the absence of faults (line 150).
UsedStaysUsed == code \notin used

\* As long as no command is lost, a counter without expiry always has a request
\* whose next command is its EXPIRE, whatever DELs and INCRs of other requests
\* come between the INCR that created it and that EXPIRE (lines 121 to 133).
\* CounterExpires needs nothing more than that this request goes on.
CounterKept ==
    (attempts > 0 /\ attemptsTTL = Forever)
        => \E r \in Request : pc[r] = "expire"

\* Every attempt counter disappears in the end: whoever creates the key also
\* gives it an expiry (lines 129 to 133), in the absence of faults.
CounterExpires == attempts > 0 ~> attempts = 0

\* "success - one-time use" (line 149): a code is reported as verified once.
\* VerifyOTP reads the hash, and only three commands later deletes it.
OneTimeUse ==
    [][\A r \in Request :
           (pc[r] = "delUsed" /\ pc'[r] = "ok") => mine[r] \notin used]_vars

=============================================================================
