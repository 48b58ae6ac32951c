# A verification model of Sclera

Sclera is a Go web application: users register, log in with a password or with
a one-time code mailed to them, keep a small profile, and chat with one of two
language models that may search the web. PostgreSQL holds the accounts, Redis
the one-time codes and the rate-limiter buckets, Resend sends the mails, Ollama
runs the models, SearXNG searches, nginx is in front. Sessions are JWTs in a
cookie; the server keeps no session state.

This directory holds TLA+ modules for the parts of it in which order,
concurrency, time and failure matter, the TLC configurations that check them on
small instances, and TLAPS proofs for instances of any size.

## Inventory

Every HTTP request runs in a goroutine of its own. Goroutines share nothing in
memory; what they share is in Redis and PostgreSQL, and is touched one command
or one SQL statement at a time, without transactions. That is the grain of the
models.

| Component | State it keeps | Operations | What is hard | What makes it correct |
|---|---|---|---|---|
| One-time codes, `authentication/redisOTPmanagement.go` | three Redis keys per address: code hash, attempt counter, cooldown, each with its own expiry | `CreateOTP`, `VerifyOTP` | seven commands of two operations interleave; the pipeline is not atomic; ignored errors of `EXPIRE` and `DEL`; retried `INCR`; key expiry; loss of Redis | bounded tries per code, no early reissue, a used code does not return, no counter left behind |
| Rate limiter, `redisInternal/rateLimiter.go` | a Redis hash per identity: tokens, time of last refill, expiry | `Allow` with an atomic Lua script | the clock is read before the script runs; retried script; expiry against refill; loss of Redis | grants bounded by the credit; lazy refill equals a steadily refilled bucket |
| Accounts, `handlers/userHandler.go`, `httpcallers/userCaller.go` | table `sclera.users` with its id sequence | register, log in, read, update profile, set password, delete | check and act in separate statements; deletion under an update; id reuse | one account per address, deletion is final, checks still hold when acted on |
| Tokens, `authentication/jwtManagement.go` | none on the server; a signed user id with an expiry of 168 h | `CreateToken`, `VerifyToken` | nothing revokes a token; it outlives its account | a token never works for another account |
| Tool loops, `LLM/runGemma.go`, `LLM/runOSS.go`, `LLM/tools.go` | the conversation and the turn counter of one request | `AskGemma`, `AskOss`, `Dispatch` | replies of any form; failing tools; several calls in one reply; the bound on turns | every call gets its result, the request ends, the limit is kept |
| Web search, `LLM/web.go` | none | `SearchWeb` | failure in many places | an error becomes a tool result |
| Password reset, `httpcallers/userCaller.go`, `OTPverification.templ` | cookies `Email` and `Authorization`; countdown, tries and resend timer in the page | send mail, enter code, set password | three requests linked by cookies that responses set and delete; a page that repeats server state | the mail goes where the user asked; a live code can be entered; the new password works |
| Gates, `middleware/*.go` | none | `CheckJwtToken`, `CheckUserIPandVerify` | which bucket pays; order of the checks; the cookie they delete | no handler runs unpaid or without an id; no session is lost without a cause |
| Session of a browser, `httpcallers/userCaller.go` | the cookie `Authorization` | set at login, registration and reset; deleted at logout, deletion and refusal | requests overlap in several tabs and with other devices; answers overtake each other or are lost | nobody is logged out by accident; no cookie of a deleted account stays |
| Chat page, `LLMChatWindow.templ` | messages, typing rows, send button, model menu | send, receive, reload, choose a model | overlapping sends with one row id; replies in any order or half read; a proxy that gives up while the loop goes on | every message is settled once, no row is left, loops left behind are paid for |
| Client address, hashing, database connection, helpers, other pages, deployment | – | – | – | not state machines; see "What is not modelled" |

How they interact: a gate charges the limiter and hands the user id of the
token to a handler; the mail handler calls `CreateOTP` and then the mail
service; the code handler calls `VerifyOTP`, then looks up the account and
issues a token; the chat handlers call a tool loop, which calls Ollama and,
through `Dispatch`, SearXNG. The browser carries the cookies from one to the
next.

The hazards this code is exposed to are listed, each at its line, in
`PROJECT.json`.

## Modules

| Module | Models | Kind |
|---|---|---|
| `OTP` | `CreateOTP`, `VerifyOTP`, the mail step | Redis commands as steps, faults |
| `OTP_proofs` | | theorems about `OTP` |
| `TokenBucket` | what the limiter promises | abstract specification |
| `RateLimiter` | `Allow` and its script | detailed specification, implements `TokenBucket` |
| `RateLimiter_proofs` | | theorems about `RateLimiter` |
| `Registry` | what the accounts and the tokens promise | abstract specification |
| `Accounts` | the users table, its handlers, tokens | SQL statements as steps, implements `Registry` |
| `Accounts_proofs` | | theorems about `Accounts` |
| `Session` | a browser with the cookie `Authorization`, the gates, the pages for visitors, in front of `Accounts` | composition: `EXTENDS Accounts`, implements it |
| `Session_proofs` | | theorems about `Session`, and that it implements `Accounts` |
| `PasswordReset` | a browser with its cookies, the code page, the mail and code handlers | requests and responses as steps, over a code store with whole operations |
| `PasswordReset_proofs` | | theorems about `PasswordReset` |
| `AskLLM` | a chat request and its tool loop | one request, any replies |
| `AskLLM_proofs` | | theorems about `AskLLM` |
| `Chat` | the chat page, the gate with the user's bucket, the loops from outside, the proxy | composition of page, network and server |
| `Chat_proofs` | | theorems about `Chat` |
| `MC_OTP`, `MC_RateLimiter`, `MC_Session` | | symmetry sets for TLC |

Definitions named `...Late`, `...Early` and the like, with a comment that begins
with "Mutant", belong to no specification. Each is a plausible mistake in the
code; put in the place of the definition it follows, it makes a property fail.

### OTP

One identifier is followed, because `keys()` gives each identifier its own three
keys. `code`, `attempts` and `cooldown` are the keys, with the ticks they have
left (`-1` for a key without expiry, as after `INCR`). A request is a program
counter `pc[r]` naming its next Redis command; `mine[r]` is the code it drew or
read. `CreateOTP` is `CheckCooldown`, `SetCode`, `SetCooldown`, `DelAttempts`,
and its caller's `SendMail`; `VerifyOTP` is `ReadCode`, `CountAttempt`,
`ExpireCounter`, then `DelLocked` or `DelUsed`. Codes are numbered instead of
drawn at random, so that two draws never coincide. `match[r]` says whether the
submitted code hashes to the one that was read; both are possible at any time.

Faults: the process or the client stops between two commands (`Abandon`, which
also stands for a reported error), the mail is sent but reported as failed,
`EXPIRE` or `DEL` is lost and nobody looks, `INCR` is applied twice, and Redis
comes back empty. A restart of Redis that reloads an older snapshot is left out.

`used`, `tries`, `total`, `overlap` and `todo` are history: no action reads them.
`tries` counts the comparisons with the live code since its counter was last reset,
`total` those since its first reset, and `overlap` is the number of other pipelines
that had a code set and their `DEL` still to come when the live code was set
(`Installing`).

### RateLimiter and TokenBucket

One identity, one key. A tick is the time one token takes to come back, which
makes the refill rate one. `ReadClock` is `time.Now()` in Go, `RunAllowed` and
`RunDenied` are the two outcomes of one atomic script run, at most `MaxDelay`
ticks later. `spent`, `credit`, `rewound` and `due` are history: what was granted,
what a bucket full at each start of Redis and refilled every tick could have granted,
by how many ticks late runs set `last_refill` back, and what a bucket would hold that
is refilled every tick and pays what the script charges.

`TokenBucket` is the promise: a level that grows by one per tick up to
`Capacity`, and requests that are served exactly if the level covers their cost.
The refinement mapping computes the level a client could infer from the key and
the clock; a missing key is a full bucket.

### Accounts

`users` is the table as a function from ids to rows, `nextId` the sequence,
which moves on even if `ON CONFLICT` inserts nothing. `valid` is the set of
tokens whose 168 hours are not over; a token also carries the address it was
issued for, which only the properties use. A handler with one statement is one
action; login, registration and the grant after a one-time code are a statement
and then `IssueToken`; the profile update is `FetchPassword` with its checks and
then `UpdateProfile`. Passwords are a word with or without blanks around it,
because some handlers trim and one does not; `bcrypt` is equality. The handlers
that only show a row change nothing and have no action. The text of forms, ages
and the limit on topics are abstracted to "the form is turned down".

`Registry` is what the gate and the pages rely on: which address owns which id
(`owner`), ids that nobody will own any more (`retired`), tokens somebody has earned
(`promised`) and tokens in use. The refinement mapping reads them off the table, the
sequence, the requests about to make a token, and `valid`: an id below `nextId`
without a row is retired, be it deleted or used up by an `INSERT` that found the
address taken.

### Session

The server keeps no sessions: who is logged in is what the cookie of the browser
says. `Session` puts one browser in front of `Accounts`: `jar` is its cookie, a
slot of `Accounts` that carries one of its requests is on a `trip`, `sent` is the
cookie the request left with and `effect` what its answer does to the cookie (set
a token, `Clear`, `Keep`). Slots that are not on a trip carry the requests of
everybody else (`Elsewhere`), with any valid token, so that the account can be
deleted from another device.

What a request does to the table is a step of `Accounts` (`ServeGrant` is
`Public`, `ServeDelete` is `DeleteUser`); the rest is in the answers. The gate
refuses a request without a valid token and deletes the cookie (`GateRefuses`,
after the limiter has agreed: `TurnAway` keeps it); the pages for visitors and
`/sendVerificationMail` delete a token that is not valid any more and turn a valid
one away or go on (`ServeVisit`); logout deletes the cookie (`ServeLogout`); a
deletion deletes it after the row, and keeps it with the error when there was no
row (`ServeDelete`); login, registration and a verified code set it
(`SetCookie`). Answers arrive in any order (`Arrive`) or never (`Lose`). A token
that expires becomes `StaleCookie` wherever it is, since it is refused from then
on; its cookie goes as well (`CookieAges`). The profile and password forms, like
every other request behind the gate, leave the cookie alone (`ServeUse`); what
they do to the table comes from `Elsewhere`.

### PasswordReset

One browser and the server behind it. `store` holds the three keys of each
address; `CreateOTP` and `VerifyOTP` are one step each (`DrawCode`,
`NothingToVerify`, `Verify`), because `OTP` looks inside them. `cookie` is the
cookie `Email` with its remaining life, `auth` the cookie `Authorization`, `page`
what is shown: `life` and `ticking` are the countdown, `wait` and `busy` the
resend button. A request in `req` leaves with the cookies of that moment, is
handled (`TurnAway` by the gate, `RefuseSend`, `DrawCode` and `Mail`,
`NothingToVerify`, `Verify`), and is answered. `about` is the code it is about: the
one typed, the one drawn, or the one a verdict has ended.

The answers that change a cookie are redirects, but for one (`ReceiveUndone`, a right
code whose account or token then fails). A browser obeys the `Set-Cookie` of a
redirect before it follows it, so such an answer takes two steps: `RedirectSent`,
`RedirectLogin` and `RedirectVerdict` change the cookies, and `LandSend`,
`LandResend` and `LandVerify` bring the page the answer of the followed request, or
`Break` brings it nothing, with the cookies changed. Meanwhile and afterwards the code
page lives on, with all its handlers: after a verdict it goes elsewhere at once or
after a pause (`leaving`, `Navigate`), and not at all when the followed request broke.
The other answers (`ReceiveWrong`, `ReceiveNotSent`) are one step. Answers come in any
order, and `Break` loses a request before or after it was handled. Two submissions at
once are possible, since typing a digit enables the button again
(`updateSubmitState`). The form is a navigation: it is sent with nothing under
way. `Leave`, by the user, also waits for that; `Navigate` does not.

`told` and `overtaken` are history: the codes that responses of this reset said were
sent, and whether since the last of them a verdict on an older code deleted the
cookie. Left out: the page's own count of tries, which a reload resets and which only
disables a button that typing enables again; addresses without an account are one
value, `None`.

### AskLLM

One request: requests share nothing. The model's reply is any of the forms the
loops tell apart. `messages` is the conversation as a sequence of roles, with
the number of tool calls in each assistant message. `GemmaDispatch` appends the
request and its result together, after the tool ran; `OssAsksTools` appends the
reply first and `OssDispatch` one result for each call, also for a tool nobody knows.
Whether a search succeeds does not matter to the loop: both outcomes are told to
the model in a message of the same form.

### Chat

One user with one page. The page's half: `rows` is the number of indicator rows,
which share the id `typingRow`, `page[r]` how far `sendMessage` is with a message
(`waiting` for the status, `reading` the body). The model menu is left out: the two
lines that read the chosen model follow each other without an `await` (lines 637 and
638), and the answer does not name its model. The server's half: `transit[r]` until
the gate has seen the request, `life[r]` the ticks its loop may still run,
`answer[r]` what is on its way back, `level` the user's bucket. `Send` is the
submit handler up to `fetch`, and needs no enabled button, since Enter submits
anyway. `Resolve` is the end of `fetch` with the first removal of a row, `Show` the
row of the bot or of an error, `Break` the `catch` block, with its removal. `Reload`
resets the page; what runs on the server goes on, because the loops use a
background context (`runGemma.go:52`, `runOSS.go:109`). It may charge for the page or
not, and may happen with an empty bucket: a page can be left for another one, and one
whose load the gate refuses is left all the same. `ProxyGivesUp` answers in
the place of a loop that still runs.

The bucket is the one `TokenBucket` promises: a tick brings one token. Ticks that
late script runs refill twice (`GrantsBounded`) are not counted in. `RowsLess` takes
the first row with the id, whichever message it belongs to, which is why `Resolve`
followed by a failing body can take the indicator of another message; that no more
rows are left than messages wait is what remains true, and is `PageSettles`.

`unanswered` is history: messages of the user less rows in answer.

## Runs

| Run | Specification | Checks | Bounds | Shows |
|---|---|---|---|---|
| `otp_faults` | `FaultySpec` | `TypeOK`, `MailedCodeTries`, `TotalTries`, `NoEarlyReissue` | 2 requests, 2 codes, lifetime 3, cooldown 2, 2 tries, counter to 3 | tries, in one go and over all resets, and cooldown survive all faults |
| `otp_races` | `FairSpec` | `UsedStaysUsed`, `CounterKept`, `CounterExpires` | as above, 3 codes | no code returns; counters go, and until then somebody is there to see to it |
| `otp_once` | `Spec` | `OneTimeUse` (violated) | as above | one code, two successes |
| `limiter_faults` | `FaultySpec` | `TypeOK`, `GrantsBounded`, `DenialsJustified` | 2 requests, costs 1 and 2, capacity 2, delay 2, clock to 7 | grants stay in the credit; denials have a cause |
| `limiter_exact` | `Spec` | `ImplementsTokenBucket` | capacity 3, delay 0, clock to 10 | lazy refill is exact |
| `reset` | `FairSpec` | `TypeOK`, `LiveCodeCanBeEntered`, `BusyIsAsking`, `ResendOfferedAgain` | 2 requests, 1 address, 2 codes, 1 try, code and cookie 3, countdown and resend timer 2, cooldown 1 | the cookie stays with the live code, unless a verdict on an older one comes late; the page always offers another code |
| `reset_resend` | `Spec` | `ResendIsServed` (violated) | as above, 2 addresses | an offered resend that is refused |
| `ask` | `Spec` | `TypeOK`, `EveryCallAnswered`, `EffortShrinks`, `AskReturns` | 4 turns, 3 calls a reply | well-formed conversation, every step costs effort, the request ends |
| `session` | `SpecS` | `TypeOKS`, `OneAccountPerEmail`, `TokenNamesItsUser`, `DeletedForGood`, `SessionLostForCause`, `ImplementsRegistry` | 2 requests, 2 addresses, 3 ids | accounts, ids and tokens agree and implement the registry; no session is lost without a cause |
| `session_delete` | `SpecS` | `DeleteEndsSession` (violated) | as above | a deletion that keeps the cookie |
| `accounts_trim` | `Spec` of `Accounts` | `ChosenPasswordWorks` (violated) | as above | a password nobody can type |
| `chat` | `Spec` | `TypeOK`, `OneAnswerEach`, `AnswerOwed`, `PageSettles`, `LoopsPaid`, `EveryMessageSettles` | 3 messages, capacity 6, costs 1 and 3, loops of 3 ticks | the page settles every message once; loops are paid for |

Why the bounds are enough to be interesting. Two requests give every pair of
overlapping operations; the properties about one code or one bucket relate at
most two of them. Lifetime 3 and cooldown 2 keep the order of the real 300 s and
60 s, and let a counter, a cooldown and a code expire before, between and after
each other. Two tries let the limit be reached and passed; the counter may go one
beyond it. Two requests let one pipeline overlap another, so that `TotalTries` is
reached: a code with `overlap` one that is compared four times. Capacity 2 and 3 with
a lifetime of twice that and a clock beyond it
lets a key expire. In `reset` code and cookie
live equally long and the resend timer is longer than the cooldown, as in the code
(300 s, 300 s, 65 s and 60 s); the countdown, 300 s as well, is a tick shorter to keep
the run small, which no guard can tell; one try suffices for a lock, and two codes
for an old one to be entered in place of a new one. With one address the form and
the cookie cannot disagree about it; the safety properties were also checked with
two. Three ids let an address be registered, deleted and
registered again next to a second account. The same three, with two slots, let the
browser log in, its account be deleted from elsewhere and its own deletion come
late. Four turns and three calls let a conversation hold
several replies of several calls. In `chat` a full bucket pays two loops, and a loop
lasts long enough for almost another to be paid: of the three slots two loops may run
at a time, and a page costs less than a message; three messages let one be answered,
one fail half way and one wait. The
real numbers are a capacity of 225, a cost of 30, one token every two seconds, and
loops of at most 12 calls of 120 s. With one search of 15 s after each call, as
Gemma makes them, that is 27 minutes and about 34 loops of one user at once; a reply
to OSS may ask for several searches, and its loops are as much longer. For the
safety properties of every module the proofs remove the bounds.

One run switches deadlock checking off: `ask`, in which one request is followed to
its end and nothing is left to do.

### Fairness

`OTP!FairSpec` assumes that time goes on (`WF_vars(Tick)`) and that a goroutine
that has begun goes on (`WF_vars(Continue(r))` for each request): the Go scheduler
runs every goroutine, and the Redis client has timeouts, so that a command comes
to an end. Nobody is obliged to send a request. `AskLLM!Spec` assumes
`WF_vars(Step)`: the model's client has a timeout of 120 s and the search client
one of 15 s, so that a loop that has begun always has a next step. Nothing is
assumed of what the model replies. `PasswordReset!FairSpec` assumes
`WF_vars(Tick)` and `WF_vars(Serve(r))`: a request is answered or its connection
breaks, because the proxy and the browser give up in the end. The user need do
nothing. `Chat!Spec` assumes `WF_vars(Proceed(r))`: the gate and the limiter answer,
a loop returns (`AskReturns`), and the browser runs the handlers of what has
arrived. Neither the proxy's giving up nor a broken connection is obliged to
happen, and the bucket need not fill: a message that cannot be paid is refused.

## Proofs

All proofs are for every value of the constants that the named assumptions of
the modules allow (`OtpAssumption`, `LimiterAssumption`, `AccountsAssumption`,
`ChatAssumption`, `ResetAssumption`, `AskAssumption`): any set of requests, also an
infinite one except in `Chat`, which counts them, and 
any lifetimes, costs, capacity, delays and ids.

* `OTP_proofs!TypeCorrect`, `TriesBounded`, `CooldownKept`: `TypeOK`,
  `MailedCodeTries` and `NoEarlyReissue` for `FaultySpec`. None of the last two is
  inductive. The invariant `IInv` adds `OwnCode` (a call that has drawn a code and
  not mailed it is alone with it), `Progress` (how much of the pipeline has been
  seen since the live code was set, whoever's pipeline it was), `Counting` (the
  counter is at least the number of comparisons and lives at least as long as the
  code) and `Cooling` (the cooldown keeps pace with the code). The step from the
  code to the property: a code is mailed only after its own `DEL`, so for a mailed
  code the pipeline has been seen in full.
* `OTP_proofs!TotalTriesBounded`: `TotalTries` for `FaultySpec`. `Resets` is what the
  pipelines under way can still give the live code: before its first `DEL` they are at
  most one more than `overlap`; from then on each `DEL` to come is worth `MaxAttempts`,
  and `total` and that together are at most `MaxAttempts * overlap + tries`. A `DEL`
  sets `tries` to zero and is one fewer to come; that `tries` is at most `MaxAttempts`
  for the code by then is `Counting`. Nothing bounds `overlap` itself except that the
  pipelines are finitely many (`Few`): that many requests passed the cooldown together.
* `OTP_proofs!CounterHasKeeper`: `CounterKept` for `Spec`, without faults; what fairness
  has to add for `CounterExpires` is that the request named there goes on.
* `OTP_proofs!UsedCodesStayUsed`: `UsedStaysUsed` for `Spec`, without faults. `Fresh`
  adds that a code about to be set was drawn by one call only, and was never live,
  read or used before.
* `RateLimiter_proofs!TypeCorrect`: `TypeOK` for `FaultySpec`.
* `RateLimiter_proofs!GrantsStayBounded`: `GrantsBounded` for `FaultySpec`. The
  invariant relates what is in the bucket, what could be refilled at once, what
  was spent and the credit; the expiry is long enough that a key that is gone
  would have been full.
* `RateLimiter_proofs!DenialsHaveCause`: `DenialsJustified` for `FaultySpec`. The
  invariant `NeverShort` says that the key is worth at least `due`: a run with a late
  reading finds less than that by at most the ticks it is late, and stores an older
  `last_refill`, which only brings refill forward. With `GrantsBounded` this
  encloses the limiter from both sides.
* `RateLimiter_proofs!LazyRefillIsExact`: with `MaxDelay = 0`, `Spec` implements
  `TokenBucket`. Every step maps to a step of the bucket or to a stutter; a tick
  maps to a refill until the bucket is full, and the expiry of the key to nothing.

* `Accounts_proofs!TypeCorrect`, `EmailsUnique`, `TokensKeepTheirUser`,
  `DeletionIsFinal`: the four properties of `Accounts`. The invariant `IInv` adds
  what a token, a pending grant or a pending update is worth: its id has been handed
  out, and the row that has it, if any, has its address (`Holds`). It lasts because
  no statement changes an address, brings a row back or lowers `nextId`
  (`Lasting`), which is shown once for each statement.
* `Accounts_proofs!AccountsImplementRegistry`, `Session_proofs!SessionImplementsRegistry`:
  every statement maps to a step of `Registry` or to a stutter, from the same
  invariant. `Register` maps to `Open` or, when the address is taken, to `Skip`. A
  request that gives up a promise which another request holds as well changes nothing in
  the registry (`PromiseEnds`). With a browser in front it follows from the next
  theorem.
* `Session_proofs!SessionImplementsAccounts`: `SpecS => Spec`. Every step of the
  browser, the gates and the pages is a step of `Accounts` or leaves its variables
  alone, so the theorems about `Accounts` hold with every browser in front
  (`SessionKeepsAccounts`).
* `Session_proofs!SessionTypeCorrect`, `SessionsLostForCause`: `TypeOKS` and
  `SessionLostForCause`. The invariant `ClearedForCause` fixes the cause when the
  answer is given, since it arrives later, with other answers in between.
* `Chat_proofs!TypeCorrect`, `AnswersMatch`, `PageComesToRest`: the properties of
  the page, from an invariant that is their conjunction.
* `Chat_proofs!LoopsStayPaid`: `LoopsPaid`. It is not inductive, because a loop was
  paid when it began and the bucket has been refilled since. `Paid` looks at the
  loops by age: for every `k`, those with at least `k` ticks left began within the
  last `LoopLife - k` ticks, so their cost and the level together are at most a
  full bucket and the refill of that time. `k = 1` is the property.
* `Chat_proofs!NoMessageForgotten`: `AnswerOwed`. Each action that takes a request from
  the network, ends a loop or consumes an answer leaves the next link behind.

* `AskLLM_proofs!TypeCorrect`, `CallsAnswered`: `TypeOK` and `EveryCallAnswered`.
  The property speaks of the moments at which the model is called; in between,
  results are still to come. The invariant `Conversation(m, gap)` says where each
  reply's results end, with `gap` the results that are missing at the end of the
  conversation (`Missing`: as many as OSS has calls left to dispatch, none for
  Gemma, whose request and result are appended together). A message that joins
  either begins a reply or fills one place of the gap.
* `AskLLM_proofs!RequestsRunDown`: `EffortShrinks`. `Effort` is worth one call of the
  model and a full list of tool calls for every turn to come, and the calls still
  pending in this one; every step lowers it. So a request takes at most
  `MaxTurns * (MaxCalls + 1) + 1` steps.
* `PasswordReset_proofs!TypeCorrect`, `CookieStays`: `TypeOK` and
  `LiveCodeCanBeEntered`. A code a request still carries is that of the address the
  request is for (`OwnCode`), and no two addresses have one code (`Distinct`), so the
  redirect that tells the user of a code brings the cookie with its address, which
  lives at least as long. No other address can take its place: until the reset is
  over, the cookie, the requests and the codes told name one address (`OneReset`). A
  verdict deletes the cookie, and may come long after it was given. The code it is
  on is gone by then (`OldVerdict`): its address has no code, or a later one, and if
  the user has been told of that one the verdict has been overtaken, which is the
  case the property leaves out. `Unlocked` bounds the counter.
* `PasswordReset_proofs!ButtonIsFreed`: `BusyIsAsking`, from the type invariant. Whatever
  ends a resend frees the button, unless the page has gone; no other step presses it.

Every invariant and every action property of the passing runs is a theorem, and so
are the two refinements. Only model-checked: the liveness properties `CounterExpires`,
`ResendOfferedAgain`, `AskReturns` and `EveryMessageSettles`, since liveness under
fairness is out of the prover's reach. What is proved of each is its safety half, that
the state always holds the next step to wait for or has less left to do: `CounterKept`,
`BusyIsAsking`, `EffortShrinks` and `AnswerOwed`; that fairness then brings the step
about is TLC's part. The four properties that fail are refuted by TLC's
counterexamples.

## Where the code and its comments disagree

* `OneTimeUse`: `VerifyOTP` reads the hash and deletes it three commands later
  without looking at the number of keys deleted; two overlapping submissions of
  the right code both succeed ("success — one-time use",
  `redisOTPmanagement.go:149`).
* `DeleteEndsSession`: `CallDeleteUser` is to delete "both the user data and
  cookie" (`userCaller.go:366`), but returns before it deletes the cookie when the row
  is gone already (line 386): the second try of a deletion whose answer was lost, or
  a deletion after another device's, keeps a cookie whose token is valid for up to
  seven days, and with it the pages `/loginUser` and `/newUser` answer that the user
  is logged in (line 124).
* `ResendIsServed`: the page offers a new code when the old one has expired
  ("Request a new one below.", `OTPverification.templ:184`), but by then the cookie
  with the address has expired as well (`userCaller.go:660`), the page has no
  address of its own, and the request is refused; the page starts its countdown
  again all the same (line 282).
* `ChosenPasswordWorks`: the reset stores the password as typed, every other
  handler trims (`userCaller.go:815`).

Met while reading and not part of a run: the limiter's clock is read outside the
script, which stores an older reading over a newer one, so that time is refilled
twice, although "Redis executes the whole thing as one indivisible step, no race
possible" (`rateLimiter.go:38`; `GrantsBounded` says by how much); the OSS loop
limits turns, not tool calls, of which the prompt allows twelve
(`runOSS.go:253`); the header of `rateLimiter.go` (lines 13
and 14) speaks of 100 tokens and one per minute, the code uses 225 and one every
two seconds (lines 130 and 131); `userCaller.go:794` says a reset to the same
password is not allowed, and nothing checks it; a submission over the limit is
redirected to `/updateAccout` (line 739), which needs a login; the profile is
updated by id alone after the password was checked in an earlier statement (lines
489 to 509), so the password may have been replaced in between; the answer to an
old code that arrives after the answer to a resend deletes the cookie under the new
code, which can then no longer be entered (lines 737 and 753; `overtaken`), and the
page that answer leads to, after "Redirecting you to request a new code…"
(`OTPverification.templ:218`), is again one that needs a login; an address typed
into the reset form is ignored while an `Email` cookie lives (line 624).

## What is not modelled

* `clientIPManagement.go`, `passwordHashing.go`, `dbCon.go`, helpers and record
  types: functions of their arguments, or start-up code, without a state that
  steps of others could disturb.
* What is in a mail, a page, a prompt or a search result, and how a search result
  is cut and numbered.
* The menu that chooses the model (see Chat above).
* Two draws of the same six digits, and two addresses that share keys.
* Redis reloading an old snapshot, PostgreSQL losing committed rows, clocks that
  jump.
* Generated `*_templ.go` files, styles, CI and container files.

## Plan

1. `OTP`, `RateLimiter` with `TokenBucket`, `Accounts`, `PasswordReset`, `AskLLM`:
   done, as above.
2. `Chat` and `Session`, the compositions: done, as above.
3. The safety properties and the refinements as theorems: done, as above.
4. Left: `Gateway`, the choice of the bucket by token or by address, with one bucket
   for each, and what a user whose token expires may spend from both; and an
   abstract specification of a one-time code (issue, refuse, accept), which `OTP`
   implements only as long as requests do not overlap (`OneTimeUse`), and on whose
   whole operations `PasswordReset` rests.
