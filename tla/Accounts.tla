------------------------------ MODULE Accounts ------------------------------
(***************************************************************************)
(* The users table (internal/handlers/userHandler.go), the handlers of     *)
(* internal/httpcallers/userCaller.go that read and write it, and the      *)
(* tokens they hand out (internal/authentication/jwtManagement.go).  One   *)
(* SQL statement per step: the handlers use no transactions, so requests   *)
(* interleave between any two statements.                                  *)
(*                                                                         *)
(* Tokens are signed and never recorded: a token names a user id until it  *)
(* expires, whatever happens to the account.  A request arrives together   *)
(* with its first statement; nothing is shared before it.                  *)
(***************************************************************************)
EXTENDS Integers, FiniteSets

CONSTANTS
    Request,     \* slots for the HTTP requests in flight
    Email,       \* addresses, as normalised by the handlers
    Word,        \* passwords without surrounding blanks
    Name,        \* what a user may change about an account
    MaxId        \* bound: the id sequence hands out this many values

ASSUME AccountsAssumption == MaxId \in Nat

VARIABLES
    users,       \* id -> row of sclera.users
    nextId,      \* next value of the sequence behind the id column
    valid,       \* tokens not expired, with the email they were issued for
    pc,          \* the next statement, or the outcome, of each request
    work         \* what each request goes on with

vars == <<users, nextId, valid, pc, work>>

\* A password as it is typed: a word, with blanks around it or without.
Password == [word : Word, padded : BOOLEAN]
Row == [email : Email, password : Password, name : Name]
Token == [id : 1..MaxId, email : Email]

\* strings.TrimSpace
Trim(p) == [p EXCEPT !.padded = FALSE]

\* A pending grant of a token, or a pending update by the owner of an id.
Grant(i, e) == [id |-> i, email |-> e]
Change(i, n) == [id |-> i, name |-> n]
Nothing == [id |-> 0]

Outcome == {"done", "taken", "noUser", "wrong", "invalid", "failed"}

TypeOK ==
    /\ nextId \in 1..(MaxId + 1)
    /\ DOMAIN users \subseteq 1..(nextId - 1)
    /\ \A i \in DOMAIN users : users[i] \in Row
    /\ valid \subseteq Token
    /\ DOMAIN pc = Request /\ DOMAIN work = Request
    /\ \A r \in Request :
           \/ pc[r] \in {"idle"} \cup Outcome /\ work[r] = Nothing
           \/ pc[r] = "grant" /\ work[r] \in Token
           \/ pc[r] = "update" /\ work[r] \in [id : 1..MaxId, name : Name]

Init ==
    /\ users = [i \in {} |-> 0]
    /\ nextId = 1
    /\ valid = {}
    /\ pc = [r \in Request |-> "idle"]
    /\ work = [r \in Request |-> Nothing]

Become(r, from, to, w) ==
    /\ pc[r] = from /\ pc' = [pc EXCEPT ![r] = to]
    /\ work' = [work EXCEPT ![r] = w]

Ids(e) == {i \in DOMAIN users : users[i].email = e}

With(i, row) ==
    [j \in DOMAIN users \cup {i} |-> IF j = i THEN row ELSE users[j]]

-----------------------------------------------------------------------------
(* Tokens                                                                  *)

\* CreateToken, after the statement that found or made the account.
IssueToken(r) ==
    /\ pc[r] = "grant"
    /\ valid' = valid \cup {work[r]}
    /\ Become(r, "grant", "done", Nothing)
    /\ UNCHANGED <<users, nextId>>

\* exp: 168 hours after it was made VerifyToken refuses a token.
ExpireToken(t) ==
    /\ valid' = valid \ {t}
    /\ UNCHANGED <<users, nextId, pc, work>>

-----------------------------------------------------------------------------
(* Registration and login                                                  *)

\* Mutant: the new row takes the lowest free id.
InsertReusing(e, p, n) ==
    LET i == CHOOSE i \in 1..nextId :
                 i \notin DOMAIN users /\ \A j \in 1..(i - 1) : j \in DOMAIN users
    IN  users' = With(i, [email |-> e, password |-> p, name |-> n])

\* Mutant: the row takes an id the sequence has yet to hand out.
InsertEarly(e, p, n) ==
    users' = With(nextId + 1, [email |-> e, password |-> p, name |-> n])

\* The new row takes the value the sequence hands out.
Insert(e, p, n) ==
    users' = With(nextId, [email |-> e, password |-> p, name |-> n])

\* Mutant: the statement has no ON CONFLICT and the column no UNIQUE.
RegisterAnyway(r, e, p, n) ==
    /\ nextId <= MaxId /\ nextId' = nextId + 1
    /\ Insert(e, p, n)
    /\ Become(r, "idle", "grant", Grant(nextId, e))
    /\ UNCHANGED valid

\* Mutant: that nothing was inserted goes unnoticed, and a token is made.
RegisterUnnoticed(r, e, p, n) ==
    /\ nextId <= MaxId /\ nextId' = nextId + 1
    /\ IF Ids(e) = {} THEN Insert(e, Trim(p), n) ELSE UNCHANGED users
    /\ Become(r, "idle", "grant", Grant(nextId, e))
    /\ UNCHANGED valid

\* INSERT ... ON CONFLICT (email) DO NOTHING RETURNING id.  The sequence moves
\* on even when nothing is inserted.
Register(r, e, p, n) ==
    /\ nextId <= MaxId /\ nextId' = nextId + 1
    /\ \/ /\ Ids(e) = {}
          /\ Insert(e, Trim(p), n)
          /\ Become(r, "idle", "grant", Grant(nextId, e))
       \/ /\ Ids(e) # {}
          /\ Become(r, "idle", "taken", Nothing)
          /\ UNCHANGED users
    /\ UNCHANGED valid

\* SELECT id, password, and the comparison with the password given.
Login(r, e, p) ==
    /\ \/ /\ Ids(e) = {} /\ Become(r, "idle", "noUser", Nothing)
       \/ \E i \in Ids(e) :
              \/ /\ users[i].password = Trim(p)
                 /\ Become(r, "idle", "grant", Grant(i, e))
              \/ /\ users[i].password # Trim(p)
                 /\ Become(r, "idle", "wrong", Nothing)
    /\ UNCHANGED <<users, nextId, valid>>

\* SELECT id for the email whose one-time code has just been verified.
Identify(r, e) ==
    /\ \/ Ids(e) = {} /\ Become(r, "idle", "noUser", Nothing)
       \/ \E i \in Ids(e) : Become(r, "idle", "grant", Grant(i, e))
    /\ UNCHANGED <<users, nextId, valid>>

-----------------------------------------------------------------------------
(* What the holder of a token may do                                       *)

\* SELECT password for the id of the token, then the checks of the form: the
\* password given must be the stored one, the other fields must be filled in.
FetchPassword(r, i, p, n) ==
    /\ \/ /\ i \notin DOMAIN users /\ Become(r, "idle", "noUser", Nothing)
       \/ /\ i \in DOMAIN users
          /\ \/ /\ users[i].password = Trim(p)
                /\ Become(r, "idle", "update", Change(i, n))
             \/ /\ users[i].password # Trim(p)
                /\ Become(r, "idle", "wrong", Nothing)
             \/ Become(r, "idle", "invalid", Nothing)
    /\ UNCHANGED <<users, nextId, valid>>

\* Mutant: the update puts a missing row back.
UpdateOrInsert(r) ==
    /\ pc[r] = "update"
    /\ users' = With(work[r].id,
                     [email |-> CHOOSE e \in Email : TRUE,
                      password |-> CHOOSE p \in Password : TRUE,
                      name |-> work[r].name])
    /\ Become(r, "update", "done", Nothing)
    /\ UNCHANGED <<nextId, valid>>

\* UPDATE name and topics of the row with that id, if it is still there.
UpdateProfile(r) ==
    /\ pc[r] = "update"
    /\ \/ /\ work[r].id \in DOMAIN users
          /\ users' = [users EXCEPT ![work[r].id].name = work[r].name]
          /\ Become(r, "update", "done", Nothing)
       \/ /\ work[r].id \notin DOMAIN users
          /\ Become(r, "update", "noUser", Nothing)
          /\ UNCHANGED users
    /\ UNCHANGED <<nextId, valid>>

\* UPDATE password: hashed as it was typed.
SetPassword(r, i, p) ==
    /\ \/ /\ i \in DOMAIN users
          /\ users' = [users EXCEPT ![i].password = p]
          /\ Become(r, "idle", "done", Nothing)
       \/ /\ i \notin DOMAIN users
          /\ Become(r, "idle", "noUser", Nothing)
          /\ UNCHANGED users
    /\ UNCHANGED <<nextId, valid>>

\* DELETE.  The cookie is deleted as well, the token stays valid.
DeleteUser(r, i) ==
    /\ \/ /\ i \in DOMAIN users
          /\ users' = [j \in DOMAIN users \ {i} |-> users[j]]
          /\ Become(r, "idle", "done", Nothing)
       \/ /\ i \notin DOMAIN users
          /\ Become(r, "idle", "noUser", Nothing)
          /\ UNCHANGED users
    /\ UNCHANGED <<nextId, valid>>

-----------------------------------------------------------------------------

\* The connection to the database fails, or the browser has left and the
\* context of the request is cancelled, between two statements.
Abandon(r) ==
    /\ pc[r] \in {"grant", "update"}
    /\ Become(r, pc[r], "failed", Nothing)
    /\ UNCHANGED <<users, nextId, valid>>

\* The response is written; the slot is free for another request.
Finish(r) ==
    /\ pc[r] \in Outcome
    /\ Become(r, pc[r], "idle", Nothing)
    /\ UNCHANGED <<users, nextId, valid>>

\* The middleware lets a request through for the id of a valid token.
Authorised(r) ==
    \E t \in valid :
        \/ DeleteUser(r, t.id)
        \/ \E p \in Password :
               \/ SetPassword(r, t.id, p)
               \/ \E n \in Name : FetchPassword(r, t.id, p, n)

Public(r) ==
    \E e \in Email :
        \/ Identify(r, e)
        \/ \E p \in Password :
               \/ Login(r, e, p)
               \/ \E n \in Name : Register(r, e, p, n)

Next ==
    \/ \E t \in valid : ExpireToken(t)
    \/ \E r \in Request :
           \/ Public(r) \/ Authorised(r)
           \/ IssueToken(r) \/ UpdateProfile(r) \/ Abandon(r) \/ Finish(r)

Spec == Init /\ [][Next]_vars

-----------------------------------------------------------------------------
(* Properties                                                              *)

\* However registrations overlap, an address has one account at most: the
\* check and the insertion are one statement (userHandler.go lines 39 to 51).
OneAccountPerEmail ==
    \A i, j \in DOMAIN users : users[i].email = users[j].email => i = j

\* A token never comes to work for somebody else's account, although nothing
\* revokes it when its account is deleted and although the statement that
\* found the id may be long past when it is issued.
TokenNamesItsUser ==
    \A t \in valid : t.id \in DOMAIN users => users[t.id].email = t.email

\* A deleted account stays deleted, whatever updates of it were under way
\* (userHandler.go lines 114 to 145).
DeletedForGood ==
    [][\A i \in 1..(nextId - 1) : i \notin DOMAIN users => i \notin DOMAIN users']_vars

\* The table and the requests as module Registry sees them.
Owner == [i \in DOMAIN users |-> users[i].email]
Retired == (1..(nextId - 1)) \ DOMAIN users
Promised == {work[r] : r \in {q \in Request : pc[q] = "grant"}}

\* What a client may rely on without knowing the statements: ids belong to one
\* account for good, and whoever gets a token owned its id when it proved who
\* it was (module Registry).  The sequence and the two-step handlers show none
\* of this: an id is spent by a refused registration, the row may be gone by
\* the time the token is made, and two requests may earn the same token.
Ledger == INSTANCE Registry WITH
    Id <- 1..MaxId, owner <- Owner, retired <- Retired,
    promised <- Promised, tokens <- valid

ImplementsRegistry == Ledger!Spec

\* "Choose a new password for your account" (updatePassword.templ line 34):
\* whatever password an account has, there is one to type that logs it in.
ChosenPasswordWorks ==
    \A i \in DOMAIN users : \E p \in Password : Trim(p) = users[i].password

=============================================================================
