--------------------------- MODULE Accounts_proofs ---------------------------
(***************************************************************************)
(* Proofs about Accounts, for any addresses, passwords, names and requests *)
(* and any bound on the ids.                                               *)
(*                                                                         *)
(* Two things keep tokens and accounts together although nothing connects  *)
(* them: ids are never handed out twice, and no statement changes the      *)
(* address of a row or brings a row back.  So whatever a token, a pending  *)
(* grant or a pending update says of an id handed out before stays true,   *)
(* or the account is gone.                                                 *)
(***************************************************************************)
EXTENDS Accounts, TLAPS

\* What a token, made or about to be made, is worth: its id has been handed
\* out, and the row that has it, if any, has its address.
Holds(t) ==
    /\ t.id \in 1..(nextId - 1)
    /\ t.id \in DOMAIN users => users[t.id].email = t.email

TokensHold == \A t \in valid : Holds(t)

\* The same for the requests between two statements.
WorkHolds ==
    \A r \in Request :
        /\ pc[r] = "grant" => Holds(work[r])
        /\ pc[r] = "update" => work[r].id \in 1..(nextId - 1)

IInv == TypeOK /\ OneAccountPerEmail /\ TokensHold /\ WorkHolds

\* What no step does to the ids handed out before it.
Lasting ==
    /\ nextId' \in Nat /\ nextId' >= nextId
    /\ \A i \in 1..(nextId - 1) :
           i \in DOMAIN users' =>
               i \in DOMAIN users /\ users'[i].email = users[i].email

\* The part of IInv that is about the table.
TableOK ==
    /\ nextId \in 1..(MaxId + 1)
    /\ DOMAIN users \subseteq 1..(nextId - 1)
    /\ \A i \in DOMAIN users : users[i] \in Row
    /\ OneAccountPerEmail

\* The part of TypeOK that is about one slot.
SlotOK(p, w) ==
    \/ p \in {"idle"} \cup Outcome /\ w = Nothing
    \/ p = "grant" /\ w \in Token
    \/ p = "update" /\ w \in [id : 1..MaxId, name : Name]

-----------------------------------------------------------------------------
(* The table                                                               *)

LEMMA UnchangedTable ==
    ASSUME IInv, users' = users, nextId' = nextId
    PROVE  TableOK' /\ Lasting
  BY AccountsAssumption
  DEF IInv, TypeOK, OneAccountPerEmail, TableOK, Lasting

\* The password is stored trimmed, and a row has the fields of Row.
LEMMA NewRow ==
    ASSUME NEW e \in Email, NEW p \in Password, NEW n \in Name
    PROVE  [email |-> e, password |-> Trim(p), name |-> n] \in Row
<1>1. Trim(p) \in Password
  BY DEF Trim, Password
<1>2. QED
  BY <1>1 DEF Row

\* The row that registration adds has a new id and an address nobody has.
LEMMA RegisterTable ==
    ASSUME IInv, NEW r \in Request,
           NEW e \in Email, NEW p \in Password, NEW n \in Name,
           Register(r, e, p, n)
    PROVE  TableOK' /\ Lasting
<1>1. /\ nextId \in 1..MaxId /\ nextId' = nextId + 1
      /\ MaxId \in Nat
      /\ DOMAIN users \subseteq 1..(nextId - 1)
  BY AccountsAssumption DEF IInv, TypeOK, Register
<1>2. CASE users' = users
  BY <1>1, <1>2 DEF IInv, TypeOK, OneAccountPerEmail, TableOK, Lasting
<1>3. CASE Ids(e) = {} /\ Insert(e, Trim(p), n)
  <2> DEFINE row == [email |-> e, password |-> Trim(p), name |-> n]
  <2>1. row \in Row /\ row.email = e
    BY NewRow
  <2> HIDE DEF row
  <2>2. users' = [j \in DOMAIN users \cup {nextId} |->
                      IF j = nextId THEN row ELSE users[j]]
    BY <1>3 DEF Insert, With, row
  <2>3. nextId \notin DOMAIN users
    BY <1>1
  <2>4. \A i \in DOMAIN users : users[i].email # e
    BY <1>3 DEF Ids
  <2>5. /\ DOMAIN users' = DOMAIN users \cup {nextId}
        /\ users'[nextId] = row
        /\ \A j \in DOMAIN users : users'[j] = users[j]
    BY <2>2, <2>3
  <2>6. DOMAIN users' \subseteq 1..(nextId' - 1) /\ nextId' \in 1..(MaxId + 1)
    BY <1>1, <2>5
  <2>7. \A i \in DOMAIN users' : users'[i] \in Row
    BY <2>1, <2>5 DEF IInv, TypeOK
  <2>8. OneAccountPerEmail'
    BY <2>1, <2>4, <2>5 DEF IInv, OneAccountPerEmail
  <2>9. Lasting
    BY <1>1, <2>5 DEF Lasting
  <2>10. QED
    BY <2>6, <2>7, <2>8, <2>9 DEF TableOK
<1>4. QED
  BY <1>2, <1>3 DEF Register

\* A row replaced by one with the same address.
LEMMA ReplaceTable ==
    ASSUME IInv, NEW i \in DOMAIN users, NEW row \in Row,
           row.email = users[i].email,
           users' = [users EXCEPT ![i] = row], nextId' = nextId
    PROVE  TableOK' /\ Lasting
<1>1. /\ DOMAIN users' = DOMAIN users
      /\ \A j \in DOMAIN users :
             users'[j] \in Row /\ users'[j].email = users[j].email
  BY DEF IInv, TypeOK
<1>2. QED
  BY <1>1, AccountsAssumption
  DEF IInv, TypeOK, OneAccountPerEmail, TableOK, Lasting

LEMMA DeleteTable ==
    ASSUME IInv, NEW i, users' = [j \in DOMAIN users \ {i} |-> users[j]],
           nextId' = nextId
    PROVE  TableOK' /\ Lasting
  BY AccountsAssumption
  DEF IInv, TypeOK, OneAccountPerEmail, TableOK, Lasting

-----------------------------------------------------------------------------
(* The slots                                                               *)

\* What held of an id keeps holding.
LEMMA StillHolds ==
    ASSUME IInv, Lasting, NEW t, Holds(t)
    PROVE  Holds(t)'
  BY DEF IInv, TypeOK, Lasting, Holds

\* A step that takes one slot on and issues no token.
LEMMA SlotStep ==
    ASSUME IInv, TableOK', Lasting, valid' \subseteq valid,
           NEW r \in Request, NEW from, NEW to, NEW w,
           Become(r, from, to, w), SlotOK(to, w),
           to = "grant" => Holds(w)',
           to = "update" => w.id \in 1..(nextId' - 1)
    PROVE  IInv'
<1>1. /\ DOMAIN pc' = Request /\ DOMAIN work' = Request
      /\ pc'[r] = to /\ work'[r] = w
      /\ \A q \in Request \ {r} : pc'[q] = pc[q] /\ work'[q] = work[q]
  BY DEF Become, IInv, TypeOK
<1>2. TypeOK'
  <2>1. \A q \in Request : SlotOK(pc'[q], work'[q])
    BY <1>1 DEF IInv, TypeOK, SlotOK
  <2>2. QED
    BY <1>1, <2>1 DEF IInv, TypeOK, TableOK, SlotOK
<1>3. TokensHold'
  BY StillHolds DEF IInv, TokensHold
<1>4. WorkHolds'
  <2>1. ASSUME NEW q \in Request \ {r}, pc[q] = "grant"
        PROVE  Holds(work[q])'
    <3>1. PICK t : t = work[q]
      OBVIOUS
    <3>2. Holds(t)'
      BY <2>1, <3>1, StillHolds DEF IInv, WorkHolds
    <3>3. work'[q] = t
      BY <1>1, <3>1
    <3>4. QED
      BY <3>2, <3>3 DEF Holds
  <2>2. to = "grant" => Holds(work[r])'
    BY <1>1 DEF Holds
  <2>3. \A q \in Request : pc'[q] = "update" => work'[q].id \in 1..(nextId' - 1)
    BY <1>1 DEF IInv, TypeOK, WorkHolds, Lasting
  <2>4. QED
    BY <1>1, <2>1, <2>2, <2>3 DEF WorkHolds
<1>5. QED
  BY <1>2, <1>3, <1>4 DEF IInv, TableOK

\* A step that leaves the slots alone and issues no token.
LEMMA ExpireInv ==
    ASSUME IInv, NEW t \in valid, ExpireToken(t)
    PROVE  IInv' /\ Lasting
<1>1. TableOK' /\ Lasting
  BY UnchangedTable DEF ExpireToken
<1>2. QED
  BY <1>1
  DEF ExpireToken, IInv, TypeOK, OneAccountPerEmail, TokensHold, WorkHolds, Holds

\* A token is issued for what the request found out before.
LEMMA IssueInv ==
    ASSUME IInv, NEW r \in Request, IssueToken(r)
    PROVE  IInv' /\ Lasting
<1>1. TableOK' /\ Lasting
  BY UnchangedTable DEF IssueToken
<1>2. PICK t : t = work[r] /\ t \in Token /\ Holds(t)
  BY DEF IssueToken, Become, IInv, TypeOK, WorkHolds, Outcome
<1>3. /\ DOMAIN pc' = Request /\ DOMAIN work' = Request
      /\ pc'[r] = "done" /\ work'[r] = Nothing
      /\ \A q \in Request \ {r} : pc'[q] = pc[q] /\ work'[q] = work[q]
      /\ valid' = valid \cup {t}
      /\ users' = users /\ nextId' = nextId
  BY <1>2 DEF IssueToken, Become, IInv, TypeOK
<1>4. TypeOK'
  <2>1. \A q \in Request : SlotOK(pc'[q], work'[q])
    BY <1>3 DEF IInv, TypeOK, SlotOK, Outcome
  <2>2. QED
    BY <1>1, <1>2, <1>3, <2>1 DEF IInv, TypeOK, TableOK, SlotOK
<1>5. TokensHold'
  BY <1>2, <1>3 DEF IInv, TokensHold, Holds
<1>6. WorkHolds'
  BY <1>3 DEF IInv, WorkHolds, Holds
<1>7. QED
  BY <1>1, <1>4, <1>5, <1>6 DEF IInv, TableOK

-----------------------------------------------------------------------------
(* The steps                                                               *)

\* An account that was found holds for the grant that goes on with it.
LEMMA FoundInv ==
    ASSUME IInv, NEW r \in Request, NEW e \in Email, NEW i \in Ids(e),
           Become(r, "idle", "grant", Grant(i, e)),
           UNCHANGED <<users, nextId, valid>>
    PROVE  IInv' /\ Lasting
<1>1. TableOK' /\ Lasting
  BY UnchangedTable
<1>2. /\ i \in DOMAIN users /\ users[i].email = e
      /\ i \in 1..(nextId - 1) /\ i \in 1..MaxId
  BY AccountsAssumption DEF Ids, IInv, TypeOK
<1>3. Grant(i, e) \in Token /\ Grant(i, e).id = i /\ Grant(i, e).email = e
  BY <1>2 DEF Grant, Token
<1>4. Holds(Grant(i, e))'
  BY <1>2, <1>3 DEF Holds
<1>5. QED
  BY <1>1, <1>3, <1>4, SlotStep DEF SlotOK

\* A step that ends a request without a token.
LEMMA EndInv ==
    ASSUME IInv, TableOK', Lasting, valid' = valid, NEW r \in Request,
           NEW from, NEW to \in Outcome \cup {"idle"},
           Become(r, from, to, Nothing)
    PROVE  IInv'
  BY SlotStep DEF SlotOK, Outcome

LEMMA RegisterInv ==
    ASSUME IInv, NEW r \in Request,
           NEW e \in Email, NEW p \in Password, NEW n \in Name,
           Register(r, e, p, n)
    PROVE  IInv' /\ Lasting
<1>1. TableOK' /\ Lasting /\ valid' = valid
  BY RegisterTable DEF Register
<1>2. CASE Become(r, "idle", "taken", Nothing)
  BY <1>1, <1>2, EndInv DEF Outcome
<1>3. CASE Insert(e, Trim(p), n) /\ Become(r, "idle", "grant", Grant(nextId, e))
  <2>1. nextId \in 1..MaxId /\ nextId' = nextId + 1
    BY AccountsAssumption DEF Register, IInv, TypeOK
  <2>2. PICK t : t = Grant(nextId, e)
    OBVIOUS
  <2>3. t \in Token /\ t.id = nextId /\ t.email = e
    BY <2>1, <2>2 DEF Grant, Token
  <2>4. users'[nextId].email = e
    BY <1>3 DEF Insert, With
  <2>5. Holds(t)'
    BY <2>1, <2>3, <2>4 DEF Holds
  <2>6. QED
    BY <1>1, <1>3, <2>2, <2>3, <2>5, SlotStep DEF SlotOK
<1>4. QED
  BY <1>1, <1>2, <1>3 DEF Register

LEMMA LoginInv ==
    ASSUME IInv, NEW r \in Request, NEW e \in Email, NEW p,
           Login(r, e, p) \/ Identify(r, e)
    PROVE  IInv' /\ Lasting
<1>1. TableOK' /\ Lasting /\ UNCHANGED <<users, nextId, valid>>
  BY UnchangedTable DEF Login, Identify
<1>2. ASSUME NEW i \in Ids(e), Become(r, "idle", "grant", Grant(i, e))
      PROVE  IInv'
  BY <1>1, <1>2, FoundInv
<1>3. ASSUME NEW to \in {"noUser", "wrong"}, Become(r, "idle", to, Nothing)
      PROVE  IInv'
  BY <1>1, <1>3, EndInv DEF Outcome
<1>4. QED
  BY <1>1, <1>2, <1>3 DEF Login, Identify

LEMMA FetchInv ==
    ASSUME IInv, NEW r \in Request, NEW i, NEW p \in Password, NEW n \in Name,
           FetchPassword(r, i, p, n)
    PROVE  IInv' /\ Lasting
<1>1. TableOK' /\ Lasting /\ UNCHANGED <<users, nextId, valid>>
  BY UnchangedTable DEF FetchPassword
<1>2. ASSUME i \in DOMAIN users, Become(r, "idle", "update", Change(i, n))
      PROVE  IInv'
  <2>1. i \in 1..(nextId - 1) /\ i \in 1..MaxId
    BY <1>2, AccountsAssumption DEF IInv, TypeOK
  <2>2. /\ Change(i, n) \in [id : 1..MaxId, name : Name]
        /\ Change(i, n).id = i
    BY <2>1 DEF Change
  <2>3. QED
    BY <1>1, <1>2, <2>1, <2>2, SlotStep DEF SlotOK
<1>3. ASSUME NEW to \in {"noUser", "wrong", "invalid"},
             Become(r, "idle", to, Nothing)
      PROVE  IInv'
  BY <1>1, <1>3, EndInv DEF Outcome
<1>4. QED
  BY <1>1, <1>2, <1>3 DEF FetchPassword

LEMMA UpdateInv ==
    ASSUME IInv, NEW r \in Request, UpdateProfile(r)
    PROVE  IInv' /\ Lasting
<1>1. PICK i : i = work[r].id
  OBVIOUS
<1>2. PICK n \in Name : n = work[r].name
  BY DEF UpdateProfile, Become, IInv, TypeOK, Outcome
<1>3. TableOK' /\ Lasting /\ valid' = valid
  <2>1. CASE i \in DOMAIN users
    <3> DEFINE row == [users[i] EXCEPT !.name = n]
    <3>1. row \in Row /\ row.email = users[i].email
      BY <2>1 DEF IInv, TypeOK, Row
    <3>2. users' = [users EXCEPT ![i] = row] /\ UNCHANGED <<nextId, valid>>
      BY <1>1, <1>2, <2>1 DEF UpdateProfile
    <3> HIDE DEF row
    <3>3. QED
      BY <2>1, <3>1, <3>2, ReplaceTable
  <2>2. CASE i \notin DOMAIN users
    BY <1>1, <2>2, UnchangedTable DEF UpdateProfile
  <2>3. QED
    BY <2>1, <2>2
<1>4. PICK to \in {"done", "noUser"} : Become(r, "update", to, Nothing)
  BY DEF UpdateProfile
<1>5. QED
  BY <1>3, <1>4, EndInv DEF Outcome

LEMMA PasswordInv ==
    ASSUME IInv, NEW r \in Request, NEW i, NEW p \in Password,
           SetPassword(r, i, p)
    PROVE  IInv' /\ Lasting
<1>1. TableOK' /\ Lasting /\ valid' = valid
  <2>1. CASE i \in DOMAIN users
    <3> DEFINE row == [users[i] EXCEPT !.password = p]
    <3>1. row \in Row /\ row.email = users[i].email
      BY <2>1 DEF IInv, TypeOK, Row
    <3>2. users' = [users EXCEPT ![i] = row] /\ UNCHANGED <<nextId, valid>>
      BY <2>1 DEF SetPassword
    <3> HIDE DEF row
    <3>3. QED
      BY <2>1, <3>1, <3>2, ReplaceTable
  <2>2. CASE i \notin DOMAIN users
    BY <2>2, UnchangedTable DEF SetPassword
  <2>3. QED
    BY <2>1, <2>2
<1>2. PICK to \in {"done", "noUser"} : Become(r, "idle", to, Nothing)
  BY DEF SetPassword
<1>3. QED
  BY <1>1, <1>2, EndInv DEF Outcome

LEMMA DeleteInv ==
    ASSUME IInv, NEW r \in Request, NEW i, DeleteUser(r, i)
    PROVE  IInv' /\ Lasting
<1>1. TableOK' /\ Lasting /\ valid' = valid
  BY DeleteTable, UnchangedTable DEF DeleteUser
<1>2. PICK to \in {"done", "noUser"} : Become(r, "idle", to, Nothing)
  BY DEF DeleteUser
<1>3. QED
  BY <1>1, <1>2, EndInv DEF Outcome

LEMMA LeaveInv ==
    ASSUME IInv, NEW r \in Request, Abandon(r) \/ Finish(r)
    PROVE  IInv' /\ Lasting
<1>1. TableOK' /\ Lasting /\ valid' = valid
  BY UnchangedTable DEF Abandon, Finish
<1>2. PICK to \in {"failed", "idle"} : Become(r, pc[r], to, Nothing)
  BY DEF Abandon, Finish
<1>3. QED
  BY <1>1, <1>2, EndInv DEF Outcome

LEMMA InitInv == Init => IInv
  BY AccountsAssumption
  DEF Init, IInv, TypeOK, OneAccountPerEmail, TokensHold, WorkHolds, Outcome

LEMMA StepInv == IInv /\ [Next]_vars => IInv' /\ Lasting
<1> SUFFICES ASSUME IInv, [Next]_vars PROVE IInv' /\ Lasting
  OBVIOUS
<1>1. ASSUME NEW r \in Request, Public(r) PROVE IInv' /\ Lasting
  <2>1. PICK e \in Email :
            \/ Identify(r, e)
            \/ \E p \in Password :
                   Login(r, e, p) \/ \E n \in Name : Register(r, e, p, n)
    BY <1>1 DEF Public
  <2>2. CASE Identify(r, e)
    BY <2>2, LoginInv
  <2>3. ASSUME NEW p \in Password, Login(r, e, p) PROVE IInv' /\ Lasting
    BY <2>3, LoginInv
  <2>4. QED
    BY <2>1, <2>2, <2>3, RegisterInv
<1>2. ASSUME NEW r \in Request, Authorised(r) PROVE IInv' /\ Lasting
  BY <1>2, FetchInv, PasswordInv, DeleteInv DEF Authorised
<1>3. CASE UNCHANGED vars
  <2>1. TableOK' /\ Lasting
    BY <1>3, UnchangedTable DEF vars
  <2>2. QED
    BY <1>3, <2>1
    DEF vars, IInv, TypeOK, OneAccountPerEmail, TokensHold, WorkHolds, Holds
<1>4. QED
  BY <1>1, <1>2, <1>3, ExpireInv, IssueInv, UpdateInv, LeaveInv DEF Next

-----------------------------------------------------------------------------
(* Theorems                                                                *)

\* The states of Accounts have their types.
THEOREM TypeCorrect == Spec => []TypeOK
<1>1. IInv => TypeOK
  BY DEF IInv
<1>2. QED
  BY <1>1, InitInv, StepInv, PTL DEF Spec

\* However registrations overlap, no address ever has two accounts: the check
\* and the insertion are one statement (userHandler.go lines 39 to 51).
THEOREM EmailsUnique == Spec => []OneAccountPerEmail
<1>1. IInv => OneAccountPerEmail
  BY DEF IInv
<1>2. QED
  BY <1>1, InitInv, StepInv, PTL DEF Spec

\* A token never comes to work for somebody else's account, however long ago
\* the account it was issued for was deleted (jwtManagement.go).
THEOREM TokensKeepTheirUser == Spec => []TokenNamesItsUser
<1>1. IInv => TokenNamesItsUser
  BY DEF IInv, TokensHold, Holds, TokenNamesItsUser
<1>2. QED
  BY <1>1, InitInv, StepInv, PTL DEF Spec

\* No step brings a deleted account back (userHandler.go lines 114 to 145).
THEOREM DeletionIsFinal == Spec => DeletedForGood
<1>1. Lasting => \A i \in 1..(nextId - 1) :
                    i \notin DOMAIN users => i \notin DOMAIN users'
  BY DEF Lasting
<1>2. IInv /\ [Next]_vars =>
          [\A i \in 1..(nextId - 1) :
               i \notin DOMAIN users => i \notin DOMAIN users']_vars
  BY <1>1, StepInv
<1>3. QED
  BY <1>2, InitInv, StepInv, PTL DEF Spec, DeletedForGood

-----------------------------------------------------------------------------
(* Accounts implements Registry                                            *)

\* Which promises a step of one slot makes or ends.  Two slots may have earned
\* the same token, so a promise may outlive the slot that goes on.
LEMMA PromiseStep ==
    ASSUME TypeOK, NEW r \in Request, NEW from, NEW to, NEW w,
           Become(r, from, to, w)
    PROVE  /\ from # "grant" /\ to # "grant" => Promised' = Promised
           /\ from # "grant" /\ to = "grant" => Promised' = Promised \cup {w}
           /\ from = "grant" /\ to # "grant" =>
                  /\ work[r] \in Promised
                  /\ Promised' \in {Promised, Promised \ {work[r]}}
<1>1. /\ pc[r] = from /\ pc'[r] = to /\ work'[r] = w
      /\ \A q \in Request \ {r} : pc'[q] = pc[q] /\ work'[q] = work[q]
  BY DEF Become, TypeOK
<1> DEFINE Rest == {work[q] : q \in {s \in Request \ {r} : pc[s] = "grant"}}
<1>2. Promised = IF from = "grant" THEN Rest \cup {work[r]} ELSE Rest
  BY <1>1 DEF Promised
<1>3. Promised' = IF to = "grant" THEN Rest \cup {w} ELSE Rest
  BY <1>1 DEF Promised
<1> HIDE DEF Rest
<1>4. QED
  BY <1>2, <1>3

\* What leaves the table and its addresses alone.
LEMMA SameOwners ==
    ASSUME IInv, nextId' = nextId,
           \/ users' = users
           \/ \E i \in DOMAIN users, row \in Row :
                  row.email = users[i].email /\ users' = [users EXCEPT ![i] = row]
    PROVE  Owner' = Owner /\ Retired' = Retired
<1>1. /\ DOMAIN users' = DOMAIN users
      /\ \A j \in DOMAIN users : users'[j].email = users[j].email
  OBVIOUS
<1>2. QED
  BY <1>1 DEF Owner, Retired

LEMMA RegisterImplements ==
    ASSUME IInv, NEW r \in Request,
           NEW e \in Email, NEW p \in Password, NEW n \in Name,
           Register(r, e, p, n)
    PROVE  Ledger!Next
<1>1. /\ nextId \in 1..MaxId /\ nextId' = nextId + 1 /\ valid' = valid
      /\ DOMAIN users \subseteq 1..(nextId - 1) /\ nextId \notin DOMAIN users
  BY AccountsAssumption DEF IInv, TypeOK, Register
<1>2. DOMAIN Owner = DOMAIN users /\ nextId \notin Retired
  BY <1>1 DEF Owner, Retired
<1>3. CASE users' = users /\ Become(r, "idle", "taken", Nothing)
  <2>1. Owner' = Owner /\ Retired' = Retired \cup {nextId}
    BY <1>1, <1>3 DEF Owner, Retired
  <2>2. Promised' = Promised
    BY <1>3, PromiseStep DEF IInv
  <2>3. Ledger!Skip(nextId)
    BY <1>1, <1>2, <2>1, <2>2 DEF Ledger!Skip
  <2>4. QED
    BY <1>1, <2>3 DEF Ledger!Next
<1>4. CASE /\ Ids(e) = {} /\ Insert(e, Trim(p), n)
           /\ Become(r, "idle", "grant", Grant(nextId, e))
  <2> DEFINE row == [email |-> e, password |-> Trim(p), name |-> n]
  <2>1. row.email = e
    OBVIOUS
  <2> HIDE DEF row
  <2>2. users' = [j \in DOMAIN users \cup {nextId} |->
                      IF j = nextId THEN row ELSE users[j]]
    BY <1>4 DEF Insert, With, row
  <2>3. PICK t : t = Grant(nextId, e)
    OBVIOUS
  <2>4. t \in Ledger!Token /\ t.id = nextId /\ t.email = e
    BY <1>1, <2>3 DEF Grant, Ledger!Token
  <2>5. Owner' = [i \in DOMAIN Owner \cup {t.id} |->
                      IF i = t.id THEN t.email ELSE Owner[i]]
    BY <1>2, <2>1, <2>2, <2>4 DEF Owner
  <2>6. Retired' = Retired
    BY <1>1, <2>2 DEF Retired
  <2>7. Promised' = Promised \cup {t}
    BY <1>4, <2>3, PromiseStep DEF IInv
  <2>8. \A i \in DOMAIN Owner : Owner[i] # t.email
    BY <1>4, <2>4 DEF Ids, Owner
  <2>9. Ledger!Open(t)
    BY <1>1, <1>2, <2>4, <2>5, <2>6, <2>7, <2>8 DEF Ledger!Open
  <2>10. QED
    BY <2>4, <2>9 DEF Ledger!Next
<1>5. QED
  BY <1>3, <1>4 DEF Register

\* Login and the end of a password reset promise a token to the owner.
LEMMA FoundImplements ==
    ASSUME IInv, NEW r \in Request, NEW e \in Email, NEW p,
           Login(r, e, p) \/ Identify(r, e)
    PROVE  Ledger!Next \/ UNCHANGED Ledger!vars
<1>1. UNCHANGED <<users, nextId, valid>> /\ Owner' = Owner /\ Retired' = Retired
  BY SameOwners DEF Login, Identify
<1>2. ASSUME NEW i \in Ids(e), Become(r, "idle", "grant", Grant(i, e))
      PROVE  Ledger!Next
  <2>1. i \in 1..MaxId /\ i \in DOMAIN users /\ users[i].email = e
    BY AccountsAssumption DEF Ids, IInv, TypeOK
  <2>2. PICK t : t = Grant(i, e)
    OBVIOUS
  <2>3. t \in Ledger!Token /\ t.id = i /\ t.email = e
    BY <2>1, <2>2 DEF Grant, Ledger!Token
  <2>4. Promised' = Promised \cup {t}
    BY <1>2, <2>2, PromiseStep DEF IInv
  <2>5. Ledger!Promise(t)
    BY <1>1, <2>1, <2>3, <2>4 DEF Ledger!Promise, Ledger!Owned, Owner
  <2>6. QED
    BY <2>3, <2>5 DEF Ledger!Next
<1>3. ASSUME NEW to \in {"noUser", "wrong"}, Become(r, "idle", to, Nothing)
      PROVE  UNCHANGED Ledger!vars
  BY <1>1, <1>3, PromiseStep DEF Ledger!vars, IInv
<1>4. QED
  BY <1>2, <1>3 DEF Login, Identify

\* What a token holder does closes the account or changes nothing that counts.
LEMMA AuthorisedImplements ==
    ASSUME IInv, NEW r \in Request, Authorised(r)
    PROVE  Ledger!Next \/ UNCHANGED Ledger!vars
<1>1. PICK t \in valid :
          \/ DeleteUser(r, t.id)
          \/ \E p \in Password :
                 \/ SetPassword(r, t.id, p)
                 \/ \E n \in Name : FetchPassword(r, t.id, p, n)
  BY DEF Authorised
<1>2. /\ t.id \in 1..MaxId
  BY DEF IInv, TypeOK, Token
<1>3. ASSUME NEW to \in Outcome \cup {"update"}, NEW w,
             Become(r, "idle", to, w)
      PROVE  Promised' = Promised
  BY <1>3, PromiseStep DEF IInv, Outcome
<1>4. CASE DeleteUser(r, t.id) /\ t.id \in DOMAIN users
  <2>1. /\ users' = [j \in DOMAIN users \ {t.id} |-> users[j]]
        /\ nextId' = nextId /\ valid' = valid /\ Promised' = Promised
    BY <1>3, <1>4 DEF DeleteUser, Outcome
  <2>2. t.id \in 1..(nextId - 1) /\ DOMAIN Owner = DOMAIN users
    BY <1>4 DEF IInv, TypeOK, Owner
  <2>3. Owner' = [j \in DOMAIN Owner \ {t.id} |-> Owner[j]]
    BY <2>1, <2>2 DEF Owner
  <2>4. Retired' = Retired \cup {t.id}
    BY <2>1, <2>2 DEF Retired
  <2>5. Ledger!Close(t.id)
    BY <1>4, <2>1, <2>2, <2>3, <2>4 DEF Ledger!Close
  <2>6. QED
    BY <1>2, <2>5 DEF Ledger!Next
<1>5. CASE DeleteUser(r, t.id) /\ t.id \notin DOMAIN users
  BY <1>3, <1>5, SameOwners DEF DeleteUser, Outcome, Ledger!vars
<1>6. ASSUME NEW p \in Password, SetPassword(r, t.id, p)
      PROVE  UNCHANGED Ledger!vars
  <2>1. /\ nextId' = nextId /\ valid' = valid /\ Promised' = Promised
    BY <1>3, <1>6 DEF SetPassword, Outcome
  <2>2. CASE t.id \in DOMAIN users
    <3> DEFINE row == [users[t.id] EXCEPT !.password = p]
    <3>1. row \in Row /\ row.email = users[t.id].email
      BY <2>2 DEF IInv, TypeOK, Row
    <3>2. users' = [users EXCEPT ![t.id] = row]
      BY <1>6, <2>2 DEF SetPassword
    <3> HIDE DEF row
    <3>3. QED
      BY <2>1, <2>2, <3>1, <3>2, SameOwners DEF Ledger!vars
  <2>3. CASE t.id \notin DOMAIN users
    BY <1>6, <2>1, <2>3, SameOwners DEF SetPassword, Ledger!vars
  <2>4. QED
    BY <2>2, <2>3
<1>7. ASSUME NEW p \in Password, NEW n \in Name, FetchPassword(r, t.id, p, n)
      PROVE  UNCHANGED Ledger!vars
  <2>1. UNCHANGED <<users, nextId, valid>> /\ Promised' = Promised
    BY <1>3, <1>7 DEF FetchPassword, Outcome
  <2>2. QED
    BY <2>1, SameOwners DEF Ledger!vars
<1>8. QED
  BY <1>1, <1>4, <1>5, <1>6, <1>7

LEMMA UpdateImplements ==
    ASSUME IInv, NEW r \in Request, UpdateProfile(r)
    PROVE  UNCHANGED Ledger!vars
<1>1. PICK i, n : i = work[r].id /\ n = work[r].name /\ n \in Name
  BY DEF UpdateProfile, Become, IInv, TypeOK, Outcome
<1>2. PICK to \in {"done", "noUser"} : Become(r, "update", to, Nothing)
  BY DEF UpdateProfile
<1>3. UNCHANGED <<nextId, valid>> /\ Promised' = Promised
  BY <1>2, PromiseStep DEF UpdateProfile, IInv
<1>4. CASE i \in DOMAIN users
  <2> DEFINE row == [users[i] EXCEPT !.name = n]
  <2>1. row \in Row /\ row.email = users[i].email
    BY <1>1, <1>4 DEF IInv, TypeOK, Row
  <2>2. users' = [users EXCEPT ![i] = row]
    BY <1>1, <1>4 DEF UpdateProfile
  <2> HIDE DEF row
  <2>3. QED
    BY <1>3, <1>4, <2>1, <2>2, SameOwners DEF Ledger!vars
<1>5. CASE i \notin DOMAIN users
  BY <1>1, <1>3, <1>5, SameOwners DEF UpdateProfile, Ledger!vars
<1>6. QED
  BY <1>4, <1>5

\* A promise is kept by IssueToken, and dropped by Abandon.
LEMMA PromiseEnds ==
    ASSUME IInv, NEW r \in Request,
           IssueToken(r) \/ Abandon(r) \/ Finish(r)
    PROVE  Ledger!Next \/ UNCHANGED Ledger!vars
<1>1. Owner' = Owner /\ Retired' = Retired
  BY SameOwners DEF IssueToken, Abandon, Finish
<1>2. CASE IssueToken(r)
  <2>1. PICK t : t = work[r] /\ t \in Token
    BY <1>2 DEF IssueToken, Become, IInv, TypeOK, Outcome
  <2>2. t \in Promised /\ Promised' \in {Promised, Promised \ {t}}
    BY <1>2, <2>1, PromiseStep DEF IssueToken, IInv
  <2>3. Ledger!Issue(t)
    BY <1>1, <1>2, <2>1, <2>2 DEF IssueToken, Ledger!Issue
  <2>4. QED
    BY <2>1, <2>3 DEF Ledger!Next, Ledger!Token, Token
<1>3. CASE Abandon(r) /\ pc[r] = "grant"
  <2>1. PICK t : t = work[r] /\ t \in Token
    BY <1>3 DEF IInv, TypeOK, Outcome
  <2>2. t \in Promised /\ Promised' \in {Promised, Promised \ {t}}
    BY <1>3, <2>1, PromiseStep DEF Abandon, IInv
  <2>3. Ledger!Drop(t) \/ UNCHANGED Ledger!vars
    BY <1>1, <1>3, <2>2 DEF Abandon, Ledger!Drop, Ledger!vars
  <2>4. QED
    BY <2>1, <2>3 DEF Ledger!Next, Ledger!Token, Token
<1>4. CASE (Abandon(r) /\ pc[r] # "grant") \/ Finish(r)
  <2>1. Promised' = Promised /\ valid' = valid
    BY <1>4, PromiseStep DEF Abandon, Finish, IInv, Outcome
  <2>2. QED
    BY <1>1, <2>1 DEF Ledger!vars
<1>5. QED
  BY <1>2, <1>3, <1>4

LEMMA StepRegistry == IInv /\ [Next]_vars => [Ledger!Next]_(Ledger!vars)
<1> SUFFICES ASSUME IInv, [Next]_vars
             PROVE  Ledger!Next \/ UNCHANGED Ledger!vars
  OBVIOUS
<1>1. ASSUME NEW t \in valid, ExpireToken(t) PROVE Ledger!Next
  <2>1. t \in Ledger!Token
    BY DEF IInv, TypeOK, Token, Ledger!Token
  <2>2. Owner' = Owner /\ Retired' = Retired /\ Promised' = Promised
    BY <1>1, SameOwners DEF ExpireToken, Promised
  <2>3. Ledger!Expire(t)
    BY <1>1, <2>2 DEF ExpireToken, Ledger!Expire
  <2>4. QED
    BY <2>1, <2>3 DEF Ledger!Next
<1>2. ASSUME NEW r \in Request, Public(r)
      PROVE  Ledger!Next \/ UNCHANGED Ledger!vars
  <2>1. PICK e \in Email :
            \/ Identify(r, e)
            \/ \E p \in Password :
                   Login(r, e, p) \/ \E n \in Name : Register(r, e, p, n)
    BY <1>2 DEF Public
  <2>2. QED
    BY <2>1, FoundImplements, RegisterImplements
<1>3. CASE UNCHANGED vars
  BY <1>3 DEF vars, Ledger!vars, Owner, Retired, Promised
<1>4. QED
  BY <1>1, <1>2, <1>3, AuthorisedImplements, UpdateImplements, PromiseEnds
  DEF Next

\* The statements, the sequence and the signed tokens together do what Registry
\* promises: ids for good, one account per address, tokens only for those who
\* owned their id when they asked.
THEOREM AccountsImplementRegistry == Spec => ImplementsRegistry
<1>1. Init => Ledger!Init
  BY DEF Init, Ledger!Init, Owner, Retired, Promised
<1>2. QED
  BY <1>1, InitInv, StepInv, StepRegistry, PTL
  DEF Spec, ImplementsRegistry, Ledger!Spec

=============================================================================
