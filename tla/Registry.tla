------------------------------ MODULE Registry ------------------------------
(***************************************************************************)
(* What the users table and the tokens promise those who rely on them, the *)
(* gate and the pages: an id belongs to one account for good, an address   *)
(* has one account at a time, and a token is made out to whoever owned its *)
(* id when it was asked for.  Accounts implements it with single SQL       *)
(* statements, a sequence and signed tokens, and records neither which ids *)
(* were used nor which tokens were promised.                               *)
(***************************************************************************)
EXTENDS Integers

CONSTANTS
    Id,         \* the ids an account may have
    Email       \* addresses

VARIABLES
    owner,      \* id -> address, for the open accounts
    retired,    \* ids that no account will have (again)
    promised,   \* tokens somebody has earned and has yet to get
    tokens      \* tokens in use

vars == <<owner, retired, promised, tokens>>

Token == [id : Id, email : Email]

Init ==
    /\ owner = [i \in {} |-> 0]
    /\ retired = {} /\ promised = {} /\ tokens = {}

Owned(t) == t.id \in DOMAIN owner /\ owner[t.id] = t.email

\* An account for an address without one, under an id nobody has had; a token
\* is promised to its owner.
Open(t) ==
    /\ t.id \notin DOMAIN owner \cup retired
    /\ \A i \in DOMAIN owner : owner[i] # t.email
    /\ owner' = [i \in DOMAIN owner \cup {t.id} |->
                     IF i = t.id THEN t.email ELSE owner[i]]
    /\ promised' = promised \cup {t}
    /\ UNCHANGED <<retired, tokens>>

\* An id is used up without an account.
Skip(i) ==
    /\ i \notin DOMAIN owner
    /\ retired' = retired \cup {i}
    /\ UNCHANGED <<owner, promised, tokens>>

\* An account is closed, for good.
Close(i) ==
    /\ i \in DOMAIN owner
    /\ owner' = [j \in DOMAIN owner \ {i} |-> owner[j]]
    /\ retired' = retired \cup {i}
    /\ UNCHANGED <<promised, tokens>>

\* The owner proves who it is, with the password or with a one-time code.
Promise(t) ==
    /\ Owned(t)
    /\ promised' = promised \cup {t}
    /\ UNCHANGED <<owner, retired, tokens>>

\* A promise is kept, even when the account is gone by now, or dropped.
Issue(t) ==
    /\ t \in promised
    /\ tokens' = tokens \cup {t}
    /\ promised' \in {promised, promised \ {t}}
    /\ UNCHANGED <<owner, retired>>

Drop(t) ==
    /\ t \in promised
    /\ promised' = promised \ {t}
    /\ UNCHANGED <<owner, retired, tokens>>

Expire(t) ==
    /\ tokens' = tokens \ {t}
    /\ UNCHANGED <<owner, retired, promised>>

Next ==
    \/ \E t \in Token :
           Open(t) \/ Promise(t) \/ Issue(t) \/ Drop(t) \/ Expire(t)
    \/ \E i \in Id : Skip(i) \/ Close(i)

Spec == Init /\ [][Next]_vars

=============================================================================
