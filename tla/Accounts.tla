------------------------------ MODULE Accounts ------------------------------
(***************************************************************************)
(* Accounts, logins and tokens of the API: main.py (register, login,       *)
(* get_current_user and the seeding of lifespan), core/security.py and     *)
(* services/audit/audit_service.py.                                        *)
(*                                                                         *)
(* The endpoints are synchronous and run in threads of a pool.  Accounts   *)
(* live in a dictionary of the process and, as far as the INSERT went      *)
(* through, in table users; a name the dictionary does not know is looked  *)
(* up in the table and kept.  Nothing holds a lock, and hashing a password *)
(* takes long.  A restart empties the dictionary and the audit log; table  *)
(* and tokens outlive it.                                                  *)
(***************************************************************************)
EXTENDS Integers, Sequences, FiniteSets, FiniteSetsExt

CONSTANTS
    Threads, Names, Secrets, None,
    Profiles,       \* what people ask to be registered as
    Defaults,       \* names of _ensure_default_admin, in order
    DefaultProfile, \* DefaultProfile[n]: what those accounts are created with
    Demo,           \* Demo[n]: secrets login accepts for n beside its own
    MaxRequests,    \* bound: requests begun
    MaxRestarts,    \* bound: restarts of the process
    MaxFaults       \* bound: times the database is out of reach

VARIABLES
    users,      \* users[n]: _users, None without an entry
    table,      \* table[n]: row of table users, None without one
    req,        \* req[t]: the request thread t is at, or None
    tokens,     \* tokens issued and not expired
    audit,      \* _audit_log
    known,      \* known[n]: profiles n was ever given (history)
    created,    \* created[n]: profiles answered "created" (history)
    contested,  \* names registered while an account existed (history)
    unstored,   \* names whose INSERT the database failed (history)
    begun, restarts, faults     \* counters for the bounds (history)

store == <<users, table>>
history == <<known, created, contested, unstored>>
counters == <<begun, restarts, faults>>
vars == <<store, req, tokens, audit, history, counters>>

Roles == {"ADMIN", "POLICE_OFFICER", "DEPARTMENT_USER"}

Profile == [secret : Secrets, role : Roles]
Account == [secret : Secrets, role : Roles, id : Nat]

With(profile, id) == [secret |-> profile.secret, role |-> profile.role, id |-> id]
ProfileOf(account) == [secret |-> account.secret, role |-> account.role]

ASSUME AccountConstants ==
    /\ Defaults \in Seq(Names)
    /\ \A i, j \in DOMAIN Defaults : Defaults[i] = Defaults[j] => i = j
    /\ Profiles \subseteq [secret : Secrets, role : STRING]
    /\ IsFiniteSet(Names)
    /\ DefaultProfile \in [Names -> Profile] /\ Demo \in [Names -> SUBSET Secrets]
    /\ {MaxRequests, MaxRestarts, MaxFaults} \subseteq Nat
    /\ None \notin Account /\ None \notin Nat

\* found: the account the request works with.  at: what it does next.
Request ==
    [op : {"register", "login", "call"}, name : Names, secret : Secrets \cup {None},
     found : Account \cup {None},
     at : {"keep", "insert", "report", "select", "cache", "verify", "serve"}]

Token == [name : Names, role : Roles, secret : Secrets]
Record == [action : {"CREATE_USER", "LOGIN", "LOGIN_FAILED"},
           name : Names, id : Nat \cup {None}]

TypeOK ==
    /\ users \in [Names -> Account \cup {None}]
    /\ table \in [Names -> Account \cup {None}]
    /\ req \in [Threads -> Request \cup {None}]
    /\ tokens \subseteq Token
    /\ audit \subseteq Record
    /\ known \in [Names -> SUBSET Profile]
    /\ created \in [Names -> SUBSET Profile]
    /\ contested \subseteq Names /\ unstored \subseteq Names
    /\ begun \in 0 .. MaxRequests
    /\ restarts \in 0 .. MaxRestarts
    /\ faults \in 0 .. MaxFaults

-----------------------------------------------------------------------------

IsDefault(n) == \E i \in DOMAIN Defaults : Defaults[i] = n
Place(n) == CHOOSE i \in DOMAIN Defaults : Defaults[i] = n

\* _ensure_default_admin: ids count from one.
DefaultUsers ==
    [n \in Names |->
        IF IsDefault(n) THEN With(DefaultProfile[n], Place(n)) ELSE None]

Empty == [n \in Names |-> None]

IdsIn(accounts) == {accounts[n].id : n \in {m \in Names : accounts[m] # None}}
NextId(accounts) == Max(IdsIn(accounts) \cup {0}) + 1

(* lifespan adds the default accounts the table lacks, in their order.     *)
Seeded(rows) ==
    LET before(n) == {i \in 1 .. Place(n) - 1 : rows[Defaults[i]] = None}
    IN [n \in Names |->
           IF rows[n] = None /\ IsDefault(n)
           THEN With(DefaultProfile[n], NextId(rows) + Cardinality(before(n)))
           ELSE rows[n]]

\* The process is up, its table seeded unless the database was out of reach.
Init ==
    /\ users = DefaultUsers
    /\ \/ table = Seeded(Empty) /\ faults = 0
       \/ table = Empty /\ faults = 1 /\ faults <= MaxFaults
    /\ req = [t \in Threads |-> None]
    /\ tokens = {} /\ audit = {}
    /\ known = [n \in Names |-> IF IsDefault(n) THEN {DefaultProfile[n]} ELSE {}]
    /\ created = [n \in Names |-> {}]
    /\ contested = {} /\ unstored = {}
    /\ begun = 0 /\ restarts = 0

-----------------------------------------------------------------------------
(* Steps of a request.  A request that is refused ends without a trace.    *)

Begin(t) == req[t] = None /\ begun < MaxRequests /\ begun' = begun + 1
IsAt(t, op, place) == req[t] # None /\ req[t].op = op /\ req[t].at = place
Goto(t, place) == req' = [req EXCEPT ![t].at = place]
Finish(t) == req' = [req EXCEPT ![t] = None]

Fault == faults < MaxFaults /\ faults' = faults + 1
NoFault == UNCHANGED faults

\* Slip: any role will do.
RegisterCheck_AnyRole(t, n, profile) ==
    /\ Begin(t)
    /\ users[n] = None
    /\ req' = [req EXCEPT ![t] =
                  [op |-> "register", name |-> n, secret |-> None,
                   found |-> With(profile, NextId(users)), at |-> "keep"]]
    /\ UNCHANGED <<store, tokens, audit, history, restarts, faults>>

(* register: the name is free in memory and an id is chosen; the password  *)
(* is hashed after that.                                                   *)
RegisterCheck(t, n, profile) ==
    /\ Begin(t)
    /\ users[n] = None /\ profile.role \in Roles
    /\ req' = [req EXCEPT ![t] =
                  [op |-> "register", name |-> n, secret |-> None,
                   found |-> With(profile, NextId(users)), at |-> "keep"]]
    /\ UNCHANGED <<store, tokens, audit, history, restarts, faults>>

RegisterKeep(t) ==
    LET n == req[t].name
        account == req[t].found
    IN /\ IsAt(t, "register", "keep")
       /\ Goto(t, "insert")
       /\ users' = [users EXCEPT ![n] = account]
       /\ known' = [known EXCEPT ![n] = @ \cup {ProfileOf(account)}]
       /\ contested' = IF users[n] = None /\ table[n] = None THEN contested
                       ELSE contested \cup {n}
       /\ UNCHANGED <<table, tokens, audit, created, unstored, counters>>

\* Slip: the row is made without the role and gets that of its column.
RegisterInsert_NoRole(t) ==
    LET n == req[t].name
        row == With([req[t].found EXCEPT !.role = "DEPARTMENT_USER"], NextId(table))
    IN /\ IsAt(t, "register", "insert")
       /\ Goto(t, "report")
       /\ \/ NoFault /\ UNCHANGED unstored
             /\ table' = IF table[n] = None THEN [table EXCEPT ![n] = row] ELSE table
          \/ Fault /\ unstored' = unstored \cup {n} /\ UNCHANGED table
       /\ UNCHANGED <<users, tokens, audit, known, created, contested, begun, restarts>>

(* Names are unique in the table: a second row fails, and the failure is   *)
(* logged only.                                                            *)
RegisterInsert(t) ==
    LET n == req[t].name
        row == With(req[t].found, NextId(table))
    IN /\ IsAt(t, "register", "insert")
       /\ Goto(t, "report")
       /\ \/ NoFault /\ UNCHANGED unstored
             /\ table' = IF table[n] = None THEN [table EXCEPT ![n] = row] ELSE table
          \/ Fault /\ unstored' = unstored \cup {n} /\ UNCHANGED table
       /\ UNCHANGED <<users, tokens, audit, known, created, contested, begun, restarts>>

Logged(action, n, id) ==
    audit' = audit \cup {[action |-> action, name |-> n, id |-> id]}

RegisterReport(t) ==
    LET n == req[t].name
    IN /\ IsAt(t, "register", "report")
       /\ Finish(t)
       /\ Logged("CREATE_USER", n, None)
       /\ created' = [created EXCEPT ![n] = @ \cup {ProfileOf(req[t].found)}]
       /\ UNCHANGED <<store, tokens, known, contested, unstored, counters>>

-----------------------------------------------------------------------------

\* What a login or a call with a token starts from.
LookUp(t, op, n, secret, next) ==
    /\ Begin(t)
    /\ req' = [req EXCEPT ![t] =
                  [op |-> op, name |-> n, secret |-> secret, found |-> users[n],
                   at |-> IF users[n] = None THEN "select" ELSE next]]
    /\ UNCHANGED <<store, tokens, audit, history, restarts, faults>>

LoginLookUp(t, n, secret) == LookUp(t, "login", n, secret, "verify")

\* get_current_user: the token gives the name and nothing else.
CallLookUp(t, token) == LookUp(t, "call", token.name, None, "serve")

(* The row of an unknown name; a fault counts as no row.                   *)
Select(t, op, otherwise) ==
    /\ IsAt(t, op, "select")
    /\ \/ NoFault /\ table[req[t].name] # None
          /\ req' = [req EXCEPT ![t].found = table[req[t].name], ![t].at = "cache"]
       \/ /\ IF table[req[t].name] = None THEN NoFault ELSE Fault
          /\ otherwise
    /\ UNCHANGED <<store, tokens, audit, history, begun, restarts>>

LoginSelect(t) == Select(t, "login", Goto(t, "verify"))
CallSelect(t) == Select(t, "call", Finish(t))

\* The row is kept under its name, whatever is there by now.
Cache(t, op, next) ==
    /\ IsAt(t, op, "cache")
    /\ users' = [users EXCEPT ![req[t].name] = req[t].found]
    /\ Goto(t, next)
    /\ UNCHANGED <<table, tokens, audit, history, counters>>

LoginCache(t) == Cache(t, "login", "verify")
CallCache(t) == Cache(t, "call", "serve")

IsValidPwd(r) == r.found # None /\ r.secret \in {r.found.secret} \cup Demo[r.name]

TokenOf(n, account) == [name |-> n, role |-> account.role, secret |-> account.secret]

\* Slip: the account is read again for the token.
LoginVerify_Reread(t) ==
    LET r == req[t]
        role == (IF users[r.name] = None THEN r.found ELSE users[r.name]).role
    IN /\ IsAt(t, "login", "verify")
       /\ Finish(t)
       /\ IF IsValidPwd(r)
          THEN /\ tokens' = tokens \cup {[TokenOf(r.name, r.found) EXCEPT !.role = role]}
               /\ Logged("LOGIN", r.name, r.found.id)
          ELSE /\ Logged("LOGIN_FAILED", r.name, None)
               /\ UNCHANGED tokens
       /\ UNCHANGED <<store, history, counters>>

(* The password is compared with the account found at the start.           *)
LoginVerify(t) ==
    LET r == req[t]
    IN /\ IsAt(t, "login", "verify")
       /\ Finish(t)
       /\ IF IsValidPwd(r)
          THEN /\ tokens' = tokens \cup {TokenOf(r.name, r.found)}
               /\ Logged("LOGIN", r.name, r.found.id)
          ELSE /\ Logged("LOGIN_FAILED", r.name, None)
               /\ UNCHANGED tokens
       /\ UNCHANGED <<store, history, counters>>

\* The endpoint proper, which no action here follows.
CallServe(t) ==
    /\ IsAt(t, "call", "serve")
    /\ Finish(t)
    /\ UNCHANGED <<store, tokens, audit, history, counters>>

(* Requests under way, dictionary and audit log are lost.                  *)
Restart ==
    /\ restarts < MaxRestarts
    /\ restarts' = restarts + 1
    /\ users' = DefaultUsers
    /\ \/ NoFault /\ table' = Seeded(table)
       \/ Fault /\ UNCHANGED table
    /\ req' = [t \in Threads |-> None]
    /\ audit' = {}
    /\ UNCHANGED <<tokens, history, begun>>

Next ==
    \/ Restart
    \/ \E t \in Threads :
          \/ \E n \in Names, profile \in Profiles : RegisterCheck(t, n, profile)
          \/ RegisterKeep(t) \/ RegisterInsert(t) \/ RegisterReport(t)
          \/ \E n \in Names, secret \in Secrets : LoginLookUp(t, n, secret)
          \/ LoginSelect(t) \/ LoginCache(t) \/ LoginVerify(t)
          \/ \E token \in tokens : CallLookUp(t, token)
          \/ CallSelect(t) \/ CallCache(t) \/ CallServe(t)

Spec == Init /\ [][Next]_vars

-----------------------------------------------------------------------------
(* Properties.                                                             *)

\* A name answered "created" has an account from then on, also after restarts of
\* the process, in both stores and through the cache login fills, with a password
\* and the role that one of its registrations brought: registrations that overlap
\* may replace each other's account, in the one store or the other, but neither
\* lose it nor mix two into one.  It is the account that was answered unless the
\* name was registered while it had one.  Of a name whose INSERT the database
\* failed nothing is promised.
CreatedIsUsable ==
    \A n \in Names \ unstored : \A profile \in created[n] :
        LET account == IF users[n] = None THEN table[n] ELSE users[n]
        IN /\ account # None /\ ProfileOf(account) \in known[n]
           /\ n \notin contested => ProfileOf(account) = profile

\* A token carries the role of the very account whose password was verified for
\* it, however registrations of the same name, restarts and the filling of the
\* cache fall between the lookup of the account and the issue of the token.
TokenFitsSecret ==
    \A token \in tokens :
        [secret |-> token.secret, role |-> token.role] \in known[token.name]

=============================================================================
