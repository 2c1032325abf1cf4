--------------------------- MODULE AccountsProofs ---------------------------
(***************************************************************************)
(* Theorems about Accounts, for every set of threads, names and secrets,   *)
(* every list of default accounts and every bound.                         *)
(***************************************************************************)
EXTENDS Accounts, TLAPS, FiniteSetTheorems, WellFoundedInduction

-----------------------------------------------------------------------------
(* Lemmas about the ids.                                                   *)

\* A finite set of numbers is bounded: of the unbounded ones the smallest
\* would stay unbounded without one of its elements.
LEMMA FiniteIsBounded ==
    ASSUME NEW S, S \subseteq Nat, IsFiniteSet(S)
    PROVE  \E b \in Nat : \A i \in S : i <= b
<1> DEFINE Bounded(T) == \E b \in Nat : \A i \in T : i <= b
           Sizes == {c \in Nat : \E T \in SUBSET Nat :
                        IsFiniteSet(T) /\ Cardinality(T) = c /\ ~Bounded(T)}
<1>1. Sizes = {}
  <2> SUFFICES ASSUME Sizes # {} PROVE FALSE
    OBVIOUS
  <2>1. Sizes \subseteq Nat
    OBVIOUS
  <2>2. PICK c \in Sizes : \A y \in Sizes : ~(<<y, c>> \in OpToRel(<, Nat))
    BY <2>1, WFMin, NatLessThanWellFounded
  <2>3. OpToRel(<, Nat) = {ss \in Nat \X Nat : ss[1] < ss[2]}
    BY Zenon DEF OpToRel
  <2>4. \A y \in Sizes : ~(y < c)
    <3>1. \A y \in Sizes : <<y, c>> \notin {ss \in Nat \X Nat : ss[1] < ss[2]}
      BY <2>2, <2>3, Zenon
    <3> HIDE DEF Sizes
    <3> QED
      BY <2>1, <3>1
  <2>5. PICK T \in SUBSET Nat : IsFiniteSet(T) /\ Cardinality(T) = c /\ ~Bounded(T)
    OBVIOUS
  <2>6. T # {}
    <3>1. CASE T = {}
      <4>1. Bounded(T)
        BY <3>1
      <4> QED
        BY <4>1, <2>5
    <3> QED
      BY <3>1
  <2>7. PICK x \in T : TRUE
    BY <2>6
  <2>8. IsFiniteSet(T \ {x}) /\ Cardinality(T \ {x}) = c - 1
    BY <2>5, <2>7, FS_RemoveElement
  <2>9. Cardinality(T \ {x}) \in Nat /\ c \in Nat
    BY <2>8, <2>1, FS_CardinalityType
  <2>10. Bounded(T \ {x})
    <3>1. c - 1 \notin Sizes
      <4> HIDE DEF Sizes
      <4> QED
        BY <2>4, <2>9
    <3> HIDE DEF Bounded
    <3> QED
      BY <3>1, <2>8, <2>9
  <2>11. PICK b \in Nat : \A i \in T \ {x} : i <= b
    BY <2>10
  <2>12. Bounded(T)
    <3>1. b + x \in Nat /\ x \in Nat
      BY <2>7
    <3>2. \A i \in T : i <= b + x
      <4> SUFFICES ASSUME NEW i \in T PROVE i <= b + x
        OBVIOUS
      <4>1. CASE i = x
        BY <4>1, <3>1
      <4>2. CASE i # x
        BY <4>2, <2>11, <3>1
      <4> QED
        BY <4>1, <4>2
    <3> QED
      BY <3>1, <3>2
  <2> QED
    BY <2>5, <2>12
<1>2. CASE ~Bounded(S)
  <2>1. Cardinality(S) \in Nat
    BY FS_CardinalityType
  <2>2. Cardinality(S) \in Sizes
    BY <1>2, <2>1
  <2> QED
    BY <1>1, <2>2
<1> QED
  BY <1>2

\* A finite set of numbers that is not empty has a greatest element.
LEMMA MaxOfFinite ==
    ASSUME NEW S, S \subseteq Nat, S # {}, IsFiniteSet(S)
    PROVE  Max(S) \in S
<1>1. PICK b \in Nat : \A i \in S : i <= b
  BY FiniteIsBounded
<1> DEFINE D == {b - i : i \in S}
<1>2. D \subseteq Nat /\ D # {}
  <2>1. \A i \in S : b - i \in Nat
    BY <1>1
  <2> QED
    BY <2>1
<1>3. PICK d \in D : \A y \in D : ~(<<y, d>> \in OpToRel(<, Nat))
  BY <1>2, WFMin, NatLessThanWellFounded
<1>4. OpToRel(<, Nat) = {ss \in Nat \X Nat : ss[1] < ss[2]}
  BY Zenon DEF OpToRel
<1>5. \A y \in D : <<y, d>> \notin {ss \in Nat \X Nat : ss[1] < ss[2]}
  BY <1>3, <1>4, Zenon
<1>6. \A y \in D : ~(y < d)
  BY <1>2, <1>5
<1>7. PICK x \in S : d = b - x
  BY <1>3
<1>8. \A i \in S : x >= i
  <2> SUFFICES ASSUME NEW i \in S PROVE x >= i
    OBVIOUS
  <2>1. ~(b - i < b - x)
    BY <1>6, <1>7
  <2> QED
    BY <2>1
<1> QED
  BY <1>8 DEF Max

\* The next id is a number.
LEMMA NextIdIsNat ==
    ASSUME NEW accounts \in [Names -> Account \cup {None}]
    PROVE  NextId(accounts) \in Nat
<1> DEFINE D == {m \in Names : accounts[m] # None}
           g == [m \in D |-> accounts[m].id]
           I == IdsIn(accounts)
<1>1. \A m \in D : accounts[m].id \in Nat
  BY DEF Account
<1>2. I = {accounts[n].id : n \in D}
  BY Zenon DEF IdsIn
<1>3. I \subseteq Nat
  BY <1>1, <1>2
<1>4. IsFiniteSet(D)
  BY AccountConstants, FS_Subset
<1>5. g \in Surjection(D, I)
  <2> HIDE DEF D
  <2> QED
    BY <1>2 DEF Surjection
<1>6. IsFiniteSet(I)
  BY <1>4, <1>5, FS_Surjection
<1>7. IsFiniteSet(I \cup {0})
  BY <1>6, FS_AddElement
<1>8. Max(I \cup {0}) \in I \cup {0}
  <2> DEFINE S == I \cup {0}
  <2>1. S \subseteq Nat /\ S # {} /\ IsFiniteSet(S)
    BY <1>3, <1>7
  <2> HIDE DEF S
  <2>2. Max(S) \in S
    BY <2>1, MaxOfFinite
  <2> QED
    BY <2>2 DEF S
<1>9. Max(I \cup {0}) \in Nat
  <2>1. I \cup {0} \subseteq Nat
    BY <1>3
  <2> QED
    BY <1>8, <2>1, Zenon
<1>10. NextId(accounts) = Max(I \cup {0}) + 1
  BY Zenon DEF NextId
<1> QED
  BY <1>9, <1>10

\* An account made of a profile and an id is an account, of that profile.
LEMMA WithIsAccount ==
    ASSUME NEW profile, profile.secret \in Secrets, profile.role \in Roles, NEW id \in Nat
    PROVE  /\ With(profile, id) \in Account /\ With(profile, id) # None
           /\ ProfileOf(With(profile, id)) = [secret |-> profile.secret, role |-> profile.role]
  BY AccountConstants DEF With, Account, ProfileOf

\* The place of a default account is its number.
LEMMA PlaceIsNat ==
    ASSUME NEW n, IsDefault(n)
    PROVE  Place(n) \in Nat \ {0} /\ Place(n) \in DOMAIN Defaults /\ Defaults[Place(n)] = n
<1>1. \E i \in DOMAIN Defaults : Defaults[i] = n
  BY DEF IsDefault
<1>2. Place(n) \in DOMAIN Defaults /\ Defaults[Place(n)] = n
  BY <1>1, Zenon DEF Place
<1>3. DOMAIN Defaults = 1 .. Len(Defaults) /\ Len(Defaults) \in Nat
  BY AccountConstants
<1> QED
  BY <1>2, <1>3

\* The default accounts are accounts, created with their profiles.
LEMMA DefaultUsersType ==
    /\ DefaultUsers \in [Names -> Account \cup {None}]
    /\ \A n \in Names : IF IsDefault(n)
                        THEN DefaultUsers[n] # None
                             /\ ProfileOf(DefaultUsers[n]) = DefaultProfile[n]
                        ELSE DefaultUsers[n] = None
<1> SUFFICES ASSUME NEW n \in Names
             PROVE  /\ DefaultUsers[n] \in Account \cup {None}
                    /\ IF IsDefault(n)
                       THEN DefaultUsers[n] # None
                            /\ ProfileOf(DefaultUsers[n]) = DefaultProfile[n]
                       ELSE DefaultUsers[n] = None
  BY DEF DefaultUsers
<1>1. CASE ~IsDefault(n)
  BY <1>1 DEF DefaultUsers
<1>2. CASE IsDefault(n)
  <2>1. DefaultUsers[n] = With(DefaultProfile[n], Place(n))
    BY <1>2 DEF DefaultUsers
  <2>2. DefaultProfile[n] \in Profile
    BY AccountConstants
  <2>3. Place(n) \in Nat
    BY <1>2, PlaceIsNat
  <2> QED
    BY <1>2, <2>1, <2>2, <2>3, WithIsAccount DEF Profile
<1> QED
  BY <1>1, <1>2

\* Seeding keeps every row and adds those of the default accounts.
LEMMA SeededType ==
    ASSUME NEW rows \in [Names -> Account \cup {None}]
    PROVE  /\ Seeded(rows) \in [Names -> Account \cup {None}]
           /\ \A n \in Names :
                 IF rows[n] = None /\ IsDefault(n)
                 THEN Seeded(rows)[n] # None /\ ProfileOf(Seeded(rows)[n]) = DefaultProfile[n]
                 ELSE Seeded(rows)[n] = rows[n]
<1> DEFINE before(n) == {i \in 1 .. Place(n) - 1 : rows[Defaults[i]] = None}
           id(n) == NextId(rows) + Cardinality(before(n))
<1>1. Seeded(rows) = [n \in Names |->
                        IF rows[n] = None /\ IsDefault(n)
                        THEN With(DefaultProfile[n], id(n)) ELSE rows[n]]
  BY Zenon DEF Seeded
<1>2. ASSUME NEW n \in Names, IsDefault(n)
      PROVE  /\ With(DefaultProfile[n], id(n)) \in Account
             /\ With(DefaultProfile[n], id(n)) # None
             /\ ProfileOf(With(DefaultProfile[n], id(n))) = DefaultProfile[n]
  <2>1. Place(n) - 1 \in Nat
    BY <1>2, PlaceIsNat
  <2>2. IsFiniteSet(1 .. Place(n) - 1)
    BY <2>1, FS_Interval
  <2>3. before(n) \in SUBSET (1 .. Place(n) - 1)
    OBVIOUS
  <2>4. Cardinality(before(n)) \in Nat
    BY <2>2, <2>3, FS_Subset, FS_CardinalityType
  <2>5. NextId(rows) \in Nat
    BY NextIdIsNat
  <2> HIDE DEF before
  <2>6. id(n) \in Nat
    BY <2>4, <2>5
  <2>7. DefaultProfile[n] \in Profile
    BY AccountConstants
  <2> HIDE DEF id
  <2> QED
    BY <2>6, <2>7, WithIsAccount DEF Profile
<1> HIDE DEF id
<1> QED
  BY <1>1, <1>2

-----------------------------------------------------------------------------
(* Type correctness.  It needs what a registration carries.                *)

\* A registration has made its account before it does anything else.
Carries(t) ==
    req[t] # None /\ req[t].op = "register" => req[t].found # None

TypeInv == TypeOK /\ \A t \in Threads : Carries(t)

Places == {"keep", "insert", "report", "select", "cache", "verify", "serve"}

\* Moving one request leaves the others alone and its account with it.
LEMMA GotoTyped ==
    ASSUME TypeInv, NEW t \in Threads, req[t] # None, NEW place \in Places, Goto(t, place)
    PROVE  /\ req' \in [Threads -> Request \cup {None}]
           /\ \A u \in Threads : Carries(u)'
           /\ req'[t] = [req[t] EXCEPT !.at = place]
           /\ \A u \in Threads \ {t} : req'[u] = req[u]
<1>1. req[t] \in Request /\ req \in [Threads -> Request \cup {None}]
  BY DEF TypeInv, TypeOK
<1>2. [req[t] EXCEPT !.at = place] \in Request
  BY <1>1 DEF Request, Places
<1>3. req' = [req EXCEPT ![t] = [req[t] EXCEPT !.at = place]]
  BY <1>1 DEF Goto
<1>4. /\ req'[t] = [req[t] EXCEPT !.at = place]
      /\ \A u \in Threads \ {t} : req'[u] = req[u]
      /\ req' \in [Threads -> Request \cup {None}]
  BY <1>1, <1>2, <1>3
<1>5. req'[t].op = req[t].op /\ req'[t].found = req[t].found
  BY <1>1, <1>4 DEF Request
<1> QED
  BY <1>4, <1>5 DEF Carries, TypeInv

\* A request that is put in its thread or leaves it.
LEMMA SetTyped ==
    ASSUME TypeInv, NEW t \in Threads, NEW r \in Request \cup {None},
           r # None /\ r.op = "register" => r.found # None,
           req' = [req EXCEPT ![t] = r]
    PROVE  /\ req' \in [Threads -> Request \cup {None}]
           /\ \A u \in Threads : Carries(u)'
           /\ req'[t] = r
           /\ \A u \in Threads \ {t} : req'[u] = req[u]
<1>1. req \in [Threads -> Request \cup {None}]
  BY DEF TypeInv, TypeOK
<1>2. /\ req' \in [Threads -> Request \cup {None}]
      /\ req'[t] = r /\ \A u \in Threads \ {t} : req'[u] = req[u]
  BY <1>1
<1> HIDE DEF Request
<1> QED
  BY <1>2 DEF TypeInv, Carries

\* Nothing goes beyond the bound it counts to.
LEMMA FaultTyped ==
    ASSUME TypeOK, Fault \/ NoFault
    PROVE  faults' \in 0 .. MaxFaults
  BY AccountConstants DEF TypeOK, Fault, NoFault

LEMMA RegisterCheckTyped ==
    ASSUME TypeInv, NEW t \in Threads, NEW n \in Names, NEW profile \in Profiles,
           RegisterCheck(t, n, profile)
    PROVE  TypeInv'
<1> DEFINE account == With(profile, NextId(users))
           r == [op |-> "register", name |-> n, secret |-> None,
                 found |-> account, at |-> "keep"]
<1>1. profile.secret \in Secrets /\ profile.role \in Roles
  BY AccountConstants DEF RegisterCheck
<1>2. NextId(users) \in Nat
  BY NextIdIsNat DEF TypeInv, TypeOK
<1>3. account \in Account /\ account # None
  BY <1>1, <1>2, WithIsAccount
<1> HIDE DEF account
<1>4. r \in Request /\ r.found # None
  BY <1>3 DEF Request
<1>5. req' = [req EXCEPT ![t] = r]
  BY DEF RegisterCheck, account
<1> HIDE DEF r
<1>6. req' \in [Threads -> Request \cup {None}] /\ \A u \in Threads : Carries(u)'
  BY <1>4, <1>5, SetTyped
<1>7. begun' \in 0 .. MaxRequests
  BY AccountConstants DEF TypeInv, TypeOK, RegisterCheck, Begin
<1> QED
  BY <1>6, <1>7 DEF TypeInv, TypeOK, RegisterCheck, store, history

\* What an account is of is a profile.
LEMMA ProfileOfAccount ==
    ASSUME NEW account \in Account
    PROVE  ProfileOf(account) \in Profile
  BY DEF ProfileOf, Account, Profile

LEMMA RegisterKeepTyped ==
    ASSUME TypeInv, NEW t \in Threads, RegisterKeep(t)
    PROVE  TypeInv'
<1> DEFINE n == req[t].name
           account == req[t].found
<1>1. req[t] \in Request /\ req[t] # None /\ req[t].op = "register"
  BY DEF TypeInv, TypeOK, RegisterKeep, IsAt
<1>2. n \in Names /\ account \in Account
  BY <1>1 DEF Request, TypeInv, Carries
<1>3. req' \in [Threads -> Request \cup {None}] /\ \A u \in Threads : Carries(u)'
  BY <1>1, GotoTyped DEF RegisterKeep, Places
<1>4. users' \in [Names -> Account \cup {None}]
  BY <1>2 DEF TypeInv, TypeOK, RegisterKeep
<1>5. known' \in [Names -> SUBSET Profile]
  <2>1. ProfileOf(account) \in Profile
    BY <1>2, ProfileOfAccount
  <2>2. known' = [known EXCEPT ![n] = known[n] \cup {ProfileOf(account)}]
    BY DEF RegisterKeep
  <2>3. known \in [Names -> SUBSET Profile]
    BY DEF TypeInv, TypeOK
  <2> HIDE DEF n, account
  <2> QED
    BY <2>1, <2>2, <2>3
<1>6. contested' \subseteq Names
  BY <1>2 DEF TypeInv, TypeOK, RegisterKeep
<1> QED
  BY <1>3, <1>4, <1>5, <1>6 DEF TypeInv, TypeOK, RegisterKeep, counters

LEMMA RegisterInsertTyped ==
    ASSUME TypeInv, NEW t \in Threads, RegisterInsert(t)
    PROVE  TypeInv'
<1> DEFINE n == req[t].name
           account == req[t].found
           row == With(account, NextId(table))
<1>1. req[t] \in Request /\ req[t] # None /\ req[t].op = "register"
  BY DEF TypeInv, TypeOK, RegisterInsert, IsAt
<1>2. n \in Names /\ account \in Account
  BY <1>1 DEF Request, TypeInv, Carries
<1>3. req' \in [Threads -> Request \cup {None}] /\ \A u \in Threads : Carries(u)'
  BY <1>1, GotoTyped DEF RegisterInsert, Places
<1>4. row \in Account
  <2>1. NextId(table) \in Nat
    BY NextIdIsNat DEF TypeInv, TypeOK
  <2>2. account.secret \in Secrets /\ account.role \in Roles
    BY <1>2 DEF Account
  <2> QED
    BY <2>1, <2>2, WithIsAccount
<1>5. \/ table' = table
      \/ table' = [table EXCEPT ![n] = row]
  BY DEF RegisterInsert
<1>6. table' \in [Names -> Account \cup {None}]
  <2> HIDE DEF n, row
  <2> QED
    BY <1>2, <1>4, <1>5 DEF TypeInv, TypeOK
<1>7. faults' \in 0 .. MaxFaults
  BY FaultTyped DEF TypeInv, RegisterInsert
<1>8. unstored' \subseteq Names
  BY <1>2 DEF TypeInv, TypeOK, RegisterInsert
<1> QED
  BY <1>3, <1>6, <1>7, <1>8 DEF TypeInv, TypeOK, RegisterInsert

LEMMA RegisterReportTyped ==
    ASSUME TypeInv, NEW t \in Threads, RegisterReport(t)
    PROVE  TypeInv'
<1> DEFINE n == req[t].name
           account == req[t].found
<1>1. req[t] \in Request /\ req[t] # None /\ req[t].op = "register"
  BY DEF TypeInv, TypeOK, RegisterReport, IsAt
<1>2. n \in Names /\ account \in Account
  BY <1>1 DEF Request, TypeInv, Carries
<1>3. req' \in [Threads -> Request \cup {None}] /\ \A u \in Threads : Carries(u)'
  BY SetTyped DEF RegisterReport, Finish
<1>4. created' \in [Names -> SUBSET Profile]
  <2>1. ProfileOf(account) \in Profile
    BY <1>2, ProfileOfAccount
  <2>2. created' = [created EXCEPT ![n] = created[n] \cup {ProfileOf(account)}]
    BY DEF RegisterReport
  <2>3. created \in [Names -> SUBSET Profile]
    BY DEF TypeInv, TypeOK
  <2> HIDE DEF n, account
  <2> QED
    BY <2>1, <2>2, <2>3
<1>5. audit' \subseteq Record
  BY <1>2 DEF TypeInv, TypeOK, RegisterReport, Logged, Record
<1> QED
  BY <1>3, <1>4, <1>5 DEF TypeInv, TypeOK, RegisterReport, store, counters

LEMMA LookUpTyped ==
    ASSUME TypeInv, NEW t \in Threads, NEW op \in {"login", "call"}, NEW n \in Names,
           NEW secret \in Secrets \cup {None}, NEW next \in {"verify", "serve"},
           LookUp(t, op, n, secret, next)
    PROVE  TypeInv'
<1> DEFINE r == [op |-> op, name |-> n, secret |-> secret, found |-> users[n],
                 at |-> IF users[n] = None THEN "select" ELSE next]
<1>1. r \in Request /\ r.op # "register"
  BY DEF Request, TypeInv, TypeOK
<1>2. req' = [req EXCEPT ![t] = r]
  BY DEF LookUp
<1> HIDE DEF r
<1>3. req' \in [Threads -> Request \cup {None}] /\ \A u \in Threads : Carries(u)'
  BY <1>1, <1>2, SetTyped
<1>4. begun' \in 0 .. MaxRequests
  BY AccountConstants DEF TypeInv, TypeOK, LookUp, Begin
<1> QED
  BY <1>3, <1>4 DEF TypeInv, TypeOK, LookUp, store, history

LEMMA SelectTyped ==
    ASSUME TypeInv, NEW t \in Threads, LoginSelect(t) \/ CallSelect(t)
    PROVE  TypeInv'
<1>1. req[t] \in Request /\ req[t] # None /\ req[t].op # "register"
  BY DEF TypeInv, TypeOK, LoginSelect, CallSelect, Select, IsAt
<1> DEFINE r == [req[t] EXCEPT !.found = table[req[t].name], !.at = "cache"]
<1>2. r \in Request /\ r.op # "register"
  BY <1>1 DEF Request, TypeInv, TypeOK
<1>3. \/ req' = [req EXCEPT ![t] = r]
      \/ Goto(t, "verify")
      \/ req' = [req EXCEPT ![t] = None]
  BY <1>1 DEF TypeInv, TypeOK, LoginSelect, CallSelect, Select, Finish
<1> HIDE DEF r
<1>4. req' \in [Threads -> Request \cup {None}] /\ \A u \in Threads : Carries(u)'
  <2>1. CASE req' = [req EXCEPT ![t] = r]
    BY <2>1, <1>2, SetTyped
  <2>2. CASE Goto(t, "verify")
    BY <2>2, <1>1, GotoTyped DEF Places
  <2>3. CASE req' = [req EXCEPT ![t] = None]
    BY <2>3, SetTyped
  <2> QED
    BY <1>3, <2>1, <2>2, <2>3
<1>5. faults' \in 0 .. MaxFaults
  <2>1. Fault \/ NoFault
    BY DEF LoginSelect, CallSelect, Select
  <2> QED
    BY <2>1, FaultTyped DEF TypeInv
<1> QED
  BY <1>4, <1>5 DEF TypeInv, TypeOK, LoginSelect, CallSelect, Select, store, history

LEMMA CacheTyped ==
    ASSUME TypeInv, NEW t \in Threads, LoginCache(t) \/ CallCache(t)
    PROVE  TypeInv'
<1>1. req[t] \in Request /\ req[t] # None
  BY DEF TypeInv, TypeOK, LoginCache, CallCache, Cache, IsAt
<1>2. Goto(t, "verify") \/ Goto(t, "serve")
  BY DEF LoginCache, CallCache, Cache
<1>3. req' \in [Threads -> Request \cup {None}] /\ \A u \in Threads : Carries(u)'
  BY <1>1, <1>2, GotoTyped DEF Places
<1>4. users' \in [Names -> Account \cup {None}]
  BY <1>1 DEF TypeInv, TypeOK, LoginCache, CallCache, Cache, Request
<1> QED
  BY <1>3, <1>4 DEF TypeInv, TypeOK, LoginCache, CallCache, Cache, history, counters

LEMMA LoginVerifyTyped ==
    ASSUME TypeInv, NEW t \in Threads, LoginVerify(t)
    PROVE  TypeInv'
<1>1. req[t] \in Request
  BY DEF TypeInv, TypeOK, LoginVerify, IsAt
<1>2. req' \in [Threads -> Request \cup {None}] /\ \A u \in Threads : Carries(u)'
  BY SetTyped DEF LoginVerify, Finish
<1>3. tokens' \subseteq Token
  <2>1. CASE tokens' = tokens
    BY <2>1 DEF TypeInv, TypeOK
  <2>2. CASE /\ req[t].found # None
             /\ tokens' = tokens \cup {TokenOf(req[t].name, req[t].found)}
    <3>1. req[t].name \in Names /\ req[t].found \in Account
      BY <1>1, <2>2 DEF Request
    <3>2. TokenOf(req[t].name, req[t].found) \in Token
      BY <3>1 DEF TokenOf, Token, Account
    <3> QED
      BY <2>2, <3>2 DEF TypeInv, TypeOK
  <2> QED
    BY <2>1, <2>2 DEF LoginVerify, IsValidPwd
<1>4. audit' \subseteq Record
  <2>1. req[t].name \in Names /\ req[t].found \in Account \cup {None}
    BY <1>1 DEF Request
  <2>2. \/ Logged("LOGIN", req[t].name, req[t].found.id) /\ req[t].found # None
        \/ Logged("LOGIN_FAILED", req[t].name, None)
    BY DEF LoginVerify, IsValidPwd
  <2>3. req[t].found # None => req[t].found.id \in Nat
    BY <2>1 DEF Account
  <2> QED
    BY <2>1, <2>2, <2>3 DEF Logged, Record, TypeInv, TypeOK
<1> QED
  BY <1>2, <1>3, <1>4 DEF TypeInv, TypeOK, LoginVerify, store, history, counters

LEMMA CallServeTyped ==
    ASSUME TypeInv, NEW t \in Threads, CallServe(t)
    PROVE  TypeInv'
<1>1. req' \in [Threads -> Request \cup {None}] /\ \A u \in Threads : Carries(u)'
  BY SetTyped DEF CallServe, Finish
<1> QED
  BY <1>1 DEF TypeInv, TypeOK, CallServe, store, history, counters

LEMMA RestartTyped ==
    ASSUME TypeInv, Restart
    PROVE  TypeInv'
<1>1. users' \in [Names -> Account \cup {None}]
  BY DefaultUsersType DEF Restart
<1>2. table' \in [Names -> Account \cup {None}]
  BY SeededType DEF TypeInv, TypeOK, Restart
<1>3. req' \in [Threads -> Request \cup {None}] /\ \A u \in Threads : Carries(u)'
  BY DEF Restart, Carries
<1>4. faults' \in 0 .. MaxFaults
  BY FaultTyped DEF TypeInv, Restart
<1>5. restarts' \in 0 .. MaxRestarts
  BY AccountConstants DEF TypeInv, TypeOK, Restart
<1> QED
  BY <1>1, <1>2, <1>3, <1>4, <1>5 DEF TypeInv, TypeOK, Restart, history

LEMMA InitTyped ==
    ASSUME Init
    PROVE  TypeInv
<1>1. users \in [Names -> Account \cup {None}]
  BY DefaultUsersType DEF Init
<1>2. table \in [Names -> Account \cup {None}]
  <2>1. Empty \in [Names -> Account \cup {None}]
    BY DEF Empty
  <2> QED
    BY <2>1, SeededType DEF Init
<1>3. req \in [Threads -> Request \cup {None}] /\ \A u \in Threads : Carries(u)
  BY DEF Init, Carries
<1>4. known \in [Names -> SUBSET Profile] /\ created \in [Names -> SUBSET Profile]
  BY AccountConstants DEF Init
<1>5. begun \in 0 .. MaxRequests /\ restarts \in 0 .. MaxRestarts /\ faults \in 0 .. MaxFaults
  BY AccountConstants DEF Init
<1> QED
  BY <1>1, <1>2, <1>3, <1>4, <1>5 DEF Init, TypeInv, TypeOK

\* One lemma for the whole step.
LEMMA StepTyped ==
    ASSUME TypeInv, [Next]_vars
    PROVE  TypeInv'
<1>1. CASE UNCHANGED vars
  BY <1>1 DEF vars, store, history, counters, TypeInv, TypeOK, Carries
<1>2. CASE Restart
  BY <1>2, RestartTyped
<1>3. ASSUME NEW t \in Threads, NEW n \in Names, NEW profile \in Profiles,
             RegisterCheck(t, n, profile)
      PROVE  TypeInv'
  BY <1>3, RegisterCheckTyped
<1>4. ASSUME NEW t \in Threads,
             RegisterKeep(t) \/ RegisterInsert(t) \/ RegisterReport(t)
      PROVE  TypeInv'
  BY <1>4, RegisterKeepTyped, RegisterInsertTyped, RegisterReportTyped
<1>5. ASSUME NEW t \in Threads, NEW n \in Names, NEW secret \in Secrets,
             LoginLookUp(t, n, secret)
      PROVE  TypeInv'
  BY <1>5, LookUpTyped DEF LoginLookUp
<1>6. ASSUME NEW t \in Threads, NEW token \in tokens, CallLookUp(t, token)
      PROVE  TypeInv'
  <2>1. token.name \in Names
    BY DEF TypeInv, TypeOK, Token
  <2> QED
    BY <1>6, <2>1, LookUpTyped DEF CallLookUp
<1>7. ASSUME NEW t \in Threads,
             \/ LoginSelect(t) \/ CallSelect(t) \/ LoginCache(t) \/ CallCache(t)
             \/ LoginVerify(t) \/ CallServe(t)
      PROVE  TypeInv'
  BY <1>7, SelectTyped, CacheTyped, LoginVerifyTyped, CallServeTyped
<1> QED
  BY <1>1, <1>2, <1>3, <1>4, <1>5, <1>6, <1>7 DEF Next

\* The types hold for every instance: an account in memory, in the table, in a
\* token or about to be made has a role of the program and an id that is a
\* number, whatever people ask to be registered as.
THEOREM TypeCorrect == Spec => []TypeOK
<1>1. Init => TypeInv
  BY InitTyped
<1>2. TypeInv /\ [Next]_vars => TypeInv'
  BY StepTyped
<1>3. TypeInv => TypeOK
  BY DEF TypeInv
<1> QED
  BY <1>1, <1>2, <1>3, PTL DEF Spec

-----------------------------------------------------------------------------
(* Tokens.  Whatever a request works with was once an account of its name, *)
(* but for what a registration has not yet stored.                         *)

KnownStores ==
    \A n \in Names :
        /\ users[n] # None => ProfileOf(users[n]) \in known[n]
        /\ table[n] # None => ProfileOf(table[n]) \in known[n]
        /\ IsDefault(n) => DefaultProfile[n] \in known[n]

KnownFound(t) ==
    req[t] # None /\ req[t].found # None =>
        \/ req[t].op = "register" /\ req[t].at = "keep"
        \/ ProfileOf(req[t].found) \in known[req[t].name]

KnownInv ==
    /\ TypeInv
    /\ KnownStores
    /\ \A t \in Threads : KnownFound(t)
    /\ TokenFitsSecret

LEMMA InitKnown ==
    ASSUME Init
    PROVE  KnownInv
<1>1. TypeInv
  BY InitTyped
<1>2. KnownStores
  <2> SUFFICES ASSUME NEW n \in Names
               PROVE  /\ users[n] # None => ProfileOf(users[n]) \in known[n]
                      /\ table[n] # None => ProfileOf(table[n]) \in known[n]
                      /\ IsDefault(n) => DefaultProfile[n] \in known[n]
    BY DEF KnownStores
  <2>1. IsDefault(n) => known[n] = {DefaultProfile[n]}
    BY DEF Init
  <2>2. users[n] # None => IsDefault(n) /\ ProfileOf(users[n]) = DefaultProfile[n]
    BY DefaultUsersType DEF Init
  <2>3. table[n] # None => IsDefault(n) /\ ProfileOf(table[n]) = DefaultProfile[n]
    <3>1. Empty \in [Names -> Account \cup {None}] /\ Empty[n] = None
      BY DEF Empty
    <3> QED
      BY <3>1, SeededType DEF Init
  <2> QED
    BY <2>1, <2>2, <2>3
<1> QED
  BY <1>1, <1>2 DEF Init, KnownInv, KnownFound, TokenFitsSecret

\* A name gets a profile and its account at once.
LEMMA RegisterKeepKnown ==
    ASSUME KnownInv, NEW t \in Threads, RegisterKeep(t)
    PROVE  KnownInv'
<1> DEFINE n == req[t].name
           account == req[t].found
<1>1. TypeInv /\ TypeInv'
  BY RegisterKeepTyped DEF KnownInv
<1>2. req[t] \in Request /\ req[t] # None /\ req[t].op = "register" /\ req[t].at = "keep"
  BY <1>1 DEF TypeInv, TypeOK, RegisterKeep, IsAt
<1>3. n \in Names /\ account \in Account
  BY <1>1, <1>2 DEF Request, TypeInv, Carries
<1>4. known' = [known EXCEPT ![n] = known[n] \cup {ProfileOf(account)}]
  BY DEF RegisterKeep
<1>5. /\ \A m \in Names : known[m] \subseteq known'[m]
      /\ ProfileOf(account) \in known'[n]
  <2>1. known \in [Names -> SUBSET Profile]
    BY <1>1 DEF TypeInv, TypeOK
  <2> HIDE DEF n, account
  <2> QED
    BY <1>3, <1>4, <2>1
<1>6. users' = [users EXCEPT ![n] = account] /\ table' = table /\ tokens' = tokens
  BY DEF RegisterKeep
<1>7. KnownStores'
  <2>1. users \in [Names -> Account \cup {None}]
    BY <1>1 DEF TypeInv, TypeOK
  <2>2. \A m \in Names : users'[m] = users[m] \/ (m = n /\ users'[m] = account)
    <3> HIDE DEF n, account
    <3> QED
      BY <1>6, <2>1
  <2> HIDE DEF n, account
  <2> QED
    BY <1>5, <1>6, <2>2 DEF KnownInv, KnownStores
<1>8. /\ req'[t] = [req[t] EXCEPT !.at = "insert"]
      /\ \A u \in Threads \ {t} : req'[u] = req[u]
  BY <1>1, <1>2, GotoTyped DEF RegisterKeep, Places
<1>9. \A u \in Threads : KnownFound(u)'
  <2>1. req'[t].name = n /\ req'[t].found = account
    BY <1>2, <1>8 DEF Request
  <2>2. KnownFound(t)'
    BY <1>5, <2>1 DEF KnownFound
  <2>3. ASSUME NEW u \in Threads \ {t} PROVE KnownFound(u)'
    <3>1. req'[u] = req[u]
      BY <1>8
    <3>2. req[u] # None => req[u].name \in Names
      BY <1>1 DEF TypeInv, TypeOK, Request
    <3> QED
      BY <3>1, <3>2, <1>5 DEF KnownInv, KnownFound
  <2> QED
    BY <2>2, <2>3
<1>10. TokenFitsSecret'
  <2>1. \A token \in tokens : token.name \in Names
    BY <1>1 DEF TypeInv, TypeOK, Token
  <2> QED
    BY <1>5, <1>6, <2>1 DEF KnownInv, TokenFitsSecret
<1> QED
  BY <1>1, <1>7, <1>9, <1>10 DEF KnownInv

\* The other steps give no name a profile: what is left of the requests has to
\* be known, the stores and the tokens too.
LEMMA FrameKnown ==
    ASSUME KnownInv, TypeInv', known' = known,
           \A n \in Names : users'[n] = users[n] \/ users'[n] = None
                             \/ ProfileOf(users'[n]) \in known[n],
           \A n \in Names : table'[n] = table[n] \/ ProfileOf(table'[n]) \in known[n],
           \A t \in Threads : req'[t] = req[t] \/ KnownFound(t)',
           TokenFitsSecret'
    PROVE  KnownInv'
<1>1. KnownStores'
  BY DEF KnownInv, KnownStores
<1>2. \A t \in Threads : KnownFound(t)'
  BY DEF KnownInv, KnownFound
<1> QED
  BY <1>1, <1>2 DEF KnownInv

LEMMA RequestsKnown ==
    ASSUME KnownInv, NEW t \in Threads,
           \/ \E n \in Names, profile \in Profiles : RegisterCheck(t, n, profile)
           \/ \E n \in Names, secret \in Secrets : LoginLookUp(t, n, secret)
           \/ \E token \in tokens : CallLookUp(t, token)
    PROVE  KnownInv'
<1> USE DEF LoginLookUp, CallLookUp
<1>1. TypeInv'
  <2>1. \A token \in tokens : token.name \in Names
    BY DEF KnownInv, TypeInv, TypeOK, Token
  <2> QED
    BY <2>1, RegisterCheckTyped, LookUpTyped DEF KnownInv
<1>2. known' = known /\ users' = users /\ table' = table /\ tokens' = tokens
  BY DEF RegisterCheck, LookUp, store, history
<1>3. req \in [Threads -> Request \cup {None}]
  BY DEF KnownInv, TypeInv, TypeOK
<1>4. \A u \in Threads \ {t} : req'[u] = req[u]
  BY <1>3 DEF RegisterCheck, LookUp
<1>5. \/ req'[t].op = "register" /\ req'[t].at = "keep"
      \/ req'[t].name \in Names /\ req'[t].found = users[req'[t].name]
  <2>1. CASE \E n \in Names, profile \in Profiles : RegisterCheck(t, n, profile)
    BY <2>1, <1>3 DEF RegisterCheck
  <2>2. CASE \E n \in Names, secret \in Secrets : LoginLookUp(t, n, secret)
    BY <2>2, <1>3 DEF LookUp
  <2>3. CASE \E token \in tokens : CallLookUp(t, token)
    <3>1. \A token \in tokens : token.name \in Names
      BY DEF KnownInv, TypeInv, TypeOK, Token
    <3> QED
      BY <2>3, <3>1, <1>3 DEF LookUp
  <2> QED
    BY <2>1, <2>2, <2>3
<1>6. KnownFound(t)'
  BY <1>2, <1>5 DEF KnownFound, KnownInv, KnownStores
<1>7. TokenFitsSecret'
  BY <1>2 DEF TokenFitsSecret, KnownInv
<1> QED
  BY <1>1, <1>2, <1>4, <1>6, <1>7, FrameKnown

LEMMA RegisterInsertKnown ==
    ASSUME KnownInv, NEW t \in Threads, RegisterInsert(t)
    PROVE  KnownInv'
<1> DEFINE n == req[t].name
           account == req[t].found
           row == With(account, NextId(table))
<1>1. TypeInv /\ TypeInv'
  BY RegisterInsertTyped DEF KnownInv
<1>2. req[t] \in Request /\ req[t] # None /\ req[t].op = "register" /\ req[t].at = "insert"
  BY <1>1 DEF TypeInv, TypeOK, RegisterInsert, IsAt
<1>3. n \in Names /\ account \in Account /\ account # None
  BY <1>1, <1>2 DEF Request, TypeInv, Carries
<1>4. ProfileOf(account) \in known[n]
  BY <1>2, <1>3 DEF KnownInv, KnownFound
<1>5. ProfileOf(row) = ProfileOf(account)
  <2>1. NextId(table) \in Nat
    BY <1>1, NextIdIsNat DEF TypeInv, TypeOK
  <2>2. account.secret \in Secrets /\ account.role \in Roles
    BY <1>3 DEF Account
  <2> QED
    BY <2>1, <2>2, WithIsAccount DEF ProfileOf
<1>6. \A m \in Names : table'[m] = table[m] \/ (m = n /\ table'[m] = row)
  <2>1. table' = table \/ table' = [table EXCEPT ![n] = row]
    BY DEF RegisterInsert
  <2>2. table \in [Names -> Account \cup {None}]
    BY <1>1 DEF TypeInv, TypeOK
  <2> HIDE DEF n, row
  <2> QED
    BY <2>1, <2>2
<1>7. /\ req'[t] = [req[t] EXCEPT !.at = "report"]
      /\ \A u \in Threads \ {t} : req'[u] = req[u]
  BY <1>1, <1>2, GotoTyped DEF RegisterInsert, Places
<1>8. known' = known /\ users' = users /\ tokens' = tokens
  BY DEF RegisterInsert
<1>9. KnownFound(t)'
  <2>1. req'[t].name = n /\ req'[t].found = account
    BY <1>2, <1>7 DEF Request
  <2> QED
    BY <1>4, <1>8, <2>1 DEF KnownFound
<1>10. TokenFitsSecret'
  BY <1>8 DEF TokenFitsSecret, KnownInv
<1>11. \A m \in Names : table'[m] = table[m] \/ ProfileOf(table'[m]) \in known[m]
  BY <1>4, <1>5, <1>6
<1> HIDE DEF n, row, account
<1> QED
  BY <1>1, <1>7, <1>8, <1>9, <1>10, <1>11, FrameKnown

\* A request that ends, or that a fault ends, leaves nothing to know.
LEMMA EndsKnown ==
    ASSUME KnownInv, NEW t \in Threads, RegisterReport(t) \/ CallServe(t)
    PROVE  KnownInv'
<1>1. TypeInv'
  BY RegisterReportTyped, CallServeTyped DEF KnownInv
<1>2. known' = known /\ users' = users /\ table' = table /\ tokens' = tokens
  BY DEF RegisterReport, CallServe, store, history
<1>3. \A u \in Threads : req'[u] = req[u] \/ req'[u] = None
  BY DEF KnownInv, TypeInv, TypeOK, RegisterReport, CallServe, Finish
<1>4. TokenFitsSecret'
  BY <1>2 DEF TokenFitsSecret, KnownInv
<1>5. \A u \in Threads : req'[u] = req[u] \/ KnownFound(u)'
  BY <1>3 DEF KnownFound
<1> QED
  BY <1>1, <1>2, <1>4, <1>5, FrameKnown

LEMMA SelectKnown ==
    ASSUME KnownInv, NEW t \in Threads, LoginSelect(t) \/ CallSelect(t)
    PROVE  KnownInv'
<1>1. TypeInv /\ TypeInv'
  BY SelectTyped DEF KnownInv
<1>2. req[t] \in Request /\ req[t] # None
  BY <1>1 DEF TypeInv, TypeOK, LoginSelect, CallSelect, Select, IsAt
<1>3. known' = known /\ users' = users /\ table' = table /\ tokens' = tokens
  BY DEF LoginSelect, CallSelect, Select, store, history
<1> DEFINE r == [req[t] EXCEPT !.found = table[req[t].name], !.at = "cache"]
<1>4. \/ req' = [req EXCEPT ![t] = r]
      \/ Goto(t, "verify")
      \/ req' = [req EXCEPT ![t] = None]
  BY <1>1 DEF TypeInv, TypeOK, LoginSelect, CallSelect, Select, Finish
<1>5. req \in [Threads -> Request \cup {None}]
  BY <1>1 DEF TypeInv, TypeOK
<1>6. \A u \in Threads \ {t} : req'[u] = req[u]
  BY <1>4, <1>5 DEF Goto
<1>7. KnownFound(t)'
  <2>1. CASE req' = [req EXCEPT ![t] = r]
    <3>1. req'[t].name = req[t].name /\ req'[t].found = table[req[t].name]
      BY <2>1, <1>2, <1>5 DEF Request
    <3>2. req[t].name \in Names
      BY <1>2 DEF Request
    <3> QED
      BY <3>1, <3>2, <1>3 DEF KnownFound, KnownInv, KnownStores
  <2>2. CASE Goto(t, "verify")
    <3>1. req[t].op # "register"
      BY DEF LoginSelect, CallSelect, Select, IsAt
    <3>2. req'[t] = [req[t] EXCEPT !.at = "verify"]
      BY <2>2, <1>1, <1>2, GotoTyped DEF Places
    <3>3. req'[t].name = req[t].name /\ req'[t].found = req[t].found
      BY <3>2, <1>2 DEF Request
    <3>4. KnownFound(t)
      BY DEF KnownInv
    <3> QED
      BY <3>1, <3>3, <3>4, <1>2, <1>3 DEF KnownFound
  <2>3. CASE req' = [req EXCEPT ![t] = None]
    BY <2>3, <1>5 DEF KnownFound
  <2> QED
    BY <1>4, <2>1, <2>2, <2>3
<1>8. TokenFitsSecret'
  BY <1>3 DEF TokenFitsSecret, KnownInv
<1> QED
  BY <1>1, <1>3, <1>6, <1>7, <1>8, FrameKnown

LEMMA CacheKnown ==
    ASSUME KnownInv, NEW t \in Threads, LoginCache(t) \/ CallCache(t)
    PROVE  KnownInv'
<1> DEFINE n == req[t].name
           account == req[t].found
<1>1. TypeInv /\ TypeInv'
  BY CacheTyped DEF KnownInv
<1>2. req[t] \in Request /\ req[t] # None /\ req[t].op # "register"
  BY <1>1 DEF TypeInv, TypeOK, LoginCache, CallCache, Cache, IsAt
<1>3. n \in Names /\ (account # None => ProfileOf(account) \in known[n])
  BY <1>2 DEF Request, KnownInv, KnownFound
<1>4. known' = known /\ table' = table /\ tokens' = tokens
      /\ users' = [users EXCEPT ![n] = account]
  BY DEF LoginCache, CallCache, Cache, history
<1>5. \A m \in Names : users'[m] = users[m] \/ users'[m] = None
                        \/ ProfileOf(users'[m]) \in known[m]
  <2>1. users \in [Names -> Account \cup {None}]
    BY <1>1 DEF TypeInv, TypeOK
  <2> HIDE DEF n, account
  <2> QED
    BY <1>3, <1>4, <2>1
<1>6. Goto(t, "verify") \/ Goto(t, "serve")
  BY DEF LoginCache, CallCache, Cache
<1>7. /\ req'[t] = [req[t] EXCEPT !.at = "verify"] \/ req'[t] = [req[t] EXCEPT !.at = "serve"]
      /\ \A u \in Threads \ {t} : req'[u] = req[u]
  BY <1>1, <1>2, <1>6, GotoTyped DEF Places
<1>8. KnownFound(t)'
  <2>1. req'[t].name = n /\ req'[t].found = account
    BY <1>2, <1>7 DEF Request
  <2> QED
    BY <1>3, <1>4, <2>1 DEF KnownFound
<1>9. TokenFitsSecret'
  BY <1>4 DEF TokenFitsSecret, KnownInv
<1> HIDE DEF n, account
<1> QED
  BY <1>1, <1>4, <1>5, <1>7, <1>8, <1>9, FrameKnown

LEMMA LoginVerifyKnown ==
    ASSUME KnownInv, NEW t \in Threads, LoginVerify(t)
    PROVE  KnownInv'
<1>1. TypeInv /\ TypeInv'
  BY LoginVerifyTyped DEF KnownInv
<1>2. req[t] \in Request /\ req[t] # None /\ req[t].op = "login"
  BY <1>1 DEF TypeInv, TypeOK, LoginVerify, IsAt
<1>3. known' = known /\ users' = users /\ table' = table
  BY DEF LoginVerify, store, history
<1>4. \A u \in Threads : req'[u] = req[u] \/ KnownFound(u)'
  BY <1>1 DEF TypeInv, TypeOK, LoginVerify, Finish, KnownFound
<1>5. TokenFitsSecret'
  <2> DEFINE new == TokenOf(req[t].name, req[t].found)
  <2>1. \/ tokens' = tokens
        \/ req[t].found # None /\ tokens' = tokens \cup {new}
    BY DEF LoginVerify, IsValidPwd
  <2>2. req[t].found # None => ProfileOf(req[t].found) \in known[req[t].name]
    BY <1>2 DEF KnownInv, KnownFound
  <2>3. /\ new.name = req[t].name
        /\ [secret |-> new.secret, role |-> new.role] = ProfileOf(req[t].found)
    BY DEF TokenOf, ProfileOf
  <2> HIDE DEF new
  <2> QED
    BY <1>3, <2>1, <2>2, <2>3 DEF TokenFitsSecret, KnownInv
<1> QED
  BY <1>1, <1>3, <1>4, <1>5, FrameKnown

LEMMA RestartKnown ==
    ASSUME KnownInv, Restart
    PROVE  KnownInv'
<1>1. TypeInv /\ TypeInv'
  BY RestartTyped DEF KnownInv
<1>2. known' = known /\ tokens' = tokens
  BY DEF Restart, history
<1>3. \A n \in Names : users'[n] = None \/ ProfileOf(users'[n]) \in known[n]
  BY DefaultUsersType DEF Restart, KnownInv, KnownStores
<1>4. \A n \in Names : table'[n] = table[n] \/ ProfileOf(table'[n]) \in known[n]
  BY <1>1, SeededType DEF Restart, KnownInv, KnownStores, TypeInv, TypeOK
<1>5. \A t \in Threads : KnownFound(t)'
  BY DEF Restart, KnownFound
<1>6. TokenFitsSecret'
  BY <1>2 DEF TokenFitsSecret, KnownInv
<1> QED
  BY <1>1, <1>2, <1>3, <1>4, <1>5, <1>6, FrameKnown

LEMMA StepKnown ==
    ASSUME KnownInv, [Next]_vars
    PROVE  KnownInv'
<1>1. CASE UNCHANGED vars
  <2>1. TypeInv'
    BY <1>1, StepTyped DEF KnownInv
  <2> QED
    BY <1>1, <2>1 DEF vars, store, history, KnownInv, KnownStores, KnownFound, TokenFitsSecret
<1>2. CASE Next
  BY <1>2, RestartKnown, RequestsKnown, RegisterKeepKnown, RegisterInsertKnown,
     EndsKnown, SelectKnown, CacheKnown, LoginVerifyKnown DEF Next
<1> QED
  BY <1>1, <1>2

\* A token says of its holder what the account says whose password was given,
\* for any number of registrations, logins and restarts in any order.
THEOREM TokenFitsSecretHolds == Spec => []TokenFitsSecret
<1>1. Init => KnownInv
  BY InitKnown
<1>2. KnownInv /\ [Next]_vars => KnownInv'
  BY StepKnown
<1>3. KnownInv => TokenFitsSecret
  BY DEF KnownInv
<1> QED
  BY <1>1, <1>2, <1>3, PTL DEF Spec

-----------------------------------------------------------------------------
(* Accounts created.  A name that was registered once, and whose INSERT     *)
(* went through, has one registration at a time past its check.            *)

Fine(n) == n \notin contested \cup unstored
Past(t, n, place) ==
    req[t] # None /\ req[t].op = "register" /\ req[t].name = n /\ req[t].at = place

\* Default accounts are there from the start, so nobody registers them.
Registers(t, n) == req[t] # None /\ req[t].op = "register" /\ req[t].name = n

NotRegistered(n) ==
    IsDefault(n) =>
        /\ users[n] # None /\ created[n] = {}
        /\ \A t \in Threads : ~Registers(t, n)

\* A row found for a name is that of the table: rows never change.
CachesRow(t) ==
    req[t] # None /\ req[t].at = "cache" =>
        req[t].found # None /\ req[t].found = table[req[t].name]

StoresAgree(n) ==
    Fine(n) /\ ~IsDefault(n) /\ users[n] # None /\ table[n] # None =>
        ProfileOf(users[n]) = ProfileOf(table[n])

Inserting(t, n) ==
    Fine(n) /\ Past(t, n, "insert") =>
        /\ table[n] = None /\ users[n] # None
        /\ ProfileOf(users[n]) = ProfileOf(req[t].found)
        /\ \A u \in Threads : Past(u, n, "insert") => u = t

Reporting(t, n) ==
    Fine(n) /\ Past(t, n, "report") =>
        table[n] # None /\ ProfileOf(table[n]) = ProfileOf(req[t].found)

Created(n) ==
    Fine(n) => \A profile \in created[n] :
                  table[n] # None /\ ProfileOf(table[n]) = profile

\* However often it was registered: a name that was answered has a row, unless
\* the database failed it, and so has one about to be answered.
Stored(n) ==
    n \notin unstored =>
        /\ created[n] # {} => table[n] # None
        /\ \A t \in Threads : Past(t, n, "report") => table[n] # None

CreatedInv ==
    /\ TypeInv
    /\ \A t \in Threads : CachesRow(t)
    /\ \A n \in Names :
          /\ NotRegistered(n) /\ StoresAgree(n) /\ Created(n)
          /\ \A t \in Threads : Inserting(t, n) /\ Reporting(t, n)

LEMMA CreatedSuffices ==
    ASSUME CreatedInv, KnownInv, \A n \in Names : Stored(n)
    PROVE  CreatedIsUsable
<1> SUFFICES ASSUME NEW n \in Names \ unstored, NEW profile \in created[n]
             PROVE  LET account == IF users[n] = None THEN table[n] ELSE users[n]
                    IN /\ account # None /\ ProfileOf(account) \in known[n]
                       /\ n \notin contested => ProfileOf(account) = profile
  BY Zenon DEF CreatedIsUsable
<1> DEFINE account == IF users[n] = None THEN table[n] ELSE users[n]
<1>1. account # None /\ ProfileOf(account) \in known[n]
  BY DEF Stored, KnownInv, KnownStores
<1>2. ASSUME n \notin contested
      PROVE  ProfileOf(account) = profile
  <2>1. Fine(n) /\ ~IsDefault(n)
    BY <1>2 DEF Fine, CreatedInv, NotRegistered, Registers
  <2>2. table[n] # None /\ ProfileOf(table[n]) = profile
    BY <2>1 DEF CreatedInv, Created
  <2> QED
    BY <2>1, <2>2 DEF CreatedInv, StoresAgree
<1> QED
  BY <1>1, <1>2

LEMMA InitCreated ==
    ASSUME Init
    PROVE  CreatedInv
<1>1. TypeInv
  BY InitTyped
<1>2. \A n \in Names : IF IsDefault(n) THEN users[n] # None ELSE users[n] = None
  BY DefaultUsersType DEF Init
<1> QED
  BY <1>1, <1>2 DEF Init, CreatedInv, CachesRow, NotRegistered, Registers, StoresAgree,
                    Created, Inserting, Reporting, Past

\* Steps that leave stores and history alone, and put no request past its check
\* of the name or at a row it did not find.
LEMMA FrameCreated ==
    ASSUME CreatedInv, TypeInv',
           users' = users, table' = table,
           created' = created, contested' = contested, unstored' = unstored,
           NEW t \in Threads, \A u \in Threads \ {t} : req'[u] = req[u],
           CachesRow(t)',
           req'[t] # None /\ req'[t].op = "register" =>
               req'[t].at = "keep" /\ ~IsDefault(req'[t].name)
    PROVE  CreatedInv'
<1>1. \A u \in Threads : CachesRow(u)'
  BY DEF CreatedInv, CachesRow
<1>2. ASSUME NEW n \in Names
      PROVE  (NotRegistered(n) /\ StoresAgree(n) /\ Created(n))'
  <2>1. NotRegistered(n)'
    BY DEF CreatedInv, NotRegistered, Registers
  <2> QED
    BY <2>1 DEF CreatedInv, StoresAgree, Created, Fine
<1>3. ASSUME NEW n \in Names, NEW u \in Threads
      PROVE  (Inserting(u, n) /\ Reporting(u, n))'
  <2>1. /\ Past(u, n, "insert")' => Past(u, n, "insert") /\ u # t
        /\ Past(u, n, "report")' => Past(u, n, "report") /\ u # t
    BY DEF Past
  <2>2. \A v \in Threads : Past(v, n, "insert")' => Past(v, n, "insert")
    BY DEF Past
  <2> QED
    BY <2>1, <2>2 DEF CreatedInv, Inserting, Reporting, Fine
<1> QED
  BY <1>1, <1>2, <1>3 DEF CreatedInv

LEMMA RequestsCreated ==
    ASSUME CreatedInv, NEW t \in Threads,
           \/ \E n \in Names, profile \in Profiles : RegisterCheck(t, n, profile)
           \/ \E n \in Names, secret \in Secrets : LoginLookUp(t, n, secret)
           \/ \E token \in tokens : CallLookUp(t, token)
    PROVE  CreatedInv'
<1> USE DEF LoginLookUp, CallLookUp
<1>1. TypeInv'
  <2>1. \A token \in tokens : token.name \in Names
    BY DEF CreatedInv, TypeInv, TypeOK, Token
  <2> QED
    BY <2>1, RegisterCheckTyped, LookUpTyped DEF CreatedInv
<1>2. /\ users' = users /\ table' = table /\ created' = created
      /\ contested' = contested /\ unstored' = unstored
  BY DEF RegisterCheck, LookUp, store, history
<1>3. req \in [Threads -> Request \cup {None}]
  BY DEF CreatedInv, TypeInv, TypeOK
<1>4. \A u \in Threads \ {t} : req'[u] = req[u]
  BY <1>3 DEF RegisterCheck, LookUp
<1>5. /\ req'[t].at # "cache"
      /\ req'[t].op = "register" => req'[t].at = "keep" /\ ~IsDefault(req'[t].name)
  <2>1. CASE \E n \in Names, profile \in Profiles : RegisterCheck(t, n, profile)
    <3>1. PICK n \in Names, profile \in Profiles : RegisterCheck(t, n, profile)
      BY <2>1
    <3>2. ~IsDefault(n)
      BY <3>1 DEF RegisterCheck, CreatedInv, NotRegistered, Registers
    <3> QED
      BY <3>1, <3>2, <1>3 DEF RegisterCheck
  <2>2. CASE \/ \E n \in Names, secret \in Secrets : LoginLookUp(t, n, secret)
             \/ \E token \in tokens : CallLookUp(t, token)
    BY <2>2, <1>3 DEF LookUp
  <2> QED
    BY <2>1, <2>2
<1> QED
  BY <1>1, <1>2, <1>4, <1>5, FrameCreated DEF CachesRow

LEMMA EndsCreated ==
    ASSUME CreatedInv, NEW t \in Threads, LoginVerify(t) \/ CallServe(t)
    PROVE  CreatedInv'
<1>1. TypeInv'
  BY LoginVerifyTyped, CallServeTyped DEF CreatedInv
<1>2. /\ users' = users /\ table' = table /\ created' = created
      /\ contested' = contested /\ unstored' = unstored
  BY DEF LoginVerify, CallServe, store, history
<1>3. req'[t] = None /\ \A u \in Threads \ {t} : req'[u] = req[u]
  BY DEF CreatedInv, TypeInv, TypeOK, LoginVerify, CallServe, Finish
<1> QED
  BY <1>1, <1>2, <1>3, FrameCreated DEF CachesRow

LEMMA SelectCreated ==
    ASSUME CreatedInv, NEW t \in Threads, LoginSelect(t) \/ CallSelect(t)
    PROVE  CreatedInv'
<1>1. TypeInv /\ TypeInv'
  BY SelectTyped DEF CreatedInv
<1>2. req[t] \in Request /\ req[t] # None /\ req[t].op # "register"
  BY <1>1 DEF TypeInv, TypeOK, LoginSelect, CallSelect, Select, IsAt
<1>3. /\ users' = users /\ table' = table /\ created' = created
      /\ contested' = contested /\ unstored' = unstored
  BY DEF LoginSelect, CallSelect, Select, store, history
<1> DEFINE r == [req[t] EXCEPT !.found = table[req[t].name], !.at = "cache"]
<1>4. \/ table[req[t].name] # None /\ req' = [req EXCEPT ![t] = r]
      \/ Goto(t, "verify")
      \/ req' = [req EXCEPT ![t] = None]
  BY <1>1 DEF TypeInv, TypeOK, LoginSelect, CallSelect, Select, Finish
<1>5. req \in [Threads -> Request \cup {None}]
  BY <1>1 DEF TypeInv, TypeOK
<1>6. \A u \in Threads \ {t} : req'[u] = req[u]
  BY <1>4, <1>5 DEF Goto
<1>7. CachesRow(t)' /\ (req'[t] # None => req'[t].op # "register")
  <2>1. CASE table[req[t].name] # None /\ req' = [req EXCEPT ![t] = r]
    <3>1. /\ req'[t].name = req[t].name /\ req'[t].found = table[req[t].name]
          /\ req'[t].op = req[t].op
      BY <2>1, <1>2, <1>5 DEF Request
    <3> QED
      BY <2>1, <3>1, <1>2, <1>3 DEF CachesRow
  <2>2. CASE Goto(t, "verify")
    <3>1. req'[t] = [req[t] EXCEPT !.at = "verify"]
      BY <2>2, <1>1, <1>2, GotoTyped DEF Places
    <3>2. req'[t].at = "verify" /\ req'[t].op = req[t].op
      BY <3>1, <1>2 DEF Request
    <3> QED
      BY <3>2, <1>2 DEF CachesRow
  <2>3. CASE req' = [req EXCEPT ![t] = None]
    BY <2>3, <1>5 DEF CachesRow
  <2> QED
    BY <1>4, <2>1, <2>2, <2>3
<1> HIDE DEF r
<1> QED
  BY <1>1, <1>3, <1>6, <1>7, FrameCreated

\* A registration stores its account: unless the name was contested, no row and
\* no other registration of it is there.
LEMMA RegisterKeepCreated ==
    ASSUME CreatedInv, NEW t \in Threads, RegisterKeep(t)
    PROVE  CreatedInv'
<1>1. TypeInv /\ TypeInv'
  BY RegisterKeepTyped DEF CreatedInv
<1>2. req[t] \in Request /\ req[t] # None /\ req[t].op = "register" /\ req[t].at = "keep"
  BY <1>1 DEF TypeInv, TypeOK, RegisterKeep, IsAt
<1>3. PICK n \in Names, account \in Account :
         n = req[t].name /\ account = req[t].found /\ account # None
  BY <1>1, <1>2 DEF Request, TypeInv, Carries
<1>4. /\ req'[t] = [req[t] EXCEPT !.at = "insert"]
      /\ \A u \in Threads \ {t} : req'[u] = req[u]
  BY <1>1, <1>2, GotoTyped DEF RegisterKeep, Places
<1>5. /\ req'[t].name = n /\ req'[t].found = account
      /\ req'[t].op = "register" /\ req'[t].at = "insert"
  BY <1>3, <1>2, <1>4 DEF Request
<1>6. /\ users'[n] = account /\ \A m \in Names \ {n} : users'[m] = users[m]
      /\ table' = table /\ created' = created /\ unstored' = unstored
  <2>1. users \in [Names -> Account \cup {None}]
    BY <1>1 DEF TypeInv, TypeOK
  <2>2. /\ users' = [users EXCEPT ![n] = account]
        /\ table' = table /\ created' = created /\ unstored' = unstored
    BY <1>3 DEF RegisterKeep
  <2> QED
    BY <1>3, <2>1, <2>2
<1>7. /\ contested \subseteq contested'
      /\ Fine(n)' => users[n] = None /\ table[n] = None
  BY <1>3 DEF RegisterKeep, Fine
<1>8. \A m \in Names : Fine(m)' => Fine(m)
  BY <1>6, <1>7 DEF Fine
<1>9. ~IsDefault(n)
  BY <1>2, <1>3 DEF CreatedInv, NotRegistered, Registers
<1>10. \A u \in Threads : CachesRow(u)'
  BY <1>4, <1>5, <1>6 DEF CreatedInv, CachesRow
<1>11. ASSUME NEW m \in Names
       PROVE  (NotRegistered(m) /\ StoresAgree(m) /\ Created(m))'
  <2>1. NotRegistered(m)'
    <3>1. IsDefault(m) => m # n
      BY <1>9
    <3>2. \A u \in Threads : Registers(u, m)' => Registers(u, m) \/ m = n
      BY <1>4, <1>5 DEF Registers
    <3> QED
      BY <3>1, <3>2, <1>6 DEF CreatedInv, NotRegistered
  <2>2. StoresAgree(m)'
    BY <1>6, <1>7, <1>8 DEF CreatedInv, StoresAgree
  <2>3. Created(m)'
    BY <1>6, <1>8 DEF CreatedInv, Created
  <2> QED
    BY <2>1, <2>2, <2>3
<1>12. ASSUME NEW m \in Names, NEW u \in Threads
       PROVE  (Inserting(u, m) /\ Reporting(u, m))'
  <2>1. CASE m # n
    <3>1. \A v \in Threads : /\ Past(v, m, "insert")' <=> Past(v, m, "insert") /\ v # t
                             /\ Past(v, m, "report")' <=> Past(v, m, "report") /\ v # t
      BY <2>1, <1>2, <1>4, <1>5 DEF Past
    <3>2. Past(u, m, "insert") \/ Past(u, m, "report") => u # t
      BY <1>3, <2>1 DEF Past
    <3> QED
      BY <2>1, <3>1, <3>2, <1>4, <1>6, <1>8 DEF CreatedInv, Inserting, Reporting
  <2>2. CASE m = n
    <3>1. Fine(n)' => \A v \in Threads : ~Past(v, n, "insert") /\ ~Past(v, n, "report")
      BY <1>3, <1>7, <1>8 DEF CreatedInv, Inserting, Reporting
    <3>2. Fine(n)' => \A v \in Threads : /\ ~Past(v, n, "report")'
                                         /\ Past(v, n, "insert")' => v = t
      BY <3>1, <1>4, <1>5 DEF Past
    <3> QED
      BY <2>2, <3>2, <1>3, <1>5, <1>6, <1>7 DEF Inserting, Reporting
  <2> QED
    BY <2>1, <2>2
<1> QED
  BY <1>1, <1>10, <1>11, <1>12 DEF CreatedInv

LEMMA RegisterInsertCreated ==
    ASSUME CreatedInv, NEW t \in Threads, RegisterInsert(t)
    PROVE  CreatedInv'
<1>1. TypeInv /\ TypeInv'
  BY RegisterInsertTyped DEF CreatedInv
<1>2. req[t] \in Request /\ req[t] # None /\ req[t].op = "register" /\ req[t].at = "insert"
  BY <1>1 DEF TypeInv, TypeOK, RegisterInsert, IsAt
<1>3. PICK n \in Names, account \in Account :
         n = req[t].name /\ account = req[t].found /\ account # None
  BY <1>1, <1>2 DEF Request, TypeInv, Carries
<1> DEFINE row == With(account, NextId(table))
<1>4. ProfileOf(row) = ProfileOf(account) /\ row # None
  <2>1. NextId(table) \in Nat
    BY <1>1, NextIdIsNat DEF TypeInv, TypeOK
  <2>2. account.secret \in Secrets /\ account.role \in Roles
    BY <1>3 DEF Account
  <2> QED
    BY <2>1, <2>2, WithIsAccount DEF ProfileOf
<1>5. /\ req'[t] = [req[t] EXCEPT !.at = "report"]
      /\ \A u \in Threads \ {t} : req'[u] = req[u]
  BY <1>1, <1>2, GotoTyped DEF RegisterInsert, Places
<1>6. /\ req'[t].name = n /\ req'[t].found = account
      /\ req'[t].op = "register" /\ req'[t].at = "report"
  BY <1>3, <1>2, <1>5 DEF Request
<1>7. users' = users /\ created' = created /\ contested' = contested
      /\ unstored \subseteq unstored'
  BY DEF RegisterInsert
<1>8. \A m \in Names : Fine(m)' => Fine(m)
  BY <1>7 DEF Fine
<1>9. /\ \A m \in Names : table[m] # None => table'[m] = table[m]
      /\ \A m \in Names \ {n} : table'[m] = table[m]
      /\ Fine(n)' /\ table[n] = None => table'[n] = row
  <2>1. table \in [Names -> Account \cup {None}]
    BY <1>1 DEF TypeInv, TypeOK
  <2>2. \/ table' = (IF table[n] = None THEN [table EXCEPT ![n] = row] ELSE table)
        \/ table' = table /\ unstored' = unstored \cup {n}
    BY <1>3 DEF RegisterInsert
  <2> HIDE DEF row
  <2> QED
    BY <1>3, <2>1, <2>2 DEF Fine
<1>10. Past(t, n, "insert")
  BY <1>3, <1>2 DEF Past
<1>11. Fine(n) => /\ table[n] = None /\ users[n] # None
                  /\ ProfileOf(users[n]) = ProfileOf(account)
                  /\ \A u \in Threads : Past(u, n, "insert") => u = t
  BY <1>3, <1>10 DEF CreatedInv, Inserting
<1>12. ~IsDefault(n)
  BY <1>2, <1>3 DEF CreatedInv, NotRegistered, Registers
<1> HIDE DEF row
<1>13. \A u \in Threads : CachesRow(u)'
  <2>1. ASSUME NEW u \in Threads \ {t} PROVE CachesRow(u)'
    <3>1. req[u] # None => req[u].name \in Names
      BY <1>1 DEF TypeInv, TypeOK, Request
    <3> QED
      BY <3>1, <1>5, <1>9 DEF CreatedInv, CachesRow
  <2> QED
    BY <2>1, <1>6 DEF CachesRow
<1>14. ASSUME NEW m \in Names
       PROVE  (NotRegistered(m) /\ StoresAgree(m) /\ Created(m))'
  <2>1. NotRegistered(m)'
    <3>1. IsDefault(m) => m # n
      BY <1>12
    <3>2. \A u \in Threads : Registers(u, m)' => Registers(u, m) \/ m = n
      BY <1>5, <1>6 DEF Registers
    <3> QED
      BY <3>1, <3>2, <1>7 DEF CreatedInv, NotRegistered
  <2>2. StoresAgree(m)'
    <3>1. CASE m # n
      BY <3>1, <1>7, <1>8, <1>9 DEF CreatedInv, StoresAgree
    <3>2. CASE m = n
      BY <3>2, <1>3, <1>4, <1>7, <1>8, <1>9, <1>11 DEF StoresAgree
    <3> QED
      BY <3>1, <3>2
  <2>3. Created(m)'
    BY <1>7, <1>8, <1>9 DEF CreatedInv, Created
  <2> QED
    BY <2>1, <2>2, <2>3
<1>15. ASSUME NEW m \in Names, NEW u \in Threads
       PROVE  (Inserting(u, m) /\ Reporting(u, m))'
  <2>1. CASE m # n
    <3>1. \A v \in Threads : /\ Past(v, m, "insert")' <=> Past(v, m, "insert")
                             /\ Past(v, m, "report")' <=> Past(v, m, "report")
      BY <1>3, <2>1, <1>5, <1>6 DEF Past
    <3>2. Past(u, m, "insert") \/ Past(u, m, "report") => req'[u] = req[u]
      BY <1>3, <2>1, <1>5 DEF Past
    <3> QED
      BY <2>1, <3>1, <3>2, <1>7, <1>8, <1>9 DEF CreatedInv, Inserting, Reporting
  <2>2. CASE m = n /\ u # t
    <3>1. Fine(n)' => ~Past(u, n, "insert") /\ ~Past(u, n, "report")
      <4>1. Fine(n)' => ~Past(u, n, "insert")
        BY <2>2, <1>8, <1>3, <1>11
      <4>2. Fine(n)' => ~Past(u, n, "report")
        BY <1>8, <1>3, <1>11 DEF CreatedInv, Reporting
      <4> QED
        BY <4>1, <4>2
    <3>2. Fine(n)' => ~Past(u, n, "insert")' /\ ~Past(u, n, "report")'
      BY <2>2, <3>1, <1>5 DEF Past
    <3> QED
      BY <2>2, <3>2 DEF Inserting, Reporting
  <2>3. CASE m = n /\ u = t
    <3>1. ~Past(t, n, "insert")'
      BY <1>6 DEF Past
    <3>2. Fine(n)' => table'[n] # None /\ ProfileOf(table'[n]) = ProfileOf(req'[t].found)
      BY <1>3, <1>4, <1>6, <1>8, <1>9, <1>11
    <3> QED
      BY <2>3, <3>1, <3>2 DEF Inserting, Reporting
  <2> QED
    BY <2>1, <2>2, <2>3
<1> QED
  BY <1>1, <1>13, <1>14, <1>15 DEF CreatedInv

LEMMA RegisterReportCreated ==
    ASSUME CreatedInv, NEW t \in Threads, RegisterReport(t)
    PROVE  CreatedInv'
<1> DEFINE n == req[t].name
           account == req[t].found
<1>1. TypeInv /\ TypeInv'
  BY RegisterReportTyped DEF CreatedInv
<1>2. req[t] \in Request /\ req[t] # None /\ req[t].op = "register" /\ req[t].at = "report"
  BY <1>1 DEF TypeInv, TypeOK, RegisterReport, IsAt
<1>3. n \in Names
  BY <1>2 DEF Request
<1>4. req'[t] = None /\ \A u \in Threads \ {t} : req'[u] = req[u]
  BY <1>1 DEF TypeInv, TypeOK, RegisterReport, Finish
<1>5. /\ users' = users /\ table' = table
      /\ contested' = contested /\ unstored' = unstored
  BY DEF RegisterReport, store
<1>6. /\ created'[n] = created[n] \cup {ProfileOf(account)}
      /\ \A m \in Names \ {n} : created'[m] = created[m]
  <2>1. created \in [Names -> SUBSET Profile]
    BY <1>1 DEF TypeInv, TypeOK
  <2>2. created' = [created EXCEPT ![n] = created[n] \cup {ProfileOf(account)}]
    BY DEF RegisterReport
  <2> HIDE DEF n, account
  <2> QED
    BY <1>3, <2>1, <2>2
<1>7. Fine(n) => table[n] # None /\ ProfileOf(table[n]) = ProfileOf(account)
  BY <1>2, <1>3 DEF CreatedInv, Reporting, Past
<1>8. ~IsDefault(n)
  BY <1>2, <1>3 DEF CreatedInv, NotRegistered, Registers
<1> HIDE DEF n, account
<1>9. \A u \in Threads : CachesRow(u)'
  BY <1>4, <1>5 DEF CreatedInv, CachesRow
<1>10. ASSUME NEW m \in Names
       PROVE  (NotRegistered(m) /\ StoresAgree(m) /\ Created(m))'
  <2>1. NotRegistered(m)'
    BY <1>4, <1>5, <1>6, <1>8 DEF CreatedInv, NotRegistered, Registers
  <2>2. StoresAgree(m)'
    BY <1>5 DEF CreatedInv, StoresAgree, Fine
  <2>3. Created(m)'
    BY <1>5, <1>6, <1>7 DEF CreatedInv, Created, Fine
  <2> QED
    BY <2>1, <2>2, <2>3
<1>11. ASSUME NEW m \in Names, NEW u \in Threads
       PROVE  (Inserting(u, m) /\ Reporting(u, m))'
  <2>1. \A v \in Threads, place \in Places : Past(v, m, place)' => Past(v, m, place) /\ v # t
    BY <1>4 DEF Past
  <2> QED
    BY <2>1, <1>4, <1>5 DEF CreatedInv, Inserting, Reporting, Fine, Places
<1> QED
  BY <1>1, <1>9, <1>10, <1>11 DEF CreatedInv

\* What is cached is the row, so stores agree and no INSERT is pending.
LEMMA CacheCreated ==
    ASSUME CreatedInv, NEW t \in Threads, LoginCache(t) \/ CallCache(t)
    PROVE  CreatedInv'
<1> DEFINE n == req[t].name
           account == req[t].found
<1>1. TypeInv /\ TypeInv'
  BY CacheTyped DEF CreatedInv
<1>2. req[t] \in Request /\ req[t] # None /\ req[t].op # "register" /\ req[t].at = "cache"
  BY <1>1 DEF TypeInv, TypeOK, LoginCache, CallCache, Cache, IsAt
<1>3. n \in Names /\ account # None /\ account = table[n]
  BY <1>2 DEF Request, CreatedInv, CachesRow
<1>4. /\ users'[n] = account /\ \A m \in Names \ {n} : users'[m] = users[m]
      /\ table' = table /\ created' = created
      /\ contested' = contested /\ unstored' = unstored
  <2>1. users \in [Names -> Account \cup {None}]
    BY <1>1 DEF TypeInv, TypeOK
  <2>2. /\ users' = [users EXCEPT ![n] = account]
        /\ table' = table /\ created' = created
        /\ contested' = contested /\ unstored' = unstored
    BY DEF LoginCache, CallCache, Cache, history
  <2> HIDE DEF n, account
  <2> QED
    BY <1>3, <2>1, <2>2
<1>5. Goto(t, "verify") \/ Goto(t, "serve")
  BY DEF LoginCache, CallCache, Cache
<1>6. /\ req'[t] = [req[t] EXCEPT !.at = "verify"] \/ req'[t] = [req[t] EXCEPT !.at = "serve"]
      /\ \A u \in Threads \ {t} : req'[u] = req[u]
  BY <1>1, <1>2, <1>5, GotoTyped DEF Places
<1>7. req'[t].op # "register" /\ req'[t].at # "cache"
  BY <1>2, <1>6 DEF Request
<1> HIDE DEF n, account
<1>8. \A u \in Threads : CachesRow(u)'
  BY <1>4, <1>6, <1>7 DEF CreatedInv, CachesRow
<1>9. ASSUME NEW m \in Names
      PROVE  (NotRegistered(m) /\ StoresAgree(m) /\ Created(m))'
  <2>1. NotRegistered(m)'
    BY <1>3, <1>4, <1>6, <1>7 DEF CreatedInv, NotRegistered, Registers
  <2>2. StoresAgree(m)'
    BY <1>3, <1>4 DEF CreatedInv, StoresAgree, Fine
  <2>3. Created(m)'
    BY <1>4 DEF CreatedInv, Created, Fine
  <2> QED
    BY <2>1, <2>2, <2>3
<1>10. ASSUME NEW m \in Names, NEW u \in Threads
       PROVE  (Inserting(u, m) /\ Reporting(u, m))'
  <2>1. \A v \in Threads, place \in Places : Past(v, m, place)' => Past(v, m, place) /\ v # t
    BY <1>6, <1>7 DEF Past
  <2>2. Past(u, m, "insert") /\ Fine(m) => m # n
    BY <1>3 DEF CreatedInv, Inserting
  <2> QED
    BY <2>1, <2>2, <1>4, <1>6 DEF CreatedInv, Inserting, Reporting, Fine, Places
<1> QED
  BY <1>1, <1>8, <1>9, <1>10 DEF CreatedInv

LEMMA RestartCreated ==
    ASSUME CreatedInv, Restart
    PROVE  CreatedInv'
<1>1. TypeInv /\ TypeInv'
  BY RestartTyped DEF CreatedInv
<1>2. \A t \in Threads : req'[t] = None
  BY DEF Restart
<1>3. \A n \in Names : IF IsDefault(n) THEN users'[n] # None ELSE users'[n] = None
  BY DefaultUsersType DEF Restart
<1>4. \A n \in Names : table'[n] = table[n] \/ (table[n] = None /\ IsDefault(n))
  BY <1>1, SeededType DEF Restart, TypeInv, TypeOK
<1>5. created' = created /\ contested' = contested /\ unstored' = unstored
  BY DEF Restart, history
<1>6. ASSUME NEW n \in Names
      PROVE  (NotRegistered(n) /\ StoresAgree(n) /\ Created(n))'
  <2>1. NotRegistered(n)'
    BY <1>2, <1>3, <1>5 DEF CreatedInv, NotRegistered, Registers
  <2>2. StoresAgree(n)'
    BY <1>3 DEF StoresAgree
  <2>3. Created(n)'
    BY <1>4, <1>5 DEF CreatedInv, Created, NotRegistered, Registers, Fine
  <2> QED
    BY <2>1, <2>2, <2>3
<1> QED
  BY <1>1, <1>2, <1>6 DEF CreatedInv, CachesRow, Inserting, Reporting, Past

LEMMA StepCreated ==
    ASSUME CreatedInv, [Next]_vars
    PROVE  CreatedInv'
<1>1. CASE UNCHANGED vars
  <2>1. TypeInv'
    BY <1>1, StepTyped DEF CreatedInv
  <2> QED
    BY <1>1, <2>1 DEF vars, store, history, CreatedInv, CachesRow, NotRegistered, Registers,
                      StoresAgree, Created, Inserting, Reporting, Past, Fine
<1>2. CASE Next
  BY <1>2, RestartCreated, RequestsCreated, RegisterKeepCreated, RegisterInsertCreated,
     RegisterReportCreated, EndsCreated, SelectCreated, CacheCreated DEF Next
<1> QED
  BY <1>1, <1>2

-----------------------------------------------------------------------------
(* A name that was answered keeps a row, contested or not.                 *)

\* Steps of a request that touch neither the rows nor what was answered.
LEMMA FrameStored ==
    ASSUME \A n \in Names : Stored(n),
           table' = table, created' = created, unstored' = unstored,
           NEW t \in Threads, \A u \in Threads \ {t} : req'[u] = req[u],
           req'[t] = None \/ req'[t].op # "register" \/ req'[t].at # "report"
    PROVE  (\A n \in Names : Stored(n))'
  BY DEF Stored, Past

\* The steps of a registration.
LEMMA RegisterStored ==
    ASSUME TypeInv, \A n \in Names : Stored(n), NEW t \in Threads,
           RegisterKeep(t) \/ RegisterInsert(t) \/ RegisterReport(t)
    PROVE  (\A n \in Names : Stored(n))'
<1> DEFINE n == req[t].name
<1>1. req[t] \in Request /\ req[t] # None /\ req[t].op = "register"
  BY DEF TypeInv, TypeOK, RegisterKeep, RegisterInsert, RegisterReport, IsAt
<1>2. n \in Names /\ req[t].found \in Account
  BY <1>1 DEF Request, TypeInv, Carries
<1>3. CASE RegisterKeep(t)
  <2>1. /\ req'[t] = [req[t] EXCEPT !.at = "insert"]
        /\ \A u \in Threads \ {t} : req'[u] = req[u]
    BY <1>1, <1>3, GotoTyped DEF RegisterKeep, Places
  <2>2. req'[t].at = "insert"
    BY <1>1, <2>1 DEF Request
  <2> QED
    BY <1>3, <2>1, <2>2, FrameStored DEF RegisterKeep
<1>4. CASE RegisterInsert(t)
  <2> DEFINE row == With(req[t].found, NextId(table))
  <2>1. row # None
    <3>1. NextId(table) \in Nat
      BY NextIdIsNat DEF TypeInv, TypeOK
    <3> QED
      BY <1>2, <3>1, WithIsAccount DEF Account
  <2>2. /\ req'[t] = [req[t] EXCEPT !.at = "report"]
        /\ \A u \in Threads \ {t} : req'[u] = req[u]
    BY <1>1, <1>4, GotoTyped DEF RegisterInsert, Places
  <2>3. req'[t].name = n
    BY <1>1, <2>2 DEF Request
  <2>4. created' = created /\ unstored \subseteq unstored'
    BY <1>4 DEF RegisterInsert
  <2>5. /\ \A m \in Names : table[m] # None => table'[m] # None
        /\ n \in unstored' \/ table'[n] # None
    <3>1. table \in [Names -> Account \cup {None}]
      BY DEF TypeInv, TypeOK
    <3>2. \/ table' = (IF table[n] = None THEN [table EXCEPT ![n] = row] ELSE table)
          \/ table' = table /\ n \in unstored'
      BY <1>4 DEF RegisterInsert
    <3> HIDE DEF n, row
    <3> QED
      BY <1>2, <2>1, <3>1, <3>2
  <2>6. \A m \in Names, u \in Threads : Past(u, m, "report")' => Past(u, m, "report") \/ m = n
    BY <2>2, <2>3 DEF Past
  <2> HIDE DEF n
  <2> QED
    BY <2>4, <2>5, <2>6 DEF Stored
<1>5. CASE RegisterReport(t)
  <2>1. req'[t] = None /\ \A u \in Threads \ {t} : req'[u] = req[u]
    BY <1>5 DEF TypeInv, TypeOK, RegisterReport, Finish
  <2>2. table' = table /\ unstored' = unstored
    BY <1>5 DEF RegisterReport, store
  <2>3. \A m \in Names \ {n} : created'[m] = created[m]
    BY <1>5 DEF TypeInv, TypeOK, RegisterReport
  <2>4. Past(t, n, "report")
    BY <1>1, <1>5 DEF RegisterReport, IsAt, Past
  <2>5. \A m \in Names, u \in Threads : Past(u, m, "report")' => Past(u, m, "report")
    BY <2>1 DEF Past
  <2> HIDE DEF n
  <2> QED
    BY <1>2, <2>2, <2>3, <2>4, <2>5 DEF Stored
<1> QED
  BY <1>3, <1>4, <1>5

LEMMA StepStored ==
    ASSUME TypeInv, \A n \in Names : Stored(n), [Next]_vars
    PROVE  (\A n \in Names : Stored(n))'
<1>1. req \in [Threads -> Request \cup {None}]
  BY DEF TypeInv, TypeOK
<1>2. CASE UNCHANGED vars
  BY <1>2 DEF vars, store, history, Stored, Past
<1>3. CASE Restart
  <2>1. \A n \in Names : table[n] # None => table'[n] # None
    BY <1>3, SeededType DEF Restart, TypeInv, TypeOK
  <2> QED
    BY <1>3, <2>1 DEF Restart, history, Stored, Past
<1>4. ASSUME NEW t \in Threads,
             \/ \E n \in Names, profile \in Profiles : RegisterCheck(t, n, profile)
             \/ \E n \in Names, secret \in Secrets : LoginLookUp(t, n, secret)
             \/ \E token \in tokens : CallLookUp(t, token)
      PROVE  (\A n \in Names : Stored(n))'
  <2>1. table' = table /\ created' = created /\ unstored' = unstored
    BY <1>4 DEF RegisterCheck, LoginLookUp, CallLookUp, LookUp, store, history
  <2>2. \A u \in Threads \ {t} : req'[u] = req[u]
    BY <1>1, <1>4 DEF RegisterCheck, LoginLookUp, CallLookUp, LookUp
  <2>3. req'[t].at # "report" \/ req'[t].op # "register"
    BY <1>1, <1>4 DEF RegisterCheck, LoginLookUp, CallLookUp, LookUp
  <2> QED
    BY <2>1, <2>2, <2>3, FrameStored
<1>5. ASSUME NEW t \in Threads,
             LoginSelect(t) \/ CallSelect(t) \/ LoginCache(t) \/ CallCache(t)
      PROVE  (\A n \in Names : Stored(n))'
  <2>1. table' = table /\ created' = created /\ unstored' = unstored
    BY <1>5 DEF LoginSelect, CallSelect, Select, LoginCache, CallCache, Cache, store, history
  <2>2. req[t] \in Request /\ req[t] # None /\ req[t].op # "register"
    BY <1>5 DEF TypeInv, TypeOK, LoginSelect, CallSelect, Select, LoginCache, CallCache,
               Cache, IsAt
  <2>3. \/ req' = [req EXCEPT ![t].found = table[req[t].name], ![t].at = "cache"]
        \/ Goto(t, "verify") \/ Goto(t, "serve")
        \/ req' = [req EXCEPT ![t] = None]
    BY <1>5 DEF LoginSelect, CallSelect, Select, LoginCache, CallCache, Cache, Finish
  <2>4. \A u \in Threads \ {t} : req'[u] = req[u]
    BY <1>1, <2>3 DEF Goto
  <2>5. req'[t] = None \/ req'[t].op # "register"
    BY <1>1, <2>2, <2>3 DEF Goto, Request
  <2> QED
    BY <2>1, <2>4, <2>5, FrameStored
<1>6. ASSUME NEW t \in Threads, LoginVerify(t) \/ CallServe(t)
      PROVE  (\A n \in Names : Stored(n))'
  <2>1. table' = table /\ created' = created /\ unstored' = unstored
    BY <1>6 DEF LoginVerify, CallServe, store, history
  <2>2. req'[t] = None /\ \A u \in Threads \ {t} : req'[u] = req[u]
    BY <1>1, <1>6 DEF LoginVerify, CallServe, Finish
  <2> QED
    BY <2>1, <2>2, FrameStored
<1> QED
  BY <1>2, <1>3, <1>4, <1>5, <1>6, RegisterStored DEF Next

\* An account answered "created" stays one of those its registrations brought, and
\* the one answered unless its name was contested, whatever else happens and in any
\* order, as long as the database failed none of its INSERTs.
THEOREM CreatedIsUsableHolds == Spec => []CreatedIsUsable
<1> DEFINE Inv == CreatedInv /\ KnownInv /\ \A n \in Names : Stored(n)
<1>1. Init => Inv
  <2>1. Init => \A n \in Names : Stored(n)
    BY DEF Init, Stored, Past
  <2> QED
    BY <2>1, InitCreated, InitKnown
<1>2. Inv /\ [Next]_vars => Inv'
  <2>1. ASSUME Inv, [Next]_vars PROVE Inv'
    <3>1. TypeInv
      BY <2>1 DEF CreatedInv
    <3> QED
      BY <2>1, <3>1, StepCreated, StepKnown, StepStored
  <2> QED
    BY <2>1
<1>3. Inv => CreatedIsUsable
  BY CreatedSuffices
<1> QED
  BY <1>1, <1>2, <1>3, PTL DEF Spec
=============================================================================
