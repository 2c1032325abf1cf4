----------------------------- MODULE MCAccounts -----------------------------
(* Instances of Accounts for TLC: the default administrator, names people   *)
(* register, two passwords.                                                 *)
EXTENDS Accounts, TLC

CONSTANTS th1, th2, admin, alice, bob, pw1, pw2

Officer == [secret |-> pw1, role |-> "POLICE_OFFICER"]
Clerk == [secret |-> pw2, role |-> "DEPARTMENT_USER"]
Nobody == [secret |-> pw1, role |-> "ANALYST"]
ThreeProfiles == {Officer, Clerk, Nobody}
Admins == <<admin>>
AdminProfile == [n \in Names |-> [secret |-> pw1, role |-> "ADMIN"]]
AdminDemo == [n \in Names |-> IF n = admin THEN {pw1} ELSE {}]

Symmetry == Permutations(Threads)

=============================================================================
