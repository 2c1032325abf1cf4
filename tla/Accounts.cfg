SPECIFICATION Spec
CONSTANTS
    th1 = th1
    th2 = th2
    admin = admin
    alice = alice
    bob = bob
    pw1 = pw1
    pw2 = pw2
    None = None
    Threads = {th1, th2}
    Names = {admin, alice}
    Secrets = {pw1, pw2}
    Profiles <- ThreeProfiles
    Defaults <- Admins
    DefaultProfile <- AdminProfile
    Demo <- AdminDemo
    MaxRequests = 5
    MaxRestarts = 1
    MaxFaults = 2
SYMMETRY Symmetry
INVARIANTS
    TypeOK
    CreatedIsUsable
    TokenFitsSecret
CHECK_DEADLOCK FALSE
