-------------------------- MODULE AlertDeskProofs --------------------------
(***************************************************************************)
(* Proofs about AlertDesk, for any threads, cameras and cooldown.          *)
(***************************************************************************)
EXTENDS AlertDesk, TLAPS

\* Reports that overlap are known to, and none is ahead of the clock.
ReportInv ==
    /\ \A t \in Threads : pc[t] \in {"check", "create"} =>
            call[t] \in Call /\ call[t].now <= clock
    /\ \A t, u \in Threads :
            /\ t # u
            /\ pc[t] \in {"check", "create"}
            /\ pc[u] \in {"check", "create"}
            /\ call[t].camera = call[u].camera
            => call[t].camera \in overlapped

\* The cooldown of a camera is the time of its latest incident, and a report
\* that passed the check is a cooldown later.
CoolingInv ==
    /\ \A c \in Cameras : cooldowns[c] # None => cooldowns[c] <= clock
    /\ \A n \in DOMAIN incidents :
            LET c == incidents[n].camera
            IN c \notin overlapped =>
                  cooldowns[c] # None /\ incidents[n].time <= cooldowns[c]
    /\ \A t \in Threads :
            LET c == call[t].camera
            IN /\ pc[t] \in {"check", "create"}
               /\ c \notin overlapped
               /\ cooldowns[c] # None
               => /\ cooldowns[c] <= call[t].now
                  /\ pc[t] = "create" /\ ~call[t].forced =>
                        call[t].now - cooldowns[c] >= Cooldown

\* The rest of a report or a dispatch is about an incident of this process ...
CallTargets ==
    \A t \in Threads : pc[t] \in {"alert", "persist", "dispatch"} =>
        \E n \in DOMAIN incidents : target[t] = Inc(n)

\* ... and that of a load about a row of the table.
LoadTargets ==
    \A t \in Threads : pc[t] = "load" =>
        \E n \in DOMAIN rows : target[t] = <<"DB", n>>

\* The alert of an incident is not in the store before its report stores it,
Unstored ==
    \A t \in Threads : pc[t] = "alert" => store[target[t]] = None

\* which is the only one to store it,
OwnTargets ==
    \A t, u \in Threads :
        t # u /\ pc[t] = "alert" /\ pc[u] = "alert" => target[t] # target[u]

\* and no alert is there for an incident to come.
Fresh ==
    \A n \in Ids : n > Len(incidents) => store[Inc(n)] = None

\* All of that.
TargetInv ==
    /\ CallTargets
    /\ LoadTargets
    /\ Unstored
    /\ OwnTargets
    /\ Fresh

\* Units sent after the alert was stored were sent to an incident with an alert.
SentInv ==
    \A n \in DOMAIN incidents :
        incidents[n].status = "DISPATCHED" /\ ~incidents[n].early =>
            store[Inc(n)] # None

IInv ==
    /\ TypeOK
    /\ ReportInv
    /\ CoolingInv
    /\ SequentialCooldown
    /\ TargetInv
    /\ SentInv
    /\ DispatchShown

-----------------------------------------------------------------------------
\* The two kinds of keys are apart, and keys with different numbers too.
LEMMA KeyFacts ==
    /\ \A n \in Ids : Inc(n) \in Keys
    /\ \A n \in 1 .. MaxRows : <<"DB", n>> \in Keys
    /\ \A n, m : Inc(n) # <<"DB", m>>
    /\ \A n, m : Inc(n) = Inc(m) => n = m
BY DEF Keys, Inc

\* The types of the local variables of the calls.
LocalsOK ==
    /\ pc \in [Threads -> {"idle", "check", "create", "alert", "persist",
                           "dispatch", "load"}]
    /\ call \in [Threads -> Call \cup {None}]
    /\ target \in [Threads -> Keys \cup {None}]

\* What the check of a report does to the local state of its thread.
CheckEffect(t) ==
    /\ LocalsOK'
    /\ pc[t] = "check"
    /\ \A u \in Threads : u # t =>
         pc'[u] = pc[u] /\ call'[u] = call[u] /\ target'[u] = target[u]
    /\ \/ pc'[t] = "idle" /\ call'[t] = None /\ target'[t] = None
       \/ /\ pc'[t] = "create"
          /\ call'[t] = call[t] /\ target'[t] = target[t]
          /\ call[t].forced \/ ~Cooling(call[t].camera, call[t].now)
    /\ UNCHANGED <<clock, incidents, cooldowns, store, rows, pushed,
                   overlapped, restarts>>

LEMMA CheckFacts ==
    ASSUME TypeOK, NEW t \in Threads, NEW sure \in BOOLEAN, Check(t, sure)
    PROVE  CheckEffect(t)
<1> USE DEF CheckEffect, LocalsOK
<1>1. CASE ~sure \/ (~call[t].forced /\ Cooling(call[t].camera, call[t].now))
    BY <1>1 DEF Check, TypeOK, Finish, Goto, history
<1>2. CASE ~(~sure \/ (~call[t].forced /\ Cooling(call[t].camera, call[t].now)))
    BY <1>2 DEF Check, TypeOK, Goto, history
<1> QED
    BY <1>1, <1>2

\* Incidents are numbered from one, within the bound.
LEMMA IncidentIds ==
    ASSUME TypeOK
    PROVE  /\ \A n \in DOMAIN incidents : n \in Ids
           /\ \A n : n \in DOMAIN incidents <=> n \in Nat /\ 1 <= n /\ n <= Len(incidents)
           /\ \A n \in DOMAIN incidents : incidents[n] \in Incident
BY DeskConstants DEF TypeOK, Ids

\* The target of the second half of a dispatch.
LEMMA DispatchTarget ==
    ASSUME TypeOK, TargetInv, NEW t \in Threads, DispatchAlert(t)
    PROVE  \E n \in DOMAIN incidents :
                n \in Ids /\ target[t] = Inc(n) /\ target[t] \in Keys
BY IncidentIds, KeyFacts DEF DispatchAlert, TargetInv, CallTargets

\* What creating an incident does.
CreateEffect(t) ==
    /\ LocalsOK'
    /\ pc[t] = "create"
    /\ incidents' \in Seq(Incident)
    /\ Len(incidents') = Len(incidents) + 1
    /\ Len(incidents') \in Ids
    /\ \A n \in DOMAIN incidents : incidents'[n] = incidents[n]
    /\ incidents'[Len(incidents) + 1] =
         [camera |-> call[t].camera, time |-> call[t].now,
          forced |-> call[t].forced, status |-> "ACTIVE",
          early |-> FALSE]
    /\ DOMAIN incidents' = DOMAIN incidents \cup {Len(incidents) + 1}
    /\ Len(incidents) + 1 \notin DOMAIN incidents
    /\ cooldowns' \in [Cameras -> Times \cup {None}]
    /\ \A c \in Cameras : cooldowns'[c] =
         IF c = call[t].camera THEN call[t].now ELSE cooldowns[c]
    /\ \A u \in Threads :
         /\ pc'[u] = IF u = t THEN "alert" ELSE pc[u]
         /\ target'[u] = IF u = t THEN Inc(Len(incidents) + 1)
                         ELSE target[u]
    /\ UNCHANGED <<clock, store, rows, pushed, call, overlapped,
                   restarts>>

LEMMA CreateFacts ==
    ASSUME TypeOK, NEW t \in Threads, call[t] \in Call, Create(t)
    PROVE  CreateEffect(t)
<1> DEFINE new == [camera |-> call[t].camera, time |-> call[t].now,
                   forced |-> call[t].forced, status |-> "ACTIVE",
                   early |-> FALSE]
<1>1. new \in Incident
    BY DEF Call, Incident
<1>2. incidents' = Append(incidents, new) /\ Len(incidents) < MaxIncidents
    BY DEF Create
<1>3. incidents \in Seq(Incident) /\ Len(incidents) \in Nat
    BY DEF TypeOK
<1> HIDE DEF new
<1>4. /\ incidents' \in Seq(Incident)
      /\ Len(incidents') = Len(incidents) + 1
      /\ \A n \in DOMAIN incidents : incidents'[n] = incidents[n]
      /\ incidents'[Len(incidents) + 1] = new
      /\ DOMAIN incidents' = DOMAIN incidents \cup {Len(incidents) + 1}
      /\ Len(incidents) + 1 \notin DOMAIN incidents
    BY <1>1, <1>2, <1>3
<1>5. Len(incidents') \in Ids
    BY <1>2, <1>3, <1>4, DeskConstants DEF Ids
<1>6. /\ cooldowns' \in [Cameras -> Times \cup {None}]
      /\ \A c \in Cameras : cooldowns'[c] =
            IF c = call[t].camera THEN call[t].now ELSE cooldowns[c]
    BY DEF Create, TypeOK, Call
<1>7. Inc(Len(incidents) + 1) \in Keys
    BY <1>4, <1>5, KeyFacts
<1>8. /\ LocalsOK'
      /\ pc[t] = "create"
      /\ \A u \in Threads :
            /\ pc'[u] = IF u = t THEN "alert" ELSE pc[u]
            /\ target'[u] = IF u = t THEN Inc(Len(incidents) + 1) ELSE target[u]
      /\ UNCHANGED <<clock, store, rows, pushed, call, overlapped, restarts>>
    BY <1>7 DEF Create, Goto, TypeOK, LocalsOK, history
<1> QED
    BY <1>4, <1>5, <1>6, <1>8 DEF CreateEffect, new

\* What marking an incident as dispatched does.
DispatchEffect(t, n) ==
    /\ LocalsOK'
    /\ pc[t] = "idle"
    /\ n \in DOMAIN incidents
    /\ incidents' \in Seq(Incident)
    /\ Len(incidents') = Len(incidents)
    /\ DOMAIN incidents' = DOMAIN incidents
    /\ \A m \in DOMAIN incidents :
         /\ m # n => incidents'[m] = incidents[m]
         /\ incidents'[m].camera = incidents[m].camera
         /\ incidents'[m].time = incidents[m].time
         /\ incidents'[m].forced = incidents[m].forced
    /\ ~incidents'[n].early => store[Inc(n)] # None
    /\ \A u \in Threads :
         /\ pc'[u] = IF u = t THEN "dispatch" ELSE pc[u]
         /\ target'[u] = IF u = t THEN Inc(n) ELSE target[u]
    /\ UNCHANGED <<clock, cooldowns, store, rows, pushed, call,
                   overlapped, restarts>>

LEMMA DispatchFacts ==
    ASSUME TypeOK, NEW t \in Threads, NEW n \in Ids, Dispatch(t, n)
    PROVE  DispatchEffect(t, n)
<1> DEFINE marked == [incidents[n] EXCEPT !.status = "DISPATCHED",
                            !.early = @ \/ store[Inc(n)] = None]
<1>1. n \in DOMAIN incidents /\ incidents \in Seq(Incident)
    BY DEF Dispatch, TypeOK
<1>2. incidents' = [incidents EXCEPT ![n] = marked]
    BY <1>1 DEF Dispatch
<1>3. incidents[n] \in Incident
    BY <1>1
<1>4. /\ marked \in Incident
      /\ marked.camera = incidents[n].camera
      /\ marked.time = incidents[n].time
      /\ marked.forced = incidents[n].forced
      /\ ~marked.early => store[Inc(n)] # None
    BY <1>3 DEF Incident
<1> HIDE DEF marked
<1>5. /\ incidents' \in Seq(Incident)
      /\ Len(incidents') = Len(incidents)
      /\ DOMAIN incidents' = DOMAIN incidents
      /\ \A m \in DOMAIN incidents :
            incidents'[m] = IF m = n THEN marked ELSE incidents[m]
    BY <1>1, <1>2, <1>4
<1>6. /\ LocalsOK'
      /\ pc[t] = "idle"
      /\ \A u \in Threads :
            /\ pc'[u] = IF u = t THEN "dispatch" ELSE pc[u]
            /\ target'[u] = IF u = t THEN Inc(n) ELSE target[u]
      /\ UNCHANGED <<clock, cooldowns, store, rows, pushed, call, overlapped,
                     restarts>>
    BY KeyFacts DEF Dispatch, Goto, TypeOK, LocalsOK, history
<1> QED
    BY <1>1, <1>4, <1>5, <1>6 DEF DispatchEffect

\* What the end of a call does to the local state of its thread.
FinishEffect(t) ==
    /\ pc'[t] = "idle" /\ call'[t] = None /\ target'[t] = None
    /\ \A u \in Threads : u # t =>
         pc'[u] = pc[u] /\ call'[u] = call[u] /\ target'[u] = target[u]
    /\ LocalsOK'

\* How a call ends.
LEMMA FinishFacts ==
    ASSUME TypeOK, NEW t \in Threads, Finish(t)
    PROVE  FinishEffect(t)
BY DEF FinishEffect, LocalsOK, Finish, Goto, TypeOK

\* The step of DispatchAlert on the store.
DispatchAlertEffect(t) ==
    /\ pc[t] = "dispatch" /\ Finish(t)
    /\ store' \in [Keys -> Alert \cup {None}]
    /\ \A k \in Keys : k # target[t] => store'[k] = store[k]
    /\ store[target[t]] = None => store'[target[t]] = None
    /\ store[target[t]] # None =>
         /\ store'[target[t]] \in Alert
         /\ store'[target[t]].status = "DISPATCHED"
         /\ store'[target[t]].by = store[target[t]].by
    /\ UNCHANGED <<clock, incidents, cooldowns, rows, pushed,
                   overlapped, restarts>>

LEMMA DispatchAlertFacts ==
    ASSUME TypeOK, NEW t \in Threads, target[t] \in Keys, DispatchAlert(t)
    PROVE  DispatchAlertEffect(t)
<1> DEFINE k == target[t]
           shown == [store[k] EXCEPT !.status = "DISPATCHED"]
<1> USE DEF DispatchAlertEffect
<1>1. store \in [Keys -> Alert \cup {None}] /\ k \in Keys
    BY DEF TypeOK
<1>2. CASE store[k] = None
    BY <1>1, <1>2 DEF DispatchAlert, history
<1>3. CASE store[k] # None
  <2>1. store[k] \in Alert
    BY <1>1, <1>3
  <2>2. shown \in Alert /\ shown.status = "DISPATCHED" /\ shown.by = store[k].by
    BY <2>1 DEF Alert
  <2>3. store' = [store EXCEPT ![k] = shown]
    BY <1>1, <1>3 DEF DispatchAlert
  <2> HIDE DEF shown
  <2>4. /\ store' \in [Keys -> Alert \cup {None}]
        /\ store'[k] = shown
        /\ \A j \in Keys : j # k => store'[j] = store[j]
    BY <1>1, <2>2, <2>3
  <2> QED
    BY <1>3, <2>2, <2>4, DeskConstants DEF DispatchAlert, history
<1> QED
    BY <1>2, <1>3

\* The step of LoadStore on the store.
LoadStoreEffect(t) ==
    /\ pc[t] = "load" /\ Finish(t)
    /\ \E n \in 1 .. MaxRows : target[t] = <<"DB", n>>
    /\ store' \in [Keys -> Alert \cup {None}]
    /\ \A k \in Keys : k # target[t] => store'[k] = store[k]
    /\ \A n \in Ids : store'[Inc(n)] = store[Inc(n)]
    /\ UNCHANGED <<clock, incidents, cooldowns, rows, pushed,
                   overlapped, restarts>>

LEMMA LoadStoreFacts ==
    ASSUME TypeOK, TargetInv, NEW t \in Threads, LoadStore(t)
    PROVE  LoadStoreEffect(t)
<1>1. PICK n \in DOMAIN rows : target[t] = <<"DB", n>>
    BY DEF LoadStore, TargetInv, LoadTargets
<1>2. n \in 1 .. MaxRows /\ rows[n] \in Alert
    BY <1>1, DeskConstants DEF TypeOK
<1>3. store' = [store EXCEPT ![<<"DB", n>>] = rows[n]]
    BY <1>1 DEF LoadStore
<1>4. store' \in [Keys -> Alert \cup {None}]
    BY <1>2, <1>3 DEF TypeOK
<1>5. \A k \in Keys : k # <<"DB", n>> => store'[k] = store[k]
    BY <1>3 DEF TypeOK
<1>6. \A m \in Ids : store'[Inc(m)] = store[Inc(m)]
    BY <1>5, KeyFacts
<1> QED
    BY <1>1, <1>2, <1>4, <1>5, <1>6 DEF LoadStoreEffect, LoadStore, history

\* What starting again does: no alert of an incident is in the store.
StartupEffect(s) ==
    /\ s \in [Keys -> Alert \cup {None}]
    /\ \A n \in Ids : s[Inc(n)] = None

LEMMA StartupFacts ==
    ASSUME NEW table \in Seq(Alert), NEW s \in Startup(table)
    PROVE  StartupEffect(s)
<1>1. \A k \in Keys : k[1] = "DB" /\ k[2] \in DOMAIN table => table[k[2]] \in Alert
    OBVIOUS
<1>2. Synced(table) \in [Keys -> Alert \cup {None}]
    BY <1>1 DEF Synced
<1>3. \A n \in Ids : Inc(n)[1] # "DB"
    BY DEF Inc
<1> QED
    BY <1>2, <1>3, KeyFacts DEF StartupEffect, Startup, Synced

\* Reports.
LEMMA ReportStep ==
    ASSUME TypeOK, ReportInv, [Next]_vars
    PROVE  ReportInv'
<1>1. CASE Tick
    BY <1>1, DeskConstants, KeyFacts
       DEF Tick, locals, history, TypeOK, ReportInv, Call, Times
<1>2. ASSUME NEW t \in Threads,
             \E c \in Cameras, forced \in BOOLEAN : Report(t, c, forced)
      PROVE  ReportInv'
    BY <1>2, DeskConstants, KeyFacts
       DEF Report, Goto, Reporting, TypeOK, ReportInv, Call, Times
<1>3. ASSUME NEW t \in Threads, \E sure \in BOOLEAN : Check(t, sure)
      PROVE  ReportInv'
  <2>1. CheckEffect(t)
    BY <1>3, CheckFacts
  <2>2. /\ pc[t] = "check"
        /\ pc'[t] # "idle" => call'[t] = call[t]
    BY <2>1, KeyFacts DEF CheckEffect
  <2>3. \A u \in Threads : pc'[u] \in {"check", "create"} =>
            pc[u] \in {"check", "create"} /\ call'[u] = call[u]
    BY <2>1, <2>2 DEF CheckEffect
  <2>4. clock' = clock /\ overlapped' = overlapped
    BY <2>1 DEF CheckEffect
  <2>5. QED
    BY <2>3, <2>4 DEF ReportInv
<1>4. ASSUME NEW t \in Threads, Create(t)
      PROVE  ReportInv'
  <2>1. call[t] \in Call /\ call[t].now <= clock
    BY <1>4 DEF Create, ReportInv
  <2>2. CreateEffect(t)
    BY <1>4, <2>1, CreateFacts
  <2>3. QED
    BY <2>1, <2>2, DeskConstants, KeyFacts
       DEF CreateEffect, TypeOK, ReportInv, Call, Times
<1>5. ASSUME NEW t \in Threads, StoreAlert(t)
      PROVE  ReportInv'
    BY <1>5, DeskConstants, KeyFacts
       DEF StoreAlert, Goto, history, TypeOK, ReportInv, Call, Times
<1>6. ASSUME NEW t \in Threads, PersistAndBroadcast(t)
      PROVE  ReportInv'
    BY <1>6, DeskConstants, KeyFacts
       DEF PersistAndBroadcast, Finish, Goto, InsertRow, history, TypeOK,
           ReportInv, Call, Times
<1>7. ASSUME NEW t \in Threads, \E n \in Ids : Dispatch(t, n)
      PROVE  ReportInv'
  <2>1. PICK n \in Ids : Dispatch(t, n)
    BY <1>7
  <2>2. DispatchEffect(t, n)
    BY <2>1, DispatchFacts
  <2>3. QED
    BY <2>2, DeskConstants, KeyFacts
       DEF DispatchEffect, TypeOK, ReportInv, Call, Times
<1>8. ASSUME NEW t \in Threads, DispatchAlert(t)
      PROVE  ReportInv'
    BY <1>8, DeskConstants, KeyFacts
       DEF DispatchAlert, Finish, Goto, history, TypeOK, ReportInv, Call,
           Times
<1>9. ASSUME NEW t \in Threads,
             \E k \in Handled, who \in Officers : Acknowledge(t, k, who)
      PROVE  ReportInv'
    BY <1>9, DeskConstants, KeyFacts
       DEF Acknowledge, locals, history, TypeOK, ReportInv, Call, Times
<1>10. ASSUME NEW t \in Threads, \E n \in 1 .. MaxRows : Load(t, n)
      PROVE  ReportInv'
    BY <1>10, DeskConstants, KeyFacts
       DEF Load, Goto, history, TypeOK, ReportInv, Call, Times
<1>11. ASSUME NEW t \in Threads, LoadStore(t)
      PROVE  ReportInv'
    BY <1>11, DeskConstants, KeyFacts
       DEF LoadStore, Finish, Goto, history, TypeOK, ReportInv, Call, Times
<1>12. CASE PipelineAlert
    BY <1>12, DeskConstants, KeyFacts
       DEF PipelineAlert, InsertRow, locals, history, TypeOK, ReportInv, Call,
           Times
<1>13. CASE Restart
    BY <1>13, DeskConstants, KeyFacts
       DEF Restart, TypeOK, ReportInv, Call, Times
<1>14. CASE UNCHANGED vars
    BY <1>14 DEF vars, locals, history, TypeOK, ReportInv, Call, Times
<1> QED
    BY <1>1, <1>2, <1>3, <1>4, <1>5, <1>6, <1>7, <1>8, <1>9, <1>10, <1>11,
       <1>12, <1>13, <1>14, SMTT(30) DEF Next

\* Targets.
LEMMA TargetStep ==
    ASSUME TypeOK, ReportInv, TargetInv, [Next]_vars
    PROVE  TargetInv'
<1>1. CASE Tick
    BY <1>1, DeskConstants, KeyFacts
       DEF Tick, locals, history, TypeOK, TargetInv, CallTargets, LoadTargets,
           Unstored, OwnTargets, Fresh, Ids
<1>2. ASSUME NEW t \in Threads,
             \E c \in Cameras, forced \in BOOLEAN : Report(t, c, forced)
      PROVE  TargetInv'
    BY <1>2, DeskConstants, KeyFacts
       DEF Report, Goto, Reporting, TypeOK, TargetInv, CallTargets,
           LoadTargets, Unstored, OwnTargets, Fresh, Ids
<1>3. ASSUME NEW t \in Threads, \E sure \in BOOLEAN : Check(t, sure)
      PROVE  TargetInv'
  <2>1. CheckEffect(t)
    BY <1>3, CheckFacts
  <2>2. CallTargets'
    BY <2>1, DeskConstants, KeyFacts DEF CheckEffect, CallTargets, TargetInv
  <2>3. LoadTargets'
    BY <2>1, DeskConstants, KeyFacts DEF CheckEffect, LoadTargets, TargetInv
  <2>4. Unstored'
    BY <2>1, DeskConstants, KeyFacts DEF CheckEffect, Unstored, TargetInv
  <2>5. OwnTargets'
    BY <2>1, DeskConstants, KeyFacts DEF CheckEffect, OwnTargets, TargetInv
  <2>6. Fresh'
    BY <2>1, DeskConstants, KeyFacts DEF CheckEffect, Fresh, TargetInv
  <2>7. QED
    BY <2>2, <2>3, <2>4, <2>5, <2>6 DEF TargetInv
<1>4. ASSUME NEW t \in Threads, Create(t)
      PROVE  TargetInv'
  <2>1. call[t] \in Call /\ call[t].now <= clock
    BY <1>4 DEF Create, ReportInv
  <2>2. CreateEffect(t)
    BY <1>4, <2>1, CreateFacts
  <2>3. CallTargets'
    BY <2>1, <2>2, DeskConstants, KeyFacts
       DEF CreateEffect, CallTargets, TargetInv
  <2>4. LoadTargets'
    BY <2>1, <2>2, DeskConstants, KeyFacts
       DEF CreateEffect, LoadTargets, TargetInv
  <2>5. Unstored'
    BY <2>1, <2>2, DeskConstants, KeyFacts, SMTT(30)
       DEF CreateEffect, Unstored, TargetInv, CallTargets, Fresh, TypeOK
  <2>6. OwnTargets'
    BY <2>2, IncidentIds, KeyFacts
       DEF CreateEffect, OwnTargets, CallTargets, TargetInv
  <2>7. Fresh'
    <3>1. Len(incidents) \in Nat /\ Len(incidents') = Len(incidents) + 1
      BY <2>2 DEF CreateEffect, TypeOK
    <3>2. \A n \in Ids : n > Len(incidents') => n > Len(incidents)
      BY <3>1 DEF Ids
    <3>3. QED
      BY <2>2, <3>2 DEF CreateEffect, Fresh, TargetInv
  <2>8. QED
    BY <2>3, <2>4, <2>5, <2>6, <2>7 DEF TargetInv
<1>5. ASSUME NEW t \in Threads, StoreAlert(t)
      PROVE  TargetInv'
    BY <1>5, DeskConstants, KeyFacts
       DEF StoreAlert, Goto, history, TypeOK, TargetInv, CallTargets,
           LoadTargets, Unstored, OwnTargets, Fresh, Ids
<1>6. ASSUME NEW t \in Threads, PersistAndBroadcast(t)
      PROVE  TargetInv'
    BY <1>6, DeskConstants, KeyFacts
       DEF PersistAndBroadcast, Finish, Goto, InsertRow, history, TypeOK,
           TargetInv, CallTargets, LoadTargets, Unstored, OwnTargets, Fresh,
           Ids
<1>7. ASSUME NEW t \in Threads, \E n \in Ids : Dispatch(t, n)
      PROVE  TargetInv'
  <2>1. PICK n \in Ids : Dispatch(t, n)
    BY <1>7
  <2>2. DispatchEffect(t, n)
    BY <2>1, DispatchFacts
  <2>3. CallTargets'
    BY <2>2, DeskConstants, KeyFacts
       DEF DispatchEffect, CallTargets, TargetInv
  <2>4. LoadTargets'
    BY <2>2, DeskConstants, KeyFacts
       DEF DispatchEffect, LoadTargets, TargetInv
  <2>5. Unstored'
    BY <2>2, DeskConstants, KeyFacts DEF DispatchEffect, Unstored, TargetInv
  <2>6. OwnTargets'
    BY <2>2, DeskConstants, KeyFacts DEF DispatchEffect, OwnTargets, TargetInv
  <2>7. Fresh'
    BY <2>2, DeskConstants, KeyFacts DEF DispatchEffect, Fresh, TargetInv
  <2>8. QED
    BY <2>3, <2>4, <2>5, <2>6, <2>7 DEF TargetInv
<1>8. ASSUME NEW t \in Threads, DispatchAlert(t)
      PROVE  TargetInv'
  <2>1. PICK n \in DOMAIN incidents :
            n \in Ids /\ target[t] = Inc(n) /\ target[t] \in Keys
    BY <1>8, DispatchTarget
  <2>2. DispatchAlertEffect(t) /\ FinishEffect(t)
    BY <1>8, <2>1, DispatchAlertFacts, FinishFacts DEF DispatchAlertEffect
  <2>3. CallTargets'
    BY <2>1, <2>2, DeskConstants, KeyFacts
       DEF DispatchAlertEffect, FinishEffect, CallTargets, TargetInv
  <2>4. LoadTargets'
    BY <2>1, <2>2, DeskConstants, KeyFacts
       DEF DispatchAlertEffect, FinishEffect, LoadTargets, TargetInv
  <2>5. Unstored'
    <3>1. \A u \in Threads : pc'[u] = "alert" =>
            pc[u] = "alert" /\ target'[u] = target[u] /\ target[u] \in Keys
      BY <2>2, IncidentIds, KeyFacts
         DEF DispatchAlertEffect, FinishEffect, TargetInv, CallTargets
    <3>2. QED
      BY <2>2, <3>1 DEF DispatchAlertEffect, TargetInv, Unstored
  <2>6. OwnTargets'
    BY <2>1, <2>2, DeskConstants, KeyFacts
       DEF DispatchAlertEffect, FinishEffect, OwnTargets, TargetInv
  <2>7. Fresh'
    BY <2>1, <2>2, DeskConstants, KeyFacts
       DEF DispatchAlertEffect, FinishEffect, Fresh, TargetInv, CallTargets,
           TypeOK, Ids
  <2>8. QED
    BY <2>3, <2>4, <2>5, <2>6, <2>7 DEF TargetInv
<1>9. ASSUME NEW t \in Threads,
             \E k \in Handled, who \in Officers : Acknowledge(t, k, who)
      PROVE  TargetInv'
    BY <1>9, DeskConstants, KeyFacts
       DEF Acknowledge, locals, history, TypeOK, TargetInv, CallTargets,
           LoadTargets, Unstored, OwnTargets, Fresh, Ids
<1>10. ASSUME NEW t \in Threads, \E n \in 1 .. MaxRows : Load(t, n)
      PROVE  TargetInv'
    BY <1>10, DeskConstants, KeyFacts
       DEF Load, Goto, history, TypeOK, TargetInv, CallTargets, LoadTargets,
           Unstored, OwnTargets, Fresh, Ids
<1>11. ASSUME NEW t \in Threads, LoadStore(t)
      PROVE  TargetInv'
  <2>1. LoadStoreEffect(t) /\ FinishEffect(t)
    BY <1>11, LoadStoreFacts, FinishFacts DEF LoadStoreEffect
  <2>2. CallTargets'
    BY <2>1, DeskConstants, KeyFacts
       DEF LoadStoreEffect, FinishEffect, CallTargets, TargetInv
  <2>3. LoadTargets'
    BY <2>1, DeskConstants, KeyFacts
       DEF LoadStoreEffect, FinishEffect, LoadTargets, TargetInv
  <2>4. Unstored'
    BY <2>1, DeskConstants, KeyFacts
       DEF LoadStoreEffect, FinishEffect, Unstored, TargetInv, CallTargets,
           TypeOK, Ids
  <2>5. OwnTargets'
    BY <2>1, DeskConstants, KeyFacts
       DEF LoadStoreEffect, FinishEffect, OwnTargets, TargetInv
  <2>6. Fresh'
    BY <2>1, DeskConstants, KeyFacts
       DEF LoadStoreEffect, FinishEffect, Fresh, TargetInv, Ids
  <2>7. QED
    BY <2>2, <2>3, <2>4, <2>5, <2>6 DEF TargetInv
<1>12. CASE PipelineAlert
    BY <1>12, DeskConstants, KeyFacts
       DEF PipelineAlert, InsertRow, locals, history, TypeOK, TargetInv,
           CallTargets, LoadTargets, Unstored, OwnTargets, Fresh, Ids
<1>13. CASE Restart
  <2>1. StartupEffect(store')
    BY <1>13, StartupFacts DEF Restart, TypeOK
  <2>2. QED
    BY <1>13, <2>1, DeskConstants, KeyFacts
       DEF Restart, StartupEffect, TypeOK, TargetInv, CallTargets,
           LoadTargets, Unstored, OwnTargets, Fresh, Ids
<1>14. CASE UNCHANGED vars
    BY <1>14
       DEF vars, locals, history, TypeOK, TargetInv, CallTargets, LoadTargets,
           Unstored, OwnTargets, Fresh, Ids
<1> QED
    BY <1>1, <1>2, <1>3, <1>4, <1>5, <1>6, <1>7, <1>8, <1>9, <1>10, <1>11,
       <1>12, <1>13, <1>14, SMTT(30) DEF Next

\* Types.
LEMMA TypeStep ==
    ASSUME TypeOK, ReportInv, TargetInv, [Next]_vars
    PROVE  TypeOK'
<1>1. CASE Tick
    BY <1>1, DeskConstants, KeyFacts
       DEF Tick, locals, history, TypeOK, Call, Times, Alert, NewAlert
<1>2. ASSUME NEW t \in Threads,
             \E c \in Cameras, forced \in BOOLEAN : Report(t, c, forced)
      PROVE  TypeOK'
    BY <1>2, DeskConstants, KeyFacts
       DEF Report, Goto, Reporting, TypeOK, Call, Times, Alert, NewAlert
<1>3. ASSUME NEW t \in Threads, \E sure \in BOOLEAN : Check(t, sure)
      PROVE  TypeOK'
  <2>1. CheckEffect(t)
    BY <1>3, CheckFacts
  <2>2. QED
    BY <2>1, DeskConstants, KeyFacts
       DEF CheckEffect, Cooling, TypeOK, LocalsOK, Ids
<1>4. ASSUME NEW t \in Threads, Create(t)
      PROVE  TypeOK'
  <2>1. call[t] \in Call /\ call[t].now <= clock
    BY <1>4 DEF Create, ReportInv
  <2>2. CreateEffect(t)
    BY <1>4, <2>1, CreateFacts
  <2>3. QED
    BY <2>1, <2>2, DeskConstants, KeyFacts
       DEF CreateEffect, TypeOK, LocalsOK, Ids
<1>5. ASSUME NEW t \in Threads, StoreAlert(t)
      PROVE  TypeOK'
    BY <1>5, DeskConstants, KeyFacts
       DEF StoreAlert, Goto, history, TypeOK, Call, Times, Alert, NewAlert
<1>6. ASSUME NEW t \in Threads, PersistAndBroadcast(t)
      PROVE  TypeOK'
  <2>1. FinishEffect(t) /\ target[t] \in Keys
    BY <1>6, FinishFacts, IncidentIds, KeyFacts
       DEF PersistAndBroadcast, TargetInv, CallTargets
  <2>2. rows' \in Seq(Alert) /\ Len(rows') <= MaxRows
    <3>1. rows \in Seq(Alert) /\ Len(rows) <= MaxRows /\ MaxRows \in Nat
      BY DeskConstants DEF TypeOK
    <3>2. NewAlert \in Alert
      BY DEF Alert, NewAlert
    <3>3. rows' = rows \/ (Len(rows) < MaxRows /\ rows' = Append(rows, NewAlert))
      BY <1>6 DEF PersistAndBroadcast, InsertRow
    <3>4. QED
      BY <3>1, <3>2, <3>3
  <2>3. pushed' \subseteq Keys
    BY <1>6, <2>1 DEF PersistAndBroadcast, TypeOK
  <2>4. QED
    BY <1>6, <2>1, <2>2, <2>3
       DEF PersistAndBroadcast, FinishEffect, LocalsOK, TypeOK, history
<1>7. ASSUME NEW t \in Threads, \E n \in Ids : Dispatch(t, n)
      PROVE  TypeOK'
  <2>1. PICK n \in Ids : Dispatch(t, n)
    BY <1>7
  <2>2. DispatchEffect(t, n)
    BY <2>1, DispatchFacts
  <2>3. QED
    BY <2>2, DeskConstants, KeyFacts DEF DispatchEffect, TypeOK, LocalsOK, Ids
<1>8. ASSUME NEW t \in Threads, DispatchAlert(t)
      PROVE  TypeOK'
  <2>1. PICK n \in DOMAIN incidents :
            n \in Ids /\ target[t] = Inc(n) /\ target[t] \in Keys
    BY <1>8, DispatchTarget
  <2>2. DispatchAlertEffect(t) /\ FinishEffect(t)
    BY <1>8, <2>1, DispatchAlertFacts, FinishFacts DEF DispatchAlertEffect
  <2>3. QED
    BY <2>1, <2>2, DeskConstants, KeyFacts
       DEF DispatchAlertEffect, FinishEffect, TypeOK, LocalsOK
<1>9. ASSUME NEW t \in Threads,
             \E k \in Handled, who \in Officers : Acknowledge(t, k, who)
      PROVE  TypeOK'
    BY <1>9, DeskConstants, KeyFacts
       DEF Acknowledge, locals, history, TypeOK, Call, Times, Alert, NewAlert
<1>10. ASSUME NEW t \in Threads, \E n \in 1 .. MaxRows : Load(t, n)
      PROVE  TypeOK'
    BY <1>10, DeskConstants, KeyFacts
       DEF Load, Goto, history, TypeOK, Call, Times, Alert, NewAlert
<1>11. ASSUME NEW t \in Threads, LoadStore(t)
      PROVE  TypeOK'
  <2>1. LoadStoreEffect(t) /\ FinishEffect(t)
    BY <1>11, LoadStoreFacts, FinishFacts DEF LoadStoreEffect
  <2>2. QED
    BY <2>1, DeskConstants, KeyFacts
       DEF LoadStoreEffect, FinishEffect, TypeOK, LocalsOK, Ids
<1>12. CASE PipelineAlert
    BY <1>12, DeskConstants, KeyFacts
       DEF PipelineAlert, InsertRow, locals, history, TypeOK, Call, Times,
           Alert, NewAlert
<1>13. CASE Restart
  <2>1. StartupEffect(store')
    BY <1>13, StartupFacts DEF Restart, TypeOK
  <2>2. QED
    BY <1>13, <2>1, DeskConstants, KeyFacts
       DEF Restart, StartupEffect, TypeOK, Ids
<1>14. CASE UNCHANGED vars
    BY <1>14 DEF vars, locals, history, TypeOK, Ids
<1> QED
    BY <1>1, <1>2, <1>3, <1>4, <1>5, <1>6, <1>7, <1>8, <1>9, <1>10, <1>11,
       <1>12, <1>13, <1>14, SMTT(30) DEF Next

\* Cooldowns.
LEMMA CoolingStep ==
    ASSUME TypeOK, ReportInv, CoolingInv, [Next]_vars
    PROVE  CoolingInv'
<1>1. CASE Tick
    BY <1>1, DeskConstants, SMTT(30)
       DEF Tick, locals, history, TypeOK, ReportInv, CoolingInv, Call, Times,
           Incident
<1>2. ASSUME NEW t \in Threads,
             \E c \in Cameras, forced \in BOOLEAN : Report(t, c, forced)
      PROVE  CoolingInv'
    BY <1>2, DeskConstants, KeyFacts
       DEF Report, Goto, Reporting, TypeOK, ReportInv, CoolingInv, Call,
           Times, Incident
<1>3. ASSUME NEW t \in Threads, \E sure \in BOOLEAN : Check(t, sure)
      PROVE  CoolingInv'
  <2>1. CheckEffect(t)
    BY <1>3, CheckFacts
  <2>2. QED
    BY <2>1, DeskConstants, KeyFacts
       DEF CheckEffect, Cooling, TypeOK, ReportInv, CoolingInv, Call, Times,
           Incident
<1>4. ASSUME NEW t \in Threads, Create(t)
      PROVE  CoolingInv'
  <2>1. call[t] \in Call /\ call[t].now <= clock
    BY <1>4 DEF Create, ReportInv
  <2>2. CreateEffect(t)
    BY <1>4, <2>1, CreateFacts
  <2> DEFINE c == call[t].camera
             now == call[t].now
  <2>3. /\ c \in Cameras /\ now \in Int /\ now # None
        /\ pc[t] = "create"
        /\ cooldowns'[c] = now
    BY <2>1, <2>2, DeskConstants DEF CreateEffect, Call, Times
  <2>4. c \notin overlapped /\ cooldowns[c] # None => cooldowns[c] <= now
    BY <2>3 DEF CoolingInv
  <2>5. \A d \in Cameras : cooldowns'[d] # None => cooldowns'[d] <= clock'
    BY <2>1, <2>2 DEF CreateEffect, CoolingInv
  <2>6. ASSUME NEW n \in DOMAIN incidents', incidents'[n].camera \notin overlapped'
        PROVE  /\ cooldowns'[incidents'[n].camera] # None
               /\ incidents'[n].time <= cooldowns'[incidents'[n].camera]
    <3>1. CASE n = Len(incidents) + 1
      BY <2>2, <2>3, <2>6, <3>1 DEF CreateEffect
    <3>2. CASE n \in DOMAIN incidents
      <4>1. /\ incidents'[n] = incidents[n] /\ incidents[n] \in Incident
            /\ incidents[n].camera \notin overlapped
        BY <2>2, <2>6, <3>2, IncidentIds DEF CreateEffect
      <4>2. /\ cooldowns[incidents[n].camera] # None
            /\ incidents[n].time <= cooldowns[incidents[n].camera]
        BY <3>2, <4>1 DEF CoolingInv
      <4>3. /\ incidents[n].camera \in Cameras /\ incidents[n].time \in Int
            /\ cooldowns[incidents[n].camera] \in Int
        BY <4>1, <4>2 DEF Incident, Times, TypeOK
      <4>4. CASE incidents[n].camera = c
        BY <2>3, <2>4, <4>1, <4>2, <4>3, <4>4
      <4>5. CASE incidents[n].camera # c
        BY <2>2, <4>1, <4>2, <4>3, <4>5 DEF CreateEffect
      <4>6. QED
        BY <4>4, <4>5
    <3>3. QED
      BY <2>2, <3>1, <3>2 DEF CreateEffect
  <2>7. ASSUME NEW u \in Threads, pc'[u] \in {"check", "create"},
               call'[u].camera \notin overlapped',
               cooldowns'[call'[u].camera] # None
        PROVE  /\ cooldowns'[call'[u].camera] <= call'[u].now
               /\ pc'[u] = "create" /\ ~call'[u].forced =>
                    call'[u].now - cooldowns'[call'[u].camera] >= Cooldown
    <3>1. /\ u # t /\ pc'[u] = pc[u] /\ call'[u] = call[u]
          /\ call[u] \in Call /\ call[u].camera # c
      BY <2>2, <2>3, <2>7 DEF CreateEffect, ReportInv
    <3>2. cooldowns'[call[u].camera] = cooldowns[call[u].camera]
      BY <2>2, <3>1 DEF CreateEffect, Call
    <3>3. QED
      BY <2>2, <2>7, <3>1, <3>2 DEF CreateEffect, CoolingInv
  <2>8. QED
    BY <2>5, <2>6, <2>7 DEF CoolingInv
<1>5. ASSUME NEW t \in Threads, StoreAlert(t)
      PROVE  CoolingInv'
    BY <1>5, DeskConstants, KeyFacts
       DEF StoreAlert, Goto, history, TypeOK, ReportInv, CoolingInv, Call,
           Times, Incident
<1>6. ASSUME NEW t \in Threads, PersistAndBroadcast(t)
      PROVE  CoolingInv'
    BY <1>6, DeskConstants, KeyFacts
       DEF PersistAndBroadcast, Finish, Goto, InsertRow, history, TypeOK,
           ReportInv, CoolingInv, Call, Times, Incident
<1>7. ASSUME NEW t \in Threads, \E n \in Ids : Dispatch(t, n)
      PROVE  CoolingInv'
  <2>1. PICK n \in Ids : Dispatch(t, n)
    BY <1>7
  <2>2. DispatchEffect(t, n)
    BY <2>1, DispatchFacts
  <2>3. QED
    BY <2>2, DeskConstants, KeyFacts
       DEF DispatchEffect, TypeOK, ReportInv, CoolingInv, Call, Times,
           Incident
<1>8. ASSUME NEW t \in Threads, DispatchAlert(t)
      PROVE  CoolingInv'
    BY <1>8, DeskConstants, KeyFacts
       DEF DispatchAlert, Finish, Goto, history, TypeOK, ReportInv,
           CoolingInv, Call, Times, Incident
<1>9. ASSUME NEW t \in Threads,
             \E k \in Handled, who \in Officers : Acknowledge(t, k, who)
      PROVE  CoolingInv'
    BY <1>9, DeskConstants, KeyFacts
       DEF Acknowledge, locals, history, TypeOK, ReportInv, CoolingInv, Call,
           Times, Incident
<1>10. ASSUME NEW t \in Threads, \E n \in 1 .. MaxRows : Load(t, n)
      PROVE  CoolingInv'
    BY <1>10, DeskConstants, KeyFacts
       DEF Load, Goto, history, TypeOK, ReportInv, CoolingInv, Call, Times,
           Incident
<1>11. ASSUME NEW t \in Threads, LoadStore(t)
      PROVE  CoolingInv'
    BY <1>11, DeskConstants, KeyFacts
       DEF LoadStore, Finish, Goto, history, TypeOK, ReportInv, CoolingInv,
           Call, Times, Incident
<1>12. CASE PipelineAlert
    BY <1>12, DeskConstants, KeyFacts
       DEF PipelineAlert, InsertRow, locals, history, TypeOK, ReportInv,
           CoolingInv, Call, Times, Incident
<1>13. CASE Restart
    BY <1>13, DeskConstants, KeyFacts
       DEF Restart, TypeOK, ReportInv, CoolingInv, Call, Times, Incident
<1>14. CASE UNCHANGED vars
    BY <1>14
       DEF vars, locals, history, TypeOK, ReportInv, CoolingInv, Call, Times,
           Incident
<1> QED
    BY <1>1, <1>2, <1>3, <1>4, <1>5, <1>6, <1>7, <1>8, <1>9, <1>10, <1>11,
       <1>12, <1>13, <1>14, SMTT(30) DEF Next

\* Incidents a cooldown apart.
LEMMA SequentialStep ==
    ASSUME TypeOK, ReportInv, CoolingInv, SequentialCooldown, [Next]_vars
    PROVE  SequentialCooldown'
<1>1. CASE Tick
    BY <1>1, DeskConstants, KeyFacts
       DEF Tick, locals, history, TypeOK, CoolingInv, SequentialCooldown,
           Call, Times, Incident
<1>2. ASSUME NEW t \in Threads,
             \E c \in Cameras, forced \in BOOLEAN : Report(t, c, forced)
      PROVE  SequentialCooldown'
    BY <1>2, DeskConstants, KeyFacts
       DEF Report, Goto, Reporting, TypeOK, CoolingInv, SequentialCooldown,
           Call, Times, Incident
<1>3. ASSUME NEW t \in Threads, \E sure \in BOOLEAN : Check(t, sure)
      PROVE  SequentialCooldown'
  <2>1. CheckEffect(t)
    BY <1>3, CheckFacts
  <2>2. QED
    BY <2>1, DeskConstants, KeyFacts
       DEF CheckEffect, Cooling, TypeOK, CoolingInv, SequentialCooldown, Call,
           Times, Incident
<1>4. ASSUME NEW t \in Threads, Create(t)
      PROVE  SequentialCooldown'
  <2>1. call[t] \in Call /\ call[t].now <= clock
    BY <1>4 DEF Create, ReportInv
  <2>2. CreateEffect(t)
    BY <1>4, <2>1, CreateFacts
  <2>3. SUFFICES ASSUME NEW n \in DOMAIN incidents', NEW m \in DOMAIN incidents',
                        n < m,
                        incidents'[n].camera = incidents'[m].camera,
                        incidents'[n].camera \notin overlapped',
                        ~incidents'[m].forced
                 PROVE  incidents'[m].time >= incidents'[n].time + Cooldown
    BY DEF SequentialCooldown
  <2>4. n \in DOMAIN incidents /\ incidents'[n] = incidents[n]
    BY <2>2, <2>3, IncidentIds DEF CreateEffect, TypeOK
  <2>5. CASE m \in DOMAIN incidents
    BY <2>2, <2>3, <2>4, <2>5 DEF CreateEffect, SequentialCooldown
  <2>6. CASE m = Len(incidents) + 1
    <3> DEFINE c == call[t].camera
    <3>1. /\ incidents'[m].camera = c /\ incidents'[m].time = call[t].now
          /\ incidents'[m].forced = call[t].forced
          /\ pc[t] = "create" /\ c \in Cameras /\ c \notin overlapped
      BY <2>1, <2>2, <2>3, <2>6, <2>4 DEF CreateEffect, Call
    <3>2. cooldowns[c] # None /\ incidents[n].time <= cooldowns[c]
      BY <2>3, <2>4, <3>1 DEF CoolingInv
    <3>3. call[t].now - cooldowns[c] >= Cooldown
      BY <2>3, <3>1, <3>2 DEF CoolingInv
    <3>4. /\ call[t].now \in Int /\ cooldowns[c] \in Int
          /\ incidents[n].time \in Int /\ Cooldown \in Int
      BY <2>1, <2>4, <3>1, <3>2, IncidentIds, DeskConstants
         DEF Call, Times, Incident, TypeOK
    <3>5. QED
      BY <2>4, <3>1, <3>2, <3>3, <3>4
  <2>7. QED
    BY <2>2, <2>5, <2>6 DEF CreateEffect
<1>5. ASSUME NEW t \in Threads, StoreAlert(t)
      PROVE  SequentialCooldown'
    BY <1>5, DeskConstants, KeyFacts
       DEF StoreAlert, Goto, history, TypeOK, CoolingInv, SequentialCooldown,
           Call, Times, Incident
<1>6. ASSUME NEW t \in Threads, PersistAndBroadcast(t)
      PROVE  SequentialCooldown'
    BY <1>6, DeskConstants, KeyFacts
       DEF PersistAndBroadcast, Finish, Goto, InsertRow, history, TypeOK,
           CoolingInv, SequentialCooldown, Call, Times, Incident
<1>7. ASSUME NEW t \in Threads, \E n \in Ids : Dispatch(t, n)
      PROVE  SequentialCooldown'
  <2>1. PICK n \in Ids : Dispatch(t, n)
    BY <1>7
  <2>2. DispatchEffect(t, n)
    BY <2>1, DispatchFacts
  <2>3. QED
    BY <2>2, DeskConstants, KeyFacts
       DEF DispatchEffect, TypeOK, CoolingInv, SequentialCooldown, Call,
           Times, Incident
<1>8. ASSUME NEW t \in Threads, DispatchAlert(t)
      PROVE  SequentialCooldown'
    BY <1>8, DeskConstants, KeyFacts
       DEF DispatchAlert, Finish, Goto, history, TypeOK, CoolingInv,
           SequentialCooldown, Call, Times, Incident
<1>9. ASSUME NEW t \in Threads,
             \E k \in Handled, who \in Officers : Acknowledge(t, k, who)
      PROVE  SequentialCooldown'
    BY <1>9, DeskConstants, KeyFacts
       DEF Acknowledge, locals, history, TypeOK, CoolingInv,
           SequentialCooldown, Call, Times, Incident
<1>10. ASSUME NEW t \in Threads, \E n \in 1 .. MaxRows : Load(t, n)
      PROVE  SequentialCooldown'
    BY <1>10, DeskConstants, KeyFacts
       DEF Load, Goto, history, TypeOK, CoolingInv, SequentialCooldown, Call,
           Times, Incident
<1>11. ASSUME NEW t \in Threads, LoadStore(t)
      PROVE  SequentialCooldown'
    BY <1>11, DeskConstants, KeyFacts
       DEF LoadStore, Finish, Goto, history, TypeOK, CoolingInv,
           SequentialCooldown, Call, Times, Incident
<1>12. CASE PipelineAlert
    BY <1>12, DeskConstants, KeyFacts
       DEF PipelineAlert, InsertRow, locals, history, TypeOK, CoolingInv,
           SequentialCooldown, Call, Times, Incident
<1>13. CASE Restart
    BY <1>13, DeskConstants, KeyFacts
       DEF Restart, TypeOK, CoolingInv, SequentialCooldown, Call, Times,
           Incident
<1>14. CASE UNCHANGED vars
    BY <1>14
       DEF vars, locals, history, TypeOK, CoolingInv, SequentialCooldown,
           Call, Times, Incident
<1> QED
    BY <1>1, <1>2, <1>3, <1>4, <1>5, <1>6, <1>7, <1>8, <1>9, <1>10, <1>11,
       <1>12, <1>13, <1>14, SMTT(30) DEF Next

\* Units sent.
LEMMA SentStep ==
    ASSUME TypeOK, ReportInv, TargetInv, SentInv, [Next]_vars
    PROVE  SentInv'
<1>1. CASE Tick
    BY <1>1, DeskConstants, KeyFacts
       DEF Tick, locals, history, TypeOK, TargetInv, CallTargets, LoadTargets,
           Unstored, OwnTargets, Fresh, SentInv, Incident, Ids, Alert,
           NewAlert
<1>2. ASSUME NEW t \in Threads,
             \E c \in Cameras, forced \in BOOLEAN : Report(t, c, forced)
      PROVE  SentInv'
    BY <1>2, DeskConstants, KeyFacts
       DEF Report, Goto, Reporting, TypeOK, TargetInv, CallTargets,
           LoadTargets, Unstored, OwnTargets, Fresh, SentInv, Incident, Ids,
           Alert, NewAlert
<1>3. ASSUME NEW t \in Threads, \E sure \in BOOLEAN : Check(t, sure)
      PROVE  SentInv'
  <2>1. CheckEffect(t)
    BY <1>3, CheckFacts
  <2>2. QED
    BY <2>1, DeskConstants, KeyFacts
       DEF CheckEffect, Cooling, TypeOK, TargetInv, CallTargets, LoadTargets,
           Unstored, OwnTargets, Fresh, SentInv, Incident, Ids
<1>4. ASSUME NEW t \in Threads, Create(t)
      PROVE  SentInv'
  <2>1. call[t] \in Call /\ call[t].now <= clock
    BY <1>4 DEF Create, ReportInv
  <2>2. CreateEffect(t)
    BY <1>4, <2>1, CreateFacts
  <2>3. QED
    BY <2>1, <2>2, DeskConstants, KeyFacts
       DEF CreateEffect, TypeOK, TargetInv, CallTargets, LoadTargets,
           Unstored, OwnTargets, Fresh, SentInv, Incident, Ids
<1>5. ASSUME NEW t \in Threads, StoreAlert(t)
      PROVE  SentInv'
    BY <1>5, DeskConstants, KeyFacts
       DEF StoreAlert, Goto, history, TypeOK, TargetInv, CallTargets,
           LoadTargets, Unstored, OwnTargets, Fresh, SentInv, Incident, Ids,
           Alert, NewAlert
<1>6. ASSUME NEW t \in Threads, PersistAndBroadcast(t)
      PROVE  SentInv'
    BY <1>6, DeskConstants, KeyFacts
       DEF PersistAndBroadcast, Finish, Goto, InsertRow, history, TypeOK,
           TargetInv, CallTargets, LoadTargets, Unstored, OwnTargets, Fresh,
           SentInv, Incident, Ids, Alert, NewAlert
<1>7. ASSUME NEW t \in Threads, \E n \in Ids : Dispatch(t, n)
      PROVE  SentInv'
  <2>1. PICK n \in Ids : Dispatch(t, n)
    BY <1>7
  <2>2. DispatchEffect(t, n)
    BY <2>1, DispatchFacts
  <2>3. QED
    BY <2>2, DeskConstants, KeyFacts
       DEF DispatchEffect, TypeOK, TargetInv, CallTargets, LoadTargets,
           Unstored, OwnTargets, Fresh, SentInv, Incident, Ids
<1>8. ASSUME NEW t \in Threads, DispatchAlert(t)
      PROVE  SentInv'
  <2>1. PICK n \in DOMAIN incidents :
            n \in Ids /\ target[t] = Inc(n) /\ target[t] \in Keys
    BY <1>8, DispatchTarget
  <2>2. DispatchAlertEffect(t) /\ FinishEffect(t)
    BY <1>8, <2>1, DispatchAlertFacts, FinishFacts DEF DispatchAlertEffect
  <2>3. \A k \in Keys : store[k] # None => store'[k] # None
    BY <2>1, <2>2, DeskConstants DEF DispatchAlertEffect
  <2>4. QED
    BY <2>2, <2>3, IncidentIds, KeyFacts DEF DispatchAlertEffect, SentInv
<1>9. ASSUME NEW t \in Threads,
             \E k \in Handled, who \in Officers : Acknowledge(t, k, who)
      PROVE  SentInv'
    BY <1>9, DeskConstants, KeyFacts
       DEF Acknowledge, locals, history, TypeOK, TargetInv, CallTargets,
           LoadTargets, Unstored, OwnTargets, Fresh, SentInv, Incident, Ids,
           Alert, NewAlert
<1>10. ASSUME NEW t \in Threads, \E n \in 1 .. MaxRows : Load(t, n)
      PROVE  SentInv'
    BY <1>10, DeskConstants, KeyFacts
       DEF Load, Goto, history, TypeOK, TargetInv, CallTargets, LoadTargets,
           Unstored, OwnTargets, Fresh, SentInv, Incident, Ids, Alert,
           NewAlert
<1>11. ASSUME NEW t \in Threads, LoadStore(t)
      PROVE  SentInv'
  <2>1. LoadStoreEffect(t) /\ FinishEffect(t)
    BY <1>11, LoadStoreFacts, FinishFacts DEF LoadStoreEffect
  <2>2. QED
    BY <2>1, DeskConstants, KeyFacts
       DEF LoadStoreEffect, FinishEffect, TypeOK, TargetInv, CallTargets,
           LoadTargets, Unstored, OwnTargets, Fresh, SentInv, Incident, Ids
<1>12. CASE PipelineAlert
    BY <1>12, DeskConstants, KeyFacts
       DEF PipelineAlert, InsertRow, locals, history, TypeOK, TargetInv,
           CallTargets, LoadTargets, Unstored, OwnTargets, Fresh, SentInv,
           Incident, Ids, Alert, NewAlert
<1>13. CASE Restart
  <2>1. StartupEffect(store')
    BY <1>13, StartupFacts DEF Restart, TypeOK
  <2>2. QED
    BY <1>13, <2>1, DeskConstants, KeyFacts
       DEF Restart, StartupEffect, TypeOK, TargetInv, CallTargets,
           LoadTargets, Unstored, OwnTargets, Fresh, SentInv, Incident, Ids
<1>14. CASE UNCHANGED vars
    BY <1>14
       DEF vars, locals, history, TypeOK, TargetInv, CallTargets, LoadTargets,
           Unstored, OwnTargets, Fresh, SentInv, Incident, Ids
<1> QED
    BY <1>1, <1>2, <1>3, <1>4, <1>5, <1>6, <1>7, <1>8, <1>9, <1>10, <1>11,
       <1>12, <1>13, <1>14, SMTT(30) DEF Next

\* Units shown.
LEMMA ShownStep ==
    ASSUME TypeOK, ReportInv, TargetInv, SentInv, DispatchShown, [Next]_vars
    PROVE  DispatchShown'
<1>1. CASE Tick
    BY <1>1, DeskConstants, KeyFacts
       DEF Tick, locals, history, TypeOK, TargetInv, CallTargets, LoadTargets,
           Unstored, OwnTargets, Fresh, SentInv, DispatchShown, Incident, Ids,
           Alert, NewAlert
<1>2. ASSUME NEW t \in Threads,
             \E c \in Cameras, forced \in BOOLEAN : Report(t, c, forced)
      PROVE  DispatchShown'
    BY <1>2, DeskConstants, KeyFacts
       DEF Report, Goto, Reporting, TypeOK, TargetInv, CallTargets,
           LoadTargets, Unstored, OwnTargets, Fresh, SentInv, DispatchShown,
           Incident, Ids, Alert, NewAlert
<1>3. ASSUME NEW t \in Threads, \E sure \in BOOLEAN : Check(t, sure)
      PROVE  DispatchShown'
  <2>1. CheckEffect(t)
    BY <1>3, CheckFacts
  <2>2. QED
    BY <2>1, KeyFacts DEF CheckEffect, DispatchShown
<1>4. ASSUME NEW t \in Threads, Create(t)
      PROVE  DispatchShown'
  <2>1. call[t] \in Call /\ call[t].now <= clock
    BY <1>4 DEF Create, ReportInv
  <2>2. CreateEffect(t)
    BY <1>4, <2>1, CreateFacts
  <2>3. /\ incidents'[Len(incidents) + 1].status = "ACTIVE"
        /\ \A u \in Threads :
                pc'[u] = "dispatch" <=> pc[u] = "dispatch" /\ u # t
        /\ \A u \in Threads : u # t => target'[u] = target[u]
        /\ pc[t] # "dispatch"
    BY <2>2 DEF CreateEffect
  <2>4. QED
    BY <2>2, <2>3 DEF CreateEffect, DispatchShown
<1>5. ASSUME NEW t \in Threads, StoreAlert(t)
      PROVE  DispatchShown'
    BY <1>5, DeskConstants, KeyFacts
       DEF StoreAlert, Goto, history, TypeOK, TargetInv, CallTargets,
           LoadTargets, Unstored, OwnTargets, Fresh, SentInv, DispatchShown,
           Incident, Ids, Alert, NewAlert
<1>6. ASSUME NEW t \in Threads, PersistAndBroadcast(t)
      PROVE  DispatchShown'
    BY <1>6, DeskConstants, KeyFacts
       DEF PersistAndBroadcast, Finish, Goto, InsertRow, history, TypeOK,
           TargetInv, CallTargets, LoadTargets, Unstored, OwnTargets, Fresh,
           SentInv, DispatchShown, Incident, Ids, Alert, NewAlert
<1>7. ASSUME NEW t \in Threads, \E n \in Ids : Dispatch(t, n)
      PROVE  DispatchShown'
  <2>1. PICK n \in Ids : Dispatch(t, n)
    BY <1>7
  <2>2. DispatchEffect(t, n)
    BY <2>1, DispatchFacts
  <2>3. SUFFICES ASSUME NEW m \in DOMAIN incidents',
                        incidents'[m].status = "DISPATCHED",
                        ~incidents'[m].early,
                        \A u \in Threads : pc'[u] = "dispatch" => target'[u] # Inc(m)
                 PROVE  store'[Inc(m)].status \in {"DISPATCHED", "REVIEWING"}
    BY DEF DispatchShown
  <2>4. m # n
    BY <2>2, <2>3 DEF DispatchEffect
  <2>5. m \in DOMAIN incidents /\ incidents'[m] = incidents[m]
    BY <2>2, <2>3, <2>4 DEF DispatchEffect
  <2>6. \A u \in Threads : pc[u] = "dispatch" => target[u] # Inc(m)
    BY <2>2, <2>3 DEF DispatchEffect
  <2>7. QED
    BY <2>2, <2>3, <2>5, <2>6 DEF DispatchEffect, DispatchShown
<1>8. ASSUME NEW t \in Threads, DispatchAlert(t)
      PROVE  DispatchShown'
  <2>1. PICK n \in DOMAIN incidents :
            n \in Ids /\ target[t] = Inc(n) /\ target[t] \in Keys
    BY <1>8, DispatchTarget
  <2>2. DispatchAlertEffect(t) /\ FinishEffect(t)
    BY <1>8, <2>1, DispatchAlertFacts, FinishFacts DEF DispatchAlertEffect
  <2>3. SUFFICES ASSUME NEW m \in DOMAIN incidents,
                        incidents[m].status = "DISPATCHED",
                        ~incidents[m].early,
                        \A u \in Threads : pc'[u] = "dispatch" => target'[u] # Inc(m)
                 PROVE  store'[Inc(m)].status \in {"DISPATCHED", "REVIEWING"}
    BY <2>2 DEF DispatchAlertEffect, DispatchShown
  <2>4. m \in Ids /\ Inc(m) \in Keys
    BY IncidentIds, KeyFacts
  <2>5. CASE m = n
    <3>1. store[target[t]] # None
      BY <2>1, <2>3, <2>5 DEF SentInv
    <3>2. QED
      BY <2>1, <2>2, <2>5, <3>1 DEF DispatchAlertEffect
  <2>6. CASE m # n
    <3>1. Inc(m) # target[t]
      BY <2>1, <2>6, KeyFacts
    <3>2. \A u \in Threads : pc[u] = "dispatch" => target[u] # Inc(m)
      BY <2>2, <2>3, <3>1 DEF FinishEffect
    <3>3. QED
      BY <2>2, <2>3, <2>4, <3>1, <3>2 DEF DispatchAlertEffect, DispatchShown
  <2>7. QED
    BY <2>5, <2>6
<1>9. ASSUME NEW t \in Threads,
             \E k \in Handled, who \in Officers : Acknowledge(t, k, who)
      PROVE  DispatchShown'
    BY <1>9, DeskConstants, KeyFacts
       DEF Acknowledge, locals, history, TypeOK, TargetInv, CallTargets,
           LoadTargets, Unstored, OwnTargets, Fresh, SentInv, DispatchShown,
           Incident, Ids, Alert, NewAlert
<1>10. ASSUME NEW t \in Threads, \E n \in 1 .. MaxRows : Load(t, n)
      PROVE  DispatchShown'
    BY <1>10, DeskConstants, KeyFacts
       DEF Load, Goto, history, TypeOK, TargetInv, CallTargets, LoadTargets,
           Unstored, OwnTargets, Fresh, SentInv, DispatchShown, Incident, Ids,
           Alert, NewAlert
<1>11. ASSUME NEW t \in Threads, LoadStore(t)
      PROVE  DispatchShown'
  <2>1. LoadStoreEffect(t) /\ FinishEffect(t)
    BY <1>11, LoadStoreFacts, FinishFacts DEF LoadStoreEffect
  <2>2. \A n \in DOMAIN incidents : store'[Inc(n)] = store[Inc(n)]
    BY <2>1, IncidentIds DEF LoadStoreEffect
  <2>3. \A u \in Threads :
            pc'[u] = "dispatch" <=> pc[u] = "dispatch" /\ u # t
    BY <2>1 DEF LoadStoreEffect, FinishEffect
  <2>4. pc[t] # "dispatch" /\ \A u \in Threads : u # t => target'[u] = target[u]
    BY <2>1 DEF LoadStoreEffect, FinishEffect
  <2>5. QED
    BY <2>1, <2>2, <2>3, <2>4 DEF LoadStoreEffect, DispatchShown
<1>12. CASE PipelineAlert
    BY <1>12, DeskConstants, KeyFacts
       DEF PipelineAlert, InsertRow, locals, history, TypeOK, TargetInv,
           CallTargets, LoadTargets, Unstored, OwnTargets, Fresh, SentInv,
           DispatchShown, Incident, Ids, Alert, NewAlert
<1>13. CASE Restart
  <2>1. StartupEffect(store')
    BY <1>13, StartupFacts DEF Restart, TypeOK
  <2>2. QED
    BY <1>13, <2>1, DeskConstants, KeyFacts
       DEF Restart, StartupEffect, TypeOK, TargetInv, CallTargets,
           LoadTargets, Unstored, OwnTargets, Fresh, SentInv, DispatchShown,
           Incident, Ids
<1>14. CASE UNCHANGED vars
    BY <1>14
       DEF vars, locals, history, TypeOK, TargetInv, CallTargets, LoadTargets,
           Unstored, OwnTargets, Fresh, SentInv, DispatchShown, Incident, Ids
<1> QED
    BY <1>1, <1>2, <1>3, <1>4, <1>5, <1>6, <1>7, <1>8, <1>9, <1>10, <1>11,
       <1>12, <1>13, <1>14, SMTT(30) DEF Next

-----------------------------------------------------------------------------
\* The invariant holds when the process starts.
LEMMA InitIInv ==
    ASSUME Init
    PROVE  IInv
<1>1. StartupEffect(store)
  BY StartupFacts, DeskConstants DEF Init
<1>2. TypeOK
  BY <1>1, DeskConstants DEF Init, TypeOK, StartupEffect, Times
<1>3. ReportInv /\ CoolingInv /\ SequentialCooldown
  BY DeskConstants DEF Init, ReportInv, CoolingInv, SequentialCooldown
<1>4. TargetInv /\ SentInv /\ DispatchShown
  BY <1>1, DeskConstants
     DEF Init, StartupEffect, TargetInv, CallTargets, LoadTargets, Unstored,
         OwnTargets, Fresh, SentInv, DispatchShown
<1> QED
  BY <1>2, <1>3, <1>4 DEF IInv

\* Every step keeps it.
LEMMA NextIInv ==
    ASSUME IInv, [Next]_vars
    PROVE  IInv'
<1>1. /\ TypeOK /\ ReportInv /\ CoolingInv /\ SequentialCooldown
      /\ TargetInv /\ SentInv /\ DispatchShown
  BY DEF IInv
<1>2. TypeOK' /\ ReportInv' /\ CoolingInv'
  BY <1>1, TypeStep, ReportStep, CoolingStep
<1>3. SequentialCooldown'
  BY <1>1, SequentialStep
<1>4. TargetInv'
  BY <1>1, TargetStep
<1>5. SentInv'
  BY <1>1, SentStep
<1>6. DispatchShown'
  BY <1>1, ShownStep
<1> QED
  BY <1>2, <1>3, <1>4, <1>5, <1>6 DEF IInv

LEMMA Invariance == Spec => []IInv
<1>1. Init => IInv
  BY InitIInv
<1>2. IInv /\ [Next]_vars => IInv'
  BY NextIInv
<1> QED
  BY <1>1, <1>2, PTL DEF Spec

\* Every variable of the desk stays in its type.
THEOREM TypeCorrect == Spec => []TypeOK
<1>1. IInv => TypeOK
  BY DEF IInv
<1> QED
  BY <1>1, Invariance, PTL

\* Incidents of a camera whose reports do not overlap are a cooldown apart,
\* whatever the threads, cameras, officers and cooldown are.
THEOREM SequentialCooldownHolds == Spec => []SequentialCooldown
<1>1. IInv => SequentialCooldown
  BY DEF IInv
<1> QED
  BY <1>1, Invariance, PTL

\* Units sent to an incident with a stored alert show in the alert.
THEOREM DispatchShownHolds == Spec => []DispatchShown
<1>1. IInv => DispatchShown
  BY DEF IInv
<1> QED
  BY <1>1, Invariance, PTL

\* No step but a restart takes the acknowledgement from an incident's alert.
LEMMA AckStep ==
    ASSUME IInv, [Next]_vars, NEW i \in Ids, Acknowledged(Inc(i))
    PROVE  Acknowledged(Inc(i))' \/ restarts' # restarts
<1> DEFINE k == Inc(i)
<1>1. TypeOK /\ TargetInv /\ k \in Keys
  BY KeyFacts DEF IInv
<1>2. store[k] \in Alert /\ store[k].by # None
  BY <1>1 DEF TypeOK, Acknowledged
<1>3. CASE UNCHANGED store
  BY <1>3 DEF Acknowledged
<1>4. ASSUME NEW t \in Threads, StoreAlert(t)
      PROVE  Acknowledged(k)'
  <2>1. store[target[t]] = None
    BY <1>1, <1>4 DEF StoreAlert, TargetInv, Unstored
  <2>2. store'[k] = store[k]
    BY <1>1, <1>4, <2>1 DEF StoreAlert, Acknowledged, TypeOK
  <2>3. QED
    BY <2>2 DEF Acknowledged
<1>5. ASSUME NEW t \in Threads, DispatchAlert(t)
      PROVE  Acknowledged(k)'
  <2>1. target[t] \in Keys
    BY <1>1, <1>5, DispatchTarget
  <2>2. DispatchAlertEffect(t)
    BY <1>1, <1>5, <2>1, DispatchAlertFacts
  <2>3. store'[k] # None /\ store'[k].by = store[k].by
    BY <1>1, <1>2, <2>1, <2>2, DeskConstants DEF DispatchAlertEffect
  <2>4. QED
    BY <1>2, <2>3 DEF Acknowledged
<1>6. ASSUME NEW t \in Threads, NEW j \in Handled, NEW who \in Officers,
             Acknowledge(t, j, who)
      PROVE  Acknowledged(k)'
  <2> DEFINE new == [status |-> "REVIEWING", by |-> who]
  <2>1. new \in Alert /\ new.by # None
    BY DeskConstants DEF Alert
  <2>2. store' = [store EXCEPT ![j] = new]
    BY <1>6 DEF Acknowledge
  <2> HIDE DEF new
  <2>3. CASE k = j
    BY <1>1, <2>1, <2>2, <2>3, DeskConstants DEF TypeOK, Acknowledged
  <2>4. CASE k # j
    BY <1>1, <2>2, <2>4 DEF TypeOK, Acknowledged
  <2>5. QED
    BY <2>3, <2>4
<1>7. ASSUME NEW t \in Threads, LoadStore(t)
      PROVE  Acknowledged(k)'
  BY <1>1, <1>7, LoadStoreFacts DEF LoadStoreEffect, Acknowledged
<1>8. CASE Restart
  BY <1>1, <1>8 DEF Restart, TypeOK
<1>9. CASE UNCHANGED store \/ Restart \/ \E t \in Threads :
            \/ StoreAlert(t) \/ DispatchAlert(t) \/ LoadStore(t)
            \/ \E j \in Handled, who \in Officers : Acknowledge(t, j, who)
  BY <1>3, <1>4, <1>5, <1>6, <1>7, <1>8, <1>9
<1>10. UNCHANGED store \/ Restart \/ \E t \in Threads :
            \/ StoreAlert(t) \/ DispatchAlert(t) \/ LoadStore(t)
            \/ \E j \in Handled, who \in Officers : Acknowledge(t, j, who)
  BY DEF Next, vars, Tick, Report, Check, Create, PersistAndBroadcast,
     Dispatch,
         Load, PipelineAlert
<1> QED
  BY <1>9, <1>10

\* The acknowledgement of an incident's alert is never lost to a dispatch, a
\* load or another report while the process lives.
THEOREM IncidentAckKeptHolds == Spec => IncidentAckKept
<1>1. IInv /\ [Next]_vars =>
        [\A n \in Ids : Acknowledged(Inc(n)) =>
            Acknowledged(Inc(n))' \/ restarts' # restarts]_vars
  BY AckStep
<1> QED
  BY <1>1, Invariance, PTL DEF Spec, IncidentAckKept

=============================================================================
