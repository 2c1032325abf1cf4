----------------------------- MODULE AlertDesk -----------------------------
(***************************************************************************)
(* Incidents and alerts in the API process:                                *)
(* services/alerting/incident_detector.py, the store of alert_engine.py,   *)
(* and the endpoints of main.py that call them.                            *)
(*                                                                         *)
(* Endpoints are plain functions: each call runs in a worker thread, and   *)
(* the calls share the dictionaries of the modules without a lock.  The    *)
(* model lets them interleave wherever a call reads shared state and acts  *)
(* on it later.  The alerts table is shared with the pipeline processes.   *)
(***************************************************************************)
EXTENDS Integers, Sequences, FiniteSets

CONSTANTS
    Threads,        \* worker threads of the API process
    LoopThreads,    \* those of them that run the event loop: none
    Cameras,
    Officers,
    Cooldown,       \* _INCIDENT_COOLDOWN_SECONDS
    MaxTime,        \* bound: the clock stops here
    MaxIncidents,   \* bound: incidents of one life of the process
    MaxRows,        \* bound: rows of the alerts table
    MaxRestarts,    \* bound: restarts of the process
    Handled,        \* bound: alerts (by key) officers act on
    SampleAlerts,   \* SAMPLE_ALERTS: rows the table starts with
    None

Times == 0 .. MaxTime
Ids == 1 .. MaxIncidents

\* Keys of the store: ids given here ("INC-...") and ids given by the database.
Keys == ({"INC"} \X Ids) \cup ({"DB"} \X (1 .. MaxRows))
Inc(n) == <<"INC", n>>

Alert == [status : {"NEW", "REVIEWING", "DISPATCHED"},
          by : Officers \cup {None}]

ASSUME DeskConstants ==
    /\ IsFiniteSet(Threads) /\ LoopThreads \subseteq Threads
    /\ Cooldown \in Nat \ {0}
    /\ MaxTime \in Nat /\ MaxIncidents \in Nat
    /\ MaxRows \in Nat /\ MaxRestarts \in Nat
    /\ Handled \subseteq Keys
    /\ SampleAlerts \in Seq(Alert) /\ Len(SampleAlerts) <= MaxRows
    /\ None \notin Officers \cup Keys \cup Times \cup Alert

VARIABLES
    clock,
    incidents,  \* _active_incidents, in the order of their creation
    cooldowns,  \* _incident_cooldowns
    store,      \* _alert_store: the alert kept under a key, or None
    rows,       \* table alerts, indexed by id: status and acknowledged_by
    pushed,     \* incidents whose broadcast was scheduled on the event loop
    pc,         \* pc[t]: where the call of thread t stands
    call,       \* call[t]: arguments and local variables of a report
    target,     \* target[t]: the key the rest of the call is about
    overlapped, \* cameras of which two reports ran at once (history)
    restarts

locals == <<pc, call, target>>
history == <<overlapped, restarts>>
vars == <<clock, incidents, cooldowns, store, rows, pushed, pc, call, target,
          overlapped, restarts>>

\* early: dispatched before its alert was stored (history).
Incident == [camera : Cameras, time : Times, forced : BOOLEAN,
             status : {"ACTIVE", "DISPATCHED"}, early : BOOLEAN]
Call == [camera : Cameras, now : Times, forced : BOOLEAN]

\* Slip: the status the documents speak of.
NewAlert_Open == [status |-> "OPEN", by |-> None]

NewAlert == [status |-> "NEW", by |-> None]

-----------------------------------------------------------------------------
TypeOK ==
    /\ clock \in Times
    /\ incidents \in Seq(Incident) /\ Len(incidents) <= MaxIncidents
    /\ cooldowns \in [Cameras -> Times \cup {None}]
    /\ store \in [Keys -> Alert \cup {None}]
    /\ rows \in Seq(Alert) /\ Len(rows) <= MaxRows
    /\ pushed \subseteq Keys
    /\ pc \in [Threads -> {"idle", "check", "create", "alert", "persist",
                           "dispatch", "load"}]
    /\ call \in [Threads -> Call \cup {None}]
    /\ target \in [Threads -> Keys \cup {None}]
    /\ overlapped \subseteq Cameras
    /\ restarts \in 0 .. MaxRestarts

\* What seed_sample_alerts does when the process starts: all rows are put into
\* the store, or none, if the database fails it.
Synced(table) ==
    [k \in Keys |-> IF k[1] = "DB" /\ k[2] \in DOMAIN table
                    THEN table[k[2]] ELSE None]
Startup(table) == {Synced(table), [k \in Keys |-> None]}

Init ==
    /\ clock = 0
    /\ incidents = << >>
    /\ cooldowns = [c \in Cameras |-> None]
    /\ rows = SampleAlerts
    /\ store \in Startup(rows)
    /\ pushed = {}
    /\ pc = [t \in Threads |-> "idle"]
    /\ call = [t \in Threads |-> None]
    /\ target = [t \in Threads |-> None]
    /\ overlapped = {}
    /\ restarts = 0

InsertRow ==
    /\ Len(rows) < MaxRows
    /\ rows' = Append(rows, NewAlert)

Goto(t, place) == pc' = [pc EXCEPT ![t] = place]

Finish(t) ==
    /\ Goto(t, "idle")
    /\ call' = [call EXCEPT ![t] = None]
    /\ target' = [target EXCEPT ![t] = None]

Tick ==
    /\ clock < MaxTime
    /\ clock' = clock + 1
    /\ UNCHANGED <<incidents, cooldowns, store, rows, pushed, locals, history>>

-----------------------------------------------------------------------------
(* verify_and_trigger_incident.                                            *)

\* Is thread u between the start of a report of camera c and its incident?
Reporting(u, c) == pc[u] \in {"check", "create"} /\ call[u].camera = c

(* The time of the incident is read first. *)
Report(t, c, forced) ==
    /\ pc[t] = "idle"
    /\ call' = [call EXCEPT ![t] = [camera |-> c, now |-> clock,
                                    forced |-> forced]]
    /\ overlapped' = IF \E u \in Threads : Reporting(u, c)
                     THEN overlapped \cup {c} ELSE overlapped
    /\ Goto(t, "check")
    /\ UNCHANGED <<clock, incidents, cooldowns, store, rows, pushed, target,
                   restarts>>

\* Was there an incident of camera c less than the cooldown before now?
Cooling(c, now) == cooldowns[c] # None /\ now - cooldowns[c] < Cooldown

(* The cooldown check, and the confidence gate: sure iff >= 0.85. *)
Check(t, sure) ==
    /\ pc[t] = "check"
    /\ IF ~sure \/ (~call[t].forced /\ Cooling(call[t].camera, call[t].now))
       THEN Finish(t)
       ELSE Goto(t, "create") /\ UNCHANGED <<call, target>>
    /\ UNCHANGED <<clock, incidents, cooldowns, store, rows, pushed, history>>

\* Slip: a forced incident does not start the cooldown.
Create_ForcedWarm(t) ==
    /\ pc[t] = "create"
    /\ Len(incidents) < MaxIncidents
    /\ incidents' = Append(incidents,
                      [camera |-> call[t].camera, time |-> call[t].now,
                       forced |-> call[t].forced, status |-> "ACTIVE",
                       early |-> FALSE])
    /\ cooldowns' = IF call[t].forced THEN cooldowns
                    ELSE [cooldowns EXCEPT ![call[t].camera] = call[t].now]
    /\ target' = [target EXCEPT ![t] = Inc(Len(incidents) + 1)]
    /\ Goto(t, "alert")
    /\ UNCHANGED <<clock, store, rows, pushed, call, history>>

(* The incident becomes visible and the camera starts to cool. *)
Create(t) ==
    /\ pc[t] = "create"
    /\ Len(incidents) < MaxIncidents
    /\ incidents' = Append(incidents,
                      [camera |-> call[t].camera, time |-> call[t].now,
                       forced |-> call[t].forced, status |-> "ACTIVE",
                       early |-> FALSE])
    /\ cooldowns' = [cooldowns EXCEPT ![call[t].camera] = call[t].now]
    /\ target' = [target EXCEPT ![t] = Inc(Len(incidents) + 1)]
    /\ Goto(t, "alert")
    /\ UNCHANGED <<clock, store, rows, pushed, call, history>>

(* The alert of the incident is stored under the incident's id ... *)
StoreAlert(t) ==
    /\ pc[t] = "alert"
    /\ store' = [store EXCEPT ![target[t]] = NewAlert]
    /\ Goto(t, "persist")
    /\ UNCHANGED <<clock, incidents, cooldowns, rows, pushed, call, target,
                   history>>

(* ... inserted into the alerts table, where it gets an id of its own (a     *)
(* failure is rolled back and logged), and broadcast: the callback of        *)
(* main.py asks for the event loop of the current thread; a worker thread    *)
(* has none, and the error is dropped.                                       *)
PersistAndBroadcast(t) ==
    /\ pc[t] = "persist"
    /\ \/ rows' = rows
       \/ InsertRow
    /\ pushed' = IF t \in LoopThreads THEN pushed \cup {target[t]} ELSE pushed
    /\ Finish(t)
    /\ UNCHANGED <<clock, incidents, cooldowns, store, history>>

-----------------------------------------------------------------------------
(* dispatch_emergency and acknowledge_alert.                               *)

(* The incident is marked ... *)
Dispatch(t, n) ==
    /\ pc[t] = "idle"
    /\ n \in DOMAIN incidents /\ Inc(n) \in Handled
    /\ incidents' = [incidents EXCEPT
                       ![n].status = "DISPATCHED",
                       ![n].early = @ \/ store[Inc(n)] = None]
    /\ target' = [target EXCEPT ![t] = Inc(n)]
    /\ Goto(t, "dispatch")
    /\ UNCHANGED <<clock, cooldowns, store, rows, pushed, call, history>>

\* Slip: the alert is left as it is.
DispatchAlert_Untold(t) ==
    /\ pc[t] = "dispatch"
    /\ store' = store
    /\ Finish(t)
    /\ UNCHANGED <<clock, incidents, cooldowns, rows, pushed, history>>

\* Slip: the alert is written anew.
DispatchAlert_Anew(t) ==
    /\ pc[t] = "dispatch"
    /\ store' = IF store[target[t]] = None
                THEN store
                ELSE [store EXCEPT ![target[t]] =
                        [status |-> "DISPATCHED", by |-> None]]
    /\ Finish(t)
    /\ UNCHANGED <<clock, incidents, cooldowns, rows, pushed, history>>

(* ... and then its alert, if that is in the store by now. *)
DispatchAlert(t) ==
    /\ pc[t] = "dispatch"
    /\ store' = IF store[target[t]] = None
                THEN store
                ELSE [store EXCEPT ![target[t]].status = "DISPATCHED"]
    /\ Finish(t)
    /\ UNCHANGED <<clock, incidents, cooldowns, rows, pushed, history>>

(* Only an alert in the store can be acknowledged, and only there. *)
Acknowledge(t, k, who) ==
    /\ pc[t] = "idle"
    /\ store[k] # None
    /\ store' = [store EXCEPT ![k] = [status |-> "REVIEWING", by |-> who]]
    /\ UNCHANGED <<clock, incidents, cooldowns, rows, pushed, locals, history>>

-----------------------------------------------------------------------------
(* get_alert and every turn of the loop of get_all_alerts.                 *)

(* The key is not in the store, and the row is read (no code updates the    *)
(* table) ...                                                              *)
Load(t, n) ==
    /\ pc[t] = "idle"
    /\ n \in DOMAIN rows
    /\ store[<<"DB", n>>] = None
    /\ target' = [target EXCEPT ![t] = <<"DB", n>>]
    /\ Goto(t, "load")
    /\ UNCHANGED <<clock, incidents, cooldowns, store, rows, pushed, call,
                   history>>

(* ... and put into the store, whatever is there by now. *)
LoadStore(t) ==
    /\ pc[t] = "load"
    /\ store' = [store EXCEPT ![target[t]] = rows[target[t][2]]]
    /\ Finish(t)
    /\ UNCHANGED <<clock, incidents, cooldowns, rows, pushed, history>>

-----------------------------------------------------------------------------
(* Other processes.                                                        *)

(* A pipeline inserts a watchlist alert (AlertEngine._persist_alert). *)
PipelineAlert ==
    /\ InsertRow
    /\ UNCHANGED <<clock, incidents, cooldowns, store, pushed, locals, history>>

(* The API process ends and is started again: the table is what is left. *)
Restart ==
    /\ restarts < MaxRestarts
    /\ restarts' = restarts + 1
    /\ incidents' = << >>
    /\ cooldowns' = [c \in Cameras |-> None]
    /\ store' \in Startup(rows)
    /\ pushed' = {}
    /\ overlapped' = {}
    /\ pc' = [t \in Threads |-> "idle"]
    /\ call' = [t \in Threads |-> None]
    /\ target' = [t \in Threads |-> None]
    /\ UNCHANGED <<clock, rows>>

Next ==
    \/ Tick
    \/ \E t \in Threads :
         \/ \E c \in Cameras, forced \in BOOLEAN : Report(t, c, forced)
         \/ \E sure \in BOOLEAN : Check(t, sure)
         \/ Create(t)
         \/ StoreAlert(t)
         \/ PersistAndBroadcast(t)
         \/ \E n \in Ids : Dispatch(t, n)
         \/ DispatchAlert(t)
         \/ \E k \in Handled, who \in Officers : Acknowledge(t, k, who)
         \/ \E n \in 1 .. MaxRows : Load(t, n)
         \/ LoadStore(t)
    \/ PipelineAlert
    \/ Restart

Spec == Init /\ [][Next]_vars

-----------------------------------------------------------------------------
(* Properties the code keeps.                                              *)

\* Reports of a camera that do not overlap are a cooldown apart: an unforced one
\* comes that much later than every incident before it, forced ones included.
SequentialCooldown ==
    \A n, m \in DOMAIN incidents :
        /\ n < m
        /\ incidents[n].camera = incidents[m].camera
        /\ incidents[n].camera \notin overlapped
        /\ ~incidents[m].forced
        => incidents[m].time >= incidents[n].time + Cooldown

\* Units sent to an incident show in its alert, unless they were sent before
\* the alert was stored or are being sent right now.
DispatchShown ==
    \A n \in DOMAIN incidents :
        /\ incidents[n].status = "DISPATCHED"
        /\ ~incidents[n].early
        /\ \A t \in Threads : pc[t] = "dispatch" => target[t] # Inc(n)
        => store[Inc(n)].status \in {"DISPATCHED", "REVIEWING"}

Acknowledged(k) == store[k] # None /\ store[k].by # None

\* The acknowledgement of an incident's alert survives everything that happens
\* to it while the process lives: loads, dispatches, other reports.
IncidentAckKept ==
    [][\A n \in Ids : Acknowledged(Inc(n)) =>
            Acknowledged(Inc(n))' \/ restarts' # restarts]_vars

=============================================================================
