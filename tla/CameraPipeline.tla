--------------------------- MODULE CameraPipeline ---------------------------
(***************************************************************************)
(* From a plate read to an alert and a sighting: on_frame of               *)
(* scripts/start_stream.py, services/alerting/alert_engine.py and          *)
(* watchlist_service.py, composed with JourneyCorrelator.                  *)
(*                                                                         *)
(* A pipeline process has one thread and ONE database session, which the   *)
(* watchlist, the alert engine and the correlator share.  A statement that *)
(* fails leaves the session unusable until somebody rolls back; of the     *)
(* three only the correlator does.  Officers edit the watchlist in the     *)
(* memory of the API process.                                              *)
(***************************************************************************)
EXTENDS Integers, Sequences, FiniteSets

CONSTANTS
    \* Of JourneyCorrelator.
    Cameras, Plates, Seeds, Window, MaxTime, MaxRecorded, MaxRows, MaxEpoch,
    None,
    Demo,           \* plates of SyntheticWatchlistProvider._seed_data
    Tables,         \* what watchlist_entries may hold: no code writes it
    Cooldown,       \* _ALERT_COOLDOWN_SECONDS
    ForeignKeys,    \* does the database check detection_event_id?
    EventIds,       \* ids of the detection_events table
    MaxAlerts,      \* bound: rows of the alerts table
    MaxFaults,      \* bound: statements the database fails
    Uuid            \* the id of an alert that got no row

VARIABLES
    \* Of JourneyCorrelator.
    segments, journeys, pc, pending, loaded, rows, segRows, epoch, api, apiRow,
    provider,   \* provider[c]: the watchlist get_watchlist_provider chose
    recent,     \* recent[c][p]: _recent_alerts
    session,    \* session[c]: "clean", or "failed": in need of a rollback
    stage,      \* stage[c]: where on_frame stands
    read,       \* read[c]: the read on_frame is at, or None
    last,       \* last[c]: what became of the read before (history)
    alertId,    \* alertId[c]: alert.get("id"), None without an alert
    raised,     \* raised[c]: alerts of this incarnation, in order (history)
    alertRows,  \* table alerts, indexed by id
    apiList,    \* active plates of the API's watchlist
    table,      \* active plates of table watchlist_entries
    faults      \* statements failed so far (history)

correlator == <<segments, journeys, pc, pending, loaded, rows, segRows, epoch,
                api, apiRow>>
engine == <<provider, recent, raised>>
lists == <<apiList, table>>
vars == <<correlator, engine, session, stage, read, last, alertId, alertRows,
          lists, faults>>

J == INSTANCE JourneyCorrelator

Times == 0 .. MaxTime
AlertIds == 1 .. MaxAlerts

ASSUME PipelineConstants ==
    /\ Demo \subseteq Plates /\ Tables \subseteq SUBSET Plates
    /\ Cooldown \in Nat \ {0}
    /\ ForeignKeys \in BOOLEAN /\ EventIds \subseteq Nat
    /\ MaxAlerts \in Nat /\ MaxFaults \in Nat
    /\ Uuid \notin AlertIds \cup {None}
    /\ None \notin AlertIds \cup Times

ASSUME CorrelatorConstants == J!ConstantsOK /\ J!SeedsSpaced

\* sure: the confidence is at least alert_medium_confidence.  listed and faults
\* are history: was the plate on the API's list, and how many faults were there?
PlateRead == [plate : Plates, sure : BOOLEAN, now : Times, listed : BOOLEAN,
              faults : 0 .. MaxFaults]
AlertRow == [plate : Plates, camera : Cameras]

TypeOK ==
    /\ J!TypeOK
    /\ provider \in [Cameras -> {"database", "synthetic"}]
    /\ recent \in [Cameras -> [Plates -> Times \cup {None}]]
    /\ session \in [Cameras -> {"clean", "failed"}]
    /\ stage \in [Cameras -> {"idle", "lookup", "alert", "sighting", "store"}]
    /\ read \in [Cameras -> PlateRead \cup {None}]
    /\ last \in [Cameras -> {"none", "repeated", "recorded"}]
    /\ alertId \in [Cameras -> AlertIds \cup {None, Uuid}]
    /\ raised \in [Cameras -> Seq([plate : Plates, time : Times])]
    /\ alertRows \in Seq(AlertRow) /\ Len(alertRows) <= MaxAlerts
    /\ apiList \subseteq Plates
    /\ table \in Tables
    /\ faults \in 0 .. MaxFaults

\* The provider a process starts with: the table, unless it is empty.
Provider == IF table = {} THEN "synthetic" ELSE "database"

Init ==
    /\ J!Init
    /\ table \in Tables
    /\ provider = [c \in Cameras |-> Provider]
    /\ recent = [c \in Cameras |-> [p \in Plates |-> None]]
    /\ session = [c \in Cameras |-> "clean"]
    /\ stage = [c \in Cameras |-> "idle"]
    /\ read = [c \in Cameras |-> None]
    /\ last = [c \in Cameras |-> "none"]
    /\ alertId = [c \in Cameras |-> None]
    /\ raised = [c \in Cameras |-> << >>]
    /\ alertRows = << >>
    /\ apiList = Demo
    /\ faults = 0

Goto(c, place) == stage' = [stage EXCEPT ![c] = place]

(* The loop of on_frame turns to the next vehicle. *)
Done(c, how) ==
    /\ Goto(c, "idle")
    /\ read' = [read EXCEPT ![c] = None]
    /\ last' = [last EXCEPT ![c] = how]

Fault ==
    /\ faults < MaxFaults
    /\ faults' = faults + 1

NoFault == faults' = faults

-----------------------------------------------------------------------------
(* The alert of a read: AlertEngine.process.                               *)

(* A vehicle of a frame has a plate read with enough confidence to count.  *)
PlateIsRead(c, p, sure, now) ==
    /\ stage[c] = "idle"
    /\ read' = [read EXCEPT ![c] =
                  [plate |-> p, sure |-> sure, now |-> now,
                   listed |-> p \in apiList, faults |-> faults]]
    /\ Goto(c, "lookup")
    /\ UNCHANGED <<correlator, engine, session, last, alertId, alertRows,
                   lists, faults>>

\* Was the plate alerted less than the cooldown ago?
Recent(c) ==
    LET alerted == recent[c][read[c].plate]
    IN alerted # None /\ read[c].now - alerted < Cooldown

\* What follows from the lookup.
Decide(c, match) ==
    IF match /\ ~Recent(c) /\ read[c].sure
    THEN Goto(c, "alert") /\ UNCHANGED alertId
    ELSE /\ Goto(c, "sighting")
         /\ alertId' = [alertId EXCEPT ![c] = None]

\* The plates the provider of c knows.
Listed(c) == IF provider[c] = "database" THEN table ELSE Demo

(* The lookup answers ... *)
Lookup(c) ==
    /\ stage[c] = "lookup"
    /\ provider[c] = "synthetic" \/ session[c] = "clean"
    /\ Decide(c, read[c].plate \in Listed(c))
    /\ UNCHANGED <<correlator, engine, session, read, last, alertRows, lists,
                   faults>>

(* ... or fails, which reads as "not on the list".  Whether a failed SELECT  *)
(* needs a rollback depends on the database.                                *)
LookupFails(c) ==
    /\ stage[c] = "lookup"
    /\ provider[c] = "database"
    /\ \/ session[c] = "failed" /\ NoFault /\ UNCHANGED session
       \/ /\ session[c] = "clean" /\ Fault
          /\ \E s \in {"clean", "failed"} : session' = [session EXCEPT ![c] = s]
    /\ Decide(c, FALSE)
    /\ UNCHANGED <<correlator, engine, read, last, alertRows, lists>>

\* Slip: the row does not name its plate.
NewRow_NoPlate(c) == [plate |-> None, camera |-> c]

NewRow(c) == [plate |-> read[c].plate, camera |-> c]

\* Slip: only an alert that got its row starts the cooldown.
Raise_OnlyStored(c, id) ==
    /\ alertId' = [alertId EXCEPT ![c] = id]
    /\ recent' = IF id = Uuid THEN recent
                 ELSE [recent EXCEPT ![c][read[c].plate] = read[c].now]
    /\ raised' = [raised EXCEPT ![c] =
                    Append(@, [plate |-> read[c].plate, time |-> read[c].now])]
    /\ Goto(c, "sighting")

\* The alert is out, with or without a row, and the cooldown begins.
Raise(c, id) ==
    /\ alertId' = [alertId EXCEPT ![c] = id]
    /\ recent' = [recent EXCEPT ![c][read[c].plate] = read[c].now]
    /\ raised' = [raised EXCEPT ![c] =
                    Append(@, [plate |-> read[c].plate, time |-> read[c].now])]
    /\ Goto(c, "sighting")

InsertAlert(c) ==
    /\ Len(alertRows) < MaxAlerts
    /\ alertRows' = Append(alertRows, NewRow(c))

\* Slip: the alert keeps the id it was built with.
RaiseStored_OwnId(c) ==
    /\ stage[c] = "alert" /\ session[c] = "clean"
    /\ InsertAlert(c)
    /\ Raise(c, Uuid)
    /\ UNCHANGED <<correlator, provider, session, read, last, lists, faults>>

(* The alert is inserted, committed and refreshed. *)
RaiseStored(c) ==
    /\ stage[c] = "alert" /\ session[c] = "clean"
    /\ InsertAlert(c)
    /\ Raise(c, Len(alertRows) + 1)
    /\ UNCHANGED <<correlator, provider, session, read, last, lists, faults>>

(* The refresh fails after the commit. *)
RaiseUnread(c) ==
    /\ stage[c] = "alert" /\ session[c] = "clean"
    /\ Fault
    /\ InsertAlert(c)
    /\ Raise(c, Uuid)
    /\ \E s \in {"clean", "failed"} : session' = [session EXCEPT ![c] = s]
    /\ UNCHANGED <<correlator, provider, read, last, lists>>

(* The commit fails: nobody rolls back, and the alert keeps its own id.  A    *)
(* failed INSERT leaves the session failed, a failed COMMIT need not.        *)
RaiseUnstored(c) ==
    /\ stage[c] = "alert"
    /\ \/ session[c] = "failed" /\ NoFault /\ UNCHANGED session
       \/ /\ session[c] = "clean" /\ Fault
          /\ \E s \in {"clean", "failed"} : session' = [session EXCEPT ![c] = s]
    /\ Raise(c, Uuid)
    /\ UNCHANGED <<correlator, provider, read, last, alertRows, lists>>

-----------------------------------------------------------------------------
(* The sighting of a read: JourneyCorrelator.add_sighting.                 *)

(* A repetition is not recorded. *)
Repeated(c, t) ==
    /\ stage[c] = "sighting"
    /\ J!IsDuplicate(segments[c], read[c].plate, c, t)
    /\ Done(c, "repeated")
    /\ UNCHANGED <<correlator, engine, session, alertId, alertRows, lists,
                   faults>>

\* Slip: an alert takes the place of the sighting.
Sighted_NoAlert(c, t) ==
    /\ stage[c] = "sighting"
    /\ IF alertId[c] = None
       THEN /\ J!AddSighting(c, read[c].plate, t)
            /\ Goto(c, "store") /\ UNCHANGED <<read, last>>
       ELSE Done(c, "recorded") /\ UNCHANGED correlator
    /\ UNCHANGED <<engine, session, alertId, alertRows, lists, faults>>

(* Anything else is, in memory first ... *)
Sighted(c, t) ==
    /\ stage[c] = "sighting"
    /\ J!AddSighting(c, read[c].plate, t)
    /\ Goto(c, "store")
    /\ UNCHANGED <<engine, session, read, last, alertId, alertRows, lists,
                   faults>>

(* ... then in the database, if its session is usable ... *)
Query(c) ==
    /\ stage[c] = "store" /\ session[c] = "clean"
    /\ J!PersistQuery(c)
    /\ UNCHANGED <<engine, session, stage, read, last, alertId, alertRows,
                   lists, faults>>

\* May the id of the alert stand in column detection_event_id?  The column is a
\* foreign key to detection_events, a table no pipeline writes.
Citable(id) == id = None \/ ~ForeignKeys \/ id \in EventIds

Commit(c) ==
    /\ stage[c] = "store" /\ session[c] = "clean"
    /\ Citable(alertId[c])
    /\ J!PersistCommit(c)
    /\ Done(c, "recorded")
    /\ UNCHANGED <<engine, session, alertId, alertRows, lists, faults>>

\* Slip: the rollback is missing here too.
RolledBack_Not(c) == UNCHANGED session

RolledBack(c) == session' = [session EXCEPT ![c] = "clean"]

(* ... and the database takes it.  Every failure is rolled back. *)
StoreFails(c) ==
    /\ stage[c] = "store"
    /\ IF session[c] = "failed" \/ (pc[c] = "commit" /\ ~Citable(alertId[c]))
       THEN NoFault ELSE Fault
    /\ J!PersistFail(c)
    /\ RolledBack(c)
    /\ Done(c, "recorded")
    /\ UNCHANGED <<engine, alertId, alertRows, lists>>

-----------------------------------------------------------------------------
(* Processes and people.                                                   *)

(* A pipeline is started again.  A table that cannot be read counts as empty. *)
Restart(c) ==
    /\ J!Restart(c)
    /\ \/ /\ NoFault
          /\ provider' = [provider EXCEPT ![c] = Provider]
          /\ session' = [session EXCEPT ![c] = "clean"]
       \/ /\ Fault
          /\ provider' = [provider EXCEPT ![c] = "synthetic"]
          /\ \E s \in {"clean", "failed"} : session' = [session EXCEPT ![c] = s]
    /\ recent' = [recent EXCEPT ![c] = [p \in Plates |-> None]]
    /\ raised' = [raised EXCEPT ![c] = << >>]
    /\ alertId' = [alertId EXCEPT ![c] = None]
    /\ read' = [read EXCEPT ![c] = None]
    /\ last' = [last EXCEPT ![c] = "none"]
    /\ Goto(c, "idle")
    /\ UNCHANGED <<alertRows, lists>>

(* The API inserts the alert of an incident. *)
IncidentAlert(c, p) ==
    /\ Len(alertRows) < MaxAlerts
    /\ alertRows' = Append(alertRows, [plate |-> p, camera |-> c])
    /\ UNCHANGED <<correlator, engine, session, stage, read, last, alertId,
                   lists, faults>>

(* Officers edit the list of the API: SyntheticWatchlistProvider.add, remove. *)
EditList(p) ==
    /\ \/ p \notin apiList /\ apiList' = apiList \cup {p}
       \/ p \in apiList /\ apiList' = apiList \ {p}
    /\ UNCHANGED <<correlator, engine, session, stage, read, last, alertId,
                   alertRows, table, faults>>

(* The API process ends and is started again. *)
ApiRestart ==
    /\ J!ApiRestart
    /\ apiList' = Demo
    /\ UNCHANGED <<engine, session, stage, read, last, alertId, alertRows,
                   table, faults>>

Next ==
    \/ \E c \in Cameras :
         \/ \E p \in Plates, sure \in BOOLEAN, now \in Times :
                PlateIsRead(c, p, sure, now)
         \/ Lookup(c) \/ LookupFails(c)
         \/ RaiseStored(c) \/ RaiseUnread(c) \/ RaiseUnstored(c)
         \/ \E t \in Times : Repeated(c, t) \/ Sighted(c, t)
         \/ Query(c) \/ Commit(c) \/ StoreFails(c)
         \/ Restart(c)
         \/ \E p \in Plates : IncidentAlert(c, p)
    \/ \E p \in Plates : EditList(p)
    \/ ApiRestart

Spec == Init /\ [][Next]_vars

-----------------------------------------------------------------------------
(* Properties the code keeps.                                              *)

\* Alerts of a plate that one process raises are a cooldown apart, also when
\* the database did not take them (_recent_alerts).
AlertSpacing ==
    \A c \in Cameras : \A i, j \in DOMAIN raised[c] :
        i < j /\ raised[c][i].plate = raised[c][j].plate =>
            raised[c][j].time >= raised[c][i].time + Cooldown

\* Every plate the process alerted has a sighting in its memory once the read
\* is done, whatever the database failed to do for either.
AlertedHasSighting ==
    \A c \in Cameras :
        LET done == IF stage[c] = "sighting" /\ alertId[c] # None
                    THEN 1 .. (Len(raised[c]) - 1) ELSE DOMAIN raised[c]
        IN \A i \in done : \E k \in DOMAIN segments[c] :
               segments[c][k].plate = raised[c][i].plate

\* A process is left with a failed session between two reads only by a
\* repetition or by its start: recording a new sighting repairs the session,
\* whichever of the three users broke it.
FailedOnlyAfterRepetition ==
    \A c \in Cameras :
        stage[c] = "idle" /\ session[c] = "failed" => last[c] # "recorded"

\* Is the k-th segment of c's memory in the table, put there by this process?
Stored(c, k) == \E r \in segRows : r.seg = segments[c][k] /\ r.epoch = epoch[c]

\* Every sighting a process recorded is stored once its call is done.
AllStored ==
    \A c \in Cameras : stage[c] # "store" =>
        \A k \in DOMAIN segments[c] : k > Len(Seeds) => Stored(c, k)

\* A recorded sighting is missing in the table for two reasons only: a statement
\* has failed, or an alert has an id for which detection_events has no row.
LostOnlyByFaultOrKey ==
    faults = 0 /\ (\A i \in DOMAIN alertRows : Citable(i)) => AllStored

-----------------------------------------------------------------------------
(* What the documents say and the code does not keep.                      *)

\* vehicle_journey.py:22, "All sightings of a single vehicle plate": what a
\* process recorded is in the table, if no statement has ever failed.
SightingsStored == faults = 0 => AllStored


\* Has the read of c passed the alert engine without an alert, although its
\* confidence was sufficient and the plate was never alerted?
Passed(c) ==
    /\ stage[c] = "sighting" /\ alertId[c] = None
    /\ read[c].sure /\ recent[c][read[c].plate] = None

\* alert_engine.py:84, "If matched and confidence is sufficient, generate
\* alert": a plate of the table is not missed if nothing failed since its read.
MatchAlerts ==
    \A c \in Cameras :
        Passed(c) /\ provider[c] = "database" /\ read[c].faults = faults =>
            read[c].plate \notin table

=============================================================================
