----------------------------- MODULE Analytics -----------------------------
(***************************************************************************)
(* Detection events and the analytics over them:                           *)
(* services/analytics/seed_events.py and analytics_service.py with the     *)
(* endpoints of main.py.  The list of cameras a summary works with is      *)
(* whatever CameraDirectory serves.                                        *)
(*                                                                         *)
(* Specification, initial states and steps carry the name of the module,   *)
(* so that it can be extended beside another component.                    *)
(*                                                                         *)
(* Events are written when the process starts and at no other time:        *)
(* record_detection_event has no caller.  Each start is subject to a fault *)
(* of the database at every commit.                                        *)
(*                                                                         *)
(* The hours of events and queries are those of the calendar, counted from *)
(* some midnight in halves of an hour.                                     *)
(***************************************************************************)
EXTENDS Integers, Sequences, FiniteSets, FiniteSetsExt, SequencesExt

CONSTANTS
    Null,
    Garbled,        \* a date that does not parse
    YearDays,       \* days until a date comes back; labels have no year
    Truths,         \* what the ground truth drawn at random may be
    Samples,        \* SAMPLE_CRASH_EVENTS: age in halves of an hour in "at"
    DeptMap,        \* DeptMap[c]: department of a camera of the registry
    Lists,          \* lists of camera ids CameraDirectory may serve
    AlertTables,    \* what table alerts may hold: AlertDesk stores there
    BootTimes,      \* when the process may start, in halves of an hour
    Queries,        \* what analysts ask for
    MaxRestarts,    \* bound: restarts of the process
    MaxFaults       \* bound: commits that fail

VARIABLES
    rows,       \* table detection_events
    report,     \* the last summary reported, with its query (history)
    restarts, faults    \* counters for the bounds (history)

analytics == <<rows, report, restarts, faults>>

Hour == 2
Day == 24 * Hour

VehicleClasses == {"car", "motorcycle", "bus", "truck"}
CrashClasses == {"crash", "accident", "collision", "incident"}
Classes == VehicleClasses \cup CrashClasses \cup {"person"}

\* plate: normalised_plate, or Null.  status: of a match, Null without one.
Event == [cam : STRING, class : Classes, plate : STRING \cup {Null},
          status : STRING \cup {Null}, at : Nat]

SameSample(r, s) == r.cam = s.cam /\ r.class = s.class /\ r.plate = s.plate

EventTypes == {"person", "vehicle", "anpr", "watchlist", "crash"}

Alert == [cam : STRING, at : Nat]

\* A query: the window, a camera, a department and a type or Null each; now is
\* when it is asked.  from and to are what a custom range is given.
Query == [range : {"today", "24h", "7d", "30d", "custom"}, now : Nat,
          from : Nat \cup {Null, Garbled}, to : Nat \cup {Null, Garbled},
          cam : STRING \cup {Null}, dept : STRING \cup {Null}, type : EventTypes \cup {Null}]

(* The ground truth draws vehicles and persons, the samples are crashes,   *)
(* and no two of them have the same camera, class and plate.               *)
ASSUME AnalyticsConstants ==
    /\ Null \notin EventTypes /\ Null # Garbled /\ {Null, Garbled} \cap Nat = {}
    /\ YearDays \in Nat \ {0}
    /\ Truths \subseteq Seq(Event) /\ Truths # {} /\ << >> \notin Truths
    /\ \A truth \in Truths : \A i \in DOMAIN truth : truth[i].class \notin CrashClasses
    /\ Samples \in Seq(Event)
    /\ \A i \in DOMAIN Samples : Samples[i].class \in CrashClasses
    /\ \A i, j \in DOMAIN Samples : SameSample(Samples[i], Samples[j]) => i = j
    /\ Lists \subseteq Seq(STRING) /\ AlertTables \subseteq Seq(Alert)
    /\ BootTimes \subseteq Nat /\ Queries \subseteq Query
    /\ {MaxRestarts, MaxFaults} \subseteq Nat

-----------------------------------------------------------------------------
(* Queries.                                                                *)

Floor(time, unit) == time - (time % unit)
Back(time, span) == IF time > span THEN time - span ELSE 0

\* What a custom range goes by: a beginning that does not parse is a week ago, an
\* end that does not parse, or is not there, is now.
FirstOf(q) == IF q.from = Garbled THEN Back(q.now, 7 * Day) ELSE q.from
LastOf(q) == IF q.to \in {Null, Garbled} THEN q.now ELSE q.to

\* Slip: today is the last twenty-four hours.
parse_time_window_Rolling(q) ==
    CASE q.range \in {"today", "24h"} -> [from |-> Back(q.now, Day), to |-> q.now]
      [] q.range = "7d" -> [from |-> Back(q.now, 7 * Day), to |-> q.now]
      [] q.range = "30d" -> [from |-> Back(q.now, 30 * Day), to |-> q.now]
      [] OTHER -> [from |-> FirstOf(q), to |-> LastOf(q)]

(* A custom range without a beginning counts as today.                     *)
parse_time_window(q) ==
    CASE q.range = "24h" -> [from |-> Back(q.now, Day), to |-> q.now]
      [] q.range = "7d" -> [from |-> Back(q.now, 7 * Day), to |-> q.now]
      [] q.range = "30d" -> [from |-> Back(q.now, 30 * Day), to |-> q.now]
      [] q.range = "custom" /\ q.from # Null -> [from |-> FirstOf(q), to |-> LastOf(q)]
      [] OTHER -> [from |-> Floor(q.now, Day), to |-> q.now]

DeptOf(c) == IF c \in DOMAIN DeptMap THEN DeptMap[c] ELSE "Gujarat Police Surveillance"

IsOfType(e, type) ==
    CASE type = "person" -> e.class = "person"
      [] type = "vehicle" -> e.class \in VehicleClasses
      [] type = "anpr" -> e.plate # Null
      [] type = "watchlist" -> e.status # Null
      [] type = "crash" -> e.class \in CrashClasses \/ e.status = "ACCIDENT_COLLISION"
      [] OTHER -> TRUE

(* The filters both endpoints build: the rows a query is about.  A         *)
(* department stands for the cameras the registry has there.               *)
Matching(table, q) ==
    LET w == parse_time_window(q)
    IN {i \in DOMAIN table :
          LET e == table[i]
          IN /\ w.from <= e.at /\ e.at <= w.to
             /\ q.cam # Null => e.cam = q.cam
             /\ q.dept # Null => e.cam \in DOMAIN DeptMap /\ DeptMap[e.cam] = q.dept
             /\ IsOfType(e, q.type)}

\* get_detection_events, the endpoint behind a click on a figure.
DrillDown(table, q, type) ==
    Cardinality(Matching(table, [q EXCEPT !.type = type]))

(* Buckets of an hour up to two days, of a day beyond; the label of an     *)
(* hour does not say of which day, that of a day not of which year.        *)
UsesHours(w) == w.to - w.from <= 2 * Day
LabelOf(time, w) ==
    IF UsesHours(w) THEN (time \div Hour) % 24 ELSE (time \div Day) % YearDays

Labels(w) ==
    LET unit == IF UsesHours(w) THEN Hour ELSE Day
    IN {LabelOf(t, w) : t \in {x \in Floor(w.from, unit) .. w.to : x % unit = 0}}

CountOf(table, found, Is(_)) == Cardinality({i \in found : Is(table[i])})

(* Everything that is no person is drawn as a vehicle.                     *)
Series(table, found, w) ==
    [label \in Labels(w) \cup {LabelOf(table[i].at, w) : i \in found} |->
        LET here == {i \in found : LabelOf(table[i].at, w) = label}
        IN [vehicles |-> CountOf(table, here, LAMBDA e : e.class # "person"),
            persons |-> CountOf(table, here, LAMBDA e : e.class = "person"),
            anpr |-> CountOf(table, here, LAMBDA e : e.plate # Null),
            watchlist |-> CountOf(table, here, LAMBDA e : e.status # Null)]]

\* How many rows there are of each value of a column.
Distribution(table, found, Column(_)) ==
    [x \in {Column(table[i]) : i \in found} |->
        CountOf(table, found, LAMBDA e : Column(e) = x)]

\* The alerts of the window and the camera; neither department nor type counts.
AlertsOf(alerts, q) ==
    LET w == parse_time_window(q)
    IN {i \in DOMAIN alerts : /\ w.from <= alerts[i].at /\ alerts[i].at <= w.to
                              /\ q.cam # Null => alerts[i].cam = q.cam}

(* get_analytics_summary over the rows found, the alerts and a list of     *)
(* cameras.                                                                *)
Summary(table, alerts, q, list) ==
    LET found == Matching(table, q)
        active == {table[i].cam : i \in found}
    IN [total |-> Cardinality(found),
        vehicles |-> CountOf(table, found, LAMBDA e : e.class \in VehicleClasses),
        persons |-> CountOf(table, found, LAMBDA e : e.class = "person"),
        anpr |-> CountOf(table, found, LAMBDA e : e.plate # Null),
        plates |-> Cardinality({table[i].plate : i \in found} \ {Null}),
        watchlist |-> CountOf(table, found, LAMBDA e : e.status # Null),
        contributing |-> Cardinality(active),
        alerts |-> Cardinality(AlertsOf(alerts, q)),
        classes |-> Distribution(table, found, LAMBDA e : e.class),
        depts |-> Distribution(table, found, LAMBDA e : DeptOf(e.cam)),
        series |-> Series(table, found, parse_time_window(q)),
        cameras |-> IF list = << >> THEN Cardinality(DOMAIN DeptMap) ELSE Len(list),
        silent |-> {i \in DOMAIN list : list[i] \notin active}]

-----------------------------------------------------------------------------
(* Seeding.                                                                *)

\* at of a row is its age when the process starts.
Aged(batch, boot) == [i \in DOMAIN batch |-> [batch[i] EXCEPT !.at = Back(boot, @)]]

\* Slip: a sample is looked for by everything it is made of, its time as well.
MissingSamples_Exact(table) ==
    {i \in DOMAIN Samples : \A r \in Range(table) : r # Samples[i]}

(* Each sample is looked for by camera, class and plate.                   *)
MissingSamples(table) ==
    {i \in DOMAIN Samples : \A r \in Range(table) : ~SameSample(r, Samples[i])}

\* The ground truth goes into an empty table only, in one commit.
Truthful(table, boot) ==
    IF table # << >> THEN {table} ELSE {Aged(truth, boot) : truth \in Truths}

\* The samples the table lacks, in one commit; in which order does not matter.
Sampled(table, boot) ==
    LET missing == SetToSeq(MissingSamples(table))
    IN table \o Aged([i \in DOMAIN missing |-> Samples[missing[i]]], boot)

(* One start of the process: two commits, each of which may fail and       *)
(* leaves the table as it was.                                             *)
Starts(table, boot) ==
    {[table |-> IF x[2] THEN Sampled(IF x[1] THEN x[3] ELSE table, boot)
                ELSE IF x[1] THEN x[3] ELSE table,
      faults |-> Cardinality({i \in {1, 2} : ~x[i]})] :
        x \in BOOLEAN \X BOOLEAN \X Truthful(table, boot)}

-----------------------------------------------------------------------------

AnalyticsInit ==
    /\ \E boot \in BootTimes : \E start \in Starts(<< >>, boot) :
          /\ start.faults <= MaxFaults
          /\ rows = start.table /\ faults = start.faults
    /\ report = Null /\ restarts = 0

Restart ==
    /\ restarts < MaxRestarts
    /\ restarts' = restarts + 1
    /\ \E boot \in BootTimes : \E start \in Starts(rows, boot) :
          /\ faults + start.faults <= MaxFaults
          /\ rows' = start.table /\ faults' = faults + start.faults
    /\ report' = Null

get_analytics_summary(q) ==
    /\ \E list \in Lists, alerts \in AlertTables :
          report' = [query |-> q, figures |-> Summary(rows, alerts, q, list)]
    /\ UNCHANGED <<rows, restarts, faults>>

AnalyticsNext == Restart \/ \E q \in Queries : get_analytics_summary(q)

AnalyticsSpec == AnalyticsInit /\ [][AnalyticsNext]_analytics

-----------------------------------------------------------------------------
(* Properties.                                                             *)

\* The sum of the values of a function of natural numbers: so many pairs there are
\* of an argument and a number from one to its value.
Total(f) == Cardinality(UNION {{x} \X (1 .. f[x]) : x \in DOMAIN f})

\* The figure of a kind of events is what the click on it lists: the summary counts
\* within what it has found, the events endpoint filters by the kind at once.  (The
\* alerts are another table and have no such click.)
FiguresDrillDown(q, f) ==
    q.type = Null =>
        /\ f.vehicles = DrillDown(rows, q, "vehicle")
        /\ f.persons = DrillDown(rows, q, "person")
        /\ f.anpr = DrillDown(rows, q, "anpr")
        /\ f.watchlist = DrillDown(rows, q, "watchlist")

\* The chart, the classes and the departments each account for every event.
FiguresAddUp(f) ==
    LET chart == f.series
        labels == DOMAIN chart
    IN /\ Total([l \in labels |-> chart[l].vehicles + chart[l].persons]) = f.total
       /\ Total([l \in labels |-> chart[l].persons]) = f.persons
       /\ Total([l \in labels |-> chart[l].anpr]) = f.anpr
       /\ Total([l \in labels |-> chart[l].watchlist]) = f.watchlist
       /\ Total(f.classes) = f.total /\ Total(f.depts) = f.total

\* The chart of today has a bucket for each hour so far, holding the events of
\* that hour of today.
TodayByHour(q, f) ==
    q.range = "today" =>
        /\ DOMAIN f.series = 0 .. ((q.now % Day) \div Hour)
        /\ \A i, j \in Matching(rows, q) :
              rows[i].at \div Hour = rows[j].at \div Hour <=>
              LabelOf(rows[i].at, parse_time_window(q))
                  = LabelOf(rows[j].at, parse_time_window(q))

\* What a summary reports of the events agrees with itself, with the events it
\* leads to and with the calendar, whatever the seeding left in the table.
ReportAgrees ==
    report # Null =>
        /\ FiguresDrillDown(report.query, report.figures)
        /\ FiguresAddUp(report.figures)
        /\ TodayByHour(report.query, report.figures)

\* The rows of a table that are a sample, and what seeding may leave of a table:
\* rows that are no sample are one batch.
OfSample(table, i) == {r \in DOMAIN table : SameSample(table[r], Samples[i])}
NoSample(table) == DOMAIN table \ UNION {OfSample(table, i) : i \in DOMAIN Samples}
Seeded(table) ==
    /\ \A i \in DOMAIN Samples : Cardinality(OfSample(table, i)) <= 1
    /\ \/ NoSample(table) = {}
       \/ \E truth \in Truths : NoSample(table) = 1 .. Len(truth)

\* However often the process starts and whichever commits fail, a sample is in
\* the table at most once and the ground truth is there as a whole or not at
\* all.
SeededOnce == Seeded(rows)
=============================================================================
