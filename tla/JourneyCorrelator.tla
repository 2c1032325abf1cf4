------------------------- MODULE JourneyCorrelator -------------------------
(***************************************************************************)
(* Correlation of sightings into vehicle journeys:                         *)
(* services/tracking/journey_correlator.py.                                *)
(*                                                                         *)
(* Every camera has one pipeline process (scripts/start_stream.py), which  *)
(* records sightings in ITS OWN memory (_segments, _journeys) and writes   *)
(* them through to the shared database.  The API process reads journeys    *)
(* from the database into a memory of its own.  Nothing but the database   *)
(* is shared.  A wall-clock reading (datetime.now) is any member of Times: *)
(* the code assumes no monotonicity.                                       *)
(***************************************************************************)
EXTENDS Integers, Sequences, FiniteSets, FiniteSetsExt

CONSTANTS
    Cameras,        \* cameras; each is served by one pipeline process
    Plates,         \* normalised registration numbers
    Seeds,          \* demo sightings every process records at import
    Window,         \* _DEDUP_WINDOW_SECONDS
    MaxTime,        \* bound: clock readings are 0..MaxTime
    MaxRecorded,    \* bound: sightings one incarnation of a process records
    MaxRows,        \* bound: sightings ever committed to the database
    MaxEpoch,       \* bound: restarts of one process
    None            \* absent value (a Python None, an empty query result)

Times == 0 .. MaxTime
Segment == [plate : Plates, camera : Cameras, time : Times]

\* "by" and "epoch" are history fields: who inserted the row.
Row == [plate : Plates, count : Nat, cams : Nat,
        first : Times \cup {None}, last : Times \cup {None}, by : Cameras]
SegRow == [row : Nat, seg : Segment, epoch : Nat]
Loaded == [id : Nat, row : Row]

ASSUME ConstantsOK ==
    /\ IsFiniteSet(Cameras)
    /\ Window \in Nat /\ MaxTime \in Nat
    /\ MaxRecorded \in Nat /\ MaxRows \in Nat /\ MaxEpoch \in Nat
    /\ Seeds \in Seq(Segment)
    /\ None \notin Times \cup Loaded

\* Seeding goes through add_sighting, so seeds keep the dedup distance.
ASSUME SeedsSpaced ==
    \A i, j \in DOMAIN Seeds :
        /\ i < j
        /\ Seeds[i].plate = Seeds[j].plate
        /\ Seeds[i].camera = Seeds[j].camera
        => Seeds[j].time > Seeds[i].time + Window

VARIABLES
    segments,   \* segments[c]: _segments of the pipeline of camera c
    journeys,   \* journeys[c][p]: _journeys[p] of that process
    pc,         \* pc[c]: where the call of add_sighting stands
    pending,    \* pending[c]: the segment being persisted
    loaded,     \* loaded[c]: the row _persist's query returned, or None
    rows,       \* table vehicle_journeys, indexed by id
    segRows,    \* table journey_segments
    epoch,      \* epoch[c]: incarnation of the process (history variable)
    api,        \* api[p]: _journeys[p] of the API process
    apiRow      \* apiRow[p]: row a get_journey in progress has read

pipe == <<segments, journeys, pc, pending, loaded, epoch>>
vars == <<segments, journeys, pc, pending, loaded, rows, segRows, epoch,
          api, apiRow>>

-----------------------------------------------------------------------------
(* Values.                                                                 *)

Journey == [count : Nat, cameras : SUBSET Cameras,
            first : Times \cup {None}, last : Times \cup {None},
            segs : SUBSET Segment]

\* Slip: the counter is not initialised.
EmptyJourney_NoCount == [count |-> None, cameras |-> {}, first |-> None,
                         last |-> None, segs |-> {}]

\* The journey _get_or_create_journey starts from.
EmptyJourney == [count |-> 0, cameras |-> {}, first |-> None, last |-> None,
                 segs |-> {}]

\* The elements of a segment list that belong to plate p.
OfPlate(s, p) == {s[i] : i \in {k \in DOMAIN s : s[k].plate = p}}
TimesOf(S) == {x.time : x \in S}

\* Slip: the camera replaces the cameras seen so far.
Updated_LastCamera(j, s, seg) ==
    LET mine == OfPlate(Append(s, seg), seg.plate)
    IN [count |-> j.count + 1, cameras |-> {seg.camera},
        first |-> Min(TimesOf(mine)), last |-> Max(TimesOf(mine)),
        segs |-> mine]

\* The journey add_sighting leaves behind after appending seg to the list s.
Updated(j, s, seg) ==
    LET mine == OfPlate(Append(s, seg), seg.plate)
    IN [count   |-> j.count + 1,
        cameras |-> j.cameras \cup {seg.camera},
        first   |-> Min(TimesOf(mine)),
        last    |-> Max(TimesOf(mine)),
        segs    |-> mine]

\* What the seeding at import leaves for plate p.
SeedJourney(p) ==
    LET mine == OfPlate(Seeds, p)
    IN IF mine = {}
       THEN EmptyJourney
       ELSE [count   |-> Cardinality({k \in DOMAIN Seeds : Seeds[k].plate = p}),
             cameras |-> {x.camera : x \in mine},
             first   |-> Min(TimesOf(mine)),
             last    |-> Max(TimesOf(mine)),
             segs    |-> mine]

\* What a process holds right after its import, before any real sighting.
Fresh == [p \in Plates |-> SeedJourney(p)]

\* Slip: the boundary of the window is left out.
IsDuplicate_Open(s, p, c, t) ==
    \E i \in DOMAIN s :
        s[i].plate = p /\ s[i].camera = c /\ s[i].time > t - Window

\* Slip: only an identical timestamp counts as a repetition.
IsDuplicate_Exact(s, p, c, t) ==
    \E i \in DOMAIN s :
        s[i].plate = p /\ s[i].camera = c /\ s[i].time = t

IsDuplicate(s, p, c, t) ==
    \E i \in DOMAIN s :
        /\ s[i].plate = p
        /\ s[i].camera = c
        /\ s[i].time >= t - Window

\* Slip: the upsert does not find the row that is there.
Matching_Nothing(p) == {}

\* Ids of the rows a query by plate may return first: there is no ORDER BY.
Matching(p) == {i \in DOMAIN rows : rows[i].plate = p}

-----------------------------------------------------------------------------
TypeOK ==
    /\ segments \in [Cameras -> Seq(Segment)]
    /\ journeys \in [Cameras -> [Plates -> Journey]]
    /\ pc \in [Cameras -> {"idle", "query", "commit"}]
    /\ pending \in [Cameras -> Segment \cup {None}]
    /\ loaded \in [Cameras -> Loaded \cup {None}]
    /\ rows \in Seq(Row)
    /\ segRows \in SUBSET SegRow
    /\ epoch \in [Cameras -> Nat]
    /\ api \in [Plates -> Journey]
    /\ apiRow \in [Plates -> Loaded \cup {None}]

Init ==
    /\ segments = [c \in Cameras |-> Seeds]
    /\ journeys = [c \in Cameras |-> Fresh]
    /\ pc = [c \in Cameras |-> "idle"]
    /\ pending = [c \in Cameras |-> None]
    /\ loaded = [c \in Cameras |-> None]
    /\ rows = << >>
    /\ segRows = {}
    /\ epoch = [c \in Cameras |-> 0]
    /\ api = Fresh
    /\ apiRow = [p \in Plates |-> None]

(* add_sighting up to its call of _persist.  A duplicate returns the cached *)
(* journey and changes nothing, so only the other case is an action.        *)
AddSighting(c, p, t) ==
    /\ pc[c] = "idle"
    /\ ~IsDuplicate(segments[c], p, c, t)
    /\ Len(segments[c]) < Len(Seeds) + MaxRecorded
    /\ LET seg == [plate |-> p, camera |-> c, time |-> t]
       IN /\ segments' = [segments EXCEPT ![c] = Append(@, seg)]
          /\ journeys' = [journeys EXCEPT
                            ![c][p] = Updated(@, segments[c], seg)]
          /\ pending' = [pending EXCEPT ![c] = seg]
    /\ pc' = [pc EXCEPT ![c] = "query"]
    /\ UNCHANGED <<loaded, rows, segRows, epoch, api, apiRow>>

(* _persist reads the row of the plate, if there is one. *)
PersistQuery(c) ==
    /\ pc[c] = "query"
    /\ pc' = [pc EXCEPT ![c] = "commit"]
    /\ \/ /\ Matching(pending[c].plate) = {}
          /\ loaded' = [loaded EXCEPT ![c] = None]
       \/ \E i \in Matching(pending[c].plate) :
            loaded' = [loaded EXCEPT ![c] = [id |-> i, row |-> rows[i]]]
    /\ UNCHANGED <<segments, journeys, pending, rows, segRows, epoch,
                   api, apiRow>>

\* Slip: a changed column is written back with its loaded value.
Column_Stale(new, old, now) == IF new = old THEN now ELSE old

\* The UPDATE names only the columns whose value differs from the loaded one.
Column(new, old, now) == IF new = old THEN now ELSE new

Merged(j, old, now) ==
    [now EXCEPT !.count = Column(j.count, old.count, @),
                !.cams  = Column(Cardinality(j.cameras), old.cams, @),
                !.first = Column(j.first, old.first, @),
                !.last  = Column(j.last, old.last, @)]

Inserted(j, p, c) ==
    [plate |-> p, count |-> j.count, cams |-> Cardinality(j.cameras),
     first |-> j.first, last |-> j.last, by |-> c]

Idle(c) ==
    /\ pc' = [pc EXCEPT ![c] = "idle"]
    /\ pending' = [pending EXCEPT ![c] = None]
    /\ loaded' = [loaded EXCEPT ![c] = None]

(* The flush and the commit of _persist: the journey row and the segment   *)
(* become visible together.                                                *)
PersistCommit(c) ==
    /\ pc[c] = "commit"
    /\ Cardinality(segRows) < MaxRows
    /\ LET p == pending[c].plate
           j == journeys[c][p]
           id == IF loaded[c] = None THEN Len(rows) + 1 ELSE loaded[c].id
       IN /\ rows' = IF loaded[c] = None
                     THEN Append(rows, Inserted(j, p, c))
                     ELSE [rows EXCEPT ![id] = Merged(j, loaded[c].row, @)]
          /\ segRows' = segRows \cup
                {[row |-> id, seg |-> pending[c], epoch |-> epoch[c]]}
    /\ Idle(c)
    /\ UNCHANGED <<segments, journeys, epoch, api, apiRow>>

(* Any statement of _persist fails (database locked, connection lost, a    *)
(* foreign key the alert id does not satisfy): rollback, error swallowed.  *)
PersistFail(c) ==
    /\ pc[c] # "idle"
    /\ Idle(c)
    /\ UNCHANGED <<segments, journeys, rows, segRows, epoch, api, apiRow>>

(* The pipeline process ends at any point and is started again. *)
Restart(c) ==
    /\ epoch[c] < MaxEpoch
    /\ epoch' = [epoch EXCEPT ![c] = @ + 1]
    /\ segments' = [segments EXCEPT ![c] = Seeds]
    /\ journeys' = [journeys EXCEPT ![c] = Fresh]
    /\ Idle(c)
    /\ UNCHANGED <<rows, segRows, api, apiRow>>

(* get_journey of the API process: a journey with segments is served from  *)
(* memory for ever (no step); otherwise the row is read ...                *)
ApiQuery(p) ==
    /\ api[p].segs = {}
    /\ apiRow[p] = None
    /\ \E i \in Matching(p) :
         apiRow' = [apiRow EXCEPT ![p] = [id |-> i, row |-> rows[i]]]
    /\ UNCHANGED <<pipe, rows, segRows, api>>

(* ... then its segments, and both are cached. *)
ApiLoad(p) ==
    /\ apiRow[p] # None
    /\ LET row == apiRow[p].row
           segs == {s.seg : s \in {r \in segRows : r.row = apiRow[p].id}}
       IN api' = [api EXCEPT
                    ![p] = [count |-> row.count,
                            cameras |-> {s.camera : s \in segs},
                            first |-> row.first, last |-> row.last,
                            segs |-> segs]]
    /\ apiRow' = [apiRow EXCEPT ![p] = None]
    /\ UNCHANGED <<pipe, rows, segRows>>

(* The API process ends and is started again. *)
ApiRestart ==
    /\ api' = Fresh
    /\ apiRow' = [p \in Plates |-> None]
    /\ UNCHANGED <<pipe, rows, segRows>>

Next ==
    \/ \E c \in Cameras, p \in Plates, t \in Times : AddSighting(c, p, t)
    \/ \E c \in Cameras :
         \/ PersistQuery(c)
         \/ PersistCommit(c)
         \/ PersistFail(c)
         \/ Restart(c)
    \/ \E p \in Plates : ApiQuery(p) \/ ApiLoad(p)
    \/ ApiRestart

Spec == Init /\ [][Next]_vars

-----------------------------------------------------------------------------
(* Properties the code keeps.                                              *)

\* Two sightings of a plate that one process recorded at one camera are more
\* than the window apart, in the order they arrived, whatever the clock did
\* between the calls (_is_duplicate).
Spacing ==
    \A c \in Cameras : \A i, j \in DOMAIN segments[c] :
        /\ i < j
        /\ segments[c][i].plate = segments[c][j].plate
        /\ segments[c][i].camera = segments[c][j].camera
        => segments[c][j].time > segments[c][i].time + Window

\* The summary add_sighting keeps incrementally agrees with the segment list
\* it is a summary of: none lost, none counted twice, both ends right.
SummaryMatchesSegments ==
    \A c \in Cameras, p \in Plates :
        LET mine == OfPlate(segments[c], p)
            j == journeys[c][p]
        IN /\ j.segs = mine
           /\ j.count = Cardinality(mine)
           /\ j.cameras = {s.camera : s \in mine}
           /\ mine # {} => /\ {j.first, j.last} \subseteq TimesOf(mine)
                          /\ \A s \in mine : j.first <= s.time /\ s.time <= j.last

\* Two committed sightings of a plate at a camera inside the window can only
\* come from two incarnations of the process: the window is kept in memory.
RepeatsOnlyAcrossRestarts ==
    \A r, s \in segRows :
        /\ r # s
        /\ r.seg.plate = s.seg.plate
        /\ r.seg.camera = s.seg.camera
        /\ r.seg.time >= s.seg.time - Window
        /\ s.seg.time >= r.seg.time - Window
        => r.epoch # s.epoch

\* The upsert of _persist inserts at most one journey row of a plate per
\* pipeline process, however its transactions race, fail or are repeated
\* after a restart: the rows of a plate have different inserters.
OneRowPerPipeline ==
    \A i, k \in DOMAIN rows :
        i # k /\ rows[i].plate = rows[k].plate => rows[i].by # rows[k].by

\* A journey row written by one incarnation of one pipeline alone covers all
\* segments stored under it, also when some of its transactions failed.
SoleWriterRowCovers ==
    \A i \in DOMAIN rows :
        LET S == {s \in segRows : s.row = i}
        IN (\E c \in Cameras : \A s \in S : s.seg.camera = c /\ s.epoch = epoch[c])
           => /\ rows[i].count >= Cardinality(S)
              /\ \A s \in S : /\ rows[i].first <= s.seg.time
                              /\ s.seg.time <= rows[i].last

=============================================================================
