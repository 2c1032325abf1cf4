-------------------------- MODULE IncidentAnalyzer --------------------------
(***************************************************************************)
(* The multi-frame incident analyser of                                    *)
(* services/detection/incident_analyzer.py, driven the only way the        *)
(* program drives it: by POST /incidents/analyze-stream with               *)
(* simulate_collision, which feeds sixteen frames of two vehicles to the   *)
(* one analyser of the process.  The endpoint is a plain function, so two  *)
(* calls run in two threads, and the analyser has no lock: a frame is      *)
(* first taken into the tracks and then analysed, and the two halves of    *)
(* different calls interleave.  All calls name the same camera and the     *)
(* same two track numbers (101 and 102), as the endpoint does.             *)
(*                                                                         *)
(* Specification, initial states and steps carry the name of the module,   *)
(* so that it can be extended beside another component.                    *)
(*                                                                         *)
(* Abstracted: both boxes are 50 wide, 50 high and at the same height, so  *)
(* a box is its left edge and the intersection over union is one of        *)
(* widths; speeds are rounded down to whole pixels a second; a track keeps *)
(* only the last of its forty waypoints, the one that is read.             *)
(***************************************************************************)
EXTENDS Integers, FiniteSets, FiniteSetsExt

CONSTANTS Threads,      \* of the pool: each runs one call after another
          NoEntry,      \* no such entry of a dictionary
          MaxCount      \* bound: no call begins on counts above it

VARIABLES
  tracks,     \* _tracks of the camera: the last waypoint and the counters
  overlap,    \* _pair_overlap_persistence of the pair, NoEntry when absent
  call,       \* where the call of a thread stands, and its frame
  alone,      \* (history) no other call has run beside the thread's latest one
  carried     \* (history) the counts a lone call found: overlap and standstill

analyzer == <<tracks, overlap, call, alone, carried>>

Pair == {1, 2}          \* TRACK-101 and TRACK-102
Frames == 16            \* range(16)
Meets == 4              \* the frame from which the vehicles stand together
Width == 50             \* of both boxes
Persist == 10           \* frames of overlap that make a collision
StalledFrames == 18     \* frames of standstill that make a stalled vehicle

\* The last waypoint of a track, the highest speed seen and the slow frames.
Track == [x : Nat, pts : Nat, speed : Nat, top : Nat, stopped : Nat]

ASSUME AnalyzerConstants ==
  /\ NoEntry \notin Track /\ NoEntry \notin Nat
  /\ MaxCount \in Nat

-----------------------------------------------------------------------------
(* The simulated frames. *)

Pts(i) == 100 * i

\* The left edge of a vehicle's box in a frame: they drive towards each other.
Edge(t, i) ==
  IF t = 1 THEN IF i < Meets THEN 100 + 15 * i ELSE 160
           ELSE IF i < Meets THEN 220 - 15 * i ELSE 170

Dist(a, b) == IF a > b THEN a - b ELSE b - a

-----------------------------------------------------------------------------
(* update_tracks. *)

\* Pixels a second since the last waypoint, over at least 20 ms: a frame older
\* than the last one counts as 20 ms after it.
Speed(track, x, now) ==
  IF track = NoEntry THEN 0
  ELSE (1000 * Dist(x, track.x)) \div Max({20, now - track.pts})

\* A slow frame counts, a fast one takes two away.
Stopped(before, speed) ==
  IF speed < 8 THEN before + 1 ELSE Max({0, before - 2})

Moved(track, x, now) ==
  LET speed == Speed(track, x, now)
      old == IF track = NoEntry THEN [top |-> 0, stopped |-> 0] ELSE track
  IN  [x |-> x, pts |-> now, speed |-> speed,
       top |-> Max({old.top, speed}),
       stopped |-> Stopped(old.stopped, speed)]

\* Tracks not seen for three seconds go; a clock that went back removes none.
Evicted(ts, now) ==
  [t \in Pair |->
     IF ts[t] # NoEntry /\ now - ts[t].pts > 3000 THEN NoEntry ELSE ts[t]]

UpdateTracks(ts, i) ==
  Evicted([t \in Pair |-> Moved(ts[t], Edge(t, i), Pts(i))], Pts(i))

-----------------------------------------------------------------------------
(* analyze_incidents. *)

\* compute_iou(...) >= 0.28
Overlaps(ts) ==
  LET inter == Width - Dist(ts[1].x, ts[2].x)
  IN  inter > 0 /\ 100 * inter >= 28 * (2 * Width - inter)

\* The count of the pair: one more while they overlap, one less when they are
\* apart, and never below zero.
Counted(ts, count) ==
  IF Overlaps(ts) THEN (IF count = NoEntry THEN 0 ELSE count) + 1
  ELSE IF count = NoEntry THEN NoEntry ELSE Max({0, count - 1})

IsSlowed(pre, post) == post < 12 \/ (pre > 30 /\ 5 * post < 2 * pre)

\* Slip: report a collision once, in the frame the count reaches ten.
IsCollision_Once(ts, count) ==
  /\ Overlaps(ts)
  /\ count = Persist
  /\ IsSlowed(Max({ts[t].top : t \in Pair}), Min({ts[t].speed : t \in Pair}))

IsCollision(ts, count) ==
  /\ Overlaps(ts)
  /\ count >= Persist
  /\ IsSlowed(Max({ts[t].top : t \in Pair}), Min({ts[t].speed : t \in Pair}))

StalledTracks(ts) ==
  {t \in Pair : ts[t].top > 35 /\ ts[t].stopped >= StalledFrames}

IsIncident(ts, count) == IsCollision(ts, count) \/ StalledTracks(ts) # {}

-----------------------------------------------------------------------------
(* The endpoint. *)

\* The longest standstill the tracks have counted.
Standstill(ts) ==
  Max({0} \cup {ts[t].stopped : t \in {u \in Pair : ts[u] # NoEntry}})

CountsFound == [overlap |-> IF overlap = NoEntry THEN 0 ELSE overlap,
                stopped |-> Standstill(tracks)]
NoCounts == [overlap |-> 0, stopped |-> 0]

Running == {t \in Threads : call[t].at \in {"update", "analyze"}}

AnalyzerInit ==
  /\ tracks = [t \in Pair |-> NoEntry]
  /\ overlap = NoEntry
  /\ call = [t \in Threads |-> [at |-> "idle", frame |-> 0]]
  /\ alone = [t \in Threads |-> TRUE]
  /\ carried = [t \in Threads |-> NoCounts]

Begin(t) ==
  /\ t \notin Running
  /\ CountsFound.overlap <= MaxCount /\ CountsFound.stopped <= MaxCount
  /\ call' = [call EXCEPT ![t] = [at |-> "update", frame |-> 0]]
  /\ alone' = [u \in Threads |-> IF u = t THEN Running = {}
                                ELSE alone[u] /\ u \notin Running]
  /\ carried' = [u \in Threads |-> IF ~alone'[u] THEN NoCounts
                                  ELSE IF u = t THEN CountsFound ELSE carried[u]]
  /\ UNCHANGED <<tracks, overlap>>

Update(t) ==
  /\ call[t].at = "update"
  /\ tracks' = UpdateTracks(tracks, call[t].frame)
  /\ call' = [call EXCEPT ![t].at = "analyze"]
  /\ UNCHANGED <<overlap, alone, carried>>

\* The tracks are shared objects: the analysis reads the boxes and speeds the
\* latest update of any call has left.  The first frame with a candidate ends
\* the call, and so does the last frame.
Analyze(t) ==
  /\ call[t].at = "analyze"
  /\ overlap' = Counted(tracks, overlap)
  /\ LET i == call[t].frame
     IN  call' = [call EXCEPT ![t] =
           IF IsIncident(tracks, overlap') THEN [at |-> "found", frame |-> i]
           ELSE IF i + 1 = Frames THEN [at |-> "nothing", frame |-> i]
           ELSE [at |-> "update", frame |-> i + 1]]
  /\ UNCHANGED <<tracks, alone, carried>>

AnalyzerNext == \E t \in Threads : Begin(t) \/ Update(t) \/ Analyze(t)

AnalyzerSpec == AnalyzerInit /\ [][AnalyzerNext]_analyzer

-----------------------------------------------------------------------------
\* What four frames apart leave of the count of the pair, and the frame in which
\* that and the overlap frames since add up to ten.
LeftOver(found) == Max({0, found - Meets})
Due(found) == Max({Meets, Meets + Persist - 1 - LeftOver(found)})

\* A simulated collision that no other call overlaps is reported whatever earlier
\* calls, alone or overlapping, have left in the analyser, and no later than its
\* own tenth frame of overlap: old counts never keep it from being reported.
\* Unless it found a vehicle with seventeen frames of standstill, it is not
\* reported before ten frames of overlap have been counted, its own and the ones
\* it found.  From clean counts the two bounds meet: the tenth frame, neither
\* earlier nor later, as the endpoint's "deterministic" validation has it.  (That
\* the found ones count too is not what the module's third consensus rule says;
\* the property permits it and does not require it.)
LoneCallReports ==
  \A t \in Threads :
    alone[t] /\ call[t].at \in {"found", "nothing"} =>
      /\ call[t].at = "found" /\ call[t].frame < Meets + Persist
      /\ carried[t].stopped < StalledFrames - 1 =>
           call[t].frame >= Due(carried[t].overlap)
=============================================================================
