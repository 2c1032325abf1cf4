---------------------- MODULE JourneyCorrelatorProofs ----------------------
(***************************************************************************)
(* Theorems about JourneyCorrelator, for every set of cameras and plates,  *)
(* every window, every seeding and every bound.                            *)
(***************************************************************************)
EXTENDS JourneyCorrelator, TLAPS, FiniteSetTheorems, WellFoundedInduction

-----------------------------------------------------------------------------
(* Lemmas about the operators.                                             *)

\* A non-empty set of clock readings has a least element, and Min is it.
LEMMA MinOfTimes ==
    ASSUME NEW S, S \subseteq Times, S # {}
    PROVE  /\ Min(S) \in S
           /\ \A t \in S : Min(S) <= t
<1>1. S \subseteq Nat
  BY ConstantsOK DEF Times
<1>2. PICK x \in S : \A y \in S : ~(<<y, x>> \in OpToRel(<, Nat))
  BY <1>1, WFMin, NatLessThanWellFounded
<1>3. OpToRel(<, Nat) = {ss \in Nat \X Nat : ss[1] < ss[2]}
  BY Zenon DEF OpToRel
<1>4. \A y \in S : <<y, x>> \notin {ss \in Nat \X Nat : ss[1] < ss[2]}
  BY <1>2, <1>3, Zenon
<1>5. \A y \in S : x <= y
  <2> SUFFICES ASSUME NEW y \in S PROVE x <= y
    OBVIOUS
  <2>1. x \in Nat /\ y \in Nat
    BY <1>1
  <2>2. ~(y < x)
    BY <1>4, <2>1, Zenon
  <2> QED
    BY <2>1, <2>2
<1> QED
  BY <1>5 DEF Min

\* The same for Max: the readings are bounded, so it is the least distance
\* to the bound.
LEMMA MaxOfTimes ==
    ASSUME NEW S, S \subseteq Times, S # {}
    PROVE  /\ Max(S) \in S
           /\ \A t \in S : t <= Max(S)
<1> DEFINE D == {MaxTime - t : t \in S}
<1>1. D \subseteq Times /\ D # {}
  <2>1. \A t \in Times : MaxTime - t \in Times
    BY ConstantsOK DEF Times
  <2> QED
    BY <2>1
<1>2. Min(D) \in D /\ \A d \in D : Min(D) <= d
  BY <1>1, MinOfTimes
<1>3. PICK x \in S : Min(D) = MaxTime - x
  BY <1>2
<1>4. \A t \in S : t <= x
  <2> SUFFICES ASSUME NEW t \in S PROVE t <= x
    OBVIOUS
  <2>1. MaxTime - x <= MaxTime - t
    BY <1>2, <1>3
  <2> QED
    BY <2>1, ConstantsOK DEF Times
<1>5. \A y \in S : x >= y
  BY <1>4, ConstantsOK DEF Times
<1>6. Max(S) \in S /\ \A y \in S : Max(S) >= y
  BY <1>5 DEF Max
<1> QED
  BY <1>6, ConstantsOK DEF Times

\* The segments of one plate are segments.
LEMMA OfPlateType ==
    ASSUME NEW s \in Seq(Segment), NEW p
    PROVE  /\ OfPlate(s, p) \in SUBSET Segment
           /\ TimesOf(OfPlate(s, p)) \subseteq Times
           /\ OfPlate(s, p) # {} => TimesOf(OfPlate(s, p)) # {}
<1>1. OfPlate(s, p) \in SUBSET Segment
  BY DEF OfPlate
<1>2. \A x \in Segment : x.time \in Times
  BY DEF Segment
<1> QED
  BY <1>1, <1>2 DEF TimesOf

\* add_sighting turns a journey into a journey.
LEMMA UpdatedType ==
    ASSUME NEW j \in Journey, NEW s \in Seq(Segment), NEW seg \in Segment
    PROVE  Updated(j, s, seg) \in Journey
<1> DEFINE mine == OfPlate(Append(s, seg), seg.plate)
<1>1. Append(s, seg) \in Seq(Segment)
  OBVIOUS
<1>2. seg \in mine
  <2>1. Append(s, seg)[Len(s) + 1] = seg /\ Len(s) + 1 \in DOMAIN Append(s, seg)
    OBVIOUS
  <2> QED
    BY <2>1 DEF OfPlate
<1>3. mine \in SUBSET Segment /\ TimesOf(mine) \subseteq Times /\ TimesOf(mine) # {}
  BY <1>1, <1>2, OfPlateType
<1>4. Min(TimesOf(mine)) \in Times /\ Max(TimesOf(mine)) \in Times
  BY <1>3, MinOfTimes, MaxOfTimes
<1>5. seg.camera \in Cameras
  BY DEF Segment
<1>6. /\ j.count + 1 \in Nat
      /\ j.cameras \cup {seg.camera} \in SUBSET Cameras
  BY <1>5 DEF Journey
<1> QED
  BY <1>3, <1>4, <1>6 DEF Updated, Journey

\* The seeded journeys are journeys.
LEMMA FreshType == Fresh \in [Plates -> Journey]
<1> SUFFICES ASSUME NEW p \in Plates PROVE SeedJourney(p) \in Journey
  BY DEF Fresh
<1> DEFINE mine == OfPlate(Seeds, p)
<1>1. CASE mine = {}
  BY <1>1 DEF SeedJourney, EmptyJourney, Journey
<1>2. CASE mine # {}
  <2>1. mine \in SUBSET Segment /\ TimesOf(mine) \subseteq Times /\ TimesOf(mine) # {}
    BY <1>2, OfPlateType, ConstantsOK
  <2>2. Min(TimesOf(mine)) \in Times /\ Max(TimesOf(mine)) \in Times
    BY <2>1, MinOfTimes, MaxOfTimes
  <2>3. {x.camera : x \in mine} \in SUBSET Cameras
    BY <2>1 DEF Segment
  <2>4. Cardinality({k \in DOMAIN Seeds : Seeds[k].plate = p}) \in Nat
    <3>1. DOMAIN Seeds = 1 .. Len(Seeds) /\ Len(Seeds) \in Nat
      BY ConstantsOK
    <3>2. IsFiniteSet(1 .. Len(Seeds))
      BY <3>1, FS_Interval
    <3> QED
      BY <3>1, <3>2, FS_Subset, FS_CardinalityType
  <2> QED
    BY <1>2, <2>1, <2>2, <2>3, <2>4 DEF SeedJourney, Journey
<1> QED
  BY <1>1, <1>2

-----------------------------------------------------------------------------
(* The inductive invariant.                                                *)

\* What a call of add_sighting in progress has established: its segment is
\* the last one of the list, and a row it loaded is in the table, under the
\* same plate.
CallInv ==
    \A c \in Cameras :
        /\ pc[c] # "idle" =>
             /\ pending[c] \in Segment
             /\ pending[c].camera = c
             /\ Len(segments[c]) > 0
             /\ pending[c] = segments[c][Len(segments[c])]
        /\ pc[c] # "commit" => loaded[c] = None
        /\ loaded[c] # None => loaded[c].id \in DOMAIN rows

\* A pipeline about to insert a journey row has not inserted one before.
InsertInv ==
    \A c \in Cameras : pc[c] = "commit" /\ loaded[c] = None =>
        \A i \in DOMAIN rows :
            rows[i].plate = pending[c].plate => rows[i].by # c

\* The segments the calls before the one in progress appended.
Earlier(c) == 1 .. (IF pc[c] = "idle" THEN Len(segments[c]) ELSE Len(segments[c]) - 1)

\* What the current incarnation of a process has committed is in its memory,
\* put there by an earlier call.
MemoryInv ==
    \A s \in segRows :
        /\ s.epoch <= epoch[s.seg.camera]
        /\ s.epoch = epoch[s.seg.camera] =>
             \E i \in Earlier(s.seg.camera) : segments[s.seg.camera][i] = s.seg

IInv ==
    /\ TypeOK
    /\ CallInv
    /\ Spacing
    /\ InsertInv
    /\ OneRowPerPipeline
    /\ MemoryInv
    /\ RepeatsOnlyAcrossRestarts

-----------------------------------------------------------------------------
(* The invariant holds initially and every action keeps it.                *)

LEMMA InitIInv == Init => IInv
<1> SUFFICES ASSUME Init PROVE IInv
  OBVIOUS
<1>1. TypeOK
  BY FreshType, ConstantsOK DEF Init, TypeOK
<1>2. Spacing
  BY SeedsSpaced DEF Init, Spacing
<1>3. CallInv /\ InsertInv /\ OneRowPerPipeline /\ MemoryInv
        /\ RepeatsOnlyAcrossRestarts
  BY DEF Init, CallInv, InsertInv, OneRowPerPipeline, MemoryInv,
         RepeatsOnlyAcrossRestarts
<1> QED
  BY <1>1, <1>2, <1>3 DEF IInv

\* A recorded sighting is past the window of every earlier one at the camera.
LEMMA AddSightingStep ==
    ASSUME IInv, NEW c \in Cameras, NEW p \in Plates, NEW t \in Times,
           AddSighting(c, p, t)
    PROVE  IInv'
<1> DEFINE seg == [plate |-> p, camera |-> c, time |-> t]
<1> USE DEF IInv
<1>1. /\ seg \in Segment
      /\ segments[c] \in Seq(Segment)
      /\ segments' = [segments EXCEPT ![c] = Append(segments[c], seg)]
      /\ Len(segments[c]) \in Nat
  <2>1. seg \in Segment
    BY DEF Segment
  <2>2. segments[c] \in Seq(Segment)
    BY DEF TypeOK
  <2>3. segments' = [segments EXCEPT ![c] = Append(segments[c], seg)]
    BY DEF AddSighting
  <2> QED
    BY <2>1, <2>2, <2>3
<1>2. /\ segments' \in [Cameras -> Seq(Segment)]
      /\ segments'[c] = Append(segments[c], seg)
      /\ \A d \in Cameras \ {c} : segments'[d] = segments[d]
  BY <1>1 DEF TypeOK
<1>3. /\ Len(segments'[c]) = Len(segments[c]) + 1
      /\ segments'[c][Len(segments[c]) + 1] = seg
      /\ \A i \in 1 .. Len(segments[c]) : segments'[c][i] = segments[c][i]
  BY <1>1, <1>2
<1>4. TypeOK'
  <2>1. journeys[c][p] \in Journey
    BY DEF TypeOK
  <2>2. Updated(journeys[c][p], segments[c], seg) \in Journey
    BY <1>1, <2>1, UpdatedType
  <2>3. journeys' \in [Cameras -> [Plates -> Journey]]
    BY <2>2 DEF TypeOK, AddSighting
  <2>4. pending' \in [Cameras -> Segment \cup {None}]
    BY <1>1 DEF TypeOK, AddSighting
  <2> QED
    BY <1>2, <2>3, <2>4 DEF TypeOK, AddSighting
<1>5. CallInv'
  <2>1. /\ pending' = [pending EXCEPT ![c] = seg]
        /\ pc' = [pc EXCEPT ![c] = "query"]
        /\ UNCHANGED <<loaded, rows>>
        /\ pc[c] = "idle"
    BY DEF AddSighting
  <2>2. ASSUME NEW d \in Cameras, d # c
        PROVE  /\ pc'[d] = pc[d]
               /\ pending'[d] = pending[d]
               /\ segments'[d] = segments[d]
    BY <1>2, <2>1, <2>2 DEF TypeOK
  <2>3. pc'[c] = "query" /\ pending'[c] = seg /\ loaded[c] = None
    BY <2>1 DEF TypeOK, CallInv
  <2> QED
    BY <1>1, <1>3, <2>1, <2>2, <2>3 DEF CallInv
<1>6. Spacing'
  <2>1. \A i \in 1 .. Len(segments[c]) :
          segments[c][i].plate = p /\ segments[c][i].camera = c
            => t > segments[c][i].time + Window
    <3>1. \A i \in 1 .. Len(segments[c]) : segments[c][i].time \in Nat
      <4>1. \A x \in Segment : x.time \in Times
        BY DEF Segment
      <4>2. \A i \in 1 .. Len(segments[c]) : segments[c][i] \in Segment
        BY <1>1
      <4> QED
        BY <4>1, <4>2, ConstantsOK DEF Times
    <3>2. DOMAIN segments[c] = 1 .. Len(segments[c])
      BY <1>1
    <3>3. \A i \in 1 .. Len(segments[c]) :
            segments[c][i].plate = p /\ segments[c][i].camera = c
              => ~(segments[c][i].time >= t - Window)
      BY <3>2 DEF AddSighting, IsDuplicate
    <3> QED
      BY <3>1, <3>3, ConstantsOK DEF Times
  <2>2. DOMAIN segments[c] = 1 .. Len(segments[c])
          /\ DOMAIN segments'[c] = 1 .. Len(segments[c]) + 1
    BY <1>1, <1>2, <1>3
  <2> SUFFICES ASSUME NEW d \in Cameras,
                      NEW i \in DOMAIN segments'[d], NEW j \in DOMAIN segments'[d],
                      i < j, segments'[d][i].plate = segments'[d][j].plate,
                      segments'[d][i].camera = segments'[d][j].camera
               PROVE  segments'[d][j].time > segments'[d][i].time + Window
    BY DEF Spacing
  <2>3. CASE d # c
    BY <1>2, <2>3 DEF Spacing
  <2>4. CASE d = c /\ j \in 1 .. Len(segments[c])
    <3>1. i \in 1 .. Len(segments[c])
      BY <1>1, <2>2, <2>4
    <3>2. segments'[c][i] = segments[c][i] /\ segments'[c][j] = segments[c][j]
      BY <1>3, <2>4, <3>1
    <3> QED
      BY <2>2, <2>4, <3>1, <3>2 DEF Spacing
  <2>5. CASE d = c /\ j = Len(segments[c]) + 1
    <3>1. i \in 1 .. Len(segments[c])
      BY <1>1, <2>2, <2>5
    <3>2. segments'[c][i] = segments[c][i] /\ segments'[c][j] = seg
      BY <1>3, <2>5, <3>1
    <3> QED
      BY <2>1, <2>5, <3>1, <3>2
  <2> QED
    BY <1>1, <2>2, <2>3, <2>4, <2>5
<1>7. InsertInv'
  BY DEF InsertInv, AddSighting, TypeOK
<1>8. MemoryInv'
  <2> SUFFICES ASSUME NEW s \in segRows
               PROVE  /\ s.epoch <= epoch[s.seg.camera]
                      /\ s.epoch = epoch[s.seg.camera] =>
                           \E i \in Earlier(s.seg.camera)' :
                              segments'[s.seg.camera][i] = s.seg
    BY DEF MemoryInv, AddSighting
  <2>1. s.seg.camera \in Cameras
    BY DEF TypeOK, SegRow, Segment
  <2>2. CASE s.seg.camera # c
    <3>1. /\ pc'[s.seg.camera] = pc[s.seg.camera]
          /\ segments'[s.seg.camera] = segments[s.seg.camera]
      BY <1>2, <2>1, <2>2 DEF AddSighting, TypeOK
    <3> QED
      BY <3>1 DEF MemoryInv, Earlier
  <2>3. CASE s.seg.camera = c
    <3>1. Earlier(c) = 1 .. Len(segments[c]) /\ Earlier(c)' = 1 .. Len(segments[c])
      BY <1>1, <1>3 DEF Earlier, AddSighting, TypeOK
    <3> QED
      BY <1>3, <2>3, <3>1 DEF MemoryInv
  <2> QED
    BY <2>2, <2>3
<1>9. OneRowPerPipeline' /\ RepeatsOnlyAcrossRestarts'
  BY DEF AddSighting, OneRowPerPipeline, RepeatsOnlyAcrossRestarts
<1> QED
  BY <1>4, <1>5, <1>6, <1>7, <1>8, <1>9

\* An empty query result means that no row of the plate exists at all.
LEMMA PersistQueryStep ==
    ASSUME IInv, NEW c \in Cameras, PersistQuery(c)
    PROVE  IInv'
<1> USE DEF IInv
<1>1. /\ UNCHANGED <<segments, journeys, pending, rows, segRows, epoch, api, apiRow>>
      /\ pc' = [pc EXCEPT ![c] = "commit"]
      /\ pc[c] = "query"
  BY DEF PersistQuery
<1>2. \/ /\ Matching(pending[c].plate) = {}
         /\ loaded' = [loaded EXCEPT ![c] = None]
      \/ \E i \in Matching(pending[c].plate) :
           loaded' = [loaded EXCEPT ![c] = [id |-> i, row |-> rows[i]]]
  BY DEF PersistQuery
<1>3. \A i \in Matching(pending[c].plate) :
        /\ i \in DOMAIN rows
        /\ [id |-> i, row |-> rows[i]] \in Loaded
  BY DEF Matching, TypeOK, Loaded
<1>4. TypeOK'
  <2>1. loaded' \in [Cameras -> Loaded \cup {None}]
    BY <1>2, <1>3 DEF TypeOK
  <2> QED
    BY <1>1, <2>1 DEF TypeOK
<1>5. CallInv'
  <2>1. loaded'[c] # None => loaded'[c].id \in DOMAIN rows
    BY <1>2, <1>3 DEF TypeOK
  <2>2. \A d \in Cameras \ {c} : loaded'[d] = loaded[d] /\ pc'[d] = pc[d]
    BY <1>1, <1>2 DEF TypeOK
  <2>3. pc'[c] = "commit"
    BY <1>1 DEF TypeOK
  <2> QED
    BY <1>1, <2>1, <2>2, <2>3 DEF CallInv
<1>6. InsertInv'
  <2>1. CASE Matching(pending[c].plate) = {} /\ loaded' = [loaded EXCEPT ![c] = None]
    BY <1>1, <2>1 DEF InsertInv, Matching, TypeOK
  <2>2. CASE \E i \in Matching(pending[c].plate) :
               loaded' = [loaded EXCEPT ![c] = [id |-> i, row |-> rows[i]]]
    <3>1. loaded'[c] # None
      BY <1>3, <2>2, ConstantsOK DEF TypeOK
    <3> QED
      BY <1>1, <2>2, <3>1 DEF InsertInv, TypeOK
  <2> QED
    BY <1>2, <2>1, <2>2
<1>7. MemoryInv'
  <2>1. \A d \in Cameras : Earlier(d)' = Earlier(d)
    BY <1>1 DEF Earlier, TypeOK
  <2>2. \A s \in segRows : s.seg.camera \in Cameras
    BY DEF TypeOK, SegRow, Segment
  <2> QED
    BY <1>1, <2>1, <2>2 DEF MemoryInv
<1>8. Spacing' /\ OneRowPerPipeline' /\ RepeatsOnlyAcrossRestarts'
  BY <1>1 DEF Spacing, OneRowPerPipeline, RepeatsOnlyAcrossRestarts
<1> QED
  BY <1>4, <1>5, <1>6, <1>7, <1>8

\* What _persist writes is a journey row; an update keeps plate and inserter.
LEMMA WrittenRowType ==
    ASSUME NEW j \in Journey
    PROVE  /\ \A p \in Plates, c \in Cameras : Inserted(j, p, c) \in Row
           /\ \A old, now \in Row : /\ Merged(j, old, now) \in Row
                                   /\ Merged(j, old, now).plate = now.plate
                                   /\ Merged(j, old, now).by = now.by
<1>1. Cardinality(j.cameras) \in Nat
  BY ConstantsOK, FS_Subset, FS_CardinalityType DEF Journey
<1>2. \A p \in Plates, c \in Cameras : Inserted(j, p, c) \in Row
  BY <1>1 DEF Inserted, Row, Journey
<1>3. ASSUME NEW old \in Row, NEW now \in Row
      PROVE  /\ Merged(j, old, now) \in Row
             /\ Merged(j, old, now).plate = now.plate
             /\ Merged(j, old, now).by = now.by
  BY <1>1 DEF Merged, Column, Row, Journey
<1> QED
  BY <1>2, <1>3

\* A commit adds the segment of the call, which is new to the table, and
\* inserts a row only when the process has none under that plate.
LEMMA PersistCommitStep ==
    ASSUME IInv, NEW c \in Cameras, PersistCommit(c)
    PROVE  IInv'
<1> DEFINE p == pending[c].plate
           j == journeys[c][p]
           id == IF loaded[c] = None THEN Len(rows) + 1 ELSE loaded[c].id
           new == [row |-> id, seg |-> pending[c], epoch |-> epoch[c]]
<1> USE DEF IInv
<1>1. /\ pc[c] = "commit"
      /\ UNCHANGED <<segments, journeys, epoch, api, apiRow>>
      /\ pc' = [pc EXCEPT ![c] = "idle"]
      /\ pending' = [pending EXCEPT ![c] = None]
      /\ loaded' = [loaded EXCEPT ![c] = None]
      /\ segRows' = segRows \cup {new}
  BY DEF PersistCommit, Idle
<1>2. rows' = IF loaded[c] = None
              THEN Append(rows, Inserted(j, p, c))
              ELSE [rows EXCEPT ![id] = Merged(j, loaded[c].row, rows[id])]
  BY DEF PersistCommit
<1>3. /\ pending[c] \in Segment /\ pending[c].camera = c
      /\ Len(segments[c]) > 0
      /\ pending[c] = segments[c][Len(segments[c])]
      /\ p \in Plates /\ j \in Journey
  BY <1>1 DEF CallInv, TypeOK, Segment
<1>4. loaded[c] # None => loaded[c].id \in DOMAIN rows /\ loaded[c].row \in Row
  BY DEF CallInv, TypeOK, Loaded
<1>5. /\ rows' \in Seq(Row)
      /\ Len(rows) <= Len(rows')
      /\ \A i \in DOMAIN rows : /\ i \in DOMAIN rows'
                               /\ rows'[i].plate = rows[i].plate
                               /\ rows'[i].by = rows[i].by
      /\ \A i \in DOMAIN rows' : i \notin DOMAIN rows =>
            /\ loaded[c] = None
            /\ i = Len(rows) + 1
            /\ rows'[i].plate = p
            /\ rows'[i].by = c
  <2>0. rows \in Seq(Row) /\ DOMAIN rows = 1 .. Len(rows) /\ Len(rows) \in Nat
    BY DEF TypeOK
  <2>1. CASE loaded[c] = None
    <3>1. Inserted(j, p, c) \in Row
      BY <1>3, WrittenRowType
    <3>2. Inserted(j, p, c).plate = p /\ Inserted(j, p, c).by = c
      BY DEF Inserted
    <3>3. rows' = Append(rows, Inserted(j, p, c))
      BY <1>2, <2>1
    <3> QED
      BY <2>0, <2>1, <3>1, <3>2, <3>3
  <2>2. CASE loaded[c] # None
    <3>1. id \in DOMAIN rows /\ rows[id] \in Row
      BY <1>4, <2>0, <2>2
    <3> DEFINE m == Merged(j, loaded[c].row, rows[id])
    <3>2. m \in Row /\ m.plate = rows[id].plate /\ m.by = rows[id].by
      BY <1>3, <1>4, <2>2, <3>1, WrittenRowType
    <3>3. rows' = [rows EXCEPT ![id] = m]
      BY <1>2, <2>2
    <3> HIDE DEF m, id
    <3>4. /\ rows' \in Seq(Row) /\ Len(rows') = Len(rows)
          /\ DOMAIN rows' = DOMAIN rows
          /\ \A i \in DOMAIN rows : rows'[i] = IF i = id THEN m ELSE rows[i]
      BY <2>0, <3>1, <3>2, <3>3
    <3> QED
      BY <2>0, <3>2, <3>4
  <2> QED
    BY <2>1, <2>2
<1>6. id \in Nat /\ id \in DOMAIN rows'
  BY <1>4, <1>5, <1>2 DEF TypeOK
<1>7. TypeOK'
  <2>1. new \in SegRow
    BY <1>3, <1>6 DEF SegRow, TypeOK
  <2> HIDE DEF new
  <2>2. segRows' \in SUBSET SegRow
    BY <1>1, <2>1 DEF TypeOK
  <2> QED
    BY <1>1, <1>5, <2>2 DEF TypeOK
<1>8. CallInv'
  <2>1. \A d \in Cameras \ {c} : /\ loaded'[d] = loaded[d] /\ pc'[d] = pc[d]
                                 /\ pending'[d] = pending[d]
    BY <1>1 DEF TypeOK
  <2>2. pc'[c] = "idle" /\ loaded'[c] = None
    BY <1>1 DEF TypeOK
  <2> QED
    BY <1>1, <1>5, <2>1, <2>2 DEF CallInv
<1>9. InsertInv'
  <2> SUFFICES ASSUME NEW d \in Cameras, pc'[d] = "commit", loaded'[d] = None,
                      NEW i \in DOMAIN rows', rows'[i].plate = pending'[d].plate
               PROVE  rows'[i].by # d
    BY DEF InsertInv
  <2>1. d # c
    BY <1>1 DEF TypeOK
  <2>2. pc[d] = "commit" /\ loaded[d] = None /\ pending'[d] = pending[d]
    BY <1>1, <2>1 DEF TypeOK
  <2> QED
    BY <1>5, <2>1, <2>2 DEF InsertInv
<1>10. OneRowPerPipeline'
  <2>1. \A i \in DOMAIN rows :
          loaded[c] = None /\ rows[i].plate = p => rows[i].by # c
    BY <1>1 DEF InsertInv
  <2> QED
    BY <1>5, <2>1 DEF OneRowPerPipeline
<1>11. MemoryInv'
  <2>1. new.seg.camera = c /\ new.epoch = epoch[c] /\ new.seg = pending[c]
    BY <1>3
  <2>2. \A d \in Cameras : Earlier(d) \subseteq Earlier(d)'
    BY <1>1 DEF Earlier, TypeOK
  <2>3. Len(segments[c]) \in Earlier(c)'
    BY <1>1, <1>3 DEF Earlier, TypeOK
  <2>4. \A s \in segRows : s.seg.camera \in Cameras
    BY DEF TypeOK, SegRow, Segment
  <2>5. epoch[c] \in Nat
    BY DEF TypeOK
  <2> HIDE DEF new
  <2>6. \A s \in segRows' : s \in segRows \/ s = new
    BY <1>1
  <2> QED
    BY <1>1, <1>3, <2>1, <2>2, <2>3, <2>4, <2>5, <2>6 DEF MemoryInv
<1>12. RepeatsOnlyAcrossRestarts'
  <2>1. ASSUME NEW s \in segRows, s.seg.plate = p, s.seg.camera = c, s.epoch = epoch[c]
        PROVE  pending[c].time > s.seg.time + Window
    <3>1. PICK i \in Earlier(c) : segments[c][i] = s.seg
      BY <2>1 DEF MemoryInv
    <3>2. i \in 1 .. (Len(segments[c]) - 1)
      BY <1>1, <3>1 DEF Earlier
    <3>3. i \in DOMAIN segments[c] /\ Len(segments[c]) \in DOMAIN segments[c]
            /\ i < Len(segments[c])
      BY <1>3, <3>2 DEF TypeOK
    <3> QED
      BY <1>3, <2>1, <3>1, <3>3 DEF Spacing
  <2>2. new.seg = pending[c] /\ new.epoch = epoch[c]
    OBVIOUS
  <2>3. \A s \in segRows : s.seg.time \in Int
    <3>1. \A x \in Segment : x.time \in Int
      BY DEF Segment, Times
    <3> QED
      BY <3>1 DEF TypeOK, SegRow
  <2>4. pending[c].time \in Int /\ Window \in Nat
    BY <1>3, ConstantsOK DEF Segment, Times
  <2> HIDE DEF new
  <2>5. \A s \in segRows' : s \in segRows \/ s = new
    BY <1>1
  <2> SUFFICES ASSUME NEW r \in segRows', NEW s \in segRows', r # s,
                      r.seg.plate = s.seg.plate, r.seg.camera = s.seg.camera,
                      r.seg.time >= s.seg.time - Window,
                      s.seg.time >= r.seg.time - Window
               PROVE  r.epoch # s.epoch
    BY DEF RepeatsOnlyAcrossRestarts
  <2>6. CASE r \in segRows /\ s \in segRows
    BY <2>6 DEF RepeatsOnlyAcrossRestarts
  <2>7. CASE r = new /\ s \in segRows
    BY <1>3, <2>1, <2>2, <2>3, <2>4, <2>7
  <2>8. CASE s = new /\ r \in segRows
    BY <1>3, <2>1, <2>2, <2>3, <2>4, <2>8
  <2> QED
    BY <2>5, <2>6, <2>7, <2>8
<1>13. Spacing'
  BY <1>1 DEF Spacing
<1> QED
  BY <1>7, <1>8, <1>9, <1>10, <1>11, <1>12, <1>13

\* A rolled back call leaves memory ahead of the table, never behind it.
LEMMA PersistFailStep ==
    ASSUME IInv, NEW c \in Cameras, PersistFail(c)
    PROVE  IInv'
<1> USE DEF IInv
<1>1. /\ UNCHANGED <<segments, journeys, rows, segRows, epoch, api, apiRow>>
      /\ pc' = [pc EXCEPT ![c] = "idle"]
      /\ pending' = [pending EXCEPT ![c] = None]
      /\ loaded' = [loaded EXCEPT ![c] = None]
  BY DEF PersistFail, Idle
<1>2. /\ pc'[c] = "idle" /\ loaded'[c] = None
      /\ \A d \in Cameras \ {c} : /\ loaded'[d] = loaded[d] /\ pc'[d] = pc[d]
                                 /\ pending'[d] = pending[d]
  BY <1>1 DEF TypeOK
<1>3. TypeOK'
  BY <1>1 DEF TypeOK
<1>4. CallInv' /\ InsertInv'
  BY <1>1, <1>2 DEF CallInv, InsertInv
<1>5. MemoryInv'
  <2>1. \A d \in Cameras : Earlier(d) \subseteq Earlier(d)'
    BY <1>1, <1>2 DEF Earlier, TypeOK
  <2>2. \A s \in segRows : s.seg.camera \in Cameras
    BY DEF TypeOK, SegRow, Segment
  <2> QED
    BY <1>1, <2>1, <2>2 DEF MemoryInv
<1>6. Spacing' /\ OneRowPerPipeline' /\ RepeatsOnlyAcrossRestarts'
  BY <1>1 DEF Spacing, OneRowPerPipeline, RepeatsOnlyAcrossRestarts
<1> QED
  BY <1>3, <1>4, <1>5, <1>6

\* After a restart nothing in the table belongs to the current incarnation.
LEMMA RestartStep ==
    ASSUME IInv, NEW c \in Cameras, Restart(c)
    PROVE  IInv'
<1> USE DEF IInv
<1>1. /\ UNCHANGED <<rows, segRows, api, apiRow>>
      /\ epoch' = [epoch EXCEPT ![c] = epoch[c] + 1]
      /\ segments' = [segments EXCEPT ![c] = Seeds]
      /\ journeys' = [journeys EXCEPT ![c] = Fresh]
      /\ pc' = [pc EXCEPT ![c] = "idle"]
      /\ pending' = [pending EXCEPT ![c] = None]
      /\ loaded' = [loaded EXCEPT ![c] = None]
  BY DEF Restart, Idle
<1>2. /\ pc'[c] = "idle" /\ loaded'[c] = None /\ segments'[c] = Seeds
      /\ epoch'[c] = epoch[c] + 1
      /\ \A d \in Cameras \ {c} :
            /\ loaded'[d] = loaded[d] /\ pc'[d] = pc[d]
            /\ pending'[d] = pending[d] /\ segments'[d] = segments[d]
            /\ epoch'[d] = epoch[d]
  BY <1>1 DEF TypeOK
<1>3. TypeOK'
  BY <1>1, ConstantsOK, FreshType DEF TypeOK
<1>4. CallInv' /\ InsertInv'
  BY <1>1, <1>2 DEF CallInv, InsertInv
<1>5. MemoryInv'
  <2>1. \A d \in Cameras \ {c} : Earlier(d) = Earlier(d)'
    BY <1>2 DEF Earlier
  <2>2. \A s \in segRows : /\ s.seg.camera \in Cameras
                          /\ s.epoch \in Nat
                          /\ epoch[s.seg.camera] \in Nat
    BY DEF TypeOK, SegRow, Segment
  <2> SUFFICES ASSUME NEW s \in segRows
               PROVE  /\ s.epoch <= epoch'[s.seg.camera]
                      /\ s.epoch = epoch'[s.seg.camera] =>
                           \E i \in Earlier(s.seg.camera)' :
                              segments'[s.seg.camera][i] = s.seg
    BY <1>1 DEF MemoryInv
  <2>3. CASE s.seg.camera = c
    BY <1>2, <2>2, <2>3 DEF MemoryInv
  <2>4. CASE s.seg.camera # c
    BY <1>2, <2>1, <2>2, <2>4 DEF MemoryInv
  <2> QED
    BY <2>3, <2>4
<1>6. Spacing'
  BY <1>2, SeedsSpaced DEF Spacing
<1>7. OneRowPerPipeline' /\ RepeatsOnlyAcrossRestarts'
  BY <1>1 DEF OneRowPerPipeline, RepeatsOnlyAcrossRestarts
<1> QED
  BY <1>3, <1>4, <1>5, <1>6, <1>7

\* The API process reads the tables and touches only its own memory.
LEMMA ApiStep ==
    ASSUME IInv, \/ \E p \in Plates : ApiQuery(p) \/ ApiLoad(p)
                 \/ ApiRestart
    PROVE  IInv'
<1> USE DEF IInv
<1>1. UNCHANGED <<segments, journeys, pc, pending, loaded, epoch, rows, segRows>>
  BY DEF ApiQuery, ApiLoad, ApiRestart, pipe
<1>2. api' \in [Plates -> Journey] /\ apiRow' \in [Plates -> Loaded \cup {None}]
  <2>1. ASSUME NEW p \in Plates, ApiQuery(p)
        PROVE  api' = api /\ apiRow' \in [Plates -> Loaded \cup {None}]
    <3>1. \A i \in Matching(p) : [id |-> i, row |-> rows[i]] \in Loaded
      BY DEF Matching, Loaded, TypeOK
    <3> QED
      BY <2>1, <3>1 DEF ApiQuery, TypeOK
  <2>2. ASSUME NEW p \in Plates, ApiLoad(p)
        PROVE  api' \in [Plates -> Journey] /\ apiRow' \in [Plates -> Loaded \cup {None}]
    <3> DEFINE row == apiRow[p].row
               segs == {s.seg : s \in {r \in segRows : r.row = apiRow[p].id}}
               res == [count |-> row.count, cameras |-> {s.camera : s \in segs},
                       first |-> row.first, last |-> row.last, segs |-> segs]
    <3>1. row \in Row
      BY <2>2 DEF ApiLoad, TypeOK, Loaded
    <3>2. segs \in SUBSET Segment
      BY DEF TypeOK, SegRow
    <3>3. {s.camera : s \in segs} \in SUBSET Cameras
      BY <3>2 DEF Segment
    <3>4. res \in Journey
      BY <3>1, <3>2, <3>3 DEF Row, Journey
    <3>5. api' = [api EXCEPT ![p] = res]
      BY <2>2 DEF ApiLoad
    <3>6. apiRow' \in [Plates -> Loaded \cup {None}]
      BY <2>2 DEF ApiLoad, TypeOK
    <3> HIDE DEF res
    <3> QED
      BY <3>4, <3>5, <3>6 DEF TypeOK
  <2>3. CASE ApiRestart
    BY <2>3, FreshType DEF ApiRestart
  <2> QED
    BY <2>1, <2>2, <2>3 DEF TypeOK
<1>3. TypeOK'
  BY <1>1, <1>2 DEF TypeOK
<1>4. CallInv' /\ InsertInv' /\ MemoryInv'
  BY <1>1 DEF CallInv, InsertInv, MemoryInv, Earlier
<1>5. Spacing' /\ OneRowPerPipeline' /\ RepeatsOnlyAcrossRestarts'
  BY <1>1 DEF Spacing, OneRowPerPipeline, RepeatsOnlyAcrossRestarts
<1> QED
  BY <1>3, <1>4, <1>5

LEMMA StepIInv == IInv /\ [Next]_vars => IInv'
<1> SUFFICES ASSUME IInv, [Next]_vars PROVE IInv'
  OBVIOUS
<1>1. ASSUME NEW c \in Cameras, NEW p \in Plates, NEW t \in Times, AddSighting(c, p, t)
      PROVE  IInv'
  BY <1>1, AddSightingStep
<1>2. ASSUME NEW c \in Cameras, PersistQuery(c) PROVE IInv'
  BY <1>2, PersistQueryStep
<1>3. ASSUME NEW c \in Cameras, PersistCommit(c) PROVE IInv'
  BY <1>3, PersistCommitStep
<1>4. ASSUME NEW c \in Cameras, PersistFail(c) PROVE IInv'
  BY <1>4, PersistFailStep
<1>5. ASSUME NEW c \in Cameras, Restart(c) PROVE IInv'
  BY <1>5, RestartStep
<1>6. CASE (\E p \in Plates : ApiQuery(p) \/ ApiLoad(p)) \/ ApiRestart
  BY <1>6, ApiStep
<1>7. CASE UNCHANGED vars
  BY <1>7
     DEF vars, IInv, TypeOK, CallInv, Spacing, InsertInv, OneRowPerPipeline,
              MemoryInv, Earlier, RepeatsOnlyAcrossRestarts
<1> QED
  BY <1>1, <1>2, <1>3, <1>4, <1>5, <1>6, <1>7 DEF Next

LEMMA Invariance == Spec => []IInv
BY InitIInv, StepIInv, PTL DEF Spec

-----------------------------------------------------------------------------
(* The summary of a plate and the segments it summarises.                  *)

Summarises(j, mine) ==
    /\ j.segs = mine
    /\ j.count = Cardinality(mine)
    /\ j.cameras = {s.camera : s \in mine}
    /\ mine # {} => /\ {j.first, j.last} \subseteq TimesOf(mine)
                   /\ \A s \in mine : j.first <= s.time /\ s.time <= j.last

LEMMA SummaryAsLemma ==
    SummaryMatchesSegments <=>
        \A c \in Cameras, p \in Plates :
            Summarises(journeys[c][p], OfPlate(segments[c], p))
  BY DEF SummaryMatchesSegments, Summarises

\* Both ends of a set of segments are found by Min and Max.
LEMMA EndsOfSegments ==
    ASSUME NEW mine \in SUBSET Segment, mine # {}
    PROVE  /\ {Min(TimesOf(mine)), Max(TimesOf(mine))} \subseteq TimesOf(mine)
           /\ \A s \in mine : /\ Min(TimesOf(mine)) <= s.time
                              /\ s.time <= Max(TimesOf(mine))
<1>1. TimesOf(mine) \subseteq Times /\ TimesOf(mine) # {}
  BY DEF TimesOf, Segment
<1>2. \A s \in mine : s.time \in TimesOf(mine)
  BY DEF TimesOf
<1> QED
  BY <1>1, <1>2, MinOfTimes, MaxOfTimes

LEMMA OfPlateFinite ==
    ASSUME NEW s \in Seq(Segment), NEW p
    PROVE  IsFiniteSet(OfPlate(s, p))
<1> DEFINE K == {k \in DOMAIN s : s[k].plate = p}
           f == [k \in K |-> s[k]]
<1>1. IsFiniteSet(K)
  <2>1. DOMAIN s = 1 .. Len(s) /\ Len(s) \in Nat
    OBVIOUS
  <2>2. IsFiniteSet(1 .. Len(s))
    BY <2>1, FS_Interval
  <2> QED
    BY <2>1, <2>2, FS_Subset
<1>2. f \in Surjection(K, OfPlate(s, p))
  BY DEF Surjection, OfPlate
<1> QED
  BY <1>1, <1>2, FS_Surjection

\* The seeds of a plate are different segments, for they are a window apart.
LEMMA SeedsSummarised ==
    ASSUME NEW p \in Plates
    PROVE  Summarises(SeedJourney(p), OfPlate(Seeds, p))
<1> DEFINE mine == OfPlate(Seeds, p)
           K == {k \in DOMAIN Seeds : Seeds[k].plate = p}
           f == [k \in K |-> Seeds[k]]
<1>1. mine \in SUBSET Segment
  BY OfPlateType, ConstantsOK
<1>2. CASE mine = {}
  <2>1. Cardinality(mine) = 0 /\ {s.camera : s \in mine} = {}
    BY <1>2, FS_EmptySet
  <2> QED
    BY <1>2, <2>1 DEF SeedJourney, EmptyJourney, Summarises
<1>3. CASE mine # {}
  <2>1. IsFiniteSet(K)
    <3>1. DOMAIN Seeds = 1 .. Len(Seeds) /\ Len(Seeds) \in Nat
      BY ConstantsOK
    <3>2. IsFiniteSet(1 .. Len(Seeds))
      BY <3>1, FS_Interval
    <3> QED
      BY <3>1, <3>2, FS_Subset
  <2>2. f \in Surjection(K, mine)
    BY DEF Surjection, OfPlate
  <2>3. \A i, k \in K : Seeds[i] = Seeds[k] => i = k
    <3> SUFFICES ASSUME NEW i \in K, NEW k \in K, Seeds[i] = Seeds[k], i < k PROVE FALSE
      BY ConstantsOK
    <3>1. Seeds[k].time > Seeds[i].time + Window
      BY SeedsSpaced
    <3>2. Seeds[i] \in Segment
      BY ConstantsOK
    <3> QED
      BY <3>1, <3>2, ConstantsOK DEF Segment, Times
  <2>4. f \in Injection(K, mine)
    BY <2>3 DEF Injection, IsInjective, OfPlate
  <2>5. Cardinality(K) = Cardinality(mine)
    BY <2>1, <2>2, <2>4, FS_Surjection, FS_CardinalityType
  <2> HIDE DEF K, mine
  <2>6. SeedJourney(p) = [count |-> Cardinality(K), cameras |-> {x.camera : x \in mine},
                          first |-> Min(TimesOf(mine)), last |-> Max(TimesOf(mine)),
                          segs |-> mine]
    BY <1>3 DEF SeedJourney, K, mine
  <2>7. Summarises(SeedJourney(p), mine)
    BY <1>1, <1>3, <2>5, <2>6, EndsOfSegments DEF Summarises
  <2> QED
    BY <2>7 DEF mine
<1> QED
  BY <1>2, <1>3

\* A sighting that is no duplicate is a segment the list does not have yet.
LEMMA UpdateSummarises ==
    ASSUME NEW s \in Seq(Segment), NEW seg \in Segment, NEW j \in Journey,
           Summarises(j, OfPlate(s, seg.plate)),
           ~IsDuplicate(s, seg.plate, seg.camera, seg.time)
    PROVE  /\ Summarises(Updated(j, s, seg), OfPlate(Append(s, seg), seg.plate))
           /\ \A p : p # seg.plate => OfPlate(Append(s, seg), p) = OfPlate(s, p)
<1> DEFINE before == OfPlate(s, seg.plate)
           mine == OfPlate(Append(s, seg), seg.plate)
<1>1. /\ DOMAIN s = 1 .. Len(s) /\ Len(s) \in Nat
      /\ Append(s, seg) \in Seq(Segment)
      /\ DOMAIN Append(s, seg) = 1 .. Len(s) + 1
      /\ Append(s, seg)[Len(s) + 1] = seg
      /\ \A i \in 1 .. Len(s) : Append(s, seg)[i] = s[i]
  OBVIOUS
<1>2. \A i \in 1 .. Len(s) + 1 : i \in 1 .. Len(s) \/ i = Len(s) + 1
  BY <1>1
<1>3. mine = before \cup {seg}
  BY <1>1, <1>2 DEF OfPlate
<1>4. \A p : p # seg.plate => OfPlate(Append(s, seg), p) = OfPlate(s, p)
  BY <1>1, <1>2 DEF OfPlate
<1>5. seg \notin before
  <2> SUFFICES ASSUME NEW i \in DOMAIN s, s[i] = seg PROVE FALSE
    BY DEF OfPlate
  <2>1. seg.time >= seg.time - Window
    BY ConstantsOK DEF Segment, Times
  <2> QED
    BY <2>1 DEF IsDuplicate
<1>6. IsFiniteSet(before)
  BY OfPlateFinite
<1>7. Cardinality(mine) = Cardinality(before) + 1
  BY <1>3, <1>5, <1>6, FS_AddElement
<1>8. mine \in SUBSET Segment /\ mine # {}
  BY <1>1, <1>3, OfPlateType
<1> HIDE DEF before, mine
<1>9. Updated(j, s, seg) = [count |-> j.count + 1, cameras |-> j.cameras \cup {seg.camera},
                            first |-> Min(TimesOf(mine)), last |-> Max(TimesOf(mine)),
                            segs |-> mine]
  BY DEF Updated, mine
<1>10. j.count = Cardinality(before) /\ j.cameras = {x.camera : x \in before}
  BY DEF Summarises, before
<1>11. j.cameras \cup {seg.camera} = {x.camera : x \in mine}
  BY <1>3, <1>10
<1>12. Summarises(Updated(j, s, seg), mine)
  <2>1. /\ {Min(TimesOf(mine)), Max(TimesOf(mine))} \subseteq TimesOf(mine)
        /\ \A x \in mine : /\ Min(TimesOf(mine)) <= x.time
                           /\ x.time <= Max(TimesOf(mine))
    BY <1>8, EndsOfSegments
  <2> DEFINE u == Updated(j, s, seg)
  <2>2. /\ u.segs = mine /\ u.count = j.count + 1
        /\ u.cameras = j.cameras \cup {seg.camera}
        /\ u.first = Min(TimesOf(mine)) /\ u.last = Max(TimesOf(mine))
    BY <1>9
  <2> HIDE DEF u
  <2>3. Summarises(u, mine)
    BY <1>7, <1>10, <1>11, <2>1, <2>2 DEF Summarises
  <2> QED
    BY <2>3 DEF u
<1> QED
  BY <1>4, <1>12 DEF mine

LEMMA InitSummary == Init => SummaryMatchesSegments
<1> SUFFICES ASSUME Init, NEW c \in Cameras, NEW p \in Plates
             PROVE  Summarises(journeys[c][p], OfPlate(segments[c], p))
  BY SummaryAsLemma
<1> QED
  BY SeedsSummarised DEF Init, Fresh

LEMMA StepSummary == IInv /\ SummaryMatchesSegments /\ [Next]_vars => SummaryMatchesSegments'
<1> SUFFICES ASSUME IInv, SummaryMatchesSegments, [Next]_vars PROVE SummaryMatchesSegments'
  OBVIOUS
<1>1. TypeOK
  BY DEF IInv
<1>2. \A c \in Cameras, p \in Plates :
         Summarises(journeys[c][p], OfPlate(segments[c], p))
  BY SummaryAsLemma
<1>3. ASSUME \A c \in Cameras, p \in Plates :
                Summarises(journeys'[c][p], OfPlate(segments'[c], p))
      PROVE  SummaryMatchesSegments'
  BY <1>3 DEF SummaryMatchesSegments, Summarises
<1>4. ASSUME NEW c \in Cameras, NEW p \in Plates, NEW t \in Times, AddSighting(c, p, t)
      PROVE  SummaryMatchesSegments'
  <2> DEFINE seg == [plate |-> p, camera |-> c, time |-> t]
  <2>1. seg \in Segment /\ seg.plate = p /\ seg.camera = c /\ seg.time = t
    BY DEF Segment
  <2>2. /\ segments' = [segments EXCEPT ![c] = Append(segments[c], seg)]
        /\ journeys' = [journeys EXCEPT ![c][p] =
                           Updated(journeys[c][p], segments[c], seg)]
        /\ ~IsDuplicate(segments[c], p, c, t)
    BY <1>4 DEF AddSighting
  <2> HIDE DEF seg
  <2>3. segments[c] \in Seq(Segment) /\ journeys[c][p] \in Journey
    BY <1>1 DEF TypeOK
  <2>4. /\ Summarises(Updated(journeys[c][p], segments[c], seg),
                      OfPlate(Append(segments[c], seg), p))
        /\ \A q : q # p => OfPlate(Append(segments[c], seg), q) = OfPlate(segments[c], q)
    BY <1>2, <2>1, <2>2, <2>3, UpdateSummarises
  <2>5. /\ segments'[c] = Append(segments[c], seg)
        /\ \A d \in Cameras \ {c} : segments'[d] = segments[d] /\ journeys'[d] = journeys[d]
        /\ \A q \in Plates : journeys'[c][q] =
              IF q = p THEN Updated(journeys[c][p], segments[c], seg) ELSE journeys[c][q]
    BY <1>1, <2>2 DEF TypeOK
  <2> SUFFICES ASSUME NEW d \in Cameras, NEW q \in Plates
               PROVE  Summarises(journeys'[d][q], OfPlate(segments'[d], q))
    BY <1>3
  <2>6. CASE d # c
    BY <1>2, <2>5, <2>6
  <2>7. CASE d = c /\ q = p
    BY <2>4, <2>5, <2>7
  <2>8. CASE d = c /\ q # p
    BY <1>2, <2>4, <2>5, <2>8
  <2> QED
    BY <2>6, <2>7, <2>8
<1>5. ASSUME NEW c \in Cameras, Restart(c) PROVE SummaryMatchesSegments'
  <2>1. /\ segments'[c] = Seeds /\ journeys'[c] = Fresh
        /\ \A d \in Cameras \ {c} : segments'[d] = segments[d] /\ journeys'[d] = journeys[d]
    BY <1>1, <1>5 DEF Restart, TypeOK
  <2>2. \A p \in Plates : Fresh[p] = SeedJourney(p)
    BY DEF Fresh
  <2> QED
    BY <1>2, <1>3, <2>1, <2>2, SeedsSummarised
<1>6. CASE UNCHANGED <<segments, journeys>>
  BY <1>2, <1>3, <1>6
<1> QED
  BY <1>4, <1>5, <1>6
     DEF Next, vars, PersistQuery, PersistCommit, PersistFail, ApiQuery, ApiLoad,
         ApiRestart, pipe

-----------------------------------------------------------------------------
(* The row of a sole writer.                                               *)

\* All segments stored under row i are of the present incarnation of pipeline c.
Sole(i, c) ==
    \A s \in segRows : s.row = i => s.seg.camera = c /\ s.epoch = epoch[c]

\* Segments lie under a row of their plate, and the row a pipeline loaded is
\* still what it was as long as nobody else has written under it.
RowInv ==
    /\ \A s \in segRows : s.row \in DOMAIN rows /\ rows[s.row].plate = s.seg.plate
    /\ \A c \in Cameras : pc[c] = "commit" /\ loaded[c] # None =>
          /\ rows[loaded[c].id].plate = pending[c].plate
          /\ Sole(loaded[c].id, c) => loaded[c].row = rows[loaded[c].id]

\* What is stored under a row of plate p by the present incarnation of c is no
\* more than what c has in memory (after a step, where it is needed).
LEMMA StoredIsInMemory ==
    ASSUME IInv', SummaryMatchesSegments', NEW c \in Cameras, NEW p \in Plates,
           NEW S \in SUBSET segRows',
           \A s \in S : /\ s.seg.camera = c /\ s.seg.plate = p /\ s.epoch = epoch'[c]
    PROVE  /\ Cardinality(S) <= journeys'[c][p].count
           /\ \A s \in S : journeys'[c][p].first <= s.seg.time
                           /\ s.seg.time <= journeys'[c][p].last
<1> DEFINE mine == OfPlate(segments'[c], p)
           f == [s \in S |-> s.seg]
<1>1. segments'[c] \in Seq(Segment)
  BY DEF IInv, TypeOK
<1>2. IsFiniteSet(mine)
  BY <1>1, OfPlateFinite
<1>3. Summarises(journeys'[c][p], mine)
  BY DEF SummaryMatchesSegments, Summarises
<1>4. \A s \in S : s.seg \in mine
  <2> SUFFICES ASSUME NEW s \in S PROVE s.seg \in mine
    OBVIOUS
  <2>1. PICK i \in Earlier(c)' : segments'[c][i] = s.seg
    BY DEF IInv, MemoryInv
  <2>2. i \in DOMAIN segments'[c]
    BY <1>1, <2>1 DEF Earlier
  <2> QED
    BY <2>1, <2>2 DEF OfPlate
<1>5. ASSUME NEW r \in S, NEW s \in S, r.seg = s.seg PROVE r = s
  <2>1. r.seg.time >= r.seg.time - Window
    <3>1. r.seg \in Segment
      BY DEF IInv, TypeOK, SegRow
    <3> QED
      BY <3>1, ConstantsOK DEF Segment, Times
  <2> QED
    BY <1>5, <2>1 DEF IInv, RepeatsOnlyAcrossRestarts
<1> HIDE DEF mine
<1>6. f \in Injection(S, mine)
  BY <1>4, <1>5 DEF Injection, IsInjective
<1>7. Cardinality(S) <= Cardinality(mine)
  BY <1>2, <1>6, FS_Injection
<1> QED
  BY <1>3, <1>4, <1>7 DEF Summarises

LEMMA InitRows == Init => RowInv /\ SoleWriterRowCovers
  BY DEF Init, RowInv, SoleWriterRowCovers

\* A commit writes the whole summary of its process into a row that nobody else
\* wrote: no column of it is skipped as unchanged and stale.
LEMMA CommitRows ==
    ASSUME IInv, IInv', SummaryMatchesSegments, SummaryMatchesSegments', RowInv,
           SoleWriterRowCovers, NEW c \in Cameras, PersistCommit(c)
    PROVE  RowInv' /\ SoleWriterRowCovers'
<1> DEFINE p == pending[c].plate
           j == journeys[c][p]
<1>1. PICK id : id = IF loaded[c] = None THEN Len(rows) + 1 ELSE loaded[c].id
  OBVIOUS
<1>2. PICK new : new = [row |-> id, seg |-> pending[c], epoch |-> epoch[c]]
  OBVIOUS
<1>3. /\ pc[c] = "commit"
      /\ UNCHANGED <<segments, journeys, epoch>>
      /\ pc' = [pc EXCEPT ![c] = "idle"]
      /\ pending' = [pending EXCEPT ![c] = None]
      /\ loaded' = [loaded EXCEPT ![c] = None]
      /\ segRows' = segRows \cup {new}
      /\ rows' = IF loaded[c] = None
                 THEN Append(rows, Inserted(j, p, c))
                 ELSE [rows EXCEPT ![id] = Merged(j, loaded[c].row, rows[id])]
  BY <1>1, <1>2 DEF PersistCommit, Idle
<1>4. TypeOK /\ TypeOK' /\ CallInv
  BY DEF IInv
<1>5. /\ pending[c] \in Segment /\ pending[c].camera = c
      /\ p \in Plates /\ j \in Journey
  BY <1>3, <1>4 DEF CallInv, TypeOK, Segment
<1>6. rows \in Seq(Row) /\ DOMAIN rows = 1 .. Len(rows) /\ Len(rows) \in Nat
  BY <1>4 DEF TypeOK
<1>7. new.row = id /\ new.seg = pending[c] /\ new.epoch = epoch[c]
  BY <1>2
<1>8. \A s \in segRows' : s \in segRows \/ s = new
  BY <1>3
<1>9. /\ DOMAIN rows \subseteq DOMAIN rows' /\ id \in DOMAIN rows'
      /\ \A i \in DOMAIN rows : i # id => rows'[i] = rows[i]
      /\ \A i \in DOMAIN rows' : i # id => i \in DOMAIN rows
      /\ rows'[id].plate = p
      /\ \A i \in DOMAIN rows : rows'[i].plate = rows[i].plate
      /\ Sole(id, c) => rows'[id].count = j.count /\ rows'[id].first = j.first
                        /\ rows'[id].last = j.last
  <2>1. CASE loaded[c] = None
    <3>1. id = Len(rows) + 1
      BY <1>1, <2>1
    <3>2. PICK row : row = Inserted(j, p, c)
      OBVIOUS
    <3>3. row.plate = p /\ row.count = j.count /\ row.first = j.first /\ row.last = j.last
      BY <3>2 DEF Inserted
    <3>4. rows' = Append(rows, row)
      BY <1>3, <2>1, <3>2
    <3>5. row \in Row
      BY <1>5, <3>2, WrittenRowType
    <3>6. /\ DOMAIN rows' = 1 .. Len(rows) + 1 /\ rows'[Len(rows) + 1] = row
          /\ \A i \in 1 .. Len(rows) : rows'[i] = rows[i]
      BY <1>6, <3>4, <3>5
    <3> QED
      BY <1>6, <3>1, <3>3, <3>6
  <2>2. CASE loaded[c] # None
    <3>1. id = loaded[c].id /\ id \in DOMAIN rows /\ loaded[c].row \in Row
      BY <1>1, <1>4, <2>2 DEF CallInv, TypeOK, Loaded
    <3>2. rows[id].plate = p /\ (Sole(id, c) => loaded[c].row = rows[id])
      BY <1>3, <2>2, <3>1 DEF RowInv
    <3>3. PICK row : row = Merged(j, loaded[c].row, rows[id])
      OBVIOUS
    <3>4. rows[id] \in Row
      BY <1>6, <3>1
    <3>5. row.plate = rows[id].plate
      BY <1>5, <3>1, <3>3, <3>4, WrittenRowType
    <3>6. ASSUME loaded[c].row = rows[id]
          PROVE  row.count = j.count /\ row.first = j.first /\ row.last = j.last
      BY <3>3, <3>4, <3>6 DEF Merged, Column, Row
    <3>7. rows' = [rows EXCEPT ![id] = row]
      BY <1>3, <2>2, <3>3
    <3>8. /\ DOMAIN rows' = DOMAIN rows /\ rows'[id] = row
          /\ \A i \in DOMAIN rows : i # id => rows'[i] = rows[i]
      BY <1>6, <3>1, <3>7
    <3> QED
      BY <3>1, <3>2, <3>5, <3>6, <3>8
  <2> QED
    BY <2>1, <2>2
<1>10. ASSUME NEW i, NEW d \in Cameras, Sole(i, d)'
       PROVE  Sole(i, d) /\ (i = id => d = c)
  <2>1. \A s \in segRows' : s.row = i => s.seg.camera = d /\ s.epoch = epoch'[d]
    BY <1>10 DEF Sole
  <2>2. new \in segRows' /\ segRows \subseteq segRows'
    BY <1>3
  <2>3. Sole(i, d)
    BY <1>3, <2>1, <2>2 DEF Sole
  <2> QED
    BY <1>5, <1>7, <2>1, <2>2, <2>3
<1>11. RowInv'
  <2>1. (\A s \in segRows : s.row \in DOMAIN rows /\ rows[s.row].plate = s.seg.plate)'
    <3> SUFFICES ASSUME NEW s \in segRows'
                 PROVE  s.row \in DOMAIN rows' /\ rows'[s.row].plate = s.seg.plate
      OBVIOUS
    <3>1. CASE s \in segRows
      BY <1>9, <3>1 DEF RowInv
    <3>2. CASE s = new
      BY <1>7, <1>9, <3>2
    <3> QED
      BY <1>8, <3>1, <3>2
  <2>2. ASSUME NEW d \in Cameras, pc'[d] = "commit", loaded'[d] # None
        PROVE  /\ rows'[loaded'[d].id].plate = pending'[d].plate
               /\ Sole(loaded[d].id, d)' => loaded'[d].row = rows'[loaded'[d].id]
    <3>1. d # c
      BY <1>3, <1>4, <2>2 DEF TypeOK
    <3>2. loaded'[d] = loaded[d] /\ pending'[d] = pending[d] /\ pc'[d] = pc[d]
      BY <1>3, <1>4, <3>1 DEF TypeOK
    <3>3. PICK i \in DOMAIN rows : i = loaded[d].id
      BY <1>4, <2>2, <3>2 DEF CallInv
    <3>4. rows[i].plate = pending[d].plate /\ (Sole(i, d) => loaded[d].row = rows[i])
      BY <2>2, <3>2, <3>3 DEF RowInv
    <3>5. rows'[i].plate = rows[i].plate /\ (i # id => rows'[i] = rows[i])
      BY <1>9
    <3>6. Sole(loaded[d].id, d)' => Sole(i, d) /\ i # id
      <4>1. Sole(i, d)' => Sole(i, d) /\ i # id
        BY <1>10, <3>1
      <4>2. Sole(loaded[d].id, d)' = Sole(i, d)'
        BY <3>2, <3>3 DEF Sole
      <4> QED
        BY <4>1, <4>2
    <3> QED
      BY <3>2, <3>3, <3>4, <3>5, <3>6
  <2> QED
    BY <2>1, <2>2 DEF RowInv
<1>12. SoleWriterRowCovers'
  <2> SUFFICES ASSUME NEW i \in DOMAIN rows', NEW d \in Cameras, Sole(i, d)'
               PROVE  LET S == {s \in segRows' : s.row = i}
                      IN /\ rows'[i].count >= Cardinality(S)
                         /\ \A s \in S : /\ rows'[i].first <= s.seg.time
                                         /\ s.seg.time <= rows'[i].last
    BY DEF SoleWriterRowCovers, Sole
  <2> DEFINE S == {s \in segRows' : s.row = i}
  <2>1. Sole(i, d)
    BY <1>10
  <2>2. CASE i # id
    <3>1. S = {s \in segRows : s.row = i}
      BY <1>3, <1>7, <2>2
    <3>2. i \in DOMAIN rows /\ rows'[i] = rows[i]
      BY <1>9, <2>2
    <3>3. \A s \in {x \in segRows : x.row = i} : s.seg.camera = d /\ s.epoch = epoch[d]
      BY <2>1 DEF Sole
    <3> QED
      BY <3>1, <3>2, <3>3 DEF SoleWriterRowCovers
  <2>3. CASE i = id
    <3>1. d = c
      BY <1>10, <2>3
    <3>2. rows'[i].count = j.count /\ rows'[i].first = j.first /\ rows'[i].last = j.last
      BY <1>9, <2>1, <2>3, <3>1
    <3>3. rows'[i].plate = p
      BY <1>9, <2>3
    <3>4. \A s \in S : s.seg.camera = c /\ s.seg.plate = p /\ s.epoch = epoch[c]
      <4> SUFFICES ASSUME NEW s \in segRows', s.row = i
                   PROVE  s.seg.camera = c /\ s.seg.plate = p /\ s.epoch = epoch[c]
        OBVIOUS
      <4>1. CASE s = new
        BY <1>5, <1>7, <4>1
      <4>2. CASE s \in segRows
        <5>1. i \in DOMAIN rows /\ rows[i].plate = s.seg.plate
          BY <4>2 DEF RowInv
        <5>2. rows'[i].plate = rows[i].plate
          BY <1>9, <5>1
        <5> QED
          BY <2>1, <3>1, <3>3, <4>2, <5>1, <5>2 DEF Sole
      <4> QED
        BY <1>8, <4>1, <4>2
    <3>5. /\ Cardinality(S) <= j.count
          /\ \A s \in S : j.first <= s.seg.time /\ s.seg.time <= j.last
      <4>1. S \in SUBSET segRows' /\ epoch'[c] = epoch[c] /\ journeys'[c][p] = j
        BY <1>3
      <4> HIDE DEF S
      <4> QED
        BY <1>5, <3>4, <4>1, StoredIsInMemory
    <3> QED
      BY <3>2, <3>5
  <2> QED
    BY <2>2, <2>3
<1> QED
  BY <1>11, <1>12

\* The other steps leave the tables alone; one that loads a row takes it as it is,
\* and a restart leaves no row whose segments are all of the new incarnation.
LEMMA StepRows ==
    ASSUME IInv, IInv', SummaryMatchesSegments, SummaryMatchesSegments', RowInv,
           SoleWriterRowCovers, [Next]_vars
    PROVE  RowInv' /\ SoleWriterRowCovers'
<1>1. TypeOK /\ CallInv
  BY DEF IInv
<1>2. ASSUME UNCHANGED <<rows, segRows, epoch>>,
             \A c \in Cameras : pc'[c] = "commit" /\ loaded'[c] # None =>
                /\ rows[loaded'[c].id].plate = pending'[c].plate
                /\ \/ loaded'[c].row = rows[loaded'[c].id]
                   \/ pc[c] = "commit" /\ loaded[c] # None /\ loaded'[c] = loaded[c]
      PROVE  RowInv' /\ SoleWriterRowCovers'
  <2>1. RowInv'
    BY <1>2 DEF RowInv, Sole
  <2>2. SoleWriterRowCovers'
    BY <1>2 DEF SoleWriterRowCovers
  <2> QED
    BY <2>1, <2>2
<1>3. ASSUME NEW c \in Cameras, NEW p \in Plates, NEW t \in Times, AddSighting(c, p, t)
      PROVE  RowInv' /\ SoleWriterRowCovers'
  <2>1. \A d \in Cameras : pc'[d] = "commit" =>
           pc[d] = "commit" /\ pending'[d] = pending[d] /\ loaded'[d] = loaded[d]
    BY <1>1, <1>3 DEF AddSighting, TypeOK
  <2>2. UNCHANGED <<rows, segRows, epoch>>
    BY <1>3 DEF AddSighting
  <2> QED
    BY <1>2, <2>1, <2>2 DEF RowInv
<1>4. ASSUME NEW c \in Cameras, PersistQuery(c)
      PROVE  RowInv' /\ SoleWriterRowCovers'
  <2>1. /\ UNCHANGED <<rows, segRows, epoch, pending>>
        /\ \A d \in Cameras \ {c} : pc'[d] = pc[d] /\ loaded'[d] = loaded[d]
    BY <1>1, <1>4 DEF PersistQuery, TypeOK
  <2>2. loaded'[c] # None => /\ rows[loaded'[c].id].plate = pending[c].plate
                             /\ loaded'[c].row = rows[loaded'[c].id]
    BY <1>1, <1>4 DEF PersistQuery, Matching, TypeOK
  <2> QED
    BY <1>2, <2>1, <2>2 DEF RowInv
<1>5. ASSUME NEW c \in Cameras, PersistFail(c)
      PROVE  RowInv' /\ SoleWriterRowCovers'
  <2>1. \A d \in Cameras : pc'[d] = "commit" =>
           pc[d] = "commit" /\ pending'[d] = pending[d] /\ loaded'[d] = loaded[d]
    BY <1>1, <1>5 DEF PersistFail, Idle, TypeOK
  <2>2. UNCHANGED <<rows, segRows, epoch>>
    BY <1>5 DEF PersistFail
  <2> QED
    BY <1>2, <2>1, <2>2 DEF RowInv
<1>6. ASSUME NEW c \in Cameras, Restart(c)
      PROVE  RowInv' /\ SoleWriterRowCovers'
  <2>1. /\ UNCHANGED <<rows, segRows>> /\ epoch'[c] = epoch[c] + 1
        /\ pc'[c] = "idle"
        /\ \A d \in Cameras \ {c} :
              /\ pc'[d] = pc[d] /\ loaded'[d] = loaded[d] /\ pending'[d] = pending[d]
              /\ epoch'[d] = epoch[d]
    BY <1>1, <1>6 DEF Restart, Idle, TypeOK
  <2>2. RowInv'
    <3>1. \A s \in segRows : s.row \in DOMAIN rows /\ rows[s.row].plate = s.seg.plate
      BY DEF RowInv
    <3>2. ASSUME NEW d \in Cameras, pc'[d] = "commit", loaded'[d] # None
          PROVE  /\ rows'[loaded'[d].id].plate = pending'[d].plate
                 /\ Sole(loaded[d].id, d)' => loaded'[d].row = rows'[loaded'[d].id]
      <4>1. d \in Cameras \ {c}
        BY <2>1, <3>2
      <4>2. pc[d] = "commit" /\ loaded[d] # None
        BY <2>1, <3>2, <4>1
      <4>3. Sole(loaded[d].id, d)' => Sole(loaded[d].id, d)
        BY <2>1, <4>1 DEF Sole
      <4> QED
        BY <2>1, <4>1, <4>2, <4>3 DEF RowInv
    <3> QED
      BY <2>1, <3>1, <3>2 DEF RowInv
  <2>3. \A s \in segRows : s.seg.camera = c => s.epoch # epoch[c] + 1
    <3> SUFFICES ASSUME NEW s \in segRows, s.seg.camera = c PROVE s.epoch # epoch[c] + 1
      OBVIOUS
    <3>1. s.epoch <= epoch[c] /\ s.epoch \in Nat /\ epoch[c] \in Nat
      BY DEF IInv, MemoryInv, TypeOK, SegRow
    <3> QED
      BY <3>1
  <2>4. SoleWriterRowCovers'
    <3> SUFFICES ASSUME NEW i \in DOMAIN rows, NEW d \in Cameras,
                        \A s \in segRows : s.row = i =>
                           s.seg.camera = d /\ s.epoch = epoch'[d]
                 PROVE  LET S == {s \in segRows : s.row = i}
                        IN /\ rows[i].count >= Cardinality(S)
                           /\ \A s \in S : /\ rows[i].first <= s.seg.time
                                           /\ s.seg.time <= rows[i].last
      BY <2>1 DEF SoleWriterRowCovers
    <3>1. CASE d = c
      <4>1. {s \in segRows : s.row = i} = {}
        BY <2>1, <2>3, <3>1
      <4>2. rows[i] \in Row
        BY <1>1 DEF TypeOK
      <4>3. rows[i].count \in Nat
        BY <4>2 DEF Row
      <4> QED
        BY <4>1, <4>3, FS_EmptySet
    <3>2. CASE d # c
      BY <2>1, <3>2 DEF SoleWriterRowCovers
    <3> QED
      BY <3>1, <3>2
  <2> QED
    BY <2>2, <2>4
<1>7. CASE UNCHANGED <<rows, segRows, epoch, pc, loaded, pending>>
  BY <1>2, <1>7 DEF RowInv
<1> QED
  BY <1>3, <1>4, <1>5, <1>6, <1>7, CommitRows
     DEF Next, vars, ApiQuery, ApiLoad, ApiRestart, pipe

-----------------------------------------------------------------------------
(* The theorems.                                                           *)

\* Every variable keeps its type (all of journey_correlator.py).
THEOREM TypeCorrect == Spec => []TypeOK
<1>1. IInv => TypeOK
  BY DEF IInv
<1> QED
  BY <1>1, Invariance, PTL

\* The dedup window of _is_duplicate holds between any two sightings a process
\* recorded of a plate at a camera, for every clock behaviour.
THEOREM SpacingHolds == Spec => []Spacing
<1>1. IInv => Spacing
  BY DEF IInv
<1> QED
  BY <1>1, Invariance, PTL

\* However the transactions of _persist interleave, fail and are repeated
\* after restarts, a pipeline inserts at most one journey row per plate.
THEOREM OneRowPerPipelineHolds == Spec => []OneRowPerPipeline
<1>1. IInv => OneRowPerPipeline
  BY DEF IInv
<1> QED
  BY <1>1, Invariance, PTL

\* Stored sightings closer than the window come from different incarnations.
THEOREM RepeatsOnlyAcrossRestartsHolds == Spec => []RepeatsOnlyAcrossRestarts
<1>1. IInv => RepeatsOnlyAcrossRestarts
  BY DEF IInv
<1> QED
  BY <1>1, Invariance, PTL

\* The count, the cameras and both ends that add_sighting keeps incrementally are
\* those of the segments it recorded, for every order of clock readings.
THEOREM SummaryMatchesSegmentsHolds == Spec => []SummaryMatchesSegments
  BY InitSummary, StepSummary, Invariance, PTL DEF Spec

\* A row that one incarnation of one pipeline wrote alone covers its segments,
\* though _persist writes changed columns only and its transactions may fail.
THEOREM SoleWriterRowCoversHolds == Spec => []SoleWriterRowCovers
<1> DEFINE All == IInv /\ SummaryMatchesSegments /\ RowInv /\ SoleWriterRowCovers
<1>1. Init => All
  BY InitIInv, InitSummary, InitRows
<1>2. All /\ [Next]_vars => All'
  BY StepIInv, StepSummary, StepRows
<1>3. All => SoleWriterRowCovers
  OBVIOUS
<1> QED
  BY <1>1, <1>2, <1>3, PTL DEF Spec
=============================================================================
