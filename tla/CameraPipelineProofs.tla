------------------------ MODULE CameraPipelineProofs ------------------------
(***************************************************************************)
(* Theorems about CameraPipeline, for every set of cameras and plates,     *)
(* every cooldown, every content of the table and every number of faults.  *)
(***************************************************************************)
EXTENDS CameraPipeline, TLAPS

\* The theorems of the correlator the pipeline is composed with.
JP == INSTANCE JourneyCorrelatorProofs

-----------------------------------------------------------------------------
(* The invariant, camera by camera.                                        *)

\* Where on_frame stands, it holds a read, and it is in the correlator's
\* transaction exactly while it stores a sighting of that read.
Placed(c) ==
    /\ stage[c] # "idle" => read[c] \in PlateRead
    /\ stage[c] = "store" <=> pc[c] # "idle"
    /\ stage[c] = "store" => /\ pending[c].plate = read[c].plate
                             /\ pending[c].camera = c

\* _recent_alerts knows the latest alert of every plate, and an alert is only
\* on its way if the cooldown of its plate is over.
Cooled(c) ==
    /\ stage[c] = "alert" => ~Recent(c)
    /\ \A i \in DOMAIN raised[c] :
         /\ recent[c][raised[c][i].plate] # None
         /\ raised[c][i].time <= recent[c][raised[c][i].plate]

Spaced(c) ==
    \A i, j \in DOMAIN raised[c] :
        i < j /\ raised[c][i].plate = raised[c][j].plate =>
            raised[c][j].time >= raised[c][i].time + Cooldown

\* The alert whose sighting is still to come is the last one, of the plate read.
Awaited(c) ==
    stage[c] = "sighting" /\ alertId[c] # None =>
        /\ Len(raised[c]) > 0
        /\ raised[c][Len(raised[c])].plate = read[c].plate

\* AlertedHasSighting of one camera.
Sighting(c, i) == \E k \in DOMAIN segments[c] :
    segments[c][k].plate = raised[c][i].plate
Seen(c) ==
    \A i \in DOMAIN raised[c] :
        \/ stage[c] = "sighting" /\ alertId[c] # None /\ i = Len(raised[c])
        \/ Sighting(c, i)

\* FailedOnlyAfterRepetition of one camera.
Repaired(c) ==
    stage[c] = "idle" /\ session[c] = "failed" => last[c] # "recorded"

Local(c) ==
    /\ Placed(c)
    /\ Cooled(c)
    /\ Spaced(c)
    /\ Awaited(c)
    /\ Seen(c)
    /\ Repaired(c)

\* The types of the pipeline's own variables.
OwnTypes ==
    /\ provider \in [Cameras -> {"database", "synthetic"}]
    /\ recent \in [Cameras -> [Plates -> Times \cup {None}]]
    /\ session \in [Cameras -> {"clean", "failed"}]
    /\ stage \in [Cameras -> {"idle", "lookup", "alert", "sighting", "store"}]
    /\ read \in [Cameras -> PlateRead \cup {None}]
    /\ last \in [Cameras -> {"none", "repeated", "recorded"}]
    /\ alertId \in [Cameras -> AlertIds \cup {None, Uuid}]
    /\ raised \in [Cameras -> Seq([plate : Plates, time : Times])]
    /\ alertRows \in Seq(AlertRow) /\ Len(alertRows) <= MaxAlerts
    /\ apiList \subseteq Plates
    /\ table \in Tables
    /\ faults \in 0 .. MaxFaults

IInv ==
    /\ JP!IInv
    /\ OwnTypes
    /\ \A c \in Cameras : Local(c)

-----------------------------------------------------------------------------
(* J and JP name the same correlator.                                      *)

LEMMA CorrelatorAssumptions == JP!ConstantsOK /\ JP!SeedsSpaced
BY CorrelatorConstants
   DEF JP!ConstantsOK, J!ConstantsOK, JP!SeedsSpaced, J!SeedsSpaced,
       J!IsFiniteSet, JP!IsFiniteSet, J!Segment, JP!Segment, J!Loaded,
       JP!Loaded, J!Times, JP!Times, J!Row, JP!Row

LEMMA SameInit == J!Init <=> JP!Init
BY Zenon
   DEF J!Init, JP!Init, J!Fresh, JP!Fresh, J!SeedJourney, JP!SeedJourney,
       J!OfPlate, JP!OfPlate, J!TimesOf, JP!TimesOf, J!EmptyJourney,
       JP!EmptyJourney, J!Min, JP!Min, J!Max, JP!Max, J!Cardinality,
       JP!Cardinality

LEMMA SameAdd ==
    ASSUME NEW c, NEW p, NEW t
    PROVE  J!AddSighting(c, p, t) <=> JP!AddSighting(c, p, t)
BY Zenon
   DEF J!AddSighting, JP!AddSighting, J!IsDuplicate, JP!IsDuplicate,
       J!Updated, JP!Updated, J!OfPlate, JP!OfPlate, J!TimesOf, JP!TimesOf,
       J!Min, JP!Min, J!Max, JP!Max

LEMMA SameStore ==
    ASSUME NEW c
    PROVE  /\ J!PersistQuery(c) <=> JP!PersistQuery(c)
           /\ J!PersistCommit(c) <=> JP!PersistCommit(c)
           /\ J!PersistFail(c) <=> JP!PersistFail(c)
<1>1. J!PersistQuery(c) <=> JP!PersistQuery(c)
  BY Zenon DEF J!PersistQuery, JP!PersistQuery, J!Matching, JP!Matching
<1>2. J!PersistCommit(c) <=> JP!PersistCommit(c)
  BY Zenon DEF J!PersistCommit, JP!PersistCommit, J!Merged, JP!Merged, J!Column,
     JP!Column, J!Inserted, JP!Inserted, J!Idle, JP!Idle, J!Cardinality,
     JP!Cardinality
<1>3. J!PersistFail(c) <=> JP!PersistFail(c)
  BY Zenon DEF J!PersistFail, JP!PersistFail, J!Idle, JP!Idle
<1> QED
  BY <1>1, <1>2, <1>3

LEMMA SameRestarts ==
    /\ \A c : J!Restart(c) <=> JP!Restart(c)
    /\ J!ApiRestart <=> JP!ApiRestart
<1>1. J!Fresh = JP!Fresh
  BY Zenon
     DEF J!Fresh, JP!Fresh, J!SeedJourney, JP!SeedJourney, J!OfPlate,
         JP!OfPlate, J!TimesOf, JP!TimesOf, J!EmptyJourney, JP!EmptyJourney,
         J!Min, JP!Min, J!Max, JP!Max, J!Cardinality, JP!Cardinality
<1>2. \A c : J!Restart(c) <=> JP!Restart(c)
  BY <1>1 DEF J!Restart, JP!Restart, J!Idle, JP!Idle
<1>3. J!ApiRestart <=> JP!ApiRestart
  BY <1>1 DEF J!ApiRestart, JP!ApiRestart, J!pipe, JP!pipe
<1> QED
  BY <1>2, <1>3

LEMMA SameTypes == J!TypeOK <=> JP!TypeOK
BY DEF J!TypeOK, JP!TypeOK, J!Segment, JP!Segment, J!Journey, JP!Journey,
       J!Loaded, JP!Loaded, J!Row, JP!Row, J!SegRow, JP!SegRow, J!Times,
       JP!Times

-----------------------------------------------------------------------------
(* What a step leaves alone.                                               *)

\* All Local(c) speaks of, but for the table of alerts.
View(c) == <<recent[c], session[c], stage[c], read[c], last[c], alertId[c],
             raised[c], segments[c], pc[c], pending[c]>>

Others(c) == \A d \in Cameras \ {c} : View(d)' = View(d)

\* Rows of the alerts table are never changed.
RowsKept == \A i \in DOMAIN alertRows :
    i \in DOMAIN alertRows' /\ alertRows'[i] = alertRows[i]

LEMMA KeepLocal ==
    ASSUME NEW c \in Cameras, Local(c), View(c)' = View(c)
    PROVE  Local(c)'
<1>1. /\ recent'[c] = recent[c] /\ session'[c] = session[c]
      /\ stage'[c] = stage[c] /\ read'[c] = read[c]
      /\ last'[c] = last[c] /\ alertId'[c] = alertId[c]
      /\ raised'[c] = raised[c] /\ segments'[c] = segments[c]
      /\ pc'[c] = pc[c] /\ pending'[c] = pending[c]
  BY DEF View
<1>2. Placed(c)' /\ Awaited(c)' /\ Repaired(c)'
  BY <1>1 DEF Local, Placed, Awaited, Repaired
<1>3. Cooled(c)' /\ Spaced(c)'
  BY <1>1 DEF Local, Cooled, Spaced, Recent
<1>4. Seen(c)'
  BY <1>1 DEF Local, Seen, Sighting
<1> QED
  BY <1>2, <1>3, <1>4 DEF Local

LEMMA AlertIdFacts ==
    /\ None \notin AlertIds /\ Uuid \notin AlertIds /\ Uuid # None
    /\ None \notin Times
    /\ Times \subseteq Int /\ Cooldown \in Nat /\ Cooldown > 0
BY PipelineConstants DEF Times

LEMMA AppendFacts ==
    ASSUME NEW S, NEW s \in Seq(S), NEW x \in S
    PROVE  /\ Append(s, x) \in Seq(S) /\ Len(s) \in Nat
           /\ DOMAIN s = 1 .. Len(s) /\ DOMAIN Append(s, x) = 1 .. Len(s) + 1
           /\ Len(Append(s, x)) = Len(s) + 1
           /\ Append(s, x)[Len(s) + 1] = x
           /\ \A i \in 1 .. Len(s) : Append(s, x)[i] = s[i]
OBVIOUS

\* What the correlator's invariant says of a call in progress.
LEMMA CallFacts ==
    ASSUME IInv
    PROVE  /\ segments \in [Cameras -> Seq(J!Segment)]
           /\ pc \in [Cameras -> {"idle", "query", "commit"}]
           /\ pending \in [Cameras -> J!Segment \cup {None}]
           /\ \A c \in Cameras : pc[c] # "idle" => pending[c] \in J!Segment
BY DEF IInv, JP!IInv, JP!TypeOK, JP!CallInv, J!Segment, JP!Segment, J!Times,
       JP!Times

\* An insertion keeps the rows there are.
LEMMA InsertFacts ==
    ASSUME OwnTypes, NEW x, alertRows' = Append(alertRows, x)
    PROVE  /\ RowsKept
           /\ Len(alertRows) + 1 \in DOMAIN alertRows'
           /\ alertRows'[Len(alertRows) + 1] = x
BY DEF OwnTypes, RowsKept

-----------------------------------------------------------------------------
(* Every action of a camera keeps what is said of that camera.             *)

LEMMA PlateIsReadLocal ==
    ASSUME IInv, NEW c \in Cameras, NEW p \in Plates, NEW sure \in BOOLEAN,
           NEW now \in Times, PlateIsRead(c, p, sure, now)
    PROVE  Local(c)' /\ Others(c) /\ RowsKept
<1>1. /\ stage[c] = "idle" /\ stage'[c] = "lookup"
      /\ \A d \in Cameras \ {c} : stage'[d] = stage[d] /\ read'[d] = read[d]
      /\ UNCHANGED <<recent, session, last, alertId, raised, alertRows,
                     segments, pc, pending>>
  BY DEF PlateIsRead, Goto, IInv, OwnTypes, correlator, engine
<1>2. read'[c] \in PlateRead
  <2>1. read'[c] = [plate |-> p, sure |-> sure, now |-> now,
                    listed |-> p \in apiList, faults |-> faults]
    BY DEF PlateIsRead, IInv, OwnTypes
  <2>2. faults \in 0 .. MaxFaults
    BY DEF IInv, OwnTypes
  <2> QED
    BY <2>1, <2>2 DEF PlateRead
<1>3. Local(c)
  BY DEF IInv
<1>4. Local(c)'
  BY <1>1, <1>2, <1>3
     DEF Local, Placed, Cooled, Spaced, Awaited, Seen, Sighting,
         Repaired, Recent
<1> QED
  BY <1>1, <1>4 DEF Others, View, RowsKept

\* What Decide(c, match) leaves, whatever the lookup said.
Decided(c) ==
    \/ ~Recent(c) /\ Goto(c, "alert") /\ UNCHANGED alertId
    \/ Goto(c, "sighting") /\ alertId' = [alertId EXCEPT ![c] = None]

LEMMA DecideLocal ==
    ASSUME IInv, NEW c \in Cameras, stage[c] = "lookup", Decided(c),
           \A d \in Cameras \ {c} : session'[d] = session[d],
           UNCHANGED <<correlator, engine, read, last, alertRows>>
    PROVE  Local(c)' /\ Others(c) /\ RowsKept
<1>1. UNCHANGED <<recent, read, last, raised, alertRows, segments, pc, pending>>
  BY DEF correlator, engine
<1>2. Local(c)
  BY DEF IInv
<1>3. /\ stage \in [Cameras -> {"idle", "lookup", "alert", "sighting", "store"}]
      /\ alertId \in [Cameras -> AlertIds \cup {None, Uuid}]
  BY DEF IInv, OwnTypes
<1>4. /\ \A d \in Cameras \ {c} : stage'[d] = stage[d] /\ alertId'[d] = alertId[d]
      /\ \/ stage'[c] = "alert" /\ ~Recent(c)
         \/ stage'[c] = "sighting" /\ alertId'[c] = None
  BY <1>3 DEF Decided, Goto
<1>5. Placed(c)' /\ Spaced(c)' /\ Seen(c)' /\ Repaired(c)'
  BY <1>1, <1>2, <1>4 DEF Local, Placed, Spaced, Seen, Sighting, Repaired
<1>6. Cooled(c)'
  BY <1>1, <1>2, <1>4 DEF Local, Cooled, Recent
<1>7. Awaited(c)'
  BY <1>4 DEF Awaited
<1> QED
  BY <1>1, <1>4, <1>5, <1>6, <1>7 DEF Others, View, RowsKept, Local

LEMMA LookupLocal ==
    ASSUME IInv, NEW c \in Cameras, Lookup(c) \/ LookupFails(c)
    PROVE  Local(c)' /\ Others(c) /\ RowsKept
<1>1. \A d \in Cameras \ {c} : session'[d] = session[d]
  BY DEF Lookup, LookupFails, IInv, OwnTypes
<1>2. stage[c] = "lookup"
      /\ UNCHANGED <<correlator, engine, read, last, alertRows>>
  BY DEF Lookup, LookupFails
<1>3. Decided(c)
  BY DEF Lookup, LookupFails, Decide, Decided
<1> QED
  BY <1>1, <1>2, <1>3, DecideLocal

\* The alert that is raised is spaced from those before it, and the next one
\* will be.
LEMMA RaiseLocal ==
    ASSUME IInv, NEW c \in Cameras, NEW id \in AlertIds \cup {Uuid},
           stage[c] = "alert", Raise(c, id), RowsKept,
           \A d \in Cameras \ {c} : session'[d] = session[d],
           UNCHANGED <<correlator, read, last>>
    PROVE  Local(c)' /\ Others(c) /\ RowsKept
<1> DEFINE p == read[c].plate
           now == read[c].now
           n == Len(raised[c])
<1>1. UNCHANGED <<read, last, segments, pc, pending>>
  BY DEF correlator
<1>2. Local(c) /\ read[c] \in PlateRead
  BY DEF IInv, Local, Placed
<1>3. p \in Plates /\ now \in Times
  BY <1>2 DEF PlateRead
<1>4. /\ alertId'[c] = id /\ stage'[c] = "sighting"
      /\ \A d \in Cameras \ {c} :
            /\ stage'[d] = stage[d] /\ alertId'[d] = alertId[d]
            /\ recent'[d] = recent[d] /\ raised'[d] = raised[d]
  BY DEF Raise, Goto, IInv, OwnTypes
<1>5. /\ recent'[c][p] = now
      /\ \A q \in Plates \ {p} : recent'[c][q] = recent[c][q]
  <2>1. recent' = [recent EXCEPT ![c][read[c].plate] = read[c].now]
    BY DEF Raise
  <2>2. recent \in [Cameras -> [Plates -> Times \cup {None}]]
    BY DEF IInv, OwnTypes
  <2>3. recent'[c] = [recent[c] EXCEPT ![read[c].plate] = read[c].now]
    BY <2>1, <2>2
  <2>4. recent[c] \in [Plates -> Times \cup {None}]
    BY <2>2
  <2> QED
    BY <1>3, <2>3, <2>4
<1>6. raised[c] \in Seq([plate : Plates, time : Times])
  BY DEF IInv, OwnTypes
<1>7. /\ n \in Nat /\ DOMAIN raised[c] = 1 .. n
      /\ DOMAIN raised'[c] = 1 .. n + 1 /\ Len(raised'[c]) = n + 1
      /\ raised'[c][n + 1] = [plate |-> p, time |-> now]
      /\ \A i \in 1 .. n : raised'[c][i] = raised[c][i]
  <2>1. raised'[c] = Append(raised[c], [plate |-> p, time |-> now])
    BY DEF Raise, IInv, OwnTypes
  <2>2. raised[c] \in Seq([plate : Plates, time : Times])
        /\ [plate |-> p, time |-> now] \in [plate : Plates, time : Times]
    BY <1>3, <1>6
  <2> HIDE DEF p, now
  <2> QED
    BY <2>1, <2>2, AppendFacts
<1>8. \A i \in 1 .. n : raised[c][i].plate \in Plates /\ raised[c][i].time \in Times
  <2> DEFINE E == [plate : Plates, time : Times]
  <2>1. \A x \in E : x.plate \in Plates /\ x.time \in Times
    OBVIOUS
  <2>2. raised[c] \in Seq(E)
    BY <1>6
  <2> HIDE DEF E
  <2>3. \A i \in 1 .. n : raised[c][i] \in E
    BY <2>2
  <2> QED
    BY <2>1, <2>3
<1>9. \A i \in 1 .. n : raised[c][i].plate = p => now >= raised[c][i].time + Cooldown
  <2> SUFFICES ASSUME NEW i \in 1 .. n, raised[c][i].plate = p
               PROVE  now >= raised[c][i].time + Cooldown
    OBVIOUS
  <2>1. recent[c][p] # None /\ raised[c][i].time <= recent[c][p]
    BY <1>2, <1>7 DEF Local, Cooled
  <2>2. recent[c][p] \in Times
    BY <1>3, <2>1 DEF IInv, OwnTypes
  <2>3. ~(now - recent[c][p] < Cooldown)
    BY <1>2, <2>1 DEF Local, Cooled, Recent
  <2>4. raised[c][i].time \in Int /\ recent[c][p] \in Int /\ now \in Int
    BY <1>3, <1>8, <2>2, AlertIdFacts
  <2> QED
    BY <2>1, <2>3, <2>4, AlertIdFacts
<1> HIDE DEF p, now, n
<1>10. Spaced(c)'
  <2> SUFFICES ASSUME NEW i \in 1 .. n + 1, NEW j \in 1 .. n + 1, i < j,
                      raised'[c][i].plate = raised'[c][j].plate
               PROVE  raised'[c][j].time >= raised'[c][i].time + Cooldown
    BY <1>7 DEF Spaced
  <2>1. i \in 1 .. n
    BY <1>7
  <2>2. CASE j \in 1 .. n
    BY <1>2, <1>7, <2>1, <2>2 DEF Local, Spaced
  <2>3. CASE j = n + 1
    BY <1>7, <1>9, <2>1, <2>3
  <2> QED
    BY <1>7, <2>2, <2>3
<1>11. Cooled(c)'
  <2>1. ASSUME NEW i \in 1 .. n + 1
        PROVE  /\ recent'[c][raised'[c][i].plate] # None
               /\ raised'[c][i].time <= recent'[c][raised'[c][i].plate]
    <3>1. CASE i = n + 1
      BY <1>3, <1>5, <1>7, <3>1, AlertIdFacts
    <3>2. CASE i \in 1 .. n /\ raised[c][i].plate = p
      <4>1. now >= raised[c][i].time + Cooldown
        BY <1>9, <3>2
      <4>2. raised[c][i].time \in Int /\ now \in Int
        BY <1>3, <1>8, <3>2, AlertIdFacts
      <4> QED
        BY <1>3, <1>5, <1>7, <3>2, <4>1, <4>2, AlertIdFacts
    <3>3. CASE i \in 1 .. n /\ raised[c][i].plate # p
      <4>1. /\ recent[c][raised[c][i].plate] # None
            /\ raised[c][i].time <= recent[c][raised[c][i].plate]
        BY <1>2, <1>7, <3>3 DEF Local, Cooled
      <4>2. recent'[c][raised[c][i].plate] = recent[c][raised[c][i].plate]
        BY <1>5, <1>8, <3>3
      <4> QED
        BY <1>7, <3>3, <4>1, <4>2
    <3> QED
      BY <1>7, <3>1, <3>2, <3>3
  <2> QED
    BY <1>4, <1>7, <2>1 DEF Cooled
<1>12. Awaited(c)' /\ Placed(c)' /\ Repaired(c)'
  <2>1. raised'[c][n + 1].plate = read[c].plate
    BY <1>7 DEF p
  <2> QED
    BY <1>1, <1>2, <1>4, <1>7, <2>1 DEF Local, Placed, Awaited, Repaired
<1>13. Seen(c)'
  <2>1. Seen(c) /\ stage[c] = "alert"
    BY <1>2 DEF Local
  <2>2. alertId'[c] # None /\ stage'[c] = "sighting"
    BY <1>4, AlertIdFacts
  <2>3. \A i \in 1 .. n : Sighting(c, i)
    BY <1>7, <2>1 DEF Seen
  <2>4. \A i \in 1 .. n : Sighting(c, i)'
    BY <1>1, <1>7, <2>3 DEF Sighting
  <2> QED
    BY <1>7, <2>2, <2>4 DEF Seen
<1> QED
  BY <1>1, <1>4, <1>10, <1>11, <1>12, <1>13 DEF Local, Others, View

LEMMA RaisedLocal ==
    ASSUME IInv, NEW c \in Cameras,
           RaiseStored(c) \/ RaiseUnread(c) \/ RaiseUnstored(c)
    PROVE  Local(c)' /\ Others(c) /\ RowsKept
<1>1. \A d \in Cameras \ {c} : session'[d] = session[d]
  BY DEF RaiseStored, RaiseUnread, RaiseUnstored, IInv, OwnTypes
<1>2. stage[c] = "alert" /\ UNCHANGED <<correlator, read, last>>
  BY DEF RaiseStored, RaiseUnread, RaiseUnstored
<1>3. CASE RaiseStored(c)
  <2>1. alertRows' = Append(alertRows, NewRow(c)) /\ Len(alertRows) < MaxAlerts
        /\ Raise(c, Len(alertRows) + 1)
    BY <1>3 DEF RaiseStored, InsertAlert
  <2>2. Len(alertRows) + 1 \in AlertIds
    BY <2>1, PipelineConstants DEF AlertIds, IInv, OwnTypes
  <2>3. /\ RowsKept
        /\ Len(alertRows) + 1 \in DOMAIN alertRows'
        /\ alertRows'[Len(alertRows) + 1] = NewRow(c)
    BY <2>1, InsertFacts DEF IInv
  <2> QED
    BY <1>1, <1>2, <2>1, <2>2, <2>3, RaiseLocal
<1>4. CASE RaiseUnread(c) \/ RaiseUnstored(c)
  <2>1. RowsKept
    <3>1. alertRows' = alertRows \/ alertRows' = Append(alertRows, NewRow(c))
      BY <1>4 DEF RaiseUnread, RaiseUnstored, InsertAlert
    <3> QED
      BY <3>1, InsertFacts DEF IInv, RowsKept
  <2>2. Raise(c, Uuid)
    BY <1>4 DEF RaiseUnread, RaiseUnstored
  <2> QED
    BY <1>1, <1>2, <2>1, <2>2, RaiseLocal, AlertIdFacts
<1> QED
  BY <1>3, <1>4

\* A read ends once every alerted plate has its sighting, and not with a
\* failed session if it was recorded.
LEMMA DoneLocal ==
    ASSUME IInv, NEW c \in Cameras, NEW how, Done(c, how),
           stage[c] # "idle", pc'[c] = "idle",
           \A d \in Cameras \ {c} :
               /\ session'[d] = session[d] /\ pc'[d] = pc[d]
               /\ pending'[d] = pending[d],
           how = "recorded" => session'[c] = "clean",
           \A i \in DOMAIN raised[c] : Sighting(c, i),
           UNCHANGED <<segments, recent, raised, alertId, alertRows>>
    PROVE  Local(c)' /\ Others(c) /\ RowsKept
<1>1. /\ stage \in [Cameras -> {"idle", "lookup", "alert", "sighting", "store"}]
      /\ read \in [Cameras -> PlateRead \cup {None}]
      /\ last \in [Cameras -> {"none", "repeated", "recorded"}]
  BY DEF IInv, OwnTypes
<1>2. /\ stage'[c] = "idle" /\ last'[c] = how
      /\ \A d \in Cameras \ {c} : /\ stage'[d] = stage[d] /\ read'[d] = read[d]
                                  /\ last'[d] = last[d]
  BY <1>1 DEF Done, Goto
<1>3. Local(c)
  BY DEF IInv
<1>4. Placed(c)' /\ Awaited(c)' /\ Repaired(c)'
  BY <1>2 DEF Placed, Awaited, Repaired
<1>5. Cooled(c)' /\ Spaced(c)'
  BY <1>2, <1>3 DEF Local, Cooled, Spaced
<1>6. Seen(c)'
  BY <1>2 DEF Seen, Sighting
<1> QED
  BY <1>2, <1>4, <1>5, <1>6 DEF Local, Others, View, RowsKept

\* A repetition is of a plate that is in memory.
LEMMA RepeatedLocal ==
    ASSUME IInv, NEW c \in Cameras, NEW t \in Times, Repeated(c, t)
    PROVE  Local(c)' /\ Others(c) /\ RowsKept
<1>1. Local(c)
  BY DEF IInv
<1>2. /\ stage[c] = "sighting" /\ Done(c, "repeated")
      /\ UNCHANGED <<session, segments, pc, pending, recent, raised, alertId,
                     alertRows>>
  BY DEF Repeated, correlator, engine
<1>3. pc[c] = "idle"
  BY <1>1, <1>2 DEF Local, Placed
<1>4. \E k \in DOMAIN segments[c] : segments[c][k].plate = read[c].plate
  BY DEF Repeated, J!IsDuplicate
<1>5. \A i \in DOMAIN raised[c] : Sighting(c, i)
  BY <1>1, <1>4 DEF Local, Seen, Awaited, Sighting
<1> QED
  BY <1>2, <1>3, <1>5, DoneLocal

\* A sighting in memory makes up for the alert that awaits it.
LEMMA SightedLocal ==
    ASSUME IInv, NEW c \in Cameras, NEW t \in Times, Sighted(c, t)
    PROVE  Local(c)' /\ Others(c) /\ RowsKept
<1> DEFINE seg == [plate |-> read[c].plate, camera |-> c, time |-> t]
<1>1. Local(c)
  BY DEF IInv
<1>2. /\ stage[c] = "sighting"
      /\ UNCHANGED <<session, read, last, recent, raised, alertId, alertRows>>
  BY DEF Sighted, engine
<1>3. read[c].plate \in Plates
  BY <1>1, <1>2 DEF Local, Placed, PlateRead
<1>4. seg \in J!Segment
  BY <1>3 DEF J!Segment, J!Times, Times
<1>5. /\ segments' = [segments EXCEPT ![c] = Append(segments[c], seg)]
      /\ pending' = [pending EXCEPT ![c] = seg]
      /\ pc' = [pc EXCEPT ![c] = "query"]
      /\ stage' = [stage EXCEPT ![c] = "store"]
  BY DEF Sighted, J!AddSighting, Goto
<1>6. stage \in [Cameras -> {"idle", "lookup", "alert", "sighting", "store"}]
  BY DEF IInv, OwnTypes
<1> HIDE DEF seg
<1>7. /\ segments'[c] = Append(segments[c], seg) /\ pending'[c] = seg
      /\ pc'[c] = "query" /\ stage'[c] = "store"
      /\ \A d \in Cameras \ {c} :
            /\ segments'[d] = segments[d] /\ pending'[d] = pending[d]
            /\ pc'[d] = pc[d] /\ stage'[d] = stage[d]
  BY <1>5, <1>6, CallFacts
<1>8. segments[c] \in Seq(J!Segment)
  BY CallFacts
<1>9. /\ seg.plate = read[c].plate /\ seg.camera = c
  BY DEF seg
<1>10. Placed(c)' /\ Awaited(c)' /\ Repaired(c)'
  BY <1>1, <1>2, <1>7, <1>9 DEF Local, Placed, Awaited, Repaired
<1>11. Cooled(c)' /\ Spaced(c)'
  BY <1>1, <1>2, <1>7 DEF Local, Cooled, Spaced
<1>12. Seen(c)'
  <2> SUFFICES ASSUME NEW i \in DOMAIN raised[c]
               PROVE  \E k \in DOMAIN segments'[c] :
                          segments'[c][k].plate = raised[c][i].plate
    BY <1>2 DEF Seen, Sighting
  <2>1. CASE Sighting(c, i)
    BY <1>4, <1>7, <1>8, <2>1, AppendFacts DEF Sighting
  <2>2. CASE alertId[c] # None /\ i = Len(raised[c])
    <3>1. raised[c][i].plate = seg.plate
      BY <1>1, <1>2, <1>9, <2>2 DEF Local, Awaited
    <3>2. /\ Len(segments[c]) + 1 \in DOMAIN segments'[c]
          /\ segments'[c][Len(segments[c]) + 1] = seg
      BY <1>4, <1>7, <1>8, AppendFacts
    <3> QED
      BY <3>1, <3>2
  <2> QED
    BY <1>1, <2>1, <2>2 DEF Local, Seen
<1> QED
  BY <1>2, <1>7, <1>10, <1>11, <1>12 DEF Local, Others, View, RowsKept

LEMMA QueryLocal ==
    ASSUME IInv, NEW c \in Cameras, Query(c)
    PROVE  Local(c)' /\ Others(c) /\ RowsKept
<1>1. Local(c)
  BY DEF IInv
<1>2. /\ stage[c] = "store" /\ pc' = [pc EXCEPT ![c] = "commit"]
      /\ UNCHANGED <<session, stage, read, last, recent, raised, alertId,
                     alertRows, segments, pending>>
  BY DEF Query, J!PersistQuery, engine
<1>3. pc'[c] = "commit" /\ \A d \in Cameras \ {c} : pc'[d] = pc[d]
  BY <1>2, CallFacts
<1>4. Local(c)'
  BY <1>1, <1>2, <1>3
     DEF Local, Placed, Cooled, Spaced, Awaited, Seen, Sighting,
         Repaired, Recent
<1> QED
  BY <1>2, <1>3, <1>4 DEF Others, View, RowsKept

LEMMA StoredLocal ==
    ASSUME IInv, NEW c \in Cameras, Commit(c) \/ StoreFails(c)
    PROVE  Local(c)' /\ Others(c) /\ RowsKept
<1>1. Local(c)
  BY DEF IInv
<1>2. /\ stage[c] = "store" /\ Done(c, "recorded")
      /\ UNCHANGED <<segments, recent, raised, alertId, alertRows>>
      /\ pc' = [pc EXCEPT ![c] = "idle"]
      /\ pending' = [pending EXCEPT ![c] = None]
  BY DEF Commit, StoreFails, J!PersistCommit, J!PersistFail, J!Idle, engine
<1>3. /\ session'[c] = "clean"
      /\ \A d \in Cameras \ {c} : session'[d] = session[d]
  <2>1. session \in [Cameras -> {"clean", "failed"}]
    BY DEF IInv, OwnTypes
  <2> QED
    BY <2>1 DEF Commit, StoreFails, RolledBack
<1>4. /\ pc'[c] = "idle"
      /\ \A d \in Cameras \ {c} : pc'[d] = pc[d] /\ pending'[d] = pending[d]
  BY <1>2, CallFacts
<1>5. \A i \in DOMAIN raised[c] : Sighting(c, i)
  BY <1>1, <1>2 DEF Local, Seen
<1> QED
  BY <1>2, <1>3, <1>4, <1>5, DoneLocal

LEMMA RestartLocal ==
    ASSUME IInv, NEW c \in Cameras, Restart(c)
    PROVE  Local(c)' /\ Others(c) /\ RowsKept
<1>1. OwnTypes
  BY DEF IInv
<1>2. /\ stage'[c] = "idle" /\ last'[c] = "none" /\ raised'[c] = << >>
      /\ \A d \in Cameras \ {c} :
            /\ stage'[d] = stage[d] /\ last'[d] = last[d]
            /\ raised'[d] = raised[d] /\ alertId'[d] = alertId[d]
            /\ read'[d] = read[d]
  BY <1>1 DEF Restart, OwnTypes, Goto
<1>3. \A d \in Cameras \ {c} : recent'[d] = recent[d] /\ session'[d] = session[d]
  BY <1>1 DEF Restart, OwnTypes
<1>4. /\ pc'[c] = "idle"
      /\ \A d \in Cameras \ {c} :
            /\ segments'[d] = segments[d] /\ pc'[d] = pc[d]
            /\ pending'[d] = pending[d]
  BY CallFacts DEF Restart, J!Restart, J!Idle
<1>5. alertRows' = alertRows
  BY DEF Restart
<1>6. Local(c)'
  BY <1>2, <1>4
     DEF Local, Placed, Cooled, Spaced, Awaited, Seen, Repaired
<1> QED
  BY <1>2, <1>3, <1>4, <1>5, <1>6 DEF Others, View, RowsKept

\* The actions of the API process are none of any camera.
LEMMA OutsideLocal ==
    ASSUME IInv,
           \/ \E c \in Cameras, p \in Plates : IncidentAlert(c, p)
           \/ \E p \in Plates : EditList(p)
           \/ ApiRestart
    PROVE  (\A c \in Cameras : Local(c)') /\ RowsKept
<1>1. RowsKept
  <2>1. alertRows' = alertRows \/ \E x : alertRows' = Append(alertRows, x)
    BY DEF IncidentAlert, EditList, ApiRestart
  <2> QED
    BY <2>1, InsertFacts DEF IInv, RowsKept
<1>2. UNCHANGED <<recent, session, stage, read, last, alertId, raised, segments,
                  pc, pending>>
  BY DEF IncidentAlert, EditList, ApiRestart, J!ApiRestart, J!pipe, correlator,
         engine
<1>3. \A c \in Cameras : View(c)' = View(c)
  BY <1>2 DEF View
<1> QED
  BY <1>1, <1>3, KeepLocal DEF IInv

-----------------------------------------------------------------------------
(* Every step is a step of the correlator, or none of it.                  *)

LEMMA StepCorrelates == IInv /\ [Next]_vars => [JP!Next]_JP!vars
<1> SUFFICES ASSUME IInv, [Next]_vars PROVE [JP!Next]_JP!vars
  OBVIOUS
<1>1. CASE UNCHANGED correlator
  BY <1>1 DEF correlator, JP!vars
<1>2. ASSUME NEW c \in Cameras, NEW t \in Times, Sighted(c, t)
      PROVE  JP!Next
  <2>1. read[c].plate \in Plates
    BY <1>2 DEF IInv, Local, Placed, PlateRead, Sighted
  <2>2. JP!AddSighting(c, read[c].plate, t)
    BY <1>2, SameAdd DEF Sighted
  <2>3. t \in JP!Times
    BY DEF Times, JP!Times
  <2> QED
    BY <2>1, <2>2, <2>3 DEF JP!Next
<1>3. ASSUME NEW c \in Cameras, Query(c) \/ Commit(c) \/ StoreFails(c) \/ Restart(c)
      PROVE  JP!Next
  <2>1. \/ JP!PersistQuery(c) \/ JP!PersistCommit(c) \/ JP!PersistFail(c)
        \/ JP!Restart(c)
    BY <1>3, SameStore, SameRestarts DEF Query, Commit, StoreFails, Restart
  <2> QED
    BY <2>1 DEF JP!Next
<1>4. CASE ApiRestart
  BY <1>4, SameRestarts DEF ApiRestart, JP!Next
<1>5. ASSUME NEW c \in Cameras,
             \/ \E p \in Plates, sure \in BOOLEAN, now \in Times :
                    PlateIsRead(c, p, sure, now)
             \/ Lookup(c) \/ LookupFails(c)
             \/ RaiseStored(c) \/ RaiseUnread(c) \/ RaiseUnstored(c)
             \/ \E t \in Times : Repeated(c, t)
             \/ \E p \in Plates : IncidentAlert(c, p)
      PROVE  UNCHANGED correlator
  BY <1>5 DEF PlateIsRead, Lookup, LookupFails, RaiseStored, RaiseUnread,
              RaiseUnstored, Repeated, IncidentAlert
<1>6. CASE \E p \in Plates : EditList(p)
  BY <1>1, <1>6 DEF EditList
<1>7. CASE UNCHANGED vars
  BY <1>1, <1>7 DEF vars
<1> QED
  BY <1>1, <1>2, <1>3, <1>4, <1>5, <1>6, <1>7 DEF Next

-----------------------------------------------------------------------------
(* Every step keeps the types.                                             *)

LEMMA RaiseTypes ==
    ASSUME IInv, NEW c \in Cameras, NEW id \in AlertIds \cup {Uuid},
           stage[c] = "alert", Raise(c, id)
    PROVE  /\ recent' \in [Cameras -> [Plates -> Times \cup {None}]]
           /\ raised' \in [Cameras -> Seq([plate : Plates, time : Times])]
           /\ alertId' \in [Cameras -> AlertIds \cup {None, Uuid}]
           /\ stage' \in [Cameras -> {"idle", "lookup", "alert", "sighting", "store"}]
<1>1. OwnTypes
  BY DEF IInv
<1>2. read[c].plate \in Plates /\ read[c].now \in Times
  BY DEF IInv, Local, Placed, PlateRead
<1>3. recent' \in [Cameras -> [Plates -> Times \cup {None}]]
  <2>1. recent' = [recent EXCEPT ![c][read[c].plate] = read[c].now]
    BY DEF Raise
  <2>2. recent \in [Cameras -> [Plates -> Times \cup {None}]]
    BY <1>1 DEF OwnTypes
  <2> QED
    BY <1>2, <2>1, <2>2
<1>4. raised' \in [Cameras -> Seq([plate : Plates, time : Times])]
  <2> DEFINE E == [plate : Plates, time : Times]
             e == [plate |-> read[c].plate, time |-> read[c].now]
  <2>1. e \in E /\ raised \in [Cameras -> Seq(E)]
    BY <1>1, <1>2 DEF OwnTypes
  <2>2. raised' = [raised EXCEPT ![c] = Append(raised[c], e)]
    BY DEF Raise
  <2> HIDE DEF E, e
  <2>3. Append(raised[c], e) \in Seq(E)
    BY <2>1
  <2>4. raised' \in [Cameras -> Seq(E)]
    BY <2>1, <2>2, <2>3
  <2> QED
    BY <2>4 DEF E
<1>5. alertId' \in [Cameras -> AlertIds \cup {None, Uuid}]
      /\ stage' \in [Cameras -> {"idle", "lookup", "alert", "sighting", "store"}]
  BY <1>1 DEF OwnTypes, Raise, Goto
<1> QED
  BY <1>3, <1>4, <1>5

LEMMA InsertTypes ==
    ASSUME OwnTypes, NEW x \in AlertRow, Len(alertRows) < MaxAlerts,
           alertRows' = Append(alertRows, x)
    PROVE  alertRows' \in Seq(AlertRow) /\ Len(alertRows') <= MaxAlerts
<1>1. alertRows \in Seq(AlertRow)
  BY DEF OwnTypes
<1>2. MaxAlerts \in Nat
  BY PipelineConstants
<1> QED
  BY <1>1, <1>2, AppendFacts

LEMMA FaultTypes ==
    ASSUME OwnTypes, Fault \/ NoFault
    PROVE  faults' \in 0 .. MaxFaults
BY PipelineConstants DEF OwnTypes, Fault, NoFault

\* The session a statement leaves behind.
LEMMA SessionTypes ==
    ASSUME OwnTypes, NEW c,
           \/ UNCHANGED session
           \/ \E s \in {"clean", "failed"} : session' = [session EXCEPT ![c] = s]
    PROVE  session' \in [Cameras -> {"clean", "failed"}]
BY DEF OwnTypes

LEMMA RaisedTypes ==
    ASSUME IInv, NEW c \in Cameras,
           RaiseStored(c) \/ RaiseUnread(c) \/ RaiseUnstored(c)
    PROVE  OwnTypes'
<1>1. OwnTypes
  BY DEF IInv
<1>2. \E id \in AlertIds \cup {Uuid} : Raise(c, id)
  <2>1. Len(alertRows) < MaxAlerts => Len(alertRows) + 1 \in AlertIds
    BY <1>1, PipelineConstants DEF OwnTypes, AlertIds
  <2> QED
    BY <2>1 DEF RaiseStored, RaiseUnread, RaiseUnstored, InsertAlert
<1>3. stage[c] = "alert"
      /\ UNCHANGED <<provider, read, last, lists>>
  BY DEF RaiseStored, RaiseUnread, RaiseUnstored
<1>4. NewRow(c) \in AlertRow
  BY <1>3 DEF IInv, Local, Placed, PlateRead, NewRow, AlertRow
<1>5. alertRows' \in Seq(AlertRow) /\ Len(alertRows') <= MaxAlerts
  <2>1. \/ alertRows' = alertRows
        \/ Len(alertRows) < MaxAlerts /\ alertRows' = Append(alertRows, NewRow(c))
    BY DEF RaiseStored, RaiseUnread, RaiseUnstored, InsertAlert
  <2> QED
    BY <1>1, <1>4, <2>1, InsertTypes DEF OwnTypes
<1>6. session' \in [Cameras -> {"clean", "failed"}] /\ faults' \in 0 .. MaxFaults
  <2>1. /\ Fault \/ NoFault
        /\ \/ UNCHANGED session
           \/ \E s \in {"clean", "failed"} : session' = [session EXCEPT ![c] = s]
    BY DEF RaiseStored, RaiseUnread, RaiseUnstored, NoFault
  <2> QED
    BY <1>1, <2>1, FaultTypes, SessionTypes
<1> QED
  BY <1>1, <1>2, <1>3, <1>5, <1>6, RaiseTypes DEF OwnTypes, lists

LEMMA LookupTypes ==
    ASSUME IInv, NEW c \in Cameras, Lookup(c) \/ LookupFails(c)
    PROVE  OwnTypes'
<1>1. OwnTypes
  BY DEF IInv
<1>2. UNCHANGED <<provider, recent, raised, read, last, alertRows, lists>>
  BY DEF Lookup, LookupFails, engine
<1>3. Decided(c)
  BY DEF Lookup, LookupFails, Decide, Decided
<1>4. /\ stage' \in [Cameras -> {"idle", "lookup", "alert", "sighting", "store"}]
      /\ alertId' \in [Cameras -> AlertIds \cup {None, Uuid}]
  BY <1>1, <1>3 DEF OwnTypes, Decided, Goto
<1>5. session' \in [Cameras -> {"clean", "failed"}] /\ faults' \in 0 .. MaxFaults
  <2>1. /\ Fault \/ NoFault
        /\ \/ UNCHANGED session
           \/ \E s \in {"clean", "failed"} : session' = [session EXCEPT ![c] = s]
    BY DEF Lookup, LookupFails, NoFault
  <2> QED
    BY <1>1, <2>1, FaultTypes, SessionTypes
<1> QED
  BY <1>1, <1>2, <1>4, <1>5 DEF OwnTypes, lists

LEMMA SightingTypes ==
    ASSUME IInv, NEW c \in Cameras,
           \/ \E t \in Times : Repeated(c, t) \/ Sighted(c, t)
           \/ Query(c) \/ Commit(c) \/ StoreFails(c)
    PROVE  OwnTypes'
<1>1. OwnTypes
  BY DEF IInv
<1>2. UNCHANGED <<provider, recent, raised, alertId, alertRows, lists>>
  BY DEF Repeated, Sighted, Query, Commit, StoreFails, engine
<1>3. \/ Done(c, "repeated") \/ Done(c, "recorded")
      \/ Goto(c, "store") /\ UNCHANGED <<read, last>>
      \/ UNCHANGED <<stage, read, last>>
  BY DEF Repeated, Sighted, Query, Commit, StoreFails
<1>4. /\ stage' \in [Cameras -> {"idle", "lookup", "alert", "sighting", "store"}]
      /\ read' \in [Cameras -> PlateRead \cup {None}]
      /\ last' \in [Cameras -> {"none", "repeated", "recorded"}]
  BY <1>1, <1>3 DEF OwnTypes, Done, Goto
<1>5. session' \in [Cameras -> {"clean", "failed"}]
  <2>1. UNCHANGED session \/ RolledBack(c)
    BY DEF Repeated, Sighted, Query, Commit, StoreFails
  <2> QED
    BY <1>1, <2>1 DEF OwnTypes, RolledBack
<1>6. faults' \in 0 .. MaxFaults
  BY <1>1, PipelineConstants
     DEF OwnTypes, Repeated, Sighted, Query, Commit, StoreFails, Fault, NoFault
<1> QED
  BY <1>1, <1>2, <1>4, <1>5, <1>6 DEF OwnTypes, lists

LEMMA RestartTypes ==
    ASSUME IInv, NEW c \in Cameras, Restart(c)
    PROVE  OwnTypes'
<1>1. OwnTypes
  BY DEF IInv
<1>2. faults' \in 0 .. MaxFaults
  BY <1>1, FaultTypes DEF Restart
<1>3. provider' \in [Cameras -> {"database", "synthetic"}]
      /\ session' \in [Cameras -> {"clean", "failed"}]
  <2>1. \E s \in {"clean", "failed"} : session' = [session EXCEPT ![c] = s]
    BY DEF Restart
  <2>2. \E w \in {"database", "synthetic"} : provider' = [provider EXCEPT ![c] = w]
    BY DEF Restart, Provider
  <2> QED
    BY <1>1, <2>1, <2>2, SessionTypes DEF OwnTypes
<1>4. /\ recent' \in [Cameras -> [Plates -> Times \cup {None}]]
      /\ raised' \in [Cameras -> Seq([plate : Plates, time : Times])]
  <2>1. /\ recent' = [recent EXCEPT ![c] = [p \in Plates |-> None]]
        /\ raised' = [raised EXCEPT ![c] = << >>]
    BY DEF Restart
  <2>2. [p \in Plates |-> None] \in [Plates -> Times \cup {None}]
    OBVIOUS
  <2>3. recent' \in [Cameras -> [Plates -> Times \cup {None}]]
    <3> DEFINE F == [Plates -> Times \cup {None}]
               f == [p \in Plates |-> None]
    <3>1. recent \in [Cameras -> F] /\ f \in F /\ recent' = [recent EXCEPT ![c] = f]
      BY <1>1, <2>1, <2>2 DEF OwnTypes
    <3> HIDE DEF F, f
    <3>2. recent' \in [Cameras -> F]
      BY <3>1
    <3> QED
      BY <3>2 DEF F
  <2> DEFINE E == [plate : Plates, time : Times]
  <2>4. raised \in [Cameras -> Seq(E)]
    BY <1>1 DEF OwnTypes
  <2> HIDE DEF E
  <2>5. raised' \in [Cameras -> Seq(E)]
    <3>1. << >> \in Seq(E)
      OBVIOUS
    <3> QED
      BY <2>1, <2>4, <3>1
  <2> QED
    BY <2>3, <2>5 DEF E
<1>5. /\ stage' \in [Cameras -> {"idle", "lookup", "alert", "sighting", "store"}]
      /\ read' \in [Cameras -> PlateRead \cup {None}]
      /\ last' \in [Cameras -> {"none", "repeated", "recorded"}]
      /\ alertId' \in [Cameras -> AlertIds \cup {None, Uuid}]
      /\ UNCHANGED <<alertRows, lists>>
  BY <1>1 DEF Restart, OwnTypes, Goto
<1> QED
  BY <1>1, <1>2, <1>3, <1>4, <1>5 DEF OwnTypes, lists

LEMMA ReadTypes ==
    ASSUME IInv, NEW c \in Cameras, NEW p \in Plates, NEW sure \in BOOLEAN,
           NEW now \in Times, PlateIsRead(c, p, sure, now)
    PROVE  OwnTypes'
<1>1. OwnTypes
  BY DEF IInv
<1> DEFINE r == [plate |-> p, sure |-> sure, now |-> now,
                 listed |-> p \in apiList, faults |-> faults]
<1>2. r \in PlateRead
  BY <1>1 DEF OwnTypes, PlateRead
<1>3. read' = [read EXCEPT ![c] = r] /\ stage' = [stage EXCEPT ![c] = "lookup"]
      /\ UNCHANGED <<engine, session, last, alertId, alertRows, lists, faults>>
  BY DEF PlateIsRead, Goto
<1> HIDE DEF r
<1> QED
  BY <1>1, <1>2, <1>3 DEF OwnTypes, lists, engine

LEMMA OutsideTypes ==
    ASSUME IInv,
           \/ \E c \in Cameras, p \in Plates : IncidentAlert(c, p)
           \/ \E p \in Plates : EditList(p)
           \/ ApiRestart
    PROVE  OwnTypes'
<1>1. OwnTypes
  BY DEF IInv
<1>2. /\ UNCHANGED <<engine, session, stage, read, last, alertId, table, faults>>
      /\ apiList' \subseteq Plates
  BY <1>1, PipelineConstants
     DEF IncidentAlert, EditList, ApiRestart, OwnTypes, lists
<1>3. alertRows' \in Seq(AlertRow) /\ Len(alertRows') <= MaxAlerts
  <2>1. \/ alertRows' = alertRows
        \/ \E x \in AlertRow : /\ Len(alertRows) < MaxAlerts
                               /\ alertRows' = Append(alertRows, x)
    BY DEF IncidentAlert, EditList, ApiRestart, AlertRow
  <2> QED
    BY <1>1, <2>1, InsertTypes DEF OwnTypes
<1> QED
  BY <1>1, <1>2, <1>3 DEF OwnTypes, engine

-----------------------------------------------------------------------------
(* The invariant.                                                          *)

LEMMA InitIInv == Init => IInv
<1> SUFFICES ASSUME Init PROVE IInv
  OBVIOUS
<1>1. JP!IInv
  <2>1. JP!Init
    BY SameInit DEF Init
  <2> QED
    BY <2>1, CorrelatorAssumptions, JP!InitIInv DEF JP!ConstantsOK, JP!SeedsSpaced
<1>2. OwnTypes
  <2>1. faults \in 0 .. MaxFaults /\ apiList \subseteq Plates
    BY PipelineConstants DEF Init
  <2>2. alertRows \in Seq(AlertRow) /\ Len(alertRows) <= MaxAlerts
    BY PipelineConstants DEF Init
  <2>3. raised \in [Cameras -> Seq([plate : Plates, time : Times])]
    BY DEF Init
  <2> QED
    BY <2>1, <2>2, <2>3 DEF Init, OwnTypes, Provider
<1>3. \A c \in Cameras : Local(c)
  <2> SUFFICES ASSUME NEW c \in Cameras PROVE Local(c)
    OBVIOUS
  <2>1. pc[c] = "idle" /\ stage[c] = "idle" /\ raised[c] = << >>
        /\ session[c] = "clean"
    BY DEF Init, J!Init
  <2> QED
    BY <2>1 DEF Local, Placed, Cooled, Spaced, Awaited, Seen, Repaired
<1> QED
  BY <1>1, <1>2, <1>3 DEF IInv

\* Whoever takes a step, no camera loses what is said of it.
LEMMA StepKeeps ==
    ASSUME IInv, [Next]_vars
    PROVE  OwnTypes' /\ (\A c \in Cameras : Local(c)') /\ RowsKept
<1>1. ASSUME NEW c \in Cameras,
             OwnTypes', Local(c)' /\ Others(c) /\ RowsKept
      PROVE  OwnTypes' /\ (\A d \in Cameras : Local(d)') /\ RowsKept
  BY <1>1, KeepLocal DEF IInv, Others
<1>2. CASE \E c \in Cameras :
             \E p \in Plates, sure \in BOOLEAN, now \in Times :
                 PlateIsRead(c, p, sure, now)
  BY <1>1, <1>2, PlateIsReadLocal, ReadTypes
<1>3. CASE \E c \in Cameras : Lookup(c) \/ LookupFails(c)
  BY <1>1, <1>3, LookupLocal, LookupTypes
<1>4. CASE \E c \in Cameras : RaiseStored(c) \/ RaiseUnread(c) \/ RaiseUnstored(c)
  BY <1>1, <1>4, RaisedLocal, RaisedTypes
<1>5. CASE \E c \in Cameras : \E t \in Times : Repeated(c, t) \/ Sighted(c, t)
  BY <1>1, <1>5, RepeatedLocal, SightedLocal, SightingTypes
<1>6. CASE \E c \in Cameras : Query(c) \/ Commit(c) \/ StoreFails(c)
  BY <1>1, <1>6, QueryLocal, StoredLocal, SightingTypes
<1>7. CASE \E c \in Cameras : Restart(c)
  BY <1>1, <1>7, RestartLocal, RestartTypes
<1>8. CASE \/ \E c \in Cameras, p \in Plates : IncidentAlert(c, p)
           \/ \E p \in Plates : EditList(p)
           \/ ApiRestart
  BY <1>8, OutsideLocal, OutsideTypes
<1>9. CASE UNCHANGED vars
  <2>1. OwnTypes'
    BY <1>9 DEF IInv, OwnTypes, vars, engine, lists
  <2>2. (\A c \in Cameras : View(c)' = View(c)) /\ RowsKept
    BY <1>9 DEF View, vars, engine, correlator, RowsKept
  <2> QED
    BY <2>1, <2>2, KeepLocal DEF IInv
<1> QED
  BY <1>2, <1>3, <1>4, <1>5, <1>6, <1>7, <1>8, <1>9 DEF Next

LEMMA StepIInv == IInv /\ [Next]_vars => IInv'
<1> SUFFICES ASSUME IInv, [Next]_vars PROVE IInv'
  OBVIOUS
<1>1. JP!IInv'
  BY StepCorrelates, CorrelatorAssumptions, JP!StepIInv
     DEF IInv, JP!ConstantsOK, JP!SeedsSpaced
<1>2. OwnTypes' /\ (\A c \in Cameras : Local(c)')
  BY StepKeeps
<1> QED
  BY <1>1, <1>2 DEF IInv

LEMMA Invariance == Spec => []IInv
BY InitIInv, StepIInv, PTL DEF Spec

-----------------------------------------------------------------------------
(* The theorems.                                                           *)

\* Every variable keeps its type (on_frame and what it calls).
THEOREM TypeCorrect == Spec => []TypeOK
<1>1. IInv => TypeOK
  BY SameTypes DEF IInv, JP!IInv, OwnTypes, TypeOK
<1> QED
  BY <1>1, Invariance, PTL

\* The cooldown of AlertEngine.process holds between any two alerts of a plate
\* one process raises, however many of their commits and refreshes fail.
THEOREM AlertSpacingHolds == Spec => []AlertSpacing
<1>1. IInv => AlertSpacing
  BY DEF IInv, Local, Spaced, AlertSpacing
<1> QED
  BY <1>1, Invariance, PTL

\* A plate a process alerted is among its sightings as soon as on_frame is done
\* with the read, whatever the database refused.
THEOREM AlertedHasSightingHolds == Spec => []AlertedHasSighting
<1>1. IInv => AlertedHasSighting
  <2> SUFFICES ASSUME IInv, NEW c \in Cameras
               PROVE  LET done == IF stage[c] = "sighting" /\ alertId[c] # None
                                  THEN 1 .. (Len(raised[c]) - 1)
                                  ELSE DOMAIN raised[c]
                      IN \A i \in done : \E k \in DOMAIN segments[c] :
                             segments[c][k].plate = raised[c][i].plate
    BY DEF AlertedHasSighting
  <2>1. Seen(c)
    BY DEF IInv, Local
  <2>2. DOMAIN raised[c] = 1 .. Len(raised[c]) /\ Len(raised[c]) \in Nat
    BY DEF IInv, OwnTypes
  <2> QED
    BY <2>1, <2>2 DEF Seen, Sighting
<1> QED
  BY <1>1, Invariance, PTL

\* The rollback of the correlator's _persist repairs the session whichever of
\* watchlist, alert engine and correlator broke it.
THEOREM FailedOnlyAfterRepetitionHolds == Spec => []FailedOnlyAfterRepetition
<1>1. IInv => FailedOnlyAfterRepetition
  BY DEF IInv, Local, Repaired, FailedOnlyAfterRepetition
<1> QED
  BY <1>1, Invariance, PTL

\* The pipeline uses the correlator as the correlator specifies: every
\* behaviour of on_frame is one of JourneyCorrelator.
THEOREM ImplementsCorrelator == Spec => JP!Spec
<1>1. Init => JP!Init
  BY SameInit DEF Init
<1> QED
  BY <1>1, StepCorrelates, Invariance, PTL DEF Spec, JP!Spec

\* So the dedup window of the correlator holds in a pipeline that shares its
\* session with the watchlist and the alert engine.
THEOREM PipelineSpacing == Spec => []JP!Spacing
<1>1. JP!Spec => []JP!Spacing
  BY CorrelatorAssumptions, JP!SpacingHolds DEF JP!ConstantsOK, JP!SeedsSpaced
<1> QED
  BY <1>1, ImplementsCorrelator, PTL

\* And so does what the correlator keeps of a journey in memory and in its rows,
\* though each of the three users may leave the session failed for the others.
THEOREM PipelineJourneys ==
    Spec => [](/\ JP!SummaryMatchesSegments /\ JP!SoleWriterRowCovers
               /\ JP!OneRowPerPipeline /\ JP!RepeatsOnlyAcrossRestarts)
<1>1. JP!Spec => []JP!SummaryMatchesSegments
  BY CorrelatorAssumptions, JP!SummaryMatchesSegmentsHolds DEF JP!ConstantsOK, JP!SeedsSpaced
<1>2. JP!Spec => []JP!SoleWriterRowCovers
  BY CorrelatorAssumptions, JP!SoleWriterRowCoversHolds DEF JP!ConstantsOK, JP!SeedsSpaced
<1>3. JP!Spec => []JP!OneRowPerPipeline
  BY CorrelatorAssumptions, JP!OneRowPerPipelineHolds DEF JP!ConstantsOK, JP!SeedsSpaced
<1>4. JP!Spec => []JP!RepeatsOnlyAcrossRestarts
  BY CorrelatorAssumptions, JP!RepeatsOnlyAcrossRestartsHolds DEF JP!ConstantsOK, JP!SeedsSpaced
<1> QED
  BY <1>1, <1>2, <1>3, <1>4, ImplementsCorrelator, PTL

-----------------------------------------------------------------------------
(* What is true of MatchAlerts: only an earlier fault hides a listed plate.  *)

\* A plate the engine has on its list, read with enough confidence and never
\* alerted, passes without an alert in a process that asks the database and after a
\* statement failed.
Missed(c) ==
    Passed(c) /\ read[c].plate \in Listed(c) => provider[c] = "database" /\ faults > 0
MissedOnlyByFault == \A c \in Cameras : Missed(c)

\* A session is in need of a rollback only after a statement failed.
Broken(c) == session[c] = "failed" => faults > 0

MissInv == \A c \in Cameras : Broken(c) /\ Missed(c)

\* What the two say of a camera that is not at work.
Bystander(c) ==
    /\ provider'[c] = provider[c] /\ recent'[c] = recent[c]
    /\ session'[c] = session[c] /\ stage'[c] = stage[c]
    /\ read'[c] = read[c] /\ alertId'[c] = alertId[c]

LEMMA BystanderKept ==
    ASSUME NEW c, Broken(c), Missed(c), Bystander(c), table' = table,
           faults \in Nat, faults' \in Nat, faults' >= faults
    PROVE  Broken(c)' /\ Missed(c)'
BY DEF Broken, Missed, Bystander, Passed, Listed

\* It is enough to look at the camera at work.
LEMMA OneAtWork ==
    ASSUME MissInv, NEW c \in Cameras, \A d \in Cameras \ {c} : Bystander(d),
           table' = table, faults \in Nat, faults' \in Nat, faults' >= faults,
           Broken(c)', Missed(c)'
    PROVE  MissInv'
<1> SUFFICES ASSUME NEW d \in Cameras
             PROVE  Broken(d)' /\ Missed(d)'
  BY DEF MissInv
<1>1. CASE d = c
  BY <1>1
<1>2. CASE d # c
  BY <1>2, BystanderKept DEF MissInv
<1> QED
  BY <1>1, <1>2

LEMMA FaultNumbers ==
    ASSUME OwnTypes, OwnTypes'
    PROVE  /\ faults \in Nat /\ faults' \in Nat
           /\ Fault => faults' >= faults /\ faults' > 0
           /\ UNCHANGED faults => faults' >= faults
BY PipelineConstants DEF OwnTypes, Fault

\* An answer that the plate is on the list is heeded.
LEMMA LookupMisses ==
    ASSUME IInv, OwnTypes', MissInv, NEW c \in Cameras, Lookup(c) \/ LookupFails(c)
    PROVE  MissInv'
<1>1. /\ faults \in Nat /\ faults' \in Nat /\ faults' >= faults
      /\ session[c] = "failed" => faults > 0
  BY FaultNumbers DEF IInv, MissInv, Broken, Lookup, LookupFails, NoFault
<1>2. /\ UNCHANGED <<provider, recent, read, table>>
  BY DEF Lookup, LookupFails, engine, lists
<1>3. /\ stage \in [Cameras -> {"idle", "lookup", "alert", "sighting", "store"}]
      /\ alertId \in [Cameras -> AlertIds \cup {None, Uuid}]
      /\ session \in [Cameras -> {"clean", "failed"}]
  BY DEF IInv, OwnTypes
<1>4. \A d \in Cameras \ {c} : Bystander(d)
  BY <1>2, <1>3 DEF Lookup, LookupFails, Decide, Goto, Bystander
<1>5. CASE Lookup(c)
  <2>1. session'[c] = session[c] /\ faults' = faults
    BY <1>5 DEF Lookup
  <2>2. Broken(c)'
    BY <1>1, <2>1 DEF Broken
  <2>3. Missed(c)'
    <3>1. Decide(c, read[c].plate \in Listed(c))
      BY <1>5 DEF Lookup
    <3>2. Passed(c)' => ~(read[c].plate \in Listed(c))
      BY <1>2, <1>3, <3>1 DEF Decide, Goto, Passed, Recent
    <3>3. Listed(c)' = Listed(c)
      BY <1>2 DEF Listed
    <3> QED
      BY <1>2, <3>2, <3>3 DEF Missed
  <2> QED
    BY <1>1, <1>2, <1>4, <2>2, <2>3, OneAtWork
<1>6. CASE LookupFails(c)
  <2>1. faults' > 0 /\ provider'[c] = "database"
    BY <1>1, <1>2, <1>6, FaultNumbers DEF LookupFails, NoFault, IInv
  <2>2. Broken(c)' /\ Missed(c)'
    BY <2>1 DEF Broken, Missed
  <2> QED
    BY <1>1, <1>2, <1>4, <2>2, OneAtWork
<1> QED
  BY <1>5, <1>6

LEMMA RaiseMisses ==
    ASSUME IInv, OwnTypes', MissInv, NEW c \in Cameras,
           RaiseStored(c) \/ RaiseUnread(c) \/ RaiseUnstored(c)
    PROVE  MissInv'
<1>1. /\ faults \in Nat /\ faults' \in Nat /\ faults' >= faults
      /\ session[c] = "failed" => faults > 0
  BY FaultNumbers
     DEF IInv, MissInv, Broken, RaiseStored, RaiseUnread, RaiseUnstored, NoFault
<1>2. /\ UNCHANGED <<provider, read, table>>
  BY DEF RaiseStored, RaiseUnread, RaiseUnstored, lists
<1>3. PICK id \in AlertIds \cup {Uuid} : Raise(c, id)
  <2>1. Len(alertRows) \in Nat /\ MaxAlerts \in Nat
    BY PipelineConstants DEF IInv, OwnTypes
  <2>2. RaiseStored(c) => Len(alertRows) + 1 \in AlertIds
    BY <2>1 DEF RaiseStored, InsertAlert, AlertIds
  <2> QED
    BY <2>2 DEF RaiseStored, RaiseUnread, RaiseUnstored
<1>4. /\ stage \in [Cameras -> {"idle", "lookup", "alert", "sighting", "store"}]
      /\ alertId \in [Cameras -> AlertIds \cup {None, Uuid}]
      /\ session \in [Cameras -> {"clean", "failed"}]
      /\ recent \in [Cameras -> [Plates -> Times \cup {None}]]
  BY DEF IInv, OwnTypes
<1>5. \A d \in Cameras \ {c} : session'[d] = session[d]
  BY <1>4 DEF RaiseStored, RaiseUnread, RaiseUnstored
<1>6. \A d \in Cameras \ {c} : Bystander(d)
  BY <1>2, <1>3, <1>4, <1>5 DEF Raise, Goto, Bystander
<1>7. Missed(c)'
  <2>1. alertId'[c] = id /\ id # None
    BY <1>3, <1>4, AlertIdFacts DEF Raise
  <2> QED
    BY <2>1 DEF Missed, Passed
<1>8. Broken(c)'
  <2>1. session'[c] = session[c] \/ Fault
    BY DEF RaiseStored, RaiseUnread, RaiseUnstored
  <2>2. Fault => faults' > 0
    BY FaultNumbers DEF IInv
  <2> QED
    BY <1>1, <2>1, <2>2 DEF Broken
<1> QED
  BY <1>1, <1>2, <1>6, <1>7, <1>8, OneAtWork

\* Any other step of a camera leaves it where nothing can have passed.
LEMMA ElsewhereMisses ==
    ASSUME IInv, OwnTypes', MissInv, NEW c \in Cameras,
           \/ \E p \in Plates, sure \in BOOLEAN, now \in Times :
                 PlateIsRead(c, p, sure, now)
           \/ \E t \in Times : Repeated(c, t) \/ Sighted(c, t)
           \/ Query(c) \/ Commit(c) \/ StoreFails(c) \/ Restart(c)
    PROVE  MissInv'
<1>1. faults \in Nat /\ faults' \in Nat /\ faults' >= faults
  BY FaultNumbers
     DEF IInv, PlateIsRead, Repeated, Sighted, Query, Commit, StoreFails, Restart, NoFault
<1>2. table' = table
  BY DEF PlateIsRead, Repeated, Sighted, Query, Commit, StoreFails, Restart, lists
<1>3. /\ provider \in [Cameras -> {"database", "synthetic"}]
      /\ recent \in [Cameras -> [Plates -> Times \cup {None}]]
      /\ session \in [Cameras -> {"clean", "failed"}]
      /\ stage \in [Cameras -> {"idle", "lookup", "alert", "sighting", "store"}]
      /\ read \in [Cameras -> PlateRead \cup {None}]
      /\ alertId \in [Cameras -> AlertIds \cup {None, Uuid}]
  BY DEF IInv, OwnTypes
<1>4. \A d \in Cameras \ {c} : Bystander(d)
  BY <1>3 DEF PlateIsRead, Repeated, Sighted, Query, Commit, StoreFails, Restart, Done,
              Goto, RolledBack, engine, Bystander
<1>5. stage'[c] # "sighting"
  BY <1>3 DEF PlateIsRead, Repeated, Sighted, Query, Commit, StoreFails, Restart, Done, Goto
<1>6. \/ session'[c] = session[c] \/ session'[c] = "clean" \/ Fault
  BY <1>3 DEF PlateIsRead, Repeated, Sighted, Query, Commit, StoreFails, Restart, RolledBack
<1>7. Broken(c)'
  <2>1. Fault => faults' > 0
    BY FaultNumbers DEF IInv
  <2> QED
    BY <1>1, <1>6, <2>1 DEF Broken, MissInv
<1>8. Missed(c)'
  BY <1>5 DEF Missed, Passed
<1> QED
  BY <1>1, <1>2, <1>4, <1>7, <1>8, OneAtWork

LEMMA OutsideMisses ==
    ASSUME MissInv, UNCHANGED <<engine, session, stage, read, alertId, table, faults>>
    PROVE  MissInv'
BY DEF MissInv, Broken, Missed, Passed, Listed, engine

LEMMA InitMissInv == Init => MissInv
BY DEF Init, MissInv, Broken, Missed, Passed

LEMMA StepMissInv == IInv /\ IInv' /\ MissInv /\ [Next]_vars => MissInv'
<1> SUFFICES ASSUME IInv, OwnTypes', MissInv, [Next]_vars
             PROVE  MissInv'
  BY DEF IInv
<1>1. CASE \E c \in Cameras : Lookup(c) \/ LookupFails(c)
  BY <1>1, LookupMisses
<1>2. CASE \E c \in Cameras : RaiseStored(c) \/ RaiseUnread(c) \/ RaiseUnstored(c)
  BY <1>2, RaiseMisses
<1>3. CASE \E c \in Cameras :
             \/ \E p \in Plates, sure \in BOOLEAN, now \in Times :
                   PlateIsRead(c, p, sure, now)
             \/ \E t \in Times : Repeated(c, t) \/ Sighted(c, t)
             \/ Query(c) \/ Commit(c) \/ StoreFails(c) \/ Restart(c)
  BY <1>3, ElsewhereMisses
<1>4. CASE \/ \E c \in Cameras : \E p \in Plates : IncidentAlert(c, p)
           \/ \E p \in Plates : EditList(p)
           \/ ApiRestart
           \/ UNCHANGED vars
  <2>1. UNCHANGED <<engine, session, stage, read, alertId, table, faults>>
    BY <1>4 DEF IncidentAlert, EditList, ApiRestart, lists, vars
  <2> QED
    BY <2>1, OutsideMisses
<1> QED
  BY <1>1, <1>2, <1>3, <1>4 DEF Next

\* MatchAlerts as far as it holds: with the demo list no listed plate is missed, and
\* with the table none before the first fault, alerts and sightings of other cameras
\* and restarts notwithstanding.
THEOREM MissedOnlyByFaultHolds == Spec => []MissedOnlyByFault
<1>1. MissInv => MissedOnlyByFault
  BY DEF MissInv, MissedOnlyByFault
<1> QED
  BY <1>1, InitMissInv, StepMissInv, Invariance, PTL DEF Spec

-----------------------------------------------------------------------------
(* What is true of SightingsStored: a loss has a fault or a key behind it.   *)

\* Nothing has failed, and no id an alert has got could be refused.
Undisturbed == faults = 0 /\ (\A i \in DOMAIN alertRows : Citable(i))

\* The camera's session is usable, the id it hands on would be accepted, and its
\* sightings are stored but for the one its call is storing.
Kept(c) ==
    /\ session[c] = "clean"
    /\ stage[c] \in {"sighting", "store"} => Citable(alertId[c])
    /\ \A k \in DOMAIN segments[c] :
         k > Len(Seeds) => \/ Stored(c, k)
                           \/ stage[c] = "store" /\ k = Len(segments[c])

LostInv == Undisturbed => \A c \in Cameras : Kept(c)

\* A camera no step but its own touches keeps this: the table only grows.
SameKept(c) ==
    /\ session'[c] = session[c] /\ stage'[c] = stage[c]
    /\ alertId'[c] = alertId[c] /\ segments'[c] = segments[c]
    /\ epoch'[c] = epoch[c]

LEMMA KeptByOthers ==
    ASSUME NEW c, Kept(c), SameKept(c), segRows \subseteq segRows'
    PROVE  Kept(c)'
BY DEF Kept, SameKept, Stored, Citable

\* It is enough to look at the camera at work, and only while all is well.
LEMMA OneKept ==
    ASSUME LostInv, NEW c \in Cameras, Undisturbed' => Undisturbed,
           \A d \in Cameras \ {c} : SameKept(d), segRows \subseteq segRows',
           Undisturbed /\ Undisturbed' /\ Kept(c) => Kept(c)'
    PROVE  LostInv'
<1> SUFFICES ASSUME Undisturbed', NEW d \in Cameras
             PROVE  Kept(d)'
  BY DEF LostInv
<1>1. Kept(d) /\ Kept(c) /\ Undisturbed
  BY DEF LostInv
<1>2. CASE d = c
  BY <1>1, <1>2
<1>3. CASE d # c
  BY <1>1, <1>3, KeptByOthers
<1> QED
  BY <1>2, <1>3

\* Neither a fault nor the row of an alert is ever taken back.
LEMMA UndisturbedBefore ==
    ASSUME OwnTypes, OwnTypes', RowsKept, Fault \/ NoFault
    PROVE  Undisturbed' => Undisturbed /\ NoFault /\ ~Fault
<1>1. faults \in Nat /\ faults' \in Nat /\ faults' = faults + (IF NoFault THEN 0 ELSE 1)
  BY PipelineConstants DEF OwnTypes, Fault, NoFault
<1>2. Undisturbed' => faults = 0 /\ NoFault /\ ~Fault
  BY <1>1 DEF Undisturbed, NoFault, Fault
<1>3. Undisturbed' => \A i \in DOMAIN alertRows : Citable(i)
  BY DEF Undisturbed, RowsKept, Citable
<1> QED
  BY <1>2, <1>3 DEF Undisturbed

\* The alert engine leaves the memory and the tables of the correlator alone.
LEMMA EngineKept ==
    ASSUME IInv, OwnTypes', LostInv, NEW c \in Cameras, RowsKept, NEW p, NEW sure, NEW now,
           \/ PlateIsRead(c, p, sure, now)
           \/ Lookup(c) \/ LookupFails(c)
           \/ RaiseStored(c) \/ RaiseUnread(c) \/ RaiseUnstored(c)
    PROVE  LostInv'
<1>1. Fault \/ NoFault
  BY DEF PlateIsRead, Lookup, LookupFails, RaiseStored, RaiseUnread, RaiseUnstored, NoFault
<1>2. Undisturbed' => Undisturbed /\ NoFault /\ ~Fault
  BY <1>1, UndisturbedBefore DEF IInv
<1>3. UNCHANGED <<segments, epoch, segRows>>
  BY DEF PlateIsRead, Lookup, LookupFails, RaiseStored, RaiseUnread, RaiseUnstored,
         correlator
<1>4. /\ stage \in [Cameras -> {"idle", "lookup", "alert", "sighting", "store"}]
      /\ alertId \in [Cameras -> AlertIds \cup {None, Uuid}]
      /\ session \in [Cameras -> {"clean", "failed"}]
  BY DEF IInv, OwnTypes
<1>5. \A d \in Cameras \ {c} : SameKept(d)
  <2>1. \A d \in Cameras \ {c} : session'[d] = session[d]
    BY <1>4 DEF PlateIsRead, Lookup, LookupFails, RaiseStored, RaiseUnread, RaiseUnstored
  <2>2. \A d \in Cameras \ {c} : stage'[d] = stage[d] /\ alertId'[d] = alertId[d]
    BY <1>4
       DEF PlateIsRead, Lookup, LookupFails, RaiseStored, RaiseUnread, RaiseUnstored,
           Decide, Raise, Goto
  <2> QED
    BY <1>3, <2>1, <2>2 DEF SameKept
<1>6. ASSUME Undisturbed, Undisturbed', Kept(c)
      PROVE  Kept(c)'
  <2>1. session[c] = "clean" /\ ~Fault
    BY <1>2, <1>6 DEF Kept
  <2>2. \/ PlateIsRead(c, p, sure, now) \/ Lookup(c) \/ RaiseStored(c)
    BY <2>1 DEF LookupFails, RaiseUnread, RaiseUnstored
  <2>3. session'[c] = "clean"
    BY <2>1, <2>2 DEF PlateIsRead, Lookup, RaiseStored
  <2>4. stage'[c] \in {"sighting", "store"} => Citable(alertId'[c])
    <3>1. CASE PlateIsRead(c, p, sure, now)
      BY <1>4, <3>1 DEF PlateIsRead, Goto
    <3>2. CASE Lookup(c)
      BY <1>4, <3>2 DEF Lookup, Decide, Goto, Citable
    <3>3. CASE RaiseStored(c)
      <4>1. alertId'[c] = Len(alertRows) + 1
        BY <1>4, <3>3 DEF RaiseStored, Raise
      <4>2. Len(alertRows) + 1 \in DOMAIN alertRows'
        BY <3>3, InsertFacts DEF RaiseStored, InsertAlert, IInv
      <4> QED
        BY <1>6, <4>1, <4>2 DEF Undisturbed, Citable
    <3> QED
      BY <2>2, <3>1, <3>2, <3>3
  <2>5. stage[c] # "store"
    BY <2>2 DEF PlateIsRead, Lookup, RaiseStored
  <2> QED
    BY <1>3, <1>6, <2>3, <2>4, <2>5 DEF Kept, Stored, Citable
<1> QED
  BY <1>2, <1>3, <1>5, <1>6, OneKept

\* A new sighting is the last of the list, and its commit stores it.
LEMMA SightingKept ==
    ASSUME IInv, OwnTypes', LostInv, NEW c \in Cameras, RowsKept,
           \/ \E t \in Times : Repeated(c, t) \/ Sighted(c, t)
           \/ Query(c) \/ Commit(c) \/ StoreFails(c)
    PROVE  LostInv'
<1>1. Fault \/ NoFault
  BY DEF Repeated, Sighted, Query, Commit, StoreFails, NoFault
<1>2. Undisturbed' => Undisturbed /\ NoFault /\ ~Fault
  BY <1>1, UndisturbedBefore DEF IInv
<1>3. /\ stage \in [Cameras -> {"idle", "lookup", "alert", "sighting", "store"}]
      /\ session \in [Cameras -> {"clean", "failed"}]
      /\ segments \in [Cameras -> Seq(J!Segment)]
      /\ pc \in [Cameras -> {"idle", "query", "commit"}]
  BY CallFacts DEF IInv, OwnTypes
<1>4. /\ UNCHANGED <<alertId, epoch>> /\ segRows \subseteq segRows'
  BY DEF Repeated, Sighted, Query, Commit, StoreFails, correlator, J!AddSighting,
         J!PersistQuery, J!PersistCommit, J!PersistFail
<1>5. \A d \in Cameras \ {c} : SameKept(d)
  <2>1. \A d \in Cameras \ {c} : session'[d] = session[d]
    BY <1>3 DEF Repeated, Sighted, Query, Commit, StoreFails, RolledBack
  <2>2. \A d \in Cameras \ {c} : stage'[d] = stage[d]
    BY <1>3 DEF Repeated, Sighted, Query, Commit, StoreFails, Done, Goto
  <2>3. \A d \in Cameras \ {c} : segments'[d] = segments[d]
    BY <1>3 DEF Repeated, Sighted, Query, Commit, StoreFails, correlator, J!AddSighting,
                J!PersistQuery, J!PersistCommit, J!PersistFail
  <2> QED
    BY <1>4, <2>1, <2>2, <2>3 DEF SameKept
<1>6. ASSUME Undisturbed, Undisturbed', Kept(c)
      PROVE  Kept(c)'
  <2>1. session[c] = "clean" /\ ~Fault
    BY <1>2, <1>6 DEF Kept
  <2>2. CASE \E t \in Times : Repeated(c, t)
    BY <1>3, <1>4, <1>6, <2>2
       DEF Repeated, Done, Goto, correlator, Kept, Stored, Citable
  <2>3. CASE \E t \in Times : Sighted(c, t)
    <3>1. PICK t \in Times : Sighted(c, t)
      BY <2>3
    <3> DEFINE seg == [plate |-> read[c].plate, camera |-> c, time |-> t]
    <3>2. /\ stage[c] = "sighting" /\ stage'[c] = "store"
          /\ UNCHANGED <<session, segRows>>
          /\ segments'[c] = Append(segments[c], seg)
      BY <1>3, <3>1 DEF Sighted, Goto, J!AddSighting
    <3>3. seg \in J!Segment /\ segments[c] \in Seq(J!Segment)
      BY <1>3, <3>1, <3>2 DEF IInv, Local, Placed, PlateRead, J!Segment, J!Times, Times
    <3> HIDE DEF seg
    <3>4. ASSUME NEW k \in DOMAIN segments'[c], k > Len(Seeds), k # Len(segments'[c])
          PROVE  Stored(c, k)'
      <4>1. k \in DOMAIN segments[c] /\ segments'[c][k] = segments[c][k]
        BY <3>2, <3>3, <3>4, AppendFacts
      <4> QED
        BY <1>4, <1>6, <3>2, <3>4, <4>1 DEF Kept, Stored
    <3> QED
      BY <1>4, <1>6, <2>1, <3>2, <3>4 DEF Kept, Citable
  <2>4. CASE Query(c)
    BY <1>4, <1>6, <2>4 DEF Query, J!PersistQuery, Kept, Stored, Citable
  <2>5. CASE Commit(c)
    <3>1. /\ stage[c] = "store" /\ stage'[c] = "idle" /\ UNCHANGED <<session, segments>>
          /\ pc[c] = "commit"
          /\ \E i : segRows' = segRows \cup
                 {[row |-> i, seg |-> pending[c], epoch |-> epoch[c]]}
      BY <1>3, <2>5 DEF Commit, Done, Goto, J!PersistCommit
    <3>2. pending[c] = segments[c][Len(segments[c])]
      BY <3>1 DEF IInv, JP!IInv, JP!CallInv
    <3>3. \E r \in segRows' :
              r.seg = segments[c][Len(segments[c])] /\ r.epoch = epoch[c]
      <4>1. PICK i : segRows' = segRows \cup
                 {[row |-> i, seg |-> pending[c], epoch |-> epoch[c]]}
        BY <3>1
      <4> DEFINE new == [row |-> i, seg |-> pending[c], epoch |-> epoch[c]]
      <4>2. new.seg = pending[c] /\ new.epoch = epoch[c]
        OBVIOUS
      <4>3. new \in segRows'
        BY <4>1
      <4> HIDE DEF new
      <4> QED
        BY <3>2, <4>2, <4>3
    <3>4. ASSUME NEW k \in DOMAIN segments'[c], k > Len(Seeds)
          PROVE  Stored(c, k)'
      <4>1. CASE k = Len(segments[c])
        BY <1>4, <3>1, <3>3, <4>1 DEF Stored
      <4>2. CASE k # Len(segments[c])
        BY <1>4, <1>6, <3>1, <3>4, <4>2 DEF Kept, Stored
      <4> QED
        BY <4>1, <4>2
    <3> QED
      BY <1>4, <1>6, <3>1, <3>4 DEF Kept, Citable
  <2>6. ~StoreFails(c)
    BY <1>6, <2>1 DEF StoreFails, Kept
  <2> QED
    BY <2>2, <2>3, <2>4, <2>5, <2>6
<1> QED
  BY <1>2, <1>4, <1>5, <1>6, OneKept

\* A process that starts again has recorded nothing.
LEMMA RestartKept ==
    ASSUME IInv, OwnTypes', LostInv, NEW c \in Cameras, RowsKept, Restart(c)
    PROVE  LostInv'
<1>1. Undisturbed' => Undisturbed /\ NoFault /\ ~Fault
  BY UndisturbedBefore DEF IInv, Restart
<1>2. /\ stage \in [Cameras -> {"idle", "lookup", "alert", "sighting", "store"}]
      /\ alertId \in [Cameras -> AlertIds \cup {None, Uuid}]
      /\ session \in [Cameras -> {"clean", "failed"}]
      /\ segments \in [Cameras -> Seq(J!Segment)]
      /\ epoch \in [Cameras -> Nat]
  BY CallFacts DEF IInv, OwnTypes, JP!IInv, JP!TypeOK
<1>3. segRows \subseteq segRows'
  BY DEF Restart, J!Restart
<1>4. \A d \in Cameras \ {c} : SameKept(d)
  <2>1. \A d \in Cameras \ {c} : session'[d] = session[d]
    BY <1>2 DEF Restart
  <2>2. \A d \in Cameras \ {c} : stage'[d] = stage[d] /\ alertId'[d] = alertId[d]
    BY <1>2 DEF Restart, Goto
  <2>3. \A d \in Cameras \ {c} : segments'[d] = segments[d] /\ epoch'[d] = epoch[d]
    BY <1>2 DEF Restart, J!Restart
  <2> QED
    BY <2>1, <2>2, <2>3 DEF SameKept
<1>5. ASSUME Undisturbed, Undisturbed', Kept(c)
      PROVE  Kept(c)'
  <2>1. ~Fault
    BY <1>1, <1>5
  <2>2. session'[c] = "clean" /\ stage'[c] = "idle"
    BY <1>2, <2>1 DEF Restart, Goto
  <2>3. segments'[c] = Seeds
    BY <1>2 DEF Restart, J!Restart
  <2>4. \A k \in DOMAIN Seeds : ~(k > Len(Seeds))
    BY CorrelatorConstants DEF J!ConstantsOK
  <2> QED
    BY <2>2, <2>3, <2>4 DEF Kept
<1> QED
  BY <1>1, <1>3, <1>4, <1>5, OneKept

LEMMA OutsideKept ==
    ASSUME LostInv, OwnTypes, OwnTypes', RowsKept,
           UNCHANGED <<session, stage, alertId, segments, epoch, segRows, faults>>
    PROVE  LostInv'
<1>1. Undisturbed' => Undisturbed
  BY UndisturbedBefore DEF NoFault
<1>2. ASSUME NEW c \in Cameras, Kept(c)
      PROVE  Kept(c)'
  BY <1>2, KeptByOthers DEF SameKept
<1> QED
  BY <1>1, <1>2 DEF LostInv

LEMMA InitLostInv == Init => LostInv
<1> SUFFICES ASSUME Init, NEW c \in Cameras
             PROVE  Kept(c)
  BY DEF LostInv
<1>1. segments[c] = Seeds /\ session[c] = "clean" /\ stage[c] = "idle"
  BY DEF Init, J!Init
<1>2. \A k \in DOMAIN Seeds : ~(k > Len(Seeds))
  BY CorrelatorConstants DEF J!ConstantsOK
<1> QED
  BY <1>1, <1>2 DEF Kept

LEMMA StepLostInv == IInv /\ IInv' /\ LostInv /\ [Next]_vars => LostInv'
<1> SUFFICES ASSUME IInv, OwnTypes', LostInv, [Next]_vars
             PROVE  LostInv'
  BY DEF IInv
<1>1. RowsKept
  BY StepKeeps
<1>2. CASE \E c \in Cameras :
             \/ \E p \in Plates, sure \in BOOLEAN, now \in Times :
                    PlateIsRead(c, p, sure, now)
             \/ Lookup(c) \/ LookupFails(c)
             \/ RaiseStored(c) \/ RaiseUnread(c) \/ RaiseUnstored(c)
  BY <1>1, <1>2, EngineKept
<1>3. CASE \E c \in Cameras :
             \/ \E t \in Times : Repeated(c, t) \/ Sighted(c, t)
             \/ Query(c) \/ Commit(c) \/ StoreFails(c)
  BY <1>1, <1>3, SightingKept
<1>4. CASE \E c \in Cameras : Restart(c)
  BY <1>1, <1>4, RestartKept
<1>5. CASE \/ \E c \in Cameras : \E p \in Plates : IncidentAlert(c, p)
           \/ \E p \in Plates : EditList(p)
           \/ ApiRestart
           \/ UNCHANGED vars
  <2>1. UNCHANGED <<session, stage, alertId, segments, epoch, segRows, faults>>
    BY <1>5 DEF IncidentAlert, EditList, ApiRestart, J!ApiRestart, J!pipe, correlator,
                vars
  <2> QED
    BY <1>1, <2>1, OutsideKept DEF IInv
<1> QED
  BY <1>2, <1>3, <1>4, <1>5 DEF Next

\* A sighting that on_frame recorded is missing in the database only after a
\* statement failed, or when an alert's id has no row in detection_events: restarts,
\* repetitions and the other pipelines lose none.
THEOREM LostOnlyByFaultOrKeyHolds == Spec => []LostOnlyByFaultOrKey
<1>1. LostInv => LostOnlyByFaultOrKey
  BY DEF LostInv, Undisturbed, Kept, LostOnlyByFaultOrKey, AllStored
<1> QED
  BY <1>1, InitLostInv, StepLostInv, Invariance, PTL DEF Spec

=============================================================================
