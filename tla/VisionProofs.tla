---------------------------- MODULE VisionProofs ----------------------------
(***************************************************************************)
(* Theorems about the two components that look at frames.                  *)
(*                                                                         *)
(* PlateReader, for every set of vehicles and plates of either format,     *)
(* every set of names, confusions, thresholds and every bound: what a look *)
(* at a plate gives (the plate itself, when its length was read and the    *)
(* correction takes every misreading back), and that the reader hands this *)
(* on to the vehicle it looked at, unless a name stands for several.       *)
(*                                                                         *)
(* IncidentAnalyzer, for every number of threads and every bound of the    *)
(* counters: in which frame a simulated collision that runs alone is       *)
(* reported.  The inductive invariant follows such a call frame by frame:  *)
(* where its tracks are, how fast they have been, what is left of the      *)
(* standstill, and how far the count of the pair has come.                 *)
(***************************************************************************)
EXTENDS PlateReader, IncidentAnalyzer, TLAPS, SequenceTheorems

-----------------------------------------------------------------------------
(* Characters: where the tables lead back from, they lead to the plate.    *)

\* A letter of a plate whose misreading is taken back is corrected to itself.
LEMMA LetterComesBack ==
    ASSUME NEW ch \in Letter, NEW seen, TakenBack(ch, seen)
    PROVE  Corrected(seen, digit_to_letter) = ch
<1>1. ch \notin Digit /\ ch \notin DOMAIN digit_to_letter
  BY DEF Letter, Digit, digit_to_letter
<1> QED
  BY <1>1 DEF TakenBack, Corrected

\* So is a digit.
LEMMA DigitComesBack ==
    ASSUME NEW ch \in Digit, NEW seen, TakenBack(ch, seen)
    PROVE  Corrected(seen, letter_to_digit) = ch
<1>1. DOMAIN letter_to_digit = {"O", "Q", "D", "I", "L", "Z", "S", "B"}
  BY DEF letter_to_digit
<1>2. ch \notin Letter /\ ch \notin DOMAIN letter_to_digit
  BY <1>1 DEF Letter, Digit
<1> QED
  BY <1>2 DEF TakenBack, Corrected

LEMMA SeenAreChars ==
    ASSUME NEW ch \in Char
    PROVE  SeenAs(ch) \subseteq Char /\ ch \in SeenAs(ch)
BY ReaderConstants DEF SeenAs

-----------------------------------------------------------------------------
(* Texts.                                                                  *)

\* What the OCR may see on a text: as many characters, each seen as it may be.
LEMMA MisreadIsPointwise ==
    ASSUME NEW text \in Seq(Char), NEW x \in Misread(text)
    PROVE  /\ x \in Seq(Char) /\ Len(x) = Len(text)
           /\ \A i \in 1 .. Len(text) : x[i] \in SeenAs(text[i])
<1> DEFINE odd == {i \in DOMAIN text : SeenAs(text[i]) # {text[i]}}
           seen == UNION {SeenAs(text[i]) : i \in odd}
<1>1. PICK pick \in [odd -> seen] :
         /\ \A i \in odd : pick[i] \in SeenAs(text[i])
         /\ x = [i \in DOMAIN text |-> IF i \in odd THEN pick[i] ELSE text[i]]
  BY DEF Misread
<1>2. DOMAIN text = 1 .. Len(text) /\ Len(text) \in Nat
  OBVIOUS
<1>3. \A i \in 1 .. Len(text) : x[i] \in SeenAs(text[i])
  <2> SUFFICES ASSUME NEW i \in 1 .. Len(text) PROVE x[i] \in SeenAs(text[i])
    OBVIOUS
  <2>1. text[i] \in SeenAs(text[i])
    BY SeenAreChars
  <2> QED
    BY <1>1, <1>2, <2>1
<1>4. \A i \in 1 .. Len(text) : x[i] \in Char
  BY <1>3, SeenAreChars
<1>5. x \in [1 .. Len(text) -> Char]
  BY <1>1, <1>2, <1>4
<1> QED
  BY <1>2, <1>3, <1>5

LEMMA NormaliseKeepsLength ==
    ASSUME NEW text \in Seq(Char)
    PROVE  Len(normalise_plate(text)) = Len(text)
<1>1. DOMAIN text = 1 .. Len(text) /\ Len(text) \in Nat
  OBVIOUS
<1>2. Len(Correct(text)) = Len(text)
  BY <1>1 DEF Correct
<1> QED
  BY <1>2 DEF normalise_plate

\* A plate of which every misreading is taken back is read as it is.
LEMMA PlateComesBack ==
    ASSUME NEW v \in Vehicles, NEW x \in Misread(Plate[v]), IsUndone(v, x)
    PROVE  normalise_plate(x) = Plate[v]
<1> DEFINE text == Plate[v]
<1>1. text \in Seq(Char) /\ is_valid_plate_format(text)
  BY ReaderConstants
<1> HIDE DEF text
<1>2. /\ x \in Seq(Char) /\ Len(x) = Len(text)
      /\ \A i \in DOMAIN text : TakenBack(text[i], x[i])
  BY <1>1, MisreadIsPointwise DEF text, IsUndone
<1>3. DOMAIN text = 1 .. Len(text) /\ DOMAIN x = 1 .. Len(text)
  BY <1>1, <1>2
<1>4. ASSUME NEW i \in 1 .. Len(text)
      PROVE  Correct(x)[i] = text[i]
  <2>1. Correct(x)[i] = Corrected(x[i], IF i \in LetterAt(Len(text)) THEN digit_to_letter
                                        ELSE letter_to_digit)
    BY <1>2, <1>3 DEF Correct
  <2>2. TakenBack(text[i], x[i])
    BY <1>2, <1>3
  <2>3. CASE i \in LetterAt(Len(text))
    <3>1. text[i] \in Letter
      BY <1>1, <1>3, <2>3 DEF is_valid_plate_format
    <3> QED
      BY <2>1, <2>2, <2>3, <3>1, LetterComesBack
  <2>4. CASE i \notin LetterAt(Len(text))
    <3>1. text[i] \in Digit
      BY <1>1, <1>3, <2>4 DEF is_valid_plate_format
    <3> QED
      BY <2>1, <2>2, <2>4, <3>1, DigitComesBack
  <2> QED
    BY <2>3, <2>4
<1>5. Correct(x) = text
  <2>1. Correct(x) = [i \in 1 .. Len(text) |-> Correct(x)[i]]
    BY <1>3 DEF Correct
  <2>2. text = [i \in 1 .. Len(text) |-> text[i]]
    BY <1>1
  <2> QED
    BY <1>4, <2>1, <2>2
<1> QED
  BY <1>1, <1>5 DEF normalise_plate, text

\* Two fragments of a text, either of which may be lost, are the text again when
\* they have its length together.
LEMMA FragmentsJoin ==
    ASSUME NEW x \in Seq(Char), NEW n \in 0 .. Len(x),
           NEW first \in {SubSeq(x, 1, n), << >>},
           NEW second \in {SubSeq(x, n + 1, Len(x)), << >>}
    PROVE  /\ first \o second \in Seq(Char)
           /\ Len(first \o second) = Len(x) => first \o second = x
<1> DEFINE left == SubSeq(x, 1, n)
           right == SubSeq(x, n + 1, Len(x))
<1>1. n \in Nat /\ Len(x) \in Nat /\ n <= Len(x)
  OBVIOUS
<1>2. /\ left \in Seq(Char) /\ Len(left) = n
      /\ right \in Seq(Char) /\ Len(right) = Len(x) - n
  <2>1. \A i \in 1 .. Len(x) : x[i] \in Char
    OBVIOUS
  <2>2. \A i \in 1 .. n : x[i] \in Char
    BY <1>1, <2>1
  <2>3. \A i \in n + 1 .. Len(x) : x[i] \in Char
    BY <1>1, <2>1
  <2>4. left \in Seq(Char) /\ Len(left) = n
    BY <1>1, <2>2, SubSeqProperties
  <2>5. right \in Seq(Char) /\ Len(right) = Len(x) - n
    BY <1>1, <2>3, SubSeqProperties
  <2> QED
    BY <2>4, <2>5
<1>3. left \o right = x
  <2>1. 1 \in 1 .. Len(x) + 1 /\ n \in 1 - 1 .. Len(x) /\ Len(x) \in n .. Len(x)
    BY <1>1
  <2>2. left \o right = SubSeq(x, 1, Len(x))
    BY <2>1, ConcatAdjacentSubSeq
  <2> QED
    BY <2>2, SubSeqFull
<1> HIDE DEF left, right
<1>4. first \in {left, << >>} /\ second \in {right, << >>}
  BY DEF left, right
<1>5. << >> \in Seq(Char) /\ Len(<< >>) = 0
  OBVIOUS
<1>6. first \o second \in Seq(Char) /\ Len(first \o second) = Len(first) + Len(second)
  <2>1. first \in Seq(Char) /\ second \in Seq(Char)
    BY <1>2, <1>4, <1>5
  <2> QED
    BY <2>1, ConcatProperties
<1>7. ASSUME NEW s \in Seq(Char), Len(s) = 0 PROVE s = << >>
  BY <1>7
<1>8. ASSUME Len(first) + Len(second) = Len(x) PROVE first = left /\ second = right
  <2>1. Len(first) \in {n, 0} /\ Len(second) \in {Len(x) - n, 0}
    BY <1>2, <1>4, <1>5
  <2>2. Len(first) = n /\ Len(second) = Len(x) - n
    BY <1>1, <1>8, <2>1
  <2> QED
    BY <1>2, <1>4, <1>5, <1>7, <2>2
<1> QED
  BY <1>3, <1>6, <1>8

\* What a look gives belongs to the vehicle it was at, and is its plate when its
\* length was read and every misreading is taken back.
LEMMA LookIsOwn ==
    ASSUME NEW v \in Vehicles, NEW r \in ResultTable[v]
    PROVE  r.of = v /\ (r.whole /\ r.undone => r.plate = Plate[v])
<1>1. r \in Results(v)
  BY DEF ResultTable
<1>2. PICK x \in Misread(Plate[v]), n \in Cuts \cup {Len(Plate[v])},
           confs \in OcrConfs \X OcrConfs, blank \in BOOLEAN, plateConf \in RegionConfs :
         r = ResultOf(v, Split(x, n, confs, blank), plateConf, IsUndone(v, x))
  BY <1>1 DEF Results
<1> DEFINE fragments == Split(x, n, confs, blank)
           part(i) == IF i \in Kept(fragments) THEN fragments[i].text ELSE << >>
           text == part(1) \o part(2)
<1>3. /\ r.of = v /\ r.plate = normalise_plate(text)
      /\ r.whole = (Len(normalise_plate(text)) = Len(Plate[v]))
      /\ r.undone = IsUndone(v, x)
  BY <1>2 DEF ResultOf
<1>4. /\ fragments[1].text = SubSeq(x, 1, n)
      /\ fragments[2].text = SubSeq(x, n + 1, Len(x))
  BY DEF Split
<1>5. Plate[v] \in Seq(Char) /\ Len(Plate[v]) \in {9, 10}
  BY ReaderConstants DEF is_valid_plate_format
<1>6. x \in Seq(Char) /\ Len(x) = Len(Plate[v])
  BY <1>5, MisreadIsPointwise
<1>7. n \in 0 .. Len(x)
  BY <1>5, <1>6, ReaderConstants
<1>8. part(1) \in {SubSeq(x, 1, n), << >>} /\ part(2) \in {SubSeq(x, n + 1, Len(x)), << >>}
  BY <1>4
<1> HIDE DEF fragments, part
<1>9. text \in Seq(Char) /\ (Len(text) = Len(x) => text = x)
  BY <1>6, <1>7, <1>8, FragmentsJoin
<1>10. ASSUME r.whole, r.undone PROVE r.plate = Plate[v]
  <2>1. Len(text) = Len(x)
    BY <1>3, <1>6, <1>9, <1>10, NormaliseKeepsLength
  <2> QED
    BY <1>3, <1>9, <1>10, <2>1, PlateComesBack
<1> QED
  BY <1>3, <1>10

-----------------------------------------------------------------------------
(* The reader.                                                             *)

\* An entry of the cache came from a look at a vehicle of that name.
CacheOwned ==
    \A t \in Tracks : cache[t] # None =>
        /\ cache[t].of \in owners[t]
        /\ cache[t] \in ResultTable[cache[t].of]

\* A vehicle in a box under a name is one of those the tracker called so.
BoxOwned(d) == d.track # None => d.vehicle \in owners[d.track]

\* An answer is a look at the vehicle, or one at a vehicle of the same name.
AnswerOwned ==
    out # None =>
        /\ BoxOwned(out.det)
        /\ out.result # None =>
              \E v \in Vehicles :
                 /\ out.result \in ResultTable[v]
                 /\ IF out.det.track = None THEN v = out.det.vehicle
                    ELSE v \in owners[out.det.track]

IInv ==
    /\ TypeOK
    /\ CacheOwned
    /\ \A d \in todo : BoxOwned(d)
    /\ AnswerOwned

LEMMA LookIsTyped ==
    ASSUME NEW v \in Vehicles, NEW r \in ResultTable[v]
    PROVE  r \in Looks
  BY DEF Looks

LEMMA InitIInv == Init => IInv
<1> SUFFICES ASSUME Init PROVE IInv
  OBVIOUS
<1>1. TypeOK
  BY ReaderConstants DEF Init, TypeOK
<1> QED
  BY <1>1 DEF Init, IInv, CacheOwned, AnswerOwned

\* The frames: names are only ever added to those that stand for a vehicle.
LEMMA FrameIInv ==
    ASSUME IInv, SkipFrame \/ DetectFrame \/ InferenceFails
    PROVE  IInv'
<1> USE ReaderConstants
<1>1. TypeOK
  BY DEF IInv
<1>2. /\ frames \in Nat /\ frames < MaxFrames /\ frames' = frames + 1 /\ todo = {}
      /\ cache' = cache /\ attempts' = attempts /\ out' = out
  BY <1>1 DEF SkipFrame, DetectFrame, InferenceFails, NextFrame, reader, TypeOK
<1>3. processed \in 0 .. frames /\ processed' \in {processed, processed + 1}
  BY <1>1 DEF SkipFrame, DetectFrame, InferenceFails, TypeOK
<1>4. todo' \subseteq Detection /\ owners' \in [Tracks -> SUBSET Vehicles]
  <2>1. CASE DetectFrame
    <3>1. \A dets \in Named \cup SUBSET Unnamed : dets \subseteq Detection
      BY DEF Named, Unnamed, Detection
    <3>2. todo' \subseteq Detection
      BY <2>1, <3>1 DEF DetectFrame
    <3>3. owners' = [t \in Tracks |->
                        owners[t] \cup {d.vehicle : d \in {e \in todo' : e.track = t}}]
      BY <2>1 DEF DetectFrame
    <3>4. \A t \in Tracks :
             owners[t] \cup {d.vehicle : d \in {e \in todo' : e.track = t}} \in SUBSET Vehicles
      BY <1>1, <3>2 DEF TypeOK, Detection
    <3> QED
      BY <3>2, <3>3, <3>4
  <2>2. CASE SkipFrame \/ InferenceFails
    BY <1>1, <2>2 DEF SkipFrame, InferenceFails, TypeOK
  <2> QED
    BY <2>1, <2>2
<1>5. TypeOK'
  BY <1>1, <1>2, <1>3, <1>4 DEF TypeOK
<1>6. \A t \in Tracks : owners[t] \subseteq owners'[t]
  BY DEF SkipFrame, DetectFrame, InferenceFails
<1>7. (\A d \in todo : BoxOwned(d))'
  <2>1. CASE DetectFrame
    <3> SUFFICES ASSUME NEW d \in todo', d.track # None
                 PROVE  d.vehicle \in owners'[d.track]
      BY DEF BoxOwned
    <3>1. d.track \in Tracks
      BY <1>4 DEF Detection
    <3> QED
      BY <2>1, <3>1 DEF DetectFrame
  <2>2. CASE SkipFrame \/ InferenceFails
    BY <1>2, <2>2 DEF SkipFrame, InferenceFails
  <2> QED
    BY <2>1, <2>2
<1>8. CacheOwned'
  BY <1>2, <1>6 DEF IInv, CacheOwned
<1>9. AnswerOwned'
  <2>1. CASE out = None
    BY <1>2, <2>1 DEF AnswerOwned
  <2>2. CASE out # None
    <3>1. out.det.track # None => out.det.track \in Tracks
      BY <1>1, <2>2 DEF TypeOK, Answer, Detection
    <3>2. BoxOwned(out.det)'
      BY <1>2, <1>6, <2>2, <3>1 DEF IInv, AnswerOwned, BoxOwned
    <3>3. ASSUME out.result # None
          PROVE  \E v \in Vehicles :
                    /\ out.result \in ResultTable[v]
                    /\ IF out.det.track = None THEN v = out.det.vehicle
                       ELSE v \in owners'[out.det.track]
      BY <1>6, <2>2, <3>1, <3>3 DEF IInv, AnswerOwned
    <3> QED
      BY <1>2, <3>2, <3>3 DEF AnswerOwned
  <2> QED
    BY <2>1, <2>2
<1> QED
  BY <1>5, <1>7, <1>8, <1>9 DEF IInv

\* One vehicle: what is answered and kept came from a look at it or from its entry.
LEMMA VehicleIInv ==
    ASSUME IInv, NEW d \in todo,
           ReuseReading(d) \/ GiveUp(d) \/ FailToRead(d) \/ ReadPlate(d)
    PROVE  IInv'
<1> USE ReaderConstants
<1>1. TypeOK
  BY DEF IInv
<1>2. /\ todo' = todo \ {d}
      /\ frames' = frames /\ processed' = processed /\ owners' = owners
  BY DEF ReuseReading, GiveUp, FailToRead, ReadPlate, Answers
<1>3. /\ d \in Detection /\ BoxOwned(d)
      /\ d.track # None => d.track \in Tracks
  BY <1>1 DEF IInv, TypeOK, Detection
<1>4. attempts' \in [Tracks -> 0 .. Tries]
  <2>1. CASE ReuseReading(d) \/ GiveUp(d)
    BY <1>1, <2>1 DEF ReuseReading, GiveUp, TypeOK
  <2>2. CASE FailToRead(d) \/ ReadPlate(d)
    <3>1. Attempt(d)
      BY <2>2 DEF FailToRead, ReadPlate
    <3>2. CASE d.track = None
      BY <1>1, <3>1, <3>2 DEF Attempt, TypeOK
    <3>3. CASE d.track # None
      <4>1. attempts' = [attempts EXCEPT ![d.track] = attempts[d.track] + 1]
        BY <3>1, <3>3 DEF Attempt
      <4>2. attempts[d.track] \in 0 .. Tries
        BY <1>1, <1>3, <3>3 DEF TypeOK
      <4>3. ~(attempts[d.track] >= Tries)
        BY <3>1, <3>3 DEF Attempt, IsCached, IsGivenUp
      <4>4. attempts[d.track] + 1 \in 0 .. Tries
        BY <4>2, <4>3
      <4> QED
        BY <1>1, <4>1, <4>4 DEF TypeOK
    <3> QED
      BY <3>2, <3>3
  <2> QED
    BY <2>1, <2>2
<1>5. ASSUME NEW result \in Looks \cup {None}, NEW how \in {"cached", "given up", "unread", "read"},
             out' = [det |-> d, result |-> result, how |-> how],
             cache' \in [Tracks -> Looks \cup {None}], CacheOwned',
             result # None => \E v \in Vehicles :
                                /\ result \in ResultTable[v]
                                /\ IF d.track = None THEN v = d.vehicle
                                   ELSE v \in owners[d.track]
      PROVE  IInv'
  <2>1. out' \in Answer
    BY <1>3, <1>5 DEF Answer
  <2>2. TypeOK'
    BY <1>1, <1>2, <1>4, <1>5, <2>1 DEF TypeOK
  <2>3. (\A e \in todo : BoxOwned(e))'
    BY <1>2 DEF IInv, BoxOwned
  <2>4. AnswerOwned'
    <3>1. out'.det = d /\ out'.result = result
      BY <1>5
    <3> QED
      BY <1>2, <1>3, <1>5, <3>1 DEF AnswerOwned, BoxOwned
  <2> QED
    BY <1>5, <2>2, <2>3, <2>4 DEF IInv
<1>6. cache' = cache => CacheOwned' /\ cache' \in [Tracks -> Looks \cup {None}]
  BY <1>1, <1>2 DEF IInv, CacheOwned, TypeOK
<1>7. CASE ReuseReading(d)
  <2>1. d.track # None /\ cache[d.track] # None /\ cache' = cache
    BY <1>7 DEF ReuseReading, IsCached
  <2>2. out' = [det |-> d, result |-> cache[d.track], how |-> "cached"]
    BY <1>7 DEF ReuseReading, Answers
  <2>3. PICK r \in Looks \cup {None} : r = cache[d.track]
    BY <1>1, <1>3, <2>1 DEF TypeOK
  <2>4. r.of \in owners[d.track] /\ r \in ResultTable[r.of]
    BY <1>3, <2>1, <2>3 DEF IInv, CacheOwned
  <2>5. r.of \in Vehicles
    BY <1>1, <1>3, <2>1, <2>4 DEF TypeOK
  <2> QED
    BY <1>5, <1>6, <2>1, <2>2, <2>3, <2>4, <2>5
<1>8. CASE GiveUp(d) \/ FailToRead(d)
  <2>1. cache' = cache /\ \E how \in {"given up", "unread"} :
                             out' = [det |-> d, result |-> None, how |-> how]
    BY <1>8 DEF GiveUp, FailToRead, Answers
  <2> QED
    BY <1>5, <1>6, <2>1
<1>9. CASE ReadPlate(d)
  <2>1. PICK r \in ResultTable[d.vehicle] :
           /\ out' = [det |-> d, result |-> r, how |-> "read"]
           /\ cache' = IF d.track # None /\ IsReliable(r)
                       THEN [cache EXCEPT ![d.track] = r] ELSE cache
    BY <1>9 DEF ReadPlate, Answers
  <2>2. d.vehicle \in Vehicles /\ r \in Looks /\ r.of = d.vehicle
    BY <1>3, LookIsOwn, LookIsTyped DEF Detection
  <2>3. cache' \in [Tracks -> Looks \cup {None}]
    BY <1>1, <2>1, <2>2 DEF TypeOK
  <2>4. CacheOwned'
    <3> SUFFICES ASSUME NEW t \in Tracks, cache'[t] # None
                 PROVE  cache'[t].of \in owners[t] /\ cache'[t] \in ResultTable[cache'[t].of]
      BY <1>2 DEF CacheOwned
    <3>1. CASE cache'[t] = cache[t]
      BY <3>1 DEF IInv, CacheOwned
    <3>2. CASE cache'[t] # cache[t]
      <4>1. d.track = t /\ d.track # None /\ cache'[t] = r
        BY <1>1, <2>1, <3>2 DEF TypeOK
      <4> QED
        BY <1>3, <2>2, <4>1 DEF BoxOwned
    <3> QED
      BY <3>1, <3>2
  <2> QED
    BY <1>3, <1>5, <2>1, <2>2, <2>3, <2>4 DEF BoxOwned
<1> QED
  BY <1>7, <1>8, <1>9

LEMMA Inductive == IInv /\ [Next]_vars => IInv'
<1> SUFFICES ASSUME IInv, [Next]_vars PROVE IInv'
  OBVIOUS
<1>1. CASE UNCHANGED vars
  BY <1>1 DEF vars, reader, IInv, TypeOK, CacheOwned, BoxOwned, AnswerOwned
<1> QED
  BY <1>1, FrameIInv, VehicleIInv DEF Next

LEMMA Invariance == Spec => []IInv
  BY InitIInv, Inductive, PTL DEF Spec

\* The invariant says whose reading an answer is; the tables say what it reads.
LEMMA OwnedIsOwnPlate == IInv => OwnPlate
<1> SUFFICES ASSUME IInv, out # None, out.result # None, out.result.whole, out.result.undone,
                    out.det.track # None => owners[out.det.track] = {out.det.vehicle}
             PROVE  out.result.plate = Plate[out.det.vehicle]
  BY DEF OwnPlate
<1>1. PICK v \in Vehicles : /\ out.result \in ResultTable[v]
                            /\ IF out.det.track = None THEN v = out.det.vehicle
                               ELSE v \in owners[out.det.track]
  BY DEF IInv, AnswerOwned
<1>2. v = out.det.vehicle
  BY <1>1
<1> QED
  BY <1>1, <1>2, LookIsOwn

-----------------------------------------------------------------------------
(* Theorems.                                                               *)

\* Counters, cache and answers keep their types: no track is ever tried more often
\* than _MAX_OCR_ATTEMPTS_PER_TRACK, whatever the OCR answers and whomever the
\* tracker names.
THEOREM TypeCorrect == Spec => []TypeOK
  BY Invariance, PTL DEF IInv

\* A text of a plate's length, misread only where a table of normalise_plate leads
\* back, comes through fragments, joining, correction and the cache of process as
\* the plate of the vehicle in the box, unless its name stands for several: for
\* plates of either format, D, Q and L among their letters, whatever characters the
\* OCR may confuse.
THEOREM OwnPlateHolds == Spec => []OwnPlate
  BY Invariance, OwnedIsOwnPlate, PTL

\* The entry of a track answers for it from then on, and stays.
THEOREM AnswersStayHolds == Spec => AnswersStay
<1> DEFINE Stays == \A d \in todo \ todo' :
                       d.track # None /\ cache[d.track] # None =>
                          out'.result = cache[d.track] /\ cache'[d.track] = cache[d.track]
<1>1. ASSUME [Next]_vars PROVE [Stays]_vars
  <2>1. CASE SkipFrame \/ DetectFrame \/ InferenceFails
    BY <2>1 DEF SkipFrame, DetectFrame, InferenceFails, NextFrame
  <2>2. ASSUME NEW d \in todo,
               ReuseReading(d) \/ GiveUp(d) \/ FailToRead(d) \/ ReadPlate(d)
        PROVE  Stays
    <3> SUFFICES ASSUME d.track # None, cache[d.track] # None
                 PROVE  out'.result = cache[d.track] /\ cache'[d.track] = cache[d.track]
      BY <2>2 DEF ReuseReading, GiveUp, FailToRead, ReadPlate, Answers
    <3>1. IsCached(d) /\ ~IsGivenUp(d)
      BY DEF IsCached, IsGivenUp
    <3>2. ReuseReading(d)
      BY <2>2, <3>1 DEF GiveUp, FailToRead, ReadPlate, Attempt
    <3> QED
      BY <3>2 DEF ReuseReading, Answers
  <2> QED
    BY <1>1, <2>1, <2>2 DEF Next
<1> QED
  BY <1>1, PTL DEF Spec, AnswersStay

-----------------------------------------------------------------------------
(* IncidentAnalyzer: the numbers of a frame. *)

\* The largest of at most three numbers is one of them and no smaller than any.
LEMMA MaxOfFew ==
    ASSUME NEW a \in Int, NEW b \in Int, NEW c \in Int,
           NEW S, S \subseteq {a, b, c}, S # {}
    PROVE  /\ Max(S) \in S
           /\ \A x \in S : Max(S) >= x
<1>1. \E m \in S : \A x \in S : m >= x
  <2>1. CASE a \in S /\ (b \in S => a >= b) /\ (c \in S => a >= c)
    BY <2>1
  <2>2. CASE b \in S /\ (a \in S => b >= a) /\ (c \in S => b >= c)
    BY <2>2
  <2>3. CASE c \in S /\ (a \in S => c >= a) /\ (b \in S => c >= b)
    BY <2>3
  <2>4. a \in S \/ b \in S \/ c \in S
    OBVIOUS
  <2>5. a >= b \/ b >= a
    OBVIOUS
  <2>6. (a >= c \/ c >= a) /\ (b >= c \/ c >= b)
    OBVIOUS
  <2>7. /\ a >= b /\ b >= c => a >= c
        /\ b >= a /\ a >= c => b >= c
        /\ a >= c /\ c >= b => a >= b
        /\ c >= a /\ a >= b => c >= b
        /\ b >= c /\ c >= a => b >= a
        /\ c >= b /\ b >= a => c >= a
    OBVIOUS
  <2> QED
    BY <2>1, <2>2, <2>3, <2>4, <2>5, <2>6, <2>7, Zenon
<1> QED
  BY <1>1 DEF Max

LEMMA MaxOfTwo ==
    ASSUME NEW a \in Int, NEW b \in Int
    PROVE  Max({a, b}) = IF a >= b THEN a ELSE b
<1>1. /\ Max({a, b}) \in {a, b}
      /\ \A x \in {a, b} : Max({a, b}) >= x
  BY MaxOfFew, {a, b} \subseteq {a, b, b}
<1> QED
  BY <1>1

LEMMA MinOfTwo ==
    ASSUME NEW a \in Int, NEW b \in Int
    PROVE  Min({a, b}) = IF a <= b THEN a ELSE b
<1>1. CASE a <= b
  <2>1. \E x \in {a, b} : \A y \in {a, b} : x <= y
    BY <1>1
  <2>2. \A x \in {a, b} : (\A y \in {a, b} : x <= y) => x = a
    BY <1>1
  <2> QED
    BY <1>1, <2>1, <2>2 DEF Min
<1>2. CASE ~(a <= b)
  <2>1. \E x \in {a, b} : \A y \in {a, b} : x <= y
    BY <1>2
  <2>2. \A x \in {a, b} : (\A y \in {a, b} : x <= y) => x = b
    BY <1>2
  <2> QED
    BY <1>2, <2>1, <2>2 DEF Min
<1> QED
  BY <1>1, <1>2

LEMMA QuotientIsNat ==
    ASSUME NEW n \in Nat, NEW d \in Nat, d > 0
    PROVE  n \div d \in Nat
OBVIOUS

\* A slow frame counts, a fast one takes two away and stops at zero.
LEMMA StoppedIs ==
    ASSUME NEW before \in Nat, NEW speed \in Nat
    PROVE  /\ Stopped(before, speed) \in Nat
           /\ speed < 8 => Stopped(before, speed) = before + 1
           /\ speed >= 8 /\ before >= 2 => Stopped(before, speed) = before - 2
           /\ speed >= 8 /\ before < 2 => Stopped(before, speed) = 0
           /\ Stopped(before, speed) <= before + 1
<1>1. Max({0, before - 2}) = IF 0 >= before - 2 THEN 0 ELSE before - 2
  BY MaxOfTwo
<1> QED
  BY <1>1 DEF Stopped

LEMMA SpeedIsNat ==
    ASSUME NEW track \in Track \cup {NoEntry}, NEW x \in Nat, NEW now \in Nat
    PROVE  Speed(track, x, now) \in Nat
<1>1. CASE track = NoEntry
  BY <1>1 DEF Speed
<1>2. CASE track # NoEntry
  <2>1. track.x \in Nat /\ track.pts \in Nat
    BY <1>2 DEF Track
  <2>2. 1000 * Dist(x, track.x) \in Nat
    BY <2>1 DEF Dist
  <2>3. Max({20, now - track.pts}) = IF 20 >= now - track.pts THEN 20 ELSE now - track.pts
    BY <2>1, MaxOfTwo
  <2>4. Max({20, now - track.pts}) \in Nat /\ Max({20, now - track.pts}) > 0
    BY <2>1, <2>3
  <2> QED
    BY <1>2, <2>2, <2>4, QuotientIsNat DEF Speed
<1> QED
  BY <1>1, <1>2

LEMMA MovedIsTrack ==
    ASSUME NEW track \in Track \cup {NoEntry}, NEW x \in Nat, NEW now \in Nat
    PROVE  Moved(track, x, now) \in Track
<1> DEFINE speed == Speed(track, x, now)
           old == IF track = NoEntry THEN [top |-> 0, stopped |-> 0] ELSE track
<1>1. speed \in Nat
  BY SpeedIsNat
<1>2. old.top \in Nat /\ old.stopped \in Nat
  BY DEF Track
<1>3. Moved(track, x, now) =
        [x |-> x, pts |-> now, speed |-> speed, top |-> Max({old.top, speed}),
         stopped |-> Stopped(old.stopped, speed)]
  BY DEF Moved
<1> HIDE DEF speed, old
<1>4. Max({old.top, speed}) = IF old.top >= speed THEN old.top ELSE speed
  BY <1>1, <1>2, MaxOfTwo
<1>5. Max({old.top, speed}) \in Nat /\ Stopped(old.stopped, speed) \in Nat
  BY <1>1, <1>2, <1>4, StoppedIs
<1> QED
  BY <1>1, <1>3, <1>5 DEF Track

\* No frame of a call evicts a track: both have just been seen.
LEMMA UpdatedTracks ==
    ASSUME NEW ts, NEW i \in 0..15, NEW v \in Pair
    PROVE  UpdateTracks(ts, i)[v] = Moved(ts[v], Edge(v, i), Pts(i))
<1> DEFINE new == [u \in Pair |-> Moved(ts[u], Edge(u, i), Pts(i))]
<1>1. new[v] = Moved(ts[v], Edge(v, i), Pts(i))
  OBVIOUS
<1>2. new[v].pts = Pts(i)
  BY <1>1 DEF Moved
<1>3. UpdateTracks(ts, i) = Evicted(new, Pts(i))
  BY DEF UpdateTracks
<1> HIDE DEF new
<1>4. Pts(i) \in Int
  BY DEF Pts
<1>5. Evicted(new, Pts(i))[v] = new[v]
  BY <1>2, <1>4 DEF Evicted
<1> QED
  BY <1>1, <1>3, <1>5
-----------------------------------------------------------------------------
\* The track of a vehicle after frame f of a call that runs alone and found a
\* standstill of `found` frames: the vehicles drive at 150 pixels a second and stop
\* when they meet.  Each fast frame takes two standstill frames away, so seventeen
\* of them are not reached again before the collision is due.
Drove(track, v, f, found) ==
  /\ track \in Track
  /\ track.x = Edge(v, f) /\ track.pts = Pts(f)
  /\ f >= 1 => track.top >= 150
  /\ f \in 1..4 => track.speed = IF f = 4 /\ v = 2 THEN 50 ELSE 150
  /\ f > 4 => track.speed = 0
  /\ found < 17 => track.stopped <= IF f <= 4 THEN 17 - 2 * f ELSE f + 5

LEMMA EdgeIsNat ==
    ASSUME NEW v \in Pair, NEW f \in 0..15
    PROVE  Edge(v, f) \in Nat /\ Pts(f) \in Nat
BY DEF Edge, Pts, Pair, Meets

LEMMA FirstFrame ==
    ASSUME NEW v \in Pair, NEW found \in Nat, NEW track \in Track \cup {NoEntry},
           track # NoEntry => track.stopped <= found
    PROVE  Drove(Moved(track, Edge(v, 0), Pts(0)), v, 0, found)
<1> DEFINE speed == Speed(track, Edge(v, 0), Pts(0))
           new   == Moved(track, Edge(v, 0), Pts(0))
<1>1. Edge(v, 0) \in Nat /\ Pts(0) \in Nat
  BY EdgeIsNat
<1>2. speed \in Nat
  BY <1>1, SpeedIsNat
<1>3. new \in Track
  BY <1>1, MovedIsTrack
<1>4. /\ new.x = Edge(v, 0) /\ new.pts = Pts(0)
      /\ track = NoEntry => new.stopped = Stopped(0, speed)
      /\ track # NoEntry => new.stopped = Stopped(track.stopped, speed)
  BY DEF Moved
<1> HIDE DEF speed, new
<1>5. found < 17 => new.stopped <= 17
  <2>1. CASE track = NoEntry
    <3>1. Stopped(0, speed) \in Nat /\ Stopped(0, speed) <= 0 + 1
      BY <1>2, StoppedIs
    <3> QED
      BY <1>4, <2>1, <3>1
  <2>2. CASE track # NoEntry
    <3>1. track.stopped \in Nat
      BY <2>2 DEF Track
    <3>2. /\ Stopped(track.stopped, speed) \in Nat
          /\ Stopped(track.stopped, speed) <= track.stopped + 1
      BY <1>2, <3>1, StoppedIs
    <3> QED
      BY <1>4, <2>2, <3>1, <3>2
  <2> QED
    BY <2>1, <2>2
<1> QED
  BY <1>3, <1>4, <1>5 DEF Drove, new

LEMMA DriveSpeed ==
    ASSUME NEW v \in Pair, NEW f \in 1..15, NEW track \in Track,
           track.x = Edge(v, f - 1), track.pts = Pts(f - 1)
    PROVE  Speed(track, Edge(v, f), Pts(f)) =
             IF f > 4 THEN 0 ELSE IF f = 4 /\ v = 2 THEN 50 ELSE 150
<1>1. Pts(f) - track.pts = 100
  BY DEF Pts
<1>2. Max({20, Pts(f) - track.pts}) = 100
  BY <1>1, MaxOfTwo
<1>3. Dist(Edge(v, f), track.x) = IF f > 4 THEN 0 ELSE IF f = 4 /\ v = 2 THEN 5 ELSE 15
  BY DEF Dist, Edge, Meets, Pair
<1>4. track # NoEntry
  BY AnalyzerConstants
<1>5. Speed(track, Edge(v, f), Pts(f)) = (1000 * Dist(Edge(v, f), track.x)) \div 100
  BY <1>2, <1>4 DEF Speed
<1>6. 0 \div 100 = 0 /\ 5000 \div 100 = 50 /\ 15000 \div 100 = 150
  OBVIOUS
<1> QED
  BY <1>3, <1>5, <1>6

LEMMA LaterFrame ==
    ASSUME NEW v \in Pair, NEW f \in 1..15, NEW found \in Nat, NEW track,
           Drove(track, v, f - 1, found)
    PROVE  Drove(Moved(track, Edge(v, f), Pts(f)), v, f, found)
<1> DEFINE speed == Speed(track, Edge(v, f), Pts(f))
           new   == Moved(track, Edge(v, f), Pts(f))
<1>1. Edge(v, f) \in Nat /\ Pts(f) \in Nat
  BY EdgeIsNat
<1>2. track \in Track /\ track # NoEntry
  BY AnalyzerConstants DEF Drove
<1>3. speed = IF f > 4 THEN 0 ELSE IF f = 4 /\ v = 2 THEN 50 ELSE 150
  BY <1>2, DriveSpeed DEF Drove
<1>4. new \in Track
  BY <1>1, <1>2, MovedIsTrack
<1>5. /\ new.x = Edge(v, f) /\ new.pts = Pts(f) /\ new.speed = speed
      /\ new.top = Max({track.top, speed})
      /\ new.stopped = Stopped(track.stopped, speed)
  BY <1>2 DEF Moved
<1>6. track.top \in Nat /\ track.stopped \in Nat
  BY <1>2 DEF Track
<1>7. /\ f - 1 >= 1 => track.top >= 150
      /\ found < 17 => track.stopped <= IF f - 1 <= 4 THEN 17 - 2 * (f - 1) ELSE f - 1 + 5
  BY DEF Drove
<1> HIDE DEF speed, new
<1>8. new.top >= 150
  <2>1. new.top = IF track.top >= speed THEN track.top ELSE speed
    BY <1>3, <1>5, <1>6, MaxOfTwo
  <2> QED
    BY <1>3, <1>6, <1>7, <2>1
<1>9. speed \in Nat
  BY <1>3
<1>10. found < 17 => new.stopped <= IF f <= 4 THEN 17 - 2 * f ELSE f + 5
  <2> SUFFICES ASSUME found < 17
               PROVE  new.stopped <= IF f <= 4 THEN 17 - 2 * f ELSE f + 5
    OBVIOUS
  <2>1. CASE f <= 4
    <3>1. speed >= 8
      BY <1>3, <2>1
    <3>2. new.stopped = IF track.stopped >= 2 THEN track.stopped - 2 ELSE 0
      <4>1. CASE track.stopped >= 2
        BY <1>5, <1>6, <1>9, <3>1, <4>1, StoppedIs
      <4>2. CASE track.stopped < 2
        BY <1>5, <1>6, <1>9, <3>1, <4>2, StoppedIs
      <4> QED
        BY <1>6, <4>1, <4>2
    <3>3. track.stopped <= 17 - 2 * (f - 1)
      BY <1>7, <2>1
    <3> QED
      BY <1>6, <2>1, <3>2, <3>3
  <2>2. CASE f > 4
    <3>1. speed < 8
      BY <1>3, <2>2
    <3>2. new.stopped = track.stopped + 1
      BY <1>5, <1>6, <1>9, <3>1, StoppedIs
    <3> QED
      BY <1>6, <1>7, <2>2, <3>2
  <2> QED
    BY <2>1, <2>2
<1>11. Drove(new, v, f, found)
  BY <1>3, <1>4, <1>5, <1>8, <1>10 DEF Drove
<1> QED
  BY <1>11 DEF new
-----------------------------------------------------------------------------
\* The count of the pair, where no entry counts as none, and what it has become
\* when a call that found it at `found` has analysed f frames.
Value(count) == IF count = NoEntry THEN 0 ELSE count
CountAt(found, f) == IF f <= 4 THEN Max({0, found - f}) ELSE LeftOver(found) + (f - 4)

LEMMA LeftOverIs ==
    ASSUME NEW found \in Nat
    PROVE  /\ LeftOver(found) \in Nat
           /\ LeftOver(found) = IF found <= 4 THEN 0 ELSE found - 4
BY MaxOfTwo DEF LeftOver, Meets

LEMMA DueIs ==
    ASSUME NEW found \in Nat
    PROVE  /\ Due(found) \in 4..13
           /\ Due(found) = IF LeftOver(found) <= 9 THEN 13 - LeftOver(found) ELSE 4
<1>1. LeftOver(found) \in Nat
  BY LeftOverIs
<1>2. Due(found) = IF 4 >= 13 - LeftOver(found) THEN 4 ELSE 13 - LeftOver(found)
  BY <1>1, MaxOfTwo DEF Due, Meets, Persist
<1> QED
  BY <1>1, <1>2

LEMMA CountBefore ==
    ASSUME NEW found \in Nat, NEW f \in 0..4
    PROVE  CountAt(found, f) = IF found <= f THEN 0 ELSE found - f
<1>1. Max({0, found - f}) = IF 0 >= found - f THEN 0 ELSE found - f
  BY MaxOfTwo
<1> QED
  BY <1>1 DEF CountAt

LEMMA CountAfter ==
    ASSUME NEW found \in Nat, NEW f \in 4..16
    PROVE  CountAt(found, f) = LeftOver(found) + (f - 4)
<1>1. CASE f = 4
  BY <1>1, LeftOverIs DEF CountAt, LeftOver, Meets
<1>2. CASE f > 4
  BY <1>2 DEF CountAt
<1> QED
  BY <1>1, <1>2

\* The boxes overlap enough exactly from the frame in which the vehicles meet.
LEMMA OverlapFrames ==
    ASSUME NEW ts, NEW f \in 0..15, ts[1].x = Edge(1, f), ts[2].x = Edge(2, f)
    PROVE  Overlaps(ts) <=> f >= 4
<1>1. Dist(ts[1].x, ts[2].x) =
        IF f = 0 THEN 120 ELSE IF f = 1 THEN 90 ELSE IF f = 2 THEN 60
        ELSE IF f = 3 THEN 30 ELSE 10
  BY DEF Dist, Edge, Meets
<1> QED
  BY <1>1 DEF Overlaps, Width

LEMMA CountedIsCount ==
    ASSUME NEW ts, NEW count \in Nat \cup {NoEntry}
    PROVE  Counted(ts, count) \in Nat \cup {NoEntry}
<1>1. CASE count = NoEntry
  BY <1>1 DEF Counted
<1>2. CASE count # NoEntry
  <2>1. Max({0, count - 1}) = IF 0 >= count - 1 THEN 0 ELSE count - 1
    BY <1>2, MaxOfTwo
  <2> QED
    BY <1>2, <2>1 DEF Counted
<1> QED
  BY <1>1, <1>2

\* A frame takes the count of a lone call one further.
LEMMA NextCount ==
    ASSUME NEW ts, NEW count \in Nat \cup {NoEntry}, NEW found \in Nat, NEW f \in 0..15,
           Overlaps(ts) <=> f >= 4, Value(count) = CountAt(found, f)
    PROVE  Value(Counted(ts, count)) = CountAt(found, f + 1)
<1>1. CASE f >= 4
  <2>1. PICK g \in 4..16 : g = f + 1
    BY <1>1
  <2>2. f \in 4..16
    BY <1>1
  <2>3. Value(count) = LeftOver(found) + (f - 4)
    BY <2>2, CountAfter
  <2>4. CountAt(found, g) = LeftOver(found) + (g - 4)
    BY CountAfter
  <2>5. Counted(ts, count) = Value(count) + 1
    BY <1>1 DEF Counted, Value
  <2>6. Counted(ts, count) \in Nat
    BY <1>1, <2>3, <2>5, LeftOverIs
  <2>7. Value(Counted(ts, count)) = Counted(ts, count)
    BY <2>6, AnalyzerConstants DEF Value
  <2>8. LeftOver(found) \in Nat
    BY LeftOverIs
  <2> QED
    BY <2>1, <2>3, <2>4, <2>5, <2>7, <2>8
<1>2. CASE f < 4
  <2>1. PICK g \in 0..4 : g = f + 1
    BY <1>2
  <2>2. f \in 0..4
    BY <1>2
  <2>3. Value(count) = IF found <= f THEN 0 ELSE found - f
    BY <2>2, CountBefore
  <2>4. CountAt(found, g) = IF found <= g THEN 0 ELSE found - g
    BY CountBefore
  <2>5. CASE count = NoEntry
    BY <1>2, <2>1, <2>3, <2>4, <2>5 DEF Counted, Value
  <2>6. CASE count # NoEntry
    <3>1. Max({0, count - 1}) = IF 0 >= count - 1 THEN 0 ELSE count - 1
      BY <2>6, MaxOfTwo
    <3>2. Counted(ts, count) = Max({0, count - 1})
      BY <1>2, <2>6 DEF Counted
    <3>3. Counted(ts, count) \in Nat
      BY <2>6, <3>1, <3>2
    <3>4. Value(Counted(ts, count)) = Counted(ts, count)
      BY <3>3, AnalyzerConstants DEF Value
    <3>5. count = IF found <= f THEN 0 ELSE found - f
      BY <2>3, <2>6 DEF Value
    <3> QED
      BY <1>2, <2>1, <2>4, <3>1, <3>2, <3>4, <3>5
  <2> QED
    BY <2>5, <2>6
<1> QED
  BY <1>1, <1>2

\* The frame that makes a collision is the one that is due.
LEMMA CollisionFrame ==
    ASSUME NEW ts, NEW stood \in Nat, NEW found \in Nat, NEW f \in 0..15, NEW count,
           \A v \in Pair : Drove(ts[v], v, f, stood),
           Value(count) = CountAt(found, f + 1)
    PROVE  IsCollision(ts, count) <=> f >= Due(found)
<1>1. ts[1].x = Edge(1, f) /\ ts[2].x = Edge(2, f)
  BY DEF Drove, Pair
<1>2. Overlaps(ts) <=> f >= 4
  BY <1>1, OverlapFrames
<1>3. Due(found) \in 4..13
  BY DueIs
<1>4. CASE f < 4
  BY <1>2, <1>3, <1>4 DEF IsCollision
<1>5. CASE f >= 4
  <2>0. PICK g \in 4..16 : g = f + 1
    BY <1>5
  <2>1. CountAt(found, g) = LeftOver(found) + (g - 4)
    BY CountAfter
  <2>2. LeftOver(found) \in Nat
    BY LeftOverIs
  <2>3. count = LeftOver(found) + (f + 1 - 4)
    BY <1>5, <2>0, <2>1, <2>2 DEF Value
  <2>4. count >= Persist <=> f >= Due(found)
    BY <1>5, <2>2, <2>3, DueIs DEF Persist
  <2>5. /\ ts[1].top \in Nat /\ ts[2].top \in Nat
        /\ ts[1].top >= 150 /\ ts[2].top >= 150
    BY <1>5 DEF Drove, Pair, Track
  <2>6. {ts[t].top : t \in Pair} = {ts[1].top, ts[2].top}
    BY DEF Pair
  <2>7. Max({ts[t].top : t \in Pair}) \in Int /\ Max({ts[t].top : t \in Pair}) >= 150
    <3>1. Max({ts[1].top, ts[2].top}) = IF ts[1].top >= ts[2].top THEN ts[1].top ELSE ts[2].top
      BY <2>5, MaxOfTwo
    <3>2. Max({ts[1].top, ts[2].top}) \in Int /\ Max({ts[1].top, ts[2].top}) >= 150
      BY <2>5, <3>1
    <3> QED
      BY <2>6, <3>2, Zenon
  <2>8. {ts[t].speed : t \in Pair} = {ts[1].speed, ts[2].speed}
    BY DEF Pair
  <2>9. /\ ts[1].speed = IF f > 4 THEN 0 ELSE 150
        /\ ts[2].speed = IF f > 4 THEN 0 ELSE 50
    BY <1>5 DEF Drove, Pair
  <2>10. Min({ts[t].speed : t \in Pair}) = IF f > 4 THEN 0 ELSE 50
    <3>1. ts[1].speed \in Int /\ ts[2].speed \in Int
      BY <2>9
    <3>2. Min({ts[1].speed, ts[2].speed}) =
            IF ts[1].speed <= ts[2].speed THEN ts[1].speed ELSE ts[2].speed
      BY <3>1, MinOfTwo
    <3>3. Min({ts[1].speed, ts[2].speed}) = IF f > 4 THEN 0 ELSE 50
      BY <2>9, <3>2
    <3> QED
      BY <2>8, <3>3, Zenon
  <2>11. IsSlowed(Max({ts[t].top : t \in Pair}), Min({ts[t].speed : t \in Pair}))
    BY <2>7, <2>10 DEF IsSlowed
  <2> QED
    BY <1>2, <1>5, <2>4, <2>11 DEF IsCollision
<1> QED
  BY <1>4, <1>5

\* Before that frame no vehicle counts as stalled.
LEMMA NoStallBefore ==
    ASSUME NEW ts, NEW stood \in Nat, NEW f \in 0..12, stood < 17,
           \A v \in Pair : Drove(ts[v], v, f, stood)
    PROVE  StalledTracks(ts) = {}
<1>1. ASSUME NEW v \in Pair
      PROVE  ts[v].stopped < 18
  <2>1. ts[v].stopped \in Nat
    BY DEF Drove, Track
  <2>2. ts[v].stopped <= IF f <= 4 THEN 17 - 2 * f ELSE f + 5
    BY DEF Drove
  <2> QED
    BY <2>1, <2>2
<1>2. \A v \in Pair : ~(ts[v].stopped >= 18)
  <2>1. \A v \in Pair : ts[v].stopped \in Nat
    BY DEF Drove, Track
  <2> QED
    BY <1>1, <2>1
<1> QED
  BY <1>2 DEF StalledTracks, StalledFrames
-----------------------------------------------------------------------------
AnalyzerTypes ==
    /\ tracks \in [Pair -> Track \cup {NoEntry}]
    /\ overlap \in Nat \cup {NoEntry}
    /\ call \in [Threads -> [at : {"idle", "update", "analyze", "found", "nothing"},
                            frame : 0..15]]
    /\ alone \in [Threads -> BOOLEAN]
    /\ carried \in [Threads -> [overlap : Nat, stopped : Nat]]

\* A call that runs alone has seen the vehicles drive as far as its frame and the
\* count go on from the one it found; it is not past the frame that is due.
OnItsWay(t) ==
    /\ Running = {t}
    /\ call[t].frame <= Due(carried[t].overlap)
    /\ Value(overlap) = CountAt(carried[t].overlap, call[t].frame)
    /\ call[t] = [at |-> "update", frame |-> 0] =>
         \A v \in Pair : tracks[v] # NoEntry => tracks[v].stopped <= carried[t].stopped
    /\ call[t].at = "update" /\ call[t].frame > 0 =>
         \A v \in Pair : Drove(tracks[v], v, call[t].frame - 1, carried[t].stopped)
    /\ call[t].at = "analyze" =>
         \A v \in Pair : Drove(tracks[v], v, call[t].frame, carried[t].stopped)

LoneCalls == \A t \in Threads : alone[t] /\ t \in Running => OnItsWay(t)

\* The frame of the report as this code has it: the one that is due.
DueReports ==
    \A t \in Threads :
      alone[t] /\ call[t].at \in {"found", "nothing"} =>
        /\ call[t].at = "found" /\ call[t].frame <= Due(carried[t].overlap)
        /\ carried[t].stopped < StalledFrames - 1 =>
             call[t].frame = Due(carried[t].overlap)

AnalyzerInv == AnalyzerTypes /\ LoneCalls /\ DueReports

LEMMA StandstillIs ==
    ASSUME AnalyzerTypes
    PROVE  /\ Standstill(tracks) \in Nat
           /\ \A v \in Pair : tracks[v] # NoEntry => tracks[v].stopped <= Standstill(tracks)
<1>1. \A v \in Pair : tracks[v] # NoEntry => tracks[v].stopped \in Nat
  BY DEF AnalyzerTypes, Track
<1>2. PICK S : S = {0} \cup {tracks[v].stopped : v \in {u \in Pair : tracks[u] # NoEntry}}
  OBVIOUS
<1>3. PICK a \in Nat : a = IF tracks[1] # NoEntry THEN tracks[1].stopped ELSE 0
  BY <1>1 DEF Pair
<1>4. PICK b \in Nat : b = IF tracks[2] # NoEntry THEN tracks[2].stopped ELSE 0
  BY <1>1 DEF Pair
<1>5. S \subseteq {0, a, b} /\ 0 \in S
  BY <1>2, <1>3, <1>4 DEF Pair
<1>6. Max(S) \in S /\ \A x \in S : Max(S) >= x
  <2>1. 0 \in Int /\ a \in Int /\ b \in Int /\ S # {}
    BY <1>5
  <2> QED
    BY <1>5, <2>1, MaxOfFew, Zenon
<1>7. Max(S) \in Nat
  <2>1. Max(S) \in {0, a, b}
    BY <1>5, <1>6, Zenon
  <2> QED
    BY <2>1
<1>8. Standstill(tracks) = Max(S)
  BY <1>2 DEF Standstill
<1>9. \A v \in Pair : tracks[v] # NoEntry => tracks[v].stopped \in S
  BY <1>2
<1> QED
  BY <1>1, <1>6, <1>7, <1>8, <1>9

LEMMA InitLone == AnalyzerInit => AnalyzerInv
<1> SUFFICES ASSUME AnalyzerInit
             PROVE  AnalyzerInv
  OBVIOUS
<1>1. AnalyzerTypes
  BY DEF AnalyzerInit, AnalyzerTypes, NoCounts
<1>2. Running = {}
  BY DEF AnalyzerInit, Running
<1>3. LoneCalls
  BY <1>2 DEF LoneCalls
<1>4. DueReports
  BY DEF AnalyzerInit, DueReports
<1> QED
  BY <1>1, <1>3, <1>4 DEF AnalyzerInv

LEMMA BeginStep ==
    ASSUME AnalyzerInv, NEW t \in Threads, Begin(t)
    PROVE  AnalyzerInv'
<1> USE DEF AnalyzerInv
<1>1. AnalyzerTypes'
  <2>1. CountsFound \in [overlap : Nat, stopped : Nat]
    BY StandstillIs DEF AnalyzerTypes, CountsFound
  <2>2. alone' \in [Threads -> BOOLEAN]
    BY DEF AnalyzerTypes, Begin
  <2>3. carried' \in [Threads -> [overlap : Nat, stopped : Nat]]
    BY <2>1 DEF AnalyzerTypes, Begin, NoCounts
  <2> QED
    BY <2>2, <2>3 DEF AnalyzerTypes, Begin
<1>2. /\ call'[t] = [at |-> "update", frame |-> 0]
      /\ \A u \in Threads \ {t} : call'[u] = call[u]
  BY DEF AnalyzerTypes, Begin
<1>3. Running' = Running \cup {t}
  <2>1. call'[t].at = "update"
    BY <1>2
  <2> QED
    BY <1>2, <2>1 DEF Running
<1>4. LoneCalls'
  <2> SUFFICES ASSUME NEW u \in Threads, alone'[u], u \in Running'
               PROVE  OnItsWay(u)'
    BY DEF LoneCalls
  <2>1. u = t
    BY <1>3 DEF Begin
  <2>2. Running = {}
    BY <2>1 DEF Begin
  <2>3. carried'[t] = CountsFound
    BY <2>1 DEF Begin
  <2>4. carried'[t].overlap = Value(overlap) /\ carried'[t].stopped = Standstill(tracks)
    BY <2>3 DEF CountsFound, Value
  <2>5. Value(overlap) \in Nat
    BY DEF AnalyzerTypes, Value
  <2>6. CountAt(Value(overlap), 0) = Value(overlap)
    BY <2>5, CountBefore
  <2>7. Due(Value(overlap)) \in 4..13
    BY <2>5, DueIs
  <2>8. \A v \in Pair : tracks[v] # NoEntry => tracks[v].stopped <= Standstill(tracks)
    BY StandstillIs
  <2>9. overlap' = overlap /\ tracks' = tracks /\ Running' = {t}
    BY <1>3, <2>2 DEF Begin
  <2> QED
    BY <1>2, <2>1, <2>4, <2>6, <2>7, <2>8, <2>9 DEF OnItsWay
<1>5. DueReports'
  <2> SUFFICES ASSUME NEW u \in Threads, alone'[u], call'[u].at \in {"found", "nothing"}
               PROVE  /\ call'[u].at = "found" /\ call'[u].frame <= Due(carried'[u].overlap)
                      /\ carried'[u].stopped < StalledFrames - 1 =>
                           call'[u].frame = Due(carried'[u].overlap)
    BY DEF DueReports
  <2>1. u # t /\ call'[u] = call[u]
    BY <1>2
  <2>2. alone[u] /\ carried'[u] = carried[u]
    BY <2>1 DEF Begin
  <2> QED
    BY <2>1, <2>2 DEF DueReports
<1> QED
  BY <1>1, <1>4, <1>5

LEMMA UpdateStep ==
    ASSUME AnalyzerInv, NEW t \in Threads, Update(t)
    PROVE  AnalyzerInv'
<1> USE DEF AnalyzerInv
<1> DEFINE f == call[t].frame
<1>1. f \in 0..15 /\ call[t].at = "update"
  BY DEF AnalyzerTypes, Update
<1>2. /\ call' = [call EXCEPT ![t].at = "analyze"]
      /\ tracks' = UpdateTracks(tracks, f)
      /\ overlap' = overlap /\ alone' = alone /\ carried' = carried
  BY DEF Update
<1>3. /\ call'[t].at = "analyze" /\ call'[t].frame = f
      /\ \A u \in Threads \ {t} : call'[u] = call[u]
  BY <1>2 DEF AnalyzerTypes
<1>4. ASSUME NEW v \in Pair
      PROVE  tracks'[v] = Moved(tracks[v], Edge(v, f), Pts(f))
  BY <1>1, <1>2, UpdatedTracks
<1>5. AnalyzerTypes'
  <2>1. call' \in [Threads -> [at : {"idle", "update", "analyze", "found", "nothing"},
                              frame : 0..15]]
    BY <1>2 DEF AnalyzerTypes
  <2>2. ASSUME NEW v \in Pair
        PROVE  tracks'[v] \in Track \cup {NoEntry}
    <3>1. tracks[v] \in Track \cup {NoEntry}
      BY DEF AnalyzerTypes
    <3>2. Edge(v, f) \in Nat /\ Pts(f) \in Nat
      BY <1>1, EdgeIsNat
    <3>3. Moved(tracks[v], Edge(v, f), Pts(f)) \in Track
      BY <3>1, <3>2, MovedIsTrack
    <3> QED
      BY <1>4, <3>3
  <2>3. tracks' = [v \in Pair |-> tracks'[v]]
    BY <1>2 DEF UpdateTracks, Evicted
  <2> QED
    BY <1>2, <2>1, <2>2, <2>3 DEF AnalyzerTypes
<1>6. Running' = Running
  BY <1>1, <1>3 DEF Running
<1>7. LoneCalls'
  <2> SUFFICES ASSUME NEW u \in Threads, alone'[u], u \in Running'
               PROVE  OnItsWay(u)'
    BY DEF LoneCalls
  <2>1. OnItsWay(u) /\ Running = {u}
    BY <1>2, <1>6 DEF LoneCalls, OnItsWay
  <2>2. u = t
    BY <1>1, <2>1 DEF Running
  <2>3. carried[t].stopped \in Nat
    BY DEF AnalyzerTypes
  <2>4. ASSUME NEW v \in Pair
        PROVE  Drove(tracks'[v], v, f, carried[t].stopped)
    <3>1. tracks[v] \in Track \cup {NoEntry}
      BY DEF AnalyzerTypes
    <3>2. CASE f = 0
      <4>1. call[t] = [at |-> "update", frame |-> 0]
        BY <1>1, <3>2 DEF AnalyzerTypes
      <4>2. tracks[v] # NoEntry => tracks[v].stopped <= carried[t].stopped
        BY <2>1, <2>2, <4>1 DEF OnItsWay
      <4> QED
        BY <1>4, <2>3, <3>1, <3>2, <4>2, FirstFrame
    <3>3. CASE f > 0
      <4>1. Drove(tracks[v], v, f - 1, carried[t].stopped)
        BY <1>1, <2>1, <2>2, <3>3 DEF OnItsWay
      <4>2. f \in 1..15
        BY <1>1, <3>3
      <4> QED
        BY <1>4, <2>3, <4>1, <4>2, LaterFrame
    <3> QED
      BY <1>1, <3>2, <3>3
  <2>5. /\ f <= Due(carried[t].overlap)
        /\ Value(overlap) = CountAt(carried[t].overlap, f)
    BY <2>1, <2>2 DEF OnItsWay
  <2>6. Running' = {t}
    BY <1>6, <2>1, <2>2
  <2>7. OnItsWay(t)'
    BY <1>2, <1>3, <2>4, <2>5, <2>6 DEF OnItsWay
  <2> QED
    BY <2>2, <2>7
<1>8. DueReports'
  <2> SUFFICES ASSUME NEW u \in Threads, alone'[u], call'[u].at \in {"found", "nothing"}
               PROVE  /\ call'[u].at = "found" /\ call'[u].frame <= Due(carried'[u].overlap)
                      /\ carried'[u].stopped < StalledFrames - 1 =>
                           call'[u].frame = Due(carried'[u].overlap)
    BY DEF DueReports
  <2>1. u # t /\ call'[u] = call[u]
    BY <1>3
  <2> QED
    BY <1>2, <2>1 DEF DueReports
<1> QED
  BY <1>5, <1>7, <1>8

LEMMA AnalyzeStep ==
    ASSUME AnalyzerInv, NEW t \in Threads, Analyze(t)
    PROVE  AnalyzerInv'
<1> USE DEF AnalyzerInv
<1> DEFINE f == call[t].frame
           now == Counted(tracks, overlap)
           next == IF IsIncident(tracks, now) THEN [at |-> "found", frame |-> f]
                   ELSE IF f + 1 = Frames THEN [at |-> "nothing", frame |-> f]
                   ELSE [at |-> "update", frame |-> f + 1]
<1>1. f \in 0..15 /\ call[t].at = "analyze"
  BY DEF AnalyzerTypes, Analyze
<1>2. /\ overlap' = now /\ call' = [call EXCEPT ![t] = next]
      /\ tracks' = tracks /\ alone' = alone /\ carried' = carried
  BY DEF Analyze
<1>3. /\ call'[t] = next
      /\ \A u \in Threads \ {t} : call'[u] = call[u]
  BY <1>2 DEF AnalyzerTypes
<1>4. AnalyzerTypes'
  <2>1. next \in [at : {"idle", "update", "analyze", "found", "nothing"}, frame : 0..15]
    BY <1>1 DEF Frames
  <2>2. now \in Nat \cup {NoEntry}
    BY CountedIsCount DEF AnalyzerTypes
  <2> HIDE DEF next, now
  <2> QED
    BY <1>2, <2>1, <2>2 DEF AnalyzerTypes
<1>5. t \in Running /\ Running' \subseteq Running
  BY <1>1, <1>3 DEF Running
<1>6. ASSUME alone[t]
      PROVE  LET due == Due(carried[t].overlap)
             IN  /\ Running = {t} /\ f <= due
                 /\ next.at = "found" =>
                      /\ next.frame = f
                      /\ carried[t].stopped < 17 => f = due
                 /\ next.at # "found" =>
                      /\ next = [at |-> "update", frame |-> f + 1] /\ f + 1 <= due
                      /\ Value(now) = CountAt(carried[t].overlap, f + 1)
                      /\ \A v \in Pair : Drove(tracks[v], v, f, carried[t].stopped)
  <2> DEFINE due == Due(carried[t].overlap)
  <2> HIDE DEF f, now
  <2>1. carried[t].overlap \in Nat /\ carried[t].stopped \in Nat
    BY DEF AnalyzerTypes
  <2>2. /\ Running = {t} /\ f <= due
        /\ Value(overlap) = CountAt(carried[t].overlap, f)
        /\ \A v \in Pair : Drove(tracks[v], v, f, carried[t].stopped)
    BY <1>1, <1>5, <1>6 DEF LoneCalls, OnItsWay, f
  <2>3. due \in 4..13
    BY <2>1, DueIs
  <2>4. tracks[1].x = Edge(1, f) /\ tracks[2].x = Edge(2, f)
    BY <2>2 DEF Drove, Pair
  <2>5. Overlaps(tracks) <=> f >= 4
    BY <1>1, <2>4, OverlapFrames
  <2>6. Value(now) = CountAt(carried[t].overlap, f + 1)
    <3>1. overlap \in Nat \cup {NoEntry}
      BY DEF AnalyzerTypes
    <3> QED
      BY <1>1, <2>1, <2>2, <2>5, <3>1, NextCount DEF now
  <2>7. IsCollision(tracks, now) <=> f >= due
    BY <1>1, <2>1, <2>2, <2>6, CollisionFrame, Zenon
  <2>8. carried[t].stopped < 17 /\ f < due => StalledTracks(tracks) = {}
    <3> SUFFICES ASSUME carried[t].stopped < 17, f < due
                 PROVE  StalledTracks(tracks) = {}
      OBVIOUS
    <3>1. f \in 0..12
      BY <1>1, <2>3
    <3> QED
      BY <2>1, <2>2, <3>1, NoStallBefore
  <2>9. next.at = "found" <=> IsIncident(tracks, now)
    OBVIOUS
  <2>10. IsIncident(tracks, now) <=> IsCollision(tracks, now) \/ StalledTracks(tracks) # {}
    BY DEF IsIncident
  <2>11. next.at = "found" => next.frame = f
    OBVIOUS
  <2>12. ASSUME next.at # "found"
         PROVE  next = [at |-> "update", frame |-> f + 1] /\ f + 1 <= due
    <3>1. f < due
      BY <1>1, <2>3, <2>7, <2>9, <2>10, <2>12
    <3>2. f + 1 # Frames
      BY <1>1, <2>3, <3>1 DEF Frames
    <3>3. next = [at |-> "update", frame |-> f + 1]
      BY <2>9, <2>12, <3>2
    <3> QED
      BY <1>1, <2>3, <3>1, <3>3
  <2> HIDE DEF next, due
  <2>13. next.at = "found" /\ carried[t].stopped < 17 => f = due
    BY <1>1, <2>2, <2>3, <2>7, <2>8, <2>9, <2>10
  <2> QED
    BY <2>2, <2>6, <2>11, <2>12, <2>13 DEF due
<1> HIDE DEF next, now, f
<1>7. LoneCalls'
  <2> SUFFICES ASSUME NEW u \in Threads, alone'[u], u \in Running'
               PROVE  OnItsWay(u)'
    BY DEF LoneCalls
  <2>1. u = t /\ alone[t]
    BY <1>2, <1>5 DEF LoneCalls, OnItsWay
  <2>2. next.at # "found"
    BY <1>3, <2>1 DEF Running
  <2>3. call'[t] = [at |-> "update", frame |-> f + 1]
    BY <1>3, <1>6, <2>1, <2>2
  <2>4. /\ Running = {t} /\ f + 1 <= Due(carried[t].overlap)
        /\ Value(now) = CountAt(carried[t].overlap, f + 1)
        /\ \A v \in Pair : Drove(tracks[v], v, f, carried[t].stopped)
    BY <1>6, <2>1, <2>2
  <2>5. Running' = {t}
    BY <1>5, <2>1, <2>4
  <2>6. f + 1 # 0 /\ (f + 1) - 1 = f
    BY <1>1
  <2>7. OnItsWay(t)'
    BY <1>2, <2>3, <2>4, <2>5, <2>6 DEF OnItsWay
  <2> QED
    BY <2>1, <2>7
<1>8. DueReports'
  <2> SUFFICES ASSUME NEW u \in Threads, alone'[u], call'[u].at \in {"found", "nothing"}
               PROVE  /\ call'[u].at = "found" /\ call'[u].frame <= Due(carried'[u].overlap)
                      /\ carried'[u].stopped < StalledFrames - 1 =>
                           call'[u].frame = Due(carried'[u].overlap)
    BY DEF DueReports
  <2>1. CASE u # t
    BY <1>2, <1>3, <2>1 DEF DueReports
  <2>2. CASE u = t
    <3>1. next.at = "found"
      BY <1>2, <1>3, <1>6, <2>2
    <3>2. StalledFrames - 1 = 17
      BY DEF StalledFrames
    <3> QED
      BY <1>2, <1>3, <1>6, <2>2, <3>1, <3>2
  <2> QED
    BY <2>1, <2>2
<1> QED
  BY <1>4, <1>7, <1>8

\* However many calls have been made before, alone or overlapping, a simulated
\* collision that runs alone is reported by its tenth frame of overlap, and not before
\* ten frames of overlap have been counted unless it found a long standstill.
THEOREM LoneCallReportsHolds == AnalyzerSpec => []LoneCallReports
<1>1. AnalyzerInv /\ [AnalyzerNext]_analyzer => AnalyzerInv'
  <2> SUFFICES ASSUME AnalyzerInv, [AnalyzerNext]_analyzer
               PROVE  AnalyzerInv'
    OBVIOUS
  <2>1. ASSUME NEW t \in Threads, Begin(t) \/ Update(t) \/ Analyze(t)
        PROVE  AnalyzerInv'
    BY <2>1, BeginStep, UpdateStep, AnalyzeStep
  <2>2. CASE UNCHANGED analyzer
    BY <2>2 DEF analyzer, AnalyzerInv, AnalyzerTypes, LoneCalls, OnItsWay, Running, DueReports
  <2> QED
    BY <2>1, <2>2 DEF AnalyzerNext
<1>2. AnalyzerInv => LoneCallReports
  <2> SUFFICES ASSUME AnalyzerInv, NEW t \in Threads, alone[t],
                      call[t].at \in {"found", "nothing"}
               PROVE  /\ call[t].at = "found" /\ call[t].frame < Meets + Persist
                      /\ carried[t].stopped < StalledFrames - 1 =>
                           call[t].frame >= Due(carried[t].overlap)
    BY DEF LoneCallReports
  <2>1. /\ call[t].at = "found" /\ call[t].frame <= Due(carried[t].overlap)
        /\ carried[t].stopped < StalledFrames - 1 =>
             call[t].frame = Due(carried[t].overlap)
    BY DEF AnalyzerInv, DueReports
  <2>2. carried[t].overlap \in Nat /\ call[t].frame \in 0..15
    BY DEF AnalyzerInv, AnalyzerTypes
  <2>3. Due(carried[t].overlap) \in 4..13
    BY <2>2, DueIs
  <2> QED
    BY <2>1, <2>2, <2>3 DEF Meets, Persist
<1> QED
  BY <1>1, <1>2, InitLone, PTL DEF AnalyzerSpec
=============================================================================
