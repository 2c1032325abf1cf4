----------------------------- MODULE PlateReader -----------------------------
(***************************************************************************)
(* From a frame to the plates of its vehicles:                             *)
(* services/detection/vehicle_detector.py and services/anpr/ (pipeline,    *)
(* OCR engine, scorer), with the normalisation of models/anpr.py.          *)
(*                                                                         *)
(* The detector looks at every Skip-th frame.  Its tracker, a library,     *)
(* names the vehicles of a frame; when it raises, a detection without      *)
(* names takes its place.  The reader tries a named vehicle a few times    *)
(* and keeps the first reliable reading under that name for good.  The     *)
(* tracker may hand a name to another vehicle, as trackers do.             *)
(*                                                                         *)
(* Confidences are percentages, scores hundredths of a percent.            *)
(***************************************************************************)
EXTENDS Integers, Sequences, FiniteSets, SequencesExt

CONSTANTS
    Vehicles,
    Plate,          \* Plate[v]: the characters on the plate of v
    Tracks,         \* names the tracker hands out
    None,
    Skip,           \* frame_skip
    Tries,          \* attempts before a track is given up
    Reliable,       \* score from which a reading is kept for its track
    MinConf,        \* _MIN_OCR_CONFIDENCE
    PlateModel,     \* is a plate detection model loaded?
    PlateConfs,     \* confidences that model gives
    OcrConfs,       \* confidences the OCR gives a fragment
    Cuts,           \* places where the OCR may see a text as two fragments
    Confusions,     \* pairs of characters: the first, seen as the second
    MaxFrames       \* bound: frames of the stream

VARIABLES
    frames,     \* _frame_counter
    processed,  \* total_frames_processed
    todo,       \* detections of the frame that on_frame has still to read
    cache,      \* cache[t]: _track_cache, None without an entry
    attempts,   \* attempts[t]: _track_attempts
    out,        \* the last answer of process (history)
    owners      \* owners[t]: vehicles the tracker called t (history)

reader == <<cache, attempts, out>>
vars == <<frames, processed, todo, owners, reader>>

-----------------------------------------------------------------------------
(* The text of a plate: models/anpr.py.                                    *)

Letter == {"A", "B", "C", "D", "E", "F", "G", "H", "I", "J", "K", "L", "M",
           "N", "O", "P", "Q", "R", "S", "T", "U", "V", "W", "X", "Y", "Z"}
Digit == {"0", "1", "2", "3", "4", "5", "6", "7", "8", "9"}
\* What a text may hold: "?" stands for any character that is neither of the two
\* nor a separator.
Char == Letter \cup Digit \cup {"?"}

letter_to_digit == [O |-> "0", Q |-> "0", D |-> "0", I |-> "1", L |-> "1",
                    Z |-> "2", S |-> "5", B |-> "8"]

\* The letter that letter_to_digit takes to the digit, where the code has one.
digit_to_letter ==
    [d \in {"0", "1", "2", "5", "8"} |->
        CASE d = "0" -> "O" [] d = "1" -> "I" [] d = "2" -> "Z"
          [] d = "5" -> "S" [] d = "8" -> "B"]

\* Where a plate of n characters has its letters: state and series.
LetterAt(n) == IF n = 10 THEN {1, 2, 5, 6} ELSE {1, 2, 5}

Corrected(ch, table) == IF ch \in DOMAIN table THEN table[ch] ELSE ch

(* The positional correction of a text of nine or ten characters.          *)
Correct(text) ==
    [i \in DOMAIN text |->
        Corrected(text[i], IF i \in LetterAt(Len(text)) THEN digit_to_letter
                           ELSE letter_to_digit)]

is_valid_plate_format(text) ==
    /\ Len(text) \in {9, 10}
    /\ \A i \in DOMAIN text :
          text[i] \in (IF i \in LetterAt(Len(text)) THEN Letter ELSE Digit)

\* Slip: the places of the longer format serve both.
normalise_plate_OneFormat(text) ==
    LET longer == [i \in DOMAIN text |->
                    Corrected(text[i], IF i \in LetterAt(10) THEN digit_to_letter
                                       ELSE letter_to_digit)]
    IN IF is_valid_plate_format(longer) THEN longer ELSE text

(* A text whose correction is no plate stays as it was read.  Separators   *)
(* are no characters of the model's texts.                                 *)
normalise_plate(text) ==
    IF is_valid_plate_format(Correct(text)) THEN Correct(text) ELSE text

-----------------------------------------------------------------------------
(* One reading.                                                            *)

\* What ANPRResult carries on.  The rest is history: has the text the length of
\* the plate, was every misreading of it one that the tables take back, and whose
\* plate was in view?
Result == [plate : Seq(Char), valid : BOOLEAN, score : Nat,
           whole : BOOLEAN, undone : BOOLEAN, of : Vehicles]
Detection == [vehicle : Vehicles, track : Tracks \cup {None}]

\* score: plate 35, OCR 50, format 15.
Score(plateConf, ocrConf, valid) ==
    35 * plateConf + 50 * ocrConf + (IF valid THEN 1500 ELSE 0)

\* The fragments that are confident enough.  The code looks whether a text is
\* empty before it strips it: a fragment of blanks is kept and counts.
Kept(fragments) ==
    {i \in DOMAIN fragments : fragments[i].shown /\ fragments[i].conf >= MinConf}

(* read_plate and score: the kept fragments are joined, their confidence   *)
(* is the average.                                                         *)
ResultOf(v, fragments, plateConf, undone) ==
    LET part(i) == IF i \in Kept(fragments) THEN fragments[i].text ELSE << >>
        text == normalise_plate(part(1) \o part(2))
        conf == MapThenSumSet(LAMBDA i : fragments[i].conf, Kept(fragments))
                    \div Cardinality(Kept(fragments))
    IN [plate |-> text, valid |-> is_valid_plate_format(text),
        score |-> Score(plateConf, conf, is_valid_plate_format(text)),
        whole |-> Len(text) = Len(Plate[v]), undone |-> undone, of |-> v]

\* What the OCR may take a character for.
SeenAs(ch) == {ch} \cup {c[2] : c \in {d \in Confusions : d[1] = ch}}

\* The texts the OCR may see on a plate: odd are the places it may confuse.
Misread(text) ==
    LET odd == {i \in DOMAIN text : SeenAs(text[i]) # {text[i]}}
        seen == UNION {SeenAs(text[i]) : i \in odd}
    IN {[i \in DOMAIN text |-> IF i \in odd THEN pick[i] ELSE text[i]] :
          pick \in {p \in [odd -> seen] : \A i \in odd : p[i] \in SeenAs(text[i])}}

\* A misread character from which a table leads back to the one on the plate.  No
\* table leads from a digit to D, Q or L, or from any character to itself.
TakenBack(ch, seen) ==
    \/ seen = ch
    \/ ch \in Digit /\ seen \in DOMAIN letter_to_digit /\ letter_to_digit[seen] = ch
    \/ ch \in Letter /\ seen \in DOMAIN digit_to_letter /\ digit_to_letter[seen] = ch

IsUndone(v, x) == \A i \in DOMAIN Plate[v] : TakenBack(Plate[v][i], x[i])

\* Heuristic regions have a confidence of their own.
RegionConfs == IF PlateModel THEN PlateConfs ELSE {60}

\* A text in two fragments; one without characters is blank or not there at all.
Split(text, n, confs, blank) ==
    <<[text |-> SubSeq(text, 1, n), conf |-> confs[1], shown |-> n > 0 \/ blank],
      [text |-> SubSeq(text, n + 1, Len(text)), conf |-> confs[2],
       shown |-> n < Len(text) \/ blank]>>

(* Everything one look at v may give.                                      *)
Results(v) ==
    LET readings == {[fragments |-> Split(x[1], x[2], x[3], x[4]),
                      undone |-> IsUndone(v, x[1])] :
                        x \in Misread(Plate[v]) \X (Cuts \cup {Len(Plate[v])})
                                \X (OcrConfs \X OcrConfs) \X BOOLEAN}
    IN {ResultOf(v, x[1].fragments, x[2], x[1].undone) :
          x \in {r \in readings : Kept(r.fragments) # {}} \X RegionConfs}

ResultTable == [v \in Vehicles |-> Results(v)]

ASSUME ReaderConstants ==
    /\ Plate \in [Vehicles -> Seq(Char)]
    /\ \A v \in Vehicles : is_valid_plate_format(Plate[v])
    /\ Confusions \subseteq Char \X Char
    /\ None \notin Tracks
    /\ Skip \in Nat \ {0} /\ Tries \in Nat
    /\ {Reliable, MinConf, MaxFrames} \subseteq Nat
    /\ PlateModel \in BOOLEAN
    /\ PlateConfs \subseteq Nat /\ OcrConfs \subseteq Nat /\ Cuts \subseteq 0 .. 9

Looks == UNION {ResultTable[v] : v \in Vehicles}

-----------------------------------------------------------------------------

\* An answer of process: for which detection, what, and how it came about.
Answer == [det : Detection, result : Looks \cup {None},
           how : {"cached", "given up", "unread", "read"}]

TypeOK ==
    /\ frames \in 0 .. MaxFrames
    /\ processed \in 0 .. frames
    /\ todo \subseteq Detection
    /\ cache \in [Tracks -> Looks \cup {None}]
    /\ attempts \in [Tracks -> 0 .. Tries]
    /\ out \in Answer \cup {None}
    /\ owners \in [Tracks -> SUBSET Vehicles]

Init ==
    /\ frames = 0 /\ processed = 0
    /\ todo = {}
    /\ cache = [t \in Tracks |-> None]
    /\ attempts = [t \in Tracks |-> 0]
    /\ out = None
    /\ owners = [t \in Tracks |-> {}]

(* A frame reaches the detector once the vehicles of the last are done.    *)
NextFrame ==
    /\ todo = {}
    /\ frames < MaxFrames
    /\ frames' = frames + 1
    /\ UNCHANGED reader

IsSkipped == (frames + 1) % Skip # 0

SkipFrame ==
    /\ NextFrame /\ IsSkipped
    /\ UNCHANGED <<processed, todo, owners>>

\* One box per vehicle, one vehicle per name.
Named ==
    {dets \in SUBSET [vehicle : Vehicles, track : Tracks] :
        \A d, e \in dets : d.vehicle = e.vehicle \/ d.track = e.track => d = e}

Unnamed == {[vehicle |-> v, track |-> None] : v \in Vehicles}

(* The tracker names what it sees; the fallback names nothing.             *)
DetectFrame ==
    /\ NextFrame /\ ~IsSkipped
    /\ processed' = processed + 1
    /\ todo' \in Named \cup SUBSET Unnamed
    /\ owners' = [t \in Tracks |->
                     owners[t] \cup {d.vehicle : d \in {e \in todo' : e.track = t}}]

(* Tracker and fallback raise: the frame is lost to the callback.          *)
InferenceFails ==
    /\ NextFrame /\ ~IsSkipped
    /\ UNCHANGED <<processed, todo, owners>>

-----------------------------------------------------------------------------
(* One vehicle: ANPRPipeline.process.                                      *)

Answers(d, result, how) ==
    /\ todo' = todo \ {d}
    /\ out' = [det |-> d, result |-> result, how |-> how]
    /\ UNCHANGED <<frames, processed, owners>>

IsCached(d) == d.track # None /\ cache[d.track] # None

\* Slip: the attempts are looked at before the cache.
IsGivenUp_First(d) == d.track # None /\ attempts[d.track] >= Tries

\* Slip: the limit is exceeded before it counts.
IsGivenUp_OneMore(d) ==
    /\ d.track # None
    /\ cache[d.track] = None
    /\ attempts[d.track] > Tries

IsGivenUp(d) ==
    /\ d.track # None
    /\ cache[d.track] = None
    /\ attempts[d.track] >= Tries

(* The first reliable reading of a track answers for it from then on.      *)
ReuseReading(d) ==
    /\ IsCached(d)
    /\ Answers(d, cache[d.track], "cached")
    /\ UNCHANGED <<cache, attempts>>

GiveUp(d) ==
    /\ IsGivenUp(d)
    /\ Answers(d, None, "given up")
    /\ UNCHANGED <<cache, attempts>>

\* An attempt counts before its outcome is known; without a name none does.
Attempt(d) ==
    /\ ~IsCached(d) /\ ~IsGivenUp(d)
    /\ attempts' = IF d.track = None THEN attempts
                   ELSE [attempts EXCEPT ![d.track] = @ + 1]

(* The crop is empty or small, no plate is found in it, or no text on it.  *)
FailToRead(d) ==
    /\ Attempt(d)
    /\ Answers(d, None, "unread")
    /\ UNCHANGED cache

IsReliable(r) == r.score >= Reliable /\ r.valid

ReadPlate(d) ==
    /\ Attempt(d)
    /\ \E r \in ResultTable[d.vehicle] :
          /\ Answers(d, r, "read")
          /\ cache' = IF d.track # None /\ IsReliable(r)
                      THEN [cache EXCEPT ![d.track] = r] ELSE cache

Next ==
    \/ SkipFrame \/ DetectFrame \/ InferenceFails
    \/ \E d \in todo : \/ ReuseReading(d) \/ GiveUp(d)
                        \/ FailToRead(d) \/ ReadPlate(d)

Spec == Init /\ [][Next]_vars

-----------------------------------------------------------------------------
(* Properties.                                                             *)

\* An answer is the plate of the vehicle in the box, and the plate of another
\* vehicle or of none comes from three sources only: the tracker called different
\* vehicles by one name, the text has not the length of the plate, or a character
\* was misread in a way from which no table of normalise_plate leads back: a D, Q
\* or L as a digit (it comes back as O or I, in a valid plate), a 3 as an 8.
\* Neither the cache of process nor the joining of fragments, blank ones among
\* them, nor the choice of places for the correction adds a fourth.
OwnPlate ==
    out # None =>
        LET d == out.det
            r == out.result
        IN r # None /\ r.whole /\ r.undone
              /\ (d.track # None => owners[d.track] = {d.vehicle})
              => r.plate = Plate[d.vehicle]

\* Once a track has a reliable reading, every later answer for that track is
\* this reading, also in frames the OCR would fail on, after the attempts are
\* used up and beside other readings of the same frame: process looks at the
\* cache before the throttle and an entry stays for good.
AnswersStay ==
    [][\A d \in todo \ todo' :
          d.track # None /\ cache[d.track] # None =>
              out'.result = cache[d.track] /\ cache'[d.track] = cache[d.track]]_vars
=============================================================================
