------------------------ MODULE StreamManagerProofs ------------------------
(***************************************************************************)
(* Proofs about StreamManager, for every value of its constants: the       *)
(* invariants of the runs, and that it implements StreamLifecycle (safety).*)
(* The inductive invariant IInv strengthens each property by what it takes *)
(* for granted; the parts are proved inductive on top of TypeOK.           *)
(***************************************************************************)
EXTENDS StreamManager, TLAPS

Connected == Reading \cup {"rtsp", "hls", "lost"}

\* The n-th delay of the schedule, and the value the generator yields next.
Delay(n) == IF n < 5 THEN Schedule[n] ELSE 30

\* The one late frame is spent before the worker looks at the event again.
LateInv ==
    /\ late \in {0, 1}
    /\ late = 1 => stopEvent /\ worker \in {"callback", "check", "exit"}

\* The generator stands one step ahead of the failures counted.
DelayInv ==
    /\ backoff = Delay(fails + 1)
    /\ worker = "sleep" => fails >= 1 /\ nap = Delay(fails)

\* A call of stop() in progress has raised the event before it writes state.
StateInv ==
    /\ ctl # "idle" => stopEvent
    /\ StateTruthful

\* Attempts and failures advance in step, and neither gets past the limit.
LimitInv ==
    MaxReconnects # None =>
        /\ opens <= MaxReconnects
        /\ worker \in {"loop", "sleep", "connect"} => opens = count
        /\ worker = "connect" => count < MaxReconnects
        /\ worker \in Connected => opens = count + 1

IInv == TypeOK /\ LateInv /\ DelayInv /\ StateInv /\ EndsStopped /\ LimitInv

-----------------------------------------------------------------------------
(* Each part is kept by every step, given the type invariant. *)

\* A saturating counter stays in its range.
LEMMA BumpType ==
    ASSUME NEW max \in Nat, NEW n \in 0 .. max
    PROVE  Bump(n, max) \in 0 .. max
BY DEF Bump

\* Types.
LEMMA TypeStep ==
    ASSUME TypeOK, [Next]_vars
    PROVE  TypeOK'
<1> USE StreamConstants DEF TypeOK, Places, Reading, StreamState, BackoffInitial, BackoffMax
<1>1. CASE Start
  <2>1. 0 \in 0 .. Cap /\ 0 \in 0 .. Cap + 1
    OBVIOUS
  <2>2. /\ stopEvent' \in BOOLEAN /\ ctl' = ctl /\ call' = "start"
        /\ worker' = "loop" /\ state' = state
        /\ count' = 0 /\ backoff' = 2 /\ nap' = nap /\ fails' = 0
        /\ silence' = silence /\ waited' = waited /\ opens' = 0 /\ late' = 0
    BY <1>1 DEF Start
  <2> QED
    BY <2>1, <2>2
<1>2. CASE StartIgnored
    BY <1>2 DEF StartIgnored, thread
<1>3. CASE StopSignal
    BY <1>3 DEF StopSignal, thread
<1>4. CASE JoinEnded
    BY <1>4 DEF JoinEnded, thread
<1>5. CASE JoinTimeout
    BY <1>5 DEF JoinTimeout, thread
<1>6. CASE StopReturns
    BY <1>6 DEF StopReturns, thread
<1>7. CASE LoopHead
    BY <1>7 DEF LoopHead, GivesUp
<1>8. CASE Connect
    BY <1>8 DEF Connect, BackoffFactor, Bump
<1>9. CASE FallBack
    BY <1>9 DEF FallBack
<1>10. CASE Opened
    BY <1>10 DEF Opened
<1>11. CASE OpenFails
    BY <1>11 DEF OpenFails, Retry, BackoffFactor, Bump
<1>12. CASE SleepEnds
    BY <1>12 DEF SleepEnds
<1>13. CASE Lost
    BY <1>13 DEF Lost, Retry, BackoffFactor, Bump
<1>14. CASE Exit
    BY <1>14 DEF Exit
<1>15. CASE ReadHead
    BY <1>15 DEF ReadHead, reads
<1>16. CASE GrabFails
    BY <1>16 DEF GrabFails, reads
<1>17. CASE GrabSucceeds
    BY <1>17 DEF GrabSucceeds, reads
<1>18. CASE RetrieveFails
    BY <1>18 DEF RetrieveFails, reads
<1>19. CASE Deliver
    BY <1>19 DEF Deliver, reads
<1>20. CASE CallbackEnds
    BY <1>20 DEF CallbackEnds, reads
<1>21. CASE Tick
    BY <1>21 DEF Tick, reads, BackoffFactor, Bump
<1>22. CASE UNCHANGED vars
    BY <1>22 DEF vars
<1> QED
    BY <1>1, <1>2, <1>3, <1>4, <1>5, <1>6, <1>7, <1>8, <1>9, <1>10, <1>11,
       <1>12,
       <1>13, <1>14, <1>15, <1>16, <1>17, <1>18, <1>19, <1>20, <1>21, <1>22
       DEF Next, Controller, Worker

\* The late frame.
LEMMA LateStep ==
    ASSUME TypeOK, LateInv, [Next]_vars
    PROVE  LateInv'
<1> USE StreamConstants DEF TypeOK, LateInv, Places, Reading
<1>1. CASE Start
    BY <1>1 DEF Start
<1>2. CASE StartIgnored
    BY <1>2 DEF StartIgnored, thread
<1>3. CASE StopSignal
    BY <1>3 DEF StopSignal, thread
<1>4. CASE JoinEnded
    BY <1>4 DEF JoinEnded, thread
<1>5. CASE JoinTimeout
    BY <1>5 DEF JoinTimeout, thread
<1>6. CASE StopReturns
    BY <1>6 DEF StopReturns, thread
<1>7. CASE LoopHead
    BY <1>7 DEF LoopHead, GivesUp
<1>8. CASE Connect
    BY <1>8 DEF Connect
<1>9. CASE FallBack
    BY <1>9 DEF FallBack
<1>10. CASE Opened
    BY <1>10 DEF Opened
<1>11. CASE OpenFails
    BY <1>11 DEF OpenFails, Retry
<1>12. CASE SleepEnds
    BY <1>12 DEF SleepEnds
<1>13. CASE Lost
    BY <1>13 DEF Lost, Retry
<1>14. CASE Exit
    BY <1>14 DEF Exit
<1>15. CASE ReadHead
    BY <1>15 DEF ReadHead, reads
<1>16. CASE GrabFails
    BY <1>16 DEF GrabFails, reads
<1>17. CASE GrabSucceeds
    BY <1>17 DEF GrabSucceeds, reads
<1>18. CASE RetrieveFails
    BY <1>18 DEF RetrieveFails, reads
<1>19. CASE Deliver
    BY <1>19 DEF Deliver, reads
<1>20. CASE CallbackEnds
    BY <1>20 DEF CallbackEnds, reads
<1>21. CASE Tick
    BY <1>21 DEF Tick, reads
<1>22. CASE UNCHANGED vars
    BY <1>22 DEF vars
<1> QED
    BY <1>1, <1>2, <1>3, <1>4, <1>5, <1>6, <1>7, <1>8, <1>9, <1>10, <1>11,
       <1>12,
       <1>13, <1>14, <1>15, <1>16, <1>17, <1>18, <1>19, <1>20, <1>21, <1>22
       DEF Next, Controller, Worker

\* The delays.
LEMMA DelayStep ==
    ASSUME TypeOK, DelayInv, [Next]_vars
    PROVE  DelayInv'
<1> USE StreamConstants DEF TypeOK, DelayInv, Delay, Schedule, BackoffInitial, BackoffMax
<1>1. CASE Start
    BY <1>1 DEF Start
<1>2. CASE StartIgnored
    BY <1>2 DEF StartIgnored, thread
<1>3. CASE StopSignal
    BY <1>3 DEF StopSignal, thread
<1>4. CASE JoinEnded
    BY <1>4 DEF JoinEnded, thread
<1>5. CASE JoinTimeout
    BY <1>5 DEF JoinTimeout, thread
<1>6. CASE StopReturns
    BY <1>6 DEF StopReturns, thread
<1>7. CASE LoopHead
    BY <1>7 DEF LoopHead, GivesUp
<1>8. CASE Connect
    BY <1>8 DEF Connect
<1>9. CASE FallBack
    BY <1>9 DEF FallBack
<1>10. CASE Opened
    BY <1>10 DEF Opened
<1>11. CASE OpenFails
    BY <1>11 DEF OpenFails, Retry, BackoffFactor, Bump
<1>12. CASE SleepEnds
    BY <1>12 DEF SleepEnds
<1>13. CASE Lost
    BY <1>13 DEF Lost, Retry, BackoffFactor, Bump
<1>14. CASE Exit
    BY <1>14 DEF Exit
<1>15. CASE ReadHead
    BY <1>15 DEF ReadHead, reads
<1>16. CASE GrabFails
    BY <1>16 DEF GrabFails, reads
<1>17. CASE GrabSucceeds
    BY <1>17 DEF GrabSucceeds, reads
<1>18. CASE RetrieveFails
    BY <1>18 DEF RetrieveFails, reads
<1>19. CASE Deliver
    BY <1>19 DEF Deliver, reads
<1>20. CASE CallbackEnds
    BY <1>20 DEF CallbackEnds, reads
<1>21. CASE Tick
    BY <1>21 DEF Tick, reads
<1>22. CASE UNCHANGED vars
    BY <1>22 DEF vars
<1> QED
    BY <1>1, <1>2, <1>3, <1>4, <1>5, <1>6, <1>7, <1>8, <1>9, <1>10, <1>11,
       <1>12,
       <1>13, <1>14, <1>15, <1>16, <1>17, <1>18, <1>19, <1>20, <1>21, <1>22
       DEF Next, Controller, Worker

\* The state shown.
LEMMA StateStep ==
    ASSUME TypeOK, StateInv, [Next]_vars
    PROVE  StateInv'
<1> USE StreamConstants DEF TypeOK, StateInv, StateTruthful, Reading
<1>1. CASE Start
    BY <1>1 DEF Start
<1>2. CASE StartIgnored
    BY <1>2 DEF StartIgnored, thread
<1>3. CASE StopSignal
    BY <1>3 DEF StopSignal, thread
<1>4. CASE JoinEnded
    BY <1>4 DEF JoinEnded, thread
<1>5. CASE JoinTimeout
    BY <1>5 DEF JoinTimeout, thread
<1>6. CASE StopReturns
    BY <1>6 DEF StopReturns, thread
<1>7. CASE LoopHead
    BY <1>7 DEF LoopHead, GivesUp
<1>8. CASE Connect
    BY <1>8 DEF Connect
<1>9. CASE FallBack
    BY <1>9 DEF FallBack
<1>10. CASE Opened
    BY <1>10 DEF Opened
<1>11. CASE OpenFails
    BY <1>11 DEF OpenFails, Retry
<1>12. CASE SleepEnds
    BY <1>12 DEF SleepEnds
<1>13. CASE Lost
    BY <1>13 DEF Lost, Retry
<1>14. CASE Exit
    BY <1>14 DEF Exit
<1>15. CASE ReadHead
    BY <1>15 DEF ReadHead, reads
<1>16. CASE GrabFails
    BY <1>16 DEF GrabFails, reads
<1>17. CASE GrabSucceeds
    BY <1>17 DEF GrabSucceeds, reads
<1>18. CASE RetrieveFails
    BY <1>18 DEF RetrieveFails, reads
<1>19. CASE Deliver
    BY <1>19 DEF Deliver, reads
<1>20. CASE CallbackEnds
    BY <1>20 DEF CallbackEnds, reads
<1>21. CASE Tick
    BY <1>21 DEF Tick, reads
<1>22. CASE UNCHANGED vars
    BY <1>22 DEF vars
<1> QED
    BY <1>1, <1>2, <1>3, <1>4, <1>5, <1>6, <1>7, <1>8, <1>9, <1>10, <1>11,
       <1>12,
       <1>13, <1>14, <1>15, <1>16, <1>17, <1>18, <1>19, <1>20, <1>21, <1>22
       DEF Next, Controller, Worker

\* The state left behind.
LEMMA EndsStep ==
    ASSUME TypeOK, EndsStopped, [Next]_vars
    PROVE  EndsStopped'
<1> USE StreamConstants DEF TypeOK, EndsStopped
<1>1. CASE Start
    BY <1>1 DEF Start
<1>2. CASE StartIgnored
    BY <1>2 DEF StartIgnored, thread
<1>3. CASE StopSignal
    BY <1>3 DEF StopSignal, thread
<1>4. CASE JoinEnded
    BY <1>4 DEF JoinEnded, thread
<1>5. CASE JoinTimeout
    BY <1>5 DEF JoinTimeout, thread
<1>6. CASE StopReturns
    BY <1>6 DEF StopReturns, thread
<1>7. CASE LoopHead
    BY <1>7 DEF LoopHead, GivesUp
<1>8. CASE Connect
    BY <1>8 DEF Connect
<1>9. CASE FallBack
    BY <1>9 DEF FallBack
<1>10. CASE Opened
    BY <1>10 DEF Opened
<1>11. CASE OpenFails
    BY <1>11 DEF OpenFails, Retry
<1>12. CASE SleepEnds
    BY <1>12 DEF SleepEnds
<1>13. CASE Lost
    BY <1>13 DEF Lost, Retry
<1>14. CASE Exit
    BY <1>14 DEF Exit
<1>15. CASE ReadHead
    BY <1>15 DEF ReadHead, reads
<1>16. CASE GrabFails
    BY <1>16 DEF GrabFails, reads
<1>17. CASE GrabSucceeds
    BY <1>17 DEF GrabSucceeds, reads
<1>18. CASE RetrieveFails
    BY <1>18 DEF RetrieveFails, reads
<1>19. CASE Deliver
    BY <1>19 DEF Deliver, reads
<1>20. CASE CallbackEnds
    BY <1>20 DEF CallbackEnds, reads
<1>21. CASE Tick
    BY <1>21 DEF Tick, reads
<1>22. CASE UNCHANGED vars
    BY <1>22 DEF vars
<1> QED
    BY <1>1, <1>2, <1>3, <1>4, <1>5, <1>6, <1>7, <1>8, <1>9, <1>10, <1>11,
       <1>12,
       <1>13, <1>14, <1>15, <1>16, <1>17, <1>18, <1>19, <1>20, <1>21, <1>22
       DEF Next, Controller, Worker

\* The limit.
LEMMA LimitStep ==
    ASSUME TypeOK, LimitInv, [Next]_vars
    PROVE  LimitInv'
<1> USE StreamConstants DEF TypeOK, LimitInv, Connected, Reading
<1>1. CASE Start
    BY <1>1 DEF Start
<1>2. CASE StartIgnored
    BY <1>2 DEF StartIgnored, thread
<1>3. CASE StopSignal
    BY <1>3 DEF StopSignal, thread
<1>4. CASE JoinEnded
    BY <1>4 DEF JoinEnded, thread
<1>5. CASE JoinTimeout
    BY <1>5 DEF JoinTimeout, thread
<1>6. CASE StopReturns
    BY <1>6 DEF StopReturns, thread
<1>7. CASE LoopHead
    BY <1>7 DEF LoopHead, GivesUp
<1>8. CASE Connect
    BY <1>8 DEF Connect, Bump
<1>9. CASE FallBack
    BY <1>9 DEF FallBack
<1>10. CASE Opened
    BY <1>10 DEF Opened
<1>11. CASE OpenFails
    BY <1>11 DEF OpenFails, Retry, Bump
<1>12. CASE SleepEnds
    BY <1>12 DEF SleepEnds
<1>13. CASE Lost
    BY <1>13 DEF Lost, Retry, Bump
<1>14. CASE Exit
    BY <1>14 DEF Exit
<1>15. CASE ReadHead
    BY <1>15 DEF ReadHead, reads
<1>16. CASE GrabFails
    BY <1>16 DEF GrabFails, reads
<1>17. CASE GrabSucceeds
    BY <1>17 DEF GrabSucceeds, reads
<1>18. CASE RetrieveFails
    BY <1>18 DEF RetrieveFails, reads
<1>19. CASE Deliver
    BY <1>19 DEF Deliver, reads
<1>20. CASE CallbackEnds
    BY <1>20 DEF CallbackEnds, reads
<1>21. CASE Tick
    BY <1>21 DEF Tick, reads
<1>22. CASE UNCHANGED vars
    BY <1>22 DEF vars
<1> QED
    BY <1>1, <1>2, <1>3, <1>4, <1>5, <1>6, <1>7, <1>8, <1>9, <1>10, <1>11,
       <1>12,
       <1>13, <1>14, <1>15, <1>16, <1>17, <1>18, <1>19, <1>20, <1>21, <1>22
       DEF Next, Controller, Worker

-----------------------------------------------------------------------------
(* The invariant, and what follows from it. *)

\* A stream that was never started satisfies the invariant.
LEMMA InitIInv ==
    ASSUME Init
    PROVE  IInv
<1> USE StreamConstants DEF Init
<1>1. TypeOK
  <2>1. /\ 0 \in 0 .. Cap /\ 0 \in 0 .. Cap + 1
        /\ 0 \in 0 .. Timeout + 1
    OBVIOUS
  <2>2. /\ BackoffInitial \in BackoffInitial .. BackoffMax
        /\ 0 \in 0 .. BackoffMax
    BY DEF BackoffInitial, BackoffMax
  <2>3. "off" \in Places /\ "DISCONNECTED" \in StreamState
    BY DEF Places, StreamState
  <2> QED
    BY <2>1, <2>2, <2>3 DEF TypeOK
<1>2. LateInv
    BY DEF LateInv
<1>3. DelayInv
    BY DEF DelayInv, Delay, Schedule, BackoffInitial
<1>4. StateInv
    BY DEF StateInv, StateTruthful, Reading
<1>5. EndsStopped
    BY DEF EndsStopped
<1>6. LimitInv
    BY DEF LimitInv, Connected, Reading
<1> QED
    BY <1>1, <1>2, <1>3, <1>4, <1>5, <1>6 DEF IInv

\* IInv holds in every reachable state.
LEMMA Invariance == Spec => []IInv
<1>1. Init => IInv
    BY InitIInv
<1>2. IInv /\ [Next]_vars => IInv'
    BY TypeStep, LateStep, DelayStep, StateStep, EndsStep, LimitStep DEF IInv
<1> QED
    BY <1>1, <1>2, PTL DEF Spec

\* Every variable keeps to its type: a worker is always at a place of run() or
\* _read_frames(), and no delay leaves the range of _backoff_delays.
THEOREM TypeCorrect == Spec => []TypeOK
<1>1. IInv => TypeOK
    BY DEF IInv
<1> QED
    BY <1>1, Invariance, PTL

\* After stop() at most one more frame reaches on_frame.
THEOREM AtMostOneLateFrameHolds == Spec => []AtMostOneLateFrame
<1>1. IInv => AtMostOneLateFrame
    BY DEF IInv, LateInv, AtMostOneLateFrame
<1> QED
    BY <1>1, Invariance, PTL

\* The n-th failure in a row sleeps for the n-th delay of _backoff_delays.
THEOREM BackoffLawHolds == Spec => []BackoffLaw
<1>1. IInv => BackoffLaw
    BY DEF IInv, TypeOK, DelayInv, Delay, BackoffLaw, Schedule
<1> QED
    BY <1>1, Invariance, PTL

\* info.state tells the truth about a worker nobody asked to stop.
THEOREM StateTruthfulHolds == Spec => []StateTruthful
<1>1. IInv => StateTruthful
    BY DEF IInv, StateInv
<1> QED
    BY <1>1, Invariance, PTL

\* run() leaves STOPPED behind, whatever the order of its last write and
\* stop()'s.
THEOREM EndsStoppedHolds == Spec => []EndsStopped
<1>1. IInv => EndsStopped
    BY DEF IInv
<1> QED
    BY <1>1, Invariance, PTL

\* max_reconnects bounds the attempts to reach the camera.
THEOREM WithinLimitHolds == Spec => []WithinLimit
<1>1. IInv => WithinLimit
    BY DEF IInv, LimitInv, WithinLimit
<1> QED
    BY <1>1, Invariance, PTL

-----------------------------------------------------------------------------
(* StreamManager implements StreamLifecycle. *)

\* Every step of the threads is a step of the lifecycle or none: the start of
\* a thread switches on, raising the event is the request, a callback begun
\* after it is the late frame, and the end of run() switches off.
LEMMA StepSimulation ==
    ASSUME TypeOK, LateInv, [Next]_vars
    PROVE  [Life!LifeNext]_(Life!lifecycle)
<1> USE DEF TypeOK, LateInv, Life!LifeNext, Life!lifecycle
<1>1. CASE Start
    BY <1>1 DEF Start, Life!SwitchOn
<1>2. CASE StartIgnored
    BY <1>2 DEF StartIgnored, thread
<1>3. CASE StopSignal
    BY <1>3 DEF StopSignal, thread, Life!Request
<1>4. CASE JoinEnded
    BY <1>4 DEF JoinEnded, thread
<1>5. CASE JoinTimeout
    BY <1>5 DEF JoinTimeout, thread
<1>6. CASE StopReturns
    BY <1>6 DEF StopReturns, thread
<1>7. CASE LoopHead
    BY <1>7 DEF LoopHead, GivesUp
<1>8. CASE Connect
    BY <1>8 DEF Connect
<1>9. CASE FallBack
    BY <1>9 DEF FallBack
<1>10. CASE Opened
    BY <1>10 DEF Opened
<1>11. CASE OpenFails
    BY <1>11 DEF OpenFails, Retry
<1>12. CASE SleepEnds
    BY <1>12 DEF SleepEnds
<1>13. CASE Lost
    BY <1>13 DEF Lost, Retry
<1>14. CASE Exit
    BY <1>14 DEF Exit, Life!SwitchOff
<1>15. CASE ReadHead
    BY <1>15 DEF ReadHead, reads
<1>16. CASE GrabFails
    BY <1>16 DEF GrabFails, reads
<1>17. CASE GrabSucceeds
    BY <1>17 DEF GrabSucceeds, reads
<1>18. CASE RetrieveFails
    BY <1>18 DEF RetrieveFails, reads
<1>19. CASE Deliver
    BY <1>19 DEF Deliver, reads, Life!LateFrame
<1>20. CASE CallbackEnds
    BY <1>20 DEF CallbackEnds, reads
<1>21. CASE Tick
    BY <1>21 DEF Tick, reads
<1>22. CASE UNCHANGED vars
    BY <1>22 DEF vars
<1> QED
    BY <1>1, <1>2, <1>3, <1>4, <1>5, <1>6, <1>7, <1>8, <1>9, <1>10, <1>11,
       <1>12,
       <1>13, <1>14, <1>15, <1>16, <1>17, <1>18, <1>19, <1>20, <1>21, <1>22
       DEF Next, Controller, Worker

\* A StreamManager is a lifecycle: it is switched on before it is asked to
\* drain, drains with at most one frame, and comes to rest only from there.
THEOREM ImplementsLifecycle == Spec => Life!LifeSafety
<1>1. Init => Life!LifeInit
    BY DEF Init, Life!LifeInit
<1>2. IInv /\ [Next]_vars => [Life!LifeNext]_(Life!lifecycle)
    BY StepSimulation DEF IInv
<1> QED
    BY <1>1, <1>2, Invariance, PTL DEF Spec, Life!LifeSafety

-----------------------------------------------------------------------------
(* How long it takes: what StopHonoured and DeadStreamLeft rest on.          *)

\* The steps of the worker until it is off, at most, once the event is set.
ToStop(place) ==
    CASE place = "off" -> 0
      [] place = "exit" -> 1
      [] place \in {"loop", "check", "lost"} -> 2
      [] place \in {"callback", "sleep"} -> 3
      [] place \in {"retrieve", "hls"} -> 4
      [] place \in {"grab", "rtsp"} -> 5
      [] place = "connect" -> 6

\* The controller and the clock leave the worker where it is.
Waits == worker' = worker /\ [Controller \/ Tick]_vars

LEMMA StopStep ==
    ASSUME TypeOK, [Next]_vars, stopEvent, stopEvent'
    PROVE  Waits \/ ToStop(worker') < ToStop(worker)
<1> USE DEF TypeOK, Places, Reading, ToStop, Waits
<1>1. CASE Start
    BY <1>1 DEF Start, Controller
<1>2. CASE StartIgnored
    BY <1>2 DEF StartIgnored, thread, Controller
<1>3. CASE StopSignal
    BY <1>3 DEF StopSignal, thread, Controller
<1>4. CASE JoinEnded
    BY <1>4 DEF JoinEnded, thread, Controller
<1>5. CASE JoinTimeout
    BY <1>5 DEF JoinTimeout, thread, Controller
<1>6. CASE StopReturns
    BY <1>6 DEF StopReturns, thread, Controller
<1>7. CASE LoopHead
    BY <1>7 DEF LoopHead
<1>8. CASE Connect
    BY <1>8 DEF Connect
<1>9. CASE FallBack
    BY <1>9 DEF FallBack
<1>10. CASE Opened
    BY <1>10 DEF Opened
<1>11. CASE OpenFails
    BY <1>11 DEF OpenFails, Retry
<1>12. CASE SleepEnds
    BY <1>12 DEF SleepEnds
<1>13. CASE Lost
    BY <1>13 DEF Lost, Retry
<1>14. CASE Exit
    BY <1>14 DEF Exit
<1>15. CASE ReadHead
    BY <1>15 DEF ReadHead, reads
<1>16. CASE GrabFails
    BY <1>16 DEF GrabFails, reads
<1>17. CASE GrabSucceeds
    BY <1>17 DEF GrabSucceeds, reads
<1>18. CASE RetrieveFails
    BY <1>18 DEF RetrieveFails, reads
<1>19. CASE Deliver
    BY <1>19 DEF Deliver, reads
<1>20. CASE CallbackEnds
    BY <1>20 DEF CallbackEnds, reads
<1>21. CASE Tick
    BY <1>21 DEF Tick, reads
<1>22. CASE UNCHANGED vars
    BY <1>22 DEF vars
<1> QED
    BY <1>1, <1>2, <1>3, <1>4, <1>5, <1>6, <1>7, <1>8, <1>9, <1>10, <1>11,
       <1>12, <1>13, <1>14, <1>15, <1>16, <1>17, <1>18, <1>19, <1>20, <1>21, <1>22
       DEF Next, Controller, Worker

\* A request to stop is honoured by six steps of the worker, whatever the camera
\* does: each takes it nearer to its end, no step of others takes it back, and
\* a second start() changes that only once the worker is off.
THEOREM StopDescends ==
    Spec => [][stopEvent /\ stopEvent' =>
                  Waits \/ ToStop(worker') < ToStop(worker)]_vars
<1>1. IInv /\ [Next]_vars =>
        [stopEvent /\ stopEvent' => Waits \/ ToStop(worker') < ToStop(worker)]_vars
    BY StopStep DEF IInv
<1> QED
    BY <1>1, Invariance, PTL DEF Spec

\* A stream that has been silent beyond the timeout, and the steps of the worker
\* until it notices or gets a frame, at most, as long as every frame can be decoded.
Dead == worker \in Reading /\ silence > Timeout

ToNotice(place) ==
    CASE place = "callback" -> 4
      [] place = "check" -> 3
      [] place = "grab" -> 2
      [] OTHER -> 1

LEMMA DeadStep ==
    ASSUME TypeOK, [Next]_vars, ~RetrieveFails, Dead, Dead'
    PROVE  Waits \/ ToNotice(worker') < ToNotice(worker)
<1> USE StreamConstants DEF TypeOK, Places, Reading, ToNotice, Waits, Dead
<1>1. CASE Start
    BY <1>1 DEF Start, Controller
<1>2. CASE StartIgnored
    BY <1>2 DEF StartIgnored, thread, Controller
<1>3. CASE StopSignal
    BY <1>3 DEF StopSignal, thread, Controller
<1>4. CASE JoinEnded
    BY <1>4 DEF JoinEnded, thread, Controller
<1>5. CASE JoinTimeout
    BY <1>5 DEF JoinTimeout, thread, Controller
<1>6. CASE StopReturns
    BY <1>6 DEF StopReturns, thread, Controller
<1>7. CASE LoopHead
    BY <1>7 DEF LoopHead
<1>8. CASE Connect
    BY <1>8 DEF Connect
<1>9. CASE FallBack
    BY <1>9 DEF FallBack
<1>10. CASE Opened
    BY <1>10 DEF Opened
<1>11. CASE OpenFails
    BY <1>11 DEF OpenFails, Retry
<1>12. CASE SleepEnds
    BY <1>12 DEF SleepEnds
<1>13. CASE Lost
    BY <1>13 DEF Lost, Retry
<1>14. CASE Exit
    BY <1>14 DEF Exit
<1>15. CASE ReadHead
    BY <1>15 DEF ReadHead, reads
<1>16. CASE GrabFails
    BY <1>16 DEF GrabFails, reads
<1>17. CASE GrabSucceeds
    BY <1>17 DEF GrabSucceeds, reads
<1>18. CASE RetrieveFails
    BY <1>18
<1>19. CASE Deliver
    BY <1>19 DEF Deliver, reads
<1>20. CASE CallbackEnds
    BY <1>20 DEF CallbackEnds, reads
<1>21. CASE Tick
    BY <1>21 DEF Tick, reads
<1>22. CASE UNCHANGED vars
    BY <1>22 DEF vars
<1> QED
    BY <1>1, <1>2, <1>3, <1>4, <1>5, <1>6, <1>7, <1>8, <1>9, <1>10, <1>11,
       <1>12, <1>13, <1>14, <1>15, <1>16, <1>17, <1>18, <1>19, <1>20, <1>21, <1>22
       DEF Next, Controller, Worker

\* The worker notices a dead stream within four of its steps, whatever the
\* controller does; only a frame that cannot be decoded takes it past the look at
\* the clock.
THEOREM DeadStreamDescends ==
    Spec => [][~RetrieveFails /\ Dead /\ Dead' =>
                  Waits \/ ToNotice(worker') < ToNotice(worker)]_vars
<1>1. IInv /\ [Next]_vars =>
        [~RetrieveFails /\ Dead /\ Dead' =>
            Waits \/ ToNotice(worker') < ToNotice(worker)]_vars
    BY DeadStep DEF IInv
<1> QED
    BY <1>1, Invariance, PTL DEF Spec

=============================================================================
