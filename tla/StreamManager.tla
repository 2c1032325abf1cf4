--------------------------- MODULE StreamManager ---------------------------
(***************************************************************************)
(* One camera connection: services/streaming/stream_manager.py.            *)
(*                                                                         *)
(* The worker runs StreamManager.run: connect, read frames, reconnect with *)
(* a growing delay.  The controller is the thread that calls start and     *)
(* stop.  The two share the stop event and info.state and nothing else, so *)
(* the model interleaves them at every access to these.  VideoCapture is   *)
(* external: opening, grabbing and decoding succeed or fail at will, and a *)
(* grab may block; time passes by Tick while the worker reads.             *)
(***************************************************************************)
EXTENDS Integers, Sequences

CONSTANTS
    MaxReconnects,  \* max_reconnects, or None: retry for ever
    HasHls,         \* is there an HLS address to fall back to?
    DecoderFails,   \* can retrieve() fail after a successful grab()?
    Timeout,        \* frame_timeout_sec, in ticks
    Cap,            \* bound: counters saturate here
    None

ASSUME StreamConstants ==
    /\ HasHls \in BOOLEAN /\ DecoderFails \in BOOLEAN
    /\ Timeout \in Nat
    /\ Cap \in Nat /\ Cap >= 5     \* beyond the longest delay
    /\ None \notin Nat
    /\ MaxReconnects \in (0 .. Cap) \cup {None}

BackoffInitial == 2     \* _BACKOFF_INITIAL_SEC
BackoffMax == 30        \* _BACKOFF_MAX_SEC
BackoffFactor == 2      \* _BACKOFF_FACTOR

VARIABLES
    stopEvent,  \* _stop_event.is_set()
    ctl,        \* controller: "idle", or where a call of stop() stands
    call,       \* the controller's last completed call (history)
    worker,     \* where the worker thread stands; "off": not alive
    state,      \* info.state
    count,      \* reconnect_count of the run
    backoff,    \* next value of the delay generator
    nap,        \* the delay of the current or last sleep
    fails,      \* failures in a row since the last connection (history)
    silence,    \* ticks since the last frame
    waited,     \* those of them spent in grab() (history)
    opens,      \* connection attempts of the run (history)
    late        \* callbacks begun since the stop event was set (history)

thread == <<worker, count, backoff, nap, fails, silence, waited, opens, late>>
vars == <<stopEvent, ctl, call, worker, state, count, backoff, nap, fails,
          silence, waited, opens, late>>

StreamState == {"DISCONNECTED", "CONNECTING", "CONNECTED", "RECONNECTING",
                "STOPPED"}
Reading == {"check", "grab", "retrieve", "callback"}
Places == Reading \cup {"off", "loop", "connect", "rtsp", "hls", "lost", "sleep", "exit"}

Bump(n, max) == IF n < max THEN n + 1 ELSE max

-----------------------------------------------------------------------------
TypeOK ==
    /\ stopEvent \in BOOLEAN
    /\ ctl \in {"idle", "join", "stopped"}
    /\ call \in {"none", "start", "stop"}
    /\ worker \in Places
    /\ state \in StreamState
    /\ count \in 0 .. Cap
    /\ backoff \in BackoffInitial .. BackoffMax
    /\ nap \in 0 .. BackoffMax
    /\ fails \in 0 .. Cap
    /\ silence \in 0 .. Timeout + 1
    /\ waited \in 0 .. Timeout + 1
    /\ opens \in 0 .. Cap + 1
    /\ late \in Nat

Init ==
    /\ stopEvent = FALSE
    /\ ctl = "idle"
    /\ call = "none"
    /\ worker = "off"
    /\ state = "DISCONNECTED"
    /\ count = 0
    /\ backoff = BackoffInitial
    /\ nap = 0
    /\ fails = 0
    /\ silence = 0
    /\ waited = 0
    /\ opens = 0
    /\ late = 0

-----------------------------------------------------------------------------
(* The controller.                                                         *)

\* Slip: the event of an earlier stop() is not cleared.
Start_EventKept ==
    /\ ctl = "idle"
    /\ worker = "off"
    /\ stopEvent' = stopEvent
    /\ worker' = "loop"
    /\ count' = 0
    /\ backoff' = BackoffInitial
    /\ fails' = 0
    /\ opens' = 0
    /\ late' = 0
    /\ call' = "start"
    /\ UNCHANGED <<ctl, state, nap, silence, waited>>

(* start(): a new thread, unless the old one is alive. *)
Start ==
    /\ ctl = "idle"
    /\ worker = "off"
    /\ stopEvent' = FALSE
    /\ worker' = "loop"
    /\ count' = 0
    /\ backoff' = BackoffInitial
    /\ fails' = 0
    /\ opens' = 0
    /\ late' = 0
    /\ call' = "start"
    /\ UNCHANGED <<ctl, state, nap, silence, waited>>

(* start() while the old thread is alive: a warning, and nothing else. *)
StartIgnored ==
    /\ ctl = "idle"
    /\ worker # "off"
    /\ call' = "start"
    /\ UNCHANGED <<stopEvent, ctl, state, thread>>

(* stop(): raise the event; join the thread if it is alive ... *)
StopSignal ==
    /\ ctl = "idle"
    /\ stopEvent' = TRUE
    /\ ctl' = IF worker = "off" THEN "stopped" ELSE "join"
    /\ UNCHANGED <<call, state, thread>>

(* ... until it ends ... *)
JoinEnded ==
    /\ ctl = "join"
    /\ worker = "off"
    /\ ctl' = "stopped"
    /\ UNCHANGED <<stopEvent, call, state, thread>>

(* ... or five seconds have passed, a blocked open or grab notwithstanding. *)
JoinTimeout ==
    /\ ctl = "join"
    /\ worker # "off"
    /\ ctl' = "stopped"
    /\ UNCHANGED <<stopEvent, call, state, thread>>

(* The last statement of stop(): the state says STOPPED either way. *)
StopReturns ==
    /\ ctl = "stopped"
    /\ ctl' = "idle"
    /\ state' = "STOPPED"
    /\ call' = "stop"
    /\ UNCHANGED <<stopEvent, thread>>

-----------------------------------------------------------------------------
(* The worker: run().                                                      *)

GivesUp == MaxReconnects # None /\ count >= MaxReconnects

LoopHead ==
    /\ worker = "loop"
    /\ worker' = IF stopEvent \/ GivesUp THEN "exit" ELSE "connect"
    /\ UNCHANGED <<stopEvent, ctl, call, state, count, backoff, nap, fails,
                   silence, waited, opens, late>>

(* _open_capture announces itself before it tries. *)
Connect ==
    /\ worker = "connect"
    /\ state' = "CONNECTING"
    /\ opens' = Bump(opens, Cap + 1)
    /\ worker' = "rtsp"
    /\ UNCHANGED <<stopEvent, ctl, call, count, backoff, nap, fails, silence,
                   waited, late>>

(* RTSP failed and there is an HLS address: try that one. *)
FallBack ==
    /\ worker = "rtsp"
    /\ HasHls
    /\ worker' = "hls"
    /\ UNCHANGED <<stopEvent, ctl, call, state, count, backoff, nap, fails,
                   silence, waited, opens, late>>

\* Slip: the delay generator survives a connection.
Opened_DelaysKept ==
    /\ worker \in {"rtsp", "hls"}
    /\ state' = "CONNECTED"
    /\ fails' = 0
    /\ silence' = 0
    /\ waited' = 0
    /\ worker' = "check"
    /\ UNCHANGED <<stopEvent, ctl, call, count, backoff, nap, opens, late>>

(* One of the two opened: CONNECTED, and the delays start over. *)
Opened ==
    /\ worker \in {"rtsp", "hls"}
    /\ state' = "CONNECTED"
    /\ backoff' = BackoffInitial
    /\ fails' = 0
    /\ silence' = 0
    /\ waited' = 0
    /\ worker' = "check"
    /\ UNCHANGED <<stopEvent, ctl, call, count, nap, opens, late>>

\* Slip: the delays grow without the maximum.
Retry_Uncapped ==
    /\ nap' = backoff
    /\ backoff' = backoff * BackoffFactor
    /\ fails' = Bump(fails, Cap)
    /\ count' = Bump(count, Cap)
    /\ state' = "RECONNECTING"
    /\ worker' = "sleep"

\* Slip: the state is not updated.
Retry_Silent ==
    /\ nap' = backoff
    /\ backoff' = IF backoff * BackoffFactor < BackoffMax
                  THEN backoff * BackoffFactor ELSE BackoffMax
    /\ fails' = Bump(fails, Cap)
    /\ count' = Bump(count, Cap)
    /\ state' = state
    /\ worker' = "sleep"

(* The generator yields its value and grows it: 2, 4, 8, 16, 30, 30 ... *)
Retry ==
    /\ nap' = backoff
    /\ backoff' = IF backoff * BackoffFactor < BackoffMax
                  THEN backoff * BackoffFactor ELSE BackoffMax
    /\ fails' = Bump(fails, Cap)
    /\ count' = Bump(count, Cap)
    /\ state' = "RECONNECTING"
    /\ worker' = "sleep"

OpenFails ==
    /\ worker = IF HasHls THEN "hls" ELSE "rtsp"
    /\ Retry
    /\ UNCHANGED <<stopEvent, ctl, call, silence, waited, opens, late>>

\* Slip: the loop is left instead of continued.
SleepEnds_Quits ==
    /\ worker = "sleep"
    /\ worker' = "exit"
    /\ UNCHANGED <<stopEvent, ctl, call, state, count, backoff, nap, fails,
                   silence, waited, opens, late>>

(* _interruptible_sleep ends when the delay is over or the event is set. *)
SleepEnds ==
    /\ worker = "sleep"
    /\ worker' = "loop"
    /\ UNCHANGED <<stopEvent, ctl, call, state, count, backoff, nap, fails,
                   silence, waited, opens, late>>

(* run() after _read_frames reported a disconnection. *)
Lost ==
    /\ worker = "lost"
    /\ IF stopEvent
       THEN worker' = "exit" /\ UNCHANGED <<count, backoff, nap, fails, state>>
       ELSE Retry
    /\ UNCHANGED <<stopEvent, ctl, call, silence, waited, opens, late>>

\* Slip: the last statement of run() is forgotten.
Exit_Silent ==
    /\ worker = "exit"
    /\ worker' = "off"
    /\ late' = 0
    /\ UNCHANGED <<stopEvent, ctl, call, state, count, backoff, nap, fails,
                   silence, waited, opens>>

Exit ==
    /\ worker = "exit"
    /\ state' = "STOPPED"
    /\ worker' = "off"
    /\ late' = 0
    /\ UNCHANGED <<stopEvent, ctl, call, count, backoff, nap, fails, silence,
                   waited, opens>>

-----------------------------------------------------------------------------
(* The worker: _read_frames().                                             *)

reads == <<stopEvent, ctl, call, state, count, backoff, nap, fails>>

\* Slip: the read loop does not look at the event.
ReadHead_Deaf ==
    /\ worker = "check"
    /\ worker' = "grab"
    /\ UNCHANGED <<reads, silence, waited, opens, late>>

(* The head of the read loop; leaving it releases the capture. *)
ReadHead ==
    /\ worker = "check"
    /\ worker' = IF stopEvent THEN "exit" ELSE "grab"
    /\ UNCHANGED <<reads, silence, waited, opens, late>>

\* Slip: every failed grab is a transient gap.
GrabFails_Patient ==
    /\ worker = "grab"
    /\ worker' = "check"
    /\ UNCHANGED <<reads, silence, waited, opens, late>>

GrabFails ==
    /\ worker = "grab"
    /\ worker' = IF silence > Timeout THEN "lost" ELSE "check"
    /\ UNCHANGED <<reads, silence, waited, opens, late>>

GrabSucceeds ==
    /\ worker = "grab"
    /\ worker' = "retrieve"
    /\ UNCHANGED <<reads, silence, waited, opens, late>>

\* Slip: undecodable frames are skipped in a loop that does not look at the event.
RetrieveFails_Deaf ==
    /\ DecoderFails
    /\ worker = "retrieve"
    /\ worker' = "grab"
    /\ UNCHANGED <<reads, silence, waited, opens, late>>

(* A frame that cannot be decoded is skipped, without a look at the clock. *)
RetrieveFails ==
    /\ DecoderFails
    /\ worker = "retrieve"
    /\ worker' = "check"
    /\ UNCHANGED <<reads, silence, waited, opens, late>>

(* A decoded frame: the clock of the timeout is reset and the callback runs. *)
Deliver ==
    /\ worker = "retrieve"
    /\ silence' = 0
    /\ waited' = 0
    /\ late' = IF stopEvent THEN late + 1 ELSE late
    /\ worker' = "callback"
    /\ UNCHANGED <<reads, opens>>

(* on_frame returned or raised; an exception is logged. *)
CallbackEnds ==
    /\ worker = "callback"
    /\ worker' = "check"
    /\ UNCHANGED <<reads, silence, waited, opens, late>>

(* Time passes while the worker is reading. *)
Tick ==
    /\ worker \in Reading
    /\ silence <= Timeout
    /\ silence' = Bump(silence, Timeout + 1)
    /\ waited' = IF worker = "grab" THEN Bump(waited, Timeout + 1) ELSE waited
    /\ UNCHANGED <<reads, worker, opens, late>>

-----------------------------------------------------------------------------
Controller ==
    \/ Start \/ StartIgnored
    \/ StopSignal \/ JoinEnded \/ JoinTimeout \/ StopReturns

Worker ==
    \/ LoopHead \/ Connect \/ FallBack \/ Opened \/ OpenFails \/ SleepEnds
    \/ Lost \/ Exit
    \/ ReadHead \/ GrabFails \/ GrabSucceeds \/ RetrieveFails \/ Deliver
    \/ CallbackEnds

Next == Controller \/ Worker \/ Tick

\* The operating system schedules the thread, blocking calls return, and time
\* passes; nobody has to call start or stop, but a call of stop proceeds.
Fairness ==
    /\ WF_vars(Worker)
    /\ WF_vars(Tick)
    /\ WF_vars(JoinEnded \/ JoinTimeout \/ StopReturns)

Spec == Init /\ [][Next]_vars
FairSpec == Spec /\ Fairness

-----------------------------------------------------------------------------
(* Properties the code keeps.                                              *)

\* At most one callback begins after stop() raised the event: the one whose
\* frame was being grabbed or decoded at that moment.
AtMostOneLateFrame == late <= 1

\* _backoff_delays promises 2, 4, 8, 16, 30, 30 ...: the n-th failure in a row
\* sleeps for the n-th of these, and a connection starts the series over.
Schedule == <<2, 4, 8, 16, 30>>
BackoffLaw ==
    worker = "sleep" => nap = Schedule[IF fails < 5 THEN fails ELSE 5]

\* While nobody asked the worker to stop, info.state says what it is doing.
StateTruthful ==
    ~stopEvent =>
        /\ worker \in Reading \cup {"lost"} => state = "CONNECTED"
        /\ worker \in {"rtsp", "hls"} => state = "CONNECTING"
        /\ worker = "sleep" => state = "RECONNECTING"

\* A worker that is gone left STOPPED behind, whatever stop() wrote when.
EndsStopped == worker = "off" /\ call # "none" => state = "STOPPED"

\* run() gives up on the max_reconnects-th failure, whatever came in between:
\* the camera is contacted at most that often, a first time included.
WithinLimit == MaxReconnects # None => opens <= MaxReconnects

\* StreamManager implements the lifecycle.
Life == INSTANCE StreamLifecycle
    WITH mode <- IF worker = "off" THEN "off"
                 ELSE IF stopEvent THEN "draining" ELSE "on",
         late <- late
Lifecycle == Life!LifeSpec

\* A stop request is honoured, even one whose join timed out.
StopHonoured == stopEvent ~> worker = "off"

\* A lost stream is tried again until somebody stops it or the limit is hit.
KeepsTrying ==
    worker = "sleep" ~> worker = "rtsp" \/ stopEvent \/ GivesUp

\* Silence beyond the timeout ends in a frame or in leaving the read loop, unless
\* the decoder fails again and again: a frame that cannot be decoded leads past
\* the only look at the clock, so a stream of such frames is never given up.
DeadStreamLeft ==
    \/ []<><<RetrieveFails>>_vars
    \/ worker \in Reading /\ silence > Timeout ~> silence = 0 \/ worker \notin Reading

=============================================================================
