-------------------------- MODULE StreamLifecycle --------------------------
(***************************************************************************)
(* What the user of a StreamManager may rely on, without its threads,      *)
(* sockets and timeouts: a worker is off, on, or draining after a request  *)
(* to stop; while it drains it delivers at most one more frame; and it     *)
(* does not drain for ever.                                                *)
(***************************************************************************)
EXTENDS Naturals

VARIABLES
    mode,   \* "off", "on" or "draining"
    late    \* frames delivered since the request to stop

lifecycle == <<mode, late>>

LifeInit == mode = "off" /\ late = 0

SwitchOn == mode = "off" /\ mode' = "on" /\ late' = 0

Request == mode = "on" /\ mode' = "draining" /\ late' = 0

LateFrame == mode = "draining" /\ late = 0 /\ late' = 1 /\ mode' = mode

SwitchOff ==
    /\ mode \in {"on", "draining"}
    /\ mode' = "off"
    /\ late' = 0

LifeNext == SwitchOn \/ Request \/ LateFrame \/ SwitchOff

LifeSafety == LifeInit /\ [][LifeNext]_lifecycle

LifeSpec == LifeSafety /\ WF_lifecycle(mode = "draining" /\ SwitchOff)

=============================================================================
