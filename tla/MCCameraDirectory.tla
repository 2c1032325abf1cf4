------------------------- MODULE MCCameraDirectory -------------------------
(* Instances of CameraDirectory for TLC: a registry of two cameras and a    *)
(* catalogue that fails, is empty, or names a camera the registry lacks.    *)
EXTENDS CameraDirectory, TLC

CONSTANTS th1, th2

TwoCameras == {"cam01", "cam02"}

ThreeAnswers ==
    {[readable |-> FALSE, entries |-> {}],
     [readable |-> TRUE, entries |-> {Malformed}],
     [readable |-> TRUE, entries |-> {Malformed, "cam03"}]}

Symmetry == Permutations(Threads)

=============================================================================
