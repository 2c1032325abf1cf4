------------------------ MODULE MCJourneyCorrelator ------------------------
(* Instances of JourneyCorrelator for TLC. *)
EXTENDS JourneyCorrelator

CONSTANTS c1, c2, p1, p2

\* A demo vehicle that was seen at the other camera before the run.
DemoSeeds == << [plate |-> p1, camera |-> c2, time |-> 0] >>
NoSeeds == << >>

=============================================================================
