------------------------ MODULE MCIncidentAnalyzer ------------------------
(* Instance of IncidentAnalyzer for TLC: the threads are symmetric. *)
EXTENDS IncidentAnalyzer, TLC

CONSTANTS th1, th2

MCSymmetry == Permutations(Threads)
=============================================================================
