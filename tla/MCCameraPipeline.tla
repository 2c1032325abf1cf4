-------------------------- MODULE MCCameraPipeline --------------------------
(* Instances of CameraPipeline for TLC. *)
EXTENDS CameraPipeline

CONSTANTS c1, p1, p2

NoSeeds == << >>

\* watchlist_entries is empty, lists p1, or lists both plates.
TableOrNot == {{}, {p1}}
BothListed == {{p1, p2}}
NoTable == {{}}

=============================================================================
