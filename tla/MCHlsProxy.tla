----------------------------- MODULE MCHlsProxy -----------------------------
(* Instances of HlsProxy for TLC. *)
EXTENDS HlsProxy, TLC

CONSTANTS t1, t2, c1, c2, n1, n2

\* No file in the cache directory, or one, which is stored under the first camera.
FileOrNone == {<< >>, << [cam |-> c1, name |-> n1, data |-> c1] >>}

Symmetric == Permutations(Tasks)

=============================================================================
