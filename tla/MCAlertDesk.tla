---------------------------- MODULE MCAlertDesk ----------------------------
(* Instances of AlertDesk for TLC. *)
EXTENDS AlertDesk, TLC

CONSTANTS t1, t2, c1, o1

\* One sample alert, already under review.
Sample == << [status |-> "REVIEWING", by |-> o1] >>

\* Officers act on the first incident and on the first row of a pipeline.
Firsts == {Inc(1), <<"DB", 2>>}

Symmetric == Permutations(Threads)

=============================================================================
