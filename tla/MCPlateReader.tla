---------------------------- MODULE MCPlateReader ----------------------------
(* Instance of PlateReader for TLC: a plate of either format, with places   *)
(* of either kind that the OCR confuses, in ways that the correction takes  *)
(* back and in ways that it does not (a D that becomes O, a 3 that is 8).   *)
EXTENDS PlateReader

CONSTANTS v1, v2, t1, t2

TwoPlates == [v \in {v1, v2} |->
    IF v = v1 THEN <<"G", "J", "0", "6", "A", "D", "3", "4", "4", "6">>
    ELSE <<"G", "S", "0", "6", "S", "5", "6", "3", "4">>]

SomeConfusions ==
    {<<"D", "0">>, <<"3", "8">>, <<"J", "?">>, <<"0", "O">>, <<"S", "5">>, <<"5", "S">>}

=============================================================================
