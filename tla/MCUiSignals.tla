---------------------------- MODULE MCUiSignals -----------------------------
(* An instance of UiSignals for TLC.                                       *)
EXTENDS UiSignals, TLC

CONSTANTS t1, t2

TaskSymmetry == Permutations({t1, t2})
=============================================================================
