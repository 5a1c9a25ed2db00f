----------------------------- MODULE MCRequest -----------------------------
(* MioRequest for TLC.  The calls are interchangeable; symmetry is used only *)
(* in runs without liveness.                                                 *)
EXTENDS MioRequest, TLC

CallSymmetry == Permutations(Callers)
=============================================================================
