---------------------------- MODULE MCConnection ----------------------------
(* MioConnection for TLC: the application thread and the event thread alone. *)
EXTENDS MioConnection
=============================================================================
