----------------------------- MODULE MCPubsubRx -----------------------------
(* MioPubsubRx for TLC. *)
EXTENDS MioPubsubRx, TLC

ReceiverSymmetry == Permutations(Receivers)
=============================================================================
