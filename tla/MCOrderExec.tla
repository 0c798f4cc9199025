----------------------------- MODULE MCOrderExec -----------------------------
(* Instances of OrderExec for TLC. *)
EXTENDS OrderExec, TLC

Symmetry == Permutations(Chans)
=============================================================================
