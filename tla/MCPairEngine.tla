---------------------------- MODULE MCPairEngine ----------------------------
(* PairEngine on small instances: the symmetry of its goroutines.           *)
EXTENDS PairEngine, TLC

\* Workers and slots are interchangeable.  Only for runs without liveness.
Symmetry == Permutations(Workers) \cup Permutations(Slots)
=============================================================================
