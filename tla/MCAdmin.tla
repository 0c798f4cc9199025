------------------------------- MODULE MCAdmin -------------------------------
(* Instances of Admin for TLC. *)
EXTENDS Admin, TLC

\* Workers are interchangeable, and so are the settings of a pair.
Symmetry == Permutations(Workers) \cup Permutations(Params)
=============================================================================
