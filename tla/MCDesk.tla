-------------------------------- MODULE MCDesk --------------------------------
(* Instances of Desk for TLC. *)
EXTENDS Desk

\* One contract, one and a half, and two.
Halves == {2, 3, 4}
=============================================================================
