-------------------------------- MODULE MCFeed --------------------------------
(* Instances of Feed for TLC. *)
EXTENDS Feed

\* The private socket of OKX, whose login may be refused: a socket without a
\* login does the same, save that AuthFails is never taken.
Private == {<<"okx", "watch">>}
=============================================================================
