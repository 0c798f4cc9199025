---------------------------- MODULE ArbLifecycle ----------------------------
(***************************************************************************)
(* What the engine promises about arbitrages: a pair has at most one at a   *)
(* time, each goes through opening, open and closing, and the counter that  *)
(* enforces MaxConcurrentArbs is the number of pairs that have one.  An     *)
(* arbitrage whose close failed keeps its place until somebody intervenes.  *)
(***************************************************************************)
EXTENDS Integers

CONSTANT Pairs  \* the pairs of the engine

VARIABLES
  phase,  \* where the arbitrage of each pair is
  count   \* the arbitrages counted against the limit

Phases == {"none", "opening", "open", "closing", "stuck"}

Step(p, from, to, change) ==
  /\ phase[p] = from
  /\ phase' = [phase EXCEPT ![p] = to]
  /\ count' = count + change

Begin(p) == Step(p, "none", "opening", 1)
Opened(p) == Step(p, "opening", "open", 0)
Abandoned(p) == Step(p, "opening", "none", -1)
Close(p) == Step(p, "open", "closing", 0)
Closed(p) == Step(p, "closing", "none", -1)
Stuck(p) == Step(p, "closing", "stuck", 0)

Init == phase = [p \in Pairs |-> "none"] /\ count = 0

Next ==
  \E p \in Pairs :
    Begin(p) \/ Opened(p) \/ Abandoned(p) \/ Close(p) \/ Closed(p) \/ Stuck(p)

Spec == Init /\ [][Next]_<<phase, count>>
=============================================================================
