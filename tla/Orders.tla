-------------------------------- MODULE Orders --------------------------------
(***************************************************************************)
(* Positions, orders, and what a round of orders promises its caller: the   *)
(* outcomes of OrderExecutor.ExecuteParallel and CloseParallel, which the   *)
(* engine's model uses and the executor's model (OrderExec) meets.          *)
(* A position is counted in units of the pair's volume.                     *)
(***************************************************************************)
EXTENDS Integers

CONSTANTS
  Exchanges,  \* the connected exchanges
  Faults,     \* the failures of orders the environment produces
  Tries       \* how often one order is sent, its retries included

\* The faults.  Of an entry: the rollback of a leg fails ("rollback"); the
\* context ends before the orders are answered ("timeout"); an order fills
\* though its answer is an error ("lost"); an order fills after its details were
\* read, so that FilledQty is 0 ("unseen").  Of a close: any failure ("close").
ASSUME OrdersAssumption ==
  /\ Faults \subseteq {"rollback", "timeout", "lost", "unseen", "close"}
  /\ Tries \in Nat /\ Tries > 0

Leg == [ex : Exchanges, side : {"long", "short"}]

\* The legs of an arbitrage long on a and short on b.
Hedge(a, b) == {[ex |-> a, side |-> "long"], [ex |-> b, side |-> "short"]}

Amount(fills, x, side) ==
  LET l == [ex |-> x, side |-> side]
  IN IF l \in DOMAIN fills THEN fills[l] ELSE 0

\* The net holdings h after fills[l] orders that open each leg l (a negative
\* number of orders closes it).  An order carries no reduce-only flag: it
\* trades whatever is held.
Filled(h, fills) ==
  [x \in Exchanges |-> h[x] + Amount(fills, x, "long") - Amount(fills, x, "short")]

Each(ls, n) == [l \in ls |-> n]
-----------------------------------------------------------------------------
\* How often the orders of an entry have filled when all of them have ended,
\* and what the executor reports: "ok" when one leg filled and the other did in
\* the end; "pause" when one leg filled and was rolled back; "fail" when both
\* orders failed or the context ended first.
EntryOutcomes(ls) ==
  LET lost == "lost" \in Faults
      late == "timeout" \in Faults
  IN {o \in [fills : [ls -> 0..(IF lost THEN Tries ELSE 1)],
             result : {"ok", "pause", "fail"}] :
       \/ /\ o.result = "ok"
          /\ \A l \in ls : o.fills[l] > 0
          /\ \E l \in ls : o.fills[l] = 1
       \/ /\ o.result = "pause"
          /\ \E l \in ls :
               /\ o.fills[l] <= 1
               /\ o.fills[l] = 1 => {"rollback", "unseen"} \cap Faults # {}
               /\ \A m \in ls \ {l} : lost \/ o.fills[m] <= (IF late THEN 1 ELSE 0)
       \/ /\ o.result = "fail"
          /\ \A l \in ls : o.fills[l] <= 1
          /\ lost \/ late \/ \A l \in ls : o.fills[l] = 0}

\* Mutant: a close succeeds when any of its orders does.
HalfClosed(ls) == {[shut |-> m, ok |-> m # {}] : m \in SUBSET ls}

\* CloseParallel on the legs ls fails without legs, and otherwise closes all of
\* them or, on a fault, reports a failure having closed any of them.
CloseOutcomes(ls) ==
  (IF ls = {} THEN {} ELSE {[shut |-> ls, ok |-> TRUE]})
  \cup {o \in [shut : SUBSET ls, ok : {FALSE}] :
         ls = {} \/ "close" \in Faults}
=============================================================================
