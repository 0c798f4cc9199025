------------------------------- MODULE MCEntry -------------------------------
EXTENDS Entry

CONSTANTS e1, e2, e3

Q(bid, ask) == [bid |-> bid, ask |-> ask]
Deep(price, depth) == [bids |-> <<[price |-> price, volume |-> depth]>>,
                        asks |-> <<[price |-> price, volume |-> depth]>>]
NoFees == [e \in {e1, e2, e3} |-> 0]

\* A market where e1 is cheap, and e2 dear by the number of ticks, with books of a depth.
Market(dearer, depth) ==
  [index |-> <<e1, e2>>,
   quotes |-> e1 :> Q(999, 1000) @@ e2 :> Q(1000 + dearer, 1001 + dearer) @@ e3 :> Nil,
   books |-> e1 :> Deep(1000, depth) @@ e2 :> Deep(1000 + dearer, depth) @@ e3 :> Nil]

\* One where e3 is dearest.
Elsewhere ==
  [index |-> <<e1, e3>>,
   quotes |-> e1 :> Q(999, 1000) @@ e3 :> Q(1020, 1021) @@ e2 :> Nil,
   books |-> e1 :> Deep(1000, 30) @@ e3 :> Deep(1020, 30) @@ e2 :> Nil]

\* Worth entering; degraded; tightened; too thin; without a spread; at other exchanges.
SomeMarkets ==
  {Market(10, 30), Market(5, 30), Market(3, 30), Market(10, 15), Market(0, 30), Elsewhere}

Lots(lot, max, notional) == [min |-> lot, max |-> max, step |-> lot, notional |-> notional]
SomeLimits == {Lots(12, 24, 15000)}
DefaultLimits == Lots(6, 100, 5000)
=============================================================================
