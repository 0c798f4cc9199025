------------------------------ MODULE MCPrices ------------------------------
EXTENDS Prices

Q(bid, ask) == [bid |-> bid, ask |-> ask]
L(price, volume) == [price |-> price, volume |-> volume]
CONSTANTS e1, e2, e3

\* Two low tickers, a high one, and one that lacks its ask.
SomeQuotes == {Q(990, 1000), Q(980, 996), Q(1100, 1110), Q(990, 0)}

\* A book that is deep enough and one that is too thin, at prices of each exchange.
SomeBooks ==
  e1 :> {[bids |-> <<L(988, 2)>>, asks |-> <<L(1000, 1), L(1004, 2)>>]} @@
  e2 :> {[bids |-> <<L(1100, 1), L(1096, 1)>>, asks |-> <<L(1112, 2)>>],
         [bids |-> <<L(1100, 1)>>, asks |-> <<>>]} @@
  e3 :> {[bids |-> <<L(1080, 2)>>, asks |-> <<L(1008, 2)>>]}

NoFees == [e \in {e1, e2, e3} |-> IF e = e2 THEN 10 ELSE 0]
=============================================================================
