-------------------------------- MODULE Spread --------------------------------
(***************************************************************************)
(* The arithmetic of prices (spread.go, arbitrage.go): the best prices of a   *)
(* symbol, what an order would cost in an order book, the spread of an        *)
(* opportunity and when to leave a position.  Prices are in ticks, spreads    *)
(* and fees in hundredths of a percent, rounded down; a price of 0 is one     *)
(* that an exchange did not give.                                           *)
(***************************************************************************)
EXTENDS Integers, SequencesExt

CONSTANTS
  Exchanges,   \* the exchanges of the symbol
  NoExchange,  \* no exchange
  Nil,         \* Go's nil
  Fees,        \* the taker fees that SetFee gave, 0 where it gave none
  Depth        \* how many levels of a book are kept

\* What an exchange quotes, a level of its book and the book, and what the tracker knows.
Quote == [bid : Nat, ask : Nat]
Level == [price : Nat, volume : Nat]
Book == [bids : Seq(Level), asks : Seq(Level)]
BestPrices == [ask : Nat, long : Exchanges, bid : Nat, short : Exchanges, raw : Int]

ASSUME SpreadAssumption ==
  /\ NoExchange \notin Exchanges /\ Nil \notin Exchanges
  /\ Nil \notin Quote /\ Nil \notin BestPrices
  /\ Fees \in [Exchanges -> Nat] /\ Depth \in Nat \ {0}

\* (bid - ask) / ask in percent.
RawSpread(bid, ask) == ((bid - ask) * 10000) \div ask

\* A fee that was never set is 0.05%.
FeeOf(e) == IF Fees[e] = 0 THEN 5 ELSE Fees[e]

\* Four orders: each exchange takes its fee twice.
NetSpread(raw, long, short) == raw - 2 * (FeeOf(long) + FeeOf(short))
-----------------------------------------------------------------------------
(* PriceTracker.                                                            *)

\* Mutant: a price of 0 is taken for the lowest.
ZeroIsLowest(quote, best) == quote.ask < best.ask \/ best.exchange = NoExchange

\* Whether an exchange asks less than the lowest so far.
AsksLess(quote, best) == quote.ask > 0 /\ (best.ask = 0 \/ quote.ask < best.ask)

BidsMore(quote, best) == quote.bid > 0 /\ quote.bid > best.bid

\* The loop of recalculateBest over the exchanges in the order they first appeared.
LowestAsk(index, quotes) ==
  FoldLeft(LAMBDA best, e : IF AsksLess(quotes[e], best)
                            THEN [ask |-> quotes[e].ask, exchange |-> e] ELSE best,
           [ask |-> 0, exchange |-> NoExchange], index)

HighestBid(index, quotes) ==
  FoldLeft(LAMBDA best, e : IF BidsMore(quotes[e], best)
                            THEN [bid |-> quotes[e].bid, exchange |-> e] ELSE best,
           [bid |-> 0, exchange |-> NoExchange], index)

\* The best prices, or Nil when one side has none.
Best(index, quotes) ==
  LET a == LowestAsk(index, quotes)
      b == HighestBid(index, quotes)
  IN  IF a.ask > 0 /\ b.bid > 0
      THEN [ask |-> a.ask, long |-> a.exchange, bid |-> b.bid, short |-> b.exchange,
            raw |-> RawSpread(b.bid, a.ask)]
      ELSE Nil
-----------------------------------------------------------------------------
(* OrderBookAnalyzer.  A book has levels of a price and a volume, best first. *)

\* UpdateOrderBook keeps the first levels.
Kept(levels) == SubSeq(levels, 1, IF Len(levels) > Depth THEN Depth ELSE Len(levels))

\* What an order takes of a level.
Takes(level, remaining) == IF level.volume > remaining THEN remaining ELSE level.volume

\* simulateMarketOrder: what a market order for a volume costs and how much of it fills.
Simulate(levels, volume) ==
  IF levels = <<>> \/ volume <= 0 THEN Nil
  ELSE LET end == FoldLeft(LAMBDA s, l :
                     LET t == Takes(l, s.remaining) IN
                     IF s.remaining <= 0 THEN s
                     ELSE [cost |-> s.cost + l.price * t, filled |-> s.filled + t,
                           remaining |-> s.remaining - t],
                     [cost |-> 0, filled |-> 0, remaining |-> volume], levels)
       IN  [avg |-> IF end.filled > 0 THEN end.cost \div end.filled ELSE 0,
            fills |-> end.filled > 0 /\ end.remaining <= 0]

\* AnalyzeLiquidity without its cache.  A book that is missing or too old is Nil.
Analysis(books, volume, long, short) ==
  LET buy  == IF books[long] = Nil THEN Nil ELSE Simulate(books[long].asks, volume)
      sell == IF books[short] = Nil THEN Nil ELSE Simulate(books[short].bids, volume)
  IN  IF buy = Nil \/ sell = Nil THEN [ok |-> FALSE, avgLong |-> 0, avgShort |-> 0, spread |-> 0]
      ELSE [ok |-> buy.fills /\ sell.fills, avgLong |-> buy.avg, avgShort |-> sell.avg,
            spread |-> IF buy.avg > 0 THEN RawSpread(sell.avg, buy.avg) ELSE 0]

\* The analysis is kept for 50 ms only when both books were there.
Cacheable(books, volume, long, short) ==
  /\ volume > 0
  /\ books[long] # Nil /\ books[long].asks # <<>>
  /\ books[short] # Nil /\ books[short].bids # <<>>
-----------------------------------------------------------------------------
(* SpreadCalculator.                                                        *)

Opportunity(best, a) ==
  [long |-> best.long, longPrice |-> a.avgLong, short |-> best.short, shortPrice |-> a.avgShort,
   raw |-> a.spread, net |-> NetSpread(a.spread, best.long, best.short)]

\* Whether GetBestOpportunity goes on to the order books.
Tempting(best) == best # Nil /\ best.long # best.short /\ best.raw > 0

\* Mutant: the tracker's prices are believed, as if they were of the exchanges named.
Believed(best, a) ==
  IF ~Tempting(best) \/ ~a.ok THEN Nil
  ELSE [long |-> best.long, longPrice |-> best.ask, short |-> best.short, shortPrice |-> best.bid,
        raw |-> best.raw, net |-> NetSpread(best.raw, best.long, best.short)]

\* GetBestOpportunity with the analyzer and a volume, which the engine always gives.
BestOpportunity(best, a) == IF ~Tempting(best) \/ ~a.ok THEN Nil ELSE Opportunity(best, a)

\* GetSpreadWithLiquidity: the opportunity of the pair's volume, then the books again
\* for the volume asked about.
WithLiquidity(best, whole, part) ==
  LET opp == BestOpportunity(best, whole) IN
  IF opp = Nil THEN Nil
  ELSE [opp |-> IF part.ok THEN Opportunity(best, part) ELSE opp, ok |-> part.ok]

\* GetCurrentSpread: what selling the long leg and buying back the short one gives.
CurrentSpread(long, short) ==
  IF long = Nil \/ short = Nil THEN 0
  ELSE IF short.ask = 0 THEN 0 ELSE RawSpread(long.bid, short.ask)

\* CalculatePnl of a position of one unit.
Pnl(long, entryLong, short, entryShort) ==
  IF long = Nil \/ short = Nil THEN 0
  ELSE (long.bid - entryLong) + (entryShort - short.ask)

\* CheckExitConditions: the stop-loss comes first.
ExitReason(pnl, spread, stopLoss, exitSpread) ==
  IF stopLoss > 0 /\ pnl <= -stopLoss THEN "stop_loss"
  ELSE IF spread <= exitSpread THEN "spread_reached" ELSE "none"
=============================================================================
