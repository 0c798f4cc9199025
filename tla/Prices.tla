-------------------------------- MODULE Prices --------------------------------
(***************************************************************************)
(* The price events of one symbol (engine.go, spread.go): the channel of its  *)
(* shard, the workers that take from it, update the tracker of best prices    *)
(* and look for an opportunity, the order books and the cached analyses.      *)
(***************************************************************************)
EXTENDS Spread, FiniteSets

CONSTANTS
  Workers,    \* the workers of the shard
  Quotes,     \* what a ticker may say: a bid and an ask, 0 for one it lacks
  Books,      \* the order books each exchange may have
  Volume,     \* the volume of the pair
  QueueCap,   \* the capacity of the shard's channel
  MaxPushes,  \* a bound on tickers
  MaxBooks    \* a bound on changes of the order books and of the cache's age

ASSUME PricesAssumption ==
  /\ Quotes \subseteq Quote /\ \A e \in Exchanges : Books[e] \subseteq Book
  /\ Volume \in Nat \ {0} /\ QueueCap \in Nat \ {0} /\ MaxPushes \in Nat /\ MaxBooks \in Nat

VARIABLES
  queue,     \* shard.updates
  index,     \* symbolIndex: the exchanges in the order they first appeared
  quotes,    \* allPrices
  best,      \* bestPrices
  adjusted,  \* whether applyLiquidity was the last to write them
  books,     \* the order books that are young enough
  cache,     \* the analyses of the last 50 ms
  worker,    \* the workers
  offer,     \* the last opportunity a worker was given
  seen,      \* the best prices the last check for an opportunity was made on
  pushes, changes  \* what is bounded

tracker == <<index, quotes, best, adjusted>>
liquidity == <<books, cache>>
vars == <<queue, tracker, liquidity, worker, offer, seen, pushes, changes>>

Idle == [pc |-> "idle"]

Init ==
  /\ queue = <<>> /\ index = <<>> /\ quotes = [e \in Exchanges |-> Nil]
  /\ best = Nil /\ adjusted = FALSE
  /\ books = [e \in Exchanges |-> Nil] /\ cache = [p \in Exchanges \X Exchanges |-> Nil]
  /\ worker = [w \in Workers |-> Idle]
  /\ offer = Nil /\ seen = Nil /\ pushes = 0 /\ changes = 0
-----------------------------------------------------------------------------
(* The exchanges.                                                           *)

\* routePriceUpdate: a full channel drops the update.
Push(e, q) ==
  /\ pushes < MaxPushes /\ pushes' = pushes + 1
  /\ queue' = IF Len(queue) < QueueCap THEN Append(queue, [exchange |-> e, quote |-> q]) ELSE queue
  /\ UNCHANGED <<tracker, liquidity, worker, offer, seen, changes>>

UpdateOrderBook(e, b) ==
  /\ changes < MaxBooks /\ changes' = changes + 1
  /\ books' = [books EXCEPT ![e] = [bids |-> Kept(b.bids), asks |-> Kept(b.asks)]]
  /\ UNCHANGED <<queue, tracker, cache, worker, offer, seen, pushes>>

\* A book passes its maximal age, or an analysis its 50 ms.
Ages ==
  /\ changes < MaxBooks /\ changes' = changes + 1
  /\ \/ \E e \in Exchanges : books' = [books EXCEPT ![e] = Nil] /\ UNCHANGED cache
     \/ cache' = [p \in Exchanges \X Exchanges |-> Nil] /\ UNCHANGED books
  /\ UNCHANGED <<queue, tracker, worker, offer, seen, pushes>>
-----------------------------------------------------------------------------
(* AnalyzeLiquidity with its cache.                                          *)

\* The analysis of the last 50 ms, if there is one.
Cached(long, short) == cache[<<long, short>>]

Analyzed(long, short) ==
  IF Cached(long, short) # Nil THEN Cached(long, short) ELSE Analysis(books, Volume, long, short)

Caching(long, short) ==
  cache' = IF Cached(long, short) = Nil /\ Cacheable(books, Volume, long, short)
           THEN [cache EXCEPT ![<<long, short>>] = Analysis(books, Volume, long, short)]
           ELSE cache
-----------------------------------------------------------------------------
(* A worker.                                                                *)

Goes(w, s) == worker' = [worker EXCEPT ![w] = s]

Take(w) ==
  /\ worker[w] = Idle /\ queue # <<>>
  /\ Goes(w, [pc |-> "update", update |-> Head(queue)]) /\ queue' = Tail(queue)
  /\ UNCHANGED <<tracker, liquidity, offer, seen, pushes, changes>>

\* Mutant: a new exchange is not put into the index.
IndexWithout(e) == index

\* The index with an exchange that appears for the first time.
IndexWith(e) == IF quotes[e] = Nil THEN Append(index, e) ELSE index

\* Mutant: a worker looks only when its own update left a positive spread.
AfterGoodUpdate(snapshot) ==
  IF snapshot # Nil /\ snapshot.raw > 0 THEN [pc |-> "analyze", best |-> snapshot] ELSE Idle

\* Where a worker goes when the tracker is up to date.
AfterUpdate(snapshot) ==
  IF snapshot # Nil /\ snapshot.raw > 0 THEN [pc |-> "analyze", best |-> snapshot] ELSE [pc |-> "look"]

\* UpdateFromPtr under the shard's lock.  Best prices with a side that has none stay.
Update(w) ==
  /\ worker[w].pc = "update"
  /\ LET u == worker[w].update
         i == IndexWith(u.exchange)
         q == [quotes EXCEPT ![u.exchange] = u.quote]
         b == Best(i, q)
     IN  /\ index' = i /\ quotes' = q
         /\ best' = IF b = Nil THEN best ELSE b
         /\ adjusted' = (b = Nil /\ adjusted)
         /\ Goes(w, AfterUpdate(b))
  /\ UNCHANGED <<queue, liquidity, offer, seen, pushes, changes>>

\* applyLiquidity analyzes the books without the lock,
Analyze(w) ==
  /\ worker[w].pc = "analyze"
  /\ LET b == worker[w].best
         a == Analyzed(b.long, b.short)
     IN  /\ Caching(b.long, b.short)
         /\ Goes(w, IF a.ok THEN [pc |-> "adjust", analysis |-> a] ELSE [pc |-> "look"])
  /\ UNCHANGED <<queue, tracker, books, offer, seen, pushes, changes>>

\* and writes the prices over whatever the best prices are by then.
Adjust(w) ==
  /\ worker[w].pc = "adjust"
  /\ LET a == worker[w].analysis IN
     best' = [best EXCEPT !.ask = a.avgLong, !.bid = a.avgShort, !.raw = a.spread]
  /\ adjusted' = TRUE
  /\ Goes(w, [pc |-> "look"])
  /\ UNCHANGED <<queue, index, quotes, liquidity, offer, seen, pushes, changes>>

\* GetBestPrices copies the best prices for DetectOpportunity,
Look(w) ==
  /\ worker[w].pc = "look"
  /\ seen' = best
  /\ Goes(w, IF Tempting(best) THEN [pc |-> "detect", best |-> best] ELSE Idle)
  /\ UNCHANGED <<queue, tracker, liquidity, offer, pushes, changes>>

\* and GetBestOpportunity asks the books about them.
Detect(w) ==
  /\ worker[w].pc = "detect"
  /\ LET b == worker[w].best IN
     /\ offer' = BestOpportunity(b, Analyzed(b.long, b.short))
     /\ Caching(b.long, b.short)
  /\ Goes(w, Idle)
  /\ UNCHANGED <<queue, tracker, books, seen, pushes, changes>>

Work(w) == Take(w) \/ Update(w) \/ Analyze(w) \/ Adjust(w) \/ Look(w) \/ Detect(w)

Next ==
  \/ \E w \in Workers : Work(w)
  \/ \E e \in Exchanges, q \in Quotes : Push(e, q)
  \/ \E e \in Exchanges : \E b \in Books[e] : UpdateOrderBook(e, b)
  \/ Ages

Spec == Init /\ [][Next]_vars
-----------------------------------------------------------------------------
\* Every exchange that gave a quote is in the index once, so no price is left out.
TypeOK ==
  /\ Len(queue) <= QueueCap
  /\ \A i, j \in DOMAIN index : index[i] = index[j] => i = j
  /\ ToSet(index) = {e \in Exchanges : quotes[e] # Nil}
  /\ \A e \in Exchanges : quotes[e] # Nil => quotes[e] \in Quotes
  /\ adjusted \in BOOLEAN /\ (adjusted => best # Nil)
  /\ \A w \in Workers : worker[w].pc \in {"idle", "update", "analyze", "adjust", "look", "detect"}
  /\ pushes \in 0..MaxPushes /\ changes \in 0..MaxBooks

Sellers == {e \in Exchanges : quotes[e] # Nil /\ quotes[e].ask > 0}
Buyers == {e \in Exchanges : quotes[e] # Nil /\ quotes[e].bid > 0}

\* The tracker's best prices are the lowest ask and the highest bid there are, at the
\* exchanges it names, while both sides have a price and no analysis overwrote them.
BestOfQuotes ==
  ~adjusted /\ Sellers # {} /\ Buyers # {} =>
    /\ best # Nil /\ best.long \in Sellers /\ best.ask = quotes[best.long].ask
    /\ \A e \in Sellers : best.ask <= quotes[e].ask
    /\ best.short \in Buyers /\ best.bid = quotes[best.short].bid
    /\ \A e \in Buyers : best.bid >= quotes[e].bid

\* What buying, or selling, the pair's volume costs in the books that an exchange may have.
Costs(e) == {Simulate(Kept(b.asks), Volume) : b \in Books[e]}
Yields(e) == {Simulate(Kept(b.bids), Volume) : b \in Books[e]}

\* An opportunity names two exchanges whose own books fill the whole volume at the prices
\* it gives, though workers write the tracker's prices over those of other exchanges.
OpportunityBacked ==
  offer # Nil =>
    /\ offer.long # offer.short
    /\ \E c \in Costs(offer.long) : c # Nil /\ c.fills /\ c.avg = offer.longPrice
    /\ \E y \in Yields(offer.short) : y # Nil /\ y.fills /\ y.avg = offer.shortPrice

\* No wake-up is lost: when the workers have nothing to do, the last look for an
\* opportunity was at the best prices there are.
QuietIsChecked ==
  queue = <<>> /\ (\A w \in Workers : worker[w] = Idle) => seen = best
=============================================================================
