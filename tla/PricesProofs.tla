---------------------------- MODULE PricesProofs ----------------------------
(***************************************************************************)
(* Theorems about Prices,  for any number of exchanges, workers, tickers     *)
(* and books.                                                               *)
(***************************************************************************)
EXTENDS Prices, SpreadProofs

\* A worker that will look at the best prices before it rests.
WillLook(w) == worker[w].pc \in {"analyze", "adjust", "look"}

\* Best prices nobody has looked at are on some worker's way.
LookIsComing == seen = best \/ \E w \in Workers : WillLook(w)

\* There is one record of the worker for each worker.
WorkersKnown == worker = [w \in Workers |-> worker[w]]

IInv == WorkersKnown /\ LookIsComing

LEMMA InitLook == Init => IInv
BY DEF Init, IInv, WorkersKnown, LookIsComing

\* A worker that goes somewhere leaves the others where they are.
LEMMA OthersStay ==
  ASSUME WorkersKnown, NEW w \in Workers, NEW s, Goes(w, s)
  PROVE  WorkersKnown' /\ worker'[w] = s /\ \A v \in Workers \ {w} : worker'[v] = worker[v]
BY DEF WorkersKnown, Goes

\* Every step of a worker leaves it, or another, on the way to look at what it wrote.
LEMMA WorkLooks ==
  ASSUME IInv, NEW w \in Workers, Work(w)
  PROVE  IInv'
<1>1. CASE Take(w)
  <2>1. Goes(w, [pc |-> "update", update |-> Head(queue)]) /\ UNCHANGED <<best, seen>>
    BY <1>1 DEF Take, tracker
  <2>2. ~WillLook(w)
    BY <1>1 DEF Take, WillLook, Idle
  <2> QED
    BY <2>1, <2>2, OthersStay DEF IInv, LookIsComing, WillLook
<1>2. CASE Update(w)
  <2> DEFINE s == worker'[w]
  <2>1. PICK b : Goes(w, AfterUpdate(b))
    BY <1>2 DEF Update
  <2>2. AfterUpdate(b).pc \in {"analyze", "look"}
    BY DEF AfterUpdate
  <2>3. WillLook(w)' /\ WorkersKnown'
    BY <2>1, <2>2, OthersStay DEF IInv, WillLook
  <2> QED
    BY <2>3 DEF IInv, LookIsComing
<1>3. CASE Analyze(w)
  <2>1. PICK s : Goes(w, s) /\ s.pc \in {"adjust", "look"}
    BY <1>3 DEF Analyze
  <2>2. WillLook(w)' /\ WorkersKnown'
    BY <2>1, OthersStay DEF IInv, WillLook
  <2> QED
    BY <2>2 DEF IInv, LookIsComing
<1>4. CASE Adjust(w)
  <2>1. WillLook(w)' /\ WorkersKnown'
    BY <1>4, OthersStay DEF Adjust, IInv, WillLook
  <2> QED
    BY <2>1 DEF IInv, LookIsComing
<1>5. CASE Look(w)
  <2>1. seen' = best' /\ WorkersKnown'
    BY <1>5, OthersStay DEF Look, tracker, IInv
  <2> QED
    BY <2>1 DEF IInv, LookIsComing
<1>6. CASE Detect(w)
  <2>1. Goes(w, Idle) /\ UNCHANGED <<best, seen>>
    BY <1>6 DEF Detect, tracker
  <2>2. ~WillLook(w)
    BY <1>6 DEF Detect, WillLook
  <2> QED
    BY <2>1, <2>2, OthersStay DEF IInv, LookIsComing, WillLook
<1> QED
  BY <1>1, <1>2, <1>3, <1>4, <1>5, <1>6 DEF Work

\* The environment writes neither the best prices nor the workers.
LEMMA NextLook == IInv /\ [Next]_vars => IInv'
<1> SUFFICES ASSUME IInv, [Next]_vars
             PROVE  IInv'
  OBVIOUS
<1>1. CASE \E w \in Workers : Work(w)
  BY <1>1, WorkLooks
<1>2. CASE UNCHANGED <<worker, best, seen>>
  BY <1>2 DEF IInv, WorkersKnown, LookIsComing, WillLook
<1>3. CASE (\E e \in Exchanges, q \in Quotes : Push(e, q)) \/ Ages \/ UNCHANGED vars
           \/ \E e \in Exchanges : \E b \in Books[e] : UpdateOrderBook(e, b)
  BY <1>2, <1>3 DEF Push, UpdateOrderBook, Ages, vars, tracker
<1> QED
  BY <1>1, <1>3 DEF Next

\* No wake-up is lost: when the workers of a shard have nothing to do, the last look
\* for an opportunity was at the best prices there are (engine.go, handlePriceUpdate).
THEOREM QuietHasLooked == Spec => []QuietIsChecked
<1>1. IInv => QuietIsChecked
  BY DEF IInv, LookIsComing, WillLook, QuietIsChecked, Idle
<1> QED
  BY <1>1, InitLook, NextLook, PTL DEF Spec
-----------------------------------------------------------------------------
(* The tracker, the books and what the workers carry.                       *)

Update_ == [exchange : Exchanges, quote : Quotes]

\* What is in the channel, and in the tracker.
TrackerTyped ==
  /\ queue \in Seq(Update_) /\ Len(queue) <= QueueCap
  /\ quotes \in [Exchanges -> Quotes \cup {Nil}] /\ index \in Seq(Exchanges)
  /\ \A i, j \in DOMAIN index : index[i] = index[j] => i = j
  /\ ToSet(index) = {e \in Exchanges : quotes[e] # Nil}
  /\ best \in BestPrices \cup {Nil} /\ adjusted \in BOOLEAN /\ (adjusted => best # Nil)

\* While both sides have a price and no analysis overwrote them, the best prices are best.
Tracked ==
  /\ ~adjusted /\ Sellers # {} /\ Buyers # {} => best # Nil
  /\ ~adjusted /\ Sellers # {} /\ Buyers # {} => AreBest(best, index, quotes)

\* The books are the first levels of books that the exchanges may have.
BooksKnown ==
  /\ books \in [Exchanges -> Book \cup {Nil}]
  /\ \A e \in Exchanges :
       books[e] # Nil => \E b \in Books[e] : books[e] = [bids |-> Kept(b.bids), asks |-> Kept(b.asks)]

\* An analysis whose books fill the volume names prices of books of both exchanges.
Backs(a, long, short) ==
  a.ok =>
    /\ \E c \in Costs(long) : c # Nil /\ c.fills /\ c.avg = a.avgLong
    /\ \E y \in Yields(short) : y # Nil /\ y.fills /\ y.avg = a.avgShort

\* So does every cached one.
CacheKnown ==
  \A long, short \in Exchanges :
    cache[<<long, short>>] # Nil =>
      cache[<<long, short>>] \in Analyses /\ Backs(cache[<<long, short>>], long, short)

\* What a worker carries.
Carries(w) ==
  /\ worker[w].pc \in {"idle", "update", "analyze", "adjust", "look", "detect"}
  /\ worker[w].pc = "update" => worker[w].update \in Update_
  /\ worker[w].pc = "analyze" => worker[w].best \in BestPrices
  /\ worker[w].pc = "adjust" => worker[w].analysis \in Analyses
  /\ worker[w].pc \in {"analyze", "adjust"} => best # Nil
  /\ worker[w].pc = "detect" => worker[w].best \in BestPrices /\ worker[w].best.long # worker[w].best.short

Counted == pushes \in 0..MaxPushes /\ changes \in 0..MaxBooks
Running == WorkersKnown /\ \A w \in Workers : Carries(w)
Market == BooksKnown /\ cache \in [Exchanges \X Exchanges -> Analyses \cup {Nil}] /\ CacheKnown

PInv == TrackerTyped /\ Tracked /\ Market /\ Running /\ OpportunityBacked /\ Counted

LEMMA InitPInv == Init => PInv
<1> SUFFICES ASSUME Init PROVE PInv
  OBVIOUS
<1> USE DEF Init
<1>1. TrackerTyped
  <2>1. ToSet(index) = {} /\ {e \in Exchanges : quotes[e] # Nil} = {} /\ Len(queue) = 0
    BY DEF ToSet
  <2>2. queue \in Seq(Update_) /\ index \in Seq(Exchanges) /\ DOMAIN index = {}
    OBVIOUS
  <2>3. \A i, j \in DOMAIN index : index[i] = index[j] => i = j
    BY <2>2
  <2>4. Len(queue) <= QueueCap
    BY <2>1, PricesAssumption
  <2>5. quotes \in [Exchanges -> Quotes \cup {Nil}] /\ best = Nil /\ adjusted = FALSE
    OBVIOUS
  <2> HIDE DEF Init
  <2> QED
    BY <2>1, <2>2, <2>3, <2>4, <2>5 DEF TrackerTyped
<1>2. Tracked
  BY DEF Tracked, Sellers
<1>3. Market
  <2>1. \A p \in Exchanges \X Exchanges : cache[p] = Nil
    OBVIOUS
  <2> QED
    BY <2>1 DEF Market, BooksKnown, CacheKnown
<1>4. Running
  BY DEF Running, WorkersKnown, Carries, Idle
<1>5. OpportunityBacked /\ Counted
  BY PricesAssumption DEF OpportunityBacked, Counted
<1> QED
  BY <1>1, <1>2, <1>3, <1>4, <1>5 DEF PInv

\* An analysis of the books is backed by them.
LEMMA AnalysisBacks ==
  ASSUME BooksKnown, NEW long \in Exchanges, NEW short \in Exchanges
  PROVE  LET a == Analysis(books, Volume, long, short) IN a \in Analyses /\ Backs(a, long, short)
<1> DEFINE a == Analysis(books, Volume, long, short)
           buy == IF books[long] = Nil THEN Nil ELSE Simulate(books[long].asks, Volume)
           sell == IF books[short] = Nil THEN Nil ELSE Simulate(books[short].bids, Volume)
<1>1. a \in Analyses
  BY AnalysisIs, PricesAssumption DEF BooksKnown
<1>2. a = IF buy = Nil \/ sell = Nil THEN [ok |-> FALSE, avgLong |-> 0, avgShort |-> 0, spread |-> 0]
          ELSE [ok |-> buy.fills /\ sell.fills, avgLong |-> buy.avg, avgShort |-> sell.avg,
                spread |-> IF buy.avg > 0 THEN RawSpread(sell.avg, buy.avg) ELSE 0]
  BY DEF Analysis
<1>3. buy # Nil => buy \in Costs(long)
  BY DEF BooksKnown, Costs
<1>4. sell # Nil => sell \in Yields(short)
  BY DEF BooksKnown, Yields
<1> HIDE DEF a, buy, sell
<1>5. ASSUME buy = Nil \/ sell = Nil PROVE Backs(a, long, short)
  <2>1. a.ok = FALSE
    BY <1>2, <1>5
  <2> QED
    BY <2>1 DEF Backs
<1>6. ASSUME buy # Nil, sell # Nil PROVE Backs(a, long, short)
  <2>1. a.avgLong = buy.avg /\ a.avgShort = sell.avg
    BY <1>2, <1>6
  <2>2. ASSUME ~(buy.fills /\ sell.fills) PROVE a.ok = FALSE
    BY <1>2, <1>6, <2>2
  <2>3. a.ok => buy.fills /\ sell.fills
    BY <2>2
  <2> QED
    BY <1>3, <1>4, <1>6, <2>1, <2>3, Zenon DEF Backs
<1> QED
  BY <1>1, <1>5, <1>6 DEF a

\* A worker's analysis, cached or not, is backed, and so is the cache it leaves.
LEMMA AnalyzedBacks ==
  ASSUME Market, NEW long \in Exchanges, NEW short \in Exchanges
  PROVE  /\ Analyzed(long, short) \in Analyses /\ Backs(Analyzed(long, short), long, short)
         /\ Caching(long, short) /\ UNCHANGED books => Market'
<1>1. PICK a : a = Analysis(books, Volume, long, short) /\ a \in Analyses /\ Backs(a, long, short)
  BY AnalysisBacks DEF Market
<1>2. Analyzed(long, short) \in Analyses /\ Backs(Analyzed(long, short), long, short)
  BY <1>1 DEF Analyzed, Cached, Market, CacheKnown
<1>3. ASSUME Caching(long, short), UNCHANGED books PROVE Market'
  <2>1. cache' = [cache EXCEPT ![<<long, short>>] = a] \/ cache' = cache
    BY <1>1, <1>3 DEF Caching
  <2>2. cache' \in [Exchanges \X Exchanges -> Analyses \cup {Nil}]
    BY <1>1, <2>1 DEF Market
  <2>3. ASSUME NEW l \in Exchanges, NEW s \in Exchanges
        PROVE  cache'[<<l, s>>] = cache[<<l, s>>] \/ (l = long /\ s = short /\ cache'[<<l, s>>] = a)
    BY <2>1 DEF Market
  <2>4. CacheKnown'
    <3> SUFFICES ASSUME NEW l \in Exchanges, NEW s \in Exchanges, cache'[<<l, s>>] # Nil
                 PROVE  cache'[<<l, s>>] \in Analyses /\ Backs(cache'[<<l, s>>], l, s)
      BY DEF CacheKnown, Backs, Costs, Yields
    <3> QED
      BY <1>1, <2>3 DEF Market, CacheKnown
  <2> QED
    BY <1>3, <2>2, <2>4 DEF Market, BooksKnown
<1> QED
  BY <1>2, <1>3

\* An exchange that quotes for the first time is put at the end of the index.
LEMMA IndexIs ==
  ASSUME TrackerTyped, NEW e \in Exchanges, NEW q \in Quotes
  PROVE  LET i == IndexWith(e)
             new == [quotes EXCEPT ![e] = q]
         IN  /\ i \in Seq(Exchanges) /\ new \in [Exchanges -> Quotes \cup {Nil}]
             /\ \A j, k \in DOMAIN i : i[j] = i[k] => j = k
             /\ ToSet(i) = {x \in Exchanges : new[x] # Nil}
<1> DEFINE i == IndexWith(e)
           new == [quotes EXCEPT ![e] = q]
<1>1. /\ q # Nil /\ new \in [Exchanges -> Quotes \cup {Nil}]
      /\ \A x \in Exchanges : new[x] = IF x = e THEN q ELSE quotes[x]
  BY PricesAssumption, SpreadAssumption DEF TrackerTyped
<1>2. {x \in Exchanges : new[x] # Nil} = {x \in Exchanges : quotes[x] # Nil} \cup {e}
  BY <1>1
<1>3. CASE quotes[e] # Nil
  <2>1. i = index
    BY <1>3 DEF IndexWith
  <2> QED
    BY <1>1, <1>2, <1>3, <2>1 DEF TrackerTyped
<1>4. CASE quotes[e] = Nil
  <2>1. i = Append(index, e)
    BY <1>4 DEF IndexWith
  <2>2. PICK n \in Nat : n = Len(index)
    BY DEF TrackerTyped
  <2>3. /\ i \in Seq(Exchanges) /\ DOMAIN i = 1..(n + 1) /\ DOMAIN index = 1..n /\ i[n + 1] = e
        /\ \A j \in 1..n : i[j] = index[j]
    BY <2>1, <2>2 DEF TrackerTyped
  <2>4. e \notin ToSet(index)
    BY <1>4 DEF TrackerTyped
  <2>5. \A j \in 1..n : index[j] # e
    BY <2>3, <2>4 DEF ToSet
  <2>6. \A j \in 1..(n + 1) : j \in 1..n \/ j = n + 1
    OBVIOUS
  <2>7. \A j, k \in DOMAIN i : i[j] = i[k] => j = k
    BY <2>3, <2>5, <2>6 DEF TrackerTyped
  <2>8. ToSet(i) = ToSet(index) \cup {e}
    <3>1. \A x : x \in ToSet(i) <=> \E j \in 1..(n + 1) : x = i[j]
      BY <2>3 DEF ToSet
    <3>2. \A x : x \in ToSet(index) <=> \E j \in 1..n : x = index[j]
      BY <2>3 DEF ToSet
    <3>3. \A j \in 1..n : j \in 1..(n + 1)
      OBVIOUS
    <3>4. n + 1 \in 1..(n + 1)
      OBVIOUS
    <3> HIDE DEF i
    <3> QED
      BY <2>3, <2>6, <3>1, <3>2, <3>3, <3>4
  <2> QED
    BY <1>1, <1>2, <2>3, <2>7, <2>8 DEF TrackerTyped
<1> QED
  BY <1>3, <1>4

\* A worker that goes somewhere carries what it was given, and the others what they had,
\* while best prices do not disappear.
LEMMA WorkersCarry ==
  ASSUME Running, NEW w \in Workers, NEW s, Goes(w, s), best # Nil => best' # Nil,
         worker'[w] = s => Carries(w)'
  PROVE  Running'
<1>1. WorkersKnown' /\ worker'[w] = s /\ \A v \in Workers \ {w} : worker'[v] = worker[v]
  BY OthersStay DEF Running
<1>2. ASSUME NEW v \in Workers \ {w} PROVE Carries(v)'
  BY <1>1 DEF Running, Carries
<1> QED
  BY <1>1, <1>2 DEF Running

\* The update of a ticker makes the best prices best again.
LEMMA UpdateKeeps ==
  ASSUME PInv, NEW w \in Workers, Update(w)
  PROVE  PInv'
<1> USE DEF PInv
<1>1. PICK u \in Update_ : u = worker[w].update
  BY DEF Update, Running, Carries
<1>2. PICK i, q, b :
        /\ i = IndexWith(u.exchange) /\ q = [quotes EXCEPT ![u.exchange] = u.quote] /\ b = Best(i, q)
        /\ index' = i /\ quotes' = q /\ best' = (IF b = Nil THEN best ELSE b)
        /\ adjusted' = (b = Nil /\ adjusted)
        /\ Goes(w, AfterUpdate(b))
  BY <1>1 DEF Update
<1>3. UNCHANGED <<queue, books, cache, offer, pushes, changes>>
  BY DEF Update, liquidity
<1>4. /\ i \in Seq(Exchanges) /\ q \in [Exchanges -> Quotes \cup {Nil}]
      /\ \A j, k \in DOMAIN i : i[j] = i[k] => j = k
      /\ ToSet(i) = {x \in Exchanges : q[x] # Nil}
  BY <1>1, <1>2, IndexIs DEF Update_
<1>5. \A e \in ToSet(i) : q[e] \in Quote
  BY <1>4, PricesAssumption
<1>6. /\ b # Nil => AreBest(b, i, q)
      /\ (\E e \in ToSet(i) : q[e].ask > 0) /\ (\E e \in ToSet(i) : q[e].bid > 0) => b # Nil
  BY <1>2, <1>4, <1>5, BestIs
<1>7. best' \in BestPrices \cup {Nil} /\ (best # Nil => best' # Nil) /\ (b # Nil => b \in BestPrices)
  BY <1>2, <1>6 DEF AreBest, TrackerTyped
<1>8. TrackerTyped'
  <2>1. adjusted' \in BOOLEAN
    BY <1>2
  <2>2. adjusted' => best' # Nil
    BY <1>2, <1>7 DEF TrackerTyped
  <2> QED
    BY <1>2, <1>3, <1>4, <1>7, <2>1, <2>2 DEF TrackerTyped
<1>9. Tracked'
  <2> SUFFICES ASSUME ~adjusted', Sellers' # {}, Buyers' # {}
               PROVE  best' # Nil /\ AreBest(best', index', quotes')
    BY DEF Tracked
  <2>1. (\E e \in ToSet(i) : q[e].ask > 0) /\ (\E e \in ToSet(i) : q[e].bid > 0)
    BY <1>2, <1>4 DEF Sellers, Buyers
  <2> QED
    BY <1>2, <1>6, <2>1
<1>10. Market'
  BY <1>3 DEF Market, BooksKnown, CacheKnown, Backs, Costs, Yields
<1>11. Running'
  <2>1. /\ AfterUpdate(b).pc \in {"analyze", "look"}
        /\ AfterUpdate(b).pc = "analyze" => b # Nil /\ AfterUpdate(b).best = b
    BY DEF AfterUpdate
  <2>2. worker'[w] = AfterUpdate(b) => Carries(w)'
    BY <1>2, <1>7, <2>1 DEF Carries
  <2> QED
    BY <1>2, <1>7, <2>2, WorkersCarry
<1>12. OpportunityBacked' /\ Counted'
  BY <1>3 DEF OpportunityBacked, Costs, Yields, Counted
<1> QED
  BY <1>8, <1>9, <1>10, <1>11, <1>12

\* What neither the books nor the tracker is told of leaves what is known of them.
LEMMA MarketStays == ASSUME Market, UNCHANGED liquidity PROVE Market'
BY DEF Market, liquidity, BooksKnown, CacheKnown, Backs, Costs, Yields

LEMMA OfferStays == ASSUME OpportunityBacked, UNCHANGED offer PROVE OpportunityBacked'
BY DEF OpportunityBacked, Costs, Yields

LEMMA TrackerStays ==
  ASSUME TrackerTyped, Tracked, UNCHANGED tracker,
         queue' \in Seq(Update_), Len(queue') <= QueueCap
  PROVE  TrackerTyped' /\ Tracked'
<1>1. UNCHANGED <<index, quotes, best, adjusted>>
  BY DEF tracker
<1>2. TrackerTyped'
  BY <1>1 DEF TrackerTyped
<1>3. Tracked'
  BY <1>1 DEF Tracked, Sellers, Buyers
<1> QED
  BY <1>2, <1>3

LEMMA QueueStays ==
  ASSUME TrackerTyped, Tracked, UNCHANGED <<queue, tracker>>
  PROVE  TrackerTyped' /\ Tracked'
<1>1. UNCHANGED tracker /\ queue' = queue
  OBVIOUS
<1> QED
  BY <1>1, TrackerStays DEF TrackerTyped

\* The steps of the exchanges.
LEMMA MarketKeeps ==
  ASSUME PInv, \/ \E e \in Exchanges, q \in Quotes : Push(e, q)
               \/ \E e \in Exchanges : \E b \in Books[e] : UpdateOrderBook(e, b)
               \/ Ages
  PROVE  PInv'
<1> USE DEF PInv
<1>1. pushes \in Nat /\ changes \in Nat /\ MaxPushes \in Nat /\ MaxBooks \in Nat
  BY PricesAssumption DEF Counted
<1>2. ASSUME UNCHANGED <<worker, best>> PROVE Running'
  BY <1>2 DEF Running, WorkersKnown, Carries
<1>3. ASSUME NEW e \in Exchanges, NEW q \in Quotes, Push(e, q) PROVE PInv'
  <2>1. UNCHANGED <<tracker, worker, best, offer>> /\ UNCHANGED liquidity
        /\ pushes < MaxPushes /\ pushes' = pushes + 1 /\ changes' = changes
    BY <1>3 DEF Push, tracker
  <2>2. [exchange |-> e, quote |-> q] \in Update_
    BY DEF Update_
  <2>3. PICK u \in Update_ : u = [exchange |-> e, quote |-> q]
    BY <2>2
  <2>4. queue' = IF Len(queue) < QueueCap THEN Append(queue, u) ELSE queue
    BY <1>3, <2>3 DEF Push
  <2>5. PICK n \in Nat, c \in Nat : n = Len(queue) /\ c = QueueCap /\ n <= c
    BY PricesAssumption DEF TrackerTyped
  <2>6. queue' \in Seq(Update_) /\ Len(queue') <= QueueCap
    BY <2>4, <2>5 DEF TrackerTyped
  <2>7. Counted'
    BY <1>1, <2>1 DEF Counted
  <2>8. TrackerTyped' /\ Tracked'
    BY <2>1, <2>6, TrackerStays
  <2> QED
    BY <1>2, <2>1, <2>7, <2>8, MarketStays, OfferStays
<1>4. ASSUME NEW e \in Exchanges, NEW b \in Books[e], UpdateOrderBook(e, b) PROVE PInv'
  <2>1. UNCHANGED <<queue, tracker, cache, worker, offer, pushes>> /\ best' = best
        /\ changes < MaxBooks /\ changes' = changes + 1
    BY <1>4 DEF UpdateOrderBook, tracker
  <2>2. PICK k : k = [bids |-> Kept(b.bids), asks |-> Kept(b.asks)] /\ books' = [books EXCEPT ![e] = k]
    BY <1>4 DEF UpdateOrderBook
  <2>3. k \in Book
    <3>1. b.bids \in Seq(Level) /\ b.asks \in Seq(Level)
      BY PricesAssumption DEF Book
    <3> QED
      BY <2>2, <3>1, KeptIs DEF Book
  <2>4. \A x \in Exchanges : books'[x] = IF x = e THEN k ELSE books[x]
    BY <2>2 DEF Market, BooksKnown
  <2>5. books' \in [Exchanges -> Book \cup {Nil}]
    BY <2>2, <2>3 DEF Market, BooksKnown
  <2>6. BooksKnown'
    BY <2>2, <2>4, <2>5 DEF Market, BooksKnown
  <2>7. Market'
    BY <2>1, <2>6 DEF Market, CacheKnown, Backs, Costs, Yields
  <2>8. Counted'
    BY <1>1, <2>1 DEF Counted
  <2> QED
    BY <1>2, <2>1, <2>7, <2>8, QueueStays, OfferStays
<1>5. CASE Ages
  <2>1. UNCHANGED <<queue, tracker, worker, offer, pushes>> /\ best' = best
        /\ changes < MaxBooks /\ changes' = changes + 1
    BY <1>5 DEF Ages, tracker
  <2>2. ASSUME \E e \in Exchanges : books' = [books EXCEPT ![e] = Nil] /\ UNCHANGED cache
        PROVE  Market'
    <3>1. PICK e \in Exchanges : books' = [books EXCEPT ![e] = Nil] /\ UNCHANGED cache
      BY <2>2
    <3>2. \A x \in Exchanges : books'[x] = IF x = e THEN Nil ELSE books[x]
      BY <3>1 DEF Market, BooksKnown
    <3>3. books' \in [Exchanges -> Book \cup {Nil}]
      BY <3>1 DEF Market, BooksKnown
    <3>4. BooksKnown'
      BY <3>2, <3>3 DEF Market, BooksKnown
    <3> QED
      BY <3>1, <3>4 DEF Market, CacheKnown, Backs, Costs, Yields
  <2>3. ASSUME cache' = [p \in Exchanges \X Exchanges |-> Nil], UNCHANGED books
        PROVE  Market'
    <3>1. \A p \in Exchanges \X Exchanges : cache'[p] = Nil
      BY <2>3
    <3>2. cache' \in [Exchanges \X Exchanges -> Analyses \cup {Nil}]
      BY <2>3
    <3> QED
      BY <2>3, <3>1, <3>2 DEF Market, BooksKnown, CacheKnown
  <2>4. Market'
    BY <1>5, <2>2, <2>3 DEF Ages
  <2>5. Counted'
    BY <1>1, <2>1 DEF Counted
  <2> QED
    BY <1>2, <2>1, <2>4, <2>5, QueueStays, OfferStays
<1> QED
  BY <1>3, <1>4, <1>5

\* The other steps of a worker.
LEMMA WorkKeeps ==
  ASSUME PInv, NEW w \in Workers, Work(w)
  PROVE  PInv'
<1> USE DEF PInv
<1>1. CASE Take(w)
  <2>1. /\ queue # <<>> /\ queue' = Tail(queue) /\ Goes(w, [pc |-> "update", update |-> Head(queue)])
        /\ UNCHANGED <<tracker, offer, pushes, changes>> /\ UNCHANGED liquidity /\ best' = best
    BY <1>1 DEF Take, tracker
  <2>2. Head(queue) \in Update_ /\ queue' \in Seq(Update_) /\ Len(queue') = Len(queue) - 1
    BY <2>1 DEF TrackerTyped
  <2>3. Len(queue') <= QueueCap
    <3>1. Len(queue) \in Nat /\ Len(queue) <= QueueCap /\ QueueCap \in Nat
      BY PricesAssumption DEF TrackerTyped
    <3> QED
      BY <2>2, <3>1
  <2>4. worker'[w] = [pc |-> "update", update |-> Head(queue)] => Carries(w)'
    BY <2>2 DEF Carries
  <2>5. Running'
    BY <2>1, <2>4, WorkersCarry
  <2>6. TrackerTyped' /\ Tracked'
    BY <2>1, <2>2, <2>3, TrackerStays
  <2> QED
    BY <2>1, <2>5, <2>6, MarketStays, OfferStays DEF Counted
<1>2. CASE Update(w)
  BY <1>2, UpdateKeeps
<1>3. CASE Analyze(w)
  <2>1. PICK b \in BestPrices : b = worker[w].best
    BY <1>3 DEF Analyze, Running, Carries
  <2>2. b.long \in Exchanges /\ b.short \in Exchanges /\ best # Nil
    BY <1>3 DEF BestPrices, Analyze, Running, Carries
  <2>3. PICK a : a = Analyzed(b.long, b.short)
    OBVIOUS
  <2>4. /\ Caching(b.long, b.short)
        /\ Goes(w, IF a.ok THEN [pc |-> "adjust", analysis |-> a] ELSE [pc |-> "look"])
        /\ UNCHANGED <<queue, tracker, books, offer, pushes, changes>> /\ best' = best
    BY <1>3, <2>1, <2>3 DEF Analyze, tracker
  <2>5. a \in Analyses /\ Market'
    BY <2>2, <2>3, <2>4, AnalyzedBacks
  <2>6. PICK s : Goes(w, s) /\ (s = [pc |-> "adjust", analysis |-> a] \/ s = [pc |-> "look"])
    BY <2>4
  <2>7. worker'[w] = s => Carries(w)'
    BY <2>2, <2>4, <2>5, <2>6 DEF Carries
  <2>8. Running'
    BY <2>4, <2>6, <2>7, WorkersCarry
  <2> QED
    BY <2>4, <2>5, <2>8, QueueStays, OfferStays DEF Counted
<1>4. CASE Adjust(w)
  <2>1. PICK a \in Analyses : a = worker[w].analysis
    BY <1>4 DEF Adjust, Running, Carries
  <2>2. best # Nil /\ best \in BestPrices
    BY <1>4 DEF Adjust, Running, Carries, TrackerTyped
  <2>3. /\ best' = [best EXCEPT !.ask = a.avgLong, !.bid = a.avgShort, !.raw = a.spread]
        /\ adjusted' = TRUE /\ Goes(w, [pc |-> "look"])
        /\ UNCHANGED <<queue, index, quotes, offer, pushes, changes>> /\ UNCHANGED liquidity
    BY <1>4, <2>1 DEF Adjust
  <2>4. best' \in BestPrices
    BY <2>2, <2>3 DEF BestPrices, Analyses
  <2>5. best' # Nil
    BY <2>4, SpreadAssumption
  <2>6. TrackerTyped'
    BY <2>3, <2>4, <2>5 DEF TrackerTyped
  <2>7. Tracked'
    BY <2>3 DEF Tracked
  <2>8. worker'[w] = [pc |-> "look"] => Carries(w)'
    BY DEF Carries
  <2>9. Running'
    BY <2>3, <2>5, <2>8, WorkersCarry
  <2> QED
    BY <2>3, <2>6, <2>7, <2>9, MarketStays, OfferStays DEF Counted
<1>5. CASE Look(w)
  <2>1. /\ Goes(w, IF Tempting(best) THEN [pc |-> "detect", best |-> best] ELSE Idle)
        /\ UNCHANGED <<queue, tracker, offer, pushes, changes>> /\ UNCHANGED liquidity /\ best' = best
    BY <1>5 DEF Look, tracker
  <2>2. PICK s : Goes(w, s) /\ ((s = [pc |-> "detect", best |-> best] /\ Tempting(best)) \/ s = Idle)
    BY <2>1
  <2>3. worker'[w] = s => Carries(w)'
    BY <2>2 DEF Carries, Tempting, TrackerTyped, Idle
  <2>4. Running'
    BY <2>1, <2>2, <2>3, WorkersCarry
  <2> QED
    BY <2>1, <2>4, MarketStays, OfferStays, QueueStays DEF Counted
<1>6. CASE Detect(w)
  <2>1. PICK b \in BestPrices : b = worker[w].best /\ b.long # b.short
    BY <1>6 DEF Detect, Running, Carries
  <2>2. b.long \in Exchanges /\ b.short \in Exchanges
    BY DEF BestPrices
  <2>3. PICK a : a = Analyzed(b.long, b.short)
    OBVIOUS
  <2>4. /\ offer' = BestOpportunity(b, a) /\ Caching(b.long, b.short) /\ Goes(w, Idle)
        /\ UNCHANGED <<queue, tracker, books, pushes, changes>> /\ best' = best
    BY <1>6, <2>1, <2>3 DEF Detect, tracker
  <2>5. a \in Analyses /\ Backs(a, b.long, b.short) /\ Market'
    BY <2>2, <2>3, <2>4, AnalyzedBacks
  <2>6. OpportunityBacked'
    <3>1. CASE ~Tempting(b) \/ ~a.ok
      BY <2>4, <3>1 DEF BestOpportunity, OpportunityBacked
    <3>2. CASE ~(~Tempting(b) \/ ~a.ok)
      <4>1. offer' = Opportunity(b, a)
        BY <2>4, <3>2 DEF BestOpportunity
      <4>2. /\ offer'.long = b.long /\ offer'.short = b.short
            /\ offer'.longPrice = a.avgLong /\ offer'.shortPrice = a.avgShort
        BY <4>1 DEF Opportunity
      <4>3. a.ok
        BY <3>2
      <4> QED
        BY <2>1, <2>5, <4>2, <4>3 DEF Backs, OpportunityBacked, Costs, Yields
    <3> QED
      BY <3>1, <3>2
  <2>7. worker'[w] = Idle => Carries(w)'
    BY DEF Carries, Idle
  <2>8. Running'
    BY <2>4, <2>7, WorkersCarry
  <2> QED
    BY <2>4, <2>5, <2>6, <2>8, QueueStays DEF Counted
<1> QED
  BY <1>1, <1>2, <1>3, <1>4, <1>5, <1>6 DEF Work

LEMMA NextPInv == PInv /\ [Next]_vars => PInv'
<1> SUFFICES ASSUME PInv, [Next]_vars PROVE PInv'
  OBVIOUS
<1>1. CASE \E w \in Workers : Work(w)
  BY <1>1, WorkKeeps
<1>2. CASE UNCHANGED vars
  <2>1. UNCHANGED <<queue, tracker, worker, best, offer, pushes, changes>> /\ UNCHANGED liquidity
    BY <1>2 DEF vars, tracker
  <2>2. Running'
    BY <2>1 DEF PInv, Running, WorkersKnown, Carries
  <2> QED
    BY <2>1, <2>2, MarketStays, OfferStays, QueueStays DEF PInv, Counted
<1>3. CASE \/ \E e \in Exchanges, q \in Quotes : Push(e, q)
           \/ \E e \in Exchanges : \E b \in Books[e] : UpdateOrderBook(e, b)
           \/ Ages
  BY <1>3, MarketKeeps
<1> QED
  BY <1>1, <1>2, <1>3 DEF Next

LEMMA AlwaysPInv == Spec => []PInv
BY InitPInv, NextPInv, PTL DEF Spec

\* No exchange that gave a quote is left out of the index or put there twice, and the
\* channel holds no more than its capacity (spread.go, UpdateFromPtr).
THEOREM PricesTypeCorrect == Spec => []TypeOK
<1>1. PInv => TypeOK
  BY DEF PInv, TrackerTyped, Running, Carries, Counted, TypeOK
<1> QED
  BY <1>1, AlwaysPInv, PTL

\* Whatever the order of tickers, the tracker's best prices are the lowest ask and the
\* highest bid there are, at the exchanges it names (spread.go, recalculateBest).
THEOREM BestPricesAreBest == Spec => []BestOfQuotes
<1>1. PInv => BestOfQuotes
  <2> SUFFICES ASSUME PInv, ~adjusted, Sellers # {}, Buyers # {}
               PROVE  /\ best # Nil /\ best.long \in Sellers /\ best.ask = quotes[best.long].ask
                      /\ \A e \in Sellers : best.ask <= quotes[e].ask
                      /\ best.short \in Buyers /\ best.bid = quotes[best.short].bid
                      /\ \A e \in Buyers : best.bid >= quotes[e].bid
    BY DEF BestOfQuotes
  <2>1. best # Nil /\ AreBest(best, index, quotes)
    BY DEF PInv, Tracked
  <2>2. ToSet(index) = {e \in Exchanges : quotes[e] # Nil}
    BY DEF PInv, TrackerTyped
  <2> QED
    BY <2>1, <2>2 DEF AreBest, Sellers, Buyers
<1> QED
  BY <1>1, AlwaysPInv, PTL

\* An opportunity is between two exchanges whose own books fill the volume at the prices
\* it gives, though a worker may have written the tracker's prices over another's
\* (spread.go, applyLiquidity and GetBestOpportunity).
THEOREM OpportunitiesAreBacked == Spec => []OpportunityBacked
BY AlwaysPInv, PTL DEF PInv
=============================================================================
