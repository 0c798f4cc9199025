-------------------------------- MODULE Entry --------------------------------
(***************************************************************************)
(* One pair's way in and out (arbitrage.go, order.go): the conditions of an   *)
(* entry, the volume that the limits of the exchanges allow, and the parts in *)
(* which PartialEntryManager fills it, and the conditions of the exit.        *)
(* Between two steps the market may be                                       *)
(* any of Markets; what ExecuteParallel and CloseParallel may answer is what  *)
(* OrderExec shows.                                                         *)
(***************************************************************************)
EXTENDS Spread

CONSTANTS
  Markets,      \* what the tracker and the books may hold: quotes, index, books
  Quantities,   \* the volumes a user may ask for
  Orders,       \* the numbers of orders a user may ask for
  LimitSets,    \* the limits an exchange may have
  Defaults,     \* the limits used for an exchange whose own were not loaded
  Funds,        \* the margin an exchange may have
  EntrySpread, ExitSpread, StopLoss,
  MaxEntries    \* a bound on entries

Limit == [min : Nat, max : Nat, step : Nat \ {0}, notional : Nat]

\* What ExecutePartialEntry may return.
Result ==
  [ok : BOOLEAN, legs : [long : Nat, short : Nat] \cup {Nil},
   why : {"filled", "failed", "none filled", "context", "no opportunity", "tightened", "close failed"}]

ASSUME EntryAssumption ==
  /\ Quantities \subseteq Nat \ {0} /\ Orders \subseteq Nat \ {0}
  /\ LimitSets \subseteq Limit /\ Defaults \in Limit
  /\ Funds \subseteq Nat /\ EntrySpread \in Int /\ ExitSpread \in Int
  /\ StopLoss \in Nat /\ MaxEntries \in Nat
  /\ \A n \in Orders : \A l \in LimitSets \cup {Defaults} : l.step % n = 0
  /\ Nil \notin Result

ASSUME MarketsAssumption ==
  \A m \in Markets : m.index \in Seq(Exchanges) /\ \A e \in ToSet(m.index) : m.quotes[e] \in Quote

VARIABLES
  pc,       \* where the entry is
  config,   \* the pair's volume and number of orders
  limits,   \* the limits that were loaded
  margin,   \* marginCache
  opp,      \* the opportunity of the entry
  volume,   \* AdjustedVolume
  part,     \* how many parts were tried
  filled,   \* FilledParts
  sums,     \* totalLongQty and totalShortQty
  held,     \* what the pair really holds at the two exchanges
  before,   \* what it held when the entry began
  blind,    \* whether an answer hid a fill, or a part left a leg
  result,   \* what ExecutePartialEntry returned
  left,     \* why the last position was closed, and the gap between the exchanges then
  entries   \* how many entries there were

vars == <<pc, config, limits, margin, opp, volume, part, filled, sums, held, before, blind,
          result, left, entries>>

Both(q) == [long |-> q, short |-> q]
Plus(a, b) == [long |-> a.long + b.long, short |-> a.short + b.short]

Init ==
  /\ pc = "ready" /\ config \in [qty : Quantities, n : Orders]
  /\ limits \in [Exchanges -> LimitSets \cup {Nil}] /\ margin = [e \in Exchanges |-> Nil]
  /\ opp = Nil /\ volume = 0 /\ part = 0 /\ filled = 0 /\ sums = Both(0)
  /\ held = Both(0) /\ before = Both(0) /\ blind = FALSE
  /\ result = Nil /\ left = Nil /\ entries = 0
-----------------------------------------------------------------------------
(* OrderValidator.                                                          *)

RoundToStep(q, step) == (q \div step) * step

LimitsOf(e) == IF limits[e] = Nil THEN Defaults ELSE limits[e]

\* The quantity in lots of the exchange and at most its largest order.
Sized(e, q) ==
  LET l == LimitsOf(e)
      r == RoundToStep(q, l.step)
  IN  IF l.max > 0 /\ r > l.max THEN RoundToStep(l.max, l.step) ELSE r

\* ValidateOrderQty: the smallest order is compared before the largest one is applied.
ValidQty(e, q, price) ==
  /\ RoundToStep(q, LimitsOf(e).step) >= LimitsOf(e).min
  /\ price > 0 => Sized(e, q) * price >= LimitsOf(e).notional

\* Mutant: the larger of the two quantities is taken.
LargerLeg(long, short, q) ==
  IF Sized(long, q) > Sized(short, q) THEN Sized(long, q) ELSE Sized(short, q)

\* ValidateBothLegs takes the smaller of the two quantities.
SmallerLeg(long, short, q) ==
  IF Sized(short, q) < Sized(long, q) THEN Sized(short, q) ELSE Sized(long, q)
-----------------------------------------------------------------------------
(* CheckEntryConditions.                                                    *)

\* checkMarginRequirement for one exchange, at ten times leverage: the margin is
\* fetched once and then believed for ever.
Enough(m, q, price) == m # Nil /\ m >= (q * price) \div 10

\* Mutant: a margin that cannot be fetched is taken for none, and kept.
FetchedOrNone(m, e) == IF margin[e] # Nil THEN {margin[e]} ELSE m \cup {0}

\* What is known of the margin of an exchange: Nil when it cannot be fetched.
Fetched(m, e) == IF margin[e] # Nil THEN {margin[e]} ELSE m \cup {Nil}

\* DetectWithLiquidity in a market.
Detected(m, q) ==
  LET b == Best(m.index, m.quotes) IN
  IF b = Nil THEN Nil
  ELSE WithLiquidity(b, Analysis(m.books, config.qty, b.long, b.short),
                        Analysis(m.books, q, b.long, b.short))

\* The pair is found worth entering, and what was learned of margins is kept.
CheckEntry(m) ==
  /\ pc = "ready" /\ entries < MaxEntries
  /\ LET d == Detected(m, config.qty) IN
     /\ d # Nil /\ d.ok /\ d.opp.net >= EntrySpread
     /\ ValidQty(d.opp.long, config.qty, d.opp.longPrice)
     /\ ValidQty(d.opp.short, config.qty, d.opp.shortPrice)
     /\ LET v == SmallerLeg(d.opp.long, d.opp.short, config.qty) IN
        \E ml \in Fetched(Funds, d.opp.long), ms \in Fetched(Funds, d.opp.short) :
          IF Enough(ml, v, d.opp.longPrice)
          THEN /\ margin' = [margin EXCEPT ![d.opp.long] = ml, ![d.opp.short] = ms]
               /\ IF Enough(ms, v, d.opp.longPrice)
                  THEN /\ pc' = IF config.n > 1 THEN "part" ELSE "single"
                       /\ opp' = d.opp /\ volume' = v /\ entries' = entries + 1
                       /\ before' = held /\ left' = Nil
                  ELSE UNCHANGED <<pc, opp, volume, entries, before, left>>
          ELSE /\ margin' = [margin EXCEPT ![d.opp.long] = ml]
               /\ UNCHANGED <<pc, opp, volume, entries, before, left>>
  /\ UNCHANGED <<config, limits, part, filled, sums, blind, result, held>>
-----------------------------------------------------------------------------
(* ExecuteParallel and CloseParallel, as OrderExec shows them.               *)

\* What may come of an order for q on each side: both fill, and the answers say so or
\* come before a fill; or the entry fails, and may leave one leg or both.
Answers(q) ==
  {[ok |-> TRUE, fills |-> Both(q), says |-> s] : s \in [long : {0, q}, short : {0, q}]}
  \cup {[ok |-> FALSE, fills |-> f, says |-> Both(0)] : f \in [long : {0, q}, short : {0, q}]}

Truthful(a) == IF a.ok THEN a.says = a.fills ELSE a.fills = Both(0)
-----------------------------------------------------------------------------
(* ExecutePartialEntry.                                                     *)

PartVolume == volume \div config.n

Return(r) == pc' = "returned" /\ result' = r

Stopped(why) == [ok |-> FALSE, legs |-> Nil, why |-> why]

\* The legs are made of what the parts said, when any part was filled.
Legs == IF filled > 0 THEN [ok |-> TRUE, legs |-> sums, why |-> "filled"] ELSE Stopped("none filled")

\* Between two parts the context may have ended: what was filled is not returned.
ContextEnds ==
  /\ pc = "part" /\ part < config.n /\ Return(Stopped("context"))
  /\ UNCHANGED <<config, limits, margin, opp, volume, part, filled, sums, held, before, blind, left, entries>>

\* No opportunity before the next part: what was filled is not returned either.
NothingFound(m) ==
  /\ pc = "part" /\ part < config.n /\ Detected(m, PartVolume) = Nil
  /\ Return(Stopped("no opportunity"))
  /\ UNCHANGED <<config, limits, margin, opp, volume, part, filled, sums, held, before, blind, left, entries>>

Tightened(d) == ExitSpread > 0 /\ d.opp.net <= ExitSpread /\ filled > 0

\* closeFilledParts, which does nothing when a side is recorded as empty.
CloseFilled(m) ==
  /\ pc = "part" /\ part < config.n
  /\ LET d == Detected(m, PartVolume) IN d # Nil /\ Tightened(d)
  /\ IF sums.long <= 0 \/ sums.short <= 0
     THEN held' = held /\ Return(Stopped("tightened"))
     ELSE \E open \in SUBSET {"long", "short"} :
            /\ held' = [s \in {"long", "short"} |-> IF s \in open THEN held[s] ELSE held[s] - sums[s]]
            /\ Return(Stopped(IF open = {} THEN "tightened" ELSE "close failed"))
  /\ UNCHANGED <<config, limits, margin, opp, volume, part, filled, sums, before, blind, left, entries>>

\* Mutant: the parts that were filled are forgotten when the spread degrades.
Forgets == Stopped("degraded")

\* What a degraded spread, or a thin book, returns.
Keeps == Legs

\* A spread below the entry threshold, or a book too thin, ends the entry with what it has.
Degrades(m) ==
  /\ pc = "part" /\ part < config.n
  /\ LET d == Detected(m, PartVolume) IN
     d # Nil /\ ~Tightened(d) /\ (d.opp.net < EntrySpread \/ ~d.ok)
  /\ Return(Keeps)
  /\ UNCHANGED <<config, limits, margin, opp, volume, part, filled, sums, held, before, blind, left, entries>>

\* Mutant: a part that failed is tried again.
TriedIfFilled(a) == IF a.ok THEN part + 1 ELSE part

Tried(a) == part + 1

\* The totals count what the answers say was filled.
Summed(a) == IF a.ok THEN Plus(sums, a.says) ELSE sums

\* A part is sent to the exchanges of the opportunity the entry began with, whichever
\* exchanges the spread was now found at.
Part(m) ==
  /\ pc = "part" /\ part < config.n
  /\ LET d == Detected(m, PartVolume) IN
     d # Nil /\ ~Tightened(d) /\ d.opp.net >= EntrySpread /\ d.ok
  /\ \E a \in Answers(PartVolume) :
       /\ held' = Plus(held, a.fills)
       /\ part' = Tried(a)
       /\ filled' = IF a.ok THEN filled + 1 ELSE filled
       /\ sums' = Summed(a)
       /\ blind' = (blind \/ ~Truthful(a))
  /\ UNCHANGED <<pc, config, limits, margin, opp, volume, before, result, left, entries>>

AllParts ==
  /\ pc = "part" /\ part = config.n /\ Return(Legs)
  /\ UNCHANGED <<config, limits, margin, opp, volume, part, filled, sums, held, before, blind, left, entries>>

\* With one order the whole volume goes to ExecuteParallel at once.
Single ==
  /\ pc = "single"
  /\ \E a \in Answers(volume) :
       /\ held' = Plus(held, a.fills) /\ sums' = a.says
       /\ blind' = ~Truthful(a)
       /\ Return(IF a.ok THEN [ok |-> TRUE, legs |-> a.says, why |-> "filled"] ELSE Stopped("failed"))
  /\ UNCHANGED <<config, limits, margin, opp, volume, part, filled, before, left, entries>>

\* What an entry knew is gone when the pair is READY or in ERROR.
Settled(p) ==
  /\ pc' = p /\ opp' = Nil /\ volume' = 0 /\ part' = 0 /\ filled' = 0 /\ sums' = Both(0)
  /\ before' = Both(0) /\ blind' = FALSE /\ result' = Nil

\* executeEntryWithConditions returns a pair without legs to READY.
Again ==
  /\ pc = "returned" /\ ~result.ok /\ Settled("ready")
  /\ UNCHANGED <<config, limits, margin, held, left, entries>>

-----------------------------------------------------------------------------
(* The exit.                                                                *)

\* CheckExitConditions on the legs at the two exchanges of the entry.
Verdict(m) ==
  LET l == m.quotes[opp.long]
      s == m.quotes[opp.short]
  IN ExitReason(result.legs.long * Pnl(l, opp.longPrice, s, opp.shortPrice), CurrentSpread(l, s),
                StopLoss, ExitSpread)

\* How much dearer the asset still is where it was sold.
Gap(m) ==
  LET l == m.quotes[opp.long]
      s == m.quotes[opp.short]
  IN IF l = Nil \/ s = Nil THEN 0 ELSE RawSpread(s.bid, l.ask)

\* checkExitConditionsForPair and executeExit: both legs are closed, or the pair is in
\* ERROR for good.
Exit(m) ==
  /\ pc = "returned" /\ result.ok /\ Verdict(m) # "none"
  /\ left' = [why |-> Verdict(m), gap |-> Gap(m)]
  /\ \E open \in SUBSET {"long", "short"} :
       /\ held' = [s \in {"long", "short"} |-> IF s \in open THEN held[s] ELSE held[s] - result.legs[s]]
       /\ Settled(IF open = {} THEN "ready" ELSE "error")
  /\ UNCHANGED <<config, limits, margin, entries>>

Next ==
  \/ \E m \in Markets : CheckEntry(m) \/ NothingFound(m) \/ CloseFilled(m) \/ Degrades(m) \/ Part(m)
                        \/ Exit(m)
  \/ ContextEnds \/ AllParts \/ Single \/ Again

Spec == Init /\ [][Next]_vars
-----------------------------------------------------------------------------
Gained == [s \in {"long", "short"} |-> held[s] - before[s]]

\* The parts that filled are among those that were tried, and an entry has a result
\* exactly when it has returned.
TypeOK ==
  /\ pc \in {"ready", "part", "single", "returned", "error"}
  /\ config \in [qty : Quantities, n : Orders]
  /\ \A e \in Exchanges : margin[e] = Nil \/ margin[e] \in Funds
  /\ volume \in Nat /\ part \in 0..config.n /\ filled \in 0..part
  /\ sums \in [long : Nat, short : Nat] /\ held \in [long : Nat, short : Nat]
  /\ blind \in BOOLEAN /\ entries \in 0..MaxEntries
  /\ (pc = "returned") = (result # Nil)

\* An entry never holds more on a side than the volume that was validated, nor that
\* more than the user asked for or either exchange takes in one order.
BudgetKept ==
  pc \notin {"ready", "error"} =>
    /\ Gained.long <= volume /\ Gained.short <= volume /\ volume <= config.qty
    /\ \A e \in {opp.long, opp.short} : LimitsOf(e).max > 0 => volume <= LimitsOf(e).max

\* When the answers were true, the legs that an entry returns are what it holds, equal
\* on the two exchanges; and one that returns none holds nothing, unless it was
\* stopped by the context, by a lost opportunity or by a close that failed.
LegsAreHeld ==
  pc = "returned" /\ ~blind =>
    IF result.ok THEN result.legs = Gained /\ Gained.long = Gained.short
    ELSE Gained = Both(0) \/ result.why \in {"context", "no opportunity", "close failed"}

\* What the specification says of an exit by spread: the gap between the prices at the
\* two exchanges has narrowed to the exit spread.  The code does not keep to it.
ExitConverged ==
  left # Nil /\ left.why = "spread_reached" => left.gap <= ExitSpread
=============================================================================
