----------------------------- MODULE EntryProofs -----------------------------
(***************************************************************************)
(* Theorems about Entry, for any markets, volumes, numbers of orders, limits  *)
(* and margins.                                                             *)
(***************************************************************************)
EXTENDS Entry, SpreadProofs

Sides == {"long", "short"}

\* Quantities of the two legs are functions of the side.
LEMMA SidesAreFields == [Sides -> Nat] = [long : Nat, short : Nat]
<1>1. ASSUME NEW f \in [Sides -> Nat] PROVE f \in [long : Nat, short : Nat]
  BY DEF Sides
<1>2. ASSUME NEW f \in [long : Nat, short : Nat] PROVE f \in [Sides -> Nat]
  BY DEF Sides
<1> QED
  BY <1>1, <1>2

LEMMA BothIs ==
  ASSUME NEW q \in Nat
  PROVE  Both(q) \in [Sides -> Nat] /\ \A s \in Sides : Both(q)[s] = q
BY DEF Both, Sides

LEMMA PlusIs ==
  ASSUME NEW a \in [Sides -> Nat], NEW b \in [Sides -> Nat]
  PROVE  Plus(a, b) \in [Sides -> Nat] /\ \A s \in Sides : Plus(a, b)[s] = a[s] + b[s]
BY DEF Plus, Sides

LEMMA SidesEqual ==
  ASSUME NEW a \in [Sides -> Nat], NEW b \in [Sides -> Nat], \A s \in Sides : a[s] = b[s]
  PROVE  a = b
OBVIOUS

\* Rounding to lots rounds down,
LEMMA Rounds ==
  ASSUME NEW q \in Nat, NEW step \in Nat \ {0}
  PROVE  q \div step \in Nat /\ RoundToStep(q, step) \in Nat /\ RoundToStep(q, step) <= q
BY DEF RoundToStep

\* and so does dividing into parts.
LEMMA PartsFit ==
  ASSUME NEW v \in Nat, NEW n \in Nat \ {0}, NEW p \in 0..n
  PROVE  v \div n \in Nat /\ p * (v \div n) <= v
<1>1. PICK d \in Nat : d = v \div n /\ d * n <= v
  OBVIOUS
<1>2. p * d <= n * d
  OBVIOUS
<1> QED
  BY <1>1, <1>2

\* The quantity that is sent is no more than was asked for, nor than the largest order.
LEMMA SizedFits ==
  ASSUME NEW e, LimitsOf(e) \in Limit, NEW q \in Nat
  PROVE  /\ Sized(e, q) \in Nat /\ Sized(e, q) <= q
         /\ LimitsOf(e).max > 0 => Sized(e, q) <= LimitsOf(e).max
<1>1. PICK max \in Nat, step \in Nat \ {0} : max = LimitsOf(e).max /\ step = LimitsOf(e).step
  BY DEF Limit
<1>2. /\ RoundToStep(q, step) \in Nat /\ RoundToStep(q, step) <= q
      /\ RoundToStep(max, step) \in Nat /\ RoundToStep(max, step) <= max
  BY Rounds
<1>3. Sized(e, q) = IF max > 0 /\ RoundToStep(q, step) > max
                    THEN RoundToStep(max, step) ELSE RoundToStep(q, step)
  BY <1>1 DEF Sized
<1> QED
  BY <1>1, <1>2, <1>3

\* The smaller leg fits both exchanges.
LEMMA SmallerFits ==
  ASSUME NEW a, NEW b, LimitsOf(a) \in Limit, LimitsOf(b) \in Limit, NEW q \in Nat
  PROVE  /\ SmallerLeg(a, b, q) \in Nat /\ SmallerLeg(a, b, q) <= q
         /\ \A e \in {a, b} : LimitsOf(e).max > 0 => SmallerLeg(a, b, q) <= LimitsOf(e).max
<1>1. PICK x \in Nat, y \in Nat : x = Sized(a, q) /\ y = Sized(b, q)
  BY SizedFits
<1>2. /\ x <= q /\ y <= q
      /\ LimitsOf(a).max > 0 => x <= LimitsOf(a).max
      /\ LimitsOf(b).max > 0 => y <= LimitsOf(b).max
  BY <1>1, SizedFits
<1>3. SmallerLeg(a, b, q) = IF y < x THEN y ELSE x
  BY <1>1 DEF SmallerLeg
<1>4. LimitsOf(a).max \in Nat /\ LimitsOf(b).max \in Nat
  BY DEF Limit
<1> QED
  BY <1>2, <1>3, <1>4

\* An opportunity is between two exchanges.
LEMMA DetectedIs ==
  ASSUME NEW m \in Markets, NEW q, Detected(m, q) # Nil
  PROVE  {Detected(m, q).opp.long, Detected(m, q).opp.short} \subseteq Exchanges
<1> DEFINE b == Best(m.index, m.quotes)
           whole == Analysis(m.books, config.qty, b.long, b.short)
           part_ == Analysis(m.books, q, b.long, b.short)
<1>1. b # Nil /\ Detected(m, q) = WithLiquidity(b, whole, part_)
  BY DEF Detected
<1>2. {b.long, b.short} \subseteq Exchanges
  BY <1>1, MarketsAssumption, BestIs DEF AreBest, BestPrices
<1> HIDE DEF b, whole, part_
<1>3. PICK o : o = BestOpportunity(b, whole)
  OBVIOUS
<1>4. o # Nil /\ Detected(m, q) = [opp |-> IF part_.ok THEN Opportunity(b, part_) ELSE o, ok |-> part_.ok]
  BY <1>1, <1>3 DEF WithLiquidity
<1>5. o.long = b.long /\ o.short = b.short
  BY <1>3, <1>4 DEF BestOpportunity, Opportunity
<1>6. Opportunity(b, part_).long = b.long /\ Opportunity(b, part_).short = b.short
  BY DEF Opportunity
<1>7. Detected(m, q).opp = IF part_.ok THEN Opportunity(b, part_) ELSE o
  BY <1>4
<1> QED
  BY <1>2, <1>5, <1>6, <1>7

\* What an answer says is filled, is.
LEMMA AnswerIs ==
  ASSUME NEW q \in Nat, NEW a \in Answers(q)
  PROVE  /\ a.ok \in BOOLEAN /\ a.fills \in [Sides -> Nat] /\ a.says \in [Sides -> Nat]
         /\ \A s \in Sides : a.says[s] <= a.fills[s] /\ a.fills[s] <= q
         /\ a.ok => a.fills.long = a.fills.short
         /\ ~a.ok => \A s \in Sides : a.says[s] = 0
         /\ Truthful(a) => \A s \in Sides : a.says[s] = a.fills[s]
<1>1. [long : {0, q}, short : {0, q}] \subseteq [Sides -> Nat]
      /\ \A f \in [long : {0, q}, short : {0, q}] : \A s \in Sides : f[s] \in {0, q}
  BY DEF Sides
<1>2. CASE a \in {[ok |-> TRUE, fills |-> Both(q), says |-> s] : s \in [long : {0, q}, short : {0, q}]}
  <2>1. PICK s \in [long : {0, q}, short : {0, q}] : a = [ok |-> TRUE, fills |-> Both(q), says |-> s]
    BY <1>2
  <2>2. a.ok = TRUE /\ a.fills = Both(q) /\ a.says = s
    BY <2>1
  <2>3. Both(q).long = Both(q).short
    BY DEF Both
  <2>4. /\ a.fills \in [Sides -> Nat] /\ a.says \in [Sides -> Nat]
        /\ \A t \in Sides : a.says[t] \in {0, q} /\ a.fills[t] = q
    BY <1>1, <2>2, BothIs
  <2>5. \A t \in Sides : a.says[t] <= a.fills[t] /\ a.fills[t] <= q
    BY <2>4
  <2>6. Truthful(a) => a.says = a.fills
    BY <2>2 DEF Truthful
  <2> QED
    BY <2>2, <2>3, <2>4, <2>5, <2>6
<1>3. CASE a \in {[ok |-> FALSE, fills |-> f, says |-> Both(0)] : f \in [long : {0, q}, short : {0, q}]}
  <2>1. PICK f \in [long : {0, q}, short : {0, q}] : a = [ok |-> FALSE, fills |-> f, says |-> Both(0)]
    BY <1>3
  <2>2. a.ok = FALSE /\ a.fills = f /\ a.says = Both(0)
    BY <2>1
  <2>3. /\ a.fills \in [Sides -> Nat] /\ a.says \in [Sides -> Nat]
        /\ \A t \in Sides : a.fills[t] \in {0, q} /\ a.says[t] = 0
    BY <1>1, <2>2, BothIs
  <2>4. \A t \in Sides : a.says[t] <= a.fills[t] /\ a.fills[t] <= q
    BY <2>3
  <2>5. Truthful(a) => a.says = a.fills
    BY <2>2 DEF Truthful
  <2> QED
    BY <2>2, <2>3, <2>4, <2>5
<1> QED
  BY <1>2, <1>3 DEF Answers
-----------------------------------------------------------------------------
(* The inductive invariant.                                                 *)

Typed ==
  /\ pc \in {"ready", "part", "single", "returned", "error"}
  /\ config \in [qty : Quantities, n : Orders]
  /\ limits \in [Exchanges -> LimitSets \cup {Nil}] /\ margin \in [Exchanges -> Funds \cup {Nil}]
  /\ volume \in Nat /\ part \in 0..config.n /\ filled \in 0..part
  /\ sums \in [Sides -> Nat] /\ held \in [Sides -> Nat] /\ before \in [Sides -> Nat]
  /\ blind \in BOOLEAN /\ entries \in 0..MaxEntries

\* What the entry added to a side.
Gain(s) == held[s] - before[s]

Rest == part = 0 /\ filled = 0 /\ sums = Both(0) /\ ~blind /\ result = Nil

\* A pair that is READY knows nothing of an entry, one in ERROR has no result,
Resting == (pc = "ready" => Rest) /\ (pc = "error" => result = Nil)

\* and a single order has not been sent.
Awaiting == pc = "single" => Rest /\ held = before

\* Between two parts what was counted is at most what was gained, the parts that were
\* tried bound it, and the count is exact when the answers were true.
Filling ==
  pc = "part" =>
    /\ result = Nil
    /\ \A s \in Sides : sums[s] <= Gain(s) /\ Gain(s) <= part * PartVolume
    /\ ~blind => (\A s \in Sides : Gain(s) = sums[s]) /\ sums.long = sums.short
    /\ filled = 0 => sums = Both(0)

\* What was returned.
Returned ==
  pc = "returned" =>
    /\ result \in Result
    /\ \A s \in Sides : 0 <= Gain(s) /\ Gain(s) <= volume
    /\ result.ok => result.legs = sums /\ \A s \in Sides : sums[s] <= Gain(s)
    /\ ~blind => IF result.ok THEN sums.long = sums.short /\ \A s \in Sides : Gain(s) = sums[s]
                 ELSE \/ \A s \in Sides : Gain(s) = 0
                      \/ result.why \in {"context", "no opportunity", "close failed"}

\* The volume of an entry fits the pair and both exchanges.
Validated ==
  pc \notin {"ready", "error"} =>
    /\ volume <= config.qty /\ {opp.long, opp.short} \subseteq Exchanges
    /\ \A e \in {opp.long, opp.short} : LimitsOf(e).max > 0 => volume <= LimitsOf(e).max

IInv == Typed /\ Resting /\ Awaiting /\ Filling /\ Returned /\ Validated

LEMMA ConfigIs ==
  ASSUME Typed
  PROVE  config.qty \in Nat \ {0} /\ config.n \in Nat \ {0}
BY EntryAssumption DEF Typed

LEMMA LimitsAre ==
  ASSUME Typed, NEW e \in Exchanges
  PROVE  LimitsOf(e) \in Limit
BY EntryAssumption DEF Typed, LimitsOf

LEMMA InitIInv == Init => IInv
<1> SUFFICES ASSUME Init PROVE IInv
  OBVIOUS
<1>1. Both(0) \in [Sides -> Nat]
  BY BothIs
<1>2. config.n \in Nat /\ MaxEntries \in Nat
  BY EntryAssumption DEF Init
<1>3. Typed
  <2>1. 0 \in 0..config.n /\ 0 \in 0..0 /\ 0 \in 0..MaxEntries /\ 0 \in Nat
    BY <1>2
  <2>2. margin \in [Exchanges -> Funds \cup {Nil}]
    BY DEF Init
  <2> QED
    BY <1>1, <2>1, <2>2 DEF Init, Typed
<1> QED
  BY <1>3 DEF Init, IInv, Resting, Rest, Awaiting, Filling, Returned, Validated

\* The pair is found worth entering.
LEMMA CheckEntryKeeps ==
  ASSUME IInv, NEW m \in Markets, CheckEntry(m)
  PROVE  IInv'
<1> USE DEF IInv
<1>1. PICK d : d = Detected(m, config.qty)
  OBVIOUS
<1>2. d # Nil /\ d.opp.long \in Exchanges /\ d.opp.short \in Exchanges
  BY <1>1, DetectedIs DEF CheckEntry
<1>3. PICK v : v = SmallerLeg(d.opp.long, d.opp.short, config.qty)
  OBVIOUS
<1>4. PICK ml \in Fetched(Funds, d.opp.long), ms \in Fetched(Funds, d.opp.short) :
        /\ margin' \in {[margin EXCEPT ![d.opp.long] = ml],
                        [margin EXCEPT ![d.opp.long] = ml, ![d.opp.short] = ms]}
        /\ \/ /\ pc' = IF config.n > 1 THEN "part" ELSE "single"
              /\ opp' = d.opp /\ volume' = v /\ entries' = entries + 1
              /\ before' = held
           \/ UNCHANGED <<pc, opp, volume, entries, before>>
  BY <1>1, <1>3 DEF CheckEntry
<1>5. UNCHANGED <<config, limits, part, filled, sums, blind, result, held>> /\ pc = "ready" /\ entries < MaxEntries
  BY DEF CheckEntry
<1>6. ml \in Funds \cup {Nil} /\ ms \in Funds \cup {Nil}
  BY <1>2 DEF Fetched, Typed
<1>7. margin' \in [Exchanges -> Funds \cup {Nil}]
  BY <1>4, <1>6 DEF Typed
<1>8. /\ v \in Nat /\ v <= config.qty
      /\ \A e \in {d.opp.long, d.opp.short} : LimitsOf(e).max > 0 => v <= LimitsOf(e).max
  BY <1>2, <1>3, ConfigIs, LimitsAre, SmallerFits
<1>9. Typed' /\ Rest'
  BY <1>4, <1>5, <1>7, <1>8, EntryAssumption DEF Typed, Resting, Rest
<1>10. CASE UNCHANGED <<pc, opp, volume, entries, before>>
  BY <1>5, <1>9, <1>10 DEF Resting, Awaiting, Filling, Returned, Validated
<1>11. CASE /\ pc' = IF config.n > 1 THEN "part" ELSE "single"
            /\ opp' = d.opp /\ volume' = v /\ before' = held
  <2>1. Validated'
    BY <1>2, <1>5, <1>8, <1>11 DEF Validated, LimitsOf
  <2>2. Awaiting' /\ Resting' /\ Returned'
    BY <1>5, <1>9, <1>11 DEF Awaiting, Resting, Returned
  <2>3. Filling'
    <3>1. \A s \in Sides : Gain(s)' = 0 /\ sums'[s] = 0
      BY <1>5, <1>9, <1>11, BothIs DEF Gain, Rest, Typed
    <3>2. 0 * PartVolume' = 0
      <4>1. PICK v2 \in Nat, n \in Nat \ {0} : v2 = volume' /\ n = config'.n
        BY <1>5, <1>9, ConfigIs DEF Typed
      <4>2. v2 \div n \in Nat
        BY Rounds
      <4> QED
        BY <4>1, <4>2 DEF PartVolume
    <3>3. sums'.long = sums'.short
      BY <3>1 DEF Sides
    <3> QED
      BY <1>9, <3>1, <3>2, <3>3 DEF Filling, Rest
  <2> QED
    BY <1>9, <2>1, <2>2, <2>3
<1> QED
  BY <1>4, <1>10, <1>11

\* While parts are filled no side gains more than the volume.
LEMMA FillingFits ==
  ASSUME IInv, pc = "part"
  PROVE  /\ \A s \in Sides : /\ Gain(s) \in Int /\ 0 <= sums[s] /\ sums[s] <= Gain(s)
                             /\ 0 <= Gain(s) /\ Gain(s) <= volume
         /\ PartVolume \in Nat
<1> USE DEF IInv
<1>1. part \in 0..config.n /\ volume \in Nat /\ config.n \in Nat \ {0}
  BY ConfigIs DEF Typed
<1>2. PartVolume \in Nat /\ part * PartVolume <= volume
  BY <1>1, PartsFit DEF PartVolume
<1>3. PICK p \in Nat : p = part * PartVolume
  BY <1>1, <1>2
<1>4. \A s \in Sides : sums[s] <= Gain(s) /\ Gain(s) <= p
  BY <1>3 DEF Filling
<1>5. \A s \in Sides : Gain(s) \in Int /\ sums[s] \in Nat
  BY DEF Typed, Gain
<1> QED
  BY <1>1, <1>2, <1>3, <1>4, <1>5

\* The entry returns, having closed what it did between two parts.
LEMMA ReturnKeeps ==
  ASSUME IInv, pc \in {"part", "single"}, NEW r \in Result, Return(r),
         UNCHANGED <<config, limits, margin, opp, volume, part, filled, before, entries>>,
         held' \in [Sides -> Nat], sums' \in [Sides -> Nat], blind' \in BOOLEAN, Returned'
  PROVE  IInv'
<1> USE DEF IInv
<1>1. pc' = "returned" /\ result' = r
  BY DEF Return
<1>2. Typed'
  BY <1>1 DEF Typed
<1>3. Validated'
  BY <1>1 DEF Validated, LimitsOf
<1> QED
  BY <1>1, <1>2, <1>3 DEF Resting, Awaiting, Filling

LEMMA LegsIs ==
  ASSUME Typed
  PROVE  /\ Legs \in Result
         /\ filled > 0 => Legs.ok = TRUE /\ Legs.legs = sums
         /\ ~(filled > 0) => Legs.ok = FALSE /\ Legs.why = "none filled"
<1>1. sums \in [long : Nat, short : Nat]
  <2>1. sums \in [Sides -> Nat]
    BY DEF Typed
  <2> QED
    BY <2>1, SidesAreFields
<1>2. CASE filled > 0
  <2>1. Legs = [ok |-> TRUE, legs |-> sums, why |-> "filled"]
    BY <1>2 DEF Legs
  <2> QED
    BY <1>1, <1>2, <2>1 DEF Result
<1>3. CASE ~(filled > 0)
  <2>1. Legs = [ok |-> FALSE, legs |-> Nil, why |-> "none filled"]
    BY <1>3 DEF Legs, Stopped
  <2> QED
    BY <1>3, <2>1 DEF Result
<1> QED
  BY <1>2, <1>3

\* What is held shrinks, at most to what it was,
Shrinks(s) ==
  held'[s] \in Nat /\ before[s] <= held'[s] /\ held'[s] <= held[s]

\* so it stays within the volume.
LEMMA ShrunkFits ==
  ASSUME IInv, pc = "part", NEW s \in Sides, Shrinks(s), UNCHANGED before
  PROVE  /\ 0 <= Gain(s)' /\ Gain(s)' <= volume
         /\ held'[s] = before[s] => Gain(s)' = 0
<1>1. PICK h \in Nat, b \in Nat, g \in Nat : h = held[s] /\ b = before[s] /\ g = held'[s]
  BY DEF Shrinks, IInv, Typed
<1>2. b <= g /\ g <= h
  BY <1>1 DEF Shrinks
<1>3. h - b <= volume /\ volume \in Nat
  BY <1>1, FillingFits DEF Gain, IInv, Typed
<1>4. Gain(s)' = g - b
  BY <1>1 DEF Gain
<1>5. 0 <= g - b /\ g - b <= volume /\ (g = b => g - b = 0)
  BY <1>2, <1>3
<1> QED
  BY <1>1, <1>4, <1>5

\* The entry is stopped, and returns no legs.
LEMMA StopKeeps ==
  ASSUME IInv, pc = "part",
         NEW why \in {"context", "no opportunity", "tightened", "close failed"}, Return(Stopped(why)),
         UNCHANGED <<config, limits, margin, opp, volume, part, filled, sums, before, blind, entries>>,
         held' \in [Sides -> Nat], \A s \in Sides : Shrinks(s),
         why = "tightened" /\ ~blind => \A s \in Sides : held'[s] = before[s]
  PROVE  IInv'
<1>1. Stopped(why) \in Result /\ Stopped(why).ok = FALSE /\ Stopped(why).why = why
  BY DEF Stopped, Result
<1>2. \A s \in Sides : /\ 0 <= Gain(s)' /\ Gain(s)' <= volume
                       /\ held'[s] = before[s] => Gain(s)' = 0
  BY ShrunkFits
<1>3. Returned'
  BY <1>1, <1>2 DEF Returned, Return
<1> QED
  BY <1>1, <1>3, ReturnKeeps DEF IInv, Typed

\* The entry returns what it has filled.
LEMMA FilledKeeps ==
  ASSUME IInv, pc = "part", Return(Legs),
         UNCHANGED <<config, limits, margin, opp, volume, part, filled, sums, held, before, blind, entries>>
  PROVE  IInv'
<1> USE DEF IInv
<1>1. /\ Legs \in Result
      /\ filled > 0 => Legs.ok = TRUE /\ Legs.legs = sums
      /\ ~(filled > 0) => Legs.ok = FALSE /\ Legs.why = "none filled"
  BY LegsIs
<1>2. \A s \in Sides : /\ Gain(s)' = Gain(s) /\ sums[s] <= Gain(s) /\ 0 <= Gain(s) /\ Gain(s) <= volume
                       /\ Both(0)[s] = 0
  BY FillingFits, BothIs DEF Gain
<1>3. filled \in Nat
  BY ConfigIs DEF Typed
<1>4. Returned'
  <2>1. ASSUME ~blind, ~(filled > 0) PROVE \A s \in Sides : Gain(s)' = 0
    BY <1>2, <1>3, <2>1 DEF Filling
  <2>2. ASSUME ~blind PROVE sums.long = sums.short /\ \A s \in Sides : Gain(s)' = sums[s]
    BY <1>2, <2>2 DEF Filling
  <2> QED
    BY <1>1, <1>2, <2>1, <2>2 DEF Returned, Return
<1> QED
  BY <1>1, <1>4, ReturnKeeps DEF Typed

\* What was filled is closed, or one side of it is.
LEMMA CloseFilledKeeps ==
  ASSUME IInv, NEW m \in Markets, CloseFilled(m)
  PROVE  IInv'
<1>1. pc = "part" /\ UNCHANGED <<config, limits, margin, opp, volume, part, filled, sums, before, blind, entries>>
  BY DEF CloseFilled
<1>2. /\ \A s \in Sides : /\ held[s] \in Nat /\ before[s] \in Nat /\ sums[s] \in Nat
                          /\ sums[s] <= held[s] - before[s]
      /\ held \in [Sides -> Nat]
  BY <1>1, FillingFits DEF IInv, Typed, Gain
<1>3. ASSUME ~blind PROVE sums.long = sums.short /\ \A s \in Sides : held[s] - before[s] = sums[s]
  BY <1>1, <1>3 DEF IInv, Filling, Gain
<1>4. CASE sums.long <= 0 \/ sums.short <= 0
  <2>1. held' = held /\ Return(Stopped("tightened"))
    BY <1>4 DEF CloseFilled
  <2>2. ASSUME ~blind, NEW s \in Sides PROVE held'[s] = before[s]
    <3>1. sums[s] = 0
      BY <1>2, <1>3, <1>4, <2>2 DEF Sides
    <3>2. held[s] - before[s] = 0 /\ held[s] \in Nat /\ before[s] \in Nat
      BY <1>2, <1>3, <2>2, <3>1
    <3> QED
      BY <2>1, <3>2
  <2>3. \A s \in Sides : Shrinks(s)
    BY <1>2, <2>1 DEF Shrinks
  <2>4. held' \in [Sides -> Nat]
    BY <1>2, <2>1
  <2> QED
    BY <1>1, <2>1, <2>2, <2>3, <2>4, StopKeeps
<1>5. CASE ~(sums.long <= 0 \/ sums.short <= 0)
  <2>1. PICK open \in SUBSET Sides :
          /\ held' = [s \in Sides |-> IF s \in open THEN held[s] ELSE held[s] - sums[s]]
          /\ Return(Stopped(IF open = {} THEN "tightened" ELSE "close failed"))
    BY <1>5 DEF CloseFilled, Sides
  <2>2. \A s \in Sides : held'[s] = IF s \in open THEN held[s] ELSE held[s] - sums[s]
    BY <2>1
  <2>3. \A s \in Sides : Shrinks(s)
    BY <1>2, <2>2 DEF Shrinks
  <2>4. held' \in [Sides -> Nat]
    BY <2>1, <2>3 DEF Shrinks
  <2>5. CASE open = {}
    <3>1. Return(Stopped("tightened"))
      BY <2>1, <2>5
    <3>2. ASSUME ~blind, NEW s \in Sides PROVE held'[s] = before[s]
      BY <1>2, <1>3, <2>2, <2>5, <3>2
    <3> QED
      BY <1>1, <2>3, <2>4, <3>1, <3>2, StopKeeps
  <2>6. CASE open # {}
    <3>1. Return(Stopped("close failed"))
      BY <2>1, <2>6
    <3> QED
      BY <1>1, <2>3, <2>4, <3>1, StopKeeps
  <2> QED
    BY <2>5, <2>6
<1> QED
  BY <1>4, <1>5

\* Between two parts a side holds no less than it did.
LEMMA GainedIsMore ==
  ASSUME IInv, pc = "part", NEW s \in Sides
  PROVE  held[s] \in Nat /\ before[s] <= held[s] /\ held[s] <= held[s]
<1>1. PICK h \in Nat, b \in Nat : h = held[s] /\ b = before[s]
  BY DEF IInv, Typed
<1>2. 0 <= h - b
  BY <1>1, FillingFits DEF Gain
<1>3. b <= h /\ h <= h
  BY <1>2
<1> QED
  BY <1>1, <1>3

\* The entry is stopped where it is.
LEMMA HaltKeeps ==
  ASSUME IInv, pc = "part", NEW why \in {"context", "no opportunity"}, Return(Stopped(why)),
         UNCHANGED <<config, limits, margin, opp, volume, part, filled, sums, held, before, blind, entries>>
  PROVE  IInv'
<1>1. \A s \in Sides : Shrinks(s)
  <2>1. held' = held
    OBVIOUS
  <2>2. \A s \in Sides : held[s] \in Nat /\ before[s] <= held[s] /\ held[s] <= held[s]
    BY GainedIsMore
  <2> QED
    BY <2>1, <2>2, Zenon DEF Shrinks
<1>2. held' \in [Sides -> Nat]
  BY DEF IInv, Typed
<1> QED
  BY <1>1, <1>2, StopKeeps

\* No opportunity, or a worse one, before the next part.
LEMMA StopsKeep ==
  ASSUME IInv, NEW m \in Markets, NothingFound(m) \/ Degrades(m)
  PROVE  IInv'
<1>1. CASE NothingFound(m)
  BY <1>1, HaltKeeps DEF NothingFound
<1>2. CASE Degrades(m)
  BY <1>2, FilledKeeps DEF Degrades, Keeps
<1> QED
  BY <1>1, <1>2

\* A part is sent.
LEMMA PartKeeps ==
  ASSUME IInv, NEW m \in Markets, Part(m)
  PROVE  IInv'
<1> USE DEF IInv
<1>1. /\ pc = "part" /\ part < config.n
      /\ UNCHANGED <<pc, config, limits, margin, opp, volume, before, result, entries>>
  BY DEF Part
<1>2. PICK a \in Answers(PartVolume) :
        /\ held' = Plus(held, a.fills) /\ part' = part + 1
        /\ filled' = IF a.ok THEN filled + 1 ELSE filled
        /\ sums' = IF a.ok THEN Plus(sums, a.says) ELSE sums
        /\ blind' = (blind \/ ~Truthful(a))
  BY DEF Part, Tried, Summed
<1>3. PICK v \in Nat : v = PartVolume
  BY <1>1, FillingFits
<1>4. /\ a.ok \in BOOLEAN /\ a.fills \in [Sides -> Nat] /\ a.says \in [Sides -> Nat]
      /\ \A s \in Sides : a.says[s] <= a.fills[s] /\ a.fills[s] <= v
      /\ a.ok => a.fills.long = a.fills.short
      /\ ~a.ok => \A s \in Sides : a.says[s] = 0
      /\ Truthful(a) => \A s \in Sides : a.says[s] = a.fills[s]
  BY <1>2, <1>3, AnswerIs
<1>5. /\ held \in [Sides -> Nat] /\ sums \in [Sides -> Nat] /\ before \in [Sides -> Nat]
      /\ part \in Nat /\ filled \in Nat /\ filled <= part /\ part < config.n /\ config.n \in Nat
  BY <1>1, ConfigIs DEF Typed
<1>6. held' \in [Sides -> Nat] /\ \A s \in Sides : held'[s] = held[s] + a.fills[s]
  BY <1>2, <1>4, <1>5, PlusIs
<1>7. sums' \in [Sides -> Nat]
      /\ \A s \in Sides : sums'[s] = sums[s] + (IF a.ok THEN a.says[s] ELSE 0)
  <2>1. CASE a.ok
    BY <1>2, <1>4, <1>5, <2>1, PlusIs
  <2>2. CASE ~a.ok
    BY <1>2, <1>5, <2>2
  <2> QED
    BY <2>1, <2>2
<1>8. Typed'
  <2>1. part' \in 0..config'.n /\ filled' \in 0..part'
    BY <1>1, <1>2, <1>5
  <2>2. blind' \in BOOLEAN
    BY <1>2 DEF Typed
  <2> QED
    BY <1>1, <1>6, <1>7, <2>1, <2>2 DEF Typed
<1>9. \A s \in Sides : sums'[s] <= Gain(s)' /\ Gain(s)' <= part' * PartVolume'
  <2> SUFFICES ASSUME NEW s \in Sides
               PROVE  sums'[s] <= Gain(s)' /\ Gain(s)' <= part' * PartVolume'
    OBVIOUS
  <2>1. PICK p \in Nat : p = part /\ p * v + v = (p + 1) * v
    BY <1>5
  <2>2. sums[s] <= Gain(s) /\ Gain(s) <= p * v /\ Gain(s) = held[s] - before[s]
    BY <1>1, <1>3, <2>1 DEF Filling, Gain
  <2>3. PICK pv \in Nat : pv = p * v
    BY <2>1
  <2>4. part' * PartVolume' = pv + v
    BY <1>1, <1>2, <1>3, <2>1, <2>3 DEF PartVolume
  <2>5. Gain(s)' = held[s] - before[s] + a.fills[s]
    <3>1. held[s] \in Nat /\ before[s] \in Nat /\ a.fills[s] \in Nat
      BY <1>4, <1>5
    <3>2. held'[s] = held[s] + a.fills[s] /\ before'[s] = before[s]
      BY <1>1, <1>6
    <3>3. Gain(s)' = held'[s] - before'[s]
      BY DEF Gain
    <3> QED
      BY <3>1, <3>2, <3>3
  <2>6. sums'[s] <= sums[s] + a.fills[s]
    <3>1. sums[s] \in Nat /\ a.fills[s] \in Nat /\ a.says[s] \in Nat /\ a.says[s] <= a.fills[s]
      BY <1>4, <1>5
    <3>2. CASE a.ok
      BY <1>7, <3>1, <3>2
    <3>3. CASE ~a.ok
      BY <1>7, <3>1, <3>3
    <3> QED
      BY <3>2, <3>3
  <2>7. /\ sums[s] \in Nat /\ a.fills[s] \in Nat /\ held[s] \in Nat /\ before[s] \in Nat
        /\ a.fills[s] <= v /\ sums'[s] \in Nat
    BY <1>4, <1>5, <1>7
  <2>8. sums[s] <= held[s] - before[s] /\ held[s] - before[s] <= pv
    BY <2>2, <2>3
  <2> QED
    BY <2>4, <2>5, <2>6, <2>7, <2>8
<1>10. ASSUME ~blind'
       PROVE  (\A s \in Sides : Gain(s)' = sums'[s]) /\ sums'.long = sums'.short
  <2>1. ~blind /\ Truthful(a)
    BY <1>2, <1>10
  <2>2. sums.long = sums.short /\ \A s \in Sides : held[s] - before[s] = sums[s]
    BY <1>1, <2>1 DEF Filling, Gain
  <2>3. /\ \A s \in Sides : /\ a.says[s] = a.fills[s]
                            /\ a.fills[s] \in Nat /\ held[s] \in Nat /\ before[s] \in Nat /\ sums[s] \in Nat
        /\ "long" \in Sides /\ "short" \in Sides
    BY <1>4, <1>5, <2>1 DEF Sides
  <2>4. \A s \in Sides : sums'[s] = sums[s] + a.fills[s]
    <3>1. CASE a.ok
      BY <1>7, <2>3, <3>1
    <3>2. CASE ~a.ok
      BY <1>4, <1>7, <2>3, <3>2
    <3> QED
      BY <3>1, <3>2
  <2>5. \A s \in Sides : Gain(s)' = (held[s] + a.fills[s]) - before[s]
    <3>1. ASSUME NEW s \in Sides PROVE Gain(s)' = (held[s] + a.fills[s]) - before[s]
      <4>1. held'[s] = held[s] + a.fills[s] /\ before'[s] = before[s]
        BY <1>1, <1>6
      <4>2. Gain(s)' = held'[s] - before'[s]
        BY DEF Gain
      <4> QED
        BY <4>1, <4>2
    <3> QED
      BY <3>1
  <2>6. \A s \in Sides : Gain(s)' = sums'[s]
    BY <2>2, <2>3, <2>4, <2>5
  <2>7. a.fills.long = a.fills.short
    <3>1. CASE a.ok
      BY <1>4, <3>1
    <3>2. CASE ~a.ok
      BY <1>4, <2>3, <3>2
    <3> QED
      BY <3>1, <3>2
  <2>8. sums'.long = sums.long + a.fills.long /\ sums'.short = sums.short + a.fills.short
    BY <2>3, <2>4
  <2> QED
    BY <2>2, <2>6, <2>7, <2>8
<1>11. filled' = 0 => sums' = Both(0)
  <2>1. CASE a.ok
    BY <1>2, <1>5, <2>1
  <2>2. CASE ~a.ok
    BY <1>1, <1>2, <2>2 DEF Filling
  <2> QED
    BY <2>1, <2>2
<1>12. Filling'
  BY <1>1, <1>9, <1>10, <1>11 DEF Filling
<1>13. Validated'
  BY <1>1 DEF Validated, LimitsOf
<1> QED
  BY <1>1, <1>8, <1>12, <1>13 DEF Resting, Awaiting, Returned

\* The whole volume is sent at once.
LEMMA SingleKeeps ==
  ASSUME IInv, Single
  PROVE  IInv'
<1> USE DEF IInv
<1>1. /\ pc = "single"
      /\ UNCHANGED <<config, limits, margin, opp, volume, part, filled, before, entries>>
  BY DEF Single
<1>2. PICK a \in Answers(volume) :
        /\ held' = Plus(held, a.fills) /\ sums' = a.says /\ blind' = ~Truthful(a)
        /\ Return(IF a.ok THEN [ok |-> TRUE, legs |-> a.says, why |-> "filled"] ELSE Stopped("failed"))
  BY DEF Single
<1>3. PICK r : r = IF a.ok THEN [ok |-> TRUE, legs |-> a.says, why |-> "filled"] ELSE Stopped("failed")
  OBVIOUS
<1>4. /\ volume \in Nat /\ held \in [Sides -> Nat] /\ before = held
  BY <1>1 DEF Typed, Awaiting
<1>5. /\ a.ok \in BOOLEAN /\ a.fills \in [Sides -> Nat] /\ a.says \in [Sides -> Nat]
      /\ \A s \in Sides : a.says[s] <= a.fills[s] /\ a.fills[s] <= volume
      /\ a.ok => a.fills.long = a.fills.short
      /\ ~a.ok => \A s \in Sides : a.says[s] = 0
      /\ Truthful(a) => \A s \in Sides : a.says[s] = a.fills[s]
  BY <1>2, <1>4, AnswerIs
<1>6. held' \in [Sides -> Nat] /\ \A s \in Sides : held'[s] = held[s] + a.fills[s]
  BY <1>2, <1>4, <1>5, PlusIs
<1>7. \A s \in Sides : Gain(s)' = a.fills[s]
  <2>1. \A s \in Sides : held[s] \in Nat /\ a.fills[s] \in Nat /\ before'[s] = held[s]
    BY <1>1, <1>4, <1>5
  <2> QED
    BY <1>6, <2>1 DEF Gain
<1>8. r \in Result /\ r.ok = a.ok /\ (a.ok => r.legs = a.says)
  <2>1. CASE a.ok
    <3>1. r = [ok |-> TRUE, legs |-> a.says, why |-> "filled"] /\ a.says \in [long : Nat, short : Nat]
      BY <1>3, <1>5, <2>1, SidesAreFields
    <3> QED
      BY <2>1, <3>1 DEF Result
  <2>2. CASE ~a.ok
    <3>1. r = [ok |-> FALSE, legs |-> Nil, why |-> "failed"]
      BY <1>3, <2>2 DEF Stopped
    <3> QED
      BY <1>5, <2>2, <3>1 DEF Result
  <2> QED
    BY <2>1, <2>2
<1>9. \A s \in Sides : a.fills[s] \in Nat /\ a.fills[s] <= volume /\ a.says[s] <= a.fills[s]
  BY <1>5
<1>10. Returned'
  <2>1. result' = r /\ volume' = volume
    BY <1>1, <1>2, <1>3 DEF Return
  <2>2. \A s \in Sides : 0 <= Gain(s)' /\ Gain(s)' <= volume' /\ sums'[s] <= Gain(s)'
    BY <1>2, <1>7, <1>9, <2>1
  <2>3. ASSUME ~blind'
        PROVE  IF a.ok THEN sums'.long = sums'.short /\ \A s \in Sides : Gain(s)' = sums'[s]
               ELSE \A s \in Sides : Gain(s)' = 0
    <3>1. Truthful(a)
      BY <1>2, <2>3
    <3>2. \A s \in Sides : Gain(s)' = a.says[s] /\ a.says[s] = a.fills[s]
      BY <1>5, <1>7, <3>1
    <3>3. a.says.long = a.fills.long /\ a.says.short = a.fills.short
      BY <3>2 DEF Sides
    <3> QED
      BY <1>2, <1>5, <3>2, <3>3
  <2> QED
    BY <1>2, <1>8, <2>1, <2>2, <2>3 DEF Returned
<1>11. sums' \in [Sides -> Nat] /\ blind' \in BOOLEAN /\ Return(r)
  BY <1>2, <1>3, <1>5
<1> QED
  BY <1>1, <1>6, <1>8, <1>10, <1>11, ReturnKeeps

\* What an entry knew is gone.
LEMMA SettledIs ==
  ASSUME IInv, NEW p \in {"ready", "error"}, Settled(p), held' \in [Sides -> Nat],
         UNCHANGED <<config, limits, margin, entries>>
  PROVE  IInv'
<1> USE DEF IInv
<1>1. Both(0) \in [Sides -> Nat] /\ config.n \in Nat
  BY BothIs, ConfigIs
<1>2. /\ pc' = p /\ volume' = 0 /\ part' = 0 /\ filled' = 0 /\ sums' = Both(0)
      /\ before' = Both(0) /\ blind' = FALSE /\ result' = Nil
  BY DEF Settled
<1>3. Typed'
  <2>1. 0 \in 0..config'.n /\ 0 \in 0..0
    BY <1>1
  <2>2. part' \in 0..config'.n /\ filled' \in 0..part' /\ volume' \in Nat /\ blind' \in BOOLEAN
    BY <1>2, <2>1
  <2>3. sums' \in [Sides -> Nat] /\ before' \in [Sides -> Nat]
    BY <1>1, <1>2
  <2> QED
    BY <1>2, <2>2, <2>3 DEF Typed
<1> QED
  BY <1>2, <1>3 DEF Resting, Rest, Awaiting, Filling, Returned, Validated

\* The position is closed.
LEMMA ExitKeeps ==
  ASSUME IInv, NEW m \in Markets, Exit(m)
  PROVE  IInv'
<1> USE DEF IInv
<1>1. pc = "returned" /\ result.ok /\ UNCHANGED <<config, limits, margin, entries>>
  BY DEF Exit
<1>2. PICK open \in SUBSET Sides :
        /\ held' = [s \in Sides |-> IF s \in open THEN held[s] ELSE held[s] - result.legs[s]]
        /\ Settled(IF open = {} THEN "ready" ELSE "error")
  BY DEF Exit, Sides
<1>3. \A s \in Sides : /\ held[s] \in Nat /\ before[s] \in Nat /\ result.legs[s] \in Nat
                       /\ result.legs[s] <= held[s] - before[s]
  BY <1>1 DEF Typed, Returned, Gain
<1>4. \A s \in Sides : (IF s \in open THEN held[s] ELSE held[s] - result.legs[s]) \in Nat
  BY <1>3
<1>5. held' \in [Sides -> Nat]
  BY <1>2, <1>4
<1>6. CASE open = {}
  BY <1>1, <1>2, <1>5, <1>6, SettledIs
<1>7. CASE open # {}
  BY <1>1, <1>2, <1>5, <1>7, SettledIs
<1> QED
  BY <1>6, <1>7

LEMMA NextIInv == IInv /\ [Next]_vars => IInv'
<1> SUFFICES ASSUME IInv, [Next]_vars PROVE IInv'
  OBVIOUS
<1>1. CASE \E m \in Markets : CheckEntry(m)
  BY <1>1, CheckEntryKeeps
<1>2. CASE \E m \in Markets : NothingFound(m) \/ Degrades(m)
  BY <1>2, StopsKeep
<1>9. CASE ContextEnds
  BY <1>9, HaltKeeps DEF ContextEnds
<1>10. CASE AllParts
  BY <1>10, FilledKeeps DEF AllParts
<1>3. CASE \E m \in Markets : CloseFilled(m)
  BY <1>3, CloseFilledKeeps
<1>4. CASE \E m \in Markets : Part(m)
  BY <1>4, PartKeeps
<1>5. CASE Single
  BY <1>5, SingleKeeps
<1>6. CASE Again
  <2>1. held' \in [Sides -> Nat]
    BY <1>6 DEF Again, IInv, Typed
  <2> QED
    BY <1>6, <2>1, SettledIs DEF Again
<1>7. CASE \E m \in Markets : Exit(m)
  BY <1>7, ExitKeeps
<1>8. CASE UNCHANGED vars
  BY <1>8 DEF vars, IInv, Typed, Resting, Rest, Awaiting, Filling, Returned, Validated, Gain,
              PartVolume, LimitsOf
<1> QED
  BY <1>1, <1>2, <1>3, <1>4, <1>5, <1>6, <1>7, <1>8, <1>9, <1>10 DEF Next

LEMMA Always == Spec => []IInv
<1> QED
  BY InitIInv, NextIInv, PTL DEF Spec
-----------------------------------------------------------------------------
(* What follows from it.                                                    *)

\* A record of an entry is sound in every state: the parts that filled are among those
\* that were tried, and there is a result exactly when the entry has returned.
THEOREM EntryTypeCorrect == Spec => []TypeOK
<1>1. IInv => TypeOK
  <2> SUFFICES ASSUME IInv PROVE TypeOK
    OBVIOUS
  <2>1. sums \in [long : Nat, short : Nat] /\ held \in [long : Nat, short : Nat]
    BY SidesAreFields DEF IInv, Typed
  <2>2. \A e \in Exchanges : margin[e] = Nil \/ margin[e] \in Funds
    BY DEF IInv, Typed
  <2>3. (pc = "returned") = (result # Nil)
    <3>1. pc = "returned" => result # Nil
      BY EntryAssumption DEF IInv, Returned
    <3>2. pc # "returned" => result = Nil
      BY DEF IInv, Typed, Resting, Rest, Awaiting, Filling
    <3> QED
      BY <3>1, <3>2
  <2> QED
    BY <2>1, <2>2, <2>3 DEF IInv, Typed, TypeOK
<1> QED
  BY <1>1, Always, PTL

\* However the answers of the exchanges lie and wherever the entry is stopped, no side
\* gains more than the validated volume, and that is no more than the user asked for
\* nor than either exchange takes in one order.
THEOREM EntryKeepsBudget == Spec => []BudgetKept
<1>1. IInv => BudgetKept
  <2> SUFFICES ASSUME IInv, pc \notin {"ready", "error"}
               PROVE  Gained.long <= volume /\ Gained.short <= volume
    BY DEF BudgetKept, IInv, Validated
  <2>1. Gained.long = Gain("long") /\ Gained.short = Gain("short")
    BY DEF Gained, Gain
  <2>2. \A s \in Sides : Gain(s) <= volume
    <3>1. CASE pc = "part"
      BY <3>1, FillingFits
    <3>2. CASE pc = "single"
      <4>1. held = before /\ volume \in Nat /\ held \in [Sides -> Nat]
        BY <3>2 DEF IInv, Awaiting, Typed
      <4>2. \A s \in Sides : Gain(s) = 0
        BY <4>1 DEF Gain
      <4> QED
        BY <4>1, <4>2
    <3>3. CASE pc = "returned"
      BY <3>3 DEF IInv, Returned
    <3> QED
      BY <3>1, <3>2, <3>3 DEF IInv, Typed
  <2> QED
    BY <2>1, <2>2 DEF Sides
<1> QED
  BY <1>1, Always, PTL

\* When the answers were true, the legs an entry returns are what the two exchanges hold
\* for it, equal on both, and an entry that returns none holds nothing, except in the
\* three ways the code gives up.
THEOREM EntryLegsAreHeld == Spec => []LegsAreHeld
<1>1. IInv => LegsAreHeld
  <2> SUFFICES ASSUME IInv, pc = "returned", ~blind
               PROVE  IF result.ok THEN result.legs = Gained /\ Gained.long = Gained.short
                      ELSE Gained = Both(0) \/ result.why \in {"context", "no opportunity", "close failed"}
    BY DEF LegsAreHeld
  <2>1. /\ result.ok => result.legs = sums
        /\ IF result.ok THEN sums.long = sums.short /\ \A s \in Sides : Gain(s) = sums[s]
           ELSE \/ \A s \in Sides : Gain(s) = 0
                \/ result.why \in {"context", "no opportunity", "close failed"}
    BY DEF IInv, Returned
  <2>2. \A s \in Sides : Gain(s) \in Nat
    <3>1. \A s \in Sides : held[s] \in Nat /\ before[s] \in Nat /\ 0 <= held[s] - before[s]
      BY DEF IInv, Typed, Returned, Gain
    <3> QED
      BY <3>1 DEF Gain
  <2>3. Gained \in [Sides -> Nat] /\ \A s \in Sides : Gained[s] = Gain(s)
    <3>1. Gained = [s \in Sides |-> Gain(s)]
      BY DEF Gained, Gain, Sides
    <3> QED
      BY <2>2, <3>1
  <2>4. CASE result.ok
    <3>1. sums \in [Sides -> Nat]
      BY DEF IInv, Typed
    <3>2. sums = Gained
      BY <2>1, <2>3, <2>4, <3>1, SidesEqual
    <3> QED
      BY <2>1, <2>4, <3>2
  <2>5. CASE ~result.ok
    <3>1. (\A s \in Sides : Gain(s) = 0) => Gained = Both(0)
      BY <2>3, BothIs, SidesEqual
    <3> QED
      BY <2>1, <2>5, <3>1
  <2> QED
    BY <2>4, <2>5
<1> QED
  BY <1>1, Always, PTL
=============================================================================
