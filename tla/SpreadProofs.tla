---------------------------- MODULE SpreadProofs ----------------------------
(***************************************************************************)
(* What the loops of Spread compute, for any number of exchanges and any     *)
(* quotes: induction on the natural numbers over a set, that a fold over a    *)
(* sequence is well defined, and from these the lowest ask and the highest    *)
(* bid.                                                                     *)
(***************************************************************************)
EXTENDS Spread, TLAPS, WellFoundedInduction

\* Induction, from the least element of what would be left out.
LEMMA SetInduction ==
  ASSUME NEW S, 0 \in S, \A n \in Nat : n \in S => n + 1 \in S
  PROVE  Nat \subseteq S
<1> DEFINE R == OpToRel(<, Nat)
           T == Nat \ S
<1>1. SUFFICES ASSUME T # {} PROVE FALSE
  OBVIOUS
<1>2. IsWellFoundedOn(R, Nat) /\ T \subseteq Nat
  BY NatLessThanWellFounded, Zenon
<1>3. \A x \in Nat \ {0} : <<x - 1, x>> \in R
  BY DEF OpToRel
<1> HIDE DEF R, T
<1>4. PICK x \in T : \A y \in T : ~(<<y, x>> \in R)
  BY <1>1, <1>2, WFMin
<1>5. x \in Nat \ {0} /\ x \notin S
  BY <1>4 DEF T
<1>6. x - 1 \in Nat /\ x - 1 \notin T
  <2>1. x - 1 \in Nat /\ <<x - 1, x>> \in R
    BY <1>3, <1>5
  <2> QED
    BY <1>4, <2>1
<1>7. x - 1 \in S
  BY <1>6 DEF T
<1> QED
  BY <1>5, <1>6, <1>7

\* Every set of positions has a last one.
LEMMA MaxIs ==
  ASSUME NEW n \in Nat, NEW s \in SUBSET (1..n), s # {}
  PROVE  Max(s) \in s /\ \A y \in s : Max(s) >= y
<1> DEFINE Has(t) == \E x \in t : \A y \in t : x >= y
           S == {m \in Nat : \A t \in SUBSET (1..m) : t # {} => Has(t)}
<1>1. 0 \in S
  <2>1. \A t \in SUBSET (1..0) : t = {}
    OBVIOUS
  <2> QED
    BY <2>1
<1>2. ASSUME NEW m \in Nat, m \in S PROVE m + 1 \in S
  <2> SUFFICES ASSUME NEW t \in SUBSET (1..(m + 1)), t # {} PROVE Has(t)
    OBVIOUS
  <2>1. CASE m + 1 \in t
    BY <2>1
  <2>2. CASE m + 1 \notin t
    <3>1. t \in SUBSET (1..m)
      BY <2>2
    <3> QED
      BY <1>2, <3>1
  <2> QED
    BY <2>1, <2>2
<1> HIDE DEF S
<1>3. n \in S
  BY <1>1, <1>2, SetInduction
<1>4. Has(s)
  BY <1>3 DEF S
<1> QED
  BY <1>4 DEF Max

LEMMA LastIs ==
  ASSUME NEW m \in Nat
  PROVE  /\ 1..(m + 1) # {} /\ Max(1..(m + 1)) = m + 1
         /\ (1..(m + 1)) \ {m + 1} = 1..m
<1>1. m + 1 \in 1..(m + 1)
  OBVIOUS
<1>2. Max(1..(m + 1)) \in 1..(m + 1) /\ Max(1..(m + 1)) >= m + 1
  <2>1. m + 1 \in Nat /\ 1..(m + 1) \in SUBSET (1..(m + 1)) /\ 1..(m + 1) # {}
    BY <1>1
  <2> QED
    BY <1>1, <2>1, MaxIs
<1>3. (1..(m + 1)) \ {m + 1} = 1..m
  OBVIOUS
<1> QED
  BY <1>1, <1>2, <1>3

\* A solution of the equation of a fold over n positions with the step F.
Solves(it, n, B, base, F) ==
  /\ it \in [SUBSET (1..n) -> B]
  /\ \A s \in SUBSET (1..n) :
       it[s] = IF s = {} THEN base ELSE F[<<it[s \ {Max(s)}], Max(s)>>]

\* A fold over n positions is well defined, whatever its step: the equation of its
\* definition has a solution.
LEMMA FoldExists ==
  ASSUME NEW n \in Nat, NEW B, NEW base \in B, NEW F \in [B \X (1..n) -> B]
  PROVE  \E it : Solves(it, n, B, base, F)
<1> DEFINE Can(m) == m <= n => \E it : Solves(it, m, B, base, F)
           S == {m \in Nat : Can(m)}
<1>1. 0 \in S
  <2> DEFINE it == [s \in SUBSET (1..0) |-> base]
  <2>1. \A s \in SUBSET (1..0) : s = {}
    OBVIOUS
  <2>2. Solves(it, 0, B, base, F)
    BY <2>1 DEF Solves
  <2> QED
    BY <2>2
<1>2. ASSUME NEW m \in Nat, m \in S PROVE m + 1 \in S
  <2>1. CASE ~(m + 1 <= n)
    <3>1. Can(m + 1)
      BY <2>1
    <3> HIDE DEF Can
    <3> QED
      BY <3>1
  <2>2. CASE m + 1 <= n
    <3>1. PICK old : Solves(old, m, B, base, F)
      <4>1. m <= n
        BY <2>2
      <4>2. Can(m)
        <5> HIDE DEF Can
        <5> QED
          BY <1>2
      <4> QED
        BY <4>1, <4>2
    <3> DEFINE it == [s \in SUBSET (1..(m + 1)) |->
                        IF m + 1 \in s THEN F[<<old[s \ {m + 1}], m + 1>>] ELSE old[s]]
    <3>2. ASSUME NEW s \in SUBSET (1..(m + 1))
          PROVE  s \ {m + 1} \in SUBSET (1..m) /\ (m + 1 \notin s => s \in SUBSET (1..m))
      OBVIOUS
    <3>3. it \in [SUBSET (1..(m + 1)) -> B]
      <4> SUFFICES ASSUME NEW s \in SUBSET (1..(m + 1))
                   PROVE  (IF m + 1 \in s THEN F[<<old[s \ {m + 1}], m + 1>>] ELSE old[s]) \in B
        OBVIOUS
      <4>1. m + 1 \in 1..n
        BY <2>2
      <4> QED
        BY <3>1, <3>2, <4>1 DEF Solves
    <3>4. \A s \in SUBSET (1..m) : it[s] = old[s]
      <4> SUFFICES ASSUME NEW s \in SUBSET (1..m) PROVE it[s] = old[s]
        OBVIOUS
      <4>1. s \in SUBSET (1..(m + 1)) /\ m + 1 \notin s
        OBVIOUS
      <4> QED
        BY <4>1
    <3>5. ASSUME NEW s \in SUBSET (1..(m + 1))
          PROVE  it[s] = IF s = {} THEN base ELSE F[<<it[s \ {Max(s)}], Max(s)>>]
      <4>1. CASE m + 1 \in s
        <5>1. Max(s) = m + 1
          <6>1. m + 1 \in Nat /\ s # {}
            BY <4>1
          <6>2. Max(s) \in 1..(m + 1) /\ Max(s) >= m + 1
            BY <4>1, <6>1, MaxIs
          <6> QED
            BY <6>2
        <5>2. it[s] = F[<<old[s \ {m + 1}], m + 1>>] /\ it[s \ {m + 1}] = old[s \ {m + 1}]
          BY <3>2, <3>4, <4>1
        <5> QED
          BY <4>1, <5>1, <5>2
      <4>2. CASE m + 1 \notin s
        <5>1. s \in SUBSET (1..m) /\ s \ {Max(s)} \in SUBSET (1..m)
          BY <3>2, <4>2
        <5>2. it[s] = old[s] /\ it[s \ {Max(s)}] = old[s \ {Max(s)}]
          BY <3>4, <5>1
        <5> QED
          BY <3>1, <5>1, <5>2 DEF Solves
      <4> QED
        BY <4>1, <4>2
    <3> HIDE DEF it
    <3>6. Solves(it, m + 1, B, base, F)
      BY <3>3, <3>5 DEF Solves
    <3>7. Can(m + 1)
      <4> QED
        BY <3>6
    <3> HIDE DEF Can
    <3> QED
      BY <3>7
  <2> QED
    BY <2>1, <2>2
<1> HIDE DEF S, Can
<1>3. n \in S
  BY <1>1, <1>2, SetInduction
<1>4. \E it : Solves(it, n, B, base, F)
  BY <1>3 DEF S, Can
<1> QED
  BY <1>4
-----------------------------------------------------------------------------
(* The lowest ask.                                                          *)

\* What the loop knows after some exchanges.
Asks == [ask : Nat, exchange : Exchanges \cup {NoExchange}]
Lower(quotes, best, e) ==
  IF AsksLess(quotes[e], best) THEN [ask |-> quotes[e].ask, exchange |-> e] ELSE best
NoAsk == [ask |-> 0, exchange |-> NoExchange]

LEMMA LowerIs ==
  ASSUME NEW quotes, NEW e \in Exchanges, quotes[e].ask \in Nat, NEW best \in Asks
  PROVE  Lower(quotes, best, e) \in Asks
BY DEF Lower, Asks

\* The equation of LowestAsk's loop.
AsksFolded(it, index, quotes, n) ==
  /\ LowestAsk(index, quotes) = it[1..n]
  /\ \A s \in SUBSET (1..n) :
       it[s] = IF s = {} THEN NoAsk ELSE Lower(quotes, it[s \ {Max(s)}], index[Max(s)])

\* It has a solution, whose value at all positions is what LowestAsk returns.
LEMMA LowestAskFolds ==
  ASSUME NEW index \in Seq(Exchanges), NEW quotes, NEW n \in Nat, n = Len(index),
         \A i \in 1..n : quotes[index[i]].ask \in Nat
  PROVE  \E it : AsksFolded(it, index, quotes, n)
<1> DEFINE F == [p \in Asks \X (1..n) |-> Lower(quotes, p[1], index[p[2]])]
           Recurs(it) == it = [s \in SUBSET (1..n) |->
                                IF s = {} THEN NoAsk ELSE Lower(quotes, it[s \ {Max(s)}], index[Max(s)])]
<1>1. DOMAIN index = 1..n /\ \A i \in 1..n : index[i] \in Exchanges
  OBVIOUS
<1>2. NoAsk \in Asks
  BY DEF NoAsk, Asks
<1>3. F \in [Asks \X (1..n) -> Asks]
  BY <1>1, LowerIs
<1>4. PICK it : Solves(it, n, Asks, NoAsk, F)
  <2> HIDE DEF F
  <2> QED
    BY <1>2, <1>3, FoldExists
<1>5. \A s \in SUBSET (1..n) :
        it[s] = IF s = {} THEN NoAsk ELSE Lower(quotes, it[s \ {Max(s)}], index[Max(s)])
  <2> SUFFICES ASSUME NEW s \in SUBSET (1..n), s # {}
               PROVE  F[<<it[s \ {Max(s)}], Max(s)>>] = Lower(quotes, it[s \ {Max(s)}], index[Max(s)])
    BY <1>4 DEF Solves
  <2>1. Max(s) \in 1..n
    BY MaxIs
  <2>2. it[s \ {Max(s)}] \in Asks
    BY <1>4 DEF Solves
  <2> QED
    BY <2>1, <2>2
<1>6. Recurs(it)
  BY <1>4, <1>5 DEF Solves
<1>7. PICK c : c = (CHOOSE f : Recurs(f)) /\ Recurs(c)
  <2> HIDE DEF Recurs
  <2> QED
    BY <1>6
<1>8. LowestAsk(index, quotes) = c[1..n]
  BY <1>1, <1>7 DEF LowestAsk, FoldLeft, MapThenFoldSet, Lower, NoAsk
<1>9. \A s \in SUBSET (1..n) :
        c[s] = IF s = {} THEN NoAsk ELSE Lower(quotes, c[s \ {Max(s)}], index[Max(s)])
  BY <1>7
<1> HIDE DEF Recurs
<1> QED
  BY <1>8, <1>9 DEF AsksFolded

\* The lowest ask of the first m exchanges: none when none of them asks, or that of one
\* of them, and no other asks less.
IsLowest(a, index, quotes, m) ==
  /\ a \in Asks
  /\ a.ask > 0 => \E i \in 1..m : a.exchange = index[i] /\ quotes[index[i]].ask = a.ask
  /\ \A i \in 1..m : quotes[index[i]].ask > 0 => a.ask > 0 /\ a.ask <= quotes[index[i]].ask

LEMMA LowestAskIs ==
  ASSUME NEW index \in Seq(Exchanges), NEW quotes, NEW n \in Nat, n = Len(index),
         \A i \in 1..n : quotes[index[i]].ask \in Nat
  PROVE  IsLowest(LowestAsk(index, quotes), index, quotes, n)
<1>1. PICK it : AsksFolded(it, index, quotes, n)
  BY LowestAskFolds
<1> DEFINE Fine(m) == m <= n => IsLowest(it[1..m], index, quotes, m)
           S == {m \in Nat : Fine(m)}
<1>2. 0 \in S
  <2>1. 1..0 = {} /\ {} \in SUBSET (1..n)
    OBVIOUS
  <2>2. it[1..0] = NoAsk
    BY <1>1, <2>1 DEF AsksFolded
  <2>3. IsLowest(NoAsk, index, quotes, 0)
    BY <2>1 DEF IsLowest, NoAsk, Asks
  <2> QED
    BY <2>2, <2>3
<1>3. ASSUME NEW m \in Nat, m \in S PROVE m + 1 \in S
  <2>1. CASE ~(m + 1 <= n)
    BY <2>1
  <2>2. CASE m + 1 <= n
    <3>1. IsLowest(it[1..m], index, quotes, m)
      BY <1>3, <2>2
    <3>2. 1..(m + 1) \in SUBSET (1..n)
      BY <2>2
    <3>3. /\ 1..(m + 1) # {} /\ Max(1..(m + 1)) = m + 1
          /\ (1..(m + 1)) \ {m + 1} = 1..m
      BY LastIs
    <3>4. it[1..(m + 1)] = Lower(quotes, it[1..m], index[m + 1])
      BY <1>1, <3>2, <3>3 DEF AsksFolded
    <3>5. PICK e : e = index[m + 1]
      OBVIOUS
    <3>6. m + 1 \in 1..n
      BY <2>2
    <3>7. e \in Exchanges /\ quotes[e].ask \in Nat
      BY <3>5, <3>6
    <3>8. IsLowest(it[1..(m + 1)], index, quotes, m + 1)
      <4>1. PICK a \in Asks : a = it[1..m]
        BY <3>1 DEF IsLowest
      <4>2. a.ask \in Nat
        BY DEF Asks
      <4>3. \A i \in 1..(m + 1) : i \in 1..m \/ i = m + 1
        OBVIOUS
      <4>4. \A i \in 1..m : i \in 1..(m + 1) /\ quotes[index[i]].ask \in Nat
        BY <2>2
      <4>5. CASE AsksLess(quotes[e], a)
        <5>1. PICK b : b = [ask |-> quotes[e].ask, exchange |-> e]
          OBVIOUS
        <5>2. Lower(quotes, a, e) = b /\ b.ask = quotes[e].ask /\ b.exchange = e /\ b \in Asks
          BY <3>7, <4>5, <5>1 DEF Lower, Asks
        <5>3. quotes[e].ask > 0 /\ (a.ask = 0 \/ quotes[e].ask < a.ask)
          BY <4>5 DEF AsksLess
        <5>4. \A i \in 1..(m + 1) : quotes[index[i]].ask > 0 => b.ask <= quotes[index[i]].ask
          BY <3>1, <3>5, <3>7, <4>1, <4>2, <4>3, <4>4, <5>2, <5>3 DEF IsLowest
        <5>5. m + 1 \in 1..(m + 1)
          OBVIOUS
        <5> QED
          BY <3>4, <3>5, <4>1, <5>2, <5>3, <5>4, <5>5 DEF IsLowest
      <4>6. CASE ~AsksLess(quotes[e], a)
        <5>1. it[1..(m + 1)] = a
          BY <3>4, <3>5, <4>1, <4>6 DEF Lower
        <5>2. quotes[e].ask > 0 => a.ask > 0 /\ a.ask <= quotes[e].ask
          BY <3>7, <4>2, <4>6 DEF AsksLess
        <5>3. \A i \in 1..(m + 1) : quotes[index[i]].ask > 0 => a.ask > 0 /\ a.ask <= quotes[index[i]].ask
          BY <3>1, <3>5, <4>1, <4>3, <5>2 DEF IsLowest
        <5>4. a.ask > 0 => \E i \in 1..(m + 1) : a.exchange = index[i] /\ quotes[index[i]].ask = a.ask
          BY <3>1, <4>1, <4>4 DEF IsLowest
        <5> QED
          BY <5>1, <5>3, <5>4 DEF IsLowest
      <4> QED
        BY <4>5, <4>6
    <3> QED
      BY <3>8
  <2> QED
    BY <2>1, <2>2
<1> HIDE DEF S
<1>4. n \in S
  BY <1>2, <1>3, SetInduction
<1> QED
  BY <1>1, <1>4 DEF S, AsksFolded
-----------------------------------------------------------------------------
(* The highest bid.                                                         *)

\* What the loop knows after some exchanges.
Bids == [bid : Nat, exchange : Exchanges \cup {NoExchange}]
Higher(quotes, best, e) ==
  IF BidsMore(quotes[e], best) THEN [bid |-> quotes[e].bid, exchange |-> e] ELSE best
NoBid == [bid |-> 0, exchange |-> NoExchange]

LEMMA HigherIs ==
  ASSUME NEW quotes, NEW e \in Exchanges, quotes[e].bid \in Nat, NEW best \in Bids
  PROVE  Higher(quotes, best, e) \in Bids
BY DEF Higher, Bids

\* The equation of HighestBid's loop.
BidsFolded(it, index, quotes, n) ==
  /\ HighestBid(index, quotes) = it[1..n]
  /\ \A s \in SUBSET (1..n) :
       it[s] = IF s = {} THEN NoBid ELSE Higher(quotes, it[s \ {Max(s)}], index[Max(s)])

\* It has a solution, whose value at all positions is what HighestBid returns.
LEMMA HighestBidFolds ==
  ASSUME NEW index \in Seq(Exchanges), NEW quotes, NEW n \in Nat, n = Len(index),
         \A i \in 1..n : quotes[index[i]].bid \in Nat
  PROVE  \E it : BidsFolded(it, index, quotes, n)
<1> DEFINE F == [p \in Bids \X (1..n) |-> Higher(quotes, p[1], index[p[2]])]
           Recurs(it) == it = [s \in SUBSET (1..n) |->
                                IF s = {} THEN NoBid ELSE Higher(quotes, it[s \ {Max(s)}], index[Max(s)])]
<1>1. DOMAIN index = 1..n /\ \A i \in 1..n : index[i] \in Exchanges
  OBVIOUS
<1>2. NoBid \in Bids
  BY DEF NoBid, Bids
<1>3. F \in [Bids \X (1..n) -> Bids]
  BY <1>1, HigherIs
<1>4. PICK it : Solves(it, n, Bids, NoBid, F)
  <2> HIDE DEF F
  <2> QED
    BY <1>2, <1>3, FoldExists
<1>5. \A s \in SUBSET (1..n) :
        it[s] = IF s = {} THEN NoBid ELSE Higher(quotes, it[s \ {Max(s)}], index[Max(s)])
  <2> SUFFICES ASSUME NEW s \in SUBSET (1..n), s # {}
               PROVE  F[<<it[s \ {Max(s)}], Max(s)>>] = Higher(quotes, it[s \ {Max(s)}], index[Max(s)])
    BY <1>4 DEF Solves
  <2>1. Max(s) \in 1..n
    BY MaxIs
  <2>2. it[s \ {Max(s)}] \in Bids
    BY <1>4 DEF Solves
  <2> QED
    BY <2>1, <2>2
<1>6. Recurs(it)
  BY <1>4, <1>5 DEF Solves
<1>7. PICK c : c = (CHOOSE f : Recurs(f)) /\ Recurs(c)
  <2> HIDE DEF Recurs
  <2> QED
    BY <1>6
<1>8. HighestBid(index, quotes) = c[1..n]
  BY <1>1, <1>7 DEF HighestBid, FoldLeft, MapThenFoldSet, Higher, NoBid
<1>9. \A s \in SUBSET (1..n) :
        c[s] = IF s = {} THEN NoBid ELSE Higher(quotes, c[s \ {Max(s)}], index[Max(s)])
  BY <1>7
<1> HIDE DEF Recurs
<1> QED
  BY <1>8, <1>9 DEF BidsFolded

\* The highest bid of the first m exchanges: none when none of them bids, or that of one
\* of them, and no other bids more.
IsHighest(a, index, quotes, m) ==
  /\ a \in Bids
  /\ a.bid > 0 => \E i \in 1..m : a.exchange = index[i] /\ quotes[index[i]].bid = a.bid
  /\ \A i \in 1..m : quotes[index[i]].bid > 0 => a.bid > 0 /\ a.bid >= quotes[index[i]].bid

LEMMA HighestBidIs ==
  ASSUME NEW index \in Seq(Exchanges), NEW quotes, NEW n \in Nat, n = Len(index),
         \A i \in 1..n : quotes[index[i]].bid \in Nat
  PROVE  IsHighest(HighestBid(index, quotes), index, quotes, n)
<1>1. PICK it : BidsFolded(it, index, quotes, n)
  BY HighestBidFolds
<1> DEFINE Fine(m) == m <= n => IsHighest(it[1..m], index, quotes, m)
           S == {m \in Nat : Fine(m)}
<1>2. 0 \in S
  <2>1. 1..0 = {} /\ {} \in SUBSET (1..n)
    OBVIOUS
  <2>2. it[1..0] = NoBid
    BY <1>1, <2>1 DEF BidsFolded
  <2>3. IsHighest(NoBid, index, quotes, 0)
    BY <2>1 DEF IsHighest, NoBid, Bids
  <2> QED
    BY <2>2, <2>3
<1>3. ASSUME NEW m \in Nat, m \in S PROVE m + 1 \in S
  <2>1. CASE ~(m + 1 <= n)
    BY <2>1
  <2>2. CASE m + 1 <= n
    <3>1. IsHighest(it[1..m], index, quotes, m)
      BY <1>3, <2>2
    <3>2. 1..(m + 1) \in SUBSET (1..n)
      BY <2>2
    <3>3. /\ 1..(m + 1) # {} /\ Max(1..(m + 1)) = m + 1
          /\ (1..(m + 1)) \ {m + 1} = 1..m
      BY LastIs
    <3>4. it[1..(m + 1)] = Higher(quotes, it[1..m], index[m + 1])
      BY <1>1, <3>2, <3>3 DEF BidsFolded
    <3>5. PICK e : e = index[m + 1]
      OBVIOUS
    <3>6. m + 1 \in 1..n
      BY <2>2
    <3>7. e \in Exchanges /\ quotes[e].bid \in Nat
      BY <3>5, <3>6
    <3>8. IsHighest(it[1..(m + 1)], index, quotes, m + 1)
      <4>1. PICK a \in Bids : a = it[1..m]
        BY <3>1 DEF IsHighest
      <4>2. a.bid \in Nat
        BY DEF Bids
      <4>3. \A i \in 1..(m + 1) : i \in 1..m \/ i = m + 1
        OBVIOUS
      <4>4. \A i \in 1..m : i \in 1..(m + 1) /\ quotes[index[i]].bid \in Nat
        BY <2>2
      <4>5. CASE BidsMore(quotes[e], a)
        <5>1. PICK b : b = [bid |-> quotes[e].bid, exchange |-> e]
          OBVIOUS
        <5>2. Higher(quotes, a, e) = b /\ b.bid = quotes[e].bid /\ b.exchange = e /\ b \in Bids
          BY <3>7, <4>5, <5>1 DEF Higher, Bids
        <5>3. quotes[e].bid > 0 /\ quotes[e].bid > a.bid
          BY <4>5 DEF BidsMore
        <5>4. \A i \in 1..(m + 1) : quotes[index[i]].bid > 0 => b.bid >= quotes[index[i]].bid
          BY <3>1, <3>5, <3>7, <4>1, <4>2, <4>3, <4>4, <5>2, <5>3 DEF IsHighest
        <5>5. m + 1 \in 1..(m + 1)
          OBVIOUS
        <5> QED
          BY <3>4, <3>5, <4>1, <5>2, <5>3, <5>4, <5>5 DEF IsHighest
      <4>6. CASE ~BidsMore(quotes[e], a)
        <5>1. it[1..(m + 1)] = a
          BY <3>4, <3>5, <4>1, <4>6 DEF Higher
        <5>2. quotes[e].bid > 0 => a.bid > 0 /\ a.bid >= quotes[e].bid
          BY <3>7, <4>2, <4>6 DEF BidsMore
        <5>3. \A i \in 1..(m + 1) : quotes[index[i]].bid > 0 => a.bid > 0 /\ a.bid >= quotes[index[i]].bid
          BY <3>1, <3>5, <4>1, <4>3, <5>2 DEF IsHighest
        <5>4. a.bid > 0 => \E i \in 1..(m + 1) : a.exchange = index[i] /\ quotes[index[i]].bid = a.bid
          BY <3>1, <4>1, <4>4 DEF IsHighest
        <5> QED
          BY <5>1, <5>3, <5>4 DEF IsHighest
      <4> QED
        BY <4>5, <4>6
    <3> QED
      BY <3>8
  <2> QED
    BY <2>1, <2>2
<1> HIDE DEF S
<1>4. n \in S
  BY <1>2, <1>3, SetInduction
<1> QED
  BY <1>1, <1>4 DEF S, BidsFolded
-----------------------------------------------------------------------------
(* The best prices.                                                         *)

\* The best prices of the exchanges of an index: those of two of them, and no other is
\* better.
AreBest(b, index, quotes) ==
  /\ b \in BestPrices
  /\ b.ask > 0 /\ b.long \in ToSet(index) /\ quotes[b.long].ask = b.ask
  /\ b.bid > 0 /\ b.short \in ToSet(index) /\ quotes[b.short].bid = b.bid
  /\ \A e \in ToSet(index) : /\ quotes[e].ask > 0 => b.ask <= quotes[e].ask
                             /\ quotes[e].bid > 0 => b.bid >= quotes[e].bid

\* recalculateBest: whatever the exchanges quote, in whatever order they appeared, the
\* best prices are the lowest ask and the highest bid of those that gave one, beside
\* the exchanges that gave them, and there are best prices when some exchange asks and
\* some exchange bids.
THEOREM BestIs ==
  ASSUME NEW index \in Seq(Exchanges), NEW quotes, \A e \in ToSet(index) : quotes[e] \in Quote
  PROVE  /\ Best(index, quotes) # Nil => AreBest(Best(index, quotes), index, quotes)
         /\ (\E e \in ToSet(index) : quotes[e].ask > 0) /\ (\E e \in ToSet(index) : quotes[e].bid > 0)
              => Best(index, quotes) # Nil
<1>1. PICK n \in Nat : n = Len(index)
  OBVIOUS
<1>2. /\ \A e : e \in ToSet(index) <=> \E i \in 1..n : e = index[i]
      /\ \A i \in 1..n : index[i] \in Exchanges /\ index[i] \in ToSet(index)
  BY <1>1 DEF ToSet
<1>3. \A i \in 1..n : quotes[index[i]].ask \in Nat /\ quotes[index[i]].bid \in Nat
  BY <1>2 DEF Quote
<1>4. PICK a : a = LowestAsk(index, quotes) /\ IsLowest(a, index, quotes, n)
  BY <1>1, <1>3, LowestAskIs
<1>5. PICK b : b = HighestBid(index, quotes) /\ IsHighest(b, index, quotes, n)
  BY <1>1, <1>3, HighestBidIs
<1>6. PICK r : r = [ask |-> a.ask, long |-> a.exchange, bid |-> b.bid, short |-> b.exchange,
                    raw |-> RawSpread(b.bid, a.ask)]
  OBVIOUS
<1>7. Best(index, quotes) = IF a.ask > 0 /\ b.bid > 0 THEN r ELSE Nil
  BY <1>4, <1>5, <1>6 DEF Best
<1>8. a.ask \in Nat /\ b.bid \in Nat
  BY <1>4, <1>5 DEF IsLowest, IsHighest, Asks, Bids
<1>9. ASSUME a.ask > 0, b.bid > 0 PROVE AreBest(r, index, quotes)
  <2>1. /\ r.ask = a.ask /\ r.long = a.exchange /\ r.bid = b.bid /\ r.short = b.exchange
    BY <1>6
  <2>2. /\ a.exchange \in ToSet(index) /\ quotes[a.exchange].ask = a.ask /\ a.exchange \in Exchanges
    BY <1>2, <1>4, <1>9 DEF IsLowest
  <2>3. /\ b.exchange \in ToSet(index) /\ quotes[b.exchange].bid = b.bid /\ b.exchange \in Exchanges
    BY <1>2, <1>5, <1>9 DEF IsHighest
  <2>4. RawSpread(b.bid, a.ask) \in Int
    BY <1>8, <1>9 DEF RawSpread
  <2>5. r \in BestPrices
    BY <1>6, <1>8, <2>2, <2>3, <2>4 DEF BestPrices
  <2>6. \A e \in ToSet(index) : /\ quotes[e].ask > 0 => a.ask <= quotes[e].ask
                                /\ quotes[e].bid > 0 => b.bid >= quotes[e].bid
    BY <1>2, <1>4, <1>5 DEF IsLowest, IsHighest
  <2> QED
    BY <1>9, <2>1, <2>2, <2>3, <2>5, <2>6 DEF AreBest
<1>10. (\E e \in ToSet(index) : quotes[e].ask > 0) => a.ask > 0
  BY <1>2, <1>4 DEF IsLowest
<1>11. (\E e \in ToSet(index) : quotes[e].bid > 0) => b.bid > 0
  BY <1>2, <1>5 DEF IsHighest
<1>12. a.ask > 0 /\ b.bid > 0 => r # Nil
  BY <1>9, SpreadAssumption DEF AreBest
<1> QED
  BY <1>7, <1>9, <1>10, <1>11, <1>12
-----------------------------------------------------------------------------
(* What an order costs.                                                     *)

\* What the loop of simulateMarketOrder knows.
Walked == [cost : Nat, filled : Nat, remaining : Nat]
Walk(s, l) ==
  LET t == Takes(l, s.remaining) IN
  IF s.remaining <= 0 THEN s
  ELSE [cost |-> s.cost + l.price * t, filled |-> s.filled + t, remaining |-> s.remaining - t]
NoWalk(volume) == [cost |-> 0, filled |-> 0, remaining |-> volume]

LEMMA WalkIs ==
  ASSUME NEW s \in Walked, NEW l \in Level
  PROVE  Walk(s, l) \in Walked
<1>1. PICK p \in Nat, v \in Nat, c \in Nat, f \in Nat, q \in Nat :
        p = l.price /\ v = l.volume /\ c = s.cost /\ f = s.filled /\ q = s.remaining
  BY DEF Walked, Level
<1>2. PICK t \in Nat : t = Takes(l, s.remaining) /\ t <= q
  BY <1>1 DEF Takes
<1>3. p * t \in Nat
  OBVIOUS
<1>4. c + p * t \in Nat /\ f + t \in Nat /\ q - t \in Nat
  BY <1>2, <1>3
<1> QED
  BY <1>1, <1>2, <1>4 DEF Walk, Walked

\* The equation of the loop.
WalkFolds(it, end, levels, volume, n) ==
  /\ end = it[1..n]
  /\ \A s \in SUBSET (1..n) :
       it[s] = IF s = {} THEN NoWalk(volume) ELSE Walk(it[s \ {Max(s)}], levels[Max(s)])

\* What the loop ends with.
WalkEnd(levels, volume) ==
  FoldLeft(LAMBDA s, l :
             LET t == Takes(l, s.remaining) IN
             IF s.remaining <= 0 THEN s
             ELSE [cost |-> s.cost + l.price * t, filled |-> s.filled + t,
                   remaining |-> s.remaining - t],
           [cost |-> 0, filled |-> 0, remaining |-> volume], levels)

LEMMA LevelsFold ==
  ASSUME NEW levels \in Seq(Level), NEW volume \in Nat, NEW n \in Nat, n = Len(levels)
  PROVE  \E it : WalkFolds(it, WalkEnd(levels, volume), levels, volume, n)
<1> DEFINE F == [p \in Walked \X (1..n) |-> Walk(p[1], levels[p[2]])]
           Recurs(it) == it = [s \in SUBSET (1..n) |->
                                IF s = {} THEN NoWalk(volume) ELSE Walk(it[s \ {Max(s)}], levels[Max(s)])]
<1>1. DOMAIN levels = 1..n /\ \A i \in 1..n : levels[i] \in Level
  OBVIOUS
<1>2. NoWalk(volume) \in Walked
  BY DEF NoWalk, Walked
<1>3. F \in [Walked \X (1..n) -> Walked]
  BY <1>1, WalkIs
<1>4. PICK it : Solves(it, n, Walked, NoWalk(volume), F)
  <2> HIDE DEF F
  <2> QED
    BY <1>2, <1>3, FoldExists
<1>5. \A s \in SUBSET (1..n) :
        it[s] = IF s = {} THEN NoWalk(volume) ELSE Walk(it[s \ {Max(s)}], levels[Max(s)])
  <2> SUFFICES ASSUME NEW s \in SUBSET (1..n), s # {}
               PROVE  F[<<it[s \ {Max(s)}], Max(s)>>] = Walk(it[s \ {Max(s)}], levels[Max(s)])
    BY <1>4 DEF Solves
  <2>1. Max(s) \in 1..n
    BY MaxIs
  <2>2. it[s \ {Max(s)}] \in Walked
    BY <1>4 DEF Solves
  <2> QED
    BY <2>1, <2>2
<1>6. Recurs(it)
  BY <1>4, <1>5 DEF Solves
<1>7. PICK c : c = (CHOOSE f : Recurs(f)) /\ Recurs(c)
  <2> HIDE DEF Recurs
  <2> QED
    BY <1>6
<1>8. WalkEnd(levels, volume) = c[1..n]
  BY <1>1, <1>7 DEF WalkEnd, FoldLeft, MapThenFoldSet, Walk, NoWalk
<1>9. \A s \in SUBSET (1..n) :
        c[s] = IF s = {} THEN NoWalk(volume) ELSE Walk(c[s \ {Max(s)}], levels[Max(s)])
  BY <1>7
<1> HIDE DEF Recurs
<1> QED
  BY <1>8, <1>9 DEF WalkFolds

LEMMA WalkEndIs ==
  ASSUME NEW levels \in Seq(Level), NEW volume \in Nat
  PROVE  WalkEnd(levels, volume) \in Walked
<1>1. PICK n \in Nat : n = Len(levels)
  OBVIOUS
<1>2. PICK it : WalkFolds(it, WalkEnd(levels, volume), levels, volume, n)
  BY <1>1, LevelsFold
<1> DEFINE Fine(m) == m <= n => it[1..m] \in Walked
           S == {m \in Nat : Fine(m)}
<1>3. 0 \in S
  <2>1. 1..0 = {} /\ {} \in SUBSET (1..n)
    OBVIOUS
  <2>2. it[1..0] = NoWalk(volume)
    BY <1>2, <2>1 DEF WalkFolds
  <2> QED
    BY <2>2 DEF NoWalk, Walked
<1>4. ASSUME NEW m \in Nat, m \in S PROVE m + 1 \in S
  <2>1. CASE ~(m + 1 <= n)
    BY <2>1
  <2>2. CASE m + 1 <= n
    <3>1. it[1..m] \in Walked
      BY <1>4, <2>2
    <3>2. 1..(m + 1) \in SUBSET (1..n) /\ m + 1 \in 1..n
      BY <2>2
    <3>3. /\ 1..(m + 1) # {} /\ Max(1..(m + 1)) = m + 1
          /\ (1..(m + 1)) \ {m + 1} = 1..m
      BY LastIs
    <3>4. it[1..(m + 1)] = Walk(it[1..m], levels[m + 1])
      BY <1>2, <3>2, <3>3 DEF WalkFolds
    <3>5. levels[m + 1] \in Level
      BY <1>1, <3>2
    <3> QED
      BY <3>1, <3>4, <3>5, WalkIs
  <2> QED
    BY <2>1, <2>2
<1> HIDE DEF S
<1>5. n \in S
  BY <1>3, <1>4, SetInduction
<1> QED
  BY <1>2, <1>5 DEF S, WalkFolds

\* A simulated order has a price when the book has a level.
LEMMA SimulateIs ==
  ASSUME NEW levels \in Seq(Level), NEW volume \in Nat, Simulate(levels, volume) # Nil
  PROVE  Simulate(levels, volume) \in [avg : Nat, fills : BOOLEAN]
<1>1. PICK end \in Walked : end = WalkEnd(levels, volume)
  BY WalkEndIs
<1>2. Simulate(levels, volume) =
        [avg |-> IF end.filled > 0 THEN end.cost \div end.filled ELSE 0,
         fills |-> end.filled > 0 /\ end.remaining <= 0]
  BY <1>1 DEF Simulate, WalkEnd
<1>3. PICK c \in Nat, f \in Nat : c = end.cost /\ f = end.filled
  BY DEF Walked
<1>4. (IF f > 0 THEN c \div f ELSE 0) \in Nat
  OBVIOUS
<1> QED
  BY <1>2, <1>3, <1>4

\* The first levels of a book are levels.
LEMMA KeptIs == ASSUME NEW levels \in Seq(Level) PROVE Kept(levels) \in Seq(Level)
<1>1. PICK n \in Nat : n = Len(levels)
  OBVIOUS
<1>2. PICK k \in Nat : k <= n /\ Kept(levels) = SubSeq(levels, 1, k)
  BY <1>1, SpreadAssumption DEF Kept
<1> QED
  BY <1>1, <1>2

\* What AnalyzeLiquidity returns.
Analyses == [ok : BOOLEAN, avgLong : Nat, avgShort : Nat, spread : Int]

LEMMA AnalysisIs ==
  ASSUME NEW books \in [Exchanges -> Book \cup {Nil}], NEW volume \in Nat,
         NEW long \in Exchanges, NEW short \in Exchanges
  PROVE  Analysis(books, volume, long, short) \in Analyses
<1> DEFINE buy == IF books[long] = Nil THEN Nil ELSE Simulate(books[long].asks, volume)
           sell == IF books[short] = Nil THEN Nil ELSE Simulate(books[short].bids, volume)
<1>1. buy # Nil => buy \in [avg : Nat, fills : BOOLEAN]
  BY SimulateIs DEF Book
<1>2. sell # Nil => sell \in [avg : Nat, fills : BOOLEAN]
  BY SimulateIs DEF Book
<1>3. Analysis(books, volume, long, short) =
        IF buy = Nil \/ sell = Nil THEN [ok |-> FALSE, avgLong |-> 0, avgShort |-> 0, spread |-> 0]
        ELSE [ok |-> buy.fills /\ sell.fills, avgLong |-> buy.avg, avgShort |-> sell.avg,
              spread |-> IF buy.avg > 0 THEN RawSpread(sell.avg, buy.avg) ELSE 0]
  BY DEF Analysis
<1> HIDE DEF buy, sell
<1>4. CASE buy = Nil \/ sell = Nil
  BY <1>3, <1>4 DEF Analyses
<1>5. CASE buy # Nil /\ sell # Nil
  <2>1. PICK x \in Nat, y \in Nat : x = buy.avg /\ y = sell.avg
    BY <1>1, <1>2, <1>5
  <2>2. (IF x > 0 THEN RawSpread(y, x) ELSE 0) \in Int
    BY DEF RawSpread
  <2> QED
    BY <1>1, <1>2, <1>3, <1>5, <2>1, <2>2 DEF Analyses
<1> QED
  BY <1>4, <1>5
=============================================================================
