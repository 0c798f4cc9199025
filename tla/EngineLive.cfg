\* One pair with fair goroutines, under liquidation.
CONSTANTS
  Pairs = {p1}
  Exchanges = {x1, x2}
  BuyMeansLong = {x1}
  Workers = {w1}
  Users = {u1}
  Slots = {s1, s2}
  MaxArbs = 1
  StopLossPairs = {}
  Commands = {"pause", "force"}
  Faults = {"close"}
  Tries = 2
  QueueCap = 1
  MaxEntries = 2
  MaxLiquidations = 1
  NoPair = NoPair
SPECIFICATION FairSpec
INVARIANTS HoldingWatched
PROPERTIES TransientEnds 
CHECK_DEADLOCK FALSE
