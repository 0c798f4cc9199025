\* Three pairs that only the exit checker and ForceClosePair close.
CONSTANTS
  Pairs = {p1, p2, p3}
  Exchanges = {x1, x2}
  BuyMeansLong = {x1}
  Workers = {w1, w2}
  Users = {u1}
  Slots = {s1, s2, s3}
  MaxArbs = 1
  StopLossPairs = {}
  Commands = {"force"}
  Faults = {"close"}
  Tries = 2
  QueueCap = 0
  MaxEntries = 3
  MaxLiquidations = 0
  NoPair = NoPair
SPECIFICATION Spec
INVARIANTS OvershootBounded ArbsCoverWork 
PROPERTIES ImplementsLifecycle
CHECK_DEADLOCK FALSE
