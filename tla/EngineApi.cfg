\* One pair under every API call, the exit checker and the RiskMonitor.
CONSTANTS
  Pairs = {p1}
  Exchanges = {x1, x2}
  BuyMeansLong = {x1}
  Workers = {w1, w2}
  Users = {u1}
  Slots = {s1, s2}
  MaxArbs = 1
  StopLossPairs = {p1}
  Commands = {"start", "pause", "force"}
  Faults = {"rollback", "timeout", "lost", "unseen", "close"}
  Tries = 1
  QueueCap = 0
  MaxEntries = 2
  MaxLiquidations = 0
  NoPair = NoPair
SPECIFICATION Spec
INVARIANTS TypeOK  TransientOwned
SYMMETRY Symmetry
CHECK_DEADLOCK FALSE
