\* Two requests at a time, two exchanges, one symbol, one crash.
CONSTANTS
  Workers = {w1, w2}
  MaxId = 2
  Symbols = {s1}
  Exchanges = {x1, x2}
  Params = {p1, p2}
  MaxPairs = 2
  AutoClose = TRUE
  MaxRequests = 3
  MaxEntries = 1
  MaxCrashes = 1
  None = None
SPECIFICATION Spec
INVARIANTS TypeOK 
 
SYMMETRY Symmetry
CHECK_DEADLOCK FALSE
