\* A pair is closed for a spread that has not narrowed.
SPECIFICATION Spec
CONSTANTS
  e1 = e1
  e2 = e2
  e3 = e3
  Exchanges = {e1, e2, e3}
  NoExchange = NoExchange
  Nil = Nil
  Fees <- NoFees
  Depth = 5
  Markets <- SomeMarkets
  Quantities = {14, 30}
  Orders = {1, 3}
  LimitSets <- SomeLimits
  Defaults <- DefaultLimits
  Funds = {800, 4000}
  EntrySpread = 50
  ExitSpread = 15
  StopLoss = 200
  MaxEntries = 2
INVARIANTS ExitConverged
CHECK_DEADLOCK FALSE
