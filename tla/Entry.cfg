\* An entry of one or three parts, and a second one, over six markets.
SPECIFICATION Spec
CONSTANTS
  e1 = e1
  e2 = e2
  e3 = e3
  Exchanges = {e1, e2, e3}
  NoExchange = NoExchange
  Nil = Nil
  Fees <- NoFees
  Depth = 5
  Markets <- SomeMarkets
  Quantities = {14, 30}
  Orders = {1, 3}
  LimitSets <- SomeLimits
  Defaults <- DefaultLimits
  Funds = {800, 4000}
  EntrySpread = 50
  ExitSpread = 15
  StopLoss = 200
  MaxEntries = 2
INVARIANTS TypeOK  
CHECK_DEADLOCK FALSE
