\* One account at each of the six exchanges, with halves of a contract, one
\* crash and one liquidation.
CONSTANTS
  Unit = 2
  Quantities <- Halves
  MaxOrders = 3
  MaxCrashes = 1
  MaxLiquidations = 1
SPECIFICATION DeskSpec
 
PROPERTIES  PricedLegTraded NothingInvented AlarmsAreTrue
CHECK_DEADLOCK FALSE
