\* Three exchanges, two workers of a shard, three tickers and two books.
SPECIFICATION Spec
CONSTANTS
  e1 = e1
  e2 = e2
  e3 = e3
  Exchanges = {e1, e2, e3}
  NoExchange = NoExchange
  Nil = Nil
  Fees <- NoFees
  Depth = 2
  Workers = {w1, w2}
  Quotes <- SomeQuotes
  Books <- SomeBooks
  Volume = 2
  QueueCap = 1
  MaxPushes = 3
  MaxBooks = 2
INVARIANTS TypeOK BestOfQuotes OpportunityBacked QuietIsChecked
CHECK_DEADLOCK FALSE
