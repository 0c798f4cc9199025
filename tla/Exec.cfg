\* An entry and a close share two channels, under every failure, with fair
\* goroutines.
CONSTANTS
  Exchanges = {x1, x2}
  Faults = {"rollback", "timeout", "lost", "unseen", "close"}
  Tries = 2
  Entries = {e1}
  Closes = {d1}
  Chans = {c1, c2}
  MaxRetries = 1
  NoChan = NoChan
  Empty = Empty
SPECIFICATION FairSpec
INVARIANTS TypeOK   OwnAnswer
PROPERTIES CallReturns ChannelsReturn
CHECK_DEADLOCK FALSE
