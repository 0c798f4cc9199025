\* A socket that breaks twice, with a failure to connect and a report of a disconnect
\* that is overtaken once.
CONSTANTS
  Unit = 2
  Streams <- Private
  Subs = {s1}
  Conns = {c1, c2}
  Readers = {r1, r2}
  Loops = {l1, l2}
  NoConn = NoConn
  Down = Down
  MaxRetries = 1
  MaxBreaks = 2
  MaxFails = 1
  MaxRaces = 1
SPECIFICATION FairSpec
INVARIANTS TypeOK ToldIsSubscribed
PROPERTIES StreamResumes CloseEndsReconnecting
CHECK_DEADLOCK FALSE
