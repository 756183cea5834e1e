CONSTANTS
  s1 = s1
  s2 = s2
  Streams = {s1, s2}
  SignedIn = {s1}
  Publishers = {p1}
  Orders = {o1, o2}
  Batches <- MCBatches
  Buffer = 1
  NoHub = NoHub
SPECIFICATION FairSpec
CHECK_DEADLOCK FALSE
INVARIANTS TypeOK RegisteredOpen NoHubLeft
PROPERTIES PublishReturns ShutdownEnds
