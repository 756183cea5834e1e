CONSTANTS
  s1 = s1
  s2 = s2
  Streams = {s1, s2}
  SignedIn = {s1}
  Publishers = {p1}
  Orders = {o1}
  Batches <- MCBatches
  Buffer = 1
  NoHub = NoHub
SPECIFICATION Spec
CHECK_DEADLOCK FALSE
INVARIANT NoStreamOrphaned
