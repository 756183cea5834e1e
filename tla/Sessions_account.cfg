CONSTANTS
  q1 = q1
  q2 = q2
  Requests = {q1, q2}
  IdleTimeout = 1
  AbsoluteTimeout = 2
  TouchThrottle = 0
  ResetLifetime = 1
  Window = 1
  PerName = 1
  PerAddress = 2
  MaxTime = 2
  MaxSessions = 2
  MaxPasswords = 3
  MaxLinks = 1
SPECIFICATION Spec
SYMMETRY SlotSymmetry
INVARIANTS TypeOK LinkWorksOnce
 
