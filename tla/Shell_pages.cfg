CONSTANTS
  ann = ann
  Visitor = ann
  Nobody = Nobody
  MaxRenders = 5
  MaxUnderWay = 2
  MaxCalls = 1
  MaxModals = 1
  MaxFaults = 1
SPECIFICATION FairSpec
CHECK_DEADLOCK FALSE
INVARIANTS TypeOK NothingLeftOpen PageOfUrl OneVisitor NeverLockedOut
PROPERTIES NewestWins PageComes
