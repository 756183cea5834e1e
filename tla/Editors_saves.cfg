CONSTANTS
  lunch = lunch
  Presses = {1, 2}
  Tasks = {1, 2}
  Rules = {lunch}
SPECIFICATION FairSpec
CHECK_DEADLOCK FALSE
INVARIANTS TypeOK SaveIsOffered ReadAgain
PROPERTIES WritesOnlyChanges RulesAreKept EverySaveEnds
