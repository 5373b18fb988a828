CONSTANTS
  MaxProps = 3
  MaxValues = 6
SPECIFICATION Spec
INVARIANT CoprimePairsComplete
CHECK_DEADLOCK FALSE
