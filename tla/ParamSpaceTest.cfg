CONSTANTS
  MaxProps = 3
  MaxValues = 6
SPECIFICATION Spec
INVARIANT EveryCombination
CHECK_DEADLOCK FALSE
