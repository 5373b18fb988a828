CONSTANTS
  i1 = i1  i2 = i2
  Nobody = Nobody
  Instruments <- MCInstruments
  DataStores <- MCDataStores
  NumConsumers = 2
  EventIDs <- MCEventIDs
  Delays <- MCDelays
  Days <- MCDays
  LastMs = 4
  MaxDate = 2
SPECIFICATION ReplayerSpec
INVARIANTS ReplayerTypeOK DayInOrder NoTimerOverdue TimersOfTheDay
PROPERTIES ClockRunsForward DayEnds
CHECK_DEADLOCK FALSE
