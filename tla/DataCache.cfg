CONSTANTS
  w1 = w1  w2 = w2  i1 = i1  i2 = i2
  NumInst = 2
  Workers <- MCWorkers
  Instruments <- MCInstruments
  InstrumentSeq <- MCInstrumentSeq
  StartDate <- MCStartDate
  EndDate <- MCEndDate
  MaxDayInMemory = 2
  Fetchable <- MCFiles
  LeftFiles <- MCLeftFiles
  MaxRestarts = 1
SPECIFICATION CacheSpec
INVARIANTS NoHalfWrittenFile MissingOnlyUnreadable
PROPERTIES DaysInOrder ReadableDaysReplayed
CHECK_DEADLOCK FALSE
