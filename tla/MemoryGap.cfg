SPECIFICATION MemorySpec
CONSTANTS
  MaxMessages = 12
  MaxLoadedRounds = 2
  MaxWindowRounds = 3
  MinRecentRounds = 2
PROPERTIES
  SkippedWasSummarised
CHECK_DEADLOCK FALSE
