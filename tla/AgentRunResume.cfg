SPECIFICATION FairSpec
CONSTANTS
  Calls = {"write", "search"}
  Reads <- MCReads
  Gate <- MCGate
  MaxTurns = 1
  MaxStarts = 3
  MaxFaults = 2
INVARIANT InductiveInv
PROPERTIES RunEnds
