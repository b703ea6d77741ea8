SPECIFICATION Spec
CONSTANTS
  Calls = {"read", "write", "search"}
  Reads <- MCReads
  Gate <- MCGate
  MaxTurns = 2
  MaxStarts = 1
  MaxFaults = 0
INVARIANT PairedHistory
