SPECIFICATION Spec
CONSTANTS
  Calls = {"denied"}
  Reads <- MCReads
  Gate <- MCGate
  MaxTurns = 2
  MaxStarts = 2
  MaxFaults = 1
INVARIANT DenyIsFinal
