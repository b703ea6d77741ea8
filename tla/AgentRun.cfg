SPECIFICATION Spec
CONSTANTS
  Calls = {"plain", "write", "denied"}
  Reads <- MCReads
  Gate <- MCGate
  MaxTurns = 2
  MaxStarts = 2
  MaxFaults = 2
INVARIANT TypeOK
INVARIANTS BatchResolvable PromptCoversWaiting NoBlindReplay PairedUnlessTorn
PROPERTIES TerminalIsFinal LedgerSpec
