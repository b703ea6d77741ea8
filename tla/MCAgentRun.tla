----------------------------- MODULE MCAgentRun -----------------------------
EXTENDS AgentRunInv

MCReads == Calls \cap {"read", "search", "ask"}

MCGate == [c \in Calls |->
  CASE c = "write"  -> "write"
    [] c = "write2" -> "write"
    [] c = "search" -> "egress"
    [] c = "ask"    -> "question"
    [] c = "denied" -> "deny"
    [] OTHER        -> "allow"]
=============================================================================
