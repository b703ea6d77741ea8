SPECIFICATION ChatSpec
CONSTANTS
  Callers = {r1, r2}
  BusSessions = {s1, s2}
  Convs = {c1}
  Nobody = Nobody
  MaxStreams = 2
INVARIANTS
  ChatTypeOK
  RunsAreAlone
  BusyHasARequest
  UsageIsAccounted
  ClientIsTold
  PromptsHaveWaiters
CHECK_DEADLOCK FALSE
PROPERTIES
  StreamsClose
