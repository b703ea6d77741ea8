SPECIFICATION ChatSpec
CONSTANTS
  Callers = {r1, r2}
  BusSessions = {s1, s2}
  Convs = {c1}
  Nobody = Nobody
  MaxStreams = 2
INVARIANTS
  EveryStreamIsEnded
CHECK_DEADLOCK FALSE
