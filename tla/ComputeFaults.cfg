SPECIFICATION FairSpec
CONSTANTS
  j1 = j1
  j2 = j2
  j3 = j3
  u1 = u1
  u2 = u2
  Jobs = {j1, j3}
  Workers = {w1}
  Users = {u1, u2}
  UserOf <- MCUserOf
  NoWorker = NoWorker
  NoUser = NoUser
  NoJob = NoJob
  MaxWaiting = 1
  MaxAttempts = 2
  MaxFaults = 1
  w1 = w1
INVARIANTS NoStrayOutput
PROPERTIES JobsEnd
