\* Three requests over a pool of two connections, with failures; liveness.
CONSTANTS
  r1 = r1
  r2 = r2
  r3 = r3
  Requests = {r1, r2, r3}
  Conns = {c1, c2}
  NoConn = NoConn
  Workload <- Mixed
  MaxFaults = 2
SPECIFICATION FairSpec
INVARIANTS IdleIsClean HeldByOne AnswersAreTrue
PROPERTY RequestsEnd
