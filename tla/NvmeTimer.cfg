SPECIFICATION Spec
CONSTANTS
  SQS = {q1}
  SQ_SIZE = 3
  CQ_SIZE = 3
  Cids = {c1, c2}
  NoCid = nocid
  Depth = 2
  Kinds = {"rw"}
  Latencies = {1, 3}
  Weight = 0
  Mapped = {FALSE}
  Aborts = {}
  Deletes = {}
INVARIANTS
  TimerCovers
