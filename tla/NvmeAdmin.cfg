SPECIFICATION FairSpec
CONSTANTS
  SQ_SIZE = 3
  CQ_SIZE = 2
  ArbBurst = 2
  AERL = 0
  Cids = {c1, c2}
  Types = {"error"}
  Ops = {"aer", "error", "abort"}
  MaxQueued = 1
INVARIANTS
  TypeOK Accounted Armed Unmuted
PROPERTIES
  Served
CHECK_DEADLOCK FALSE
