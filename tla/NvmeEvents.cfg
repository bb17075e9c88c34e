SPECIFICATION Spec
CONSTANTS
  SQ_SIZE = 3
  CQ_SIZE = 2
  ArbBurst = 2
  AERL = 0
  Cids = {c1, c2}
  Types = {"error", "smart"}
  Ops = {"aer", "error", "smart", "hot", "cold"}
  MaxQueued = 2
SYMMETRY CidSymmetry
INVARIANTS
  Armed Unmuted FaultsKnown
CHECK_DEADLOCK FALSE
