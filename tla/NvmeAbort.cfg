SPECIFICATION Spec
CONSTANTS
  SQS = {q1}
  SQ_SIZE = 3
  CQ_SIZE = 2
  Cids = {c1, c2, c3, c4}
  NoCid = nocid
  Depth = 4
  Kinds = {"rw", "plain", "async"}
  Latencies = {1}
  Weight = 1
  Mapped = {FALSE}
  Aborts = {c1}
  Deletes = {q1}
INVARIANTS
  TypeOK RequestsConserved Accounted AbortNeedsRequest
SYMMETRY CidSymmetry
VIEW Numbered
CHECK_DEADLOCK FALSE
