SPECIFICATION FairSpec
CONSTANTS
  SQS = {q1, q2}
  SQ_SIZE = 2
  CQ_SIZE = 2
  Cids = {c1}
  NoCid = nocid
  Depth = 2
  Kinds = {"rw"}
  Latencies = {1, 2}
  Weight = 0
  Mapped = {TRUE, FALSE}
  Aborts = {}
  Deletes = {q1}
INVARIANTS
  Accounted PhaseExact DueFirst RequestsConserved NoneDeleted
PROPERTIES
  Answered
