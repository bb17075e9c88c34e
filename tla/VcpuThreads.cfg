SPECIFICATION FairSpec
CONSTANTS
  v1 = v1
  v2 = v2
  Cpus = {v1, v2}
  Main = main
  Others = {main}
  Does <- Roles
  MaxWork = 1
INVARIANTS
  TypeOK Exclusion WaitsForMarked FlushedBeforeBlocks
PROPERTIES WorkServed
