SPECIFICATION Spec
CONSTANTS
  v1 = v1
  v2 = v2
  Cpus = {v1, v2}
  Main = main
  Others = {main}
  Does <- Roles
  MaxWork = 1
INVARIANT FlushedBeforeExecution
