CONSTANTS
  m1 = m1
  m2 = m2
  r1 = r1
  r2 = r2
  Models <- TwoModels
  Runs <- TwoRuns
  NumTasks = 2
  Concurrency = 1
  LogCap = 1
  Lists <- OneList
SPECIFICATION FairSpec
INVARIANTS
  TypeOK
  WithinConcurrency
  WorkersEndFirst
  CountsOneRun
  RunningHasRun
PROPERTIES
  RunsEnd
