SPECIFICATION Spec
CONSTANTS
  f1 = f1
  f2 = f2
  NULL = NULL
  Functions = {f1, f2}
  Selection <- TwoFunctions
  NumThreads = 1
  NumEvaluators = 2
  MaxBuilds = 2
  bBatchRun = TRUE
  Tasks <- MCTasks
  Results <- MCResults
INVARIANTS NothingMissing CompleteMeansComplete DestroyedWhenIdle EntryIsFound
PROPERTY CompletesUnlessForgotten
CHECK_DEADLOCK FALSE
