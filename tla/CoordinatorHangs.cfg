SPECIFICATION Spec
CONSTANTS
  f1 = f1
  f2 = f2
  NULL = NULL
  Functions = {f1, f2}
  Selection <- TwoFunctions
  NumThreads = 1
  NumEvaluators = 1
  MaxBuilds = 1
  bBatchRun = FALSE
  Tasks <- MCTasks
  Results <- MCResults
PROPERTY AnalysisCompletes
CHECK_DEADLOCK FALSE
