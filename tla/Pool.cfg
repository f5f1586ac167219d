SPECIFICATION Spec
CONSTANTS
  t1 = t1
  t2 = t2
  t3 = t3
  t4 = t4
  NULL = NULL
  NumThreads = 2
  Tasks <- FourTasks
  Results <- FourTasks
  TryTasks <- LastTasks
  ClientOps = {"Synchronize", "Destroy"}
  MaxSynchronize = 1
INVARIANT Quiescent
PROPERTIES ImplementsTaskService EveryTaskIsCollected BarrierWaitsForTasks WaitsForAllEnd
CHECK_DEADLOCK FALSE
