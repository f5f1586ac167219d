SPECIFICATION Spec
CONSTANTS
  f1 = f1
  f2 = f2
  Functions = {f1}
  Selection <- OneFunction
  Addresses = {0, 1}
  EntryPoint <- AllAtZero
  Following <- Circle
  Targets <- NoTargets
  InitialForks = 0
  MaxGraphSize = 1
  MaxNoops = 5
  MaxConditions = 6
  MaxGrowth <- SecondOnly
  MaxInitialize = 1
INVARIANTS ForkBudget DistinctPaths LoopsAreLeft
PROPERTY EveryBuilderYields
CHECK_DEADLOCK FALSE
