SPECIFICATION SafeSpec
CONSTANTS
  f1 = f1
  f2 = f2
  Functions = {f1}
  Selection <- OneFunction
  Addresses = {0, 1}
  EntryPoint <- AllAtZero
  Following <- Circle
  Targets <- BackToZero
  InitialForks = 0
  MaxGraphSize = 2
  MaxNoops = 3
  MaxConditions = 2
  MaxGrowth <- OneNode
  MaxInitialize = 0
INVARIANT FollowsNextAddress
CHECK_DEADLOCK FALSE
