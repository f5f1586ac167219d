SPECIFICATION Spec
CONSTANTS
  g1 = g1
  g2 = g2
  g3 = g3
  Const = Const
  Op = Op
  LOAD = LOAD
  STORE = STORE
  FirstGraph = g1
  Graphs = {g1, g2, g3}
  NumRegisters = 1
  Leaves = {Const}
  Operations = {Op}
  MaxInputs = 1
  MaxNodes = 3
INVARIANTS Isolated ArcsMatch IndexExact StoresMatch
PROPERTY ForkIsCopy
CHECK_DEADLOCK FALSE
