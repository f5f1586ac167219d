SPECIFICATION Spec
CONSTANTS
  e1 = e1
  e2 = e2
  Exprs <- OneExpression
  Half = 4
  MaxConditions = 4
INVARIANTS ExactWhenFeasible AnswersSound Canonical DecidedOnce
CHECK_DEADLOCK FALSE
PROPERTY MergeTerminates
