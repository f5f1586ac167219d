SPECIFICATION Spec
CONSTANTS
  Width = 4
  ReadOnly <- MCReadOnly
  Texts <- MCTexts
  Symbols <- MCSymbols
  Numerals <- MCNumerals
  Definitions <- MCDefinitions
  CodeGraphs <- MCWideCodeGraphs
  MaxNodes = 4
  Refs = {"0", "1"}
  BlockSize = 4
  MaskBits = 2
INVARIANTS Backtracked FoundIsMatch NoMatchMissed ParsedAsWritten OpaqueRefsInRange
PROPERTIES ImplementsEvaluator EvaluationEnds
CHECK_DEADLOCK FALSE
