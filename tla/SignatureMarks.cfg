SPECIFICATION Spec
CONSTANTS
  Width = 4
  ReadOnly <- MCReadOnly
  Texts <- MCTexts
  Symbols <- MCSymbols
  Numerals <- MCNumerals
  Definitions <- MCDefinitions
  CodeGraphs <- MCCodeGraphs
  MaxNodes = 4
  Refs = {"0", "1"}
  BlockSize = 4
  MaskBits = 2
INVARIANT EveryNodeMarked
CHECK_DEADLOCK FALSE
