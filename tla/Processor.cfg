SPECIFICATION Spec
CONSTANTS
  Width = 4
  ReadOnly <- MCReadOnly
  Addresses <- MCAddresses
  Internal <- MCInternal
  NonReturning = {12}
  dwMaxCallDepth = 2
  Registers <- MCRegisters
  InstructionSize = 2
  PcOffset = 4
  Image <- MCImage
  Programs <- MCPrograms
  MaxSteps <- MCMaxSteps
  Samples <- MCSamples
  Sampled <- MCSampled
INVARIANTS PathsAgree RegistersAgree OutputsKept CallDepthBounded
PROPERTIES ForkKeepsFlags ImplementsCallStack
CHECK_DEADLOCK FALSE
