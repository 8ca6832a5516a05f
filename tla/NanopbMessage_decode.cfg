CONSTANTS
  None = None
  Types <- MCTypes
  Root <- MCRoot
  Fields <- MCFields
  Inputs <- MCInputs
  Size32 = 2
  Size64 = 3
  SizeMax = 2
  MaxLen = 3
  MaxNesting = 1
SPECIFICATION Spec
INVARIANTS TypeOK WellNested ArraysBounded RoundTrip SizeSuffices RequiredDecoded
PROPERTY Advances
