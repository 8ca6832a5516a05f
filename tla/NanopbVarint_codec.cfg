CONSTANTS
  Bits = 2
  W = 5
  V = 9
  Wrap = 16
  FieldSizes = {3, 5, 9}
  MaxBytes = 11
SPECIFICATION Spec
INVARIANTS TypeOK LowBitsKept RefusedDoesNotFit EncoderInverse FieldRoundTrip
CHECK_DEADLOCK FALSE
