SPECIFICATION FilterSpec
CONSTANTS
  Bytes = {27, 91, 79, 60, 117, 53, 63, 10}
  MaxInput = 5
INVARIANT NoSequencePasses
