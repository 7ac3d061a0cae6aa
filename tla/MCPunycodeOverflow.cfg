CONSTANTS
  U32Max = 255
  MaxLen = 5
  EncodeChars = {97, 179}
  DecodeChars = {}
  DecodeExtra = {}
SPECIFICATION Spec
INVARIANTS
  NoOverflow
CHECK_DEADLOCK FALSE
