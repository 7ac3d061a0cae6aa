CONSTANTS
  U32Max = 65535
  MaxLen = 4
  EncodeChars = {97, 45, 233, 257, 128512}
  DecodeChars = {97, 98, 122, 48, 57, 45, 33, 233}
  DecodeExtra <- MCDecodeExtra
SPECIFICATION Spec
INVARIANTS
  TypeOK
  NoOverflow
  RoundTrip
PROPERTIES
  Returns
CHECK_DEADLOCK FALSE
