\* Three blocks of four bytes in, three blocks out, cut in every way.
CONSTANTS
  BlockSize = 4
  MaxMessage = 12
  MaxOutput = 12
SPECIFICATION Spec
INVARIANTS
  AbsorbsMessage
  AbsorbsPaddedMessage
  SqueezesStream
