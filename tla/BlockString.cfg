\* The sizes of the code, but for unsigned ints of 8 bits: a root_hash_size that
\* nobody wrote makes the loop long enough to leave root_hash.
CONSTANTS
  HASH_SIZE = 64
  Width = 8
  Sizes <- MCSizes
  Lengths <- MCLengths
  SIZEOF_TIME = 8
  TimeLengths <- MCTimeLengths
SPECIFICATION BSpec
INVARIANTS
  EverythingFreed
  WritesFitBuffer
  TextIsPrefix
  OnlyRootDigitsCut
  ReadsInBounds
