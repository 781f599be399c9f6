SPECIFICATION Spec
CONSTANTS
  Byte = {0, 1, 2, 3, 4}
  SmallFile = 3
  MaxLength = 3
  ByteBits = 3
  Plaintexts <- SmallPlaintexts
  Damaged <- SmallDamaged
INVARIANTS
  TypeOK
  LosslessUnlessOneSymbol
  CodesAreAPrefixCode
  ShortestCode
  InsideBuffer
CHECK_DEADLOCK FALSE
