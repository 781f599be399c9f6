SPECIFICATION Spec
CONSTANTS
  Mask = 3
  MinRun = 3
  Plaintexts <- SmallPlaintexts
  Damaged <- SmallDamaged
INVARIANT
  Lossless
CHECK_DEADLOCK FALSE
