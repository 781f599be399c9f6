SPECIFICATION Spec
CONSTANTS
  Mask = 3
  MinRun = 3
  Plaintexts <- SmallPlaintexts
  Damaged <- SmallDamaged
INVARIANTS
  TypeOK
  LosslessUnlessShortRemainder
  RoomForEverything
  PassesAgree
CHECK_DEADLOCK FALSE
