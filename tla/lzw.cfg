SPECIFICATION Spec
CONSTANTS
  Base = 2
  MaxDict = 5
  Plaintexts <- SmallPlaintexts
  Damaged <- SmallDamaged
INVARIANTS
  TypeOK
  Lossless
  DictionariesInStep
  RoomForCodes
  EntriesLeadBack
  InsideBuffers
CHECK_DEADLOCK FALSE
