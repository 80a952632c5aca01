SPECIFICATION Spec
CONSTANTS
  Policy = "TruncateDamagedTail"
  CrashPoints = {"open", "snapshot", "base"}
  WriteCanFail = TRUE
  MaxJournal = 2
  MaxSequence = 5
  MaxPayload = 4
INVARIANTS
  TypeOK
  AppliedOnceInOrder
CHECK_DEADLOCK FALSE
