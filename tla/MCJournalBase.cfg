SPECIFICATION Spec
CONSTANTS
  Policy = "TruncateTornTail"
  CrashPoints = {"open", "snapshot", "base"}
  WriteCanFail = FALSE
  MaxJournal = 2
  MaxSequence = 6
  MaxPayload = 4
INVARIANTS
  StateIsDurable
CHECK_DEADLOCK FALSE
