SPECIFICATION FairSpec
CONSTANTS
  Policy = "TruncateTornTail"
  CrashPoints = {"open", "snapshot"}
  WriteCanFail = FALSE
  MaxJournal = 2
  MaxSequence = 6
  MaxPayload = 4
INVARIANTS
  StateIsDurable
  NoDamage
PROPERTIES
  ImplementsDurableLog
  Reopens
CHECK_DEADLOCK FALSE
