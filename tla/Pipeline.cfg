CONSTANTS
  QUEUE_LENGTH = 4
  MAX_ITEMS = 10
SPECIFICATION FairSpec
INVARIANTS NoSlotRace InOrder DrainedAtExit
PROPERTIES ImplementsStages Termination
