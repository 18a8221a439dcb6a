CONSTANTS
  WORK = 3
  FAILURES = 2
SPECIFICATION Spec
INVARIANTS LockedWhileOpen CleanAtExit
PROPERTIES InversionBounded Ends
