CONSTANTS
  nr_thread = 3
  USEC_PER_SEC = 12
  ALLOC_MAY_FAIL = TRUE
  Usecs = {0, 5, 12}
  MAX_CALLS = 7
  Experiments <- ManyOptions
  Starts = {0, 7}
  LATE = 1
SPECIFICATION UsersSpec
INVARIANTS QuietBetweenCalls BurstEndsByAlarm NoUseAfterFree BurstsCoverDuration
PROPERTIES BurstsOnTime UsersReturn
