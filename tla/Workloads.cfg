CONSTANTS
  THREADS = 4
  CYCLES = 8
  NUM_PROCESSES = 3
  NUM_SAMPLES = 2
  REP = 2
SPECIFICATION FairSpec
INVARIANTS UncheckedCallsHold NoOrphans OneSlowest
PROPERTIES ProgramsEnd
