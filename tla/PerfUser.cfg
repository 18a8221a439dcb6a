CONSTANTS
  USEC = 3
  HIST = 2
  NSEC = 3
  nr_thread = 2
  ITER_MAIN = 4
  Overheads <- SomeOverheads
  Periods <- SomePeriods
  REPEAT = 3
  Clock = {0, 1, 2, 4}
SPECIFICATION FairSpec
INVARIANTS AtMostOneInterval OwnCounterOnly HandlerUncounted DeltasAddUp
PROPERTIES ExperimentsEnd
