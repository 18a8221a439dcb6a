CONSTANTS
  Options <- ManyOptions
  MAX_FAILURES = 3
SPECIFICATION Spec
INVARIANTS TracedAsAsked SessionsAtEnd 
