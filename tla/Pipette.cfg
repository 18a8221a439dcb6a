CONSTANTS
  PAGE_SIZE = 2
  PIPE_SIZE = 4
  Sizes = {1, 2, 3, 5}
  Counts = {1, 2, 4}
  FAILURES = 2
SPECIFICATION PipeSpec
INVARIANTS BlocksIntact NeverEndOfFile
PROPERTIES Ends
