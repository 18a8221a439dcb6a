CONSTANTS
  n = 4
  repeat = 4
SPECIFICATION SchedFairSpec
INVARIANTS RoundRobin NoUseAfterFree
PROPERTIES Termination
