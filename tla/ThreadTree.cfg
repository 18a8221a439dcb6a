CONSTANTS
  nb_stages = 3
  nb_threads = 3
SPECIFICATION FairSpec
INVARIANTS StagesInOrder NoUseAfterFree
PROPERTIES Termination
