CONSTANTS
  nb_stages = 2
  nb_threads = 2
SPECIFICATION Spec
INVARIANTS JoinsAThread
