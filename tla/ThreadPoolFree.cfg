\* The memory of the pool against the threads that still use it.
SPECIFICATION Spec
CONSTANTS
  Workers = {w1, w2}
  Main = main
  NoThread = nothread
  MaxJobs = 1
  MaxSpurious = 0
INVARIANTS
  FreeAfterExit
