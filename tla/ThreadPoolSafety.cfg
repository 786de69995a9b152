\* Three workers, four jobs, any of them added by another job.
SPECIFICATION Spec
CONSTANTS
  Workers = {w1, w2, w3}
  Main = main
  NoThread = nothread
  MaxJobs = 4
  MaxSpurious = 2
SYMMETRY WorkerSymmetry
INVARIANTS
  TypeOK
  NoStrandedJob
  NoLostWakeup
  JobsConserved
  NoJobAfterFree
  IInv
PROPERTIES
  WaitIsBarrier
  PoolSpec
