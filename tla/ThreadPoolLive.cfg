\* Two workers, two jobs, one pause: liveness, no symmetry.
SPECIFICATION FairPauseSpec
CONSTANTS
  Workers = {w1, w2}
  Main = main
  NoThread = nothread
  MaxJobs = 2
  MaxSpurious = 1
  MaxPauses = 1
INVARIANT PauseTypeOK
PROPERTIES
  JobsRunUnlessHeld
  WaitEndsUnlessHeld
  DestroyEndsUnlessHeld
  ResumeReleases
