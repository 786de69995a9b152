\* Two workers enqueue three messages, four times in all.
SPECIFICATION Spec
CONSTANTS
  Workers = {w1, w2}
  NoJob = nojob
  Messages = {m1, m2, m3}
  MaxEnqueues = 4
  NULL = null
  Wild = wild
SYMMETRY Symmetry
INVARIANTS
  IInv
  Ordered
  Counted
PROPERTY LastWaits
