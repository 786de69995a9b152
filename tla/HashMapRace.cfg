\* Two names of one chain; one reader without the lock.
SPECIFICATION Spec
CONSTANTS
  Keys = {k1, k2}
  Elements <- OneEach
  Hash <- TwoAlike
  InitialSize = 4
  MaxChain = 2
  Readers = {r}
  Sought = {k1}
  NULL = null
  k1 = k1
  k2 = k2
  k3 = k3
  k4 = k4
  e1 = e1
  e2 = e2
  e3 = e3
INVARIANT GetReturns
