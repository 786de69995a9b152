\* Three connections, two descriptors; one client may die, two send. No symmetry.
SPECIFICATION FairSpec
CONSTANTS
  Workers = {w1, w2}
  NoJob = nojob
  Clients = {c1, c2, c3}
  Users = {alice}
  Name <- ThreeAlike
  MaxFd = 5
  Actions = {"02"}
  MaxSent <- TwoOneNone
  MayDie = {c3}
  NoConn = noconn
  NoEntry = noentry
  NoWorker = noworker
  c1 = c1
  c2 = c2
  c3 = c3
  alice = alice
  bob = bob
INVARIANT FdmaxCovers
PROPERTIES
  RoundEnds
  AllReceived
  AllAccepted
