\* Two users who leave with 02 only.
SPECIFICATION Spec
CONSTANTS
  Workers = {w1, w2}
  NoJob = nojob
  Clients = {c1, c2}
  Users = {alice, bob}
  Name <- TwoNames
  MaxFd = 5
  Actions = {"02", "03", "04", "06", "08"}
  MaxSent <- TwoEach
  MayDie = {}
  NoConn = noconn
  NoEntry = noentry
  NoWorker = noworker
  c1 = c1
  c2 = c2
  c3 = c3
  alice = alice
  bob = bob
SYMMETRY WorkerSymmetry
INVARIANT ReachesTheNamed
PROPERTY ListsConnected
