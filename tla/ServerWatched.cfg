\* A connection that main() does not watch.
SPECIFICATION Spec
CONSTANTS
  Workers = {w1, w2}
  NoJob = nojob
  Clients = {c1, c2}
  Users = {alice, bob}
  Name <- TwoNames
  MaxFd = 5
  Actions = {"08"}
  MaxSent <- TwoEach
  MayDie = {c1, c2}
  NoConn = noconn
  NoEntry = noentry
  NoWorker = noworker
  c1 = c1
  c2 = c2
  c3 = c3
  alice = alice
  bob = bob
INVARIANT AcceptedIsWatched
