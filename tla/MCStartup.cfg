\* Two clients, the service and a daemon that a client starts by itself.
SPECIFICATION FairSpec
CONSTANTS
  Clients = {k1, k2}
  Daemons = {d1, d2}
  ServiceTries = 2
  DetachedTries = 1
  None = None
INVARIANTS OneDaemonUnlessLate ReachableUnlessLost
PROPERTIES ClientsEnd
