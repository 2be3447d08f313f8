SPECIFICATION FairSpec
CONSTANTS
  c1 = c1
  c2 = c2
  NoCred = NoCred
  Creds = {c1, c2}
  QueueLen = 2
  Flashes = 1
  Provisioners = {"http"}
  Keys = {}
  Broker = FALSE
  Commands = {}
  Faults = {"power"}
INVARIANT ConfiguredIsWhole
PROPERTIES SavedIsJoined ServerStops
