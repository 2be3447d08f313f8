SPECIFICATION FairSpec
CONSTANTS
  c1 = c1
  c2 = c2
  NoCred = NoCred
  Creds = {c1}
  QueueLen = 4
  Flashes = 1
  Provisioners = {"ble"}
  Keys = {"KEY"}
  Broker = FALSE
  Commands = {}
  Faults = {}
PROPERTY SavedIsJoined
