SPECIFICATION Spec
CONSTANTS
  c1 = c1
  c2 = c2
  NoCred = NoCred
  Creds = {c1, c2}
  QueueLen = 2
  Flashes = 1
  Provisioners = {"http", "ble"}
  Keys = {}
  Broker = FALSE
  Commands = {}
  Faults = {}
SYMMETRY Symmetry
INVARIANTS TypeOK ModeExclusive StationFollowsConfig FlashFollowsConfig
