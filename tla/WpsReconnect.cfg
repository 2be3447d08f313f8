SPECIFICATION FairSpec
CONSTANTS
  SeqMod = 4
  BufCap = 3
  Mtus = {2}
  Lens = {3}
  CmdLens = {1}
  LinkCap = 2
  MaxSent = 2
  MaxCmds = 1
  MaxQueue = 1
  FastReconnect = TRUE
  Faults = {"crc"}
INVARIANT FreshInOrder
PROPERTY AllReceived
