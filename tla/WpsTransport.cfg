SPECIFICATION FairSpec
CONSTANTS
  SeqMod = 4
  BufCap = 3
  Mtus = {1, 2}
  Lens = {3}
  CmdLens = {2}
  LinkCap = 2
  MaxSent = 2
  MaxCmds = 2
  MaxQueue = 1
  FastReconnect = FALSE
  Faults = {"dup", "nomem", "crypt"}
INVARIANTS TypeOK PartIsHead ExecutedInOrder
PROPERTIES ImplementsChannel CommandIsExecuted
