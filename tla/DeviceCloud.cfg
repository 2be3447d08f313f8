SPECIFICATION FairSpec
CONSTANTS
  c1 = c1
  c2 = c2
  NoCred = NoCred
  Creds = {c1}
  QueueLen = 2
  Flashes = 1
  Provisioners = {}
  Keys = {"KEY", "KEY2"}
  Broker = TRUE
  Commands = {}
  Faults = {}
INVARIANTS SubscribePending SessionPending SwitchReported
PROPERTIES ResetEntersConfig PressHandled
