SPECIFICATION Spec
CONSTANTS
  c1 = c1
  c2 = c2
  NoCred = NoCred
  Creds = {c1}
  QueueLen = 1
  Flashes = 1
  Provisioners = {"http"}
  Keys = {"KEY"}
  Broker = TRUE
  Commands = {TRUE}
  Faults = {"nvs_open", "nvs_blob", "softap", "mqtt", "power"}
INVARIANT JoinPending
PROPERTY OnlyResetForgets
