SPECIFICATION Spec
CONSTANTS
  Nil = Nil
  Values = {0, 100}
  Colours = {"red"}
  PwmMin = 0
  PwmMax = 255
  FlashCount = 1
  Inputs = {"KEY", "KEY2", "ota"}
  Faults = {"nvs", "power"}
INVARIANTS TypeOK LightIsShown UpdateIsWhole
