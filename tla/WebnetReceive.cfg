SPECIFICATION Spec
CONSTANTS
  Nil = Nil
  Cells <- MCCells
  BufSize = 48
  PostMax = 64
  Asks <- MCAsks
  UploadUrl <- MCUploadUrl
INVARIANTS TypeOK FilesPaired CompleteIsServed
PROPERTY ImplementsExchange
CHECK_DEADLOCK FALSE
