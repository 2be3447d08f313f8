SPECIFICATION Spec
CONSTANTS
  c1 = c1
  c2 = c2
  Conns = {c1, c2}
  Files = {"logo", "index"}
  Requests <- MCRequests
  Faults = {}
  MaxStarts = 1
  Nil = Nil
INVARIANT ContentIsAnnounced
CHECK_DEADLOCK FALSE
