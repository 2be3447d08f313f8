SPECIFICATION Spec
CONSTANTS
  c1 = c1
  c2 = c2
  Conns = {c1, c2}
  Files = {"logo"}
  Requests <- MCRequests
  Faults = {"listen", "nosession", "norequest"}
  MaxStarts = 2
  Nil = Nil
INVARIANTS TypeOK ListSound OneAnswer ContentFollows
PROPERTIES Answered StopTakesEffect
CHECK_DEADLOCK FALSE
