SPECIFICATION FairSpec
CONSTANTS
  u1 = u1
  u2 = u2
  h1 = h1
  h2 = h2
  Conn = {u1, u2}
  Request = {h1, h2}
  Silent = {}
  Faults = {"unix", "http", "accept"}
INVARIANTS
  Drained
PROPERTIES
  UnixAnswered
  StopEnds
CHECK_DEADLOCK FALSE
