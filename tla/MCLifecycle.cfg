SPECIFICATION LifeSpec
CONSTANTS
  Programs = {"integration", "os", "public", "virtual"}
  c1 = c1
  c2 = c2
  Conn = {c1, c2}
INVARIANTS StaysClosed WritesAll
PROPERTIES  Stops
CHECK_DEADLOCK FALSE
