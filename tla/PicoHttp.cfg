SPECIFICATION FairSpec
CONSTANTS
  Req = {r1, r2}
  Heap = 3
  Pcbs = 2
  Window = 2
  Pool = 3
  Polls = 2
  Net = {n1, n2}
  Host = {"address", "name"}
  Asserts = FALSE
  Faults = 1
  None = None
INVARIANTS Accounted
PROPERTIES ResultOnce OkIsTrue KeepsNotifying DeafAbroad
