SPECIFICATION ViewFairSpec
CONSTANTS
  p1 = p1
  v0 = v0
  Mac = {m1}
  KnownMac = {m1}
  Pin = {p1, p2}
  Val = {v0, v1}
  Owner = {"homepage"}
  Job = {j1, j2}
  None = None
  Orders <- FirstPin
  Start <- LowStart
  Budget = 3
  Cost <- Commands
  Reliable = TRUE
PROPERTIES ViewConverges
