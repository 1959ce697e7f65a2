SPECIFICATION TimerFairSpec
CONSTANTS
  p1 = p1
  v0 = v0
  Mac = {m1}
  KnownMac = {m1}
  Pin = {p1}
  Val = {v0, v1}
  Owner = {"psm"}
  Job = {j1, j2}
  None = None
  Orders <- Raise
  Start <- LowStart
  Budget = 2
  Cost <- OneEach
  Reliable = FALSE
INVARIANTS BlockIsExact CrashNeedsTwoCommands
PROPERTIES CommandsRunOnce RunsEnd
