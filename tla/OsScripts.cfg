SPECIFICATION FairSpec
CONSTANTS
  Job = {j1, j2}
  SSID = {home, away, work}
  Default = home
  Pass = {p1, p2}
  Sudo = {"right", "wrong", "unset"}
  Runs = 2
  Kills = 1
  MaxName = 3
  None = None
  Torn = Torn
INVARIANT ScanAligned
PROPERTIES DefaultKept NothingLost RunsFinish
CHECK_DEADLOCK FALSE
