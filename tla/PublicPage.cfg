SPECIFICATION FairSpec
CONSTANTS
  Server = {s1, s2}
  Period = 2
  Lag = 1
  DevTimeout = 2
  Check = 3
  MaxSeen = 6
  Retry = 2
  Outages = 2
  Stranger = FALSE
  None = None
INVARIANTS DetectsSilence
PROPERTIES NoFlicker Reappears
