SPECIFICATION Spec
CONSTANTS
  Server = {s1}
  Period = 2
  Lag = 0
  DevTimeout = 2
  Check = 3
  MaxSeen = 4
  Retry = 2
  Outages = 0
  Stranger = TRUE
  None = None
INVARIANTS PageStaysUp
