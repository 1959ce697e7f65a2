SPECIFICATION FairSpec
CONSTANTS
  Sys = {s1, s2}
  Browser = {b1, b2}
  User = {b1}
  Switched = {s1}
  Clicks = 1
  Versions = 2
  Cap = 1
  Faults = 1
  None = None
INVARIANTS ViewsInOrder OnePlace
PROPERTIES LastShows
