SPECIFICATION FairSpec
CONSTANTS
  s1 = s1
  k1 = k1
  Temps = {40, 50}
  Script = {s1, s2}
  Call = {k1, k2}
  Faults = 2
  None = None
CONSTRAINT FirstScript
INVARIANTS OneSocket ResultsAreOwn NoSpuriousTimeout TemperatureTold CommandTells
PROPERTIES CallsSettle LinkRecovers
CHECK_DEADLOCK FALSE
