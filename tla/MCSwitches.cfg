SPECIFICATION PageSpec
CONSTANTS
  s1 = s1
  s2 = s2
  virtual = virtual
  pico = pico
  other = other
  System = {s1, s2}
  Mac = {virtual, pico, other}
  Pin = {2, 3}
  DevsOf <- MCDevsOf
  PinsOf <- MCPinsOf
  Name <- MCName
  Batch = 2
INVARIANT SwitchesTrue
PROPERTY PlacesKept
