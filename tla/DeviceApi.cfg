SPECIFICATION Spec
CONSTANTS
  Conn = {c1, c2}
  Pin = {2, 3}
  MaxParams = 4
  Leds = {2}
  None = None
INVARIANTS AnswersTrue OwnAnswer Interchangeable
