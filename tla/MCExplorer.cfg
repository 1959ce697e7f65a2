SPECIFICATION Spec
CONSTANTS
  Devices = {"m"}
  Pins = {"2", "3"}
  Values = {"1"}
  Partial = {"l", "cmdHeight"}
  Within <- MCWithin
  AnyCase <- MCAnyCase
  SameFirst <- MCSameFirst
  Keys = 3
  Strays = 2
  MaxEdited = 3
  MaxText = 17
  MaxFetches = 2
  MaxTabs = 1
INVARIANTS Filed ScreenCurrent QuotesAgree Guided
CHECK_DEADLOCK FALSE
