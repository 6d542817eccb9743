SPECIFICATION Spec
CONSTANTS
  Votes = {v1, v2}
  Loads = {}
  Sequential = TRUE
  ApiClient = TRUE
  MaxFaults = 1
  NoCookie = NoCookie
INVARIANT OneBallotPerBrowser
CHECK_DEADLOCK FALSE
