SPECIFICATION Spec
CONSTANTS
  Votes = {v1, v2}
  Loads = {l1, l2}
  Sequential = FALSE
  ApiClient = FALSE
  MaxFaults = 0
  NoCookie = NoCookie
INVARIANT OneBallotPerBrowser
CHECK_DEADLOCK FALSE
