SPECIFICATION Spec
CONSTANTS
  Polls = {p1}
  Slots = {s1}
  MaxVotes = 1
  Nothing = Nothing
  Ids = {0, 1}
  SlugOf <- OwnSlugs
  Inputs <- NarrowInputs
  MaxOptions = 3
  MaxClock = 1
  MaxFaults = 1
INVARIANT UnavailableIsAFault
CHECK_DEADLOCK FALSE
