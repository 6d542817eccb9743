SPECIFICATION Spec
CONSTANTS
  Polls = {q1}
  Workers = {w1, w2}
  MaxVotes = 1
  MaxFaults = 0
  NoHolder = NoHolder
INVARIANT SuccessMeansSaved
CHECK_DEADLOCK FALSE
