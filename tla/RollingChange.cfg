SPECIFICATION Spec
CONSTANTS
  Replicas = {r1, r2}
  Polls = {q1}
  Devices = {0, 1}
  Sizes = {1, 2}
  Intervals = {5}
  RollingChange = TRUE
  NoResult = NoResult
INVARIANT ServesWithPollsBuckets
CHECK_DEADLOCK FALSE
