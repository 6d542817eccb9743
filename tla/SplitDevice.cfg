SPECIFICATION Spec
CONSTANTS
  Replicas = {r1, r2}
  Polls = {q1}
  Devices = {0, 1}
  Sizes = {1, 2}
  Intervals = {5}
  RollingChange = FALSE
  NoResult = NoResult
INVARIANT DevicesCountOnce
CHECK_DEADLOCK FALSE
