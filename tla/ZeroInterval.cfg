SPECIFICATION Spec
CONSTANTS
  Replicas = {r1, r2}
  Polls = {q1}
  Devices = {0, 1}
  Sizes = {1}
  Intervals = {0, 5}
  RollingChange = FALSE
  NoResult = NoResult
INVARIANT AcceptedSettingsRun
CHECK_DEADLOCK FALSE
