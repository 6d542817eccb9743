SPECIFICATION ExpirySpec
CONSTANTS
  Devices = {d1}
  EndsAt = 3
  Retention = 2
  MaxTTL = 9
  MaxClock = 6
  MaxCrashes = 1
  LateClose = FALSE
PROPERTY SnapshotNeverLoses
CHECK_DEADLOCK FALSE
