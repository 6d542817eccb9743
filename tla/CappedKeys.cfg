SPECIFICATION ExpirySpec
CONSTANTS
  Devices = {d1}
  EndsAt = 4
  Retention = 2
  MaxTTL = 2
  MaxClock = 6
  MaxCrashes = 0
  LateClose = FALSE
INVARIANT CountedOnce
CHECK_DEADLOCK FALSE
