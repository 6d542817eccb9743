SPECIFICATION Spec
CONSTANTS
  Migrators = {m1, m2, m3}
  Scripts = 2
  MaxFaults = 2
  NoHolder = NoHolder
  Devices = {d1, d2, d3}
  EndsAt = 3
  Retention = 2
  MaxTTL = 9
  MaxClock = 6
  MaxCrashes = 1
  LateClose = FALSE
  Polls = {q1, q2}
  Workers = {w1, w2}
  MaxVotes = 1
  RoundFaults = 1
  ApiPolls = {q1}
  Replicas = {r1, r2}
  Hashes = {0, 1, 2}
  Sizes = {0, 1, 2}
  Intervals = {5}
  NoResult = NoResult
INVARIANTS
  OperationsTypeOK
  AppliedOnceInOrder
  OnlyFaultsFail
  CountedOnce
  FinalCountsEverybody
  CounterMatchesMarkers
  SyncedSurvives
  RoundReachesEveryPoll
  OnlyRepublishingSplits
PROPERTIES
  MigratesInTheEnd
  SnapshotsCatchUp
CHECK_DEADLOCK FALSE
