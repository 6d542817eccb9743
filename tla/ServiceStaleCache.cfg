SPECIFICATION Spec
CONSTANTS
  o1 = o1  o2 = o2
  p1 = p1  p2 = p2  c1 = c1  c2 = c2  w1 = w1  w2 = w2
  v1 = v1  v2 = v2  v3 = v3  r1 = r1  r2 = r2
  Options = {o1, o2}
  MaxChoices = 2
  Devices = {0, 1}
  NumBuckets = 2
  Bucket <- MCBucket
  Publishers = {p1}
  Closers = {c1, c2}
  Workers = {w1}
  Votes = {v1, v2}
  DeviceOf <- MCDeviceOf
  Replicas = {r1, r2}
  ReplicaOf <- MCReplicaOf
  MaxFaults = 1
  AdminsOverlap = FALSE
  NoHolder = NoHolder
INVARIANTS
  TypeOK
  FinalIsComplete
PROPERTIES
  NoVoteAfterFinal
SYMMETRY Symmetry
CHECK_DEADLOCK FALSE
