SPECIFICATION Spec
CONSTANTS
  Getters = {g1, g2}
  Putters = {p1}
  Closers = {c1}
  TTL = 2
  Patience = 1
  MaxLookupClock = 4
  NoOwner = NoOwner
  TabVotes = {v1, v2}
  TabLoads = {l1, l2}
  TabFaults = 2
  ClientVotes = {v1, v2, v3}
  ClientFaults = 1
  NoCookie = NoCookie
  Replicas = {r1, r2}
  RateRequests <- MCRequests
  NetworkOf <- MCNetworkOf
  Trusted = {"proxy"}
  Limit = 1
  Window = 3
  KeyTTL = 5
  Offsets = {0, 2}
  MaxNow = 6
  MaxRequests = 3
  NoHeader = NoHeader
  Fields = {participants, o1}
  Foreign = foreign
  Buckets = {b1, b2}
  Counters = {1, 4, 7}
  MaxInt = 7
INVARIANTS
  VotePathTypeOK
  LoadsAreCoalesced
  ClosedIsForgotten
  OneBallotPerBrowser
  MetricsAddUp
  LimitHolds
  SumIsExact
PROPERTIES
  StalenessIsBounded
  IsAtomicCache
  EveryGetReturns
CHECK_DEADLOCK FALSE
