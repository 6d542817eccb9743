--------------------------- MODULE MCPollService ----------------------------
(***************************************************************************)
(* PollService for TLC: two devices in different buckets, the requests of  *)
(* a run given by its .cfg, and the contract as a property.                *)
(***************************************************************************)
EXTENDS PollService, TLC

CONSTANTS o1, o2, p1, p2, c1, c2, w1, w2, v1, v2, v3, r1, r2

MCBucket == [d \in Devices |-> d % NumBuckets]

\* v1 and v3 come from device 0, v2 from device 1.
MCDeviceOf == [v \in Votes |-> IF v = v2 THEN 1 ELSE 0]

\* Publish requests and v1 are served by r1, the others by the last replica.
MCReplicaOf ==
  [x \in Publishers \cup Closers \cup Votes |->
     IF x \in Publishers \cup {v1} \/ Cardinality(Replicas) = 1 THEN r1 ELSE r2]

\* Requests of a kind on one replica are interchangeable, and so are options.
Symmetry == Permutations(Options) \cup Permutations(Publishers)
              \cup Permutations(Closers) \cup Permutations(Workers)

\* The state a reader of the contract sees.
FinalResult ==
  [participants |-> IF Finalized THEN header.participants ELSE 0,
   options |-> IF Finalized THEN rows.options ELSE [o \in Options |-> 0],
   final |-> Finalized]

Contract == INSTANCE PollContract WITH status <- poll.status, result <- FinalResult

KeepsContract == Contract!ContractSpec
=============================================================================
