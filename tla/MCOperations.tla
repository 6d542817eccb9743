---------------------------- MODULE MCOperations ----------------------------
(***************************************************************************)
(* For TLC, what runs beside the requests: migrations, expiry and loss of   *)
(* Redis keys, rounds of the snapshot workers, and restarts with other      *)
(* settings.  They share no state; the first state picks the part whose     *)
(* behaviour is explored, the others stay as they start.                    *)
(***************************************************************************)
EXTENDS Migrate, VoteExpiry

CONSTANTS
  Polls,
  Workers, MaxVotes, RoundFaults,     \* SnapshotRound
  ApiPolls, Replicas, Hashes, Sizes, Intervals, NoResult  \* ApiProcess

VARIABLES
  part,
  active, votes, roundSnap, lock, wrk, roundFaults,
  env, proc, poll, gates, marks, result, known, undoing, counts

roundVars == <<active, votes, roundSnap, lock, wrk, roundFaults>>
apiVars == <<env, proc, poll, gates, marks, result, known, undoing, counts>>

vars == <<part, migrateVars, expiryVars, roundVars, apiVars>>

Rounds == INSTANCE SnapshotRound WITH
  MaxFaults <- RoundFaults, snap <- roundSnap, faults <- roundFaults

\* Settings change only while no process runs.
Api == INSTANCE ApiProcess WITH
  Polls <- ApiPolls, Devices <- Hashes, RollingChange <- FALSE

ASSUME PartsAssumption == Rounds!RoundAssumption /\ Api!ApiAssumption

-----------------------------------------------------------------------------
Init ==
  /\ part \in {"migrate", "expiry", "rounds", "api"}
  /\ MigrateInit /\ (part = "migrate" \/ table = "old")
  /\ ExpiryInit /\ Rounds!Init
  /\ Api!Init /\ (part = "api" \/ (env.buckets = 1 /\ env.valid))

NextMigrate == part = "migrate" /\ MigrateNext /\ UNCHANGED <<part, expiryVars, roundVars, apiVars>>
NextExpiry == part = "expiry" /\ ExpiryNext /\ UNCHANGED <<part, migrateVars, roundVars, apiVars>>
NextRound == part = "rounds" /\ Rounds!Next /\ UNCHANGED <<part, migrateVars, expiryVars, apiVars>>
NextApi == part = "api" /\ Api!Next /\ UNCHANGED <<part, migrateVars, expiryVars, roundVars>>

Next == NextMigrate \/ NextExpiry \/ NextRound \/ NextApi

\* The fairness of the rounds is theirs only where rounds are explored.
RoundFairness ==
  /\ \A w \in Workers : WF_roundVars(part = "rounds" /\ Rounds!Round(w))
  /\ \A p \in Polls : WF_roundVars(part = "rounds" /\ Rounds!LockExpire(p))

Spec == Init /\ [][Next]_vars /\ MigrateFairness /\ RoundFairness

-----------------------------------------------------------------------------
\* Every part's variables are well typed.
OperationsTypeOK == MigrateTypeOK /\ ExpiryTypeOK /\ Rounds!RoundTypeOK /\ Api!ApiTypeOK

\* SnapshotRound: a round that got its list tries every poll in it.
RoundReachesEveryPoll == Rounds!RoundReachesEveryPoll

\* SnapshotRound: snapshots catch up with the ballots.
SnapshotsCatchUp == part = "rounds" => Rounds!SnapshotsCatchUp

\* ApiProcess: only publishing again with other buckets splits a device.
OnlyRepublishingSplits == Api!OnlyRepublishingSplits
=============================================================================
