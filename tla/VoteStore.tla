----------------------------- MODULE VoteStore ------------------------------
(***************************************************************************)
(* The Redis side of one poll (internal/redisstore): a lifecycle gate, the *)
(* dedup markers and the counter hash of every bucket, and the commands    *)
(* that touch them.  Redis runs commands and scripts one at a time, so     *)
(* each action is one command.  A pipeline over the buckets is a sequence  *)
(* of such commands, interleaved with those of other clients; the modules  *)
(* that use this one decide who sends what.                                *)
(*                                                                         *)
(* No TTL expires here: the model covers the time until                    *)
(* ends_at + REDIS_RETENTION of a poll shorter than MAX_REDIS_TTL.         *)
(***************************************************************************)
EXTENDS PollDomain

CONSTANTS
  Devices,     \* device hashes that vote in this poll
  NumBuckets,  \* VOTE_BUCKETS, the same on every replica
  Bucket       \* the deterministic device-to-bucket function

Buckets == 0..(NumBuckets - 1)

ASSUME StoreAssumption ==
  /\ IsFiniteSet(Devices)
  /\ NumBuckets \in Nat \ {0}
  /\ Bucket \in [Devices -> Buckets]

VARIABLES
  gate,     \* poll-gate:{poll:b} by bucket, "absent" when there is no key
  dedup,    \* the devices whose poll-dedup marker exists
  counts,   \* poll-counts:{poll:b} by bucket
  ballots   \* history: the selection counted for a device, {} before it votes

storeVars == <<gate, dedup, counts, ballots>>

GateValues == {"absent", "active", "closed"}

StoreTypeOK ==
  /\ gate \in [Buckets -> GateValues]
  /\ dedup \in SUBSET Devices
  /\ counts \in [Buckets -> Counters]
  /\ ballots \in [Devices -> SUBSET Options]

StoreInit ==
  /\ gate = [b \in Buckets |-> "absent"]
  /\ dedup = {}
  /\ counts = [b \in Buckets |-> NoCounters]
  /\ ballots = [d \in Devices |-> {}]

-----------------------------------------------------------------------------
(* vote.lua: the three return values of the script.                        *)

\* -1: the bucket's gate is missing or not 'active'.
VoteNotActive(d) ==
  /\ gate[Bucket[d]] # "active"
  /\ UNCHANGED storeVars

\* Mutant: the participant is counted before the SET NX is tried.
VoteDuplicateCounted(d) ==
  /\ gate[Bucket[d]] = "active"
  /\ d \in dedup
  /\ counts' = [counts EXCEPT ![Bucket[d]].participants = @ + 1]
  /\ UNCHANGED <<gate, dedup, ballots>>

\* 0: the SET NX found the marker of an earlier vote.
VoteDuplicate(d) ==
  /\ gate[Bucket[d]] = "active"
  /\ d \in dedup
  /\ UNCHANGED storeVars

\* Mutant: SET without NX, so every call counts and the last one stands.
VoteCountedAlways(d, sel) ==
  LET b == Bucket[d] IN
  /\ gate[b] = "active"
  /\ dedup' = dedup \cup {d}
  /\ counts' = [counts EXCEPT ![b] =
       [participants |-> counts[b].participants + 1,
        options |-> [o \in Options |->
                      counts[b].options[o] + (IF o \in sel THEN 1 ELSE 0)]]]
  /\ ballots' = [ballots EXCEPT ![d] = sel]
  /\ UNCHANGED gate

\* Mutant: the gate is trusted to the caller and not looked at.
VoteCountedUngated(d, sel) ==
  LET b == Bucket[d] IN
  /\ d \notin dedup
  /\ dedup' = dedup \cup {d}
  /\ counts' = [counts EXCEPT ![b] =
       [participants |-> counts[b].participants + 1,
        options |-> [o \in Options |->
                      counts[b].options[o] + (IF o \in sel THEN 1 ELSE 0)]]]
  /\ ballots' = [ballots EXCEPT ![d] = sel]
  /\ UNCHANGED gate

\* 1: marker, participant and every selected option, in one script.
VoteCounted(d, sel) ==
  LET b == Bucket[d] IN
  /\ gate[b] = "active"
  /\ d \notin dedup
  /\ dedup' = dedup \cup {d}
  /\ counts' = [counts EXCEPT ![b] =
       [participants |-> counts[b].participants + 1,
        options |-> [o \in Options |->
                      counts[b].options[o] + (IF o \in sel THEN 1 ELSE 0)]]]
  /\ ballots' = [ballots EXCEPT ![d] = sel]
  /\ UNCHANGED gate

-----------------------------------------------------------------------------
(* Gate commands of SetupGates, CloseGates and DeleteGates.                *)

\* Mutant: the gate is given a word that vote.lua does not look for.
SetGateMisspelt(b, value) ==
  /\ gate' = [gate EXCEPT ![b] = IF value = "active" THEN "open" ELSE value]
  /\ UNCHANGED <<dedup, counts, ballots>>

SetGate(b, value) ==
  /\ gate' = [gate EXCEPT ![b] = value]
  /\ UNCHANGED <<dedup, counts, ballots>>

\* One DEL command with the keys of every bucket.
DeleteGates ==
  /\ gate' = [b \in Buckets |-> "absent"]
  /\ UNCHANGED <<dedup, counts, ballots>>

-----------------------------------------------------------------------------
(* The store under arbitrary callers.                                      *)

StoreNext ==
  \/ \E d \in Devices : VoteNotActive(d) \/ VoteDuplicate(d)
  \/ \E d \in Devices, sel \in Selections : VoteCounted(d, sel)
  \/ \E b \in Buckets, value \in {"active", "closed"} : SetGate(b, value)
  \/ DeleteGates

StoreSpec == StoreInit /\ [][StoreNext]_storeVars

-----------------------------------------------------------------------------
DevicesIn(b) == {d \in dedup : Bucket[d] = b}

ChoosersIn(b, o) == {d \in dedup : Bucket[d] = b /\ o \in ballots[d]}

\* Every counter of every bucket equals the number of ballots behind it: the
\* participant count the devices of the bucket, an option's count those of
\* them that chose it, and only marked devices have a ballot.  It is about
\* vote.lua: marker and increments happen together or not at all, whatever
\* the gates do in between.
CountsMatchBallots ==
  /\ \A b \in Buckets :
       /\ counts[b].participants = Cardinality(DevicesIn(b))
       /\ \A o \in Options : counts[b].options[o] = Cardinality(ChoosersIn(b, o))
  /\ \A d \in Devices : d \in dedup <=> ballots[d] # {}

\* "The first valid vote by a device is final": no sequence of votes, gate
\* closings, deletions and re-openings replaces or withdraws a counted ballot.
FirstVoteIsFinal ==
  [][\A d \in Devices : ballots[d] # {} => ballots'[d] = ballots[d]]_storeVars
=============================================================================
