----------------------------- MODULE StoreProofs ----------------------------
(***************************************************************************)
(* The two stores of a poll are correct for any devices, buckets, options, *)
(* totals and stamps, whatever their callers send and in whatever order:   *)
(* Redis counts what its markers say, and the tables keep final results    *)
(* and closed polls.                                                       *)
(***************************************************************************)
EXTENDS VoteStore, PollStore, FiniteSetTheorems, TLAPS

-----------------------------------------------------------------------------
(* The Redis side: sets of devices grow by one vote.                       *)

\* Any set of marked devices can be counted.
LEMMA MarkedFinite ==
  ASSUME StoreTypeOK, NEW S \in SUBSET dedup
  PROVE  IsFiniteSet(S)
  BY StoreAssumption, FS_Subset DEF StoreTypeOK

\* A counted vote adds its device to its own bucket and to no other.
LEMMA DevicesInGrow ==
  ASSUME StoreTypeOK, NEW d \in Devices, NEW sel \in Selections,
         VoteCounted(d, sel), NEW b \in Buckets
  PROVE  Cardinality(DevicesIn(b))' =
           Cardinality(DevicesIn(b)) + (IF b = Bucket[d] THEN 1 ELSE 0)
<1>1. IsFiniteSet(DevicesIn(b))
  BY MarkedFinite DEF DevicesIn
<1>2. CASE b = Bucket[d]
  <2>1. DevicesIn(b)' = DevicesIn(b) \cup {d}
    BY <1>2 DEF DevicesIn, VoteCounted
  <2>2. d \notin DevicesIn(b)
    BY DEF DevicesIn, VoteCounted
  <2> QED BY <1>1, <1>2, <2>1, <2>2, FS_AddElement
<1>3. CASE b # Bucket[d]
  <2>1. DevicesIn(b)' = DevicesIn(b)
    BY <1>3 DEF DevicesIn, VoteCounted
  <2> QED BY <1>1, <1>3, <2>1, FS_CardinalityType
<1> QED BY <1>2, <1>3

\* It adds its device to those that chose an option exactly when the vote
\* selects the option.
LEMMA ChoosersInGrow ==
  ASSUME StoreTypeOK, NEW d \in Devices, NEW sel \in Selections,
         VoteCounted(d, sel), NEW b \in Buckets, NEW o \in Options
  PROVE  Cardinality(ChoosersIn(b, o))' =
           Cardinality(ChoosersIn(b, o)) + (IF b = Bucket[d] /\ o \in sel THEN 1 ELSE 0)
<1>1. IsFiniteSet(ChoosersIn(b, o))
  BY MarkedFinite DEF ChoosersIn
<1>0. /\ d \notin dedup
      /\ dedup' = dedup \cup {d}
      /\ ballots' = [ballots EXCEPT ![d] = sel]
      /\ dedup \subseteq Devices
      /\ ballots \in [Devices -> SUBSET Options]
  BY DEF VoteCounted, StoreTypeOK
<1>2. CASE b = Bucket[d] /\ o \in sel
  <2>1. ChoosersIn(b, o)' = ChoosersIn(b, o) \cup {d}
    BY <1>0, <1>2 DEF ChoosersIn
  <2>2. d \notin ChoosersIn(b, o)
    BY <1>0 DEF ChoosersIn
  <2> QED BY <1>1, <1>2, <2>1, <2>2, FS_AddElement
<1>3. CASE ~(b = Bucket[d] /\ o \in sel)
  <2>1. ChoosersIn(b, o)' = ChoosersIn(b, o)
    BY <1>0, <1>3 DEF ChoosersIn
  <2> QED BY <1>1, <1>3, <2>1, FS_CardinalityType
<1> QED BY <1>2, <1>3

-----------------------------------------------------------------------------
(* The inductive invariant: the types make the counting lemmas applicable. *)

StoreInv == StoreTypeOK /\ CountsMatchBallots

LEMMA StoreInitInv == StoreInit => StoreInv
<1> SUFFICES ASSUME StoreInit PROVE StoreInv
  OBVIOUS
<1>1. StoreTypeOK
  BY DEF StoreInit, StoreTypeOK, GateValues, NoCounters, Counters
<1>2. \A b \in Buckets : DevicesIn(b) = {} /\ \A o \in Options : ChoosersIn(b, o) = {}
  BY DEF StoreInit, DevicesIn, ChoosersIn
<1>3. CountsMatchBallots
  BY <1>2, FS_EmptySet DEF StoreInit, CountsMatchBallots, NoCounters
<1> QED BY <1>1, <1>3 DEF StoreInv

\* The only step that touches markers, counters and ballots.
LEMMA VoteKeepsInv ==
  ASSUME StoreInv, NEW d \in Devices, NEW sel \in Selections, VoteCounted(d, sel)
  PROVE  StoreInv'
<1> USE DEF StoreInv
<1>0. Bucket[d] \in Buckets
  BY StoreAssumption
<1>1. StoreTypeOK'
  <2>1. gate' \in [Buckets -> GateValues] /\ dedup' \in SUBSET Devices
    BY DEF VoteCounted, StoreTypeOK
  <2>2. ballots' \in [Devices -> SUBSET Options]
    BY DEF VoteCounted, StoreTypeOK, Selections
  <2>3. counts' \in [Buckets -> Counters]
    BY <1>0 DEF VoteCounted, StoreTypeOK, Counters
  <2> QED BY <2>1, <2>2, <2>3 DEF StoreTypeOK
<1>2. ASSUME NEW b \in Buckets
      PROVE  counts'[b].participants = Cardinality(DevicesIn(b))'
  <2>1. counts'[b].participants =
          counts[b].participants + (IF b = Bucket[d] THEN 1 ELSE 0)
    BY <1>0 DEF VoteCounted, StoreTypeOK, Counters
  <2> QED BY <2>1, DevicesInGrow DEF CountsMatchBallots
<1>3. ASSUME NEW b \in Buckets, NEW o \in Options
      PROVE  counts'[b].options[o] = Cardinality(ChoosersIn(b, o))'
  <2>1. counts'[b].options[o] =
          counts[b].options[o] + (IF b = Bucket[d] /\ o \in sel THEN 1 ELSE 0)
    BY <1>0 DEF VoteCounted, StoreTypeOK, Counters
  <2> QED BY <2>1, ChoosersInGrow DEF CountsMatchBallots
<1>4. \A e \in Devices : e \in dedup' <=> ballots'[e] # {}
  BY DEF VoteCounted, StoreTypeOK, CountsMatchBallots, Selections
<1> QED BY <1>1, <1>2, <1>3, <1>4 DEF CountsMatchBallots

LEMMA StoreNextInv == StoreInv /\ [StoreNext]_storeVars => StoreInv'
<1> SUFFICES ASSUME StoreInv, [StoreNext]_storeVars PROVE StoreInv'
  OBVIOUS
<1> USE DEF StoreInv
<1>1. ASSUME UNCHANGED <<dedup, counts, ballots>>, gate' \in [Buckets -> GateValues]
      PROVE  StoreInv'
  BY <1>1 DEF StoreTypeOK, CountsMatchBallots, DevicesIn, ChoosersIn
<1>2. CASE UNCHANGED storeVars
  BY <1>1, <1>2 DEF storeVars, StoreTypeOK
<1>3. ASSUME NEW d \in Devices, VoteNotActive(d) \/ VoteDuplicate(d)
      PROVE  StoreInv'
  BY <1>1, <1>3 DEF VoteNotActive, VoteDuplicate, storeVars, StoreTypeOK
<1>4. ASSUME NEW d \in Devices, NEW sel \in Selections, VoteCounted(d, sel)
      PROVE  StoreInv'
  BY <1>4, VoteKeepsInv
<1>5. ASSUME NEW b \in Buckets, NEW value \in {"active", "closed"}, SetGate(b, value)
      PROVE  StoreInv'
  BY <1>1, <1>5 DEF SetGate, StoreTypeOK, GateValues
<1>6. CASE DeleteGates
  BY <1>1, <1>6 DEF DeleteGates, GateValues
<1> QED BY <1>2, <1>3, <1>4, <1>5, <1>6 DEF StoreNext

-----------------------------------------------------------------------------
\* Every reachable state of the store is well typed.
THEOREM StoreTypeCorrect == StoreSpec => []StoreTypeOK
<1> QED BY StoreInitInv, StoreNextInv, PTL DEF StoreSpec, StoreInv

\* Whatever order votes, gate changes and deletions come in, every counter
\* of every bucket is the number of ballots behind it (vote.lua).
THEOREM CountersCorrect == StoreSpec => []CountsMatchBallots
<1> QED BY StoreInitInv, StoreNextInv, PTL DEF StoreSpec, StoreInv

\* A counted ballot is never replaced or withdrawn: the marker that vote.lua
\* sets with the first ballot turns every later one away.
THEOREM FirstVoteStays == StoreSpec => FirstVoteIsFinal
<1>1. ASSUME StoreInv, [StoreNext]_storeVars, NEW d \in Devices, ballots[d] # {}
      PROVE  ballots'[d] = ballots[d]
  <2>1. d \in dedup
    BY <1>1 DEF StoreInv, CountsMatchBallots
  <2> QED
    BY <1>1, <2>1 DEF StoreInv, StoreTypeOK, StoreNext, storeVars, VoteNotActive,
       VoteDuplicate, VoteCounted, SetGate, DeleteGates
<1>2. StoreInv /\ [StoreNext]_storeVars
        => [\A d \in Devices : ballots[d] # {} => ballots'[d] = ballots[d]]_storeVars
  BY <1>1
<1> QED BY <1>2, StoreInitInv, StoreNextInv, PTL DEF StoreSpec, FirstVoteIsFinal

-----------------------------------------------------------------------------
(* The PostgreSQL side.                                                    *)

TableInv == TableTypeOK /\ OneSnapshot /\ FinalIsClosed

LEMMA TableInitInv == TableInit => TableInv
  BY DEF TableInit, TableInv, TableTypeOK, OneSnapshot, FinalIsClosed, Finalized,
     NoTime, Statuses

\* What a publish or a compensation may do to the polls row.
LEMMA RowStepInv ==
  ASSUME TableInv, UNCHANGED <<header, rows>>,
         poll' \in [status: Statuses, publishedAt: Nat, closedAt: Nat],
         poll.status = "closed" => poll'.status = "closed"
  PROVE  TableInv'
  BY DEF TableInv, TableTypeOK, OneSnapshot, FinalIsClosed, Finalized

\* What SaveSnapshot's upserts do to the result tables.
LEMMA UpsertTypes ==
  ASSUME TableTypeOK, OneSnapshot, NEW t \in Totals, NEW at \in Nat, ~Finalized,
         UpsertHeader(t, at), UpsertRows(t)
  PROVE  /\ header' \in [participants: Nat, capturedAt: Nat, finalizedAt: Nat]
         /\ rows' \in [options: [Options -> Nat], capturedAt: Nat]
         /\ OneSnapshot'
         /\ header'.finalizedAt \in {NoTime, at}
         /\ header'.capturedAt >= header.capturedAt
         /\ rows'.capturedAt >= rows.capturedAt
  BY DEF TableTypeOK, OneSnapshot, UpsertHeader, UpsertRows, Totals, Finalized, NoTime

LEMMA TableNextInv == TableInv /\ [TableNext(StampedTotals, Stamps)]_tableVars => TableInv'
<1> SUFFICES ASSUME TableInv, [TableNext(StampedTotals, Stamps)]_tableVars PROVE TableInv'
  OBVIOUS
<1> USE DEF TableInv
<1>1. CASE UNCHANGED tableVars
  BY <1>1 DEF tableVars, TableTypeOK, OneSnapshot, FinalIsClosed, Finalized
<1>2. CASE PublishAgain \/ KeepFinal
  BY <1>1, <1>2 DEF PublishAgain, KeepFinal
<1>3. ASSUME NEW at \in Stamps, PublishDraft(at)
      PROVE  TableInv'
  BY <1>3, RowStepInv DEF Stamps, PublishDraft, TableTypeOK, Statuses
<1>4. ASSUME NEW at \in Stamps, RevertPublish(at)
      PROVE  TableInv'
  BY <1>4, RowStepInv DEF Stamps, RevertPublish, Revertible, TableTypeOK, Statuses, NoTime
<1>5. ASSUME NEW t \in StampedTotals, WriteLive(t)
      PROVE  TableInv'
  <2>1. t \in Totals
    BY DEF StampedTotals
  <2> QED
    BY <1>5, <2>1, UpsertTypes DEF WriteLive, TableTypeOK, FinalIsClosed, Finalized, NoTime
<1>6. ASSUME NEW t \in StampedTotals, WriteFinal(t)
      PROVE  TableInv'
  <2>1. t \in Totals /\ t.asOf \in Nat
    BY DEF StampedTotals, Totals
  <2>2. poll' \in [status: Statuses, publishedAt: Nat, closedAt: Nat]
    BY <1>6, <2>1 DEF WriteFinal, TableTypeOK, Statuses
  <2>3. poll'.status = "closed"
    BY <1>6 DEF WriteFinal, TableTypeOK
  <2> QED
    BY <1>6, <2>1, <2>2, <2>3, UpsertTypes DEF WriteFinal, TableTypeOK, FinalIsClosed
<1> QED BY <1>1, <1>2, <1>3, <1>4, <1>5, <1>6 DEF TableNext

-----------------------------------------------------------------------------
\* Every reachable state of the tables is well typed.
THEOREM TableTypeCorrect == TableSpec => []TableTypeOK
<1> QED BY TableInitInv, TableNextInv, PTL DEF TableSpec, TableInv

\* Header and option rows always belong to the same snapshot, although their
\* upserts are guarded by different conditions (SaveSnapshot).
THEOREM SnapshotsStayWhole == TableSpec => []OneSnapshot
<1> QED BY TableInitInv, TableNextInv, PTL DEF TableSpec, TableInv

\* A final result exists only for a closed poll.
THEOREM FinalMeansClosed == TableSpec => []FinalIsClosed
<1> QED BY TableInitInv, TableNextInv, PTL DEF TableSpec, TableInv

\* "A final result never changes": no transaction of any caller alters it.
THEOREM FinalStays == TableSpec => FinalNeverChanges
<1>1. TableInv /\ [TableNext(StampedTotals, Stamps)]_tableVars => [Finalized => UNCHANGED <<header, rows>>]_tableVars
  BY DEF TableNext, tableVars, PublishAgain, KeepFinal, PublishDraft, RevertPublish,
     WriteLive, WriteFinal
<1> QED BY <1>1, TableInitInv, TableNextInv, PTL DEF TableSpec, FinalNeverChanges

\* A closed poll is never reopened, by no compensation and no snapshot.
THEOREM ClosedStays == TableSpec => ClosedForGood
<1>1. TableInv /\ [TableNext(StampedTotals, Stamps)]_tableVars
        => [poll.status = "closed" => poll'.status = "closed"]_tableVars
  BY DEF TableInv, TableTypeOK, TableNext, tableVars, PublishAgain, KeepFinal, PublishDraft,
     RevertPublish, Revertible, WriteLive, WriteFinal
<1> QED BY <1>1, TableInitInv, TableNextInv, PTL DEF TableSpec, ClosedForGood

\* Stored snapshots only move forward in their captured_at.
THEOREM CapturedAtGrows == TableSpec => CapturedAtNeverDecreases
<1>1. ASSUME TableInv, [TableNext(StampedTotals, Stamps)]_tableVars
      PROVE  header'.capturedAt >= header.capturedAt /\ rows'.capturedAt >= rows.capturedAt
  <2>1. CASE UNCHANGED <<header, rows>>
    BY <1>1, <2>1 DEF TableInv, TableTypeOK
  <2>2. ASSUME NEW t \in StampedTotals, WriteLive(t) \/ WriteFinal(t)
        PROVE  header'.capturedAt >= header.capturedAt /\ rows'.capturedAt >= rows.capturedAt
    <3>1. t \in Totals /\ t.asOf \in Nat /\ NoTime \in Nat
      BY DEF StampedTotals, Totals, NoTime
    <3> QED BY <1>1, <2>2, <3>1, UpsertTypes DEF TableInv, WriteLive, WriteFinal
  <2> QED
    BY <1>1, <2>1, <2>2 DEF TableNext, tableVars, PublishAgain, KeepFinal, PublishDraft,
       RevertPublish
<1>2. TableInv /\ [TableNext(StampedTotals, Stamps)]_tableVars
        => [header'.capturedAt >= header.capturedAt /\ rows'.capturedAt >= rows.capturedAt]_tableVars
  BY <1>1
<1> QED BY <1>2, TableInitInv, TableNextInv, PTL DEF TableSpec, CapturedAtNeverDecreases
=============================================================================
