-------------------------- MODULE PollServiceProofs -------------------------
(***************************************************************************)
(* Every step of a request is a legal step of the two stores, for any      *)
(* number of requests, replicas, devices, buckets and faults.  What is     *)
(* proved of the stores under arbitrary callers therefore holds of the     *)
(* service, however its requests overlap.                                  *)
(***************************************************************************)
EXTENDS PollService, StoreProofs

-----------------------------------------------------------------------------
(* The strengthening: what a request must have done before it reaches the  *)
(* step that calls a store.                                                *)

\* A vote that is on its way carries a selection that passed validation.
SentIsValid == \A v \in Votes : vot[v].pc = "sent" => vot[v].choice \in Selections

\* Stamps are read before they are used.
StampsTaken ==
  /\ \A p \in Publishers : pub[p].pc # "idle" => pub[p].now # NoTime
  /\ \A c \in Closers : cls[c].pc = "save" => cls[c].totals.asOf # NoTime
  /\ \A w \in Workers : wrk[w].pc = "save" => wrk[w].totals.asOf # NoTime

RequestInv == ServiceTypeOK /\ SentIsValid /\ StampsTaken

ServiceInv == StoreInv /\ TableInv /\ RequestInv

\* What every step does: one call to a store at most, and a sound request.
SoundStep ==
  /\ [StoreNext]_storeVars
  /\ [TableNext(StampedTotals, Stamps)]_tableVars
  /\ RequestInv'

-----------------------------------------------------------------------------
(* Helpers.                                                                *)

LEMMA NextBucket ==
  ASSUME NEW b \in Buckets, b # LastBucket
  PROVE  b + 1 \in Buckets
  BY StoreAssumption DEF Buckets, LastBucket

LEMMA FirstBucket == 0 \in Buckets
  BY StoreAssumption DEF Buckets

LEMMA AddedTotals ==
  ASSUME NEW t \in Totals, NEW c \in Counters
  PROVE  /\ AddCounters(t, c) \in Totals
         /\ AddCounters(t, c).asOf = t.asOf
  BY DEF AddCounters, Totals, Counters

LEMMA StampedTotal ==
  ASSUME NEW t \in Totals, NEW now \in Nat, now # NoTime
  PROVE  /\ [t EXCEPT !.asOf = now] \in Totals
         /\ [t EXCEPT !.asOf = now].asOf # NoTime
  BY DEF Totals

LEMMA EmptyTotals == NoTotals \in Totals /\ NoTotals.asOf = NoTime
  BY DEF NoTotals, Totals, NoTime

-----------------------------------------------------------------------------
(* The steps of a publish.                                                 *)

\* A publish leaves the other requests alone; what remains to show is that
\* its own record, the clock, the cache and the faults stay sound.
LEMMA PublishFrame ==
  ASSUME RequestInv, OnlyPub,
         clock' \in Nat \ {NoTime},
         cache' \in [Replicas -> Statuses \cup {"none"}],
         faults' \in 0..MaxFaults,
         pub' \in [Publishers -> PublishRequests],
         \A p \in Publishers : pub'[p].pc # "idle" => pub'[p].now # NoTime
  PROVE  RequestInv'
  BY DEF RequestInv, ServiceTypeOK, SentIsValid, StampsTaken, OnlyPub

\* A step that replaces one request's record by a sound one.
LEMMA PublishReplaced ==
  ASSUME RequestInv, NEW p \in Publishers, NEW r \in PublishRequests,
         r.pc # "idle" => r.now # NoTime,
         pub' = [pub EXCEPT ![p] = r]
  PROVE  /\ pub' \in [Publishers -> PublishRequests]
         /\ \A q \in Publishers : pub'[q].pc # "idle" => pub'[q].now # NoTime
  BY DEF RequestInv, ServiceTypeOK, StampsTaken

\* A step that only moves its program counter and cursor.
LEMMA PublishMoves ==
  ASSUME RequestInv, NEW p \in Publishers, NEW pc \in PublishStates, NEW b \in Buckets,
         pub[p].pc # "idle",
         pub' \in {[pub EXCEPT ![p].pc = pc], [pub EXCEPT ![p].bucket = b]}
  PROVE  /\ pub' \in [Publishers -> PublishRequests]
         /\ \A q \in Publishers : pub'[q].pc # "idle" => pub'[q].now # NoTime
<1> DEFINE moved == [pub[p] EXCEPT !.pc = pc]
           shifted == [pub[p] EXCEPT !.bucket = b]
<1>1. pub \in [Publishers -> PublishRequests] /\ pub[p].now # NoTime
  BY DEF RequestInv, ServiceTypeOK, StampsTaken
<1>2. /\ moved \in PublishRequests /\ moved.now # NoTime
      /\ shifted \in PublishRequests /\ shifted.now # NoTime
  BY <1>1 DEF PublishRequests
<1>3. pub' \in {[pub EXCEPT ![p] = moved], [pub EXCEPT ![p] = shifted]}
  BY <1>1
<1> HIDE DEF moved, shifted
<1> QED BY <1>2, <1>3, PublishReplaced

LEMMA FaultCounted ==
  ASSUME RequestInv, Fault
  PROVE  faults' \in 0..MaxFaults
  BY ServiceAssumption DEF RequestInv, ServiceTypeOK, Fault

LEMMA ClockRead ==
  ASSUME RequestInv, ReadClock
  PROVE  clock \in Stamps /\ clock' \in Nat \ {NoTime}
  BY DEF RequestInv, ServiceTypeOK, ReadClock, Stamps, NoTime

LEMMA PublishCommitIsSound ==
  ASSUME ServiceInv, NEW p \in Publishers, PublishCommit(p) \/ PublishCommitFault(p)
  PROVE  SoundStep
<1>1. clock \in Stamps /\ clock' \in Nat \ {NoTime}
  BY ClockRead DEF ServiceInv, PublishCommit, PublishCommitFault
<1>2. [TableNext(StampedTotals, Stamps)]_tableVars
  BY <1>1 DEF PublishCommit, PublishCommitFault, TableNext
<1>3. pub' \in [Publishers -> PublishRequests]
      /\ \A q \in Publishers : pub'[q].pc # "idle" => pub'[q].now # NoTime
  <2>1. PICK pc \in {"load", "failed"} : pub' = [pub EXCEPT ![p].pc = pc, ![p].now = clock]
    BY DEF PublishCommit, PublishCommitFault
  <2> DEFINE r == [pub[p] EXCEPT !.pc = pc, !.now = clock]
  <2>2. pub \in [Publishers -> PublishRequests]
    BY DEF ServiceInv, RequestInv, ServiceTypeOK
  <2>3. r \in PublishRequests /\ r.now # NoTime
    BY <1>1, <2>2 DEF PublishRequests, PublishStates, Stamps
  <2>4. pub' = [pub EXCEPT ![p] = r]
    BY <2>1, <2>2
  <2> HIDE DEF r
  <2> QED BY <2>3, <2>4, PublishReplaced DEF ServiceInv
<1>4. faults' \in 0..MaxFaults
  BY FaultCounted DEF ServiceInv, RequestInv, ServiceTypeOK, PublishCommit, PublishCommitFault
<1>5. OnlyPub /\ UNCHANGED <<storeVars, cache>>
  BY DEF PublishCommit, PublishCommitFault
<1>6. RequestInv'
  BY <1>1, <1>3, <1>4, <1>5, PublishFrame DEF ServiceInv, RequestInv, ServiceTypeOK
<1> QED BY <1>2, <1>5, <1>6 DEF SoundStep

LEMMA PublishLoadIsSound ==
  ASSUME ServiceInv, NEW p \in Publishers, PublishLoad(p) \/ PublishLoadFault(p)
  PROVE  SoundStep
<1>1. pub' \in [Publishers -> PublishRequests]
      /\ \A q \in Publishers : pub'[q].pc # "idle" => pub'[q].now # NoTime
  <2>1. /\ pub \in [Publishers -> PublishRequests]
        /\ pub[p].pc # "idle" /\ pub[p].now # NoTime
    BY DEF ServiceInv, RequestInv, ServiceTypeOK, StampsTaken, PublishLoad, PublishLoadFault
  <2>2. CASE PublishLoad(p)
    <3> DEFINE r == [pub[p] EXCEPT !.pc = "gates", !.bucket = 0, !.seen = poll.status,
                                   !.seenAt = poll.publishedAt]
    <3>1. poll.status \in Statuses /\ poll.publishedAt \in Nat
      BY DEF ServiceInv, TableInv, TableTypeOK
    <3>2. r \in PublishRequests /\ r.now # NoTime
      BY <2>1, <3>1, FirstBucket DEF PublishRequests, PublishStates
    <3>3. pub' = [pub EXCEPT ![p] = r]
      BY <2>1, <2>2 DEF PublishLoad
    <3> HIDE DEF r
    <3> QED BY <3>2, <3>3, PublishReplaced DEF ServiceInv
  <2>3. CASE PublishLoadFault(p)
    BY <2>1, <2>3, PublishMoves, FirstBucket DEF PublishLoadFault, PublishStates, ServiceInv
  <2> QED BY <2>2, <2>3
<1>2. faults' \in 0..MaxFaults
  BY FaultCounted DEF ServiceInv, RequestInv, ServiceTypeOK, PublishLoad, PublishLoadFault
<1>3. OnlyPub /\ UNCHANGED <<storeVars, tableVars, clock, cache>>
  BY DEF PublishLoad, PublishLoadFault
<1>4. RequestInv'
  BY <1>1, <1>2, <1>3, PublishFrame DEF ServiceInv, RequestInv, ServiceTypeOK
<1> QED BY <1>3, <1>4 DEF SoundStep

LEMMA PublishGateIsSound ==
  ASSUME ServiceInv, NEW p \in Publishers, PublishGate(p) \/ PublishGateFault(p)
  PROVE  SoundStep
<1>1. pub[p].bucket \in Buckets /\ pub[p].pc = "gates"
  BY DEF ServiceInv, RequestInv, ServiceTypeOK, PublishRequests, PublishGate, PublishGateFault
<1>2. [StoreNext]_storeVars
  BY <1>1 DEF PublishGate, PublishGateFault, StoreNext
<1>3. pub' \in [Publishers -> PublishRequests]
      /\ \A q \in Publishers : pub'[q].pc # "idle" => pub'[q].now # NoTime
  <2>1. CASE PublishGate(p) /\ pub[p].bucket # LastBucket
    BY <1>1, <2>1, PublishMoves, NextBucket DEF PublishGate, PublishStates, ServiceInv
  <2>2. CASE (PublishGate(p) /\ pub[p].bucket = LastBucket) \/ PublishGateFault(p)
    <3>1. \E pc \in {"warm", "revert", "failed"} : pub' = [pub EXCEPT ![p].pc = pc]
      BY <2>2 DEF PublishGate, PublishGateFault
    <3> QED BY <1>1, <3>1, PublishMoves DEF PublishStates, ServiceInv
  <2> QED BY <2>1, <2>2
<1>4. faults' \in 0..MaxFaults
  BY FaultCounted DEF ServiceInv, RequestInv, ServiceTypeOK, PublishGate, PublishGateFault
<1>5. OnlyPub /\ UNCHANGED <<tableVars, clock, cache>>
  BY DEF PublishGate, PublishGateFault
<1>6. RequestInv'
  BY <1>3, <1>4, <1>5, PublishFrame DEF ServiceInv, RequestInv, ServiceTypeOK
<1> QED BY <1>2, <1>5, <1>6 DEF SoundStep

LEMMA PublishWarmIsSound ==
  ASSUME ServiceInv, NEW p \in Publishers, PublishWarm(p)
  PROVE  SoundStep
<1>1. pub' \in [Publishers -> PublishRequests]
      /\ \A q \in Publishers : pub'[q].pc # "idle" => pub'[q].now # NoTime
  BY PublishMoves, FirstBucket DEF PublishWarm, PublishStates, ServiceInv
<1>2. cache' \in [Replicas -> Statuses \cup {"none"}]
  BY DEF PublishWarm, ServiceInv, RequestInv, ServiceTypeOK, PublishRequests
<1>3. OnlyPub /\ UNCHANGED <<storeVars, tableVars, clock, faults>>
  BY DEF PublishWarm
<1>4. RequestInv'
  BY <1>1, <1>2, <1>3, PublishFrame DEF ServiceInv, RequestInv, ServiceTypeOK
<1> QED BY <1>3, <1>4 DEF SoundStep

LEMMA PublishUndoIsSound ==
  ASSUME ServiceInv, NEW p \in Publishers,
         PublishRevert(p) \/ PublishRevertFault(p) \/ PublishDelete(p)
  PROVE  SoundStep
<1>1. pub[p].pc # "idle" /\ pub[p].now \in Stamps
  BY DEF ServiceInv, RequestInv, ServiceTypeOK, StampsTaken, PublishRequests, Stamps,
     PublishRevert, PublishRevertFault, PublishDelete
<1>2. [TableNext(StampedTotals, Stamps)]_tableVars
  BY <1>1 DEF PublishRevert, PublishRevertFault, PublishDelete, TableNext
<1>3. [StoreNext]_storeVars
  BY DEF PublishRevert, PublishRevertFault, PublishDelete, StoreNext
<1>4. pub' \in [Publishers -> PublishRequests]
      /\ \A q \in Publishers : pub'[q].pc # "idle" => pub'[q].now # NoTime
  <2>1. \E pc \in {"delete", "failed"} : pub' = [pub EXCEPT ![p].pc = pc]
    BY DEF PublishRevert, PublishRevertFault, PublishDelete
  <2> QED BY <1>1, <2>1, PublishMoves, FirstBucket DEF PublishStates, ServiceInv
<1>5. faults' \in 0..MaxFaults
  BY FaultCounted DEF ServiceInv, RequestInv, ServiceTypeOK, PublishRevert,
     PublishRevertFault, PublishDelete
<1>6. OnlyPub /\ UNCHANGED <<clock, cache>>
  BY DEF PublishRevert, PublishRevertFault, PublishDelete
<1>7. RequestInv'
  BY <1>4, <1>5, <1>6, PublishFrame DEF ServiceInv, RequestInv, ServiceTypeOK
<1> QED BY <1>2, <1>3, <1>7 DEF SoundStep

LEMMA PublishIsSound ==
  ASSUME ServiceInv, NEW p \in Publishers, PublishStep(p)
  PROVE  SoundStep
  BY PublishCommitIsSound, PublishLoadIsSound, PublishGateIsSound, PublishWarmIsSound,
     PublishUndoIsSound DEF PublishStep

-----------------------------------------------------------------------------
(* The steps of a close.                                                   *)

LEMMA CloseFrame ==
  ASSUME RequestInv, OnlyCls,
         clock' \in Nat \ {NoTime},
         cache' \in [Replicas -> Statuses \cup {"none"}],
         faults' \in 0..MaxFaults,
         cls' \in [Closers -> CloseRequests],
         \A c \in Closers : cls'[c].pc = "save" => cls'[c].totals.asOf # NoTime
  PROVE  RequestInv'
  BY DEF RequestInv, ServiceTypeOK, SentIsValid, StampsTaken, OnlyCls

\* A step that replaces one request's record by a sound one.
LEMMA CloseReplaced ==
  ASSUME RequestInv, NEW c \in Closers, NEW r \in CloseRequests,
         r.pc = "save" => r.totals.asOf # NoTime,
         cls' = [cls EXCEPT ![c] = r]
  PROVE  /\ cls' \in [Closers -> CloseRequests]
         /\ \A k \in Closers : cls'[k].pc = "save" => cls'[k].totals.asOf # NoTime
  BY DEF RequestInv, ServiceTypeOK, StampsTaken

\* A step that only moves its program counter and cursor, but not to the save.
LEMMA CloseMoves ==
  ASSUME RequestInv, NEW c \in Closers, NEW pc \in CloseStates \ {"save"},
         NEW b \in Buckets,
         cls' \in {[cls EXCEPT ![c].pc = pc], [cls EXCEPT ![c].bucket = b],
                   [cls EXCEPT ![c].pc = pc, ![c].bucket = b]}
  PROVE  /\ cls' \in [Closers -> CloseRequests]
         /\ \A k \in Closers : cls'[k].pc = "save" => cls'[k].totals.asOf # NoTime
<1> DEFINE moved == [cls[c] EXCEPT !.pc = pc]
           shifted == [cls[c] EXCEPT !.bucket = b]
           both == [cls[c] EXCEPT !.pc = pc, !.bucket = b]
<1>1. cls \in [Closers -> CloseRequests] /\ (cls[c].pc = "save" => cls[c].totals.asOf # NoTime)
  BY DEF RequestInv, ServiceTypeOK, StampsTaken
<1>2. /\ moved \in CloseRequests /\ moved.pc # "save"
      /\ shifted \in CloseRequests /\ (shifted.pc = "save" => shifted.totals.asOf # NoTime)
      /\ both \in CloseRequests /\ both.pc # "save"
  BY <1>1 DEF CloseRequests
<1>3. cls' \in {[cls EXCEPT ![c] = moved], [cls EXCEPT ![c] = shifted], [cls EXCEPT ![c] = both]}
  BY <1>1
<1> HIDE DEF moved, shifted, both
<1> QED BY <1>2, <1>3, CloseReplaced

LEMMA CloseLoadIsSound ==
  ASSUME ServiceInv, NEW c \in Closers, CloseLoad(c)
  PROVE  SoundStep
<1>1. PICK pc \in {"header", "gates", "failed"} :
        cls' = [cls EXCEPT ![c].pc = pc, ![c].bucket = 0, ![c].totals = NoTotals]
  BY DEF CloseLoad
<1>2. cls' \in [Closers -> CloseRequests]
      /\ \A k \in Closers : cls'[k].pc = "save" => cls'[k].totals.asOf # NoTime
  <2> DEFINE r == [cls[c] EXCEPT !.pc = pc, !.bucket = 0, !.totals = NoTotals]
  <2>1. cls \in [Closers -> CloseRequests]
    BY DEF ServiceInv, RequestInv, ServiceTypeOK
  <2>2. r \in CloseRequests /\ r.pc # "save"
    BY <2>1, FirstBucket, EmptyTotals DEF CloseRequests, CloseStates
  <2>3. cls' = [cls EXCEPT ![c] = r]
    BY <1>1, <2>1
  <2> HIDE DEF r
  <2> QED BY <2>2, <2>3, CloseReplaced DEF ServiceInv
<1>3. OnlyCls /\ UNCHANGED <<storeVars, tableVars, clock, cache, faults>>
  BY DEF CloseLoad
<1>4. RequestInv'
  BY <1>2, <1>3, CloseFrame DEF ServiceInv, RequestInv, ServiceTypeOK
<1> QED BY <1>3, <1>4 DEF SoundStep

LEMMA CloseGateIsSound ==
  ASSUME ServiceInv, NEW c \in Closers, CloseGate(c) \/ CloseGateFault(c)
  PROVE  SoundStep
<1>1. cls[c].bucket \in Buckets
  BY DEF ServiceInv, RequestInv, ServiceTypeOK, CloseRequests
<1>2. [StoreNext]_storeVars
  BY <1>1 DEF CloseGate, CloseGateFault, StoreNext
<1>3. cls' \in [Closers -> CloseRequests]
      /\ \A k \in Closers : cls'[k].pc = "save" => cls'[k].totals.asOf # NoTime
  BY <1>1, CloseMoves, NextBucket, FirstBucket
     DEF CloseGate, CloseGateFault, CloseStates, ServiceInv
<1>4. faults' \in 0..MaxFaults
  BY FaultCounted DEF ServiceInv, RequestInv, ServiceTypeOK, CloseGate, CloseGateFault
<1>5. OnlyCls /\ UNCHANGED <<tableVars, clock, cache>>
  BY DEF CloseGate, CloseGateFault
<1>6. RequestInv'
  BY <1>3, <1>4, <1>5, CloseFrame DEF ServiceInv, RequestInv, ServiceTypeOK
<1> QED BY <1>2, <1>5, <1>6 DEF SoundStep

LEMMA CloseReadIsSound ==
  ASSUME ServiceInv, NEW c \in Closers, CloseRead(c)
  PROVE  SoundStep
<1>1. /\ cls[c] \in CloseRequests
      /\ cls[c].bucket \in Buckets
      /\ cls[c].totals \in Totals
  BY DEF ServiceInv, RequestInv, ServiceTypeOK, CloseRequests
<1>2. counts[cls[c].bucket] \in Counters
  BY <1>1 DEF ServiceInv, StoreInv, StoreTypeOK
<1>3. AddCounters(cls[c].totals, counts[cls[c].bucket]) \in Totals
  BY <1>1, <1>2, AddedTotals
<1>4. PICK t \in Totals, b \in Buckets, pc \in {"read", "stamp"} :
        cls' = [cls EXCEPT ![c].totals = t, ![c].pc = pc, ![c].bucket = b]
  BY <1>1, <1>3, NextBucket DEF CloseRead, ServiceInv, RequestInv, ServiceTypeOK
<1>5. cls' \in [Closers -> CloseRequests]
      /\ \A k \in Closers : cls'[k].pc = "save" => cls'[k].totals.asOf # NoTime
  <2> DEFINE r == [cls[c] EXCEPT !.totals = t, !.pc = pc, !.bucket = b]
  <2>1. cls \in [Closers -> CloseRequests]
    BY DEF ServiceInv, RequestInv, ServiceTypeOK
  <2>2. r \in CloseRequests /\ r.pc # "save"
    BY <2>1 DEF CloseRequests, CloseStates
  <2>3. cls' = [cls EXCEPT ![c] = r]
    BY <1>4, <2>1
  <2> HIDE DEF r
  <2> QED BY <2>2, <2>3, CloseReplaced DEF ServiceInv
<1>6. OnlyCls /\ UNCHANGED <<storeVars, tableVars, clock, cache, faults>>
  BY DEF CloseRead
<1>7. RequestInv'
  BY <1>5, <1>6, CloseFrame DEF ServiceInv, RequestInv, ServiceTypeOK
<1> QED BY <1>6, <1>7 DEF SoundStep

LEMMA CloseStampIsSound ==
  ASSUME ServiceInv, NEW c \in Closers, CloseStamp(c)
  PROVE  SoundStep
<1>1. clock \in Stamps /\ clock' \in Nat \ {NoTime}
  BY ClockRead DEF ServiceInv, CloseStamp
<1> DEFINE t == [cls[c].totals EXCEPT !.asOf = clock]
<1>t. t \in Totals /\ t.asOf # NoTime
  BY <1>1, StampedTotal DEF ServiceInv, RequestInv, ServiceTypeOK, CloseRequests, Stamps
<1>u. cls' = [cls EXCEPT ![c].pc = "save", ![c].totals = t]
  BY DEF CloseStamp, ServiceInv, RequestInv, ServiceTypeOK, CloseRequests, Totals
<1> HIDE DEF t
<1>2. cls' \in [Closers -> CloseRequests]
      /\ \A k \in Closers : cls'[k].pc = "save" => cls'[k].totals.asOf # NoTime
  <2> DEFINE r == [cls[c] EXCEPT !.pc = "save", !.totals = t]
  <2>1. cls \in [Closers -> CloseRequests]
    BY DEF ServiceInv, RequestInv, ServiceTypeOK
  <2>2. r \in CloseRequests /\ r.totals.asOf # NoTime
    BY <1>t, <2>1 DEF CloseRequests, CloseStates
  <2>3. cls' = [cls EXCEPT ![c] = r]
    BY <1>u, <2>1
  <2> HIDE DEF r
  <2> QED BY <2>2, <2>3, CloseReplaced DEF ServiceInv
<1>3. OnlyCls /\ UNCHANGED <<storeVars, tableVars, cache, faults>>
  BY DEF CloseStamp
<1>4. RequestInv'
  BY <1>1, <1>2, <1>3, CloseFrame DEF ServiceInv, RequestInv, ServiceTypeOK
<1> QED BY <1>3, <1>4 DEF SoundStep

LEMMA CloseSaveIsSound ==
  ASSUME ServiceInv, NEW c \in Closers, CloseSave(c) \/ CloseSaveFault(c)
  PROVE  SoundStep
<1>1. cls[c].totals \in StampedTotals
  BY DEF ServiceInv, RequestInv, ServiceTypeOK, StampsTaken, CloseRequests, StampedTotals,
     CloseSave, CloseSaveFault
<1>2. [TableNext(StampedTotals, Stamps)]_tableVars
  BY <1>1 DEF CloseSave, CloseSaveFault, TableNext
<1>3. cls' \in [Closers -> CloseRequests]
      /\ \A k \in Closers : cls'[k].pc = "save" => cls'[k].totals.asOf # NoTime
  BY CloseMoves, FirstBucket DEF CloseSave, CloseSaveFault, CloseStates, ServiceInv
<1>4. faults' \in 0..MaxFaults
  BY FaultCounted DEF ServiceInv, RequestInv, ServiceTypeOK, CloseSave, CloseSaveFault
<1>5. OnlyCls /\ UNCHANGED <<storeVars, clock, cache>>
  BY DEF CloseSave, CloseSaveFault
<1>6. RequestInv'
  BY <1>3, <1>4, <1>5, CloseFrame DEF ServiceInv, RequestInv, ServiceTypeOK
<1> QED BY <1>2, <1>5, <1>6 DEF SoundStep

LEMMA LoadResultIsSound ==
  ASSUME ServiceInv, NEW c \in Closers, LoadHeader(c) \/ LoadRows(c)
  PROVE  SoundStep
<1>1. PICK a \in Answers, pc \in {"rows", "done"} :
        cls' = [cls EXCEPT ![c].pc = pc, ![c].answer = a]
  <2>1. /\ cls[c] \in CloseRequests /\ cls[c].answer \in Answers
        /\ header.participants \in Nat /\ header.finalizedAt \in Nat
        /\ rows.options \in [Options -> Nat]
    BY DEF ServiceInv, RequestInv, ServiceTypeOK, CloseRequests, TableInv, TableTypeOK
  <2>2. CASE LoadHeader(c)
    <3> DEFINE a == [cls[c].answer EXCEPT !.participants = header.participants,
                                          !.finalizedAt = header.finalizedAt]
    <3>1. a \in Answers
      BY <2>1 DEF Answers
    <3>2. cls' = [cls EXCEPT ![c].pc = "rows", ![c].answer = a]
      BY <2>1, <2>2 DEF LoadHeader, ServiceInv, RequestInv, ServiceTypeOK, CloseRequests, Answers
    <3> QED BY <3>1, <3>2
  <2>3. CASE LoadRows(c)
    <3> DEFINE a == [cls[c].answer EXCEPT !.options = rows.options]
    <3>1. a \in Answers
      BY <2>1 DEF Answers
    <3>2. cls' = [cls EXCEPT ![c].pc = "done", ![c].answer = a]
      BY <2>1, <2>3 DEF LoadRows, ServiceInv, RequestInv, ServiceTypeOK, CloseRequests, Answers
    <3> QED BY <3>1, <3>2
  <2> QED BY <2>2, <2>3
<1>2. cls' \in [Closers -> CloseRequests]
      /\ \A k \in Closers : cls'[k].pc = "save" => cls'[k].totals.asOf # NoTime
  <2> DEFINE r == [cls[c] EXCEPT !.pc = pc, !.answer = a]
  <2>1. cls \in [Closers -> CloseRequests]
    BY DEF ServiceInv, RequestInv, ServiceTypeOK
  <2>2. r \in CloseRequests /\ r.pc # "save"
    BY <2>1 DEF CloseRequests, CloseStates
  <2>3. cls' = [cls EXCEPT ![c] = r]
    BY <1>1, <2>1
  <2> HIDE DEF r
  <2> QED BY <2>2, <2>3, CloseReplaced DEF ServiceInv
<1>3. cache' \in [Replicas -> Statuses \cup {"none"}]
  BY DEF LoadHeader, LoadRows, ServiceInv, RequestInv, ServiceTypeOK
<1>4. OnlyCls /\ UNCHANGED <<storeVars, tableVars, clock, faults>>
  BY DEF LoadHeader, LoadRows
<1>5. RequestInv'
  BY <1>2, <1>3, <1>4, CloseFrame DEF ServiceInv, RequestInv, ServiceTypeOK
<1> QED BY <1>4, <1>5 DEF SoundStep

LEMMA CloseReadFaultIsSound ==
  ASSUME ServiceInv, NEW c \in Closers, CloseReadFault(c)
  PROVE  SoundStep
<1>1. cls' \in [Closers -> CloseRequests]
      /\ \A k \in Closers : cls'[k].pc = "save" => cls'[k].totals.asOf # NoTime
  BY CloseMoves, FirstBucket DEF CloseReadFault, CloseStates, ServiceInv
<1>2. faults' \in 0..MaxFaults
  BY FaultCounted DEF ServiceInv, CloseReadFault
<1>3. OnlyCls /\ UNCHANGED <<storeVars, tableVars, clock, cache>>
  BY DEF CloseReadFault
<1>4. RequestInv'
  BY <1>1, <1>2, <1>3, CloseFrame DEF ServiceInv, RequestInv, ServiceTypeOK
<1> QED BY <1>3, <1>4 DEF SoundStep

LEMMA CloseIsSound ==
  ASSUME ServiceInv, NEW c \in Closers, CloseStep(c)
  PROVE  SoundStep
  BY CloseLoadIsSound, CloseGateIsSound, CloseReadIsSound, CloseStampIsSound,
     CloseSaveIsSound, LoadResultIsSound, CloseReadFaultIsSound DEF CloseStep

-----------------------------------------------------------------------------
(* The steps of a snapshot pass and of the lock.                           *)

LEMMA WorkerFrame ==
  ASSUME RequestInv, OnlyWrk,
         clock' \in Nat \ {NoTime},
         lock' \in Workers \cup {NoHolder},
         faults' \in 0..MaxFaults,
         wrk' \in [Workers -> SnapshotPasses],
         \A w \in Workers : wrk'[w].pc = "save" => wrk'[w].totals.asOf # NoTime
  PROVE  RequestInv'
  BY DEF RequestInv, ServiceTypeOK, SentIsValid, StampsTaken, OnlyWrk

\* A step that replaces one pass's record by a sound one.
LEMMA WorkerReplaced ==
  ASSUME RequestInv, NEW w \in Workers, NEW r \in SnapshotPasses,
         r.pc = "save" => r.totals.asOf # NoTime,
         wrk' = [wrk EXCEPT ![w] = r]
  PROVE  /\ wrk' \in [Workers -> SnapshotPasses]
         /\ \A k \in Workers : wrk'[k].pc = "save" => wrk'[k].totals.asOf # NoTime
  BY DEF RequestInv, ServiceTypeOK, StampsTaken

\* A step that only moves its program counter, but not to the save.
LEMMA WorkerMoves ==
  ASSUME RequestInv, NEW w \in Workers, NEW pc \in WorkerStates \ {"save"},
         wrk' = [wrk EXCEPT ![w].pc = pc]
  PROVE  /\ wrk' \in [Workers -> SnapshotPasses]
         /\ \A k \in Workers : wrk'[k].pc = "save" => wrk'[k].totals.asOf # NoTime
  BY DEF RequestInv, ServiceTypeOK, StampsTaken, SnapshotPasses

LEMMA WorkerLockIsSound ==
  ASSUME ServiceInv, NEW w \in Workers,
         WorkerList(w) \/ WorkerLock(w) \/ WorkerLockFault(w) \/ WorkerRelease(w) \/ WorkerCrash(w)
  PROVE  SoundStep
<1>1. wrk' \in [Workers -> SnapshotPasses]
      /\ \A k \in Workers : wrk'[k].pc = "save" => wrk'[k].totals.asOf # NoTime
  BY WorkerMoves DEF WorkerList, WorkerLock, WorkerLockFault, WorkerRelease, WorkerCrash,
     WorkerStates, ServiceInv
<1>2. faults' \in 0..MaxFaults
  BY FaultCounted DEF ServiceInv, RequestInv, ServiceTypeOK, WorkerList, WorkerLock,
     WorkerLockFault, WorkerRelease, WorkerCrash
<1>3. lock' \in Workers \cup {NoHolder}
  BY DEF ServiceInv, RequestInv, ServiceTypeOK, WorkerList, WorkerLock, WorkerLockFault,
     WorkerRelease, WorkerCrash
<1>4. OnlyWrk /\ UNCHANGED <<storeVars, tableVars, clock>>
  BY DEF WorkerList, WorkerLock, WorkerLockFault, WorkerRelease, WorkerCrash
<1>5. RequestInv'
  BY <1>1, <1>2, <1>3, <1>4, WorkerFrame DEF ServiceInv, RequestInv, ServiceTypeOK
<1> QED BY <1>4, <1>5 DEF SoundStep

LEMMA WorkerReadIsSound ==
  ASSUME ServiceInv, NEW w \in Workers, WorkerRead(w)
  PROVE  SoundStep
<1>1. /\ wrk[w] \in SnapshotPasses
      /\ wrk[w].bucket \in Buckets
      /\ wrk[w].totals \in Totals
  BY DEF ServiceInv, RequestInv, ServiceTypeOK, SnapshotPasses
<1>2. counts[wrk[w].bucket] \in Counters
  BY <1>1 DEF ServiceInv, StoreInv, StoreTypeOK
<1>3. AddCounters(wrk[w].totals, counts[wrk[w].bucket]) \in Totals
  BY <1>1, <1>2, AddedTotals
<1>4. PICK t \in Totals, b \in Buckets, pc \in {"read", "stamp"} :
        wrk' = [wrk EXCEPT ![w].totals = t, ![w].pc = pc, ![w].bucket = b]
  BY <1>1, <1>3, NextBucket DEF WorkerRead, ServiceInv, RequestInv, ServiceTypeOK
<1>5. wrk' \in [Workers -> SnapshotPasses]
      /\ \A k \in Workers : wrk'[k].pc = "save" => wrk'[k].totals.asOf # NoTime
  <2> DEFINE r == [wrk[w] EXCEPT !.totals = t, !.pc = pc, !.bucket = b]
  <2>1. wrk \in [Workers -> SnapshotPasses]
    BY DEF ServiceInv, RequestInv, ServiceTypeOK
  <2>2. r \in SnapshotPasses /\ r.pc # "save"
    BY <2>1 DEF SnapshotPasses, WorkerStates
  <2>3. wrk' = [wrk EXCEPT ![w] = r]
    BY <1>4, <2>1
  <2> HIDE DEF r
  <2> QED BY <2>2, <2>3, WorkerReplaced DEF ServiceInv
<1>6. OnlyWrk /\ UNCHANGED <<storeVars, tableVars, clock, lock, faults>>
  BY DEF WorkerRead
<1>7. RequestInv'
  BY <1>5, <1>6, WorkerFrame DEF ServiceInv, RequestInv, ServiceTypeOK
<1> QED BY <1>6, <1>7 DEF SoundStep

LEMMA WorkerStampIsSound ==
  ASSUME ServiceInv, NEW w \in Workers, WorkerStamp(w)
  PROVE  SoundStep
<1>1. clock \in Stamps /\ clock' \in Nat \ {NoTime}
  BY ClockRead DEF ServiceInv, WorkerStamp
<1> DEFINE t == [wrk[w].totals EXCEPT !.asOf = clock]
<1>2. t \in Totals /\ t.asOf # NoTime
  BY <1>1, StampedTotal DEF ServiceInv, RequestInv, ServiceTypeOK, SnapshotPasses, Stamps
<1>3. wrk' = [wrk EXCEPT ![w].pc = "save", ![w].totals = t]
  BY DEF WorkerStamp, ServiceInv, RequestInv, ServiceTypeOK, SnapshotPasses, Totals
<1> HIDE DEF t
<1>4. wrk' \in [Workers -> SnapshotPasses]
      /\ \A k \in Workers : wrk'[k].pc = "save" => wrk'[k].totals.asOf # NoTime
  <2> DEFINE r == [wrk[w] EXCEPT !.pc = "save", !.totals = t]
  <2>1. wrk \in [Workers -> SnapshotPasses]
    BY DEF ServiceInv, RequestInv, ServiceTypeOK
  <2>2. r \in SnapshotPasses /\ r.totals.asOf # NoTime
    BY <1>2, <2>1 DEF SnapshotPasses, WorkerStates
  <2>3. wrk' = [wrk EXCEPT ![w] = r]
    BY <1>3, <2>1
  <2> HIDE DEF r
  <2> QED BY <2>2, <2>3, WorkerReplaced DEF ServiceInv
<1>5. OnlyWrk /\ UNCHANGED <<storeVars, tableVars, lock, faults>>
  BY DEF WorkerStamp
<1>6. RequestInv'
  BY <1>1, <1>4, <1>5, WorkerFrame DEF ServiceInv, RequestInv, ServiceTypeOK
<1> QED BY <1>5, <1>6 DEF SoundStep

LEMMA WorkerSaveIsSound ==
  ASSUME ServiceInv, NEW w \in Workers, WorkerSave(w) \/ WorkerFault(w)
  PROVE  SoundStep
<1>1. wrk[w].pc = "save" => wrk[w].totals \in StampedTotals
  BY DEF ServiceInv, RequestInv, ServiceTypeOK, StampsTaken, SnapshotPasses, StampedTotals
<1>2. [TableNext(StampedTotals, Stamps)]_tableVars
  BY <1>1 DEF WorkerSave, WorkerFault, TableNext
<1>3. wrk' \in [Workers -> SnapshotPasses]
      /\ \A k \in Workers : wrk'[k].pc = "save" => wrk'[k].totals.asOf # NoTime
  BY WorkerMoves DEF WorkerSave, WorkerFault, WorkerStates, ServiceInv
<1>4. faults' \in 0..MaxFaults
  BY FaultCounted DEF ServiceInv, RequestInv, ServiceTypeOK, WorkerSave, WorkerFault
<1>5. OnlyWrk /\ UNCHANGED <<storeVars, clock, lock>>
  BY DEF WorkerSave, WorkerFault
<1>6. RequestInv'
  BY <1>3, <1>4, <1>5, WorkerFrame DEF ServiceInv, RequestInv, ServiceTypeOK
<1> QED BY <1>2, <1>5, <1>6 DEF SoundStep

LEMMA WorkerIsSound ==
  ASSUME ServiceInv, NEW w \in Workers, WorkerStep(w)
  PROVE  SoundStep
  BY WorkerLockIsSound, WorkerReadIsSound, WorkerStampIsSound, WorkerSaveIsSound DEF WorkerStep

-----------------------------------------------------------------------------
(* The steps of a vote and the expiries.                                   *)

LEMMA VoteFrame ==
  ASSUME RequestInv, OnlyVot,
         cache' \in [Replicas -> Statuses \cup {"none"}],
         faults' \in 0..MaxFaults,
         vot' \in [Votes -> VoteRequests],
         \A v \in Votes : vot'[v].pc = "sent" => vot'[v].choice \in Selections
  PROVE  RequestInv'
  BY DEF RequestInv, ServiceTypeOK, SentIsValid, StampsTaken, OnlyVot

LEMMA VoteLoadIsSound ==
  ASSUME ServiceInv, NEW v \in Votes, NEW sel \in Selections, VoteLoad(v, sel)
  PROVE  SoundStep
<1>1. PICK pc \in {"sent", "refused"} : vot' = [vot EXCEPT ![v].choice = sel, ![v].pc = pc]
  BY DEF VoteLoad
<1>2. vot' \in [Votes -> VoteRequests]
      /\ \A u \in Votes : vot'[u].pc = "sent" => vot'[u].choice \in Selections
  <2>1. /\ vot \in [Votes -> VoteRequests]
        /\ \A u \in Votes : vot[u].pc = "sent" => vot[u].choice \in Selections
    BY DEF ServiceInv, RequestInv, ServiceTypeOK, SentIsValid
  <2>2. sel \in SUBSET Options /\ pc \in VoteStates
    BY DEF Selections, VoteStates
  <2>3. vot' \in [Votes -> VoteRequests]
    BY <1>1, <2>1, <2>2 DEF VoteRequests
  <2>4. ASSUME NEW u \in Votes, vot'[u].pc = "sent"
        PROVE  vot'[u].choice \in Selections
    <3>1. CASE u = v
      BY <1>1, <2>1, <3>1 DEF VoteRequests
    <3>2. CASE u # v
      BY <1>1, <2>1, <2>4, <3>2 DEF VoteRequests
    <3> QED BY <3>1, <3>2
  <2> QED BY <2>3, <2>4
<1>3. cache' \in [Replicas -> Statuses \cup {"none"}]
  BY DEF VoteLoad, ServiceInv, RequestInv, ServiceTypeOK, Statuses
<1>4. OnlyVot /\ UNCHANGED <<storeVars, tableVars, faults>>
  BY DEF VoteLoad
<1>5. RequestInv'
  BY <1>2, <1>3, <1>4, VoteFrame DEF ServiceInv, RequestInv, ServiceTypeOK
<1> QED BY <1>4, <1>5 DEF SoundStep

LEMMA VoteRecordIsSound ==
  ASSUME ServiceInv, NEW v \in Votes, VoteRecord(v) \/ VoteFault(v)
  PROVE  SoundStep
<1>1. DeviceOf[v] \in Devices /\ vot[v].choice \in Selections
  BY ServiceAssumption DEF VoteRecord, VoteFault, ServiceInv, RequestInv, SentIsValid
<1>2. [StoreNext]_storeVars
  BY <1>1 DEF VoteRecord, VoteFault, StoreNext
<1>3. PICK pc \in VoteStates : vot' = [vot EXCEPT ![v].pc = pc]
  BY DEF VoteRecord, VoteFault, VoteStates
<1>4. vot' \in [Votes -> VoteRequests]
      /\ \A u \in Votes : vot'[u].pc = "sent" => vot'[u].choice \in Selections
  BY <1>1, <1>3 DEF ServiceInv, RequestInv, ServiceTypeOK, SentIsValid, VoteRequests
<1>5. faults' \in 0..MaxFaults
  BY FaultCounted DEF ServiceInv, RequestInv, ServiceTypeOK, VoteRecord, VoteFault
<1>6. OnlyVot /\ UNCHANGED <<tableVars, cache>>
  BY DEF VoteRecord, VoteFault
<1>7. RequestInv'
  BY <1>4, <1>5, <1>6, VoteFrame DEF ServiceInv, RequestInv, ServiceTypeOK
<1> QED BY <1>2, <1>6, <1>7 DEF SoundStep

LEMMA ExpiryIsSound ==
  ASSUME ServiceInv, LockExpire \/ \E r \in Replicas : CacheExpire(r)
  PROVE  SoundStep
<1>1. UNCHANGED <<storeVars, tableVars>>
  BY DEF LockExpire, CacheExpire
<1>2. RequestInv'
  BY DEF LockExpire, CacheExpire, requests, ServiceInv, RequestInv, ServiceTypeOK,
     SentIsValid, StampsTaken
<1> QED BY <1>1, <1>2 DEF SoundStep

-----------------------------------------------------------------------------
(* Together.                                                               *)

LEMMA ServiceInitInv == Init => ServiceInv
<1> SUFFICES ASSUME Init PROVE ServiceInv
  OBVIOUS
<1>1. StoreInv /\ TableInv
  BY StoreInitInv, TableInitInv DEF Init
<1>2. ServiceTypeOK
  BY FirstBucket, EmptyTotals, ServiceAssumption
     DEF Init, ServiceTypeOK, PublishRequests, CloseRequests, SnapshotPasses, VoteRequests,
     PublishStates, CloseStates, WorkerStates, VoteStates, Statuses, NoTime, Answers, NoAnswer
<1>3. SentIsValid /\ StampsTaken
  BY DEF Init, SentIsValid, StampsTaken
<1> QED BY <1>1, <1>2, <1>3 DEF ServiceInv, RequestInv

LEMMA EveryStepIsSound ==
  ASSUME ServiceInv, [Next]_vars
  PROVE  SoundStep
<1>1. CASE UNCHANGED vars
  <2>1. UNCHANGED <<storeVars, tableVars>>
    BY <1>1 DEF vars
  <2>2. RequestInv'
    BY <1>1 DEF vars, requests, ServiceInv, RequestInv, ServiceTypeOK, SentIsValid, StampsTaken
  <2> QED BY <2>1, <2>2 DEF SoundStep
<1>2. CASE Next
  BY <1>2, PublishIsSound, CloseIsSound, WorkerIsSound, VoteLoadIsSound, VoteRecordIsSound,
     ExpiryIsSound DEF Next, VoteStep
<1> QED BY <1>1, <1>2

LEMMA ServiceNextInv == ServiceInv /\ [Next]_vars => ServiceInv'
  BY EveryStepIsSound, StoreNextInv, TableNextInv DEF ServiceInv, SoundStep

-----------------------------------------------------------------------------
\* Every reachable state of the service is well typed.
THEOREM ServiceTypeCorrect == Spec => []TypeOK
<1>1. ServiceInv => TypeOK
  BY DEF ServiceInv, StoreInv, TableInv, RequestInv, TypeOK
<1> QED BY <1>1, ServiceInitInv, ServiceNextInv, PTL DEF Spec

\* The service uses Redis as VoteStore describes it: every behaviour of the
\* overlapping requests is a behaviour of the store under arbitrary callers.
THEOREM ServiceUsesStore == Spec => StoreSpec
<1>1. Init => StoreInit
  BY DEF Init
<1>2. ServiceInv /\ [Next]_vars => [StoreNext]_storeVars
  BY EveryStepIsSound DEF SoundStep
<1> QED BY <1>1, <1>2, ServiceInitInv, ServiceNextInv, PTL DEF Spec, StoreSpec

\* The service uses the tables as PollStore describes them.
THEOREM ServiceUsesTables == Spec => TableSpec
<1>1. Init => TableInit
  BY DEF Init
<1>2. ServiceInv /\ [Next]_vars => [TableNext(StampedTotals, Stamps)]_tableVars
  BY EveryStepIsSound DEF SoundStep
<1> QED BY <1>1, <1>2, ServiceInitInv, ServiceNextInv, PTL DEF Spec, TableSpec

\* However publish, close, snapshot and vote requests overlap, fail and are
\* repeated: counters equal ballots and a counted ballot stays.
THEOREM ServiceKeepsBallots == Spec => []CountsMatchBallots /\ FirstVoteIsFinal
<1> QED BY ServiceUsesStore, CountersCorrect, FirstVoteStays

\* No request, late compensation, worker pass or repeated close changes a
\* final result or reopens a closed poll.
THEOREM ServiceKeepsFinal == Spec => FinalNeverChanges /\ ClosedForGood
<1> QED BY ServiceUsesTables, FinalStays, ClosedStays
=============================================================================
