-------------------------- MODULE PollAnswerProofs --------------------------
(***************************************************************************)
(* What the service stores and answers is right however its requests       *)
(* overlap: snapshots are tallies of counted ballots, votes and closes are *)
(* answered with what is stored, and no compensation undoes the success of *)
(* another publish.  For any number of requests, replicas and faults.      *)
(***************************************************************************)
EXTENDS PollServiceProofs

-----------------------------------------------------------------------------
(* Tallies.  B are the ballots, D the marked devices; both are parameters  *)
(* because a reader's tally outlives the state it was read in.             *)

\* The counters t are the tally of the ballots of S.
IsTally(B, t, S) ==
  /\ t.participants = Cardinality(S)
  /\ \A o \in Options : t.options[o] = Cardinality({d \in S : o \in B[d]})

\* t is the tally of some of the devices of D.
TallyWithin(B, t, D) == \E S \in SUBSET D : IsTally(B, t, S)

\* The devices in the buckets before b.
Before(D, b) == {d \in D : Bucket[d] < b}

\* A request that passes over the buckets holds the tally of devices in the
\* buckets it has passed, and in the end of devices of all of them.
SoundReader(r, D, B) ==
  /\ r.pc \in {"idle", "lock", "gates"} => r.totals = NoTotals
  /\ r.pc \in {"idle", "lock"} => r.bucket = 0
  /\ r.pc = "read" => TallyWithin(B, r.totals, Before(D, r.bucket))
  /\ r.pc \in {"stamp", "save"} => TallyWithin(B, r.totals, D)

LEMMA EmptyTally ==
  ASSUME NEW B, NEW D
  PROVE  IsTally(B, NoTotals, {}) /\ TallyWithin(B, NoTotals, D)
<1>1. \A o \in Options : {d \in {} : o \in B[d]} = {}
  OBVIOUS
<1>2. IsTally(B, NoTotals, {})
  BY <1>1, FS_EmptySet DEF IsTally, NoTotals
<1> QED BY <1>2 DEF TallyWithin

\* A tally stays one while devices are added and their ballots stay.
LEMMA TallyStays ==
  ASSUME NEW B, NEW C, NEW D, NEW E, D \subseteq E, \A d \in D : C[d] = B[d],
         NEW t, TallyWithin(B, t, D)
  PROVE  TallyWithin(C, t, E)
<1>1. PICK S \in SUBSET D : IsTally(B, t, S)
  BY DEF TallyWithin
<1>2. \A o \in Options : {d \in S : o \in C[d]} = {d \in S : o \in B[d]}
  OBVIOUS
<1>3. IsTally(C, t, S)
  BY <1>1, <1>2 DEF IsTally
<1> QED BY <1>3 DEF TallyWithin

LEMMA SoundReaderStays ==
  ASSUME NEW B, NEW C, NEW D, NEW E, D \subseteq E, \A d \in D : C[d] = B[d],
         NEW r, SoundReader(r, D, B)
  PROVE  SoundReader(r, E, C)
<1>1. ASSUME r.pc = "read"
      PROVE  TallyWithin(C, r.totals, Before(E, r.bucket))
  <2>1. /\ Before(D, r.bucket) \subseteq Before(E, r.bucket)
        /\ \A d \in Before(D, r.bucket) : C[d] = B[d]
    BY DEF Before
  <2>2. TallyWithin(B, r.totals, Before(D, r.bucket))
    BY <1>1 DEF SoundReader
  <2> QED BY <2>1, <2>2, TallyStays
<1>2. ASSUME r.pc \in {"stamp", "save"}
      PROVE  TallyWithin(C, r.totals, E)
  BY <1>2, TallyStays DEF SoundReader
<1> QED BY <1>1, <1>2 DEF SoundReader

LEMMA DisjointUnion ==
  ASSUME NEW S, IsFiniteSet(S), NEW T, IsFiniteSet(T), S \cap T = {}
  PROVE  Cardinality(S \cup T) = Cardinality(S) + Cardinality(T)
<1>1. /\ Cardinality(S) \in Nat /\ Cardinality(T) \in Nat
      /\ Cardinality(S \cap T) = 0
  BY FS_EmptySet, FS_CardinalityType
<1>2. Cardinality(S \cup T) = Cardinality(S) + Cardinality(T) - Cardinality(S \cap T)
  BY FS_Union
<1> QED BY <1>1, <1>2

\* Reading a bucket adds the tally of the bucket's devices.
LEMMA BucketRead ==
  ASSUME StoreInv, NEW b \in Buckets, NEW t \in Totals,
         NEW S \in SUBSET Before(dedup, b), IsTally(ballots, t, S)
  PROVE  IsTally(ballots, AddCounters(t, counts[b]), S \cup DevicesIn(b))
<1> DEFINE T == DevicesIn(b)
<1>1. /\ IsFiniteSet(S) /\ IsFiniteSet(T) /\ S \cap T = {}
      /\ counts[b].participants = Cardinality(T)
      /\ counts[b] \in Counters
  <2>1. S \subseteq dedup /\ T \subseteq dedup
    BY DEF Before, DevicesIn
  <2>2. S \cap T = {}
    BY StoreAssumption DEF Before, DevicesIn, Buckets, StoreInv, StoreTypeOK
  <2> QED
    BY <2>1, <2>2, MarkedFinite DEF StoreInv, StoreTypeOK, CountsMatchBallots
<1>2. Cardinality(S \cup T) = Cardinality(S) + Cardinality(T)
  BY <1>1, DisjointUnion
<1>3. ASSUME NEW o \in Options
      PROVE  Cardinality({d \in S \cup T : o \in ballots[d]})
               = t.options[o] + counts[b].options[o]
  <2> DEFINE U == {d \in S : o \in ballots[d]}
             V == ChoosersIn(b, o)
  <2>1. {d \in S \cup T : o \in ballots[d]} = U \cup V
    BY DEF ChoosersIn, DevicesIn
  <2>2. IsFiniteSet(U) /\ IsFiniteSet(V) /\ U \cap V = {}
    <3>1. U \subseteq S /\ V \subseteq T
      BY DEF ChoosersIn, DevicesIn
    <3> QED BY <1>1, <3>1, FS_Subset
  <2>3. Cardinality(U \cup V) = Cardinality(U) + Cardinality(V)
    BY <2>2, DisjointUnion
  <2>4. t.options[o] = Cardinality(U) /\ counts[b].options[o] = Cardinality(V)
    BY DEF IsTally, StoreInv, CountsMatchBallots
  <2> QED BY <2>1, <2>3, <2>4
<1>4. AddCounters(t, counts[b]).participants = t.participants + counts[b].participants
  BY DEF AddCounters
<1>5. \A o \in Options :
        AddCounters(t, counts[b]).options[o] = t.options[o] + counts[b].options[o]
  BY DEF AddCounters
<1> QED BY <1>1, <1>2, <1>3, <1>4, <1>5 DEF IsTally

\* What a reader has passed after one more bucket.
LEMMA PassedBuckets ==
  ASSUME StoreInv, NEW b \in Buckets
  PROVE  /\ Before(dedup, b) \cup DevicesIn(b) = Before(dedup, b + 1)
         /\ Before(dedup, 0) = {}
         /\ b = LastBucket => Before(dedup, b + 1) = dedup
<1>1. \A d \in dedup : Bucket[d] \in 0..(NumBuckets - 1)
  BY StoreAssumption DEF StoreInv, StoreTypeOK, Buckets
<1> QED BY <1>1, StoreAssumption DEF Before, DevicesIn, Buckets, LastBucket

LEMMA PassBucket ==
  ASSUME StoreInv, NEW b \in Buckets, NEW t \in Totals,
         TallyWithin(ballots, t, Before(dedup, b))
  PROVE  /\ TallyWithin(ballots, AddCounters(t, counts[b]), Before(dedup, b + 1))
         /\ b = LastBucket => TallyWithin(ballots, AddCounters(t, counts[b]), dedup)
<1>1. PICK S \in SUBSET Before(dedup, b) : IsTally(ballots, t, S)
  BY DEF TallyWithin
<1>2. IsTally(ballots, AddCounters(t, counts[b]), S \cup DevicesIn(b))
  BY <1>1, BucketRead
<1>3. S \cup DevicesIn(b) \subseteq Before(dedup, b + 1)
  BY PassedBuckets
<1> QED BY <1>2, <1>3, PassedBuckets DEF TallyWithin

\* The time of a tally says nothing about what it counts.
LEMMA StampedTally ==
  ASSUME NEW t \in Totals, NEW B, NEW D, NEW now
  PROVE  /\ IsTally(B, t, D) => IsTally(B, [t EXCEPT !.asOf = now], D)
         /\ TallyWithin(B, t, D) => TallyWithin(B, [t EXCEPT !.asOf = now], D)
  BY DEF Totals, TallyWithin, IsTally

-----------------------------------------------------------------------------
(* Who changes what.                                                       *)

\* Marked devices stay marked and their ballots stay as they are.
LEMMA BallotsGrow ==
  ASSUME StoreInv, [StoreNext]_storeVars
  PROVE  dedup \subseteq dedup' /\ \A d \in dedup : ballots'[d] = ballots[d]
  BY DEF StoreInv, StoreTypeOK, StoreNext, storeVars, VoteNotActive, VoteDuplicate,
     VoteCounted, SetGate, DeleteGates

\* Ballots and markers are changed by votes only.
LEMMA BallotsUntouched ==
  ASSUME [Next]_vars, ~(\E v \in Votes : VoteStep(v))
  PROVE  UNCHANGED <<dedup, counts, ballots, vot>>
<1>1. ASSUME NEW p \in Publishers, PublishStep(p)
      PROVE  UNCHANGED <<dedup, counts, ballots, vot>>
  BY <1>1 DEF PublishStep, PublishCommit, PublishCommitFault, PublishLoad, PublishLoadFault,
     PublishGate, PublishGateFault, PublishWarm, PublishRevert, PublishRevertFault,
     PublishDelete, OnlyPub, storeVars, SetGate, DeleteGates
<1>2. ASSUME NEW c \in Closers, CloseStep(c)
      PROVE  UNCHANGED <<dedup, counts, ballots, vot>>
  BY <1>2 DEF CloseStep, CloseLoad, CloseGate, CloseGateFault, CloseRead, CloseStamp,
     CloseSave, CloseSaveFault, LoadHeader, LoadRows, CloseReadFault, OnlyCls, storeVars,
     SetGate
<1>3. ASSUME NEW w \in Workers, WorkerStep(w)
      PROVE  UNCHANGED <<dedup, counts, ballots, vot>>
  BY <1>3 DEF WorkerStep, WorkerList, WorkerLock, WorkerLockFault, WorkerRead, WorkerStamp,
     WorkerSave, WorkerFault, WorkerRelease, WorkerCrash, OnlyWrk, storeVars
<1>4. ASSUME LockExpire \/ (\E r \in Replicas : CacheExpire(r)) \/ UNCHANGED vars
      PROVE  UNCHANGED <<dedup, counts, ballots, vot>>
  BY <1>4 DEF LockExpire, CacheExpire, vars, requests, storeVars
<1> QED BY <1>1, <1>2, <1>3, <1>4 DEF Next

\* A close request is moved by its own steps only, and those change no
\* other request.
LEMMA OneCloseMoves ==
  ASSUME ServiceInv, [Next]_vars, NEW c \in Closers
  PROVE  cls'[c] = cls[c] \/ CloseStep(c)
<1>1. ASSUME NEW k \in Closers, k # c, CloseStep(k)
      PROVE  cls'[c] = cls[c]
  BY <1>1 DEF ServiceInv, RequestInv, ServiceTypeOK, CloseStep, CloseLoad, CloseGate,
     CloseGateFault, CloseRead, CloseStamp, CloseSave, CloseSaveFault, LoadHeader, LoadRows,
     CloseReadFault
<1>2. ASSUME ~(\E k \in Closers : CloseStep(k))
      PROVE  UNCHANGED cls
  <2>1. ASSUME NEW p \in Publishers, PublishStep(p) PROVE UNCHANGED cls
    BY <2>1 DEF PublishStep, PublishCommit, PublishCommitFault, PublishLoad,
       PublishLoadFault, PublishGate, PublishGateFault, PublishWarm, PublishRevert,
       PublishRevertFault, PublishDelete, OnlyPub
  <2>2. ASSUME NEW w \in Workers, WorkerStep(w) PROVE UNCHANGED cls
    BY <2>2 DEF WorkerStep, WorkerList, WorkerLock, WorkerLockFault, WorkerRead,
       WorkerStamp, WorkerSave, WorkerFault, WorkerRelease, WorkerCrash, OnlyWrk
  <2>3. ASSUME NEW v \in Votes, VoteStep(v) PROVE UNCHANGED cls
    BY <2>3 DEF VoteStep, VoteLoad, VoteRecord, VoteFault, OnlyVot
  <2>4. LockExpire \/ (\E r \in Replicas : CacheExpire(r)) \/ UNCHANGED vars => UNCHANGED cls
    BY DEF LockExpire, CacheExpire, vars, requests
  <2> QED BY <1>2, <2>1, <2>2, <2>3, <2>4 DEF Next
<1> QED BY <1>1, <1>2

LEMMA OneWorkerMoves ==
  ASSUME ServiceInv, [Next]_vars, NEW w \in Workers
  PROVE  wrk'[w] = wrk[w] \/ WorkerStep(w)
<1>1. ASSUME NEW k \in Workers, k # w, WorkerStep(k)
      PROVE  wrk'[w] = wrk[w]
  BY <1>1 DEF ServiceInv, RequestInv, ServiceTypeOK, WorkerStep, WorkerList, WorkerLock,
     WorkerLockFault, WorkerRead, WorkerStamp, WorkerSave, WorkerFault, WorkerRelease,
     WorkerCrash
<1>2. ASSUME ~(\E k \in Workers : WorkerStep(k))
      PROVE  UNCHANGED wrk
  <2>1. ASSUME NEW p \in Publishers, PublishStep(p) PROVE UNCHANGED wrk
    BY <2>1 DEF PublishStep, PublishCommit, PublishCommitFault, PublishLoad,
       PublishLoadFault, PublishGate, PublishGateFault, PublishWarm, PublishRevert,
       PublishRevertFault, PublishDelete, OnlyPub
  <2>2. ASSUME NEW c \in Closers, CloseStep(c) PROVE UNCHANGED wrk
    BY <2>2 DEF CloseStep, CloseLoad, CloseGate, CloseGateFault, CloseRead, CloseStamp,
       CloseSave, CloseSaveFault, LoadHeader, LoadRows, CloseReadFault, OnlyCls
  <2>3. ASSUME NEW v \in Votes, VoteStep(v) PROVE UNCHANGED wrk
    BY <2>3 DEF VoteStep, VoteLoad, VoteRecord, VoteFault, OnlyVot
  <2>4. LockExpire \/ (\E r \in Replicas : CacheExpire(r)) \/ UNCHANGED vars => UNCHANGED wrk
    BY DEF LockExpire, CacheExpire, vars, requests
  <2> QED BY <1>2, <2>1, <2>2, <2>3, <2>4 DEF Next
<1> QED BY <1>1, <1>2
-----------------------------------------------------------------------------
(* Snapshots.                                                              *)

ReadersAreSound ==
  /\ \A c \in Closers : SoundReader(cls[c], dedup, ballots)
  /\ \A w \in Workers : SoundReader(wrk[w], dedup, ballots)

\* A close before it reads, while it reads, and after.
LEMMA CloseKeepsTally ==
  ASSUME ServiceInv, NEW c \in Closers, SoundReader(cls[c], dedup, ballots), CloseStep(c)
  PROVE  SoundReader(cls'[c], dedup, ballots)
<1>1. /\ cls \in [Closers -> CloseRequests] /\ cls[c].bucket \in Buckets
      /\ cls[c].totals \in Totals
  BY DEF ServiceInv, RequestInv, ServiceTypeOK, CloseRequests
<1>2. CASE CloseLoad(c)
  BY <1>1, <1>2 DEF CloseLoad, SoundReader, CloseRequests
<1>3. CASE CloseGate(c)
  <2>1. cls[c].totals = NoTotals
    BY <1>3 DEF CloseGate, SoundReader
  <2>2. CASE cls[c].bucket = LastBucket
    <3>1. cls'[c] = [cls[c] EXCEPT !.pc = "read", !.bucket = 0]
      BY <1>1, <1>3, <2>2 DEF CloseGate
    <3>2. cls'[c].pc = "read" /\ cls'[c].totals = NoTotals
      BY <1>1, <2>1, <3>1 DEF CloseRequests
    <3> QED BY <3>2, EmptyTally DEF SoundReader
  <2>3. CASE cls[c].bucket # LastBucket
    <3>1. cls'[c] = [cls[c] EXCEPT !.bucket = cls[c].bucket + 1]
      BY <1>1, <1>3, <2>3 DEF CloseGate
    <3>2. cls'[c].pc = "gates" /\ cls'[c].totals = NoTotals
      BY <1>1, <1>3, <2>1, <3>1 DEF CloseGate, CloseRequests
    <3> QED BY <3>2 DEF SoundReader
  <2> QED BY <2>2, <2>3
<1>4. CASE CloseRead(c)
  <2> DEFINE b == cls[c].bucket
             t == AddCounters(cls[c].totals, counts[b])
  <2>1. /\ TallyWithin(ballots, t, Before(dedup, b + 1))
        /\ b = LastBucket => TallyWithin(ballots, t, dedup)
    BY <1>1, <1>4, PassBucket DEF CloseRead, SoundReader, ServiceInv
  <2>2. CASE b = LastBucket
    <3>1. cls'[c] = [cls[c] EXCEPT !.totals = t, !.pc = "stamp", !.bucket = b]
      BY <1>1, <1>4, <2>2 DEF CloseRead
    <3>2. cls'[c].pc = "stamp" /\ cls'[c].totals = t
      BY <1>1, <3>1 DEF CloseRequests
    <3> QED BY <2>1, <2>2, <3>2 DEF SoundReader
  <2>3. CASE b # LastBucket
    <3>1. cls'[c] = [cls[c] EXCEPT !.totals = t, !.pc = "read", !.bucket = b + 1]
      BY <1>1, <1>4, <2>3 DEF CloseRead
    <3>2. cls'[c].pc = "read" /\ cls'[c].totals = t /\ cls'[c].bucket = b + 1
      BY <1>1, <3>1 DEF CloseRequests
    <3> QED BY <2>1, <3>2 DEF SoundReader
  <2> QED BY <2>2, <2>3
<1>5. CASE CloseStamp(c)
  <2>1. TallyWithin(ballots, cls[c].totals, dedup)
    BY <1>5 DEF CloseStamp, SoundReader
  <2> DEFINE t == [cls[c].totals EXCEPT !.asOf = clock]
  <2>2. TallyWithin(ballots, t, dedup)
    BY <1>1, <2>1, StampedTally
  <2>3. cls'[c] = [cls[c] EXCEPT !.pc = "save", !.totals = t]
    BY <1>1, <1>5 DEF CloseStamp
  <2>4. cls'[c].pc = "save" /\ cls'[c].totals = t
    BY <1>1, <2>3 DEF CloseRequests
  <2> QED BY <2>2, <2>4 DEF SoundReader
<1>6. ASSUME cls'[c].pc \in {"header", "rows", "done", "failed"}
      PROVE  SoundReader(cls'[c], dedup, ballots)
  BY <1>6 DEF SoundReader
<1>7. CASE CloseGateFault(c) \/ CloseSave(c) \/ CloseSaveFault(c) \/ LoadHeader(c)
             \/ LoadRows(c) \/ CloseReadFault(c)
  <2>1. cls'[c].pc \in {"header", "rows", "done", "failed"}
    BY <1>1, <1>7 DEF CloseGateFault, CloseSave, CloseSaveFault, LoadHeader, LoadRows,
       CloseReadFault, CloseRequests
  <2> QED BY <1>6, <2>1
<1> QED BY <1>2, <1>3, <1>4, <1>5, <1>7 DEF CloseStep

LEMMA WorkerKeepsTally ==
  ASSUME ServiceInv, NEW w \in Workers, SoundReader(wrk[w], dedup, ballots), WorkerStep(w)
  PROVE  SoundReader(wrk'[w], dedup, ballots)
<1>1. /\ wrk \in [Workers -> SnapshotPasses] /\ wrk[w].bucket \in Buckets
      /\ wrk[w].totals \in Totals
  BY DEF ServiceInv, RequestInv, ServiceTypeOK, SnapshotPasses
<1>2. CASE WorkerList(w) \/ WorkerLock(w) \/ WorkerLockFault(w) \/ WorkerRelease(w)
             \/ WorkerCrash(w)
  <2>1. PICK pc \in {"lock", "read", "done"} :
          /\ wrk'[w] = [wrk[w] EXCEPT !.pc = pc]
          /\ pc # "done" => wrk[w].pc \in {"idle", "lock"}
    BY <1>1, <1>2 DEF WorkerList, WorkerLock, WorkerLockFault, WorkerRelease, WorkerCrash
  <2>2. /\ wrk'[w].pc = pc /\ wrk'[w].totals = wrk[w].totals
        /\ wrk'[w].bucket = wrk[w].bucket
    BY <1>1, <2>1 DEF SnapshotPasses
  <2>3. CASE pc = "done"
    BY <2>2, <2>3 DEF SoundReader
  <2>4. CASE pc # "done"
    <3>1. wrk'[w].totals = NoTotals /\ wrk'[w].bucket = 0
      BY <2>1, <2>2, <2>4 DEF SoundReader
    <3> QED BY <2>2, <2>4, <3>1, EmptyTally DEF SoundReader
  <2> QED BY <2>3, <2>4
<1>4. CASE WorkerRead(w)
  <2> DEFINE b == wrk[w].bucket
             t == AddCounters(wrk[w].totals, counts[b])
  <2>1. /\ TallyWithin(ballots, t, Before(dedup, b + 1))
        /\ b = LastBucket => TallyWithin(ballots, t, dedup)
    BY <1>1, <1>4, PassBucket DEF WorkerRead, SoundReader, ServiceInv
  <2>2. CASE b = LastBucket
    <3>1. wrk'[w] = [wrk[w] EXCEPT !.totals = t, !.pc = "stamp", !.bucket = b]
      BY <1>1, <1>4, <2>2 DEF WorkerRead
    <3>2. wrk'[w].pc = "stamp" /\ wrk'[w].totals = t
      BY <1>1, <3>1 DEF SnapshotPasses
    <3> QED BY <2>1, <2>2, <3>2 DEF SoundReader
  <2>3. CASE b # LastBucket
    <3>1. wrk'[w] = [wrk[w] EXCEPT !.totals = t, !.pc = "read", !.bucket = b + 1]
      BY <1>1, <1>4, <2>3 DEF WorkerRead
    <3>2. wrk'[w].pc = "read" /\ wrk'[w].totals = t /\ wrk'[w].bucket = b + 1
      BY <1>1, <3>1 DEF SnapshotPasses
    <3> QED BY <2>1, <3>2 DEF SoundReader
  <2> QED BY <2>2, <2>3
<1>5. CASE WorkerStamp(w)
  <2>1. TallyWithin(ballots, wrk[w].totals, dedup)
    BY <1>5 DEF WorkerStamp, SoundReader
  <2> DEFINE t == [wrk[w].totals EXCEPT !.asOf = clock]
  <2>2. TallyWithin(ballots, t, dedup)
    BY <1>1, <2>1, StampedTally
  <2>3. wrk'[w] = [wrk[w] EXCEPT !.pc = "save", !.totals = t]
    BY <1>1, <1>5 DEF WorkerStamp
  <2>4. wrk'[w].pc = "save" /\ wrk'[w].totals = t
    BY <1>1, <2>3 DEF SnapshotPasses
  <2> QED BY <2>2, <2>4 DEF SoundReader
<1>6. CASE WorkerSave(w) \/ WorkerFault(w)
  <2>1. wrk'[w].pc = "release"
    BY <1>1, <1>6 DEF WorkerSave, WorkerFault, SnapshotPasses
  <2> QED BY <2>1 DEF SoundReader
<1> QED BY <1>2, <1>4, <1>5, <1>6 DEF WorkerStep

LEMMA ReadersStaySound ==
  ASSUME ServiceInv, [Next]_vars, ReadersAreSound
  PROVE  ReadersAreSound'
<1>1. /\ dedup \subseteq dedup' /\ \A d \in dedup : ballots'[d] = ballots[d]
  BY EveryStepIsSound, BallotsGrow DEF SoundStep, ServiceInv
<1>2. ASSUME NEW c \in Closers
      PROVE  SoundReader(cls'[c], dedup', ballots')
  <2>1. SoundReader(cls'[c], dedup, ballots)
    BY OneCloseMoves, CloseKeepsTally DEF ReadersAreSound
  <2> QED BY <1>1, <2>1, SoundReaderStays
<1>3. ASSUME NEW w \in Workers
      PROVE  SoundReader(wrk'[w], dedup', ballots')
  <2>1. SoundReader(wrk'[w], dedup, ballots)
    BY OneWorkerMoves, WorkerKeepsTally DEF ReadersAreSound
  <2> QED BY <1>1, <2>1, SoundReaderStays
<1> QED BY <1>2, <1>3 DEF ReadersAreSound
\* The counters a reader of the result tables sees.
StoredTotals == [participants |-> header.participants, options |-> rows.options]

TallyIsStored == TallyWithin(ballots, StoredTotals, dedup)

\* The result tables are written by a save and by nothing else.
LEMMA OnlySavesWrite ==
  ASSUME [Next]_vars
  PROVE  \/ UNCHANGED <<header, rows>>
         \/ \E c \in Closers : cls[c].pc = "save" /\ WriteFinal(cls[c].totals)
         \/ \E w \in Workers : wrk[w].pc = "save" /\ WriteLive(wrk[w].totals)
<1>1. ASSUME NEW p \in Publishers, PublishStep(p)
      PROVE  UNCHANGED <<header, rows>>
  BY <1>1 DEF PublishStep, PublishCommit, PublishCommitFault, PublishLoad, PublishLoadFault,
     PublishGate, PublishGateFault, PublishWarm, PublishRevert, PublishRevertFault,
     PublishDelete, tableVars, PublishDraft, PublishAgain, RevertPublish
<1>2. ASSUME NEW c \in Closers, CloseStep(c)
      PROVE  \/ UNCHANGED <<header, rows>>
             \/ cls[c].pc = "save" /\ WriteFinal(cls[c].totals)
  BY <1>2 DEF CloseStep, CloseLoad, CloseGate, CloseGateFault, CloseRead, CloseStamp,
     CloseSave, CloseSaveFault, LoadHeader, LoadRows, CloseReadFault, tableVars, KeepFinal
<1>3. ASSUME NEW w \in Workers, WorkerStep(w)
      PROVE  \/ UNCHANGED <<header, rows>>
             \/ wrk[w].pc = "save" /\ WriteLive(wrk[w].totals)
  BY <1>3 DEF WorkerStep, WorkerList, WorkerLock, WorkerLockFault, WorkerRead, WorkerStamp,
     WorkerSave, WorkerFault, WorkerRelease, WorkerCrash, tableVars, KeepFinal
<1>4. ASSUME \/ \E v \in Votes : VoteStep(v)
             \/ LockExpire \/ (\E r \in Replicas : CacheExpire(r)) \/ UNCHANGED vars
      PROVE  UNCHANGED <<header, rows>>
  BY <1>4 DEF VoteStep, VoteLoad, VoteRecord, VoteFault, LockExpire, CacheExpire, vars, tableVars
<1> QED BY <1>1, <1>2, <1>3, <1>4 DEF Next

\* The upserts of header and rows decide alike, so that a save replaces the
\* stored totals as a whole or not at all.
LEMMA SavedAsAWhole ==
  ASSUME TableInv, NEW t \in Totals, WriteLive(t) \/ WriteFinal(t)
  PROVE  \/ UNCHANGED <<header, rows>>
         \/ header'.participants = t.participants /\ rows'.options = t.options
  BY DEF TableInv, TableTypeOK, OneSnapshot, WriteLive, WriteFinal, UpsertHeader, UpsertRows

LEMMA StoredStaysATally ==
  ASSUME ServiceInv, [Next]_vars, ReadersAreSound, TallyIsStored
  PROVE  TallyIsStored'
<1>1. /\ dedup \subseteq dedup' /\ \A d \in dedup : ballots'[d] = ballots[d]
  BY EveryStepIsSound, BallotsGrow DEF SoundStep, ServiceInv
<1>2. CASE UNCHANGED <<header, rows>>
  <2>1. TallyWithin(ballots', StoredTotals, dedup')
    BY <1>1, TallyStays DEF TallyIsStored
  <2> QED BY <1>2, <2>1 DEF TallyIsStored, StoredTotals
<1>3. ASSUME NEW t \in Totals, WriteLive(t) \/ WriteFinal(t), TallyWithin(ballots, t, dedup)
      PROVE  TallyIsStored'
  <2>1. CASE header'.participants = t.participants /\ rows'.options = t.options
    <3>1. TallyWithin(ballots', t, dedup')
      BY <1>1, <1>3, TallyStays
    <3> QED BY <2>1, <3>1 DEF TallyIsStored, StoredTotals, TallyWithin, IsTally
  <2> QED BY <1>2, <1>3, <2>1, SavedAsAWhole DEF ServiceInv
<1>4. ASSUME NEW c \in Closers, cls[c].pc = "save", WriteFinal(cls[c].totals)
      PROVE  TallyIsStored'
  <2>1. cls[c].totals \in Totals /\ TallyWithin(ballots, cls[c].totals, dedup)
    BY <1>4 DEF ServiceInv, RequestInv, ServiceTypeOK, CloseRequests, ReadersAreSound, SoundReader
  <2> QED BY <1>3, <1>4, <2>1
<1>5. ASSUME NEW w \in Workers, wrk[w].pc = "save", WriteLive(wrk[w].totals)
      PROVE  TallyIsStored'
  <2>1. wrk[w].totals \in Totals /\ TallyWithin(ballots, wrk[w].totals, dedup)
    BY <1>5 DEF ServiceInv, RequestInv, ServiceTypeOK, SnapshotPasses, ReadersAreSound, SoundReader
  <2> QED BY <1>3, <1>5, <2>1
<1> QED BY <1>2, <1>4, <1>5, OnlySavesWrite

\* A snapshot in the result tables, live or final, is the tally of ballots
\* that really were counted, although Totals reads the buckets one by one
\* while votes arrive and SaveSnapshot upserts two tables.
THEOREM SnapshotsAreTallies == Spec => []SnapshotIsATally
<1> DEFINE Inv == ServiceInv /\ ReadersAreSound /\ TallyIsStored
<1>1. Init => Inv
  <2> SUFFICES ASSUME Init PROVE ReadersAreSound /\ TallyIsStored
    BY ServiceInitInv
  <2>1. ReadersAreSound
    BY DEF Init, ReadersAreSound, SoundReader
  <2>2. TallyWithin(ballots, NoTotals, dedup)
    BY EmptyTally
  <2>3. StoredTotals.participants = NoTotals.participants
        /\ StoredTotals.options = NoTotals.options
    BY DEF Init, TableInit, StoredTotals, NoTotals
  <2>4. TallyIsStored
    BY <2>2, <2>3 DEF TallyIsStored, TallyWithin, IsTally
  <2> QED BY <2>1, <2>4
<1>2. Inv /\ [Next]_vars => Inv'
  BY ServiceNextInv, ReadersStaySound, StoredStaysATally
<1>3. Inv => SnapshotIsATally
  BY DEF TallyIsStored, StoredTotals, TallyWithin, IsTally, SnapshotIsATally, ChoseIn
<1> QED BY <1>1, <1>2, <1>3, PTL DEF Spec
-----------------------------------------------------------------------------
(* Answers to voters.                                                      *)

\* A recorded vote carried a selection.  With the markers this rules out a
\* second "recorded" for the device: it would need the marker to be missing.
RecordedIsValid == \A v \in Votes : vot[v].pc = "recorded" => vot[v].choice # {}

LEMMA VoteAnswered ==
  ASSUME ServiceInv, VoteAnswersAreTrue, RecordedIsValid, NEW v \in Votes, VoteStep(v)
  PROVE  VoteAnswersAreTrue' /\ RecordedIsValid'
<1> DEFINE d == DeviceOf[v]
<1>0. /\ vot \in [Votes -> VoteRequests] /\ DeviceOf \in [Votes -> Devices]
      /\ ballots \in [Devices -> SUBSET Options]
      /\ \A e \in Devices : e \in dedup <=> ballots[e] # {}
      /\ vot[v].pc = "sent" => vot[v].choice # {}
  BY ServiceAssumption DEF ServiceInv, RequestInv, ServiceTypeOK, SentIsValid, Selections,
     StoreInv, StoreTypeOK, CountsMatchBallots
<1>1. PICK r \in VoteRequests :
        /\ vot' = [vot EXCEPT ![v] = r]
        /\ \/ r.pc \in {"sent", "refused", "error"} /\ ballots' = ballots
           \/ r.pc \in {"sent", "error"} /\ VoteCounted(d, vot[v].choice)
           \/ r.pc = "already" /\ d \in dedup /\ ballots' = ballots
           \/ /\ r.pc = "recorded" /\ r.choice = vot[v].choice /\ vot[v].pc = "sent"
              /\ VoteCounted(d, r.choice)
        /\ vot[v].pc \in {"idle", "sent"}
        /\ VoteCounted(d, vot[v].choice) => vot[v].pc = "sent" \/ ballots' = ballots
  <2>1. ASSUME NEW sel \in Selections, VoteLoad(v, sel)
        PROVE  \E r \in VoteRequests : /\ vot' = [vot EXCEPT ![v] = r]
                                       /\ r.pc \in {"sent", "refused"}
                                       /\ ballots' = ballots /\ vot[v].pc = "idle"
    <3> DEFINE r == [pc |-> IF KnownStatus(ReplicaOf[v]) = "active" THEN "sent" ELSE "refused",
                     choice |-> sel]
    <3>1. r \in VoteRequests
      BY DEF VoteRequests, VoteStates, Selections
    <3>2. vot' = [vot EXCEPT ![v] = r]
      BY <1>0, <2>1 DEF VoteLoad, VoteRequests
    <3> QED BY <2>1, <3>1, <3>2 DEF VoteLoad, storeVars
  <2>2. ASSUME NEW pc \in VoteStates, vot' = [vot EXCEPT ![v].pc = pc]
        PROVE  \E r \in VoteRequests : /\ vot' = [vot EXCEPT ![v] = r]
                                       /\ r.pc = pc /\ r.choice = vot[v].choice
    <3> DEFINE r == [vot[v] EXCEPT !.pc = pc]
    <3>1. r \in VoteRequests /\ r.pc = pc /\ r.choice = vot[v].choice
      BY <1>0 DEF VoteRequests
    <3>2. vot' = [vot EXCEPT ![v] = r]
      BY <1>0, <2>2
    <3> QED BY <3>1, <3>2
  <2>3. CASE VoteRecord(v)
    BY <2>2, <2>3 DEF VoteRecord, VoteNotActive, VoteDuplicate, VoteStates, storeVars
  <2>4. CASE VoteFault(v)
    BY <2>2, <2>4 DEF VoteFault, VoteStates, storeVars
  <2> QED BY <2>1, <2>3, <2>4 DEF VoteStep
<1>2. /\ vot'[v] = r /\ \A u \in Votes \ {v} : vot'[u] = vot[u]
      /\ vot[v].pc # "recorded"
  BY <1>0, <1>1
<1>3. \A e \in Devices : ballots[e] # {} => ballots'[e] = ballots[e]
  BY <1>0, <1>1 DEF VoteCounted
<1>4. r.pc = "recorded" => /\ ballots[d] = {} /\ ballots'[d] = r.choice
                           /\ r.choice # {}
  BY <1>0, <1>1 DEF VoteCounted
<1>5. r.pc = "already" => ballots'[d] # {}
  BY <1>0, <1>1
<1>6. \A u \in Votes \ {v} :
        vot[u].pc = "recorded" => ballots[DeviceOf[u]] = vot[u].choice /\ vot[u].choice # {}
  BY DEF VoteAnswersAreTrue, RecordedIsValid
<1>7. RecordedIsValid'
  BY <1>2, <1>4, <1>6 DEF RecordedIsValid
<1>8. ASSUME NEW u \in Votes
      PROVE  /\ vot'[u].pc = "recorded" => ballots'[DeviceOf[u]] = vot'[u].choice
             /\ vot'[u].pc = "already" => ballots'[DeviceOf[u]] # {}
  BY <1>0, <1>2, <1>3, <1>4, <1>5, <1>6 DEF VoteAnswersAreTrue
<1>9. ASSUME NEW u \in Votes, NEW w \in Votes \ {u}, DeviceOf[w] = DeviceOf[u]
      PROVE  ~(vot'[w].pc = "recorded" /\ vot'[u].pc = "recorded")
  BY <1>2, <1>4, <1>6, <1>9 DEF VoteAnswersAreTrue
<1> QED BY <1>7, <1>8, <1>9 DEF VoteAnswersAreTrue

\* A voter who is told "recorded" has exactly that ballot counted and no
\* other request of the device is told so, across lost commands, lost
\* replies and resends (VoteService.Vote, vote.lua).
THEOREM VotersAreToldTheTruth == Spec => []VoteAnswersAreTrue
<1> DEFINE Inv == ServiceInv /\ VoteAnswersAreTrue /\ RecordedIsValid
<1>1. Init => Inv
  BY ServiceInitInv DEF Init, VoteAnswersAreTrue, RecordedIsValid
<1>2. Inv /\ [Next]_vars => Inv'
  <2> SUFFICES ASSUME Inv, [Next]_vars PROVE VoteAnswersAreTrue' /\ RecordedIsValid'
    BY ServiceNextInv
  <2>1. CASE \E v \in Votes : VoteStep(v)
    BY <2>1, VoteAnswered
  <2>2. CASE ~(\E v \in Votes : VoteStep(v))
    BY <2>2, BallotsUntouched DEF VoteAnswersAreTrue, RecordedIsValid
  <2> QED BY <2>1, <2>2
<1> QED BY <1>1, <1>2, PTL DEF Spec

-----------------------------------------------------------------------------
(* Answers to admins.                                                      *)

\* What an answer took from the header is still there if it was final.
AnswerIsFinal ==
  \A c \in Closers :
    cls[c].pc \in {"rows", "done"} /\ cls[c].answer.finalizedAt # NoTime
      => /\ cls[c].answer.participants = header.participants
         /\ cls[c].answer.finalizedAt = header.finalizedAt
         /\ cls[c].pc = "done" => cls[c].answer.options = rows.options

\* A stored final result is the same after the step.
LEMMA FinalRowsStay ==
  ASSUME ServiceInv, [Next]_vars, Finalized
  PROVE  UNCHANGED <<header, rows>>
  BY OnlySavesWrite DEF WriteFinal, WriteLive

LEMMA AnswerStaysFinal ==
  ASSUME ServiceInv, [Next]_vars, AnswerIsFinal
  PROVE  AnswerIsFinal'
<1> SUFFICES ASSUME NEW c \in Closers, cls'[c].pc \in {"rows", "done"},
                    cls'[c].answer.finalizedAt # NoTime
             PROVE  /\ cls'[c].answer.participants = header'.participants
                    /\ cls'[c].answer.finalizedAt = header'.finalizedAt
                    /\ cls'[c].pc = "done" => cls'[c].answer.options = rows'.options
  BY DEF AnswerIsFinal
<1>1. cls \in [Closers -> CloseRequests] /\ cls[c] \in CloseRequests
      /\ cls[c].answer \in Answers
  BY DEF ServiceInv, RequestInv, ServiceTypeOK, CloseRequests
<1>2. CASE cls'[c] = cls[c]
  <2>1. Finalized
    BY <1>2 DEF AnswerIsFinal, Finalized
  <2> QED BY <1>2, <2>1, FinalRowsStay DEF AnswerIsFinal
<1>3. CASE LoadHeader(c)
  <2>1. UNCHANGED <<header, rows>>
    BY <1>3 DEF LoadHeader, tableVars
  <2>2. /\ cls'[c].pc = "rows"
        /\ cls'[c].answer.participants = header.participants
        /\ cls'[c].answer.finalizedAt = header.finalizedAt
    BY <1>1, <1>3 DEF LoadHeader, CloseRequests, Answers
  <2> QED BY <2>1, <2>2
<1>4. CASE LoadRows(c)
  <2>1. UNCHANGED <<header, rows>>
    BY <1>4 DEF LoadRows, tableVars
  <2>2. /\ cls[c].pc = "rows"
        /\ cls'[c].answer = [cls[c].answer EXCEPT !.options = rows.options]
    BY <1>1, <1>4 DEF LoadRows, CloseRequests, Answers
  <2>3. /\ cls'[c].answer.participants = cls[c].answer.participants
        /\ cls'[c].answer.finalizedAt = cls[c].answer.finalizedAt
        /\ cls'[c].answer.options = rows.options
    BY <1>1, <2>2 DEF Answers
  <2> QED BY <2>1, <2>2, <2>3 DEF AnswerIsFinal
<1>5. CASE CloseStep(c) /\ ~LoadHeader(c) /\ ~LoadRows(c)
  <2>1. cls'[c].pc \notin {"rows", "done"}
    <3>1. CASE CloseLoad(c) \/ CloseGate(c) \/ CloseGateFault(c)
      BY <1>1, <3>1 DEF CloseLoad, CloseGate, CloseGateFault, CloseRequests
    <3>2. CASE CloseRead(c) \/ CloseStamp(c) \/ CloseReadFault(c)
      BY <1>1, <3>2 DEF CloseRead, CloseStamp, CloseReadFault, CloseRequests
    <3>3. CASE CloseSave(c) \/ CloseSaveFault(c)
      BY <1>1, <3>3 DEF CloseSave, CloseSaveFault, CloseRequests
    <3> QED BY <1>5, <3>1, <3>2, <3>3 DEF CloseStep
  <2> QED BY <2>1
<1> QED BY <1>2, <1>3, <1>4, <1>5, OneCloseMoves

\* Every answer with a finalized_at, of whichever close and however late its
\* two queries ran, is the stored final result (LoadResult).
THEOREM ClosesAnswerAlike == Spec => []AnswersAgree
<1> DEFINE Inv == ServiceInv /\ AnswerIsFinal
<1>1. Init => Inv
  BY ServiceInitInv DEF Init, AnswerIsFinal
<1>2. Inv /\ [Next]_vars => Inv'
  BY ServiceNextInv, AnswerStaysFinal
<1>3. Inv => AnswersAgree
  <2> SUFFICES ASSUME Inv, NEW c \in Closers, cls[c].pc = "done",
                      cls[c].answer.finalizedAt # NoTime
               PROVE  cls[c].answer = [participants |-> header.participants,
                                       options |-> rows.options,
                                       finalizedAt |-> header.finalizedAt]
    BY DEF AnswersAgree
  <2>1. cls[c].answer \in Answers
    BY DEF ServiceInv, RequestInv, ServiceTypeOK, CloseRequests
  <2> QED BY <2>1 DEF AnswerIsFinal, Answers
<1> QED BY <1>1, <1>2, <1>3, PTL DEF Spec
-----------------------------------------------------------------------------
(* Compensations.                                                          *)

\* A publish request is moved by its own steps only.
LEMMA OnePublishMoves ==
  ASSUME ServiceInv, [Next]_vars, NEW p \in Publishers
  PROVE  pub'[p] = pub[p] \/ PublishStep(p)
<1>1. ASSUME NEW q \in Publishers, q # p, PublishStep(q)
      PROVE  pub'[p] = pub[p]
  BY <1>1 DEF ServiceInv, RequestInv, ServiceTypeOK, PublishStep, PublishCommit,
     PublishCommitFault, PublishLoad, PublishLoadFault, PublishGate, PublishGateFault,
     PublishWarm, PublishRevert, PublishRevertFault, PublishDelete
<1>2. ASSUME ~(\E q \in Publishers : PublishStep(q))
      PROVE  UNCHANGED pub
  <2>1. ASSUME NEW c \in Closers, CloseStep(c) PROVE UNCHANGED pub
    BY <2>1 DEF CloseStep, CloseLoad, CloseGate, CloseGateFault, CloseRead, CloseStamp,
       CloseSave, CloseSaveFault, LoadHeader, LoadRows, CloseReadFault, OnlyCls
  <2>2. ASSUME NEW w \in Workers, WorkerStep(w) PROVE UNCHANGED pub
    BY <2>2 DEF WorkerStep, WorkerList, WorkerLock, WorkerLockFault, WorkerRead,
       WorkerStamp, WorkerSave, WorkerFault, WorkerRelease, WorkerCrash, OnlyWrk
  <2>3. ASSUME NEW v \in Votes, VoteStep(v) PROVE UNCHANGED pub
    BY <2>3 DEF VoteStep, VoteLoad, VoteRecord, VoteFault, OnlyVot
  <2>4. LockExpire \/ (\E r \in Replicas : CacheExpire(r)) \/ UNCHANGED vars => UNCHANGED pub
    BY DEF LockExpire, CacheExpire, vars, requests
  <2> QED BY <1>2, <2>1, <2>2, <2>3, <2>4 DEF Next
<1> QED BY <1>1, <1>2

\* No clock reading is used twice, and published_at holds an old one.
StampsDiffer ==
  /\ poll.publishedAt < clock
  /\ \A p \in Publishers : pub[p].now < clock
  /\ \A p, q \in Publishers :
       p # q /\ pub[p].pc # "idle" /\ pub[q].pc # "idle" => pub[p].now # pub[q].now

\* The stamp of a publish is read once, in its first step.
LEMMA PublishStampsOnce ==
  ASSUME ServiceInv, NEW p \in Publishers, PublishStep(p)
  PROVE  \/ /\ pub'[p].now = pub[p].now /\ pub[p].pc # "idle"
            /\ clock' = clock
            /\ poll'.publishedAt \in {poll.publishedAt, NoTime}
         \/ /\ pub'[p].now = clock /\ pub[p].pc = "idle"
            /\ clock' = clock + 1
            /\ poll'.publishedAt \in {poll.publishedAt, clock}
<1>1. /\ pub \in [Publishers -> PublishRequests]
      /\ poll \in [status: Statuses, publishedAt: Nat, closedAt: Nat]
  BY DEF ServiceInv, RequestInv, ServiceTypeOK, TableInv, TableTypeOK
<1>2. CASE PublishCommit(p) \/ PublishCommitFault(p)
  <2>1. pub'[p].now = clock
    BY <1>1, <1>2 DEF PublishCommit, PublishCommitFault, PublishRequests
  <2>2. poll'.publishedAt \in {poll.publishedAt, clock}
    BY <1>1, <1>2 DEF PublishCommit, PublishCommitFault, PublishDraft, PublishAgain, tableVars
  <2> QED BY <1>2, <2>1, <2>2 DEF PublishCommit, PublishCommitFault, ReadClock
<1>3. CASE PublishLoad(p) \/ PublishLoadFault(p) \/ PublishGate(p) \/ PublishGateFault(p)
             \/ PublishWarm(p)
  BY <1>1, <1>3 DEF PublishLoad, PublishLoadFault, PublishGate, PublishGateFault,
     PublishWarm, tableVars, PublishRequests
<1>4. CASE PublishRevert(p) \/ PublishRevertFault(p) \/ PublishDelete(p)
  <2>1. pub'[p].now = pub[p].now
    BY <1>1, <1>4 DEF PublishRevert, PublishRevertFault, PublishDelete, PublishRequests
  <2>2. poll'.publishedAt \in {poll.publishedAt, NoTime}
    BY <1>1, <1>4 DEF PublishRevert, PublishRevertFault, PublishDelete, RevertPublish, tableVars
  <2> QED BY <1>4, <2>1, <2>2 DEF PublishRevert, PublishRevertFault, PublishDelete
<1> QED BY <1>2, <1>3, <1>4 DEF PublishStep

\* Other requests may read the clock but publish nothing.
LEMMA OthersStampNothing ==
  ASSUME ServiceInv, [Next]_vars, ~(\E p \in Publishers : PublishStep(p))
  PROVE  clock' \in {clock, clock + 1} /\ poll'.publishedAt = poll.publishedAt
<1>1. poll \in [status: Statuses, publishedAt: Nat, closedAt: Nat]
  BY DEF ServiceInv, TableInv, TableTypeOK
<1>2. ASSUME NEW c \in Closers, CloseStep(c)
      PROVE  clock' \in {clock, clock + 1} /\ poll'.publishedAt = poll.publishedAt
  BY <1>1, <1>2 DEF CloseStep, CloseLoad, CloseGate, CloseGateFault, CloseRead, CloseStamp,
     CloseSave, CloseSaveFault, LoadHeader, LoadRows, CloseReadFault, tableVars, KeepFinal,
     WriteFinal, ReadClock
<1>3. ASSUME NEW w \in Workers, WorkerStep(w)
      PROVE  clock' \in {clock, clock + 1} /\ poll'.publishedAt = poll.publishedAt
  BY <1>3 DEF WorkerStep, WorkerList, WorkerLock, WorkerLockFault, WorkerRead, WorkerStamp,
     WorkerSave, WorkerFault, WorkerRelease, WorkerCrash, tableVars, KeepFinal, WriteLive,
     ReadClock
<1>4. ASSUME \/ \E v \in Votes : VoteStep(v)
             \/ LockExpire \/ (\E r \in Replicas : CacheExpire(r)) \/ UNCHANGED vars
      PROVE  clock' = clock /\ poll' = poll
  BY <1>4 DEF VoteStep, VoteLoad, VoteRecord, VoteFault, OnlyVot, LockExpire, CacheExpire,
     vars, tableVars
<1> QED BY <1>2, <1>3, <1>4 DEF Next

LEMMA StampsStayDifferent ==
  ASSUME ServiceInv, [Next]_vars, StampsDiffer
  PROVE  StampsDiffer'
<1>1. /\ clock \in Nat \ {0} /\ poll.publishedAt \in Nat
      /\ \A p \in Publishers : pub[p].now \in Nat
  BY DEF ServiceInv, RequestInv, ServiceTypeOK, PublishRequests, TableInv, TableTypeOK, NoTime
<1>2. ASSUME NEW p \in Publishers, PublishStep(p)
      PROVE  StampsDiffer'
  <2>1. \A q \in Publishers \ {p} : pub'[q] = pub[q]
    BY <1>2 DEF ServiceInv, RequestInv, ServiceTypeOK, PublishStep, PublishCommit,
       PublishCommitFault, PublishLoad, PublishLoadFault, PublishGate, PublishGateFault,
       PublishWarm, PublishRevert, PublishRevertFault, PublishDelete
  <2>2. CASE /\ pub'[p].now = pub[p].now /\ pub[p].pc # "idle"
             /\ clock' = clock
             /\ poll'.publishedAt \in {poll.publishedAt, NoTime}
    BY <1>1, <2>1, <2>2 DEF StampsDiffer, NoTime
  <2>3. CASE /\ pub'[p].now = clock /\ pub[p].pc = "idle"
             /\ clock' = clock + 1
             /\ poll'.publishedAt \in {poll.publishedAt, clock}
    BY <1>1, <2>1, <2>3 DEF StampsDiffer
  <2> QED BY <1>2, <2>2, <2>3, PublishStampsOnce
<1>3. CASE ~(\E p \in Publishers : PublishStep(p))
  <2>1. \A p \in Publishers : pub'[p] = pub[p]
    BY <1>3, OnePublishMoves
  <2> QED BY <1>1, <1>3, <2>1, OthersStampNothing DEF StampsDiffer
<1> QED BY <1>2, <1>3

\* Only a compensation turns an active poll into a draft, and it matches the
\* stamp of its own request.
LEMMA OnlyRevertsUnpublish ==
  ASSUME ServiceInv, [Next]_vars, poll.status = "active", poll'.status = "draft"
  PROVE  \E p \in Publishers : pub[p].pc = "revert" /\ pub[p].now = poll.publishedAt
<1>1. poll \in [status: Statuses, publishedAt: Nat, closedAt: Nat]
  BY DEF ServiceInv, TableInv, TableTypeOK
<1>2. ASSUME NEW p \in Publishers, PublishStep(p)
      PROVE  pub[p].pc = "revert" /\ pub[p].now = poll.publishedAt
  BY <1>1, <1>2 DEF PublishStep, PublishCommit, PublishCommitFault, PublishLoad,
     PublishLoadFault, PublishGate, PublishGateFault, PublishWarm, PublishRevert,
     PublishRevertFault, PublishDelete, tableVars, PublishDraft, PublishAgain,
     RevertPublish, Revertible
<1>3. ASSUME NEW c \in Closers, CloseStep(c)
      PROVE  FALSE
  BY <1>1, <1>3 DEF CloseStep, CloseLoad, CloseGate, CloseGateFault, CloseRead, CloseStamp,
     CloseSave, CloseSaveFault, LoadHeader, LoadRows, CloseReadFault, tableVars, KeepFinal,
     WriteFinal
<1>4. ASSUME NEW w \in Workers, WorkerStep(w)
      PROVE  FALSE
  BY <1>4 DEF WorkerStep, WorkerList, WorkerLock, WorkerLockFault, WorkerRead, WorkerStamp,
     WorkerSave, WorkerFault, WorkerRelease, WorkerCrash, tableVars, KeepFinal, WriteLive
<1>5. ASSUME \/ \E v \in Votes : VoteStep(v)
             \/ LockExpire \/ (\E r \in Replicas : CacheExpire(r)) \/ UNCHANGED vars
      PROVE  FALSE
  BY <1>5 DEF VoteStep, VoteLoad, VoteRecord, VoteFault, LockExpire, CacheExpire,
     vars, tableVars
<1> QED BY <1>2, <1>3, <1>4, <1>5 DEF Next

\* A publish that made the draft active and succeeded is never undone by
\* the late compensation of another one, because the stamps of two requests
\* differ and RevertPublish matches published_at.
THEOREM SuccessIsNotUndone == Spec => OwnSuccessNotUndone
<1> DEFINE Inv == ServiceInv /\ StampsDiffer
<1>1. Init => Inv
  BY ServiceInitInv DEF Init, TableInit, StampsDiffer, NoTime
<1>2. Inv /\ [Next]_vars => Inv'
  BY ServiceNextInv, StampsStayDifferent
<1>3. ASSUME Inv, [Next]_vars, poll.status = "active", poll'.status = "draft",
             NEW q \in Publishers, pub[q].pc = "ok"
      PROVE  pub[q].now # poll.publishedAt
  <2>1. PICK p \in Publishers : pub[p].pc = "revert" /\ pub[p].now = poll.publishedAt
    BY <1>3, OnlyRevertsUnpublish
  <2> QED BY <1>3, <2>1 DEF StampsDiffer
<1>4. Inv /\ [Next]_vars
        => [poll.status = "active" /\ poll'.status = "draft"
              => \A p \in Publishers : ~(pub[p].pc = "ok" /\ pub[p].now = poll.publishedAt)]_vars
  BY <1>3
<1> QED BY <1>1, <1>2, <1>4, PTL DEF Spec, OwnSuccessNotUndone

-----------------------------------------------------------------------------
(* The snapshot lock.                                                      *)

\* The lock of a pass goes by its own release or by the lock's TTL, however
\* many passes there are: releases compare tokens, and a new pass takes the
\* lock only when it is free.
THEOREM LockIsItsOwners == Spec => OnlyOwnerReleases
<1> DEFINE Kept(w) == lock = w /\ lock' # w =>
                        (wrk[w].pc = "release" /\ wrk'[w].pc = "done") \/ UNCHANGED requests
<1>1. ASSUME ServiceInv, [Next]_vars, NEW w \in Workers PROVE Kept(w)
  <2>1. ASSUME NEW p \in Publishers, PublishStep(p) PROVE Kept(w)
    <3>1. OnlyPub
      BY <2>1 DEF PublishStep, PublishCommit, PublishCommitFault, PublishLoad, PublishLoadFault, PublishGate,
         PublishGateFault, PublishWarm, PublishRevert, PublishRevertFault, PublishDelete
    <3> QED BY <3>1 DEF OnlyPub
  <2>c. ASSUME NEW c \in Closers, CloseStep(c) PROVE Kept(w)
    <3>1. OnlyCls
      BY <2>c DEF CloseStep, CloseLoad, CloseGate, CloseGateFault, CloseRead, CloseStamp, CloseSave,
         CloseSaveFault, LoadHeader, LoadRows, CloseReadFault
    <3> QED BY <3>1 DEF OnlyCls
  <2>2. ASSUME NEW x \in Workers, WorkerStep(x) PROVE Kept(w)
    <3>1. CASE WorkerLock(x) \/ WorkerLockFault(x)
      BY <3>1, ServiceAssumption DEF WorkerLock, WorkerLockFault
    <3>2. CASE WorkerRelease(x)
      <4>1. CASE x = w
        <5>1. wrk \in [Workers -> SnapshotPasses]
          BY <1>1 DEF ServiceInv, RequestInv, ServiceTypeOK
        <5>2. wrk[x].pc = "release" /\ wrk' = [wrk EXCEPT ![x].pc = "done"]
          BY <3>2 DEF WorkerRelease
        <5>3. wrk'[w].pc = "done"
          BY <4>1, <5>1, <5>2 DEF SnapshotPasses
        <5> QED BY <4>1, <5>2, <5>3
      <4>2. CASE x # w
        BY <3>2, <4>2 DEF WorkerRelease
      <4> QED BY <4>1, <4>2
    <3>3. CASE ~WorkerLock(x) /\ ~WorkerLockFault(x) /\ ~WorkerRelease(x)
      BY <2>2, <3>3 DEF WorkerStep, WorkerList, WorkerRead, WorkerStamp, WorkerSave, WorkerFault, WorkerCrash
    <3> QED BY <3>1, <3>2, <3>3
  <2>3. CASE (\E v \in Votes : VoteStep(v)) \/ (\E r \in Replicas : CacheExpire(r)) \/ UNCHANGED vars
    BY <2>3 DEF VoteStep, VoteLoad, VoteRecord, VoteFault, CacheExpire, OnlyVot, vars
  <2>4. CASE LockExpire
    BY <2>4 DEF LockExpire
  <2> QED BY <1>1, <2>1, <2>c, <2>2, <2>3, <2>4 DEF Next
<1>2. ServiceInv /\ [Next]_vars => [\A w \in Workers : Kept(w)]_vars
  BY <1>1
<1>3. Init => ServiceInv
  BY ServiceInitInv
<1> QED BY <1>2, <1>3, ServiceNextInv, PTL DEF Spec, OnlyOwnerReleases
=============================================================================
