---------------------------- MODULE PollService -----------------------------
(***************************************************************************)
(* The lifecycle of one poll: publish, close, snapshot and vote requests   *)
(* (internal/service, internal/worker) running on several replicas against *)
(* the Redis store (VoteStore) and the tables (PollStore).                 *)
(*                                                                         *)
(* Every request is a process.  Its steps are the commands and the         *)
(* transactions it sends, so any other request may act between two of      *)
(* them; the go-redis pipelines over the buckets are sent command by       *)
(* command.  A step of a request may fail: the command took effect or not, *)
(* and the caller sees an error in both cases.  MaxFaults bounds how often.*)
(*                                                                         *)
(* Requests that end before they touch any state (wrong window, invalid    *)
(* selection, rate limit) are requests that are never sent.                *)
(***************************************************************************)
EXTENDS VoteStore, PollStore

CONSTANTS
  Publishers,     \* POST /publish requests
  Closers,        \* POST /close requests; a failed one may be sent again
  Workers,        \* passes of a replica's snapshot worker over this poll
  Votes,          \* POST /votes requests
  DeviceOf,       \* the device a vote request comes from
  Replicas,       \* API processes
  ReplicaOf,      \* the replica that serves a publish, close or vote request
  MaxFaults,      \* bound on failed commands and lost replies
  AdminsOverlap,  \* FALSE: publish and close requests come one at a time
  NoHolder        \* the snapshot lock's key is absent

ASSUME ServiceAssumption ==
  /\ DeviceOf \in [Votes -> Devices]
  /\ ReplicaOf \in [Publishers \cup Closers \cup Votes -> Replicas]
  /\ MaxFaults \in Nat
  /\ AdminsOverlap \in BOOLEAN
  /\ NoHolder \notin Workers

VARIABLES
  clock,   \* the next reading of any replica's clock; readings do not repeat
  lock,    \* snapshot-lock: the worker whose token it holds, or NoHolder
  cache,   \* each replica's cached poll: its status, or "none"
  faults,  \* faults so far
  pub,     \* publish requests
  cls,     \* close requests
  wrk,     \* snapshot passes
  vot      \* vote requests

requests == <<pub, cls, wrk, vot>>
vars == <<storeVars, tableVars, clock, lock, cache, faults, requests>>

Answers == [participants: Nat, options: [Options -> Nat], finalizedAt: Nat]

NoAnswer == [participants |-> 0, options |-> [o \in Options |-> 0], finalizedAt |-> NoTime]

PublishStates == {"idle", "load", "gates", "warm", "revert", "delete", "ok", "failed"}
CloseStates == {"idle", "gates", "read", "stamp", "save", "header", "rows", "done", "failed"}
WorkerStates == {"idle", "lock", "read", "stamp", "save", "release", "done"}
VoteStates == {"idle", "sent", "recorded", "already", "refused", "error"}

PublishRequests ==
  [pc: PublishStates, now: Nat, seen: Statuses, seenAt: Nat, bucket: Buckets]
CloseRequests == [pc: CloseStates, bucket: Buckets, totals: Totals, answer: Answers]
SnapshotPasses == [pc: WorkerStates, bucket: Buckets, totals: Totals]
VoteRequests == [pc: VoteStates, choice: SUBSET Options]

ServiceTypeOK ==
  /\ clock \in Nat \ {NoTime}
  /\ lock \in Workers \cup {NoHolder}
  /\ cache \in [Replicas -> Statuses \cup {"none"}]
  /\ faults \in 0..MaxFaults
  /\ pub \in [Publishers -> PublishRequests]
  /\ cls \in [Closers -> CloseRequests]
  /\ wrk \in [Workers -> SnapshotPasses]
  /\ vot \in [Votes -> VoteRequests]

TypeOK == StoreTypeOK /\ TableTypeOK /\ ServiceTypeOK

Init ==
  /\ StoreInit
  /\ TableInit
  /\ clock = 1
  /\ lock = NoHolder
  /\ cache = [r \in Replicas |-> "none"]
  /\ faults = 0
  /\ pub = [p \in Publishers |-> [pc |-> "idle", now |-> NoTime, seen |-> "draft",
                                  seenAt |-> NoTime, bucket |-> 0]]
  /\ cls = [c \in Closers |-> [pc |-> "idle", bucket |-> 0, totals |-> NoTotals,
                               answer |-> NoAnswer]]
  /\ wrk = [w \in Workers |-> [pc |-> "idle", bucket |-> 0, totals |-> NoTotals]]
  /\ vot = [v \in Votes |-> [pc |-> "idle", choice |-> {}]]

-----------------------------------------------------------------------------
LastBucket == NumBuckets - 1

Fault == faults < MaxFaults /\ faults' = faults + 1

\* Mutant: stamps too coarse to tell two requests apart.
ReadCoarseClock == UNCHANGED clock

\* time.Now(): two readings differ, and a later one is larger.
ReadClock == clock' = clock + 1

InFlight ==
  \/ \E p \in Publishers : pub[p].pc \notin {"idle", "ok", "failed"}
  \/ \E c \in Closers : cls[c].pc \notin {"idle", "done", "failed"}

AdminMayStart == AdminsOverlap \/ ~InFlight

\* Frames: what a step of one kind of request leaves to the others.
OnlyPub == UNCHANGED <<lock, cls, wrk, vot>>
OnlyCls == UNCHANGED <<lock, pub, wrk, vot>>
OnlyWrk == UNCHANGED <<cache, pub, cls, vot>>
OnlyVot == UNCHANGED <<clock, lock, pub, cls, wrk>>

-----------------------------------------------------------------------------
(* PollService.Publish.                                                    *)

\* repo.Publish up to its commit, with the stamp read just before.
PublishCommit(p) ==
  /\ pub[p].pc = "idle"
  /\ AdminMayStart
  /\ ReadClock
  /\ \/ /\ PublishDraft(clock) \/ PublishAgain
        /\ pub' = [pub EXCEPT ![p].pc = "load", ![p].now = clock]
     \/ /\ poll.status = "closed"
        /\ pub' = [pub EXCEPT ![p].pc = "failed", ![p].now = clock]
        /\ UNCHANGED tableVars
  /\ OnlyPub /\ UNCHANGED <<storeVars, cache, faults>>

\* The transaction fails, or commits without the caller learning it.
PublishCommitFault(p) ==
  /\ pub[p].pc = "idle"
  /\ AdminMayStart
  /\ Fault
  /\ ReadClock
  /\ PublishDraft(clock) \/ UNCHANGED tableVars
  /\ pub' = [pub EXCEPT ![p].pc = "failed", ![p].now = clock]
  /\ OnlyPub /\ UNCHANGED <<storeVars, cache>>

\* GetByID after the commit: the poll as it is by now.
PublishLoad(p) ==
  /\ pub[p].pc = "load"
  /\ pub' = [pub EXCEPT ![p].pc = "gates", ![p].bucket = 0,
                        ![p].seen = poll.status, ![p].seenAt = poll.publishedAt]
  /\ OnlyPub /\ UNCHANGED <<storeVars, tableVars, clock, cache, faults>>

\* An error here is an error of repo.Publish: nothing is compensated.
PublishLoadFault(p) ==
  /\ pub[p].pc = "load"
  /\ Fault
  /\ pub' = [pub EXCEPT ![p].pc = "failed"]
  /\ OnlyPub /\ UNCHANGED <<storeVars, tableVars, clock, cache>>

\* SetupGates, one SET of the pipeline.
PublishGate(p) ==
  LET b == pub[p].bucket IN
  /\ pub[p].pc = "gates"
  /\ SetGate(b, "active")
  /\ pub' = IF b = LastBucket
            THEN [pub EXCEPT ![p].pc = "warm"]
            ELSE [pub EXCEPT ![p].bucket = b + 1]
  /\ OnlyPub /\ UNCHANGED <<tableVars, clock, cache, faults>>

\* p.PublishedAt.Equal(now)
OwnTransition(p) == pub[p].seenAt = pub[p].now

\* Mutant: gates are deleted after any failed set-up.
PublishGateFaultDeletes(p) ==
  /\ pub[p].pc = "gates"
  /\ Fault
  /\ SetGate(pub[p].bucket, "active") \/ UNCHANGED storeVars
  /\ pub' = [pub EXCEPT ![p].pc = IF OwnTransition(p) THEN "revert" ELSE "delete"]
  /\ OnlyPub /\ UNCHANGED <<tableVars, clock, cache>>

\* The pipeline fails after any prefix of it took effect.
PublishGateFault(p) ==
  /\ pub[p].pc = "gates"
  /\ Fault
  /\ SetGate(pub[p].bucket, "active") \/ UNCHANGED storeVars
  /\ pub' = [pub EXCEPT ![p].pc = IF OwnTransition(p) THEN "revert" ELSE "failed"]
  /\ OnlyPub /\ UNCHANGED <<tableVars, clock, cache>>

\* cache.Put of the poll GetByID returned.
PublishWarm(p) ==
  /\ pub[p].pc = "warm"
  /\ cache' = [cache EXCEPT ![ReplicaOf[p]] = pub[p].seen]
  /\ pub' = [pub EXCEPT ![p].pc = "ok"]
  /\ OnlyPub /\ UNCHANGED <<storeVars, tableVars, clock, faults>>

\* RevertPublish; gates are deleted only when the UPDATE matched.
PublishRevert(p) ==
  /\ pub[p].pc = "revert"
  /\ \/ /\ RevertPublish(pub[p].now)
        /\ pub' = [pub EXCEPT ![p].pc = "delete"]
     \/ /\ ~Revertible(pub[p].now)
        /\ pub' = [pub EXCEPT ![p].pc = "failed"]
        /\ UNCHANGED tableVars
  /\ OnlyPub /\ UNCHANGED <<storeVars, clock, cache, faults>>

PublishRevertFault(p) ==
  /\ pub[p].pc = "revert"
  /\ Fault
  /\ RevertPublish(pub[p].now) \/ UNCHANGED tableVars
  /\ pub' = [pub EXCEPT ![p].pc = "failed"]
  /\ OnlyPub /\ UNCHANGED <<storeVars, clock, cache>>

\* DeleteGates; its error is ignored and the request fails either way.
PublishDelete(p) ==
  /\ pub[p].pc = "delete"
  /\ \/ DeleteGates /\ UNCHANGED faults
     \/ Fault /\ UNCHANGED storeVars
  /\ pub' = [pub EXCEPT ![p].pc = "failed"]
  /\ OnlyPub /\ UNCHANGED <<tableVars, clock, cache>>

PublishStep(p) ==
  \/ PublishCommit(p) \/ PublishCommitFault(p)
  \/ PublishLoad(p) \/ PublishLoadFault(p)
  \/ PublishGate(p) \/ PublishGateFault(p)
  \/ PublishWarm(p)
  \/ PublishRevert(p) \/ PublishRevertFault(p)
  \/ PublishDelete(p)

-----------------------------------------------------------------------------
(* ResultService.Close.                                                    *)

\* Mutant: only an active poll can be closed; a repeated close is refused.
CloseLoadStrict(c) ==
  /\ cls[c].pc \in {"idle", "failed"}
  /\ AdminMayStart
  /\ cls' = [cls EXCEPT ![c].pc = IF poll.status = "active" THEN "gates" ELSE "failed",
                        ![c].bucket = 0, ![c].totals = NoTotals]
  /\ OnlyCls /\ UNCHANGED <<storeVars, tableVars, clock, cache, faults>>

\* GetByID; a closed poll goes straight to LoadResult, a draft is refused.
CloseLoad(c) ==
  /\ cls[c].pc \in {"idle", "failed"}
  /\ AdminMayStart
  /\ cls' = [cls EXCEPT ![c].pc = CASE poll.status = "closed" -> "header"
                                    [] poll.status = "active" -> "gates"
                                    [] OTHER -> "failed",
                        ![c].bucket = 0, ![c].totals = NoTotals]
  /\ OnlyCls /\ UNCHANGED <<storeVars, tableVars, clock, cache, faults>>

\* Mutant: CloseGates never reaches Redis.
CloseGateSkipped(c) ==
  LET b == cls[c].bucket IN
  /\ cls[c].pc = "gates"
  /\ UNCHANGED storeVars
  /\ cls' = IF b = LastBucket
            THEN [cls EXCEPT ![c].pc = "read", ![c].bucket = 0]
            ELSE [cls EXCEPT ![c].bucket = b + 1]
  /\ OnlyCls /\ UNCHANGED <<tableVars, clock, cache, faults>>

\* CloseGates, one SET of the pipeline.
CloseGate(c) ==
  LET b == cls[c].bucket IN
  /\ cls[c].pc = "gates"
  /\ SetGate(b, "closed")
  /\ cls' = IF b = LastBucket
            THEN [cls EXCEPT ![c].pc = "read", ![c].bucket = 0]
            ELSE [cls EXCEPT ![c].bucket = b + 1]
  /\ OnlyCls /\ UNCHANGED <<tableVars, clock, cache, faults>>

CloseGateFault(c) ==
  /\ cls[c].pc = "gates"
  /\ Fault
  /\ SetGate(cls[c].bucket, "closed") \/ UNCHANGED storeVars
  /\ cls' = [cls EXCEPT ![c].pc = "failed"]
  /\ OnlyCls /\ UNCHANGED <<tableVars, clock, cache>>

\* Totals, one HGETALL of the pipeline.
CloseRead(c) ==
  LET b == cls[c].bucket IN
  /\ cls[c].pc = "read"
  /\ cls' = [cls EXCEPT ![c].totals = AddCounters(@, counts[b]),
                        ![c].pc = IF b = LastBucket THEN "stamp" ELSE @,
                        ![c].bucket = IF b = LastBucket THEN @ ELSE b + 1]
  /\ OnlyCls /\ UNCHANGED <<storeVars, tableVars, clock, cache, faults>>

\* AsOf is read from the clock after the counters were.
CloseStamp(c) ==
  /\ cls[c].pc = "stamp"
  /\ ReadClock
  /\ cls' = [cls EXCEPT ![c].pc = "save", ![c].totals.asOf = clock]
  /\ OnlyCls /\ UNCHANGED <<storeVars, tableVars, cache, faults>>

\* SaveSnapshot(finalized = true).
CloseSave(c) ==
  /\ cls[c].pc = "save"
  /\ \/ /\ KeepFinal \/ WriteFinal(cls[c].totals)
        /\ cls' = [cls EXCEPT ![c].pc = "header"]
     \/ /\ ~Finalized /\ poll.status = "draft"
        /\ cls' = [cls EXCEPT ![c].pc = "failed"]
        /\ UNCHANGED tableVars
  /\ OnlyCls /\ UNCHANGED <<storeVars, clock, cache, faults>>

CloseSaveFault(c) ==
  /\ cls[c].pc = "save"
  /\ Fault
  /\ WriteFinal(cls[c].totals) \/ UNCHANGED tableVars
  /\ cls' = [cls EXCEPT ![c].pc = "failed"]
  /\ OnlyCls /\ UNCHANGED <<storeVars, clock, cache>>

\* LoadResult is two queries outside any transaction: the joined header ...
LoadHeader(c) ==
  /\ cls[c].pc = "header"
  /\ cls' = [cls EXCEPT ![c].pc = "rows",
                        ![c].answer.participants = header.participants,
                        ![c].answer.finalizedAt = header.finalizedAt]
  /\ OnlyCls /\ UNCHANGED <<storeVars, tableVars, clock, cache, faults>>

\* ... and then the option rows.  A request that saved also drops its
\* replica's cache entry; one that found the poll closed does not.
LoadRows(c) ==
  /\ cls[c].pc = "rows"
  /\ cls' = [cls EXCEPT ![c].pc = "done", ![c].answer.options = rows.options]
  /\ cache' = IF cls[c].totals.asOf # NoTime
              THEN [cache EXCEPT ![ReplicaOf[c]] = "none"]
              ELSE cache
  /\ OnlyCls /\ UNCHANGED <<storeVars, tableVars, clock, faults>>

\* GetByID, Totals or LoadResult fails.
CloseReadFault(c) ==
  /\ cls[c].pc \in {"read", "header", "rows"}
  /\ Fault
  /\ cls' = [cls EXCEPT ![c].pc = "failed"]
  /\ OnlyCls /\ UNCHANGED <<storeVars, tableVars, clock, cache>>

CloseStep(c) ==
  \/ CloseLoad(c)
  \/ CloseGate(c) \/ CloseGateFault(c)
  \/ CloseRead(c) \/ CloseStamp(c)
  \/ CloseSave(c) \/ CloseSaveFault(c)
  \/ LoadHeader(c) \/ LoadRows(c)
  \/ CloseReadFault(c)

-----------------------------------------------------------------------------
(* The snapshot worker: Snapshot.run and ResultService.Snapshot.           *)

\* ListActive returned the poll; by the time of the pass it may have changed.
WorkerList(w) ==
  /\ wrk[w].pc = "idle"
  /\ poll.status = "active"
  /\ wrk' = [wrk EXCEPT ![w].pc = "lock"]
  /\ OnlyWrk /\ UNCHANGED <<storeVars, tableVars, clock, lock, faults>>

\* SET NX with a fresh token; a held lock ends the pass.
WorkerLock(w) ==
  /\ wrk[w].pc = "lock"
  /\ \/ /\ lock = NoHolder
        /\ lock' = w
        /\ wrk' = [wrk EXCEPT ![w].pc = "read"]
     \/ /\ lock # NoHolder
        /\ wrk' = [wrk EXCEPT ![w].pc = "done"]
        /\ UNCHANGED lock
  /\ OnlyWrk /\ UNCHANGED <<storeVars, tableVars, clock, faults>>

\* The reply to SET NX is lost: the lock may be held by nobody who knows it.
WorkerLockFault(w) ==
  /\ wrk[w].pc = "lock"
  /\ Fault
  /\ (lock = NoHolder /\ lock' = w) \/ UNCHANGED lock
  /\ wrk' = [wrk EXCEPT ![w].pc = "done"]
  /\ OnlyWrk /\ UNCHANGED <<storeVars, tableVars, clock>>

WorkerRead(w) ==
  LET b == wrk[w].bucket IN
  /\ wrk[w].pc = "read"
  /\ wrk' = [wrk EXCEPT ![w].totals = AddCounters(@, counts[b]),
                        ![w].pc = IF b = LastBucket THEN "stamp" ELSE @,
                        ![w].bucket = IF b = LastBucket THEN @ ELSE b + 1]
  /\ OnlyWrk /\ UNCHANGED <<storeVars, tableVars, clock, lock, faults>>

WorkerStamp(w) ==
  /\ wrk[w].pc = "stamp"
  /\ ReadClock
  /\ wrk' = [wrk EXCEPT ![w].pc = "save", ![w].totals.asOf = clock]
  /\ OnlyWrk /\ UNCHANGED <<storeVars, tableVars, lock, faults>>

\* SaveSnapshot(finalized = false): whatever the poll's status is by now.
WorkerSave(w) ==
  /\ wrk[w].pc = "save"
  /\ KeepFinal \/ WriteLive(wrk[w].totals)
  /\ wrk' = [wrk EXCEPT ![w].pc = "release"]
  /\ OnlyWrk /\ UNCHANGED <<storeVars, clock, lock, faults>>

\* Totals or SaveSnapshot fails; the deferred release still runs.
WorkerFault(w) ==
  /\ Fault
  /\ \/ wrk[w].pc = "read" /\ UNCHANGED tableVars
     \/ wrk[w].pc = "save" /\ (WriteLive(wrk[w].totals) \/ UNCHANGED tableVars)
  /\ wrk' = [wrk EXCEPT ![w].pc = "release"]
  /\ OnlyWrk /\ UNCHANGED <<storeVars, clock, lock>>

\* Mutant: the unlock deletes the key without looking at the token.
WorkerReleaseAny(w) ==
  /\ wrk[w].pc = "release"
  /\ lock' = NoHolder
  /\ wrk' = [wrk EXCEPT ![w].pc = "done"]
  /\ OnlyWrk /\ UNCHANGED <<storeVars, tableVars, clock, faults>>

\* The unlock script deletes the key only when it holds this pass's token.
WorkerRelease(w) ==
  /\ wrk[w].pc = "release"
  /\ lock' = IF lock = w THEN NoHolder ELSE lock
  /\ wrk' = [wrk EXCEPT ![w].pc = "done"]
  /\ OnlyWrk /\ UNCHANGED <<storeVars, tableVars, clock, faults>>

\* The process dies, or the release fails: the lock is left to its TTL.
WorkerCrash(w) ==
  /\ wrk[w].pc \in {"read", "stamp", "save", "release"}
  /\ Fault
  /\ wrk' = [wrk EXCEPT ![w].pc = "done"]
  /\ OnlyWrk /\ UNCHANGED <<storeVars, tableVars, clock, lock>>

WorkerStep(w) ==
  \/ WorkerList(w)
  \/ WorkerLock(w) \/ WorkerLockFault(w)
  \/ WorkerRead(w) \/ WorkerStamp(w) \/ WorkerSave(w) \/ WorkerFault(w)
  \/ WorkerRelease(w)
  \/ WorkerCrash(w)

\* The lock's TTL runs out, whether or not its holder is still at work.
LockExpire ==
  /\ lock # NoHolder
  /\ lock' = NoHolder
  /\ UNCHANGED <<storeVars, tableVars, clock, cache, faults, requests>>

-----------------------------------------------------------------------------
(* VoteService.Vote.                                                       *)

\* The status PollCache.Get answers with: the entry's, or the loaded one.
KnownStatus(r) == IF cache[r] = "none" THEN poll.status ELSE cache[r]

\* Only an active poll is kept by the loader; an entry may hold any status.
VoteLoad(v, sel) ==
  LET r == ReplicaOf[v] IN
  /\ vot[v].pc = "idle"
  /\ vot' = [vot EXCEPT ![v].choice = sel,
                        ![v].pc = IF KnownStatus(r) = "active" THEN "sent" ELSE "refused"]
  /\ cache' = IF KnownStatus(r) = "active" THEN [cache EXCEPT ![r] = "active"] ELSE cache
  /\ OnlyVot /\ UNCHANGED <<storeVars, tableVars, faults>>

\* Record: the script runs and its answer arrives.
VoteRecord(v) ==
  LET d == DeviceOf[v] IN
  /\ vot[v].pc = "sent"
  /\ \/ VoteNotActive(d) /\ vot' = [vot EXCEPT ![v].pc = "refused"]
     \/ VoteDuplicate(d) /\ vot' = [vot EXCEPT ![v].pc = "already"]
     \/ VoteCounted(d, vot[v].choice) /\ vot' = [vot EXCEPT ![v].pc = "recorded"]
  /\ OnlyVot /\ UNCHANGED <<tableVars, cache, faults>>

\* The command or its reply is lost: go-redis sends it again while the
\* request's deadline allows, or the voter gets an error.
VoteFault(v) ==
  /\ vot[v].pc = "sent"
  /\ Fault
  /\ VoteCounted(DeviceOf[v], vot[v].choice) \/ UNCHANGED storeVars
  /\ \E next \in {"sent", "error"} : vot' = [vot EXCEPT ![v].pc = next]
  /\ OnlyVot /\ UNCHANGED <<tableVars, cache>>

VoteStep(v) ==
  \/ \E sel \in Selections : VoteLoad(v, sel)
  \/ VoteRecord(v)
  \/ VoteFault(v)

\* POLL_CACHE_TTL passes on a replica.
CacheExpire(r) ==
  /\ cache[r] # "none"
  /\ cache' = [cache EXCEPT ![r] = "none"]
  /\ UNCHANGED <<storeVars, tableVars, clock, lock, faults, requests>>

-----------------------------------------------------------------------------
Next ==
  \/ \E p \in Publishers : PublishStep(p)
  \/ \E c \in Closers : CloseStep(c)
  \/ \E w \in Workers : WorkerStep(w)
  \/ \E v \in Votes : VoteStep(v)
  \/ LockExpire
  \/ \E r \in Replicas : CacheExpire(r)

Spec == Init /\ [][Next]_vars

\* A request that was started runs on: goroutines are scheduled and every
\* command is answered or times out.  Nobody has to start one, but an admin
\* whose close failed sends it again.
PublishGoesOn(p) == pub[p].pc # "idle" /\ PublishStep(p)
CloseGoesOn(c) == cls[c].pc # "idle" /\ CloseStep(c)

Fairness ==
  /\ \A p \in Publishers : WF_vars(PublishGoesOn(p))
  /\ \A c \in Closers : WF_vars(CloseGoesOn(c))

FairSpec == Spec /\ Fairness

-----------------------------------------------------------------------------
(* What holds however requests overlap.                                    *)

ChoseIn(S, o) == {d \in S : o \in ballots[d]}

\* The stored snapshot, live or final, is the tally of some set of ballots
\* that really were counted: no half-counted ballot, no participant without
\* choices, no mix of two reads, although a reader passes over the buckets
\* one by one while votes arrive, and header and option rows are upserted
\* under different conditions (redisstore.Totals, SaveSnapshot).
SnapshotIsATally ==
  \E S \in SUBSET dedup :
    /\ header.participants = Cardinality(S)
    /\ \A o \in Options : rows.options[o] = Cardinality(ChoseIn(S, o))

\* A pass loses its snapshot lock by its own release or by the lock's TTL: a
\* pass that outlived its lock and comes late to its release leaves the lock
\* of the next one alone, so that a third does not join that one.
\* (LockExpire is the only step that leaves every request as it is.)
OnlyOwnerReleases ==
  [][\A w \in Workers :
       lock = w /\ lock' # w =>
         (wrk[w].pc = "release" /\ wrk'[w].pc = "done") \/ UNCHANGED requests]_vars

\* A publish that made the draft active and succeeded is never undone: the
\* compensation of another request, however late, matches only the stamp of
\* that request's own transition (RevertPublish, and the check before it).
OwnSuccessNotUndone ==
  [][poll.status = "active" /\ poll'.status = "draft"
       => \A p \in Publishers : ~(pub[p].pc = "ok" /\ pub[p].now = poll.publishedAt)]_vars

\* Repeated and concurrent closes give the same answer: every answer that
\* carries finalized_at is the stored final result, even though header and
\* rows are read by two queries outside any transaction.
AnswersAgree ==
  \A c \in Closers :
    cls[c].pc = "done" /\ cls[c].answer.finalizedAt # NoTime
      => cls[c].answer = [participants |-> header.participants,
                          options |-> rows.options,
                          finalizedAt |-> header.finalizedAt]

\* A voter who is told "recorded" has exactly that ballot counted, at most
\* one request of a device is told so, and "already_recorded" is said only
\* to a device with a ballot; all of this across lost replies and resends.
VoteAnswersAreTrue ==
  \A v \in Votes :
    /\ vot[v].pc = "recorded" => ballots[DeviceOf[v]] = vot[v].choice
    /\ vot[v].pc = "already" => ballots[DeviceOf[v]] # {}
    /\ \A u \in Votes \ {v} :
         DeviceOf[u] = DeviceOf[v] => ~(vot[u].pc = "recorded" /\ vot[v].pc = "recorded")

\* A close that was started on an active poll is answered in the end, if the
\* admin repeats it after a failure, unless the publish it raced with was
\* compensated.  In particular a save whose reply was lost does not leave
\* the repeated request without the stored result.
CloseGetsThrough ==
  \A c \in Closers :
    cls[c].pc = "gates" ~> (cls[c].pc = "done" \/ poll.status = "draft")

-----------------------------------------------------------------------------
(* What holds when publish and close requests do not overlap.              *)

\* A final result contains every ballot that is counted now: none was missed
\* by the read behind it and none was counted after it.
FinalIsComplete ==
  Finalized => /\ header.participants = Cardinality(dedup)
               /\ \A o \in Options : rows.options[o] = Cardinality(ChoseIn(dedup, o))

\* No ballot is counted once the final result is stored, whatever a replica
\* has cached and however late a vote request gets to Redis.
NoVoteAfterFinal == [][Finalized => ballots' = ballots]_vars

\* After a successful publish and before the first close the poll takes
\* votes in every bucket, whichever other publish failed or was repeated.
PublishedIsOpen ==
  (\E p \in Publishers : pub[p].pc = "ok") /\ (\A c \in Closers : cls[c].pc = "idle")
    => \A b \in Buckets : gate[b] = "active"

-----------------------------------------------------------------------------
(* What the documentation says and overlapping requests break.             *)

\* Closed status and finalization are saved together.
ClosedIsFinalized == poll.status = "closed" => Finalized

\* A newer snapshot is not replaced by the counters of an older read.
SnapshotNeverShrinks == [][header'.participants >= header.participants]_vars
=============================================================================
