----------------------------- MODULE PollCache ------------------------------
(***************************************************************************)
(* One replica's cache of one poll definition (service/cache.go) under its *)
(* callers: vote requests that load on a miss, publish requests that warm  *)
(* it and close requests that delete the entry.  The map's mutex covers    *)
(* single steps; an entry's mutex is held across its loader, and an entry  *)
(* that left the map lives on in the requests that found it before.        *)
(***************************************************************************)
EXTENDS Integers, Sequences

CONSTANTS
  Getters,   \* VoteService.Vote requests
  Putters,   \* PollService.Publish requests of this replica
  Closers,   \* ResultService.Close requests of this replica
  TTL,       \* POLL_CACHE_TTL
  Patience,  \* how long a request may sit on a poll it has read
  MaxClock,  \* bound on the clock
  NoOwner    \* the entry's mutex is free

CacheAssumption ==
  /\ TTL \in Nat \ {0} /\ Patience \in Nat /\ MaxClock \in Nat
  /\ NoOwner \notin Getters \cup Putters
  /\ Getters \cap Putters = {} /\ Closers \cap (Getters \cup Putters) = {}

VARIABLES
  clock,
  status,      \* of the poll in PostgreSQL
  lastActive,  \* history: the last time the poll was active
  loads,       \* history: polls loaded on a miss
  current,     \* the entry in the map, or 0
  entries,     \* every entry made so far
  req          \* the requests

vars == <<clock, status, lastActive, loads, current, entries, req>>

Requests == Getters \cup Putters \cup Closers

Statuses == {"draft", "active", "closed"}

Entries == [owner: Getters \cup Putters \cup {NoOwner}, loaded: BOOLEAN, poll: Statuses, expires: Nat]

States == {"idle", "find", "lock", "load", "fill", "delete", "active", "refused", "failed", "done"}

CacheTypeOK ==
  /\ clock \in 0..MaxClock /\ lastActive \in 0..MaxClock
  /\ status \in Statuses /\ loads \in Nat
  /\ current \in 0..Len(entries)
  /\ entries \in Seq(Entries)
  /\ req \in [Requests -> [pc: States, entry: 0..Len(entries), seen: Statuses, seenAt: Nat]]

Init ==
  /\ clock = 0 /\ lastActive = 0
  /\ status = "draft"
  /\ loads = 0 /\ current = 0 /\ entries = <<>>
  /\ req = [r \in Requests |-> [pc |-> "idle", entry |-> 0, seen |-> "draft", seenAt |-> 0]]

-----------------------------------------------------------------------------
Become(s) ==
  /\ status' = s
  /\ lastActive' = IF s = "active" THEN clock ELSE lastActive

Goto(r, pc) == req' = [req EXCEPT ![r].pc = pc]

Unlocked(e) == [entries EXCEPT ![e].owner = NoOwner]

\* The entry with the poll a request read, stored under the entry's mutex.
Stored(r) ==
  [entries EXCEPT ![req[r].entry] = [owner |-> NoOwner, loaded |-> TRUE, poll |-> req[r].seen,
                                     expires |-> clock + TTL]]

\* Under the map's mutex: find the entry, or put an empty one there.
FindEntry(r) ==
  /\ IF current # 0
     THEN UNCHANGED <<current, entries>>
     ELSE /\ current' = Len(entries) + 1
          /\ entries' = Append(entries, [owner |-> NoOwner, loaded |-> FALSE,
                                         poll |-> "draft", expires |-> 0])
  /\ req' = [req EXCEPT ![r].pc = "lock", ![r].entry = current']
  /\ UNCHANGED <<clock, status, lastActive, loads>>

\* Mutant: the waiters of a loader do not look at what it loaded.
NeverFresh(e) == FALSE

Fresh(e) == entries[e].loaded /\ clock < entries[e].expires

-----------------------------------------------------------------------------
(* PollCache.Get with the loader of VoteService.Vote.                      *)

GetFind(g) == req[g].pc = "idle" /\ FindEntry(g)

\* Mutant: a hit keeps the entry alive.
GetHitExtends(g) ==
  LET e == req[g].entry IN
  /\ req[g].pc = "lock" /\ entries[e].owner = NoOwner
  /\ Fresh(e)
  /\ entries' = [entries EXCEPT ![e].expires = clock + TTL]
  /\ Goto(g, IF entries[e].poll = "active" THEN "active" ELSE "refused")
  /\ UNCHANGED <<clock, status, lastActive, loads, current>>

GetHit(g) ==
  LET e == req[g].entry IN
  /\ req[g].pc = "lock" /\ entries[e].owner = NoOwner
  /\ Fresh(e)
  /\ Goto(g, IF entries[e].poll = "active" THEN "active" ELSE "refused")
  /\ UNCHANGED <<clock, status, lastActive, loads, current, entries>>

\* The mutex stays taken while the loader runs.
GetMiss(g) ==
  LET e == req[g].entry IN
  /\ req[g].pc = "lock" /\ entries[e].owner = NoOwner
  /\ ~Fresh(e)
  /\ entries' = [entries EXCEPT ![e].owner = g]
  /\ Goto(g, "load")
  /\ UNCHANGED <<clock, status, lastActive, loads, current>>

\* Mutant: whatever status was read is kept.
GetLoadAny(g) ==
  /\ req[g].pc = "load"
  /\ req' = [req EXCEPT ![g].pc = "fill", ![g].seen = status, ![g].seenAt = clock]
  /\ UNCHANGED <<clock, status, lastActive, loads, current, entries>>

\* GetByID; the loader keeps a poll only when it is active.
GetLoad(g) ==
  /\ req[g].pc = "load"
  /\ IF status = "active"
     THEN /\ req' = [req EXCEPT ![g].pc = "fill", ![g].seen = status, ![g].seenAt = clock]
          /\ loads' = loads + 1
          /\ UNCHANGED entries
     ELSE /\ Goto(g, "refused")
          /\ entries' = Unlocked(req[g].entry)
          /\ UNCHANGED loads
  /\ UNCHANGED <<clock, status, lastActive, current>>

\* Mutant: an error return that leaves the mutex locked.
GetLoadFailsLocked(g) ==
  /\ req[g].pc = "load" /\ Goto(g, "failed")
  /\ UNCHANGED <<clock, status, lastActive, loads, current, entries>>

\* The query fails, or the request's deadline has passed.
GetLoadFails(g) ==
  /\ req[g].pc = "load"
  /\ entries' = Unlocked(req[g].entry)
  /\ Goto(g, "failed")
  /\ UNCHANGED <<clock, status, lastActive, loads, current>>

GetFill(g) ==
  /\ req[g].pc = "fill"
  /\ entries' = Stored(g)
  /\ Goto(g, "active")
  /\ UNCHANGED <<clock, status, lastActive, loads, current>>

GetStep(g) == GetFind(g) \/ GetHit(g) \/ GetMiss(g) \/ GetLoad(g) \/ GetLoadFails(g) \/ GetFill(g)

-----------------------------------------------------------------------------
(* PollService.Publish and PollCache.Put.                                  *)

\* Draft to active or a repeated publish of an active poll, then GetByID.
PublishCommit(p) ==
  /\ req[p].pc = "idle" /\ status # "closed"
  /\ Become("active")
  /\ Goto(p, "load")
  /\ UNCHANGED <<clock, loads, current, entries>>

PublishRead(p) ==
  /\ req[p].pc = "load"
  /\ req' = [req EXCEPT ![p].pc = "find", ![p].seen = status, ![p].seenAt = clock]
  /\ UNCHANGED <<clock, status, lastActive, loads, current, entries>>

\* GetByID fails, or SetupGates; what that undoes is a step of Elsewhere.
PublishFails(p) ==
  /\ req[p].pc \in {"load", "find"}
  /\ Goto(p, "failed")
  /\ UNCHANGED <<clock, status, lastActive, loads, current, entries>>

PutFind(p) == req[p].pc = "find" /\ FindEntry(p)

PutStore(p) ==
  /\ req[p].pc = "lock" /\ entries[req[p].entry].owner = NoOwner
  /\ entries' = Stored(p)
  /\ Goto(p, "done")
  /\ UNCHANGED <<clock, status, lastActive, loads, current>>

PutStep(p) ==
  PublishCommit(p) \/ PublishRead(p) \/ PublishFails(p) \/ PutFind(p) \/ PutStore(p)

-----------------------------------------------------------------------------
(* ResultService.Close and PollCache.Delete.                               *)

\* The final save; when its reply is lost or its read-back fails, the
\* request ends and nothing is deleted.
CloseSave(c) ==
  /\ req[c].pc = "idle" /\ status = "active"
  /\ Become("closed")
  /\ Goto(c, "delete") \/ Goto(c, "failed")
  /\ UNCHANGED <<clock, loads, current, entries>>

\* Mutant: the entry is emptied and stays in the map.
DeleteInPlace(c) ==
  /\ req[c].pc = "delete"
  /\ entries' = IF current = 0 THEN entries ELSE [entries EXCEPT ![current].loaded = FALSE]
  /\ Goto(c, "done")
  /\ UNCHANGED <<clock, status, lastActive, loads, current>>

\* Mutant: the entry is freed although requests still hold it.
DeleteAndFree(c) ==
  /\ req[c].pc = "delete"
  /\ current' = 0 /\ entries' = <<>>
  /\ Goto(c, "done")
  /\ UNCHANGED <<clock, status, lastActive, loads>>

Delete(c) ==
  /\ req[c].pc = "delete"
  /\ current' = 0
  /\ Goto(c, "done")
  /\ UNCHANGED <<clock, status, lastActive, loads, entries>>

CloseStep(c) == CloseSave(c) \/ Delete(c)

-----------------------------------------------------------------------------
\* Another replica publishes or closes, or a failed publish is undone.
Elsewhere ==
  /\ \/ status = "draft" /\ Become("active")
     \/ status = "active" /\ (Become("draft") \/ Become("closed"))
  /\ UNCHANGED <<clock, loads, current, entries, req>>

\* Nobody sits on a poll it has read for longer than Patience.
Tick ==
  /\ clock < MaxClock
  /\ \A r \in Getters \cup Putters :
       req[r].pc = "fill" \/ (r \in Putters /\ req[r].pc \in {"find", "lock"})
         => clock - req[r].seenAt < Patience
  /\ clock' = clock + 1
  /\ lastActive' = IF status = "active" THEN clock + 1 ELSE lastActive
  /\ UNCHANGED <<status, loads, current, entries, req>>

Next ==
  \/ \E g \in Getters : GetStep(g)
  \/ \E p \in Putters : PutStep(p)
  \/ \E c \in Closers : CloseStep(c)
  \/ Elsewhere
  \/ Tick

Spec == Init /\ [][Next]_vars

\* Goroutines are scheduled, queries are answered or time out, and a free
\* mutex is taken by somebody who waits for it.
Fairness ==
  /\ \A g \in Getters : WF_vars(req[g].pc # "idle" /\ GetStep(g))
  /\ \A p \in Putters : WF_vars(req[p].pc # "idle" /\ PutStep(p))

-----------------------------------------------------------------------------
\* Who holds the mutex of an entry in the middle of a load.
Loading(e) == {g \in Getters : req[g].entry = e /\ req[g].pc \in {"load", "fill"}}

\* An entry is locked by exactly the request that is loading it; in
\* particular no request runs a loader for an entry another one is loading,
\* and no entry stays locked when its loader has returned.
OneLoaderPerEntry ==
  \A e \in 1..Len(entries) :
    Loading(e) = (IF entries[e].owner = NoOwner THEN {} ELSE {entries[e].owner})

\* However many votes arrive at once, a poll is read by one of them at a time
\* and once per entry and TTL (plus the reads that fail or find the poll not
\* active): the waiters of a loader use what it loaded.
LoadsAreCoalesced == OneLoaderPerEntry /\ loads <= Len(entries) * (1 + clock \div TTL)

\* What a request that looks the poll up now finds, or will find once the
\* load in flight is done.
Visible ==
  IF current = 0 THEN "none"
  ELSE IF Fresh(current) THEN entries[current].poll
  ELSE IF \E g \in Getters : req[g].entry = current /\ req[g].pc = "fill" THEN "active" ELSE "none"

\* Once a close has deleted the entry, no vote of this replica brings the
\* poll back as active: a load that read it before the close and returns
\* after it fills an entry nobody can find any more.  Only a publish that
\* read the poll before the close and stores it after does bring it back.
ClosedIsForgotten ==
  (\E c \in Closers : req[c].pc = "done") /\ Visible = "active" =>
    \E p \in Putters : req[p].pc = "done" /\ req[p].seen = "active" /\ req[p].entry = current

\* A vote is let through on a definition that was true not longer ago than
\* the cache's TTL and the time its reader sat on it, whatever other
\* replicas do without telling this one.
StalenessIsBounded ==
  [][\A g \in Getters : req[g].pc # "active" /\ req'[g].pc = "active"
       => clock - lastActive < TTL + Patience]_vars

\* Seen from outside the cache is one remembered status that is loaded,
\* warmed, dropped and forgotten in single steps.
Atomic ==
  INSTANCE StatusCache WITH
    visible <- Visible,
    warm <- [p \in Putters |-> IF req[p].pc \in {"find", "lock"} THEN req[p].seen ELSE "none"]

IsAtomicCache == Atomic!CacheSpec

\* Every vote gets past the cache, also the ones that wait for a loader
\* that fails.
EveryGetReturns ==
  \A g \in Getters : req[g].pc = "lock" ~> req[g].pc \in {"active", "refused", "failed"}
=============================================================================
