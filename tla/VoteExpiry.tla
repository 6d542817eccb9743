----------------------------- MODULE VoteExpiry -----------------------------
(***************************************************************************)
(* The keys of one bucket in time: TTLs, expiry, and the append-only file  *)
(* behind them.  The steps of a publish or a close are merged here, their  *)
(* interleavings are PollService's subject; what is kept is when each key  *)
(* is written, how long it lives, and what a crash of Redis takes away.    *)
(***************************************************************************)
EXTENDS Integers, FiniteSets

CONSTANTS
  Devices,
  EndsAt,      \* ends_at of the poll; it starts at 0
  Retention,   \* REDIS_RETENTION
  MaxTTL,      \* MAX_REDIS_TTL
  MaxClock,    \* bound on the clock
  MaxCrashes,  \* bound on crashes of Redis
  LateClose    \* TRUE: a poll may be closed after ends_at + REDIS_RETENTION

ASSUME ExpiryAssumption ==
  /\ IsFiniteSet(Devices)
  /\ EndsAt \in Nat \ {0} /\ Retention \in Nat \ {0} /\ MaxTTL \in Nat \ {0}
  /\ MaxClock \in Nat /\ MaxCrashes \in Nat /\ LateClose \in BOOLEAN

VARIABLES
  clock,
  status,   \* of the poll in PostgreSQL
  snap,     \* the stored snapshot
  mem,      \* Redis: each key's value and the time it expires, 0 if absent
  disk,     \* what the append-only file restores
  counted,  \* history: how often each device was told "recorded"
  synced,   \* history: devices whose marker the file has
  crashes

expiryVars == <<clock, status, snap, mem, disk, counted, synced, crashes>>

\* No key outlives the retention, or the second it has at least.
Times == 0..(IF MaxClock + 1 > EndsAt + Retention THEN MaxClock + 1 ELSE EndsAt + Retention)

Keys == [gate: {"none", "active", "closed"}, gateUntil: Times, marker: [Devices -> Times],
         n: Nat, nUntil: Times]

ExpiryTypeOK ==
  /\ clock \in 0..MaxClock /\ status \in {"draft", "active", "closed"}
  /\ snap \in [n: Nat, final: BOOLEAN]
  /\ mem \in Keys /\ disk \in Keys
  /\ counted \in [Devices -> Nat] /\ synced \subseteq Devices /\ crashes \in 0..MaxCrashes

NoKeys == [gate |-> "none", gateUntil |-> 0, marker |-> [d \in Devices |-> 0], n |-> 0, nUntil |-> 0]

ExpiryInit ==
  /\ clock = 0 /\ status = "draft" /\ snap = [n |-> 0, final |-> FALSE]
  /\ mem = NoKeys /\ disk = NoKeys
  /\ counted = [d \in Devices |-> 0] /\ synced = {} /\ crashes = 0

-----------------------------------------------------------------------------
\* Mutant: the retention is left out.
TTLToEnd == IF EndsAt - clock < 1 THEN 1 ELSE EndsAt - clock

TTL ==
  LET ttl == EndsAt - clock + Retention
  IN  IF ttl > MaxTTL THEN MaxTTL ELSE IF ttl < 1 THEN 1 ELSE ttl

Gate == IF clock < mem.gateUntil THEN mem.gate ELSE "none"
Marked == {d \in Devices : clock < mem.marker[d]}
Count == IF clock < mem.nUntil THEN mem.n ELSE 0

WithGate(g) == [mem EXCEPT !.gate = g, !.gateUntil = clock + TTL]

\* Publish, also the repeated publish of an active poll; ends_at is not looked at.
Publish ==
  /\ status \in {"draft", "active"}
  /\ status' = "active"
  /\ mem' = WithGate("active")
  /\ UNCHANGED <<clock, snap, disk, counted, synced, crashes>>

\* Mutant: a marker lives a second.
VoteShortMarker(d) ==
  /\ clock < EndsAt /\ Gate = "active" /\ d \notin Marked
  /\ mem' = [mem EXCEPT !.marker[d] = clock + 1, !.n = Count + 1, !.nUntil = clock + TTL]
  /\ counted' = [counted EXCEPT ![d] = @ + 1]
  /\ UNCHANGED <<clock, status, snap, disk, synced, crashes>>

\* Mutant: marker and counter are written by two commands and a crash of
\* the file's last second separates them.
VoteTorn(d) ==
  /\ clock < EndsAt /\ Gate = "active" /\ d \notin Marked
  /\ mem' = [mem EXCEPT !.marker[d] = clock + TTL, !.n = Count + 1, !.nUntil = clock + TTL]
  /\ disk' = [disk EXCEPT !.marker[d] = clock + TTL]
  /\ counted' = [counted EXCEPT ![d] = @ + 1]
  /\ UNCHANGED <<clock, status, snap, synced, crashes>>

\* Record inside the poll's window; a vote that changes nothing is a stutter.
Vote(d) ==
  /\ clock < EndsAt /\ Gate = "active" /\ d \notin Marked
  /\ mem' = [mem EXCEPT !.marker[d] = clock + TTL, !.n = Count + 1, !.nUntil = clock + TTL]
  /\ counted' = [counted EXCEPT ![d] = @ + 1]
  /\ UNCHANGED <<clock, status, snap, disk, synced, crashes>>

\* A worker pass over the active poll: missing counters read as zero.
Snapshot ==
  /\ status = "active"
  /\ snap' = [snap EXCEPT !.n = Count]
  /\ UNCHANGED <<clock, status, mem, disk, counted, synced, crashes>>

\* Mutant: the last snapshot is made final without reading Redis again.
CloseUncounted ==
  /\ status = "active" /\ (LateClose \/ clock < EndsAt + Retention)
  /\ status' = "closed" /\ mem' = WithGate("closed") /\ snap' = [snap EXCEPT !.final = TRUE]
  /\ UNCHANGED <<clock, disk, counted, synced, crashes>>

Close ==
  /\ status = "active"
  /\ LateClose \/ clock < EndsAt + Retention
  /\ status' = "closed"
  /\ mem' = WithGate("closed")
  /\ snap' = [n |-> Count, final |-> TRUE]
  /\ UNCHANGED <<clock, disk, counted, synced, crashes>>

-----------------------------------------------------------------------------
Tick ==
  /\ clock < MaxClock
  /\ clock' = clock + 1
  /\ UNCHANGED <<status, snap, mem, disk, counted, synced, crashes>>

\* appendfsync everysec: every script and command is one entry of the file.
Fsync ==
  /\ disk' = mem /\ synced' = Marked
  /\ UNCHANGED <<clock, status, snap, mem, counted, crashes>>

\* Redis restarts from the file; expired keys stay expired.
Crash ==
  /\ crashes < MaxCrashes
  /\ crashes' = crashes + 1
  /\ mem' = disk
  /\ UNCHANGED <<clock, status, snap, disk, counted, synced>>

ExpiryNext ==
  \/ Publish \/ Snapshot \/ Close
  \/ \E d \in Devices : Vote(d)
  \/ Tick \/ Fsync \/ Crash

ExpirySpec == ExpiryInit /\ [][ExpiryNext]_expiryVars

-----------------------------------------------------------------------------
Voters == {d \in Devices : counted[d] > 0}

\* While Redis does not crash, a device is counted at most once, also when a
\* repeated publish renews the gates: markers outlive the poll's window.  (Not
\* under a tight MAX_REDIS_TTL.)
CountedOnce == crashes = 0 => \A d \in Devices : counted[d] <= 1

\* While Redis does not crash, nothing is forgotten before ends_at + retention:
\* marker by marker, and in the counter, whose TTL every vote renews.
KeptUntilRetention ==
  crashes = 0 /\ clock < EndsAt + Retention => Marked = Voters /\ Count = Cardinality(Voters)

\* A poll closed in time, before any crash, has everybody in its final result.
FinalCountsEverybody == crashes = 0 /\ snap.final => snap.n = Cardinality(Voters)

\* Whatever is lost in a crash and whatever expires, the counter is the
\* number of markers: a ballot is lost together with its marker, so that
\* voting again counts it once.
CounterMatchesMarkers == Count = Cardinality(Marked)

\* A ballot that has reached the file is not lost before the retention ends.
SyncedSurvives == clock < EndsAt + Retention => synced \subseteq Marked

-----------------------------------------------------------------------------
(* What the documentation says and a loss of keys breaks.                  *)

\* A snapshot keeps the ballots that Redis has lost.
SnapshotNeverLoses == [][snap'.n >= snap.n]_expiryVars
=============================================================================
