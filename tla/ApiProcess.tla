----------------------------- MODULE ApiProcess -----------------------------
(***************************************************************************)
(* API processes that start, check VOTE_BUCKETS against the active polls,  *)
(* serve and stop (cmd/api, config.Load, ValidateActiveBuckets), and what  *)
(* their bucket count does to the votes: each process derives gates,       *)
(* markers and totals from its own value, never from a poll's vote_buckets.*)
(* A publish whose gates fail takes the poll back to draft and leaves the  *)
(* markers, so a poll may be published more than once.                     *)
(*                                                                         *)
(* A device's hash is a number; a request is one step, a compensated       *)
(* publish two.  A replica's cache never forgets by itself: an entry that  *)
(* expired is one that no vote uses.                                       *)
(***************************************************************************)
EXTENDS Integers, FiniteSets

CONSTANTS
  Replicas,
  Polls,
  Devices,     \* hash values
  Sizes,       \* values of VOTE_BUCKETS an operator may set
  Intervals,   \* values of SNAPSHOT_INTERVAL an operator may set
  RollingChange,  \* FALSE: settings change only while no process runs
  NoResult     \* the poll has no final result

ApiAssumption ==
  /\ Devices \subseteq Nat /\ IsFiniteSet(Devices)
  /\ Sizes \subseteq Nat /\ Intervals \subseteq Nat /\ RollingChange \in BOOLEAN
  /\ NoResult \notin Nat

VARIABLES
  env,     \* the settings a process started now gets
  proc,    \* the processes: their state and the settings they started with
  poll,    \* each poll's row: status and vote_buckets
  gates,   \* each poll's buckets with an active gate
  marks,   \* each poll's markers: a device in a bucket
  result,  \* each poll's final participants
  known,   \* the polls that each replica's cache may hold as active
  undoing, \* each poll's replicas whose publish failed and is to be taken back
  counts   \* history: the bucket counts each poll was published with

vars == <<env, proc, poll, gates, marks, result, known, undoing, counts>>

\* valid: every other variable parses and passes its check.
Settings == [buckets: Sizes, interval: Intervals, valid: BOOLEAN]

ApiTypeOK ==
  /\ env \in Settings
  /\ proc \in [Replicas -> [pc: {"down", "check", "up", "panicked"}, cfg: Settings]]
  /\ poll \in [Polls -> [status: {"draft", "active", "closed"}, buckets: Sizes]]
  /\ gates \in [Polls -> SUBSET UNION {0..n - 1 : n \in Sizes}]
  /\ marks \in [Polls -> SUBSET (Devices \X UNION {0..n - 1 : n \in Sizes})]
  /\ result \in [Polls -> Nat \cup {NoResult}]
  /\ known \in [Replicas -> SUBSET Polls]
  /\ undoing \in [Polls -> SUBSET Replicas]
  /\ counts \in [Polls -> SUBSET Sizes]

Init ==
  /\ env \in Settings
  /\ proc = [r \in Replicas |-> [pc |-> "down", cfg |-> env]]
  /\ poll = [p \in Polls |-> [status |-> "draft", buckets |-> env.buckets]]
  /\ gates = [p \in Polls |-> {}] /\ marks = [p \in Polls |-> {}]
  /\ result = [p \in Polls |-> NoResult]
  /\ known = [r \in Replicas |-> {}]
  /\ undoing = [p \in Polls |-> {}] /\ counts = [p \in Polls |-> {}]

pollVars == <<poll, gates, marks, result, counts>>
memory == <<known, undoing>>

-----------------------------------------------------------------------------
\* The operator edits the environment.
Reconfigure ==
  /\ RollingChange \/ \A r \in Replicas : proc[r].pc \in {"down", "panicked"}
  /\ env' \in Settings
  /\ UNCHANGED <<proc, pollVars, memory>>

\* config.Load: VOTE_BUCKETS is checked, SNAPSHOT_INTERVAL need only parse.
Load(cfg) == cfg.valid /\ cfg.buckets >= 1 /\ cfg.buckets <= 4096

Start(r) ==
  /\ proc[r].pc = "down" /\ Load(env)
  /\ proc' = [proc EXCEPT ![r] = [pc |-> "check", cfg |-> env]]
  /\ UNCHANGED <<env, pollVars, memory>>

\* Mutant: drafts and closed polls are looked at, active ones are not.
Other(p, n) == poll[p].status # "active" /\ poll[p].buckets # n

Unsafe(p, n) == poll[p].status = "active" /\ poll[p].buckets # n

\* ValidateActiveBuckets, then the server listens and the worker makes its
\* ticker, which panics for an interval of zero.
Check(r) ==
  LET cfg == proc[r].cfg IN
  /\ proc[r].pc = "check"
  /\ proc' = [proc EXCEPT ![r].pc = IF \E p \in Polls : Unsafe(p, cfg.buckets) THEN "down"
                                    ELSE IF cfg.interval <= 0 THEN "panicked" ELSE "up"]
  /\ UNCHANGED <<env, pollVars, memory>>

\* A signal, a crash, or a dependency that does not answer at start-up; what
\* the process remembered and had still to do is gone.
Stop(r) ==
  /\ proc[r].pc \in {"check", "up"}
  /\ proc' = [proc EXCEPT ![r].pc = "down"]
  /\ known' = [known EXCEPT ![r] = {}]
  /\ undoing' = [p \in Polls |-> undoing[p] \ {r}]
  /\ UNCHANGED <<env, pollVars>>

BucketsOf(r) == 0..proc[r].cfg.buckets - 1

\* Bucket: the device's hash modulo the process's own number.
Bucket(r, d) == d % proc[r].cfg.buckets

\* repo.Publish: a draft adopts this process's number; an active poll stays.
CommitPublish(r, p) ==
  LET n == IF poll[p].status = "draft" THEN proc[r].cfg.buckets ELSE poll[p].buckets IN
  /\ proc[r].pc = "up" /\ poll[p].status \in {"draft", "active"}
  /\ poll' = [poll EXCEPT ![p] = [status |-> "active", buckets |-> n]]
  /\ counts' = [counts EXCEPT ![p] = IF poll[p].status = "draft" THEN @ \cup {n} ELSE @]

\* A repeated publish sets the gates, too, and warms the cache.
Publish(r, p) ==
  /\ CommitPublish(r, p)
  /\ gates' = [gates EXCEPT ![p] = @ \cup BucketsOf(r)]
  /\ known' = [known EXCEPT ![r] = @ \cup {p}]
  /\ UNCHANGED <<env, proc, marks, result, undoing>>

\* GetByID fails, or SetupGates after the first k gates; a request that made
\* the draft active goes on to take that back.
PublishFails(r, p) ==
  /\ CommitPublish(r, p)
  /\ \E k \in 0..proc[r].cfg.buckets : gates' = [gates EXCEPT ![p] = @ \cup 0..k - 1]
  /\ undoing' = [undoing EXCEPT ![p] = IF poll[p].status = "draft" THEN @ \cup {r} ELSE @]
  /\ UNCHANGED <<env, proc, marks, result, known>>

\* RevertPublish, whose UPDATE finds the poll active with the request's own
\* stamp or does nothing, and DeleteGates; either may fail.  No marker goes.
Compensate(r, p) ==
  /\ proc[r].pc = "up" /\ r \in undoing[p]
  /\ undoing' = [undoing EXCEPT ![p] = @ \ {r}]
  /\ \/ /\ poll[p].status = "active"
        /\ poll' = [poll EXCEPT ![p].status = "draft"]
        /\ gates' = [gates EXCEPT ![p] = @ \ BucketsOf(r)] \/ gates' = gates
     \/ UNCHANGED <<poll, gates>>
  /\ UNCHANGED <<env, proc, marks, result, known, counts>>

\* The cache's entry or the row says active, and so does the gate.  A vote
\* that is refused or a duplicate changes nothing but the cache.
Vote(r, p, d) ==
  /\ proc[r].pc = "up" /\ Bucket(r, d) \in gates[p]
  /\ poll[p].status = "active" \/ p \in known[r]
  /\ marks' = [marks EXCEPT ![p] = @ \cup {<<d, Bucket(r, d)>>}]
  /\ known' = [known EXCEPT ![r] = @ \cup {p}]
  /\ UNCHANGED <<env, proc, poll, gates, result, undoing, counts>>

Total(r, p) == Cardinality({m \in marks[p] : m[2] \in BucketsOf(r)})

\* The cache's entry goes, unless the reply of the save was lost.
Close(r, p) ==
  /\ proc[r].pc = "up" /\ poll[p].status = "active"
  /\ poll' = [poll EXCEPT ![p].status = "closed"]
  /\ gates' = [gates EXCEPT ![p] = @ \ BucketsOf(r)]
  /\ result' = [result EXCEPT ![p] = Total(r, p)]
  /\ known' = [known EXCEPT ![r] = @ \ {p}] \/ known' = known
  /\ UNCHANGED <<env, proc, marks, undoing, counts>>

\* CloseGates fails after the first k gates, or Totals or the save after it.
CloseFails(r, p) ==
  /\ proc[r].pc = "up" /\ poll[p].status = "active"
  /\ \E k \in 0..proc[r].cfg.buckets : gates' = [gates EXCEPT ![p] = @ \ 0..k - 1]
  /\ UNCHANGED <<env, proc, poll, marks, result, memory, counts>>

Next ==
  \/ Reconfigure
  \/ \E r \in Replicas : Start(r) \/ Check(r) \/ Stop(r)
  \/ \E r \in Replicas, p \in Polls :
       \/ Publish(r, p) \/ PublishFails(r, p) \/ Compensate(r, p)
       \/ Close(r, p) \/ CloseFails(r, p)
  \/ \E r \in Replicas, p \in Polls, d \in Devices : Vote(r, p, d)

Spec == Init /\ [][Next]_vars

-----------------------------------------------------------------------------
Voters(p) == {m[1] : m \in marks[p]}

\* Every device is counted in one bucket, and a final result counts every
\* device and nobody afterwards, across restarts with other settings.
CountsOnce(p) ==
  /\ Cardinality(marks[p]) = Cardinality(Voters(p))
  /\ result[p] # NoResult => result[p] = Cardinality(Voters(p))

\* No poll counts a device twice or leaves one out, whatever failed before.
DevicesCountOnce == \A p \in Polls : CountsOnce(p)

\* Only a poll that was published with different numbers of buckets, which
\* takes a publish taken back and a restart, may count a device twice, and
\* then once for each of the numbers.
OnlyRepublishingSplits ==
  \A p \in Polls :
    /\ Cardinality(counts[p]) <= 1 => CountsOnce(p)
    /\ \A m \in marks[p] : \E n \in counts[p] : m[2] = m[1] % n

\* Whoever serves puts a device in the bucket the active poll's row says.
ServesWithPollsBuckets ==
  \A r \in Replicas, p \in Polls :
    proc[r].pc = "up" /\ poll[p].status = "active" => proc[r].cfg.buckets = poll[p].buckets

\* A process whose settings were accepted does not panic.
AcceptedSettingsRun == \A r \in Replicas : proc[r].pc # "panicked"
=============================================================================
