# Verification of the poll service

TLA+ models, TLC runs and TLAPS proofs for the poll service in this repository: an HTTP API that lets an
administrator create, publish and close polls and lets devices vote. Redis holds the live state of an active
poll, PostgreSQL its definition and its snapshots and final result.

## The system

| Component | State | Operations | Talks to |
|---|---|---|---|
| Redis vote store (`internal/redisstore`) | per bucket: gate, dedup markers, counter hash; a snapshot lock per poll; rate keys | `SetupGates`, `CloseGates`, `DeleteGates`, `Record` (vote.lua), `Totals`, lock acquire/release, `AllowRate` | Redis commands, pipelines and scripts |
| Poll tables (`internal/postgres`) | `polls`, `poll_runtime_results`, `poll_option_results` | `Create`, `Publish`, `RevertPublish`, `SaveSnapshot`, `LoadResult`, `ListActive`, `ValidateActiveBuckets` | SQL transactions that lock the polls row |
| `PollService` | none | `Publish` with compensation | tables, gates, cache |
| `ResultService` | none | `Close`, `Snapshot`, `Results` | gates and counters, tables, cache |
| `VoteService` | none | `Vote` | cache, tables on a miss, vote script |
| Snapshot worker (`internal/worker`) | none (its lock is in Redis) | one pass over the active polls per tick, on every replica | `ResultService.Snapshot` |
| Poll cache (`internal/service/cache.go`) | one entry per poll and replica, with a mutex and an expiry | `Get` (one loader at a time), `Put`, `Delete` | the loader of a vote |
| Device identity and poll page (`internal/identity`, `poll.js`) | a signed cookie in each browser | issue, verify | vote and poll handlers |
| HTTP handlers and metrics (`internal/httpapi`) | counters, some under a mutex, some atomic | `getPoll`, `vote`, the middleware, `/metrics` | the services |
| Rate limiter | a counter per network and minute | `AllowRate` | Redis script |
| Redis keys in time | a TTL per key, the append-only file | `TTL`, expiry, crash and restart of Redis | every writer of the vote store |
| Process and configuration (`cmd/api`, `internal/config`) | `VOTE_BUCKETS` of a process, `vote_buckets` of a poll | `Load`, `ValidateActiveBuckets`, worker start, stop | tables |
| Migrations (`cmd/migrate`) | `schema_migrations`, an advisory lock | `Migrate` | PostgreSQL |
| Poll definitions (`internal/domain`, `Create`, `ListRecent`) | rows of `polls` and `poll_options` | `Validate`, `Create`, `get`, `ListRecent`, `ValidateSelection` | tables |
| Admin panel (`admin.js`) | open poll, list, timer, results on the screen | open, publish, close, refresh, reload | admin handlers |
| QR codes, contract, deployment | a write-once cache | | |

Requests of several replicas share Redis and PostgreSQL and nothing else. A lifecycle operation is a sequence of
Redis commands and SQL transactions: no lock is held across it (close does not take the snapshot lock), and a
request that fails half way leaves what it did. The hard behaviours are therefore

- interleavings of publish, close, snapshot passes and votes between any two commands, in particular between the
  SETs of two pipelines over the same gates;
- steps that fail with or without effect, and requests that are repeated after such a failure;
- clock stamps of different processes that decide which snapshot stays;
- a lock with a TTL that its holder may outlive; replicas that die holding it;
- caches of other replicas that keep saying "active", and loads in flight while an entry is put or deleted;
- keys that expire on their own, by a TTL computed when they were last written, and a store that may lose its last
  second;
- answers that are lost, repeated or overtaken on the way to a browser, which then votes again or shows them.

`PROJECT.json` lists each hazard at its line with the properties that cover it.

## Modules

| Module | Models | Rests on |
|---|---|---|
| `PollDomain` | statuses, selections, totals, `addCounters` | |
| `VoteStore` | the Redis side of one poll; an action is one command or script call | `PollDomain` |
| `PollStore` | the PostgreSQL side of one poll; an action is one transaction | `PollDomain` |
| `PollService` | publish, close, snapshot and vote requests on several replicas | `VoteStore`, `PollStore` |
| `PollContract` | the abstract promise of a poll | `PollDomain` |
| `StatusCache` | what the service may assume of the poll cache: one remembered status | |
| `PollCache` | the cache of one replica with its map and entry mutexes and loaders | implements `StatusCache` |
| `VoteEndpoint` | a browser's cookie jar, the page and vote handlers, the metrics and a scrape | |
| `RateLimit` | the counters per network and minute under clocks that differ | |
| `CounterSum` | `addCounters` at a small integer width | |
| `VoteExpiry` | the keys of one bucket with TTLs, crashes of Redis, the append-only file | |
| `SnapshotRound` | rounds of the snapshot workers over several polls | |
| `Migrate` | concurrent `migrate up` commands that fail and are killed | |
| `ApiProcess` | processes that start, check `VOTE_BUCKETS`, serve and stop | |
| `AdminPanel` | the panel in a browser tab against late and lost answers | |
| `PollDefinitions` | definitions from the request to the list and the selections | `PollDomain` |
| `MCPollService` | instances of `PollService` for TLC and the refinement of `PollContract` | |
| `MCVotePath`, `MCOperations`, `MCAdministration` | instances of the other components for TLC | |
| `StoreProofs` | theorems about `VoteStore` and `PollStore` for arbitrary callers | the proof library |
| `PollServiceProofs`, `PollAnswerProofs`, `PollLifecycleProofs` | theorems about `PollService`: however requests overlap, and one at a time; the contract | `StoreProofs` |
| `VoteEndpointProofs`, `VotePathProofs` | theorems about `VoteEndpoint`, and about the parts of `MCVotePath` | the proof library |
| `OperationsProofs`, `AdministrationProofs` | theorems about the parts of `MCOperations` and `MCAdministration` | the proof library |

The last three harness modules each hold several components that share no state. Their `Init` picks one (`part`); its
steps are explored in full, the others stay as they start. So a run is the union of its parts' state graphs, and a
property of a part is checked exactly on that part's behaviours (the others do not move).

**One poll.** Every Redis key carries the poll id and every statement has `WHERE id/poll_id = $1`, so polls do not
interact; the models have one.

**Data.** A selection is a set of options, a device a number, a timestamp a number with `NoTime` for NULL. The
option ids and texts, JSON, HTTP codes and log lines are left out.

**VoteStore.** `VoteNotActive`, `VoteDuplicate` and `VoteCounted` are the three answers of `vote.lua`. `SetGate` is one
SET of the pipelines of `SetupGates` and `CloseGates`, `DeleteGates` the one DEL with all keys. `ballots` is a history
variable: the selection behind each marker, which Redis does not keep. `StoreNext` lets anybody send any command;
what holds for it holds for every caller.

**PollStore.** `Publish` and `SaveSnapshot` start with `SELECT ... FOR UPDATE` of the polls row and `RevertPublish` is one
UPDATE of it, so the transactions are atomic. `KeepFinal` is the early return on an existing final result; `WriteLive`
and `WriteFinal` are the two modes of `SaveSnapshot`, built from the two upserts with their different conditions:
`UpsertHeader` looks at `finalized_at` and `captured_at`, `UpsertRows` at `captured_at` only. `TableNext` takes any totals
and stamps in any order.

**PollService.** A request is a process with a program counter in a record (`pub`, `cls`, `wrk`, `vot`); its steps are
the commands and transactions of the code in their order. What the code reads and uses later is in the record:
`seen`/`seenAt` is the poll that `GetByID` returned after the publish commit, `totals` the counters read so far, `bucket`
the position in a pipeline. Three details carry most of the weight and are modelled as the code has them:

- `repo.Publish` commits and then loads the poll again, so the gates may be set for a poll that changed meanwhile;
- `Totals` reads the buckets one by one and takes `AsOf` after the last one;
- `LoadResult` is two queries outside any transaction.

A fault step exists for every command that can fail: its effect happens or not, the caller gets an error either
way, and the handler goes where its error path goes (compensation, plain failure, deferred release). A pipeline may
fail after any prefix. A vote command whose reply is lost may be sent again by go-redis. A worker may crash
anywhere and leave its lock; the lock may expire at any time. A crash of a replica in the middle of a publish or a
close is a fault at that step for which the error path does nothing (for the compensation: a failing revert).

**PollCache.** `find`, `lock`, `load`, `fill` are the sections of `Get` between its mutexes: the map's mutex covers one step,
the entry's is held from `GetMiss` to `GetFill` while the loader runs. Entries are numbered as they are made; an entry that a
close took out of the map lives on in the requests that had found it, as a Go pointer does. `visible` of `StatusCache` is what
a request would find now, or will find when the load in flight on the current entry is done; it may turn from `"none"` to
`"active"` only while the poll is active, except by a publish that had read the status before.
Publishes and closes of a replica overlap freely and may fail; `Elsewhere` is what other replicas, and compensations, do to the polls
row. So a publish that read the poll as active may store it after a close deleted the entry, and `ClosedIsForgotten` says that nothing else brings it back.

**VoteEndpoint.** A request sends the jar's cookie, is identified, takes effect, is counted in the metrics, is observed by the
middleware, and its answer arrives or is lost. `Observe` and rejections wait for a scrape, which holds the mutex; the outcome
counters are atomics and do not. A vote whose reply
is lost is sent again by go-redis, which finds the marker, or fails. The store is a set of marked devices (`VoteStore` has its detail).

**RateLimit.** Time runs in ticks of Redis; a replica's clock is ahead by its offset. `AllowRate` is the script, with INCR and
the EXPIRE of a new key in one step. `From` says independently of `NetworkHash` who a request is from.

**VoteExpiry.** A key is its value and the time it expires; `TTL` has the code's cap and floor. A publish or a close is one
step here. The append-only file is synced as a whole at any moment, a crash restores it, and the clock runs on meanwhile.

**SnapshotRound.** A round lists the active polls, loads each, and tries lock, save and release for one after the other in any
order. `ok`, `err` and `saved` are what the round reports and what it did. Lock, totals and save of one poll are coarser than in
`PollService`.

**Migrate.** A command looks for the version table and makes it, waits for the advisory lock, and for each script looks it up
and applies it with its version row in one transaction. `Fail` may strike anywhere and frees the lock; `CREATE TABLE IF NOT
EXISTS` is the two steps it is inside PostgreSQL.

**ApiProcess.** `Load` and `Check` are the start; a request is one step, but a publish that fails after some of its gates and its
compensation are two (`PublishFails`, `Compensate`), with votes, closes and crashes between them. The compensation takes the poll
back to draft, may delete the gates, and leaves markers and counters. Each process works with its own bucket count, never with the
poll's, and with its own memory of active polls (`known`); `counts` is the history of the bucket counts a poll was published with.

**AdminPanel** has one action per handler and per answer; the server answers a request in one step, and other
admins act freely. **PollDefinitions** counts time in half microseconds because validation sees what the table rounds away;
texts are their lengths, `AddRow` is the loop that puts joined rows together.

**PollContract.** A poll is opened (or taken back by a failed publish), each device has one ballot that never changes,
and closing turns exactly the ballots counted so far into a result that stays. `MCPollService` maps `status` to the
polls row, `ballots` to the history and `result` to header and rows once `finalized_at` is set.

## Runs

| Run | Instance | Shows |
|---|---|---|
| `service_serial` | 2 publishes, 2 closes, 3 votes (2 of one device), 2 faults, no worker, admin requests one at a time | the contract; truthful answers; counters equal ballots; a published poll is open in every bucket |
| `service_stale_cache` | 2 replicas, 1 publish, 2 closes, 1 worker pass, 2 votes, 1 fault, admin requests one at a time | a final result is complete, no ballot after it |
| `service_overlap` | 2 publishes, 2 closes, 1 vote, 1 fault, any interleaving | final results and closed polls stay, answers agree, successful transitions are not undone |
| `service_snapshots` | 1 publish, 1 close, 2 worker passes, 2 votes | a stored snapshot is the tally of real ballots; stamps grow; a pass loses its lock only by its own release or by the TTL |
| `service_liveness` | 1 publish, 2 closes, 2 faults, 1 bucket | a repeated close gets through |
| `vote_path` | cache: 2 votes, a publish, a close, TTL 2; tab: 2 votes, 2 page loads, 2 faults; clients: 3 votes, 1 fault; limiter: 2 replicas, 3 requests; sums: 2 buckets, 3 fields | the cache implements its atomic form, coalesces loads, forgets a close unless a publish overlapped it, bounds staleness and lets every vote past; one ballot per browser; metrics add up; the limit holds per window, and two or three times per minute; sums are exact |
| `operations` | 3 migrators, 2 scripts, 2 faults; 3 devices, 1 crash of Redis; 2 workers, 2 polls, 1 fault; 2 processes, 1 poll, bucket counts 0..2 | scripts apply once and in order, commands get done; nobody is counted twice, synced votes are kept until retention, a counter matches its markers; rounds reach every poll and catch up; restarts with other settings split a device only in a poll that was published with both numbers |
| `administration` | panel: 2 polls, 2 requests under way, 1 vote each; definitions: 4 ids, 14 inputs, 1 fault | the screen is true of the open poll and catches up; definitions are whole |
| `reopened_gates`, `late_final_save`, `undone_publish`, `split_device` | the smallest instances | the disagreements below |

Configurations without a run (`StaleSnapshot.cfg` and the others named under the disagreements) each check one property that fails, in
seconds: `tlc -config StaleSnapshot.cfg MCPollService`.

**Bounds.** Two buckets are the least that lets a reader or a gate change be between buckets, two devices in different
buckets the least that lets a read be torn, a second request of one device the least for a duplicate. Two publishes
and two closes cover a request against its repetition and against another administrator. `MaxFaults` is 2 where the
compensation itself should fail, 1 where one failure is enough, 0 where the interleaving of two passes is the
question. Publish, close and snapshot requests are one-shot (closes may be repeated after a failure without bound), so
the clock, which every reading advances, is bounded by them. Model values of a kind are symmetric; the liveness run
uses no symmetry, nor do the three harnesses. Requests and parts end, so deadlock is not checked; where getting stuck is the
question a liveness property asks it (`CloseGetsThrough`, `EveryGetReturns`, `MigratesInTheEnd`, `SnapshotsCatchUp`, `ResultsCatchUp`).

In `vote_path`, a TTL of 2 and a clock to 4 let an entry expire and be loaded again, and `Patience` 1 is how long a request may
sit on what it read: without it no staleness is bounded, by any code. Two page loads and two votes are a retry of each. Limit 1
with three requests is the limit, one more, and another network; window 3, key TTL 5 and offsets 0 and 2 are clocks as far
apart as the lifetime of a key admits (65 s - 60 s in the code); the clock of Redis goes to 6, over three windows. `MaxInt` 7 with
values -1, 1, 4, 7 has sums below, at and above the bound. In `operations`, the poll ends at 3, retention is 2, the clock goes to 6, past both, and `MaxTTL` 9 never caps (the
default is 30 days; a smaller cap is `CappedKeys.cfg`); `LateClose` FALSE says a poll is closed before its retention is over,
which is what the retention is for. Three migrators are a holder, a waiter and one that is run again. Settings change only while no
process runs (`RollingChange.cfg` lets them); the processes have one poll (`ApiPolls`), since polls meet in the start-up check only. In
`administration`, `Patient` TRUE says the operator does not open another poll while a publish or close is under
way; the inputs are on both sides of every bound of `Validate`, and two ids share their slug.

**Serial administration** (`AdminsOverlap = FALSE`) is an assumption about the administrators, not something the code
enforces. Without it the properties of the second group in `PollService` are false, and the violation runs show how.
The properties of the first group need no such assumption.

**Clocks.** All replicas read one clock and no two readings are equal. Skew would only make the stamp-dependent
properties weaker; `PollStore` alone is proved for arbitrary stamps.

**Fairness** (`FairSpec`): a publish or close that was started takes its next step, because goroutines are scheduled
and every command is answered or times out; and an administrator repeats a failed close. Nobody has to start a
request. Nothing is assumed there about workers, votes, expiry or the cache. The cache's own fairness is that a vote or publish
that has started runs on: goroutines are scheduled, queries have a timeout, and `sync.Mutex` hands a lock to a waiter that has
starved. Migrations: a command that was started runs on or fails, and a failed one is run again. Rounds: each worker's ticker
fires and its commands are answered (weak fairness of a round's steps), and a lock's TTL runs out. Panel: the interval fires, each
request is answered or fails, and, strongly, of the result requests sent again and again some are served and received.

## Where documentation and code disagree

- `reopened_gates`: publish (or the harmless-looking repeated publish of an active poll) sets gates after its commit, unordered
  with a close. Its SET may reach a bucket after the close did; votes are recorded after the final result was saved and never
  appear in it. (`docs/architecture.md:19`)
- `late_final_save`: a worker that read the counters before a close but took its stamp later saves first; the close's header
  upsert is skipped by `captured_at <= EXCLUDED.captured_at`, the status becomes closed all the same. The poll has no final
  result, its stored counts may be old, and a repeated close only reads them. (`docs/architecture.md:19`)
- `undone_publish`: a failed publish reverts its own transition and then deletes all gates; a second publish that got in between
  has reported success for a poll without gates. (`docs/architecture.md:17`)
- `split_device`: a publish that set some gates and fails is taken back to draft, and the votes that came meanwhile leave their
  markers and counters. No poll is active, so the processes may restart with another `VOTE_BUCKETS`; the draft adopts it, and a
  device votes in a second bucket. (`poll_service.go:50`; `docs/decisions/0001-redis-first-bucketed-votes.md:5`, `:11`)

These have a configuration and no run:

- `StaleSnapshot.cfg` (`MCPollService`, `SnapshotNeverShrinks`): the late stamp of `late_final_save` between two workers, after a
  lock expired: older counts replace newer ones. (`votes.go:123`; `docs/architecture.md:21`)
- `RollingChange.cfg` (`ApiProcess`, `ServesWithPollsBuckets`): the check of `VOTE_BUCKETS` looks once, at start-up; a replica
  that passed it before the publish serves with another number. (`polls.go:161`; `docs/architecture.md:25`)
- `ZeroInterval.cfg` (`ApiProcess`, `AcceptedSettingsRun`): an interval of 0 is accepted and `time.NewTicker` panics.
  (`config.go:118`; `:119` says durations must be positive)
- `CappedKeys.cfg` (`VoteExpiry`, `CountedOnce`): with `MAX_REDIS_TTL` below the poll's length every key is capped from when it
  was set, so an early vote's marker expires while a repeated publish has renewed the gates, and the device is counted again.
  (`votes.go:56`; the specification, `artefacts/IMPLEMENTATION_SPEC_REDIS_GO_POSTGRES.md:309`, says markers live until `ends_at +
  REDIS_RETENTION`)
- `LostSnapshot.cfg` (`VoteExpiry`, `SnapshotNeverLoses`): the next pass after a loss in Redis stores what remains over the last
  good snapshot. (`votes.go:118`; `README.md:219`)
- `RetriedVote.cfg` (`VoteEndpoint`, `OneBallotPerBrowser`): a vote without a cookie whose answer is lost is repeated as a new
  device. The poll page is not affected, because its page load sets the cookie first. (`public_handlers.go:104`; the
  specification, `:494` and `:674`, calls the retry safe)
- `TwoTabs.cfg` (`VoteEndpoint`, `OneBallotPerBrowser`): two tabs that load before either has a cookie get two devices.
  (`public_handlers.go:29`; `docs/decisions/0001-...:5`)
- `SkippedPass.cfg` (`SnapshotRound`, `SuccessMeansSaved`): a pass that found the lock taken counts as a success, sets the time of
  the last snapshot and logs "snapshot saved". (`worker/snapshot.go:56`, `:57`; `metrics.go:139`)
- `RoundedWindow.cfg` (`MCAdministration`, `UnavailableIsAFault`): a window below a microsecond passes validation, the table
  refuses it, and the answer is 503. (`domain/poll.go:63`; `api/openapi.yaml:396`)

The models reproduce these when a constant or a property is changed:

- `Migrate` on an empty database breaks `OnlyFaultsFail` without its premise: `CREATE TABLE IF NOT EXISTS` runs before the
  advisory lock and may fail on the catalog's index (`migrate.go:17`). The command fails cleanly and can be rerun
  (`MigratesInTheEnd`).
- `AdminPanel` with `Patient` FALSE breaks `MarkedIsClosed`: the answer to close marks whatever poll is open by then
  (`admin.js:191`).
- `AdminPanel!ClosedShowsFinal`: a live answer that arrives after the close's replaces the final result, and nothing corrects it
  (`admin.js:236`).
- `PollService` with stamps that repeat (`ReadCoarseClock`) breaks `OwnSuccessNotUndone`: two publishes of the same microsecond
  cannot tell their transitions apart (`poll_service.go:42`).

## Theorems

The theorems hold for all values of the constants that the named `ASSUME`s admit: a finite set of at least two options and a
choice limit within it, a finite set of devices, at least one bucket, functions that give each device its bucket and each
request its device or replica, natural bounds. Requests and replicas of `PollService`, the ids that polls may draw and the inputs
that clients send need not be finite; the requests, networks and proxies of the limiter, the counters of a bucket and the sync
intervals are constants too, whose values for TLC the configurations give. Where a theorem needs more, its statement says so
(`ASSUME ... PROVE`) and so does this section.

**The stores** (`StoreProofs`), for arbitrary callers. The Redis state is well typed, every counter is the number of ballots
behind it (`CountersCorrect`) and a counted ballot stays (`FirstVoteStays`); the inductive invariant is
`StoreTypeOK /\ CountsMatchBallots`, and the two counting lemmas say how a vote changes the sets behind the counters. For
arbitrary totals and stamps, header and rows of the tables come from one snapshot (`SnapshotsStayWhole`), a final result exists only
for a closed poll and never changes (`FinalMeansClosed`, `FinalStays`), a closed poll stays closed (`ClosedStays`) and `captured_at`
grows (`CapturedAtGrows`). `OneSnapshot` is what makes the two upserts decide alike.

**The service, whatever overlaps** (`PollServiceProofs`, `PollAnswerProofs`). The core is `SoundStep`: every step of every request
is one action of `StoreNext` or leaves Redis alone, and one action of `TableNext` or leaves the tables alone. Both stores are
proved against callers with valid selections and non-NULL stamps, so `ServiceInv` adds to the stores' invariants what a request has
done before it reaches the step that calls them: a vote on its way passed validation (`SentIsValid`), and a publish, a final
save or a worker's save has read the clock (`StampsTaken`). There is one frame lemma per kind of request and one `...IsSound` lemma
per group of steps. It follows that the service is well typed and its behaviours are behaviours of the two stores, so counters
equal ballots and final results and closed polls stay. On top of it:

- `SnapshotsAreTallies`: the counters of a stored snapshot are the tally of some set of real ballots, although the buckets were read
  one by one. The invariant gives every reader the set of devices that its totals so far are the tally of (`TallyWithin`); ballots
  are added meanwhile but never changed, so the set stays one of marked devices.
- `VotersAreToldTheTruth`: who is told "recorded" has that ballot, who is told "duplicate" has one, whatever was lost and repeated.
- `ClosesAnswerAlike`: closes that answer with a final result answer with the same, because it is what the tables hold for good.
- `SuccessIsNotUndone`: the compensation of one publish does not revert the row of another one that succeeded. It compares
  `published_at`, and the stamps of two publishes differ (`StampsDiffer`) because no two readings of the clock are equal; this is where
  that assumption of the model is used.
- `LockIsItsOwners`: a pass loses the snapshot lock by its own release or by the TTL, never by the release of a pass that outlived its
  own: `ReleaseSnapshotLock` compares the token.

**The service, one administrator at a time** (`PollLifecycleProofs`, hypothesis `~AdminsOverlap`, as in the runs; without it the
runs `reopened_gates`, `undone_publish` and `late_final_save` refute the properties). `SerialInv` says that the one publish or close that
runs owns the poll: it finds the gates and the polls row as it left them, and a reader after the gates were closed adds up counters that
no longer move. From it, a final result contains every ballot (`FinalResultsAreComplete`), none is counted after it
(`NothingCountedAfterFinal`), and a published poll is open in every bucket (`PublishedStaysOpen`), with votes, snapshot passes, faults
and cached polls between any two steps. `ServiceKeepsContract` is the step simulation of `PollContract`; it has the further
hypothesis `[]PassesComeFirst`, because a snapshot pass may take its stamp later than the close it races with and store it first, and
then the poll is closed without a result (run `late_final_save`). The hypothesis excludes just that: no pass is about to save totals
with a later stamp than those of a close that is about to save. With it the header is never later than the totals of a close
(`StampsInOrder`, the strengthening: stored and taken stamps are not ahead of the clock), so the close's result is always stored; passes
before, between and after the other steps are free. It holds trivially of a poll that no pass works on (`ContractWithoutPasses`,
`Workers = {}`, as in the run `service_serial`).

**The cache** (`VotePathProofs`). `LookupInv` says who holds which entry's lock, and that what an entry or a loader has seen was true
when it was read, not long ago. `CacheIsAtomic` is the step simulation of `StatusCache`: the map's mutex, the entries' mutexes and the
loaders behave as one remembered status. The stale entries that a close leaves to the requests holding them are the case that
needs the invariant. Once a close is done, only a publish that overlapped it brings the poll back (`ClosedPollIsForgotten`): what the
map holds since the close deleted the entry was made when the poll could no longer be loaded as active, so nobody is about to fill it with
that, and whoever did fill it is a publish that had read before (`Emptied`, `Restored`). Publishes and closes overlap freely in this
theorem and in the others about the cache. A status that stopped being active
is used for less than TTL plus `Patience` (`StalenessBounded`). For `CoalescedLoads` each load is charged to a slot, an entry and a
period of TTL; different loads have different slots, so there are at most as many loads as slots.

**The limit** (`LimitIsKept`, hypothesis `ClocksAgree`): clocks of replicas differ by at most the time that a key outlives its window,
and by at most a window. Then a window's key exists as long as some replica counts in it (`RateInv`), so it counts every request, and
the limit holds per window. A minute meets two windows, or three when clocks are more than a tick apart, for then the window
before and the one after are open at some replica. Trying to prove "twice the limit" for all clocks failed for that reason; the
bounds of the run were changed so that the case happens, and `MinuteLimit` now says which factor applies when.

**Browser and metrics** (`VoteEndpointProofs`, used by `VotePathProofs` for the tab and for the other clients). Identities minted are
numbered (`IdentityInv`). In a tab whose votes follow its page load, the jar is set before the first vote, so every vote carries the
same cookie (`TabInv`) and there is one ballot (`OneTabOneBallot`). Counters move after the ballot and before the answer, and never
down (`CountInv`), so a scrape in the middle covers the answers given (`CountersAddUp`).

**The sum over the buckets** (`VotePathProofs`, `SumsAreExact`). For any number of buckets read in any order, the total is the exact sum
or an error, and an overflow is never a total: `addCounters` fails before it adds what does not fit. A sum of naturals is the number of
its units (`Units`, a set of pairs), so `SumInv` (the running total is the units of the buckets added so far) is a statement about
cardinalities, and the fold that defines the exact sum equals it.

**Operations** (`OperationsProofs`). Only the holder of the advisory lock looks and applies, and what it looked at is still true when it
applies (`MigrateInv`): scripts take effect once and in order, and on a database that has the version table only a fault fails a
command. A counter matches its markers through expiry and crashes, and what reached the file stays (`KeysInv`); for runs without a
crash and under `Uncapped` (the cap of a TTL never bites) every key written before the retention is over expires at the same
moment, `ends_at` plus retention, so a marker never goes before the gate that would let its device vote again, nobody is counted
twice and votes are kept; with `~LateClose` the final result counts everybody (`FinalResultCountsEverybody`). A round of a worker leaves
out no poll that it listed (`RoundInv`). While settings do not change under a running process (`RollingChange` is FALSE in the
instance), every process that serves works with the bucket count of every active poll, and every marker is in the bucket that one of the
numbers the poll was published with gives its device (`ApiInv`). So a poll published with one number counts a device once and its final
result is its voters, and only one that was taken back and published with another may count a device again, once for each number
(`OnlyRepublishingSplitsDevices`); that it does is the run `split_device`.

**Administration** (`AdministrationProofs`). With an operator who waits for a publish or close before opening another poll (`Patient` is
TRUE in the instance), `ScreenStaysTrue`: while a publish or close is under way its poll stays open, and that a poll is closed is
said by no list and by no answer before it is so (`PanelInv`). For the definitions, the rows of a stored poll are just what a valid
input said (`DefinitionInv`), also after creates that failed; reading them in the order of their positions gives the
options back as they were sent (`GetIsSent`), so every stored poll is what the other models assume of polls (`WholePolls`).
The list of polls (`ListsAreWhole`) holds the newest polls, each once and whole, for any limit and any ties of `created_at`: the two
orders are strict and total (`PollsOrdered`, `RowsOrdered`), a row is followed by the next option of its poll or by the first of the next
poll (`NextRow`), and so the list under construction is always the polls down to the row added last (`ListedTo`). A selection passes just
when it lists each of its options once and is one of `PollDomain`'s (`SelectionsCount`), which is the assumption of the vote
script. `DefinitionsStaySound` says all three.

The theorems on sums and lists are about folds. Library theorems that do induction take the claim as an operator parameter, which the
provers cannot instantiate; here the induction is by a smallest counterexample instead (`SmallestSubset`, from the well-foundedness of
the strict subsets of a finite set), one lemma per claim. `FoldSteps` is what the module says of `FoldLeft` itself: a list of
partial results, each from the one before.

## Only model-checked

- Liveness, which needs fairness and is out of the prover's reach: `CloseGetsThrough`, `EveryGetReturns`, `MigratesInTheEnd`,
  `SnapshotsCatchUp`, `ResultsCatchUp`.

## Not modelled

- QR codes: a pure rendering with a write-once cache, every interleaving of which stores the same bytes.
- Routing, authentication, headers, JSON and health checks, histograms and the text format of `/metrics`: no state that decides
  anything in the models.
- The panel's form for new polls; the order of steps inside a graceful shutdown (`ApiProcess` lets a process stop anywhere).
- The format of UUIDs and the HMAC of the cookie: one that does not verify is no cookie.
- Commands that Redis executes after the client gave up on them, other than the vote script.
- API contract, deployment, monitoring and the load test: outside the program.

## Plan

Done: the components of the table with their runs; the proofs of every safety invariant and action property that the passing runs
check. Left: the invariants of `ApiProcess` with `RollingChange` TRUE, that is, what remains true of a device when settings change
under running processes.
