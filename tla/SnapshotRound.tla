--------------------------- MODULE SnapshotRound ----------------------------
(***************************************************************************)
(* The snapshot worker of every replica over all active polls: a tick      *)
(* lists the polls, loads each of them, and then takes one poll after the  *)
(* other: lock, totals and save (one step here, PollService has them       *)
(* apart), release.  A poll is given by how many ballots it has.           *)
(***************************************************************************)
EXTENDS Integers, FiniteSets

CONSTANTS
  Polls,
  Workers,    \* replicas
  MaxVotes,   \* bound on the ballots of a poll
  MaxFaults,  \* bound on failed commands and crashes
  NoHolder    \* a poll's snapshot-lock is absent

RoundAssumption ==
  /\ IsFiniteSet(Polls) /\ MaxVotes \in Nat /\ MaxFaults \in Nat
  /\ NoHolder \notin Workers

VARIABLES
  active,  \* the polls that are active
  votes,   \* ballots of each poll in Redis
  snap,    \* participants of each poll's snapshot
  lock,    \* each poll's snapshot lock
  wrk,     \* the workers, with the polls of the round that are still to do,
           \* reported as successes or errors, and really saved
  faults

vars == <<active, votes, snap, lock, wrk, faults>>

Rounds == [pc: {"idle", "load", "next", "save", "release"}, ids: SUBSET Polls, todo: SUBSET Polls,
           poll: SUBSET Polls, ok: SUBSET Polls, err: SUBSET Polls, saved: SUBSET Polls, failed: BOOLEAN]

RoundTypeOK ==
  /\ active \subseteq Polls
  /\ votes \in [Polls -> 0..MaxVotes] /\ snap \in [Polls -> 0..MaxVotes]
  /\ lock \in [Polls -> Workers \cup {NoHolder}]
  /\ wrk \in [Workers -> Rounds]
  /\ faults \in 0..MaxFaults

NewRound(ids) ==
  [pc |-> "load", ids |-> ids, todo |-> {}, poll |-> {}, ok |-> {}, err |-> {}, saved |-> {},
   failed |-> FALSE]

Init ==
  /\ active = Polls
  /\ votes = [p \in Polls |-> 0] /\ snap = [p \in Polls |-> 0]
  /\ lock = [p \in Polls |-> NoHolder]
  /\ wrk = [w \in Workers |-> [NewRound({}) EXCEPT !.pc = "idle"]]
  /\ faults = 0

Fault == faults < MaxFaults /\ faults' = faults + 1

-----------------------------------------------------------------------------
\* A tick: ListActive reads the ids in one query ...
List(w) ==
  /\ wrk[w].pc = "idle"
  /\ wrk' = [wrk EXCEPT ![w] = NewRound(active)]
  /\ UNCHANGED <<active, votes, snap, lock, faults>>

\* ... and each poll in a query of its own, whatever its status is by now.
Load(w) ==
  /\ wrk[w].pc = "load"
  /\ IF wrk[w].ids = wrk[w].todo
     THEN wrk' = [wrk EXCEPT ![w].pc = "next"]
     ELSE \E p \in wrk[w].ids \ wrk[w].todo : wrk' = [wrk EXCEPT ![w].todo = @ \cup {p}]
  /\ UNCHANGED <<active, votes, snap, lock, faults>>

\* One failing query ends the round for every poll.
LoadFault(w) ==
  /\ wrk[w].pc = "load" /\ Fault
  /\ wrk' = [wrk EXCEPT ![w].pc = "idle", ![w].todo = {}, ![w].failed = TRUE]
  /\ UNCHANGED <<active, votes, snap, lock>>

\* SET NX.  A held lock ends the poll's pass without an error, as a success.
Lock(w) ==
  /\ wrk[w].pc = "next"
  /\ \E p \in wrk[w].todo :
       \/ /\ lock[p] = NoHolder
          /\ lock' = [lock EXCEPT ![p] = w]
          /\ wrk' = [wrk EXCEPT ![w].pc = "save", ![w].poll = {p}]
       \/ /\ lock[p] # NoHolder
          /\ wrk' = [wrk EXCEPT ![w].todo = @ \ {p}, ![w].ok = @ \cup {p}]
          /\ UNCHANGED lock
  /\ UNCHANGED <<active, votes, snap, faults>>

\* Mutant: totals are added to the stored ones.
SaveAdds(w) ==
  /\ wrk[w].pc = "save"
  /\ snap' = [p \in Polls |-> IF p \in wrk[w].poll \cap active THEN snap[p] + votes[p] ELSE snap[p]]
  /\ wrk' = [wrk EXCEPT ![w].pc = "release", ![w].saved = @ \cup wrk[w].poll]
  /\ UNCHANGED <<active, votes, lock, faults>>

\* Totals and SaveSnapshot; a poll that was closed keeps its final result.
Save(w) ==
  /\ wrk[w].pc = "save"
  /\ snap' = [p \in Polls |-> IF p \in wrk[w].poll \cap active THEN votes[p] ELSE snap[p]]
  /\ wrk' = [wrk EXCEPT ![w].pc = "release", ![w].saved = @ \cup wrk[w].poll]
  /\ UNCHANGED <<active, votes, lock, faults>>

\* Mutant: the first failing poll ends the round.
SaveFaultEnds(w) ==
  /\ wrk[w].pc = "save" /\ Fault
  /\ wrk' = [wrk EXCEPT ![w].pc = "release", ![w].err = @ \cup wrk[w].poll,
                        ![w].todo = wrk[w].poll]
  /\ UNCHANGED <<active, votes, snap, lock>>

SaveFault(w) ==
  /\ wrk[w].pc = "save" /\ Fault
  /\ wrk' = [wrk EXCEPT ![w].pc = "release", ![w].err = @ \cup wrk[w].poll]
  /\ UNCHANGED <<active, votes, snap, lock>>

\* The deferred release, then the metric and the next poll.
Release(w) ==
  /\ wrk[w].pc = "release"
  /\ lock' = [p \in Polls |-> IF p \in wrk[w].poll /\ lock[p] = w THEN NoHolder ELSE lock[p]]
  /\ wrk' = [wrk EXCEPT ![w].pc = "next", ![w].todo = @ \ wrk[w].poll, ![w].poll = {},
                        ![w].ok = @ \cup (wrk[w].poll \ wrk[w].err)]
  /\ UNCHANGED <<active, votes, snap, faults>>

Finish(w) ==
  /\ wrk[w].pc = "next" /\ wrk[w].todo = {}
  /\ wrk' = [wrk EXCEPT ![w].pc = "idle"]
  /\ UNCHANGED <<active, votes, snap, lock, faults>>

\* A replica dies and is started again; its lock is left to the TTL.
Crash(w) ==
  /\ wrk[w].pc # "idle" /\ Fault
  /\ wrk' = [wrk EXCEPT ![w] = [NewRound({}) EXCEPT !.pc = "idle", !.failed = TRUE]]
  /\ UNCHANGED <<active, votes, snap, lock>>

\* Mutant: the lock is set without an expiry.
LockStays(p) == lock[p] # NoHolder /\ UNCHANGED vars

\* Four seconds pass, whether or not the holder is still at work.
LockExpire(p) ==
  /\ lock[p] # NoHolder
  /\ lock' = [lock EXCEPT ![p] = NoHolder]
  /\ UNCHANGED <<active, votes, snap, wrk, faults>>

Vote(p) ==
  /\ p \in active /\ votes[p] < MaxVotes
  /\ votes' = [votes EXCEPT ![p] = @ + 1]
  /\ UNCHANGED <<active, snap, lock, wrk, faults>>

\* A close saves the final totals.
Close(p) ==
  /\ p \in active
  /\ active' = active \ {p}
  /\ snap' = [snap EXCEPT ![p] = votes[p]]
  /\ UNCHANGED <<votes, lock, wrk, faults>>

Round(w) == List(w) \/ Load(w) \/ Lock(w) \/ Save(w) \/ Release(w) \/ Finish(w)

Next ==
  \/ \E w \in Workers : Round(w) \/ LoadFault(w) \/ SaveFault(w) \/ Crash(w)
  \/ \E p \in Polls : LockExpire(p) \/ Vote(p) \/ Close(p)

Spec == Init /\ [][Next]_vars

\* The ticker ticks, commands are answered or time out, and locks expire.
\* Nothing says that a replica ever finds a lock free: the one that holds it
\* saves.
Fairness ==
  /\ \A w \in Workers : WF_vars(Round(w))
  /\ \A p \in Polls : WF_vars(LockExpire(p))

-----------------------------------------------------------------------------
\* A round that got its list goes through all of it: the failure of one poll
\* does not keep the worker from the others.
RoundReachesEveryPoll ==
  \A w \in Workers :
    wrk[w].pc = "idle" /\ ~wrk[w].failed => wrk[w].ok \cup wrk[w].err = wrk[w].ids

\* However queries fail and replicas die, the snapshot of an active poll
\* gets to the ballots it has.
SnapshotsCatchUp ==
  \A p \in Polls : []<>(snap[p] = votes[p])

\* snapshot_success_total and snapshot_age_seconds speak of saved snapshots.
SuccessMeansSaved == \A w \in Workers : wrk[w].ok \subseteq wrk[w].saved
=============================================================================
