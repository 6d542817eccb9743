------------------------- MODULE PollLifecycleProofs ------------------------
(***************************************************************************)
(* While publish and close requests come one at a time, the service keeps  *)
(* what it promises to voters and admins, however votes, snapshot passes,  *)
(* faults and cached polls fall between the steps of the one request:      *)
(* a final result contains every ballot, none is counted after it, and a   *)
(* published poll is open in every bucket.  The service implements the     *)
(* contract as long as no snapshot pass overtakes the close.               *)
(***************************************************************************)
EXTENDS PollAnswerProofs, MCPollService

-----------------------------------------------------------------------------
(* The inductive invariant.  The one request that runs owns the poll: it   *)
(* finds the gates and the polls row as it left them.                      *)

PublishRuns(p) == pub[p].pc \notin {"idle", "ok", "failed"}

CloseRuns(c) == cls[c].pc \notin {"idle", "done", "failed"}

OneAtATime ==
  /\ \A p, q \in Publishers : PublishRuns(p) /\ PublishRuns(q) => p = q
  /\ \A c, e \in Closers : CloseRuns(c) /\ CloseRuns(e) => c = e
  /\ \A p \in Publishers, c \in Closers : ~(PublishRuns(p) /\ CloseRuns(c))

\* A publish has opened the gates behind its cursor, and compensates only
\* what it did itself.
PublishOwns(r) ==
  /\ r.pc \in {"load", "gates", "warm", "revert"} => poll.status = "active"
  /\ r.pc = "delete" => poll.status = "draft"
  /\ r.pc = "gates" => /\ r.seenAt = poll.publishedAt
                       /\ \A b \in Buckets : b < r.bucket => gate[b] = "active"
  /\ r.pc = "warm" => \A b \in Buckets : gate[b] = "active"

\* A close has shut the gates behind its cursor; from then on nothing is
\* counted, so that what it has read is complete.
CloseOwns(r) ==
  /\ r.pc \in {"gates", "read", "stamp", "save"} => poll.status = "active"
  /\ r.pc \in {"header", "rows"} => poll.status = "closed"
  /\ r.pc = "gates" => /\ r.totals = NoTotals
                       /\ \A b \in Buckets : b < r.bucket => gate[b] = "closed"
  /\ r.pc \in {"read", "stamp", "save"} => \A b \in Buckets : gate[b] = "closed"
  /\ r.pc = "read" => IsTally(ballots, r.totals, Before(dedup, r.bucket))
  /\ r.pc \in {"stamp", "save"} => IsTally(ballots, r.totals, dedup)

ClosedIsShut == poll.status = "closed" => \A b \in Buckets : gate[b] = "closed"

FinalIsTally == Finalized => IsTally(ballots, StoredTotals, dedup)

\* A successful publish is safe from the publish that runs now.
OpenIsKept ==
  (\E p \in Publishers : pub[p].pc = "ok") /\ (\A c \in Closers : cls[c].pc = "idle")
    => /\ poll.status = "active"
       /\ \A b \in Buckets : gate[b] = "active"
       /\ \A q \in Publishers :
            PublishRuns(q) => /\ pub[q].pc \notin {"revert", "delete"}
                              /\ poll.publishedAt # pub[q].now

SerialInv ==
  /\ ServiceInv /\ StampsDiffer
  /\ OneAtATime
  /\ \A p \in Publishers : PublishOwns(pub[p])
  /\ \A c \in Closers : CloseOwns(cls[c])
  /\ ClosedIsShut /\ FinalIsTally /\ OpenIsKept

LEMMA SerialInit == Init => SerialInv
<1> SUFFICES ASSUME Init PROVE SerialInv
  OBVIOUS
<1>1. ServiceInv
  BY ServiceInitInv
<1>2. StampsDiffer
  BY DEF Init, TableInit, StampsDiffer, NoTime
<1>3. OneAtATime /\ (\A p \in Publishers : PublishOwns(pub[p]))
      /\ (\A c \in Closers : CloseOwns(cls[c])) /\ OpenIsKept
  BY DEF Init, OneAtATime, PublishRuns, CloseRuns, PublishOwns, CloseOwns, OpenIsKept
<1>4. ClosedIsShut /\ FinalIsTally
  BY DEF Init, TableInit, ClosedIsShut, FinalIsTally, Finalized, NoTime
<1> QED BY <1>1, <1>2, <1>3, <1>4 DEF SerialInv

\* The request that takes a step is the only one that runs.
LEMMA PublishAlone ==
  ASSUME ~AdminsOverlap, OneAtATime, NEW p \in Publishers, PublishStep(p)
  PROVE  /\ \A q \in Publishers \ {p} : ~PublishRuns(q)
         /\ \A c \in Closers : ~CloseRuns(c)
<1>1. CASE PublishRuns(p)
  BY <1>1 DEF OneAtATime
<1>2. CASE ~PublishRuns(p)
  BY <1>2 DEF PublishStep, PublishCommit, PublishCommitFault, PublishLoad, PublishLoadFault,
     PublishGate, PublishGateFault, PublishWarm, PublishRevert, PublishRevertFault,
     PublishDelete, AdminMayStart, InFlight, PublishRuns, CloseRuns
<1> QED BY <1>1, <1>2

LEMMA CloseAlone ==
  ASSUME ~AdminsOverlap, OneAtATime, NEW c \in Closers, CloseStep(c)
  PROVE  /\ \A e \in Closers \ {c} : ~CloseRuns(e)
         /\ \A p \in Publishers : ~PublishRuns(p)
<1>1. CASE CloseRuns(c)
  BY <1>1 DEF OneAtATime
<1>2. CASE ~CloseRuns(c)
  BY <1>2 DEF CloseStep, CloseLoad, CloseGate, CloseGateFault, CloseRead, CloseStamp,
     CloseSave, CloseSaveFault, LoadHeader, LoadRows, CloseReadFault, AdminMayStart,
     InFlight, PublishRuns, CloseRuns
<1> QED BY <1>1, <1>2

-----------------------------------------------------------------------------
(* A publish keeps it.                                                     *)

LEMMA PublishLeaves ==
  ASSUME ServiceInv, NEW p \in Publishers, PublishStep(p)
  PROVE  /\ UNCHANGED <<cls, wrk, vot, dedup, counts, ballots, header, rows>>
         /\ \A q \in Publishers \ {p} : pub'[q] = pub[q]
<1>1. pub \in [Publishers -> PublishRequests]
  BY DEF ServiceInv, RequestInv, ServiceTypeOK
<1>2. UNCHANGED <<cls, wrk, vot, dedup, counts, ballots, header, rows>>
  BY DEF PublishStep, PublishCommit, PublishCommitFault, PublishLoad, PublishLoadFault,
     PublishGate, PublishGateFault, PublishWarm, PublishRevert, PublishRevertFault,
     PublishDelete, OnlyPub, storeVars, tableVars, SetGate, DeleteGates, PublishDraft,
     PublishAgain, RevertPublish
<1>3. \A q \in Publishers \ {p} : pub'[q] = pub[q]
  BY <1>1 DEF PublishStep, PublishCommit, PublishCommitFault, PublishLoad,
     PublishLoadFault, PublishGate, PublishGateFault, PublishWarm, PublishRevert,
     PublishRevertFault, PublishDelete
<1> QED BY <1>2, <1>3

\* What each step of a publish does to its record, the polls row and the
\* gates, given that it found them as it left them.
LEMMA PublishKeepsOwning ==
  ASSUME ServiceInv, NEW p \in Publishers, PublishOwns(pub[p]), PublishStep(p)
  PROVE  PublishOwns(pub[p])'
<1>1. /\ pub \in [Publishers -> PublishRequests] /\ pub[p] \in PublishRequests
      /\ gate \in [Buckets -> GateValues] /\ pub[p].bucket \in Buckets
      /\ poll \in [status: Statuses, publishedAt: Nat, closedAt: Nat]
  BY DEF ServiceInv, RequestInv, ServiceTypeOK, PublishRequests, StoreInv, StoreTypeOK,
     TableInv, TableTypeOK
<1>2. CASE PublishCommit(p) \/ PublishCommitFault(p)
  <2>b. ASSUME NEW pc, pub' = [pub EXCEPT ![p].pc = pc, ![p].now = clock]
        PROVE  pub'[p].pc = pc
    BY <1>1, <2>b DEF PublishRequests
  <2>0. ASSUME PublishDraft(clock) \/ PublishAgain PROVE poll'.status = "active"
    BY <1>1, <2>0 DEF PublishDraft, PublishAgain, tableVars
  <2>1. pub'[p].pc = "failed" \/ (pub'[p].pc = "load" /\ poll'.status = "active")
    BY <1>2, <2>b, <2>0 DEF PublishCommit, PublishCommitFault
  <2> QED BY <2>1 DEF PublishOwns
<1>3. CASE PublishLoad(p)
  <2>1. /\ pub'[p].pc = "gates" /\ pub'[p].bucket = 0
        /\ pub'[p].seenAt = poll.publishedAt /\ poll' = poll
    BY <1>1, <1>3 DEF PublishLoad, tableVars, PublishRequests
  <2>2. poll.status = "active"
    BY <1>3 DEF PublishLoad, PublishOwns
  <2> QED BY <2>1, <2>2 DEF PublishOwns, Buckets
<1>4. CASE PublishGate(p)
  <2>1. /\ pub[p].pc = "gates" /\ poll' = poll
        /\ gate' = [gate EXCEPT ![pub[p].bucket] = "active"]
    BY <1>4 DEF PublishGate, SetGate, tableVars
  <2>2. /\ poll.status = "active" /\ pub[p].seenAt = poll.publishedAt
        /\ \A b \in Buckets : b < pub[p].bucket => gate[b] = "active"
    BY <2>1 DEF PublishOwns
  <2>3. CASE pub[p].bucket = LastBucket
    <3>1. pub'[p].pc = "warm"
      BY <1>1, <1>4, <2>3 DEF PublishGate
    <3>2. \A b \in Buckets : gate'[b] = "active"
      BY <1>1, <2>1, <2>2, <2>3, StoreAssumption DEF Buckets, LastBucket
    <3> QED BY <2>1, <2>2, <3>1, <3>2 DEF PublishOwns
  <2>4. CASE pub[p].bucket # LastBucket
    <3>1. /\ pub'[p].pc = "gates" /\ pub'[p].bucket = pub[p].bucket + 1
          /\ pub'[p].seenAt = pub[p].seenAt
      BY <1>1, <1>4, <2>1, <2>4 DEF PublishGate, PublishRequests
    <3>2. \A b \in Buckets : b < pub[p].bucket + 1 => gate'[b] = "active"
      BY <1>1, <2>1, <2>2 DEF Buckets
    <3> QED BY <2>1, <2>2, <3>1, <3>2 DEF PublishOwns
  <2> QED BY <2>3, <2>4
<1>5. CASE PublishGateFault(p)
  <2>1. pub'[p].pc \in {"revert", "failed"} /\ poll' = poll /\ pub[p].pc = "gates"
    BY <1>1, <1>5 DEF PublishGateFault, tableVars
  <2> QED BY <2>1 DEF PublishOwns
<1>6. CASE PublishRevert(p)
  <2>1. CASE pub' = [pub EXCEPT ![p].pc = "failed"]
    <3>1. pub'[p].pc = "failed"
      BY <1>1, <2>1 DEF PublishRequests
    <3> QED BY <3>1 DEF PublishOwns
  <2>2. CASE pub' = [pub EXCEPT ![p].pc = "delete"] /\ RevertPublish(pub[p].now)
    <3>1. pub'[p].pc = "delete"
      BY <1>1, <2>2 DEF PublishRequests
    <3>2. poll'.status = "draft"
      BY <1>1, <2>2 DEF RevertPublish
    <3> QED BY <3>1, <3>2 DEF PublishOwns
  <2> QED BY <1>6, <2>1, <2>2 DEF PublishRevert
<1>7. CASE PublishLoadFault(p) \/ PublishWarm(p) \/ PublishRevertFault(p) \/ PublishDelete(p)
  <2>1. pub'[p].pc \in {"ok", "failed"}
    BY <1>1, <1>7 DEF PublishLoadFault, PublishWarm, PublishRevertFault, PublishDelete,
       PublishRequests
  <2> QED BY <2>1 DEF PublishOwns
<1> QED BY <1>2, <1>3, <1>4, <1>5, <1>6, <1>7 DEF PublishStep

\* While another publish has succeeded and no close began, a publish only
\* repeats what is there: its stamp is not published_at.
LEMMA PublishKeepsOpen ==
  ASSUME SerialInv, ~AdminsOverlap, NEW p \in Publishers, PublishStep(p)
  PROVE  OpenIsKept'
<1> SUFFICES ASSUME NEW q \in Publishers, pub'[q].pc = "ok",
                    \A c \in Closers : cls'[c].pc = "idle"
             PROVE  /\ poll'.status = "active"
                    /\ \A b \in Buckets : gate'[b] = "active"
                    /\ \A r \in Publishers :
                         pub'[r].pc \notin {"idle", "ok", "failed"}
                           => /\ pub'[r].pc \notin {"revert", "delete"}
                              /\ poll'.publishedAt # pub'[r].now
  BY DEF OpenIsKept, PublishRuns
<1>1. /\ pub \in [Publishers -> PublishRequests] /\ pub[p] \in PublishRequests
      /\ gate \in [Buckets -> GateValues] /\ clock \in Nat
      /\ poll \in [status: Statuses, publishedAt: Nat, closedAt: Nat]
  BY DEF SerialInv, ServiceInv, RequestInv, ServiceTypeOK, StoreInv, StoreTypeOK, TableInv,
     TableTypeOK
<1>2. /\ \A r \in Publishers \ {p} : pub'[r] = pub[r] /\ ~PublishRuns(r)
      /\ cls' = cls
  BY PublishLeaves, PublishAlone DEF SerialInv
<1>3. CASE PublishWarm(p)
  <2>1. /\ pub[p].pc = "warm" /\ pub'[p].pc = "ok" /\ poll' = poll /\ gate' = gate
    BY <1>1, <1>3 DEF PublishWarm, storeVars, tableVars
  <2>2. PublishOwns(pub[p])
    BY DEF SerialInv
  <2>3. poll.status = "active" /\ \A b \in Buckets : gate[b] = "active"
    BY <2>1, <2>2 DEF PublishOwns
  <2> QED BY <1>2, <2>1, <2>3 DEF PublishRuns
<1>4. CASE ~PublishWarm(p)
  <2>1. q # p
    <3>1. CASE PublishCommit(p) \/ PublishCommitFault(p) \/ PublishLoad(p) \/ PublishLoadFault(p)
      BY <1>1, <3>1 DEF PublishCommit, PublishCommitFault, PublishLoad, PublishLoadFault, PublishRequests
    <3>2. CASE PublishGate(p) \/ PublishGateFault(p)
      BY <1>1, <3>2 DEF PublishGate, PublishGateFault, PublishRequests
    <3>3. CASE PublishRevert(p) \/ PublishRevertFault(p) \/ PublishDelete(p)
      BY <1>1, <3>3 DEF PublishRevert, PublishRevertFault, PublishDelete, PublishRequests
    <3> QED BY <1>4, <3>1, <3>2, <3>3 DEF PublishStep
  <2>2. /\ poll.status = "active" /\ \A b \in Buckets : gate[b] = "active"
        /\ PublishRuns(p) => /\ pub[p].pc \notin {"revert", "delete"}
                             /\ poll.publishedAt # pub[p].now
    BY <1>2, <2>1 DEF SerialInv, OpenIsKept
  <2>3. poll.publishedAt < clock
    BY DEF SerialInv, StampsDiffer
  <2>4. /\ poll' = poll /\ \A b \in Buckets : gate'[b] = "active"
        /\ PublishRuns(p)' => /\ pub'[p].pc \notin {"revert", "delete"}
                              /\ poll.publishedAt # pub'[p].now
    <3>1. CASE PublishCommit(p) \/ PublishCommitFault(p)
      <4>1. /\ poll' = poll /\ gate' = gate /\ pub'[p].pc \in {"load", "failed"}
            /\ pub'[p].now = clock
        BY <1>1, <2>2, <3>1 DEF PublishCommit, PublishCommitFault, PublishDraft,
           PublishAgain, tableVars, storeVars, PublishRequests
      <4> QED BY <1>1, <2>2, <2>3, <4>1
    <3>2. CASE PublishLoad(p) \/ PublishLoadFault(p)
      <4>1. /\ poll' = poll /\ gate' = gate /\ pub'[p].pc \in {"gates", "failed"}
            /\ pub'[p].now = pub[p].now /\ PublishRuns(p)
        BY <1>1, <3>2 DEF PublishLoad, PublishLoadFault, tableVars, storeVars,
           PublishRequests, PublishRuns
      <4> QED BY <2>2, <4>1
    <3>3. CASE PublishGate(p)
      <4>1. /\ poll' = poll /\ \A b \in Buckets : gate'[b] = "active"
            /\ pub'[p].pc \in {"gates", "warm"}
            /\ pub'[p].now = pub[p].now /\ PublishRuns(p)
        BY <1>1, <2>2, <3>3 DEF PublishGate, SetGate, tableVars, PublishRequests, PublishRuns
      <4> QED BY <2>2, <4>1
    <3>4. CASE PublishGateFault(p)
      <4>1. PublishRuns(p) /\ pub[p].pc = "gates" /\ PublishOwns(pub[p])
        BY <3>4 DEF PublishGateFault, PublishRuns, SerialInv
      <4>2. ~OwnTransition(p)
        BY <2>2, <4>1 DEF PublishOwns, OwnTransition
      <4>3. /\ poll' = poll /\ \A b \in Buckets : gate'[b] = "active"
            /\ pub'[p].pc = "failed"
        BY <1>1, <2>2, <3>4, <4>2 DEF PublishGateFault, SetGate, tableVars, storeVars
      <4> QED BY <4>3 DEF PublishRuns
    <3>5. ~(PublishRevert(p) \/ PublishRevertFault(p) \/ PublishDelete(p))
      BY <2>2 DEF PublishRevert, PublishRevertFault, PublishDelete, PublishRuns
    <3> QED BY <1>4, <3>1, <3>2, <3>3, <3>4, <3>5 DEF PublishStep
  <2> QED BY <1>2, <2>2, <2>4 DEF PublishRuns
<1> QED BY <1>3, <1>4
LEMMA PublishKeepsSerial ==
  ASSUME SerialInv, ~AdminsOverlap, NEW p \in Publishers, PublishStep(p),
         ServiceInv', StampsDiffer'
  PROVE  SerialInv'
<1>1. /\ UNCHANGED <<cls, wrk, vot, dedup, counts, ballots, header, rows>>
      /\ \A q \in Publishers \ {p} : pub'[q] = pub[q] /\ ~PublishRuns(q)
      /\ \A c \in Closers : ~CloseRuns(c)
  BY PublishLeaves, PublishAlone DEF SerialInv
<1>2. OneAtATime'
  BY <1>1 DEF OneAtATime, PublishRuns, CloseRuns
<1>3. ASSUME NEW q \in Publishers PROVE PublishOwns(pub[q])'
  <2>1. CASE q = p
    BY <2>1, PublishKeepsOwning DEF SerialInv
  <2>2. CASE q # p
    BY <1>1, <2>2 DEF PublishRuns, PublishOwns
  <2> QED BY <2>1, <2>2
<1>4. \A c \in Closers : CloseOwns(cls[c])'
  BY <1>1 DEF CloseRuns, CloseOwns
<1>5. ClosedIsShut'
  <2>1. poll'.status = "closed" => poll.status = "closed" /\ gate' = gate
    <3>1. poll \in [status: Statuses, publishedAt: Nat, closedAt: Nat]
      BY DEF SerialInv, ServiceInv, TableInv, TableTypeOK
    <3>2. PublishOwns(pub[p])
      BY DEF SerialInv
    <3>3. CASE PublishCommit(p) \/ PublishCommitFault(p)
      BY <3>1, <3>3 DEF PublishCommit, PublishCommitFault, PublishDraft, PublishAgain,
         tableVars, storeVars
    <3>4. CASE PublishLoad(p) \/ PublishLoadFault(p) \/ PublishGate(p) \/ PublishGateFault(p)
                 \/ PublishWarm(p)
      BY <3>2, <3>4 DEF PublishOwns, PublishLoad, PublishLoadFault, PublishGate,
         PublishGateFault, PublishWarm, tableVars, storeVars
    <3>5. CASE PublishRevert(p) \/ PublishRevertFault(p) \/ PublishDelete(p)
      BY <3>1, <3>2, <3>5 DEF PublishOwns, PublishRevert, PublishRevertFault, PublishDelete,
         RevertPublish, tableVars, storeVars
    <3> QED BY <3>3, <3>4, <3>5 DEF PublishStep
  <2> QED BY <2>1 DEF SerialInv, ClosedIsShut
<1>6. FinalIsTally'
  BY <1>1 DEF SerialInv, FinalIsTally, Finalized, StoredTotals, IsTally
<1> QED BY <1>2, <1>3, <1>4, <1>5, <1>6, PublishKeepsOpen DEF SerialInv

-----------------------------------------------------------------------------
(* A close keeps it.                                                       *)

LEMMA CloseLeaves ==
  ASSUME ServiceInv, NEW c \in Closers, CloseStep(c)
  PROVE  /\ UNCHANGED <<pub, wrk, vot, dedup, counts, ballots>>
         /\ \A e \in Closers \ {c} : cls'[e] = cls[e]
<1>1. cls \in [Closers -> CloseRequests]
  BY DEF ServiceInv, RequestInv, ServiceTypeOK
<1>2. UNCHANGED <<pub, wrk, vot, dedup, counts, ballots>>
  BY DEF CloseStep, CloseLoad, CloseGate, CloseGateFault, CloseRead, CloseStamp,
     CloseSave, CloseSaveFault, LoadHeader, LoadRows, CloseReadFault, OnlyCls, storeVars,
     SetGate
<1>3. \A e \in Closers \ {c} : cls'[e] = cls[e]
  BY <1>1 DEF CloseStep, CloseLoad, CloseGate, CloseGateFault, CloseRead, CloseStamp,
     CloseSave, CloseSaveFault, LoadHeader, LoadRows, CloseReadFault
<1> QED BY <1>2, <1>3

LEMMA CloseKeepsOwning ==
  ASSUME ServiceInv, NEW c \in Closers, CloseOwns(cls[c]), CloseStep(c)
  PROVE  CloseOwns(cls[c])'
<1>1. /\ cls \in [Closers -> CloseRequests] /\ cls[c] \in CloseRequests
      /\ gate \in [Buckets -> GateValues]
      /\ cls[c].bucket \in Buckets /\ cls[c].totals \in Totals
      /\ poll \in [status: Statuses, publishedAt: Nat, closedAt: Nat]
      /\ UNCHANGED <<dedup, ballots>>
  BY CloseLeaves DEF ServiceInv, RequestInv, ServiceTypeOK, CloseRequests, StoreInv,
     StoreTypeOK, TableInv, TableTypeOK
<1>2. CASE CloseLoad(c)
  <2>1. /\ poll' = poll /\ cls'[c].bucket = 0 /\ cls'[c].totals = NoTotals
        /\ \/ cls'[c].pc = "header" /\ poll.status = "closed"
           \/ cls'[c].pc = "gates" /\ poll.status = "active"
           \/ cls'[c].pc = "failed"
    BY <1>1, <1>2 DEF CloseLoad, tableVars, CloseRequests, Statuses
  <2> QED BY <2>1 DEF CloseOwns, Buckets
<1>3. CASE CloseGate(c)
  <2>1. /\ cls[c].pc = "gates" /\ poll' = poll
        /\ gate' = [gate EXCEPT ![cls[c].bucket] = "closed"]
    BY <1>3 DEF CloseGate, SetGate, tableVars
  <2>2. /\ poll.status = "active" /\ cls[c].totals = NoTotals
        /\ \A b \in Buckets : b < cls[c].bucket => gate[b] = "closed"
    BY <2>1 DEF CloseOwns
  <2>3. CASE cls[c].bucket = LastBucket
    <3>1. /\ cls'[c].pc = "read" /\ cls'[c].bucket = 0 /\ cls'[c].totals = NoTotals
      BY <1>1, <1>3, <2>2, <2>3 DEF CloseGate, CloseRequests
    <3>2. \A b \in Buckets : gate'[b] = "closed"
      BY <1>1, <2>1, <2>2, <2>3, StoreAssumption DEF Buckets, LastBucket
    <3>3. IsTally(ballots, NoTotals, Before(dedup, 0))
      BY <1>1, PassedBuckets, EmptyTally DEF ServiceInv
    <3> QED BY <1>1, <2>1, <2>2, <3>1, <3>2, <3>3 DEF CloseOwns
  <2>4. CASE cls[c].bucket # LastBucket
    <3>1. /\ cls'[c].pc = "gates" /\ cls'[c].bucket = cls[c].bucket + 1
          /\ cls'[c].totals = NoTotals
      BY <1>1, <1>3, <2>1, <2>2, <2>4 DEF CloseGate, CloseRequests
    <3>2. \A b \in Buckets : b < cls[c].bucket + 1 => gate'[b] = "closed"
      BY <1>1, <2>1, <2>2 DEF Buckets
    <3> QED BY <2>1, <2>2, <3>1, <3>2 DEF CloseOwns
  <2> QED BY <2>3, <2>4
<1>4. CASE CloseRead(c)
  <2> DEFINE b == cls[c].bucket
             t == AddCounters(cls[c].totals, counts[b])
  <2>1. cls[c].pc = "read" /\ poll' = poll /\ gate' = gate
    BY <1>4 DEF CloseRead, tableVars, storeVars
  <2>2. /\ poll.status = "active" /\ \A g \in Buckets : gate[g] = "closed"
        /\ IsTally(ballots, cls[c].totals, Before(dedup, b))
    BY <2>1 DEF CloseOwns
  <2>3. /\ IsTally(ballots, t, Before(dedup, b + 1))
        /\ b = LastBucket => Before(dedup, b + 1) = dedup
    BY <1>1, <2>2, BucketRead, PassedBuckets DEF ServiceInv
  <2>4. \/ b = LastBucket /\ cls'[c].pc = "stamp" /\ cls'[c].totals = t
        \/ cls'[c].pc = "read" /\ cls'[c].totals = t /\ cls'[c].bucket = b + 1
    <3>1. CASE b = LastBucket
      <4>1. cls'[c] = [cls[c] EXCEPT !.totals = t, !.pc = "stamp", !.bucket = b]
        BY <1>1, <1>4, <3>1 DEF CloseRead
      <4> QED BY <1>1, <3>1, <4>1 DEF CloseRequests
    <3>2. CASE b # LastBucket
      <4>1. cls'[c] = [cls[c] EXCEPT !.totals = t, !.pc = "read", !.bucket = b + 1]
        BY <1>1, <1>4, <2>1, <3>2 DEF CloseRead
      <4> QED BY <1>1, <4>1 DEF CloseRequests
    <3> QED BY <3>1, <3>2
  <2> HIDE DEF t
  <2> QED BY <1>1, <2>1, <2>2, <2>3, <2>4 DEF CloseOwns
<1>5. CASE CloseStamp(c)
  <2> DEFINE t == [cls[c].totals EXCEPT !.asOf = clock]
  <2>1. cls[c].pc = "stamp" /\ poll' = poll /\ gate' = gate
    BY <1>5 DEF CloseStamp, tableVars, storeVars
  <2>2. /\ poll.status = "active" /\ \A g \in Buckets : gate[g] = "closed"
        /\ IsTally(ballots, t, dedup)
    BY <1>1, <2>1, StampedTally DEF CloseOwns
  <2>3. cls'[c] = [cls[c] EXCEPT !.pc = "save", !.totals = t]
    BY <1>1, <1>5 DEF CloseStamp
  <2>4. cls'[c].pc = "save" /\ cls'[c].totals = t
    BY <1>1, <2>3 DEF CloseRequests
  <2> HIDE DEF t
  <2> QED BY <1>1, <2>1, <2>2, <2>4 DEF CloseOwns
<1>6. CASE CloseSave(c)
  <2>1. KeepFinal => poll'.status = "closed"
    BY DEF KeepFinal, tableVars, ServiceInv, TableInv, FinalIsClosed
  <2>2. WriteFinal(cls[c].totals) => poll'.status = "closed"
    BY <1>1 DEF WriteFinal
  <2>3. \/ cls'[c].pc = "failed"
        \/ cls'[c].pc = "header" /\ (KeepFinal \/ WriteFinal(cls[c].totals))
    BY <1>1, <1>6 DEF CloseSave, CloseRequests
  <2> QED BY <2>1, <2>2, <2>3 DEF CloseOwns
<1>7. CASE LoadHeader(c)
  <2>1. cls[c].pc = "header" /\ cls'[c].pc = "rows" /\ poll' = poll
    BY <1>1, <1>7 DEF LoadHeader, tableVars, CloseRequests
  <2> QED BY <2>1 DEF CloseOwns
<1>8. CASE CloseGateFault(c) \/ CloseSaveFault(c) \/ LoadRows(c) \/ CloseReadFault(c)
  <2>1. cls'[c].pc \in {"done", "failed"}
    BY <1>1, <1>8 DEF CloseGateFault, CloseSaveFault, LoadRows, CloseReadFault, CloseRequests
  <2> QED BY <2>1 DEF CloseOwns
<1> QED BY <1>2, <1>3, <1>4, <1>5, <1>6, <1>7, <1>8 DEF CloseStep
\* A save by a close stores what its request has read, as the final result.
LEMMA CloseSavesTally ==
  ASSUME SerialInv, NEW c \in Closers, cls[c].pc = "save", WriteFinal(cls[c].totals), Finalized'
  PROVE  IsTally(ballots, StoredTotals', dedup)
<1>1. IsTally(ballots, cls[c].totals, dedup)
  BY DEF SerialInv, CloseOwns
<1>2. cls[c].totals \in Totals /\ TableInv
  BY DEF SerialInv, ServiceInv, RequestInv, ServiceTypeOK, CloseRequests
<1>3. header'.participants = cls[c].totals.participants
      /\ rows'.options = cls[c].totals.options
  BY <1>2 DEF TableInv, TableTypeOK, OneSnapshot, WriteFinal, UpsertHeader, UpsertRows, Finalized
<1> QED BY <1>1, <1>3 DEF StoredTotals, IsTally

LEMMA CloseKeepsSerial ==
  ASSUME SerialInv, ~AdminsOverlap, NEW c \in Closers, CloseStep(c),
         ServiceInv', StampsDiffer'
  PROVE  SerialInv'
<1>1. /\ UNCHANGED <<pub, wrk, vot, dedup, counts, ballots>>
      /\ \A e \in Closers \ {c} : cls'[e] = cls[e] /\ ~CloseRuns(e)
      /\ \A p \in Publishers : ~PublishRuns(p)
  BY CloseLeaves, CloseAlone DEF SerialInv
<1>2. OneAtATime'
  BY <1>1 DEF OneAtATime, PublishRuns, CloseRuns
<1>3. \A p \in Publishers : PublishOwns(pub[p])'
  BY <1>1 DEF PublishRuns, PublishOwns
<1>4. ASSUME NEW e \in Closers PROVE CloseOwns(cls[e])'
  <2>1. CASE e = c
    BY <2>1, CloseKeepsOwning DEF SerialInv
  <2>2. CASE e # c
    BY <1>1, <2>2 DEF CloseRuns, CloseOwns
  <2> QED BY <2>1, <2>2
<1>5. \/ UNCHANGED tableVars
      \/ cls[c].pc = "save" /\ WriteFinal(cls[c].totals) /\ UNCHANGED storeVars
  BY DEF CloseStep, CloseLoad, CloseGate, CloseGateFault, CloseRead, CloseStamp,
     CloseSave, CloseSaveFault, LoadHeader, LoadRows, CloseReadFault, KeepFinal
<1>6. cls[c].pc = "gates" \/ UNCHANGED storeVars
  BY DEF CloseStep, CloseLoad, CloseGate, CloseGateFault, CloseRead, CloseStamp,
     CloseSave, CloseSaveFault, LoadHeader, LoadRows, CloseReadFault
<1>7. CloseOwns(cls[c])
  BY DEF SerialInv
<1>8. ClosedIsShut'
  <2>1. CASE UNCHANGED tableVars
    <3>1. poll.status = "closed" => UNCHANGED storeVars
      BY <1>6, <1>7 DEF CloseOwns
    <3> QED BY <2>1, <3>1 DEF SerialInv, ClosedIsShut, tableVars, storeVars
  <2>2. CASE cls[c].pc = "save" /\ UNCHANGED storeVars
    BY <1>7, <2>2 DEF CloseOwns, ClosedIsShut, storeVars
  <2> QED BY <1>5, <2>1, <2>2
<1>9. FinalIsTally'
  <2>1. CASE UNCHANGED tableVars
    BY <1>1, <2>1 DEF SerialInv, FinalIsTally, Finalized, StoredTotals, IsTally, tableVars
  <2>2. CASE cls[c].pc = "save" /\ WriteFinal(cls[c].totals)
    BY <1>1, <2>2, CloseSavesTally DEF FinalIsTally, IsTally
  <2> QED BY <1>5, <2>1, <2>2
<1>10. OpenIsKept'
  <2>0. cls \in [Closers -> CloseRequests]
    BY DEF SerialInv, ServiceInv, RequestInv, ServiceTypeOK
  <2>1. cls'[c].pc # "idle"
    <3>1. CASE CloseLoad(c) \/ CloseGate(c) \/ CloseGateFault(c)
      BY <2>0, <3>1 DEF CloseRequests, CloseLoad, CloseGate, CloseGateFault
    <3>2. CASE CloseRead(c) \/ CloseStamp(c) \/ CloseReadFault(c)
      BY <2>0, <3>2 DEF CloseRequests, CloseRead, CloseStamp, CloseReadFault
    <3>3. CASE CloseSave(c) \/ CloseSaveFault(c)
      BY <2>0, <3>3 DEF CloseRequests, CloseSave, CloseSaveFault
    <3>4. CASE LoadHeader(c) \/ LoadRows(c)
      BY <2>0, <3>4 DEF CloseRequests, LoadHeader, LoadRows
    <3> QED BY <3>1, <3>2, <3>3, <3>4 DEF CloseStep
  <2> QED BY <2>1 DEF OpenIsKept
<1> QED BY <1>2, <1>3, <1>4, <1>8, <1>9, <1>10 DEF SerialInv

-----------------------------------------------------------------------------
(* Snapshot passes, votes and expiries keep it.                            *)

\* A pass writes live snapshots only.
LEMMA WorkerKeepsSerial ==
  ASSUME SerialInv, NEW w \in Workers, WorkerStep(w), ServiceInv', StampsDiffer'
  PROVE  SerialInv'
<1>1. UNCHANGED <<storeVars, pub, cls, poll>>
  BY DEF WorkerStep, WorkerList, WorkerLock, WorkerLockFault, WorkerRead, WorkerStamp,
     WorkerSave, WorkerFault, WorkerRelease, WorkerCrash, OnlyWrk, tableVars, KeepFinal,
     WriteLive
<1>2. UNCHANGED <<header, rows>> \/ ~Finalized'
  <2>1. UNCHANGED <<header, rows>> \/ WriteLive(wrk[w].totals)
    BY DEF WorkerStep, WorkerList, WorkerLock, WorkerLockFault, WorkerRead, WorkerStamp,
       WorkerSave, WorkerFault, WorkerRelease, WorkerCrash, tableVars, KeepFinal
  <2> QED BY <2>1 DEF WriteLive, UpsertHeader, Finalized
<1>3. OneAtATime' /\ OpenIsKept' /\ ClosedIsShut'
      /\ (\A p \in Publishers : PublishOwns(pub[p])')
  BY <1>1 DEF storeVars, SerialInv, OneAtATime, PublishRuns, CloseRuns, OpenIsKept,
     ClosedIsShut, PublishOwns
<1>4. ASSUME NEW c \in Closers PROVE CloseOwns(cls[c])'
  <2>1. CloseOwns(cls[c]) /\ UNCHANGED <<cls, poll, gate, dedup, ballots>>
    BY <1>1 DEF SerialInv, storeVars
  <2> QED BY <2>1 DEF CloseOwns, IsTally, Before
<1>5. FinalIsTally'
  BY <1>1, <1>2 DEF SerialInv, FinalIsTally, Finalized, StoredTotals, IsTally, storeVars
<1> QED BY <1>3, <1>4, <1>5 DEF SerialInv

\* A vote is counted only in an open bucket, and there is none while a close
\* reads and after it.
LEMMA VoteKeepsSerial ==
  ASSUME SerialInv, NEW v \in Votes, VoteStep(v), ServiceInv', StampsDiffer'
  PROVE  SerialInv'
<1>1. UNCHANGED <<tableVars, gate, pub, cls>>
  BY DEF VoteStep, VoteLoad, VoteRecord, VoteFault, OnlyVot, storeVars, VoteNotActive,
     VoteDuplicate, VoteCounted
<1>2. (\A b \in Buckets : gate[b] = "closed") => UNCHANGED <<dedup, ballots>>
  <2>1. Bucket[DeviceOf[v]] \in Buckets
    BY StoreAssumption, ServiceAssumption
  <2> QED BY <2>1 DEF VoteStep, VoteLoad, VoteRecord, VoteFault, storeVars, VoteNotActive,
             VoteDuplicate, VoteCounted
<1>3. OneAtATime' /\ OpenIsKept' /\ ClosedIsShut'
      /\ (\A p \in Publishers : PublishOwns(pub[p])')
  BY <1>1 DEF tableVars, SerialInv, OneAtATime, PublishRuns, CloseRuns, OpenIsKept,
     ClosedIsShut, PublishOwns
<1>4. ASSUME NEW c \in Closers PROVE CloseOwns(cls[c])'
  <2>1. CloseOwns(cls[c])
    BY DEF SerialInv
  <2>2. CASE cls[c].pc \in {"read", "stamp", "save"}
    <3>1. UNCHANGED <<dedup, ballots>>
      BY <1>2, <2>1, <2>2 DEF CloseOwns
    <3> QED BY <1>1, <2>1, <3>1 DEF CloseOwns, IsTally, Before, tableVars
  <2>3. CASE cls[c].pc \notin {"read", "stamp", "save"}
    BY <1>1, <2>1, <2>3 DEF CloseOwns, tableVars
  <2> QED BY <2>2, <2>3
<1>5. FinalIsTally'
  <2>1. Finalized => UNCHANGED <<dedup, ballots>>
    BY <1>2 DEF SerialInv, ServiceInv, TableInv, FinalIsClosed, ClosedIsShut
  <2> QED BY <1>1, <2>1 DEF SerialInv, FinalIsTally, Finalized, StoredTotals, IsTally, tableVars
<1> QED BY <1>3, <1>4, <1>5 DEF SerialInv

LEMMA SerialNext ==
  ASSUME ~AdminsOverlap, SerialInv, [Next]_vars
  PROVE  SerialInv'
<1>1. ServiceInv' /\ StampsDiffer'
  BY ServiceNextInv, StampsStayDifferent DEF SerialInv
<1>2. CASE LockExpire \/ (\E r \in Replicas : CacheExpire(r)) \/ UNCHANGED vars
  <2>1. UNCHANGED <<storeVars, tableVars, pub, cls>>
    BY <1>2 DEF LockExpire, CacheExpire, vars, requests
  <2> QED
    BY <1>1, <2>1 DEF storeVars, tableVars, SerialInv, OneAtATime, PublishRuns, CloseRuns,
       OpenIsKept, ClosedIsShut, FinalIsTally, Finalized, StoredTotals, PublishOwns,
       CloseOwns, IsTally, Before
<1> QED
  BY <1>1, <1>2, PublishKeepsSerial, CloseKeepsSerial, WorkerKeepsSerial, VoteKeepsSerial DEF Next
-----------------------------------------------------------------------------
\* A final result contains every ballot that is ever counted: the close had
\* shut every bucket before it read the first one (ResultService.Close).
THEOREM FinalResultsAreComplete ==
  ASSUME ~AdminsOverlap
  PROVE  Spec => []FinalIsComplete
<1>1. SerialInv /\ [Next]_vars => SerialInv'
  BY SerialNext
<1>2. SerialInv => FinalIsComplete
  BY DEF SerialInv, FinalIsTally, StoredTotals, IsTally, FinalIsComplete, ChoseIn
<1> QED BY SerialInit, <1>1, <1>2, PTL DEF Spec

\* No vote is counted after the final result is stored, whatever a replica
\* has cached and however long a vote request was on its way (vote.lua).
THEOREM NothingCountedAfterFinal ==
  ASSUME ~AdminsOverlap
  PROVE  Spec => NoVoteAfterFinal
<1>1. SerialInv /\ [Next]_vars => SerialInv'
  BY SerialNext
<1>2. ASSUME SerialInv, [Next]_vars, Finalized
      PROVE  ballots' = ballots
  <2>1. \A b \in Buckets : gate[b] = "closed"
    BY <1>2 DEF SerialInv, ServiceInv, TableInv, FinalIsClosed, ClosedIsShut
  <2>2. ASSUME NEW v \in Votes, VoteStep(v)
        PROVE  ballots' = ballots
    <3>1. Bucket[DeviceOf[v]] \in Buckets
      BY StoreAssumption, ServiceAssumption
    <3> QED BY <2>1, <2>2, <3>1 DEF VoteStep, VoteLoad, VoteRecord, VoteFault, storeVars,
               VoteNotActive, VoteDuplicate, VoteCounted
  <2> QED BY <1>2, <2>2, BallotsUntouched
<1>3. SerialInv /\ [Next]_vars => [Finalized => ballots' = ballots]_vars
  BY <1>2
<1> QED BY SerialInit, <1>1, <1>3, PTL DEF Spec, NoVoteAfterFinal

\* After a successful publish and before the first close every bucket takes
\* votes: no failed or repeated publish deletes a gate (PollService.Publish).
THEOREM PublishedStaysOpen ==
  ASSUME ~AdminsOverlap
  PROVE  Spec => []PublishedIsOpen
<1>1. SerialInv /\ [Next]_vars => SerialInv'
  BY SerialNext
<1>2. SerialInv => PublishedIsOpen
  BY DEF SerialInv, OpenIsKept, PublishedIsOpen
<1> QED BY SerialInit, <1>1, <1>2, PTL DEF Spec

-----------------------------------------------------------------------------
(* The contract.  A snapshot pass that stamped its totals after the close  *)
(* stamped its own and stores them first keeps the close's result out of   *)
(* the header.  Passes that interleave in any other way do no harm.        *)

\* No pass is about to store totals that are later than those of a close.
PassesComeFirst ==
  \A w \in Workers, c \in Closers :
    wrk[w].pc = "save" /\ cls[c].pc = "save" => wrk[w].totals.asOf <= cls[c].totals.asOf

\* Then the header is not later either, for clock readings only grow.
StampsInOrder ==
  /\ header.capturedAt <= clock
  /\ \A w \in Workers : wrk[w].pc = "save" => wrk[w].totals.asOf <= clock
  /\ \A c \in Closers : cls[c].pc = "save" =>
       /\ cls[c].totals.asOf <= clock
       /\ ~Finalized => header.capturedAt <= cls[c].totals.asOf

LEMMA ReadingsGrow ==
  ASSUME ServiceInv, [Next]_vars
  PROVE  clock \in Nat /\ clock' \in Nat /\ clock <= clock'
<1>0. clock \in Nat
  BY DEF ServiceInv, RequestInv, ServiceTypeOK
<1>1. ASSUME NEW p \in Publishers, PublishStep(p)
      PROVE  clock' = clock \/ clock' = clock + 1
  BY <1>1 DEF PublishStep, PublishCommit, PublishCommitFault, PublishLoad, PublishLoadFault,
     PublishGate, PublishGateFault, PublishWarm, PublishRevert, PublishRevertFault,
     PublishDelete, ReadClock
<1>2. ASSUME NEW c \in Closers, CloseStep(c)
      PROVE  clock' = clock \/ clock' = clock + 1
  BY <1>2 DEF CloseStep, CloseLoad, CloseGate, CloseGateFault, CloseRead, CloseStamp,
     CloseSave, CloseSaveFault, LoadHeader, LoadRows, CloseReadFault, ReadClock
<1>3. ASSUME NEW w \in Workers, WorkerStep(w)
      PROVE  clock' = clock \/ clock' = clock + 1
  BY <1>3 DEF WorkerStep, WorkerList, WorkerLock, WorkerLockFault, WorkerRead, WorkerStamp,
     WorkerSave, WorkerFault, WorkerRelease, WorkerCrash, ReadClock
<1>4. ASSUME \/ \E v \in Votes : VoteStep(v)
             \/ LockExpire \/ (\E r \in Replicas : CacheExpire(r)) \/ UNCHANGED vars
      PROVE  clock' = clock
  BY <1>4 DEF VoteStep, VoteLoad, VoteRecord, VoteFault, OnlyVot, LockExpire, CacheExpire, vars
<1>5. clock' = clock \/ clock' = clock + 1
  BY <1>1, <1>2, <1>3, <1>4 DEF Next
<1> QED BY <1>0, <1>5

\* Who is about to save has just read the clock, or was about to save before.
LEMMA StampedNow ==
  ASSUME ServiceInv, [Next]_vars
  PROVE  /\ \A w \in Workers : wrk'[w].pc = "save" =>
              wrk'[w] = wrk[w] \/ (wrk'[w].totals.asOf = clock /\ UNCHANGED <<header, rows>>)
         /\ \A c \in Closers : cls'[c].pc = "save" =>
              cls'[c] = cls[c] \/ (cls'[c].totals.asOf = clock /\ UNCHANGED <<header, rows>>)
<1>0. wrk \in [Workers -> SnapshotPasses] /\ cls \in [Closers -> CloseRequests]
  BY DEF ServiceInv, RequestInv, ServiceTypeOK
<1>1. ASSUME NEW w \in Workers, WorkerStep(w), wrk'[w].pc = "save"
      PROVE  wrk'[w] = wrk[w] \/ (wrk'[w].totals.asOf = clock /\ UNCHANGED <<header, rows>>)
  <2>1. CASE WorkerStamp(w)
    BY <1>0, <2>1 DEF WorkerStamp, SnapshotPasses, Totals, tableVars
  <2>2. CASE WorkerList(w) \/ WorkerLock(w) \/ WorkerLockFault(w)
    BY <1>0, <1>1, <2>2 DEF WorkerList, WorkerLock, WorkerLockFault, SnapshotPasses
  <2>3. CASE WorkerRead(w)
    BY <1>0, <1>1, <2>3 DEF WorkerRead, SnapshotPasses
  <2>4. CASE WorkerSave(w) \/ WorkerFault(w) \/ WorkerRelease(w) \/ WorkerCrash(w)
    BY <1>0, <1>1, <2>4 DEF WorkerSave, WorkerFault, WorkerRelease, WorkerCrash, SnapshotPasses
  <2> QED BY <1>1, <2>1, <2>2, <2>3, <2>4 DEF WorkerStep
<1>2. ASSUME NEW c \in Closers, CloseStep(c), cls'[c].pc = "save"
      PROVE  cls'[c] = cls[c] \/ (cls'[c].totals.asOf = clock /\ UNCHANGED <<header, rows>>)
  <2>1. CASE CloseStamp(c)
    BY <1>0, <2>1 DEF CloseStamp, CloseRequests, Totals, tableVars
  <2>2. CASE CloseLoad(c) \/ CloseGate(c) \/ CloseGateFault(c)
    BY <1>0, <1>2, <2>2 DEF CloseLoad, CloseGate, CloseGateFault, CloseRequests
  <2>3. CASE CloseRead(c) \/ CloseReadFault(c)
    BY <1>0, <1>2, <2>3 DEF CloseRead, CloseReadFault, CloseRequests
  <2>4. CASE CloseSave(c) \/ CloseSaveFault(c)
    BY <1>0, <1>2, <2>4 DEF CloseSave, CloseSaveFault, CloseRequests
  <2>5. CASE LoadHeader(c) \/ LoadRows(c)
    BY <1>0, <1>2, <2>5 DEF LoadHeader, LoadRows, CloseRequests
  <2> QED BY <1>2, <2>1, <2>2, <2>3, <2>4, <2>5 DEF CloseStep
<1>3. \A w \in Workers : wrk'[w] = wrk[w] \/ WorkerStep(w)
  BY OneWorkerMoves
<1>4. \A c \in Closers : cls'[c] = cls[c] \/ CloseStep(c)
  BY OneCloseMoves
<1> QED BY <1>1, <1>2, <1>3, <1>4

LEMMA StampsStayInOrder ==
  ASSUME ServiceInv, ServiceInv', StampsInOrder, PassesComeFirst, [Next]_vars
  PROVE  StampsInOrder'
<1>0. clock \in Nat /\ clock' \in Nat /\ clock <= clock'
  BY ReadingsGrow
<1>1. /\ \A w \in Workers : wrk[w].totals.asOf \in Nat /\ wrk'[w].totals.asOf \in Nat
      /\ \A c \in Closers : cls[c].totals.asOf \in Nat /\ cls'[c].totals.asOf \in Nat
      /\ header.capturedAt \in Nat /\ header'.capturedAt \in Nat
  BY DEF ServiceInv, RequestInv, ServiceTypeOK, SnapshotPasses, CloseRequests, Totals,
     TableInv, TableTypeOK
<1>2. /\ \A w \in Workers : wrk'[w].pc = "save" =>
           wrk'[w] = wrk[w] \/ (wrk'[w].totals.asOf = clock /\ UNCHANGED <<header, rows>>)
      /\ \A c \in Closers : cls'[c].pc = "save" =>
           cls'[c] = cls[c] \/ (cls'[c].totals.asOf = clock /\ UNCHANGED <<header, rows>>)
  BY StampedNow
<1>3. /\ \A w \in Workers : wrk'[w].pc = "save" => wrk'[w].totals.asOf <= clock'
      /\ \A c \in Closers : cls'[c].pc = "save" => cls'[c].totals.asOf <= clock'
  BY <1>0, <1>1, <1>2 DEF StampsInOrder
<1>4. CASE UNCHANGED <<header, rows>>
  <2>1. ASSUME NEW c \in Closers, cls'[c].pc = "save", ~Finalized'
        PROVE  header'.capturedAt <= cls'[c].totals.asOf
    BY <1>0, <1>1, <1>2, <1>4, <2>1 DEF StampsInOrder, Finalized
  <2> QED BY <1>0, <1>1, <1>3, <1>4, <2>1 DEF StampsInOrder
<1>5. ASSUME NEW w \in Workers, wrk[w].pc = "save", WriteLive(wrk[w].totals)
      PROVE  StampsInOrder'
  <2>1. header'.capturedAt \in {header.capturedAt, wrk[w].totals.asOf}
    BY <1>5 DEF WriteLive, UpsertHeader
  <2>2. ~Finalized
    BY <1>5 DEF WriteLive
  <2>3. ASSUME NEW c \in Closers, cls'[c].pc = "save"
        PROVE  header'.capturedAt <= cls'[c].totals.asOf
    <3>1. CASE cls'[c] = cls[c]
      BY <1>1, <1>5, <2>1, <2>2, <2>3, <3>1 DEF StampsInOrder, PassesComeFirst
    <3>2. CASE cls'[c].totals.asOf = clock
      BY <1>0, <1>1, <1>5, <2>1, <3>2 DEF StampsInOrder
    <3> QED BY <1>2, <2>3, <3>1, <3>2
  <2>4. header'.capturedAt <= clock'
    BY <1>0, <1>1, <1>5, <2>1 DEF StampsInOrder
  <2> QED BY <1>3, <2>3, <2>4 DEF StampsInOrder
<1>6. ASSUME NEW c \in Closers, cls[c].pc = "save", WriteFinal(cls[c].totals)
      PROVE  StampsInOrder'
  <2>1. header.capturedAt <= cls[c].totals.asOf /\ cls[c].totals.asOf # NoTime
    BY <1>6 DEF StampsInOrder, WriteFinal, ServiceInv, RequestInv, StampsTaken
  <2>2. Finalized' /\ header'.capturedAt = cls[c].totals.asOf
    BY <1>6, <2>1 DEF WriteFinal, UpsertHeader, Finalized
  <2>3. header'.capturedAt <= clock'
    BY <1>0, <1>1, <1>6, <2>2 DEF StampsInOrder
  <2> QED BY <1>3, <2>2, <2>3 DEF StampsInOrder
<1> QED BY <1>4, <1>5, <1>6, OnlySavesWrite

\* The contract counts and selects as the service does: the instance's
\* operators are the same definitions.
LEMMA SameCounting == \A S : Contract!Cardinality(S) = Cardinality(S)
  BY Zenon DEF Contract!Cardinality, Cardinality

LEMMA SameSelections == Contract!Selections = Selections
  BY SameCounting, Zenon DEF Contract!Selections, Selections

\* A publish opens the poll, takes it back, or leaves it as it is.
LEMMA PublishInContract ==
  ASSUME ServiceInv, NEW p \in Publishers, PublishStep(p)
  PROVE  [Contract!ContractNext]_(Contract!contractVars)
<1>1. UNCHANGED <<ballots, header, rows>>
  BY PublishLeaves
<1>2. UNCHANGED <<ballots, FinalResult>>
  BY <1>1 DEF FinalResult, Finalized
<1>3. \/ poll'.status = poll.status
      \/ poll.status = "draft" /\ poll'.status = "active"
      \/ poll.status = "active" /\ poll'.status = "draft"
  <2>1. poll \in [status: Statuses, publishedAt: Nat, closedAt: Nat]
    BY DEF ServiceInv, TableInv, TableTypeOK
  <2>2. \/ poll' = poll \/ PublishDraft(clock) \/ RevertPublish(pub[p].now)
    BY DEF PublishStep, PublishCommit, PublishCommitFault, PublishLoad, PublishLoadFault,
       PublishGate, PublishGateFault, PublishWarm, PublishRevert, PublishRevertFault,
       PublishDelete, tableVars, PublishAgain
  <2> QED BY <2>1, <2>2 DEF PublishDraft, RevertPublish, Revertible
<1> QED BY <1>2, <1>3 DEF Contract!ContractNext, Contract!contractVars, Contract!Publish,
           Contract!Unpublish

\* A close that saves turns the ballots into the result.
LEMMA CloseInContract ==
  ASSUME SerialInv, StampsInOrder, NEW c \in Closers, CloseStep(c)
  PROVE  [Contract!ContractNext]_(Contract!contractVars)
<1>1. ballots' = ballots
  BY CloseLeaves DEF SerialInv
<1>2. CASE UNCHANGED tableVars
  BY <1>1, <1>2 DEF Contract!contractVars, FinalResult, Finalized, tableVars
<1>3. CASE cls[c].pc = "save" /\ WriteFinal(cls[c].totals)
  <2>1. /\ poll.status = "active"
        /\ cls[c].totals.asOf \in Nat /\ cls[c].totals.asOf # NoTime
        /\ poll \in [status: Statuses, publishedAt: Nat, closedAt: Nat]
    BY <1>3 DEF SerialInv, CloseOwns, ServiceInv, RequestInv, ServiceTypeOK, CloseRequests,
       Totals, StampsTaken, TableInv, TableTypeOK
  <2>2. poll'.status = "closed"
    BY <1>3, <2>1 DEF WriteFinal
  <2>3. Finalized'
    BY <1>3, <2>1 DEF StampsInOrder, WriteFinal, UpsertHeader, Finalized
  <2>4. IsTally(ballots, StoredTotals', dedup)
    BY <1>3, <2>3, CloseSavesTally
  <2>5. /\ header'.participants = Cardinality({d \in Devices : ballots[d] # {}})
        /\ \A o \in Options :
             rows'.options[o] = Cardinality({d \in Devices : o \in ballots[d]})
    <3>1. /\ dedup = {d \in Devices : ballots[d] # {}}
          /\ \A o \in Options :
               {d \in dedup : o \in ballots[d]} = {d \in Devices : o \in ballots[d]}
      BY DEF SerialInv, ServiceInv, StoreInv, StoreTypeOK, CountsMatchBallots
    <3> QED BY <2>4, <3>1 DEF IsTally, StoredTotals
  <2>6. rows'.options \in [Options -> Nat]
    <3>1. cls[c].totals.options \in [Options -> Nat] /\ rows.options \in [Options -> Nat]
      BY DEF SerialInv, ServiceInv, RequestInv, ServiceTypeOK, CloseRequests, Totals,
         TableInv, TableTypeOK
    <3> QED BY <1>3, <3>1 DEF WriteFinal, UpsertRows
  <2>7. rows'.options = [o \in Options |-> Cardinality({d \in Devices : o \in ballots[d]})]
    BY <2>5, <2>6
  <2>8. FinalResult' = Contract!Tally
    <3>1. Finalized' = TRUE
      BY <2>3 DEF Finalized
    <3>2. FinalResult' = [participants |-> header'.participants, options |-> rows'.options,
                          final |-> TRUE]
      BY <3>1, Zenon DEF FinalResult
    <3> QED BY <2>5, <2>7, <3>2, SameCounting, Zenon DEF Contract!Tally
  <2>9. Contract!Close
    BY <1>1, <2>1, <2>2, <2>8 DEF Contract!Close
  <2> QED BY <2>9 DEF Contract!ContractNext
<1>4. UNCHANGED tableVars \/ (cls[c].pc = "save" /\ WriteFinal(cls[c].totals))
  BY DEF CloseStep, CloseLoad, CloseGate, CloseGateFault, CloseRead, CloseStamp,
     CloseSave, CloseSaveFault, LoadHeader, LoadRows, CloseReadFault, KeepFinal
<1> QED BY <1>2, <1>3, <1>4

\* A counted vote is the device's first, in a poll that is not closed.
LEMMA VoteInContract ==
  ASSUME SerialInv, NEW v \in Votes, VoteStep(v)
  PROVE  [Contract!ContractNext]_(Contract!contractVars)
<1> DEFINE d == DeviceOf[v]
<1>1. UNCHANGED <<poll, FinalResult>>
  BY DEF VoteStep, VoteLoad, VoteRecord, VoteFault, tableVars, FinalResult, Finalized
<1>2. CASE ballots' = ballots
  BY <1>1, <1>2 DEF Contract!contractVars
<1>3. CASE vot[v].pc = "sent" /\ VoteCounted(d, vot[v].choice)
  <2>1. d \in Devices /\ Bucket[d] \in Buckets /\ vot[v].choice \in Selections
    BY <1>3, StoreAssumption, ServiceAssumption
       DEF SerialInv, ServiceInv, RequestInv, SentIsValid
  <2>2. poll.status # "closed"
    BY <1>3, <2>1 DEF VoteCounted, SerialInv, ClosedIsShut
  <2>3. ballots[d] = {} /\ ballots' = [ballots EXCEPT ![d] = vot[v].choice]
    BY <1>3, <2>1 DEF VoteCounted, SerialInv, ServiceInv, StoreInv, CountsMatchBallots
  <2>4. Contract!Vote(d, vot[v].choice)
    BY <1>1, <2>2, <2>3 DEF Contract!Vote
  <2>5. vot[v].choice \in Contract!Selections
    BY <2>1, SameSelections
  <2> QED BY <2>1, <2>4, <2>5 DEF Contract!ContractNext
<1>4. ballots' = ballots \/ (vot[v].pc = "sent" /\ VoteCounted(d, vot[v].choice))
  BY DEF VoteStep, VoteLoad, VoteRecord, VoteFault, storeVars, VoteNotActive, VoteDuplicate
<1> QED BY <1>2, <1>3, <1>4

\* A pass changes nothing that the contract speaks of.
LEMMA PassInContract ==
  ASSUME ServiceInv, NEW w \in Workers, WorkerStep(w)
  PROVE  UNCHANGED Contract!contractVars
<1>1. UNCHANGED <<ballots, poll>>
  BY DEF WorkerStep, WorkerList, WorkerLock, WorkerLockFault, WorkerRead, WorkerStamp,
     WorkerSave, WorkerFault, WorkerRelease, WorkerCrash, tableVars, storeVars, KeepFinal,
     WriteLive
<1>2. UNCHANGED <<header, rows>> \/ (~Finalized /\ ~Finalized')
  <2>1. UNCHANGED <<header, rows>> \/ WriteLive(wrk[w].totals)
    BY DEF WorkerStep, WorkerList, WorkerLock, WorkerLockFault, WorkerRead, WorkerStamp,
       WorkerSave, WorkerFault, WorkerRelease, WorkerCrash, tableVars, KeepFinal
  <2> QED BY <2>1 DEF WriteLive, UpsertHeader, Finalized
<1>3. FinalResult' = FinalResult
  <2>1. CASE UNCHANGED <<header, rows>>
    BY <2>1 DEF FinalResult, Finalized
  <2>2. CASE Finalized = FALSE /\ Finalized' = FALSE
    BY <2>2, Zenon DEF FinalResult
  <2>3. Finalized \in BOOLEAN /\ Finalized' \in BOOLEAN
    BY DEF Finalized
  <2> QED BY <1>2, <2>1, <2>2, <2>3
<1> QED BY <1>1, <1>3 DEF Contract!contractVars

\* The service implements the contract: opening, voting once per device, and
\* one closing that turns exactly the ballots counted so far into a result
\* that stays, although each of them takes many commands that may fail, and
\* snapshot passes store what they read unless it overtakes the close's.
THEOREM ServiceKeepsContract ==
  ASSUME ~AdminsOverlap
  PROVE  Spec /\ []PassesComeFirst => KeepsContract
<1> DEFINE Inv == SerialInv /\ StampsInOrder
<1>1. Init => Inv
  <2> SUFFICES ASSUME Init PROVE StampsInOrder
    BY SerialInit
  <2> QED BY DEF Init, TableInit, StampsInOrder, NoTime
<1>2. Inv /\ PassesComeFirst /\ [Next]_vars => Inv'
  BY SerialNext, StampsStayInOrder DEF SerialInv
<1>3. Init => Contract!ContractInit
  <2> SUFFICES ASSUME Init PROVE Contract!ContractInit
    OBVIOUS
  <2>1. poll.status = "draft" /\ ballots = [d \in Devices |-> {}]
    BY DEF Init, TableInit, StoreInit
  <2>2. Finalized = FALSE
    BY DEF Init, TableInit, Finalized
  <2>3. FinalResult = Contract!NoResult
    BY <2>2, Zenon DEF FinalResult, Contract!NoResult
  <2> QED BY <2>1, <2>3 DEF Contract!ContractInit
<1>4. ASSUME Inv, [Next]_vars
      PROVE  [Contract!ContractNext]_(Contract!contractVars)
  <2>1. CASE LockExpire \/ (\E r \in Replicas : CacheExpire(r)) \/ UNCHANGED vars
    BY <2>1 DEF LockExpire, CacheExpire, vars, storeVars, tableVars, Contract!contractVars,
       FinalResult, Finalized
  <2> QED
    BY <1>4, <2>1, PublishInContract, CloseInContract, VoteInContract, PassInContract
       DEF Next, SerialInv
<1>5. Inv /\ [Next]_vars => [Contract!ContractNext]_(Contract!contractVars)
  BY <1>4
<1> QED BY <1>1, <1>2, <1>3, <1>5, PTL DEF Spec, KeepsContract, Contract!ContractSpec

\* The same without a condition, for a poll that no pass works on.
THEOREM ContractWithoutPasses ==
  ASSUME ~AdminsOverlap, Workers = {}
  PROVE  Spec => KeepsContract
<1>1. PassesComeFirst
  BY DEF PassesComeFirst
<1>2. Spec => []PassesComeFirst
  BY <1>1, PTL
<1> QED BY <1>2, ServiceKeepsContract
=============================================================================
