----------------------------- MODULE PollStore ------------------------------
(***************************************************************************)
(* The PostgreSQL side of one poll (internal/postgres): its row in polls,  *)
(* its row in poll_runtime_results and its rows in poll_option_results.    *)
(*                                                                         *)
(* Publish and SaveSnapshot lock the polls row (SELECT ... FOR UPDATE)     *)
(* before they decide anything, and RevertPublish is one UPDATE of that    *)
(* row, so each transaction is one action.  What a method reads after its  *)
(* commit is a separate step of its caller.                                *)
(***************************************************************************)
EXTENDS PollDomain

VARIABLES
  poll,     \* the polls row: status, published_at, closed_at
  header,   \* the poll_runtime_results row; capturedAt = NoTime: no row
  rows      \* the poll_option_results rows: counts and their captured_at

tableVars == <<poll, header, rows>>

TableTypeOK ==
  /\ poll \in [status: Statuses, publishedAt: Nat, closedAt: Nat]
  /\ header \in [participants: Nat, capturedAt: Nat, finalizedAt: Nat]
  /\ rows \in [options: [Options -> Nat], capturedAt: Nat]

TableInit ==
  /\ poll = [status |-> "draft", publishedAt |-> NoTime, closedAt |-> NoTime]
  /\ header = [participants |-> 0, capturedAt |-> NoTime, finalizedAt |-> NoTime]
  /\ rows = [options |-> [o \in Options |-> 0], capturedAt |-> NoTime]

-----------------------------------------------------------------------------
(* Publish: only a draft changes; an active poll is committed as it is and *)
(* a closed one is ErrInvalidTransition.                                   *)

PublishDraft(now) ==
  /\ poll.status = "draft"
  /\ poll' = [poll EXCEPT !.status = "active", !.publishedAt = now]
  /\ UNCHANGED <<header, rows>>

PublishAgain ==
  /\ poll.status = "active"
  /\ UNCHANGED tableVars

\* Mutant: the UPDATE does not ask for status = 'active'.
RevertibleAnyStatus(at) == poll.publishedAt = at

\* RevertPublish: the UPDATE matches only the transition stamped `at`.
Revertible(at) == poll.status = "active" /\ poll.publishedAt = at

RevertPublish(at) ==
  /\ Revertible(at)
  /\ poll' = [poll EXCEPT !.status = "draft", !.publishedAt = NoTime]
  /\ UNCHANGED <<header, rows>>

-----------------------------------------------------------------------------
(* SaveSnapshot.                                                           *)

Finalized == header.finalizedAt # NoTime

\* A stored final result ends the transaction before any write.
KeepFinal ==
  /\ Finalized
  /\ UNCHANGED tableVars

\* Mutant: the captured_at condition of the header's upsert is lost.
UpsertHeaderUnordered(t, finalizedAt) ==
  header' = IF ~Finalized
            THEN [participants |-> t.participants, capturedAt |-> t.asOf,
                  finalizedAt |-> finalizedAt]
            ELSE header

\* ON CONFLICT DO UPDATE ... WHERE finalized_at IS NULL AND captured_at <= EXCLUDED.captured_at.
UpsertHeader(t, finalizedAt) ==
  header' = IF ~Finalized /\ header.capturedAt <= t.asOf
            THEN [participants |-> t.participants, capturedAt |-> t.asOf,
                  finalizedAt |-> finalizedAt]
            ELSE header

\* Mutant: the option rows are overwritten whatever their captured_at.
UpsertRowsUnordered(t) ==
  rows' = [options |-> t.options, capturedAt |-> t.asOf]

\* The same upsert for every option row; it does not look at finalized_at.
UpsertRows(t) ==
  rows' = IF rows.capturedAt <= t.asOf
          THEN [options |-> t.options, capturedAt |-> t.asOf]
          ELSE rows

\* Mutant: existingFinal is not looked at before the upserts.
WriteLiveOverFinal(t) ==
  /\ UpsertHeader(t, NoTime)
  /\ UpsertRows(t)
  /\ UNCHANGED poll

WriteLive(t) ==
  /\ ~Finalized
  /\ UpsertHeader(t, NoTime)
  /\ UpsertRows(t)
  /\ UNCHANGED poll

\* Mutant: existingFinal is not looked at when a close saves.
WriteFinalAgain(t) ==
  /\ poll.status # "draft"
  /\ UpsertHeader(t, t.asOf)
  /\ UpsertRows(t)
  /\ poll' = [poll EXCEPT !.status = "closed",
                          !.closedAt = IF @ = NoTime THEN t.asOf ELSE @]

\* A draft rolls the transaction back (ErrInvalidTransition).
WriteFinal(t) ==
  /\ ~Finalized
  /\ poll.status # "draft"
  /\ UpsertHeader(t, t.asOf)
  /\ UpsertRows(t)
  /\ poll' = [poll EXCEPT !.status = "closed",
                          !.closedAt = IF @ = NoTime THEN t.asOf ELSE @]

-----------------------------------------------------------------------------
(* The tables under arbitrary callers with arbitrary clocks: transactions  *)
(* arrive in any order, with totals and stamps that need not increase and  *)
(* may repeat.  PollService's requests are one way to use them.            *)

StampedTotals == {t \in Totals : t.asOf # NoTime}

Stamps == Nat \ {NoTime}

TableNext(totals, stamps) ==
  \/ PublishAgain
  \/ KeepFinal
  \/ \E at \in stamps : PublishDraft(at) \/ RevertPublish(at)
  \/ \E t \in totals : WriteLive(t) \/ WriteFinal(t)

TableSpec == TableInit /\ [][TableNext(StampedTotals, Stamps)]_tableVars

-----------------------------------------------------------------------------
\* The header row and the option rows always come from one call: the guards
\* of the two upserts differ (only the header's mentions finalized_at), yet
\* they never let one table move without the other.
OneSnapshot == header.capturedAt = rows.capturedAt

\* There is a final result only for a closed poll: a save that finalizes
\* without closing, or a publish after it, would leave votes open.
FinalIsClosed == Finalized => poll.status = "closed"

\* "A final result never changes": once finalized_at is set, no publish,
\* compensation, worker snapshot or repeated close alters either result table.
FinalNeverChanges == [][Finalized => UNCHANGED <<header, rows>>]_tableVars

\* A closed poll stays closed: in particular a late compensation of an
\* earlier publish, whatever its stamp, cannot bring it back to draft.
ClosedForGood == [][poll.status = "closed" => poll'.status = "closed"]_tableVars

\* Snapshots with an older captured_at never replace newer rows.
CapturedAtNeverDecreases ==
  [][header'.capturedAt >= header.capturedAt /\ rows'.capturedAt >= rows.capturedAt]_tableVars
=============================================================================
