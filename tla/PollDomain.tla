----------------------------- MODULE PollDomain -----------------------------
(***************************************************************************)
(* The vocabulary shared by the Redis side and the PostgreSQL side of the  *)
(* poll service: poll statuses, the selections a ballot may carry, the     *)
(* aggregated totals, and the encoding of timestamps.                      *)
(*                                                                         *)
(* One poll is modelled.  Every Redis key and every SQL statement is       *)
(* scoped by the poll id, so polls do not interact.                        *)
(***************************************************************************)
EXTENDS Integers, FiniteSets

CONSTANTS
  Options,      \* the options of the poll, fixed when it is created
  MaxChoices    \* max_choices; 1 is a single_choice poll

\* CreatePoll.Validate: single_choice has one choice, multiple_choice at most
\* one per option, and a poll has at least two options.
ASSUME DomainAssumption ==
  /\ IsFiniteSet(Options)
  /\ Cardinality(Options) >= 2
  /\ MaxChoices \in 1..Cardinality(Options)

Statuses == {"draft", "active", "closed"}

\* Timestamps are positive; NoTime is a NULL column or a row not yet written.
NoTime == 0

\* What Poll.ValidateSelection lets through: a non-empty list of at most
\* MaxChoices different options of the poll.  Order carries no meaning later.
Selections == {s \in SUBSET Options : s # {} /\ Cardinality(s) <= MaxChoices}

Counters == [participants: Nat, options: [Options -> Nat]]

NoCounters == [participants |-> 0, options |-> [o \in Options |-> 0]]

Totals == [participants: Nat, options: [Options -> Nat], asOf: Nat]

NoTotals == [participants |-> 0, options |-> [o \in Options |-> 0], asOf |-> NoTime]

\* addCounters: one bucket's hash added to the running totals.
AddCounters(t, c) ==
  [participants |-> t.participants + c.participants,
   options      |-> [o \in Options |-> t.options[o] + c.options[o]],
   asOf         |-> t.asOf]
=============================================================================
