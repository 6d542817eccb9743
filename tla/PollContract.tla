---------------------------- MODULE PollContract ----------------------------
(***************************************************************************)
(* What a poll promises, without replicas, buckets, caches, commands or    *)
(* retries: a poll is opened, every device has one ballot that is never    *)
(* changed, and closing it once turns exactly the ballots counted so far   *)
(* into a result that stays.                                               *)
(***************************************************************************)
EXTENDS PollDomain

CONSTANT Devices

VARIABLES
  status,   \* of the poll
  ballots,  \* the selection of each device, {} before it votes
  result    \* the final result, NoResult until the poll is closed

contractVars == <<status, ballots, result>>

NoResult == [participants |-> 0, options |-> [o \in Options |-> 0], final |-> FALSE]

Tally ==
  [participants |-> Cardinality({d \in Devices : ballots[d] # {}}),
   options |-> [o \in Options |-> Cardinality({d \in Devices : o \in ballots[d]})],
   final |-> TRUE]

ContractInit ==
  /\ status = "draft"
  /\ ballots = [d \in Devices |-> {}]
  /\ result = NoResult

Publish ==
  /\ status = "draft"
  /\ status' = "active"
  /\ UNCHANGED <<ballots, result>>

\* A publish that could not open every gate is taken back.
Unpublish ==
  /\ status = "active"
  /\ status' = "draft"
  /\ UNCHANGED <<ballots, result>>

\* Ballots are taken until the poll is closed.  A failed publish may have
\* opened gates it could not delete, so a draft is not excluded.
Vote(d, sel) ==
  /\ status # "closed"
  /\ ballots[d] = {}
  /\ ballots' = [ballots EXCEPT ![d] = sel]
  /\ UNCHANGED <<status, result>>

Close ==
  /\ status = "active"
  /\ status' = "closed"
  /\ result' = Tally
  /\ UNCHANGED ballots

ContractNext ==
  \/ Publish
  \/ Unpublish
  \/ \E d \in Devices, sel \in Selections : Vote(d, sel)
  \/ Close

ContractSpec == ContractInit /\ [][ContractNext]_contractVars
=============================================================================
