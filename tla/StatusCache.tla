---------------------------- MODULE StatusCache -----------------------------
(***************************************************************************)
(* What the rest of the service may assume of a replica's poll cache: one  *)
(* remembered status that is loaded, warmed, dropped and forgotten in      *)
(* single steps.  PollService uses the cache in this form.                 *)
(***************************************************************************)
CONSTANT Putters

VARIABLES
  status,   \* of the poll
  visible,  \* what the cache says, or "none"
  warm      \* what each publish request is about to put there, or "none"

cacheVars == <<status, visible, warm>>

CacheInit ==
  /\ status = "draft" /\ visible = "none"
  /\ warm = [p \in Putters |-> "none"]

\* Only the present status is loaded, and only when it is active.
Load == visible = "none" /\ status = "active" /\ visible' = "active" /\ UNCHANGED <<status, warm>>

Read(p) == warm' = [warm EXCEPT ![p] = status] /\ UNCHANGED <<status, visible>>

\* A publish stores what it read, unless the entry it found was deleted.
Warm(p) ==
  /\ warm[p] # "none"
  /\ visible' \in {warm[p], visible}
  /\ warm' = [warm EXCEPT ![p] = "none"]
  /\ UNCHANGED status

Drop == visible' = "none" /\ UNCHANGED <<status, warm>>

StatusChange ==
  /\ <<status, status'>> \in {<<"draft", "active">>, <<"active", "draft">>, <<"active", "closed">>}
  /\ UNCHANGED <<visible, warm>>

CacheNext ==
  \/ Load \/ Drop \/ StatusChange
  \/ \E p \in Putters : Read(p) \/ Warm(p)

CacheSpec == CacheInit /\ [][CacheNext]_cacheVars
=============================================================================
