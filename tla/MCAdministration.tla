-------------------------- MODULE MCAdministration --------------------------
(***************************************************************************)
(* For TLC, what an administrator works with: the panel, and the            *)
(* definitions of the polls.  They share no state; the first state picks    *)
(* the part whose behaviour is explored, the other stays as it starts.      *)
(***************************************************************************)
EXTENDS Integers, Sequences, FiniteSets

CONSTANTS
  Polls, Slots, MaxVotes, Nothing,    \* AdminPanel
  Ids, SlugOf, Inputs, MaxOptions, MaxClock, MaxFaults  \* PollDefinitions

VARIABLES
  part,
  status, votes, list, open, timer, shown, req,
  clock, polls, rows, sent, answer, faults

panelVars == <<status, votes, list, open, timer, shown, req>>
definitionVars == <<clock, polls, rows, sent, answer, faults>>

vars == <<part, panelVars, definitionVars>>

\* The operator waits for a publish or close before opening another poll.
Panel == INSTANCE AdminPanel WITH Patient <- TRUE

Definitions == INSTANCE PollDefinitions

ASSUME PartsAssumption == Panel!PanelAssumption /\ Definitions!DefinitionAssumption

-----------------------------------------------------------------------------
(* Values of the constants for TLC.                                        *)

\* Inputs on both sides of every bound.
Base == [question |-> 1, starts |-> 0, ends |-> 4, options |-> <<1, 200>>, type |-> "single_choice", max |-> 1]
Multiple(options, max) == [Base EXCEPT !.options = options, !.type = "multiple_choice", !.max = max]

ValidInputs ==
  {[Base EXCEPT !.question = 500], Multiple(<<3, 2, 1>>, 2), Multiple(<<2, 1>>, 2), Multiple(<<1, 1, 1>>, 3)}
InvalidInputs ==
  {[Base EXCEPT !.question = 0], [Base EXCEPT !.question = 501], [Base EXCEPT !.starts = 4],
   [Base EXCEPT !.options = <<1>>], [Base EXCEPT !.options = <<1, 201>>], [Base EXCEPT !.options = <<0, 1>>],
   [Base EXCEPT !.max = 2], Multiple(<<1, 2>>, 1), Multiple(<<1, 2>>, 3), Multiple(<<1, 2, 3, 4>>, 2)}

MCInputs == ValidInputs \cup InvalidInputs

\* Two ids agree in the characters the slug is made of.
MCSlugOf == [i \in Ids |-> IF i + 1 \in Ids THEN i ELSE i - 1]

\* For RoundedWindow.cfg: slugs that differ, and a window that is wide enough
\* as it is sent and empty in whole microseconds.
OwnSlugs == [i \in Ids |-> i]
NarrowInputs == {Base, [Base EXCEPT !.starts = 2, !.ends = 3]}

-----------------------------------------------------------------------------
Init ==
  /\ part \in {"panel", "definitions"}
  /\ Panel!Init /\ (part = "panel" \/ \A p \in Polls : status[p] = "draft")
  /\ Definitions!Init

NextPanel == part = "panel" /\ Panel!Next /\ UNCHANGED <<part, definitionVars>>
NextDefinition == part = "definitions" /\ Definitions!Next /\ UNCHANGED <<part, panelVars>>

Next == NextPanel \/ NextDefinition

Spec == Init /\ [][Next]_vars /\ Panel!Fairness

-----------------------------------------------------------------------------
\* Every part's variables are well typed.
AdministrationTypeOK == Panel!PanelTypeOK /\ Definitions!DefinitionsTypeOK

\* AdminPanel: what the panel says of the open poll is true of it.
ScreenIsTrue == Panel!ScreenIsTrue

\* AdminPanel: the numbers of a poll left open reach its votes.
ResultsCatchUp == Panel!ResultsCatchUp

\* PollDefinitions: what is stored, listed and selectable was created.
DefinitionsAreSound == Definitions!DefinitionsAreSound

\* PollDefinitions: "unavailable" is answered only when something was.
UnavailableIsAFault == Definitions!UnavailableIsAFault
=============================================================================
