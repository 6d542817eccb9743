----------------------------- MODULE AdminPanel -----------------------------
(***************************************************************************)
(* The admin panel in a browser tab (admin.js) against the admin API: one  *)
(* open poll, a list, a timer that asks for results every second, and      *)
(* answers that arrive in any order, late or never.  The server's side is  *)
(* one step per request; other admins and voters act meanwhile.            *)
(***************************************************************************)
EXTENDS Integers, FiniteSets

CONSTANTS
  Polls,
  Slots,     \* requests that may be under way at once, a bound
  MaxVotes,  \* bound on votes per poll
  Patient,   \* TRUE: no other poll is opened while a publish or close is under way
  Nothing    \* no poll open, no results shown, no request

VARIABLES
  status,  \* of each poll in PostgreSQL
  votes,   \* of each poll; its final result once it is closed
  list,    \* the polls listed and the status each object says
  open,    \* state.poll, and whether it is the list's own object
  timer,   \* state.timer
  shown,   \* what the results panel shows
  req      \* requests under way

vars == <<status, votes, list, open, timer, shown, req>>

Statuses == {"draft", "active", "closed"}
Sources == {"redis_live", "postgres_final"}
Results == [poll: Polls, source: Sources, n: 0..MaxVotes]
Listings == UNION {[S -> Statuses] : S \in SUBSET Polls}
Opened == [poll: Polls, status: Statuses, listed: BOOLEAN]

PanelAssumption ==
  IsFiniteSet(Slots) /\ MaxVotes \in Nat /\ Patient \in BOOLEAN /\ Nothing \notin Opened

Kinds == {"results", "publish", "close", "list"}
Requests ==
  [kind: Kinds, poll: Polls \cup {Nothing}, pc: {"sent"}] \cup
  [kind: {"results", "close"}, poll: Polls, pc: {"answered"}, data: Results] \cup
  [kind: {"publish", "list"}, poll: Polls \cup {Nothing}, pc: {"answered"}, data: Listings]

PanelTypeOK ==
  /\ status \in [Polls -> Statuses] /\ votes \in [Polls -> 0..MaxVotes] /\ list \in Listings
  /\ open = Nothing \/ open \in Opened
  /\ timer \in BOOLEAN /\ (shown = Nothing \/ shown \in Results)
  /\ \A s \in Slots : req[s] = Nothing \/ req[s] \in Requests

Init ==
  /\ status \in [Polls -> {"draft", "active"}] /\ votes = [p \in Polls |-> 0]
  /\ list = status /\ open = Nothing /\ timer = FALSE /\ shown = Nothing
  /\ req = [s \in Slots |-> Nothing]

-----------------------------------------------------------------------------
\* The request in slot s is done with.
Done(s) == [req EXCEPT ![s] = Nothing]

\* Requests R are sent in free slots of rs.
Send(rs, R) ==
  \E T \in SUBSET {t \in Slots : rs[t] = Nothing} :
    /\ Cardinality(T) = Cardinality(R)
    /\ \E f \in [T -> R] :
         /\ {f[t] : t \in T} = R
         /\ req' = [t \in Slots |-> IF t \in T THEN f[t] ELSE rs[t]]

Request(kind, p) == [kind |-> kind, poll |-> p, pc |-> "sent"]
ListRequest == Request("list", Nothing)

\* loadResults sends nothing for a draft.
LoadResults(p, st) == IF st = "draft" THEN {} ELSE {Request("results", p)}

\* renderPoll: the results panel is emptied, the timer started or stopped.
RenderPoll(poll) == open' = poll /\ timer' = (poll.status = "active")

Pending == \E s \in Slots : req[s] # Nothing /\ req[s].kind \in {"publish", "close"}

Open(p) ==
  /\ p \in DOMAIN list /\ (Patient => ~Pending)
  /\ RenderPoll([poll |-> p, status |-> list[p], listed |-> TRUE])
  /\ shown' = Nothing
  /\ Send(req, LoadResults(p, list[p]))
  /\ UNCHANGED <<status, votes, list>>

\* The publish and close buttons stay enabled while a request is under way.
Action(kind) ==
  /\ open # Nothing /\ open.status = IF kind = "publish" THEN "draft" ELSE "active"
  /\ Send(req, {Request(kind, open.poll)})
  /\ UNCHANGED <<status, votes, list, open, timer, shown>>

\* Mutant: nothing is asked while something is shown.
RefreshOnce ==
  /\ timer /\ shown = Nothing
  /\ Send(req, LoadResults(open.poll, open.status))
  /\ UNCHANGED <<status, votes, list, open, timer, shown>>

\* The timer and the refresh button.
Refresh ==
  /\ timer \/ (open # Nothing /\ open.status # "draft")
  /\ Send(req, LoadResults(open.poll, open.status))
  /\ UNCHANGED <<status, votes, list, open, timer, shown>>

ReloadPolls ==
  /\ Send(req, {ListRequest})
  /\ UNCHANGED <<status, votes, list, open, timer, shown>>

-----------------------------------------------------------------------------
Answer(s, data) ==
  req' = [req EXCEPT ![s] = [kind |-> req[s].kind, poll |-> req[s].poll, pc |-> "answered", data |-> data]]

Stored(p) ==
  [poll |-> p, source |-> IF status[p] = "closed" THEN "postgres_final" ELSE "redis_live", n |-> votes[p]]

Sent(s, kind) == req[s] # Nothing /\ req[s].pc = "sent" /\ req[s].kind = kind

\* ResultService.Results.
ServeResults(s) ==
  /\ Sent(s, "results") /\ status[req[s].poll] # "draft"
  /\ Answer(s, Stored(req[s].poll))
  /\ UNCHANGED <<status, votes, list, open, timer, shown>>

ServePublish(s) ==
  /\ Sent(s, "publish") /\ status[req[s].poll] # "closed"
  /\ status' = [status EXCEPT ![req[s].poll] = "active"]
  /\ Answer(s, status')
  /\ UNCHANGED <<votes, list, open, timer, shown>>

\* A poll that is closed already answers with its stored result.
ServeClose(s) ==
  /\ Sent(s, "close") /\ status[req[s].poll] # "draft"
  /\ status' = [status EXCEPT ![req[s].poll] = "closed"]
  /\ Answer(s, [poll |-> req[s].poll, source |-> "postgres_final", n |-> votes[req[s].poll]])
  /\ UNCHANGED <<votes, list, open, timer, shown>>

ServeList(s) ==
  /\ Sent(s, "list")
  /\ Answer(s, status)
  /\ UNCHANGED <<status, votes, list, open, timer, shown>>

Serve(s) == ServeResults(s) \/ ServePublish(s) \/ ServeClose(s) \/ ServeList(s)

-----------------------------------------------------------------------------
Answered(s, kind) == req[s] # Nothing /\ req[s].pc = "answered" /\ req[s].kind = kind

\* loadResults goes on only if the poll it asked for is still open.
GotResults(s) ==
  /\ Answered(s, "results")
  /\ shown' = IF open # Nothing /\ open.poll = req[s].poll THEN req[s].data ELSE shown
  /\ req' = Done(s)
  /\ UNCHANGED <<status, votes, list, open, timer>>

\* The poll in the answer is opened, and the list reloaded.
GotPublish(s) ==
  LET p == req[s].poll IN
  /\ Answered(s, "publish")
  /\ RenderPoll([poll |-> p, status |-> req[s].data[p], listed |-> FALSE])
  /\ shown' = Nothing
  /\ Send(Done(s), LoadResults(p, req[s].data[p]) \cup {ListRequest})
  /\ UNCHANGED <<status, votes, list>>

\* Mutant: a repeated close's answer without a body is shown as it is.
GotCloseEmpty(s) ==
  /\ Answered(s, "close")
  /\ RenderPoll([open EXCEPT !.status = "closed"])
  /\ shown' = [req[s].data EXCEPT !.source = "none"]
  /\ req' = Done(s) /\ UNCHANGED <<status, votes, list>>

\* Whatever poll is open is marked as closed, and gets this answer's results;
\* the mark shows in the list when the object is the list's.
GotClose(s) ==
  /\ Answered(s, "close")
  /\ RenderPoll([open EXCEPT !.status = "closed"])
  /\ list' = IF open.listed /\ open.poll \in DOMAIN list THEN [list EXCEPT ![open.poll] = "closed"] ELSE list
  /\ shown' = req[s].data
  /\ Send(Done(s), LoadResults(open.poll, "closed") \cup {ListRequest})
  /\ UNCHANGED <<status, votes>>

\* The list's objects are new; the open poll keeps its own.
GotList(s) ==
  /\ Answered(s, "list")
  /\ list' = req[s].data
  /\ open' = IF open = Nothing THEN open ELSE [open EXCEPT !.listed = FALSE]
  /\ req' = Done(s)
  /\ UNCHANGED <<status, votes, timer, shown>>

\* Mutant: the poll is marked although the close failed.
GotErrorMarks(s) ==
  /\ req[s] # Nothing
  /\ open' = IF open # Nothing /\ req[s].kind = "close" THEN [open EXCEPT !.status = "closed"] ELSE open
  /\ req' = Done(s)
  /\ UNCHANGED <<status, votes, list, timer, shown>>

\* An error, a timeout, or an answer lost after the request took effect:
\* only a message is shown; a list that could not be loaded is emptied.
GotError(s) ==
  /\ req[s] # Nothing
  /\ list' = IF req[s].kind = "list" THEN [p \in {} |-> "draft"] ELSE list
  /\ open' = IF open # Nothing /\ req[s].kind = "list" THEN [open EXCEPT !.listed = FALSE] ELSE open
  /\ req' = Done(s)
  /\ UNCHANGED <<status, votes, timer, shown>>

Got(s) == GotResults(s) \/ GotPublish(s) \/ GotClose(s) \/ GotList(s)

-----------------------------------------------------------------------------
VoteArrives(p) ==
  /\ status[p] = "active" /\ votes[p] < MaxVotes
  /\ votes' = [votes EXCEPT ![p] = @ + 1]
  /\ UNCHANGED <<status, list, open, timer, shown, req>>

OtherAdmin(p) ==
  /\ status[p] # "closed"
  /\ status' = [status EXCEPT ![p] = IF @ = "draft" THEN "active" ELSE "closed"]
  /\ UNCHANGED <<votes, list, open, timer, shown, req>>

Operator == ReloadPolls \/ Action("publish") \/ Action("close") \/ \E p \in Polls : Open(p)

Next ==
  \/ Operator \/ Refresh
  \/ \E s \in Slots : Serve(s) \/ Got(s) \/ GotError(s)
  \/ \E p \in Polls : VoteArrives(p) \/ OtherAdmin(p)

Spec == Init /\ [][Next]_vars

\* setInterval fires, the browser delivers every answer or an error, and of
\* requests that are sent again and again some are answered.
Fairness ==
  /\ WF_vars(timer /\ Refresh)
  /\ SF_vars(\E s \in Slots : ServeResults(s)) /\ SF_vars(\E s \in Slots : GotResults(s))
  /\ \A s \in Slots : WF_vars(Serve(s) \/ Got(s) \/ GotError(s))

-----------------------------------------------------------------------------
\* The results panel shows the open poll's results, not those of a poll that
\* was open when they were asked for.
ShownIsOpen == shown # Nothing => open # Nothing /\ shown.poll = open.poll

\* A poll the panel says is closed is closed: a failed or lost close leaves
\* the close button usable.
MarkedIsClosed == open # Nothing /\ open.status = "closed" => status[open.poll] = "closed"

\* What the panel says of the open poll is true of that poll.
ScreenIsTrue == ShownIsOpen /\ MarkedIsClosed

\* When the operator leaves the panel with an active poll open, the numbers
\* shown reach the votes counted, whatever fails or overtakes on the way, also
\* when another admin closes the poll meanwhile.
ResultsCatchUp ==
  \A p \in Polls :
    <>[][~Operator]_vars /\ <>[](open # Nothing /\ open.poll = p /\ timer)
      => <>[](shown # Nothing /\ shown.poll = p /\ shown.n = votes[p])

-----------------------------------------------------------------------------
(* What the documentation says and an overtaken answer breaks.             *)

\* When nothing is under way, a poll marked as closed shows its final snapshot.
ClosedShowsFinal ==
  (\A s \in Slots : req[s] = Nothing) /\ open # Nothing /\ open.status = "closed" /\ shown # Nothing
    => shown.source = "postgres_final"
=============================================================================
