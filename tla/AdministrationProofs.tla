------------------------ MODULE AdministrationProofs ------------------------
(***************************************************************************)
(* For any polls and any number of requests under way, what the panel says *)
(* of the open poll is true of it.  The argument: while a publish or close *)
(* is under way its poll stays open, and that a poll is closed is said by  *)
(* no list and by no answer before it is so.  For any inputs and faults of *)
(* the database, stored polls read back as they were sent: the rows of a   *)
(* poll are always just those of one valid input.  The list joins them     *)
(* row by row, in an order in which the rows of a poll are consecutive.    *)
(***************************************************************************)
EXTENDS MCAdministration, FiniteSetTheorems, SequenceTheorems, TLAPS

-----------------------------------------------------------------------------
(* The admin panel.                                                        *)

\* Closed polls of a listing are closed in st.
TrueOf(listing, st) == \A p \in DOMAIN listing : listing[p] = "closed" => st[p] = "closed"

SoundAnswer(q, st) ==
  /\ q.kind \in {"results", "close"} => q.data \in Panel!Results /\ q.data.poll = q.poll
  /\ q.kind = "close" => st[q.poll] = "closed"
  /\ q.kind \in {"publish", "list"} => q.data \in [Polls -> Panel!Statuses] /\ TrueOf(q.data, st)

\* A request under way where statuses are st and the panel has o open.
SoundRequest(q, st, o) ==
  q # Nothing =>
    /\ q \in Panel!Requests
    /\ q.kind \in {"publish", "close"} => o # Nothing /\ o.poll = q.poll
    /\ q.kind # "list" => q.poll \in Polls
    /\ q.pc = "answered" => SoundAnswer(q, st)

PanelInv ==
  /\ Panel!PanelTypeOK /\ req = [s \in Slots |-> req[s]]
  /\ Panel!ScreenIsTrue /\ (timer = TRUE => open # Nothing)
  /\ TrueOf(list, status)
  /\ \A s \in Slots : SoundRequest(req[s], status, open)

-----------------------------------------------------------------------------
LEMMA PanelFacts == MaxVotes \in Nat /\ Nothing \notin Panel!Opened
BY PartsAssumption DEF Panel!PanelAssumption

LEMMA FullListing == [Polls -> Panel!Statuses] \subseteq Panel!Listings
BY DEF Panel!Listings

\* A closed poll stays closed, and the poll of requests under way stays open.
LEMMA RequestLater ==
  ASSUME NEW q, NEW st, NEW o, SoundRequest(q, st, o), NEW st2, NEW o2,
         \A p \in Polls : st[p] = "closed" => st2[p] = "closed",
         q # Nothing /\ q.kind \in {"publish", "close"} => o2 # Nothing /\ o2.poll = o.poll
  PROVE  SoundRequest(q, st2, o2)
<1> SUFFICES ASSUME q # Nothing PROVE SoundRequest(q, st2, o2)
  BY DEF SoundRequest
<1>1. q.pc = "answered" => SoundAnswer(q, st2)
  <2> SUFFICES ASSUME q.pc = "answered" PROVE SoundAnswer(q, st2)
    OBVIOUS
  <2>1. SoundAnswer(q, st) /\ (q.kind # "list" => q.poll \in Polls)
    BY DEF SoundRequest
  <2>2. q.data \in [Polls -> Panel!Statuses] /\ TrueOf(q.data, st) => TrueOf(q.data, st2)
    BY DEF TrueOf
  <2> QED BY <2>1, <2>2 DEF SoundAnswer
<1> QED BY <1>1 DEF SoundRequest

LEMMA NewRequest ==
  ASSUME NEW kind \in Panel!Kinds, NEW p \in Polls \cup {Nothing}, NEW st, NEW o,
         kind # "list" => p \in Polls,
         kind \in {"publish", "close"} => o # Nothing /\ o.poll = p
  PROVE  SoundRequest(Panel!Request(kind, p), st, o)
<1> DEFINE q == Panel!Request(kind, p)
<1>1. q.kind = kind /\ q.poll = p /\ q.pc = "sent" /\ q \in Panel!Requests
  BY DEF Panel!Request, Panel!Requests
<1> HIDE DEF q
<1>2. SoundRequest(q, st, o)
  BY <1>1 DEF SoundRequest
<1> QED BY <1>2 DEF q

LEMMA NewLoads ==
  ASSUME NEW p \in Polls, NEW x, NEW st, NEW o
  PROVE  /\ \A q \in Panel!LoadResults(p, x) : SoundRequest(q, st, o)
         /\ SoundRequest(Panel!ListRequest, st, o)
<1>1. SoundRequest(Panel!Request("results", p), st, o)
  BY NewRequest DEF Panel!Kinds
<1>2. SoundRequest(Panel!Request("list", Nothing), st, o)
  BY NewRequest DEF Panel!Kinds
<1> QED BY <1>1, <1>2 DEF Panel!LoadResults, Panel!ListRequest

\* Requests are sent in free slots.
LEMMA RequestsSent ==
  ASSUME NEW rs, NEW R, Panel!Send(rs, R), NEW st, NEW o,
         \A s \in Slots : SoundRequest(rs[s], st, o), \A q \in R : SoundRequest(q, st, o)
  PROVE  req' = [s \in Slots |-> req'[s]] /\ \A s \in Slots : SoundRequest(req'[s], st, o)
<1>1. PICK T \in SUBSET {t \in Slots : rs[t] = Nothing} :
        \E f \in [T -> R] : {f[t] : t \in T} = R /\ req' = [t \in Slots |-> IF t \in T THEN f[t] ELSE rs[t]]
  BY DEF Panel!Send
<1>2. PICK f \in [T -> R] : req' = [t \in Slots |-> IF t \in T THEN f[t] ELSE rs[t]]
  BY <1>1
<1>3. ASSUME NEW s \in Slots PROVE SoundRequest(req'[s], st, o)
  <2>1. req'[s] = rs[s] \/ req'[s] \in R
    BY <1>2
  <2> QED BY <2>1
<1> QED BY <1>2, <1>3

\* One slot changes.
LEMMA SlotChanges ==
  ASSUME PanelInv, NEW s \in Slots, NEW q, req' = [req EXCEPT ![s] = q], NEW st, NEW o,
         \A t \in Slots : SoundRequest(req[t], st, o), SoundRequest(q, st, o)
  PROVE  req' = [t \in Slots |-> req'[t]] /\ \A t \in Slots : SoundRequest(req'[t], st, o)
<1>1. \A t \in Slots : req'[t] = IF t = s THEN q ELSE req[t]
  BY DEF PanelInv
<1>2. req' = [t \in Slots |-> req'[t]]
  BY DEF PanelInv
<1> QED BY <1>1, <1>2

LEMMA NoRequest == \A st, o : SoundRequest(Nothing, st, o)
BY DEF SoundRequest

LEMMA SlotDone ==
  ASSUME PanelInv, NEW s \in Slots, NEW st, NEW o, \A t \in Slots : SoundRequest(req[t], st, o)
  PROVE  \A t \in Slots : SoundRequest(Panel!Done(s)[t], st, o)
<1>1. \A t \in Slots : Panel!Done(s)[t] = IF t = s THEN Nothing ELSE req[t]
  BY DEF PanelInv, Panel!Done
<1> QED BY <1>1, NoRequest

\* What PanelInv needs of a next state.
LEMMA PanelAfter ==
  ASSUME status' \in [Polls -> Panel!Statuses], votes' \in [Polls -> 0..MaxVotes], list' \in Panel!Listings,
         open' = Nothing \/ open' \in Panel!Opened, timer' \in BOOLEAN, shown' = Nothing \/ shown' \in Panel!Results,
         req' = [s \in Slots |-> req'[s]], \A s \in Slots : SoundRequest(req'[s], status', open'),
         shown' # Nothing => open' # Nothing /\ shown'.poll = open'.poll,
         open' # Nothing /\ open'.status = "closed" => status'[open'.poll] = "closed",
         timer' = TRUE => open' # Nothing, TrueOf(list', status')
  PROVE  PanelInv'
<1>1. \A s \in Slots : req'[s] = Nothing \/ req'[s] \in Panel!Requests
  BY DEF SoundRequest
<1>2. Panel!PanelTypeOK'
  BY <1>1 DEF Panel!PanelTypeOK, Panel!Statuses, Panel!Listings, Panel!Opened, Panel!Results, Panel!Sources,
              Panel!Requests, Panel!Kinds
<1>3. Panel!ScreenIsTrue'
  BY DEF Panel!ScreenIsTrue, Panel!ShownIsOpen, Panel!MarkedIsClosed
<1>4. TrueOf(list, status)' /\ \A s \in Slots : SoundRequest(req[s], status, open)'
  BY DEF TrueOf, SoundRequest, SoundAnswer, Panel!Statuses, Panel!Results, Panel!Sources, Panel!Requests, Panel!Kinds,
         Panel!Listings
<1> QED BY <1>2, <1>3, <1>4 DEF PanelInv

LEMMA PanelNow ==
  ASSUME PanelInv
  PROVE  /\ status \in [Polls -> Panel!Statuses] /\ votes \in [Polls -> 0..MaxVotes] /\ list \in Panel!Listings
         /\ open = Nothing \/ open \in Panel!Opened
         /\ timer \in BOOLEAN
         /\ shown = Nothing \/ shown \in Panel!Results
         /\ req = [s \in Slots |-> req[s]] /\ \A s \in Slots : SoundRequest(req[s], status, open)
         /\ shown # Nothing => open # Nothing /\ shown.poll = open.poll
         /\ open # Nothing /\ open.status = "closed" => status[open.poll] = "closed"
         /\ timer = TRUE => open # Nothing
         /\ TrueOf(list, status)
BY DEF PanelInv, Panel!PanelTypeOK, Panel!ScreenIsTrue, Panel!ShownIsOpen, Panel!MarkedIsClosed
-----------------------------------------------------------------------------
(* Every step keeps it.                                                    *)

\* The operator, and the timer.
LEMMA OperatorKeeps ==
  ASSUME PanelInv, Panel!Operator \/ Panel!Refresh
  PROVE  PanelInv'
<1> USE PanelFacts, PanelNow
<1>1. ASSUME NEW R, Panel!Send(req, R), \A q \in R : SoundRequest(q, status, open),
             UNCHANGED <<status, votes, list, open, timer, shown>>
      PROVE  PanelInv'
  <2>1. req' = [s \in Slots |-> req'[s]] /\ \A s \in Slots : SoundRequest(req'[s], status', open')
    BY <1>1, RequestsSent
  <2> QED BY <1>1, <2>1, PanelAfter
<1>2. CASE Panel!ReloadPolls
  <2>1. SoundRequest(Panel!ListRequest, status, open)
    BY NewRequest DEF Panel!ListRequest, Panel!Kinds
  <2>2. \A q \in {Panel!ListRequest} : SoundRequest(q, status, open)
    BY <2>1
  <2> QED BY <1>1, <1>2, <2>2 DEF Panel!ReloadPolls
<1>3. ASSUME NEW kind \in {"publish", "close"}, Panel!Action(kind) PROVE PanelInv'
  <2>1. open # Nothing /\ open.poll \in Polls /\ kind \in Panel!Kinds
    BY <1>3 DEF Panel!Action, Panel!Opened, Panel!Kinds
  <2>2. SoundRequest(Panel!Request(kind, open.poll), status, open)
    BY <2>1, NewRequest
  <2>3. \A q \in {Panel!Request(kind, open.poll)} : SoundRequest(q, status, open)
    BY <2>2
  <2> QED BY <1>1, <1>3, <2>3 DEF Panel!Action
<1>4. CASE Panel!Refresh
  <2>1. \A q \in Panel!LoadResults(open.poll, open.status) : SoundRequest(q, status, open)
    <3>1. CASE open = Nothing
      <4>1. timer = TRUE
        BY <1>4, <3>1 DEF Panel!Refresh
      <4> QED BY <3>1, <4>1
    <3>2. CASE open # Nothing
      <4>1. open.poll \in Polls
        BY <3>2 DEF Panel!Opened
      <4> QED BY <4>1, NewLoads
    <3> QED BY <3>1, <3>2
  <2> QED BY <1>1, <1>4, <2>1 DEF Panel!Refresh
<1>5. ASSUME NEW p \in Polls, Panel!Open(p) PROVE PanelInv'
  <2>1. /\ p \in DOMAIN list /\ ~Panel!Pending /\ UNCHANGED <<status, votes, list>> /\ shown' = Nothing
        /\ open' = [poll |-> p, status |-> list[p], listed |-> TRUE] /\ timer' \in BOOLEAN
        /\ Panel!Send(req, Panel!LoadResults(p, list[p]))
    BY <1>5 DEF Panel!Open, Panel!RenderPoll
  <2>2. list[p] \in Panel!Statuses
    BY <2>1 DEF Panel!Listings
  <2>3. open' \in Panel!Opened /\ open'.poll = p /\ open'.status = list[p]
    BY <2>1, <2>2 DEF Panel!Opened
  <2>4. \A s \in Slots : SoundRequest(req[s], status, open')
    <3>1. ASSUME NEW s \in Slots PROVE req[s] # Nothing => ~(req[s].kind \in {"publish", "close"})
      BY <2>1 DEF Panel!Pending
    <3> QED BY <3>1, RequestLater
  <2>5. req' = [s \in Slots |-> req'[s]] /\ \A s \in Slots : SoundRequest(req'[s], status', open')
    <3>1. \A q \in Panel!LoadResults(p, list[p]) : SoundRequest(q, status, open')
      BY NewLoads
    <3> QED BY <2>1, <2>4, <3>1, RequestsSent
  <2>6. open'.status = "closed" => status'[open'.poll] = "closed"
    BY <2>1, <2>3 DEF TrueOf
  <2> QED BY <2>1, <2>3, <2>5, <2>6, PanelAfter
<1> QED BY <1>2, <1>3, <1>4, <1>5 DEF Panel!Operator

\* The server, voters and other admins: statuses and votes move, nothing the panel has.
LEMMA ServerKeeps ==
  ASSUME PanelInv, UNCHANGED <<list, open, timer, shown>>,
         status' \in [Polls -> Panel!Statuses], votes' \in [Polls -> 0..MaxVotes],
         \A p \in Polls : status[p] = "closed" => status'[p] = "closed",
         \/ UNCHANGED req
         \/ \E s \in Slots : \E q : req' = [req EXCEPT ![s] = q] /\ SoundRequest(q, status', open)
  PROVE  PanelInv'
<1> USE PanelFacts, PanelNow
<1>1. ASSUME NEW t \in Slots PROVE SoundRequest(req[t], status', open)
  <2>1. req[t] # Nothing /\ req[t].kind \in {"publish", "close"} => open # Nothing /\ open.poll = open.poll
    BY DEF SoundRequest
  <2> QED BY <2>1, RequestLater
<1>2. req' = [t \in Slots |-> req'[t]] /\ \A t \in Slots : SoundRequest(req'[t], status', open')
  <2>1. CASE UNCHANGED req
    BY <1>1, <2>1
  <2>2. ASSUME NEW s \in Slots, NEW q, req' = [req EXCEPT ![s] = q], SoundRequest(q, status', open)
        PROVE  req' = [t \in Slots |-> req'[t]] /\ \A t \in Slots : SoundRequest(req'[t], status', open)
    BY <1>1, <2>2, SlotChanges
  <2> QED BY <2>1, <2>2
<1>3. TrueOf(list', status')
  BY DEF TrueOf, Panel!Listings
<1>4. open' # Nothing /\ open'.status = "closed" => status'[open'.poll] = "closed"
  BY DEF Panel!Opened
<1> QED BY <1>2, <1>3, <1>4, PanelAfter

\* An answer that is sound.
LEMMA AnswerSound ==
  ASSUME PanelInv, NEW s \in Slots, req[s] # Nothing, req[s].pc = "sent", NEW data, Panel!Answer(s, data),
         NEW st, \A p \in Polls : status[p] = "closed" => st[p] = "closed",
         req[s].kind \in {"results", "close"} => data \in Panel!Results /\ data.poll = req[s].poll,
         req[s].kind = "close" => st[req[s].poll] = "closed",
         req[s].kind \in {"publish", "list"} => data \in [Polls -> Panel!Statuses] /\ TrueOf(data, st)
  PROVE  \E q : req' = [req EXCEPT ![s] = q] /\ SoundRequest(q, st, open)
<1> DEFINE r == req[s]
           q == [kind |-> r.kind, poll |-> r.poll, pc |-> "answered", data |-> data]
<1>1. req' = [req EXCEPT ![s] = q]
  BY DEF Panel!Answer
<1>2. q.kind = r.kind /\ q.poll = r.poll /\ q.pc = "answered" /\ q.data = data
  OBVIOUS
<1>3. SoundRequest(r, status, open) /\ r # Nothing
  BY PanelNow
<1>4. r.kind \in Panel!Kinds /\ r.poll \in Polls \cup {Nothing} /\ (r.kind # "list" => r.poll \in Polls)
  BY <1>3 DEF SoundRequest, Panel!Requests, Panel!Kinds
<1>5. q \in Panel!Requests
  <2>1. CASE r.kind \in {"results", "close"}
    BY <1>4, <2>1 DEF Panel!Requests
  <2>2. CASE r.kind \in {"publish", "list"}
    BY <1>4, <2>2, FullListing DEF Panel!Requests
  <2> QED BY <1>4, <2>1, <2>2 DEF Panel!Kinds
<1>6. SoundAnswer(q, st)
  BY <1>2 DEF SoundAnswer
<1> HIDE DEF q
<1>7. SoundRequest(q, st, open)
  BY <1>2, <1>3, <1>4, <1>5, <1>6 DEF SoundRequest
<1> QED BY <1>1, <1>7
LEMMA ServeKeeps ==
  ASSUME PanelInv, NEW s \in Slots, Panel!Serve(s)
  PROVE  PanelInv'
<1> USE PanelNow
<1> DEFINE r == req[s]
<1>1. SoundRequest(r, status, open)
  OBVIOUS
<1>2. CASE Panel!ServeResults(s)
  <2>1. /\ r # Nothing /\ r.pc = "sent" /\ r.kind = "results" /\ UNCHANGED <<status, votes, list, open, timer, shown>>
        /\ Panel!Answer(s, Panel!Stored(r.poll))
    BY <1>2 DEF Panel!ServeResults, Panel!Sent
  <2>2. r.poll \in Polls
    BY <1>1, <2>1 DEF SoundRequest
  <2>3. Panel!Stored(r.poll) \in Panel!Results /\ Panel!Stored(r.poll).poll = r.poll
    BY <2>2 DEF Panel!Stored, Panel!Results, Panel!Sources
  <2>4. \E q : req' = [req EXCEPT ![s] = q] /\ SoundRequest(q, status, open)
    BY <2>1, <2>3, AnswerSound
  <2> QED BY <2>1, <2>4, ServerKeeps
<1>3. CASE Panel!ServePublish(s)
  <2>1. /\ r # Nothing /\ r.pc = "sent" /\ r.kind = "publish" /\ UNCHANGED <<votes, list, open, timer, shown>>
        /\ status[r.poll] # "closed" /\ status' = [status EXCEPT ![r.poll] = "active"] /\ Panel!Answer(s, status')
    BY <1>3 DEF Panel!ServePublish, Panel!Sent
  <2>2. PICK st : st = status'
    OBVIOUS
  <2>3. st \in [Polls -> Panel!Statuses] /\ \A p \in Polls : status[p] = "closed" => st[p] = "closed"
    BY <2>1, <2>2 DEF Panel!Statuses
  <2>4. Panel!Answer(s, st) /\ TrueOf(st, st)
    BY <2>1, <2>2 DEF TrueOf, Panel!Answer
  <2>5. \E q : req' = [req EXCEPT ![s] = q] /\ SoundRequest(q, st, open)
    BY <2>1, <2>3, <2>4, AnswerSound
  <2> QED BY <2>1, <2>2, <2>3, <2>5, ServerKeeps
<1>4. CASE Panel!ServeClose(s)
  <2>1. /\ r # Nothing /\ r.pc = "sent" /\ r.kind = "close" /\ UNCHANGED <<votes, list, open, timer, shown>>
        /\ status' = [status EXCEPT ![r.poll] = "closed"]
        /\ Panel!Answer(s, [poll |-> r.poll, source |-> "postgres_final", n |-> votes[r.poll]])
    BY <1>4 DEF Panel!ServeClose, Panel!Sent
  <2>2. r.poll \in Polls
    BY <1>1, <2>1 DEF SoundRequest
  <2>3. PICK st : st = status'
    OBVIOUS
  <2>4. /\ st \in [Polls -> Panel!Statuses] /\ st[r.poll] = "closed"
        /\ \A p \in Polls : status[p] = "closed" => st[p] = "closed"
    BY <2>1, <2>2, <2>3 DEF Panel!Statuses
  <2> DEFINE data == [poll |-> r.poll, source |-> "postgres_final", n |-> votes[r.poll]]
  <2>5. data \in Panel!Results /\ data.poll = r.poll
    BY <2>2 DEF Panel!Results, Panel!Sources
  <2>6. \E q : req' = [req EXCEPT ![s] = q] /\ SoundRequest(q, st, open)
    BY <2>1, <2>4, <2>5, AnswerSound
  <2> QED BY <2>1, <2>3, <2>4, <2>6, ServerKeeps
<1>5. CASE Panel!ServeList(s)
  <2>1. /\ r # Nothing /\ r.pc = "sent" /\ r.kind = "list" /\ UNCHANGED <<status, votes, list, open, timer, shown>>
        /\ Panel!Answer(s, status)
    BY <1>5 DEF Panel!ServeList, Panel!Sent
  <2>2. TrueOf(status, status)
    BY DEF TrueOf
  <2>3. \E q : req' = [req EXCEPT ![s] = q] /\ SoundRequest(q, status, open)
    BY <2>1, <2>2, AnswerSound
  <2> QED BY <2>1, <2>3, ServerKeeps
<1> QED BY <1>2, <1>3, <1>4, <1>5 DEF Panel!Serve

\* Answers that reach the panel.
LEMMA GotKeeps ==
  ASSUME PanelInv, NEW s \in Slots, Panel!Got(s) \/ Panel!GotError(s)
  PROVE  PanelInv'
<1> USE PanelFacts, PanelNow
<1> DEFINE r == req[s]
<1>1. SoundRequest(r, status, open)
  OBVIOUS
<1>2. ASSUME req' = Panel!Done(s), NEW o, \A t \in Slots : SoundRequest(req[t], status, o)
      PROVE  req' = [t \in Slots |-> req'[t]] /\ \A t \in Slots : SoundRequest(req'[t], status, o)
  <2>1. \A t \in Slots : SoundRequest(Panel!Done(s)[t], status, o)
    BY <1>2, SlotDone
  <2>2. Panel!Done(s) = [t \in Slots |-> Panel!Done(s)[t]]
    BY DEF Panel!Done
  <2> QED BY <1>2, <2>1, <2>2
<1>3. ASSUME NEW p \in Polls, NEW x, NEW o, \A t \in Slots : SoundRequest(req[t], status, o),
             Panel!Send(Panel!Done(s), Panel!LoadResults(p, x) \cup {Panel!ListRequest})
      PROVE  req' = [t \in Slots |-> req'[t]] /\ \A t \in Slots : SoundRequest(req'[t], status, o)
  <2>1. \A t \in Slots : SoundRequest(Panel!Done(s)[t], status, o)
    BY <1>3, SlotDone
  <2>2. \A q \in Panel!LoadResults(p, x) \cup {Panel!ListRequest} : SoundRequest(q, status, o)
    BY NewLoads
  <2> QED BY <1>3, <2>1, <2>2, RequestsSent
<1>4. ASSUME NEW o, open # Nothing => o # Nothing /\ o.poll = open.poll, NEW t \in Slots
      PROVE  SoundRequest(req[t], status, o)
  <2>1. req[t] # Nothing /\ req[t].kind \in {"publish", "close"} => o # Nothing /\ o.poll = open.poll
    BY <1>4 DEF SoundRequest
  <2> QED BY <2>1, RequestLater
<1>5. CASE Panel!GotResults(s)
  <2>1. /\ r # Nothing /\ r.pc = "answered" /\ r.kind = "results" /\ UNCHANGED <<status, votes, list, open, timer>>
        /\ shown' = IF open # Nothing /\ open.poll = r.poll THEN r.data ELSE shown
        /\ req' = Panel!Done(s)
    BY <1>5 DEF Panel!GotResults, Panel!Answered
  <2>2. r.data \in Panel!Results /\ r.data.poll = r.poll
    BY <1>1, <2>1 DEF SoundRequest, SoundAnswer
  <2> HIDE DEF r
  <2>3. /\ shown' = Nothing \/ shown' \in Panel!Results
        /\ shown' # Nothing => open # Nothing /\ shown'.poll = open.poll
    BY <2>1, <2>2
  <2>4. req' = [t \in Slots |-> req'[t]] /\ \A t \in Slots : SoundRequest(req'[t], status', open')
    BY <1>2, <2>1
  <2> QED BY <2>1, <2>3, <2>4, PanelAfter
<1>6. CASE Panel!GotPublish(s)
  <2> DEFINE p == r.poll
             o == [poll |-> p, status |-> r.data[p], listed |-> FALSE]
  <2>1. /\ r # Nothing /\ r.pc = "answered" /\ r.kind = "publish" /\ UNCHANGED <<status, votes, list>>
        /\ open' = o /\ timer' \in BOOLEAN /\ shown' = Nothing
        /\ Panel!Send(Panel!Done(s), Panel!LoadResults(p, r.data[p]) \cup {Panel!ListRequest})
    BY <1>6 DEF Panel!GotPublish, Panel!Answered, Panel!RenderPoll
  <2>2. /\ p \in Polls /\ r.data \in [Polls -> Panel!Statuses] /\ TrueOf(r.data, status)
        /\ open # Nothing /\ open.poll = p
    BY <1>1, <2>1 DEF SoundRequest, SoundAnswer
  <2> HIDE DEF r, p
  <2>3. r.data[p] \in Panel!Statuses
    BY <2>2
  <2>4. o \in Panel!Opened /\ o.poll = p /\ o.status = r.data[p]
    BY <2>2, <2>3 DEF Panel!Opened
  <2> HIDE DEF o
  <2>5. o \in Panel!Opened /\ o.poll = p /\ o.status = r.data[p] /\ o # Nothing
    BY <2>4
  <2>6. o.status = "closed" => status[o.poll] = "closed"
    BY <2>2, <2>5 DEF TrueOf
  <2>7. \A t \in Slots : SoundRequest(req[t], status, o)
    BY <1>4, <2>2, <2>5
  <2>8. req' = [t \in Slots |-> req'[t]] /\ \A t \in Slots : SoundRequest(req'[t], status, o)
    BY <1>3, <2>1, <2>2, <2>7
  <2> QED BY <2>1, <2>5, <2>6, <2>8, PanelAfter
<1>7. CASE Panel!GotClose(s)
  <2> DEFINE o == [open EXCEPT !.status = "closed"]
             p == open.poll
  <2>1. /\ r # Nothing /\ r.pc = "answered" /\ r.kind = "close" /\ UNCHANGED <<status, votes>>
        /\ open' = o /\ timer' \in BOOLEAN /\ shown' = r.data
        /\ list' = IF open.listed /\ p \in DOMAIN list THEN [list EXCEPT ![p] = "closed"] ELSE list
        /\ Panel!Send(Panel!Done(s), Panel!LoadResults(p, "closed") \cup {Panel!ListRequest})
    BY <1>7 DEF Panel!GotClose, Panel!Answered, Panel!RenderPoll
  <2>2. /\ r.data \in Panel!Results /\ r.data.poll = r.poll /\ status[r.poll] = "closed"
        /\ open # Nothing /\ p = r.poll
    BY <1>1, <2>1 DEF SoundRequest, SoundAnswer
  <2>3. p \in Polls /\ o \in Panel!Opened /\ o.poll = p /\ o.status = "closed" /\ o # Nothing
    BY <2>2 DEF Panel!Opened, Panel!Statuses
  <2> HIDE DEF o, p, r
  <2>4. list' \in Panel!Listings /\ TrueOf(list', status)
    BY <2>1, <2>2 DEF Panel!Listings, Panel!Statuses, TrueOf
  <2>5. \A t \in Slots : SoundRequest(req[t], status, o)
    BY <1>4, <2>2, <2>3 DEF p
  <2>6. req' = [t \in Slots |-> req'[t]] /\ \A t \in Slots : SoundRequest(req'[t], status, o)
    BY <1>3, <2>1, <2>3, <2>5
  <2> QED BY <2>1, <2>2, <2>3, <2>4, <2>6, PanelAfter
<1>8. CASE Panel!GotList(s)
  <2> DEFINE o == IF open = Nothing THEN open ELSE [open EXCEPT !.listed = FALSE]
  <2>1. /\ r # Nothing /\ r.pc = "answered" /\ r.kind = "list" /\ UNCHANGED <<status, votes, timer, shown>>
        /\ open' = o /\ list' = r.data /\ req' = Panel!Done(s)
    BY <1>8 DEF Panel!GotList, Panel!Answered
  <2>2. r.data \in [Polls -> Panel!Statuses] /\ TrueOf(r.data, status)
    BY <1>1, <2>1 DEF SoundRequest, SoundAnswer
  <2>3. /\ o = Nothing \/ o \in Panel!Opened
        /\ open # Nothing => o # Nothing /\ o.poll = open.poll
        /\ o # Nothing => open # Nothing /\ o.status = open.status /\ o.poll = open.poll
    BY DEF Panel!Opened
  <2> HIDE DEF o, r
  <2>4. \A t \in Slots : SoundRequest(req[t], status, o)
    BY <1>4, <2>3
  <2>5. req' = [t \in Slots |-> req'[t]] /\ \A t \in Slots : SoundRequest(req'[t], status, o)
    BY <1>2, <2>1, <2>4
  <2> QED BY <2>1, <2>2, <2>3, <2>5, FullListing, PanelAfter
<1>9. CASE Panel!GotError(s)
  <2> DEFINE o == IF open # Nothing /\ r.kind = "list" THEN [open EXCEPT !.listed = FALSE] ELSE open
  <2>1. /\ UNCHANGED <<status, votes, timer, shown>> /\ open' = o /\ req' = Panel!Done(s)
        /\ list' = IF r.kind = "list" THEN [p \in {} |-> "draft"] ELSE list
    BY <1>9 DEF Panel!GotError
  <2>2. list' \in Panel!Listings /\ TrueOf(list', status)
    <3>1. [p \in {} |-> "draft"] \in [{} -> Panel!Statuses]
      OBVIOUS
    <3> QED BY <2>1, <3>1 DEF Panel!Listings, TrueOf
  <2>3. /\ o = Nothing \/ o \in Panel!Opened
        /\ open # Nothing => o # Nothing /\ o.poll = open.poll
        /\ o # Nothing => open # Nothing /\ o.status = open.status /\ o.poll = open.poll
    BY DEF Panel!Opened
  <2> HIDE DEF o, r
  <2>4. \A t \in Slots : SoundRequest(req[t], status, o)
    BY <1>4, <2>3
  <2>5. req' = [t \in Slots |-> req'[t]] /\ \A t \in Slots : SoundRequest(req'[t], status, o)
    BY <1>2, <2>1, <2>4
  <2> QED BY <2>1, <2>2, <2>3, <2>5, PanelAfter
<1> QED BY <1>5, <1>6, <1>7, <1>8, <1>9 DEF Panel!Got

LEMMA PanelInit == Panel!Init => PanelInv
<1> SUFFICES ASSUME Panel!Init PROVE PanelInv
  OBVIOUS
<1> USE DEF Panel!Init
<1>1. status \in [Polls -> Panel!Statuses] /\ list = status
  BY DEF Panel!Statuses
<1>2. Panel!PanelTypeOK
  <2>1. votes \in [Polls -> 0..MaxVotes]
    BY PanelFacts
  <2>2. list \in Panel!Listings
    BY <1>1, FullListing
  <2>3. \A s \in Slots : req[s] = Nothing
    OBVIOUS
  <2> QED BY <1>1, <2>1, <2>2, <2>3 DEF Panel!PanelTypeOK
<1>3. TrueOf(list, status)
  BY <1>1 DEF TrueOf
<1>4. \A s \in Slots : SoundRequest(req[s], status, open)
  BY NoRequest
<1> QED BY <1>2, <1>3, <1>4 DEF PanelInv, Panel!ScreenIsTrue, Panel!ShownIsOpen, Panel!MarkedIsClosed

LEMMA PanelNext == PanelInv /\ [Panel!Next]_panelVars => PanelInv'
<1> SUFFICES ASSUME PanelInv, [Panel!Next]_panelVars PROVE PanelInv'
  OBVIOUS
<1> USE PanelNow
<1>1. CASE Panel!Operator \/ Panel!Refresh
  BY <1>1, OperatorKeeps
<1>2. ASSUME NEW s \in Slots, Panel!Serve(s) PROVE PanelInv'
  BY <1>2, ServeKeeps
<1>3. ASSUME NEW s \in Slots, Panel!Got(s) \/ Panel!GotError(s) PROVE PanelInv'
  BY <1>3, GotKeeps
<1>4. ASSUME NEW p \in Polls, Panel!VoteArrives(p) PROVE PanelInv'
  <2>1. votes' \in [Polls -> 0..MaxVotes] /\ UNCHANGED <<status, list, open, timer, shown, req>>
    BY <1>4, PanelFacts DEF Panel!VoteArrives
  <2> QED BY <2>1, ServerKeeps
<1>5. ASSUME NEW p \in Polls, Panel!OtherAdmin(p) PROVE PanelInv'
  <2>1. /\ status' \in [Polls -> Panel!Statuses] /\ UNCHANGED <<votes, list, open, timer, shown, req>>
        /\ \A x \in Polls : status[x] = "closed" => status'[x] = "closed"
    BY <1>5 DEF Panel!OtherAdmin, Panel!Statuses
  <2> QED BY <2>1, ServerKeeps
<1>6. CASE UNCHANGED panelVars
  BY <1>6, PanelAfter DEF panelVars
<1> QED BY <1>1, <1>2, <1>3, <1>4, <1>5, <1>6 DEF Panel!Next

LEMMA PanelHolds == Spec => []PanelInv
<1>1. Init => Panel!Init
  BY DEF Init
<1>2. [Next]_vars => [Panel!Next]_panelVars
  BY DEF Next, NextPanel, NextDefinition, vars
<1> QED BY <1>1, <1>2, PanelInit, PanelNext, PTL DEF Spec

\* What the panel shows are the open poll's results, and a poll that it says
\* is closed is closed, whatever is lost, late or overtaken.
THEOREM ScreenStaysTrue == Spec => []ScreenIsTrue
<1>1. PanelInv => ScreenIsTrue
  BY DEF PanelInv, ScreenIsTrue
<1> QED BY <1>1, PanelHolds, PTL

-----------------------------------------------------------------------------
(* Poll definitions.                                                       *)

\* What was sent for a stored poll was valid, and its rows say just that.
Says(in, p, row, options) ==
  /\ in \in Inputs /\ Definitions!Validate(in)
  /\ row.type = in.type /\ row.max = in.max
  /\ options = Definitions!OptionRows(p, in)

Kept(p) == Says(sent[p], p, polls[p], {r \in rows : r.poll = p})

DefinitionInv ==
  /\ Definitions!DefinitionsTypeOK /\ \A p \in DOMAIN polls : Kept(p)
  /\ IsFiniteSet(DOMAIN polls) /\ IsFiniteSet(rows)

LEMMA InputFacts ==
  /\ MaxOptions \in Nat /\ MaxClock \in Nat /\ MaxFaults \in Nat
  /\ \A in \in Inputs : in.options \in Seq(Nat) /\ in.max \in Nat /\ in.starts \in Nat /\ in.ends \in Nat
BY PartsAssumption DEF Definitions!DefinitionAssumption

LEMMA OptionRowFacts ==
  ASSUME NEW p, NEW in \in Inputs, Definitions!Validate(in), NEW o \in Definitions!OptionRows(p, in)
  PROVE  o \in [poll: {p}, text: Definitions!OptionLengths, position: 0..MaxOptions - 1]
<1>1. PICK i \in 1..Len(in.options) : o = [poll |-> p, text |-> in.options[i], position |-> i - 1]
  BY DEF Definitions!OptionRows
<1>2. Len(in.options) \in Nat /\ Len(in.options) <= MaxOptions /\ in.options[i] \in Definitions!OptionLengths
  BY InputFacts DEF Definitions!Validate
<1> QED BY <1>1, <1>2, InputFacts

\* The rows that the table of polls may hold.
PollRows ==
  [slug: {SlugOf[i] : i \in Ids},
   question: Definitions!QuestionLengths, type: {"single_choice", "multiple_choice"}, max: 1..MaxOptions,
   starts: Nat, ends: Nat, created: 0..MaxClock]

LEMMA RowFacts ==
  ASSUME NEW p \in Ids, NEW in \in Inputs, Definitions!Validate(in), clock \in 0..MaxClock
  PROVE  /\ Definitions!Row(p, in).type = in.type /\ Definitions!Row(p, in).max = in.max
         /\ Definitions!Row(p, in) \in PollRows
<1>1. SlugOf[p] \in {SlugOf[i] : i \in Ids}
  OBVIOUS
<1>2. in.starts \div 2 \in Nat /\ in.ends \div 2 \in Nat
  BY InputFacts
<1>3. in.question \in Definitions!QuestionLengths /\ in.type \in {"single_choice", "multiple_choice"}
  BY DEF Definitions!Validate
<1>4. in.max \in 1..MaxOptions
  <2>1. Len(in.options) \in 2..MaxOptions /\ in.max \in Nat
    BY InputFacts DEF Definitions!Validate
  <2> QED BY <2>1, InputFacts DEF Definitions!Validate
<1> QED BY <1>1, <1>2, <1>3, <1>4 DEF Definitions!Row, Definitions!Stored, PollRows

RowsOf(p, xs, k) == {[poll |-> p, text |-> xs[i], position |-> i - 1] : i \in 1..k}

LEMMA RowsCounted ==
  ASSUME NEW p, NEW xs, NEW k \in Nat
  PROVE  Definitions!Cardinality(RowsOf(p, xs, k)) = k /\ IsFiniteSet(RowsOf(p, xs, k))
<1> DEFINE f == [i \in 1..k |-> [poll |-> p, text |-> xs[i], position |-> i - 1]]
<1>1. f \in [1..k -> RowsOf(p, xs, k)] /\ \A r \in RowsOf(p, xs, k) : \E i \in 1..k : f[i] = r
  BY DEF RowsOf
<1>2. ASSUME NEW i \in 1..k, NEW j \in 1..k, f[i] = f[j] PROVE i = j
  <2>1. f[i].position = i - 1 /\ f[j].position = j - 1
    OBVIOUS
  <2> QED BY <1>2, <2>1
<1>3. f \in Bijection(1..k, RowsOf(p, xs, k))
  BY <1>1, <1>2 DEF Bijection, Injection, Surjection, IsInjective
<1>4. ExistsBijection(1..k, RowsOf(p, xs, k))
  BY <1>3 DEF ExistsBijection
<1>5. Cardinality(RowsOf(p, xs, k)) = k
  BY <1>4, FS_CountingElements
<1>6. IsFiniteSet(RowsOf(p, xs, k))
  BY <1>4, FS_NatBijection
<1> QED BY <1>5, <1>6 DEF Definitions!Cardinality, Cardinality

\* A poll is stored with all its rows.
LEMMA KeepKeeps ==
  ASSUME DefinitionInv, NEW in \in Inputs, Definitions!Validate(in), NEW p \in Ids \ DOMAIN polls,
         Definitions!Keep(p, Definitions!Row(p, in), Definitions!OptionRows(p, in), in),
         clock' = clock, answer' \in [code: Definitions!Codes, faulty: BOOLEAN], faults' \in 0..MaxFaults
  PROVE  DefinitionInv'
<1> DEFINE row == Definitions!Row(p, in)
           options == Definitions!OptionRows(p, in)
<1>1. /\ polls' = [q \in DOMAIN polls \cup {p} |-> IF q = p THEN row ELSE polls[q]]
      /\ sent' = [q \in DOMAIN polls \cup {p} |-> IF q = p THEN in ELSE sent[q]]
      /\ rows' = rows \cup options
  BY DEF Definitions!Keep
<1>2. Definitions!DefinitionsTypeOK
  BY DEF DefinitionInv
<1>3. \A o \in options : o \in [poll: {p}, text: Definitions!OptionLengths, position: 0..MaxOptions - 1]
  BY OptionRowFacts
<1>4. \A r \in rows : r.poll \in DOMAIN polls
  BY <1>2 DEF Definitions!DefinitionsTypeOK
<1>5. Definitions!DefinitionsTypeOK'
  <2>1. DOMAIN polls' \subseteq Ids /\ DOMAIN sent' = DOMAIN polls' /\ clock' \in 0..MaxClock
    BY <1>1, <1>2 DEF Definitions!DefinitionsTypeOK
  <2>2. ASSUME NEW q \in DOMAIN polls' 
        PROVE  (q = p /\ polls'[q] = row) \/ (q \in DOMAIN polls /\ polls'[q] = polls[q])
    <3>1. CASE q = p
      BY <1>1, <3>1
    <3>2. CASE q # p
      BY <1>1, <3>2
    <3> QED BY <3>1, <3>2
  <2>3. \A q \in DOMAIN polls' : polls'[q] \in PollRows
    BY <1>2, <2>2, RowFacts DEF Definitions!DefinitionsTypeOK, PollRows
  <2>4. rows' \subseteq [poll: DOMAIN polls', text: Definitions!OptionLengths, position: 0..MaxOptions - 1]
    <3>1. rows \subseteq [poll: DOMAIN polls, text: Definitions!OptionLengths, position: 0..MaxOptions - 1]
      BY <1>2 DEF Definitions!DefinitionsTypeOK
    <3>2. DOMAIN polls' = DOMAIN polls \cup {p}
      BY <1>1
    <3> QED BY <1>1, <1>3, <3>1, <3>2
  <2> QED BY <2>1, <2>3, <2>4 DEF Definitions!DefinitionsTypeOK, PollRows
<1>6. ASSUME NEW q \in DOMAIN polls' PROVE Kept(q)'
  <2>1. CASE q = p
    <3>1. {r \in rows' : r.poll = p} = options
      BY <1>1, <1>3, <1>4
    <3>2. polls'[p] = row /\ sent'[p] = in
      BY <1>1
    <3>3. row.type = in.type /\ row.max = in.max
      BY <1>2, RowFacts DEF Definitions!DefinitionsTypeOK
    <3>4. Says(in, p, row, options)
      BY <3>3 DEF Says
    <3>5. Says(sent'[p], p, polls'[p], {r \in rows' : r.poll = p})
      BY <3>1, <3>2, <3>4
    <3> QED BY <2>1, <3>5 DEF Kept
  <2>2. CASE q # p
    <3>1. q \in DOMAIN polls /\ Kept(q)
      BY <1>1, <2>2 DEF DefinitionInv
    <3>2. {r \in rows' : r.poll = q} = {r \in rows : r.poll = q}
      BY <1>1, <1>3, <2>2
    <3>3. polls'[q] = polls[q] /\ sent'[q] = sent[q]
      BY <1>1, <2>2, <3>1
    <3>4. Says(sent'[q], q, polls'[q], {r \in rows' : r.poll = q})
      BY <3>1, <3>2, <3>3 DEF Kept
    <3> QED BY <3>4 DEF Kept
  <2> QED BY <2>1, <2>2
<1>7. IsFiniteSet(DOMAIN polls') /\ IsFiniteSet(rows')
  <2>1. DOMAIN polls' = DOMAIN polls \cup {p} /\ IsFiniteSet(DOMAIN polls) /\ IsFiniteSet(rows)
    BY <1>1 DEF DefinitionInv
  <2>2. Len(in.options) \in Nat
    BY InputFacts
  <2>3. IsFiniteSet(RowsOf(p, in.options, Len(in.options)))
    BY <2>2, RowsCounted
  <2>4. options = RowsOf(p, in.options, Len(in.options))
    BY DEF RowsOf, Definitions!OptionRows
  <2> HIDE DEF options
  <2> QED BY <1>1, <2>1, <2>3, <2>4, FS_AddElement, FS_Union
<1> QED BY <1>5, <1>6, <1>7 DEF DefinitionInv

LEMMA DefinitionInit == Definitions!Init => DefinitionInv
<1> SUFFICES ASSUME Definitions!Init PROVE DefinitionInv
  OBVIOUS
<1>1. DOMAIN polls = {} /\ rows = {}
  BY DEF Definitions!Init
<1>2. Definitions!DefinitionsTypeOK
  BY InputFacts DEF Definitions!Init, Definitions!DefinitionsTypeOK, Definitions!Codes
<1> QED BY <1>1, <1>2, FS_EmptySet DEF DefinitionInv

\* Nothing is stored.
LEMMA StoredStays ==
  ASSUME DefinitionInv, UNCHANGED <<polls, rows, sent>>, clock' \in 0..MaxClock,
         answer' \in [code: Definitions!Codes, faulty: BOOLEAN], faults' \in 0..MaxFaults
  PROVE  DefinitionInv'
<1>1. Definitions!DefinitionsTypeOK'
  BY DEF DefinitionInv, Definitions!DefinitionsTypeOK
<1>2. ASSUME NEW p \in DOMAIN polls PROVE Kept(p)'
  <2>1. Kept(p)
    BY DEF DefinitionInv
  <2> QED BY <2>1 DEF Kept
<1> QED BY <1>1, <1>2 DEF DefinitionInv

LEMMA DefinitionNext == DefinitionInv /\ [Definitions!Next]_definitionVars => DefinitionInv'
<1> SUFFICES ASSUME DefinitionInv, [Definitions!Next]_definitionVars PROVE DefinitionInv'
  OBVIOUS
<1>1. clock \in 0..MaxClock /\ answer \in [code: Definitions!Codes, faulty: BOOLEAN] /\ faults \in 0..MaxFaults
  BY DEF DefinitionInv, Definitions!DefinitionsTypeOK
<1>2. \A code \in Definitions!Codes : \A b \in BOOLEAN :
        Definitions!Says(code, b) => answer' \in [code: Definitions!Codes, faulty: BOOLEAN]
  BY DEF Definitions!Says
<1>3. CASE Definitions!Tick
  BY <1>1, <1>3, StoredStays, InputFacts DEF Definitions!Tick
<1>4. ASSUME NEW in \in Inputs, Definitions!CreateInvalid(in) PROVE DefinitionInv'
  BY <1>1, <1>2, <1>4, StoredStays DEF Definitions!CreateInvalid, Definitions!Codes
<1>5. ASSUME NEW in \in Inputs, Definitions!Create(in) PROVE DefinitionInv'
  <2>1. PICK p \in Ids \ DOMAIN polls :
          /\ Definitions!Validate(in)
          /\ \/ /\ Definitions!Keep(p, Definitions!Row(p, in), Definitions!OptionRows(p, in), in)
                /\ Definitions!Says("created", FALSE)
             \/ Definitions!Says("unavailable", FALSE) /\ UNCHANGED <<polls, rows, sent>>
    BY <1>5 DEF Definitions!Create
  <2>2. clock' = clock /\ faults' = faults
    BY <1>5 DEF Definitions!Create
  <2>3. answer' \in [code: Definitions!Codes, faulty: BOOLEAN]
    BY <1>2, <2>1 DEF Definitions!Codes
  <2> QED BY <1>1, <2>1, <2>2, <2>3, KeepKeeps, StoredStays
<1>6. ASSUME NEW in \in Inputs, Definitions!CreateFault(in) PROVE DefinitionInv'
  <2>1. /\ Definitions!Validate(in) /\ faults < MaxFaults /\ faults' = faults + 1 /\ clock' = clock
        /\ Definitions!Says("unavailable", TRUE)
        /\ \/ UNCHANGED <<polls, rows, sent>>
           \/ \E p \in Ids \ DOMAIN polls :
                Definitions!Keep(p, Definitions!Row(p, in), Definitions!OptionRows(p, in), in)
    BY <1>6 DEF Definitions!CreateFault
  <2>2. answer' \in [code: Definitions!Codes, faulty: BOOLEAN]
    BY <1>2, <2>1 DEF Definitions!Codes
  <2>3. faults' \in 0..MaxFaults
    BY <1>1, <2>1, InputFacts
  <2> QED BY <1>1, <2>1, <2>2, <2>3, KeepKeeps, StoredStays
<1>7. CASE UNCHANGED definitionVars
  BY <1>1, <1>7, StoredStays DEF definitionVars
<1> QED BY <1>3, <1>4, <1>5, <1>6, <1>7 DEF Definitions!Next

LEMMA DefinitionHolds == Spec => []DefinitionInv
<1>1. Init => Definitions!Init
  BY DEF Init
<1>2. [Next]_vars => [Definitions!Next]_definitionVars
  BY DEF Next, NextPanel, NextDefinition, vars
<1> QED BY <1>1, <1>2, DefinitionInit, DefinitionNext, PTL DEF Spec

\* The panel's state and the poll tables hold what their types say.
THEOREM AdministrationTypes == Spec => []AdministrationTypeOK
<1>1. PanelInv /\ DefinitionInv => AdministrationTypeOK
  BY DEF PanelInv, DefinitionInv, AdministrationTypeOK
<1> QED BY <1>1, PanelHolds, DefinitionHolds, PTL

-----------------------------------------------------------------------------
(* The rows of a poll, in the order of their positions.                    *)

\* How many rows of S come before r.
Before(S, r) == Definitions!Cardinality({y \in S : y.position < r.position})

LEMMA RowPlace ==
  ASSUME NEW p, NEW xs, NEW n \in Nat, NEW r \in RowsOf(p, xs, n), NEW i \in 1..n
  PROVE  (Before(RowsOf(p, xs, n), r) = i - 1) <=> r = [poll |-> p, text |-> xs[i], position |-> i - 1]
<1>1. PICK j \in 1..n : r = [poll |-> p, text |-> xs[j], position |-> j - 1]
  BY DEF RowsOf
<1>2. {y \in RowsOf(p, xs, n) : y.position < r.position} = RowsOf(p, xs, j - 1)
  BY <1>1 DEF RowsOf
<1>3. Definitions!Cardinality(RowsOf(p, xs, j - 1)) = j - 1
  BY RowsCounted
<1>4. r = [poll |-> p, text |-> xs[i], position |-> i - 1] => i = j
  <2>1. r.position = j - 1
    BY <1>1
  <2>2. r = [poll |-> p, text |-> xs[i], position |-> i - 1] => r.position = i - 1
    OBVIOUS
  <2> QED BY <2>1, <2>2
<1>5. Before(RowsOf(p, xs, n), r) = j - 1
  BY <1>2, <1>3 DEF Before
<1>6. i - 1 = j - 1 => i = j
  OBVIOUS
<1> QED BY <1>1, <1>4, <1>5, <1>6

\* Reading a poll gives its options back in the order they were sent.
LEMMA GetIsSent ==
  ASSUME NEW p, NEW xs \in Seq(Nat), {r \in rows : r.poll = p} = RowsOf(p, xs, Len(xs))
  PROVE  Definitions!Get(p) = xs
<1> DEFINE n == Len(xs)
           own == {r \in rows : r.poll = p}
           S == RowsOf(p, xs, n)
           row(i) == [poll |-> p, text |-> xs[i], position |-> i - 1]
           sorted(R) == [i \in 1..Definitions!Cardinality(R) |->
                           CHOOSE x \in R : Before(R, x) = i - 1]
           texts(seq) == [i \in 1..Len(seq) |-> seq[i].text]
<1>1. n \in Nat /\ Definitions!Cardinality(S) = n /\ own = S
  BY RowsCounted
<1>2. Definitions!Get(p) = texts(sorted(S))
  <2>1. Definitions!Get(p) = texts(sorted(own))
    BY Zenon DEF Definitions!Get, Definitions!Sorted, Before
  <2> HIDE DEF own, S, sorted, texts
  <2> QED BY <1>1, <2>1
<1>3. ASSUME NEW i \in 1..n PROVE sorted(S)[i] = row(i)
  <2>1. row(i) \in S
    BY DEF RowsOf
  <2> HIDE DEF n, own
  <2>2. \A x \in S : (Before(S, x) = i - 1) <=> x = row(i)
    BY <1>1, RowPlace
  <2> HIDE DEF S, row
  <2>3. (CHOOSE x \in S : Before(S, x) = i - 1) = row(i)
    BY <2>1, <2>2
  <2> QED BY <1>1, <2>3
<1>4. PICK seq : seq = sorted(S)
  OBVIOUS
<1>5. seq = [i \in 1..n |-> row(i)]
  BY <1>1, <1>3, <1>4
<1>6. Len(seq) = n /\ \A i \in 1..n : seq[i].text = xs[i]
  BY <1>1, <1>5
<1>7. texts(seq) = xs
  BY <1>6
<1> QED BY <1>2, <1>4, <1>7

\* A stored poll has the options that were sent, in their order, at least two
\* of them, and admits as many choices as its type says: the assumptions the
\* other parts are modelled under, also after creates that failed.
LEMMA WholePolls == DefinitionInv => Definitions!PollsAreWhole
<1> SUFFICES ASSUME DefinitionInv, NEW p \in DOMAIN polls
             PROVE  /\ Definitions!Get(p) = sent[p].options
                    /\ Len(Definitions!Get(p)) >= 2 /\ polls[p].max \in 1..Len(Definitions!Get(p))
                    /\ (polls[p].type = "single_choice") <=> (polls[p].max = 1)
  BY DEF Definitions!PollsAreWhole
<1>1. Kept(p)
  BY DEF DefinitionInv
<1>2. sent[p].options \in Seq(Nat) /\ sent[p].max \in Nat
  BY <1>1, InputFacts DEF Kept, Says
<1>3. Definitions!Get(p) = sent[p].options
  BY <1>1, <1>2, GetIsSent DEF Kept, Says, RowsOf, Definitions!OptionRows
<1>4. Definitions!Validate(sent[p]) /\ polls[p].type = sent[p].type /\ polls[p].max = sent[p].max
  BY <1>1 DEF Kept, Says
<1> DEFINE in == sent[p]
           n == Len(in.options)
<1>v. /\ n \in 2..MaxOptions
      /\ \/ in.type = "single_choice" /\ in.max = 1
         \/ in.type = "multiple_choice" /\ in.max \in 2..n
  BY ONLY <1>4, Zenon DEF Definitions!Validate
<1>n. n \in Nat /\ in.max \in Nat
  BY <1>2
<1> HIDE DEF in, n
<1>s. n >= 2 /\ in.max \in 1..n /\ ((in.type = "single_choice") <=> (in.max = 1))
  BY <1>v, <1>n
<1>5. Len(sent[p].options) >= 2 /\ sent[p].max \in 1..Len(sent[p].options)
  BY <1>s, Zenon DEF in, n
<1>6. (sent[p].type = "single_choice") <=> (sent[p].max = 1)
  BY <1>s, Zenon DEF in, n
<1> QED BY <1>3, <1>4, <1>5, <1>6

-----------------------------------------------------------------------------
(* Sorting: in a strict total order, as many elements come before the       *)
(* element of place i as there are places before i.                         *)

\* The pairs of O order S.
Orders(S, O) ==
  /\ \A x \in S : <<x, x>> \notin O
  /\ \A x, y \in S : x = y \/ <<x, y>> \in O \/ <<y, x>> \in O
  /\ \A x, y, z \in S : <<x, y>> \in O /\ <<y, z>> \in O => <<x, z>> \in O

Lower(S, O, x) == {y \in S : <<y, x>> \in O}
Rank(S, O, x) == Cardinality(Lower(S, O, x))

LEMMA RankGrows ==
  ASSUME NEW S, NEW O, IsFiniteSet(S), Orders(S, O), NEW x \in S, NEW y \in S
  PROVE  /\ Rank(S, O, x) \in 0..Cardinality(S) - 1
         /\ <<x, y>> \in O <=> Rank(S, O, x) < Rank(S, O, y)
<1>1. ASSUME NEW z \in S
      PROVE  /\ IsFiniteSet(Lower(S, O, z)) /\ Rank(S, O, z) \in Nat
             /\ Rank(S, O, z) < Cardinality(S)
  <2>1. Lower(S, O, z) \in SUBSET (S \ {z})
    BY DEF Lower, Orders
  <2>2. IsFiniteSet(S \ {z}) /\ Cardinality(S \ {z}) = Cardinality(S) - 1
    BY FS_RemoveElement
  <2>3. IsFiniteSet(Lower(S, O, z)) /\ Rank(S, O, z) <= Cardinality(S \ {z})
    BY <2>1, <2>2, FS_Subset DEF Rank
  <2>4. Rank(S, O, z) \in Nat /\ Cardinality(S) \in Nat
    BY <2>3, FS_CardinalityType DEF Rank
  <2> QED BY <2>2, <2>3, <2>4
<1>2. ASSUME NEW u \in S, NEW v \in S, <<u, v>> \in O PROVE Rank(S, O, u) < Rank(S, O, v)
  <2>1. Lower(S, O, u) \in SUBSET Lower(S, O, v) /\ u \in Lower(S, O, v) /\ u \notin Lower(S, O, u)
    BY <1>2 DEF Lower, Orders
  <2>2. Rank(S, O, u) <= Rank(S, O, v) /\ Rank(S, O, u) # Rank(S, O, v)
    BY <1>1, <2>1, FS_Subset DEF Rank
  <2> QED BY <1>1, <2>2
<1>3. Cardinality(S) \in Nat
  BY FS_CardinalityType
<1>4. x = y \/ <<x, y>> \in O \/ <<y, x>> \in O
  BY DEF Orders
<1>5. Rank(S, O, x) < Rank(S, O, y) => <<x, y>> \in O
  BY <1>1, <1>2, <1>4
<1> QED BY <1>1, <1>2, <1>3, <1>5

\* Every place is taken.
LEMMA RankOnto ==
  ASSUME NEW S, NEW O, IsFiniteSet(S), Orders(S, O), NEW k \in 0..Cardinality(S) - 1
  PROVE  \E x \in S : Rank(S, O, x) = k
<1> DEFINE n == Cardinality(S)
           f == [x \in S |-> Rank(S, O, x)]
<1>1. n \in Nat /\ IsFiniteSet(0..n - 1) /\ Cardinality(0..n - 1) = n
  <2>1. n \in Nat
    BY FS_CardinalityType
  <2> HIDE DEF n
  <2> QED BY <2>1, FS_Interval
<1>2. \A x, y \in S : f[x] \in 0..n - 1 /\ (f[x] = f[y] => x = y)
  <2> SUFFICES ASSUME NEW x \in S, NEW y \in S PROVE f[x] \in 0..n - 1 /\ (f[x] = f[y] => x = y)
    OBVIOUS
  <2>1. Rank(S, O, x) \in 0..n - 1 /\ Rank(S, O, y) \in 0..n - 1
    BY RankGrows
  <2>2. <<x, y>> \in O => Rank(S, O, x) < Rank(S, O, y)
    BY RankGrows
  <2>3. <<y, x>> \in O => Rank(S, O, y) < Rank(S, O, x)
    BY RankGrows
  <2>4. x = y \/ <<x, y>> \in O \/ <<y, x>> \in O
    BY DEF Orders
  <2> HIDE DEF n
  <2> QED BY <1>1, <2>1, <2>2, <2>3, <2>4
<1>3. f \in Injection(S, 0..n - 1)
  BY <1>2 DEF Injection, IsInjective
<1> HIDE DEF f
<1>4. f \in Surjection(S, 0..n - 1)
  BY <1>1, <1>3, FS_Injection
<1> QED BY <1>4 DEF Surjection, f

\* The element of place i is the one that has i - 1 before it.
Sorts(S, O, seq) == seq = [i \in 1..Cardinality(S) |-> CHOOSE x \in S : Rank(S, O, x) = i - 1]

LEMMA Places ==
  ASSUME NEW S, NEW O, IsFiniteSet(S), Orders(S, O), NEW seq, Sorts(S, O, seq)
  PROVE  /\ Cardinality(S) \in Nat /\ DOMAIN seq = 1..Cardinality(S)
         /\ \A i \in 1..Cardinality(S) : seq[i] \in S /\ Rank(S, O, seq[i]) = i - 1
         /\ \A x \in S : \E i \in 1..Cardinality(S) : x = seq[i]
         /\ \A i, j \in 1..Cardinality(S) : <<seq[i], seq[j]>> \in O <=> i < j
<1> DEFINE n == Cardinality(S)
<1>1. n \in Nat
  BY FS_CardinalityType
<1>2. ASSUME NEW i \in 1..n PROVE seq[i] \in S /\ Rank(S, O, seq[i]) = i - 1
  <2>1. i - 1 \in 0..n - 1
    BY <1>1
  <2>2. \E x \in S : Rank(S, O, x) = i - 1
    BY <2>1, RankOnto
  <2>3. seq[i] = CHOOSE x \in S : Rank(S, O, x) = i - 1
    BY DEF Sorts
  <2> QED BY <2>2, <2>3
<1>3. ASSUME NEW i \in 1..n, NEW j \in 1..n PROVE <<seq[i], seq[j]>> \in O <=> i < j
  <2>1. <<seq[i], seq[j]>> \in O <=> i - 1 < j - 1
    BY <1>2, RankGrows
  <2> QED BY <1>1, <2>1
<1>4. ASSUME NEW x \in S PROVE \E i \in 1..n : x = seq[i]
  <2>1. Rank(S, O, x) \in 0..n - 1
    BY RankGrows
  <2> DEFINE i == Rank(S, O, x) + 1
  <2>2. i \in 1..n /\ i - 1 = Rank(S, O, x)
    BY <1>1, <2>1
  <2>3. Rank(S, O, seq[i]) = Rank(S, O, x) /\ seq[i] \in S
    BY <1>2, <2>2
  <2>4. <<x, seq[i]>> \notin O /\ <<seq[i], x>> \notin O
    BY <2>1, <2>3, RankGrows
  <2>5. x = seq[i]
    BY <2>3, <2>4 DEF Orders
  <2> QED BY <2>2, <2>5
<1>5. DOMAIN seq = 1..n
  BY DEF Sorts
<1> QED BY <1>1, <1>2, <1>3, <1>4, <1>5

-----------------------------------------------------------------------------
(* FoldLeft, one row after the other.                                       *)

\* Families of subsets of a finite set have minimal members: what stands in
\* for induction here.
LEMMA SmallestSubset ==
  ASSUME NEW S, IsFiniteSet(S), NEW Bad, Bad \subseteq SUBSET S, Bad # {}
  PROVE  \E s \in Bad : \A t \in Bad : ~(t \subseteq s /\ t # s)
<1>1. SUBSET S = FiniteSubsetsOf(S)
  BY FS_Subset DEF FiniteSubsetsOf
<1>2. \E s \in Bad : \A t \in Bad : ~(<<t, s>> \in StrictSubsetOrdering(S))
  BY <1>1, FS_StrictSubsetOrderingWellFounded, WFMin
<1> QED BY <1>2, <1>1 DEF StrictSubsetOrdering

LEMMA SmallestNumber ==
  ASSUME NEW n \in Nat, NEW Bad, Bad \subseteq 0..n, Bad # {}
  PROVE  \E k \in Bad : \A i \in Bad : k <= i
<1> DEFINE Down == {1..k : k \in Bad}
           All == 1..n
<1>1. IsFiniteSet(All)
  BY FS_Interval
<1>2. Down \subseteq SUBSET All /\ Down # {}
  <2>1. PICK k \in Bad : TRUE
    OBVIOUS
  <2>2. 1..k \in Down
    OBVIOUS
  <2>3. ASSUME NEW i \in Bad PROVE 1..i \subseteq All
    BY i \in 0..n
  <2> QED BY <2>2, <2>3
<1> HIDE DEF Down, All
<1>s. PICK s \in Down : \A t \in Down : ~(t \subseteq s /\ t # s)
  BY <1>1, <1>2, SmallestSubset
<1> USE DEF Down
<1>3. PICK k \in Bad : s = 1..k
  OBVIOUS
<1>4. ASSUME NEW i \in Bad, i < k PROVE FALSE
  <2>1. 1..i \subseteq 1..k /\ k \in 1..k /\ k \notin 1..i
    BY <1>4
  <2> QED BY <1>s, <1>3, <2>1
<1> QED BY <1>4

\* What FoldLeft iterates with: it takes the last row of a set of places last.
Latest(s) == CHOOSE x \in s : \A y \in s : x >= y
Folds(seq, n, it) ==
  it = [s \in SUBSET (1..n) |->
          IF s = {} THEN <<>> ELSE Definitions!AddRow(it[s \ {Latest(s)}], seq[Latest(s)])]

LEMMA LatestIs ==
  ASSUME NEW k \in Nat, NEW s \in SUBSET (1..k), k \in s
  PROVE  Latest(s) = k
<1> DEFINE P(x) == x \in s /\ \A y \in s : x >= y
<1>1. P(k)
  <2> SUFFICES ASSUME NEW y \in s PROVE k >= y
    OBVIOUS
  <2> QED BY y \in 1..k
<1>2. ASSUME NEW x, P(x) PROVE x = k
  BY <1>2, x \in 1..k
<1> HIDE DEF P
<1>3. (CHOOSE x : P(x)) = k
  BY <1>1, <1>2
<1>4. Latest(s) = CHOOSE x : P(x)
  BY Zenon DEF Latest, P
<1> QED BY <1>3, <1>4

LEMMA FoldGrows ==
  ASSUME NEW seq, NEW n \in Nat, NEW g, Folds(seq, n, g)
  PROVE  \E it : Folds(seq, n + 1, it)
<1> DEFINE k == n + 1
           it == [s \in SUBSET (1..k) |->
                    IF k \in s THEN Definitions!AddRow(g[s \ {k}], seq[k]) ELSE g[s]]
<1>1. ASSUME NEW s \in SUBSET (1..k), k \in s
      PROVE  it[s] = Definitions!AddRow(it[s \ {Latest(s)}], seq[Latest(s)])
  <2>1. Latest(s) = k
    BY <1>1, LatestIs
  <2>2. s \ {k} \in SUBSET (1..k) /\ k \notin s \ {k}
    OBVIOUS
  <2>3. it[s \ {k}] = g[s \ {k}]
    BY <2>2
  <2> QED BY <1>1, <2>1, <2>3
<1>2. ASSUME NEW s \in SUBSET (1..k), k \notin s
      PROVE  it[s] = IF s = {} THEN <<>> ELSE Definitions!AddRow(it[s \ {Latest(s)}], seq[Latest(s)])
  <2>1. s \in SUBSET (1..n) /\ s \ {Latest(s)} \in SUBSET (1..k) /\ k \notin s \ {Latest(s)}
    <3>1. ASSUME NEW i \in s PROVE i \in 1..n
      BY <1>2
    <3> QED BY <1>2, <3>1
  <2>2. g[s] = IF s = {} THEN <<>> ELSE Definitions!AddRow(g[s \ {Latest(s)}], seq[Latest(s)])
    BY <2>1 DEF Folds
  <2>3. it[s \ {Latest(s)}] = g[s \ {Latest(s)}]
    BY <2>1
  <2> QED BY <1>2, <2>2, <2>3
<1> HIDE DEF it
<1>3. \A s \in SUBSET (1..k) :
        it[s] = IF s = {} THEN <<>> ELSE Definitions!AddRow(it[s \ {Latest(s)}], seq[Latest(s)])
  <2> SUFFICES ASSUME NEW s \in SUBSET (1..k)
               PROVE  it[s] = IF s = {} THEN <<>>
                              ELSE Definitions!AddRow(it[s \ {Latest(s)}], seq[Latest(s)])
    OBVIOUS
  <2> QED BY <1>1, <1>2
<1>4. it = [s \in SUBSET (1..k) |-> it[s]]
  BY DEF it
<1>5. Folds(seq, k, it)
  BY <1>3, <1>4 DEF Folds
<1> QED BY <1>5

LEMMA FoldExists ==
  ASSUME NEW seq, NEW n \in Nat
  PROVE  \E it : Folds(seq, n, it)
<1> DEFINE Bad == {k \in 0..n : ~\E it : Folds(seq, k, it)}
<1> SUFFICES ASSUME Bad # {} PROVE FALSE
  OBVIOUS
<1>0. Bad \subseteq 0..n
  OBVIOUS
<1> HIDE DEF Bad
<1>1. PICK k \in Bad : \A i \in Bad : k <= i
  BY <1>0, SmallestNumber
<1> USE DEF Bad
<1>2. CASE k = 0
  <2>1. Folds(seq, 0, [s \in SUBSET (1..0) |-> <<>>])
    BY DEF Folds
  <2> QED BY <1>2, <2>1
<1>3. CASE k > 0
  <2>1. k - 1 \in 0..n /\ k - 1 \notin Bad /\ k - 1 \in Nat
    BY <1>1, <1>3
  <2>2. PICK g : Folds(seq, k - 1, g)
    BY <2>1
  <2>3. \E it : Folds(seq, (k - 1) + 1, it)
    BY <2>1, <2>2, FoldGrows
  <2> QED BY <2>3
<1> QED BY <1>2, <1>3

\* The lists that the rows build up, from the empty one to the result.
LEMMA FoldSteps ==
  ASSUME NEW n \in Nat, NEW seq, DOMAIN seq = 1..n
  PROVE  \E L : /\ L[0] = <<>>
                /\ \A k \in 1..n : L[k] = Definitions!AddRow(L[k - 1], seq[k])
                /\ Definitions!FoldLeft(Definitions!AddRow, <<>>, seq) = L[n]
<1> DEFINE it == CHOOSE it : Folds(seq, n, it)
           L == [k \in 0..n |-> it[1..k]]
<1>1. Folds(seq, n, it)
  BY FoldExists
<1>2. Definitions!FoldLeft(Definitions!AddRow, <<>>, seq) = it[1..n]
  BY Zenon DEF Definitions!FoldLeft, Definitions!MapThenFoldSet, Definitions!Max, Folds, Latest
<1> HIDE DEF it
<1>3. L[0] = <<>>
  BY <1>1 DEF Folds
<1>4. ASSUME NEW k \in 1..n PROVE L[k] = Definitions!AddRow(L[k - 1], seq[k])
  <2>1. k - 1 \in 0..n /\ k \in 0..n /\ k \in 1..k /\ 1..k \in SUBSET (1..n)
    OBVIOUS
  <2>s. (1..k) \ {k} = 1..(k - 1)
    OBVIOUS
  <2>2. Latest(1..k) = k
    BY LatestIs
  <2>3. it[1..k] = Definitions!AddRow(it[1..(k - 1)], seq[k])
    BY <1>1, <2>1, <2>2, <2>s DEF Folds
  <2> QED BY <2>1, <2>3
<1> HIDE DEF L
<1>5. L[n] = it[1..n]
  BY DEF L
<1> QED BY <1>2, <1>3, <1>4, <1>5

-----------------------------------------------------------------------------
(* The rows of the listed polls, in the order of the list.                  *)

RowAt(p, j) == [poll |-> p, text |-> sent[p].options[j + 1], position |-> j]

RowsIn(R) == {r \in rows : r.poll \in R}
RowOrder(R) == {pr \in RowsIn(R) \X RowsIn(R) : Definitions!RowBefore(pr[1], pr[2])}
PollOrder(R) == {pr \in R \X R : Definitions!Newer(pr[1], pr[2])}

LEMMA StoredOptions ==
  ASSUME DefinitionInv, NEW p \in DOMAIN polls
  PROVE  /\ p \in Nat /\ polls[p].created \in Nat
         /\ sent[p].options \in Seq(Nat) /\ Len(sent[p].options) \in Nat /\ Len(sent[p].options) >= 2
         /\ {r \in rows : r.poll = p} = RowsOf(p, sent[p].options, Len(sent[p].options))
<1>1. Kept(p) /\ Definitions!DefinitionsTypeOK
  BY DEF DefinitionInv
<1>2. p \in Nat /\ polls[p].created \in Nat
  <2>1. p \in Ids /\ polls[p].created \in 0..MaxClock
    BY <1>1 DEF Definitions!DefinitionsTypeOK
  <2> QED BY <2>1, PartsAssumption DEF Definitions!DefinitionAssumption
<1>3. sent[p] \in Inputs /\ Definitions!Validate(sent[p])
  BY <1>1 DEF Kept, Says
<1>4. sent[p].options \in Seq(Nat)
  BY <1>3, InputFacts
<1>5. Len(sent[p].options) >= 2
  BY <1>3, <1>4, InputFacts DEF Definitions!Validate
<1>6. {r \in rows : r.poll = p} = RowsOf(p, sent[p].options, Len(sent[p].options))
  BY <1>1 DEF Kept, Says, RowsOf, Definitions!OptionRows
<1> QED BY <1>2, <1>4, <1>5, <1>6

LEMMA RowsAre ==
  ASSUME DefinitionInv
  PROVE  /\ \A r \in rows : /\ r.poll \in DOMAIN polls /\ r.position \in 0..Len(sent[r.poll].options) - 1
                            /\ r = RowAt(r.poll, r.position)
         /\ \A p \in DOMAIN polls : \A j \in 0..Len(sent[p].options) - 1 :
              RowAt(p, j) \in rows /\ RowAt(p, j).poll = p /\ RowAt(p, j).position = j
<1>1. ASSUME NEW r \in rows
      PROVE  /\ r.poll \in DOMAIN polls /\ r.position \in 0..Len(sent[r.poll].options) - 1
             /\ r = RowAt(r.poll, r.position)
  <2>1. r.poll \in DOMAIN polls
    BY DEF DefinitionInv, Definitions!DefinitionsTypeOK
  <2> DEFINE xs == sent[r.poll].options
  <2>2. r \in RowsOf(r.poll, xs, Len(xs)) /\ Len(xs) \in Nat
    BY <2>1, StoredOptions
  <2>3. PICK i \in 1..Len(xs) : r = [poll |-> r.poll, text |-> xs[i], position |-> i - 1]
    BY <2>2 DEF RowsOf
  <2>4. r.position = i - 1 /\ i = r.position + 1
    BY <2>3
  <2> QED BY <2>1, <2>2, <2>3, <2>4 DEF RowAt
<1>2. ASSUME NEW p \in DOMAIN polls, NEW j \in 0..Len(sent[p].options) - 1
      PROVE  RowAt(p, j) \in rows /\ RowAt(p, j).poll = p /\ RowAt(p, j).position = j
  <2> DEFINE xs == sent[p].options
  <2>1. Len(xs) \in Nat /\ {r \in rows : r.poll = p} = RowsOf(p, xs, Len(xs))
    BY StoredOptions
  <2>2. j + 1 \in 1..Len(xs) /\ j = (j + 1) - 1
    BY <2>1
  <2>3. RowAt(p, j) \in RowsOf(p, xs, Len(xs))
    BY <2>2 DEF RowAt, RowsOf
  <2> QED BY <2>1, <2>3 DEF RowAt
<1> QED BY <1>1, <1>2

LEMMA PollsOrdered ==
  ASSUME DefinitionInv, NEW R, R \subseteq DOMAIN polls
  PROVE  Orders(R, PollOrder(R)) /\ \A p, q \in R : <<p, q>> \in PollOrder(R) <=> Definitions!Newer(p, q)
<1>1. \A p \in R : p \in Nat /\ polls[p].created \in Nat
  BY StoredOptions
<1>2. \A p, q \in R : <<p, q>> \in PollOrder(R) <=> Definitions!Newer(p, q)
  BY DEF PollOrder
<1>3. \A p, q, r \in R : /\ ~Definitions!Newer(p, p)
                         /\ p = q \/ Definitions!Newer(p, q) \/ Definitions!Newer(q, p)
                         /\ Definitions!Newer(p, q) /\ Definitions!Newer(q, r) => Definitions!Newer(p, r)
  BY <1>1 DEF Definitions!Newer
<1> QED BY <1>2, <1>3 DEF Orders

LEMMA RowsOrdered ==
  ASSUME DefinitionInv, NEW R, R \subseteq DOMAIN polls
  PROVE  /\ Orders(RowsIn(R), RowOrder(R))
         /\ \A x, y \in RowsIn(R) : <<x, y>> \in RowOrder(R) <=> Definitions!RowBefore(x, y)
<1>1. \A x, y \in RowsIn(R) : <<x, y>> \in RowOrder(R) <=> Definitions!RowBefore(x, y)
  BY DEF RowOrder
<1>2. \A p, q, r \in R : /\ ~Definitions!Newer(p, p)
                         /\ p = q \/ Definitions!Newer(p, q) \/ Definitions!Newer(q, p)
                         /\ Definitions!Newer(p, q) /\ Definitions!Newer(q, r) => Definitions!Newer(p, r)
  BY PollsOrdered DEF Orders
<1>3. \A x \in RowsIn(R) : x.poll \in R /\ x.position \in Nat /\ x = RowAt(x.poll, x.position)
  <2> SUFFICES ASSUME NEW x \in RowsIn(R) PROVE x.poll \in R /\ x.position \in Nat /\ x = RowAt(x.poll, x.position)
    OBVIOUS
  <2>1. x \in rows /\ x.poll \in R
    BY DEF RowsIn
  <2> QED BY <2>1, RowsAre
<1>4. \A x, y, z \in RowsIn(R) :
        /\ ~Definitions!RowBefore(x, x)
        /\ x = y \/ Definitions!RowBefore(x, y) \/ Definitions!RowBefore(y, x)
        /\ Definitions!RowBefore(x, y) /\ Definitions!RowBefore(y, z) => Definitions!RowBefore(x, z)
  <2> SUFFICES ASSUME NEW x \in RowsIn(R), NEW y \in RowsIn(R), NEW z \in RowsIn(R)
               PROVE  /\ ~Definitions!RowBefore(x, x)
                      /\ x = y \/ Definitions!RowBefore(x, y) \/ Definitions!RowBefore(y, x)
                      /\ Definitions!RowBefore(x, y) /\ Definitions!RowBefore(y, z) => Definitions!RowBefore(x, z)
    OBVIOUS
  <2>1. x.poll = y.poll /\ x.position = y.position => x = y
    BY <1>3
  <2> QED BY <1>2, <1>3, <2>1 DEF Definitions!RowBefore
<1> QED BY <1>1, <1>4 DEF Orders

\* What follows a row: the poll's next option, or the first of the next poll.
LEMMA NextRow ==
  ASSUME DefinitionInv, NEW R, R \subseteq DOMAIN polls, NEW x \in RowsIn(R), NEW y \in RowsIn(R),
         Definitions!RowBefore(x, y),
         \A z \in RowsIn(R) : ~(Definitions!RowBefore(x, z) /\ Definitions!RowBefore(z, y))
  PROVE  \/ y.poll = x.poll /\ y.position = x.position + 1
         \/ /\ Definitions!Newer(x.poll, y.poll) /\ y.position = 0
            /\ x.position = Len(sent[x.poll].options) - 1
            /\ \A q \in R : ~(Definitions!Newer(x.poll, q) /\ Definitions!Newer(q, y.poll))
<1> DEFINE n(p) == Len(sent[p].options)
<1>1. \A p \in R : n(p) \in Nat /\ n(p) >= 2 /\ ~Definitions!Newer(p, p)
  BY StoredOptions, PollsOrdered DEF Orders
<1>2. \A p \in R : \A j \in 0..n(p) - 1 :
        RowAt(p, j) \in RowsIn(R) /\ RowAt(p, j).poll = p /\ RowAt(p, j).position = j
  BY RowsAre DEF RowsIn
<1>3. /\ x.poll \in R /\ x.position \in 0..n(x.poll) - 1
      /\ y.poll \in R /\ y.position \in 0..n(y.poll) - 1
  BY RowsAre DEF RowsIn
<1> HIDE DEF n
<1>4. CASE x.poll = y.poll
  <2>1. x.position < y.position
    BY <1>1, <1>3, <1>4 DEF Definitions!RowBefore
  <2>2. CASE x.position + 1 < y.position
    <3> DEFINE j == x.position + 1
               z == RowAt(x.poll, j)
    <3>1. j \in 0..n(x.poll) - 1
      BY <1>1, <1>3, <1>4, <2>2
    <3>2. z \in RowsIn(R) /\ z.poll = x.poll /\ z.position = x.position + 1
      BY <1>2, <1>3, <3>1
    <3> HIDE DEF z, j
    <3>3. Definitions!RowBefore(x, z) /\ Definitions!RowBefore(z, y)
      BY <1>1, <1>3, <1>4, <2>2, <3>2 DEF Definitions!RowBefore
    <3> QED BY <3>2, <3>3
  <2> QED BY <1>1, <1>3, <1>4, <2>1, <2>2
<1>5. CASE x.poll # y.poll
  <2>1. Definitions!Newer(x.poll, y.poll)
    BY <1>5 DEF Definitions!RowBefore
  <2>2. y.position = 0
    <3> DEFINE z == RowAt(y.poll, 0)
    <3>1. 0 \in 0..n(y.poll) - 1
      BY <1>1, <1>3
    <3>2. z \in RowsIn(R) /\ z.poll = y.poll /\ z.position = 0
      BY <1>2, <1>3, <3>1
    <3> HIDE DEF z
    <3>3. Definitions!RowBefore(x, z)
      BY <2>1, <3>2 DEF Definitions!RowBefore
    <3>4. y.position > 0 => Definitions!RowBefore(z, y)
      BY <3>2 DEF Definitions!RowBefore
    <3> QED BY <1>1, <1>3, <3>2, <3>3, <3>4
  <2>3. x.position = n(x.poll) - 1
    <3> DEFINE j == x.position + 1
               z == RowAt(x.poll, j)
    <3> SUFFICES ASSUME x.position + 1 <= n(x.poll) - 1 PROVE FALSE
      BY <1>1, <1>3
    <3>1. j \in 0..n(x.poll) - 1
      BY <1>1, <1>3
    <3>2. z \in RowsIn(R) /\ z.poll = x.poll /\ z.position = x.position + 1
      BY <1>2, <1>3, <3>1
    <3> HIDE DEF z, j
    <3>3. Definitions!RowBefore(x, z) /\ Definitions!RowBefore(z, y)
      BY <1>1, <1>3, <2>1, <3>2 DEF Definitions!RowBefore
    <3> QED BY <3>2, <3>3
  <2>4. ASSUME NEW q \in R, Definitions!Newer(x.poll, q), Definitions!Newer(q, y.poll) PROVE FALSE
    <3> DEFINE z == RowAt(q, 0)
    <3>1. 0 \in 0..n(q) - 1
      BY <1>1
    <3>2. z \in RowsIn(R) /\ z.poll = q
      BY <1>2, <3>1
    <3> HIDE DEF z
    <3>3. Definitions!RowBefore(x, z) /\ Definitions!RowBefore(z, y)
      BY <2>4, <3>2 DEF Definitions!RowBefore
    <3> QED BY <3>2, <3>3
  <2> QED BY <2>1, <2>2, <2>3, <2>4 DEF n
<1> QED BY <1>4, <1>5

-----------------------------------------------------------------------------
(* The list, row after row.                                                 *)

Entries == [id: Nat, options: Seq(Nat)]
Prefix(xs, k) == [i \in 1..k |-> xs[i]]

\* The list l holds the polls of R down to p, whole, and p to its option j.
ListedTo(l, p, j, R) ==
  /\ l \in Seq(Entries) /\ l # <<>>
  /\ l[Len(l)] = [id |-> p, options |-> Prefix(sent[p].options, j + 1)]
  /\ \A i \in 1..Len(l) : l[i].id \in R
  /\ \A i \in 1..Len(l) - 1 : l[i].options = sent[l[i].id].options
  /\ \A i, k \in 1..Len(l) : i < k => Definitions!Newer(l[i].id, l[k].id)
  /\ \A q \in R : (\E i \in 1..Len(l) : q = l[i].id) \/ Definitions!Newer(p, q)

LEMMA PrefixIs ==
  ASSUME NEW xs \in Seq(Nat), NEW k \in 0..Len(xs)
  PROVE  Prefix(xs, k) \in Seq(Nat) /\ Len(Prefix(xs, k)) = k /\ \A i \in 1..k : Prefix(xs, k)[i] = xs[i]
<1>1. Len(xs) \in Nat /\ k \in Nat
  OBVIOUS
<1>2. \A i \in 1..k : xs[i] \in Nat
  BY <1>1
<1>3. PICK s : s = Prefix(xs, k)
  OBVIOUS
<1>4. s = [i \in 1..k |-> xs[i]]
  BY <1>3 DEF Prefix
<1>5. s \in [1..k -> Nat] /\ \A i \in 1..k : s[i] = xs[i]
  BY <1>2, <1>4
<1>6. s \in Seq(Nat) /\ Len(s) = k
  BY <1>1, <1>2, <1>4
<1> QED BY <1>3, <1>5, <1>6

LEMMA PrefixGrows ==
  ASSUME NEW xs \in Seq(Nat), NEW j \in 0..Len(xs) - 1
  PROVE  /\ xs[j + 1] \in Nat
         /\ Append(Prefix(xs, j), xs[j + 1]) = Prefix(xs, j + 1)
<1> DEFINE s == Prefix(xs, j)
           t == Prefix(xs, j + 1)
           u == Append(s, xs[j + 1])
<1>1. j \in 0..Len(xs) /\ j + 1 \in 0..Len(xs) /\ j \in Nat /\ xs[j + 1] \in Nat
  OBVIOUS
<1>2. /\ s \in Seq(Nat) /\ Len(s) = j /\ \A i \in 1..j : s[i] = xs[i]
      /\ t \in Seq(Nat) /\ Len(t) = j + 1 /\ \A i \in 1..j + 1 : t[i] = xs[i]
  BY <1>1, PrefixIs
<1> HIDE DEF s, t
<1>3. u \in Seq(Nat) /\ Len(u) = j + 1 /\ u[j + 1] = xs[j + 1] /\ \A i \in 1..j : u[i] = s[i]
  BY <1>1, <1>2
<1> HIDE DEF u
<1>4. ASSUME NEW i \in 1..j + 1 PROVE u[i] = t[i]
  <2>1. i \in 1..j \/ i = j + 1
    BY <1>1
  <2> QED BY <1>2, <1>3, <2>1
<1>5. u = t
  BY <1>2, <1>3, <1>4, SeqEqual
<1> QED BY <1>1, <1>5 DEF s, t, u

LEMMA PrefixFacts ==
  ASSUME NEW xs \in Seq(Nat), Len(xs) >= 1
  PROVE  Prefix(xs, 1) = <<xs[1]>> /\ Prefix(xs, Len(xs)) = xs
<1>1. 1 \in 0..Len(xs) /\ Len(xs) \in 0..Len(xs) /\ xs[1] \in Nat
  OBVIOUS
<1>2. Prefix(xs, 1) = <<xs[1]>>
  <2> DEFINE s == Prefix(xs, 1)
             t == <<xs[1]>>
  <2>1. s \in Seq(Nat) /\ Len(s) = 1 /\ \A i \in 1..1 : s[i] = xs[i]
    BY <1>1, PrefixIs
  <2>2. t \in Seq(Nat) /\ Len(t) = 1 /\ t[1] = xs[1]
    BY <1>1
  <2> HIDE DEF s, t
  <2>3. \A i \in 1..Len(s) : s[i] = t[i]
    BY <2>1, <2>2
  <2>4. s = t
    BY <2>1, <2>2, <2>3, SeqEqual
  <2> QED BY <2>4 DEF s, t
<1>3. Prefix(xs, Len(xs)) = xs
  BY <1>1, PrefixIs, SeqEqual
<1> QED BY <1>2, <1>3

LEMMA RowText ==
  ASSUME DefinitionInv, NEW R, R \subseteq DOMAIN polls, NEW x \in RowsIn(R)
  PROVE  /\ x.poll \in R /\ x.poll \in DOMAIN polls /\ x.poll \in Nat
         /\ sent[x.poll].options \in Seq(Nat) /\ Len(sent[x.poll].options) \in Nat
         /\ x.position \in 0..Len(sent[x.poll].options) - 1
         /\ x.text = sent[x.poll].options[x.position + 1] /\ x.text \in Nat
         /\ Prefix(sent[x.poll].options, x.position) \in Seq(Nat)
         /\ Append(Prefix(sent[x.poll].options, x.position), x.text)
              = Prefix(sent[x.poll].options, x.position + 1)
         /\ Prefix(sent[x.poll].options, x.position + 1) \in Seq(Nat)
         /\ Prefix(sent[x.poll].options, 1) = <<sent[x.poll].options[1]>>
         /\ Prefix(sent[x.poll].options, Len(sent[x.poll].options)) = sent[x.poll].options
<1>1. PICK xs : xs = sent[x.poll].options
  OBVIOUS
<1>2. /\ x.poll \in R /\ x.poll \in DOMAIN polls /\ x.position \in 0..Len(xs) - 1
      /\ x.text = xs[x.position + 1]
  BY <1>1, RowsAre DEF RowsIn, RowAt
<1>3. x.poll \in Nat /\ xs \in Seq(Nat) /\ Len(xs) \in Nat /\ Len(xs) >= 2
  BY <1>1, <1>2, StoredOptions
<1>4. /\ x.text \in Nat
      /\ Append(Prefix(xs, x.position), x.text) = Prefix(xs, x.position + 1)
  BY <1>2, <1>3, PrefixGrows
<1>5. x.position \in 0..Len(xs) /\ x.position + 1 \in 0..Len(xs)
  BY <1>2, <1>3
<1>6. Prefix(xs, x.position) \in Seq(Nat) /\ Prefix(xs, x.position + 1) \in Seq(Nat)
  BY <1>3, <1>5, PrefixIs
<1>7. Prefix(xs, 1) = <<xs[1]>> /\ Prefix(xs, Len(xs)) = xs
  BY <1>3, PrefixFacts
<1> QED BY <1>1, <1>2, <1>3, <1>4, <1>6, <1>7

\* The first row starts the list.
LEMMA FirstRow ==
  ASSUME DefinitionInv, NEW R, R \subseteq DOMAIN polls, NEW x \in RowsIn(R),
         \A z \in RowsIn(R) : ~Definitions!RowBefore(z, x)
  PROVE  ListedTo(Definitions!AddRow(<<>>, x), x.poll, x.position, R)
<1> DEFINE p == x.poll
           e == [id |-> p, options |-> <<x.text>>]
           l == <<e>>
           xs == sent[p].options
<1>1. /\ p \in R /\ p \in DOMAIN polls /\ p \in Nat /\ x.position \in 0..Len(xs) - 1 /\ Len(xs) \in Nat
      /\ x.text = xs[x.position + 1] /\ x.text \in Nat /\ Prefix(xs, 1) = <<xs[1]>>
  BY RowText
<1>2. \A q \in R : RowAt(q, 0) \in RowsIn(R) /\ RowAt(q, 0).poll = q /\ RowAt(q, 0).position = 0
  <2> SUFFICES ASSUME NEW q \in R
               PROVE  RowAt(q, 0) \in RowsIn(R) /\ RowAt(q, 0).poll = q /\ RowAt(q, 0).position = 0
    OBVIOUS
  <2>1. 0 \in 0..Len(sent[q].options) - 1
    BY StoredOptions
  <2> QED BY <2>1, RowsAre DEF RowsIn
<1>3. x.position = 0
  <2>1. x.position > 0 => Definitions!RowBefore(RowAt(p, 0), x)
    BY <1>1, <1>2 DEF Definitions!RowBefore
  <2> QED BY <1>1, <1>2, <2>1
<1>4. \A q \in R : q = p \/ Definitions!Newer(p, q)
  <2> SUFFICES ASSUME NEW q \in R, Definitions!Newer(q, p) PROVE FALSE
    BY <1>1, PollsOrdered DEF Orders
  <2>1. Definitions!RowBefore(RowAt(q, 0), x)
    BY <1>2 DEF Definitions!RowBefore
  <2> QED BY <1>2, <2>1
<1>5. Definitions!AddRow(<<>>, x) = l
  BY DEF Definitions!AddRow
<1>6. e \in Entries /\ e = [id |-> p, options |-> Prefix(xs, 0 + 1)] /\ e.id = p
  <2> HIDE DEF xs
  <2>1. <<x.text>> = Prefix(xs, 0 + 1) /\ <<x.text>> \in Seq(Nat)
    BY <1>1, <1>3
  <2> HIDE DEF p
  <2> QED BY <1>1, <2>1 DEF Entries
<1> HIDE DEF e, p
<1>7. l \in Seq(Entries) /\ Len(l) = 1 /\ l[1] = e /\ l # <<>>
  BY <1>6
<1> HIDE DEF l
<1>8. ListedTo(l, p, 0, R)
  BY <1>1, <1>4, <1>6, <1>7 DEF ListedTo
<1> QED BY <1>3, <1>5, <1>8 DEF p

\* A row takes the list one option further.
LEMMA RowAdded ==
  ASSUME DefinitionInv, NEW R, R \subseteq DOMAIN polls, NEW x \in RowsIn(R), NEW y \in RowsIn(R),
         Definitions!RowBefore(x, y),
         \A z \in RowsIn(R) : ~(Definitions!RowBefore(x, z) /\ Definitions!RowBefore(z, y)),
         NEW l, ListedTo(l, x.poll, x.position, R)
  PROVE  ListedTo(Definitions!AddRow(l, y), y.poll, y.position, R)
<1> DEFINE p == x.poll
           m == Len(l)
           xs == sent[p].options
           ys == sent[y.poll].options
<1>1. /\ p \in R /\ p \in DOMAIN polls /\ p \in Nat /\ x.position \in 0..Len(xs) - 1 /\ Len(xs) \in Nat
      /\ y.poll \in R /\ y.poll \in DOMAIN polls /\ y.poll \in Nat
      /\ y.text = ys[y.position + 1] /\ y.text \in Nat
      /\ Append(Prefix(ys, y.position), y.text) = Prefix(ys, y.position + 1)
      /\ Prefix(ys, y.position + 1) \in Seq(Nat)
      /\ Prefix(ys, 1) = <<ys[1]>> /\ Prefix(xs, Len(xs)) = xs
  BY RowText
<1>2. /\ l \in Seq(Entries) /\ m \in Nat /\ m >= 1 /\ l # <<>>
      /\ l[m] = [id |-> p, options |-> Prefix(xs, x.position + 1)] /\ l[m] \in Entries
  BY DEF ListedTo
<1>3. Definitions!Last(l).id = p
  BY <1>2 DEF Definitions!Last
<1>4. CASE y.poll = p /\ y.position = x.position + 1
  <2> DEFINE new == [l EXCEPT ![m].options = Append(@, y.text)]
             e == [id |-> p, options |-> Prefix(xs, y.position + 1)]
  <2>1. Definitions!AddRow(l, y) = new
    BY <1>2, <1>3, <1>4 DEF Definitions!AddRow
  <2>2. e \in Entries /\ e = [id |-> p, options |-> Append(Prefix(xs, x.position + 1), y.text)]
    <3>1. ys = xs
      BY <1>4
    <3> HIDE DEF xs, ys, p
    <3> QED BY <1>1, <1>4, <3>1 DEF Entries
  <2>3. e = [l[m] EXCEPT !.options = Append(@, y.text)]
    <3> DEFINE last == l[m]
               old == Prefix(xs, x.position + 1)
    <3>1. last = [id |-> p, options |-> old] /\ e = [id |-> p, options |-> Append(old, y.text)]
      BY <1>2, <2>2
    <3> HIDE DEF last, old, e, p, m
    <3>2. [last EXCEPT !.options = Append(@, y.text)] = [last EXCEPT !.options = Append(old, y.text)]
      BY <3>1
    <3>3. PICK longer : longer = Append(old, y.text)
      OBVIOUS
    <3>4. [last EXCEPT !.options = longer] = [id |-> p, options |-> longer]
      BY <3>1
    <3> HIDE DEF last
    <3>5. e = [last EXCEPT !.options = Append(@, y.text)]
      BY <3>1, <3>2, <3>3, <3>4
    <3> QED BY <3>5 DEF last
  <2>4. new = [l EXCEPT ![m] = e]
    BY <1>2, <2>3
  <2>5. e.id = p
    OBVIOUS
  <2> HIDE DEF e, new
  <2>6. /\ new \in Seq(Entries) /\ Len(new) = m /\ new # <<>> /\ new[m] = e
        /\ \A i \in 1..m - 1 : new[i] = l[i]
    <3>1. m \in 1..m
      BY <1>2
    <3>2. new \in Seq(Entries) /\ Len(new) = m /\ \A i \in 1..m : new[i] = IF i = m THEN e ELSE l[i]
      <4>1. l \in Seq(Entries) /\ e \in Entries
        BY <1>2, <2>2
      <4> QED BY ONLY <2>4, <3>1, <4>1, ExceptSeq
    <3>3. \A i \in 1..m - 1 : i \in 1..m /\ i # m
      BY <1>2
    <3> QED BY <1>2, <3>1, <3>2, <3>3
  <2>7. \A i \in 1..m : new[i].id = l[i].id
    BY <1>2, <2>5, <2>6
  <2> HIDE DEF m
  <2>8. ListedTo(new, p, y.position, R)
    <3>1. \A i \in 1..m - 1 : i \in 1..m /\ new[i].options = sent[new[i].id].options
      BY <1>2, <2>6 DEF ListedTo, m
    <3>2. \A i \in 1..m : new[i].id \in R
      BY <2>7 DEF ListedTo, m
    <3>3. \A i, k \in 1..m : i < k => Definitions!Newer(new[i].id, new[k].id)
      BY <2>7 DEF ListedTo, m
    <3>4. \A q \in R : (\E i \in 1..m : q = new[i].id) \/ Definitions!Newer(p, q)
      BY <2>7 DEF ListedTo, m
    <3>5. new[Len(new)] = [id |-> p, options |-> Prefix(xs, y.position + 1)]
      BY <2>6 DEF e
    <3> QED BY <2>6, <3>1, <3>2, <3>3, <3>4, <3>5 DEF ListedTo
  <2> QED BY <1>4, <2>1, <2>8
<1>5. CASE /\ Definitions!Newer(p, y.poll) /\ y.position = 0
           /\ x.position = Len(xs) - 1
           /\ \A q \in R : ~(Definitions!Newer(p, q) /\ Definitions!Newer(q, y.poll))
  <2> DEFINE e == [id |-> y.poll, options |-> <<y.text>>]
             new == Append(l, e)
  <2>1. p # y.poll
    BY <1>1, <1>5, PollsOrdered DEF Orders
  <2>2. Definitions!AddRow(l, y) = new
    BY <1>2, <1>3, <2>1 DEF Definitions!AddRow
  <2>3. e \in Entries /\ e = [id |-> y.poll, options |-> Prefix(ys, y.position + 1)] /\ e.id = y.poll
    <3> HIDE DEF ys
    <3>1. <<y.text>> = Prefix(ys, y.position + 1) /\ <<y.text>> \in Seq(Nat)
      BY <1>1, <1>5
    <3> HIDE DEF p
    <3> QED BY <1>1, <3>1 DEF Entries
  <2>4. l[m].options = xs /\ l[m].id = p
    <3> HIDE DEF xs
    <3>0. x.position = Len(xs) - 1 /\ Len(xs) \in Nat
      BY <1>1, <1>5
    <3>1. x.position + 1 = Len(xs)
      BY ONLY <3>0
    <3>2. Prefix(xs, x.position + 1) = xs
      BY <1>1, <3>1
    <3> HIDE DEF p, m
    <3> QED BY <1>2, <3>2
  <2> HIDE DEF e
  <2>5. /\ new \in Seq(Entries) /\ Len(new) = m + 1 /\ new # <<>> /\ new[m + 1] = e
        /\ \A i \in 1..m : new[i] = l[i]
    BY <1>2, <2>3
  <2> HIDE DEF new
  <2>6. \A i \in 1..m : new[i].options = sent[new[i].id].options
    <3> SUFFICES ASSUME NEW i \in 1..m PROVE l[i].options = sent[l[i].id].options
      BY <2>5
    <3>1. i \in 1..m - 1 \/ i = m
      BY <1>2
    <3> QED BY <2>4, <3>1 DEF ListedTo
  <2>7. \A i \in 1..m + 1 : new[i].id \in R
    <3> SUFFICES ASSUME NEW i \in 1..m + 1 PROVE new[i].id \in R
      OBVIOUS
    <3>1. i \in 1..m \/ i = m + 1
      BY <1>2
    <3> QED BY <1>1, <2>3, <2>5, <3>1 DEF ListedTo
  <2>8. \A i \in 1..m : Definitions!Newer(new[i].id, y.poll)
    <3> SUFFICES ASSUME NEW i \in 1..m PROVE Definitions!Newer(l[i].id, y.poll)
      BY <2>5
    <3>1. i = m \/ i < m
      BY <1>2
    <3>2. l[i].id \in R /\ l[m].id = p /\ m \in 1..m
      BY <1>2, <2>4 DEF ListedTo
    <3>3. i < m => Definitions!Newer(l[i].id, p)
      BY <3>2 DEF ListedTo
    <3>4. i < m => Definitions!Newer(l[i].id, y.poll)
      <4> HIDE DEF p
      <4>1. \A a, b, c \in R : Definitions!Newer(a, b) /\ Definitions!Newer(b, c) => Definitions!Newer(a, c)
        BY PollsOrdered DEF Orders
      <4> QED BY <1>1, <1>5, <3>2, <3>3, <4>1
    <3> QED BY <1>5, <3>1, <3>2, <3>4
  <2>9. \A i, k \in 1..m + 1 : i < k => Definitions!Newer(new[i].id, new[k].id)
    <3> SUFFICES ASSUME NEW i \in 1..m + 1, NEW k \in 1..m + 1, i < k
                 PROVE  Definitions!Newer(new[i].id, new[k].id)
      OBVIOUS
    <3>1. i \in 1..m /\ (k \in 1..m \/ k = m + 1)
      BY <1>2
    <3> QED BY <2>3, <2>5, <2>8, <3>1 DEF ListedTo
  <2>10. \A q \in R : (\E i \in 1..m + 1 : q = new[i].id) \/ Definitions!Newer(y.poll, q)
    <3> SUFFICES ASSUME NEW q \in R, \A i \in 1..m + 1 : q # new[i].id PROVE Definitions!Newer(y.poll, q)
      OBVIOUS
    <3>1. q # y.poll
      BY <1>2, <2>3, <2>5
    <3>2. \A i \in 1..m : q # l[i].id
      BY <1>2, <2>5
    <3>3. Definitions!Newer(p, q)
      BY <3>2 DEF ListedTo
    <3> QED BY <1>1, <1>5, <3>1, <3>3, PollsOrdered DEF Orders
  <2> HIDE DEF m
  <2>11. ListedTo(new, y.poll, y.position, R)
    BY <1>2, <2>3, <2>5, <2>6, <2>7, <2>9, <2>10 DEF ListedTo
  <2> QED BY <2>2, <2>11
<1> QED BY <1>4, <1>5, NextRow

\* The list l is the polls of R, each whole, from the newest to the oldest.
Lists(l, R) ==
  /\ l \in Seq(Entries)
  /\ \A i \in 1..Len(l) : l[i].id \in R /\ l[i].options = sent[l[i].id].options
  /\ \A i, k \in 1..Len(l) : i < k => Definitions!Newer(l[i].id, l[k].id)
  /\ \A q \in R : \E i \in 1..Len(l) : q = l[i].id

\* The last row completes the list.
LEMMA LastRow ==
  ASSUME DefinitionInv, NEW R, R \subseteq DOMAIN polls, NEW x \in RowsIn(R),
         \A z \in RowsIn(R) : ~Definitions!RowBefore(x, z),
         NEW l, ListedTo(l, x.poll, x.position, R)
  PROVE  Lists(l, R)
<1> DEFINE p == x.poll
           xs == sent[p].options
<1>1. /\ p \in R /\ p \in DOMAIN polls /\ xs \in Seq(Nat) /\ Len(xs) \in Nat
      /\ x.position \in 0..Len(xs) - 1 /\ Prefix(xs, Len(xs)) = xs
  BY RowText
<1>2. \A q \in R : \A j \in 0..Len(sent[q].options) - 1 :
        RowAt(q, j) \in RowsIn(R) /\ RowAt(q, j).poll = q /\ RowAt(q, j).position = j
  BY RowsAre DEF RowsIn
<1> HIDE DEF xs
<1>3. x.position = Len(xs) - 1
  <2> SUFFICES ASSUME x.position + 1 <= Len(xs) - 1 PROVE FALSE
    BY <1>1
  <2>1. x.position + 1 \in 0..Len(xs) - 1
    BY <1>1
  <2> DEFINE z == RowAt(p, x.position + 1)
  <2>2. z \in RowsIn(R) /\ z.poll = p /\ z.position = x.position + 1
    BY <1>1, <1>2, <2>1 DEF xs
  <2> HIDE DEF z
  <2>3. Definitions!RowBefore(x, z)
    BY <1>1, <2>2 DEF Definitions!RowBefore
  <2> QED BY <2>2, <2>3
<1>4. \A q \in R : ~Definitions!Newer(p, q)
  <2> SUFFICES ASSUME NEW q \in R, Definitions!Newer(p, q) PROVE FALSE
    OBVIOUS
  <2>1. 0 \in 0..Len(sent[q].options) - 1
    BY StoredOptions
  <2> DEFINE z == RowAt(q, 0)
  <2>2. z \in RowsIn(R) /\ z.poll = q
    BY <1>2, <2>1
  <2> HIDE DEF z
  <2>3. Definitions!RowBefore(x, z)
    BY <2>2 DEF Definitions!RowBefore
  <2> QED BY <2>2, <2>3
<1>5. Len(l) \in Nat /\ Len(l) >= 1 /\ l \in Seq(Entries)
  BY DEF ListedTo
<1>6. l[Len(l)].id = p /\ l[Len(l)].options = xs
  <2>1. l[Len(l)] = [id |-> p, options |-> Prefix(xs, x.position + 1)]
    BY DEF ListedTo, xs
  <2>2. x.position + 1 = Len(xs)
    BY <1>1, <1>3
  <2> QED BY <1>1, <2>1, <2>2
<1>7. \A i \in 1..Len(l) : l[i].id \in R /\ l[i].options = sent[l[i].id].options
  <2> SUFFICES ASSUME NEW i \in 1..Len(l) PROVE l[i].id \in R /\ l[i].options = sent[l[i].id].options
    OBVIOUS
  <2>1. i \in 1..Len(l) - 1 \/ i = Len(l)
    BY <1>5
  <2> QED BY <1>6, <2>1 DEF ListedTo, xs
<1>8. \A q \in R : \E i \in 1..Len(l) : q = l[i].id
  BY <1>4 DEF ListedTo
<1>9. \A i, k \in 1..Len(l) : i < k => Definitions!Newer(l[i].id, l[k].id)
  BY DEF ListedTo
<1> QED BY <1>5, <1>7, <1>8, <1>9 DEF Lists

Listing(R) == Definitions!FoldLeft(Definitions!AddRow, <<>>, Definitions!Sorted(RowsIn(R), Definitions!RowBefore))

LEMMA ListingLists ==
  ASSUME DefinitionInv, NEW R, R \subseteq DOMAIN polls
  PROVE  Lists(Listing(R), R)
<1> DEFINE S == RowsIn(R)
           O == RowOrder(R)
           n == Cardinality(S)
           Placed(i) == CHOOSE x \in S : Rank(S, O, x) = i
<1>1. IsFiniteSet(S) /\ Orders(S, O)
  <2>1. IsFiniteSet(rows) /\ S \in SUBSET rows
    BY DEF DefinitionInv, RowsIn
  <2> QED BY <2>1, FS_Subset, RowsOrdered
<1>2. \A x, y \in S : <<x, y>> \in O <=> Definitions!RowBefore(x, y)
  BY RowsOrdered
<1>3. PICK seq : seq = Definitions!Sorted(S, Definitions!RowBefore)
  OBVIOUS
<1>4. seq = [i \in 1..n |-> Placed(i - 1)]
  <2> DEFINE Read(i) == CHOOSE x \in S : Definitions!Cardinality({y \in S : Definitions!RowBefore(y, x)}) = i
  <2>1. \A x \in S : {y \in S : Definitions!RowBefore(y, x)} = Lower(S, O, x)
    BY <1>2 DEF Lower
  <2>2. \A x \in S : Definitions!Cardinality({y \in S : Definitions!RowBefore(y, x)}) = Rank(S, O, x)
    BY <2>1 DEF Rank, Definitions!Cardinality, Cardinality
  <2>3. Definitions!Cardinality(S) = n
    BY DEF Definitions!Cardinality, Cardinality
  <2>4. seq = [i \in 1..Definitions!Cardinality(S) |-> Read(i - 1)]
    BY <1>3, Zenon DEF Definitions!Sorted
  <2> HIDE DEF S, O, n
  <2>5. \A i : Read(i) = Placed(i)
    BY <2>2
  <2> HIDE DEF Read, Placed
  <2> QED BY <2>3, <2>4, <2>5
<1> HIDE DEF S, O, n, Placed
<1>s. Sorts(S, O, seq)
  BY <1>4, Zenon DEF n, Placed, Sorts
<1>5. /\ n \in Nat /\ DOMAIN seq = 1..n
      /\ \A i \in 1..n : seq[i] \in S
      /\ \A x \in S : \E i \in 1..n : x = seq[i]
      /\ \A i, j \in 1..n : Definitions!RowBefore(seq[i], seq[j]) <=> i < j
  <2>1. /\ Cardinality(S) \in Nat /\ DOMAIN seq = 1..Cardinality(S)
        /\ \A i \in 1..Cardinality(S) : seq[i] \in S /\ Rank(S, O, seq[i]) = i - 1
        /\ \A x \in S : \E i \in 1..Cardinality(S) : x = seq[i]
        /\ \A i, j \in 1..Cardinality(S) : <<seq[i], seq[j]>> \in O <=> i < j
    BY ONLY <1>1, <1>s, Places
  <2> QED BY <1>2, <2>1 DEF n
<1>6. PICK L : /\ L[0] = <<>>
               /\ \A k \in 1..n : L[k] = Definitions!AddRow(L[k - 1], seq[k])
               /\ Definitions!FoldLeft(Definitions!AddRow, <<>>, seq) = L[n]
  BY <1>5, FoldSteps
<1>7. ASSUME NEW k \in 1..n PROVE ListedTo(L[k], seq[k].poll, seq[k].position, R)
  <2> DEFINE Bad == {i \in 1..n : ~ListedTo(L[i], seq[i].poll, seq[i].position, R)}
  <2> SUFFICES ASSUME Bad # {} PROVE FALSE
    OBVIOUS
  <2>0. Bad \subseteq 0..n
    BY <1>5
  <2> HIDE DEF Bad
  <2>1. PICK i \in Bad : \A j \in Bad : i <= j
    BY <1>5, <2>0, SmallestNumber
  <2> USE DEF Bad
  <2>2. CASE i = 1
    <3>1. \A z \in S : ~Definitions!RowBefore(z, seq[1])
      BY <1>5, <2>2
    <3>2. L[1] = Definitions!AddRow(<<>>, seq[1])
      BY <1>6, <2>2
    <3>3. ListedTo(L[1], seq[1].poll, seq[1].position, R)
      BY <1>5, <2>2, <3>1, <3>2, FirstRow DEF S
    <3> QED BY <2>2, <3>3
  <2>3. CASE i > 1
    <3> DEFINE j == i - 1
    <3>0. j \in 1..n /\ j < i /\ j \in Nat /\ i \in Nat
      BY <1>5, <2>3
    <3>1. j \in 1..n /\ j < i /\ ListedTo(L[j], seq[j].poll, seq[j].position, R) /\ j \in Nat /\ i \in Nat
      <4> HIDE DEF j
      <4>1. j \notin Bad
        BY <2>1, <3>0
      <4> QED BY <3>0, <4>1
    <3>2. Definitions!RowBefore(seq[j], seq[i]) /\ seq[i] \in S /\ seq[j] \in S
      BY <1>5, <3>1
    <3>3. \A z \in S : ~(Definitions!RowBefore(seq[j], z) /\ Definitions!RowBefore(z, seq[i]))
      BY <1>5, <3>1
    <3>4. L[i] = Definitions!AddRow(L[j], seq[i])
      BY <1>6
    <3> HIDE DEF j
    <3>5. ListedTo(L[i], seq[i].poll, seq[i].position, R)
      BY <3>1, <3>2, <3>3, <3>4, RowAdded DEF S
    <3> QED BY <3>5
  <2> QED BY <2>2, <2>3
<1>8. Listing(R) = L[n]
  BY <1>3, <1>6, Zenon DEF Listing, S
<1>9. CASE n = 0
  <2>1. R = {}
    <3> SUFFICES ASSUME NEW q \in R PROVE FALSE
      OBVIOUS
    <3>1. 0 \in 0..Len(sent[q].options) - 1
      BY StoredOptions
    <3>2. RowAt(q, 0) \in S
      BY <3>1, RowsAre DEF RowsIn, S
    <3> QED BY <1>5, <1>9, <3>2
  <2>2. Listing(R) = <<>>
    BY <1>6, <1>8, <1>9
  <2>3. Len(<<>>) = 0 /\ <<>> \in Seq(Entries)
    OBVIOUS
  <2>4. Lists(<<>>, R)
    BY <2>1, <2>3 DEF Lists
  <2> QED BY <2>2, <2>4
<1>10. CASE n # 0
  <2>1. n \in 1..n /\ \A z \in S : ~Definitions!RowBefore(seq[n], z)
    BY <1>5, <1>10
  <2> QED BY <1>5, <1>7, <1>8, <2>1, LastRow DEF S
<1> QED BY <1>9, <1>10

\* It has one entry for each poll of R.
LEMMA ListLength ==
  ASSUME DefinitionInv, NEW R, R \subseteq DOMAIN polls, NEW l, Lists(l, R)
  PROVE  Len(l) = Cardinality(R) /\ Len(l) \in Nat
<1> DEFINE f == [i \in 1..Len(l) |-> l[i].id]
<1>1. Len(l) \in Nat
  BY DEF Lists
<1>2. f \in [1..Len(l) -> R] /\ \A q \in R : \E i \in 1..Len(l) : f[i] = q
  BY DEF Lists
<1>3. ASSUME NEW i \in 1..Len(l), NEW k \in 1..Len(l), f[i] = f[k] PROVE i = k
  <2>1. ~Definitions!Newer(l[i].id, l[i].id) /\ l[i].id = l[k].id
    <3>1. l[i].id \in R /\ l[i].id = l[k].id
      BY <1>2, <1>3
    <3> QED BY <3>1, PollsOrdered DEF Orders
  <2>2. i < k => Definitions!Newer(l[i].id, l[k].id)
    BY DEF Lists
  <2>3. k < i => Definitions!Newer(l[k].id, l[i].id)
    BY DEF Lists
  <2> QED BY <1>1, <2>1, <2>2, <2>3
<1>4. f \in Bijection(1..Len(l), R)
  BY <1>2, <1>3 DEF Bijection, Injection, Surjection, IsInjective
<1>5. ExistsBijection(1..Len(l), R)
  BY <1>4 DEF ExistsBijection
<1> QED BY <1>1, <1>5, FS_CountingElements

-----------------------------------------------------------------------------
\* The polls that fewer than limit others are newer than.
Recent(limit) ==
  {p \in DOMAIN polls : Definitions!Cardinality({q \in DOMAIN polls : Definitions!Newer(q, p)}) < limit}

LEMMA RecentPolls ==
  ASSUME DefinitionInv, NEW limit \in Nat
  PROVE  /\ \A p \in Recent(limit) : \A q \in DOMAIN polls \ Recent(limit) : Definitions!Newer(p, q)
         /\ Cardinality(Recent(limit)) =
              IF Definitions!Cardinality(DOMAIN polls) < limit THEN Definitions!Cardinality(DOMAIN polls) ELSE limit
<1> DEFINE D == DOMAIN polls
           O == PollOrder(D)
           n == Cardinality(D)
           R == {p \in D : Rank(D, O, p) < limit}
<1>1. IsFiniteSet(D) /\ Orders(D, O) /\ \A p, q \in D : <<p, q>> \in O <=> Definitions!Newer(p, q)
  BY PollsOrdered DEF DefinitionInv
<1>2. \A p \in D : Definitions!Cardinality({q \in D : Definitions!Newer(q, p)}) = Rank(D, O, p)
  <2>1. \A p \in D : {q \in D : Definitions!Newer(q, p)} = Lower(D, O, p)
    BY <1>1 DEF Lower
  <2> QED BY <2>1 DEF Rank, Definitions!Cardinality, Cardinality
<1>3. Recent(limit) = R
  BY <1>2 DEF Recent
<1>4. Definitions!Cardinality(D) = n
  BY DEF Definitions!Cardinality, Cardinality
<1> HIDE DEF D, O, n
<1>5. ASSUME NEW p \in R, NEW q \in D \ R PROVE Definitions!Newer(p, q)
  <2>1. Rank(D, O, p) \in 0..Cardinality(D) - 1 /\ Rank(D, O, q) \in 0..Cardinality(D) - 1
    BY <1>1, RankGrows
  <2>2. Rank(D, O, p) < Rank(D, O, q)
    BY <2>1
  <2> QED BY <1>1, <2>2, RankGrows
<1>6. PICK seq : seq = [i \in 1..n |-> CHOOSE x \in D : Rank(D, O, x) = i - 1]
  OBVIOUS
<1>7. /\ n \in Nat
      /\ \A i \in 1..n : seq[i] \in D /\ Rank(D, O, seq[i]) = i - 1
      /\ \A x \in D : \E i \in 1..n : x = seq[i]
  <2>1. Sorts(D, O, seq)
    BY <1>6, Zenon DEF n, Sorts
  <2>2. /\ Cardinality(D) \in Nat
        /\ \A i \in 1..Cardinality(D) : seq[i] \in D /\ Rank(D, O, seq[i]) = i - 1
        /\ \A x \in D : \E i \in 1..Cardinality(D) : x = seq[i]
    BY ONLY <1>1, <2>1, Places
  <2> QED BY <2>2 DEF n
<1>8. CASE n < limit
  <2>1. R = D
    <3> SUFFICES ASSUME NEW x \in D PROVE Rank(D, O, x) < limit
      OBVIOUS
    <3>1. PICK i \in 1..n : x = seq[i]
      BY <1>7
    <3> QED BY <1>7, <1>8, <3>1
  <2> QED BY <1>3, <1>4, <1>5, <1>8, <2>1 DEF n, D
<1>9. CASE ~(n < limit)
  <2> DEFINE f == [i \in 1..limit |-> seq[i]]
  <2>1. \A i \in 1..limit : i \in 1..n /\ f[i] \in R /\ Rank(D, O, f[i]) = i - 1
    BY <1>7, <1>9
  <2>2. \A x \in R : \E i \in 1..limit : f[i] = x
    <3> SUFFICES ASSUME NEW x \in R PROVE \E i \in 1..limit : f[i] = x
      OBVIOUS
    <3>1. PICK i \in 1..n : x = seq[i]
      BY <1>7
    <3>2. i - 1 < limit
      BY <1>7, <3>1
    <3>3. i \in 1..limit
      BY <1>7, <3>2
    <3> QED BY <3>1, <3>3
  <2> HIDE DEF R
  <2>3. f \in Bijection(1..limit, R)
    <3>1. f \in [1..limit -> R]
      BY <2>1
    <3>2. \A i, k \in 1..limit : f[i] = f[k] => i = k
      <4> SUFFICES ASSUME NEW i \in 1..limit, NEW k \in 1..limit, f[i] = f[k] PROVE i = k
        OBVIOUS
      <4>1. i - 1 = k - 1
        BY <2>1
      <4> QED BY <4>1
    <3> QED BY <2>2, <3>1, <3>2 DEF Bijection, Injection, Surjection, IsInjective
  <2>4. ExistsBijection(1..limit, R)
    BY <2>3 DEF ExistsBijection
  <2>5. Cardinality(R) = limit
    BY <2>4, FS_CountingElements
  <2> QED BY <1>3, <1>4, <1>5, <1>9, <2>5 DEF D, R
<1> QED BY <1>8, <1>9

\* The newest polls, however many were created at the same time.
LEMMA ListsAreWhole == DefinitionInv => Definitions!ListIsWhole
<1> SUFFICES ASSUME DefinitionInv, NEW limit \in 1..Definitions!Cardinality(DOMAIN polls) + 1
             PROVE  LET newest == Definitions!ListRecent(limit) IN
                    /\ Len(newest) = IF Definitions!Cardinality(DOMAIN polls) < limit
                                   THEN Definitions!Cardinality(DOMAIN polls) ELSE limit
                    /\ \A i \in 1..Len(newest) :
                         /\ newest[i].options = sent[newest[i].id].options
                         /\ \A p \in DOMAIN polls \ {newest[j].id : j \in 1..i} : Definitions!Newer(newest[i].id, p)
  BY Zenon DEF Definitions!ListIsWhole
<1> DEFINE l == Definitions!ListRecent(limit)
           R == Recent(limit)
<1>1. limit \in Nat
  OBVIOUS
<1>2. l = Listing(R)
  BY Zenon DEF Definitions!ListRecent, Listing, RowsIn, Recent
<1>3. R \subseteq DOMAIN polls
  BY DEF Recent
<1> HIDE DEF l, R
<1>4. Lists(l, R) /\ Len(l) = Cardinality(R) /\ Len(l) \in Nat
  BY <1>2, <1>3, ListingLists, ListLength
<1>5. /\ \A p \in R : \A q \in DOMAIN polls \ R : Definitions!Newer(p, q)
      /\ Cardinality(R) = IF Definitions!Cardinality(DOMAIN polls) < limit
                          THEN Definitions!Cardinality(DOMAIN polls) ELSE limit
  BY <1>1, RecentPolls DEF R
<1>6. ASSUME NEW i \in 1..Len(l), NEW p \in DOMAIN polls \ {l[j].id : j \in 1..i}
      PROVE  Definitions!Newer(l[i].id, p)
  <2>1. CASE p \in R
    <3>1. PICK k \in 1..Len(l) : p = l[k].id
      BY <1>4, <2>1 DEF Lists
    <3>2. k \notin 1..i
      BY <1>6, <3>1
    <3>3. i < k
      BY <1>4, <3>2
    <3> QED BY <1>4, <3>1, <3>3 DEF Lists
  <2>2. CASE p \notin R
    BY <1>4, <1>5, <2>2 DEF Lists
  <2> QED BY <2>1, <2>2
<1>7. \A i \in 1..Len(l) : l[i].options = sent[l[i].id].options
  BY <1>4 DEF Lists
<1> QED BY <1>4, <1>5, <1>6, <1>7, Zenon DEF l

-----------------------------------------------------------------------------
(* Selections.                                                              *)

LEMMA SelectionSets ==
  ASSUME NEW O, NEW m, NEW T
  PROVE  T \in Definitions!Domain(O, m)!Selections <=> T \subseteq O /\ T # {} /\ Cardinality(T) <= m
BY DEF Definitions!Domain!Selections, Cardinality, Definitions!Domain!Cardinality

\* A list has as many members as places just when none is listed twice.
Once(ids, k) == \A i \in 1..k : \A j \in 1..i - 1 : ids[j] # ids[i]

LEMMA OnceEach ==
  ASSUME NEW k \in Nat, NEW S, NEW ids \in [1..k -> S]
  PROVE  Definitions!Cardinality(Definitions!ToSet(ids)) = k <=> Once(ids, k)
<1> DEFINE T == {ids[i] : i \in 1..k}
           K == 1..k
<1>1. Definitions!ToSet(ids) = T
  BY DEF Definitions!ToSet
<1>2. IsFiniteSet(K) /\ Cardinality(K) = k
  BY FS_Interval
<1>3. ids \in Surjection(K, T)
  BY DEF Surjection
<1>4. Once(ids, k) <=> \A i, j \in K : ids[i] = ids[j] => i = j
  <2>1. ASSUME \A i \in 1..k : \A j \in 1..i - 1 : ids[j] # ids[i], NEW i \in K, NEW j \in K, ids[i] = ids[j]
        PROVE  i = j
    <3>1. j < i => j \in 1..i - 1
      OBVIOUS
    <3>2. i < j => i \in 1..j - 1
      OBVIOUS
    <3>3. j < i => ids[j] # ids[i]
      BY <2>1, <3>1
    <3>4. i < j => ids[i] # ids[j]
      BY <2>1, <3>2
    <3> QED BY <2>1, <3>3, <3>4
  <2>2. ASSUME \A i, j \in K : ids[i] = ids[j] => i = j, NEW i \in 1..k, NEW j \in 1..i - 1
        PROVE  ids[j] # ids[i]
    <3>1. j \in K /\ i \in K /\ j # i
      OBVIOUS
    <3> QED BY <2>2, <3>1
  <2> QED BY <2>1, <2>2 DEF Once
<1> HIDE DEF T, K
<1>5. Cardinality(T) = Cardinality(K) <=> ids \in Injection(K, T)
  BY <1>2, <1>3, FS_Surjection
<1>6. ids \in Injection(K, T) <=> \A i, j \in K : ids[i] = ids[j] => i = j
  BY <1>3 DEF Injection, Surjection, IsInjective
<1>7. Definitions!Cardinality(T) = Cardinality(T)
  BY DEF Definitions!Cardinality, Cardinality
<1> QED BY <1>1, <1>2, <1>4, <1>5, <1>6, <1>7 DEF T

\* A selection that passes is a set of the poll's options, each listed once.
LEMMA SelectionsCount == DefinitionInv => Definitions!SelectionsCountOnce
<1> SUFFICES ASSUME DefinitionInv, NEW p \in DOMAIN polls, NEW k \in 0..MaxOptions,
                    NEW ids \in [1..k -> 0..MaxOptions]
             PROVE  LET n == Len(Definitions!Get(p)) IN
                    Definitions!ValidateSelection(p, ids) <=>
                      /\ Definitions!ToSet(ids) \in Definitions!Domain(0..n - 1, polls[p].max)!Selections
                      /\ Definitions!Cardinality(Definitions!ToSet(ids)) = Len(ids)
  BY Zenon DEF Definitions!SelectionsCountOnce
<1> DEFINE n == Len(Definitions!Get(p))
           m == polls[p].max
           T == Definitions!ToSet(ids)
<1>1. k \in Nat /\ Len(ids) = k /\ (ids = <<>> <=> k = 0)
  <2>1. MaxOptions \in Nat
    BY InputFacts
  <2> QED BY <2>1
<1>2. n \in Nat /\ m \in 1..n /\ (polls[p].type = "single_choice" <=> m = 1)
  BY WholePolls DEF Definitions!PollsAreWhole
<1>3. T = {ids[i] : i \in 1..k} /\ (Definitions!Cardinality(T) = k <=> Once(ids, k))
  <2>1. T = {ids[i] : i \in 1..k}
    BY DEF Definitions!ToSet
  <2>2. Definitions!Cardinality(T) = k <=> Once(ids, k)
    BY <1>1, OnceEach
  <2> QED BY <2>1, <2>2
<1>4. T \in Definitions!Domain(0..n - 1, m)!Selections <=> T \subseteq 0..n - 1 /\ T # {} /\ Cardinality(T) <= m
  BY SelectionSets
<1>5. Definitions!ValidateSelection(p, ids) <=>
        /\ k # 0 /\ k <= m /\ (polls[p].type = "single_choice" => k = 1)
        /\ Once(ids, k) /\ \A i \in 1..k : ids[i] \in 0..n - 1
  BY <1>1, Zenon DEF Definitions!ValidateSelection, Once
<1> HIDE DEF n, m, T
<1>6. Definitions!Cardinality(T) = Cardinality(T)
  BY DEF Definitions!Cardinality, Cardinality
<1>7. T # {} <=> k # 0
  BY <1>1, <1>3
<1>8. T \subseteq 0..n - 1 <=> \A i \in 1..k : ids[i] \in 0..n - 1
  BY <1>3
<1>9. k # 0 /\ k <= m /\ m = 1 => k = 1
  BY <1>1
<1>10. Definitions!ValidateSelection(p, ids) <=>
         T \in Definitions!Domain(0..n - 1, m)!Selections /\ Definitions!Cardinality(T) = Len(ids)
  BY <1>1, <1>2, <1>3, <1>4, <1>5, <1>6, <1>7, <1>8, <1>9
<1> QED BY <1>10, Zenon DEF n, m, T

\* What is stored, what is listed and what can be selected are the polls that
\* were created, whatever failed and however many were created at once.
THEOREM DefinitionsStaySound == Spec => []DefinitionsAreSound
<1>1. DefinitionInv => DefinitionsAreSound
  BY WholePolls, ListsAreWhole, SelectionsCount DEF DefinitionsAreSound, Definitions!DefinitionsAreSound
<1> QED BY <1>1, DefinitionHolds, PTL
=============================================================================
