---------------------------- MODULE VoteEndpoint ----------------------------
(***************************************************************************)
(* One browser against the poll page and POST /votes: its cookie jar, the  *)
(* handlers getPoll and vote with the middleware around them, the device   *)
(* identity they verify or mint, and the metrics they leave behind while a *)
(* scrape reads them.  Answers may be lost and votes sent again.  The poll *)
(* is open or refuses at will; the store is one marker per device.         *)
(***************************************************************************)
EXTENDS Integers, FiniteSets

CONSTANTS
  Votes,       \* POST /votes requests the browser sends
  Loads,       \* GET /polls/{slug} requests of its page
  Sequential,  \* TRUE: one tab, which waits for an answer or a failure
  ApiClient,   \* TRUE: votes without loading the page first
  MaxFaults,   \* bound on lost commands and answers
  NoCookie

EndpointAssumption ==
  /\ IsFiniteSet(Votes) /\ IsFiniteSet(Loads) /\ Votes \cap Loads = {}
  /\ Sequential \in BOOLEAN /\ ApiClient \in BOOLEAN
  /\ MaxFaults \in Nat /\ NoCookie \notin Nat

VARIABLES
  jar,      \* the browser's poll_device cookie
  loaded,   \* a page has been rendered
  minted,   \* device ids made so far
  marked,   \* devices with a dedup marker
  req,      \* the requests
  metrics,  \* the counters of Metrics, rejections and vote requests summed up
  scrape,   \* GET /metrics, which holds the metrics' mutex while it writes
  faults

vars == <<jar, loaded, minted, marked, req, metrics, scrape, faults>>

Cookies == Nat \cup {NoCookie}

States == {"idle", "sent", "named", "voted", "counted", "answered", "done", "lost"}

EndpointTypeOK ==
  /\ jar \in Cookies /\ loaded \in BOOLEAN /\ minted \in Nat /\ marked \subseteq 1..minted
  /\ req \in [Votes \cup Loads -> [pc: States, cookie: Cookies, device: 0..minted,
                                   outcome: {"none", "recorded", "duplicate", "rejected"}]]
  /\ metrics \in [recorded: Nat, duplicate: Nat, rejected: Nat, http: Nat]
  /\ scrape \in [pc: 0..2, recorded: Nat, duplicate: Nat, rejected: Nat, http: Nat]
  /\ faults \in 0..MaxFaults

Init ==
  /\ jar = NoCookie /\ loaded = FALSE /\ minted = 0 /\ marked = {} /\ faults = 0
  /\ req = [r \in Votes \cup Loads |->
              [pc |-> "idle", cookie |-> NoCookie, device |-> 0, outcome |-> "none"]]
  /\ metrics = [recorded |-> 0, duplicate |-> 0, rejected |-> 0, http |-> 0]
  /\ scrape = [pc |-> 0, recorded |-> 0, duplicate |-> 0, rejected |-> 0, http |-> 0]

-----------------------------------------------------------------------------
Fault == faults < MaxFaults /\ faults' = faults + 1

InFlight(r) == req[r].pc \notin {"idle", "done", "lost"}

\* The browser: poll.js shows the form once a poll was rendered and disables
\* the button while a vote is on its way.  The jar's cookie goes along.
Send(r) ==
  /\ req[r].pc = "idle"
  /\ Sequential => \A x \in Votes \cup Loads : ~InFlight(x)
  /\ r \in Votes => loaded \/ ApiClient
  /\ req' = [req EXCEPT ![r].pc = "sent", ![r].cookie = jar]
  /\ UNCHANGED <<jar, loaded, minted, marked, metrics, scrape, faults>>

\* Mutant: a cookie that verifies is not looked at.
DeviceIDMinted(r) ==
  /\ minted' = minted + 1
  /\ req' = [req EXCEPT ![r].pc = "named", ![r].device = minted']

\* CookieManager.DeviceID: a cookie that verifies, or a fresh identity.
DeviceID(r) ==
  LET known == req[r].cookie # NoCookie IN
  /\ minted' = IF known THEN minted ELSE minted + 1
  /\ req' = [req EXCEPT ![r].pc = "named", ![r].device = IF known THEN req[r].cookie ELSE minted']

Identify(r) ==
  /\ req[r].pc = "sent"
  /\ DeviceID(r)
  /\ UNCHANGED <<jar, loaded, marked, metrics, scrape, faults>>

\* getPoll answers; its answer carries the cookie, if one was made.
AnswerPage(l) ==
  /\ req[l].pc = "named"
  /\ req' = [req EXCEPT ![l].pc = "answered"]
  /\ UNCHANGED <<jar, loaded, minted, marked, metrics, scrape, faults>>

\* No such poll now, or a failing query: no cookie is made.
RefusePage(l) ==
  /\ req[l].pc = "sent"
  /\ req' = [req EXCEPT ![l].pc = "lost"]
  /\ UNCHANGED <<jar, loaded, minted, marked, metrics, scrape, faults>>

Outcome(v, o) == req' = [req EXCEPT ![v].pc = "voted", ![v].outcome = o]

\* An invalid id, content type, body or option, or the rate limiter.
RejectEarly(v) ==
  /\ req[v].pc = "sent"
  /\ Outcome(v, "rejected")
  /\ UNCHANGED <<jar, loaded, minted, marked, metrics, scrape, faults>>

\* VoteService.Vote answers: recorded, already recorded, or an error before
\* any effect.
Vote(v) ==
  /\ req[v].pc = "named"
  /\ \/ req[v].device \notin marked /\ marked' = marked \cup {req[v].device} /\ Outcome(v, "recorded")
     \/ req[v].device \in marked /\ Outcome(v, "duplicate") /\ UNCHANGED marked
     \/ Outcome(v, "rejected") /\ UNCHANGED marked
  /\ UNCHANGED <<jar, loaded, minted, metrics, scrape, faults>>

\* The script ran and its reply is lost: go-redis sends it again, which finds
\* the marker, or gives up with dependency_error.
VoteFault(v) ==
  /\ req[v].pc = "named" /\ Fault
  /\ marked' = marked \cup {req[v].device}
  /\ Outcome(v, "duplicate") \/ Outcome(v, "rejected")
  /\ UNCHANGED <<jar, loaded, minted, metrics, scrape>>

\* Mutant: "already recorded" is counted as recorded.
CountRepeats(v) ==
  /\ req[v].pc = "voted"
  /\ metrics' = [metrics EXCEPT ![IF req[v].outcome = "duplicate" THEN "recorded" ELSE req[v].outcome] = @ + 1]
  /\ req' = [req EXCEPT ![v].pc = "counted"]
  /\ UNCHANGED <<jar, loaded, minted, marked, scrape, faults>>

\* One counter per outcome: atomics, or Reject under the mutex.
Count(v) ==
  /\ req[v].pc = "voted"
  /\ req[v].outcome = "rejected" => scrape.pc = 0
  /\ metrics' = [metrics EXCEPT ![req[v].outcome] = @ + 1]
  /\ req' = [req EXCEPT ![v].pc = "counted"]
  /\ UNCHANGED <<jar, loaded, minted, marked, scrape, faults>>

\* The middleware's deferred ObserveHTTP, then the answer is flushed.
Observe(v) ==
  /\ req[v].pc = "counted" /\ scrape.pc = 0
  /\ metrics' = [metrics EXCEPT !.http = @ + 1]
  /\ req' = [req EXCEPT ![v].pc = "answered"]
  /\ UNCHANGED <<jar, loaded, minted, marked, scrape, faults>>

\* The answer arrives; only a page or a successful vote sets the cookie.
Receive(r) ==
  /\ req[r].pc = "answered"
  /\ req' = [req EXCEPT ![r].pc = "done"]
  /\ loaded' = (loaded \/ r \in Loads)
  /\ jar' = IF req[r].cookie = NoCookie /\ req[r].outcome # "rejected" THEN req[r].device ELSE jar
  /\ UNCHANGED <<minted, marked, metrics, scrape, faults>>

LoseAnswer(r) ==
  /\ req[r].pc = "answered" /\ Fault
  /\ req' = [req EXCEPT ![r].pc = "lost"]
  /\ UNCHANGED <<jar, loaded, minted, marked, metrics, scrape>>

-----------------------------------------------------------------------------
\* Metrics.ServeHTTP: the maps under the mutex, which stays taken while the
\* atomics are read one after the other.
ScrapeMaps ==
  /\ scrape.pc = 0
  /\ scrape' = [scrape EXCEPT !.pc = 1, !.http = metrics.http, !.rejected = metrics.rejected]
  /\ UNCHANGED <<jar, loaded, minted, marked, req, metrics, faults>>

ScrapeRecorded ==
  /\ scrape.pc = 1
  /\ scrape' = [scrape EXCEPT !.pc = 2, !.recorded = metrics.recorded]
  /\ UNCHANGED <<jar, loaded, minted, marked, req, metrics, faults>>

ScrapeDuplicates ==
  /\ scrape.pc = 2
  /\ scrape' = [scrape EXCEPT !.pc = 0, !.duplicate = metrics.duplicate]
  /\ UNCHANGED <<jar, loaded, minted, marked, req, metrics, faults>>

Next ==
  \/ \E r \in Votes \cup Loads : Send(r) \/ Identify(r) \/ Receive(r) \/ LoseAnswer(r)
  \/ \E l \in Loads : AnswerPage(l) \/ RefusePage(l)
  \/ \E v \in Votes : RejectEarly(v) \/ Vote(v) \/ VoteFault(v) \/ Count(v) \/ Observe(v)
  \/ ScrapeMaps \/ ScrapeRecorded \/ ScrapeDuplicates

Spec == Init /\ [][Next]_vars

-----------------------------------------------------------------------------
\* A browser has one ballot at most, however often it votes again after lost
\* or failed answers.  (For one tab that loaded the page before it votes.)
OneBallotPerBrowser == Cardinality(marked) <= 1

\* votes_recorded_total never exceeds the ballots, and falls short of them
\* only by requests on their way and by replies that were lost.
RecordedIsCounted ==
  LET open == {v \in Votes : req[v].pc = "voted" /\ req[v].outcome = "recorded"}
  IN  /\ metrics.recorded <= Cardinality(marked)
      /\ Cardinality(marked) <= metrics.recorded + Cardinality(open) + faults

\* A scrape never shows more completed vote requests than outcomes, although
\* it reads the counters one after the other while requests go on.
ScrapeCoversAnswers ==
  scrape.pc = 0 => scrape.http <= scrape.recorded + scrape.duplicate + scrape.rejected

\* The counters of /metrics add up, whatever answers and replies are lost and
\* wherever a scrape meets the requests.
MetricsAddUp == RecordedIsCounted /\ ScrapeCoversAnswers
=============================================================================
