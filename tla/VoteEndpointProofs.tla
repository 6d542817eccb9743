------------------------- MODULE VoteEndpointProofs -------------------------
(***************************************************************************)
(* For any requests and faults: the votes of one tab are one ballot, and   *)
(* the counters of /metrics cover ballots and answers.  The first rests on *)
(* the jar: in a tab that loaded the page every vote carries its cookie.   *)
(* The second rests on when counters move: after the ballot, before the    *)
(* answer, and never down.                                                 *)
(***************************************************************************)
EXTENDS VoteEndpoint, FiniteSetTheorems, TLAPS

Outcomes == {"none", "recorded", "duplicate", "rejected"}

Records(m) == [pc: States, cookie: Cookies, device: 0..m, outcome: Outcomes]

\* With m identities minted, cookies and devices are among them; a vote has an
\* outcome from when it took effect, a page load has none.
Sound(r, q, m) ==
  /\ q \in Records(m)
  /\ q.cookie \in 1..m \cup {NoCookie}
  /\ q.pc \in {"idle", "sent", "named"} \/ r \in Loads => q.outcome = "none"
  /\ q.pc = "named" \/ (q.pc \in {"voted", "counted", "answered"} /\ q.outcome # "rejected") => q.device \in 1..m
  /\ q.pc \in {"voted", "counted"} => r \in Votes /\ q.outcome # "none"

IdentityInv ==
  /\ EndpointTypeOK
  /\ jar \in 1..minted \cup {NoCookie}
  /\ \A r \in Votes \cup Loads : Sound(r, req[r], minted)

\* In one tab a request at a time is in flight, with the jar's cookie; a vote
\* is sent with a cookie, and only the jar's device is ever marked.
TabInv ==
  /\ \A r, s \in Votes \cup Loads : InFlight(r) /\ InFlight(s) => r = s
  /\ \A r \in Votes \cup Loads : InFlight(r) => req[r].cookie = jar
  /\ loaded = TRUE => jar # NoCookie
  /\ \A v \in Votes : InFlight(v) => loaded = TRUE
  /\ \A v \in Votes : req[v].pc = "named" => req[v].device = req[v].cookie
  /\ marked \subseteq {jar}

\* Ballots that are not counted yet, and answers that are not observed yet.
Uncounted == {v \in Votes : req[v].pc = "voted" /\ req[v].outcome = "recorded"}
Unobserved == {v \in Votes : req[v].pc = "counted"}

\* What a scrape has read covers what it has yet to read, because no counter
\* goes down.
CountInv ==
  /\ metrics.recorded + Cardinality(Uncounted) <= Cardinality(marked)
  /\ Cardinality(marked) <= metrics.recorded + Cardinality(Uncounted) + faults
  /\ metrics.http + Cardinality(Unobserved) <= metrics.recorded + metrics.duplicate + metrics.rejected
  /\ scrape.pc = 0 => scrape.http <= scrape.recorded + scrape.duplicate + scrape.rejected
  /\ scrape.pc = 1 => scrape.http <= metrics.recorded + metrics.duplicate + scrape.rejected
  /\ scrape.pc = 2 => scrape.http <= scrape.recorded + metrics.duplicate + scrape.rejected

Metered == [recorded: Nat, duplicate: Nat, rejected: Nat, http: Nat]
Scrapes == [pc: 0..2, recorded: Nat, duplicate: Nat, rejected: Nat, http: Nat]

-----------------------------------------------------------------------------
(* Identities.                                                             *)

LEMMA EndpointTypes ==
  EndpointTypeOK <=>
    /\ jar \in Cookies /\ loaded \in BOOLEAN /\ minted \in Nat /\ marked \subseteq 1..minted
    /\ req \in [Votes \cup Loads -> Records(minted)]
    /\ metrics \in Metered /\ scrape \in Scrapes /\ faults \in 0..MaxFaults
BY DEF EndpointTypeOK, Records, Outcomes, Metered, Scrapes

LEMMA EndpointFacts ==
  ASSUME EndpointAssumption
  PROVE  /\ IsFiniteSet(Votes) /\ Votes \cap Loads = {} /\ MaxFaults \in Nat /\ NoCookie \notin Nat
BY DEF EndpointAssumption

LEMMA SoundLater ==
  ASSUME NEW r, NEW q, NEW m \in Nat, Sound(r, q, m), NEW k \in Nat, m <= k
  PROVE  Sound(r, q, k)
<1>1. 0..m \subseteq 0..k /\ 1..m \subseteq 1..k
  OBVIOUS
<1> HIDE DEF Records
<1>2. Records(m) \subseteq Records(k)
  BY <1>1 DEF Records
<1> QED BY <1>1, <1>2 DEF Sound

LEMMA IdentityInit == EndpointAssumption /\ Init => IdentityInv
<1> SUFFICES ASSUME EndpointAssumption, Init PROVE IdentityInv
  OBVIOUS
<1> DEFINE q == [pc |-> "idle", cookie |-> NoCookie, device |-> 0, outcome |-> "none"]
<1>1. Sound(0, q, 0) /\ q \in Records(0) /\ \A r : Sound(r, q, 0)
  BY DEF Sound, Records, States, Cookies, Outcomes
<1>2. req = [r \in Votes \cup Loads |-> q] /\ minted = 0 /\ jar = NoCookie
  BY DEF Init
<1> HIDE DEF q
<1>3. metrics \in Metered /\ scrape \in Scrapes /\ faults \in 0..MaxFaults /\ loaded \in BOOLEAN /\ marked = {}
  <2>1. faults \in 0..MaxFaults
    BY EndpointFacts DEF Init
  <2>2. metrics \in Metered /\ scrape \in Scrapes
    BY DEF Init, Metered, Scrapes
  <2> QED BY <2>1, <2>2 DEF Init
<1> QED BY <1>1, <1>2, <1>3, EndpointTypes DEF IdentityInv, Cookies

\* One request moves to q, and minted to m.
LEMMA RequestMoves ==
  ASSUME IdentityInv, NEW r \in Votes \cup Loads, NEW q, NEW m \in Nat, minted <= m, minted' = m,
         req' = [req EXCEPT ![r] = q], Sound(r, q, m),
         jar' \in 1..m \cup {NoCookie}, loaded' \in BOOLEAN, marked' \subseteq 1..m,
         metrics' \in Metered, scrape' \in Scrapes, faults' \in 0..MaxFaults
  PROVE  IdentityInv'
<1>1. /\ req \in [Votes \cup Loads -> Records(minted)] /\ minted \in Nat
      /\ \A s \in Votes \cup Loads : Sound(s, req[s], minted)
  BY EndpointTypes DEF IdentityInv
<1>2. /\ \A s \in Votes \cup Loads : s # r => req'[s] = req[s]
      /\ req'[r] = q /\ DOMAIN req' = Votes \cup Loads /\ req' = [s \in Votes \cup Loads |-> req'[s]]
  BY <1>1
<1>3. \A s \in Votes \cup Loads : Sound(s, req'[s], m)
  BY <1>1, <1>2, SoundLater
<1>4. \A s \in Votes \cup Loads : req'[s] \in Records(m)
  BY <1>3 DEF Sound
<1>5. req' \in [Votes \cup Loads -> Records(minted')]
  BY <1>2, <1>4
<1>6. jar' \in Cookies
  BY DEF Cookies
<1>7. EndpointTypeOK'
  BY <1>5, <1>6 DEF EndpointTypeOK, Records, Outcomes, Metered, Scrapes
<1>8. \A s \in Votes \cup Loads : Sound(s, req[s], minted)'
  BY <1>3 DEF Sound, Records
<1> QED BY <1>7, <1>8 DEF IdentityInv

\* The same when nothing is minted.
LEMMA RequestChanges ==
  ASSUME IdentityInv, NEW r \in Votes \cup Loads, NEW q, minted' = minted,
         req' = [req EXCEPT ![r] = q], Sound(r, q, minted),
         jar' \in 1..minted \cup {NoCookie}, loaded' \in BOOLEAN, marked' \subseteq 1..minted,
         metrics' \in Metered, scrape' \in Scrapes, faults' \in 0..MaxFaults
  PROVE  IdentityInv'
<1>1. minted \in Nat /\ minted <= minted
  BY DEF IdentityInv, EndpointTypeOK
<1> QED BY <1>1, RequestMoves

\* The record of a request, as a value that steps change.
LEMMA RequestRecord ==
  ASSUME IdentityInv, NEW r \in Votes \cup Loads
  PROVE  /\ req[r] \in Records(minted) /\ Sound(r, req[r], minted) /\ minted \in Nat
         /\ jar \in 1..minted \cup {NoCookie} /\ loaded \in BOOLEAN /\ marked \subseteq 1..minted
         /\ metrics \in Metered /\ scrape \in Scrapes /\ faults \in 0..MaxFaults
BY EndpointTypes DEF IdentityInv

LEMMA IdentityStep ==
  ASSUME EndpointAssumption, IdentityInv, NEW r \in Votes \cup Loads,
         \/ Send(r) \/ Identify(r) \/ Receive(r) \/ LoseAnswer(r)
         \/ r \in Loads /\ (AnswerPage(r) \/ RefusePage(r))
         \/ r \in Votes /\ (RejectEarly(r) \/ Vote(r) \/ VoteFault(r) \/ Count(r) \/ Observe(r))
  PROVE  IdentityInv'
<1>a. NoCookie \notin Nat /\ MaxFaults \in Nat /\ (r \in Loads => r \notin Votes)
  BY EndpointFacts
<1>b. /\ jar \in 1..minted \cup {NoCookie} /\ loaded \in BOOLEAN /\ marked \subseteq 1..minted
      /\ metrics \in Metered /\ scrape \in Scrapes /\ faults \in 0..MaxFaults
  BY RequestRecord
<1>c. minted \in Nat /\ req[r] \in Records(minted) /\ Sound(r, req[r], minted)
  BY RequestRecord
<1>d. Fault => faults' \in 0..MaxFaults
  BY <1>a, <1>b DEF Fault
<1> DEFINE p == req[r]
<1>s. {"sent", "named", "voted", "counted", "answered", "done", "lost"} \subseteq States
  BY DEF States
<1>1. CASE Send(r)
  <2> DEFINE q == [p EXCEPT !.pc = "sent", !.cookie = jar]
  <2>1. req' = [req EXCEPT ![r] = q] /\ p.pc = "idle" /\ UNCHANGED <<jar, loaded, minted, marked, metrics, scrape, faults>>
    BY <1>1 DEF Send
  <2>2. q \in Records(minted) /\ q.pc = "sent" /\ q.cookie = jar /\ q.device = p.device /\ q.outcome = p.outcome
    <3>1. jar \in Cookies
      BY <1>b, <1>c DEF Cookies
    <3> QED BY <1>c, <1>s, <3>1 DEF Records
  <2> HIDE DEF q, p
  <2>3. Sound(r, q, minted)
    BY <1>b, <1>c, <2>1, <2>2 DEF Sound, p
  <2> QED BY <1>b, <2>1, <2>3, RequestChanges
<1>2. CASE Identify(r)
  <2>1. CASE p.cookie # NoCookie
    <3> DEFINE q == [p EXCEPT !.pc = "named", !.device = p.cookie]
    <3>1. req' = [req EXCEPT ![r] = q] /\ p.pc = "sent" /\ UNCHANGED <<jar, loaded, minted, marked, metrics, scrape, faults>>
      BY <1>2, <2>1 DEF Identify, DeviceID
    <3>2. p.cookie \in 1..minted /\ p.cookie \in 0..minted
      BY <1>c, <2>1 DEF Sound
    <3>3. q \in Records(minted) /\ q.pc = "named" /\ q.cookie = p.cookie /\ q.device = p.cookie /\ q.outcome = p.outcome
      BY <1>c, <1>s, <3>2 DEF Records
    <3> HIDE DEF q, p
    <3>4. Sound(r, q, minted)
      BY <1>c, <3>1, <3>2, <3>3 DEF Sound, p
    <3> QED BY <1>b, <3>1, <3>4, RequestChanges
  <2>2. CASE p.cookie = NoCookie
    <3>1. PICK k : k = minted + 1
      OBVIOUS
    <3> DEFINE q == [p EXCEPT !.pc = "named", !.device = k]
    <3>2. req' = [req EXCEPT ![r] = q] /\ p.pc = "sent" /\ minted' = k /\ UNCHANGED <<jar, loaded, marked, metrics, scrape, faults>>
      BY <1>2, <2>2, <3>1 DEF Identify, DeviceID
    <3>3. k \in Nat /\ minted <= k /\ k \in 1..k /\ k \in 0..k /\ jar \in 1..k \cup {NoCookie} /\ marked \subseteq 1..k
      BY <1>b, <1>c, <3>1
    <3>4. Sound(r, p, k)
      BY <1>c, <3>3, SoundLater
    <3>5. q \in Records(k) /\ q.pc = "named" /\ q.cookie = p.cookie /\ q.device = k /\ q.outcome = p.outcome
      BY <1>s, <3>3, <3>4 DEF Sound, Records
    <3> HIDE DEF q, p
    <3>6. Sound(r, q, k)
      BY <3>2, <3>3, <3>4, <3>5 DEF Sound
    <3> QED BY <1>b, <3>2, <3>3, <3>6, RequestMoves
  <2> QED BY <2>1, <2>2
<1>3. CASE Receive(r)
  <2> DEFINE q == [p EXCEPT !.pc = "done"]
  <2>1. /\ req' = [req EXCEPT ![r] = q] /\ p.pc = "answered" /\ UNCHANGED <<minted, marked, metrics, scrape, faults>>
        /\ jar' = IF p.cookie = NoCookie /\ p.outcome # "rejected" THEN p.device ELSE jar
        /\ loaded' \in BOOLEAN
    BY <1>b, <1>3 DEF Receive
  <2>2. q \in Records(minted) /\ q.pc = "done" /\ q.cookie = p.cookie /\ q.device = p.device /\ q.outcome = p.outcome
    BY <1>c, <1>s DEF Records
  <2> HIDE DEF q, p
  <2>3. Sound(r, q, minted) /\ jar' \in 1..minted \cup {NoCookie}
    BY <1>b, <1>c, <2>1, <2>2 DEF Sound, p
  <2> QED BY <1>b, <2>1, <2>3, RequestChanges
<1>4. ASSUME NEW q \in Records(minted), q.cookie = p.cookie, q.device = p.device, q.outcome = p.outcome,
             \/ q.pc = "lost"
             \/ q.pc = "answered" /\ ((r \in Loads /\ p.pc = "named") \/ (r \in Votes /\ p.pc = "counted"))
      PROVE  Sound(r, q, minted)
  <2> HIDE DEF p
  <2> QED BY <1>c, <1>4 DEF Sound, p
<1>5. CASE LoseAnswer(r)
  <2> DEFINE q == [p EXCEPT !.pc = "lost"]
  <2>1. req' = [req EXCEPT ![r] = q] /\ UNCHANGED <<jar, loaded, minted, marked, metrics, scrape>> /\ Fault
    BY <1>5 DEF LoseAnswer
  <2>a. q \in Records(minted) /\ q.pc = "lost" /\ q.cookie = p.cookie /\ q.device = p.device /\ q.outcome = p.outcome
    BY <1>c, <1>s DEF Records
  <2> HIDE DEF q, p
  <2>2. Sound(r, q, minted)
    BY <1>4, <2>a
  <2> QED BY <1>b, <1>d, <2>1, <2>2, RequestChanges
<1>6. CASE r \in Loads /\ AnswerPage(r)
  <2> DEFINE q == [p EXCEPT !.pc = "answered"]
  <2>1. req' = [req EXCEPT ![r] = q] /\ UNCHANGED <<jar, loaded, minted, marked, metrics, scrape, faults>> /\ p.pc = "named"
    BY <1>6 DEF AnswerPage
  <2>a. q \in Records(minted) /\ q.pc = "answered" /\ q.cookie = p.cookie /\ q.device = p.device /\ q.outcome = p.outcome
    BY <1>c, <1>s DEF Records
  <2> HIDE DEF q, p
  <2>b. r \in Loads /\ p.pc = "named"
    BY <1>6, <2>1
  <2>2. Sound(r, q, minted)
    BY <1>4, <2>a, <2>b
  <2> QED BY <1>b, <2>1, <2>2, RequestChanges
<1>7. CASE r \in Loads /\ RefusePage(r)
  <2> DEFINE q == [p EXCEPT !.pc = "lost"]
  <2>1. req' = [req EXCEPT ![r] = q] /\ UNCHANGED <<jar, loaded, minted, marked, metrics, scrape, faults>>
    BY <1>7 DEF RefusePage
  <2>a. q \in Records(minted) /\ q.pc = "lost" /\ q.cookie = p.cookie /\ q.device = p.device /\ q.outcome = p.outcome
    BY <1>c, <1>s DEF Records
  <2> HIDE DEF q, p
  <2>2. Sound(r, q, minted)
    BY <1>4, <2>a
  <2> QED BY <1>b, <2>1, <2>2, RequestChanges
<1>8. CASE r \in Votes /\ (RejectEarly(r) \/ Vote(r) \/ VoteFault(r))
  <2>1. p.pc = "named" => p.device \in 1..minted
    BY <1>c DEF Sound
  <2>2. UNCHANGED <<jar, loaded, minted, metrics, scrape>>
    BY <1>8 DEF RejectEarly, Vote, VoteFault
  <2>3. faults' \in 0..MaxFaults
    <3>1. faults' = faults \/ Fault
      BY <1>8 DEF RejectEarly, Vote, VoteFault
    <3> QED BY <1>b, <1>d, <3>1
  <2>4. marked' \subseteq 1..minted
    BY <1>b, <1>8, <2>1 DEF RejectEarly, Vote, VoteFault
  <2>5. PICK o \in {"recorded", "duplicate", "rejected"} :
          /\ req' = [req EXCEPT ![r] = [p EXCEPT !.pc = "voted", !.outcome = o]]
          /\ p.pc = "named" \/ (p.pc = "sent" /\ o = "rejected")
    <3>1. CASE RejectEarly(r)
      <4>1. p.pc = "sent" /\ req' = [req EXCEPT ![r] = [p EXCEPT !.pc = "voted", !.outcome = "rejected"]]
        BY <3>1 DEF RejectEarly, Outcome
      <4> QED BY <4>1
    <3>2. CASE VoteFault(r)
      <4>1. p.pc = "named"
        BY <3>2 DEF VoteFault
      <4>2. \/ req' = [req EXCEPT ![r] = [p EXCEPT !.pc = "voted", !.outcome = "duplicate"]]
            \/ req' = [req EXCEPT ![r] = [p EXCEPT !.pc = "voted", !.outcome = "rejected"]]
        BY <3>2 DEF VoteFault, Outcome
      <4>3. CASE req' = [req EXCEPT ![r] = [p EXCEPT !.pc = "voted", !.outcome = "duplicate"]]
        BY <4>1, <4>3
      <4>4. CASE req' = [req EXCEPT ![r] = [p EXCEPT !.pc = "voted", !.outcome = "rejected"]]
        BY <4>1, <4>4
      <4> QED BY <4>2, <4>3, <4>4
    <3>3. CASE Vote(r)
      <4>0. p.pc = "named"
        BY <3>3 DEF Vote
      <4>1. \/ req' = [req EXCEPT ![r] = [p EXCEPT !.pc = "voted", !.outcome = "recorded"]]
            \/ req' = [req EXCEPT ![r] = [p EXCEPT !.pc = "voted", !.outcome = "duplicate"]]
            \/ req' = [req EXCEPT ![r] = [p EXCEPT !.pc = "voted", !.outcome = "rejected"]]
        BY <3>3 DEF Vote, Outcome
      <4>2. CASE req' = [req EXCEPT ![r] = [p EXCEPT !.pc = "voted", !.outcome = "recorded"]]
        BY <4>0, <4>2
      <4>3. CASE req' = [req EXCEPT ![r] = [p EXCEPT !.pc = "voted", !.outcome = "duplicate"]]
        BY <4>0, <4>3
      <4>4. CASE req' = [req EXCEPT ![r] = [p EXCEPT !.pc = "voted", !.outcome = "rejected"]]
        BY <4>0, <4>4
      <4> QED BY <4>1, <4>2, <4>3, <4>4
    <3> QED BY <1>8, <3>1, <3>2, <3>3
  <2> DEFINE q == [p EXCEPT !.pc = "voted", !.outcome = o]
  <2>6. q \in Records(minted) /\ q.pc = "voted" /\ q.cookie = p.cookie /\ q.device = p.device /\ q.outcome = o
    BY <1>c, <1>s DEF Records, Outcomes
  <2>7. req' = [req EXCEPT ![r] = q]
    BY <2>5
  <2> HIDE DEF q, p
  <2>8. Sound(r, q, minted)
    BY <1>a, <1>c, <1>8, <2>5, <2>6 DEF Sound, p
  <2> QED BY <1>b, <2>2, <2>3, <2>4, <2>7, <2>8, RequestChanges
<1>9. CASE r \in Votes /\ Count(r)
  <2> DEFINE q == [p EXCEPT !.pc = "counted"]
  <2>1. /\ req' = [req EXCEPT ![r] = q] /\ p.pc = "voted" /\ UNCHANGED <<jar, loaded, minted, marked, scrape, faults>>
        /\ metrics' = [metrics EXCEPT ![p.outcome] = @ + 1]
    BY <1>9 DEF Count
  <2>2. q \in Records(minted) /\ q.pc = "counted" /\ q.cookie = p.cookie /\ q.device = p.device /\ q.outcome = p.outcome
    BY <1>c, <1>s DEF Records
  <2>4. p.outcome \in {"recorded", "duplicate", "rejected"}
    BY <1>c, <2>1 DEF Sound, Records, Outcomes
  <2> HIDE DEF q, p
  <2>3. Sound(r, q, minted)
    BY <1>a, <1>c, <1>9, <2>1, <2>2 DEF Sound, p
  <2>5. metrics' \in Metered
    BY <1>b, <2>1, <2>4 DEF Metered
  <2> QED BY <1>b, <2>1, <2>3, <2>5, RequestChanges
<1>10. CASE r \in Votes /\ Observe(r)
  <2> DEFINE q == [p EXCEPT !.pc = "answered"]
  <2>1. /\ p.pc = "counted" /\ metrics' = [metrics EXCEPT !.http = @ + 1] /\ req' = [req EXCEPT ![r] = q]
        /\ UNCHANGED <<jar, loaded, minted, marked, scrape, faults>>
    BY <1>10 DEF Observe
  <2>2. metrics' \in Metered
    BY <1>b, <2>1 DEF Metered
  <2>a. q \in Records(minted) /\ q.pc = "answered" /\ q.cookie = p.cookie /\ q.device = p.device /\ q.outcome = p.outcome
    BY <1>c, <1>s DEF Records
  <2> HIDE DEF q, p
  <2>3. Sound(r, q, minted)
    BY <1>4, <1>10, <2>1, <2>a
  <2> QED BY <1>b, <2>1, <2>2, <2>3, RequestChanges
<1> HIDE DEF p
<1> QED BY <1>1, <1>2, <1>3, <1>5, <1>6, <1>7, <1>8, <1>9, <1>10

LEMMA IdentityNext == EndpointAssumption /\ IdentityInv /\ [Next]_vars => IdentityInv'
<1> SUFFICES ASSUME EndpointAssumption, IdentityInv, [Next]_vars PROVE IdentityInv'
  OBVIOUS
<1>1. ASSUME UNCHANGED <<jar, loaded, minted, marked, req, metrics, faults>>, scrape' \in Scrapes
      PROVE  IdentityInv'
  BY <1>1, EndpointTypes DEF IdentityInv, EndpointTypeOK, Sound, Records, Scrapes
<1>2. /\ metrics \in Metered /\ scrape \in Scrapes
      /\ metrics.recorded \in Nat /\ metrics.duplicate \in Nat /\ metrics.rejected \in Nat /\ metrics.http \in Nat
  BY EndpointTypes DEF IdentityInv, Metered
<1>a. ASSUME NEW k \in 0..2, NEW x \in Nat, NEW y \in Nat
      PROVE  /\ [scrape EXCEPT !.pc = k, !.http = x, !.rejected = y] \in Scrapes
             /\ [scrape EXCEPT !.pc = k, !.recorded = x] \in Scrapes
             /\ [scrape EXCEPT !.pc = k, !.duplicate = x] \in Scrapes
  BY <1>2 DEF Scrapes
<1>b. 0 \in 0..2 /\ 1 \in 0..2 /\ 2 \in 0..2
  OBVIOUS
<1>3. ASSUME NEW r \in Votes \cup Loads, Send(r) \/ Identify(r) \/ Receive(r) \/ LoseAnswer(r) PROVE IdentityInv'
  BY <1>3, IdentityStep
<1>4. ASSUME NEW l \in Loads, AnswerPage(l) \/ RefusePage(l) PROVE IdentityInv'
  BY <1>4, IdentityStep
<1>5. ASSUME NEW v \in Votes, RejectEarly(v) \/ Vote(v) \/ VoteFault(v) \/ Count(v) \/ Observe(v) PROVE IdentityInv'
  BY <1>5, IdentityStep
<1>6. CASE ScrapeMaps
  <2>1. scrape' \in Scrapes
    <3>1. scrape' = [scrape EXCEPT !.pc = 1, !.http = metrics.http, !.rejected = metrics.rejected]
      BY <1>6 DEF ScrapeMaps
    <3> QED BY <1>a, <1>b, <1>2, <3>1
  <2> QED BY <1>1, <1>6, <2>1 DEF ScrapeMaps
<1>7. CASE ScrapeRecorded
  <2>1. scrape' \in Scrapes
    <3>1. scrape' = [scrape EXCEPT !.pc = 2, !.recorded = metrics.recorded]
      BY <1>7 DEF ScrapeRecorded
    <3> QED BY <1>a, <1>b, <1>2, <3>1
  <2> QED BY <1>1, <1>7, <2>1 DEF ScrapeRecorded
<1>8. CASE ScrapeDuplicates
  <2>1. scrape' \in Scrapes
    <3>1. scrape' = [scrape EXCEPT !.pc = 0, !.duplicate = metrics.duplicate]
      BY <1>8 DEF ScrapeDuplicates
    <3> QED BY <1>a, <1>b, <1>2, <3>1
  <2> QED BY <1>1, <1>8, <2>1 DEF ScrapeDuplicates
<1>9. CASE UNCHANGED vars
  BY <1>1, <1>2, <1>9 DEF vars
<1> QED BY <1>3, <1>4, <1>5, <1>6, <1>7, <1>8, <1>9 DEF Next

-----------------------------------------------------------------------------
(* One tab, which loads the page before it votes.                          *)

LEMMA OneRequestMoves ==
  ASSUME IdentityInv, NEW r \in Votes \cup Loads, NEW q, req' = [req EXCEPT ![r] = q]
  PROVE  req'[r] = q /\ \A s \in Votes \cup Loads : s # r => req'[s] = req[s]
BY DEF IdentityInv, EndpointTypeOK

LEMMA TabInit == Init => TabInv
BY DEF Init, TabInv, InFlight

\* The request in flight moves on with its cookie.
LEMMA TabMoves ==
  ASSUME IdentityInv, TabInv, NEW r \in Votes \cup Loads, NEW q, req' = [req EXCEPT ![r] = q],
         InFlight(r), q.cookie = req[r].cookie, r \in Votes /\ q.pc = "named" => q.device = q.cookie,
         UNCHANGED <<jar, loaded>>, marked' \subseteq {jar}
  PROVE  TabInv'
<1>1. req'[r] = q /\ \A s \in Votes \cup Loads : s # r => req'[s] = req[s]
  BY OneRequestMoves
<1>2. \A s \in Votes \cup Loads : InFlight(s)' => s = r
  BY <1>1 DEF TabInv, InFlight
<1>3. \A s \in Votes \cup Loads : InFlight(s)' => req'[s].cookie = jar'
  BY <1>1, <1>2 DEF TabInv
<1>4. \A v \in Votes : InFlight(v)' => loaded' = TRUE
  BY <1>2 DEF TabInv
<1>5. \A v \in Votes : req'[v].pc = "named" => req'[v].device = req'[v].cookie
  BY <1>1 DEF TabInv
<1> QED BY <1>2, <1>3, <1>4, <1>5 DEF TabInv

LEMMA TabStep ==
  ASSUME EndpointAssumption, Sequential, ~ApiClient, IdentityInv, TabInv, NEW r \in Votes \cup Loads,
         \/ Send(r) \/ Identify(r) \/ Receive(r) \/ LoseAnswer(r)
         \/ r \in Loads /\ (AnswerPage(r) \/ RefusePage(r))
         \/ r \in Votes /\ (RejectEarly(r) \/ Vote(r) \/ VoteFault(r) \/ Count(r) \/ Observe(r))
  PROVE  TabInv'
<1> DEFINE p == req[r]
<1>1. NoCookie \notin Nat /\ Votes \cap Loads = {}
  BY EndpointFacts
<1>2. p \in Records(minted) /\ Sound(r, p, minted) /\ minted \in Nat /\ marked \subseteq 1..minted /\ loaded \in BOOLEAN
  BY RequestRecord
<1>3. InFlight(r) => p.cookie = jar
  BY DEF TabInv
<1>4. r \in Votes /\ InFlight(r) => loaded = TRUE /\ jar # NoCookie /\ (p.pc = "named" => p.device = jar)
  BY DEF TabInv
<1>5. CASE Send(r)
  <2> DEFINE q == [p EXCEPT !.pc = "sent", !.cookie = jar]
  <2>1. req' = [req EXCEPT ![r] = q] /\ UNCHANGED <<jar, loaded, minted, marked>> /\ (r \in Votes => loaded = TRUE)
    <3>1. r \in Votes => loaded
      BY <1>5 DEF Send
    <3>2. r \in Votes => loaded = TRUE
      BY <1>2, <3>1
    <3> QED BY <1>5, <3>2 DEF Send
  <2>2. \A s \in Votes \cup Loads : ~InFlight(s)
    BY <1>5 DEF Send
  <2>3. q.pc = "sent" /\ q.cookie = jar
    BY <1>2 DEF Records
  <2> HIDE DEF p, q
  <2>4. req'[r] = q /\ \A s \in Votes \cup Loads : s # r => req'[s] = req[s]
    BY <2>1, OneRequestMoves
  <2>5. \A s \in Votes \cup Loads : InFlight(s)' => s = r
    BY <2>2, <2>4 DEF InFlight
  <2>6. \A s \in Votes \cup Loads : InFlight(s)' => req'[s].cookie = jar'
    BY <2>1, <2>3, <2>4, <2>5
  <2>7. \A v \in Votes : InFlight(v)' => loaded' = TRUE
    BY <2>1, <2>5
  <2>8. \A v \in Votes : req'[v].pc = "named" => req'[v].device = req'[v].cookie
    BY <2>3, <2>4 DEF TabInv
  <2>9. marked' \subseteq {jar'} /\ (loaded' = TRUE => jar' # NoCookie)
    BY <2>1 DEF TabInv
  <2> QED BY <2>5, <2>6, <2>7, <2>8, <2>9 DEF TabInv
<1>6. CASE Identify(r)
  <2>1. p.pc = "sent" /\ InFlight(r) /\ UNCHANGED <<jar, loaded, marked>>
    BY <1>6 DEF Identify, InFlight
  <2>2. PICK d : /\ req' = [req EXCEPT ![r] = [p EXCEPT !.pc = "named", !.device = d]]
                 /\ p.cookie # NoCookie => d = p.cookie
    BY <1>6 DEF Identify, DeviceID
  <2> DEFINE q == [p EXCEPT !.pc = "named", !.device = d]
  <2>3. req' = [req EXCEPT ![r] = q] /\ q.cookie = p.cookie /\ q.device = d
    BY <1>2, <2>2 DEF Records
  <2> HIDE DEF q
  <2>4. r \in Votes => q.device = q.cookie
    BY <1>3, <1>4, <2>1, <2>2, <2>3
  <2>5. marked' \subseteq {jar}
    BY <2>1 DEF TabInv
  <2> QED BY <2>1, <2>3, <2>4, <2>5, TabMoves
<1>7. CASE Receive(r)
  <2> DEFINE q == [p EXCEPT !.pc = "done"]
  <2>1. /\ req' = [req EXCEPT ![r] = q] /\ p.pc = "answered" /\ InFlight(r) /\ UNCHANGED marked
        /\ jar' = IF p.cookie = NoCookie /\ p.outcome # "rejected" THEN p.device ELSE jar
        /\ (r \in Votes => loaded' = loaded)
    <3>1. r \in Votes => ~(r \in Loads)
      BY <1>1
    <3>2. loaded' = (loaded \/ r \in Loads)
      BY <1>7 DEF Receive
    <3>3. r \in Votes => loaded' = loaded
      BY <1>2, <3>1, <3>2
    <3> QED BY <1>7, <3>3 DEF Receive, InFlight
  <2>2. q.pc = "done"
    BY <1>2 DEF Records
  <2> HIDE DEF q
  <2>3. req'[r] = q /\ \A s \in Votes \cup Loads : s # r => req'[s] = req[s]
    BY <2>1, OneRequestMoves
  <2>4. \A s \in Votes \cup Loads : ~InFlight(s)'
    BY <2>1, <2>2, <2>3 DEF TabInv, InFlight
  <2>5. \A v \in Votes : req'[v].pc # "named"
    BY <2>4 DEF InFlight
  <2>6. p.outcome # "rejected" => p.device \in 1..minted /\ p.device # NoCookie
    BY <1>1, <1>2, <2>1 DEF Sound
  <2>7. loaded' = TRUE => jar' # NoCookie
    <3>1. CASE r \in Votes
      BY <1>3, <1>4, <2>1, <3>1
    <3>2. CASE r \in Loads
      <4>1. p.outcome = "none"
        BY <1>2, <3>2 DEF Sound
      <4> QED BY <1>3, <2>1, <2>6, <4>1
    <3> QED BY <3>1, <3>2
  <2>8. marked' \subseteq {jar'}
    <3>1. CASE jar = NoCookie
      <4>1. marked = {}
        BY <1>1, <1>2, <3>1 DEF TabInv
      <4> QED BY <2>1, <4>1
    <3>2. CASE jar # NoCookie
      BY <1>3, <2>1, <3>2 DEF TabInv
    <3> QED BY <3>1, <3>2
  <2> QED BY <2>4, <2>5, <2>7, <2>8 DEF TabInv
<1>8. CASE \/ LoseAnswer(r)
           \/ r \in Loads /\ (AnswerPage(r) \/ RefusePage(r))
           \/ r \in Votes /\ (RejectEarly(r) \/ Vote(r) \/ VoteFault(r) \/ Count(r) \/ Observe(r))
  <2>1. UNCHANGED <<jar, loaded>> /\ InFlight(r)
    BY <1>8 DEF LoseAnswer, AnswerPage, RefusePage, RejectEarly, Vote, VoteFault, Count, Observe, InFlight
  <2>2. \/ UNCHANGED marked
        \/ r \in Votes /\ p.pc = "named" /\ marked' = marked \cup {p.device}
    BY <1>8 DEF LoseAnswer, AnswerPage, RefusePage, RejectEarly, Vote, VoteFault, Count, Observe
  <2>3. marked' \subseteq {jar}
    BY <1>4, <2>1, <2>2 DEF TabInv
  <2>4. ASSUME NEW q, req' = [req EXCEPT ![r] = q], q.cookie = p.cookie, q.pc # "named" PROVE TabInv'
    BY <2>1, <2>3, <2>4, TabMoves
  <2>5. ASSUME NEW x \in {"answered", "lost", "counted"}, req' = [req EXCEPT ![r].pc = x] PROVE TabInv'
    <3> DEFINE q == [p EXCEPT !.pc = x]
    <3>1. req' = [req EXCEPT ![r] = q] /\ q.cookie = p.cookie /\ q.pc # "named"
      BY <1>2, <2>5 DEF Records
    <3> HIDE DEF q, p
    <3> QED BY <2>4, <3>1
  <2>6. ASSUME NEW x, Outcome(r, x) PROVE TabInv'
    <3> DEFINE q == [p EXCEPT !.pc = "voted", !.outcome = x]
    <3>1. req' = [req EXCEPT ![r] = q] /\ q.cookie = p.cookie /\ q.pc # "named"
      BY <1>2, <2>6 DEF Records, Outcome
    <3> HIDE DEF q, p
    <3> QED BY <2>4, <3>1
  <2>7. CASE LoseAnswer(r) \/ RefusePage(r)
    BY <2>5, <2>7 DEF LoseAnswer, RefusePage
  <2>8. CASE AnswerPage(r) \/ Observe(r)
    BY <2>5, <2>8 DEF AnswerPage, Observe
  <2>9. CASE Count(r)
    BY <2>5, <2>9 DEF Count
  <2>10. CASE RejectEarly(r) \/ Vote(r) \/ VoteFault(r)
    BY <2>6, <2>10 DEF RejectEarly, Vote, VoteFault
  <2> QED BY <1>8, <2>7, <2>8, <2>9, <2>10
<1> QED BY <1>5, <1>6, <1>7, <1>8
\* Marked devices are the jar's, so there is one at most.
LEMMA TabBallot == TabInv => OneBallotPerBrowser
<1> SUFFICES ASSUME TabInv PROVE Cardinality(marked) <= 1
  BY DEF OneBallotPerBrowser
<1>1. marked \subseteq {jar} /\ IsFiniteSet({jar}) /\ Cardinality({jar}) = 1
  BY FS_Singleton DEF TabInv
<1>2. Cardinality(marked) <= Cardinality({jar})
  BY <1>1, FS_Subset
<1> QED BY <1>1, <1>2

LEMMA TabNext ==
  EndpointAssumption /\ Sequential /\ ~ApiClient /\ IdentityInv /\ TabInv /\ [Next]_vars => TabInv'
<1> SUFFICES ASSUME EndpointAssumption, Sequential, ~ApiClient, IdentityInv, TabInv, [Next]_vars PROVE TabInv'
  OBVIOUS
<1>1. CASE UNCHANGED <<jar, loaded, marked, req>>
  BY <1>1 DEF TabInv, InFlight
<1>2. CASE ScrapeMaps \/ ScrapeRecorded \/ ScrapeDuplicates \/ UNCHANGED vars
  BY <1>1, <1>2 DEF ScrapeMaps, ScrapeRecorded, ScrapeDuplicates, vars
<1>3. ASSUME NEW r \in Votes \cup Loads, Send(r) \/ Identify(r) \/ Receive(r) \/ LoseAnswer(r) PROVE TabInv'
  BY <1>3, TabStep
<1>4. ASSUME NEW l \in Loads, AnswerPage(l) \/ RefusePage(l) PROVE TabInv'
  BY <1>4, TabStep
<1>5. ASSUME NEW v \in Votes, RejectEarly(v) \/ Vote(v) \/ VoteFault(v) \/ Count(v) \/ Observe(v) PROVE TabInv'
  BY <1>5, TabStep
<1> QED BY <1>2, <1>3, <1>4, <1>5 DEF Next

-----------------------------------------------------------------------------
(* The counters of /metrics.                                               *)

\* The sets whose sizes count are finite.
LEMMA CountedSets ==
  ASSUME EndpointAssumption, IdentityInv
  PROVE  /\ IsFiniteSet(Uncounted) /\ Cardinality(Uncounted) \in Nat
         /\ IsFiniteSet(Unobserved) /\ Cardinality(Unobserved) \in Nat
         /\ IsFiniteSet(marked) /\ Cardinality(marked) \in Nat
<1>1. IsFiniteSet(Votes) /\ minted \in Nat /\ marked \subseteq 1..minted
  BY EndpointFacts, EndpointTypes DEF IdentityInv
<1>2. IsFiniteSet(1..minted)
  BY <1>1, FS_Interval
<1>3. IsFiniteSet(Uncounted) /\ IsFiniteSet(Unobserved)
  BY <1>1, FS_Subset DEF Uncounted, Unobserved
<1>4. IsFiniteSet(marked)
  BY <1>1, <1>2, FS_Subset
<1> QED BY <1>3, <1>4, FS_CardinalityType

LEMMA CountInit == EndpointAssumption /\ Init => CountInv
<1> SUFFICES ASSUME EndpointAssumption, Init PROVE CountInv
  OBVIOUS
<1>1. Uncounted = {} /\ Unobserved = {} /\ marked = {}
  BY DEF Init, Uncounted, Unobserved
<1>2. Cardinality(Uncounted) = 0 /\ Cardinality(Unobserved) = 0 /\ Cardinality(marked) = 0
  BY <1>1, FS_EmptySet
<1> QED BY <1>2 DEF Init, CountInv

\* Where request r stands after it has moved to q.
LEMMA RequestShifts ==
  ASSUME IdentityInv, NEW r \in Votes \cup Loads, NEW q, req' = [req EXCEPT ![r] = q]
  PROVE  /\ IF r \in Votes /\ q.pc = "voted" /\ q.outcome = "recorded"
              THEN Uncounted' = Uncounted \cup {r} ELSE Uncounted' = Uncounted \ {r}
         /\ IF r \in Votes /\ q.pc = "counted"
              THEN Unobserved' = Unobserved \cup {r} ELSE Unobserved' = Unobserved \ {r}
<1>1. req'[r] = q /\ \A s \in Votes \cup Loads : s # r => req'[s] = req[s]
  BY OneRequestMoves
<1> QED BY <1>1 DEF Uncounted, Unobserved

\* The metrics and the scrape as numbers.
LEMMA MetricNumbers ==
  ASSUME IdentityInv
  PROVE  /\ metrics.recorded \in Nat /\ metrics.duplicate \in Nat /\ metrics.rejected \in Nat /\ metrics.http \in Nat
         /\ scrape.recorded \in Nat /\ scrape.duplicate \in Nat /\ scrape.rejected \in Nat /\ scrape.http \in Nat
         /\ scrape.pc \in 0..2 /\ faults \in Nat
<1>1. metrics \in Metered /\ scrape \in Scrapes /\ faults \in Nat
  BY DEF IdentityInv, EndpointTypeOK, Metered, Scrapes
<1> QED BY <1>1 DEF Metered, Scrapes

Sizes ==
  /\ Cardinality(Uncounted) \in Nat /\ Cardinality(Unobserved) \in Nat /\ Cardinality(marked) \in Nat
  /\ metrics.recorded \in Nat /\ metrics.duplicate \in Nat /\ metrics.rejected \in Nat
  /\ metrics.http \in Nat /\ faults \in Nat

LEMMA CountSizes == EndpointAssumption /\ IdentityInv => Sizes
BY CountedSets, MetricNumbers DEF Sizes

\* Sums that grow together stay in order.
LEMMA OrderStays ==
  ASSUME NEW a \in Nat, NEW b \in Nat, NEW c \in Nat, NEW d \in Nat, a <= b, c - a <= d - b
  PROVE  c <= d
OBVIOUS

\* Requests move, ballots are marked and counters rise: what CountInv needs of
\* the sizes afterwards.
CountersKeepUp ==
  /\ metrics'.recorded >= metrics.recorded /\ metrics'.duplicate >= metrics.duplicate
  /\ metrics'.recorded + Cardinality(Uncounted') - (metrics.recorded + Cardinality(Uncounted))
       <= Cardinality(marked') - Cardinality(marked)
  /\ Cardinality(marked') - Cardinality(marked)
       <= metrics'.recorded + Cardinality(Uncounted') + faults' - (metrics.recorded + Cardinality(Uncounted) + faults)
  /\ metrics'.http + Cardinality(Unobserved') - (metrics.http + Cardinality(Unobserved))
       <= metrics'.recorded + metrics'.duplicate + metrics'.rejected
          - (metrics.recorded + metrics.duplicate + metrics.rejected)

LEMMA CountMoves ==
  ASSUME EndpointAssumption, IdentityInv, IdentityInv', CountInv, UNCHANGED scrape, CountersKeepUp
  PROVE  CountInv'
<1>1. EndpointAssumption /\ IdentityInv => Sizes
  BY CountSizes
<1>2. Sizes /\ Sizes'
  <2>1. (EndpointAssumption /\ IdentityInv => Sizes)'
    BY CountSizes, PTL
  <2> QED BY <1>1, <2>1 DEF EndpointAssumption
<1> USE DEF Sizes, CountersKeepUp
<1>3. metrics'.recorded + Cardinality(Uncounted') <= Cardinality(marked')
  BY <1>2, OrderStays DEF CountInv
<1>4. Cardinality(marked') <= metrics'.recorded + Cardinality(Uncounted') + faults'
  BY <1>2, OrderStays DEF CountInv
<1>5. metrics'.http + Cardinality(Unobserved') <= metrics'.recorded + metrics'.duplicate + metrics'.rejected
  BY <1>2, OrderStays DEF CountInv
<1>6. /\ scrape'.recorded \in Nat /\ scrape'.duplicate \in Nat /\ scrape'.rejected \in Nat /\ scrape'.http \in Nat
  BY MetricNumbers
<1>7. /\ scrape'.pc = 0 => scrape'.http <= scrape'.recorded + scrape'.duplicate + scrape'.rejected
      /\ scrape'.pc = 1 => scrape'.http <= metrics'.recorded + metrics'.duplicate + scrape'.rejected
      /\ scrape'.pc = 2 => scrape'.http <= scrape'.recorded + metrics'.duplicate + scrape'.rejected
  BY <1>2, <1>6 DEF CountInv
<1> QED BY <1>3, <1>4, <1>5, <1>7 DEF CountInv
LEMMA CountStep ==
  ASSUME EndpointAssumption, IdentityInv, IdentityInv', CountInv, NEW r \in Votes \cup Loads,
         \/ Send(r) \/ Identify(r) \/ Receive(r) \/ LoseAnswer(r)
         \/ r \in Loads /\ (AnswerPage(r) \/ RefusePage(r))
         \/ r \in Votes /\ (RejectEarly(r) \/ Vote(r) \/ VoteFault(r) \/ Count(r) \/ Observe(r))
  PROVE  CountInv'
<1> DEFINE p == req[r]
<1>1. p \in Records(minted) /\ Sound(r, p, minted)
  BY RequestRecord
<1>2. Sizes /\ Sizes'
  <2>1. (EndpointAssumption /\ IdentityInv => Sizes)'
    BY CountSizes, PTL
  <2> QED BY CountSizes, <2>1 DEF EndpointAssumption
<1>3. IsFiniteSet(Uncounted) /\ IsFiniteSet(Unobserved) /\ IsFiniteSet(marked)
  BY CountedSets
\* A request that is not counted, moving before or after its vote takes effect.
<1>4. ASSUME NEW q, req' = [req EXCEPT ![r] = q], UNCHANGED <<metrics, scrape>>,
             p.pc \notin {"voted", "counted"}, q.pc # "counted", ~(q.pc = "voted" /\ q.outcome = "recorded"),
             Cardinality(marked) <= Cardinality(marked'),
             Cardinality(marked') - Cardinality(marked) <= faults' - faults
      PROVE  CountInv'
  <2> HIDE DEF p
  <2>1. Uncounted' = Uncounted \ {r} /\ Unobserved' = Unobserved \ {r}
    BY <1>4, RequestShifts
  <2>2. r \notin Uncounted /\ r \notin Unobserved
    BY <1>4 DEF Uncounted, Unobserved, p
  <2>3. Uncounted' = Uncounted /\ Unobserved' = Unobserved
    BY <2>1, <2>2
  <2>4. CountersKeepUp
    BY <1>2, <1>4, <2>3 DEF Sizes, CountersKeepUp
  <2> QED BY <1>4, <2>4, CountMoves
<1>5. CASE Send(r) \/ Identify(r) \/ Receive(r) \/ LoseAnswer(r) \/ (r \in Loads /\ (AnswerPage(r) \/ RefusePage(r)))
  <2>1. UNCHANGED <<marked, metrics, scrape>> /\ p.pc \notin {"voted", "counted"}
    BY <1>5 DEF Send, Identify, Receive, LoseAnswer, AnswerPage, RefusePage
  <2>2. faults' = faults \/ faults' = faults + 1
    BY <1>5 DEF Send, Identify, Receive, LoseAnswer, AnswerPage, RefusePage, Fault
  <2>3. Cardinality(marked) <= Cardinality(marked') /\ Cardinality(marked') - Cardinality(marked) <= faults' - faults
    BY <1>2, <2>1, <2>2 DEF Sizes
  <2>4. ASSUME NEW q, req' = [req EXCEPT ![r] = q], q.pc \notin {"voted", "counted"} PROVE CountInv'
    <3> HIDE DEF p
    <3> QED BY <1>4, <2>1, <2>3, <2>4
  <2>5. ASSUME NEW x \in {"answered", "done", "lost"}, req' = [req EXCEPT ![r].pc = x] PROVE CountInv'
    <3> DEFINE q == [p EXCEPT !.pc = x]
    <3>1. req' = [req EXCEPT ![r] = q] /\ q.pc \notin {"voted", "counted"}
      BY <1>1, <2>5 DEF Records
    <3> HIDE DEF q
    <3> QED BY <2>4, <3>1
  <2>6. CASE Send(r)
    <3> DEFINE q == [p EXCEPT !.pc = "sent", !.cookie = jar]
    <3>1. req' = [req EXCEPT ![r] = q] /\ q.pc \notin {"voted", "counted"}
      BY <1>1, <2>6 DEF Records, Send
    <3> HIDE DEF q
    <3> QED BY <2>4, <3>1
  <2>7. CASE Identify(r)
    <3>1. PICK d : req' = [req EXCEPT ![r] = [p EXCEPT !.pc = "named", !.device = d]]
      BY <2>7 DEF Identify, DeviceID
    <3> DEFINE q == [p EXCEPT !.pc = "named", !.device = d]
    <3>2. req' = [req EXCEPT ![r] = q] /\ q.pc \notin {"voted", "counted"}
      BY <1>1, <3>1 DEF Records
    <3> HIDE DEF q
    <3> QED BY <2>4, <3>2
  <2>8. CASE Receive(r) \/ LoseAnswer(r)
    BY <2>5, <2>8 DEF Receive, LoseAnswer
  <2>9. CASE AnswerPage(r) \/ RefusePage(r)
    BY <2>5, <2>9 DEF AnswerPage, RefusePage
  <2> QED BY <1>5, <2>6, <2>7, <2>8, <2>9
<1>6. ASSUME NEW x \in {"duplicate", "rejected"}, Outcome(r, x), UNCHANGED <<metrics, scrape>>,
             p.pc \notin {"voted", "counted"}, Cardinality(marked) <= Cardinality(marked'),
             Cardinality(marked') - Cardinality(marked) <= faults' - faults
      PROVE  CountInv'
  <2> DEFINE q == [p EXCEPT !.pc = "voted", !.outcome = x]
  <2>1. req' = [req EXCEPT ![r] = q] /\ q.pc = "voted" /\ q.outcome = x
    BY <1>1, <1>6 DEF Records, Outcome
  <2> HIDE DEF p, q
  <2> QED BY <1>4, <1>6, <2>1
<1>7. CASE r \in Votes /\ RejectEarly(r)
  <2>1. Outcome(r, "rejected") /\ p.pc = "sent" /\ UNCHANGED <<marked, metrics, scrape, faults>>
    BY <1>7 DEF RejectEarly
  <2>2. Cardinality(marked) <= Cardinality(marked') /\ Cardinality(marked') - Cardinality(marked) <= faults' - faults
    BY <1>2, <2>1 DEF Sizes
  <2> HIDE DEF p
  <2> QED BY <1>6, <2>1, <2>2
<1>8. CASE r \in Votes /\ VoteFault(r)
  <2>1. p.pc = "named" /\ UNCHANGED <<metrics, scrape>> /\ faults' = faults + 1 /\ marked' = marked \cup {p.device}
    BY <1>8 DEF VoteFault, Fault
  <2>a. Outcome(r, "duplicate") \/ Outcome(r, "rejected")
    BY <1>8 DEF VoteFault
  <2> HIDE DEF p
  <2>2. Cardinality(marked') = Cardinality(marked) \/ Cardinality(marked') = Cardinality(marked) + 1
    BY <1>3, <2>1, FS_AddElement
  <2>3. Cardinality(marked) <= Cardinality(marked') /\ Cardinality(marked') - Cardinality(marked) <= faults' - faults
    BY <1>2, <2>1, <2>2 DEF Sizes
  <2> QED BY <1>6, <2>1, <2>a, <2>3
<1>9. CASE r \in Votes /\ Vote(r)
  <2>1. p.pc = "named" /\ UNCHANGED <<metrics, scrape, faults>>
    BY <1>9 DEF Vote
  <2>2. CASE UNCHANGED marked /\ (Outcome(r, "duplicate") \/ Outcome(r, "rejected"))
    <3>1. Cardinality(marked) <= Cardinality(marked') /\ Cardinality(marked') - Cardinality(marked) <= faults' - faults
      BY <1>2, <2>1, <2>2 DEF Sizes
    <3> HIDE DEF p
    <3> QED BY <1>6, <2>1, <2>2, <3>1
  <2>3. CASE p.device \notin marked /\ marked' = marked \cup {p.device} /\ Outcome(r, "recorded")
    <3> DEFINE q == [p EXCEPT !.pc = "voted", !.outcome = "recorded"]
    <3>1. req' = [req EXCEPT ![r] = q] /\ q.pc = "voted" /\ q.outcome = "recorded"
      BY <1>1, <2>3 DEF Records, Outcome
    <3> HIDE DEF p, q
    <3>2. Uncounted' = Uncounted \cup {r} /\ Unobserved' = Unobserved \ {r}
      BY <1>9, <3>1, RequestShifts
    <3>3. r \notin Uncounted /\ r \notin Unobserved
      BY <2>1 DEF Uncounted, Unobserved, p
    <3>4. /\ Cardinality(Uncounted') = Cardinality(Uncounted) + 1 /\ Unobserved' = Unobserved
          /\ Cardinality(marked') = Cardinality(marked) + 1
      BY <1>3, <2>3, <3>2, <3>3, FS_AddElement
    <3>5. CountersKeepUp
      BY <1>2, <2>1, <3>4 DEF Sizes, CountersKeepUp
    <3> QED BY <2>1, <3>5, CountMoves
  <2> QED BY <1>9, <2>2, <2>3 DEF Vote
<1>10. CASE r \in Votes /\ Count(r)
  <2> DEFINE q == [p EXCEPT !.pc = "counted"]
  <2>1. /\ req' = [req EXCEPT ![r] = q] /\ q.pc = "counted" /\ p.pc = "voted" /\ UNCHANGED <<marked, faults, scrape>>
        /\ metrics' = [metrics EXCEPT ![p.outcome] = @ + 1]
    BY <1>1, <1>10 DEF Count, Records
  <2> HIDE DEF p, q
  <2>2. p.outcome \in {"recorded", "duplicate", "rejected"}
    BY <1>1, <2>1 DEF Sound, Records, Outcomes
  <2>3. Uncounted' = Uncounted \ {r} /\ Unobserved' = Unobserved \cup {r} /\ r \notin Unobserved
    BY <1>10, <2>1, RequestShifts DEF Unobserved, p
  <2>4. Cardinality(Unobserved') = Cardinality(Unobserved) + 1
    BY <1>3, <2>3, FS_AddElement
  <2>5. r \in Uncounted <=> p.outcome = "recorded"
    BY <1>10, <2>1 DEF Uncounted, p
  <2>6. Cardinality(Uncounted') = IF p.outcome = "recorded" THEN Cardinality(Uncounted) - 1 ELSE Cardinality(Uncounted)
    BY <1>3, <2>3, <2>5, FS_RemoveElement
  <2>7. /\ metrics'.http = metrics.http
        /\ metrics'.recorded = IF p.outcome = "recorded" THEN metrics.recorded + 1 ELSE metrics.recorded
        /\ metrics'.duplicate = IF p.outcome = "duplicate" THEN metrics.duplicate + 1 ELSE metrics.duplicate
        /\ metrics'.rejected = IF p.outcome = "rejected" THEN metrics.rejected + 1 ELSE metrics.rejected
    <3>1. metrics \in Metered
      BY EndpointTypes DEF IdentityInv
    <3> QED BY <2>1, <2>2, <3>1 DEF Metered
  <2>8. CountersKeepUp
    BY <1>2, <2>1, <2>2, <2>4, <2>6, <2>7 DEF Sizes, CountersKeepUp
  <2> QED BY <2>1, <2>8, CountMoves
<1>11. CASE r \in Votes /\ Observe(r)
  <2> DEFINE q == [p EXCEPT !.pc = "answered"]
  <2>1. /\ req' = [req EXCEPT ![r] = q] /\ q.pc = "answered" /\ p.pc = "counted" /\ UNCHANGED <<marked, faults, scrape>>
        /\ metrics' = [metrics EXCEPT !.http = @ + 1]
    BY <1>1, <1>11 DEF Observe, Records
  <2> HIDE DEF p, q
  <2>2. Uncounted' = Uncounted \ {r} /\ Unobserved' = Unobserved \ {r} /\ r \notin Uncounted /\ r \in Unobserved
    BY <1>11, <2>1, RequestShifts DEF Uncounted, Unobserved, p
  <2>3. Cardinality(Unobserved') = Cardinality(Unobserved) - 1 /\ Uncounted' = Uncounted
    BY <1>3, <2>2, FS_RemoveElement
  <2>4. /\ metrics'.http = metrics.http + 1 /\ metrics'.recorded = metrics.recorded
        /\ metrics'.duplicate = metrics.duplicate /\ metrics'.rejected = metrics.rejected
    <3>1. metrics \in Metered
      BY EndpointTypes DEF IdentityInv
    <3> QED BY <2>1, <3>1 DEF Metered
  <2>5. CountersKeepUp
    BY <1>2, <2>1, <2>3, <2>4 DEF Sizes, CountersKeepUp
  <2> QED BY <2>1, <2>5, CountMoves
<1> HIDE DEF p
<1> QED BY <1>5, <1>7, <1>8, <1>9, <1>10, <1>11
LEMMA CountNext == EndpointAssumption /\ IdentityInv /\ IdentityInv' /\ CountInv /\ [Next]_vars => CountInv'
<1> SUFFICES ASSUME EndpointAssumption, IdentityInv, IdentityInv', CountInv, [Next]_vars PROVE CountInv'
  OBVIOUS
<1>1. ASSUME NEW r \in Votes \cup Loads, Send(r) \/ Identify(r) \/ Receive(r) \/ LoseAnswer(r) PROVE CountInv'
  BY <1>1, CountStep
<1>2. ASSUME NEW l \in Loads, AnswerPage(l) \/ RefusePage(l) PROVE CountInv'
  BY <1>2, CountStep
<1>3. ASSUME NEW v \in Votes, RejectEarly(v) \/ Vote(v) \/ VoteFault(v) \/ Count(v) \/ Observe(v) PROVE CountInv'
  BY <1>3, CountStep
<1>4. metrics \in Metered /\ scrape \in Scrapes
  BY EndpointTypes DEF IdentityInv
<1>5. UNCHANGED req => UNCHANGED <<Uncounted, Unobserved>>
  BY DEF Uncounted, Unobserved
<1>6. CASE ScrapeMaps
  <2>1. /\ UNCHANGED <<marked, req, metrics, faults>> /\ scrape.pc = 0
        /\ scrape'.pc = 1 /\ scrape'.http = metrics.http /\ scrape'.rejected = metrics.rejected
    BY <1>4, <1>6 DEF ScrapeMaps, Scrapes
  <2>2. metrics.http <= metrics.recorded + metrics.duplicate + metrics.rejected
    BY CountSizes DEF CountInv, Sizes
  <2> QED BY <1>5, <2>1, <2>2 DEF CountInv
<1>7. CASE ScrapeRecorded
  <2>1. /\ UNCHANGED <<marked, req, metrics, faults>> /\ scrape.pc = 1
        /\ scrape'.pc = 2 /\ scrape'.recorded = metrics.recorded
        /\ scrape'.http = scrape.http /\ scrape'.rejected = scrape.rejected
    BY <1>4, <1>7 DEF ScrapeRecorded, Scrapes
  <2> QED BY <1>5, <2>1 DEF CountInv
<1>8. CASE ScrapeDuplicates
  <2>1. /\ UNCHANGED <<marked, req, metrics, faults>> /\ scrape.pc = 2
        /\ scrape'.pc = 0 /\ scrape'.duplicate = metrics.duplicate
        /\ scrape'.http = scrape.http /\ scrape'.rejected = scrape.rejected /\ scrape'.recorded = scrape.recorded
    BY <1>4, <1>8 DEF ScrapeDuplicates, Scrapes
  <2> QED BY <1>5, <2>1 DEF CountInv
<1>9. CASE UNCHANGED vars
  BY <1>5, <1>9 DEF CountInv, vars
<1> QED BY <1>1, <1>2, <1>3, <1>6, <1>7, <1>8, <1>9 DEF Next

LEMMA CountsAddUp == EndpointAssumption /\ IdentityInv /\ CountInv => MetricsAddUp
<1> SUFFICES ASSUME EndpointAssumption, IdentityInv, CountInv PROVE MetricsAddUp
  OBVIOUS
<1>1. Sizes
  BY CountSizes
<1>2. RecordedIsCounted
  <2>1. Uncounted = {v \in Votes : req[v].pc = "voted" /\ req[v].outcome = "recorded"}
    BY DEF Uncounted
  <2>2. metrics.recorded <= Cardinality(marked) /\ Cardinality(marked) <= metrics.recorded + Cardinality(Uncounted) + faults
    BY <1>1 DEF Sizes, CountInv
  <2> QED BY <2>1, <2>2 DEF RecordedIsCounted
<1> QED BY <1>2 DEF MetricsAddUp, ScrapeCoversAnswers, CountInv
=============================================================================
