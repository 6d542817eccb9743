----------------------------- MODULE RateLimit -----------------------------
(***************************************************************************)
(* The limit on vote requests per network (Store.AllowRate and its script, *)
(* identity.NetworkHash): a counter in Redis per network and minute, where *)
(* the minute comes from the clock of the API server that asks and the key *)
(* expires by the clock of Redis.  Time runs in ticks of Redis.            *)
(***************************************************************************)
EXTENDS Integers, Sequences, FiniteSets

CONSTANTS
  Replicas,
  Requests,     \* what a request may come with: [remote, forwarded]
  NetworkOf,    \* the /24 or /56 network of an address, or the one of all that do not parse
  Trusted,      \* addresses in TRUSTED_PROXIES
  NoHeader,     \* no X-Forwarded-For
  Limit,        \* RATE_LIMIT_PER_MINUTE
  Window,       \* ticks of a window, 60 seconds
  KeyTTL,       \* ticks a key lives, 65 seconds
  Offsets,      \* by how much the clock of a replica may be ahead of Redis
  MaxClock,     \* bound on the clock
  MaxRequests   \* bound on requests

RateAssumption ==
  /\ Limit \in Nat \ {0} /\ Window \in Nat \ {0} /\ KeyTTL \in Nat \ {0}
  /\ Offsets \subseteq Nat /\ MaxClock \in Nat /\ MaxRequests \in Nat
  /\ \A q \in Requests : q.remote \in DOMAIN NetworkOf /\ q.forwarded \in DOMAIN NetworkOf \cup {NoHeader}

VARIABLES
  clock,
  offset,  \* of each replica's clock
  keys,    \* Redis: count and expiry of each counter; expired ones are gone
  log      \* history: the requests in order, where and when they were counted

vars == <<clock, offset, keys, log>>

Networks == {NetworkOf[a] : a \in DOMAIN NetworkOf}

Outcomes == {"allowed", "refused", "lost"}

RateTypeOK ==
  /\ clock \in 0..MaxClock /\ offset \in [Replicas -> Offsets]
  /\ DOMAIN keys \subseteq Networks \X Nat
  /\ \A k \in DOMAIN keys : keys[k].n \in 1..MaxRequests /\ keys[k].until > clock
  /\ \A i \in 1..Len(log) :
       log[i] \in [req: Requests, at: 0..MaxClock, window: Nat, outcome: Outcomes]

Init ==
  /\ clock = 0 /\ offset \in [Replicas -> Offsets]
  /\ keys = [k \in {} |-> 0] /\ log = <<>>

-----------------------------------------------------------------------------
\* Mutant: the header counts whoever sent it.
NetworkForwarded(q) == NetworkOf[IF q.forwarded # NoHeader THEN q.forwarded ELSE q.remote]

\* NetworkHash: a trusted proxy's first X-Forwarded-For entry, else the peer.
Network(q) ==
  NetworkOf[IF q.remote \in Trusted /\ q.forwarded # NoHeader THEN q.forwarded ELSE q.remote]

WindowAt(r) == (clock + offset[r]) \div Window

\* INCR, and EXPIRE by the first one, in one script.
Incr(k) ==
  [x \in DOMAIN keys \cup {k} |->
     IF x # k THEN keys[x]
     ELSE IF k \in DOMAIN keys THEN [keys[k] EXCEPT !.n = @ + 1]
     ELSE [n |-> 1, until |-> clock + KeyTTL]]

Entry(r, q, outcome) == [req |-> q, at |-> clock, window |-> WindowAt(r), outcome |-> outcome]

Allow(n) == n <= Limit

\* A request that is over the limit is counted as well.
AllowRate(r, q) ==
  LET k == <<Network(q), WindowAt(r)>> IN
  /\ Len(log) < MaxRequests
  /\ keys' = Incr(k)
  /\ log' = Append(log, Entry(r, q, IF Allow(keys'[k].n) THEN "allowed" ELSE "refused"))
  /\ UNCHANGED <<clock, offset>>

\* The script ran and its answer is lost: the voter gets an error, and the
\* client library or the voter may ask again.
AnswerLost(r, q) ==
  /\ Len(log) < MaxRequests
  /\ keys' = Incr(<<Network(q), WindowAt(r)>>)
  /\ log' = Append(log, Entry(r, q, "lost"))
  /\ UNCHANGED <<clock, offset>>

Tick ==
  /\ clock < MaxClock
  /\ clock' = clock + 1
  /\ keys' = [k \in {x \in DOMAIN keys : keys[x].until > clock + 1} |-> keys[k]]
  /\ UNCHANGED <<offset, log>>

Next ==
  \/ Tick
  \/ \E r \in Replicas, q \in Requests : AllowRate(r, q) \/ AnswerLost(r, q)

Spec == Init /\ [][Next]_vars

-----------------------------------------------------------------------------
Number(Test(_)) == Cardinality({i \in 1..Len(log) : Test(log[i])})

\* Who a request is from, said without NetworkHash: clients behind a trusted
\* proxy are told apart, clients without one cannot choose who they are.
From(q, n) ==
  \/ q.remote \notin Trusted /\ NetworkOf[q.remote] = n
  \/ q.remote \in Trusted /\ q.forwarded # NoHeader /\ NetworkOf[q.forwarded] = n
  \/ q.remote \in Trusted /\ q.forwarded = NoHeader /\ NetworkOf[q.remote] = n

\* Within one window the replicas together let Limit requests of a network
\* through, also when their clocks differ by up to KeyTTL - Window: no key of
\* a window expires while some replica still counts in it.
WindowLimit ==
  \A n \in Networks, i \in 1..Len(log) :
    Number(LAMBDA e : From(e.req, n) /\ e.window = log[i].window /\ e.outcome = "allowed") <= Limit

\* In any Window ticks at most twice the limit goes through, because they
\* meet two windows, and three times when clocks differ by more than a tick,
\* so that the window before and the one after are open at some replica.
MinuteLimit ==
  LET apart == \E r, s \in Replicas : offset[r] - offset[s] > 1
  IN  \A n \in Networks, i \in 1..Len(log) :
        Number(LAMBDA e : From(e.req, n) /\ e.outcome = "allowed"
                          /\ e.at \in log[i].at..log[i].at + Window - 1) <= (IF apart THEN 3 ELSE 2) * Limit

\* A network is refused only after Limit of its own requests were counted in
\* that window; lost answers count.
RefusedAtLimit ==
  \A i \in 1..Len(log) : log[i].outcome = "refused" =>
    \E n \in Networks :
      /\ From(log[i].req, n)
      /\ Cardinality({j \in 1..i - 1 : From(log[j].req, n) /\ log[j].window = log[i].window}) >= Limit

\* What a voter and an operator may rely on: no network gets more through
\* than that, and none is refused for what others sent.
LimitHolds == WindowLimit /\ MinuteLimit /\ RefusedAtLimit
=============================================================================
