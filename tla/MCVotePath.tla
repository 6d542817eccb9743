---------------------------- MODULE MCVotePath -----------------------------
(***************************************************************************)
(* For TLC, the parts that a vote request meets on its way: the poll cache, *)
(* the browser and the handlers, the rate limiter, the sum of the counters. *)
(* They share no state; the first state picks the part whose behaviour is   *)
(* explored, the others stay as they start.                                 *)
(***************************************************************************)
EXTENDS Integers, Sequences, FiniteSets

CONSTANTS
  Getters, Putters, Closers, TTL, Patience, MaxLookupClock, NoOwner,  \* PollCache
  TabVotes, TabLoads, TabFaults, ClientVotes, ClientFaults, NoCookie, \* VoteEndpoint
  Replicas, RateRequests, NetworkOf, Trusted, NoHeader,
  Limit, Window, KeyTTL, Offsets, MaxNow, MaxRequests,                \* RateLimit
  Fields, Foreign, Buckets, Counters, MaxInt                          \* CounterSum

VARIABLES
  part,
  clock, status, lastActive, loads, current, entries, lookups,
  jar, loaded, minted, marked, req, metrics, scrape, faults,
  now, offset, keys, log,
  read, left, total, outcome

cacheVars == <<clock, status, lastActive, loads, current, entries, lookups>>
endpointVars == <<jar, loaded, minted, marked, req, metrics, scrape, faults>>
rateVars == <<now, offset, keys, log>>
sumVars == <<read, left, total, outcome>>

vars == <<part, cacheVars, endpointVars, rateVars, sumVars>>

Cache == INSTANCE PollCache WITH
  req <- lookups, MaxClock <- MaxLookupClock

\* One tab that loads the page and then votes; clients that vote at once.
Tab == INSTANCE VoteEndpoint WITH
  Votes <- TabVotes, Loads <- TabLoads, Sequential <- TRUE, ApiClient <- FALSE, MaxFaults <- TabFaults
Clients == INSTANCE VoteEndpoint WITH
  Votes <- ClientVotes, Loads <- {}, Sequential <- FALSE, ApiClient <- TRUE, MaxFaults <- ClientFaults

\* A client that may send the header itself, and a proxy that forwards for
\* another one; each address has a network of its own.
From(remote, forwarded) == [remote |-> remote, forwarded |-> forwarded]
MCRequests == {From("client", NoHeader), From("client", "other"), From("proxy", "other")}
MCNetworkOf == [a \in {"client", "proxy", "other"} |-> a]

Rate == INSTANCE RateLimit WITH clock <- now, MaxClock <- MaxNow, Requests <- RateRequests

\* A field holds a counter or something that is none.
Sum == INSTANCE CounterSum WITH Values <- Counters \cup {-1}

ASSUME PartsAssumption ==
  /\ Cache!CacheAssumption /\ Tab!EndpointAssumption /\ Clients!EndpointAssumption
  /\ Rate!RateAssumption /\ Sum!SumAssumption

-----------------------------------------------------------------------------
Init ==
  /\ part \in {"cache", "tab", "clients", "rate", "sum"}
  /\ Cache!Init
  /\ IF part = "clients" THEN Clients!Init ELSE Tab!Init
  /\ Rate!Init /\ (part = "rate" \/ offset = [r \in Replicas |-> 0])
  /\ Sum!Init /\ (part = "sum" \/ left = {})

NextCache == part = "cache" /\ Cache!Next /\ UNCHANGED <<part, endpointVars, rateVars, sumVars>>
NextTab == part = "tab" /\ Tab!Next /\ UNCHANGED <<part, cacheVars, rateVars, sumVars>>
NextClients == part = "clients" /\ Clients!Next /\ UNCHANGED <<part, cacheVars, rateVars, sumVars>>
NextRate == part = "rate" /\ Rate!Next /\ UNCHANGED <<part, cacheVars, endpointVars, sumVars>>
NextSum == part = "sum" /\ Sum!Next /\ UNCHANGED <<part, cacheVars, endpointVars, rateVars>>

Next == NextCache \/ NextTab \/ NextClients \/ NextRate \/ NextSum

Spec == Init /\ [][Next]_vars /\ Cache!Fairness

-----------------------------------------------------------------------------
\* Every part's variables are well typed.
VotePathTypeOK ==
  /\ Cache!CacheTypeOK /\ Rate!RateTypeOK /\ Sum!SumTypeOK
  /\ IF part = "clients" THEN Clients!EndpointTypeOK ELSE Tab!EndpointTypeOK

\* PollCache: one loader at a time, and waiters use what it loaded.
LoadsAreCoalesced == Cache!LoadsAreCoalesced

\* PollCache: after a close, only an overlapping publish brings the poll back.
ClosedIsForgotten == Cache!ClosedIsForgotten

\* PollCache: votes are let through on a definition of bounded age.
StalenessIsBounded == Cache!StalenessIsBounded

\* PollCache implements the atomic cache of PollService.
IsAtomicCache == Cache!IsAtomicCache

\* PollCache: every vote gets past the entry's mutex.
EveryGetReturns == Cache!EveryGetReturns

\* VoteEndpoint: the votes of one tab are one ballot.
OneBallotPerBrowser == part = "tab" => Tab!OneBallotPerBrowser

\* VoteEndpoint: the counters of /metrics cover ballots and answers.
MetricsAddUp == part = "clients" => Clients!MetricsAddUp

\* RateLimit: Limit a window, two or three times that in any minute, nobody refused for others.
LimitHolds == Rate!LimitHolds

\* CounterSum: totals are exact sums, and only errors that are deserved.
SumIsExact == Sum!SumIsExact
=============================================================================
