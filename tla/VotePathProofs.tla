--------------------------- MODULE VotePathProofs ---------------------------
(***************************************************************************)
(* For any requests and any bounds, the parts that a vote meets on its     *)
(* way: the cache implements one remembered status, whose staleness is     *)
(* bounded; the rate limit holds while the clocks of the replicas stay     *)
(* within a window of each other; a browser's votes are one ballot and the *)
(* metrics add up, by VoteEndpointProofs; the sum over the buckets is      *)
(* exact or an error.                                                      *)
(***************************************************************************)
EXTENDS MCVotePath, FiniteSetTheorems, TLAPS

-----------------------------------------------------------------------------
(* The poll cache.                                                         *)

\* An entry is locked by the getter that loads it, and what it holds was true
\* not long before it was stored; a locked entry is not fresh.
SoundEntry(e) ==
  /\ entries[e].owner # NoOwner =>
       /\ entries[e].owner \in Getters /\ lookups[entries[e].owner].entry = e
       /\ lookups[entries[e].owner].pc \in {"load", "fill"}
       /\ ~Cache!Fresh(e)
  /\ entries[e].loaded = TRUE => entries[e].expires <= clock + TTL
  /\ entries[e].loaded = TRUE /\ entries[e].poll = "active" => entries[e].expires <= lastActive + TTL + Patience

\* A request that has read the poll has read it lately.
ReadLately(q) == clock <= q.seenAt + Patience /\ (q.seen = "active" => q.seenAt <= lastActive)

SoundGetter(g) ==
  LET q == lookups[g] IN
  /\ q.pc \in {"idle", "lock", "load", "fill", "active", "refused", "failed"}
  /\ q.pc \in {"lock", "load", "fill"} => q.entry \in 1..Len(entries)
  /\ q.pc \in {"load", "fill"} => entries[q.entry].owner = g
  /\ q.pc = "fill" => q.seen = "active" /\ q.seenAt <= clock /\ ReadLately(q)

SoundPutter(p) ==
  LET q == lookups[p] IN
  /\ q.pc \in {"idle", "load", "find", "lock", "done", "failed"}
  /\ q.pc = "lock" => q.entry \in 1..Len(entries)
  /\ q.pc \in {"find", "lock"} => ReadLately(q)

\* A publish that read the poll as active has stored it into the entry.
Restored == \E p \in Putters : lookups[p].pc = "done" /\ lookups[p].seen = "active" /\ lookups[p].entry = current

\* Nobody is about to fill the entry, and only a publish has filled it.
Emptied ==
  /\ \A g \in Getters : ~(lookups[g].entry = current /\ lookups[g].pc = "fill")
  /\ entries[current].loaded = TRUE /\ entries[current].poll = "active" => Restored

\* What the map holds since a close deleted the entry was put there later,
\* when the poll could no longer be loaded.
SoundCloser(c) ==
  /\ lookups[c].pc \in {"idle", "delete", "done", "failed"}
  /\ lookups[c].pc \in {"delete", "done"} => status = "closed"
  /\ lookups[c].pc = "done" /\ current # 0 => Emptied

\* The history's idea of when the poll was last active.
SoundClock == lastActive <= clock /\ (status = "active" => lastActive = clock)

LookupInv ==
  /\ \A e \in 1..Len(entries) : SoundEntry(e)
  /\ \A g \in Getters : SoundGetter(g)
  /\ \A p \in Putters : SoundPutter(p)
  /\ \A c \in Closers : SoundCloser(c)
  /\ SoundClock

Lookups == [pc: Cache!States, entry: 0..Len(entries), seen: Cache!Statuses, seenAt: Nat]

LEMMA CacheFacts ==
  /\ TTL \in Nat \ {0} /\ Patience \in Nat /\ MaxLookupClock \in Nat
  /\ NoOwner \notin Getters \cup Putters
  /\ Getters \cap Putters = {} /\ Closers \cap Getters = {} /\ Closers \cap Putters = {}
BY PartsAssumption DEF Cache!CacheAssumption

LEMMA CacheInit == Cache!Init => Cache!CacheTypeOK /\ LookupInv
<1> SUFFICES ASSUME Cache!Init PROVE Cache!CacheTypeOK /\ LookupInv
  OBVIOUS
<1>1. Cache!CacheTypeOK
  BY CacheFacts DEF Cache!Init, Cache!CacheTypeOK, Cache!Requests, Cache!States, Cache!Statuses
<1>2. LookupInv
  BY CacheFacts DEF Cache!Init, LookupInv, SoundGetter, SoundPutter, SoundCloser, SoundClock, Cache!Requests
<1> QED BY <1>1, <1>2

LEMMA CacheTypeNext ==
  ASSUME Cache!CacheTypeOK, LookupInv, [Cache!Next]_cacheVars
  PROVE  Cache!CacheTypeOK'
<1> USE CacheFacts
<1>t. /\ clock \in 0..MaxLookupClock /\ lastActive \in 0..MaxLookupClock
      /\ status \in Cache!Statuses /\ loads \in Nat
      /\ current \in 0..Len(entries) /\ entries \in Seq(Cache!Entries)
      /\ lookups \in [Cache!Requests -> Lookups]
  BY DEF Cache!CacheTypeOK, Lookups
<1>r. Cache!Requests = Getters \cup Putters \cup Closers
  BY DEF Cache!Requests
<1>s. Cache!Statuses = {"draft", "active", "closed"}
  BY DEF Cache!Statuses
<1>g. ASSUME NEW r \in Cache!Requests, NEW pc \in Cache!States, Cache!Goto(r, pc), Len(entries') = Len(entries)
      PROVE  lookups' \in [Cache!Requests -> Lookups']
  BY <1>g, <1>t DEF Cache!Goto, Lookups
<1>q. ASSUME NEW r \in Cache!Requests, NEW pc \in Cache!States, Len(entries') = Len(entries),
             lookups' = [lookups EXCEPT ![r].pc = pc, ![r].seen = status, ![r].seenAt = clock]
      PROVE  lookups' \in [Cache!Requests -> Lookups']
  <2> DEFINE q == [lookups[r] EXCEPT !.pc = pc, !.seen = status, !.seenAt = clock]
  <2>1. lookups' = [lookups EXCEPT ![r] = q]
    BY <1>q
  <2>2. lookups[r] \in Lookups /\ clock \in Nat
    BY <1>t
  <2>3. q \in Lookups
    BY <2>2, <1>t DEF Lookups
  <2> HIDE DEF q
  <2> QED BY <1>q, <1>t, <2>1, <2>3 DEF Lookups
<1>f. ASSUME NEW r \in Cache!Requests, NEW e \in 0..Len(entries'), Len(entries') \in Nat, Len(entries) <= Len(entries'),
             lookups' = [lookups EXCEPT ![r].pc = "lock", ![r].entry = e]
      PROVE  lookups' \in [Cache!Requests -> Lookups']
  <2> DEFINE q == [lookups[r] EXCEPT !.pc = "lock", !.entry = e]
  <2>1. lookups' = [lookups EXCEPT ![r] = q]
    BY <1>f
  <2>2. q \in [pc: Cache!States, entry: 0..Len(entries'), seen: Cache!Statuses, seenAt: Nat]
    BY <1>f, <1>t DEF Lookups, Cache!States
  <2> HIDE DEF q
  <2>3. Lookups \subseteq [pc: Cache!States, entry: 0..Len(entries'), seen: Cache!Statuses, seenAt: Nat]
    BY <1>f, <1>t DEF Lookups
  <2> QED BY <1>t, <2>1, <2>2, <2>3 DEF Lookups
<1>1. ASSUME NEW r \in Cache!Requests, Cache!FindEntry(r) PROVE Cache!CacheTypeOK'
  <2> DEFINE new == [owner |-> NoOwner, loaded |-> FALSE, poll |-> "draft", expires |-> 0]
  <2>1. new \in Cache!Entries
    BY <1>s DEF Cache!Entries
  <2>2. CASE current # 0
    <3>1. current' = current /\ entries' = entries /\ lookups' = [lookups EXCEPT ![r].pc = "lock", ![r].entry = current]
      BY <1>1, <2>2 DEF Cache!FindEntry
    <3>a. Len(entries') \in Nat /\ Len(entries) <= Len(entries') /\ current \in 0..Len(entries')
      BY <3>1, <1>t
    <3>2. lookups' \in [Cache!Requests -> Lookups']
      BY <3>1, <3>a, <1>f
    <3> QED BY <1>1, <1>t, <3>1, <3>2 DEF Cache!FindEntry, Cache!CacheTypeOK, Lookups
  <2>3. CASE current = 0
    <3>1. /\ current' = Len(entries) + 1 /\ entries' = Append(entries, new)
          /\ lookups' = [lookups EXCEPT ![r].pc = "lock", ![r].entry = Len(entries) + 1]
      BY <1>1, <2>3 DEF Cache!FindEntry
    <3> HIDE DEF new
    <3>2. entries' \in Seq(Cache!Entries) /\ Len(entries') = Len(entries) + 1 /\ Len(entries) \in Nat
      BY <3>1, <2>1, <1>t
    <3>a. Len(entries') \in Nat /\ Len(entries) <= Len(entries') /\ Len(entries) + 1 \in 0..Len(entries')
      BY <3>2
    <3>3. lookups' \in [Cache!Requests -> Lookups']
      BY <3>1, <3>a, <1>f
    <3> QED BY <1>1, <1>t, <3>1, <3>2, <3>3 DEF Cache!FindEntry, Cache!CacheTypeOK, Lookups
  <2> QED BY <2>2, <2>3
<1>2. ASSUME NEW e \in 1..Len(entries) PROVE
         /\ Cache!Unlocked(e) \in Seq(Cache!Entries) /\ Len(Cache!Unlocked(e)) = Len(entries)
         /\ \A g \in Getters : LET E == [entries EXCEPT ![e].owner = g]
                               IN  E \in Seq(Cache!Entries) /\ Len(E) = Len(entries)
  <2>1. entries[e] \in Cache!Entries /\ e \in DOMAIN entries
    BY <1>t
  <2>2. ASSUME NEW o \in Getters \cup {NoOwner}
        PROVE  LET E == [entries EXCEPT ![e].owner = o] IN E \in Seq(Cache!Entries) /\ Len(E) = Len(entries)
    <3> DEFINE x == [entries[e] EXCEPT !.owner = o]
    <3> DEFINE E == [entries EXCEPT ![e].owner = o]
    <3>1. x \in Cache!Entries
      BY <2>1 DEF Cache!Entries
    <3>2. E = [entries EXCEPT ![e] = x]
      OBVIOUS
    <3> HIDE DEF x, E
    <3>3. E \in Seq(Cache!Entries) /\ Len(E) = Len(entries)
      BY <1>t, <3>1, <3>2
    <3> QED BY <3>3 DEF E
  <2> QED BY <2>2 DEF Cache!Unlocked
<1>3. ASSUME NEW r \in Cache!Requests, lookups[r].entry \in 1..Len(entries) PROVE
         Cache!Stored(r) \in Seq(Cache!Entries) /\ Len(Cache!Stored(r)) = Len(entries)
  BY <1>3, <1>t DEF Cache!Stored, Cache!Entries, Lookups
<1>4. ASSUME NEW g \in Getters, Cache!GetStep(g) PROVE Cache!CacheTypeOK'
  <2>1. CASE Cache!GetFind(g)
    BY <2>1, <1>1, <1>r DEF Cache!GetFind
  <2>2. CASE Cache!GetHit(g)
    <3>1. UNCHANGED <<clock, status, lastActive, loads, current, entries>>
      BY <2>2 DEF Cache!GetHit
    <3>2. Cache!Goto(g, "active") \/ Cache!Goto(g, "refused")
      BY <2>2 DEF Cache!GetHit
    <3> QED BY <1>t, <1>r, <1>g, <3>1, <3>2 DEF Cache!CacheTypeOK, Lookups, Cache!States
  <2>3. CASE Cache!GetMiss(g)
    <3>1. lookups[g].entry \in 1..Len(entries)
      BY <2>3 DEF Cache!GetMiss, LookupInv, SoundGetter
    <3>2. entries' \in Seq(Cache!Entries) /\ Len(entries') = Len(entries)
      BY <2>3, <3>1, <1>2 DEF Cache!GetMiss
    <3> QED BY <2>3, <1>t, <1>r, <1>g, <3>2 DEF Cache!GetMiss, Cache!CacheTypeOK, Lookups, Cache!States
  <2>4. CASE Cache!GetLoad(g) \/ Cache!GetLoadFails(g)
    <3>1. lookups[g].entry \in 1..Len(entries)
      BY <2>4 DEF Cache!GetLoad, Cache!GetLoadFails, LookupInv, SoundGetter
    <3>2. entries' \in Seq(Cache!Entries) /\ Len(entries') = Len(entries)
      BY <2>4, <3>1, <1>2, <1>t DEF Cache!GetLoad, Cache!GetLoadFails
    <3>3. lookups' \in [Cache!Requests -> Lookups']
      <4>1. CASE Cache!Goto(g, "refused") \/ Cache!Goto(g, "failed")
        BY <4>1, <1>g, <1>r, <3>2 DEF Cache!States
      <4>2. CASE lookups' = [lookups EXCEPT ![g].pc = "fill", ![g].seen = status, ![g].seenAt = clock]
        BY <4>2, <1>q, <1>r, <3>2 DEF Cache!States
      <4> QED BY <2>4, <4>1, <4>2 DEF Cache!GetLoad, Cache!GetLoadFails
    <3>4. UNCHANGED <<clock, status, lastActive, current>> /\ loads' \in Nat
      BY <2>4, <1>t DEF Cache!GetLoad, Cache!GetLoadFails
    <3> QED BY <1>t, <3>2, <3>3, <3>4 DEF Cache!CacheTypeOK, Lookups
  <2>5. CASE Cache!GetFill(g)
    <3>1. lookups[g].entry \in 1..Len(entries)
      BY <2>5 DEF Cache!GetFill, LookupInv, SoundGetter
    <3>2. entries' \in Seq(Cache!Entries) /\ Len(entries') = Len(entries)
      BY <2>5, <3>1, <1>3, <1>r DEF Cache!GetFill
    <3> QED BY <2>5, <1>t, <1>r, <1>g, <3>2 DEF Cache!GetFill, Cache!CacheTypeOK, Lookups, Cache!States
  <2> QED BY <1>4, <2>1, <2>2, <2>3, <2>4, <2>5 DEF Cache!GetStep
<1>5. ASSUME NEW p \in Putters, Cache!PutStep(p) PROVE Cache!CacheTypeOK'
  <2>1. CASE Cache!PublishCommit(p)
    <3>1. status' \in Cache!Statuses /\ lastActive' \in 0..MaxLookupClock
      BY <2>1, <1>t, <1>s DEF Cache!PublishCommit, Cache!Become
    <3> QED BY <2>1, <3>1, <1>t, <1>r, <1>g DEF Cache!PublishCommit, Cache!CacheTypeOK, Lookups, Cache!States
  <2>2. CASE Cache!PublishRead(p)
    <3>1. lookups' \in [Cache!Requests -> Lookups']
      BY <2>2, <1>q, <1>r DEF Cache!PublishRead, Cache!States
    <3> QED BY <2>2, <3>1, <1>t DEF Cache!PublishRead, Cache!CacheTypeOK, Lookups
  <2>3. CASE Cache!PutFind(p)
    BY <2>3, <1>1, <1>r DEF Cache!PutFind
  <2>4. CASE Cache!PutStore(p)
    <3>1. lookups[p].entry \in 1..Len(entries)
      BY <2>4 DEF Cache!PutStore, LookupInv, SoundPutter
    <3>2. entries' \in Seq(Cache!Entries) /\ Len(entries') = Len(entries)
      BY <2>4, <3>1, <1>3, <1>r DEF Cache!PutStore
    <3> QED BY <2>4, <1>t, <1>r, <1>g, <3>2 DEF Cache!PutStore, Cache!CacheTypeOK, Lookups, Cache!States
  <2>5. CASE Cache!PublishFails(p)
    BY <2>5, <1>t, <1>r, <1>g DEF Cache!PublishFails, Cache!CacheTypeOK, Lookups, Cache!States
  <2> QED BY <1>5, <2>1, <2>2, <2>3, <2>4, <2>5 DEF Cache!PutStep
<1>6. ASSUME NEW c \in Closers, Cache!CloseStep(c) PROVE Cache!CacheTypeOK'
  <2>1. CASE Cache!CloseSave(c)
    <3>1. status' \in Cache!Statuses /\ lastActive' \in 0..MaxLookupClock
      BY <2>1, <1>t, <1>s DEF Cache!CloseSave, Cache!Become
    <3>2. lookups' \in [Cache!Requests -> Lookups']
      BY <2>1, <1>r, <1>g DEF Cache!CloseSave, Cache!States
    <3> QED BY <2>1, <3>1, <3>2, <1>t DEF Cache!CloseSave, Cache!CacheTypeOK, Lookups
  <2>2. CASE Cache!Delete(c)
    BY <2>2, <1>t, <1>r, <1>g DEF Cache!Delete, Cache!CacheTypeOK, Lookups, Cache!States
  <2> QED BY <1>6, <2>1, <2>2 DEF Cache!CloseStep
<1>7. CASE Cache!Elsewhere
  <2>1. status' \in Cache!Statuses /\ lastActive' \in 0..MaxLookupClock
    BY <1>7, <1>t, <1>s DEF Cache!Elsewhere, Cache!Become
  <2> QED BY <1>7, <2>1, <1>t DEF Cache!Elsewhere, Cache!CacheTypeOK
<1>8. CASE Cache!Tick
  BY <1>8, <1>t DEF Cache!Tick, Cache!CacheTypeOK
<1>9. CASE UNCHANGED cacheVars
  BY <1>9 DEF cacheVars, Cache!CacheTypeOK
<1> QED BY <1>4, <1>5, <1>6, <1>7, <1>8, <1>9 DEF Cache!Next

\* Fields of well-typed requests and entries.
LEMMA CacheFields ==
  ASSUME Cache!CacheTypeOK
  PROVE  /\ clock \in Nat /\ lastActive \in Nat /\ loads \in Nat
         /\ status \in {"draft", "active", "closed"}
         /\ Len(entries) \in Nat /\ current \in 0..Len(entries)
         /\ \A e \in 1..Len(entries) :
              /\ entries[e].owner \in Getters \cup Putters \cup {NoOwner}
              /\ entries[e].loaded \in BOOLEAN /\ entries[e].expires \in Nat
         /\ \A r \in Getters \cup Putters \cup Closers :
              lookups[r].entry \in 0..Len(entries) /\ lookups[r].seenAt \in Nat
         /\ DOMAIN lookups = Getters \cup Putters \cup Closers
<1>1. entries \in Seq(Cache!Entries) /\ lookups \in [Cache!Requests -> Lookups]
  BY DEF Cache!CacheTypeOK, Lookups
<1>2. \A e \in 1..Len(entries) : entries[e] \in Cache!Entries
  BY <1>1
<1> QED BY <1>1, <1>2, CacheFacts DEF Cache!CacheTypeOK, Lookups, Cache!Entries, Cache!Requests, Cache!Statuses

\* Finding an entry, or putting an empty one into the map.
LEMMA FindKeeps ==
  ASSUME Cache!CacheTypeOK, LookupInv, NEW r \in Getters \cup Putters, Cache!FindEntry(r),
         r \in Getters => lookups[r].pc = "idle",
         r \in Putters => lookups[r].pc = "find"
  PROVE  LookupInv'
<1> USE CacheFacts, CacheFields
<1>1. UNCHANGED <<clock, status, lastActive, loads>>
  BY DEF Cache!FindEntry
<1>2. /\ Len(entries') \in Nat /\ Len(entries') >= Len(entries) /\ current' \in 1..Len(entries')
      /\ \A e \in 1..Len(entries) : entries'[e] = entries[e]
      /\ \A e \in 1..Len(entries') : e > Len(entries) =>
           e = current' /\ entries'[e].owner = NoOwner /\ entries'[e].loaded = FALSE
      /\ current # 0 => current' = current /\ entries' = entries
      /\ current = 0 => current' = Len(entries) + 1
  <2>1. CASE current # 0
    BY <2>1 DEF Cache!FindEntry
  <2>2. CASE current = 0
    <3> DEFINE new == [owner |-> NoOwner, loaded |-> FALSE, poll |-> "draft", expires |-> 0]
    <3>1. entries' = Append(entries, new) /\ current' = Len(entries) + 1
      BY <2>2 DEF Cache!FindEntry
    <3>2. entries \in Seq(Cache!Entries) /\ new.owner = NoOwner /\ new.loaded = FALSE
      BY DEF Cache!CacheTypeOK
    <3> HIDE DEF new
    <3>3. /\ Len(entries') = Len(entries) + 1 /\ entries'[Len(entries) + 1] = new
          /\ \A e \in 1..Len(entries) : entries'[e] = entries[e]
      BY <3>1, <3>2
    <3> QED BY <3>1, <3>2, <3>3, <2>2
  <2> QED BY <2>1, <2>2
<1>3. /\ \A x \in Getters \cup Putters \cup Closers : x # r => lookups'[x] = lookups[x]
      /\ lookups'[r].pc = "lock" /\ lookups'[r].entry = current'
      /\ lookups'[r].seen = lookups[r].seen /\ lookups'[r].seenAt = lookups[r].seenAt
  BY DEF Cache!FindEntry
<1>4. ASSUME NEW e \in 1..Len(entries') PROVE SoundEntry(e)'
  <2>1. CASE e > Len(entries)
    BY <2>1, <1>2 DEF SoundEntry
  <2>2. CASE e \in 1..Len(entries)
    <3>1. SoundEntry(e) /\ entries'[e] = entries[e]
      BY <2>2, <1>2 DEF LookupInv
    <3>2. ASSUME entries[e].owner # NoOwner PROVE lookups'[entries[e].owner] = lookups[entries[e].owner]
      BY <3>1, <3>2, <1>3 DEF SoundEntry
    <3> QED BY <3>1, <3>2, <1>1 DEF SoundEntry, Cache!Fresh
  <2> QED BY <2>1, <2>2, <1>2
<1>5. ASSUME NEW g \in Getters PROVE SoundGetter(g)'
  <2>1. SoundGetter(g)
    BY DEF LookupInv
  <2>2. CASE g = r
    BY <1>2, <1>3, <2>2 DEF SoundGetter
  <2>3. CASE g # r
    <3>1. lookups'[g] = lookups[g]
      BY <1>3, <2>3
    <3>2. lookups[g].pc \in {"load", "fill"} => entries'[lookups[g].entry] = entries[lookups[g].entry]
      BY <1>2, <2>1 DEF SoundGetter
    <3>3. \A e \in 1..Len(entries) : e \in 1..Len(entries')
      BY <1>2
    <3> QED BY <1>1, <2>1, <3>1, <3>2, <3>3 DEF SoundGetter, ReadLately
  <2> QED BY <2>2, <2>3
<1>6. ASSUME NEW p \in Putters PROVE SoundPutter(p)'
  <2>1. SoundPutter(p)
    BY DEF LookupInv
  <2>2. CASE p = r
    BY <1>1, <1>2, <1>3, <2>1, <2>2 DEF SoundPutter, ReadLately
  <2>3. CASE p # r
    <3>1. lookups'[p] = lookups[p]
      BY <1>3, <2>3
    <3>2. \A e \in 1..Len(entries) : e \in 1..Len(entries')
      BY <1>2
    <3> QED BY <1>1, <2>1, <3>1, <3>2 DEF SoundPutter, ReadLately
  <2> QED BY <2>2, <2>3
<1>7. ASSUME NEW c \in Closers PROVE SoundCloser(c)'
  <2>1. lookups'[c] = lookups[c] /\ SoundCloser(c)
    BY <1>3 DEF LookupInv
  <2>2. ASSUME lookups[c].pc = "done" PROVE Emptied'
    <3>1. CASE current = 0
      <4>1. entries'[current'].loaded = FALSE
        BY <3>1, <1>2
      <4>2. \A g \in Getters : ~(lookups'[g].entry = current' /\ lookups'[g].pc = "fill")
        BY <3>1, <1>2, <1>3 DEF LookupInv, SoundGetter
      <4> QED BY <4>1, <4>2 DEF Emptied
    <3>2. CASE current # 0
      <4>1. Emptied /\ current' = current /\ entries' = entries
        BY <2>1, <2>2, <3>2, <1>2 DEF SoundCloser
      <4>2. Restored => Restored'
        <5>1. \A p \in Putters : lookups[p].pc = "done" => lookups'[p] = lookups[p]
          BY <1>3
        <5> QED BY <4>1, <5>1 DEF Restored
      <4>3. \A g \in Getters : ~(lookups'[g].entry = current /\ lookups'[g].pc = "fill")
        BY <4>1, <1>3 DEF Emptied
      <4> QED BY <4>1, <4>2, <4>3 DEF Emptied
    <3> QED BY <3>1, <3>2
  <2> QED BY <2>1, <2>2, <1>1 DEF SoundCloser
<1>8. SoundClock'
  BY <1>1 DEF LookupInv, SoundClock
<1> QED BY <1>4, <1>5, <1>6, <1>7, <1>8 DEF LookupInv

\* A getter, at the entry it found, whose mutex is free or its own.
LEMMA GetterMoves ==
  ASSUME Cache!CacheTypeOK, LookupInv, NEW g \in Getters, NEW e \in 1..Len(entries),
         UNCHANGED <<clock, status, lastActive, current>>,
         lookups[g].entry = e, entries[e].owner \in {NoOwner, g},
         Len(entries') = Len(entries),
         \A x \in 1..Len(entries) : x # e => entries'[x] = entries[x],
         \A r \in Getters \cup Putters \cup Closers : r # g => lookups'[r] = lookups[r],
         SoundEntry(e)', SoundGetter(g)',
         lookups'[g].entry = e,
         \/ /\ entries'[e].loaded = entries[e].loaded /\ entries'[e].poll = entries[e].poll
            /\ lookups'[g].pc # "fill"
         \/ lookups[g].pc = "fill"
         \/ status # "closed"
  PROVE  LookupInv'
<1> USE CacheFacts, CacheFields
<1>4. ASSUME NEW x \in 1..Len(entries') PROVE SoundEntry(x)'
  <2>1. CASE x # e
    <3>1. SoundEntry(x) /\ entries'[x] = entries[x]
      BY <2>1 DEF LookupInv
    <3>2. ASSUME entries[x].owner # NoOwner PROVE lookups'[entries[x].owner] = lookups[entries[x].owner]
      BY <2>1, <3>1, <3>2 DEF SoundEntry
    <3> QED BY <3>1, <3>2 DEF SoundEntry, Cache!Fresh
  <2> QED BY <2>1
<1>5. ASSUME NEW h \in Getters PROVE SoundGetter(h)'
  <2>1. CASE h # g
    <3>1. SoundGetter(h) /\ lookups'[h] = lookups[h]
      BY <2>1 DEF LookupInv
    <3>2. lookups[h].pc \in {"load", "fill"} => lookups[h].entry # e
      BY <2>1, <3>1 DEF SoundGetter
    <3> QED BY <3>1, <3>2 DEF SoundGetter, ReadLately
  <2> QED BY <2>1
<1>6. ASSUME NEW p \in Putters PROVE SoundPutter(p)'
  BY DEF LookupInv, SoundPutter, ReadLately
<1>7. ASSUME NEW c \in Closers PROVE SoundCloser(c)'
  <2>1. lookups'[c] = lookups[c] /\ SoundCloser(c)
    BY DEF LookupInv
  <2>2. ASSUME lookups[c].pc = "done", current # 0 PROVE Emptied'
    <3>1. status = "closed" /\ Emptied /\ current \in 1..Len(entries)
      BY <2>1, <2>2 DEF SoundCloser
    <3>2. Restored => Restored'
      BY DEF Restored
    <3>3. \A h \in Getters : ~(lookups'[h].entry = current /\ lookups'[h].pc = "fill")
      BY <3>1 DEF Emptied
    <3>4. entries'[current].loaded = entries[current].loaded /\ entries'[current].poll = entries[current].poll
      BY <3>1 DEF Emptied
    <3> QED BY <3>1, <3>2, <3>3, <3>4 DEF Emptied
  <2> QED BY <2>1, <2>2 DEF SoundCloser
<1>8. SoundClock'
  BY DEF LookupInv, SoundClock
<1> QED BY <1>4, <1>5, <1>6, <1>7, <1>8 DEF LookupInv

\* An assignment to one entry.
LEMMA EntryChanges ==
  ASSUME Cache!CacheTypeOK, NEW e \in 1..Len(entries), NEW x, entries' = [entries EXCEPT ![e] = x]
  PROVE  /\ Len(entries') = Len(entries) /\ entries'[e] = x
         /\ \A y \in 1..Len(entries) : y # e => entries'[y] = entries[y]
<1>1. entries \in Seq(Cache!Entries)
  BY DEF Cache!CacheTypeOK
<1> QED BY <1>1

LEMMA GetterKeeps ==
  ASSUME Cache!CacheTypeOK, LookupInv, NEW g \in Getters, Cache!GetStep(g), ~Cache!GetFind(g)
  PROVE  LookupInv'
<1> USE CacheFacts, CacheFields
<1>0. PICK e : e = lookups[g].entry
  OBVIOUS
<1> USE <1>0
<1>1. UNCHANGED <<clock, status, lastActive, current>>
  BY DEF Cache!GetStep, Cache!GetHit, Cache!GetMiss, Cache!GetLoad, Cache!GetLoadFails, Cache!GetFill
<1>2. SoundGetter(g) /\ lookups[g].pc \in {"lock", "load", "fill"}
  BY DEF LookupInv, Cache!GetStep, Cache!GetHit, Cache!GetMiss, Cache!GetLoad, Cache!GetLoadFails, Cache!GetFill
<1>3. e \in 1..Len(entries) /\ SoundEntry(e)
  BY <1>2 DEF LookupInv, SoundGetter
<1>4. /\ \A r \in Getters \cup Putters \cup Closers : r # g => lookups'[r] = lookups[r]
      /\ lookups'[g].entry = e
  <2>1. \/ \E pc : Cache!Goto(g, pc)
        \/ lookups' = [lookups EXCEPT ![g].pc = "fill", ![g].seen = status, ![g].seenAt = clock]
    BY DEF Cache!GetStep, Cache!GetHit, Cache!GetMiss, Cache!GetLoad, Cache!GetLoadFails, Cache!GetFill
  <2>2. CASE \E pc : Cache!Goto(g, pc)
    BY <2>2 DEF Cache!Goto
  <2>3. CASE lookups' = [lookups EXCEPT ![g].pc = "fill", ![g].seen = status, ![g].seenAt = clock]
    BY <2>3
  <2> QED BY <2>1, <2>2, <2>3
<1> USE <1>1, <1>2, <1>3, <1>4
<1>5. CASE Cache!GetHit(g)
  <2>1. entries' = entries /\ entries[e].owner = NoOwner /\ lookups'[g].pc \in {"active", "refused"}
    BY <1>5 DEF Cache!GetHit, Cache!Goto
  <2>2. SoundEntry(e)' /\ SoundGetter(g)'
    BY <2>1 DEF SoundEntry, SoundGetter, Cache!Fresh
  <2> QED BY <2>1, <2>2, GetterMoves
<1>6. CASE Cache!GetMiss(g)
  <2> DEFINE x == [entries[e] EXCEPT !.owner = g]
  <2>1. entries' = [entries EXCEPT ![e] = x] /\ entries[e].owner = NoOwner /\ ~Cache!Fresh(e) /\ lookups'[g].pc = "load"
    BY <1>6 DEF Cache!GetMiss, Cache!Goto
  <2>2. /\ Len(entries') = Len(entries) /\ entries'[e] = x
        /\ \A y \in 1..Len(entries) : y # e => entries'[y] = entries[y]
    BY <2>1, EntryChanges
  <2>3. x.owner = g /\ x.loaded = entries[e].loaded /\ x.expires = entries[e].expires /\ x.poll = entries[e].poll
    OBVIOUS
  <2> HIDE DEF x
  <2>5. SoundEntry(e)'
    <3>1. ~Cache!Fresh(e)'
      BY <2>1, <2>2, <2>3 DEF Cache!Fresh
    <3>2. lookups'[g].entry = e /\ lookups'[g].pc = "load" /\ entries'[e].owner = g
      BY <2>1, <2>2, <2>3
    <3>3. entries'[e].loaded = entries[e].loaded /\ entries'[e].expires = entries[e].expires /\ entries'[e].poll = entries[e].poll
      BY <2>2, <2>3
    <3> QED BY <3>1, <3>2, <3>3 DEF SoundEntry
  <2>6. SoundGetter(g)'
    BY <2>1, <2>2, <2>3 DEF SoundGetter
  <2>4. SoundEntry(e)' /\ SoundGetter(g)'
    BY <2>5, <2>6
  <2> QED BY <2>1, <2>2, <2>3, <2>4, GetterMoves
<1>7. CASE Cache!GetLoad(g) \/ Cache!GetLoadFails(g)
  <2>0. lookups[g].pc = "load"
    BY <1>7 DEF Cache!GetLoad, Cache!GetLoadFails
  <2>1. CASE status = "active" /\ entries' = entries /\ lookups' = [lookups EXCEPT ![g].pc = "fill", ![g].seen = status, ![g].seenAt = clock]
    <3>1. lookups'[g].pc = "fill" /\ lookups'[g].seen = "active" /\ lookups'[g].seenAt = clock /\ clock <= lastActive
      BY <2>1 DEF LookupInv, SoundClock
    <3>2. entries[e].owner = g
      BY <2>0 DEF SoundGetter
    <3>3. SoundEntry(e)'
      BY <2>0, <2>1, <3>1, <3>2 DEF SoundEntry, Cache!Fresh
    <3>4. SoundGetter(g)'
      BY <2>1, <3>1, <3>2 DEF SoundGetter, ReadLately
    <3> QED BY <2>1, <3>2, <3>3, <3>4, GetterMoves
  <2>2. CASE entries' = Cache!Unlocked(e) /\ \E pc \in {"refused", "failed"} : Cache!Goto(g, pc)
    <3> DEFINE x == [entries[e] EXCEPT !.owner = NoOwner]
    <3>1. entries' = [entries EXCEPT ![e] = x] /\ entries[e].owner = g /\ lookups'[g].pc \in {"refused", "failed"}
      BY <2>0, <2>2 DEF Cache!Unlocked, Cache!Goto, SoundGetter
    <3>2. /\ Len(entries') = Len(entries) /\ entries'[e] = x
          /\ \A y \in 1..Len(entries) : y # e => entries'[y] = entries[y]
      BY <3>1, EntryChanges
    <3>3. x.owner = NoOwner /\ x.loaded = entries[e].loaded /\ x.expires = entries[e].expires /\ x.poll = entries[e].poll
      <4>1. entries[e] \in Cache!Entries
        BY DEF Cache!CacheTypeOK
      <4> QED BY <4>1 DEF Cache!Entries
    <3> HIDE DEF x
    <3>5. SoundEntry(e)'
      BY <3>2, <3>3 DEF SoundEntry
    <3>6. SoundGetter(g)'
      BY <3>1 DEF SoundGetter
    <3>4. SoundEntry(e)' /\ SoundGetter(g)'
      BY <3>5, <3>6
    <3>7. /\ entries[e].owner \in {NoOwner, g} /\ lookups'[g].pc # "fill"
          /\ entries'[e].loaded = entries[e].loaded /\ entries'[e].poll = entries[e].poll
      BY <3>1, <3>2, <3>3
    <3> QED BY <3>2, <3>4, <3>7, GetterMoves
  <2> QED BY <1>7, <2>1, <2>2 DEF Cache!GetLoad, Cache!GetLoadFails
<1>8. CASE Cache!GetFill(g)
  <2> DEFINE x == [owner |-> NoOwner, loaded |-> TRUE, poll |-> lookups[g].seen, expires |-> clock + TTL]
  <2>1. /\ lookups[g].pc = "fill" /\ entries' = [entries EXCEPT ![e] = x] /\ lookups'[g].pc = "active"
        /\ entries[e].owner = g
    BY <1>8 DEF Cache!GetFill, Cache!Stored, Cache!Goto, SoundGetter
  <2>2. /\ Len(entries') = Len(entries) /\ entries'[e] = x
        /\ \A y \in 1..Len(entries) : y # e => entries'[y] = entries[y]
    BY <2>1, EntryChanges
  <2>3. x.owner = NoOwner /\ x.expires = clock + TTL /\ x.poll = lookups[g].seen
    OBVIOUS
  <2> HIDE DEF x
  <2>4. clock + TTL <= lastActive + TTL + Patience
    BY <2>1 DEF SoundGetter, ReadLately
  <2>8. entries'[e].owner = NoOwner /\ entries'[e].expires <= clock + TTL /\ entries'[e].expires <= lastActive + TTL + Patience
    BY <2>2, <2>3, <2>4
  <2>6. SoundEntry(e)'
    BY <2>8 DEF SoundEntry
  <2>7. SoundGetter(g)'
    BY <2>1 DEF SoundGetter
  <2>5. SoundEntry(e)' /\ SoundGetter(g)'
    BY <2>6, <2>7
  <2> QED BY <2>1, <2>2, <2>5, GetterMoves
<1> QED BY <1>5, <1>6, <1>7, <1>8 DEF Cache!GetStep

LEMMA LaterBound ==
  \A x, a, b \in Nat : a <= b =>
    /\ x <= a + TTL => x <= b + TTL
    /\ x <= a + TTL + Patience => x <= b + TTL + Patience
BY CacheFacts

\* An entry stays sound while the poll is active for longer.
LEMMA EntryLater ==
  ASSUME Cache!CacheTypeOK, NEW e \in 1..Len(entries), SoundEntry(e), entries'[e] = entries[e], clock' = clock,
         lastActive' \in Nat, lastActive <= lastActive',
         entries[e].owner # NoOwner => lookups'[entries[e].owner] = lookups[entries[e].owner]
  PROVE  SoundEntry(e)'
<1>1. entries[e].expires \in Nat /\ lastActive \in Nat
  BY CacheFields
<1>2. entries[e].expires <= lastActive + TTL + Patience => entries[e].expires <= lastActive' + TTL + Patience
  BY <1>1, LaterBound
<1> QED BY <1>2 DEF SoundEntry, Cache!Fresh

\* A publish that begins, reads or fails leaves the map alone; one that stores
\* what it read as active is what the map's entry then comes from.
LEMMA PutterKeeps ==
  ASSUME Cache!CacheTypeOK, LookupInv, NEW p \in Putters, Cache!PutStep(p), ~Cache!PutFind(p)
  PROVE  LookupInv'
<1> USE CacheFacts, CacheFields
<1>1. CASE Cache!PublishCommit(p)
  <2>1. /\ UNCHANGED <<clock, loads, current, entries>> /\ status # "closed"
        /\ status' = "active" /\ lastActive' = clock /\ lookups[p].pc = "idle"
    BY <1>1 DEF Cache!PublishCommit, Cache!Become
  <2>2. /\ \A r \in Getters \cup Putters \cup Closers : r # p => lookups'[r] = lookups[r]
        /\ lookups'[p].pc = "load"
    BY <1>1 DEF Cache!PublishCommit, Cache!Goto
  <2>3. lastActive <= lastActive' /\ lastActive' \in Nat
    BY <2>1 DEF LookupInv, SoundClock
  <2>4. ASSUME NEW e \in 1..Len(entries') PROVE SoundEntry(e)'
    <3>1. e \in 1..Len(entries) /\ SoundEntry(e) /\ entries'[e] = entries[e]
      BY <2>1 DEF LookupInv
    <3>2. entries[e].owner # NoOwner => lookups'[entries[e].owner] = lookups[entries[e].owner]
      BY <2>2, <3>1 DEF SoundEntry
    <3> QED BY <2>1, <2>3, <3>1, <3>2, EntryLater
  <2>5. ASSUME NEW g \in Getters PROVE SoundGetter(g)'
    BY <2>1, <2>2, <2>3 DEF LookupInv, SoundGetter, ReadLately
  <2>6. ASSUME NEW q \in Putters PROVE SoundPutter(q)'
    BY <2>1, <2>2, <2>3 DEF LookupInv, SoundPutter, ReadLately
  <2>7. ASSUME NEW c \in Closers PROVE SoundCloser(c)'
    <3>1. lookups'[c] = lookups[c] /\ SoundCloser(c)
      BY <2>2 DEF LookupInv
    <3> QED BY <3>1, <2>1 DEF SoundCloser
  <2> QED BY <2>1, <2>4, <2>5, <2>6, <2>7 DEF LookupInv, SoundClock
<1>2. CASE Cache!PublishRead(p)
  <2>1. UNCHANGED <<clock, status, lastActive, loads, current, entries>> /\ lookups[p].pc = "load"
    BY <1>2 DEF Cache!PublishRead
  <2>2. /\ \A r \in Getters \cup Putters \cup Closers : r # p => lookups'[r] = lookups[r]
        /\ lookups'[p].pc = "find" /\ lookups'[p].seen = status /\ lookups'[p].seenAt = clock
    BY <1>2 DEF Cache!PublishRead
  <2>3. Restored => Restored'
    BY <2>1, <2>2 DEF Restored
  <2>4. ASSUME NEW e \in 1..Len(entries') PROVE SoundEntry(e)'
    BY <2>1, <2>2 DEF LookupInv, SoundEntry, Cache!Fresh
  <2>5. ASSUME NEW g \in Getters PROVE SoundGetter(g)'
    BY <2>1, <2>2 DEF LookupInv, SoundGetter, ReadLately
  <2>6. ASSUME NEW q \in Putters PROVE SoundPutter(q)'
    <3>1. CASE q = p
      BY <2>1, <2>2, <3>1 DEF LookupInv, SoundPutter, ReadLately, SoundClock
    <3>2. CASE q # p
      <4>1. lookups'[q] = lookups[q] /\ SoundPutter(q)
        BY <2>2, <3>2 DEF LookupInv
      <4> QED BY <2>1, <4>1 DEF SoundPutter, ReadLately
    <3> QED BY <3>1, <3>2
  <2>7. ASSUME NEW c \in Closers PROVE SoundCloser(c)'
    <3>1. lookups'[c] = lookups[c] /\ SoundCloser(c)
      BY <2>2 DEF LookupInv
    <3>2. Emptied => Emptied'
      BY <2>1, <2>2, <2>3 DEF Emptied
    <3> QED BY <3>1, <3>2, <2>1 DEF SoundCloser
  <2> QED BY <2>1, <2>4, <2>5, <2>6, <2>7 DEF LookupInv, SoundClock
<1>f. CASE Cache!PublishFails(p)
  <2>1. UNCHANGED <<clock, status, lastActive, loads, current, entries>> /\ lookups[p].pc \in {"load", "find"}
    BY <1>f DEF Cache!PublishFails
  <2>2. /\ \A r \in Getters \cup Putters \cup Closers : r # p => lookups'[r] = lookups[r]
        /\ lookups'[p].pc = "failed"
    BY <1>f DEF Cache!PublishFails, Cache!Goto
  <2>3. Restored => Restored'
    BY <2>1, <2>2 DEF Restored
  <2>4. ASSUME NEW e \in 1..Len(entries') PROVE SoundEntry(e)'
    BY <2>1, <2>2 DEF LookupInv, SoundEntry, Cache!Fresh
  <2>5. ASSUME NEW g \in Getters PROVE SoundGetter(g)'
    BY <2>1, <2>2 DEF LookupInv, SoundGetter, ReadLately
  <2>6. ASSUME NEW q \in Putters PROVE SoundPutter(q)'
    BY <2>1, <2>2 DEF LookupInv, SoundPutter, ReadLately
  <2>7. ASSUME NEW c \in Closers PROVE SoundCloser(c)'
    <3>1. lookups'[c] = lookups[c] /\ SoundCloser(c)
      BY <2>2 DEF LookupInv
    <3>2. Emptied => Emptied'
      BY <2>1, <2>2, <2>3 DEF Emptied
    <3> QED BY <3>1, <3>2, <2>1 DEF SoundCloser
  <2> QED BY <2>1, <2>4, <2>5, <2>6, <2>7 DEF LookupInv, SoundClock
<1>3. CASE Cache!PutStore(p)
  <2> DEFINE e == lookups[p].entry
  <2> DEFINE x == [owner |-> NoOwner, loaded |-> TRUE, poll |-> lookups[p].seen, expires |-> clock + TTL]
  <2>1. /\ UNCHANGED <<clock, status, lastActive, loads, current>> /\ lookups[p].pc = "lock"
        /\ entries[e].owner = NoOwner /\ entries' = [entries EXCEPT ![e] = x]
    BY <1>3 DEF Cache!PutStore, Cache!Stored
  <2>2. /\ \A r \in Getters \cup Putters \cup Closers : r # p => lookups'[r] = lookups[r]
        /\ lookups'[p].pc = "done" /\ lookups'[p].entry = e /\ lookups'[p].seen = lookups[p].seen
    <3>1. lookups[p] \in Lookups
      BY DEF Cache!CacheTypeOK, Lookups, Cache!Requests
    <3> QED BY <1>3, <3>1 DEF Cache!PutStore, Cache!Goto, Lookups
  <2>3. SoundPutter(p) /\ e \in 1..Len(entries)
    BY <2>1 DEF LookupInv, SoundPutter
  <2>4. /\ Len(entries') = Len(entries) /\ entries'[e] = x
        /\ \A y \in 1..Len(entries) : y # e => entries'[y] = entries[y]
    BY <2>1, <2>3, EntryChanges
  <2>5. x.owner = NoOwner /\ x.expires = clock + TTL /\ x.poll = lookups[p].seen
    OBVIOUS
  <2> HIDE DEF x, e
  <2>6. ASSUME NEW y \in 1..Len(entries') PROVE SoundEntry(y)'
    <3>1. CASE y = e
      <4>1. lookups[p].seen = "active" => clock + TTL <= lastActive + TTL + Patience
        BY <2>1, <2>3 DEF SoundPutter, ReadLately
      <4> QED BY <3>1, <4>1, <2>1, <2>4, <2>5 DEF SoundEntry
    <3>2. CASE y # e
      <4>1. SoundEntry(y) /\ entries'[y] = entries[y]
        BY <3>2, <2>4 DEF LookupInv
      <4> QED BY <4>1, <2>1, <2>2 DEF SoundEntry, Cache!Fresh
    <3> QED BY <3>1, <3>2
  <2>7. ASSUME NEW g \in Getters PROVE SoundGetter(g)'
    <3>1. SoundGetter(g) /\ lookups'[g] = lookups[g]
      BY <2>2 DEF LookupInv
    <3>2. lookups[g].pc \in {"load", "fill"} => lookups[g].entry # e
      BY <3>1, <2>1 DEF SoundGetter
    <3> QED BY <3>1, <3>2, <2>1, <2>4 DEF SoundGetter, ReadLately
  <2>8. ASSUME NEW q \in Putters PROVE SoundPutter(q)'
    BY <2>1, <2>2, <2>4 DEF LookupInv, SoundPutter, ReadLately
  <2>9. ASSUME NEW c \in Closers PROVE SoundCloser(c)'
    <3>1. lookups'[c] = lookups[c] /\ SoundCloser(c)
      BY <2>2 DEF LookupInv
    <3>2. ASSUME Emptied, current # 0 PROVE Emptied'
      <4>1. \A g \in Getters : ~(lookups'[g].entry = current /\ lookups'[g].pc = "fill")
        BY <3>2, <2>2 DEF Emptied
      <4>2. CASE e = current
        <5>1. lookups[p].seen = "active" => Restored'
          BY <2>1, <2>2, <4>2 DEF Restored
        <5> QED BY <2>1, <2>4, <2>5, <4>1, <4>2, <5>1 DEF Emptied
      <4>3. CASE e # current
        <5>1. Restored => Restored'
          BY <2>1, <2>2 DEF Restored
        <5>2. entries'[current] = entries[current]
          BY <2>4, <3>2, <4>3
        <5> QED BY <2>1, <3>2, <4>1, <5>1, <5>2 DEF Emptied
      <4> QED BY <4>2, <4>3
    <3> QED BY <3>1, <3>2, <2>1 DEF SoundCloser
  <2> QED BY <2>1, <2>6, <2>7, <2>8, <2>9 DEF LookupInv, SoundClock
<1> QED BY <1>1, <1>2, <1>f, <1>3 DEF Cache!PutStep

LEMMA CloserKeeps ==
  ASSUME Cache!CacheTypeOK, LookupInv, NEW c \in Closers, Cache!CloseStep(c)
  PROVE  LookupInv'
<1> USE CacheFacts, CacheFields
<1>1. /\ \A r \in Getters \cup Putters \cup Closers : r # c => lookups'[r] = lookups[r]
      /\ UNCHANGED <<clock, entries, lastActive>>
      /\ \A r \in Putters : r # c
      /\ \A r \in Getters : r # c
  <2>1. \E pc : Cache!Goto(c, pc)
    BY DEF Cache!CloseStep, Cache!CloseSave, Cache!Delete
  <2>2. UNCHANGED <<clock, entries, lastActive>>
    BY DEF Cache!CloseStep, Cache!CloseSave, Cache!Delete, Cache!Become
  <2> QED BY <2>1, <2>2 DEF Cache!Goto
<1>2. ASSUME NEW e \in 1..Len(entries') PROVE SoundEntry(e)'
  BY <1>1 DEF LookupInv, SoundEntry, Cache!Fresh
<1>3. ASSUME NEW g \in Getters PROVE SoundGetter(g)'
  BY <1>1 DEF LookupInv, SoundGetter, ReadLately
<1>4. ASSUME NEW q \in Putters PROVE SoundPutter(q)'
  BY <1>1 DEF LookupInv, SoundPutter, ReadLately
<1>5. CASE Cache!CloseSave(c)
  <2>1. /\ status = "active" /\ status' = "closed" /\ current' = current
        /\ lookups'[c].pc \in {"delete", "failed"}
    <3>1. PICK pc \in {"delete", "failed"} : lookups' = [lookups EXCEPT ![c].pc = pc]
      BY <1>5 DEF Cache!CloseSave, Cache!Goto
    <3>2. lookups'[c].pc = pc
      BY <3>1
    <3> QED BY <1>5, <3>2 DEF Cache!CloseSave, Cache!Become
  <2>3. ASSUME NEW k \in Closers PROVE SoundCloser(k)'
    BY <1>1, <2>1 DEF LookupInv, SoundCloser
  <2> QED BY <1>1, <1>2, <1>3, <1>4, <2>1, <2>3 DEF LookupInv, SoundClock
<1>6. CASE Cache!Delete(c)
  <2>1. status' = status /\ lookups[c].pc = "delete" /\ lookups'[c].pc = "done" /\ current' = 0
    BY <1>6 DEF Cache!Delete, Cache!Goto
  <2>2. status = "closed"
    BY <2>1 DEF LookupInv, SoundCloser
  <2>3. ASSUME NEW k \in Closers PROVE SoundCloser(k)'
    BY <1>1, <2>1, <2>2 DEF LookupInv, SoundCloser
  <2> QED BY <1>1, <1>2, <1>3, <1>4, <2>1, <2>3 DEF LookupInv, SoundClock
<1> QED BY <1>5, <1>6 DEF Cache!CloseStep

\* Time passes, but not so much that a request sits on what it has read.
LEMMA TickKeeps ==
  ASSUME Cache!CacheTypeOK, LookupInv, Cache!Tick
  PROVE  LookupInv'
<1> USE CacheFacts, CacheFields
<1>1. /\ clock' = clock + 1 /\ UNCHANGED <<status, loads, current, entries, lookups>>
      /\ lastActive' = IF status = "active" THEN clock + 1 ELSE lastActive
  BY DEF Cache!Tick
<1>2. lastActive <= lastActive' /\ lastActive' \in Nat /\ SoundClock'
  BY <1>1 DEF LookupInv, SoundClock
<1>3. /\ \A g \in Getters : lookups[g].pc = "fill" => clock + 1 <= lookups[g].seenAt + Patience
      /\ \A p \in Putters : lookups[p].pc \in {"find", "lock"} => clock + 1 <= lookups[p].seenAt + Patience
  <2>1. /\ \A g \in Getters : lookups[g].pc = "fill" => clock - lookups[g].seenAt < Patience
        /\ \A p \in Putters : lookups[p].pc \in {"find", "lock"} => clock - lookups[p].seenAt < Patience
    BY DEF Cache!Tick
  <2>2. \A x \in Nat : clock - x < Patience => clock + 1 <= x + Patience
    OBVIOUS
  <2>3. \A r \in Getters \cup Putters : lookups[r].seenAt \in Nat
    OBVIOUS
  <2> QED BY <2>1, <2>2, <2>3
<1>4. ASSUME NEW e \in 1..Len(entries') PROVE SoundEntry(e)'
  <2>1. SoundEntry(e) /\ entries[e].expires \in Nat
    BY <1>1 DEF LookupInv
  <2>2. Cache!Fresh(e)' => Cache!Fresh(e)
    BY <1>1, <2>1 DEF Cache!Fresh
  <2>3. entries'[e] = entries[e] /\ lookups' = lookups
    BY <1>1
  <2>4. /\ entries[e].expires <= clock + TTL => entries[e].expires <= clock' + TTL
        /\ entries[e].expires <= lastActive + TTL + Patience => entries[e].expires <= lastActive' + TTL + Patience
    <3>1. clock' \in Nat /\ clock <= clock'
      BY <1>1
    <3> QED BY <3>1, <1>2, <2>1, LaterBound
  <2> QED BY <2>1, <2>2, <2>3, <2>4 DEF SoundEntry
<1>5. ASSUME NEW g \in Getters PROVE SoundGetter(g)'
  BY <1>1, <1>2, <1>3 DEF LookupInv, SoundGetter, ReadLately
<1>6. ASSUME NEW p \in Putters PROVE SoundPutter(p)'
  BY <1>1, <1>2, <1>3 DEF LookupInv, SoundPutter, ReadLately
<1>7. ASSUME NEW c \in Closers PROVE SoundCloser(c)'
  BY <1>1 DEF LookupInv, SoundCloser, Emptied, Restored
<1> QED BY <1>2, <1>4, <1>5, <1>6, <1>7 DEF LookupInv

LEMMA OthersKeep ==
  ASSUME Cache!CacheTypeOK, LookupInv, Cache!Elsewhere
  PROVE  LookupInv'
<1> USE CacheFacts, CacheFields
<1>1. UNCHANGED <<clock, loads, current, entries, lookups>> /\ status # "closed"
  BY DEF Cache!Elsewhere
<1>2. lastActive <= lastActive' /\ lastActive' \in Nat /\ SoundClock'
  BY <1>1 DEF Cache!Elsewhere, Cache!Become, LookupInv, SoundClock
<1>4. ASSUME NEW e \in 1..Len(entries') PROVE SoundEntry(e)'
  <2>1. e \in 1..Len(entries) /\ SoundEntry(e) /\ entries'[e] = entries[e]
    BY <1>1 DEF LookupInv
  <2> QED BY <1>1, <1>2, <2>1, EntryLater
<1>5. ASSUME NEW g \in Getters PROVE SoundGetter(g)'
  BY <1>1, <1>2 DEF LookupInv, SoundGetter, ReadLately
<1>6. ASSUME NEW p \in Putters PROVE SoundPutter(p)'
  BY <1>1, <1>2 DEF LookupInv, SoundPutter, ReadLately
<1>7. ASSUME NEW c \in Closers PROVE SoundCloser(c)'
  BY <1>1 DEF LookupInv, SoundCloser, Emptied, Restored
<1> QED BY <1>2, <1>4, <1>5, <1>6, <1>7 DEF LookupInv

LEMMA CacheNext ==
  Cache!CacheTypeOK /\ LookupInv /\ [Cache!Next]_cacheVars => (Cache!CacheTypeOK /\ LookupInv)'
<1> SUFFICES ASSUME Cache!CacheTypeOK, LookupInv, [Cache!Next]_cacheVars PROVE LookupInv'
  BY CacheTypeNext
<1>1. ASSUME NEW g \in Getters, Cache!GetStep(g) PROVE LookupInv'
  BY <1>1, FindKeeps, GetterKeeps, CacheFacts DEF Cache!GetFind
<1>2. ASSUME NEW p \in Putters, Cache!PutStep(p) PROVE LookupInv'
  BY <1>2, FindKeeps, PutterKeeps, CacheFacts DEF Cache!PutFind
<1>3. CASE UNCHANGED cacheVars
  BY <1>3 DEF cacheVars, LookupInv, SoundEntry, SoundGetter, SoundPutter, SoundCloser, SoundClock,
     ReadLately, Emptied, Restored, Cache!Fresh
<1> QED BY <1>1, <1>2, <1>3, CloserKeeps, TickKeeps, OthersKeep DEF Cache!Next

-----------------------------------------------------------------------------
\* Only the request that takes a step moves.
LEMMA CacheMoves ==
  ASSUME Cache!CacheTypeOK, Cache!Next, NEW g \in Getters, lookups'[g] # lookups[g]
  PROVE  Cache!GetStep(g)
<1> USE CacheFacts, CacheFields
<1>1. ASSUME NEW r \in Getters \cup Putters \cup Closers, r # g PROVE ~\E pc : Cache!Goto(r, pc)
  BY <1>1 DEF Cache!Goto
<1>2. ASSUME NEW r \in Getters \cup Putters \cup Closers, r # g PROVE ~Cache!FindEntry(r)
  BY <1>2 DEF Cache!FindEntry
<1>3. ASSUME NEW h \in Getters, h # g PROVE ~Cache!GetStep(h)
  <2>1. ~(lookups' = [lookups EXCEPT ![h].pc = "fill", ![h].seen = status, ![h].seenAt = clock])
    BY <1>3
  <2> QED BY <1>1, <1>2, <1>3, <2>1 DEF Cache!GetStep, Cache!GetFind, Cache!GetHit, Cache!GetMiss,
       Cache!GetLoad, Cache!GetLoadFails, Cache!GetFill
<1>4. ASSUME NEW p \in Putters PROVE ~Cache!PutStep(p)
  <2>1. ~(lookups' = [lookups EXCEPT ![p].pc = "find", ![p].seen = status, ![p].seenAt = clock])
    OBVIOUS
  <2>2. p # g
    OBVIOUS
  <2> QED BY <1>1, <1>2, <2>1, <2>2 DEF Cache!PutStep, Cache!PutFind, Cache!PublishCommit, Cache!PublishRead,
       Cache!PublishFails, Cache!PutStore
<1>5. ASSUME NEW c \in Closers PROVE ~Cache!CloseStep(c)
  <2>1. c # g
    OBVIOUS
  <2> QED BY <1>1, <2>1 DEF Cache!CloseStep, Cache!CloseSave, Cache!Delete
<1>6. ~Cache!Elsewhere /\ ~Cache!Tick
  BY DEF Cache!Elsewhere, Cache!Tick
<1> QED BY <1>3, <1>4, <1>5, <1>6 DEF Cache!Next

LEMMA CachePart == Spec => Cache!Init /\ [][Cache!Next]_cacheVars
<1>1. Init => Cache!Init
  BY DEF Init
<1>2. [Next]_vars => [Cache!Next]_cacheVars
  BY DEF Next, NextCache, NextTab, NextClients, NextRate, NextSum, vars
<1> QED BY <1>1, <1>2, PTL DEF Spec

LEMMA CacheInvHolds == Spec => [](Cache!CacheTypeOK /\ LookupInv)
BY CachePart, CacheInit, CacheNext, PTL

\* After a replica's close no vote brings the poll back to its cache as active,
\* not by a load that read the poll before and ends after the close, and not
\* through an entry made for requests of the closed poll: whenever the cache
\* says active again, a publish of this replica that overlapped the close has
\* stored that into the map's present entry.
THEOREM ClosedPollIsForgotten == Spec => []ClosedIsForgotten
<1>1. Cache!CacheTypeOK /\ LookupInv => ClosedIsForgotten
  <2> SUFFICES ASSUME Cache!CacheTypeOK, LookupInv, NEW c \in Closers, lookups[c].pc = "done", Cache!Visible = "active"
               PROVE  Restored
    BY DEF ClosedIsForgotten, Cache!ClosedIsForgotten, Restored
  <2>1. current # 0
    BY DEF Cache!Visible
  <2>2. Emptied
    BY <2>1 DEF LookupInv, SoundCloser
  <2>3. ~\E g \in Getters : lookups[g].entry = current /\ lookups[g].pc = "fill"
    BY <2>2 DEF Emptied
  <2>4. Cache!Fresh(current) /\ entries[current].poll = "active"
    BY <2>1, <2>3 DEF Cache!Visible
  <2>5. entries[current].loaded = TRUE
    BY <2>1, <2>4, CacheFields DEF Cache!Fresh
  <2> QED BY <2>2, <2>4, <2>5 DEF Emptied
<1> QED BY <1>1, CacheInvHolds, PTL

\* No vote is let through on a definition older than the cache's TTL and the
\* time its reader sat on it, whatever other replicas do without telling.
THEOREM StalenessBounded == Spec => StalenessIsBounded
<1> DEFINE Step == \A g \in Getters : lookups[g].pc # "active" /\ lookups'[g].pc = "active"
                     => clock - lastActive < TTL + Patience
<1>1. Cache!CacheTypeOK /\ LookupInv /\ [Cache!Next]_cacheVars => [Step]_cacheVars
  <2> SUFFICES ASSUME Cache!CacheTypeOK, LookupInv, Cache!Next,
                      NEW g \in Getters, lookups[g].pc # "active", lookups'[g].pc = "active"
               PROVE  clock - lastActive < TTL + Patience
    OBVIOUS
  <2> USE CacheFacts, CacheFields
  <2>1. SoundGetter(g)
    BY DEF LookupInv
  <2>2. Cache!GetHit(g) \/ Cache!GetFill(g)
    <3>1. Cache!GetStep(g)
      BY CacheMoves
    <3>2. \A pc : Cache!Goto(g, pc) => pc = "active"
      BY DEF Cache!Goto
    <3>3. /\ lookups' # [lookups EXCEPT ![g].pc = "lock", ![g].entry = current']
          /\ lookups' # [lookups EXCEPT ![g].pc = "fill", ![g].seen = status, ![g].seenAt = clock]
      <4>1. ASSUME lookups' = [lookups EXCEPT ![g].pc = "lock", ![g].entry = current'] PROVE FALSE
        BY <4>1
      <4>2. ASSUME lookups' = [lookups EXCEPT ![g].pc = "fill", ![g].seen = status, ![g].seenAt = clock] PROVE FALSE
        BY <4>2
      <4> QED BY <4>1, <4>2
    <3>4. ~Cache!GetFind(g) /\ ~Cache!GetMiss(g) /\ ~Cache!GetLoad(g) /\ ~Cache!GetLoadFails(g)
      BY <3>2, <3>3 DEF Cache!GetFind, Cache!FindEntry, Cache!GetMiss, Cache!GetLoad, Cache!GetLoadFails
    <3> QED BY <3>1, <3>4 DEF Cache!GetStep
  <2>3. CASE Cache!GetFill(g)
    BY <2>1, <2>3 DEF Cache!GetFill, SoundGetter, ReadLately
  <2>4. CASE Cache!GetHit(g)
    <3> DEFINE e == lookups[g].entry
    <3>1. e \in 1..Len(entries) /\ SoundEntry(e)
      BY <2>1, <2>4 DEF Cache!GetHit, SoundGetter, LookupInv
    <3>2. Cache!Fresh(e) /\ entries[e].poll = "active"
      BY <2>4 DEF Cache!GetHit, Cache!Goto
    <3>3. clock < entries[e].expires /\ entries[e].expires <= lastActive + TTL + Patience
      BY <3>1, <3>2 DEF SoundEntry, Cache!Fresh
    <3> HIDE DEF e
    <3> QED BY <3>1, <3>3
  <2> QED BY <2>2, <2>3, <2>4
<1> QED BY <1>1, CachePart, CacheInvHolds, PTL DEF StalenessIsBounded, Cache!StalenessIsBounded, cacheVars, Cache!vars

-----------------------------------------------------------------------------
(* How often the poll is loaded.                                           *)

LEMMA Quotient ==
  ASSUME NEW n \in Nat, NEW t \in Nat \ {0}
  PROVE  (n \div t) * t <= n /\ n < (n \div t) * t + t /\ n \div t \in Nat
OBVIOUS

LEMMA QuotientBounds ==
  ASSUME NEW n \in Nat, NEW t \in Nat \ {0}, NEW i \in Nat, i * t <= n + t
  PROVE  i <= 1 + n \div t
<1> DEFINE q == n \div t
<1>1. q \in Nat /\ n < q * t + t
  BY Quotient
<1> HIDE DEF q
<1>2. SUFFICES ASSUME i >= q + 2 PROVE FALSE
  BY <1>1 DEF q
<1>3. i * t >= (q + 2) * t /\ (q + 2) * t = q * t + t + t
  BY <1>1, <1>2
<1> QED BY <1>1, <1>3

LEMMA NextQuotient ==
  ASSUME NEW n \in Nat, NEW t \in Nat \ {0}
  PROVE  (1 + n \div t) * t <= n + t /\ (1 + n \div t) * t > n
<1> DEFINE q == n \div t
<1>1. q \in Nat /\ n < q * t + t /\ q * t <= n
  BY Quotient
<1> HIDE DEF q
<1>2. (1 + q) * t = q * t + t
  BY <1>1
<1> QED BY <1>1, <1>2 DEF q

\* The i-th TTL has an entry's load in it: one that is stored, or one that is about to be.
Stocked(e, i) ==
  \/ entries[e].loaded = TRUE /\ i * TTL <= entries[e].expires
  \/ \E g \in Getters : lookups[g].pc = "fill" /\ lookups[g].entry = e /\ i * TTL <= lookups[g].seenAt + TTL

\* Entries and TTLs, at least as many as there were loads.
Slots == {x \in (1..Len(entries)) \X (Nat \ {0}) : Stocked(x[1], x[2])}

FiniteSlots == IsFiniteSet(Slots) /\ Cardinality(Slots) \in Nat

LoadsInv == loads <= Cardinality(Slots)

LEMMA UpTo == ASSUME NEW n \in Nat PROVE IsFiniteSet(1..n) /\ Cardinality(1..n) = n
BY FS_Interval

LEMMA SlotsBound ==
  Cache!CacheTypeOK /\ LookupInv =>
    FiniteSlots /\ Cardinality(Slots) <= Len(entries) * (1 + clock \div TTL)
<1> SUFFICES ASSUME Cache!CacheTypeOK, LookupInv
             PROVE  FiniteSlots /\ Cardinality(Slots) <= Len(entries) * (1 + clock \div TTL)
  OBVIOUS
<1> USE CacheFacts, CacheFields
<1> DEFINE n == 1 + clock \div TTL
<1>n. n \in Nat
  BY Quotient
<1>1. Slots \subseteq (1..Len(entries)) \X (1..n)
  <2> SUFFICES ASSUME NEW e \in 1..Len(entries), NEW i \in Nat \ {0}, Stocked(e, i) PROVE i \in 1..n
    BY DEF Slots
  <2>1. i * TTL \in Nat
    OBVIOUS
  <2>2. i * TTL <= clock + TTL
    <3>1. CASE entries[e].loaded = TRUE /\ i * TTL <= entries[e].expires
      BY <2>1, <3>1 DEF LookupInv, SoundEntry
    <3>2. ASSUME NEW g \in Getters, lookups[g].pc = "fill", i * TTL <= lookups[g].seenAt + TTL
          PROVE  i * TTL <= clock + TTL
      <4>1. lookups[g].seenAt <= clock /\ lookups[g].seenAt \in Nat
        BY <3>2 DEF LookupInv, SoundGetter
      <4> QED BY <2>1, <3>2, <4>1
    <3> QED BY <3>1, <3>2 DEF Stocked
  <2>3. i <= n
    BY <2>2, QuotientBounds
  <2> HIDE DEF n
  <2> QED BY <2>3, <1>n
<1> HIDE DEF n
<1>2. IsFiniteSet(1..Len(entries)) /\ Cardinality(1..Len(entries)) = Len(entries)
  BY UpTo
<1>3. IsFiniteSet(1..n) /\ Cardinality(1..n) = n
  BY <1>n, UpTo
<1>4. /\ IsFiniteSet((1..Len(entries)) \X (1..n))
      /\ Cardinality((1..Len(entries)) \X (1..n)) = Len(entries) * n
  <2> DEFINE S == 1..Len(entries)
             T == 1..n
  <2>1. IsFiniteSet(S) /\ IsFiniteSet(T) /\ Cardinality(S) = Len(entries) /\ Cardinality(T) = n
    BY <1>2, <1>3
  <2> HIDE DEF S, T
  <2>2. IsFiniteSet(S \X T) /\ Cardinality(S \X T) = Cardinality(S) * Cardinality(T)
    BY <2>1, FS_Product
  <2>3. IsFiniteSet(S \X T) /\ Cardinality(S \X T) = Len(entries) * n
    BY <2>1, <2>2
  <2> QED BY <2>3 DEF S, T
<1>5. IsFiniteSet(Slots) /\ Cardinality(Slots) <= Len(entries) * n
  BY <1>1, <1>4, FS_Subset
<1> QED BY <1>5, FS_CardinalityType DEF n, FiniteSlots

\* A slot stays: what is stored is only replaced by what expires later, and a
\* load in flight is stored.
LEMMA SlotsStay ==
  ASSUME Cache!CacheTypeOK, Cache!CacheTypeOK', Len(entries) <= Len(entries'),
         \A e \in 1..Len(entries) : entries[e].loaded = TRUE =>
           entries'[e].loaded = TRUE /\ entries[e].expires <= entries'[e].expires,
         \A g \in Getters : lookups[g].pc = "fill" =>
           \/ lookups'[g] = lookups[g]
           \/ LET x == entries'[lookups[g].entry] IN x.loaded = TRUE /\ lookups[g].seenAt + TTL <= x.expires
  PROVE  Slots \subseteq Slots'
<1> USE CacheFacts, CacheFields
<1>0. Len(entries) \in Nat /\ Len(entries') \in Nat
  BY DEF Cache!CacheTypeOK
<1>1. SUFFICES ASSUME NEW e \in 1..Len(entries), NEW i \in Nat \ {0}, Stocked(e, i) PROVE Stocked(e, i)'
  BY <1>0 DEF Slots
<1>2. /\ i * TTL \in Nat /\ entries[e].expires \in Nat /\ e \in 1..Len(entries')
      /\ \A y \in 1..Len(entries') : entries'[y].expires \in Nat
  <2>1. entries' \in Seq(Cache!Entries)
    BY DEF Cache!CacheTypeOK
  <2>2. \A y \in 1..Len(entries') : entries'[y] \in Cache!Entries
    BY <2>1
  <2> QED BY <1>0, <2>2 DEF Cache!Entries
<1>3. CASE entries[e].loaded = TRUE /\ i * TTL <= entries[e].expires
  BY <1>2, <1>3 DEF Stocked
<1>4. ASSUME NEW g \in Getters, lookups[g].pc = "fill", lookups[g].entry = e, i * TTL <= lookups[g].seenAt + TTL
      PROVE  Stocked(e, i)'
  <2>1. CASE lookups'[g] = lookups[g]
    BY <1>4, <2>1 DEF Stocked
  <2>2. CASE entries'[e].loaded = TRUE /\ lookups[g].seenAt + TTL <= entries'[e].expires
    <3> DEFINE m == i * TTL
               x == lookups[g].seenAt + TTL
    <3>1. m \in Nat /\ x \in Nat /\ entries'[e].expires \in Nat /\ m <= x /\ x <= entries'[e].expires
      <4>1. x \in Nat
        OBVIOUS
      <4> HIDE DEF x, m
      <4> QED BY <1>2, <1>4, <2>2, <4>1 DEF x, m
    <3>2. i * TTL <= entries'[e].expires
      <4> HIDE DEF x, m
      <4>1. m <= entries'[e].expires
        BY <3>1
      <4> QED BY <4>1 DEF m
    <3> QED BY <2>2, <3>2 DEF Stocked
  <2> QED BY <1>4, <2>1, <2>2
<1> QED BY <1>1, <1>3, <1>4 DEF Stocked

\* A step that neither stores nor loads leaves every slot.
LEMMA SlotsUnmoved ==
  ASSUME Cache!CacheTypeOK, Cache!CacheTypeOK', Len(entries) <= Len(entries'),
         \A e \in 1..Len(entries) :
           entries'[e].loaded = entries[e].loaded /\ entries'[e].expires = entries[e].expires,
         \A g \in Getters : lookups[g].pc = "fill" => lookups'[g] = lookups[g]
  PROVE  Slots \subseteq Slots'
<1>1. \A e \in 1..Len(entries) : entries[e].loaded = TRUE =>
        entries'[e].loaded = TRUE /\ entries[e].expires <= entries'[e].expires
  BY CacheFields
<1> QED BY <1>1, SlotsStay

\* Storing what was loaded or published.
LEMMA SlotsStored ==
  ASSUME Cache!CacheTypeOK, LookupInv, Cache!CacheTypeOK', NEW r \in Getters \cup Putters,
         lookups[r].entry \in 1..Len(entries), r \in Getters => lookups[r].pc = "fill",
         entries' = Cache!Stored(r),
         \A x \in Getters : x # r => lookups'[x] = lookups[x]
  PROVE  Slots \subseteq Slots'
<1> USE CacheFacts, CacheFields
<1> DEFINE e == lookups[r].entry
           x == [owner |-> NoOwner, loaded |-> TRUE, poll |-> lookups[r].seen, expires |-> clock + TTL]
<1>1. /\ Len(entries') = Len(entries) /\ entries'[e] = x
      /\ \A y \in 1..Len(entries) : y # e => entries'[y] = entries[y]
  BY EntryChanges DEF Cache!Stored
<1>2. x.loaded = TRUE /\ x.expires = clock + TTL
  OBVIOUS
<1> HIDE DEF x
<1>3. ASSUME NEW y \in 1..Len(entries), entries[y].loaded = TRUE
      PROVE  entries'[y].loaded = TRUE /\ entries[y].expires <= entries'[y].expires
  <2>1. SoundEntry(y)
    BY DEF LookupInv
  <2> QED BY <1>1, <1>2, <1>3, <2>1 DEF SoundEntry
<1>4. r \in Getters => lookups[r].seenAt + TTL <= entries'[e].expires
  <2>1. SUFFICES ASSUME r \in Getters PROVE lookups[r].seenAt <= clock
    BY <1>1, <1>2
  <2> QED BY <2>1 DEF LookupInv, SoundGetter
<1>5. \A g \in Getters : lookups[g].pc = "fill" =>
        \/ lookups'[g] = lookups[g]
        \/ LET z == entries'[lookups[g].entry] IN z.loaded = TRUE /\ lookups[g].seenAt + TTL <= z.expires
  BY <1>1, <1>2, <1>4
<1>6. Len(entries) <= Len(entries')
  BY <1>1
<1>7. \A y \in 1..Len(entries) : entries[y].loaded = TRUE =>
        entries'[y].loaded = TRUE /\ entries[y].expires <= entries'[y].expires
  BY <1>3
<1> HIDE DEF e
<1> QED BY <1>5, <1>6, <1>7, SlotsStay

\* Loads are counted when they are made, and nothing takes a slot away.
LEMMA LoadsNext ==
  Cache!CacheTypeOK /\ LookupInv /\ LoadsInv /\ FiniteSlots /\ [Cache!Next]_cacheVars
    /\ Cache!CacheTypeOK' /\ FiniteSlots' => LoadsInv'
<1> SUFFICES ASSUME Cache!CacheTypeOK, LookupInv, LoadsInv, FiniteSlots, [Cache!Next]_cacheVars,
                    Cache!CacheTypeOK', FiniteSlots'
             PROVE  LoadsInv'
  OBVIOUS
<1> USE CacheFacts, CacheFields
<1>1. IsFiniteSet(Slots) /\ Cardinality(Slots) \in Nat
  BY DEF FiniteSlots
<1>2. IsFiniteSet(Slots') /\ Cardinality(Slots') \in Nat
  BY DEF FiniteSlots
<1>3. ASSUME Slots \subseteq Slots', loads' = loads PROVE LoadsInv'
  <2>1. Cardinality(Slots) <= Cardinality(Slots')
    BY <1>2, <1>3, FS_Subset
  <2> QED BY <1>1, <1>2, <1>3, <2>1 DEF LoadsInv
<1>4. ASSUME NEW r \in Getters \cup Putters, Cache!FindEntry(r), lookups[r].pc # "fill"
      PROVE  LoadsInv'
  <2>1. /\ loads' = loads /\ Len(entries) <= Len(entries')
        /\ \A e \in 1..Len(entries) : entries'[e] = entries[e]
    <3>1. entries \in Seq(Cache!Entries)
      BY DEF Cache!CacheTypeOK
    <3> QED BY <1>4, <3>1 DEF Cache!FindEntry
  <2>2. \A x \in Getters : x # r => lookups'[x] = lookups[x]
    BY <1>4 DEF Cache!FindEntry
  <2>3. Slots \subseteq Slots'
    BY <1>4, <2>1, <2>2, SlotsUnmoved
  <2> QED BY <1>3, <2>1, <2>3
<1>5. ASSUME NEW g \in Getters, Cache!GetStep(g) PROVE LoadsInv'
  <2> DEFINE e == lookups[g].entry
  <2>0. SoundGetter(g)
    BY DEF LookupInv
  <2>1. CASE Cache!GetFind(g)
    BY <2>1, <1>4 DEF Cache!GetFind
  <2>2. CASE Cache!GetHit(g)
    <3>1. Slots \subseteq Slots'
      BY <2>2, SlotsUnmoved DEF Cache!GetHit, Cache!Goto
    <3> QED BY <2>2, <3>1, <1>3 DEF Cache!GetHit
  <2>3. ASSUME NEW o \in Getters \cup {NoOwner}, entries' = [entries EXCEPT ![e].owner = o], e \in 1..Len(entries),
               \E pc : Cache!Goto(g, pc), lookups[g].pc # "fill", loads' = loads
        PROVE  LoadsInv'
    <3> DEFINE x == [entries[e] EXCEPT !.owner = o]
    <3>1. entries' = [entries EXCEPT ![e] = x]
      BY <2>3
    <3>2. x.loaded = entries[e].loaded /\ x.expires = entries[e].expires
      <4>1. entries[e] \in Cache!Entries
        BY <2>3 DEF Cache!CacheTypeOK
      <4> QED BY <4>1 DEF Cache!Entries
    <3> HIDE DEF x
    <3>3. /\ Len(entries') = Len(entries) /\ entries'[e] = x
          /\ \A y \in 1..Len(entries) : y # e => entries'[y] = entries[y]
      BY <2>3, <3>1, EntryChanges
    <3>4. \A y \in Getters : y # g => lookups'[y] = lookups[y]
      BY <2>3 DEF Cache!Goto
    <3> HIDE DEF e
    <3>5. Slots \subseteq Slots'
      BY <2>3, <3>2, <3>3, <3>4, SlotsUnmoved
    <3> QED BY <2>3, <3>5, <1>3
  <2>4. CASE Cache!GetMiss(g)
    BY <2>0, <2>4, <2>3 DEF Cache!GetMiss, SoundGetter
  <2>5. CASE Cache!GetLoad(g) /\ status # "active"
    BY <2>0, <2>5, <2>3 DEF Cache!GetLoad, SoundGetter, Cache!Unlocked
  <2>6. CASE Cache!GetLoad(g) /\ status = "active"
    <3>0. lookups' = [lookups EXCEPT ![g].pc = "fill", ![g].seen = status, ![g].seenAt = clock]
      BY <2>6 DEF Cache!GetLoad
    <3>1. /\ lookups[g].pc = "load" /\ entries' = entries /\ loads' = loads + 1 /\ clock' = clock
          /\ lookups'[g].pc = "fill" /\ lookups'[g].seenAt = clock /\ lookups'[g].entry = e
          /\ \A y \in Getters : y # g => lookups'[y] = lookups[y]
      <4>1. lookups[g] \in Lookups
        BY DEF Cache!CacheTypeOK, Lookups, Cache!Requests
      <4>2. lookups'[g] = [lookups[g] EXCEPT !.pc = "fill", !.seen = status, !.seenAt = clock]
        BY <3>0
      <4>3. lookups'[g].pc = "fill" /\ lookups'[g].seenAt = clock /\ lookups'[g].entry = e
        BY <4>1, <4>2 DEF Lookups
      <4>4. \A y \in Getters : y # g => lookups'[y] = lookups[y]
        BY <3>0
      <4> QED BY <2>6, <4>3, <4>4 DEF Cache!GetLoad
    <3>2. e \in 1..Len(entries) /\ SoundEntry(e) /\ entries[e].owner = g
      BY <2>0, <3>1 DEF LookupInv, SoundGetter
    <3> DEFINE n == 1 + clock \div TTL
    <3>3. n \in Nat \ {0} /\ n * TTL <= clock + TTL /\ n * TTL > clock /\ n * TTL \in Nat
      <4>1. n * TTL <= clock + TTL /\ n * TTL > clock
        BY NextQuotient
      <4>2. n \in Nat \ {0}
        BY Quotient
      <4> HIDE DEF n
      <4> QED BY <4>1, <4>2
    <3> HIDE DEF n
    <3>4. ~Stocked(e, n)
      <4>1. entries[e].loaded = TRUE => entries[e].expires <= clock
        BY <3>2 DEF SoundEntry, Cache!Fresh
      <4>2. ASSUME NEW h \in Getters, lookups[h].pc = "fill", lookups[h].entry = e PROVE FALSE
        BY <3>1, <3>2, <4>2 DEF LookupInv, SoundGetter
      <4> HIDE DEF e
      <4> QED BY <3>2, <3>3, <4>1, <4>2 DEF Stocked
    <3>5. Stocked(e, n)'
      <4>1. n' * TTL <= clock + TTL
        BY <3>1, <3>3 DEF n
      <4> QED BY <3>1, <4>1 DEF Stocked
    <3>6. <<e, n>> \notin Slots /\ <<e, n>> \in Slots'
      <4>1. n' = n /\ e' = e
        BY <3>1 DEF n
      <4> HIDE DEF e
      <4> QED BY <3>1, <3>2, <3>3, <3>4, <3>5, <4>1 DEF Slots
    <3>7. Slots \subseteq Slots'
      BY <3>1, SlotsUnmoved
    <3>8. /\ IsFiniteSet(Slots \cup {<<e, n>>})
          /\ Cardinality(Slots \cup {<<e, n>>}) = Cardinality(Slots) + 1
      BY <1>1, <3>6, FS_AddElement
    <3>9. Cardinality(Slots \cup {<<e, n>>}) <= Cardinality(Slots')
      BY <1>2, <3>6, <3>7, FS_Subset
    <3> QED BY <1>1, <1>2, <3>1, <3>8, <3>9 DEF LoadsInv
  <2>7. CASE Cache!GetFill(g)
    <3>1. Slots \subseteq Slots'
      BY <2>0, <2>7, SlotsStored DEF Cache!GetFill, Cache!Goto, SoundGetter
    <3> QED BY <2>7, <3>1, <1>3 DEF Cache!GetFill
  <2>8. CASE Cache!GetLoad(g)
    BY <2>5, <2>6, <2>8
  <2>9. CASE Cache!GetLoadFails(g)
    BY <2>0, <2>9, <2>3 DEF Cache!GetLoadFails, SoundGetter, Cache!Unlocked
  <2> HIDE DEF e
  <2> QED BY <1>5, <2>1, <2>2, <2>4, <2>7, <2>8, <2>9 DEF Cache!GetStep
<1>6. ASSUME NEW p \in Putters, Cache!PutStep(p) PROVE LoadsInv'
  <2>0. SoundPutter(p) /\ p \notin Getters
    BY DEF LookupInv
  <2>1. CASE Cache!PutFind(p)
    BY <2>1, <1>4 DEF Cache!PutFind
  <2>2. CASE Cache!PublishCommit(p) \/ Cache!PublishRead(p) \/ Cache!PublishFails(p)
    <3>1. entries' = entries /\ loads' = loads
      BY <2>2 DEF Cache!PublishCommit, Cache!PublishRead, Cache!PublishFails
    <3>2. \A g \in Getters : lookups'[g] = lookups[g]
      BY <2>0, <2>2 DEF Cache!PublishCommit, Cache!PublishRead, Cache!PublishFails, Cache!Goto
    <3>3. Slots \subseteq Slots'
      BY <3>1, <3>2, SlotsUnmoved
    <3> QED BY <3>1, <3>3, <1>3
  <2>3. CASE Cache!PutStore(p)
    <3>1. Slots \subseteq Slots'
      BY <2>0, <2>3, SlotsStored DEF Cache!PutStore, Cache!Goto, SoundPutter
    <3> QED BY <2>3, <3>1, <1>3 DEF Cache!PutStore
  <2> QED BY <1>6, <2>1, <2>2, <2>3 DEF Cache!PutStep
<1>7. ASSUME NEW c \in Closers, Cache!CloseStep(c) PROVE LoadsInv'
  <2>1. entries' = entries /\ loads' = loads
    BY <1>7 DEF Cache!CloseStep, Cache!CloseSave, Cache!Delete
  <2>2. \A g \in Getters : lookups'[g] = lookups[g]
    <3>1. PICK pc : Cache!Goto(c, pc)
      BY <1>7 DEF Cache!CloseStep, Cache!CloseSave, Cache!Delete
    <3>2. c \notin Getters
      OBVIOUS
    <3> QED BY <3>1, <3>2 DEF Cache!Goto
  <2>3. Slots \subseteq Slots'
    BY <2>1, <2>2, SlotsUnmoved
  <2> QED BY <2>1, <2>3, <1>3
<1>8. CASE Cache!Elsewhere \/ Cache!Tick \/ UNCHANGED cacheVars
  <2>1. entries' = entries /\ loads' = loads /\ lookups' = lookups
    BY <1>8 DEF Cache!Elsewhere, Cache!Tick, cacheVars
  <2>2. Slots \subseteq Slots'
    BY <2>1, SlotsUnmoved
  <2> QED BY <2>1, <2>2, <1>3
<1> QED BY <1>5, <1>6, <1>7, <1>8 DEF Cache!Next

\* However many votes arrive at once, one of them loads the poll, and the poll
\* is loaded once per entry and TTL.
THEOREM CoalescedLoads == Spec => []LoadsAreCoalesced
<1>1. Cache!Init => LoadsInv
  <2> SUFFICES ASSUME Cache!Init PROVE LoadsInv
    OBVIOUS
  <2>1. Cardinality(Slots) \in Nat
    BY CacheInit, SlotsBound DEF FiniteSlots
  <2> QED BY <2>1 DEF LoadsInv, Cache!Init
<1>2. Cache!CacheTypeOK /\ LookupInv /\ LoadsInv => LoadsAreCoalesced
  <2> SUFFICES ASSUME Cache!CacheTypeOK, LookupInv, LoadsInv PROVE LoadsAreCoalesced
    OBVIOUS
  <2> USE CacheFacts, CacheFields
  <2>1. loads <= Len(entries) * (1 + clock \div TTL)
    <3> DEFINE bound == Len(entries) * (1 + clock \div TTL)
    <3>1. bound \in Nat /\ Cardinality(Slots) \in Nat /\ Cardinality(Slots) <= bound
      BY SlotsBound, Quotient DEF FiniteSlots
    <3> HIDE DEF bound
    <3>2. loads <= bound
      BY <3>1 DEF LoadsInv
    <3> QED BY <3>2 DEF bound
  <2>2. ASSUME NEW e \in 1..Len(entries)
        PROVE  Cache!Loading(e) = (IF entries[e].owner = NoOwner THEN {} ELSE {entries[e].owner})
    <3>1. SoundEntry(e) /\ \A g \in Getters : SoundGetter(g)
      BY DEF LookupInv
    <3>2. \A g \in Cache!Loading(e) : g = entries[e].owner /\ g # NoOwner
      BY <3>1 DEF Cache!Loading, SoundGetter
    <3>3. entries[e].owner # NoOwner => entries[e].owner \in Cache!Loading(e)
      BY <3>1 DEF Cache!Loading, SoundEntry
    <3> QED BY <3>2, <3>3
  <2> QED BY <2>1, <2>2 DEF LoadsAreCoalesced, Cache!LoadsAreCoalesced, Cache!OneLoaderPerEntry
<1>3. Cache!CacheTypeOK /\ LookupInv => FiniteSlots
  BY SlotsBound
<1> QED BY <1>1, <1>2, <1>3, CachePart, CacheInvHolds, LoadsNext, PTL

-----------------------------------------------------------------------------
(* The cache is one remembered status.                                     *)

\* What publish requests are about to put there, as IsAtomicCache maps it.
Held == [p \in Putters |-> IF lookups[p].pc \in {"find", "lock"} THEN lookups[p].seen ELSE "none"]

Filling(g, e) == lookups[g].entry = e /\ lookups[g].pc = "fill"

LEMMA AtomicNames ==
  /\ Cache!Atomic!CacheInit <=>
       /\ status = "draft" /\ Cache!Visible = "none"
       /\ Held = [p \in Putters |-> "none"]
  /\ Cache!Atomic!Load <=>
       /\ Cache!Visible = "none" /\ status = "active" /\ Cache!Visible' = "active"
       /\ status' = status /\ Held' = Held
  /\ Cache!Atomic!Drop <=> Cache!Visible' = "none" /\ status' = status /\ Held' = Held
  /\ Cache!Atomic!StatusChange <=>
       /\ <<status, status'>> \in {<<"draft", "active">>, <<"active", "draft">>, <<"active", "closed">>}
       /\ Cache!Visible' = Cache!Visible /\ Held' = Held
  /\ \A p \in Putters : Cache!Atomic!Read(p) <=>
       /\ Held' = [Held EXCEPT ![p] = status]
       /\ status' = status /\ Cache!Visible' = Cache!Visible
  /\ \A p \in Putters : Cache!Atomic!Warm(p) <=>
       /\ Held[p] # "none" /\ Cache!Visible' \in {Held[p], Cache!Visible}
       /\ Held' = [Held EXCEPT ![p] = "none"] /\ status' = status
  /\ Cache!Atomic!cacheVars = <<status, Cache!Visible, Held>>
BY DEF Held, Cache!Atomic!CacheInit, Cache!Atomic!Load, Cache!Atomic!Drop, Cache!Atomic!StatusChange,
   Cache!Atomic!Read, Cache!Atomic!Warm, Cache!Atomic!cacheVars

LEMMA AtomicInit == Cache!Init => Cache!Atomic!CacheInit
<1> SUFFICES ASSUME Cache!Init PROVE Cache!Atomic!CacheInit
  OBVIOUS
<1>1. Cache!Visible = "none" /\ status = "draft"
  BY DEF Cache!Init, Cache!Visible
<1>2. Held = [p \in Putters |-> "none"]
  BY DEF Cache!Init, Held, Cache!Requests
<1> QED BY <1>1, <1>2, AtomicNames

\* What the rest of the replica sees of an entry: fresh contents, or a load
\* that has found the poll active.
LEMMA VisibleStays ==
  ASSUME clock' = clock, current' = current,
         current # 0 => /\ entries'[current].loaded = entries[current].loaded
                        /\ entries'[current].expires = entries[current].expires
                        /\ entries'[current].poll = entries[current].poll,
         \A g \in Getters : Filling(g, current)' = Filling(g, current)
  PROVE  Cache!Visible' = Cache!Visible
BY DEF Cache!Visible, Cache!Fresh, Filling

\* Steps of getters and closers, and of others.
LEMMA HeldStays ==
  ASSUME NEW r \in Getters \cup Closers, \A p \in Putters : p # r => lookups'[p] = lookups[p]
  PROVE  Held' = Held
<1>1. \A p \in Putters : lookups'[p] = lookups[p]
  BY CacheFacts
<1> QED BY <1>1 DEF Held

LEMMA FindIsInvisible ==
  ASSUME Cache!CacheTypeOK, LookupInv, NEW r \in Getters \cup Putters, Cache!FindEntry(r),
         r \in Getters => lookups[r].pc = "idle", r \in Putters => lookups[r].pc = "find"
  PROVE  UNCHANGED <<status, Cache!Visible, Held>>
<1> USE CacheFacts, CacheFields
<1>1. status' = status /\ clock' = clock
  BY DEF Cache!FindEntry
<1>2. /\ \A x \in Getters \cup Putters \cup Closers : x # r => lookups'[x] = lookups[x]
      /\ lookups'[r].pc = "lock" /\ lookups'[r].seen = lookups[r].seen
  BY DEF Cache!FindEntry
<1>3. Held' = Held
  <2>1. CASE r \in Getters
    BY <1>2, <2>1, HeldStays
  <2>2. ASSUME r \in Putters, NEW p \in Putters
        PROVE  (IF lookups'[p].pc \in {"find", "lock"} THEN lookups'[p].seen ELSE "none")
                 = (IF lookups[p].pc \in {"find", "lock"} THEN lookups[p].seen ELSE "none")
    <3>1. CASE p # r
      BY <1>2, <3>1
    <3>2. CASE p = r
      BY <1>2, <2>2, <3>2
    <3> QED BY <3>1, <3>2
  <2>3. CASE r \in Putters
    BY <2>2, <2>3 DEF Held
  <2> QED BY <2>1, <2>3
<1>4. \A g \in Getters, e \in 0..Len(entries) : Filling(g, e)' = Filling(g, e)
  BY <1>2 DEF Filling
<1>5. CASE current # 0
  <2>1. current' = current /\ entries' = entries
    BY <1>5 DEF Cache!FindEntry
  <2> QED BY <1>1, <1>3, <1>4, <2>1, VisibleStays
<1>6. CASE current = 0
  <2> DEFINE new == [owner |-> NoOwner, loaded |-> FALSE, poll |-> "draft", expires |-> 0]
  <2>1. entries' = Append(entries, new) /\ current' = Len(entries) + 1 /\ new.loaded = FALSE
    BY <1>6 DEF Cache!FindEntry
  <2> HIDE DEF new
  <2>2. entries'[current'].loaded = FALSE /\ current' # 0
    BY <2>1 DEF Cache!CacheTypeOK
  <2>3. ASSUME NEW g \in Getters PROVE ~Filling(g, current)'
    <3>1. CASE g = r
      BY <1>2, <3>1 DEF Filling
    <3>2. CASE g # r
      <4>1. lookups'[g] = lookups[g] /\ SoundGetter(g)
        BY <1>2, <3>2 DEF LookupInv
      <4>2. lookups[g].pc = "fill" => lookups[g].entry \in 1..Len(entries)
        BY <4>1 DEF SoundGetter
      <4> QED BY <2>1, <4>1, <4>2 DEF Filling
    <3> QED BY <3>1, <3>2
  <2>4. Cache!Visible' = "none"
    BY <2>2, <2>3 DEF Cache!Visible, Cache!Fresh, Filling
  <2>5. Cache!Visible = "none"
    BY <1>6 DEF Cache!Visible
  <2> QED BY <1>1, <1>3, <2>4, <2>5
<1> QED BY <1>5, <1>6

Stutters == UNCHANGED <<status, Cache!Visible, Held>>

LEMMA GetterIsAtomic ==
  ASSUME Cache!CacheTypeOK, LookupInv, NEW g \in Getters, Cache!GetStep(g)
  PROVE  Stutters \/ Cache!Atomic!Load
<1> USE CacheFacts, CacheFields
<1>0. SoundGetter(g)
  BY DEF LookupInv
<1> DEFINE e == lookups[g].entry
<1>1. ASSUME ~Cache!GetFind(g)
      PROVE  /\ UNCHANGED <<clock, status, current>>
             /\ \A r \in Getters \cup Putters \cup Closers : r # g => lookups'[r] = lookups[r]
             /\ lookups[g] \in Lookups
  BY <1>1 DEF Cache!GetStep, Cache!GetHit, Cache!GetMiss, Cache!GetLoad, Cache!GetLoadFails, Cache!GetFill,
     Cache!Goto, Cache!CacheTypeOK, Cache!Requests, Lookups
<1>2. ASSUME ~Cache!GetFind(g) PROVE Held' = Held
  BY <1>1, <1>2, HeldStays
<1>3. ASSUME ~Cache!GetFind(g), NEW o \in Getters \cup {NoOwner}, entries' = [entries EXCEPT ![e].owner = o],
             e \in 1..Len(entries), lookups[g].pc # "fill", lookups'[g].pc # "fill"
      PROVE  Stutters
  <2> DEFINE x == [entries[e] EXCEPT !.owner = o]
  <2>1. entries' = [entries EXCEPT ![e] = x]
    BY <1>3
  <2>2. x.loaded = entries[e].loaded /\ x.expires = entries[e].expires /\ x.poll = entries[e].poll
    <3>1. entries[e] \in Cache!Entries
      BY <1>3 DEF Cache!CacheTypeOK
    <3> QED BY <3>1 DEF Cache!Entries
  <2> HIDE DEF x
  <2>3. entries'[e] = x /\ \A y \in 1..Len(entries) : y # e => entries'[y] = entries[y]
    BY <1>3, <2>1, EntryChanges
  <2> HIDE DEF e
  <2>4. \A y \in 1..Len(entries) : /\ entries'[y].loaded = entries[y].loaded
                                   /\ entries'[y].expires = entries[y].expires
                                   /\ entries'[y].poll = entries[y].poll
    BY <2>2, <2>3
  <2>5. \A h \in Getters : Filling(h, current)' = Filling(h, current)
    BY <1>1, <1>3 DEF Filling
  <2>6. Cache!Visible' = Cache!Visible
    BY <1>1, <1>3, <2>4, <2>5, VisibleStays
  <2> QED BY <1>1, <1>2, <1>3, <2>6 DEF Stutters
<1>4. CASE Cache!GetFind(g)
  BY <1>4, FindIsInvisible DEF Cache!GetFind, Stutters
<1>5. CASE Cache!GetHit(g)
  <2>1. entries' = entries /\ lookups[g].pc = "lock" /\ lookups'[g].pc # "fill" /\ ~Cache!GetFind(g)
    BY <1>5 DEF Cache!GetHit, Cache!GetFind, Cache!Goto
  <2>2. \A h \in Getters : Filling(h, current)' = Filling(h, current)
    BY <1>1, <2>1 DEF Filling
  <2>3. Cache!Visible' = Cache!Visible
    BY <1>1, <2>1, <2>2, VisibleStays
  <2> QED BY <1>1, <1>2, <2>1, <2>3 DEF Stutters
<1>6. CASE Cache!GetMiss(g)
  <2>1. /\ entries' = [entries EXCEPT ![e].owner = g] /\ e \in 1..Len(entries)
        /\ lookups[g].pc = "lock" /\ lookups'[g].pc = "load" /\ ~Cache!GetFind(g)
    BY <1>0, <1>6 DEF Cache!GetMiss, Cache!GetFind, Cache!Goto, SoundGetter
  <2> HIDE DEF e
  <2> QED BY <2>1, <1>3
<1>7. CASE Cache!GetLoadFails(g) \/ (Cache!GetLoad(g) /\ status # "active")
  <2>1. /\ entries' = [entries EXCEPT ![e].owner = NoOwner] /\ e \in 1..Len(entries)
        /\ lookups[g].pc = "load" /\ lookups'[g].pc # "fill" /\ ~Cache!GetFind(g)
    <3>1. PICK pc \in {"refused", "failed"} : Cache!Goto(g, pc)
      BY <1>7 DEF Cache!GetLoadFails, Cache!GetLoad
    <3>2. lookups'[g].pc = pc
      BY <3>1 DEF Cache!Goto
    <3>3. entries' = [entries EXCEPT ![e].owner = NoOwner] /\ lookups[g].pc = "load"
      BY <1>7 DEF Cache!GetLoadFails, Cache!GetLoad, Cache!Unlocked
    <3>4. e \in 1..Len(entries) /\ ~Cache!GetFind(g)
      BY <1>0, <3>3 DEF Cache!GetFind, SoundGetter
    <3> QED BY <3>2, <3>3, <3>4
  <2> HIDE DEF e
  <2> QED BY <2>1, <1>3
<1>8. CASE Cache!GetLoad(g) /\ status = "active"
  <2>1. /\ lookups' = [lookups EXCEPT ![g].pc = "fill", ![g].seen = status, ![g].seenAt = clock]
        /\ entries' = entries /\ lookups[g].pc = "load" /\ ~Cache!GetFind(g)
    BY <1>8 DEF Cache!GetLoad, Cache!GetFind
  <2>2. lookups'[g].pc = "fill" /\ lookups'[g].entry = e
    <3>1. lookups'[g] = [lookups[g] EXCEPT !.pc = "fill", !.seen = status, !.seenAt = clock]
      BY <2>1
    <3> QED BY <1>1, <2>1, <3>1 DEF Lookups
  <2>3. e \in 1..Len(entries) /\ SoundEntry(e) /\ entries[e].owner = g
    BY <1>0, <2>1 DEF LookupInv, SoundGetter
  <2>4. CASE e = current
    <3>1. ~Cache!Fresh(current) /\ ~Cache!Fresh(current)' /\ current # 0 /\ current' = current
      BY <1>1, <2>1, <2>3, <2>4 DEF SoundEntry, Cache!Fresh
    <3>2. ~\E h \in Getters : lookups[h].entry = current /\ lookups[h].pc = "fill"
      BY <2>1, <2>3, <2>4 DEF LookupInv, SoundGetter
    <3>3. Cache!Visible = "none"
      BY <3>1, <3>2 DEF Cache!Visible
    <3>4. Cache!Visible' = "active"
      BY <2>2, <2>4, <3>1 DEF Cache!Visible
    <3> QED BY <1>1, <1>2, <1>8, <2>1, <3>3, <3>4, AtomicNames
  <2>5. CASE e # current
    <3>1. \A h \in Getters : Filling(h, current)' = Filling(h, current)
      BY <1>1, <2>1, <2>2, <2>5 DEF Filling
    <3>2. Cache!Visible' = Cache!Visible
      BY <1>1, <2>1, <3>1, VisibleStays
    <3> QED BY <1>1, <1>2, <2>1, <3>2 DEF Stutters
  <2> QED BY <2>4, <2>5
<1>9. CASE Cache!GetFill(g)
  <2> DEFINE x == [owner |-> NoOwner, loaded |-> TRUE, poll |-> lookups[g].seen, expires |-> clock + TTL]
  <2>1. /\ lookups[g].pc = "fill" /\ entries' = [entries EXCEPT ![e] = x]
        /\ lookups'[g].pc = "active" /\ ~Cache!GetFind(g)
    BY <1>9 DEF Cache!GetFill, Cache!Stored, Cache!GetFind, Cache!Goto
  <2>2. x.loaded = TRUE /\ x.expires = clock + TTL /\ x.poll = "active"
    BY <1>0, <2>1 DEF SoundGetter
  <2> HIDE DEF x
  <2>3. e \in 1..Len(entries) /\ SoundEntry(e) /\ entries[e].owner = g
    BY <1>0, <2>1 DEF LookupInv, SoundGetter
  <2>4. entries'[e] = x /\ \A y \in 1..Len(entries) : y # e => entries'[y] = entries[y]
    BY <2>1, <2>3, EntryChanges
  <2>5. CASE e = current
    <3>1. ~Cache!Fresh(current) /\ current # 0 /\ current' = current /\ clock' = clock
      BY <1>1, <2>1, <2>3, <2>5 DEF SoundEntry
    <3>2. Cache!Visible = "active"
      BY <2>1, <2>5, <3>1 DEF Cache!Visible
    <3>3. Cache!Visible' = "active"
      BY <2>2, <2>4, <2>5, <3>1 DEF Cache!Visible, Cache!Fresh
    <3> QED BY <1>1, <1>2, <2>1, <3>2, <3>3 DEF Stutters
  <2>6. CASE e # current
    <3>1. \A h \in Getters : Filling(h, current)' = Filling(h, current)
      BY <1>1, <2>1, <2>6 DEF Filling, Cache!GetFill, Cache!Goto
    <3>2. current # 0 => entries'[current] = entries[current]
      BY <2>4, <2>6
    <3>3. Cache!Visible' = Cache!Visible
      BY <1>1, <2>1, <3>1, <3>2, VisibleStays
    <3> QED BY <1>1, <1>2, <2>1, <3>3 DEF Stutters
  <2> QED BY <2>5, <2>6
<1>10. CASE Cache!GetLoad(g)
  BY <1>7, <1>8, <1>10
<1>11. CASE Cache!GetLoadFails(g)
  BY <1>7, <1>11
<1> HIDE DEF e
<1> QED BY <1>4, <1>5, <1>6, <1>9, <1>10, <1>11 DEF Cache!GetStep

LEMMA PutterIsAtomic ==
  ASSUME Cache!CacheTypeOK, LookupInv, NEW p \in Putters, Cache!PutStep(p)
  PROVE  Stutters \/ Cache!Atomic!StatusChange \/ Cache!Atomic!Read(p) \/ Cache!Atomic!Warm(p)
<1> USE CacheFacts, CacheFields
<1>0. SoundPutter(p) /\ p \notin Getters
  BY DEF LookupInv
<1>1. CASE Cache!PutFind(p)
  BY <1>0, <1>1, FindIsInvisible DEF Cache!PutFind, Stutters
<1>2. ASSUME Cache!PublishCommit(p) \/ Cache!PublishRead(p) \/ Cache!PublishFails(p) \/ Cache!PutStore(p)
      PROVE  /\ UNCHANGED <<clock, current>>
             /\ \A r \in Getters \cup Putters \cup Closers : r # p => lookups'[r] = lookups[r]
             /\ \A g \in Getters, e \in 0..Len(entries) : Filling(g, e)' = Filling(g, e)
             /\ lookups[p] \in Lookups
  <2>1. /\ UNCHANGED <<clock, current>>
        /\ \A r \in Getters \cup Putters \cup Closers : r # p => lookups'[r] = lookups[r]
        /\ lookups[p] \in Lookups
    BY <1>2 DEF Cache!PublishCommit, Cache!PublishRead, Cache!PublishFails, Cache!PutStore, Cache!Goto, Cache!CacheTypeOK,
       Cache!Requests, Lookups
  <2> QED BY <1>0, <2>1 DEF Filling
<1>3. CASE Cache!PublishCommit(p)
  <2>1. entries' = entries /\ status # "closed" /\ status' = "active" /\ lookups[p].pc = "idle" /\ lookups'[p].pc = "load"
    BY <1>3 DEF Cache!PublishCommit, Cache!Become, Cache!Goto
  <2>2. Cache!Visible' = Cache!Visible
    BY <1>2, <1>3, <2>1, VisibleStays
  <2>3. Held' = Held
    <3>1. ASSUME NEW q \in Putters
          PROVE  (IF lookups'[q].pc \in {"find", "lock"} THEN lookups'[q].seen ELSE "none")
                   = (IF lookups[q].pc \in {"find", "lock"} THEN lookups[q].seen ELSE "none")
      <4>1. CASE q # p
        BY <1>2, <1>3, <4>1
      <4>2. CASE q = p
        BY <2>1, <4>2
      <4> QED BY <4>1, <4>2
    <3> QED BY <3>1 DEF Held
  <2> QED BY <2>1, <2>2, <2>3, AtomicNames DEF Stutters
<1>4. CASE Cache!PublishRead(p)
  <2>1. entries' = entries /\ status' = status /\ lookups[p].pc = "load"
    BY <1>4 DEF Cache!PublishRead
  <2>2. lookups'[p].pc = "find" /\ lookups'[p].seen = status
    <3>1. lookups'[p] = [lookups[p] EXCEPT !.pc = "find", !.seen = status, !.seenAt = clock]
      BY <1>4 DEF Cache!PublishRead
    <3> QED BY <1>2, <1>4, <3>1 DEF Lookups
  <2>3. Cache!Visible' = Cache!Visible
    BY <1>2, <1>4, <2>1, VisibleStays
  <2>4. Held' = [Held EXCEPT ![p] = status]
    <3>1. Held' = [q \in Putters |-> IF lookups'[q].pc \in {"find", "lock"} THEN lookups'[q].seen ELSE "none"]
      BY DEF Held
    <3>2. [Held EXCEPT ![p] = status] = [q \in Putters |-> IF q = p THEN status ELSE Held[q]]
      BY DEF Held
    <3>3. ASSUME NEW q \in Putters
          PROVE  (IF lookups'[q].pc \in {"find", "lock"} THEN lookups'[q].seen ELSE "none")
                   = (IF q = p THEN status ELSE Held[q])
      <4>1. CASE q # p
        BY <1>2, <1>4, <4>1 DEF Held
      <4>2. CASE q = p
        BY <2>2, <4>2
      <4> QED BY <4>1, <4>2
    <3> QED BY <3>1, <3>2, <3>3
  <2> QED BY <2>1, <2>3, <2>4, AtomicNames
<1>f. CASE Cache!PublishFails(p)
  <2>1. entries' = entries /\ status' = status /\ lookups[p].pc \in {"load", "find"} /\ lookups'[p].pc = "failed"
    BY <1>f DEF Cache!PublishFails, Cache!Goto
  <2>2. Cache!Visible' = Cache!Visible
    BY <1>2, <1>f, <2>1, VisibleStays
  <2>3. \A q \in Putters : q # p => Held'[q] = Held[q]
    BY <1>2, <1>f DEF Held
  <2>4. Held'[p] = "none"
    BY <2>1 DEF Held
  <2>5. Held' = [Held EXCEPT ![p] = "none"]
    <3>1. Held' = [q \in Putters |-> Held'[q]] /\ [Held EXCEPT ![p] = "none"] = [q \in Putters |-> IF q = p THEN "none" ELSE Held[q]]
      BY DEF Held
    <3>2. ASSUME NEW q \in Putters PROVE Held'[q] = (IF q = p THEN "none" ELSE Held[q])
      BY <2>3, <2>4
    <3> QED BY <3>1, <3>2
  <2>6. CASE lookups[p].pc = "load"
    <3>1. Held[p] = "none"
      BY <2>6 DEF Held
    <3>2. [Held EXCEPT ![p] = "none"] = Held
      BY <3>1 DEF Held
    <3> QED BY <2>1, <2>2, <2>5, <3>2 DEF Stutters
  <2>7. CASE lookups[p].pc = "find"
    <3>1. Held[p] # "none"
      <4>1. lookups[p].seen \in {"draft", "active", "closed"}
        BY <1>2, <1>f DEF Lookups, Cache!Statuses
      <4> QED BY <2>7, <4>1 DEF Held
    <3> QED BY <2>1, <2>2, <2>5, <3>1, AtomicNames
  <2> QED BY <2>1, <2>6, <2>7
<1>5. CASE Cache!PutStore(p)
  <2> DEFINE e == lookups[p].entry
             x == [owner |-> NoOwner, loaded |-> TRUE, poll |-> lookups[p].seen, expires |-> clock + TTL]
  <2>1. /\ lookups[p].pc = "lock" /\ entries[e].owner = NoOwner /\ entries' = [entries EXCEPT ![e] = x]
        /\ lookups'[p].pc = "done" /\ status' = status
    BY <1>5 DEF Cache!PutStore, Cache!Stored, Cache!Goto
  <2>2. x.loaded = TRUE /\ x.expires = clock + TTL /\ x.poll = lookups[p].seen
    OBVIOUS
  <2> HIDE DEF x
  <2>3. e \in 1..Len(entries)
    BY <1>0, <2>1 DEF SoundPutter
  <2>4. entries'[e] = x /\ \A y \in 1..Len(entries) : y # e => entries'[y] = entries[y]
    BY <2>1, <2>3, EntryChanges
  <2>5. Held[p] = lookups[p].seen /\ Held[p] # "none"
    <3>1. lookups[p].seen \in {"draft", "active", "closed"}
      BY <1>2, <1>5 DEF Lookups, Cache!Statuses
    <3> QED BY <2>1, <3>1 DEF Held
  <2>6. Held' = [Held EXCEPT ![p] = "none"]
    <3>1. Held' = [q \in Putters |-> IF lookups'[q].pc \in {"find", "lock"} THEN lookups'[q].seen ELSE "none"]
      BY DEF Held
    <3>2. [Held EXCEPT ![p] = "none"] = [q \in Putters |-> IF q = p THEN "none" ELSE Held[q]]
      BY DEF Held
    <3>3. ASSUME NEW q \in Putters
          PROVE  (IF lookups'[q].pc \in {"find", "lock"} THEN lookups'[q].seen ELSE "none")
                   = (IF q = p THEN "none" ELSE Held[q])
      <4>1. CASE q # p
        BY <1>2, <1>5, <4>1 DEF Held
      <4>2. CASE q = p
        BY <2>1, <4>2
      <4> QED BY <4>1, <4>2
    <3> QED BY <3>1, <3>2, <3>3
  <2>7. Cache!Visible' \in {Held[p], Cache!Visible}
    <3>1. CASE e = current
      <4>1. current' = current /\ current # 0 /\ clock' = clock
        BY <1>2, <1>5, <2>3, <3>1
      <4>2. entries'[current].loaded = TRUE /\ entries'[current].expires = clock + TTL
        BY <2>2, <2>4, <3>1
      <4> QED BY <2>2, <2>4, <2>5, <3>1, <4>1, <4>2 DEF Cache!Visible, Cache!Fresh
    <3>2. CASE e # current
      <4>1. current # 0 => entries'[current] = entries[current]
        BY <2>4, <3>2
      <4> QED BY <1>2, <1>5, <4>1, VisibleStays
    <3> QED BY <3>1, <3>2
  <2> HIDE DEF e
  <2> QED BY <2>1, <2>5, <2>6, <2>7, AtomicNames
<1> QED BY <1>1, <1>3, <1>4, <1>f, <1>5 DEF Cache!PutStep

LEMMA OthersAreAtomic ==
  ASSUME Cache!CacheTypeOK, LookupInv,
         (\E c \in Closers : Cache!CloseStep(c)) \/ Cache!Elsewhere \/ Cache!Tick \/ UNCHANGED cacheVars
  PROVE  Stutters \/ Cache!Atomic!StatusChange \/ Cache!Atomic!Drop
<1> USE CacheFacts, CacheFields
<1>1. ASSUME NEW c \in Closers, Cache!CloseStep(c) PROVE Cache!Atomic!StatusChange \/ Cache!Atomic!Drop
  <2>1. /\ \A r \in Getters \cup Putters : lookups'[r] = lookups[r]
        /\ clock' = clock /\ entries' = entries
    <3>1. PICK pc : Cache!Goto(c, pc)
      BY <1>1 DEF Cache!CloseStep, Cache!CloseSave, Cache!Delete
    <3>2. c \notin Getters \cup Putters
      OBVIOUS
    <3> QED BY <1>1, <3>1, <3>2 DEF Cache!Goto, Cache!CloseStep, Cache!CloseSave, Cache!Delete
  <2>2. Held' = Held
    BY <2>1, HeldStays
  <2>3. CASE Cache!CloseSave(c)
    <3>1. status = "active" /\ status' = "closed" /\ current' = current
      BY <2>3 DEF Cache!CloseSave, Cache!Become
    <3>2. Cache!Visible' = Cache!Visible
      BY <2>1, <3>1, VisibleStays DEF Filling
    <3> QED BY <2>2, <3>1, <3>2, AtomicNames
  <2>4. CASE Cache!Delete(c)
    <3>1. status' = status /\ current' = 0
      BY <2>4 DEF Cache!Delete
    <3>2. Cache!Visible' = "none"
      BY <3>1 DEF Cache!Visible
    <3> QED BY <2>2, <3>1, <3>2, AtomicNames
  <2> QED BY <1>1, <2>3, <2>4 DEF Cache!CloseStep
<1>2. CASE Cache!Elsewhere
  <2>1. /\ UNCHANGED <<clock, current, entries, lookups>>
        /\ <<status, status'>> \in {<<"draft", "active">>, <<"active", "draft">>, <<"active", "closed">>}
    BY <1>2 DEF Cache!Elsewhere, Cache!Become
  <2>2. Cache!Visible' = Cache!Visible /\ Held' = Held
    BY <2>1, VisibleStays DEF Filling, Held
  <2> QED BY <2>1, <2>2, AtomicNames
<1>3. CASE Cache!Tick
  <2>1. clock' = clock + 1 /\ UNCHANGED <<status, current, entries, lookups>>
    BY <1>3 DEF Cache!Tick
  <2>2. Held' = Held
    BY <2>1 DEF Held
  <2>3. CASE current = 0
    BY <2>1, <2>2, <2>3 DEF Cache!Visible, Stutters
  <2>4. CASE current # 0 /\ Cache!Fresh(current)' = Cache!Fresh(current)
    <3>1. Cache!Visible' = Cache!Visible
      BY <2>1, <2>4 DEF Cache!Visible
    <3> QED BY <2>1, <2>2, <3>1 DEF Stutters
  <2>5. CASE current # 0 /\ Cache!Fresh(current)' # Cache!Fresh(current)
    <3>1. Cache!Fresh(current) /\ ~Cache!Fresh(current)'
      <4>1. current \in 1..Len(entries) /\ entries[current].expires \in Nat
        BY <2>5
      <4>2. entries[current].loaded \in BOOLEAN
        BY <4>1
      <4> QED BY <2>1, <2>5, <4>1, <4>2 DEF Cache!Fresh
    <3>2. ~\E g \in Getters : lookups[g].entry = current /\ lookups[g].pc = "fill"
      <4>1. SUFFICES ASSUME NEW g \in Getters, lookups[g].entry = current, lookups[g].pc = "fill" PROVE FALSE
        OBVIOUS
      <4>2. current \in 1..Len(entries) /\ SoundEntry(current) /\ entries[current].owner = g
        BY <4>1 DEF LookupInv, SoundGetter
      <4> QED BY <3>1, <4>2 DEF SoundEntry
    <3>3. Cache!Visible' = "none"
      BY <2>1, <2>5, <3>1, <3>2 DEF Cache!Visible
    <3> QED BY <2>1, <2>2, <3>3, AtomicNames
  <2> QED BY <2>3, <2>4, <2>5
<1>4. CASE UNCHANGED cacheVars
  <2>1. UNCHANGED <<clock, status, current, entries, lookups>>
    BY <1>4 DEF cacheVars
  <2>2. Cache!Visible' = Cache!Visible /\ Held' = Held
    BY <2>1, VisibleStays DEF Filling, Held
  <2> QED BY <2>1, <2>2 DEF Stutters
<1> QED BY <1>1, <1>2, <1>3, <1>4

\* Seen from the rest of the replica, the map, its entries and their mutexes
\* are one remembered status that changes in single steps.
THEOREM CacheIsAtomic == Spec => IsAtomicCache
<1>1. Cache!CacheTypeOK /\ LookupInv /\ [Cache!Next]_cacheVars
        => [Cache!Atomic!CacheNext]_(Cache!Atomic!cacheVars)
  <2> SUFFICES ASSUME Cache!CacheTypeOK, LookupInv, [Cache!Next]_cacheVars
               PROVE  Cache!Atomic!CacheNext \/ UNCHANGED Cache!Atomic!cacheVars
    OBVIOUS
  <2>1. Stutters => UNCHANGED Cache!Atomic!cacheVars
    BY AtomicNames DEF Stutters, Held, Cache!Atomic!cacheVars
  <2>2. ASSUME NEW g \in Getters, Cache!GetStep(g) PROVE Cache!Atomic!Load \/ Stutters
    BY <2>2, GetterIsAtomic
  <2>3. ASSUME NEW p \in Putters, Cache!PutStep(p)
        PROVE  Cache!Atomic!StatusChange \/ Cache!Atomic!Read(p) \/ Cache!Atomic!Warm(p) \/ Stutters
    BY <2>3, PutterIsAtomic
  <2>4. (\E g \in Getters : Cache!GetStep(g)) \/ (\E p \in Putters : Cache!PutStep(p))
          \/ (\E c \in Closers : Cache!CloseStep(c)) \/ Cache!Elsewhere \/ Cache!Tick \/ UNCHANGED cacheVars
    BY DEF Cache!Next
  <2> QED BY <2>1, <2>2, <2>3, <2>4, OthersAreAtomic DEF Cache!Atomic!CacheNext
<1> QED BY <1>1, AtomicInit, CachePart, CacheInvHolds, PTL
     DEF IsAtomicCache, Cache!IsAtomicCache, Cache!Atomic!CacheSpec

-----------------------------------------------------------------------------
(* The rate limiter.                                                       *)

LogEntries == [req: RateRequests, at: 0..MaxNow, window: Nat, outcome: Rate!Outcomes]

\* The requests of a network that a window's counter has seen.
Counted(n, w) == {i \in 1..Len(log) : Rate!From(log[i].req, n) /\ log[i].window = w}

Allowed(n, w) == {i \in Counted(n, w) : log[i].outcome = "allowed"}

\* While a key lives it counts every request of its window, and it lives
\* until the window is over for every replica.
SoundKey(k) ==
  /\ keys[k] \in [n: Nat \ {0}, until: Nat]
  /\ keys[k].n = Cardinality(Counted(k[1], k[2]))
  /\ \A r \in Replicas : (k[2] + 1) * Window <= keys[k].until + offset[r]

\* A counter that is gone belongs to a window that is over everywhere.
SoundLog(i) ==
  /\ \E r \in Replicas : log[i].window = (log[i].at + offset[r]) \div Window
  /\ \A n \in Rate!Networks :
       Rate!From(log[i].req, n) /\ <<n, log[i].window>> \notin DOMAIN keys =>
         \A r \in Replicas : log[i].window < Rate!WindowAt(r)

RateInv ==
  /\ log \in Seq(LogEntries) /\ Len(log) <= MaxRequests
  /\ \A k \in DOMAIN keys : SoundKey(k)
  /\ \A i \in 1..Len(log) : SoundLog(i)
  /\ \A n \in Rate!Networks, w \in Nat : Cardinality(Allowed(n, w)) <= Limit

LEMMA RateFacts ==
  /\ Limit \in Nat \ {0} /\ Window \in Nat \ {0} /\ KeyTTL \in Nat \ {0}
  /\ Offsets \subseteq Nat /\ MaxNow \in Nat /\ MaxRequests \in Nat
BY PartsAssumption DEF Rate!RateAssumption

LEMMA RateFields ==
  ASSUME Rate!RateTypeOK
  PROVE  now \in Nat /\ \A r \in Replicas : offset[r] \in Offsets /\ offset[r] \in Nat
<1>1. now \in 0..MaxNow /\ offset \in [Replicas -> Offsets]
  BY DEF Rate!RateTypeOK
<1>2. now \in Nat
  BY <1>1, RateFacts
<1>3. ASSUME NEW r \in Replicas PROVE offset[r] \in Offsets /\ offset[r] \in Nat
  <2>1. offset[r] \in Offsets
    BY <1>1
  <2>2. Offsets \subseteq Nat
    BY RateFacts
  <2> QED BY <2>1, <2>2
<1> QED BY <1>2, <1>3

\* Every request is of one network.
LEMMA OneNetwork ==
  \A q \in RateRequests :
    /\ Rate!Network(q) \in Rate!Networks
    /\ \A n : Rate!From(q, n) <=> n = Rate!Network(q)
BY PartsAssumption DEF Rate!RateAssumption, Rate!From, Rate!Network, Rate!Networks

\* A window is over when its end is reached, and time does not go back.
LEMMA WindowsEnd ==
  ASSUME NEW x \in Nat, NEW w \in Nat, NEW t \in Nat \ {0}, (w + 1) * t <= x
  PROVE  w < x \div t
<1> DEFINE q == x \div t
<1>1. q \in Nat /\ x < q * t + t
  BY Quotient
<1> HIDE DEF q
<1>2. SUFFICES ASSUME q <= w PROVE FALSE
  BY <1>1 DEF q
<1>3. q * t + t <= (w + 1) * t
  <2>1. (w + 1) * t = w * t + t /\ q * t <= w * t
    BY <1>1, <1>2
  <2> QED BY <1>1, <2>1
<1> QED BY <1>1, <1>3

LEMMA WindowsMove ==
  ASSUME NEW x \in Nat, NEW y \in Nat, NEW t \in Nat \ {0}, x <= y
  PROVE  x \div t <= y \div t
<1> DEFINE q == x \div t
           p == y \div t
<1>1. q \in Nat /\ p \in Nat /\ q * t <= x /\ y < p * t + t
  BY Quotient
<1> HIDE DEF q, p
<1>2. SUFFICES ASSUME p + 1 <= q PROVE FALSE
  BY <1>1 DEF q, p
<1>3. p * t + t <= q * t
  <2>1. (p + 1) * t = p * t + t /\ (p + 1) * t <= q * t
    BY <1>1, <1>2
  <2> QED BY <2>1
<1> QED BY <1>1, <1>3

LEMMA CountedFinite ==
  ASSUME RateInv, NEW n, NEW w
  PROVE  /\ IsFiniteSet(Counted(n, w)) /\ Cardinality(Counted(n, w)) \in Nat
         /\ Cardinality(Counted(n, w)) <= Len(log)
         /\ IsFiniteSet(Allowed(n, w)) /\ Cardinality(Allowed(n, w)) \in Nat
         /\ Cardinality(Allowed(n, w)) <= Cardinality(Counted(n, w))
<1>1. Len(log) \in Nat
  BY DEF RateInv
<1>2. IsFiniteSet(1..Len(log)) /\ Cardinality(1..Len(log)) = Len(log)
  BY <1>1, UpTo
<1>3. Counted(n, w) \subseteq 1..Len(log) /\ Allowed(n, w) \subseteq Counted(n, w)
  BY DEF Counted, Allowed
<1>4. IsFiniteSet(Counted(n, w)) /\ Cardinality(Counted(n, w)) <= Len(log)
  BY <1>2, <1>3, FS_Subset
<1>5. IsFiniteSet(Allowed(n, w)) /\ Cardinality(Allowed(n, w)) <= Cardinality(Counted(n, w))
  BY <1>3, <1>4, FS_Subset
<1> QED BY <1>4, <1>5, FS_CardinalityType

\* The clocks of the replicas differ by no more than a key outlives its
\* window, which is less than a window.
ClocksAgree == \A a, b \in Offsets : a + Window <= b + KeyTTL /\ a <= b + Window

LEMMA Outlives ==
  ASSUME NEW y \in Nat, NEW a \in Nat, NEW b \in Nat, NEW c \in Nat, NEW t \in Nat, NEW k \in Nat,
         y <= a + b, b + t <= c + k
  PROVE  y + t <= a + k + c
OBVIOUS

\* A request is logged and its counter incremented.
LEMMA RequestCounts ==
  ASSUME ClocksAgree, Rate!RateTypeOK, RateInv, NEW r \in Replicas, NEW q \in RateRequests,
         NEW answer \in Rate!Outcomes, Len(log) < MaxRequests,
         NEW k, k = <<Rate!Network(q), Rate!WindowAt(r)>>, keys' = Rate!Incr(k),
         log' = Append(log, Rate!Entry(r, q, answer)), UNCHANGED <<now, offset>>,
         answer = "allowed" => keys'[k].n <= Limit
  PROVE  /\ Rate!RateTypeOK' /\ RateInv'
         /\ keys'[k].n = Cardinality(Counted(k[1], k[2])) + 1
<1> USE RateFacts, RateFields
<1> DEFINE m == Len(log) + 1
           e == Rate!Entry(r, q, answer)
<1>0. PICK n, w : n = Rate!Network(q) /\ w = Rate!WindowAt(r)
  OBVIOUS
<1>1. w = (now + offset[r]) \div Window /\ w \in Nat /\ w * Window <= now + offset[r]
  <2>1. now + offset[r] \in Nat
    OBVIOUS
  <2> QED BY <1>0, <2>1, Quotient DEF Rate!WindowAt
<1>2. e \in LogEntries /\ e.req = q /\ e.at = now /\ e.window = w /\ e.outcome = answer
  BY <1>0, <1>1 DEF Rate!Entry, LogEntries, Rate!RateTypeOK
<1>3. k = <<n, w>> /\ k[1] = n /\ k[2] = w /\ n \in Rate!Networks /\ \A x : Rate!From(q, x) <=> x = n
  BY <1>0, OneNetwork
<1> HIDE DEF e
<1>4. /\ log' \in Seq(LogEntries) /\ Len(log') = m /\ m \in Nat /\ log'[m] = e
      /\ \A i \in 1..Len(log) : log'[i] = log[i]
      /\ 1..m = 1..Len(log) \cup {m} /\ m \notin 1..Len(log)
  BY <1>2 DEF e, RateInv
<1> HIDE DEF m
<1>5. ASSUME NEW x, NEW v
      PROVE  /\ Counted(x, v)' = IF x = n /\ v = w THEN Counted(x, v) \cup {m} ELSE Counted(x, v)
             /\ m \notin Counted(x, v)
  <2>1. Counted(x, v)' = {i \in 1..m : Rate!From(log'[i].req, x) /\ log'[i].window = v}
    BY <1>4 DEF Counted, Rate!From
  <2>2. \A i \in 1..Len(log) : (Rate!From(log'[i].req, x) <=> Rate!From(log[i].req, x)) /\ log'[i].window = log[i].window
    BY <1>4
  <2>3. (Rate!From(log'[m].req, x) /\ log'[m].window = v) <=> x = n /\ v = w
    BY <1>2, <1>3, <1>4
  <2> QED BY <1>4, <2>1, <2>2, <2>3 DEF Counted
<1>6. Cardinality(Counted(n, w)') = Cardinality(Counted(n, w)) + 1
  <2>1. Counted(n, w)' = Counted(n, w) \cup {m} /\ m \notin Counted(n, w) /\ IsFiniteSet(Counted(n, w))
    BY <1>5, CountedFinite
  <2> QED BY <2>1, FS_AddElement
<1>7. /\ DOMAIN keys' = DOMAIN keys \cup {k}
      /\ \A x \in DOMAIN keys : x # k => keys'[x] = keys[x]
      /\ k \in DOMAIN keys => keys'[k] = [keys[k] EXCEPT !.n = @ + 1]
      /\ k \notin DOMAIN keys => keys'[k] = [n |-> 1, until |-> now + KeyTTL]
  BY DEF Rate!Incr
<1>8. /\ keys'[k] \in [n: Nat \ {0}, until: Nat]
      /\ keys'[k].n = Cardinality(Counted(n, w)) + 1
      /\ keys'[k].until > now
      /\ \A s \in Replicas : (w + 1) * Window <= keys'[k].until + offset[s]
  <2>1. CASE k \in DOMAIN keys
    <3>1. SoundKey(k) /\ keys[k].until > now
      BY <2>1 DEF RateInv, Rate!RateTypeOK
    <3>2. keys'[k].n = keys[k].n + 1 /\ keys'[k].until = keys[k].until /\ keys'[k] \in [n: Nat \ {0}, until: Nat]
      <4> DEFINE z == keys[k]
      <4>1. z \in [n: Nat \ {0}, until: Nat] /\ keys'[k] = [z EXCEPT !.n = @ + 1]
        BY <1>7, <2>1, <3>1 DEF SoundKey
      <4> HIDE DEF z
      <4>2. keys'[k].n = z.n + 1 /\ keys'[k].until = z.until /\ keys'[k] \in [n: Nat \ {0}, until: Nat]
        BY <4>1
      <4> QED BY <4>2 DEF z
    <3> QED BY <1>3, <3>1, <3>2 DEF SoundKey
  <2>2. CASE k \notin DOMAIN keys
    <3>1. Counted(n, w) = {}
      <4>1. SUFFICES ASSUME NEW i \in Counted(n, w) PROVE FALSE
        OBVIOUS
      <4>2. i \in 1..Len(log) /\ Rate!From(log[i].req, n) /\ log[i].window = w /\ SoundLog(i)
        BY <4>1 DEF Counted, RateInv
      <4>3. w < Rate!WindowAt(r)
        BY <1>3, <2>2, <4>2 DEF SoundLog
      <4> QED BY <1>0, <1>1, <4>3
    <3>2. Cardinality(Counted(n, w)) = 0
      BY <3>1, FS_EmptySet
    <3>3. keys'[k].n = 1 /\ keys'[k].until = now + KeyTTL /\ keys'[k] \in [n: Nat \ {0}, until: Nat]
      BY <1>7, <2>2
    <3>4. ASSUME NEW s \in Replicas PROVE (w + 1) * Window <= now + KeyTTL + offset[s]
      <4>1. offset[r] + Window <= offset[s] + KeyTTL
        BY DEF ClocksAgree
      <4>2. (w + 1) * Window = w * Window + Window
        BY <1>1
      <4> DEFINE y == w * Window
      <4>3. y \in Nat /\ y <= now + offset[r] /\ now \in Nat /\ offset[r] \in Nat /\ offset[s] \in Nat
        BY <1>1
      <4> HIDE DEF y
      <4>4. y + Window <= now + KeyTTL + offset[s]
        BY <4>1, <4>3, Outlives
      <4> QED BY <4>2, <4>4 DEF y
    <3>5. now + KeyTTL > now
      OBVIOUS
    <3>6. \A s \in Replicas : (w + 1) * Window <= keys'[k].until + offset[s]
      BY <3>3, <3>4
    <3>7. keys'[k].n = Cardinality(Counted(n, w)) + 1
      BY <3>2, <3>3
    <3>8. keys'[k].until > now
      BY <3>3, <3>5
    <3> QED BY <3>3, <3>6, <3>7, <3>8
  <2> QED BY <2>1, <2>2
<1>9. ASSUME NEW x \in DOMAIN keys' PROVE SoundKey(x)'
  <2>1. CASE x = k
    BY <1>3, <1>6, <1>8, <2>1 DEF SoundKey
  <2>2. CASE x # k
    <3>1. x \in DOMAIN keys /\ keys'[x] = keys[x] /\ SoundKey(x)
      BY <1>7, <2>2 DEF RateInv
    <3>2. x \in Rate!Networks \X Nat
      BY <3>1 DEF Rate!RateTypeOK
    <3>3. ~(x[1] = n /\ x[2] = w)
      BY <1>3, <2>2, <3>2
    <3>4. Counted(x[1], x[2])' = Counted(x[1], x[2])
      BY <1>5, <3>3
    <3> QED BY <3>1, <3>4 DEF SoundKey
  <2> QED BY <2>1, <2>2
<1>10. ASSUME NEW i \in 1..Len(log') PROVE SoundLog(i)'
  <2>1. CASE i = m
    BY <1>1, <1>2, <1>3, <1>4, <1>7, <2>1 DEF SoundLog
  <2>2. CASE i \in 1..Len(log)
    <3>1. log'[i] = log[i] /\ SoundLog(i) /\ DOMAIN keys \subseteq DOMAIN keys'
      BY <1>4, <1>7, <2>2 DEF RateInv
    <3>2. Rate!Networks' = Rate!Networks /\ \A s \in Replicas : Rate!WindowAt(s)' = Rate!WindowAt(s)
      BY DEF Rate!WindowAt, Rate!Networks
    <3> QED BY <3>1, <3>2 DEF SoundLog
  <2> QED BY <1>4, <2>1, <2>2
<1>11. ASSUME NEW x \in Rate!Networks, NEW v \in Nat PROVE Cardinality(Allowed(x, v)') <= Limit
  <2>1. Allowed(x, v)' = {i \in Counted(x, v)' : log'[i].outcome = "allowed"}
    BY DEF Allowed
  <2>2. \A i \in Counted(x, v) : i \in 1..Len(log) /\ log'[i] = log[i]
    BY <1>4 DEF Counted
  <2>3. CASE x = n /\ v = w /\ answer = "allowed"
    <3>1. IsFiniteSet(Counted(x, v)')
      BY <2>3, <1>5, CountedFinite, FS_AddElement
    <3>2. Cardinality(Allowed(x, v)') <= Cardinality(Counted(x, v)')
      BY <2>1, <3>1, FS_Subset
    <3>3. Cardinality(Counted(x, v)') <= Limit
      BY <1>6, <1>8, <2>3
    <3>4. IsFiniteSet(Allowed(x, v)') /\ Cardinality(Allowed(x, v)') \in Nat /\ Cardinality(Counted(x, v)') \in Nat
      BY <2>1, <3>1, FS_Subset, FS_CardinalityType
    <3> QED BY <3>2, <3>3, <3>4
  <2>4. CASE ~(x = n /\ v = w /\ answer = "allowed")
    <3>1. log'[m].outcome = answer
      BY <1>2, <1>4
    <3>2. Allowed(x, v)' = Allowed(x, v)
      <4>1. CASE x = n /\ v = w
        <5>1. Counted(x, v)' = Counted(x, v) \cup {m} /\ log'[m].outcome # "allowed"
          BY <1>5, <2>4, <3>1, <4>1
        <5> QED BY <2>1, <2>2, <5>1 DEF Allowed
      <4>2. CASE ~(x = n /\ v = w)
        <5>1. Counted(x, v)' = Counted(x, v)
          BY <1>5, <4>2
        <5> QED BY <2>1, <2>2, <5>1 DEF Allowed
      <4> QED BY <4>1, <4>2
    <3> QED BY <3>2 DEF RateInv
  <2> QED BY <2>3, <2>4
<1>12. Len(log') <= MaxRequests
  BY <1>4 DEF m, RateInv
<1>13. RateInv'
  BY <1>4, <1>9, <1>10, <1>11, <1>12 DEF RateInv, Rate!Networks
<1>14. Rate!RateTypeOK'
  <2>1. ASSUME NEW x \in DOMAIN keys'
        PROVE  keys'[x].n \in 1..MaxRequests /\ keys'[x].until > now /\ x \in Rate!Networks \X Nat
    <3>1. CASE x = k
      <4>1. Cardinality(Counted(n, w)) \in Nat /\ Cardinality(Counted(n, w)) <= Len(log)
        BY CountedFinite
      <4>2. keys'[x].n \in Nat \ {0} /\ keys'[x].n = Cardinality(Counted(n, w)) + 1 /\ keys'[x].until > now
        BY <1>8, <3>1
      <4>3. Len(log) \in Nat /\ Len(log) < MaxRequests
        BY DEF RateInv
      <4> DEFINE c == Cardinality(Counted(n, w))
      <4>4. c \in Nat /\ c <= Len(log) /\ keys'[x].n = c + 1
        BY <4>1, <4>2
      <4> HIDE DEF c
      <4>5. keys'[x].n \in 1..MaxRequests
        BY <4>3, <4>4
      <4> QED BY <1>1, <1>3, <3>1, <4>2, <4>5
    <3>2. CASE x # k
      BY <1>7, <3>2 DEF Rate!RateTypeOK
    <3> QED BY <3>1, <3>2
  <2>2. \A i \in 1..Len(log') : log'[i] \in LogEntries
    BY <1>4
  <2> QED BY <2>1, <2>2 DEF Rate!RateTypeOK, LogEntries, Rate!Networks
<1> QED BY <1>3, <1>8, <1>13, <1>14

\* Redis drops what has expired.
LEMMA TickCounts ==
  ASSUME Rate!RateTypeOK, RateInv, Rate!Tick
  PROVE  Rate!RateTypeOK' /\ RateInv'
<1> USE RateFacts, RateFields
<1>1. /\ now < MaxNow /\ now' = now + 1 /\ UNCHANGED <<offset, log>>
      /\ DOMAIN keys' = {x \in DOMAIN keys : keys[x].until > now + 1}
      /\ \A x \in DOMAIN keys' : keys'[x] = keys[x]
  BY DEF Rate!Tick
<1>2. ASSUME NEW n, NEW w PROVE Counted(n, w)' = Counted(n, w) /\ Allowed(n, w)' = Allowed(n, w)
  BY <1>1 DEF Counted, Allowed
<1>3. ASSUME NEW k \in DOMAIN keys' PROVE SoundKey(k)'
  <2>1. SoundKey(k) /\ keys'[k] = keys[k]
    BY <1>1, <1>3 DEF RateInv
  <2> QED BY <1>1, <1>2, <2>1 DEF SoundKey
<1>4. ASSUME NEW i \in 1..Len(log') PROVE SoundLog(i)'
  <2> DEFINE w == log[i].window
  <2>1. i \in 1..Len(log) /\ SoundLog(i) /\ log' = log /\ offset' = offset
    BY <1>1, <1>4 DEF RateInv
  <2>2. w \in Nat
    <3>1. log[i] \in LogEntries
      BY <2>1 DEF RateInv
    <3> QED BY <3>1 DEF LogEntries
  <2> HIDE DEF w
  <2>3. ASSUME NEW n \in Rate!Networks, Rate!From(log[i].req, n), <<n, w>> \notin DOMAIN keys', NEW r \in Replicas
        PROVE  w < (now + 1 + offset[r]) \div Window
    <3>0. now + offset[r] \in Nat /\ now + 1 + offset[r] \in Nat /\ now + offset[r] <= now + 1 + offset[r]
      OBVIOUS
    <3>1. CASE <<n, w>> \notin DOMAIN keys
      <4>1. w < (now + offset[r]) \div Window
        BY <2>1, <2>3, <3>1 DEF SoundLog, Rate!WindowAt, w
      <4>2. (now + offset[r]) \div Window <= (now + 1 + offset[r]) \div Window
        BY <3>0, WindowsMove
      <4>3. (now + offset[r]) \div Window \in Nat /\ (now + 1 + offset[r]) \div Window \in Nat
        BY <3>0, Quotient
      <4> QED BY <2>2, <4>1, <4>2, <4>3
    <3>2. CASE <<n, w>> \in DOMAIN keys
      <4> DEFINE k == <<n, w>>
      <4>1. SoundKey(k) /\ ~(keys[k].until > now + 1) /\ k[2] = w
        BY <1>1, <2>3, <3>2 DEF RateInv
      <4> HIDE DEF k
      <4>2. keys[k].until \in Nat /\ (w + 1) * Window <= keys[k].until + offset[r]
        BY <4>1 DEF SoundKey
      <4> DEFINE y == (w + 1) * Window
      <4>3. y \in Nat
        BY <2>2
      <4> HIDE DEF y
      <4>4. y <= now + 1 + offset[r]
        <5>1. keys[k].until <= now + 1
          BY <4>1, <4>2
        <5>2. y <= keys[k].until + offset[r]
          BY <4>2 DEF y
        <5> QED BY <4>2, <4>3, <5>1, <5>2
      <4> QED BY <2>2, <3>0, <4>4, WindowsEnd DEF y
    <3> QED BY <3>1, <3>2
  <2>4. \A r \in Replicas : Rate!WindowAt(r)' = (now + 1 + offset[r]) \div Window
    BY <1>1 DEF Rate!WindowAt
  <2>5. Rate!Networks' = Rate!Networks
    BY DEF Rate!Networks
  <2> QED BY <2>1, <2>3, <2>4, <2>5 DEF SoundLog, w
<1>5. RateInv'
  BY <1>1, <1>2, <1>3, <1>4 DEF RateInv, Rate!Networks
<1>6. Rate!RateTypeOK'
  <2>1. now' \in 0..MaxNow
    BY <1>1
  <2>2. DOMAIN keys' \subseteq DOMAIN keys /\ \A x \in DOMAIN keys' : keys'[x] = keys[x] /\ keys'[x].until > now'
    BY <1>1
  <2> QED BY <1>1, <2>1, <2>2 DEF Rate!RateTypeOK, Rate!Networks
<1> QED BY <1>5, <1>6

LEMMA RateInit == Rate!Init => Rate!RateTypeOK /\ RateInv
<1> SUFFICES ASSUME Rate!Init PROVE Rate!RateTypeOK /\ RateInv
  OBVIOUS
<1> USE RateFacts
<1>1. now = 0 /\ log = <<>> /\ Len(log) = 0 /\ DOMAIN keys = {} /\ offset \in [Replicas -> Offsets]
  BY DEF Rate!Init
<1>2. \A n, w : Cardinality(Allowed(n, w)) = 0
  <2>1. \A n, w : Allowed(n, w) = {}
    BY <1>1 DEF Allowed, Counted
  <2> QED BY <2>1, FS_EmptySet
<1>3. RateInv
  <2>1. log \in Seq(LogEntries)
    BY <1>1
  <2> QED BY <1>1, <1>2, <2>1 DEF RateInv
<1> QED BY <1>1, <1>3 DEF Rate!RateTypeOK

-----------------------------------------------------------------------------
\* The requests of its network that a window has seen before request i.
Before(i, n) == {j \in 1..i - 1 : Rate!From(log[j].req, n) /\ log[j].window = log[i].window}

RefusedInv ==
  \A i \in 1..Len(log) : log[i].outcome = "refused" =>
    \E n \in Rate!Networks : Rate!From(log[i].req, n) /\ Cardinality(Before(i, n)) >= Limit

LEMMA RefusedUnmoved ==
  ASSUME RefusedInv, log' = log
  PROVE  RefusedInv'
<1>1. \A i, n : Before(i, n)' = Before(i, n)
  BY DEF Before
<1> QED BY <1>1 DEF RefusedInv, Rate!Networks

\* A request that is refused has Limit requests of its network before it.
LEMMA RefusedStays ==
  ASSUME Rate!RateTypeOK, RateInv, RefusedInv, NEW e, e \in LogEntries, log' = Append(log, e),
         e.outcome = "refused" =>
           \E n \in Rate!Networks : Rate!From(e.req, n) /\ Cardinality(Counted(n, e.window)) >= Limit
  PROVE  RefusedInv'
<1>1. /\ Len(log) \in Nat /\ Len(log') = Len(log) + 1 /\ log'[Len(log) + 1] = e
      /\ \A i \in 1..Len(log) : log'[i] = log[i]
  BY DEF RateInv
<1>2. ASSUME NEW i \in 1..Len(log'), log'[i].outcome = "refused"
      PROVE  \E n \in Rate!Networks : Rate!From(log'[i].req, n) /\ Cardinality(Before(i, n)') >= Limit
  <2>1. CASE i \in 1..Len(log)
    <3>1. ASSUME NEW n PROVE Before(i, n)' = Before(i, n)
      <4>1. \A j \in 1..i - 1 : log'[j] = log[j]
        BY <1>1, <2>1
      <4> QED BY <1>1, <2>1, <4>1 DEF Before, Rate!From
    <3>2. log'[i] = log[i]
      BY <1>1, <2>1
    <3> QED BY <1>2, <2>1, <3>1, <3>2 DEF RefusedInv
  <2>2. CASE i = Len(log) + 1
    <3>1. ASSUME NEW n PROVE Before(i, n)' = Counted(n, e.window)
      <4>1. i - 1 = Len(log) /\ log'[i] = e
        BY <1>1, <2>2
      <4> QED BY <1>1, <4>1 DEF Before, Counted, Rate!From
    <3>2. log'[i] = e
      BY <1>1, <2>2
    <3> QED BY <1>2, <3>1, <3>2
  <2> QED BY <1>1, <2>1, <2>2
<1> QED BY <1>2 DEF RefusedInv, Rate!Networks, Rate!From

LEMMA RateNext ==
  ClocksAgree /\ Rate!RateTypeOK /\ RateInv /\ RefusedInv /\ [Rate!Next]_rateVars
    => (Rate!RateTypeOK /\ RateInv /\ RefusedInv)'
<1> SUFFICES ASSUME ClocksAgree, Rate!RateTypeOK, RateInv, RefusedInv, [Rate!Next]_rateVars
             PROVE  (Rate!RateTypeOK /\ RateInv /\ RefusedInv)'
  OBVIOUS
<1> USE RateFacts
<1>1. ASSUME NEW r \in Replicas, NEW q \in RateRequests, NEW answer \in Rate!Outcomes, Len(log) < MaxRequests,
             keys' = Rate!Incr(<<Rate!Network(q), Rate!WindowAt(r)>>),
             log' = Append(log, Rate!Entry(r, q, answer)), UNCHANGED <<now, offset>>,
             LET k == <<Rate!Network(q), Rate!WindowAt(r)>>
             IN  /\ answer = "allowed" => keys'[k].n <= Limit
                 /\ answer = "refused" => ~(keys'[k].n <= Limit)
      PROVE  (Rate!RateTypeOK /\ RateInv /\ RefusedInv)'
  <2>1. PICK k : k = <<Rate!Network(q), Rate!WindowAt(r)>>
    OBVIOUS
  <2>2. /\ Rate!RateTypeOK' /\ RateInv'
        /\ keys'[k].n = Cardinality(Counted(k[1], k[2])) + 1
    BY <1>1, <2>1, RequestCounts
  <2>3. PICK e : e = Rate!Entry(r, q, answer)
    OBVIOUS
  <2>4. e \in LogEntries /\ e.req = q /\ e.window = Rate!WindowAt(r) /\ e.outcome = answer
    <3>1. now \in 0..MaxNow /\ now + offset[r] \in Nat
      BY RateFields DEF Rate!RateTypeOK
    <3>2. Rate!WindowAt(r) \in Nat
      BY <3>1, Quotient DEF Rate!WindowAt
    <3> QED BY <2>3, <3>1, <3>2 DEF Rate!Entry, LogEntries
  <2>5. answer = "refused" =>
          \E n \in Rate!Networks : Rate!From(e.req, n) /\ Cardinality(Counted(n, e.window)) >= Limit
    <3>1. SUFFICES ASSUME answer = "refused"
                   PROVE  Rate!From(q, Rate!Network(q)) /\ Cardinality(Counted(Rate!Network(q), Rate!WindowAt(r))) >= Limit
      BY <2>4, OneNetwork
    <3>2. Rate!From(q, Rate!Network(q))
      BY OneNetwork
    <3> DEFINE c == Cardinality(Counted(Rate!Network(q), Rate!WindowAt(r)))
    <3>3. c \in Nat /\ keys'[k].n = c + 1 /\ ~(keys'[k].n <= Limit)
      BY <1>1, <2>1, <2>2, <3>1, CountedFinite
    <3> HIDE DEF c
    <3>4. c >= Limit
      BY <3>3
    <3> QED BY <3>2, <3>4 DEF c
  <2>6. RefusedInv'
    BY <1>1, <2>3, <2>4, <2>5, RefusedStays
  <2> QED BY <2>2, <2>6
<1>2. ASSUME NEW r \in Replicas, NEW q \in RateRequests, Rate!AllowRate(r, q)
      PROVE  (Rate!RateTypeOK /\ RateInv /\ RefusedInv)'
  <2> DEFINE k == <<Rate!Network(q), Rate!WindowAt(r)>>
  <2>1. /\ Len(log) < MaxRequests /\ keys' = Rate!Incr(k) /\ UNCHANGED <<now, offset>>
        /\ log' = Append(log, Rate!Entry(r, q, IF Rate!Allow(keys'[k].n) THEN "allowed" ELSE "refused"))
    BY <1>2 DEF Rate!AllowRate
  <2>2. CASE keys'[k].n <= Limit
    <3>1. log' = Append(log, Rate!Entry(r, q, "allowed"))
      BY <2>1, <2>2 DEF Rate!Allow
    <3> QED BY <1>1, <2>1, <2>2, <3>1 DEF Rate!Outcomes
  <2>3. CASE ~(keys'[k].n <= Limit)
    <3>1. log' = Append(log, Rate!Entry(r, q, "refused"))
      BY <2>1, <2>3 DEF Rate!Allow
    <3> QED BY <1>1, <2>1, <2>3, <3>1 DEF Rate!Outcomes
  <2> QED BY <2>2, <2>3
<1>3. ASSUME NEW r \in Replicas, NEW q \in RateRequests, Rate!AnswerLost(r, q)
      PROVE  (Rate!RateTypeOK /\ RateInv /\ RefusedInv)'
  BY <1>1, <1>3 DEF Rate!AnswerLost, Rate!Outcomes
<1>4. CASE Rate!Tick
  <2>1. log' = log
    BY <1>4 DEF Rate!Tick
  <2>2. RefusedInv'
    BY <2>1, RefusedUnmoved
  <2> QED BY <1>4, <2>2, TickCounts
<1>5. CASE UNCHANGED rateVars
  <2>1. UNCHANGED <<now, offset, keys, log>>
    BY <1>5 DEF rateVars
  <2>2. Rate!RateTypeOK'
    BY <2>1 DEF Rate!RateTypeOK, Rate!Networks
  <2>3. \A n, w : Counted(n, w)' = Counted(n, w) /\ Allowed(n, w)' = Allowed(n, w)
    BY <2>1 DEF Counted, Allowed
  <2>4. \A k \in DOMAIN keys : SoundKey(k)'
    BY <2>1, <2>3 DEF RateInv, SoundKey
  <2>5. \A i \in 1..Len(log) : SoundLog(i)'
    BY <2>1 DEF RateInv, SoundLog, Rate!WindowAt, Rate!Networks
  <2>6. RateInv'
    BY <2>1, <2>3, <2>4, <2>5 DEF RateInv, Rate!Networks
  <2>7. RefusedInv'
    BY <2>1, RefusedUnmoved
  <2> QED BY <2>2, <2>6, <2>7
<1> QED BY <1>2, <1>3, <1>4, <1>5 DEF Rate!Next

-----------------------------------------------------------------------------
LEMMA InstanceCardinality == \A S : Rate!Cardinality(S) = Cardinality(S)
BY Zenon DEF Rate!Cardinality, Cardinality

\* An interval of Window ticks meets windows that are close to each other.
LEMMA WindowsMet ==
  ASSUME NEW x \in Nat, NEW y \in Nat, NEW t \in Nat \ {0}, NEW d \in {1, 2}, x <= y + d * t
  PROVE  x \div t <= y \div t + d
<1> DEFINE q == x \div t
           p == y \div t
<1>1. q \in Nat /\ p \in Nat /\ q * t <= x /\ y < p * t + t
  BY Quotient
<1> HIDE DEF q, p
<1>2. SUFFICES ASSUME p + d + 1 <= q PROVE FALSE
  BY <1>1 DEF q, p
<1>3. (p + d + 1) * t <= q * t
  BY <1>1, <1>2
<1>4. (p + d + 1) * t = p * t + d * t + t
  BY <1>1
<1> QED BY <1>1, <1>3, <1>4

\* A union of sets of at most n elements.
LEMMA UnionBound ==
  ASSUME NEW S, NEW T, IsFiniteSet(S), IsFiniteSet(T), NEW a \in Nat, NEW b \in Nat,
         Cardinality(S) <= a, Cardinality(T) <= b
  PROVE  IsFiniteSet(S \cup T) /\ Cardinality(S \cup T) <= a + b
<1>1. IsFiniteSet(S \cap T)
  BY FS_Subset
<1>2. Cardinality(S \cap T) \in Nat /\ Cardinality(S) \in Nat /\ Cardinality(T) \in Nat
  BY <1>1, FS_CardinalityType
<1>3. IsFiniteSet(S \cup T) /\ Cardinality(S \cup T) = Cardinality(S) + Cardinality(T) - Cardinality(S \cap T)
  BY FS_Union
<1> QED BY <1>2, <1>3

\* Numbers that are close to each other begin somewhere.
LEMMA Begin ==
  ASSUME NEW W \in SUBSET Nat, NEW d \in {1, 2}, NEW x \in W, \A v, w \in W : v <= w + d
  PROVE  \E w \in Nat : W \subseteq w..w + d
<1>1. \A v, w \in W : v \in Nat /\ w \in Nat /\ v <= w + d
  OBVIOUS
<1>2. ASSUME NEW v \in W, v + 2 = x PROVE W \subseteq v..v + d
  BY <1>1, <1>2
<1>3. ASSUME NEW v \in W, v + 1 = x, ~\E w \in W : w + 2 = x PROVE W \subseteq v..v + d
  BY <1>1, <1>3
<1>4. ASSUME ~\E w \in W : w + 1 = x \/ w + 2 = x PROVE W \subseteq x..x + d
  BY <1>1, <1>4
<1> QED BY <1>1, <1>2, <1>3, <1>4

LEMMA Apart ==
  ASSUME NEW x \in Nat, NEW o \in Nat, NEW y \in Nat, NEW p \in Nat, NEW a \in Nat, NEW t \in Nat, NEW u \in Nat,
         x <= a + t - 1, a <= y, o + t <= p + u + 1
  PROVE  x + o <= y + p + u
OBVIOUS

\* What goes through in an interval goes through in the windows it meets.
LEMMA IntervalBound ==
  ASSUME ClocksAgree, Rate!RateTypeOK, RateInv, NEW n \in Rate!Networks, NEW a \in Nat, NEW d \in {1, 2},
         \A r, s \in Replicas : offset[r] + Window <= offset[s] + d * Window + 1
  PROVE  Cardinality({j \in 1..Len(log) : /\ Rate!From(log[j].req, n) /\ log[j].outcome = "allowed"
                                          /\ log[j].at \in a..a + Window - 1}) <= (d + 1) * Limit
<1> USE RateFacts, RateFields
<1> DEFINE S == {j \in 1..Len(log) : /\ Rate!From(log[j].req, n) /\ log[j].outcome = "allowed"
                                     /\ log[j].at \in a..a + Window - 1}
<1>1. \A j \in 1..Len(log) : log[j].window \in Nat /\ log[j].at \in Nat
  <2>1. \A j \in 1..Len(log) : log[j] \in LogEntries
    BY DEF RateInv
  <2> QED BY <2>1 DEF LogEntries
<1>2. ASSUME NEW j \in S, NEW k \in S PROVE log[j].window <= log[k].window + d
  <2>1. j \in 1..Len(log) /\ k \in 1..Len(log)
    OBVIOUS
  <2>2. PICK r \in Replicas : log[j].window = (log[j].at + offset[r]) \div Window
    BY <2>1 DEF RateInv, SoundLog
  <2>3. PICK s \in Replicas : log[k].window = (log[k].at + offset[s]) \div Window
    BY <2>1 DEF RateInv, SoundLog
  <2> DEFINE x == log[j].at + offset[r]
             y == log[k].at + offset[s]
             u == d * Window
  <2>4. log[j].at \in Nat /\ log[k].at \in Nat /\ offset[r] \in Nat /\ offset[s] \in Nat /\ u \in Nat
    <3>1. log[j].at \in Nat /\ log[k].at \in Nat
      BY <1>1, <2>1
    <3>2. u \in Nat
      <4>1. u = Window \/ u = 2 * Window
        OBVIOUS
      <4> HIDE DEF u
      <4> QED BY <4>1
    <3> HIDE DEF u, x, y, S
    <3> QED BY <3>1, <3>2
  <2>8. log[j].at <= a + Window - 1 /\ a <= log[k].at
    <3>1. log[j].at \in a..a + Window - 1 /\ log[k].at \in a..a + Window - 1
      OBVIOUS
    <3>2. a + Window - 1 \in Int
      OBVIOUS
    <3> QED BY <2>4, <3>1, <3>2
  <2>5. offset[r] + Window <= offset[s] + u + 1
    OBVIOUS
  <2>6. x \in Nat /\ y \in Nat /\ x <= y + u
    <3> HIDE DEF u
    <3>1. log[j].at + offset[r] <= log[k].at + offset[s] + u
      BY <2>4, <2>5, <2>8, Apart
    <3> \A p, q \in Nat : p + q \in Nat
      OBVIOUS
    <3>2. x \in Nat /\ y \in Nat
      BY <2>4, Zenon
    <3>3. x <= y + u
      BY <3>1
    <3> QED BY <3>2, <3>3
  <2> HIDE DEF x, y
  <2>7. x \div Window <= y \div Window + d
    BY <2>6, WindowsMet DEF u
  <2> QED BY <2>2, <2>3, <2>7 DEF x, y
<1>3. CASE S = {}
  <2>1. Cardinality(S) = 0 /\ (d + 1) * Limit \in Nat
    <3>1. Cardinality({}) = 0
      BY FS_EmptySet
    <3>2. (d + 1) * Limit \in Nat
      OBVIOUS
    <3> HIDE DEF S
    <3> QED BY <1>3, <3>1, <3>2
  <2>2. 0 <= (d + 1) * Limit
    OBVIOUS
  <2> HIDE DEF S
  <2>3. Cardinality(S) <= (d + 1) * Limit
    BY <2>1, <2>2
  <2> QED BY <2>3 DEF S
<1>4. CASE S # {}
  <2> DEFINE W == {log[j].window : j \in S}
  <2>1. W \in SUBSET Nat /\ W # {} /\ \A v, w \in W : v <= w + d
    BY <1>1, <1>2, <1>4
  <2>2. PICK w \in Nat : W \subseteq w..w + d
    <3> HIDE DEF W
    <3>1. PICK x \in W : TRUE
      BY <2>1
    <3> QED BY <2>1, Begin
  <2>3. \A v \in Nat : /\ IsFiniteSet(Allowed(n, v)) /\ Cardinality(Allowed(n, v)) <= Limit
    BY CountedFinite DEF RateInv
  <2> DEFINE T == Allowed(n, w) \cup Allowed(n, w + 1)
  <2>4. IsFiniteSet(T) /\ Cardinality(T) <= Limit + Limit
    <3>1. w \in Nat /\ w + 1 \in Nat /\ Limit \in Nat
      OBVIOUS
    <3>2. /\ IsFiniteSet(Allowed(n, w)) /\ Cardinality(Allowed(n, w)) <= Limit
          /\ IsFiniteSet(Allowed(n, w + 1)) /\ Cardinality(Allowed(n, w + 1)) <= Limit
      BY <2>3, <3>1
    <3> QED BY <3>1, <3>2, UnionBound
  <2>5. \A j \in S : j \in Allowed(n, log[j].window) /\ log[j].window \in w..w + d
    BY <2>2 DEF Allowed, Counted
  <2>6. CASE d = 1
    <3>1. S \subseteq T
      BY <2>5, <2>6
    <3>2. Cardinality(S) <= Cardinality(T) /\ Cardinality(S) \in Nat /\ Cardinality(T) \in Nat
      BY <2>4, <3>1, FS_Subset, FS_CardinalityType
    <3>3. (d + 1) * Limit = Limit + Limit
      BY <2>6
    <3> HIDE DEF S, T
    <3>4. Cardinality(S) <= (d + 1) * Limit
      BY <2>4, <3>2, <3>3
    <3> QED BY <3>4 DEF S
  <2>7. CASE d = 2
    <3> DEFINE U == T \cup Allowed(n, w + 2)
    <3>1. IsFiniteSet(U) /\ Cardinality(U) <= Limit + Limit + Limit
      <4>1. w + 2 \in Nat /\ Limit \in Nat /\ Limit + Limit \in Nat
        OBVIOUS
      <4>2. IsFiniteSet(Allowed(n, w + 2)) /\ Cardinality(Allowed(n, w + 2)) <= Limit
        BY <2>3, <4>1
      <4> HIDE DEF T
      <4> QED BY <2>4, <4>1, <4>2, UnionBound
    <3>2. S \subseteq U
      <4>1. \A v \in w..w + d : v = w \/ v = w + 1 \/ v = w + 2
        BY <2>7
      <4> QED BY <2>5, <4>1
    <3>3. Cardinality(S) <= Cardinality(U) /\ Cardinality(S) \in Nat /\ Cardinality(U) \in Nat
      BY <3>1, <3>2, FS_Subset, FS_CardinalityType
    <3>4. (d + 1) * Limit = Limit + Limit + Limit
      BY <2>7
    <3> HIDE DEF S, U
    <3>5. Cardinality(S) <= (d + 1) * Limit
      BY <3>1, <3>3, <3>4
    <3> QED BY <3>5 DEF S
  <2> QED BY <2>6, <2>7
<1> QED BY <1>3, <1>4

LEMMA RatePart == Spec => Rate!Init /\ [][Rate!Next]_rateVars
<1>1. Init => Rate!Init
  BY DEF Init
<1>2. [Next]_vars => [Rate!Next]_rateVars
  BY DEF Next, NextCache, NextTab, NextClients, NextRate, NextSum, vars
<1> QED BY <1>1, <1>2, PTL DEF Spec

\* While the clocks of the replicas agree as far as a key outlives its window,
\* a network gets no more through than the limit per window, two or three
\* times that in a minute, and is refused only for its own requests.
THEOREM LimitIsKept == ASSUME ClocksAgree PROVE Spec => []LimitHolds
<1>1. Rate!Init => RefusedInv
  <2> SUFFICES ASSUME Rate!Init PROVE RefusedInv
    OBVIOUS
  <2>1. Len(log) = 0
    BY DEF Rate!Init
  <2> QED BY <2>1 DEF RefusedInv
<1>2. Rate!RateTypeOK /\ RateInv /\ RefusedInv => LimitHolds
  <2> SUFFICES ASSUME Rate!RateTypeOK, RateInv, RefusedInv PROVE LimitHolds
    OBVIOUS
  <2> USE RateFacts, RateFields
  <2>1. Rate!RefusedAtLimit
    BY InstanceCardinality DEF RefusedInv, Rate!RefusedAtLimit, Before
  <2>2. \A i \in 1..Len(log) : log[i].window \in Nat /\ log[i].at \in Nat
    <3>1. \A i \in 1..Len(log) : log[i] \in LogEntries
      BY DEF RateInv
    <3> QED BY <3>1 DEF LogEntries
  <2>3. Rate!WindowLimit
    <3>1. SUFFICES ASSUME NEW n \in Rate!Networks, NEW i \in 1..Len(log)
                   PROVE  Cardinality({j \in 1..Len(log) : /\ Rate!From(log[j].req, n)
                                                           /\ log[j].window = log[i].window
                                                           /\ log[j].outcome = "allowed"}) <= Limit
      BY InstanceCardinality DEF Rate!WindowLimit, Rate!Number
    <3>2. {j \in 1..Len(log) : /\ Rate!From(log[j].req, n) /\ log[j].window = log[i].window
                               /\ log[j].outcome = "allowed"} = Allowed(n, log[i].window)
      BY DEF Allowed, Counted
    <3> QED BY <2>2, <3>2 DEF RateInv
  <2>4. Rate!MinuteLimit
    <3> DEFINE apart == \E r, s \in Replicas : offset[r] - offset[s] > 1
    <3>1. ASSUME NEW n \in Rate!Networks, NEW i \in 1..Len(log)
          PROVE  Cardinality({j \in 1..Len(log) : /\ Rate!From(log[j].req, n) /\ log[j].outcome = "allowed"
                                                  /\ log[j].at \in log[i].at..log[i].at + Window - 1})
                   <= (IF apart THEN 3 ELSE 2) * Limit
      <4>1. CASE apart
        <5>1. \A r, s \in Replicas : offset[r] + Window <= offset[s] + 2 * Window + 1
          BY DEF ClocksAgree
        <5>2. (2 + 1) * Limit = 3 * Limit
          OBVIOUS
        <5> HIDE DEF apart
        <5> QED BY <2>2, <4>1, <5>1, <5>2, IntervalBound
      <4>2. CASE ~apart
        <5>1. \A r, s \in Replicas : offset[r] + Window <= offset[s] + 1 * Window + 1
          BY <4>2
        <5>2. (1 + 1) * Limit = 2 * Limit
          OBVIOUS
        <5> HIDE DEF apart
        <5> QED BY <2>2, <4>2, <5>1, <5>2, IntervalBound
      <4> QED BY <4>1, <4>2
    <3> QED BY <3>1, InstanceCardinality DEF Rate!MinuteLimit, Rate!Number
  <2> QED BY <2>1, <2>3, <2>4 DEF LimitHolds, Rate!LimitHolds
<1> QED BY <1>1, <1>2, RateInit, RateNext, RatePart, PTL

-----------------------------------------------------------------------------
(* The browser and the handlers: what VoteEndpointProofs shows of one tab  *)
(* and of clients, in the joint specification.                             *)

TabFacts == INSTANCE VoteEndpointProofs WITH
  Votes <- TabVotes, Loads <- TabLoads, Sequential <- TRUE, ApiClient <- FALSE, MaxFaults <- TabFaults
ClientFacts == INSTANCE VoteEndpointProofs WITH
  Votes <- ClientVotes, Loads <- {}, Sequential <- FALSE, ApiClient <- TRUE, MaxFaults <- ClientFaults

LEMMA TabAssumption == TabFacts!EndpointAssumption
BY PartsAssumption DEF Tab!EndpointAssumption, TabFacts!EndpointAssumption, Tab!IsFiniteSet, TabFacts!IsFiniteSet

LEMMA TabInitSame == Tab!Init = TabFacts!Init
BY DEF Tab!Init, TabFacts!Init

LEMMA TabNextSame == Tab!Next = TabFacts!Next
BY Zenon
   DEF Tab!Next, TabFacts!Next, Tab!Send, TabFacts!Send, Tab!Identify, TabFacts!Identify, Tab!Receive,
       TabFacts!Receive, Tab!LoseAnswer, TabFacts!LoseAnswer, Tab!AnswerPage, TabFacts!AnswerPage,
       Tab!RefusePage, TabFacts!RefusePage, Tab!RejectEarly, TabFacts!RejectEarly, Tab!Vote, TabFacts!Vote,
       Tab!VoteFault, TabFacts!VoteFault, Tab!Count, TabFacts!Count, Tab!Observe, TabFacts!Observe,
       Tab!ScrapeMaps, TabFacts!ScrapeMaps, Tab!ScrapeRecorded, TabFacts!ScrapeRecorded, Tab!ScrapeDuplicates,
       TabFacts!ScrapeDuplicates, Tab!Fault, TabFacts!Fault, Tab!InFlight, TabFacts!InFlight, Tab!DeviceID,
       TabFacts!DeviceID, Tab!Outcome, TabFacts!Outcome

LEMMA ClientsAssumption == ClientFacts!EndpointAssumption
BY PartsAssumption DEF Clients!EndpointAssumption, ClientFacts!EndpointAssumption, Clients!IsFiniteSet, ClientFacts!IsFiniteSet

LEMMA ClientsInitSame == Clients!Init = ClientFacts!Init
BY DEF Clients!Init, ClientFacts!Init

LEMMA ClientsNextSame == Clients!Next = ClientFacts!Next
BY Zenon
   DEF Clients!Next, ClientFacts!Next, Clients!Send, ClientFacts!Send, Clients!Identify, ClientFacts!Identify,
       Clients!Receive, ClientFacts!Receive, Clients!LoseAnswer, ClientFacts!LoseAnswer, Clients!AnswerPage,
       ClientFacts!AnswerPage, Clients!RefusePage, ClientFacts!RefusePage, Clients!RejectEarly,
       ClientFacts!RejectEarly, Clients!Vote, ClientFacts!Vote, Clients!VoteFault, ClientFacts!VoteFault,
       Clients!Count, ClientFacts!Count, Clients!Observe, ClientFacts!Observe, Clients!ScrapeMaps,
       ClientFacts!ScrapeMaps, Clients!ScrapeRecorded, ClientFacts!ScrapeRecorded, Clients!ScrapeDuplicates,
       ClientFacts!ScrapeDuplicates, Clients!Fault, ClientFacts!Fault, Clients!InFlight, ClientFacts!InFlight,
       Clients!DeviceID, ClientFacts!DeviceID, Clients!Outcome, ClientFacts!Outcome

\* Each part moves by itself and the part never changes.
LEMMA TabPart ==
  /\ Init => (part # "clients" => TabFacts!Init)
  /\ [Next]_vars => UNCHANGED part /\ (part # "clients" => [TabFacts!Next]_endpointVars)
<1>1. Init => (part # "clients" => TabFacts!Init)
  BY TabInitSame DEF Init
<1>2. [Next]_vars => UNCHANGED part /\ (part # "clients" => TabFacts!Next \/ UNCHANGED endpointVars)
  BY TabNextSame DEF Next, NextCache, NextTab, NextClients, NextRate, NextSum, vars, endpointVars
<1> QED BY <1>1, <1>2

LEMMA ClientsPart ==
  /\ Init => (part = "clients" => ClientFacts!Init)
  /\ [Next]_vars => UNCHANGED part /\ (part = "clients" => [ClientFacts!Next]_endpointVars)
<1>1. Init => (part = "clients" => ClientFacts!Init)
  BY ClientsInitSame DEF Init
<1>2. [Next]_vars => UNCHANGED part /\ (part = "clients" => ClientFacts!Next \/ UNCHANGED endpointVars)
  BY ClientsNextSame DEF Next, NextCache, NextTab, NextClients, NextRate, NextSum, vars, endpointVars
<1> QED BY <1>1, <1>2

LEMMA TabHolds == Spec => [](part # "clients" => TabFacts!IdentityInv /\ TabFacts!TabInv)
<1>1. TabFacts!Init => TabFacts!IdentityInv /\ TabFacts!TabInv
  BY TabAssumption, TabFacts!IdentityInit, TabFacts!TabInit
<1>2. TabFacts!IdentityInv /\ TabFacts!TabInv /\ [TabFacts!Next]_endpointVars
        => TabFacts!IdentityInv' /\ TabFacts!TabInv'
  BY TabAssumption, TabFacts!IdentityNext, TabFacts!TabNext DEF TabFacts!vars, endpointVars
<1>3. Init => (part # "clients" => TabFacts!IdentityInv /\ TabFacts!TabInv)
  BY <1>1, TabPart
<1>4. (part # "clients" => TabFacts!IdentityInv /\ TabFacts!TabInv) /\ [Next]_vars
        => (part # "clients" => TabFacts!IdentityInv /\ TabFacts!TabInv)'
  BY <1>2, TabPart
<1> QED BY <1>3, <1>4, PTL DEF Spec

LEMMA ClientsHold == Spec => [](part = "clients" => ClientFacts!IdentityInv /\ ClientFacts!CountInv)
<1>1. ClientFacts!Init => ClientFacts!IdentityInv /\ ClientFacts!CountInv
  BY ClientsAssumption, ClientFacts!IdentityInit, ClientFacts!CountInit
<1>2. ClientFacts!IdentityInv /\ ClientFacts!CountInv /\ [ClientFacts!Next]_endpointVars
        => ClientFacts!IdentityInv' /\ ClientFacts!CountInv'
  BY ClientsAssumption, ClientFacts!IdentityNext, ClientFacts!CountNext DEF ClientFacts!vars, endpointVars
<1>3. Init => (part = "clients" => ClientFacts!IdentityInv /\ ClientFacts!CountInv)
  BY <1>1, ClientsPart
<1>4. (part = "clients" => ClientFacts!IdentityInv /\ ClientFacts!CountInv) /\ [Next]_vars
        => (part = "clients" => ClientFacts!IdentityInv /\ ClientFacts!CountInv)'
  BY <1>2, ClientsPart
<1> QED BY <1>3, <1>4, PTL DEF Spec

\* A browser that loads the page before it votes has one ballot, whatever
\* answers are lost and however often it votes again.
THEOREM OneTabOneBallot == Spec => []OneBallotPerBrowser
<1>1. (part # "clients" => TabFacts!IdentityInv /\ TabFacts!TabInv) => OneBallotPerBrowser
  <2>1. TabFacts!OneBallotPerBrowser => Tab!OneBallotPerBrowser
    BY DEF TabFacts!OneBallotPerBrowser, Tab!OneBallotPerBrowser, TabFacts!Cardinality, Tab!Cardinality
  <2> QED BY <2>1, TabFacts!TabBallot DEF OneBallotPerBrowser
<1> QED BY <1>1, TabHolds, PTL

\* votes_recorded_total covers the ballots up to requests on their way and
\* lost replies, and no scrape shows more answers than outcomes.
THEOREM CountersAddUp == Spec => []MetricsAddUp
<1>1. (part = "clients" => ClientFacts!IdentityInv /\ ClientFacts!CountInv) => MetricsAddUp
  <2>1. ClientFacts!MetricsAddUp => Clients!MetricsAddUp
    BY DEF ClientFacts!MetricsAddUp, Clients!MetricsAddUp, ClientFacts!RecordedIsCounted, Clients!RecordedIsCounted,
           ClientFacts!ScrapeCoversAnswers, Clients!ScrapeCoversAnswers, ClientFacts!Cardinality, Clients!Cardinality
  <2> QED BY <2>1, ClientsAssumption, ClientFacts!CountsAddUp DEF MetricsAddUp
<1> QED BY <1>1, ClientsHold, PTL

-----------------------------------------------------------------------------
(* Types.                                                                  *)

\* A counter has counted requests of the log.
RateBounds ==
  /\ Rate!RateTypeOK /\ log \in Seq(LogEntries) /\ Len(log) <= MaxRequests
  /\ \A k \in DOMAIN keys : keys[k] \in [n: Nat \ {0}, until: Nat] /\ keys[k].n <= Len(log)

LEMMA RateTypesRequest ==
  ASSUME RateBounds, NEW r \in Replicas, NEW q \in RateRequests, NEW answer \in Rate!Outcomes, Len(log) < MaxRequests,
         keys' = Rate!Incr(<<Rate!Network(q), Rate!WindowAt(r)>>),
         log' = Append(log, Rate!Entry(r, q, answer)), UNCHANGED <<now, offset>>
  PROVE  RateBounds'
<1> USE RateFacts, RateFields
<1>0. Rate!RateTypeOK
  BY DEF RateBounds
<1>1. PICK k : k = <<Rate!Network(q), Rate!WindowAt(r)>>
  OBVIOUS
<1>2. Rate!WindowAt(r) \in Nat
  <2>1. now + offset[r] \in Nat
    BY <1>0
  <2> QED BY <2>1, Quotient DEF Rate!WindowAt
<1>3. k \in Rate!Networks \X Nat
  <2>1. Rate!Network(q) \in Rate!Networks
    BY OneNetwork
  <2> QED BY <1>1, <1>2, <2>1
<1>4. PICK e : e = Rate!Entry(r, q, answer)
  OBVIOUS
<1>5. e \in LogEntries
  <2>1. now \in 0..MaxNow
    BY <1>0 DEF Rate!RateTypeOK
  <2> QED BY <1>2, <1>4, <2>1 DEF Rate!Entry, LogEntries
<1>6. /\ Len(log) \in Nat /\ Len(log') = Len(log) + 1 /\ log' \in Seq(LogEntries) /\ Len(log') <= MaxRequests
      /\ \A i \in 1..Len(log') : log'[i] \in LogEntries
  BY <1>4, <1>5 DEF RateBounds
<1>7. /\ DOMAIN keys' = DOMAIN keys \cup {k}
      /\ \A x \in DOMAIN keys : x # k => keys'[x] = keys[x]
      /\ k \in DOMAIN keys => keys'[k] = [keys[k] EXCEPT !.n = @ + 1]
      /\ k \notin DOMAIN keys => keys'[k] = [n |-> 1, until |-> now + KeyTTL]
  BY <1>1 DEF Rate!Incr
<1>8. ASSUME NEW x \in DOMAIN keys
      PROVE  keys[x].n \in Nat \ {0} /\ keys[x].until \in Nat /\ keys[x].n <= Len(log) /\ keys[x].until > now
             /\ keys[x] \in [n: Nat \ {0}, until: Nat] /\ x \in Rate!Networks \X Nat
  BY DEF RateBounds, Rate!RateTypeOK
<1>9. ASSUME NEW x \in DOMAIN keys'
      PROVE  /\ keys'[x] \in [n: Nat \ {0}, until: Nat] /\ keys'[x].n <= Len(log') /\ keys'[x].until > now
             /\ x \in Rate!Networks \X Nat /\ keys'[x].n \in 1..MaxRequests
  <2>1. CASE x # k
    <3>1. keys'[x] = keys[x] /\ x \in DOMAIN keys
      BY <1>7, <2>1
    <3> QED BY <1>6, <1>8, <3>1
  <2>2. CASE x = k /\ k \in DOMAIN keys
    <3> DEFINE z == keys[k]
    <3>1. z \in [n: Nat \ {0}, until: Nat] /\ z.n <= Len(log) /\ z.until > now /\ keys'[x] = [z EXCEPT !.n = @ + 1]
      BY <1>7, <1>8, <2>2
    <3> HIDE DEF z
    <3>2. keys'[x].n = z.n + 1 /\ keys'[x].until = z.until /\ keys'[x] \in [n: Nat \ {0}, until: Nat] /\ z.n \in Nat
      BY <3>1
    <3>3. keys'[x].n <= Len(log') /\ keys'[x].n \in 1..MaxRequests
      BY <1>6, <3>1, <3>2
    <3> QED BY <1>3, <2>2, <3>1, <3>2, <3>3
  <2>3. CASE x = k /\ k \notin DOMAIN keys
    <3>1. keys'[x].n = 1 /\ keys'[x].until = now + KeyTTL /\ keys'[x] \in [n: Nat \ {0}, until: Nat]
      BY <1>0, <1>7, <2>3
    <3>2. now + KeyTTL > now /\ 1 <= Len(log') /\ 1 \in 1..MaxRequests
      BY <1>0, <1>6
    <3> QED BY <1>3, <2>3, <3>1, <3>2
  <2> QED BY <2>1, <2>2, <2>3
<1>10. Rate!RateTypeOK'
  BY <1>0, <1>6, <1>9 DEF Rate!RateTypeOK, LogEntries, Rate!Networks
<1> QED BY <1>6, <1>9, <1>10 DEF RateBounds

LEMMA RateTypesNext == RateBounds /\ [Rate!Next]_rateVars => RateBounds'
<1> SUFFICES ASSUME RateBounds, [Rate!Next]_rateVars PROVE RateBounds'
  OBVIOUS
<1>1. ASSUME NEW r \in Replicas, NEW q \in RateRequests, Rate!AllowRate(r, q) \/ Rate!AnswerLost(r, q)
      PROVE  RateBounds'
  <2>1. PICK answer \in Rate!Outcomes : log' = Append(log, Rate!Entry(r, q, answer))
    BY <1>1 DEF Rate!AllowRate, Rate!AnswerLost, Rate!Outcomes
  <2>2. /\ Len(log) < MaxRequests /\ UNCHANGED <<now, offset>>
        /\ keys' = Rate!Incr(<<Rate!Network(q), Rate!WindowAt(r)>>)
    BY <1>1 DEF Rate!AllowRate, Rate!AnswerLost
  <2> QED BY <2>1, <2>2, RateTypesRequest
<1>2. CASE Rate!Tick
  <2>1. now \in Nat /\ MaxNow \in Nat
    BY RateFacts, RateFields DEF RateBounds
  <2>2. /\ now' \in 0..MaxNow /\ UNCHANGED <<offset, log>> /\ DOMAIN keys' \subseteq DOMAIN keys
        /\ \A x \in DOMAIN keys' : keys'[x] = keys[x] /\ keys'[x].until > now'
    BY <1>2, <2>1 DEF Rate!Tick
  <2> QED BY <2>2 DEF RateBounds, Rate!RateTypeOK, Rate!Networks
<1>3. CASE UNCHANGED rateVars
  BY <1>3 DEF RateBounds, Rate!RateTypeOK, Rate!Networks, rateVars
<1> QED BY <1>1, <1>2, <1>3 DEF Rate!Next

LEMMA RateTypes == Spec => []RateBounds
<1>1. Rate!Init => RateBounds
  BY RateFacts, RateInit DEF Rate!Init, RateBounds, RateInv
<1> QED BY <1>1, RateTypesNext, RatePart, PTL

\* A number below the modulus is its own remainder.
LEMMA Remainder ==
  ASSUME NEW a \in Nat, NEW b \in Nat, a < b
  PROVE  a % b = a
OBVIOUS

\* Numbers that fit do not wrap.
LEMMA NoWrap ==
  ASSUME NEW x \in 0..MaxInt
  PROVE  Sum!Wrap(x) = x
<1> DEFINE a == x + MaxInt + 1
           b == 2 * (MaxInt + 1)
<1>1. MaxInt \in Nat
  BY PartsAssumption DEF Sum!SumAssumption
<1>2. a \in Nat /\ b \in Nat /\ a < b
  BY <1>1
<1> HIDE DEF a, b
<1>3. a % b = a
  BY <1>2, Remainder
<1>4. Sum!Wrap(x) = (a % b) - (MaxInt + 1)
  BY DEF Sum!Wrap, a, b
<1>5. Sum!Wrap(x) = a - (MaxInt + 1)
  BY <1>3, <1>4
<1> QED BY <1>1, <1>5 DEF a

LEMMA SumTypesNext == Sum!SumTypeOK /\ [Sum!Next]_sumVars => Sum!SumTypeOK'
<1> SUFFICES ASSUME Sum!SumTypeOK, [Sum!Next]_sumVars PROVE Sum!SumTypeOK'
  OBVIOUS
<1> USE DEF Sum!SumTypeOK
<1>1. MaxInt \in Nat
  BY PartsAssumption DEF Sum!SumAssumption
<1>2. ASSUME NEW b \in Buckets, NEW f \in DOMAIN read[b], Sum!Add(b, f) PROVE Sum!SumTypeOK'
  <2>1. PICK n : n = read[b][f]
    OBVIOUS
  <2>2. n \in Int
    <3>1. read[b] \in Sum!Hashes
      OBVIOUS
    <3> QED BY <2>1, <3>1, PartsAssumption DEF Sum!Hashes, Sum!SumAssumption
  <2>3. CASE Sum!Fail \/ UNCHANGED total
    <3>1. UNCHANGED <<read, total>> /\ left' \subseteq left /\ outcome' \in {"adding", "done", "error"}
      BY <1>2, <2>3 DEF Sum!Add, Sum!Fail
    <3> QED BY <3>1 DEF Sum!Hashes
  <2>4. CASE n >= 0 /\ f \in Fields /\ Sum!Fits(total[f], n) /\ total' = [total EXCEPT ![f] = Sum!Wrap(@ + n)]
             /\ left' = left \ {<<b, f>>} /\ UNCHANGED <<read, outcome>>
    <3>1. total[f] \in 0..MaxInt /\ MaxInt - total[f] \in 0..MaxInt
      BY <1>1, <2>4
    <3>2. MaxInt - total[f] >= n
      BY <2>4, <3>1, NoWrap DEF Sum!Fits
    <3>3. total[f] + n \in 0..MaxInt
      BY <1>1, <2>2, <2>4, <3>1, <3>2
    <3>4. total' = [total EXCEPT ![f] = total[f] + n]
      BY <2>4, <3>3, NoWrap
    <3>5. total' \in [Fields -> 0..MaxInt]
      BY <2>4, <3>3, <3>4
    <3> QED BY <2>4, <3>5 DEF Sum!Hashes
  <2> QED BY <1>2, <2>1, <2>3, <2>4 DEF Sum!Add, Sum!Known
<1>3. CASE Sum!Finish
  BY <1>3 DEF Sum!Finish, Sum!Hashes
<1>4. CASE UNCHANGED sumVars
  BY <1>4 DEF sumVars, Sum!Hashes
<1> QED BY <1>2, <1>3, <1>4 DEF Sum!Next

LEMMA SumTypes == Spec => []Sum!SumTypeOK
<1>1. Init => Sum!SumTypeOK
  <2> SUFFICES ASSUME Sum!Init PROVE Sum!SumTypeOK
    BY DEF Init
  <2>1. MaxInt \in Nat
    BY PartsAssumption DEF Sum!SumAssumption
  <2>2. read \in [Buckets -> Sum!Hashes]
    BY DEF Sum!Init
  <2>3. left \subseteq Buckets \X (Fields \cup {Foreign})
    <3>1. \A b \in Buckets : DOMAIN read[b] \subseteq Fields \cup {Foreign}
      BY <2>2 DEF Sum!Hashes
    <3> QED BY <3>1 DEF Sum!Init
  <2>4. total \in [Fields -> 0..MaxInt] /\ outcome = "adding"
    BY <2>1 DEF Sum!Init
  <2> QED BY <2>2, <2>3, <2>4 DEF Sum!SumTypeOK
<1>2. [Next]_vars => [Sum!Next]_sumVars
  BY DEF Next, NextCache, NextTab, NextClients, NextRate, NextSum, vars
<1> QED BY <1>1, <1>2, SumTypesNext, PTL DEF Spec

-----------------------------------------------------------------------------
(* Sums.  A sum of naturals is the number of units in them; what the fold  *)
(* of the reference definition computes follows from a smallest subset for *)
(* which it would not.                                                     *)

Units(g, S) == {u \in S \X Nat : u[2] < g[u[1]]}

LEMMA UnitsStep ==
  ASSUME NEW g, NEW S, NEW x \in S, g[x] \in Nat, IsFiniteSet(Units(g, S \ {x}))
  PROVE  /\ IsFiniteSet(Units(g, S))
         /\ Cardinality(Units(g, S)) = g[x] + Cardinality(Units(g, S \ {x}))
<1> DEFINE column == {x} \X (0..g[x] - 1)
<1>1. IsFiniteSet(column) /\ Cardinality(column) = g[x]
  <2>1. IsFiniteSet(0..g[x] - 1) /\ Cardinality(0..g[x] - 1) = g[x]
    <3> DEFINE n == g[x]
               m == n - 1
    <3>1. n \in Nat /\ m \in Int /\ m = n - 1
      OBVIOUS
    <3> HIDE DEF n, m
    <3>2. IsFiniteSet(0..m) /\ Cardinality(0..m) = IF 0 > m THEN 0 ELSE m - 0 + 1
      BY <3>1, FS_Interval
    <3>3. IsFiniteSet(0..m) /\ Cardinality(0..m) = n
      BY <3>1, <3>2
    <3> QED BY <3>3, Zenon DEF n, m
  <2>2. IsFiniteSet({x}) /\ Cardinality({x}) = 1
    BY FS_Singleton
  <2> DEFINE cells == 0..g[x] - 1
             one == {x}
  <2> HIDE DEF cells, one
  <2>3. IsFiniteSet(one \X cells) /\ Cardinality(one \X cells) = Cardinality(one) * Cardinality(cells)
    BY <2>1, <2>2, FS_Product DEF cells, one
  <2>4. IsFiniteSet(column) /\ Cardinality(column) = 1 * g[x]
    BY <2>1, <2>2, <2>3, Zenon DEF cells, one
  <2> HIDE DEF column
  <2> QED BY <2>4
<1>2. Units(g, S) = Units(g, S \ {x}) \cup column /\ Units(g, S \ {x}) \cap column = {}
  BY DEF Units
<1>3. IsFiniteSet(Units(g, S)) /\ Cardinality(Units(g, S)) = Cardinality(Units(g, S \ {x})) + Cardinality(column) - 0
  <2> DEFINE rest == Units(g, S \ {x})
  <2> HIDE DEF column, rest
  <2>1. IsFiniteSet(rest \cup column)
        /\ Cardinality(rest \cup column) = Cardinality(rest) + Cardinality(column) - Cardinality(rest \cap column)
    BY <1>1, FS_Union DEF rest
  <2> QED BY <1>2, <2>1, FS_EmptySet, Zenon DEF rest
<1> HIDE DEF column
<1>4. Cardinality(Units(g, S \ {x})) \in Nat
  BY FS_CardinalityType
<1> QED BY <1>1, <1>3, <1>4

\* A property of all finite subsets: the smallest one without it.
LEMMA SmallestSubset ==
  ASSUME NEW S, IsFiniteSet(S), NEW Bad, Bad \subseteq SUBSET S, Bad # {}
  PROVE  \E s \in Bad : \A t \in Bad : ~(t \subseteq s /\ t # s)
<1>1. SUBSET S = FiniteSubsetsOf(S)
  BY FS_Subset DEF FiniteSubsetsOf
<1>2. \E s \in Bad : \A t \in Bad : ~(<<t, s>> \in StrictSubsetOrdering(S))
  BY <1>1, FS_StrictSubsetOrderingWellFounded, WFMin
<1> QED BY <1>2, <1>1 DEF StrictSubsetOrdering

LEMMA UnitsFinite ==
  ASSUME NEW g, NEW S, IsFiniteSet(S), \A x \in S : g[x] \in Nat
  PROVE  IsFiniteSet(Units(g, S))
<1> DEFINE Bad == {s \in SUBSET S : ~IsFiniteSet(Units(g, s))}
<1> SUFFICES ASSUME Bad # {} PROVE FALSE
  OBVIOUS
<1>0. Bad \subseteq SUBSET S
  OBVIOUS
<1> HIDE DEF Bad
<1>1. PICK s \in Bad : \A t \in Bad : ~(t \subseteq s /\ t # s)
  BY <1>0, SmallestSubset
<1> USE DEF Bad
<1>2. CASE s = {}
  BY <1>2, FS_EmptySet DEF Units
<1>3. CASE s # {}
  <2>1. PICK x \in s : TRUE
    BY <1>3
  <2>2. IsFiniteSet(Units(g, s \ {x}))
    BY <1>1, <2>1
  <2> QED BY <2>1, <2>2, UnitsStep
<1> QED BY <1>2, <1>3

\* A sum added up in any order.
Some(s) == CHOOSE x \in s : TRUE
Sums(g, S, it) == it = [s \in SUBSET S |-> IF s = {} THEN 0 ELSE g[Some(s)] + it[s \ {Some(s)}]]

LEMMA SumExists ==
  ASSUME NEW g, NEW S, IsFiniteSet(S), \A x \in S : g[x] \in Nat
  PROVE  \E it : Sums(g, S, it)
<1> DEFINE it == [s \in SUBSET S |-> Cardinality(Units(g, s))]
<1>1. ASSUME NEW s \in SUBSET S, s # {} PROVE it[s] = g[Some(s)] + it[s \ {Some(s)}]
  <2>1. Some(s) \in s /\ s \ {Some(s)} \in SUBSET S
    BY <1>1 DEF Some
  <2>2. IsFiniteSet(s \ {Some(s)})
    BY <2>1, FS_Subset
  <2>3. IsFiniteSet(Units(g, s \ {Some(s)}))
    BY <2>1, <2>2, UnitsFinite
  <2> QED BY <2>1, <2>3, UnitsStep
<1>2. it[{}] = 0
  BY FS_EmptySet DEF Units
<1>3. it = [s \in SUBSET S |-> IF s = {} THEN 0 ELSE g[Some(s)] + it[s \ {Some(s)}]]
  BY <1>1, <1>2
<1> QED BY <1>3 DEF Sums

LEMMA SumIsUnits ==
  ASSUME NEW g, NEW S, IsFiniteSet(S), \A x \in S : g[x] \in Nat, NEW it, Sums(g, S, it)
  PROVE  it[S] = Cardinality(Units(g, S))
<1> DEFINE Bad == {s \in SUBSET S : it[s] # Cardinality(Units(g, s))}
<1> SUFFICES ASSUME Bad # {} PROVE FALSE
  OBVIOUS
<1>0. Bad \subseteq SUBSET S
  OBVIOUS
<1> HIDE DEF Bad
<1>1. PICK s \in Bad : \A t \in Bad : ~(t \subseteq s /\ t # s)
  BY <1>0, SmallestSubset
<1> USE DEF Bad
<1>2. it[s] = IF s = {} THEN 0 ELSE g[Some(s)] + it[s \ {Some(s)}]
  BY DEF Sums
<1>3. CASE s = {}
  BY <1>2, <1>3, FS_EmptySet DEF Units
<1>4. CASE s # {}
  <2>1. Some(s) \in s /\ s \ {Some(s)} \in SUBSET S
    BY <1>4 DEF Some
  <2>2. it[s \ {Some(s)}] = Cardinality(Units(g, s \ {Some(s)}))
    BY <1>1, <2>1
  <2>3. IsFiniteSet(Units(g, s \ {Some(s)}))
    BY <2>1, FS_Subset, UnitsFinite
  <2>4. g[Some(s)] \in Nat
    BY <2>1
  <2>5. Cardinality(Units(g, s)) = g[Some(s)] + Cardinality(Units(g, s \ {Some(s)}))
    BY <2>1, <2>3, <2>4, UnitsStep
  <2> QED BY <1>2, <1>4, <2>2, <2>5
<1> QED BY <1>3, <1>4

Numbers(f) == [b \in Buckets |-> IF f \in DOMAIN read[b] THEN read[b][f] ELSE 0]

LEMMA ExactIsUnits ==
  ASSUME NEW f, IsFiniteSet(Buckets), \A b \in Buckets : Numbers(f)[b] \in Nat
  PROVE  Sum!Exact(f) = Cardinality(Units(Numbers(f), Buckets))
<1> DEFINE g == Numbers(f)
           Step(k, s) == LET x == CHOOSE x \in s : TRUE
                         IN  (IF f \in DOMAIN read[x] THEN read[x][f] ELSE 0) + k[s \ {x}]
           Fold(k) == k = [s \in SUBSET Buckets |-> IF s = {} THEN 0 ELSE Step(k, s)]
           it == CHOOSE k : Fold(k)
<1>1. ASSUME NEW k PROVE Fold(k) <=> Sums(g, Buckets, k)
  <2>1. ASSUME NEW s \in SUBSET Buckets, s # {} PROVE Step(k, s) = g[Some(s)] + k[s \ {Some(s)}]
    <3>1. Some(s) \in Buckets
      BY <2>1 DEF Some
    <3>2. g[Some(s)] = IF f \in DOMAIN read[Some(s)] THEN read[Some(s)][f] ELSE 0
      BY <3>1 DEF Numbers
    <3> QED BY <3>2, Zenon DEF Some
  <2> HIDE DEF Step, g
  <2> QED BY <2>1 DEF Sums
<1>2. \E k : Fold(k)
  <2> HIDE DEF Fold, g
  <2>1. \E k : Sums(g, Buckets, k)
    BY SumExists DEF g
  <2> QED BY <1>1, <2>1
<1>3. Fold(it)
  <2> HIDE DEF Fold
  <2> QED BY <1>2
<1>4. Sum!Exact(f) = it[Buckets]
  BY Zenon DEF Sum!Exact, Sum!MapThenSumSet, Sum!MapThenFoldSet
<1> QED
  <2> HIDE DEF Fold, it
  <2> QED BY <1>1, <1>3, <1>4, SumIsUnits

\* What the sum has added so far is the number of units in the counters that
\* are no longer left.
Added(f) == {b \in Buckets : <<b, f>> \notin left}

SumInv ==
  /\ Sum!SumTypeOK
  /\ \A b \in Buckets : \A f \in DOMAIN read[b] : <<b, f>> \in left \/ read[b][f] >= 0
  /\ \A b \in Buckets, f \in Fields \cup {Foreign} : <<b, f>> \in left => f \in DOMAIN read[b]
  /\ \A f \in Fields : total[f] = Cardinality(Units(Numbers(f), Added(f)))
  /\ outcome = "done" => left = {}
  /\ outcome = "error" => Sum!Bad \/ \E f \in Fields : Cardinality(Units(Numbers(f), Buckets)) > MaxInt

LEMMA SumFacts ==
  /\ MaxInt \in Nat /\ IsFiniteSet(Buckets) /\ Foreign \notin Fields
  /\ \A v \in Counters \cup {-1} : v \in Int /\ v <= MaxInt
BY PartsAssumption DEF Sum!SumAssumption, Sum!IsFiniteSet, IsFiniteSet

LEMMA ReadFacts ==
  ASSUME Sum!SumTypeOK, NEW b \in Buckets, NEW f \in DOMAIN read[b]
  PROVE  read[b][f] \in Int /\ read[b][f] <= MaxInt /\ f \in Fields \cup {Foreign}
<1>1. read[b] \in Sum!Hashes
  BY DEF Sum!SumTypeOK
<1> QED BY <1>1, SumFacts DEF Sum!Hashes

LEMMA SumInvInit == Sum!Init /\ Sum!SumTypeOK => SumInv
<1> SUFFICES ASSUME Sum!Init, Sum!SumTypeOK PROVE SumInv
  OBVIOUS
<1>1. \A b \in Buckets, f \in Fields \cup {Foreign} : <<b, f>> \in left <=> f \in DOMAIN read[b]
  BY DEF Sum!Init
<1>2. \A b \in Buckets : \A f \in DOMAIN read[b] : <<b, f>> \in left
  BY <1>1, ReadFacts
<1>3. ASSUME NEW f \in Fields PROVE total[f] = Cardinality(Units(Numbers(f), Added(f)))
  <2>1. \A b \in Added(f) : Numbers(f)[b] = 0
    BY <1>1 DEF Added, Numbers
  <2>2. Units(Numbers(f), Added(f)) = {}
    BY <2>1 DEF Units
  <2> QED BY <2>2, FS_EmptySet DEF Sum!Init
<1>4. outcome = "adding"
  BY DEF Sum!Init
<1> QED BY <1>1, <1>2, <1>3, <1>4 DEF SumInv

\* Adding the counter of one more bucket.
LEMMA AddUnits ==
  ASSUME SumInv, NEW b \in Buckets, NEW f \in Fields, <<b, f>> \in left, read[b][f] >= 0
  PROVE  /\ \A x \in Added(f) : Numbers(f)[x] \in Nat
         /\ Numbers(f)[b] = read[b][f] /\ read[b][f] \in Nat
         /\ Cardinality(Units(Numbers(f), Added(f) \cup {b})) = total[f] + read[b][f]
<1>1. f \in DOMAIN read[b] /\ Numbers(f)[b] = read[b][f] /\ read[b][f] \in Nat
  <2>1. f \in DOMAIN read[b]
    BY DEF SumInv
  <2> QED BY <2>1, ReadFacts DEF SumInv, Numbers
<1>2. \A x \in Added(f) : Numbers(f)[x] \in Nat
  BY ReadFacts DEF Added, SumInv, Numbers
<1>3. IsFiniteSet(Added(f))
  BY SumFacts, FS_Subset DEF Added
<1>4. (Added(f) \cup {b}) \ {b} = Added(f)
  BY DEF Added
<1>5. IsFiniteSet(Units(Numbers(f), Added(f)))
  BY <1>2, <1>3, UnitsFinite
<1> DEFINE g == Numbers(f)
           S == Added(f) \cup {b}
<1>6. b \in S /\ g[b] \in Nat /\ IsFiniteSet(Units(g, S \ {b}))
  BY <1>1, <1>4, <1>5
<1> HIDE DEF g, S
<1>7. Cardinality(Units(g, S)) = g[b] + Cardinality(Units(g, S \ {b}))
  BY <1>6, UnitsStep
<1>8. Cardinality(Units(Numbers(f), Added(f))) = total[f] /\ total[f] \in Int
  BY SumFacts DEF SumInv, Sum!SumTypeOK
<1>9. Cardinality(Units(Numbers(f), Added(f) \cup {b})) = read[b][f] + total[f]
  BY <1>1, <1>4, <1>7, <1>8, Zenon DEF g, S
<1> QED BY <1>1, <1>2, <1>8, <1>9

\* A sum that does not fit is too large, when all counters are valid.
LEMMA NoFitIsTooLarge ==
  ASSUME SumInv, NEW b \in Buckets, NEW f \in Fields, <<b, f>> \in left, read[b][f] >= 0,
         ~Sum!Fits(total[f], read[b][f]), ~Sum!Bad
  PROVE  Cardinality(Units(Numbers(f), Buckets)) > MaxInt
<1>1. total[f] \in 0..MaxInt /\ MaxInt - total[f] \in 0..MaxInt
  BY SumFacts DEF SumInv, Sum!SumTypeOK
<1>2. MaxInt - total[f] < read[b][f] /\ read[b][f] \in Nat
  <2>1. read[b][f] \in Nat
    BY AddUnits
  <2>2. Sum!Wrap(MaxInt - total[f]) = MaxInt - total[f]
    BY <1>1, NoWrap
  <2> QED BY <1>1, <2>1, <2>2, SumFacts DEF Sum!Fits
<1>3. \A x \in Buckets : Numbers(f)[x] \in Nat
  BY ReadFacts DEF SumInv, Sum!Bad, Numbers
<1>5. Units(Numbers(f), Added(f) \cup {b}) \subseteq Units(Numbers(f), Buckets)
  BY DEF Units, Added
<1>6. IsFiniteSet(Units(Numbers(f), Buckets))
  BY <1>3, SumFacts, UnitsFinite
<1>7. Cardinality(Units(Numbers(f), Added(f) \cup {b})) <= Cardinality(Units(Numbers(f), Buckets))
  BY <1>5, <1>6, FS_Subset
<1>8. Cardinality(Units(Numbers(f), Buckets)) \in Nat
  BY <1>6, FS_CardinalityType
<1> QED BY <1>1, <1>2, <1>7, <1>8, AddUnits, SumFacts

LEMMA SumInvNext == SumInv /\ [Sum!Next]_sumVars => SumInv'
<1> SUFFICES ASSUME SumInv, [Sum!Next]_sumVars PROVE SumInv'
  OBVIOUS
<1>0. Sum!SumTypeOK'
  BY SumTypesNext DEF SumInv
<1>1. ASSUME read' = read
      PROVE  (Sum!Bad' <=> Sum!Bad) /\ \A f : Numbers(f)' = Numbers(f)
  BY <1>1 DEF Sum!Bad, Numbers
<1>2. ASSUME NEW b \in Buckets, NEW f \in DOMAIN read[b], Sum!Add(b, f) PROVE SumInv'
  <2>0. /\ read[b][f] \in Int /\ f \in Fields \cup {Foreign}
        /\ read' = read /\ outcome = "adding" /\ <<b, f>> \in left
    BY <1>2, ReadFacts DEF SumInv, Sum!Add, Sum!Fail
  <2>1. CASE Sum!Fail
    <3>1. read[b][f] < 0 \/ (f \in Fields /\ read[b][f] >= 0 /\ ~Sum!Fits(total[f], read[b][f]))
      BY <1>2, <2>0, <2>1 DEF Sum!Add, Sum!Fail, Sum!Known
    <3>2. Sum!Bad \/ \E x \in Fields : Cardinality(Units(Numbers(x), Buckets)) > MaxInt
      BY <2>0, <3>1, NoFitIsTooLarge DEF Sum!Bad
    <3>3. UNCHANGED <<read, left, total>> /\ outcome' = "error"
      BY <2>1 DEF Sum!Fail
    <3>4. \A x \in Fields : Added(x)' = Added(x)
      BY <3>3 DEF Added
    <3> QED BY <1>0, <1>1, <3>2, <3>3, <3>4 DEF SumInv
  <2>2. CASE ~Sum!Fail
    <3>1. read[b][f] >= 0 /\ left' = left \ {<<b, f>>} /\ outcome' = "adding"
      BY <1>2, <2>0, <2>2 DEF Sum!Add
    <3>2. ASSUME NEW x \in Fields, x # f PROVE Added(x)' = Added(x) /\ total'[x] = total[x]
      BY <1>2, <2>2, <3>1, <3>2 DEF Added, Sum!Add, SumInv, Sum!SumTypeOK
    <3>3. ASSUME f \in Fields
          PROVE  /\ Added(f)' = Added(f) \cup {b}
                 /\ total'[f] = total[f] + read[b][f]
      <4>1. Sum!Fits(total[f], read[b][f]) /\ total' = [total EXCEPT ![f] = Sum!Wrap(@ + read[b][f])]
        BY <1>2, <2>2, <3>3 DEF Sum!Add, Sum!Known
      <4>2. total[f] \in 0..MaxInt /\ MaxInt - total[f] \in 0..MaxInt /\ total \in [Fields -> 0..MaxInt]
        BY SumFacts, <3>3 DEF SumInv, Sum!SumTypeOK
      <4>3. MaxInt - total[f] >= read[b][f]
        BY <4>1, <4>2, NoWrap DEF Sum!Fits
      <4>4. total[f] + read[b][f] \in 0..MaxInt
        BY <2>0, <3>1, <4>2, <4>3, SumFacts
      <4>5. Added(f)' = Added(f) \cup {b}
        BY <3>1 DEF Added
      <4> QED BY <3>3, <4>1, <4>2, <4>4, <4>5, NoWrap
    <3>4. ASSUME NEW x \in Fields PROVE total'[x] = Cardinality(Units(Numbers(x)', Added(x)'))
      <4>1. CASE x = f
        BY <1>1, <2>0, <3>1, <3>3, <4>1, AddUnits
      <4>2. CASE x # f
        BY <1>1, <2>0, <3>2, <4>2 DEF SumInv
      <4> QED BY <4>1, <4>2
    <3>5. \A d \in Buckets : \A x \in DOMAIN read'[d] : <<d, x>> \in left' \/ read'[d][x] >= 0
      BY <2>0, <3>1 DEF SumInv
    <3>6. \A d \in Buckets, x \in Fields \cup {Foreign} : <<d, x>> \in left' => x \in DOMAIN read'[d]
      BY <2>0, <3>1 DEF SumInv
    <3> QED BY <1>0, <3>1, <3>4, <3>5, <3>6 DEF SumInv
  <2> QED BY <2>1, <2>2
<1>3. CASE Sum!Finish
  <2>1. UNCHANGED <<read, left, total>> /\ left = {} /\ outcome' = "done"
    BY <1>3 DEF Sum!Finish
  <2> QED BY <1>0, <1>1, <2>1 DEF SumInv, Added
<1>4. CASE UNCHANGED sumVars
  <2>1. UNCHANGED <<read, left, total, outcome>>
    BY <1>4 DEF sumVars
  <2> QED BY <1>0, <1>1, <2>1 DEF SumInv, Added
<1> QED BY <1>2, <1>3, <1>4 DEF Sum!Next

\* Totals that are handed on are the exact sums of valid counters, never one
\* that wrapped, in whatever order the hashes were walked, and an error is
\* reported only for an invalid counter or a sum that does not fit
\* (Store.Totals, addCounters).
THEOREM SumsAreExact == Spec => []SumIsExact
<1>1. SumInv => SumIsExact
  <2> SUFFICES ASSUME SumInv PROVE SumIsExact
    OBVIOUS
  <2>1. ASSUME ~Sum!Bad PROVE \A f \in Fields : Sum!Exact(f) = Cardinality(Units(Numbers(f), Buckets))
    <3>1. \A f \in Fields : \A b \in Buckets : Numbers(f)[b] \in Nat
      BY <2>1, ReadFacts DEF SumInv, Sum!Bad, Numbers
    <3> QED BY <3>1, ExactIsUnits, SumFacts
  <2>2. CASE outcome = "done"
    <3>1. left = {}
      BY <2>2 DEF SumInv
    <3>2. ~Sum!Bad
      BY <3>1, ReadFacts DEF SumInv, Sum!Bad
    <3>3. \A f \in Fields : Added(f) = Buckets
      BY <3>1 DEF Added
    <3>4. \A f \in Fields : total[f] = Sum!Exact(f)
      BY <2>1, <3>2, <3>3 DEF SumInv
    <3> QED BY <2>2, <3>2, <3>4 DEF SumIsExact, Sum!SumIsExact
  <2>3. CASE outcome = "error"
    BY <2>1, <2>3 DEF SumInv, SumIsExact, Sum!SumIsExact
  <2> QED BY <2>2, <2>3 DEF SumIsExact, Sum!SumIsExact
<1>2. Init => Sum!Init
  BY DEF Init
<1>3. [Next]_vars => [Sum!Next]_sumVars
  BY DEF Next, NextCache, NextTab, NextClients, NextRate, NextSum, vars
<1> QED BY <1>1, <1>2, <1>3, SumInvInit, SumInvNext, SumTypes, PTL DEF Spec

\* What every part keeps in its variables, whatever part is explored.
THEOREM VotePathTypes == Spec => []VotePathTypeOK
<1>1. TabFacts!IdentityInv => Tab!EndpointTypeOK
  BY DEF TabFacts!IdentityInv, TabFacts!EndpointTypeOK, Tab!EndpointTypeOK, TabFacts!Cookies, Tab!Cookies,
         TabFacts!States, Tab!States
<1>2. ClientFacts!IdentityInv => Clients!EndpointTypeOK
  BY DEF ClientFacts!IdentityInv, ClientFacts!EndpointTypeOK, Clients!EndpointTypeOK, ClientFacts!Cookies, Clients!Cookies,
         ClientFacts!States, Clients!States
<1>3. /\ Cache!CacheTypeOK /\ RateBounds /\ Sum!SumTypeOK
      /\ part # "clients" => TabFacts!IdentityInv /\ TabFacts!TabInv
      /\ part = "clients" => ClientFacts!IdentityInv /\ ClientFacts!CountInv
      => VotePathTypeOK
  BY <1>1, <1>2 DEF VotePathTypeOK, RateBounds
<1> QED BY <1>3, CacheInvHolds, RateTypes, SumTypes, TabHolds, ClientsHold, PTL

=============================================================================
