-------------------------- MODULE OperationsProofs --------------------------
(***************************************************************************)
(* For any commands, files, replicas, polls, devices and settings, what    *)
(* runs beside the requests.  Scripts take effect once and in order, and   *)
(* where the version table exists commands do not make each other fail:    *)
(* only the lock's holder looks and applies.  Counters and markers of a    *)
(* bucket stay together through expiry and crashes, what has reached the   *)
(* file stays, and without a crash every device is counted once: a vote    *)
(* comes before ends_at, so marker and counter expire at the same moment,  *)
(* ends_at + retention, whenever written.  The rounds of the snapshot      *)
(* workers leave out no poll that they listed.  A device is counted once   *)
(* although processes are restarted with other values of VOTE_BUCKETS.     *)
(***************************************************************************)
EXTENDS MCOperations, FiniteSetTheorems, TLAPS

-----------------------------------------------------------------------------
(* Migrations.                                                             *)

\* The lock is held from the look-up to the unlock.
HolderWorks == \A m \in Migrators : mig[m].pc \in {"look", "apply", "unlock"} => holder = m

\* A command starts with the first file.  At a file it has the files before it applied; a file that it is
\* about to apply is not.
AppliedUpTo ==
  \A m \in Migrators :
    /\ mig[m].pc \in {"create", "lock"} => mig[m].script = 1
    /\ mig[m].pc \in {"look", "apply"} => 1..mig[m].script - 1 \subseteq done
    /\ mig[m].pc = "apply" => mig[m].script \notin done

MigrateInv == MigrateTypeOK /\ HolderWorks /\ AppliedUpTo /\ AppliedOnceInOrder

-----------------------------------------------------------------------------
\* Goto changes the program counter of one command only.
LEMMA GotoOthers ==
  ASSUME MigrateTypeOK, NEW m \in Migrators, NEW pc \in States, Goto(m, pc)
  PROVE  /\ mig' \in [Migrators -> [pc: States, script: 1..Scripts, faulty: BOOLEAN]]
         /\ mig'[m].pc = pc /\ mig'[m].script = mig[m].script /\ mig'[m].faulty = mig[m].faulty
         /\ \A k \in Migrators \ {m} : mig'[k] = mig[k]
BY DEF Goto, MigrateTypeOK

\* After goes to the next file, or to the unlock behind the last one.
LEMMA AfterOthers ==
  ASSUME MigrateTypeOK, NEW m \in Migrators, After(m)
  PROVE  /\ mig' \in [Migrators -> [pc: States, script: 1..Scripts, faulty: BOOLEAN]]
         /\ mig'[m].faulty = mig[m].faulty
         /\ \/ mig'[m].pc = "unlock"
            \/ mig'[m].pc = "look" /\ mig'[m].script = mig[m].script + 1
         /\ \A k \in Migrators \ {m} : mig'[k] = mig[k]
<1> mig[m] \in [pc: States, script: 1..Scripts, faulty: BOOLEAN]
  BY DEF MigrateTypeOK
<1> Scripts \in Nat \ {0}
  BY MigrateAssumption
<1>1. CASE mig[m].script = Scripts
  BY <1>1 DEF After, MigrateTypeOK, States
<1>2. CASE mig[m].script # Scripts
  BY <1>2 DEF After, MigrateTypeOK, States
<1> QED BY <1>1, <1>2

\* The next file in order is the one after those applied.
LEMMA NextInOrder ==
  ASSUME MigrateInv, NEW m \in Migrators, mig[m].pc = "apply",
         applied' = Append(applied, mig[m].script), done' = done \cup {mig[m].script}
  PROVE  AppliedOnceInOrder' /\ applied' \in Seq(1..Scripts) /\ done' \subseteq 1..Scripts
<1> DEFINE s == mig[m].script
<1> DEFINE n == Len(applied)
<1>1. s \in 1..Scripts /\ s \notin done /\ 1..s - 1 \subseteq done
  BY DEF MigrateInv, AppliedUpTo, MigrateTypeOK
<1>2. applied \in Seq(1..Scripts) /\ n \in Nat /\ Scripts \in Nat
  BY MigrateAssumption DEF MigrateInv, MigrateTypeOK
<1>3. done = 1..n
  BY <1>2 DEF MigrateInv, AppliedOnceInOrder
<1>4. s = n + 1
  <2>1. s > n
    BY <1>1, <1>2, <1>3
  <2>2. ~(s > n + 1)
    BY <1>1, <1>2, <1>3
  <2> QED BY <1>1, <1>2, <2>1, <2>2
<1>5. /\ applied' \in Seq(1..Scripts) /\ Len(applied') = n + 1
      /\ \A i \in 1..n : applied'[i] = applied[i]
      /\ applied'[n + 1] = s
  BY <1>1, <1>2
<1>6. \A i \in 1..n + 1 : applied'[i] = i
  BY <1>2, <1>4, <1>5 DEF MigrateInv, AppliedOnceInOrder
<1>7. done' = 1..n + 1
  BY <1>2, <1>3, <1>4
<1>8. done' = {applied'[i] : i \in 1..n + 1}
  BY <1>6, <1>7
<1> QED BY <1>1, <1>5, <1>6, <1>8 DEF AppliedOnceInOrder, MigrateInv, MigrateTypeOK

-----------------------------------------------------------------------------
LEMMA MigrateInitInv == MigrateInit => MigrateInv
<1> SUFFICES ASSUME MigrateInit PROVE MigrateInv
  OBVIOUS
<1> Scripts \in Nat \ {0} /\ MaxFaults \in Nat
  BY MigrateAssumption
<1>1. MigrateTypeOK
  BY DEF MigrateInit, MigrateTypeOK, States
<1>2. HolderWorks /\ AppliedUpTo
  BY DEF MigrateInit, HolderWorks, AppliedUpTo
<1>3. AppliedOnceInOrder
  BY DEF MigrateInit, AppliedOnceInOrder
<1> QED BY <1>1, <1>2, <1>3 DEF MigrateInv

\* A step that leaves lock and scripts alone keeps the invariant if the
\* command it moves is not inside the lock afterwards.
LEMMA OutsideStep ==
  ASSUME MigrateInv, NEW m \in Migrators,
         table' \in {"old", "new", "absent"}, UNCHANGED <<holder, done, applied, faults>>,
         mig' \in [Migrators -> [pc: States, script: 1..Scripts, faulty: BOOLEAN]],
         mig'[m].pc \notin {"look", "apply", "unlock"},
         mig'[m].pc \in {"create", "lock"} => mig'[m].script = 1,
         \A k \in Migrators \ {m} : mig'[k] = mig[k]
  PROVE  MigrateInv'
<1>1. MigrateTypeOK'
  BY DEF MigrateInv, MigrateTypeOK
<1>2. HolderWorks' /\ AppliedUpTo'
  BY DEF MigrateInv, HolderWorks, AppliedUpTo
<1>3. AppliedOnceInOrder'
  BY DEF MigrateInv, AppliedOnceInOrder
<1> QED BY <1>1, <1>2, <1>3 DEF MigrateInv

\* So does a step that gives up the lock, if the command had it.
LEMMA ReleaseStep ==
  ASSUME MigrateInv, NEW m \in Migrators,
         table' = table, holder' = Freed(m), UNCHANGED <<done, applied>>, faults' \in 0..MaxFaults,
         mig' \in [Migrators -> [pc: States, script: 1..Scripts, faulty: BOOLEAN]],
         mig'[m].pc \in {"ok", "failed"},
         \A k \in Migrators \ {m} : mig'[k] = mig[k]
  PROVE  MigrateInv'
<1>1. MigrateTypeOK'
  BY DEF MigrateInv, MigrateTypeOK, Freed
<1>2. HolderWorks'
  BY DEF MigrateInv, HolderWorks, Freed
<1>3. AppliedUpTo'
  BY DEF MigrateInv, AppliedUpTo
<1>4. AppliedOnceInOrder'
  BY DEF MigrateInv, AppliedOnceInOrder
<1> QED BY <1>1, <1>2, <1>3, <1>4 DEF MigrateInv

\* Applying the file: in Apply, and in a failure whose COMMIT went through.
LEMMA ApplyStep ==
  ASSUME MigrateInv, NEW m \in Migrators, mig[m].pc = "apply",
         applied' = Append(applied, mig[m].script), done' = done \cup {mig[m].script},
         table' = table, faults' \in 0..MaxFaults, holder' \in {holder, Freed(m)},
         mig' \in [Migrators -> [pc: States, script: 1..Scripts, faulty: BOOLEAN]],
         \A k \in Migrators \ {m} : mig'[k] = mig[k],
         \/ mig'[m].pc = "unlock" /\ holder' = holder
         \/ mig'[m].pc = "look" /\ mig'[m].script = mig[m].script + 1 /\ holder' = holder
         \/ mig'[m].pc = "failed"
  PROVE  MigrateInv'
<1>1. AppliedOnceInOrder' /\ applied' \in Seq(1..Scripts) /\ done' \subseteq 1..Scripts
  BY NextInOrder
<1>2. holder' \in Migrators \cup {NoHolder} /\ holder = m
  BY DEF MigrateInv, MigrateTypeOK, HolderWorks, Freed
<1>3. MigrateTypeOK'
  BY <1>1, <1>2 DEF MigrateInv, MigrateTypeOK
<1>4. \A k \in Migrators \ {m} : mig[k].pc \notin {"look", "apply", "unlock"}
  BY <1>2 DEF MigrateInv, HolderWorks
<1>5. HolderWorks'
  BY <1>2, <1>4 DEF HolderWorks
<1>6. AppliedUpTo'
  <2>1. mig[m].script \in 1..Scripts /\ 1..mig[m].script - 1 \subseteq done
    BY DEF MigrateInv, MigrateTypeOK, AppliedUpTo
  <2>2. mig'[m].pc = "look" => 1..mig'[m].script - 1 \subseteq done'
    BY <2>1, MigrateAssumption
  <2>3. \A k \in Migrators \ {m} : mig'[k].pc \in {"create", "lock"} => mig'[k].script = 1
    BY DEF MigrateInv, AppliedUpTo
  <2> QED BY <1>4, <2>2, <2>3 DEF AppliedUpTo
<1> QED BY <1>1, <1>3, <1>5, <1>6 DEF MigrateInv

LEMMA MigrateNextInv == MigrateInv /\ [MigrateNext]_migrateVars => MigrateInv'
<1> SUFFICES ASSUME MigrateInv, [MigrateNext]_migrateVars PROVE MigrateInv'
  OBVIOUS
<1> MigrateTypeOK /\ States = {"idle", "create", "lock", "look", "apply", "unlock", "ok", "failed"}
  BY DEF MigrateInv, States
<1> Scripts \in Nat \ {0} /\ MaxFaults \in Nat /\ NoHolder \notin Migrators
  BY MigrateAssumption
<1>1. ASSUME NEW m \in Migrators, LookForTable(m) PROVE MigrateInv'
  <2>1. /\ mig' \in [Migrators -> [pc: States, script: 1..Scripts, faulty: BOOLEAN]]
        /\ mig'[m].pc \in {"lock", "create"} /\ mig'[m].script = 1
        /\ \A k \in Migrators \ {m} : mig'[k] = mig[k]
    BY <1>1 DEF LookForTable, MigrateTypeOK
  <2>2. table' \in {"old", "new", "absent"} /\ UNCHANGED <<holder, done, applied, faults>>
    BY <1>1 DEF LookForTable, MigrateTypeOK
  <2> QED BY <2>1, <2>2, OutsideStep
<1>2. ASSUME NEW m \in Migrators, CreateTable(m) PROVE MigrateInv'
  <2>1. table' \in {"old", "new", "absent"} /\ UNCHANGED <<holder, done, applied, faults>>
    BY <1>2 DEF CreateTable, MigrateTypeOK
  <2>2. Goto(m, "failed") \/ Goto(m, "lock")
    BY <1>2 DEF CreateTable
  <2>3. mig[m].script = 1
    BY <1>2 DEF CreateTable, MigrateInv, AppliedUpTo
  <2>4. /\ mig' \in [Migrators -> [pc: States, script: 1..Scripts, faulty: BOOLEAN]]
        /\ mig'[m].pc \in {"failed", "lock"} /\ mig'[m].script = 1
        /\ \A k \in Migrators \ {m} : mig'[k] = mig[k]
    BY <2>2, <2>3, GotoOthers
  <2> QED BY <2>1, <2>4, OutsideStep
<1>3. ASSUME NEW m \in Migrators, Lock(m) PROVE MigrateInv'
  <2>1. /\ mig[m].pc = "lock" /\ holder = NoHolder /\ holder' = m
        /\ Goto(m, "look") /\ UNCHANGED <<table, done, applied, faults>>
    BY <1>3 DEF Lock
  <2>2. /\ mig' \in [Migrators -> [pc: States, script: 1..Scripts, faulty: BOOLEAN]]
        /\ mig'[m].pc = "look" /\ mig'[m].script = 1
        /\ \A k \in Migrators \ {m} : mig'[k] = mig[k]
    BY <2>1, GotoOthers DEF MigrateInv, AppliedUpTo
  <2>3. \A k \in Migrators : mig[k].pc \notin {"look", "apply", "unlock"}
    BY <2>1 DEF MigrateInv, HolderWorks
  <2>4. MigrateTypeOK'
    BY <2>1, <2>2 DEF MigrateTypeOK
  <2>5. HolderWorks'
    BY <2>1, <2>2, <2>3 DEF HolderWorks
  <2>6. AppliedUpTo'
    <3>1. 1..mig'[m].script - 1 = {}
      BY <2>2
    <3> QED BY <2>1, <2>2, <2>3, <3>1 DEF AppliedUpTo, MigrateInv
  <2>7. AppliedOnceInOrder'
    BY <2>1 DEF MigrateInv, AppliedOnceInOrder
  <2> QED BY <2>4, <2>5, <2>6, <2>7 DEF MigrateInv
<1>4. ASSUME NEW m \in Migrators, Look(m) PROVE MigrateInv'
  <2>1. mig[m].pc = "look" /\ holder = m /\ UNCHANGED <<table, holder, done, applied, faults>>
    BY <1>4 DEF Look, MigrateInv, HolderWorks
  <2>2. mig[m].script \in 1..Scripts /\ 1..mig[m].script - 1 \subseteq done
    BY <2>1 DEF MigrateInv, AppliedUpTo, MigrateTypeOK
  <2>3. /\ mig' \in [Migrators -> [pc: States, script: 1..Scripts, faulty: BOOLEAN]]
        /\ \A k \in Migrators \ {m} : mig'[k] = mig[k]
        /\ \/ mig'[m].pc = "unlock"
           \/ mig'[m].pc = "look" /\ 1..mig'[m].script - 1 \subseteq done
           \/ mig'[m].pc = "apply" /\ 1..mig'[m].script - 1 \subseteq done /\ mig'[m].script \notin done
    <3>1. CASE mig[m].script \in done
      <4>1. After(m)
        BY <1>4, <3>1 DEF Look
      <4>2. 1..(mig[m].script + 1) - 1 \subseteq done
        BY <2>2, <3>1
      <4> QED BY <4>1, <4>2, AfterOthers
    <3>2. CASE mig[m].script \notin done
      <4>1. Goto(m, "apply")
        BY <1>4, <3>2 DEF Look
      <4> QED BY <2>2, <3>2, <4>1, GotoOthers
    <3> QED BY <3>1, <3>2
  <2>4. MigrateTypeOK'
    BY <2>1, <2>3 DEF MigrateTypeOK
  <2>5. HolderWorks'
    BY <2>1, <2>3 DEF MigrateInv, HolderWorks
  <2>6. AppliedUpTo'
    BY <2>1, <2>3 DEF MigrateInv, AppliedUpTo
  <2>7. AppliedOnceInOrder'
    BY <2>1 DEF MigrateInv, AppliedOnceInOrder
  <2> QED BY <2>4, <2>5, <2>6, <2>7 DEF MigrateInv
<1>5. ASSUME NEW m \in Migrators, Apply(m) PROVE MigrateInv'
  <2>1. mig[m].script \notin done /\ mig[m].pc = "apply"
    BY <1>5 DEF Apply, MigrateInv, AppliedUpTo
  <2>2. /\ done' = done \cup {mig[m].script} /\ applied' = Append(applied, mig[m].script)
        /\ After(m) /\ UNCHANGED <<table, holder, faults>>
    BY <1>5, <2>1 DEF Apply
  <2> QED BY <2>1, <2>2, AfterOthers, ApplyStep DEF MigrateTypeOK
<1>6. ASSUME NEW m \in Migrators, Unlock(m) PROVE MigrateInv'
  <2>1. /\ mig[m].pc = "unlock" /\ holder = m /\ holder' = NoHolder
        /\ Goto(m, "ok") /\ UNCHANGED <<table, done, applied, faults>>
    BY <1>6 DEF Unlock, Freed, MigrateInv, HolderWorks
  <2>2. /\ mig' \in [Migrators -> [pc: States, script: 1..Scripts, faulty: BOOLEAN]]
        /\ mig'[m].pc = "ok" /\ \A k \in Migrators \ {m} : mig'[k] = mig[k]
    BY <2>1, GotoOthers
  <2>3. holder' = Freed(m) /\ faults' \in 0..MaxFaults
    BY <2>1 DEF Freed, MigrateTypeOK
  <2> QED BY <2>1, <2>2, <2>3, ReleaseStep
<1>7. ASSUME NEW m \in Migrators, Fail(m) PROVE MigrateInv'
  <2>1. /\ mig' \in [Migrators -> [pc: States, script: 1..Scripts, faulty: BOOLEAN]]
        /\ mig'[m].pc = "failed" /\ \A k \in Migrators \ {m} : mig'[k] = mig[k]
    BY <1>7 DEF Fail, MigrateTypeOK
  <2>2. faults' \in 0..MaxFaults /\ table' = table /\ holder' = Freed(m)
    BY <1>7 DEF Fail, MigrateTypeOK
  <2>3. CASE UNCHANGED <<done, applied>>
    BY <2>1, <2>2, <2>3, ReleaseStep
  <2>4. CASE /\ mig[m].pc = "apply"
             /\ done' = done \cup {mig[m].script} /\ applied' = Append(applied, mig[m].script)
    BY <2>1, <2>2, <2>4, ApplyStep
  <2> QED BY <1>7, <2>3, <2>4 DEF Fail
<1>8. CASE UNCHANGED migrateVars
  BY <1>8 DEF migrateVars, MigrateInv, MigrateTypeOK, HolderWorks, AppliedUpTo, AppliedOnceInOrder
<1> QED BY <1>1, <1>2, <1>3, <1>4, <1>5, <1>6, <1>7, <1>8 DEF MigrateNext, Step
-----------------------------------------------------------------------------
\* Only the lock's holder is between the lock and its release, and what it
\* has applied so far is what is recorded: the inductive invariant.
THEOREM InvHolds == MigrateSpec => []MigrateInv
BY MigrateInitInv, MigrateNextInv, PTL DEF MigrateSpec

\* The commands, the lock and the version table are well typed (Migrate).
THEOREM MigrateTypeCorrect == MigrateSpec => []MigrateTypeOK
<1>1. MigrateInv => MigrateTypeOK
  BY DEF MigrateInv
<1> QED BY InvHolds, <1>1, PTL

\* Whatever commands run together and whatever is killed, every file takes
\* effect once, in order, and is recorded exactly if it took effect.
THEOREM ScriptsApplyOnceInOrder == MigrateSpec => []AppliedOnceInOrder
<1>1. MigrateInv => AppliedOnceInOrder
  BY DEF MigrateInv
<1> QED BY InvHolds, <1>1, PTL

\* Where schema_migrations exists, commands that run at the same time do not
\* make each other fail: the race is on the statement before the lock only.
THEOREM NoRaceOnExistingTable == MigrateSpec => []OnlyFaultsFail
<1> DEFINE NoRace == table = "old" => OnlyFaultsFail /\ \A m \in Migrators : mig[m].pc # "create"
<1>1. MigrateInit => NoRace
  BY DEF MigrateInit, OnlyFaultsFail
<1>2. MigrateInv /\ NoRace /\ [MigrateNext]_migrateVars => NoRace'
  <2> SUFFICES ASSUME MigrateInv, NoRace, [MigrateNext]_migrateVars, table' = "old" PROVE NoRace'
    BY DEF OnlyFaultsFail
  <2> MigrateTypeOK
    BY DEF MigrateInv
  <2>1. ASSUME NEW m \in Migrators, LookForTable(m) PROVE NoRace'
    BY <2>1 DEF LookForTable, MigrateTypeOK, OnlyFaultsFail
  <2>2. ASSUME NEW m \in Migrators, Lock(m) PROVE NoRace'
    BY <2>2, GotoOthers DEF Lock, OnlyFaultsFail, States
  <2>3. ASSUME NEW m \in Migrators, Look(m) PROVE NoRace'
    <3>1. After(m) \/ Goto(m, "apply")
      BY <2>3 DEF Look
    <3>2. table' = table
      BY <2>3 DEF Look
    <3> QED BY <3>1, <3>2, AfterOthers, GotoOthers DEF OnlyFaultsFail, States
  <2>4. ASSUME NEW m \in Migrators, Apply(m) PROVE NoRace'
    <3>1. After(m) /\ table' = table
      BY <2>4 DEF Apply, MigrateInv, AppliedUpTo
    <3> QED BY <3>1, AfterOthers DEF OnlyFaultsFail
  <2>5. ASSUME NEW m \in Migrators, Unlock(m) PROVE NoRace'
    BY <2>5, GotoOthers DEF Unlock, OnlyFaultsFail, States
  <2>6. ASSUME NEW m \in Migrators, Fail(m) PROVE NoRace'
    BY <2>6 DEF Fail, MigrateTypeOK, OnlyFaultsFail
  <2>7. ASSUME NEW m \in Migrators, CreateTable(m) PROVE NoRace'
    <3>1. table # "old" /\ table' # "old"
      BY <2>7 DEF CreateTable
    <3> QED BY <3>1
  <2>8. CASE UNCHANGED migrateVars
    BY <2>8 DEF migrateVars, OnlyFaultsFail
  <2> QED BY <2>1, <2>2, <2>3, <2>4, <2>5, <2>6, <2>7, <2>8 DEF MigrateNext, Step
<1>3. NoRace => OnlyFaultsFail
  BY DEF OnlyFaultsFail
<1> QED BY <1>1, <1>2, <1>3, InvHolds, PTL DEF MigrateSpec

-----------------------------------------------------------------------------
(* Expiry and loss of Redis keys.                                          *)

Until == EndsAt + Retention

Have(K) == {d \in Devices : K.marker[d] = Until}

\* Markers and counter of keys K expire together, and count the same devices.
Together(K) ==
  /\ \A d \in Devices : K.marker[d] \in {0, Until}
  /\ K.nUntil \in {0, Until}
  /\ K.n = Cardinality(Have(K))
  /\ K.nUntil = 0 => Have(K) = {}

KeysInv == Together(mem) /\ Together(disk) /\ synced \subseteq Have(mem) /\ synced \subseteq Have(disk)

Uncapped == Until <= MaxTTL

-----------------------------------------------------------------------------
\* A key expires after now and within Times, whatever the cap.
LEMMA TTLBounds ==
  ASSUME ExpiryTypeOK
  PROVE  clock + TTL \in Times /\ clock + TTL > clock
BY ExpiryAssumption DEF ExpiryTypeOK, Times, TTL

\* Before the end of an uncapped poll a key expires at Until.
LEMMA TTLUncapped ==
  ASSUME ExpiryTypeOK, Uncapped, clock < EndsAt
  PROVE  clock + TTL = Until
BY ExpiryAssumption DEF ExpiryTypeOK, TTL, Until, Uncapped

\* What expiry leaves of sound keys.
LEMMA Unexpired ==
  ASSUME ExpiryTypeOK, KeysInv
  PROVE  /\ clock < Until => Marked = Have(mem) /\ Count = Cardinality(Have(mem))
         /\ ~(clock < Until) => Marked = {} /\ Count = 0
<1> clock \in Nat /\ Until \in Nat \ {0}
  BY ExpiryAssumption DEF ExpiryTypeOK, Until
<1> Together(mem) /\ Cardinality({}) = 0
  BY FS_EmptySet DEF KeysInv
<1>1. CASE clock < Until
  <2>1. Marked = Have(mem)
    BY <1>1 DEF Together, Marked, Have
  <2>2. CASE mem.nUntil = 0
    BY <1>1, <2>1, <2>2 DEF Together, Count
  <2>3. CASE mem.nUntil = Until
    BY <1>1, <2>1, <2>3 DEF Together, Count
  <2> QED BY <1>1, <2>1, <2>2, <2>3 DEF Together
<1>2. CASE ~(clock < Until)
  BY <1>2 DEF Together, Marked, Count
<1> QED BY <1>1, <1>2

-----------------------------------------------------------------------------
LEMMA TypeInit == ExpiryInit => ExpiryTypeOK
BY ExpiryAssumption DEF ExpiryInit, ExpiryTypeOK, NoKeys, Keys, Times

LEMMA TypeNext == ExpiryTypeOK /\ [ExpiryNext]_expiryVars => ExpiryTypeOK'
<1> SUFFICES ASSUME ExpiryTypeOK, [ExpiryNext]_expiryVars PROVE ExpiryTypeOK'
  OBVIOUS
<1> MaxClock \in Nat /\ MaxCrashes \in Nat
  BY ExpiryAssumption
<1>0. clock + TTL \in Times
  BY TTLBounds
<1>c. Count \in Nat
  BY DEF ExpiryTypeOK, Keys, Count
<1>1. ASSUME Publish PROVE ExpiryTypeOK'
  BY <1>0, <1>1 DEF Publish, WithGate, ExpiryTypeOK, Keys
<1>2. ASSUME Snapshot PROVE ExpiryTypeOK'
  BY <1>2, <1>c DEF Snapshot, ExpiryTypeOK
<1>3. ASSUME Close PROVE ExpiryTypeOK'
  <2>1. WithGate("closed") \in Keys
    BY <1>0 DEF WithGate, ExpiryTypeOK, Keys
  <2> QED BY <1>3, <1>c, <2>1 DEF Close, ExpiryTypeOK
<1>4. ASSUME NEW d \in Devices, Vote(d) PROVE ExpiryTypeOK'
  <2> DEFINE t == clock + TTL
  <2>0. t \in Times /\ Count + 1 \in Nat
    BY <1>0, <1>c
  <2>m. mem' = [mem EXCEPT !.marker[d] = t, !.n = Count + 1, !.nUntil = t]
    BY <1>4 DEF Vote
  <2> HIDE DEF t
  <2>k. mem \in Keys
    BY DEF ExpiryTypeOK
  <2>1. mem' \in Keys
    BY <2>0, <2>m, <2>k DEF Keys
  <2> QED BY <1>4, <2>1 DEF Vote, ExpiryTypeOK
<1>5. ASSUME Tick PROVE ExpiryTypeOK'
  BY <1>5 DEF Tick, ExpiryTypeOK
<1>6. ASSUME Fsync PROVE ExpiryTypeOK'
  BY <1>6 DEF Fsync, ExpiryTypeOK, Marked
<1>7. ASSUME Crash PROVE ExpiryTypeOK'
  BY <1>7 DEF Crash, ExpiryTypeOK
<1>8. CASE UNCHANGED expiryVars
  BY <1>8 DEF expiryVars, ExpiryTypeOK
<1> QED BY <1>1, <1>2, <1>3, <1>4, <1>5, <1>6, <1>7, <1>8 DEF ExpiryNext

\* The keys and their times are well typed, whatever MAX_REDIS_TTL.
THEOREM ExpiryTypeCorrect == ExpirySpec => []ExpiryTypeOK
BY TypeInit, TypeNext, PTL DEF ExpirySpec

-----------------------------------------------------------------------------
\* Changing a gate changes nothing else of the keys.
LEMMA GateOnly ==
  ASSUME ExpiryTypeOK, Together(mem), NEW g
  PROVE  Together(WithGate(g)) /\ Have(WithGate(g)) = Have(mem)
BY DEF ExpiryTypeOK, Keys, WithGate, Together, Have

LEMMA KeysInit == ExpiryInit => KeysInv
<1> SUFFICES ASSUME ExpiryInit PROVE KeysInv
  OBVIOUS
<1>1. Until # 0
  BY ExpiryAssumption DEF Until
<1>2. Have(mem) = {} /\ Have(disk) = {}
  BY <1>1 DEF ExpiryInit, NoKeys, Have
<1> QED BY <1>2, FS_EmptySet DEF ExpiryInit, NoKeys, KeysInv, Together

\* A vote adds its device's marker and one to the counter.
LEMMA VoteKeys ==
  ASSUME ExpiryTypeOK, Uncapped, KeysInv, NEW d \in Devices, Vote(d)
  PROVE  Together(mem') /\ Have(mem') = Have(mem) \cup {d} /\ d \notin Have(mem)
<1> Until \in Nat \ {0} /\ IsFiniteSet(Devices) /\ clock \in Nat
  BY ExpiryAssumption DEF Until, ExpiryTypeOK
<1>1. clock < EndsAt /\ clock < Until /\ clock + TTL = Until
  BY TTLUncapped, ExpiryAssumption DEF Vote, Until
<1>2. Marked = Have(mem) /\ Count = Cardinality(Have(mem))
  BY <1>1, Unexpired
<1>3. mem' = [mem EXCEPT !.marker[d] = Until, !.n = Count + 1, !.nUntil = Until]
  BY <1>1 DEF Vote
<1>4. d \notin Have(mem) /\ IsFiniteSet(Have(mem))
  BY <1>2, FS_Subset DEF Vote, Have
<1>5. Have(mem') = Have(mem) \cup {d}
  BY <1>3 DEF Have, ExpiryTypeOK, Keys
<1>6. Cardinality(Have(mem')) = Cardinality(Have(mem)) + 1
  BY <1>4, <1>5, FS_AddElement
<1>7. mem'.n = Cardinality(Have(mem')) /\ mem'.nUntil = Until
  BY <1>2, <1>3, <1>6 DEF ExpiryTypeOK, Keys
<1>8. \A e \in Devices : mem'.marker[e] \in {0, Until}
  BY <1>3 DEF KeysInv, Together, ExpiryTypeOK, Keys
<1> QED BY <1>4, <1>5, <1>7, <1>8 DEF Together

LEMMA KeysNext == ExpiryTypeOK /\ Uncapped /\ KeysInv /\ [ExpiryNext]_expiryVars => KeysInv'
<1> SUFFICES ASSUME ExpiryTypeOK, Uncapped, KeysInv, [ExpiryNext]_expiryVars PROVE KeysInv'
  OBVIOUS
<1>1. ASSUME NEW g, mem' = WithGate(g), UNCHANGED <<disk, synced>> PROVE KeysInv'
  <2>1. Together(mem') /\ Have(mem') = Have(mem)
    BY <1>1, GateOnly DEF KeysInv
  <2>2. Together(disk') /\ Have(disk') = Have(disk) /\ synced' = synced
    BY <1>1 DEF KeysInv, Together, Have
  <2> QED BY <2>1, <2>2 DEF KeysInv, Together, Have
<1>2. ASSUME NEW d \in Devices, Vote(d) PROVE KeysInv'
  <2>1. UNCHANGED <<disk, synced>>
    BY <1>2 DEF Vote
  <2> QED BY <1>2, <2>1, VoteKeys DEF KeysInv, Together, Have
<1>3. ASSUME Fsync PROVE KeysInv'
  <2>1. Marked \subseteq Have(mem)
    BY Unexpired
  <2> QED BY <1>3, <2>1 DEF Fsync, KeysInv, Together, Have
<1>4. ASSUME Crash PROVE KeysInv'
  BY <1>4 DEF Crash, KeysInv, Together, Have
<1>5. ASSUME UNCHANGED <<mem, disk, synced>> PROVE KeysInv'
  BY <1>5 DEF KeysInv, Together, Have
<1> QED BY <1>1, <1>2, <1>3, <1>4, <1>5 DEF ExpiryNext, Publish, Snapshot, Close, Tick, expiryVars

\* A bucket's counter is the number of its markers, through expiry and any
\* number of crashes: a ballot is lost together with its marker.
THEOREM CounterStaysWithMarkers ==
  ASSUME Uncapped
  PROVE  ExpirySpec => []CounterMatchesMarkers
<1>1. ExpiryTypeOK /\ KeysInv => CounterMatchesMarkers
  BY Unexpired, FS_EmptySet DEF CounterMatchesMarkers
<1>2. ExpirySpec => []KeysInv
  BY KeysInit, KeysNext, ExpiryTypeCorrect, PTL DEF ExpirySpec
<1> QED BY <1>1, <1>2, ExpiryTypeCorrect, PTL

\* A ballot that the append-only file has is there until the retention ends.
THEOREM SyncedStays ==
  ASSUME Uncapped
  PROVE  ExpirySpec => []SyncedSurvives
<1>1. ExpiryTypeOK /\ KeysInv => SyncedSurvives
  BY Unexpired DEF SyncedSurvives, KeysInv, Until
<1>2. ExpirySpec => []KeysInv
  BY KeysInit, KeysNext, ExpiryTypeCorrect, PTL DEF ExpirySpec
<1> QED BY <1>1, <1>2, ExpiryTypeCorrect, PTL

-----------------------------------------------------------------------------
\* Without a crash a device's count is its marker.
CountInv == crashes = 0 => \A d \in Devices : counted[d] = IF d \in Have(mem) THEN 1 ELSE 0

LEMMA CountNext ==
  ExpiryTypeOK /\ Uncapped /\ KeysInv /\ CountInv /\ [ExpiryNext]_expiryVars => CountInv'
<1> SUFFICES ASSUME ExpiryTypeOK, Uncapped, KeysInv, CountInv, [ExpiryNext]_expiryVars PROVE CountInv'
  OBVIOUS
<1> crashes \in Nat
  BY ExpiryAssumption DEF ExpiryTypeOK
<1>1. ASSUME NEW g, mem' = WithGate(g), UNCHANGED <<counted, crashes>> PROVE CountInv'
  BY <1>1, GateOnly DEF KeysInv, CountInv, Have
<1>2. ASSUME NEW d \in Devices, Vote(d) PROVE CountInv'
  <2>1. Have(mem)' = Have(mem) \cup {d} /\ d \notin Have(mem)
    BY <1>2, VoteKeys DEF Have
  <2>2. counted' = [counted EXCEPT ![d] = @ + 1] /\ crashes' = crashes
    BY <1>2 DEF Vote
  <2> QED BY <2>1, <2>2 DEF CountInv, ExpiryTypeOK
<1>3. ASSUME Crash PROVE CountInv'
  BY <1>3 DEF Crash, CountInv
<1>4. ASSUME UNCHANGED <<mem, counted, crashes>> PROVE CountInv'
  BY <1>4 DEF CountInv, Have
<1> QED BY <1>1, <1>2, <1>3, <1>4 DEF ExpiryNext, Publish, Snapshot, Close, Tick, Fsync, expiryVars

LEMMA CountInit == ExpiryInit => CountInv
BY ExpiryAssumption DEF ExpiryInit, NoKeys, CountInv, Have, Until

\* While Redis does not crash, a device is counted once, however often the
\* poll is published again.
THEOREM DevicesCountedOnce ==
  ASSUME Uncapped
  PROVE  ExpirySpec => []CountedOnce
<1>1. CountInv => CountedOnce
  BY DEF CountInv, CountedOnce
<1>2. ExpirySpec => []KeysInv
  BY KeysInit, KeysNext, ExpiryTypeCorrect, PTL DEF ExpirySpec
<1>3. ExpirySpec => []CountInv
  BY CountInit, CountNext, <1>2, ExpiryTypeCorrect, PTL DEF ExpirySpec
<1> QED BY <1>1, <1>3, PTL

\* And nothing is forgotten before ends_at + retention, while Redis does not
\* crash.
THEOREM VotesKept ==
  ASSUME Uncapped
  PROVE  ExpirySpec => []KeptUntilRetention
<1>1. ExpiryTypeOK /\ KeysInv /\ CountInv => KeptUntilRetention
  <2> SUFFICES ASSUME ExpiryTypeOK, KeysInv, CountInv, crashes = 0, clock < Until
               PROVE  Marked = Voters /\ Count = Cardinality(Voters)
    BY DEF KeptUntilRetention, Until
  <2>1. Voters = Have(mem)
    BY DEF Voters, CountInv, Have
  <2> QED BY <2>1, Unexpired
<1>2. ExpirySpec => []KeysInv
  BY KeysInit, KeysNext, ExpiryTypeCorrect, PTL DEF ExpirySpec
<1>3. ExpirySpec => []CountInv
  BY CountInit, CountNext, <1>2, ExpiryTypeCorrect, PTL DEF ExpirySpec
<1> QED BY <1>1, <1>2, <1>3, ExpiryTypeCorrect, PTL
-----------------------------------------------------------------------------
\* Without a crash a final snapshot belongs to a closed poll: its gate lets
\* nobody in any more, and everybody who came in is in it.
FinalInv == crashes = 0 /\ snap.final => status = "closed" /\ mem.gate # "active" /\ snap.n = Cardinality(Voters)

LEMMA FinalNext ==
  ASSUME Uncapped, ~LateClose
  PROVE  ExpiryTypeOK /\ KeysInv /\ CountInv /\ FinalInv /\ [ExpiryNext]_expiryVars => FinalInv'
<1> SUFFICES ASSUME ExpiryTypeOK, KeysInv, CountInv, FinalInv, [ExpiryNext]_expiryVars,
                    crashes' = 0, snap'.final
             PROVE  status' = "closed" /\ mem'.gate # "active" /\ snap'.n = Cardinality(Voters')
  BY DEF FinalInv
<1> crashes \in Nat
  BY ExpiryAssumption DEF ExpiryTypeOK
<1>1. ASSUME Close
      PROVE  status' = "closed" /\ mem'.gate # "active" /\ snap'.n = Cardinality(Voters')
  <2>1. clock < Until /\ crashes = 0 /\ counted' = counted
    BY <1>1 DEF Close, Until
  <2>2. Voters' = Have(mem)
    BY <2>1 DEF Voters, CountInv, Have
  <2>3. snap'.n = Cardinality(Have(mem)) /\ status' = "closed"
    BY <1>1, <2>1, Unexpired DEF Close
  <2>4. mem'.gate = "closed"
    BY <1>1 DEF Close, WithGate, ExpiryTypeOK, Keys
  <2> QED BY <2>2, <2>3, <2>4
<1>2. ASSUME ~Close
      PROVE  /\ crashes = 0 /\ snap.final /\ snap' = snap
             /\ UNCHANGED <<status, mem, counted>>
  <2>0. ~Crash
    BY DEF Crash
  <2>1. crashes' = crashes /\ crashes = 0
    BY <1>2, <2>0 DEF ExpiryNext, expiryVars, Publish, Snapshot, Vote, Tick, Fsync
  <2>2. snap.final
    <3>1. CASE Snapshot
      <4>1. snap' = [snap EXCEPT !.n = Count] /\ snap \in [n: Nat, final: BOOLEAN]
        BY <3>1 DEF Snapshot, ExpiryTypeOK
      <4>2. snap'.final = snap.final
        BY <4>1
      <4> QED BY <4>2
    <3>2. CASE ~Snapshot
      <4>1. snap' = snap
        BY <1>2, <3>2 DEF ExpiryNext, expiryVars, Publish, Vote, Tick, Fsync, Crash
      <4> QED BY <4>1
    <3> QED BY <3>1, <3>2
  <2>3. status = "closed" /\ mem.gate # "active"
    BY <2>1, <2>2 DEF FinalInv
  <2>4. Gate # "active"
    BY <2>3 DEF Gate
  <2>5. ~Publish /\ ~Snapshot /\ \A d \in Devices : ~Vote(d)
    BY <2>3, <2>4 DEF Publish, Snapshot, Vote
  <2> QED BY <1>2, <2>0, <2>1, <2>2, <2>5 DEF ExpiryNext, expiryVars, Tick, Fsync
<1>3. CASE ~Close
  BY <1>2, <1>3 DEF FinalInv, Voters
<1> QED BY <1>1, <1>3

\* A poll closed before the retention has run out, and before any crash, has
\* in its final result everybody who was told "recorded", whenever the keys
\* were renewed and whatever expired since.
THEOREM FinalResultCountsEverybody ==
  ASSUME Uncapped, ~LateClose
  PROVE  ExpirySpec => []FinalCountsEverybody
<1>1. FinalInv => FinalCountsEverybody
  BY DEF FinalInv, FinalCountsEverybody
<1>2. ExpirySpec => []KeysInv
  BY KeysInit, KeysNext, ExpiryTypeCorrect, PTL DEF ExpirySpec
<1>3. ExpirySpec => []CountInv
  BY CountInit, CountNext, <1>2, ExpiryTypeCorrect, PTL DEF ExpirySpec
<1>4. ExpiryInit => FinalInv
  BY DEF ExpiryInit, FinalInv
<1> QED BY <1>1, <1>2, <1>3, <1>4, FinalNext, ExpiryTypeCorrect, PTL DEF ExpirySpec

-----------------------------------------------------------------------------
(* The rounds of the snapshot workers.                                     *)

\* Polls of a round are to do, reported as successes or reported as errors.
SoundRound(r) ==
  /\ r.pc = "load" => r.ok = {} /\ r.err = {}
  /\ r.pc \in {"next", "save", "release"} => r.ids = r.todo \cup r.ok \cup r.err
  /\ r.pc \in {"save", "release"} => r.poll \subseteq r.todo
  /\ r.pc = "idle" /\ r.failed = FALSE => r.ok \cup r.err = r.ids

RoundInv == \A w \in Workers : SoundRound(wrk[w])

\* A worker that is now at r, and nothing else of the workers has moved.
WorkerAt(w, r) == wrk' = [wrk EXCEPT ![w] = r] /\ r \in Rounds!Rounds /\ SoundRound(r)

LEMMA WorkerMoves ==
  ASSUME wrk \in [Workers -> Rounds!Rounds], RoundInv, NEW w \in Workers, NEW r, WorkerAt(w, r)
  PROVE  wrk' \in [Workers -> Rounds!Rounds] /\ RoundInv'
BY DEF WorkerAt, RoundInv

LEMMA RoundInit == Rounds!Init => Rounds!RoundTypeOK /\ RoundInv
<1> SUFFICES ASSUME Rounds!Init PROVE Rounds!RoundTypeOK /\ RoundInv
  OBVIOUS
<1> DEFINE r == [Rounds!NewRound({}) EXCEPT !.pc = "idle"]
<1>1. r \in Rounds!Rounds /\ SoundRound(r)
  BY DEF Rounds!NewRound, Rounds!Rounds, SoundRound
<1>2. wrk = [w \in Workers |-> r]
  BY DEF Rounds!Init
<1> HIDE DEF r
<1>3. RoundInv /\ wrk \in [Workers -> Rounds!Rounds]
  BY <1>1, <1>2 DEF RoundInv
<1> QED BY <1>3, PartsAssumption DEF Rounds!Init, Rounds!RoundTypeOK, Rounds!RoundAssumption

\* Every step of a worker leaves the polls of its round accounted for.
LEMMA WorkerSteps ==
  ASSUME Rounds!RoundTypeOK, RoundInv, NEW w \in Workers,
         \/ Rounds!Round(w) \/ Rounds!LoadFault(w) \/ Rounds!SaveFault(w) \/ Rounds!Crash(w)
  PROVE  \E r : WorkerAt(w, r)
<1> DEFINE q == wrk[w]
<1>q. q \in Rounds!Rounds /\ SoundRound(q)
  BY DEF Rounds!RoundTypeOK, RoundInv
<1>w. wrk \in [Workers -> Rounds!Rounds] /\ active \subseteq Polls
  BY DEF Rounds!RoundTypeOK
<1>1. CASE Rounds!List(w)
  <2> DEFINE r == Rounds!NewRound(active)
  <2>1. wrk' = [wrk EXCEPT ![w] = r]
    BY <1>1 DEF Rounds!List
  <2>2. r \in Rounds!Rounds /\ SoundRound(r)
    BY <1>w DEF Rounds!NewRound, Rounds!Rounds, SoundRound
  <2> QED BY <2>1, <2>2 DEF WorkerAt
<1>2. CASE Rounds!Load(w)
  <2>1. CASE q.ids = q.todo
    <3> DEFINE r == [q EXCEPT !.pc = "next"]
    <3>1. wrk' = [wrk EXCEPT ![w] = r]
      BY <1>2, <2>1, <1>w DEF Rounds!Load
    <3>2. r \in Rounds!Rounds /\ SoundRound(r)
      BY <1>2, <2>1, <1>q DEF Rounds!Load, Rounds!Rounds, SoundRound
    <3> QED BY <3>1, <3>2 DEF WorkerAt
  <2>2. CASE q.ids # q.todo
    <3>1. PICK p \in q.ids \ q.todo : wrk' = [wrk EXCEPT ![w].todo = @ \cup {p}]
      BY <1>2, <2>2 DEF Rounds!Load
    <3> DEFINE r == [q EXCEPT !.todo = @ \cup {p}]
    <3>2. wrk' = [wrk EXCEPT ![w] = r]
      BY <3>1
    <3>3. r \in Rounds!Rounds /\ SoundRound(r)
      BY <1>2, <1>q DEF Rounds!Load, Rounds!Rounds, SoundRound
    <3> QED BY <3>2, <3>3 DEF WorkerAt
  <2> QED BY <2>1, <2>2
<1>3. CASE Rounds!Lock(w)
  <2>1. PICK p \in q.todo :
          \/ wrk' = [wrk EXCEPT ![w].pc = "save", ![w].poll = {p}]
          \/ wrk' = [wrk EXCEPT ![w].todo = @ \ {p}, ![w].ok = @ \cup {p}]
    BY <1>3 DEF Rounds!Lock
  <2>2. q.pc = "next"
    BY <1>3 DEF Rounds!Lock
  <2>3. CASE wrk' = [wrk EXCEPT ![w].pc = "save", ![w].poll = {p}]
    <3> DEFINE r == [q EXCEPT !.pc = "save", !.poll = {p}]
    <3>1. wrk' = [wrk EXCEPT ![w] = r]
      BY <2>3
    <3>2. r \in Rounds!Rounds /\ SoundRound(r)
      BY <2>2, <1>q DEF Rounds!Rounds, SoundRound
    <3> QED BY <3>1, <3>2 DEF WorkerAt
  <2>4. CASE wrk' = [wrk EXCEPT ![w].todo = @ \ {p}, ![w].ok = @ \cup {p}]
    <3> DEFINE r == [q EXCEPT !.todo = @ \ {p}, !.ok = @ \cup {p}]
    <3>1. wrk' = [wrk EXCEPT ![w] = r]
      BY <2>4
    <3>2. /\ r \in Rounds!Rounds /\ r.pc = "next" /\ r.todo = q.todo \ {p} /\ r.ok = q.ok \cup {p}
          /\ r.err = q.err /\ r.ids = q.ids
      BY <2>1, <2>2, <1>q DEF Rounds!Rounds
    <3> HIDE DEF r
    <3>3. q.ids = q.todo \cup q.ok \cup q.err
      BY <2>2, <1>q DEF SoundRound
    <3> HIDE DEF q
    <3>4. SoundRound(r)
      BY <2>1, <3>2, <3>3 DEF SoundRound
    <3> QED BY <3>1, <3>2, <3>4 DEF WorkerAt
  <2> QED BY <2>1, <2>3, <2>4
<1>4. CASE Rounds!Save(w)
  <2> DEFINE r == [q EXCEPT !.pc = "release", !.saved = @ \cup q.poll]
  <2>1. wrk' = [wrk EXCEPT ![w] = r]
    BY <1>4 DEF Rounds!Save
  <2>2. r \in Rounds!Rounds /\ SoundRound(r)
    BY <1>4, <1>q DEF Rounds!Save, Rounds!Rounds, SoundRound
  <2> QED BY <2>1, <2>2 DEF WorkerAt
<1>5. CASE Rounds!SaveFault(w)
  <2> DEFINE r == [q EXCEPT !.pc = "release", !.err = @ \cup q.poll]
  <2>1. wrk' = [wrk EXCEPT ![w] = r]
    BY <1>5 DEF Rounds!SaveFault
  <2>2. r \in Rounds!Rounds /\ SoundRound(r)
    BY <1>5, <1>q DEF Rounds!SaveFault, Rounds!Rounds, SoundRound
  <2> QED BY <2>1, <2>2 DEF WorkerAt
<1>6. CASE Rounds!Release(w)
  <2> DEFINE r == [q EXCEPT !.pc = "next", !.todo = @ \ q.poll, !.poll = {}, !.ok = @ \cup (q.poll \ q.err)]
  <2>1. wrk' = [wrk EXCEPT ![w] = r]
    BY <1>6 DEF Rounds!Release
  <2>2. r \in Rounds!Rounds /\ SoundRound(r)
    BY <1>6, <1>q DEF Rounds!Release, Rounds!Rounds, SoundRound
  <2> QED BY <2>1, <2>2 DEF WorkerAt
<1>7. CASE Rounds!Finish(w)
  <2> DEFINE r == [q EXCEPT !.pc = "idle"]
  <2>1. wrk' = [wrk EXCEPT ![w] = r]
    BY <1>7 DEF Rounds!Finish
  <2>2. r \in Rounds!Rounds /\ SoundRound(r)
    BY <1>7, <1>q DEF Rounds!Finish, Rounds!Rounds, SoundRound
  <2> QED BY <2>1, <2>2 DEF WorkerAt
<1>8. CASE Rounds!LoadFault(w)
  <2> DEFINE r == [q EXCEPT !.pc = "idle", !.todo = {}, !.failed = TRUE]
  <2>1. wrk' = [wrk EXCEPT ![w] = r]
    BY <1>8 DEF Rounds!LoadFault
  <2>2. r \in Rounds!Rounds /\ SoundRound(r)
    BY <1>8, <1>q DEF Rounds!LoadFault, Rounds!Rounds, SoundRound
  <2> QED BY <2>1, <2>2 DEF WorkerAt
<1>9. CASE Rounds!Crash(w)
  <2> DEFINE r == [Rounds!NewRound({}) EXCEPT !.pc = "idle", !.failed = TRUE]
  <2>1. wrk' = [wrk EXCEPT ![w] = r]
    BY <1>9 DEF Rounds!Crash
  <2>2. r \in Rounds!Rounds /\ SoundRound(r)
    BY DEF Rounds!NewRound, Rounds!Rounds, SoundRound
  <2> QED BY <2>1, <2>2 DEF WorkerAt
<1> QED BY <1>1, <1>2, <1>3, <1>4, <1>5, <1>6, <1>7, <1>8, <1>9 DEF Rounds!Round

LEMMA RoundNext ==
  Rounds!RoundTypeOK /\ RoundInv /\ [Rounds!Next]_roundVars => (Rounds!RoundTypeOK /\ RoundInv)'
<1> SUFFICES ASSUME Rounds!RoundTypeOK, RoundInv, [Rounds!Next]_roundVars
             PROVE  (Rounds!RoundTypeOK /\ RoundInv)'
  OBVIOUS
<1>w. wrk \in [Workers -> Rounds!Rounds]
  BY DEF Rounds!RoundTypeOK
<1>m. MaxVotes \in Nat /\ RoundFaults \in Nat
  BY PartsAssumption DEF Rounds!RoundAssumption
<1>1. ASSUME NEW w \in Workers,
             Rounds!Round(w) \/ Rounds!LoadFault(w) \/ Rounds!SaveFault(w) \/ Rounds!Crash(w)
      PROVE  (Rounds!RoundTypeOK /\ RoundInv)'
  <2>1. wrk' \in [Workers -> Rounds!Rounds] /\ RoundInv'
    BY <1>1, <1>w, WorkerSteps, WorkerMoves
  <2>2. UNCHANGED <<active, votes>> /\ roundFaults' \in 0..RoundFaults
    <3>1. UNCHANGED <<active, votes>>
      BY <1>1 DEF Rounds!Round, Rounds!List, Rounds!Load, Rounds!Lock, Rounds!Save, Rounds!Release,
         Rounds!Finish, Rounds!LoadFault, Rounds!SaveFault, Rounds!Crash
    <3>2. roundFaults' = roundFaults \/ Rounds!Fault
      BY <1>1 DEF Rounds!Round, Rounds!List, Rounds!Load, Rounds!Lock, Rounds!Save, Rounds!Release,
         Rounds!Finish, Rounds!LoadFault, Rounds!SaveFault, Rounds!Crash
    <3> QED BY <1>m, <3>1, <3>2 DEF Rounds!Fault, Rounds!RoundTypeOK
  <2>3. roundSnap' \in [Polls -> 0..MaxVotes]
    BY <1>1 DEF Rounds!Round, Rounds!List, Rounds!Load, Rounds!Lock, Rounds!Save, Rounds!Release,
       Rounds!Finish, Rounds!LoadFault, Rounds!SaveFault, Rounds!Crash, Rounds!RoundTypeOK
  <2>4. lock' \in [Polls -> Workers \cup {NoHolder}]
    BY <1>1 DEF Rounds!Round, Rounds!List, Rounds!Load, Rounds!Lock, Rounds!Save, Rounds!Release,
       Rounds!Finish, Rounds!LoadFault, Rounds!SaveFault, Rounds!Crash, Rounds!RoundTypeOK
  <2> QED BY <2>1, <2>2, <2>3, <2>4 DEF Rounds!RoundTypeOK
<1>2. ASSUME NEW p \in Polls, Rounds!LockExpire(p) \/ Rounds!Vote(p) \/ Rounds!Close(p)
      PROVE  (Rounds!RoundTypeOK /\ RoundInv)'
  <2>1. wrk' = wrk /\ roundFaults' = roundFaults
    BY <1>2 DEF Rounds!LockExpire, Rounds!Vote, Rounds!Close
  <2>2. active' \subseteq Polls /\ lock' \in [Polls -> Workers \cup {NoHolder}]
    BY <1>2 DEF Rounds!LockExpire, Rounds!Vote, Rounds!Close, Rounds!RoundTypeOK
  <2>3. votes' \in [Polls -> 0..MaxVotes] /\ roundSnap' \in [Polls -> 0..MaxVotes]
    BY <1>2, <1>m DEF Rounds!LockExpire, Rounds!Vote, Rounds!Close, Rounds!RoundTypeOK
  <2> QED BY <2>1, <2>2, <2>3 DEF Rounds!RoundTypeOK, RoundInv
<1>3. CASE UNCHANGED roundVars
  BY <1>3 DEF roundVars, Rounds!RoundTypeOK, RoundInv
<1> QED BY <1>1, <1>2, <1>3 DEF Rounds!Next

-----------------------------------------------------------------------------
(* API processes with their values of VOTE_BUCKETS.                        *)

\* Poll p's markers, each in the bucket that a number of buckets gives its device.
InPlace(M, b) == \A m \in M : m[1] \in Hashes /\ m = <<m[1], m[1] % b>>

\* The same for the numbers of buckets a poll was published with.
InPlaces(M, cs) == \A m \in M : m[1] \in Hashes /\ \E b \in cs : m = <<m[1], m[1] % b>>

\* What a poll's row, gates, markers, final result and the numbers of buckets
\* that it was published with are to each other.
SoundPoll(row, g, M, n, cs) ==
  /\ IsFiniteSet(cs) /\ (\A b \in cs : b \in Nat /\ b >= 1)
  /\ row.status # "draft" => row.buckets \in cs
  /\ n # NoResult => row.status = "closed"
  /\ row.status = "closed" /\ cs = {row.buckets} => g = {} /\ n = Cardinality(M)
  /\ \A x \in g : \E b \in cs : x \in 0..b - 1
  /\ InPlaces(M, cs)

\* Processes that got past config.Load have the settings of the environment;
\* the ones that serve have the buckets of every active poll.
SoundProcess(q) ==
  /\ q.pc \in {"check", "up"} => q.cfg = env /\ env.buckets >= 1
  /\ q.pc = "up" => \A p \in ApiPolls : poll[p].status = "active" => poll[p].buckets = env.buckets

\* A process remembers polls that were published with its own number only.
Remembers(q, K) == \A p \in K : q.pc = "up" /\ env.buckets \in counts[p]

ApiInv ==
  /\ \A r \in Replicas : SoundProcess(proc[r]) /\ Remembers(proc[r], known[r])
  /\ \A p \in ApiPolls : SoundPoll(poll[p], gates[p], marks[p], result[p], counts[p])

BucketIds == UNION {0..n - 1 : n \in Sizes}

Processes == [pc: {"down", "check", "up", "panicked"}, cfg: Api!Settings]

Rows == [status: {"draft", "active", "closed"}, buckets: Sizes]

LEMMA ApiFacts ==
  /\ IsFiniteSet(Hashes) /\ Hashes \subseteq Nat /\ Sizes \subseteq Nat /\ NoResult \notin Nat
  /\ \A S : Api!Cardinality(S) = Cardinality(S)
<1>1. \A S : Api!Cardinality(S) = Cardinality(S)
  BY Zenon DEF Api!Cardinality, Cardinality
<1> QED BY <1>1, PartsAssumption DEF Api!ApiAssumption, Api!IsFiniteSet, IsFiniteSet

\* A device's bucket is one of the poll's.
LEMMA BucketInRange ==
  ASSUME NEW d \in Nat, NEW b \in Nat, b >= 1
  PROVE  d % b \in 0..b - 1
OBVIOUS

\* Markers in place count devices.
LEMMA MarksAreDevices ==
  ASSUME NEW M, NEW b, InPlace(M, b)
  PROVE  Cardinality(M) = Cardinality({m[1] : m \in M})
<1> DEFINE D == {m[1] : m \in M}
<1> DEFINE f == [d \in D |-> <<d, d % b>>]
<1>1. IsFiniteSet(D)
  BY ApiFacts, FS_Subset DEF InPlace
<1>2. f \in Bijection(D, M)
  <2>1. \A d \in D : f[d] \in M
    BY DEF InPlace
  <2>2. \A d, e \in D : f[d] = f[e] => d = e
    OBVIOUS
  <2>3. \A m \in M : \E d \in D : f[d] = m
    BY DEF InPlace
  <2> QED BY <2>1, <2>2, <2>3 DEF Bijection, Injection, IsInjective, Surjection
<1>3. ExistsBijection(D, M)
  BY <1>2 DEF ExistsBijection
<1> QED BY <1>1, <1>3, FS_Bijection

\* One number of buckets puts every marker in one place.
LEMMA OnePlace ==
  ASSUME NEW M, NEW cs, InPlaces(M, cs), IsFiniteSet(cs), Cardinality(cs) <= 1
  PROVE  \E b : InPlace(M, b) /\ (cs = {} \/ cs = {b})
<1>1. CASE cs = {}
  BY <1>1 DEF InPlaces, InPlace
<1>2. CASE cs # {}
  <2>1. PICK b \in cs : TRUE
    BY <1>2
  <2>2. Cardinality(cs) = 1
    BY <1>2, FS_EmptySet, FS_CardinalityType
  <2>3. cs = {b}
    BY <2>1, <2>2, FS_Singleton
  <2> QED BY <2>3 DEF InPlaces, InPlace
<1> QED BY <1>1, <1>2

LEMMA SplitOnce == ApiInv => OnlyRepublishingSplits
<1> SUFFICES ASSUME ApiInv, NEW p \in ApiPolls
             PROVE  /\ Cardinality(counts[p]) <= 1 => Api!CountsOnce(p)
                    /\ \A m \in marks[p] : \E n \in counts[p] : m[2] = m[1] % n
  BY ApiFacts DEF OnlyRepublishingSplits, Api!OnlyRepublishingSplits
<1>1. SoundPoll(poll[p], gates[p], marks[p], result[p], counts[p])
  BY DEF ApiInv
<1>2. ASSUME Cardinality(counts[p]) <= 1 PROVE Api!CountsOnce(p)
  <2>1. PICK b : InPlace(marks[p], b) /\ (counts[p] = {} \/ counts[p] = {b})
    BY <1>1, <1>2, OnePlace DEF SoundPoll
  <2>2. Cardinality(marks[p]) = Cardinality({m[1] : m \in marks[p]})
    BY <2>1, MarksAreDevices
  <2>3. result[p] # NoResult => result[p] = Cardinality(marks[p])
    BY <1>1, <2>1 DEF SoundPoll
  <2> QED BY <2>2, <2>3, ApiFacts DEF Api!CountsOnce, Api!Voters
<1>3. \A m \in marks[p] : \E n \in counts[p] : m[2] = m[1] % n
  BY <1>1 DEF SoundPoll, InPlaces
<1> QED BY <1>2, <1>3

LEMMA ApiInit == Api!Init => Api!ApiTypeOK /\ ApiInv
<1> SUFFICES ASSUME Api!Init PROVE Api!ApiTypeOK /\ ApiInv
  OBVIOUS
<1>1. IsFiniteSet({})
  BY FS_EmptySet
<1>2. Api!ApiTypeOK
  BY DEF Api!Init, Api!ApiTypeOK, Api!Settings
<1>3. ApiInv
  BY <1>1 DEF Api!Init, ApiInv, SoundProcess, Remembers, SoundPoll, InPlaces
<1> QED BY <1>2, <1>3

\* A process moves; the polls stay.
LEMMA ProcessMoves ==
  ASSUME Api!ApiTypeOK, ApiInv, NEW r \in Replicas, Api!Start(r) \/ Api!Check(r) \/ Api!Stop(r)
  PROVE  (Api!ApiTypeOK /\ ApiInv)'
<1>t. proc \in [Replicas -> Processes] /\ env \in Api!Settings /\ known \in [Replicas -> SUBSET ApiPolls]
  BY DEF Api!ApiTypeOK, Processes
<1>u. UNCHANGED <<env, poll, gates, marks, result, counts>>
  BY DEF Api!Start, Api!Check, Api!Stop, Api!pollVars
<1>v. undoing' \in [ApiPolls -> SUBSET Replicas]
  BY DEF Api!Start, Api!Check, Api!Stop, Api!memory, Api!ApiTypeOK
<1>1. ASSUME NEW q \in Processes, NEW K \in SUBSET ApiPolls, SoundProcess(q), Remembers(q, K),
             proc' = [proc EXCEPT ![r] = q], known' = [known EXCEPT ![r] = K]
      PROVE  (Api!ApiTypeOK /\ ApiInv)'
  <2>1. /\ proc' \in [Replicas -> Processes] /\ known' \in [Replicas -> SUBSET ApiPolls]
        /\ \A x \in Replicas : SoundProcess(proc'[x]) /\ Remembers(proc'[x], known'[x])
    BY <1>1, <1>t DEF ApiInv
  <2> QED BY <2>1, <1>u, <1>v DEF Api!ApiTypeOK, ApiInv, Processes, SoundProcess, Remembers
<1>w. known = [known EXCEPT ![r] = known[r]]
  BY <1>t
<1>x. proc[r].pc # "up" => known[r] = {}
  BY <1>t DEF ApiInv, Remembers
<1>2. CASE Api!Start(r)
  <2> DEFINE q == [pc |-> "check", cfg |-> env]
  <2>0. env.buckets >= 1
    <3>1. Api!Load(env)
      BY <1>2 DEF Api!Start
    <3> QED BY <3>1 DEF Api!Load
  <2>1. q \in Processes /\ SoundProcess(q) /\ Remembers(q, known[r])
    BY <2>0, <1>2, <1>t, <1>x DEF Processes, SoundProcess, Remembers, Api!Start
  <2>2. proc' = [proc EXCEPT ![r] = q] /\ known' = [known EXCEPT ![r] = known[r]] /\ known[r] \in SUBSET ApiPolls
    BY <1>2, <1>t, <1>w DEF Api!Start, Api!memory
  <2> QED BY <2>1, <2>2, <1>1
<1>3. CASE Api!Check(r)
  <2> DEFINE c == IF \E p \in ApiPolls : Api!Unsafe(p, proc[r].cfg.buckets) THEN "down"
                  ELSE IF proc[r].cfg.interval <= 0 THEN "panicked" ELSE "up"
  <2> DEFINE q == [proc[r] EXCEPT !.pc = c]
  <2>1. proc[r].pc = "check" /\ SoundProcess(proc[r]) /\ proc[r] \in Processes
    BY <1>3, <1>t DEF Api!Check, ApiInv
  <2>2. proc' = [proc EXCEPT ![r] = q] /\ known' = [known EXCEPT ![r] = known[r]] /\ known[r] \in SUBSET ApiPolls
    BY <1>3, <1>t, <1>w DEF Api!Check, Api!memory
  <2>3. c \in {"down", "panicked", "up"}
    OBVIOUS
  <2>4. c = "up" => \A p \in ApiPolls : poll[p].status = "active" => poll[p].buckets = env.buckets
    BY <2>1 DEF Api!Unsafe, SoundProcess
  <2> HIDE DEF c
  <2>5. q \in Processes /\ SoundProcess(q)
    BY <2>1, <2>3, <2>4 DEF Processes, SoundProcess
  <2>6. Remembers(q, known[r])
    BY <2>1, <1>x DEF Remembers
  <2> QED BY <2>2, <2>5, <2>6, <1>1
<1>4. CASE Api!Stop(r)
  <2> DEFINE q == [proc[r] EXCEPT !.pc = "down"]
  <2>1. q \in Processes /\ SoundProcess(q) /\ Remembers(q, {})
    BY <1>t DEF Processes, SoundProcess, Remembers
  <2>2. proc' = [proc EXCEPT ![r] = q] /\ known' = [known EXCEPT ![r] = {}] /\ {} \in SUBSET ApiPolls
    BY <1>4 DEF Api!Stop
  <2> HIDE DEF q
  <2> QED BY <2>1, <2>2, <1>1
<1> QED BY <1>2, <1>3, <1>4

\* What a request finds: a serving process has the buckets of the active polls.
LEMMA Serving ==
  ASSUME Api!ApiTypeOK, ApiInv, NEW r \in Replicas, proc[r].pc = "up"
  PROVE  /\ proc[r].cfg = env /\ env.buckets \in Sizes /\ env.buckets \in Nat /\ env.buckets >= 1
         /\ Api!BucketsOf(r) = 0..env.buckets - 1
         /\ \A p \in ApiPolls : poll[p].status = "active" => poll[p].buckets = env.buckets
<1>1. SoundProcess(proc[r])
  BY DEF ApiInv
<1> QED BY <1>1, ApiFacts DEF SoundProcess, Api!ApiTypeOK, Api!Settings, Api!BucketsOf

\* Serving processes may remember poll p, if it was published with their number.
OnlyLearns(p, cs) ==
  \A r \in Replicas : \A q \in known'[r] \ known[r] :
    q = p /\ proc[r].pc = "up" /\ env.buckets \in cs

\* One poll changes and a process may remember it; the others stay.
LEMMA PollMoves ==
  ASSUME Api!ApiTypeOK, ApiInv, NEW p \in ApiPolls, NEW row \in Rows, NEW g \in SUBSET BucketIds,
         NEW M \in SUBSET (Hashes \X BucketIds), NEW n \in Nat \cup {NoResult}, NEW cs \in SUBSET Sizes,
         SoundPoll(row, g, M, n, cs), counts[p] \subseteq cs,
         poll' = [poll EXCEPT ![p] = row], gates' = [gates EXCEPT ![p] = g],
         marks' = [marks EXCEPT ![p] = M], result' = [result EXCEPT ![p] = n],
         counts' = [counts EXCEPT ![p] = cs], UNCHANGED <<env, proc>>,
         known' \in [Replicas -> SUBSET ApiPolls], undoing' \in [ApiPolls -> SUBSET Replicas],
         OnlyLearns(p, cs),
         row.status = "active" /\ (\E r \in Replicas : proc[r].pc = "up") => row.buckets = env.buckets
  PROVE  (Api!ApiTypeOK /\ ApiInv)'
<1>1. Api!ApiTypeOK'
  BY DEF Api!ApiTypeOK, Rows, BucketIds
<1>2. \A q \in ApiPolls : SoundPoll(poll'[q], gates'[q], marks'[q], result'[q], counts'[q])
  BY DEF ApiInv, Api!ApiTypeOK
<1>3. \A r \in Replicas : SoundProcess(proc[r])'
  BY DEF ApiInv, SoundProcess, Api!ApiTypeOK
<1>4. \A q \in ApiPolls : counts[q] \subseteq counts'[q]
  BY DEF Api!ApiTypeOK
<1>5. counts'[p] = cs
  BY DEF Api!ApiTypeOK
<1>6. \A r \in Replicas : Remembers(proc[r], known[r])'
  BY <1>4, <1>5 DEF ApiInv, Remembers, OnlyLearns, Api!ApiTypeOK
<1> QED BY <1>1, <1>2, <1>3, <1>6 DEF ApiInv

\* What a poll is before a request changes it.
LEMMA PollTypes ==
  ASSUME Api!ApiTypeOK, ApiInv, NEW p \in ApiPolls
  PROVE  /\ poll[p] \in Rows /\ gates[p] \in SUBSET BucketIds /\ counts[p] \in SUBSET Sizes
         /\ marks[p] \in SUBSET (Hashes \X BucketIds) /\ result[p] \in Nat \cup {NoResult}
         /\ SoundPoll(poll[p], gates[p], marks[p], result[p], counts[p])
         /\ poll = [poll EXCEPT ![p] = poll[p]] /\ gates = [gates EXCEPT ![p] = gates[p]]
         /\ marks = [marks EXCEPT ![p] = marks[p]] /\ result = [result EXCEPT ![p] = result[p]]
         /\ counts = [counts EXCEPT ![p] = counts[p]]
BY DEF Api!ApiTypeOK, ApiInv, Rows, BucketIds

\* A publish, also one that fails after some of its gates.
LEMMA PublishMovesPoll ==
  ASSUME Api!ApiTypeOK, ApiInv, NEW r \in Replicas, NEW p \in ApiPolls,
         Api!Publish(r, p) \/ Api!PublishFails(r, p)
  PROVE  (Api!ApiTypeOK /\ ApiInv)'
<1> DEFINE row == [status |-> "active", buckets |-> env.buckets]
<1> DEFINE cs == IF poll[p].status = "draft" THEN counts[p] \cup {env.buckets} ELSE counts[p]
<1>1. proc[r].pc = "up" /\ poll[p].status \in {"draft", "active"}
  BY DEF Api!Publish, Api!PublishFails, Api!CommitPublish
<1>2. /\ proc[r].cfg = env /\ env.buckets \in Sizes /\ env.buckets \in Nat /\ env.buckets >= 1
      /\ Api!BucketsOf(r) = 0..env.buckets - 1
      /\ poll[p].status = "active" => poll[p].buckets = env.buckets
  BY <1>1, Serving
<1>3. poll' = [poll EXCEPT ![p] = row] /\ counts' = [counts EXCEPT ![p] = cs]
  BY <1>1, <1>2, PollTypes DEF Api!Publish, Api!PublishFails, Api!CommitPublish
<1>4. PICK X \in SUBSET (0..env.buckets - 1) : gates' = [gates EXCEPT ![p] = gates[p] \cup X]
  <2>1. CASE Api!Publish(r, p)
    BY <2>1, <1>2 DEF Api!Publish
  <2>2. CASE Api!PublishFails(r, p)
    <3>1. PICK k \in 0..env.buckets : gates' = [gates EXCEPT ![p] = gates[p] \cup 0..k - 1]
      BY <2>2, <1>2 DEF Api!PublishFails
    <3>2. 0..k - 1 \in SUBSET (0..env.buckets - 1)
      BY <1>2
    <3> QED BY <3>1, <3>2
  <2> QED BY <2>1, <2>2
<1> DEFINE g == gates[p] \cup X
<1>5. cs \in SUBSET Sizes /\ counts[p] \subseteq cs /\ IsFiniteSet(cs) /\ env.buckets \in cs
  <2>1. counts[p] \in SUBSET Sizes /\ IsFiniteSet(counts[p])
    BY PollTypes DEF SoundPoll
  <2>2. IsFiniteSet(counts[p] \cup {env.buckets})
    BY <2>1, FS_AddElement
  <2>3. poll[p].status = "active" => poll[p].buckets \in counts[p]
    BY PollTypes DEF SoundPoll
  <2> QED BY <1>1, <1>2, <2>1, <2>2, <2>3
<1>6. \A b \in cs : b \in Nat /\ b >= 1
  BY <1>2, PollTypes DEF SoundPoll
<1>7. g \in SUBSET BucketIds /\ \A x \in g : \E b \in cs : x \in 0..b - 1
  <2>1. X \subseteq BucketIds
    BY <1>2 DEF BucketIds
  <2>2. \A x \in gates[p] : \E b \in counts[p] : x \in 0..b - 1
    BY PollTypes DEF SoundPoll
  <2> QED BY <2>1, <2>2, <1>5, PollTypes
<1>8. InPlaces(marks[p], cs)
  BY <1>5, PollTypes DEF SoundPoll, InPlaces
<1>9. result[p] = NoResult
  BY <1>1, PollTypes DEF SoundPoll
<1>10. row \in Rows /\ row.status = "active" /\ row.buckets = env.buckets
  BY <1>2 DEF Rows
<1> HIDE DEF row, cs, g
<1>11. SoundPoll(row, g, marks[p], result[p], cs)
  BY <1>5, <1>6, <1>7, <1>8, <1>9, <1>10 DEF SoundPoll
<1>12. /\ known' \in [Replicas -> SUBSET ApiPolls] /\ undoing' \in [ApiPolls -> SUBSET Replicas]
       /\ \A x \in Replicas : \A q \in known'[x] \ known[x] : q = p /\ x = r
  <2>1. CASE Api!Publish(r, p)
    BY <2>1 DEF Api!Publish, Api!ApiTypeOK
  <2>2. CASE Api!PublishFails(r, p)
    BY <2>2 DEF Api!PublishFails, Api!ApiTypeOK
  <2> QED BY <2>1, <2>2
<1>13. marks' = marks /\ result' = result /\ UNCHANGED <<env, proc>>
  BY DEF Api!Publish, Api!PublishFails
<1>14. gates' = [gates EXCEPT ![p] = g]
  BY <1>4 DEF g
<1>15. /\ marks' = [marks EXCEPT ![p] = marks[p]] /\ result' = [result EXCEPT ![p] = result[p]]
       /\ marks[p] \in SUBSET (Hashes \X BucketIds) /\ result[p] \in Nat \cup {NoResult}
  BY <1>13, PollTypes
<1>16. OnlyLearns(p, cs)
  BY <1>1, <1>5, <1>12 DEF OnlyLearns
<1> QED BY <1>3, <1>5, <1>7, <1>10, <1>11, <1>12, <1>13, <1>14, <1>15, <1>16, PollMoves

\* Taking a publish back forgets gates and no marker.
LEMMA CompensateMovesPoll ==
  ASSUME Api!ApiTypeOK, ApiInv, NEW r \in Replicas, NEW p \in ApiPolls, Api!Compensate(r, p)
  PROVE  (Api!ApiTypeOK /\ ApiInv)'
<1>1. /\ UNCHANGED <<env, proc, marks, result, known, counts>>
      /\ undoing' \in [ApiPolls -> SUBSET Replicas]
  BY DEF Api!Compensate, Api!ApiTypeOK
<1>2. known' \in [Replicas -> SUBSET ApiPolls] /\ OnlyLearns(p, counts[p])
  BY <1>1 DEF OnlyLearns, Api!ApiTypeOK
<1>3. CASE UNCHANGED <<poll, gates>>
  BY <1>1, <1>2, <1>3 DEF Api!ApiTypeOK, ApiInv, SoundProcess, Remembers
<1>4. CASE /\ poll[p].status = "active" /\ poll' = [poll EXCEPT ![p].status = "draft"]
           /\ gates' = [gates EXCEPT ![p] = @ \ Api!BucketsOf(r)] \/ gates' = gates
  <2> DEFINE row == [poll[p] EXCEPT !.status = "draft"]
  <2>1. PICK g \in SUBSET gates[p] : gates' = [gates EXCEPT ![p] = g]
    BY <1>4, PollTypes
  <2>2. poll' = [poll EXCEPT ![p] = row] /\ row \in Rows /\ row.status = "draft"
    BY <1>4, PollTypes DEF Rows
  <2> HIDE DEF row
  <2>3. result[p] = NoResult
    BY <1>4, PollTypes DEF SoundPoll
  <2>4. SoundPoll(row, g, marks[p], result[p], counts[p])
    BY <2>1, <2>2, <2>3, PollTypes DEF SoundPoll
  <2>5. /\ marks' = [marks EXCEPT ![p] = marks[p]] /\ result' = [result EXCEPT ![p] = result[p]]
        /\ counts' = [counts EXCEPT ![p] = counts[p]] /\ g \in SUBSET BucketIds
        /\ marks[p] \in SUBSET (Hashes \X BucketIds) /\ result[p] \in Nat \cup {NoResult}
        /\ counts[p] \in SUBSET Sizes
    BY <1>1, <2>1, PollTypes
  <2> QED BY <1>1, <1>2, <2>1, <2>2, <2>4, <2>5, PollMoves
<1> QED BY <1>3, <1>4 DEF Api!Compensate

LEMMA VoteMovesPoll ==
  ASSUME Api!ApiTypeOK, ApiInv, NEW r \in Replicas, NEW p \in ApiPolls, NEW d \in Hashes, Api!Vote(r, p, d)
  PROVE  (Api!ApiTypeOK /\ ApiInv)'
<1> DEFINE m == <<d, d % env.buckets>>
<1> DEFINE M == marks[p] \cup {m}
<1>1. proc[r].pc = "up" /\ (poll[p].status = "active" \/ p \in known[r])
  BY DEF Api!Vote
<1>2. proc[r].cfg = env /\ (poll[p].status = "active" => poll[p].buckets = env.buckets)
  BY <1>1, Serving
<1>3. env.buckets \in counts[p]
  BY <1>1, <1>2, PollTypes DEF ApiInv, Remembers, SoundPoll
<1>4. m[2] \in gates[p] /\ marks' = [marks EXCEPT ![p] = M]
  BY <1>2 DEF Api!Vote, Api!Bucket
<1>5. M \in SUBSET (Hashes \X BucketIds)
  BY <1>4, PollTypes
<1>6. InPlaces(M, counts[p])
  BY <1>3, PollTypes DEF SoundPoll, InPlaces
<1>7. ~(poll[p].status = "closed" /\ counts[p] = {poll[p].buckets})
  BY <1>4, PollTypes DEF SoundPoll
<1>8. gates[p] # {}
  BY <1>4
<1> HIDE DEF M
<1>9. SoundPoll(poll[p], gates[p], M, result[p], counts[p])
  BY <1>6, <1>7, PollTypes DEF SoundPoll
<1>10. /\ UNCHANGED <<env, proc, poll, gates, result, counts>>
       /\ known' \in [Replicas -> SUBSET ApiPolls] /\ undoing' \in [ApiPolls -> SUBSET Replicas]
       /\ \A x \in Replicas : \A q \in known'[x] \ known[x] : q = p /\ x = r
  BY DEF Api!Vote, Api!ApiTypeOK
<1>11. /\ poll' = [poll EXCEPT ![p] = poll[p]] /\ gates' = [gates EXCEPT ![p] = gates[p]]
       /\ result' = [result EXCEPT ![p] = result[p]] /\ counts' = [counts EXCEPT ![p] = counts[p]]
       /\ poll[p] \in Rows /\ gates[p] \in SUBSET BucketIds /\ result[p] \in Nat \cup {NoResult}
       /\ counts[p] \in SUBSET Sizes
  BY <1>10, PollTypes
<1>12. OnlyLearns(p, counts[p])
  BY <1>1, <1>3, <1>10 DEF OnlyLearns
<1> QED BY <1>2, <1>4, <1>5, <1>9, <1>10, <1>11, <1>12, PollMoves

LEMMA CloseMovesPoll ==
  ASSUME Api!ApiTypeOK, ApiInv, NEW r \in Replicas, NEW p \in ApiPolls, Api!Close(r, p)
  PROVE  (Api!ApiTypeOK /\ ApiInv)'
<1> DEFINE row == [poll[p] EXCEPT !.status = "closed"]
<1> DEFINE b == poll[p].buckets
<1> DEFINE g == gates[p] \ Api!BucketsOf(r)
<1> DEFINE n == Api!Total(r, p)
<1>1. proc[r].pc = "up" /\ poll[p].status = "active"
  BY DEF Api!Close
<1>2. Api!BucketsOf(r) = 0..b - 1 /\ b \in Nat /\ b >= 1 /\ b \in counts[p]
  BY <1>1, Serving, PollTypes DEF SoundPoll
<1>3. poll' = [poll EXCEPT ![p] = row] /\ gates' = [gates EXCEPT ![p] = g] /\ result' = [result EXCEPT ![p] = n]
  BY PollTypes DEF Api!Close
<1>4. row \in Rows /\ row.status = "closed" /\ row.buckets = b
  BY PollTypes DEF Rows
<1>5. g \in SUBSET BucketIds /\ g \subseteq gates[p]
  BY PollTypes
<1>6. n = Cardinality({m \in marks[p] : m[2] \in 0..b - 1})
  BY <1>2, ApiFacts DEF Api!Total
<1>7. n \in Nat
  <2>1. {m \in marks[p] : m[2] \in 0..b - 1} \subseteq Hashes \X (0..b - 1)
    BY PollTypes
  <2>2. IsFiniteSet(0..b - 1)
    BY <1>2, FS_Interval
  <2>3. IsFiniteSet(Hashes \X (0..b - 1))
    BY <2>2, ApiFacts, FS_Product
  <2> QED BY <1>6, <2>1, <2>3, FS_Subset, FS_CardinalityType
<1>8. ASSUME counts[p] = {b} PROVE g = {} /\ n = Cardinality(marks[p])
  <2>1. g = {}
    BY <1>2, <1>8, PollTypes DEF SoundPoll
  <2>2. \A m \in marks[p] : m[2] \in 0..b - 1
    <3> SUFFICES ASSUME NEW m \in marks[p] PROVE m[2] \in 0..b - 1
      OBVIOUS
    <3>1. m[1] \in Nat /\ m[2] = m[1] % b
      BY <1>8, PollTypes, ApiFacts DEF SoundPoll, InPlaces
    <3> QED BY <3>1, <1>2, BucketInRange
  <2>3. {m \in marks[p] : m[2] \in 0..b - 1} = marks[p]
    BY <2>2
  <2> QED BY <2>1, <2>3, <1>6
<1> HIDE DEF row, b, g, n
<1>9. SoundPoll(row, g, marks[p], n, counts[p])
  BY <1>2, <1>4, <1>5, <1>8, PollTypes DEF SoundPoll
<1>10. /\ UNCHANGED <<env, proc, marks, counts>>
       /\ known' \in [Replicas -> SUBSET ApiPolls] /\ undoing' \in [ApiPolls -> SUBSET Replicas]
       /\ OnlyLearns(p, counts[p])
  <2>1. UNCHANGED <<env, proc, marks, counts, undoing>>
    BY DEF Api!Close
  <2>2. known' = [known EXCEPT ![r] = @ \ {p}] \/ known' = known
    BY DEF Api!Close
  <2>3. known \in [Replicas -> SUBSET ApiPolls] /\ undoing \in [ApiPolls -> SUBSET Replicas]
    BY DEF Api!ApiTypeOK
  <2>4. known' \in [Replicas -> SUBSET ApiPolls] /\ \A x \in Replicas : known'[x] \subseteq known[x]
    BY <2>2, <2>3
  <2> QED BY <2>1, <2>3, <2>4 DEF OnlyLearns
<1>11. /\ marks' = [marks EXCEPT ![p] = marks[p]] /\ counts' = [counts EXCEPT ![p] = counts[p]]
       /\ marks[p] \in SUBSET (Hashes \X BucketIds) /\ counts[p] \in SUBSET Sizes
  BY <1>10, PollTypes
<1> QED BY <1>3, <1>4, <1>5, <1>7, <1>9, <1>10, <1>11, PollMoves

LEMMA CloseFailsMovesPoll ==
  ASSUME Api!ApiTypeOK, ApiInv, NEW r \in Replicas, NEW p \in ApiPolls, Api!CloseFails(r, p)
  PROVE  (Api!ApiTypeOK /\ ApiInv)'
<1>1. PICK g \in SUBSET gates[p] : gates' = [gates EXCEPT ![p] = g]
  BY DEF Api!CloseFails
<1>2. SoundPoll(poll[p], g, marks[p], result[p], counts[p])
  BY <1>1, PollTypes DEF SoundPoll
<1>3. /\ UNCHANGED <<env, proc, poll, marks, result, counts, known>>
      /\ known' \in [Replicas -> SUBSET ApiPolls] /\ undoing' \in [ApiPolls -> SUBSET Replicas]
      /\ OnlyLearns(p, counts[p])
  BY DEF OnlyLearns, Api!CloseFails, Api!memory, Api!ApiTypeOK
<1>4. poll[p].status = "active" /\ (\E x \in Replicas : proc[x].pc = "up") => poll[p].buckets = env.buckets
  BY Serving
<1>5. /\ poll' = [poll EXCEPT ![p] = poll[p]] /\ marks' = [marks EXCEPT ![p] = marks[p]]
      /\ result' = [result EXCEPT ![p] = result[p]] /\ counts' = [counts EXCEPT ![p] = counts[p]]
      /\ poll[p] \in Rows /\ marks[p] \in SUBSET (Hashes \X BucketIds)
      /\ result[p] \in Nat \cup {NoResult} /\ counts[p] \in SUBSET Sizes
      /\ g \in SUBSET BucketIds
  BY <1>1, <1>3, PollTypes
<1> QED BY <1>1, <1>2, <1>3, <1>4, <1>5, PollMoves

LEMMA ApiNext == Api!ApiTypeOK /\ ApiInv /\ [Api!Next]_apiVars => (Api!ApiTypeOK /\ ApiInv)'
<1> SUFFICES ASSUME Api!ApiTypeOK, ApiInv, [Api!Next]_apiVars PROVE (Api!ApiTypeOK /\ ApiInv)'
  OBVIOUS
<1>1. CASE Api!Reconfigure
  <2>1. \A r \in Replicas : proc[r].pc \in {"down", "panicked"} /\ known[r] = {}
    BY <1>1 DEF Api!Reconfigure, ApiInv, Remembers, Api!ApiTypeOK
  <2>2. env' \in Api!Settings /\ UNCHANGED <<proc, poll, gates, marks, result, known, undoing, counts>>
    BY <1>1 DEF Api!Reconfigure, Api!pollVars, Api!memory
  <2> QED BY <2>1, <2>2 DEF Api!ApiTypeOK, ApiInv, SoundProcess, Remembers
<1>2. CASE UNCHANGED apiVars
  BY <1>2 DEF apiVars, Api!ApiTypeOK, ApiInv, SoundProcess, Remembers
<1> QED BY <1>1, <1>2, ProcessMoves, PublishMovesPoll, CompensateMovesPoll, VoteMovesPoll, CloseMovesPoll,
       CloseFailsMovesPoll DEF Api!Next

-----------------------------------------------------------------------------
(* The joint specification.                                                *)

\* Each part of it behaves as it does alone.
LEMMA PartsInit == Init => MigrateInit /\ ExpiryInit /\ Rounds!Init /\ Api!Init
BY DEF Init

LEMMA PartsNext ==
  [Next]_vars =>
    /\ [MigrateNext]_migrateVars /\ [ExpiryNext]_expiryVars
    /\ [Rounds!Next]_roundVars /\ [Api!Next]_apiVars
BY DEF Next, NextMigrate, NextExpiry, NextRound, NextApi, vars

LEMMA PartsInv == Spec => [](Rounds!RoundTypeOK /\ RoundInv) /\ [](Api!ApiTypeOK /\ ApiInv)
BY RoundInit, RoundNext, ApiInit, ApiNext, PartsInit, PartsNext, PTL DEF Spec

\* All that runs beside the requests is well typed.
THEOREM OperationsTypeCorrect == Spec => []OperationsTypeOK
<1>1. Spec => MigrateSpec /\ ExpirySpec
  BY PartsInit, PartsNext, PTL DEF Spec, MigrateSpec, ExpirySpec
<1>2. MigrateTypeOK /\ ExpiryTypeOK /\ Rounds!RoundTypeOK /\ Api!ApiTypeOK => OperationsTypeOK
  BY DEF OperationsTypeOK
<1> QED BY <1>1, <1>2, PartsInv, MigrateTypeCorrect, ExpiryTypeCorrect, PTL

\* A round of a snapshot worker that listed the active polls and did not lose
\* the list tries every one of them, whichever fail, are locked by others or
\* are closed meanwhile.
THEOREM RoundsReachEveryPoll == Spec => []RoundReachesEveryPoll
<1>1. Rounds!RoundTypeOK /\ RoundInv => RoundReachesEveryPoll
  BY DEF RoundReachesEveryPoll, Rounds!RoundReachesEveryPoll, RoundInv, SoundRound,
     Rounds!RoundTypeOK, Rounds!Rounds
<1> QED BY <1>1, PartsInv, PTL

\* Whatever values VOTE_BUCKETS takes from one start of the processes to the
\* next, and whichever publish or close fails: a poll that was published with
\* one number of buckets has no device in two of them, and its final result
\* is the number of devices that voted; in any case a device's buckets are
\* those of the numbers the poll was published with.  (While the value
\* changes only with every process down.)
THEOREM OnlyRepublishingSplitsDevices == Spec => []OnlyRepublishingSplits
BY SplitOnce, PartsInv, PTL
=============================================================================
