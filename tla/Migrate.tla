------------------------------ MODULE Migrate -------------------------------
(***************************************************************************)
(* Several `migrate up` commands on one database (postgres.Migrate): the   *)
(* version table is made before the advisory lock is taken, then each file *)
(* is looked up and applied in a transaction of its own with the row that  *)
(* records it.  A command may fail or be killed anywhere; its session's    *)
(* lock and open transaction end with it, and it may be run again.         *)
(***************************************************************************)
EXTENDS Integers, Sequences

CONSTANTS
  Migrators,  \* runs of the command; a failed one may be run again
  Scripts,    \* how many files there are; they are numbered in name order
  MaxFaults,  \* bound on failures and kills
  NoHolder    \* nobody has the advisory lock

ASSUME MigrateAssumption ==
  Scripts \in Nat \ {0} /\ MaxFaults \in Nat /\ NoHolder \notin Migrators

VARIABLES
  table,    \* schema_migrations: there before all commands, made by one, or absent
  holder,   \* of the advisory lock
  done,     \* versions in schema_migrations
  applied,  \* history: the scripts whose effects were committed, in order
  mig,      \* the commands
  faults

migrateVars == <<table, holder, done, applied, mig, faults>>

States == {"idle", "create", "lock", "look", "apply", "unlock", "ok", "failed"}

MigrateTypeOK ==
  /\ table \in {"old", "new", "absent"} /\ holder \in Migrators \cup {NoHolder}
  /\ done \subseteq 1..Scripts /\ applied \in Seq(1..Scripts)
  /\ mig \in [Migrators -> [pc: States, script: 1..Scripts, faulty: BOOLEAN]]
  /\ faults \in 0..MaxFaults

MigrateInit ==
  /\ table \in {"old", "absent"} /\ holder = NoHolder /\ done = {} /\ applied = <<>> /\ faults = 0
  /\ mig = [m \in Migrators |-> [pc |-> "idle", script |-> 1, faulty |-> FALSE]]

Goto(m, pc) == mig' = [mig EXCEPT ![m].pc = pc]

-----------------------------------------------------------------------------
\* CREATE TABLE IF NOT EXISTS looks for the table ...
LookForTable(m) ==
  /\ mig[m].pc \in {"idle", "failed"}
  /\ mig' = [mig EXCEPT ![m] = [pc |-> IF table = "absent" THEN "create" ELSE "lock", script |-> 1, faulty |-> FALSE]]
  /\ UNCHANGED <<table, holder, done, applied, faults>>

\* ... and makes it, which fails when another session was quicker.
CreateTable(m) ==
  /\ mig[m].pc = "create"
  /\ table' = IF table = "absent" THEN "new" ELSE table
  /\ Goto(m, IF table = "absent" THEN "lock" ELSE "failed")
  /\ UNCHANGED <<holder, done, applied, faults>>

\* Mutant: the lock is not taken.
LockNothing(m) ==
  /\ mig[m].pc = "lock" /\ Goto(m, "look")
  /\ UNCHANGED <<table, holder, done, applied, faults>>

\* pg_advisory_lock waits.
Lock(m) ==
  /\ mig[m].pc = "lock" /\ holder = NoHolder
  /\ holder' = m
  /\ Goto(m, "look")
  /\ UNCHANGED <<table, done, applied, faults>>

After(m) ==
  mig' = [mig EXCEPT ![m].pc = IF mig[m].script = Scripts THEN "unlock" ELSE "look",
                     ![m].script = IF @ = Scripts THEN @ ELSE @ + 1]

\* SELECT EXISTS: an applied file is skipped.
Look(m) ==
  /\ mig[m].pc = "look"
  /\ IF mig[m].script \in done THEN After(m) ELSE Goto(m, "apply")
  /\ UNCHANGED <<table, holder, done, applied, faults>>

\* Mutant: the script is committed before its version is recorded.
ApplyTorn(m) ==
  /\ mig[m].pc = "apply"
  /\ IF applied # <<>> /\ applied[Len(applied)] = mig[m].script
     THEN done' = done \cup {mig[m].script} /\ After(m) /\ UNCHANGED applied
     ELSE applied' = Append(applied, mig[m].script) /\ UNCHANGED <<done, mig>>
  /\ UNCHANGED <<table, holder, faults>>

\* The transaction: the script and its row, which is a primary key.
Apply(m) ==
  LET s == mig[m].script IN
  /\ mig[m].pc = "apply"
  /\ IF s \in done
     THEN Goto(m, "failed") /\ UNCHANGED <<done, applied>>
     ELSE /\ done' = done \cup {s} /\ applied' = Append(applied, s)
          /\ After(m)
  /\ UNCHANGED <<table, holder, faults>>

\* The deferred unlock, or the end of the session.
Freed(m) == IF holder = m THEN NoHolder ELSE holder

Unlock(m) ==
  /\ mig[m].pc = "unlock"
  /\ holder' = Freed(m)
  /\ Goto(m, "ok")
  /\ UNCHANGED <<table, done, applied, faults>>

\* Mutant: a killed command leaves its lock behind.
FailLocked(m) ==
  /\ mig[m].pc \in {"create", "lock", "look", "apply", "unlock"} /\ faults < MaxFaults
  /\ faults' = faults + 1
  /\ mig' = [mig EXCEPT ![m].pc = "failed", ![m].faulty = TRUE]
  /\ UNCHANGED <<table, holder, done, applied>>

\* A statement fails, the deadline passes or the process is killed: the open
\* transaction is rolled back, unless it was its COMMIT whose reply got lost.
Fail(m) ==
  /\ mig[m].pc \in {"create", "lock", "look", "apply", "unlock"}
  /\ faults < MaxFaults
  /\ faults' = faults + 1
  /\ \/ UNCHANGED <<done, applied>>
     \/ /\ mig[m].pc = "apply" /\ mig[m].script \notin done
        /\ done' = done \cup {mig[m].script} /\ applied' = Append(applied, mig[m].script)
  /\ holder' = Freed(m)
  /\ mig' = [mig EXCEPT ![m].pc = "failed", ![m].faulty = TRUE]
  /\ UNCHANGED table

Step(m) ==
  \/ LookForTable(m) \/ CreateTable(m) \/ Lock(m) \/ Look(m) \/ Apply(m) \/ Unlock(m)

MigrateNext == \E m \in Migrators : Step(m) \/ Fail(m)

MigrateSpec == MigrateInit /\ [][MigrateNext]_migrateVars

\* A command that was started runs on, and a failed one is run again.
MigrateFairness == \A m \in Migrators : WF_migrateVars(mig[m].pc # "idle" /\ Step(m))

-----------------------------------------------------------------------------
\* Every script takes effect once and in the order of the names, and is
\* recorded exactly if it took effect, whatever was killed in between.
AppliedOnceInOrder ==
  /\ done = {applied[i] : i \in 1..Len(applied)}
  /\ \A i \in 1..Len(applied) : applied[i] = i

\* Where the version table was there already, commands that run at the same
\* time do not make each other fail.  (On an empty database they do.)
OnlyFaultsFail == table = "old" => \A m \in Migrators : mig[m].pc = "failed" => mig[m].faulty

\* A command that was started succeeds in the end, if it is run again after
\* a failure, and then the schema is complete.
MigratesInTheEnd ==
  \A m \in Migrators : mig[m].pc # "idle" ~> mig[m].pc = "ok" /\ done = 1..Scripts
=============================================================================
