--------------------------- MODULE MigrationEngine ---------------------------
(***************************************************************************)
(* MigrationEngine::run (src/cot/src/db/migrations.rs), executed by every  *)
(* server process at startup (run_at in src/cot/src/project.rs) against    *)
(* one shared database.  Nothing is in a transaction: the check, the DDL   *)
(* statement and the INSERT that records the migration are three separate  *)
(* statements, and another server may run, or the process may die, between *)
(* any two of them.                                                        *)
(***************************************************************************)
EXTENDS Naturals, Sequences, SchemaOperation

CONSTANTS
  Server,           \* processes that run the engine
  Histories,        \* the lists of migrations that projects may have: h[m] = the
                    \* operations of the m-th one, in the order of the sorter
  MigrationsTable,  \* the table cot__migrations
  ZeroIsGenerated,  \* an INSERT with id 0 gets a generated id (MySQL), as
                    \* opposed to the id 0 (SQLite, PostgreSQL)
  Crashes           \* a process may die in the middle of a run

ASSUME HistoriesType ==
  /\ Histories \subseteq Seq(Seq(Operation))
  /\ MigrationsTable \in Table
  /\ \A h \in Histories : \A m \in 1..Len(h) : \A o \in 1..Len(h[m]) :
       h[m][o].table # MigrationsTable
ASSUME FlagsType == ZeroIsGenerated \in BOOLEAN /\ Crashes \in BOOLEAN

VARIABLES
  migrations, \* the migrations of this project
  schema,     \* the database schema
  rows,       \* the rows of cot__migrations, in insertion order
  pc,         \* where each server is
  migration,  \* the migration its outer loop is at
  operation   \* the operation its inner loop is at
vars == <<migrations, schema, rows, pc, migration, operation>>

Migration == 1..Len(migrations)
NonEmpty(m) == migrations[m] # <<>>

Row == [id : Nat, migration : Migration]
Running == {"create", "loop", "forwards", "mark"}

TypeOK ==
  /\ migrations \in Histories
  /\ schema \in Schema
  /\ rows \in Seq(Row)
  /\ pc \in [Server -> Running \cup {"stopped", "failed", "done"}]
  /\ migration \in [Server -> 1..(Len(migrations) + 1)]
  /\ operation \in [Server -> Nat \ {0}]

Init ==
  /\ migrations \in Histories
  /\ schema = EmptySchema
  /\ rows = <<>>
  /\ pc = [s \in Server |-> "stopped"]
  /\ migration = [s \in Server |-> 1]
  /\ operation = [s \in Server |-> 1]

(* CREATE_APPLIED_MIGRATIONS_MIGRATION: the one operation with              *)
(* .if_not_exists() that the engine itself runs.                            *)
CreateAppliedMigrations ==
  [kind |-> "CreateModel", table |-> MigrationsTable, columns |-> {},
   references |-> {}, ifNotExists |-> TRUE]

Recorded(m) == \E i \in DOMAIN rows : rows[i].migration = m

Goto(s, label) == pc' = [pc EXCEPT ![s] = label]

(* Mutant: the outer loop starts one migration too late.                    *)
StartAtSecond(s) ==
  /\ pc[s] \in {"stopped", "failed"}
  /\ Goto(s, "create")
  /\ migration' = [migration EXCEPT ![s] = 2]
  /\ operation' = [operation EXCEPT ![s] = 1]
  /\ UNCHANGED <<migrations, schema, rows>>

(* A server process starts and enters run, the first time or after it       *)
(* ended or died.                                                           *)
Start(s) ==
  /\ pc[s] \in {"stopped", "failed"}
  /\ Goto(s, "create")
  /\ migration' = [migration EXCEPT ![s] = 1]
  /\ operation' = [operation EXCEPT ![s] = 1]
  /\ UNCHANGED <<migrations, schema, rows>>

CreateBookkeeping(s) ==
  /\ pc[s] = "create"
  /\ schema' = Forwards(CreateAppliedMigrations, schema)
  /\ Goto(s, "loop")
  /\ UNCHANGED <<migrations, rows, migration, operation>>

(* The inner loop over operations is exhausted: on to the next migration,   *)
(* which records nothing about this one.                                    *)
NextMigration(s) ==
  /\ pc[s] = "loop"
  /\ migration[s] \in Migration
  /\ operation[s] > Len(migrations[migration[s]])
  /\ migration' = [migration EXCEPT ![s] = @ + 1]
  /\ operation' = [operation EXCEPT ![s] = 1]
  /\ UNCHANGED <<migrations, schema, rows, pc>>

Finish(s) ==
  /\ pc[s] = "loop"
  /\ migration[s] = Len(migrations) + 1
  /\ Goto(s, "done")
  /\ UNCHANGED <<migrations, schema, rows, migration, operation>>

AtOperation(s) ==
  /\ migration[s] \in Migration
  /\ operation[s] <= Len(migrations[migration[s]])

(* Mutants: the migration is recorded before it runs; it runs whether or    *)
(* not it was recorded.                                                     *)
CheckAppliedThenMark(s) ==
  /\ pc[s] = "loop"
  /\ AtOperation(s)
  /\ \/ /\ Recorded(migration[s])
        /\ operation' = [operation EXCEPT ![s] = @ + 1]
        /\ UNCHANGED pc
     \/ /\ ~Recorded(migration[s])
        /\ Goto(s, "mark")
        /\ UNCHANGED operation
  /\ UNCHANGED <<migrations, schema, rows, migration>>
ApplyAlways(s) ==
  /\ pc[s] = "loop"
  /\ AtOperation(s)
  /\ Goto(s, "forwards")
  /\ UNCHANGED <<migrations, schema, rows, migration, operation>>

(* is_migration_applied, asked before each OPERATION.                       *)
CheckApplied(s) ==
  /\ pc[s] = "loop"
  /\ AtOperation(s)
  /\ \/ /\ Recorded(migration[s])
        /\ operation' = [operation EXCEPT ![s] = @ + 1]
        /\ UNCHANGED pc
     \/ /\ ~Recorded(migration[s])
        /\ Goto(s, "forwards")
        /\ UNCHANGED operation
  /\ UNCHANGED <<migrations, schema, rows, migration>>

CurrentOperation(s) == migrations[migration[s]][operation[s]]

(* Mutants: an error of forwards is ignored, and the migration recorded; or *)
(* it is ignored, and the loop goes on with the next operation.             *)
RunForwardsThenMark(s) ==
  /\ pc[s] = "forwards"
  /\ schema' = Forwards(CurrentOperation(s), schema)
  /\ Goto(s, "mark")
  /\ UNCHANGED <<migrations, rows, migration, operation>>
RunForwardsOrSkip(s) ==
  /\ pc[s] = "forwards"
  /\ schema' = Forwards(CurrentOperation(s), schema)
  /\ \/ /\ ForwardsSucceeds(CurrentOperation(s), schema)
        /\ Goto(s, "mark")
        /\ UNCHANGED operation
     \/ /\ ~ForwardsSucceeds(CurrentOperation(s), schema)
        /\ Goto(s, "loop")
        /\ operation' = [operation EXCEPT ![s] = @ + 1]
  /\ UNCHANGED <<migrations, rows, migration>>

(* operation.forwards(database).await?                                      *)
RunForwards(s) ==
  /\ pc[s] = "forwards"
  /\ \/ /\ ForwardsSucceeds(CurrentOperation(s), schema)
        /\ schema' = Forwards(CurrentOperation(s), schema)
        /\ Goto(s, "mark")
     \/ /\ ~ForwardsSucceeds(CurrentOperation(s), schema)
        /\ Goto(s, "failed")
        /\ UNCHANGED schema
  /\ UNCHANGED <<migrations, rows, migration, operation>>

(* mark_migration_applied inserts AppliedMigration { id: 0, .. }; id is the *)
(* primary key, app and name carry no constraint.                           *)
InsertedId == IF ZeroIsGenerated THEN Len(rows) + 1 ELSE 0
IdTaken == \E i \in DOMAIN rows : rows[i].id = InsertedId

MarkApplied(s) ==
  /\ pc[s] = "mark"
  /\ \/ /\ ~IdTaken
        /\ rows' = Append(rows, [id |-> InsertedId, migration |-> migration[s]])
        /\ operation' = [operation EXCEPT ![s] = @ + 1]
        /\ Goto(s, "loop")
     \/ /\ IdTaken
        /\ Goto(s, "failed")
        /\ UNCHANGED <<migrations, rows, operation>>
  /\ UNCHANGED <<migrations, schema, migration>>

(* The process dies (or its connection does, which ends it as well).        *)
Crash(s) ==
  /\ Crashes
  /\ pc[s] \in Running
  /\ Goto(s, "stopped")
  /\ UNCHANGED <<migrations, schema, rows, migration, operation>>

(* A server that was up is taken down, to be started again later.           *)
Shutdown(s) ==
  /\ pc[s] = "done"
  /\ Goto(s, "stopped")
  /\ UNCHANGED <<migrations, schema, rows, migration, operation>>

Run(s) ==
  \/ CreateBookkeeping(s)
  \/ NextMigration(s)
  \/ Finish(s)
  \/ CheckApplied(s)
  \/ RunForwards(s)
  \/ MarkApplied(s)

Next == \E s \in Server : Start(s) \/ Run(s) \/ Crash(s) \/ Shutdown(s)

Spec == Init /\ [][Next]_vars

(* The runtime polls a run until it ends, and a supervisor restarts a       *)
(* server that exited.                                                      *)
Fairness == \A s \in Server : WF_vars(Run(s)) /\ WF_vars(Start(s))
FairSpec == Spec /\ Fairness

-----------------------------------------------------------------------------
FirstOperation(m) == migrations[m][1]
InEffect(m) == Present(FirstOperation(m), schema)

(* Migrations whose first operation cannot succeed twice: every migration   *)
(* the CLI generates, since it never emits if_not_exists().                 *)
PlainFirstOperations ==
  \A h \in Histories : \A m \in 1..Len(h) :
    h[m] # <<>> /\ h[m][1].kind = "CreateModel" => ~h[m][1].ifNotExists

(* The tables an operation wants to find.                                   *)
Needed(op) ==
  IF op.kind = "AddField" THEN {op.table}
  ELSE {r[2] : r \in {q \in op.references : StrictForeignKeys}} \ {op.table}

Creates(op, t) == op.kind = "CreateModel" /\ op.table = t

(* What the sorter's order is for: whatever the first operation of a        *)
(* migration wants to find, SOME operation of an earlier migration creates. *)
(* A dependency on a model leads to whichever migration has a CreateModel   *)
(* of it, at whatever place in its list (sorter.rs:97).                     *)
NeededAreCreatedBefore ==
  \A h \in Histories : \A m \in 1..Len(h) : h[m] # <<>> =>
    \A t \in Needed(h[m][1]) : \E k \in 1..(m - 1) : \E o \in 1..Len(h[k]) :
      Creates(h[k][o], t)

(* A migration is recorded at most once, whatever servers start together:   *)
(* no constraint on (app, name) ensures it, the DDL statement that fails    *)
(* the second time does.                                                    *)
RecordedAtMostOnce ==
  \A i, j \in DOMAIN rows : rows[i].migration = rows[j].migration => i = j

(* A row in cot__migrations is never ahead of the schema: the migration's   *)
(* first operation is in effect.                                            *)
RecordedInEffect == \A m \in Migration : Recorded(m) => InEffect(m)

(* When a migration is recorded, every earlier one that has operations has  *)
(* been: the dependencies the sorter put before it are in place.            *)
RecordedInOrder ==
  \A i \in DOMAIN rows : \A m \in Migration :
    m < rows[i].migration /\ NonEmpty(m) =>
      \E j \in DOMAIN rows : j < i /\ rows[j].migration = m

(* A server that serves requests found or left every migration recorded,    *)
(* and it stays so.                                                         *)
ServingMeansRecorded ==
  \A s \in Server : pc[s] = "done" =>
    \A m \in Migration : NonEmpty(m) => Recorded(m)

(* No run ever touches the schema again once all migrations are recorded,   *)
(* also not one that passed its check before the last of them was: a        *)
(* database in service is never migrated under a running server.            *)
AllRecorded == \A m \in Migration : NonEmpty(m) => Recorded(m)
NoChangeOnceRecorded ==
  [][AllRecorded /\ MigrationsTable \in schema.tables
       => UNCHANGED <<schema, rows>>]_vars

(* The window between forwards and mark_migration_applied: a process that   *)
(* died there leaves a migration in effect, unrecorded, with nobody about   *)
(* to record it.                                                            *)
Orphaned(m) ==
  /\ NonEmpty(m)
  /\ InEffect(m)
  /\ ~Recorded(m)
  /\ \A s \in Server : pc[s] = "mark" => migration[s] # m

(* An orphaned migration stays one: no later run ever repairs it.           *)
OrphanIsPermanent ==
  [][\A m \in Migration : Orphaned(m) => Orphaned(m)']_vars

(* Every earlier migration is recorded, and yet this one wants a table that *)
(* is missing: an earlier migration creates it in an operation after its    *)
(* first, which no run ever gets to.                                        *)
EarlierRecorded(m) == \A k \in Migration : k < m /\ NonEmpty(k) => Recorded(k)
Skipped(t, m) ==
  \E k \in Migration : k < m /\ \E o \in 2..Len(migrations[k]) : Creates(migrations[k][o], t)
Blocked(m) ==
  /\ NonEmpty(m)
  /\ ~InEffect(m)
  /\ EarlierRecorded(m)
  /\ \E t \in Needed(FirstOperation(m)) \ schema.tables : Skipped(t, m)

(* A run reports an error for two reasons only, and they are those of the   *)
(* migration it stopped at: its first operation is in effect already, or it *)
(* is blocked.  Never because the table it needs is still to come.          *)
FailedForAReason ==
  \A s \in Server : pc[s] = "failed" =>
    InEffect(migration[s]) \/ Blocked(migration[s])

(* A blocked migration stays blocked, and no server serves then, whatever   *)
(* servers are started again.                                               *)
BlockedIsPermanent ==
  [][\A m \in Migration : Blocked(m) =>
       Blocked(m)' /\ \A s \in Server : pc'[s] # "done"]_vars

(* A server that starts runs to completion in the end, also when it lost a  *)
(* race to another one and had to be restarted, unless it dies on the way,  *)
(* some process that died has left an orphaned migration, or one is blocked.*)
StartedServes ==
  \A s \in Server :
    (pc[s] = "create") ~> \/ pc[s] \in {"done", "stopped"}
                          \/ \E m \in Migration : Orphaned(m) \/ Blocked(m)

(* "Runs the migrations": when run returned Ok, every operation of every    *)
(* migration is in the schema (migrations.rs:127).                          *)
RunMeansAllOperations ==
  \A s \in Server : pc[s] = "done" =>
    \A m \in Migration : \A o \in 1..Len(migrations[m]) :
      Present(migrations[m][o], schema)

(* The engine implements the migration log: the log is the migration column *)
(* of cot__migrations.                                                      *)
Log == INSTANCE MigrationLog
  WITH loggable <- {k \in Migration : NonEmpty(k)},
       log <- [i \in DOMAIN rows |-> rows[i].migration]
ImplementsLog == Log!LogSpec

(* A run by the only server, never interrupted and from a fresh database,   *)
(* does not fail (what the test at migrations.rs:1407 asserts).             *)
NoFailure == \A s \in Server : pc[s] # "failed"
==============================================================================
