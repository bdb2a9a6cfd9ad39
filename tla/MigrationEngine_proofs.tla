------------------------ MODULE MigrationEngine_proofs ------------------------
(***************************************************************************)
(* For every set of servers, every list of migrations whose first         *)
(* operations are plain, and any interleaving and crashes: the bookkeeping *)
(* table is written once per migration and in order, and the engine        *)
(* implements MigrationLog.                                                *)
(***************************************************************************)
EXTENDS MigrationEngine, TLAPS

-----------------------------------------------------------------------------
(* Facts about the operations of a migration, for every schema.             *)
(* A column belongs to a table that exists.                                 *)
WellFormed(db) ==
  \A t \in Table : t \notin db.tables => db.columns[t] = {}

(* An operation that cannot succeed on a schema it already changed.         *)
Once(op) == op.kind = "CreateModel" => ~op.ifNotExists

(* forwards leaves a schema.                                                *)
LEMMA ForwardsTyped ==
  ASSUME NEW op \in Operation, NEW db \in Schema
  PROVE  Forwards(op, db) \in Schema
<1>1. CASE op \in CreateModelOp /\ CanCreate(op, db)
  <2>1. op.kind = "CreateModel" /\ op.table \in Table /\ op.columns \in SUBSET Column
        /\ op.references \in SUBSET (Column \X Table)
    BY <1>1 DEF CreateModelOp
  <2>2. {<<op.table, r[1], r[2]>> : r \in op.references}
          \in SUBSET (Table \X Column \X Table)
    BY <2>1
  <2>3. Forwards(op, db) = CreateTable(op, db)
    BY <1>1, <2>1 DEF Forwards
  <2> QED BY <2>1, <2>2, <2>3 DEF CreateTable, Schema
<1>2. CASE op \in AddFieldOp /\ CanAddColumn(op, db)
  BY <1>2 DEF AddFieldOp, Forwards, AddColumn, Schema
<1> QED BY <1>1, <1>2 DEF Operation, Forwards, CreateModelOp, AddFieldOp

(* forwards keeps columns inside tables.                                    *)
LEMMA ForwardsWellFormed ==
  ASSUME NEW op \in Operation, NEW db \in Schema, WellFormed(db)
  PROVE  WellFormed(Forwards(op, db))
<1>1. CASE op \in CreateModelOp /\ CanCreate(op, db)
  BY <1>1 DEF CreateModelOp, Forwards, CreateTable, Schema, WellFormed
<1>2. CASE op \in AddFieldOp /\ CanAddColumn(op, db)
  BY <1>2 DEF AddFieldOp, Forwards, AddColumn, CanAddColumn, Schema, WellFormed
<1> QED BY <1>1, <1>2 DEF Operation, Forwards, CreateModelOp, AddFieldOp

(* forwards never takes anything away that another operation made.          *)
LEMMA ForwardsKeeps ==
  ASSUME NEW op \in Operation, NEW p \in Operation, NEW db \in Schema,
         WellFormed(db), Present(p, db)
  PROVE  Present(p, Forwards(op, db))
<1>0. p.table \in Table /\ op.table \in Table
  BY DEF Operation, CreateModelOp, AddFieldOp
<1>1. CASE op \in CreateModelOp /\ CanCreate(op, db)
  BY <1>0, <1>1 DEF CreateModelOp, Forwards, CreateTable, CanCreate, Schema,
                    WellFormed, Present
<1>2. CASE op \in AddFieldOp /\ CanAddColumn(op, db)
  BY <1>0, <1>2 DEF AddFieldOp, Forwards, AddColumn, Schema, Present
<1> QED BY <1>1, <1>2 DEF Operation, Forwards, CreateModelOp, AddFieldOp

(* A forwards that succeeds puts the operation in effect.                   *)
LEMMA ForwardsEstablishes ==
  ASSUME NEW op \in Operation, NEW db \in Schema,
         ForwardsSucceeds(op, db)
  PROVE  Present(op, Forwards(op, db))
<1>1. CASE op \in CreateModelOp
  BY <1>1 DEF CreateModelOp, Forwards, CreateTable, CanCreate,
              ForwardsSucceeds, Present
<1>2. CASE op \in AddFieldOp
  BY <1>2 DEF AddFieldOp, Forwards, AddColumn, CanAddColumn, Schema,
              ForwardsSucceeds, Present
<1> QED BY <1>1, <1>2 DEF Operation

(* A plain operation succeeds at most once.                                 *)
LEMMA PlainSucceedsOnce ==
  ASSUME NEW op \in Operation, NEW db, Once(op),
         ForwardsSucceeds(op, db)
  PROVE  ~Present(op, db)
<1>1. CASE op \in CreateModelOp
  BY <1>1 DEF CreateModelOp, CanCreate, ForwardsSucceeds, Present, Once
<1>2. CASE op \in AddFieldOp
  BY <1>2 DEF AddFieldOp, CanAddColumn, ForwardsSucceeds, Present
<1> QED BY <1>1, <1>2 DEF Operation

-----------------------------------------------------------------------------
(* Where a server is in its loops, and what it may rely on there.  Since a  *)
(* recorded migration is skipped operation by operation, forwards and       *)
(* mark_migration_applied are only ever reached for a first operation.      *)
Position(s) ==
  /\ pc[s] \in {"forwards", "mark"} =>
       /\ migration[s] \in Migration
       /\ NonEmpty(migration[s])
       /\ operation[s] = 1
  /\ pc[s] = "loop" /\ migration[s] \in Migration /\ operation[s] > 1 =>
       Recorded(migration[s])
  /\ pc[s] \in {"loop", "forwards", "mark"} =>
       \A m \in Migration : m < migration[s] /\ NonEmpty(m) => Recorded(m)
  /\ pc[s] = "mark" => InEffect(migration[s]) /\ ~Recorded(migration[s])
  /\ pc[s] = "done" => AllRecorded
  /\ pc[s] = "create" => migration[s] = 1 /\ operation[s] = 1

(* At most one server stands between forwards and mark of a migration.      *)
MarkExclusive ==
  \A s, t \in Server :
    pc[s] = "mark" /\ pc[t] = "mark" /\ migration[s] = migration[t] => s = t

RecordedPresent == \A m \in Migration : Recorded(m) => NonEmpty(m) /\ InEffect(m)

IInv ==
  /\ TypeOK
  /\ WellFormed(schema)
  /\ RecordedPresent
  /\ RecordedAtMostOnce
  /\ RecordedInOrder
  /\ MarkExclusive
  /\ \A s \in Server : Position(s)

-----------------------------------------------------------------------------
LEMMA MigrationsType ==
  ASSUME TypeOK
  PROVE  /\ migrations \in Seq(Seq(Operation))
         /\ Len(migrations) \in Nat
         /\ \A m \in Migration : migrations[m] \in Seq(Operation)
<1>1. migrations \in Seq(Seq(Operation))
  BY HistoriesType DEF TypeOK
<1> QED BY <1>1 DEF Migration

LEMMA FirstOperationType ==
  ASSUME TypeOK, NEW m \in Migration, NonEmpty(m)
  PROVE  FirstOperation(m) \in Operation /\ 1 \in 1..Len(migrations[m])
<1>2. migrations[m] \in Seq(Operation)
  BY MigrationsType
<1>3. Len(migrations[m]) > 0
  BY <1>2 DEF NonEmpty
<1> QED BY <1>2, <1>3 DEF FirstOperation

LEMMA BookkeepingType == CreateAppliedMigrations \in Operation
<1>1. MigrationsTable \in Table
  BY HistoriesType
<1> QED BY <1>1 DEF CreateAppliedMigrations, Operation, CreateModelOp

(* The INSERT records one more migration and forgets none.                  *)
LEMMA AppendRecords ==
  ASSUME NEW r \in Seq(Row), NEW row \in Row, NEW n, n = Append(r, row)
  PROVE  /\ n \in Seq(Row)
         /\ DOMAIN r = 1..Len(r) /\ Len(r) \in Nat
         /\ DOMAIN n = 1..(Len(r) + 1)
         /\ \A k \in 1..Len(r) : n[k] = r[k] /\ r[k] \in Row
         /\ n[Len(r) + 1] = row
OBVIOUS

LEMMA InitIInv == Init => IInv
<1> SUFFICES ASSUME Init PROVE IInv
  OBVIOUS
<1>1. ~ \E i \in DOMAIN rows : TRUE
  BY DEF Init
<1>2. TypeOK
  <2>1. schema \in Schema
    BY DEF Init, EmptySchema, Schema
  <2>2. migrations \in Seq(Seq(Operation))
    BY HistoriesType DEF Init
  <2>3. Len(migrations) \in Nat
    BY <2>2
  <2> QED BY <2>1, <2>3 DEF Init, TypeOK, Running
<1>3. WellFormed(schema)
  BY DEF Init, EmptySchema, WellFormed
<1> QED BY <1>1, <1>2, <1>3 DEF IInv, Init, RecordedPresent, Recorded,
         RecordedAtMostOnce, RecordedInOrder, MarkExclusive, Position

(* A run never changes the list of migrations.                              *)
LEMMA SameMigrations ==
  ASSUME UNCHANGED migrations
  PROVE  /\ Migration' = Migration
         /\ Row' = Row
         /\ \A m : NonEmpty(m)' = NonEmpty(m)
         /\ \A m : FirstOperation(m)' = FirstOperation(m)
BY DEF Migration, Row, NonEmpty, FirstOperation

(* Steps that change neither the schema nor the rows preserve what is said  *)
(* of them.                                                                 *)
LEMMA Frame ==
  ASSUME UNCHANGED <<migrations, schema, rows>>
  PROVE  /\ WellFormed(schema)' = WellFormed(schema)
         /\ Migration' = Migration
         /\ \A m : NonEmpty(m)' = NonEmpty(m)
         /\ \A m : Recorded(m)' = Recorded(m)
         /\ \A m : InEffect(m)' = InEffect(m)
         /\ RecordedAtMostOnce' = RecordedAtMostOnce
         /\ RecordedInOrder' = RecordedInOrder
         /\ AllRecorded' = AllRecorded
BY SameMigrations
   DEF WellFormed, Recorded, InEffect, RecordedAtMostOnce, RecordedInOrder,
       AllRecorded

(* The DDL statement of a migration runs only while the migration is        *)
(* neither in effect nor recorded.                                          *)
LEMMA ForwardsIsFirst ==
  ASSUME PlainFirstOperations, IInv, NEW s \in Server, pc[s] = "forwards",
         ForwardsSucceeds(CurrentOperation(s), schema)
  PROVE  /\ migration[s] \in Migration /\ NonEmpty(migration[s])
         /\ CurrentOperation(s) = FirstOperation(migration[s])
         /\ CurrentOperation(s) \in Operation
         /\ ~InEffect(migration[s])
         /\ ~Recorded(migration[s])
<1>1. migration[s] \in Migration /\ NonEmpty(migration[s]) /\ operation[s] = 1
  BY DEF IInv, Position
<1>2. CurrentOperation(s) = FirstOperation(migration[s])
  BY <1>1 DEF CurrentOperation, FirstOperation
<1>3. FirstOperation(migration[s]) \in Operation
  BY <1>1, FirstOperationType DEF IInv
<1>4. Once(FirstOperation(migration[s]))
  BY <1>1 DEF PlainFirstOperations, Once, IInv, TypeOK, Migration, NonEmpty, FirstOperation
<1>5. ~InEffect(migration[s])
  BY <1>2, <1>3, <1>4, PlainSucceedsOnce DEF InEffect
<1> QED BY <1>1, <1>2, <1>3, <1>5 DEF IInv, RecordedPresent

(* A step of one server that touches neither schema nor rows and does not   *)
(* reach mark preserves the invariant if it leaves that server well placed. *)
LEMMA ControlStep ==
  ASSUME IInv, NEW s \in Server, UNCHANGED <<migrations, schema, rows>>, TypeOK',
         \A t \in Server \ {s} : /\ pc'[t] = pc[t]
                                 /\ migration'[t] = migration[t]
                                 /\ operation'[t] = operation[t],
         pc'[s] # "mark", Position(s)'
  PROVE  IInv'
<1>1. WellFormed(schema)' /\ RecordedAtMostOnce' /\ RecordedInOrder'
  BY Frame DEF IInv
<1>2. RecordedPresent'
  BY Frame DEF IInv, RecordedPresent
<1>3. MarkExclusive'
  BY DEF IInv, MarkExclusive
<1>4. ASSUME NEW t \in Server, t # s PROVE Position(t)'
  BY <1>4, Frame DEF IInv, Position
<1> QED BY <1>1, <1>2, <1>3, <1>4 DEF IInv

LEMMA StartIInv ==
  ASSUME IInv, NEW s \in Server, Start(s) PROVE IInv'
<1>1. TypeOK'
  <2>1. Len(migrations) \in Nat
    BY MigrationsType DEF IInv
  <2> QED BY <2>1, SameMigrations DEF IInv, TypeOK, Start, Goto, Running
<1>2. pc'[s] = "create"
  BY DEF IInv, TypeOK, Start, Goto
<1>3. migration'[s] = 1 /\ operation'[s] = 1
  BY DEF IInv, TypeOK, Start
<1>4. Position(s)'
  BY <1>2, <1>3 DEF Position
<1> QED BY <1>1, <1>2, <1>4, ControlStep DEF IInv, TypeOK, Start, Goto

LEMMA NextMigrationIInv ==
  ASSUME IInv, NEW s \in Server, NextMigration(s) PROVE IInv'
<1> DEFINE m == migration[s]
<1>0. Len(migrations) \in Nat /\ m \in 1..Len(migrations)
  BY MigrationsType DEF IInv, NextMigration, Migration
<1>1. TypeOK'
  <2>1. m + 1 \in 1..(Len(migrations) + 1)
    BY <1>0
  <2>2. migration' \in [Server -> 1..(Len(migrations) + 1)]
    BY <2>1 DEF IInv, TypeOK, NextMigration
  <2>3. operation' \in [Server -> Nat \ {0}]
    BY DEF IInv, TypeOK, NextMigration
  <2> QED BY <2>2, <2>3, SameMigrations DEF IInv, TypeOK, NextMigration
<1>2. pc[s] = "loop" /\ pc'[s] = "loop" /\ migration'[s] = m + 1 /\ operation'[s] = 1
  BY <1>0 DEF IInv, TypeOK, NextMigration
<1>3. NonEmpty(m) => Recorded(m)
  <2>1. SUFFICES ASSUME NonEmpty(m) PROVE operation[s] > 1
    BY <1>0, <1>2 DEF IInv, Position, Migration
  <2>2. migrations[m] \in Seq(Operation)
    BY <1>0, MigrationsType DEF IInv, Migration
  <2>3. Len(migrations[m]) \in Nat /\ Len(migrations[m]) > 0
    BY <2>1, <2>2 DEF NonEmpty
  <2> QED BY <2>3 DEF NextMigration, IInv, TypeOK
<1>4. ASSUME NEW k \in Migration, k < m + 1, NonEmpty(k) PROVE Recorded(k)
  <2>1. CASE k = m
    BY <2>1, <1>3, <1>4
  <2>2. CASE k < m
    BY <2>2, <1>2, <1>4 DEF IInv, Position
  <2> QED BY <2>1, <2>2, <1>0, <1>4 DEF Migration
<1>5. Position(s)'
  BY <1>2, <1>4, Frame DEF Position, NextMigration
<1> QED BY <1>1, <1>2, <1>5, ControlStep DEF IInv, TypeOK, NextMigration

LEMMA FinishIInv ==
  ASSUME IInv, NEW s \in Server, Finish(s) PROVE IInv'
<1>1. TypeOK'
  BY SameMigrations DEF IInv, TypeOK, Finish, Goto, Running
<1>2. pc[s] = "loop" /\ pc'[s] = "done"
  BY DEF IInv, TypeOK, Finish, Goto
<1>3. AllRecorded
  <2>1. Len(migrations) \in Nat
    BY MigrationsType DEF IInv
  <2> QED BY <1>2, <2>1 DEF IInv, Position, Finish, AllRecorded, Migration
<1>4. Position(s)'
  BY <1>2, <1>3, Frame DEF Position, Finish
<1> QED BY <1>1, <1>2, <1>4, ControlStep DEF IInv, TypeOK, Finish, Goto

LEMMA CheckAppliedIInv ==
  ASSUME IInv, NEW s \in Server, CheckApplied(s) PROVE IInv'
<1>1. TypeOK'
  <2>1. CASE Recorded(migration[s])
    <3>1. operation' = [operation EXCEPT ![s] = operation[s] + 1]
      BY <2>1 DEF CheckApplied
    <3>2. operation' \in [Server -> Nat \ {0}]
      BY <3>1 DEF IInv, TypeOK
    <3> QED BY <2>1, <3>2, SameMigrations DEF IInv, TypeOK, CheckApplied
  <2>2. CASE ~Recorded(migration[s])
    BY <2>2, SameMigrations DEF IInv, TypeOK, CheckApplied, Goto, Running
  <2> QED BY <2>1, <2>2
<1>2. migration[s] \in Migration /\ operation[s] \in Nat \ {0} /\ pc[s] = "loop"
  BY DEF CheckApplied, AtOperation, IInv, TypeOK
<1>3. CASE Recorded(migration[s])
  <2>1. pc'[s] = "loop" /\ migration' = migration
    BY <1>2, <1>3 DEF CheckApplied
  <2>2. Position(s)'
    BY <1>2, <1>3, <2>1, Frame DEF IInv, Position, CheckApplied
  <2> QED BY <1>1, <1>2, <2>1, <2>2, <1>3, ControlStep DEF IInv, TypeOK, CheckApplied
<1>4. CASE ~Recorded(migration[s])
  <2>1. pc'[s] = "forwards" /\ migration' = migration /\ operation' = operation
    BY <1>4 DEF CheckApplied, Goto, IInv, TypeOK
  <2>2. operation[s] = 1
    BY <1>2, <1>4 DEF IInv, Position
  <2>3. NonEmpty(migration[s])
    BY <2>2 DEF CheckApplied, AtOperation, NonEmpty
  <2>4. Position(s)'
    BY <1>2, <2>1, <2>2, <2>3, Frame DEF IInv, Position, CheckApplied
  <2> QED BY <1>1, <2>1, <2>4, <1>4, ControlStep DEF IInv, TypeOK, CheckApplied, Goto
<1> QED BY <1>3, <1>4

LEMMA CreateBookkeepingIInv ==
  ASSUME IInv, NEW s \in Server, CreateBookkeeping(s) PROVE IInv'
<1>1. schema' \in Schema /\ WellFormed(schema')
  BY BookkeepingType, ForwardsTyped, ForwardsWellFormed
     DEF CreateBookkeeping, IInv, TypeOK
<1>0. /\ UNCHANGED migrations /\ Migration' = Migration /\ Row' = Row
      /\ \A m : NonEmpty(m)' = NonEmpty(m)
      /\ \A m : FirstOperation(m)' = FirstOperation(m)
  BY SameMigrations DEF CreateBookkeeping
<1>2. TypeOK'
  BY <1>0, <1>1 DEF IInv, TypeOK, CreateBookkeeping, Goto, Running
<1>3. \A m : Recorded(m)' = Recorded(m)
  BY DEF CreateBookkeeping, Recorded
<1>4. ASSUME NEW m \in Migration, NonEmpty(m), InEffect(m) PROVE InEffect(m)'
  <2>1. FirstOperation(m) \in Operation
    BY <1>4, FirstOperationType DEF IInv
  <2> QED BY <1>0, <1>4, <2>1, BookkeepingType, ForwardsKeeps
          DEF CreateBookkeeping, IInv, TypeOK, InEffect
<1>5. RecordedPresent'
  BY <1>0, <1>3, <1>4 DEF IInv, RecordedPresent
<1>6. RecordedAtMostOnce' /\ RecordedInOrder'
  BY <1>0 DEF IInv, CreateBookkeeping, RecordedAtMostOnce, RecordedInOrder
<1>7. pc[s] = "create" /\ pc'[s] = "loop" /\ migration' = migration
      /\ operation' = operation /\ \A t \in Server \ {s} : pc'[t] = pc[t]
  BY DEF CreateBookkeeping, Goto, IInv, TypeOK
<1>8. MarkExclusive'
  BY <1>7 DEF IInv, MarkExclusive
<1>9. ASSUME NEW t \in Server, t # s PROVE Position(t)'
  <2>1. pc'[t] = pc[t] /\ migration'[t] = migration[t] /\ operation'[t] = operation[t]
    BY <1>7, <1>9
  <2>2. AllRecorded' = AllRecorded
    BY <1>0, <1>3 DEF AllRecorded
  <2> QED BY <2>1, <2>2, <1>0, <1>3, <1>4 DEF IInv, Position
<1>10. Position(s)'
  <2>1. migration[s] = 1 /\ operation[s] = 1
    BY <1>7 DEF IInv, Position
  <2> QED BY <2>1, <1>7 DEF Position, Migration
<1> QED BY <1>1, <1>2, <1>5, <1>6, <1>8, <1>9, <1>10 DEF IInv

LEMMA RunForwardsIInv ==
  ASSUME PlainFirstOperations, IInv, NEW s \in Server, RunForwards(s)
  PROVE  IInv'
<1> DEFINE op == CurrentOperation(s)
<1>1. CASE ~ForwardsSucceeds(op, schema)
  <2>1. TypeOK'
    BY <1>1, SameMigrations DEF IInv, TypeOK, RunForwards, Goto, Running
  <2>2. pc'[s] = "failed"
    BY <1>1 DEF IInv, TypeOK, RunForwards, Goto
  <2>3. Position(s)'
    BY <2>2 DEF Position
  <2> QED BY <1>1, <2>1, <2>2, <2>3, ControlStep DEF IInv, TypeOK, RunForwards, Goto
<1>2. CASE ForwardsSucceeds(op, schema)
  <2>0. pc[s] = "forwards" /\ schema' = Forwards(op, schema) /\ rows' = rows
        /\ migration' = migration /\ operation' = operation
        /\ pc' = [pc EXCEPT ![s] = "mark"]
    BY <1>2 DEF RunForwards, Goto
  <2>a. /\ UNCHANGED migrations /\ Migration' = Migration /\ Row' = Row
        /\ \A m : NonEmpty(m)' = NonEmpty(m)
        /\ \A m : FirstOperation(m)' = FirstOperation(m)
    BY SameMigrations DEF RunForwards
  <2>1. /\ migration[s] \in Migration /\ NonEmpty(migration[s])
        /\ op = FirstOperation(migration[s])
        /\ op \in Operation
        /\ ~InEffect(migration[s])
        /\ ~Recorded(migration[s])
    BY <1>2, <2>0, ForwardsIsFirst
  <2>2. schema' \in Schema /\ WellFormed(schema')
    BY <2>0, <2>1, ForwardsTyped, ForwardsWellFormed DEF IInv, TypeOK
  <2>3. TypeOK'
    BY <2>0, <2>a, <2>2 DEF IInv, TypeOK, Running
  <2>4. \A m : Recorded(m)' = Recorded(m)
    BY <2>0 DEF Recorded
  <2>5. ASSUME NEW m \in Migration, NonEmpty(m), InEffect(m) PROVE InEffect(m)'
    <3>1. FirstOperation(m) \in Operation
      BY <2>5, FirstOperationType DEF IInv
    <3> QED BY <2>0, <2>a, <2>1, <2>5, <3>1, ForwardsKeeps DEF IInv, TypeOK, InEffect
  <2>6. InEffect(migration[s])'
    BY <1>2, <2>0, <2>a, <2>1, ForwardsEstablishes DEF IInv, TypeOK, InEffect
  <2>7. RecordedPresent'
    BY <2>a, <2>4, <2>5 DEF IInv, RecordedPresent
  <2>8. RecordedAtMostOnce' /\ RecordedInOrder'
    BY <2>0, <2>a DEF IInv, RecordedAtMostOnce, RecordedInOrder
  <2>9. ASSUME NEW t \in Server, pc[t] = "mark" PROVE migration[t] # migration[s]
    BY <2>1, <2>9 DEF IInv, Position
  <2>10. pc'[s] = "mark" /\ \A t \in Server \ {s} : pc'[t] = pc[t]
    BY <2>0 DEF IInv, TypeOK
  <2>11. MarkExclusive'
    BY <2>0, <2>9, <2>10 DEF IInv, MarkExclusive
  <2>12. ASSUME NEW t \in Server, t # s PROVE Position(t)'
    <3>1. pc'[t] = pc[t] /\ migration'[t] = migration[t] /\ operation'[t] = operation[t]
      BY <2>0, <2>10, <2>12
    <3>2. AllRecorded' = AllRecorded
      BY <2>a, <2>4 DEF AllRecorded
    <3> QED BY <3>1, <3>2, <2>a, <2>4, <2>5 DEF IInv, Position
  <2>13. Position(s)'
    BY <2>0, <2>a, <2>1, <2>4, <2>6, <2>10 DEF IInv, Position
  <2> QED BY <2>2, <2>3, <2>7, <2>8, <2>11, <2>12, <2>13 DEF IInv
<1> QED BY <1>1, <1>2

LEMMA MarkAppliedIInv ==
  ASSUME IInv, NEW s \in Server, MarkApplied(s) PROVE IInv'
<1> DEFINE m == migration[s]
           row == [id |-> InsertedId, migration |-> m]
<1>0. pc[s] = "mark"
  BY DEF MarkApplied
<1>1. CASE IdTaken
  <2>1. TypeOK'
    BY <1>1, SameMigrations DEF IInv, TypeOK, MarkApplied, Goto, Running
  <2>2. pc'[s] = "failed"
    BY <1>1 DEF IInv, TypeOK, MarkApplied, Goto
  <2>3. Position(s)'
    BY <2>2 DEF Position
  <2> QED BY <1>1, <2>1, <2>2, <2>3, ControlStep DEF IInv, TypeOK, MarkApplied, Goto
<1>2. CASE ~IdTaken
  <2>0. /\ rows' = Append(rows, row)
        /\ operation' = [operation EXCEPT ![s] = operation[s] + 1]
        /\ pc' = [pc EXCEPT ![s] = "loop"]
        /\ schema' = schema /\ migration' = migration
    BY <1>2 DEF MarkApplied, Goto
  <2>a. /\ UNCHANGED migrations /\ Migration' = Migration /\ Row' = Row
        /\ \A k : NonEmpty(k)' = NonEmpty(k)
        /\ \A k : FirstOperation(k)' = FirstOperation(k)
    BY SameMigrations DEF MarkApplied
  <2>1. m \in Migration /\ NonEmpty(m) /\ operation[s] = 1 /\ InEffect(m) /\ ~Recorded(m)
    BY <1>0 DEF IInv, Position
  <2>2. row \in Row
    BY <2>1 DEF InsertedId, Row, IInv, TypeOK
  <2>3. /\ rows' \in Seq(Row)
        /\ DOMAIN rows = 1..Len(rows) /\ Len(rows) \in Nat
        /\ DOMAIN rows' = 1..(Len(rows) + 1)
        /\ \A k \in 1..Len(rows) : rows'[k] = rows[k] /\ rows[k] \in Row
        /\ rows'[Len(rows) + 1].migration = m
    BY <2>0, <2>2, AppendRecords DEF IInv, TypeOK
  <2>4. TypeOK'
    BY <2>0, <2>a, <2>3 DEF IInv, TypeOK, Running
  <2>5. \A k : Recorded(k)' <=> Recorded(k) \/ k = m
    BY <2>3 DEF Recorded
  <2>6. \A k : InEffect(k)' = InEffect(k)
    BY <2>0, <2>a DEF InEffect
  <2>7. WellFormed(schema)' /\ RecordedPresent'
    BY <2>0, <2>a, <2>1, <2>5, <2>6 DEF IInv, RecordedPresent, WellFormed
  <2>8. \A k \in 1..Len(rows) : rows[k].migration # m
    BY <2>1, <2>3 DEF Recorded
  <2>9. RecordedAtMostOnce'
    BY <2>3, <2>8 DEF IInv, RecordedAtMostOnce
  <2>10. RecordedInOrder'
    <3> SUFFICES ASSUME NEW i \in 1..(Len(rows) + 1), NEW k \in Migration,
                        k < rows'[i].migration, NonEmpty(k)
                 PROVE  \E j \in 1..(Len(rows) + 1) :
                          j < i /\ rows'[j].migration = k
      BY <2>a, <2>3 DEF RecordedInOrder
    <3>1. CASE i = Len(rows) + 1
      <4>1. Recorded(k)
        BY <1>0, <2>3, <3>1 DEF IInv, Position
      <4> QED BY <2>3, <3>1, <4>1 DEF Recorded
    <3>2. CASE i \in 1..Len(rows)
      BY <2>3, <3>2 DEF IInv, RecordedInOrder
    <3> QED BY <2>3, <3>1, <3>2
  <2>11. pc'[s] = "loop" /\ operation'[s] = 2 /\ \A t \in Server \ {s} :
           pc'[t] = pc[t] /\ operation'[t] = operation[t]
    BY <2>0, <2>1 DEF IInv, TypeOK
  <2>12. MarkExclusive'
    BY <2>0, <2>11 DEF IInv, MarkExclusive
  <2>13. ASSUME NEW t \in Server, t # s PROVE Position(t)'
    <3>1. pc'[t] = pc[t] /\ operation'[t] = operation[t] /\ migration'[t] = migration[t]
      BY <2>0, <2>11, <2>13
    <3>2. pc[t] = "mark" => migration[t] # m
      BY <1>0, <2>13 DEF IInv, MarkExclusive
    <3>3. AllRecorded => AllRecorded'
      BY <2>a, <2>5 DEF AllRecorded
    <3> QED BY <3>1, <3>2, <3>3, <2>a, <2>5, <2>6 DEF IInv, Position
  <2>14. Position(s)'
    BY <1>0, <2>0, <2>a, <2>1, <2>5, <2>11 DEF IInv, Position
  <2> QED BY <2>4, <2>7, <2>9, <2>10, <2>12, <2>13, <2>14 DEF IInv
<1> QED BY <1>1, <1>2

LEMMA StopIInv ==
  ASSUME IInv, NEW s \in Server, Crash(s) \/ Shutdown(s) PROVE IInv'
<1>1. TypeOK'
  BY SameMigrations DEF IInv, TypeOK, Crash, Shutdown, Goto, Running
<1>2. pc'[s] = "stopped"
  BY DEF IInv, TypeOK, Crash, Shutdown, Goto
<1>3. Position(s)'
  BY <1>2 DEF Position
<1> QED BY <1>1, <1>2, <1>3, ControlStep DEF IInv, TypeOK, Crash, Shutdown, Goto

LEMMA NextIInv ==
  ASSUME PlainFirstOperations, IInv, [Next]_vars PROVE IInv'
<1>1. CASE UNCHANGED vars
  BY <1>1, SameMigrations DEF vars, IInv, TypeOK, WellFormed, RecordedPresent, Recorded, InEffect,
              RecordedAtMostOnce, RecordedInOrder, MarkExclusive, Position,
              AllRecorded
<1>2. ASSUME NEW s \in Server, Start(s) \/ Run(s) \/ Crash(s) \/ Shutdown(s)
      PROVE  IInv'
  BY <1>2, StartIInv, CreateBookkeepingIInv, NextMigrationIInv, FinishIInv,
     CheckAppliedIInv, RunForwardsIInv, MarkAppliedIInv, StopIInv DEF Run
<1> QED BY <1>1, <1>2 DEF Next

-----------------------------------------------------------------------------
(* The types of the engine's state, and the invariant above: for every set  *)
(* of servers and every list of migrations.                                 *)
THEOREM EngineInvariant ==
  ASSUME PlainFirstOperations PROVE Spec => []IInv
<1>1. Init => IInv
  BY InitIInv
<1>2. IInv /\ [Next]_vars => IInv'
  BY NextIInv
<1> QED BY <1>1, <1>2, PTL DEF Spec

(* Concurrent starts and crashes never record a migration twice.            *)
THEOREM EngineRecordsOnce ==
  ASSUME PlainFirstOperations PROVE Spec => []RecordedAtMostOnce
<1>1. IInv => RecordedAtMostOnce
  BY DEF IInv
<1> QED BY <1>1, EngineInvariant, PTL

(* A recorded migration has its first operation in the schema.              *)
THEOREM EngineRecordsWhatRan ==
  ASSUME PlainFirstOperations PROVE Spec => []RecordedInEffect
<1>1. IInv => RecordedInEffect
  BY DEF IInv, RecordedPresent, RecordedInEffect
<1> QED BY <1>1, EngineInvariant, PTL

(* Migrations are recorded in dependency order, without gaps.               *)
THEOREM EngineRecordsInOrder ==
  ASSUME PlainFirstOperations PROVE Spec => []RecordedInOrder
<1>1. IInv => RecordedInOrder
  BY DEF IInv
<1> QED BY <1>1, EngineInvariant, PTL

(* A server that serves has every migration recorded.                       *)
THEOREM EngineServesRecorded ==
  ASSUME PlainFirstOperations PROVE Spec => []ServingMeansRecorded
<1>1. IInv => ServingMeansRecorded
  BY DEF IInv, Position, ServingMeansRecorded, AllRecorded
<1> QED BY <1>1, EngineInvariant, PTL

(* Where a server that failed stands, and why.                              *)
FailedStands ==
  \A s \in Server : pc[s] = "failed" =>
    /\ migration[s] \in Migration
    /\ NonEmpty(migration[s])
    /\ InEffect(migration[s]) \/ Blocked(migration[s])

(* A first operation that is not in effect and finds what it needs succeeds.*)
LEMMA OnlyNeedsFail ==
  ASSUME NEW op \in Operation, NEW db, ~ForwardsSucceeds(op, db), ~Present(op, db)
  PROVE  \E t \in Needed(op) : t \notin db.tables
<1>1. SUFFICES ASSUME \A t \in Needed(op) : t \in db.tables PROVE FALSE
  OBVIOUS
<1>2. CASE op \in CreateModelOp
  <2>1. op.kind = "CreateModel"
    BY <1>2 DEF CreateModelOp
  <2>2. ~CanCreate(op, db)
    BY <2>1 DEF ForwardsSucceeds
  <2>3. StrictForeignKeys => \A r \in op.references : r[2] \in db.tables \cup {op.table}
    BY <1>1, <2>1 DEF Needed
  <2> QED BY <2>1, <2>2, <2>3 DEF CanCreate, Present
<1>3. CASE op \in AddFieldOp
  <2>1. op.kind = "AddField"
    BY <1>3 DEF AddFieldOp
  <2>2. op.table \in db.tables
    BY <1>1, <2>1 DEF Needed
  <2> QED BY <2>1, <2>2 DEF ForwardsSucceeds, CanAddColumn, Present
<1> QED BY <1>2, <1>3 DEF Operation

(* One that does not find what it needs fails.                              *)
LEMMA NeedsFail ==
  ASSUME NEW op \in Operation, NEW db, Once(op), NEW t \in Needed(op), t \notin db.tables
  PROVE  ~ForwardsSucceeds(op, db)
<1>1. CASE op \in CreateModelOp
  BY <1>1, StrictForeignKeysIsBoolean DEF CreateModelOp, Needed, Once, ForwardsSucceeds, CanCreate
<1>2. CASE op \in AddFieldOp
  BY <1>2 DEF AddFieldOp, Needed, ForwardsSucceeds, CanAddColumn
<1> QED BY <1>1, <1>2 DEF Operation

(* When the engine gets to a migration, all earlier ones are recorded and   *)
(* their first operations in effect: a table that is missing then is one of *)
(* the tables that no run makes.                                            *)
LEMMA FailsForAReason ==
  ASSUME PlainFirstOperations, NeededAreCreatedBefore, IInv,
         NEW s \in Server, pc[s] = "forwards",
         ~ForwardsSucceeds(CurrentOperation(s), schema)
  PROVE  InEffect(migration[s]) \/ Blocked(migration[s])
<1> DEFINE m == migration[s]
           op == FirstOperation(m)
<1> SUFFICES ASSUME ~InEffect(m) PROVE Blocked(m)
  OBVIOUS
<1>1. m \in Migration /\ NonEmpty(m) /\ operation[s] = 1 /\ EarlierRecorded(m)
  BY DEF IInv, Position, EarlierRecorded
<1>2. CurrentOperation(s) = op /\ op \in Operation
  BY <1>1, FirstOperationType DEF IInv, CurrentOperation, FirstOperation
<1>3. PICK t \in Needed(op) : t \notin schema.tables
  BY <1>2, OnlyNeedsFail DEF InEffect
<1>4. Skipped(t, m)
  <2>1. PICK k \in 1..(m - 1) : \E o \in 1..Len(migrations[k]) : Creates(migrations[k][o], t)
    BY <1>1, <1>3 DEF NeededAreCreatedBefore, IInv, TypeOK, Migration, NonEmpty, FirstOperation
  <2>2. PICK o \in 1..Len(migrations[k]) : Creates(migrations[k][o], t)
    BY <2>1
  <2>3. Len(migrations) \in Nat /\ m \in 1..Len(migrations)
    BY <1>1, MigrationsType DEF IInv, Migration
  <2>4. k \in Migration /\ k < m
    BY <2>3 DEF Migration
  <2>5. migrations[k] \in Seq(Operation)
    BY <2>4, MigrationsType DEF IInv
  <2>6. NonEmpty(k)
    BY <2>2, <2>5 DEF NonEmpty
  <2>7. InEffect(k)
    BY <1>1, <2>4, <2>6 DEF EarlierRecorded, IInv, RecordedPresent
  <2>8. o # 1
    BY <1>3, <2>2, <2>7 DEF InEffect, Present, FirstOperation, Creates
  <2>9. o \in 2..Len(migrations[k])
    BY <2>2, <2>5, <2>8
  <2> QED BY <2>2, <2>4, <2>9 DEF Skipped
<1> QED BY <1>1, <1>3, <1>4 DEF Blocked

(* The list of migrations stays, and what is recorded stays so.             *)
LEMMA MigrationsStay == ASSUME [Next]_vars PROVE UNCHANGED migrations
BY DEF Next, Run, vars, Start, CreateBookkeeping, NextMigration, Finish, CheckApplied,
       RunForwards, MarkApplied, Crash, Shutdown

LEMMA RecordsStay ==
  ASSUME IInv, [Next]_vars, NEW m, Recorded(m) PROVE Recorded(m)'
<1>1. CASE rows' = rows
  BY <1>1 DEF Recorded
<1>2. ASSUME NEW s \in Server, MarkApplied(s), rows' # rows PROVE Recorded(m)'
  <2>1. rows' = Append(rows, [id |-> InsertedId, migration |-> migration[s]])
    BY <1>2 DEF MarkApplied
  <2>2. [id |-> InsertedId, migration |-> migration[s]] \in Row
    BY <1>2 DEF MarkApplied, InsertedId, Row, IInv, TypeOK, Position
  <2>3. /\ DOMAIN rows = 1..Len(rows) /\ Len(rows) \in Nat
        /\ DOMAIN rows' = 1..(Len(rows) + 1)
        /\ \A k \in 1..Len(rows) : rows'[k] = rows[k]
    BY <2>1, <2>2, AppendRecords DEF IInv, TypeOK
  <2>4. PICK i \in DOMAIN rows : rows[i].migration = m
    BY DEF Recorded
  <2>5. i \in DOMAIN rows' /\ rows'[i] = rows[i]
    BY <2>3, <2>4
  <2> QED BY <2>4, <2>5 DEF Recorded
<1> QED BY <1>1, <1>2 DEF Next, Run, vars, Start, CreateBookkeeping, NextMigration, Finish,
            CheckApplied, RunForwards, Crash, Shutdown

(* What is in effect stays so: no step of a run takes anything away.        *)
LEMMA StaysInEffect ==
  ASSUME PlainFirstOperations, IInv, [Next]_vars,
         NEW m \in Migration, NonEmpty(m), InEffect(m)
  PROVE  InEffect(m)'
<1>0. FirstOperation(m) \in Operation /\ FirstOperation(m)' = FirstOperation(m)
  BY FirstOperationType, MigrationsStay, SameMigrations DEF IInv
<1>1. CASE schema' = schema
  BY <1>0, <1>1 DEF InEffect
<1>2. ASSUME NEW s \in Server, CreateBookkeeping(s) PROVE InEffect(m)'
  BY <1>0, <1>2, BookkeepingType, ForwardsKeeps
     DEF CreateBookkeeping, IInv, TypeOK, InEffect
<1>3. ASSUME NEW s \in Server, RunForwards(s), ForwardsSucceeds(CurrentOperation(s), schema)
      PROVE  InEffect(m)'
  <2>1. CurrentOperation(s) \in Operation
    BY <1>3, ForwardsIsFirst DEF RunForwards
  <2>2. schema' = Forwards(CurrentOperation(s), schema)
    BY <1>3 DEF RunForwards
  <2> QED BY <1>0, <2>1, <2>2, ForwardsKeeps DEF IInv, TypeOK, InEffect
<1> QED BY <1>1, <1>2, <1>3 DEF Next, Run, vars, Start, NextMigration, Finish, CheckApplied,
            RunForwards, MarkApplied, Crash, Shutdown

(* While a migration is blocked, no DDL statement of any migration succeeds:*)
(* the earlier ones are recorded, and the later ones come after it.         *)
LEMMA BlockedStopsForwards ==
  ASSUME PlainFirstOperations, IInv, NEW m \in Migration, Blocked(m),
         NEW s \in Server, pc[s] = "forwards",
         ForwardsSucceeds(CurrentOperation(s), schema)
  PROVE  FALSE
<1> DEFINE j == migration[s]
<1>1. /\ j \in Migration /\ NonEmpty(j) /\ ~Recorded(j)
      /\ CurrentOperation(s) = FirstOperation(j)
  BY ForwardsIsFirst
<1>2. m \in Nat /\ j \in Nat
  BY <1>1, MigrationsType DEF IInv, Migration
<1>3. CASE j < m
  BY <1>1, <1>3 DEF Blocked, EarlierRecorded
<1>4. CASE j = m
  <2>1. PICK t \in Needed(FirstOperation(m)) : t \notin schema.tables
    BY DEF Blocked
  <2>2. FirstOperation(m) \in Operation
    BY FirstOperationType DEF IInv, Blocked
  <2>3. Once(FirstOperation(m))
    BY DEF PlainFirstOperations, Once, IInv, TypeOK, Blocked, Migration, NonEmpty, FirstOperation
  <2> QED BY <1>1, <1>4, <2>1, <2>2, <2>3, NeedsFail
<1>5. CASE m < j
  <2>1. Recorded(m)
    BY <1>5 DEF IInv, Position, Blocked
  <2> QED BY <2>1 DEF IInv, RecordedPresent, Blocked
<1> QED BY <1>2, <1>3, <1>4, <1>5

LEMMA BlockedStays ==
  ASSUME PlainFirstOperations, IInv, [Next]_vars, NEW m \in Migration, Blocked(m)
  PROVE  Blocked(m)'
<1>1. UNCHANGED migrations
  BY MigrationsStay
<1>2. /\ Migration' = Migration /\ NonEmpty(m)' = NonEmpty(m)
      /\ FirstOperation(m)' = FirstOperation(m)
      /\ \A k : NonEmpty(k)' = NonEmpty(k)
  BY <1>1, SameMigrations
<1>3. ASSUME NEW t PROVE Skipped(t, m)' = Skipped(t, m)
  BY <1>1, <1>2 DEF Skipped
<1>4. ASSUME NEW k, Recorded(k) PROVE Recorded(k)'
  BY <1>4, RecordsStay
<1>5. EarlierRecorded(m)'
  BY <1>2, <1>4 DEF Blocked, EarlierRecorded
<1>6. PICK t \in Needed(FirstOperation(m)) : t \notin schema.tables /\ Skipped(t, m)
  BY DEF Blocked
<1>7. ~InEffect(m)' /\ t \notin schema'.tables
  <2>1. CASE schema' = schema
    BY <1>2, <1>6, <2>1 DEF Blocked, InEffect
  <2>2. ASSUME NEW s \in Server, CreateBookkeeping(s)
        PROVE  ~InEffect(m)' /\ t \notin schema'.tables
    <3>1. FirstOperation(m) \in Operation /\ FirstOperation(m).table # MigrationsTable
      <4>1. FirstOperation(m) \in Operation /\ 1 \in 1..Len(migrations[m])
        BY FirstOperationType DEF IInv, Blocked
      <4> QED BY <4>1, HistoriesType DEF IInv, TypeOK, Migration, FirstOperation
    <3>2. t # MigrationsTable
      <4>1. PICK k \in Migration : \E o \in 2..Len(migrations[k]) : Creates(migrations[k][o], t)
        BY <1>6 DEF Skipped
      <4>2. PICK o \in 2..Len(migrations[k]) : Creates(migrations[k][o], t)
        BY <4>1
      <4>3. o \in 1..Len(migrations[k])
        BY <4>2
      <4> QED BY <4>2, <4>3, HistoriesType DEF IInv, TypeOK, Migration, Creates
    <3>3. schema' = Forwards(CreateAppliedMigrations, schema)
      BY <2>2 DEF CreateBookkeeping
    <3>4. /\ schema'.tables \subseteq schema.tables \cup {MigrationsTable}
          /\ \A u \in Table \ {MigrationsTable} : schema'.columns[u] = schema.columns[u]
      BY <3>3 DEF Forwards, CreateTable, CreateAppliedMigrations, IInv, TypeOK, Schema
    <3>5. FirstOperation(m).table \in Table
      BY <3>1 DEF Operation, CreateModelOp, AddFieldOp
    <3> QED BY <1>2, <1>6, <3>1, <3>2, <3>4, <3>5 DEF Blocked, InEffect, Present
  <2>3. ASSUME NEW s \in Server, RunForwards(s) PROVE schema' = schema
    BY <2>3, BlockedStopsForwards DEF RunForwards
  <2> QED BY <2>1, <2>2, <2>3 DEF Next, Run, vars, Start, NextMigration, Finish, CheckApplied,
            MarkApplied, Crash, Shutdown
<1> QED BY <1>2, <1>3, <1>5, <1>6, <1>7 DEF Blocked

(* Whatever servers start together and die, and wherever the later          *)
(* operations of a migration would be needed: a run fails only where what   *)
(* it was to do is done, or where it waits for a table that no run makes.   *)
THEOREM EngineFailsForAReason ==
  ASSUME PlainFirstOperations, NeededAreCreatedBefore
  PROVE  Spec => []FailedForAReason
<1>1. Init => FailedStands
  BY DEF Init, FailedStands
<1>2. IInv /\ FailedStands /\ [Next]_vars => FailedStands'
  <2> SUFFICES ASSUME IInv, FailedStands, [Next]_vars, NEW s \in Server, pc'[s] = "failed"
               PROVE  /\ (migration[s] \in Migration)'
                      /\ NonEmpty(migration[s])'
                      /\ InEffect(migration[s])' \/ Blocked(migration[s])'
    BY DEF FailedStands
  <2>0. Migration' = Migration /\ \A m : NonEmpty(m)' = NonEmpty(m)
    BY MigrationsStay, SameMigrations
  <2>1. migration'[s] = migration[s] /\ migration[s] \in Migration /\ NonEmpty(migration[s])
        /\ (InEffect(migration[s]) \/ Blocked(migration[s]))
    <3>1. CASE pc[s] = "failed"
      <4>1. migration'[s] = migration[s]
        BY <3>1 DEF Next, Run, vars, Start, CreateBookkeeping, NextMigration, Finish,
                    CheckApplied, RunForwards, MarkApplied, Crash, Shutdown, Goto, IInv, TypeOK
      <4> QED BY <3>1, <4>1 DEF FailedStands
    <3>2. CASE pc[s] # "failed"
      <4>1. \/ RunForwards(s) /\ ~ForwardsSucceeds(CurrentOperation(s), schema)
            \/ MarkApplied(s) /\ IdTaken
        BY <3>2, ZenonT(30) DEF Next, Run, vars, Start, CreateBookkeeping, NextMigration, Finish,
                    CheckApplied, RunForwards, MarkApplied, Crash, Shutdown, Goto, IInv, TypeOK
      <4>2. migration' = migration /\ pc[s] \in {"forwards", "mark"}
        BY <4>1 DEF RunForwards, MarkApplied
      <4>3. migration[s] \in Migration /\ NonEmpty(migration[s])
        BY <4>2 DEF IInv, Position
      <4>4. InEffect(migration[s]) \/ Blocked(migration[s])
        BY <4>1, FailsForAReason DEF RunForwards, MarkApplied, IInv, Position
      <4> QED BY <4>2, <4>3, <4>4
    <3> QED BY <3>1, <3>2
  <2>2. ASSUME NEW m \in Migration, NonEmpty(m), InEffect(m) PROVE InEffect(m)'
    BY <2>2, StaysInEffect
  <2>3. ASSUME NEW m \in Migration, Blocked(m) PROVE Blocked(m)'
    BY <2>3, BlockedStays
  <2> QED BY <2>0, <2>1, <2>2, <2>3
<1>3. FailedStands => FailedForAReason
  BY DEF FailedStands, FailedForAReason
<1> QED BY <1>1, <1>2, <1>3, EngineInvariant, PTL DEF Spec

(* A blocked migration is blocked for ever, and no server serves from then  *)
(* on: no restart and no other server makes the table it wants.             *)
THEOREM EngineStaysBlocked ==
  ASSUME PlainFirstOperations PROVE Spec => BlockedIsPermanent
<1>1. IInv /\ [Next]_vars =>
        [\A m \in Migration : Blocked(m) =>
           Blocked(m)' /\ \A s \in Server : pc'[s] # "done"]_vars
  <2> SUFFICES ASSUME IInv, [Next]_vars, NEW m \in Migration, Blocked(m)
               PROVE  Blocked(m)' /\ \A s \in Server : pc'[s] # "done"
    OBVIOUS
  <2>1. Blocked(m)' /\ IInv'
    BY BlockedStays, NextIInv
  <2>2. (Migration' = Migration) /\ NonEmpty(m)'
    BY <2>1, MigrationsStay, SameMigrations DEF Blocked
  <2>3. ~Recorded(m)'
    BY <2>1, <2>2 DEF Blocked, IInv, RecordedPresent
  <2>4. ASSUME NEW s \in Server PROVE pc'[s] # "done"
    BY <2>1, <2>2, <2>3 DEF IInv, Position, AllRecorded
  <2> QED BY <2>1, <2>4
<1> QED BY <1>1, EngineInvariant, PTL DEF Spec, BlockedIsPermanent

(* Once everything is recorded no run changes the database any more.        *)
THEOREM EngineLeavesRecordedAlone ==
  ASSUME PlainFirstOperations PROVE Spec => NoChangeOnceRecorded
<1>1. IInv /\ [Next]_vars =>
        [AllRecorded /\ MigrationsTable \in schema.tables
           => UNCHANGED <<schema, rows>>]_vars
  <2> SUFFICES ASSUME IInv, Next, AllRecorded, MigrationsTable \in schema.tables
               PROVE  UNCHANGED <<schema, rows>>
    OBVIOUS
  <2>1. ASSUME NEW s \in Server, CreateBookkeeping(s)
        PROVE  UNCHANGED <<schema, rows>>
    BY <2>1 DEF CreateBookkeeping, CreateAppliedMigrations, Forwards, CanCreate
  <2>2. ASSUME NEW s \in Server, RunForwards(s)
        PROVE  UNCHANGED <<schema, rows>>
    <3>1. ~ForwardsSucceeds(CurrentOperation(s), schema)
      <4>1. SUFFICES ASSUME ForwardsSucceeds(CurrentOperation(s), schema) PROVE FALSE
        OBVIOUS
      <4> QED BY <2>2, <4>1, ForwardsIsFirst DEF RunForwards, AllRecorded
    <3> QED BY <2>2, <3>1 DEF RunForwards
  <2>3. ASSUME NEW s \in Server, MarkApplied(s) PROVE FALSE
    BY <2>3 DEF MarkApplied, IInv, Position, AllRecorded
  <2> QED BY <2>1, <2>2, <2>3
          DEF Next, Run, Start, NextMigration, Finish, CheckApplied, Crash, Shutdown
<1> QED BY <1>1, EngineInvariant, PTL DEF Spec, NoChangeOnceRecorded

(* What a crash between forwards and mark_migration_applied leaves behind   *)
(* is never repaired by a later run.                                        *)
THEOREM EngineNeverRepairs ==
  ASSUME PlainFirstOperations PROVE Spec => OrphanIsPermanent
<1>1. IInv /\ [Next]_vars =>
        [\A m \in Migration : Orphaned(m) => Orphaned(m)']_vars
  <2> SUFFICES ASSUME IInv, Next, NEW m \in Migration, Orphaned(m)
               PROVE  Orphaned(m)'
    OBVIOUS
  <2>0. /\ NonEmpty(m)' = NonEmpty(m) /\ FirstOperation(m)' = FirstOperation(m)
        /\ FirstOperation(m) \in Operation
    BY MigrationsStay, SameMigrations, FirstOperationType DEF IInv, Orphaned
  <2>1. ASSUME NEW s \in Server, UNCHANGED <<migrations, schema, rows, migration>>,
               \A t \in Server : pc'[t] = "mark" => pc[t] = "mark"
        PROVE  Orphaned(m)'
    BY <2>0, <2>1 DEF Orphaned, InEffect, Recorded
  <2>2. ASSUME NEW s \in Server, RunForwards(s) PROVE Orphaned(m)'
    <3>1. CASE ~ForwardsSucceeds(CurrentOperation(s), schema)
      BY <2>1, <2>2, <3>1 DEF RunForwards, Goto, IInv, TypeOK
    <3>2. CASE ForwardsSucceeds(CurrentOperation(s), schema)
      <4>1. migration[s] # m /\ CurrentOperation(s) \in Operation
        BY <2>2, <3>2, ForwardsIsFirst DEF RunForwards, Orphaned
      <4>2. /\ schema' = Forwards(CurrentOperation(s), schema)
            /\ rows' = rows /\ migration' = migration
            /\ pc' = [pc EXCEPT ![s] = "mark"]
        BY <2>2, <3>2 DEF RunForwards, Goto
      <4>3. InEffect(m)'
        BY <2>0, <4>1, <4>2, ForwardsKeeps
           DEF Orphaned, InEffect, IInv, TypeOK
      <4> QED BY <2>0, <4>1, <4>2, <4>3 DEF Orphaned, Recorded, IInv, TypeOK
    <3> QED BY <3>1, <3>2
  <2>3. ASSUME NEW s \in Server, MarkApplied(s) PROVE Orphaned(m)'
    <3>1. CASE IdTaken
      BY <2>1, <2>3, <3>1 DEF MarkApplied, Goto, IInv, TypeOK
    <3>2. CASE ~IdTaken
      <4>1. /\ rows' = Append(rows, [id |-> InsertedId, migration |-> migration[s]])
            /\ pc' = [pc EXCEPT ![s] = "loop"]
            /\ schema' = schema /\ migration' = migration
        BY <2>3, <3>2 DEF MarkApplied, Goto
      <4>2. migration[s] # m /\ migration[s] \in Migration
        BY <2>3 DEF MarkApplied, Orphaned, IInv, Position
      <4>3. [id |-> InsertedId, migration |-> migration[s]] \in Row
        BY <4>2 DEF InsertedId, Row, IInv, TypeOK
      <4>4. ~Recorded(m)'
        BY <4>1, <4>2, <4>3, AppendRecords DEF Orphaned, Recorded, IInv, TypeOK
      <4> QED BY <2>0, <4>1, <4>4 DEF Orphaned, InEffect, IInv, TypeOK
    <3> QED BY <3>1, <3>2
  <2>4. ASSUME NEW s \in Server, CreateBookkeeping(s) PROVE Orphaned(m)'
    <3>1. InEffect(m)'
      BY <2>0, <2>4, BookkeepingType, ForwardsKeeps
         DEF CreateBookkeeping, IInv, TypeOK, Orphaned, InEffect
    <3> QED BY <2>0, <2>4, <3>1
            DEF CreateBookkeeping, Goto, Orphaned, Recorded, IInv, TypeOK
  <2>5. ASSUME NEW s \in Server, NextMigration(s) PROVE Orphaned(m)'
    BY <2>0, <2>5 DEF NextMigration, Orphaned, InEffect, Recorded, IInv, TypeOK
  <2>6. ASSUME NEW s \in Server, Start(s) PROVE Orphaned(m)'
    BY <2>0, <2>6 DEF Start, Goto, Orphaned, InEffect, Recorded, IInv, TypeOK
  <2>7. ASSUME NEW s \in Server, Finish(s) \/ CheckApplied(s) \/ Crash(s) \/ Shutdown(s)
        PROVE  Orphaned(m)'
    <3>1. UNCHANGED <<migrations, schema, rows, migration>>
      BY <2>7 DEF Finish, CheckApplied, Crash, Shutdown
    <3>2. \A t \in Server : pc'[t] = "mark" => pc[t] = "mark"
      BY <2>7 DEF Finish, CheckApplied, Crash, Shutdown, Goto, IInv, TypeOK
    <3> QED BY <2>1, <3>1, <3>2
  <2> QED BY <2>2, <2>3, <2>4, <2>5, <2>6, <2>7 DEF Next, Run
<1> QED BY <1>1, EngineInvariant, PTL DEF Spec, OrphanIsPermanent

(* The engine implements the log of migrations.                             *)
THEOREM EngineImplementsLog ==
  ASSUME PlainFirstOperations PROVE Spec => ImplementsLog
<1> DEFINE log == [i \in DOMAIN rows |-> rows[i].migration]
           loggable == {k \in Migration : NonEmpty(k)}
<1>1. Init => Log!LogInit
  BY InitIInv, MigrationsType DEF Init, IInv, Migration, Log!LogInit
<1>2. IInv /\ [Next]_vars => [Log!LogNext]_<<loggable, log>>
  <2> SUFFICES ASSUME IInv, [Next]_vars, UNCHANGED loggable, rows' # rows PROVE Log!LogNext
    BY MigrationsStay, SameMigrations
  <2>1. PICK s \in Server : MarkApplied(s)
    BY DEF Next, Run, vars, Start, CreateBookkeeping, NextMigration, Finish,
           CheckApplied, RunForwards, Crash, Shutdown
  <2> DEFINE m == migration[s]
  <2>2. /\ m \in Migration /\ NonEmpty(m) /\ ~Recorded(m)
        /\ \A k \in Migration : k < m /\ NonEmpty(k) => Recorded(k)
    BY <2>1 DEF MarkApplied, IInv, Position
  <2>3. rows' = Append(rows, [id |-> InsertedId, migration |-> m])
    BY <2>1 DEF MarkApplied
  <2>4. [id |-> InsertedId, migration |-> m] \in Row
    BY <2>2 DEF InsertedId, Row, IInv, TypeOK
  <2>5. /\ DOMAIN rows = 1..Len(rows) /\ Len(rows) \in Nat
        /\ DOMAIN rows' = 1..(Len(rows) + 1)
        /\ \A k \in 1..Len(rows) : rows'[k] = rows[k] /\ rows[k] \in Row
        /\ rows'[Len(rows) + 1].migration = m
    BY <2>3, <2>4, AppendRecords DEF IInv, TypeOK
  <2>6. log \in Seq(Migration) /\ Len(log) = Len(rows)
    BY <2>5 DEF Row
  <2>7. log' = Append(log, m)
    BY <2>5, <2>6
  <2>8. \A k : Log!Logged(k) <=> Recorded(k)
    BY DEF Log!Logged, Recorded
  <2>9. Log!Record(m)
    BY <2>2, <2>7, <2>8 DEF Log!Record
  <2>10. m \in loggable
    BY <2>2
  <2> QED BY <2>2, <2>7, <2>8, <2>10 DEF Log!LogNext, Log!Record
<1> QED BY <1>1, <1>2, EngineInvariant, PTL DEF Spec, ImplementsLog, Log!LogSpec
==============================================================================
