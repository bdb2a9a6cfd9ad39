--------------------------- MODULE SchemaOperation ---------------------------
(***************************************************************************)
(* What one migration operation does to a database schema: the two        *)
(* variants of OperationInner (src/cot/src/db/migrations.rs) and the DDL   *)
(* statement that Operation::forwards and Operation::backwards send for    *)
(* each.  The database itself is external: it refuses a CREATE TABLE of a  *)
(* table that exists (unless IF NOT EXISTS is set), an ADD COLUMN to a     *)
(* missing table or of a column that exists, and, when it checks foreign   *)
(* keys at definition time, a reference to a missing table.                *)
(***************************************************************************)
CONSTANTS
  Table,              \* table names
  Column,             \* column names
  StrictForeignKeys   \* TRUE: the backend wants the referenced table to exist
                      \* (PostgreSQL, MySQL); FALSE: it does not (SQLite)

ASSUME StrictForeignKeysIsBoolean == StrictForeignKeys \in BOOLEAN

(* A schema: the tables, the columns of each, and the foreign keys          *)
(* <<table, column, referenced table>> the database enforces.               *)
Schema == [tables  : SUBSET Table,
           columns : [Table -> SUBSET Column],
           fks     : SUBSET (Table \X Column \X Table)]

EmptySchema == [tables |-> {}, columns |-> [t \in Table |-> {}], fks |-> {}]

(* OperationInner.  "references" are the foreign keys the fields declare,   *)
(* as pairs of a column and the referenced table.                           *)
CreateModelOp == [kind : {"CreateModel"}, table : Table,
                  columns : SUBSET Column,
                  references : SUBSET (Column \X Table),
                  ifNotExists : BOOLEAN]
AddFieldOp == [kind : {"AddField"}, table : Table, column : Column,
               references : SUBSET (Column \X Table)]
Operation == CreateModelOp \cup AddFieldOp

(* The change the operation is there to make is already in the schema.      *)
Present(op, schema) ==
  IF op.kind = "CreateModel"
  THEN op.table \in schema.tables
  ELSE op.column \in schema.columns[op.table]

(* CREATE TABLE: columns and foreign keys together.                         *)
CanCreate(op, schema) ==
  /\ op.table \notin schema.tables
  /\ StrictForeignKeys =>
       \A r \in op.references : r[2] \in schema.tables \cup {op.table}

CreateTable(op, schema) ==
  [tables  |-> schema.tables \cup {op.table},
   columns |-> [schema.columns EXCEPT ![op.table] = op.columns],
   fks     |-> schema.fks \cup {<<op.table, r[1], r[2]>> : r \in op.references}]

(* ADD COLUMN: the column definition only, as_column_def does not carry the *)
(* field's foreign key.                                                     *)
CanAddColumn(op, schema) ==
  /\ op.table \in schema.tables
  /\ op.column \notin schema.columns[op.table]

AddColumn(op, schema) ==
  [tables  |-> schema.tables,
   columns |-> [schema.columns EXCEPT ![op.table] = @ \cup {op.column}],
   fks     |-> schema.fks]

ForwardsSucceeds(op, schema) ==
  \/ /\ op.kind = "CreateModel"
     /\ \/ CanCreate(op, schema)
        \/ op.ifNotExists /\ op.table \in schema.tables
  \/ /\ op.kind = "AddField"
     /\ CanAddColumn(op, schema)

Forwards(op, schema) ==
  IF op.kind = "CreateModel"
  THEN IF CanCreate(op, schema) THEN CreateTable(op, schema) ELSE schema
  ELSE IF CanAddColumn(op, schema) THEN AddColumn(op, schema) ELSE schema

(* DROP TABLE is refused while another table references the table.          *)
CanDropTable(op, schema) ==
  /\ op.table \in schema.tables
  /\ StrictForeignKeys =>
       \A fk \in schema.fks : fk[3] = op.table => fk[1] = op.table

(* Mutant: the foreign keys of the table are left behind.                    *)
DropTableKeepingKeys(op, schema) ==
  [tables  |-> schema.tables \ {op.table},
   columns |-> [schema.columns EXCEPT ![op.table] = {}],
   fks     |-> schema.fks]

DropTable(op, schema) ==
  [tables  |-> schema.tables \ {op.table},
   columns |-> [schema.columns EXCEPT ![op.table] = {}],
   fks     |-> {fk \in schema.fks : fk[1] # op.table}]

CanDropColumn(op, schema) ==
  /\ op.table \in schema.tables
  /\ op.column \in schema.columns[op.table]

DropColumn(op, schema) ==
  [tables  |-> schema.tables,
   columns |-> [schema.columns EXCEPT ![op.table] = @ \ {op.column}],
   fks     |-> {fk \in schema.fks : fk[1] # op.table \/ fk[2] # op.column}]

BackwardsSucceeds(op, schema) ==
  \/ op.kind = "CreateModel" /\ CanDropTable(op, schema)
  \/ op.kind = "AddField" /\ CanDropColumn(op, schema)

(* Mutant: only a CreateModel is undone.                                    *)
BackwardsOfCreateOnly(op, schema) ==
  IF op.kind = "CreateModel" THEN DropTable(op, schema) ELSE schema

Backwards(op, schema) ==
  IF op.kind = "CreateModel" THEN DropTable(op, schema)
                             ELSE DropColumn(op, schema)
==============================================================================
