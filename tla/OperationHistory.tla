--------------------------- MODULE OperationHistory ---------------------------
(***************************************************************************)
(* The two entry points of Operation (src/cot/src/db/migrations.rs) as a   *)
(* caller uses them: forwards, and later backwards of what was run last.   *)
(***************************************************************************)
EXTENDS Naturals, Sequences, SchemaOperation

CONSTANTS
  Available,  \* the operations the caller has
  MaxHistory  \* bound on the operations run and not yet undone

ASSUME AvailableType == Available \subseteq Operation
ASSUME MaxHistoryType == MaxHistory \in Nat

VARIABLES
  schema,   \* the database schema
  history   \* what was run and not undone, with the schema it was run on
vars == <<schema, history>>

Entry == [operation : Operation, before : Schema]

TypeOK == schema \in Schema /\ history \in Seq(Entry)

Init == schema = EmptySchema /\ history = <<>>

(* Operation::forwards returned Ok.  When it returns an error it has        *)
(* changed nothing: each operation is a single statement.                   *)
RunForwards(op) ==
  /\ Len(history) < MaxHistory
  /\ ForwardsSucceeds(op, schema)
  /\ schema' = Forwards(op, schema)
  /\ history' = Append(history, [operation |-> op, before |-> schema])

Last == history[Len(history)]

(* Operation::backwards of the operation run last.                          *)
RunBackwards ==
  /\ history # <<>>
  /\ BackwardsSucceeds(Last.operation, schema)
  /\ schema' = Backwards(Last.operation, schema)
  /\ history' = SubSeq(history, 1, Len(history) - 1)

Next == RunBackwards \/ \E op \in Available : RunForwards(op)

Spec == Init /\ [][Next]_vars

-----------------------------------------------------------------------------
(* Operations as the CLI writes them: no if_not_exists(), and a foreign key *)
(* belongs to one of the fields.                                            *)
Plain(op) ==
  op.kind = "CreateModel" =>
    ~op.ifNotExists /\ \A r \in op.references : r[1] \in op.columns

(* backwards is never refused to a caller that undoes in reverse order: no  *)
(* table still references the one that is dropped, whatever was created and *)
(* added to in between.                                                     *)
LastCanBeUndone ==
  history # <<>> => BackwardsSucceeds(Last.operation, schema)

(* "Runs the operation backwards, undoing the changes made by the forwards  *)
(* operation" (migrations.rs:406): the schema is the one from before,       *)
(* columns and foreign keys included, so a whole history can be unwound.    *)
BackwardsUndoes == [][RunBackwards => schema' = Last.before]_vars

(* A foreign key that a field declares is enforced once the operation that  *)
(* brings the field in has run ("Marks the field as a foreign key to the    *)
(* given model and field", migrations.rs:523).                              *)
DeclaredKeysEnforced ==
  \A i \in DOMAIN history :
    LET op == history[i].operation IN
    \A r \in op.references : <<op.table, r[1], r[2]>> \in schema.fks
==============================================================================
