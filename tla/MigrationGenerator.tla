-------------------------- MODULE MigrationGenerator --------------------------
(***************************************************************************)
(* `cot make-migrations' (src/cot-cli/src/migration_generator.rs): a       *)
(* developer edits the models of an application and lets the CLI compare   *)
(* them with the models repeated in the migration files, and write the     *)
(* operations that lead from the ones to the others into a new file.       *)
(*                                                                         *)
(* A model's fields are its columns; the column of a foreign key is named  *)
(* by the model it points to, so a model has at most one to each.  The     *)
(* order of the operations matters only once toposort has chosen it: up to *)
(* then they are a set.                                                    *)
(***************************************************************************)
EXTENDS Naturals, Sequences, SequencesExt

CONSTANTS
  Model,      \* the application's model types
  External,   \* model types of other apps, targets of foreign keys
  Plain,      \* columns that are no foreign keys
  TableName,  \* the table of a model, as its #[model] attribute says
  DerivedName,\* the table named after the model's type
  CrateName,  \* the name in Cargo.toml
  AppName,    \* the option --app-name, or the crate's name
  MaxEdits, MaxMigrations

ASSUME NamesAreGiven == DOMAIN TableName = Model /\ DOMAIN DerivedName = Model
ASSUME ColumnsAreApart == Model \cap (Plain \cup External) = {}

VARIABLES
  source,      \* the models in the source: model -> columns
  files,       \* the migration files, in the order of their names
  pc,          \* the phase of make_migrations
  operations,  \* the operations generated so far
  cycle_edges, \* the edges remove_cycles has still to break
  edits,       \* how many edits the developer has made
  snapshot     \* the source as it was when the last file was written
vars == <<source, files, pc, operations, cycle_edges, edits, snapshot>>

CreateModel(m, columns) == [op |-> "CreateModel", model |-> m, columns |-> columns]
AddField(m, c) == [op |-> "AddField", model |-> m, columns |-> {c}]
(* The names of tables.                                                     *)
Tables == {TableName[m] : m \in Model} \cup {DerivedName[m] : m \in Model}

Init ==
  /\ source = <<>>
  /\ files = <<>>
  /\ pc = "idle"
  /\ operations = {}
  /\ cycle_edges = {}
  /\ edits = 0
  /\ snapshot = source

-----------------------------------------------------------------------------
(* The developer.  The source always compiles: a foreign key points to a    *)
(* model that is there.                                                     *)
Edit(models) ==
  /\ pc = "idle"
  /\ edits < MaxEdits
  /\ source' = models
  /\ edits' = edits + 1
  /\ UNCHANGED <<files, pc, operations, cycle_edges, snapshot>>

AddModel ==
  \E m \in Model \ DOMAIN source :
    Edit([n \in DOMAIN source \cup {m} |-> IF n = m THEN {} ELSE source[n]])

AddColumn ==
  \E m \in DOMAIN source : \E c \in (Plain \cup DOMAIN source \cup External) \ source[m] :
    Edit([source EXCEPT ![m] = @ \cup {c}])

RemoveColumn ==
  \E m \in DOMAIN source : \E c \in source[m] : Edit([source EXCEPT ![m] = @ \ {c}])

RemoveModel ==
  \E m \in DOMAIN source :
    /\ \A n \in DOMAIN source \ {m} : m \notin source[n]
    /\ Edit([n \in DOMAIN source \ {m} |-> source[n]])

-----------------------------------------------------------------------------
(* MigrationProcessor::latest_models: the last file that repeats a table    *)
(* has its latest version.                                                  *)
latest_models ==
  LET repeated(t) == {k \in DOMAIN files : t \in DOMAIN files[k].models}
      last(t) == CHOOSE k \in repeated(t) : \A j \in repeated(t) : j <= k
  IN [t \in {u \in Tables : repeated(u) # {}} |-> files[last(t)].models[t]]

(* generate_operations: CreateModel for a new table, AddField for a column  *)
(* that the latest version does not have.                                   *)
generate_operations ==
  LET new == {m \in DOMAIN source : TableName[m] \notin DOMAIN latest_models}
      added(m) == source[m] \ latest_models[TableName[m]]
  IN {CreateModel(m, source[m]) : m \in new}
       \cup UNION {{AddField(m, c) : c \in added(m)} : m \in DOMAIN source \ new}

(* What make_remove_model_operation and make_remove_field_operation would   *)
(* be called for: both are todo!().                                         *)
Removed ==
  \E t \in DOMAIN latest_models :
    \/ \A m \in DOMAIN source : TableName[m] # t
    \/ \E m \in DOMAIN source : TableName[m] = t /\ ~(latest_models[t] \subseteq source[m])

(* get_ops_adding_foreign_keys: the models an operation needs.              *)
ForeignKeys(o) ==
  (o.columns \ Plain) \cup (IF o.op = "AddField" THEN {o.model} ELSE {})

Creates(ops) == {o \in ops : o.op = "CreateModel"}

(* construct_dependency_graph: an edge from the operation that creates a    *)
(* model to each that has a foreign key to it.                              *)
Edges(ops) == {e \in Creates(ops) \X ops : e[1].model \in ForeignKeys(e[2])}

(* petgraph's greedy_feedback_arc_set returns the edges that go backwards   *)
(* in an order of the nodes, self-loops included; an AddField has no edge   *)
(* out of it and comes last.                                                *)
FeedbackArcSets(ops) ==
  LET nodes == {o.model : o \in Creates(ops)}
      between == {<<e[1].model, e[2].model>> : e \in Edges(ops) \cap (ops \X Creates(ops))}
      before(order, x, y) ==
        \E j, k \in DOMAIN order : order[j] = x /\ order[k] = y /\ j < k
  IN {{e \in between : ~before(order, e[1], e[2])} : order \in SetToSeqs(nodes)}

(* generate_migrations up to remove_cycles.                                 *)
Compare ==
  /\ pc = "idle"
  /\ Len(files) < MaxMigrations
  /\ \/ /\ Removed
        /\ pc' = "panicked"
        /\ UNCHANGED <<operations, cycle_edges>>
     \/ /\ ~Removed
        /\ generate_operations # {}
        /\ operations' = generate_operations
        /\ cycle_edges' \in FeedbackArcSets(generate_operations)
        /\ pc' = "remove_cycles"
  /\ UNCHANGED <<source, files, edits, snapshot>>

(* Mutants: the fields are dropped; they stay in the CreateModel too.       *)
DropDependency(ops, from, to) ==
  {IF o = CreateModel(from, o.columns) THEN CreateModel(from, o.columns \ {to}) ELSE o :
     o \in ops}
RepeatDependency(ops, from, to) ==
  ops \cup {AddField(from, to) : o \in {p \in Creates(ops) : p.model = from /\ to \in p.columns}}

(* remove_dependency: the foreign keys of the CreateModel "from" to the     *)
(* model "to" become AddFields.                                             *)
remove_dependency(ops, from, to) ==
  LET moving == {o \in Creates(ops) : o.model = from /\ to \in o.columns}
  IN (ops \ moving)
       \cup {CreateModel(from, o.columns \ {to}) : o \in moving}
       \cup {AddField(from, to) : o \in moving}

(* One iteration of the loop in remove_cycles.  An edge goes from the model *)
(* that is needed to the one that needs it.                                 *)
RemoveCycle ==
  /\ pc = "remove_cycles"
  /\ \/ \E e \in cycle_edges :
          /\ operations' = remove_dependency(operations, e[1], e[2])
          /\ cycle_edges' = cycle_edges \ {e}
          /\ UNCHANGED pc
     \/ /\ cycle_edges = {}
        /\ pc' = "toposort"
        /\ UNCHANGED <<operations, cycle_edges>>
  /\ UNCHANGED <<source, files, edits, snapshot>>

(* Mutant: the operations are taken as they come.                           *)
AnyOrder(ops) == SetToSeqs(ops)

(* petgraph's toposort returns one of these, or fails if there is none.     *)
TopologicalOrders(ops) ==
  {order \in SetToSeqs(ops) :
     \A j, k \in DOMAIN order : <<order[j], order[k]>> \in Edges(ops) => j < k}

(* Mutant: no dependency on a model that an earlier file creates.           *)
LastFileOnly(ops) ==
  IF files = <<>> THEN {} ELSE {[app |-> CrateName, number |-> files[Len(files)].number]}

(* base_dependencies and get_foreign_key_dependencies.  The CLI knows the   *)
(* files of the crate by the crate's name.                                  *)
Dependencies(ops) ==
  (IF files = <<>> THEN {} ELSE {[app |-> CrateName, number |-> files[Len(files)].number]})
    \cup {[model |-> m] :
            m \in (UNION {ForeignKeys(o) : o \in ops}) \ {o.model : o \in Creates(ops)}}

next_migration_name == IF files = <<>> THEN 1 ELSE files[Len(files)].number + 1

(* model_to_migration_model: the attributes of a model are cleared, so its  *)
(* copy has the table named after its type.  Every model is repeated: a     *)
(* model and its copy differ in name and type at least.                     *)
modified_models ==
  [t \in {DerivedName[m] : m \in DOMAIN source} |->
     source[CHOOSE m \in DOMAIN source : DerivedName[m] = t]]

(* toposort_operations, get_foreign_key_dependencies and write_migration.   *)
Write ==
  /\ pc = "toposort"
  /\ \/ /\ TopologicalOrders(operations) = {}
        /\ pc' = "panicked"
        /\ UNCHANGED <<files, operations, snapshot>>
     \/ /\ \E order \in TopologicalOrders(operations) :
             files' = Append(files, [app |-> AppName,
                                     number |-> next_migration_name,
                                     dependencies |-> Dependencies(operations),
                                     operations |-> order,
                                     models |-> modified_models])
        /\ operations' = {}
        /\ snapshot' = source
        /\ pc' = "idle"
  /\ UNCHANGED <<source, cycle_edges, edits>>

Next ==
  \/ AddModel \/ AddColumn \/ RemoveColumn \/ RemoveModel
  \/ Compare \/ RemoveCycle \/ Write

Spec == Init /\ [][Next]_vars

-----------------------------------------------------------------------------
(* The operations of all files, in the order in which they are applied.     *)
AllOperations == FlattenSeq([k \in DOMAIN files |-> files[k].operations])

(* The columns that the first k operations leave in the table of m.         *)
ColumnsAfter(k, m) ==
  UNION {AllOperations[j].columns : j \in {i \in 1..k : AllOperations[i].model = m}}
CreatedAfter(k) ==
  {AllOperations[j].model : j \in {i \in 1..k : AllOperations[i].op = "CreateModel"}}

(* Every file can be applied after those before it, operation by operation: *)
(* a table is created once, a column is added once and to a table that      *)
(* exists, and a foreign key points to a table that exists or is its own.   *)
Replayable ==
  \A k \in DOMAIN AllOperations :
    LET o == AllOperations[k] IN
    /\ o.columns \cap Model \subseteq CreatedAfter(k - 1) \cup {o.model}
    /\ \/ o.op = "CreateModel" /\ o.model \notin CreatedAfter(k - 1)
       \/ /\ o.op = "AddField"
          /\ o.model \in CreatedAfter(k - 1)
          /\ o.columns \cap ColumnsAfter(k - 1, o.model) = {}

(* Replaying the files gives the models of the source they were generated   *)
(* from: no table and no column is lost or invented.                        *)
FilesLeadToSource ==
  /\ CreatedAfter(Len(AllOperations)) = DOMAIN snapshot
  /\ \A m \in DOMAIN snapshot : ColumnsAfter(Len(AllOperations), m) = snapshot[m]

(* make-migrations gives up (panics) when a model or a field is gone; and   *)
(* when foreign keys lead through three models or more back to the first,   *)
(* but never on two models that reference each other, or on one that        *)
(* references itself.  (Whoever follows next comes around, and in no fewer  *)
(* than three steps.)                                                       *)
OnlyGrown == \A m \in DOMAIN snapshot : m \in DOMAIN source /\ snapshot[m] \subseteq source[m]
LongCycle ==
  \E models \in SUBSET DOMAIN source :
    /\ models # {}
    /\ \E next \in [models -> models] :
         \A m \in models : next[m] \in source[m] /\ next[m] # m /\ next[next[m]] # m
PanicsAreKnown == pc = "panicked" => ~OnlyGrown \/ LongCycle

(* A file declares every model its operations need from elsewhere, and the  *)
(* file before it: the sorter can only put it where Replayable holds.       *)
DependenciesDeclared ==
  \A k \in DOMAIN files :
    /\ k > 1 => [app |-> files[k - 1].app, number |-> files[k - 1].number] \in files[k].dependencies
    /\ \A n \in DOMAIN files[k].operations :
         \A m \in ForeignKeys(files[k].operations[n]) :
           \/ [model |-> m] \in files[k].dependencies
           \/ \E j \in DOMAIN files[k].operations :
                files[k].operations[j].op = "CreateModel" /\ files[k].operations[j].model = m
==============================================================================
