--------------------------------- MODULE Orm ---------------------------------
(***************************************************************************)
(* The statements of the ORM (src/cot/src/db.rs) and foreign keys          *)
(* (db/relations.rs, db/fields.rs) on the three databases, for tasks that  *)
(* share one database.                                                     *)
(*                                                                         *)
(* Two models: Author has a generated key (Auto) and a unique number, Book *)
(* has a generated key and an Option<ForeignKey<Author>>.  A statement is  *)
(* atomic; what the code does between two statements is in memory.         *)
(***************************************************************************)
EXTENDS DbNumber, FiniteSetsExt, Sequences

Model == {"Author", "Book"}
Backend == {"sqlite", "postgres", "mysql"}
(* ForeignKeyOnDeletePolicy and ForeignKeyOnUpdatePolicy.                   *)
OnChange == {"NoAction", "Restrict", "Cascade", "SetNone"}
Policy == [on_delete : OnChange, on_update : OnChange]

CONSTANTS
  Task, Keys, Numbers,
  Policies,  \* what foreign keys may do; see policy
  GivenKeys, \* the keys that a program gives to new objects
  Starts,    \* what may be in the tables at the beginning: inserted without keys
  MaxCalls   \* bound: calls of each task

ASSUME OrmAssumption ==
  /\ GivenKeys \subseteq Keys /\ Keys \subseteq Nat \ {0}
  /\ Numbers \subseteq 0..(Limit - 1)
  /\ Policies \subseteq Policy
  /\ MaxCalls \in Nat
  /\ \A tables \in Starts :
       /\ tables \in [Author : Seq(Numbers), Book : Seq(Nat \cup {None})]
       /\ \A i, j \in DOMAIN tables.Author : tables.Author[i] = tables.Author[j] => i = j
       /\ \A b \in DOMAIN tables.Book : tables.Book[b] \in {None} \cup DOMAIN tables.Author


VARIABLES
  backend,  \* DatabaseImpl
  policy,   \* what the foreign key does when its author goes, and when it gets another key
  rows,     \* the tables: from keys to the other column, as it is stored
  counter,  \* the next generated key of each table
  object,   \* the object that each task has in memory, or None
  call,     \* its last call: its name, the object it was given, and its result
  inserted, \* on MySQL, between INSERT and SELECT: the last inserted row id
  calls     \* how many calls it has left
vars == <<backend, policy, rows, counter, object, call, inserted, calls>>

(* The value of a column in memory: an author's number; a book's link, that *)
(* is None, a ForeignKey::PrimaryKey, or a ForeignKey::Model.               *)
Plain(kind, key, number) == [kind |-> kind, key |-> key, number |-> number]
Numbered(n) == Plain("number", None, n)
NoLink == Plain("none", None, None)
PrimaryKey(key) == Plain("key", key, None)
Held(key, number) == Plain("model", key, number)
Object(model, key, value) == [model |-> model, key |-> key, value |-> value]
Call(op, o, result) == [op |-> op, object |-> o, result |-> result]

(* The tables after inserts without keys.                                   *)
Holds(tables) ==
  /\ rows = [Author |-> [k \in DOMAIN tables.Author |-> prepare_values(backend, tables.Author[k])],
             Book |-> tables.Book]
  /\ counter = [m \in Model |-> Len(tables[m]) + 1]
NoCalls ==
  /\ object = [t \in Task |-> None]
  /\ call = [t \in Task |-> Call("none", None, "ok")]
  /\ inserted = [t \in Task |-> None]
  /\ calls = [t \in Task |-> MaxCalls]
Init ==
  /\ backend \in Backend /\ policy \in Policies
  /\ NoCalls
  /\ \E tables \in Starts : Holds(tables)

-----------------------------------------------------------------------------
(* Mutant: a link to a model in memory is not written.                      *)
StoreUnlinked(value) ==
  IF value.kind = "number" THEN prepare_values(backend, value.number)
  ELSE IF value.kind = "model" THEN None ELSE value.key
(* to_db_field_value; AutoValue is DbFieldValue::Auto.                      *)
to_db_field_value(value) ==
  IF value.kind = "number" THEN prepare_values(backend, value.number) ELSE value.key
(* A foreign key is read as its key, never as a model.                      *)
from_db(model, column) ==
  IF model = "Author" THEN Numbered(from_db_value(column))
  ELSE IF column = None THEN NoLink ELSE PrimaryKey(column)

(* The database.  What a statement leaves must be valid, or it is an error. *)
IsValid(tables) ==
  /\ \A i, j \in DOMAIN tables["Author"] : tables["Author"][i] = tables["Author"][j] => i = j
  /\ \A b \in DOMAIN tables["Book"] : tables["Book"][b] \in {None} \cup DOMAIN tables["Author"]
Without(table, keys) == [k \in DOMAIN table \ keys |-> table[k]]
With(table, key, column) ==
  [k \in DOMAIN table \cup {key} |-> IF k = key THEN column ELSE table[k]]
LinkedTo(key) == {b \in DOMAIN rows["Book"] : rows["Book"][b] = key}

(* The foreign key's policy: an author gets another key, or goes.  NO       *)
(* ACTION and RESTRICT both leave the books: IsValid refuses the statement. *)
Stays == {"NoAction", "Restrict"}
Rekeyed(from, to, column) ==
  [Author |-> With(Without(rows["Author"], {from}), to, column),
   Book |-> [b \in DOMAIN rows["Book"] |->
               IF b \notin LinkedTo(from) THEN rows["Book"][b]
               ELSE CASE policy.on_update \in Stays -> from [] policy.on_update = "Cascade" -> to
                      [] policy.on_update = "SetNone" -> None]]
Deleted(model, keys) ==
  IF model = "Book" THEN [rows EXCEPT !["Book"] = Without(@, keys)]
  ELSE LET linked == UNION {LinkedTo(k) : k \in keys}
       IN [Author |-> Without(rows["Author"], keys),
           Book |-> CASE policy.on_delete \in Stays -> rows["Book"]
                      [] policy.on_delete = "Cascade" -> Without(rows["Book"], linked)
                      [] policy.on_delete = "SetNone" ->
                           [b \in DOMAIN rows["Book"] |-> IF b \in linked THEN None ELSE rows["Book"][b]]]

(* INSERT, or with ON CONFLICT / ON DUPLICATE KEY UPDATE: the row that it   *)
(* leaves and the tables.  MySQL does not ask on which key the conflict is. *)
NewKey(o) == IF o.key = AutoValue THEN counter[o.model] ELSE o.key
Clash(o) ==
  LET same == {j \in DOMAIN rows["Author"] : rows["Author"][j] = to_db_field_value(o.value)}
  IN IF NewKey(o) \in DOMAIN rows[o.model] THEN NewKey(o)
     ELSE IF backend = "mysql" /\ o.model = "Author" /\ same # {} THEN Max(same) ELSE None
HasColumns(o) == o.key # AutoValue \/ to_db_field_value(o.value) # AutoValue
(* Mutant: ON CONFLICT whether it is an update or not.                      *)
AlwaysUpdates(o, update) == HasColumns(o)
Updates(o, update) == update /\ HasColumns(o)
Statement(o, update) ==
  LET column == to_db_field_value(o.value)
      clash == Clash(o)
      to == IF o.key = AutoValue THEN clash ELSE o.key
      kept == IF column = AutoValue THEN rows[o.model][clash] ELSE column
  IN IF clash = None
     THEN [key |-> NewKey(o), clash |-> FALSE,
           rows |-> [rows EXCEPT ![o.model] = With(@, NewKey(o), IF column = AutoValue THEN None ELSE column)]]
     ELSE [key |-> to, clash |-> ~Updates(o, update),
           rows |-> IF to = clash THEN [rows EXCEPT ![o.model] = With(@, to, kept)]
                    ELSE Rekeyed(clash, to, kept)]

(* Generated keys: PostgreSQL's sequence is used up by a statement that     *)
(* fails, and does not know of keys that were given.                        *)
Counted(o, fails) ==
  [counter EXCEPT ![o.model] =
     IF o.key = AutoValue THEN IF fails /\ backend = "sqlite" THEN @ ELSE @ + 1
     ELSE IF fails \/ backend = "postgres" \/ o.key < @ THEN @ ELSE o.key + 1]

-----------------------------------------------------------------------------
Idle(t) == inserted[t] = None /\ calls[t] > 0
(* The end of a call, and what its object is then.                          *)
Ends(t, op, given, result, left) ==
  /\ call' = [call EXCEPT ![t] = Call(op, given, result)]
  /\ object' = [object EXCEPT ![t] = left]
Counts(t) == calls' = [calls EXCEPT ![t] = @ - 1]

(* Mutant: RETURNING is used nowhere.                                       *)
NoReturning == FALSE
supports_returning == backend # "mysql"
HasAuto(o) == AutoValue \in {o.key, to_db_field_value(o.value)}
(* Mutant: only the key is read back.                                       *)
UpdateKey(o, key, column) == [o EXCEPT !.key = key]
(* Model::update_from_db: the columns that were Auto.                       *)
update_from_db(o, key, column) ==
  [o EXCEPT !.key = IF @ = AutoValue THEN key ELSE @,
            !.value = IF to_db_field_value(@) = AutoValue THEN from_db(o.model, column) ELSE @]

(* insert, save: insert_or_update_impl up to its first await.               *)
insert_or_update_impl(t, o, op) ==
  LET statement == Statement(o, op = "save")
      fails == statement.clash \/ ~IsValid(statement.rows)
      column == statement.rows[o.model][statement.key]
  IN /\ Idle(t) /\ Counts(t)
     /\ statement.key \in Keys
     /\ \/ /\ fails
           /\ counter' = Counted(o, TRUE)
           /\ Ends(t, op, o, "error", o) /\ UNCHANGED <<rows, inserted>>
        \/ /\ ~fails
           /\ counter' = Counted(o, FALSE) /\ rows' = statement.rows
           /\ \/ ~HasAuto(o) /\ Ends(t, op, o, "ok", o) /\ UNCHANGED inserted
              \/ /\ HasAuto(o) /\ supports_returning
                 /\ Ends(t, op, o, "ok", update_from_db(o, statement.key, column))
                 /\ UNCHANGED inserted
              \/ /\ HasAuto(o) /\ ~supports_returning
                 /\ inserted' = [inserted EXCEPT ![t] = [key |-> statement.key, others |-> calls]]
                 /\ Ends(t, op, o, "waits", o)
     /\ UNCHANGED <<backend, policy>>

(* The SELECT that stands in for RETURNING; expect() panics without a row.  *)
SelectInserted(t) ==
  LET o == object[t]
      key == inserted[t].key
  IN /\ inserted[t] # None
     /\ IF key \in DOMAIN rows[o.model]
        THEN Ends(t, call[t].op, call[t].object, "ok", update_from_db(o, key, rows[o.model][key]))
        ELSE Ends(t, call[t].op, call[t].object, "panic", o)
     /\ inserted' = [inserted EXCEPT ![t] = None]
     /\ UNCHANGED <<backend, policy, rows, counter, calls>>

(* update_impl.                                                             *)
update_impl(t, o) ==
  LET column == to_db_field_value(o.value)
      changed == [rows EXCEPT ![o.model] = With(@, o.key, column)]
      does == ~HasAuto(o) /\ o.key \in DOMAIN rows[o.model] /\ IsValid(changed)
  IN /\ Idle(t) /\ Counts(t)
     /\ rows' = IF does THEN changed ELSE rows
     /\ Ends(t, "update", o,
             CASE HasAuto(o) -> "panic"
               [] ~HasAuto(o) /\ o.key \notin DOMAIN rows[o.model] -> "RecordNotFound"
               [] ~HasAuto(o) /\ o.key \in DOMAIN rows[o.model] ->
                    IF IsValid(changed) THEN "ok" ELSE "error", o)
     /\ UNCHANGED <<backend, policy, counter, inserted>>

(* Query::delete, of the row with a key.                                    *)
DeleteKey(t, model, key) ==
  LET left == Deleted(model, {key})
  IN /\ Idle(t) /\ Counts(t)
     /\ key \in DOMAIN rows[model]
     /\ rows' = IF IsValid(left) THEN left ELSE rows
     /\ Ends(t, "delete", Object(model, key, NoLink), IF IsValid(left) THEN "ok" ELSE "error", object[t])
     /\ UNCHANGED <<backend, policy, counter, inserted>>

(* Model::get_by_primary_key, of a row that is there.                       *)
GetByKey(t, model, key) ==
  /\ Idle(t) /\ Counts(t)
  /\ key \in DOMAIN rows[model]
  /\ LET o == Object(model, key, from_db(model, rows[model][key]))
     IN Ends(t, "get", o, "ok", o)
  /\ UNCHANGED <<backend, policy, rows, counter, inserted>>

(* Mutant: the key of the object, not of its link.                          *)
OwnKey(o) == o.key
LinkKey(o) == o.value.key
(* ForeignKey::get, of the task's book.                                     *)
GetForeign(t) ==
  LET o == object[t]
  IN /\ Idle(t) /\ Counts(t)
     /\ o # None /\ o.value.kind = "key"
     /\ IF LinkKey(o) = AutoValue THEN Ends(t, "foreign", o, "panic", o)
        ELSE IF LinkKey(o) \notin DOMAIN rows["Author"]
        THEN Ends(t, "foreign", o, "ForeignKeyNotFound", o)
        ELSE Ends(t, "foreign", o, "ok",
                  [o EXCEPT !.value = Held(LinkKey(o), from_db_value(rows["Author"][LinkKey(o)]))])
     /\ UNCHANGED <<backend, policy, rows, counter, inserted>>

-----------------------------------------------------------------------------
(* What a program passes: a new object, whose link may be to an author that *)
(* it has, or to one that it has not saved; or the object it has, changed.  *)
Links(t) ==
  {NoLink, PrimaryKey(AutoValue), Held(AutoValue, 0)}
    \cup IF object[t] # None /\ object[t].model = "Author"
         THEN {PrimaryKey(object[t].key), Held(object[t].key, object[t].value.number)} ELSE {}
New(t) ==
  {Object("Author", key, Numbered(n)) : key \in {AutoValue} \cup GivenKeys, n \in Numbers}
    \cup {Object("Book", AutoValue, link) : link \in Links(t)}
Own(t) ==
  IF object[t] = None THEN {}
  ELSE {[object[t] EXCEPT !.value = v] :
          v \in {object[t].value} \cup IF object[t].model = "Author"
                                       THEN {Numbered(n) : n \in Numbers} ELSE Links(t)}

Write(t) ==
  \/ \E o \in New(t) \cup Own(t), op \in {"insert", "save"} : insert_or_update_impl(t, o, op)
  \/ \E o \in Own(t) : update_impl(t, o)
  \/ \E m \in Model : \E key \in DOMAIN rows[m] : DeleteKey(t, m, key)
Read(t) ==
  \/ \E m \in Model : \E key \in DOMAIN rows[m] : GetByKey(t, m, key)
  \/ GetForeign(t)
Next == \E t \in Task : Write(t) \/ SelectInserted(t) \/ Read(t)
Spec == Init /\ [][Next]_vars

-----------------------------------------------------------------------------
Changed(m, k) == k \in DOMAIN rows[m] => k \notin DOMAIN rows'[m] \/ rows'[m][k] # rows[m][k]
Acts(t) == call'[t] # call[t] \/ calls'[t] # calls[t]
Others(t) == \A u \in Task \ {t} : calls[u] = inserted[t].others[u]

(* insert changes no row that was there, and save only the row that has the *)
(* object's key: except that on MySQL it takes over the author that has the *)
(* same number, key and books included, and that on PostgreSQL the key that *)
(* is generated may belong to a row whose key was given.                    *)
OverwritesItsOwn ==
  [][\A t \in Task : Acts(t) /\ call'[t].op \in {"insert", "save"} =>
       LET o == call'[t].object
       IN \A m \in Model : \A k \in DOMAIN rows[m] : Changed(m, k) =>
            /\ call'[t].op = "save"
            /\ \/ m = o.model /\ k = o.key
               \/ m = o.model /\ backend = "postgres" /\ o.key = AutoValue /\ k = counter[m]
               \/ /\ backend = "mysql" /\ o.model = "Author"
                  /\ LET clash == {j \in DOMAIN rows["Author"] : rows["Author"][j] = o.value.number}
                     IN clash # {} /\ (IF m = "Author" THEN k \in clash ELSE rows[m][k] \in clash)]_vars

(* When insert, save or update has succeeded, the object has a key, and the *)
(* row with this key says what the object says; unless, on MySQL, another   *)
(* task came between the INSERT and the SELECT.                             *)
ObjectIsItsRow ==
  [][\A t \in Task :
       Acts(t) /\ call'[t].op \in {"insert", "save", "update"} /\ call'[t].result = "ok" =>
         LET o == object'[t]
         IN (inserted[t] # None => Others(t)) =>
              o.key \in DOMAIN rows'[o.model] /\ rows'[o.model][o.key] = to_db_field_value(o.value)]_vars

(* A call panics for one of two reasons: a key that is not there yet was    *)
(* put into an update or a foreign key; or, on MySQL, the row was deleted   *)
(* (or its key changed) before the SELECT.                                  *)
PanicsForAReason ==
  [][\A t \in Task : Acts(t) /\ call'[t].result = "panic" =>
       \/ call'[t].op \in {"update", "foreign"} /\ HasAuto(call'[t].object)
       \/ backend = "mysql" /\ inserted[t] # None /\ ~Others(t)]_vars

(* A book whose object has a link is stored without one only if that is the *)
(* link to an author who was not saved; and a stored link gets lost without *)
(* a write to the book only by the policy of the foreign key: on delete if  *)
(* the author went, on update if it got another key.                        *)
LinkLostForAReason ==
  [][\A b \in DOMAIN rows'["Book"] :
       rows'["Book"][b] = None /\ (b \in DOMAIN rows["Book"] => rows["Book"][b] # None) =>
         \E t \in Task :
           /\ Acts(t)
           /\ IF call'[t].object.model = "Book" THEN call'[t].object.value.key \in {None, AutoValue}
              ELSE /\ b \in DOMAIN rows["Book"] /\ rows["Book"][b] \notin DOMAIN rows'["Author"]
                   /\ "SetNone" = IF call'[t].op = "delete" THEN policy.on_delete ELSE policy.on_update]_vars

(* ForeignKey::get of a book does not find the author only when the book in *)
(* memory is not, or no longer, the book in the database.                   *)
NotFoundIsStale ==
  [][\A t \in Task : Acts(t) /\ call'[t].result = "ForeignKeyNotFound" =>
       LET o == call'[t].object
       IN o.key \notin DOMAIN rows["Book"] \/ rows["Book"][o.key] # o.value.key]_vars
===============================================================================
