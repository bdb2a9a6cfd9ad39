-------------------------- MODULE MCMigrationEngine --------------------------
(* Instances of MigrationEngine for TLC: small migration histories.         *)
EXTENDS MigrationEngine

CONSTANTS s1, s2, s3

Tables == {"cot__migrations", "parent", "child", "pet"}
Columns == {"id", "ref", "extra"}

Create(table, columns, references) ==
  [kind |-> "CreateModel", table |-> table, columns |-> columns,
   references |-> references, ifNotExists |-> FALSE]
Add(table, column) ==
  [kind |-> "AddField", table |-> table, column |-> column, references |-> {}]

CreateParent == Create("parent", {"id"}, {})
CreateChild == Create("child", {"id", "ref"}, {<<"ref", "parent">>})
CreatePet == Create("pet", {"id", "ref"}, {<<"ref", "child">>})
AddExtra == Add("parent", "extra")

(* One operation each, with one migration that has none.                    *)
SingleOperations == << <<CreateParent>>, <<>>, <<CreateChild>>, <<AddExtra>> >>

(* As above, but the last migration has several operations.                 *)
SeveralOperations == << <<CreateParent>>, <<CreateChild, AddExtra>> >>

(* A second operation makes what a later migration refers to, or changes.   *)
ReferredTo == << <<CreateParent, CreateChild>>, <<AddExtra>>, <<CreatePet>> >>
Changed == << <<CreateParent, CreateChild>>, <<Add("child", "extra")>>, <<AddExtra>> >>

OneHistory == {SingleOperations}
HistoryOfSeveral == {SeveralOperations}
AllHistories == {SingleOperations, SeveralOperations, ReferredTo, Changed}

(* What the theorems about the engine suppose of the migrations.            *)
ASSUME Hypotheses == PlainFirstOperations /\ NeededAreCreatedBefore
==============================================================================
