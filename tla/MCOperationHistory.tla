-------------------------- MODULE MCOperationHistory --------------------------
(* Instances of OperationHistory for TLC.                                   *)
EXTENDS OperationHistory

Tables == {"parent", "child", "other", "audit"}
Columns == {"id", "ref", "extra"}

Create(table, references) ==
  [kind |-> "CreateModel", table |-> table,
   columns |-> {"id"} \cup {r[1] : r \in references},
   references |-> references, ifNotExists |-> FALSE]
Add(table, column, references) ==
  [kind |-> "AddField", table |-> table, column |-> column,
   references |-> references]

(* What the CLI writes: plain creates, with and without foreign keys (also  *)
(* to themselves), and fields added to them.                                *)
PlainOperations == {Create("parent", {}), Create("child", {<<"ref", "parent">>}),
          Create("other", {<<"ref", "other">>, <<"extra", "child">>}),
          Create("audit", {}), Add("parent", "extra", {}),
          Add("parent", "ref", {}), Add("child", "extra", {})}

(* The same table again, only if it does not exist.                         *)
WithIfNotExists ==
  PlainOperations \cup {[Create("parent", {}) EXCEPT !.ifNotExists = TRUE]}

(* A field with a foreign key, added later.                                 *)
WithAddedKey == PlainOperations \cup {Add("audit", "ref", {<<"ref", "child">>})}
==============================================================================
