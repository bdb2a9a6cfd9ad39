-------------------------------- MODULE MCOrm --------------------------------
(* Instances of Orm for TLC: two tasks, three bits for an integer; and      *)
(* expressions for OrmQuery, on a filled database.                          *)
EXTENDS OrmQuery

CONSTANTS t1, t2

Symmetry == Permutations({t1, t2})
(* Three that differ in what they do: NO ACTION and RESTRICT are the same.  *)
SomePolicies ==
  {[on_delete |-> "Restrict", on_update |-> "Cascade"],
   [on_delete |-> "Cascade", on_update |-> "SetNone"],
   [on_delete |-> "SetNone", on_update |-> "NoAction"]}
Shelves == {[Author |-> <<0>>, Book |-> <<1>>]}

(* "none" and "new" are variables: None, and the key of a new author.       *)
Values == ("1" :> 1) @@ ("2" :> 2) @@ ("3" :> 3) @@ ("5" :> 5) @@ ("none" :> None) @@ ("new" :> AutoValue)

SmallLibrary ==
  [Author |-> <<0, 1, 3, 5>>, Book |-> <<None, 1, 1, 3>>]
Authors(texts) == [model : {"Author"}, text : texts]
Books(texts) == [model : {"Book"}, text : texts]

(* Every expression of up to three operators from those that a filter can   *)
(* be made of, with and without parentheses.                                *)
Field == {"$id", "$of"}
Simple == {<<f, op, v>> : f \in Field, op \in Comparison, v \in {"1", "5"}}
Terms == {<<f, "==">> \o sum : f \in Field,
           sum \in {<<"$id", op, "2">> : op \in Arithmetic}
                \cup {<<"1", op, "2", up, "1">> : op \in {"+", "*"}, up \in Arithmetic}
                \cup {<<"$id", op, "(", "$of", up, "1", ")">> : op, up \in Arithmetic}
                \cup {<<"(", "$id", op, "1", ")", up, "$of">> : op, up \in {"+", "-", "*"}}}
Both == {a \o <<op>> \o b \o <<up>> \o c :
           a \in {<<"$id", ">", "1">>}, b \in {<<"$of", "==", "3">>, <<"$id", "!=", "$of">>},
           c \in {<<"$of", "<=", "1">>}, op, up \in {"&&", "||"}}
Grouped == {a \o <<op, "(">> \o b \o <<up>> \o c \o <<")">> :
           a \in {<<"$id", ">", "1">>}, b \in {<<"$of", "==", "3">>},
           c \in {<<"$of", "<=", "1">>}, op, up \in {"&&", "||"}}
Refused == {<<"$id">> \o <<".pow2()", "==", "1">>, <<"1", "==", "$id">>, <<"$id", "==", "1", "&&">>,
            <<"$id", "$of">>, <<"(", "$id", "==", "1">>, <<"$id", "+", "1", "==", "2">>}
Linked == {<<"$of", op, v>> : op \in {"==", "!="}, v \in {"1", "none", "new"}}
            \cup {<<"$of", "==", "none", "||", "$id", "==", "2">>}
Queries == Authors(Simple \cup Terms \cup Both \cup Grouped \cup Refused) \cup Books(Linked)

(* Parts without a field that have parentheses or a method.                 *)
Constants == {<<"$id", "==">> \o <<"(", "1", "+", "1", ")", "*", "2">>,
              <<"$id", "==", "5", "-", "(", "3", "-", "1", ")">>,
              <<"$id", "==", "2", ".pow2()">>, <<"$id", "==", "(", "1", "+", "1", ")", ".pow2()">>}
ConstantQueries == Authors(Constants) \cup Queries
==============================================================================
