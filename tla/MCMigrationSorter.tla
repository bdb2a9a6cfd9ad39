--------------------------- MODULE MCMigrationSorter ---------------------------
(* Instances of MigrationSorter for TLC.                                    *)
EXTENDS MigrationSorter, SequencesExt

Migrations(apps, names, dependencies, creates) ==
  [app : apps, name : names, dependencies : dependencies, creates : creates]

ByName(app, name) == [app |-> app, name |-> name]
ByModel(app, model) == [app |-> app, model |-> model]

(* Three migrations in two apps, in an order that is not theirs, with every *)
(* set of dependencies on each other, by name or through the model that the *)
(* first one creates (also the first one's own).                            *)
Known == {ByName(1, 1), ByName(1, 2), ByName(2, 1), ByModel(1, "m")}
Lists(S) == {SetToSeq(D) : D \in SUBSET S}
Combined ==
  {<<a, b, c>> : a \in Migrations({2}, {1}, Lists(Known), {<<>>}),
                 b \in Migrations({1}, {2}, Lists(Known), {<<>>}),
                 c \in Migrations({1}, {1}, Lists(Known), {<<"m">>})}

(* Up to three migrations of one app whose names and models may collide,    *)
(* one of them with a dependency, which may name nothing.                   *)
Colliding ==
  LET one == Migrations({1}, {1, 2, 3}, {<<>>, <<ByName(1, 2)>>, <<ByModel(1, "n")>>},
                        {<<>>, <<"m">>, <<"m", "n">>, <<"m", "m">>})
      free == Migrations({1}, {1, 2, 3}, {<<>>}, {<<>>, <<"n">>, <<"m">>})
  IN {<<>>} \cup {<<a>> : a \in one} \cup {<<a, b>> : a \in one, b \in free}
       \cup {<<a, b, c>> : a \in free, b \in free, c \in one}

AllInputs == Combined \cup Colliding
==============================================================================
