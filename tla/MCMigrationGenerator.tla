------------------------- MODULE MCMigrationGenerator -------------------------
(* Instances of MigrationGenerator for TLC.  A table named after a model's  *)
(* type is the model itself, so permuting the models permutes the tables.   *)
EXTENDS MigrationGenerator, TLC

CONSTANTS a, b, c  \* the model types

TwoModels == {a, b}
ThreeModels == {a, b, c}
NamedAfterType == [m \in Model |-> m]
FirstIsNamed == [m \in Model |-> IF m = a THEN "custom" ELSE m]
Symmetry == Permutations(Model)
==============================================================================
