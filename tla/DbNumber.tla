------------------------------- MODULE DbNumber -------------------------------
(***************************************************************************)
(* What a column can hold (src/cot/src/db/fields.rs): an integer, None, or *)
(* AutoValue, which the database is to generate.  PostgreSQL has no        *)
(* unsigned integers: they are cast to signed ones of the same width       *)
(* (prepare_values of db/impl_postgres.rs), and back when they are read.   *)
(***************************************************************************)
EXTENDS Integers

CONSTANTS
  None,
  AutoValue, \* DbFieldValue::Auto
  Width      \* bits of the unsigned integers

Limit == 2 ^ Width

ASSUME NumberAssumption ==
  /\ Width \in Nat \ {0} /\ Limit \in Nat \ {0}
  /\ None # AutoValue /\ None \notin Int /\ AutoValue \notin Int

prepare_values(backend, n) ==
  IF n # None /\ backend = "postgres" /\ n >= Limit \div 2 THEN n - Limit ELSE n
from_db_value(n) == IF n = None THEN None ELSE n % Limit
===============================================================================
