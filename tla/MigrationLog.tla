----------------------------- MODULE MigrationLog -----------------------------
(***************************************************************************)
(* What a reader of the MigrationEngine documentation may rely on,         *)
(* whatever servers run the engine and whenever they die: cot__migrations  *)
(* is a log of the migrations in dependency order, each written once and   *)
(* none skipped, that only ever grows.  Migrations without operations      *)
(* never enter it.                                                         *)
(***************************************************************************)
EXTENDS Naturals, Sequences

VARIABLES
  loggable,   \* the migrations to record: those that have at least one operation
  log         \* the migrations recorded so far

LogInit == loggable \subseteq Nat /\ log = <<>>

Logged(m) == \E i \in DOMAIN log : log[i] = m

Record(m) ==
  /\ ~Logged(m)
  /\ \A k \in loggable : k < m => Logged(k)
  /\ log' = Append(log, m)
  /\ UNCHANGED loggable

LogNext == \E m \in loggable : Record(m)

LogSpec == LogInit /\ [][LogNext]_<<loggable, log>>
==============================================================================
