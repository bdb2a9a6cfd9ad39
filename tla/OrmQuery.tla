------------------------------- MODULE OrmQuery -------------------------------
(***************************************************************************)
(* Queries (src/cot/src/db/query.rs): Query::all, exists and delete with   *)
(* the filter that query! makes of an expression (QueryExpr), on the       *)
(* tables of Orm.                                                          *)
(***************************************************************************)
EXTENDS Orm, QueryExpr

CONSTANTS
  Texts,   \* what is queried with query!: a model and an expression
  Library  \* what is in the tables

VARIABLES
  asked,  \* the model and expression that are tried, or None
  answer  \* what the query did, the result, and the keys of the rows it selected
queryVars == <<vars, asked, answer>>

QueryInit ==
  /\ asked \in Texts /\ answer = None
  /\ backend \in Backend /\ policy = [on_delete |-> "Restrict", on_update |-> "Restrict"]
  /\ NoCalls /\ Holds(Library)

(* Query::all, exists and delete with the filter of query!.  It panics      *)
(* while the filter is built.                                               *)
Selected(model, expr) ==
  {k \in DOMAIN rows[model] :
     SqlTruth(backend, expr, "$id" :> k @@ "$of" :> rows[model][k]) = TRUE}
Answer(op, result, keys) == answer' = [op |-> op, result |-> result, keys |-> keys]
Queried(op) ==
  LET expr == query(asked.text)
      found == Selected(asked.model, expr)
      left == Deleted(asked.model, found)
  IN /\ asked # None /\ answer = None /\ expr # Invalid
     /\ \/ BuildPanics(expr) /\ Answer(op, "panic", {}) /\ UNCHANGED rows
        \/ /\ ~BuildPanics(expr)
           /\ rows' = IF op = "delete" /\ IsValid(left) THEN left ELSE rows
           /\ Answer(op, CASE op = "all" -> "ok" [] op = "exists" -> (IF found = {} THEN "no" ELSE "yes")
                           [] op = "delete" -> (IF IsValid(left) THEN "ok" ELSE "error"), found)
     /\ UNCHANGED <<backend, policy, counter, object, call, inserted, calls, asked>>

QueryNext == \E op \in {"all", "exists", "delete"} : Queried(op)
QuerySpec == QueryInit /\ [][QueryNext]_queryVars

(* The statements of Orm, or a query.                                       *)
ProgramInit == QueryInit \/ (asked = None /\ answer = None /\ Init)
ProgramNext ==
  \/ QueryNext
  \/ asked = None /\ Next /\ UNCHANGED <<asked, answer>>
ProgramSpec == ProgramInit /\ [][ProgramNext]_queryVars

-----------------------------------------------------------------------------
(* as_tokens writes no parentheses: whether the parts of an expression that *)
(* have no field are read by rustc as they were written.                    *)
ReadsBack(tree) == \A part \in Parts(tree) : HasField(part) \/ Rust(as_tokens(part)) = part
(* On PostgreSQL large numbers are negative: that is no matter where a      *)
(* field is compared for equality only.  MySQL's quotient is no integer.    *)
IsNumber(part) == part.op \notin Comparison \cup {"&&", "||"}
IsExact(tree, row) ==
  LET parts == {part \in Parts(tree) : HasField(part)}
      unsigned == {part \in parts : \E p \in Parts(part) : p.op \in Unsigned}
      IsSmall(part) == \A p \in Parts(part) : IsNumber(p) => Number(p, row) \in {None} \cup 0..(Limit \div 2 - 1)
  IN \A part \in parts :
       /\ backend = "postgres" /\ part \in unsigned /\ part.op \in Arithmetic \cup (Comparison \ {"==", "!="}) => IsSmall(part)
       /\ backend = "mysql" => part.op # "/"
IsUnsaved(token) == token \in DOMAIN Value /\ Value[token] = AutoValue
SelectsAsRead(IsOf(_)) ==
  LET tree == Rust(asked.text)
      Row(k) == "$id" :> k @@ "$of" :> from_db_value(rows[asked.model][k])
  IN answer' # answer =>
       /\ answer'.result = "panic" => \E k \in DOMAIN asked.text : IsUnsaved(asked.text[k])
       /\ answer'.result # "panic" /\ tree # Invalid /\ IsOf(tree) => \A k \in DOMAIN rows[asked.model] :
            LET values == {Number(part, Row(k)) : part \in {p \in Parts(tree) : IsNumber(p)}}
            IN Undefined \notin values /\ IsExact(tree, Row(k)) =>
                 /\ k \in answer'.keys => Means(tree, Row(k))
                 /\ None \notin values /\ Means(tree, Row(k)) => k \in answer'.keys

(* query! selects a row exactly if the expression is true of it as Rust     *)
(* reads it, wherever that has a value, and panics only for the key of a    *)
(* model that was not saved.  There are four exceptions: NULL is neither    *)
(* equal nor unequal to anything, not even to None; see ReadsBack and       *)
(* IsExact for the others.                                                  *)
SelectsWhatItSays == [][SelectsAsRead(ReadsBack)]_queryVars

(* The same without the exception that as_tokens makes: false.              *)
ParenthesesAreKept == [][SelectsAsRead(LAMBDA tree : TRUE)]_queryVars
===============================================================================
