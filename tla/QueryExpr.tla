------------------------------ MODULE QueryExpr ------------------------------
(***************************************************************************)
(* query!(Model, ...): how the macro reads the expression                  *)
(* (src/cot-codegen/src/expr.rs), which code it puts in its place          *)
(* (src/cot-macros/src/query.rs), which Expr that code builds when it runs *)
(* (src/cot/src/db/query.rs), and the rows that a database selects by it.  *)
(*                                                                         *)
(* An expression is a sequence of tokens: "(", ")", operators, fields of   *)
(* the model, method calls (one token each) and literals or variables.     *)
(***************************************************************************)
EXTENDS DbNumber, SequencesExt

CONSTANTS
  Value,   \* the values of literals and variables: numbers, None, or AutoValue for the key of
           \* a model that was not saved
  Fields,  \* "$name" of each field of the model
  Unsigned \* those of an unsigned type

ASSUME QueryAssumption ==
  Fields \cap DOMAIN Value = {} /\ Unsigned \subseteq Fields

Arithmetic == {"*", "/", "+", "-"}
Comparison == {"==", "!=", "<", "<=", ">", ">="}
Operators == Arithmetic \cup Comparison \cup {"&&", "||"}
Methods == {".pow2()"}

Node(op, args) == [op |-> op, args |-> args]
Leaf(token) == Node(token, <<>>)
Invalid == Leaf("invalid")

-----------------------------------------------------------------------------
(* Expr::parse_impl: precedence climbing.                                   *)
LeftToRight(priority) == [left |-> 2 * priority - 1, right |-> 2 * priority]
RightToLeft(priority) == [left |-> 2 * priority, right |-> 2 * priority - 1]
(* Mutant: && and || bind alike.                                            *)
FlatPriority(op) ==
  CASE op \in {"*", "/"} -> LeftToRight(9)
    [] op \in {"+", "-"} -> LeftToRight(8)
    [] op \in Comparison -> RightToLeft(3)
    [] op \in {"&&", "||"} -> LeftToRight(1)
infix_binding_priority(op) ==
  CASE op \in {"*", "/"} -> LeftToRight(9)
    [] op \in {"+", "-"} -> LeftToRight(8)
    [] op \in Comparison -> RightToLeft(3)
    [] op = "&&" -> LeftToRight(2)
    [] op = "||" -> LeftToRight(1)

Parsed(tree, rest) == [tree |-> tree, rest |-> rest]
Failed(rest) == Parsed(Invalid, rest)
IsEmpty(input) == input = <<>> \/ Head(input) = ")"

RECURSIVE parse_impl(_, _), parse_loop(_, _, _)
parse_impl(input, min) ==
  CASE IsEmpty(input) -> Failed(input)
    [] ~IsEmpty(input) /\ Head(input) = "(" ->
         LET content == parse_impl(Tail(input), 0)
         IN IF content.tree = Invalid \/ content.rest = <<>> THEN Failed(<<>>)
            ELSE parse_loop(content.tree, Tail(content.rest), min)
    [] ~IsEmpty(input) /\ Head(input) \in Fields \cup DOMAIN Value ->
         parse_loop(Leaf(Head(input)), Tail(input), min)
    [] OTHER -> Failed(input)
parse_loop(lhs, input, min) ==
  IF IsEmpty(input) THEN Parsed(lhs, input)
  ELSE LET op == Head(input)
       IN CASE op \in Methods -> parse_loop(Node(op, <<lhs>>), Tail(input), min)
            [] op \in Operators ->
                 IF infix_binding_priority(op).left < min THEN Parsed(lhs, input)
                 ELSE LET rhs == parse_impl(Tail(input), infix_binding_priority(op).right)
                      IN IF rhs.tree = Invalid THEN rhs
                         ELSE parse_loop(Node(op, <<lhs, rhs.tree>>), rhs.rest, min)
            [] OTHER -> Failed(input)

parse(text) == LET parsed == parse_impl(text, 0)
               IN IF parsed.rest = <<>> THEN parsed.tree ELSE Invalid

-----------------------------------------------------------------------------
(* Expr::as_tokens, for an expression without fields.                       *)
RECURSIVE Parts(_), as_tokens(_)
Parts(expr) == {expr} \cup UNION {Parts(expr.args[k]) : k \in DOMAIN expr.args}
HasField(expr) == \E part \in Parts(expr) : part.op \in Fields
as_tokens(expr) ==
  CASE Len(expr.args) = 0 -> <<expr.op>>
    [] Len(expr.args) = 1 -> Append(as_tokens(expr.args[1]), expr.op)
    [] Len(expr.args) = 2 -> as_tokens(expr.args[1]) \o <<expr.op>> \o as_tokens(expr.args[2])

(* How rustc reads an expression: the operator that is carried out last is  *)
(* the last one of those that bind least, outside parentheses.              *)
Depth(text, k) == Cardinality({i \in 1..k : text[i] = "("}) - Cardinality({i \in 1..k : text[i] = ")"})
Outside(text, ops) == {k \in DOMAIN text : text[k] \in ops /\ Depth(text, k) = 0}
RECURSIVE Rust(_)
Rust(text) ==
  LET n == Len(text)
      split(k) == LET lhs == Rust(SubSeq(text, 1, k - 1))
                      rhs == Rust(SubSeq(text, k + 1, n))
                  IN IF Invalid \in {lhs, rhs} THEN Invalid ELSE Node(text[k], <<lhs, rhs>>)
      last(ops) == Max(Outside(text, ops))
  IN CASE n = 0 -> Invalid
       [] n > 0 /\ Outside(text, {"||"}) # {} -> split(last({"||"}))
       [] n > 0 /\ Outside(text, {"||"}) = {} /\ Outside(text, {"&&"}) # {} -> split(last({"&&"}))
       [] n > 0 /\ Outside(text, {"||", "&&"}) = {} /\ Outside(text, Comparison) # {} ->
            IF Cardinality(Outside(text, Comparison)) = 1 THEN split(last(Comparison)) ELSE Invalid
       [] n > 0 /\ Outside(text, Operators \ Arithmetic) = {} /\ Outside(text, {"+", "-"}) # {} ->
            split(last({"+", "-"}))
       [] n > 0 /\ Outside(text, Operators \ {"*", "/"}) = {} /\ Outside(text, {"*", "/"}) # {} ->
            split(last({"*", "/"}))
       [] n > 0 /\ Outside(text, Operators) = {} ->
            IF text[n] \in Methods THEN LET of == Rust(SubSeq(text, 1, n - 1))
                                        IN IF of = Invalid THEN Invalid ELSE Node(text[n], <<of>>)
            ELSE IF text[1] = "(" /\ text[n] = ")" THEN Rust(SubSeq(text, 2, n - 1))
            ELSE IF n = 1 /\ text[1] \in Fields \cup DOMAIN Value THEN Leaf(text[1])
            ELSE Invalid

-----------------------------------------------------------------------------
(* query_to_tokens.  What the macro writes is code that builds an Expr:     *)
(* "field" and "value" (with the tokens between its parentheses) are its    *)
(* leaves.  Invalid stands for what is refused, by the macro or by rustc.   *)
Built(op, lhs, rhs) == IF Invalid \in {lhs, rhs} THEN Invalid ELSE Node(op, <<lhs, rhs>>)
ValueOf(field, tokens) == [op |-> "value", args |-> <<>>, field |-> field, tokens |-> tokens]
RECURSIVE expr_to_tokens(_)
handle_binary_comparison(op, lhs, rhs) ==
  IF lhs.op \in Fields /\ ~HasField(rhs)
  THEN Built(op, lhs, ValueOf(lhs.op, as_tokens(rhs)))
  ELSE Built(op, expr_to_tokens(lhs), expr_to_tokens(rhs))
(* An expression without a field is put there as it is, and is not an Expr: *)
(* that does not compile.                                                   *)
expr_to_tokens(expr) ==
  CASE expr = Invalid \/ ~HasField(expr) \/ Len(expr.args) = 1 -> Invalid
    [] expr.op \in Fields -> expr
    [] expr.op \in {"&&", "||"} ->
         Built(expr.op, expr_to_tokens(expr.args[1]), expr_to_tokens(expr.args[2]))
    [] expr.op \in Arithmetic \cup Comparison ->
         handle_binary_comparison(expr.op, expr.args[1], expr.args[2])
query(text) == expr_to_tokens(parse(text))

-----------------------------------------------------------------------------
(* What the code computes for a number: none is defined when it overflows. *)
Undefined == -1
Within(n) == IF n \in 0..(Limit - 1) THEN n ELSE Undefined
RECURSIVE Number(_, _)
Number(tree, row) ==
  LET a == Number(tree.args[1], row)
      b == Number(tree.args[2], row)
  IN CASE tree.op \in Fields -> row[tree.op]
       [] tree.op \in DOMAIN Value -> Value[tree.op]
       [] tree.op \in Methods -> IF a = Undefined THEN a ELSE Within(a * a)
       [] tree.op \in Arithmetic ->
            IF Undefined \in {a, b} \/ (tree.op = "/" /\ b = 0) THEN Undefined
            ELSE Within(CASE tree.op = "+" -> a + b [] tree.op = "-" -> a - b
                          [] tree.op = "*" -> a * b [] tree.op = "/" -> a \div b)

(* Whether a row is meant by an expression, as Rust would read it.             *)
RECURSIVE Means(_, _)
Means(tree, row) ==
  LET a == Number(tree.args[1], row)
      b == Number(tree.args[2], row)
  IN CASE tree.op = "&&" -> Means(tree.args[1], row) /\ Means(tree.args[2], row)
       [] tree.op = "||" -> Means(tree.args[1], row) \/ Means(tree.args[2], row)
       [] tree.op = "==" -> a = b
       [] tree.op = "!=" -> a # b
       [] tree.op = "<" -> a < b
       [] tree.op = "<=" -> a <= b
       [] tree.op = ">" -> a > b
       [] tree.op = ">=" -> a >= b
(* Expr::value panics for the key of a model that was not saved.               *)
BuildPanics(expr) ==
  \E part \in Parts(expr) : part.op = "value" /\ Number(Rust(part.tokens), <<>>) = AutoValue

(* What the database makes of as_sea_query_expr: a quotient <<n, d>> for a     *)
(* number, NULL (None), and three truth values.  MySQL's / does not round.     *)
Over(n, d) == IF d < 0 THEN <<-n, -d>> ELSE <<n, d>>
Rounded(n, d) == IF n < 0 THEN <<-((-n) \div d), 1>> ELSE <<n \div d, 1>>
Quotient(backend, a, b) ==
  IF b[1] = 0 THEN None
  ELSE LET q == Over(a[1] * b[2], a[2] * b[1])
       IN IF backend = "mysql" THEN q ELSE Rounded(q[1], q[2])
RECURSIVE SqlNumber(_, _, _), SqlTruth(_, _, _)
SqlNumber(backend, expr, row) ==
  LET a == SqlNumber(backend, expr.args[1], row)
      b == SqlNumber(backend, expr.args[2], row)
      of(n) == IF n = None THEN None ELSE <<n, 1>>
  IN CASE expr.op \in Fields -> of(row[expr.op])
       [] expr.op = "value" ->
            LET n == Number(Rust(expr.tokens), <<>>)
            IN of(IF expr.field \in Unsigned THEN prepare_values(backend, n) ELSE n)
       [] expr.op \in Arithmetic ->
            IF None \in {a, b} THEN None
            ELSE CASE expr.op = "+" -> <<a[1] * b[2] + b[1] * a[2], a[2] * b[2]>>
                   [] expr.op = "-" -> <<a[1] * b[2] - b[1] * a[2], a[2] * b[2]>>
                   [] expr.op = "*" -> <<a[1] * b[1], a[2] * b[2]>>
                   [] expr.op = "/" -> Quotient(backend, a, b)
Compare(op, m, n) ==
  CASE op = "==" -> m = n [] op = "!=" -> m # n [] op = "<" -> m < n
    [] op = "<=" -> m <= n [] op = ">" -> m > n [] op = ">=" -> m >= n
SqlTruth(backend, expr, row) ==
  IF expr.op \in Comparison
  THEN LET a == SqlNumber(backend, expr.args[1], row)
           b == SqlNumber(backend, expr.args[2], row)
       IN IF None \in {a, b} THEN None ELSE Compare(expr.op, a[1] * b[2], b[1] * a[2])
  ELSE LET all == {SqlTruth(backend, expr.args[k], row) : k \in DOMAIN expr.args}
           decides == expr.op = "||"
       IN IF decides \in all THEN decides ELSE IF None \in all THEN None ELSE ~decides
===============================================================================
