----------------------------- MODULE PathMatcher -----------------------------
(***************************************************************************)
(* PathMatcher (src/cot/src/router/path.rs): a pattern such as             *)
(* "/users/{id}" is parsed once, at startup; a path is then matched        *)
(* against its parts, or built from them.  Texts are sequences of ASCII    *)
(* characters: the parser takes the indices of characters for those of     *)
(* bytes.                                                                  *)
(***************************************************************************)
EXTENDS Naturals, Sequences, SequencesExt

CONSTANTS Letter, Digit  \* the characters of names, "_" among the letters

Open == "{"
Close == "}"
Blank == " "
Char == Letter \cup Digit \cup {"/", Open, Close, Blank}
End == "end"
ASSUME CharAssumption ==
  /\ Letter \cap Digit = {}
  /\ (Letter \cup Digit) \cap {"/", Open, Close, Blank, End} = {}

Text(literal) == [literal |-> literal]
Param(name) == [name |-> name]
IsParam(part) == "name" \in DOMAIN part

Trimmed(text) ==
  LET kept == {i \in DOMAIN text : text[i] # Blank}
  IN  IF kept = {} THEN <<>> ELSE SubSeq(text, Min(kept), Max(kept))

IsParamNameValid(name) ==
  /\ name # <<>>
  /\ name[1] \in Letter
  /\ ToSet(name) \subseteq Letter \cup Digit

Panic(s, why) == [s EXCEPT !.state = "panic", !.parts = why]
InLiteral(s, start) == [s EXCEPT !.state = "literal", !.start = start]
InParam(s, start) == [s EXCEPT !.state = "param", !.start = start]
Pushed(s, part) == [s EXCEPT !.parts = Append(@, part)]

(* Mutant: "}}" is one brace in the pattern, and two in the path.           *)
ParseBraces(pattern, k, s) ==
  Pushed(InLiteral([s EXCEPT !.skip = TRUE], k + 2), Text(SubSeq(pattern, s.start, k + 1)))
(* "}}": the literal so far ends with one brace; the other one is skipped.  *)
ClosingBraces(pattern, k, s) ==
  Pushed(InLiteral([s EXCEPT !.skip = TRUE], k + 2), Text(SubSeq(pattern, s.start, k)))

(* One character of the pattern, or its end.                                *)
ParseChar(pattern, k, s) ==
  LET at(j) == IF j > Len(pattern) THEN End ELSE pattern[j]
      ch == at(k)
      text == SubSeq(pattern, s.start, k - 1)
      literal == s.state = "literal" /\ ~s.skip
      param == s.state = "param" /\ ~s.skip
  IN  CASE s.skip -> [s EXCEPT !.skip = FALSE]
        [] literal /\ ch \in {Open, End} /\ text # <<>> -> InParam(Pushed(s, Text(text)), k + 1)
        [] literal /\ ch \in {Open, End} /\ text = <<>> /\ (k = 1 \/ ch = End) -> InParam(s, k + 1)
        [] literal /\ ch = Open /\ text = <<>> /\ k # 1 -> Panic(s, "consecutive")
        [] param /\ ch = Open /\ s.start = k -> InLiteral(s, k)
        [] param /\ ch = Open /\ s.start # k -> Panic(s, "unclosed")
        [] literal /\ ch = Close /\ at(k + 1) = Close -> ClosingBraces(pattern, k, s)
        [] literal /\ ch = Close /\ at(k + 1) # Close -> Panic(s, "unopened")
        [] param /\ ch = Close ->
             IF IsParamNameValid(Trimmed(text))
               THEN InLiteral(Pushed(s, Param(Trimmed(text))), k + 1)
               ELSE Panic(s, "name")
        [] param /\ ch \in {"/", End} -> Panic(s, "unclosed")
        [] OTHER -> s

(* PathMatcher::new                                                         *)
Parse(pattern) ==
  LET after[k \in 0..Len(pattern) + 1] ==
        IF k = 0 THEN [state |-> "literal", start |-> 1, parts |-> <<>>, skip |-> FALSE]
        ELSE ParseChar(pattern, k, after[k - 1])
  IN  after[Len(pattern) + 1]
Panics(pattern) == Parse(pattern).state = "panic"
Parts(pattern) == Parse(pattern).parts

(* Display                                                                  *)
Escaped(text) == FlattenSeq([i \in DOMAIN text |->
                   IF text[i] \in {Open, Close} THEN <<text[i], text[i]>> ELSE <<text[i]>>])
Display(parts) ==
  FlattenSeq([i \in DOMAIN parts |->
    IF IsParam(parts[i]) THEN <<Open>> \o parts[i].name \o <<Close>> ELSE Escaped(parts[i].literal)])

(* Everything up to the next slash.                                         *)
Segment(path) ==
  LET slash == SelectInSeq(path, LAMBDA ch : ch = "/")
  IN  IF slash = 0 THEN path ELSE SubSeq(path, 1, slash - 1)

Dropped(path, n) == SubSeq(path, n + 1, Len(path))

(* capture, one part: c is what is matched so far and the rest of the path. *)
TakePart(c, part) ==
  LET taken == IF IsParam(part) THEN Segment(c.rest) ELSE part.literal
  IN  IF c.matched /\ IsPrefix(taken, c.rest) /\ (IsParam(part) => taken # <<>>)
        THEN [matched |-> TRUE, rest |-> Dropped(c.rest, Len(taken)),
              params |-> IF IsParam(part) THEN Append(c.params, <<part.name, taken>>) ELSE c.params]
        ELSE [c EXCEPT !.matched = FALSE]

Capture(parts, path) ==
  FoldLeft(TakePart, [matched |-> TRUE, rest |-> path, params |-> <<>>], parts)

(* reverse: args are the parameters that are given, with their values.      *)
Missing(parts, args) ==
  \E i \in DOMAIN parts : IsParam(parts[i]) /\ parts[i].name \notin DOMAIN args
Reversed(parts, args) ==
  FlattenSeq([i \in DOMAIN parts |->
    IF IsParam(parts[i]) THEN args[parts[i].name] ELSE parts[i].literal])
==============================================================================
