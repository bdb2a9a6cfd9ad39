---------------------------- MODULE Router_proofs ----------------------------
(***************************************************************************)
(* The search for a handler, for any trees of routers and any paths: it    *)
(* goes through the tree once, the handler it finds is the first one whose *)
(* whole pattern the path has, it finds none only when no route has the    *)
(* path, and the view is given the pieces of the path that are in the      *)
(* places of its parameters; a path that reverse made leads back to the    *)
(* view it was made for.  And the parser: a pattern that it accepts is     *)
(* shown as it was written.                                                *)
(*                                                                         *)
(* What capture takes is where a path can be cut (CaptureIsPasses): from a *)
(* place in the path, a pattern leads to one other place at most.  So the  *)
(* frames of the search stand for cuts of the path (Searching), every      *)
(* route that begins as they do must cut it there too, and one that the    *)
(* search has left does not fit (NoneBefore).  What they have taken is     *)
(* what those cuts give (Collecting), and PathParams keeps of it the last  *)
(* piece of each name (ParamsRead).  What the parser has read is what its  *)
(* parts show, and the text that it is in (Reads).  A path that was made   *)
(* of parts can be cut into them again (ReversedCut), and in no other way  *)
(* (FormIsUnique).                                                         *)
(***************************************************************************)
EXTENDS Router, WellFoundedInduction, TLAPS

-----------------------------------------------------------------------------
(* Facts about numbers.                                                     *)
LEMMA Least ==
  ASSUME NEW S, S \subseteq Nat, S # {}
  PROVE  \E m \in S : \A k \in S : m <= k
<1> DEFINE R == {ss \in Nat \X Nat : ss[1] < ss[2]}
<1>1. IsWellFoundedOn(R, Nat)
  BY NatLessThanWellFounded DEF OpToRel
<1>2. \A x, y \in Nat : <<x, y>> \in R <=> x < y
  OBVIOUS
<1> HIDE DEF R
<1>3. PICK m \in S : \A k \in S : <<k, m>> \notin R
  BY <1>1, WFMin
<1>4. \A k \in S : ~(k < m)
  BY <1>2, <1>3
<1> QED
  BY <1>4

LEMMA UpTo ==
  ASSUME NEW S, 0 \in S, \A n \in Nat : n \in S => n + 1 \in S
  PROVE  \A n \in Nat : n \in S
<1> SUFFICES ASSUME Nat \ S # {} PROVE FALSE
  OBVIOUS
<1>1. PICK m \in Nat \ S : \A k \in Nat \ S : m <= k
  BY Least
<1>2. m # 0 /\ m - 1 \in Nat
  BY <1>1
<1>3. m - 1 \in S
  BY <1>1, <1>2
<1> QED
  BY <1>1, <1>2, <1>3

LEMMA Highest ==
  ASSUME NEW n \in Nat, NEW s \in SUBSET (1..n), s # {}
  PROVE  Max(s) \in s /\ \A x \in s : x <= Max(s)
<1> DEFINE Bounds == {b \in Nat : \A x \in s : x <= b}
<1>1. n \in Bounds /\ Bounds \subseteq Nat
  OBVIOUS
<1> HIDE DEF Bounds
<1>2. PICK m \in Bounds : \A b \in Bounds : m <= b
  BY <1>1, Least
<1>3. m \in Nat /\ \A x \in s : x <= m
  BY <1>2 DEF Bounds
<1>4. m \in s
  <2> SUFFICES ASSUME m \notin s PROVE FALSE
    OBVIOUS
  <2>1. \A x \in s : x <= m - 1
    BY <1>3
  <2>2. PICK x \in s : x \in 1..n
    OBVIOUS
  <2>3. m - 1 \in Nat
    BY <1>3, <2>2
  <2>4. m - 1 \in Bounds
    BY <2>1, <2>3 DEF Bounds
  <2> QED
    BY <1>2, <1>3, <2>4
<1>5. \E x \in s : \A y \in s : x >= y
  BY <1>3, <1>4
<1>6. Max(s) \in s /\ \A y \in s : Max(s) >= y
  BY <1>5 DEF Max
<1> QED
  BY <1>6

LEMMA Lowest ==
  ASSUME NEW S, S \subseteq Nat, S # {}
  PROVE  Min(S) \in S /\ \A x \in S : Min(S) <= x
<1>1. \E m \in S : \A k \in S : m <= k
  BY Least
<1> QED
  BY <1>1 DEF Min

(* Part of a text.                                                          *)
LEMMA SubText ==
  ASSUME NEW S, NEW s \in Seq(S), NEW m \in Nat \ {0}, NEW n \in Nat, n <= Len(s)
  PROVE  /\ SubSeq(s, m, n) \in Seq(S)
         /\ Len(SubSeq(s, m, n)) = IF m <= n THEN n - m + 1 ELSE 0
         /\ \A k \in 1..Len(SubSeq(s, m, n)) : SubSeq(s, m, n)[k] = s[m + k - 1]
OBVIOUS

-----------------------------------------------------------------------------
(* What a pattern is parsed to.                                             *)
Part == [literal : Seq(Char)] \cup [name : Seq(Char)]

LEMMA TrimmedText ==
  ASSUME NEW text \in Seq(Char) PROVE Trimmed(text) \in Seq(Char)
<1> DEFINE kept == {i \in DOMAIN text : text[i] # Blank}
<1>1. CASE kept = {}
  BY <1>1 DEF Trimmed
<1>2. CASE kept # {}
  <2>1. kept \in SUBSET (1..Len(text)) /\ kept \subseteq Nat /\ Len(text) \in Nat
    OBVIOUS
  <2>2. Min(kept) \in kept /\ Max(kept) \in kept
    BY <1>2, <2>1, Lowest, Highest
  <2>3. Min(kept) \in Nat \ {0} /\ Max(kept) \in Nat /\ Max(kept) <= Len(text)
    BY <2>1, <2>2
  <2>4. Trimmed(text) = SubSeq(text, Min(kept), Max(kept))
    BY <1>2 DEF Trimmed
  <2> HIDE DEF kept
  <2> QED
    BY <2>3, <2>4, SubText
<1> QED
  BY <1>1, <1>2

Why == {"consecutive", "unclosed", "unopened", "name"}
Parsing ==
  {s \in [state : {"literal", "param", "panic"}, start : Nat \ {0}, parts : Seq(Part) \cup Why,
          skip : BOOLEAN] : s.state # "panic" => s.parts \in Seq(Part)}

LEMMA PushedPart ==
  ASSUME NEW s \in Parsing, s.state # "panic", NEW part \in Part
  PROVE  Pushed(s, part) \in Parsing /\ Pushed(s, part).state # "panic"
<1> DEFINE more == Append(s.parts, part)
           u == Pushed(s, part)
<1>1. s.parts \in Seq(Part)
  BY DEF Parsing
<1>2. more \in Seq(Part)
  BY <1>1
<1>3. u = [s EXCEPT !.parts = more]
  BY DEF Pushed
<1> HIDE DEF more, u
<1>4. /\ u.state = s.state /\ u.parts = more
      /\ u \in [state : {"literal", "param", "panic"}, start : Nat \ {0}, parts : Seq(Part) \cup Why,
               skip : BOOLEAN]
  BY <1>2, <1>3 DEF Parsing
<1> QED
  BY <1>2, <1>4 DEF Parsing, u

LEMMA ParseCharKeeps ==
  ASSUME NEW pattern \in Seq(Char), NEW k \in 1..(Len(pattern) + 1), NEW s \in Parsing
  PROVE  ParseChar(pattern, k, s) \in Parsing
<1> DEFINE at(j) == IF j > Len(pattern) THEN End ELSE pattern[j]
           text == SubSeq(pattern, s.start, k - 1)
<1>1. s.start \in Nat \ {0} /\ k - 1 \in Nat /\ k - 1 <= Len(pattern) /\ k + 1 \in Nat \ {0} /\ k + 2 \in Nat \ {0}
      /\ k \in Nat \ {0}
  BY DEF Parsing
<1>2. text \in Seq(Char) /\ Trimmed(text) \in Seq(Char)
  BY <1>1, SubText, TrimmedText
<1> HIDE DEF text
<1>3. Text(text) \in Part /\ Param(Trimmed(text)) \in Part
  BY <1>2 DEF Text, Param, Part
<1>4. at(k) = Close => Text(SubSeq(pattern, s.start, k)) \in Part
  <2> SUFFICES ASSUME at(k) = Close PROVE Text(SubSeq(pattern, s.start, k)) \in Part
    OBVIOUS
  <2>0. End # Close
    BY DEF End, Close
  <2>1. k <= Len(pattern)
    BY <2>0
  <2>2. SubSeq(pattern, s.start, k) \in Seq(Char)
    BY <1>1, <2>1, SubText
  <2> QED
    BY <2>2 DEF Text, Part
<1> DEFINE literal == s.state = "literal" /\ ~s.skip
           param == s.state = "param" /\ ~s.skip
           result == ParseChar(pattern, k, s)
<1>5. s.skip => result = [s EXCEPT !.skip = FALSE]
  BY DEF ParseChar
<1>6. ~literal /\ ~param /\ ~s.skip => result = s
  BY DEF ParseChar, Parsing
<1>7. ASSUME literal, ~param
      PROVE  \/ result = InParam(Pushed(s, Text(text)), k + 1)
             \/ result = InParam(s, k + 1)
             \/ result = Panic(s, "consecutive") \/ result = Panic(s, "unopened")
             \/ at(k) = Close /\ result = ClosingBraces(pattern, k, s)
             \/ result = s
  BY <1>7, SMTT(30) DEF ParseChar, text
<1>8. ASSUME param, ~literal
      PROVE  \/ result = InLiteral(s, k)
             \/ result = Panic(s, "unclosed") \/ result = Panic(s, "name")
             \/ result = InLiteral(Pushed(s, Param(Trimmed(text))), k + 1)
             \/ result = s
  BY <1>8 DEF ParseChar, text
<1> HIDE DEF result
<1>9. ASSUME NEW t \in Parsing, NEW start \in Nat \ {0}, t.state # "panic"
      PROVE  InParam(t, start) \in Parsing /\ InLiteral(t, start) \in Parsing
  BY <1>9 DEF Parsing, InParam, InLiteral
<1>10. /\ [s EXCEPT !.skip = FALSE] \in Parsing
      /\ Panic(s, "consecutive") \in Parsing /\ Panic(s, "unclosed") \in Parsing
      /\ Panic(s, "unopened") \in Parsing /\ Panic(s, "name") \in Parsing
  BY DEF Parsing, Panic, Why
<1>11. ASSUME literal, at(k) = Close PROVE ClosingBraces(pattern, k, s) \in Parsing
  <2> DEFINE u == [s EXCEPT !.skip = TRUE]
             v == InLiteral(u, k + 2)
             w == Text(SubSeq(pattern, s.start, k))
  <2>1. u \in Parsing /\ u.state # "panic"
    BY <1>11 DEF Parsing
  <2>2. v \in Parsing
    BY <1>1, <1>9, <2>1
  <2>3. v.state = "literal"
    BY <2>1 DEF InLiteral, Parsing
  <2>4. w \in Part
    BY <1>4, <1>11
  <2>5. ClosingBraces(pattern, k, s) = Pushed(v, w)
    BY DEF ClosingBraces
  <2> HIDE DEF v, w
  <2> QED
    BY <2>2, <2>3, <2>4, <2>5, PushedPart
<1>12. (literal => s.state # "panic" /\ ~param) /\ (param => s.state # "panic")
  OBVIOUS
<1> HIDE DEF literal, param, at
<1>13. CASE literal
  BY <1>1, <1>3, <1>7, <1>9, <1>10, <1>11, <1>12, <1>13, PushedPart DEF result
<1>14. CASE param
  BY <1>1, <1>3, <1>8, <1>9, <1>10, <1>12, <1>14, PushedPart DEF result
<1> QED
  BY <1>5, <1>6, <1>10, <1>13, <1>14 DEF result

Parsed(pattern, after, k) ==
  IF k = 0 THEN [state |-> "literal", start |-> 1, parts |-> <<>>, skip |-> FALSE]
  ELSE ParseChar(pattern, k, after[k - 1])

(* The parser goes through the pattern character by character.              *)
LEMMA ParseSteps ==
  ASSUME NEW pattern, NEW n \in Nat, Len(pattern) + 1 = n
  PROVE  \E after : /\ \A k \in 0..n : after[k] = Parsed(pattern, after, k)
                    /\ Parse(pattern) = after[n]
<1> DEFINE Goes(m) == \E f : f = [k \in 0..m |-> Parsed(pattern, f, k)]
           S == {m \in Nat : Goes(m)}
           F == CHOOSE f : f = [k \in 0..n |-> Parsed(pattern, f, k)]
<1>1. 0 \in S
  <2> DEFINE c == [k \in 0..0 |-> Parsed(pattern, <<>>, k)]
  <2>1. \A k \in 0..0 : k = 0
    OBVIOUS
  <2>2. c = [k \in 0..0 |-> Parsed(pattern, c, k)]
    BY <2>1 DEF Parsed
  <2> HIDE DEF c
  <2>3. Goes(0)
    BY <2>2
  <2> HIDE DEF Goes
  <2> QED
    BY <2>3
<1>2. ASSUME NEW m \in Nat, m \in S PROVE m + 1 \in S
  <2>1. PICK c : c = [k \in 0..m |-> Parsed(pattern, c, k)]
    BY <1>2
  <2> DEFINE d == [k \in 0..(m + 1) |-> Parsed(pattern, c, k)]
  <2>2. ASSUME NEW k \in 0..(m + 1) PROVE Parsed(pattern, d, k) = Parsed(pattern, c, k)
    <3>1. CASE k = 0
      BY <3>1 DEF Parsed
    <3>2. CASE k # 0
      <4>1. k - 1 \in 0..m /\ k - 1 \in 0..(m + 1)
        BY <3>2
      <4>2. d[k - 1] = c[k - 1]
        BY <2>1, <4>1
      <4> HIDE DEF d
      <4> QED
        BY <3>2, <4>2 DEF Parsed
    <3> QED
      BY <3>1, <3>2
  <2>3. d = [k \in 0..(m + 1) |-> Parsed(pattern, d, k)]
    BY <2>2
  <2> HIDE DEF d
  <2>4. Goes(m + 1)
    BY <2>3
  <2> HIDE DEF Goes
  <2> QED
    BY <2>4
<1> HIDE DEF S
<1>3. n \in S
  BY <1>1, <1>2, UpTo
<1>4. Goes(n)
  BY <1>3 DEF S
<1>5. F = [k \in 0..n |-> Parsed(pattern, F, k)]
  BY <1>4
<1>6. Parse(pattern) = F[n]
  BY DEF Parse, Parsed
<1> HIDE DEF F
<1> QED
  BY <1>5, <1>6

(* A pattern that is accepted is a sequence of parts.                       *)
LEMMA PartsTyped ==
  ASSUME NEW pattern \in Seq(Char), ~Panics(pattern)
  PROVE  Parts(pattern) \in Seq(Part)
<1> DEFINE n == Len(pattern) + 1
<1>0. n \in Nat /\ Len(pattern) + 1 = n
  OBVIOUS
<1> HIDE DEF n
<1>1. PICK after : /\ \A k \in 0..n : after[k] = Parsed(pattern, after, k)
                   /\ Parse(pattern) = after[n]
  BY <1>0, ParseSteps
<1> DEFINE S == {m \in Nat : m <= n => after[m] \in Parsing}
<1>2. 0 \in S
  <2>1. after[0] = [state |-> "literal", start |-> 1, parts |-> <<>>, skip |-> FALSE]
    BY <1>0, <1>1 DEF Parsed
  <2>2. <<>> \in Seq(Part)
    OBVIOUS
  <2>3. /\ after[0].state = "literal" /\ after[0].parts = <<>>
        /\ after[0] \in [state : {"literal", "param", "panic"}, start : Nat \ {0},
                         parts : Seq(Part) \cup Why, skip : BOOLEAN]
    BY <2>1, <2>2
  <2>4. after[0] \in Parsing
    BY <2>2, <2>3 DEF Parsing
  <2> QED
    BY <2>4
<1>3. ASSUME NEW m \in Nat, m \in S PROVE m + 1 \in S
  <2> SUFFICES ASSUME m + 1 <= n PROVE after[m + 1] \in Parsing
    OBVIOUS
  <2>1. m + 1 \in 0..n /\ m + 1 \in 1..n /\ m + 1 # 0 /\ m + 1 - 1 = m
    BY <1>0
  <2>2. after[m + 1] = ParseChar(pattern, m + 1, after[m])
    BY <1>1, <2>1 DEF Parsed
  <2>3. after[m] \in Parsing
    BY <1>0, <1>3
  <2>4. m + 1 \in 1..(Len(pattern) + 1)
    BY <1>0, <2>1
  <2> QED
    BY <2>2, <2>3, <2>4, ParseCharKeeps
<1> HIDE DEF S
<1>4. n \in S
  BY <1>0, <1>2, <1>3, UpTo
<1>5. Parse(pattern) \in Parsing
  BY <1>0, <1>1, <1>4 DEF S
<1> QED
  BY <1>5 DEF Parts, Panics, Parsing

-----------------------------------------------------------------------------
(* capture, part by part.                                                   *)
Taken(parts, captures, s, start) ==
  IF s = {} THEN start ELSE TakePart(captures[s \ {Max(s)}], parts[Max(s)])
Untaken(rest) == [matched |-> TRUE, rest |-> rest, params |-> <<>>]
Captures(parts, start) ==
  CHOOSE captures : captures = [s \in SUBSET DOMAIN parts |-> Taken(parts, captures, s, start)]

LEMMA CaptureIs ==
  \A parts, p : Capture(parts, p) = Captures(parts, Untaken(p))[DOMAIN parts]
BY DEF Capture, FoldLeft, MapThenFoldSet, Captures, Taken, Untaken

LEMMA CapturesExist ==
  ASSUME NEW parts, NEW start, NEW n \in Nat, DOMAIN parts = 1..n
  PROVE  Captures(parts, start)
           = [s \in SUBSET (1..n) |-> Taken(parts, Captures(parts, start), s, start)]
<1> DEFINE Sub(m) == {s \in SUBSET (1..n) : \A x \in s : x <= m}
           Goes(m) == \E c : c = [s \in Sub(m) |-> Taken(parts, c, s, start)]
           S == {m \in Nat : Goes(m)}
<1>1. 0 \in S
  <2> DEFINE c == [s \in Sub(0) |-> start]
  <2>1. \A s \in Sub(0) : s = {}
    OBVIOUS
  <2>2. c = [s \in Sub(0) |-> Taken(parts, c, s, start)]
    BY <2>1 DEF Taken
  <2> HIDE DEF c
  <2>3. Goes(0)
    BY <2>2
  <2> QED
    BY <2>3
<1>2. ASSUME NEW m \in Nat, m \in S PROVE m + 1 \in S
  <2>1. PICK c : c = [s \in Sub(m) |-> Taken(parts, c, s, start)]
    BY <1>2
  <2> DEFINE d == [s \in Sub(m + 1) |-> Taken(parts, c, s, start)]
  <2>2. ASSUME NEW s \in Sub(m + 1) PROVE Taken(parts, d, s, start) = Taken(parts, c, s, start)
    <3>1. CASE s = {}
      BY <3>1 DEF Taken
    <3>2. CASE s # {}
      <4> DEFINE r == s \ {Max(s)}
      <4>1. Max(s) \in s /\ \A x \in s : x <= Max(s)
        BY <3>2, Highest
      <4>2. r \in Sub(m) /\ r \in Sub(m + 1)
        <5>1. s \in SUBSET (1..n) /\ \A x \in s : x <= m + 1
          OBVIOUS
        <5>2. /\ Max(s) <= m + 1 /\ Max(s) \in 1..n
              /\ \A x \in r : x \in 1..n /\ x # Max(s) /\ x <= Max(s)
          BY <4>1, <5>1
        <5>3. \A x \in r : x <= m /\ x <= m + 1
          BY <5>2
        <5> QED
          BY <5>1, <5>3
      <4>3. d[r] = Taken(parts, c, r, start) /\ c[r] = Taken(parts, c, r, start)
        BY <2>1, <4>2
      <4>4. d[r] = c[r]
        BY <4>3
      <4> HIDE DEF d
      <4> QED
        BY <3>2, <4>4 DEF Taken
    <3> QED
      BY <3>1, <3>2
  <2>3. d = [s \in Sub(m + 1) |-> Taken(parts, d, s, start)]
    BY <2>2
  <2> HIDE DEF d
  <2>4. Goes(m + 1)
    BY <2>3
  <2> HIDE DEF Goes
  <2> QED
    BY <2>4
<1> HIDE DEF S
<1>3. n \in S
  BY <1>1, <1>2, UpTo
<1>4. Goes(n)
  BY <1>3 DEF S
<1>5. Sub(n) = SUBSET (1..n)
  OBVIOUS
<1> QED
  BY <1>4, <1>5 DEF Captures

LEMMA CaptureSteps ==
  ASSUME NEW parts, NEW p, NEW n \in Nat, DOMAIN parts = 1..n
  PROVE  \E c : /\ c[0] = Untaken(p)
                /\ \A k \in 1..n : c[k] = TakePart(c[k - 1], parts[k])
                /\ Capture(parts, p) = c[n]
<1> DEFINE C == Captures(parts, Untaken(p))
           c == [k \in 0..n |-> C[1..k]]
<1>1. C = [s \in SUBSET (1..n) |-> Taken(parts, C, s, Untaken(p))]
  BY CapturesExist
<1>2. Capture(parts, p) = C[1..n]
  BY CaptureIs
<1> HIDE DEF C
<1>3. c[0] = Untaken(p)
  <2>1. 1..0 = {} /\ 1..0 \in SUBSET (1..n)
    OBVIOUS
  <2> QED
    BY <1>1, <2>1 DEF Taken
<1>4. ASSUME NEW k \in 1..n PROVE C[1..k] = TakePart(C[1..(k - 1)], parts[k])
  <2> DEFINE s == 1..k
  <2>1. s \in SUBSET (1..n) /\ k \in s /\ s # {} /\ k \in Nat
    OBVIOUS
  <2>2. Max(s) \in s /\ \A x \in s : x <= Max(s)
    BY <2>1, Highest
  <2>3. Max(s) = k /\ s \ {k} = 1..(k - 1)
    BY <2>1, <2>2
  <2> HIDE DEF s
  <2>4. C[s] = TakePart(C[1..(k - 1)], parts[k])
    BY <1>1, <2>1, <2>3 DEF Taken
  <2> QED
    BY <2>4 DEF s
<1>5. \A k \in 1..n : k - 1 \in 0..n /\ k \in 0..n
  OBVIOUS
<1>6. \A k \in 1..n : c[k] = TakePart(c[k - 1], parts[k])
  BY <1>4, <1>5
<1>7. Capture(parts, p) = c[n]
  BY <1>2
<1> HIDE DEF c
<1> QED
  BY <1>3, <1>6, <1>7

-----------------------------------------------------------------------------
(* A part that takes the path from one place to another, and parts that do  *)
(* so one after the other.                                                  *)
Takes(part, p, n, m) ==
  /\ n <= m
  /\ IF IsParam(part)
       THEN /\ SubSeq(p, n + 1, m) # <<>> /\ "/" \notin ToSet(SubSeq(p, n + 1, m))
            /\ m < Len(p) => p[m + 1] = "/"
       ELSE SubSeq(p, n + 1, m) = part.literal

CutsBetween(parts, k, p, n, m, cut) ==
  /\ cut \in [0..k -> 0..Len(p)]
  /\ cut[0] = n /\ cut[k] = m
  /\ \A j \in 1..k : Takes(parts[j], p, cut[j - 1], cut[j])
PassesTo(parts, k, p, n, m) == \E cut : CutsBetween(parts, k, p, n, m, cut)
Passes(parts, p, n, m) == PassesTo(parts, Len(parts), p, n, m)

LEMMA FitsIsPasses ==
  ASSUME NEW parts \in Seq(Part), NEW p \in Seq(Char)
  PROVE  Fits(parts, p) <=> Passes(parts, p, 0, Len(p))
<1>1. DOMAIN parts = 1..Len(parts) /\ Len(parts) \in Nat /\ Len(p) \in Nat
  OBVIOUS
<1>2. ASSUME NEW cut \in [0..Len(parts) -> 0..Len(p)]
      PROVE  Form(parts, p, cut) <=> CutsBetween(parts, Len(parts), p, 0, Len(p), cut)
  BY <1>1 DEF Form, CutsBetween, Takes, Piece
<1> QED
  BY <1>2 DEF Fits, Cuts, Passes, PassesTo, CutsBetween

LEMMA PassesNone ==
  ASSUME NEW parts, NEW p \in Seq(Char), NEW n \in 0..Len(p), NEW m \in 0..Len(p)
  PROVE  PassesTo(parts, 0, p, n, m) <=> m = n
<1>0. Len(p) \in Nat
  OBVIOUS
<1>1. PassesTo(parts, 0, p, n, m) => m = n
  BY DEF PassesTo, CutsBetween
<1>2. ASSUME m = n PROVE PassesTo(parts, 0, p, n, m)
  <2> DEFINE cut == [j \in 0..0 |-> n]
  <2>1. CutsBetween(parts, 0, p, n, m, cut)
    BY <1>0, <1>2 DEF CutsBetween
  <2> HIDE DEF cut
  <2> QED
    BY <2>1 DEF PassesTo
<1> QED
  BY <1>1, <1>2

LEMMA PassesOneMore ==
  ASSUME NEW parts, NEW k \in Nat, NEW p \in Seq(Char), NEW n \in 0..Len(p), NEW m \in 0..Len(p)
  PROVE  PassesTo(parts, k + 1, p, n, m) <=>
              \E l \in 0..Len(p) : PassesTo(parts, k, p, n, l) /\ Takes(parts[k + 1], p, l, m)
<1>1. ASSUME PassesTo(parts, k + 1, p, n, m)
      PROVE  \E l \in 0..Len(p) : PassesTo(parts, k, p, n, l) /\ Takes(parts[k + 1], p, l, m)
  <2>1. PICK cut : CutsBetween(parts, k + 1, p, n, m, cut)
    BY <1>1 DEF PassesTo
  <2> DEFINE before == [j \in 0..k |-> cut[j]]
  <2>2. /\ k \in 0..(k + 1) /\ k + 1 \in 1..(k + 1) /\ k + 1 - 1 = k
        /\ \A j \in 0..k : j \in 0..(k + 1)
        /\ \A j \in 1..k : j \in 1..(k + 1) /\ j \in 0..k /\ j - 1 \in 0..k
    OBVIOUS
  <2>3. cut[k] \in 0..Len(p) /\ Takes(parts[k + 1], p, cut[k], m)
    BY <2>1, <2>2 DEF CutsBetween
  <2>4. CutsBetween(parts, k, p, n, cut[k], before)
    <3>1. before \in [0..k -> 0..Len(p)]
      BY <2>1, <2>2 DEF CutsBetween
    <3>2. before[0] = n /\ before[k] = cut[k]
      BY <2>1 DEF CutsBetween
    <3>3. \A j \in 1..k : Takes(parts[j], p, before[j - 1], before[j])
      BY <2>1, <2>2 DEF CutsBetween
    <3> HIDE DEF before
    <3> QED
      BY <3>1, <3>2, <3>3 DEF CutsBetween
  <2> HIDE DEF before
  <2>5. PassesTo(parts, k, p, n, cut[k])
    BY <2>4 DEF PassesTo
  <2> QED
    BY <2>3, <2>5
<1>2. ASSUME NEW l \in 0..Len(p), PassesTo(parts, k, p, n, l), Takes(parts[k + 1], p, l, m)
      PROVE  PassesTo(parts, k + 1, p, n, m)
  <2>1. PICK cut : CutsBetween(parts, k, p, n, l, cut)
    BY <1>2 DEF PassesTo
  <2> DEFINE more == [j \in 0..(k + 1) |-> IF j = k + 1 THEN m ELSE cut[j]]
  <2>2. \A j \in 0..(k + 1) : j # k + 1 => j \in 0..k
    OBVIOUS
  <2>3. more \in [0..(k + 1) -> 0..Len(p)]
    BY <2>1, <2>2 DEF CutsBetween
  <2>4. more[0] = n /\ more[k + 1] = m /\ more[k] = l
    BY <2>1 DEF CutsBetween
  <2>5. ASSUME NEW j \in 1..(k + 1) PROVE Takes(parts[j], p, more[j - 1], more[j])
    <3>1. CASE j = k + 1
      <4>1. j - 1 = k
        BY <3>1
      <4> QED
        BY <1>2, <2>4, <3>1, <4>1
    <3>2. CASE j # k + 1
      <4>1. j \in 1..k /\ more[j - 1] = cut[j - 1] /\ more[j] = cut[j]
        BY <3>2
      <4> QED
        BY <2>1, <4>1 DEF CutsBetween
    <3> QED
      BY <3>1, <3>2
  <2> HIDE DEF more
  <2>6. CutsBetween(parts, k + 1, p, n, m, more)
    BY <2>3, <2>4, <2>5 DEF CutsBetween
  <2> QED
    BY <2>6 DEF PassesTo
<1> QED
  BY <1>1, <1>2

(* What is left of a text.                                                  *)
LEMMA DroppedText ==
  ASSUME NEW p \in Seq(Char), NEW n \in 0..Len(p)
  PROVE  /\ Dropped(p, n) \in Seq(Char) /\ Len(Dropped(p, n)) = Len(p) - n
         /\ \A k \in 1..(Len(p) - n) : Dropped(p, n)[k] = p[n + k]
<1>1. n + 1 \in Nat \ {0} /\ Len(p) \in Nat
  OBVIOUS
<1>2. \A k \in 1..(Len(p) - n) : n + 1 + k - 1 = n + k
  OBVIOUS
<1> QED
  BY <1>1, <1>2, SubText DEF Dropped

LEMMA SameText ==
  ASSUME NEW s \in Seq(Char), NEW t \in Seq(Char), Len(s) = Len(t),
         \A k \in 1..Len(s) : s[k] = t[k]
  PROVE  s = t
OBVIOUS

LEMMA DroppedTwice ==
  ASSUME NEW p \in Seq(Char), NEW n \in 0..Len(p), NEW k \in 0..(Len(p) - n)
  PROVE  Dropped(Dropped(p, n), k) = Dropped(p, n + k)
<1> DEFINE r == Dropped(p, n)
           s == Dropped(r, k)
           t == Dropped(p, n + k)
<1>0. Len(p) \in Nat /\ n + k \in 0..Len(p) /\ n \in Nat /\ k \in Nat
  OBVIOUS
<1>1. /\ r \in Seq(Char) /\ Len(r) = Len(p) - n
      /\ \A j \in 1..(Len(p) - n) : r[j] = p[n + j]
  BY DroppedText
<1> HIDE DEF r
<1>2. /\ s \in Seq(Char) /\ Len(s) = Len(r) - k
      /\ \A j \in 1..(Len(r) - k) : s[j] = r[k + j]
  BY <1>1, DroppedText
<1>3. /\ t \in Seq(Char) /\ Len(t) = Len(p) - (n + k)
      /\ \A j \in 1..(Len(p) - (n + k)) : t[j] = p[n + k + j]
  BY <1>0, DroppedText
<1> SUFFICES s = t
  BY DEF r
<1> HIDE DEF s, t
<1>4. Len(s) = Len(t)
  BY <1>0, <1>1, <1>2, <1>3
<1>5. ASSUME NEW j \in 1..Len(s) PROVE s[j] = t[j]
  <2>1. j \in 1..(Len(r) - k) /\ j \in 1..(Len(p) - (n + k)) /\ k + j \in 1..(Len(p) - n) /\ n + (k + j) = n + k + j
    BY <1>0, <1>1, <1>2
  <2> QED
    BY <1>1, <1>2, <1>3, <2>1
<1> QED
  BY <1>2, <1>3, <1>4, <1>5, SameText

(* Two places with the same rest are one.                                   *)
LEMMA DroppedWhere ==
  ASSUME NEW p \in Seq(Char), NEW n \in 0..Len(p), NEW m \in 0..Len(p), Dropped(p, n) = Dropped(p, m)
  PROVE  n = m
<1>1. Len(p) - n = Len(p) - m
  BY DroppedText
<1> QED
  BY <1>1

LEMMA PrefixText ==
  ASSUME NEW s \in Seq(Char), NEW t \in Seq(Char)
  PROVE  IsPrefix(s, t) <=> Len(s) <= Len(t) /\ SubSeq(t, 1, Len(s)) = s
<1>1. SubSeq(s, 1, Len(s)) = s
  OBVIOUS
<1> QED
  BY <1>1 DEF IsPrefix

LEMMA SubTextIs ==
  ASSUME NEW p \in Seq(Char), NEW n \in 0..Len(p), NEW k \in 0..(Len(p) - n)
  PROVE  SubSeq(Dropped(p, n), 1, k) = SubSeq(p, n + 1, n + k)
<1> DEFINE r == Dropped(p, n)
           s == SubSeq(r, 1, k)
           t == SubSeq(p, n + 1, n + k)
<1>0. /\ Len(p) \in Nat /\ n + k \in Nat /\ n + k <= Len(p) /\ n + 1 \in Nat \ {0} /\ k \in Nat /\ n \in Nat
      /\ 1 \in Nat \ {0} /\ k <= Len(p) - n
  OBVIOUS
<1>1. /\ r \in Seq(Char) /\ Len(r) = Len(p) - n
      /\ \A j \in 1..(Len(p) - n) : r[j] = p[n + j]
  BY DroppedText
<1> HIDE DEF r
<1>2. /\ s \in Seq(Char) /\ Len(s) = IF 1 <= k THEN k - 1 + 1 ELSE 0
      /\ \A j \in 1..Len(s) : s[j] = r[1 + j - 1]
  BY <1>0, <1>1, SubText
<1>3. /\ t \in Seq(Char) /\ Len(t) = IF n + 1 <= n + k THEN n + k - (n + 1) + 1 ELSE 0
      /\ \A j \in 1..Len(t) : t[j] = p[n + 1 + j - 1]
  BY <1>0, SubText
<1> SUFFICES s = t
  BY DEF r
<1> HIDE DEF s, t
<1>4. Len(s) = k /\ Len(t) = k
  BY <1>0, <1>2, <1>3
<1>5. ASSUME NEW j \in 1..Len(s) PROVE s[j] = t[j]
  <2>1. j \in 1..(Len(p) - n) /\ j \in 1..Len(t) /\ 1 + j - 1 = j /\ n + 1 + j - 1 = n + j
    BY <1>0, <1>4
  <2> QED
    BY <1>1, <1>2, <1>3, <2>1
<1> QED
  BY <1>2, <1>3, <1>4, <1>5, SameText

(* The segment that a parameter takes ends where the text or a slash does.  *)
LEMMA SegmentIs ==
  ASSUME NEW text \in Seq(Char)
  PROVE  /\ Segment(text) = SubSeq(text, 1, Len(Segment(text)))
         /\ Len(Segment(text)) \in 0..Len(text)
         /\ \A k \in 1..Len(Segment(text)) : text[k] # "/"
         /\ Len(Segment(text)) < Len(text) => text[Len(Segment(text)) + 1] = "/"
<1> DEFINE slashes == {k \in 1..Len(text) : text[k] = "/"}
<1>0. Len(text) \in Nat
  OBVIOUS
<1>1. SelectInSeq(text, LAMBDA ch : ch = "/") = IF slashes # {} THEN Min(slashes) ELSE 0
  BY DEF SelectInSeq
<1>2. CASE slashes = {}
  <2>1. Segment(text) = text
    BY <1>1, <1>2 DEF Segment
  <2>2. SubSeq(text, 1, Len(text)) = text
    OBVIOUS
  <2> QED
    BY <1>0, <1>2, <2>1, <2>2
<1>3. CASE slashes # {}
  <2> DEFINE slash == Min(slashes)
  <2>1. slashes \subseteq Nat
    OBVIOUS
  <2>2. slash \in slashes /\ \A k \in slashes : slash <= k
    BY <1>3, <2>1, Lowest
  <2>3. Segment(text) = IF slash = 0 THEN text ELSE SubSeq(text, 1, slash - 1)
    BY <1>1, <1>3 DEF Segment
  <2> HIDE DEF slash
  <2>4. slash \in 1..Len(text) /\ text[slash] = "/" /\ \A k \in 1..Len(text) : text[k] = "/" => slash <= k
    BY <2>2
  <2>5. slash \in Nat /\ slash # 0 /\ slash - 1 \in Nat /\ slash - 1 <= Len(text) /\ slash - 1 + 1 = slash
    BY <1>0, <2>4
  <2>6. Segment(text) = SubSeq(text, 1, slash - 1)
    BY <2>3, <2>5
  <2>7. Len(SubSeq(text, 1, slash - 1)) = IF 1 <= slash - 1 THEN slash - 1 - 1 + 1 ELSE 0
    BY <2>5, SubText
  <2>8. Len(Segment(text)) = slash - 1
    BY <2>5, <2>6, <2>7
  <2>9. \A k \in 1..(slash - 1) : k \in 1..Len(text) /\ ~(slash <= k)
    BY <1>0, <2>5
  <2> QED
    BY <1>0, <2>4, <2>5, <2>6, <2>8, <2>9
<1> QED
  BY <1>2, <1>3

LEMMA SegmentTakes ==
  ASSUME NEW p \in Seq(Char), NEW n \in 0..Len(p), NEW m \in 0..Len(p), NEW part, IsParam(part)
  PROVE  LET length == Len(Segment(Dropped(p, n)))
         IN  Takes(part, p, n, m) <=> length # 0 /\ m = n + length
<1> DEFINE r == Dropped(p, n)
           length == Len(Segment(r))
<1>0. Len(p) \in Nat /\ n \in Nat /\ m \in Nat /\ n + 1 \in Nat \ {0} /\ m <= Len(p) /\ n <= Len(p)
  OBVIOUS
<1>1. /\ r \in Seq(Char) /\ Len(r) = Len(p) - n
      /\ \A k \in 1..(Len(p) - n) : r[k] = p[n + k]
  BY DroppedText
<1>2. /\ length \in 0..(Len(p) - n)
      /\ \A k \in 1..length : r[k] # "/"
      /\ length < Len(p) - n => r[length + 1] = "/"
  BY <1>1, SegmentIs
<1> HIDE DEF r, length
<1>3. length \in Nat /\ n + length <= Len(p)
  BY <1>0, <1>2
<1>4. \A k \in (n + 1)..(n + length) : p[k] # "/"
  <2> SUFFICES ASSUME NEW k \in (n + 1)..(n + length) PROVE p[k] # "/"
    OBVIOUS
  <2>1. k - n \in 1..length /\ k - n \in 1..(Len(p) - n) /\ n + (k - n) = k
    BY <1>0, <1>3
  <2> QED
    BY <1>1, <1>2, <2>1
<1>5. n + length < Len(p) => p[n + length + 1] = "/"
  <2> SUFFICES ASSUME n + length < Len(p) PROVE p[n + length + 1] = "/"
    OBVIOUS
  <2>1. length + 1 \in 1..(Len(p) - n) /\ length < Len(p) - n /\ n + (length + 1) = n + length + 1
    BY <1>0, <1>3
  <2> QED
    BY <1>1, <1>2, <2>1
<1> DEFINE t == SubSeq(p, n + 1, m)
<1>6. /\ t \in Seq(Char)
      /\ Len(t) = IF n + 1 <= m THEN m - (n + 1) + 1 ELSE 0
      /\ \A k \in 1..Len(t) : t[k] = p[n + 1 + k - 1]
  BY <1>0, SubText
<1>7. Takes(part, p, n, m) <=> n <= m /\ t # <<>> /\ "/" \notin ToSet(t) /\ (m < Len(p) => p[m + 1] = "/")
  BY DEF Takes
<1> HIDE DEF t
<1>8. t # <<>> <=> Len(t) # 0
  BY <1>6
<1>9. n <= m => ("/" \notin ToSet(t) <=> \A k \in (n + 1)..m : p[k] # "/")
  <2> SUFFICES ASSUME n <= m PROVE "/" \notin ToSet(t) <=> \A k \in (n + 1)..m : p[k] # "/"
    OBVIOUS
  <2>1. Len(t) = m - n /\ DOMAIN t = 1..(m - n)
    BY <1>0, <1>6
  <2>2. \A k \in 1..(m - n) : t[k] = p[n + k]
    <3>1. \A k \in 1..(m - n) : n + 1 + k - 1 = n + k
      BY <1>0
    <3> QED
      BY <1>6, <2>1, <3>1
  <2>3. \A k \in 1..(m - n) : n + k \in (n + 1)..m
    BY <1>0
  <2>4. \A k \in (n + 1)..m : k - n \in 1..(m - n) /\ n + (k - n) = k
    BY <1>0
  <2>5. "/" \in ToSet(t) <=> \E k \in 1..(m - n) : t[k] = "/"
    BY <2>1 DEF ToSet
  <2>6. (\E k \in 1..(m - n) : t[k] = "/") <=> \E k \in (n + 1)..m : p[k] = "/"
    BY <2>2, <2>3, <2>4
  <2> QED
    BY <2>5, <2>6
<1>10. ASSUME Takes(part, p, n, m) PROVE length # 0 /\ m = n + length
  <2>1. n + 1 <= m /\ (\A k \in (n + 1)..m : p[k] # "/") /\ (m < Len(p) => p[m + 1] = "/")
    BY <1>0, <1>6, <1>7, <1>8, <1>9, <1>10
  <2>2. ~(m < n + length)
    <3>1. m < n + length => m < Len(p) /\ m + 1 \in (n + 1)..(n + length)
      BY <1>0, <1>3, <2>1
    <3> QED
      BY <1>4, <2>1, <3>1
  <2>3. ~(n + length < m)
    <3>1. n + length < m => n + length < Len(p) /\ n + length + 1 \in (n + 1)..m
      BY <1>0, <1>3, <2>1
    <3> QED
      BY <1>5, <2>1, <3>1
  <2> QED
    BY <1>0, <1>3, <2>1, <2>2, <2>3
<1>11. ASSUME length # 0, m = n + length PROVE Takes(part, p, n, m)
  <2>1. n <= m /\ Len(t) # 0 /\ n + 1 <= m
    BY <1>0, <1>3, <1>6, <1>11
  <2> QED
    BY <1>4, <1>5, <1>7, <1>8, <1>9, <1>11, <2>1
<1> QED
  BY <1>10, <1>11 DEF r, length

LEMMA LiteralTakes ==
  ASSUME NEW p \in Seq(Char), NEW n \in 0..Len(p), NEW m \in 0..Len(p), NEW part,
         ~IsParam(part), part.literal \in Seq(Char)
  PROVE  Takes(part, p, n, m) <=> IsPrefix(part.literal, Dropped(p, n)) /\ m = n + Len(part.literal)
<1> DEFINE r == Dropped(p, n)
           literal == part.literal
           length == Len(literal)
<1>0. /\ Len(p) \in Nat /\ n \in Nat /\ m \in Nat /\ n + 1 \in Nat \ {0} /\ m <= Len(p) /\ n <= Len(p)
      /\ length \in Nat
  OBVIOUS
<1>1. r \in Seq(Char) /\ Len(r) = Len(p) - n
  BY DroppedText
<1>2. IsPrefix(literal, r) <=> length <= Len(p) - n /\ SubSeq(r, 1, length) = literal
  BY <1>1, PrefixText
<1>3. length <= Len(p) - n => SubSeq(r, 1, length) = SubSeq(p, n + 1, n + length)
  BY <1>0, SubTextIs
<1> DEFINE t == SubSeq(p, n + 1, m)
<1>4. Len(t) = IF n + 1 <= m THEN m - (n + 1) + 1 ELSE 0
  BY <1>0, SubText
<1>5. Takes(part, p, n, m) <=> n <= m /\ t = literal
  BY DEF Takes
<1> HIDE DEF t, literal, r
<1>6. ASSUME Takes(part, p, n, m) PROVE IsPrefix(literal, r) /\ m = n + length
  <2>1. n <= m /\ t = literal /\ length = m - n
    BY <1>0, <1>4, <1>5, <1>6
  <2>2. m = n + length /\ length <= Len(p) - n
    BY <1>0, <2>1
  <2> QED
    BY <1>2, <1>3, <2>1, <2>2 DEF t
<1>7. ASSUME IsPrefix(literal, r), m = n + length PROVE Takes(part, p, n, m)
  <2>1. n <= m
    BY <1>0, <1>7
  <2> QED
    BY <1>2, <1>3, <1>5, <1>7, <2>1 DEF t
<1> QED
  BY <1>6, <1>7 DEF literal, r

(* A capture that has come to a place.                                      *)
At(c, p, m) == c.matched /\ c.rest = Dropped(p, m)
IsCapture(c) == c \in [matched : BOOLEAN, rest : {c.rest}, params : {c.params}]

LEMMA UnmatchedIs ==
  ASSUME NEW c, IsCapture(c)
  PROVE  /\ IsCapture([c EXCEPT !.matched = FALSE])
         /\ ~[c EXCEPT !.matched = FALSE].matched
BY DEF IsCapture

LEMMA TakeIs ==
  ASSUME NEW p \in Seq(Char), NEW n \in 0..Len(p), NEW part \in Part,
         NEW c, IsCapture(c), At(c, p, n)
  PROVE  /\ IsCapture(TakePart(c, part))
         /\ TakePart(c, part).matched => \E m \in 0..Len(p) : At(TakePart(c, part), p, m)
         /\ \A m \in 0..Len(p) : At(TakePart(c, part), p, m) <=> Takes(part, p, n, m)
<1> DEFINE r == Dropped(p, n)
           taken == IF IsParam(part) THEN Segment(r) ELSE part.literal
           goes == IsPrefix(taken, r) /\ (IsParam(part) => taken # <<>>)
           next == [matched |-> TRUE, rest |-> Dropped(r, Len(taken)),
                    params |-> IF IsParam(part) THEN Append(c.params, <<part.name, taken>>) ELSE c.params]
           d == TakePart(c, part)
<1>0. /\ Len(p) \in Nat /\ n \in Nat /\ n <= Len(p) /\ c.rest = r /\ c.matched
      /\ ~IsParam(part) => part.literal \in Seq(Char)
  BY DEF At, Part, IsParam
<1>1. d = IF goes THEN next ELSE [c EXCEPT !.matched = FALSE]
  BY <1>0 DEF TakePart
<1>2. r \in Seq(Char) /\ Len(r) = Len(p) - n
  BY DroppedText
<1>3. /\ Segment(r) = SubSeq(r, 1, Len(Segment(r)))
      /\ Len(Segment(r)) \in 0..Len(r)
  BY <1>2, SegmentIs
<1>4. Segment(r) \in Seq(Char) /\ IsPrefix(Segment(r), r)
  <2>1. Len(Segment(r)) \in Nat /\ Len(Segment(r)) <= Len(r) /\ 1 \in Nat \ {0}
    BY <1>2, <1>3
  <2>2. SubSeq(r, 1, Len(Segment(r))) \in Seq(Char)
    BY <1>2, <2>1, SubText
  <2>3. Segment(r) \in Seq(Char)
    BY <1>3, <2>2
  <2> QED
    BY <1>2, <1>3, <2>1, <2>3, PrefixText
<1>5. taken \in Seq(Char) /\ Len(taken) \in Nat
  BY <1>0, <1>4
<1>6. goes => Len(taken) \in 0..(Len(p) - n) /\ next.rest = Dropped(p, n + Len(taken)) /\ n + Len(taken) \in 0..Len(p)
  <2> SUFFICES ASSUME goes
               PROVE /\ Len(taken) \in 0..(Len(p) - n) /\ next.rest = Dropped(p, n + Len(taken))
                     /\ n + Len(taken) \in 0..Len(p)
    OBVIOUS
  <2>1. Len(taken) <= Len(r)
    BY <1>2, <1>5, PrefixText
  <2>2. Len(taken) \in 0..(Len(p) - n) /\ n + Len(taken) \in 0..Len(p)
    BY <1>0, <1>2, <1>5, <2>1
  <2>3. Dropped(r, Len(taken)) = Dropped(p, n + Len(taken))
    BY <2>2, DroppedTwice
  <2> QED
    BY <2>2, <2>3
<1>7. ASSUME NEW m \in 0..Len(p) PROVE Takes(part, p, n, m) <=> goes /\ m = n + Len(taken)
  <2>1. CASE IsParam(part)
    <3>1. taken # <<>> <=> Len(taken) # 0
      BY <1>5
    <3>2. Takes(part, p, n, m) <=> Len(Segment(r)) # 0 /\ m = n + Len(Segment(r))
      BY <2>1, SegmentTakes
    <3> QED
      BY <1>4, <2>1, <3>1, <3>2
  <2>2. CASE ~IsParam(part)
    <3>1. Takes(part, p, n, m) <=> IsPrefix(part.literal, r) /\ m = n + Len(part.literal)
      BY <1>0, <2>2, LiteralTakes
    <3> QED
      BY <2>2, <3>1
  <2> QED
    BY <2>1, <2>2
<1>8. next.matched /\ IsCapture(next)
  BY DEF IsCapture
<1> HIDE DEF next, taken, r
<1>9. ~goes => IsCapture(d) /\ ~d.matched
  BY <1>1, UnmatchedIs
<1>10. goes => d = next
  BY <1>1
<1> HIDE DEF d, goes
<1>11. IsCapture(d)
  BY <1>8, <1>9, <1>10
<1>12. d.matched => \E m \in 0..Len(p) : At(d, p, m)
  BY <1>6, <1>8, <1>9, <1>10 DEF At
<1>13. ASSUME NEW m \in 0..Len(p) PROVE At(d, p, m) <=> Takes(part, p, n, m)
  <2>1. CASE goes
    <3>1. At(d, p, m) <=> Dropped(p, n + Len(taken)) = Dropped(p, m)
      BY <1>6, <1>8, <1>10, <2>1 DEF At
    <3>2. n + Len(taken) \in 0..Len(p)
      BY <1>6, <2>1
    <3>3. Dropped(p, n + Len(taken)) = Dropped(p, m) <=> m = n + Len(taken)
      BY <3>2, DroppedWhere
    <3> QED
      BY <1>7, <2>1, <3>1, <3>3
  <2>2. CASE ~goes
    BY <1>7, <1>9, <2>2 DEF At
  <2> QED
    BY <2>1, <2>2
<1> QED
  BY <1>11, <1>12, <1>13 DEF d

LEMMA TakeNothing ==
  ASSUME NEW c, IsCapture(c), ~c.matched, NEW part
  PROVE  IsCapture(TakePart(c, part)) /\ ~TakePart(c, part).matched
<1>1. TakePart(c, part) = [c EXCEPT !.matched = FALSE]
  BY DEF TakePart
<1> QED
  BY <1>1, UnmatchedIs

(* capture takes the path from a place to where the parts pass to.          *)
LEMMA CaptureIsPasses ==
  ASSUME NEW parts \in Seq(Part), NEW p \in Seq(Char), NEW n \in 0..Len(p)
  PROVE  LET d == Capture(parts, Dropped(p, n))
         IN  /\ d.matched => \E m \in 0..Len(p) : At(d, p, m)
             /\ \A m \in 0..Len(p) : At(d, p, m) <=> Passes(parts, p, n, m)
<1> DEFINE r == Dropped(p, n)
           L == Len(parts)
<1>0. L \in Nat /\ DOMAIN parts = 1..L /\ \A k \in 1..L : parts[k] \in Part
  OBVIOUS
<1> HIDE DEF L, r
<1>1. PICK c : /\ c[0] = Untaken(r)
               /\ \A k \in 1..L : c[k] = TakePart(c[k - 1], parts[k])
               /\ Capture(parts, r) = c[L]
  BY <1>0, CaptureSteps
<1> DEFINE Good(k) == /\ IsCapture(c[k])
                      /\ c[k].matched => \E m \in 0..Len(p) : At(c[k], p, m)
                      /\ \A m \in 0..Len(p) : At(c[k], p, m) <=> PassesTo(parts, k, p, n, m)
           S == {k \in Nat : k <= L => Good(k)}
<1>2. 0 \in S
  <2>1. c[0] = [matched |-> TRUE, rest |-> r, params |-> <<>>]
    BY <1>1 DEF Untaken
  <2>2. IsCapture(c[0]) /\ c[0].matched /\ c[0].rest = r
    BY <2>1 DEF IsCapture
  <2>3. At(c[0], p, n)
    BY <2>2 DEF At, r
  <2>4. \A m \in 0..Len(p) : At(c[0], p, m) <=> m = n
    BY <2>2, <2>3, DroppedWhere DEF At
  <2>5. \A m \in 0..Len(p) : PassesTo(parts, 0, p, n, m) <=> m = n
    BY PassesNone
  <2>6. Good(0)
    BY <2>2, <2>3, <2>4, <2>5
  <2> QED
    BY <2>6
<1>3. ASSUME NEW k \in Nat, k \in S PROVE k + 1 \in S
  <2> SUFFICES ASSUME k + 1 <= L PROVE Good(k + 1)
    OBVIOUS
  <2>1. Good(k) /\ k + 1 \in 1..L /\ k + 1 - 1 = k
    BY <1>0, <1>3
  <2>2. c[k + 1] = TakePart(c[k], parts[k + 1]) /\ parts[k + 1] \in Part
    BY <1>0, <1>1, <2>1
  <2>3. ASSUME NEW m \in 0..Len(p)
        PROVE  PassesTo(parts, k + 1, p, n, m) <=>
                 \E l \in 0..Len(p) : At(c[k], p, l) /\ Takes(parts[k + 1], p, l, m)
    <3>1. PassesTo(parts, k + 1, p, n, m) <=>
            \E l \in 0..Len(p) : PassesTo(parts, k, p, n, l) /\ Takes(parts[k + 1], p, l, m)
      BY PassesOneMore
    <3> QED
      BY <2>1, <3>1
  <2>4. CASE c[k].matched
    <3>1. PICK l \in 0..Len(p) : At(c[k], p, l)
      BY <2>1, <2>4
    <3>2. /\ IsCapture(c[k + 1])
          /\ c[k + 1].matched => \E m \in 0..Len(p) : At(c[k + 1], p, m)
          /\ \A m \in 0..Len(p) : At(c[k + 1], p, m) <=> Takes(parts[k + 1], p, l, m)
      BY <2>1, <2>2, <3>1, TakeIs
    <3>3. \A j \in 0..Len(p) : At(c[k], p, j) => j = l
      BY <3>1, DroppedWhere DEF At
    <3>4. ASSUME NEW m \in 0..Len(p) PROVE At(c[k + 1], p, m) <=> PassesTo(parts, k + 1, p, n, m)
      BY <2>3, <3>1, <3>2, <3>3
    <3> QED
      BY <3>2, <3>4
  <2>5. CASE ~c[k].matched
    <3>1. IsCapture(c[k + 1]) /\ ~c[k + 1].matched
      BY <2>1, <2>2, <2>5, TakeNothing
    <3>2. \A m \in 0..Len(p) : ~PassesTo(parts, k + 1, p, n, m)
      BY <2>3, <2>5 DEF At
    <3> QED
      BY <3>1, <3>2 DEF At
  <2> QED
    BY <2>4, <2>5
<1> HIDE DEF S
<1>4. L \in S
  BY <1>0, <1>2, <1>3, UpTo
<1>5. Good(L)
  BY <1>0, <1>4 DEF S
<1> QED
  BY <1>1, <1>5 DEF Passes, L, r

(* So there is one such place at most.                                      *)
LEMMA PassesToOnePlace ==
  ASSUME NEW parts \in Seq(Part), NEW p \in Seq(Char), NEW n \in 0..Len(p),
         NEW l \in 0..Len(p), NEW m \in 0..Len(p), Passes(parts, p, n, l), Passes(parts, p, n, m)
  PROVE  l = m
<1>1. At(Capture(parts, Dropped(p, n)), p, l) /\ At(Capture(parts, Dropped(p, n)), p, m)
  BY CaptureIsPasses
<1> QED
  BY <1>1, DroppedWhere DEF At

(* FlattenSeq, sequence by sequence.                                        *)
Joined(seqs, joined, k) == IF k = 1 THEN seqs[k] ELSE joined[k - 1] \o seqs[k]

LEMMA FlattenParts ==
  ASSUME NEW n \in Nat \ {0}, NEW seqs, DOMAIN seqs = 1..n, Len(seqs) = n
  PROVE  \E f : /\ f[1] = seqs[1]
                /\ \A k \in 2..n : f[k] = f[k - 1] \o seqs[k]
                /\ FlattenSeq(seqs) = f[n]
<1> DEFINE Goes(m) == \E f : f = [k \in 1..m |-> Joined(seqs, f, k)]
           S == {m \in Nat : Goes(m)}
           F == CHOOSE f : f = [k \in 1..n |-> Joined(seqs, f, k)]
<1>1. 0 \in S
  <2> DEFINE c == [k \in 1..0 |-> seqs[k]]
  <2>1. 1..0 = {}
    OBVIOUS
  <2>2. c = [k \in 1..0 |-> Joined(seqs, c, k)]
    BY <2>1
  <2> HIDE DEF c
  <2>3. Goes(0)
    BY <2>2
  <2> HIDE DEF Goes
  <2> QED
    BY <2>3
<1>2. ASSUME NEW m \in Nat, m \in S PROVE m + 1 \in S
  <2>1. PICK c : c = [k \in 1..m |-> Joined(seqs, c, k)]
    BY <1>2
  <2> DEFINE d == [k \in 1..(m + 1) |-> Joined(seqs, c, k)]
  <2>2. ASSUME NEW k \in 1..(m + 1) PROVE Joined(seqs, d, k) = Joined(seqs, c, k)
    <3>1. CASE k = 1
      BY <3>1 DEF Joined
    <3>2. CASE k # 1
      <4>1. k - 1 \in 1..m /\ k - 1 \in 1..(m + 1)
        BY <3>2
      <4>2. d[k - 1] = c[k - 1]
        BY <2>1, <4>1
      <4> HIDE DEF d
      <4> QED
        BY <3>2, <4>2 DEF Joined
    <3> QED
      BY <3>1, <3>2
  <2>3. d = [k \in 1..(m + 1) |-> Joined(seqs, d, k)]
    BY <2>2
  <2> HIDE DEF d
  <2>4. Goes(m + 1)
    BY <2>3
  <2> HIDE DEF Goes
  <2> QED
    BY <2>4
<1> HIDE DEF S
<1>3. n \in S
  BY <1>1, <1>2, UpTo
<1>4. Goes(n)
  BY <1>3 DEF S
<1>5. F = [k \in 1..n |-> Joined(seqs, F, k)]
  BY <1>4
<1>6. FlattenSeq(seqs) = F[n]
  BY DEF FlattenSeq, Joined
<1> HIDE DEF F
<1>7. /\ \A k \in 1..n : F[k] = Joined(seqs, F, k)
      /\ 1 \in 1..n /\ \A k \in 2..n : k \in 1..n /\ k # 1
  BY <1>5
<1>8. F[1] = seqs[1] /\ \A k \in 2..n : F[k] = F[k - 1] \o seqs[k]
  BY <1>7 DEF Joined
<1> QED
  BY <1>6, <1>8

LEMMA Concat ==
  ASSUME NEW S, NEW s \in Seq(S), NEW r \in Seq(S)
  PROVE  /\ s \o r \in Seq(S) /\ Len(s \o r) = Len(s) + Len(r)
         /\ \A e \in 1..Len(s) : (s \o r)[e] = s[e]
         /\ \A e \in 1..Len(r) : (s \o r)[Len(s) + e] = r[e]
OBVIOUS

(* Parts after parts.                                                       *)
LEMMA PassesAgree ==
  ASSUME NEW A, NEW B, NEW k \in Nat, \A j \in 1..k : A[j] = B[j], NEW p, NEW n, NEW m
  PROVE  PassesTo(A, k, p, n, m) <=> PassesTo(B, k, p, n, m)
BY DEF PassesTo, CutsBetween

LEMMA PassesConcat ==
  ASSUME NEW A \in Seq(Part), NEW B \in Seq(Part), NEW p \in Seq(Char), NEW n \in 0..Len(p), NEW m \in 0..Len(p)
  PROVE  Passes(A \o B, p, n, m) <=> \E l \in 0..Len(p) : Passes(A, p, n, l) /\ Passes(B, p, l, m)
<1> DEFINE C == A \o B
           a == Len(A)
           b == Len(B)
<1>1. /\ a \in Nat /\ b \in Nat /\ Len(C) = a + b
      /\ \A j \in 1..a : C[j] = A[j]
      /\ \A j \in 1..b : C[a + j] = B[j]
  BY Concat
<1> HIDE DEF C, a, b
<1> DEFINE Good(k) == \A i \in 0..Len(p) :
             PassesTo(C, a + k, p, n, i) <=>
               \E l \in 0..Len(p) : PassesTo(A, a, p, n, l) /\ PassesTo(B, k, p, l, i)
           S == {k \in Nat : k <= b => Good(k)}
<1>2. 0 \in S
  <2>1. a + 0 = a
    BY <1>1
  <2>2. ASSUME NEW i \in 0..Len(p)
        PROVE  PassesTo(C, a + 0, p, n, i) <=>
                 \E l \in 0..Len(p) : PassesTo(A, a, p, n, l) /\ PassesTo(B, 0, p, l, i)
    <3>1. PassesTo(C, a, p, n, i) <=> PassesTo(A, a, p, n, i)
      BY <1>1, PassesAgree
    <3>2. \A l \in 0..Len(p) : PassesTo(B, 0, p, l, i) <=> i = l
      BY PassesNone
    <3> QED
      BY <2>1, <3>1, <3>2
  <2>3. Good(0)
    BY <2>2
  <2> QED
    BY <2>3
<1>3. ASSUME NEW k \in Nat, k \in S PROVE k + 1 \in S
  <2> SUFFICES ASSUME k + 1 <= b PROVE Good(k + 1)
    OBVIOUS
  <2>1. Good(k)
    BY <1>1, <1>3
  <2>2. k + 1 \in 1..b /\ a + (k + 1) = (a + k) + 1 /\ a + k \in Nat
    BY <1>1
  <2>3. C[a + k + 1] = B[k + 1]
    BY <1>1, <2>2
  <2>4. ASSUME NEW i \in 0..Len(p)
        PROVE  PassesTo(C, a + (k + 1), p, n, i) <=>
                 \E l \in 0..Len(p) : PassesTo(A, a, p, n, l) /\ PassesTo(B, k + 1, p, l, i)
    <3>0. a + k \in Nat
      BY <2>2
    <3>1. PassesTo(C, a + k + 1, p, n, i) <=>
            \E j \in 0..Len(p) : PassesTo(C, a + k, p, n, j) /\ Takes(C[a + k + 1], p, j, i)
      BY <3>0, PassesOneMore
    <3>2. \A l \in 0..Len(p) : PassesTo(B, k + 1, p, l, i) <=>
            \E j \in 0..Len(p) : PassesTo(B, k, p, l, j) /\ Takes(B[k + 1], p, j, i)
      BY PassesOneMore
    <3>3. \A j \in 0..Len(p) : PassesTo(C, a + k, p, n, j) <=>
            \E l \in 0..Len(p) : PassesTo(A, a, p, n, l) /\ PassesTo(B, k, p, l, j)
      BY <2>1
    <3>4. (\E j \in 0..Len(p) : PassesTo(C, a + k, p, n, j) /\ Takes(B[k + 1], p, j, i))
            <=> \E l \in 0..Len(p) : PassesTo(A, a, p, n, l) /\ PassesTo(B, k + 1, p, l, i)
      BY <3>2, <3>3, Zenon
    <3> QED
      BY <2>2, <2>3, <3>1, <3>4
  <2> QED
    BY <2>4
<1> HIDE DEF S
<1>4. b \in S
  BY <1>1, <1>2, <1>3, UpTo
<1>5. Good(b)
  BY <1>1, <1>4 DEF S
<1> QED
  BY <1>1, <1>5 DEF Passes, C, a, b

(* Sequences of parts, one after the other from an empty one.               *)
LEMMA FlattenFromEmpty ==
  ASSUME NEW n \in Nat, NEW seqs \in [1..n -> Seq(Part)]
  PROVE  \E h \in [0..n -> Seq(Part)] :
           /\ h[0] = <<>> /\ h[n] = FlattenSeq(seqs)
           /\ \A k \in 1..n : h[k] = h[k - 1] \o seqs[k]
<1>0. DOMAIN seqs = 1..n /\ Len(seqs) = n /\ \A k \in 1..n : seqs[k] \in Seq(Part)
  OBVIOUS
<1>1. CASE n = 0
  <2>1. seqs = <<>> /\ FlattenSeq(seqs) = <<>>
    BY <1>0, <1>1 DEF FlattenSeq
  <2> DEFINE h == [k \in 0..n |-> <<>>]
  <2>2. h \in [0..n -> Seq(Part)] /\ h[0] = <<>> /\ h[n] = FlattenSeq(seqs)
    BY <2>1
  <2>3. 1..n = {}
    BY <1>1
  <2> HIDE DEF h
  <2> QED
    BY <2>2, <2>3
<1>2. CASE n # 0
  <2>0. n \in Nat \ {0}
    BY <1>2
  <2>1. PICK f : /\ f[1] = seqs[1]
                 /\ \A k \in 2..n : f[k] = f[k - 1] \o seqs[k]
                 /\ FlattenSeq(seqs) = f[n]
    BY <1>0, <2>0, FlattenParts, ZenonT(30)
  <2> DEFINE S == {k \in Nat : k + 1 <= n => f[k + 1] \in Seq(Part)}
  <2>2. 0 \in S
    BY <1>0, <2>0, <2>1
  <2>3. ASSUME NEW k \in Nat, k \in S PROVE k + 1 \in S
    <3> SUFFICES ASSUME NEW q \in 2..n, q = k + 1 + 1 PROVE f[q] \in Seq(Part)
      BY <2>0
    <3>1. q \in 1..n /\ q - 1 = k + 1 /\ k + 1 <= n
      OBVIOUS
    <3>2. f[q - 1] \in Seq(Part) /\ seqs[q] \in Seq(Part)
      BY <1>0, <2>3, <3>1
    <3>3. f[q] = f[q - 1] \o seqs[q]
      BY <2>1
    <3> QED
      BY <3>2, <3>3, Concat
  <2> HIDE DEF S
  <2>4. \A k \in Nat : k \in S
    BY <2>2, <2>3, UpTo
  <2>5. \A k \in 1..n : f[k] \in Seq(Part)
    <3> SUFFICES ASSUME NEW k \in 1..n PROVE f[k] \in Seq(Part)
      OBVIOUS
    <3>1. k - 1 \in Nat /\ k - 1 + 1 = k /\ k <= n
      OBVIOUS
    <3>2. k - 1 \in S
      BY <2>4, <3>1
    <3> QED
      BY <3>1, <3>2 DEF S
  <2> DEFINE h == [k \in 0..n |-> IF k = 0 THEN <<>> ELSE f[k]]
  <2>6. \A k \in 0..n : k # 0 => k \in 1..n
    OBVIOUS
  <2>7. h \in [0..n -> Seq(Part)]
    <3>1. <<>> \in Seq(Part)
      OBVIOUS
    <3> QED
      BY <2>5, <2>6, <3>1
  <2>8. h[0] = <<>> /\ h[n] = FlattenSeq(seqs)
    BY <2>0, <2>1
  <2>9. ASSUME NEW k \in 1..n PROVE h[k] = h[k - 1] \o seqs[k]
    <3>1. CASE k = 1
      <4>0. k - 1 = 0 /\ 1 \in 0..n /\ 0 \in 0..n /\ 1 # 0
        BY <2>0, <3>1
      <4>1. h[k] = seqs[1] /\ h[k - 1] = <<>>
        BY <2>1, <3>1, <4>0
      <4>2. seqs[1] \in Seq(Part)
        BY <1>0, <3>1
      <4>3. <<>> \o seqs[1] = seqs[1]
        BY <4>2
      <4> QED
        BY <3>1, <4>1, <4>3
    <3>2. CASE k # 1
      <4>1. k \in 2..n /\ k - 1 \in 0..n /\ k - 1 # 0 /\ k # 0 /\ k \in 0..n
        BY <3>2
      <4> QED
        BY <2>1, <4>1
    <3> QED
      BY <3>1, <3>2
  <2> HIDE DEF h
  <2> QED
    BY <2>7, <2>8, <2>9
<1> QED
  BY <1>1, <1>2

(* What passes through all of them passes through the first ones.           *)
LEMMA PassesBeginning ==
  ASSUME NEW n \in Nat, NEW seqs \in [1..n -> Seq(Part)], NEW h \in [0..n -> Seq(Part)],
         \A k \in 1..n : h[k] = h[k - 1] \o seqs[k],
         NEW p \in Seq(Char), NEW m \in 0..Len(p), Passes(h[n], p, 0, m), NEW k \in 0..n
  PROVE  \E l \in 0..Len(p) : Passes(h[k], p, 0, l)
<1>0. Len(p) \in Nat /\ 0 \in 0..Len(p)
  OBVIOUS
<1> DEFINE Good(j) == \E l \in 0..Len(p) : Passes(h[j], p, 0, l)
           S == {d \in Nat : d <= n => Good(n - d)}
<1>1. 0 \in S
  <2>1. n - 0 = n
    OBVIOUS
  <2> QED
    BY <2>1
<1>2. ASSUME NEW d \in Nat, d \in S PROVE d + 1 \in S
  <2> SUFFICES ASSUME d + 1 <= n PROVE Good(n - (d + 1))
    OBVIOUS
  <2>1. n - d \in 1..n /\ n - d - 1 = n - (d + 1) /\ n - (d + 1) \in 0..n /\ d <= n
    OBVIOUS
  <2>2. PICK l \in 0..Len(p) : Passes(h[n - d], p, 0, l)
    BY <1>2, <2>1
  <2>3. h[n - d] = h[n - (d + 1)] \o seqs[n - d]
    BY <2>1
  <2>4. h[n - (d + 1)] \in Seq(Part) /\ seqs[n - d] \in Seq(Part)
    BY <2>1
  <2>5. \E i \in 0..Len(p) : Passes(h[n - (d + 1)], p, 0, i) /\ Passes(seqs[n - d], p, i, l)
    BY <1>0, <2>2, <2>3, <2>4, PassesConcat, SMTT(30)
  <2> QED
    BY <2>5
<1> HIDE DEF S, Good
<1>3. n - k \in S
  <2>1. n - k \in Nat
    OBVIOUS
  <2> QED
    BY <1>1, <1>2, <2>1, UpTo
<1>4. Good(n - (n - k)) /\ n - (n - k) = k
  BY <1>3 DEF S
<1> QED
  BY <1>4 DEF Good

-----------------------------------------------------------------------------
(* Sequences, whatever they are of.                                         *)
IsSequence(s) == \E T : s \in Seq(T)

LEMMA SequenceIs ==
  ASSUME NEW s, IsSequence(s)
  PROVE  Len(s) \in Nat /\ DOMAIN s = 1..Len(s) /\ s = [k \in 1..Len(s) |-> s[k]]
BY DEF IsSequence

LEMMA SequenceWith ==
  ASSUME NEW s, NEW n \in Nat, s = [k \in 1..n |-> s[k]]
  PROVE  IsSequence(s) /\ Len(s) = n
<1> DEFINE T == {s[k] : k \in 1..n}
<1>1. s \in [1..n -> T]
  OBVIOUS
<1> HIDE DEF T
<1>2. s \in Seq(T) /\ Len(s) = n
  BY <1>1
<1> QED
  BY <1>2 DEF IsSequence

LEMMA SequenceAppended ==
  ASSUME NEW s, IsSequence(s), NEW e
  PROVE  /\ IsSequence(Append(s, e)) /\ Len(Append(s, e)) = Len(s) + 1
         /\ Append(s, e)[Len(s) + 1] = e
         /\ \A k \in 1..Len(s) : Append(s, e)[k] = s[k]
<1>1. PICK T : s \in Seq(T)
  BY DEF IsSequence
<1>2. s \in Seq(T \cup {e})
  BY <1>1
<1> DEFINE U == T \cup {e}
<1>3. e \in U
  OBVIOUS
<1> HIDE DEF U
<1>4. s \in Seq(U)
  BY <1>2 DEF U
<1>5. Append(s, e) \in Seq(U)
  BY <1>3, <1>4
<1> QED
  BY <1>4, <1>5 DEF IsSequence

LEMMA SequenceShortened ==
  ASSUME NEW s, IsSequence(s), NEW n \in 0..Len(s)
  PROVE  /\ IsSequence(SubSeq(s, 1, n)) /\ Len(SubSeq(s, 1, n)) = n
         /\ \A k \in 1..n : SubSeq(s, 1, n)[k] = s[k]
<1>1. PICK T : s \in Seq(T)
  BY DEF IsSequence
<1>2. SubSeq(s, 1, n) \in Seq(T) /\ Len(SubSeq(s, 1, n)) = n
  BY <1>1
<1> QED
  BY <1>1, <1>2 DEF IsSequence

Changed(s, n, e) == [s EXCEPT ![n] = e]

LEMMA SequenceChanged ==
  ASSUME NEW s, IsSequence(s), NEW n \in 1..Len(s), NEW e
  PROVE  /\ IsSequence(Changed(s, n, e)) /\ Len(Changed(s, n, e)) = Len(s)
         /\ Changed(s, n, e)[n] = e
         /\ \A k \in 1..Len(s) : k # n => Changed(s, n, e)[k] = s[k]
<1> DEFINE t == Changed(s, n, e)
<1>1. Len(s) \in Nat /\ DOMAIN s = 1..Len(s) /\ s = [k \in 1..Len(s) |-> s[k]]
  BY SequenceIs
<1>2. t = [k \in 1..Len(s) |-> t[k]]
  BY <1>1 DEF Changed
<1>3. t[n] = e /\ \A k \in 1..Len(s) : k # n => t[k] = s[k]
  BY <1>1 DEF Changed
<1> HIDE DEF t
<1>4. IsSequence(t) /\ Len(t) = Len(s)
  BY <1>1, <1>2, SequenceWith
<1> QED
  BY <1>3, <1>4 DEF t

-----------------------------------------------------------------------------
(* A tree of routers.                                                       *)
LEMMA TableIs ==
  ASSUME NEW t \in Tables
  PROVE  /\ Len(t) \in Nat \ {0} /\ DOMAIN t = 1..Len(t)
         /\ None \notin DOMAIN t /\ None # 0 /\ 0 \notin DOMAIN t /\ 1 \in DOMAIN t
         /\ \A r \in DOMAIN t :
              /\ Len(t[r]) \in Nat /\ DOMAIN t[r] = 1..Len(t[r])
              /\ \A i \in DOMAIN t[r] :
                   /\ t[r][i].url \in Seq(Char)
                   /\ t[r][i].router \in DOMAIN t \cup {None}
                   /\ t[r][i].router # None => t[r][i].router > r
<1> DEFINE R == [url : Seq(Char), name : Name \cup {None}, router : DOMAIN t \cup {None}]
<1>1. t \in Seq(Seq(R)) /\ t # <<>> /\ None \notin Nat
  BY TablesAssumption DEF IsTable
<1>2. \A r \in DOMAIN t : \A i \in DOMAIN t[r] : t[r][i].router # None => t[r][i].router > r
  BY TablesAssumption DEF IsTable
<1>3. \A u \in R : u.url \in Seq(Char) /\ u.router \in DOMAIN t \cup {None}
  OBVIOUS
<1> HIDE DEF R
<1>4. /\ Len(t) \in Nat \ {0} /\ DOMAIN t = 1..Len(t)
      /\ \A r \in DOMAIN t : t[r] \in Seq(R)
  BY <1>1
<1>5. \A r \in DOMAIN t : Len(t[r]) \in Nat /\ DOMAIN t[r] = 1..Len(t[r]) /\ \A i \in DOMAIN t[r] : t[r][i] \in R
  BY <1>4
<1>6. None \notin DOMAIN t /\ None # 0 /\ 0 \notin DOMAIN t /\ 1 \in DOMAIN t
  BY <1>1, <1>4
<1> QED
  BY <1>2, <1>3, <1>4, <1>5, <1>6

(* The routers of a chain, one by one.                                      *)
RouterAt(c, k, r) ==
  IF k = 0 THEN 1
  ELSE IF r[k - 1] \in DOMAIN table /\ c[k] \in DOMAIN table[r[k - 1]] THEN table[r[k - 1]][c[k]].router ELSE 0

LEMMA ThroughSteps ==
  ASSUME NEW c, NEW n \in Nat, Len(c) = n
  PROVE  \A k \in 0..n : Through(c)[k] = RouterAt(c, k, Through(c))
<1> DEFINE Goes(m) == \E f : f = [k \in 0..m |-> RouterAt(c, k, f)]
           S == {m \in Nat : Goes(m)}
           F == CHOOSE f : f = [k \in 0..n |-> RouterAt(c, k, f)]
<1>1. 0 \in S
  <2> DEFINE d == [k \in 0..0 |-> 1]
  <2>1. \A k \in 0..0 : k = 0
    OBVIOUS
  <2>2. d = [k \in 0..0 |-> RouterAt(c, k, d)]
    BY <2>1 DEF RouterAt
  <2> HIDE DEF d
  <2>3. Goes(0)
    BY <2>2
  <2> HIDE DEF Goes
  <2> QED
    BY <2>3
<1>2. ASSUME NEW m \in Nat, m \in S PROVE m + 1 \in S
  <2>1. PICK b : b = [k \in 0..m |-> RouterAt(c, k, b)]
    BY <1>2
  <2> DEFINE d == [k \in 0..(m + 1) |-> RouterAt(c, k, b)]
  <2>2. ASSUME NEW k \in 0..(m + 1) PROVE RouterAt(c, k, d) = RouterAt(c, k, b)
    <3>1. CASE k = 0
      BY <3>1 DEF RouterAt
    <3>2. CASE k # 0
      <4>1. k - 1 \in 0..m /\ k - 1 \in 0..(m + 1)
        BY <3>2
      <4>2. d[k - 1] = b[k - 1]
        BY <2>1, <4>1
      <4> HIDE DEF d
      <4> QED
        BY <3>2, <4>2 DEF RouterAt
    <3> QED
      BY <3>1, <3>2
  <2>3. d = [k \in 0..(m + 1) |-> RouterAt(c, k, d)]
    BY <2>2
  <2> HIDE DEF d
  <2>4. Goes(m + 1)
    BY <2>3
  <2> HIDE DEF Goes
  <2> QED
    BY <2>4
<1> HIDE DEF S
<1>3. n \in S
  BY <1>1, <1>2, UpTo
<1>4. Goes(n)
  BY <1>3 DEF S
<1>5. F = [k \in 0..n |-> RouterAt(c, k, F)]
  BY <1>4
<1>6. Through(c) = F
  BY DEF Through, RouterAt
<1> HIDE DEF F
<1> QED
  BY <1>5, <1>6

(* Chains that begin the same lead through the same routers.                *)
LEMMA ThroughBeginning ==
  ASSUME NEW c, NEW d, Len(c) \in Nat, Len(d) \in Nat,
         NEW n \in Nat, n <= Len(c), n <= Len(d), \A k \in 1..n : c[k] = d[k], NEW j \in 0..n
  PROVE  Through(c)[j] = Through(d)[j]
<1> DEFINE S == {k \in Nat : k <= n => Through(c)[k] = Through(d)[k]}
<1>1. 0 \in S
  <2>1. 0 \in 0..Len(c) /\ 0 \in 0..Len(d)
    OBVIOUS
  <2>2. Through(c)[0] = RouterAt(c, 0, Through(c)) /\ Through(d)[0] = RouterAt(d, 0, Through(d))
    BY <2>1, ThroughSteps
  <2>3. Through(c)[0] = Through(d)[0]
    BY <2>2 DEF RouterAt
  <2> QED
    BY <2>3
<1>2. ASSUME NEW k \in Nat, k \in S PROVE k + 1 \in S
  <2> SUFFICES ASSUME k + 1 <= n PROVE Through(c)[k + 1] = Through(d)[k + 1]
    OBVIOUS
  <2>1. k + 1 \in 0..Len(c) /\ k + 1 \in 0..Len(d) /\ k + 1 # 0 /\ k + 1 - 1 = k /\ k + 1 \in 1..n
    OBVIOUS
  <2>2. Through(c)[k + 1] = RouterAt(c, k + 1, Through(c)) /\ Through(d)[k + 1] = RouterAt(d, k + 1, Through(d))
    BY <2>1, ThroughSteps
  <2>3. Through(c)[k] = Through(d)[k] /\ c[k + 1] = d[k + 1]
    BY <1>2, <2>1
  <2> QED
    BY <2>1, <2>2, <2>3 DEF RouterAt
<1> HIDE DEF S
<1>3. j \in S
  BY <1>1, <1>2, UpTo
<1> QED
  BY <1>3 DEF S

(* A chain has a route of each router that it leads through, and only its   *)
(* last one has a handler.                                                  *)
LEMMA ChainIs ==
  ASSUME table \in Tables, NEW c \in Chains
  PROVE  /\ IsSequence(c) /\ Len(c) \in Nat \ {0}
         /\ Through(c)[0] = 1 /\ Through(c)[Len(c)] = None
         /\ \A k \in 1..Len(c) :
              /\ Through(c)[k - 1] \in DOMAIN table
              /\ c[k] \in DOMAIN table[Through(c)[k - 1]]
              /\ Through(c)[k] = table[Through(c)[k - 1]][c[k]].router
<1> DEFINE D == UNION {DOMAIN table[r] : r \in DOMAIN table}
           L == Len(c)
           r == Through(c)
<1>1. PICK m \in 0..Len(table) : c \in [1..m -> D]
  BY DEF Chains, SeqOf
<1> HIDE DEF D
<1>2. m \in Nat
  BY <1>1, TableIs
<1>3. c \in Seq(D) /\ L = m /\ L \in Nat
  BY <1>1, <1>2
<1>4. r[L] = None
  BY DEF Chains
<1>5. \A k \in 0..L : r[k] = RouterAt(c, k, r)
  BY <1>3, ThroughSteps
<1> HIDE DEF L, r
<1>6. r[0] = 1 /\ 0 \in 0..L
  <2>1. 0 \in 0..L
    BY <1>3
  <2>2. r[0] = RouterAt(c, 0, r)
    BY <1>5, <2>1
  <2> QED
    BY <2>1, <2>2 DEF RouterAt
<1>7. L # 0
  <2>1. 1 # None
    BY TableIs
  <2> QED
    BY <1>4, <1>6, <2>1
<1>8. \A k \in 1..L : k \in 0..L /\ k # 0 /\ k - 1 \in 0..L
  BY <1>3
<1>9. \A k \in 1..L : r[k] = IF r[k - 1] \in DOMAIN table /\ c[k] \in DOMAIN table[r[k - 1]]
                               THEN table[r[k - 1]][c[k]].router ELSE 0
  BY <1>5, <1>8 DEF RouterAt
<1>10. ASSUME NEW k \in 1..L, r[k] = 0 PROVE FALSE
  <2> DEFINE S == {d \in Nat : k + d <= L => r[k + d] = 0}
  <2>0. k \in Nat
    OBVIOUS
  <2>1. 0 \in S
    <3>1. k + 0 = k
      OBVIOUS
    <3> QED
      BY <1>10, <3>1
  <2>2. ASSUME NEW d \in Nat, d \in S PROVE d + 1 \in S
    <3> SUFFICES ASSUME k + (d + 1) <= L PROVE r[k + (d + 1)] = 0
      OBVIOUS
    <3>1. k + (d + 1) \in 1..L /\ k + (d + 1) - 1 = k + d /\ k + d <= L
      BY <1>3
    <3>2. r[k + d] = 0
      BY <2>2, <3>1
    <3>3. 0 \notin DOMAIN table
      BY TableIs
    <3> QED
      BY <1>9, <3>1, <3>2, <3>3, SMTT(30)
  <2> HIDE DEF S
  <2>3. L - k \in Nat /\ k + (L - k) = L /\ L <= L
    BY <1>3
  <2>4. L - k \in S
    BY <2>1, <2>2, <2>3, UpTo
  <2>5. r[L] = 0
    BY <2>3, <2>4 DEF S
  <2>6. None # 0
    BY TableIs
  <2> QED
    BY <1>4, <2>5, <2>6
<1>11. ASSUME NEW k \in 1..L
       PROVE  /\ r[k - 1] \in DOMAIN table /\ c[k] \in DOMAIN table[r[k - 1]]
              /\ r[k] = table[r[k - 1]][c[k]].router
  BY <1>9, <1>10
<1>12. IsSequence(c)
  BY <1>3 DEF IsSequence
<1> QED
  BY <1>3, <1>4, <1>6, <1>7, <1>11, <1>12 DEF L, r

-----------------------------------------------------------------------------
(* The frames of a search: each is at a route of its router, that leads to  *)
(* the router of the next one.                                              *)
IsFrame(f) ==
  /\ f \in [router : DOMAIN table, at : Nat, rest : {f.rest}, taken : {f.taken}]
  /\ f.at <= Len(table[f.router]) + 1
LeadsTo(f, g) == f.at \in DOMAIN table[f.router] /\ table[f.router][f.at].router = g.router
Frames(fs) ==
  /\ IsSequence(fs) /\ Len(fs) # 0
  /\ \A k \in 1..Len(fs) : IsFrame(fs[k])
  /\ fs[1].router = 1
  /\ \A k \in 1..(Len(fs) - 1) : LeadsTo(fs[k], fs[k + 1])
Ats(fs) == [k \in DOMAIN fs |-> fs[k].at]

LEMMA AtsIs ==
  ASSUME NEW fs, IsSequence(fs)
  PROVE  /\ IsSequence(Ats(fs)) /\ Len(Ats(fs)) = Len(fs) /\ DOMAIN Ats(fs) = 1..Len(fs)
         /\ \A k \in 1..Len(fs) : Ats(fs)[k] = fs[k].at
<1> DEFINE c == Ats(fs)
<1>1. Len(fs) \in Nat /\ DOMAIN fs = 1..Len(fs)
  BY SequenceIs
<1>2. c = [k \in 1..Len(fs) |-> fs[k].at]
  BY <1>1 DEF Ats
<1>3. c = [k \in 1..Len(fs) |-> c[k]] /\ DOMAIN c = 1..Len(fs) /\ \A k \in 1..Len(fs) : c[k] = fs[k].at
  BY <1>2
<1> HIDE DEF c
<1>4. IsSequence(c) /\ Len(c) = Len(fs)
  BY <1>1, <1>3, SequenceWith
<1> QED
  BY <1>3, <1>4 DEF c

(* The last frame left is at its next route.                                *)
MovedTo(fs, gs, n) ==
  /\ IsSequence(gs) /\ Len(gs) = n
  /\ \A k \in 1..(n - 1) : gs[k] = fs[k]
  /\ IsFrame(gs[n])
  /\ gs[n].router = fs[n].router /\ gs[n].rest = fs[n].rest /\ gs[n].at = fs[n].at + 1
  /\ gs[n].taken = fs[n].taken

(* There is one more frame.                                                 *)
EnteredTo(fs, gs, at) ==
  /\ IsSequence(gs) /\ Len(gs) = Len(fs) + 1
  /\ \A k \in 1..Len(fs) : gs[k] = fs[k]
  /\ IsFrame(gs[Len(fs) + 1])
  /\ gs[Len(fs) + 1].at = at

LEMMA FrameMoved ==
  ASSUME NEW f, IsFrame(f), table \in Tables, f.at # Len(table[f.router]) + 1
  PROVE  LET g == [f EXCEPT !.at = @ + 1]
         IN  IsFrame(g) /\ g.router = f.router /\ g.rest = f.rest /\ g.at = f.at + 1 /\ g.taken = f.taken
<1> DEFINE R == [router : DOMAIN table, at : Nat, rest : {f.rest}, taken : {f.taken}]
           g == [f EXCEPT !.at = @ + 1]
<1>1. f \in R /\ f.at <= Len(table[f.router]) + 1 /\ f.at \in Nat /\ f.router \in DOMAIN table
  BY DEF IsFrame
<1>2. g \in R /\ g.router = f.router /\ g.rest = f.rest /\ g.at = f.at + 1 /\ g.taken = f.taken
  BY <1>1
<1>3. Len(table[f.router]) \in Nat
  BY <1>1, TableIs
<1> HIDE DEF g
<1>4. g.at <= Len(table[g.router]) + 1
  BY <1>1, <1>2, <1>3
<1> QED
  BY <1>2, <1>4 DEF IsFrame, g

Moved(fs, n) == [SubSeq(fs, 1, n) EXCEPT ![n].at = @ + 1]

LEMMA FramesMoved ==
  ASSUME NEW fs, Frames(fs), table \in Tables, NEW n \in 1..Len(fs),
         fs[n].at # Len(table[fs[n].router]) + 1
  PROVE  MovedTo(fs, Moved(fs, n), n)
<1> DEFINE s == SubSeq(fs, 1, n)
           g == [s[n] EXCEPT !.at = @ + 1]
           gs == Changed(s, n, g)
<1>0. IsSequence(fs) /\ IsFrame(fs[n]) /\ Len(fs) \in Nat
  BY SequenceIs DEF Frames
<1>1. n \in 0..Len(fs) /\ n \in 1..n
  BY <1>0
<1>2. IsSequence(s) /\ Len(s) = n /\ \A k \in 1..n : s[k] = fs[k]
  BY <1>0, <1>1, SequenceShortened
<1> HIDE DEF s
<1>3. s[n] = fs[n]
  BY <1>1, <1>2
<1>4. /\ IsFrame(g) /\ g.router = fs[n].router /\ g.rest = fs[n].rest /\ g.at = fs[n].at + 1
      /\ g.taken = fs[n].taken
  BY <1>0, <1>3, FrameMoved
<1>5. [s EXCEPT ![n].at = @ + 1] = gs
  BY DEF Changed
<1> HIDE DEF g
<1>6. IsSequence(gs) /\ Len(gs) = n /\ gs[n] = g /\ \A k \in 1..n : k # n => gs[k] = s[k]
  BY <1>1, <1>2, SequenceChanged
<1> HIDE DEF gs
<1>7. \A k \in 1..(n - 1) : k \in 1..n /\ k # n
  BY <1>0
<1>8. \A k \in 1..(n - 1) : gs[k] = fs[k]
  BY <1>2, <1>6, <1>7
<1>9. MovedTo(fs, gs, n)
  BY <1>4, <1>6, <1>8 DEF MovedTo
<1> QED
  BY <1>5, <1>9 DEF s, Moved

LEMMA FramesGo ==
  ASSUME NEW fs, Frames(fs), table \in Tables, fs[Len(fs)].at # Len(table[fs[Len(fs)].router]) + 1
  PROVE  MovedTo(fs, [fs EXCEPT ![Len(fs)].at = @ + 1], Len(fs))
<1> DEFINE n == Len(fs)
<1>1. IsSequence(fs) /\ n # 0
  BY DEF Frames
<1>2. n \in 1..Len(fs) /\ SubSeq(fs, 1, n) = fs
  <2>1. PICK T : fs \in Seq(T)
    BY <1>1 DEF IsSequence
  <2> QED
    BY <1>1, <2>1
<1> HIDE DEF n
<1>3. fs[n].at # Len(table[fs[n].router]) + 1
  BY DEF n
<1>4. MovedTo(fs, Moved(fs, n), n)
  BY <1>2, <1>3, FramesMoved
<1> QED
  BY <1>2, <1>4 DEF n, Moved

LEMMA FramesEntered ==
  ASSUME NEW fs, Frames(fs), table \in Tables, NEW r \in DOMAIN table, NEW rest, NEW taken, NEW at \in {0, 1}
  PROVE  /\ EnteredTo(fs, Append(fs, Frame(r, at, rest, taken)), at)
         /\ Append(fs, Frame(r, at, rest, taken))[Len(fs) + 1].router = r
         /\ Append(fs, Frame(r, at, rest, taken))[Len(fs) + 1].rest = rest
         /\ Append(fs, Frame(r, at, rest, taken))[Len(fs) + 1].taken = taken
<1> DEFINE f == Frame(r, at, rest, taken)
           gs == Append(fs, f)
<1>1. f.router = r /\ f.at = at /\ f.rest = rest /\ f.taken = taken
  BY DEF Frame
<1>2. f \in [router : DOMAIN table, at : Nat, rest : {rest}, taken : {taken}]
  BY DEF Frame
<1> HIDE DEF f
<1>3. Len(table[r]) \in Nat
  BY TableIs
<1>4. IsFrame(f)
  BY <1>1, <1>2, <1>3 DEF IsFrame
<1>5. IsSequence(gs) /\ Len(gs) = Len(fs) + 1 /\ gs[Len(fs) + 1] = f /\ \A k \in 1..Len(fs) : gs[k] = fs[k]
  BY SequenceAppended DEF Frames
<1> HIDE DEF gs
<1> QED
  BY <1>1, <1>4, <1>5 DEF EnteredTo, gs, f

LEMMA MovedFrames ==
  ASSUME NEW fs, Frames(fs), NEW n \in 1..Len(fs), NEW gs, MovedTo(fs, gs, n)
  PROVE  Frames(gs)
<1>0. Len(fs) \in Nat /\ n \in Nat /\ n # 0
  BY SequenceIs DEF Frames
<1>1. IsSequence(gs) /\ Len(gs) = n
  BY DEF MovedTo
<1>2. ASSUME NEW k \in 1..n PROVE IsFrame(gs[k])
  <2>1. CASE k = n
    BY <2>1 DEF MovedTo
  <2>2. CASE k # n
    <3>1. k \in 1..(n - 1) /\ k \in 1..Len(fs)
      BY <1>0, <2>2
    <3> QED
      BY <3>1 DEF MovedTo, Frames
  <2> QED
    BY <2>1, <2>2
<1>3. gs[1].router = 1
  <2>1. CASE n = 1
    BY <2>1 DEF MovedTo, Frames
  <2>2. CASE n # 1
    <3>1. 1 \in 1..(n - 1)
      BY <1>0, <2>2
    <3> QED
      BY <3>1 DEF MovedTo, Frames
  <2> QED
    BY <2>1, <2>2
<1>4. ASSUME NEW k \in 1..(n - 1) PROVE LeadsTo(gs[k], gs[k + 1])
  <2>1. k \in 1..(Len(fs) - 1) /\ (k + 1 \in 1..(n - 1) \/ k + 1 = n)
    BY <1>0
  <2>2. LeadsTo(fs[k], fs[k + 1]) /\ gs[k] = fs[k]
    BY <2>1 DEF MovedTo, Frames
  <2>3. gs[k + 1].router = fs[k + 1].router
    BY <2>1 DEF MovedTo
  <2> QED
    BY <2>2, <2>3 DEF LeadsTo
<1> QED
  BY <1>0, <1>1, <1>2, <1>3, <1>4 DEF Frames

LEMMA EnteredFrames ==
  ASSUME NEW fs, Frames(fs), NEW at, NEW gs, EnteredTo(fs, gs, at), LeadsTo(fs[Len(fs)], gs[Len(fs) + 1])
  PROVE  Frames(gs)
<1> DEFINE n == Len(fs)
<1>0. n \in Nat /\ n # 0 /\ n + 1 # 0 /\ 1 \in 1..n
  BY SequenceIs DEF Frames
<1>1. IsSequence(gs) /\ Len(gs) = n + 1 /\ \A k \in 1..n : gs[k] = fs[k]
  BY DEF EnteredTo
<1>2. ASSUME NEW k \in 1..(n + 1) PROVE IsFrame(gs[k])
  <2>1. CASE k = n + 1
    BY <2>1 DEF EnteredTo
  <2>2. CASE k # n + 1
    <3>1. k \in 1..n
      BY <1>0, <2>2
    <3> QED
      BY <1>1, <3>1 DEF Frames
  <2> QED
    BY <2>1, <2>2
<1>3. gs[1].router = 1
  BY <1>0, <1>1 DEF Frames
<1>4. ASSUME NEW k \in 1..n PROVE LeadsTo(gs[k], gs[k + 1])
  <2>1. CASE k = n
    BY <1>1, <2>1
  <2>2. CASE k # n
    <3>1. k \in 1..(n - 1) /\ k + 1 \in 1..n
      BY <1>0, <2>2
    <3> QED
      BY <1>1, <3>1 DEF Frames
  <2> QED
    BY <2>1, <2>2
<1>5. n + 1 - 1 = n
  BY <1>0
<1> QED
  BY <1>0, <1>1, <1>2, <1>3, <1>4, <1>5 DEF Frames

-----------------------------------------------------------------------------
(* Every pattern has its parts.                                             *)
Matching ==
  /\ DOMAIN matchers = DOMAIN table
  /\ \A r \in DOMAIN table : /\ DOMAIN matchers[r] = DOMAIN table[r]
                             /\ \A i \in DOMAIN table[r] : matchers[r][i] \in Seq(Part)

(* What the route of a frame captures, and the frames of a search for the   *)
(* handler of p: what one leaves of the path is what the next one has.      *)
CapturedBy(f) == Capture(matchers[f.router][f.at], f.rest)
Searching(fs, p) ==
  /\ Frames(fs)
  /\ p \in Seq(Char) /\ fs[1].rest = p
  /\ \A k \in 1..Len(fs) : fs[k].at # 0
  /\ \A k \in 1..(Len(fs) - 1) : CapturedBy(fs[k]).matched /\ CapturedBy(fs[k]).rest = fs[k + 1].rest

(* A chain that begins with the routes that n frames are at.                *)
Begins(c, fs, n) == n <= Len(c) /\ \A k \in 1..n : c[k] = fs[k].at

LEMMA ThroughFrames ==
  ASSUME NEW fs, Frames(fs), NEW c, Len(c) \in Nat, NEW n \in 0..Len(fs), Begins(c, fs, n),
         NEW k \in 0..n, k < Len(fs)
  PROVE  Through(c)[k] = fs[k + 1].router
<1>0. Len(fs) \in Nat /\ n \in Nat /\ n <= Len(fs) /\ n <= Len(c)
  BY SequenceIs DEF Frames, Begins
<1> DEFINE S == {j \in Nat : j <= n /\ j < Len(fs) => Through(c)[j] = fs[j + 1].router}
<1>1. 0 \in S
  <2>1. Through(c)[0] = RouterAt(c, 0, Through(c))
    BY ThroughSteps
  <2>2. Through(c)[0] = fs[0 + 1].router
    BY <2>1 DEF RouterAt, Frames
  <2> QED
    BY <2>2
<1>2. ASSUME NEW j \in Nat, j \in S PROVE j + 1 \in S
  <2> SUFFICES ASSUME j + 1 <= n, j + 1 < Len(fs) PROVE Through(c)[j + 1] = fs[j + 1 + 1].router
    OBVIOUS
  <2> DEFINE i == j + 1
  <2>1. i \in 1..n /\ i \in 1..(Len(fs) - 1) /\ i \in 0..Len(c) /\ i # 0 /\ i - 1 = j /\ i \in 1..Len(fs) /\ i \in Nat
    BY <1>0
  <2>2. Through(c)[j] = fs[i].router
    BY <1>0, <1>2, <2>1
  <2> HIDE DEF i
  <2>3. LeadsTo(fs[i], fs[i + 1]) /\ IsFrame(fs[i]) /\ c[i] = fs[i].at
    BY <2>1 DEF Frames, Begins
  <2>4. fs[i].router \in DOMAIN table
    BY <2>3 DEF IsFrame
  <2>5. Through(c)[i] = RouterAt(c, i, Through(c))
    BY <2>1, ThroughSteps
  <2>6. Through(c)[i] = fs[i + 1].router
    BY <2>1, <2>2, <2>3, <2>4, <2>5 DEF RouterAt, LeadsTo
  <2> QED
    BY <2>6 DEF i
<1> HIDE DEF S
<1>3. k \in S
  BY <1>0, <1>1, <1>2, UpTo
<1> QED
  BY <1>0, <1>3 DEF S

(* The parts of a chain, pattern by pattern.                                *)
Patterns(c) == [k \in DOMAIN c |-> matchers[Through(c)[k - 1]][c[k]]]
Together(c, h) ==
  /\ h \in [0..Len(c) -> Seq(Part)] /\ h[0] = <<>> /\ h[Len(c)] = PartsOf(c)
  /\ \A k \in 1..Len(c) : h[k] = h[k - 1] \o Patterns(c)[k]

LEMMA PatternsOfChain ==
  ASSUME table \in Tables, Matching, NEW c \in Chains
  PROVE  /\ Patterns(c) \in [1..Len(c) -> Seq(Part)]
         /\ \A k \in 1..Len(c) : Patterns(c)[k] = matchers[Through(c)[k - 1]][c[k]]
         /\ \E h : Together(c, h)
<1>1. /\ IsSequence(c) /\ Len(c) \in Nat
      /\ \A k \in 1..Len(c) : /\ Through(c)[k - 1] \in DOMAIN table
                              /\ c[k] \in DOMAIN table[Through(c)[k - 1]]
  BY ChainIs
<1>2. DOMAIN c = 1..Len(c)
  BY <1>1, SequenceIs
<1>3. \A k \in 1..Len(c) : matchers[Through(c)[k - 1]][c[k]] \in Seq(Part)
  BY <1>1 DEF Matching
<1> DEFINE s == Patterns(c)
<1>4. s = [k \in 1..Len(c) |-> matchers[Through(c)[k - 1]][c[k]]]
  BY <1>2 DEF Patterns
<1>5. s \in [1..Len(c) -> Seq(Part)] /\ \A k \in 1..Len(c) : s[k] = matchers[Through(c)[k - 1]][c[k]]
  BY <1>3, <1>4
<1>6. PartsOf(c) = FlattenSeq(s)
  BY DEF PartsOf, Patterns
<1> HIDE DEF s
<1>7. PICK h \in [0..Len(c) -> Seq(Part)] :
        /\ h[0] = <<>> /\ h[Len(c)] = FlattenSeq(s)
        /\ \A k \in 1..Len(c) : h[k] = h[k - 1] \o s[k]
  BY <1>1, <1>5, FlattenFromEmpty
<1>8. Together(c, h)
  BY <1>6, <1>7 DEF Together, s
<1> QED
  BY <1>5, <1>8 DEF s

(* The pattern that a chain has where a frame is, when it begins so.        *)
LEMMA PatternOfFrame ==
  ASSUME table \in Tables, Matching, NEW c \in Chains, NEW fs, Frames(fs), NEW n \in 1..Len(fs), Begins(c, fs, n)
  PROVE  /\ n \in 1..Len(c) /\ fs[n].at \in DOMAIN table[fs[n].router]
         /\ Patterns(c)[n] = matchers[fs[n].router][fs[n].at]
         /\ Through(c)[n] = table[fs[n].router][fs[n].at].router
<1>0. Len(fs) \in Nat /\ Len(c) \in Nat
  BY SequenceIs, ChainIs DEF Frames
<1>1. /\ n \in 1..Len(c) /\ n \in 1..n /\ n \in 0..Len(fs) /\ n - 1 \in 0..n /\ n - 1 < Len(fs) /\ n - 1 + 1 = n
  BY <1>0 DEF Begins
<1>2. c[n] = fs[n].at
  BY <1>1 DEF Begins
<1>3. Through(c)[n - 1] = fs[n - 1 + 1].router
  BY <1>0, <1>1, ThroughFrames
<1>4. Patterns(c)[n] = matchers[Through(c)[n - 1]][c[n]]
  BY <1>1, PatternsOfChain
<1>5. c[n] \in DOMAIN table[Through(c)[n - 1]] /\ Through(c)[n] = table[Through(c)[n - 1]][c[n]].router
  BY <1>1, ChainIs
<1> QED
  BY <1>1, <1>2, <1>3, <1>4, <1>5

(* What a frame has of the path is what the patterns before it leave.       *)
LEMMA RestOfFrame ==
  ASSUME table \in Tables, Matching, NEW c \in Chains, NEW fs, NEW p, Searching(fs, p),
         NEW h, Together(c, h), NEW n \in 0..(Len(fs) - 1), Begins(c, fs, n)
  PROVE  \E l \in 0..Len(p) : fs[n + 1].rest = Dropped(p, l) /\ Passes(h[n], p, 0, l)
<1>0. /\ Frames(fs) /\ Len(fs) \in Nat /\ Len(c) \in Nat /\ p \in Seq(Char) /\ Len(p) \in Nat /\ n \in Nat
      /\ n <= Len(c) /\ n <= Len(fs) - 1 /\ 0 \in 0..Len(p)
  BY SequenceIs, ChainIs DEF Frames, Searching, Begins
<1> DEFINE Good(j) == \E l \in 0..Len(p) : fs[j + 1].rest = Dropped(p, l) /\ Passes(h[j], p, 0, l)
           S == {j \in Nat : j <= n => Good(j)}
<1>1. 0 \in S
  <2>1. h[0] = <<>> /\ Len(h[0]) = 0
    BY DEF Together
  <2>2. Passes(h[0], p, 0, 0)
    BY <1>0, <2>1, PassesNone DEF Passes
  <2>3. fs[1].rest = p /\ Dropped(p, 0) = p
    BY <1>0 DEF Searching, Dropped
  <2>4. Good(0)
    BY <1>0, <2>2, <2>3
  <2> QED
    BY <2>4
<1>2. ASSUME NEW j \in Nat, j \in S PROVE j + 1 \in S
  <2> SUFFICES ASSUME j + 1 <= n PROVE Good(j + 1)
    OBVIOUS
  <2> DEFINE i == j + 1
  <2>1. /\ i \in 1..Len(fs) /\ i \in 1..(Len(fs) - 1) /\ i \in 1..Len(c) /\ i - 1 = j /\ i \in Nat /\ i <= n
        /\ j \in 0..Len(c) /\ i \in 0..Len(c)
    BY <1>0
  <2>2. PICK l \in 0..Len(p) : fs[i].rest = Dropped(p, l) /\ Passes(h[j], p, 0, l)
    BY <1>0, <1>2
  <2> HIDE DEF i
  <2>3. Begins(c, fs, i)
    BY <1>0, <2>1 DEF Begins
  <2>4. Patterns(c)[i] = matchers[fs[i].router][fs[i].at]
    BY <1>0, <2>1, <2>3, PatternOfFrame
  <2>5. Patterns(c)[i] \in Seq(Part)
    BY <2>1, PatternsOfChain
  <2>6. CapturedBy(fs[i]).matched /\ CapturedBy(fs[i]).rest = fs[i + 1].rest
    BY <2>1 DEF Searching
  <2>7. CapturedBy(fs[i]) = Capture(Patterns(c)[i], Dropped(p, l))
    BY <2>2, <2>4 DEF CapturedBy
  <2>8. PICK m \in 0..Len(p) : At(CapturedBy(fs[i]), p, m)
    BY <1>0, <2>5, <2>6, <2>7, CaptureIsPasses
  <2>9. Passes(Patterns(c)[i], p, l, m)
    BY <1>0, <2>5, <2>7, <2>8, CaptureIsPasses
  <2>10. h[i] = h[j] \o Patterns(c)[i] /\ h[j] \in Seq(Part)
    BY <2>1 DEF Together
  <2>11. Passes(h[i], p, 0, m)
    BY <1>0, <2>2, <2>5, <2>9, <2>10, PassesConcat
  <2>12. fs[i + 1].rest = Dropped(p, m)
    BY <2>6, <2>8 DEF At
  <2> QED
    BY <2>11, <2>12 DEF i
<1> HIDE DEF S, Good
<1>3. n \in S
  BY <1>0, <1>1, <1>2, UpTo
<1> QED
  BY <1>0, <1>3 DEF S, Good

-----------------------------------------------------------------------------
(* The last frame.                                                          *)
RouteOf(f) == table[f.router][f.at]

(* A chain that begins as the frames do and fits the path: the last frame's *)
(* route captures, and all of the rest when it has the handler.             *)
LEMMA FittingIsCaptured ==
  ASSUME table \in Tables, Matching, NEW c \in Chains, NEW fs, NEW p, Searching(fs, p),
         Begins(c, fs, Len(fs)), Fits(PartsOf(c), p)
  PROVE  /\ CapturedBy(Last(fs)).matched
         /\ RouteOf(Last(fs)).router = None => CapturedBy(Last(fs)).rest = <<>>
<1> DEFINE n == Len(fs)
           N == Len(c)
           last == Last(fs)
           part == Patterns(c)[n]
           d == CapturedBy(last)
<1>0. /\ Frames(fs) /\ n \in Nat \ {0} /\ N \in Nat /\ p \in Seq(Char) /\ Len(p) \in Nat /\ n <= N
      /\ Begins(c, fs, n)
  BY SequenceIs, ChainIs DEF Frames, Searching, Begins
<1>1. PICK h : Together(c, h)
  BY PatternsOfChain
<1>2. n \in 1..n /\ n \in 1..N /\ n - 1 \in 0..(n - 1) /\ n - 1 + 1 = n /\ n \in 0..N /\ n - 1 \in 0..N /\ N \in 0..N
  BY <1>0
<1>3. Begins(c, fs, n - 1)
  BY <1>0 DEF Begins
<1>4. PICK l \in 0..Len(p) : last.rest = Dropped(p, l) /\ Passes(h[n - 1], p, 0, l)
  <2>1. \E l \in 0..Len(p) : fs[n - 1 + 1].rest = Dropped(p, l) /\ Passes(h[n - 1], p, 0, l)
    BY <1>0, <1>1, <1>2, <1>3, RestOfFrame
  <2> QED
    BY <1>2, <2>1 DEF Last
<1>5. part = matchers[last.router][last.at] /\ Through(c)[n] = RouteOf(last).router
  BY <1>0, <1>2, PatternOfFrame DEF Last, RouteOf
<1>6. Patterns(c) \in [1..N -> Seq(Part)] /\ part \in Seq(Part)
  BY <1>2, PatternsOfChain
<1>7. /\ h \in [0..N -> Seq(Part)] /\ h[N] = PartsOf(c)
      /\ \A k \in 1..N : h[k] = h[k - 1] \o Patterns(c)[k]
  BY <1>1 DEF Together
<1>8. d = Capture(part, Dropped(p, l))
  BY <1>4, <1>5 DEF CapturedBy
<1>9. Passes(h[N], p, 0, Len(p))
  <2>1. h[N] \in Seq(Part)
    BY <1>2, <1>7
  <2> QED
    BY <1>0, <1>7, <2>1, FitsIsPasses
<1> HIDE DEF n, N, part, last, d
<1>10. PICK m \in 0..Len(p) : Passes(h[n], p, 0, m)
  <2>1. Len(p) \in 0..Len(p)
    BY <1>0
  <2> QED
    BY <1>0, <1>2, <1>6, <1>7, <1>9, <2>1, PassesBeginning DEF N
<1>11. h[n] = h[n - 1] \o part /\ h[n - 1] \in Seq(Part) /\ h[n] \in Seq(Part)
  BY <1>2, <1>7 DEF part
<1>12. PICK k \in 0..Len(p) : Passes(h[n - 1], p, 0, k) /\ Passes(part, p, k, m)
  <2>1. 0 \in 0..Len(p)
    BY <1>0
  <2> QED
    BY <1>0, <1>6, <1>10, <1>11, <2>1, PassesConcat
<1>13. k = l
  <2>1. 0 \in 0..Len(p)
    BY <1>0
  <2> QED
    BY <1>0, <1>4, <1>11, <1>12, <2>1, PassesToOnePlace
<1>14. At(d, p, m)
  BY <1>0, <1>6, <1>8, <1>12, <1>13, CaptureIsPasses
<1>15. ASSUME RouteOf(last).router = None PROVE d.rest = <<>>
  <2>1. N = n
    <3> SUFFICES ASSUME N # n PROVE FALSE
      OBVIOUS
    <3>1. PICK j \in 1..N : j - 1 = n
      <4>1. n + 1 \in 1..N /\ n + 1 - 1 = n
        BY <1>0, <1>2
      <4> QED
        BY <1>0, <4>1
    <3>2. Through(c)[j - 1] \in DOMAIN table
      BY ChainIs DEF N
    <3>3. None \notin DOMAIN table
      BY TableIs
    <3> QED
      BY <1>5, <1>15, <3>1, <3>2, <3>3
  <2>2. m = Len(p)
    <3>1. 0 \in 0..Len(p) /\ Len(p) \in 0..Len(p)
      BY <1>0
    <3> QED
      BY <1>0, <1>9, <1>10, <1>11, <2>1, <3>1, PassesToOnePlace
  <2>3. Dropped(p, Len(p)) = <<>>
    BY <1>0 DEF Dropped
  <2> QED
    BY <1>14, <2>2, <2>3 DEF At
<1> QED
  BY <1>14, <1>15 DEF d, last, At

(* A router is not before the ones above it, so there are no more frames    *)
(* than routers.                                                            *)
LEMMA FramesAreFew ==
  ASSUME table \in Tables, NEW fs, Frames(fs)
  PROVE  Len(fs) <= Len(table)
<1> DEFINE n == Len(fs)
           S == {j \in Nat : j < n => j + 1 <= fs[j + 1].router}
<1>0. n \in Nat \ {0} /\ n - 1 \in Nat /\ n - 1 < n /\ n - 1 + 1 = n /\ n \in 1..n
  BY SequenceIs DEF Frames
<1>1. Len(table) \in Nat /\ DOMAIN table = 1..Len(table)
  BY TableIs
<1>2. 0 \in S
  BY DEF Frames
<1>3. ASSUME NEW j \in Nat, j \in S PROVE j + 1 \in S
  <2> SUFFICES ASSUME j + 1 < n PROVE j + 1 + 1 <= fs[j + 1 + 1].router
    OBVIOUS
  <2> DEFINE i == j + 1
  <2>1. i \in 1..(n - 1) /\ i \in 1..n /\ i + 1 \in 1..n /\ i \in Nat
    BY <1>0
  <2>2. i <= fs[i].router
    BY <1>0, <1>3, <2>1
  <2> HIDE DEF i
  <2>3. LeadsTo(fs[i], fs[i + 1]) /\ IsFrame(fs[i]) /\ IsFrame(fs[i + 1])
    BY <2>1 DEF Frames
  <2>4. /\ fs[i].router \in DOMAIN table /\ fs[i + 1].router \in DOMAIN table
        /\ fs[i].at \in DOMAIN table[fs[i].router]
        /\ table[fs[i].router][fs[i].at].router = fs[i + 1].router
    BY <2>3 DEF IsFrame, LeadsTo
  <2>5. None \notin DOMAIN table
    BY TableIs
  <2>6. fs[i + 1].router > fs[i].router
    BY <2>4, <2>5, TableIs
  <2>7. fs[i].router \in Nat /\ fs[i + 1].router \in Nat
    BY <1>1, <2>4
  <2>8. i + 1 <= fs[i + 1].router
    BY <2>1, <2>2, <2>6, <2>7
  <2> QED
    BY <2>8 DEF i
<1> HIDE DEF S
<1>4. n - 1 \in S
  BY <1>0, <1>2, <1>3, UpTo
<1>5. n <= fs[n].router
  BY <1>0, <1>4 DEF S
<1>6. fs[n].router \in 1..Len(table)
  BY <1>0, <1>1 DEF Frames, IsFrame
<1> QED
  BY <1>0, <1>1, <1>5, <1>6

(* Frames that have come to a handler are a chain.                          *)
LEMMA FramesAreChain ==
  ASSUME table \in Tables, NEW fs, Frames(fs), Last(fs).at \in DOMAIN table[Last(fs).router],
         RouteOf(Last(fs)).router = None
  PROVE  Ats(fs) \in Chains /\ Begins(Ats(fs), fs, Len(fs)) /\ Len(Ats(fs)) = Len(fs)
<1> DEFINE n == Len(fs)
           c == Ats(fs)
           D == UNION {DOMAIN table[r] : r \in DOMAIN table}
<1>0. n \in Nat \ {0} /\ n \in 1..n /\ n - 1 \in 0..n /\ n - 1 < n /\ n \in 0..n /\ n - 1 + 1 = n /\ n # 0
  BY SequenceIs DEF Frames
<1>1. /\ IsSequence(c) /\ Len(c) = n /\ DOMAIN c = 1..n
      /\ \A k \in 1..n : c[k] = fs[k].at
  BY AtsIs DEF Frames
<1>2. Begins(c, fs, n)
  BY <1>0, <1>1 DEF Begins
<1>3. ASSUME NEW k \in 1..n PROVE c[k] \in D
  <2>1. fs[k].router \in DOMAIN table
    BY DEF Frames, IsFrame
  <2>2. fs[k].at \in DOMAIN table[fs[k].router]
    <3>1. CASE k = n
      BY <3>1 DEF Last
    <3>2. CASE k # n
      <4>1. k \in 1..(n - 1)
        <5> HIDE DEF n
        <5> QED
          BY <1>0, <3>2
      <4> QED
        BY <4>1 DEF Frames, LeadsTo
    <3> QED
      BY <3>1, <3>2
  <2> QED
    BY <1>1, <2>1, <2>2
<1>4. c = [k \in 1..n |-> c[k]]
  BY <1>1, SequenceIs
<1> HIDE DEF c, D
<1>5. c \in [1..n -> D]
  BY <1>3, <1>4
<1>6. n \in 0..Len(table)
  <2>1. n <= Len(table) /\ Len(table) \in Nat
    BY FramesAreFew, TableIs
  <2> QED
    BY <1>0, <2>1
<1> HIDE DEF n
<1>7. c \in SeqOf(D, Len(table))
  BY <1>5, <1>6 DEF SeqOf
<1>8. Through(c)[n] = None
  <2>1. Through(c)[n] = RouterAt(c, n, Through(c))
    BY <1>0, <1>1, ThroughSteps
  <2>2. Through(c)[n - 1] = fs[n - 1 + 1].router
    BY <1>0, <1>1, <1>2, ThroughFrames DEF n
  <2>3. fs[n] = Last(fs)
    BY DEF n, Last
  <2>4. c[n] = Last(fs).at /\ Through(c)[n - 1] = Last(fs).router
    BY <1>0, <1>1, <2>2, <2>3
  <2>5. Last(fs).router \in DOMAIN table
    BY <1>0, <2>3 DEF Frames, IsFrame, n
  <2> QED
    BY <1>0, <2>1, <2>4, <2>5 DEF RouterAt, RouteOf
<1>9. Through(c)[Len(c)] = None
  BY <1>1, <1>8
<1> QED
  BY <1>1, <1>2, <1>7, <1>9 DEF Chains, D, c, n

LEMMA CapturedIsFitting ==
  ASSUME table \in Tables, Matching, NEW fs, NEW p, Searching(fs, p),
         Last(fs).at \in DOMAIN table[Last(fs).router], RouteOf(Last(fs)).router = None,
         CapturedBy(Last(fs)).matched, CapturedBy(Last(fs)).rest = <<>>
  PROVE  Fits(PartsOf(Ats(fs)), p)
<1> DEFINE n == Len(fs)
           c == Ats(fs)
           last == Last(fs)
           part == Patterns(c)[n]
           d == CapturedBy(last)
<1>0. Frames(fs) /\ n \in Nat \ {0} /\ p \in Seq(Char) /\ Len(p) \in Nat
  BY SequenceIs DEF Frames, Searching
<1>1. c \in Chains /\ Begins(c, fs, n) /\ Len(c) = n
  BY <1>0, FramesAreChain
<1> HIDE DEF c
<1>2. PICK h : Together(c, h)
  BY <1>1, PatternsOfChain
<1>3. n \in 1..n /\ n - 1 \in 0..(n - 1) /\ n - 1 + 1 = n /\ n \in 0..n /\ n - 1 \in 0..n
  BY <1>0
<1>4. Begins(c, fs, n - 1)
  BY <1>0, <1>1 DEF Begins
<1>5. PICK l \in 0..Len(p) : last.rest = Dropped(p, l) /\ Passes(h[n - 1], p, 0, l)
  <2>1. \E l \in 0..Len(p) : fs[n - 1 + 1].rest = Dropped(p, l) /\ Passes(h[n - 1], p, 0, l)
    BY <1>1, <1>2, <1>3, <1>4, RestOfFrame
  <2> QED
    BY <1>3, <2>1 DEF Last
<1>6. part = matchers[last.router][last.at]
  BY <1>0, <1>1, <1>3, PatternOfFrame DEF Last
<1>7. part \in Seq(Part)
  BY <1>1, <1>3, PatternsOfChain
<1>8. /\ h \in [0..n -> Seq(Part)] /\ h[n] = PartsOf(c) /\ h[n] = h[n - 1] \o part
  BY <1>1, <1>2, <1>3 DEF Together
<1>9. d = Capture(part, Dropped(p, l))
  BY <1>5, <1>6 DEF CapturedBy
<1> HIDE DEF n, last, part, d
<1>10. d.matched /\ d.rest = <<>>
  BY DEF d, last
<1>11. PICK m \in 0..Len(p) : At(d, p, m)
  BY <1>0, <1>7, <1>9, <1>10, CaptureIsPasses
<1>12. Passes(part, p, l, m)
  BY <1>0, <1>7, <1>9, <1>11, CaptureIsPasses
<1>13. m = Len(p)
  <2>1. Dropped(p, m) = <<>> /\ Len(Dropped(p, m)) = Len(p) - m
    BY <1>0, <1>10, <1>11, DroppedText DEF At
  <2>2. Len(Dropped(p, m)) = 0
    BY <2>1
  <2> QED
    BY <1>0, <2>1, <2>2
<1>14. h[n] \in Seq(Part) /\ h[n - 1] \in Seq(Part)
  BY <1>3, <1>8
<1>15. Passes(h[n], p, 0, Len(p))
  <2>1. 0 \in 0..Len(p) /\ Len(p) \in 0..Len(p)
    BY <1>0
  <2> QED
    BY <1>0, <1>5, <1>7, <1>8, <1>12, <1>13, <1>14, <2>1, PassesConcat, SMTT(30)
<1>16. Fits(PartsOf(c), p)
  BY <1>0, <1>8, <1>14, <1>15, FitsIsPasses
<1> QED
  BY <1>16 DEF c

-----------------------------------------------------------------------------
(* No chain before this one fits.                                           *)
NoneBefore(c, p) == \A d \in Chains : Earlier(d, c) => ~Fits(PartsOf(d), p)

LEMMA EarlierIs ==
  ASSUME table \in Tables, NEW c \in Chains, NEW fs, Frames(fs)
  PROVE  Earlier(c, Ats(fs)) <=>
           \E k \in 1..Len(c) : k <= Len(fs) /\ c[k] < fs[k].at /\ \A j \in 1..(k - 1) : c[j] = fs[j].at
<1>1. IsSequence(c) /\ Len(c) \in Nat /\ DOMAIN c = 1..Len(c)
  BY ChainIs, SequenceIs
<1>2. DOMAIN Ats(fs) = 1..Len(fs) /\ (\A k \in 1..Len(fs) : Ats(fs)[k] = fs[k].at) /\ Len(fs) \in Nat
  BY AtsIs, SequenceIs DEF Frames
<1>3. \A k \in 1..Len(fs) : \A j \in 1..(k - 1) : j \in 1..Len(fs)
  BY <1>2
<1>4. \A k : k \in DOMAIN c \cap DOMAIN Ats(fs) <=> k \in 1..Len(c) /\ k <= Len(fs)
  BY <1>1, <1>2
<1>5. \A k \in 1..Len(c) : k <= Len(fs) => k \in 1..Len(fs)
  BY <1>1, <1>2
<1> QED
  BY <1>2, <1>3, <1>4, <1>5 DEF Earlier

LEMMA ChainNumbers ==
  ASSUME table \in Tables, NEW c \in Chains, NEW k \in 1..Len(c)
  PROVE  c[k] \in Nat \ {0}
<1>1. Through(c)[k - 1] \in DOMAIN table /\ c[k] \in DOMAIN table[Through(c)[k - 1]]
  BY ChainIs
<1>2. DOMAIN table[Through(c)[k - 1]] = 1..Len(table[Through(c)[k - 1]]) /\ Len(table[Through(c)[k - 1]]) \in Nat
  BY <1>1, TableIs
<1> QED
  BY <1>1, <1>2

(* What comes before the frames when one has gone on, came before them      *)
(* already, or it begins as they did.                                       *)
LEMMA EarlierMoved ==
  ASSUME table \in Tables, NEW fs, Frames(fs), NEW n \in 1..Len(fs), NEW gs, MovedTo(fs, gs, n),
         NEW c \in Chains, Earlier(c, Ats(gs))
  PROVE  Earlier(c, Ats(fs)) \/ Begins(c, fs, n)
<1>0. Frames(gs) /\ Len(gs) = n /\ n \in Nat /\ n <= Len(fs) /\ Len(fs) \in Nat /\ Len(c) \in Nat
  <2>1. Frames(gs) /\ Len(gs) = n
    BY MovedFrames DEF MovedTo
  <2>2. IsSequence(fs)
    BY DEF Frames
  <2> QED
    BY <2>1, <2>2, SequenceIs, ChainIs
<1>1. PICK k \in 1..Len(c) : k <= n /\ c[k] < gs[k].at /\ \A j \in 1..(k - 1) : c[j] = gs[j].at
  BY <1>0, EarlierIs
<1>2. \A j \in 1..(k - 1) : c[j] = fs[j].at
  <2>1. \A j \in 1..(k - 1) : j \in 1..(n - 1)
    BY <1>0, <1>1
  <2> QED
    BY <1>1, <2>1 DEF MovedTo
<1>3. CASE c[k] < fs[k].at
  <2>1. k <= Len(fs)
    BY <1>0, <1>1
  <2> QED
    BY <1>2, <1>3, <2>1, EarlierIs
<1>4. CASE ~(c[k] < fs[k].at)
  <2>1. k = n
    <3> SUFFICES ASSUME k # n PROVE FALSE
      OBVIOUS
    <3>1. k \in 1..(n - 1)
      BY <1>0, <1>1
    <3>2. gs[k] = fs[k]
      BY <3>1 DEF MovedTo
    <3> QED
      BY <1>1, <1>4, <3>2
  <2>2. gs[n].at = fs[n].at + 1 /\ fs[n].at \in Nat
    BY DEF MovedTo, Frames, IsFrame
  <2>3. c[n] \in Nat
    BY <2>1, ChainNumbers
  <2>4. c[n] = fs[n].at
    BY <1>1, <1>4, <2>1, <2>2, <2>3
  <2>5. n <= Len(c)
    BY <1>0, <2>1
  <2>6. \A j \in 1..n : j = n \/ j \in 1..(n - 1)
    BY <1>0
  <2> QED
    BY <1>2, <2>1, <2>4, <2>5, <2>6 DEF Begins
<1> QED
  BY <1>3, <1>4

LEMMA EarlierEntered ==
  ASSUME table \in Tables, NEW fs, Frames(fs), NEW gs, EnteredTo(fs, gs, 1), Frames(gs),
         NEW c \in Chains, Earlier(c, Ats(gs))
  PROVE  Earlier(c, Ats(fs))
<1> DEFINE n == Len(fs)
<1>0. n \in Nat /\ Len(gs) = n + 1 /\ Len(c) \in Nat
  BY SequenceIs, ChainIs DEF EnteredTo, Frames
<1>1. PICK k \in 1..Len(c) : k <= n + 1 /\ c[k] < gs[k].at /\ \A j \in 1..(k - 1) : c[j] = gs[j].at
  BY <1>0, EarlierIs
<1>2. k # n + 1
  <2> SUFFICES ASSUME k = n + 1 PROVE FALSE
    OBVIOUS
  <2>1. gs[k].at = 1
    BY DEF EnteredTo
  <2>2. c[k] \in Nat \ {0}
    BY ChainNumbers
  <2> QED
    BY <1>1, <2>1, <2>2
<1>3. k \in 1..n /\ k <= n /\ \A j \in 1..(k - 1) : j \in 1..n
  BY <1>0, <1>1, <1>2
<1>4. c[k] < fs[k].at /\ \A j \in 1..(k - 1) : c[j] = fs[j].at
  BY <1>1, <1>3 DEF EnteredTo
<1> QED
  BY <1>3, <1>4, EarlierIs

(* When the last router has no route left, what begins as the routers above *)
(* do comes before.                                                         *)
LEMMA EarlierAtEnd ==
  ASSUME table \in Tables, NEW fs, Frames(fs), Last(fs).at = Len(table[Last(fs).router]) + 1,
         NEW c \in Chains, Begins(c, fs, Len(fs) - 1)
  PROVE  Earlier(c, Ats(fs))
<1> DEFINE n == Len(fs)
<1>0. n \in Nat \ {0} /\ Len(c) \in Nat /\ Begins(c, fs, n - 1) /\ n - 1 <= Len(c)
  BY SequenceIs, ChainIs DEF Frames, Begins
<1>1. n - 1 \in 0..n /\ n - 1 \in 0..(n - 1) /\ n - 1 < n /\ n - 1 + 1 = n /\ n \in 1..n
  BY <1>0
<1>2. Through(c)[n - 1] = fs[n - 1 + 1].router
  BY <1>0, <1>1, ThroughFrames
<1>3. Through(c)[n - 1] = Last(fs).router /\ Last(fs).router \in DOMAIN table
  BY <1>1, <1>2 DEF Last, Frames, IsFrame
<1> HIDE DEF n
<1>4. Len(c) # n - 1
  <2>1. Through(c)[Len(c)] = None /\ None \notin DOMAIN table
    BY ChainIs, TableIs
  <2> QED
    BY <1>3, <2>1
<1>5. n \in 1..Len(c)
  BY <1>0, <1>4
<1>6. c[n] \in DOMAIN table[Last(fs).router]
  BY <1>3, <1>5, ChainIs
<1>7. c[n] < Last(fs).at
  <2>1. DOMAIN table[Last(fs).router] = 1..Len(table[Last(fs).router]) /\ Len(table[Last(fs).router]) \in Nat
    BY <1>3, TableIs
  <2> QED
    BY <1>6, <2>1
<1>8. n <= Len(fs) /\ c[n] < fs[n].at /\ \A j \in 1..(n - 1) : c[j] = fs[j].at
  BY <1>0, <1>1, <1>7 DEF Begins, Last, n
<1> QED
  BY <1>5, <1>8, EarlierIs

LEMMA SearchMoved ==
  ASSUME NEW fs, NEW p, Searching(fs, p), NEW n \in 1..Len(fs), NEW gs, MovedTo(fs, gs, n)
  PROVE  Searching(gs, p)
<1>0. Frames(fs) /\ Frames(gs) /\ Len(gs) = n /\ n \in Nat /\ n <= Len(fs) /\ Len(fs) \in Nat /\ n # 0
  <2>1. Frames(fs)
    BY DEF Searching
  <2>2. Frames(gs) /\ Len(gs) = n
    BY <2>1, MovedFrames DEF MovedTo
  <2>3. IsSequence(fs)
    BY <2>1 DEF Frames
  <2> QED
    BY <2>1, <2>2, <2>3, SequenceIs
<1>1. \A k \in 1..n : gs[k].rest = fs[k].rest
  <2>1. \A k \in 1..n : k = n \/ k \in 1..(n - 1)
    BY <1>0
  <2> QED
    BY <2>1 DEF MovedTo
<1>2. \A k \in 1..(n - 1) : gs[k] = fs[k] /\ gs[k + 1].rest = fs[k + 1].rest /\ k \in 1..(Len(fs) - 1)
  <2>1. \A k \in 1..(n - 1) : k + 1 \in 1..n /\ k \in 1..(Len(fs) - 1)
    BY <1>0
  <2> QED
    BY <1>1, <2>1 DEF MovedTo
<1>3. 1 \in 1..n
  BY <1>0
<1>4. ASSUME NEW k \in 1..n PROVE gs[k].at # 0
  <2>1. CASE k = n
    BY <2>1 DEF MovedTo, Frames, IsFrame, Searching
  <2>2. CASE k # n
    <3>1. k \in 1..(n - 1) /\ k \in 1..Len(fs)
      BY <1>0, <2>2
    <3> QED
      BY <3>1 DEF MovedTo, Searching
  <2> QED
    BY <2>1, <2>2
<1> QED
  BY <1>0, <1>1, <1>2, <1>3, <1>4 DEF Searching

LEMMA SearchEntered ==
  ASSUME NEW fs, NEW p, Searching(fs, p), NEW gs, EnteredTo(fs, gs, 1), Frames(gs),
         CapturedBy(Last(fs)).matched, CapturedBy(Last(fs)).rest = gs[Len(fs) + 1].rest
  PROVE  Searching(gs, p)
<1> DEFINE n == Len(fs)
<1>0. n \in Nat \ {0} /\ Len(gs) = n + 1 /\ n + 1 - 1 = n /\ 1 \in 1..n /\ n \in 1..n
  BY SequenceIs DEF EnteredTo, Frames, Searching
<1>1. \A k \in 1..n : gs[k] = fs[k]
  BY DEF EnteredTo
<1>2. ASSUME NEW k \in 1..n PROVE CapturedBy(gs[k]).matched /\ CapturedBy(gs[k]).rest = gs[k + 1].rest
  <2>1. CASE k = n
    BY <1>1, <2>1 DEF Last
  <2>2. CASE k # n
    <3>1. k \in 1..(n - 1) /\ k + 1 \in 1..n
      <4> HIDE DEF n
      <4> QED
        BY <1>0, <2>2
    <3> QED
      BY <1>1, <3>1 DEF Searching
  <2> QED
    BY <2>1, <2>2
<1>3. p \in Seq(Char) /\ gs[1].rest = p
  BY <1>0, <1>1 DEF Searching
<1> HIDE DEF n
<1>4. \A k \in 1..(Len(gs) - 1) : CapturedBy(gs[k]).matched /\ CapturedBy(gs[k]).rest = gs[k + 1].rest
  BY <1>0, <1>2
<1>5. ASSUME NEW k \in 1..Len(gs) PROVE gs[k].at # 0
  <2>1. k = n + 1 \/ k \in 1..n
    BY <1>0
  <2> QED
    BY <1>1, <2>1 DEF EnteredTo, Searching, n
<1> QED
  BY <1>3, <1>4, <1>5 DEF Searching

-----------------------------------------------------------------------------
(* The invariant.                                                           *)
NoneFits(p) == \A c \in Chains : ~Fits(PartsOf(c), p)
IInv ==
  /\ table \in Tables
  /\ pc \notin {"start", "panicked"} => Matching
  /\ pc \in {"reverse", "get_handler"} => Frames(frames)
  /\ pc = "get_handler" => Searching(frames, path) /\ NoneBefore(Chain, path)
  /\ FoundIsFirst

LEMMA ChainIsAts == Chain = Ats(frames)
BY DEF Chain, Ats

LEMMA FoundIsFirstIs ==
  FoundIsFirst <=>
    /\ pc = "found" => Chain \in Chains /\ Fits(PartsOf(Chain), path) /\ NoneBefore(Chain, path)
    /\ pc = "not_found" => NoneFits(path)
BY DEF FoundIsFirst, NoneBefore, NoneFits

(* Where the tables stay, the next frames can be spoken of now.             *)
LEMMA TablesStay ==
  ASSUME table' = table, matchers' = matchers
  PROVE  /\ Matching' <=> Matching
         /\ Frames(frames)' <=> Frames(frames')
         /\ Searching(frames, path)' <=> Searching(frames', path')
         /\ NoneBefore(Chain, path)' <=> NoneBefore(Ats(frames'), path')
         /\ (Chain \in Chains)' <=> Ats(frames') \in Chains
         /\ Fits(PartsOf(Chain), path)' <=> Fits(PartsOf(Ats(frames')), path')
         /\ NoneFits(path)' <=> NoneFits(path')
<1>1. Matching' <=> Matching
  BY DEF Matching
<1>2. Frames(frames)' <=> Frames(frames')
  BY DEF Frames, IsFrame, LeadsTo
<1>3. Searching(frames, path)' <=> Searching(frames', path')
  BY DEF Searching, CapturedBy, Frames, IsFrame, LeadsTo
<1>4. NoneBefore(Chain, path)' <=> NoneBefore(Ats(frames'), path')
  BY DEF NoneBefore, Chains, PartsOf, Through, Chain, Ats
<1>5. (Chain \in Chains)' <=> Ats(frames') \in Chains
  BY DEF Chains, Through, Chain, Ats
<1>6. Fits(PartsOf(Chain), path)' <=> Fits(PartsOf(Ats(frames')), path')
  BY DEF PartsOf, Through, Chain, Ats
<1>7. NoneFits(path)' <=> NoneFits(path')
  BY DEF NoneFits, Chains, PartsOf, Through
<1> QED
  BY <1>1, <1>2, <1>3, <1>4, <1>5, <1>6, <1>7

LEMMA IInvNext ==
  ASSUME IInv, pc \notin {"start", "panicked"}, table' = table, matchers' = matchers,
         pc' \in {"reverse", "get_handler"} => Frames(frames'),
         pc' = "get_handler" => Searching(frames', path') /\ NoneBefore(Ats(frames'), path'),
         pc' = "found" => /\ Ats(frames') \in Chains /\ Fits(PartsOf(Ats(frames')), path')
                          /\ NoneBefore(Ats(frames'), path'),
         pc' = "not_found" => NoneFits(path')
  PROVE  IInv'
<1>1. table' \in Tables /\ Matching'
  BY TablesStay DEF IInv
<1>2. pc' \in {"reverse", "get_handler"} => Frames(frames)'
  BY TablesStay
<1>3. pc' = "get_handler" => Searching(frames, path)' /\ NoneBefore(Chain, path)'
  BY TablesStay
<1>4. FoundIsFirst' <=>
        (/\ pc = "found" => Chain \in Chains /\ Fits(PartsOf(Chain), path) /\ NoneBefore(Chain, path)
         /\ pc = "not_found" => NoneFits(path))'
  BY FoundIsFirstIs, PTL
<1>5. pc' = "found" => (Chain \in Chains)' /\ Fits(PartsOf(Chain), path)' /\ NoneBefore(Chain, path)'
  BY TablesStay
<1>6. pc' = "not_found" => NoneFits(path)'
  BY TablesStay
<1>7. FoundIsFirst'
  BY <1>4, <1>5, <1>6
<1> QED
  BY <1>1, <1>2, <1>3, <1>7 DEF IInv

LEMMA InitIInv == Init => IInv
BY DEF Init, IInv, FoundIsFirst

(* The patterns are parsed.                                                 *)
LEMMA RegisterIInv == IInv /\ Register => IInv'
<1> SUFFICES ASSUME IInv, Register PROVE IInv'
  OBVIOUS
<1>1. table' = table /\ pc' \in {"ready", "panicked"} /\ table \in Tables
  BY DEF Register, IInv
<1>2. ASSUME pc' = "ready" PROVE Matching'
  <2>1. /\ \A r \in DOMAIN table : \A i \in DOMAIN table[r] : ~Panics(table[r][i].url)
        /\ matchers' = [r \in DOMAIN table |-> [i \in DOMAIN table[r] |-> Parts(table[r][i].url)]]
    BY <1>2 DEF Register
  <2>2. \A r \in DOMAIN table : \A i \in DOMAIN table[r] : Parts(table[r][i].url) \in Seq(Part)
    BY <1>1, <2>1, TableIs, PartsTyped
  <2> QED
    BY <1>1, <2>1, <2>2 DEF Matching
<1>3. FoundIsFirst'
  BY <1>1 DEF FoundIsFirst
<1> QED
  BY <1>1, <1>2, <1>3 DEF IInv

(* A search begins at the root.                                             *)
LEMMA OneFrame ==
  ASSUME table \in Tables, NEW at \in {0, 1}, NEW rest, NEW fs, fs = <<Frame(1, at, rest, <<>>)>>
  PROVE  Frames(fs) /\ Len(fs) = 1 /\ fs[1].at = at /\ fs[1].rest = rest /\ fs[1].taken = <<>>
<1> DEFINE f == Frame(1, at, rest, <<>>)
<1>1. f.router = 1 /\ f.at = at /\ f.rest = rest /\ f.taken = <<>>
  BY DEF Frame
<1>2. f \in [router : {1}, at : Nat, rest : {f.rest}, taken : {f.taken}]
  BY DEF Frame
<1>3. 1 \in DOMAIN table /\ Len(table[1]) \in Nat
  BY TableIs
<1> HIDE DEF f
<1>4. IsFrame(f)
  BY <1>1, <1>2, <1>3 DEF IsFrame
<1>5. fs \in Seq({f}) /\ Len(fs) = 1 /\ fs[1] = f
  BY DEF f
<1>6. IsSequence(fs)
  BY <1>5 DEF IsSequence
<1>7. \A k \in 1..1 : k = 1
  OBVIOUS
<1>8. 1..0 = {} /\ Len(fs) - 1 = 0
  BY <1>5
<1> QED
  BY <1>1, <1>4, <1>5, <1>6, <1>7, <1>8 DEF Frames

LEMMA ReverseOptionIInv == ASSUME NEW name, NEW args, IInv, ReverseOption(name, args) PROVE IInv'
<1>1. /\ pc = "ready" /\ pc' = "reverse" /\ table' = table /\ matchers' = matchers
      /\ frames' = <<Frame(1, 0, <<>>, <<>>)>> /\ table \in Tables
  BY DEF ReverseOption, IInv
<1>2. Frames(frames')
  BY <1>1, OneFrame
<1> QED
  BY <1>1, <1>2, IInvNext

LEMMA HandleIInv == ASSUME NEW p, IInv, Handle(p) PROVE IInv'
<1>1. /\ pc \in {"ready", "url"} /\ pc' = "get_handler" /\ table' = table /\ matchers' = matchers
      /\ frames' = <<Frame(1, 1, p, <<>>)>> /\ table \in Tables /\ path' = p
  BY DEF Handle, IInv
<1>2. p \in Seq(Char)
  BY TablesAssumption DEF Handle, IsPath
<1> DEFINE fs == frames'
<1>3. Frames(fs) /\ Len(fs) = 1 /\ fs[1].at = 1 /\ fs[1].rest = p
  BY <1>1, OneFrame
<1> HIDE DEF fs
<1>4. Searching(fs, p)
  <2>1. 1..(1 - 1) = {} /\ \A k \in 1..1 : k = 1
    OBVIOUS
  <2> QED
    BY <1>2, <1>3, <2>1 DEF Searching
<1>5. NoneBefore(Ats(fs), p)
  <2> SUFFICES ASSUME NEW c \in Chains, Earlier(c, Ats(fs)) PROVE FALSE
    BY DEF NoneBefore
  <2>1. PICK k \in 1..Len(c) : k <= 1 /\ c[k] < fs[k].at
    BY <1>1, <1>3, EarlierIs
  <2>2. k = 1
    BY <2>1, ChainIs, <1>1
  <2>3. c[k] \in Nat \ {0}
    BY <1>1, ChainNumbers
  <2> QED
    BY <1>3, <2>1, <2>2, <2>3
<1> QED
  BY <1>1, <1>3, <1>4, <1>5, IInvNext DEF fs

-----------------------------------------------------------------------------
(* One iteration, of either search.                                         *)
LEMMA TopIs ==
  ASSUME table \in Tables, Frames(frames)
  PROVE  /\ depth \in Nat \ {0} /\ depth \in 1..depth /\ Top = Last(frames) /\ IsFrame(Top)
         /\ Top.router \in DOMAIN table /\ Top.at \in Nat
         /\ Len(table[Top.router]) \in Nat /\ DOMAIN table[Top.router] = 1..Len(table[Top.router])
         /\ AtEnd <=> Top.at = Len(table[Top.router]) + 1
         /\ Top.at # 0 /\ ~AtEnd => Top.at \in DOMAIN table[Top.router]
         /\ Route = RouteOf(Top)
<1>1. depth \in Nat \ {0} /\ depth \in 1..depth
  BY SequenceIs DEF Frames, depth
<1>2. Top = Last(frames) /\ IsFrame(Top)
  BY <1>1 DEF Frames, Top, Last, depth
<1>3. Top.router \in DOMAIN table /\ Top.at \in Nat /\ Top.at <= Len(table[Top.router]) + 1
  BY <1>2 DEF IsFrame
<1>4. Len(table[Top.router]) \in Nat /\ DOMAIN table[Top.router] = 1..Len(table[Top.router])
  BY <1>3, TableIs
<1>5. AtEnd <=> Top.at = Len(table[Top.router]) + 1
  BY <1>3, <1>4 DEF AtEnd
<1>6. Top.at # 0 /\ ~AtEnd => Top.at \in DOMAIN table[Top.router]
  BY <1>3, <1>4 DEF AtEnd
<1>7. Route = RouteOf(Top)
  BY DEF Route, RouteOf
<1> QED
  BY <1>1, <1>2, <1>3, <1>4, <1>5, <1>6, <1>7

LEMMA NextRouteIs ==
  ASSUME table \in Tables, Frames(frames), ~AtEnd, NextRoute
  PROVE  MovedTo(frames, frames', depth) /\ Frames(frames')
<1>1. Last(frames).at # Len(table[Last(frames).router]) + 1
  BY TopIs
<1>2. MovedTo(frames, [frames EXCEPT ![Len(frames)].at = @ + 1], Len(frames))
  BY <1>1, FramesGo DEF Last
<1>3. MovedTo(frames, frames', depth) /\ depth \in 1..Len(frames)
  BY <1>2, TopIs DEF NextRoute, depth
<1> QED
  BY <1>3, MovedFrames

LEMMA EnterIs ==
  ASSUME table \in Tables, Frames(frames), ~AtEnd, Top.at # 0, Route.router # None,
         NEW rest, NEW taken, NEW at \in {0, 1}, Enter(rest, taken, at)
  PROVE  /\ EnteredTo(frames, frames', at) /\ Frames(frames')
         /\ frames'[Len(frames) + 1].rest = rest /\ frames'[Len(frames) + 1].taken = taken
<1>1. /\ Top = Last(frames) /\ Top.router \in DOMAIN table /\ Top.at \in DOMAIN table[Top.router]
      /\ Route = table[Top.router][Top.at]
  BY TopIs DEF RouteOf
<1> DEFINE r == Route.router
           fs == frames'
<1>2. r \in DOMAIN table
  BY <1>1, TableIs
<1>3. fs = Append(frames, Frame(r, at, rest, taken))
  BY DEF Enter
<1> HIDE DEF r, fs
<1>4. /\ EnteredTo(frames, fs, at) /\ fs[Len(frames) + 1].router = r
      /\ fs[Len(frames) + 1].rest = rest /\ fs[Len(frames) + 1].taken = taken
  BY <1>2, <1>3, FramesEntered
<1>5. LeadsTo(Last(frames), fs[Len(frames) + 1])
  BY <1>1, <1>4 DEF LeadsTo, r
<1>6. Frames(fs)
  BY <1>4, <1>5, EnteredFrames DEF Last
<1> QED
  BY <1>4, <1>6 DEF fs

LEMMA ReturnIs ==
  ASSUME table \in Tables, Frames(frames), depth # 1,
         frames' = Moved(frames, depth - 1)
  PROVE  depth - 1 \in 1..Len(frames) /\ MovedTo(frames, frames', depth - 1) /\ Frames(frames')
<1> DEFINE n == depth - 1
<1>1. n \in 1..Len(frames) /\ n \in 1..(Len(frames) - 1)
  <2>1. depth \in Nat \ {0}
    BY TopIs
  <2>2. n \in 1..depth /\ n \in 1..(depth - 1)
    BY <2>1
  <2> QED
    BY <2>2 DEF depth
<1>2. frames' = Moved(frames, n)
  OBVIOUS
<1> HIDE DEF n
<1>3. frames[n].at # Len(table[frames[n].router]) + 1
  <2>1. LeadsTo(frames[n], frames[n + 1]) /\ IsFrame(frames[n])
    BY <1>1 DEF Frames
  <2>2. frames[n].at \in DOMAIN table[frames[n].router] /\ frames[n].router \in DOMAIN table
    BY <2>1 DEF LeadsTo, IsFrame
  <2>3. DOMAIN table[frames[n].router] = 1..Len(table[frames[n].router]) /\ Len(table[frames[n].router]) \in Nat
    BY <2>2, TableIs
  <2> QED
    BY <2>2, <2>3
<1>4. MovedTo(frames, frames', n)
  BY <1>1, <1>2, <1>3, FramesMoved
<1>5. Frames(frames')
  BY <1>1, <1>4, MovedFrames
<1> QED
  BY <1>1, <1>4, <1>5 DEF n

LEMMA ReturnCases ==
  ASSUME NEW nothing, Return(nothing), table \in Tables, Frames(frames)
  PROVE  \/ depth = 1 /\ pc' = nothing /\ frames' = frames
         \/ depth # 1 /\ pc' = pc /\ frames' = Moved(frames, depth - 1)
<1>1. CASE depth = 1 /\ pc' = nothing /\ UNCHANGED frames
  BY <1>1
<1>2. CASE /\ depth > 1 /\ UNCHANGED pc
           /\ frames' = [SubSeq(frames, 1, depth - 1) EXCEPT ![depth - 1].at = @ + 1]
  <2>1. depth # 1
    BY <1>2, TopIs
  <2>2. frames' = Moved(frames, depth - 1)
    BY <1>2 DEF Moved
  <2> QED
    BY <1>2, <2>1, <2>2
<1> QED
  BY <1>1, <1>2 DEF Return

LEMMA ReverseIInv ==
  ASSUME IInv, ReverseNamed \/ ReverseRoute \/ ReverseReturn
  PROVE  IInv'
<1>0. /\ pc = "reverse" /\ table' = table /\ matchers' = matchers /\ table \in Tables /\ Frames(frames)
  BY DEF IInv, ReverseNamed, ReverseRoute, ReverseReturn, Return
<1>1. CASE ReverseNamed
  <2>1. pc' \in {"missing", "url"}
    BY <1>1 DEF ReverseNamed
  <2> QED
    BY <1>0, <2>1, IInvNext
<1>2. CASE ReverseRoute
  <2>1. pc' = "reverse" /\ ~AtEnd
    BY <1>0, <1>2 DEF ReverseRoute
  <2>2. CASE NextRoute
    BY <1>0, <2>1, <2>2, NextRouteIs, IInvNext
  <2>3. CASE Top.at > 0 /\ Route.router # None /\ Enter(<<>>, <<>>, 0)
    <3>1. Top.at # 0
      BY <1>0, <2>3, TopIs
    <3>2. Frames(frames')
      BY <1>0, <2>1, <2>3, <3>1, EnterIs
    <3> QED
      BY <1>0, <2>1, <3>2, IInvNext
  <2> QED
    BY <1>2, <2>2, <2>3 DEF ReverseRoute
<1>3. CASE ReverseReturn
  <2>1. CASE depth = 1 /\ pc' = "no_view"
    BY <1>0, <2>1, IInvNext
  <2>2. CASE depth # 1 /\ pc' = pc /\ frames' = Moved(frames, depth - 1)
    <3>1. Frames(frames')
      BY <1>0, <2>2, ReturnIs
    <3> QED
      BY <1>0, <2>2, <3>1, IInvNext
  <2> QED
    BY <1>0, <1>3, <2>1, <2>2, ReturnCases DEF ReverseReturn
<1> QED
  BY <1>1, <1>2, <1>3

(* A route that does not have the path is left behind; one with the handler *)
(* is found; a router is gone into.                                         *)
LEMMA HandleRouteIInv ==
  ASSUME IInv, HandleRoute
  PROVE  IInv'
<1> DEFINE fs == frames
           gs == frames'
           last == Last(fs)
<1>0. /\ pc = "get_handler" /\ ~AtEnd /\ table' = table /\ matchers' = matchers /\ path' = path
      /\ table \in Tables /\ Matching /\ Frames(fs) /\ Searching(fs, path) /\ NoneBefore(Ats(fs), path)
  BY ChainIsAts DEF IInv, HandleRoute
<1>1. Top = last /\ Captured = CapturedBy(last) /\ Route = RouteOf(last)
  BY <1>0, TopIs DEF Captured, CapturedBy
<1>2. last.at \in DOMAIN table[last.router] /\ Top.at # 0
  <2>1. Top.at # 0
    BY <1>0, <1>1, TopIs DEF Searching, Last, depth
  <2> QED
    BY <1>0, <1>1, <2>1, TopIs
<1>3. CASE /\ Captured.matched => Route.router = None /\ Captured.rest # <<>>
           /\ NextRoute /\ pc' = pc
  <2>1. MovedTo(fs, gs, depth) /\ Frames(gs) /\ depth = Len(fs) /\ depth \in 1..Len(fs)
    BY <1>0, <1>3, NextRouteIs, TopIs DEF depth
  <2>2. Searching(gs, path)
    BY <1>0, <2>1, SearchMoved
  <2>3. ASSUME NEW c \in Chains, Earlier(c, Ats(gs)), Fits(PartsOf(c), path) PROVE FALSE
    <3>1. Earlier(c, Ats(fs)) \/ Begins(c, fs, Len(fs))
      BY <1>0, <2>1, <2>3, EarlierMoved
    <3>2. ~Earlier(c, Ats(fs))
      BY <1>0, <2>3 DEF NoneBefore
    <3>3. /\ CapturedBy(last).matched
          /\ RouteOf(last).router = None => CapturedBy(last).rest = <<>>
      BY <1>0, <2>3, <3>1, <3>2, FittingIsCaptured
    <3> QED
      BY <1>1, <1>3, <3>3
  <2>4. NoneBefore(Ats(gs), path)
    BY <2>3 DEF NoneBefore
  <2> QED
    BY <1>0, <1>3, <2>1, <2>2, <2>4, IInvNext
<1>4. CASE /\ Captured.matched /\ Route.router = None /\ Captured.rest = <<>>
           /\ pc' = "found" /\ UNCHANGED frames
  <2>1. Ats(fs) \in Chains
    BY <1>0, <1>1, <1>2, <1>4, FramesAreChain
  <2>2. Fits(PartsOf(Ats(fs)), path)
    BY <1>0, <1>1, <1>2, <1>4, CapturedIsFitting
  <2>3. gs = fs
    BY <1>4
  <2> QED
    BY <1>0, <1>4, <2>1, <2>2, <2>3, IInvNext
<1>5. CASE /\ Captured.matched /\ Route.router # None
           /\ Enter(Captured.rest, Top.taken \o Captured.params, 1) /\ pc' = pc
  <2>1. EnteredTo(fs, gs, 1) /\ Frames(gs) /\ gs[Len(fs) + 1].rest = Captured.rest
    BY <1>0, <1>2, <1>5, EnterIs
  <2>2. Searching(gs, path)
    BY <1>0, <1>1, <1>5, <2>1, SearchEntered
  <2>3. NoneBefore(Ats(gs), path)
    BY <1>0, <2>1, EarlierEntered DEF NoneBefore
  <2> QED
    BY <1>0, <1>5, <2>1, <2>2, <2>3, IInvNext
<1> QED
  BY <1>3, <1>4, <1>5 DEF HandleRoute

(* A router that has no route left has none for the path.                   *)
LEMMA HandleReturnIInv ==
  ASSUME IInv, HandleReturn
  PROVE  IInv'
<1> DEFINE fs == frames
           gs == frames'
<1>0. /\ pc = "get_handler" /\ AtEnd /\ table' = table /\ matchers' = matchers /\ path' = path
      /\ table \in Tables /\ Frames(fs) /\ Searching(fs, path) /\ NoneBefore(Ats(fs), path)
  BY ChainIsAts DEF IInv, HandleReturn, Return
<1>1. Last(fs).at = Len(table[Last(fs).router]) + 1 /\ depth = Len(fs) /\ depth \in Nat \ {0}
  BY <1>0, TopIs DEF depth
<1>2. ASSUME NEW c \in Chains, Begins(c, fs, Len(fs) - 1) PROVE ~Fits(PartsOf(c), path)
  <2>1. Earlier(c, Ats(fs))
    BY <1>0, <1>1, <1>2, EarlierAtEnd
  <2> QED
    BY <1>0, <2>1 DEF NoneBefore
<1>3. CASE depth = 1 /\ pc' = "not_found"
  <2>1. ASSUME NEW c \in Chains PROVE Begins(c, fs, Len(fs) - 1)
    <3>1. Len(fs) - 1 = 0 /\ 1..0 = {} /\ 0 <= Len(c)
      BY <1>0, <1>1, <1>3, ChainIs
    <3> QED
      BY <3>1 DEF Begins
  <2>2. NoneFits(path)
    BY <1>2, <2>1 DEF NoneFits
  <2> QED
    BY <1>0, <1>3, <2>2, IInvNext
<1>4. CASE depth # 1 /\ pc' = pc /\ frames' = Moved(frames, depth - 1)
  <2> DEFINE n == depth - 1
  <2>1. n \in 1..Len(fs) /\ MovedTo(fs, gs, n) /\ Frames(gs)
    BY <1>0, <1>4, ReturnIs
  <2>2. n = Len(fs) - 1
    BY <1>1
  <2> HIDE DEF n
  <2>3. Searching(gs, path)
    BY <1>0, <2>1, SearchMoved
  <2>4. ASSUME NEW c \in Chains, Earlier(c, Ats(gs)) PROVE ~Fits(PartsOf(c), path)
    <3>1. Earlier(c, Ats(fs)) \/ Begins(c, fs, n)
      BY <1>0, <2>1, <2>4, EarlierMoved
    <3> QED
      BY <1>0, <1>2, <2>2, <3>1 DEF NoneBefore
  <2>5. NoneBefore(Ats(gs), path)
    BY <2>4 DEF NoneBefore
  <2> QED
    BY <1>0, <1>4, <2>1, <2>3, <2>5, IInvNext
<1> QED
  BY <1>0, <1>3, <1>4, ReturnCases DEF HandleReturn

LEMMA NextIInv == IInv /\ [Next]_vars => IInv'
<1> SUFFICES ASSUME IInv, [Next]_vars PROVE IInv'
  OBVIOUS
<1>1. CASE Register
  BY <1>1, RegisterIInv
<1>2. ASSUME NEW name \in Name, NEW args \in Args, ReverseOption(name, args) PROVE IInv'
  BY <1>2, ReverseOptionIInv
<1>3. ASSUME NEW p \in Paths \cup {path}, Handle(p) PROVE IInv'
  BY <1>3, HandleIInv
<1>4. CASE ReverseNamed \/ ReverseRoute \/ ReverseReturn
  BY <1>4, ReverseIInv
<1>5. CASE HandleRoute
  BY <1>5, HandleRouteIInv
<1>6. CASE HandleReturn
  BY <1>6, HandleReturnIInv
<1>7. CASE UNCHANGED vars
  <2>1. /\ table' = table /\ matchers' = matchers /\ pc' = pc /\ frames' = frames /\ path' = path
    BY <1>7 DEF vars
  <2>2. CASE pc \in {"start", "panicked"}
    BY <2>1, <2>2 DEF IInv, FoundIsFirst
  <2>3. CASE pc \notin {"start", "panicked"}
    BY <2>1, <2>3, IInvNext, FoundIsFirstIs, ChainIsAts DEF IInv
  <2> QED
    BY <2>2, <2>3
<1> QED
  BY <1>1, <1>2, <1>3, <1>4, <1>5, <1>6, <1>7 DEF Next, Start, Iterate

LEMMA IInvAlways == Spec => []IInv
<1> QED
  BY InitIInv, NextIInv, PTL DEF Spec

-----------------------------------------------------------------------------
(* The handler of a path is the first one whose whole pattern the path has, *)
(* and none is found only if no route has it (Router::get_handler).         *)
THEOREM RouterFindsTheFirst == Spec => []FoundIsFirst
<1>1. IInv => FoundIsFirst
  BY DEF IInv
<1> QED
  BY <1>1, IInvAlways, PTL

(* A search leaves a route for good: its frames only go on, to a route that *)
(* comes later or into the router below (the loops of get_handler and of    *)
(* reverse_option).                                                         *)
LEMMA ForwardMoved ==
  ASSUME table \in Tables, Frames(frames), Frames(frames'), NEW n \in 1..depth, MovedTo(frames, frames', n)
  PROVE  Earlier(Chain, Chain')
<1> DEFINE fs == frames
           gs == frames'
<1>1. Chain = Ats(fs) /\ Chain' = Ats(gs)
  BY DEF Chain, Ats
<1>2. Len(gs) = n /\ n \in Nat \ {0} /\ Len(fs) = depth /\ n <= Len(fs) /\ Len(fs) \in Nat
  BY TopIs DEF MovedTo, depth
<1>3. /\ DOMAIN Ats(fs) = 1..Len(fs) /\ \A k \in 1..Len(fs) : Ats(fs)[k] = fs[k].at
      /\ DOMAIN Ats(gs) = 1..Len(gs) /\ \A k \in 1..Len(gs) : Ats(gs)[k] = gs[k].at
  BY AtsIs DEF Frames
<1>4. fs[n].at < gs[n].at
  BY <1>2 DEF MovedTo, Frames, IsFrame
<1>5. \A j \in 1..(n - 1) : gs[j] = fs[j] /\ j \in 1..Len(fs) /\ j \in 1..Len(gs)
  BY <1>2 DEF MovedTo
<1>6. n \in DOMAIN Ats(fs) \cap DOMAIN Ats(gs)
  BY <1>2, <1>3
<1>7. Ats(fs)[n] < Ats(gs)[n] /\ \A j \in 1..(n - 1) : Ats(fs)[j] = Ats(gs)[j]
  BY <1>2, <1>3, <1>4, <1>5
<1> QED
  BY <1>1, <1>6, <1>7 DEF Earlier

LEMMA ForwardEntered ==
  ASSUME table \in Tables, Frames(frames), Frames(frames'), NEW at, EnteredTo(frames, frames', at)
  PROVE  IsStrictPrefix(Chain, Chain')
<1> DEFINE fs == frames
           gs == frames'
           n == Len(fs)
           c == Ats(fs)
           d == Ats(gs)
<1>1. Chain = c /\ Chain' = d
  BY DEF Chain, Ats
<1>2. n \in Nat /\ Len(gs) = n + 1
  BY SequenceIs DEF EnteredTo, Frames
<1>3. /\ IsSequence(c) /\ Len(c) = n /\ \A k \in 1..n : c[k] = fs[k].at
      /\ IsSequence(d) /\ Len(d) = n + 1 /\ \A k \in 1..(n + 1) : d[k] = gs[k].at
  BY <1>2, AtsIs DEF Frames
<1>4. \A k \in 1..n : gs[k] = fs[k] /\ k \in 1..(n + 1)
  BY <1>2 DEF EnteredTo
<1> HIDE DEF c, d, n
<1>5. \A k \in 1..n : c[k] = d[k]
  BY <1>3, <1>4
<1>6. SubSeq(c, 1, Len(c)) = SubSeq(d, 1, Len(c))
  <2> DEFINE s == SubSeq(c, 1, n)
             t == SubSeq(d, 1, n)
  <2>1. n \in 0..Len(c) /\ n \in 0..Len(d)
    BY <1>2, <1>3
  <2>2. /\ IsSequence(s) /\ Len(s) = n /\ \A k \in 1..n : s[k] = c[k]
        /\ IsSequence(t) /\ Len(t) = n /\ \A k \in 1..n : t[k] = d[k]
    BY <1>3, <2>1, SequenceShortened
  <2> HIDE DEF s, t
  <2>3. s = [k \in 1..n |-> s[k]] /\ t = [k \in 1..n |-> t[k]]
    BY <2>2, SequenceIs
  <2>4. s = t
    BY <1>5, <2>2, <2>3
  <2> QED
    BY <1>3, <2>4 DEF s, t
<1>7. Len(c) <= Len(d) /\ c # d
  BY <1>2, <1>3
<1> QED
  BY <1>1, <1>6, <1>7 DEF IsStrictPrefix, IsPrefix

THEOREM RouterNeverGoesBack == Spec => NeverBack
<1>1. IInv /\ [Next]_vars => [pc' = pc /\ pc \in {"reverse", "get_handler"} => Forward]_vars
  <2> SUFFICES ASSUME IInv, Next, pc' = pc, pc \in {"reverse", "get_handler"} PROVE Forward
    BY DEF Next
  <2>0. table \in Tables /\ Frames(frames)
    BY DEF IInv
  <2>1. depth \in Nat \ {0} /\ depth \in 1..depth /\ depth = Len(frames)
    BY <2>0, TopIs DEF depth
  <2>2. CASE NextRoute /\ ~AtEnd
    <3>1. MovedTo(frames, frames', depth) /\ Frames(frames')
      BY <2>0, <2>2, NextRouteIs
    <3> QED
      BY <2>0, <2>1, <3>1, ForwardMoved DEF Forward
  <2>3. ASSUME NEW rest, NEW taken, NEW at \in {0, 1}, Enter(rest, taken, at), ~AtEnd, Top.at # 0, Route.router # None
        PROVE  Forward
    <3>1. EnteredTo(frames, frames', at) /\ Frames(frames')
      BY <2>0, <2>3, EnterIs
    <3> QED
      BY <2>0, <3>1, ForwardEntered DEF Forward
  <2>4. ASSUME NEW nothing, nothing # pc, Return(nothing) PROVE Forward
    <3>1. depth # 1 /\ frames' = Moved(frames, depth - 1)
      BY <2>0, <2>4, ReturnCases
    <3>2. depth - 1 \in 1..Len(frames) /\ MovedTo(frames, frames', depth - 1) /\ Frames(frames')
      BY <2>0, <3>1, ReturnIs
    <3>3. depth - 1 \in 1..depth
      BY <2>1, <3>2
    <3> QED
      BY <2>0, <3>2, <3>3, ForwardMoved DEF Forward
  <2>5. CASE Start
    BY <2>5 DEF Start, Register, ReverseOption, Handle
  <2>6. CASE ReverseNamed
    BY <2>6 DEF ReverseNamed
  <2>7. CASE ReverseRoute
    <3>1. Top.at \in Nat
      BY <2>0, TopIs
    <3> QED
      BY <2>2, <2>3, <2>7, <3>1 DEF ReverseRoute
  <2>8. CASE ReverseReturn
    BY <2>4, <2>8 DEF ReverseReturn
  <2>9. CASE HandleRoute
    <3>1. Top.at # 0
      <4>1. Searching(frames, path)
        BY <2>9 DEF HandleRoute, IInv
      <4> QED
        BY <2>0, <2>1, <4>1, TopIs DEF Searching, Last
    <3>2. ~(pc' = "found")
      BY <2>9 DEF HandleRoute
    <3> QED
      BY <2>2, <2>3, <2>9, <3>1, <3>2 DEF HandleRoute
  <2>10. CASE HandleReturn
    BY <2>4, <2>10 DEF HandleReturn
  <2> QED
    BY <2>5, <2>6, <2>7, <2>8, <2>9, <2>10 DEF Next, Iterate
<1> QED
  BY <1>1, IInvAlways, PTL DEF Spec, NeverBack

-----------------------------------------------------------------------------
(* Sequences after sequences.                                               *)
LEMMA SequencesAlike ==
  ASSUME NEW s, IsSequence(s), NEW r, IsSequence(r)
  PROVE  \E T : s \in Seq(T) /\ r \in Seq(T)
<1>1. PICK A, B : s \in Seq(A) /\ r \in Seq(B)
  BY DEF IsSequence
<1> DEFINE T == A \cup B
<1>2. s \in Seq(T) /\ r \in Seq(T)
  BY <1>1
<1> QED
  BY <1>2

LEMMA SequenceSame ==
  ASSUME NEW s, IsSequence(s), NEW r, IsSequence(r), Len(s) = Len(r), \A k \in 1..Len(s) : s[k] = r[k]
  PROVE  s = r
<1>1. s = [k \in 1..Len(s) |-> s[k]] /\ r = [k \in 1..Len(r) |-> r[k]]
  BY SequenceIs
<1> QED
  BY <1>1

LEMMA SequenceConcat ==
  ASSUME NEW s, IsSequence(s), NEW r, IsSequence(r)
  PROVE  /\ IsSequence(s \o r) /\ Len(s \o r) = Len(s) + Len(r)
         /\ \A k \in 1..Len(s) : (s \o r)[k] = s[k]
         /\ \A k \in 1..Len(r) : (s \o r)[Len(s) + k] = r[k]
<1>1. PICK T : s \in Seq(T) /\ r \in Seq(T)
  BY SequencesAlike
<1>2. s \o r \in Seq(T)
  BY <1>1
<1> QED
  BY <1>1, <1>2 DEF IsSequence

Joins(t, s, r) ==
  /\ IsSequence(t) /\ Len(t) = Len(s) + Len(r)
  /\ \A k \in 1..Len(s) : t[k] = s[k]
  /\ \A k \in 1..Len(r) : t[Len(s) + k] = r[k]

LEMMA SequenceJoins ==
  ASSUME NEW s, IsSequence(s), NEW r, IsSequence(r)
  PROVE  Joins(s \o r, s, r)
BY SequenceConcat DEF Joins

LEMMA SequenceNone ==
  /\ IsSequence(<<>>) /\ Len(<<>>) = 0
  /\ \A s : IsSequence(s) => s \o <<>> = s /\ <<>> \o s = s
<1>1. <<>> \in Seq({})
  OBVIOUS
<1>2. ASSUME NEW s, IsSequence(s) PROVE s \o <<>> = s /\ <<>> \o s = s
  <2>1. PICK T : s \in Seq(T)
    BY <1>2 DEF IsSequence
  <2> QED
    BY <2>1
<1> QED
  BY <1>1, <1>2 DEF IsSequence

LEMMA SequenceOne == \A e : IsSequence(<<e>>) /\ Len(<<e>>) = 1 /\ <<e>>[1] = e
<1> TAKE e
<1>1. <<e>> \in Seq({e})
  OBVIOUS
<1> QED
  BY <1>1 DEF IsSequence

LEMMA ConcatConcat ==
  ASSUME NEW r, IsSequence(r), NEW s, IsSequence(s), NEW t, IsSequence(t)
  PROVE  (r \o s) \o t = r \o (s \o t)
<1>1. PICK A : r \in Seq(A) /\ s \in Seq(A)
  BY SequencesAlike
<1>2. PICK B : t \in Seq(B)
  BY DEF IsSequence
<1> DEFINE T == A \cup B
<1>3. r \in Seq(T) /\ s \in Seq(T) /\ t \in Seq(T)
  BY <1>1, <1>2
<1> HIDE DEF T
<1> QED
  BY <1>3

LEMMA ConcatAppended ==
  ASSUME NEW r, IsSequence(r), NEW s, IsSequence(s), NEW e
  PROVE  r \o Append(s, e) = Append(r \o s, e) /\ Append(s, e) = s \o <<e>>
<1>1. PICK A : r \in Seq(A) /\ s \in Seq(A)
  BY SequencesAlike
<1> DEFINE T == A \cup {e}
<1>3. r \in Seq(T) /\ s \in Seq(T) /\ e \in T
  BY <1>1
<1> HIDE DEF T
<1> QED
  BY <1>3

(* The beginnings of a sequence.                                            *)
LEMMA OneMore ==
  ASSUME NEW s, IsSequence(s), NEW m \in Nat \ {0}, NEW n \in Nat, n + 1 <= Len(s), m <= n + 1
  PROVE  SubSeq(s, m, n + 1) = Append(SubSeq(s, m, n), s[n + 1])
<1>0. PICK T : s \in Seq(T)
  BY DEF IsSequence
<1> DEFINE t == SubSeq(s, m, n)
           u == SubSeq(s, m, n + 1)
           v == Append(t, s[n + 1])
<1>1. n + 1 \in Nat /\ n <= Len(s) /\ n + 1 \in 1..Len(s) /\ Len(s) \in Nat
  BY <1>0
<1>3. /\ t \in Seq(T) /\ Len(t) = n - m + 1
      /\ \A k \in 1..Len(t) : t[k] = s[m + k - 1]
  BY <1>0, <1>1, SubText
<1>4. /\ u \in Seq(T) /\ Len(u) = n - m + 2
      /\ \A k \in 1..Len(u) : u[k] = s[m + k - 1]
  BY <1>0, <1>1, SubText
<1> HIDE DEF t, u
<1>5. /\ IsSequence(t) /\ IsSequence(u) /\ IsSequence(v) /\ Len(v) = n - m + 2
      /\ \A k \in 1..Len(t) : v[k] = t[k]
      /\ v[Len(t) + 1] = s[n + 1]
  <2>1. IsSequence(t) /\ IsSequence(u)
    BY <1>3, <1>4 DEF IsSequence
  <2> QED
    BY <1>1, <1>3, <2>1, SequenceAppended
<1> HIDE DEF v
<1>6. \A k \in 1..(n - m + 2) : k \in 1..(n - m + 1) \/ (k = n - m + 1 + 1 /\ m + k - 1 = n + 1)
  BY <1>1
<1>7. \A k \in 1..Len(u) : u[k] = v[k]
  BY <1>3, <1>4, <1>5, <1>6
<1>8. u = v
  BY <1>4, <1>5, <1>7, SequenceSame
<1> QED
  BY <1>8 DEF t, u, v

LEMMA Beginnings ==
  ASSUME NEW s, IsSequence(s)
  PROVE  SubSeq(s, 1, 0) = <<>> /\ SubSeq(s, 1, Len(s)) = s
<1>0. PICK T : s \in Seq(T)
  BY DEF IsSequence
<1> QED
  BY <1>0

(* FlattenSeq, whatever the sequences are of.                               *)
AreSequences(seqs) == IsSequence(seqs) /\ \A k \in 1..Len(seqs) : IsSequence(seqs[k])

LEMMA FlattenSteps ==
  ASSUME NEW seqs, AreSequences(seqs)
  PROVE  \E h : /\ h[0] = <<>> /\ h[Len(seqs)] = FlattenSeq(seqs)
                /\ \A k \in 0..Len(seqs) : IsSequence(h[k])
                /\ \A k \in 1..Len(seqs) : h[k] = h[k - 1] \o seqs[k]
<1> DEFINE n == Len(seqs)
<1>0. n \in Nat /\ DOMAIN seqs = 1..n /\ \A k \in 1..n : IsSequence(seqs[k])
  BY SequenceIs DEF AreSequences
<1>1. CASE n = 0
  <2>1. seqs = <<>> /\ FlattenSeq(seqs) = <<>>
    <3>1. seqs = [k \in 1..n |-> seqs[k]]
      BY SequenceIs DEF AreSequences
    <3>2. seqs = <<>>
      BY <1>1, <3>1
    <3> QED
      BY <3>2 DEF FlattenSeq
  <2> DEFINE h == [k \in 0..n |-> <<>>]
  <2>2. h[0] = <<>> /\ h[n] = FlattenSeq(seqs) /\ \A k \in 0..n : IsSequence(h[k])
    BY <1>1, <2>1, SequenceNone
  <2>3. 1..n = {}
    BY <1>1
  <2> HIDE DEF h
  <2> QED
    BY <2>2, <2>3
<1>2. CASE n # 0
  <2> HIDE DEF n
  <2>0. n \in Nat \ {0}
    BY <1>0, <1>2
  <2>1. PICK f : /\ f[1] = seqs[1]
                 /\ \A k \in 2..n : f[k] = f[k - 1] \o seqs[k]
                 /\ FlattenSeq(seqs) = f[n]
    BY <1>0, <2>0, FlattenParts, ZenonT(30) DEF n
  <2> DEFINE S == {k \in Nat : k + 1 <= n => IsSequence(f[k + 1])}
  <2>2. 0 \in S
    BY <1>0, <2>0, <2>1
  <2>3. ASSUME NEW k \in Nat, k \in S PROVE k + 1 \in S
    <3> SUFFICES ASSUME NEW q \in 2..n, q = k + 1 + 1 PROVE IsSequence(f[q])
      BY <2>0
    <3>1. q \in 1..n /\ q - 1 = k + 1 /\ k + 1 <= n
      BY <2>0
    <3>2. IsSequence(f[q - 1]) /\ IsSequence(seqs[q])
      BY <1>0, <2>3, <3>1
    <3>3. f[q] = f[q - 1] \o seqs[q]
      BY <2>1
    <3> QED
      BY <3>2, <3>3, SequenceConcat
  <2> HIDE DEF S
  <2>4. \A k \in Nat : k \in S
    BY <2>2, <2>3, UpTo
  <2>5. \A k \in 1..n : IsSequence(f[k])
    <3> SUFFICES ASSUME NEW k \in 1..n PROVE IsSequence(f[k])
      OBVIOUS
    <3>1. k - 1 \in Nat /\ k - 1 + 1 = k /\ k <= n
      BY <2>0
    <3>2. k - 1 \in S
      BY <2>4, <3>1
    <3> QED
      BY <3>1, <3>2 DEF S
  <2> DEFINE h == [k \in 0..n |-> IF k = 0 THEN <<>> ELSE f[k]]
  <2>6. \A k \in 0..n : k # 0 => k \in 1..n
    BY <2>0
  <2>7. \A k \in 0..n : IsSequence(h[k])
    BY <2>5, <2>6, SequenceNone
  <2>8. h[0] = <<>> /\ h[n] = FlattenSeq(seqs)
    BY <2>0, <2>1
  <2>9. ASSUME NEW k \in 1..n PROVE h[k] = h[k - 1] \o seqs[k]
    <3>1. CASE k = 1
      <4>0. k - 1 = 0 /\ 1 \in 0..n /\ 0 \in 0..n /\ 1 # 0
        BY <2>0, <3>1
      <4>1. h[k] = seqs[1] /\ h[k - 1] = <<>>
        BY <2>1, <3>1, <4>0
      <4>2. <<>> \o seqs[1] = seqs[1]
        BY <1>0, <3>1, SequenceNone
      <4> QED
        BY <3>1, <4>1, <4>2
    <3>2. CASE k # 1
      <4>1. k \in 2..n /\ k - 1 \in 0..n /\ k - 1 # 0 /\ k # 0 /\ k \in 0..n
        BY <2>0, <3>2
      <4> QED
        BY <2>1, <4>1
    <3> QED
      BY <3>1, <3>2
  <2> HIDE DEF h
  <2> QED
    BY <2>7, <2>8, <2>9 DEF n
<1> QED
  BY <1>1, <1>2

LEMMA FlattenAppended ==
  ASSUME NEW seqs, AreSequences(seqs), NEW s, IsSequence(s)
  PROVE  /\ IsSequence(FlattenSeq(seqs)) /\ AreSequences(Append(seqs, s))
         /\ FlattenSeq(Append(seqs, s)) = FlattenSeq(seqs) \o s
<1> DEFINE n == Len(seqs)
           more == Append(seqs, s)
<1>1. /\ n \in Nat /\ n \in 0..n /\ n + 1 \in Nat /\ n + 1 \in 1..(n + 1) /\ n + 1 - 1 = n
      /\ IsSequence(seqs)
  BY SequenceIs DEF AreSequences
<1>2. /\ IsSequence(more) /\ Len(more) = n + 1 /\ more[n + 1] = s
      /\ \A k \in 1..n : more[k] = seqs[k]
  BY <1>1, SequenceAppended
<1>3. AreSequences(more)
  <2>1. ASSUME NEW k \in 1..(n + 1) PROVE IsSequence(more[k])
    <3>1. k \in 1..n \/ k = n + 1
      BY <1>1
    <3> QED
      BY <1>2, <3>1 DEF AreSequences
  <2> QED
    BY <1>2, <2>1 DEF AreSequences
<1> HIDE DEF more
<1>4. PICK h : /\ h[0] = <<>> /\ h[n] = FlattenSeq(seqs)
               /\ \A k \in 0..n : IsSequence(h[k])
               /\ \A k \in 1..n : h[k] = h[k - 1] \o seqs[k]
  BY FlattenSteps
<1>5. PICK g : /\ g[0] = <<>> /\ g[n + 1] = FlattenSeq(more)
               /\ \A k \in 1..(n + 1) : g[k] = g[k - 1] \o more[k]
  <2>1. PICK g : /\ g[0] = <<>> /\ g[Len(more)] = FlattenSeq(more)
                 /\ \A k \in 1..Len(more) : g[k] = g[k - 1] \o more[k]
    BY <1>3, FlattenSteps
  <2>2. Len(more) = n + 1
    BY <1>2
  <2> HIDE DEF n
  <2> QED
    BY <2>1, <2>2
<1> HIDE DEF n
<1> DEFINE S == {k \in Nat : k <= n => g[k] = h[k]}
<1>6. 0 \in S
  BY <1>4, <1>5
<1>7. ASSUME NEW k \in Nat, k \in S PROVE k + 1 \in S
  <2> SUFFICES ASSUME NEW q \in 1..n, q = k + 1 PROVE g[q] = h[q]
    BY <1>1
  <2>1. q \in 1..(n + 1) /\ q - 1 = k /\ k <= n
    BY <1>1
  <2>2. g[q - 1] = h[q - 1]
    BY <1>7, <2>1
  <2>3. g[q] = g[q - 1] \o more[q] /\ h[q] = h[q - 1] \o seqs[q]
    BY <1>4, <1>5, <2>1
  <2> QED
    BY <1>2, <2>1, <2>2, <2>3
<1> HIDE DEF S
<1>8. n \in S
  BY <1>1, <1>6, <1>7, UpTo
<1>9. g[n] = h[n]
  BY <1>1, <1>8 DEF S
<1>10. g[n + 1] = g[n] \o more[n + 1]
  <2>1. PICK q \in 1..(n + 1) : q = n + 1
    BY <1>1
  <2>2. g[q] = g[q - 1] \o more[q]
    BY <1>5, <2>1
  <2>3. q - 1 = n
    BY <1>1, <2>1
  <2> QED
    BY <2>1, <2>2, <2>3
<1> QED
  BY <1>1, <1>2, <1>3, <1>4, <1>5, <1>9, <1>10 DEF more

LEMMA FlattenNothing == FlattenSeq(<<>>) = <<>> /\ AreSequences(<<>>)
<1>1. 1..0 = {}
  OBVIOUS
<1> QED
  BY <1>1, SequenceNone DEF FlattenSeq, AreSequences

LEMMA FlattenOne ==
  ASSUME NEW s, IsSequence(s)
  PROVE  FlattenSeq(<<s>>) = s
<1>1. Append(<<>>, s) = <<s>> /\ <<>> \o s = s
  BY SequenceNone
<1>2. FlattenSeq(Append(<<>>, s)) = FlattenSeq(<<>>) \o s
  BY FlattenNothing, FlattenAppended
<1> QED
  BY <1>1, <1>2, FlattenNothing

LEMMA FlattenConcat ==
  ASSUME NEW a, AreSequences(a), NEW b, AreSequences(b)
  PROVE  FlattenSeq(a \o b) = FlattenSeq(a) \o FlattenSeq(b)
<1> DEFINE to(k) == SubSeq(b, 1, k)
           Good(k) == AreSequences(a \o to(k)) /\ AreSequences(to(k))
                      /\ FlattenSeq(a \o to(k)) = FlattenSeq(a) \o FlattenSeq(to(k))
           S == {k \in Nat : k <= Len(b) => Good(k)}
<1>0. Len(b) \in Nat /\ IsSequence(b) /\ IsSequence(a) /\ IsSequence(FlattenSeq(a))
  BY SequenceIs, FlattenAppended DEF AreSequences
<1>1. 0 \in S
  <2>1. to(0) = <<>> /\ a \o to(0) = a
    BY <1>0, Beginnings, SequenceNone
  <2>2. FlattenSeq(a) \o <<>> = FlattenSeq(a)
    BY <1>0, SequenceNone
  <2> QED
    BY <2>1, <2>2, FlattenNothing
<1>2. ASSUME NEW k \in Nat, k \in S PROVE k + 1 \in S
  <2> SUFFICES ASSUME k + 1 <= Len(b) PROVE Good(k + 1)
    OBVIOUS
  <2> DEFINE t == to(k)
             e == b[k + 1]
  <2>1. IsSequence(e) /\ to(k + 1) = Append(t, e)
    <3>1. k <= Len(b) /\ 1 \in Nat \ {0} /\ 1 <= k + 1 /\ k + 1 \in 1..Len(b)
      BY <1>0
    <3> QED
      BY <1>0, <3>1, OneMore DEF AreSequences
  <2>2. /\ AreSequences(a \o t) /\ AreSequences(t)
        /\ FlattenSeq(a \o t) = FlattenSeq(a) \o FlattenSeq(t)
    BY <1>0, <1>2
  <2> HIDE DEF t, e, to
  <2>3. a \o Append(t, e) = Append(a \o t, e)
    BY <1>0, <2>2, ConcatAppended DEF AreSequences
  <2>4. FlattenSeq(Append(a \o t, e)) = FlattenSeq(a \o t) \o e /\ AreSequences(Append(a \o t, e))
    BY <2>1, <2>2, FlattenAppended
  <2>5. /\ FlattenSeq(Append(t, e)) = FlattenSeq(t) \o e /\ IsSequence(FlattenSeq(t))
        /\ AreSequences(Append(t, e))
    BY <2>1, <2>2, FlattenAppended
  <2>6. (FlattenSeq(a) \o FlattenSeq(t)) \o e = FlattenSeq(a) \o (FlattenSeq(t) \o e)
    <3>1. IsSequence(FlattenSeq(a)) /\ IsSequence(FlattenSeq(t)) /\ IsSequence(e)
      BY <1>0, <2>1, <2>5
    <3> QED
      BY <3>1, ConcatConcat, SMTT(30)
  <2> QED
    BY <2>1, <2>2, <2>3, <2>4, <2>5, <2>6
<1> HIDE DEF S
<1>3. Len(b) \in S
  BY <1>0, <1>1, <1>2, UpTo
<1>4. to(Len(b)) = b
  BY <1>0, Beginnings
<1> HIDE DEF to
<1>5. Good(Len(b))
  BY <1>0, <1>3 DEF S
<1> QED
  BY <1>4, <1>5

-----------------------------------------------------------------------------
(* A text without its blanks, and with its braces doubled.                  *)
Marks(text) == [i \in DOMAIN text |-> IF text[i] = Blank THEN <<>> ELSE <<text[i]>>]
Braces(text) == [i \in DOMAIN text |-> IF text[i] \in {Open, Close} THEN <<text[i], text[i]>> ELSE <<text[i]>>]
Shown(parts) ==
  [i \in DOMAIN parts |->
    IF IsParam(parts[i]) THEN <<Open>> \o parts[i].name \o <<Close>> ELSE Escaped(parts[i].literal)]

LEMMA MarksAre ==
  ASSUME NEW text, IsSequence(text)
  PROVE  /\ AreSequences(Marks(text)) /\ Len(Marks(text)) = Len(text)
         /\ \A i \in 1..Len(text) : Marks(text)[i] = IF text[i] = Blank THEN <<>> ELSE <<text[i]>>
<1> DEFINE m == Marks(text)
<1>1. DOMAIN text = 1..Len(text) /\ Len(text) \in Nat
  BY SequenceIs
<1>2. m = [i \in 1..Len(text) |-> IF text[i] = Blank THEN <<>> ELSE <<text[i]>>]
  BY <1>1 DEF Marks
<1>3. m = [i \in 1..Len(text) |-> m[i]]
      /\ \A i \in 1..Len(text) : m[i] = IF text[i] = Blank THEN <<>> ELSE <<text[i]>>
  BY <1>2
<1> HIDE DEF m
<1>4. IsSequence(m) /\ Len(m) = Len(text)
  BY <1>1, <1>3, SequenceWith
<1>5. \A i \in 1..Len(text) : IsSequence(m[i])
  BY <1>3, SequenceNone, SequenceOne
<1> QED
  BY <1>3, <1>4, <1>5 DEF m, AreSequences

LEMMA MarksConcat ==
  ASSUME NEW s, IsSequence(s), NEW r, IsSequence(r)
  PROVE  Marks(s \o r) = Marks(s) \o Marks(r)
<1> DEFINE t == s \o r
           joined == Marks(s) \o Marks(r)
<1>2. /\ IsSequence(t) /\ Len(t) = Len(s) + Len(r)
      /\ \A k \in 1..Len(s) : t[k] = s[k]
      /\ \A k \in 1..Len(r) : t[Len(s) + k] = r[k]
  BY SequenceConcat
<1>3. /\ IsSequence(joined) /\ Len(joined) = Len(s) + Len(r)
      /\ \A k \in 1..Len(s) : joined[k] = Marks(s)[k]
      /\ \A k \in 1..Len(r) : joined[Len(s) + k] = Marks(r)[k]
  <2>1. /\ IsSequence(Marks(s)) /\ Len(Marks(s)) = Len(s)
        /\ IsSequence(Marks(r)) /\ Len(Marks(r)) = Len(r)
    BY MarksAre DEF AreSequences
  <2>2. /\ IsSequence(joined) /\ Len(joined) = Len(Marks(s)) + Len(Marks(r))
        /\ \A k \in 1..Len(Marks(s)) : joined[k] = Marks(s)[k]
        /\ \A k \in 1..Len(Marks(r)) : joined[Len(Marks(s)) + k] = Marks(r)[k]
    <3>1. Joins(joined, Marks(s), Marks(r))
      BY <2>1, SequenceJoins, Zenon
    <3> QED
      BY <3>1 DEF Joins
  <2> QED
    BY <2>1, <2>2
<1> HIDE DEF t, joined
<1>4. IsSequence(Marks(t)) /\ Len(Marks(t)) = Len(joined)
  BY <1>2, <1>3, MarksAre DEF AreSequences
<1>5. ASSUME NEW k \in 1..Len(Marks(t)) PROVE Marks(t)[k] = joined[k]
  <2>0. Len(s) \in Nat /\ Len(r) \in Nat /\ k \in 1..Len(t)
    BY <1>2, <1>3, <1>4, SequenceIs
  <2>1. CASE k \in 1..Len(s)
    <3>1. t[k] = s[k] /\ joined[k] = Marks(s)[k]
      BY <1>2, <1>3, <2>1
    <3>2. Marks(t)[k] = IF t[k] = Blank THEN <<>> ELSE <<t[k]>>
      BY <1>2, <2>0, MarksAre
    <3>3. Marks(s)[k] = IF s[k] = Blank THEN <<>> ELSE <<s[k]>>
      BY <2>1, MarksAre
    <3> QED
      BY <3>1, <3>2, <3>3
  <2>2. CASE k \notin 1..Len(s)
    <3>1. PICK j \in 1..Len(r) : k = Len(s) + j
      <4>1. k - Len(s) \in 1..Len(r) /\ k = Len(s) + (k - Len(s))
        BY <1>2, <2>0, <2>2
      <4> QED
        BY <4>1
    <3>2. t[k] = r[j] /\ joined[k] = Marks(r)[j]
      BY <1>2, <1>3, <3>1
    <3>3. Marks(t)[k] = IF t[k] = Blank THEN <<>> ELSE <<t[k]>>
      BY <1>2, <2>0, MarksAre
    <3>4. Marks(r)[j] = IF r[j] = Blank THEN <<>> ELSE <<r[j]>>
      BY MarksAre
    <3> QED
      BY <3>2, <3>3, <3>4
  <2> QED
    BY <2>1, <2>2
<1>6. Marks(t) = joined
  BY <1>3, <1>4, <1>5, SequenceSame
<1> QED
  BY <1>6 DEF t, joined

LEMMA BlanksConcat ==
  ASSUME NEW s, IsSequence(s), NEW r, IsSequence(r)
  PROVE  /\ IsSequence(NoBlanks(s))
         /\ NoBlanks(s \o r) = NoBlanks(s) \o NoBlanks(r)
<1>1. \A t : NoBlanks(t) = FlattenSeq(Marks(t))
  BY DEF NoBlanks, Marks
<1>2. AreSequences(Marks(s)) /\ AreSequences(Marks(r))
  BY MarksAre
<1>3. IsSequence(FlattenSeq(Marks(s)))
  BY <1>2, SequenceNone, FlattenAppended
<1>4. Marks(s \o r) = Marks(s) \o Marks(r)
  BY MarksConcat
<1>5. FlattenSeq(Marks(s) \o Marks(r)) = FlattenSeq(Marks(s)) \o FlattenSeq(Marks(r))
  BY <1>2, FlattenConcat
<1> QED
  BY <1>1, <1>3, <1>4, <1>5

LEMMA BlanksOne ==
  ASSUME NEW c PROVE NoBlanks(<<c>>) = IF c = Blank THEN <<>> ELSE <<c>>
<1> DEFINE s == IF c = Blank THEN <<>> ELSE <<c>>
<1>1. IsSequence(s)
  BY SequenceNone, SequenceOne
<1>2. Marks(<<c>>) = <<s>>
  BY DEF Marks
<1> HIDE DEF s
<1>3. NoBlanks(<<c>>) = FlattenSeq(<<s>>)
  BY <1>2 DEF NoBlanks, Marks
<1> QED
  BY <1>1, <1>3, FlattenOne DEF s

LEMMA BlanksNothing == NoBlanks(<<>>) = <<>>
<1>1. Marks(<<>>) = <<>>
  BY DEF Marks
<1> QED
  BY <1>1, FlattenNothing DEF NoBlanks, Marks

LEMMA BlanksAppended ==
  ASSUME NEW s, IsSequence(s), NEW c
  PROVE  NoBlanks(Append(s, c)) = NoBlanks(s) \o NoBlanks(<<c>>)
<1>1. Append(s, c) = s \o <<c>> /\ IsSequence(<<c>>)
  BY ConcatAppended, SequenceOne
<1> QED
  BY <1>1, BlanksConcat

(* Nothing but blanks.                                                      *)
LEMMA BlanksOnly ==
  ASSUME NEW s, IsSequence(s), \A k \in 1..Len(s) : s[k] = Blank
  PROVE  NoBlanks(s) = <<>>
<1> DEFINE S == {k \in Nat : k <= Len(s) => NoBlanks(SubSeq(s, 1, k)) = <<>>}
<1>0. Len(s) \in Nat
  BY SequenceIs
<1>1. 0 \in S
  BY Beginnings, BlanksNothing
<1>2. ASSUME NEW k \in Nat, k \in S PROVE k + 1 \in S
  <2> SUFFICES ASSUME k + 1 <= Len(s) PROVE NoBlanks(SubSeq(s, 1, k + 1)) = <<>>
    OBVIOUS
  <2>1. k <= Len(s) /\ k \in 0..Len(s) /\ k + 1 \in 1..Len(s) /\ 1 \in Nat \ {0} /\ 1 <= k + 1
    BY <1>0
  <2>2. SubSeq(s, 1, k + 1) = Append(SubSeq(s, 1, k), Blank)
    BY <2>1, OneMore
  <2>3. IsSequence(SubSeq(s, 1, k)) /\ NoBlanks(SubSeq(s, 1, k)) = <<>>
    BY <1>2, <2>1, SequenceShortened
  <2>4. NoBlanks(<<Blank>>) = <<>>
    BY BlanksOne
  <2>5. NoBlanks(Append(SubSeq(s, 1, k), Blank)) = NoBlanks(SubSeq(s, 1, k)) \o NoBlanks(<<Blank>>)
    BY <2>3, BlanksAppended
  <2>6. <<>> \o <<>> = <<>>
    BY SequenceNone
  <2> QED
    BY <2>2, <2>3, <2>4, <2>5, <2>6
<1> HIDE DEF S
<1>3. Len(s) \in S
  BY <1>0, <1>1, <1>2, UpTo
<1>4. NoBlanks(SubSeq(s, 1, Len(s))) = <<>>
  BY <1>0, <1>3 DEF S
<1>5. SubSeq(s, 1, Len(s)) = s
  BY Beginnings
<1> QED
  BY <1>4, <1>5

(* A text is what comes before a part of it, the part, and what comes after.*)
LEMMA ThreeParts ==
  ASSUME NEW s, IsSequence(s), NEW m \in 1..Len(s), NEW n \in 1..Len(s), m <= n
  PROVE  /\ s = SubSeq(s, 1, m - 1) \o (SubSeq(s, m, n) \o SubSeq(s, n + 1, Len(s)))
         /\ IsSequence(SubSeq(s, 1, m - 1)) /\ IsSequence(SubSeq(s, m, n)) /\ IsSequence(SubSeq(s, n + 1, Len(s)))
         /\ Len(SubSeq(s, 1, m - 1)) = m - 1 /\ \A k \in 1..(m - 1) : SubSeq(s, 1, m - 1)[k] = s[k]
         /\ Len(SubSeq(s, n + 1, Len(s))) = Len(s) - n
         /\ \A k \in 1..(Len(s) - n) : SubSeq(s, n + 1, Len(s))[k] = s[n + k]
<1>0. PICK T : s \in Seq(T)
  BY DEF IsSequence
<1> DEFINE L == Len(s)
           a == SubSeq(s, 1, m - 1)
           b == SubSeq(s, m, n)
           c == SubSeq(s, n + 1, L)
           t == a \o (b \o c)
<1>1. L \in Nat /\ 1 \in Nat \ {0} /\ m - 1 \in Nat /\ m - 1 <= L /\ n <= L /\ n + 1 \in Nat \ {0}
      /\ m \in Nat \ {0} /\ n \in Nat
  BY <1>0
<1>2. a \in Seq(T) /\ Len(a) = m - 1 /\ \A k \in 1..(m - 1) : a[k] = s[k]
  BY <1>0, <1>1, SubText
<1>3. b \in Seq(T) /\ Len(b) = n - m + 1 /\ \A k \in 1..(n - m + 1) : b[k] = s[m + k - 1]
  BY <1>0, <1>1, SubText
<1>4. c \in Seq(T) /\ Len(c) = L - n /\ \A k \in 1..(L - n) : c[k] = s[n + k]
  <2>1. c \in Seq(T) /\ Len(c) = (IF n + 1 <= L THEN L - (n + 1) + 1 ELSE 0)
        /\ \A k \in 1..Len(c) : c[k] = s[n + 1 + k - 1]
    BY <1>0, <1>1, SubText
  <2> HIDE DEF c
  <2>2. Len(c) = L - n
    BY <1>1, <2>1
  <2>3. \A k \in 1..(L - n) : n + 1 + k - 1 = n + k
    BY <1>1
  <2> QED
    BY <2>1, <2>2, <2>3
<1> HIDE DEF a, b, c
<1>5. IsSequence(a) /\ IsSequence(b) /\ IsSequence(c)
  BY <1>2, <1>3, <1>4 DEF IsSequence
<1>6. /\ IsSequence(b \o c) /\ Len(b \o c) = L - m + 1
      /\ \A k \in 1..Len(b) : (b \o c)[k] = b[k]
      /\ \A k \in 1..Len(c) : (b \o c)[Len(b) + k] = c[k]
  <2>1. Len(b) + Len(c) = L - m + 1
    BY <1>1, <1>3, <1>4
  <2>2. Joins(b \o c, b, c)
    BY <1>5, SequenceJoins
  <2> QED
    BY <2>1, <2>2 DEF Joins
<1> DEFINE d == b \o c
<1> HIDE DEF d, L
<1>7. \A k \in 1..(L - m + 1) : d[k] = s[m - 1 + k]
  <2> TAKE k \in 1..(L - m + 1)
  <2>1. CASE k <= n - m + 1
    <3>1. k \in 1..(n - m + 1) /\ m + k - 1 = m - 1 + k
      BY <1>1, <2>1
    <3> QED
      BY <1>3, <1>6, <3>1 DEF d
  <2>2. CASE ~(k <= n - m + 1)
    <3>1. PICK j \in 1..(L - n) : k = n - m + 1 + j
      <4>1. k - (n - m + 1) \in 1..(L - n) /\ k = n - m + 1 + (k - (n - m + 1))
        BY <1>1, <2>2
      <4> QED
        BY <4>1
    <3>2. k = Len(b) + j /\ j \in 1..Len(c) /\ n + j = m - 1 + k
      BY <1>1, <1>3, <1>4, <3>1
    <3>3. d[k] = c[j]
      BY <1>6, <3>2 DEF d
    <3> QED
      BY <1>4, <3>1, <3>2, <3>3
  <2> QED
    BY <2>1, <2>2
<1>8. /\ IsSequence(t) /\ Len(t) = L
      /\ \A k \in 1..(m - 1) : t[k] = a[k]
      /\ \A k \in 1..(L - m + 1) : t[m - 1 + k] = d[k]
  <2>1. m - 1 + (L - m + 1) = L
    BY <1>1
  <2>2. IsSequence(d) /\ Len(d) = L - m + 1
    BY <1>6 DEF d
  <2>3. /\ IsSequence(a \o d) /\ Len(a \o d) = Len(a) + Len(d)
        /\ \A k \in 1..Len(a) : (a \o d)[k] = a[k]
        /\ \A k \in 1..Len(d) : (a \o d)[Len(a) + k] = d[k]
    <3>1. Joins(a \o d, a, d)
      BY <1>5, <2>2, SequenceJoins, Zenon
    <3> QED
      BY <3>1 DEF Joins
  <2>4. t = a \o d
    BY DEF d
  <2> QED
    BY <1>2, <2>1, <2>2, <2>3, <2>4
<1> HIDE DEF t
<1>9. \A k \in 1..L : t[k] = s[k]
  <2> TAKE k \in 1..L
  <2>1. CASE k <= m - 1
    <3>1. k \in 1..(m - 1)
      BY <1>1, <2>1
    <3> QED
      BY <1>2, <1>8, <3>1
  <2>2. CASE ~(k <= m - 1)
    <3>1. PICK j \in 1..(L - m + 1) : k = m - 1 + j
      <4>1. k - (m - 1) \in 1..(L - m + 1) /\ k = m - 1 + (k - (m - 1))
        BY <1>1, <2>2
      <4> QED
        BY <4>1
    <3> QED
      BY <1>7, <1>8, <3>1
  <2> QED
    BY <2>1, <2>2
<1>10. t = s
  BY <1>8, <1>9, SequenceSame DEF L
<1> QED
  BY <1>2, <1>4, <1>5, <1>10 DEF a, b, c, t, L

LEMMA BlanksTrimmed ==
  ASSUME NEW s \in Seq(Char)
  PROVE  NoBlanks(Trimmed(s)) = NoBlanks(s) /\ IsSequence(Trimmed(s)) /\ IsSequence(s)
<1> DEFINE kept == {i \in DOMAIN s : s[i] # Blank}
<1>0. IsSequence(s) /\ IsSequence(Trimmed(s)) /\ Len(s) \in Nat /\ DOMAIN s = 1..Len(s)
  BY TrimmedText DEF IsSequence
<1>1. CASE kept = {}
  <2>1. Trimmed(s) = <<>>
    BY <1>1 DEF Trimmed
  <2>2. \A k \in 1..Len(s) : s[k] = Blank
    BY <1>0, <1>1
  <2> QED
    BY <1>0, <2>1, <2>2, BlanksOnly, BlanksNothing
<1>2. CASE kept # {}
  <2> DEFINE m == Min(kept)
             n == Max(kept)
             a == SubSeq(s, 1, m - 1)
             b == SubSeq(s, m, n)
             c == SubSeq(s, n + 1, Len(s))
  <2>1. kept \in SUBSET (1..Len(s)) /\ kept \subseteq Nat
    BY <1>0
  <2>2. m \in kept /\ n \in kept /\ \A k \in kept : m <= k /\ k <= n
    BY <1>0, <1>2, <2>1, Lowest, Highest
  <2>3. Trimmed(s) = b
    BY <1>2 DEF Trimmed
  <2>4. m \in 1..Len(s) /\ n \in 1..Len(s) /\ m <= n
    BY <2>1, <2>2
  <2>5. \A k \in 1..Len(s) : s[k] # Blank => m <= k /\ k <= n
    BY <1>0, <2>2
  <2> HIDE DEF m, n
  <2>6. /\ s = a \o (b \o c) /\ IsSequence(a) /\ IsSequence(b) /\ IsSequence(c)
        /\ Len(a) = m - 1 /\ \A k \in 1..(m - 1) : a[k] = s[k]
        /\ Len(c) = Len(s) - n /\ \A k \in 1..(Len(s) - n) : c[k] = s[n + k]
    BY <1>0, <2>4, ThreeParts
  <2> HIDE DEF a, b, c
  <2>7. \A k \in 1..(m - 1) : a[k] = Blank
    <3> TAKE k \in 1..(m - 1)
    <3>1. k \in 1..Len(s) /\ ~(m <= k)
      BY <1>0, <2>4
    <3> QED
      BY <2>5, <2>6, <3>1
  <2>8. \A k \in 1..(Len(s) - n) : c[k] = Blank
    <3> TAKE k \in 1..(Len(s) - n)
    <3>1. n + k \in 1..Len(s) /\ ~(n + k <= n)
      BY <1>0, <2>4
    <3> QED
      BY <2>5, <2>6, <3>1
  <2>9. NoBlanks(a) = <<>> /\ NoBlanks(c) = <<>>
    BY <2>6, <2>7, <2>8, BlanksOnly
  <2>10. IsSequence(b \o c) /\ IsSequence(NoBlanks(b))
    BY <2>6, SequenceConcat, BlanksConcat
  <2>11. NoBlanks(s) = NoBlanks(a) \o NoBlanks(b \o c) /\ NoBlanks(b \o c) = NoBlanks(b) \o NoBlanks(c)
    BY <2>6, <2>10, BlanksConcat
  <2>12. NoBlanks(b) \o <<>> = NoBlanks(b) /\ <<>> \o NoBlanks(b) = NoBlanks(b)
    BY <2>10, SequenceNone
  <2> QED
    BY <1>0, <2>3, <2>9, <2>11, <2>12
<1> QED
  BY <1>1, <1>2

LEMMA BracesAre ==
  ASSUME NEW text, IsSequence(text)
  PROVE  AreSequences(Braces(text)) /\ IsSequence(Escaped(text)) /\ Escaped(text) = FlattenSeq(Braces(text))
<1> DEFINE b == Braces(text)
<1>0. IsSequence(text) /\ Len(text) \in Nat /\ DOMAIN text = 1..Len(text)
  BY SequenceIs
<1>1. b = [i \in 1..Len(text) |-> b[i]]
  BY <1>0 DEF Braces
<1>2. ASSUME NEW i \in 1..Len(text) PROVE IsSequence(b[i])
  <2>1. b[i] = <<text[i], text[i]>> \/ b[i] = <<text[i]>>
    BY <1>0 DEF Braces
  <2>2. <<text[i], text[i]>> \in Seq({text[i]})
    OBVIOUS
  <2>3. IsSequence(<<text[i], text[i]>>) /\ IsSequence(<<text[i]>>)
    BY <2>2, SequenceOne DEF IsSequence
  <2> QED
    BY <2>1, <2>3
<1> HIDE DEF b
<1>3. IsSequence(b) /\ Len(b) = Len(text)
  BY <1>0, <1>1, SequenceWith
<1>4. AreSequences(b)
  BY <1>2, <1>3 DEF AreSequences
<1>5. IsSequence(FlattenSeq(b))
  BY <1>4, FlattenAppended, SequenceNone
<1>6. Escaped(text) = FlattenSeq(b)
  BY DEF Escaped, b, Braces
<1> QED
  BY <1>4, <1>5, <1>6 DEF b

LEMMA EscapedAppended ==
  ASSUME NEW text, IsSequence(text), NEW c
  PROVE  Escaped(Append(text, c)) = Escaped(text) \o (IF c \in {Open, Close} THEN <<c, c>> ELSE <<c>>)
<1> DEFINE more == Append(text, c)
           d == IF c \in {Open, Close} THEN <<c, c>> ELSE <<c>>
           n == Len(text)
<1>0. n \in Nat /\ DOMAIN text = 1..n
  BY SequenceIs
<1>1. IsSequence(more) /\ Len(more) = n + 1 /\ more[n + 1] = c /\ \A k \in 1..n : more[k] = text[k]
  BY SequenceAppended
<1>2. DOMAIN more = 1..(n + 1)
  BY <1>1, SequenceIs
<1>3. IsSequence(d)
  <2>1. <<c, c>> \in Seq({c})
    OBVIOUS
  <2> QED
    BY <2>1, SequenceOne DEF IsSequence
<1> HIDE DEF more
<1>4. Braces(more) = Append(Braces(text), d)
  <2> DEFINE b == Braces(text)
             e == Append(b, d)
             f == Braces(more)
  <2>1. AreSequences(b) /\ AreSequences(f)
    BY <1>1, BracesAre
  <2>2. b = [k \in 1..n |-> IF text[k] \in {Open, Close} THEN <<text[k], text[k]>> ELSE <<text[k]>>]
    BY <1>0 DEF Braces
  <2>3. f = [k \in 1..(n + 1) |-> IF more[k] \in {Open, Close} THEN <<more[k], more[k]>> ELSE <<more[k]>>]
    BY <1>2 DEF Braces
  <2>4. Len(b) = n /\ Len(f) = n + 1
    <3>1. b = [k \in 1..n |-> b[k]] /\ f = [k \in 1..(n + 1) |-> f[k]]
      BY <2>2, <2>3
    <3> HIDE DEF b, f
    <3> QED
      BY <1>0, <3>1, SequenceWith
  <2>5. \A k \in 1..n : f[k] = b[k]
    <3> TAKE k \in 1..n
    <3>1. k \in 1..(n + 1)
      BY <1>0
    <3> HIDE DEF b, d, e, f
    <3>2. f[k] = IF more[k] \in {Open, Close} THEN <<more[k], more[k]>> ELSE <<more[k]>>
      BY <2>3, <3>1, Zenon
    <3>3. b[k] = IF text[k] \in {Open, Close} THEN <<text[k], text[k]>> ELSE <<text[k]>>
      BY <2>2, Zenon
    <3>4. more[k] = text[k]
      BY <1>1, Zenon
    <3> QED
      BY <3>2, <3>3, <3>4, Zenon
  <2>6. f[n + 1] = d
    <3>1. n + 1 \in 1..(n + 1)
      BY <1>0
    <3> QED
      BY <1>1, <2>3, <3>1
  <2> HIDE DEF b, d, f
  <2>7. IsSequence(e) /\ Len(e) = n + 1 /\ e[n + 1] = d /\ \A k \in 1..n : e[k] = b[k]
    BY <2>1, <2>4, SequenceAppended DEF AreSequences
  <2>8. \A k \in 1..(n + 1) : f[k] = e[k]
    <3> TAKE k \in 1..(n + 1)
    <3>1. k \in 1..n \/ k = n + 1
      BY <1>0
    <3> QED
      BY <2>5, <2>6, <2>7, <3>1
  <2> HIDE DEF e
  <2>9. f = e
    BY <2>1, <2>4, <2>7, <2>8, SequenceSame DEF AreSequences
  <2> QED
    BY <2>9 DEF b, e, f
<1>5. FlattenSeq(Append(Braces(text), d)) = FlattenSeq(Braces(text)) \o d
  BY <1>3, BracesAre, FlattenAppended
<1> HIDE DEF d
<1>6. Escaped(more) = FlattenSeq(Braces(more)) /\ Escaped(text) = FlattenSeq(Braces(text))
  BY <1>1, BracesAre
<1> QED
  BY <1>4, <1>5, <1>6 DEF d, more

LEMMA EscapedNothing == Escaped(<<>>) = <<>>
<1>1. Braces(<<>>) = <<>>
  BY DEF Braces
<1>2. Escaped(<<>>) = FlattenSeq(Braces(<<>>))
  BY BracesAre, SequenceNone
<1> QED
  BY <1>1, <1>2, FlattenNothing

(* A pattern shown, part by part.                                           *)
ShownPart(part) ==
  IF IsParam(part) THEN <<Open>> \o part.name \o <<Close>> ELSE Escaped(part.literal)

LEMMA ShownPartIs == ASSUME NEW part \in Part PROVE IsSequence(ShownPart(part))
<1>1. CASE IsParam(part)
  <2>1. part.name \in Seq(Char)
    BY <1>1 DEF Part, IsParam
  <2>2. IsSequence(part.name)
    BY <2>1 DEF IsSequence
  <2>3. IsSequence(<<Open>> \o part.name)
    BY <2>2, SequenceOne, SequenceConcat
  <2>4. IsSequence((<<Open>> \o part.name) \o <<Close>>)
    BY <2>3, SequenceOne, SequenceConcat
  <2> QED
    BY <1>1, <2>4 DEF ShownPart
<1>2. CASE ~IsParam(part)
  <2>1. part.literal \in Seq(Char)
    BY <1>2 DEF Part, IsParam
  <2>2. IsSequence(part.literal)
    BY <2>1 DEF IsSequence
  <2> QED
    BY <1>2, <2>2, BracesAre DEF ShownPart
<1> QED
  BY <1>1, <1>2

LEMMA ShownAre ==
  ASSUME NEW parts \in Seq(Part)
  PROVE  /\ AreSequences(Shown(parts)) /\ Len(Shown(parts)) = Len(parts)
         /\ \A k \in 1..Len(parts) : Shown(parts)[k] = ShownPart(parts[k])
         /\ Display(parts) = FlattenSeq(Shown(parts)) /\ IsSequence(Display(parts))
<1> DEFINE b == Shown(parts)
           n == Len(parts)
<1>0. n \in Nat /\ DOMAIN parts = 1..n /\ \A k \in 1..n : parts[k] \in Part
  OBVIOUS
<1>1. b = [k \in 1..n |-> ShownPart(parts[k])]
  BY <1>0 DEF Shown, ShownPart
<1>2. b = [k \in 1..n |-> b[k]] /\ \A k \in 1..n : b[k] = ShownPart(parts[k])
  BY <1>1
<1> HIDE DEF b, n
<1>3. IsSequence(b) /\ Len(b) = n
  BY <1>0, <1>2, SequenceWith
<1>4. AreSequences(b)
  BY <1>0, <1>2, <1>3, ShownPartIs DEF AreSequences
<1>5. IsSequence(FlattenSeq(b))
  BY <1>4, FlattenAppended, SequenceNone
<1>6. Display(parts) = FlattenSeq(b)
  BY DEF Display, b, Shown
<1> QED
  BY <1>2, <1>3, <1>4, <1>5, <1>6 DEF b, n

LEMMA DisplayAppended ==
  ASSUME NEW parts \in Seq(Part), NEW part \in Part
  PROVE  Display(Append(parts, part)) = Display(parts) \o ShownPart(part)
<1> DEFINE more == Append(parts, part)
           n == Len(parts)
           b == Shown(parts)
           e == Append(b, ShownPart(part))
           f == Shown(more)
<1>1. /\ more \in Seq(Part) /\ Len(more) = n + 1 /\ more[n + 1] = part
      /\ n \in Nat /\ \A k \in 1..n : more[k] = parts[k]
  OBVIOUS
<1>2. /\ AreSequences(b) /\ Len(b) = n
      /\ \A k \in 1..n : b[k] = ShownPart(parts[k])
      /\ Display(parts) = FlattenSeq(b)
  BY ShownAre
<1> HIDE DEF n, more
<1>3. /\ AreSequences(f) /\ Len(f) = n + 1
      /\ \A k \in 1..(n + 1) : f[k] = ShownPart(more[k])
      /\ Display(more) = FlattenSeq(f)
  BY <1>1, ShownAre
<1> HIDE DEF b, f
<1>4. /\ IsSequence(e) /\ Len(e) = n + 1 /\ e[n + 1] = ShownPart(part)
      /\ \A k \in 1..n : e[k] = b[k]
  BY <1>2, SequenceAppended DEF AreSequences
<1>5. \A k \in 1..(n + 1) : f[k] = e[k]
  <2> TAKE k \in 1..(n + 1)
  <2>1. k \in 1..n \/ k = n + 1
    BY <1>1
  <2> QED
    BY <1>1, <1>2, <1>3, <1>4, <2>1
<1>6. FlattenSeq(e) = FlattenSeq(b) \o ShownPart(part)
  BY <1>2, ShownPartIs, FlattenAppended
<1> HIDE DEF e
<1>7. f = e
  BY <1>3, <1>4, <1>5, SequenceSame DEF AreSequences
<1> QED
  BY <1>2, <1>3, <1>6, <1>7 DEF more

Displayed(parts) == NoBlanks(Display(parts))

LEMMA DisplayedIs ==
  ASSUME NEW parts \in Seq(Part)
  PROVE  IsSequence(Displayed(parts))
<1>1. IsSequence(Display(parts))
  BY ShownAre
<1> QED
  BY <1>1, BlanksConcat, SequenceNone DEF Displayed

LEMMA DisplayedAppended ==
  ASSUME NEW parts \in Seq(Part), NEW part \in Part
  PROVE  Displayed(Append(parts, part)) = Displayed(parts) \o NoBlanks(ShownPart(part))
<1>1. IsSequence(Display(parts)) /\ IsSequence(ShownPart(part))
  BY ShownAre, ShownPartIs
<1> QED
  BY <1>1, DisplayAppended, BlanksConcat DEF Displayed

LEMMA DisplayedText ==
  ASSUME NEW parts \in Seq(Part), NEW text \in Seq(Char)
  PROVE  Displayed(Append(parts, Text(text))) = Displayed(parts) \o NoBlanks(Escaped(text))
<1>1. Text(text) \in Part /\ ~IsParam(Text(text)) /\ Text(text).literal = text
  BY DEF Text, Part, IsParam
<1> QED
  BY <1>1, DisplayedAppended DEF ShownPart

LEMMA DisplayedParam ==
  ASSUME NEW parts \in Seq(Part), NEW text \in Seq(Char)
  PROVE  Displayed(Append(parts, Param(Trimmed(text))))
           = ((Displayed(parts) \o <<Open>>) \o NoBlanks(text)) \o <<Close>>
<1> DEFINE name == Trimmed(text)
           D == Displayed(parts)
           t == NoBlanks(text)
<1>0. Open # Blank /\ Close # Blank
  BY DEF Open, Close, Blank
<1>1. name \in Seq(Char) /\ IsSequence(name) /\ NoBlanks(name) = t /\ IsSequence(t)
  BY TrimmedText, BlanksTrimmed, BlanksConcat
<1> HIDE DEF name
<1>2. Param(name) \in Part /\ IsParam(Param(name)) /\ Param(name).name = name
  BY <1>1 DEF Param, Part, IsParam
<1>3. ShownPart(Param(name)) = (<<Open>> \o name) \o <<Close>>
  BY <1>2 DEF ShownPart
<1>4. IsSequence(<<Open>>) /\ IsSequence(<<Close>>) /\ IsSequence(<<Open>> \o name)
  BY <1>1, SequenceOne, SequenceConcat
<1>5. NoBlanks((<<Open>> \o name) \o <<Close>>) = NoBlanks(<<Open>> \o name) \o NoBlanks(<<Close>>)
  BY <1>4, BlanksConcat
<1>6. NoBlanks(<<Open>> \o name) = NoBlanks(<<Open>>) \o t
  BY <1>1, <1>4, BlanksConcat
<1>7. NoBlanks(<<Open>>) = <<Open>> /\ NoBlanks(<<Close>>) = <<Close>>
  BY <1>0, BlanksOne
<1>8. Displayed(Append(parts, Param(name))) = D \o ((<<Open>> \o t) \o <<Close>>)
  BY <1>2, <1>3, <1>5, <1>6, <1>7, DisplayedAppended
<1>9. IsSequence(D)
  BY DisplayedIs
<1> HIDE DEF D, t
<1>10. (D \o <<Open>>) \o t = D \o (<<Open>> \o t)
  <2>1. IsSequence(D) /\ IsSequence(<<Open>>) /\ IsSequence(t)
    BY <1>1, <1>4, <1>9
  <2> QED
    BY <2>1, ConcatConcat, SMTT(30)
<1>11. IsSequence(<<Open>> \o t)
  BY <1>1, <1>4, SequenceConcat
<1>12. (D \o (<<Open>> \o t)) \o <<Close>> = D \o ((<<Open>> \o t) \o <<Close>>)
  <2>1. IsSequence(D) /\ IsSequence(<<Open>> \o t) /\ IsSequence(<<Close>>)
    BY <1>4, <1>9, <1>11
  <2> QED
    BY <2>1, ConcatConcat, SMTT(30)
<1> QED
  BY <1>8, <1>10, <1>12 DEF name, D, t

-----------------------------------------------------------------------------
(* The parser, by the state and the character.                              *)
InText(pattern, text, q, s, result) ==
  \/ pattern[q] = Open /\ text # <<>> /\ result = InParam(Pushed(s, Text(text)), q + 1)
  \/ pattern[q] = Open /\ text = <<>> /\ result = InParam(s, q + 1)
  \/ \E why \in Why : result = Panic(s, why)
  \/ /\ pattern[q] = Close /\ q + 1 <= Len(pattern) /\ pattern[q + 1] = Close
     /\ result = ClosingBraces(pattern, q, s)
  \/ pattern[q] \notin {Open, Close} /\ result = s
InName(pattern, text, q, s, result) ==
  \/ pattern[q] = Open /\ s.start = q /\ result = InLiteral(s, q)
  \/ \E why \in Why : result = Panic(s, why)
  \/ pattern[q] = Close /\ result = InLiteral(Pushed(s, Param(Trimmed(text))), q + 1)
  \/ pattern[q] \notin {Open, Close} /\ result = s

LEMMA ParseCases ==
  ASSUME NEW pattern \in Seq(Char), NEW q \in 1..Len(pattern), NEW s \in Parsing
  PROVE  LET text == SubSeq(pattern, s.start, q - 1)
             result == ParseChar(pattern, q, s)
         IN  /\ s.skip => result = [s EXCEPT !.skip = FALSE]
             /\ ~s.skip /\ s.state = "literal" => InText(pattern, text, q, s, result)
             /\ ~s.skip /\ s.state = "param" => InName(pattern, text, q, s, result)
<1> DEFINE at(j) == IF j > Len(pattern) THEN End ELSE pattern[j]
           ch == pattern[q]
           text == SubSeq(pattern, s.start, q - 1)
           result == ParseChar(pattern, q, s)
<1>1. /\ at(q) = ch /\ ch \in Char /\ End \notin Char /\ Open # Close /\ Close # End
      /\ q \in Nat /\ Len(pattern) \in Nat
  <2>1. Open # Close /\ Close # End /\ End \notin {"/", Open, Close, Blank}
    BY DEF End, Open, Close, Blank
  <2>2. End \notin Letter /\ End \notin Digit
    BY CharAssumption
  <2>3. End \notin Char
    BY <2>1, <2>2 DEF Char
  <2>4. q \in Nat /\ Len(pattern) \in Nat /\ ~(q > Len(pattern)) /\ pattern[q] \in Char
    OBVIOUS
  <2> QED
    BY <2>1, <2>3, <2>4
<1>2. at(q + 1) = Close => q + 1 <= Len(pattern) /\ pattern[q + 1] = Close
  BY <1>1
<1>3. ch # End
  BY <1>1
<1>4. s.skip \in BOOLEAN
  BY DEF Parsing
<1>5. s.skip => result = [s EXCEPT !.skip = FALSE]
  BY DEF ParseChar
<1>6. {"consecutive", "unclosed", "unopened", "name"} = Why
  BY DEF Why
<1> HIDE DEF text
<1>7. ASSUME ~s.skip, s.state = "literal"
      PROVE  \/ ch = Open /\ text # <<>> /\ result = InParam(Pushed(s, Text(text)), q + 1)
             \/ ch = Open /\ text = <<>> /\ result = InParam(s, q + 1)
             \/ result = Panic(s, "consecutive") \/ result = Panic(s, "unopened")
             \/ ch = Close /\ at(q + 1) = Close /\ result = ClosingBraces(pattern, q, s)
             \/ ch \notin {Open, Close} /\ result = s
  <2>0. s.state # "param"
    BY <1>7
  <2>1. CASE ch = Open
    <3>1. text # <<>> => result = InParam(Pushed(s, Text(text)), q + 1)
      BY <1>1, <1>3, <1>7, <2>0, <2>1 DEF ParseChar, text
    <3>2. text = <<>> /\ q = 1 => result = InParam(s, q + 1)
      BY <1>1, <1>3, <1>7, <2>0, <2>1 DEF ParseChar, text
    <3>3. text = <<>> /\ q # 1 => result = Panic(s, "consecutive")
      BY <1>1, <1>3, <1>7, <2>0, <2>1 DEF ParseChar, text
    <3> QED
      BY <2>1, <3>1, <3>2, <3>3
  <2>2. CASE ch = Close
    <3>1. at(q + 1) = Close => result = ClosingBraces(pattern, q, s)
      BY <1>1, <1>3, <1>7, <2>0, <2>2 DEF ParseChar, text
    <3>2. at(q + 1) # Close => result = Panic(s, "unopened")
      BY <1>1, <1>3, <1>7, <2>0, <2>2 DEF ParseChar, text
    <3> QED
      BY <2>2, <3>1, <3>2
  <2>3. CASE ch # Open /\ ch # Close
    <3>1. result = s
      BY <1>1, <1>3, <1>7, <2>0, <2>3 DEF ParseChar, text
    <3> QED
      BY <2>3, <3>1
  <2> QED
    BY <2>1, <2>2, <2>3
<1>8. ASSUME ~s.skip, s.state = "param"
      PROVE  \/ ch = Open /\ s.start = q /\ result = InLiteral(s, q)
             \/ result = Panic(s, "unclosed") \/ result = Panic(s, "name")
             \/ ch = Close /\ result = InLiteral(Pushed(s, Param(Trimmed(text))), q + 1)
             \/ ch \notin {Open, Close} /\ result = s
  <2>0. s.state # "literal"
    BY <1>8
  <2>1. CASE ch = Open
    BY <1>1, <1>3, <1>8, <2>0, <2>1 DEF ParseChar, text
  <2>2. CASE ch = Close
    BY <1>1, <1>3, <1>8, <2>0, <2>2 DEF ParseChar, text
  <2>3. CASE ch # Open /\ ch # Close
    BY <1>1, <1>3, <1>8, <2>0, <2>3 DEF ParseChar, text
  <2> QED
    BY <2>1, <2>2, <2>3
<1> HIDE DEF result, at, ch
<1>9. \A w : w \in {"consecutive", "unclosed", "unopened", "name"} /\ result = Panic(s, w)
             => \E why \in Why : result = Panic(s, why)
  BY <1>6
<1>10. ASSUME ~s.skip, s.state = "literal" PROVE InText(pattern, text, q, s, result)
  BY <1>2, <1>7, <1>9, <1>10 DEF InText, ch
<1>11. ASSUME ~s.skip, s.state = "param" PROVE InName(pattern, text, q, s, result)
  BY <1>8, <1>9, <1>11 DEF InName, ch
<1> QED
  BY <1>5, <1>10, <1>11 DEF result, text

(* At the end of the pattern.                                               *)
LEMMA ParseEnds ==
  ASSUME NEW pattern \in Seq(Char), NEW q, q = Len(pattern) + 1, NEW s \in Parsing, s.state # "panic", ~s.skip
  PROVE  LET text == SubSeq(pattern, s.start, q - 1)
             result == ParseChar(pattern, q, s)
         IN  \/ s.state = "literal" /\ text # <<>> /\ result = InParam(Pushed(s, Text(text)), q + 1)
             \/ s.state = "literal" /\ text = <<>> /\ result = InParam(s, q + 1)
             \/ result.state = "panic"
<1> DEFINE at(j) == IF j > Len(pattern) THEN End ELSE pattern[j]
           text == SubSeq(pattern, s.start, q - 1)
           result == ParseChar(pattern, q, s)
<1>1. at(q) = End /\ End # Close /\ End # Open /\ q \in Nat
  BY DEF End, Open, Close
<1>2. s.state \in {"literal", "param"}
  BY DEF Parsing
<1> HIDE DEF text
<1>3. CASE s.state = "literal"
  <2>0. s.state # "param"
    BY <1>3
  <2>1. text # <<>> => result = InParam(Pushed(s, Text(text)), q + 1)
    BY <1>1, <1>3, <2>0 DEF ParseChar, text
  <2>2. text = <<>> => result = InParam(s, q + 1)
    BY <1>1, <1>3, <2>0 DEF ParseChar, text
  <2> HIDE DEF result
  <2> QED
    BY <1>3, <2>1, <2>2 DEF text, result
<1>4. CASE s.state = "param"
  <2>0. s.state # "literal"
    BY <1>4
  <2>1. result = Panic(s, "unclosed")
    BY <1>1, <1>4, <2>0 DEF ParseChar, text
  <2>2. result.state = "panic"
    BY <2>1 DEF Panic, Parsing
  <2> QED
    BY <2>2
<1> QED
  BY <1>2, <1>3, <1>4

LEMMA ParserMoves ==
  ASSUME NEW s \in Parsing, s.state # "panic", NEW start \in Nat \ {0}
  PROVE  /\ InParam(s, start).state = "param" /\ InLiteral(s, start).state = "literal"
         /\ InParam(s, start).start = start /\ InLiteral(s, start).start = start
         /\ InParam(s, start).parts = s.parts /\ InLiteral(s, start).parts = s.parts
         /\ InParam(s, start).skip = s.skip /\ InLiteral(s, start).skip = s.skip
         /\ InParam(s, start) \in Parsing /\ InLiteral(s, start) \in Parsing
BY DEF Parsing, InParam, InLiteral

LEMMA ParserPushes ==
  ASSUME NEW s \in Parsing, s.state # "panic", NEW part \in Part
  PROVE  /\ Pushed(s, part).parts = Append(s.parts, part) /\ Pushed(s, part).state = s.state
         /\ Pushed(s, part).start = s.start /\ Pushed(s, part).skip = s.skip
         /\ Pushed(s, part) \in Parsing /\ s.parts \in Seq(Part)
<1>1. Pushed(s, part) \in Parsing
  BY PushedPart
<1> QED
  BY <1>1 DEF Parsing, Pushed

LEMMA ParserCloses ==
  ASSUME NEW s \in Parsing, s.state # "panic", NEW pattern \in Seq(Char), NEW q \in 1..Len(pattern)
  PROVE  LET text == SubSeq(pattern, s.start, q)
             u == ClosingBraces(pattern, q, s)
         IN  /\ u.parts = Append(s.parts, Text(text)) /\ u.state = "literal" /\ u.start = q + 2 /\ u.skip
             /\ text \in Seq(Char) /\ s.parts \in Seq(Part)
<1> DEFINE text == SubSeq(pattern, s.start, q)
           v == [s EXCEPT !.skip = TRUE]
           w == InLiteral(v, q + 2)
<1>1. v \in Parsing /\ v.parts = s.parts /\ v.skip /\ v.state = s.state
  BY DEF Parsing
<1>2. q + 2 \in Nat \ {0} /\ s.start \in Nat \ {0} /\ q \in Nat /\ q <= Len(pattern)
  BY DEF Parsing
<1>3. text \in Seq(Char)
  BY <1>2, SubText
<1> HIDE DEF v, text
<1>4. w.state = "literal" /\ w.start = q + 2 /\ w.parts = s.parts /\ w.skip /\ w \in Parsing
  BY <1>1, <1>2, ParserMoves
<1>5. Text(text) \in Part
  BY <1>3 DEF Text, Part
<1>6. ClosingBraces(pattern, q, s) = Pushed(w, Text(text))
  BY DEF ClosingBraces, v, text
<1> HIDE DEF w
<1>7. w.state # "panic"
  BY <1>4
<1> QED
  BY <1>3, <1>4, <1>5, <1>6, <1>7, ParserPushes, SMTT(30) DEF text

Spelled(pattern, k) == NoBlanks(SubSeq(pattern, 1, k))

LEMMA SpelledOneMore ==
  ASSUME NEW pattern, IsSequence(pattern), NEW m \in Nat \ {0}, NEW k \in Nat, NEW q, q = k + 1,
         q <= Len(pattern), m <= q
  PROVE  /\ SubSeq(pattern, m, q) = Append(SubSeq(pattern, m, k), pattern[q])
         /\ IsSequence(SubSeq(pattern, m, k)) /\ IsSequence(Spelled(pattern, k))
         /\ NoBlanks(SubSeq(pattern, m, q)) = NoBlanks(SubSeq(pattern, m, k)) \o NoBlanks(<<pattern[q]>>)
         /\ IsSequence(NoBlanks(SubSeq(pattern, m, k))) /\ IsSequence(NoBlanks(<<pattern[q]>>))
<1>0. PICK T : pattern \in Seq(T)
  BY DEF IsSequence
<1>1. k <= Len(pattern) /\ Len(pattern) \in Nat /\ 1 \in Nat \ {0}
  BY <1>0
<1>2. SubSeq(pattern, m, q) = Append(SubSeq(pattern, m, k), pattern[q])
  BY OneMore
<1>3. SubSeq(pattern, m, k) \in Seq(T) /\ SubSeq(pattern, 1, k) \in Seq(T)
  BY <1>0, <1>1, SubText
<1>4. IsSequence(SubSeq(pattern, m, k)) /\ IsSequence(SubSeq(pattern, 1, k))
  BY <1>3 DEF IsSequence
<1>5. IsSequence(<<pattern[q]>>)
  BY SequenceOne
<1>6. IsSequence(NoBlanks(SubSeq(pattern, m, k))) /\ IsSequence(Spelled(pattern, k)) /\ IsSequence(NoBlanks(<<pattern[q]>>))
  BY <1>4, <1>5, BlanksConcat DEF Spelled
<1> QED
  BY <1>2, <1>4, <1>6, BlanksAppended

(* Of the characters that are read so far, some are in parts and the others *)
(* are the text that is being read.                                         *)
Reads(pattern, k, s) ==
  /\ s \in Parsing
  /\ s.state # "panic" =>
       /\ s.skip => /\ s.state = "literal" /\ k + 1 <= Len(pattern) /\ s.start = k + 2
                    /\ pattern[k + 1] = Close
                    /\ Displayed(s.parts) = Spelled(pattern, k) \o <<Close>>
       /\ ~s.skip =>
            /\ s.start <= k + 1
            /\ s.state = "literal" =>
                 Spelled(pattern, k) = Displayed(s.parts) \o NoBlanks(Escaped(SubSeq(pattern, s.start, k)))
            /\ s.state = "param" =>
                 Spelled(pattern, k) = (Displayed(s.parts) \o <<Open>>) \o NoBlanks(SubSeq(pattern, s.start, k))

LEMMA NothingAfter ==
  ASSUME NEW pattern \in Seq(Char), NEW k \in Nat, NEW m, m = k + 1
  PROVE  /\ SubSeq(pattern, m, k) = <<>>
         /\ NoBlanks(SubSeq(pattern, m, k)) = <<>> /\ NoBlanks(Escaped(SubSeq(pattern, m, k))) = <<>>
<1>1. SubSeq(pattern, m, k) = <<>>
  OBVIOUS
<1> QED
  BY <1>1, BlanksNothing, EscapedNothing

LEMMA EscapedMore ==
  ASSUME NEW t, IsSequence(t), NEW c
  PROVE  /\ NoBlanks(Escaped(Append(t, c)))
              = NoBlanks(Escaped(t)) \o NoBlanks(IF c \in {Open, Close} THEN <<c, c>> ELSE <<c>>)
         /\ IsSequence(NoBlanks(Escaped(t))) /\ IsSequence(NoBlanks(<<c>>))
<1> DEFINE d == IF c \in {Open, Close} THEN <<c, c>> ELSE <<c>>
<1>1. <<c, c>> \in Seq({c})
  OBVIOUS
<1>2. IsSequence(d) /\ IsSequence(<<c>>)
  BY <1>1, SequenceOne DEF IsSequence
<1>3. IsSequence(Escaped(t))
  BY BracesAre
<1>4. Escaped(Append(t, c)) = Escaped(t) \o d
  BY EscapedAppended
<1> HIDE DEF d
<1>5. NoBlanks(Escaped(t) \o d) = NoBlanks(Escaped(t)) \o NoBlanks(d)
  BY <1>2, <1>3, BlanksConcat
<1> QED
  BY <1>2, <1>3, <1>4, <1>5, BlanksConcat DEF d

LEMMA TwoBraces ==
  ASSUME NEW c, c # Blank
  PROVE  NoBlanks(<<c, c>>) = <<c, c>> /\ <<c, c>> = <<c>> \o <<c>> /\ IsSequence(<<c>>) /\ NoBlanks(<<c>>) = <<c>>
<1>1. IsSequence(<<c>>) /\ NoBlanks(<<c>>) = <<c>>
  BY SequenceOne, BlanksOne
<1>2. <<c, c>> = <<c>> \o <<c>>
  OBVIOUS
<1>3. NoBlanks(<<c>> \o <<c>>) = NoBlanks(<<c>>) \o NoBlanks(<<c>>)
  BY <1>1, BlanksConcat
<1> QED
  BY <1>1, <1>2, <1>3

LEMMA ReadsCharacter ==
  ASSUME NEW pattern \in Seq(Char), NEW k \in Nat, NEW q \in 1..Len(pattern), q = k + 1, NEW s, Reads(pattern, k, s)
  PROVE  Reads(pattern, q, ParseChar(pattern, q, s))
<1> DEFINE ch == pattern[q]
           c == NoBlanks(<<ch>>)
           piece == SubSeq(pattern, s.start, k)
           result == ParseChar(pattern, q, s)
           D == Displayed(s.parts)
           E == NoBlanks(Escaped(piece))
           P == NoBlanks(piece)
           S == Spelled(pattern, k)
           S2 == Spelled(pattern, q)
           R == (s.state # "panic" =>
                  /\ s.skip => /\ s.state = "literal" /\ k + 1 <= Len(pattern) /\ s.start = k + 2
                               /\ ch = Close /\ D = S \o <<Close>>
                  /\ ~s.skip => /\ s.start <= k + 1
                                /\ s.state = "literal" => S = D \o E
                                /\ s.state = "param" => S = (D \o <<Open>>) \o P)
<1> SUFFICES Reads(pattern, q, result)
  OBVIOUS
<1>0. IsSequence(pattern) /\ q \in Nat \ {0} /\ q <= Len(pattern) /\ q - 1 = k /\ q + 1 \in Nat \ {0}
      /\ Len(pattern) \in Nat /\ q + 1 = k + 2
  BY DEF IsSequence
<1>1. s \in Parsing /\ R /\ s.state \in {"literal", "param", "panic"} /\ s.skip \in BOOLEAN /\ s.start \in Nat \ {0}
  BY DEF Reads, Parsing
<1>2. result \in Parsing
  <2>1. q \in 1..(Len(pattern) + 1)
    BY <1>0
  <2> QED
    BY <1>1, <2>1, ParseCharKeeps
<1>3. S2 = S \o c /\ IsSequence(S) /\ IsSequence(c) /\ IsSequence(S2)
  <2>1. 1 \in Nat \ {0} /\ 1 <= q
    BY <1>0
  <2>2. /\ NoBlanks(SubSeq(pattern, 1, q)) = NoBlanks(SubSeq(pattern, 1, k)) \o NoBlanks(<<pattern[q]>>)
        /\ IsSequence(NoBlanks(SubSeq(pattern, 1, k))) /\ IsSequence(NoBlanks(<<pattern[q]>>))
    <3>1. IsSequence(pattern) /\ q <= Len(pattern) /\ 1 \in Nat \ {0} /\ 1 <= q /\ q = k + 1 /\ k \in Nat
      BY <1>0, <2>1
    <3> QED
      BY <3>1, SpelledOneMore
  <2>3. S2 = S \o c /\ IsSequence(S) /\ IsSequence(c)
    BY <2>2 DEF Spelled
  <2> HIDE DEF S2, S, c
  <2> QED
    BY <2>3, SequenceConcat
<1>4. /\ Open # Close /\ Open # Blank /\ Close # Blank
  BY DEF Open, Close, Blank
<1>5. /\ NoBlanks(<<Open>>) = <<Open>> /\ NoBlanks(<<Close>>) = <<Close>>
      /\ IsSequence(<<Open>>) /\ IsSequence(<<Close>>)
      /\ NoBlanks(<<Open, Open>>) = <<Open, Open>> /\ NoBlanks(<<Close, Close>>) = <<Close, Close>>
      /\ <<Open, Open>> = <<Open>> \o <<Open>> /\ <<Close, Close>> = <<Close>> \o <<Close>>
  BY <1>4, TwoBraces
<1>6. s.state # "panic" => s.parts \in Seq(Part) /\ IsSequence(D)
  BY <1>1, DisplayedIs DEF Parsing
<1>7. piece \in Seq(Char) /\ IsSequence(piece)
  <2>1. k <= Len(pattern) /\ s.start \in Nat \ {0}
    BY <1>0, <1>1
  <2>2. piece \in Seq(Char)
    BY <2>1, SubText
  <2> HIDE DEF piece
  <2> QED
    BY <2>2 DEF IsSequence
<1>8. IsSequence(E) /\ IsSequence(P)
  BY <1>7, EscapedMore, BlanksConcat
<1>9. s.start <= q => SubSeq(pattern, s.start, q) = Append(piece, ch) /\ NoBlanks(SubSeq(pattern, s.start, q)) = P \o c
  <2> SUFFICES ASSUME s.start <= q
               PROVE  SubSeq(pattern, s.start, q) = Append(piece, ch) /\ NoBlanks(SubSeq(pattern, s.start, q)) = P \o c
    OBVIOUS
  <2>1. IsSequence(pattern) /\ q <= Len(pattern) /\ s.start \in Nat \ {0} /\ s.start <= q /\ q = k + 1 /\ k \in Nat
    BY <1>0, <1>1
  <2> QED
    BY <2>1, SpelledOneMore
<1>10. /\ NoBlanks(Escaped(Append(piece, ch)))
            = E \o NoBlanks(IF ch \in {Open, Close} THEN <<ch, ch>> ELSE <<ch>>)
  BY <1>7, EscapedMore
<1>11. /\ SubSeq(pattern, q + 1, q) = <<>>
       /\ NoBlanks(SubSeq(pattern, q + 1, q)) = <<>> /\ NoBlanks(Escaped(SubSeq(pattern, q + 1, q))) = <<>>
  BY <1>0, NothingAfter
<1>12. S2 \o <<>> = S2 /\ (s.state # "panic" => D \o <<>> = D /\ D \o E = D \o E)
  BY <1>3, <1>6, SequenceNone
<1> HIDE DEF S, S2, D
<1>13. /\ s.skip => result = [s EXCEPT !.skip = FALSE]
       /\ ~s.skip /\ s.state = "literal" => InText(pattern, piece, q, s, result)
       /\ ~s.skip /\ s.state = "param" => InName(pattern, piece, q, s, result)
  <2> DEFINE text == SubSeq(pattern, s.start, q - 1)
  <2>1. text = piece
    BY <1>0
  <2>2. /\ s.skip => result = [s EXCEPT !.skip = FALSE]
        /\ ~s.skip /\ s.state = "literal" => InText(pattern, text, q, s, result)
        /\ ~s.skip /\ s.state = "param" => InName(pattern, text, q, s, result)
    BY <1>1, ParseCases
  <2> HIDE DEF text, piece
  <2> QED
    BY <2>1, <2>2
<1> HIDE DEF result, ch, c, piece, E, P
<1> DEFINE tail == NoBlanks(SubSeq(pattern, result.start, q))
           escaped == NoBlanks(Escaped(SubSeq(pattern, result.start, q)))
           shown == Displayed(result.parts)
(* What is to be shown of the result.                                       *)
<1>14. ASSUME result.state = "param", ~result.skip, result.start <= q + 1,
              S2 = (shown \o <<Open>>) \o tail
       PROVE  Reads(pattern, q, result)
  BY <1>2, <1>14 DEF Reads, S2, tail, shown
<1>15. ASSUME result.state = "literal", ~result.skip, result.start <= q + 1,
              S2 = shown \o escaped
       PROVE  Reads(pattern, q, result)
  BY <1>2, <1>15 DEF Reads, S2, escaped, shown
<1>16. ASSUME NEW why \in Why, result = Panic(s, why) PROVE Reads(pattern, q, result)
  <2>1. result.state = "panic"
    BY <1>1, <1>16 DEF Panic, Parsing
  <2> QED
    BY <1>2, <2>1 DEF Reads
<1> HIDE DEF tail, escaped, shown
<1>23. result.start = q + 1 => tail = <<>> /\ escaped = <<>> /\ result.start <= q + 1
  BY <1>0, <1>11 DEF tail, escaped
<1>24. result.start = s.start => tail = NoBlanks(SubSeq(pattern, s.start, q)) /\ escaped = NoBlanks(Escaped(SubSeq(pattern, s.start, q)))
  BY DEF tail, escaped
<1>17. CASE s.state = "panic"
  <2>1. result.state = "panic"
    <3>1. ~s.skip => result = s
      BY <1>1, <1>17 DEF ParseChar, result
    <3> QED
      BY <1>1, <1>13, <1>17, <3>1 DEF Parsing
  <2> QED
    BY <1>2, <2>1 DEF Reads
<1>18. CASE s.state # "panic" /\ s.skip
  <2>1. result = [s EXCEPT !.skip = FALSE] /\ s.state = "literal" /\ s.start = q + 1 /\ ch = Close /\ D = S \o <<Close>>
    BY <1>0, <1>1, <1>13, <1>18
  <2>2. /\ result.state = "literal" /\ ~result.skip /\ result.start = q + 1 /\ shown = D
    BY <1>1, <2>1 DEF Parsing, D, shown
  <2>3. S2 = D
    BY <1>3, <1>5, <2>1 DEF c
  <2> QED
    BY <1>12, <1>15, <1>18, <1>23, <2>2, <2>3
<1>19. CASE ~s.skip /\ s.state = "literal"
  <2>0. S = D \o E /\ s.start <= q /\ s.state # "panic" /\ s.parts \in Seq(Part)
    BY <1>0, <1>1, <1>6, <1>19
  <2>1. CASE ch = Open /\ result = InParam(Pushed(s, Text(piece)), q + 1)
    <3>1. Text(piece) \in Part
      BY <1>7 DEF Text, Part
    <3>2. /\ Pushed(s, Text(piece)).parts = Append(s.parts, Text(piece))
          /\ Pushed(s, Text(piece)).state = s.state /\ Pushed(s, Text(piece)).skip = s.skip
          /\ Pushed(s, Text(piece)) \in Parsing
      BY <1>1, <2>0, <3>1, ParserPushes
    <3>3. result.state = "param" /\ ~result.skip /\ result.start = q + 1 /\ result.parts = Append(s.parts, Text(piece))
      BY <1>0, <1>19, <2>1, <3>2, ParserMoves
    <3>4. shown = S
      BY <1>7, <2>0, <3>3, DisplayedText DEF D, E, shown
    <3>5. S2 = (S \o <<Open>>) \o <<>>
      <4>1. S2 = S \o <<Open>>
        BY <1>3, <1>5, <2>1 DEF c
      <4> QED
        BY <1>12, <4>1
    <3> QED
      BY <1>14, <1>23, <3>3, <3>4, <3>5
  <2>2. CASE ch = Open /\ piece = <<>> /\ result = InParam(s, q + 1)
    <3>1. result.state = "param" /\ ~result.skip /\ result.start = q + 1 /\ result.parts = s.parts
      BY <1>0, <1>1, <1>19, <2>0, <2>2, ParserMoves
    <3>5. shown = D
      BY <3>1 DEF D, shown
    <3>2. E = <<>>
      BY <2>2, EscapedNothing, BlanksNothing DEF E
    <3>3. S = D
      BY <1>12, <2>0, <3>2
    <3>4. S2 = (D \o <<Open>>) \o <<>>
      <4>1. S2 = D \o <<Open>>
        BY <1>3, <1>5, <2>2, <3>3 DEF c
      <4> QED
        BY <1>12, <4>1
    <3> QED
      BY <1>14, <1>23, <3>1, <3>4, <3>5
  <2>3. CASE ch = Close /\ q + 1 <= Len(pattern) /\ pattern[q + 1] = Close /\ result = ClosingBraces(pattern, q, s)
    <3> DEFINE more == SubSeq(pattern, s.start, q)
    <3>1. /\ result.parts = Append(s.parts, Text(more)) /\ result.state = "literal"
          /\ result.start = q + 2 /\ result.skip /\ more \in Seq(Char)
      BY <1>1, <2>0, <2>3, ParserCloses
    <3>2. Displayed(result.parts) = D \o NoBlanks(Escaped(more))
      BY <2>0, <3>1, DisplayedText DEF D
    <3>3. NoBlanks(Escaped(more)) = E \o (<<Close>> \o <<Close>>)
      BY <1>5, <1>9, <1>10, <2>0, <2>3
    <3>4. S2 \o <<Close>> = ((D \o E) \o <<Close>>) \o <<Close>>
      BY <1>3, <1>5, <2>0, <2>3 DEF c
    <3>5. IsSequence(D) /\ IsSequence(E) /\ IsSequence(<<Close>>) /\ IsSequence(D \o E) /\ IsSequence(<<Close>> \o <<Close>>)
      BY <1>3, <1>5, <1>6, <1>8, <2>0, SequenceConcat
    <3>6. ((D \o E) \o <<Close>>) \o <<Close>> = (D \o E) \o (<<Close>> \o <<Close>>)
      BY <3>5, ConcatConcat, SMTT(30)
    <3>7. (D \o E) \o (<<Close>> \o <<Close>>) = D \o (E \o (<<Close>> \o <<Close>>))
      BY <3>5, ConcatConcat, SMTT(30)
    <3>8. Displayed(result.parts) = S2 \o <<Close>>
      BY <3>2, <3>3, <3>4, <3>6, <3>7
    <3>9. /\ result.state # "panic" /\ result.start = q + 2 /\ q + 1 <= Len(pattern) /\ pattern[q + 1] = Close
          /\ Displayed(result.parts) = Spelled(pattern, q) \o <<Close>>
      BY <2>3, <3>1, <3>8 DEF S2
    <3> QED
      BY <1>2, <3>1, <3>9 DEF Reads
  <2>4. CASE ch \notin {Open, Close} /\ result = s
    <3>1. NoBlanks(Escaped(SubSeq(pattern, s.start, q))) = E \o c
      BY <1>9, <1>10, <2>0, <2>4 DEF c
    <3>2. (D \o E) \o c = D \o (E \o c)
      <4>1. IsSequence(D) /\ IsSequence(E) /\ IsSequence(c)
        BY <1>3, <1>6, <1>8, <2>0
      <4> QED
        BY <4>1, ConcatConcat, SMTT(30)
    <3>3. S2 = D \o (E \o c)
      BY <1>3, <2>0, <3>2
    <3>4. result.start <= q + 1
      BY <1>0, <1>1, <2>0, <2>4
    <3>5. shown = D /\ escaped = E \o c
      BY <1>24, <2>4, <3>1 DEF D, shown
    <3> QED
      BY <1>15, <1>19, <2>4, <3>3, <3>4, <3>5
  <2> QED
    BY <1>13, <1>16, <1>19, <2>1, <2>2, <2>3, <2>4 DEF InText, ch
<1>20. CASE ~s.skip /\ s.state = "param"
  <2>0. S = (D \o <<Open>>) \o P /\ s.start <= q /\ s.state # "panic" /\ s.parts \in Seq(Part)
    BY <1>0, <1>1, <1>6, <1>20
  <2>1. CASE ch = Open /\ s.start = q /\ result = InLiteral(s, q)
    <3>1. result.state = "literal" /\ ~result.skip /\ result.start = q /\ result.parts = s.parts
      BY <1>0, <1>1, <1>20, <2>0, <2>1, ParserMoves
    <3>2. piece = <<>> /\ P = <<>> /\ E = <<>>
      BY <1>0, <2>1, NothingAfter DEF piece, P, E
    <3>3. NoBlanks(Escaped(SubSeq(pattern, q, q))) = <<Open>> \o <<Open>>
      <4>1. <<>> \o <<Open, Open>> = <<Open, Open>>
        OBVIOUS
      <4> QED
        BY <1>5, <1>9, <1>10, <2>0, <2>1, <3>2, <4>1
    <3>4. IsSequence(D) /\ IsSequence(<<Open>>) /\ IsSequence(D \o <<Open>>)
      BY <1>5, <1>6, <2>0, SequenceConcat
    <3>5. S = D \o <<Open>>
      BY <2>0, <3>2, <3>4, SequenceNone
    <3>6. S2 = (D \o <<Open>>) \o <<Open>>
      BY <1>3, <1>5, <2>1, <3>5 DEF c
    <3>7. S2 = D \o (<<Open>> \o <<Open>>)
      BY <3>4, <3>6, ConcatConcat, SMTT(30)
    <3>8. shown = D /\ escaped = <<Open>> \o <<Open>>
      BY <3>1, <3>3 DEF D, shown, escaped
    <3>9. result.start <= q + 1
      BY <1>0, <3>1
    <3> QED
      BY <1>15, <3>1, <3>7, <3>8, <3>9
  <2>2. CASE ch = Close /\ result = InLiteral(Pushed(s, Param(Trimmed(piece))), q + 1)
    <3> DEFINE part == Param(Trimmed(piece))
    <3>1. part \in Part
      BY <1>7, TrimmedText DEF Param, Part
    <3>2. /\ Pushed(s, part).parts = Append(s.parts, part) /\ Pushed(s, part).state = s.state
          /\ Pushed(s, part).skip = s.skip /\ Pushed(s, part) \in Parsing
      BY <1>1, <2>0, <3>1, ParserPushes
    <3>3. result.state = "literal" /\ ~result.skip /\ result.start = q + 1 /\ result.parts = Append(s.parts, part)
      BY <1>0, <1>20, <2>2, <3>2, ParserMoves
    <3>4. shown = S \o <<Close>>
      BY <1>7, <2>0, <3>3, DisplayedParam DEF D, P, shown
    <3>5. S2 = (S \o <<Close>>) \o <<>>
      <4>1. S2 = S \o <<Close>>
        BY <1>3, <1>5, <2>2 DEF c
      <4> QED
        BY <1>12, <4>1
    <3> QED
      BY <1>15, <1>23, <3>3, <3>4, <3>5
  <2>3. CASE ch \notin {Open, Close} /\ result = s
    <3>1. NoBlanks(SubSeq(pattern, s.start, q)) = P \o c
      BY <1>9, <2>0
    <3>2. ((D \o <<Open>>) \o P) \o c = (D \o <<Open>>) \o (P \o c)
      <4>1. IsSequence(D \o <<Open>>) /\ IsSequence(P) /\ IsSequence(c)
        BY <1>3, <1>5, <1>6, <1>8, <2>0, SequenceConcat
      <4> QED
        BY <4>1, ConcatConcat, SMTT(30)
    <3>3. S2 = (D \o <<Open>>) \o (P \o c)
      BY <1>3, <2>0, <3>2
    <3>4. result.start <= q + 1
      BY <1>0, <1>1, <2>0, <2>3
    <3>5. shown = D /\ tail = P \o c
      BY <1>24, <2>3, <3>1 DEF D, shown
    <3> QED
      BY <1>14, <1>20, <2>3, <3>3, <3>4, <3>5
  <2> QED
    BY <1>13, <1>16, <1>20, <2>1, <2>2, <2>3 DEF InName, ch
<1>21. CASE s.state \in {"literal", "param"}
  <2>1. s.state # "panic" /\ (s.skip \/ ~s.skip) /\ (s.state = "literal" \/ s.state = "param")
    BY <1>21
  <2> QED
    BY <2>1, <1>18, <1>19, <1>20
<1> QED
  BY <1>1, <1>17, <1>21

LEMMA ReadsNothing ==
  ASSUME NEW pattern \in Seq(Char), NEW s,
         s = [state |-> "literal", start |-> 1, parts |-> <<>>, skip |-> FALSE]
  PROVE  Reads(pattern, 0, s)
<1>1. s.state = "literal" /\ s.start = 1 /\ s.parts = <<>> /\ s.skip = FALSE
  OBVIOUS
<1>2. s \in Parsing
  <2>1. <<>> \in Seq(Part)
    OBVIOUS
  <2>2. s \in [state : {"literal", "param", "panic"}, start : Nat \ {0}, parts : Seq(Part) \cup Why, skip : BOOLEAN]
    BY <2>1
  <2> QED
    BY <1>1, <2>1, <2>2 DEF Parsing
<1>3. SubSeq(pattern, 1, 0) = <<>> /\ NoBlanks(SubSeq(pattern, 1, 0)) = <<>> /\ NoBlanks(Escaped(SubSeq(pattern, 1, 0))) = <<>>
  BY NothingAfter
<1>4. Displayed(<<>>) = <<>>
  <2>1. Shown(<<>>) = <<>>
    BY DEF Shown
  <2>2. <<>> \in Seq(Part)
    OBVIOUS
  <2>3. Display(<<>>) = FlattenSeq(Shown(<<>>))
    BY <2>2, ShownAre
  <2> QED
    BY <2>1, <2>3, FlattenNothing, BlanksNothing DEF Displayed
<1>5. <<>> \o <<>> = <<>>
  BY SequenceNone
<1>6. Spelled(pattern, 0) = Displayed(s.parts) \o NoBlanks(Escaped(SubSeq(pattern, s.start, 0)))
  BY <1>1, <1>3, <1>4, <1>5 DEF Spelled
<1> QED
  BY <1>1, <1>2, <1>6 DEF Reads

LEMMA ReadsToTheEnd ==
  ASSUME NEW pattern \in Seq(Char), NEW k, k = Len(pattern), NEW q, q = k + 1, NEW s, Reads(pattern, k, s),
         ParseChar(pattern, q, s).state # "panic"
  PROVE  Displayed(ParseChar(pattern, q, s).parts) = NoBlanks(pattern)
<1> DEFINE result == ParseChar(pattern, q, s)
           piece == SubSeq(pattern, s.start, k)
           E == NoBlanks(Escaped(piece))
           D == Displayed(s.parts)
<1>0. k \in Nat /\ IsSequence(pattern) /\ q - 1 = k /\ q \in Nat \ {0}
  BY DEF IsSequence
<1>1. s \in Parsing /\ s.state \in {"literal", "param", "panic"} /\ s.start \in Nat \ {0}
  BY DEF Reads, Parsing
<1>2. s.state # "panic" /\ ~s.skip
  <2>1. s.skip => s.state = "panic"
    BY <1>0 DEF Reads
  <2>2. s.state = "panic" => result.state = "panic"
    <3>1. ~s.skip /\ s.state = "panic" => result = s
      BY DEF ParseChar
    <3>2. s.skip => result = [s EXCEPT !.skip = FALSE]
      BY DEF ParseChar
    <3>3. [s EXCEPT !.skip = FALSE].state = s.state
      BY <1>1 DEF Parsing
    <3> HIDE DEF result
    <3> QED
      BY <3>1, <3>2, <3>3
  <2> QED
    BY <2>1, <2>2
<1>3. s.parts \in Seq(Part) /\ IsSequence(D)
  BY <1>1, <1>2, DisplayedIs DEF Parsing
<1>4. piece \in Seq(Char)
  BY <1>0, <1>1, SubText
<1>5. Spelled(pattern, k) = NoBlanks(pattern)
  BY <1>0, Beginnings DEF Spelled
<1>6. s.state = "literal" => NoBlanks(pattern) = D \o E
  BY <1>2, <1>5 DEF Reads
<1>7. \/ s.state = "literal" /\ piece # <<>> /\ result = InParam(Pushed(s, Text(piece)), q + 1)
      \/ s.state = "literal" /\ piece = <<>> /\ result = InParam(s, q + 1)
      \/ result.state = "panic"
  <2> DEFINE text == SubSeq(pattern, s.start, q - 1)
  <2>1. text = piece
    BY <1>0
  <2>2. \/ s.state = "literal" /\ text # <<>> /\ result = InParam(Pushed(s, Text(text)), q + 1)
        \/ s.state = "literal" /\ text = <<>> /\ result = InParam(s, q + 1)
        \/ result.state = "panic"
    BY <1>1, <1>2, ParseEnds
  <2> HIDE DEF text, piece
  <2> QED
    BY <2>1, <2>2
<1>8. q + 1 \in Nat \ {0}
  BY <1>0
<1> HIDE DEF piece, D, E
<1>9. CASE s.state = "literal" /\ result = InParam(Pushed(s, Text(piece)), q + 1)
  <2>1. Text(piece) \in Part
    BY <1>4 DEF Text, Part
  <2>2. /\ Pushed(s, Text(piece)).parts = Append(s.parts, Text(piece))
        /\ Pushed(s, Text(piece)).state = s.state /\ Pushed(s, Text(piece)) \in Parsing
    BY <1>1, <1>2, <2>1, ParserPushes
  <2> HIDE DEF result
  <2>3. result.parts = Append(s.parts, Text(piece))
    BY <1>2, <1>8, <1>9, <2>2, ParserMoves
  <2>4. Displayed(result.parts) = D \o E
    BY <1>3, <1>4, <2>3, DisplayedText DEF D, E
  <2> QED
    BY <1>6, <1>9, <2>4 DEF result
<1>10. CASE s.state = "literal" /\ piece = <<>> /\ result = InParam(s, q + 1)
  <2> HIDE DEF result
  <2>1. result.parts = s.parts
    BY <1>1, <1>2, <1>8, <1>10, ParserMoves
  <2>2. E = <<>>
    BY <1>10, EscapedNothing, BlanksNothing DEF E
  <2>3. D \o E = D
    BY <1>3, <2>2, SequenceNone
  <2> QED
    BY <1>6, <1>10, <2>1, <2>3 DEF D, result
<1> QED
  BY <1>7, <1>9, <1>10

(* The parts of a pattern, shown, are the pattern: of what is written        *)
(* nothing is lost, doubled or moved, but for blanks.                       *)
LEMMA PartsReadBack ==
  ASSUME NEW pattern \in Seq(Char), ~Panics(pattern)
  PROVE  NoBlanks(Display(Parts(pattern))) = NoBlanks(pattern)
<1> DEFINE n == Len(pattern)
           m == n + 1
<1>0. n \in Nat /\ m \in Nat /\ Len(pattern) + 1 = m /\ 0 \in 0..m /\ m \in 0..m /\ m # 0 /\ m - 1 = n
  OBVIOUS
<1> HIDE DEF n, m
<1>1. PICK after : /\ \A k \in 0..m : after[k] = Parsed(pattern, after, k)
                   /\ Parse(pattern) = after[m]
  BY <1>0, ParseSteps
<1> DEFINE S == {k \in Nat : k <= n => Reads(pattern, k, after[k])}
<1>2. 0 \in S
  <2>1. after[0] = [state |-> "literal", start |-> 1, parts |-> <<>>, skip |-> FALSE]
    BY <1>0, <1>1 DEF Parsed
  <2> QED
    BY <2>1, ReadsNothing
<1>3. ASSUME NEW k \in Nat, k \in S PROVE k + 1 \in S
  <2> SUFFICES ASSUME NEW q \in 1..n, q = k + 1 PROVE Reads(pattern, q, after[q])
    BY <1>0
  <2>1. q \in 0..m /\ q # 0 /\ q - 1 = k /\ k <= n
    BY <1>0 DEF m
  <2>2. after[q] = ParseChar(pattern, q, after[k])
    <3>1. after[q] = Parsed(pattern, after, q)
      BY <1>1, <2>1
    <3> QED
      BY <2>1, <3>1 DEF Parsed
  <2>3. Reads(pattern, k, after[k])
    BY <1>3, <2>1
  <2> QED
    BY <2>2, <2>3, ReadsCharacter DEF n
<1> HIDE DEF S
<1>4. n \in S
  BY <1>0, <1>2, <1>3, UpTo
<1>5. Reads(pattern, n, after[n])
  BY <1>0, <1>4 DEF S
<1>6. after[m] = ParseChar(pattern, m, after[n])
  <2>1. after[m] = Parsed(pattern, after, m)
    BY <1>0, <1>1
  <2> QED
    BY <1>0, <2>1 DEF Parsed
<1>7. after[m].state # "panic"
  BY <1>1 DEF Panics
<1>8. Displayed(after[m].parts) = NoBlanks(pattern)
  <2>1. m = n + 1
    BY DEF m
  <2> QED
    BY <1>5, <1>6, <1>7, <2>1, ReadsToTheEnd DEF n
<1> QED
  BY <1>1, <1>8 DEF Displayed, Parts

(* After Register the tables never change.                                  *)
LEMMA TablesNeverChange ==
  ASSUME [Next]_vars, ~Register
  PROVE  /\ table' = table /\ matchers' = matchers
         /\ pc' \in {"start", "panicked"} => pc' = pc
<1>1. ASSUME NEW nothing, nothing \notin {"start", "panicked"}, Return(nothing)
      PROVE  table' = table /\ matchers' = matchers /\ (pc' \in {"start", "panicked"} => pc' = pc)
  BY <1>1 DEF Return
<1>2. CASE HandleReturn \/ ReverseReturn
  BY <1>1, <1>2 DEF HandleReturn, ReverseReturn
<1>3. CASE HandleRoute
  BY <1>3 DEF HandleRoute
<1>4. CASE ReverseNamed \/ ReverseRoute
  <2>1. CASE ReverseNamed
    <3> DEFINE c == [Chain EXCEPT ![depth] = Max(Named)]
    <3> HIDE DEF c
    <3>1. table' = table /\ matchers' = matchers /\ (pc' = "missing" \/ pc' = "url")
      BY <2>1 DEF ReverseNamed
    <3> QED
      BY <3>1
  <2>2. CASE ReverseRoute
    BY <2>2 DEF ReverseRoute
  <2> QED
    BY <1>4, <2>1, <2>2
<1>5. CASE \E name \in Name, args \in Args : ReverseOption(name, args)
  BY <1>5 DEF ReverseOption
<1>6. CASE \E p \in Paths \cup {path} : Handle(p)
  BY <1>6 DEF Handle
<1>7. CASE UNCHANGED vars
  BY <1>7 DEF vars
<1> QED
  BY <1>2, <1>3, <1>4, <1>5, <1>6, <1>7 DEF Next, Start, Iterate

(* A pattern that was accepted is shown as it was written (PathMatcher::new *)
(* and its Display), for any patterns of any tables.                        *)
THEOREM RouterShowsWhatWasWritten == Spec => []PatternsReadBack
<1> DEFINE Inv == table \in Tables /\ PatternsReadBack
<1>1. Init => Inv
  BY DEF Init, PatternsReadBack
<1>2. Inv /\ [Next]_vars => Inv'
  <2> SUFFICES ASSUME Inv, [Next]_vars PROVE Inv'
    OBVIOUS
  <2>1. CASE Register
    <3>1. table' = table /\ table \in Tables
      BY <2>1 DEF Register
    <3>2. ASSUME pc' \notin {"start", "panicked"}, NEW r \in DOMAIN table, NEW i \in DOMAIN table[r]
          PROVE  NoBlanks(Display(matchers'[r][i])) = NoBlanks(table[r][i].url)
      <4>1. ~Panics(table[r][i].url) /\ matchers'[r][i] = Parts(table[r][i].url)
        BY <2>1, <3>2 DEF Register
      <4>2. table[r][i].url \in Seq(Char)
        BY <3>1, TableIs
      <4> QED
        BY <4>1, <4>2, PartsReadBack
    <3> QED
      BY <3>1, <3>2 DEF PatternsReadBack
  <2>2. CASE ~Register
    <3>1. /\ table' = table /\ matchers' = matchers
          /\ pc' \in {"start", "panicked"} => pc' = pc
          /\ pc \in {"start", "panicked"} => pc' \in {"start", "panicked"}
      <4>1. pc \in {"start", "panicked"} => UNCHANGED vars
        BY <2>2 DEF Next, Start, Iterate, ReverseOption, Handle, ReverseNamed, ReverseRoute, ReverseReturn,
                    HandleRoute, HandleReturn
      <4> QED
        BY <2>2, <4>1, TablesNeverChange DEF vars
    <3> QED
      BY <3>1 DEF PatternsReadBack
  <2> QED
    BY <2>1, <2>2
<1>3. Inv => PatternsReadBack
  OBVIOUS
<1> QED
  BY <1>1, <1>2, <1>3, PTL DEF Spec

-----------------------------------------------------------------------------
(* The parameters of a path: a name and a piece for each part that is one.  *)
PairOf(part, piece) == IF IsParam(part) THEN <<<<part.name, piece>>>> ELSE <<>>
Pairings(parts, k, p, cut) == [j \in 1..k |-> PairOf(parts[j], Piece(p, cut, j))]
PairsTo(parts, k, p, cut) == FlattenSeq(Pairings(parts, k, p, cut))

(* Parts that take the path from one place to another, and what they give.  *)
GivesTo(parts, k, p, n, m, pairs) ==
  \E cut : CutsBetween(parts, k, p, n, m, cut) /\ pairs = PairsTo(parts, k, p, cut)
Gives(parts, p, n, m, pairs) == GivesTo(parts, Len(parts), p, n, m, pairs)

LEMMA PairIs == \A part, piece : IsSequence(PairOf(part, piece))
BY SequenceNone, SequenceOne DEF PairOf

LEMMA PairingsAre ==
  ASSUME NEW parts, NEW k \in Nat, NEW p, NEW cut
  PROVE  /\ AreSequences(Pairings(parts, k, p, cut)) /\ Len(Pairings(parts, k, p, cut)) = k
         /\ \A j \in 1..k : Pairings(parts, k, p, cut)[j] = PairOf(parts[j], Piece(p, cut, j))
         /\ IsSequence(PairsTo(parts, k, p, cut))
<1> DEFINE b == Pairings(parts, k, p, cut)
<1>1. b = [j \in 1..k |-> b[j]] /\ \A j \in 1..k : b[j] = PairOf(parts[j], Piece(p, cut, j))
  BY DEF Pairings
<1> HIDE DEF b
<1>2. IsSequence(b) /\ Len(b) = k
  BY <1>1, SequenceWith
<1>3. AreSequences(b)
  BY <1>1, <1>2, PairIs DEF AreSequences
<1>4. IsSequence(FlattenSeq(b))
  BY <1>3, FlattenAppended, SequenceNone
<1> QED
  BY <1>1, <1>2, <1>3, <1>4 DEF b, PairsTo

LEMMA PairsAgree ==
  ASSUME NEW A, NEW B, NEW k \in Nat, \A j \in 1..k : A[j] = B[j], NEW p, NEW cut, NEW tuc,
         \A j \in 0..k : cut[j] = tuc[j]
  PROVE  PairsTo(A, k, p, cut) = PairsTo(B, k, p, tuc)
<1>1. ASSUME NEW j \in 1..k PROVE PairOf(A[j], Piece(p, cut, j)) = PairOf(B[j], Piece(p, tuc, j))
  <2>1. j - 1 \in 0..k /\ j \in 0..k
    OBVIOUS
  <2>2. Piece(p, cut, j) = Piece(p, tuc, j)
    BY <2>1 DEF Piece
  <2> QED
    BY <2>2
<1>2. Pairings(A, k, p, cut) = Pairings(B, k, p, tuc)
  BY <1>1 DEF Pairings
<1> QED
  BY <1>2 DEF PairsTo

LEMMA PairsKept ==
  ASSUME NEW parts, NEW k \in Nat, NEW p, NEW cut, NEW tuc, \A j \in 0..k : cut[j] = tuc[j]
  PROVE  PairsTo(parts, k, p, cut) = PairsTo(parts, k, p, tuc)
<1>1. ASSUME NEW j \in 1..k PROVE PairOf(parts[j], Piece(p, cut, j)) = PairOf(parts[j], Piece(p, tuc, j))
  <2>1. j - 1 \in 0..k /\ j \in 0..k
    OBVIOUS
  <2> QED
    BY <2>1 DEF Piece
<1>2. Pairings(parts, k, p, cut) = Pairings(parts, k, p, tuc)
  BY <1>1 DEF Pairings
<1> QED
  BY <1>2 DEF PairsTo

LEMMA PairsNone == \A parts, p, cut : PairsTo(parts, 0, p, cut) = <<>>
<1> TAKE parts, p, cut
<1>1. 1..0 = {}
  OBVIOUS
<1>2. Pairings(parts, 0, p, cut) = <<>>
  BY <1>1 DEF Pairings
<1> QED
  BY <1>2, FlattenNothing DEF PairsTo

LEMMA PairsOneMore ==
  ASSUME NEW parts, NEW k \in Nat, NEW q, q = k + 1, NEW p, NEW cut
  PROVE  /\ PairsTo(parts, q, p, cut) = PairsTo(parts, k, p, cut) \o PairOf(parts[q], Piece(p, cut, q))
         /\ IsSequence(PairsTo(parts, k, p, cut)) /\ IsSequence(PairOf(parts[q], Piece(p, cut, q)))
<1> DEFINE a == Pairings(parts, k, p, cut)
           b == Pairings(parts, q, p, cut)
           pair == PairOf(parts[q], Piece(p, cut, q))
           c == Append(a, pair)
<1>0. k \in Nat /\ q \in Nat /\ q \in 1..q /\ \A j \in 1..q : j = q \/ j \in 1..k
  OBVIOUS
<1>1. AreSequences(a) /\ Len(a) = k /\ \A j \in 1..k : a[j] = PairOf(parts[j], Piece(p, cut, j))
  BY <1>0, PairingsAre
<1>2. AreSequences(b) /\ Len(b) = q /\ \A j \in 1..q : b[j] = PairOf(parts[j], Piece(p, cut, j))
  BY <1>0, PairingsAre
<1>3. IsSequence(pair)
  BY PairIs
<1> HIDE DEF a, b
<1>4. IsSequence(c) /\ Len(c) = q /\ c[q] = pair /\ \A j \in 1..k : c[j] = a[j]
  BY <1>1, SequenceAppended DEF AreSequences
<1>5. \A j \in 1..q : b[j] = c[j]
  BY <1>0, <1>1, <1>2, <1>4
<1>6. FlattenSeq(c) = FlattenSeq(a) \o pair /\ IsSequence(FlattenSeq(a))
  BY <1>1, <1>3, FlattenAppended
<1> HIDE DEF c, pair
<1>7. b = c
  BY <1>2, <1>4, <1>5, SequenceSame DEF AreSequences
<1> QED
  BY <1>3, <1>6, <1>7 DEF PairsTo, a, b, pair

LEMMA GivesNone ==
  ASSUME NEW parts, NEW p \in Seq(Char), NEW n \in 0..Len(p)
  PROVE  GivesTo(parts, 0, p, n, n, <<>>)
<1>1. PICK cut : CutsBetween(parts, 0, p, n, n, cut)
  <2>1. PassesTo(parts, 0, p, n, n)
    BY PassesNone
  <2> QED
    BY <2>1 DEF PassesTo
<1> QED
  BY <1>1, PairsNone DEF GivesTo

LEMMA GivesMore ==
  ASSUME NEW parts, NEW k \in Nat, NEW q, q = k + 1, NEW p \in Seq(Char), NEW n \in 0..Len(p), NEW m \in 0..Len(p),
         NEW l \in 0..Len(p), NEW x, GivesTo(parts, k, p, n, l, x), Takes(parts[q], p, l, m)
  PROVE  GivesTo(parts, q, p, n, m, x \o PairOf(parts[q], SubSeq(p, l + 1, m)))
<1>1. PICK cut : CutsBetween(parts, k, p, n, l, cut) /\ x = PairsTo(parts, k, p, cut)
  BY DEF GivesTo
<1> DEFINE more == [j \in 0..q |-> IF j = q THEN m ELSE cut[j]]
<1>2. (\A j \in 0..q : j # q => j \in 0..k) /\ q \in 0..q /\ q - 1 = k /\ k \in 0..q /\ k # q /\ \A j \in 0..k : j # q /\ j \in 0..q
  OBVIOUS
<1>3. more \in [0..q -> 0..Len(p)]
  BY <1>1, <1>2 DEF CutsBetween
<1>4. more[0] = n /\ more[q] = m /\ more[k] = l
  BY <1>1, <1>2 DEF CutsBetween
<1>5. \A j \in 0..k : more[j] = cut[j]
  BY <1>2
<1> HIDE DEF more
<1>6. ASSUME NEW j \in 1..q PROVE Takes(parts[j], p, more[j - 1], more[j])
  <2>1. CASE j = q
    BY <1>2, <1>4, <2>1
  <2>2. CASE j # q
    <3>1. j \in 1..k /\ j \in 0..k /\ j - 1 \in 0..k
      BY <1>2, <2>2
    <3> QED
      BY <1>1, <1>5, <3>1 DEF CutsBetween
  <2> QED
    BY <2>1, <2>2
<1>7. CutsBetween(parts, q, p, n, m, more)
  BY <1>3, <1>4, <1>6 DEF CutsBetween
<1>8. PairsTo(parts, q, p, more) = PairsTo(parts, k, p, more) \o PairOf(parts[q], Piece(p, more, q))
  BY PairsOneMore, SMTT(30)
<1>9. PairsTo(parts, k, p, more) = x
  BY <1>1, <1>5, PairsKept
<1>10. Piece(p, more, q) = SubSeq(p, l + 1, m)
  BY <1>2, <1>4 DEF Piece
<1> QED
  BY <1>7, <1>8, <1>9, <1>10 DEF GivesTo

GaveBefore(parts, k, q, p, n, m, pairs) ==
  \E l, x :
    /\ l \in 0..Len(p)
    /\ GivesTo(parts, k, p, n, l, x) /\ Takes(parts[q], p, l, m)
    /\ pairs = x \o PairOf(parts[q], SubSeq(p, l + 1, m))

LEMMA GivesLess ==
  ASSUME NEW parts, NEW k \in Nat, NEW q, q = k + 1, NEW p \in Seq(Char), NEW n \in 0..Len(p), NEW m \in 0..Len(p),
         NEW pairs, GivesTo(parts, q, p, n, m, pairs)
  PROVE  GaveBefore(parts, k, q, p, n, m, pairs)
<1>1. PICK cut : CutsBetween(parts, q, p, n, m, cut) /\ pairs = PairsTo(parts, q, p, cut)
  BY DEF GivesTo
<1> DEFINE before == [j \in 0..k |-> cut[j]]
           x == PairsTo(parts, k, p, before)
<1>2. /\ k \in Nat /\ k \in 0..q /\ q \in 1..q /\ q - 1 = k /\ q \in 0..q
      /\ \A j \in 0..k : j \in 0..q
      /\ \A j \in 1..k : j \in 1..q /\ j \in 0..k /\ j - 1 \in 0..k
      /\ k \in 0..k /\ 0 \in 0..k
  OBVIOUS
<1>3. cut[k] \in 0..Len(p) /\ Takes(parts[q], p, cut[k], m) /\ cut[q] = m
  BY <1>1, <1>2 DEF CutsBetween
<1>4. before \in [0..k -> 0..Len(p)]
  BY <1>1, <1>2 DEF CutsBetween
<1>5. before[0] = n /\ before[k] = cut[k] /\ \A j \in 0..k : before[j] = cut[j]
  BY <1>1, <1>2 DEF CutsBetween
<1> HIDE DEF before
<1>6. \A j \in 1..k : Takes(parts[j], p, before[j - 1], before[j])
  BY <1>1, <1>2, <1>5 DEF CutsBetween
<1>7. CutsBetween(parts, k, p, n, cut[k], before)
  BY <1>4, <1>5, <1>6 DEF CutsBetween
<1>8. PairsTo(parts, q, p, cut) = PairsTo(parts, k, p, cut) \o PairOf(parts[q], Piece(p, cut, q))
  BY PairsOneMore
<1>9. PairsTo(parts, k, p, cut) = x
  <2>0. k \in Nat
    OBVIOUS
  <2>1. \A j \in 0..k : cut[j] = before[j]
    BY <1>5
  <2> QED
    BY <2>0, <2>1, PairsKept
<1>10. Piece(p, cut, q) = SubSeq(p, cut[k] + 1, m)
  BY <1>2, <1>3 DEF Piece
<1>11. GivesTo(parts, k, p, n, cut[k], x)
  BY <1>7 DEF GivesTo
<1> HIDE DEF x
<1> QED
  BY <1>1, <1>3, <1>8, <1>9, <1>10, <1>11 DEF GaveBefore

(* What capture gives for a part, and for all of them.                      *)
Gained(c, part, p, n, m, d) ==
  /\ Takes(part, p, n, m) /\ IsSequence(d.params)
  /\ d.params = c.params \o PairOf(part, SubSeq(p, n + 1, m))

LEMMA TakeGives ==
  ASSUME NEW p \in Seq(Char), NEW n \in 0..Len(p), NEW m \in 0..Len(p), NEW part \in Part,
         NEW c, IsCapture(c), At(c, p, n), IsSequence(c.params), At(TakePart(c, part), p, m)
  PROVE  Gained(c, part, p, n, m, TakePart(c, part))
<1> DEFINE r == Dropped(p, n)
           taken == IF IsParam(part) THEN Segment(r) ELSE part.literal
           more == IF IsParam(part) THEN Append(c.params, <<part.name, taken>>) ELSE c.params
           goes == IsPrefix(taken, r) /\ (IsParam(part) => taken # <<>>)
           next == [matched |-> TRUE, rest |-> Dropped(r, Len(taken)), params |-> more]
           d == TakePart(c, part)
<1>0. c.rest = r /\ c.matched /\ d.matched
  BY DEF At
<1>1. d = IF goes THEN next ELSE [c EXCEPT !.matched = FALSE]
  BY <1>0 DEF TakePart
<1>2. ~[c EXCEPT !.matched = FALSE].matched
  BY UnmatchedIs
<1>3. next.params = more
  OBVIOUS
<1> HIDE DEF next
<1>4. d.params = more
  BY <1>0, <1>1, <1>2, <1>3
<1>5. Takes(part, p, n, m)
  BY TakeIs
<1>6. CASE IsParam(part)
  <2> DEFINE length == Len(Segment(r))
  <2>1. m = n + length
    BY <1>5, <1>6, SegmentTakes
  <2>2. r \in Seq(Char) /\ Len(r) = Len(p) - n
    BY DroppedText
  <2>3. Segment(r) = SubSeq(r, 1, length) /\ length \in 0..Len(r)
    BY <2>2, SegmentIs
  <2> HIDE DEF length
  <2>4. SubSeq(r, 1, length) = SubSeq(p, n + 1, n + length)
    BY <2>2, <2>3, SubTextIs
  <2>5. taken = SubSeq(p, n + 1, m)
    BY <1>6, <2>1, <2>3, <2>4
  <2> HIDE DEF taken, d
  <2> DEFINE pair == <<part.name, taken>>
  <2> HIDE DEF pair
  <2>6. Append(c.params, pair) = c.params \o <<pair>> /\ IsSequence(Append(c.params, pair))
    BY ConcatAppended, SequenceAppended
  <2>7. PairOf(part, SubSeq(p, n + 1, m)) = <<pair>>
    BY <1>6, <2>5 DEF PairOf, pair
  <2> QED
    BY <1>4, <1>5, <1>6, <2>6, <2>7 DEF d, pair, Gained
<1>7. CASE ~IsParam(part)
  <2>1. PairOf(part, SubSeq(p, n + 1, m)) = <<>>
    BY <1>7 DEF PairOf
  <2>2. c.params \o <<>> = c.params
    BY SequenceNone
  <2> HIDE DEF d
  <2> QED
    BY <1>4, <1>5, <1>7, <2>1, <2>2 DEF d, Gained
<1> QED
  BY <1>6, <1>7

LEMMA CaptureGives ==
  ASSUME NEW parts \in Seq(Part), NEW p \in Seq(Char), NEW n \in 0..Len(p), NEW m \in 0..Len(p),
         At(Capture(parts, Dropped(p, n)), p, m)
  PROVE  /\ Gives(parts, p, n, m, Capture(parts, Dropped(p, n)).params)
         /\ IsSequence(Capture(parts, Dropped(p, n)).params)
<1> DEFINE r == Dropped(p, n)
           L == Len(parts)
<1>0. L \in Nat /\ DOMAIN parts = 1..L /\ \A k \in 1..L : parts[k] \in Part
  OBVIOUS
<1> HIDE DEF L, r
<1>1. PICK c : /\ c[0] = Untaken(r)
               /\ \A k \in 1..L : c[k] = TakePart(c[k - 1], parts[k])
               /\ Capture(parts, r) = c[L]
  BY <1>0, CaptureSteps
<1> DEFINE Gave(d, k) == /\ IsCapture(d) /\ IsSequence(d.params)
                         /\ d.matched => \E l \in 0..Len(p) : At(d, p, l)
                         /\ \A l \in 0..Len(p) : At(d, p, l) => GivesTo(parts, k, p, n, l, d.params)
           S == {k \in Nat : k <= L => Gave(c[k], k)}
<1>2. 0 \in S
  <2> DEFINE d == c[0]
  <2>1. d = [matched |-> TRUE, rest |-> r, params |-> <<>>]
    BY <1>1 DEF Untaken
  <2>2. IsCapture(d) /\ d.matched /\ d.rest = r /\ d.params = <<>>
    BY <2>1 DEF IsCapture
  <2> HIDE DEF d
  <2>3. At(d, p, n)
    BY <2>2 DEF At, r
  <2>4. \A l \in 0..Len(p) : At(d, p, l) => l = n
    BY <2>3, DroppedWhere DEF At
  <2>5. GivesTo(parts, 0, p, n, n, d.params)
    BY <2>2, GivesNone
  <2>6. Gave(d, 0)
    BY <2>2, <2>3, <2>4, <2>5, SequenceNone
  <2> HIDE DEF Gave
  <2> QED
    BY <2>6 DEF d
<1>3. ASSUME NEW k \in Nat, k \in S PROVE k + 1 \in S
  <2> DEFINE q == k + 1
  <2> SUFFICES ASSUME q <= L PROVE Gave(c[q], q)
    OBVIOUS
  <2>1. q \in 1..L /\ q - 1 = k /\ k <= L /\ q = k + 1
    BY <1>0
  <2>2. Gave(c[k], k)
    BY <1>3, <2>1
  <2> HIDE DEF q
  <2>3. c[q] = TakePart(c[k], parts[q]) /\ parts[q] \in Part
    BY <1>0, <1>1, <2>1
  <2> DEFINE d == c[k]
             e == TakePart(d, parts[q])
  <2>4. /\ IsCapture(d) /\ IsSequence(d.params)
        /\ d.matched => \E l \in 0..Len(p) : At(d, p, l)
        /\ \A l \in 0..Len(p) : At(d, p, l) => GivesTo(parts, k, p, n, l, d.params)
    BY <2>2
  <2> HIDE DEF d, Gave
  <2>5. CASE d.matched
    <3>1. PICK l \in 0..Len(p) : At(d, p, l) /\ GivesTo(parts, k, p, n, l, d.params)
      BY <2>4, <2>5
    <3>2. IsCapture(e) /\ (e.matched => \E i \in 0..Len(p) : At(e, p, i))
      BY <2>3, <2>4, <3>1, TakeIs
    <3>3. ASSUME NEW i \in 0..Len(p), At(e, p, i) PROVE GivesTo(parts, q, p, n, i, e.params) /\ IsSequence(e.params)
      <4>0. /\ p \in Seq(Char) /\ l \in 0..Len(p) /\ i \in 0..Len(p)
            /\ parts[q] \in Part /\ IsCapture(d) /\ IsSequence(d.params) /\ At(d, p, l) /\ At(TakePart(d, parts[q]), p, i)
        BY <2>3, <2>4, <3>1, <3>3
      <4>1. Gained(d, parts[q], p, l, i, TakePart(d, parts[q]))
        BY <4>0, TakeGives
      <4>2. GivesTo(parts, q, p, n, i, d.params \o PairOf(parts[q], SubSeq(p, l + 1, i)))
        BY <2>1, <3>1, <4>1, GivesMore DEF Gained
      <4> QED
        BY <4>1, <4>2 DEF Gained
    <3>4. ~e.matched => e.params = d.params
      <4> SUFFICES ASSUME ~e.matched PROVE e.params = d.params
        OBVIOUS
      <4>1. TakePart(d, parts[q]) = [d EXCEPT !.matched = FALSE]
        <5>1. ~TakePart(d, parts[q]).matched
          OBVIOUS
        <5> QED
          BY <5>1 DEF TakePart
      <4>2. [d EXCEPT !.matched = FALSE].params = d.params
        BY <2>4 DEF IsCapture
      <4> QED
        BY <4>1, <4>2
    <3> HIDE DEF e
    <3>5. Gave(e, q)
      BY <2>4, <3>2, <3>3, <3>4 DEF Gave, At
    <3> QED
      BY <2>3, <3>5 DEF d, e
  <2>6. CASE ~d.matched
    <3>1. IsCapture(e) /\ ~e.matched
      BY <2>4, <2>6, TakeNothing
    <3>2. e = [d EXCEPT !.matched = FALSE]
      BY <2>6 DEF TakePart
    <3>3. e.params = d.params
      BY <2>4, <3>2 DEF IsCapture
    <3> HIDE DEF e
    <3>4. Gave(e, q)
      BY <2>4, <3>1, <3>3 DEF Gave, At
    <3> QED
      BY <2>3, <3>4 DEF d, e
  <2> QED
    BY <2>5, <2>6
<1> HIDE DEF S, Gave
<1>4. L \in S
  BY <1>0, <1>2, <1>3, UpTo
<1>5. Gave(c[L], L)
  BY <1>0, <1>4 DEF S
<1>6. IsSequence(c[L].params) /\ (At(c[L], p, m) => GivesTo(parts, L, p, n, m, c[L].params))
  BY <1>5 DEF Gave
<1> QED
  BY <1>1, <1>6 DEF Gives, L, r

LEMMA GivesSequence ==
  ASSUME NEW parts, NEW k \in Nat, NEW p, NEW n, NEW m, NEW pairs, GivesTo(parts, k, p, n, m, pairs)
  PROVE  IsSequence(pairs)
<1>1. PICK cut : pairs = PairsTo(parts, k, p, cut)
  BY DEF GivesTo
<1> QED
  BY <1>1, PairingsAre

LEMMA GivesAgree ==
  ASSUME NEW A, NEW B, NEW k \in Nat, \A j \in 1..k : A[j] = B[j], NEW p, NEW n, NEW m, NEW pairs,
         GivesTo(A, k, p, n, m, pairs)
  PROVE  GivesTo(B, k, p, n, m, pairs)
<1>1. PICK cut : CutsBetween(A, k, p, n, m, cut) /\ pairs = PairsTo(A, k, p, cut)
  BY DEF GivesTo
<1>2. \A j \in 0..k : cut[j] = cut[j]
  OBVIOUS
<1>3. PairsTo(A, k, p, cut) = PairsTo(B, k, p, cut)
  BY PairsAgree
<1>4. CutsBetween(B, k, p, n, m, cut)
  BY <1>1 DEF CutsBetween
<1> QED
  BY <1>1, <1>3, <1>4 DEF GivesTo

LEMMA GivesConcat ==
  ASSUME NEW A \in Seq(Part), NEW B \in Seq(Part), NEW p \in Seq(Char), NEW n \in 0..Len(p), NEW l \in 0..Len(p),
         NEW m \in 0..Len(p), NEW x, Gives(A, p, n, l, x), NEW y, Gives(B, p, l, m, y)
  PROVE  Gives(A \o B, p, n, m, x \o y)
<1> DEFINE C == A \o B
           a == Len(A)
           b == Len(B)
<1>1. /\ a \in Nat /\ b \in Nat /\ Len(C) = a + b
      /\ \A j \in 1..a : C[j] = A[j]
      /\ \A j \in 1..b : C[a + j] = B[j]
  BY Concat
<1>2. GivesTo(A, a, p, n, l, x) /\ GivesTo(B, b, p, l, m, y)
  BY DEF Gives
<1> HIDE DEF C, a, b
<1>3. IsSequence(x)
  BY <1>1, <1>2, GivesSequence
<1> DEFINE Good(k) == \A i \in 0..Len(p) : \A z : GivesTo(B, k, p, l, i, z) => GivesTo(C, a + k, p, n, i, x \o z)
           S == {k \in Nat : k <= b => Good(k)}
<1>4. 0 \in S
  <2>1. ASSUME NEW i \in 0..Len(p), NEW z, GivesTo(B, 0, p, l, i, z) PROVE GivesTo(C, a + 0, p, n, i, x \o z)
    <3>1. PICK cut : CutsBetween(B, 0, p, l, i, cut) /\ z = PairsTo(B, 0, p, cut)
      BY <2>1 DEF GivesTo
    <3>2. z = <<>>
      BY <3>1, PairsNone
    <3>3. i = l
      BY <3>1 DEF CutsBetween
    <3>4. x \o z = x
      BY <1>3, <3>2, SequenceNone
    <3>5. GivesTo(C, a, p, n, l, x)
      <4>1. a \in Nat /\ \A j \in 1..a : A[j] = C[j]
        BY <1>1
      <4> QED
        BY <1>2, <4>1, GivesAgree
    <3>6. a + 0 = a
      BY <1>1
    <3> QED
      BY <3>3, <3>4, <3>5, <3>6
  <2>2. Good(0)
    BY <2>1
  <2> QED
    BY <2>2
<1>5. ASSUME NEW k \in Nat, k \in S PROVE k + 1 \in S
  <2> DEFINE q == k + 1
             r == a + k
             t == a + q
  <2> SUFFICES ASSUME q <= b PROVE Good(q)
    OBVIOUS
  <2>1. k \in Nat /\ q = k + 1 /\ q \in 1..b /\ k <= b /\ r \in Nat /\ t = r + 1 /\ C[t] = B[q]
    BY <1>1
  <2>2. Good(k)
    BY <1>5, <2>1
  <2> HIDE DEF Good
  <2> HIDE DEF q, r, t, S
  <2>3. ASSUME NEW i \in 0..Len(p), NEW z, GivesTo(B, q, p, l, i, z) PROVE GivesTo(C, t, p, n, i, x \o z)
    <3>0. p \in Seq(Char) /\ l \in 0..Len(p) /\ i \in 0..Len(p)
      BY <2>3
    <3>1. PICK j, w :
            /\ j \in 0..Len(p)
            /\ GivesTo(B, k, p, l, j, w) /\ Takes(B[q], p, j, i)
            /\ z = w \o PairOf(B[q], SubSeq(p, j + 1, i))
      <4>1. GaveBefore(B, k, q, p, l, i, z)
        BY <2>1, <2>3, <3>0, GivesLess
      <4> QED
        BY <4>1 DEF GaveBefore
    <3>2. GivesTo(C, r, p, n, j, x \o w)
      BY <2>2, <3>1 DEF Good, r
    <3> DEFINE pair == PairOf(B[q], SubSeq(p, j + 1, i))
    <3>3. IsSequence(x) /\ IsSequence(w) /\ IsSequence(pair)
      BY <1>3, <3>1, GivesSequence, PairIs
    <3> HIDE DEF pair
    <3>4. (x \o w) \o pair = x \o (w \o pair)
      BY <3>3, ConcatConcat, SMTT(30)
    <3>5. j \in 0..Len(p) /\ Takes(C[t], p, j, i) /\ t = r + 1 /\ r \in Nat
      BY <2>1, <3>1
    <3>6. GivesTo(C, t, p, n, i, (x \o w) \o PairOf(C[t], SubSeq(p, j + 1, i)))
      BY <3>2, <3>5, GivesMore
    <3>7. PairOf(C[t], SubSeq(p, j + 1, i)) = pair
      BY <2>1 DEF pair
    <3> QED
      BY <3>1, <3>4, <3>6, <3>7 DEF pair
  <2> QED
    BY <2>3 DEF Good, t
<1> HIDE DEF S
<1>6. b \in S
  BY <1>1, <1>4, <1>5, UpTo
<1>7. Good(b)
  BY <1>1, <1>6 DEF S
<1> QED
  BY <1>1, <1>2, <1>7 DEF Gives, C, a, b

-----------------------------------------------------------------------------
(* What the frames of a search have taken of the path: each has what the    *)
(* one above it had, and what the route captured that the other one is at.  *)
Collecting(fs) ==
  /\ fs[1].taken = <<>>
  /\ \A k \in 1..(Len(fs) - 1) : fs[k + 1].taken = fs[k].taken \o CapturedBy(fs[k]).params

LEMMA CollectMoved ==
  ASSUME NEW fs, Frames(fs), Collecting(fs), NEW n \in 1..Len(fs), NEW gs, MovedTo(fs, gs, n)
  PROVE  Collecting(gs)
<1>0. Len(gs) = n /\ n \in Nat /\ n <= Len(fs) /\ Len(fs) \in Nat /\ n # 0
  BY SequenceIs DEF Frames, MovedTo
<1>1. \A k \in 1..n : gs[k].taken = fs[k].taken
  <2>1. \A k \in 1..n : k = n \/ k \in 1..(n - 1)
    BY <1>0
  <2> QED
    BY <2>1 DEF MovedTo
<1>2. \A k \in 1..(n - 1) : k \in 1..n /\ k + 1 \in 1..n /\ k \in 1..(Len(fs) - 1)
  BY <1>0
<1>3. \A k \in 1..(n - 1) : gs[k] = fs[k]
  BY DEF MovedTo
<1>4. 1 \in 1..n
  BY <1>0
<1> QED
  BY <1>0, <1>1, <1>2, <1>3, <1>4 DEF Collecting

LEMMA CollectEntered ==
  ASSUME NEW fs, Frames(fs), Collecting(fs), NEW at, NEW gs, EnteredTo(fs, gs, at),
         gs[Len(fs) + 1].taken = Last(fs).taken \o CapturedBy(Last(fs)).params
  PROVE  Collecting(gs)
<1> DEFINE n == Len(fs)
<1>0. n \in Nat \ {0} /\ Len(gs) = n + 1 /\ 1 \in 1..n
  BY SequenceIs DEF EnteredTo, Frames
<1>1. \A k \in 1..n : gs[k] = fs[k]
  BY DEF EnteredTo
<1>2. ASSUME NEW k \in 1..n PROVE gs[k + 1].taken = gs[k].taken \o CapturedBy(gs[k]).params
  <2>1. CASE k = n
    BY <1>1, <2>1 DEF Last
  <2>2. CASE k # n
    <3>1. k \in 1..(n - 1) /\ k + 1 \in 1..n
      <4> HIDE DEF n
      <4> QED
        BY <1>0, <2>2
    <3> QED
      BY <1>1, <3>1 DEF Collecting
  <2> QED
    BY <2>1, <2>2
<1>3. gs[1].taken = <<>>
  BY <1>0, <1>1 DEF Collecting
<1> HIDE DEF n
<1>4. Len(gs) - 1 = n
  BY <1>0
<1> QED
  BY <1>2, <1>3, <1>4 DEF Collecting

(* What a frame has taken is what the patterns before it give.              *)
LEMMA TakenOfFrame ==
  ASSUME table \in Tables, Matching, NEW c \in Chains, NEW fs, NEW p, Searching(fs, p), Collecting(fs),
         NEW h, Together(c, h), NEW n \in 0..(Len(fs) - 1), Begins(c, fs, n)
  PROVE  \E l \in 0..Len(p) : fs[n + 1].rest = Dropped(p, l) /\ Gives(h[n], p, 0, l, fs[n + 1].taken)
<1>0. /\ Frames(fs) /\ Len(fs) \in Nat /\ Len(c) \in Nat /\ p \in Seq(Char) /\ Len(p) \in Nat /\ n \in Nat
      /\ n <= Len(c) /\ n <= Len(fs) - 1 /\ 0 \in 0..Len(p)
  BY SequenceIs, ChainIs DEF Frames, Searching, Begins
<1> DEFINE Good(j) == \E l \in 0..Len(p) : fs[j + 1].rest = Dropped(p, l) /\ Gives(h[j], p, 0, l, fs[j + 1].taken)
           S == {j \in Nat : j <= n => Good(j)}
<1>1. 0 \in S
  <2>1. h[0] = <<>> /\ Len(h[0]) = 0
    BY DEF Together
  <2>2. Gives(h[0], p, 0, 0, <<>>)
    BY <1>0, <2>1, GivesNone DEF Gives
  <2>3. fs[1].rest = p /\ Dropped(p, 0) = p /\ fs[1].taken = <<>>
    BY <1>0 DEF Searching, Dropped, Collecting
  <2>4. Good(0)
    BY <1>0, <2>2, <2>3
  <2> QED
    BY <2>4
<1>2. ASSUME NEW j \in Nat, j \in S PROVE j + 1 \in S
  <2> SUFFICES ASSUME j + 1 <= n PROVE Good(j + 1)
    OBVIOUS
  <2> DEFINE i == j + 1
  <2>1. /\ i \in 1..Len(fs) /\ i \in 1..(Len(fs) - 1) /\ i \in 1..Len(c) /\ i - 1 = j /\ i \in Nat /\ i <= n
        /\ j \in 0..Len(c) /\ i \in 0..Len(c)
    BY <1>0
  <2>2. PICK l \in 0..Len(p) : fs[i].rest = Dropped(p, l) /\ Gives(h[j], p, 0, l, fs[i].taken)
    BY <1>0, <1>2
  <2> HIDE DEF i
  <2>3. Begins(c, fs, i)
    BY <1>0, <2>1 DEF Begins
  <2>4. Patterns(c)[i] = matchers[fs[i].router][fs[i].at]
    BY <1>0, <2>1, <2>3, PatternOfFrame
  <2>5. Patterns(c)[i] \in Seq(Part)
    BY <2>1, PatternsOfChain
  <2>6. CapturedBy(fs[i]).matched /\ CapturedBy(fs[i]).rest = fs[i + 1].rest
    BY <2>1 DEF Searching
  <2>7. CapturedBy(fs[i]) = Capture(Patterns(c)[i], Dropped(p, l))
    BY <2>2, <2>4 DEF CapturedBy
  <2>8. PICK m \in 0..Len(p) : At(CapturedBy(fs[i]), p, m)
    BY <1>0, <2>5, <2>6, <2>7, CaptureIsPasses
  <2>9. Gives(Patterns(c)[i], p, l, m, CapturedBy(fs[i]).params)
    BY <1>0, <2>5, <2>7, <2>8, CaptureGives
  <2>10. h[i] = h[j] \o Patterns(c)[i] /\ h[j] \in Seq(Part)
    BY <2>1 DEF Together
  <2>11. Gives(h[i], p, 0, m, fs[i].taken \o CapturedBy(fs[i]).params)
    BY <1>0, <2>2, <2>5, <2>9, <2>10, GivesConcat
  <2>12. fs[i + 1].rest = Dropped(p, m)
    BY <2>6, <2>8 DEF At
  <2>13. fs[i + 1].taken = fs[i].taken \o CapturedBy(fs[i]).params
    BY <2>1 DEF Collecting
  <2> QED
    BY <2>11, <2>12, <2>13 DEF i
<1> HIDE DEF S, Good
<1>3. n \in S
  BY <1>0, <1>1, <1>2, UpTo
<1> QED
  BY <1>0, <1>3 DEF S, Good

(* What the handler of a path is given: what the patterns of its chain give.*)
LEMMA CapturedIsGiven ==
  ASSUME table \in Tables, Matching, NEW fs, NEW p, Searching(fs, p), Collecting(fs),
         Last(fs).at \in DOMAIN table[Last(fs).router], RouteOf(Last(fs)).router = None,
         CapturedBy(Last(fs)).matched, CapturedBy(Last(fs)).rest = <<>>
  PROVE  /\ Gives(PartsOf(Ats(fs)), p, 0, Len(p), Last(fs).taken \o CapturedBy(Last(fs)).params)
         /\ PartsOf(Ats(fs)) \in Seq(Part)
<1> DEFINE n == Len(fs)
           c == Ats(fs)
           last == Last(fs)
           part == Patterns(c)[n]
           d == CapturedBy(last)
<1>0. Frames(fs) /\ n \in Nat \ {0} /\ p \in Seq(Char) /\ Len(p) \in Nat
  BY SequenceIs DEF Frames, Searching
<1>1. c \in Chains /\ Begins(c, fs, n) /\ Len(c) = n
  BY <1>0, FramesAreChain
<1> HIDE DEF c
<1>2. PICK h : Together(c, h)
  BY <1>1, PatternsOfChain
<1>3. n \in 1..n /\ n - 1 \in 0..(n - 1) /\ n - 1 + 1 = n /\ n \in 0..n /\ n - 1 \in 0..n
  BY <1>0
<1>4. Begins(c, fs, n - 1)
  BY <1>0, <1>1 DEF Begins
<1>5. PICK l \in 0..Len(p) : last.rest = Dropped(p, l) /\ Gives(h[n - 1], p, 0, l, last.taken)
  <2>1. \E l \in 0..Len(p) : fs[n - 1 + 1].rest = Dropped(p, l) /\ Gives(h[n - 1], p, 0, l, fs[n - 1 + 1].taken)
    BY <1>1, <1>2, <1>3, <1>4, TakenOfFrame
  <2> QED
    BY <1>3, <2>1 DEF Last
<1>6. part = matchers[last.router][last.at]
  BY <1>0, <1>1, <1>3, PatternOfFrame DEF Last
<1>7. part \in Seq(Part)
  BY <1>1, <1>3, PatternsOfChain
<1>8. /\ h \in [0..n -> Seq(Part)] /\ h[n] = PartsOf(c) /\ h[n] = h[n - 1] \o part
  BY <1>1, <1>2, <1>3 DEF Together
<1>9. d = Capture(part, Dropped(p, l))
  BY <1>5, <1>6 DEF CapturedBy
<1> HIDE DEF n, last, part, d
<1>10. d.matched /\ d.rest = <<>>
  BY DEF d, last
<1>11. PICK m \in 0..Len(p) : At(d, p, m)
  BY <1>0, <1>7, <1>9, <1>10, CaptureIsPasses
<1>12. Gives(part, p, l, m, d.params)
  BY <1>0, <1>7, <1>9, <1>11, CaptureGives
<1>13. m = Len(p)
  <2>1. Dropped(p, m) = <<>> /\ Len(Dropped(p, m)) = Len(p) - m
    BY <1>0, <1>10, <1>11, DroppedText DEF At
  <2>2. Len(Dropped(p, m)) = 0
    BY <2>1
  <2> QED
    BY <1>0, <2>1, <2>2
<1>14. h[n] \in Seq(Part) /\ h[n - 1] \in Seq(Part)
  BY <1>3, <1>8
<1>15. Gives(h[n], p, 0, Len(p), last.taken \o d.params)
  <2>1. /\ p \in Seq(Char) /\ 0 \in 0..Len(p) /\ l \in 0..Len(p) /\ m \in 0..Len(p)
        /\ h[n - 1] \in Seq(Part) /\ part \in Seq(Part)
        /\ Gives(h[n - 1], p, 0, l, last.taken) /\ Gives(part, p, l, m, d.params)
    BY <1>0, <1>5, <1>7, <1>12, <1>14
  <2>2. Gives(h[n - 1] \o part, p, 0, m, last.taken \o d.params)
    BY <2>1, GivesConcat
  <2> QED
    BY <1>8, <1>13, <2>2
<1> QED
  BY <1>8, <1>14, <1>15 DEF c, d, last

-----------------------------------------------------------------------------
(* PathParams, pair by pair.                                                *)
Inserting(pairs, lists, s) == IF s = {} THEN <<>> ELSE Insert(lists[s \ {Max(s)}], pairs[Max(s)])
Lists(pairs) == CHOOSE lists : lists = [s \in SUBSET DOMAIN pairs |-> Inserting(pairs, lists, s)]

LEMMA PathParamsIs == \A pairs : PathParams(pairs) = Lists(pairs)[DOMAIN pairs]
BY DEF PathParams, FoldLeft, MapThenFoldSet, Lists, Inserting

LEMMA ListsExist ==
  ASSUME NEW pairs, NEW n \in Nat, DOMAIN pairs = 1..n
  PROVE  Lists(pairs) = [s \in SUBSET (1..n) |-> Inserting(pairs, Lists(pairs), s)]
<1> DEFINE Sub(m) == {s \in SUBSET (1..n) : \A x \in s : x <= m}
           Goes(m) == \E c : c = [s \in Sub(m) |-> Inserting(pairs, c, s)]
           S == {m \in Nat : Goes(m)}
<1>1. 0 \in S
  <2> DEFINE c == [s \in Sub(0) |-> <<>>]
  <2>1. \A s \in Sub(0) : s = {}
    OBVIOUS
  <2>2. c = [s \in Sub(0) |-> Inserting(pairs, c, s)]
    BY <2>1 DEF Inserting
  <2> HIDE DEF c
  <2>3. Goes(0)
    BY <2>2
  <2> QED
    BY <2>3
<1>2. ASSUME NEW m \in Nat, m \in S PROVE m + 1 \in S
  <2>1. PICK c : c = [s \in Sub(m) |-> Inserting(pairs, c, s)]
    BY <1>2
  <2> DEFINE d == [s \in Sub(m + 1) |-> Inserting(pairs, c, s)]
  <2>2. ASSUME NEW s \in Sub(m + 1) PROVE Inserting(pairs, d, s) = Inserting(pairs, c, s)
    <3>1. CASE s = {}
      BY <3>1 DEF Inserting
    <3>2. CASE s # {}
      <4> DEFINE r == s \ {Max(s)}
      <4>1. Max(s) \in s /\ \A x \in s : x <= Max(s)
        BY <3>2, Highest
      <4>2. r \in Sub(m) /\ r \in Sub(m + 1)
        <5>1. s \in SUBSET (1..n) /\ \A x \in s : x <= m + 1
          OBVIOUS
        <5>2. /\ Max(s) <= m + 1 /\ Max(s) \in 1..n
              /\ \A x \in r : x \in 1..n /\ x # Max(s) /\ x <= Max(s)
          BY <4>1, <5>1
        <5>3. \A x \in r : x <= m /\ x <= m + 1
          BY <5>2
        <5> QED
          BY <5>1, <5>3
      <4>3. d[r] = Inserting(pairs, c, r) /\ c[r] = Inserting(pairs, c, r)
        BY <2>1, <4>2
      <4>4. d[r] = c[r]
        BY <4>3
      <4> HIDE DEF d
      <4> QED
        BY <3>2, <4>4 DEF Inserting
    <3> QED
      BY <3>1, <3>2
  <2>3. d = [s \in Sub(m + 1) |-> Inserting(pairs, d, s)]
    BY <2>2
  <2> HIDE DEF d
  <2>4. Goes(m + 1)
    BY <2>3
  <2> HIDE DEF Goes
  <2> QED
    BY <2>4
<1> HIDE DEF S
<1>3. n \in S
  BY <1>1, <1>2, UpTo
<1>4. Goes(n)
  BY <1>3 DEF S
<1>5. Sub(n) = SUBSET (1..n)
  OBVIOUS
<1> QED
  BY <1>4, <1>5 DEF Lists

LEMMA PathParamsSteps ==
  ASSUME NEW pairs, NEW n \in Nat, DOMAIN pairs = 1..n
  PROVE  \E c : /\ c[0] = <<>>
                /\ \A k \in 1..n : c[k] = Insert(c[k - 1], pairs[k])
                /\ PathParams(pairs) = c[n]
<1> DEFINE C == Lists(pairs)
           c == [k \in 0..n |-> C[1..k]]
<1>1. C = [s \in SUBSET (1..n) |-> Inserting(pairs, C, s)]
  BY ListsExist
<1>2. PathParams(pairs) = C[1..n]
  BY PathParamsIs
<1> HIDE DEF C
<1>3. c[0] = <<>>
  <2>1. 1..0 = {} /\ 1..0 \in SUBSET (1..n)
    OBVIOUS
  <2> QED
    BY <1>1, <2>1 DEF Inserting
<1>4. ASSUME NEW k \in 1..n PROVE C[1..k] = Insert(C[1..(k - 1)], pairs[k])
  <2> DEFINE s == 1..k
  <2>1. s \in SUBSET (1..n) /\ k \in s /\ s # {} /\ k \in Nat
    OBVIOUS
  <2>2. Max(s) \in s /\ \A x \in s : x <= Max(s)
    BY <2>1, Highest
  <2>3. Max(s) = k /\ s \ {k} = 1..(k - 1)
    BY <2>1, <2>2
  <2> HIDE DEF s
  <2>4. C[s] = Insert(C[1..(k - 1)], pairs[k])
    BY <1>1, <2>1, <2>3 DEF Inserting
  <2> QED
    BY <2>4 DEF s
<1>5. \A k \in 1..n : k - 1 \in 0..n /\ k \in 0..n
  OBVIOUS
<1>6. \A k \in 1..n : c[k] = Insert(c[k - 1], pairs[k])
  BY <1>4, <1>5
<1>7. PathParams(pairs) = c[n]
  BY <1>2
<1> HIDE DEF c
<1> QED
  BY <1>3, <1>6, <1>7

LEMMA PathParamsAppended ==
  ASSUME NEW s, IsSequence(s), NEW e
  PROVE  PathParams(Append(s, e)) = Insert(PathParams(s), e)
<1> DEFINE n == Len(s)
           m == n + 1
           t == Append(s, e)
<1>1. n \in Nat /\ DOMAIN s = 1..n /\ m \in Nat /\ m = n + 1 /\ m \in 1..m /\ m - 1 = n /\ \A k \in 1..n : k \in 1..m
  BY SequenceIs
<1>2. DOMAIN t = 1..m /\ t[m] = e /\ \A k \in 1..n : t[k] = s[k]
  BY SequenceAppended, SequenceIs
<1> HIDE DEF n, m, t
<1>3. PICK c : /\ c[0] = <<>>
               /\ \A k \in 1..n : c[k] = Insert(c[k - 1], s[k])
               /\ PathParams(s) = c[n]
  BY <1>1, PathParamsSteps
<1>4. PICK d : /\ d[0] = <<>>
               /\ \A k \in 1..m : d[k] = Insert(d[k - 1], t[k])
               /\ PathParams(t) = d[m]
  BY <1>1, <1>2, PathParamsSteps
<1> DEFINE S == {k \in Nat : k <= n => c[k] = d[k]}
<1>5. 0 \in S
  BY <1>3, <1>4
<1>6. ASSUME NEW k \in Nat, k \in S PROVE k + 1 \in S
  <2> DEFINE q == k + 1
  <2> SUFFICES ASSUME q <= n PROVE c[q] = d[q]
    OBVIOUS
  <2>1. q \in 1..n /\ q \in 1..m /\ q - 1 = k /\ k <= n
    BY <1>1
  <2> HIDE DEF q
  <2>2. c[k] = d[k]
    BY <1>6, <2>1
  <2>3. c[q] = Insert(c[k], s[q]) /\ d[q] = Insert(d[k], t[q]) /\ t[q] = s[q]
    BY <1>2, <1>3, <1>4, <2>1
  <2> QED
    BY <2>2, <2>3
<1> HIDE DEF S
<1>7. n \in S
  BY <1>1, <1>5, <1>6, UpTo
<1>8. c[n] = d[n]
  BY <1>1, <1>7 DEF S
<1>9. d[m] = Insert(d[n], t[m])
  BY <1>1, <1>4
<1> QED
  BY <1>2, <1>3, <1>4, <1>8, <1>9 DEF t

LEMMA PathParamsNone == PathParams(<<>>) = <<>>
<1>1. DOMAIN <<>> = 1..0
  OBVIOUS
<1>2. PICK c : c[0] = <<>> /\ PathParams(<<>>) = c[0]
  BY <1>1, PathParamsSteps
<1> QED
  BY <1>2

(* A pair inserted: its name is there once, with its value.                 *)
Known(list, name) == \E i \in 1..Len(list) : list[i][1] = name

LEMMA InsertKnown ==
  ASSUME NEW list, IsSequence(list), NEW pair, Known(list, pair[1])
  PROVE  /\ IsSequence(Insert(list, pair)) /\ Len(Insert(list, pair)) = Len(list)
         /\ \A i \in 1..Len(list) : Insert(list, pair)[i] = IF list[i][1] = pair[1] THEN pair ELSE list[i]
<1> DEFINE n == Len(list)
           new == Insert(list, pair)
<1>1. n \in Nat /\ DOMAIN list = 1..n
  BY SequenceIs
<1>2. new = [i \in 1..n |-> IF list[i][1] = pair[1] THEN pair ELSE list[i]]
  BY <1>1 DEF Insert, Known
<1> HIDE DEF new, n
<1>3. new = [i \in 1..n |-> new[i]] /\ \A i \in 1..n : new[i] = IF list[i][1] = pair[1] THEN pair ELSE list[i]
  BY <1>2
<1>4. IsSequence(new) /\ Len(new) = n
  BY <1>1, <1>3, SequenceWith
<1> QED
  BY <1>3, <1>4 DEF new, n

LEMMA InsertUnknown ==
  ASSUME NEW list, IsSequence(list), NEW pair, ~Known(list, pair[1])
  PROVE  /\ IsSequence(Insert(list, pair)) /\ Len(Insert(list, pair)) = Len(list) + 1
         /\ Insert(list, pair)[Len(list) + 1] = pair
         /\ \A i \in 1..Len(list) : Insert(list, pair)[i] = list[i]
<1>1. DOMAIN list = 1..Len(list)
  BY SequenceIs
<1>2. Insert(list, pair) = Append(list, pair)
  BY <1>1 DEF Insert, Known
<1> QED
  BY <1>2, SequenceAppended

LEMMA ParamsOf ==
  /\ \A part \in Part : IsParam(part) => part = Param(part.name)
  /\ \A a, b : Param(a) = Param(b) => a = b
  /\ \A a : IsParam(Param(a)) /\ Param(a).name = a
<1>1. \A part \in Part : IsParam(part) => part = Param(part.name)
  <2> SUFFICES ASSUME NEW part \in Part, IsParam(part) PROVE part = Param(part.name)
    OBVIOUS
  <2>1. part \in [name : Seq(Char)]
    BY DEF Part, IsParam
  <2> QED
    BY <2>1 DEF Param
<1>2. \A a : Param(a).name = a
  BY DEF Param
<1>3. \A a : IsParam(Param(a))
  BY DEF Param, IsParam
<1> QED
  BY <1>1, <1>2, <1>3

(* The list that the first k parts give: each name of theirs with the last  *)
(* piece that it has among them, the names in the order in which they come. *)
LastOf(parts, k, name, j) ==
  j \in 1..k /\ parts[j] = Param(name) /\ \A m \in 1..k : j < m => parts[m] # Param(name)
Before(parts, k, one, other) ==
  \E m \in 1..k : parts[m] = Param(one) /\ \A i \in 1..m : parts[i] # Param(other)
ParamsRead(parts, k, p, cut, list) ==
  /\ IsSequence(list)
  /\ \A j \in 1..k : IsParam(parts[j]) => Known(list, parts[j].name)
  /\ \A i \in 1..Len(list) : \E j : LastOf(parts, k, list[i][1], j) /\ list[i][2] = Piece(p, cut, j)
  /\ \A i, j \in 1..Len(list) : i < j => Before(parts, k, list[i][1], list[j][1])

LEMMA ReadsOn ==
  ASSUME NEW parts, NEW k \in Nat, NEW q, q = k + 1, NEW one
  PROVE  /\ \A j : LastOf(parts, k, one, j) /\ parts[q] # Param(one) => LastOf(parts, q, one, j)
         /\ parts[q] = Param(one) => LastOf(parts, q, one, q)
         /\ \A other : Before(parts, k, one, other) => Before(parts, q, one, other)
<1>1. q \in 1..q /\ (\A j \in 1..k : j \in 1..q) /\ \A m \in 1..q : (m \in 1..k \/ m = q) /\ ~(q < m)
  OBVIOUS
<1> QED
  BY <1>1 DEF LastOf, Before

LEMMA ReadsLiteral ==
  ASSUME NEW parts \in Seq(Part), NEW k \in Nat, NEW q \in 1..Len(parts), q = k + 1, NEW p, NEW cut,
         NEW list, ParamsRead(parts, k, p, cut, list), ~IsParam(parts[q])
  PROVE  ParamsRead(parts, q, p, cut, list)
<1>1. \A j \in 1..q : j \in 1..k \/ j = q
  OBVIOUS
<1>2. \A name : parts[q] # Param(name)
  BY ParamsOf
<1>3. IsSequence(list) /\ \A j \in 1..q : IsParam(parts[j]) => Known(list, parts[j].name)
  BY <1>1 DEF ParamsRead
<1>4. ASSUME NEW i \in 1..Len(list)
      PROVE  \E j : LastOf(parts, q, list[i][1], j) /\ list[i][2] = Piece(p, cut, j)
  <2>1. PICK j : LastOf(parts, k, list[i][1], j) /\ list[i][2] = Piece(p, cut, j)
    BY DEF ParamsRead
  <2>2. LastOf(parts, q, list[i][1], j)
    <3>1. parts[q] # Param(list[i][1])
      BY <1>2
    <3> QED
      BY <2>1, <3>1, ReadsOn, SMTT(30)
  <2> QED
    BY <2>1, <2>2
<1>5. \A i, j \in 1..Len(list) : i < j => Before(parts, q, list[i][1], list[j][1])
  BY ReadsOn DEF ParamsRead
<1> QED
  BY <1>3, <1>4, <1>5 DEF ParamsRead

LEMMA ReadsParam ==
  ASSUME NEW parts \in Seq(Part), NEW k \in Nat, NEW q \in 1..Len(parts), q = k + 1, NEW p, NEW cut,
         NEW list, ParamsRead(parts, k, p, cut, list), IsParam(parts[q]),
         NEW pair, pair = <<parts[q].name, Piece(p, cut, q)>>
  PROVE  ParamsRead(parts, q, p, cut, Insert(list, pair))
<1> DEFINE name == parts[q].name
           new == Insert(list, pair)
           n == Len(list)
<1>0. parts[q] \in Part /\ pair[1] = name /\ pair[2] = Piece(p, cut, q)
  OBVIOUS
<1>1. parts[q] = Param(name)
  BY <1>0, ParamsOf
<1> HIDE DEF name, new
<1>2. /\ IsSequence(list) /\ n \in Nat
      /\ \A j \in 1..k : IsParam(parts[j]) => Known(list, parts[j].name)
      /\ \A i \in 1..n : \E j : LastOf(parts, k, list[i][1], j) /\ list[i][2] = Piece(p, cut, j)
      /\ \A i, j \in 1..n : i < j => Before(parts, k, list[i][1], list[j][1])
  BY SequenceIs DEF ParamsRead
<1>3. /\ \A other : parts[q] = Param(other) => other = name
      /\ LastOf(parts, q, name, q)
      /\ \A other, j : LastOf(parts, k, other, j) /\ other # name => LastOf(parts, q, other, j)
      /\ \A one, other : Before(parts, k, one, other) => Before(parts, q, one, other)
  BY <1>1, ParamsOf, ReadsOn
<1>4. \A j \in 1..q : j \in 1..k \/ j = q
  OBVIOUS
<1>5. parts[q].name = name
  BY DEF name
<1>6. CASE Known(list, name)
  <2>1. /\ IsSequence(new) /\ Len(new) = n
        /\ \A i \in 1..n : new[i] = IF list[i][1] = name THEN pair ELSE list[i]
    BY <1>0, <1>2, <1>6, InsertKnown DEF new
  <2>2. \A i \in 1..n : new[i][1] = list[i][1]
    BY <1>0, <2>1
  <2>3. \A other : Known(list, other) => Known(new, other)
    BY <2>1, <2>2 DEF Known
  <2>4. \A j \in 1..q : IsParam(parts[j]) => Known(new, parts[j].name)
    BY <1>2, <1>4, <1>5, <1>6, <2>3
  <2>5. ASSUME NEW i \in 1..n PROVE \E j : LastOf(parts, q, new[i][1], j) /\ new[i][2] = Piece(p, cut, j)
    <3>1. CASE list[i][1] = name
      BY <1>0, <1>3, <2>1, <3>1
    <3>2. CASE list[i][1] # name
      <4>1. PICK j : LastOf(parts, k, list[i][1], j) /\ list[i][2] = Piece(p, cut, j)
        BY <1>2
      <4>2. LastOf(parts, q, list[i][1], j) /\ new[i] = list[i]
        BY <1>3, <2>1, <3>2, <4>1
      <4> QED
        BY <4>1, <4>2
    <3> QED
      BY <3>1, <3>2
  <2>6. \A i, j \in 1..n : i < j => Before(parts, q, new[i][1], new[j][1])
    BY <1>2, <1>3, <2>2
  <2> HIDE DEF n
  <2>7. ParamsRead(parts, q, p, cut, new)
    BY <2>1, <2>4, <2>5, <2>6 DEF ParamsRead
  <2> QED
    BY <2>7 DEF new
<1>7. CASE ~Known(list, name)
  <2> DEFINE m == n + 1
  <2>0. m \in 1..m /\ (\A i \in 1..m : i \in 1..n \/ i = m) /\ \A i \in 1..n : i \in 1..m
    <3>1. n \in Nat
      BY <1>2
    <3> HIDE DEF n
    <3> QED
      BY <3>1
  <2>1. /\ IsSequence(new) /\ Len(new) = m /\ new[m] = pair
        /\ \A i \in 1..n : new[i] = list[i]
    BY <1>0, <1>2, <1>7, InsertUnknown DEF new
  <2>2. \A i, j \in 1..m : i < j => i \in 1..n
    BY <1>2
  <2> HIDE DEF m, n
  <2>3. \A i \in 1..n : list[i][1] # name
    BY <1>7 DEF Known, n
  <2>4. \A other : Known(list, other) => Known(new, other)
    BY <2>0, <2>1 DEF Known, n
  <2>5. Known(new, name)
    BY <1>0, <2>0, <2>1 DEF Known
  <2>6. \A j \in 1..q : IsParam(parts[j]) => Known(new, parts[j].name)
    BY <1>2, <1>4, <1>5, <2>4, <2>5
  <2>7. ASSUME NEW i \in 1..m PROVE \E j : LastOf(parts, q, new[i][1], j) /\ new[i][2] = Piece(p, cut, j)
    <3>1. CASE i = m
      BY <1>0, <1>3, <2>1, <3>1
    <3>2. CASE i # m
      <4>1. i \in 1..n /\ new[i] = list[i]
        BY <2>0, <2>1, <3>2
      <4>2. PICK j : LastOf(parts, k, list[i][1], j) /\ list[i][2] = Piece(p, cut, j)
        BY <1>2, <4>1
      <4>3. LastOf(parts, q, list[i][1], j)
        BY <1>3, <2>3, <4>1, <4>2
      <4> QED
        BY <4>1, <4>2, <4>3
    <3> QED
      BY <3>1, <3>2
  <2>8. ASSUME NEW i \in 1..m, NEW j \in 1..m, i < j PROVE Before(parts, q, new[i][1], new[j][1])
    <3>1. i \in 1..n /\ new[i] = list[i]
      BY <2>1, <2>2, <2>8
    <3>2. CASE j = m
      <4>1. new[j][1] = name
        BY <1>0, <2>1, <3>2
      <4>2. PICK l : LastOf(parts, k, list[i][1], l)
        BY <1>2, <3>1
      <4>3. l \in 1..k /\ parts[l] = Param(list[i][1])
        BY <4>2 DEF LastOf
      <4>4. \A r \in 1..k : parts[r] # Param(name)
        <5> SUFFICES ASSUME NEW r \in 1..k, parts[r] = Param(name) PROVE FALSE
          OBVIOUS
        <5>1. IsParam(parts[r]) /\ parts[r].name = name
          BY ParamsOf
        <5> QED
          BY <1>2, <1>7, <5>1
      <4>5. \A r \in 1..l : r \in 1..k
        BY <4>3
      <4>6. Before(parts, k, list[i][1], name)
        BY <4>3, <4>4, <4>5 DEF Before
      <4> QED
        BY <1>3, <3>1, <4>1, <4>6
    <3>3. CASE j # m
      <4>1. j \in 1..n /\ new[j] = list[j]
        BY <2>0, <2>1, <3>3
      <4> QED
        BY <1>2, <1>3, <2>8, <3>1, <4>1
    <3> QED
      BY <3>2, <3>3
  <2>9. ParamsRead(parts, q, p, cut, new)
    BY <2>1, <2>6, <2>7, <2>8 DEF ParamsRead
  <2> QED
    BY <2>9 DEF new
<1> QED
  BY <1>6, <1>7

LEMMA PartsRead ==
  ASSUME NEW parts \in Seq(Part), NEW p, NEW cut
  PROVE  ParamsRead(parts, Len(parts), p, cut, PathParams(PairsTo(parts, Len(parts), p, cut)))
<1> DEFINE L == Len(parts)
           pairs(k) == PairsTo(parts, k, p, cut)
           Good(k) == ParamsRead(parts, k, p, cut, PathParams(pairs(k)))
           S == {k \in Nat : k <= L => Good(k)}
<1>0. L \in Nat
  OBVIOUS
<1>1. 0 \in S
  <2> DEFINE list == PathParams(pairs(0))
  <2>1. list = <<>>
    BY PairsNone, PathParamsNone
  <2> HIDE DEF list
  <2>2. IsSequence(list) /\ Len(list) = 0 /\ 1..0 = {}
    BY <2>1, SequenceNone
  <2>3. ParamsRead(parts, 0, p, cut, list)
    BY <2>2 DEF ParamsRead
  <2> QED
    BY <2>3 DEF list
<1>2. ASSUME NEW k \in Nat, k \in S PROVE k + 1 \in S
  <2> DEFINE q == k + 1
             before == pairs(k)
             list == PathParams(before)
             piece == Piece(p, cut, q)
             pair == PairOf(parts[q], piece)
  <2> SUFFICES ASSUME q <= L PROVE Good(q)
    OBVIOUS
  <2>1. k \in Nat /\ q = k + 1 /\ q \in 1..Len(parts) /\ k <= L
    OBVIOUS
  <2>2. ParamsRead(parts, k, p, cut, list)
    BY <1>2, <2>1
  <2>3. pairs(q) = before \o pair /\ IsSequence(before)
    BY <2>1, PairsOneMore
  <2> HIDE DEF q, before, list, piece, pairs
  <2>4. CASE IsParam(parts[q])
    <3> DEFINE one == <<parts[q].name, piece>>
    <3>1. pair = <<one>>
      BY <2>4 DEF PairOf
    <3> HIDE DEF one
    <3>2. before \o pair = Append(before, one)
      BY <2>3, <3>1, ConcatAppended
    <3>3. PathParams(pairs(q)) = Insert(list, one)
      BY <2>3, <3>2, PathParamsAppended DEF list
    <3>4. one = <<parts[q].name, Piece(p, cut, q)>>
      BY DEF one, piece
    <3>5. ParamsRead(parts, q, p, cut, Insert(list, one))
      BY <2>1, <2>2, <2>4, <3>4, ReadsParam
    <3> QED
      BY <3>3, <3>5
  <2>5. CASE ~IsParam(parts[q])
    <3>1. pair = <<>>
      BY <2>5 DEF PairOf
    <3>2. before \o pair = before
      BY <2>3, <3>1, SequenceNone
    <3>3. PathParams(pairs(q)) = list
      BY <2>3, <3>2 DEF list
    <3>4. ParamsRead(parts, q, p, cut, list)
      BY <2>1, <2>2, <2>5, ReadsLiteral
    <3> QED
      BY <3>3, <3>4
  <2> QED
    BY <2>4, <2>5
<1> HIDE DEF S
<1>3. L \in S
  BY <1>0, <1>1, <1>2, UpTo
<1>4. Good(L)
  BY <1>0, <1>3 DEF S
<1> QED
  BY <1>4

(* What the view is given, of the parts of a path.                          *)
PiecesIn(parts, p, cut, list) ==
  /\ Form(parts, p, cut)
  /\ {list[i][1] : i \in DOMAIN list} = {parts[k].name : k \in {j \in DOMAIN parts : IsParam(parts[j])}}
  /\ \A i \in DOMAIN list : list[i][2] = Piece(p, cut, Max({k \in DOMAIN parts : parts[k] = Param(list[i][1])}))
  /\ \A i, j \in DOMAIN list : i < j =>
       \E k \in DOMAIN parts : parts[k] = Param(list[i][1])
         /\ \A m \in 1..k : parts[m] # Param(list[j][1])
HasPieces(parts, p, list) == \E cut \in Cuts(parts, p) : PiecesIn(parts, p, cut, list)

LEMMA ParamsArePieces == ParamsAreThePieces <=> (pc = "found" => HasPieces(PartsOf(Chain), path, params))
BY DEF ParamsAreThePieces, HasPieces, PiecesIn

LEMMA ReadIsPieces ==
  ASSUME NEW parts \in Seq(Part), NEW p, NEW cut, Form(parts, p, cut), NEW list,
         ParamsRead(parts, Len(parts), p, cut, list)
  PROVE  PiecesIn(parts, p, cut, list)
<1> DEFINE L == Len(parts)
           n == Len(list)
<1>1. L \in Nat /\ DOMAIN parts = 1..L /\ \A k \in 1..L : parts[k] \in Part
  OBVIOUS
<1>2. n \in Nat /\ DOMAIN list = 1..n
  BY SequenceIs DEF ParamsRead
<1>3. /\ \A j \in 1..L : IsParam(parts[j]) => Known(list, parts[j].name)
      /\ \A i \in 1..n : \E j : LastOf(parts, L, list[i][1], j) /\ list[i][2] = Piece(p, cut, j)
      /\ \A i, j \in 1..n : i < j => Before(parts, L, list[i][1], list[j][1])
  BY DEF ParamsRead
<1>4. \A j \in 1..L : IsParam(parts[j]) => \E i \in 1..n : list[i][1] = parts[j].name
  BY <1>3 DEF Known
<1> HIDE DEF L, n
<1>5. ASSUME NEW i \in 1..n
      PROVE  /\ list[i][2] = Piece(p, cut, Max({k \in 1..L : parts[k] = Param(list[i][1])}))
             /\ \E j \in 1..L : IsParam(parts[j]) /\ parts[j].name = list[i][1]
  <2> DEFINE name == list[i][1]
             s == {k \in 1..L : parts[k] = Param(name)}
  <2>1. PICK j : LastOf(parts, L, name, j) /\ list[i][2] = Piece(p, cut, j)
    BY <1>3
  <2> HIDE DEF name
  <2>2. j \in 1..L /\ parts[j] = Param(name) /\ \A m \in 1..L : j < m => parts[m] # Param(name)
    BY <2>1 DEF LastOf
  <2>3. s \in SUBSET (1..L) /\ j \in s /\ \A m \in s : ~(j < m)
    BY <2>2
  <2>4. Max(s) \in s /\ \A x \in s : x <= Max(s)
    BY <1>1, <2>3, Highest
  <2>5. Max(s) = j
    <3>1. Max(s) \in 1..L /\ ~(j < Max(s)) /\ j <= Max(s)
      BY <2>3, <2>4
    <3> HIDE DEF s
    <3> QED
      BY <1>1, <2>2, <3>1
  <2>6. IsParam(parts[j]) /\ parts[j].name = name
    BY <2>2, ParamsOf
  <2> QED
    BY <2>1, <2>2, <2>5, <2>6 DEF name
<1>6. {list[i][1] : i \in DOMAIN list} = {parts[k].name : k \in {j \in DOMAIN parts : IsParam(parts[j])}}
  <2> DEFINE s == {j \in DOMAIN parts : IsParam(parts[j])}
  <2>1. \A j \in s : \E i \in DOMAIN list : list[i][1] = parts[j].name
    BY <1>1, <1>2, <1>4
  <2>2. \A i \in DOMAIN list : \E j \in s : parts[j].name = list[i][1]
    <3> SUFFICES ASSUME NEW i \in DOMAIN list PROVE \E j \in s : parts[j].name = list[i][1]
      OBVIOUS
    <3>1. \E j \in 1..L : IsParam(parts[j]) /\ parts[j].name = list[i][1]
      BY <1>2, <1>5
    <3> QED
      BY <1>1, <3>1
  <2> HIDE DEF s
  <2>3. {list[i][1] : i \in DOMAIN list} = {parts[k].name : k \in s}
    BY <2>1, <2>2
  <2> QED
    BY <2>3 DEF s
<1>7. \A i \in DOMAIN list : list[i][2] = Piece(p, cut, Max({k \in DOMAIN parts : parts[k] = Param(list[i][1])}))
  BY <1>1, <1>2, <1>5
<1>8. \A i, j \in DOMAIN list : i < j =>
       \E k \in DOMAIN parts : parts[k] = Param(list[i][1])
         /\ \A m \in 1..k : parts[m] # Param(list[j][1])
  <2> SUFFICES ASSUME NEW i \in DOMAIN list, NEW j \in DOMAIN list, i < j
               PROVE  \E k \in DOMAIN parts : parts[k] = Param(list[i][1])
                        /\ \A m \in 1..k : parts[m] # Param(list[j][1])
    OBVIOUS
  <2>1. Before(parts, L, list[i][1], list[j][1])
    BY <1>2, <1>3
  <2> QED
    BY <1>1, <2>1 DEF Before
<1> QED
  BY <1>6, <1>7, <1>8 DEF PiecesIn

LEMMA GivesThePieces ==
  ASSUME NEW parts \in Seq(Part), NEW p \in Seq(Char), NEW pairs, Gives(parts, p, 0, Len(p), pairs)
  PROVE  HasPieces(parts, p, PathParams(pairs))
<1>0. DOMAIN parts = 1..Len(parts) /\ Len(parts) \in Nat /\ Len(p) \in Nat
  OBVIOUS
<1>1. PICK cut : CutsBetween(parts, Len(parts), p, 0, Len(p), cut) /\ pairs = PairsTo(parts, Len(parts), p, cut)
  BY DEF Gives, GivesTo
<1>2. cut \in Cuts(parts, p)
  BY <1>1 DEF CutsBetween, Cuts
<1>3. Form(parts, p, cut)
  BY <1>0, <1>1 DEF Form, CutsBetween, Takes, Piece
<1>4. ParamsRead(parts, Len(parts), p, cut, PathParams(pairs))
  BY <1>1, PartsRead
<1>5. PiecesIn(parts, p, cut, PathParams(pairs))
  BY <1>3, <1>4, ReadIsPieces
<1> QED
  BY <1>2, <1>5 DEF HasPieces

-----------------------------------------------------------------------------
(* The parameters of a path: while it is searched for, the frames have what *)
(* the routes above them capture.                                           *)
CInv ==
  /\ pc = "get_handler" => Collecting(frames)
  /\ ParamsAreThePieces

LEMMA CollectingStays ==
  ASSUME table' = table, matchers' = matchers
  PROVE  /\ Collecting(frames)' <=> Collecting(frames')
         /\ HasPieces(PartsOf(Chain), path, params)' <=> HasPieces(PartsOf(Ats(frames')), path', params')
<1>1. Collecting(frames)' <=> Collecting(frames')
  BY DEF Collecting, CapturedBy
<1>2. HasPieces(PartsOf(Chain), path, params)' <=> HasPieces(PartsOf(Ats(frames')), path', params')
  BY DEF PartsOf, Through, Chain, Ats
<1> QED
  BY <1>1, <1>2

LEMMA CInvNext ==
  ASSUME table' = table, matchers' = matchers,
         pc' = "get_handler" => Collecting(frames'),
         pc' = "found" => HasPieces(PartsOf(Ats(frames')), path', params')
  PROVE  CInv'
<1>1. pc' = "get_handler" => Collecting(frames)'
  BY CollectingStays
<1>2. pc' = "found" => HasPieces(PartsOf(Chain), path, params)'
  BY CollectingStays
<1>3. ParamsAreThePieces' <=> (pc = "found" => HasPieces(PartsOf(Chain), path, params))'
  BY ParamsArePieces, PTL
<1> QED
  BY <1>1, <1>2, <1>3 DEF CInv

LEMMA CInvElsewhere ==
  ASSUME pc' \notin {"get_handler", "found"}
  PROVE  CInv'
BY DEF CInv, ParamsAreThePieces

LEMMA HandleCInv == ASSUME NEW p, IInv, Handle(p) PROVE CInv'
<1> DEFINE fs == frames'
<1>1. /\ table' = table /\ matchers' = matchers /\ table \in Tables /\ pc' = "get_handler"
      /\ fs = <<Frame(1, 1, p, <<>>)>>
  BY DEF Handle, IInv
<1> HIDE DEF fs
<1>2. Len(fs) = 1 /\ fs[1].taken = <<>>
  BY <1>1, OneFrame
<1>3. 1..(1 - 1) = {}
  OBVIOUS
<1>4. Collecting(fs)
  BY <1>2, <1>3 DEF Collecting
<1> QED
  BY <1>1, <1>4, CInvNext DEF fs

LEMMA HandleRouteCInv ==
  ASSUME IInv, CInv, HandleRoute
  PROVE  CInv'
<1> DEFINE fs == frames
           gs == frames'
           last == Last(fs)
<1>0. /\ pc = "get_handler" /\ ~AtEnd /\ table' = table /\ matchers' = matchers /\ path' = path
      /\ table \in Tables /\ Matching /\ Frames(fs) /\ Searching(fs, path) /\ Collecting(fs)
  BY DEF IInv, CInv, HandleRoute
<1>1. Top = last /\ Captured = CapturedBy(last) /\ Route = RouteOf(last)
  BY <1>0, TopIs DEF Captured, CapturedBy
<1>2. last.at \in DOMAIN table[last.router] /\ Top.at # 0
  <2>1. Top.at # 0
    BY <1>0, <1>1, TopIs DEF Searching, Last, depth
  <2> QED
    BY <1>0, <1>1, <2>1, TopIs
<1>3. CASE NextRoute /\ pc' = pc
  <2>1. MovedTo(fs, gs, depth) /\ depth \in 1..Len(fs)
    BY <1>0, <1>3, NextRouteIs, TopIs DEF depth
  <2>2. Collecting(gs)
    BY <1>0, <2>1, CollectMoved
  <2> QED
    BY <1>0, <1>3, <2>2, CInvNext
<1>4. CASE /\ Captured.matched /\ Route.router = None /\ Captured.rest = <<>>
           /\ pc' = "found" /\ params' = PathParams(Top.taken \o Captured.params) /\ UNCHANGED frames
  <2> DEFINE pairs == last.taken \o CapturedBy(last).params
             parts == PartsOf(Ats(fs))
  <2>1. Gives(parts, path, 0, Len(path), pairs) /\ parts \in Seq(Part)
    BY <1>0, <1>1, <1>2, <1>4, CapturedIsGiven
  <2>2. path \in Seq(Char)
    BY <1>0 DEF Searching
  <2>3. params' = PathParams(pairs) /\ gs = fs
    BY <1>1, <1>4
  <2> HIDE DEF pairs
  <2>4. HasPieces(parts, path, PathParams(pairs))
    BY <2>1, <2>2, GivesThePieces
  <2> QED
    BY <1>0, <1>4, <2>3, <2>4, CInvNext
<1>5. CASE /\ Captured.matched /\ Route.router # None
           /\ Enter(Captured.rest, Top.taken \o Captured.params, 1) /\ pc' = pc
  <2>1. EnteredTo(fs, gs, 1) /\ gs[Len(fs) + 1].taken = Top.taken \o Captured.params
    BY <1>0, <1>2, <1>5, EnterIs
  <2>2. Collecting(gs)
    BY <1>0, <1>1, <2>1, CollectEntered
  <2> QED
    BY <1>0, <1>5, <2>2, CInvNext
<1> QED
  BY <1>3, <1>4, <1>5 DEF HandleRoute

LEMMA HandleReturnCInv ==
  ASSUME IInv, CInv, HandleReturn
  PROVE  CInv'
<1>0. /\ pc = "get_handler" /\ table' = table /\ matchers' = matchers
      /\ table \in Tables /\ Frames(frames) /\ Collecting(frames)
  BY DEF IInv, CInv, HandleReturn, Return
<1>1. CASE depth = 1 /\ pc' = "not_found"
  BY <1>1, CInvElsewhere
<1>2. CASE depth # 1 /\ pc' = pc /\ frames' = Moved(frames, depth - 1)
  <2> DEFINE n == depth - 1
  <2>1. n \in 1..Len(frames) /\ MovedTo(frames, frames', n)
    BY <1>0, <1>2, ReturnIs
  <2> HIDE DEF n
  <2>2. Collecting(frames')
    BY <1>0, <2>1, CollectMoved
  <2> QED
    BY <1>0, <1>2, <2>2, CInvNext
<1> QED
  BY <1>0, <1>1, <1>2, ReturnCases DEF HandleReturn

(* The view of a path gets every parameter of its pattern, with the piece   *)
(* that is in its place (PathParams, get_handler and Request::path_params). *)
THEOREM RouterGivesThePieces == Spec => []ParamsAreThePieces
<1>1. Init => CInv
  BY DEF Init, CInv, ParamsAreThePieces
<1>2. IInv /\ CInv /\ [Next]_vars => CInv'
  <2> SUFFICES ASSUME IInv, CInv, [Next]_vars PROVE CInv'
    OBVIOUS
  <2>1. CASE Register
    <3>1. pc' \in {"ready", "panicked"}
      BY <2>1 DEF Register
    <3> QED
      BY <3>1, CInvElsewhere
  <2>2. ASSUME NEW name \in Name, NEW args \in Args, ReverseOption(name, args) PROVE CInv'
    <3>1. pc' = "reverse"
      BY <2>2 DEF ReverseOption
    <3> QED
      BY <3>1, CInvElsewhere
  <2>3. ASSUME NEW p \in Paths \cup {path}, Handle(p) PROVE CInv'
    BY <2>3, HandleCInv
  <2>4. CASE ReverseNamed \/ ReverseRoute \/ ReverseReturn
    <3>1. pc' \in {"reverse", "missing", "url", "no_view"}
      BY <2>4 DEF ReverseNamed, ReverseRoute, ReverseReturn, Return
    <3> QED
      BY <3>1, CInvElsewhere
  <2>5. CASE HandleRoute
    BY <2>5, HandleRouteCInv
  <2>6. CASE HandleReturn
    BY <2>6, HandleReturnCInv
  <2>7. CASE UNCHANGED vars
    <3>1. /\ table' = table /\ matchers' = matchers /\ pc' = pc /\ frames' = frames /\ path' = path
          /\ params' = params
      BY <2>7 DEF vars
    <3>2. /\ pc = "get_handler" => Collecting(frames)
          /\ pc = "found" => HasPieces(PartsOf(Ats(frames)), path, params)
      BY ParamsArePieces, ChainIsAts DEF CInv
    <3> QED
      BY <3>1, <3>2, CInvNext
  <2> QED
    BY <2>1, <2>2, <2>3, <2>4, <2>5, <2>6, <2>7 DEF Next, Start, Iterate
<1>3. CInv => ParamsAreThePieces
  BY DEF CInv
<1> QED
  BY <1>1, <1>2, <1>3, IInvAlways, PTL DEF Spec

-----------------------------------------------------------------------------
(* The places in a sequence where those that it was put together of begin.  *)
CutInto(s, seqs, n, cut) ==
  /\ cut \in [0..n -> 0..Len(s)]
  /\ cut[0] = 0 /\ cut[n] = Len(s)
  /\ \A k \in 1..n : cut[k] = cut[k - 1] + Len(seqs[k]) /\ IsSequence(seqs[k])
  /\ \A k \in 1..n : \A i \in 1..Len(seqs[k]) : s[cut[k - 1] + i] = seqs[k][i]

LEMMA Sums == \A a, b \in Nat : a <= a + b /\ \A i \in 1..b : a + i \in 1..(a + b)
OBVIOUS

LEMMA FlattenCut ==
  ASSUME NEW seqs, AreSequences(seqs), NEW s, s = FlattenSeq(seqs), NEW n, n = Len(seqs)
  PROVE  IsSequence(s) /\ \E cut : CutInto(s, seqs, n, cut)
<1>1. n \in Nat /\ n \in 0..n /\ \A k \in 1..n : IsSequence(seqs[k])
  BY SequenceIs DEF AreSequences
<1>2. PICK h : /\ h[0] = <<>> /\ h[n] = s
               /\ \A k \in 0..n : IsSequence(h[k])
               /\ \A k \in 1..n : h[k] = h[k - 1] \o seqs[k]
  BY FlattenSteps
<1>3. ASSUME NEW k \in 1..n
      PROVE  /\ k - 1 \in 0..n /\ k \in 0..n /\ Len(h[k - 1]) \in Nat /\ Len(seqs[k]) \in Nat
             /\ Len(h[k]) = Len(h[k - 1]) + Len(seqs[k])
             /\ \A i \in 1..Len(h[k - 1]) : h[k][i] = h[k - 1][i]
             /\ \A i \in 1..Len(seqs[k]) : h[k][Len(h[k - 1]) + i] = seqs[k][i]
  <2>1. k - 1 \in 0..n /\ k \in 0..n
    BY <1>1
  <2>2. IsSequence(h[k - 1]) /\ IsSequence(seqs[k]) /\ h[k] = h[k - 1] \o seqs[k]
    BY <1>1, <1>2, <2>1
  <2>3. Joins(h[k - 1] \o seqs[k], h[k - 1], seqs[k])
    BY <2>2, SequenceJoins
  <2>4. Joins(h[k], h[k - 1], seqs[k])
    BY <2>2, <2>3
  <2>5. Len(h[k - 1]) \in Nat /\ Len(seqs[k]) \in Nat
    BY <2>2, SequenceIs
  <2> QED
    BY <2>1, <2>4, <2>5 DEF Joins
<1>4. ASSUME NEW j \in 0..n
      PROVE  Len(h[j]) \in Nat /\ Len(h[j]) <= Len(s) /\ \A i \in 1..Len(h[j]) : s[i] = h[j][i]
  <2> DEFINE Goes(k) == Len(h[k]) \in Nat /\ Len(h[j]) <= Len(h[k]) /\ \A i \in 1..Len(h[j]) : h[k][i] = h[j][i]
             S == {d \in Nat : j + d <= n => Goes(j + d)}
  <2>0. j \in Nat /\ Len(h[j]) \in Nat
    BY <1>1, <1>2, SequenceIs
  <2>1. 0 \in S
    <3>1. j + 0 = j
      BY <2>0
    <3> QED
      BY <2>0, <3>1
  <2>2. ASSUME NEW d \in Nat, d \in S PROVE d + 1 \in S
    <3> SUFFICES ASSUME NEW k, k = j + (d + 1), k <= n PROVE Goes(k)
      OBVIOUS
    <3>1. k \in 1..n /\ k - 1 = j + d /\ j + d <= n
      BY <1>1, <2>0
    <3>2. Goes(k - 1)
      BY <2>2, <3>1
    <3>3. /\ Len(h[k - 1]) \in Nat /\ Len(seqs[k]) \in Nat /\ Len(h[k]) = Len(h[k - 1]) + Len(seqs[k])
          /\ \A i \in 1..Len(h[k - 1]) : h[k][i] = h[k - 1][i]
      BY <1>3, <3>1
    <3>4. \A i \in 1..Len(h[j]) : i \in 1..Len(h[k - 1])
      BY <2>0, <3>2, <3>3
    <3>5. Len(h[k]) \in Nat /\ Len(h[j]) <= Len(h[k])
      <4> DEFINE a == Len(h[k - 1])
                 b == Len(seqs[k])
                 c == Len(h[k])
                 e == Len(h[j])
      <4>1. a \in Nat /\ b \in Nat /\ c = a + b /\ e \in Nat /\ e <= a
        BY <2>0, <3>2, <3>3
      <4> HIDE DEF a, b, c, e
      <4>2. c \in Nat /\ e <= c
        BY <4>1
      <4> QED
        BY <4>2 DEF c, e
    <3>6. \A i \in 1..Len(h[j]) : h[k][i] = h[j][i]
      BY <3>2, <3>3, <3>4
    <3> QED
      BY <3>5, <3>6
  <2>3. n - j \in Nat /\ j + (n - j) = n /\ n <= n
    BY <1>1
  <2> HIDE DEF Goes
  <2>4. \A d \in Nat : d \in S
    <3> HIDE DEF S
    <3> QED
      BY <2>1, <2>2, UpTo
  <2>5. Goes(n)
    BY <2>3, <2>4
  <2> QED
    BY <1>2, <2>0, <2>5 DEF Goes
<1> DEFINE cut == [k \in 0..n |-> Len(h[k])]
<1>5. IsSequence(s) /\ Len(s) \in Nat
  BY <1>1, <1>2, SequenceIs
<1>6. cut \in [0..n -> 0..Len(s)]
  BY <1>4, <1>5
<1>7. cut[0] = 0 /\ cut[n] = Len(s)
  BY <1>1, <1>2, SequenceNone
<1>8. ASSUME NEW k \in 1..n PROVE cut[k] = cut[k - 1] + Len(seqs[k]) /\ IsSequence(seqs[k])
  BY <1>1, <1>3
<1>9. ASSUME NEW k \in 1..n, NEW i \in 1..Len(seqs[k]) PROVE s[cut[k - 1] + i] = seqs[k][i]
  <2>0. k - 1 \in 0..n
    BY <1>3
  <2>1. cut[k - 1] = Len(h[k - 1])
    BY <2>0
  <2>2. Len(h[k - 1]) + i \in 1..Len(h[k])
    <3>1. Len(h[k - 1]) \in Nat /\ Len(seqs[k]) \in Nat /\ Len(h[k]) = Len(h[k - 1]) + Len(seqs[k])
      BY <1>3
    <3>2. Len(h[k - 1]) + i \in 1..(Len(h[k - 1]) + Len(seqs[k]))
      BY <3>1, Sums
    <3> QED
      BY <3>1, <3>2
  <2>3. k \in 0..n /\ h[k][Len(h[k - 1]) + i] = seqs[k][i]
    BY <1>3
  <2>4. s[Len(h[k - 1]) + i] = h[k][Len(h[k - 1]) + i]
    BY <1>4, <2>2, <2>3
  <2> QED
    BY <2>1, <2>3, <2>4
<1> HIDE DEF cut
<1>10. CutInto(s, seqs, n, cut)
  BY <1>6, <1>7, <1>8, <1>9, Zenon DEF CutInto
<1> QED
  BY <1>5, <1>10

(* Each of them is what is between the places.                              *)
LEMMA BetweenCuts ==
  ASSUME NEW s, IsSequence(s), NEW t, IsSequence(t), NEW l \in 0..Len(s), NEW m \in 0..Len(s), m = l + Len(t),
         \A i \in 1..Len(t) : s[l + i] = t[i]
  PROVE  SubSeq(s, l + 1, m) = t
<1>1. PICK T : s \in Seq(T)
  BY DEF IsSequence
<1> DEFINE u == SubSeq(s, l + 1, m)
<1>2. Len(s) \in Nat /\ Len(t) \in Nat /\ l + 1 \in Nat \ {0} /\ m \in Nat /\ m <= Len(s)
  BY SequenceIs
<1>3. u \in Seq(T) /\ Len(u) = (IF l + 1 <= m THEN m - (l + 1) + 1 ELSE 0)
      /\ \A k \in 1..Len(u) : u[k] = s[l + 1 + k - 1]
  BY <1>1, <1>2, SubText
<1> HIDE DEF u
<1>4. Len(u) = Len(t)
  BY <1>2, <1>3
<1>5. \A k \in 1..Len(t) : l + 1 + k - 1 = l + k
  BY <1>2
<1>6. \A k \in 1..Len(u) : u[k] = t[k]
  BY <1>3, <1>4, <1>5
<1> QED
  BY <1>3, <1>4, <1>6, SequenceSame DEF IsSequence, u

(* A URL that was made of parts can be cut into them again.                 *)
Filled(part, args) == IF IsParam(part) THEN args[part.name] ELSE part.literal
AreTexts(args) == \A name \in DOMAIN args : args[name] \in Seq(Char)

LEMMA ReversedCut ==
  ASSUME NEW parts \in Seq(Part), NEW args, AreTexts(args), Plain(parts, args), NEW p, p = Reversed(parts, args)
  PROVE  /\ IsSequence(p)
         /\ \E cut \in Cuts(parts, p) :
              /\ Form(parts, p, cut)
              /\ \A k \in DOMAIN parts : Piece(p, cut, k) = Filled(parts[k], args)
<1> DEFINE n == Len(parts)
           seqs == [i \in 1..n |-> Filled(parts[i], args)]
<1>1. n \in Nat /\ DOMAIN parts = 1..n
  OBVIOUS
<1>2. p = FlattenSeq(seqs)
  BY <1>1 DEF Reversed, Filled
<1>3. ASSUME NEW k \in 1..n PROVE seqs[k] = Filled(parts[k], args) /\ seqs[k] \in Seq(Char)
  <2>1. parts[k] \in Part
    BY <1>1
  <2>2. CASE IsParam(parts[k])
    BY <1>1, <2>2 DEF Plain, Filled, AreTexts
  <2>3. CASE ~IsParam(parts[k])
    BY <2>1, <2>3 DEF Part, IsParam, Filled
  <2> QED
    BY <2>2, <2>3
<1>4. AreSequences(seqs) /\ Len(seqs) = n
  <2>1. seqs \in [1..n -> Seq(Char)]
    BY <1>3
  <2> HIDE DEF seqs
  <2>2. seqs \in Seq(Seq(Char)) /\ Len(seqs) = n /\ \A k \in 1..n : seqs[k] \in Seq(Char)
    BY <1>1, <2>1
  <2> QED
    BY <2>2 DEF AreSequences, IsSequence
<1> HIDE DEF seqs, n
<1>5. IsSequence(p) /\ Len(p) \in Nat
  BY <1>2, <1>4, FlattenCut, SequenceIs
<1>0. PICK cut : CutInto(p, seqs, n, cut)
  BY <1>2, <1>4, FlattenCut
<1>6. /\ cut \in [0..n -> 0..Len(p)] /\ cut[0] = 0 /\ cut[n] = Len(p)
      /\ \A k \in 1..n : cut[k] = cut[k - 1] + Len(seqs[k]) /\ IsSequence(seqs[k])
      /\ \A k \in 1..n : \A i \in 1..Len(seqs[k]) : p[cut[k - 1] + i] = seqs[k][i]
  BY <1>0 DEF CutInto
<1>7. ASSUME NEW k \in 1..n
      PROVE  /\ k \in 0..n /\ k - 1 \in 0..n /\ Len(seqs[k]) \in Nat /\ cut[k] \in 0..Len(p) /\ cut[k - 1] \in 0..Len(p)
             /\ cut[k - 1] <= cut[k] /\ Piece(p, cut, k) = seqs[k]
  <2>1. k \in 0..n /\ k - 1 \in 0..n /\ Len(seqs[k]) \in Nat
    BY <1>1, <1>6, SequenceIs
  <2>2. cut[k] \in 0..Len(p) /\ cut[k - 1] \in 0..Len(p)
    BY <1>6, <2>1
  <2>3. cut[k - 1] <= cut[k]
    BY <1>5, <1>6, <2>1, <2>2
  <2>4. SubSeq(p, cut[k - 1] + 1, cut[k]) = seqs[k]
    <3> DEFINE l == cut[k - 1]
               m == cut[k]
               t == seqs[k]
    <3>1. l \in 0..Len(p) /\ m \in 0..Len(p)
      BY <2>2
    <3>2. m = l + Len(t) /\ IsSequence(t) /\ \A i \in 1..Len(t) : p[l + i] = t[i]
      BY <1>6
    <3> HIDE DEF l, m, t
    <3>3. SubSeq(p, l + 1, m) = t
      BY <1>5, <3>1, <3>2, BetweenCuts
    <3> QED
      BY <3>3 DEF l, m, t
  <2> QED
    BY <2>1, <2>2, <2>3, <2>4 DEF Piece
<1>8. ASSUME NEW k \in 1..n, IsParam(parts[k])
      PROVE  /\ Piece(p, cut, k) # <<>> /\ "/" \notin ToSet(Piece(p, cut, k))
             /\ cut[k] < Len(p) => p[cut[k] + 1] = "/"
  <2>1. Piece(p, cut, k) = args[parts[k].name]
    BY <1>3, <1>7, <1>8 DEF Filled
  <2>2. /\ args[parts[k].name] # <<>> /\ "/" \notin ToSet(args[parts[k].name])
        /\ k < n => ~IsParam(parts[k + 1]) /\ IsPrefix(<<"/">>, parts[k + 1].literal)
    BY <1>1, <1>8 DEF Plain, n
  <2>3. ASSUME cut[k] < Len(p) PROVE p[cut[k] + 1] = "/"
    <3>1. k # n
      BY <1>5, <1>6, <1>7, <2>3
    <3>2. k < n /\ k + 1 \in 1..n /\ k + 1 - 1 = k
      BY <1>1, <3>1
    <3>3. seqs[k + 1] = parts[k + 1].literal /\ IsPrefix(<<"/">>, seqs[k + 1]) /\ seqs[k + 1] \in Seq(Char)
      <4>1. seqs[k + 1] = Filled(parts[k + 1], args) /\ seqs[k + 1] \in Seq(Char)
        BY <1>3, <3>2
      <4>2. ~IsParam(parts[k + 1]) /\ IsPrefix(<<"/">>, parts[k + 1].literal)
        BY <2>2, <3>2
      <4>3. seqs[k + 1] = parts[k + 1].literal
        BY <4>1, <4>2 DEF Filled
      <4> QED
        BY <4>1, <4>2, <4>3
    <3>4. 1 \in 1..Len(seqs[k + 1]) /\ seqs[k + 1][1] = "/"
      <4> DEFINE t == seqs[k + 1]
      <4> HIDE DEF t
      <4>1. t \in Seq(Char) /\ 1 <= Len(t) /\ <<"/">> = SubSeq(t, 1, 1)
        <5>1. IsPrefix(<<"/">>, t) /\ t \in Seq(Char)
          BY <3>3 DEF t
        <5>2. Len(<<"/">>) = 1 /\ SubSeq(<<"/">>, 1, 1) = <<"/">>
          BY SequenceOne, Beginnings
        <5> QED
          BY <5>1, <5>2 DEF IsPrefix
      <4>2. SubSeq(t, 1, 1)[1] = t[1] /\ Len(t) \in Nat
        BY <4>1
      <4>3. 1 \in 1..Len(t) /\ t[1] = "/"
        BY <4>1, <4>2
      <4> QED
        BY <4>3 DEF t
    <3> QED
      BY <1>6, <3>2, <3>4
  <2> QED
    BY <2>1, <2>2, <2>3
<1>9. ASSUME NEW k \in 1..n, ~IsParam(parts[k]) PROVE Piece(p, cut, k) = parts[k].literal
  BY <1>3, <1>7, <1>9 DEF Filled
<1>10. Form(parts, p, cut)
  <2>1. cut[0] = 0 /\ cut[Len(parts)] = Len(p)
    BY <1>6 DEF n
  <2>2. \A k \in DOMAIN parts : cut[k - 1] <= cut[k]
    BY <1>1, <1>7
  <2> QED
    BY <1>1, <1>8, <1>9, <2>1, <2>2 DEF Form
<1>11. \A k \in DOMAIN parts : Piece(p, cut, k) = Filled(parts[k], args)
  BY <1>1, <1>3, <1>7
<1>12. cut \in Cuts(parts, p)
  BY <1>6 DEF Cuts, n
<1> QED
  BY <1>5, <1>10, <1>11, <1>12

(* From a place of a path, a part takes it to one other place at most.      *)
LEMMA TakesToOnePlace ==
  ASSUME NEW part, NEW p, IsSequence(p), NEW l \in 0..Len(p), NEW m \in 0..Len(p), NEW n \in 0..Len(p),
         Takes(part, p, l, m), Takes(part, p, l, n)
  PROVE  ~(m < n)
<1> SUFFICES ASSUME m < n PROVE FALSE
  OBVIOUS
<1>1. PICK T : p \in Seq(T)
  BY DEF IsSequence
<1>2. Len(p) \in Nat /\ l + 1 \in Nat \ {0} /\ l <= m /\ l <= n
  BY <1>1 DEF Takes
<1> DEFINE u == SubSeq(p, l + 1, m)
           v == SubSeq(p, l + 1, n)
<1>3. Len(u) = m - l /\ Len(v) = n - l /\ DOMAIN v = 1..(n - l) /\ \A k \in 1..(n - l) : v[k] = p[l + 1 + k - 1]
  BY <1>1, <1>2, SubText
<1> HIDE DEF u, v
<1>4. CASE IsParam(part)
  <2>1. "/" \notin ToSet(v) /\ p[m + 1] = "/"
    BY <1>2, <1>4 DEF Takes, v
  <2> DEFINE k == m - l + 1
  <2>2. k \in 1..(n - l) /\ l + 1 + k - 1 = m + 1
    BY <1>2
  <2>3. v[k] = "/"
    BY <1>3, <2>1, <2>2
  <2> HIDE DEF k
  <2> QED
    BY <1>3, <2>1, <2>2, <2>3 DEF ToSet
<1>5. CASE ~IsParam(part)
  <2>1. u = v
    BY <1>5 DEF Takes, u, v
  <2> QED
    BY <1>2, <1>3, <2>1
<1> QED
  BY <1>4, <1>5

LEMMA FormTakes ==
  ASSUME NEW parts \in Seq(Part), NEW p, NEW cut \in Cuts(parts, p)
  PROVE  Form(parts, p, cut) <=>
           /\ cut[0] = 0 /\ cut[Len(parts)] = Len(p)
           /\ \A k \in 1..Len(parts) : Takes(parts[k], p, cut[k - 1], cut[k])
<1>1. DOMAIN parts = 1..Len(parts)
  OBVIOUS
<1> QED
  BY <1>1 DEF Form, Takes, Piece

(* So a path can be cut into parts in one way.                              *)
LEMMA FormIsUnique ==
  ASSUME NEW parts \in Seq(Part), NEW p, IsSequence(p), NEW cut \in Cuts(parts, p), NEW other \in Cuts(parts, p),
         Form(parts, p, cut), Form(parts, p, other)
  PROVE  cut = other
<1> DEFINE n == Len(parts)
           S == {k \in Nat : k <= n => cut[k] = other[k]}
<1>0. /\ n \in Nat /\ cut \in [0..n -> 0..Len(p)] /\ other \in [0..n -> 0..Len(p)]
      /\ cut[0] = 0 /\ other[0] = 0
      /\ \A k \in 1..n : Takes(parts[k], p, cut[k - 1], cut[k]) /\ Takes(parts[k], p, other[k - 1], other[k])
  <2>1. n \in Nat /\ cut \in [0..n -> 0..Len(p)] /\ other \in [0..n -> 0..Len(p)]
    BY DEF Cuts
  <2>2. /\ cut[0] = 0 /\ \A k \in 1..n : Takes(parts[k], p, cut[k - 1], cut[k])
    BY FormTakes
  <2>3. /\ other[0] = 0 /\ \A k \in 1..n : Takes(parts[k], p, other[k - 1], other[k])
    BY FormTakes
  <2> QED
    BY <2>1, <2>2, <2>3
<1> HIDE DEF n
<1>1. 0 \in S
  BY <1>0
<1>2. ASSUME NEW k \in Nat, k \in S PROVE k + 1 \in S
  <2> SUFFICES ASSUME NEW q, q = k + 1, q <= n PROVE cut[q] = other[q]
    OBVIOUS
  <2>1. q \in 1..n /\ q \in 0..n /\ k \in 0..n /\ q - 1 = k
    BY <1>0
  <2> DEFINE l == cut[k]
             x == cut[q]
             y == other[q]
  <2>2. /\ l \in 0..Len(p) /\ x \in 0..Len(p) /\ y \in 0..Len(p)
        /\ Takes(parts[q], p, l, x) /\ Takes(parts[q], p, l, y)
    BY <1>0, <1>2, <2>1
  <2> HIDE DEF l, x, y
  <2>3. ~(x < y) /\ ~(y < x)
    BY <2>2, TakesToOnePlace
  <2>4. x = y
    BY <2>2, <2>3, SequenceIs
  <2> QED
    BY <2>4 DEF x, y
<1>3. \A k \in Nat : k \in S
  <2> HIDE DEF S
  <2> QED
    BY <1>1, <1>2, UpTo
<1>4. \A k \in 0..n : cut[k] = other[k]
  BY <1>0, <1>3
<1> QED
  BY <1>0, <1>4

(* A view that is given the pieces of a URL that was made of parts, is      *)
(* given what it was made of.                                               *)
LEMMA ReversedPieces ==
  ASSUME NEW parts \in Seq(Part), NEW args, AreTexts(args), Plain(parts, args), NEW p, p = Reversed(parts, args),
         NEW list, HasPieces(parts, p, list), NEW i \in DOMAIN list
  PROVE  list[i][2] = args[list[i][1]]
<1>1. /\ IsSequence(p)
      /\ \E cut \in Cuts(parts, p) :
              /\ Form(parts, p, cut)
              /\ \A k \in DOMAIN parts : Piece(p, cut, k) = Filled(parts[k], args)
  BY ReversedCut
<1>2. PICK cut \in Cuts(parts, p) :
              /\ Form(parts, p, cut)
              /\ \A k \in DOMAIN parts : Piece(p, cut, k) = Filled(parts[k], args)
  BY <1>1
<1>3. PICK other \in Cuts(parts, p) : PiecesIn(parts, p, other, list)
  BY DEF HasPieces
<1>4. other = cut
  BY <1>1, <1>2, <1>3, FormIsUnique DEF PiecesIn
<1> DEFINE name == list[i][1]
           places == {k \in DOMAIN parts : parts[k] = Param(name)}
           k == Max(places)
<1>5. list[i][2] = Piece(p, cut, k)
  BY <1>3, <1>4 DEF PiecesIn
<1>6. PICK j \in DOMAIN parts : IsParam(parts[j]) /\ parts[j].name = name
  <2>1. name \in {list[x][1] : x \in DOMAIN list}
    OBVIOUS
  <2>2. {list[x][1] : x \in DOMAIN list} = {parts[x].name : x \in {j \in DOMAIN parts : IsParam(parts[j])}}
    BY <1>3 DEF PiecesIn
  <2> HIDE DEF name
  <2>3. name \in {parts[x].name : x \in {j \in DOMAIN parts : IsParam(parts[j])}}
    BY <2>1, <2>2
  <2> QED
    BY <2>3
<1>7. parts[j] = Param(name)
  BY <1>6, ParamsOf
<1>8. places \in SUBSET (1..Len(parts)) /\ places # {} /\ Len(parts) \in Nat
  BY <1>6, <1>7
<1> HIDE DEF name
<1>9. k \in places
  <2> HIDE DEF places
  <2> QED
    BY <1>8, Highest
<1>10. k \in DOMAIN parts /\ parts[k] = Param(name)
  BY <1>9
<1> HIDE DEF k, places
<1>11. Filled(parts[k], args) = args[name]
  BY <1>10, ParamsOf DEF Filled
<1> QED
  BY <1>2, <1>5, <1>10, <1>11 DEF name

(* No chain begins with another one, so of two of them one is earlier.      *)
LEMMA ChainsDiffer ==
  ASSUME table \in Tables, NEW c \in Chains, NEW d \in Chains, \A k \in 1..Len(c) : k <= Len(d) => c[k] = d[k]
  PROVE  ~(Len(c) < Len(d))
<1> SUFFICES ASSUME Len(c) < Len(d) PROVE FALSE
  OBVIOUS
<1> DEFINE n == Len(c)
<1>1. n \in Nat \ {0} /\ Len(d) \in Nat /\ Through(c)[n] = None
  BY ChainIs
<1>2. n + 1 \in 1..Len(d) /\ n + 1 - 1 = n /\ n \in 0..n /\ n <= Len(d) /\ \A k \in 1..n : c[k] = d[k]
  BY <1>1
<1>3. Through(d)[n] \in DOMAIN table
  BY <1>2, ChainIs
<1>4. Through(c)[n] = Through(d)[n]
  BY <1>1, <1>2, ThroughBeginning
<1> QED
  BY <1>1, <1>3, <1>4, TableIs

LEMMA ChainsAreOrdered ==
  ASSUME table \in Tables, NEW c \in Chains, NEW d \in Chains, c # d
  PROVE  Earlier(c, d) \/ Earlier(d, c)
<1>0. ASSUME NEW e \in Chains
      PROVE  IsSequence(e) /\ Len(e) \in Nat /\ DOMAIN e = 1..Len(e) /\ \A k \in 1..Len(e) : e[k] \in Nat
  <2>1. IsSequence(e)
    BY ChainIs
  <2>2. Len(e) \in Nat /\ DOMAIN e = 1..Len(e)
    BY <2>1, SequenceIs
  <2>3. \A k \in 1..Len(e) : e[k] \in Nat
    BY ChainNumbers
  <2> QED
    BY <2>1, <2>2, <2>3
<1>1. /\ IsSequence(c) /\ IsSequence(d) /\ Len(c) \in Nat /\ Len(d) \in Nat
      /\ DOMAIN c = 1..Len(c) /\ DOMAIN d = 1..Len(d)
      /\ \A k \in 1..Len(c) : c[k] \in Nat
      /\ \A k \in 1..Len(d) : d[k] \in Nat
  BY <1>0
<1> DEFINE S == {k \in DOMAIN c \cap DOMAIN d : c[k] # d[k]}
<1>2. CASE S = {}
  <2>1. /\ \A k \in 1..Len(c) : k <= Len(d) => c[k] = d[k]
        /\ \A k \in 1..Len(d) : k <= Len(c) => d[k] = c[k]
    <3>1. \A k \in DOMAIN c \cap DOMAIN d : c[k] = d[k]
      BY <1>2
    <3>2. /\ \A k \in 1..Len(c) : k <= Len(d) => k \in DOMAIN c \cap DOMAIN d
          /\ \A k \in 1..Len(d) : k <= Len(c) => k \in DOMAIN c \cap DOMAIN d
      <4>1. Len(c) \in Nat /\ Len(d) \in Nat /\ DOMAIN c = 1..Len(c) /\ DOMAIN d = 1..Len(d)
        BY <1>1
      <4> QED
        BY <4>1, SMTT(30)
    <3> QED
      BY <3>1, <3>2
  <2> HIDE DEF S
  <2>2. ~(Len(c) < Len(d)) /\ ~(Len(d) < Len(c))
    BY <2>1, ChainsDiffer
  <2>3. Len(c) = Len(d)
    <3>1. Len(c) \in Nat /\ Len(d) \in Nat
      BY <1>1
    <3> QED
      BY <2>2, <3>1
  <2>4. c = d
    BY <1>1, <2>1, <2>3, SequenceSame
  <2> QED
    BY <2>4
<1>3. CASE S # {}
  <2>1. S \subseteq Nat
    BY <1>1
  <2>2. PICK m \in S : \A k \in S : m <= k
    BY <1>3, <2>1, Least
  <2>3. m \in DOMAIN c \cap DOMAIN d /\ c[m] # d[m] /\ m \in Nat /\ c[m] \in Nat /\ d[m] \in Nat
    BY <1>1, <2>2
  <2>4. \A j \in 1..(m - 1) : c[j] = d[j]
    <3> TAKE j \in 1..(m - 1)
    <3>1. j \in DOMAIN c \cap DOMAIN d /\ ~(m <= j)
      BY <1>1, <2>3
    <3> QED
      BY <2>2, <3>1
  <2>5. c[m] < d[m] \/ d[m] < c[m]
    BY <2>3
  <2> HIDE DEF S
  <2> QED
    BY <2>3, <2>4, <2>5 DEF Earlier
<1> QED
  BY <1>2, <1>3

(* A path that was made for a chain leads to it, or to one before it.       *)
LEMMA MadeForChain ==
  ASSUME table \in Tables, Matching, NEW d \in Chains, NEW args, AreTexts(args), Plain(PartsOf(d), args),
         path = Reversed(PartsOf(d), args)
  PROVE  Fits(PartsOf(d), path) /\ PartsOf(d) \in Seq(Part)
<1>1. PartsOf(d) \in Seq(Part)
  <2>1. PICK h : Together(d, h)
    BY PatternsOfChain
  <2> QED
    BY <2>1, ChainIs DEF Together
<1>2. \E cut \in Cuts(PartsOf(d), path) : Form(PartsOf(d), path, cut)
  BY <1>1, ReversedCut
<1> QED
  BY <1>1, <1>2 DEF Fits

(* The chain that reverse was asked for and found, and its URL.             *)
MadeFor(found, p) ==
  /\ found.chain \in Chains /\ AreTexts(found.args)
  /\ p = Reversed(PartsOf(found.chain), found.args)

LEMMA MadeLeadsBack ==
  ASSUME IInv, ParamsAreThePieces, pc \in {"found", "not_found"} /\ asked # None => MadeFor(asked, path)
  PROVE  LeadsBack
<1> SUFFICES ASSUME Reached
             PROVE  /\ pc = "found"
                    /\ \/ Earlier(Chain, asked.chain)
                       \/ /\ Chain = asked.chain
                          /\ \A i \in DOMAIN params : params[i][2] = asked.args[params[i][1]]
  BY DEF LeadsBack
<1> DEFINE d == asked.chain
           args == asked.args
<1>1. /\ table \in Tables /\ Matching /\ pc \in {"found", "not_found"} /\ Plain(PartsOf(d), args)
      /\ MadeFor(asked, path)
  BY DEF IInv, Reached
<1>2. d \in Chains /\ AreTexts(args) /\ path = Reversed(PartsOf(d), args)
  BY <1>1 DEF MadeFor
<1> HIDE DEF d, args
<1>3. Fits(PartsOf(d), path) /\ PartsOf(d) \in Seq(Part)
  BY <1>1, <1>2, MadeForChain
<1>4. pc = "found" /\ Chain \in Chains /\ ~Earlier(d, Chain)
  BY <1>1, <1>2, <1>3 DEF IInv, FoundIsFirst
<1>5. CASE Chain = d
  <2>1. HasPieces(PartsOf(d), path, params)
    BY <1>4, <1>5, ParamsArePieces
  <2>2. \A i \in DOMAIN params : params[i][2] = args[params[i][1]]
    BY <1>1, <1>2, <1>3, <2>1, ReversedPieces
  <2> QED
    BY <1>4, <1>5, <2>2 DEF d, args
<1>6. CASE Chain # d
  <2>1. Earlier(Chain, d)
    BY <1>1, <1>2, <1>4, <1>6, ChainsAreOrdered
  <2> QED
    BY <1>4, <2>1 DEF d
<1> QED
  BY <1>5, <1>6

(* The frames, when the last one is said to be at another route.            *)
LEMMA FramesPointed ==
  ASSUME table \in Tables, NEW fs, Frames(fs), NEW m \in DOMAIN table[Last(fs).router],
         table[Last(fs).router][m].router = None
  PROVE  [Ats(fs) EXCEPT ![Len(fs)] = m] \in Chains
<1> DEFINE n == Len(fs)
           f == fs[n]
           g == [router |-> f.router, at |-> m, rest |-> f.rest, taken |-> f.taken]
           gs == Changed(fs, n, g)
<1>0. /\ n \in Nat \ {0} /\ n \in 1..n /\ IsSequence(fs) /\ Last(fs) = f /\ IsFrame(f) /\ f.router \in DOMAIN table
      /\ \A k \in 1..n : k # n => k \in 1..(n - 1)
  BY SequenceIs DEF Frames, IsFrame, Last
<1>1. Len(table[f.router]) \in Nat /\ m \in 1..Len(table[f.router])
  BY <1>0, TableIs
<1>2. g.router = f.router /\ g.at = m /\ g.rest = f.rest /\ g.taken = f.taken
  OBVIOUS
<1>3. g \in [router : DOMAIN table, at : Nat, rest : {g.rest}, taken : {g.taken}]
  BY <1>0, <1>1
<1> HIDE DEF g
<1>4. IsFrame(g)
  BY <1>1, <1>2, <1>3 DEF IsFrame
<1>5. IsSequence(gs) /\ Len(gs) = n /\ gs[n] = g /\ \A k \in 1..n : k # n => gs[k] = fs[k]
  BY <1>0, SequenceChanged
<1> HIDE DEF gs
<1>6. ASSUME NEW k \in 1..n PROVE IsFrame(gs[k]) /\ gs[k].router = fs[k].router
  <2>1. CASE k = n
    BY <1>2, <1>4, <1>5, <2>1
  <2>2. CASE k # n
    BY <1>5, <2>2 DEF Frames
  <2> QED
    BY <2>1, <2>2
<1>7. ASSUME NEW k \in 1..(n - 1) PROVE LeadsTo(gs[k], gs[k + 1])
  <2>1. k \in 1..n /\ k # n /\ k + 1 \in 1..n
    BY <1>0
  <2>2. gs[k] = fs[k] /\ gs[k + 1].router = fs[k + 1].router
    BY <1>5, <1>6, <2>1
  <2>3. LeadsTo(fs[k], fs[k + 1])
    BY DEF Frames
  <2> QED
    BY <2>2, <2>3 DEF LeadsTo
<1>8. gs[1].router = 1
  BY <1>0, <1>6 DEF Frames
<1>9. Frames(gs)
  BY <1>0, <1>5, <1>6, <1>7, <1>8 DEF Frames
<1>10. Last(gs) = g /\ RouteOf(g).router = None /\ g.at \in DOMAIN table[g.router]
  BY <1>0, <1>2, <1>5 DEF Last, RouteOf
<1>11. Ats(gs) \in Chains
  BY <1>9, <1>10, FramesAreChain
<1> DEFINE c == Changed(Ats(fs), n, m)
<1>12. IsSequence(Ats(fs)) /\ Len(Ats(fs)) = n /\ \A k \in 1..n : Ats(fs)[k] = fs[k].at
  BY <1>0, AtsIs
<1>13. IsSequence(c) /\ Len(c) = n /\ c[n] = m /\ \A k \in 1..n : k # n => c[k] = Ats(fs)[k]
  BY <1>0, <1>12, SequenceChanged
<1> HIDE DEF c
<1>14. IsSequence(Ats(gs)) /\ Len(Ats(gs)) = n /\ \A k \in 1..n : Ats(gs)[k] = gs[k].at
  BY <1>5, AtsIs
<1>15. ASSUME NEW k \in 1..n PROVE c[k] = Ats(gs)[k]
  <2>1. CASE k = n
    BY <1>2, <1>5, <1>13, <1>14, <2>1
  <2>2. CASE k # n
    BY <1>5, <1>12, <1>13, <1>14, <2>2
  <2> QED
    BY <2>1, <2>2
<1>16. c = Ats(gs)
  BY <1>13, <1>14, <1>15, SequenceSame
<1> QED
  BY <1>11, <1>16 DEF c, Changed

(* What reverse was asked for, and what it made.                            *)
Asking(found) == \E name \in Name, args \in Args : found = [name |-> name, args |-> args, chain |-> <<>>]
AInv ==
  /\ pc \in {"start", "panicked", "ready"} => asked = None
  /\ pc = "reverse" => Asking(asked)
  /\ pc \in {"url", "get_handler", "found", "not_found"} /\ asked # None => MadeFor(asked, path)

LEMMA MadeStays ==
  ASSUME table' = table, matchers' = matchers
  PROVE  MadeFor(asked, path)' <=> MadeFor(asked', path')
BY DEF MadeFor, AreTexts, Chains, PartsOf, Through, Reversed

LEMMA AInvNext ==
  ASSUME AInv, table' = table, matchers' = matchers, asked' = asked, path' = path \/ asked = None,
         pc' \notin {"start", "ready", "panicked"}, pc' # "reverse" \/ pc = "reverse",
         pc' \in {"url", "get_handler", "found", "not_found"} => pc \in {"ready", "url", "get_handler"}
  PROVE  AInv'
<1>1. pc' \in {"url", "get_handler", "found", "not_found"} /\ asked' # None => MadeFor(asked', path')
  BY DEF AInv
<1> QED
  BY <1>1, MadeStays DEF AInv, Asking

(* The route that has the name, below the ones that lead there.             *)
LEMMA ReverseNamedAInv ==
  ASSUME IInv, AInv, ReverseNamed
  PROVE  AInv'
<1>1. /\ pc = "reverse" /\ table' = table /\ matchers' = matchers /\ table \in Tables /\ Frames(frames)
      /\ Named # {} /\ pc' \in {"url", "missing"}
  BY DEF IInv, ReverseNamed
<1>2. PICK name \in Name, args \in Args : asked = [name |-> name, args |-> args, chain |-> <<>>]
  BY <1>1 DEF AInv, Asking
<1>3. /\ depth = Len(frames) /\ Top = Last(frames) /\ Top.router \in DOMAIN table
      /\ Len(table[Top.router]) \in Nat /\ DOMAIN table[Top.router] = 1..Len(table[Top.router])
  BY <1>1, TopIs DEF depth
<1> DEFINE m == Max(Named)
           c == [Chain EXCEPT ![depth] = m]
<1>4. m \in DOMAIN table[Top.router] /\ table[Top.router][m].name = name
  <2>1. Named \in SUBSET (1..Len(table[Top.router]))
    BY <1>3 DEF Named
  <2>2. m \in Named
    BY <1>1, <1>3, <2>1, Highest
  <2> HIDE DEF m
  <2> QED
    BY <1>2, <2>2 DEF Named
<1> HIDE DEF m
<1>5. table[Top.router][m].router = None
  <2>1. name # None
    BY TablesAssumption
  <2>2. \A r \in DOMAIN table : \A i \in DOMAIN table[r] : table[r][i].router # None => table[r][i].name = None
    BY <1>1, TablesAssumption DEF IsTable
  <2> QED
    BY <1>3, <1>4, <2>1, <2>2
<1>6. c \in Chains
  BY <1>1, <1>3, <1>4, <1>5, FramesPointed, ChainIsAts
<1>7. /\ asked' = [asked EXCEPT !.chain = c]
      /\ pc' = "url" => path' = Reversed(Url(c), asked.args)
  BY <1>1 DEF ReverseNamed, m
<1> HIDE DEF c
<1>8. asked'.chain = c /\ asked'.args = args /\ asked.args = args
  BY <1>2, <1>7
<1>9. AreTexts(args)
  BY ArgsAssumption DEF AreTexts
<1>10. pc' = "url" => MadeFor(asked', path')
  BY <1>6, <1>7, <1>8, <1>9 DEF MadeFor, Url
<1> QED
  BY <1>1, <1>10, MadeStays DEF AInv

-----------------------------------------------------------------------------
(* A URL that reverse made leads back to the view that it was made for,     *)
(* with the parameters it was made of, unless a route before takes the same *)
(* path: reverse_option and get_handler fit together.                       *)
THEOREM RouterLeadsBack == Spec => []LeadsBack
<1>1. Init => AInv
  BY DEF Init, AInv
<1>2. IInv /\ AInv /\ [Next]_vars => AInv'
  <2> SUFFICES ASSUME IInv, AInv, [Next]_vars PROVE AInv'
    OBVIOUS
  <2>1. CASE Register
    <3>1. pc = "start" /\ pc' \in {"ready", "panicked"} /\ asked' = asked
      BY <2>1 DEF Register
    <3> QED
      BY <3>1 DEF AInv
  <2>2. ASSUME NEW name \in Name, NEW args \in Args, ReverseOption(name, args) PROVE AInv'
    <3>1. pc' = "reverse" /\ asked' = [name |-> name, args |-> args, chain |-> <<>>]
      BY <2>2 DEF ReverseOption
    <3> QED
      BY <3>1 DEF AInv, Asking
  <2>3. ASSUME NEW p \in Paths \cup {path}, Handle(p) PROVE AInv'
    <3>1. /\ pc \in {"ready", "url"} /\ pc' = "get_handler" /\ table' = table /\ matchers' = matchers
          /\ asked' = asked /\ path' = p
          /\ pc = "url" => p = path
      BY <2>3 DEF Handle
    <3>2. path' = path \/ asked = None
      BY <2>3, <3>1 DEF AInv, Handle
    <3> QED
      BY <3>1, <3>2, AInvNext
  <2>4. CASE ReverseNamed
    BY <2>4, ReverseNamedAInv
  <2>5. CASE ReverseRoute \/ ReverseReturn
    <3>1. /\ pc = "reverse" /\ pc' \in {"reverse", "no_view"} /\ table' = table /\ matchers' = matchers
          /\ asked' = asked /\ path' = path
      BY <2>5 DEF ReverseRoute, ReverseReturn, Return
    <3> QED
      BY <3>1, AInvNext
  <2>6. CASE HandleRoute \/ HandleReturn
    <3>1. /\ pc = "get_handler" /\ pc' \in {"get_handler", "found", "not_found"} /\ table' = table
          /\ matchers' = matchers /\ asked' = asked /\ path' = path
      BY <2>6 DEF HandleRoute, HandleReturn, Return
    <3> QED
      BY <3>1, AInvNext
  <2>7. CASE UNCHANGED vars
    <3>1. /\ table' = table /\ matchers' = matchers /\ pc' = pc /\ asked' = asked /\ path' = path
      BY <2>7 DEF vars
    <3> QED
      BY <3>1, MadeStays DEF AInv, Asking
  <2> QED
    BY <2>1, <2>2, <2>3, <2>4, <2>5, <2>6, <2>7 DEF Next, Start, Iterate
<1>3. IInv /\ AInv /\ ParamsAreThePieces => LeadsBack
  BY MadeLeadsBack DEF AInv
<1> QED
  BY <1>1, <1>2, <1>3, IInvAlways, RouterGivesThePieces, PTL DEF Spec
==============================================================================
