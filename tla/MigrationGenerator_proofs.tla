---------------------- MODULE MigrationGenerator_proofs ----------------------
(***************************************************************************)
(* What make-migrations writes, proved: its files can be applied, lead to  *)
(* the source, declare what they need, and are written unless something    *)
(* was removed or foreign keys go around three models or more.             *)
(*                                                                         *)
(* The invariant follows the operations through a run.  Delta: together    *)
(* they hold what the source has and the files do not, once; taking a      *)
(* foreign key out of a CreateModel changes nothing about that.  Broken:   *)
(* two models that reference each other do so over an edge that            *)
(* remove_cycles has yet to break.  When it is through, a set of           *)
(* operations without an order would be a long cycle (OrderOrKnot,         *)
(* KnotIsLongCycle), and in an order each operation finds what it needs    *)
(* (OrderApplies).                                                         *)
(*                                                                         *)
(* All of it is for models without a table_name of their own: the copies   *)
(* in the files have the name of their type for a table, so the next run   *)
(* would not find a model of another name among them.                      *)
(***************************************************************************)
EXTENDS MigrationGenerator, FiniteSetTheorems, WellFoundedInduction, TLAPS

-----------------------------------------------------------------------------
(* Facts about numbers and finite sets.                                     *)
LEMMA Least ==
  ASSUME NEW S, S \subseteq Nat, S # {}
  PROVE  \E n \in S : \A k \in S : n <= k
<1> DEFINE R == {ss \in Nat \X Nat : ss[1] < ss[2]}
<1>1. IsWellFoundedOn(R, Nat)
  BY NatLessThanWellFounded DEF OpToRel
<1>2. \A x, y \in Nat : <<x, y>> \in R <=> x < y
  OBVIOUS
<1> HIDE DEF R
<1>3. PICK n \in S : \A k \in S : <<k, n>> \notin R
  BY <1>1, WFMin
<1>4. \A k \in S : ~(k < n)
  BY <1>2, <1>3
<1> QED
  BY <1>4

LEMMA UpTo ==
  ASSUME NEW S, 0 \in S, \A n \in Nat : n \in S => n + 1 \in S
  PROVE  \A n \in Nat : n \in S
<1> SUFFICES ASSUME Nat \ S # {} PROVE FALSE
  OBVIOUS
<1>1. PICK n \in Nat \ S : \A k \in Nat \ S : n <= k
  BY Least
<1>2. n # 0 /\ n - 1 \in Nat
  BY <1>1
<1>3. n - 1 \in S
  BY <1>1, <1>2
<1> QED
  BY <1>1, <1>2, <1>3

(* A set of numbers that has a bound has a greatest.                        *)
LEMMA Greatest ==
  ASSUME NEW S, S \subseteq Nat, S # {}, NEW bound \in Nat, \A k \in S : k <= bound
  PROVE  \E n \in S : \A k \in S : k <= n
<1> DEFINE D == {bound - k : k \in S}
<1>1. D \subseteq Nat /\ D # {}
  <2>1. \A k \in S : k \in Nat /\ k <= bound /\ bound - k \in Nat
    OBVIOUS
  <2> QED
    BY <2>1
<1>2. PICK d \in D : \A e \in D : d <= e
  BY <1>1, Least
<1>3. PICK n \in S : d = bound - n
  OBVIOUS
<1>4. \A k \in S : d <= bound - k
  BY <1>2
<1> QED
  BY <1>3, <1>4

(* SetToSeqs lists each element once.                                       *)
LEMMA ListsAll ==
  ASSUME NEW S, IsFiniteSet(S), NEW order \in SetToSeqs(S)
  PROVE  /\ Cardinality(S) \in Nat /\ DOMAIN order = 1..Cardinality(S)
         /\ order \in Seq(S) /\ Len(order) = Cardinality(S)
         /\ \A j, k \in DOMAIN order : order[j] = order[k] => j = k
         /\ \A o \in S : \E j \in DOMAIN order : order[j] = o
<1> DEFINE n == Cardinality(S)
<1>1. n \in Nat
  BY FS_CardinalityType
<1>2. order \in [1..n -> S] /\ \A j, k \in 1..n : j # k => order[j] # order[k]
  BY DEF SetToSeqs
<1>3. IsFiniteSet(1..n) /\ Cardinality(1..n) = n
  BY <1>1, FS_Interval
<1>4. order \in Injection(1..n, S)
  BY <1>2 DEF Injection, IsInjective
<1>5. order \in Surjection(1..n, S)
  BY <1>3, <1>4, FS_Injection
<1>6. \A o \in S : \E j \in 1..n : order[j] = o
  BY <1>5 DEF Surjection
<1> HIDE DEF n
<1>7. order \in Seq(S) /\ Len(order) = n
  BY <1>1, <1>2
<1> QED
  BY <1>1, <1>2, <1>6, <1>7 DEF n

(* The elements of a finite set have an order in which each follows those   *)
(* that have an edge to it, or some of them all have one from one another.  *)
Begins(order, n, S, E) ==
  /\ order \in [1..n -> S]
  /\ \A j, k \in 1..n : j # k => order[j] # order[k]
  /\ \A k \in 1..n : \A o \in S : <<o, order[k]>> \in E => \E j \in 1..(k - 1) : order[j] = o

LEMMA OrderOrKnot ==
  ASSUME NEW S, IsFiniteSet(S), NEW E
  PROVE  \/ \E order \in SetToSeqs(S) :
              \A j, k \in DOMAIN order : <<order[j], order[k]>> \in E => j < k
         \/ \E W \in SUBSET S : W # {} /\ \A o \in W : \E p \in W : <<p, o>> \in E
<1> DEFINE N == Cardinality(S)
           Lengths == {n \in Nat : \E order : Begins(order, n, S, E)}
<1>1. N \in Nat
  BY FS_CardinalityType
<1>2. 0 \in Lengths
  <2> DEFINE none == [k \in 1..0 |-> k]
  <2>1. 1..0 = {}
    OBVIOUS
  <2>2. none \in [1..0 -> S]
    BY <2>1
  <2>3. Begins(none, 0, S, E)
    BY <2>1, <2>2 DEF Begins
  <2> QED
    BY <2>3
<1>3. ASSUME NEW n \in Lengths PROVE n <= N
  <2>1. PICK order : Begins(order, n, S, E)
    OBVIOUS
  <2>2. order \in Injection(1..n, S)
    <3>1. order \in [1..n -> S]
      BY <2>1 DEF Begins
    <3> QED
      BY <2>1, <3>1 DEF Begins, Injection, IsInjective
  <2>3. Cardinality(1..n) = n
    BY FS_Interval
  <2> QED
    BY <2>2, <2>3, FS_Injection
<1>4. PICK n \in Lengths : \A k \in Lengths : k <= n
  <2>1. Lengths \subseteq Nat /\ Lengths # {}
    BY <1>2
  <2> HIDE DEF Lengths, N
  <2> QED
    BY <1>1, <1>3, <2>1, Greatest
<1>5. PICK order : Begins(order, n, S, E)
  OBVIOUS
<1>6. n \in Nat
  OBVIOUS
<1> DEFINE W == {o \in S : \A j \in 1..n : order[j] # o}
<1>7. CASE n = N
  <2>1. order \in SetToSeqs(S)
    <3>1. order \in [1..N -> S]
      BY <1>5, <1>7 DEF Begins
    <3> QED
      BY <1>5, <1>7, <3>1 DEF Begins, SetToSeqs
  <2>2. ASSUME NEW j \in DOMAIN order, NEW k \in DOMAIN order, <<order[j], order[k]>> \in E
        PROVE  j < k
    <3>1. j \in 1..n /\ k \in 1..n /\ order[j] \in S
      BY <1>5 DEF Begins
    <3>2. PICK i \in 1..(k - 1) : order[i] = order[j]
      BY <1>5, <2>2, <3>1 DEF Begins
    <3>3. i \in 1..n
      BY <1>6, <3>1
    <3>4. i = j
      BY <1>5, <3>1, <3>2, <3>3 DEF Begins
    <3> QED
      BY <3>1, <3>2, <3>4
  <2> QED
    BY <2>1, <2>2
<1>8. CASE n # N
  <2>1. W # {}
    <3> SUFFICES ASSUME W = {} PROVE FALSE
      OBVIOUS
    <3>1. order \in [1..n -> S] /\ \A o \in S : \E j \in 1..n : order[j] = o
      BY <1>5 DEF Begins
    <3>2. order \in Surjection(1..n, S)
      BY <3>1 DEF Surjection
    <3>3. IsFiniteSet(1..n) /\ Cardinality(1..n) = n
      BY <1>6, FS_Interval
    <3>4. N <= n
      BY <3>2, <3>3, FS_Surjection
    <3> QED
      BY <1>1, <1>3, <1>6, <1>8, <3>4
  <2>2. ASSUME NEW o \in W PROVE \E p \in W : <<p, o>> \in E
    <3> SUFFICES ASSUME \A p \in W : <<p, o>> \notin E PROVE FALSE
      OBVIOUS
    <3> DEFINE longer == [k \in 1..(n + 1) |-> IF k = n + 1 THEN o ELSE order[k]]
    <3>0. \A k \in 1..(n + 1) : k \in 1..n \/ k = n + 1
      BY <1>6
    <3>9. longer \in [1..(n + 1) -> S]
      BY <1>5, <3>0 DEF Begins
    <3>1. /\ longer[n + 1] = o
          /\ \A k \in 1..n : longer[k] = order[k] /\ k # n + 1
          /\ \A k \in 1..(n + 1) : k \in 1..n \/ k = n + 1
      BY <1>6
    <3> HIDE DEF longer
    <3>2. o \in S /\ \A j \in 1..n : order[j] # o
      OBVIOUS
    <3>4. \A j, k \in 1..(n + 1) : j # k => longer[j] # longer[k]
      BY <1>5, <3>1, <3>2 DEF Begins
    <3>5. ASSUME NEW k \in 1..(n + 1), NEW p \in S, <<p, longer[k]>> \in E
          PROVE  \E j \in 1..(k - 1) : longer[j] = p
      <4>1. CASE k = n + 1
        <5>1. p \notin W
          BY <3>1, <3>5, <4>1
        <5>2. PICK j \in 1..n : order[j] = p
          BY <5>1
        <5>3. j \in 1..(k - 1) /\ longer[j] = p
          BY <1>6, <3>1, <4>1, <5>2
        <5> QED
          BY <5>3
      <4>2. CASE k # n + 1
        <5>1. k \in 1..n /\ longer[k] = order[k]
          BY <3>1, <4>2
        <5>2. PICK j \in 1..(k - 1) : order[j] = p
          BY <1>5, <3>5, <5>1 DEF Begins
        <5>3. j \in 1..n
          BY <1>6, <5>1
        <5> QED
          BY <3>1, <5>2, <5>3
      <4> QED
        BY <4>1, <4>2
    <3>6. Begins(longer, n + 1, S, E)
      BY <3>9, <3>4, <3>5 DEF Begins
    <3>7. n + 1 \in Lengths
      BY <1>6, <3>6
    <3>8. n + 1 <= n
      BY <1>4, <3>7
    <3> QED
      BY <1>6, <3>8
  <2>3. W \in SUBSET S
    OBVIOUS
  <2> QED
    BY <2>1, <2>2, <2>3
<1> QED
  BY <1>7, <1>8

-----------------------------------------------------------------------------
(* FlattenSeq, sequence by sequence.                                        *)
Joined(seqs, joined, k) == IF k = 1 THEN seqs[k] ELSE joined[k - 1] \o seqs[k]

LEMMA FlattenParts ==
  ASSUME NEW n \in Nat \ {0}, NEW seqs, DOMAIN seqs = 1..n, Len(seqs) = n
  PROVE  \E f : /\ f[1] = seqs[1]
                /\ \A k \in 2..n : f[k] = f[k - 1] \o seqs[k]
                /\ FlattenSeq(seqs) = f[n]
<1> DEFINE Goes(m) == \E f : f = [k \in 1..m |-> Joined(seqs, f, k)]
           S == {m \in Nat : Goes(m)}
           F == CHOOSE f : f = [k \in 1..n |-> Joined(seqs, f, k)]
<1>1. 0 \in S
  <2> DEFINE c == [k \in 1..0 |-> seqs[k]]
  <2>1. 1..0 = {}
    OBVIOUS
  <2>2. c = [k \in 1..0 |-> Joined(seqs, c, k)]
    BY <2>1
  <2> HIDE DEF c
  <2>3. Goes(0)
    BY <2>2
  <2> HIDE DEF Goes
  <2> QED
    BY <2>3
<1>2. ASSUME NEW m \in Nat, m \in S PROVE m + 1 \in S
  <2>1. PICK c : c = [k \in 1..m |-> Joined(seqs, c, k)]
    BY <1>2
  <2> DEFINE d == [k \in 1..(m + 1) |-> Joined(seqs, c, k)]
  <2>2. ASSUME NEW k \in 1..(m + 1) PROVE Joined(seqs, d, k) = Joined(seqs, c, k)
    <3>1. CASE k = 1
      BY <3>1 DEF Joined
    <3>2. CASE k # 1
      <4>1. k - 1 \in 1..m /\ k - 1 \in 1..(m + 1)
        BY <3>2
      <4>2. d[k - 1] = c[k - 1]
        BY <2>1, <4>1
      <4> HIDE DEF d
      <4> QED
        BY <3>2, <4>2 DEF Joined
    <3> QED
      BY <3>1, <3>2
  <2>3. d = [k \in 1..(m + 1) |-> Joined(seqs, d, k)]
    BY <2>2
  <2> HIDE DEF d
  <2>4. Goes(m + 1)
    BY <2>3
  <2> HIDE DEF Goes
  <2> QED
    BY <2>4
<1> HIDE DEF S
<1>3. n \in S
  BY <1>1, <1>2, UpTo
<1>4. Goes(n)
  BY <1>3 DEF S
<1>5. F = [k \in 1..n |-> Joined(seqs, F, k)]
  BY <1>4
<1>6. FlattenSeq(seqs) = F[n]
  BY DEF FlattenSeq, Joined
<1> HIDE DEF F
<1>7. /\ \A k \in 1..n : F[k] = Joined(seqs, F, k)
      /\ 1 \in 1..n /\ \A k \in 2..n : k \in 1..n /\ k # 1
  BY <1>5
<1>8. F[1] = seqs[1] /\ \A k \in 2..n : F[k] = F[k - 1] \o seqs[k]
  BY <1>7 DEF Joined
<1> QED
  BY <1>6, <1>8

(* A sequence more at the end.                                              *)
LEMMA FlattenAppend ==
  ASSUME NEW n \in Nat, NEW seqs, DOMAIN seqs = 1..n, Len(seqs) = n, n = 0 => seqs = <<>>,
         NEW more, DOMAIN more = 1..(n + 1), Len(more) = n + 1, \A k \in 1..n : more[k] = seqs[k],
         NEW Elem, more[n + 1] \in Seq(Elem)
  PROVE  FlattenSeq(more) = FlattenSeq(seqs) \o more[n + 1]
<1>1. PICK g : /\ g[1] = more[1]
               /\ \A k \in 2..(n + 1) : g[k] = g[k - 1] \o more[k]
               /\ FlattenSeq(more) = g[n + 1]
  <2>1. n + 1 \in Nat \ {0}
    OBVIOUS
  <2> QED
    BY <2>1, FlattenParts, ZenonT(30)
<1>2. CASE n = 0
  <2>1. FlattenSeq(seqs) = <<>>
    BY <1>2 DEF FlattenSeq
  <2>2. FlattenSeq(more) = more[n + 1]
    BY <1>1, <1>2
  <2> QED
    BY <2>1, <2>2
<1>3. CASE n # 0
  <2>1. PICK f : /\ f[1] = seqs[1]
                 /\ \A k \in 2..n : f[k] = f[k - 1] \o seqs[k]
                 /\ FlattenSeq(seqs) = f[n]
    <3>1. n \in Nat \ {0}
      BY <1>3
    <3>2. DOMAIN seqs = 1..n /\ Len(seqs) = n
      OBVIOUS
    <3> QED
      BY <3>1, <3>2, FlattenParts, Zenon
  <2> DEFINE S == {k \in Nat : k + 1 <= n => g[k + 1] = f[k + 1]}
  <2>2. 0 \in S
    BY <1>1, <2>1, <1>3
  <2>3. ASSUME NEW k \in Nat, k \in S PROVE k + 1 \in S
    <3> SUFFICES ASSUME k + 1 + 1 <= n PROVE g[k + 1 + 1] = f[k + 1 + 1]
      OBVIOUS
    <3> DEFINE l == k + 1 + 1
    <3>1. l \in 2..n /\ l \in 2..(n + 1) /\ l - 1 = k + 1 /\ k + 1 <= n /\ l \in 1..n
      OBVIOUS
    <3>2. g[k + 1] = f[k + 1]
      BY <2>3, <3>1
    <3> HIDE DEF l
    <3>3. g[l] = g[l - 1] \o more[l] /\ f[l] = f[l - 1] \o seqs[l] /\ more[l] = seqs[l]
      BY <1>1, <2>1, <3>1
    <3> QED
      BY <3>1, <3>2, <3>3 DEF l
  <2> HIDE DEF S
  <2>4. n - 1 \in Nat /\ n - 1 + 1 = n
    BY <1>3
  <2>5. n - 1 \in S
    BY <2>2, <2>3, <2>4, UpTo
  <2>6. g[n] = f[n]
    BY <2>4, <2>5 DEF S
  <2>8. g[n + 1] = g[n] \o more[n + 1]
    <3> DEFINE l == n + 1
    <3>1. l \in 2..(n + 1) /\ l - 1 = n
      BY <1>3
    <3> HIDE DEF l
    <3>2. g[l] = g[l - 1] \o more[l]
      BY <1>1, <3>1
    <3> QED
      BY <3>1, <3>2 DEF l
  <2> QED
    BY <1>1, <2>1, <2>6, <2>8
<1> QED
  BY <1>2, <1>3

-----------------------------------------------------------------------------
(* The invariant.  What a run of make-migrations works on: the operations   *)
(* that are under way are what the source has and the files do not.         *)
Column == Plain \cup External \cup Model
Operation == [op : {"CreateModel", "AddField"}, model : Model, columns : SUBSET Column]
Dependency == [app : {CrateName}, number : Nat] \cup [model : Column]
File ==
  [app : {AppName}, number : Nat, dependencies : SUBSET Dependency, operations : Seq(Operation),
   models : UNION {[T -> SUBSET Column] : T \in SUBSET Tables}]

TypeOK ==
  /\ pc \in {"idle", "remove_cycles", "toposort", "panicked"}
  /\ files \in Seq(File)
  /\ IsFiniteSet(DOMAIN source) /\ DOMAIN source \subseteq Model
  /\ \A m \in DOMAIN source : /\ IsFiniteSet(source[m])
                              /\ source[m] \subseteq Plain \cup External \cup DOMAIN source
  /\ DOMAIN snapshot \subseteq Model

(* The copies in the files are the source of the last run.                  *)
Latest ==
  /\ DOMAIN latest_models = {TableName[m] : m \in DOMAIN snapshot}
  /\ \A m \in DOMAIN snapshot : latest_models[TableName[m]] = snapshot[m]

Fresh(m) == {c \in source[m] : m \in DOMAIN snapshot => c \notin snapshot[m]}
Delta(ops) ==
  /\ ops \subseteq Operation
  /\ \A o \in Creates(ops) : o.model \notin DOMAIN snapshot
  /\ \A m \in DOMAIN source \ DOMAIN snapshot : \E o \in Creates(ops) : o.model = m
  /\ \A o, p \in Creates(ops) : o.model = p.model => o = p
  /\ \A o \in ops : o.model \in DOMAIN source /\ o.columns \subseteq Fresh(o.model)
  /\ \A m \in DOMAIN source : \A c \in Fresh(m) : \E o \in ops : o.model = m /\ c \in o.columns
  /\ \A o, p \in ops : o.model = p.model /\ o # p => o.columns \cap p.columns = {}

(* The cycles that toposort would not survive: of one model or two.         *)
Mutual(o, p) == p.model \in o.columns /\ o.model \in p.columns
Broken(ops, edges) ==
  \A o, p \in Creates(ops) :
    Mutual(o, p) => <<o.model, p.model>> \in edges \/ <<p.model, o.model>> \in edges

UnderWay ==
  /\ pc \in {"remove_cycles", "toposort"} => OnlyGrown /\ Delta(operations)
  /\ pc = "remove_cycles" => /\ Broken(operations, cycle_edges)
                             /\ \A e \in cycle_edges : e[1] \in Model /\ e = <<e[1], e[2]>>
  /\ pc = "toposort" => Broken(operations, {})

ModelsAreKnown ==
  /\ AllOperations \in Seq(Operation)
  /\ \A j \in DOMAIN AllOperations : AllOperations[j].model \in DOMAIN snapshot
Replayed == ModelsAreKnown /\ Replayable /\ FilesLeadToSource
IInv == TypeOK /\ Latest /\ UnderWay /\ Replayed /\ PanicsAreKnown

(* The models have no table_name of their own, and no two types one name.   *)
TablesAreNamedAfterTypes ==
  /\ TableName = DerivedName
  /\ \A m, n \in Model : TableName[m] = TableName[n] => m = n

-----------------------------------------------------------------------------
(* The files and what they repeat.                                          *)
Repeated(t) == {k \in DOMAIN files : t \in DOMAIN files[k].models}
LastWith(t) == CHOOSE k \in Repeated(t) : \A j \in Repeated(t) : j <= k

LEMMA LatestModels ==
  /\ DOMAIN latest_models = {t \in Tables : Repeated(t) # {}}
  /\ \A t \in DOMAIN latest_models : latest_models[t] = files[LastWith(t)].models[t]
BY DEF latest_models, Repeated, LastWith

(* A file that repeats every table is the only one that counts.             *)
LEMMA LatestOfAppended ==
  ASSUME TypeOK, NEW f \in File, files' = Append(files, f),
         DOMAIN latest_models \subseteq DOMAIN f.models, DOMAIN f.models \subseteq Tables
  PROVE  /\ DOMAIN latest_models' = DOMAIN f.models
         /\ \A t \in DOMAIN f.models : latest_models'[t] = f.models[t]
<1> DEFINE n == Len(files)
<1>1. /\ n \in Nat /\ DOMAIN files = 1..n /\ DOMAIN files' = 1..(n + 1)
      /\ files'[n + 1] = f /\ \A k \in 1..n : files'[k] = files[k]
  BY DEF TypeOK
<1> HIDE DEF n
<1>2. ASSUME NEW t \in DOMAIN f.models
      PROVE  Repeated(t)' # {} /\ LastWith(t)' = n + 1
  <2>1. n + 1 \in Repeated(t)' /\ \A k \in Repeated(t)' : k \in Nat /\ k <= n + 1
    BY <1>1 DEF Repeated
  <2>2. \A k \in Repeated(t)' : (\A j \in Repeated(t)' : j <= k) => k = n + 1
    BY <1>1, <2>1
  <2>3. LastWith(t)' \in Repeated(t)' /\ \A j \in Repeated(t)' : j <= LastWith(t)'
    BY <2>1 DEF LastWith
  <2> QED
    BY <2>1, <2>2, <2>3
<1>3. ASSUME NEW t \in Tables \ DOMAIN f.models PROVE Repeated(t)' = {}
  <2>1. Repeated(t) = {}
    BY LatestModels
  <2> SUFFICES ASSUME NEW k \in 1..(n + 1), t \in DOMAIN files'[k].models PROVE FALSE
    BY <1>1 DEF Repeated
  <2>2. k \in 1..n
    BY <1>1
  <2> QED
    BY <1>1, <2>1, <2>2 DEF Repeated
<1>4. /\ DOMAIN latest_models' = {t \in Tables : Repeated(t)' # {}}
      /\ \A t \in DOMAIN latest_models' : latest_models'[t] = files'[LastWith(t)'].models[t]
  BY DEF latest_models, Repeated, LastWith, Tables
<1>5. DOMAIN latest_models' = DOMAIN f.models
  BY <1>2, <1>3, <1>4
<1> QED
  BY <1>1, <1>2, <1>4, <1>5

(* What is removed from the source is gone from what the files repeat.      *)
LEMMA RemovedIsLost ==
  ASSUME TablesAreNamedAfterTypes, TypeOK, Latest
  PROVE  Removed <=> ~OnlyGrown
<1>1. \A m, n \in Model : TableName[m] = TableName[n] <=> m = n
  BY DEF TablesAreNamedAfterTypes
<1>2. /\ DOMAIN source \subseteq Model /\ DOMAIN snapshot \subseteq Model
      /\ \A t \in DOMAIN latest_models : \E m \in DOMAIN snapshot : t = TableName[m]
      /\ \A m \in DOMAIN snapshot : /\ TableName[m] \in DOMAIN latest_models
                                    /\ latest_models[TableName[m]] = snapshot[m]
  BY DEF TypeOK, Latest
<1>3. ASSUME Removed PROVE ~OnlyGrown
  <2>1. PICK t \in DOMAIN latest_models :
               \/ \A m \in DOMAIN source : TableName[m] # t
               \/ \E m \in DOMAIN source : TableName[m] = t /\ ~(latest_models[t] \subseteq source[m])
    BY <1>3 DEF Removed
  <2>2. PICK n \in DOMAIN snapshot : t = TableName[n]
    BY <1>2
  <2>3. n \in DOMAIN source => ~(snapshot[n] \subseteq source[n])
    BY <1>1, <1>2, <2>1, <2>2
  <2> QED
    BY <2>3 DEF OnlyGrown
<1>4. ASSUME ~OnlyGrown PROVE Removed
  <2>1. PICK n \in DOMAIN snapshot : n \in DOMAIN source => ~(snapshot[n] \subseteq source[n])
    BY <1>4 DEF OnlyGrown
  <2>2. CASE n \in DOMAIN source
    BY <1>2, <2>1, <2>2 DEF Removed
  <2>3. CASE n \notin DOMAIN source
    <3>1. \A m \in DOMAIN source : TableName[m] # TableName[n]
      BY <1>1, <1>2, <2>3
    <3> QED
      BY <1>2, <3>1 DEF Removed
  <2> QED
    BY <2>2, <2>3
<1> QED
  BY <1>3, <1>4

-----------------------------------------------------------------------------
(* The operations.                                                          *)
LEMMA OperationIs ==
  /\ \A m, columns : /\ CreateModel(m, columns).op = "CreateModel"
                     /\ CreateModel(m, columns).model = m
                     /\ CreateModel(m, columns).columns = columns
                     /\ m \in Model /\ columns \subseteq Column => CreateModel(m, columns) \in Operation
  /\ \A m, c : /\ AddField(m, c).op = "AddField" /\ AddField(m, c).op # "CreateModel"
               /\ AddField(m, c).model = m
               /\ AddField(m, c).columns = {c}
               /\ m \in Model /\ c \in Column => AddField(m, c) \in Operation
BY DEF CreateModel, AddField, Operation

LEMMA SourceColumns ==
  ASSUME TypeOK
  PROVE  \A m \in DOMAIN source : m \in Model /\ source[m] \subseteq Column
BY DEF TypeOK, Column

(* There are finitely many.                                                 *)
LEMMA FiniteOperations ==
  ASSUME TypeOK, NEW ops, Delta(ops)
  PROVE  IsFiniteSet(ops)
<1> DEFINE D == DOMAIN source
           f == [m \in D |-> source[m]]
           C == UNION {f[m] : m \in D}
           triples == ({"CreateModel", "AddField"} \X D) \X SUBSET C
           g == [x \in triples |-> [op |-> x[1][1], model |-> x[1][2], columns |-> x[2]]]
           all == [op : {"CreateModel", "AddField"}, model : D, columns : SUBSET C]
<1>1. IsFiniteSet(D) /\ \A m \in D : IsFiniteSet(f[m]) /\ f[m] = source[m]
  BY DEF TypeOK
<1> HIDE DEF D, f
<1>2. IsFiniteSet({f[m] : m \in D})
  <2> DEFINE images == {f[m] : m \in D}
             h == [m \in D |-> f[m]]
  <2>1. h \in Surjection(D, images)
    BY DEF Surjection
  <2> HIDE DEF h, images
  <2>2. IsFiniteSet(images)
    BY <1>1, <2>1, FS_Surjection
  <2> QED
    BY <2>2 DEF images
<1>3. IsFiniteSet(C)
  BY <1>1, <1>2, FS_UNION
<1> HIDE DEF C
<1>4. IsFiniteSet({"CreateModel", "AddField"})
  <2>1. {"CreateModel", "AddField"} = {"CreateModel"} \cup {"AddField"}
    OBVIOUS
  <2>2. IsFiniteSet({"CreateModel"})
    BY FS_Singleton
  <2>3. IsFiniteSet({"CreateModel"} \cup {"AddField"})
    BY <2>2, FS_AddElement
  <2> QED
    BY <2>1, <2>3
<1>5. IsFiniteSet(triples)
  BY <1>1, <1>3, <1>4, FS_Product, FS_SUBSET
<1>6. g \in Surjection(triples, all)
  <2>1. g \in [triples -> all]
    OBVIOUS
  <2>2. ASSUME NEW o \in all PROVE \E x \in triples : g[x] = o
    <3> DEFINE x == <<<<o.op, o.model>>, o.columns>>
    <3>1. x \in triples /\ g[x] = o
      OBVIOUS
    <3> QED
      BY <3>1
  <2> QED
    BY <2>1, <2>2 DEF Surjection
<1>7. IsFiniteSet(all)
  BY <1>5, <1>6, FS_Surjection
<1>8. ops \subseteq all
  <2> SUFFICES ASSUME NEW o \in ops PROVE o \in all
    OBVIOUS
  <2>1. o \in Operation /\ o.model \in D /\ o.columns \subseteq source[o.model]
    BY DEF Delta, Fresh, D
  <2>2. o.columns \subseteq C
    BY <1>1, <2>1 DEF C
  <2> QED
    BY <2>1, <2>2 DEF Operation
<1> HIDE DEF all
<1> QED
  BY <1>7, <1>8, FS_Subset

(* generate_operations.                                                     *)
LEMMA Generated ==
  ASSUME TablesAreNamedAfterTypes, TypeOK, Latest
  PROVE  \A o : o \in generate_operations <=>
           \/ \E m \in DOMAIN source \ DOMAIN snapshot : o = CreateModel(m, source[m])
           \/ \E m \in DOMAIN source \cap DOMAIN snapshot : \E c \in Fresh(m) : o = AddField(m, c)
<1>1. \A m \in DOMAIN source : TableName[m] \in DOMAIN latest_models <=> m \in DOMAIN snapshot
  BY DEF TypeOK, Latest, TablesAreNamedAfterTypes
<1>2. \A m \in DOMAIN source \cap DOMAIN snapshot : source[m] \ latest_models[TableName[m]] = Fresh(m)
  BY DEF Latest, Fresh
<1>3. generate_operations
        = {CreateModel(m, source[m]) : m \in DOMAIN source \ DOMAIN snapshot}
            \cup UNION {{AddField(m, c) : c \in Fresh(m)} : m \in DOMAIN source \cap DOMAIN snapshot}
  <2> DEFINE new == {m \in DOMAIN source : TableName[m] \notin DOMAIN latest_models}
             added(m) == source[m] \ latest_models[TableName[m]]
  <2>1. new = DOMAIN source \ DOMAIN snapshot /\ DOMAIN source \ new = DOMAIN source \cap DOMAIN snapshot
    BY <1>1
  <2>2. \A m \in DOMAIN source \cap DOMAIN snapshot : added(m) = Fresh(m)
    BY <1>2
  <2>3. generate_operations
          = {CreateModel(m, source[m]) : m \in new}
              \cup UNION {{AddField(m, c) : c \in added(m)} : m \in DOMAIN source \ new}
    BY DEF generate_operations
  <2> HIDE DEF new, added
  <2>4. {{AddField(m, c) : c \in added(m)} : m \in DOMAIN source \cap DOMAIN snapshot}
          = {{AddField(m, c) : c \in Fresh(m)} : m \in DOMAIN source \cap DOMAIN snapshot}
    BY <2>2
  <2> QED
    BY <2>1, <2>3, <2>4
<1> QED
  BY <1>3

LEMMA GeneratedDelta ==
  ASSUME TablesAreNamedAfterTypes, TypeOK, Latest, OnlyGrown
  PROVE  Delta(generate_operations)
<1> DEFINE ops == generate_operations
<1>1. \A o : o \in ops <=>
        \/ \E m \in DOMAIN source \ DOMAIN snapshot : o = CreateModel(m, source[m])
        \/ \E m \in DOMAIN source \cap DOMAIN snapshot : \E c \in Fresh(m) : o = AddField(m, c)
  BY Generated
<1> SUFFICES Delta(ops)
  OBVIOUS
<1> HIDE DEF ops
<1>2. \A m \in DOMAIN source : /\ m \in Model /\ source[m] \subseteq Column
                               /\ Fresh(m) \subseteq source[m]
                               /\ m \notin DOMAIN snapshot => Fresh(m) = source[m]
  BY SourceColumns DEF Fresh
<1>3. \A o \in Creates(ops) : \E m \in DOMAIN source \ DOMAIN snapshot : o = CreateModel(m, source[m])
  BY <1>1, OperationIs DEF Creates
<1>4. \A m \in DOMAIN source \ DOMAIN snapshot : CreateModel(m, source[m]) \in Creates(ops)
  BY <1>1, OperationIs DEF Creates
<1>5. ops \subseteq Operation
  BY <1>1, <1>2, OperationIs
<1>6. /\ \A o \in Creates(ops) : o.model \notin DOMAIN snapshot
      /\ \A m \in DOMAIN source \ DOMAIN snapshot : \E o \in Creates(ops) : o.model = m
      /\ \A o, p \in Creates(ops) : o.model = p.model => o = p
  BY <1>3, <1>4, OperationIs
<1>7. \A o \in ops : o.model \in DOMAIN source /\ o.columns \subseteq Fresh(o.model)
  BY <1>1, <1>2, OperationIs
<1>8. ASSUME NEW m \in DOMAIN source, NEW c \in Fresh(m)
      PROVE  \E o \in ops : o.model = m /\ c \in o.columns
  <2>1. CASE m \in DOMAIN snapshot
    <3>1. AddField(m, c) \in ops
      BY <1>1, <2>1
    <3> QED
      BY <3>1, OperationIs
  <2>2. CASE m \notin DOMAIN snapshot
    <3>1. CreateModel(m, source[m]) \in ops
      BY <1>1, <2>2
    <3> QED
      BY <1>2, <2>2, <3>1, OperationIs
  <2> QED
    BY <2>1, <2>2
<1>9. ASSUME NEW o \in ops, NEW p \in ops, o.model = p.model, o # p
      PROVE  o.columns \cap p.columns = {}
  <2>1. CASE o.model \in DOMAIN snapshot
    <3>1. /\ \E c : o = AddField(o.model, c)
          /\ \E c : p = AddField(p.model, c)
      BY <1>1, <1>9, <2>1, OperationIs
    <3> QED
      BY <1>9, <3>1, OperationIs
  <2>2. CASE o.model \notin DOMAIN snapshot
    <3>1. o = CreateModel(o.model, source[o.model]) /\ p = CreateModel(p.model, source[p.model])
      BY <1>1, <1>9, <2>2, OperationIs
    <3> QED
      BY <1>9, <3>1
  <2> QED
    BY <2>1, <2>2
<1> QED
  BY <1>5, <1>6, <1>7, <1>8, <1>9 DEF Delta

(* remove_dependency: the CreateModel of a model in two parts.              *)
Split(ops, from, to, new) ==
  \/ from \in Model /\ new = ops
  \/ \E p \in Creates(ops) :
       /\ p.model = from /\ to \in p.columns
       /\ \A o : o \in new <=> \/ o \in ops /\ o # p
                               \/ o = CreateModel(from, p.columns \ {to})
                               \/ o = AddField(from, to)

LEMMA DeltaOfSplit ==
  ASSUME TypeOK, NEW ops, Delta(ops), NEW from, NEW to, NEW new, Split(ops, from, to, new)
  PROVE  Delta(new)
<1>1. CASE new = ops
  BY <1>1
<1>2. ASSUME NEW p \in Creates(ops), p.model = from, to \in p.columns,
             \A o : o \in new <=> \/ o \in ops /\ o # p
                                  \/ o = CreateModel(from, p.columns \ {to})
                                  \/ o = AddField(from, to)
      PROVE  Delta(new)
  <2> DEFINE first == CreateModel(from, p.columns \ {to})
             second == AddField(from, to)
  <2>1. /\ first.model = from /\ first.columns = p.columns \ {to} /\ first.op = "CreateModel"
        /\ second.model = from /\ second.columns = {to} /\ second.op # "CreateModel"
    BY OperationIs
  <2>2. \A o : o \in new <=> \/ (o \in ops /\ o # p) \/ o = first \/ o = second
    BY <1>2
  <2>3. p \in ops /\ p.op = "CreateModel" /\ p \in Operation
    BY DEF Creates, Delta
  <2>4. first \in Operation /\ second \in Operation
    BY <1>2, <2>3, OperationIs DEF Operation
  <2> HIDE DEF first, second
  <2>5. \A o : o \in Creates(new) <=> (o \in Creates(ops) /\ o # p) \/ o = first
    BY <2>1, <2>2 DEF Creates
  <2>6. \A o \in ops : o # p /\ o.model = from => o.columns \cap p.columns = {} /\ o \notin Creates(ops)
    BY <1>2, <2>3 DEF Delta
  <2>7. new \subseteq Operation
    BY <2>2, <2>4 DEF Delta
  <2>8. \A o \in Creates(new) : o.model \notin DOMAIN snapshot
    BY <1>2, <2>1, <2>5 DEF Delta
  <2>9. \A m \in DOMAIN source \ DOMAIN snapshot : \E o \in Creates(new) : o.model = m
    BY <1>2, <2>1, <2>5 DEF Delta
  <2>10. \A o, q \in Creates(new) : o.model = q.model => o = q
    BY <1>2, <2>1, <2>5 DEF Delta
  <2>11. \A o \in new : o.model \in DOMAIN source /\ o.columns \subseteq Fresh(o.model)
    BY <1>2, <2>1, <2>2, <2>3 DEF Delta
  <2>12. ASSUME NEW m \in DOMAIN source, NEW c \in Fresh(m)
         PROVE  \E o \in new : o.model = m /\ c \in o.columns
    <3>1. PICK o \in ops : o.model = m /\ c \in o.columns
      BY DEF Delta
    <3>2. CASE o # p
      BY <2>2, <3>1, <3>2
    <3>3. CASE o = p /\ c = to
      BY <1>2, <2>1, <2>2, <3>1, <3>3
    <3>4. CASE o = p /\ c # to
      BY <1>2, <2>1, <2>2, <3>1, <3>4
    <3> QED
      BY <3>2, <3>3, <3>4
  <2>13. ASSUME NEW o \in new, NEW q \in new, o.model = q.model, o # q
         PROVE  o.columns \cap q.columns = {}
    <3>1. CASE o \in ops /\ o # p /\ q \in ops /\ q # p
      BY <2>13, <3>1 DEF Delta
    <3>2. ASSUME NEW x \in ops, x # p, x.model = from
          PROVE  x.columns \cap first.columns = {} /\ x.columns \cap second.columns = {}
      BY <1>2, <2>1, <2>6, <3>2
    <3>3. first.columns \cap second.columns = {}
      BY <2>1
    <3> QED
      BY <2>1, <2>2, <2>13, <3>1, <3>2, <3>3
  <2> QED
    BY <2>7, <2>8, <2>9, <2>10, <2>11, <2>12, <2>13 DEF Delta
<1> QED
  BY <1>1, <1>2 DEF Split

(* No cycle is left of those whose edge was taken.                          *)
LEMMA BrokenOfSplit ==
  ASSUME NEW ops, Delta(ops), NEW from, NEW to, NEW new, Split(ops, from, to, new),
         NEW edges, Broken(ops, edges), new = ops => \A o \in Creates(ops) : ~(o.model = from /\ to \in o.columns)
  PROVE  Broken(new, edges \ {<<from, to>>})
<1> SUFFICES ASSUME NEW o \in Creates(new), NEW q \in Creates(new), Mutual(o, q)
             PROVE  \/ <<o.model, q.model>> \in edges \ {<<from, to>>}
                    \/ <<q.model, o.model>> \in edges \ {<<from, to>>}
  BY DEF Broken
<1>1. \A x \in Creates(new) : ~(x.model = from /\ to \in x.columns)
  <2>1. CASE new = ops
    BY <2>1
  <2>2. ASSUME NEW p \in Creates(ops), p.model = from, to \in p.columns,
               \A x : x \in new <=> \/ x \in ops /\ x # p
                                    \/ x = CreateModel(from, p.columns \ {to})
                                    \/ x = AddField(from, to),
               NEW x \in Creates(new), x.model = from, to \in x.columns
        PROVE  FALSE
    <3>1. x # CreateModel(from, p.columns \ {to}) /\ x # AddField(from, to)
      BY <2>2, OperationIs DEF Creates
    <3>2. x \in Creates(ops) /\ x # p
      BY <2>2, <3>1 DEF Creates
    <3> QED
      BY <2>2, <3>2 DEF Delta
  <2> QED
    BY <2>1, <2>2 DEF Split
<1>2. \A x \in Creates(new) : \E y \in Creates(ops) : y.model = x.model /\ x.columns \subseteq y.columns
  <2>1. CASE new = ops
    BY <2>1
  <2>2. ASSUME NEW p \in Creates(ops), p.model = from, to \in p.columns,
               \A x : x \in new <=> \/ x \in ops /\ x # p
                                    \/ x = CreateModel(from, p.columns \ {to})
                                    \/ x = AddField(from, to),
               NEW x \in Creates(new)
        PROVE  \E y \in Creates(ops) : y.model = x.model /\ x.columns \subseteq y.columns
    <3>1. x \in Creates(ops) \/ x = CreateModel(from, p.columns \ {to})
      <4>1. x \in new /\ x.op = "CreateModel" /\ x # AddField(from, to)
        BY OperationIs DEF Creates
      <4> QED
        BY <2>2, <4>1 DEF Creates
    <3> QED
      BY <2>2, <3>1, OperationIs
  <2> QED
    BY <2>1, <2>2 DEF Split
<1>3. PICK x \in Creates(ops), y \in Creates(ops) :
             /\ x.model = o.model /\ o.columns \subseteq x.columns
             /\ y.model = q.model /\ q.columns \subseteq y.columns
  BY <1>2
<1>4. Mutual(x, y)
  BY <1>3 DEF Mutual
<1>5. <<o.model, q.model>> \in edges \/ <<q.model, o.model>> \in edges
  BY <1>3, <1>4 DEF Broken
<1>6. q.model \in o.columns /\ o.model \in q.columns
  BY DEF Mutual
<1>7. <<o.model, q.model>> # <<from, to>> /\ <<q.model, o.model>> # <<from, to>>
  BY <1>1, <1>6
<1> QED
  BY <1>5, <1>7

(* remove_dependency splits the one CreateModel there is, or does nothing.  *)
LEMMA RemoveDependencySplits ==
  ASSUME NEW ops, Delta(ops), NEW from \in Model, NEW to
  PROVE  LET new == remove_dependency(ops, from, to)
         IN /\ Split(ops, from, to, new)
            /\ new = ops => \A o \in Creates(ops) : ~(o.model = from /\ to \in o.columns)
<1> DEFINE new == remove_dependency(ops, from, to)
           moving == {o \in Creates(ops) : o.model = from /\ to \in o.columns}
<1>1. new = (ops \ moving) \cup {CreateModel(from, o.columns \ {to}) : o \in moving}
              \cup {AddField(from, to) : o \in moving}
  BY DEF remove_dependency
<1> HIDE DEF new
<1>2. CASE moving = {}
  <2>1. new = ops
    BY <1>1, <1>2
  <2> QED
    BY <1>2, <2>1 DEF Split, new
<1>3. ASSUME NEW p \in moving PROVE Split(ops, from, to, new) /\ new # ops
  <2>1. \A o \in moving : o = p
    BY DEF Delta
  <2>2. moving = {p} /\ p \in Creates(ops) /\ p.model = from /\ to \in p.columns
    BY <2>1
  <2> HIDE DEF moving
  <2>3. new = (ops \ {p}) \cup {CreateModel(from, p.columns \ {to})} \cup {AddField(from, to)}
    BY <1>1, <2>2
  <2>4. Split(ops, from, to, new)
    BY <2>2, <2>3 DEF Split
  <2>5. p \in ops /\ p \notin new
    <3>1. p # CreateModel(from, p.columns \ {to}) /\ p # AddField(from, to)
      BY <2>2, OperationIs DEF Creates
    <3> QED
      BY <2>2, <2>3, <3>1 DEF Creates
  <2> QED
    BY <2>4, <2>5
<1> QED
  BY <1>2, <1>3 DEF new

(* The feedback arc set has an edge of every pair and every loop.           *)
LEMMA FeedbackBreaks ==
  ASSUME NEW ops, Delta(ops), NEW edges \in FeedbackArcSets(ops)
  PROVE  Broken(ops, edges) /\ \A e \in edges : e[1] \in Model /\ e = <<e[1], e[2]>>
<1> DEFINE between == {<<e[1].model, e[2].model>> : e \in Edges(ops) \cap (ops \X Creates(ops))}
           nodes == {o.model : o \in Creates(ops)}
           before(order, x, y) == \E j, k \in DOMAIN order : order[j] = x /\ order[k] = y /\ j < k
<1>1. PICK order \in SetToSeqs(nodes) : edges = {e \in between : ~before(order, e[1], e[2])}
  BY DEF FeedbackArcSets
<1>2. ASSUME NEW o \in Creates(ops), NEW p \in Creates(ops), p.model \in o.columns
      PROVE  <<p.model, o.model>> \in between
  <2>1. p.model \in Model
    BY DEF Creates, Delta, Operation
  <2>2. p.model \in ForeignKeys(o)
    BY <1>2, <2>1, ColumnsAreApart DEF ForeignKeys
  <2>3. <<p, o>> \in Edges(ops) \cap (ops \X Creates(ops))
    BY <2>2 DEF Edges, Creates
  <2> QED
    BY <2>3
<1>3. ASSUME NEW x, NEW y PROVE ~(before(order, x, y) /\ before(order, y, x))
  <2>1. /\ DOMAIN order = 1..Cardinality(nodes)
        /\ \A j, k \in DOMAIN order : j # k => order[j] # order[k]
    BY DEF SetToSeqs
  <2> HIDE DEF nodes
  <2> SUFFICES ASSUME NEW i \in DOMAIN order, NEW j \in DOMAIN order, i < j, order[i] = x, order[j] = y,
                      NEW k \in DOMAIN order, NEW l \in DOMAIN order, k < l, order[k] = y, order[l] = x
               PROVE  FALSE
    OBVIOUS
  <2>2. i = l /\ j = k /\ i \in Int /\ j \in Int
    BY <2>1
  <2> QED
    BY <2>2
<1> HIDE DEF before
<1>4. ASSUME NEW o \in Creates(ops), NEW p \in Creates(ops), Mutual(o, p)
      PROVE  <<o.model, p.model>> \in edges \/ <<p.model, o.model>> \in edges
  <2>1. <<o.model, p.model>> \in between /\ <<p.model, o.model>> \in between
    BY <1>2, <1>4 DEF Mutual
  <2> HIDE DEF between
  <2> QED
    BY <1>1, <1>3, <2>1
<1>5. \A e \in between : e[1] \in Model /\ e = <<e[1], e[2]>>
  <2>1. \A o \in ops : o.model \in Model
    BY DEF Delta, Operation
  <2> QED
    BY <2>1
<1> QED
  BY <1>1, <1>4, <1>5 DEF Broken

(* Operations that all wait for one another are those of a long cycle.      *)
LEMMA KnotIsLongCycle ==
  ASSUME TypeOK, NEW ops, Delta(ops), Broken(ops, {}),
         NEW W \in SUBSET ops, W # {}, \A o \in W : \E p \in W : <<p, o>> \in Edges(ops)
  PROVE  LongCycle
<1> DEFINE K == W \cap Creates(ops)
           M == {o.model : o \in K}
           of(x) == CHOOSE o \in K : o.model = x
           next == [x \in M |-> CHOOSE y \in M : y \in of(x).columns]
<1>1. \A o \in W : \E p \in K : p.model \in ForeignKeys(o)
  BY DEF Edges
<1>2. K # {}
  BY <1>1
<1>3. \A x \in M : of(x) \in K /\ of(x).model = x
  OBVIOUS
<1>4. ASSUME NEW x \in M PROVE \E y \in M : y \in of(x).columns
  <2>1. of(x) \in K
    BY <1>3
  <2>2. PICK p \in K : p.model \in ForeignKeys(of(x))
    BY <1>1, <2>1
  <2> HIDE DEF of
  <2>3. p.model \in of(x).columns
    BY <2>1, <2>2 DEF ForeignKeys, Creates
  <2> QED
    BY <2>3
<1>5. /\ M # {} /\ M \subseteq DOMAIN source
      /\ \A o \in K : o.columns \subseteq source[o.model]
  BY <1>2 DEF Delta, Fresh
<1>6. \A x \in M : next[x] \in M /\ next[x] \in of(x).columns
  BY <1>4
<1>7. next \in [M -> M]
  BY <1>6
<1>8. \A o, p \in K : ~Mutual(o, p)
  BY DEF Broken
<1> HIDE DEF next, of, M, K
<1>9. ASSUME NEW x \in M PROVE next[x] \in source[x] /\ next[x] # x /\ next[next[x]] # x
  <2>1. next[x] \in M /\ next[x] \in of(x).columns /\ of(x) \in K /\ of(x).model = x
    BY <1>3, <1>6
  <2>2. next[next[x]] \in of(next[x]).columns /\ of(next[x]) \in K /\ of(next[x]).model = next[x]
    BY <1>3, <1>6, <2>1
  <2>3. next[x] \in source[x]
    BY <1>5, <2>1
  <2>4. next[x] # x
    BY <1>8, <2>1 DEF Mutual
  <2>5. next[next[x]] # x
    BY <1>8, <2>1, <2>2 DEF Mutual
  <2> QED
    BY <2>3, <2>4, <2>5
<1> QED
  BY <1>5, <1>7, <1>9 DEF LongCycle

-----------------------------------------------------------------------------
(* Replaying the files.  What the first k of some operations create and add *)
(* is told apart model by model and column by column.                       *)
CreatedBy(ops, k, m) == \E j \in 1..k : ops[j].op = "CreateModel" /\ ops[j].model = m
AddedBy(ops, k, m, c) == \E j \in 1..k : ops[j].model = m /\ c \in ops[j].columns

LEMMA After ==
  /\ \A k, m : m \in CreatedAfter(k) <=> CreatedBy(AllOperations, k, m)
  /\ \A k, m, c : c \in ColumnsAfter(k, m) <=> AddedBy(AllOperations, k, m, c)
BY DEF CreatedAfter, ColumnsAfter, CreatedBy, AddedBy

LEMMA AfterNext ==
  /\ \A k, m : m \in CreatedAfter(k)' <=> CreatedBy(AllOperations', k, m)
  /\ \A k, m, c : c \in ColumnsAfter(k, m)' <=> AddedBy(AllOperations', k, m, c)
BY DEF CreatedAfter, ColumnsAfter, CreatedBy, AddedBy

(* Operations that come after others.                                       *)
LEMMA Followed ==
  ASSUME NEW A \in Seq(Operation), NEW B \in Seq(Operation)
  PROVE  /\ A \o B \in Seq(Operation)
         /\ Len(A) \in Nat /\ Len(B) \in Nat /\ Len(A \o B) = Len(A) + Len(B)
         /\ DOMAIN (A \o B) = 1..(Len(A) + Len(B))
         /\ \A k \in 0..Len(A) : \A m, c :
              /\ CreatedBy(A \o B, k, m) <=> CreatedBy(A, k, m)
              /\ AddedBy(A \o B, k, m, c) <=> AddedBy(A, k, m, c)
         /\ \A i \in 0..Len(B) : \A m, c :
              /\ CreatedBy(A \o B, Len(A) + i, m) <=> CreatedBy(A, Len(A), m) \/ CreatedBy(B, i, m)
              /\ AddedBy(A \o B, Len(A) + i, m, c) <=> AddedBy(A, Len(A), m, c) \/ AddedBy(B, i, m, c)
<1> DEFINE both == A \o B
<1>1. /\ both \in Seq(Operation) /\ Len(A) \in Nat /\ Len(B) \in Nat /\ Len(both) = Len(A) + Len(B)
      /\ DOMAIN both = 1..(Len(A) + Len(B))
      /\ \A j \in 1..Len(A) : both[j] = A[j]
      /\ \A j \in 1..Len(B) : both[Len(A) + j] = B[j]
  OBVIOUS
<1> HIDE DEF both
<1>2. ASSUME NEW k \in 0..Len(A), NEW m, NEW c
      PROVE  /\ CreatedBy(both, k, m) <=> CreatedBy(A, k, m)
             /\ AddedBy(both, k, m, c) <=> AddedBy(A, k, m, c)
  <2>1. \A j \in 1..k : both[j] = A[j]
    BY <1>1
  <2> QED
    BY <2>1 DEF CreatedBy, AddedBy
<1>3. ASSUME NEW i \in 0..Len(B), NEW m, NEW c
      PROVE  /\ CreatedBy(both, Len(A) + i, m) <=> CreatedBy(A, Len(A), m) \/ CreatedBy(B, i, m)
             /\ AddedBy(both, Len(A) + i, m, c) <=> AddedBy(A, Len(A), m, c) \/ AddedBy(B, i, m, c)
  <2>1. \A j \in 1..Len(A) : both[j] = A[j] /\ j \in 1..(Len(A) + i)
    BY <1>1
  <2>2. \A j \in 1..i : both[Len(A) + j] = B[j] /\ Len(A) + j \in 1..(Len(A) + i)
    BY <1>1
  <2>3. \A j \in 1..(Len(A) + i) : j \in 1..Len(A) \/ \E l \in 1..i : j = Len(A) + l
    <3> SUFFICES ASSUME NEW j \in 1..(Len(A) + i), j \notin 1..Len(A)
                 PROVE  \E l \in 1..i : j = Len(A) + l
      OBVIOUS
    <3>1. j - Len(A) \in 1..i /\ j = Len(A) + (j - Len(A))
      BY <1>1
    <3> QED
      BY <3>1
  <2> DEFINE L == Len(A)
             top == L + i
  <2> HIDE DEF L, top
  <2>4. /\ \A j \in 1..L : both[j] = A[j] /\ j \in 1..top
        /\ \A j \in 1..i : both[L + j] = B[j] /\ L + j \in 1..top
        /\ \A j \in 1..top : j \in 1..L \/ \E l \in 1..i : j = L + l
    BY <2>1, <2>2, <2>3 DEF L, top
  <2>5. CreatedBy(both, top, m) <=> CreatedBy(A, L, m) \/ CreatedBy(B, i, m)
    <3>1. ASSUME CreatedBy(both, top, m) PROVE CreatedBy(A, L, m) \/ CreatedBy(B, i, m)
      BY <2>4, <3>1, SMTT(30) DEF CreatedBy
    <3>2. ASSUME CreatedBy(A, L, m) PROVE CreatedBy(both, top, m)
      BY <2>4, <3>2 DEF CreatedBy
    <3>3. ASSUME CreatedBy(B, i, m) PROVE CreatedBy(both, top, m)
      BY <2>4, <3>3 DEF CreatedBy
    <3> QED
      BY <3>1, <3>2, <3>3
  <2>6. AddedBy(both, top, m, c) <=> AddedBy(A, L, m, c) \/ AddedBy(B, i, m, c)
    <3>1. ASSUME AddedBy(both, top, m, c) PROVE AddedBy(A, L, m, c) \/ AddedBy(B, i, m, c)
      BY <2>4, <3>1, SMTT(30) DEF AddedBy
    <3>2. ASSUME AddedBy(A, L, m, c) PROVE AddedBy(both, top, m, c)
      BY <2>4, <3>2 DEF AddedBy
    <3>3. ASSUME AddedBy(B, i, m, c) PROVE AddedBy(both, top, m, c)
      BY <2>4, <3>3 DEF AddedBy
    <3> QED
      BY <3>1, <3>2, <3>3
  <2> QED
    BY <2>5, <2>6 DEF L, top
<1> QED
  BY <1>1, <1>2, <1>3 DEF both

(* What Replayable says of operation k of some that follow others.          *)
Applies(ops, before, k) ==
  /\ \A x \in ops[k].columns \cap Model :
       CreatedBy(before, Len(before), x) \/ CreatedBy(ops, k - 1, x) \/ x = ops[k].model
  /\ \/ /\ ops[k].op = "CreateModel"
        /\ ~CreatedBy(before, Len(before), ops[k].model) /\ ~CreatedBy(ops, k - 1, ops[k].model)
     \/ /\ ops[k].op = "AddField"
        /\ CreatedBy(before, Len(before), ops[k].model) \/ CreatedBy(ops, k - 1, ops[k].model)
        /\ \A c \in ops[k].columns : /\ ~AddedBy(before, Len(before), ops[k].model, c)
                                     /\ ~AddedBy(ops, k - 1, ops[k].model, c)

LEMMA ReplayableIs ==
  /\ Replayable <=> \A k \in DOMAIN AllOperations : Applies(AllOperations, <<>>, k)
  /\ Replayable' <=> \A k \in DOMAIN AllOperations' : Applies(AllOperations', <<>>, k)
<1>1. \A m, ops : ~CreatedBy(<<>>, Len(<<>>), m) /\ \A c : ~AddedBy(<<>>, Len(<<>>), m, c)
  BY DEF CreatedBy, AddedBy
<1>2. Replayable <=> \A k \in DOMAIN AllOperations : Applies(AllOperations, <<>>, k)
  BY <1>1, After DEF Replayable, Applies
<1>3. Replayable' <=> \A k \in DOMAIN AllOperations' : Applies(AllOperations', <<>>, k)
  <2> DEFINE all == AllOperations'
  <2>1. /\ \A k, m : m \in CreatedAfter(k)' <=> CreatedBy(all, k, m)
        /\ \A k, m, c : c \in ColumnsAfter(k, m)' <=> AddedBy(all, k, m, c)
    BY AfterNext
  <2>2. Replayable' <=>
          \A k \in DOMAIN all :
            /\ \A x \in all[k].columns \cap Model : x \in CreatedAfter(k - 1)' \/ x = all[k].model
            /\ \/ all[k].op = "CreateModel" /\ all[k].model \notin CreatedAfter(k - 1)'
               \/ /\ all[k].op = "AddField"
                  /\ all[k].model \in CreatedAfter(k - 1)'
                  /\ \A c \in all[k].columns : AddedBy(all, k - 1, all[k].model, c) => FALSE
    BY AfterNext DEF Replayable, CreatedAfter, ColumnsAfter, AddedBy
  <2> HIDE DEF all
  <2>3. Replayable' <=> \A k \in DOMAIN all : Applies(all, <<>>, k)
    BY <1>1, <2>1, <2>2 DEF Applies
  <2> QED
    BY <2>3 DEF all
<1> QED
  BY <1>2, <1>3

LEMMA ReplayGoesOn ==
  ASSUME NEW A \in Seq(Operation), \A k \in DOMAIN A : Applies(A, <<>>, k),
         NEW B \in Seq(Operation), \A i \in DOMAIN B : Applies(B, A, i)
  PROVE  \A k \in DOMAIN (A \o B) : Applies(A \o B, <<>>, k)
<1> DEFINE both == A \o B
<1>1. /\ Len(A) \in Nat /\ Len(B) \in Nat
      /\ DOMAIN both = 1..(Len(A) + Len(B))
      /\ \A k \in 0..Len(A) : \A m, c :
           /\ CreatedBy(both, k, m) <=> CreatedBy(A, k, m)
           /\ AddedBy(both, k, m, c) <=> AddedBy(A, k, m, c)
      /\ \A i \in 0..Len(B) : \A m, c :
           /\ CreatedBy(both, Len(A) + i, m) <=> CreatedBy(A, Len(A), m) \/ CreatedBy(B, i, m)
           /\ AddedBy(both, Len(A) + i, m, c) <=> AddedBy(A, Len(A), m, c) \/ AddedBy(B, i, m, c)
  BY Followed
<1>2. /\ \A j \in 1..Len(A) : both[j] = A[j] /\ j \in DOMAIN A
      /\ \A j \in 1..Len(B) : both[Len(A) + j] = B[j] /\ j \in DOMAIN B
  OBVIOUS
<1>3. \A m : ~CreatedBy(<<>>, Len(<<>>), m) /\ \A c : ~AddedBy(<<>>, Len(<<>>), m, c)
  BY DEF CreatedBy, AddedBy
<1> HIDE DEF both
<1>4. ASSUME NEW k \in 1..Len(A) PROVE Applies(both, <<>>, k)
  <2>1. k - 1 \in 0..Len(A) /\ both[k] = A[k] /\ Applies(A, <<>>, k)
    BY <1>1, <1>2
  <2>2. \A m, c : /\ CreatedBy(both, k - 1, m) <=> CreatedBy(A, k - 1, m)
                  /\ AddedBy(both, k - 1, m, c) <=> AddedBy(A, k - 1, m, c)
    BY <1>1, <2>1
  <2> QED
    BY <1>3, <2>1, <2>2 DEF Applies
<1>5. ASSUME NEW i \in 1..Len(B) PROVE Applies(both, <<>>, Len(A) + i)
  <2> DEFINE k == Len(A) + i
             L == Len(A)
  <2>1. i - 1 \in 0..Len(B) /\ both[k] = B[i] /\ Applies(B, A, i) /\ k - 1 = L + (i - 1)
    BY <1>1, <1>2
  <2>2. \A m, c : /\ CreatedBy(both, L + (i - 1), m) <=> CreatedBy(A, L, m) \/ CreatedBy(B, i - 1, m)
                  /\ AddedBy(both, L + (i - 1), m, c) <=> AddedBy(A, L, m, c) \/ AddedBy(B, i - 1, m, c)
    BY <1>1, <2>1
  <2> HIDE DEF k
  <2>3. \A m, c : /\ CreatedBy(both, k - 1, m) <=> CreatedBy(A, L, m) \/ CreatedBy(B, i - 1, m)
                  /\ AddedBy(both, k - 1, m, c) <=> AddedBy(A, L, m, c) \/ AddedBy(B, i - 1, m, c)
    BY <2>1, <2>2
  <2>4. Applies(both, <<>>, k)
    BY <1>3, <2>1, <2>3 DEF Applies
  <2> QED
    BY <2>4 DEF k
<1>6. \A k \in DOMAIN both : k \in 1..Len(A) \/ \E i \in 1..Len(B) : k = Len(A) + i
  <2> SUFFICES ASSUME NEW k \in 1..(Len(A) + Len(B)), k \notin 1..Len(A)
               PROVE  \E i \in 1..Len(B) : k = Len(A) + i
    BY <1>1
  <2>1. k - Len(A) \in 1..Len(B) /\ k = Len(A) + (k - Len(A))
    BY <1>1
  <2> QED
    BY <2>1
<1>7. \A k \in DOMAIN both : Applies(both, <<>>, k)
  BY <1>4, <1>5, <1>6
<1> QED
  BY <1>7 DEF both

(* What the files have made so far is the source of the last run.           *)
LEMMA MadeSoFar ==
  ASSUME Replayed
  PROVE  LET L == Len(AllOperations)
         IN /\ \A m : CreatedBy(AllOperations, L, m) <=> m \in DOMAIN snapshot
            /\ \A m, c : AddedBy(AllOperations, L, m, c) <=> m \in DOMAIN snapshot /\ c \in snapshot[m]
<1> DEFINE L == Len(AllOperations)
<1>1. \A m : CreatedBy(AllOperations, L, m) <=> m \in DOMAIN snapshot
  BY After DEF Replayed, FilesLeadToSource
<1>2. \A m \in DOMAIN snapshot : \A c : AddedBy(AllOperations, L, m, c) <=> c \in snapshot[m]
  BY After DEF Replayed, FilesLeadToSource
<1>3. \A m, c : AddedBy(AllOperations, L, m, c) => m \in DOMAIN snapshot
  BY DEF Replayed, ModelsAreKnown, AddedBy
<1> QED
  BY <1>1, <1>2, <1>3

(* Operations in a topological order can be applied after the files.        *)
LEMMA OrderApplies ==
  ASSUME TypeOK, Replayed, OnlyGrown, NEW ops, Delta(ops), NEW order \in TopologicalOrders(ops)
  PROVE  /\ order \in Seq(Operation)
         /\ \A j \in DOMAIN order : order[j] \in ops
         /\ \A o \in ops : \E j \in DOMAIN order : order[j] = o
         /\ \A i \in DOMAIN order : Applies(order, AllOperations, i)
<1> DEFINE n == Cardinality(ops)
           L == Len(AllOperations)
<1>1. /\ n \in Nat /\ DOMAIN order = 1..n
      /\ order \in Seq(ops) /\ Len(order) = n
      /\ \A j, k \in DOMAIN order : order[j] = order[k] => j = k
      /\ \A o \in ops : \E j \in DOMAIN order : order[j] = o
  <2>1. order \in SetToSeqs(ops) /\ IsFiniteSet(ops)
    BY FiniteOperations DEF TopologicalOrders
  <2> QED
    BY <2>1, ListsAll
<1>2. \A j, k \in DOMAIN order : <<order[j], order[k]>> \in Edges(ops) => j < k
  BY DEF TopologicalOrders
<1>3. /\ \A m : CreatedBy(AllOperations, L, m) <=> m \in DOMAIN snapshot
      /\ \A m, c : AddedBy(AllOperations, L, m, c) <=> m \in DOMAIN snapshot /\ c \in snapshot[m]
  BY MadeSoFar
<1>4. order \in Seq(Operation) /\ \A j \in DOMAIN order : order[j] \in ops
  BY <1>1 DEF Delta
<1> HIDE DEF n, L
(* A model that an operation needs and that no file creates is created      *)
(* before it.                                                               *)
<1>5. ASSUME NEW i \in DOMAIN order, NEW x \in ForeignKeys(order[i]),
             x \in DOMAIN source, x \notin DOMAIN snapshot
      PROVE  CreatedBy(order, i - 1, x)
  <2>1. PICK p \in Creates(ops) : p.model = x
    BY <1>5 DEF Delta
  <2>2. p \in ops /\ p.op = "CreateModel" /\ order[i] \in ops
    BY <1>4 DEF Creates
  <2>3. PICK j \in DOMAIN order : order[j] = p
    BY <1>1, <2>2
  <2>4. <<order[j], order[i]>> \in Edges(ops)
    BY <1>5, <2>1, <2>2, <2>3 DEF Edges
  <2>5. j < i
    BY <1>2, <2>4
  <2>6. j \in 1..(i - 1)
    BY <1>1, <2>5
  <2> QED
    BY <2>1, <2>2, <2>3, <2>6 DEF CreatedBy
<1>6. ASSUME NEW i \in DOMAIN order PROVE Applies(order, AllOperations, i)
  <2> DEFINE o == order[i]
  <2>1. o \in ops /\ o \in Operation /\ o.model \in DOMAIN source /\ o.columns \subseteq Fresh(o.model)
    BY <1>4 DEF Delta
  <2>2. o.op \in {"CreateModel", "AddField"} /\ o.model \in Model
    BY <2>1 DEF Operation
  <2>3. ASSUME NEW x \in o.columns \cap Model
        PROVE  CreatedBy(AllOperations, L, x) \/ CreatedBy(order, i - 1, x)
    <3>1. x \in DOMAIN source
      BY <2>1, <2>3, ColumnsAreApart DEF Fresh, TypeOK
    <3>2. x \in ForeignKeys(o)
      BY <2>3, ColumnsAreApart DEF ForeignKeys
    <3> QED
      BY <1>3, <1>5, <3>1, <3>2
  <2>4. ASSUME NEW j \in 1..(i - 1) PROVE j \in DOMAIN order /\ order[j] \in ops /\ order[j] # o
    <3>1. j \in DOMAIN order /\ j # i
      BY <1>1
    <3> QED
      BY <1>1, <1>4, <3>1
  <2> HIDE DEF o
  <2>5. ASSUME NEW c \in o.columns
        PROVE  ~AddedBy(AllOperations, L, o.model, c) /\ ~AddedBy(order, i - 1, o.model, c)
    <3>1. ~AddedBy(AllOperations, L, o.model, c)
      BY <1>3, <2>1, <2>5 DEF Fresh
    <3>2. ASSUME NEW j \in 1..(i - 1), order[j].model = o.model, c \in order[j].columns PROVE FALSE
      <4>1. order[j] \in ops /\ order[j] # o
        BY <2>4
      <4>2. order[j].columns \cap o.columns = {}
        BY <2>1, <3>2, <4>1 DEF Delta
      <4> QED
        BY <2>5, <3>2, <4>2
    <3> QED
      BY <3>1, <3>2 DEF AddedBy
  <2>6. CASE o.op = "CreateModel"
    <3>1. o \in Creates(ops)
      BY <2>1, <2>6 DEF Creates
    <3>2. ~CreatedBy(AllOperations, L, o.model)
      BY <1>3, <3>1 DEF Delta
    <3>3. ASSUME NEW j \in 1..(i - 1), order[j].op = "CreateModel", order[j].model = o.model PROVE FALSE
      <4>1. order[j] \in Creates(ops) /\ order[j] # o
        BY <2>4, <3>3 DEF Creates
      <4> QED
        BY <3>1, <3>3, <4>1 DEF Delta
    <3>4. ~CreatedBy(order, i - 1, o.model)
      BY <3>3 DEF CreatedBy
    <3> QED
      BY <2>3, <2>6, <3>2, <3>4 DEF Applies, o, L
  <2>7. CASE o.op = "AddField"
    <3>1. o.model \in ForeignKeys(o)
      BY <2>7 DEF ForeignKeys
    <3>2. CreatedBy(AllOperations, L, o.model) \/ CreatedBy(order, i - 1, o.model)
      BY <1>3, <1>5, <2>1, <3>1 DEF o
    <3> QED
      BY <2>3, <2>5, <2>7, <3>2 DEF Applies, o, L
  <2> QED
    BY <2>2, <2>6, <2>7
<1> QED
  BY <1>1, <1>4, <1>6

-----------------------------------------------------------------------------
(* The steps.                                                               *)
LEMMA InitIInv == Init => IInv
<1> SUFFICES ASSUME Init PROVE IInv
  OBVIOUS
<1>1. files = <<>> /\ source = <<>> /\ snapshot = <<>> /\ pc = "idle"
  BY DEF Init
<1>2. TypeOK
  <2>1. IsFiniteSet(DOMAIN source)
    BY <1>1, FS_EmptySet
  <2> QED
    BY <1>1, <2>1 DEF TypeOK
<1>3. Latest
  <2>1. \A t : Repeated(t) = {}
    BY <1>1 DEF Repeated
  <2>2. DOMAIN latest_models = {}
    BY <2>1, LatestModels
  <2> QED
    BY <1>1, <2>2 DEF Latest
<1>4. AllOperations = <<>>
  BY <1>1 DEF AllOperations, FlattenSeq
<1>5. Replayed
  <2>1. ModelsAreKnown
    BY <1>4 DEF ModelsAreKnown
  <2>2. Replayable
    BY <1>4 DEF Replayable
  <2>3. FilesLeadToSource
    BY <1>1, <1>4 DEF FilesLeadToSource, CreatedAfter
  <2> QED
    BY <2>1, <2>2, <2>3 DEF Replayed
<1> QED
  BY <1>1, <1>2, <1>3, <1>5 DEF IInv, UnderWay, PanicsAreKnown

(* While no file is written, nothing about the files changes.               *)
LEMMA FilesStay ==
  ASSUME Latest, Replayed, files' = files, snapshot' = snapshot
  PROVE  Latest' /\ Replayed'
<1>1. AllOperations' = AllOperations
  BY DEF AllOperations
<1>2. latest_models' = latest_models
  BY DEF latest_models, Tables
<1>3. Latest'
  BY <1>2 DEF Latest
<1>4. Replayable'
  BY <1>1, ReplayableIs DEF Replayed
<1>5. FilesLeadToSource'
  <2>1. CreatedAfter(Len(AllOperations))' = CreatedAfter(Len(AllOperations))
    BY <1>1 DEF CreatedAfter
  <2>2. \A m : ColumnsAfter(Len(AllOperations), m)' = ColumnsAfter(Len(AllOperations), m)
    BY <1>1 DEF ColumnsAfter
  <2> QED
    BY <2>1, <2>2 DEF Replayed, FilesLeadToSource
<1>6. ModelsAreKnown'
  BY <1>1 DEF Replayed, ModelsAreKnown, Operation, Column
<1> QED
  BY <1>3, <1>4, <1>5, <1>6 DEF Replayed

(* The developer.                                                           *)
LEMMA EditIInv ==
  ASSUME IInv, NEW models, Edit(models), IsFiniteSet(DOMAIN models), DOMAIN models \subseteq Model,
         \A m \in DOMAIN models : /\ IsFiniteSet(models[m])
                                  /\ models[m] \subseteq Plain \cup External \cup DOMAIN models
  PROVE  IInv'
<1>1. pc = "idle" /\ pc' = "idle" /\ source' = models /\ files' = files /\ snapshot' = snapshot
  BY DEF Edit
<1>2. Latest' /\ Replayed'
  BY <1>1, FilesStay DEF IInv
<1>3. TypeOK'
  BY <1>1 DEF IInv, TypeOK
<1> QED
  BY <1>1, <1>2, <1>3 DEF IInv, UnderWay, PanicsAreKnown

LEMMA AddModelIInv ==
  ASSUME IInv, AddModel
  PROVE  IInv'
<1>1. PICK m \in Model \ DOMAIN source :
             Edit([n \in DOMAIN source \cup {m} |-> IF n = m THEN {} ELSE source[n]])
  BY DEF AddModel
<1> DEFINE models == [n \in DOMAIN source \cup {m} |-> IF n = m THEN {} ELSE source[n]]
<1>2. /\ DOMAIN models = DOMAIN source \cup {m} /\ models[m] = {}
      /\ \A n \in DOMAIN source : models[n] = source[n]
  OBVIOUS
<1> HIDE DEF models
<1>3. IsFiniteSet(DOMAIN models) /\ IsFiniteSet({})
  BY <1>2, FS_AddElement, FS_EmptySet DEF IInv, TypeOK
<1>4. DOMAIN models \subseteq Model
  BY <1>2 DEF IInv, TypeOK
<1>5. \A n \in DOMAIN models : /\ IsFiniteSet(models[n])
                               /\ models[n] \subseteq Plain \cup External \cup DOMAIN models
  BY <1>2, <1>3 DEF IInv, TypeOK
<1>6. Edit(models)
  BY <1>1 DEF models
<1> QED
  BY <1>3, <1>4, <1>5, <1>6, EditIInv

LEMMA AddColumnIInv ==
  ASSUME IInv, AddColumn
  PROVE  IInv'
<1>1. PICK m \in DOMAIN source :
             \E c \in (Plain \cup DOMAIN source \cup External) \ source[m] :
               Edit([source EXCEPT ![m] = @ \cup {c}])
  BY DEF AddColumn
<1>6. PICK c \in (Plain \cup DOMAIN source \cup External) \ source[m] :
             Edit([source EXCEPT ![m] = @ \cup {c}])
  BY <1>1
<1> DEFINE models == [source EXCEPT ![m] = @ \cup {c}]
<1>2. /\ DOMAIN models = DOMAIN source /\ models[m] = source[m] \cup {c}
      /\ \A n \in DOMAIN source : n # m => models[n] = source[n]
  OBVIOUS
<1> HIDE DEF models
<1>3. IsFiniteSet(DOMAIN models) /\ IsFiniteSet(models[m])
  BY <1>2, FS_AddElement DEF IInv, TypeOK
<1>4. DOMAIN models \subseteq Model
  BY <1>2 DEF IInv, TypeOK
<1>5. \A n \in DOMAIN models : /\ IsFiniteSet(models[n])
                               /\ models[n] \subseteq Plain \cup External \cup DOMAIN models
  BY <1>2, <1>3 DEF IInv, TypeOK
<1>7. Edit(models)
  BY <1>6 DEF models
<1> QED
  BY <1>3, <1>4, <1>5, <1>7, EditIInv

LEMMA RemoveColumnIInv ==
  ASSUME IInv, RemoveColumn
  PROVE  IInv'
<1>1. PICK m \in DOMAIN source : \E c \in source[m] : Edit([source EXCEPT ![m] = @ \ {c}])
  BY DEF RemoveColumn
<1>6. PICK c \in source[m] : Edit([source EXCEPT ![m] = @ \ {c}])
  BY <1>1
<1> DEFINE models == [source EXCEPT ![m] = @ \ {c}]
<1>2. /\ DOMAIN models = DOMAIN source /\ models[m] = source[m] \ {c}
      /\ \A n \in DOMAIN source : n # m => models[n] = source[n]
  OBVIOUS
<1> HIDE DEF models
<1>3. IsFiniteSet(DOMAIN models) /\ IsFiniteSet(models[m])
  BY <1>2, FS_Subset DEF IInv, TypeOK
<1>4. DOMAIN models \subseteq Model
  BY <1>2 DEF IInv, TypeOK
<1>5. \A n \in DOMAIN models : /\ IsFiniteSet(models[n])
                               /\ models[n] \subseteq Plain \cup External \cup DOMAIN models
  BY <1>2, <1>3 DEF IInv, TypeOK
<1>7. Edit(models)
  BY <1>6 DEF models
<1> QED
  BY <1>3, <1>4, <1>5, <1>7, EditIInv

LEMMA RemoveModelIInv ==
  ASSUME IInv, RemoveModel
  PROVE  IInv'
<1>1. PICK m \in DOMAIN source :
             /\ \A n \in DOMAIN source \ {m} : m \notin source[n]
             /\ Edit([n \in DOMAIN source \ {m} |-> source[n]])
  BY DEF RemoveModel
<1> DEFINE models == [n \in DOMAIN source \ {m} |-> source[n]]
<1>2. /\ DOMAIN models = DOMAIN source \ {m}
      /\ \A n \in DOMAIN models : models[n] = source[n] /\ m \notin source[n]
  BY <1>1
<1> HIDE DEF models
<1>3. IsFiniteSet(DOMAIN models)
  BY <1>2, FS_Subset DEF IInv, TypeOK
<1>4. DOMAIN models \subseteq Model
  BY <1>2 DEF IInv, TypeOK
<1>5. \A n \in DOMAIN models : /\ IsFiniteSet(models[n])
                               /\ models[n] \subseteq Plain \cup External \cup DOMAIN models
  BY <1>2 DEF IInv, TypeOK
<1>6. Edit(models)
  BY <1>1 DEF models
<1> QED
  BY <1>3, <1>4, <1>5, <1>6, EditIInv

(* make-migrations up to the file.                                          *)
LEMMA CompareIInv ==
  ASSUME TablesAreNamedAfterTypes, IInv, Compare
  PROVE  IInv'
<1>1. /\ source' = source /\ files' = files /\ snapshot' = snapshot
      /\ TypeOK /\ Latest /\ Replayed
  BY DEF Compare, IInv
<1>2. Latest' /\ Replayed'
  BY <1>1, FilesStay
<1>3. (OnlyGrown <=> OnlyGrown') /\ (Removed <=> ~OnlyGrown)
  BY <1>1, RemovedIsLost DEF OnlyGrown
<1>4. CASE Removed /\ pc' = "panicked"
  <2>1. TypeOK'
    BY <1>1, <1>4 DEF TypeOK
  <2> QED
    BY <1>2, <1>3, <1>4, <2>1 DEF IInv, UnderWay, PanicsAreKnown
<1>5. CASE /\ ~Removed /\ pc' = "remove_cycles" /\ operations' = generate_operations
           /\ cycle_edges' \in FeedbackArcSets(generate_operations)
  <2>1. TypeOK'
    BY <1>1, <1>5 DEF TypeOK
  <2>2. Delta(operations')
    BY <1>1, <1>3, <1>5, GeneratedDelta
  <2>3. /\ Broken(operations', cycle_edges')
        /\ \A e \in cycle_edges' : e[1] \in Model /\ e = <<e[1], e[2]>>
    BY <1>5, <2>2, FeedbackBreaks
  <2>4. Delta(operations)' /\ Broken(operations, cycle_edges)'
    BY <1>1, <2>2, <2>3 DEF Delta, Fresh, Broken, Mutual, Creates, Operation, Column
  <2> QED
    BY <1>2, <1>3, <1>5, <2>1, <2>3, <2>4 DEF IInv, UnderWay, PanicsAreKnown
<1> QED
  BY <1>4, <1>5 DEF Compare

LEMMA RemoveCycleIInv ==
  ASSUME IInv, RemoveCycle
  PROVE  IInv'
<1>1. /\ source' = source /\ files' = files /\ snapshot' = snapshot
      /\ TypeOK /\ Latest /\ Replayed
      /\ pc = "remove_cycles" /\ OnlyGrown /\ Delta(operations) /\ Broken(operations, cycle_edges)
      /\ \A e \in cycle_edges : e[1] \in Model /\ e = <<e[1], e[2]>>
  BY DEF RemoveCycle, IInv, UnderWay
<1>2. Latest' /\ Replayed'
  BY <1>1, FilesStay
<1>3. OnlyGrown'
  BY <1>1 DEF OnlyGrown
<1>4. ASSUME NEW e \in cycle_edges, operations' = remove_dependency(operations, e[1], e[2]),
             cycle_edges' = cycle_edges \ {e}, pc' = pc
      PROVE  IInv'
  <2> DEFINE new == remove_dependency(operations, e[1], e[2])
  <2>1. e[1] \in Model /\ e = <<e[1], e[2]>>
    BY <1>1
  <2>2. /\ Split(operations, e[1], e[2], new)
        /\ new = operations => \A o \in Creates(operations) : ~(o.model = e[1] /\ e[2] \in o.columns)
    BY <1>1, <2>1, RemoveDependencySplits
  <2> HIDE DEF new
  <2>3. Delta(new)
    BY <1>1, <2>2, DeltaOfSplit
  <2>4. Broken(new, cycle_edges \ {<<e[1], e[2]>>})
    BY <1>1, <2>1, <2>2, BrokenOfSplit
  <2>5. new = operations' /\ cycle_edges' = cycle_edges \ {<<e[1], e[2]>>}
    BY <1>4, <2>1 DEF new
  <2>6. Delta(operations)' /\ Broken(operations, cycle_edges)'
    BY <1>1, <2>3, <2>4, <2>5 DEF Delta, Fresh, Broken, Mutual, Creates, Operation, Column
  <2>7. TypeOK'
    BY <1>1, <1>4 DEF TypeOK
  <2>8. \A x \in cycle_edges' : x[1] \in Model /\ x = <<x[1], x[2]>>
    BY <1>1, <1>4
  <2> QED
    BY <1>1, <1>2, <1>3, <1>4, <2>6, <2>7, <2>8 DEF IInv, UnderWay, PanicsAreKnown
<1>5. CASE cycle_edges = {} /\ pc' = "toposort" /\ operations' = operations /\ cycle_edges' = cycle_edges
  <2>1. TypeOK'
    BY <1>1, <1>5 DEF TypeOK
  <2>2. Delta(operations)' /\ Broken(operations, {})'
    BY <1>1, <1>5 DEF Delta, Fresh, Broken, Mutual, Creates, Operation, Column
  <2> QED
    BY <1>2, <1>3, <1>5, <2>1, <2>2 DEF IInv, UnderWay, PanicsAreKnown
<1> QED
  BY <1>1, <1>4, <1>5 DEF RemoveCycle

(* The file that Write appends.                                             *)
NewFile(order) ==
  [app |-> AppName, number |-> next_migration_name, dependencies |-> Dependencies(operations),
   operations |-> order, models |-> modified_models]

LEMMA Copies ==
  ASSUME TablesAreNamedAfterTypes, TypeOK
  PROVE  /\ DOMAIN modified_models = {TableName[m] : m \in DOMAIN source}
         /\ \A m \in DOMAIN source : modified_models[TableName[m]] = source[m]
         /\ modified_models \in UNION {[T -> SUBSET Column] : T \in SUBSET Tables}
<1> DEFINE T == {TableName[m] : m \in DOMAIN source}
<1>1. DerivedName = TableName /\ DOMAIN source \subseteq Model
  BY DEF TablesAreNamedAfterTypes, TypeOK
<1>2. modified_models = [t \in T |-> source[CHOOSE m \in DOMAIN source : TableName[m] = t]]
  BY <1>1 DEF modified_models
<1>3. ASSUME NEW m \in DOMAIN source PROVE (CHOOSE n \in DOMAIN source : TableName[n] = TableName[m]) = m
  BY <1>1 DEF TablesAreNamedAfterTypes
<1>4. \A m \in DOMAIN source : modified_models[TableName[m]] = source[m]
  BY <1>2, <1>3
<1>5. \A t \in T : modified_models[t] \in SUBSET Column
  BY <1>4, SourceColumns
<1>6. modified_models \in [T -> SUBSET Column] /\ T \in SUBSET Tables
  BY <1>1, <1>2, <1>5 DEF Tables
<1> QED
  BY <1>2, <1>4, <1>6

LEMMA LastFile ==
  ASSUME TypeOK, files # <<>>
  PROVE  files[Len(files)] \in File
<1>1. files \in Seq(File)
  BY DEF TypeOK
<1>2. Len(files) \in 1..Len(files)
  BY <1>1
<1> QED
  BY <1>1, <1>2

LEMMA NewFileIs ==
  ASSUME TablesAreNamedAfterTypes, TypeOK, Delta(operations), NEW order \in Seq(Operation)
  PROVE  NewFile(order) \in File
<1>1. next_migration_name \in Nat
  <2>1. files # <<>> => files[Len(files)].number \in Nat
    BY LastFile DEF File
  <2> QED
    BY <2>1 DEF next_migration_name
<1>2. Dependencies(operations) \subseteq Dependency
  <2>1. \A o \in operations : ForeignKeys(o) \subseteq Column
    BY DEF Delta, ForeignKeys, Operation, Column
  <2>2. files # <<>> => files[Len(files)].number \in Nat
    BY LastFile DEF File
  <2> QED
    BY <2>1, <2>2 DEF Dependencies, Dependency
<1> QED
  BY <1>1, <1>2, Copies DEF NewFile, File

LEMMA OperationsOfAppended ==
  ASSUME TypeOK, NEW f \in File, files' = Append(files, f)
  PROVE  AllOperations' = AllOperations \o f.operations
<1> DEFINE n == Len(files)
           next == files'
<1>1. /\ n \in Nat /\ DOMAIN files = 1..n /\ DOMAIN next = 1..(n + 1) /\ (n = 0 => files = <<>>)
      /\ next[n + 1] = f /\ \A k \in 1..n : next[k] = files[k]
  BY DEF TypeOK
<1> DEFINE seqs == [k \in DOMAIN files |-> files[k].operations]
           more == [k \in DOMAIN next |-> next[k].operations]
<1>2. AllOperations = FlattenSeq(seqs) /\ AllOperations' = FlattenSeq(more)
  BY DEF AllOperations
<1> HIDE DEF n, next
<1>3. n + 1 \in 1..(n + 1) /\ \A k \in 1..n : k \in 1..(n + 1)
  BY <1>1
<1>4. DOMAIN seqs = 1..n /\ DOMAIN more = 1..(n + 1)
  BY <1>1
<1>5. Len(seqs) = n /\ Len(more) = n + 1
  <2>1. seqs \in [1..n -> {files[k].operations : k \in 1..n}]
    BY <1>1
  <2>2. more \in [1..(n + 1) -> {next[k].operations : k \in 1..(n + 1)}]
    BY <1>1
  <2> HIDE DEF seqs, more
  <2> QED
    BY <1>1, <1>4, <2>1, <2>2
<1>6. more[n + 1] = f.operations /\ \A k \in 1..n : more[k] = seqs[k]
  BY <1>1, <1>3
<1>7. n = 0 => seqs = <<>>
  BY <1>1
<1>8. more[n + 1] \in Seq(Operation)
  BY <1>6 DEF File
<1> HIDE DEF seqs, more
<1>9. FlattenSeq(more) = FlattenSeq(seqs) \o more[n + 1]
  BY <1>1, <1>4, <1>5, <1>6, <1>7, <1>8, FlattenAppend, ZenonT(30)
<1> QED
  BY <1>2, <1>6, <1>9

LEMMA WriteIInv ==
  ASSUME TablesAreNamedAfterTypes, IInv, Write
  PROVE  IInv'
<1>1. /\ source' = source /\ cycle_edges' = cycle_edges
      /\ TypeOK /\ Latest /\ Replayed
      /\ pc = "toposort" /\ OnlyGrown /\ Delta(operations) /\ Broken(operations, {})
  BY DEF Write, IInv, UnderWay
<1>2. CASE TopologicalOrders(operations) = {} /\ pc' = "panicked" /\ UNCHANGED <<files, operations, snapshot>>
  <2>1. PICK W \in SUBSET operations : W # {} /\ \A o \in W : \E p \in W : <<p, o>> \in Edges(operations)
    <3>1. IsFiniteSet(operations)
      BY <1>1, FiniteOperations
    <3>2. ~ \E order \in SetToSeqs(operations) :
              \A j, k \in DOMAIN order : <<order[j], order[k]>> \in Edges(operations) => j < k
      BY <1>2 DEF TopologicalOrders
    <3> QED
      BY <3>1, <3>2, OrderOrKnot
  <2>2. LongCycle
    BY <1>1, <2>1, KnotIsLongCycle
  <2>3. LongCycle'
    BY <1>1, <2>2 DEF LongCycle
  <2>4. TypeOK' /\ Latest' /\ Replayed'
    BY <1>1, <1>2, FilesStay DEF TypeOK
  <2> QED
    BY <1>2, <2>3, <2>4 DEF IInv, UnderWay, PanicsAreKnown
<1>3. ASSUME NEW order \in TopologicalOrders(operations), files' = Append(files, NewFile(order)),
             operations' = {}, snapshot' = source, pc' = "idle"
      PROVE  IInv'
  <2> DEFINE A == AllOperations
             f == NewFile(order)
  <2>1. /\ order \in Seq(Operation)
        /\ \A j \in DOMAIN order : order[j] \in operations
        /\ \A o \in operations : \E j \in DOMAIN order : order[j] = o
        /\ \A i \in DOMAIN order : Applies(order, A, i)
    BY <1>1, OrderApplies
  <2>2. f \in File /\ f.operations = order /\ f.models = modified_models
    BY <1>1, <2>1, NewFileIs DEF NewFile
  <2> HIDE DEF f
  <2>3. TypeOK'
    BY <1>1, <1>3, <2>2 DEF TypeOK, f
  <2>4. Latest'
    <3>1. /\ DOMAIN f.models = {TableName[m] : m \in DOMAIN source}
          /\ \A m \in DOMAIN source : f.models[TableName[m]] = source[m]
          /\ DOMAIN f.models \subseteq Tables
      BY <1>1, <2>2, Copies DEF File
    <3>2. DOMAIN latest_models \subseteq DOMAIN f.models
      BY <1>1, <3>1 DEF Latest, OnlyGrown
    <3>3. files' = Append(files, f)
      BY <1>3 DEF f
    <3>4. /\ DOMAIN latest_models' = DOMAIN f.models
          /\ \A t \in DOMAIN f.models : latest_models'[t] = f.models[t]
      BY <1>1, <2>2, <3>1, <3>2, <3>3, LatestOfAppended
    <3> QED
      BY <1>3, <3>1, <3>4 DEF Latest
  <2>5. A \in Seq(Operation) /\ AllOperations' = A \o order
    <3>1. AllOperations' = AllOperations \o f.operations
      BY <1>1, <1>3, <2>2, OperationsOfAppended DEF f
    <3> QED
      BY <1>1, <2>2, <3>1 DEF Replayed, ModelsAreKnown
  <2>6. Replayable'
    <3>1. \A k \in DOMAIN A : Applies(A, <<>>, k)
      BY <1>1, ReplayableIs DEF Replayed
    <3> HIDE DEF A
    <3>2. \A k \in DOMAIN (A \o order) : Applies(A \o order, <<>>, k)
      BY <2>1, <2>5, <3>1, ReplayGoesOn
    <3> QED
      BY <2>5, <3>2, ReplayableIs
  <2> DEFINE all == AllOperations'
             L == Len(A) + Len(order)
  <2>7. /\ all \in Seq(Operation) /\ Len(all) = L /\ DOMAIN all = 1..L
        /\ \A m, c : /\ CreatedBy(all, L, m) <=> CreatedBy(A, Len(A), m) \/ CreatedBy(order, Len(order), m)
                     /\ AddedBy(all, L, m, c) <=> AddedBy(A, Len(A), m, c) \/ AddedBy(order, Len(order), m, c)
    <3> HIDE DEF A
    <3>1. Len(order) \in 0..Len(order)
      BY <2>1
    <3> QED
      BY <2>1, <2>5, <3>1, Followed
  <2>8. /\ \A m : CreatedBy(A, Len(A), m) <=> m \in DOMAIN snapshot
        /\ \A m, c : AddedBy(A, Len(A), m, c) <=> m \in DOMAIN snapshot /\ c \in snapshot[m]
    BY <1>1, MadeSoFar
  <2>9. /\ \A m : CreatedBy(order, Len(order), m) <=> \E o \in operations : o.op = "CreateModel" /\ o.model = m
        /\ \A m, c : AddedBy(order, Len(order), m, c) <=> \E o \in operations : o.model = m /\ c \in o.columns
    <3>1. DOMAIN order = 1..Len(order)
      BY <2>1
    <3> QED
      BY <2>1, <3>1 DEF CreatedBy, AddedBy
  <2> HIDE DEF A, all, L
  <2>10. \A m : CreatedBy(all, L, m) <=> m \in DOMAIN source
    <3>1. ASSUME NEW m PROVE m \in DOMAIN source <=> \/ m \in DOMAIN snapshot
                                                      \/ \E o \in operations : o.op = "CreateModel" /\ o.model = m
      BY <1>1 DEF Delta, OnlyGrown, Creates
    <3> QED
      BY <2>7, <2>8, <2>9, <3>1
  <2>11. ASSUME NEW m \in DOMAIN source, NEW c PROVE AddedBy(all, L, m, c) <=> c \in source[m]
    <3>1. c \in source[m] <=> \/ m \in DOMAIN snapshot /\ c \in snapshot[m]
                              \/ \E o \in operations : o.model = m /\ c \in o.columns
      BY <1>1 DEF Delta, Fresh, OnlyGrown
    <3> QED
      BY <2>7, <2>8, <2>9, <3>1
  <2>12. FilesLeadToSource'
    <3>2. \A m : m \in CreatedAfter(Len(AllOperations))' <=> CreatedBy(all, L, m)
      BY <2>7, AfterNext DEF all, CreatedAfter, CreatedBy
    <3>3. \A m, c : c \in ColumnsAfter(Len(AllOperations), m)' <=> AddedBy(all, L, m, c)
      BY <2>7, AfterNext DEF all, ColumnsAfter, AddedBy
    <3>4. CreatedAfter(Len(AllOperations))' = DOMAIN source
      BY <2>10, <3>2
    <3>5. \A m \in DOMAIN source : ColumnsAfter(Len(AllOperations), m)' = source[m]
      BY <2>11, <3>3
    <3> QED
      BY <1>3, <3>4, <3>5 DEF FilesLeadToSource
  <2>13. ModelsAreKnown'
    <3>1. DOMAIN snapshot \subseteq DOMAIN source
      BY <1>1 DEF OnlyGrown
    <3>2. \A j \in DOMAIN A : A[j].model \in DOMAIN source
      BY <1>1, <3>1 DEF Replayed, ModelsAreKnown, A
    <3>3. \A j \in DOMAIN order : order[j].model \in DOMAIN source
      BY <1>1, <2>1 DEF Delta
    <3>4. \A j \in DOMAIN (A \o order) : (A \o order)[j].model \in DOMAIN source
      BY <2>1, <2>5, <3>2, <3>3
    <3>5. \A j \in DOMAIN all : all[j].model \in DOMAIN source
      BY <2>5, <3>4 DEF all
    <3>6. all \in Seq(Operation)'
      BY <2>7 DEF Operation, Column
    <3> QED
      BY <1>3, <3>5, <3>6 DEF ModelsAreKnown, all
  <2> QED
    BY <1>1, <1>3, <2>3, <2>4, <2>6, <2>12, <2>13 DEF IInv, UnderWay, PanicsAreKnown, Replayed
<1>4. \/ TopologicalOrders(operations) = {} /\ pc' = "panicked" /\ UNCHANGED <<files, operations, snapshot>>
      \/ /\ \E order \in TopologicalOrders(operations) : files' = Append(files, NewFile(order))
         /\ operations' = {} /\ snapshot' = source /\ pc' = "idle"
  BY DEF Write, NewFile
<1> QED
  BY <1>2, <1>3, <1>4

LEMMA NextIInv ==
  ASSUME TablesAreNamedAfterTypes, IInv, [Next]_vars
  PROVE  IInv'
<1>1. CASE UNCHANGED vars
  <2>1. TypeOK' /\ Latest' /\ Replayed'
    BY <1>1, FilesStay DEF IInv, TypeOK, vars
  <2>2. OnlyGrown' <=> OnlyGrown
    BY <1>1 DEF OnlyGrown, vars
  <2>3. LongCycle' <=> LongCycle
    BY <1>1 DEF LongCycle, vars
  <2>4. /\ Delta(operations)' <=> Delta(operations)
        /\ Broken(operations, cycle_edges)' <=> Broken(operations, cycle_edges)
        /\ Broken(operations, {})' <=> Broken(operations, {})
    BY <1>1 DEF Delta, Fresh, Broken, Mutual, Creates, Operation, Column, vars
  <2>5. UnderWay' /\ PanicsAreKnown'
    BY <1>1, <2>2, <2>3, <2>4 DEF IInv, UnderWay, PanicsAreKnown, vars
  <2> QED
    BY <2>1, <2>5 DEF IInv
<1>2. CASE AddModel
  BY <1>2, AddModelIInv
<1>3. CASE AddColumn
  BY <1>3, AddColumnIInv
<1>4. CASE RemoveColumn
  BY <1>4, RemoveColumnIInv
<1>5. CASE RemoveModel
  BY <1>5, RemoveModelIInv
<1>6. CASE Compare
  BY <1>6, CompareIInv
<1>7. CASE RemoveCycle
  BY <1>7, RemoveCycleIInv
<1>8. CASE Write
  BY <1>8, WriteIInv
<1> QED
  BY <1>1, <1>2, <1>3, <1>4, <1>5, <1>6, <1>7, <1>8 DEF Next

LEMMA Invariant ==
  ASSUME TablesAreNamedAfterTypes
  PROVE  Spec => []IInv
<1>1. Init => IInv
  BY InitIInv
<1>2. IInv /\ [Next]_vars => IInv'
  BY NextIInv
<1> QED
  BY <1>1, <1>2, PTL DEF Spec

(* The files that make-migrations writes can be applied one after the other *)
(* and operation by operation: no table is created twice, no column is      *)
(* added twice or to a table that does not exist, and every foreign key     *)
(* points to a table that exists by then, whichever edges the feedback arc  *)
(* set picks and whichever topological order petgraph returns.              *)
THEOREM GeneratorFilesReplay ==
  ASSUME TablesAreNamedAfterTypes
  PROVE  Spec => []Replayable
<1>1. IInv => Replayable
  BY DEF IInv, Replayed
<1> QED
  BY <1>1, Invariant, PTL

(* Applying all files gives the models of the source that the last one was  *)
(* generated from: breaking the cycles loses no foreign key and doubles     *)
(* none.                                                                    *)
THEOREM GeneratorFilesLeadToSource ==
  ASSUME TablesAreNamedAfterTypes
  PROVE  Spec => []FilesLeadToSource
<1>1. IInv => FilesLeadToSource
  BY DEF IInv, Replayed
<1> QED
  BY <1>1, Invariant, PTL

(* make-migrations panics only if something was removed from the models, or *)
(* if foreign keys lead around three models or more: the expect in          *)
(* toposort_operations holds whenever all cycles are pairs and loops.       *)
THEOREM GeneratorPanicsAreKnown ==
  ASSUME TablesAreNamedAfterTypes
  PROVE  Spec => []PanicsAreKnown
<1>1. IInv => PanicsAreKnown
  BY DEF IInv
<1> QED
  BY <1>1, Invariant, PTL

-----------------------------------------------------------------------------
(* The dependencies of the files.                                           *)
Declared(those, k) ==
  /\ k > 1 => [app |-> those[k - 1].app, number |-> those[k - 1].number] \in those[k].dependencies
  /\ \A n \in DOMAIN those[k].operations :
       \A m \in ForeignKeys(those[k].operations[n]) :
         \/ [model |-> m] \in those[k].dependencies
         \/ \E j \in DOMAIN those[k].operations :
              those[k].operations[j].op = "CreateModel" /\ those[k].operations[j].model = m

LEMMA DeclaredOneByOne ==
  /\ DependenciesDeclared <=> \A k \in DOMAIN files : Declared(files, k)
  /\ DependenciesDeclared' <=> \A k \in DOMAIN files' : Declared(files', k)
BY DEF DependenciesDeclared, Declared, ForeignKeys

LEMMA NextDeclared ==
  ASSUME AppName = CrateName, IInv, DependenciesDeclared, [Next]_vars
  PROVE  DependenciesDeclared'
<1>1. CASE files' = files
  BY <1>1, DeclaredOneByOne
<1>2. ASSUME NEW order \in TopologicalOrders(operations), files' = Append(files, NewFile(order)),
             pc = "toposort"
      PROVE  DependenciesDeclared'
  <2> DEFINE n == Len(files)
             f == NewFile(order)
  <2>1. TypeOK /\ Replayed /\ OnlyGrown /\ Delta(operations)
    BY <1>2 DEF IInv, UnderWay
  <2>2. /\ \A j \in DOMAIN order : order[j] \in operations
        /\ \A o \in operations : \E j \in DOMAIN order : order[j] = o
    BY <2>1, OrderApplies
  <2>3. f.dependencies = Dependencies(operations) /\ f.operations = order
    BY DEF NewFile
  <2>4. /\ n \in Nat /\ DOMAIN files = 1..n /\ DOMAIN files' = 1..(n + 1) /\ (n > 0 => files # <<>>)
        /\ files'[n + 1] = f /\ \A k \in 1..n : files'[k] = files[k]
    BY <1>2, <2>1 DEF TypeOK
  <2>5. n > 0 => [app |-> files[n].app, number |-> files[n].number] \in f.dependencies
    <3>1. n > 0 => files[n].app = CrateName
      BY <2>1, <2>4, LastFile DEF File
    <3> QED
      BY <2>3, <2>4, <3>1 DEF Dependencies
  <2>6. ASSUME NEW i \in DOMAIN order, NEW m \in ForeignKeys(order[i])
        PROVE  \/ [model |-> m] \in f.dependencies
               \/ \E j \in DOMAIN order : order[j].op = "CreateModel" /\ order[j].model = m
    <3>1. CASE \E o \in Creates(operations) : o.model = m
      BY <2>2, <3>1 DEF Creates
    <3>2. CASE ~ \E o \in Creates(operations) : o.model = m
      <4>1. order[i] \in operations
        BY <2>2
      <4>2. m \in UNION {ForeignKeys(o) : o \in operations}
        BY <4>1
      <4>3. m \notin {o.model : o \in Creates(operations)}
        BY <3>2
      <4>4. [model |-> m] \in Dependencies(operations)
        <5> DEFINE needed == (UNION {ForeignKeys(o) : o \in operations}) \ {o.model : o \in Creates(operations)}
        <5>1. m \in needed
          BY <4>2, <4>3
        <5>2. {[model |-> x] : x \in needed} \subseteq Dependencies(operations)
          BY DEF Dependencies
        <5> HIDE DEF needed
        <5> QED
          BY <5>1, <5>2
      <4> QED
        BY <2>3, <4>4
    <3> QED
      BY <3>1, <3>2
  <2> HIDE DEF n, f
  <2>7. ASSUME NEW k \in 1..n PROVE Declared(files', k)
    <3>1. files'[k] = files[k] /\ (k > 1 => files'[k - 1] = files[k - 1])
      BY <2>4
    <3>2. Declared(files, k)
      BY <2>4, DeclaredOneByOne
    <3> QED
      BY <3>1, <3>2 DEF Declared
  <2>8. Declared(files', n + 1)
    <3> DEFINE next == files'
               k == n + 1
    <3>1. k - 1 = n /\ next[k] = f /\ (k > 1 => n > 0 /\ next[n] = files[n])
      BY <2>4
    <3> HIDE DEF next, k
    <3>2. k > 1 => [app |-> next[k - 1].app, number |-> next[k - 1].number] \in next[k].dependencies
      BY <2>5, <3>1
    <3>3. \A i \in DOMAIN next[k].operations :
            \A m \in ForeignKeys(next[k].operations[i]) :
              \/ [model |-> m] \in next[k].dependencies
              \/ \E j \in DOMAIN next[k].operations :
                   next[k].operations[j].op = "CreateModel" /\ next[k].operations[j].model = m
      BY <2>3, <2>6, <3>1
    <3>4. Declared(next, k)
      BY <3>2, <3>3 DEF Declared
    <3> QED
      BY <3>4 DEF next, k
  <2>9. \A k \in DOMAIN files' : k \in 1..n \/ k = n + 1
    BY <2>4
  <2> QED
    BY <2>7, <2>8, <2>9, DeclaredOneByOne
<1>3. \/ files' = files
      \/ pc = "toposort" /\ \E order \in TopologicalOrders(operations) : files' = Append(files, NewFile(order))
  BY DEF Next, vars, AddModel, AddColumn, RemoveColumn, RemoveModel, Edit, Compare, RemoveCycle, Write, NewFile
<1> QED
  BY <1>1, <1>2, <1>3

(* Every file names the file before it and every model that its operations  *)
(* need and that it does not create itself: with that, the sorter can put   *)
(* it nowhere but where its operations can be applied.  Without the option  *)
(* --app-name, that is: with it, the files carry another app's name than    *)
(* the one the dependency on the last file gives.                           *)
THEOREM GeneratorDeclaresDependencies ==
  ASSUME TablesAreNamedAfterTypes, AppName = CrateName
  PROVE  Spec => []DependenciesDeclared
<1>1. Init => DependenciesDeclared
  BY DEF Init, DependenciesDeclared
<1>2. IInv /\ DependenciesDeclared /\ [Next]_vars => DependenciesDeclared'
  BY NextDeclared
<1> QED
  BY <1>1, <1>2, Invariant, PTL DEF Spec
==============================================================================
