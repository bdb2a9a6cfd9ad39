------------------------------ MODULE Orm_proofs ------------------------------
(***************************************************************************)
(* The statements of the ORM, for any number of tasks, keys, numbers and   *)
(* calls, on the three databases and under every policy of a foreign key.  *)
(***************************************************************************)
EXTENDS Orm, TLAPS

-----------------------------------------------------------------------------
(* What objects are, and what a database holds.                             *)
Key == Nat \ {0}
AKey == Key \cup {AutoValue}
AnAuthor == [model : {"Author"}, key : AKey,
             value : [kind : {"number"}, key : {None}, number : Nat]]
ALink == [kind : {"none"}, key : {None}, number : {None}]
           \cup [kind : {"key"}, key : AKey, number : {None}]
           \cup [kind : {"model"}, key : AKey, number : Nat]
ABook == [model : {"Book"}, key : AKey, value : ALink]
AnObject == AnAuthor \cup ABook

IsTable(table, columns) ==
  DOMAIN table \subseteq Key /\ \A k \in DOMAIN table : table[k] \in columns
IsRows(r) ==
  /\ DOMAIN r = Model
  /\ IsTable(r["Author"], Int)
  /\ IsTable(r["Book"], Key \cup {None})
  /\ IsValid(r)

TypeOK ==
  /\ backend \in Backend /\ policy \in Policy
  /\ IsRows(rows)
  /\ counter \in [Model -> Key]
  /\ DOMAIN object = Task /\ \A t \in Task : object[t] # None => object[t] \in AnObject
  /\ DOMAIN call = Task /\ DOMAIN inserted = Task
  /\ calls \in [Task -> Nat]

(* Generated keys are new, except where the sequence does not know of keys  *)
(* that were given.                                                         *)
KeysAreCounted ==
  backend # "postgres" => \A m \in Model : \A k \in DOMAIN rows[m] : k < counter[m]

(* The row with a key is the one that was written from an object.           *)
Column(o) == to_db_field_value(o.value)
IsRowOf(r, o, column, key) ==
  /\ key \in DOMAIN r[o.model]
  /\ o.key # AutoValue => o.key = key
  /\ column # AutoValue => r[o.model][key] = column

(* Between INSERT and SELECT the row stays as it was written until another  *)
(* task makes a call; that leaves it with fewer calls than it had.          *)
Waits(t) ==
  /\ backend = "mysql"
  /\ object[t] \in AnObject
  /\ inserted[t].key \in Key
  /\ inserted[t].others \in [Task -> Nat]
  /\ \A u \in Task \ {t} : calls[u] <= inserted[t].others[u]
  /\ Others(t) => IsRowOf(rows, object[t], Column(object[t]), inserted[t].key)

IInv ==
  /\ TypeOK
  /\ KeysAreCounted
  /\ \A t \in Task : inserted[t] # None => Waits(t)

-----------------------------------------------------------------------------
(* Objects.                                                                 *)
LEMMA Constants ==
  /\ None # AutoValue /\ None \notin Int /\ AutoValue \notin Int
  /\ None \notin Key /\ AutoValue \notin Key /\ None \notin AKey
  /\ Limit \in Nat \ {0}
BY NumberAssumption DEF Key, AKey

LEMMA AuthorIs ==
  ASSUME NEW o \in AnAuthor
  PROVE  /\ o.model = "Author" /\ o.key \in AKey /\ o.value.kind = "number"
         /\ o.value.key = None /\ o.value.number \in Nat
BY DEF AnAuthor

LEMMA BookIs ==
  ASSUME NEW o \in ABook
  PROVE  /\ o.model = "Book" /\ o.key \in AKey /\ o.value \in ALink
         /\ o.value.kind \in {"none", "key", "model"}
         /\ o.value.kind = "none" => o.value.key = None
         /\ o.value.kind # "none" => o.value.key \in AKey
BY DEF ABook, ALink

LEMMA ObjectIs ==
  ASSUME NEW o \in AnObject
  PROVE  /\ o.model \in Model /\ o.key \in AKey
         /\ o.model = "Author" <=> o \in AnAuthor
         /\ o.model = "Book" <=> o \in ABook
         /\ o.key # AutoValue => o.key \in Key
<1>1. CASE o \in AnAuthor
  <2>1. o \notin ABook
    BY <1>1, AuthorIs, BookIs
  <2> QED
    BY <1>1, <2>1, AuthorIs DEF Model, AKey
<1>2. CASE o \in ABook
  <2>1. o \notin AnAuthor
    BY <1>2, AuthorIs, BookIs
  <2> QED
    BY <1>2, <2>1, BookIs DEF Model, AKey
<1> QED
  BY <1>1, <1>2 DEF AnObject

(* What is stored of a value: an author's number is an integer, a book's    *)
(* link a key or None, or Auto.                                             *)
LEMMA AuthorColumn ==
  ASSUME NEW o \in AnAuthor
  PROVE  /\ to_db_field_value(o.value) = prepare_values(backend, o.value.number)
         /\ to_db_field_value(o.value) \in Int
         /\ to_db_field_value(o.value) # AutoValue /\ to_db_field_value(o.value) # None
<1>1. o.value.kind = "number" /\ o.value.number \in Nat
  BY AuthorIs
<1>2. o.value.number - Limit \in Int
  BY <1>1, Constants
<1>3. prepare_values(backend, o.value.number) \in Int
  BY <1>1, <1>2 DEF prepare_values
<1> QED
  BY <1>1, <1>3, Constants DEF to_db_field_value

LEMMA BookColumn ==
  ASSUME NEW o \in ABook
  PROVE  /\ to_db_field_value(o.value) = o.value.key
         /\ to_db_field_value(o.value) \in AKey \cup {None}
<1> QED
  BY BookIs DEF to_db_field_value

LEMMA ColumnIs ==
  ASSUME NEW o \in AnObject, to_db_field_value(o.value) # AutoValue
  PROVE  /\ o.model = "Author" => to_db_field_value(o.value) \in Int
         /\ o.model = "Book" => to_db_field_value(o.value) \in Key \cup {None}
<1>1. CASE o \in AnAuthor
  BY <1>1, AuthorColumn, AuthorIs
<1>2. CASE o \in ABook
  BY <1>2, BookColumn, BookIs DEF AKey
<1> QED
  BY <1>1, <1>2 DEF AnObject

(* A link is read as it was written.                                        *)
LEMMA LinkReadBack ==
  ASSUME NEW column \in Key \cup {None}
  PROVE  /\ from_db("Book", column) \in ALink
         /\ to_db_field_value(from_db("Book", column)) = column
         /\ from_db("Book", column).kind = "key" => column # None
<1>1. CASE column = None
  BY <1>1 DEF from_db, NoLink, Plain, ALink, to_db_field_value
<1>2. CASE column # None
  BY <1>2 DEF from_db, PrimaryKey, Plain, ALink, AKey, to_db_field_value
<1> QED
  BY <1>1, <1>2

LEMMA NumberReadBack ==
  ASSUME NEW column \in Int
  PROVE  /\ from_db_value(column) \in Nat
         /\ from_db("Author", column) \in [kind : {"number"}, key : {None}, number : Nat]
<1>1. column % Limit \in Nat
  BY Constants
<1>2. from_db_value(column) \in Nat
  BY <1>1, Constants DEF from_db_value
<1> QED
  BY <1>2 DEF from_db, Numbered, Plain

LEMMA ObjectWith ==
  ASSUME NEW A, NEW B, NEW C, NEW o \in [model : A, key : B, value : C], NEW x \in B, NEW y \in C
  PROVE  [o EXCEPT !.key = x, !.value = y] \in [model : A, key : B, value : C]
OBVIOUS

(* An object that takes over what was generated is as its row.              *)
LEMMA UpdatedIsObject ==
  ASSUME NEW r, IsRows(r), NEW o \in AnObject, NEW key \in Key, key \in DOMAIN r[o.model]
  PROVE  LET u == update_from_db(o, key, r[o.model][key])
         IN  /\ u \in AnObject /\ u.model = o.model
             /\ o.key # AutoValue => u.key = o.key
             /\ o.key = AutoValue => u.key = key
             /\ Column(o) # AutoValue => Column(u) = Column(o)
             /\ Column(o) = AutoValue => Column(u) = r[o.model][key]
<1> DEFINE column == r[o.model][key]
           u == update_from_db(o, key, column)
           value == IF Column(o) = AutoValue THEN from_db(o.model, column) ELSE o.value
<1>1. /\ u.model = o.model
      /\ u.key = IF o.key = AutoValue THEN key ELSE o.key
      /\ u.value = value
  <2>1. DOMAIN o = {"model", "key", "value"}
    BY DEF AnObject, AnAuthor, ABook
  <2> QED
    BY <2>1 DEF update_from_db, Column
<1>2. u.key \in AKey
  BY <1>1, ObjectIs DEF AKey
<1>3. u = [o EXCEPT !.key = u.key, !.value = u.value]
  BY <1>1 DEF update_from_db
<1>4. CASE o \in AnAuthor
  <2>1. value = o.value /\ o.model = "Author" /\ Column(o) # AutoValue
    BY <1>4, AuthorColumn, AuthorIs DEF Column
  <2>2. u \in AnAuthor
    <3>1. o.value \in [kind : {"number"}, key : {None}, number : Nat]
      BY <1>4 DEF AnAuthor
    <3> HIDE DEF u, value
    <3> QED
      BY <1>1, <1>2, <1>3, <1>4, <2>1, <3>1, ObjectWith DEF AnAuthor
  <2>3. Column(u) = Column(o)
    BY <1>1, <2>1 DEF Column
  <2> QED
    BY <1>1, <2>1, <2>2, <2>3 DEF AnObject
<1>5. CASE o \in ABook
  <2>1. o.model = "Book" /\ column \in Key \cup {None}
    BY <1>5, BookIs DEF IsRows, IsTable
  <2>2. value \in ALink
    BY <1>5, <2>1, LinkReadBack, BookIs
  <2>3. u \in ABook
    <3> HIDE DEF u, value
    <3> QED
      BY <1>1, <1>2, <1>3, <1>5, <2>2, ObjectWith DEF ABook
  <2>4. Column(o) # AutoValue => Column(u) = Column(o)
    BY <1>1 DEF Column
  <2>5. Column(o) = AutoValue => Column(u) = column
    <3>1. Column(o) = AutoValue => u.value = from_db("Book", column)
      BY <1>1, <2>1
    <3> HIDE DEF u, column, value
    <3> QED
      BY <2>1, <3>1, LinkReadBack DEF Column
  <2> QED
    BY <1>1, <2>3, <2>4, <2>5 DEF AnObject
<1> QED
  BY <1>4, <1>5 DEF AnObject

-----------------------------------------------------------------------------
(* Tables.                                                                  *)
LEMMA WithoutIs ==
  ASSUME NEW table, NEW keys
  PROVE  LET w == Without(table, keys)
         IN DOMAIN w = DOMAIN table \ keys /\ \A k \in DOMAIN w : w[k] = table[k]
BY DEF Without

Put(m, key, column) == [rows EXCEPT ![m] = With(@, key, column)]
LEMMA PutIs ==
  ASSUME IsRows(rows), NEW m \in Model, NEW key, NEW column
  PROVE  LET r == Put(m, key, column)
         IN  /\ DOMAIN r = Model
             /\ \A n \in Model : n # m => r[n] = rows[n]
             /\ DOMAIN r[m] = DOMAIN rows[m] \cup {key}
             /\ r[m][key] = column
             /\ \A k \in DOMAIN rows[m] : k # key => r[m][k] = rows[m][k]
<1>1. Put(m, key, column)[m] = With(rows[m], key, column)
  BY DEF Put, IsRows
<1>2. DOMAIN Put(m, key, column) = Model /\ \A n \in Model : n # m => Put(m, key, column)[n] = rows[n]
  BY DEF Put, IsRows
<1> DEFINE w == With(rows[m], key, column)
<1>3. /\ DOMAIN w = DOMAIN rows[m] \cup {key} /\ w[key] = column
      /\ \A k \in DOMAIN rows[m] : k # key => w[k] = rows[m][k]
  BY DEF With
<1> DEFINE r == Put(m, key, column)
<1>4. DOMAIN r = Model /\ r[m] = w /\ \A n \in Model : n # m => r[n] = rows[n]
  BY <1>1, <1>2
<1> HIDE DEF w, r
<1> QED
  BY <1>3, <1>4 DEF r

(* Both tables of a record that is made of them.                            *)
LEMMA RecordIs ==
  ASSUME NEW a, NEW b
  PROVE  LET r == [Author |-> a, Book |-> b]
         IN DOMAIN r = Model /\ r["Author"] = a /\ r["Book"] = b
BY DEF Model

LEMMA RekeyedIs ==
  ASSUME IsRows(rows), NEW from, NEW to, NEW column
  PROVE  LET r == Rekeyed(from, to, column)
         IN  /\ DOMAIN r = Model
             /\ DOMAIN r["Author"] = (DOMAIN rows["Author"] \ {from}) \cup {to}
             /\ r["Author"][to] = column
             /\ \A k \in DOMAIN rows["Author"] \ {from} : k # to => r["Author"][k] = rows["Author"][k]
             /\ DOMAIN r["Book"] = DOMAIN rows["Book"]
             /\ \A b \in DOMAIN rows["Book"] :
                  /\ rows["Book"][b] # from => r["Book"][b] = rows["Book"][b]
                  /\ rows["Book"][b] = from =>
                       /\ policy.on_update \in Stays => r["Book"][b] = from
                       /\ policy.on_update = "Cascade" => r["Book"][b] = to
                       /\ policy.on_update = "SetNone" => r["Book"][b] = None
<1> DEFINE a == With(Without(rows["Author"], {from}), to, column)
           b == [k \in DOMAIN rows["Book"] |->
                  IF k \notin LinkedTo(from) THEN rows["Book"][k]
                  ELSE CASE policy.on_update \in Stays -> from [] policy.on_update = "Cascade" -> to
                         [] policy.on_update = "SetNone" -> None]
           r == Rekeyed(from, to, column)
<1>1. r = [Author |-> a, Book |-> b]
  BY DEF Rekeyed
<1>2. /\ DOMAIN a = (DOMAIN rows["Author"] \ {from}) \cup {to}
      /\ a[to] = column
      /\ \A k \in DOMAIN rows["Author"] \ {from} : k # to => a[k] = rows["Author"][k]
  <2> DEFINE w == Without(rows["Author"], {from})
  <2>1. DOMAIN w = DOMAIN rows["Author"] \ {from} /\ \A k \in DOMAIN w : w[k] = rows["Author"][k]
    BY WithoutIs
  <2> HIDE DEF w
  <2>2. /\ DOMAIN With(w, to, column) = DOMAIN w \cup {to}
        /\ With(w, to, column)[to] = column
        /\ \A k \in DOMAIN w : k # to => With(w, to, column)[k] = w[k]
    BY DEF With
  <2> QED
    BY <2>1, <2>2 DEF w
<1>3. /\ DOMAIN b = DOMAIN rows["Book"]
      /\ \A k \in DOMAIN rows["Book"] :
           /\ rows["Book"][k] # from => b[k] = rows["Book"][k]
           /\ rows["Book"][k] = from =>
                       /\ policy.on_update \in Stays => b[k] = from
                       /\ policy.on_update = "Cascade" => b[k] = to
                       /\ policy.on_update = "SetNone" => b[k] = None
  BY DEF LinkedTo, Stays
<1> HIDE DEF a, b, r
<1>4. DOMAIN r = Model /\ r["Author"] = a /\ r["Book"] = b
  BY <1>1, RecordIs
<1> QED
  BY <1>2, <1>3, <1>4 DEF r

LEMMA DeletedIs ==
  ASSUME IsRows(rows), policy \in Policy, NEW m \in Model, NEW key
  PROVE  LET r == Deleted(m, {key})
         IN  /\ DOMAIN r = Model
             /\ \A n \in Model : DOMAIN r[n] \subseteq DOMAIN rows[n]
             /\ \A k \in DOMAIN r["Author"] : r["Author"][k] = rows["Author"][k]
             /\ \A k \in DOMAIN r["Book"] :
                  r["Book"][k] # rows["Book"][k] =>
                    /\ m = "Author" /\ policy.on_delete = "SetNone" /\ r["Book"][k] = None
                    /\ rows["Book"][k] \notin DOMAIN r["Author"]
<1> DEFINE r == Deleted(m, {key})
<1>1. CASE m = "Book"
  <2>1. r = [rows EXCEPT !["Book"] = Without(@, {key})]
    BY <1>1 DEF Deleted
  <2>2. DOMAIN r = Model /\ r["Author"] = rows["Author"] /\ r["Book"] = Without(rows["Book"], {key})
    BY <2>1 DEF IsRows, Model
  <2> DEFINE w == Without(rows["Book"], {key})
  <2>3. DOMAIN w = DOMAIN rows["Book"] \ {key} /\ \A k \in DOMAIN w : w[k] = rows["Book"][k]
    BY WithoutIs
  <2> HIDE DEF r, w
  <2>4. DOMAIN r = Model /\ r["Author"] = rows["Author"] /\ r["Book"] = w
    BY <2>2 DEF w
  <2> QED
    BY <1>1, <2>3, <2>4 DEF Model, r
<1>2. CASE m = "Author"
  <2> DEFINE linked == UNION {LinkedTo(k) : k \in {key}}
             a == Without(rows["Author"], {key})
             b == CASE policy.on_delete \in Stays -> rows["Book"]
                    [] policy.on_delete = "Cascade" -> Without(rows["Book"], linked)
                    [] policy.on_delete = "SetNone" ->
                         [k \in DOMAIN rows["Book"] |-> IF k \in linked THEN None ELSE rows["Book"][k]]
  <2>1. r = [Author |-> a, Book |-> b]
    BY <1>2 DEF Deleted
  <2>2. \A k : k \in linked <=> k \in DOMAIN rows["Book"] /\ rows["Book"][k] = key
    BY DEF LinkedTo
  <2>3. DOMAIN a = DOMAIN rows["Author"] \ {key} /\ \A k \in DOMAIN a : a[k] = rows["Author"][k]
    BY WithoutIs
  <2>4. /\ DOMAIN b \subseteq DOMAIN rows["Book"]
        /\ \A k \in DOMAIN b : b[k] # rows["Book"][k] =>
             policy.on_delete = "SetNone" /\ b[k] = None /\ rows["Book"][k] = key
    <3> HIDE DEF linked
    <3>1. CASE policy.on_delete \in Stays
      BY <3>1 DEF Stays
    <3>2. CASE policy.on_delete = "Cascade"
      <4>1. b = Without(rows["Book"], linked)
        BY <3>2
      <4> QED
        <5> DEFINE w == Without(rows["Book"], linked)
        <5>1. DOMAIN w = DOMAIN rows["Book"] \ linked /\ \A k \in DOMAIN w : w[k] = rows["Book"][k]
          BY WithoutIs
        <5>2. b = w
          BY <4>1
        <5> HIDE DEF w, b
        <5> QED
          BY <5>1, <5>2
    <3>3. CASE policy.on_delete = "SetNone"
      <4>1. b = [k \in DOMAIN rows["Book"] |-> IF k \in linked THEN None ELSE rows["Book"][k]]
        BY <3>3
      <4> HIDE DEF b
      <4> QED
        BY <2>2, <3>3, <4>1
    <3> QED
      BY <3>1, <3>2, <3>3 DEF Policy, OnChange, Stays
  <2> HIDE DEF a, b, r
  <2>5. DOMAIN r = Model /\ r["Author"] = a /\ r["Book"] = b
    BY <2>1, RecordIs
  <2> QED
    BY <1>2, <2>3, <2>4, <2>5 DEF Model, r
<1> QED
  BY <1>1, <1>2 DEF Model

-----------------------------------------------------------------------------
(* INSERT.                                                                  *)
LEMMA NewKeyIs ==
  ASSUME counter \in [Model -> Key], NEW o \in AnObject
  PROVE  NewKey(o) \in Key
BY ObjectIs DEF NewKey

LEMMA ClashIs ==
  ASSUME IsRows(rows), counter \in [Model -> Key], NEW o \in AnObject
  PROVE  /\ Clash(o) = None => NewKey(o) \notin DOMAIN rows[o.model]
         /\ Clash(o) # None => Clash(o) \in DOMAIN rows[o.model]
         /\ Clash(o) \notin {None, NewKey(o)} =>
              /\ backend = "mysql" /\ o \in AnAuthor
              /\ rows["Author"][Clash(o)] = Column(o)
              /\ NewKey(o) \notin DOMAIN rows["Author"]
<1> DEFINE same == {j \in DOMAIN rows["Author"] : rows["Author"][j] = Column(o)}
<1>0. NewKey(o) \in Key /\ None \notin Key /\ o.model \in Model
  BY NewKeyIs, Constants, ObjectIs
<1>1. CASE NewKey(o) \in DOMAIN rows[o.model]
  <2>1. Clash(o) = NewKey(o)
    BY <1>1 DEF Clash
  <2> QED
    BY <1>0, <1>1, <2>1
<1>2. CASE NewKey(o) \notin DOMAIN rows[o.model] /\ backend = "mysql" /\ o.model = "Author" /\ same # {}
  <2>1. Clash(o) = Max(same)
    BY <1>2 DEF Clash, Column
  <2>2. PICK j \in same : TRUE
    BY <1>2
  <2>3. \A i \in same : i = j
    BY DEF IsRows, IsValid
  <2>4. j \in Nat
    BY DEF IsRows, IsTable, Key
  <2>5. \A y \in same : j >= y
    BY <2>3, <2>4
  <2> HIDE DEF same
  <2>6. Max(same) \in same
    BY <2>2, <2>5 DEF Max
  <2>7. Clash(o) \in DOMAIN rows["Author"] /\ rows["Author"][Clash(o)] = Column(o)
    BY <2>1, <2>6 DEF same
  <2> QED
    BY <1>0, <1>2, <2>7, ObjectIs DEF IsRows, IsTable
<1>3. CASE /\ NewKey(o) \notin DOMAIN rows[o.model]
           /\ ~(backend = "mysql" /\ o.model = "Author" /\ same # {})
  <2>1. Clash(o) = None
    BY <1>3 DEF Clash, Column
  <2> QED
    BY <1>3, <2>1
<1> QED
  BY <1>1, <1>2, <1>3

(* The row that a statement leaves: a new one, or the one of the clash, at  *)
(* its own key or at the object's.                                          *)
Kept(o) == IF Column(o) = AutoValue THEN rows[o.model][Clash(o)] ELSE Column(o)
Stored(o) ==
  IF Clash(o) # None THEN Kept(o) ELSE IF Column(o) = AutoValue THEN None ELSE Column(o)
Moves(o) == Clash(o) \notin {None, NewKey(o)} /\ o.key # AutoValue
LEMMA StatementIs ==
  ASSUME IsRows(rows), counter \in [Model -> Key], NEW o \in AnObject, NEW update \in BOOLEAN
  PROVE  LET s == Statement(o, update)
         IN  /\ s.clash <=> Clash(o) # None /\ ~Updates(o, update)
             /\ ~Moves(o) => /\ s.key = IF Clash(o) = None THEN NewKey(o) ELSE Clash(o)
                             /\ s.rows = Put(o.model, s.key, Stored(o))
             /\ Moves(o) => s.key = o.key /\ s.rows = Rekeyed(Clash(o), o.key, Stored(o))
<1> DEFINE s == Statement(o, update)
           to == IF o.key = AutoValue THEN Clash(o) ELSE o.key
<1>1. CASE Clash(o) = None
  <2>1. s = [key |-> NewKey(o), clash |-> FALSE, rows |-> Put(o.model, NewKey(o), Stored(o))]
    BY <1>1 DEF Statement, Put, Stored, Column
  <2> HIDE DEF s
  <2>2. s.key = NewKey(o) /\ s.clash = FALSE /\ s.rows = Put(o.model, NewKey(o), Stored(o))
    BY <2>1
  <2> QED
    BY <1>1, <2>2 DEF s, Moves
<1>2. CASE Clash(o) # None
  <2>0. Stored(o) = Kept(o)
    BY <1>2 DEF Stored
  <2>1. s = [key |-> to, clash |-> ~Updates(o, update),
             rows |-> IF to = Clash(o) THEN Put(o.model, to, Stored(o)) ELSE Rekeyed(Clash(o), to, Stored(o))]
    BY <1>2, <2>0 DEF Statement, Put, Kept, Column
  <2> HIDE DEF s
  <2>2. /\ s.key = to /\ s.clash = ~Updates(o, update)
        /\ to = Clash(o) => s.rows = Put(o.model, to, Stored(o))
        /\ to # Clash(o) => s.rows = Rekeyed(Clash(o), to, Stored(o))
    BY <2>1
  <2>3. o.key # AutoValue => NewKey(o) = o.key
    BY DEF NewKey
  <2>4. Moves(o) <=> to # Clash(o)
    BY <1>2, <2>3 DEF Moves
  <2>5. Moves(o) => to = o.key
    BY DEF Moves
  <2> HIDE DEF to
  <2> QED
    BY <1>2, <2>2, <2>4, <2>5 DEF s
<1> QED
  BY <1>1, <1>2

(* What it stores is what the object says.                                  *)
LEMMA StoredIs ==
  ASSUME IsRows(rows), counter \in [Model -> Key], NEW o \in AnObject
  PROVE  /\ Column(o) # AutoValue => Stored(o) = Column(o)
         /\ o.model = "Author" => Stored(o) \in Int /\ Stored(o) = Column(o)
         /\ o.model = "Book" => Stored(o) \in Key \cup {None}
         /\ Moves(o) => o \in AnAuthor /\ backend = "mysql"
<1>1. Column(o) # AutoValue => Stored(o) = Column(o)
  BY DEF Stored, Kept
<1>2. Moves(o) => o \in AnAuthor /\ backend = "mysql"
  BY ClashIs DEF Moves
<1>3. CASE o \in AnAuthor
  BY <1>1, <1>2, <1>3, AuthorColumn, AuthorIs DEF Column
<1>4. CASE o \in ABook
  <2>1. Column(o) \in AKey \cup {None} /\ o.model = "Book"
    BY <1>4, BookColumn, BookIs DEF Column
  <2>2. CASE Column(o) # AutoValue
    BY <1>1, <1>2, <2>1, <2>2 DEF AKey
  <2>3. CASE Column(o) = AutoValue /\ Clash(o) = None
    BY <1>1, <1>2, <2>1, <2>3 DEF Stored
  <2>4. CASE Column(o) = AutoValue /\ Clash(o) # None
    <3>1. Stored(o) = rows["Book"][Clash(o)]
      BY <2>1, <2>4 DEF Stored, Kept
    <3>2. Clash(o) \in DOMAIN rows["Book"]
      BY <2>1, <2>4, ClashIs
    <3> QED
      BY <1>1, <1>2, <2>1, <3>1, <3>2 DEF IsRows, IsTable
  <2> QED
    BY <2>2, <2>3, <2>4
<1> QED
  BY <1>3, <1>4 DEF AnObject

(* What it does to the tables, if they are valid afterwards.                *)
LEMMA StatementRows ==
  ASSUME IsRows(rows), counter \in [Model -> Key], policy \in Policy, NEW o \in AnObject, NEW update \in BOOLEAN,
         Statement(o, update).key \in Key, IsValid(Statement(o, update).rows)
  PROVE  LET s == Statement(o, update)
         IN  /\ IsRows(s.rows)
             /\ s.key \in DOMAIN s.rows[o.model] /\ s.rows[o.model][s.key] = Stored(o)
             /\ o.key # AutoValue => s.key = o.key
             /\ s.key = NewKey(o) \/ s.key \in DOMAIN rows[o.model]
             /\ \A m \in Model : DOMAIN s.rows[m] \subseteq DOMAIN rows[m] \cup {s.key}
             /\ \A m \in Model : m # o.model => DOMAIN s.rows[m] = DOMAIN rows[m]
<1> DEFINE s == Statement(o, update)
           r == s.rows
           key == s.key
<1>0. o.model \in Model /\ Stored(o) = Stored(o)
  BY ObjectIs
<1>1. o.key # AutoValue => NewKey(o) = o.key
  BY DEF NewKey
<1>2. CASE ~Moves(o)
  <2>1. key = (IF Clash(o) = None THEN NewKey(o) ELSE Clash(o)) /\ r = Put(o.model, key, Stored(o))
    BY <1>2, StatementIs
  <2>2. o.key # AutoValue => key = o.key
    BY <1>1, <1>2, <2>1 DEF Moves
  <2>3. key = NewKey(o) \/ key \in DOMAIN rows[o.model]
    BY <2>1, ClashIs
  <2> HIDE DEF r, key
  <2>4. /\ DOMAIN r = Model
        /\ \A n \in Model : n # o.model => r[n] = rows[n]
        /\ DOMAIN r[o.model] = DOMAIN rows[o.model] \cup {key}
        /\ r[o.model][key] = Stored(o)
        /\ \A k \in DOMAIN rows[o.model] : k # key => r[o.model][k] = rows[o.model][k]
    BY <1>0, <2>1, PutIs
  <2>5. key \in Key /\ IsValid(r)
    BY DEF r, key
  <2>6. IsTable(r["Author"], Int)
    <3>1. CASE o.model = "Author"
      <4>1. Stored(o) \in Int
        BY <3>1, StoredIs
      <4> QED
        BY <2>4, <2>5, <3>1, <4>1 DEF IsRows, IsTable
    <3>2. CASE o.model # "Author"
      BY <2>4, <3>2 DEF IsRows, Model
    <3> QED
      BY <3>1, <3>2
  <2>7. IsTable(r["Book"], Key \cup {None})
    <3>1. CASE o.model = "Book"
      <4>1. Stored(o) \in Key \cup {None}
        BY <3>1, StoredIs
      <4> QED
        BY <2>4, <2>5, <3>1, <4>1 DEF IsRows, IsTable
    <3>2. CASE o.model # "Book"
      BY <2>4, <3>2 DEF IsRows, Model
    <3> QED
      BY <3>1, <3>2
  <2>8. IsRows(r)
    BY <2>4, <2>5, <2>6, <2>7 DEF IsRows
  <2> QED
    BY <2>2, <2>3, <2>4, <2>8 DEF r, key
<1>3. CASE Moves(o)
  <2>1. key = o.key /\ r = Rekeyed(Clash(o), o.key, Stored(o)) /\ o.key # AutoValue
    BY <1>3, StatementIs DEF Moves
  <2>2. o \in AnAuthor /\ o.model = "Author" /\ Stored(o) \in Int
    BY <1>3, StoredIs, AuthorIs
  <2>3. Clash(o) \in DOMAIN rows["Author"]
    BY <1>3, <2>2, ClashIs DEF Moves
  <2> HIDE DEF r, key
  <2>4. /\ DOMAIN r = Model
        /\ DOMAIN r["Author"] = (DOMAIN rows["Author"] \ {Clash(o)}) \cup {key}
        /\ r["Author"][key] = Stored(o)
        /\ \A k \in DOMAIN rows["Author"] \ {Clash(o)} : k # key => r["Author"][k] = rows["Author"][k]
        /\ DOMAIN r["Book"] = DOMAIN rows["Book"]
        /\ \A b \in DOMAIN rows["Book"] :
              r["Book"][b] \in {rows["Book"][b], Clash(o), key, None}
    <3>1. LET q == Rekeyed(Clash(o), o.key, Stored(o))
         IN  /\ DOMAIN q = Model
             /\ DOMAIN q["Author"] = (DOMAIN rows["Author"] \ {Clash(o)}) \cup {o.key}
             /\ q["Author"][o.key] = Stored(o)
             /\ \A k \in DOMAIN rows["Author"] \ {Clash(o)} : k # o.key => q["Author"][k] = rows["Author"][k]
             /\ DOMAIN q["Book"] = DOMAIN rows["Book"]
             /\ \A b \in DOMAIN rows["Book"] :
                  /\ rows["Book"][b] # Clash(o) => q["Book"][b] = rows["Book"][b]
                  /\ rows["Book"][b] = Clash(o) =>
                       /\ policy.on_update \in Stays => q["Book"][b] = Clash(o)
                       /\ policy.on_update = "Cascade" => q["Book"][b] = o.key
                       /\ policy.on_update = "SetNone" => q["Book"][b] = None
      BY RekeyedIs
    <3> QED
      BY <2>1, <3>1 DEF Policy, OnChange, Stays
  <2>5. key \in Key /\ IsValid(r)
    BY DEF r, key
  <2>6. Clash(o) \in Key
    BY <2>3 DEF IsRows, IsTable
  <2>7. IsTable(r["Author"], Int)
    BY <2>2, <2>4, <2>5 DEF IsRows, IsTable
  <2>8. IsTable(r["Book"], Key \cup {None})
    BY <2>4, <2>5, <2>6 DEF IsRows, IsTable
  <2>9. IsRows(r)
    BY <2>4, <2>5, <2>7, <2>8 DEF IsRows
  <2>10. key = NewKey(o)
    BY <1>1, <2>1
  <2> QED
    BY <2>1, <2>2, <2>4, <2>9, <2>10 DEF r, key, Model
<1> QED
  BY <1>2, <1>3

(* Which rows that were there it changes.                                   *)
LEMMA StatementChanges ==
  ASSUME IsRows(rows), counter \in [Model -> Key], policy \in Policy, NEW o \in AnObject, NEW update \in BOOLEAN,
         NEW m \in Model, NEW k \in DOMAIN rows[m],
         LET r == Statement(o, update).rows IN k \notin DOMAIN r[m] \/ r[m][k] # rows[m][k]
  PROVE  /\ Clash(o) # None
         /\ m = o.model => k = Clash(o)
         /\ m # o.model => Moves(o) /\ m = "Book" /\ rows["Book"][k] = Clash(o)
<1> DEFINE r == Statement(o, update).rows
           key == Statement(o, update).key
<1>0. o.model \in Model
  BY ObjectIs
<1>1. CASE ~Moves(o)
  <2>1. key = (IF Clash(o) = None THEN NewKey(o) ELSE Clash(o)) /\ r = Put(o.model, key, Stored(o))
    BY <1>1, StatementIs
  <2> HIDE DEF r, key
  <2>2. /\ \A n \in Model : n # o.model => r[n] = rows[n]
        /\ DOMAIN r[o.model] = DOMAIN rows[o.model] \cup {key}
        /\ \A j \in DOMAIN rows[o.model] : j # key => r[o.model][j] = rows[o.model][j]
    BY <1>0, <2>1, PutIs
  <2>3. k \notin DOMAIN r[m] \/ r[m][k] # rows[m][k]
    BY DEF r
  <2>4. m = o.model
    BY <2>2, <2>3
  <2>5. k = key
    BY <2>2, <2>3, <2>4
  <2>6. Clash(o) # None
    BY <2>1, <2>4, <2>5, ClashIs
  <2> QED
    BY <2>1, <2>4, <2>5, <2>6
<1>2. CASE Moves(o)
  <2>1. r = Rekeyed(Clash(o), o.key, Stored(o)) /\ o.key # AutoValue
    BY <1>2, StatementIs DEF Moves
  <2>2. o.model = "Author" /\ Clash(o) # None
    BY <1>2, StoredIs, AuthorIs DEF Moves
  <2>3. o.key \notin DOMAIN rows["Author"]
    BY <1>2, <2>1, <2>2, ClashIs DEF Moves, NewKey
  <2> HIDE DEF r
  <2>4. /\ DOMAIN r["Author"] = (DOMAIN rows["Author"] \ {Clash(o)}) \cup {o.key}
        /\ \A j \in DOMAIN rows["Author"] \ {Clash(o)} : j # o.key => r["Author"][j] = rows["Author"][j]
        /\ DOMAIN r["Book"] = DOMAIN rows["Book"]
        /\ \A b \in DOMAIN rows["Book"] : rows["Book"][b] # Clash(o) => r["Book"][b] = rows["Book"][b]
    <3>1. LET q == Rekeyed(Clash(o), o.key, Stored(o))
         IN  /\ DOMAIN q["Author"] = (DOMAIN rows["Author"] \ {Clash(o)}) \cup {o.key}
             /\ \A j \in DOMAIN rows["Author"] \ {Clash(o)} : j # o.key => q["Author"][j] = rows["Author"][j]
             /\ DOMAIN q["Book"] = DOMAIN rows["Book"]
             /\ \A b \in DOMAIN rows["Book"] : rows["Book"][b] # Clash(o) => q["Book"][b] = rows["Book"][b]
      BY RekeyedIs
    <3> QED
      BY <2>1, <3>1
  <2>5. k \notin DOMAIN r[m] \/ r[m][k] # rows[m][k]
    BY DEF r
  <2>6. m = "Author" => k = Clash(o)
    BY <2>3, <2>4, <2>5
  <2>7. m = "Book" => rows["Book"][k] = Clash(o)
    BY <2>4, <2>5
  <2> QED
    BY <1>2, <2>2, <2>6, <2>7 DEF Model
<1> QED
  BY <1>1, <1>2

-----------------------------------------------------------------------------
(* Calls.                                                                   *)
LEMMA EndsIs ==
  ASSUME TypeOK, NEW t \in Task, NEW op, NEW given, NEW result, NEW left, Ends(t, op, given, result, left)
  PROVE  /\ DOMAIN call' = Task /\ call'[t] = Call(op, given, result)
         /\ DOMAIN object' = Task /\ object'[t] = left
         /\ \A u \in Task \ {t} : call'[u] = call[u] /\ object'[u] = object[u]
BY DEF Ends, TypeOK

LEMMA CallIs ==
  ASSUME NEW op, NEW given, NEW result
  PROVE  LET c == Call(op, given, result) IN c.op = op /\ c.object = given /\ c.result = result
BY DEF Call

LEMMA CountsIs ==
  ASSUME TypeOK, NEW t \in Task, Idle(t), Counts(t)
  PROVE  /\ calls' \in [Task -> Nat] /\ calls'[t] < calls[t]
         /\ \A u \in Task \ {t} : calls'[u] = calls[u]
<1>1. calls[t] \in Nat /\ calls[t] > 0
  BY DEF TypeOK, Idle
<1>2. calls[t] - 1 \in Nat /\ calls[t] - 1 < calls[t]
  BY <1>1
<1> QED
  BY <1>2 DEF Counts, TypeOK

(* Only the task that acts has a new call.                                  *)
LEMMA ActsIs ==
  ASSUME TypeOK, NEW t \in Task, NEW op, NEW given, NEW result, NEW left, Ends(t, op, given, result, left),
         Counts(t) \/ UNCHANGED calls, NEW u \in Task, Acts(u)
  PROVE  u = t
<1>1. u # t => call'[u] = call[u]
  BY EndsIs
<1>2. u # t => calls'[u] = calls[u]
  BY DEF Counts, TypeOK
<1> QED
  BY <1>1, <1>2 DEF Acts

(* A call of a task is noticed by those that wait.                          *)
LEMMA OthersWait ==
  ASSUME TypeOK, NEW t \in Task, Idle(t), Counts(t), UNCHANGED backend,
         NEW u \in Task \ {t}, object'[u] = object[u], inserted'[u] = inserted[u], Waits(u)
  PROVE  Waits(u)'
<1>1. /\ calls' \in [Task -> Nat] /\ calls'[t] < calls[t]
      /\ \A v \in Task \ {t} : calls'[v] = calls[v]
  BY CountsIs
<1>2. calls \in [Task -> Nat] /\ inserted[u].others \in [Task -> Nat] /\ calls[t] <= inserted[u].others[t]
  BY DEF TypeOK, Waits
<1>3. calls'[t] < inserted[u].others[t]
  BY <1>1, <1>2
<1>4. \A v \in Task \ {u} : calls'[v] <= inserted[u].others[v]
  BY <1>1, <1>2, <1>3 DEF Waits
<1>5. ~Others(u)'
  BY <1>1, <1>2, <1>3 DEF Others
<1> QED
  BY <1>4, <1>5 DEF Waits

(* So the invariant is kept by a call whose task does not wait afterwards.  *)
LEMMA CallKeeps ==
  ASSUME IInv, NEW t \in Task, Idle(t), Counts(t), UNCHANGED <<backend, policy, inserted>>,
         NEW op, NEW given, NEW result, NEW left, Ends(t, op, given, result, left),
         left # None => left \in AnObject,
         IsRows(rows'), counter' \in [Model -> Key], KeysAreCounted'
  PROVE  IInv'
<1>1. TypeOK'
  <2>1. DOMAIN object' = Task /\ DOMAIN call' = Task /\ \A u \in Task : object'[u] # None => object'[u] \in AnObject
    BY EndsIs DEF IInv, TypeOK
  <2>2. calls' \in [Task -> Nat]
    BY CountsIs DEF IInv
  <2>3. IsRows(rows)'
    BY DEF IsRows, IsTable, IsValid
  <2> QED
    BY <2>1, <2>2, <2>3 DEF IInv, TypeOK
<1>2. ASSUME NEW u \in Task, inserted'[u] # None PROVE Waits(u)'
  <2>1. u # t
    BY <1>2 DEF Idle
  <2>2. object'[u] = object[u]
    BY <2>1, EndsIs DEF IInv
  <2> QED
    BY <1>2, <2>1, <2>2, OthersWait DEF IInv
<1> QED
  BY <1>1, <1>2 DEF IInv

(* Objects that a program passes are objects.                               *)
LEMMA ProgramPasses ==
  ASSUME TypeOK, NEW t \in Task
  PROVE  New(t) \cup Own(t) \subseteq AnObject
<1>0. GivenKeys \subseteq Key /\ Numbers \subseteq Nat /\ Key \subseteq AKey /\ AutoValue \in AKey
  BY OrmAssumption, Constants DEF Key, AKey
<1>1. \A n \in Numbers : Numbered(n) \in [kind : {"number"}, key : {None}, number : Nat]
  BY <1>0 DEF Numbered, Plain
<1>2. Links(t) \subseteq ALink
  <2>1. NoLink \in ALink /\ \A key \in AKey : PrimaryKey(key) \in ALink /\ \A n \in Nat : Held(key, n) \in ALink
    BY DEF NoLink, PrimaryKey, Held, Plain, ALink
  <2>2. CASE object[t] # None /\ object[t].model = "Author"
    <3>1. object[t].key \in AKey /\ object[t].value.number \in Nat
      BY <2>2, ObjectIs, AuthorIs DEF TypeOK
    <3> QED
      BY <1>0, <2>1, <2>2, <3>1 DEF Links
  <2>3. CASE ~(object[t] # None /\ object[t].model = "Author")
    BY <1>0, <2>1, <2>3 DEF Links
  <2> QED
    BY <2>2, <2>3
<1>3. New(t) \subseteq AnObject
  <2>1. \A key \in AKey, n \in Numbers : Object("Author", key, Numbered(n)) \in AnAuthor
    BY <1>1 DEF Object, AnAuthor
  <2>2. \A link \in ALink : Object("Book", AutoValue, link) \in ABook
    BY <1>0 DEF Object, ABook
  <2> QED
    BY <1>0, <1>2, <2>1, <2>2 DEF New, AnObject
<1>4. Own(t) \subseteq AnObject
  <2> SUFFICES ASSUME object[t] # None, NEW v \in {object[t].value} \cup IF object[t].model = "Author"
                                       THEN {Numbered(n) : n \in Numbers} ELSE Links(t)
               PROVE  [object[t] EXCEPT !.value = v] \in AnObject
    BY DEF Own
  <2>1. object[t] \in AnObject
    BY DEF TypeOK
  <2>2. CASE object[t] \in AnAuthor
    <3>1. object[t].model = "Author" /\ object[t].value \in [kind : {"number"}, key : {None}, number : Nat]
      BY <2>2 DEF AnAuthor
    <3>2. v \in [kind : {"number"}, key : {None}, number : Nat]
      BY <1>1, <3>1
    <3> QED
      BY <2>2, <3>2 DEF AnAuthor, AnObject
  <2>3. CASE object[t] \in ABook
    <3>1. object[t].model # "Author" /\ object[t].value \in ALink
      BY <2>3 DEF ABook
    <3>2. v \in ALink
      BY <1>2, <3>1
    <3> QED
      BY <2>3, <3>2 DEF ABook, AnObject
  <2> QED
    BY <2>1, <2>2, <2>3 DEF AnObject
<1> QED
  BY <1>3, <1>4

-----------------------------------------------------------------------------
(* INSERT, up to its first await.                                           *)
Fails(o, op) == LET s == Statement(o, op = "save") IN s.clash \/ ~IsValid(s.rows)
StatementKey(o, op) == Statement(o, op = "save").key

LEMMA InsertIs ==
  ASSUME NEW t, NEW o, NEW op, insert_or_update_impl(t, o, op)
  PROVE  /\ Idle(t) /\ Counts(t) /\ UNCHANGED <<backend, policy>>
         /\ StatementKey(o, op) \in Key
         /\ counter' = Counted(o, Fails(o, op))
         /\ rows' = IF Fails(o, op) THEN rows ELSE Statement(o, op = "save").rows
<1>1. Keys \subseteq Key
  BY OrmAssumption DEF Key
<1> QED
  BY <1>1 DEF insert_or_update_impl, Fails, StatementKey

(* Its end: an error, or the object as it is or with what was generated, or *)
(* the wait for the SELECT.                                                 *)
LEMMA InsertEnds ==
  ASSUME NEW t, NEW o, NEW op, insert_or_update_impl(t, o, op)
  PROVE  LET key == StatementKey(o, op)
         IN \/ Fails(o, op) /\ Ends(t, op, o, "error", o) /\ UNCHANGED inserted
            \/ ~Fails(o, op) /\ ~HasAuto(o) /\ Ends(t, op, o, "ok", o) /\ UNCHANGED inserted
            \/ /\ ~Fails(o, op)
               /\ Ends(t, op, o, "ok", update_from_db(o, key, rows'[o.model][key])) /\ UNCHANGED inserted
            \/ /\ ~Fails(o, op) /\ backend = "mysql"
               /\ inserted' = [inserted EXCEPT ![t] = [key |-> key, others |-> calls]]
               /\ Ends(t, op, o, "waits", o)
<1>1. ~Fails(o, op) => rows' = Statement(o, op = "save").rows
  BY InsertIs
<1>2. supports_returning <=> backend # "mysql"
  BY DEF supports_returning
<1> DEFINE s == Statement(o, op = "save")
<1>3. \/ Fails(o, op) /\ Ends(t, op, o, "error", o) /\ UNCHANGED inserted
      \/ ~Fails(o, op) /\ ~HasAuto(o) /\ Ends(t, op, o, "ok", o) /\ UNCHANGED inserted
      \/ /\ ~Fails(o, op) /\ supports_returning
         /\ Ends(t, op, o, "ok", update_from_db(o, s.key, s.rows[o.model][s.key])) /\ UNCHANGED inserted
      \/ /\ ~Fails(o, op) /\ ~supports_returning
         /\ inserted' = [inserted EXCEPT ![t] = [key |-> s.key, others |-> calls]]
         /\ Ends(t, op, o, "waits", o)
  BY DEF insert_or_update_impl, Fails
<1> HIDE DEF s
<1>4. StatementKey(o, op) = s.key /\ (~Fails(o, op) => rows' = s.rows)
  BY <1>1 DEF s, StatementKey
<1> QED
  BY <1>2, <1>3, <1>4

LEMMA InsertRows ==
  ASSUME TypeOK, NEW t, NEW o \in AnObject, NEW op, insert_or_update_impl(t, o, op)
  PROVE  /\ IsRows(rows')
         /\ ~Fails(o, op) => LET key == StatementKey(o, op)
                             IN /\ key \in DOMAIN rows'[o.model] /\ rows'[o.model][key] = Stored(o)
                                /\ IsRowOf(rows', o, Column(o), key)
<1>1. CASE Fails(o, op)
  BY <1>1, InsertIs DEF TypeOK
<1>2. CASE ~Fails(o, op)
  <2> DEFINE s == Statement(o, op = "save")
             key == StatementKey(o, op)
  <2>1. rows' = s.rows /\ key = s.key /\ s.key \in Key /\ IsValid(s.rows)
    BY <1>2, InsertIs DEF Fails, StatementKey
  <2>2. /\ IsRows(s.rows) /\ s.key \in DOMAIN s.rows[o.model] /\ s.rows[o.model][s.key] = Stored(o)
        /\ o.key # AutoValue => s.key = o.key
    BY <2>1, StatementRows DEF TypeOK
  <2>3. Column(o) # AutoValue => Stored(o) = Column(o)
    BY StoredIs DEF TypeOK
  <2> HIDE DEF s, key
  <2>4. IsRowOf(rows', o, Column(o), key)
    BY <2>1, <2>2, <2>3 DEF IsRowOf
  <2> QED
    BY <1>2, <2>1, <2>2, <2>4 DEF key
<1> QED
  BY <1>1, <1>2

LEMMA CountedIs ==
  ASSUME TypeOK, NEW o \in AnObject, NEW fails \in BOOLEAN
  PROVE  LET c == Counted(o, fails)
         IN  /\ c \in [Model -> Key]
             /\ \A m \in Model : counter[m] <= c[m]
             /\ ~fails /\ backend # "postgres" => NewKey(o) < c[o.model]
<1> DEFINE c == Counted(o, fails)
           m == o.model
           after == IF o.key = AutoValue THEN IF fails /\ backend = "sqlite" THEN counter[m] ELSE counter[m] + 1
                    ELSE IF fails \/ backend = "postgres" \/ o.key < counter[m] THEN counter[m] ELSE o.key + 1
<1>1. m \in Model /\ counter \in [Model -> Key] /\ (o.key # AutoValue => o.key \in Key)
  BY ObjectIs DEF TypeOK
<1>2. c = [counter EXCEPT ![m] = after]
  BY DEF Counted
<1>3. counter[m] \in Nat /\ counter[m] > 0
  BY <1>1 DEF Key
<1>4. after \in Key /\ counter[m] <= after
  <2>1. CASE o.key = AutoValue
    BY <1>3, <2>1 DEF Key
  <2>2. CASE o.key # AutoValue
    <3>1. o.key \in Nat
      BY <1>1, <2>2 DEF Key
    <3> QED
      BY <1>3, <2>2, <3>1 DEF Key
  <2> QED
    BY <2>1, <2>2
<1>5. ~fails /\ backend # "postgres" => NewKey(o) < after
  <2>1. CASE o.key = AutoValue
    BY <1>3, <2>1 DEF NewKey
  <2>2. CASE o.key # AutoValue
    <3>1. o.key \in Nat
      BY <1>1, <2>2 DEF Key
    <3> QED
      BY <1>3, <2>2, <3>1 DEF NewKey
  <2> QED
    BY <2>1, <2>2
<1> HIDE DEF c, after
<1>6. c \in [Model -> Key] /\ c[m] = after /\ \A n \in Model : n # m => c[n] = counter[n]
  BY <1>1, <1>2, <1>4
<1>7. \A n \in Model : counter[n] <= c[n]
  <2> TAKE n \in Model
  <2>1. counter[n] \in Nat
    BY <1>1 DEF Key
  <2> QED
    BY <1>4, <1>6, <2>1
<1> QED
  BY <1>5, <1>6, <1>7 DEF c

LEMMA InsertCounts ==
  ASSUME TypeOK, KeysAreCounted, NEW t, NEW o \in AnObject, NEW op, insert_or_update_impl(t, o, op)
  PROVE  counter' \in [Model -> Key] /\ KeysAreCounted'
<1>0. Fails(o, op) \in BOOLEAN
  BY DEF Fails
<1>1. /\ counter' \in [Model -> Key]
      /\ \A m \in Model : counter[m] <= counter'[m]
      /\ ~Fails(o, op) /\ backend # "postgres" => NewKey(o) < counter'[o.model]
  BY <1>0, InsertIs, CountedIs
<1>2. ASSUME backend # "postgres", NEW m \in Model, NEW k \in DOMAIN rows'[m] PROVE k < counter'[m]
  <2>1. counter[m] \in Nat /\ counter'[m] \in Nat
    BY <1>1 DEF TypeOK, Key
  <2>2. CASE k \in DOMAIN rows[m]
    <3>1. k < counter[m] /\ k \in Nat
      BY <1>2, <2>2 DEF KeysAreCounted, TypeOK, IsRows, IsTable, Model, Key
    <3> QED
      BY <1>1, <2>1, <3>1
  <2>3. CASE k \notin DOMAIN rows[m]
    <3>1. ~Fails(o, op)
      BY <2>3, InsertIs
    <3> DEFINE s == Statement(o, op = "save")
    <3>2. rows' = s.rows /\ s.key \in Key /\ IsValid(s.rows)
      BY <3>1, InsertIs DEF Fails, StatementKey
    <3>3. /\ s.key = NewKey(o) \/ s.key \in DOMAIN rows[o.model]
          /\ DOMAIN s.rows[m] \subseteq DOMAIN rows[m] \cup {s.key}
          /\ m # o.model => DOMAIN s.rows[m] = DOMAIN rows[m]
      BY <3>2, StatementRows DEF TypeOK
    <3> HIDE DEF s
    <3>4. m = o.model /\ k = NewKey(o)
      BY <2>3, <3>2, <3>3
    <3> QED
      BY <1>1, <1>2, <3>1, <3>4
  <2> QED
    BY <2>2, <2>3
<1>3. UNCHANGED backend
  BY InsertIs
<1> QED
  BY <1>1, <1>2, <1>3 DEF KeysAreCounted

LEMMA InsertIInv ==
  ASSUME IInv, NEW t \in Task, NEW o \in AnObject, NEW op, insert_or_update_impl(t, o, op)
  PROVE  IInv'
<1>0. TypeOK /\ KeysAreCounted
  BY DEF IInv
<1>1. Idle(t) /\ Counts(t) /\ UNCHANGED <<backend, policy>> /\ StatementKey(o, op) \in Key
  BY InsertIs
<1>2. IsRows(rows') /\ counter' \in [Model -> Key] /\ KeysAreCounted'
  BY <1>0, InsertRows, InsertCounts
<1>3. ASSUME NEW result, NEW left, Ends(t, op, o, result, left), UNCHANGED inserted, left \in AnObject
      PROVE  IInv'
  BY <1>1, <1>2, <1>3, CallKeeps
<1> DEFINE key == StatementKey(o, op)
<1>4. CASE ~Fails(o, op) /\ Ends(t, op, o, "ok", update_from_db(o, key, rows'[o.model][key])) /\ UNCHANGED inserted
  <2> DEFINE u == update_from_db(o, key, rows'[o.model][key])
  <2>1. u \in AnObject
    <3>1. key \in DOMAIN rows'[o.model] /\ key \in Key
      BY <1>0, <1>1, <1>4, InsertRows
    <3> HIDE DEF key
    <3> QED
      BY <1>2, <3>1, UpdatedIsObject
  <2> HIDE DEF u, key
  <2> QED
    BY <1>3, <1>4, <2>1 DEF u
<1>5. CASE /\ ~Fails(o, op) /\ backend = "mysql"
           /\ inserted' = [inserted EXCEPT ![t] = [key |-> key, others |-> calls]]
           /\ Ends(t, op, o, "waits", o)
  <2>1. /\ calls' \in [Task -> Nat] /\ calls'[t] < calls[t]
        /\ \A v \in Task \ {t} : calls'[v] = calls[v]
    BY <1>0, <1>1, CountsIs
  <2>2. /\ DOMAIN call' = Task /\ DOMAIN object' = Task /\ object'[t] = o
        /\ \A u \in Task \ {t} : object'[u] = object[u]
    BY <1>0, <1>5, EndsIs
  <2>3. /\ DOMAIN inserted' = Task /\ inserted'[t].key = key /\ inserted'[t].others = calls
        /\ \A u \in Task \ {t} : inserted'[u] = inserted[u]
    <3> HIDE DEF key
    <3> QED
      BY <1>0, <1>5 DEF TypeOK
  <2>4. TypeOK'
    <3>1. IsRows(rows)'
      BY <1>2 DEF IsRows, IsTable, IsValid
    <3>2. \A u \in Task : object'[u] # None => object'[u] \in AnObject
      BY <1>0, <2>2 DEF TypeOK
    <3> QED
      BY <1>0, <1>1, <1>2, <2>1, <2>2, <2>3, <3>1, <3>2 DEF TypeOK
  <2>5. Waits(t)'
    <3>1. IsRowOf(rows', o, Column(o), key)
      BY <1>0, <1>5, InsertRows
    <3>2. calls \in [Task -> Nat] /\ \A u \in Task \ {t} : calls'[u] <= calls[u]
      BY <1>0, <2>1 DEF TypeOK
    <3> HIDE DEF key
    <3>3. Column(object[t])' = Column(o)
      BY <1>1, <2>2 DEF Column, to_db_field_value, prepare_values
    <3> QED
      BY <1>1, <1>5, <2>2, <2>3, <3>1, <3>2, <3>3 DEF Waits, key
  <2>6. ASSUME NEW u \in Task \ {t}, inserted'[u] # None PROVE Waits(u)'
    BY <1>0, <1>1, <2>2, <2>3, <2>6, OthersWait DEF IInv
  <2> QED
    BY <1>2, <2>4, <2>5, <2>6 DEF IInv
<1> QED
  BY <1>3, <1>4, <1>5, InsertEnds

-----------------------------------------------------------------------------
(* The other calls.                                                         *)
LEMMA StillCounted ==
  ASSUME KeysAreCounted, UNCHANGED <<backend, counter>>,
         \A m \in Model : DOMAIN rows'[m] \subseteq DOMAIN rows[m]
  PROVE  KeysAreCounted'
BY DEF KeysAreCounted

LEMMA SelectIInv ==
  ASSUME IInv, NEW t \in Task, SelectInserted(t)
  PROVE  IInv'
<1> DEFINE o == object[t]
           key == inserted[t].key
           u == update_from_db(o, key, rows[o.model][key])
<1>1. TypeOK /\ Waits(t) /\ inserted' = [inserted EXCEPT ![t] = None]
      /\ UNCHANGED <<backend, policy, rows, counter, calls>>
  BY DEF IInv, SelectInserted
<1>2. o \in AnObject /\ key \in Key
  BY <1>1 DEF Waits
<1>3. key \in DOMAIN rows[o.model] => u \in AnObject
  <2>1. IsRows(rows)
    BY <1>1 DEF TypeOK
  <2> HIDE DEF o, key
  <2> QED
    BY <1>2, <2>1, UpdatedIsObject
<1>4. PICK left \in {o, u}, result \in {"ok", "panic"} :
        Ends(t, call[t].op, call[t].object, result, left) /\ (left = u => key \in DOMAIN rows[o.model] \/ u = o)
  <2>1. CASE key \in DOMAIN rows[o.model]
    BY <2>1 DEF SelectInserted
  <2>2. CASE key \notin DOMAIN rows[o.model]
    <3>1. Ends(t, call[t].op, call[t].object, "panic", o)
      BY <2>2 DEF SelectInserted
    <3> HIDE DEF u
    <3> QED
      BY <2>2, <3>1
  <2> QED
    BY <2>1, <2>2
<1>5. left \in AnObject
  <2> HIDE DEF o, key, u
  <2> QED
    BY <1>2, <1>3, <1>4
<1>6. /\ DOMAIN call' = Task /\ DOMAIN object' = Task /\ object'[t] = left
      /\ \A v \in Task \ {t} : object'[v] = object[v]
  BY <1>1, <1>4, EndsIs
<1> HIDE DEF o, key, u
<1>7. DOMAIN inserted' = Task /\ inserted'[t] = None /\ \A v \in Task \ {t} : inserted'[v] = inserted[v]
  BY <1>1 DEF TypeOK
<1>8. TypeOK'
  <2>1. IsRows(rows)'
    BY <1>1 DEF TypeOK, IsRows, IsTable, IsValid
  <2> QED
    BY <1>1, <1>5, <1>6, <1>7, <2>1 DEF TypeOK
<1>9. KeysAreCounted'
  BY <1>1, StillCounted DEF IInv
<1>10. ASSUME NEW v \in Task, inserted'[v] # None PROVE Waits(v)'
  <2>1. v # t /\ inserted'[v] = inserted[v] /\ object'[v] = object[v]
    BY <1>6, <1>7, <1>10
  <2>2. Waits(v)
    BY <1>10, <2>1 DEF IInv
  <2>3. Column(object[v])' = Column(object[v])
    BY <1>1, <2>1 DEF Column, to_db_field_value, prepare_values
  <2>4. Others(v)' => Others(v)
    BY <1>1, <2>1 DEF Others
  <2> QED
    BY <1>1, <2>1, <2>2, <2>3, <2>4 DEF Waits
<1> QED
  BY <1>8, <1>9, <1>10 DEF IInv

Changes(o) == Put(o.model, o.key, Column(o))
LEMMA UpdateIs ==
  ASSUME TypeOK, NEW t \in Task, NEW o \in AnObject, update_impl(t, o)
  PROVE  /\ Idle(t) /\ Counts(t) /\ UNCHANGED <<backend, policy, counter, inserted>>
         /\ IsRows(rows') /\ \A m \in Model : DOMAIN rows'[m] = DOMAIN rows[m]
         /\ \/ HasAuto(o) /\ Ends(t, "update", o, "panic", o) /\ rows' = rows
            \/ /\ Ends(t, "update", o, "ok", o) /\ rows' = Changes(o)
               /\ ~HasAuto(o) /\ o.key \in DOMAIN rows[o.model]
            \/ /\ \E result \in {"error", "RecordNotFound"} : Ends(t, "update", o, result, o)
               /\ rows' = rows
<1> DEFINE changed == Changes(o)
           does == ~HasAuto(o) /\ o.key \in DOMAIN rows[o.model] /\ IsValid(changed)
<1>1. changed = [rows EXCEPT ![o.model] = With(@, o.key, to_db_field_value(o.value))]
  BY DEF Changes, Put, Column
<1> HIDE DEF changed
<1>2. /\ Idle(t) /\ Counts(t) /\ UNCHANGED <<backend, policy, counter, inserted>>
      /\ rows' = IF does THEN changed ELSE rows
  BY <1>1 DEF update_impl
<1>3. \/ HasAuto(o) /\ Ends(t, "update", o, "panic", o)
      \/ does /\ Ends(t, "update", o, "ok", o)
      \/ ~does /\ \E result \in {"error", "RecordNotFound"} : Ends(t, "update", o, result, o)
  <2>1. CASE HasAuto(o)
    BY <2>1 DEF update_impl
  <2>2. CASE ~HasAuto(o) /\ o.key \notin DOMAIN rows[o.model]
    BY <2>2 DEF update_impl
  <2>3. CASE ~HasAuto(o) /\ o.key \in DOMAIN rows[o.model]
    <3>1. Ends(t, "update", o, IF IsValid(changed) THEN "ok" ELSE "error", o)
      BY <1>1, <2>3 DEF update_impl
    <3> QED
      BY <2>3, <3>1
  <2> QED
    BY <2>1, <2>2, <2>3
<1>4. IsRows(rows') /\ \A m \in Model : DOMAIN rows'[m] = DOMAIN rows[m]
  <2>1. CASE does
    <3>1. /\ DOMAIN changed = Model
          /\ \A n \in Model : n # o.model => changed[n] = rows[n]
          /\ DOMAIN changed[o.model] = DOMAIN rows[o.model] \cup {o.key}
          /\ changed[o.model][o.key] = Column(o)
          /\ \A k \in DOMAIN rows[o.model] : k # o.key => changed[o.model][k] = rows[o.model][k]
      BY PutIs, ObjectIs DEF TypeOK, changed, Changes
    <3>2. Column(o) # AutoValue
      BY <2>1 DEF HasAuto, Column
    <3>3. (o.model = "Author" => Column(o) \in Int) /\ (o.model = "Book" => Column(o) \in Key \cup {None})
      BY <3>2, ColumnIs DEF Column
    <3>4. DOMAIN changed[o.model] = DOMAIN rows[o.model]
      BY <2>1, <3>1
    <3>5. IsTable(changed["Author"], Int)
      BY <3>1, <3>3, <3>4, ObjectIs DEF TypeOK, IsRows, IsTable, Model
    <3>6. IsTable(changed["Book"], Key \cup {None})
      BY <3>1, <3>3, <3>4, ObjectIs DEF TypeOK, IsRows, IsTable, Model
    <3>7. IsRows(changed)
      BY <2>1, <3>1, <3>5, <3>6 DEF IsRows
    <3> QED
      BY <1>2, <2>1, <3>1, <3>4, <3>7
  <2>2. CASE ~does
    BY <1>2, <2>2 DEF TypeOK
  <2> QED
    BY <2>1, <2>2
<1> QED
  BY <1>2, <1>3, <1>4 DEF changed

LEMMA DeleteIs ==
  ASSUME TypeOK, NEW t \in Task, NEW m \in Model, NEW key, DeleteKey(t, m, key)
  PROVE  /\ Idle(t) /\ Counts(t) /\ UNCHANGED <<backend, policy, counter, inserted>>
         /\ IsRows(rows') /\ \A n \in Model : DOMAIN rows'[n] \subseteq DOMAIN rows[n]
         /\ \A k \in DOMAIN rows'["Book"] :
              rows'["Book"][k] # rows["Book"][k] =>
                /\ m = "Author" /\ policy.on_delete = "SetNone" /\ rows'["Book"][k] = None
                /\ rows["Book"][k] \notin DOMAIN rows'["Author"]
         /\ \E result \in {"ok", "error"} : Ends(t, "delete", Object(m, key, NoLink), result, object[t])
<1> DEFINE r == Deleted(m, {key})
<1>1. /\ Idle(t) /\ Counts(t) /\ UNCHANGED <<backend, policy, counter, inserted>>
      /\ rows' = IF IsValid(r) THEN r ELSE rows
      /\ Ends(t, "delete", Object(m, key, NoLink), IF IsValid(r) THEN "ok" ELSE "error", object[t])
  BY DEF DeleteKey
<1>2. /\ DOMAIN r = Model
      /\ \A n \in Model : DOMAIN r[n] \subseteq DOMAIN rows[n]
      /\ \A k \in DOMAIN r["Author"] : r["Author"][k] = rows["Author"][k]
      /\ \A k \in DOMAIN r["Book"] :
                  r["Book"][k] # rows["Book"][k] =>
                    /\ m = "Author" /\ policy.on_delete = "SetNone" /\ r["Book"][k] = None
                    /\ rows["Book"][k] \notin DOMAIN r["Author"]
  BY DeletedIs DEF TypeOK
<1> HIDE DEF r
<1>3. IsValid(r) => IsRows(r)
  <2>1. IsTable(r["Author"], Int)
    BY <1>2 DEF TypeOK, IsRows, IsTable, Model
  <2>2. IsTable(r["Book"], Key \cup {None})
    <3> SUFFICES ASSUME NEW k \in DOMAIN r["Book"]
                 PROVE  k \in Key /\ r["Book"][k] \in Key \cup {None}
      BY DEF IsTable
    <3>1. k \in DOMAIN rows["Book"]
      BY <1>2 DEF Model
    <3>2. k \in Key /\ rows["Book"][k] \in Key \cup {None}
      BY <3>1 DEF TypeOK, IsRows, IsTable
    <3> QED
      BY <1>2, <3>2
  <2> QED
    BY <1>2, <2>1, <2>2 DEF IsRows
<1> QED
  BY <1>1, <1>2, <1>3 DEF TypeOK

LEMMA GetIs ==
  ASSUME TypeOK, NEW t \in Task, NEW m \in Model, NEW key, GetByKey(t, m, key)
  PROVE  /\ Idle(t) /\ Counts(t) /\ UNCHANGED <<backend, policy, rows, counter, inserted>>
         /\ \E o \in AnObject : Ends(t, "get", o, "ok", o)
<1> DEFINE o == Object(m, key, from_db(m, rows[m][key]))
<1>1. /\ Idle(t) /\ Counts(t) /\ UNCHANGED <<backend, policy, rows, counter, inserted>>
      /\ key \in DOMAIN rows[m] /\ Ends(t, "get", o, "ok", o)
  BY DEF GetByKey
<1>2. CASE m = "Author"
  <2>1. key \in AKey /\ rows["Author"][key] \in Int
    BY <1>1, <1>2 DEF TypeOK, IsRows, IsTable, AKey
  <2>2. from_db("Author", rows["Author"][key]) \in [kind : {"number"}, key : {None}, number : Nat]
    BY <2>1, NumberReadBack
  <2>3. o \in AnAuthor
    BY <1>2, <2>1, <2>2 DEF Object, AnAuthor
  <2> QED
    BY <1>1, <2>3 DEF AnObject
<1>3. CASE m = "Book"
  <2>1. key \in AKey /\ rows["Book"][key] \in Key \cup {None}
    BY <1>1, <1>3 DEF TypeOK, IsRows, IsTable, AKey
  <2>2. from_db("Book", rows["Book"][key]) \in ALink
    BY <2>1, LinkReadBack
  <2>3. o \in ABook
    BY <1>3, <2>1, <2>2 DEF Object, ABook
  <2> QED
    BY <1>1, <2>3 DEF AnObject
<1> QED
  BY <1>2, <1>3 DEF Model

LEMMA ForeignIs ==
  ASSUME TypeOK, NEW t \in Task, GetForeign(t)
  PROVE  /\ Idle(t) /\ Counts(t) /\ UNCHANGED <<backend, policy, rows, counter, inserted>>
         /\ object[t] \in ABook /\ object[t].value.kind = "key"
         /\ \/ object[t].value.key = AutoValue /\ Ends(t, "foreign", object[t], "panic", object[t])
            \/ /\ object[t].value.key \notin DOMAIN rows["Author"] \cup {AutoValue}
               /\ Ends(t, "foreign", object[t], "ForeignKeyNotFound", object[t])
            \/ \E left \in ABook : Ends(t, "foreign", object[t], "ok", left)
<1> DEFINE o == object[t]
           column == from_db_value(rows["Author"][LinkKey(o)])
           left == [o EXCEPT !.value = Held(LinkKey(o), column)]
<1>1. /\ Idle(t) /\ Counts(t) /\ UNCHANGED <<backend, policy, rows, counter, inserted>>
      /\ o # None /\ o.value.kind = "key"
  BY DEF GetForeign
<1>2. o \in ABook
  BY <1>1, AuthorIs DEF TypeOK, AnObject
<1>3. \/ LinkKey(o) = AutoValue /\ Ends(t, "foreign", o, "panic", o)
      \/ LinkKey(o) \notin DOMAIN rows["Author"] \cup {AutoValue} /\ Ends(t, "foreign", o, "ForeignKeyNotFound", o)
      \/ LinkKey(o) \in DOMAIN rows["Author"] /\ Ends(t, "foreign", o, "ok", left)
  BY DEF GetForeign
<1>4. LinkKey(o) \in DOMAIN rows["Author"] => left \in ABook
  <2> SUFFICES ASSUME LinkKey(o) \in DOMAIN rows["Author"] PROVE left \in ABook
    OBVIOUS
  <2>1. LinkKey(o) \in AKey /\ rows["Author"][LinkKey(o)] \in Int
    BY DEF TypeOK, IsRows, IsTable, AKey
  <2>2. column \in Nat
    BY <2>1, NumberReadBack
  <2> HIDE DEF column
  <2>3. Held(LinkKey(o), column) \in ALink
    BY <2>1, <2>2 DEF Held, Plain, ALink
  <2> QED
    BY <1>2, <2>3 DEF ABook
<1> HIDE DEF left, o
<1>5. LinkKey(o) = o.value.key
  BY DEF LinkKey
<1> QED
  BY <1>1, <1>2, <1>3, <1>4, <1>5 DEF o

-----------------------------------------------------------------------------
(* The invariant.                                                           *)
LEMMA StepIs ==
  ASSUME TypeOK, Next
  PROVE  \E t \in Task :
           \/ \E o \in AnObject, op \in {"insert", "save"} : insert_or_update_impl(t, o, op)
           \/ SelectInserted(t)
           \/ \E o \in AnObject : update_impl(t, o)
           \/ \E m \in Model : \E key \in DOMAIN rows[m] : DeleteKey(t, m, key) \/ GetByKey(t, m, key)
           \/ GetForeign(t)
<1>1. PICK t \in Task : Write(t) \/ SelectInserted(t) \/ Read(t)
  BY DEF Next
<1>2. New(t) \cup Own(t) \subseteq AnObject
  BY ProgramPasses
<1>3. Write(t) => \/ \E o \in AnObject, op \in {"insert", "save"} : insert_or_update_impl(t, o, op)
                  \/ \E o \in AnObject : update_impl(t, o)
                  \/ \E m \in Model : \E key \in DOMAIN rows[m] : DeleteKey(t, m, key) \/ GetByKey(t, m, key)
  BY <1>2 DEF Write
<1>4. Read(t) => \/ \E m \in Model : \E key \in DOMAIN rows[m] : DeleteKey(t, m, key) \/ GetByKey(t, m, key)
                 \/ GetForeign(t)
  BY DEF Read
<1> QED
  BY <1>1, <1>3, <1>4, Zenon

(* Different numbers are stored differently, cast or not.                   *)
LEMMA NumbersStoredApart ==
  ASSUME NEW b, NEW n \in Numbers, NEW k \in Numbers, prepare_values(b, n) = prepare_values(b, k)
  PROVE  n = k /\ prepare_values(b, n) \in Int
<1>1. n \in Nat /\ k \in Nat /\ n < Limit /\ k < Limit /\ Limit \in Nat
  BY OrmAssumption, Constants
<1>2. n # None /\ k # None
  BY <1>1, Constants
<1>3. prepare_values(b, n) \in {n, n - Limit} /\ prepare_values(b, k) \in {k, k - Limit}
  BY <1>2 DEF prepare_values
<1> QED
  BY <1>1, <1>3

LEMMA InitIInv == Init => IInv
<1> SUFFICES ASSUME Init PROVE IInv
  OBVIOUS
<1>1. PICK tables \in Starts : Holds(tables)
  BY DEF Init
<1> DEFINE a == tables.Author
           b == tables.Book
           stored == [k \in DOMAIN a |-> prepare_values(backend, a[k])]
<1>2. /\ tables \in [Author : Seq(Numbers), Book : Seq(Nat \cup {None})]
      /\ \A i, j \in DOMAIN a : a[i] = a[j] => i = j
      /\ \A i \in DOMAIN b : b[i] \in {None} \cup DOMAIN a
  BY <1>1, OrmAssumption
<1>3. a \in Seq(Numbers) /\ b \in Seq(Nat \cup {None}) /\ tables["Author"] = a /\ tables["Book"] = b
  BY <1>2
<1>4. /\ rows = [Author |-> stored, Book |-> b]
      /\ counter = [m \in Model |-> Len(tables[m]) + 1]
  BY <1>1 DEF Holds
<1>5. /\ Len(a) \in Nat /\ DOMAIN a = 1..Len(a) /\ \A i \in DOMAIN a : a[i] \in Numbers
      /\ Len(b) \in Nat /\ DOMAIN b = 1..Len(b)
  BY <1>3
<1>6. IsTable(stored, Int) /\ \A i, j \in DOMAIN stored : stored[i] = stored[j] => i = j
  <2>1. \A i \in DOMAIN a : prepare_values(backend, a[i]) \in Int
    BY <1>5, NumbersStoredApart
  <2>2. \A i, j \in DOMAIN a : prepare_values(backend, a[i]) = prepare_values(backend, a[j]) => i = j
    BY <1>2, <1>5, NumbersStoredApart
  <2>3. DOMAIN a \subseteq Key
    BY <1>5 DEF Key
  <2> HIDE DEF a
  <2> QED
    BY <2>1, <2>2, <2>3 DEF IsTable
<1>7. IsTable(b, Key \cup {None})
  BY <1>2, <1>5 DEF IsTable, Key
<1>8. /\ DOMAIN rows = Model /\ rows["Author"] = stored /\ rows["Book"] = b
      /\ DOMAIN stored = DOMAIN a
  <2> HIDE DEF b
  <2>1. DOMAIN stored = DOMAIN a
    OBVIOUS
  <2> HIDE DEF stored, a
  <2> QED
    BY <1>4, <2>1, RecordIs
<1> HIDE DEF stored, a, b
<1>9. IsRows(rows)
  BY <1>2, <1>6, <1>7, <1>8 DEF IsRows, IsValid
<1>10. counter["Author"] = Len(a) + 1 /\ counter["Book"] = Len(b) + 1 /\ counter \in [Model -> Key]
  <2>1. \A m \in Model : Len(tables[m]) + 1 \in Key
    BY <1>3, <1>5 DEF Model, Key
  <2> QED
    BY <1>3, <1>4, <2>1 DEF Model
<1>11. KeysAreCounted
  BY <1>5, <1>8, <1>10 DEF KeysAreCounted, Model
<1>12. NoCalls /\ backend \in Backend /\ policy \in Policy
  BY OrmAssumption DEF Init
<1>13. TypeOK
  BY <1>9, <1>10, <1>12, OrmAssumption DEF TypeOK, NoCalls
<1> QED
  BY <1>11, <1>12, <1>13 DEF IInv, NoCalls

LEMMA NextIInv == IInv /\ [Next]_vars => IInv'
<1> SUFFICES ASSUME IInv, [Next]_vars PROVE IInv'
  OBVIOUS
<1>0. TypeOK
  BY DEF IInv
<1>1. CASE UNCHANGED vars
  <2>1. TypeOK'
    BY <1>0, <1>1 DEF vars, TypeOK, IsRows, IsTable, IsValid
  <2>2. KeysAreCounted'
    BY <1>1 DEF vars, IInv, KeysAreCounted
  <2>3. ASSUME NEW t \in Task, inserted'[t] # None PROVE Waits(t)'
    <3>1. Waits(t)
      BY <1>1, <2>3 DEF vars, IInv
    <3>2. Column(object[t])' = Column(object[t])
      BY <1>1 DEF vars, Column, to_db_field_value, prepare_values
    <3>3. Others(t)' => Others(t)
      BY <1>1 DEF vars, Others
    <3> QED
      BY <1>1, <3>1, <3>2, <3>3 DEF vars, Waits
  <2> QED
    BY <2>1, <2>2, <2>3 DEF IInv
<1>2. ASSUME NEW t \in Task, Idle(t), Counts(t), UNCHANGED <<backend, policy, counter, inserted>>, IsRows(rows'),
             \A m \in Model : DOMAIN rows'[m] \subseteq DOMAIN rows[m],
             NEW op, NEW given, NEW result, NEW left, Ends(t, op, given, result, left), left # None => left \in AnObject
      PROVE  IInv'
  <2>1. KeysAreCounted' /\ counter' \in [Model -> Key]
    BY <1>2, StillCounted DEF IInv, TypeOK
  <2> QED
    BY <1>2, <2>1, CallKeeps
<1>3. ASSUME NEW t \in Task, NEW o \in AnObject, update_impl(t, o) PROVE IInv'
  <2>1. PICK result : Ends(t, "update", o, result, o)
    BY <1>0, <1>3, UpdateIs
  <2> QED
    BY <1>0, <1>2, <1>3, <2>1, UpdateIs
<1>4. ASSUME NEW t \in Task, NEW m \in Model, NEW key, DeleteKey(t, m, key) PROVE IInv'
  <2>1. PICK result : Ends(t, "delete", Object(m, key, NoLink), result, object[t])
    BY <1>0, <1>4, DeleteIs
  <2>2. object[t] # None => object[t] \in AnObject
    BY <1>0 DEF TypeOK
  <2> QED
    BY <1>0, <1>2, <1>4, <2>1, <2>2, DeleteIs
<1>5. ASSUME NEW t \in Task, NEW m \in Model, NEW key, GetByKey(t, m, key) PROVE IInv'
  <2>1. PICK o \in AnObject : Ends(t, "get", o, "ok", o)
    BY <1>0, <1>5, GetIs
  <2>2. IsRows(rows') /\ \A n \in Model : DOMAIN rows'[n] \subseteq DOMAIN rows[n]
    BY <1>0, <1>5, GetIs DEF TypeOK
  <2> QED
    BY <1>0, <1>2, <1>5, <2>1, <2>2, GetIs
<1>6. ASSUME NEW t \in Task, GetForeign(t) PROVE IInv'
  <2>1. PICK result, left : Ends(t, "foreign", object[t], result, left) /\ left \in AnObject
    BY <1>0, <1>6, ForeignIs DEF AnObject
  <2>2. IsRows(rows') /\ \A n \in Model : DOMAIN rows'[n] \subseteq DOMAIN rows[n]
    BY <1>0, <1>6, ForeignIs DEF TypeOK
  <2> QED
    BY <1>0, <1>2, <1>6, <2>1, <2>2, ForeignIs
<1>7. CASE Next
  BY <1>0, <1>3, <1>4, <1>5, <1>6, <1>7, StepIs, InsertIInv, SelectIInv
<1> QED
  BY <1>1, <1>7

(* IInv is an invariant: it holds of every database and in every state.     *)
LEMMA IInvAlways == Spec => []IInv
  BY InitIInv, NextIInv, PTL DEF Spec

-----------------------------------------------------------------------------
(* Whose call it is, and what it was about.                                 *)
LEMMA ActorIs ==
  ASSUME TypeOK, NEW t \in Task, NEW op, NEW given, NEW result, NEW left, Ends(t, op, given, result, left),
         Counts(t) \/ UNCHANGED calls
  PROVE  /\ \A u \in Task : Acts(u) => u = t
         /\ call'[t].op = op /\ call'[t].object = given /\ call'[t].result = result
         /\ object'[t] = left
BY ActsIs, EndsIs, CallIs

LEMMA SelectIs ==
  ASSUME IInv, NEW t \in Task, SelectInserted(t)
  PROVE  /\ UNCHANGED <<backend, policy, rows, counter, calls>>
         /\ inserted[t] # None /\ Waits(t) /\ object[t] \in AnObject
         /\ LET o == object[t]
                key == inserted[t].key
            IN \/ /\ key \in DOMAIN rows[o.model]
                  /\ Ends(t, call[t].op, call[t].object, "ok", update_from_db(o, key, rows[o.model][key]))
               \/ /\ key \notin DOMAIN rows[o.model]
                  /\ Ends(t, call[t].op, call[t].object, "panic", o)
<1>1. inserted[t] # None /\ UNCHANGED <<backend, policy, rows, counter, calls>>
  BY DEF SelectInserted
<1>2. Waits(t) /\ object[t] \in AnObject
  BY <1>1 DEF IInv, Waits
<1>3. LET o == object[t]
          key == inserted[t].key
      IN \/ /\ key \in DOMAIN rows[o.model]
            /\ Ends(t, call[t].op, call[t].object, "ok", update_from_db(o, key, rows[o.model][key]))
         \/ /\ key \notin DOMAIN rows[o.model]
            /\ Ends(t, call[t].op, call[t].object, "panic", o)
  BY DEF SelectInserted
<1> QED
  BY <1>1, <1>2, <1>3

(* A step that changes no row.                                              *)
LEMMA RowsStay ==
  ASSUME UNCHANGED rows, NEW m, NEW k \in DOMAIN rows[m]
  PROVE  ~Changed(m, k)
BY DEF Changed

(* The rows that an INSERT changes.                                         *)
OverwrittenBy(o, op, m, k) ==
  /\ op = "save"
  /\ \/ m = o.model /\ k = o.key
     \/ m = o.model /\ backend = "postgres" /\ o.key = AutoValue /\ k = counter[m]
     \/ /\ backend = "mysql" /\ o.model = "Author"
        /\ LET clash == {j \in DOMAIN rows["Author"] : rows["Author"][j] = o.value.number}
           IN clash # {} /\ (IF m = "Author" THEN k \in clash ELSE rows[m][k] \in clash)

LEMMA InsertOverwrites ==
  ASSUME IInv, NEW t, NEW o \in AnObject, NEW op \in {"insert", "save"}, insert_or_update_impl(t, o, op),
         NEW m \in Model, NEW k \in DOMAIN rows[m], Changed(m, k)
  PROVE  OverwrittenBy(o, op, m, k)
<1> DEFINE s == Statement(o, op = "save")
<1>1. ~Fails(o, op)
  BY InsertIs, RowsStay
<1>2. rows' = s.rows /\ ~s.clash
  BY <1>1, InsertIs DEF Fails
<1>3. k \notin DOMAIN s.rows[m] \/ s.rows[m][k] # rows[m][k]
  BY <1>2 DEF Changed
<1>4. TypeOK /\ KeysAreCounted /\ IsRows(rows) /\ counter \in [Model -> Key] /\ policy \in Policy
  BY DEF IInv, TypeOK
<1>5. /\ Clash(o) # None
      /\ m = o.model => k = Clash(o)
      /\ m # o.model => Moves(o) /\ m = "Book" /\ rows["Book"][k] = Clash(o)
  BY <1>3, <1>4, StatementChanges
<1>6. op = "save"
  BY <1>2, <1>4, <1>5, StatementIs DEF Updates
<1>7. CASE Clash(o) = NewKey(o)
  <2>1. m = o.model /\ k = NewKey(o)
    BY <1>5, <1>7 DEF Moves
  <2>2. CASE o.key # AutoValue
    BY <1>6, <2>1, <2>2 DEF NewKey, OverwrittenBy
  <2>3. CASE o.key = AutoValue
    <3>1. k = counter[m]
      BY <2>1, <2>3 DEF NewKey
    <3>2. counter[m] \in Nat
      BY <1>4 DEF Key
    <3>3. backend = "postgres"
      BY <1>4, <3>1, <3>2 DEF KeysAreCounted
    <3> QED
      BY <1>6, <2>1, <2>3, <3>1, <3>3 DEF OverwrittenBy
  <2> QED
    BY <2>2, <2>3
<1>8. CASE Clash(o) # NewKey(o)
  <2> DEFINE clash == {j \in DOMAIN rows["Author"] : rows["Author"][j] = o.value.number}
  <2>1. /\ backend = "mysql" /\ o \in AnAuthor /\ rows["Author"][Clash(o)] = Column(o)
        /\ Clash(o) \in DOMAIN rows[o.model]
    BY <1>4, <1>5, <1>8, ClashIs
  <2>2. o.model = "Author" /\ Column(o) = o.value.number
    BY <2>1, AuthorIs, AuthorColumn DEF Column, prepare_values
  <2>3. Clash(o) \in clash
    BY <2>1, <2>2
  <2>4. IF m = "Author" THEN k \in clash ELSE rows[m][k] \in clash
    BY <1>5, <2>2, <2>3
  <2> QED
    BY <1>6, <2>1, <2>2, <2>3, <2>4 DEF OverwrittenBy
<1> QED
  BY <1>7, <1>8

(* Every call of every program: insert changes no row that was there, save  *)
(* the one of its object, or those that the database's own rules let it.    *)
LEMMA OverwritesStep ==
  ASSUME IInv, [Next]_vars, NEW u \in Task, Acts(u), call'[u].op \in {"insert", "save"},
         NEW m \in Model, NEW k \in DOMAIN rows[m], Changed(m, k)
  PROVE  OverwrittenBy(call'[u].object, call'[u].op, m, k)
<1>0. TypeOK
  BY DEF IInv
<1>1. Next
  BY DEF vars, Acts
<1>2. ASSUME NEW t \in Task, NEW o \in AnObject, NEW op \in {"insert", "save"}, insert_or_update_impl(t, o, op)
      PROVE  OverwrittenBy(call'[u].object, call'[u].op, m, k)
  <2>1. PICK result, left : Ends(t, op, o, result, left)
    BY <1>2, InsertEnds
  <2>2. u = t /\ call'[u].op = op /\ call'[u].object = o
    BY <1>0, <1>2, <2>1, ActorIs, InsertIs
  <2> QED
    BY <1>2, <2>2, InsertOverwrites
<1>3. ASSUME NEW t \in Task, SelectInserted(t) PROVE FALSE
  BY <1>3, SelectIs, RowsStay
<1>4. ASSUME NEW t \in Task, NEW o \in AnObject, update_impl(t, o) PROVE FALSE
  <2>1. PICK result : Ends(t, "update", o, result, o)
    BY <1>0, <1>4, UpdateIs
  <2> QED
    BY <1>0, <1>4, <2>1, ActorIs, UpdateIs
<1>5. ASSUME NEW t \in Task, NEW n \in Model, NEW key, DeleteKey(t, n, key) PROVE FALSE
  <2>1. PICK result : Ends(t, "delete", Object(n, key, NoLink), result, object[t])
    BY <1>0, <1>5, DeleteIs
  <2> QED
    BY <1>0, <1>5, <2>1, ActorIs, DeleteIs
<1>6. ASSUME NEW t \in Task, NEW n \in Model, NEW key, GetByKey(t, n, key) PROVE FALSE
  BY <1>0, <1>6, GetIs, RowsStay
<1>7. ASSUME NEW t \in Task, GetForeign(t) PROVE FALSE
  BY <1>0, <1>7, ForeignIs, RowsStay
<1> QED
  BY <1>0, <1>1, <1>2, <1>3, <1>4, <1>5, <1>6, <1>7, StepIs

(* insert changes no row that was there, and save only the row with the key *)
(* of its object: but for MySQL's conflicts on the number, and PostgreSQL's *)
(* generated keys that are those of a row whose key was given.              *)
THEOREM OrmOverwritesItsOwn == Spec => OverwritesItsOwn
<1>1. IInv /\ [Next]_vars =>
        [\A t \in Task : Acts(t) /\ call'[t].op \in {"insert", "save"} =>
           LET o == call'[t].object
           IN \A m \in Model : \A k \in DOMAIN rows[m] : Changed(m, k) =>
                /\ call'[t].op = "save"
                /\ \/ m = o.model /\ k = o.key
                   \/ m = o.model /\ backend = "postgres" /\ o.key = AutoValue /\ k = counter[m]
                   \/ /\ backend = "mysql" /\ o.model = "Author"
                      /\ LET clash == {j \in DOMAIN rows["Author"] : rows["Author"][j] = o.value.number}
                         IN clash # {} /\ (IF m = "Author" THEN k \in clash ELSE rows[m][k] \in clash)]_vars
  BY OverwritesStep DEF OverwrittenBy
<1> QED
  BY <1>1, IInvAlways, PTL DEF Spec, OverwritesItsOwn

-----------------------------------------------------------------------------
(* After a write that succeeded the object is its row.                      *)
IsItsRow(o, r) == o.key \in DOMAIN r[o.model] /\ r[o.model][o.key] = Column(o)

LEMMA InsertIsItsRow ==
  ASSUME IInv, NEW t \in Task, NEW o \in AnObject, NEW op, insert_or_update_impl(t, o, op),
         call'[t].result = "ok"
  PROVE  IsItsRow(object'[t], rows')
<1> DEFINE key == StatementKey(o, op)
           u == update_from_db(o, key, rows'[o.model][key])
<1>0. TypeOK
  BY DEF IInv
<1>1. \/ ~Fails(o, op) /\ ~HasAuto(o) /\ Ends(t, op, o, "ok", o)
      \/ ~Fails(o, op) /\ Ends(t, op, o, "ok", u)
  BY <1>0, InsertEnds, EndsIs, CallIs
<1>2. /\ IsRows(rows') /\ key \in DOMAIN rows'[o.model] /\ rows'[o.model][key] = Stored(o)
      /\ IsRowOf(rows', o, Column(o), key) /\ key \in Key
  BY <1>0, <1>1, InsertRows, InsertIs
<1> HIDE DEF key
<1>3. CASE ~HasAuto(o) /\ Ends(t, op, o, "ok", o)
  <2>1. object'[t] = o /\ o.key # AutoValue /\ Column(o) # AutoValue
    BY <1>0, <1>3, EndsIs DEF HasAuto, Column
  <2> QED
    BY <1>2, <2>1 DEF IsRowOf, IsItsRow
<1>4. CASE Ends(t, op, o, "ok", u)
  <2>1. /\ u \in AnObject /\ u.model = o.model
        /\ o.key # AutoValue => u.key = o.key
        /\ o.key = AutoValue => u.key = key
        /\ Column(o) # AutoValue => Column(u) = Column(o)
        /\ Column(o) = AutoValue => Column(u) = rows'[o.model][key]
    BY <1>2, UpdatedIsObject
  <2>2. object'[t] = u
    BY <1>0, <1>4, EndsIs
  <2> HIDE DEF u
  <2>3. u.key = key /\ Column(u) = rows'[o.model][key]
    BY <1>2, <2>1 DEF IsRowOf
  <2> QED
    BY <1>2, <2>1, <2>2, <2>3 DEF IsItsRow
<1> QED
  BY <1>1, <1>3, <1>4

LEMMA SelectIsItsRow ==
  ASSUME IInv, NEW t \in Task, SelectInserted(t), call'[t].result = "ok", Others(t)
  PROVE  IsItsRow(object'[t], rows')
<1> DEFINE o == object[t]
           key == inserted[t].key
           u == update_from_db(o, key, rows[o.model][key])
<1>0. TypeOK
  BY DEF IInv
<1>1. rows' = rows /\ IsRows(rows) /\ o \in AnObject /\ key \in Key /\ IsRowOf(rows, o, Column(o), key)
  BY <1>0, SelectIs DEF Waits, TypeOK
<1>2. key \in DOMAIN rows[o.model] /\ Ends(t, call[t].op, call[t].object, "ok", u)
  BY <1>0, SelectIs, EndsIs, CallIs
<1>3. object'[t] = u
  BY <1>0, <1>2, EndsIs
<1> HIDE DEF key, o
<1>4. /\ u \in AnObject /\ u.model = o.model
      /\ o.key # AutoValue => u.key = o.key
      /\ o.key = AutoValue => u.key = key
      /\ Column(o) # AutoValue => Column(u) = Column(o)
      /\ Column(o) = AutoValue => Column(u) = rows[o.model][key]
  BY <1>1, <1>2, UpdatedIsObject
<1> HIDE DEF u
<1>5. u.key = key /\ Column(u) = rows[o.model][key]
  BY <1>1, <1>4 DEF IsRowOf
<1> QED
  BY <1>1, <1>2, <1>3, <1>4, <1>5 DEF IsItsRow

LEMMA UpdateIsItsRow ==
  ASSUME IInv, NEW t \in Task, NEW o \in AnObject, update_impl(t, o), call'[t].result = "ok"
  PROVE  IsItsRow(object'[t], rows')
<1>0. TypeOK
  BY DEF IInv
<1>1. Ends(t, "update", o, "ok", o) /\ rows' = Changes(o) /\ o.key \in DOMAIN rows[o.model]
  BY <1>0, UpdateIs, EndsIs, CallIs
<1>2. object'[t] = o
  BY <1>0, <1>1, EndsIs
<1>3. DOMAIN Changes(o)[o.model] = DOMAIN rows[o.model] \cup {o.key} /\ Changes(o)[o.model][o.key] = Column(o)
  BY <1>0, PutIs, ObjectIs DEF TypeOK, Changes
<1> QED
  BY <1>1, <1>2, <1>3 DEF IsItsRow

LEMMA ItsRowStep ==
  ASSUME IInv, [Next]_vars, NEW u \in Task, Acts(u), call'[u].op \in {"insert", "save", "update"},
         call'[u].result = "ok", inserted[u] # None => Others(u)
  PROVE  IsItsRow(object'[u], rows')
<1>0. TypeOK
  BY DEF IInv
<1>1. Next
  BY DEF vars, Acts
<1>2. ASSUME NEW t \in Task, NEW o \in AnObject, NEW op \in {"insert", "save"}, insert_or_update_impl(t, o, op)
      PROVE  IsItsRow(object'[u], rows')
  <2>1. PICK result, left : Ends(t, op, o, result, left)
    BY <1>2, InsertEnds
  <2>2. u = t
    BY <1>0, <1>2, <2>1, ActorIs, InsertIs
  <2> QED
    BY <1>2, <2>2, InsertIsItsRow
<1>3. ASSUME NEW t \in Task, SelectInserted(t) PROVE IsItsRow(object'[u], rows')
  <2>1. PICK result, left : Ends(t, call[t].op, call[t].object, result, left)
    BY <1>3, SelectIs
  <2>2. u = t /\ inserted[t] # None
    BY <1>0, <1>3, <2>1, ActorIs, SelectIs
  <2> QED
    BY <1>3, <2>2, SelectIsItsRow
<1>4. ASSUME NEW t \in Task, NEW o \in AnObject, update_impl(t, o) PROVE IsItsRow(object'[u], rows')
  <2>1. PICK result : Ends(t, "update", o, result, o)
    BY <1>0, <1>4, UpdateIs
  <2>2. u = t
    BY <1>0, <1>4, <2>1, ActorIs, UpdateIs
  <2> QED
    BY <1>4, <2>2, UpdateIsItsRow
<1>5. ASSUME NEW t \in Task, NEW n \in Model, NEW key, DeleteKey(t, n, key) PROVE FALSE
  <2>1. PICK result : Ends(t, "delete", Object(n, key, NoLink), result, object[t])
    BY <1>0, <1>5, DeleteIs
  <2> QED
    BY <1>0, <1>5, <2>1, ActorIs, DeleteIs
<1>6. ASSUME NEW t \in Task, NEW n \in Model, NEW key, GetByKey(t, n, key) PROVE FALSE
  <2>1. PICK o \in AnObject : Ends(t, "get", o, "ok", o)
    BY <1>0, <1>6, GetIs
  <2> QED
    BY <1>0, <1>6, <2>1, ActorIs, GetIs
<1>7. ASSUME NEW t \in Task, GetForeign(t) PROVE FALSE
  <2>1. PICK result, left : Ends(t, "foreign", object[t], result, left)
    BY <1>0, <1>7, ForeignIs
  <2> QED
    BY <1>0, <1>7, <2>1, ActorIs, ForeignIs
<1> QED
  BY <1>0, <1>1, <1>2, <1>3, <1>4, <1>5, <1>6, <1>7, StepIs

(* After insert, save or update of any object by any of any number of       *)
(* tasks, the row with the object's key says what the object says; on MySQL *)
(* if no other task came between the INSERT and the SELECT.                 *)
THEOREM OrmObjectIsItsRow == Spec => ObjectIsItsRow
<1>1. IInv /\ [Next]_vars =>
        [\A t \in Task :
           Acts(t) /\ call'[t].op \in {"insert", "save", "update"} /\ call'[t].result = "ok" =>
             LET o == object'[t]
             IN (inserted[t] # None => Others(t)) =>
                  o.key \in DOMAIN rows'[o.model] /\ rows'[o.model][o.key] = to_db_field_value(o.value)]_vars
  BY ItsRowStep DEF IsItsRow, Column
<1> QED
  BY <1>1, IInvAlways, PTL DEF Spec, ObjectIsItsRow

-----------------------------------------------------------------------------
(* Errors.                                                                  *)
LEMMA ResultStep ==
  ASSUME IInv, [Next]_vars, NEW u \in Task, Acts(u)
  PROVE  /\ call'[u].result = "panic" =>
              \/ call'[u].op \in {"update", "foreign"} /\ HasAuto(call'[u].object)
              \/ backend = "mysql" /\ inserted[u] # None /\ ~Others(u)
         /\ call'[u].result = "ForeignKeyNotFound" =>
              LET o == call'[u].object
              IN o.key \notin DOMAIN rows["Book"] \/ rows["Book"][o.key] # o.value.key
<1> DEFINE Fine == call'[u].result \notin {"panic", "ForeignKeyNotFound"}
           Panic == call'[u].op \in {"update", "foreign"} /\ HasAuto(call'[u].object)
           Late == backend = "mysql" /\ inserted[u] # None /\ ~Others(u) /\ call'[u].result = "panic"
           Stale == LET o == call'[u].object
                    IN o.key \notin DOMAIN rows["Book"] \/ rows["Book"][o.key] # o.value.key
<1>0. TypeOK
  BY DEF IInv
<1>1. Next
  BY DEF vars, Acts
<1>2. ASSUME NEW t \in Task, NEW o \in AnObject, NEW op, insert_or_update_impl(t, o, op)
      PROVE  Fine
  <2>1. PICK result, left : result \in {"ok", "error", "waits"} /\ Ends(t, op, o, result, left)
    BY <1>2, InsertEnds
  <2> QED
    BY <1>0, <1>2, <2>1, ActorIs, InsertIs
<1>3. ASSUME NEW t \in Task, SelectInserted(t) PROVE Fine \/ Late
  <2>1. CASE inserted[t].key \in DOMAIN rows[object[t].model]
    <3>1. PICK left : Ends(t, call[t].op, call[t].object, "ok", left)
      BY <1>3, <2>1, SelectIs
    <3> QED
      BY <1>0, <1>3, <3>1, ActorIs, SelectIs
  <2>2. CASE inserted[t].key \notin DOMAIN rows[object[t].model]
    <3>1. Ends(t, call[t].op, call[t].object, "panic", object[t])
      BY <1>3, <2>2, SelectIs
    <3>2. u = t /\ call'[u].result = "panic"
      BY <1>0, <1>3, <3>1, ActorIs, SelectIs
    <3>3. backend = "mysql" /\ inserted[t] # None /\ ~Others(t)
      BY <1>3, <2>2, SelectIs DEF Waits, IsRowOf
    <3> QED
      BY <3>2, <3>3
  <2> QED
    BY <2>1, <2>2
<1>4. ASSUME NEW t \in Task, NEW o \in AnObject, update_impl(t, o)
      PROVE  Fine \/ (call'[u].result = "panic" /\ Panic)
  <2>1. CASE HasAuto(o) /\ Ends(t, "update", o, "panic", o)
    BY <1>0, <1>4, <2>1, ActorIs, UpdateIs
  <2>2. ASSUME NEW result \in {"ok", "error", "RecordNotFound"}, Ends(t, "update", o, result, o)
        PROVE  Fine
    BY <1>0, <1>4, <2>2, ActorIs, UpdateIs
  <2> HIDE DEF Fine, Panic
  <2> QED
    BY <1>0, <1>4, <2>1, <2>2, UpdateIs
<1>5. ASSUME NEW t \in Task, NEW n \in Model, NEW key, DeleteKey(t, n, key) PROVE Fine
  <2>1. PICK result \in {"ok", "error"} : Ends(t, "delete", Object(n, key, NoLink), result, object[t])
    BY <1>0, <1>5, DeleteIs
  <2> QED
    BY <1>0, <1>5, <2>1, ActorIs, DeleteIs
<1>6. ASSUME NEW t \in Task, NEW n \in Model, NEW key, GetByKey(t, n, key) PROVE Fine
  <2>1. PICK o \in AnObject : Ends(t, "get", o, "ok", o)
    BY <1>0, <1>6, GetIs
  <2> QED
    BY <1>0, <1>6, <2>1, ActorIs, GetIs
<1>7. ASSUME NEW t \in Task, GetForeign(t)
      PROVE  \/ Fine
             \/ call'[u].result = "panic" /\ Panic
             \/ call'[u].result = "ForeignKeyNotFound" /\ Stale
  <2>0. Counts(t) /\ object[t] \in ABook /\ object[t].value.kind = "key"
    BY <1>0, <1>7, ForeignIs
  <2>1. CASE object[t].value.key = AutoValue /\ Ends(t, "foreign", object[t], "panic", object[t])
    <3>1. HasAuto(object[t])
      BY <2>0, <2>1, BookColumn DEF HasAuto
    <3> QED
      BY <1>0, <2>0, <2>1, <3>1, ActorIs
  <2>2. CASE /\ object[t].value.key \notin DOMAIN rows["Author"] \cup {AutoValue}
             /\ Ends(t, "foreign", object[t], "ForeignKeyNotFound", object[t])
    <3>1. object[t].value.key # None
      BY <2>0, BookIs, Constants
    <3>2. \A b \in DOMAIN rows["Book"] : rows["Book"][b] \in {None} \cup DOMAIN rows["Author"]
      BY <1>0 DEF TypeOK, IsRows, IsValid
    <3> QED
      BY <1>0, <2>0, <2>2, <3>1, <3>2, ActorIs
  <2>3. ASSUME NEW left, Ends(t, "foreign", object[t], "ok", left) PROVE Fine
    BY <1>0, <2>0, <2>3, ActorIs
  <2> HIDE DEF Fine, Panic, Stale
  <2> QED
    BY <1>0, <1>7, <2>1, <2>2, <2>3, ForeignIs
<1>8. Fine \/ Late \/ (call'[u].result = "panic" /\ Panic) \/ (call'[u].result = "ForeignKeyNotFound" /\ Stale)
  <2> HIDE DEF Fine, Late, Panic, Stale
  <2> QED
    BY <1>0, <1>1, <1>2, <1>3, <1>4, <1>5, <1>6, <1>7, StepIs
<1> QED
  BY <1>8

(* A call panics only on a key that is not there yet, or on MySQL because   *)
(* another task came between the INSERT and the SELECT.                     *)
THEOREM OrmPanicsForAReason == Spec => PanicsForAReason
<1>1. IInv /\ [Next]_vars =>
        [\A t \in Task : Acts(t) /\ call'[t].result = "panic" =>
           \/ call'[t].op \in {"update", "foreign"} /\ HasAuto(call'[t].object)
           \/ backend = "mysql" /\ inserted[t] # None /\ ~Others(t)]_vars
  BY ResultStep
<1> QED
  BY <1>1, IInvAlways, PTL DEF Spec, PanicsForAReason

(* A foreign key whose author is not found is that of a stale object.       *)
THEOREM OrmNotFoundIsStale == Spec => NotFoundIsStale
<1>1. IInv /\ [Next]_vars =>
        [\A t \in Task : Acts(t) /\ call'[t].result = "ForeignKeyNotFound" =>
           LET o == call'[t].object
           IN o.key \notin DOMAIN rows["Book"] \/ rows["Book"][o.key] # o.value.key]_vars
  BY ResultStep
<1> QED
  BY <1>1, IInvAlways, PTL DEF Spec, NotFoundIsStale

-----------------------------------------------------------------------------
(* Links.                                                                   *)
IsLost(b) == rows'["Book"][b] = None /\ (b \in DOMAIN rows["Book"] => rows["Book"][b] # None)
LostBy(op, o, b) ==
  IF o.model = "Book" THEN o.value.key \in {None, AutoValue}
  ELSE /\ b \in DOMAIN rows["Book"] /\ rows["Book"][b] \notin DOMAIN rows'["Author"]
       /\ "SetNone" = IF op = "delete" THEN policy.on_delete ELSE policy.on_update

LEMMA LostIsNew ==
  ASSUME NEW b \in DOMAIN rows'["Book"], IsLost(b), b \in DOMAIN rows["Book"]
  PROVE  rows'["Book"][b] # rows["Book"][b]
BY DEF IsLost

LEMMA CountsActs ==
  ASSUME TypeOK, NEW t \in Task, Idle(t), Counts(t)
  PROVE  Acts(t)
<1>1. calls[t] \in Nat /\ calls'[t] \in Nat /\ calls'[t] < calls[t]
  BY CountsIs DEF TypeOK
<1> QED
  BY <1>1 DEF Acts

(* Nothing is stored of a book only when there was no key to store.         *)
LEMMA NothingStored ==
  ASSUME NEW o \in AnObject, o.model = "Book", Stored(o) = None
  PROVE  o.value.key \in {None, AutoValue}
<1>1. Column(o) = o.value.key
  BY ObjectIs, BookColumn DEF Column
<1>2. Column(o) # AutoValue => Stored(o) = Column(o)
  BY DEF Stored, Kept
<1> QED
  BY <1>1, <1>2

LEMMA InsertLoses ==
  ASSUME IInv, NEW t \in Task, NEW o \in AnObject, NEW op \in {"insert", "save"}, insert_or_update_impl(t, o, op),
         NEW b \in DOMAIN rows'["Book"], IsLost(b)
  PROVE  LostBy(op, o, b)
<1> DEFINE s == Statement(o, op = "save")
           key == s.key
           r == s.rows
<1>0. TypeOK /\ IsRows(rows) /\ counter \in [Model -> Key] /\ policy \in Policy /\ o.model \in Model
  BY ObjectIs DEF IInv, TypeOK
<1>1. ~Fails(o, op)
  BY LostIsNew, InsertIs
<1>2. rows' = r /\ key \in Key
  BY <1>1, InsertIs DEF StatementKey
<1>3. CASE ~Moves(o)
  <2>1. r = Put(o.model, key, Stored(o))
    BY <1>0, <1>3, StatementIs
  <2> HIDE DEF r, key
  <2>2. /\ \A n \in Model : n # o.model => r[n] = rows[n]
        /\ DOMAIN r[o.model] = DOMAIN rows[o.model] \cup {key}
        /\ r[o.model][key] = Stored(o)
        /\ \A k \in DOMAIN rows[o.model] : k # key => r[o.model][k] = rows[o.model][k]
    BY <1>0, <2>1, PutIs
  <2>3. o.model = "Book"
    BY <1>2, <2>2, LostIsNew DEF Model
  <2>4. b = key
    BY <1>2, <2>2, <2>3, LostIsNew
  <2>5. Stored(o) = None
    BY <1>2, <2>2, <2>3, <2>4 DEF IsLost
  <2> QED
    BY <2>3, <2>5, NothingStored DEF LostBy
<1>4. CASE Moves(o)
  <2>1. r = Rekeyed(Clash(o), o.key, Stored(o)) /\ o.key # AutoValue
    BY <1>0, <1>4, StatementIs DEF Moves
  <2>2. o.model = "Author" /\ NewKey(o) = o.key /\ Clash(o) # o.key /\ Clash(o) # None /\ o.key \in Key
    BY <1>0, <1>4, <2>1, StoredIs, AuthorIs, ObjectIs DEF Moves, NewKey
  <2> HIDE DEF r, key
  <2>3. /\ DOMAIN r["Author"] = (DOMAIN rows["Author"] \ {Clash(o)}) \cup {o.key}
        /\ DOMAIN r["Book"] = DOMAIN rows["Book"]
        /\ \A k \in DOMAIN rows["Book"] :
                  /\ rows["Book"][k] # Clash(o) => r["Book"][k] = rows["Book"][k]
                  /\ rows["Book"][k] = Clash(o) =>
                       /\ policy.on_update \in Stays => r["Book"][k] = Clash(o)
                       /\ policy.on_update = "Cascade" => r["Book"][k] = o.key
    <3>1. LET q == Rekeyed(Clash(o), o.key, Stored(o))
          IN  /\ DOMAIN q["Author"] = (DOMAIN rows["Author"] \ {Clash(o)}) \cup {o.key}
              /\ DOMAIN q["Book"] = DOMAIN rows["Book"]
              /\ \A k \in DOMAIN rows["Book"] :
                  /\ rows["Book"][k] # Clash(o) => q["Book"][k] = rows["Book"][k]
                  /\ rows["Book"][k] = Clash(o) =>
                       /\ policy.on_update \in Stays => q["Book"][k] = Clash(o)
                       /\ policy.on_update = "Cascade" => q["Book"][k] = o.key
      BY <1>0, RekeyedIs
    <3> QED
      BY <2>1, <3>1
  <2>4. b \in DOMAIN rows["Book"] /\ rows["Book"][b] = Clash(o)
    BY <1>2, <2>3, LostIsNew
  <2>5. r["Book"][b] = None
    BY <1>2 DEF IsLost
  <2>6. policy.on_update = "SetNone"
    BY <1>0, <2>2, <2>3, <2>4, <2>5, Constants DEF Policy, OnChange, Stays
  <2>7. rows["Book"][b] \notin DOMAIN rows'["Author"]
    BY <1>2, <2>2, <2>3, <2>4
  <2> QED
    BY <2>2, <2>4, <2>6, <2>7 DEF LostBy
<1> QED
  BY <1>3, <1>4

LEMMA UpdateLoses ==
  ASSUME IInv, NEW t \in Task, NEW o \in AnObject, update_impl(t, o), NEW b \in DOMAIN rows'["Book"], IsLost(b)
  PROVE  LostBy("update", o, b)
<1> DEFINE r == Changes(o)
<1>0. TypeOK /\ IsRows(rows) /\ o.model \in Model
  BY ObjectIs DEF IInv, TypeOK
<1>1. rows' = r /\ ~HasAuto(o) /\ o.key \in DOMAIN rows[o.model]
  <2>1. rows' # rows
    BY LostIsNew
  <2> QED
    BY <1>0, <2>1, UpdateIs
<1>2. /\ \A n \in Model : n # o.model => r[n] = rows[n]
      /\ DOMAIN r[o.model] = DOMAIN rows[o.model] \cup {o.key}
      /\ r[o.model][o.key] = Column(o)
      /\ \A k \in DOMAIN rows[o.model] : k # o.key => r[o.model][k] = rows[o.model][k]
  BY <1>0, PutIs DEF Changes
<1> HIDE DEF r
<1>3. o.model = "Book"
  BY <1>1, <1>2, LostIsNew DEF Model
<1>4. b = o.key
  BY <1>1, <1>2, <1>3, LostIsNew
<1>5. Column(o) = None
  BY <1>1, <1>2, <1>3, <1>4 DEF IsLost
<1>6. Column(o) = o.value.key
  BY <1>3, ObjectIs, BookColumn DEF Column
<1> QED
  BY <1>3, <1>5, <1>6 DEF LostBy

LEMMA LostStep ==
  ASSUME IInv, [Next]_vars, NEW b \in DOMAIN rows'["Book"], IsLost(b)
  PROVE  \E u \in Task : Acts(u) /\ LostBy(call'[u].op, call'[u].object, b)
<1>0. TypeOK
  BY DEF IInv
<1>1. Next
  BY LostIsNew DEF vars
<1>2. ASSUME NEW t \in Task, NEW o \in AnObject, NEW op \in {"insert", "save"}, insert_or_update_impl(t, o, op)
      PROVE  Acts(t) /\ LostBy(call'[t].op, call'[t].object, b)
  <2>1. PICK result, left : Ends(t, op, o, result, left)
    BY <1>2, InsertEnds
  <2>2. Acts(t) /\ call'[t].object = o /\ call'[t].op = op
    BY <1>0, <1>2, <2>1, ActorIs, CountsActs, InsertIs
  <2> QED
    BY <1>2, <2>2, InsertLoses
<1>3. ASSUME NEW t \in Task, SelectInserted(t) PROVE FALSE
  BY <1>3, SelectIs, LostIsNew
<1>4. ASSUME NEW t \in Task, NEW o \in AnObject, update_impl(t, o)
      PROVE  Acts(t) /\ LostBy(call'[t].op, call'[t].object, b)
  <2>1. PICK result : Ends(t, "update", o, result, o)
    BY <1>0, <1>4, UpdateIs
  <2>2. Acts(t) /\ call'[t].object = o /\ call'[t].op = "update"
    BY <1>0, <1>4, <2>1, ActorIs, CountsActs, UpdateIs
  <2> QED
    BY <1>4, <2>2, UpdateLoses
<1>5. ASSUME NEW t \in Task, NEW n \in Model, NEW key, DeleteKey(t, n, key)
      PROVE  Acts(t) /\ LostBy(call'[t].op, call'[t].object, b)
  <2>1. PICK result : Ends(t, "delete", Object(n, key, NoLink), result, object[t])
    BY <1>0, <1>5, DeleteIs
  <2>2. Acts(t) /\ call'[t].object = Object(n, key, NoLink) /\ call'[t].op = "delete"
    BY <1>0, <1>5, <2>1, ActorIs, CountsActs, DeleteIs
  <2>3. b \in DOMAIN rows["Book"]
    BY <1>0, <1>5, DeleteIs DEF Model
  <2>4. n = "Author" /\ policy.on_delete = "SetNone" /\ rows["Book"][b] \notin DOMAIN rows'["Author"]
    BY <1>0, <1>5, <2>3, DeleteIs, LostIsNew
  <2>5. Object(n, key, NoLink).model = n
    BY DEF Object
  <2> QED
    BY <2>2, <2>3, <2>4, <2>5 DEF LostBy
<1>6. ASSUME NEW t \in Task, NEW n \in Model, NEW key, GetByKey(t, n, key) PROVE FALSE
  BY <1>0, <1>6, GetIs, LostIsNew
<1>7. ASSUME NEW t \in Task, GetForeign(t) PROVE FALSE
  BY <1>0, <1>7, ForeignIs, LostIsNew
<1> QED
  BY <1>0, <1>1, <1>2, <1>3, <1>4, <1>5, <1>6, <1>7, StepIs

(* A book is stored without the link that its object has only if that is to *)
(* an author who was not saved; a stored link is lost only by the policy.   *)
THEOREM OrmLinkLostForAReason == Spec => LinkLostForAReason
<1>1. IInv /\ [Next]_vars =>
        [\A b \in DOMAIN rows'["Book"] :
           rows'["Book"][b] = None /\ (b \in DOMAIN rows["Book"] => rows["Book"][b] # None) =>
             \E t \in Task :
               /\ Acts(t)
               /\ IF call'[t].object.model = "Book" THEN call'[t].object.value.key \in {None, AutoValue}
                  ELSE /\ b \in DOMAIN rows["Book"] /\ rows["Book"][b] \notin DOMAIN rows'["Author"]
                       /\ "SetNone" = IF call'[t].op = "delete" THEN policy.on_delete ELSE policy.on_update]_vars
  BY LostStep DEF IsLost, LostBy
<1> QED
  BY <1>1, IInvAlways, PTL DEF Spec, LinkLostForAReason
===============================================================================
