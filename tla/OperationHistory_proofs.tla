------------------------ MODULE OperationHistory_proofs ------------------------
(***************************************************************************)
(* Undoing plain operations in reverse order is never refused and gives    *)
(* back every schema on the way, for all tables, columns and operations,   *)
(* and whether or not the backend checks foreign keys.                     *)
(***************************************************************************)
EXTENDS OperationHistory, TLAPS

(* Columns are in tables, foreign keys on columns, and the tables they      *)
(* reference exist where the backend wants them to.                         *)
Sound(s) ==
  /\ \A t \in Table : t \notin s.tables => s.columns[t] = {}
  /\ \A fk \in s.fks : /\ fk[1] \in s.tables
                       /\ fk[2] \in s.columns[fk[1]]
                       /\ StrictForeignKeys => fk[3] \in s.tables

(* The entries of the history are linked: each was run on the schema its    *)
(* predecessor left, the last one left the schema there is.                 *)
After(i) == Forwards(history[i].operation, history[i].before)

Linked ==
  /\ \A i \in 1..Len(history) :
       /\ Sound(history[i].before)
       /\ Plain(history[i].operation)
       /\ ForwardsSucceeds(history[i].operation, history[i].before)
  /\ \A i \in 1..(Len(history) - 1) : history[i + 1].before = After(i)
  /\ history # <<>> => schema = After(Len(history))

IInv == TypeOK /\ Sound(schema) /\ Linked

(* A plain operation leaves a schema, and a sound one.                      *)
LEMMA ForwardsSound ==
  ASSUME NEW op \in Operation, NEW s \in Schema, Sound(s), Plain(op)
  PROVE  Forwards(op, s) \in Schema /\ Sound(Forwards(op, s))
<1>1. CASE op \in CreateModelOp /\ CanCreate(op, s)
  <2>1. /\ op.kind = "CreateModel" /\ op.table \in Table
        /\ op.references \in SUBSET (Column \X Table)
        /\ \A r \in op.references : r[1] \in op.columns
    BY <1>1 DEF CreateModelOp, Plain
  <2>2. Forwards(op, s) = CreateTable(op, s)
    BY <1>1, <2>1 DEF Forwards
  <2>3. /\ CreateTable(op, s) \in Schema
        /\ \A t \in Table : t \notin s.tables \cup {op.table} => CreateTable(op, s).columns[t] = {}
    <3>1. {<<op.table, r[1], r[2]>> : r \in op.references} \in SUBSET (Table \X Column \X Table)
      BY <2>1
    <3>2. op.columns \in SUBSET Column
      BY <1>1 DEF CreateModelOp
    <3> QED BY <2>1, <3>1, <3>2 DEF Sound, CreateTable, Schema
  <2> SUFFICES ASSUME NEW fk \in CreateTable(op, s).fks
               PROVE  /\ fk[1] \in s.tables \cup {op.table}
                      /\ fk[2] \in CreateTable(op, s).columns[fk[1]]
                      /\ StrictForeignKeys => fk[3] \in s.tables \cup {op.table}
    BY <2>2, <2>3 DEF Sound, CreateTable
  <2>4. CASE fk \in s.fks
    BY <1>1, <2>1, <2>4 DEF Sound, CreateTable, CanCreate, Schema
  <2>5. CASE \E r \in op.references : fk = <<op.table, r[1], r[2]>>
    BY <1>1, <2>1, <2>5 DEF CreateTable, CanCreate, Schema
  <2> QED BY <2>4, <2>5 DEF CreateTable
<1>2. CASE op \in AddFieldOp /\ CanAddColumn(op, s)
  BY <1>2 DEF AddFieldOp, Forwards, AddColumn, CanAddColumn, Schema, Sound
<1> QED BY <1>1, <1>2 DEF Operation, Forwards, CreateModelOp, AddFieldOp

(* backwards right after a forwards that succeeded is accepted, and takes   *)
(* back what that forwards did, no more and no less.                        *)
LEMMA BackwardsInverts ==
  ASSUME NEW op \in Operation, NEW s \in Schema, Sound(s), Plain(op),
         ForwardsSucceeds(op, s)
  PROVE  /\ BackwardsSucceeds(op, Forwards(op, s))
         /\ Backwards(op, Forwards(op, s)) = s
<1>1. CASE op \in CreateModelOp
  <2>1. /\ op.kind = "CreateModel" /\ op.table \in Table
        /\ op.references \in SUBSET (Column \X Table)
        /\ CanCreate(op, s)
    BY <1>1 DEF CreateModelOp, Plain, ForwardsSucceeds
  <2>2. Forwards(op, s) = CreateTable(op, s)
    BY <2>1 DEF Forwards
  <2> DEFINE c == CreateTable(op, s)
  <2>3. /\ c.tables = s.tables \cup {op.table}
        /\ c.columns = [s.columns EXCEPT ![op.table] = op.columns]
        /\ c.fks = s.fks \cup {<<op.table, r[1], r[2]>> : r \in op.references}
    BY DEF CreateTable
  <2>4. CanDropTable(op, c)
    BY <2>1, <2>3 DEF CanDropTable, CanCreate, Sound
  <2>5. DropTable(op, c).tables = s.tables
    BY <2>1, <2>3 DEF DropTable, CanCreate
  <2>6. DropTable(op, c).columns = s.columns
    <3>1. s.columns \in [Table -> SUBSET Column] /\ s.columns[op.table] = {}
      BY <2>1 DEF Sound, CanCreate, Schema
    <3>2. DropTable(op, c).columns = [c.columns EXCEPT ![op.table] = {}]
      BY DEF DropTable
    <3>3. c.columns = [s.columns EXCEPT ![op.table] = op.columns]
      BY <2>3
    <3> HIDE DEF c
    <3> QED BY <2>1, <3>1, <3>2, <3>3
  <2>7. DropTable(op, c).fks = s.fks
    <3>1. \A fk \in s.fks : fk[1] # op.table
      BY <2>1 DEF Sound, CanCreate
    <3> QED BY <3>1, <2>3 DEF DropTable
  <2>8. DropTable(op, c) = s
    BY <2>5, <2>6, <2>7 DEF DropTable, Schema
  <2> QED BY <2>1, <2>2, <2>4, <2>8 DEF BackwardsSucceeds, Backwards
<1>2. CASE op \in AddFieldOp
  <2>1. /\ op.kind = "AddField" /\ op.table \in Table
        /\ op.column \in Column /\ CanAddColumn(op, s)
    BY <1>2 DEF AddFieldOp, ForwardsSucceeds
  <2>2. Forwards(op, s) = AddColumn(op, s)
    BY <2>1 DEF Forwards
  <2> DEFINE a == AddColumn(op, s)
  <2>3. /\ a.tables = s.tables /\ a.fks = s.fks
        /\ a.columns = [s.columns EXCEPT ![op.table] = @ \cup {op.column}]
    BY DEF AddColumn
  <2>4. CanDropColumn(op, a)
    BY <2>1, <2>3 DEF CanDropColumn, CanAddColumn, Schema
  <2>5. DropColumn(op, a).columns = s.columns
    <3>1. /\ s.columns \in [Table -> SUBSET Column]
          /\ op.column \notin s.columns[op.table]
      BY <2>1 DEF CanAddColumn, Schema
    <3>2. DropColumn(op, a).columns
            = [a.columns EXCEPT ![op.table] = @ \ {op.column}]
      BY DEF DropColumn
    <3>3. a.columns = [s.columns EXCEPT ![op.table] = @ \cup {op.column}]
      BY <2>3
    <3>4. (s.columns[op.table] \cup {op.column}) \ {op.column}
            = s.columns[op.table]
      BY <3>1
    <3> HIDE DEF a
    <3> QED BY <2>1, <3>1, <3>2, <3>3, <3>4
  <2>6. DropColumn(op, a).fks = s.fks
    BY <2>1, <2>3 DEF DropColumn, CanAddColumn, Sound
  <2>7. DropColumn(op, a) = s
    BY <2>3, <2>5, <2>6 DEF DropColumn, Schema
  <2> QED BY <2>1, <2>2, <2>4, <2>7 DEF BackwardsSucceeds, Backwards
<1> QED BY <1>1, <1>2 DEF Operation

-----------------------------------------------------------------------------
LEMMA InitIInv == Init => IInv
BY DEF Init, IInv, TypeOK, Sound, Linked, EmptySchema, Schema

LEMMA RunForwardsIInv ==
  ASSUME \A op \in Available : Plain(op), IInv,
         NEW op \in Available, RunForwards(op)
  PROVE  IInv'
<1>1. op \in Operation /\ Plain(op)
  BY AvailableType
<1> DEFINE e == [operation |-> op, before |-> schema]
<1>2. /\ history \in Seq(Entry) /\ schema \in Schema /\ e \in Entry
  BY <1>1 DEF IInv, TypeOK, Entry
<1>3. /\ history' = Append(history, e)
      /\ schema' = Forwards(op, schema)
      /\ ForwardsSucceeds(op, schema)
  BY DEF RunForwards
<1>4. schema' \in Schema /\ Sound(schema')
  BY <1>1, <1>2, <1>3, ForwardsSound DEF IInv
<1>5. TypeOK'
  BY <1>2, <1>3, <1>4 DEF TypeOK
<1>6. /\ Len(history') = Len(history) + 1
      /\ \A i \in 1..Len(history) : history'[i] = history[i]
      /\ history'[Len(history) + 1] = e
  BY <1>2, <1>3
<1>7. Linked'
  <2>1. \A i \in 1..Len(history') :
          /\ Sound(history'[i].before)
          /\ Plain(history'[i].operation)
          /\ ForwardsSucceeds(history'[i].operation, history'[i].before)
    BY <1>1, <1>2, <1>3, <1>6 DEF IInv, Linked
  <2>2. \A i \in 1..Len(history) : After(i)' = After(i)
    BY <1>6 DEF After
  <2>3. \A i \in 1..(Len(history') - 1) : history'[i + 1].before = After(i)'
    <3> SUFFICES ASSUME NEW i \in 1..Len(history)
                 PROVE  history'[i + 1].before = After(i)
      BY <1>2, <1>6, <2>2
    <3>1. CASE i = Len(history)
      BY <1>2, <1>6, <3>1 DEF IInv, Linked
    <3>2. CASE i < Len(history)
      BY <1>2, <1>6, <3>2 DEF IInv, Linked
    <3> QED BY <1>2, <3>1, <3>2
  <2>4. schema' = After(Len(history))'
    BY <1>2, <1>3, <1>6 DEF After
  <2> QED BY <2>1, <2>3, <2>4 DEF Linked
<1> QED BY <1>4, <1>5, <1>7 DEF IInv

LEMMA RunBackwardsIInv ==
  ASSUME IInv, RunBackwards
  PROVE  IInv' /\ schema' = Last.before
<1> DEFINE n == Len(history)
<1>1. /\ history \in Seq(Entry) /\ n \in Nat \ {0} /\ Last \in Entry
      /\ Last = history[n]
  BY DEF IInv, TypeOK, RunBackwards, Last
<1>2. /\ Last.operation \in Operation /\ Last.before \in Schema
      /\ Sound(Last.before) /\ Plain(Last.operation)
      /\ ForwardsSucceeds(Last.operation, Last.before)
      /\ schema = Forwards(Last.operation, Last.before)
  BY <1>1 DEF Entry, IInv, Linked, After, RunBackwards
<1>3. schema' = Last.before
  BY <1>2, BackwardsInverts DEF RunBackwards
<1>4. /\ history' \in Seq(Entry) /\ Len(history') = n - 1
      /\ \A i \in 1..(n - 1) : history'[i] = history[i]
  <2>1. history' = SubSeq(history, 1, n - 1)
    BY DEF RunBackwards
  <2> HIDE DEF n
  <2>2. history[n] \in Entry /\ n - 1 \in Nat /\ Len(history) = n
    BY <1>1 DEF n
  <2> QED BY <1>1, <2>1, <2>2
<1>5. \A i \in 1..(n - 1) : After(i)' = After(i)
  BY <1>4 DEF After
<1>6. Linked'
  <2>1. \A i \in 1..Len(history') :
          /\ Sound(history'[i].before)
          /\ Plain(history'[i].operation)
          /\ ForwardsSucceeds(history'[i].operation, history'[i].before)
    BY <1>1, <1>4 DEF IInv, Linked
  <2>2. \A i \in 1..(Len(history') - 1) : history'[i + 1].before = After(i)'
    BY <1>1, <1>4, <1>5 DEF IInv, Linked
  <2>3. ASSUME history' # <<>>
        PROVE  schema' = After(Len(history))'
    <3>1. n - 1 \in 1..(n - 1) /\ Len(history') = n - 1
      BY <1>1, <1>4, <2>3
    <3>2. history[(n - 1) + 1].before = After(n - 1)
      BY <3>1 DEF IInv, Linked
    <3>3. After(Len(history))' = After(n - 1)
      BY <1>4, <3>1 DEF After
    <3> QED BY <1>1, <1>3, <3>2, <3>3
  <2> QED BY <2>1, <2>2, <2>3 DEF Linked
<1> QED BY <1>2, <1>3, <1>4, <1>6 DEF IInv, TypeOK

LEMMA HistoryInvariant ==
  ASSUME \A op \in Available : Plain(op)
  PROVE  Spec => []IInv
<1>1. Init => IInv
  BY InitIInv
<1>2. IInv /\ [Next]_vars => IInv'
  <2> SUFFICES ASSUME IInv, [Next]_vars PROVE IInv'
    OBVIOUS
  <2>1. CASE UNCHANGED vars
    BY <2>1 DEF vars, IInv, TypeOK, Linked, After
  <2> QED BY <2>1, RunForwardsIInv, RunBackwardsIInv DEF Next
<1> QED BY <1>1, <1>2, PTL DEF Spec

(* Undoing in reverse order is never refused, for plain operations: the     *)
(* DROP of Operation::backwards finds nothing that still refers to it.      *)
THEOREM HistoryCanBeUndone ==
  ASSUME \A op \in Available : Plain(op)
  PROVE  Spec => []LastCanBeUndone
<1>1. IInv => LastCanBeUndone
  <2> SUFFICES ASSUME IInv, history # <<>>
               PROVE  BackwardsSucceeds(Last.operation, schema)
    BY DEF LastCanBeUndone
  <2>1. Len(history) \in 1..Len(history) /\ Last \in Entry
    BY DEF IInv, TypeOK, Last
  <2> QED BY <2>1, BackwardsInverts DEF IInv, Linked, After, Last, Entry
<1> QED BY <1>1, HistoryInvariant, PTL

(* Operation::backwards gives back the schema its forwards was run on, for  *)
(* plain operations undone in reverse order.                                *)
THEOREM HistoryUndoes ==
  ASSUME \A op \in Available : Plain(op)
  PROVE  Spec => BackwardsUndoes
<1>1. IInv /\ [Next]_vars => [RunBackwards => schema' = Last.before]_vars
  BY RunBackwardsIInv
<1> QED BY <1>1, HistoryInvariant, PTL DEF Spec, BackwardsUndoes
==============================================================================
