---------------------------- MODULE TablesProofs ----------------------------
(***************************************************************************)
(* Proofs about Tables: no table ever reads another's rows, whatever        *)
(* statements interleave, fail or are cut short by a crash; no index misses *)
(* a row, while indexes are created and dropped one at a time; and no index *)
(* has a row too many, nor a UNIQUE column a value twice, while all         *)
(* statements come one at a time.                                           *)
(***************************************************************************)
EXTENDS Tables, WellFoundedInduction, TLAPS

Fields == {"op", "step", "table", "prefix", "index", "kind", "todo", "seen", "batch", "rest"}

Shaped(call) ==
    /\ Fields \subseteq DOMAIN call /\ {"drop", "dropEntries"} \subseteq DOMAIN call.batch
    /\ call.kind \in ColumnKind
    /\ call.op = "drop table" => call.table \in Table

Metas == TableMeta \cup {NoTable}

Shapes ==
    /\ tables \in [Table -> Metas] /\ tableMeta \in [Table -> Metas]
    /\ DOMAIN rows = Prefix
    /\ nextPrefix \in Nat \ {0}
    /\ DOMAIN sqlCall = SQLClient
    /\ \A c \in SQLClient : Shaped(sqlCall[c])

\* What is in memory is also stored, with the same prefix.
Mirrored ==
    \A t \in Table : /\ tableMeta[t] # NoTable <=> Exists(t)
                     /\ Exists(t) => tableMeta[t].prefix = tables[t].prefix

\* The prefixes in use are below the next one and differ.
Allotted ==
    /\ \A t \in Table : Exists(t) => tables[t].prefix < nextPrefix
    /\ \A t, u \in Table : t # u /\ Exists(t) /\ Exists(u) => tables[t].prefix # tables[u].prefix

\* Under a prefix that no table has, all rows are strays.
Vacated ==
    \A p \in Prefix, r \in RowId :
        (\A t \in Table : Exists(t) => tables[t].prefix # p) /\ rows[p][r] # NoRow => <<p, r>> \in strays

\* DROP TABLE holds the lock.
Dropping(c) == sqlCall[c].op = "drop table" /\ sqlCall[c].step \in {"batch", "meta"}

OneDrops == \A c, d \in SQLClient : Dropping(c) /\ Dropping(d) => c = d

\* The table is there while its rows go; the rows it does not delete are strays.
Emptied ==
    \A c \in SQLClient : Dropping(c) =>
        LET call == sqlCall[c] IN
        /\ call.table \in Table /\ Exists(call.table) /\ tables[call.table].prefix = call.prefix
        /\ \A r \in RowId : /\ rows[call.prefix][r] # NoRow
                            /\ call.step = "batch" => r \notin call.batch.drop
                            => <<call.prefix, r>> \in strays

PrefixInv == Shapes /\ Mirrored /\ Allotted /\ Vacated /\ OneDrops /\ Emptied

-----------------------------------------------------------------------------
(* The prefix that is given away next.                                     *)

\* A non-empty set of naturals up to a bound has a greatest element: what Max picks exists.
LEMMA GreatestExists ==
    ASSUME NEW N \in Nat, NEW S, S \subseteq 0..N, S # {}
    PROVE  Max(S) \in S /\ \A y \in S : y <= Max(S)
<1> DEFINE T == {N - x : x \in S}
<1>1. T \subseteq Nat /\ T # {}
  <2>1. \A x \in S : N - x \in Nat
    OBVIOUS
  <2> QED BY <2>1
<1>2. PICK t \in T : \A u \in T : <<u, t>> \notin OpToRel(<, Nat)
    BY <1>1, NatLessThanWellFounded, WFMin
<1>3. \A u \in T : ~(u < t)
    BY <1>1, <1>2, Zenon DEF OpToRel
<1>4. PICK x \in S : t = N - x
    BY <1>2
<1>5. \A y \in S : N - y \in T
    OBVIOUS
<1>6. \A y \in S : x >= y
    BY <1>3, <1>4, <1>5
<1> QED BY <1>6 DEF Max

\* TableManager.Init: the prefix it goes on with is past every stored one.
LEMMA NextFreeIsPast ==
    ASSUME NEW metas \in [Table -> Metas]
    PROVE  /\ NextFree(metas) \in Nat \ {0}
           /\ \A t \in Table : metas[t] # NoTable => metas[t].prefix < NextFree(metas)
<1> DEFINE S == {0} \cup {metas[t].prefix : t \in {u \in Table : metas[u] # NoTable}}
<1>1. S \subseteq 0..MaxPrefix /\ S # {} /\ MaxPrefix \in Nat
    BY TablesAssumption DEF Metas, TableMeta, Prefix
<1>2. Max(S) \in S /\ \A y \in S : y <= Max(S)
    BY <1>1, GreatestExists
<1>3. \A t \in Table : metas[t] # NoTable => metas[t].prefix \in S
    OBVIOUS
<1>4. NextFree(metas) = Max(S) + 1
    BY DEF NextFree
<1> HIDE DEF S
<1>5. \A y \in S : y \in Nat
    BY <1>1
<1>6. \A y \in S : y < Max(S) + 1
    BY <1>2, <1>5
<1> QED BY <1>2, <1>3, <1>4, <1>5, <1>6

-----------------------------------------------------------------------------
(* Steps that leave rows and tables alone.                                 *)

\* One call changes and the others do not.
LEMMA OneCallChanges ==
    ASSUME Shapes, NEW c \in SQLClient, NEW call, Shaped(call), Continue(c, call)
    PROVE  /\ DOMAIN sqlCall' = SQLClient
           /\ sqlCall'[c] = call
           /\ \A d \in SQLClient : d # c => sqlCall'[d] = sqlCall[d]
           /\ \A d \in SQLClient : Shaped(sqlCall'[d])
<1>1. /\ DOMAIN sqlCall' = SQLClient
      /\ sqlCall'[c] = call
      /\ \A d \in SQLClient : d # c => sqlCall'[d] = sqlCall[d]
    BY DEF Shapes, Continue
<1> QED BY <1>1 DEF Shapes

\* A call that is on no step of DROP TABLE under the lock takes the place of another.
LEMMA Quiet ==
    ASSUME PrefixInv, NEW c \in SQLClient, NEW call, Shaped(call), call.step \notin {"batch", "meta"},
           Continue(c, call), UNCHANGED <<rows, schema, strays>>
    PROVE  PrefixInv'
<1>1. /\ DOMAIN sqlCall' = SQLClient
      /\ sqlCall'[c] = call
      /\ \A d \in SQLClient : d # c => sqlCall'[d] = sqlCall[d]
      /\ \A d \in SQLClient : Shaped(sqlCall'[d])
    BY OneCallChanges DEF PrefixInv
<1>2. Shapes' /\ Mirrored' /\ Allotted' /\ Vacated'
    BY <1>1 DEF PrefixInv, Shapes, Mirrored, Allotted, Vacated, Exists, schema
<1>3. \A d \in SQLClient : Dropping(d)' => Dropping(d) /\ sqlCall'[d] = sqlCall[d]
    BY <1>1 DEF Dropping
<1>4. OneDrops'
    BY <1>3 DEF PrefixInv, OneDrops
<1>5. Emptied'
    BY <1>3 DEF PrefixInv, Emptied, Exists, schema
<1> QED BY <1>2, <1>4, <1>5 DEF PrefixInv

\* NoStatement, and what a statement starts with, are calls.
LEMMA Idle == Shaped(NoStatement) /\ NoStatement.step = "idle"
BY DEF Shaped, Fields, NoStatement, NoBatch, ColumnKind

\* Manager.Drop returns to DROP TABLE before its lock, or ends the statement.
LEMMA DroppedIsCall ==
    ASSUME NEW call, Shaped(call)
    PROVE  /\ Shaped(NextIndex(call)) /\ NextIndex(call).step \notin {"batch", "meta"}
           /\ Shaped(Dropped(call)) /\ Dropped(call).step \notin {"batch", "meta"}
<1>1. Shaped(NextIndex(call)) /\ NextIndex(call).step \notin {"batch", "meta"}
  <2>1. CASE call.rest = {}
      BY <2>1 DEF NextIndex, Shaped, Fields
  <2>2. CASE call.rest # {}
    <3> DEFINE i == CHOOSE j \in call.rest : TRUE
    <3>1. NextIndex(call) = [call EXCEPT !.step = "forget", !.index = i, !.rest = @ \ {i}]
        BY <2>2 DEF NextIndex
    <3> HIDE DEF i
    <3> QED BY <3>1 DEF Shaped, Fields
  <2> QED BY <2>1, <2>2
<1> QED BY <1>1, Idle DEF Dropped

-----------------------------------------------------------------------------
(* The steps that write rows or tables.                                    *)

\* BatchWrite. A row written under a prefix that is gone is a stray from now on; any other
\* prefix belongs to a table that nobody is dropping.
LEMMA WriteRowKeeps ==
    ASSUME PrefixInv, NEW c \in SQLClient, WriteRow(c)
    PROVE  PrefixInv'
<1> DEFINE call == sqlCall[c]
           p == call.prefix
           d == NextChange(call)
<1>1. Shaped(call)
    BY DEF PrefixInv, Shapes
<1>2. PICK next : Continue(c, next) /\ Shaped(next) /\ next.step \notin {"batch", "meta"}
  <2>1. CASE Return(c)
      BY <2>1, Idle DEF Return
  <2>2. CASE AfterRow(c)
    <3> DEFINE left == call.todo \ {d}
               later == [call EXCEPT !.step = "key", !.todo = left]
    <3>1. Return(c) \/ Continue(c, later)
        BY <2>2 DEF AfterRow
    <3> HIDE DEF left
    <3>2. Shaped(later) /\ later.step = "key"
        BY <1>1 DEF Shaped, Fields
    <3> HIDE DEF later
    <3> QED BY <3>1, <3>2, <2>1
  <2> QED BY <2>1, <2>2 DEF WriteRow
<1>3. UNCHANGED schema
    BY DEF WriteRow
<1>4. CASE UNCHANGED <<rows, strays>>
    BY <1>2, <1>3, <1>4, Quiet
<1>5. CASE /\ rows' = RowsAfter(p, call.batch, d.new)
           /\ strays' = strays \cup {<<p, r>> : r \in IF Gone(p) THEN call.batch.put ELSE {}}
  <2> DEFINE put == call.batch.put
             val == d.new
  <2>1. /\ DOMAIN sqlCall' = SQLClient
        /\ sqlCall'[c] = next
        /\ \A e \in SQLClient : e # c => sqlCall'[e] = sqlCall[e]
        /\ \A e \in SQLClient : Shaped(sqlCall'[e])
      BY <1>2, OneCallChanges DEF PrefixInv
  <2>2. \A e \in SQLClient : Dropping(e)' => Dropping(e) /\ sqlCall'[e] = sqlCall[e]
      BY <1>2, <2>1 DEF Dropping
  <2>3. /\ DOMAIN rows' = Prefix
        /\ \A q \in Prefix : q # p => rows'[q] = rows[q]
        /\ \A r \in RowId : p \in Prefix /\ r \notin put /\ rows'[p][r] # NoRow => rows[p][r] # NoRow
    <3>1. rows' = [rows EXCEPT ![p] = [r \in RowId |-> IF r \in put THEN val
                                                    ELSE IF r \in call.batch.drop THEN NoRow ELSE rows[p][r]]]
        BY <1>5 DEF RowsAfter
    <3> HIDE DEF put, p, val, call
    <3> QED BY <3>1 DEF PrefixInv, Shapes
  <2>4. strays \subseteq strays'
      BY <1>5
  <2>5. Gone(p) => \A r \in put : <<p, r>> \in strays'
      BY <1>5
  <2> HIDE DEF put, p
  <2>6. Shapes' /\ Mirrored' /\ Allotted'
      BY <1>3, <2>1, <2>3 DEF PrefixInv, Shapes, Mirrored, Allotted, Exists, schema
  <2>7. Vacated'
    <3> SUFFICES ASSUME NEW q \in Prefix, NEW r \in RowId,
                        \A t \in Table : Exists(t) => tables[t].prefix # q, rows'[q][r] # NoRow
                 PROVE  <<q, r>> \in strays'
        BY <1>3 DEF Vacated, Exists, schema
    <3>1. CASE rows[q][r] # NoRow
        BY <3>1, <2>4 DEF PrefixInv, Vacated
    <3>2. CASE rows[q][r] = NoRow
        BY <3>2, <2>3, <2>5 DEF Gone
    <3> QED BY <3>1, <3>2
  <2>8. OneDrops'
      BY <2>2 DEF PrefixInv, OneDrops
  <2>9. Emptied'
    <3> SUFFICES ASSUME NEW e \in SQLClient, Dropping(e)'
                 PROVE  LET own == sqlCall[e] IN
                        /\ own.table \in Table /\ Exists(own.table) /\ tables[own.table].prefix = own.prefix
                        /\ \A r \in RowId : /\ rows'[own.prefix][r] # NoRow
                                            /\ own.step = "batch" => r \notin own.batch.drop
                                            => <<own.prefix, r>> \in strays'
        BY <1>3, <2>2 DEF Emptied, Exists, schema
    <3> DEFINE own == sqlCall[e]
    <3>1. Dropping(e)
        BY <2>2
    <3>2. /\ own.table \in Table /\ Exists(own.table) /\ tables[own.table].prefix = own.prefix
          /\ \A r \in RowId : /\ rows[own.prefix][r] # NoRow
                              /\ own.step = "batch" => r \notin own.batch.drop
                              => <<own.prefix, r>> \in strays
        BY <3>1 DEF PrefixInv, Emptied
    <3>3. own.prefix \in Prefix
        BY <3>2 DEF PrefixInv, Shapes, Metas, TableMeta, Exists
    <3>4. own.prefix = p => Gone(p)
        BY <3>1 DEF Gone, Doing, Dropping
    <3>5. ASSUME NEW r \in RowId, rows'[own.prefix][r] # NoRow, own.step = "batch" => r \notin own.batch.drop
          PROVE  <<own.prefix, r>> \in strays'
        BY <2>3, <2>4, <2>5, <3>2, <3>3, <3>4, <3>5
    <3> QED BY <3>2, <3>5
  <2> QED BY <2>6, <2>7, <2>8, <2>9 DEF PrefixInv
<1> QED BY <1>4, <1>5 DEF WriteRow

\* While nobody holds the lock no rows are being dropped, before a step as after it when the
\* call that takes the place of another does not take the lock.
LEMMA Unlocked ==
    ASSUME PrefixInv, ~Locked, NEW c \in SQLClient, Return(c)
    PROVE  /\ DOMAIN sqlCall' = SQLClient
           /\ \A e \in SQLClient : Shaped(sqlCall'[e]) /\ ~Dropping(e)'
<1>1. Shaped(NoStatement) /\ NoStatement.step = "idle" /\ Continue(c, NoStatement)
    BY Idle DEF Return
<1>2. /\ DOMAIN sqlCall' = SQLClient
      /\ sqlCall'[c] = NoStatement
      /\ \A e \in SQLClient : e # c => sqlCall'[e] = sqlCall[e]
      /\ \A e \in SQLClient : Shaped(sqlCall'[e])
    BY <1>1, OneCallChanges DEF PrefixInv
<1>3. \A e \in SQLClient : ~Dropping(e)
    BY DEF Locked, Dropping
<1> QED BY <1>1, <1>2, <1>3 DEF Dropping

\* TableManager.CreateTable: the next prefix is nobody's, and is used up also by a failure.
LEMMA CreateTableKeeps ==
    ASSUME PrefixInv, NEW c \in SQLClient, CreateTable(c)
    PROVE  PrefixInv'
<1> DEFINE t == sqlCall[c].table
           meta == [prefix |-> nextPrefix, column |-> sqlCall[c].kind]
<1>1. ~Locked /\ Return(c) /\ UNCHANGED <<rows, strays>>
    BY DEF CreateTable, sqlHistory
<1>2. CASE UNCHANGED schema
    BY <1>1, <1>2, Idle, Quiet DEF Return
<1>3. CASE /\ ~Exists(t) /\ nextPrefix <= MaxPrefix /\ nextPrefix' = nextPrefix + 1
           /\ \/ /\ tableMeta' = [tableMeta EXCEPT ![t] = meta]
                 /\ tables' = [tables EXCEPT ![t] = meta]
              \/ UNCHANGED <<tableMeta, tables>>
  <2>1. /\ DOMAIN sqlCall' = SQLClient
        /\ \A e \in SQLClient : Shaped(sqlCall'[e]) /\ ~Dropping(e)'
      BY <1>1, Unlocked
  <2>2. meta \in TableMeta /\ meta # NoTable /\ meta.prefix = nextPrefix
    <3>1. nextPrefix \in Prefix
        BY <1>3, TablesAssumption DEF PrefixInv, Shapes, Prefix
    <3>2. sqlCall[c].kind \in ColumnKind
        BY DEF PrefixInv, Shapes, Shaped
    <3> QED BY <3>1, <3>2, TablesAssumption DEF TableMeta
  <2> HIDE DEF meta
  <2>3. Shapes'
      BY <1>1, <1>3, <2>1, <2>2 DEF PrefixInv, Shapes, Metas
  <2>4. \A u \in Table : \/ tables'[u] = tables[u] /\ tableMeta'[u] = tableMeta[u]
                         \/ u = t /\ tables'[u] = meta /\ tableMeta'[u] = meta
    <3>1. DOMAIN tables = Table /\ DOMAIN tableMeta = Table
        BY DEF PrefixInv, Shapes
    <3> HIDE DEF t
    <3> QED BY <1>3, <3>1
  <2> HIDE DEF t
  <2>5. Mirrored'
      BY <2>2, <2>4 DEF PrefixInv, Mirrored, Exists
  <2>6. \A u \in Table : Exists(u) => tables[u].prefix \in Nat
      BY DEF PrefixInv, Shapes, Metas, TableMeta, Prefix, Exists
  <2>7. Allotted'
      BY <1>3, <2>2, <2>4, <2>6 DEF PrefixInv, Shapes, Allotted, Exists
  <2>8. \A u \in Table : Exists(u) => tables'[u] = tables[u] /\ Exists(u)'
      BY <1>3, <2>4 DEF Exists
  <2>9. Vacated'
      BY <1>1, <2>8 DEF PrefixInv, Vacated
  <2>10. OneDrops' /\ Emptied'
      BY <2>1 DEF OneDrops, Emptied
  <2> QED BY <2>3, <2>5, <2>7, <2>9, <2>10 DEF PrefixInv
<1>4. Exists(t) \/ nextPrefix > MaxPrefix \/ nextPrefix <= MaxPrefix
    BY TablesAssumption DEF PrefixInv, Shapes
<1> QED BY <1>2, <1>3, <1>4 DEF CreateTable

\* TableManager.AlterTable: the columns change, in memory or in both places, and the prefix
\* in neither.
LEMMA AlterTableKeeps ==
    ASSUME PrefixInv, NEW c \in SQLClient, AlterTable(c)
    PROVE  PrefixInv'
<1> DEFINE t == sqlCall[c].table
           altered == [tables EXCEPT ![t].column = sqlCall[c].kind]
<1>1. ~Locked /\ Return(c) /\ UNCHANGED <<rows, nextPrefix, strays>>
    BY DEF AlterTable, sqlHistory
<1>2. CASE UNCHANGED <<tables, tableMeta>>
    BY <1>1, <1>2, Idle, Quiet DEF Return, schema
<1>3. CASE /\ Exists(t) /\ tables' = altered
           /\ tableMeta' = [tableMeta EXCEPT ![t] = altered[t]] \/ UNCHANGED tableMeta
  <2>1. /\ DOMAIN sqlCall' = SQLClient
        /\ \A e \in SQLClient : Shaped(sqlCall'[e]) /\ ~Dropping(e)'
      BY <1>1, Unlocked
  <2>2. CASE t \notin Table
    <3>1. UNCHANGED <<tables, tableMeta>>
        BY <1>3, <2>2 DEF PrefixInv, Shapes
    <3> QED BY <1>2, <3>1
  <2>3. CASE t \in Table
    <3>1. altered = [tables EXCEPT ![t] = [tables[t] EXCEPT !.column = sqlCall[c].kind]]
        OBVIOUS
    <3>2. tables[t] \in TableMeta /\ sqlCall[c].kind \in ColumnKind
        BY <1>3, <2>3 DEF PrefixInv, Shapes, Shaped, Metas, Exists
    <3>3. /\ altered[t] \in TableMeta /\ altered[t] # NoTable
          /\ altered[t].prefix = tables[t].prefix
      <4>1. altered[t] = [tables[t] EXCEPT !.column = sqlCall[c].kind]
          BY <2>3, <3>1 DEF PrefixInv, Shapes
      <4> QED BY <3>2, <4>1, TablesAssumption DEF TableMeta
    <3>4. altered \in [Table -> Metas] /\ \A u \in Table : u # t => altered[u] = tables[u]
        BY <2>3, <3>1, <3>3 DEF PrefixInv, Shapes, Metas
    <3> HIDE DEF altered, t
    <3>5. Shapes'
        BY <1>1, <1>3, <2>1, <2>3, <3>3, <3>4 DEF PrefixInv, Shapes, Metas
    <3>6. \A u \in Table : /\ Exists(u)' <=> Exists(u)
                           /\ tables'[u].prefix = tables[u].prefix
        BY <1>3, <3>3, <3>4 DEF Exists
    <3>7. Mirrored'
      <4>1. \A u \in Table : /\ tableMeta'[u] # NoTable <=> tableMeta[u] # NoTable
                             /\ tableMeta'[u] # NoTable => tableMeta'[u].prefix = tableMeta[u].prefix
          BY <1>3, <2>3, <3>3 DEF PrefixInv, Shapes, Mirrored, Exists
      <4> QED BY <3>6, <4>1 DEF PrefixInv, Mirrored, Exists
    <3>8. Allotted' /\ Vacated'
        BY <1>1, <3>6 DEF PrefixInv, Allotted, Vacated
    <3>9. OneDrops' /\ Emptied'
        BY <2>1 DEF OneDrops, Emptied
    <3> QED BY <3>5, <3>7, <3>8, <3>9 DEF PrefixInv
  <2> QED BY <2>2, <2>3
<1> QED BY <1>2, <1>3 DEF AlterTable

\* TableManager.DropTable takes the lock when nobody has it, and lists all rows there are.
LEMMA DropTableKeeps ==
    ASSUME PrefixInv, NEW c \in SQLClient, DropTable(c)
    PROVE  PrefixInv'
<1> DEFINE call == sqlCall[c]
           t == call.table
           own == tables[t].prefix
           listed == {r \in RowId : rows[own][r] # NoRow}
           locking == [call EXCEPT !.step = "batch", !.prefix = own, !.batch.drop = listed]
<1>1. Shaped(call) /\ call.op = "drop table" /\ t \in Table /\ ~Locked /\ UNCHANGED <<rows, schema, strays>>
    BY DEF PrefixInv, Shapes, Shaped, DropTable, Doing, stored, schema, sqlHistory
<1>2. CASE Return(c)
    BY <1>1, <1>2, Idle, Quiet DEF Return
<1>3. CASE Exists(t) /\ Continue(c, locking)
  <2>1. /\ Shaped(locking)
        /\ locking.op = "drop table" /\ locking.step = "batch" /\ locking.table = t
        /\ locking.prefix = own /\ locking.batch.drop = listed
    <3> HIDE DEF listed, own, call, t
    <3>1. locking = [[[call EXCEPT !.step = "batch"] EXCEPT !.prefix = own]
                        EXCEPT !.batch = [call.batch EXCEPT !.drop = listed]]
        BY <1>1 DEF Shaped, Fields
    <3>2. t = call.table
        BY DEF t
    <3> HIDE DEF locking
    <3> QED BY <1>1, <3>1, <3>2 DEF Shaped, Fields
  <2> HIDE DEF locking
  <2>2. /\ DOMAIN sqlCall' = SQLClient
        /\ sqlCall'[c] = locking
        /\ \A d \in SQLClient : d # c => sqlCall'[d] = sqlCall[d]
        /\ \A d \in SQLClient : Shaped(sqlCall'[d])
      BY <1>3, <2>1, OneCallChanges DEF PrefixInv
  <2>3. Shapes' /\ Mirrored' /\ Allotted' /\ Vacated'
      BY <1>1, <2>2 DEF PrefixInv, Shapes, Mirrored, Allotted, Vacated, Exists, schema
  <2>4. \A d \in SQLClient : Dropping(d)' => d = c
      BY <1>1, <2>2 DEF Locked, Dropping
  <2>5. OneDrops'
      BY <2>4 DEF OneDrops
  <2>6. \A r \in RowId : rows'[own][r] # NoRow => r \in locking.batch.drop
      BY <1>1, <2>1
  <2>7. tables'[t] # NoTable /\ tables'[t].prefix = own
      BY <1>1, <1>3 DEF schema, Exists
  <2> HIDE DEF listed, own, t
  <2>8. Emptied'
    <3> SUFFICES ASSUME NEW d \in SQLClient, Dropping(d)'
                 PROVE  /\ locking.table \in Table /\ tables'[locking.table] # NoTable
                        /\ tables'[locking.table].prefix = locking.prefix
                        /\ \A r \in RowId : rows'[locking.prefix][r] # NoRow => r \in locking.batch.drop
        BY <2>1, <2>2, <2>4 DEF Emptied, Exists
    <3> QED BY <1>1, <2>1, <2>6, <2>7
  <2> QED BY <2>3, <2>5, <2>8 DEF PrefixInv
<1> QED BY <1>2, <1>3 DEF DropTable

\* BatchWrite of the rows listed under the lock: those that are left were written since.
LEMMA DropRowsKeeps ==
    ASSUME PrefixInv, NEW c \in SQLClient, DropRows(c)
    PROVE  PrefixInv'
<1> DEFINE call == sqlCall[c]
           own == call.prefix
           emptied == [call EXCEPT !.step = "meta"]
<1>1. Shaped(call) /\ Dropping(c) /\ call.step = "batch" /\ UNCHANGED <<schema, strays>>
    BY DEF PrefixInv, Shapes, Dropping, DropRows, Doing, schema, sqlHistory
<1>2. CASE Return(c) /\ UNCHANGED rows
    BY <1>1, <1>2, Idle, Quiet DEF Return
<1>3. CASE rows' = RowsAfter(own, call.batch, NoRow) /\ Continue(c, emptied)
  <2>1. /\ Shaped(emptied) /\ emptied.step = "meta"
        /\ emptied.op = call.op /\ emptied.table = call.table /\ emptied.prefix = own
      BY <1>1 DEF Shaped, Fields
  <2> HIDE DEF emptied
  <2>2. /\ DOMAIN sqlCall' = SQLClient
        /\ sqlCall'[c] = emptied
        /\ \A d \in SQLClient : d # c => sqlCall'[d] = sqlCall[d]
        /\ \A d \in SQLClient : Shaped(sqlCall'[d])
      BY <1>3, <2>1, OneCallChanges DEF PrefixInv
  <2>3. /\ call.table \in Table /\ Exists(call.table) /\ tables[call.table].prefix = own
        /\ \A r \in RowId : rows[own][r] # NoRow /\ r \notin call.batch.drop => <<own, r>> \in strays
      BY <1>1 DEF PrefixInv, Emptied
  <2>4. own \in Prefix
      BY <2>3 DEF PrefixInv, Shapes, Metas, TableMeta, Exists
  <2>5. /\ DOMAIN rows' = Prefix
        /\ \A q \in Prefix : q # own => rows'[q] = rows[q]
        /\ \A r \in RowId : rows'[own][r] # NoRow => rows[own][r] # NoRow /\ r \notin call.batch.drop
    <3>1. rows' = [rows EXCEPT ![own] = [r \in RowId |-> IF r \in call.batch.put THEN NoRow
                                                        ELSE IF r \in call.batch.drop THEN NoRow ELSE rows[own][r]]]
        BY <1>3 DEF RowsAfter
    <3> HIDE DEF own, call
    <3> QED BY <2>4, <3>1 DEF PrefixInv, Shapes
  <2>6. \A d \in SQLClient : Dropping(d)' => d = c
      BY <1>1, <2>2 DEF PrefixInv, OneDrops, Dropping
  <2>7. Shapes' /\ Mirrored' /\ Allotted'
      BY <1>1, <2>2, <2>5 DEF PrefixInv, Shapes, Mirrored, Allotted, Exists, schema
  <2>8. \A p \in Prefix, r \in RowId : rows'[p][r] # NoRow => rows[p][r] # NoRow
      BY <2>5
  <2>9. Vacated'
      BY <1>1, <2>8 DEF PrefixInv, Vacated, Exists, schema
  <2>10. OneDrops'
      BY <2>6 DEF OneDrops
  <2>11. \A r \in RowId : rows'[own][r] # NoRow => <<own, r>> \in strays'
      BY <1>1, <2>3, <2>5
  <2>12. tables' = tables
      BY <1>1 DEF schema
  <2> HIDE DEF own, call
  <2>13. Emptied'
    <3> SUFFICES ASSUME NEW d \in SQLClient, Dropping(d)'
                 PROVE  /\ emptied.table \in Table /\ tables'[emptied.table] # NoTable
                        /\ tables'[emptied.table].prefix = emptied.prefix
                        /\ \A r \in RowId : rows'[emptied.prefix][r] # NoRow => <<emptied.prefix, r>> \in strays'
        BY <2>1, <2>2, <2>6 DEF Emptied, Exists
    <3> QED BY <2>1, <2>3, <2>11, <2>12 DEF Exists
  <2> QED BY <2>7, <2>9, <2>10, <2>13 DEF PrefixInv
<1> QED BY <1>2, <1>3 DEF DropRows

\* The metadata go from both places. What is left under the table's prefix are strays.
LEMMA DropMetaKeeps ==
    ASSUME PrefixInv, NEW c \in SQLClient, DropMeta(c)
    PROVE  PrefixInv'
<1>1. Dropping(c) /\ sqlCall[c].step = "meta" /\ Return(c) /\ UNCHANGED <<rows, nextPrefix, strays>>
    BY DEF Dropping, DropMeta, Doing, sqlHistory
<1>2. CASE UNCHANGED <<tables, tableMeta>>
    BY <1>1, <1>2, Idle, Quiet DEF Return, schema
<1>3. CASE /\ tableMeta' = [tableMeta EXCEPT ![sqlCall[c].table] = NoTable]
           /\ tables' = [tables EXCEPT ![sqlCall[c].table] = NoTable]
  <2>1. /\ Shaped(NoStatement) /\ NoStatement.step = "idle" /\ Continue(c, NoStatement)
      BY <1>1, Idle DEF Return
  <2>2. /\ DOMAIN sqlCall' = SQLClient
        /\ sqlCall'[c] = NoStatement
        /\ \A d \in SQLClient : d # c => sqlCall'[d] = sqlCall[d]
        /\ \A d \in SQLClient : Shaped(sqlCall'[d])
      BY <2>1, OneCallChanges DEF PrefixInv
  <2>3. \A d \in SQLClient : ~Dropping(d)'
      BY <1>1, <2>1, <2>2 DEF PrefixInv, OneDrops, Dropping
  <2>4. PICK t \in Table : /\ t = sqlCall[c].table /\ Exists(t) /\ tables[t].prefix = sqlCall[c].prefix
                           /\ \A r \in RowId : rows[tables[t].prefix][r] # NoRow => <<tables[t].prefix, r>> \in strays
    <3> DEFINE t == sqlCall[c].table
    <3>1. /\ t \in Table /\ Exists(t) /\ tables[t].prefix = sqlCall[c].prefix
          /\ \A r \in RowId : rows[sqlCall[c].prefix][r] # NoRow => <<sqlCall[c].prefix, r>> \in strays
        BY <1>1 DEF PrefixInv, Emptied
    <3> QED BY <3>1
  <2>5. /\ tables' \in [Table -> Metas] /\ tableMeta' \in [Table -> Metas]
        /\ tables'[t] = NoTable /\ tableMeta'[t] = NoTable
        /\ \A u \in Table : u # t => tables'[u] = tables[u] /\ tableMeta'[u] = tableMeta[u]
      BY <1>3, <2>4 DEF PrefixInv, Shapes, Metas
  <2>6. Shapes'
      BY <1>1, <2>2, <2>5 DEF PrefixInv, Shapes
  <2>7. Mirrored'
      BY <2>5 DEF PrefixInv, Mirrored, Exists
  <2>8. Allotted'
      BY <1>1, <2>5 DEF PrefixInv, Allotted, Exists
  <2>9. Vacated'
      BY <1>1, <2>4, <2>5 DEF PrefixInv, Vacated, Exists
  <2>10. OneDrops' /\ Emptied'
      BY <2>3 DEF OneDrops, Emptied
  <2> QED BY <2>6, <2>7, <2>8, <2>9, <2>10 DEF PrefixInv
<1> QED BY <1>2, <1>3 DEF DropMeta

\* A restart: memory is what the store holds, and no statement is under way.
LEMMA SQLCrashKeeps ==
    ASSUME PrefixInv, SQLCrash
    PROVE  PrefixInv'
<1>1. /\ tables' = tableMeta /\ tableMeta' = tableMeta /\ nextPrefix' = NextFree(tableMeta)
      /\ UNCHANGED <<rows, strays>>
      /\ sqlCall' = [c \in SQLClient |-> NoStatement]
    BY DEF SQLCrash, stored, sqlHistory
<1>2. /\ NextFree(tableMeta) \in Nat \ {0}
      /\ \A t \in Table : tableMeta[t] # NoTable => tableMeta[t].prefix < NextFree(tableMeta)
    BY NextFreeIsPast DEF PrefixInv, Shapes
<1>3. \A c \in SQLClient : Shaped(sqlCall'[c]) /\ ~Dropping(c)'
    BY <1>1, Idle DEF Dropping
<1>4. Shapes'
    BY <1>1, <1>2, <1>3 DEF PrefixInv, Shapes
<1>5. Mirrored'
    BY <1>1 DEF Mirrored, Exists
<1>6. Allotted'
    BY <1>1, <1>2 DEF PrefixInv, Mirrored, Allotted, Exists
<1>7. Vacated'
    BY <1>1 DEF PrefixInv, Mirrored, Vacated, Exists
<1>8. OneDrops' /\ Emptied'
    BY <1>3 DEF OneDrops, Emptied
<1> QED BY <1>4, <1>5, <1>6, <1>7, <1>8 DEF PrefixInv

-----------------------------------------------------------------------------
(* All other steps, and the theorem.                                       *)

\* A step that only moves a statement on, outside the lock.
Calm(c) ==
    /\ \E call : Shaped(call) /\ call.step \notin {"batch", "meta"} /\ Continue(c, call)
    /\ UNCHANGED <<rows, schema, strays>>

\* Such a step changes nothing that PrefixInv says of the schema or of the rows.
LEMMA CalmKeeps ==
    ASSUME PrefixInv, NEW c \in SQLClient, Calm(c)
    PROVE  PrefixInv'
<1>1. PICK call : Shaped(call) /\ call.step \notin {"batch", "meta"} /\ Continue(c, call)
    BY DEF Calm
<1> QED BY <1>1, Quiet DEF Calm

\* The steps of an UPDATE, an INSERT or a DELETE that only read.
LEMMA ReadsAreCalm ==
    ASSUME PrefixInv, NEW c \in SQLClient,
           ScanRows(c) \/ BeginWrite(c) \/ CheckKey(c) \/ CheckIndexes(c)
    PROVE  Calm(c)
<1> DEFINE call == sqlCall[c]
<1>1. Shaped(call) /\ UNCHANGED <<rows, schema, strays>>
    BY DEF PrefixInv, Shapes, ScanRows, BeginWrite, CheckKey, CheckIndexes, stored, schema, sqlHistory
<1>2. Return(c) => Calm(c)
    BY <1>1, Idle DEF Calm, Return
<1>3. CASE ScanRows(c)
  <2>1. PICK todo : Return(c) \/ Continue(c, [call EXCEPT !.step = "begin", !.todo = todo])
      BY <1>3 DEF ScanRows
  <2>2. Shaped([call EXCEPT !.step = "begin", !.todo = todo])
      BY <1>1 DEF Shaped, Fields
  <2>3. [call EXCEPT !.step = "begin", !.todo = todo].step = "begin"
      BY <1>1 DEF Shaped, Fields
  <2> QED BY <1>1, <1>2, <2>1, <2>2, <2>3 DEF Calm
<1>4. CASE BeginWrite(c)
  <2> DEFINE next == [call EXCEPT !.step = "key", !.prefix = tables[call.table].prefix]
  <2>1. Return(c) \/ Continue(c, next)
      BY <1>4 DEF BeginWrite
  <2>2. Shaped(next) /\ next.step = "key"
      BY <1>1 DEF Shaped, Fields
  <2> HIDE DEF next
  <2> QED BY <1>1, <1>2, <2>1, <2>2 DEF Calm
<1>5. CASE CheckKey(c)
  <2> DEFINE next == [call EXCEPT !.step = "index"]
  <2>1. Return(c) \/ Continue(c, next)
      BY <1>5 DEF CheckKey
  <2>2. Shaped(next) /\ next.step = "index"
      BY <1>1 DEF Shaped, Fields
  <2> HIDE DEF next
  <2> QED BY <1>1, <1>2, <2>1, <2>2 DEF Calm
<1>6. CASE CheckIndexes(c)
  <2>1. PICK seen, batch : /\ Return(c) \/ Continue(c, [call EXCEPT !.step = "write", !.seen = seen, !.batch = batch])
                           /\ {"drop", "dropEntries"} \subseteq DOMAIN batch
    <3>1. \A d, listed, violated : {"drop", "dropEntries"} \subseteq DOMAIN BatchOf(d, listed, violated)
        BY DEF BatchOf
    <3>2. PICK seen, d, listed, violated :
              \/ Return(c)
              \/ Continue(c, [call EXCEPT !.step = "write", !.seen = seen, !.batch = BatchOf(d, listed, violated)])
        BY <1>6 DEF CheckIndexes
    <3> DEFINE batch == BatchOf(d, listed, violated)
    <3>3. Return(c) \/ Continue(c, [call EXCEPT !.step = "write", !.seen = seen, !.batch = batch])
        BY <3>2
    <3>4. {"drop", "dropEntries"} \subseteq DOMAIN batch
        BY <3>1
    <3> HIDE DEF batch
    <3> QED BY <3>3, <3>4
  <2> DEFINE next == [call EXCEPT !.step = "write", !.seen = seen, !.batch = batch]
  <2>2. Shaped(next) /\ next.step = "write"
      BY <1>1, <2>1 DEF Shaped, Fields
  <2>3. Return(c) \/ Continue(c, next)
      BY <2>1
  <2> HIDE DEF next
  <2> QED BY <1>1, <1>2, <2>2, <2>3 DEF Calm
<1> QED BY <1>3, <1>4, <1>5, <1>6

\* The steps of ALTER TABLE and DROP TABLE before they ask for the lock, and of CREATE INDEX.
LEMMA IndexWorkIsCalm ==
    ASSUME PrefixInv, NEW c \in SQLClient,
           \/ CheckColumn(c) \/ ListIndexes(c) \/ CheckTable(c) \/ ScanForIndex(c) \/ Rebuild(c)
           \/ \E known \in BOOLEAN : CreateIndex(c, known)
    PROVE  Calm(c)
<1> DEFINE call == sqlCall[c]
           at(step) == [call EXCEPT !.step = step]
<1>1. Shaped(call)
    BY DEF PrefixInv, Shapes
<1>2. UNCHANGED <<rows, schema, strays>>
    BY DEF CheckColumn, ListIndexes, CheckTable, ScanForIndex, Rebuild, CreateIndex, stored, schema, sqlHistory
<1>3. Return(c) => Calm(c)
    BY <1>2, Idle DEF Calm, Return
<1>4. \A step : Shaped(at(step)) /\ at(step).step = step
    BY <1>1 DEF Shaped, Fields
<1>5. CASE ListIndexes(c)
  <2>1. PICK listed : Continue(c, NextIndex([call EXCEPT !.rest = listed]))
      BY <1>5 DEF ListIndexes
  <2>2. Shaped([call EXCEPT !.rest = listed])
      BY <1>1 DEF Shaped, Fields
  <2> QED BY <1>2, <2>1, <2>2, DroppedIsCall DEF Calm
<1>6. CASE ScanForIndex(c)
  <2>1. PICK todo : Return(c) \/ Continue(c, [call EXCEPT !.step = "rebuild", !.todo = todo])
      BY <1>6 DEF ScanForIndex
  <2> DEFINE next == [call EXCEPT !.step = "rebuild", !.todo = todo]
  <2>2. Shaped(next) /\ next.step = "rebuild"
      BY <1>1 DEF Shaped, Fields
  <2>3. Return(c) \/ Continue(c, next)
      BY <2>1
  <2> HIDE DEF next
  <2> QED BY <1>2, <1>3, <2>2, <2>3 DEF Calm
<1> HIDE DEF at
<1>7. CASE CheckColumn(c) \/ CheckTable(c) \/ Rebuild(c) \/ \E known \in BOOLEAN : CreateIndex(c, known)
  <2>1. Return(c) \/ Continue(c, at("run")) \/ Continue(c, at("create")) \/ Continue(c, at("forget")) \/ Continue(c, at("scan"))
      BY <1>7 DEF CheckColumn, CheckTable, Rebuild, CreateIndex, at
  <2> QED BY <1>2, <1>3, <1>4, <2>1 DEF Calm
<1> QED BY <1>5, <1>6, <1>7

\* The steps of Manager.Drop.
LEMMA IndexDropIsCalm ==
    ASSUME PrefixInv, NEW c \in SQLClient,
           Forget(c) \/ DropIndexMeta(c) \/ ListEntries(c) \/ EraseEntries(c)
    PROVE  Calm(c)
<1> DEFINE call == sqlCall[c]
           at(step) == [call EXCEPT !.step = step]
<1>1. Shaped(call)
    BY DEF PrefixInv, Shapes
<1>2. UNCHANGED <<rows, schema, strays>>
    BY DEF Forget, DropIndexMeta, ListEntries, EraseEntries, stored, schema, sqlHistory
<1>3. \A step : Shaped(at(step)) /\ at(step).step = step
    BY <1>1 DEF Shaped, Fields
<1>4. CASE Forget(c) \/ DropIndexMeta(c)
  <2> HIDE DEF at
  <2>1. Continue(c, Dropped(call)) \/ Continue(c, at("unmeta")) \/ Continue(c, at("list"))
      BY <1>4 DEF Forget, DropIndexMeta, at
  <2> QED BY <1>1, <1>2, <1>3, <2>1, DroppedIsCall DEF Calm
<1>5. CASE ListEntries(c)
  <2> DEFINE next(erased) == [call EXCEPT !.step = "erase", !.batch.dropEntries = erased]
  <2>1. \A erased : Shaped(next(erased)) /\ next(erased).step = "erase"
      BY <1>1 DEF Shaped, Fields
  <2>2. PICK erased : Continue(c, Dropped(call)) \/ Continue(c, next(erased))
      BY <1>5 DEF ListEntries
  <2> HIDE DEF next
  <2> QED BY <1>1, <1>2, <2>1, <2>2, DroppedIsCall DEF Calm
<1>6. CASE EraseEntries(c)
  <2>1. Shaped([call EXCEPT !.batch = NoBatch])
      BY <1>1 DEF Shaped, Fields, NoBatch
  <2>2. Continue(c, Dropped([call EXCEPT !.batch = NoBatch]))
      BY <1>6 DEF EraseEntries
  <2> QED BY <1>2, <2>1, <2>2, DroppedIsCall DEF Calm
<1> QED BY <1>4, <1>5, <1>6

\* A statement that begins.
LEMMA StartsAreCalm ==
    ASSUME PrefixInv, NEW c \in SQLClient, SQLStart(c)
    PROVE  Calm(c)
<1> DEFINE Begun(call) == StartStatement(c, call) /\ Shaped(call) /\ call.step \notin {"batch", "meta"}
<1>1. \A call : Begun(call) => Calm(c)
    BY DEF StartStatement, Calm, stored, schema, sqlHistory
<1> HIDE DEF Begun
<1>2. ASSUME NEW t \in Table, NEW ids \in SUBSET RowId, NEW values \in [ids -> Row], StartInsert(c, t, values)
      PROVE  Calm(c)
  <2> DEFINE call(todo) == [NoStatement EXCEPT !.op = "insert", !.step = "begin", !.table = t, !.todo = todo]
  <2>1. \A todo : Shaped(call(todo)) /\ call(todo).step = "begin"
      BY DEF Shaped, Fields, NoStatement, NoBatch, ColumnKind
  <2>2. PICK todo : StartStatement(c, call(todo))
      BY <1>2 DEF StartInsert
  <2> HIDE DEF call
  <2> QED BY <1>1, <2>1, <2>2 DEF Begun
<1>3. ASSUME NEW t \in Table, NEW where \in SUBSET RowId, NEW set, NEW move, StartUpdate(c, t, where, set, move)
      PROVE  Calm(c)
  <2> DEFINE call == [NoStatement EXCEPT !.op = "update", !.step = "scan", !.table = t,
                         !.where = where, !.set = set, !.move = move]
  <2>1. Shaped(call) /\ call.step = "scan"
      BY DEF Shaped, Fields, NoStatement, NoBatch, ColumnKind
  <2>2. StartStatement(c, call)
      BY <1>3 DEF StartUpdate
  <2> HIDE DEF call
  <2> QED BY <1>1, <2>1, <2>2 DEF Begun
<1>4. ASSUME NEW t \in Table, NEW where \in SUBSET RowId, StartDelete(c, t, where)
      PROVE  Calm(c)
  <2> DEFINE call == [NoStatement EXCEPT !.op = "delete", !.step = "scan", !.table = t, !.where = where]
  <2>1. Shaped(call) /\ call.step = "scan"
      BY DEF Shaped, Fields, NoStatement, NoBatch, ColumnKind
  <2>2. StartStatement(c, call)
      BY <1>4 DEF StartDelete
  <2> HIDE DEF call
  <2> QED BY <1>1, <2>1, <2>2 DEF Begun
<1>5. ASSUME NEW t \in Table, NEW kind \in ColumnKind, StartCreateTable(c, t, kind) \/ StartAlterTable(c, t, kind)
      PROVE  Calm(c)
  <2> DEFINE call(op, step) == [NoStatement EXCEPT !.op = op, !.step = step, !.table = t, !.kind = kind]
  <2>1. ASSUME NEW op, op # "drop table", NEW step
        PROVE  Shaped(call(op, step)) /\ call(op, step).step = step
    <3>1. call(op, step).op = op /\ call(op, step).step = step
        BY DEF NoStatement
    <3>2. Fields \subseteq DOMAIN call(op, step) /\ {"drop", "dropEntries"} \subseteq DOMAIN call(op, step).batch
        BY DEF Fields, NoStatement, NoBatch
    <3>3. call(op, step).kind \in ColumnKind
        BY DEF NoStatement, ColumnKind
    <3> HIDE DEF call
    <3> QED BY <2>1, <3>1, <3>2, <3>3 DEF Shaped
  <2>2. StartStatement(c, call("create table", "run")) \/ StartStatement(c, call("alter table", "indexes"))
      BY <1>5 DEF StartCreateTable, StartAlterTable
  <2> HIDE DEF call
  <2> QED BY <1>1, <2>1, <2>2 DEF Begun
<1>6. ASSUME NEW t \in Table, StartDropTable(c, t)
      PROVE  Calm(c)
  <2> DEFINE call == [NoStatement EXCEPT !.op = "drop table", !.step = "indexes", !.table = t]
  <2>1. Shaped(call) /\ call.step = "indexes"
      BY DEF Shaped, Fields, NoStatement, NoBatch, ColumnKind
  <2>2. StartStatement(c, call)
      BY <1>6 DEF StartDropTable
  <2> HIDE DEF call
  <2> QED BY <1>1, <2>1, <2>2 DEF Begun
<1>7. ASSUME NEW i \in Index, StartCreateIndex(c, i) \/ StartDropIndex(c, i)
      PROVE  Calm(c)
  <2> DEFINE call(op, step) == [NoStatement EXCEPT !.op = op, !.step = step, !.index = i]
  <2>1. ASSUME NEW op, op # "drop table", NEW step
        PROVE  Shaped(call(op, step)) /\ call(op, step).step = step
    <3>1. call(op, step).op = op /\ call(op, step).step = step
        BY DEF NoStatement
    <3>2. Fields \subseteq DOMAIN call(op, step) /\ {"drop", "dropEntries"} \subseteq DOMAIN call(op, step).batch
        BY DEF Fields, NoStatement, NoBatch
    <3>3. call(op, step).kind \in ColumnKind
        BY DEF NoStatement, ColumnKind
    <3> HIDE DEF call
    <3> QED BY <2>1, <3>1, <3>2, <3>3 DEF Shaped
  <2>2. StartStatement(c, call("create index", "table")) \/ StartStatement(c, call("drop index", "forget"))
      BY <1>7 DEF StartCreateIndex, StartDropIndex
  <2> HIDE DEF call
  <2> QED BY <1>1, <2>1, <2>2 DEF Begun
<1> QED BY <1>2, <1>3, <1>4, <1>5, <1>6, <1>7 DEF SQLStart

\* The process starts on a store in which tables have prefixes of their own.
LEMMA PrefixInvInit == SQLInit => PrefixInv
<1> SUFFICES ASSUME NEW created \in [Table -> Metas], NEW indexed \in SUBSET Index,
                    NEW held \in [Prefix -> [RowId -> Row \cup {NoRow}]],
                    SoundStore(created, held), TablesInit(created, indexed, held)
             PROVE  PrefixInv
    BY DEF SQLInit, Metas
<1>1. /\ tables = created /\ tableMeta = created /\ rows = held /\ nextPrefix = NextFree(created)
      /\ sqlCall = [c \in SQLClient |-> NoStatement]
    BY DEF TablesInit
<1>2. /\ NextFree(created) \in Nat \ {0}
      /\ \A t \in Table : created[t] # NoTable => created[t].prefix < NextFree(created)
    BY NextFreeIsPast
<1>3. \A c \in SQLClient : Shaped(sqlCall[c]) /\ ~Dropping(c)
    BY <1>1, Idle DEF Dropping
<1>4. Shapes
    BY <1>1, <1>2, <1>3 DEF Shapes
<1>5. Mirrored
    BY <1>1 DEF Mirrored, Exists
<1>6. Allotted
    BY <1>1, <1>2 DEF Allotted, Exists, SoundStore
<1>7. Vacated
    BY <1>1 DEF Vacated, Exists, SoundStore
<1>8. OneDrops /\ Emptied
    BY <1>3 DEF OneDrops, Emptied
<1> QED BY <1>4, <1>5, <1>6, <1>7, <1>8 DEF PrefixInv

\* One step of the specification at a time.
LEMMA PrefixInvStep == PrefixInv /\ [SQLNext]_sqlVars => PrefixInv'
<1> SUFFICES ASSUME PrefixInv, [SQLNext]_sqlVars PROVE PrefixInv'
    OBVIOUS
<1>1. CASE SQLCrash
    BY <1>1, SQLCrashKeeps
<1>2. ASSUME NEW c \in SQLClient, SQLStart(c) PROVE PrefixInv'
    BY <1>2, StartsAreCalm, CalmKeeps
<1>3. ASSUME NEW c \in SQLClient, SQLStep(c) PROVE PrefixInv'
  <2>1. CASE ScanRows(c) \/ BeginWrite(c) \/ CheckKey(c) \/ CheckIndexes(c)
      BY <2>1, ReadsAreCalm, CalmKeeps
  <2>2. CASE \/ CheckColumn(c) \/ ListIndexes(c) \/ CheckTable(c) \/ ScanForIndex(c) \/ Rebuild(c)
             \/ \E known \in BOOLEAN : CreateIndex(c, known)
      BY <2>2, IndexWorkIsCalm, CalmKeeps
  <2>3. CASE Forget(c) \/ DropIndexMeta(c) \/ ListEntries(c) \/ EraseEntries(c)
      BY <2>3, IndexDropIsCalm, CalmKeeps
  <2>4. CASE WriteRow(c) \/ CreateTable(c) \/ AlterTable(c)
      BY <2>4, WriteRowKeeps, CreateTableKeeps, AlterTableKeeps
  <2>5. CASE DropTable(c) \/ DropRows(c) \/ DropMeta(c)
      BY <2>5, DropTableKeeps, DropRowsKeeps, DropMetaKeeps
  <2> QED BY <1>3, <2>1, <2>2, <2>3, <2>4, <2>5 DEF SQLStep
<1>4. CASE UNCHANGED sqlVars
    BY <1>4 DEF sqlVars, stored, PrefixInv, Shapes, Mirrored, Allotted, Vacated, OneDrops, Emptied, Dropping, Exists, sqlHistory
<1> QED BY <1>1, <1>2, <1>3, <1>4 DEF SQLNext

\* TableManager.Init, CreateTable and DropTable with the statements that write rows: for any
\* clients, tables and failures, and any number of restarts, no two tables share a prefix and
\* a prefix still to be given away has no rows of an older table.
THEOREM PrefixesStayApart == TablesSpec => []PrefixesApart
<1>1. PrefixInv => PrefixesApart
  <2> SUFFICES ASSUME PrefixInv PROVE PrefixesApart
      OBVIOUS
  <2>1. \A t, u \in Table : t # u /\ Exists(t) /\ Exists(u) => tables[t].prefix # tables[u].prefix
      BY DEF PrefixInv, Allotted
  <2>2. ASSUME NEW p \in Prefix, NEW r \in RowId, p >= nextPrefix, rows[p][r] # NoRow
        PROVE  <<p, r>> \in strays
    <3>1. ASSUME NEW t \in Table, Exists(t) PROVE tables[t].prefix # p
      <4>1. tables[t].prefix < nextPrefix /\ tables[t].prefix \in Nat /\ p \in Nat /\ nextPrefix \in Nat
          BY <3>1 DEF PrefixInv, Allotted, Shapes, Metas, TableMeta, Prefix, Exists
      <4> QED BY <2>2, <4>1
    <3> QED BY <2>2, <3>1 DEF PrefixInv, Vacated
  <2> QED BY <2>1, <2>2 DEF PrefixesApart
<1> QED BY <1>1, PrefixInvInit, PrefixInvStep, PTL DEF TablesSpec
-----------------------------------------------------------------------------
(* What an index holds, while its table is written and while it is filled. *)
(* PrefixInv says under which prefix a table's rows are.                   *)

\* Row r has the value v and ought to have an entry in index i, and has none.
Owes(i, r, v, metas, held, left, lost, ents) ==
    LET p == metas[IndexTable[i]].prefix IN
    /\ metas[IndexTable[i]] # NoTable /\ held[p][r] = v
    /\ <<i, r>> \notin left /\ <<p, r>> \notin lost /\ <<i, Folded[v], r>> \notin ents

OwingIn(metas, held, left, lost, ents) ==
    {o \in Index \X RowId \X Value : Owes(o[1], o[2], o[3], metas, held, left, lost, ents)}

Owing == OwingIn(tables, rows, unlisted, strays, entries)

\* A writer keeps a prefix that is its table's, or was.
WriterFits(call, metas, next) ==
    /\ call.step \in {"begin", "key", "index", "write"} => call.op \in {"insert", "update", "delete"}
    /\ call.op \in {"insert", "update", "delete"} => call.table \in Table
    /\ call.step \in {"key", "index", "write"} =>
          /\ call.prefix \in Nat /\ call.prefix < next
          /\ \A t \in Table : metas[t] # NoTable /\ metas[t].prefix = call.prefix => t = call.table

\* A batch has the entries of its change, in the indexes that its writer has listed.
BatchFits(call) ==
    call.step = "write" =>
        LET d == NextChange(call) IN
        \E listed \in SUBSET Index, violated \in BOOLEAN :
            /\ \A i \in listed : IndexTable[i] = call.table
            /\ call.batch = BatchOf(d, listed, violated)
            /\ call.seen = IF violated THEN {} ELSE listed
            /\ violated => d.from \notin {0, d.to}

Reindexing(call) == call.op \in {"create index", "drop index", "drop table"}

\* An index is there while it is filled, and gone from memory while it is dropped.
IndexerFits(call, names, metas) ==
    /\ call.op = "create index" => call.index \in Index
    /\ call.op = "create index" /\ call.step \in {"scan", "rebuild"} => call.index \in names
    /\ call.step \in {"forget", "unmeta", "list", "erase"} => Reindexing(call)
    /\ call.step = "unmeta" => call.index \notin names
    /\ call.step \in {"list", "erase"} => call.index \notin names \cup metas
    /\ call.step = "erase" => \A e \in call.batch.dropEntries : e[1] = call.index

\* A backfill brings every entry that is missing.
Fills(call, owing) ==
    call.op = "create index" /\ call.step = "rebuild" =>
        \A o \in owing : o[1] = call.index => \E d \in call.todo : d.to = o[2] /\ d.new = o[3]

CallFits(call, metas, next, names, named, owing) ==
    /\ WriterFits(call, metas, next) /\ BatchFits(call)
    /\ IndexerFits(call, names, named) /\ Fills(call, owing)

CallsFit == \A c \in SQLClient : CallFits(sqlCall[c], tables, nextPrefix, byName, indexMeta, Owing)

\* What a restart loads is what is in memory, but for the indexes that a DROP has left.
IndexesMirrored == indexMeta \ unclean \subseteq byName /\ byName \cup indexMeta \subseteq Index

\* An entry is missing only in an index that is not built, or not quite dropped.
Completed == \A o \in Owing : o[1] \in byName => o[1] \in unbuilt \cup unclean

IndexInv == IndexesChangedAlone /\ CallsFit /\ IndexesMirrored /\ Completed

\* Whoever is not about to write rows or to work on an index fits in any state.
LEMMA PlainFits ==
    ASSUME NEW call, call.op \notin {"insert", "update", "delete", "create index"},
           call.step \notin {"begin", "key", "index", "write", "unmeta", "list", "erase"},
           call.step = "forget" => Reindexing(call),
           NEW metas, NEW next, NEW names, NEW named, NEW owing
    PROVE  CallFits(call, metas, next, names, named, owing)
BY DEF CallFits, WriterFits, BatchFits, IndexerFits, Fills

\* So does a writer that has not chosen its prefix.
LEMMA EarlyWriterFits ==
    ASSUME NEW call, call.op \in {"insert", "update", "delete"}, call.step \in {"scan", "begin"},
           call.table \in Table,
           NEW metas, NEW next, NEW names, NEW named, NEW owing
    PROVE  CallFits(call, metas, next, names, named, owing)
BY DEF CallFits, WriterFits, BatchFits, IndexerFits, Fills

\* CREATE INDEX before it fills the index.
LEMMA CreatorFits ==
    ASSUME NEW call, call.op = "create index", NEW names, NEW metas, NEW next, NEW named, NEW owing,
           call.index \in Index, call.step \in {"table", "create", "forget"} \/ (call.step = "scan" /\ call.index \in names)
    PROVE  CallFits(call, metas, next, names, named, owing)
BY DEF CallFits, WriterFits, BatchFits, IndexerFits, Fills, Reindexing

\* What a call that is over leaves.
LEMMA IdleFits ==
    \A metas, next, names, named, owing : CallFits(NoStatement, metas, next, names, named, owing)
<1>1. NoStatement.op = "none" /\ NoStatement.step = "idle"
    BY DEF NoStatement
<1> QED BY <1>1, PlainFits

\* Manager.Drop returns to DROP TABLE, or ends the statement.
LEMMA DroppedFits ==
    ASSUME NEW call, Shaped(call), NEW metas, NEW next, NEW names, NEW named, NEW owing
    PROVE  /\ call.op = "drop table" => CallFits(NextIndex(call), metas, next, names, named, owing)
           /\ CallFits(Dropped(call), metas, next, names, named, owing)
<1>1. ASSUME call.op = "drop table" PROVE CallFits(NextIndex(call), metas, next, names, named, owing)
  <2>1. CASE call.rest = {}
    <3> DEFINE later == [call EXCEPT !.step = "lock"]
    <3>1. later.op = "drop table" /\ later.step = "lock"
        BY <1>1 DEF Shaped, Fields
    <3>2. NextIndex(call) = later
        BY <2>1 DEF NextIndex
    <3> HIDE DEF later
    <3> QED BY <3>1, <3>2, PlainFits
  <2>2. CASE call.rest # {}
    <3> DEFINE i == CHOOSE j \in call.rest : TRUE
               later == [call EXCEPT !.step = "forget", !.index = i, !.rest = @ \ {i}]
    <3>1. NextIndex(call) = later
        BY <2>2 DEF NextIndex
    <3> HIDE DEF i
    <3>2. later.op = "drop table" /\ later.step = "forget"
        BY <1>1 DEF Shaped, Fields
    <3> HIDE DEF later
    <3> QED BY <3>1, <3>2, PlainFits DEF Reindexing
  <2> QED BY <2>1, <2>2
<1> QED BY <1>1, IdleFits DEF Dropped

\* As long as the tables keep their prefixes and nothing more is owed, a call that is no
\* reindexing fits on, and any other does when its index stays where it is.
LEMMA FitsOn ==
    ASSUME NEW call, NEW metas, NEW next, NEW names, NEW named, NEW owing,
           CallFits(call, metas, next, names, named, owing),
           NEW metas2, NEW next2, NEW names2, NEW named2, NEW owing2,
           WriterFits(call, metas, next) => WriterFits(call, metas2, next2),
           ~Reindexing(call) \/ (names2 = names /\ named2 = named),
           ~Reindexing(call) \/ \A o \in owing2 : o[1] \in names => o \in owing
    PROVE  CallFits(call, metas2, next2, names2, named2, owing2)
<1>1. WriterFits(call, metas2, next2) /\ BatchFits(call)
    BY DEF CallFits
<1>2. IndexerFits(call, names2, named2)
    BY DEF CallFits, IndexerFits, Reindexing
<1>3. Fills(call, owing2)
    BY DEF CallFits, IndexerFits, Fills, Reindexing
<1> QED BY <1>1, <1>2, <1>3 DEF CallFits

\* One call changes, and with it what concerns the others only in ways they can stand.
LEMMA OneMoves ==
    ASSUME PrefixInv, IndexInv, IndexesChangedAlone', NEW c \in SQLClient, NEW call, Continue(c, call),
           CallFits(call, tables', nextPrefix', byName', indexMeta', Owing'),
           \A k : WriterFits(k, tables, nextPrefix) => WriterFits(k, tables', nextPrefix'),
           Reindexing(sqlCall[c]) \/ UNCHANGED <<byName, indexMeta>>,
           Reindexing(sqlCall[c]) \/ \A o \in Owing' : o[1] \in byName => o \in Owing,
           IndexesMirrored', Completed'
    PROVE  IndexInv'
<1>1. /\ sqlCall'[c] = call
      /\ \A d \in SQLClient : d # c => sqlCall'[d] = sqlCall[d]
    BY DEF PrefixInv, Shapes, Continue
<1>2. ASSUME NEW d \in SQLClient
      PROVE  CallFits(sqlCall'[d], tables', nextPrefix', byName', indexMeta', Owing')
  <2>1. CASE d = c
      BY <1>1, <2>1
  <2>2. CASE d # c
    <3>1. CallFits(sqlCall[d], tables, nextPrefix, byName, indexMeta, Owing)
        BY DEF IndexInv, CallsFit
    <3>2. Reindexing(sqlCall[d]) => ~Reindexing(sqlCall[c])
        BY <2>2 DEF IndexInv, IndexesChangedAlone, ChangesIndexes, Reindexing
    <3>3. CallFits(sqlCall[d], tables', nextPrefix', byName', indexMeta', Owing')
        BY <3>1, <3>2, FitsOn
    <3> QED BY <1>1, <2>2, <3>3
  <2> QED BY <2>1, <2>2
<1> QED BY <1>2 DEF IndexInv, CallsFit

\* A step that changes neither rows nor tables nor what indexes there are.
LEMMA Reads ==
    ASSUME PrefixInv, IndexInv, IndexesChangedAlone', NEW c \in SQLClient, NEW call, Continue(c, call),
           CallFits(call, tables, nextPrefix, byName, indexMeta, Owing),
           UNCHANGED <<rows, entries, tables, nextPrefix, byName, indexMeta, unlisted, unbuilt, unclean, strays>>
    PROVE  IndexInv'
<1>1. Owing' = Owing
    BY DEF Owing
<1>2. IndexesMirrored' /\ Completed'
    BY <1>1 DEF IndexInv, IndexesMirrored, Completed
<1>3. \A k : WriterFits(k, tables, nextPrefix) => WriterFits(k, tables', nextPrefix')
    OBVIOUS
<1>4. CallFits(call, tables', nextPrefix', byName', indexMeta', Owing')
    BY <1>1
<1>5. \A o \in Owing' : o[1] \in byName => o \in Owing
    BY <1>1
<1>6. UNCHANGED <<byName, indexMeta>>
    OBVIOUS
<1> QED BY <1>2, <1>3, <1>4, <1>5, <1>6, OneMoves

\* INSERT, UPDATE and DELETE up to the write.
LEMMA ReadersFit ==
    ASSUME PrefixInv, IndexInv, IndexesChangedAlone', NEW c \in SQLClient,
           ScanRows(c) \/ BeginWrite(c) \/ CheckKey(c) \/ CheckIndexes(c)
    PROVE  IndexInv'
<1> DEFINE call == sqlCall[c]
           Here(k) == CallFits(k, tables, nextPrefix, byName, indexMeta, Owing)
<1>1. Shaped(call) /\ Here(call) /\ byName \subseteq Index
    BY DEF PrefixInv, Shapes, IndexInv, CallsFit, IndexesMirrored
<1>2. UNCHANGED <<rows, entries, tables, nextPrefix, byName, indexMeta, unlisted, unbuilt, unclean, strays>>
    BY DEF ScanRows, BeginWrite, CheckKey, CheckIndexes, stored, sqlHistory
<1>3. ASSUME NEW k, Here(k), Continue(c, k) PROVE IndexInv'
    BY <1>2, <1>3, Reads
<1>4. Return(c) => IndexInv'
    BY <1>3, IdleFits DEF Return
<1> HIDE DEF Here
<1>5. CASE ScanRows(c)
  <2>1. PICK todo : Return(c) \/ Continue(c, [call EXCEPT !.step = "begin", !.todo = todo])
      BY <1>5 DEF ScanRows
  <2> DEFINE next == [call EXCEPT !.step = "begin", !.todo = todo]
  <2>2. call.op \in {"update", "delete"} /\ call.table \in Table
      BY <1>1, <1>5 DEF ScanRows, Here, CallFits, WriterFits
  <2>3. next.op = call.op /\ next.step = "begin" /\ next.table = call.table
      BY <1>1 DEF Shaped, Fields
  <2>4. Return(c) \/ Continue(c, next)
      BY <2>1
  <2> HIDE DEF next
  <2>5. Here(next)
      BY <2>2, <2>3, EarlyWriterFits DEF Here
  <2> QED BY <1>3, <1>4, <2>4, <2>5
<1>6. CASE BeginWrite(c)
  <2> DEFINE own == tables[call.table].prefix
             next == [call EXCEPT !.step = "key", !.prefix = own]
  <2>1. /\ call.op \in {"insert", "update", "delete"} /\ call.table \in Table
        /\ Return(c) \/ (Exists(call.table) /\ Continue(c, next))
      BY <1>1, <1>6 DEF BeginWrite, Here, CallFits, WriterFits
  <2>2. next.op = call.op /\ next.step = "key" /\ next.table = call.table /\ next.prefix = own
      BY <1>1 DEF Shaped, Fields
  <2> HIDE DEF next
  <2>3. ASSUME Exists(call.table) PROVE Here(next)
    <3>1. own \in Nat /\ own < nextPrefix
        BY <2>1, <2>3 DEF PrefixInv, Shapes, Allotted, Metas, TableMeta, Exists, Prefix
    <3>2. \A t \in Table : tables[t] # NoTable /\ tables[t].prefix = own => t = call.table
        BY <2>1, <2>3 DEF PrefixInv, Allotted, Exists
    <3> QED BY <2>1, <2>2, <3>1, <3>2 DEF Here, CallFits, WriterFits, BatchFits, IndexerFits, Fills
  <2> QED BY <1>3, <1>4, <2>1, <2>3
<1>7. CASE CheckKey(c)
  <2> DEFINE next == [call EXCEPT !.step = "index"]
  <2>1. call.step = "key" /\ (Return(c) \/ Continue(c, next))
      BY <1>7 DEF CheckKey
  <2>2. next.op = call.op /\ next.step = "index" /\ next.table = call.table /\ next.prefix = call.prefix
      BY <1>1 DEF Shaped, Fields
  <2> HIDE DEF next
  <2>3. Here(next)
      BY <1>1, <2>1, <2>2 DEF Here, CallFits, WriterFits, BatchFits, IndexerFits, Fills
  <2> QED BY <1>3, <1>4, <2>1, <2>3
<1>8. CASE CheckIndexes(c)
  <2> DEFINE d == NextChange(call)
             listed == ListByTable(call.table)
             violated == call.op # "delete" /\ Violated(listed, d.new, d.to)
             seen == IF violated THEN {} ELSE listed
             batch == BatchOf(d, listed, violated)
             next == [call EXCEPT !.step = "write", !.seen = seen, !.batch = batch]
  <2>1. /\ call.step = "index"
        /\ Return(c) \/ ((violated => d.from \notin {0, d.to}) /\ Continue(c, next))
      BY <1>8 DEF CheckIndexes
  <2>2. listed \in SUBSET Index /\ \A i \in listed : IndexTable[i] = call.table
      BY <1>1 DEF ListByTable
  <2>3. violated \in BOOLEAN
      BY DEF Violated
  <2> HIDE DEF listed, violated, batch, d
  <2>4. /\ next.op = call.op /\ next.step = "write" /\ next.table = call.table /\ next.prefix = call.prefix
        /\ next.todo = call.todo /\ next.seen = seen /\ next.batch = batch
      BY <1>1 DEF Shaped, Fields
  <2> HIDE DEF next
  <2>5. NextChange(next) = d
      BY <2>4 DEF NextChange, d
  <2>6. ASSUME violated => d.from \notin {0, d.to} PROVE BatchFits(next)
      BY <2>2, <2>3, <2>4, <2>5, <2>6 DEF BatchFits, batch
  <2>7. ASSUME violated => d.from \notin {0, d.to} PROVE Here(next)
      BY <1>1, <2>1, <2>4, <2>6, <2>7 DEF Here, CallFits, WriterFits, IndexerFits, Fills
  <2> QED BY <1>3, <1>4, <2>1, <2>7
<1> QED BY <1>5, <1>6, <1>7, <1>8

\* A statement that begins.
LEMMA StartsFit ==
    ASSUME PrefixInv, IndexInv, IndexesChangedAlone', NEW c \in SQLClient, SQLStart(c)
    PROVE  IndexInv'
<1> DEFINE Here(k) == CallFits(k, tables, nextPrefix, byName, indexMeta, Owing)
<1>1. ASSUME NEW k, Here(k), StartStatement(c, k) PROVE IndexInv'
    BY <1>1, Reads DEF StartStatement, stored, sqlHistory
<1> HIDE DEF Here
<1>2. ASSUME NEW t \in Table, NEW ids \in SUBSET RowId, NEW values \in [ids -> Row], StartInsert(c, t, values)
      PROVE  IndexInv'
  <2> DEFINE call(todo) == [NoStatement EXCEPT !.op = "insert", !.step = "begin", !.table = t, !.todo = todo]
  <2>1. PICK todo : StartStatement(c, call(todo))
      BY <1>2 DEF StartInsert
  <2>2. call(todo).op = "insert" /\ call(todo).step = "begin" /\ call(todo).table = t
      BY DEF NoStatement
  <2> HIDE DEF call
  <2>3. Here(call(todo))
      BY <2>2, EarlyWriterFits DEF Here
  <2> QED BY <1>1, <2>1, <2>3
<1>3. ASSUME NEW t \in Table, NEW where \in SUBSET RowId, NEW set, NEW move, StartUpdate(c, t, where, set, move)
      PROVE  IndexInv'
  <2> DEFINE call == [NoStatement EXCEPT !.op = "update", !.step = "scan", !.table = t,
                         !.where = where, !.set = set, !.move = move]
  <2>1. StartStatement(c, call)
      BY <1>3 DEF StartUpdate
  <2>2. call.op = "update" /\ call.step = "scan" /\ call.table = t
      BY DEF NoStatement
  <2> HIDE DEF call
  <2>3. Here(call)
      BY <2>2, EarlyWriterFits DEF Here
  <2> QED BY <1>1, <2>1, <2>3
<1>4. ASSUME NEW t \in Table, NEW where \in SUBSET RowId, StartDelete(c, t, where)
      PROVE  IndexInv'
  <2> DEFINE call == [NoStatement EXCEPT !.op = "delete", !.step = "scan", !.table = t, !.where = where]
  <2>1. StartStatement(c, call)
      BY <1>4 DEF StartDelete
  <2>2. call.op = "delete" /\ call.step = "scan" /\ call.table = t
      BY DEF NoStatement
  <2> HIDE DEF call
  <2>3. Here(call)
      BY <2>2, EarlyWriterFits DEF Here
  <2> QED BY <1>1, <2>1, <2>3
<1>5. ASSUME NEW t \in Table, NEW kind \in ColumnKind, StartCreateTable(c, t, kind) \/ StartAlterTable(c, t, kind)
      PROVE  IndexInv'
  <2> DEFINE call(op, step) == [NoStatement EXCEPT !.op = op, !.step = step, !.table = t, !.kind = kind]
  <2>1. StartStatement(c, call("create table", "run")) \/ StartStatement(c, call("alter table", "indexes"))
      BY <1>5 DEF StartCreateTable, StartAlterTable
  <2>2. \A op, step : call(op, step).op = op /\ call(op, step).step = step
      BY DEF NoStatement
  <2> HIDE DEF call
  <2>3. Here(call("create table", "run"))
    <3> DEFINE k == call("create table", "run")
    <3>1. k.op = "create table" /\ k.step = "run"
        BY <2>2
    <3> HIDE DEF k
    <3>2. Here(k)
        BY <3>1, PlainFits DEF Here
    <3> QED BY <3>2 DEF k
  <2>4. Here(call("alter table", "indexes"))
    <3> DEFINE k == call("alter table", "indexes")
    <3>1. k.op = "alter table" /\ k.step = "indexes"
        BY <2>2
    <3> HIDE DEF k
    <3>2. Here(k)
        BY <3>1, PlainFits DEF Here
    <3> QED BY <3>2 DEF k
  <2> QED BY <1>1, <2>1, <2>3, <2>4
<1>6. ASSUME NEW t \in Table, StartDropTable(c, t)
      PROVE  IndexInv'
  <2> DEFINE call == [NoStatement EXCEPT !.op = "drop table", !.step = "indexes", !.table = t]
  <2>1. StartStatement(c, call)
      BY <1>6 DEF StartDropTable
  <2>2. call.op = "drop table" /\ call.step = "indexes"
      BY DEF NoStatement
  <2> HIDE DEF call
  <2>3. Here(call)
      BY <2>2, PlainFits DEF Here
  <2> QED BY <1>1, <2>1, <2>3
<1>7. ASSUME NEW i \in Index, StartCreateIndex(c, i) \/ StartDropIndex(c, i)
      PROVE  IndexInv'
  <2> DEFINE call(op, step) == [NoStatement EXCEPT !.op = op, !.step = step, !.index = i]
  <2>1. StartStatement(c, call("create index", "table")) \/ StartStatement(c, call("drop index", "forget"))
      BY <1>7 DEF StartCreateIndex, StartDropIndex
  <2>2. \A op, step : call(op, step).op = op /\ call(op, step).step = step /\ call(op, step).index = i
      BY DEF NoStatement
  <2> HIDE DEF call
  <2>3. Here(call("create index", "table"))
      BY <2>2, CreatorFits DEF Here
  <2>4. Here(call("drop index", "forget"))
    <3> DEFINE k == call("drop index", "forget")
    <3>1. k.op = "drop index" /\ k.step = "forget"
        BY <2>2
    <3> HIDE DEF k
    <3>2. Here(k)
        BY <3>1, PlainFits DEF Here, Reindexing
    <3> QED BY <3>2 DEF k
  <2> QED BY <1>1, <2>1, <2>3, <2>4
<1> QED BY <1>2, <1>3, <1>4, <1>5, <1>6, <1>7 DEF SQLStart

\* ALTER TABLE, DROP TABLE and CREATE INDEX where they only look.
LEMMA LooksFit ==
    ASSUME PrefixInv, IndexInv, IndexesChangedAlone', NEW c \in SQLClient,
           CheckColumn(c) \/ ListIndexes(c) \/ DropTable(c) \/ CheckTable(c)
    PROVE  IndexInv'
<1> DEFINE call == sqlCall[c]
           Here(k) == CallFits(k, tables, nextPrefix, byName, indexMeta, Owing)
<1>1. Shaped(call) /\ Here(call)
    BY DEF PrefixInv, Shapes, IndexInv, CallsFit
<1>2. UNCHANGED <<rows, entries, tables, nextPrefix, byName, indexMeta, unlisted, unbuilt, unclean, strays>>
    BY DEF CheckColumn, ListIndexes, DropTable, CheckTable, stored, sqlHistory
<1>3. ASSUME NEW k, Here(k), Continue(c, k) PROVE IndexInv'
    BY <1>2, <1>3, Reads
<1>4. Return(c) => IndexInv'
    BY <1>3, IdleFits DEF Return
<1> HIDE DEF Here
<1>5. CASE CheckColumn(c)
  <2> DEFINE next == [call EXCEPT !.step = "run"]
  <2>1. call.op = "alter table" /\ (Return(c) \/ Continue(c, next))
      BY <1>5 DEF CheckColumn, Doing
  <2>2. next.op = call.op /\ next.step = "run"
      BY <1>1 DEF Shaped, Fields
  <2> HIDE DEF next
  <2>3. Here(next)
      BY <2>1, <2>2, PlainFits DEF Here
  <2> QED BY <1>3, <1>4, <2>1, <2>3
<1>6. CASE ListIndexes(c)
  <2>1. PICK listed : Continue(c, NextIndex([call EXCEPT !.rest = listed]))
      BY <1>6 DEF ListIndexes
  <2>2. Shaped([call EXCEPT !.rest = listed])
      BY <1>1 DEF Shaped, Fields
  <2>3. [call EXCEPT !.rest = listed].op = "drop table"
      BY <1>1, <1>6 DEF Shaped, Fields, ListIndexes, Doing
  <2>4. Here(NextIndex([call EXCEPT !.rest = listed]))
      BY <2>2, <2>3, DroppedFits DEF Here
  <2> QED BY <1>3, <2>1, <2>4
<1>7. CASE DropTable(c)
  <2> DEFINE next(own, all) == [call EXCEPT !.step = "batch", !.prefix = own, !.batch.drop = all]
  <2>1. PICK own, all : Return(c) \/ Continue(c, next(own, all))
      BY <1>7 DEF DropTable
  <2>2. call.op = "drop table"
      BY <1>7 DEF DropTable, Doing
  <2>3. next(own, all).op = call.op /\ next(own, all).step = "batch"
      BY <1>1 DEF Shaped, Fields
  <2> HIDE DEF next
  <2>4. Here(next(own, all))
      BY <2>2, <2>3, PlainFits DEF Here
  <2> QED BY <1>3, <1>4, <2>1, <2>4
<1>8. CASE CheckTable(c)
  <2> DEFINE next == [call EXCEPT !.step = "create"]
  <2>1. call.op = "create index" /\ (Return(c) \/ Continue(c, next))
      BY <1>8 DEF CheckTable, Doing
  <2>2. call.index \in Index
      BY <1>1, <2>1 DEF Here, CallFits, IndexerFits
  <2>3. next.op = call.op /\ next.step = "create" /\ next.index = call.index
      BY <1>1 DEF Shaped, Fields
  <2> HIDE DEF next
  <2>4. Here(next)
      BY <2>1, <2>2, <2>3, CreatorFits DEF Here
  <2> QED BY <1>3, <1>4, <2>1, <2>4
<1> QED BY <1>5, <1>6, <1>7, <1>8

\* BatchWrite: the row that is written has its entries in all indexes there are, or is left out
\* from then on; of other rows' entries none goes unless the row is left out.
LEMMA WriteOwesNoMore ==
    ASSUME PrefixInv, IndexInv, NEW c \in SQLClient, sqlCall[c].step = "write",
           rows' = RowsAfter(sqlCall[c].prefix, sqlCall[c].batch, NextChange(sqlCall[c]).new),
           entries' = AfterBatch(sqlCall[c].batch),
           unlisted' = IF Gone(sqlCall[c].prefix)
                       THEN unlisted \cup {<<e[1], e[3]>> : e \in sqlCall[c].batch.dropEntries}
                       ELSE (unlisted \ (sqlCall[c].seen \X {NextChange(sqlCall[c]).to})) \cup
                                {<<i, NextChange(sqlCall[c]).to>> : i \in ListByTable(sqlCall[c].table) \ sqlCall[c].seen},
           strays' = strays \cup {<<sqlCall[c].prefix, r>> : r \in IF Gone(sqlCall[c].prefix) THEN sqlCall[c].batch.put ELSE {}},
           UNCHANGED <<tables, byName>>
    PROVE  \A o \in Owing' : o[1] \in byName => o \in Owing
<1> DEFINE call == sqlCall[c]
           d == NextChange(call)
           p == call.prefix
           to == d.to
           from == d.from
<1>1. CallFits(call, tables, nextPrefix, byName, indexMeta, Owing)
    BY DEF IndexInv, CallsFit
<1>2. \A t \in Table : tables[t] # NoTable /\ tables[t].prefix = p => t = call.table
    BY <1>1 DEF CallFits, WriterFits
<1>3. PICK listed \in SUBSET Index, violated \in BOOLEAN :
          /\ \A i \in listed : IndexTable[i] = call.table
          /\ call.batch = BatchOf(d, listed, violated)
          /\ call.seen = IF violated THEN {} ELSE listed
          /\ violated => from \notin {0, to}
    BY <1>1 DEF CallFits, BatchFits
<1> DEFINE drop == {from} \ {0, to}
           put == {to} \ {0}
           gone == IF from = 0 THEN {} ELSE RowOps(listed, d.old, from)
           come == IF to = 0 \/ violated THEN {} ELSE RowOps(listed, d.new, to)
<1>4. call.batch.drop = drop /\ call.batch.put = put /\ call.batch.dropEntries = gone /\ call.batch.putEntries = come
    BY <1>3 DEF BatchOf
<1>5. entries' = (entries \ gone) \cup come
    BY <1>4 DEF AfterBatch
<1>6. rows' = [rows EXCEPT ![p] = [r \in RowId |-> IF r \in put THEN d.new ELSE IF r \in drop THEN NoRow ELSE rows[p][r]]]
    BY <1>4 DEF RowsAfter
<1>7. strays \subseteq strays' /\ (Gone(p) => \A r \in put : <<p, r>> \in strays')
    BY <1>4
<1>8. Gone(p) => unlisted' = unlisted \cup {<<e[1], e[3]>> : e \in gone}
    BY <1>4
<1>9. ~Gone(p) => /\ unlisted' = (unlisted \ (call.seen \X {to})) \cup {<<i, to>> : i \in ListByTable(call.table) \ call.seen}
                  /\ \E t \in Table : tables[t] # NoTable /\ tables[t].prefix = p
    BY DEF Gone, Exists
<1>10. \A e \in gone : e[1] \in listed /\ e[3] = from /\ from # 0
    BY DEF RowOps, KeysForValue
<1>11. \A i \in listed : ~violated /\ to # 0 /\ d.new \in Value => <<i, Folded[d.new], to>> \in come
    BY TablesAssumption DEF RowOps, KeysForValue
<1> HIDE DEF call, d, p, to, from, drop, put, gone, come
<1> SUFFICES ASSUME NEW i \in Index, NEW r \in RowId, NEW v \in Value, i \in byName,
                    Owes(i, r, v, tables', rows', unlisted', strays', entries')
             PROVE  Owes(i, r, v, tables, rows, unlisted, strays, entries)
    BY DEF Owing, OwingIn
<1> DEFINE t == IndexTable[i]
           P == tables[t].prefix
<1>12. /\ t \in Table /\ tables[t] # NoTable /\ P \in Prefix
       /\ rows'[P][r] = v /\ <<i, r>> \notin unlisted' /\ <<P, r>> \notin strays'
       /\ <<i, Folded[v], r>> \notin entries'
    BY TablesAssumption DEF Owes, PrefixInv, Shapes, Metas, TableMeta
<1>13. v # NoRow /\ r # 0
    BY TablesAssumption DEF Row
<1> HIDE DEF P
<1>14. ASSUME P = p PROVE r \notin put /\ r \notin drop /\ t = call.table
  <2>1. t = call.table
      BY <1>2, <1>12, <1>14 DEF P
  <2>2. rows'[p][r] = IF r \in put THEN d.new ELSE IF r \in drop THEN NoRow ELSE rows[p][r]
      BY <1>6, <1>12, <1>14 DEF PrefixInv, Shapes
  <2>3. r \in put => FALSE
    <3> SUFFICES ASSUME r \in put PROVE FALSE
        OBVIOUS
    <3>1. ~Gone(p) /\ r = to /\ d.new = v
        BY <1>7, <1>12, <1>14, <2>2 DEF put
    <3>2. i \in ListByTable(call.table)
        BY <2>1 DEF ListByTable
    <3>3. i \in call.seen
        BY <1>9, <1>12, <3>1, <3>2
    <3>4. i \in listed /\ ~violated
        BY <1>3, <3>3
    <3>5. <<i, Folded[v], r>> \in come
        BY <1>11, <1>13, <3>1, <3>4
    <3> QED BY <1>5, <1>12, <3>5
  <2>4. r \in drop => FALSE
      BY <1>12, <1>13, <1>14, <2>2, <2>3
  <2> QED BY <2>1, <2>3, <2>4
<1>15. rows[P][r] = v
  <2>1. CASE P = p
    <3>1. rows'[p][r] = rows[p][r]
        BY <1>6, <1>12, <1>14, <2>1 DEF PrefixInv, Shapes
    <3> QED BY <1>12, <2>1, <3>1
  <2>2. CASE P # p
      BY <1>6, <1>12, <2>2 DEF PrefixInv, Shapes
  <2> QED BY <2>1, <2>2
<1>16. ~Gone(p) /\ t = call.table => P = p
    BY <1>2, <1>9 DEF P
<1>17. <<i, r>> \notin unlisted
  <2> SUFFICES ASSUME <<i, r>> \in unlisted PROVE FALSE
      OBVIOUS
  <2>1. ~Gone(p)
      BY <1>8, <1>12
  <2>2. i \in call.seen /\ r = to
      BY <1>9, <1>12, <2>1
  <2>3. t = call.table
      BY <1>3, <2>2
  <2>4. r \in put
      BY <1>13, <2>2 DEF put
  <2> QED BY <1>14, <1>16, <2>1, <2>3, <2>4
<1>18. <<i, Folded[v], r>> \notin entries
  <2> SUFFICES ASSUME <<i, Folded[v], r>> \in entries PROVE FALSE
      OBVIOUS
  <2>1. <<i, Folded[v], r>> \in gone
      BY <1>5, <1>12
  <2>2. i \in listed /\ r = from
      BY <1>10, <2>1
  <2>3. <<i, r>> \in {<<e[1], e[3]>> : e \in gone}
      BY <2>1
  <2>4. ~Gone(p)
      BY <1>8, <1>12, <2>3
  <2>5. P = p
      BY <1>3, <1>16, <2>2, <2>4
  <2>6. r \in put \/ r \in drop
      BY <1>13, <2>2 DEF put, drop
  <2> QED BY <1>14, <2>5, <2>6
<1> QED BY <1>7, <1>12, <1>15, <1>17, <1>18 DEF Owes, P

\* The indexes stay, and no more is owed in them.
LEMMA CompletedStays ==
    ASSUME IndexInv, UNCHANGED <<byName, indexMeta, unbuilt, unclean>>,
           \A o \in Owing' : o[1] \in byName => o \in Owing
    PROVE  IndexesMirrored' /\ Completed'
<1>1. IndexesMirrored'
    BY DEF IndexInv, IndexesMirrored
<1>2. \A o \in Owing' : o[1] \in byName' => o[1] \in unbuilt' \cup unclean'
    BY DEF IndexInv, Completed
<1> QED BY <1>1, <1>2 DEF Completed

\* A write puts the entries of its row in every index it listed, or counts it as not listed.
LEMMA WriteRowFits ==
    ASSUME PrefixInv, IndexInv, IndexesChangedAlone', NEW c \in SQLClient, WriteRow(c)
    PROVE  IndexInv'
<1> DEFINE call == sqlCall[c]
<1>1. Shaped(call) /\ CallFits(call, tables, nextPrefix, byName, indexMeta, Owing)
    BY DEF PrefixInv, Shapes, IndexInv, CallsFit
<1>2. call.step = "write" /\ UNCHANGED <<tables, nextPrefix, byName, indexMeta, unbuilt, unclean>>
    BY DEF WriteRow, schema, indexes
<1>3. call.op \in {"insert", "update", "delete"}
    BY <1>1, <1>2 DEF CallFits, WriterFits
<1>4. CASE Return(c) /\ UNCHANGED <<rows, entries, unlisted, strays>>
    BY <1>2, <1>4, IdleFits, Reads DEF Return
<1>5. CASE ~(Return(c) /\ UNCHANGED <<rows, entries, unlisted, strays>>)
  <2>1. AfterRow(c) /\ \A o \in Owing' : o[1] \in byName => o \in Owing
    <3>1. AfterRow(c)
        BY <1>5 DEF WriteRow
    <3>2. \A o \in Owing' : o[1] \in byName => o \in Owing
        BY <1>2, <1>5, WriteOwesNoMore DEF WriteRow
    <3> QED BY <3>1, <3>2
  <2> DEFINE left == call.todo \ {NextChange(call)}
             later == [call EXCEPT !.step = "key", !.todo = left]
  <2>2. PICK next : next \in {NoStatement, later} /\ Continue(c, next)
      BY <2>1 DEF AfterRow, Return
  <2>3. later.op = call.op /\ later.step = "key" /\ later.table = call.table /\ later.prefix = call.prefix
    <3> HIDE DEF left
    <3> QED BY <1>1 DEF Shaped, Fields
  <2> HIDE DEF later
  <2>4. CallFits(later, tables, nextPrefix, byName, indexMeta, Owing')
      BY <1>1, <1>2, <1>3, <2>3 DEF CallFits, WriterFits, BatchFits, IndexerFits, Fills
  <2>5. CallFits(next, tables, nextPrefix, byName, indexMeta, Owing')
      BY <2>2, <2>4, IdleFits
  <2>6. IndexesMirrored' /\ Completed'
      BY <1>2, <2>1, CompletedStays
  <2>7. CallFits(next, tables', nextPrefix', byName', indexMeta', Owing')
      BY <1>2, <2>5
  <2>8. \A k : WriterFits(k, tables, nextPrefix) => WriterFits(k, tables', nextPrefix')
      BY <1>2
  <2> QED BY <1>2, <2>1, <2>2, <2>6, <2>7, <2>8, OneMoves
<1> QED BY <1>4, <1>5

\* The statement ends, or goes on to a step that fits everywhere, when tables or rows have changed.
LEMMA TablesMove ==
    ASSUME PrefixInv, IndexInv, IndexesChangedAlone', NEW c \in SQLClient, NEW call, Continue(c, call),
           \A metas, next, names, named, owing : CallFits(call, metas, next, names, named, owing),
           UNCHANGED <<byName, indexMeta, unbuilt, unclean>>,
           \A k : WriterFits(k, tables, nextPrefix) => WriterFits(k, tables', nextPrefix'),
           \A o \in Owing' : o[1] \in byName => o \in Owing
    PROVE  IndexInv'
<1>1. IndexesMirrored' /\ Completed'
    BY CompletedStays
<1>2. CallFits(call, tables', nextPrefix', byName', indexMeta', Owing')
    OBVIOUS
<1> QED BY <1>1, <1>2, OneMoves

\* CREATE TABLE: the prefix is new, so what lies under it is left out, and nobody writes there.
LEMMA CreateTableFits ==
    ASSUME PrefixInv, IndexInv, IndexesChangedAlone', NEW c \in SQLClient, CreateTable(c)
    PROVE  IndexInv'
<1> DEFINE t == sqlCall[c].table
           meta == [prefix |-> nextPrefix, column |-> sqlCall[c].kind]
<1>1. Return(c) /\ UNCHANGED <<rows, entries, byName, indexMeta, unlisted, unbuilt, unclean, strays>>
    BY DEF CreateTable, indexes, sqlHistory
<1>2. CASE UNCHANGED <<tables, nextPrefix>>
    BY <1>1, <1>2, IdleFits, Reads DEF Return
<1>3. CASE ~UNCHANGED <<tables, nextPrefix>>
  <2>1. /\ ~Exists(t) /\ nextPrefix <= MaxPrefix /\ nextPrefix' = nextPrefix + 1
        /\ tables' = [tables EXCEPT ![t] = meta] \/ tables' = tables
    <3> HIDE DEF meta
    <3>1. ~(Exists(t) \/ nextPrefix > MaxPrefix) /\ nextPrefix' = nextPrefix + 1
        BY <1>3 DEF CreateTable, schema
    <3>2. tables' = [tables EXCEPT ![t] = meta] \/ tables' = tables
        BY <3>1 DEF CreateTable, meta
    <3>3. nextPrefix \in Nat /\ MaxPrefix \in Nat
        BY TablesAssumption DEF PrefixInv, Shapes
    <3>4. nextPrefix <= MaxPrefix
        BY <3>1, <3>3
    <3> QED BY <3>1, <3>2, <3>4
  <2>2. nextPrefix \in Nat /\ nextPrefix \in Prefix /\ meta.prefix = nextPrefix
      BY <2>1, TablesAssumption DEF PrefixInv, Shapes, Prefix
  <2>3. \A u \in Table : tables'[u] = tables[u] \/ tables'[u] = meta
      BY <2>1 DEF PrefixInv, Shapes
  <2> HIDE DEF meta
  <2>4. \A k : WriterFits(k, tables, nextPrefix) => WriterFits(k, tables', nextPrefix')
    <3> SUFFICES ASSUME NEW k, WriterFits(k, tables, nextPrefix) PROVE WriterFits(k, tables', nextPrefix')
        OBVIOUS
    <3>1. ASSUME k.prefix \in Nat, k.prefix < nextPrefix
          PROVE  k.prefix < nextPrefix' /\ k.prefix # nextPrefix
        BY <2>1, <2>2, <3>1
    <3> QED BY <2>2, <2>3, <3>1 DEF WriterFits
  <2>5. \A o \in Owing' : o[1] \in byName => o \in Owing
    <3> SUFFICES ASSUME NEW i \in Index, NEW r \in RowId, NEW v \in Value,
                        Owes(i, r, v, tables', rows, unlisted, strays, entries)
                 PROVE  Owes(i, r, v, tables, rows, unlisted, strays, entries)
        BY <1>1 DEF Owing, OwingIn
    <3>1. IndexTable[i] \in Table
        BY TablesAssumption
    <3>2. CASE tables'[IndexTable[i]] = tables[IndexTable[i]]
        BY <3>2 DEF Owes
    <3>3. CASE tables'[IndexTable[i]] = meta
      <4>1. rows[nextPrefix][r] = v /\ <<nextPrefix, r>> \notin strays /\ v # NoRow
          BY <2>2, <3>3, TablesAssumption DEF Owes, Row
      <4>2. \A u \in Table : Exists(u) => tables[u].prefix # nextPrefix
          BY <2>2 DEF PrefixInv, Allotted, Shapes, Metas, TableMeta, Prefix, Exists
      <4> QED BY <2>2, <4>1, <4>2 DEF PrefixInv, Vacated
    <3> QED BY <2>3, <3>1, <3>2, <3>3
  <2> QED BY <1>1, <2>4, <2>5, IdleFits, TablesMove DEF Return
<1> QED BY <1>2, <1>3

\* ALTER TABLE leaves the prefix.
LEMMA AlterTableFits ==
    ASSUME PrefixInv, IndexInv, IndexesChangedAlone', NEW c \in SQLClient, AlterTable(c)
    PROVE  IndexInv'
<1> DEFINE t == sqlCall[c].table
           altered == [tables EXCEPT ![t].column = sqlCall[c].kind]
<1>1. /\ Return(c)
      /\ UNCHANGED <<nextPrefix, rows, entries, byName, indexMeta, unlisted, unbuilt, unclean, strays>>
    BY DEF AlterTable, indexes, sqlHistory
<1>2. CASE UNCHANGED tables
    BY <1>1, <1>2, IdleFits, Reads DEF Return
<1>3. CASE ~UNCHANGED tables
  <2>1. Exists(t) /\ tables' = altered
      BY <1>3 DEF AlterTable
  <2>2. t \in Table
      BY <1>3, <2>1 DEF PrefixInv, Shapes
  <2>3. /\ tables' = [tables EXCEPT ![t] = [tables[t] EXCEPT !.column = sqlCall[c].kind]]
        /\ tables[t] \in TableMeta
      BY <2>1, <2>2 DEF PrefixInv, Shapes, Metas, Exists
  <2>4. tables'[t].prefix = tables[t].prefix
      BY <2>2, <2>3 DEF PrefixInv, Shapes, TableMeta
  <2>5. \A u \in Table : /\ tables'[u] # NoTable => tables[u] # NoTable
                         /\ tables'[u].prefix = tables[u].prefix
      BY <2>1, <2>2, <2>3, <2>4 DEF PrefixInv, Shapes, Exists
  <2>6. \A k : WriterFits(k, tables, nextPrefix) => WriterFits(k, tables', nextPrefix')
      BY <1>1, <2>5 DEF WriterFits
  <2>7. \A o \in Owing' : o[1] \in byName => o \in Owing
    <3> SUFFICES ASSUME NEW i \in Index, NEW r \in RowId, NEW v \in Value,
                        Owes(i, r, v, tables', rows, unlisted, strays, entries)
                 PROVE  Owes(i, r, v, tables, rows, unlisted, strays, entries)
        BY <1>1 DEF Owing, OwingIn
    <3>1. IndexTable[i] \in Table
        BY TablesAssumption
    <3> QED BY <2>5, <3>1 DEF Owes
  <2> QED BY <1>1, <2>6, <2>7, IdleFits, TablesMove DEF Return
<1> QED BY <1>2, <1>3

\* DROP TABLE deletes the rows it has listed.
LEMMA DropRowsFits ==
    ASSUME PrefixInv, IndexInv, IndexesChangedAlone', NEW c \in SQLClient, DropRows(c)
    PROVE  IndexInv'
<1> DEFINE call == sqlCall[c]
           next == [call EXCEPT !.step = "meta"]
<1>1. /\ Shaped(call) /\ call.op = "drop table"
      /\ UNCHANGED <<tables, nextPrefix, entries, byName, indexMeta, unlisted, unbuilt, unclean, strays>>
    BY DEF PrefixInv, Shapes, DropRows, Doing, sqlHistory
<1>2. CASE Return(c) /\ UNCHANGED rows
    BY <1>1, <1>2, IdleFits, Reads DEF Return
<1>3. CASE rows' = RowsAfter(call.prefix, call.batch, NoRow) /\ Continue(c, next)
  <2>1. next.op = "drop table" /\ next.step = "meta"
      BY <1>1 DEF Shaped, Fields
  <2> HIDE DEF next
  <2>2. \A metas, later, names, named, owing : CallFits(next, metas, later, names, named, owing)
      BY <2>1, PlainFits
  <2>3. \A q \in Prefix, r \in RowId : rows'[q][r] # NoRow => rows'[q][r] = rows[q][r]
    <3> DEFINE p == call.prefix
    <3>1. rows' = [rows EXCEPT ![p] = [r \in RowId |-> IF r \in call.batch.put THEN NoRow
                                                    ELSE IF r \in call.batch.drop THEN NoRow ELSE rows[p][r]]]
        BY <1>3 DEF RowsAfter
    <3> HIDE DEF p, call
    <3> QED BY <3>1 DEF PrefixInv, Shapes
  <2>4. \A o \in Owing' : o[1] \in byName => o \in Owing
    <3> SUFFICES ASSUME NEW i \in Index, NEW r \in RowId, NEW v \in Value,
                        Owes(i, r, v, tables, rows', unlisted, strays, entries)
                 PROVE  Owes(i, r, v, tables, rows, unlisted, strays, entries)
        BY <1>1 DEF Owing, OwingIn
    <3>1. IndexTable[i] \in Table /\ v # NoRow
        BY TablesAssumption DEF Row
    <3>2. tables[IndexTable[i]].prefix \in Prefix
        BY <3>1 DEF Owes, PrefixInv, Shapes, Metas, TableMeta
    <3> QED BY <2>3, <3>1, <3>2 DEF Owes
  <2>5. \A k : WriterFits(k, tables, nextPrefix) => WriterFits(k, tables', nextPrefix')
      BY <1>1
  <2> QED BY <1>1, <1>3, <2>2, <2>4, <2>5, TablesMove
<1> QED BY <1>2, <1>3 DEF DropRows

\* A table that is gone owes nothing.
LEMMA DropMetaFits ==
    ASSUME PrefixInv, IndexInv, IndexesChangedAlone', NEW c \in SQLClient, DropMeta(c)
    PROVE  IndexInv'
<1>1. /\ Return(c)
      /\ UNCHANGED <<nextPrefix, rows, entries, byName, indexMeta, unlisted, unbuilt, unclean, strays>>
    BY DEF DropMeta, indexes, sqlHistory
<1>2. CASE UNCHANGED tables
    BY <1>1, <1>2, IdleFits, Reads DEF Return
<1>3. CASE tables' = [tables EXCEPT ![sqlCall[c].table] = NoTable]
  <2>1. \A u \in Table : tables'[u] = tables[u] \/ tables'[u] = NoTable
      BY <1>3 DEF PrefixInv, Shapes
  <2>2. \A k : WriterFits(k, tables, nextPrefix) => WriterFits(k, tables', nextPrefix')
      BY <1>1, <2>1 DEF WriterFits
  <2>3. \A o \in Owing' : o[1] \in byName => o \in Owing
    <3> SUFFICES ASSUME NEW i \in Index, NEW r \in RowId, NEW v \in Value,
                        Owes(i, r, v, tables', rows, unlisted, strays, entries)
                 PROVE  Owes(i, r, v, tables, rows, unlisted, strays, entries)
        BY <1>1 DEF Owing, OwingIn
    <3>1. IndexTable[i] \in Table
        BY TablesAssumption
    <3> QED BY <2>1, <3>1 DEF Owes
  <2> QED BY <1>1, <2>2, <2>3, IdleFits, TablesMove DEF Return
<1> QED BY <1>2, <1>3 DEF DropMeta

\* Who creates or drops an index moves on; nobody else does so.
LEMMA IndexerMoves ==
    ASSUME PrefixInv, IndexInv, IndexesChangedAlone', NEW c \in SQLClient, Reindexing(sqlCall[c]),
           NEW next, Continue(c, next), UNCHANGED <<tables, nextPrefix>>,
           CallFits(next, tables, nextPrefix, byName', indexMeta', Owing'),
           IndexesMirrored', Completed'
    PROVE  IndexInv'
<1>1. CallFits(next, tables', nextPrefix', byName', indexMeta', Owing')
    OBVIOUS
<1>2. \A k : WriterFits(k, tables, nextPrefix) => WriterFits(k, tables', nextPrefix')
    OBVIOUS
<1> QED BY <1>1, <1>2, OneMoves

\* Manager.Create: the index is there, and counts as not built.
LEMMA CreateIndexFits ==
    ASSUME PrefixInv, IndexInv, IndexesChangedAlone', NEW c \in SQLClient, NEW known \in BOOLEAN, CreateIndex(c, known)
    PROVE  IndexInv'
<1> DEFINE call == sqlCall[c]
           i == call.index
           next == [call EXCEPT !.step = "scan"]
<1>1. /\ Shaped(call) /\ CallFits(call, tables, nextPrefix, byName, indexMeta, Owing)
      /\ call.op = "create index"
    BY DEF PrefixInv, Shapes, IndexInv, CallsFit, CreateIndex, Doing
<1>2. i \in Index /\ Reindexing(call)
    BY <1>1 DEF CallFits, IndexerFits, Reindexing
<1>3. UNCHANGED <<rows, entries, tables, nextPrefix, unclean, strays>>
    BY DEF CreateIndex, schema
<1>4. next.op = "create index" /\ next.step = "scan" /\ next.index = i
    BY <1>1 DEF Shaped, Fields
<1> HIDE DEF next
<1>5. \A names, named, owing : i \in names => CallFits(next, tables, nextPrefix, names, named, owing)
    BY <1>2, <1>4, CreatorFits
<1>6. CASE UNCHANGED <<byName, indexMeta, unbuilt, unlisted>>
  <2>1. Return(c) \/ (i \in byName /\ Continue(c, next))
    <3>1. CASE i \in byName
        BY <3>1 DEF CreateIndex, next
    <3>2. CASE i \notin byName
      <4>1. byName # byName \cup {i}
          BY <3>2
      <4> QED BY <1>6, <3>2, <4>1 DEF CreateIndex
    <3> QED BY <3>1, <3>2
  <2>2. CASE Return(c)
      BY <1>3, <1>6, <2>2, IdleFits, Reads DEF Return
  <2>3. CASE i \in byName /\ Continue(c, next)
    <3>1. CallFits(next, tables, nextPrefix, byName, indexMeta, Owing)
        BY <1>5, <2>3
    <3> QED BY <1>3, <1>6, <2>3, <3>1, Reads
  <2> QED BY <2>1, <2>2, <2>3
<1>7. CASE /\ indexMeta' = indexMeta \cup {i} /\ byName' = byName \cup {i} /\ unbuilt' = unbuilt \cup {i}
           /\ unlisted' = {u \in unlisted : u[1] # i}
           /\ Continue(c, next)
  <2>1. IndexesMirrored'
      BY <1>2, <1>3, <1>7 DEF IndexInv, IndexesMirrored
  <2>2. \A o \in Owing' : o[1] # i => o \in Owing
    <3> SUFFICES ASSUME NEW j \in Index, NEW r \in RowId, NEW v \in Value, j # i,
                        Owes(j, r, v, tables, rows, unlisted', strays, entries)
                 PROVE  Owes(j, r, v, tables, rows, unlisted, strays, entries)
        BY <1>3 DEF Owing, OwingIn
    <3>1. <<j, r>> \in unlisted => <<j, r>> \in unlisted'
        BY <1>7
    <3> QED BY <3>1 DEF Owes
  <2>3. Completed'
      BY <1>3, <1>7, <2>2 DEF IndexInv, Completed
  <2>4. CallFits(next, tables, nextPrefix, byName', indexMeta', Owing')
      BY <1>5, <1>7
  <2> QED BY <1>2, <1>3, <1>7, <2>1, <2>3, <2>4, IndexerMoves
<1> QED BY <1>6, <1>7 DEF CreateIndex, next, indexes

\* The backfill finds every row that owes an entry, but those it cannot name, which it leaves out.
LEMMA ScanForIndexFits ==
    ASSUME PrefixInv, IndexInv, IndexesChangedAlone', NEW c \in SQLClient, ScanForIndex(c)
    PROVE  IndexInv'
<1> DEFINE call == sqlCall[c]
           i == call.index
           t == IndexTable[i]
           p == tables[t].prefix
           todo == {Change(0, r, Missing, rows[p][r]) : r \in Backfilled(p)}
           next == [call EXCEPT !.step = "rebuild", !.todo = todo]
<1>1. /\ Shaped(call) /\ CallFits(call, tables, nextPrefix, byName, indexMeta, Owing)
      /\ call.op = "create index" /\ call.step = "scan"
    BY DEF PrefixInv, Shapes, IndexInv, CallsFit, ScanForIndex, Doing
<1>2. i \in Index /\ i \in byName /\ Reindexing(call)
    BY <1>1 DEF CallFits, IndexerFits, Reindexing
<1>3. UNCHANGED <<rows, entries, tables, nextPrefix, byName, indexMeta, unclean, strays>>
    BY DEF ScanForIndex, stored
<1>4. unlisted' = unlisted \cup (IF Exists(t) THEN {i} \X {r \in RowId \ Textual : rows[p][r] # NoRow} ELSE {})
    BY DEF ScanForIndex, IndexedTable
<1>5. IF Exists(t) /\ Backfilled(p) # {} THEN Continue(c, next) /\ unbuilt' = unbuilt
                                          ELSE Return(c) /\ unbuilt' = unbuilt \ {i}
    BY DEF ScanForIndex, IndexedTable
<1> HIDE DEF todo
<1>6. next.op = "create index" /\ next.step = "rebuild" /\ next.index = i /\ next.todo = todo
    BY <1>1 DEF Shaped, Fields
<1> HIDE DEF next
<1>7. \A o \in Owing' : o \in Owing /\ (o[1] = i => Exists(t) /\ \E d \in todo : d.to = o[2] /\ d.new = o[3])
  <2> SUFFICES ASSUME NEW j \in Index, NEW r \in RowId, NEW v \in Value,
                      Owes(j, r, v, tables, rows, unlisted', strays, entries)
               PROVE  /\ Owes(j, r, v, tables, rows, unlisted, strays, entries)
                      /\ j = i => Exists(t) /\ \E d \in todo : d.to = r /\ d.new = v
      BY <1>3 DEF Owing, OwingIn
  <2>1. Owes(j, r, v, tables, rows, unlisted, strays, entries)
      BY <1>4 DEF Owes
  <2>2. ASSUME j = i PROVE Exists(t) /\ \E d \in todo : d.to = r /\ d.new = v
    <3>1. Exists(t) /\ rows[p][r] = v /\ <<i, r>> \notin unlisted' /\ v # NoRow
        BY <2>2, TablesAssumption DEF Owes, Exists, Row
    <3>2. r \in Textual
        BY <1>4, <3>1
    <3>3. r \in Backfilled(p)
        BY <3>1, <3>2 DEF Backfilled
    <3>4. Change(0, r, Missing, v) \in todo
        BY <3>1, <3>3 DEF todo
    <3>5. Change(0, r, Missing, v).to = r /\ Change(0, r, Missing, v).new = v
        BY DEF Change
    <3> QED BY <3>1, <3>4, <3>5
  <2> QED BY <2>1, <2>2
<1>8. IndexesMirrored'
    BY <1>3 DEF IndexInv, IndexesMirrored
<1>9. CASE Exists(t) /\ Backfilled(p) # {}
  <2>1. Continue(c, next) /\ unbuilt' = unbuilt
      BY <1>5, <1>9
  <2>2. Completed'
      BY <1>3, <1>7, <2>1 DEF IndexInv, Completed
  <2>3. CallFits(next, tables, nextPrefix, byName, indexMeta, Owing')
      BY <1>2, <1>6, <1>7 DEF CallFits, WriterFits, BatchFits, IndexerFits, Fills
  <2> QED BY <1>2, <1>3, <1>8, <2>1, <2>2, <2>3, IndexerMoves
<1>10. CASE ~(Exists(t) /\ Backfilled(p) # {})
  <2>1. Return(c) /\ unbuilt' = unbuilt \ {i}
      BY <1>5, <1>10
  <2>2. \A o \in Owing' : o[1] # i
      BY <1>7, <1>10 DEF todo
  <2>3. Completed'
      BY <1>3, <1>7, <2>1, <2>2 DEF IndexInv, Completed
  <2> QED BY <1>2, <1>3, <1>8, <2>1, <2>3, IdleFits, IndexerMoves DEF Return
<1> QED BY <1>9, <1>10

\* RebuildFromRows brings what is owed in the index.
LEMMA RebuildFits ==
    ASSUME PrefixInv, IndexInv, IndexesChangedAlone', NEW c \in SQLClient, Rebuild(c)
    PROVE  IndexInv'
<1> DEFINE call == sqlCall[c]
           i == call.index
           next == [call EXCEPT !.step = "forget"]
           come == UNION {KeysForValue(i, d.new, d.to) : d \in call.todo}
<1>1. /\ Shaped(call) /\ CallFits(call, tables, nextPrefix, byName, indexMeta, Owing)
      /\ call.op = "create index" /\ call.step = "rebuild"
    BY DEF PrefixInv, Shapes, IndexInv, CallsFit, Rebuild, Doing
<1>2. i \in Index /\ Reindexing(call)
    BY <1>1 DEF CallFits, IndexerFits, Reindexing
<1>3. UNCHANGED <<rows, tables, nextPrefix, byName, indexMeta, unlisted, unclean, strays>>
    BY DEF Rebuild, schema, indexes
<1>4. next.op = "create index" /\ next.step = "forget" /\ next.index = i
    BY <1>1 DEF Shaped, Fields
<1> HIDE DEF next
<1>5. CASE (Return(c) \/ Continue(c, next)) /\ UNCHANGED <<entries, unbuilt>>
  <2>1. CallFits(next, tables, nextPrefix, byName, indexMeta, Owing)
      BY <1>2, <1>4, CreatorFits
  <2>2. Return(c) => IndexInv'
      BY <1>3, <1>5, IdleFits, Reads DEF Return
  <2>3. Continue(c, next) => IndexInv'
      BY <1>3, <1>5, <2>1, Reads
  <2> QED BY <1>5, <2>2, <2>3
<1>6. CASE Return(c) /\ entries' = entries \cup come /\ unbuilt' = unbuilt \ {i}
  <2>1. \A o \in Owing' : o \in Owing /\ o[1] # i
    <3> SUFFICES ASSUME NEW j \in Index, NEW r \in RowId, NEW v \in Value,
                        Owes(j, r, v, tables, rows, unlisted, strays, entries')
                 PROVE  Owes(j, r, v, tables, rows, unlisted, strays, entries) /\ j # i
        BY <1>3 DEF Owing, OwingIn
    <3>1. Owes(j, r, v, tables, rows, unlisted, strays, entries)
        BY <1>6 DEF Owes
    <3>2. ASSUME j = i PROVE FALSE
      <4>1. <<i, r, v>> \in Owing
          BY <3>1, <3>2 DEF Owing, OwingIn
      <4>2. PICK d \in call.todo : d.to = r /\ d.new = v
          BY <1>1, <4>1 DEF CallFits, Fills
      <4>3. <<i, Folded[v], r>> \in KeysForValue(i, d.new, d.to)
          BY <4>2, TablesAssumption DEF KeysForValue
      <4>4. <<i, Folded[v], r>> \in entries'
          BY <1>6, <4>3
      <4> QED BY <3>2, <4>4 DEF Owes
    <3> QED BY <3>1, <3>2
  <2>2. IndexesMirrored' /\ Completed'
      BY <1>3, <1>6, <2>1 DEF IndexInv, IndexesMirrored, Completed
  <2> QED BY <1>2, <1>3, <1>6, <2>2, IdleFits, IndexerMoves DEF Return
<1> QED BY <1>5, <1>6 DEF Rebuild, next

\* Manager.Drop takes the index from memory first.
LEMMA ForgetFits ==
    ASSUME PrefixInv, IndexInv, IndexesChangedAlone', NEW c \in SQLClient, Forget(c)
    PROVE  IndexInv'
<1> DEFINE call == sqlCall[c]
           i == call.index
           next == [call EXCEPT !.step = "unmeta"]
<1>1. /\ Shaped(call) /\ CallFits(call, tables, nextPrefix, byName, indexMeta, Owing)
      /\ call.step = "forget"
    BY DEF PrefixInv, Shapes, IndexInv, CallsFit, Forget
<1>2. Reindexing(call) /\ (call.op = "create index" => i \in Index)
    BY <1>1 DEF CallFits, IndexerFits
<1>3. /\ UNCHANGED <<rows, entries, tables, nextPrefix, indexMeta, unlisted, unbuilt, strays>>
      /\ byName' = byName \ {i} /\ unclean' = unclean \cup ({i} \cap byName)
      /\ Continue(c, next) \/ Continue(c, Dropped(call))
    BY DEF Forget, stored
<1>4. next.op = call.op /\ next.step = "unmeta" /\ next.index = i
    BY <1>1 DEF Shaped, Fields
<1> HIDE DEF next
<1>5. Owing' = Owing
    BY <1>3 DEF Owing
<1>6. IndexesMirrored' /\ Completed'
    BY <1>3, <1>5 DEF IndexInv, IndexesMirrored, Completed
<1>7. CallFits(next, tables, nextPrefix, byName', indexMeta', Owing')
    BY <1>2, <1>3, <1>4 DEF CallFits, WriterFits, BatchFits, IndexerFits, Fills, Reindexing
<1>8. CallFits(Dropped(call), tables, nextPrefix, byName', indexMeta', Owing')
    BY <1>1, DroppedFits
<1> QED BY <1>2, <1>3, <1>6, <1>7, <1>8, IndexerMoves

\* Then its metadata, or it is left behind.
LEMMA DropIndexMetaFits ==
    ASSUME PrefixInv, IndexInv, IndexesChangedAlone', NEW c \in SQLClient, DropIndexMeta(c)
    PROVE  IndexInv'
<1> DEFINE call == sqlCall[c]
           i == call.index
           next == [call EXCEPT !.step = "list"]
<1>1. /\ Shaped(call) /\ CallFits(call, tables, nextPrefix, byName, indexMeta, Owing)
      /\ call.step = "unmeta"
    BY DEF PrefixInv, Shapes, IndexInv, CallsFit, DropIndexMeta
<1>2. Reindexing(call) /\ (call.op = "create index" => i \in Index) /\ i \notin byName
    BY <1>1 DEF CallFits, IndexerFits
<1>3. /\ UNCHANGED <<rows, entries, tables, nextPrefix, byName, unlisted, unbuilt, unclean, strays>>
      /\ \/ indexMeta' = indexMeta \ {i} /\ Continue(c, next)
         \/ indexMeta' = indexMeta /\ Continue(c, Dropped(call))
    BY DEF DropIndexMeta, schema, sqlHistory
<1>4. next.op = call.op /\ next.step = "list" /\ next.index = i
    BY <1>1 DEF Shaped, Fields
<1> HIDE DEF next
<1>5. Owing' = Owing
    BY <1>3 DEF Owing
<1>6. IndexesMirrored' /\ Completed'
    BY <1>3, <1>5 DEF IndexInv, IndexesMirrored, Completed
<1>7. indexMeta' = indexMeta \ {i} => CallFits(next, tables, nextPrefix, byName', indexMeta', Owing')
    BY <1>2, <1>3, <1>4 DEF CallFits, WriterFits, BatchFits, IndexerFits, Fills, Reindexing
<1>8. CallFits(Dropped(call), tables, nextPrefix, byName', indexMeta', Owing')
    BY <1>1, DroppedFits
<1> QED BY <1>2, <1>3, <1>6, <1>7, <1>8, IndexerMoves

\* Then its entries, when there are any.
LEMMA ListEntriesFits ==
    ASSUME PrefixInv, IndexInv, IndexesChangedAlone', NEW c \in SQLClient, ListEntries(c)
    PROVE  IndexInv'
<1> DEFINE call == sqlCall[c]
           i == call.index
           next == [call EXCEPT !.step = "erase", !.batch.dropEntries = EntriesOf(i)]
<1>1. /\ Shaped(call) /\ CallFits(call, tables, nextPrefix, byName, indexMeta, Owing)
      /\ call.step = "list"
    BY DEF PrefixInv, Shapes, IndexInv, CallsFit, ListEntries
<1>2. Reindexing(call) /\ (call.op = "create index" => i \in Index) /\ i \notin byName \cup indexMeta
    BY <1>1 DEF CallFits, IndexerFits
<1>3. /\ UNCHANGED <<rows, entries, tables, nextPrefix, byName, indexMeta, unlisted, unbuilt, strays>>
      /\ unclean' = unclean \ {i} \/ unclean' = unclean
      /\ Continue(c, next) \/ Continue(c, Dropped(call))
    BY DEF ListEntries, stored
<1>4. /\ next.op = call.op /\ next.step = "erase" /\ next.index = i
      /\ next.batch.dropEntries = EntriesOf(i)
    BY <1>1 DEF Shaped, Fields
<1> HIDE DEF next
<1>5. \A e \in EntriesOf(i) : e[1] = i
    BY DEF EntriesOf
<1>6. Owing' = Owing
    BY <1>3 DEF Owing
<1>7. IndexesMirrored' /\ Completed'
    BY <1>2, <1>3, <1>6 DEF IndexInv, IndexesMirrored, Completed
<1>8. CallFits(next, tables, nextPrefix, byName', indexMeta', Owing')
    BY <1>2, <1>3, <1>4, <1>5 DEF CallFits, WriterFits, BatchFits, IndexerFits, Fills, Reindexing
<1>9. CallFits(Dropped(call), tables, nextPrefix, byName', indexMeta', Owing')
    BY <1>1, DroppedFits
<1> QED BY <1>2, <1>3, <1>7, <1>8, <1>9, IndexerMoves

\* No other index loses an entry.
LEMMA EraseEntriesFits ==
    ASSUME PrefixInv, IndexInv, IndexesChangedAlone', NEW c \in SQLClient, EraseEntries(c)
    PROVE  IndexInv'
<1> DEFINE call == sqlCall[c]
           i == call.index
           over == [call EXCEPT !.batch = NoBatch]
<1>1. /\ Shaped(call) /\ CallFits(call, tables, nextPrefix, byName, indexMeta, Owing)
      /\ call.step = "erase"
    BY DEF PrefixInv, Shapes, IndexInv, CallsFit, EraseEntries
<1>2. /\ Reindexing(call) /\ i \notin byName \cup indexMeta
      /\ \A e \in call.batch.dropEntries : e[1] = i
    BY <1>1 DEF CallFits, IndexerFits
<1>3. /\ UNCHANGED <<rows, tables, nextPrefix, byName, indexMeta, unlisted, unbuilt, strays>>
      /\ unclean' = unclean \ {i} \/ unclean' = unclean
      /\ entries' = AfterBatch(call.batch) \/ entries' = entries
      /\ Continue(c, Dropped(over))
    BY DEF EraseEntries, schema, indexes
<1>4. Shaped(over)
    BY <1>1 DEF Shaped, Fields, NoBatch
<1> HIDE DEF over
<1>5. \A o \in Owing' : o[1] # i => o \in Owing
  <2> SUFFICES ASSUME NEW j \in Index, NEW r \in RowId, NEW v \in Value, j # i,
                      Owes(j, r, v, tables, rows, unlisted, strays, entries')
               PROVE  Owes(j, r, v, tables, rows, unlisted, strays, entries)
      BY <1>3 DEF Owing, OwingIn
  <2>1. <<j, Folded[v], r>> \notin call.batch.dropEntries
      BY <1>2
  <2>2. <<j, Folded[v], r>> \in entries => <<j, Folded[v], r>> \in entries'
      BY <1>3, <2>1 DEF AfterBatch
  <2> QED BY <2>2 DEF Owes
<1>6. IndexesMirrored' /\ Completed'
    BY <1>2, <1>3, <1>5 DEF IndexInv, IndexesMirrored, Completed
<1>7. CallFits(Dropped(over), tables, nextPrefix, byName', indexMeta', Owing')
    BY <1>4, DroppedFits
<1> QED BY <1>2, <1>3, <1>6, <1>7, IndexerMoves

\* A crash loads what was in memory, but for the indexes that a DROP has left.
LEMMA CrashFits ==
    ASSUME PrefixInv, IndexInv, IndexesChangedAlone', SQLCrash
    PROVE  IndexInv'
<1>1. /\ tables' = tableMeta /\ byName' = indexMeta
      /\ UNCHANGED <<rows, entries, indexMeta, unlisted, unbuilt, unclean, strays>>
      /\ sqlCall' = [c \in SQLClient |-> NoStatement]
    BY DEF SQLCrash, stored, sqlHistory
<1>2. CallsFit'
    BY <1>1, IdleFits DEF CallsFit
<1>3. Owing' \subseteq Owing
  <2> SUFFICES ASSUME NEW i \in Index, NEW r \in RowId, NEW v \in Value,
                      Owes(i, r, v, tables', rows, unlisted, strays, entries)
               PROVE  Owes(i, r, v, tables, rows, unlisted, strays, entries)
      BY <1>1 DEF Owing, OwingIn
  <2>1. IndexTable[i] \in Table
      BY TablesAssumption
  <2>2. tables'[IndexTable[i]] # NoTable
      BY DEF Owes
  <2>3. /\ tables[IndexTable[i]] # NoTable
        /\ tables'[IndexTable[i]].prefix = tables[IndexTable[i]].prefix
      BY <1>1, <2>1, <2>2 DEF PrefixInv, Mirrored, Exists
  <2> QED BY <2>3 DEF Owes
<1>4. indexMeta \subseteq Index
    BY DEF IndexInv, IndexesMirrored
<1>5. IndexesMirrored' /\ Completed'
    BY <1>1, <1>3, <1>4 DEF IndexInv, IndexesMirrored, Completed
<1> QED BY <1>2, <1>5 DEF IndexInv

\* The store that the process starts on has the entries of all indexes.
LEMMA IndexInvInit == SQLInit => IndexInv
<1> SUFFICES ASSUME NEW created \in [Table -> TableMeta \cup {NoTable}], NEW indexed \in SUBSET Index,
                    NEW held \in [Prefix -> [RowId -> Row \cup {NoRow}]], TablesInit(created, indexed, held)
             PROVE  IndexInv
    BY DEF SQLInit
<1>1. /\ tables = created /\ rows = held /\ byName = indexed /\ indexMeta = indexed
      /\ unlisted = {} /\ unbuilt = {} /\ unclean = {} /\ strays = {}
      /\ sqlCall = [c \in SQLClient |-> NoStatement]
    BY DEF TablesInit
<1>2. entries = {<<x[1], Folded[held[x[2]][x[3]]], x[3]>> : x \in
                     {y \in indexed \X Prefix \X RowId : /\ created[IndexTable[y[1]]] # NoTable
                                                        /\ created[IndexTable[y[1]]].prefix = y[2]
                                                        /\ held[y[2]][y[3]] \in Value}}
    BY DEF TablesInit
<1>3. IndexesChangedAlone
  <2>1. NoStatement.op = "none"
      BY DEF NoStatement
  <2> QED BY <1>1, <2>1 DEF IndexesChangedAlone, ChangesIndexes
<1>4. CallsFit
    BY <1>1, IdleFits DEF CallsFit
<1>5. ASSUME NEW i \in Index, NEW r \in RowId, NEW v \in Value, i \in indexed,
             Owes(i, r, v, tables, rows, unlisted, strays, entries)
      PROVE  FALSE
  <2> DEFINE p == created[IndexTable[i]].prefix
             x == <<i, p, r>>
  <2>1. /\ created[IndexTable[i]] # NoTable /\ held[p][r] = v /\ <<i, Folded[v], r>> \notin entries
      BY <1>1, <1>5 DEF Owes
  <2>2. p \in Prefix
      BY <2>1, TablesAssumption DEF TableMeta
  <2>3. x \in {y \in indexed \X Prefix \X RowId : /\ created[IndexTable[y[1]]] # NoTable
                                                  /\ created[IndexTable[y[1]]].prefix = y[2]
                                                  /\ held[y[2]][y[3]] \in Value}
      BY <1>5, <2>1, <2>2
  <2>4. <<x[1], Folded[held[x[2]][x[3]]], x[3]>> \in entries
      BY <1>2, <2>3
  <2> QED BY <2>1, <2>4
<1>6. IndexesMirrored /\ Completed
    BY <1>1, <1>5 DEF IndexesMirrored, Completed, Owing, OwingIn
<1> QED BY <1>3, <1>4, <1>6 DEF IndexInv

\* One step of the specification at a time.
LEMMA IndexInvStep == PrefixInv /\ IndexInv /\ [SQLNext /\ IndexesChangedAlone']_sqlVars => IndexInv'
<1> SUFFICES ASSUME PrefixInv, IndexInv, [SQLNext /\ IndexesChangedAlone']_sqlVars PROVE IndexInv'
    OBVIOUS
<1>1. CASE SQLCrash /\ IndexesChangedAlone'
    BY <1>1, CrashFits
<1>2. ASSUME NEW c \in SQLClient, SQLStart(c), IndexesChangedAlone' PROVE IndexInv'
    BY <1>2, StartsFit
<1>3. ASSUME NEW c \in SQLClient, SQLStep(c), IndexesChangedAlone' PROVE IndexInv'
  <2>1. CASE ScanRows(c) \/ BeginWrite(c) \/ CheckKey(c) \/ CheckIndexes(c)
      BY <1>3, <2>1, ReadersFit
  <2>2. CASE CheckColumn(c) \/ ListIndexes(c) \/ DropTable(c) \/ CheckTable(c)
      BY <1>3, <2>2, LooksFit
  <2>3. CASE WriteRow(c) \/ CreateTable(c) \/ AlterTable(c) \/ DropRows(c) \/ DropMeta(c)
      BY <1>3, <2>3, WriteRowFits, CreateTableFits, AlterTableFits, DropRowsFits, DropMetaFits
  <2>4. CASE (\E known \in BOOLEAN : CreateIndex(c, known)) \/ ScanForIndex(c) \/ Rebuild(c)
      BY <1>3, <2>4, CreateIndexFits, ScanForIndexFits, RebuildFits
  <2>5. CASE Forget(c) \/ DropIndexMeta(c) \/ ListEntries(c) \/ EraseEntries(c)
      BY <1>3, <2>5, ForgetFits, DropIndexMetaFits, ListEntriesFits, EraseEntriesFits
  <2> QED BY <1>3, <2>1, <2>2, <2>3, <2>4, <2>5 DEF SQLStep
<1>4. CASE UNCHANGED sqlVars
  <2>1. /\ UNCHANGED <<rows, entries, tables, nextPrefix, byName, indexMeta, unlisted, unbuilt, unclean, strays>>
        /\ UNCHANGED sqlCall
      BY <1>4 DEF sqlVars, stored, sqlHistory
  <2>2. Owing' = Owing
      BY <2>1 DEF Owing
  <2> QED BY <2>1, <2>2 DEF IndexInv, CallsFit, IndexesMirrored, Completed, IndexesChangedAlone, ChangesIndexes
<1> QED BY <1>1, <1>2, <1>3, <1>4 DEF SQLNext

\* PrefixInv holds whether or not indexes are changed one at a time.
LEMMA PrefixInvAlone == TablesSpecAlone => []PrefixInv
<1>1. PrefixInv /\ [SQLNext /\ IndexesChangedAlone']_sqlVars => PrefixInv'
    BY PrefixInvStep
<1> QED BY <1>1, PrefixInvInit, PTL DEF TablesSpecAlone

\* InsertRowOps, UpdateRowOps, DeleteRowOps and RebuildFromRows, for any clients that write, any
\* failures and crashes, while indexes are created and dropped one statement at a time: no row
\* that an index ought to know is missing in it.
THEOREM IndexesComplete == TablesSpecAlone => []IndexComplete
<1>1. PrefixInv /\ IndexInv => IndexComplete
  <2> SUFFICES ASSUME PrefixInv, IndexInv, NEW i \in byName \ (unbuilt \cup unclean), NEW r \in RowId,
                      Due(i, r), ~Entered(i, r)
               PROVE  FALSE
      BY DEF IndexComplete
  <2>1. i \in Index
    <3>1. i \in byName
        OBVIOUS
    <3>2. byName \subseteq Index
        BY DEF IndexInv, IndexesMirrored
    <3> QED BY <3>1, <3>2
  <2> DEFINE t == IndexTable[i]
             v == RowsOf(t)[r]
  <2>2. v \in Value /\ Exists(t)
    <3>1. v \in Value
        BY DEF Due, Indexed
    <3>2. ~Exists(t) => v = NoRow
        BY DEF RowsOf
    <3> HIDE DEF v
    <3> QED BY <3>1, <3>2, TablesAssumption DEF Row
  <2>3. v = rows[tables[t].prefix][r]
      BY <2>2 DEF RowsOf
  <2>4. Owes(i, r, v, tables, rows, unlisted, strays, entries)
      BY <2>2, <2>3 DEF Owes, Due, Entered, Exists
  <2> HIDE DEF v
  <2>5. <<i, r, v>> \in Owing
      BY <2>1, <2>2, <2>4 DEF Owing, OwingIn
  <2> QED BY <2>5 DEF IndexInv, Completed
<1>2. IndexInv /\ PrefixInv /\ [SQLNext /\ IndexesChangedAlone']_sqlVars => IndexInv'
    BY IndexInvStep
<1> QED BY <1>1, <1>2, IndexInvInit, PrefixInvAlone, PTL DEF TablesSpecAlone
-----------------------------------------------------------------------------
(* One statement at a time: an index has no entry of a row that is not      *)
(* there, and the values of a UNIQUE column differ.                         *)

\* The rows of table t, in any state.
RowsIn(metas, held, t) == IF metas[t] # NoTable THEN held[metas[t].prefix] ELSE [r \in RowId |-> NoRow]

\* A row to change is still as the statement found it; only DELETE has no row to write.
ChangeFits(call, d, held) ==
    /\ d.from \in RowId \cup {0} /\ d.to \in RowId \cup {0} /\ d.new \in Row
    /\ d.from # 0 => held[d.from] = d.old /\ d.old \in Row
    /\ call.op = "delete" => d.to = 0

\* The rows that INSERT, UPDATE or DELETE has still to write, each once.
TodoFits(call, held) ==
    /\ \A d \in call.todo : ChangeFits(call, d, held)
    /\ \A d, e \in call.todo : d.from = e.from /\ d.from # 0 => d = e

\* No other row has the value of a change in a UNIQUE index.
FreeIn(d, listed, ents) ==
    \A i \in listed \cap UniqueIndexes, s \in RowId \ {d.to} : d.new = Missing \/ <<i, Folded[d.new], s>> \notin ents

\* The batch was made from the indexes that there are and after a check that still holds.
CheckedBatch(call, listed, ents) ==
    LET d == NextChange(call) IN
    \E violated \in BOOLEAN :
        /\ call.batch = BatchOf(d, listed, violated)
        /\ call.seen = IF violated THEN {} ELSE listed
        /\ ~violated /\ d.to # 0 => FreeIn(d, listed, ents)

Writer(call) == call.op \in {"insert", "update", "delete"}

ListedIn(names, t) == {i \in names : IndexTable[i] = t}

WriterAlone(call, metas, held, names, ents) ==
    LET own == RowsIn(metas, held, call.table)
        d == NextChange(call)
    IN
    Writer(call) =>
        /\ call.step = "scan" =>
              call.where \subseteq RowId /\ call.set \in Row \cup {NoRow} /\ call.move \in RowId \cup {0}
        /\ call.step \in {"begin", "key", "index", "write"} => TodoFits(call, own)
        /\ call.step \in {"key", "index", "write"} =>
              metas[call.table] # NoTable /\ call.prefix = metas[call.table].prefix /\ call.todo # {}
        /\ call.step \in {"index", "write"} => d.to \in {0, d.from} \/ own[d.to] = NoRow
        /\ call.step = "write" => CheckedBatch(call, ListedIn(names, call.table), ents)

\* A backfill has the rows that there are, and those it has not are not listed.
FillerAlone(call, metas, held, left) ==
    LET own == RowsIn(metas, held, IndexTable[call.index]) IN
    call.op = "create index" /\ call.step = "rebuild" =>
        /\ call.todo = {Change(0, r, Missing, own[r]) : r \in {s \in Textual : own[s] \in Value}}
        /\ \A r \in RowId \ Textual : own[r] # NoRow => <<call.index, r>> \in left

\* DROP TABLE has the indexes of its table before it, and then there are none.
DropperAlone(call, names) ==
    call.op = "drop table" =>
        /\ call.step \in {"forget", "unmeta", "list", "erase"} =>
              ListedIn(names, call.table) \subseteq call.rest \cup {call.index}
        /\ call.step \in {"lock", "batch", "meta"} => ListedIn(names, call.table) = {}

\* What Manager.Drop erases is put nowhere.
PutsNone(call) == "putEntries" \in DOMAIN call.batch /\ call.batch.putEntries = {}

\* An index whose entries go is unclean, and all its entries go.
EraserAlone(call, ents, dirty) ==
    /\ Reindexing(call) => PutsNone(call)
    /\ call.step \in {"unmeta", "list", "erase"} => call.index \in dirty
    /\ call.step = "erase" => call.batch.dropEntries = {e \in ents : e[1] = call.index}

AloneFits(call, metas, held, names, ents, left, dirty) ==
    /\ WriterAlone(call, metas, held, names, ents) /\ FillerAlone(call, metas, held, left)
    /\ DropperAlone(call, names) /\ EraserAlone(call, ents, dirty)

\* No other client has a statement in progress.
Alone(c) == \A d \in SQLClient \ {c} : sqlCall[d] = NoStatement

\* One statement at most is in progress, and fits.
CallAlone ==
    \A c \in SQLClient : /\ sqlCall[c].step = "idle" => sqlCall[c] = NoStatement
                         /\ sqlCall[c].step # "idle" => Alone(c)
                         /\ AloneFits(sqlCall[c], tables, rows, byName, entries, unlisted, unclean)

\* An entry is of an index whose DROP has not finished, or of a row that is there.
TrueIn(e, metas, held, names) ==
    LET val == RowsIn(metas, held, IndexTable[e[1]])[e[3]] IN
    e[1] \in names /\ val \in Value /\ Folded[val] = e[2]

NoFalseEntry == \A e \in entries : e[1] \notin unclean => TrueIn(e, tables, rows, byName)

StoreAlone ==
    /\ strays = {} /\ rows \in [Prefix -> [RowId -> Row \cup {NoRow}]]
    /\ entries \subseteq Entry /\ byName \subseteq indexMeta

AloneInv == IndexInv /\ CallAlone /\ StoreAlone /\ NoFalseEntry

SoundInv == PrefixInv /\ (~crowded => AloneInv)

UniqueInv == SoundInv /\ UniqueKept

\* A call that neither writes rows nor works on an index fits in any state.
LEMMA PlainAlone ==
    ASSUME NEW call, ~Writer(call), ~Reindexing(call), call.step \notin {"unmeta", "list", "erase"},
           NEW metas, NEW held, NEW names, NEW ents, NEW left, NEW dirty
    PROVE  AloneFits(call, metas, held, names, ents, left, dirty)
BY DEF AloneFits, WriterAlone, FillerAlone, DropperAlone, EraserAlone, Reindexing

\* What a call that is over leaves.
LEMMA IdleAlone ==
    \A metas, held, names, ents, left, dirty : AloneFits(NoStatement, metas, held, names, ents, left, dirty)
<1>1. NoStatement.op = "none" /\ NoStatement.step = "idle"
    BY DEF NoStatement
<1>2. ~Writer(NoStatement) /\ ~Reindexing(NoStatement)
    BY <1>1 DEF Writer, Reindexing
<1> QED BY <1>1, <1>2, PlainAlone

\* CREATE INDEX but for its backfill, and DROP INDEX before it has forgotten the index.
LEMMA IndexerAlone ==
    ASSUME NEW call, PutsNone(call),
           \/ call.op = "create index" /\ call.step \in {"table", "create", "scan", "forget"}
           \/ call.op = "drop index" /\ call.step = "forget",
           NEW metas, NEW held, NEW names, NEW ents, NEW left, NEW dirty
    PROVE  AloneFits(call, metas, held, names, ents, left, dirty)
BY DEF AloneFits, WriterAlone, FillerAlone, DropperAlone, EraserAlone, Reindexing, Writer

\* DROP TABLE before it has forgotten an index, or after the last one.
LEMMA DropperFitsAlone ==
    ASSUME NEW call, call.op = "drop table", PutsNone(call), NEW names,
           \/ call.step = "indexes"
           \/ call.step = "forget" /\ ListedIn(names, call.table) \subseteq call.rest \cup {call.index}
           \/ call.step \in {"lock", "batch", "meta"} /\ ListedIn(names, call.table) = {},
           NEW metas, NEW held, NEW ents, NEW left, NEW dirty
    PROVE  AloneFits(call, metas, held, names, ents, left, dirty)
BY DEF AloneFits, WriterAlone, FillerAlone, DropperAlone, EraserAlone, Reindexing, Writer

\* Manager.Drop returns to DROP TABLE, which has all other indexes of the table before it, or
\* ends the statement.
LEMMA DroppedAlone ==
    ASSUME NEW call, Shaped(call), PutsNone(call), NEW names,
           call.op = "drop table" => ListedIn(names, call.table) \subseteq call.rest,
           NEW metas, NEW held, NEW ents, NEW left, NEW dirty
    PROVE  /\ call.op = "drop table" =>
                  AloneFits(NextIndex(call), metas, held, names, ents, left, dirty) /\ NextIndex(call).step # "idle"
           /\ AloneFits(Dropped(call), metas, held, names, ents, left, dirty)
           /\ Dropped(call) = NoStatement \/ Dropped(call).step # "idle"
<1>1. ASSUME call.op = "drop table"
      PROVE  AloneFits(NextIndex(call), metas, held, names, ents, left, dirty) /\ NextIndex(call).step # "idle"
  <2>1. CASE call.rest = {}
    <3> DEFINE later == [call EXCEPT !.step = "lock"]
    <3>1. later.op = "drop table" /\ later.step = "lock" /\ later.batch = call.batch /\ later.table = call.table
        BY <1>1 DEF Shaped, Fields
    <3>2. NextIndex(call) = later
        BY <2>1 DEF NextIndex
    <3> HIDE DEF later
    <3>3. ListedIn(names, later.table) = {}
        BY <1>1, <2>1, <3>1
    <3>4. PutsNone(later)
        BY <3>1 DEF PutsNone
    <3>5. AloneFits(later, metas, held, names, ents, left, dirty)
        BY <3>1, <3>3, <3>4, DropperFitsAlone
    <3> QED BY <3>1, <3>2, <3>5
  <2>2. CASE call.rest # {}
    <3> DEFINE i == CHOOSE j \in call.rest : TRUE
               later == [call EXCEPT !.step = "forget", !.index = i, !.rest = @ \ {i}]
    <3>1. NextIndex(call) = later
        BY <2>2 DEF NextIndex
    <3>2. i \in call.rest
        BY <2>2
    <3> HIDE DEF i
    <3>3. /\ later.op = "drop table" /\ later.step = "forget" /\ later.batch = call.batch
          /\ later.table = call.table /\ later.index = i /\ later.rest = call.rest \ {i}
        BY <1>1 DEF Shaped, Fields
    <3> HIDE DEF later
    <3>4. ListedIn(names, later.table) \subseteq later.rest \cup {later.index}
        BY <1>1, <3>2, <3>3
    <3>5. PutsNone(later)
        BY <3>3 DEF PutsNone
    <3>6. AloneFits(later, metas, held, names, ents, left, dirty)
        BY <3>3, <3>4, <3>5, DropperFitsAlone
    <3> QED BY <3>1, <3>3, <3>6
  <2> QED BY <2>1, <2>2
<1> QED BY <1>1, IdleAlone DEF Dropped

\* The statement that goes on is the only one, before the step as after it.
LEMMA AloneStays ==
    ASSUME PrefixInv, CallAlone, NEW c \in SQLClient, sqlCall[c].step # "idle", NEW call, Continue(c, call)
    PROVE  /\ sqlCall'[c] = call
           /\ \A d \in SQLClient : d # c => sqlCall[d] = NoStatement /\ sqlCall'[d] = NoStatement
           /\ IndexesChangedAlone'
<1>1. /\ sqlCall'[c] = call
      /\ \A d \in SQLClient : d # c => sqlCall'[d] = sqlCall[d]
    BY DEF PrefixInv, Shapes, Continue
<1>2. \A d \in SQLClient : d # c => sqlCall[d] = NoStatement
    BY DEF CallAlone, Alone
<1>3. NoStatement.op = "none"
    BY DEF NoStatement
<1>4. IndexesChangedAlone'
    BY <1>1, <1>2, <1>3 DEF IndexesChangedAlone, ChangesIndexes
<1> QED BY <1>1, <1>2, <1>4

\* The call that a step leaves fits, so it fits as the only one.
LEMMA AloneMoves ==
    ASSUME PrefixInv, CallAlone, NEW c \in SQLClient, sqlCall[c].step # "idle", NEW call, Continue(c, call),
           call = NoStatement \/ call.step # "idle",
           AloneFits(call, tables', rows', byName', entries', unlisted', unclean')
    PROVE  CallAlone'
<1>1. /\ sqlCall'[c] = call
      /\ \A d \in SQLClient : d # c => sqlCall'[d] = NoStatement
    BY AloneStays
<1>2. NoStatement.step = "idle"
    BY DEF NoStatement
<1>3. \A d \in SQLClient : sqlCall'[d].step = "idle" => sqlCall'[d] = NoStatement
    BY <1>1
<1>4. \A d \in SQLClient : sqlCall'[d].step # "idle" => d = c
    BY <1>1, <1>2
<1>5. \A d \in SQLClient : sqlCall'[d].step # "idle" => Alone(d)'
    BY <1>1, <1>4 DEF Alone
<1>6. \A d \in SQLClient : AloneFits(sqlCall'[d], tables', rows', byName', entries', unlisted', unclean')
    BY <1>1, IdleAlone
<1> QED BY <1>3, <1>5, <1>6 DEF CallAlone

-----------------------------------------------------------------------------
(* Steps that leave the rows of all tables as they are.                     *)

SameRows == \A t \in Table : RowsIn(tables', rows', t) = RowsIn(tables, rows, t)

\* RowsOf is RowsIn of the present state.
LEMMA RowsNow == \A t : RowsOf(t) = RowsIn(tables, rows, t)
BY DEF RowsOf, RowsIn, Exists

\* And of the next one.
LEMMA RowsThen == \A t : RowsOf(t)' = RowsIn(tables', rows', t)
BY DEF RowsOf, RowsIn, Exists

\* No entry comes, and what goes from memory is unclean.
LEMMA TruthStays ==
    ASSUME StoreAlone, NoFalseEntry, SameRows,
           \A e \in entries' : e[1] \notin unclean' => e \in entries /\ e[1] \notin unclean /\ e[1] \in byName'
    PROVE  NoFalseEntry'
<1>1. ASSUME NEW e \in entries', e[1] \notin unclean'
      PROVE  TrueIn(e, tables', rows', byName')
  <2>1. e \in entries /\ e[1] \in byName' /\ TrueIn(e, tables, rows, byName)
      BY <1>1 DEF NoFalseEntry
  <2>2. IndexTable[e[1]] \in Table
      BY <2>1, TablesAssumption DEF StoreAlone, Entry
  <2> QED BY <2>1, <2>2 DEF TrueIn, SameRows
<1> QED BY <1>1 DEF NoFalseEntry

\* What UniqueApart says of an index, in any state.
ApartFor(i, metas, held, left) ==
    LET own == RowsIn(metas, held, IndexTable[i]) IN
    \A r, s \in RowId :
        r # s /\ own[r] \in Value /\ own[s] \in Value /\ {<<i, r>>, <<i, s>>} \cap left = {} =>
            Folded[own[r]] # Folded[own[s]]

\* The indexes it says it of.
Watched == (byName \cap UniqueIndexes) \ (unbuilt \cup unclean)

\* UniqueApart, index by index.
LEMMA ApartNow == UniqueApart <=> \A i \in Watched : ApartFor(i, tables, rows, unlisted)
BY RowsNow DEF UniqueApart, Watched, ApartIn, ApartFor, Indexed

\* And in the next state.
LEMMA ApartThen == UniqueApart' <=> \A i \in Watched' : ApartFor(i, tables', rows', unlisted')
BY RowsThen DEF UniqueApart, Watched, ApartIn, ApartFor, Indexed

\* No index comes to be watched, and no row is listed that was not.
LEMMA ApartStays ==
    ASSUME SameRows, UniqueApart,
           \A i \in Watched' : i \in Watched /\ \A r \in RowId : <<i, r>> \in unlisted => <<i, r>> \in unlisted'
    PROVE  UniqueApart'
<1>1. ASSUME NEW i \in Watched' PROVE ApartFor(i, tables', rows', unlisted')
  <2>1. i \in Watched /\ ApartFor(i, tables, rows, unlisted)
      BY <1>1, ApartNow
  <2>2. IndexTable[i] \in Table
      BY <2>1, TablesAssumption DEF Watched
  <2>3. \A r \in RowId : <<i, r>> \in unlisted => <<i, r>> \in unlisted'
      BY <1>1
  <2> QED BY <2>1, <2>2, <2>3 DEF ApartFor, SameRows
<1> QED BY <1>1, ApartThen

-----------------------------------------------------------------------------
(* Steps that only look, when nobody else is at work.                       *)

\* What a step keeps, but for IndexInv.
Kept == CallAlone' /\ StoreAlone' /\ NoFalseEntry' /\ (UniqueApart => UniqueApart')

\* Only the call changes.
LEMMA LooksAlone ==
    ASSUME PrefixInv, AloneInv, NEW c \in SQLClient, sqlCall[c].step # "idle", NEW call, Continue(c, call),
           call = NoStatement \/ call.step # "idle",
           AloneFits(call, tables, rows, byName, entries, unlisted, unclean),
           UNCHANGED <<rows, entries, tables, byName, indexMeta, unlisted, unbuilt, unclean, strays>>
    PROVE  Kept
<1>1. AloneFits(call, tables', rows', byName', entries', unlisted', unclean')
    OBVIOUS
<1>2. CallAlone'
    BY <1>1, AloneMoves DEF AloneInv
<1>3. StoreAlone'
    BY DEF AloneInv, StoreAlone
<1>4. SameRows
    BY DEF SameRows
<1>5. NoFalseEntry'
    BY <1>4, TruthStays DEF AloneInv, NoFalseEntry, TrueIn
<1>6. UniqueApart => UniqueApart'
    BY <1>4, ApartStays DEF Watched
<1> QED BY <1>2, <1>3, <1>5, <1>6 DEF Kept

\* The statement ends.
LEMMA ReturnsAlone ==
    ASSUME PrefixInv, AloneInv, NEW c \in SQLClient, sqlCall[c].step # "idle", Return(c),
           UNCHANGED <<rows, entries, tables, byName, indexMeta, unlisted, unbuilt, unclean, strays>>
    PROVE  Kept
BY LooksAlone, IdleAlone DEF Return

\* The row that is changed next is one of those to change.
LEMMA NextIsOne ==
    ASSUME NEW call, NEW held, TodoFits(call, held), call.todo # {}
    PROVE  NextChange(call) \in call.todo
<1> DEFINE At(d) == d.from + d.to
           T == {At(d) : d \in call.todo}
<1>1. \A d \in call.todo : d.from \in Nat /\ d.to \in Nat
  <2>1. RowId \cup {0} \subseteq Nat
      BY TablesAssumption
  <2>2. \A d \in call.todo : d.from \in RowId \cup {0} /\ d.to \in RowId \cup {0}
      BY DEF TodoFits, ChangeFits
  <2> QED BY <2>1, <2>2
<1>2. T \subseteq Nat /\ T # {}
    BY <1>1
<1>3. PICK n \in T : \A m \in T : <<m, n>> \notin OpToRel(<, Nat)
    BY <1>2, NatLessThanWellFounded, WFMin
<1>4. \A m \in T : ~(m < n)
    BY <1>2, <1>3, Zenon DEF OpToRel
<1>5. PICK d \in call.todo : n = At(d)
    BY <1>3
<1>6. \A e \in call.todo : At(e) \in T
    OBVIOUS
<1> HIDE DEF T
<1>7. \A e \in call.todo : d.from + d.to <= e.from + e.to
    BY <1>1, <1>4, <1>5, <1>6
<1> QED BY <1>5, <1>7 DEF NextChange

\* executeScan: the rows it takes are those that there are.
LEMMA ScanRowsAlone ==
    ASSUME PrefixInv, AloneInv, NEW c \in SQLClient, ScanRows(c)
    PROVE  Kept
<1> DEFINE call == sqlCall[c]
           t == call.table
           p == tables[t].prefix
           todo == {ChangeOf(call, r, rows[p][r]) : r \in Found(call, p)}
           next == [call EXCEPT !.step = "begin", !.todo = todo]
<1>1. /\ Shaped(call) /\ call.op \in {"update", "delete"} /\ call.step = "scan"
      /\ WriterAlone(call, tables, rows, byName, entries) /\ t \in Table
    BY DEF PrefixInv, Shapes, AloneInv, CallAlone, AloneFits, ScanRows, IndexInv, CallsFit, CallFits, WriterFits
<1>2. UNCHANGED <<rows, entries, tables, byName, indexMeta, unlisted, unbuilt, unclean, strays>>
    BY DEF ScanRows, stored, sqlHistory
<1>3. Return(c) \/ (Exists(t) /\ Continue(c, next))
    BY DEF ScanRows
<1>4. call.where \subseteq RowId /\ call.set \in Row \cup {NoRow} /\ call.move \in RowId \cup {0}
    BY <1>1 DEF WriterAlone, Writer
<1> HIDE DEF todo
<1>5. next.op = call.op /\ next.step = "begin" /\ next.table = t /\ next.todo = todo
    BY <1>1 DEF Shaped, Fields
<1> HIDE DEF next
<1>6. ASSUME Exists(t) PROVE TodoFits(next, RowsIn(tables, rows, t))
  <2>1. RowsIn(tables, rows, t) = rows[p] /\ p \in Prefix
      BY <1>1, <1>6, TablesAssumption DEF RowsIn, Exists, PrefixInv, Shapes, Metas, TableMeta
  <2>2. ASSUME NEW r \in Found(call, p)
        PROVE  /\ r \in RowId /\ ChangeOf(call, r, rows[p][r]).from = r
               /\ ChangeFits(next, ChangeOf(call, r, rows[p][r]), rows[p])
    <3>1. r \in RowId /\ rows[p][r] \in Row
        BY <1>4, <2>1 DEF Found, AloneInv, StoreAlone
    <3>2. CASE call.op = "delete"
        BY <1>5, <3>1, <3>2 DEF ChangeOf, ChangeFits, Change, Row
    <3>3. CASE call.op # "delete"
        BY <1>4, <1>5, <3>1, <3>3 DEF ChangeOf, ChangeFits, Change
    <3> QED BY <3>1, <3>2, <3>3
  <2>3. \A d \in todo : ChangeFits(next, d, rows[p])
      BY <2>2 DEF todo
  <2>4. \A d, e \in todo : d.from = e.from => d = e
      BY <2>2 DEF todo
  <2> QED BY <1>5, <2>1, <2>3, <2>4 DEF TodoFits
<1>7. Exists(t) => AloneFits(next, tables, rows, byName, entries, unlisted, unclean)
    BY <1>1, <1>5, <1>6 DEF AloneFits, WriterAlone, FillerAlone, DropperAlone, EraserAlone, Reindexing, Writer
<1> QED BY <1>1, <1>2, <1>3, <1>5, <1>7, ReturnsAlone, LooksAlone

\* tablePrefix, and the check of a row's key.
LEMMA BeginWriteAlone ==
    ASSUME PrefixInv, AloneInv, NEW c \in SQLClient, BeginWrite(c) \/ CheckKey(c)
    PROVE  Kept
<1> DEFINE call == sqlCall[c]
           t == call.table
           own == RowsIn(tables, rows, t)
<1>1. /\ Shaped(call) /\ call.step \in {"begin", "key"} /\ Writer(call)
      /\ WriterAlone(call, tables, rows, byName, entries)
    BY DEF PrefixInv, Shapes, AloneInv, CallAlone, AloneFits, BeginWrite, CheckKey, Writer, IndexInv, CallsFit, CallFits, WriterFits
<1>2. UNCHANGED <<rows, entries, tables, byName, indexMeta, unlisted, unbuilt, unclean, strays>>
    BY DEF BeginWrite, CheckKey, stored, sqlHistory
<1>3. TodoFits(call, own)
    BY <1>1 DEF WriterAlone
<1>4. CASE BeginWrite(c)
  <2> DEFINE next == [call EXCEPT !.step = "key", !.prefix = tables[t].prefix]
  <2>1. Return(c) \/ (Exists(t) /\ call.todo # {} /\ Continue(c, next))
      BY <1>4 DEF BeginWrite
  <2>2. /\ next.op = call.op /\ next.step = "key" /\ next.table = t /\ next.todo = call.todo
        /\ next.prefix = tables[t].prefix
      BY <1>1 DEF Shaped, Fields
  <2> HIDE DEF next
  <2>3. TodoFits(next, own)
      BY <1>3, <2>2 DEF TodoFits, ChangeFits
  <2>4. Exists(t) /\ call.todo # {} => AloneFits(next, tables, rows, byName, entries, unlisted, unclean)
      BY <1>1, <2>2, <2>3 DEF AloneFits, WriterAlone, FillerAlone, DropperAlone, EraserAlone, Reindexing, Writer, Exists
  <2> QED BY <1>1, <1>2, <2>1, <2>2, <2>4, ReturnsAlone, LooksAlone
<1>5. CASE CheckKey(c)
  <2> DEFINE next == [call EXCEPT !.step = "index"]
             d == NextChange(call)
  <2>1. /\ call.step = "key"
        /\ \/ Return(c)
           \/ /\ call.op = "delete" \/ d.to = d.from \/ rows[call.prefix][d.to] = NoRow
              /\ Continue(c, next)
      BY <1>5 DEF CheckKey
  <2>2. /\ next.op = call.op /\ next.step = "index" /\ next.table = t /\ next.todo = call.todo
        /\ next.prefix = call.prefix
      BY <1>1 DEF Shaped, Fields
  <2> HIDE DEF next
  <2>3. tables[t] # NoTable /\ call.prefix = tables[t].prefix /\ call.todo # {}
      BY <1>1, <2>1 DEF WriterAlone
  <2>4. own = rows[call.prefix]
      BY <2>3 DEF RowsIn
  <2>5. d \in call.todo /\ NextChange(next) = d
      BY <1>3, <2>2, <2>3, NextIsOne DEF NextChange
  <2>6. call.op = "delete" => d.to = 0
      BY <1>3, <2>5 DEF TodoFits, ChangeFits
  <2> HIDE DEF d, own
  <2>7. TodoFits(next, own)
      BY <1>3, <2>2 DEF TodoFits, ChangeFits
  <2>8. Return(c) \/ (Continue(c, next) /\ (d.to \in {0, d.from} \/ own[d.to] = NoRow))
      BY <2>1, <2>4, <2>6
  <2>9. d.to \in {0, d.from} \/ own[d.to] = NoRow => WriterAlone(next, tables, rows, byName, entries)
      BY <2>2, <2>3, <2>5, <2>7 DEF WriterAlone, own
  <2>10. d.to \in {0, d.from} \/ own[d.to] = NoRow =>
             AloneFits(next, tables, rows, byName, entries, unlisted, unclean)
      BY <1>1, <2>2, <2>9 DEF AloneFits, FillerAlone, DropperAlone, EraserAlone, Reindexing, Writer
  <2> QED BY <1>1, <1>2, <2>2, <2>8, <2>10, ReturnsAlone, LooksAlone
<1> QED BY <1>4, <1>5

\* validateUnique passes, or the batch has no new entries.
LEMMA CheckIndexesAlone ==
    ASSUME PrefixInv, AloneInv, NEW c \in SQLClient, CheckIndexes(c)
    PROVE  Kept
<1> DEFINE call == sqlCall[c]
           t == call.table
           own == RowsIn(tables, rows, t)
           d == NextChange(call)
           listed == ListByTable(t)
           violated == call.op # "delete" /\ Violated(listed, d.new, d.to)
           seen == IF violated THEN {} ELSE listed
           batch == BatchOf(d, listed, violated)
           next == [call EXCEPT !.step = "write", !.seen = seen, !.batch = batch]
<1>1. /\ Shaped(call) /\ call.step = "index" /\ Writer(call)
      /\ WriterAlone(call, tables, rows, byName, entries)
    BY DEF PrefixInv, Shapes, AloneInv, CallAlone, AloneFits, CheckIndexes, Writer, IndexInv, CallsFit, CallFits, WriterFits
<1>2. UNCHANGED <<rows, entries, tables, byName, indexMeta, unlisted, unbuilt, unclean, strays>>
    BY DEF CheckIndexes, stored, sqlHistory
<1>3. Return(c) \/ Continue(c, next)
    BY DEF CheckIndexes
<1>4. /\ TodoFits(call, own) /\ tables[t] # NoTable /\ call.prefix = tables[t].prefix /\ call.todo # {}
      /\ d.to \in {0, d.from} \/ own[d.to] = NoRow
    BY <1>1 DEF WriterAlone
<1>5. d \in call.todo
    BY <1>4, NextIsOne
<1>6. call.op = "delete" => d.to = 0
    BY <1>4, <1>5 DEF TodoFits, ChangeFits
<1>7. ~violated /\ d.to # 0 => FreeIn(d, listed, entries)
    BY <1>6 DEF Violated, FreeIn
<1>8. violated \in BOOLEAN
    BY DEF Violated
<1>9. listed = ListedIn(byName, t)
    BY DEF ListByTable, ListedIn
<1> HIDE DEF violated, listed, batch
<1>10. /\ next.op = call.op /\ next.step = "write" /\ next.table = t /\ next.todo = call.todo
       /\ next.prefix = call.prefix /\ next.seen = seen /\ next.batch = batch
    BY <1>1 DEF Shaped, Fields
<1> HIDE DEF next
<1>11. NextChange(next) = d
    BY <1>10 DEF NextChange
<1> HIDE DEF d, own
<1>12. CheckedBatch(next, ListedIn(byName, t), entries)
    BY <1>7, <1>8, <1>9, <1>10, <1>11 DEF CheckedBatch, batch
<1>13. TodoFits(next, own)
    BY <1>4, <1>10 DEF TodoFits, ChangeFits
<1>14. WriterAlone(next, tables, rows, byName, entries)
    BY <1>4, <1>10, <1>11, <1>12, <1>13 DEF WriterAlone, own
<1>15. AloneFits(next, tables, rows, byName, entries, unlisted, unclean)
    BY <1>1, <1>10, <1>14 DEF AloneFits, FillerAlone, DropperAlone, EraserAlone, Reindexing, Writer
<1> QED BY <1>1, <1>2, <1>3, <1>10, <1>15, ReturnsAlone, LooksAlone

\* ALTER TABLE, DROP TABLE and CREATE INDEX where they only look.
LEMMA PeeksAlone ==
    ASSUME PrefixInv, AloneInv, NEW c \in SQLClient,
           CheckColumn(c) \/ ListIndexes(c) \/ DropTable(c) \/ CheckTable(c)
    PROVE  Kept
<1> DEFINE call == sqlCall[c]
           t == call.table
           Fits(k) == AloneFits(k, tables, rows, byName, entries, unlisted, unclean)
<1>1. Shaped(call) /\ Fits(call) /\ call.step # "idle"
    BY DEF PrefixInv, Shapes, AloneInv, CallAlone, CheckColumn, ListIndexes, DropTable, CheckTable, Doing
<1>2. UNCHANGED <<rows, entries, tables, byName, indexMeta, unlisted, unbuilt, unclean, strays>>
    BY DEF CheckColumn, ListIndexes, DropTable, CheckTable, stored, sqlHistory
<1>3. Return(c) => Kept
    BY <1>1, <1>2, ReturnsAlone
<1>4. ASSUME NEW k, Continue(c, k), Fits(k), k.step # "idle" PROVE Kept
    BY <1>1, <1>2, <1>4, LooksAlone
<1>5. Reindexing(call) => PutsNone(call)
    BY <1>1 DEF AloneFits, EraserAlone
<1> HIDE DEF Fits
<1>6. CASE CheckColumn(c)
  <2> DEFINE next == [call EXCEPT !.step = "run"]
  <2>1. call.op = "alter table" /\ (Return(c) \/ Continue(c, next))
      BY <1>6 DEF CheckColumn, Doing
  <2>2. next.op = call.op /\ next.step = "run"
      BY <1>1 DEF Shaped, Fields
  <2> HIDE DEF next
  <2>3. Fits(next)
      BY <2>1, <2>2, PlainAlone DEF Fits, Writer, Reindexing
  <2> QED BY <1>3, <1>4, <2>1, <2>2, <2>3
<1>7. CASE ListIndexes(c)
  <2> DEFINE listed == ListByTable(t)
             over == [call EXCEPT !.rest = listed]
  <2>1. call.op = "drop table" /\ Continue(c, NextIndex(over))
      BY <1>7 DEF ListIndexes, Doing
  <2>2. Shaped(over) /\ over.op = call.op /\ over.rest = listed /\ over.batch = call.batch /\ over.table = t
      BY <1>1 DEF Shaped, Fields
  <2> HIDE DEF over
  <2>3. PutsNone(over)
      BY <1>5, <2>1, <2>2 DEF Reindexing, PutsNone
  <2>4. ListedIn(byName, over.table) \subseteq over.rest
      BY <2>2 DEF ListedIn, ListByTable
  <2>5. Fits(NextIndex(over)) /\ NextIndex(over).step # "idle"
      BY <2>1, <2>2, <2>3, <2>4, DroppedAlone DEF Fits
  <2> QED BY <1>4, <2>1, <2>5
<1>8. CASE DropTable(c)
  <2> DEFINE next(own, all) == [call EXCEPT !.step = "batch", !.prefix = own, !.batch.drop = all]
  <2>1. PICK own, all : Return(c) \/ Continue(c, next(own, all))
      BY <1>8 DEF DropTable
  <2>2. call.op = "drop table" /\ call.step = "lock"
      BY <1>8 DEF DropTable, Doing
  <2>3. PutsNone(call)
      BY <1>5, <2>2 DEF Reindexing
  <2>4. /\ next(own, all).op = call.op /\ next(own, all).step = "batch" /\ next(own, all).table = t
        /\ "putEntries" \in DOMAIN next(own, all).batch
        /\ next(own, all).batch.putEntries = call.batch.putEntries
      BY <1>1, <2>3 DEF Shaped, Fields, PutsNone
  <2>5. ListedIn(byName, t) = {}
      BY <1>1, <2>2 DEF Fits, AloneFits, DropperAlone
  <2> HIDE DEF next
  <2>6. PutsNone(next(own, all))
      BY <2>3, <2>4 DEF PutsNone
  <2>7. Fits(next(own, all))
      BY <2>2, <2>4, <2>5, <2>6, DropperFitsAlone DEF Fits
  <2> QED BY <1>3, <1>4, <2>1, <2>4, <2>7
<1>9. CASE CheckTable(c)
  <2> DEFINE next == [call EXCEPT !.step = "create"]
  <2>1. call.op = "create index" /\ (Return(c) \/ Continue(c, next))
      BY <1>9 DEF CheckTable, Doing
  <2>2. next.op = call.op /\ next.step = "create" /\ next.batch = call.batch
      BY <1>1 DEF Shaped, Fields
  <2> HIDE DEF next
  <2>3. PutsNone(next)
      BY <1>5, <2>1, <2>2 DEF Reindexing, PutsNone
  <2>4. Fits(next)
    <3>1. next.op = "create index" /\ next.step = "create"
        BY <2>1, <2>2
    <3> QED BY <2>3, <3>1, IndexerAlone DEF Fits
  <2> QED BY <1>3, <1>4, <2>1, <2>2, <2>4
<1> QED BY <1>6, <1>7, <1>8, <1>9

-----------------------------------------------------------------------------
(* BatchWrite, when nobody else is at work.                                 *)

\* The call, its batch and what its table's rows become, for a write that succeeds.
Written(c, own, drop, put, gone, come, listed, violated) ==
    LET call == sqlCall[c]
        d == NextChange(call)
        t == call.table
    IN
    /\ own = RowsIn(tables, rows, t)
    /\ listed = ListedIn(byName, t) /\ violated \in BOOLEAN
    /\ drop = {d.from} \ {0, d.to} /\ put = {d.to} \ {0}
    /\ gone = IF d.from = 0 THEN {} ELSE RowOps(listed, d.old, d.from)
    /\ come = IF d.to = 0 \/ violated THEN {} ELSE RowOps(listed, d.new, d.to)
    /\ t \in Table /\ TodoFits(call, own) /\ d \in call.todo
    /\ d.to \in {0, d.from} \/ own[d.to] = NoRow
    /\ ~violated /\ d.to # 0 => FreeIn(d, listed, entries)
    /\ \A u \in Table \ {t} : RowsIn(tables', rows', u) = RowsIn(tables, rows, u)
    /\ RowsIn(tables', rows', t) = [r \in RowId |-> IF r \in put THEN d.new ELSE IF r \in drop THEN NoRow ELSE own[r]]
    /\ entries' = (entries \ gone) \cup come
    /\ unlisted' = (unlisted \ ((IF violated THEN {} ELSE listed) \X {d.to})) \cup
                       {<<i, d.to>> : i \in listed \ (IF violated THEN {} ELSE listed)}
    /\ own \in [RowId -> Row \cup {NoRow}] /\ rows' \in [Prefix -> [RowId -> Row \cup {NoRow}]]
    /\ strays' = {}

\* A batch is written in full.
Writes(c) ==
    LET call == sqlCall[c]
        d == NextChange(call)
        p == call.prefix
    IN
    /\ call.step = "write"
    /\ rows' = RowsAfter(p, call.batch, d.new)
    /\ entries' = AfterBatch(call.batch)
    /\ unlisted' = IF Gone(p) THEN unlisted \cup {<<e[1], e[3]>> : e \in call.batch.dropEntries}
                   ELSE (unlisted \ (call.seen \X {d.to})) \cup
                            {<<i, d.to>> : i \in ListByTable(call.table) \ call.seen}
    /\ strays' = strays \cup {<<p, r>> : r \in IF Gone(p) THEN call.batch.put ELSE {}}
    /\ AfterRow(c)
    /\ UNCHANGED <<tables, byName, indexMeta, unbuilt, unclean>>

\* The table is there, so the write is to its rows.
LEMMA WritesOwnRows ==
    ASSUME PrefixInv, AloneInv, NEW c \in SQLClient, Writes(c)
    PROVE  \E own, drop, put, gone, come, listed, violated : Written(c, own, drop, put, gone, come, listed, violated)
<1> DEFINE call == sqlCall[c]
           t == call.table
           p == call.prefix
           own == RowsIn(tables, rows, t)
           d == NextChange(call)
           listed == ListedIn(byName, t)
<1>1. /\ Shaped(call) /\ call.step = "write" /\ Writer(call) /\ Alone(c) /\ t \in Table
      /\ WriterAlone(call, tables, rows, byName, entries)
    BY DEF PrefixInv, Shapes, AloneInv, CallAlone, AloneFits, Writes, Writer, IndexInv, CallsFit, CallFits, WriterFits
<1>2. /\ TodoFits(call, own) /\ tables[t] # NoTable /\ p = tables[t].prefix /\ call.todo # {}
      /\ d.to \in {0, d.from} \/ own[d.to] = NoRow
      /\ CheckedBatch(call, listed, entries)
    BY <1>1 DEF WriterAlone
<1>3. d \in call.todo
    BY <1>2, NextIsOne
<1>4. PICK violated \in BOOLEAN :
          /\ call.batch = BatchOf(d, listed, violated)
          /\ call.seen = IF violated THEN {} ELSE listed
          /\ ~violated /\ d.to # 0 => FreeIn(d, listed, entries)
    BY <1>2 DEF CheckedBatch
<1> DEFINE drop == {d.from} \ {0, d.to}
           put == {d.to} \ {0}
           gone == IF d.from = 0 THEN {} ELSE RowOps(listed, d.old, d.from)
           come == IF d.to = 0 \/ violated THEN {} ELSE RowOps(listed, d.new, d.to)
           seen == IF violated THEN {} ELSE listed
<1>5. call.batch.drop = drop /\ call.batch.put = put /\ call.batch.dropEntries = gone /\ call.batch.putEntries = come
    BY <1>4 DEF BatchOf
<1>6. ~Gone(p)
  <2>1. \A e \in SQLClient : sqlCall[e].op # "drop table"
    <3>1. NoStatement.op # "drop table"
        BY DEF NoStatement
    <3>2. call.op # "drop table"
        BY <1>1 DEF Writer
    <3> QED BY <1>1, <3>1, <3>2 DEF Alone
  <2> QED BY <1>1, <1>2, <2>1 DEF Gone, Exists, Doing
<1>7. p \in Prefix /\ own = rows[p]
    BY <1>1, <1>2 DEF RowsIn, PrefixInv, Shapes, Metas, TableMeta
<1>8. own \in [RowId -> Row \cup {NoRow}] /\ rows \in [Prefix -> [RowId -> Row \cup {NoRow}]] /\ strays = {}
    BY <1>7 DEF AloneInv, StoreAlone
<1>9. d.new \in Row
    BY <1>2, <1>3 DEF TodoFits, ChangeFits
<1>10. ListByTable(t) = listed
    BY DEF ListByTable, ListedIn
<1>11. /\ entries' = (entries \ gone) \cup come
       /\ strays' = {}
       /\ unlisted' = (unlisted \ (seen \X {d.to})) \cup {<<i, d.to>> : i \in listed \ seen}
       /\ UNCHANGED tables
    BY <1>4, <1>5, <1>6, <1>8, <1>10 DEF Writes, AfterBatch
<1>12. rows' = [rows EXCEPT ![p] = [r \in RowId |-> IF r \in put THEN d.new ELSE IF r \in drop THEN NoRow ELSE rows[p][r]]]
    BY <1>5 DEF Writes, RowsAfter
<1> DEFINE after == [r \in RowId |-> IF r \in put THEN d.new ELSE IF r \in drop THEN NoRow ELSE own[r]]
<1>13. after \in [RowId -> Row \cup {NoRow}]
    BY <1>8, <1>9
<1>14. rows' = [rows EXCEPT ![p] = after]
    BY <1>7, <1>12
<1>15. rows' \in [Prefix -> [RowId -> Row \cup {NoRow}]] /\ rows'[p] = after
    BY <1>7, <1>8, <1>13, <1>14
<1>16. RowsIn(tables', rows', t) = after
    BY <1>2, <1>11, <1>15 DEF RowsIn
<1>17. ASSUME NEW u \in Table \ {t} PROVE RowsIn(tables', rows', u) = RowsIn(tables, rows, u)
  <2>1. CASE tables[u] = NoTable
      BY <1>11, <2>1 DEF RowsIn
  <2>2. CASE tables[u] # NoTable
    <3>1. tables[u].prefix # p /\ tables[u].prefix \in Prefix
        BY <1>1, <1>2, <2>2 DEF PrefixInv, Allotted, Exists, Shapes, Metas, TableMeta
    <3>2. rows'[tables[u].prefix] = rows[tables[u].prefix]
        BY <1>8, <1>14, <3>1
    <3> QED BY <1>11, <2>2, <3>2 DEF RowsIn
  <2> QED BY <2>1, <2>2
<1>18. Written(c, own, drop, put, gone, come, listed, violated)
  <2> QED BY <1>1, <1>2, <1>3, <1>4, <1>8, <1>11, <1>15, <1>16, <1>17 DEF Written
<1> QED BY <1>18

\* What an index says of the row that was written, and of every other row, is true after it.
LEMMA WrittenIsTrue ==
    ASSUME AloneInv, NEW c \in SQLClient, UNCHANGED <<byName, unclean>>,
           NEW own, NEW drop, NEW put, NEW gone, NEW come, NEW listed, NEW violated,
           Written(c, own, drop, put, gone, come, listed, violated)
    PROVE  entries' \subseteq Entry /\ NoFalseEntry'
<1> DEFINE call == sqlCall[c]
           t == call.table
           d == NextChange(call)
           after == RowsIn(tables', rows', t)
<1>1. ChangeFits(call, d, own)
    BY DEF Written, TodoFits
<1>2. listed \subseteq Index /\ \A i \in listed : i \in byName /\ IndexTable[i] = t
    BY DEF Written, ListedIn, AloneInv, IndexInv, IndexesMirrored
<1>3. \A e \in come : /\ e[1] \in listed /\ e = <<e[1], Folded[d.new], d.to>>
                      /\ d.to # 0 /\ d.new # Missing
    BY DEF Written, RowOps, KeysForValue
<1>4. \A r \in RowId : after[r] = IF r \in put THEN d.new ELSE IF r \in drop THEN NoRow ELSE own[r]
    BY DEF Written
<1>5. \A i \in listed : d.from # 0 /\ d.old \in Value => <<i, Folded[d.old], d.from>> \in gone
    BY TablesAssumption DEF Written, RowOps, KeysForValue
<1>6. d.new # Missing => d.new \in Value
    BY <1>1 DEF ChangeFits, Row
<1>7. entries' = (entries \ gone) \cup come /\ put = {d.to} \ {0} /\ drop = {d.from} \ {0, d.to}
    BY DEF Written
<1>8. /\ \A u \in Table \ {t} : RowsIn(tables', rows', u) = RowsIn(tables, rows, u)
      /\ own = RowsIn(tables, rows, t) /\ t \in Table /\ listed = ListedIn(byName, t)
      /\ d.to \in {0, d.from} \/ own[d.to] = NoRow
    BY DEF Written
<1> HIDE DEF d, after, t
<1>9. entries' \subseteq Entry
  <2>1. \A e \in come : e \in Entry
    <3> SUFFICES ASSUME NEW e \in come PROVE e \in Entry
        OBVIOUS
    <3>1. d.to \in RowId /\ d.new \in Value /\ e[1] \in Index /\ e = <<e[1], Folded[d.new], d.to>>
        BY <1>1, <1>2, <1>3, <1>6 DEF ChangeFits
    <3>2. Folded[d.new] \in Value
        BY <3>1, TablesAssumption
    <3> QED BY <3>1, <3>2 DEF Entry
  <2> QED BY <1>7, <2>1 DEF AloneInv, StoreAlone
<1>10. ASSUME NEW e \in come PROVE TrueIn(e, tables', rows', byName')
  <2>1. /\ e[1] \in byName' /\ IndexTable[e[1]] = t /\ e[2] = Folded[d.new] /\ e[3] = d.to
        /\ d.to \in RowId /\ d.to \in put /\ d.new \in Value
      BY <1>1, <1>2, <1>3, <1>6, <1>7 DEF ChangeFits
  <2>2. after[d.to] = d.new
      BY <1>4, <2>1
  <2> QED BY <2>1, <2>2 DEF TrueIn, after
<1>11. ASSUME NEW e \in entries, e \notin gone, e[1] \notin unclean PROVE TrueIn(e, tables', rows', byName')
  <2>1. TrueIn(e, tables, rows, byName) /\ e \in Entry
      BY <1>11 DEF AloneInv, NoFalseEntry, StoreAlone
  <2>2. IndexTable[e[1]] \in Table /\ e[3] \in RowId /\ e = <<e[1], e[2], e[3]>> /\ e[1] \in byName
      BY <2>1, TablesAssumption DEF Entry, TrueIn
  <2>3. CASE IndexTable[e[1]] # t
      BY <1>8, <2>1, <2>2, <2>3 DEF TrueIn
  <2>4. CASE IndexTable[e[1]] = t
    <3>1. e[1] \in listed /\ own[e[3]] \in Value /\ Folded[own[e[3]]] = e[2]
        BY <1>8, <2>1, <2>2, <2>4 DEF TrueIn, ListedIn
    <3>2. e[3] # 0 /\ own[e[3]] # NoRow
        BY <2>2, <3>1, TablesAssumption DEF Row
    <3>3. e[3] # d.from
      <4> SUFFICES ASSUME e[3] = d.from PROVE FALSE
          OBVIOUS
      <4>1. d.from # 0 /\ own[d.from] = d.old
          BY <1>1, <3>2 DEF ChangeFits
      <4>2. e = <<e[1], Folded[d.old], d.from>> /\ d.old \in Value
          BY <2>2, <3>1, <4>1
      <4> QED BY <1>5, <1>11, <3>1, <4>1, <4>2
    <3>4. e[3] # d.to
        BY <1>8, <3>2, <3>3
    <3>5. after[e[3]] = own[e[3]]
        BY <1>4, <1>7, <2>2, <3>3, <3>4
    <3> QED BY <2>2, <2>4, <3>1, <3>5 DEF TrueIn, after
  <2> QED BY <2>3, <2>4
<1>12. NoFalseEntry'
    BY <1>7, <1>10, <1>11 DEF NoFalseEntry
<1> QED BY <1>9, <1>12

\* A row that has its value in a UNIQUE index has it alone: the check was against entries, and
\* every listed row has one.
LEMMA WrittenStaysApart ==
    ASSUME AloneInv, UniqueApart, NEW c \in SQLClient, UNCHANGED <<byName, unclean, unbuilt>>,
           NEW own, NEW drop, NEW put, NEW gone, NEW come, NEW listed, NEW violated,
           Written(c, own, drop, put, gone, come, listed, violated)
    PROVE  UniqueApart'
<1> DEFINE call == sqlCall[c]
           t == call.table
           d == NextChange(call)
           after == RowsIn(tables', rows', t)
           seen == IF violated THEN {} ELSE listed
<1>1. \A r \in RowId : after[r] = IF r \in put THEN d.new ELSE IF r \in drop THEN NoRow ELSE own[r]
    BY DEF Written
<1>2. put = {d.to} \ {0} /\ drop = {d.from} \ {0, d.to}
    BY DEF Written
<1>3. /\ \A u \in Table \ {t} : RowsIn(tables', rows', u) = RowsIn(tables, rows, u)
      /\ own = RowsIn(tables, rows, t) /\ t \in Table /\ listed = ListedIn(byName, t)
      /\ unlisted' = (unlisted \ (seen \X {d.to})) \cup {<<i, d.to>> : i \in listed \ seen}
    BY DEF Written
<1>4. ~violated /\ d.to # 0 => FreeIn(d, listed, entries)
    BY DEF Written
<1>5. strays = {}
    BY DEF AloneInv, StoreAlone
<1> HIDE DEF d, after, t, seen
<1> SUFFICES ASSUME NEW i \in Watched' PROVE ApartFor(i, tables', rows', unlisted')
    BY ApartThen
<1>6. i \in Watched /\ ApartFor(i, tables, rows, unlisted)
    BY ApartNow DEF Watched
<1>7. i \in Index /\ i \in byName /\ i \in UniqueIndexes /\ i \notin unbuilt \cup unclean
    BY <1>6, TablesAssumption DEF Watched
<1>8. CASE IndexTable[i] # t
  <2>1. IndexTable[i] \in Table /\ i \notin listed /\ i \notin seen
      BY <1>3, <1>7, <1>8, TablesAssumption DEF ListedIn, seen
  <2>2. RowsIn(tables', rows', IndexTable[i]) = RowsIn(tables, rows, IndexTable[i])
      BY <1>3, <1>8, <2>1
  <2>3. \A r : <<i, r>> \in unlisted => <<i, r>> \in unlisted'
      BY <1>3, <2>1
  <2> QED BY <1>6, <2>2, <2>3 DEF ApartFor
<1>9. CASE IndexTable[i] = t
  <2>1. i \in listed
      BY <1>3, <1>7, <1>9 DEF ListedIn
  <2>2. ASSUME NEW s \in RowId, s # d.to, after[s] \in Value, <<i, s>> \notin unlisted'
        PROVE  /\ own[s] = after[s] /\ <<i, s>> \notin unlisted
               /\ <<i, Folded[after[s]], s>> \in entries
    <3>1. s \notin put /\ own[s] = after[s]
        BY <1>1, <1>2, <2>2, TablesAssumption DEF Row
    <3>2. <<i, s>> \notin unlisted
        BY <1>3, <2>2
    <3>3. tables[t] # NoTable /\ rows[tables[t].prefix][s] = after[s]
      <4>1. tables[t] = NoTable => own[s] = NoRow
          BY <1>3 DEF RowsIn
      <4>2. tables[t] # NoTable
          BY <2>2, <3>1, <4>1, TablesAssumption DEF Row
      <4> QED BY <1>3, <3>1, <4>2 DEF RowsIn
    <3>4. ASSUME <<i, Folded[after[s]], s>> \notin entries PROVE FALSE
      <4>1. Owes(i, s, after[s], tables, rows, unlisted, strays, entries)
          BY <1>5, <1>9, <3>2, <3>3, <3>4 DEF Owes
      <4>2. <<i, s, after[s]>> \in Owing
          BY <1>7, <2>2, <4>1 DEF Owing, OwingIn
      <4> QED BY <1>7, <4>2 DEF AloneInv, IndexInv, Completed
    <3> QED BY <3>1, <3>2, <3>4
  <2>3. ASSUME d.to \in RowId, after[d.to] \in Value, <<i, d.to>> \notin unlisted',
               NEW s \in RowId, s # d.to, after[s] \in Value, <<i, s>> \notin unlisted'
        PROVE  Folded[after[s]] # Folded[after[d.to]]
    <3>1. d.to # 0 /\ after[d.to] = d.new
        BY <1>1, <1>2, <2>3, TablesAssumption
    <3>2. ~violated
      <4>1. i \in seen
          BY <1>3, <2>1, <2>3
      <4> QED BY <4>1 DEF seen
    <3>3. d.new # Missing
        BY <2>3, <3>1, TablesAssumption
    <3>4. <<i, Folded[d.new], s>> \notin entries
        BY <1>4, <1>7, <2>1, <2>3, <3>1, <3>2, <3>3 DEF FreeIn
    <3>5. <<i, Folded[after[s]], s>> \in entries
        BY <2>2, <2>3
    <3> QED BY <3>1, <3>4, <3>5
  <2>4. ASSUME NEW r \in RowId, NEW s \in RowId, r # s, after[r] \in Value, after[s] \in Value,
               <<i, r>> \notin unlisted', <<i, s>> \notin unlisted'
        PROVE  Folded[after[r]] # Folded[after[s]]
    <3>1. CASE r = d.to
        BY <2>3, <2>4, <3>1
    <3>2. CASE s = d.to
        BY <2>3, <2>4, <3>2
    <3>3. CASE r # d.to /\ s # d.to
      <4>1. own[r] = after[r] /\ <<i, r>> \notin unlisted /\ own[s] = after[s] /\ <<i, s>> \notin unlisted
          BY <2>2, <2>4, <3>3
      <4> QED BY <1>3, <1>6, <1>9, <2>4, <4>1 DEF ApartFor
    <3> QED BY <3>1, <3>2, <3>3
  <2> QED BY <1>9, <2>4 DEF ApartFor, after
<1> QED BY <1>8, <1>9

\* BatchWrite keeps what the indexes say true, and the rows that are still to be changed are
\* as the statement found them.
LEMMA WriteRowAlone ==
    ASSUME PrefixInv, AloneInv, NEW c \in SQLClient, WriteRow(c)
    PROVE  Kept
<1> DEFINE call == sqlCall[c]
           t == call.table
           d == NextChange(call)
           left == call.todo \ {d}
           later == [call EXCEPT !.step = "key", !.todo = left]
<1>1. /\ Shaped(call) /\ call.step = "write" /\ Writer(call)
      /\ WriterAlone(call, tables, rows, byName, entries)
    BY DEF PrefixInv, Shapes, AloneInv, CallAlone, AloneFits, WriteRow, Writer, IndexInv, CallsFit, CallFits, WriterFits
<1>2. UNCHANGED <<tables, byName, indexMeta, unbuilt, unclean>>
    BY DEF WriteRow, schema, indexes
<1>3. CASE Return(c) /\ UNCHANGED <<rows, entries, unlisted, strays>>
    BY <1>1, <1>2, <1>3, ReturnsAlone
<1>4. CASE Writes(c)
  <2>1. PICK own, drop, put, gone, come, listed, violated : Written(c, own, drop, put, gone, come, listed, violated)
      BY <1>4, WritesOwnRows
  <2>2. NoFalseEntry' /\ entries' \subseteq Entry
      BY <1>2, <2>1, WrittenIsTrue
  <2>3. UniqueApart => UniqueApart'
      BY <1>2, <2>1, WrittenStaysApart
  <2>4. StoreAlone'
      BY <1>2, <2>1, <2>2 DEF Written, AloneInv, StoreAlone
  <2>5. Return(c) \/ (left # {} /\ Continue(c, later))
      BY <1>4 DEF Writes, AfterRow
  <2> DEFINE after == RowsIn(tables', rows', t)
  <2>6. \A r \in RowId : after[r] = IF r \in put THEN d.new ELSE IF r \in drop THEN NoRow ELSE own[r]
      BY <2>1 DEF Written
  <2>7. /\ put = {d.to} \ {0} /\ drop = {d.from} \ {0, d.to} /\ TodoFits(call, own) /\ d \in call.todo
        /\ d.to \in {0, d.from} \/ own[d.to] = NoRow
      BY <2>1 DEF Written
  <2>8. tables[t] # NoTable /\ call.prefix = tables[t].prefix
      BY <1>1 DEF WriterAlone
  <2> HIDE DEF left
  <2>9. /\ later.op = call.op /\ later.step = "key" /\ later.table = t /\ later.todo = left
        /\ later.prefix = call.prefix
      BY <1>1 DEF Shaped, Fields
  <2> HIDE DEF later
  <2> HIDE DEF after, d
  <2>10. ASSUME NEW e \in left PROVE ChangeFits(later, e, after)
    <3>1. e \in call.todo /\ e # d
        BY <2>10 DEF left, d
    <3>2. ChangeFits(call, e, own)
        BY <2>7, <3>1 DEF TodoFits
    <3>3. ASSUME e.from # 0 PROVE after[e.from] = own[e.from]
      <4>1. e.from \in RowId /\ own[e.from] \in Row
          BY <3>2, <3>3 DEF ChangeFits
      <4>2. own[e.from] # NoRow
          BY <4>1, TablesAssumption
      <4>3. e.from # d.from
          BY <2>7, <3>1, <3>3 DEF TodoFits
      <4>4. e.from # d.to
          BY <2>7, <3>3, <4>2, <4>3
      <4> QED BY <2>6, <2>7, <4>1, <4>3, <4>4
    <3> QED BY <2>9, <3>2, <3>3 DEF ChangeFits
  <2>11. TodoFits(later, after)
    <3>1. left \subseteq call.todo
        BY DEF left
    <3> QED BY <2>7, <2>9, <2>10, <3>1 DEF TodoFits
  <2>12. left # {} => AloneFits(later, tables', rows', byName', entries', unlisted', unclean')
      BY <1>1, <1>2, <2>8, <2>9, <2>11 DEF AloneFits, WriterAlone, FillerAlone, DropperAlone, EraserAlone, Reindexing, Writer, after
  <2>13. CallAlone'
    <3>1. CASE Return(c)
        BY <1>1, <3>1, IdleAlone, AloneMoves DEF Return, AloneInv
    <3>2. CASE left # {} /\ Continue(c, later)
        BY <1>1, <2>9, <2>12, <3>2, AloneMoves DEF AloneInv
    <3> QED BY <2>5, <3>1, <3>2
  <2> QED BY <2>2, <2>3, <2>4, <2>13 DEF Kept
<1> QED BY <1>2, <1>3, <1>4 DEF WriteRow, Writes

-----------------------------------------------------------------------------
(* Tables that come, change and go, when nobody else is at work.            *)

\* The statement ends, and no table has other rows than before.
LEMMA TablesMoveAlone ==
    ASSUME PrefixInv, AloneInv, NEW c \in SQLClient, sqlCall[c].step # "idle", Return(c), SameRows,
           UNCHANGED <<rows, entries, byName, indexMeta, unlisted, unbuilt, unclean, strays>>
    PROVE  Kept
<1>1. CallAlone'
    BY IdleAlone, AloneMoves DEF Return, AloneInv
<1>2. StoreAlone'
    BY DEF AloneInv, StoreAlone
<1>3. NoFalseEntry'
  <2>1. \A e \in entries' : e[1] \notin unclean' => e \in entries /\ e[1] \notin unclean /\ e[1] \in byName'
      BY DEF AloneInv, NoFalseEntry, TrueIn
  <2> QED BY <2>1, TruthStays DEF AloneInv
<1>4. UniqueApart => UniqueApart'
    BY ApartStays DEF Watched
<1> QED BY <1>1, <1>2, <1>3, <1>4 DEF Kept

\* A new table is empty, and so is one whose metadata go; ALTER TABLE leaves the rows.
LEMMA TableStepsAlone ==
    ASSUME PrefixInv, AloneInv, NEW c \in SQLClient, CreateTable(c) \/ AlterTable(c) \/ DropMeta(c)
    PROVE  Kept
<1> DEFINE call == sqlCall[c]
           t == call.table
           None == [r \in RowId |-> NoRow]
<1>1. /\ call.step # "idle" /\ Return(c)
      /\ UNCHANGED <<rows, entries, byName, indexMeta, unlisted, unbuilt, unclean, strays>>
    BY DEF CreateTable, AlterTable, DropMeta, Doing, indexes, sqlHistory
<1>2. strays = {} /\ rows \in [Prefix -> [RowId -> Row \cup {NoRow}]]
    BY DEF AloneInv, StoreAlone
<1>3. tables \in [Table -> Metas]
    BY DEF PrefixInv, Shapes
<1>4. ASSUME NEW p \in Prefix, \A r \in RowId : rows[p][r] = NoRow PROVE rows[p] = None
    BY <1>2, <1>4
<1>5. ASSUME NEW u \in Table, tables'[u] = tables[u] PROVE RowsIn(tables', rows', u) = RowsIn(tables, rows, u)
    BY <1>1, <1>5 DEF RowsIn
<1>6. CASE UNCHANGED tables
    BY <1>1, <1>5, <1>6, TablesMoveAlone DEF SameRows
<1>7. CASE CreateTable(c) /\ tables' # tables
  <2> DEFINE meta == [prefix |-> nextPrefix, column |-> call.kind]
  <2>1. ~Exists(t) /\ ~(nextPrefix > MaxPrefix) /\ tables' = [tables EXCEPT ![t] = meta]
      BY <1>7 DEF CreateTable, schema
  <2>2. nextPrefix \in Prefix /\ meta.prefix = nextPrefix /\ meta \in TableMeta
    <3>1. nextPrefix \in Prefix
        BY <2>1, TablesAssumption DEF PrefixInv, Shapes, Prefix
    <3>2. call.kind \in ColumnKind
        BY DEF PrefixInv, Shapes, Shaped
    <3> QED BY <3>1, <3>2 DEF TableMeta
  <2>3. \A u \in Table : Exists(u) => tables[u].prefix # nextPrefix
    <3> SUFFICES ASSUME NEW u \in Table, Exists(u) PROVE tables[u].prefix # nextPrefix
        OBVIOUS
    <3>1. tables[u].prefix < nextPrefix /\ tables[u].prefix \in Nat
        BY DEF PrefixInv, Allotted, Shapes, Metas, TableMeta, Exists, Prefix
    <3> QED BY <2>2, <3>1 DEF Prefix
  <2>4. rows[nextPrefix] = None
    <3>1. \A r \in RowId : rows[nextPrefix][r] = NoRow
        BY <1>2, <2>2, <2>3 DEF PrefixInv, Vacated
    <3> QED BY <1>4, <2>2, <3>1
  <2> HIDE DEF meta, t
  <2>5. ASSUME NEW u \in Table PROVE RowsIn(tables', rows', u) = RowsIn(tables, rows, u)
    <3>1. CASE u = t
      <4>1. RowsIn(tables, rows, u) = None
          BY <2>1, <3>1 DEF RowsIn, Exists
      <4>2. tables'[u] = meta /\ meta # NoTable
          BY <1>3, <2>1, <2>2, <3>1, TablesAssumption
      <4>3. RowsIn(tables', rows', u) = None
          BY <1>1, <2>2, <2>4, <4>2 DEF RowsIn
      <4> QED BY <4>1, <4>3
    <3>2. CASE u # t
      <4>1. tables'[u] = tables[u]
          BY <1>3, <2>1, <3>2
      <4> QED BY <1>5, <4>1
    <3> QED BY <3>1, <3>2
  <2> QED BY <1>1, <2>5, TablesMoveAlone DEF SameRows
<1>8. CASE AlterTable(c) /\ tables' # tables
  <2>1. Exists(t) /\ tables' = [tables EXCEPT ![t].column = call.kind]
      BY <1>8 DEF AlterTable
  <2> HIDE DEF t
  <2>2. ASSUME NEW u \in Table PROVE RowsIn(tables', rows', u) = RowsIn(tables, rows, u)
    <3>1. CASE u = t
      <4>1. tables[u] \in TableMeta
          BY <1>3, <2>1, <3>1 DEF Metas, Exists
      <4>2. tables'[u] = [tables[u] EXCEPT !.column = call.kind]
          BY <1>3, <2>1, <3>1
      <4>3. tables'[u].prefix = tables[u].prefix /\ tables'[u] \in TableMeta
        <5>1. call.kind \in ColumnKind
            BY DEF PrefixInv, Shapes, Shaped
        <5> HIDE DEF call
        <5> QED BY <4>1, <4>2, <5>1 DEF TableMeta
      <4>4. tables'[u] # NoTable /\ tables[u] # NoTable
          BY <2>1, <3>1, <4>3, TablesAssumption DEF Exists
      <4> QED BY <1>1, <4>3, <4>4 DEF RowsIn
    <3>2. CASE u # t
      <4>1. tables'[u] = tables[u]
          BY <1>3, <2>1, <3>2
      <4> QED BY <1>5, <4>1
    <3> QED BY <3>1, <3>2
  <2> QED BY <1>1, <2>2, TablesMoveAlone DEF SameRows
<1>9. CASE DropMeta(c) /\ tables' # tables
  <2>1. Dropping(c) /\ call.step = "meta" /\ tables' = [tables EXCEPT ![t] = NoTable]
      BY <1>9 DEF DropMeta, Doing, Dropping
  <2>2. /\ t \in Table /\ Exists(t) /\ tables[t].prefix = call.prefix
        /\ \A r \in RowId : rows[call.prefix][r] = NoRow
      BY <1>2, <2>1 DEF PrefixInv, Emptied
  <2>3. RowsIn(tables, rows, t) = None
    <3>1. call.prefix \in Prefix
        BY <1>3, <2>2 DEF Exists, Metas, TableMeta
    <3> QED BY <1>4, <2>2, <3>1 DEF RowsIn, Exists
  <2> HIDE DEF t
  <2>4. ASSUME NEW u \in Table PROVE RowsIn(tables', rows', u) = RowsIn(tables, rows, u)
    <3>1. CASE u = t
      <4>1. tables'[u] = NoTable
          BY <1>3, <2>1, <3>1
      <4> QED BY <2>3, <3>1, <4>1 DEF RowsIn
    <3>2. CASE u # t
      <4>1. tables'[u] = tables[u]
          BY <1>3, <2>1, <3>2
      <4> QED BY <1>5, <4>1
    <3> QED BY <3>1, <3>2
  <2> QED BY <1>1, <2>4, TablesMoveAlone DEF SameRows
<1> QED BY <1>6, <1>7, <1>8, <1>9

\* No index of the table is left when its rows go.
LEMMA DropRowsAlone ==
    ASSUME PrefixInv, AloneInv, NEW c \in SQLClient, DropRows(c)
    PROVE  Kept
<1> DEFINE call == sqlCall[c]
           t == call.table
           p == call.prefix
           next == [call EXCEPT !.step = "meta"]
<1>1. /\ Shaped(call) /\ call.op = "drop table" /\ call.step = "batch" /\ Dropping(c)
      /\ AloneFits(call, tables, rows, byName, entries, unlisted, unclean)
    BY DEF PrefixInv, Shapes, AloneInv, CallAlone, DropRows, Doing, Dropping
<1>2. UNCHANGED <<entries, tables, byName, indexMeta, unlisted, unbuilt, unclean, strays>>
    BY DEF DropRows, sqlHistory
<1>3. CASE Return(c) /\ UNCHANGED rows
    BY <1>1, <1>2, <1>3, ReturnsAlone
<1>4. CASE rows' = RowsAfter(p, call.batch, NoRow) /\ Continue(c, next)
  <2>1. ListedIn(byName, t) = {} /\ PutsNone(call)
      BY <1>1 DEF AloneFits, DropperAlone, EraserAlone, Reindexing
  <2>2. t \in Table /\ Exists(t) /\ tables[t].prefix = p
      BY <1>1 DEF PrefixInv, Emptied
  <2> DEFINE after == [r \in RowId |-> IF r \in call.batch.put THEN NoRow
                                       ELSE IF r \in call.batch.drop THEN NoRow ELSE rows[p][r]]
  <2>3. rows' = [rows EXCEPT ![p] = after]
      BY <1>4 DEF RowsAfter
  <2>4. p \in Prefix /\ rows \in [Prefix -> [RowId -> Row \cup {NoRow}]]
      BY <2>2 DEF PrefixInv, Shapes, Exists, Metas, TableMeta, AloneInv, StoreAlone
  <2>5. after \in [RowId -> Row \cup {NoRow}]
      BY <2>4
  <2> HIDE DEF after
  <2>6. StoreAlone'
      BY <1>2, <2>3, <2>4, <2>5 DEF AloneInv, StoreAlone
  <2>7. ASSUME NEW u \in Table \ {t} PROVE RowsIn(tables', rows', u) = RowsIn(tables, rows, u)
    <3>1. CASE tables[u] = NoTable
        BY <1>2, <3>1 DEF RowsIn
    <3>2. CASE tables[u] # NoTable
      <4>1. tables[u].prefix # p /\ tables[u].prefix \in Prefix
          BY <2>2, <3>2 DEF PrefixInv, Allotted, Exists, Shapes, Metas, TableMeta
      <4> QED BY <1>2, <2>3, <2>4, <3>2, <4>1 DEF RowsIn
    <3> QED BY <3>1, <3>2
  <2>8. \A i \in byName : IndexTable[i] \in Table \ {t}
      BY <2>1, TablesAssumption DEF ListedIn, AloneInv, IndexInv, IndexesMirrored
  <2>9. NoFalseEntry'
    <3>1. ASSUME NEW e \in entries', e[1] \notin unclean' PROVE TrueIn(e, tables', rows', byName')
      <4>1. TrueIn(e, tables, rows, byName)
          BY <1>2, <3>1 DEF AloneInv, NoFalseEntry
      <4>2. IndexTable[e[1]] \in Table \ {t}
          BY <2>8, <4>1 DEF TrueIn
      <4> QED BY <1>2, <2>7, <4>1, <4>2 DEF TrueIn
    <3> QED BY <3>1 DEF NoFalseEntry
  <2>10. ASSUME UniqueApart PROVE UniqueApart'
    <3>1. ASSUME NEW i \in Watched' PROVE ApartFor(i, tables', rows', unlisted')
      <4>1. i \in Watched /\ i \in byName
          BY <1>2, <3>1 DEF Watched
      <4>2. ApartFor(i, tables, rows, unlisted)
          BY <2>10, <4>1, ApartNow
      <4>3. RowsIn(tables', rows', IndexTable[i]) = RowsIn(tables, rows, IndexTable[i])
          BY <2>7, <2>8, <4>1
      <4> QED BY <1>2, <4>2, <4>3 DEF ApartFor
    <3> QED BY <3>1, ApartThen
  <2>11. next.op = "drop table" /\ next.step = "meta" /\ next.table = t /\ next.batch = call.batch
      BY <1>1 DEF Shaped, Fields
  <2> HIDE DEF next
  <2>12. PutsNone(next) /\ ListedIn(byName', next.table) = {}
      BY <1>2, <2>1, <2>11 DEF PutsNone
  <2>13. AloneFits(next, tables', rows', byName', entries', unlisted', unclean')
      BY <2>11, <2>12, DropperFitsAlone
  <2>14. CallAlone'
      BY <1>1, <1>4, <2>11, <2>13, AloneMoves DEF AloneInv
  <2> QED BY <2>6, <2>9, <2>10, <2>14 DEF Kept
<1> QED BY <1>3, <1>4 DEF DropRows, next

\* A restart loads the same tables and at least the same indexes.
LEMMA CrashAlone ==
    ASSUME PrefixInv, AloneInv, SQLCrash
    PROVE  IndexesChangedAlone' /\ Kept
<1>1. /\ tables' = tableMeta /\ byName' = indexMeta /\ sqlCall' = [c \in SQLClient |-> NoStatement]
      /\ UNCHANGED <<rows, entries, indexMeta, unlisted, unbuilt, unclean, strays>>
    BY DEF SQLCrash, stored, sqlHistory
<1>2. NoStatement.op = "none" /\ NoStatement.step = "idle"
    BY DEF NoStatement
<1>3. IndexesChangedAlone'
    BY <1>1, <1>2 DEF IndexesChangedAlone, ChangesIndexes
<1>4. CallAlone'
    BY <1>1, <1>2, IdleAlone DEF CallAlone
<1>5. StoreAlone'
    BY <1>1 DEF AloneInv, StoreAlone
<1>6. SameRows
    BY <1>1 DEF SameRows, RowsIn, PrefixInv, Mirrored, Exists
<1>7. byName \subseteq byName' /\ indexMeta \ unclean \subseteq byName
    BY <1>1 DEF AloneInv, StoreAlone, IndexInv, IndexesMirrored
<1>8. NoFalseEntry'
  <2>1. \A e \in entries' : e[1] \notin unclean' => e \in entries /\ e[1] \notin unclean /\ e[1] \in byName'
      BY <1>1, <1>7 DEF AloneInv, NoFalseEntry, TrueIn
  <2> QED BY <1>6, <2>1, TruthStays DEF AloneInv
<1>9. UniqueApart => UniqueApart'
  <2>1. \A i \in Watched' : i \in Watched
      BY <1>1, <1>7 DEF Watched
  <2> QED BY <1>1, <1>6, <2>1, ApartStays
<1> QED BY <1>3, <1>4, <1>5, <1>8, <1>9 DEF Kept

-----------------------------------------------------------------------------
(* Indexes that come and go, when nobody else is at work.                   *)

\* The rows stay, and the call that goes on fits.
LEMMA IndexStepsAlone ==
    ASSUME PrefixInv, AloneInv, NEW c \in SQLClient, sqlCall[c].step # "idle", NEW call, Continue(c, call),
           call = NoStatement \/ call.step # "idle",
           AloneFits(call, tables', rows', byName', entries', unlisted', unclean'),
           UNCHANGED <<rows, tables, strays>>,
           entries' \subseteq Entry, byName' \subseteq indexMeta', NoFalseEntry', UniqueApart => UniqueApart'
    PROVE  Kept
<1>1. CallAlone'
    BY AloneMoves DEF AloneInv
<1>2. StoreAlone'
    BY DEF AloneInv, StoreAlone
<1> QED BY <1>1, <1>2 DEF Kept

\* Manager.Create: the index is not built.
LEMMA CreateIndexAlone ==
    ASSUME PrefixInv, AloneInv, NEW c \in SQLClient, NEW known \in BOOLEAN, CreateIndex(c, known)
    PROVE  Kept
<1> DEFINE call == sqlCall[c]
           i == call.index
           next == [call EXCEPT !.step = "scan"]
<1>1. /\ Shaped(call) /\ call.op = "create index" /\ call.step # "idle" /\ PutsNone(call)
    BY DEF PrefixInv, Shapes, AloneInv, CallAlone, AloneFits, EraserAlone, CreateIndex, Doing, Reindexing
<1>2. UNCHANGED <<rows, entries, tables, unclean, strays>>
    BY DEF CreateIndex, schema
<1>3. \/ /\ UNCHANGED <<byName, indexMeta, unbuilt, unlisted>>
         /\ Return(c) \/ Continue(c, next)
      \/ /\ indexMeta' = indexMeta \cup {i} /\ byName' = byName \cup {i} /\ unbuilt' = unbuilt \cup {i}
         /\ unlisted' = {u \in unlisted : u[1] # i}
         /\ Continue(c, next)
    BY DEF CreateIndex, indexes
<1>4. next.op = "create index" /\ next.step = "scan" /\ next.batch = call.batch
    BY <1>1 DEF Shaped, Fields
<1> HIDE DEF next
<1>5. PutsNone(next)
    BY <1>1, <1>4 DEF PutsNone
<1>6. AloneFits(next, tables', rows', byName', entries', unlisted', unclean')
    BY <1>4, <1>5, IndexerAlone
<1>7. SameRows
    BY <1>2 DEF SameRows
<1>8. byName' \subseteq indexMeta' /\ byName \subseteq byName' /\ entries' \subseteq Entry
    BY <1>2, <1>3 DEF AloneInv, StoreAlone
<1>9. NoFalseEntry'
  <2>1. \A e \in entries' : e[1] \notin unclean' => e \in entries /\ e[1] \notin unclean /\ e[1] \in byName'
      BY <1>2, <1>8 DEF AloneInv, NoFalseEntry, TrueIn
  <2> QED BY <1>7, <2>1, TruthStays DEF AloneInv
<1>10. UniqueApart => UniqueApart'
  <2>1. \A j \in Watched' : j \in Watched /\ \A r \in RowId : <<j, r>> \in unlisted => <<j, r>> \in unlisted'
      BY <1>2, <1>3 DEF Watched
  <2> QED BY <1>7, <2>1, ApartStays
<1>11. AloneFits(NoStatement, tables', rows', byName', entries', unlisted', unclean')
    BY IdleAlone
<1> QED BY <1>1, <1>2, <1>3, <1>4, <1>6, <1>8, <1>9, <1>10, <1>11, IndexStepsAlone DEF Return

\* The backfill takes all rows that it can name, and the others are not listed. When there is
\* none to take the index is built.
LEMMA ScanForIndexAlone ==
    ASSUME PrefixInv, AloneInv, NEW c \in SQLClient, ScanForIndex(c)
    PROVE  Kept
<1> DEFINE call == sqlCall[c]
           i == call.index
           t == IndexTable[i]
           p == tables[t].prefix
           own == RowsIn(tables, rows, t)
           todo == {Change(0, r, Missing, rows[p][r]) : r \in Backfilled(p)}
           next == [call EXCEPT !.step = "rebuild", !.todo = todo]
<1>1. /\ Shaped(call) /\ call.op = "create index" /\ call.step # "idle" /\ PutsNone(call)
    BY DEF PrefixInv, Shapes, AloneInv, CallAlone, AloneFits, EraserAlone, ScanForIndex, Doing, Reindexing
<1>2. UNCHANGED <<rows, entries, tables, byName, indexMeta, unclean, strays>>
    BY DEF ScanForIndex, stored
<1>3. unlisted' = unlisted \cup (IF Exists(t) THEN {i} \X {r \in RowId \ Textual : rows[p][r] # NoRow} ELSE {})
    BY DEF ScanForIndex, IndexedTable
<1>4. IF Exists(t) /\ Backfilled(p) # {} THEN Continue(c, next) /\ unbuilt' = unbuilt
                                          ELSE Return(c) /\ unbuilt' = unbuilt \ {i}
    BY DEF ScanForIndex, IndexedTable
<1>5. Exists(t) => own = rows[p]
    BY DEF RowsIn, Exists
<1>6. ~Exists(t) => \A r \in RowId : own[r] = NoRow
    BY DEF RowsIn, Exists
<1>7. Exists(t) => todo = {Change(0, r, Missing, own[r]) : r \in {s \in Textual : own[s] \in Value}}
    BY <1>5 DEF Backfilled
<1>8. \A r \in RowId \ Textual : own[r] # NoRow => <<i, r>> \in unlisted'
    BY <1>3, <1>5, <1>6
<1>9. ~(Exists(t) /\ Backfilled(p) # {}) => \A r \in Textual : own[r] \notin Value
    BY <1>5, <1>6, TablesAssumption DEF Backfilled, Row
<1> HIDE DEF todo
<1>10. /\ next.op = "create index" /\ next.step = "rebuild" /\ next.index = i /\ next.todo = todo
       /\ next.batch = call.batch
    BY <1>1 DEF Shaped, Fields
<1> HIDE DEF next
<1>11. RowsIn(tables', rows', t) = own
    BY <1>2
<1>12. Exists(t) => AloneFits(next, tables', rows', byName', entries', unlisted', unclean')
  <2>1. Exists(t) => FillerAlone(next, tables', rows', unlisted')
      BY <1>7, <1>8, <1>10, <1>11 DEF FillerAlone
  <2>2. PutsNone(next)
      BY <1>1, <1>10 DEF PutsNone
  <2> QED BY <1>10, <2>1, <2>2 DEF AloneFits, WriterAlone, DropperAlone, EraserAlone, Writer
<1>13. SameRows
    BY <1>2 DEF SameRows
<1>14. NoFalseEntry'
  <2>1. \A e \in entries' : e[1] \notin unclean' => e \in entries /\ e[1] \notin unclean /\ e[1] \in byName'
      BY <1>2 DEF AloneInv, NoFalseEntry, TrueIn
  <2> QED BY <1>13, <2>1, TruthStays DEF AloneInv
<1>15. ASSUME UniqueApart PROVE UniqueApart'
  <2>1. ASSUME NEW j \in Watched' PROVE ApartFor(j, tables', rows', unlisted')
    <3>1. CASE j \in Watched
      <4>1. ApartFor(j, tables, rows, unlisted)
          BY <1>15, <3>1, ApartNow
      <4> QED BY <1>2, <1>3, <4>1 DEF ApartFor
    <3>2. CASE j \notin Watched
      <4>1. j = i /\ ~(Exists(t) /\ Backfilled(p) # {})
          BY <1>2, <1>4, <2>1, <3>2 DEF Watched
      <4>2. \A r \in RowId : own[r] \in Value => <<i, r>> \in unlisted'
          BY <1>8, <1>9, <4>1, TablesAssumption DEF Row
      <4> QED BY <1>11, <4>1, <4>2 DEF ApartFor
    <3> QED BY <3>1, <3>2
  <2> QED BY <2>1, ApartThen
<1>16. entries' \subseteq Entry /\ byName' \subseteq indexMeta'
    BY <1>2 DEF AloneInv, StoreAlone
<1>17. CASE Exists(t) /\ Continue(c, next)
    BY <1>1, <1>2, <1>10, <1>12, <1>14, <1>15, <1>16, <1>17, IndexStepsAlone
<1>18. CASE Return(c)
    BY <1>1, <1>2, <1>14, <1>15, <1>16, <1>18, IdleAlone, IndexStepsAlone DEF Return
<1> QED BY <1>4, <1>17, <1>18

\* RebuildFromRows: the entries are of rows that are there, and no two of them have one value.
LEMMA RebuildAlone ==
    ASSUME PrefixInv, AloneInv, NEW c \in SQLClient, Rebuild(c)
    PROVE  Kept
<1> DEFINE call == sqlCall[c]
           i == call.index
           t == IndexTable[i]
           own == RowsIn(tables, rows, t)
           come == UNION {KeysForValue(i, d.new, d.to) : d \in call.todo}
           next == [call EXCEPT !.step = "forget"]
<1>1. /\ Shaped(call) /\ call.op = "create index" /\ call.step = "rebuild" /\ PutsNone(call)
      /\ FillerAlone(call, tables, rows, unlisted) /\ i \in Index /\ i \in byName
    BY DEF PrefixInv, Shapes, AloneInv, CallAlone, AloneFits, EraserAlone, Rebuild, Doing, Reindexing,
           IndexInv, CallsFit, CallFits, IndexerFits
<1>2. UNCHANGED <<rows, tables, byName, indexMeta, unlisted, unclean, strays>>
    BY DEF Rebuild, schema, indexes
<1>3. \/ (Return(c) \/ Continue(c, next)) /\ UNCHANGED <<entries, unbuilt>>
      \/ /\ ~Duplicates(i, call.todo) /\ Return(c)
         /\ entries' = entries \cup come /\ unbuilt' = unbuilt \ {i}
    BY <1>1 DEF Rebuild
<1>4. next.op = "create index" /\ next.step = "forget" /\ next.batch = call.batch
    BY <1>1 DEF Shaped, Fields
<1> HIDE DEF next
<1>5. AloneFits(next, tables, rows, byName, entries, unlisted, unclean)
  <2>1. PutsNone(next)
      BY <1>1, <1>4 DEF PutsNone
  <2> QED BY <1>4, <2>1, IndexerAlone
<1>6. CASE (Return(c) \/ Continue(c, next)) /\ UNCHANGED <<entries, unbuilt>>
    BY <1>1, <1>2, <1>4, <1>5, <1>6, ReturnsAlone, LooksAlone
<1>7. CASE /\ ~Duplicates(i, call.todo) /\ Return(c)
           /\ entries' = entries \cup come /\ unbuilt' = unbuilt \ {i}
  <2>1. /\ call.todo = {Change(0, r, Missing, own[r]) : r \in {s \in Textual : own[s] \in Value}}
        /\ \A r \in RowId \ Textual : own[r] # NoRow => <<i, r>> \in unlisted
      BY <1>1 DEF FillerAlone
  <2> HIDE DEF own
  <2>2. \A e \in come : \E r \in Textual : own[r] \in Value /\ e = <<i, Folded[own[r]], r>>
    <3> SUFFICES ASSUME NEW e \in come PROVE \E r \in Textual : own[r] \in Value /\ e = <<i, Folded[own[r]], r>>
        OBVIOUS
    <3>1. PICK d \in call.todo : e \in KeysForValue(i, d.new, d.to)
        OBVIOUS
    <3>2. PICK r \in Textual : own[r] \in Value /\ d = Change(0, r, Missing, own[r])
        BY <2>1, <3>1
    <3> QED BY <3>1, <3>2 DEF KeysForValue, Change
  <2> HIDE DEF come
  <2>3. \A e \in come : e \in Entry /\ TrueIn(e, tables', rows', byName')
    <3> SUFFICES ASSUME NEW e \in come PROVE e \in Entry /\ TrueIn(e, tables', rows', byName')
        OBVIOUS
    <3>1. PICK r \in Textual : own[r] \in Value /\ e = <<i, Folded[own[r]], r>>
        BY <2>2
    <3>2. r \in RowId /\ Folded[own[r]] \in Value /\ e[1] = i /\ e[2] = Folded[own[r]] /\ e[3] = r
        BY <3>1, TablesAssumption
    <3> QED BY <1>1, <1>2, <3>1, <3>2 DEF Entry, TrueIn, own
  <2>4. entries' \subseteq Entry
      BY <1>7, <2>3 DEF AloneInv, StoreAlone
  <2>5. NoFalseEntry'
    <3>1. \A e \in entries : e[1] \notin unclean => TrueIn(e, tables', rows', byName')
        BY <1>2 DEF AloneInv, NoFalseEntry
    <3> QED BY <1>2, <1>7, <2>3, <3>1 DEF NoFalseEntry
  <2>6. ASSUME UniqueApart PROVE UniqueApart'
    <3>1. ASSUME NEW j \in Watched' PROVE ApartFor(j, tables', rows', unlisted')
      <4>1. CASE j \in Watched
        <5>1. ApartFor(j, tables, rows, unlisted)
            BY <2>6, <4>1, ApartNow
        <5> QED BY <1>2, <5>1 DEF ApartFor
      <4>2. CASE j \notin Watched
        <5>1. j = i /\ i \in UniqueIndexes
            BY <1>2, <1>7, <3>1, <4>2 DEF Watched
        <5>2. ASSUME NEW r \in RowId, own[r] \in Value, <<i, r>> \notin unlisted
              PROVE  Change(0, r, Missing, own[r]) \in call.todo
            BY <2>1, <5>2, TablesAssumption DEF Row
        <5>3. ASSUME NEW r \in RowId, NEW s \in RowId, r # s, own[r] \in Value, own[s] \in Value,
                     <<i, r>> \notin unlisted, <<i, s>> \notin unlisted
              PROVE  Folded[own[r]] # Folded[own[s]]
          <6> DEFINE d == Change(0, r, Missing, own[r])
                     e == Change(0, s, Missing, own[s])
          <6>1. d \in call.todo /\ e \in call.todo
              BY <5>2, <5>3
          <6>2. d.to = r /\ e.to = s /\ d.new = own[r] /\ e.new = own[s]
              BY DEF Change
          <6> HIDE DEF d, e
          <6> QED BY <1>7, <5>1, <5>3, <6>1, <6>2 DEF Duplicates
        <5> QED BY <1>2, <5>1, <5>3 DEF ApartFor, own
      <4> QED BY <4>1, <4>2
    <3> QED BY <3>1, ApartThen
  <2>7. byName' \subseteq indexMeta'
      BY <1>2 DEF AloneInv, StoreAlone
  <2> QED BY <1>1, <1>2, <1>7, <2>4, <2>5, <2>6, <2>7, IdleAlone, IndexStepsAlone DEF Return
<1> QED BY <1>3, <1>6, <1>7

\* Manager.Drop: the index goes from memory, with its metadata and its entries after it, and is
\* unclean until none is left. Then DROP TABLE goes on.
LEMMA DropStepsAlone ==
    ASSUME PrefixInv, AloneInv, NEW c \in SQLClient,
           Forget(c) \/ DropIndexMeta(c) \/ ListEntries(c) \/ EraseEntries(c)
    PROVE  Kept
<1> DEFINE call == sqlCall[c]
           i == call.index
           over == [call EXCEPT !.batch = NoBatch]
           Fits(k) == AloneFits(k, tables', rows', byName', entries', unlisted', unclean')
           Ended(k) == Continue(c, Dropped(k))
<1>1. /\ Shaped(call) /\ call.step \in {"forget", "unmeta", "list", "erase"} /\ Reindexing(call) /\ PutsNone(call)
      /\ IndexerFits(call, byName, indexMeta)
      /\ DropperAlone(call, byName) /\ EraserAlone(call, entries, unclean)
    BY DEF PrefixInv, Shapes, AloneInv, CallAlone, AloneFits, EraserAlone, IndexInv, CallsFit, CallFits, IndexerFits,
           Forget, DropIndexMeta, ListEntries, EraseEntries
<1>2. call.op = "drop table" => ListedIn(byName, call.table) \subseteq call.rest \cup {i}
    BY <1>1 DEF DropperAlone
<1>3. UNCHANGED <<rows, tables, unlisted, unbuilt, strays>>
    BY DEF Forget, DropIndexMeta, ListEntries, EraseEntries, stored, schema, sqlHistory
<1>4. byName \subseteq indexMeta /\ entries \subseteq Entry /\ \A e \in entries : e[1] \notin unclean => e[1] \in byName
    BY DEF AloneInv, StoreAlone, NoFalseEntry, TrueIn
<1>5. /\ i \notin byName' /\ byName' \subseteq byName /\ entries' \subseteq entries /\ byName \ {i} \subseteq byName'
      /\ unclean \subseteq unclean' \cup {i} /\ byName' \subseteq indexMeta'
      /\ \A e \in entries' : e[1] \notin unclean' => e[1] # i
  <2>1. CASE Forget(c)
      BY <1>4, <2>1 DEF Forget, stored
  <2>2. CASE DropIndexMeta(c)
    <3>1. i \notin byName /\ i \in unclean
        BY <1>1, <2>2 DEF IndexerFits, EraserAlone, DropIndexMeta
    <3> QED BY <1>4, <2>2, <3>1 DEF DropIndexMeta, sqlHistory
  <2>3. CASE ListEntries(c)
    <3>1. i \notin byName /\ i \in unclean
        BY <1>1, <2>3 DEF IndexerFits, EraserAlone, ListEntries
    <3> QED BY <1>4, <2>3, <3>1 DEF ListEntries, EntriesOf, stored
  <2>4. CASE EraseEntries(c)
    <3>1. i \notin byName /\ i \in unclean /\ call.batch.dropEntries = {e \in entries : e[1] = i}
        BY <1>1, <2>4 DEF IndexerFits, EraserAlone, EraseEntries
    <3>2. entries' = entries \/ entries' = entries \ {e \in entries : e[1] = i}
        BY <1>1, <2>4, <3>1 DEF EraseEntries, AfterBatch, PutsNone
    <3>3. UNCHANGED <<byName, indexMeta>> /\ unclean \subseteq unclean' \cup {i}
        BY <2>4 DEF EraseEntries, indexes
    <3>4. \/ entries' = entries /\ unclean' = unclean
          \/ entries' = entries \ {e \in entries : e[1] = i}
        BY <1>1, <2>4, <3>1 DEF EraseEntries, AfterBatch, PutsNone
    <3> QED BY <1>4, <3>1, <3>2, <3>3, <3>4
  <2> QED BY <2>1, <2>2, <2>3, <2>4
<1>6. SameRows
    BY <1>3 DEF SameRows
<1>7. NoFalseEntry'
  <2>1. \A e \in entries' : e[1] \notin unclean' => e \in entries /\ e[1] \notin unclean /\ e[1] \in byName'
      BY <1>4, <1>5
  <2> QED BY <1>6, <2>1, TruthStays DEF AloneInv
<1>8. UniqueApart => UniqueApart'
  <2>1. \A j \in Watched' : j \in Watched
      BY <1>3, <1>5 DEF Watched
  <2> QED BY <1>3, <1>6, <2>1, ApartStays
<1>9. Shaped(over) /\ over.op = call.op /\ over.table = call.table /\ over.rest = call.rest /\ over.batch = NoBatch
    BY <1>1 DEF Shaped, Fields, NoBatch
<1>10. PutsNone(over)
    BY <1>9 DEF PutsNone, NoBatch
<1> HIDE DEF over
<1>11. call.op = "drop table" => ListedIn(byName', call.table) \subseteq call.rest
    BY <1>2, <1>5 DEF ListedIn
<1>12. ASSUME NEW k \in {call, over} PROVE Fits(Dropped(k)) /\ (Dropped(k) = NoStatement \/ Dropped(k).step # "idle")
  <2>1. Shaped(k) /\ PutsNone(k) /\ k.op = call.op /\ k.table = call.table /\ k.rest = call.rest
      BY <1>1, <1>9, <1>10
  <2> QED BY <1>11, <2>1, DroppedAlone
<1>13. PICK next : Continue(c, next) /\ Fits(next) /\ (next = NoStatement \/ next.step # "idle")
  <2>1. CASE Ended(call) \/ Ended(over)
      BY <1>12, <2>1
  <2>2. ASSUME NEW k, k.op = call.op, k.step \in {"unmeta", "list", "erase"}, k.index = i, k.table = call.table,
               k.rest = call.rest, PutsNone(k), i \in unclean',
               k.step = "erase" => k.batch.dropEntries = {e \in entries' : e[1] = i}
        PROVE  Fits(k)
    <3>1. ~Writer(k) /\ Reindexing(k)
        BY <1>1, <2>2 DEF Writer, Reindexing
    <3>2. DropperAlone(k, byName')
        BY <1>11, <2>2 DEF DropperAlone
    <3> QED BY <2>2, <3>1, <3>2 DEF AloneFits, WriterAlone, FillerAlone, EraserAlone
  <2>3. CASE Forget(c) /\ ~Ended(call)
    <3> DEFINE k == [call EXCEPT !.step = "unmeta"]
    <3>1. Continue(c, k) /\ i \in unclean'
        BY <2>3 DEF Forget
    <3>2. /\ k.op = call.op /\ k.step = "unmeta" /\ k.index = i /\ k.table = call.table /\ k.rest = call.rest
          /\ k.batch = call.batch
        BY <1>1 DEF Shaped, Fields
    <3> HIDE DEF k
    <3>3. PutsNone(k)
        BY <1>1, <3>2 DEF PutsNone
    <3>4. Fits(k)
        BY <2>2, <3>1, <3>2, <3>3
    <3> QED BY <3>1, <3>2, <3>4
  <2>4. CASE DropIndexMeta(c) /\ ~Ended(call)
    <3> DEFINE k == [call EXCEPT !.step = "list"]
    <3>1. Continue(c, k) /\ i \in unclean'
        BY <1>1, <2>4 DEF DropIndexMeta, EraserAlone, sqlHistory
    <3>2. /\ k.op = call.op /\ k.step = "list" /\ k.index = i /\ k.table = call.table /\ k.rest = call.rest
          /\ k.batch = call.batch
        BY <1>1 DEF Shaped, Fields
    <3> HIDE DEF k
    <3>3. PutsNone(k)
        BY <1>1, <3>2 DEF PutsNone
    <3>4. Fits(k)
        BY <2>2, <3>1, <3>2, <3>3
    <3> QED BY <3>1, <3>2, <3>4
  <2>5. CASE ListEntries(c) /\ ~Ended(call)
    <3> DEFINE k == [call EXCEPT !.step = "erase", !.batch.dropEntries = EntriesOf(i)]
    <3>1. Continue(c, k) /\ i \in unclean' /\ entries' = entries
        BY <1>1, <2>5 DEF ListEntries, EraserAlone, stored
    <3>2. /\ k.op = call.op /\ k.step = "erase" /\ k.index = i /\ k.table = call.table /\ k.rest = call.rest
          /\ "putEntries" \in DOMAIN k.batch /\ k.batch.putEntries = call.batch.putEntries
          /\ k.batch.dropEntries = EntriesOf(i)
        BY <1>1 DEF Shaped, Fields, PutsNone
    <3> HIDE DEF k
    <3>3. PutsNone(k) /\ k.batch.dropEntries = {e \in entries' : e[1] = i}
        BY <1>1, <3>1, <3>2 DEF PutsNone, EntriesOf
    <3>4. Fits(k)
        BY <2>2, <3>1, <3>2, <3>3
    <3> QED BY <3>1, <3>2, <3>4
  <2>6. CASE EraseEntries(c)
      BY <2>1, <2>6 DEF EraseEntries, over
  <2> QED BY <2>1, <2>3, <2>4, <2>5, <2>6
<1>14. call.step # "idle" /\ entries' \subseteq Entry /\ byName' \subseteq indexMeta'
    BY <1>1, <1>4, <1>5
<1> HIDE DEF call
<1> QED BY <1>3, <1>7, <1>8, <1>13, <1>14, IndexStepsAlone DEF call

-----------------------------------------------------------------------------
(* A statement that begins while nothing is in progress.                    *)

\* What a statement is when it begins.
Fresh(call) ==
    /\ call.step # "idle" /\ call.batch = NoBatch
    /\ \/ /\ call.op = "insert" /\ call.step = "begin"
          /\ \A d \in call.todo : d.from = 0 /\ d.to \in RowId /\ d.new \in Row
       \/ /\ call.op \in {"update", "delete"} /\ call.step = "scan"
          /\ call.where \subseteq RowId /\ call.set \in Row \cup {NoRow} /\ call.move \in RowId \cup {0}
       \/ call.op \in {"create table", "alter table"} /\ call.step \in {"run", "indexes"}
       \/ call.op = "drop table" /\ call.step = "indexes"
       \/ call.op = "create index" /\ call.step = "table"
       \/ call.op = "drop index" /\ call.step = "forget"

\* Every statement begins like that.
LEMMA StartsFresh ==
    ASSUME NEW c \in SQLClient, SQLStart(c)
    PROVE  \E call : StartStatement(c, call) /\ Fresh(call)
<1>1. ASSUME NEW t \in Table, NEW ids \in SUBSET RowId, NEW values \in [ids -> Row], StartInsert(c, t, values)
      PROVE  \E call : StartStatement(c, call) /\ Fresh(call)
  <2> DEFINE todo == {Change(0, r, Missing, values[r]) : r \in ids}
             call == [NoStatement EXCEPT !.op = "insert", !.step = "begin", !.table = t, !.todo = todo]
  <2>1. StartStatement(c, call)
    <3>1. DOMAIN values = ids
        OBVIOUS
    <3> QED BY <1>1, <3>1 DEF StartInsert
  <2>2. \A d \in todo : d.from = 0 /\ d.to \in RowId /\ d.new \in Row
      BY DEF Change
  <2> HIDE DEF todo
  <2>3. call.op = "insert" /\ call.step = "begin" /\ call.todo = todo /\ call.batch = NoBatch
      BY DEF NoStatement
  <2> HIDE DEF call
  <2> QED BY <2>1, <2>2, <2>3 DEF Fresh
<1>2. ASSUME NEW t \in Table, NEW where \in SUBSET RowId, NEW set \in Row \cup {NoRow}, NEW move \in RowId \cup {0},
             StartUpdate(c, t, where, set, move)
      PROVE  \E call : StartStatement(c, call) /\ Fresh(call)
  <2> DEFINE call == [NoStatement EXCEPT !.op = "update", !.step = "scan", !.table = t,
                         !.where = where, !.set = set, !.move = move]
  <2>1. StartStatement(c, call)
      BY <1>2 DEF StartUpdate
  <2>2. /\ call.op = "update" /\ call.step = "scan" /\ call.where = where /\ call.set = set /\ call.move = move
        /\ call.batch = NoBatch
      BY DEF NoStatement
  <2> HIDE DEF call
  <2> QED BY <2>1, <2>2 DEF Fresh
<1>3. ASSUME NEW t \in Table, NEW where \in SUBSET RowId, StartDelete(c, t, where)
      PROVE  \E call : StartStatement(c, call) /\ Fresh(call)
  <2> DEFINE call == [NoStatement EXCEPT !.op = "delete", !.step = "scan", !.table = t, !.where = where]
  <2>1. StartStatement(c, call)
      BY <1>3 DEF StartDelete
  <2>2. /\ call.op = "delete" /\ call.step = "scan" /\ call.where = where /\ call.set = NoRow /\ call.move = 0
        /\ call.batch = NoBatch
      BY DEF NoStatement
  <2> HIDE DEF call
  <2> QED BY <2>1, <2>2 DEF Fresh
<1>4. ASSUME NEW t \in Table, NEW kind \in ColumnKind, StartCreateTable(c, t, kind) \/ StartAlterTable(c, t, kind)
      PROVE  \E call : StartStatement(c, call) /\ Fresh(call)
  <2> DEFINE call(op, step) == [NoStatement EXCEPT !.op = op, !.step = step, !.table = t, !.kind = kind]
  <2>1. PICK op \in {"create table", "alter table"}, step \in {"run", "indexes"} : StartStatement(c, call(op, step))
      BY <1>4 DEF StartCreateTable, StartAlterTable
  <2>2. call(op, step).op = op /\ call(op, step).step = step /\ call(op, step).batch = NoBatch
      BY DEF NoStatement
  <2> HIDE DEF call
  <2> QED BY <2>1, <2>2 DEF Fresh
<1>5. ASSUME NEW t \in Table, StartDropTable(c, t)
      PROVE  \E call : StartStatement(c, call) /\ Fresh(call)
  <2> DEFINE call == [NoStatement EXCEPT !.op = "drop table", !.step = "indexes", !.table = t]
  <2>1. StartStatement(c, call)
      BY <1>5 DEF StartDropTable
  <2>2. call.op = "drop table" /\ call.step = "indexes" /\ call.batch = NoBatch
      BY DEF NoStatement
  <2> HIDE DEF call
  <2> QED BY <2>1, <2>2 DEF Fresh
<1>6. ASSUME NEW i \in Index, StartCreateIndex(c, i)
      PROVE  \E call : StartStatement(c, call) /\ Fresh(call)
  <2> DEFINE call == [NoStatement EXCEPT !.op = "create index", !.step = "table", !.index = i]
  <2>1. StartStatement(c, call)
      BY <1>6 DEF StartCreateIndex
  <2>2. call.op = "create index" /\ call.step = "table" /\ call.batch = NoBatch
      BY DEF NoStatement
  <2> HIDE DEF call
  <2> QED BY <2>1, <2>2 DEF Fresh
<1>7. ASSUME NEW i \in Index, StartDropIndex(c, i)
      PROVE  \E call : StartStatement(c, call) /\ Fresh(call)
  <2> DEFINE call == [NoStatement EXCEPT !.op = "drop index", !.step = "forget", !.index = i]
  <2>1. StartStatement(c, call)
      BY <1>7 DEF StartDropIndex
  <2>2. call.op = "drop index" /\ call.step = "forget" /\ call.batch = NoBatch
      BY DEF NoStatement
  <2> HIDE DEF call
  <2> QED BY <2>1, <2>2 DEF Fresh
<1> QED BY <1>1, <1>2, <1>3, <1>4, <1>5, <1>6, <1>7 DEF SQLStart

\* Nothing else is in progress, unless it is crowded from now on.
LEMMA StartsAlone ==
    ASSUME PrefixInv, AloneInv, NEW c \in SQLClient, SQLStart(c), ~crowded'
    PROVE  IndexesChangedAlone' /\ Kept
<1>1. PICK call : StartStatement(c, call) /\ Fresh(call)
    BY StartsFresh
<1>2. /\ UNCHANGED <<rows, entries, tables, byName, indexMeta, unlisted, unbuilt, unclean, strays>>
      /\ Continue(c, call)
      /\ \A d \in SQLClient : sqlCall[d].step = "idle"
    BY <1>1 DEF StartStatement, stored
<1>3. /\ sqlCall'[c] = call
      /\ \A d \in SQLClient : d # c => sqlCall'[d] = NoStatement
    BY <1>2 DEF PrefixInv, Shapes, Continue, AloneInv, CallAlone
<1>4. NoStatement.op = "none" /\ NoStatement.step = "idle"
    BY DEF NoStatement
<1>5. IndexesChangedAlone'
    BY <1>3, <1>4 DEF IndexesChangedAlone, ChangesIndexes
<1>6. PutsNone(call)
  <2>1. call.batch = NoBatch
      BY <1>1 DEF Fresh
  <2> QED BY <2>1 DEF PutsNone, NoBatch
<1>7. AloneFits(call, tables, rows, byName, entries, unlisted, unclean)
  <2>1. call.step \notin {"key", "index", "write", "rebuild", "unmeta", "list", "erase"}
      BY <1>1 DEF Fresh
  <2>2. WriterAlone(call, tables, rows, byName, entries)
    <3>1. Writer(call) /\ call.step = "begin" => TodoFits(call, RowsIn(tables, rows, call.table))
        BY <1>1 DEF Writer, Fresh, TodoFits, ChangeFits
    <3>2. Writer(call) /\ call.step = "scan" =>
              call.where \subseteq RowId /\ call.set \in Row \cup {NoRow} /\ call.move \in RowId \cup {0}
        BY <1>1 DEF Writer, Fresh
    <3> QED BY <2>1, <3>1, <3>2 DEF WriterAlone
  <2>3. DropperAlone(call, byName)
      BY <1>1 DEF Fresh, DropperAlone
  <2> QED BY <1>6, <2>1, <2>2, <2>3 DEF AloneFits, FillerAlone, EraserAlone
<1>8. CallAlone'
  <2>1. \A d \in SQLClient : sqlCall'[d].step = "idle" => sqlCall'[d] = NoStatement
      BY <1>1, <1>3 DEF Fresh
  <2>2. \A d \in SQLClient : sqlCall'[d].step # "idle" => Alone(d)'
      BY <1>3, <1>4 DEF Alone
  <2>3. \A d \in SQLClient : AloneFits(sqlCall'[d], tables', rows', byName', entries', unlisted', unclean')
      BY <1>2, <1>3, <1>7, IdleAlone
  <2> QED BY <2>1, <2>2, <2>3 DEF CallAlone
<1>9. StoreAlone'
    BY <1>2 DEF AloneInv, StoreAlone
<1>10. SameRows
    BY <1>2 DEF SameRows
<1>11. NoFalseEntry'
  <2>1. \A e \in entries' : e[1] \notin unclean' => e \in entries /\ e[1] \notin unclean /\ e[1] \in byName'
      BY <1>2 DEF AloneInv, NoFalseEntry, TrueIn
  <2> QED BY <1>10, <2>1, TruthStays DEF AloneInv
<1>12. UniqueApart => UniqueApart'
    BY <1>2, <1>10, ApartStays DEF Watched
<1> QED BY <1>5, <1>8, <1>9, <1>11, <1>12 DEF Kept

-----------------------------------------------------------------------------
(* All steps together.                                                      *)

\* A statement that goes on.
LEMMA StepsAlone ==
    ASSUME PrefixInv, AloneInv, NEW c \in SQLClient, SQLStep(c)
    PROVE  IndexesChangedAlone' /\ Kept
<1>1. Kept
  <2>1. CASE ScanRows(c) \/ BeginWrite(c) \/ CheckKey(c) \/ CheckIndexes(c) \/ WriteRow(c)
      BY <2>1, ScanRowsAlone, BeginWriteAlone, CheckIndexesAlone, WriteRowAlone
  <2>2. CASE CheckColumn(c) \/ ListIndexes(c) \/ DropTable(c) \/ CheckTable(c)
      BY <2>2, PeeksAlone
  <2>3. CASE CreateTable(c) \/ AlterTable(c) \/ DropRows(c) \/ DropMeta(c)
      BY <2>3, TableStepsAlone, DropRowsAlone
  <2>4. CASE (\E known \in BOOLEAN : CreateIndex(c, known)) \/ ScanForIndex(c) \/ Rebuild(c)
      BY <2>4, CreateIndexAlone, ScanForIndexAlone, RebuildAlone
  <2>5. CASE Forget(c) \/ DropIndexMeta(c) \/ ListEntries(c) \/ EraseEntries(c)
      BY <2>5, DropStepsAlone
  <2> QED BY <2>1, <2>2, <2>3, <2>4, <2>5 DEF SQLStep
<1>2. sqlCall[c].step # "idle" /\ \E call : Continue(c, call)
  <2>1. CASE ScanRows(c) \/ BeginWrite(c) \/ CheckKey(c) \/ CheckIndexes(c) \/ WriteRow(c)
      BY <2>1 DEF ScanRows, BeginWrite, CheckKey, CheckIndexes, WriteRow, AfterRow, Return
  <2>2. CASE CheckColumn(c) \/ ListIndexes(c) \/ DropTable(c) \/ CheckTable(c)
      BY <2>2 DEF CheckColumn, ListIndexes, DropTable, CheckTable, Doing, Return
  <2>3. CASE CreateTable(c) \/ AlterTable(c) \/ DropRows(c) \/ DropMeta(c)
      BY <2>3 DEF CreateTable, AlterTable, DropRows, DropMeta, Doing, Return
  <2>4. CASE (\E known \in BOOLEAN : CreateIndex(c, known)) \/ ScanForIndex(c) \/ Rebuild(c)
      BY <2>4 DEF CreateIndex, ScanForIndex, Rebuild, Doing, Return
  <2>5. CASE Forget(c) \/ DropIndexMeta(c) \/ ListEntries(c) \/ EraseEntries(c)
      BY <2>5 DEF Forget, DropIndexMeta, ListEntries, EraseEntries
  <2> QED BY <2>1, <2>2, <2>3, <2>4, <2>5 DEF SQLStep
<1>3. IndexesChangedAlone'
    BY <1>2, AloneStays DEF AloneInv
<1> QED BY <1>1, <1>3

\* Every step, of as many clients as there are.
LEMMA AloneStep ==
    ASSUME PrefixInv, AloneInv, ~crowded', [SQLNext]_sqlVars
    PROVE  AloneInv' /\ (UniqueApart => UniqueApart')
<1>1. CASE SQLNext
  <2>1. IndexesChangedAlone' /\ Kept
      BY <1>1, CrashAlone, StartsAlone, StepsAlone DEF SQLNext
  <2>2. IndexInv'
      BY <1>1, <2>1, IndexInvStep DEF AloneInv
  <2> QED BY <2>1, <2>2 DEF Kept, AloneInv
<1>2. CASE UNCHANGED sqlVars
  <2>1. /\ UNCHANGED <<rows, entries, tables, nextPrefix, byName, indexMeta, unlisted, unbuilt, unclean, strays>>
        /\ UNCHANGED sqlCall
      BY <1>2 DEF sqlVars, stored, sqlHistory
  <2>2. IndexesChangedAlone'
      BY <2>1 DEF AloneInv, IndexInv, IndexesChangedAlone, ChangesIndexes
  <2>3. IndexInv'
      BY <1>2, <2>2, IndexInvStep DEF AloneInv
  <2>4. CallAlone' /\ StoreAlone' /\ NoFalseEntry'
      BY <2>1 DEF AloneInv, CallAlone, Alone, StoreAlone, NoFalseEntry
  <2>5. UniqueApart => UniqueApart'
      BY <2>1, ApartStays DEF Watched, SameRows
  <2> QED BY <2>3, <2>4, <2>5 DEF AloneInv
<1> QED BY <1>1, <1>2

\* It is never less crowded.
LEMMA CrowdedStays == [SQLNext]_sqlVars => (crowded => crowded')
<1> SUFFICES ASSUME [SQLNext]_sqlVars, crowded PROVE crowded'
    OBVIOUS
<1>1. CASE SQLCrash \/ UNCHANGED sqlVars
    BY <1>1 DEF SQLCrash, sqlVars, sqlHistory
<1>2. ASSUME NEW c \in SQLClient, SQLStart(c) PROVE crowded'
    BY <1>2, StartsFresh DEF StartStatement
<1>3. ASSUME NEW c \in SQLClient, SQLStep(c) PROVE crowded'
  <2>1. UNCHANGED crowded
    <3>1. CASE ScanRows(c) \/ BeginWrite(c) \/ CheckKey(c) \/ CheckIndexes(c) \/ WriteRow(c)
        BY <3>1 DEF ScanRows, BeginWrite, CheckKey, CheckIndexes, WriteRow, sqlHistory
    <3>2. CASE CheckColumn(c) \/ ListIndexes(c) \/ DropTable(c) \/ CheckTable(c)
        BY <3>2 DEF CheckColumn, ListIndexes, DropTable, CheckTable, sqlHistory
    <3>3. CASE CreateTable(c) \/ AlterTable(c) \/ DropRows(c) \/ DropMeta(c)
        BY <3>3 DEF CreateTable, AlterTable, DropRows, DropMeta, sqlHistory
    <3>4. CASE (\E known \in BOOLEAN : CreateIndex(c, known)) \/ ScanForIndex(c) \/ Rebuild(c)
        BY <3>4 DEF CreateIndex, ScanForIndex, Rebuild
    <3>5. CASE Forget(c) \/ DropIndexMeta(c) \/ ListEntries(c) \/ EraseEntries(c)
        BY <3>5 DEF Forget, DropIndexMeta, ListEntries, EraseEntries, sqlHistory
    <3> QED BY <1>3, <3>1, <3>2, <3>3, <3>4, <3>5 DEF SQLStep
  <2> QED BY <2>1
<1> QED BY <1>1, <1>2, <1>3 DEF SQLNext

\* The store that the process starts on has no entry but those of its rows.
LEMMA AloneInvInit == SQLInit => AloneInv
<1> SUFFICES ASSUME NEW created \in [Table -> TableMeta \cup {NoTable}], NEW indexed \in SUBSET Index,
                    NEW held \in [Prefix -> [RowId -> Row \cup {NoRow}]], TablesInit(created, indexed, held), SQLInit
             PROVE  AloneInv
    BY DEF SQLInit
<1>1. /\ tables = created /\ rows = held /\ byName = indexed /\ indexMeta = indexed
      /\ unclean = {} /\ strays = {} /\ sqlCall = [c \in SQLClient |-> NoStatement]
    BY DEF TablesInit
<1>2. CallAlone
    BY <1>1, IdleAlone DEF CallAlone, NoStatement
<1>3. \A e \in entries : e \in Entry /\ TrueIn(e, tables, rows, byName)
  <2> SUFFICES ASSUME NEW e \in entries PROVE e \in Entry /\ TrueIn(e, tables, rows, byName)
      OBVIOUS
  <2>1. PICK x \in indexed \X Prefix \X RowId :
            /\ e = <<x[1], Folded[held[x[2]][x[3]]], x[3]>>
            /\ created[IndexTable[x[1]]] # NoTable /\ created[IndexTable[x[1]]].prefix = x[2]
            /\ held[x[2]][x[3]] \in Value
      BY DEF TablesInit
  <2>2. Folded[held[x[2]][x[3]]] \in Value /\ x[1] \in indexed /\ x[1] \in Index /\ x[3] \in RowId
      BY <2>1, TablesAssumption
  <2>3. e[1] = x[1] /\ e[2] = Folded[held[x[2]][x[3]]] /\ e[3] = x[3]
      BY <2>1
  <2>4. RowsIn(tables, rows, IndexTable[e[1]]) = held[x[2]]
      BY <1>1, <2>1, <2>3 DEF RowsIn
  <2> QED BY <1>1, <2>1, <2>2, <2>3, <2>4 DEF Entry, TrueIn
<1>4. StoreAlone /\ NoFalseEntry
    BY <1>1, <1>3 DEF StoreAlone, NoFalseEntry
<1> QED BY <1>2, <1>4, IndexInvInit DEF AloneInv

\* The strengthened invariant: nothing is claimed once statements overlap but PrefixInv.
LEMMA SoundInvHolds == TablesSpec => []SoundInv
<1>1. SQLInit => SoundInv
    BY PrefixInvInit, AloneInvInit DEF SoundInv
<1>2. SoundInv /\ [SQLNext]_sqlVars => SoundInv'
  <2> SUFFICES ASSUME SoundInv, [SQLNext]_sqlVars PROVE SoundInv'
      OBVIOUS
  <2>1. PrefixInv'
      BY PrefixInvStep DEF SoundInv
  <2>2. ASSUME ~crowded' PROVE AloneInv'
      BY <2>2, CrowdedStays, AloneStep DEF SoundInv
  <2> QED BY <2>1, <2>2 DEF SoundInv
<1> QED BY <1>1, <1>2, PTL DEF TablesSpec

\* WriteRow, RebuildFromRows and Manager.Drop, over any statements that come one at a time, with
\* failures between any two of their writes and crashes between any two of their steps: an index
\* never has an entry of a row that is gone or has another value.
THEOREM IndexesSound == TablesSpec => []IndexSound
<1>1. SoundInv => IndexSound
  <2> SUFFICES ASSUME SoundInv, ~crowded, NEW e \in entries, e[1] \in byName \ unclean
               PROVE  Indexed(e[1], e[3]) /\ Folded[RowsOf(IndexTable[e[1]])[e[3]]] = e[2]
      BY DEF IndexSound
  <2>1. TrueIn(e, tables, rows, byName)
      BY DEF SoundInv, AloneInv, NoFalseEntry
  <2> QED BY <2>1, RowsNow DEF TrueIn, Indexed
<1> QED BY <1>1, SoundInvHolds, PTL

\* validateUnique and validateUniqueInBatch, over the same: if no two rows of the store that the
\* process starts on have one value in a UNIQUE column, no two rows ever have, but for rows that
\* the index does not list.
THEOREM UniqueValues == TablesSpec /\ UniqueKept => []UniqueKept
<1>1. SoundInv /\ UniqueKept /\ [SQLNext]_sqlVars => UniqueKept'
  <2> SUFFICES ASSUME SoundInv, UniqueKept, [SQLNext]_sqlVars, ~crowded' PROVE UniqueApart'
      BY DEF UniqueKept
  <2> QED BY CrowdedStays, AloneStep DEF SoundInv, UniqueKept
<1> QED BY <1>1, SoundInvHolds, PTL DEF TablesSpec
=============================================================================
