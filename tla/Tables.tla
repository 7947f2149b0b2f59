------------------------------- MODULE Tables -------------------------------
(***************************************************************************)
(* SQL tables and their secondary indexes: the writing statements of       *)
(* internal/query/sql/executor.go over internal/storage/table_manager.go   *)
(* and internal/query/sql/index/{manager,ops}.go.                          *)
(*                                                                         *)
(* Of a table's columns the model keeps the row id and one more, which may *)
(* be indexed. A statement reads the metadata, the rows and the index      *)
(* entries in steps of its own and writes one row, with the index entries  *)
(* that go with it, in one batch; the statements of several clients        *)
(* interleave. Only DROP TABLE and the metadata are under a lock.          *)
(***************************************************************************)
EXTENDS Naturals, FiniteSets, FiniteSetsExt

CONSTANTS Table, Index, RowId, Value, SQLClient,
          Textual,         \* the row ids that a row holds as a JSON string
          Folded,          \* Folded[v]: the value whose index key v has (case is folded)
          IndexTable,      \* IndexTable[i]: the table index i is on
          UniqueIndexes,
          MayMove,         \* the clients whose UPDATE may set the row id
          MaxPrefix,       \* userTablePrefixEnd, counted from userTablePrefixStart = 1
          NoTable, NoRow,
          Missing,         \* a row without the column
          MaxStatements, MaxFault, MaxSQLCrash   \* bounds

Row == Value \cup {Missing}
Entry == Index \X Value \X RowId
Prefix == 1..MaxPrefix
ColumnKind == {"none", "nullable", "required"}
TableMeta == [prefix : Prefix, column : ColumnKind]

ASSUME TablesAssumption ==
    /\ RowId \subseteq Nat \ {0} /\ Textual \subseteq RowId
    /\ Folded \in [Value -> Value] /\ IndexTable \in [Index -> Table]
    /\ UniqueIndexes \subseteq Index /\ MayMove \subseteq SQLClient
    /\ NoRow \notin Row /\ Missing \notin Value /\ NoTable \notin TableMeta
    /\ {MaxPrefix, MaxStatements, MaxFault, MaxSQLCrash} \subseteq Nat

VARIABLES
    tableMeta,     \* stored: the metadata of each table
    indexMeta,     \* stored: the indexes with metadata
    rows,          \* stored: rows[p][r], the row r under the prefix p
    entries,       \* stored: the index entries <<index, folded value, row id>>
    tables,        \* TableManager.tables
    nextPrefix,
    byName,        \* Manager.byName
    sqlCall,       \* the statement of each client
    statements, sqlFaults, sqlCrashes,
    unlisted,      \* history: <<i, r>> where r's last writer or the backfill passed i over
    unbuilt,       \* history: indexes that are being built, or were when it was cut short
    unclean,       \* history: dropped indexes that have entries left
    strays,        \* history: <<p, r>> written when p's table was gone or going
    crowded        \* history: a statement has begun while another was in progress

stored == <<tableMeta, indexMeta, rows, entries>>
schema == <<tableMeta, tables, nextPrefix>>
indexes == <<indexMeta, byName>>
sqlHistory == <<unlisted, unbuilt, unclean, strays, crowded>>
sqlBounds == <<statements, sqlFaults, sqlCrashes>>
sqlVars == <<stored, tables, nextPrefix, byName, sqlCall, sqlBounds, sqlHistory>>

\* What a statement does to one row: the row goes from one id to another (0: it is not
\* there) and from one value to another.
Change(from, to, old, new) == [from |-> from, to |-> to, old |-> old, new |-> new]

NoBatch == [drop |-> {}, put |-> {}, dropEntries |-> {}, putEntries |-> {}]

NoStatement ==
    [op |-> "none", step |-> "idle", table |-> NoTable, prefix |-> 0, index |-> NoTable,
     where |-> {}, set |-> NoRow, move |-> 0, kind |-> "none", todo |-> {}, seen |-> {},
     batch |-> NoBatch, rest |-> {}]

\* Mutant: the tables are counted.
CountTables(metas) == Cardinality({t \in Table : metas[t] # NoTable}) + 1

\* Init of the table manager: the next prefix is past those in use.
NextFree(metas) == Max({0} \cup {metas[t].prefix : t \in {u \in Table : metas[u] # NoTable}}) + 1

\* The process starts on an empty store, or on one with tables, rows and indexes.
TablesInit(created, indexed, held) ==
    /\ tableMeta = created
    /\ indexMeta = indexed
    /\ rows = held
    /\ entries = {<<x[1], Folded[held[x[2]][x[3]]], x[3]>> : x \in
                     {y \in indexed \X Prefix \X RowId : /\ created[IndexTable[y[1]]] # NoTable
                                                        /\ created[IndexTable[y[1]]].prefix = y[2]
                                                        /\ held[y[2]][y[3]] \in Value}}
    /\ tables = tableMeta
    /\ nextPrefix = NextFree(tableMeta)
    /\ byName = indexed
    /\ sqlCall = [c \in SQLClient |-> NoStatement]
    /\ statements = 0 /\ sqlFaults = 0 /\ sqlCrashes = 0
    /\ unlisted = {} /\ unbuilt = {} /\ unclean = {} /\ strays = {} /\ crowded = FALSE

-----------------------------------------------------------------------------
(* Helpers.                                                                *)

Exists(t) == tables[t] # NoTable

\* ListByTable.
ListByTable(t) == {i \in byName : IndexTable[i] = t}

\* Mutant: unique values are compared as they are written.
KeysAsWritten(i, val, r) == IF val = Missing THEN {} ELSE {<<i, val, r>>}

\* The entry a row has in index i: keysForValue, none when the row has no such column.
KeysForValue(i, val, r) == IF val = Missing THEN {} ELSE {<<i, Folded[val], r>>}

RowOps(seen, val, r) == UNION {KeysForValue(i, val, r) : i \in seen}

\* Mutant: the check forgets that values are folded.
ViolatedAsWritten(seen, val, r) ==
    \E i \in seen \cap UniqueIndexes, s \in RowId \ {r} :
        val # Missing /\ <<i, val, s>> \in entries

\* Another row has the value already: validateUnique over LookupEqual.
Violated(seen, val, r) ==
    \E i \in seen \cap UniqueIndexes, s \in RowId \ {r} :
        val # Missing /\ <<i, Folded[val], s>> \in entries

\* The rows that RebuildFromRows indexes. A row whose id is no string is passed over.
Backfilled(p) == {r \in Textual : rows[p][r] \in Value}

\* TableManager.mu is held through DROP TABLE; every other use of the metadata waits.
Locked == \E c \in SQLClient : sqlCall[c].op = "drop table" /\ sqlCall[c].step \in {"batch", "meta"}

Doing(c, op, step) == sqlCall[c].op = op /\ sqlCall[c].step = step

Continue(c, call) == sqlCall' = [sqlCall EXCEPT ![c] = call]
Return(c) == Continue(c, NoStatement)

StartStatement(c, call) ==
    /\ sqlCall[c].step = "idle" /\ statements < MaxStatements
    /\ statements' = statements + 1
    /\ Continue(c, call)
    /\ crowded' = (crowded \/ \E d \in SQLClient : sqlCall[d].step # "idle")
    /\ UNCHANGED <<stored, tables, nextPrefix, byName, sqlFaults, sqlCrashes, unlisted, unbuilt, unclean, strays>>

\* A write to the store fails and leaves it as it is.
Fault == sqlFaults < MaxFault /\ sqlFaults' = sqlFaults + 1 /\ UNCHANGED <<statements, sqlCrashes>>

\* DROP TABLE goes on with the next index, or with the table.
NextIndex(call) ==
    IF call.rest = {} THEN [call EXCEPT !.step = "lock"]
    ELSE LET i == CHOOSE i \in call.rest : TRUE
         IN  [call EXCEPT !.step = "forget", !.index = i, !.rest = @ \ {i}]

\* Where Manager.Drop returns to.
Dropped(call) == IF call.op = "drop table" THEN NextIndex(call) ELSE NoStatement

-----------------------------------------------------------------------------
(* INSERT, UPDATE and DELETE.                                              *)

StartInsert(c, t, values) ==
    StartStatement(c, [NoStatement EXCEPT !.op = "insert", !.step = "begin", !.table = t,
        !.todo = {Change(0, r, Missing, values[r]) : r \in DOMAIN values}])

\* executeUpdate for the rows of where, with SET on the column (unless set is NoRow) and on
\* the id (unless move is 0).
StartUpdate(c, t, where, set, move) ==
    /\ set # NoRow \/ move # 0
    /\ move # 0 => c \in MayMove
    /\ StartStatement(c, [NoStatement EXCEPT !.op = "update", !.step = "scan", !.table = t,
           !.where = where, !.set = set, !.move = move])

StartDelete(c, t, where) ==
    StartStatement(c, [NoStatement EXCEPT !.op = "delete", !.step = "scan", !.table = t, !.where = where])

\* What the statement makes of a row it found. executeDelete passes over a row whose id is no
\* string.
ChangeOf(call, r, val) ==
    IF call.op = "delete" THEN Change(r, 0, val, Missing)
    ELSE Change(r, IF call.move = 0 THEN r ELSE call.move, val, IF call.set = NoRow THEN val ELSE call.set)

Found(call, p) ==
    {r \in call.where : rows[p][r] # NoRow /\ (call.op = "delete" => r \in Textual)}

\* executeScan, the input of UPDATE and DELETE: a snapshot of the rows.
ScanRows(c) ==
    LET call == sqlCall[c] IN
    /\ call.op \in {"update", "delete"} /\ call.step = "scan" /\ ~Locked
    /\ IF Exists(call.table)
       THEN LET p == tables[call.table].prefix
            IN  Continue(c, [call EXCEPT !.step = "begin",
                                !.todo = {ChangeOf(call, r, rows[p][r]) : r \in Found(call, p)}])
       ELSE Return(c)
    /\ UNCHANGED <<stored, tables, nextPrefix, byName, sqlBounds, sqlHistory>>

\* tablePrefix and GetTable. The prefix is kept for all the rows of the statement.
BeginWrite(c) ==
    LET call == sqlCall[c] IN
    /\ call.step = "begin" /\ ~Locked
    /\ IF Exists(call.table) /\ call.todo # {}
       THEN Continue(c, [call EXCEPT !.step = "key", !.prefix = tables[call.table].prefix])
       ELSE Return(c)
    /\ UNCHANGED <<stored, tables, nextPrefix, byName, sqlBounds, sqlHistory>>

\* The rows are changed one after the other.
NextChange(call) == CHOOSE d \in call.todo : \A e \in call.todo : d.from + d.to <= e.from + e.to

\* validateRowForWrite: the column is in the schema, and not NULL where it must not be.
FitsSchema(t, val) ==
    Exists(t) => /\ val # Missing => tables[t].column # "none"
                 /\ val = Missing => tables[t].column # "required"

\* validateRowForWrite: the key is free, unless the row has it already.
CheckKey(c) ==
    LET call == sqlCall[c]
        d == NextChange(call)
    IN
    /\ call.step = "key" /\ ~Locked
    /\ IF call.op = "delete" \/ (FitsSchema(call.table, d.new) /\ (d.to = d.from \/ rows[call.prefix][d.to] = NoRow))
       THEN Continue(c, [call EXCEPT !.step = "index"])
       ELSE Return(c)
    /\ UNCHANGED <<stored, tables, nextPrefix, byName, sqlBounds, sqlHistory>>

\* The batch of a change: the row and its index entries, deletions first. When an UPDATE that
\* moves a row violates a UNIQUE index, the error is lost, and with it all new entries.
BatchOf(d, seen, violated) ==
    [drop |-> {d.from} \ {0, d.to}, put |-> {d.to} \ {0},
     dropEntries |-> IF d.from = 0 THEN {} ELSE RowOps(seen, d.old, d.from),
     putEntries |-> IF d.to = 0 \/ violated THEN {} ELSE RowOps(seen, d.new, d.to)]

\* InsertRowOps, UpdateRowOps or DeleteRowOps: the table's indexes are listed and the UNIQUE
\* ones looked up.
CheckIndexes(c) ==
    LET call == sqlCall[c]
        d == NextChange(call)
        seen == ListByTable(call.table)
        violated == call.op # "delete" /\ Violated(seen, d.new, d.to)
    IN
    /\ call.step = "index"
    /\ IF violated /\ d.from \in {0, d.to} THEN Return(c)
       ELSE Continue(c, [call EXCEPT !.step = "write", !.seen = IF violated THEN {} ELSE seen,
                                     !.batch = BatchOf(d, seen, violated)])
    /\ UNCHANGED <<stored, tables, nextPrefix, byName, sqlBounds, sqlHistory>>

\* Mutant: UpdateRowOps deletes last.
AfterBatchReversed(batch) == (entries \cup batch.putEntries) \ batch.dropEntries

\* Entries go before entries come.
AfterBatch(batch) == (entries \ batch.dropEntries) \cup batch.putEntries

RowsAfter(p, batch, val) ==
    [rows EXCEPT ![p] = [r \in RowId |-> IF r \in batch.put THEN val
                                         ELSE IF r \in batch.drop THEN NoRow ELSE @[r]]]

\* No table has the prefix any more, or it is being dropped and its rows are listed already.
Gone(p) ==
    \/ \A t \in Table : Exists(t) => tables[t].prefix # p
    \/ \E c \in SQLClient : Doing(c, "drop table", "batch") /\ sqlCall[c].prefix = p
    \/ \E c \in SQLClient : Doing(c, "drop table", "meta") /\ sqlCall[c].prefix = p

AfterRow(c) ==
    LET left == sqlCall[c].todo \ {NextChange(sqlCall[c])} IN
    IF left = {} THEN Return(c) ELSE Continue(c, [sqlCall[c] EXCEPT !.step = "key", !.todo = left])

\* BatchWrite. A failure ends the statement; rows it has written stay.
WriteRow(c) ==
    LET call == sqlCall[c]
        d == NextChange(call)
        p == call.prefix
    IN
    /\ call.step = "write"
    /\ \/ /\ rows' = RowsAfter(p, call.batch, d.new)
          /\ entries' = AfterBatch(call.batch)
          /\ unlisted' = IF Gone(p) THEN unlisted \cup {<<e[1], e[3]>> : e \in call.batch.dropEntries}
                         ELSE (unlisted \ (call.seen \X {d.to})) \cup
                                  {<<i, d.to>> : i \in ListByTable(call.table) \ call.seen}
          /\ strays' = strays \cup {<<p, r>> : r \in IF Gone(p) THEN call.batch.put ELSE {}}
          /\ AfterRow(c)
          /\ UNCHANGED sqlBounds
       \/ Fault /\ Return(c) /\ UNCHANGED <<rows, entries, unlisted, strays>>
    /\ UNCHANGED <<schema, indexes, unbuilt, unclean, crowded>>

-----------------------------------------------------------------------------
(* Tables.                                                                 *)

StartCreateTable(c, t, kind) ==
    StartStatement(c, [NoStatement EXCEPT !.op = "create table", !.step = "run", !.table = t, !.kind = kind])

StartAlterTable(c, t, kind) ==
    StartStatement(c, [NoStatement EXCEPT !.op = "alter table", !.step = "indexes", !.table = t, !.kind = kind])

StartDropTable(c, t) ==
    StartStatement(c, [NoStatement EXCEPT !.op = "drop table", !.step = "indexes", !.table = t])

\* TableManager.CreateTable. The prefix is used up also when the metadata cannot be saved.
CreateTable(c) ==
    LET t == sqlCall[c].table
        meta == [prefix |-> nextPrefix, column |-> sqlCall[c].kind]
    IN
    /\ Doing(c, "create table", "run") /\ ~Locked
    /\ IF Exists(t) \/ nextPrefix > MaxPrefix
       THEN UNCHANGED <<schema, sqlBounds>>
       ELSE /\ nextPrefix' = nextPrefix + 1
            /\ \/ /\ tableMeta' = [tableMeta EXCEPT ![t] = meta]
                  /\ tables' = [tables EXCEPT ![t] = meta]
                  /\ UNCHANGED sqlBounds
               \/ Fault /\ UNCHANGED <<tableMeta, tables>>
    /\ Return(c)
    /\ UNCHANGED <<rows, entries, indexes, sqlHistory>>

\* executeAlterTable refuses to drop a column that has an index, before it takes the lock.
CheckColumn(c) ==
    LET call == sqlCall[c] IN
    /\ Doing(c, "alter table", "indexes")
    /\ IF call.kind = "none" /\ ListByTable(call.table) # {} THEN Return(c)
       ELSE Continue(c, [call EXCEPT !.step = "run"])
    /\ UNCHANGED <<stored, tables, nextPrefix, byName, sqlBounds, sqlHistory>>

\* TableManager.AlterTable: ADD, DROP or MODIFY COLUMN. The metadata in memory are changed
\* before they are saved.
AlterTable(c) ==
    LET t == sqlCall[c].table
        altered == [tables EXCEPT ![t].column = sqlCall[c].kind]
    IN
    /\ Doing(c, "alter table", "run") /\ ~Locked
    /\ IF Exists(t) /\ (sqlCall[c].kind = "none" => tables[t].column # "none")
       THEN /\ tables' = altered
            /\ \/ /\ tableMeta' = [tableMeta EXCEPT ![t] = altered[t]]
                  /\ UNCHANGED sqlBounds
               \/ Fault /\ UNCHANGED tableMeta
       ELSE UNCHANGED <<tables, tableMeta, sqlBounds>>
    /\ Return(c)
    /\ UNCHANGED <<nextPrefix, rows, entries, indexes, sqlHistory>>

\* executeDropTable drops the indexes first, one by one, and goes on when one fails.
ListIndexes(c) ==
    LET listed == ListByTable(sqlCall[c].table) IN
    /\ Doing(c, "drop table", "indexes")
    /\ Continue(c, NextIndex([sqlCall[c] EXCEPT !.rest = listed]))
    /\ UNCHANGED <<stored, tables, nextPrefix, byName, sqlBounds, sqlHistory>>

\* TableManager.DropTable takes the lock and lists the rows.
DropTable(c) ==
    LET call == sqlCall[c]
        t == call.table
    IN
    /\ Doing(c, "drop table", "lock") /\ ~Locked
    /\ IF Exists(t) THEN Continue(c, [call EXCEPT !.step = "batch", !.prefix = tables[t].prefix,
                                 !.batch.drop = {r \in RowId : rows[tables[t].prefix][r] # NoRow}])
       ELSE Return(c)
    /\ UNCHANGED <<stored, tables, nextPrefix, byName, sqlBounds, sqlHistory>>

DropRows(c) ==
    LET call == sqlCall[c] IN
    /\ Doing(c, "drop table", "batch")
    /\ \/ /\ rows' = RowsAfter(call.prefix, call.batch, NoRow)
          /\ Continue(c, [call EXCEPT !.step = "meta"])
          /\ UNCHANGED sqlBounds
       \/ Fault /\ Return(c) /\ UNCHANGED rows
    /\ UNCHANGED <<tableMeta, indexMeta, entries, tables, nextPrefix, byName, sqlHistory>>

\* The metadata go from the store and, when that has not failed, from memory.
DropMeta(c) ==
    LET t == sqlCall[c].table IN
    /\ Doing(c, "drop table", "meta")
    /\ \/ /\ tableMeta' = [tableMeta EXCEPT ![t] = NoTable]
          /\ tables' = [tables EXCEPT ![t] = NoTable]
          /\ UNCHANGED sqlBounds
       \/ Fault /\ UNCHANGED <<tableMeta, tables>>
    /\ Return(c)
    /\ UNCHANGED <<nextPrefix, rows, entries, indexes, sqlHistory>>

-----------------------------------------------------------------------------
(* Indexes.                                                                *)

StartCreateIndex(c, i) ==
    StartStatement(c, [NoStatement EXCEPT !.op = "create index", !.step = "table", !.index = i])

StartDropIndex(c, i) ==
    StartStatement(c, [NoStatement EXCEPT !.op = "drop index", !.step = "forget", !.index = i])

IndexedTable(c) == IndexTable[sqlCall[c].index]

CheckTable(c) ==
    /\ Doing(c, "create index", "table") /\ ~Locked
    /\ IF Exists(IndexedTable(c)) THEN Continue(c, [sqlCall[c] EXCEPT !.step = "create"]) ELSE Return(c)
    /\ UNCHANGED <<stored, tables, nextPrefix, byName, sqlBounds, sqlHistory>>

\* Manager.Create under Manager.mu. From here on writers see the index. With IF NOT EXISTS an
\* index that is there already is filled once more.
CreateIndex(c, ifNotExists) ==
    LET i == sqlCall[c].index IN
    /\ Doing(c, "create index", "create")
    /\ \/ /\ i \in byName
          /\ IF ifNotExists THEN Continue(c, [sqlCall[c] EXCEPT !.step = "scan"]) ELSE Return(c)
          /\ UNCHANGED <<indexes, unbuilt, unlisted, sqlBounds>>
       \/ /\ i \notin byName
          /\ indexMeta' = indexMeta \cup {i}
          /\ byName' = byName \cup {i}
          /\ unbuilt' = unbuilt \cup {i}
          /\ unlisted' = {u \in unlisted : u[1] # i}
          /\ Continue(c, [sqlCall[c] EXCEPT !.step = "scan"])
          /\ UNCHANGED sqlBounds
       \/ i \notin byName /\ Fault /\ Return(c) /\ UNCHANGED <<indexes, unbuilt, unlisted>>
    /\ UNCHANGED <<schema, rows, entries, unclean, strays, crowded>>

\* The backfill reads a snapshot of the rows.
ScanForIndex(c) ==
    LET i == sqlCall[c].index
        t == IndexedTable(c)
        p == tables[t].prefix
    IN
    /\ Doing(c, "create index", "scan") /\ ~Locked
    /\ IF Exists(t) /\ Backfilled(p) # {}
       THEN Continue(c, [sqlCall[c] EXCEPT !.step = "rebuild",
                             !.todo = {Change(0, r, Missing, rows[p][r]) : r \in Backfilled(p)}])
       ELSE Return(c)
    /\ unbuilt' = IF Exists(t) /\ Backfilled(p) # {} THEN unbuilt ELSE unbuilt \ {i}
    /\ unlisted' = unlisted \cup (IF Exists(t) THEN {i} \X {r \in RowId \ Textual : rows[p][r] # NoRow} ELSE {})
    /\ UNCHANGED <<stored, tables, nextPrefix, byName, sqlBounds, unclean, strays, crowded>>

Duplicates(i, todo) ==
    i \in UniqueIndexes /\ \E d, e \in todo : d.to # e.to /\ Folded[d.new] = Folded[e.new]

\* RebuildFromRows, unless the index is gone again. Duplicates or a failure drop the index.
Rebuild(c) ==
    LET call == sqlCall[c]
        i == call.index
        give == Continue(c, [call EXCEPT !.step = "forget"])
    IN
    /\ Doing(c, "create index", "rebuild")
    /\ \/ i \notin byName /\ Return(c) /\ UNCHANGED <<entries, unbuilt, sqlBounds>>
       \/ i \in byName /\ Duplicates(i, call.todo) /\ give /\ UNCHANGED <<entries, unbuilt, sqlBounds>>
       \/ /\ i \in byName /\ ~Duplicates(i, call.todo)
          /\ entries' = entries \cup UNION {KeysForValue(i, d.new, d.to) : d \in call.todo}
          /\ unbuilt' = unbuilt \ {i}
          /\ Return(c)
          /\ UNCHANGED sqlBounds
       \/ i \in byName /\ ~Duplicates(i, call.todo) /\ Fault /\ give /\ UNCHANGED <<entries, unbuilt>>
    /\ UNCHANGED <<schema, indexes, rows, unlisted, unclean, strays, crowded>>

\* Manager.Drop, for DROP INDEX, DROP TABLE and a backfill that failed: the index goes from
\* memory, then its metadata, then its entries, listed first.
Forget(c) ==
    LET i == sqlCall[c].index IN
    /\ sqlCall[c].step = "forget"
    /\ byName' = byName \ {i}
    /\ unclean' = unclean \cup ({i} \cap byName)
    /\ Continue(c, IF i \in byName THEN [sqlCall[c] EXCEPT !.step = "unmeta"] ELSE Dropped(sqlCall[c]))
    /\ UNCHANGED <<stored, tables, nextPrefix, sqlBounds, unlisted, unbuilt, strays, crowded>>

DropIndexMeta(c) ==
    /\ sqlCall[c].step = "unmeta"
    /\ \/ /\ indexMeta' = indexMeta \ {sqlCall[c].index}
          /\ Continue(c, [sqlCall[c] EXCEPT !.step = "list"])
          /\ UNCHANGED sqlBounds
       \/ Fault /\ Continue(c, Dropped(sqlCall[c])) /\ UNCHANGED indexMeta
    /\ UNCHANGED <<schema, rows, entries, byName, sqlHistory>>

EntriesOf(i) == {e \in entries : e[1] = i}

ListEntries(c) ==
    LET i == sqlCall[c].index IN
    /\ sqlCall[c].step = "list"
    /\ Continue(c, IF EntriesOf(i) = {} THEN Dropped(sqlCall[c])
                   ELSE [sqlCall[c] EXCEPT !.step = "erase", !.batch.dropEntries = EntriesOf(i)])
    /\ unclean' = IF EntriesOf(i) = {} THEN unclean \ {i} ELSE unclean
    /\ UNCHANGED <<stored, tables, nextPrefix, byName, sqlBounds, unlisted, unbuilt, strays, crowded>>

EraseEntries(c) ==
    LET call == sqlCall[c] IN
    /\ call.step = "erase"
    /\ \/ /\ entries' = AfterBatch(call.batch)
          /\ unclean' = unclean \ {call.index}
          /\ UNCHANGED sqlBounds
       \/ Fault /\ UNCHANGED <<entries, unclean>>
    /\ Continue(c, Dropped([call EXCEPT !.batch = NoBatch]))
    /\ UNCHANGED <<schema, indexes, rows, unlisted, unbuilt, strays, crowded>>

-----------------------------------------------------------------------------
\* A crash ends the statements; the metadata are loaded from the store.
SQLCrash ==
    /\ sqlCrashes < MaxSQLCrash /\ sqlCrashes' = sqlCrashes + 1
    /\ sqlCall' = [c \in SQLClient |-> NoStatement]
    /\ tables' = tableMeta
    /\ nextPrefix' = NextFree(tableMeta)
    /\ byName' = indexMeta
    /\ UNCHANGED <<stored, statements, sqlFaults, sqlHistory>>

\* A step of a statement that has begun.
SQLStep(c) ==
    \/ ScanRows(c) \/ BeginWrite(c) \/ CheckKey(c) \/ CheckIndexes(c) \/ WriteRow(c)
    \/ CreateTable(c) \/ CheckColumn(c) \/ AlterTable(c)
    \/ ListIndexes(c) \/ DropTable(c) \/ DropRows(c) \/ DropMeta(c)
    \/ CheckTable(c) \/ (\E known \in BOOLEAN : CreateIndex(c, known)) \/ ScanForIndex(c) \/ Rebuild(c)
    \/ Forget(c) \/ DropIndexMeta(c) \/ ListEntries(c) \/ EraseEntries(c)

\* Any statement, with any arguments.
SQLStart(c) ==
    \/ \E t \in Table, ids \in SUBSET RowId : \E values \in [ids -> Row] : StartInsert(c, t, values)
    \/ \E t \in Table, where \in SUBSET RowId, set \in Row \cup {NoRow}, move \in RowId \cup {0} :
           StartUpdate(c, t, where, set, move)
    \/ \E t \in Table, where \in SUBSET RowId : StartDelete(c, t, where)
    \/ \E t \in Table, kind \in ColumnKind : StartCreateTable(c, t, kind) \/ StartAlterTable(c, t, kind)
    \/ \E t \in Table : StartDropTable(c, t)
    \/ \E i \in Index : StartCreateIndex(c, i) \/ StartDropIndex(c, i)

SQLNext == SQLCrash \/ \E c \in SQLClient : SQLStart(c) \/ SQLStep(c)

\* A store that the process may find: tables with prefixes of their own, rows only under them.
SoundStore(created, held) ==
    /\ \A t, u \in Table : t # u /\ created[t] # NoTable /\ created[u] # NoTable => created[t].prefix # created[u].prefix
    /\ \A p \in Prefix, r \in RowId :
           held[p][r] # NoRow => \E t \in Table : created[t] # NoTable /\ created[t].prefix = p

SQLInit ==
    \E created \in [Table -> TableMeta \cup {NoTable}], indexed \in SUBSET Index,
       held \in [Prefix -> [RowId -> Row \cup {NoRow}]] :
        SoundStore(created, held) /\ TablesInit(created, indexed, held)

TablesSpec == SQLInit /\ [][SQLNext]_sqlVars

\* The indexes are created and dropped by one statement at a time, whatever others write. A
\* DROP INDEX that has taken the index from memory erases by its name, and so the entries too
\* of an index of that name created since.
ChangesIndexes(c) == sqlCall[c].op \in {"create index", "drop index", "drop table"}

IndexesChangedAlone == \A c, d \in SQLClient : ChangesIndexes(c) /\ ChangesIndexes(d) => c = d

TablesSpecAlone == SQLInit /\ [][SQLNext /\ IndexesChangedAlone']_sqlVars

-----------------------------------------------------------------------------
(* What the tables and the indexes promise.                                *)

\* The rows of a table, and what an index holds of it.
RowsOf(t) == IF Exists(t) THEN rows[tables[t].prefix] ELSE [r \in RowId |-> NoRow]

Indexed(i, r) == RowsOf(IndexTable[i])[r] \in Value

\* A row that must have an entry in an index. Left out are the rows of writers that had listed
\* the indexes before the index was there, that DROP TABLE overtook, or whose UNIQUE violation
\* was lost, and the rows the backfill cannot name.
Due(i, r) ==
    Indexed(i, r) /\ <<i, r>> \notin unlisted /\ <<tables[IndexTable[i]].prefix, r>> \notin strays

Entered(i, r) == <<i, Folded[RowsOf(IndexTable[i])[r]], r>> \in entries

\* InsertRowOps, UpdateRowOps and DeleteRowOps with the row in one batch: whoever writes, in
\* whatever order, with failures and crashes, every row has its entry in every index that was
\* built and whose DROP has not failed, so an index lookup finds it.
IndexComplete == \A i \in byName \ (unbuilt \cup unclean), r \in RowId : Due(i, r) => Entered(i, r)

\* As long as statements come one at a time, an index whose DROP has not failed has no other
\* entries than those, so a lookup returns no row that does not match, although the executor does
\* not filter again what the index found; also when a backfill was cut short.
IndexSound ==
    ~crowded =>
        \A e \in entries : e[1] \in byName \ unclean =>
            Indexed(e[1], e[3]) /\ Folded[RowsOf(IndexTable[e[1]])[e[3]]] = e[2]

\* As long as statements come one at a time, no two rows of a table have one value, up to case,
\* in a column with a UNIQUE index, however the index came to be: validateUnique and
\* validateUniqueInBatch, over failures and restarts. Left out are rows no index lists.
ApartIn(i, left) ==
    \A r, s \in RowId :
        r # s /\ Indexed(i, r) /\ Indexed(i, s) /\ {<<i, r>>, <<i, s>>} \cap left = {} =>
            Folded[RowsOf(IndexTable[i])[r]] # Folded[RowsOf(IndexTable[i])[s]]

UniqueApart == \A i \in (byName \cap UniqueIndexes) \ (unbuilt \cup unclean) : ApartIn(i, unlisted)

UniqueKept == ~crowded => UniqueApart

\* The prefix allocation over drops, failures and restarts: no two tables share rows, and a
\* prefix that is still to be given away has no rows left of an older table, but those of
\* writers that DROP TABLE overtook.
PrefixesApart ==
    /\ \A t, u \in Table : t # u /\ Exists(t) /\ Exists(u) => tables[t].prefix # tables[u].prefix
    /\ \A p \in Prefix, r \in RowId : p >= nextPrefix /\ rows[p][r] # NoRow => <<p, r>> \in strays
=============================================================================
