------------------------------ MODULE MCData -------------------------------
(***************************************************************************)
(* Small data services for TLC: SQL tables, SELECT, index keys, a vector   *)
(* index, a graph, and a node's state under Raft. They share nothing but   *)
(* the store below them, so each behaviour runs one of them with one mix   *)
(* of calls: data names it.                                                *)
(***************************************************************************)
EXTENDS Tables, Queries, IndexKeys, VectorIndex, GraphWalks, RaftEngine

CONSTANT Services      \* the mixes to run

VARIABLE data

dataVars == <<data, sqlVars, queryVars, keyVars, vectorVars, graphVars, engineVars>>

-----------------------------------------------------------------------------
(* Tables. "rows": two clients write rows of an indexed table; "alone":    *)
(* one statement at a time, of any kind; "schema": one client changes the  *)
(* schema and another writes a row.                                        *)

OnTableOne == [i \in Index |-> 1]
FoldedText == [v \in Value |-> IF v = "A" THEN "a" ELSE v]

OneTable == [t \in Table |-> IF t = 1 THEN [prefix |-> 1, column |-> "nullable"] ELSE NoTable]
NoTables == [t \in Table |-> NoTable]
NoneHeld == [p \in Prefix |-> [r \in RowId |-> NoRow]]
FirstRowHeld == [NoneHeld EXCEPT ![1][1] = "a"]

Inserted(ids) == UNION {[S -> Row] : S \in {{r} : r \in ids}} \cup {f \in [RowId -> Value] : RowId \subseteq ids}

RowStatement(c, ids) ==
    \/ \E f \in Inserted(ids) : StartInsert(c, 1, f)
    \/ \E where \in (SUBSET ids) \ {{}}, set \in Row \cup {NoRow}, move \in {0} \cup ids : StartUpdate(c, 1, where, set, move)
    \/ \E where \in (SUBSET ids) \ {{}} : StartDelete(c, 1, where)

SchemaStatement(c, targets) ==
    \/ \E t \in targets, kind \in ColumnKind \ {"none"} : StartCreateTable(c, t, kind)
    \/ \E t \in targets : StartDropTable(c, t)
    \/ \E kind \in ColumnKind : StartAlterTable(c, 1, kind)
    \/ \E i \in Index : StartCreateIndex(c, i) \/ StartDropIndex(c, i)

Begins(c, most) == sqlCall[c].step = "idle" /\ statements < most
SomeSQLStep == \E c \in SQLClient : SQLStep(c)

TablesNext ==
    \/ /\ data = "rows"
       /\ SomeSQLStep \/ \E c \in SQLClient : Begins(c, 2) /\ RowStatement(c, RowId)
       /\ sqlFaults' = 0
    \/ /\ data = "alone"
       /\ SomeSQLStep \/ SQLCrash \/ (Begins(1, 3) /\ (RowStatement(1, RowId) \/ SchemaStatement(1, {1})))
    \/ /\ data = "schema"
       /\ \/ SomeSQLStep \/ SQLCrash
          \/ Begins(1, MaxStatements) /\ SchemaStatement(1, Table)
          \/ Begins(2, MaxStatements) /\ \E f \in Inserted({1}) : StartInsert(2, 1, f)

-----------------------------------------------------------------------------
(* SELECT. Column id is the key, v has the indexes, w another type; 1 and  *)
(* 3 are a value in two cases. To be grouped, w and x are texts: 6 is      *)
(* '<nil>', 7 is 'a' and 8 is two a's with a NUL between them.             *)

CaseFolded == [v \in 0..13 |-> IF v = 1 THEN 3 ELSE v]

PrintedText == [v \in 0..13 |-> CASE v \in {0, 6} -> <<"<nil>">> [] v = 8 -> <<"7", "7">> [] OTHER -> <<ToString(v)>>]

RowWith(k, v, w) == (Bare("id") :> 10 + k) @@ (Bare("w") :> 5 + w) @@ (IF v = 9 THEN << >> ELSE Bare("v") :> v)
HeapOf(values, others) == [k \in DOMAIN values |-> RowWith(k, values[k], others[k])]

Heaps == [t : {HeapOf(Append(vs, 3), <<2, 1, 2>>) : vs \in [1..2 -> {0, 1, 2, 3, 9}]}, u : {<< >>}]
GroupRow(k, v, w, x) == (Bare("id") :> 10 + k) @@ (Bare("v") :> v) @@ (Bare("w") :> w) @@ (Bare("x") :> x)
GroupHeaps ==
    [t : {[k \in 1..3 |-> GroupRow(k, vs[k], ws[k], xs[k])] :
             vs \in {<<0, 2, 3>>, <<3, 2, 2>>}, ws \in [1..3 -> {0, 6, 7, 8}], xs \in {<<8, 7, 7>>, <<7, 8, 7>>}},
     u : {<< >>}]
JoinHeaps == [t : {HeapOf(vs, <<2, 1>>) : vs \in [1..2 -> {0, 2, 3}]},
              u : {HeapOf(vs, <<1, 2>>) : vs \in UNION {[1..n -> {0, 2, 3}] : n \in 0..2}}]
Catalogs == [v : SUBSET {"HASH", "BTREE"}, w : {{}, {"BTREE"}}]

AllRows == [alias |-> "", where |-> << >>, joins |-> << >>, columns |-> <<Star>>, group |-> << >>,
            having |-> << >>, order |-> << >>, limit |-> 0, offset |-> 0]

Comparison(col, op, lit, swapped) == [any |-> {[kind |-> "literal", col |-> col, op |-> op, lit |-> lit, swapped |-> swapped]}]
Up(col) == [col |-> col, asc |-> TRUE]
Down(col) == [col |-> col, asc |-> FALSE]
Item(fn, name) == [fn |-> fn, col |-> Bare(name), as |-> ""]

Conditions ==
    {Comparison(Bare("v"), op, 3, swapped) : op \in DOMAIN Flip, swapped \in BOOLEAN}
        \cup {Comparison(Bare("v"), op, 0, FALSE) : op \in {"=", ">"}}
        \cup {[any |-> {[kind |-> "between", col |-> Bare("v"), low |-> 2, high |-> 3]}],
              [any |-> Comparison(Bare("v"), "=", 2, FALSE).any \cup Comparison(Bare("w"), ">", 6, FALSE).any]}

FilterQueries ==
    {[AllRows EXCEPT !.where = where, !.order = order, !.columns = columns] :
        where \in {<< >>} \cup {<<c>> : c \in Conditions} \cup {<<c, Comparison(Bare("v"), "<=", 3, FALSE)>> : c \in Conditions}
                      \cup {<<Comparison(Bare("w"), "=", 7, FALSE), c>> : c \in Conditions},
        order \in {<< >>, <<Up(Bare("v"))>>, <<Down(Bare("v"))>>}, columns \in {<<Star>>, <<Item("", "v")>>}}

PageQueries ==
    {[AllRows EXCEPT !.where = where, !.order = order, !.limit = limit, !.offset = offset] :
        where \in {<< >>, <<Comparison(Bare("v"), ">", 2, FALSE)>>}, limit \in 0..2, offset \in 0..2,
        order \in {<<Up(Bare("v"))>>, <<Down(Bare("v"))>>, <<Down(Bare("w")), Up(Bare("v"))>>}}

GroupQueries ==
    {[AllRows EXCEPT !.where = where, !.order = order, !.group = group, !.having = having,
                     !.columns = <<Item("COUNT", "*"), Item("SUM", "v"), Item("MIN", "v"), Item("MAX", "v"), Item("AVG", "v")>>] :
        where \in {<< >>, <<Comparison(Bare("v"), ">", 2, FALSE)>>}, order \in {<< >>, <<Down(Bare("w"))>>, <<Up(Bare("v"))>>},
        having \in {<< >>, <<Comparison(Bare("w"), ">", 6, FALSE)>>,
                    <<[any |-> {[kind |-> "call", op |-> ">", lit |-> 1]}]>>},
        group \in {<< >>, <<Bare("w")>>, <<Bare("v")>>, <<Bare("w"), Bare("v")>>, <<Bare("w"), Bare("x")>>}}

JoinOn(name, op) == [any |-> {[kind |-> "columns", col |-> <<"a", name>>, op |-> op, other |-> <<"b", name>>]}]

JoinQueries ==
    {[AllRows EXCEPT !.alias = "a", !.where = where, !.order = order,
                     !.joins = <<[node |-> "join", table |-> "u", alias |-> "b", type |-> type, on |-> on]>>] :
        where \in {<< >>, <<Comparison(<<"b", "w">>, "<", 7, FALSE)>>}, order \in {<< >>, <<Up(<<"a", "v">>)>>},
        type \in {"INNER", "LEFT"}, on \in {JoinOn("v", "="), JoinOn("w", "<=")}}

QueriesNext ==
    /\ select = NoSelect
    /\ \/ data = "filter" /\ \E s \in FilterQueries : Select(s)
       \/ data = "page" /\ \E s \in PageQueries : Select(s)
       \/ data = "group" /\ \E s \in GroupQueries : Select(s)
       \/ data = "join" /\ \E s \in JoinQueries : Select(s)

-----------------------------------------------------------------------------
(* Index keys: two indexes, the name of one extending the other's, and ids *)
(* that extend one another.                                                *)

IndexNames == {<<2>>, <<2, 2>>}
KeyTexts == {Nil} \cup {Text(b) : b \in {<< >>, <<1>>, <<2>>, <<2, 1>>, <<2, 3>>, <<3>>}}
KeyNumbers == {Nil} \cup {Number(negative, m) : negative \in BOOLEAN, m \in {0, 1, 3, 7}}
KeyedRows(S, other) ==
    {(<<2>> :> values) @@ (<<2, 2>> :> (<<2>> :> other)) :
        values \in UNION {[D -> S] : D \in {{<<1>>, <<1, 2>>}, {<<2>>, <<1, 2>>}}}}
KeyPool == IF \E id \in DOMAIN keyed[<<2>>] : keyed[<<2>>][id].kind = "number" THEN KeyNumbers ELSE KeyTexts

KeysNext ==
    data = "keys" /\ lookup = NoLookup /\
                     \/ \E n \in IndexNames, v \in KeyPool : FindEqual(n, v)
                     \/ \E low, high \in KeyPool, withLow, withHigh \in BOOLEAN : FindRange(<<2>>, low, high, withLow, withHigh)

-----------------------------------------------------------------------------
(* The vector index. "calls": two clients, of which the second calls while *)
(* the first is busy; "searches": one call at a time, on more vectors.     *)

VectorsUp == <<1, 2, 3, 4, 5, 6>>
BothWays == {VectorsUp, Reverse(VectorsUp)}
NoVectors == [id \in VectorId |-> NoVector]
TwoHeld == [NoVectors EXCEPT ![1] = 3, ![2] = 6]
FiveHeld == [id \in VectorId |-> IF id < 6 THEN id ELSE NoVector]

VectorsIdle == \A c \in VectorClient : vectorCall[c].step = "idle"
SomeVectorStep == \E c \in VectorClient : VectorStep(c)

VectorsNext ==
    \/ data \in {"calls", "searches"} /\ (SomeVectorStep \/ Reload)
    \/ data = "calls" /\ \E c \in VectorClient :
           /\ \A d \in VectorClient : d < c => vectorCall[d].step # "idle"
           /\ \/ StartCreateVectorIndex(c)
              \/ \E id \in {1, 2} : StartVectorDelete(c, id) \/ \E v \in {1, 4}, p \in Payload : StartVectorInsert(c, id, v, p)
              \/ StartSearch(c, 3, 1)
    \/ data = "searches" /\ VectorsIdle /\
           \/ StartCreateVectorIndex(1)
           \/ \E id \in {1, 3, 5, 6} : StartVectorDelete(1, id) \/ StartVectorInsert(1, id, id, NoPayload)
           \/ StartVectorInsert(1, 1, 3, NoPayload)
           \/ \E q \in {1, 4}, k \in 1..3 : StartSearch(1, q, k)

-----------------------------------------------------------------------------
(* The graph. "walks": any three edges, walked over; "writes": two clients *)
(* write an edge or two, and then a walk; "lineage".                       *)

PlainNode == [type |-> 1, name |-> 1]
EdgeOf(from, to) == [type |-> 1, from |-> from, to |-> to]
MaybeEdge(ends) == {NoRecord} \cup {EdgeOf(p[1], p[2]) : p \in ends}
NodesUpTo(last) == [n \in NodeId |-> IF n <= last THEN PlainNode ELSE NoRecord]
AnyEdges == {<<a, b, c>> : a \in MaybeEdge((1..3) \X (1..3)), b \in MaybeEdge((1..3) \X (1..3)), c \in MaybeEdge((1..3) \X {4})}
OneEdge == [e \in EdgeId |-> IF e = 1 THEN EdgeOf(1, 2) ELSE NoRecord]
NoEdges == [e \in EdgeId |-> NoRecord]

GraphIdle == \A c \in GraphClient : graphCall[c] = NoGraphCall

WalksFrom(S, hops) ==
    \E n \in S, way \in Direction :
        \/ WalkNeighbors(n, way)
        \/ \E k \in hops : WalkHops(n, k, way)
        \/ \E m \in S : WalkPath(n, m, way)

\* Clients are alike: the second calls while the first is busy.
GraphWrites(c) ==
    /\ \A d \in GraphClient : d < c => graphCall[d] # NoGraphCall
    /\ \/ \E name \in Label : AddNode(c, 1, [type |-> 1, name |-> name])
       \/ \E n \in {1, 2} : DeleteNode(c, n)
       \/ \E edge \in {EdgeOf(1, 2), EdgeOf(2, 1)} : AddEdge(c, 1, edge)
       \/ \E edge \in {EdgeOf(1, 2), EdgeOf(2, 2)} : AddEdge(c, 2, edge)
       \/ DeleteEdge(c, 1)

\* A behaviour ends with its first walk.
GraphNext ==
    /\ walk = NoWalk
    /\ \/ data = "walks" /\ WalksFrom(NodeId, 0..3)
       \/ data = "writes" /\ \/ GraphCrash \/ (GraphIdle /\ WalksFrom({1, 2}, {2}))
                             \/ \E c \in GraphClient : GraphStep(c) \/ GraphWrites(c)
       \/ data = "lineage" /\ \/ \E d \in DataId, sources \in {<< >>} \cup UNION {[1..n -> DataId] : n \in 1..2} : Record(d, sources)
                              \/ \E d \in DataId, depth \in 0..3 : WalkUpstream(d, depth)
    /\ graphCalls' + graphFaults' + graphCrashes' <= 3

-----------------------------------------------------------------------------
(* A node under Raft, member 1: writes of one key and changes of peers.    *)

\* Values are alike: the first one written is v.
SetFirst == \E j \in DOMAIN committedCmds : \E k \in StateKey : committedCmds[j] = EngineCmd("set", k :> "v")

EngineCommands ==
    {EngineCmd("set", k :> v) : k \in StateKey, v \in IF SetFirst THEN StateValue ELSE {"v"}}
        \cup {EngineCmd(type, k :> Absent) : type \in {"delete", "batch"}, k \in StateKey}
        \cup {PeerCmd("add", p) : p \in Member \ {1}} \cup {PeerCmd("remove", p) : p \in Configured \ {1}}

NodeStateNext == data = "engine" /\ (EngineStep \/ \E cmd \in EngineCommands : CommitCmd(cmd))

-----------------------------------------------------------------------------
(* One service at a time.                                                  *)

Only(A, others) == A /\ UNCHANGED <<data, others>>

DataNext ==
    \/ Only(TablesNext, <<queryVars, keyVars, vectorVars, graphVars, engineVars>>)
    \/ Only(QueriesNext, <<sqlVars, keyVars, vectorVars, graphVars, engineVars>>)
    \/ Only(KeysNext, <<sqlVars, queryVars, vectorVars, graphVars, engineVars>>)
    \/ Only(VectorsNext, <<sqlVars, queryVars, keyVars, graphVars, engineVars>>)
    \/ Only(GraphNext, <<sqlVars, queryVars, keyVars, vectorVars, engineVars>>)
    \/ Only(NodeStateNext, <<sqlVars, queryVars, keyVars, vectorVars, graphVars>>)

TablesStart ==
    CASE data \in {"rows", "alone"} -> \E indexed \in SUBSET Index, held \in {NoneHeld, FirstRowHeld} : TablesInit(OneTable, indexed, held)
      [] data = "schema" -> TablesInit(NoTables, {}, NoneHeld) \/ TablesInit(OneTable, {}, FirstRowHeld)
      [] OTHER -> TablesInit(NoTables, {}, NoneHeld)

QueriesStart ==
    CASE data \in {"filter", "page"} -> \E h \in Heaps, indexed \in Catalogs : QueryInit(h, indexed)
      [] data = "group" -> \E h \in GroupHeaps, indexed \in {[v |-> types, w |-> types] : types \in {{}, {"BTREE"}}} : QueryInit(h, indexed)
      [] data = "join" -> \E h \in JoinHeaps, indexed \in Catalogs : QueryInit(h, indexed)
      [] OTHER -> QueryInit([t |-> << >>, u |-> << >>], [v |-> {}, w |-> {}])

KeysStart ==
    IF data = "keys"
    THEN \E values \in KeyedRows(KeyTexts, Text(<<2, 3>>)) \cup KeyedRows(KeyNumbers, Number(FALSE, 1)) : KeysInit(values)
    ELSE KeysInit(<< >>)

VectorsStart ==
    CASE data = "calls" -> VectorInit(NoVectors) \/ VectorInit(TwoHeld)
      [] data = "searches" -> VectorInit(NoVectors) \/ VectorInit(FiveHeld)
      [] OTHER -> VectorInit(NoVectors)

GraphStart ==
    CASE data = "walks" -> \E edges \in AnyEdges : GraphInit([NodesUpTo(4) EXCEPT ![3] = NoRecord], edges)
      [] data = "writes" -> GraphInit(NodesUpTo(2), OneEdge)
      [] OTHER -> GraphInit(NodesUpTo(0), NoEdges)

DataInit == data \in Services /\ TablesStart /\ QueriesStart /\ KeysStart /\ VectorsStart /\ GraphStart
            /\ EngineInit /\ (data # "engine" => cluster = {})

DataSpec == DataInit /\ [][DataNext]_dataVars
=============================================================================
