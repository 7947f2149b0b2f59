------------------------------ MODULE Queries ------------------------------
(***************************************************************************)
(* SELECT: the planner and the plan operators of internal/query/sql, from  *)
(* the parsed statement to the rows of the answer (planner.go,             *)
(* executor.go).                                                           *)
(*                                                                         *)
(* A value is a number: Null, or its rank in the order of compareValues    *)
(* among the values of its column, which are of one type. A row is a       *)
(* function from the columns it has to values; a column's name is a pair   *)
(* <<alias, name>>, with the alias "" when it is not qualified. A table is *)
(* the sequence of its rows in the order of their keys. A plan is the      *)
(* sequence of its nodes from the scan upwards.                            *)
(***************************************************************************)
EXTENDS Integers, Sequences, FiniteSets, SequencesExt, TLC

CONSTANTS IndexOrder,   \* IndexOrder[v]: the place of v's key in an index (case is folded)
          Printed,      \* Printed[v]: the text %v makes of v, as the pieces between its NULs
          AvgScale      \* averages are counted in 1/AvgScale

Null == 0

ASSUME QueriesAssumption ==
    /\ \A v \in DOMAIN IndexOrder : v \in Nat /\ IndexOrder[v] \in Nat
    /\ Null \in DOMAIN IndexOrder /\ \A v \in DOMAIN IndexOrder : IndexOrder[Null] <= IndexOrder[v]
    /\ \A v \in DOMAIN IndexOrder : Printed[v] # << >>
    /\ AvgScale \in Nat \ {0}

VARIABLES heap,      \* heap[t]: the rows of table t
          catalog,   \* catalog[c]: the types of the indexes on the column c of the first table
          select,    \* the statement
          answer     \* the rows it answered

queryVars == <<heap, catalog, select, answer>>

NoSelect == [limit |-> 0]
Unbounded == Null

Bare(name) == <<"", name>>
Star == [fn |-> "*", col |-> Bare("*"), as |-> ""]

-----------------------------------------------------------------------------
(* Expressions.                                                            *)

\* evalExpr of an identifier: its full name, or else the bare one, or else nil.
Lookup(row, col) ==
    CASE col \in DOMAIN row -> row[col]
      [] col \notin DOMAIN row /\ Bare(col[2]) \in DOMAIN row -> row[Bare(col[2])]
      [] OTHER -> Null

\* compareValues: nil comes before everything, and equals itself.
Compares(op, a, b) ==
    CASE op = "=" -> a = b   [] op = "<>" -> a # b
      [] op = "<" -> a < b   [] op = "<=" -> a <= b
      [] op = ">" -> a > b   [] op = ">=" -> a >= b

Flip == ("<" :> ">") @@ ("<=" :> ">=") @@ (">" :> "<") @@ (">=" :> "<=") @@ ("=" :> "=") @@ ("<>" :> "<>")

\* evalBool. A comparison has a column and a literal (swapped: the literal is on the left), a
\* join's has two columns; BETWEEN, IN, LIKE and IS NULL and a call of an aggregate function
\* evaluate to nil.
Holds(e, row) ==
    \/ e.kind = "literal" /\ ~e.swapped /\ Compares(e.op, Lookup(row, e.col), e.lit)
    \/ e.kind = "literal" /\ e.swapped /\ Compares(e.op, e.lit, Lookup(row, e.col))
    \/ e.kind = "columns" /\ Compares(e.op, Lookup(row, e.col), Lookup(row, e.other))
    \/ e.kind = "call" /\ Compares(e.op, Null, e.lit)

\* One conjunct of WHERE: a comparison, several joined by OR, or a BETWEEN.
Passes(c, row) == \E e \in c.any : Holds(e, row)

FilterRows(rows, conjuncts) == SelectSeq(rows, LAMBDA row : \A k \in DOMAIN conjuncts : Passes(conjuncts[k], row))

-----------------------------------------------------------------------------
(* The planner.                                                            *)

Types(cat, name) == IF name \in DOMAIN cat THEN cat[name] ELSE {}

\* pickIndex: EQ prefers HASH and falls back to BTREE; a range can only use BTREE.
PickEqual(cat, name) == CHOOSE ty \in Types(cat, name) : ty = "HASH" \/ "HASH" \notin Types(cat, name)

EqualNode(name, lit) == [node |-> "equal", col |-> name, low |-> lit, high |-> lit, withLow |-> TRUE, withHigh |-> TRUE]
RangeNode(name, low, high, withLow, withHigh) ==
    [node |-> "range", col |-> name, low |-> low, high |-> high, withLow |-> withLow, withHigh |-> withHigh]

\* The operator as it would be with the column on the left.
EffectiveOp(e) == IF e.swapped THEN Flip[e.op] ELSE e.op

\* matchIndexPredicate: the index scans that can stand for a conjunct, at most one. The
\* qualifier of the column is not looked at.
MatchIndexPredicate(cat, c) ==
    UNION {LET name == e.col[2]
               op == EffectiveOp(e)
               ranges == "BTREE" \in Types(cat, name)
           IN  (IF e.kind = "literal" /\ op = "=" /\ Types(cat, name) # {} THEN {EqualNode(name, e.lit)} ELSE {})
                  \cup
               (IF e.kind = "literal" /\ op \in {"<", "<="} /\ ranges
                THEN {RangeNode(name, Unbounded, e.lit, TRUE, op = "<=")} ELSE {})
                  \cup
               (IF e.kind = "literal" /\ op \in {">", ">="} /\ ranges
                THEN {RangeNode(name, e.lit, Unbounded, op = ">=", TRUE)} ELSE {})
                  \cup
               (IF e.kind = "between" /\ ranges
                THEN {RangeNode(name, e.low, e.high, TRUE, TRUE)} ELSE {}) : e \in IF Cardinality(c.any) = 1 THEN c.any ELSE {}}

\* tryIndexScan takes the first conjunct an index can stand for; the others remain.
Served(cat, where) == {k \in DOMAIN where : MatchIndexPredicate(cat, where[k]) # {}}
FirstServed(cat, where) == CHOOSE k \in Served(cat, where) : \A l \in Served(cat, where) : k <= l
\* Mutant: all the conjuncts count as answered by the index.
NothingRemains(cat, where) == IF Served(cat, where) = {} THEN where ELSE << >>

RemainingWhere(cat, where) == IF Served(cat, where) = {} THEN where ELSE RemoveAt(where, FirstServed(cat, where))

HasAggregates(s) == s.group # << >> \/ \E k \in DOMAIN s.columns : s.columns[k].fn \notin {"", "*"}

ScanOf(t, alias) == [node |-> "scan", table |-> t, alias |-> alias]

\* ORDER BY by one column that the index scan of WHERE has sorted by already.
FollowsScan(s, base) ==
    ~HasAggregates(s) /\ base.node \in {"equal", "range"} /\ Len(s.order) = 1 /\ s.order[1].col[2] = base.col

\* ORDER BY by one column with a BTREE index and, so hasFilterOrIndexScan finds, no WHERE. It
\* does not look below an aggregation or a join, and what it replaces is the whole plan.
OrdersByIndex(s, cat, base, filters) ==
    /\ Len(s.order) = 1 /\ "BTREE" \in Types(cat, s.order[1].col[2])
    /\ HasAggregates(s) \/ (filters = << >> /\ base.node = "scan")

\* planSelect.
PlanSelect(s, cat) ==
    LET served == s.joins = << >> /\ Served(cat, s.where) # {}
        base == IF served
                THEN [alias |-> s.alias] @@ (CHOOSE n \in MatchIndexPredicate(cat, s.where[FirstServed(cat, s.where)]) : TRUE)
                ELSE ScanOf("t", s.alias)
        remaining == IF served THEN RemainingWhere(cat, s.where) ELSE s.where
        filters == IF remaining = << >> THEN << >> ELSE <<[node |-> "filter", where |-> remaining]>>
        follows == FollowsScan(s, base)
        reversed == IF follows /\ ~s.order[1].asc THEN <<[node |-> "reverse"]>> ELSE << >>
        top == IF HasAggregates(s)
               THEN [node |-> "aggregate", columns |-> s.columns, group |-> s.group, having |-> s.having]
               ELSE [node |-> "project", columns |-> s.columns]
        chain == IF ~follows /\ OrdersByIndex(s, cat, base, filters)
                 THEN <<[node |-> "ordered", alias |-> s.alias, col |-> s.order[1].col[2], asc |-> s.order[1].asc]>>
                 ELSE <<base>> \o reversed \o s.joins \o filters \o <<top>> \o
                          (IF s.order = << >> \/ follows THEN << >> ELSE <<[node |-> "sort", order |-> s.order]>>)
    IN  IF s.limit = 0 /\ s.offset = 0 THEN chain
        ELSE Append(chain, [node |-> "limit", limit |-> s.limit, offset |-> s.offset])

-----------------------------------------------------------------------------
(* The operators of a plan: each makes rows of rows.                       *)

Positions(rows) == [k \in 1..Len(rows) |-> k]
Permuted(rows, order) == [k \in 1..Len(rows) |-> rows[order[k]]]

\* executeScan puts the alias before each name, and keeps the bare names.
Aliased(row, alias) ==
    IF alias = "" THEN row
    ELSE row @@ [c \in {<<alias, d[2]>> : d \in DOMAIN row} |-> row[Bare(c[2])]]

ExecuteScan(rows, alias) == [k \in 1..Len(rows) |-> Aliased(rows[k], alias)]

\* The rows an index has, in the order of their entries: by key and then by row id.
InIndexOrder(rows, name) ==
    LET has == SelectSeq(rows, LAMBDA row : Bare(name) \in DOMAIN row)
        key(k) == IndexOrder[has[k][Bare(name)]]
    IN  Permuted(has, SortSeq(Positions(has), LAMBDA j, k : key(j) < key(k) \/ (key(j) = key(k) /\ j < k)))

\* LookupEqual and LookupRange, as executeIndexScan uses them.
IndexEqual(rows, n) ==
    SelectSeq(InIndexOrder(rows, n.col), LAMBDA row : IndexOrder[row[Bare(n.col)]] = IndexOrder[n.low])

WithinBounds(n, at) ==
    /\ n.low = Unbounded \/ IndexOrder[n.low] < at \/ (n.withLow /\ IndexOrder[n.low] = at)
    /\ n.high = Unbounded \/ at < IndexOrder[n.high] \/ (n.withHigh /\ at = IndexOrder[n.high])

IndexRange(rows, n) ==
    SelectSeq(InIndexOrder(rows, n.col), LAMBDA row : WithinBounds(n, IndexOrder[row[Bare(n.col)]]))

IndexOrderedScan(rows, n) == LET up == InIndexOrder(rows, n.col) IN IF n.asc THEN up ELSE Reverse(up)

\* The name of a column of the answer: its alias or the text of its expression.
NameOf(item) ==
    CASE item.as # "" -> Bare(item.as)
      [] item.as = "" /\ item.fn = "" -> item.col
      [] OTHER -> <<item.fn, item.col[2]>>

ItemNamed(columns, name) == columns[Max({k \in DOMAIN columns : NameOf(columns[k]) = name})]
Names(columns) == {NameOf(columns[k]) : k \in DOMAIN columns}

Project(rows, columns) ==
    IF columns = <<Star>> THEN rows
    ELSE [k \in 1..Len(rows) |-> [name \in Names(columns) |-> Lookup(rows[k], ItemNamed(columns, name).col)]]

\* Mutant: the last of them decides.
LastDecides(order, a, b) ==
    LET k == Len(order) IN
        IF order[k].asc THEN Lookup(a, order[k].col) < Lookup(b, order[k].col)
        ELSE Lookup(a, order[k].col) > Lookup(b, order[k].col)

\* executeSort is stable; the first of the columns that differ decides.
SortsBefore(order, a, b) ==
    \E k \in DOMAIN order :
        /\ \A l \in 1..(k - 1) : Lookup(a, order[l].col) = Lookup(b, order[l].col)
        /\ IF order[k].asc THEN Lookup(a, order[k].col) < Lookup(b, order[k].col)
           ELSE Lookup(a, order[k].col) > Lookup(b, order[k].col)

Sorted(rows, order) ==
    Permuted(rows, SortSeq(Positions(rows), LAMBDA j, k :
        SortsBefore(order, rows[j], rows[k]) \/ (~SortsBefore(order, rows[k], rows[j]) /\ j < k)))

\* An offset that reaches the end leaves nothing; a limit of 0 is none.
Page(rows, limit, offset) ==
    LET rest == IF offset >= Len(rows) THEN << >> ELSE SubSeq(rows, offset + 1, Len(rows))
    IN  IF limit > 0 /\ limit < Len(rest) THEN SubSeq(rest, 1, limit) ELSE rest

\* executeJoin: nested loops. LEFT JOIN keeps a row without a match and sets the columns that
\* the first right row has to nil, the bare names among them.
Merge(left, right) == right @@ left
Matches(row, right, on) == SelectSeq([k \in 1..Len(right) |-> Merge(row, right[k])], LAMBDA m : Passes(on, m))

\* Mutant: LEFT JOIN keeps the rows without a match only.
JoinOuterOnly(left, right, type, on) ==
    FoldLeft(LAMBDA done, row :
        IF type = "LEFT" /\ Matches(row, right, on) = << >> THEN Append(done, row)
        ELSE done \o (IF type = "LEFT" THEN << >> ELSE Matches(row, right, on)), << >>, left)

Join(left, right, type, on) ==
    LET none == IF right = << >> THEN << >> ELSE [c \in DOMAIN right[1] |-> Null]
        joined(row) == LET found == Matches(row, right, on)
                       IN  IF found = << >> /\ type = "LEFT" THEN <<Merge(row, none)>> ELSE found
    IN  FoldLeft(LAMBDA done, row : done \o joined(row), << >>, left)

\* computeAggregates over the values of a column. A nil that MIN meets makes it start afresh,
\* and AVG divides by the number of rows, nil or not.
SumOf(values) == FoldLeft(+, 0, values)
MinOf(values) == FoldLeft(LAMBDA m, v : IF m = Null \/ v < m THEN v ELSE m, Null, values)
MaxOf(values) == FoldLeft(LAMBDA m, v : IF m = Null \/ v > m THEN v ELSE m, Null, values)
CountOf(values) == Len(SelectSeq(values, LAMBDA v : v # Null))

Aggregate(item, rows) ==
    LET values == [k \in 1..Len(rows) |-> Lookup(rows[k], item.col)] IN
    CASE item.fn = "COUNT" /\ item.col = Bare("*") -> Len(rows)
      [] item.fn = "COUNT" /\ item.col # Bare("*") -> CountOf(values)
      [] item.fn = "SUM" -> SumOf(values)
      [] item.fn = "MIN" -> MinOf(values)
      [] item.fn = "MAX" -> MaxOf(values)
      [] item.fn = "AVG" -> (AvgScale * SumOf(values)) \div Len(rows)
      [] OTHER -> values[1]

\* AVG and a plain column have no value for no rows.
Computable(item, rows) == rows # << >> \/ item.fn \in {"COUNT", "SUM", "MIN", "MAX"}

ComputeAggregates(columns, rows) ==
    [name \in {NameOf(columns[k]) : k \in {l \in DOMAIN columns : Computable(columns[l], rows)}} |->
        Aggregate(ItemNamed(columns, name), rows)]

\* Mutant: the first column alone decides.
GroupKeyFirst(row, group) == Printed[Lookup(row, group[1])]

\* groupKey: the printed values joined by NUL, piece after piece. NULL prints as the text
\* '<nil>' does, and a NUL within a text is a NUL between two.
GroupKey(row, group) == FlattenSeq([k \in DOMAIN group |-> Printed[Lookup(row, group[k])]])

\* executeAggregate: the groups in the order of their first rows, whose values they show;
\* without GROUP BY there is one, and HAVING is not looked at.
ExecuteAggregate(rows, n) ==
    LET keys == FoldLeft(LAMBDA ks, row : LET k == GroupKey(row, n.group)
                                          IN IF Contains(ks, k) THEN ks ELSE Append(ks, k), << >>, rows)
        members(key) == SelectSeq(rows, LAMBDA row : GroupKey(row, n.group) = key)
        shown(row) == [c \in Range(n.group) |-> Lookup(row, c)]
        one(key) == shown(Head(members(key))) @@ ComputeAggregates(n.columns, members(key))
    IN  IF n.group = << >> THEN <<ComputeAggregates(n.columns, rows)>>
        ELSE FilterRows([k \in 1..Len(keys) |-> one(keys[k])], n.having)

\* Execute: what one node makes of the rows below it.
Execute(n, rows) ==
    CASE n.node = "scan" -> ExecuteScan(heap[n.table], n.alias)
      [] n.node = "equal" -> ExecuteScan(IndexEqual(heap["t"], n), n.alias)
      [] n.node = "range" -> ExecuteScan(IndexRange(heap["t"], n), n.alias)
      [] n.node = "ordered" -> ExecuteScan(IndexOrderedScan(heap["t"], n), n.alias)
      [] n.node = "join" -> Join(rows, ExecuteScan(heap[n.table], n.alias), n.type, n.on)
      [] n.node = "filter" -> FilterRows(rows, n.where)
      [] n.node = "reverse" -> Reverse(rows)
      [] n.node = "project" -> Project(rows, n.columns)
      [] n.node = "aggregate" -> ExecuteAggregate(rows, n)
      [] n.node = "sort" -> Sorted(rows, n.order)
      [] n.node = "limit" -> Page(rows, n.limit, n.offset)

ExecutePlan(plan) == FoldLeft(LAMBDA rows, n : Execute(n, rows), << >>, plan)

-----------------------------------------------------------------------------
QueryInit(tables, indexed) == heap = tables /\ catalog = indexed /\ select = NoSelect /\ answer = << >>

Select(s) ==
    /\ select = NoSelect
    /\ select' = s
    /\ answer' = ExecutePlan(PlanSelect(s, catalog))
    /\ UNCHANGED <<heap, catalog>>

-----------------------------------------------------------------------------
(* What SELECT promises.                                                   *)

NoIndexes == [name \in {} |-> {}]

\* Where case decides nothing: index keys are ordered as the values are.
CaseFree(values) == \A a, b \in values : (a < b) <=> (IndexOrder[a] < IndexOrder[b])

ValuesOf(rows) == UNION {Range(rows[k]) : k \in DOMAIN rows}
Literals(s) == UNION {{e.lit : e \in {x \in c.any : x.kind = "literal"}} : c \in Range(s.where)}

\* What the planner and executor do not handle, whatever the indexes: BETWEEN is never true
\* and a range bounded by NULL has no bound.
Handled(s) ==
    \A c \in Range(s.where) : \A e \in c.any : e.kind = "literal" /\ (e.lit = Null => e.op \in {"=", "<>"})

\* The ordered scan stands for the whole plan: it is right where that is all there is to do.
OrderHandled(s) ==
    Len(s.order) = 1 /\ "BTREE" \in Types(catalog, s.order[1].col[2]) =>
        /\ ~HasAggregates(s) /\ s.joins = << >>
        /\ s.where = << >> => s.columns = <<Star>> /\ \A row \in Range(heap["t"]) : Bare(s.order[1].col[2]) \in DOMAIN row

\* A row without the column has no entry in the index, but compares as NULL in a scan.
EntriesHandled(s) ==
    \A c \in Range(s.where), row \in Range(heap["t"]) : \A e \in c.any :
        Bare(e.col[2]) \notin DOMAIN row => ~Holds(e, row)

Occurrences(rows, row) == Cardinality({k \in DOMAIN rows : rows[k] = row})

Answered == select # NoSelect

\* tryIndexScan, the conjuncts it leaves, and the index lookups: with whatever indexes, SELECT
\* answers the rows it answers without any, each as often.
IndexKeepsAnswer ==
    Answered /\ Handled(select) /\ OrderHandled(select) /\ EntriesHandled(select) /\ select.limit = 0 /\ select.offset = 0
             /\ CaseFree(ValuesOf(heap["t"]) \cup Literals(select)) =>
        LET plain == ExecutePlan(PlanSelect(select, NoIndexes))
        IN  \A row \in Range(answer) \cup Range(plain) : Occurrences(answer, row) = Occurrences(plain, row)

\* The rows come in the order of ORDER BY, also where planSelect left out the sort because an
\* index has the order: the first column in which two rows differ tells which comes first. The
\* columns must be in the answer, because the sort comes after the projection.
OrderedAnswer ==
    Answered /\ CaseFree(ValuesOf(heap["t"])) =>
        \A j, k \in DOMAIN answer, n \in DOMAIN select.order : LET at == select.order[n].col IN
            /\ j < k /\ \A l \in 1..n : select.order[l].col \in DOMAIN answer[j] \cap DOMAIN answer[k]
            /\ \A l \in 1..(n - 1) : answer[j][select.order[l].col] = answer[k][select.order[l].col]
            => IF select.order[n].asc THEN answer[j][at] <= answer[k][at] ELSE answer[j][at] >= answer[k][at]

\* executeJoin with a name for each table: INNER JOIN answers the pairs of rows ON accepts,
\* each once, and LEFT JOIN in addition each left row without a partner, with nil on the right.
Pair(l, r) == [c \in {<<"a", d[2]>> : d \in DOMAIN l} \cup {<<"b", d[2]>> : d \in DOMAIN r} |->
                  IF c[1] = "a" THEN l[Bare(c[2])] ELSE r[Bare(c[2])]]

JoinMeans ==
    Answered /\ select.joins # << >> /\ heap["u"] # << >> /\ OrderHandled(select) =>
        LET join == select.joins[1]
            Partner(l, r) == Passes(join.on, Pair(l, r)) /\ \A c \in Range(select.where) : Passes(c, Pair(l, r))
            nil == [c \in DOMAIN heap["u"][1] |-> Null]
            Alone(l) == ~\E r \in Range(heap["u"]) : Passes(join.on, Pair(l, r))
            asked == {Pair(l, r) : <<l, r>> \in {x \in Range(heap["t"]) \X Range(heap["u"]) : Partner(x[1], x[2])}}
                       \cup {Pair(l, nil) : l \in {x \in Range(heap["t"]) : join.type = "LEFT" /\ Alone(x)
                                                  /\ \A c \in Range(select.where) : Passes(c, Pair(x, nil))}}
            qualified == UNION {DOMAIN p : p \in asked}
        IN  /\ Len(answer) = Cardinality(asked)
            /\ \A row \in Range(answer) : Restrict(row, qualified) \in asked

Total(name, members) == FoldFunctionOnSet(LAMBDA row, sum : row[name] + sum, 0, heap["t"], members)

SameGroup(j, k, group) == \A c \in Range(group) : heap["t"][j][c] = heap["t"][k][c]
PrintAlike(j, k, group) ==
    LET text(row) == FlattenSeq([n \in DOMAIN group |-> Printed[row[group[n]]]])
    IN  text(heap["t"][j]) = text(heap["t"][k])

\* executeAggregate: no chosen row is lost or counted twice, and no two groups show the same
\* values. Where different values print differently (NULL and '<nil>' do not), a group has the
\* rows with its values in the columns of GROUP BY, and COUNT, SUM, MIN and MAX are theirs. MIN
\* is left out where a value is NULL, and so is an ORDER BY that replaces the aggregation.
GroupsPartition ==
    Answered /\ select.group # << >> /\ select.having = << >> /\ OrderHandled(select)
             /\ CaseFree(ValuesOf(heap["t"]) \cup Literals(select)) =>
        LET chosen == {k \in DOMAIN heap["t"] : \A c \in Range(select.where) : Passes(c, heap["t"][k])}
            Members(r) == {k \in chosen : \A c \in Range(select.group) : heap["t"][k][c] = r[c]}
            Values(r, c) == {heap["t"][k][c] : k \in Members(r)}
        IN  /\ Cardinality(chosen) = FoldLeft(LAMBDA n, r : n + r[<<"COUNT", "*">>], 0, answer)
            /\ \A k \in chosen : \E r \in Range(answer) :
                   \E j \in Members(r) : PrintAlike(j, k, select.group)
            /\ \A j, k \in DOMAIN answer : j # k => Members(answer[j]) \cap Members(answer[k]) = {}
            /\ (\A j, k \in chosen : PrintAlike(j, k, select.group) => SameGroup(j, k, select.group)) =>
                \A r \in Range(answer), item \in Range(select.columns) : LET got == r[NameOf(item)] IN
                   /\ item.fn = "COUNT" => got = Cardinality(Members(r))
                   /\ item.fn = "SUM" => got = Total(item.col, Members(r))
                   /\ item.fn = "MAX" => got = Max(Values(r, item.col))
                   /\ item.fn = "MIN" /\ Null \notin Values(r, item.col) => got = Min(Values(r, item.col))
=============================================================================
