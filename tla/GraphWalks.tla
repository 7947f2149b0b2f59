----------------------------- MODULE GraphWalks -----------------------------
(***************************************************************************)
(* Traversals of the graph (internal/graph/store.go) and of the lineage of *)
(* data (internal/knowledge/lineage.go). A traversal reads the graph at    *)
(* one moment.                                                             *)
(***************************************************************************)
EXTENDS Graph, FiniteSetsExt, Functions

Direction == {"out", "in", "both"}

-----------------------------------------------------------------------------
(* Traversals.                                                             *)

\* Mutant: whatever is listed at a node starts there.
OtherEndForward(edge, n, dir) == IF dir = "in" THEN {edge.from} ELSE {edge.to}

\* The node at the other end, none when the edge does not go that way. An edge that is listed
\* at a node and does not start there is taken to end there when both ways are walked.
OtherEnd(edge, n, dir) ==
    CASE dir = "out" -> IF edge.from = n THEN {edge.to} ELSE {}
      [] dir = "in" -> IF edge.to = n THEN {edge.from} ELSE {}
      [] dir = "both" -> IF edge.from = n THEN {edge.to} ELSE {edge.from}

Ends(n, dir) ==
    FlattenSeq([j \in DOMAIN GetEdges(n) |-> SetToSeq(OtherEnd(edgeAt[GetEdges(n)[j]], n, dir))])

WithRecord(S) == {n \in S : nodeAt[n] # NoRecord}

GetNeighbors(n, dir) == WithRecord(ToSet(Ends(n, dir)))

\* KHopNeighbors: the last level reached, without what was on a level before.
KHopNeighbors(n, k, dir) ==
    LET hop(s, h) ==
            LET next == UNION {ToSet(Ends(m, dir)) : m \in s.level} \ s.visited
            IN  [visited |-> s.visited \cup next, level |-> next]
    IN  IF k <= 0 THEN {}
        ELSE WithRecord(FoldLeft(hop, [visited |-> {n}, level |-> {n}], [h \in 1..k |-> h]).level)

RECURSIVE Back(_, _)
Back(parent, n) == IF parent[n] = n THEN <<n>> ELSE Append(Back(parent, parent[n]), n)

\* Breadth first; parent also says which nodes were visited (the first is its own).
RECURSIVE Search(_, _, _, _)
Search(queue, parent, to, dir) ==
    IF to \in DOMAIN parent THEN Back(parent, to)
    ELSE IF queue = << >> THEN NoPath
    ELSE LET n == Head(queue)
             new == SelectSeq(Ends(n, dir), LAMBDA m : m \notin DOMAIN parent)
         IN  Search(Tail(queue) \o new, [m \in DOMAIN parent \cup ToSet(new) |-> IF m \in DOMAIN parent THEN parent[m] ELSE n],
                    to, dir)

ShortestPath(from, to, dir) == Search(<<from>>, [n \in {from} |-> from], to, dir)

\* TraceUpstream: sources without a record are left out. A tree is its id and its subtrees.
RECURSIVE TraceUpstream(_, _)
TraceUpstream(d, depth) ==
    LET known == SelectSeq(lineageAt[d], LAMBDA s : lineageAt[s] # NoRecord)
    IN  <<d, IF depth <= 0 THEN << >> ELSE [j \in DOMAIN known |-> TraceUpstream(known[j], depth - 1)]>>

RECURSIVE AllIDs(_)
AllIDs(tree) == <<tree[1]>> \o FlattenSeq([j \in DOMAIN tree[2] |-> AllIDs(tree[2][j])])

RECURSIVE Depth(_)
Depth(tree) == 1 + Max({0} \cup {Depth(tree[2][j]) : j \in DOMAIN tree[2]})

\* What an edge joins, by its record.
Joins(dir) ==
    LET edges == {edgeAt[e] : e \in {f \in EdgeId : edgeAt[f] # NoRecord}}
    IN  {<<edge.from, edge.to>> : edge \in IF dir = "in" THEN {} ELSE edges} \cup
        {<<edge.to, edge.from>> : edge \in IF dir = "out" THEN {} ELSE edges}

Walked(op, from, to, k, joins, result, clean) ==
    /\ walk' = [op |-> op, from |-> from, to |-> to, k |-> k, joins |-> joins, result |-> result,
                there |-> WithRecord(NodeId), clean |-> clean]
    /\ UNCHANGED <<nodeAt, edgeAt, graphIndex, lineageAt, graphCall, graphBounds, torn, stale>>

\* No call is going on, every edge has its entries and, for both ways, no others.
Clean(dir) ==
    /\ \A c \in GraphClient : graphCall[c] = NoGraphCall
    /\ torn = {} /\ (dir = "both" => stale = {})

WalkNeighbors(n, dir) == Walked("neighbors", n, n, 1, Joins(dir), GetNeighbors(n, dir), Clean(dir))
WalkHops(n, k, dir) == Walked("hops", n, n, k, Joins(dir), KHopNeighbors(n, k, dir), Clean(dir))
WalkPath(n, m, dir) == Walked("path", n, m, 0, Joins(dir), ShortestPath(n, m, dir), Clean(dir))

WalkUpstream(d, depth) ==
    /\ lineageAt[d] # NoRecord
    /\ LET tree == TraceUpstream(d, depth)
           upstream == {<<x, y>> \in DataId \X DataId :
                          lineageAt[x] # NoRecord /\ lineageAt[y] # NoRecord /\ y \in ToSet(lineageAt[x])}
       IN  Walked("upstream", d, Depth(tree), depth, upstream, AllIDs(tree), TRUE)

-----------------------------------------------------------------------------
(* What the traversals promise.                                            *)

\* There is a walk of k steps.
InSteps(joins, x, y, k) ==
    \E p \in [0..k -> NodeId \cup DataId] :
        p[0] = x /\ p[k] = y /\ \A j \in 0..(k - 1) : <<p[j], p[j + 1]>> \in joins

FirstInSteps(joins, x, y, k) == InSteps(joins, x, y, k) /\ \A j \in 0..(k - 1) : ~InSteps(joins, x, y, j)

\* GetNeighbors returns the nodes an edge leads to, KHopNeighbors those k edges away and no
\* fewer, ShortestPath a path that no other is shorter than, and TraceUpstream what is up to
\* depth derivations away: all by the records alone, when the entries are whole. Entries left
\* by an edge that was written over do no harm as long as one way is walked.
WalksExact ==
    walk # NoWalk /\ walk.clean =>
        CASE walk.op = "neighbors" -> walk.result = {n \in walk.there : <<walk.from, n>> \in walk.joins}
          [] walk.op = "hops" -> walk.result = {n \in walk.there : walk.k > 0 /\ FirstInSteps(walk.joins, walk.from, n, walk.k)}
          [] walk.op = "path" ->
                 IF walk.result = NoPath
                 THEN \A k \in 0..Cardinality(NodeId) : ~InSteps(walk.joins, walk.from, walk.to, k)
                 ELSE /\ walk.result[1] = walk.from /\ Last(walk.result) = walk.to
                      /\ \A j \in 1..(Len(walk.result) - 1) : <<walk.result[j], walk.result[j + 1]>> \in walk.joins
                      /\ FirstInSteps(walk.joins, walk.from, walk.to, Len(walk.result) - 1)
          [] walk.op = "upstream" ->
                 /\ ToSet(walk.result) = {d \in DataId : \E k \in 0..walk.k : InSteps(walk.joins, walk.from, d, k)}
                 /\ walk.to = 1 + Max({k \in 0..walk.k : \E d \in DataId : InSteps(walk.joins, walk.from, d, k)})
=============================================================================
