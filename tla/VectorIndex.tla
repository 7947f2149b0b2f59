---------------------------- MODULE VectorIndex ----------------------------
(***************************************************************************)
(* One vector index: the HNSW graph in memory (internal/vector/hnsw.go)    *)
(* and the vectors and payloads in the store (internal/vector/store.go).   *)
(*                                                                         *)
(* A vector is a number and a distance the difference. The graph's         *)
(* operations are under its lock; the store's calls write the store and    *)
(* then the graph, in steps of their own. Within a call every map is       *)
(* walked in one order.                                                    *)
(***************************************************************************)
EXTENDS Integers, Sequences, FiniteSets, SequencesExt, FiniteSetsExt

CONSTANTS VectorId, Vector, VectorClient,
          Payload,         \* what a call may carry, NoPayload for none
          M, EfConstruction, EfSearch,
          MaxLevel,        \* bound, 16 in the code
          WalkOrders,      \* the orders in which a map yields its keys
          KeyOrder,        \* the order of the vectors' keys in the store
          NoNode, NoVector, NoPayload, NoEntry, NoHits,
          MaxVectorCalls, MaxVectorFault, MaxReload    \* bounds

MMax == 2 * M
Level == 0..MaxLevel

ASSUME VectorAssumption ==
    /\ Vector \subseteq Int /\ {M, EfConstruction, EfSearch} \subseteq Nat \ {0} /\ MaxLevel \in Nat
    /\ NoPayload \in Payload /\ NoEntry \notin VectorId /\ NoVector \notin Vector
    /\ \A walk \in WalkOrders \cup {KeyOrder} : ToSet(walk) = VectorId
    /\ {MaxVectorCalls, MaxVectorFault, MaxReload} \subseteq Nat

VARIABLES
    vectors, payloads,     \* stored
    hnsw,                  \* the index in memory
    created,               \* the store knows the index by its name
    vectorCall,            \* the call of each client
    hits,                  \* what the last search returned
    vectorCalls, vectorFaults, reloads,
    overlapped,            \* history: ids that two calls wrote at a time, or one wrote in part
    split                  \* history: the graph's entry was updated, or it had more than mMax + 1 nodes

vectorBounds == <<vectorCalls, vectorFaults, reloads>>
vectorVars == <<vectors, payloads, hnsw, created, vectorCall, hits, vectorBounds, overlapped, split>>

EmptyIndex == [nodes |-> [id \in VectorId |-> NoNode], entry |-> NoEntry, level |-> 0]

NoVectorCall == [op |-> "none", step |-> "idle", ids |-> {}, vector |-> 0, payload |-> NoPayload,
                 k |-> 0, toLoad |-> << >>]

Dist(v, w) == IF v < w THEN w - v ELSE v - w

-----------------------------------------------------------------------------
(* The graph.                                                              *)

Present(nodes) == {id \in VectorId : nodes[id] # NoNode}
Linked(nodes, id, l) == IF l \in DOMAIN nodes[id].links THEN nodes[id].links[l] ELSE {}
InOrder(S, walk) == SelectSeq(walk, LAMBDA id : id \in S)

\* insertSorted: behind the candidates that are as near.
InsertSorted(list, id, nodes, q) ==
    LET nearer == Cardinality({j \in DOMAIN list : Dist(q, nodes[list[j]].vector) <= Dist(q, nodes[id].vector)})
    IN  InsertAt(list, nearer + 1, id)

Farthest(nodes, q, list) == Dist(q, nodes[Last(list)].vector)
Cut(list, n) == SubSeq(list, 1, Min({n, Len(list)}))

\* A neighbour enters both lists when the results are fewer than ef or it is nearer than one
\* of them. Nodes that are gone are passed over.
Visit(nodes, q, ef, s, id) ==
    LET seen == [s EXCEPT !.visited = @ \cup {id}] IN
    IF id \in s.visited THEN s
    ELSE IF nodes[id] = NoNode \/ (Len(s.best) >= ef /\ Dist(q, nodes[id].vector) >= Farthest(nodes, q, s.best))
    THEN seen
    ELSE [seen EXCEPT !.queue = InsertSorted(@, id, nodes, q),
                      !.best = Cut(InsertSorted(@, id, nodes, q), ef)]

RECURSIVE Explore(_, _, _, _, _, _)
Explore(nodes, q, ef, l, walk, s) ==
    IF \/ s.queue = << >>
       \/ Dist(q, nodes[Head(s.queue)].vector) > Farthest(nodes, q, s.best) /\ Len(s.best) >= ef
    THEN s.best
    ELSE Explore(nodes, q, ef, l, walk,
             FoldLeft(LAMBDA t, id : Visit(nodes, q, ef, t, id), [s EXCEPT !.queue = Tail(@)],
                      InOrder(Linked(nodes, Head(s.queue), l), walk)))

SearchLayer(nodes, from, q, ef, l, walk) ==
    Explore(nodes, q, ef, l, walk, [visited |-> {from}, queue |-> <<from>>, best |-> <<from>>])

Downto(a, b) == [j \in 1..(a - b + 1) |-> a - j + 1]

\* From the entry down to the layer above l, always on from the nearest node.
Descend(h, q, l, walk) ==
    FoldLeft(LAMBDA from, layer : SearchLayer(h.nodes, from, q, 1, layer, walk)[1], h.entry, Downto(h.level, l + 1))

AddConnection(nodes, from, to, l) ==
    IF l \in DOMAIN nodes[from].links THEN [nodes EXCEPT ![from].links[l] = @ \cup {to}] ELSE nodes

\* Mutant: a neighbour does not learn of the new node.
ConnectOneWay(nodes, id, nb, l) == AddConnection(nodes, id, nb, l)

Connect(nodes, id, nb, l) == AddConnection(AddConnection(nodes, id, nb, l), nb, id, l)

\* pruneConnections: the mMax nearest stay; the other ends keep their link.
Prune(nodes, id, l, walk) ==
    LET there == InOrder(Linked(nodes, id, l) \cap Present(nodes), walk)
        sorted == FoldLeft(LAMBDA list, nb : InsertSorted(list, nb, nodes, nodes[id].vector), << >>, there)
    IN  IF Cardinality(Linked(nodes, id, l)) <= MMax THEN nodes
        ELSE [nodes EXCEPT ![id].links[l] = ToSet(Cut(sorted, MMax))]

\* One layer of Insert, or of rebuildConnections, which does not prune.
ConnectLayer(s, id, l, pruning, walk) ==
    LET near == SearchLayer(s.nodes, s.from, s.nodes[id].vector, EfConstruction, l, walk)
        step(nodes, nb) == IF pruning THEN Prune(Connect(nodes, id, nb, l), nb, l, walk) ELSE Connect(nodes, id, nb, l)
    IN  [nodes |-> FoldLeft(step, s.nodes, Cut(near, IF l = 0 THEN MMax ELSE M)), from |-> near[1]]

ConnectLayers(nodes, id, from, top, pruning, walk) ==
    FoldLeft(LAMBDA s, l : ConnectLayer(s, id, l, pruning, walk), [nodes |-> nodes, from |-> from], Downto(top, 0)).nodes

\* A node's own list says whose link to it is taken away.
Unlink(nodes, id) ==
    [n \in VectorId |->
        IF nodes[n] = NoNode THEN NoNode
        ELSE [nodes[n] EXCEPT !.links =
                 [l \in DOMAIN @ |-> IF n \in Linked(nodes, id, l) THEN @[l] \ {id} ELSE @[l]]]]

\* rebuildConnections, which leaves the entry alone.
Rebuilt(h, id, walk) ==
    IF h.entry = id THEN h
    ELSE [h EXCEPT !.nodes = ConnectLayers(@, id, h.entry, Min({Cardinality(DOMAIN @[id].links) - 1, h.level}), FALSE, walk)]

\* Mutant: the node keeps the vector it had.
KeepNode(h, id, v, walk) == h

\* Insert of an id that is in the index: a new vector and new links.
UpdateNode(h, id, v, walk) ==
    Rebuilt([h EXCEPT !.nodes = [Unlink(@, id) EXCEPT ![id].vector = v,
                                                     ![id].links = [l \in DOMAIN @ |-> {}]]], id, walk)

\* Insert of a new id, with the level that randomLevel drew.
InsertNode(h, id, v, level, walk) ==
    LET node == [vector |-> v, links |-> [l \in 0..level |-> {}]]
        nodes == [h.nodes EXCEPT ![id] = node]
        linked == ConnectLayers(nodes, id, Descend([h EXCEPT !.nodes = nodes], v, level, walk),
                                Min({level, h.level}), TRUE, walk)
    IN  IF h.entry = NoEntry THEN [nodes |-> nodes, entry |-> id, level |-> level]
        ELSE IF level > h.level THEN [nodes |-> linked, entry |-> id, level |-> level]
        ELSE [h EXCEPT !.nodes = linked]

Insert(h, id, v, level, walk) ==
    IF h.nodes[id] = NoNode THEN InsertNode(h, id, v, level, walk) ELSE UpdateNode(h, id, v, walk)

\* Delete: when the entry goes, a node of the highest level becomes the entry, whichever the map
\* yields first.
Highest(nodes) ==
    {id \in Present(nodes) : \A n \in Present(nodes) :
        Cardinality(DOMAIN nodes[n].links) <= Cardinality(DOMAIN nodes[id].links)}

RemoveNode(h, id, walk) ==
    LET nodes == [Unlink(h.nodes, id) EXCEPT ![id] = NoNode] IN
    IF h.nodes[id] = NoNode THEN h
    ELSE IF h.entry # id THEN [h EXCEPT !.nodes = nodes]
    ELSE IF Present(nodes) = {} THEN EmptyIndex
    ELSE LET next == InOrder(Highest(nodes), walk)[1]
         IN  [nodes |-> nodes, entry |-> next, level |-> Cardinality(DOMAIN nodes[next].links) - 1]

\* Search, once it has found the index not empty.
Nearest(h, q, k, walk) ==
    Cut(SearchLayer(h.nodes, Descend(h, q, 0, walk), q, Max({EfSearch, k}), 0, walk), k)

-----------------------------------------------------------------------------
(* The store's calls.                                                      *)

Going(c, op, step) == vectorCall[c].op = op /\ vectorCall[c].step = step
Proceed(c, call) == vectorCall' = [vectorCall EXCEPT ![c] = call]
Finish(c) == Proceed(c, NoVectorCall)

\* The ids another call is about to write.
OthersWrite(c) == UNION {vectorCall[d].ids : d \in VectorClient \ {c}}

StartVectorCall(c, call) ==
    /\ vectorCall[c].step = "idle" /\ vectorCalls < MaxVectorCalls
    /\ vectorCalls' = vectorCalls + 1
    /\ Proceed(c, call)
    /\ overlapped' = overlapped \cup (call.ids \cap OthersWrite(c))
    /\ UNCHANGED <<vectors, payloads, hnsw, hits, vectorFaults, reloads, split>>

\* A write to the store fails; a payload that cannot be saved leaves the vector saved.
VectorFault(c, torn) ==
    /\ vectorFaults < MaxVectorFault /\ vectorFaults' = vectorFaults + 1
    /\ overlapped' = overlapped \cup torn
    /\ Finish(c)
    /\ UNCHANGED <<vectors, payloads, vectorCalls, reloads>>

StartVectorInsert(c, id, v, payload) ==
    /\ created
    /\ StartVectorCall(c, [NoVectorCall EXCEPT !.op = "insert", !.step = "vector", !.ids = {id},
                               !.vector = v, !.payload = payload])
    /\ UNCHANGED created

IdOf(c) == CHOOSE id \in vectorCall[c].ids : TRUE

PersistVector(c) ==
    LET call == vectorCall[c] IN
    /\ Going(c, "insert", "vector")
    /\ \/ /\ vectors' = [vectors EXCEPT ![IdOf(c)] = call.vector]
          /\ Proceed(c, [call EXCEPT !.step = IF call.payload = NoPayload THEN "index" ELSE "payload"])
          /\ UNCHANGED <<payloads, overlapped, vectorBounds>>
       \/ VectorFault(c, {})
    /\ UNCHANGED <<hnsw, created, hits, split>>

PersistPayload(c) ==
    /\ Going(c, "insert", "payload")
    /\ \/ /\ payloads' = [payloads EXCEPT ![IdOf(c)] = vectorCall[c].payload]
          /\ Proceed(c, [vectorCall[c] EXCEPT !.step = "index"])
          /\ UNCHANGED <<vectors, overlapped, vectorBounds>>
       \/ VectorFault(c, {IdOf(c)})
    /\ UNCHANGED <<hnsw, created, hits, split>>

\* Insertions after which the graph need not be complete any more.
Splits(id) ==
    IF hnsw.nodes[id] = NoNode THEN Cardinality(Present(hnsw.nodes)) > MMax
    ELSE hnsw.entry = id /\ Cardinality(Present(hnsw.nodes)) > 1

IndexVector(c) ==
    /\ Going(c, "insert", "index")
    /\ \E level \in Level, walk \in WalkOrders :
           hnsw' = Insert(hnsw, IdOf(c), vectorCall[c].vector, level, walk)
    /\ split' = (split \/ Splits(IdOf(c)))
    /\ Finish(c)
    /\ UNCHANGED <<vectors, payloads, created, hits, overlapped, vectorBounds>>

StartVectorDelete(c, id) ==
    /\ created
    /\ StartVectorCall(c, [NoVectorCall EXCEPT !.op = "delete", !.step = "batch", !.ids = {id}])
    /\ UNCHANGED created

DeleteStored(c) ==
    /\ Going(c, "delete", "batch")
    /\ \/ /\ vectors' = [vectors EXCEPT ![IdOf(c)] = NoVector]
          /\ payloads' = [payloads EXCEPT ![IdOf(c)] = NoPayload]
          /\ Proceed(c, [vectorCall[c] EXCEPT !.step = "index"])
          /\ UNCHANGED <<overlapped, vectorBounds>>
       \/ VectorFault(c, {})
    /\ UNCHANGED <<hnsw, created, hits, split>>

DeleteIndexed(c) ==
    /\ Going(c, "delete", "index")
    /\ \E walk \in WalkOrders : hnsw' = RemoveNode(hnsw, IdOf(c), walk)
    /\ Finish(c)
    /\ UNCHANGED <<vectors, payloads, created, hits, overlapped, vectorBounds, split>>

\* Search reads the number of nodes before it takes the lock.
StartSearch(c, q, k) ==
    /\ created /\ Present(hnsw.nodes) # {}
    /\ StartVectorCall(c, [NoVectorCall EXCEPT !.op = "search", !.step = "run", !.vector = q, !.k = k])
    /\ UNCHANGED created

\* With the last node deleted in between, Search fails on the entry that is not there.
RunSearch(c) ==
    LET call == vectorCall[c] IN
    /\ Going(c, "search", "run")
    /\ IF hnsw.entry = NoEntry THEN hits' = NoHits
       ELSE \E walk \in WalkOrders :
                hits' = [ids |-> Nearest(hnsw, call.vector, call.k, walk), q |-> call.vector, k |-> call.k,
                         among |-> {<<id, hnsw.nodes[id].vector>> : id \in Present(hnsw.nodes)}, split |-> split]
    /\ Finish(c)
    /\ UNCHANGED <<vectors, payloads, hnsw, created, overlapped, vectorBounds, split>>

\* CreateIndex: the empty index can be used before the stored vectors are in it.
StartCreateVectorIndex(c) ==
    /\ ~created /\ created' = TRUE
    /\ StartVectorCall(c, [NoVectorCall EXCEPT !.op = "create", !.step = "scan", !.ids = VectorId])

\* loadFromStorage reads a snapshot and inserts it in the order of the keys.
ScanVectors(c) ==
    LET present == {id \in VectorId : vectors[id] # NoVector} IN
    /\ Going(c, "create", "scan")
    /\ Proceed(c, [vectorCall[c] EXCEPT !.step = "load",
                       !.toLoad = [j \in 1..Cardinality(present) |->
                                      <<InOrder(present, KeyOrder)[j], vectors[InOrder(present, KeyOrder)[j]]>>]])
    /\ UNCHANGED <<vectors, payloads, hnsw, created, hits, overlapped, vectorBounds, split>>

LoadVector(c) ==
    LET toLoad == vectorCall[c].toLoad IN
    /\ Going(c, "create", "load")
    /\ IF toLoad = << >> THEN Finish(c) /\ UNCHANGED <<hnsw, split>>
       ELSE /\ \E level \in Level, walk \in WalkOrders :
                   hnsw' = Insert(hnsw, Head(toLoad)[1], Head(toLoad)[2], level, walk)
            /\ split' = (split \/ Splits(Head(toLoad)[1]))
            /\ Proceed(c, [vectorCall[c] EXCEPT !.toLoad = Tail(@)])
    /\ UNCHANGED <<vectors, payloads, created, hits, overlapped, vectorBounds>>

\* The process is started again: nothing but the store is left.
Reload ==
    /\ reloads < MaxReload /\ reloads' = reloads + 1
    /\ hnsw' = EmptyIndex /\ created' = FALSE
    /\ vectorCall' = [c \in VectorClient |-> NoVectorCall]
    /\ hits' = NoHits /\ overlapped' = {} /\ split' = FALSE
    /\ UNCHANGED <<vectors, payloads, vectorCalls, vectorFaults>>

VectorInit(held) ==
    /\ vectors = held /\ payloads = [id \in VectorId |-> NoPayload]
    /\ hnsw = EmptyIndex /\ created = FALSE
    /\ vectorCall = [c \in VectorClient |-> NoVectorCall]
    /\ hits = NoHits /\ vectorCalls = 0 /\ vectorFaults = 0 /\ reloads = 0
    /\ overlapped = {} /\ split = FALSE

VectorStep(c) ==
    \/ PersistVector(c) \/ PersistPayload(c) \/ IndexVector(c) \/ DeleteStored(c) \/ DeleteIndexed(c)
    \/ RunSearch(c) \/ ScanVectors(c) \/ LoadVector(c)

-----------------------------------------------------------------------------
(* What the index promises.                                                *)

\* Insert, Delete and CreateIndex write the store and the graph one after the other: an id
\* that no call is writing has the stored vector in the graph, or is in neither, whatever
\* calls on other ids do meanwhile, also after a restart. Left out are ids that two calls
\* wrote at a time (the last to reach the graph need not be the last to reach the store; a
\* load brings a deleted vector back) and those whose payload could not be saved.
GraphAgrees ==
    created => \A id \in VectorId \ overlapped :
        (\A c \in VectorClient : id \notin vectorCall[c].ids) =>
            IF vectors[id] = NoVector THEN hnsw.nodes[id] = NoNode
            ELSE hnsw.nodes[id] # NoNode /\ hnsw.nodes[id].vector = vectors[id]

\* A search in an index that never had more than mMax + 1 vectors is exact: after any
\* insertions, updates and deletions, with any levels, it returns the k nearest, nearest
\* first. Left out are graphs whose entry was updated: it keeps no link to the others.
SearchExact ==
    hits # NoHits /\ ~hits.split =>
        LET far(id) == Dist(hits.q, (CHOOSE p \in hits.among : p[1] = id)[2])
        IN  /\ Len(hits.ids) = Min({hits.k, Cardinality(hits.among)})
            /\ IsInjective(hits.ids)
            /\ \A j \in 1..(Len(hits.ids) - 1) : far(hits.ids[j]) <= far(hits.ids[j + 1])
            /\ \A p \in hits.among : p[1] \notin ToSet(hits.ids) => far(p[1]) >= far(Last(hits.ids))
=============================================================================
