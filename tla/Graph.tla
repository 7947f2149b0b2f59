------------------------------- MODULE Graph -------------------------------
(***************************************************************************)
(* The graph of nodes and edges over the key-value store                   *)
(* (internal/graph/store.go) and the lineage of data                       *)
(* (internal/knowledge/lineage.go): what is written. GraphWalks reads it.  *)
(*                                                                         *)
(* A node or an edge is one record and an entry in each of its indexes,    *)
(* written one after the other without a transaction: a call is the list   *)
(* of what it has still to do.                                             *)
(***************************************************************************)
EXTENDS Integers, Sequences, FiniteSets, SequencesExt

CONSTANTS NodeId, EdgeId,      \* numbers: the scans return them in order
          Label,               \* the types and names
          DataId, GraphClient,
          NoRecord, NoPath, NoWalk,
          MaxGraphCalls, MaxGraphFault, MaxGraphCrash    \* bounds

GraphNode == [type : Label, name : Label]
GraphEdge == [type : Label, from : NodeId, to : NodeId]

ASSUME GraphAssumption ==
    /\ NodeId \cup EdgeId \subseteq Nat /\ IsFiniteSet(EdgeId)
    /\ NoRecord \notin GraphNode \cup GraphEdge
    /\ {MaxGraphCalls, MaxGraphFault, MaxGraphCrash} \subseteq Nat

VARIABLES
    nodeAt, edgeAt,      \* stored: the records
    graphIndex,          \* stored: the entries <<kind, key, id>>
    lineageAt,           \* stored: the sources of each piece of data
    graphCall,           \* what each client has still to do
    walk,                \* the last traversal and its answer
    graphCalls, graphFaults, graphCrashes,
    torn,                \* history: <<"node" or "edge", id>> written in part, or by two calls at a time
    stale                \* history: the same, written over with other keys

graphBounds == <<graphCalls, graphFaults, graphCrashes>>
graphStored == <<nodeAt, edgeAt, graphIndex, lineageAt, graphCall, graphBounds, torn, stale>>
graphVars == <<graphStored, walk>>

NoGraphCall == [op |-> "none", on |-> {}, todo |-> << >>]

-----------------------------------------------------------------------------
(* Records and their entries.                                              *)

NodeEntries(id, node) == <<<<"type", node.type, id>>, <<"name", node.name, id>>>>
EdgeEntries(id, edge) == <<<<"out", edge.from, id>>, <<"in", edge.to, id>>, <<"etype", edge.type, id>>>>

PutAll(entries) == [j \in DOMAIN entries |-> <<"put", entries[j]>>]
DropAll(entries) == [j \in DOMAIN entries |-> <<"drop", entries[j]>>]

\* The numbers of a finite set, each after those that are less.
Ascending(S) == [j \in 1..Cardinality(S) |-> CHOOSE e \in S : Cardinality({d \in S : d < e}) = j - 1]

\* getEdgesByIndex: the edges of an index key that have a record, in the order of their ids.
EdgesBy(kind, key) == Ascending({e \in EdgeId : <<kind, key, e>> \in graphIndex /\ edgeAt[e] # NoRecord})

\* GetEdges, which lists an edge from a node to itself twice.
GetEdges(n) == EdgesBy("out", n) \o EdgesBy("in", n)

-----------------------------------------------------------------------------
(* Calls that write.                                                       *)

Writing(what) == \E c \in GraphClient : graphCall[c].op = "add" /\ what \in graphCall[c].on
Touching(what) == \E c \in GraphClient : what \in graphCall[c].on

StartGraphCall(c, op, on, todo) ==
    /\ graphCall[c] = NoGraphCall /\ graphCalls < MaxGraphCalls
    /\ graphCalls' = graphCalls + 1
    /\ graphCall' = [graphCall EXCEPT ![c] = [op |-> op, on |-> on, todo |-> todo]]
    /\ UNCHANGED <<nodeAt, edgeAt, graphIndex, lineageAt, walk, graphFaults, graphCrashes>>

\* AddNode and AddEdge write over what there is, and do not look for the nodes of an edge.
AddNode(c, n, node) ==
    /\ StartGraphCall(c, "add", {<<"node", n>>}, <<<<"node", n, node>>>> \o PutAll(NodeEntries(n, node)))
    /\ torn' = torn \cup {what \in {<<"node", n>>} : Touching(what)}
    /\ stale' = stale \cup {what \in {<<"node", n>>} : nodeAt[n] \notin {NoRecord, node}}

AddEdge(c, e, edge) ==
    /\ StartGraphCall(c, "add", {<<"edge", e>>}, <<<<"edge", e, edge>>>> \o PutAll(EdgeEntries(e, edge)))
    /\ torn' = torn \cup {what \in {<<"edge", e>>} : Touching(what)}
    /\ stale' = stale \cup {what \in {<<"edge", e>>} : edgeAt[e] \notin {NoRecord, edge}}

\* Mutant: the entry at the edge's end is forgotten.
DeleteEdgeAtStart(e) ==
    IF edgeAt[e] = NoRecord THEN << >>
    ELSE <<<<"edge", e, NoRecord>>>> \o DropAll(SelectSeq(EdgeEntries(e, edgeAt[e]), LAMBDA x : x[1] # "in"))

\* DeleteEdge reads the edge, then deletes its record and entries.
DeleteEdgeSteps(e) ==
    IF edgeAt[e] = NoRecord THEN << >>
    ELSE <<<<"edge", e, NoRecord>>>> \o DropAll(EdgeEntries(e, edgeAt[e]))

DeleteEdge(c, e) ==
    /\ edgeAt[e] # NoRecord
    /\ StartGraphCall(c, "delete", {<<"edge", e>>}, DeleteEdgeSteps(e))
    /\ torn' = torn \cup {what \in {<<"edge", e>>} : Writing(what)}
    /\ UNCHANGED stale

\* DeleteNode reads the node, deletes its edges one by one, and then the node.
DeleteNode(c, n) ==
    /\ nodeAt[n] # NoRecord
    /\ StartGraphCall(c, "delete", {<<"node", n>>},
           <<<<"list edges", n>>, <<"node", n, NoRecord>>>> \o DropAll(NodeEntries(n, nodeAt[n])))
    /\ torn' = torn \cup {what \in {<<"node", n>>} : Writing(what)}
    /\ UNCHANGED stale

Ready(c, do) == graphCall[c].todo # << >> /\ Head(graphCall[c].todo)[1] = do

GoOn(c, on, todo) ==
    LET k == graphCall[c]
    IN  graphCall' = [graphCall EXCEPT ![c] = IF todo = << >> THEN NoGraphCall
                                              ELSE [k EXCEPT !.on = k.on \cup on, !.todo = todo]]

Rest(c) == Tail(graphCall[c].todo)

ListEdges(c) ==
    /\ Ready(c, "list edges")
    /\ LET listed == GetEdges(Head(graphCall[c].todo)[2])
       IN  GoOn(c, {}, [j \in DOMAIN listed |-> <<"delete edge", listed[j]>>] \o Rest(c))
    /\ UNCHANGED <<nodeAt, edgeAt, graphIndex, lineageAt, walk, graphBounds, torn, stale>>

ReadEdge(c) ==
    /\ Ready(c, "delete edge")
    /\ LET e == Head(graphCall[c].todo)[2]
       IN  /\ GoOn(c, {<<"edge", e>>}, DeleteEdgeSteps(e) \o Rest(c))
           /\ torn' = torn \cup {what \in {<<"edge", e>>} : Writing(what)}
    /\ UNCHANGED <<nodeAt, edgeAt, graphIndex, lineageAt, walk, graphBounds, stale>>

WriteRecord(c) ==
    LET do == Head(graphCall[c].todo) IN
    /\ \/ Ready(c, "node") /\ nodeAt' = [nodeAt EXCEPT ![do[2]] = do[3]] /\ UNCHANGED edgeAt
       \/ Ready(c, "edge") /\ edgeAt' = [edgeAt EXCEPT ![do[2]] = do[3]] /\ UNCHANGED nodeAt
    /\ GoOn(c, {}, Rest(c))
    /\ UNCHANGED <<graphIndex, lineageAt, walk, graphBounds, torn, stale>>

WriteEntry(c) ==
    LET entry == Head(graphCall[c].todo)[2] IN
    /\ \/ Ready(c, "put") /\ graphIndex' = graphIndex \cup {entry}
       \/ Ready(c, "drop") /\ graphIndex' = graphIndex \ {entry}
    /\ GoOn(c, {}, Rest(c))
    /\ UNCHANGED <<nodeAt, edgeAt, lineageAt, walk, graphBounds, torn, stale>>

\* A write fails: an addition ends with what it has written, a deletion goes on.
GraphFault(c) ==
    /\ graphCall[c].todo # << >> /\ ~Ready(c, "list edges") /\ ~Ready(c, "delete edge")
    /\ graphFaults < MaxGraphFault /\ graphFaults' = graphFaults + 1
    /\ torn' = torn \cup graphCall[c].on
    /\ GoOn(c, {}, IF graphCall[c].op = "add" THEN << >> ELSE Rest(c))
    /\ UNCHANGED <<nodeAt, edgeAt, graphIndex, lineageAt, walk, graphCalls, graphCrashes, stale>>

\* The process ends; nothing is repaired when it starts again.
GraphCrash ==
    /\ graphCrashes < MaxGraphCrash /\ graphCrashes' = graphCrashes + 1
    /\ torn' = torn \cup UNION {graphCall[c].on : c \in GraphClient}
    /\ graphCall' = [c \in GraphClient |-> NoGraphCall]
    /\ UNCHANGED <<nodeAt, edgeAt, graphIndex, lineageAt, walk, graphCalls, graphFaults, stale>>

\* LineageTracker.Record.
Record(d, sources) ==
    /\ graphCalls < MaxGraphCalls /\ graphCalls' = graphCalls + 1
    /\ lineageAt' = [lineageAt EXCEPT ![d] = sources]
    /\ UNCHANGED <<nodeAt, edgeAt, graphIndex, graphCall, walk, graphFaults, graphCrashes, torn, stale>>

GraphInit(nodes0, edges0) ==
    /\ nodeAt = nodes0 /\ edgeAt = edges0
    /\ graphIndex = (UNION {ToSet(NodeEntries(n, nodes0[n])) : n \in {m \in NodeId : nodes0[m] # NoRecord}}) \cup
                    (UNION {ToSet(EdgeEntries(e, edges0[e])) : e \in {f \in EdgeId : edges0[f] # NoRecord}})
    /\ lineageAt = [d \in DataId |-> NoRecord]
    /\ graphCall = [c \in GraphClient |-> NoGraphCall]
    /\ walk = NoWalk /\ graphCalls = 0 /\ graphFaults = 0 /\ graphCrashes = 0
    /\ torn = {} /\ stale = {}

GraphStep(c) == ListEdges(c) \/ ReadEdge(c) \/ WriteRecord(c) \/ WriteEntry(c) \/ GraphFault(c)

GraphWrite(c) ==
    \/ GraphStep(c)
    \/ \E n \in NodeId : DeleteNode(c, n) \/ \E node \in GraphNode : AddNode(c, n, node)
    \/ \E e \in EdgeId : DeleteEdge(c, e) \/ \E edge \in GraphEdge : AddEdge(c, e, edge)

GraphWriteNext ==
    \/ \E c \in GraphClient : GraphWrite(c)
    \/ \E d \in DataId, sources \in Seq(DataId) : Record(d, sources)
    \/ GraphCrash

\* From any whole graph; traversals change none of this.
GraphSpec ==
    /\ \E nodes0 \in [NodeId -> GraphNode \cup {NoRecord}], edges0 \in [EdgeId -> GraphEdge \cup {NoRecord}] :
          GraphInit(nodes0, edges0)
    /\ [][GraphWriteNext]_graphStored

-----------------------------------------------------------------------------
(* What the graph promises.                                                *)

\* A node or an edge, its record, its entries, and those that its record asks for.
Subject == ({"node"} \X NodeId) \cup ({"edge"} \X EdgeId)
SubjectOf(x) == <<IF x[1] \in {"type", "name"} THEN "node" ELSE "edge", x[3]>>
RecordAt(what) == IF what[1] = "node" THEN nodeAt[what[2]] ELSE edgeAt[what[2]]
ListedAt(what) == {x \in graphIndex : SubjectOf(x) = what}
EntriesFor(what, r) ==
    IF r = NoRecord THEN {} ELSE ToSet(IF what[1] = "node" THEN NodeEntries(what[2], r) ELSE EdgeEntries(what[2], r))

\* Every entry of a record that is not being written is there, and no entry is of another
\* record or of none, although AddNode, AddEdge, DeleteNode and DeleteEdge write them one by
\* one and two clients may delete the same. Left out are records written in part, by an
\* addition and another call at a time, or over one with other keys.
GraphIndexed ==
    \A what \in Subject : what \notin torn \cup stale /\ ~Touching(what) =>
        ListedAt(what) = EntriesFor(what, RecordAt(what))

-----------------------------------------------------------------------------
(* The inductive invariant behind it.                                      *)

GraphEntry == ({"type", "name"} \X Label \X NodeId) \cup ({"out", "in"} \X NodeId \X EdgeId) \cup ({"etype"} \X Label \X EdgeId)

GraphItem ==
    ({"node"} \X NodeId \X (GraphNode \cup {NoRecord})) \cup ({"edge"} \X EdgeId \X (GraphEdge \cup {NoRecord})) \cup
    ({"put", "drop"} \X GraphEntry) \cup ({"list edges"} \X NodeId) \cup ({"delete edge"} \X EdgeId)

GraphTypeOK ==
    /\ nodeAt \in [NodeId -> GraphNode \cup {NoRecord}]
    /\ edgeAt \in [EdgeId -> GraphEdge \cup {NoRecord}]
    /\ graphIndex \subseteq GraphEntry
    /\ graphCall \in [GraphClient -> [op : {"none", "add", "delete"}, on : SUBSET Subject, todo : Seq(GraphItem)]]

\* What an item of a call is about, if it does not stand for items to come.
ToCome(do) == do[1] \in {"list edges", "delete edge"}
About(do) == IF do[1] \in {"put", "drop"} THEN SubjectOf(do[2]) ELSE <<do[1], do[2]>>

\* Items in this order: a record goes before its entries, edges go before their node.
MayFollow(first, second) ==
    /\ ToCome(first) => second[1] = "delete edge" \/ (~ToCome(second) /\ About(second)[1] = "node")
    /\ second[1] \in {"node", "edge"} => About(second) # About(first)

\* An addition has one subject; a deletion touches what it has items about.
CallFormed(k) ==
    /\ k.op = "none" => k.on = {} /\ k.todo = << >>
    /\ \A do \in ToSet(k.todo) :
          /\ k.op = "add" => do[1] \in {"node", "edge", "put"} /\ k.on = {About(do)}
          /\ k.op = "delete" => /\ do[1] # "put" /\ (ToCome(do) \/ About(do) \in k.on)
                                /\ do[1] \in {"node", "edge"} => do[3] = NoRecord
    /\ \A i, j \in 1..Len(k.todo) : i < j => MayFollow(k.todo[i], k.todo[j])

\* What a call has still to do about a subject: the records to write, the entries to put or drop.
RecordsIn(k, what) == {do[3] : do \in {x \in ToSet(k.todo) : <<x[1], x[2]>> = what}}
EntriesIn(k, how, what) == {do[2] : do \in {x \in ToSet(k.todo) : x[1] = how /\ About(x) = what}}

\* An addition alone puts the entries of its record, and only that record is ever stored.
Adding(k, what) ==
    \E r \in RecordsIn(k, what) \cup {RecordAt(what)} :
        /\ r # NoRecord
        /\ \/ /\ RecordsIn(k, what) = {r} /\ EntriesIn(k, "put", what) = EntriesFor(what, r)
              /\ RecordAt(what) \in {NoRecord, r} /\ ListedAt(what) = EntriesFor(what, RecordAt(what))
           \/ /\ RecordsIn(k, what) = {} /\ RecordAt(what) = r
              /\ ListedAt(what) \cup EntriesIn(k, "put", what) = EntriesFor(what, r)

\* Deletions find a whole record, which each of them will delete with its entries, or have
\* deleted the record and will drop what is left of the entries.
Deleting(what) ==
    \/ /\ RecordAt(what) # NoRecord /\ ListedAt(what) = EntriesFor(what, RecordAt(what))
       /\ \A c \in GraphClient : what \in graphCall[c].on =>
              /\ RecordsIn(graphCall[c], what) = {NoRecord}
              /\ EntriesIn(graphCall[c], "drop", what) = EntriesFor(what, RecordAt(what))
    \/ /\ RecordAt(what) = NoRecord
       /\ ListedAt(what) \subseteq UNION {EntriesIn(graphCall[c], "drop", what) : c \in GraphClient}

\* One addition and nothing else, or any number of deletions.
SettledAt(what) ==
    /\ \A c \in GraphClient : graphCall[c].op = "add" /\ what \in graphCall[c].on =>
          Adding(graphCall[c], what) /\ \A d \in GraphClient : what \in graphCall[d].on => d = c
    /\ ~Writing(what) => Deleting(what)

EntriesSettle == \A what \in Subject : what \notin torn \cup stale => SettledAt(what)

GraphInv == GraphTypeOK /\ (\A c \in GraphClient : CallFormed(graphCall[c])) /\ EntriesSettle
=============================================================================
