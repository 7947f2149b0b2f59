---------------------------- MODULE GraphProofs ----------------------------
(***************************************************************************)
(* GraphIndexed, for any graph, clients, failing writes and crashes: the   *)
(* inductive invariant of Graph follows what each call in progress has     *)
(* still to write of a node or an edge.                                    *)
(***************************************************************************)
EXTENDS Graph, FiniteSetTheorems, SequenceTheorems, TLAPS

-----------------------------------------------------------------------------
(* Sequences.                                                              *)

\* Each number of a finite set has its own rank among them, so that a scan lists them all.
LEMMA AscendingSeq ==
    ASSUME NEW S \in SUBSET Nat, IsFiniteSet(S)
    PROVE  Ascending(S) \in Seq(S)
<1> DEFINE n == Cardinality(S)
           Below(e) == {d \in S : d < e}
           f == [e \in S |-> Cardinality(Below(e)) + 1]
<1>1. n \in Nat
    BY FS_CardinalityType
<1>2. ASSUME NEW e \in S PROVE IsFiniteSet(Below(e)) /\ Cardinality(Below(e)) \in Nat
  <2>1. Below(e) \in SUBSET S
      OBVIOUS
  <2> HIDE DEF Below
  <2> QED BY <2>1, FS_Subset, FS_CardinalityType
<1>3. ASSUME NEW e \in S PROVE f[e] \in 1..n
  <2>1. Below(e) \in SUBSET (S \ {e}) /\ e \in Nat
      OBVIOUS
  <2>2. IsFiniteSet(S \ {e}) /\ Cardinality(S \ {e}) = n - 1
      BY FS_RemoveElement
  <2>3. Cardinality(Below(e)) <= n - 1
    <3> HIDE DEF Below, n
    <3> QED BY <2>1, <2>2, FS_Subset
  <2>4. f[e] = Cardinality(Below(e)) + 1
      OBVIOUS
  <2> HIDE DEF f, n, Below
  <2> QED BY <1>1, <1>2, <2>3, <2>4
<1>4. ASSUME NEW d \in S, NEW e \in S, d < e PROVE f[d] < f[e]
  <2>1. Below(d) \cup {d} \in SUBSET Below(e) /\ d \notin Below(d)
    <3>1. d \in Nat /\ e \in Nat /\ ~(d < d)
        OBVIOUS
    <3>2. ASSUME NEW x \in S, x < d PROVE x < e
      <4>1. x \in Nat
          OBVIOUS
      <4> HIDE DEF f
      <4> QED BY <1>4, <3>1, <3>2, <4>1
    <3> HIDE DEF f, n
    <3> QED BY <1>4, <3>1, <3>2
  <2>2. Cardinality(Below(d) \cup {d}) = Cardinality(Below(d)) + 1
    <3> HIDE DEF Below
    <3> QED BY <1>2, <2>1, FS_AddElement
  <2>3. Cardinality(Below(d) \cup {d}) <= Cardinality(Below(e))
    <3> HIDE DEF Below
    <3> QED BY <1>2, <2>1, FS_Subset
  <2>4. f[d] = Cardinality(Below(d)) + 1 /\ f[e] = Cardinality(Below(e)) + 1
      OBVIOUS
  <2> HIDE DEF f, Below
  <2> QED BY <1>2, <2>2, <2>3, <2>4
<1>5. f \in Injection(S, 1..n)
  <2>1. f \in [S -> 1..n]
      BY <1>3
  <2>2. ASSUME NEW d \in S, NEW e \in S, f[d] = f[e] PROVE d = e
    <3>1. f[d] \in Nat /\ f[e] \in Nat /\ d \in Nat /\ e \in Nat
        BY <1>1, <1>3
    <3>2. ~(d < e) /\ ~(e < d)
      <4> HIDE DEF f
      <4> QED BY <1>4, <2>2, <3>1
    <3> QED BY <3>1, <3>2
  <2> HIDE DEF f, n
  <2> QED BY <2>1, <2>2 DEF Injection, IsInjective
<1>6. f \in Surjection(S, 1..n)
  <2>1. IsFiniteSet(1..n) /\ Cardinality(1..n) = n
      BY <1>1, FS_Interval
  <2> HIDE DEF f
  <2> QED BY <1>5, <2>1, FS_Injection
<1>7. ASSUME NEW j \in 1..n PROVE \E e \in S : Cardinality(Below(e)) = j - 1
  <2>1. PICK e \in S : f[e] = j
      BY <1>6, Zenon DEF Surjection
  <2>2. f[e] = Cardinality(Below(e)) + 1
      OBVIOUS
  <2> HIDE DEF f, Below, n
  <2> QED BY <1>1, <1>2, <2>1, <2>2
<1>8. Ascending(S) \in [1..n -> S]
    BY <1>7 DEF Ascending
<1> HIDE DEF n
<1> QED BY <1>1, <1>8

\* What is in a sequence is its head or in its tail.
LEMMA HeadAndTail ==
    ASSUME NEW S, NEW s \in Seq(S), s # << >>
    PROVE  /\ Head(s) \in S /\ Tail(s) \in Seq(S) /\ ToSet(Tail(s)) \subseteq S
           /\ ToSet(s) = {Head(s)} \cup ToSet(Tail(s))
<1>1. Len(s) \in Nat \ {0} /\ Head(s) = s[1] /\ Len(Tail(s)) = Len(s) - 1 /\ Tail(s) \in Seq(S)
      /\ \A i \in 1..Len(Tail(s)) : Tail(s)[i] = s[i + 1]
    OBVIOUS
<1>2. \A i \in 1..Len(s) : i = 1 \/ (i - 1 \in 1..Len(Tail(s)) /\ s[i] = Tail(s)[i - 1])
    BY <1>1
<1>3. \A i \in 1..Len(Tail(s)) : i + 1 \in 1..Len(s)
    BY <1>1
<1>4. DOMAIN s = 1..Len(s) /\ DOMAIN Tail(s) = 1..Len(Tail(s))
    BY <1>1
<1>5. ToSet(s) \subseteq {Head(s)} \cup ToSet(Tail(s))
  <2> SUFFICES ASSUME NEW i \in 1..Len(s) PROVE s[i] = Head(s) \/ s[i] \in ToSet(Tail(s))
      BY <1>4 DEF ToSet
  <2>1. CASE i = 1
      BY <1>1, <2>1
  <2>2. CASE i # 1
    <3>1. i - 1 \in DOMAIN Tail(s) /\ s[i] = Tail(s)[i - 1]
        BY <1>2, <1>4, <2>2
    <3> QED BY <3>1 DEF ToSet
  <2> QED BY <2>1, <2>2
<1>6. ToSet(Tail(s)) \subseteq ToSet(s) /\ Head(s) \in ToSet(s)
    BY <1>1, <1>3, <1>4 DEF ToSet
<1>7. ToSet(Tail(s)) \subseteq S
    BY <1>1, <1>4 DEF ToSet
<1> QED BY <1>1, <1>5, <1>6, <1>7

\* What is in two sequences is in one of them.
LEMMA Joined ==
    ASSUME NEW S, NEW s \in Seq(S), NEW t \in Seq(S)
    PROVE  s \o t \in Seq(S) /\ ToSet(s \o t) = ToSet(s) \cup ToSet(t)
<1>1. /\ s \o t \in Seq(S) /\ Len(s \o t) = Len(s) + Len(t) /\ Len(s) \in Nat /\ Len(t) \in Nat
      /\ DOMAIN (s \o t) = 1..(Len(s) + Len(t)) /\ DOMAIN s = 1..Len(s) /\ DOMAIN t = 1..Len(t)
    OBVIOUS
<1>2. \A i \in 1..Len(s) : i \in 1..(Len(s) + Len(t)) /\ (s \o t)[i] = s[i]
    BY <1>1
<1>3. \A i \in 1..Len(t) : i + Len(s) \in 1..(Len(s) + Len(t)) /\ (s \o t)[i + Len(s)] = t[i]
    BY <1>1
<1>4. \A i \in 1..(Len(s) + Len(t)) :
          i \in 1..Len(s) \/ (i - Len(s) \in 1..Len(t) /\ (s \o t)[i] = t[i - Len(s)])
    BY <1>1
<1>5. ToSet(s \o t) \subseteq ToSet(s) \cup ToSet(t)
    BY <1>1, <1>2, <1>4 DEF ToSet
<1>6. ToSet(s) \subseteq ToSet(s \o t) /\ ToSet(t) \subseteq ToSet(s \o t)
    BY <1>1, <1>2, <1>3 DEF ToSet
<1> QED BY <1>1, <1>5, <1>6

\* The order of a call's items.
InOrder(s) == \A i, j \in 1..Len(s) : i < j => MayFollow(s[i], s[j])

\* The head is followed by what may follow it, and the tail is in order.
LEMMA TailInOrder ==
    ASSUME NEW S, NEW s \in Seq(S), s # << >>, InOrder(s)
    PROVE  InOrder(Tail(s)) /\ \A x \in ToSet(Tail(s)) : MayFollow(Head(s), x)
<1>1. Len(s) \in Nat \ {0} /\ Head(s) = s[1] /\ Len(Tail(s)) = Len(s) - 1 /\ Tail(s) \in Seq(S)
      /\ \A i \in 1..Len(Tail(s)) : Tail(s)[i] = s[i + 1]
    OBVIOUS
<1>2. ASSUME NEW i \in 1..Len(Tail(s)), NEW j \in 1..Len(Tail(s)), i < j
      PROVE  MayFollow(Tail(s)[i], Tail(s)[j])
  <2>1. i + 1 \in 1..Len(s) /\ j + 1 \in 1..Len(s) /\ i + 1 < j + 1
      BY <1>1, <1>2
  <2>2. MayFollow(s[i + 1], s[j + 1])
      BY <2>1 DEF InOrder
  <2> QED BY <1>1, <2>2
<1>3. ASSUME NEW i \in 1..Len(Tail(s)) PROVE MayFollow(Head(s), Tail(s)[i])
  <2>1. 1 \in 1..Len(s) /\ i + 1 \in 1..Len(s) /\ 1 < i + 1
      BY <1>1
  <2>2. MayFollow(s[1], s[i + 1])
      BY <2>1 DEF InOrder
  <2> QED BY <1>1, <2>2
<1>4. DOMAIN Tail(s) = 1..Len(Tail(s))
    BY <1>1
<1> QED BY <1>2, <1>3, <1>4 DEF InOrder, ToSet

\* Two sequences in order are in order together when all of the second may follow the first.
LEMMA JoinedInOrder ==
    ASSUME NEW S, NEW s \in Seq(S), NEW t \in Seq(S), InOrder(s), InOrder(t),
           \A x \in ToSet(s), y \in ToSet(t) : MayFollow(x, y)
    PROVE  InOrder(s \o t)
<1>1. /\ s \o t \in Seq(S) /\ Len(s \o t) = Len(s) + Len(t) /\ Len(s) \in Nat /\ Len(t) \in Nat
      /\ DOMAIN s = 1..Len(s) /\ DOMAIN t = 1..Len(t)
    OBVIOUS
<1> SUFFICES ASSUME NEW i \in 1..(Len(s) + Len(t)), NEW j \in 1..(Len(s) + Len(t)), i < j
             PROVE  MayFollow((s \o t)[i], (s \o t)[j])
    BY <1>1 DEF InOrder
<1>2. CASE j <= Len(s)
  <2>1. i \in 1..Len(s) /\ j \in 1..Len(s) /\ (s \o t)[i] = s[i] /\ (s \o t)[j] = s[j]
      BY <1>1, <1>2
  <2> QED BY <2>1 DEF InOrder
<1>3. CASE i <= Len(s) /\ Len(s) < j
  <2>1. i \in 1..Len(s) /\ j - Len(s) \in 1..Len(t) /\ (s \o t)[i] = s[i] /\ (s \o t)[j] = t[j - Len(s)]
      BY <1>1, <1>3
  <2>2. s[i] \in ToSet(s) /\ t[j - Len(s)] \in ToSet(t)
      BY <1>1, <2>1 DEF ToSet
  <2> QED BY <2>1, <2>2
<1>4. CASE Len(s) < i
  <2>1. /\ i - Len(s) \in 1..Len(t) /\ j - Len(s) \in 1..Len(t) /\ i - Len(s) < j - Len(s)
        /\ (s \o t)[i] = t[i - Len(s)] /\ (s \o t)[j] = t[j - Len(s)]
      BY <1>1, <1>4
  <2> QED BY <2>1 DEF InOrder
<1> QED BY <1>1, <1>2, <1>3, <1>4

-----------------------------------------------------------------------------
(* Items.                                                                  *)

RecordType(what) == IF what[1] = "node" THEN GraphNode ELSE GraphEdge

\* A subject is a node or an edge.
LEMMA SubjectKinds ==
    ASSUME NEW what \in Subject
    PROVE  /\ what = <<what[1], what[2]>>
           /\ (what[1] = "node" /\ what[2] \in NodeId) \/ (what[1] = "edge" /\ what[2] \in EdgeId)
<1>1. CASE what \in {"node"} \X NodeId
    BY <1>1
<1>2. CASE what \in {"edge"} \X EdgeId
    BY <1>2
<1> QED BY <1>1, <1>2 DEF Subject

\* The kinds of items.
LEMMA ItemKinds ==
    ASSUME NEW do \in GraphItem
    PROVE  \/ /\ do[1] \in {"node", "edge"} /\ do = <<do[1], do[2], do[3]>> /\ ~ToCome(do)
              /\ About(do) = <<do[1], do[2]>> /\ About(do) \in Subject
              /\ do[3] \in RecordType(About(do)) \cup {NoRecord}
           \/ /\ do[1] \in {"put", "drop"} /\ do = <<do[1], do[2]>> /\ ~ToCome(do)
              /\ About(do) = SubjectOf(do[2]) /\ do[2] \in GraphEntry
           \/ /\ ToCome(do) /\ About(do) = <<do[1], do[2]>>
              /\ (do[1] = "list edges" /\ do[2] \in NodeId) \/ (do[1] = "delete edge" /\ do[2] \in EdgeId)
<1>1. CASE do \in {"node"} \X NodeId \X (GraphNode \cup {NoRecord})
  <2>1. do = <<do[1], do[2], do[3]>> /\ do[1] = "node" /\ do[2] \in NodeId /\ do[3] \in GraphNode \cup {NoRecord}
      BY <1>1
  <2>2. ~ToCome(do) /\ About(do) = <<do[1], do[2]>>
      BY <2>1 DEF ToCome, About
  <2>3. About(do) \in Subject /\ About(do)[1] = "node"
      BY <2>1, <2>2 DEF Subject
  <2> QED BY <2>1, <2>2, <2>3 DEF RecordType
<1>2. CASE do \in {"edge"} \X EdgeId \X (GraphEdge \cup {NoRecord})
  <2>1. do = <<do[1], do[2], do[3]>> /\ do[1] = "edge" /\ do[2] \in EdgeId /\ do[3] \in GraphEdge \cup {NoRecord}
      BY <1>2
  <2>2. ~ToCome(do) /\ About(do) = <<do[1], do[2]>>
      BY <2>1 DEF ToCome, About
  <2>3. About(do) \in Subject /\ About(do)[1] = "edge"
      BY <2>1, <2>2 DEF Subject
  <2> QED BY <2>1, <2>2, <2>3 DEF RecordType
<1>3. CASE do \in {"put", "drop"} \X GraphEntry
  <2>1. do = <<do[1], do[2]>> /\ do[1] \in {"put", "drop"} /\ do[2] \in GraphEntry
      BY <1>3
  <2>2. ~ToCome(do) /\ About(do) = SubjectOf(do[2])
      BY <2>1 DEF ToCome, About
  <2> QED BY <2>1, <2>2
<1>4. CASE do \in ({"list edges"} \X NodeId) \cup ({"delete edge"} \X EdgeId)
    BY <1>4 DEF ToCome, About
<1> QED BY <1>1, <1>2, <1>3, <1>4 DEF GraphItem

\* An entry is about a node or an edge.
LEMMA EntryKinds == \A x \in GraphEntry : SubjectOf(x) \in Subject
<1> SUFFICES ASSUME NEW x \in GraphEntry PROVE SubjectOf(x) \in Subject
    OBVIOUS
<1>1. CASE x \in {"type", "name"} \X Label \X NodeId
    BY <1>1 DEF SubjectOf, Subject
<1>2. CASE x \in ({"out", "in"} \X NodeId \X EdgeId) \cup ({"etype"} \X Label \X EdgeId)
    BY <1>2 DEF SubjectOf, Subject
<1> QED BY <1>1, <1>2 DEF GraphEntry

\* The entries of a record are its own.
LEMMA EntriesOwn ==
    ASSUME NEW what \in Subject, NEW r \in RecordType(what) \cup {NoRecord}
    PROVE  /\ EntriesFor(what, r) \subseteq GraphEntry
           /\ \A x \in EntriesFor(what, r) : SubjectOf(x) = what
<1>1. CASE r = NoRecord
    BY <1>1 DEF EntriesFor
<1>2. CASE r # NoRecord /\ what[1] = "node"
  <2>1. EntriesFor(what, r) = {<<"type", r.type, what[2]>>, <<"name", r.name, what[2]>>}
      BY <1>2 DEF EntriesFor, NodeEntries, ToSet
  <2>2. what = <<"node", what[2]>> /\ what[2] \in NodeId /\ r \in GraphNode
      BY <1>2, SubjectKinds DEF RecordType
  <2>3. r.type \in Label /\ r.name \in Label
      BY <2>2 DEF GraphNode
  <2> QED BY <2>1, <2>2, <2>3 DEF GraphEntry, SubjectOf
<1>3. CASE r # NoRecord /\ what[1] = "edge"
  <2>1. EntriesFor(what, r) = {<<"out", r.from, what[2]>>, <<"in", r.to, what[2]>>, <<"etype", r.type, what[2]>>}
      BY <1>3 DEF EntriesFor, EdgeEntries, ToSet
  <2>2. what = <<"edge", what[2]>> /\ what[2] \in EdgeId /\ r \in GraphEdge
      BY <1>3, SubjectKinds DEF RecordType
  <2>3. r.from \in NodeId /\ r.to \in NodeId /\ r.type \in Label
      BY <2>2 DEF GraphEdge
  <2> QED BY <2>1, <2>2, <2>3 DEF GraphEntry, SubjectOf
<1> QED BY <1>1, <1>2, <1>3, SubjectKinds

\* What a set of items says about a subject; RecordsIn and EntriesIn are this for a call.
Recs(items, what) == {do[3] : do \in {x \in items : <<x[1], x[2]>> = what}}
Ents(items, how, what) == {do[2] : do \in {x \in items : x[1] = how /\ About(x) = what}}

\* Two sets of items say what each of them says.
LEMMA RecsEntsJoin ==
    ASSUME NEW A, NEW B, NEW what, NEW how
    PROVE  /\ Recs(A \cup B, what) = Recs(A, what) \cup Recs(B, what)
           /\ Ents(A \cup B, how, what) = Ents(A, how, what) \cup Ents(B, how, what)
BY DEF Recs, Ents

\* Items about other subjects say nothing.
LEMMA NothingSaid ==
    ASSUME NEW A \in SUBSET GraphItem, NEW what \in Subject, NEW how \in {"put", "drop"},
           \A do \in A : ToCome(do) \/ About(do) # what
    PROVE  Recs(A, what) = {} /\ Ents(A, how, what) = {}
<1>1. ASSUME NEW do \in A PROVE <<do[1], do[2]>> # what
  <2>1. CASE ToCome(do)
      BY <2>1, SubjectKinds DEF ToCome
  <2>2. CASE ~ToCome(do) /\ do[1] \in {"node", "edge"}
      BY <2>2, ItemKinds
  <2>3. CASE do[1] \notin {"node", "edge"}
      BY <2>3, SubjectKinds
  <2> QED BY <2>1, <2>2, <2>3
<1>2. ASSUME NEW do \in A PROVE ~(do[1] = how /\ About(do) = what)
    BY DEF ToCome
<1> QED BY <1>1, <1>2 DEF Recs, Ents

\* A record to write and entries to put or to drop.
StepItems(what, r, how, entries) == {<<what[1], what[2], r>>} \cup {<<how, x>> : x \in entries}

OwnEntries(what) == {x \in GraphEntry : SubjectOf(x) = what}

\* Items that write r and then put or drop these entries, and say no more.
Saying(items, what, r, how, entries) ==
    /\ Recs(items, what) = {r} /\ Ents(items, how, what) = entries
    /\ \A other \in {"put", "drop"} \ {how} : Ents(items, other, what) = {}
    /\ \A do \in items : do[1] \in {"node", "edge", how} /\ About(do) = what /\ ~ToCome(do)

\* What the steps of an addition or a deletion say.
LEMMA StepsSay ==
    ASSUME NEW what \in Subject, NEW r, NEW how \in {"put", "drop"}, NEW entries \in SUBSET OwnEntries(what)
    PROVE  Saying(StepItems(what, r, how, entries), what, r, how, entries)
<1> DEFINE rec == <<what[1], what[2], r>>
           puts == {<<how, x>> : x \in entries}
<1>1. rec[1] \in {"node", "edge"} /\ <<rec[1], rec[2]>> = what /\ rec[3] = r /\ About(rec) = what /\ ~ToCome(rec)
    BY SubjectKinds DEF About, ToCome
<1>2. ASSUME NEW do \in puts PROVE do[1] = how /\ About(do) = what /\ ~ToCome(do)
  <2>1. PICK x \in entries : do = <<how, x>>
      OBVIOUS
  <2>2. do[1] = how /\ do[2] = x /\ SubjectOf(x) = what
      BY <2>1 DEF OwnEntries
  <2> QED BY <2>2 DEF About, ToCome
<1>3. \A do \in puts : <<do[1], do[2]>> # what
    BY SubjectKinds
<1>4. Ents(puts, how, what) = entries
  <2>1. {do \in puts : do[1] = how /\ About(do) = what} = puts
      BY <1>2
  <2>2. Ents(puts, how, what) = {do[2] : do \in puts}
      BY <2>1 DEF Ents
  <2>3. \A x \in entries : <<how, x>> \in puts /\ <<how, x>>[2] = x
      OBVIOUS
  <2>4. \A do \in puts : do[2] \in entries
      OBVIOUS
  <2> HIDE DEF puts
  <2> QED BY <2>2, <2>3, <2>4
<1>5. (\A other \in {"put", "drop"} : Ents({rec}, other, what) = {}) /\ Recs({rec}, what) = {r}
    BY <1>1 DEF Ents, Recs
<1>6. (\A other \in {"put", "drop"} \ {how} : Ents(puts, other, what) = {}) /\ Recs(puts, what) = {}
    BY <1>2, <1>3 DEF Ents, Recs
<1> HIDE DEF rec, puts
<1>7. /\ Recs({rec} \cup puts, what) = {r}
      /\ Ents({rec} \cup puts, how, what) = entries
      /\ \A other \in {"put", "drop"} \ {how} : Ents({rec} \cup puts, other, what) = {}
  <2>1. /\ Recs({rec} \cup puts, what) = Recs({rec}, what) \cup Recs(puts, what)
        /\ \A h \in {"put", "drop"} : Ents({rec} \cup puts, h, what) = Ents({rec}, h, what) \cup Ents(puts, h, what)
      BY RecsEntsJoin
  <2> QED BY <1>4, <1>5, <1>6, <2>1
<1>8. \A do \in {rec} \cup puts : do[1] \in {"node", "edge", how} /\ About(do) = what /\ ~ToCome(do)
    BY <1>1, <1>2
<1>9. StepItems(what, r, how, entries) = {rec} \cup puts
    BY DEF StepItems, rec, puts
<1> QED BY <1>7, <1>8, <1>9 DEF Saying

\* A call's list that writes r to a subject and then puts or drops the entries of r0.
WholeSteps(todo, what, r, how, r0) ==
    /\ todo \in Seq(GraphItem) /\ InOrder(todo) /\ todo # << >>
    /\ Saying(ToSet(todo), what, r, how, EntriesFor(what, r0))

\* AddNode, AddEdge, DeleteNode and DeleteEdge make such lists.
LEMMA StepsWhole ==
    ASSUME NEW what \in Subject, NEW r0 \in RecordType(what), NEW r \in RecordType(what) \cup {NoRecord},
           NEW how \in {"put", "drop"}
    PROVE  \A entries, todo :
               /\ entries = IF what[1] = "node" THEN NodeEntries(what[2], r0) ELSE EdgeEntries(what[2], r0)
               /\ todo = <<<<what[1], what[2], r>>>> \o [j \in DOMAIN entries |-> <<how, entries[j]>>]
               => WholeSteps(todo, what, r, how, r0)
<1>0. SUFFICES ASSUME NEW entries, NEW todo,
                      entries = IF what[1] = "node" THEN NodeEntries(what[2], r0) ELSE EdgeEntries(what[2], r0),
                      todo = <<<<what[1], what[2], r>>>> \o [j \in DOMAIN entries |-> <<how, entries[j]>>]
               PROVE  WholeSteps(todo, what, r, how, r0)
    OBVIOUS
<1>1. r0 # NoRecord
    BY GraphAssumption DEF RecordType
<1>2. ToSet(entries) = EntriesFor(what, r0)
    BY <1>0, <1>1 DEF EntriesFor
<1>3. ToSet(entries) \subseteq GraphEntry /\ \A x \in ToSet(entries) : SubjectOf(x) = what
    BY <1>2, EntriesOwn
<1>4. entries \in Seq(GraphEntry)
  <2>1. CASE what[1] = "node"
    <3> DEFINE a == <<"type", r0.type, what[2]>>
               b == <<"name", r0.name, what[2]>>
    <3>1. entries = <<a, b>>
        BY <1>0, <2>1 DEF NodeEntries
    <3> HIDE DEF a, b
    <3>2. a \in ToSet(entries) /\ b \in ToSet(entries)
        BY <3>1 DEF ToSet
    <3>3. a \in GraphEntry /\ b \in GraphEntry
        BY <1>3, <3>2
    <3>4. <<a, b>> \in Seq(GraphEntry)
        BY <3>3
    <3> QED BY <3>1, <3>4
  <2>2. CASE what[1] # "node"
    <3> DEFINE a == <<"out", r0.from, what[2]>>
               b == <<"in", r0.to, what[2]>>
               d == <<"etype", r0.type, what[2]>>
    <3>1. entries = <<a, b, d>>
        BY <1>0, <2>2 DEF EdgeEntries
    <3> HIDE DEF a, b, d
    <3>2. a \in ToSet(entries) /\ b \in ToSet(entries) /\ d \in ToSet(entries)
        BY <3>1 DEF ToSet
    <3>3. a \in GraphEntry /\ b \in GraphEntry /\ d \in GraphEntry
        BY <1>3, <3>2
    <3>4. <<a, b, d>> \in Seq(GraphEntry)
        BY <3>3
    <3> QED BY <3>1, <3>4
  <2> QED BY <2>1, <2>2
<1> DEFINE steps == [j \in DOMAIN entries |-> <<how, entries[j]>>]
           rec == <<what[1], what[2], r>>
<1>5. todo = <<rec>> \o steps
    BY <1>0
<1>6. rec \in GraphItem /\ About(rec) = what /\ ~ToCome(rec) /\ rec[1] \in {"node", "edge"}
    BY SubjectKinds DEF GraphItem, RecordType, About, ToCome
<1>7. /\ DOMAIN entries = 1..Len(entries) /\ Len(entries) \in Nat
      /\ \A j \in 1..Len(entries) : entries[j] \in GraphEntry /\ entries[j] \in ToSet(entries)
    BY <1>4 DEF ToSet
<1>8. /\ steps \in Seq(GraphItem) /\ Len(steps) = Len(entries)
      /\ \A j \in 1..Len(entries) : steps[j] = <<how, entries[j]>>
  <2>1. \A j \in 1..Len(entries) : <<how, entries[j]>> \in GraphItem
      BY <1>7 DEF GraphItem
  <2>2. steps \in [1..Len(entries) -> GraphItem]
      BY <1>7, <2>1
  <2> QED BY <1>7, <2>2
<1> HIDE DEF steps
<1>9. \A j \in 1..Len(entries) : ~ToCome(steps[j]) /\ About(steps[j]) = what /\ steps[j][1] = how
  <2> SUFFICES ASSUME NEW j \in 1..Len(entries)
               PROVE  ~ToCome(steps[j]) /\ About(steps[j]) = what /\ steps[j][1] = how
      OBVIOUS
  <2>1. steps[j][1] = how /\ steps[j][2] = entries[j] /\ SubjectOf(entries[j]) = what
      BY <1>3, <1>7, <1>8
  <2> QED BY <2>1 DEF ToCome, About
<1>10. InOrder(steps)
    BY <1>8, <1>9 DEF InOrder, MayFollow
<1>11. ToSet(steps) = {<<how, x>> : x \in ToSet(entries)}
    BY <1>7, <1>8 DEF ToSet, steps
<1> DEFINE first == <<rec>>
<1> HIDE DEF rec
<1>12. first \in Seq(GraphItem) /\ ToSet(first) = {rec} /\ InOrder(first)
    BY <1>6 DEF ToSet, InOrder
<1>13. todo = first \o steps
    BY <1>5
<1> HIDE DEF first
<1>14. \A x \in ToSet(first), y \in ToSet(steps) : MayFollow(x, y)
  <2>1. \A y \in ToSet(steps) : y[1] = how
      BY <1>11
  <2> QED BY <1>6, <1>12, <2>1 DEF MayFollow
<1>15. todo \in Seq(GraphItem) /\ ToSet(todo) = {rec} \cup ToSet(steps) /\ InOrder(todo)
  <2>1. first \o steps \in Seq(GraphItem) /\ ToSet(first \o steps) = ToSet(first) \cup ToSet(steps)
      BY <1>8, <1>12, Joined
  <2>2. InOrder(first \o steps)
      BY <1>8, <1>10, <1>12, <1>14, JoinedInOrder
  <2> QED BY <1>12, <1>13, <2>1, <2>2
<1>16. todo # << >>
  <2>1. rec \in ToSet(todo)
      BY <1>15
  <2> QED BY <2>1 DEF ToSet
<1>17. ToSet(todo) = StepItems(what, r, how, ToSet(entries))
    BY <1>11, <1>15 DEF rec, StepItems
<1>18. Saying(StepItems(what, r, how, ToSet(entries)), what, r, how, ToSet(entries))
  <2> DEFINE E == ToSet(entries)
  <2>1. E \in SUBSET OwnEntries(what)
      BY <1>3 DEF OwnEntries
  <2> HIDE DEF E
  <2>2. Saying(StepItems(what, r, how, E), what, r, how, E)
      BY <2>1, StepsSay
  <2> QED BY <2>2 DEF E
<1> QED BY <1>2, <1>15, <1>16, <1>17, <1>18 DEF WholeSteps

-----------------------------------------------------------------------------
(* Calls.                                                                  *)

\* The parts of a well-typed call.
LEMMA CallParts ==
    ASSUME GraphTypeOK, NEW c \in GraphClient
    PROVE  /\ graphCall[c] = [op |-> graphCall[c].op, on |-> graphCall[c].on, todo |-> graphCall[c].todo]
           /\ graphCall[c].op \in {"none", "add", "delete"} /\ graphCall[c].on \subseteq Subject
           /\ graphCall[c].todo \in Seq(GraphItem) /\ ToSet(graphCall[c].todo) \subseteq GraphItem
<1>1. graphCall[c] \in [op : {"none", "add", "delete"}, on : SUBSET Subject, todo : Seq(GraphItem)]
    BY DEF GraphTypeOK
<1>2. graphCall[c].todo \in Seq(GraphItem)
    BY <1>1
<1>3. ToSet(graphCall[c].todo) \subseteq GraphItem
  <2> DEFINE s == graphCall[c].todo
  <2>1. DOMAIN s = 1..Len(s) /\ \A i \in 1..Len(s) : s[i] \in GraphItem
      BY <1>2
  <2> QED BY <2>1 DEF ToSet
<1> QED BY <1>1, <1>2, <1>3

\* A call begins.
LEMMA CallStarts ==
    ASSUME GraphTypeOK, NEW c \in GraphClient, NEW op \in {"add", "delete"}, NEW on \in SUBSET Subject,
           NEW todo \in Seq(GraphItem), StartGraphCall(c, op, on, todo)
    PROVE  /\ GraphTypeOK' /\ UNCHANGED <<nodeAt, edgeAt, graphIndex>>
           /\ graphCall[c] = NoGraphCall
           /\ graphCall'[c].op = op /\ graphCall'[c].on = on /\ graphCall'[c].todo = todo
           /\ \A d \in GraphClient \ {c} : graphCall'[d] = graphCall[d]
<1> DEFINE k == [op |-> op, on |-> on, todo |-> todo]
<1>1. k \in [op : {"none", "add", "delete"}, on : SUBSET Subject, todo : Seq(GraphItem)]
      /\ k.op = op /\ k.on = on /\ k.todo = todo
    OBVIOUS
<1>2. graphCall' = [graphCall EXCEPT ![c] = k] /\ graphCall[c] = NoGraphCall /\ UNCHANGED <<nodeAt, edgeAt, graphIndex>>
    BY DEF StartGraphCall
<1> HIDE DEF k
<1>3. graphCall'[c] = k /\ \A d \in GraphClient \ {c} : graphCall'[d] = graphCall[d]
    BY <1>2 DEF GraphTypeOK
<1>4. GraphTypeOK'
    BY <1>1, <1>2 DEF GraphTypeOK
<1> QED BY <1>1, <1>2, <1>3, <1>4

\* A call goes on with another list.
LEMMA CallGoesOn ==
    ASSUME GraphTypeOK, NEW c \in GraphClient, NEW on \in SUBSET Subject, NEW todo \in Seq(GraphItem), GoOn(c, on, todo)
    PROVE  /\ graphCall' \in [GraphClient -> [op : {"none", "add", "delete"}, on : SUBSET Subject, todo : Seq(GraphItem)]]
           /\ graphCall'[c].todo = todo
           /\ graphCall'[c].op = IF todo = << >> THEN "none" ELSE graphCall[c].op
           /\ graphCall'[c].on = IF todo = << >> THEN {} ELSE graphCall[c].on \cup on
           /\ \A d \in GraphClient \ {c} : graphCall'[d] = graphCall[d]
<1> DEFINE Call == [op : {"none", "add", "delete"}, on : SUBSET Subject, todo : Seq(GraphItem)]
           old == graphCall[c]
           k == IF todo = << >> THEN NoGraphCall ELSE [old EXCEPT !.on = @ \cup on, !.todo = todo]
<1>1. graphCall' = [graphCall EXCEPT ![c] = k] /\ graphCall \in [GraphClient -> Call]
  <2>1. graphCall' = [graphCall EXCEPT ![c] = k]
      BY Zenon DEF GoOn
  <2>2. graphCall \in [GraphClient -> Call]
      BY DEF GraphTypeOK
  <2> QED BY <2>1, <2>2
<1>2. old \in Call
    BY <1>1
<1> HIDE DEF old
<1>3. /\ k.op = IF todo = << >> THEN "none" ELSE old.op
      /\ k.on = IF todo = << >> THEN {} ELSE old.on \cup on
      /\ k.todo = todo /\ k \in Call
  <2>1. CASE todo = << >>
    <3>1. k = NoGraphCall
        BY <2>1
    <3>2. NoGraphCall.op = "none" /\ NoGraphCall.on = {} /\ NoGraphCall.todo = << >> /\ NoGraphCall \in Call
        BY DEF NoGraphCall
    <3> QED BY <2>1, <3>1, <3>2
  <2>2. CASE todo # << >>
    <3>1. k = [old EXCEPT !.on = @ \cup on, !.todo = todo]
        BY <2>2
    <3>2. k.op = old.op /\ k.on = old.on \cup on /\ k.todo = todo
        BY <1>2, <3>1
    <3>3. k = [op |-> old.op, on |-> old.on \cup on, todo |-> todo]
        BY <1>2, <3>1
    <3> HIDE DEF k
    <3>4. k \in Call
        BY <1>2, <3>3
    <3> QED BY <2>2, <3>2, <3>4
  <2> QED BY <2>1, <2>2
<1> HIDE DEF k, Call
<1>4. graphCall'[c] = k /\ (\A d \in GraphClient \ {c} : graphCall'[d] = graphCall[d]) /\ graphCall' \in [GraphClient -> Call]
    BY <1>1, <1>3
<1> QED BY <1>3, <1>4 DEF Call, old

-----------------------------------------------------------------------------
(* A subject at rest between steps.                                        *)

\* Adding, Deleting and SettledAt, of any record, entries and calls.
AddingIn(what, rec, listed, recs, puts) ==
    \E r \in recs \cup {rec} :
        /\ r # NoRecord
        /\ \/ /\ recs = {r} /\ puts = EntriesFor(what, r)
              /\ rec \in {NoRecord, r} /\ listed = EntriesFor(what, rec)
           \/ recs = {} /\ rec = r /\ listed \cup puts = EntriesFor(what, r)

DeletingIn(what, rec, listed, calls) ==
    \/ /\ rec # NoRecord /\ listed = EntriesFor(what, rec)
       /\ \A c \in GraphClient : what \in calls[c].on =>
              /\ RecordsIn(calls[c], what) = {NoRecord}
              /\ EntriesIn(calls[c], "drop", what) = EntriesFor(what, rec)
    \/ /\ rec = NoRecord
       /\ listed \subseteq UNION {EntriesIn(calls[c], "drop", what) : c \in GraphClient}

SettledIn(what, rec, listed, calls) ==
    /\ \A c \in GraphClient : calls[c].op = "add" /\ what \in calls[c].on =>
          /\ AddingIn(what, rec, listed, RecordsIn(calls[c], what), EntriesIn(calls[c], "put", what))
          /\ \A d \in GraphClient : what \in calls[d].on => d = c
    /\ (\A c \in GraphClient : calls[c].op = "add" => what \notin calls[c].on) => DeletingIn(what, rec, listed, calls)

\* They are those of Graph.
LEMMA SettledAs ==
    ASSUME NEW what
    PROVE  SettledAt(what) <=> SettledIn(what, RecordAt(what), ListedAt(what), graphCall)
<1>1. \A c \in GraphClient :
          Adding(graphCall[c], what) <=> AddingIn(what, RecordAt(what), ListedAt(what),
                                                  RecordsIn(graphCall[c], what), EntriesIn(graphCall[c], "put", what))
    BY DEF Adding, AddingIn
<1>2. Deleting(what) <=> DeletingIn(what, RecordAt(what), ListedAt(what), graphCall)
    BY DEF Deleting, DeletingIn
<1>3. Writing(what) <=> ~\A c \in GraphClient : graphCall[c].op = "add" => what \notin graphCall[c].on
    BY DEF Writing
<1> QED BY <1>1, <1>2, <1>3 DEF SettledAt, SettledIn

\* The same after a step.
LEMMA SettledThen ==
    ASSUME NEW what
    PROVE  SettledAt(what)' <=> SettledIn(what, RecordAt(what)', ListedAt(what)', graphCall')
<1>1. \A c \in GraphClient :
          Adding(graphCall[c], what)' <=> AddingIn(what, RecordAt(what)', ListedAt(what)',
                                                   RecordsIn(graphCall'[c], what), EntriesIn(graphCall'[c], "put", what))
    BY DEF Adding, AddingIn
<1>2. Deleting(what)' <=> DeletingIn(what, RecordAt(what)', ListedAt(what)', graphCall')
    BY DEF Deleting, DeletingIn
<1>3. Writing(what)' <=> ~\A c \in GraphClient : graphCall'[c].op = "add" => what \notin graphCall'[c].on
    BY DEF Writing
<1> QED BY <1>1, <1>2, <1>3 DEF SettledAt, SettledIn

\* What RecordsIn and EntriesIn say of a call is said by its items.
LEMMA CallSays ==
    ASSUME NEW k, NEW what, NEW how
    PROVE  RecordsIn(k, what) = Recs(ToSet(k.todo), what) /\ EntriesIn(k, how, what) = Ents(ToSet(k.todo), how, what)
BY DEF RecordsIn, Recs, EntriesIn, Ents

Call == [op : {"none", "add", "delete"}, on : SUBSET Subject, todo : Seq(GraphItem)]

\* The items of a call.
LEMMA CallItems ==
    ASSUME NEW k \in Call
    PROVE  k.op \in {"none", "add", "delete"} /\ k.on \subseteq Subject /\ k.todo \in Seq(GraphItem) /\ ToSet(k.todo) \subseteq GraphItem
<1> DEFINE s == k.todo
<1>1. k.op \in {"none", "add", "delete"} /\ k.on \subseteq Subject /\ s \in Seq(GraphItem)
    BY DEF Call
<1> HIDE DEF s
<1>2. DOMAIN s = 1..Len(s) /\ \A i \in 1..Len(s) : s[i] \in GraphItem
    BY <1>1
<1>3. ToSet(s) \subseteq GraphItem
    BY <1>2 DEF ToSet
<1> QED BY <1>1, <1>3 DEF s

\* A call has no items about a subject it does not touch.
LEMMA UntouchedItems ==
    ASSUME NEW k \in Call, CallFormed(k), NEW what \in Subject, what \notin k.on, NEW do \in ToSet(k.todo)
    PROVE  ToCome(do) \/ About(do) # what
<1>1. k.op \in {"none", "add", "delete"}
    BY CallItems
<1>2. CASE k.op = "none"
    BY <1>2 DEF CallFormed, ToSet
<1>3. CASE k.op = "add"
    BY <1>3 DEF CallFormed
<1>4. CASE k.op = "delete"
    BY <1>4 DEF CallFormed
<1> QED BY <1>1, <1>2, <1>3, <1>4

\* So it says nothing of it.
LEMMA UntouchedSays ==
    ASSUME NEW k \in Call, CallFormed(k), NEW what \in Subject, what \notin k.on, NEW how \in {"put", "drop"}
    PROVE  RecordsIn(k, what) = {} /\ EntriesIn(k, how, what) = {}
<1> DEFINE A == ToSet(k.todo)
<1>1. A \in SUBSET GraphItem
    BY CallItems
<1>2. \A do \in A : ToCome(do) \/ About(do) # what
    BY UntouchedItems
<1> HIDE DEF A
<1>3. Recs(A, what) = {} /\ Ents(A, how, what) = {}
    BY <1>1, <1>2, NothingSaid
<1> QED BY <1>3, CallSays DEF A

\* Nobody touches a settled subject: its entries are those of its record.
LEMMA Quiet ==
    ASSUME NEW what \in Subject, NEW rec, NEW listed, NEW calls \in [GraphClient -> Call], SettledIn(what, rec, listed, calls),
           \A c \in GraphClient : CallFormed(calls[c]) /\ what \notin calls[c].on
    PROVE  listed = EntriesFor(what, rec)
<1>1. DeletingIn(what, rec, listed, calls)
    BY DEF SettledIn
<1>2. CASE rec = NoRecord /\ listed \subseteq UNION {EntriesIn(calls[c], "drop", what) : c \in GraphClient}
  <2>1. \A c \in GraphClient : EntriesIn(calls[c], "drop", what) = {}
      BY UntouchedSays
  <2>2. listed = {}
      BY <1>2, <2>1
  <2> QED BY <1>2, <2>2 DEF EntriesFor
<1> QED BY <1>1, <1>2 DEF DeletingIn

\* A step of a call that says no more and no less of a subject leaves it settled.
LEMMA Undisturbed ==
    ASSUME NEW what, NEW rec, NEW listed, NEW calls, NEW after, NEW c \in GraphClient,
           \A d \in GraphClient \ {c} : after[d] = calls[d], SettledIn(what, rec, listed, calls),
           RecordsIn(after[c], what) = RecordsIn(calls[c], what),
           \A how \in {"put", "drop"} : EntriesIn(after[c], how, what) = EntriesIn(calls[c], how, what),
           what \in after[c].on => what \in calls[c].on /\ after[c].op = calls[c].op,
           calls[c].op = "add" /\ what \in calls[c].on => what \in after[c].on
    PROVE  SettledIn(what, rec, listed, after)
<1>1. \A d \in GraphClient : /\ RecordsIn(after[d], what) = RecordsIn(calls[d], what)
                             /\ EntriesIn(after[d], "put", what) = EntriesIn(calls[d], "put", what)
                             /\ EntriesIn(after[d], "drop", what) = EntriesIn(calls[d], "drop", what)
                             /\ what \in after[d].on => what \in calls[d].on /\ after[d].op = calls[d].op
                             /\ calls[d].op = "add" /\ what \in calls[d].on => what \in after[d].on
    OBVIOUS
<1>2. ASSUME DeletingIn(what, rec, listed, calls) PROVE DeletingIn(what, rec, listed, after)
    BY <1>1, <1>2 DEF DeletingIn
<1>3. ASSUME NEW d \in GraphClient, after[d].op = "add", what \in after[d].on
      PROVE  /\ AddingIn(what, rec, listed, RecordsIn(after[d], what), EntriesIn(after[d], "put", what))
             /\ \A e \in GraphClient : what \in after[e].on => e = d
    BY <1>1, <1>3 DEF SettledIn
<1>4. ASSUME \A d \in GraphClient : after[d].op = "add" => what \notin after[d].on
      PROVE  \A d \in GraphClient : calls[d].op = "add" => what \notin calls[d].on
    BY <1>1, <1>4
<1> QED BY <1>2, <1>3, <1>4 DEF SettledIn

\* A deletion that finds a whole record, and no addition, joins in.
LEMMA DeletionJoins ==
    ASSUME NEW what, NEW rec, NEW listed, NEW calls, NEW after, NEW c \in GraphClient,
           \A d \in GraphClient \ {c} : after[d] = calls[d], SettledIn(what, rec, listed, calls),
           \A d \in GraphClient : calls[d].op = "add" => what \notin calls[d].on,
           rec # NoRecord, after[c].op # "add", RecordsIn(after[c], what) = {NoRecord},
           EntriesIn(after[c], "drop", what) = EntriesFor(what, rec)
    PROVE  SettledIn(what, rec, listed, after)
<1>1. \A d \in GraphClient : after[d].op = "add" => what \notin after[d].on
    OBVIOUS
<1>2. DeletingIn(what, rec, listed, calls)
    BY DEF SettledIn
<1>3. DeletingIn(what, rec, listed, after)
    BY <1>2 DEF DeletingIn
<1> QED BY <1>1, <1>3 DEF SettledIn

\* Deletions go on of a record that is gone.
LEMMA DeletionGoes ==
    ASSUME NEW what, NEW listed, NEW after,
           \A d \in GraphClient : after[d].op = "add" => what \notin after[d].on,
           listed \subseteq UNION {EntriesIn(after[d], "drop", what) : d \in GraphClient}
    PROVE  SettledIn(what, NoRecord, listed, after)
<1>1. DeletingIn(what, NoRecord, listed, after)
    BY DEF DeletingIn
<1> QED BY <1>1 DEF SettledIn

\* An addition begins alone, of a record that is not there or has the same entries.
LEMMA AdditionStarts ==
    ASSUME NEW what, NEW rec, NEW listed, NEW after, NEW c \in GraphClient, NEW r,
           \A d \in GraphClient \ {c} : what \notin after[d].on, what \in after[c].on, after[c].op = "add",
           listed = EntriesFor(what, rec), rec \in {NoRecord, r}, r # NoRecord,
           RecordsIn(after[c], what) = {r}, EntriesIn(after[c], "put", what) = EntriesFor(what, r)
    PROVE  SettledIn(what, rec, listed, after)
<1>1. AddingIn(what, rec, listed, RecordsIn(after[c], what), EntriesIn(after[c], "put", what))
    BY DEF AddingIn
<1> QED BY <1>1 DEF SettledIn

\* An addition that has written its record puts the entries, or ends.
LEMMA AdditionGoes ==
    ASSUME NEW what, NEW rec, NEW listed, NEW after, NEW c \in GraphClient,
           \A d \in GraphClient \ {c} : what \notin after[d].on,
           what \in after[c].on => after[c].op = "add",
           rec # NoRecord, RecordsIn(after[c], what) = {},
           listed \cup EntriesIn(after[c], "put", what) = EntriesFor(what, rec),
           what \notin after[c].on => EntriesIn(after[c], "put", what) = {}
    PROVE  SettledIn(what, rec, listed, after)
<1>1. CASE what \in after[c].on
  <2>1. AddingIn(what, rec, listed, RecordsIn(after[c], what), EntriesIn(after[c], "put", what))
      BY DEF AddingIn
  <2>2. after[c].op = "add" /\ \A d \in GraphClient : what \in after[d].on => d = c
      BY <1>1
  <2> QED BY <1>1, <2>1, <2>2 DEF SettledIn
<1>2. CASE what \notin after[c].on
  <2>1. \A d \in GraphClient : what \notin after[d].on
      BY <1>2
  <2>2. DeletingIn(what, rec, listed, after)
      BY <1>2, <2>1 DEF DeletingIn
  <2> QED BY <2>1, <2>2 DEF SettledIn
<1> QED BY <1>1, <1>2

-----------------------------------------------------------------------------
(* What one item says.                                                     *)

\* An item says what it writes, of its own subject.
LEMMA ItemSays ==
    ASSUME NEW do \in GraphItem, NEW what \in Subject, NEW how \in {"put", "drop"}
    PROVE  /\ do[1] \in {"node", "edge"} => Recs({do}, About(do)) = {do[3]} /\ Ents({do}, how, what) = {}
           /\ do[1] \in {"put", "drop"} => Recs({do}, what) = {} /\ Ents({do}, do[1], About(do)) = {do[2]}
           /\ do[1] \in {"put", "drop"} \ {how} => Ents({do}, how, what) = {}
           /\ ToCome(do) \/ About(do) # what => Recs({do}, what) = {} /\ Ents({do}, how, what) = {}
<1>1. CASE do[1] \in {"node", "edge"}
  <2>1. About(do) = <<do[1], do[2]>> /\ ~ToCome(do)
      BY <1>1 DEF About, ToCome
  <2>2. Recs({do}, About(do)) = {do[3]} /\ Ents({do}, how, what) = {}
      BY <1>1, <2>1 DEF Recs, Ents
  <2>3. About(do) # what => Recs({do}, what) = {}
      BY <2>1 DEF Recs
  <2> QED BY <1>1, <2>1, <2>2, <2>3
<1>2. CASE do[1] \in {"put", "drop"}
  <2>1. <<do[1], do[2]>> # what
      BY <1>2, SubjectKinds
  <2>2. Recs({do}, what) = {}
      BY <2>1 DEF Recs
  <2>3. Ents({do}, do[1], About(do)) = {do[2]}
      BY DEF Ents
  <2>4. (how # do[1] => Ents({do}, how, what) = {}) /\ (About(do) # what => Ents({do}, how, what) = {})
      BY DEF Ents
  <2>5. ~ToCome(do)
      BY <1>2 DEF ToCome
  <2> QED BY <1>2, <2>2, <2>3, <2>4, <2>5
<1>3. CASE ToCome(do)
  <2>1. Recs({do}, what) = {} /\ Ents({do}, how, what) = {}
      BY <1>3, NothingSaid
  <2> QED BY <1>3, <2>1 DEF ToCome
<1> QED BY <1>1, <1>2, <1>3, ItemKinds

\* A call says what its first item says, and what the others say.
LEMMA TailSays ==
    ASSUME NEW k \in Call, k.todo # << >>, NEW what, NEW how
    PROVE  /\ RecordsIn(k, what) = Recs({Head(k.todo)}, what) \cup Recs(ToSet(Tail(k.todo)), what)
           /\ EntriesIn(k, how, what) = Ents({Head(k.todo)}, how, what) \cup Ents(ToSet(Tail(k.todo)), how, what)
<1> DEFINE s == k.todo
           A == ToSet(Tail(s))
           B == {Head(s)}
<1>1. s \in Seq(GraphItem)
    BY CallItems
<1>2. ToSet(s) = B \cup A
    BY <1>1, HeadAndTail
<1> HIDE DEF s, A, B
<1>3. Recs(B \cup A, what) = Recs(B, what) \cup Recs(A, what)
    BY DEF Recs
<1>5. Ents(B \cup A, how, what) = Ents(B, how, what) \cup Ents(A, how, what)
    BY DEF Ents
<1>4. RecordsIn(k, what) = Recs(ToSet(s), what) /\ EntriesIn(k, how, what) = Ents(ToSet(s), how, what)
    BY CallSays DEF s
<1> QED BY <1>2, <1>3, <1>4, <1>5 DEF s, A, B

\* The first item of a call, and those that follow.
LEMMA CallHead ==
    ASSUME NEW k \in Call, CallFormed(k), k.todo # << >>
    PROVE  /\ Head(k.todo) \in GraphItem /\ Head(k.todo) \in ToSet(k.todo) /\ k.op # "none"
           /\ Tail(k.todo) \in Seq(GraphItem) /\ ToSet(Tail(k.todo)) \subseteq ToSet(k.todo)
           /\ ToSet(Tail(k.todo)) \subseteq GraphItem /\ InOrder(Tail(k.todo))
           /\ \A x \in ToSet(Tail(k.todo)) : MayFollow(Head(k.todo), x)
<1> DEFINE s == k.todo
<1>1. s \in Seq(GraphItem) /\ ToSet(s) \subseteq GraphItem
    BY CallItems
<1>2. InOrder(s) /\ k.op # "none"
    BY DEF CallFormed, InOrder
<1> HIDE DEF s
<1>3. s # << >>
    BY DEF s
<1>4. Head(s) \in GraphItem /\ Tail(s) \in Seq(GraphItem) /\ ToSet(s) = {Head(s)} \cup ToSet(Tail(s))
    BY <1>1, <1>3, HeadAndTail
<1>5. InOrder(Tail(s)) /\ \A x \in ToSet(Tail(s)) : MayFollow(Head(s), x)
    BY <1>1, <1>2, <1>3, TailInOrder
<1> QED BY <1>1, <1>2, <1>4, <1>5 DEF s

\* After the record of a subject, or an entry of it, no record of it is written.
LEMMA RecordsFirst ==
    ASSUME NEW k \in Call, CallFormed(k), k.todo # << >>, ~ToCome(Head(k.todo))
    PROVE  About(Head(k.todo)) \in Subject /\ Recs(ToSet(Tail(k.todo)), About(Head(k.todo))) = {}
<1> DEFINE do == Head(k.todo)
           A == ToSet(Tail(k.todo))
<1>1. do \in GraphItem /\ A \subseteq GraphItem /\ \A x \in A : MayFollow(do, x)
    BY CallHead
<1> HIDE DEF do, A
<1>2. About(do) \in Subject
    BY <1>1, ItemKinds, EntryKinds DEF do
<1>3. ASSUME NEW x \in A PROVE <<x[1], x[2]>> # About(do)
  <2>1. CASE x[1] \in {"node", "edge"}
    <3>1. About(x) = <<x[1], x[2]>>
        BY <2>1 DEF About
    <3>2. About(x) # About(do)
        BY <1>1, <2>1 DEF MayFollow
    <3> QED BY <3>1, <3>2
  <2>2. CASE x[1] \notin {"node", "edge"}
      BY <1>2, <2>2, SubjectKinds
  <2> QED BY <2>1, <2>2
<1>4. Recs(A, About(do)) = {}
    BY <1>3 DEF Recs
<1> QED BY <1>2, <1>4 DEF do, A

\* A call of these parts is formed.
LEMMA FormedOf ==
    ASSUME NEW k \in Call, InOrder(k.todo), k.op = "none" => k.on = {} /\ k.todo = << >>,
           \A do \in ToSet(k.todo) :
              /\ k.op = "add" => do[1] \in {"node", "edge", "put"} /\ k.on = {About(do)}
              /\ k.op = "delete" => /\ do[1] # "put" /\ (ToCome(do) \/ About(do) \in k.on)
                                    /\ do[1] \in {"node", "edge"} => do[3] = NoRecord
    PROVE  CallFormed(k)
BY DEF CallFormed, InOrder

\* An empty list has nothing in it.
LEMMA EmptyList == ToSet(<< >>) = {}
BY DEF ToSet

\* What goes on with the tail of its list is formed.
LEMMA FormedTail ==
    ASSUME NEW k \in Call, CallFormed(k), k.todo # << >>, NEW next \in Call, next.todo = Tail(k.todo),
           next.op = IF next.todo = << >> THEN "none" ELSE k.op,
           next.on = IF next.todo = << >> THEN {} ELSE k.on
    PROVE  CallFormed(next)
<1>1. InOrder(next.todo) /\ ToSet(next.todo) \subseteq ToSet(k.todo) /\ k.op # "none"
    BY CallHead
<1>2. CASE next.todo = << >>
  <2>1. ToSet(next.todo) = {}
      BY <1>2, EmptyList
  <2> QED BY <1>1, <1>2, <2>1, FormedOf
<1>3. CASE next.todo # << >>
  <2>1. next.op = k.op /\ next.on = k.on
      BY <1>3
  <2> QED BY <1>1, <2>1 DEF CallFormed, InOrder
<1> QED BY <1>2, <1>3

\* A call that ends is formed, and says nothing.
LEMMA EndedCall ==
    /\ NoGraphCall \in Call /\ CallFormed(NoGraphCall)
    /\ NoGraphCall.op = "none" /\ NoGraphCall.on = {} /\ NoGraphCall.todo = << >>
    /\ \A what, how : RecordsIn(NoGraphCall, what) = {} /\ EntriesIn(NoGraphCall, how, what) = {}
<1>1. NoGraphCall \in Call /\ NoGraphCall.op = "none" /\ NoGraphCall.on = {} /\ NoGraphCall.todo = << >>
    BY DEF NoGraphCall, Call
<1>2. ToSet(NoGraphCall.todo) = {}
    BY <1>1 DEF ToSet
<1>3. InOrder(NoGraphCall.todo)
    BY <1>1 DEF InOrder
<1>4. CallFormed(NoGraphCall)
    BY <1>1, <1>2, <1>3, FormedOf
<1>5. \A what, how : RecordsIn(NoGraphCall, what) = {} /\ EntriesIn(NoGraphCall, how, what) = {}
    BY <1>2 DEF RecordsIn, EntriesIn
<1> QED BY <1>1, <1>4, <1>5

-----------------------------------------------------------------------------
(* Steps.                                                                  *)

\* The calls, the records and the entries of a well-typed graph.
LEMMA GraphParts ==
    ASSUME GraphTypeOK
    PROVE  /\ graphCall \in [GraphClient -> Call]
           /\ \A what \in Subject : RecordAt(what) \in RecordType(what) \cup {NoRecord}
<1>1. graphCall \in [GraphClient -> Call]
    BY DEF GraphTypeOK, Call
<1>2. ASSUME NEW what \in Subject PROVE RecordAt(what) \in RecordType(what) \cup {NoRecord}
  <2>1. CASE what[1] = "node" /\ what[2] \in NodeId
      BY <2>1 DEF RecordAt, RecordType, GraphTypeOK
  <2>2. CASE what[1] = "edge" /\ what[2] \in EdgeId
      BY <2>2 DEF RecordAt, RecordType, GraphTypeOK
  <2> QED BY <2>1, <2>2, SubjectKinds
<1> QED BY <1>1, <1>2

\* It is enough that a step leaves settled what was, and is not torn or stale after it.
LEMMA SettlesThen ==
    ASSUME GraphInv, GraphTypeOK', \A c \in GraphClient : CallFormed(graphCall'[c]),
           torn \subseteq torn', stale \subseteq stale',
           \A what \in Subject :
               what \notin torn' \cup stale' /\ SettledIn(what, RecordAt(what), ListedAt(what), graphCall)
               => SettledIn(what, RecordAt(what)', ListedAt(what)', graphCall')
    PROVE  GraphInv'
<1>1. ASSUME NEW what \in Subject, what \notin torn' \cup stale' PROVE SettledAt(what)'
  <2>1. SettledAt(what)
      BY <1>1 DEF GraphInv, EntriesSettle
  <2>2. SettledIn(what, RecordAt(what), ListedAt(what), graphCall)
      BY <2>1, SettledAs
  <2>3. SettledIn(what, RecordAt(what)', ListedAt(what)', graphCall')
      BY <1>1, <2>2
  <2>4. SettledAt(what)' <=> SettledIn(what, RecordAt(what)', ListedAt(what)', graphCall')
      BY SettledThen
  <2> QED BY <2>3, <2>4
<1>2. EntriesSettle'
    BY <1>1 DEF EntriesSettle
<1> QED BY <1>2 DEF GraphInv

\* Records and entries that nothing writes.
LEMMA StoreSame ==
    ASSUME NEW what, UNCHANGED <<nodeAt, edgeAt, graphIndex>>
    PROVE  RecordAt(what)' = RecordAt(what) /\ ListedAt(what)' = ListedAt(what)
BY DEF RecordAt, ListedAt

\* A step of a call that touches a subject neither before nor after leaves it settled.
LEMMA UntouchedStays ==
    ASSUME NEW what \in Subject, NEW rec, NEW listed, NEW calls, NEW after, NEW c \in GraphClient,
           \A d \in GraphClient \ {c} : after[d] = calls[d], SettledIn(what, rec, listed, calls),
           calls[c] \in Call, after[c] \in Call, CallFormed(calls[c]), CallFormed(after[c]),
           what \notin calls[c].on, what \notin after[c].on
    PROVE  SettledIn(what, rec, listed, after)
<1>1. RecordsIn(after[c], what) = RecordsIn(calls[c], what)
    BY UntouchedSays
<1>2. \A how \in {"put", "drop"} : EntriesIn(after[c], how, what) = EntriesIn(calls[c], how, what)
    BY UntouchedSays
<1> QED BY <1>1, <1>2, Undisturbed

\* A call goes on after an item about something else.
LEMMA OtherStays ==
    ASSUME NEW what \in Subject, NEW rec, NEW listed, NEW calls, NEW after, NEW c \in GraphClient,
           \A d \in GraphClient \ {c} : after[d] = calls[d], SettledIn(what, rec, listed, calls),
           calls[c] \in Call, CallFormed(calls[c]), calls[c].todo # << >>,
           after[c].todo = Tail(calls[c].todo),
           after[c].op = IF after[c].todo = << >> THEN "none" ELSE calls[c].op,
           after[c].on = IF after[c].todo = << >> THEN {} ELSE calls[c].on,
           ToCome(Head(calls[c].todo)) \/ About(Head(calls[c].todo)) # what
    PROVE  SettledIn(what, rec, listed, after)
<1> DEFINE k == calls[c]
           do == Head(k.todo)
           A == ToSet(Tail(k.todo))
<1>1. do \in GraphItem /\ do \in ToSet(k.todo)
    BY CallHead
<1>2. Recs({do}, what) = {} /\ \A how \in {"put", "drop"} : Ents({do}, how, what) = {}
  <2> HIDE DEF do
  <2> QED BY <1>1, ItemSays DEF do
<1>3. RecordsIn(k, what) = Recs({do}, what) \cup Recs(A, what)
    BY TailSays
<1>4. \A how \in {"put", "drop"} : EntriesIn(k, how, what) = Ents({do}, how, what) \cup Ents(A, how, what)
    BY TailSays
<1>5. RecordsIn(after[c], what) = Recs(A, what)
    BY CallSays
<1>6. \A how \in {"put", "drop"} : EntriesIn(after[c], how, what) = Ents(A, how, what)
    BY CallSays
<1>7. k.op = "add" => what \notin k.on
    BY <1>1 DEF CallFormed, ToCome
<1> HIDE DEF k, do, A
<1>8. RecordsIn(after[c], what) = RecordsIn(k, what)
    BY <1>2, <1>3, <1>5
<1>9. \A how \in {"put", "drop"} : EntriesIn(after[c], how, what) = EntriesIn(k, how, what)
    BY <1>2, <1>4, <1>6
<1>10. what \in after[c].on => what \in k.on /\ after[c].op = k.op
    BY DEF k
<1> QED BY <1>7, <1>8, <1>9, <1>10, Undisturbed DEF k

-----------------------------------------------------------------------------
(* Calls begin.                                                            *)

\* An addition begins: AddNode and AddEdge.
LEMMA AdditionBegins ==
    ASSUME GraphInv, NEW c \in GraphClient, NEW what \in Subject, NEW r \in RecordType(what), NEW todo,
           WholeSteps(todo, what, r, "put", r), StartGraphCall(c, "add", {what}, todo),
           torn' = torn \cup {w \in {what} : Touching(w)},
           stale' = stale \cup {w \in {what} : RecordAt(w) \notin {NoRecord, r}}
    PROVE  GraphInv'
<1> DEFINE k == graphCall'[c]
           items == ToSet(todo)
<1>1. todo \in Seq(GraphItem) /\ InOrder(todo) /\ Saying(items, what, r, "put", EntriesFor(what, r))
    BY DEF WholeSteps
<1>2. GraphTypeOK
    BY DEF GraphInv
<1>3. /\ GraphTypeOK' /\ UNCHANGED <<nodeAt, edgeAt, graphIndex>> /\ graphCall[c] = NoGraphCall
      /\ k.op = "add" /\ k.on = {what} /\ k.todo = todo
      /\ \A d \in GraphClient \ {c} : graphCall'[d] = graphCall[d]
    BY <1>1, <1>2, CallStarts
<1>4. k \in Call
  <2>1. graphCall' \in [GraphClient -> Call]
      BY <1>3 DEF GraphTypeOK, Call
  <2> QED BY <2>1
<1> HIDE DEF k, items
<1>5. \A do \in items : do[1] \in {"node", "edge", "put"} /\ About(do) = what
    BY <1>1 DEF Saying
<1>6. CallFormed(k)
    BY <1>1, <1>3, <1>4, <1>5, FormedOf DEF items
<1>7. ASSUME NEW d \in GraphClient PROVE CallFormed(graphCall'[d])
  <2>1. CallFormed(graphCall[d])
      BY DEF GraphInv
  <2> QED BY <1>3, <1>6, <2>1 DEF k
<1>8. ASSUME NEW w \in Subject, w \notin torn' \cup stale', SettledIn(w, RecordAt(w), ListedAt(w), graphCall)
      PROVE  SettledIn(w, RecordAt(w)', ListedAt(w)', graphCall')
  <2>1. RecordAt(w)' = RecordAt(w) /\ ListedAt(w)' = ListedAt(w)
      BY <1>3, StoreSame
  <2>2. graphCall[c] \in Call /\ CallFormed(graphCall[c]) /\ graphCall[c].on = {}
      BY <1>3, EndedCall
  <2>3. CASE w # what
    <3>1. w \notin graphCall[c].on /\ w \notin k.on
        BY <1>3, <2>2, <2>3
    <3>2. SettledIn(w, RecordAt(w), ListedAt(w), graphCall')
        BY <1>3, <1>4, <1>6, <1>8, <2>2, <3>1, UntouchedStays DEF k
    <3> QED BY <2>1, <3>2
  <2>4. CASE w = what
    <3>1. ~Touching(w) /\ RecordAt(w) \in {NoRecord, r}
        BY <1>8, <2>4
    <3>2. \A d \in GraphClient : CallFormed(graphCall[d]) /\ w \notin graphCall[d].on
        BY <3>1 DEF GraphInv, Touching
    <3>3. ListedAt(w) = EntriesFor(w, RecordAt(w))
        BY <1>2, <1>8, <3>2, GraphParts, Quiet
    <3>4. \A d \in GraphClient \ {c} : w \notin graphCall'[d].on
        BY <1>3, <3>2
    <3>5. RecordsIn(k, w) = {r} /\ EntriesIn(k, "put", w) = EntriesFor(w, r)
        BY <1>1, <1>3, <2>4, CallSays DEF Saying, items
    <3>6. r # NoRecord
        BY GraphAssumption DEF RecordType
    <3>7. SettledIn(w, RecordAt(w), ListedAt(w), graphCall')
        BY <1>3, <2>4, <3>1, <3>3, <3>4, <3>5, <3>6, AdditionStarts DEF k
    <3> QED BY <2>1, <3>7
  <2> QED BY <2>3, <2>4
<1> QED BY <1>3, <1>7, <1>8, SettlesThen

\* AddNode keeps the invariant.
LEMMA AddNodeKeeps == ASSUME GraphInv, NEW c \in GraphClient, NEW n \in NodeId, NEW node \in GraphNode, AddNode(c, n, node)
                      PROVE  GraphInv'
<1> DEFINE what == <<"node", n>>
           entries == NodeEntries(n, node)
           todo == <<<<"node", n, node>>>> \o [j \in DOMAIN entries |-> <<"put", entries[j]>>]
<1>1. what \in Subject /\ what[1] = "node" /\ what[2] = n /\ node \in RecordType(what)
    BY DEF Subject, RecordType
<1>2. StartGraphCall(c, "add", {what}, todo)
    BY DEF AddNode, PutAll
<1>3. torn' = torn \cup {w \in {what} : Touching(w)} /\ stale' = stale \cup {w \in {what} : nodeAt[n] \notin {NoRecord, node}}
    BY DEF AddNode
<1>4. entries = IF what[1] = "node" THEN NodeEntries(what[2], node) ELSE EdgeEntries(what[2], node)
    BY <1>1
<1>5. todo = <<<<what[1], what[2], node>>>> \o [j \in DOMAIN entries |-> <<"put", entries[j]>>]
    BY <1>1
<1>6. RecordAt(what) = nodeAt[n]
    BY <1>1 DEF RecordAt
<1> HIDE DEF what, entries, todo
<1>7. WholeSteps(todo, what, node, "put", node)
    BY <1>1, <1>4, <1>5, StepsWhole
<1>8. stale' = stale \cup {w \in {what} : RecordAt(w) \notin {NoRecord, node}}
    BY <1>3, <1>6
<1> QED BY <1>1, <1>2, <1>3, <1>7, <1>8, AdditionBegins

\* AddEdge keeps the invariant.
LEMMA AddEdgeKeeps == ASSUME GraphInv, NEW c \in GraphClient, NEW e \in EdgeId, NEW edge \in GraphEdge, AddEdge(c, e, edge)
                      PROVE  GraphInv'
<1> DEFINE what == <<"edge", e>>
           entries == EdgeEntries(e, edge)
           todo == <<<<"edge", e, edge>>>> \o [j \in DOMAIN entries |-> <<"put", entries[j]>>]
<1>1. what \in Subject /\ what[1] = "edge" /\ what[2] = e /\ edge \in RecordType(what)
    BY DEF Subject, RecordType
<1>2. StartGraphCall(c, "add", {what}, todo)
    BY DEF AddEdge, PutAll
<1>3. torn' = torn \cup {w \in {what} : Touching(w)} /\ stale' = stale \cup {w \in {what} : edgeAt[e] \notin {NoRecord, edge}}
    BY DEF AddEdge
<1>4. entries = IF what[1] = "node" THEN NodeEntries(what[2], edge) ELSE EdgeEntries(what[2], edge)
    BY <1>1
<1>5. todo = <<<<what[1], what[2], edge>>>> \o [j \in DOMAIN entries |-> <<"put", entries[j]>>]
    BY <1>1
<1>6. RecordAt(what) = edgeAt[e]
    BY <1>1 DEF RecordAt
<1> HIDE DEF what, entries, todo
<1>7. WholeSteps(todo, what, edge, "put", edge)
    BY <1>1, <1>4, <1>5, StepsWhole
<1>8. stale' = stale \cup {w \in {what} : RecordAt(w) \notin {NoRecord, edge}}
    BY <1>3, <1>6
<1> QED BY <1>1, <1>2, <1>3, <1>7, <1>8, AdditionBegins

\* What a deletion of these subjects may have to do.
DeletionItem(do, on) ==
    /\ do[1] # "put" /\ (ToCome(do) \/ About(do) \in on)
    /\ do[1] \in {"node", "edge"} => do[3] = NoRecord

\* The steps of a deletion are such items.
LEMMA DeletionSteps ==
    ASSUME NEW what \in Subject, NEW r0, NEW todo, WholeSteps(todo, what, NoRecord, "drop", r0)
    PROVE  \A do \in ToSet(todo) : DeletionItem(do, {what}) /\ ~ToCome(do) /\ About(do) = what
<1> DEFINE items == ToSet(todo)
<1>1. Saying(items, what, NoRecord, "drop", EntriesFor(what, r0))
    BY DEF WholeSteps
<1> HIDE DEF items
<1> SUFFICES ASSUME NEW do \in items PROVE DeletionItem(do, {what}) /\ ~ToCome(do) /\ About(do) = what
    BY DEF items
<1>2. do[1] \in {"node", "edge", "drop"} /\ About(do) = what /\ ~ToCome(do)
    BY <1>1 DEF Saying
<1>3. ASSUME do[1] \in {"node", "edge"} PROVE do[3] = NoRecord
  <2>1. <<do[1], do[2]>> = what
      BY <1>2, <1>3 DEF About
  <2>2. do[3] \in Recs(items, what)
      BY <2>1 DEF Recs
  <2> QED BY <1>1, <2>2 DEF Saying
<1> QED BY <1>2, <1>3 DEF DeletionItem

\* A deletion begins: DeleteEdge and DeleteNode.
LEMMA DeletionBegins ==
    ASSUME GraphInv, NEW c \in GraphClient, NEW what \in Subject, NEW todo \in Seq(GraphItem), InOrder(todo),
           \A do \in ToSet(todo) : DeletionItem(do, {what}), RecordAt(what) # NoRecord,
           Recs(ToSet(todo), what) = {NoRecord}, Ents(ToSet(todo), "drop", what) = EntriesFor(what, RecordAt(what)),
           StartGraphCall(c, "delete", {what}, todo),
           torn' = torn \cup {w \in {what} : Writing(w)}, stale' = stale
    PROVE  GraphInv'
<1> DEFINE k == graphCall'[c]
           items == ToSet(todo)
<1>2. GraphTypeOK
    BY DEF GraphInv
<1>3. /\ GraphTypeOK' /\ UNCHANGED <<nodeAt, edgeAt, graphIndex>> /\ graphCall[c] = NoGraphCall
      /\ k.op = "delete" /\ k.on = {what} /\ k.todo = todo
      /\ \A d \in GraphClient \ {c} : graphCall'[d] = graphCall[d]
    BY <1>2, CallStarts
<1>4. k \in Call
  <2>1. graphCall' \in [GraphClient -> Call]
      BY <1>3 DEF GraphTypeOK, Call
  <2> QED BY <2>1
<1> HIDE DEF k
<1>6. CallFormed(k)
    BY <1>3, <1>4, FormedOf DEF DeletionItem
<1>7. ASSUME NEW d \in GraphClient PROVE CallFormed(graphCall'[d])
  <2>1. CallFormed(graphCall[d])
      BY DEF GraphInv
  <2> QED BY <1>3, <1>6, <2>1 DEF k
<1>8. ASSUME NEW w \in Subject, w \notin torn' \cup stale', SettledIn(w, RecordAt(w), ListedAt(w), graphCall)
      PROVE  SettledIn(w, RecordAt(w)', ListedAt(w)', graphCall')
  <2>1. RecordAt(w)' = RecordAt(w) /\ ListedAt(w)' = ListedAt(w)
      BY <1>3, StoreSame
  <2>2. graphCall[c] \in Call /\ CallFormed(graphCall[c]) /\ graphCall[c].on = {}
      BY <1>3, EndedCall
  <2>3. CASE w # what
    <3>1. w \notin graphCall[c].on /\ w \notin k.on
        BY <1>3, <2>2, <2>3
    <3>2. SettledIn(w, RecordAt(w), ListedAt(w), graphCall')
        BY <1>3, <1>4, <1>6, <1>8, <2>2, <3>1, UntouchedStays DEF k
    <3> QED BY <2>1, <3>2
  <2>4. CASE w = what
    <3>1. ~Writing(w)
        BY <1>8, <2>4
    <3>2. \A d \in GraphClient : graphCall[d].op = "add" => w \notin graphCall[d].on
        BY <3>1 DEF Writing
    <3>3. RecordsIn(k, w) = {NoRecord} /\ EntriesIn(k, "drop", w) = EntriesFor(w, RecordAt(w)) /\ k.op # "add"
        BY <1>3, <2>4, CallSays
    <3>4. SettledIn(w, RecordAt(w), ListedAt(w), graphCall')
        BY <1>3, <1>8, <2>4, <3>2, <3>3, DeletionJoins DEF k
    <3> QED BY <2>1, <3>4
  <2> QED BY <2>3, <2>4
<1> QED BY <1>3, <1>7, <1>8, SettlesThen

\* DeleteEdge makes a whole list of steps.
LEMMA DeleteEdgeWhole ==
    ASSUME GraphTypeOK, NEW e \in EdgeId, edgeAt[e] # NoRecord
    PROVE  /\ RecordAt(<<"edge", e>>) = edgeAt[e] /\ edgeAt[e] \in RecordType(<<"edge", e>>) /\ <<"edge", e>> \in Subject
           /\ WholeSteps(DeleteEdgeSteps(e), <<"edge", e>>, NoRecord, "drop", edgeAt[e])
<1> DEFINE what == <<"edge", e>>
           r == edgeAt[e]
           entries == EdgeEntries(e, r)
           todo == <<<<"edge", e, NoRecord>>>> \o [j \in DOMAIN entries |-> <<"drop", entries[j]>>]
<1>1. what \in Subject /\ what[1] = "edge" /\ what[2] = e /\ RecordAt(what) = r /\ r \in RecordType(what)
    BY DEF Subject, RecordType, RecordAt, GraphTypeOK
<1>2. DeleteEdgeSteps(e) = todo
    BY DEF DeleteEdgeSteps, DropAll
<1>4. entries = IF what[1] = "node" THEN NodeEntries(what[2], r) ELSE EdgeEntries(what[2], r)
    BY <1>1
<1>5. todo = <<<<what[1], what[2], NoRecord>>>> \o [j \in DOMAIN entries |-> <<"drop", entries[j]>>]
    BY <1>1
<1> HIDE DEF what, entries, todo, r
<1>7. WholeSteps(todo, what, NoRecord, "drop", r)
    BY <1>1, <1>4, <1>5, StepsWhole
<1> QED BY <1>1, <1>2, <1>7 DEF what, r

\* DeleteEdge keeps the invariant.
LEMMA DeleteEdgeKeeps == ASSUME GraphInv, NEW c \in GraphClient, NEW e \in EdgeId, DeleteEdge(c, e) PROVE GraphInv'
<1> DEFINE what == <<"edge", e>>
           todo == DeleteEdgeSteps(e)
<1>1. /\ edgeAt[e] # NoRecord /\ StartGraphCall(c, "delete", {what}, todo)
      /\ torn' = torn \cup {w \in {what} : Writing(w)} /\ stale' = stale
    BY DEF DeleteEdge
<1>2. GraphTypeOK
    BY DEF GraphInv
<1>3. what \in Subject /\ RecordAt(what) = edgeAt[e] /\ WholeSteps(todo, what, NoRecord, "drop", edgeAt[e])
    BY <1>1, <1>2, DeleteEdgeWhole
<1> HIDE DEF what, todo
<1>4. \A do \in ToSet(todo) : DeletionItem(do, {what})
    BY <1>3, DeletionSteps
<1>5. todo \in Seq(GraphItem) /\ InOrder(todo) /\ Recs(ToSet(todo), what) = {NoRecord}
      /\ Ents(ToSet(todo), "drop", what) = EntriesFor(what, RecordAt(what))
    BY <1>3 DEF WholeSteps, Saying
<1> QED BY <1>1, <1>3, <1>4, <1>5, DeletionBegins

\* DeleteNode keeps the invariant: it lists the edges first.
LEMMA DeleteNodeKeeps == ASSUME GraphInv, NEW c \in GraphClient, NEW n \in NodeId, DeleteNode(c, n) PROVE GraphInv'
<1> DEFINE what == <<"node", n>>
           r == nodeAt[n]
           entries == NodeEntries(n, r)
           drops == [j \in DOMAIN entries |-> <<"drop", entries[j]>>]
           rec == <<"node", n, NoRecord>>
           front == <<"list edges", n>>
           steps == <<rec>> \o drops
           todo == <<front>> \o steps
<1>1. what \in Subject /\ what[1] = "node" /\ what[2] = n /\ RecordAt(what) = r
    BY DEF Subject, RecordAt
<1>2. GraphTypeOK /\ r # NoRecord
    BY DEF GraphInv, DeleteNode
<1>3. r \in RecordType(what)
    BY <1>2 DEF GraphTypeOK, RecordType
<1>4. StartGraphCall(c, "delete", {what}, <<front, rec>> \o drops) /\ torn' = torn \cup {w \in {what} : Writing(w)} /\ stale' = stale
    BY DEF DeleteNode, DropAll
<1>5. entries = IF what[1] = "node" THEN NodeEntries(what[2], r) ELSE EdgeEntries(what[2], r)
    BY <1>1
<1>6. steps = <<<<what[1], what[2], NoRecord>>>> \o [j \in DOMAIN entries |-> <<"drop", entries[j]>>]
    BY <1>1
<1>7. front \in GraphItem /\ ToCome(front) /\ DeletionItem(front, {what}) /\ front[1] = "list edges" /\ front[2] = n
  <2>1. front[1] = "list edges" /\ front[2] = n /\ front \in GraphItem
      BY DEF GraphItem
  <2> HIDE DEF front
  <2> QED BY <2>1 DEF ToCome, DeletionItem
<1> DEFINE S == {front, rec} \cup {drops[j] : j \in DOMAIN drops}
<1>8. drops \in Seq(S)
  <2>1. entries = <<entries[1], entries[2]>>
      BY DEF NodeEntries
  <2>2. DOMAIN entries = 1..2
      BY <2>1
  <2>3. DOMAIN drops = 1..2
      BY <2>2
  <2>4. drops = [j \in 1..2 |-> drops[j]] /\ \A j \in 1..2 : drops[j] \in S
      BY <2>3
  <2> HIDE DEF drops, S
  <2>5. drops \in [1..2 -> S] /\ 2 \in Nat
      BY <2>4
  <2> QED BY <2>5, SeqDef
<1>9. <<front, rec>> \o drops = todo
  <2> HIDE DEF front, rec, drops
  <2>1. <<front, rec>> = <<front>> \o <<rec>>
      OBVIOUS
  <2>2. front \in S /\ rec \in S
      OBVIOUS
  <2> HIDE DEF S
  <2>3. <<front>> \in Seq(S) /\ <<rec>> \in Seq(S)
      BY <2>2
  <2>4. (<<front>> \o <<rec>>) \o drops = <<front>> \o (<<rec>> \o drops)
      BY <1>8, <2>3, ConcatAssociative
  <2> QED BY <2>1, <2>4
<1> HIDE DEF what, entries, drops, rec, front, steps, r
<1>10. WholeSteps(steps, what, NoRecord, "drop", r)
    BY <1>1, <1>3, <1>5, <1>6, StepsWhole
<1>11. \A do \in ToSet(steps) : DeletionItem(do, {what}) /\ ~ToCome(do) /\ About(do) = what
    BY <1>1, <1>10, DeletionSteps
<1> DEFINE head == <<front>>
<1>12. head \in Seq(GraphItem) /\ ToSet(head) = {front} /\ InOrder(head)
  <2>1. front \in GraphItem
      BY <1>7
  <2> QED BY <2>1 DEF ToSet, InOrder
<1> HIDE DEF head
<1>13. todo = head \o steps
    BY DEF head
<1>14. \A x \in ToSet(head), y \in ToSet(steps) : MayFollow(x, y)
  <2> SUFFICES ASSUME NEW y \in ToSet(steps) PROVE MayFollow(front, y)
      BY <1>12
  <2>1. ~ToCome(y) /\ About(y) = what /\ what[1] = "node"
      BY <1>1, <1>11
  <2>2. About(front)[1] = "list edges"
      BY <1>7 DEF About
  <2>3. About(front) # what
    <3>1. "list edges" # "node"
        OBVIOUS
    <3> QED BY <1>1, <2>2, <3>1, Zenon
  <2> QED BY <1>7, <2>1, <2>3 DEF MayFollow
<1>15. steps \in Seq(GraphItem) /\ InOrder(steps) /\ Recs(ToSet(steps), what) = {NoRecord}
       /\ Ents(ToSet(steps), "drop", what) = EntriesFor(what, r)
    BY <1>10 DEF WholeSteps, Saying
<1> HIDE DEF todo
<1>16. todo \in Seq(GraphItem) /\ ToSet(todo) = {front} \cup ToSet(steps) /\ InOrder(todo)
    BY <1>12, <1>13, <1>14, <1>15, Joined, JoinedInOrder
<1>17. Recs({front}, what) = {} /\ Ents({front}, "drop", what) = {}
    BY <1>1, <1>7, ItemSays
<1>18. Recs(ToSet(todo), what) = {NoRecord} /\ Ents(ToSet(todo), "drop", what) = EntriesFor(what, RecordAt(what))
  <2>1. Recs(ToSet(todo), what) = Recs({front}, what) \cup Recs(ToSet(steps), what)
      BY <1>16 DEF Recs
  <2>2. Ents(ToSet(todo), "drop", what) = Ents({front}, "drop", what) \cup Ents(ToSet(steps), "drop", what)
      BY <1>16 DEF Ents
  <2> QED BY <1>1, <1>15, <1>17, <2>1, <2>2
<1>19. \A do \in ToSet(todo) : DeletionItem(do, {what})
    BY <1>7, <1>11, <1>16
<1>20. StartGraphCall(c, "delete", {what}, todo)
    BY <1>4, <1>9
<1> QED BY <1>1, <1>2, <1>4, <1>16, <1>18, <1>19, <1>20, DeletionBegins

-----------------------------------------------------------------------------
(* Calls go on.                                                            *)

\* A call with something to do.
LEMMA CallUnderWay ==
    ASSUME GraphInv, NEW c \in GraphClient, graphCall[c].todo # << >>
    PROVE  /\ graphCall[c] \in Call /\ CallFormed(graphCall[c]) /\ graphCall[c].op \in {"add", "delete"}
           /\ graphCall[c].on \subseteq Subject /\ Rest(c) = Tail(graphCall[c].todo) /\ Rest(c) \in Seq(GraphItem)
           /\ Head(graphCall[c].todo) \in GraphItem /\ Head(graphCall[c].todo) \in ToSet(graphCall[c].todo)
<1>1. graphCall[c] \in Call /\ CallFormed(graphCall[c])
    BY GraphParts DEF GraphInv
<1>2. Head(graphCall[c].todo) \in GraphItem /\ Head(graphCall[c].todo) \in ToSet(graphCall[c].todo)
      /\ Tail(graphCall[c].todo) \in Seq(GraphItem) /\ graphCall[c].op # "none"
    BY <1>1, CallHead
<1>3. graphCall[c].op \in {"none", "add", "delete"} /\ graphCall[c].on \subseteq Subject
    BY <1>1, CallItems
<1> QED BY <1>1, <1>2, <1>3 DEF Rest

\* A deletion has more to do: this list, and may now touch these subjects.
UnfoldsTo(c, calls, after, on, front) ==
    /\ after \in [GraphClient -> Call] /\ \A d \in GraphClient \ {c} : after[d] = calls[d]
    /\ \A d \in GraphClient : CallFormed(after[d])
    /\ calls[c].op = "delete" /\ after[c].op # "add" /\ after[c].on \subseteq calls[c].on \cup on
    /\ after[c].on # {} => after[c].op = calls[c].op
    /\ \A w \in Subject : RecordsIn(after[c], w) = Recs(ToSet(front), w) \cup RecordsIn(calls[c], w)
    /\ \A w \in Subject, how \in {"put", "drop"} :
          EntriesIn(after[c], how, w) = Ents(ToSet(front), how, w) \cup EntriesIn(calls[c], how, w)

\* The first item of a call in progress puts its steps, of a deletion, in its place.
LEMMA Unfolds ==
    ASSUME GraphInv, NEW c \in GraphClient, graphCall[c].todo # << >>, ToCome(Head(graphCall[c].todo)),
           NEW on \in SUBSET Subject, NEW front \in Seq(GraphItem), InOrder(front),
           \A x \in ToSet(front) : DeletionItem(x, on),
           \A x \in ToSet(front), y \in ToSet(Rest(c)) : MayFollow(x, y),
           GoOn(c, on, front \o Rest(c))
    PROVE  UnfoldsTo(c, graphCall, graphCall', on, front)
<1> DEFINE k == graphCall[c]
           next == graphCall'[c]
           do == Head(k.todo)
           A == ToSet(Rest(c))
           F == ToSet(front)
           list == front \o Rest(c)
<1>1. /\ k \in Call /\ CallFormed(k) /\ k.op \in {"add", "delete"} /\ k.on \subseteq Subject /\ Rest(c) = Tail(k.todo)
      /\ Rest(c) \in Seq(GraphItem) /\ do \in GraphItem /\ do \in ToSet(k.todo)
    BY CallUnderWay
<1>2. A \subseteq ToSet(k.todo) /\ InOrder(Rest(c))
    BY <1>1, CallHead
<1>3. list \in Seq(GraphItem) /\ ToSet(list) = F \cup A /\ InOrder(list)
  <2>1. list \in Seq(GraphItem) /\ ToSet(list) = F \cup A
      BY <1>1, Joined
  <2>2. InOrder(list)
      BY <1>1, <1>2, JoinedInOrder
  <2> QED BY <2>1, <2>2
<1> HIDE DEF list
<1>4. /\ graphCall' \in [GraphClient -> [op : {"none", "add", "delete"}, on : SUBSET Subject, todo : Seq(GraphItem)]]
      /\ next.todo = list /\ next.op = IF list = << >> THEN "none" ELSE k.op
      /\ next.on = IF list = << >> THEN {} ELSE k.on \cup on
      /\ \A d \in GraphClient \ {c} : graphCall'[d] = graphCall[d]
  <2>1. GoOn(c, on, list) /\ GraphTypeOK
      BY DEF list, GraphInv
  <2> QED BY <1>3, <2>1, CallGoesOn
<1>5. graphCall' \in [GraphClient -> Call] /\ next \in Call
    BY <1>4 DEF Call
<1> HIDE DEF k, next, do, A, F
<1>6. k.op = "delete"
  <2>1. do[1] \notin {"node", "edge", "put"}
      BY DEF ToCome, do, k
  <2> QED BY <1>1, <2>1 DEF CallFormed
<1>7. ASSUME NEW x \in ToSet(list)
      PROVE  /\ x[1] # "put" /\ (ToCome(x) \/ About(x) \in k.on \cup on)
             /\ x[1] \in {"node", "edge"} => x[3] = NoRecord
  <2>1. CASE x \in F
      BY <2>1 DEF F, DeletionItem
  <2>2. CASE x \in A
      BY <1>1, <1>2, <1>6, <2>2 DEF CallFormed
  <2> QED BY <1>3, <2>1, <2>2
<1>8. CallFormed(next)
  <2>1. CASE list = << >>
    <3>1. ToSet(next.todo) = {}
        BY <1>4, <2>1, EmptyList
    <3> QED BY <1>3, <1>4, <1>5, <2>1, <3>1, FormedOf
  <2>2. CASE list # << >>
    <3>1. next.op = "delete" /\ next.on = k.on \cup on
        BY <1>4, <1>6, <2>2
    <3> QED BY <1>3, <1>4, <1>5, <1>7, <3>1, FormedOf
  <2> QED BY <2>1, <2>2
<1>9. ASSUME NEW d \in GraphClient PROVE CallFormed(graphCall'[d])
  <2>1. CallFormed(graphCall[d])
      BY DEF GraphInv
  <2> QED BY <1>4, <1>8, <2>1 DEF next
<1>10. next.op # "add" /\ next.on \subseteq k.on \cup on /\ (next.on # {} => next.op = k.op)
    BY <1>4, <1>6
<1>11. ASSUME NEW w \in Subject PROVE RecordsIn(next, w) = Recs(F, w) \cup RecordsIn(k, w)
  <2>1. Recs({do}, w) = {}
      BY <1>1, ItemSays DEF do, k
  <2>2. RecordsIn(k, w) = Recs({do}, w) \cup Recs(A, w)
      BY <1>1, TailSays DEF do, k, A
  <2>3. RecordsIn(next, w) = Recs(F \cup A, w)
      BY <1>3, <1>4, CallSays
  <2>4. Recs(F \cup A, w) = Recs(F, w) \cup Recs(A, w)
      BY DEF Recs
  <2> QED BY <2>1, <2>2, <2>3, <2>4
<1>12. ASSUME NEW w \in Subject, NEW how \in {"put", "drop"}
       PROVE  EntriesIn(next, how, w) = Ents(F, how, w) \cup EntriesIn(k, how, w)
  <2>1. Ents({do}, how, w) = {}
      BY <1>1, ItemSays DEF do, k
  <2>2. EntriesIn(k, how, w) = Ents({do}, how, w) \cup Ents(A, how, w)
      BY <1>1, TailSays DEF do, k, A
  <2>3. EntriesIn(next, how, w) = Ents(F \cup A, how, w)
    <3>1. EntriesIn(next, how, w) = Ents(ToSet(next.todo), how, w)
        BY CallSays
    <3>2. ToSet(next.todo) = F \cup A
        BY <1>3, <1>4
    <3> QED BY <3>1, <3>2
  <2>4. Ents(F \cup A, how, w) = Ents(F, how, w) \cup Ents(A, how, w)
      BY DEF Ents
  <2> QED BY <2>1, <2>2, <2>3, <2>4
<1> QED BY <1>4, <1>5, <1>6, <1>9, <1>10, <1>11, <1>12 DEF k, next, F, UnfoldsTo

\* The edges of a node are edges.
LEMMA EdgesListed == ASSUME NEW n PROVE GetEdges(n) \in Seq(EdgeId)
<1>1. ASSUME NEW kind PROVE EdgesBy(kind, n) \in Seq(EdgeId)
  <2> DEFINE S == {e \in EdgeId : <<kind, n, e>> \in graphIndex /\ edgeAt[e] # NoRecord}
  <2>1. S \in SUBSET EdgeId
      OBVIOUS
  <2> HIDE DEF S
  <2>2. S \in SUBSET Nat /\ IsFiniteSet(S)
      BY <2>1, FS_Subset, GraphAssumption
  <2>3. Ascending(S) \in Seq(S)
      BY <2>2, AscendingSeq
  <2>4. Ascending(S) \in Seq(EdgeId)
      BY <2>1, <2>3, SeqMonotonic
  <2> QED BY <2>4 DEF EdgesBy, S
<1>2. EdgesBy("out", n) \in Seq(EdgeId) /\ EdgesBy("in", n) \in Seq(EdgeId)
    BY <1>1
<1> QED BY <1>2, ConcatProperties DEF GetEdges

\* ListEdges keeps the invariant: what is to come says nothing yet.
LEMMA ListEdgesKeeps == ASSUME GraphInv, NEW c \in GraphClient, ListEdges(c) PROVE GraphInv'
<1> DEFINE do == Head(graphCall[c].todo)
           listed == GetEdges(do[2])
           front == [j \in DOMAIN listed |-> <<"delete edge", listed[j]>>]
<1>1. /\ graphCall[c].todo # << >> /\ do[1] = "list edges" /\ GoOn(c, {}, front \o Rest(c))
      /\ UNCHANGED <<nodeAt, edgeAt, graphIndex, torn, stale>>
    BY DEF ListEdges, Ready
<1>2. listed \in Seq(EdgeId)
    BY EdgesListed
<1> HIDE DEF listed
<1>3. DOMAIN listed = 1..Len(listed) /\ Len(listed) \in Nat /\ \A j \in 1..Len(listed) : listed[j] \in EdgeId
    BY <1>2
<1>4. /\ front \in Seq(GraphItem) /\ Len(front) = Len(listed) /\ DOMAIN front = 1..Len(listed)
      /\ \A j \in 1..Len(listed) : front[j] = <<"delete edge", listed[j]>> /\ front[j] \in GraphItem
  <2>1. \A j \in 1..Len(listed) : <<"delete edge", listed[j]>> \in GraphItem
      BY <1>3 DEF GraphItem
  <2>2. front \in [1..Len(listed) -> GraphItem]
      BY <1>3, <2>1
  <2>3. \A j \in 1..Len(listed) : front[j] = <<"delete edge", listed[j]>> /\ front[j] \in GraphItem
      BY <1>3, <2>1
  <2> HIDE DEF front
  <2>4. DOMAIN front = 1..Len(listed) /\ front \in Seq(GraphItem) /\ Len(front) = Len(listed)
      BY <1>3, <2>2
  <2> QED BY <2>3, <2>4
<1> HIDE DEF front
<1>5. ASSUME NEW x \in ToSet(front) PROVE x \in GraphItem /\ x[1] = "delete edge" /\ ToCome(x) /\ About(x)[1] = "delete edge"
  <2>1. PICK j \in 1..Len(listed) : x = front[j]
      BY <1>4 DEF ToSet
  <2>2. x = <<"delete edge", listed[j]>> /\ x \in GraphItem
      BY <1>4, <2>1
  <2>3. x[1] = "delete edge" /\ x[2] = listed[j]
      BY <2>2
  <2> QED BY <2>2, <2>3 DEF ToCome, About
<1>6. \A x \in ToSet(front) : DeletionItem(x, {})
    BY <1>5 DEF DeletionItem
<1>7. ToCome(do) /\ About(do)[1] = "list edges"
    BY <1>1 DEF ToCome, About
<1>8. /\ graphCall[c] \in Call /\ CallFormed(graphCall[c]) /\ Rest(c) = Tail(graphCall[c].todo)
    BY <1>1, CallUnderWay
<1> HIDE DEF do
<1>9. \A y \in ToSet(Rest(c)) : MayFollow(do, y)
    BY <1>1, <1>8, CallHead DEF do
<1>10. ASSUME NEW x \in ToSet(front), NEW y PROVE ToCome(do) /\ MayFollow(do, y) => MayFollow(x, y)
  <2>1. ASSUME y[1] \in {"node", "edge"} PROVE About(y) # About(x)
    <3>1. About(y)[1] = y[1]
        BY <2>1 DEF About
    <3> QED BY <1>5, <2>1, <3>1
  <2> QED BY <2>1 DEF MayFollow
<1>11. InOrder(front)
  <2> SUFFICES ASSUME NEW i \in 1..Len(front), NEW j \in 1..Len(front) PROVE MayFollow(front[i], front[j])
      BY DEF InOrder
  <2>1. front[i] \in ToSet(front) /\ front[j] \in ToSet(front)
      BY <1>4 DEF ToSet
  <2> QED BY <1>5, <2>1 DEF MayFollow
<1>12. \A x \in ToSet(front), y \in ToSet(Rest(c)) : MayFollow(x, y)
    BY <1>7, <1>9, <1>10
<1>13. /\ graphCall' \in [GraphClient -> Call] /\ \A d \in GraphClient \ {c} : graphCall'[d] = graphCall[d]
       /\ \A d \in GraphClient : CallFormed(graphCall'[d])
       /\ graphCall[c].op = "delete" /\ graphCall'[c].on \subseteq graphCall[c].on
       /\ graphCall'[c].on # {} => graphCall'[c].op = graphCall[c].op
       /\ \A w \in Subject : RecordsIn(graphCall'[c], w) = Recs(ToSet(front), w) \cup RecordsIn(graphCall[c], w)
       /\ \A w \in Subject, how \in {"put", "drop"} :
             EntriesIn(graphCall'[c], how, w) = Ents(ToSet(front), how, w) \cup EntriesIn(graphCall[c], how, w)
  <2> DEFINE on == {}
  <2>1. on \in SUBSET Subject /\ GoOn(c, on, front \o Rest(c)) /\ \A x \in ToSet(front) : DeletionItem(x, on)
      BY <1>1, <1>6
  <2>2. graphCall[c].todo # << >> /\ ToCome(Head(graphCall[c].todo)) /\ front \in Seq(GraphItem)
      BY <1>1, <1>4, <1>7 DEF do
  <2> HIDE DEF on
  <2>3. UnfoldsTo(c, graphCall, graphCall', on, front)
      BY <1>11, <1>12, <2>1, <2>2, Unfolds
  <2>4. graphCall[c].on \cup on = graphCall[c].on
      BY DEF on
  <2> QED BY <2>3, <2>4 DEF UnfoldsTo
<1>14. ASSUME NEW w \in Subject, NEW how \in {"put", "drop"} PROVE Recs(ToSet(front), w) = {} /\ Ents(ToSet(front), how, w) = {}
  <2> DEFINE F == ToSet(front)
  <2>1. F \in SUBSET GraphItem /\ \A x \in F : ToCome(x)
      BY <1>5
  <2> HIDE DEF F
  <2>2. Recs(F, w) = {} /\ Ents(F, how, w) = {}
      BY <2>1, NothingSaid
  <2> QED BY <2>2 DEF F
<1>15. ASSUME NEW w \in Subject, SettledIn(w, RecordAt(w), ListedAt(w), graphCall)
       PROVE  SettledIn(w, RecordAt(w)', ListedAt(w)', graphCall')
  <2>1. RecordAt(w)' = RecordAt(w) /\ ListedAt(w)' = ListedAt(w)
      BY <1>1, StoreSame
  <2>2. RecordsIn(graphCall'[c], w) = RecordsIn(graphCall[c], w)
      BY <1>13, <1>14
  <2>3. \A how \in {"put", "drop"} : EntriesIn(graphCall'[c], how, w) = EntriesIn(graphCall[c], how, w)
      BY <1>13, <1>14
  <2>4. w \in graphCall'[c].on => w \in graphCall[c].on /\ graphCall'[c].op = graphCall[c].op
      BY <1>13
  <2>5. SettledIn(w, RecordAt(w), ListedAt(w), graphCall')
      BY <1>13, <1>15, <2>2, <2>3, <2>4, Undisturbed
  <2> QED BY <2>1, <2>5
<1>16. GraphTypeOK'
    BY <1>1, <1>13 DEF GraphTypeOK, GraphInv, Call
<1> QED BY <1>1, <1>13, <1>15, <1>16, SettlesThen

\* ReadEdge keeps the invariant: a deletion of the edge begins within a deletion of a node.
LEMMA ReadEdgeKeeps == ASSUME GraphInv, NEW c \in GraphClient, ReadEdge(c) PROVE GraphInv'
<1> DEFINE k == graphCall[c]
           do == Head(k.todo)
           e == do[2]
           edge == <<"edge", e>>
           front == DeleteEdgeSteps(e)
           F == ToSet(front)
<1>1. /\ k.todo # << >> /\ do[1] = "delete edge" /\ GoOn(c, {edge}, front \o Rest(c))
      /\ torn' = torn \cup {w \in {edge} : Writing(w)} /\ UNCHANGED <<nodeAt, edgeAt, graphIndex, stale>>
    BY DEF ReadEdge, Ready
<1>2. /\ k \in Call /\ CallFormed(k) /\ Rest(c) = Tail(k.todo) /\ Rest(c) \in Seq(GraphItem) /\ do \in GraphItem
    BY <1>1, CallUnderWay
<1>3. GraphTypeOK
    BY DEF GraphInv
<1> HIDE DEF do, k
<1>4. ToCome(do) /\ e \in EdgeId
  <2>1. ToCome(do)
      BY <1>1 DEF ToCome
  <2> QED BY <1>1, <1>2, <2>1, ItemKinds
<1>5. edge \in Subject /\ RecordAt(edge) = edgeAt[e]
    BY <1>4 DEF Subject, RecordAt
<1>6. /\ front \in Seq(GraphItem) /\ InOrder(front)
      /\ \A x \in F : DeletionItem(x, {edge}) /\ ~ToCome(x) /\ About(x) = edge
      /\ edgeAt[e] = NoRecord => F = {}
      /\ edgeAt[e] # NoRecord => Recs(F, edge) = {NoRecord} /\ Ents(F, "drop", edge) = EntriesFor(edge, edgeAt[e])
  <2>1. CASE edgeAt[e] = NoRecord
    <3>1. front = << >>
        BY <2>1 DEF DeleteEdgeSteps
    <3> HIDE DEF front
    <3>2. ToSet(front) = {} /\ front \in Seq(GraphItem) /\ InOrder(front)
        BY <3>1, EmptyList DEF InOrder
    <3> QED BY <2>1, <3>2
  <2>2. CASE edgeAt[e] # NoRecord
    <3>1. WholeSteps(front, edge, NoRecord, "drop", edgeAt[e])
        BY <1>3, <1>4, <2>2, DeleteEdgeWhole
    <3> HIDE DEF front, edge
    <3>2. \A x \in ToSet(front) : DeletionItem(x, {edge}) /\ ~ToCome(x) /\ About(x) = edge
        BY <1>5, <3>1, DeletionSteps
    <3> QED BY <2>2, <3>1, <3>2 DEF WholeSteps, Saying
  <2> QED BY <2>1, <2>2
<1> HIDE DEF front, F, e
<1>7. ASSUME NEW y \in ToSet(Rest(c))
      PROVE  y[1] = "delete edge" \/ (~ToCome(y) /\ About(y)[1] = "node")
  <2>1. MayFollow(do, y)
      BY <1>1, <1>2, CallHead DEF do
  <2> QED BY <1>4, <2>1 DEF MayFollow
<1>8. \A y \in ToSet(Rest(c)) : ToCome(y) \/ About(y) # edge
  <2>1. edge[1] = "edge"
      OBVIOUS
  <2> HIDE DEF edge
  <2>2. ASSUME NEW y \in ToSet(Rest(c)) PROVE ToCome(y) \/ About(y) # edge
    <3>1. CASE y[1] = "delete edge"
        BY <3>1 DEF ToCome
    <3>2. CASE About(y)[1] = "node"
        BY <2>1, <3>2
    <3> QED BY <1>7, <3>1, <3>2
  <2> QED BY <2>2
<1>9. \A x \in F, y \in ToSet(Rest(c)) : MayFollow(x, y)
  <2> SUFFICES ASSUME NEW x \in F, NEW y \in ToSet(Rest(c)) PROVE MayFollow(x, y)
      OBVIOUS
  <2>1. ~ToCome(x) /\ About(x) = edge
      BY <1>6
  <2>2. y[1] \in {"node", "edge"} => About(y) # edge
      BY <1>8 DEF ToCome
  <2> QED BY <2>1, <2>2 DEF MayFollow
<1> HIDE DEF edge
<1>10. UnfoldsTo(c, graphCall, graphCall', {edge}, front)
  <2>1. {edge} \in SUBSET Subject /\ \A x \in ToSet(front) : DeletionItem(x, {edge})
      BY <1>5, <1>6 DEF F
  <2>2. graphCall[c].todo # << >> /\ ToCome(Head(graphCall[c].todo)) /\ \A x \in ToSet(front), y \in ToSet(Rest(c)) : MayFollow(x, y)
      BY <1>1, <1>4, <1>9 DEF F, do, k
  <2> QED BY <1>1, <1>6, <2>1, <2>2, Unfolds
<1>11. /\ graphCall' \in [GraphClient -> Call] /\ \A d \in GraphClient \ {c} : graphCall'[d] = graphCall[d]
       /\ \A d \in GraphClient : CallFormed(graphCall'[d])
       /\ graphCall'[c].op # "add" /\ graphCall'[c].on \subseteq k.on \cup {edge}
       /\ graphCall'[c].on # {} => graphCall'[c].op = k.op
       /\ k.op = "delete"
    BY <1>10 DEF UnfoldsTo, k
<1>12. /\ \A w \in Subject : RecordsIn(graphCall'[c], w) = Recs(F, w) \cup RecordsIn(k, w)
       /\ \A w \in Subject, how \in {"put", "drop"} : EntriesIn(graphCall'[c], how, w) = Ents(F, how, w) \cup EntriesIn(k, how, w)
    BY <1>10 DEF UnfoldsTo, k, F
<1>13. F \in SUBSET GraphItem
  <2>1. DOMAIN front = 1..Len(front) /\ \A i \in 1..Len(front) : front[i] \in GraphItem
      BY <1>6
  <2> QED BY <2>1 DEF ToSet, F
<1>14. RecordsIn(k, edge) = {} /\ EntriesIn(k, "drop", edge) = {}
  <2> DEFINE B == ToSet(k.todo)
  <2>1. B \in SUBSET GraphItem
      BY <1>2, CallItems
  <2>2. B = {do} \cup ToSet(Rest(c))
      BY <1>1, <1>2, CallItems, HeadAndTail DEF do
  <2>3. \A x \in B : ToCome(x) \/ About(x) # edge
      BY <1>4, <1>8, <2>2
  <2> HIDE DEF B
  <2>4. Recs(B, edge) = {} /\ Ents(B, "drop", edge) = {}
      BY <1>5, <2>1, <2>3, NothingSaid
  <2> QED BY <2>4, CallSays DEF B
<1>15. ASSUME NEW w \in Subject, w \notin torn' \cup stale', SettledIn(w, RecordAt(w), ListedAt(w), graphCall)
       PROVE  SettledIn(w, RecordAt(w)', ListedAt(w)', graphCall')
  <2>1. RecordAt(w)' = RecordAt(w) /\ ListedAt(w)' = ListedAt(w)
      BY <1>1, StoreSame
  <2>2. CASE w # edge
    <3>1. \A how \in {"put", "drop"} : Recs(F, w) = {} /\ Ents(F, how, w) = {}
        BY <1>6, <1>13, <2>2, NothingSaid
    <3>2. RecordsIn(graphCall'[c], w) = RecordsIn(graphCall[c], w)
        BY <1>12, <3>1 DEF k
    <3>3. \A how \in {"put", "drop"} : EntriesIn(graphCall'[c], how, w) = EntriesIn(graphCall[c], how, w)
        BY <1>12, <3>1 DEF k
    <3>4. w \in graphCall'[c].on => w \in graphCall[c].on /\ graphCall'[c].op = graphCall[c].op
        BY <1>11, <2>2 DEF k
    <3>5. graphCall[c].op # "add"
        BY <1>11 DEF k
    <3>6. SettledIn(w, RecordAt(w), ListedAt(w), graphCall')
        BY <1>11, <1>15, <3>2, <3>3, <3>4, <3>5, Undisturbed
    <3> QED BY <2>1, <3>6
  <2>3. CASE w = edge
    <3>1. ~Writing(w)
        BY <1>1, <1>15, <2>3
    <3>2. \A d \in GraphClient : graphCall[d].op = "add" => w \notin graphCall[d].on
        BY <3>1 DEF Writing
    <3>3. \A d \in GraphClient : graphCall'[d].op = "add" => w \notin graphCall'[d].on
        BY <1>11, <3>2
    <3>4. DeletingIn(w, RecordAt(w), ListedAt(w), graphCall)
        BY <1>15, <3>2 DEF SettledIn
    <3>5. CASE edgeAt[e] = NoRecord
      <4>1. RecordAt(w) = NoRecord /\ ListedAt(w) \subseteq UNION {EntriesIn(graphCall[d], "drop", w) : d \in GraphClient}
          BY <1>5, <2>3, <3>4, <3>5 DEF DeletingIn
      <4>2. Ents(F, "drop", w) = {}
          BY <1>6, <3>5 DEF Ents
      <4>3. EntriesIn(graphCall'[c], "drop", w) = EntriesIn(graphCall[c], "drop", w)
          BY <1>12, <4>2 DEF k
      <4>4. \A d \in GraphClient : EntriesIn(graphCall'[d], "drop", w) = EntriesIn(graphCall[d], "drop", w)
          BY <1>11, <4>3
      <4>5. ListedAt(w) \subseteq UNION {EntriesIn(graphCall'[d], "drop", w) : d \in GraphClient}
          BY <4>1, <4>4
      <4>6. SettledIn(w, NoRecord, ListedAt(w), graphCall')
          BY <3>3, <4>5, DeletionGoes
      <4> QED BY <2>1, <4>1, <4>6
    <3>6. CASE edgeAt[e] # NoRecord
      <4>1. RecordsIn(graphCall'[c], w) = {NoRecord} /\ EntriesIn(graphCall'[c], "drop", w) = EntriesFor(w, RecordAt(w))
          BY <1>5, <1>6, <1>12, <1>14, <2>3, <3>6
      <4>2. SettledIn(w, RecordAt(w), ListedAt(w), graphCall')
          BY <1>5, <1>11, <1>15, <2>3, <3>2, <3>6, <4>1, DeletionJoins
      <4> QED BY <2>1, <4>2
    <3> QED BY <3>5, <3>6
  <2> QED BY <2>2, <2>3
<1>16. GraphTypeOK'
    BY <1>1, <1>3, <1>11 DEF GraphTypeOK, Call
<1> QED BY <1>1, <1>11, <1>15, <1>16, SettlesThen

\* A call goes on with the rest of its items, or ends.
TailsTo(c, calls, after) ==
    /\ after \in [GraphClient -> Call] /\ \A d \in GraphClient \ {c} : after[d] = calls[d]
    /\ \A d \in GraphClient : CallFormed(after[d])
    /\ after[c].todo = Tail(calls[c].todo)
    /\ after[c].op = IF after[c].todo = << >> THEN "none" ELSE calls[c].op
    /\ after[c].on = IF after[c].todo = << >> THEN {} ELSE calls[c].on

\* GoOn with the rest does so.
LEMMA GoesOn ==
    ASSUME GraphInv, NEW c \in GraphClient, graphCall[c].todo # << >>, GoOn(c, {}, Rest(c))
    PROVE  TailsTo(c, graphCall, graphCall')
<1> DEFINE k == graphCall[c]
           next == graphCall'[c]
           on == {}
<1>1. k \in Call /\ CallFormed(k) /\ Rest(c) = Tail(k.todo) /\ Rest(c) \in Seq(GraphItem)
    BY CallUnderWay
<1>2. GraphTypeOK /\ on \in SUBSET Subject /\ GoOn(c, on, Rest(c))
    BY DEF GraphInv
<1> HIDE DEF on
<1>3. /\ graphCall' \in [GraphClient -> [op : {"none", "add", "delete"}, on : SUBSET Subject, todo : Seq(GraphItem)]]
      /\ next.todo = Rest(c) /\ next.op = IF Rest(c) = << >> THEN "none" ELSE k.op
      /\ next.on = IF Rest(c) = << >> THEN {} ELSE k.on \cup on
      /\ \A d \in GraphClient \ {c} : graphCall'[d] = graphCall[d]
    BY <1>1, <1>2, CallGoesOn
<1>4. graphCall' \in [GraphClient -> Call] /\ next \in Call
    BY <1>3 DEF Call
<1> HIDE DEF k, next
<1>5. next.on = IF Rest(c) = << >> THEN {} ELSE k.on
    BY <1>3 DEF on
<1>6. CallFormed(next)
    BY <1>1, <1>3, <1>4, <1>5, FormedTail DEF k
<1>7. ASSUME NEW d \in GraphClient PROVE CallFormed(graphCall'[d])
  <2>1. CallFormed(graphCall[d])
      BY DEF GraphInv
  <2> QED BY <1>3, <1>6, <2>1 DEF next
<1> QED BY <1>1, <1>3, <1>4, <1>5, <1>7 DEF TailsTo, k, next

\* The first item of a call, its subject, and what the call says of it before and after.
HeadOf(c, calls, after, do, what) ==
    /\ what \in Subject /\ what \in calls[c].on /\ calls[c].op \in {"add", "delete"} /\ do \in GraphItem
    /\ calls[c].op = "add" => do[1] \in {"node", "edge", "put"}
    /\ calls[c].op = "delete" => do[1] # "put" /\ (do[1] \in {"node", "edge"} => do[3] = NoRecord)
    /\ RecordsIn(after[c], what) = {}
    /\ RecordsIn(calls[c], what) = Recs({do}, what)
    /\ \A how \in {"put", "drop"} : EntriesIn(calls[c], how, what) = Ents({do}, how, what) \cup EntriesIn(after[c], how, what)
    /\ what \in after[c].on => after[c].op = calls[c].op
    /\ what \notin after[c].on => EntriesIn(after[c], "put", what) = {}

\* What the first item of a call does to its subject.
LEMMA HeadOnSubject ==
    ASSUME NEW calls \in [GraphClient -> Call], NEW after, NEW c \in GraphClient, TailsTo(c, calls, after),
           \A d \in GraphClient : CallFormed(calls[d]), calls[c].todo # << >>, ~ToCome(Head(calls[c].todo)),
           NEW do, do = Head(calls[c].todo), NEW what, what = About(do)
    PROVE  HeadOf(c, calls, after, do, what)
<1> DEFINE k == calls[c]
           A == ToSet(Tail(k.todo))
<1>1. k \in Call /\ CallFormed(k) /\ k.todo # << >> /\ ~ToCome(Head(k.todo)) /\ do = Head(k.todo)
    OBVIOUS
<1> HIDE DEF k
<1>2. do \in GraphItem /\ do \in ToSet(k.todo) /\ k.op # "none"
    BY <1>1, CallHead
<1>3. k.op \in {"add", "delete"}
    BY <1>1, <1>2, CallItems
<1>4. /\ k.op = "add" => do[1] \in {"node", "edge", "put"} /\ k.on = {what}
      /\ k.op = "delete" => do[1] # "put" /\ what \in k.on /\ (do[1] \in {"node", "edge"} => do[3] = NoRecord)
    BY <1>1, <1>2 DEF CallFormed
<1>5. what \in Subject /\ Recs(A, what) = {}
    BY <1>1, RecordsFirst
<1>6. RecordsIn(k, what) = Recs({do}, what) \cup Recs(A, what)
    BY <1>1, TailSays
<1>7. \A how \in {"put", "drop"} : EntriesIn(k, how, what) = Ents({do}, how, what) \cup Ents(A, how, what)
    BY <1>1, TailSays
<1>8. after[c].todo = Tail(k.todo) /\ (after[c].todo = << >> => after[c].on = {})
      /\ (after[c].todo # << >> => after[c].on = k.on /\ after[c].op = k.op)
    BY DEF TailsTo, k
<1>9. RecordsIn(after[c], what) = Recs(A, what) /\ \A how \in {"put", "drop"} : EntriesIn(after[c], how, what) = Ents(A, how, what)
    BY <1>8, CallSays
<1>10. ASSUME what \notin after[c].on PROVE EntriesIn(after[c], "put", what) = {}
  <2>1. after[c].todo = << >>
      BY <1>3, <1>4, <1>8, <1>10
  <2>2. A = {}
      BY <1>8, <2>1, EmptyList
  <2> HIDE DEF A
  <2> QED BY <1>9, <2>2 DEF Ents
<1> HIDE DEF A
<1>11. what \in after[c].on => after[c].op = k.op
    BY <1>8
<1> QED BY <1>2, <1>3, <1>4, <1>5, <1>6, <1>7, <1>9, <1>10, <1>11 DEF k, HeadOf

\* A deletion goes on: no addition touches its subject.
LEMMA DeletesAlone ==
    ASSUME NEW what, NEW rec, NEW listed, NEW calls, NEW c \in GraphClient, SettledIn(what, rec, listed, calls),
           what \in calls[c].on, calls[c].op = "delete"
    PROVE  /\ \A d \in GraphClient : calls[d].op = "add" => what \notin calls[d].on
           /\ DeletingIn(what, rec, listed, calls)
<1>1. ASSUME NEW d \in GraphClient, calls[d].op = "add", what \in calls[d].on PROVE FALSE
  <2>1. c = d
      BY <1>1 DEF SettledIn
  <2> QED BY <1>1, <2>1
<1> QED BY <1>1 DEF SettledIn

\* WriteRecord keeps the invariant.
LEMMA WriteRecordKeeps == ASSUME GraphInv, NEW c \in GraphClient, WriteRecord(c) PROVE GraphInv'
<1> DEFINE k == graphCall[c]
           do == Head(k.todo)
           what == About(do)
<1>1. /\ k.todo # << >> /\ do[1] \in {"node", "edge"} /\ GoOn(c, {}, Rest(c)) /\ UNCHANGED <<graphIndex, torn, stale>>
      /\ do[1] = "node" => nodeAt' = [nodeAt EXCEPT ![do[2]] = do[3]] /\ UNCHANGED edgeAt
      /\ do[1] = "edge" => edgeAt' = [edgeAt EXCEPT ![do[2]] = do[3]] /\ UNCHANGED nodeAt
    BY DEF WriteRecord, Ready
<1>2. TailsTo(c, graphCall, graphCall')
    BY <1>1, GoesOn
<1>3. GraphTypeOK /\ graphCall \in [GraphClient -> Call] /\ \A d \in GraphClient : CallFormed(graphCall[d])
    BY GraphParts DEF GraphInv
<1> HIDE DEF k, do, what
<1>4. ~ToCome(do) /\ what = <<do[1], do[2]>>
    BY <1>1 DEF ToCome, About, what
<1>5. /\ what \in Subject /\ what \in k.on /\ k.op \in {"add", "delete"} /\ do \in GraphItem
      /\ k.op = "delete" => do[3] = NoRecord
      /\ RecordsIn(graphCall'[c], what) = {} /\ RecordsIn(k, what) = Recs({do}, what)
      /\ \A how \in {"put", "drop"} : EntriesIn(k, how, what) = Ents({do}, how, what) \cup EntriesIn(graphCall'[c], how, what)
      /\ what \in graphCall'[c].on => graphCall'[c].op = k.op
      /\ what \notin graphCall'[c].on => EntriesIn(graphCall'[c], "put", what) = {}
  <2>1. do = Head(graphCall[c].todo) /\ what = About(do) /\ ~ToCome(Head(graphCall[c].todo)) /\ graphCall[c].todo # << >>
      BY <1>1, <1>4 DEF k, do, what
  <2>2. HeadOf(c, graphCall, graphCall', do, what)
      BY <1>2, <1>3, <2>1, HeadOnSubject
  <2> QED BY <1>1, <2>2 DEF HeadOf, k
<1>6. Recs({do}, what) = {do[3]} /\ \A how \in {"put", "drop"} : Ents({do}, how, what) = {}
    BY <1>1, <1>5, ItemSays DEF what
<1>7. /\ do[1] = "node" => do[2] \in NodeId /\ do[3] \in GraphNode \cup {NoRecord}
      /\ do[1] = "edge" => do[2] \in EdgeId /\ do[3] \in GraphEdge \cup {NoRecord}
  <2>1. do[3] \in RecordType(what) \cup {NoRecord}
      BY <1>1, <1>5, ItemKinds DEF what
  <2>2. what[1] = do[1] /\ what[2] = do[2]
      BY <1>4
  <2> QED BY <1>5, <2>1, <2>2, SubjectKinds DEF RecordType
<1>8. GraphTypeOK'
  <2>1. nodeAt' \in [NodeId -> GraphNode \cup {NoRecord}] /\ edgeAt' \in [EdgeId -> GraphEdge \cup {NoRecord}]
      BY <1>1, <1>3, <1>7 DEF GraphTypeOK
  <2>2. graphCall' \in [GraphClient -> [op : {"none", "add", "delete"}, on : SUBSET Subject, todo : Seq(GraphItem)]]
      BY <1>2 DEF TailsTo, Call
  <2> QED BY <1>1, <1>3, <2>1, <2>2 DEF GraphTypeOK
<1>9. ASSUME NEW w \in Subject
      PROVE  ListedAt(w)' = ListedAt(w) /\ RecordAt(w)' = IF w = what THEN do[3] ELSE RecordAt(w)
  <2>1. ListedAt(w)' = ListedAt(w)
      BY <1>1 DEF ListedAt
  <2>2. w = <<w[1], w[2]>> /\ ((w[1] = "node" /\ w[2] \in NodeId) \/ (w[1] = "edge" /\ w[2] \in EdgeId))
      BY SubjectKinds
  <2>3. w = what <=> w[1] = do[1] /\ w[2] = do[2]
      BY <1>4, <2>2
  <2>4. CASE do[1] = "node"
      BY <1>1, <1>3, <1>7, <2>1, <2>2, <2>3, <2>4 DEF RecordAt, GraphTypeOK
  <2>5. CASE do[1] = "edge"
      BY <1>1, <1>3, <1>7, <2>1, <2>2, <2>3, <2>5 DEF RecordAt, GraphTypeOK
  <2> QED BY <1>1, <2>4, <2>5
<1>10. /\ graphCall' \in [GraphClient -> Call] /\ \A d \in GraphClient \ {c} : graphCall'[d] = graphCall[d]
       /\ \A d \in GraphClient : CallFormed(graphCall'[d])
    BY <1>2 DEF TailsTo
<1>11. ASSUME NEW w \in Subject, SettledIn(w, RecordAt(w), ListedAt(w), graphCall)
       PROVE  SettledIn(w, RecordAt(w)', ListedAt(w)', graphCall')
  <2>1. CASE w # what
    <3>1. SettledIn(w, RecordAt(w), ListedAt(w), graphCall')
        BY <1>1, <1>2, <1>3, <1>11, <2>1, OtherStays DEF TailsTo, k, do, what
    <3> QED BY <1>9, <2>1, <3>1
  <2>2. CASE w = what /\ k.op = "add"
    <3> DEFINE rec == RecordAt(w)
               listed == ListedAt(w)
               puts == EntriesIn(k, "put", w)
    <3>1. AddingIn(w, rec, listed, {do[3]}, puts) /\ \A d \in GraphClient : w \in graphCall[d].on => d = c
        BY <1>5, <1>6, <1>11, <2>2 DEF SettledIn, k
    <3> HIDE DEF rec, listed, puts
    <3>2. PICK r \in {do[3]} \cup {rec} :
              /\ r # NoRecord /\ {do[3]} = {r} /\ puts = EntriesFor(w, r)
              /\ rec \in {NoRecord, r} /\ listed = EntriesFor(w, rec)
        BY <3>1 DEF AddingIn
    <3>3. r = do[3] /\ listed \cup puts = EntriesFor(w, r)
        BY <3>2 DEF EntriesFor
    <3>4. puts = EntriesIn(graphCall'[c], "put", w)
        BY <1>5, <1>6, <2>2 DEF puts
    <3>5. \A d \in GraphClient \ {c} : w \notin graphCall'[d].on
        BY <1>10, <3>1
    <3>6. SettledIn(w, do[3], listed, graphCall')
        BY <1>5, <2>2, <3>2, <3>3, <3>4, <3>5, AdditionGoes
    <3> QED BY <1>9, <2>2, <3>6 DEF listed
  <2>3. CASE w = what /\ k.op = "delete"
    <3>1. /\ \A d \in GraphClient : graphCall[d].op = "add" => w \notin graphCall[d].on
          /\ DeletingIn(w, RecordAt(w), ListedAt(w), graphCall)
        BY <1>5, <1>11, <2>3, DeletesAlone DEF k
    <3>2. ListedAt(w) \subseteq UNION {EntriesIn(graphCall[d], "drop", w) : d \in GraphClient}
        BY <1>5, <2>3, <3>1 DEF DeletingIn, k
    <3>3. \A d \in GraphClient : EntriesIn(graphCall'[d], "drop", w) = EntriesIn(graphCall[d], "drop", w)
        BY <1>5, <1>6, <1>10, <2>3 DEF k
    <3>4. ListedAt(w) \subseteq UNION {EntriesIn(graphCall'[d], "drop", w) : d \in GraphClient}
        BY <3>2, <3>3
    <3>5. \A d \in GraphClient : graphCall'[d].op = "add" => w \notin graphCall'[d].on
        BY <1>5, <1>10, <2>3, <3>1
    <3>6. SettledIn(w, NoRecord, ListedAt(w), graphCall')
        BY <3>4, <3>5, DeletionGoes
    <3> QED BY <1>5, <1>9, <2>3, <3>6
  <2> QED BY <1>5, <2>1, <2>2, <2>3
<1> QED BY <1>1, <1>8, <1>10, <1>11, SettlesThen

\* WriteEntry keeps the invariant.
LEMMA WriteEntryKeeps == ASSUME GraphInv, NEW c \in GraphClient, WriteEntry(c) PROVE GraphInv'
<1> DEFINE k == graphCall[c]
           do == Head(k.todo)
           what == About(do)
<1>1. /\ k.todo # << >> /\ do[1] \in {"put", "drop"} /\ GoOn(c, {}, Rest(c)) /\ UNCHANGED <<nodeAt, edgeAt, torn, stale>>
      /\ do[1] = "put" => graphIndex' = graphIndex \cup {do[2]}
      /\ do[1] = "drop" => graphIndex' = graphIndex \ {do[2]}
    BY DEF WriteEntry, Ready
<1>2. TailsTo(c, graphCall, graphCall')
    BY <1>1, GoesOn
<1>3. GraphTypeOK /\ graphCall \in [GraphClient -> Call] /\ \A d \in GraphClient : CallFormed(graphCall[d])
    BY GraphParts DEF GraphInv
<1> HIDE DEF k, do, what
<1>4. ~ToCome(do) /\ what = SubjectOf(do[2])
    BY <1>1 DEF ToCome, About, what
<1>5. /\ what \in Subject /\ what \in k.on /\ k.op \in {"add", "delete"} /\ do \in GraphItem
      /\ k.op = "add" => do[1] = "put"
      /\ k.op = "delete" => do[1] = "drop"
      /\ RecordsIn(graphCall'[c], what) = {} /\ RecordsIn(k, what) = Recs({do}, what)
      /\ \A how \in {"put", "drop"} : EntriesIn(k, how, what) = Ents({do}, how, what) \cup EntriesIn(graphCall'[c], how, what)
      /\ what \in graphCall'[c].on => graphCall'[c].op = k.op
      /\ what \notin graphCall'[c].on => EntriesIn(graphCall'[c], "put", what) = {}
  <2>1. do = Head(graphCall[c].todo) /\ what = About(do) /\ ~ToCome(Head(graphCall[c].todo)) /\ graphCall[c].todo # << >>
      BY <1>1, <1>4 DEF k, do, what
  <2>2. HeadOf(c, graphCall, graphCall', do, what)
      BY <1>2, <1>3, <2>1, HeadOnSubject
  <2> QED BY <1>1, <2>2 DEF HeadOf, k
<1>6. Recs({do}, what) = {} /\ Ents({do}, do[1], what) = {do[2]}
    BY <1>1, <1>5, ItemSays DEF what
<1>7. do[2] \in GraphEntry
    BY <1>1, <1>5, ItemKinds
<1>8. GraphTypeOK'
  <2>1. graphIndex' \subseteq GraphEntry
      BY <1>1, <1>3, <1>7 DEF GraphTypeOK
  <2>2. graphCall' \in [GraphClient -> [op : {"none", "add", "delete"}, on : SUBSET Subject, todo : Seq(GraphItem)]]
      BY <1>2 DEF TailsTo, Call
  <2> QED BY <1>1, <1>3, <2>1, <2>2 DEF GraphTypeOK
<1>9. ASSUME NEW w \in Subject
      PROVE  /\ RecordAt(w)' = RecordAt(w)
             /\ w # what => ListedAt(w)' = ListedAt(w)
             /\ w = what /\ do[1] = "put" => ListedAt(w)' = ListedAt(w) \cup {do[2]}
             /\ w = what /\ do[1] = "drop" => ListedAt(w)' = ListedAt(w) \ {do[2]}
  <2>1. RecordAt(w)' = RecordAt(w)
      BY <1>1 DEF RecordAt
  <2>2. CASE do[1] = "put"
      BY <1>1, <1>4, <2>1, <2>2 DEF ListedAt
  <2>3. CASE do[1] = "drop"
      BY <1>1, <1>4, <2>1, <2>3 DEF ListedAt
  <2> QED BY <1>1, <2>2, <2>3
<1>10. /\ graphCall' \in [GraphClient -> Call] /\ \A d \in GraphClient \ {c} : graphCall'[d] = graphCall[d]
       /\ \A d \in GraphClient : CallFormed(graphCall'[d])
    BY <1>2 DEF TailsTo
<1>11. ASSUME NEW w \in Subject, SettledIn(w, RecordAt(w), ListedAt(w), graphCall)
       PROVE  SettledIn(w, RecordAt(w)', ListedAt(w)', graphCall')
  <2>1. CASE w # what
    <3>1. SettledIn(w, RecordAt(w), ListedAt(w), graphCall')
        BY <1>1, <1>2, <1>3, <1>11, <2>1, OtherStays DEF TailsTo, k, do, what
    <3> QED BY <1>9, <2>1, <3>1
  <2>2. CASE w = what /\ k.op = "add"
    <3> DEFINE rec == RecordAt(w)
               listed == ListedAt(w)
               puts == EntriesIn(k, "put", w)
               later == EntriesIn(graphCall'[c], "put", w)
    <3>1. AddingIn(w, rec, listed, {}, puts) /\ \A d \in GraphClient : w \in graphCall[d].on => d = c
        BY <1>5, <1>6, <1>11, <2>2 DEF SettledIn, k
    <3>2. puts = {do[2]} \cup later
        BY <1>5, <1>6, <2>2
    <3> HIDE DEF rec, listed, puts, later
    <3>3. rec # NoRecord /\ listed \cup puts = EntriesFor(w, rec)
        BY <3>1 DEF AddingIn
    <3>4. (listed \cup {do[2]}) \cup later = EntriesFor(w, rec)
        BY <3>2, <3>3
    <3>5. \A d \in GraphClient \ {c} : w \notin graphCall'[d].on
        BY <1>10, <3>1
    <3>6. SettledIn(w, rec, listed \cup {do[2]}, graphCall')
        BY <1>5, <2>2, <3>3, <3>4, <3>5, AdditionGoes DEF later
    <3> QED BY <1>5, <1>9, <2>2, <3>6 DEF listed, rec
  <2>3. CASE w = what /\ k.op = "delete"
    <3>1. /\ \A d \in GraphClient : graphCall[d].op = "add" => w \notin graphCall[d].on
          /\ DeletingIn(w, RecordAt(w), ListedAt(w), graphCall)
        BY <1>5, <1>11, <2>3, DeletesAlone DEF k
    <3>2. RecordAt(w) = NoRecord /\ ListedAt(w) \subseteq UNION {EntriesIn(graphCall[d], "drop", w) : d \in GraphClient}
        BY <1>5, <1>6, <2>3, <3>1 DEF DeletingIn, k
    <3>3. \A d \in GraphClient : EntriesIn(graphCall[d], "drop", w) \subseteq {do[2]} \cup EntriesIn(graphCall'[d], "drop", w)
        BY <1>5, <1>6, <1>10, <2>3 DEF k
    <3>4. ListedAt(w) \ {do[2]} \subseteq UNION {EntriesIn(graphCall'[d], "drop", w) : d \in GraphClient}
        BY <3>2, <3>3
    <3>5. \A d \in GraphClient : graphCall'[d].op = "add" => w \notin graphCall'[d].on
        BY <1>5, <1>10, <2>3, <3>1
    <3>6. SettledIn(w, NoRecord, ListedAt(w) \ {do[2]}, graphCall')
        BY <3>4, <3>5, DeletionGoes
    <3> QED BY <1>5, <1>9, <2>3, <3>2, <3>6
  <2> QED BY <1>5, <2>1, <2>2, <2>3
<1> QED BY <1>1, <1>8, <1>10, <1>11, SettlesThen

\* GraphFault keeps the invariant: what the call touches is torn.
LEMMA GraphFaultKeeps == ASSUME GraphInv, NEW c \in GraphClient, GraphFault(c) PROVE GraphInv'
<1> DEFINE k == graphCall[c]
           next == graphCall'[c]
           none == {}
<1>1. /\ k.todo # << >> /\ torn' = torn \cup k.on /\ UNCHANGED <<nodeAt, edgeAt, graphIndex, stale>>
      /\ GoOn(c, none, IF k.op = "add" THEN << >> ELSE Rest(c))
    BY DEF GraphFault
<1>2. k \in Call /\ CallFormed(k) /\ k.on \subseteq Subject /\ Rest(c) = Tail(k.todo) /\ Rest(c) \in Seq(GraphItem)
    BY <1>1, CallUnderWay
<1>3. GraphTypeOK /\ \A d \in GraphClient : CallFormed(graphCall[d])
    BY DEF GraphInv
<1> DEFINE todo == IF k.op = "add" THEN << >> ELSE Rest(c)
<1>4. /\ graphCall' \in [GraphClient -> [op : {"none", "add", "delete"}, on : SUBSET Subject, todo : Seq(GraphItem)]]
      /\ next.todo = todo /\ next.op = (IF todo = << >> THEN "none" ELSE k.op)
      /\ next.on = (IF todo = << >> THEN {} ELSE k.on \cup none)
      /\ \A d \in GraphClient \ {c} : graphCall'[d] = graphCall[d]
  <2>1. todo \in Seq(GraphItem) /\ none \in SUBSET Subject
      BY <1>2
  <2>2. GoOn(c, none, todo)
      BY <1>1
  <2> HIDE DEF todo, none
  <2> QED BY <1>3, <2>1, <2>2, CallGoesOn
<1>5. next \in Call /\ graphCall' \in [GraphClient -> Call]
    BY <1>4 DEF Call
<1>6. CallFormed(next) /\ next.on \subseteq k.on
  <2> HIDE DEF k, next
  <2>1. next.on = (IF todo = << >> THEN {} ELSE k.on)
      BY <1>4
  <2>2. CASE k.op = "add"
    <3>1. todo = << >>
        BY <2>2
    <3> HIDE DEF todo
    <3>2. next.todo = << >> /\ next.op = "none" /\ next.on = {} /\ ToSet(next.todo) = {}
        BY <1>4, <2>1, <3>1, EmptyList
    <3>3. InOrder(next.todo)
        BY <3>2 DEF InOrder
    <3> QED BY <1>5, <3>2, <3>3, FormedOf
  <2>3. CASE k.op # "add"
    <3>1. todo = Tail(k.todo)
        BY <1>2, <2>3
    <3> HIDE DEF todo
    <3> QED BY <1>1, <1>2, <1>4, <1>5, <2>1, <3>1, FormedTail
  <2> QED BY <2>2, <2>3
<1> HIDE DEF todo, next
<1>7. ASSUME NEW d \in GraphClient PROVE CallFormed(graphCall'[d])
    BY <1>3, <1>4, <1>6 DEF next
<1>8. ASSUME NEW w \in Subject, w \notin torn' \cup stale', SettledIn(w, RecordAt(w), ListedAt(w), graphCall)
      PROVE  SettledIn(w, RecordAt(w)', ListedAt(w)', graphCall')
  <2>1. RecordAt(w)' = RecordAt(w) /\ ListedAt(w)' = ListedAt(w)
      BY <1>1, StoreSame
  <2>2. w \notin graphCall[c].on /\ w \notin graphCall'[c].on
      BY <1>1, <1>6, <1>8 DEF next
  <2>3. SettledIn(w, RecordAt(w), ListedAt(w), graphCall')
      BY <1>2, <1>4, <1>5, <1>6, <1>8, <2>2, UntouchedStays DEF next
  <2> QED BY <2>1, <2>3
<1>9. GraphTypeOK'
    BY <1>1, <1>3, <1>4 DEF GraphTypeOK
<1> QED BY <1>1, <1>7, <1>8, <1>9, SettlesThen

\* A whole subject that nobody touches is settled.
LEMMA WholeSettles ==
    ASSUME NEW what, NEW rec, NEW calls, \A c \in GraphClient : what \notin calls[c].on
    PROVE  SettledIn(what, rec, EntriesFor(what, rec), calls)
<1>1. DeletingIn(what, rec, EntriesFor(what, rec), calls)
    BY DEF DeletingIn, EntriesFor
<1> QED BY <1>1 DEF SettledIn

\* GraphCrash keeps the invariant: what was touched is torn, and the rest is whole.
LEMMA GraphCrashKeeps == ASSUME GraphInv, GraphCrash PROVE GraphInv'
<1>1. /\ torn' = torn \cup UNION {graphCall[c].on : c \in GraphClient} /\ graphCall' = [c \in GraphClient |-> NoGraphCall]
      /\ UNCHANGED <<nodeAt, edgeAt, graphIndex, stale>>
    BY DEF GraphCrash
<1>2. GraphTypeOK /\ graphCall \in [GraphClient -> Call] /\ \A d \in GraphClient : CallFormed(graphCall[d])
    BY GraphParts DEF GraphInv
<1>3. \A d \in GraphClient : graphCall'[d] \in Call /\ CallFormed(graphCall'[d]) /\ graphCall'[d].on = {}
    BY <1>1, EndedCall
<1>4. GraphTypeOK'
  <2>1. graphCall' \in [GraphClient -> [op : {"none", "add", "delete"}, on : SUBSET Subject, todo : Seq(GraphItem)]]
      BY <1>1, EndedCall DEF Call
  <2> QED BY <1>1, <1>2, <2>1 DEF GraphTypeOK
<1>5. ASSUME NEW w \in Subject, w \notin torn' \cup stale', SettledIn(w, RecordAt(w), ListedAt(w), graphCall)
      PROVE  SettledIn(w, RecordAt(w)', ListedAt(w)', graphCall')
  <2>1. RecordAt(w)' = RecordAt(w) /\ ListedAt(w)' = ListedAt(w)
      BY <1>1, StoreSame
  <2>2. \A c \in GraphClient : CallFormed(graphCall[c]) /\ w \notin graphCall[c].on
      BY <1>1, <1>2, <1>5
  <2>3. ListedAt(w) = EntriesFor(w, RecordAt(w))
      BY <1>2, <1>5, <2>2, Quiet
  <2>4. SettledIn(w, RecordAt(w), EntriesFor(w, RecordAt(w)), graphCall')
      BY <1>3, WholeSettles
  <2> QED BY <2>1, <2>3, <2>4
<1> QED BY <1>1, <1>3, <1>4, <1>5, SettlesThen

\* Steps that write none of this keep the invariant.
LEMMA GraphSame == ASSUME GraphInv, UNCHANGED <<nodeAt, edgeAt, graphIndex, graphCall, torn, stale>> PROVE GraphInv'
<1>1. GraphTypeOK'
    BY DEF GraphInv, GraphTypeOK
<1>2. ASSUME NEW w \in Subject, SettledIn(w, RecordAt(w), ListedAt(w), graphCall)
      PROVE  SettledIn(w, RecordAt(w)', ListedAt(w)', graphCall')
  <2>1. RecordAt(w)' = RecordAt(w) /\ ListedAt(w)' = ListedAt(w)
      BY StoreSame
  <2> QED BY <1>2, <2>1
<1>3. \A c \in GraphClient : CallFormed(graphCall'[c])
    BY DEF GraphInv
<1> QED BY <1>1, <1>2, <1>3, SettlesThen

\* A whole graph has the entries of its records.
LEMMA WholeGraph ==
    ASSUME NEW nodes0 \in [NodeId -> GraphNode \cup {NoRecord}], NEW edges0 \in [EdgeId -> GraphEdge \cup {NoRecord}],
           GraphInit(nodes0, edges0)
    PROVE  GraphInv
<1>1. /\ nodeAt = nodes0 /\ edgeAt = edges0 /\ graphCall = [c \in GraphClient |-> NoGraphCall]
      /\ graphIndex = (UNION {ToSet(NodeEntries(n, nodes0[n])) : n \in {m \in NodeId : nodes0[m] # NoRecord}}) \cup
                      (UNION {ToSet(EdgeEntries(e, edges0[e])) : e \in {f \in EdgeId : edges0[f] # NoRecord}})
    BY DEF GraphInit
<1> DEFINE ofNodes == UNION {ToSet(NodeEntries(n, nodes0[n])) : n \in {m \in NodeId : nodes0[m] # NoRecord}}
           ofEdges == UNION {ToSet(EdgeEntries(e, edges0[e])) : e \in {f \in EdgeId : edges0[f] # NoRecord}}
<1>12. graphIndex = ofNodes \cup ofEdges
    BY <1>1
<1>10. /\ \A x \in ofNodes : \E n \in NodeId : nodes0[n] # NoRecord /\ x \in ToSet(NodeEntries(n, nodes0[n]))
       /\ \A n \in NodeId : nodes0[n] # NoRecord => ToSet(NodeEntries(n, nodes0[n])) \subseteq ofNodes
    OBVIOUS
<1>11. /\ \A x \in ofEdges : \E e \in EdgeId : edges0[e] # NoRecord /\ x \in ToSet(EdgeEntries(e, edges0[e]))
       /\ \A e \in EdgeId : edges0[e] # NoRecord => ToSet(EdgeEntries(e, edges0[e])) \subseteq ofEdges
    OBVIOUS
<1> HIDE DEF ofNodes, ofEdges
<1>2. \A c \in GraphClient : graphCall[c] \in Call /\ CallFormed(graphCall[c]) /\ graphCall[c].on = {}
    BY <1>1, EndedCall
<1>3. ASSUME NEW what \in Subject PROVE RecordAt(what) \in RecordType(what) \cup {NoRecord}
  <2>1. CASE what[1] = "node" /\ what[2] \in NodeId
      BY <1>1, <2>1 DEF RecordAt, RecordType
  <2>2. CASE what[1] = "edge" /\ what[2] \in EdgeId
      BY <1>1, <2>2 DEF RecordAt, RecordType
  <2> QED BY <2>1, <2>2, SubjectKinds
<1>4. ASSUME NEW x \in graphIndex PROVE \E what \in Subject : x \in EntriesFor(what, RecordAt(what))
  <2>1. CASE x \in ofNodes
    <3>1. PICK n \in NodeId : nodes0[n] # NoRecord /\ x \in ToSet(NodeEntries(n, nodes0[n]))
        BY <1>10, <2>1
    <3> DEFINE what == <<"node", n>>
    <3>2. what \in Subject /\ what[1] = "node" /\ what[2] = n /\ RecordAt(what) = nodes0[n]
        BY <1>1 DEF Subject, RecordAt
    <3> HIDE DEF what
    <3>3. x \in EntriesFor(what, RecordAt(what))
        BY <3>1, <3>2 DEF EntriesFor
    <3> QED BY <3>2, <3>3
  <2>2. CASE x \in ofEdges
    <3>1. PICK e \in EdgeId : edges0[e] # NoRecord /\ x \in ToSet(EdgeEntries(e, edges0[e]))
        BY <1>11, <2>2
    <3> DEFINE what == <<"edge", e>>
    <3>2. what \in Subject /\ what[1] = "edge" /\ what[2] = e /\ RecordAt(what) = edges0[e]
        BY <1>1 DEF Subject, RecordAt
    <3> HIDE DEF what
    <3>3. x \in EntriesFor(what, RecordAt(what))
        BY <3>1, <3>2 DEF EntriesFor
    <3> QED BY <3>2, <3>3
  <2> QED BY <1>12, <2>1, <2>2
<1>5. ASSUME NEW what \in Subject PROVE EntriesFor(what, RecordAt(what)) \subseteq graphIndex
  <2>1. CASE what[1] = "node" /\ what[2] \in NodeId
    <3>1. RecordAt(what) = nodes0[what[2]]
        BY <1>1, <2>1 DEF RecordAt
    <3>2. CASE nodes0[what[2]] # NoRecord
      <4>1. EntriesFor(what, RecordAt(what)) = ToSet(NodeEntries(what[2], nodes0[what[2]]))
          BY <2>1, <3>1, <3>2 DEF EntriesFor
      <4> QED BY <1>10, <1>12, <2>1, <3>2, <4>1
    <3>3. CASE nodes0[what[2]] = NoRecord
        BY <3>1, <3>3 DEF EntriesFor
    <3> QED BY <3>2, <3>3
  <2>2. CASE what[1] = "edge" /\ what[2] \in EdgeId
    <3>1. RecordAt(what) = edges0[what[2]]
        BY <1>1, <2>2 DEF RecordAt
    <3>2. CASE edges0[what[2]] # NoRecord
      <4>1. EntriesFor(what, RecordAt(what)) = ToSet(EdgeEntries(what[2], edges0[what[2]]))
          BY <2>2, <3>1, <3>2 DEF EntriesFor
      <4> QED BY <1>11, <1>12, <2>2, <3>2, <4>1
    <3>3. CASE edges0[what[2]] = NoRecord
        BY <3>1, <3>3 DEF EntriesFor
    <3> QED BY <3>2, <3>3
  <2> QED BY <2>1, <2>2, SubjectKinds
<1>6. ASSUME NEW what \in Subject, NEW x \in EntriesFor(what, RecordAt(what)) PROVE x \in GraphEntry /\ SubjectOf(x) = what
    BY <1>3, <1>6, EntriesOwn
<1>7. ASSUME NEW what \in Subject PROVE ListedAt(what) = EntriesFor(what, RecordAt(what))
  <2>1. ASSUME NEW x \in ListedAt(what) PROVE x \in EntriesFor(what, RecordAt(what))
    <3>1. x \in graphIndex /\ SubjectOf(x) = what
        BY <2>1 DEF ListedAt
    <3>2. PICK w \in Subject : x \in EntriesFor(w, RecordAt(w))
        BY <1>4, <3>1
    <3>3. w = what
        BY <1>6, <3>1, <3>2
    <3> QED BY <3>2, <3>3
  <2>2. ASSUME NEW x \in EntriesFor(what, RecordAt(what)) PROVE x \in ListedAt(what)
      BY <1>5, <1>6, <2>2 DEF ListedAt
  <2> QED BY <2>1, <2>2
<1>8. EntriesSettle
  <2>1. ASSUME NEW what \in Subject PROVE SettledAt(what)
    <3>1. SettledIn(what, RecordAt(what), EntriesFor(what, RecordAt(what)), graphCall)
        BY <1>2, WholeSettles
    <3> QED BY <1>7, <3>1, SettledAs
  <2> QED BY <2>1 DEF EntriesSettle
<1>9. GraphTypeOK
  <2>1. graphIndex \subseteq GraphEntry
      BY <1>4, <1>6
  <2>2. graphCall \in [GraphClient -> [op : {"none", "add", "delete"}, on : SUBSET Subject, todo : Seq(GraphItem)]]
      BY <1>1, EndedCall DEF Call
  <2> QED BY <1>1, <2>1, <2>2 DEF GraphTypeOK
<1> QED BY <1>2, <1>8, <1>9 DEF GraphInv

-----------------------------------------------------------------------------
(* The graph and its entries.                                              *)

\* At every step, each node and edge that is not torn or stale is being added by one call that
\* puts the entries of its record, or is whole, or is gone but for entries that deletions will drop:
\* AddNode, AddEdge, DeleteNode and DeleteEdge, failing and interrupted, in any number at a time.
THEOREM GraphHolds == GraphSpec => []GraphInv
<1>1. ASSUME NEW nodes0 \in [NodeId -> GraphNode \cup {NoRecord}], NEW edges0 \in [EdgeId -> GraphEdge \cup {NoRecord}],
             GraphInit(nodes0, edges0)
      PROVE  GraphInv
    BY <1>1, WholeGraph
<1>2. GraphInv /\ [GraphWriteNext]_graphStored => GraphInv'
  <2> SUFFICES ASSUME GraphInv, [GraphWriteNext]_graphStored PROVE GraphInv'
      OBVIOUS
  <2>1. ASSUME NEW c \in GraphClient, GraphStep(c) PROVE GraphInv'
      BY <2>1, ListEdgesKeeps, ReadEdgeKeeps, WriteRecordKeeps, WriteEntryKeeps, GraphFaultKeeps DEF GraphStep
  <2>2. ASSUME NEW c \in GraphClient, NEW n \in NodeId, DeleteNode(c, n) \/ \E node \in GraphNode : AddNode(c, n, node) PROVE GraphInv'
      BY <2>2, DeleteNodeKeeps, AddNodeKeeps
  <2>3. ASSUME NEW c \in GraphClient, NEW e \in EdgeId, DeleteEdge(c, e) \/ \E edge \in GraphEdge : AddEdge(c, e, edge) PROVE GraphInv'
      BY <2>3, DeleteEdgeKeeps, AddEdgeKeeps
  <2>4. CASE GraphCrash
      BY <2>4, GraphCrashKeeps
  <2>5. ASSUME NEW d, NEW sources, Record(d, sources) PROVE GraphInv'
      BY <2>5, GraphSame DEF Record
  <2>6. CASE UNCHANGED graphStored
      BY <2>6, GraphSame DEF graphStored
  <2> QED BY <2>1, <2>2, <2>3, <2>4, <2>5, <2>6 DEF GraphWriteNext, GraphWrite
<1>3. (\E nodes0 \in [NodeId -> GraphNode \cup {NoRecord}], edges0 \in [EdgeId -> GraphEdge \cup {NoRecord}] :
          GraphInit(nodes0, edges0)) => GraphInv
    BY <1>1
<1> QED BY <1>2, <1>3, PTL DEF GraphSpec

\* Every entry of a record that is not being written is there, and no entry is of another record or
\* of none, for any graph, any number of clients, and whatever fails: the indexes that AddNode, AddEdge,
\* DeleteNode and DeleteEdge write one entry at a time.
THEOREM EntriesFollowRecords == GraphSpec => []GraphIndexed
<1>1. GraphInv => GraphIndexed
  <2> SUFFICES ASSUME GraphInv, NEW what \in Subject, what \notin torn \cup stale, ~Touching(what)
               PROVE  ListedAt(what) = EntriesFor(what, RecordAt(what))
      BY DEF GraphIndexed
  <2>1. SettledIn(what, RecordAt(what), ListedAt(what), graphCall)
      BY SettledAs DEF GraphInv, EntriesSettle
  <2>2. graphCall \in [GraphClient -> Call] /\ \A c \in GraphClient : CallFormed(graphCall[c]) /\ what \notin graphCall[c].on
      BY GraphParts DEF GraphInv, Touching
  <2> QED BY <2>1, <2>2, Quiet
<1> QED BY <1>1, GraphHolds, PTL
=============================================================================
