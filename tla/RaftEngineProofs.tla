-------------------------- MODULE RaftEngineProofs --------------------------
(***************************************************************************)
(* Proofs about RaftEngine: what a node answers reads from is what the log *)
(* says, over any number of crashes, replays and failed starts.            *)
(*                                                                         *)
(* A key and a peer are followed in the same way. Of the commands, X are   *)
(* the indices of those that write to the key or change the peer and v     *)
(* what each of them makes of it; w is what the node holds. The lemmas     *)
(* about Follows say what a step makes of that, whatever X, v and w are.   *)
(***************************************************************************)
EXTENDS RaftEngine, WellFoundedInduction, SequenceTheorems, TLAPS

USE RaftEngineAssumption

-----------------------------------------------------------------------------
(* The last of a set of indices.                                           *)

\* A non-empty set of naturals up to a bound has a greatest element.
LEMMA GreatestIndex ==
    ASSUME NEW N \in Nat, NEW S, S \subseteq 0..N, S # {}
    PROVE  \E x \in S : \A y \in S : y <= x
<1> DEFINE T == {N - x : x \in S}
<1>1. T \subseteq Nat /\ T # {}
  <2>1. \A x \in S : N - x \in Nat
      OBVIOUS
  <2> QED BY <2>1
<1>2. PICK t \in T : \A u \in T : <<u, t>> \notin OpToRel(<, Nat)
    BY <1>1, NatLessThanWellFounded, WFMin
<1>3. \A u \in T : ~(u < t)
    BY <1>1, <1>2, Zenon DEF OpToRel
<1>4. PICK x \in S : t = N - x
    BY <1>2
<1>5. \A y \in S : N - y \in T
    OBVIOUS
<1> HIDE DEF T
<1>6. ASSUME NEW y \in S PROVE y <= x
  <2>1. ~(N - y < N - x) /\ x \in 0..N /\ y \in 0..N
      BY <1>3, <1>4, <1>5
  <2> QED BY <2>1
<1> QED BY <1>6

\* LastOf picks the greatest one.
LEMMA MaxIs ==
    ASSUME NEW S, S \subseteq Nat, NEW x \in S, \A y \in S : y <= x
    PROVE  Max(S) = x
<1>1. \A z \in S : (\A y \in S : z >= y) => z = x
  <2> SUFFICES ASSUME NEW z \in S, \A y \in S : z >= y PROVE z = x
      OBVIOUS
  <2>1. z \in Nat /\ x \in Nat /\ z >= x /\ z <= x
      OBVIOUS
  <2> QED BY <2>1
<1>2. \A y \in S : x >= y
    OBVIOUS
<1> QED BY <1>1, <1>2 DEF Max

-----------------------------------------------------------------------------
(* Following one key or peer.                                              *)

\* What the log makes of it: E are the indices that had their effect.
Logged(X, v, first, E) == IF X \cap E = {} THEN first ELSE v[Max(X \cap E)]

\* ValuesFollow and PeersFollow of one key or peer, with appliedTo = a, commitTo = c and
\* replayed = r.
Follows(phase, X, v, first, E, a, c, r, w) ==
    /\ phase = "ready" \/ X \cap (a + 1)..c = {} => w = Logged(X, v, first, E)
    /\ phase = "starting" => \A i \in X \cap (a + 1)..r : X \cap (i + 1)..r = {} => w = v[i]

\* More is committed: what a log without the new index says stays.
LEMMA FollowsLonger ==
    ASSUME NEW phase, NEW X, NEW v, NEW X2, NEW v2, NEW first, NEW E, NEW w,
           NEW len \in Nat, NEW a \in Nat, NEW c \in 0..len, NEW r \in Nat,
           phase = "starting" => r <= len,
           X \subseteq 1..len, E \subseteq 1..len, X2 \cap 1..len = X,
           \A i \in X : v2[i] = v[i],
           Follows(phase, X, v, first, E, a, c, r, w)
    PROVE  Follows(phase, X2, v2, first, E, a, c, r, w)
<1>1. X2 \cap E = X \cap E /\ X2 \cap (a + 1)..c = X \cap (a + 1)..c
  <2>1. (a + 1)..c \subseteq 1..len
      OBVIOUS
  <2>2. \A S \in SUBSET 1..len : X2 \cap S = X \cap S
      OBVIOUS
  <2> QED BY <2>1, <2>2
<1>2. X \cap E # {} => Max(X \cap E) \in X
  <2> SUFFICES ASSUME X \cap E # {} PROVE Max(X \cap E) \in X
      OBVIOUS
  <2>1. X \cap E \subseteq 0..len
      OBVIOUS
  <2>2. PICK x \in X \cap E : \A y \in X \cap E : y <= x
      BY <2>1, GreatestIndex
  <2>3. Max(X \cap E) = x
      BY <2>1, <2>2, MaxIs
  <2> QED BY <2>3
<1>3. Logged(X2, v2, first, E) = Logged(X, v, first, E)
    BY <1>1, <1>2 DEF Logged
<1>4. ASSUME phase = "starting", NEW i \in X2 \cap (a + 1)..r, X2 \cap (i + 1)..r = {}
      PROVE  w = v2[i]
  <2>1. i \in X /\ X \cap (i + 1)..r = {}
      BY <1>4
  <2> QED BY <1>4, <2>1 DEF Follows
<1> QED BY <1>1, <1>3, <1>4 DEF Follows

\* doApply does the next index. What that index sets need not have been followed before.
LEMMA FollowsApplied ==
    ASSUME NEW X, NEW v, NEW first, NEW E, NEW w, NEW w2, NEW d \in Nat, NEW a, NEW c, NEW r,
           X \subseteq Nat, E \subseteq 1..(d - 1),
           d \in X \/ Follows("ready", X, v, first, E, a, c, r, w),
           w2 = IF d \in X THEN v[d] ELSE w
    PROVE  Follows("ready", X, v, first, E \cup {d}, a, c, r, w2)
<1>1. CASE d \in X
  <2>1. X \cap (E \cup {d}) \subseteq Nat /\ d \in X \cap (E \cup {d})
      BY <1>1
  <2>2. \A y \in X \cap (E \cup {d}) : y <= d
      OBVIOUS
  <2>3. Max(X \cap (E \cup {d})) = d
      BY <2>1, <2>2, MaxIs
  <2> QED BY <1>1, <2>1, <2>3 DEF Follows, Logged
<1>2. CASE d \notin X
  <2>1. X \cap (E \cup {d}) = X \cap E
      BY <1>2
  <2> QED BY <1>2, <2>1 DEF Follows, Logged
<1> QED BY <1>1, <1>2

\* Indices are taken or learned, or the process ends: nothing is read from them.
LEMMA FollowsIdle ==
    ASSUME NEW phase, NEW X, NEW v, NEW first, NEW E, NEW w, NEW a, NEW c, NEW r,
           Follows(phase, X, v, first, E, a, c, r, w)
    PROVE  /\ phase = "ready" => \A a2, c2, r2, phase2 :
                 phase2 # "starting" => Follows(phase2, X, v, first, E, a2, c2, r2, w)
           /\ Follows("down", X, v, first, E, a, c, r, w)
BY DEF Follows

\* A start begins where the indices were saved.
LEMMA FollowsStarted ==
    ASSUME NEW X, NEW v, NEW first, NEW E, NEW w, NEW a \in Nat, NEW c, NEW r,
           Follows("down", X, v, first, E, a, c, r, w)
    PROVE  Follows("starting", X, v, first, E, a, c, a, w)
<1>1. (a + 1)..a = {}
    OBVIOUS
<1> QED BY <1>1 DEF Follows

\* A start replays the next index, in the same way.
LEMMA FollowsReplayed ==
    ASSUME NEW X, NEW v, NEW first, NEW E, NEW w, NEW w2, NEW a \in Nat, NEW c \in Nat, NEW r \in Nat,
           a <= r, r + 1 <= c, r + 1 \in X \/ Follows("starting", X, v, first, E, a, c, r, w),
           w2 = IF r + 1 \in X THEN v[r + 1] ELSE w
    PROVE  Follows("starting", X, v, first, E, a, c, r + 1, w2)
<1>1. X \cap (a + 1)..c = {} => w2 = Logged(X, v, first, E)
  <2>1. r + 1 \in (a + 1)..c
      OBVIOUS
  <2> QED BY <2>1 DEF Follows
<1>2. ASSUME NEW i \in X \cap (a + 1)..(r + 1), X \cap (i + 1)..(r + 1) = {} PROVE w2 = v[i]
  <2>1. CASE i = r + 1
      BY <2>1
  <2>2. CASE i # r + 1
    <3>1. i \in X \cap (a + 1)..r /\ r + 1 \in (i + 1)..(r + 1)
        BY <2>2
    <3>2. r + 1 \notin X /\ X \cap (i + 1)..r = {}
        BY <1>2, <3>1
    <3> QED BY <3>1, <3>2 DEF Follows
  <2> QED BY <2>1, <2>2
<1> QED BY <1>1, <1>2 DEF Follows

\* A start is through: what it replayed counts as applied.
LEMMA FollowsFinished ==
    ASSUME NEW X, NEW v, NEW first, NEW E, NEW w, NEW a \in Nat, NEW c \in Nat,
           a <= c, X \subseteq Nat, E \subseteq 1..a,
           Follows("starting", X, v, first, E, a, c, c, w)
    PROVE  \A a2, c2, r2 : Follows("ready", X, v, first, E \cup (a + 1)..c, a2, c2, r2, w)
<1> DEFINE W == (a + 1)..c
<1>1. CASE X \cap W = {}
  <2>1. X \cap (E \cup W) = X \cap E
      BY <1>1
  <2> QED BY <1>1, <2>1 DEF Follows, Logged
<1>2. CASE X \cap W # {}
  <2>1. X \cap W \subseteq 0..c
      OBVIOUS
  <2>2. PICK x \in X \cap W : \A y \in X \cap W : y <= x
      BY <1>2, <2>1, GreatestIndex
  <2>3. x \in X \cap (E \cup W) /\ X \cap (E \cup W) \subseteq Nat
      BY <2>2
  <2>4. \A y \in X \cap (E \cup W) : y <= x
      BY <2>2
  <2>5. Max(X \cap (E \cup W)) = x
      BY <2>3, <2>4, MaxIs
  <2>6. X \cap (x + 1)..c = {}
    <3> SUFFICES ASSUME NEW y \in X \cap (x + 1)..c PROVE FALSE
        OBVIOUS
    <3>1. y \in X \cap W
        BY <2>2
    <3> QED BY <2>2, <3>1
  <2>7. w = v[x]
      BY <2>2, <2>6 DEF Follows
  <2> QED BY <2>3, <2>5, <2>7 DEF Follows, Logged
<1> QED BY <1>1, <1>2
-----------------------------------------------------------------------------
(* Keys and peers as what is followed.                                     *)

KeyWrites(k) == {i \in 1..Len(committedCmds) : WritesKey(i, k)}
KeyValues(k) == [i \in KeyWrites(k) |-> committedCmds[i].writes[k]]

KeyFollows(k) ==
    Follows(enginePhase, KeyWrites(k), KeyValues(k), Absent, Effective, appliedTo, commitTo,
            replayed, localState[k])

Standing(in) == IF in THEN "in" ELSE "out"

PeerChanges(p) == {i \in 1..Len(committedCmds) : ChangesPeer(i, p)}
PeerStandings(p) == [i \in PeerChanges(p) |-> Standing(committedCmds[i].type = "add")]

PeerFollows(p) ==
    Follows(enginePhase, PeerChanges(p), PeerStandings(p), Standing(p \in Configured), Effective,
            appliedTo, commitTo, replayed, Standing(p \in peersOf))

\* The indices that had their effect are committed ones.
LEMMA EffectiveBound ==
    ASSUME EngineTypeOK, OpsInOrder
    PROVE  /\ Len(committedCmds) \in Nat /\ appliedTo \in Nat /\ commitTo \in 0..Len(committedCmds)
           /\ appliedTo <= commitTo
           /\ Len(applyOps) \in Nat /\ appliedTo - Len(applyOps) \in Nat
           /\ Effective \subseteq 1..(appliedTo - Len(applyOps))
           /\ Effective \subseteq 1..Len(committedCmds)
<1>1. Len(committedCmds) \in Nat /\ Len(applyOps) \in Nat
    BY LenProperties DEF EngineTypeOK
<1>2. /\ commitTo \in 0..Len(committedCmds) /\ appliedTo \in 0..commitTo
      /\ Len(applyOps) <= appliedTo
    BY DEF EngineTypeOK, OpsInOrder
<1>3. appliedTo - Len(applyOps) \in Nat /\ appliedTo - Len(applyOps) <= Len(committedCmds)
    BY <1>1, <1>2
<1> QED BY <1>1, <1>2, <1>3 DEF Effective

\* What LastOf takes from a set of committed indices is in it.
LEMMA MaxIn ==
    ASSUME NEW N \in Nat, NEW S, S \subseteq 1..N, S # {}
    PROVE  Max(S) \in S
<1>1. S \subseteq 0..N /\ S \subseteq Nat
    OBVIOUS
<1>2. PICK x \in S : \A y \in S : y <= x
    BY <1>1, GreatestIndex
<1>3. Max(S) = x
    BY <1>1, <1>2, MaxIs
<1> QED BY <1>3

\* ValuesFollow says of each key what KeyFollows says in terms of Follows.
LEMMA KeyLink == EngineTypeOK /\ OpsInOrder => (ValuesFollow <=> \A k \in StateKey : KeyFollows(k))
<1> SUFFICES ASSUME EngineTypeOK, OpsInOrder, NEW k \in StateKey
             PROVE  KeyFollows(k) <=>
                    /\ enginePhase = "ready" \/ (\A i \in (appliedTo + 1)..commitTo : ~WritesKey(i, k))
                           => localState[k] = LoggedValue(k)
                    /\ enginePhase = "starting" => \A i \in (appliedTo + 1)..replayed :
                           WritesKey(i, k) /\ (\A j \in (i + 1)..replayed : ~WritesKey(j, k))
                               => localState[k] = committedCmds[i].writes[k]
    BY DEF ValuesFollow
<1> DEFINE X == KeyWrites(k)
           v == KeyValues(k)
<1>1. /\ X \subseteq 1..Len(committedCmds)
      /\ \A i \in 1..Len(committedCmds) : i \in X <=> WritesKey(i, k)
      /\ \A i \in X : v[i] = committedCmds[i].writes[k]
    BY DEF KeyWrites, KeyValues
<1>2. LoggedValue(k) = Logged(X, v, Absent, Effective)
  <2>1. {i \in Effective : k \in DOMAIN committedCmds[i].writes} = X \cap Effective
      BY <1>1, EffectiveBound DEF WritesKey
  <2>2. X \cap Effective # {} => Max(X \cap Effective) \in X
    <3>1. X \cap Effective \subseteq 1..Len(committedCmds)
        BY <1>1
    <3> HIDE DEF X
    <3> QED BY <3>1, EffectiveBound, MaxIn
  <2> QED BY <1>1, <2>1, <2>2 DEF LoggedValue, LastOf, Logged
<1>3. (\A i \in (appliedTo + 1)..commitTo : ~WritesKey(i, k)) <=> X \cap (appliedTo + 1)..commitTo = {}
  <2>1. (appliedTo + 1)..commitTo \subseteq 1..Len(committedCmds)
      BY EffectiveBound
  <2> QED BY <1>1, <2>1
<1>4. ASSUME enginePhase = "starting"
      PROVE  /\ (appliedTo + 1)..replayed \subseteq 1..Len(committedCmds)
             /\ \A i \in (appliedTo + 1)..replayed : (i + 1)..replayed \subseteq 1..Len(committedCmds)
  <2>1. replayed \in Nat /\ appliedTo <= replayed /\ replayed <= commitTo
      BY <1>4 DEF EngineTypeOK, OpsInOrder
  <2> QED BY <2>1, EffectiveBound
<1>5. ASSUME enginePhase = "starting", NEW i \in (appliedTo + 1)..replayed
      PROVE  /\ WritesKey(i, k) <=> i \in X
             /\ (\A j \in (i + 1)..replayed : ~WritesKey(j, k)) <=> X \cap (i + 1)..replayed = {}
    BY <1>1, <1>4, <1>5
<1> HIDE DEF X, v
<1>6. (enginePhase = "ready" \/ (\A i \in (appliedTo + 1)..commitTo : ~WritesKey(i, k))
           => localState[k] = LoggedValue(k))
      <=> (enginePhase = "ready" \/ X \cap (appliedTo + 1)..commitTo = {}
           => localState[k] = Logged(X, v, Absent, Effective))
    BY <1>2, <1>3, Zenon
<1>7. ASSUME enginePhase = "starting"
      PROVE  (\A i \in (appliedTo + 1)..replayed :
                  WritesKey(i, k) /\ (\A j \in (i + 1)..replayed : ~WritesKey(j, k))
                      => localState[k] = committedCmds[i].writes[k])
             <=> (\A i \in X \cap (appliedTo + 1)..replayed :
                      X \cap (i + 1)..replayed = {} => localState[k] = v[i])
    BY <1>1, <1>5, <1>7
<1> QED BY <1>6, <1>7 DEF KeyFollows, Follows, X, v

\* PeersFollow says of each peer what PeerFollows says in terms of Follows.
LEMMA PeerLink ==
    EngineTypeOK /\ OpsInOrder => (PeersFollow <=> \A p \in Member \ drifted : PeerFollows(p))
<1> SUFFICES ASSUME EngineTypeOK, OpsInOrder, NEW p \in Member \ drifted
             PROVE  PeerFollows(p) <=>
                    /\ enginePhase = "ready" \/ (\A i \in (appliedTo + 1)..commitTo : ~ChangesPeer(i, p))
                           => (p \in peersOf <=> LoggedPeer(p))
                    /\ enginePhase = "starting" => \A i \in (appliedTo + 1)..replayed :
                           ChangesPeer(i, p) /\ (\A j \in (i + 1)..replayed : ~ChangesPeer(j, p))
                               => (p \in peersOf <=> committedCmds[i].type = "add")
    BY DEF PeersFollow
<1> DEFINE X == PeerChanges(p)
           v == PeerStandings(p)
           first == Standing(p \in Configured)
           w == Standing(p \in peersOf)
<1>1. /\ X \subseteq 1..Len(committedCmds)
      /\ \A i \in 1..Len(committedCmds) : i \in X <=> ChangesPeer(i, p)
      /\ \A i \in X : v[i] = Standing(committedCmds[i].type = "add")
    BY DEF PeerChanges, PeerStandings
<1>2. (p \in peersOf <=> LoggedPeer(p)) <=> w = Logged(X, v, first, Effective)
  <2>1. {i \in Effective : committedCmds[i].peer = p} = X \cap Effective
      BY <1>1, EffectiveBound DEF ChangesPeer
  <2>2. X \cap Effective # {} => Max(X \cap Effective) \in X
    <3>1. X \cap Effective \subseteq 1..Len(committedCmds)
        BY <1>1
    <3> HIDE DEF X
    <3> QED BY <3>1, EffectiveBound, MaxIn
  <2>3. CASE X \cap Effective = {}
    <3>1. LoggedPeer(p) <=> p \in Configured
        BY <2>1, <2>3 DEF LoggedPeer
    <3>2. Logged(X, v, first, Effective) = first
        BY <2>3 DEF Logged
    <3> HIDE DEF X, v
    <3> QED BY <3>1, <3>2 DEF Standing
  <2>4. CASE X \cap Effective # {}
    <3> DEFINE m == Max(X \cap Effective)
    <3>1. LoggedPeer(p) <=> committedCmds[m].type = "add"
        BY <2>1, <2>4 DEF LoggedPeer, LastOf
    <3>2. Logged(X, v, first, Effective) = Standing(committedCmds[m].type = "add")
        BY <1>1, <2>2, <2>4 DEF Logged
    <3> HIDE DEF X, v, m
    <3> QED BY <3>1, <3>2 DEF Standing
  <2> QED BY <2>3, <2>4
<1>3. (\A i \in (appliedTo + 1)..commitTo : ~ChangesPeer(i, p)) <=> X \cap (appliedTo + 1)..commitTo = {}
  <2>1. (appliedTo + 1)..commitTo \subseteq 1..Len(committedCmds)
      BY EffectiveBound
  <2> QED BY <1>1, <2>1
<1>4. ASSUME enginePhase = "starting"
      PROVE  /\ (appliedTo + 1)..replayed \subseteq 1..Len(committedCmds)
             /\ \A i \in (appliedTo + 1)..replayed : (i + 1)..replayed \subseteq 1..Len(committedCmds)
  <2>1. replayed \in Nat /\ appliedTo <= replayed /\ replayed <= commitTo
      BY <1>4 DEF EngineTypeOK, OpsInOrder
  <2> QED BY <2>1, EffectiveBound
<1>5. ASSUME enginePhase = "starting", NEW i \in (appliedTo + 1)..replayed
      PROVE  /\ ChangesPeer(i, p) <=> i \in X
             /\ (\A j \in (i + 1)..replayed : ~ChangesPeer(j, p)) <=> X \cap (i + 1)..replayed = {}
    BY <1>1, <1>4, <1>5
<1>6. \A i \in X : (p \in peersOf <=> committedCmds[i].type = "add") <=> w = v[i]
  <2> SUFFICES ASSUME NEW i \in X
               PROVE  (p \in peersOf <=> committedCmds[i].type = "add") <=> w = v[i]
      OBVIOUS
  <2>1. v[i] = Standing(committedCmds[i].type = "add")
      BY <1>1
  <2> HIDE DEF X, v
  <2> QED BY <2>1 DEF Standing
<1> HIDE DEF X, v, first, w
<1>7. (enginePhase = "ready" \/ (\A i \in (appliedTo + 1)..commitTo : ~ChangesPeer(i, p))
           => (p \in peersOf <=> LoggedPeer(p)))
      <=> (enginePhase = "ready" \/ X \cap (appliedTo + 1)..commitTo = {}
           => w = Logged(X, v, first, Effective))
    BY <1>2, <1>3, Zenon
<1>8. ASSUME enginePhase = "starting"
      PROVE  (\A i \in (appliedTo + 1)..replayed :
                  ChangesPeer(i, p) /\ (\A j \in (i + 1)..replayed : ~ChangesPeer(j, p))
                      => (p \in peersOf <=> committedCmds[i].type = "add"))
             <=> (\A i \in X \cap (appliedTo + 1)..replayed :
                      X \cap (i + 1)..replayed = {} => w = v[i])
    BY <1>5, <1>6, <1>8
<1> QED BY <1>7, <1>8 DEF PeerFollows, Follows, X, v, first, w

\* The same of the next state.
LEMMA LinksNext ==
    /\ (EngineTypeOK /\ OpsInOrder => (ValuesFollow <=> \A k \in StateKey : KeyFollows(k)))'
    /\ (EngineTypeOK /\ OpsInOrder => (PeersFollow <=> \A p \in Member \ drifted : PeerFollows(p)))'
BY KeyLink, PeerLink, PTL
-----------------------------------------------------------------------------
(* What applyCmd does to a key and to a peer.                              *)

\* A command writes to keys or changes a member.
LEMMA CommandFacts ==
    ASSUME NEW cmd \in StateCommand
    PROVE  \/ /\ cmd.type \in {"set", "delete", "batch"} /\ cmd.peer = Absent
              /\ \E S \in SUBSET StateKey : cmd.writes \in [S -> StateValue \cup {Absent}]
           \/ /\ cmd.type \in {"add", "remove"} /\ cmd.peer \in Member /\ DOMAIN cmd.writes = {}
<1>1. DOMAIN << >> = {}
    OBVIOUS
<1> QED BY <1>1 DEF StateCommand, EngineCmd, PeerCmd

\* Whatever a command is: a key it writes takes its value and a member it changes its
\* standing, unless it fails. What it could not save has drifted.
LEMMA CommandEffect ==
    ASSUME EngineTypeOK, ClusterFollows, NEW cmd \in StateCommand, NEW failed \in BOOLEAN,
           ApplyCmd(cmd, failed)
    PROVE  /\ localState' \in [StateKey -> StateValue \cup {Absent}]
           /\ cluster' \subseteq Member /\ peersOf' \subseteq Member
           /\ \A k \in StateKey : localState'[k] = IF ~failed /\ k \in DOMAIN cmd.writes
                                                   THEN cmd.writes[k] ELSE localState[k]
           /\ \A p \in Member \ drifted' :
                 /\ p \in peersOf' <=> IF ~failed /\ cmd.peer = p THEN cmd.type = "add" ELSE p \in peersOf
                 /\ p \notin drifted \/ (~failed /\ cmd.peer = p)
                 /\ p \in cluster' => p \in peersOf'
                 /\ p \in peersOf' => p \in cluster' \cup Configured
<1>a. /\ cluster \subseteq Member /\ peersOf \subseteq Member
      /\ localState \in [StateKey -> StateValue \cup {Absent}]
    BY DEF EngineTypeOK
<1>1. CASE cmd.type \in {"set", "delete", "batch"}
  <2>1. /\ cmd.peer = Absent
        /\ \E S \in SUBSET StateKey : cmd.writes \in [S -> StateValue \cup {Absent}]
      BY <1>1, CommandFacts
  <2>2. UNCHANGED <<peersOf, cluster, drifted>>
      BY <1>1 DEF ApplyCmd, ApplyWrites, TakenForPeerChange, PeerChangeParses, FirstByte
  <2>3. \/ failed /\ UNCHANGED localState
        \/ ~failed /\ localState' = Written(cmd.writes)
      BY <1>1 DEF ApplyCmd, ApplyWrites, TakenForPeerChange, PeerChangeParses, FirstByte
  <2>4. CASE failed /\ UNCHANGED localState
      BY <1>a, <2>1, <2>2, <2>4 DEF ClusterFollows
  <2>5. CASE ~failed /\ localState' = Written(cmd.writes)
    <3>1. PICK S \in SUBSET StateKey : cmd.writes \in [S -> StateValue \cup {Absent}]
        BY <2>1
    <3>2. localState' = [x \in StateKey |-> IF x \in S THEN cmd.writes[x] ELSE localState[x]]
        BY <2>5, <3>1 DEF Written
    <3>3. localState' \in [StateKey -> StateValue \cup {Absent}]
        BY <1>a, <3>1, <3>2
    <3>4. \A k \in StateKey : localState'[k] = IF k \in DOMAIN cmd.writes THEN cmd.writes[k] ELSE localState[k]
        BY <3>1, <3>2
    <3> QED BY <1>a, <2>1, <2>2, <2>5, <3>3, <3>4 DEF ClusterFollows
  <2> QED BY <2>3, <2>4, <2>5
<1>2. CASE cmd.type \in {"add", "remove"}
  <2>1. cmd.peer \in Member /\ DOMAIN cmd.writes = {}
      BY <1>2, CommandFacts
  <2>2. ApplyPeerChange(cmd, failed)
      BY <1>2 DEF ApplyCmd, TakenForPeerChange, PeerChangeParses, FirstByte
  <2>3. /\ UNCHANGED localState
        /\ peersOf' = IF cmd.type = "add" THEN peersOf \cup {cmd.peer} ELSE peersOf \ {cmd.peer}
      BY <1>2, <2>2 DEF ApplyPeerChange, ChangedPeers, FirstByte
  <2>4. \/ ~failed /\ cluster' = peersOf' /\ drifted' = drifted \ {cmd.peer}
        \/ failed /\ drifted' = drifted \cup {cmd.peer} /\ UNCHANGED cluster
      BY <2>2 DEF ApplyPeerChange
  <2>5. CASE ~failed /\ cluster' = peersOf' /\ drifted' = drifted \ {cmd.peer}
      BY <1>a, <1>2, <2>1, <2>3, <2>5
  <2>6. CASE failed /\ drifted' = drifted \cup {cmd.peer} /\ UNCHANGED cluster
      BY <1>a, <1>2, <2>1, <2>3, <2>6 DEF ClusterFollows
  <2> QED BY <2>4, <2>5, <2>6
<1> QED BY <1>1, <1>2, CommandFacts

\* Applying the command with index i is doing for each key and peer what v has at i.
LEMMA IndexEffect ==
    ASSUME EngineTypeOK, ClusterFollows, NEW i \in 1..Len(committedCmds), NEW failed \in BOOLEAN,
           ApplyCmd(committedCmds[i], failed), UNCHANGED committedCmds
    PROVE  /\ localState' \in [StateKey -> StateValue \cup {Absent}]
           /\ cluster' \subseteq Member /\ peersOf' \subseteq Member
           /\ ClusterFollows'
           /\ \A k \in StateKey :
                 localState'[k] = IF ~failed /\ i \in KeyWrites(k) THEN KeyValues(k)[i] ELSE localState[k]
           /\ \A p \in Member \ drifted' :
                 /\ Standing(p \in peersOf') = IF ~failed /\ i \in PeerChanges(p) THEN PeerStandings(p)[i]
                                               ELSE Standing(p \in peersOf)
                 /\ p \notin drifted \/ (~failed /\ i \in PeerChanges(p))
<1> DEFINE cmd == committedCmds[i]
<1>1. cmd \in StateCommand
    BY LenProperties DEF EngineTypeOK
<1>2. \A k \in StateKey : /\ i \in KeyWrites(k) <=> k \in DOMAIN cmd.writes
                          /\ i \in KeyWrites(k) => KeyValues(k)[i] = cmd.writes[k]
    BY DEF KeyWrites, KeyValues, WritesKey
<1>3. \A p \in Member : /\ i \in PeerChanges(p) <=> cmd.peer = p
                        /\ i \in PeerChanges(p) => PeerStandings(p)[i] = Standing(cmd.type = "add")
    BY DEF PeerChanges, PeerStandings, ChangesPeer
<1> HIDE DEF cmd
<1>4. ApplyCmd(cmd, failed)
    BY DEF cmd
<1>5. /\ localState' \in [StateKey -> StateValue \cup {Absent}]
      /\ cluster' \subseteq Member /\ peersOf' \subseteq Member
      /\ \A k \in StateKey : localState'[k] = IF ~failed /\ k \in DOMAIN cmd.writes
                                              THEN cmd.writes[k] ELSE localState[k]
      /\ \A p \in Member \ drifted' :
            /\ p \in peersOf' <=> IF ~failed /\ cmd.peer = p THEN cmd.type = "add" ELSE p \in peersOf
            /\ p \notin drifted \/ (~failed /\ cmd.peer = p)
            /\ p \in cluster' => p \in peersOf'
            /\ p \in peersOf' => p \in cluster' \cup Configured
    BY <1>1, <1>4, CommandEffect
<1>6. ASSUME NEW p \in Member \ drifted'
      PROVE  Standing(p \in peersOf') = IF ~failed /\ i \in PeerChanges(p) THEN PeerStandings(p)[i]
                                        ELSE Standing(p \in peersOf)
  <2>1. CASE ~failed /\ cmd.peer = p
    <3>1. p \in peersOf' <=> cmd.type = "add"
        BY <1>5, <2>1
    <3> QED BY <1>3, <2>1, <3>1 DEF Standing
  <2>2. CASE ~(~failed /\ cmd.peer = p)
    <3>1. p \in peersOf' <=> p \in peersOf
        BY <1>5, <2>2
    <3> QED BY <1>3, <2>2, <3>1 DEF Standing
  <2> QED BY <2>1, <2>2
<1>7. ClusterFollows'
    BY <1>5 DEF ClusterFollows
<1> QED BY <1>2, <1>3, <1>5, <1>6, <1>7
-----------------------------------------------------------------------------
(* The invariant survives every step.                                      *)

\* The part about indices and shapes.
Shaped == EngineTypeOK /\ OpsInOrder

\* The queue of doApply: its head is the first index that had no effect yet.
LEMMA OpsFacts ==
    ASSUME Shaped, applyOps # << >>
    PROVE  /\ enginePhase = "ready" /\ Len(applyOps) \in Nat \ {0}
           /\ Head(applyOps) = appliedTo - Len(applyOps) + 1
           /\ Head(applyOps) \in 1..Len(committedCmds) /\ Head(applyOps) <= appliedTo
           /\ Tail(applyOps) \in Seq(Nat) /\ Len(Tail(applyOps)) = Len(applyOps) - 1
           /\ \A j \in DOMAIN Tail(applyOps) :
                 Tail(applyOps)[j] = appliedTo - (Len(applyOps) - 1) + j
<1>1. applyOps \in Seq(Nat) /\ enginePhase = "ready"
    BY DEF Shaped, EngineTypeOK, OpsInOrder
<1>2. /\ Len(applyOps) \in Nat \ {0} /\ DOMAIN applyOps = 1..Len(applyOps)
      /\ Head(applyOps) = applyOps[1]
      /\ Tail(applyOps) \in Seq(Nat) /\ Len(Tail(applyOps)) = Len(applyOps) - 1
      /\ DOMAIN Tail(applyOps) = 1..(Len(applyOps) - 1)
      /\ \A j \in 1..(Len(applyOps) - 1) : Tail(applyOps)[j] = applyOps[j + 1]
    BY <1>1, HeadTailProperties, LenProperties, EmptySeq
<1>3. /\ appliedTo \in Nat /\ Len(applyOps) <= appliedTo /\ appliedTo <= Len(committedCmds)
      /\ Len(committedCmds) \in Nat
    BY EffectiveBound DEF Shaped, OpsInOrder
<1>4. \A j \in 1..Len(applyOps) : applyOps[j] = appliedTo - Len(applyOps) + j
    BY <1>2 DEF Shaped, OpsInOrder
<1>5. Head(applyOps) = appliedTo - Len(applyOps) + 1
    BY <1>2, <1>4
<1>6. ASSUME NEW j \in 1..(Len(applyOps) - 1)
      PROVE  Tail(applyOps)[j] = appliedTo - (Len(applyOps) - 1) + j
  <2>1. j + 1 \in 1..Len(applyOps)
      BY <1>2
  <2>2. applyOps[j + 1] = appliedTo - Len(applyOps) + (j + 1)
      BY <1>4, <2>1
  <2> QED BY <1>2, <1>3, <2>2
<1>7. Head(applyOps) \in 1..Len(committedCmds) /\ Head(applyOps) <= appliedTo
  <2> DEFINE n == Len(applyOps)
             h == Head(applyOps)
             len == Len(committedCmds)
  <2>1. /\ n \in Nat \ {0} /\ h = appliedTo - n + 1 /\ len \in Nat
        /\ appliedTo \in Nat /\ n <= appliedTo /\ appliedTo <= len
      BY <1>2, <1>3, <1>5
  <2> HIDE DEF n, h, len
  <2>2. h \in 1..len /\ h <= appliedTo
      BY <2>1
  <2> QED BY <2>2 DEF n, h, len
<1>8. \A j \in DOMAIN Tail(applyOps) : Tail(applyOps)[j] = appliedTo - (Len(applyOps) - 1) + j
    BY <1>2, <1>6, Zenon
<1> QED BY <1>1, <1>2, <1>5, <1>7, <1>8, Zenon

\* A process that runs for the first time has applied nothing and has nothing to do.
LEMMA ShapedInit == EngineInit => Shaped
<1> SUFFICES ASSUME EngineInit PROVE Shaped
    OBVIOUS
<1>1. << >> \in Seq(StateCommand) /\ << >> \in Seq(Nat) /\ Len(<< >>) = 0 /\ DOMAIN << >> = {}
    BY EmptySeq
<1>2. EngineTypeOK
    BY <1>1 DEF EngineInit, EngineTypeOK
<1>3. OpsInOrder
    BY <1>1 DEF EngineInit, OpsInOrder
<1> QED BY <1>2, <1>3 DEF Shaped

\* No step takes indices out of order: what doApply has to do stays the end of what is applied.
LEMMA ShapedStep ==
    ASSUME Shaped, ClusterFollows, [EngineNext]_engineVars
    PROVE  Shaped'
<1> USE DEF engineStored, engineMemory
<1>a. /\ committedCmds \in Seq(StateCommand) /\ Len(committedCmds) \in Nat
      /\ commitTo \in 0..Len(committedCmds) /\ appliedTo \in 0..commitTo
      /\ cluster \subseteq Member /\ peersOf \subseteq Member
      /\ localState \in [StateKey -> StateValue \cup {Absent}]
      /\ enginePhase \in {"down", "starting", "ready"}
      /\ replayed \in Nat
      /\ applyOps \in Seq(Nat) /\ Len(applyOps) \in Nat
    BY LenProperties DEF Shaped, EngineTypeOK
<1>b. /\ Len(applyOps) <= appliedTo
      /\ \A j \in DOMAIN applyOps : applyOps[j] = appliedTo - Len(applyOps) + j
      /\ enginePhase # "ready" => applyOps = << >>
      /\ enginePhase = "starting" => appliedTo <= replayed /\ replayed <= commitTo
      /\ passedBy \subseteq 1..(appliedTo - Len(applyOps))
    BY DEF Shaped, OpsInOrder
<1>c. << >> \in Seq(Nat) /\ Len(<< >>) = 0 /\ DOMAIN << >> = {}
    BY EmptySeq
<1>1. CASE UNCHANGED engineVars
    BY <1>1 DEF engineVars, Shaped, EngineTypeOK, OpsInOrder
<1>2. ASSUME NEW cmd \in StateCommand, CommitCmd(cmd) PROVE Shaped'
  <2>1. /\ committedCmds' = Append(committedCmds, cmd)
        /\ UNCHANGED <<engineStored, engineMemory, passedBy>>
      BY <1>2 DEF CommitCmd
  <2>2. committedCmds' \in Seq(StateCommand) /\ Len(committedCmds') = Len(committedCmds) + 1
      BY <1>a, <2>1, AppendProperties
  <2>3. EngineTypeOK'
      BY <1>a, <2>1, <2>2 DEF EngineTypeOK
  <2>4. OpsInOrder'
      BY <1>b, <2>1 DEF OpsInOrder
  <2> QED BY <2>3, <2>4 DEF Shaped
<1>3. CASE LearnCommit
  <2>1. /\ enginePhase = "ready" /\ commitTo' \in (commitTo + 1)..Len(committedCmds)
        /\ UNCHANGED <<committedCmds, appliedTo, cluster, localState, engineMemory, passedBy>>
      BY <1>3 DEF LearnCommit
  <2>2. EngineTypeOK'
      BY <1>a, <2>1 DEF EngineTypeOK
  <2>3. OpsInOrder'
      BY <1>b, <2>1 DEF OpsInOrder
  <2> QED BY <2>2, <2>3 DEF Shaped
<1>4. CASE CollectOp
  <2>1. /\ enginePhase = "ready" /\ appliedTo < commitTo /\ appliedTo' = appliedTo + 1
        /\ applyOps' = Append(applyOps, appliedTo + 1)
        /\ UNCHANGED <<committedCmds, commitTo, cluster, localState, enginePhase, replayed,
                       peersOf, passedBy>>
      BY <1>4 DEF CollectOp
  <2>2. appliedTo + 1 \in Nat
      BY <1>a
  <2>3. /\ applyOps' \in Seq(Nat) /\ Len(applyOps') = Len(applyOps) + 1
        /\ DOMAIN applyOps' = 1..(Len(applyOps) + 1) /\ DOMAIN applyOps = 1..Len(applyOps)
        /\ \A j \in 1..Len(applyOps) : applyOps'[j] = applyOps[j]
        /\ applyOps'[Len(applyOps) + 1] = appliedTo + 1
      BY <1>a, <2>1, <2>2, AppendProperties, LenProperties
  <2>4. EngineTypeOK'
      BY <1>a, <2>1, <2>3 DEF EngineTypeOK
  <2>5. appliedTo' - Len(applyOps') = appliedTo - Len(applyOps)
      BY <1>a, <2>1, <2>3
  <2>6. ASSUME NEW j \in DOMAIN applyOps'
        PROVE  applyOps'[j] = appliedTo' - Len(applyOps') + j
    <3>1. CASE j = Len(applyOps) + 1
        BY <1>a, <2>3, <2>5, <3>1
    <3>2. CASE j \in 1..Len(applyOps)
        BY <1>b, <2>3, <2>5, <3>2
    <3> QED BY <1>a, <2>3, <3>1, <3>2
  <2>7. Len(applyOps') <= appliedTo' /\ passedBy' \subseteq 1..(appliedTo' - Len(applyOps'))
      BY <1>a, <1>b, <2>1, <2>3, <2>5
  <2> QED BY <2>1, <2>4, <2>6, <2>7 DEF Shaped, OpsInOrder
<1>5. CASE ApplyOp
  <2> DEFINE d == Head(applyOps)
  <2>1. PICK failed \in BOOLEAN :
            /\ ApplyCmd(committedCmds[d], failed)
            /\ passedBy' = IF failed THEN passedBy \cup {d} ELSE passedBy
      BY <1>5 DEF ApplyOp
  <2>2. /\ applyOps # << >> /\ applyOps' = Tail(applyOps)
        /\ UNCHANGED <<committedCmds, commitTo, appliedTo, enginePhase, replayed>>
      BY <1>5 DEF ApplyOp
  <2>3. /\ enginePhase = "ready" /\ Len(applyOps) \in Nat \ {0}
        /\ d = appliedTo - Len(applyOps) + 1
        /\ d \in 1..Len(committedCmds)
        /\ applyOps' \in Seq(Nat) /\ Len(applyOps') = Len(applyOps) - 1
        /\ \A j \in DOMAIN applyOps' : applyOps'[j] = appliedTo - (Len(applyOps) - 1) + j
      BY <2>2, OpsFacts
  <2> HIDE DEF d
  <2>4. /\ localState' \in [StateKey -> StateValue \cup {Absent}]
        /\ cluster' \subseteq Member /\ peersOf' \subseteq Member
      BY <2>1, <2>2, <2>3, IndexEffect DEF Shaped
  <2>5. EngineTypeOK'
      BY <1>a, <2>2, <2>3, <2>4 DEF EngineTypeOK
  <2>6. passedBy' \subseteq 1..(appliedTo - (Len(applyOps) - 1))
    <3> DEFINE n == Len(applyOps)
    <3>1. n \in Nat \ {0} /\ appliedTo \in Nat /\ n <= appliedTo /\ d = appliedTo - n + 1
        BY <1>a, <1>b, <2>3
    <3>2. passedBy \subseteq 1..(appliedTo - n) /\ passedBy' \subseteq passedBy \cup {d}
        BY <1>b, <2>1
    <3> HIDE DEF n
    <3>3. 1..(appliedTo - n) \subseteq 1..(appliedTo - (n - 1)) /\ d \in 1..(appliedTo - (n - 1))
        BY <3>1
    <3>4. passedBy' \subseteq 1..(appliedTo - (n - 1))
        BY <3>2, <3>3
    <3> QED BY <3>4 DEF n
  <2>7. Len(applyOps') <= appliedTo'
      BY <1>a, <1>b, <2>2, <2>3
  <2> QED BY <2>2, <2>3, <2>5, <2>6, <2>7 DEF Shaped, OpsInOrder
<1>6. CASE EngineCrash
  <2>1. /\ enginePhase' = "down" /\ applyOps' = << >>
        /\ passedBy' = passedBy \cup {applyOps[k] : k \in DOMAIN applyOps}
        /\ UNCHANGED <<committedCmds, engineStored, replayed, peersOf>>
      BY <1>6 DEF EngineCrash
  <2>2. EngineTypeOK'
      BY <1>a, <1>c, <2>1 DEF EngineTypeOK
  <2>3. passedBy' \subseteq 1..appliedTo
    <3>1. DOMAIN applyOps = 1..Len(applyOps)
        BY <1>a, LenProperties
    <3>2. \A k \in DOMAIN applyOps : applyOps[k] \in 1..appliedTo
        BY <1>a, <1>b, <3>1
    <3>3. passedBy \subseteq 1..appliedTo
        BY <1>a, <1>b
    <3> QED BY <2>1, <3>2, <3>3
  <2>4. OpsInOrder'
      BY <1>a, <1>c, <2>1, <2>3 DEF OpsInOrder
  <2> QED BY <2>2, <2>4 DEF Shaped
<1>7. ASSUME NEW bootstrap \in BOOLEAN, StartNode(bootstrap) PROVE Shaped'
  <2>1. /\ enginePhase' = "starting" /\ peersOf' = Configured \cup cluster
        /\ cluster' \in {cluster, Configured} /\ replayed' = appliedTo
        /\ UNCHANGED <<committedCmds, commitTo, appliedTo, localState, applyOps, passedBy>>
        /\ enginePhase = "down"
      BY <1>7 DEF StartNode
  <2>2. EngineTypeOK'
      BY <1>a, <2>1 DEF EngineTypeOK
  <2>3. OpsInOrder'
      BY <1>a, <1>b, <2>1 DEF OpsInOrder
  <2> QED BY <2>2, <2>3 DEF Shaped
<1>8. CASE ReplayOp
  <2>1. PICK failed \in BOOLEAN :
            /\ ApplyCmd(committedCmds[replayed + 1], failed)
            /\ enginePhase' = IF failed THEN "down" ELSE enginePhase
            /\ replayed' = IF failed THEN replayed ELSE replayed + 1
      BY <1>8 DEF ReplayOp, NextReplayed
  <2>2. /\ enginePhase = "starting" /\ replayed + 1 <= commitTo
        /\ UNCHANGED <<committedCmds, commitTo, appliedTo, applyOps, passedBy>>
      BY <1>8 DEF ReplayOp, NextReplayed
  <2>3. replayed + 1 \in 1..Len(committedCmds)
      BY <1>a, <2>2
  <2>4. /\ localState' \in [StateKey -> StateValue \cup {Absent}]
        /\ cluster' \subseteq Member /\ peersOf' \subseteq Member
      BY <2>1, <2>2, <2>3, IndexEffect DEF Shaped
  <2>5. EngineTypeOK'
      BY <1>a, <2>1, <2>2, <2>4 DEF EngineTypeOK
  <2>6. OpsInOrder'
      BY <1>a, <1>b, <2>1, <2>2 DEF OpsInOrder
  <2> QED BY <2>5, <2>6 DEF Shaped
<1>9. CASE FinishStart
  <2>1. /\ enginePhase = "starting" /\ replayed + 1 > commitTo /\ appliedTo' = replayed
        /\ enginePhase' = "ready"
        /\ UNCHANGED <<committedCmds, commitTo, cluster, localState, replayed, applyOps, peersOf,
                       passedBy>>
      BY <1>9 DEF FinishStart, NextReplayed
  <2>2. replayed = commitTo /\ appliedTo <= replayed /\ applyOps = << >>
      BY <1>a, <1>b, <2>1
  <2>3. EngineTypeOK'
      BY <1>a, <2>1, <2>2 DEF EngineTypeOK
  <2>4. OpsInOrder'
      BY <1>a, <1>b, <1>c, <2>1, <2>2 DEF OpsInOrder
  <2> QED BY <2>3, <2>4 DEF Shaped
<1> QED BY <1>1, <1>2, <1>3, <1>4, <1>5, <1>6, <1>7, <1>8, <1>9 DEF EngineNext, EngineStep-----------------------------------------------------------------------------
(* What is followed stays followed.                                        *)

KeysFollow == \A k \in StateKey : KeyFollows(k)
PeersAllFollow == \A p \in Member \ drifted : PeerFollows(p)

\* A step that commits nothing leaves what the commands write and change.
LEMMA SameLog ==
    ASSUME UNCHANGED committedCmds
    PROVE  /\ \A k : KeyWrites(k)' = KeyWrites(k) /\ KeyValues(k)' = KeyValues(k)
           /\ \A p : PeerChanges(p)' = PeerChanges(p) /\ PeerStandings(p)' = PeerStandings(p)
BY DEF KeyWrites, KeyValues, WritesKey, PeerChanges, PeerStandings, ChangesPeer

\* The committed indices that write to a key or change a peer are numbers.
LEMMA IndicesAreNat ==
    ASSUME EngineTypeOK
    PROVE  (\A k : KeyWrites(k) \subseteq Nat) /\ (\A p : PeerChanges(p) \subseteq Nat)
<1>1. Len(committedCmds) \in Nat
    BY LenProperties DEF EngineTypeOK
<1> QED BY <1>1 DEF KeyWrites, PeerChanges

\* No index takes effect and neither a key nor a peer that is followed changes: indices are
\* learned or collected, doApply passes one by, a start fails or the process ends.
LEMMA IdleStep ==
    ASSUME KeysFollow, PeersAllFollow, UNCHANGED committedCmds, Effective' = Effective,
           \A k \in StateKey : localState'[k] = localState[k],
           \A p \in Member \ drifted' :
              p \notin drifted /\ Standing(p \in peersOf') = Standing(p \in peersOf),
           \/ enginePhase = "ready" /\ enginePhase' # "starting"
           \/ enginePhase' = "down" /\ UNCHANGED <<appliedTo, commitTo, replayed>>
    PROVE  KeysFollow' /\ PeersAllFollow'
<1>1. ASSUME NEW k \in StateKey PROVE KeyFollows(k)'
  <2>1. Follows(enginePhase, KeyWrites(k), KeyValues(k), Absent, Effective, appliedTo, commitTo,
                replayed, localState[k])
      BY DEF KeysFollow, KeyFollows
  <2>2. Follows(enginePhase', KeyWrites(k), KeyValues(k), Absent, Effective, appliedTo', commitTo',
                replayed', localState[k])
      BY <2>1, FollowsIdle
  <2> QED BY <2>2, SameLog DEF KeyFollows
<1>2. ASSUME NEW p \in Member \ drifted' PROVE PeerFollows(p)'
  <2>1. Follows(enginePhase, PeerChanges(p), PeerStandings(p), Standing(p \in Configured), Effective,
                appliedTo, commitTo, replayed, Standing(p \in peersOf))
      BY DEF PeersAllFollow, PeerFollows
  <2>2. Follows(enginePhase', PeerChanges(p), PeerStandings(p), Standing(p \in Configured), Effective,
                appliedTo', commitTo', replayed', Standing(p \in peersOf))
      BY <2>1, FollowsIdle
  <2>3. Standing(p \in peersOf)' = Standing(p \in peersOf)
      BY DEF Standing
  <2> QED BY <2>2, <2>3, SameLog DEF PeerFollows
<1> QED BY <1>1, <1>2 DEF KeysFollow, PeersAllFollow

\* doApply applies an index: it takes effect.
LEMMA AppliedStep ==
    ASSUME Shaped, KeysFollow, PeersAllFollow, UNCHANGED committedCmds,
           NEW d \in Nat, Effective \subseteq 1..(d - 1), Effective' = Effective \cup {d},
           enginePhase = "ready", enginePhase' = "ready",
           \A k \in StateKey :
              localState'[k] = IF d \in KeyWrites(k) THEN KeyValues(k)[d] ELSE localState[k],
           \A p \in Member \ drifted' :
              /\ Standing(p \in peersOf') = IF d \in PeerChanges(p) THEN PeerStandings(p)[d]
                                            ELSE Standing(p \in peersOf)
              /\ p \notin drifted \/ d \in PeerChanges(p),
           UNCHANGED <<appliedTo, commitTo, replayed>>
    PROVE  KeysFollow' /\ PeersAllFollow'
<1>0. (\A k : KeyWrites(k) \subseteq Nat) /\ (\A p : PeerChanges(p) \subseteq Nat)
    BY IndicesAreNat DEF Shaped
<1>1. ASSUME NEW k \in StateKey PROVE KeyFollows(k)'
  <2>1. Follows("ready", KeyWrites(k), KeyValues(k), Absent, Effective, appliedTo, commitTo,
                replayed, localState[k])
      BY DEF KeysFollow, KeyFollows
  <2>2. Follows("ready", KeyWrites(k), KeyValues(k), Absent, Effective \cup {d}, appliedTo, commitTo,
                replayed, localState'[k])
      BY <1>0, <2>1, FollowsApplied
  <2> QED BY <2>2, SameLog DEF KeyFollows
<1>2. ASSUME NEW p \in Member \ drifted' PROVE PeerFollows(p)'
  <2>1. \/ d \in PeerChanges(p)
        \/ Follows("ready", PeerChanges(p), PeerStandings(p), Standing(p \in Configured), Effective,
                   appliedTo, commitTo, replayed, Standing(p \in peersOf))
      BY DEF PeersAllFollow, PeerFollows
  <2>2. Follows("ready", PeerChanges(p), PeerStandings(p), Standing(p \in Configured),
                Effective \cup {d}, appliedTo, commitTo, replayed, Standing(p \in peersOf'))
      BY <1>0, <2>1, FollowsApplied
  <2>3. Standing(p \in peersOf)' = Standing(p \in peersOf')
      BY DEF Standing
  <2> QED BY <2>2, <2>3, SameLog DEF PeerFollows
<1> QED BY <1>1, <1>2 DEF KeysFollow, PeersAllFollow
\* A start replays an index: a key or a peer that it sets has the value of that index.
LEMMA ReplayedStep ==
    ASSUME Shaped, KeysFollow, PeersAllFollow, UNCHANGED committedCmds, Effective' = Effective,
           enginePhase = "starting", enginePhase' = "starting",
           replayed + 1 <= commitTo, replayed' = replayed + 1,
           \A k \in StateKey :
              localState'[k] = IF replayed + 1 \in KeyWrites(k) THEN KeyValues(k)[replayed + 1]
                               ELSE localState[k],
           \A p \in Member \ drifted' :
              /\ Standing(p \in peersOf') = IF replayed + 1 \in PeerChanges(p)
                                            THEN PeerStandings(p)[replayed + 1]
                                            ELSE Standing(p \in peersOf)
              /\ p \notin drifted \/ replayed + 1 \in PeerChanges(p),
           UNCHANGED <<appliedTo, commitTo>>
    PROVE  KeysFollow' /\ PeersAllFollow'
<1>0. /\ appliedTo \in Nat /\ commitTo \in Nat /\ replayed \in Nat
      /\ appliedTo <= replayed /\ replayed + 1 <= commitTo
  <2>1. EngineTypeOK /\ OpsInOrder
      BY DEF Shaped
  <2>2. appliedTo \in Nat /\ commitTo \in 0..Len(committedCmds) /\ Len(committedCmds) \in Nat
      BY <2>1, EffectiveBound
  <2> QED BY <2>1, <2>2 DEF EngineTypeOK, OpsInOrder
<1>1. ASSUME NEW k \in StateKey PROVE KeyFollows(k)'
  <2>1. Follows("starting", KeyWrites(k), KeyValues(k), Absent, Effective, appliedTo, commitTo,
                replayed, localState[k])
      BY DEF KeysFollow, KeyFollows
  <2>2. Follows("starting", KeyWrites(k), KeyValues(k), Absent, Effective, appliedTo, commitTo,
                replayed + 1, localState'[k])
      BY <1>0, <2>1, FollowsReplayed
  <2> QED BY <2>2, SameLog DEF KeyFollows
<1>2. ASSUME NEW p \in Member \ drifted' PROVE PeerFollows(p)'
  <2>1. \/ replayed + 1 \in PeerChanges(p)
        \/ Follows("starting", PeerChanges(p), PeerStandings(p), Standing(p \in Configured), Effective,
                   appliedTo, commitTo, replayed, Standing(p \in peersOf))
      BY DEF PeersAllFollow, PeerFollows
  <2>2. Follows("starting", PeerChanges(p), PeerStandings(p), Standing(p \in Configured),
                Effective, appliedTo, commitTo, replayed + 1, Standing(p \in peersOf'))
      BY <1>0, <2>1, FollowsReplayed
  <2>3. Standing(p \in peersOf)' = Standing(p \in peersOf')
      BY DEF Standing
  <2> QED BY <2>2, <2>3, SameLog DEF PeerFollows
<1> QED BY <1>1, <1>2 DEF KeysFollow, PeersAllFollow

\* A command is committed: what was committed says the same as before.
LEMMA CommittedStep ==
    ASSUME Shaped, KeysFollow, PeersAllFollow, NEW cmd \in StateCommand, CommitCmd(cmd)
    PROVE  KeysFollow' /\ PeersAllFollow'
<1> DEFINE len == Len(committedCmds)
<1>1. /\ committedCmds' = Append(committedCmds, cmd)
      /\ UNCHANGED <<commitTo, appliedTo, cluster, localState, enginePhase, replayed, applyOps,
                     peersOf, passedBy, drifted>>
    BY DEF CommitCmd, engineStored, engineMemory
<1>2. /\ len \in Nat /\ Len(committedCmds') = len + 1
      /\ \A i \in 1..len : committedCmds'[i] = committedCmds[i]
    BY <1>1, AppendProperties, LenProperties DEF Shaped, EngineTypeOK
<1>3. /\ appliedTo \in Nat /\ commitTo \in 0..len /\ replayed \in Nat
      /\ Effective \subseteq 1..len /\ Effective' = Effective
      /\ enginePhase = "starting" => replayed <= len
  <2>1. EngineTypeOK /\ OpsInOrder
      BY DEF Shaped
  <2>2. appliedTo \in Nat /\ commitTo \in 0..len /\ Effective \subseteq 1..len
      BY <2>1, EffectiveBound
  <2>3. Effective' = Effective
      BY <1>1 DEF Effective
  <2>4. replayed \in Nat /\ (enginePhase = "starting" => replayed <= commitTo)
      BY <2>1 DEF EngineTypeOK, OpsInOrder
  <2> QED BY <2>2, <2>3, <2>4
<1>4. ASSUME NEW k \in StateKey PROVE KeyFollows(k)'
  <2>1. /\ KeyWrites(k) \subseteq 1..len /\ KeyWrites(k)' \cap 1..len = KeyWrites(k)
        /\ \A i \in KeyWrites(k) : KeyValues(k)'[i] = KeyValues(k)[i]
    <3>1. \A i \in 1..len : i \in KeyWrites(k)' <=> i \in KeyWrites(k)
        BY <1>2 DEF KeyWrites, WritesKey
    <3>2. KeyWrites(k) \subseteq 1..len
        BY DEF KeyWrites
    <3>3. \A i \in KeyWrites(k) : KeyValues(k)'[i] = KeyValues(k)[i]
      <4> SUFFICES ASSUME NEW i \in KeyWrites(k) PROVE KeyValues(k)'[i] = KeyValues(k)[i]
          OBVIOUS
      <4>1. i \in KeyWrites(k)' /\ committedCmds'[i] = committedCmds[i]
          BY <1>2, <3>1, <3>2
      <4> QED BY <4>1 DEF KeyValues
    <3> QED BY <3>1, <3>2, <3>3
  <2>2. Follows(enginePhase, KeyWrites(k), KeyValues(k), Absent, Effective, appliedTo, commitTo,
                replayed, localState[k])
      BY DEF KeysFollow, KeyFollows
  <2> HIDE DEF len
  <2>3. Follows(enginePhase, KeyWrites(k)', KeyValues(k)', Absent, Effective, appliedTo, commitTo,
                replayed, localState[k])
      BY <1>2, <1>3, <2>1, <2>2, FollowsLonger
  <2> QED BY <1>1, <1>3, <2>3 DEF KeyFollows
<1>5. ASSUME NEW p \in Member \ drifted' PROVE PeerFollows(p)'
  <2>1. /\ PeerChanges(p) \subseteq 1..len /\ PeerChanges(p)' \cap 1..len = PeerChanges(p)
        /\ \A i \in PeerChanges(p) : PeerStandings(p)'[i] = PeerStandings(p)[i]
    <3>1. \A i \in 1..len : i \in PeerChanges(p)' <=> i \in PeerChanges(p)
        BY <1>2 DEF PeerChanges, ChangesPeer
    <3>2. PeerChanges(p) \subseteq 1..len
        BY DEF PeerChanges
    <3>3. \A i \in PeerChanges(p) : PeerStandings(p)'[i] = PeerStandings(p)[i]
      <4> SUFFICES ASSUME NEW i \in PeerChanges(p) PROVE PeerStandings(p)'[i] = PeerStandings(p)[i]
          OBVIOUS
      <4>1. i \in PeerChanges(p)' /\ committedCmds'[i] = committedCmds[i]
          BY <1>2, <3>1, <3>2
      <4> QED BY <4>1 DEF PeerStandings, Standing
    <3> QED BY <3>1, <3>2, <3>3
  <2>2. Follows(enginePhase, PeerChanges(p), PeerStandings(p), Standing(p \in Configured), Effective,
                appliedTo, commitTo, replayed, Standing(p \in peersOf))
      BY <1>1 DEF PeersAllFollow, PeerFollows
  <2>3. Standing(p \in peersOf)' = Standing(p \in peersOf)
      BY <1>1 DEF Standing
  <2> HIDE DEF len
  <2>4. Follows(enginePhase, PeerChanges(p)', PeerStandings(p)', Standing(p \in Configured), Effective,
                appliedTo, commitTo, replayed, Standing(p \in peersOf))
      BY <1>2, <1>3, <2>1, <2>2, FollowsLonger
  <2> QED BY <1>1, <1>3, <2>3, <2>4 DEF PeerFollows
<1> QED BY <1>4, <1>5 DEF KeysFollow, PeersAllFollow
\* A start reads the saved cluster, and begins where the indices were saved. A peer it brings
\* back or had lost is one that drifted.
LEMMA StartedStep ==
    ASSUME Shaped, KeysFollow, PeersAllFollow, ClusterFollows,
           NEW bootstrap \in BOOLEAN, StartNode(bootstrap)
    PROVE  KeysFollow' /\ PeersAllFollow' /\ ClusterFollows'
<1>1. /\ enginePhase = "down" /\ enginePhase' = "starting" /\ replayed' = appliedTo
      /\ peersOf' = Configured \cup cluster /\ cluster' \in {cluster, Configured}
      /\ drifted' = drifted \cup (Configured \ cluster)
      /\ cluster' = IF bootstrap /\ cluster = {} THEN Configured ELSE cluster
      /\ UNCHANGED <<committedCmds, commitTo, appliedTo, localState, applyOps, passedBy>>
    BY DEF StartNode
<1>2. Effective' = Effective /\ appliedTo \in Nat
    BY <1>1 DEF Effective, Shaped, EngineTypeOK
<1>3. \A p \in Member \ drifted' : p \notin drifted /\ (p \in peersOf' <=> p \in peersOf)
    BY <1>1 DEF ClusterFollows
<1>4. ASSUME NEW k \in StateKey PROVE KeyFollows(k)'
  <2>1. Follows("down", KeyWrites(k), KeyValues(k), Absent, Effective, appliedTo, commitTo,
                replayed, localState[k])
      BY <1>1 DEF KeysFollow, KeyFollows
  <2>2. Follows("starting", KeyWrites(k), KeyValues(k), Absent, Effective, appliedTo, commitTo,
                appliedTo, localState[k])
      BY <1>2, <2>1, FollowsStarted
  <2> QED BY <1>1, <1>2, <2>2, SameLog DEF KeyFollows
<1>5. ASSUME NEW p \in Member \ drifted' PROVE PeerFollows(p)'
  <2>1. Follows("down", PeerChanges(p), PeerStandings(p), Standing(p \in Configured), Effective,
                appliedTo, commitTo, replayed, Standing(p \in peersOf))
      BY <1>1, <1>3 DEF PeersAllFollow, PeerFollows
  <2>2. Follows("starting", PeerChanges(p), PeerStandings(p), Standing(p \in Configured), Effective,
                appliedTo, commitTo, appliedTo, Standing(p \in peersOf))
      BY <1>2, <2>1, FollowsStarted
  <2>3. Standing(p \in peersOf)' = Standing(p \in peersOf)
      BY <1>3 DEF Standing
  <2> QED BY <1>1, <1>2, <2>2, <2>3, SameLog DEF PeerFollows
<1>6. ClusterFollows'
    BY <1>1 DEF ClusterFollows
<1> QED BY <1>4, <1>5, <1>6 DEF KeysFollow, PeersAllFollow

\* A start is through: all it replayed counts as applied.
LEMMA FinishedStep ==
    ASSUME Shaped, KeysFollow, PeersAllFollow, FinishStart
    PROVE  KeysFollow' /\ PeersAllFollow'
<1>1. /\ enginePhase = "starting" /\ replayed + 1 > commitTo /\ appliedTo' = replayed
      /\ enginePhase' = "ready"
      /\ UNCHANGED <<committedCmds, commitTo, cluster, localState, replayed, applyOps, peersOf,
                     passedBy, drifted>>
    BY DEF FinishStart, NextReplayed
<1>2. /\ appliedTo \in Nat /\ commitTo \in Nat /\ replayed = commitTo /\ appliedTo <= commitTo
      /\ Len(applyOps) = 0 /\ passedBy \subseteq 1..appliedTo
  <2>1. EngineTypeOK /\ OpsInOrder
      BY DEF Shaped
  <2>2. applyOps = << >> /\ Len(<< >>) = 0
      BY <1>1, <2>1, EmptySeq DEF OpsInOrder
  <2>3. /\ appliedTo \in Nat /\ commitTo \in 0..Len(committedCmds) /\ Len(committedCmds) \in Nat
        /\ appliedTo <= commitTo
      BY <2>1, EffectiveBound
  <2>4. replayed \in Nat /\ appliedTo <= replayed /\ replayed <= commitTo
      BY <1>1, <2>1 DEF EngineTypeOK, OpsInOrder
  <2>5. passedBy \subseteq 1..(appliedTo - 0)
      BY <2>1, <2>2 DEF OpsInOrder
  <2> QED BY <1>1, <2>2, <2>3, <2>4, <2>5
<1>3. Effective = 1..appliedTo \ passedBy /\ Effective' = 1..commitTo \ passedBy
    BY <1>1, <1>2 DEF Effective
<1>4. Effective \subseteq 1..appliedTo /\ Effective' = Effective \cup (appliedTo + 1)..commitTo
    BY <1>2, <1>3
<1>0. (\A k : KeyWrites(k) \subseteq Nat) /\ (\A p : PeerChanges(p) \subseteq Nat)
    BY IndicesAreNat DEF Shaped
<1>5. ASSUME NEW k \in StateKey PROVE KeyFollows(k)'
  <2>1. Follows("starting", KeyWrites(k), KeyValues(k), Absent, Effective, appliedTo, commitTo,
                commitTo, localState[k])
      BY <1>1, <1>2 DEF KeysFollow, KeyFollows
  <2>2. Follows("ready", KeyWrites(k), KeyValues(k), Absent, Effective \cup (appliedTo + 1)..commitTo,
                appliedTo', commitTo', replayed', localState[k])
      BY <1>0, <1>2, <1>4, <2>1, FollowsFinished
  <2> QED BY <1>1, <1>4, <2>2, SameLog DEF KeyFollows
<1>6. ASSUME NEW p \in Member \ drifted' PROVE PeerFollows(p)'
  <2>1. Follows("starting", PeerChanges(p), PeerStandings(p), Standing(p \in Configured), Effective,
                appliedTo, commitTo, commitTo, Standing(p \in peersOf))
      BY <1>1, <1>2 DEF PeersAllFollow, PeerFollows
  <2>2. Follows("ready", PeerChanges(p), PeerStandings(p), Standing(p \in Configured),
                Effective \cup (appliedTo + 1)..commitTo, appliedTo', commitTo', replayed',
                Standing(p \in peersOf))
      BY <1>0, <1>2, <1>4, <2>1, FollowsFinished
  <2>3. Standing(p \in peersOf)' = Standing(p \in peersOf)
      BY <1>1 DEF Standing
  <2> QED BY <1>1, <1>4, <2>2, <2>3, SameLog DEF PeerFollows
<1> QED BY <1>5, <1>6 DEF KeysFollow, PeersAllFollow
\* doApply does an index: it takes effect, or fails and is passed by.
LEMMA DoneStep ==
    ASSUME Shaped, KeysFollow, PeersAllFollow, ClusterFollows, ApplyOp
    PROVE  KeysFollow' /\ PeersAllFollow' /\ ClusterFollows'
<1> DEFINE d == Head(applyOps)
           n == Len(applyOps)
<1>1. PICK failed \in BOOLEAN :
          /\ ApplyCmd(committedCmds[d], failed)
          /\ passedBy' = IF failed THEN passedBy \cup {d} ELSE passedBy
    BY DEF ApplyOp
<1>2. /\ applyOps # << >> /\ applyOps' = Tail(applyOps)
      /\ UNCHANGED <<committedCmds, commitTo, appliedTo, enginePhase, replayed>>
    BY DEF ApplyOp
<1>3. /\ enginePhase = "ready" /\ n \in Nat \ {0} /\ d = appliedTo - n + 1
      /\ d \in 1..Len(committedCmds) /\ Len(applyOps') = n - 1
    BY <1>2, OpsFacts
<1>4. /\ appliedTo \in Nat /\ appliedTo - n \in Nat
      /\ passedBy \subseteq 1..(appliedTo - n) /\ Effective = 1..(appliedTo - n) \ passedBy
      /\ Effective' = 1..(appliedTo - (n - 1)) \ passedBy'
  <2>1. EngineTypeOK /\ OpsInOrder
      BY DEF Shaped
  <2> QED BY <1>2, <1>3, <2>1, EffectiveBound DEF OpsInOrder, Effective
<1>5. /\ d \in Nat /\ Effective \subseteq 1..(d - 1)
      /\ failed => Effective' = Effective
      /\ ~failed => Effective' = Effective \cup {d}
  <2> HIDE DEF d, n
  <2>1. d = appliedTo - n + 1 /\ n \in Nat /\ d \in Nat
      BY <1>3, <1>4
  <2>2. appliedTo - n = d - 1 /\ appliedTo - (n - 1) = d
      BY <1>4, <2>1
  <2>3. 1..d = 1..(d - 1) \cup {d} /\ d \notin 1..(d - 1)
      BY <2>1, <1>4
  <2>4. /\ passedBy \subseteq 1..(d - 1) /\ Effective = 1..(d - 1) \ passedBy
        /\ Effective' = (1..(d - 1) \cup {d}) \ passedBy'
      BY <1>4, <2>2, <2>3
  <2>5. failed => Effective' = Effective
      BY <1>1, <2>3, <2>4
  <2>6. ~failed => Effective' = Effective \cup {d}
      BY <1>1, <2>3, <2>4
  <2> QED BY <2>1, <2>4, <2>5, <2>6
<1>6. /\ ClusterFollows'
      /\ \A k \in StateKey :
            localState'[k] = IF ~failed /\ d \in KeyWrites(k) THEN KeyValues(k)[d] ELSE localState[k]
      /\ \A p \in Member \ drifted' :
            /\ Standing(p \in peersOf') = IF ~failed /\ d \in PeerChanges(p) THEN PeerStandings(p)[d]
                                          ELSE Standing(p \in peersOf)
            /\ p \notin drifted \/ (~failed /\ d \in PeerChanges(p))
    BY <1>1, <1>2, <1>3, IndexEffect DEF Shaped
<1> HIDE DEF d, n
<1>7. CASE failed
    BY <1>2, <1>3, <1>5, <1>6, <1>7, IdleStep
<1>8. CASE ~failed
    BY <1>2, <1>3, <1>5, <1>6, <1>8, AppliedStep
<1> QED BY <1>6, <1>7, <1>8

\* The same for an entry that a start replays, or fails at.
LEMMA ReplayStep ==
    ASSUME Shaped, KeysFollow, PeersAllFollow, ClusterFollows, ReplayOp
    PROVE  KeysFollow' /\ PeersAllFollow' /\ ClusterFollows'
<1> DEFINE i == replayed + 1
<1>1. PICK failed \in BOOLEAN :
          /\ ApplyCmd(committedCmds[i], failed)
          /\ enginePhase' = IF failed THEN "down" ELSE enginePhase
          /\ replayed' = IF failed THEN replayed ELSE i
    BY DEF ReplayOp, NextReplayed
<1>2. /\ enginePhase = "starting" /\ i <= commitTo
      /\ UNCHANGED <<committedCmds, commitTo, appliedTo, applyOps, passedBy>>
    BY DEF ReplayOp, NextReplayed
<1>3. i \in 1..Len(committedCmds)
  <2>1. replayed \in Nat /\ commitTo \in 0..Len(committedCmds) /\ Len(committedCmds) \in Nat
      BY LenProperties DEF Shaped, EngineTypeOK
  <2> QED BY <1>2, <2>1
<1>4. /\ ClusterFollows'
      /\ \A k \in StateKey :
            localState'[k] = IF ~failed /\ i \in KeyWrites(k) THEN KeyValues(k)[i] ELSE localState[k]
      /\ \A p \in Member \ drifted' :
            /\ Standing(p \in peersOf') = IF ~failed /\ i \in PeerChanges(p) THEN PeerStandings(p)[i]
                                          ELSE Standing(p \in peersOf)
            /\ p \notin drifted \/ (~failed /\ i \in PeerChanges(p))
    BY <1>1, <1>2, <1>3, IndexEffect DEF Shaped
<1>5. Effective' = Effective
    BY <1>2 DEF Effective
<1>6. CASE failed
  <2> HIDE DEF i
  <2> QED BY <1>1, <1>2, <1>4, <1>5, <1>6, IdleStep
<1>7. CASE ~failed
    BY <1>1, <1>2, <1>4, <1>5, <1>7, ReplayedStep
<1> QED BY <1>4, <1>6, <1>7

\* Indices that doApply still had when the process ended have no effect, as before.
LEMMA CrashStep ==
    ASSUME Shaped, KeysFollow, PeersAllFollow, ClusterFollows, EngineCrash
    PROVE  KeysFollow' /\ PeersAllFollow' /\ ClusterFollows'
<1>1. /\ enginePhase' = "down" /\ applyOps' = << >>
      /\ passedBy' = passedBy \cup {applyOps[k] : k \in DOMAIN applyOps}
      /\ UNCHANGED <<committedCmds, commitTo, appliedTo, cluster, localState, replayed, peersOf, drifted>>
    BY DEF EngineCrash, engineStored
<1>2. Effective' = Effective
  <2> DEFINE n == Len(applyOps)
             skipped == {applyOps[k] : k \in DOMAIN applyOps}
  <2>1. /\ appliedTo \in Nat /\ n \in Nat /\ appliedTo - n \in Nat
        /\ DOMAIN applyOps = 1..n
        /\ \A j \in 1..n : applyOps[j] = appliedTo - n + j
        /\ Effective = 1..(appliedTo - n) \ passedBy
    <3>1. EngineTypeOK /\ OpsInOrder
        BY DEF Shaped
    <3>2. DOMAIN applyOps = 1..n
        BY <3>1, LenProperties DEF EngineTypeOK
    <3> QED BY <3>1, <3>2, EffectiveBound DEF OpsInOrder, Effective
  <2>2. \A x \in 1..appliedTo : x \in skipped <=> x \notin 1..(appliedTo - n)
    <3> SUFFICES ASSUME NEW x \in 1..appliedTo PROVE x \in skipped <=> x \notin 1..(appliedTo - n)
        OBVIOUS
    <3>1. ASSUME x \notin 1..(appliedTo - n) PROVE x \in skipped
      <4> DEFINE j == x - (appliedTo - n)
      <4>1. j \in 1..n /\ appliedTo - n + j = x
        <5> HIDE DEF n
        <5> QED BY <2>1, <3>1
      <4>2. applyOps[j] = x /\ j \in DOMAIN applyOps
          BY <2>1, <4>1
      <4> QED BY <4>2
    <3>2. ASSUME x \in skipped PROVE x \notin 1..(appliedTo - n)
      <4>1. PICK j \in 1..n : x = appliedTo - n + j
          BY <2>1, <3>2
      <4> HIDE DEF n
      <4> QED BY <2>1, <4>1
    <3> QED BY <3>1, <3>2
  <2>3. Effective' = 1..appliedTo \ (passedBy \cup skipped)
    <3>1. Len(<< >>) = 0
        BY EmptySeq
    <3> QED BY <1>1, <2>1, <3>1 DEF Effective
  <2>4. 1..(appliedTo - n) \subseteq 1..appliedTo
    <3> HIDE DEF n
    <3> QED BY <2>1
  <2> HIDE DEF n, skipped
  <2> QED BY <2>1, <2>2, <2>3, <2>4
<1>3. ClusterFollows'
    BY <1>1 DEF ClusterFollows
<1>4. \A p \in Member \ drifted' : p \notin drifted /\ Standing(p \in peersOf') = Standing(p \in peersOf)
    BY <1>1
<1> QED BY <1>1, <1>2, <1>3, <1>4, IdleStep
\* Every step keeps what is followed.
LEMMA FollowStep ==
    ASSUME Shaped, KeysFollow, PeersAllFollow, ClusterFollows, [EngineNext]_engineVars
    PROVE  KeysFollow' /\ PeersAllFollow' /\ ClusterFollows'
<1> USE DEF engineStored, engineMemory
<1>1. CASE UNCHANGED engineVars
  <2>1. UNCHANGED <<committedCmds, commitTo, appliedTo, cluster, localState, enginePhase, replayed,
                    applyOps, peersOf, passedBy, drifted>>
      BY <1>1 DEF engineVars
  <2>2. Effective' = Effective
      BY <2>1 DEF Effective
  <2>3. \A k \in StateKey : KeyFollows(k)'
      BY <2>1, <2>2, SameLog DEF KeysFollow, KeyFollows
  <2>4. \A p \in Member : Standing(p \in peersOf)' = Standing(p \in peersOf)
      BY <2>1 DEF Standing
  <2>5. \A p \in Member \ drifted' : PeerFollows(p)'
      BY <2>1, <2>2, <2>4, SameLog DEF PeersAllFollow, PeerFollows
  <2>6. ClusterFollows'
      BY <2>1 DEF ClusterFollows
  <2> QED BY <2>3, <2>5, <2>6 DEF KeysFollow, PeersAllFollow
<1>2. ASSUME NEW cmd \in StateCommand, CommitCmd(cmd)
      PROVE  KeysFollow' /\ PeersAllFollow' /\ ClusterFollows'
  <2>1. ClusterFollows'
      BY <1>2 DEF CommitCmd, ClusterFollows
  <2> QED BY <1>2, <2>1, CommittedStep
<1>3. CASE LearnCommit
  <2>1. /\ enginePhase = "ready"
        /\ UNCHANGED <<committedCmds, appliedTo, cluster, localState, enginePhase, applyOps, peersOf,
                       passedBy, drifted>>
      BY <1>3 DEF LearnCommit
  <2>2. Effective' = Effective
      BY <2>1 DEF Effective
  <2>3. ClusterFollows'
      BY <2>1 DEF ClusterFollows
  <2> QED BY <2>1, <2>2, <2>3, IdleStep
<1>4. CASE CollectOp
  <2>1. /\ enginePhase = "ready" /\ appliedTo' = appliedTo + 1
        /\ applyOps' = Append(applyOps, appliedTo + 1)
        /\ UNCHANGED <<committedCmds, cluster, localState, enginePhase, peersOf, passedBy, drifted>>
      BY <1>4 DEF CollectOp
  <2>2. appliedTo \in Nat /\ applyOps \in Seq(Nat) /\ Len(applyOps) \in Nat
      BY LenProperties DEF Shaped, EngineTypeOK
  <2>3. Len(applyOps') = Len(applyOps) + 1
      BY <2>1, <2>2, AppendProperties
  <2>4. appliedTo' - Len(applyOps') = appliedTo - Len(applyOps)
      BY <2>1, <2>2, <2>3
  <2>5. Effective' = Effective
      BY <2>1, <2>4 DEF Effective
  <2>6. ClusterFollows'
      BY <2>1 DEF ClusterFollows
  <2> QED BY <2>1, <2>5, <2>6, IdleStep
<1>5. CASE ApplyOp
    BY <1>5, DoneStep
<1>6. CASE EngineCrash
    BY <1>6, CrashStep
<1>7. CASE ReplayOp
    BY <1>7, ReplayStep
<1>8. CASE FinishStart
  <2>1. ClusterFollows'
      BY <1>8 DEF FinishStart, ClusterFollows
  <2> QED BY <1>8, <2>1, FinishedStep
<1>9. ASSUME NEW bootstrap \in BOOLEAN, StartNode(bootstrap)
      PROVE  KeysFollow' /\ PeersAllFollow' /\ ClusterFollows'
    BY <1>9, StartedStep
<1> QED BY <1>1, <1>2, <1>3, <1>4, <1>5, <1>6, <1>7, <1>8, <1>9 DEF EngineNext, EngineStep

\* Before the first command a key has no value, and the peers are the configured ones.
LEMMA FollowInit == EngineInit => KeysFollow /\ PeersAllFollow /\ ClusterFollows
<1> SUFFICES ASSUME EngineInit PROVE KeysFollow /\ PeersAllFollow /\ ClusterFollows
    OBVIOUS
<1>1. /\ appliedTo = 0 /\ Len(applyOps) = 0 /\ enginePhase = "ready" /\ peersOf = Configured
      /\ cluster \in {{}, Configured} /\ \A k \in StateKey : localState[k] = Absent
    BY EmptySeq DEF EngineInit
<1>2. Effective = {}
    BY <1>1 DEF Effective
<1>3. \A k \in StateKey : KeyFollows(k)
    BY <1>1, <1>2 DEF KeyFollows, Follows, Logged
<1>4. \A p \in Member : PeerFollows(p)
    BY <1>1, <1>2 DEF PeerFollows, Follows, Logged
<1>5. ClusterFollows
    BY <1>1 DEF ClusterFollows
<1> QED BY <1>3, <1>4, <1>5 DEF KeysFollow, PeersAllFollow

-----------------------------------------------------------------------------
(* The theorems.                                                           *)

\* Whatever is proposed, fails, or is cut short: the shapes hold, doApply has the last of the
\* applied indices to do, and keys and peers have what the log gives them.
THEOREM EngineHolds == EngineSpec => []EngineInv
<1>1. EngineInv <=> Shaped /\ KeysFollow /\ PeersAllFollow /\ ClusterFollows
    BY KeyLink, PeerLink DEF EngineInv, Shaped, KeysFollow, PeersAllFollow
<1>2. EngineInit => EngineInv
    BY <1>1, ShapedInit, FollowInit
<1>3. EngineInv /\ [EngineNext]_engineVars => EngineInv'
  <2> SUFFICES ASSUME EngineInv, [EngineNext]_engineVars PROVE EngineInv'
      OBVIOUS
  <2>1. Shaped' /\ KeysFollow' /\ PeersAllFollow' /\ ClusterFollows'
      BY <1>1, ShapedStep, FollowStep
  <2>2. ValuesFollow' /\ PeersFollow'
      BY <2>1, LinksNext DEF Shaped, KeysFollow, PeersAllFollow
  <2> QED BY <2>1, <2>2 DEF EngineInv, Shaped
<1> QED BY <1>2, <1>3, PTL DEF EngineSpec

\* applyCmd, doApply and applyCommitted: what a node that is ready answers reads from is what
\* the log says, and so are its peers.
THEOREM NodeFollows == EngineSpec => []NodeFollowsLog
<1>1. EngineInv => NodeFollowsLog
    BY DEF EngineInv, ValuesFollow, PeersFollow, NodeFollowsLog
<1> QED BY <1>1, EngineHolds, PTL
=============================================================================
