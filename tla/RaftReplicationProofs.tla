----------------------- MODULE RaftReplicationProofs -----------------------
(***************************************************************************)
(* Replication with one candidate c, for any cluster, any bounds, lossy or *)
(* reliable calls, crashes and re-elections of c: ReplicationInv is        *)
(* inductive, and LogsArePrefixes, CommittedOnMajority and                 *)
(* AckedMeansReplicated follow from it. The argument: c's log only grows   *)
(* at its end, every request in flight is a piece of it, so every other    *)
(* log is a prefix of it, and what a peer once stored it keeps. So no step *)
(* loses an entry, and the group implements CommittedLog.                  *)
(***************************************************************************)
EXTENDS RaftProofs

USE BoundAssumption DEF BoundAssumption

-----------------------------------------------------------------------------
(* The log operators.                                                      *)

\* A prefix has no gaps below its last index.
LEMMA PrefixFilled ==
    ASSUME NEW l, NEW big, PrefixOf(l, big)
    PROVE  \A i \in 1..LastIndex(l) : i \in Index /\ l[i] # Nil /\ l[i] = big[i]
<1>1. MaxLog \in Nat
    OBVIOUS
<1>2. /\ LastIndex(l) \in 0..MaxLog
      /\ LastIndex(l) > 0 => LastIndex(l) \in Index /\ l[LastIndex(l)] # Nil
    BY <1>1, LastIndexFacts
<1> SUFFICES ASSUME NEW i \in 1..LastIndex(l)
             PROVE  i \in Index /\ l[i] # Nil /\ l[i] = big[i]
    OBVIOUS
<1>3. i \in Index /\ LastIndex(l) > 0
    BY <1>2 DEF Index
<1>4. l[i] # Nil
    BY <1>2, <1>3 DEF PrefixOf
<1> QED BY <1>3, <1>4 DEF PrefixOf

\* An entry stored right after the last one extends the log and changes nothing else.
LEMMA StoreAtEnd ==
    ASSUME NEW l \in Logs, PrefixOf(l, l), NEW e \in Entry, LastIndex(l) + 1 \in Index
    PROVE  LET i == LastIndex(l) + 1
               new == StoreLog(l, i, e)
           IN  /\ new[i] = e
               /\ \A j \in Index : l[j] # Nil => new[j] = l[j]
               /\ PrefixOf(new, new)
               /\ \A j \in 1..i : j \in Index /\ new[j] # Nil
               /\ LastIndex(new) = i
<1> DEFINE i == LastIndex(l) + 1
           new == StoreLog(l, i, e)
<1>1. /\ LastIndex(l) \in 0..MaxLog
      /\ \A j \in Index : l[j] # Nil => j <= LastIndex(l)
    BY LastIndexFacts
<1>2. \A j \in Index : new[j] = IF j = i THEN e ELSE l[j]
    BY DEF StoreLog, Logs
<1>3. e # Nil
    BY NilAssumption
<1>4. \A j \in Index : l[j] # Nil => new[j] = l[j]
    BY <1>1, <1>2
<1>5. \A j \in 1..i : j \in Index /\ new[j] # Nil
  <2> SUFFICES ASSUME NEW j \in 1..i PROVE j \in Index /\ new[j] # Nil
      OBVIOUS
  <2>1. j \in Index
      BY <1>1 DEF Index
  <2>2. CASE j = i
      BY <1>2, <1>3, <2>1, <2>2
  <2>3. CASE j # i
    <3>1. j \in 1..LastIndex(l)
        BY <1>1, <2>3
    <3>2. l[j] # Nil
        BY <3>1, PrefixFilled
    <3> QED BY <1>4, <2>1, <3>2
  <2> QED BY <2>2, <2>3
<1>6. \A j \in Index : new[j] # Nil => j <= i
    BY <1>1, <1>2 DEF Index
<1>7. PrefixOf(new, new)
  <2> SUFFICES ASSUME NEW j \in Index, new[j] # Nil, NEW k \in 1..j PROVE new[k] # Nil
      BY DEF PrefixOf
  <2>1. j <= i /\ k \in 1..i
      BY <1>1, <1>6 DEF Index
  <2> QED BY <1>5, <2>1
<1>8. LastIndex(new) = i
  <2>1. /\ LastIndex(new) \in 0..MaxLog
        /\ \A j \in Index : new[j] # Nil => j <= LastIndex(new)
        /\ LastIndex(new) > 0 => LastIndex(new) \in Index /\ new[LastIndex(new)] # Nil
      BY LastIndexFacts
  <2>2. i \in Index /\ new[i] # Nil /\ i > 0
      BY <1>2, <1>3 DEF Index
  <2>3. i <= LastIndex(new) /\ LastIndex(new) <= i
      BY <1>6, <2>1, <2>2 DEF Index
  <2> HIDE DEF new
  <2> QED BY <1>1, <2>1, <2>3
<1> QED BY <1>2, <1>4, <1>5, <1>7, <1>8

\* A request cut from big, met by a prefix of big: the append loop only fills in.
LEMMA AppendLoopFills ==
    ASSUME NEW l \in Logs, NEW entries \in Logs, NEW big, PrefixOf(l, big),
           \A i \in Index : entries[i] # Nil => entries[i] = big[i]
    PROVE  AppendLoop(l, entries) =
              [i \in Index |-> IF l[i] = Nil THEN entries[i] ELSE l[i]]
<1>1. Clashes(l, entries) = {}
    BY DEF Clashes, PrefixOf
<1> QED BY <1>1 DEF AppendLoop

\* ... and leaves a longer prefix, if it begins within the log or right after it.
LEMMA AppendLoopPrefix ==
    ASSUME NEW l \in Logs, NEW entries \in Logs, NEW big, NEW next \in 1..(MaxLog + 1),
           PrefixOf(l, big),
           \A i \in Index : entries[i] # Nil =>
               /\ entries[i] = big[i] /\ next <= i
               /\ \A j \in next..i : entries[j] # Nil,
           next > 1 => l[next - 1] # Nil
    PROVE  LET new == AppendLoop(l, entries)
           IN  /\ PrefixOf(new, big)
               /\ \A i \in Index : l[i] # Nil => new[i] = l[i]
               /\ \A i \in Index : entries[i] # Nil => new[i] # Nil
<1> DEFINE new == AppendLoop(l, entries)
<1>1. \A i \in Index : new[i] = IF l[i] = Nil THEN entries[i] ELSE l[i]
    BY AppendLoopFills
<1> HIDE DEF new
<1>2. \A i \in Index : new[i] # Nil => new[i] = big[i]
    BY <1>1 DEF PrefixOf
<1>3. ASSUME NEW i \in Index, new[i] # Nil, NEW j \in 1..i PROVE new[j] # Nil
  <2>1. j \in Index /\ i \in Nat
      BY DEF Index
  <2>2. CASE l[i] # Nil
    <3>1. l[j] # Nil
        BY <2>2 DEF PrefixOf
    <3> QED BY <1>1, <2>1, <3>1
  <2>3. CASE l[i] = Nil
    <3>1. /\ entries[i] # Nil /\ next <= i
          /\ \A k \in next..i : entries[k] # Nil
        BY <1>1, <1>3, <2>3
    <3>2. CASE j >= next
      <4>1. entries[j] # Nil
          BY <2>1, <3>1, <3>2
      <4> QED BY <1>1, <2>1, <4>1
    <3>3. CASE j < next
      <4>1. next - 1 \in Index /\ j \in 1..(next - 1) /\ next > 1
          BY <2>1, <3>3 DEF Index
      <4>2. l[next - 1] # Nil
          BY <4>1
      <4>3. l[j] # Nil
          BY <4>1, <4>2 DEF PrefixOf
      <4> QED BY <1>1, <2>1, <4>3
    <3> QED BY <2>1, <3>2, <3>3
  <2> QED BY <2>2, <2>3
<1> QED BY <1>1, <1>2, <1>3 DEF new, PrefixOf

\* LogEntries cuts a contiguous piece that begins at first.
LEMMA LogEntriesPiece ==
    ASSUME NEW l \in Logs, NEW first \in 1..(MaxLog + 1)
    PROVE  LET piece == LogEntries(l, first, MaxBatch)
           IN  \A i \in Index : piece[i] # Nil =>
                  /\ piece[i] = l[i] /\ first <= i
                  /\ \A j \in first..i : piece[j] # Nil
<1> DEFINE piece == LogEntries(l, first, MaxBatch)
<1>1. \A i \in Index : piece[i] = IF /\ i \in first..(first + MaxBatch - 1)
                                     /\ \A j \in first..i : l[j] # Nil
                                  THEN l[i] ELSE Nil
    BY DEF LogEntries
<1> HIDE DEF piece
<1>2. ASSUME NEW i \in Index, piece[i] # Nil
      PROVE  /\ piece[i] = l[i] /\ first <= i
             /\ \A j \in first..i : piece[j] # Nil
  <2>1. /\ i \in first..(first + MaxBatch - 1)
        /\ \A j \in first..i : l[j] # Nil
      BY <1>1, <1>2
  <2>2. piece[i] = l[i] /\ first <= i
      BY <1>1, <2>1
  <2>3. ASSUME NEW j \in first..i PROVE piece[j] # Nil
    <3>1. j \in Index
        BY DEF Index
    <3>2. j \in first..(first + MaxBatch - 1)
        BY <2>1 DEF Index
    <3>3. \A k \in first..j : l[k] # Nil
        BY <2>1 DEF Index
    <3>4. l[j] # Nil
        BY <2>1
    <3> QED BY <1>1, <3>1, <3>2, <3>3, <3>4
  <2> QED BY <2>2, <2>3
<1> QED BY <1>2 DEF piece

\* A superset of a majority is a majority.
LEMMA MajorityGrows ==
    ASSUME NEW S, NEW T, S \subseteq T, T \subseteq Node, Majority(S)
    PROVE  Majority(T)
<1>1. IsFiniteSet(T)
    BY NodeAssumption, FS_Subset
<1>2. /\ IsFiniteSet(S)
      /\ Cardinality(S) <= Cardinality(T)
    BY <1>1, FS_Subset
<1>3. /\ Cardinality(S) \in Nat /\ Cardinality(T) \in Nat /\ Cardinality(Node) \in Nat
    BY <1>1, <1>2, NodeAssumption, FS_CardinalityType
<1> QED BY <1>2, <1>3 DEF Majority

-----------------------------------------------------------------------------
(* Only the candidate acts.                                                *)

\* A node that is not the candidate stays out of the way, and all calls are the
\* candidate's.
LEMMA ActorsStep ==
    ASSUME NEW c, Candidates = {c}, TypeOK, OnlyCandidatesAct, [Next]_vars
    PROVE  OnlyCandidatesAct'
<1> USE DEF stable, roleVars, leaderVars, loopVars, applyVars
<1> DEFINE Quiet(n) == /\ state[n] # "leader" /\ loop[n] = Idle /\ beat[n] = "none"
                       /\ queue[n] = << >>
                       /\ \A i \in Index : proposals[n][i] = Nil
                       /\ \A op \in pending[n] : op.cmd = Nil
           BallotsOut == \A b \in ballots : b.from = c /\ b.to # b.from
           AppendsOut == \A a \in appends : a.from = c /\ a.to # a.from
<1>a. /\ \A n \in Node \ {c} : Quiet(n)
      /\ BallotsOut /\ AppendsOut
      /\ c \in Node
    BY NodeAssumption DEF OnlyCandidatesAct
<1>b. (\A n \in Node \ {c} : Quiet(n)') /\ BallotsOut' /\ AppendsOut' => OnlyCandidatesAct'
    BY DEF OnlyCandidatesAct
<1>c. \A n \in Node \ {c} : loop[n].pc = "idle"
    BY <1>a DEF Idle, Doing
<1>d. /\ loop \in [Node -> LoopStates] /\ beat \in [Node -> {"none", "due", "checked"}]
      /\ queue \in [Node -> Seq(Cmd)] /\ state \in [Node -> {"follower", "candidate", "leader"}]
      /\ proposals \in [Node -> [Index -> Cmd \cup {Nil}]]
      /\ pending \in [Node -> SUBSET Operation]
    BY DEF TypeOK, LoopType, RoleType, LeaderType, ApplyType
<1>e. ballots \subseteq Ballots /\ appends \subseteq AppendCalls
    BY DEF TypeOK, CallType
<1>f. \A n \in Node : \A b \in Late(n) : b.from = c /\ b.to # b.from
  <2> SUFFICES ASSUME NEW n \in Node, NEW b \in ballots
               PROVE  LET x == [b EXCEPT !.mode =
                                  IF b.from = n /\ @ = "live" THEN "late" ELSE @]
                      IN  x.from = c /\ x.to # x.from
      BY DEF Late
  <2> QED BY <1>a, <1>e DEF Ballots
<1>g. \A b \in ballots : LET x == [b EXCEPT !.mode = "orphan"] IN x.from = c /\ x.to # x.from
    BY <1>a, <1>e DEF Ballots
<1>h. \A a \in appends : LET x == [a EXCEPT !.orphan = TRUE] IN x.from = c /\ x.to # x.from
    BY <1>a, <1>e DEF AppendCalls
<1> HIDE DEF OnlyCandidatesAct
<1>1. ASSUME NEW n \in Node, StartPreVote(n) PROVE OnlyCandidatesAct'
  <2>1. n = c
      BY <1>1 DEF StartPreVote
  <2>2. BallotsOut'
      BY <1>1, <1>f, <2>1 DEF StartPreVote, Calls, Peers
  <2> QED BY <1>1, <1>a, <1>b, <1>d, <2>1, <2>2 DEF StartPreVote
<1>2. ASSUME NEW n \in Node, ElectAlone(n) PROVE OnlyCandidatesAct'
  <2>1. n = c
      BY <1>2 DEF ElectAlone
  <2> QED BY <1>2, <1>a, <1>b, <1>d, <2>1 DEF ElectAlone
<1>3. ASSUME NEW n \in Node, StartVote(n) PROVE OnlyCandidatesAct'
  <2>1. n = c
      BY <1>3, <1>c DEF StartVote
  <2>2. BallotsOut'
      BY <1>3, <1>f, <2>1 DEF StartVote, Calls, Peers
  <2> QED BY <1>3, <1>a, <1>b, <1>d, <2>1, <2>2 DEF StartVote
<1>4. ASSUME NEW n \in Node, PreVoteFail(n) PROVE OnlyCandidatesAct'
  <2>1. n = c
      BY <1>4, <1>c DEF PreVoteFail, Failed
  <2> QED BY <1>4, <1>a, <1>b, <1>d, <2>1 DEF PreVoteFail
<1>5. ASSUME NEW n \in Node, LoseElection(n) PROVE OnlyCandidatesAct'
  <2>1. n = c
      BY <1>5, <1>c DEF LoseElection, Failed
  <2> QED BY <1>5, <1>a, <1>b, <1>d, <2>1 DEF LoseElection
<1>6. ASSUME NEW n \in Node, BecomeLeader(n) PROVE OnlyCandidatesAct'
  <2>1. n = c
      BY <1>6, <1>c DEF BecomeLeader
  <2>2. BallotsOut'
      BY <1>6, <1>f DEF BecomeLeader
  <2> QED BY <1>6, <1>a, <1>b, <1>d, <2>1, <2>2 DEF BecomeLeader
<1>7. ASSUME NEW n \in Node, AppendNoOp(n) PROVE OnlyCandidatesAct'
  <2>1. n = c
      BY <1>7, <1>c DEF AppendNoOp
  <2>2. \A m \in Node \ {c} : proposals'[m] = proposals[m] /\ pending'[m] = pending[m]
      BY <1>7, <1>d, <2>1 DEF AppendNoOp, CommitAlone, CollectApplyOps
  <2> QED BY <1>7, <1>a, <1>b, <1>d, <2>1, <2>2 DEF AppendNoOp
<1>8. ASSUME NEW n \in Node, Apply(n) PROVE OnlyCandidatesAct'
  <2>1. \A m \in Node : pending'[m] \subseteq pending[m]
      BY <1>8, <1>d DEF Apply
  <2> QED BY <1>8, <1>a, <1>b, <2>1 DEF Apply
<1>9. ASSUME NEW n \in Node, NEW x \in Cmd, Propose(n, x) PROVE OnlyCandidatesAct'
  <2>1. n = c
      BY <1>9, <1>a DEF Propose
  <2> QED BY <1>9, <1>a, <1>b, <1>d, <2>1 DEF Propose
<1>10. ASSUME NEW n \in Node, TakeProposal(n) PROVE OnlyCandidatesAct'
  <2>1. n = c
      BY <1>10, <1>a DEF TakeProposal
  <2> QED BY <1>10, <1>a, <1>b, <1>d, <2>1 DEF TakeProposal
<1>11. ASSUME NEW n \in Node, AppendProposal(n) PROVE OnlyCandidatesAct'
  <2>1. n = c
      BY <1>11, <1>c DEF AppendProposal
  <2>2. \A m \in Node \ {c} : proposals'[m] = proposals[m] /\ pending'[m] = pending[m]
      BY <1>11, <1>d, <2>1 DEF AppendProposal, CommitAlone, CollectApplyOps
  <2> QED BY <1>11, <1>a, <1>b, <1>d, <2>1, <2>2 DEF AppendProposal
<1>12. ASSUME NEW n \in Node, Tick(n) PROVE OnlyCandidatesAct'
  <2>1. n = c
      BY <1>12, <1>a DEF Tick
  <2> QED BY <1>12, <1>a, <1>b, <1>d, <2>1 DEF Tick
<1>13. ASSUME NEW n \in Node, CheckBeat(n) PROVE OnlyCandidatesAct'
  <2>1. n = c
      BY <1>13, <1>a DEF CheckBeat
  <2> QED BY <1>13, <1>a, <1>b, <1>d, <2>1 DEF CheckBeat
<1>14. ASSUME NEW n \in Node, SpawnReplicators(n) PROVE OnlyCandidatesAct'
  <2>1. n = c
      BY <1>14, <1>a, <1>c DEF SpawnReplicators
  <2>2. AppendsOut'
      BY <1>14, <1>a, <2>1 DEF SpawnReplicators, Peers
  <2> QED BY <1>14, <1>a, <1>b, <1>d, <2>1, <2>2 DEF SpawnReplicators
<1>15. ASSUME NEW n \in Node, Crash(n) PROVE OnlyCandidatesAct'
  <2>1. BallotsOut'
    <3> SUFFICES ASSUME NEW b \in ballots'
                 PROVE  b.from = c /\ b.to # b.from
        OBVIOUS
    <3>1. b \in ballots \/ \E x \in ballots : b = [x EXCEPT !.mode = "orphan"]
        BY <1>15 DEF Crash
    <3> QED BY <1>a, <1>g, <3>1
  <2>3. AppendsOut'
    <3> SUFFICES ASSUME NEW a \in appends'
                 PROVE  a.from = c /\ a.to # a.from
        OBVIOUS
    <3>1. a \in appends \/ \E x \in appends : a = [x EXCEPT !.orphan = TRUE]
        BY <1>15 DEF Crash
    <3> QED BY <1>a, <1>h, <3>1
  <2>2. ASSUME NEW m \in Node \ {c} PROVE Quiet(m)'
    <3>1. CASE m = n
        BY <1>15, <1>d, <3>1 DEF Crash
    <3>2. CASE m # n
        BY <1>15, <1>a, <1>d, <3>2 DEF Crash
    <3> QED BY <3>1, <3>2
  <2> QED BY <1>b, <2>1, <2>2, <2>3
<1>16. ASSUME NEW n \in Node, \/ Restart(n) \/ ReplayEntry(n) \/ FinishStart(n) \/ FailStart(n)
       PROVE  OnlyCandidatesAct'
    BY <1>16, <1>a, <1>b DEF Restart, ReplayEntry, FinishStart, FailStart
<1>17. ASSUME NEW b \in ballots, HandlePreVote(b) PROVE OnlyCandidatesAct'
  <2>1. BallotsOut'
      BY <1>17, <1>a DEF HandlePreVote, Answer
  <2> QED BY <1>17, <1>a, <1>b, <2>1 DEF HandlePreVote
<1>18. ASSUME NEW b \in ballots, RejectVote(b) PROVE OnlyCandidatesAct'
  <2>1. BallotsOut'
      BY <1>18, <1>a DEF RejectVote, Answer
  <2> QED BY <1>18, <1>a, <1>b, <2>1 DEF RejectVote
<1>19. ASSUME NEW b \in ballots, HandleVote(b) PROVE OnlyCandidatesAct'
  <2>1. BallotsOut'
      BY <1>19, <1>a DEF HandleVote, Answer
  <2>2. \A m \in Node : state'[m] \in {state[m], "follower"}
      BY <1>19, <1>d DEF HandleVote
  <2> QED BY <1>19, <1>a, <1>b, <2>1, <2>2 DEF HandleVote
<1>20. ASSUME NEW b \in ballots, NEW yes, Collect(b, yes)
       PROVE  \A m \in Node \ {c} : loop'[m] = loop[m]
    BY <1>20, <1>a, <1>d DEF Collect
<1>21. ASSUME NEW b \in ballots, PreVoteReply(b) PROVE OnlyCandidatesAct'
  <2>1. \A m \in Node \ {c} : loop'[m] = loop[m]
      BY <1>20, <1>21 DEF PreVoteReply
  <2>2. \A m \in Node : state'[m] \in {state[m], "follower"}
      BY <1>21, <1>d DEF PreVoteReply, AdoptTerm
  <2> QED BY <1>21, <1>a, <1>b, <2>1, <2>2 DEF PreVoteReply
<1>22. ASSUME NEW b \in ballots, VoteReply(b) PROVE OnlyCandidatesAct'
  <2>1. \A m \in Node \ {c} : loop'[m] = loop[m]
      BY <1>20, <1>22 DEF VoteReply
  <2>2. \A m \in Node : state'[m] \in {state[m], "follower"}
      BY <1>22, <1>d DEF VoteReply, AdoptTerm
  <2> QED BY <1>22, <1>a, <1>b, <2>1, <2>2 DEF VoteReply
<1>23. ASSUME NEW b \in ballots, FailBallot(b) PROVE OnlyCandidatesAct'
  <2>1. \A m \in Node \ {c} : loop'[m] = loop[m]
      BY <1>20, <1>23 DEF FailBallot
  <2>2. BallotsOut'
    <3> DEFINE x == [b EXCEPT !.mode = "orphan"]
    <3>1. x.from = c /\ x.to # x.from
        BY <1>g
    <3>2. ballots' \subseteq ballots \cup {x}
        BY <1>23 DEF FailBallot
    <3> HIDE DEF x
    <3> QED BY <1>a, <3>1, <3>2
  <2> QED BY <1>23, <1>a, <1>b, <2>1, <2>2 DEF FailBallot
<1>24. ASSUME NEW a \in appends, Replicate(a) PROVE OnlyCandidatesAct'
  <2>1. \A next, prevTerm, entries, sent :
           LET x == [a EXCEPT !.phase = "request", !.next = next, !.prevTerm = prevTerm,
                              !.entries = entries, !.sent = sent]
           IN  x.from = c /\ x.to # x.from
      BY <1>a, <1>e DEF AppendCalls
  <2>2. PICK next, prevTerm, entries, sent :
           appends' = (appends \ {a}) \cup
              {[a EXCEPT !.phase = "request", !.next = next, !.prevTerm = prevTerm,
                         !.entries = entries, !.sent = sent]}
      BY <1>24 DEF Replicate
  <2>3. AppendsOut'
    <3> DEFINE x == [a EXCEPT !.phase = "request", !.next = next, !.prevTerm = prevTerm,
                              !.entries = entries, !.sent = sent]
    <3>1. x.from = c /\ x.to # x.from
        BY <2>1
    <3> HIDE DEF x
    <3> QED BY <1>a, <2>2, <3>1 DEF x
  <2> QED BY <1>24, <1>a, <1>b, <2>3 DEF Replicate
<1>25. ASSUME NEW a \in appends, RejectAppend(a) PROVE OnlyCandidatesAct'
  <2>1. AppendsOut'
      BY <1>25, <1>a DEF RejectAppend, Respond
  <2> QED BY <1>25, <1>a, <1>b, <2>1 DEF RejectAppend
<1>26. ASSUME NEW a \in appends, MismatchAppend(a) PROVE OnlyCandidatesAct'
  <2>1. AppendsOut'
      BY <1>26, <1>a DEF MismatchAppend, Respond
  <2>2. \A m \in Node : state'[m] \in {state[m], "follower"}
      BY <1>26, <1>d DEF MismatchAppend, AcceptLeader
  <2> QED BY <1>26, <1>a, <1>b, <2>1, <2>2 DEF MismatchAppend
<1>27. ASSUME NEW a \in appends, AcceptAppend(a) PROVE OnlyCandidatesAct'
  <2>1. AppendsOut'
      BY <1>27, <1>a DEF AcceptAppend, Respond
  <2>2. \A m \in Node : state'[m] \in {state[m], "follower"}
      BY <1>27, <1>d DEF AcceptAppend, AcceptLeader
  <2>3. \A i \in Index : proposals[a.to][i] = Nil
      BY <1>a, CallFields
  <2>4. ASSUME NEW m \in Node \ {c}
        PROVE  /\ \A i \in Index : proposals'[m][i] = Nil
               /\ \A op \in pending'[m] : op.cmd = Nil
    <3> DEFINE l == AppendLoop(log[a.to], a.entries)
               k == FollowerCommit(a, l)
    <3>1. CASE UNCHANGED <<pending, proposals>>
        BY <1>a, <3>1
    <3>2. CASE CollectApplyOps(a.to, l, k, proposals[a.to])
      <4>1. /\ a.to \in Node /\ a.commit \in 0..MaxLog
            /\ l \in Logs
          BY CallFields, AppendLoopType DEF TypeOK, StableType, Logs
      <4>2. k \in 0..MaxLog
        <5>1. LastIndex(l) \in 0..MaxLog
            BY <4>1, LogTypes
        <5>2. {a.commit, LastIndex(l)} \subseteq Nat /\ {a.commit, LastIndex(l)} # {}
            BY <4>1, <5>1
        <5>3. k \in {a.commit, LastIndex(l)}
            BY <5>2, MinExists DEF FollowerCommit
        <5> QED BY <4>1, <5>1, <5>3
      <4>3. \A i \in FirstUnapplied(a.to)..AppliedTo(a.to, l, k) : i \in Index
          BY <4>1, <4>2, CollectApplyFacts
      <4> HIDE DEF l, k
      <4>4. \A op \in pending'[m] : op.cmd = Nil
          BY <1>a, <1>d, <2>3, <3>2, <4>1, <4>3 DEF CollectApplyOps
      <4>5. \A i \in Index : proposals'[m][i] = Nil
          BY <1>a, <1>d, <2>3, <3>2, <4>1 DEF CollectApplyOps, Unregister
      <4> QED BY <4>4, <4>5
    <3> QED BY <1>27, <3>1, <3>2 DEF AcceptAppend
  <2> QED BY <1>27, <1>a, <1>b, <2>1, <2>2, <2>4 DEF AcceptAppend
<1>28. ASSUME NEW a \in appends, StepDown(a) PROVE OnlyCandidatesAct'
  <2>1. \A m \in Node : state'[m] \in {state[m], "follower"}
      BY <1>28, <1>d DEF StepDown
  <2> QED BY <1>28, <1>a, <1>b, <2>1 DEF StepDown
<1>29. ASSUME NEW a \in appends, ReplicateOk(a) PROVE OnlyCandidatesAct'
  <2>1. \A m \in Node \ {c} : proposals'[m] = proposals[m] /\ pending'[m] = pending[m]
      BY <1>29, <1>a, <1>d DEF ReplicateOk, CollectApplyOps
  <2> QED BY <1>29, <1>a, <1>b, <2>1 DEF ReplicateOk
<1>30. ASSUME NEW a \in appends, ReplicateRefused(a) PROVE OnlyCandidatesAct'
    BY <1>30, <1>a, <1>b DEF ReplicateRefused
<1>31. ASSUME NEW a \in appends, ReplicateIgnored(a) PROVE OnlyCandidatesAct'
    BY <1>31, <1>a, <1>b DEF ReplicateIgnored
<1>32. ASSUME NEW a \in appends, FailAppend(a) PROVE OnlyCandidatesAct'
  <2>1. AppendsOut'
      BY <1>32, <1>a, <1>h DEF FailAppend
  <2> QED BY <1>32, <1>a, <1>b, <2>1 DEF FailAppend
<1>33. ASSUME DropOrphan PROVE OnlyCandidatesAct'
    BY <1>33, <1>a, <1>b DEF DropOrphan
<1>34. ASSUME UNCHANGED vars PROVE OnlyCandidatesAct'
    BY <1>34 DEF OnlyCandidatesAct, vars
<1> QED BY <1>1, <1>2, <1>3, <1>4, <1>5, <1>6, <1>7, <1>8, <1>9, <1>10, <1>11, <1>12, <1>13,
           <1>14, <1>15, <1>16, <1>17, <1>18, <1>19, <1>21, <1>22, <1>23, <1>24, <1>25, <1>26,
           <1>27, <1>28, <1>29, <1>30, <1>31, <1>32, <1>33, <1>34
        DEF Next, Election, Ballot, Replication, Life

-----------------------------------------------------------------------------
(* Steps that leave the logs alone.                                        *)

\* No log, commit index, match index, proposal or operation changes; calls are at
\* most refused, orphaned or gone.
Calm ==
    /\ UNCHANGED <<log, commitIndex, matchIndex, proposals, pending>>
    /\ \A x \in Cmd : status'[x] = "acked" => status[x] = "acked"
    /\ \A n \in Node : loop'[n].pc = "noop" =>
                          loop[n].pc = "noop" /\ loop'[n].last = loop[n].last
    /\ \A a \in appends' : \/ a \in appends
                           \/ \E b \in appends : a = [b EXCEPT !.orphan = TRUE]
                           \/ a.phase = "response" /\ ~a.success /\ a.commit = 0

\* All of the steps but these are calm.
LEMMA CalmSteps ==
    ASSUME TypeOK, [Next]_vars
    PROVE  \/ Calm
           \/ \E n \in Node : \/ AppendNoOp(n) \/ AppendProposal(n) \/ BecomeLeader(n)
                              \/ Apply(n) \/ SpawnReplicators(n) \/ Crash(n)
           \/ \E a \in appends : Replicate(a) \/ AcceptAppend(a) \/ ReplicateOk(a)
<1> USE DEF stable, roleVars, leaderVars, loopVars, applyVars
<1>a. /\ loop \in [Node -> LoopStates] /\ queue \in [Node -> Seq(Cmd)]
      /\ status \in [Cmd -> {"new", "queued", "rejected", "acked"}]
    BY DEF TypeOK, LoopType, ApplyType
<1>1. ASSUME NEW n \in Node, StartPreVote(n) PROVE Calm
    BY <1>1, <1>a DEF StartPreVote, Calm, Collecting
<1>2. ASSUME NEW n \in Node, ElectAlone(n) PROVE Calm
    BY <1>2, <1>a DEF ElectAlone, Calm, Collecting
<1>3. ASSUME NEW n \in Node, StartVote(n) PROVE Calm
    BY <1>3, <1>a DEF StartVote, Calm, Collecting
<1>4. ASSUME NEW n \in Node, PreVoteFail(n) PROVE Calm
    BY <1>4, <1>a DEF PreVoteFail, Calm, Idle, Doing
<1>5. ASSUME NEW n \in Node, LoseElection(n) PROVE Calm
    BY <1>5, <1>a DEF LoseElection, Calm, Idle, Doing
<1>6. ASSUME NEW n \in Node, TakeProposal(n) PROVE Calm
  <2>1. \A x \in Cmd : status'[x] = "acked" => status[x] = "acked"
      BY <1>6, <1>a DEF TakeProposal
  <2>2. \A m \in Node : loop'[m].pc = "noop" =>
                            loop[m].pc = "noop" /\ loop'[m].last = loop[m].last
    <3> DEFINE busy == Doing("append", 0, Head(queue[n]))
    <3>1. loop' = loop \/ loop' = [loop EXCEPT ![n] = busy]
        BY <1>6 DEF TakeProposal
    <3>2. busy.pc # "noop"
        BY DEF Doing
    <3> HIDE DEF busy
    <3> QED BY <1>a, <3>1, <3>2
  <2> QED BY <1>6, <2>1, <2>2 DEF TakeProposal, Calm
<1>7. ASSUME NEW n \in Node, Tick(n) PROVE Calm
    BY <1>7, <1>a DEF Tick, Calm, Doing
<1>8. ASSUME NEW n \in Node, CheckBeat(n) PROVE Calm
    BY <1>8, <1>a DEF CheckBeat, Calm
<1>9. ASSUME NEW n \in Node, \/ Restart(n) \/ ReplayEntry(n) \/ FinishStart(n) \/ FailStart(n)
      PROVE  Calm
    BY <1>9, <1>a DEF Restart, ReplayEntry, FinishStart, FailStart, Calm
<1>10. ASSUME NEW n \in Node, NEW x \in Cmd, Propose(n, x) PROVE Calm
    BY <1>10, <1>a DEF Propose, Calm
<1>11. ASSUME NEW b \in ballots, HandlePreVote(b) PROVE Calm
    BY <1>11, <1>a DEF HandlePreVote, Calm
<1>12. ASSUME NEW b \in ballots, RejectVote(b) PROVE Calm
    BY <1>12, <1>a DEF RejectVote, Calm
<1>13. ASSUME NEW b \in ballots, HandleVote(b) PROVE Calm
    BY <1>13, <1>a DEF HandleVote, Calm
<1>14. ASSUME NEW b \in ballots, NEW yes, Collect(b, yes)
       PROVE  \A n \in Node : loop'[n].pc = loop[n].pc /\ loop'[n].last = loop[n].last
    BY <1>14, <1>a DEF Collect, LoopStates
<1>15. ASSUME NEW b \in ballots, PreVoteReply(b) PROVE Calm
  <2>1. \A n \in Node : loop'[n].pc = loop[n].pc /\ loop'[n].last = loop[n].last
      BY <1>14, <1>15 DEF PreVoteReply
  <2> QED BY <1>15, <2>1 DEF PreVoteReply, Calm
<1>16. ASSUME NEW b \in ballots, VoteReply(b) PROVE Calm
  <2>1. \A n \in Node : loop'[n].pc = loop[n].pc /\ loop'[n].last = loop[n].last
      BY <1>14, <1>16 DEF VoteReply
  <2> QED BY <1>16, <2>1 DEF VoteReply, Calm
<1>17. ASSUME NEW b \in ballots, FailBallot(b) PROVE Calm
  <2>1. \A n \in Node : loop'[n].pc = loop[n].pc /\ loop'[n].last = loop[n].last
      BY <1>14, <1>17 DEF FailBallot
  <2> QED BY <1>17, <2>1 DEF FailBallot, Calm
<1>18. ASSUME NEW a \in appends, RejectAppend(a) PROVE Calm
    BY <1>18, <1>a DEF RejectAppend, Calm, Respond
<1>19. ASSUME NEW a \in appends, MismatchAppend(a) PROVE Calm
    BY <1>19, <1>a DEF MismatchAppend, Calm, Respond, AcceptLeader
<1>20. ASSUME NEW a \in appends, StepDown(a) PROVE Calm
    BY <1>20, <1>a DEF StepDown, Calm
<1>21. ASSUME NEW a \in appends, ReplicateRefused(a) PROVE Calm
    BY <1>21, <1>a DEF ReplicateRefused, Calm
<1>22. ASSUME NEW a \in appends, ReplicateIgnored(a) PROVE Calm
    BY <1>22, <1>a DEF ReplicateIgnored, Calm
<1>23. ASSUME NEW a \in appends, FailAppend(a) PROVE Calm
    BY <1>23, <1>a DEF FailAppend, Calm
<1>24. ASSUME DropOrphan PROVE Calm
    BY <1>24 DEF DropOrphan, Calm
<1>25. ASSUME UNCHANGED vars PROVE Calm
    BY <1>25 DEF Calm, vars
<1> QED BY <1>1, <1>2, <1>3, <1>4, <1>5, <1>6, <1>7, <1>8, <1>9, <1>10, <1>11, <1>12, <1>13, <1>15, <1>16, <1>17, <1>18, <1>19, <1>20, <1>21, <1>22, <1>23, <1>24, <1>25
        DEF Next, Election, Ballot, Replication, Life

\* What RequestsFromLog and AnswersHold say of one call.
CallSound(a) ==
    /\ a.commit <= commitIndex[a.from]
    /\ a.phase = "request" =>
          /\ a.sent = LastIndex(a.entries)
          /\ \A i \in Index : a.entries[i] # Nil =>
                /\ a.entries[i] = log[a.from][i] /\ a.next <= i
                /\ \A j \in a.next..i : a.entries[j] # Nil
    /\ a.phase = "response" /\ a.success /\ a.sent > 0 => log[a.to][a.sent] # Nil

\* A calm step keeps what is known of the logs.
LEMMA CalmKeeps ==
    ASSUME NEW c, Candidates = {c}, ReplicationInv, TypeOK', OnlyCandidatesAct', Calm
    PROVE  ReplicationInv'
<1>a. c \in Node
    BY NodeAssumption
<1>1. LogsArePrefixes' /\ CommitHolds' /\ MatchHolds'
    BY DEF Calm, ReplicationInv, LogsArePrefixes, CommitHolds, MatchHolds
<1>2. NoOpSlotFree'
    BY <1>a DEF Calm, ReplicationInv, NoOpSlotFree
<1>3. ASSUME NEW a \in appends' PROVE CallSound(a)'
  <2>a. appends \subseteq AppendCalls /\ appends' \subseteq AppendCalls
      BY DEF TypeOK, CallType, ReplicationInv
  <2>b. commitIndex' \in [Node -> 0..MaxLog]
      BY DEF TypeOK, StableType
  <2>1. /\ appends \subseteq AppendCalls /\ appends' \subseteq AppendCalls
        /\ commitIndex' \in [Node -> 0..MaxLog]
        /\ UNCHANGED <<log, commitIndex>>
      BY <2>a, <2>b DEF Calm
  <2>2. RequestsFromLog /\ AnswersHold
      BY DEF ReplicationInv
  <2>3. CASE a \in appends
      BY <2>1, <2>2, <2>3 DEF CallSound, RequestsFromLog, AnswersHold
  <2>4. ASSUME NEW b \in appends, a = [b EXCEPT !.orphan = TRUE]
        PROVE  CallSound(a)'
    <3>1. /\ a.commit = b.commit /\ a.from = b.from /\ a.to = b.to /\ a.phase = b.phase
          /\ a.sent = b.sent /\ a.entries = b.entries /\ a.next = b.next
          /\ a.success = b.success
        BY <2>1, <2>4 DEF AppendCalls
    <3> QED BY <2>1, <2>2, <3>1 DEF CallSound, RequestsFromLog, AnswersHold
  <2>5. CASE a.phase = "response" /\ ~a.success /\ a.commit = 0
    <3>1. a.from \in Node
        BY <2>1 DEF AppendCalls
    <3> QED BY <2>1, <2>5, <3>1 DEF CallSound
  <2> QED BY <2>3, <2>4, <2>5 DEF Calm
<1>4. RequestsFromLog' /\ AnswersHold'
    BY <1>3 DEF CallSound, RequestsFromLog, AnswersHold
<1>5. ProposalsMatch'
    BY DEF Calm, ReplicationInv, ProposalsMatch
<1> QED BY <1>1, <1>2, <1>4, <1>5 DEF ReplicationInv

-----------------------------------------------------------------------------
(* Steps that add entries or commit.                                       *)

\* No node loses or replaces an entry, and no commit index moves back.
LogsGrow ==
    \A n \in Node : /\ commitIndex[n] <= commitIndex'[n]
                    /\ \A i \in Index : log[n][i] # Nil => log'[n][i] = log[n][i]

\* What is on a majority, what a call carries and what a peer stores stays so while
\* logs grow.
LEMMA GrowthKeeps ==
    ASSUME NEW c, Candidates = {c}, ReplicationInv, TypeOK', LogsGrow
    PROVE  /\ \A i \in Index : Majority({m \in Node : log[m][i] # Nil})
                                   => Majority({m \in Node : log'[m][i] # Nil})
           /\ \A a \in appends : CallSound(a)'
           /\ \A p \in Node \ {c} : matchIndex[c][p] > 0 => log'[p][matchIndex[c][p]] # Nil
<1>a. /\ c \in Node /\ OnlyCandidatesAct /\ RequestsFromLog /\ AnswersHold /\ MatchHolds
      /\ TypeOK
    BY NodeAssumption DEF ReplicationInv
<1>b. /\ commitIndex \in [Node -> 0..MaxLog] /\ commitIndex' \in [Node -> 0..MaxLog]
      /\ matchIndex \in [Node -> [Node -> 0..MaxLog]]
    BY <1>a DEF TypeOK, StableType, LeaderType
<1>1. ASSUME NEW i \in Index, Majority({m \in Node : log[m][i] # Nil})
      PROVE  Majority({m \in Node : log'[m][i] # Nil})
  <2>1. {m \in Node : log[m][i] # Nil} \subseteq {m \in Node : log'[m][i] # Nil}
      BY DEF LogsGrow
  <2> QED BY <1>1, <2>1, MajorityGrows
<1>2. ASSUME NEW a \in appends PROVE CallSound(a)'
  <2>1. /\ a.from = c /\ a.to \in Node /\ a.commit \in 0..MaxLog /\ a.sent \in 0..MaxLog
      BY <1>a, CallFields DEF OnlyCandidatesAct
  <2>2. a.commit <= commitIndex'[a.from]
      BY <1>a, <1>b, <2>1 DEF RequestsFromLog, LogsGrow
  <2>3. ASSUME a.phase = "request", NEW i \in Index, a.entries[i] # Nil
        PROVE  a.entries[i] = log'[a.from][i]
      BY <1>a, <2>1, <2>3 DEF RequestsFromLog, LogsGrow
  <2>4. a.phase = "response" /\ a.success /\ a.sent > 0 => log'[a.to][a.sent] # Nil
      BY <1>a, <2>1 DEF AnswersHold, LogsGrow, Index
  <2> QED BY <1>a, <2>2, <2>3, <2>4 DEF RequestsFromLog, CallSound
<1>3. ASSUME NEW p \in Node \ {c}, matchIndex[c][p] > 0
      PROVE  log'[p][matchIndex[c][p]] # Nil
  <2>1. matchIndex[c][p] \in Index
      BY <1>a, <1>b, <1>3 DEF Index
  <2> QED BY <1>a, <1>3, <2>1 DEF MatchHolds, LogsGrow
<1> QED BY <1>1, <1>2, <1>3

\* What collectApplyOps leaves registered or hands to doApply matches log l.
LEMMA CollectMatches ==
    ASSUME TypeOK, NEW n \in Node, NEW l \in Logs, NEW k \in 0..MaxLog, NEW props,
           CollectApplyOps(n, l, k, props),
           \A i \in Index : props[i] # Nil => l[i] # Nil /\ l[i].val = props[i]
    PROVE  /\ \A i \in Index : proposals'[n][i] # Nil =>
                  l[i] # Nil /\ l[i].val = proposals'[n][i]
           /\ \A op \in pending'[n] :
                  \/ op \in pending[n]
                  \/ op.cmd # Nil => /\ op.index <= k /\ l[op.index] # Nil
                                     /\ l[op.index].val = op.cmd
<1> DEFINE first == FirstUnapplied(n)
           last == AppliedTo(n, l, k)
<1>a. /\ proposals \in [Node -> [Index -> Cmd \cup {Nil}]]
      /\ pending \in [Node -> SUBSET Operation] /\ lastApplied[n] \in Nat
    BY DEF TypeOK, LeaderType, ApplyType, StableType
<1>1. /\ last \in Nat
      /\ last = lastApplied[n] \/ last <= k
      /\ \A i \in first..last : i \in Index
      /\ first = lastApplied[n] + 1
    BY CollectApplyFacts DEF FirstUnapplied
<1>2. /\ pending' = [pending EXCEPT ![n] = @ \cup
              {[index |-> i, entry |-> l[i], cmd |-> props[i], batch |-> first] :
                  i \in first..last}]
      /\ proposals' = [proposals EXCEPT ![n] = Unregister(props, first..last)]
    BY DEF CollectApplyOps
<1> HIDE DEF first, last
<1>3. \A i \in Index : proposals'[n][i] # Nil => l[i] # Nil /\ l[i].val = proposals'[n][i]
    BY <1>a, <1>2 DEF Unregister
<1>4. ASSUME NEW op \in pending'[n], op \notin pending[n], op.cmd # Nil
      PROVE  op.index <= k /\ l[op.index] # Nil /\ l[op.index].val = op.cmd
  <2>1. PICK i \in first..last :
           op = [index |-> i, entry |-> l[i], cmd |-> props[i], batch |-> first]
      BY <1>a, <1>2, <1>4
  <2>2. op.index = i /\ op.cmd = props[i]
      BY <2>1
  <2>3. i \in Index /\ i <= k
      BY <1>a, <1>1
  <2> QED BY <1>4, <2>2, <2>3
<1> QED BY <1>3, <1>4

\* Node n stores entry e after its last one, which makes its log l, and commits it if
\* it is alone: the second half of becomeLeader, and handleProposal.
Appends(n, i, e, l, props) ==
    /\ e \in Entry /\ i = LastIndex(log[n]) + 1 /\ i \in Index
    /\ l = StoreLog(log[n], i, e)
    /\ log' = [log EXCEPT ![n] = l]
    /\ props \in [Index -> Cmd \cup {Nil}]
    /\ \A k \in Index : props[k] # Nil =>
          props[k] = proposals[n][k] \/ (k = i /\ props[k] = e.val)
    /\ CommitAlone(n, l, i, props)
    /\ loop' = [loop EXCEPT ![n] = Idle]
    /\ \A p \in Node \ {n} : matchIndex'[n][p] = matchIndex[n][p]
    /\ UNCHANGED <<appends, status>>

\* ... and the invariant survives it.
LEMMA AppendKeeps ==
    ASSUME NEW c, Candidates = {c}, ReplicationInv, TypeOK', OnlyCandidatesAct',
           NEW i, NEW e, NEW l, NEW props, Appends(c, i, e, l, props)
    PROVE  ReplicationInv' /\ LogsGrow
<1> USE DEF Appends
<1>a. /\ c \in Node /\ TypeOK /\ LogsArePrefixes /\ CommitHolds /\ ProposalsMatch
    BY NodeAssumption DEF ReplicationInv
<1>b. /\ log \in [Node -> Logs] /\ log[c] \in Logs /\ loop \in [Node -> LoopStates]
      /\ commitIndex \in [Node -> 0..MaxLog] /\ commitIndex' \in [Node -> 0..MaxLog]
      /\ pending \in [Node -> SUBSET Operation] /\ pending' \in [Node -> SUBSET Operation]
      /\ i \in Nat
  <2>1. log \in [Node -> Logs] /\ commitIndex \in [Node -> 0..MaxLog]
      BY <1>a DEF TypeOK, StableType, Logs
  <2>2. loop \in [Node -> LoopStates] /\ pending \in [Node -> SUBSET Operation]
      BY <1>a DEF TypeOK, LoopType, ApplyType
  <2>3. commitIndex' \in [Node -> 0..MaxLog]
      BY DEF TypeOK, StableType
  <2>4. pending' \in [Node -> SUBSET Operation]
      BY DEF TypeOK, ApplyType
  <2> QED BY <1>a, <2>1, <2>2, <2>3, <2>4 DEF Index
<1>c. \A n \in Node : PrefixOf(log[n], log[c])
    BY <1>a DEF LogsArePrefixes
<1>d. l \in Logs
    BY <1>b, StoreLogType
<1>1. /\ l[i] = e
      /\ \A j \in Index : log[c][j] # Nil => l[j] = log[c][j]
      /\ PrefixOf(l, l)
      /\ \A j \in 1..i : j \in Index /\ l[j] # Nil
      /\ LastIndex(l) = i
    BY <1>a, <1>b, <1>c, StoreAtEnd
<1>2. /\ log'[c] = l
      /\ \A n \in Node \ {c} : log'[n] = log[n]
    BY <1>a, <1>b
<1>3. commitIndex[c] < i
  <2>1. commitIndex[c] > 0 => commitIndex[c] \in Index /\ log[c][commitIndex[c]] # Nil
      BY <1>a, <1>b DEF CommitHolds, Index
  <2>2. LastIndex(log[c]) \in Nat
      BY LastIndexFacts
  <2> QED BY <1>a, <1>b, <2>1, <2>2, LastIndexFacts
<1>4. \/ /\ Peers(c) = {}
         /\ commitIndex' = [commitIndex EXCEPT ![c] = i]
         /\ CollectApplyOps(c, l, i, props)
      \/ /\ UNCHANGED <<commitIndex, pending>>
         /\ proposals' = [proposals EXCEPT ![c] = props]
    BY DEF CommitAlone
<1>5. LogsGrow
  <2>1. \A n \in Node : commitIndex[n] <= commitIndex'[n]
      BY <1>a, <1>b, <1>3, <1>4
  <2>2. \A n \in Node : \A j \in Index : log[n][j] # Nil => log'[n][j] = log[n][j]
      BY <1>1, <1>2
  <2> QED BY <2>1, <2>2 DEF LogsGrow
<1>6. LogsArePrefixes'
  <2> SUFFICES ASSUME NEW n \in Node PROVE PrefixOf(log'[n], log'[c])
      BY DEF LogsArePrefixes
  <2>1. CASE n = c
      BY <1>1, <1>2, <2>1
  <2>2. CASE n # c
    <3>1. log'[n] = log[n] /\ PrefixOf(log[n], log[c])
        BY <1>c, <1>2, <2>2
    <3> QED BY <1>1, <1>2, <3>1 DEF PrefixOf
  <2> QED BY <2>1, <2>2
<1>7. NoOpSlotFree'
    BY <1>a, <1>b DEF NoOpSlotFree, Idle, Doing
<1>8. RequestsFromLog' /\ AnswersHold'
  <2>1. \A a \in appends : CallSound(a)'
      BY <1>5, GrowthKeeps
  <2> QED BY <2>1 DEF CallSound, RequestsFromLog, AnswersHold
<1>9. MatchHolds'
  <2>1. \A p \in Node \ {c} : matchIndex[c][p] > 0 => log'[p][matchIndex[c][p]] # Nil
      BY <1>5, GrowthKeeps
  <2> QED BY <2>1 DEF MatchHolds
<1>10. CommitHolds'
  <2>1. CASE /\ Peers(c) = {}
             /\ commitIndex' = [commitIndex EXCEPT ![c] = i]
    <3>1. Node = {c}
        BY <1>a, <2>1 DEF Peers
    <3>2. commitIndex'[c] = i
        BY <1>a, <1>b, <2>1
    <3>3. ASSUME NEW k \in 1..i PROVE Majority({m \in Node : log'[m][k] # Nil})
      <4>1. {m \in Node : log'[m][k] # Nil} = Node
          BY <1>1, <1>2, <3>1
      <4>2. Cardinality(Node) = 1
          BY <3>1, FS_Singleton
      <4>3. Majority(Node)
          BY <4>2 DEF Majority
      <4> QED BY <4>1, <4>3
    <3>4. \A n \in Node : /\ commitIndex'[n] <= commitIndex'[c]
                          /\ \A k \in 1..commitIndex'[n] : log'[n][k] # Nil
        BY <1>b, <1>1, <1>2, <3>1, <3>2
    <3> QED BY <3>2, <3>3, <3>4 DEF CommitHolds
  <2>2. CASE commitIndex' = commitIndex
    <3>1. ASSUME NEW k \in 1..commitIndex[c]
          PROVE  Majority({m \in Node : log'[m][k] # Nil})
      <4>1. k \in Index
          BY <1>a, <1>b DEF Index
      <4>2. Majority({m \in Node : log[m][k] # Nil})
          BY <1>a DEF CommitHolds
      <4> QED BY <1>5, <4>1, <4>2, GrowthKeeps
    <3>2. ASSUME NEW n \in Node
          PROVE  /\ commitIndex[n] <= commitIndex[c]
                 /\ \A k \in 1..commitIndex[n] : log'[n][k] # Nil
      <4>1. \A k \in 1..commitIndex[n] : k \in Index
          BY <1>b DEF Index
      <4> QED BY <1>a, <1>5, <4>1 DEF CommitHolds, LogsGrow
    <3> QED BY <2>2, <3>1, <3>2 DEF CommitHolds
  <2> QED BY <1>4, <2>1, <2>2
<1>11. ProposalsMatch'
  <2>1. \A k \in Index : props[k] # Nil => l[k] # Nil /\ l[k].val = props[k]
    <3> SUFFICES ASSUME NEW k \in Index, props[k] # Nil PROVE l[k] # Nil /\ l[k].val = props[k]
        OBVIOUS
    <3>1. e # Nil
        BY NilAssumption
    <3>2. CASE k = i /\ props[k] = e.val
        BY <1>1, <3>1, <3>2
    <3>3. CASE props[k] = proposals[c][k]
      <4>1. log[c][k] # Nil /\ log[c][k].val = props[k]
          BY <1>a, <3>3 DEF ProposalsMatch
      <4> QED BY <1>1, <4>1
    <3> QED BY <3>2, <3>3
  <2>2. \A op \in pending[c] : op.cmd # Nil =>
            /\ op.index <= commitIndex[c] /\ op.index \in Index
            /\ l[op.index] # Nil /\ l[op.index].val = op.cmd
    <3> SUFFICES ASSUME NEW op \in pending[c], op.cmd # Nil
                 PROVE  /\ op.index <= commitIndex[c] /\ op.index \in Index
                        /\ l[op.index] # Nil /\ l[op.index].val = op.cmd
        OBVIOUS
    <3>1. op.index \in Index
        BY <1>a, <1>b DEF Operation
    <3>2. /\ op.index <= commitIndex[c]
          /\ log[c][op.index] # Nil /\ log[c][op.index].val = op.cmd
        BY <1>a DEF ProposalsMatch
    <3> QED BY <1>1, <3>1, <3>2
  <2>3. commitIndex[c] <= commitIndex'[c]
      BY <1>a, <1>5 DEF LogsGrow
  <2>4. \A k \in Index : proposals'[c][k] # Nil =>
            log'[c][k] # Nil /\ log'[c][k].val = proposals'[c][k]
    <3>1. CASE CollectApplyOps(c, l, i, props)
      <4>1. i \in 0..MaxLog
          BY DEF Index
      <4> QED BY <1>a, <1>d, <1>2, <2>1, <3>1, <4>1, CollectMatches
    <3>2. CASE proposals' = [proposals EXCEPT ![c] = props]
        BY <1>a, <1>2, <2>1, <3>2 DEF TypeOK, LeaderType
    <3> QED BY <1>4, <3>1, <3>2
  <2>5. ASSUME NEW op \in pending'[c], op.cmd # Nil
        PROVE  /\ op.index <= commitIndex'[c]
               /\ log'[c][op.index] # Nil /\ log'[c][op.index].val = op.cmd
    <3>1. CASE op \in pending[c]
      <4>1. op.index <= commitIndex[c] /\ op.index \in Nat
          BY <2>2, <2>5, <3>1 DEF Index
      <4> QED BY <1>a, <1>b, <1>2, <2>2, <2>3, <2>5, <3>1, <4>1
    <3>2. CASE op \notin pending[c] /\ CollectApplyOps(c, l, i, props)
      <4>1. i \in 0..MaxLog
          BY DEF Index
      <4>2. op.index <= i /\ l[op.index] # Nil /\ l[op.index].val = op.cmd
          BY <1>a, <1>d, <2>1, <2>5, <3>2, <4>1, CollectMatches
      <4>3. commitIndex'[c] = i
        <5>1. i # commitIndex[c]
            BY <1>a, <1>b, <1>3
        <5>2. pending' # pending
            BY <2>5, <3>2
        <5> QED BY <1>a, <1>b, <1>4, <5>2
      <4> QED BY <1>2, <4>2, <4>3
    <3>3. op \in pending[c] \/ CollectApplyOps(c, l, i, props)
        BY <1>4, <2>5
    <3> QED BY <3>1, <3>2, <3>3
  <2>6. ASSUME NEW x \in Cmd, status'[x] = "acked"
        PROVE  \E k \in 1..commitIndex'[c] : log'[c][k] # Nil /\ log'[c][k].val = x
    <3>1. PICK k \in 1..commitIndex[c] : log[c][k] # Nil /\ log[c][k].val = x
        BY <1>a, <2>6 DEF ProposalsMatch
    <3>2. k \in 1..commitIndex'[c] /\ k \in Index
        BY <1>a, <1>b, <2>3 DEF Index
    <3> QED BY <1>1, <1>2, <3>1, <3>2
  <2> QED BY <2>4, <2>5, <2>6 DEF ProposalsMatch
<1> QED BY <1>5, <1>6, <1>7, <1>8, <1>9, <1>10, <1>11 DEF ReplicationInv

\* HandleAppendEntries at a follower: its log becomes a longer prefix, and what it
\* commits its leader has committed.
LEMMA AcceptKeeps ==
    ASSUME NEW c, Candidates = {c}, ReplicationInv, TypeOK', OnlyCandidatesAct',
           NEW a \in appends, AcceptAppend(a)
    PROVE  ReplicationInv' /\ LogsGrow
<1> DEFINE n == a.to
           l == AppendLoop(log[n], a.entries)
           k == FollowerCommit(a, l)
<1>a. /\ c \in Node /\ TypeOK /\ OnlyCandidatesAct /\ LogsArePrefixes /\ RequestsFromLog
      /\ CommitHolds /\ ProposalsMatch /\ NoOpSlotFree /\ MatchHolds
    BY NodeAssumption DEF ReplicationInv
<1>b. /\ log \in [Node -> Logs] /\ commitIndex \in [Node -> 0..MaxLog]
      /\ commitIndex' \in [Node -> 0..MaxLog]
      /\ proposals \in [Node -> [Index -> Cmd \cup {Nil}]]
      /\ pending \in [Node -> SUBSET Operation]
    BY <1>a DEF TypeOK, StableType, LeaderType, ApplyType, Logs
<1>c. /\ a.from = c /\ n \in Node /\ n # c /\ a.next \in 1..(MaxLog + 1)
      /\ a.entries \in Logs /\ a.commit \in 0..MaxLog /\ a.sent \in 0..MaxLog
      /\ a.term \in 0..MaxTerm
    BY <1>a, CallFields DEF OnlyCandidatesAct
<1>d. /\ a.phase = "request" /\ PrevMatches(log[n], a)
      /\ log' = [log EXCEPT ![n] = l]
      /\ UNCHANGED <<matchIndex, loop, status>>
    BY DEF AcceptAppend, AcceptLeader, loopVars
<1>e. \/ /\ a.commit > commitIndex[n]
         /\ commitIndex' = [commitIndex EXCEPT ![n] = k]
         /\ CollectApplyOps(n, l, k, proposals[n])
         /\ \E batch : Respond(a, a.term, TRUE, batch)
      \/ /\ Respond(a, a.term, TRUE, 0)
         /\ UNCHANGED <<commitIndex, pending, proposals>>
    BY DEF AcceptAppend
<1>f. /\ a.commit <= commitIndex[c] /\ a.sent = LastIndex(a.entries)
      /\ \A i \in Index : a.entries[i] # Nil =>
            /\ a.entries[i] = log[c][i] /\ a.next <= i
            /\ \A j \in a.next..i : a.entries[j] # Nil
    BY <1>a, <1>c, <1>d DEF RequestsFromLog
<1>1. /\ PrefixOf(l, log[c])
      /\ \A i \in Index : log[n][i] # Nil => l[i] = log[n][i]
      /\ \A i \in Index : a.entries[i] # Nil => l[i] # Nil
  <2>1. PrefixOf(log[n], log[c])
      BY <1>a, <1>c DEF LogsArePrefixes
  <2>2. a.next > 1 => log[n][a.next - 1] # Nil
      BY <1>d DEF PrevMatches
  <2>3. log[n] \in Logs
      BY <1>b, <1>c
  <2> QED BY <1>c, <1>f, <2>1, <2>2, <2>3, AppendLoopPrefix
<1>2. /\ k \in 0..MaxLog /\ k \in {a.commit, LastIndex(l)}
      /\ k <= a.commit /\ k <= LastIndex(l)
    BY <1>c, FollowerCommitFacts
<1> HIDE DEF l, k
<1>3. /\ log'[n] = l /\ log'[c] = log[c]
      /\ \A m \in Node \ {n} : log'[m] = log[m]
    BY <1>a, <1>b, <1>c, <1>d
<1>4. /\ commitIndex'[c] = commitIndex[c]
      /\ \A m \in Node \ {n} : commitIndex'[m] = commitIndex[m]
      /\ \/ commitIndex'[n] = commitIndex[n]
         \/ a.commit > commitIndex[n] /\ commitIndex'[n] = k
  <2>1. CASE a.commit > commitIndex[n] /\ commitIndex' = [commitIndex EXCEPT ![n] = k]
      BY <1>a, <1>b, <1>c, <2>1
  <2>2. CASE commitIndex' = commitIndex
      BY <1>a, <1>b, <1>c, <2>2
  <2> QED BY <1>e, <2>1, <2>2
<1>5. LogsGrow
  <2>1. \A m \in Node : \A i \in Index : log[m][i] # Nil => log'[m][i] = log[m][i]
      BY <1>1, <1>3
  <2>2. ASSUME a.commit > commitIndex[n] PROVE commitIndex[n] <= k
    <3>1. CASE commitIndex[n] = 0
        BY <1>2, <3>1
    <3>2. CASE commitIndex[n] # 0
      <4>1. commitIndex[n] \in Index /\ log[n][commitIndex[n]] # Nil
          BY <1>a, <1>b, <1>c, <3>2 DEF CommitHolds, Index
      <4>2. l[commitIndex[n]] # Nil
          BY <1>1, <4>1
      <4>3. commitIndex[n] <= LastIndex(l)
          BY <4>1, <4>2, LastIndexFacts
      <4> QED BY <1>2, <2>2, <4>3, <1>b, <1>c
    <3> QED BY <3>1, <3>2
  <2>3. \A m \in Node : commitIndex[m] <= commitIndex'[m]
      BY <1>b, <1>4, <2>2
  <2> QED BY <2>1, <2>3 DEF LogsGrow
<1>6. LogsArePrefixes'
  <2> SUFFICES ASSUME NEW m \in Node PROVE PrefixOf(log'[m], log'[c])
      BY DEF LogsArePrefixes
  <2> QED BY <1>a, <1>1, <1>3 DEF LogsArePrefixes
<1>7. NoOpSlotFree'
    BY <1>a, <1>3, <1>d DEF NoOpSlotFree
<1>8. ASSUME NEW b \in appends' PROVE CallSound(b)'
  <2>1. CASE b \in appends
      BY <1>5, <2>1, GrowthKeeps
  <2>2. CASE b \notin appends
    <3>1. PICK batch :
             b = [from |-> a.from, to |-> a.to, slot |-> a.slot, term |-> a.term, commit |-> 0,
                  phase |-> "response", orphan |-> FALSE, next |-> a.next, prevTerm |-> 0,
                  entries |-> EmptyLog, sent |-> a.sent, rterm |-> a.term, success |-> TRUE,
                  batch |-> batch]
        BY <1>e, <2>2 DEF Respond
    <3>2. /\ b.from = c /\ b.to = n /\ b.commit = 0 /\ b.phase = "response" /\ b.sent = a.sent
        BY <1>c, <3>1
    <3>3. 0 <= commitIndex'[c]
        BY <1>a, <1>b
    <3>4. a.sent > 0 => log'[n][a.sent] # Nil
      <4>1. a.sent > 0 => a.sent \in Index /\ a.entries[a.sent] # Nil
          BY <1>f, LastIndexFacts
      <4> QED BY <1>1, <1>3, <4>1
    <3> QED BY <3>2, <3>3, <3>4 DEF CallSound
  <2> QED BY <2>1, <2>2
<1>9. RequestsFromLog' /\ AnswersHold'
    BY <1>8 DEF CallSound, RequestsFromLog, AnswersHold
<1>10. MatchHolds'
  <2>1. \A p \in Node \ {c} : matchIndex[c][p] > 0 => log'[p][matchIndex[c][p]] # Nil
      BY <1>5, GrowthKeeps
  <2> QED BY <1>d, <2>1 DEF MatchHolds
<1>11. CommitHolds'
  <2>1. ASSUME NEW i \in 1..commitIndex[c] PROVE Majority({m \in Node : log'[m][i] # Nil})
    <3>1. i \in Index
        BY <1>a, <1>b DEF Index
    <3>2. Majority({m \in Node : log[m][i] # Nil})
        BY <1>a DEF CommitHolds
    <3> QED BY <1>5, <3>1, <3>2, GrowthKeeps
  <2>2. ASSUME NEW m \in Node
        PROVE  /\ commitIndex'[m] <= commitIndex[c]
               /\ \A i \in 1..commitIndex'[m] : log'[m][i] # Nil
    <3>1. CASE m = n /\ commitIndex'[n] = k
      <4>1. k <= commitIndex[c]
          BY <1>a, <1>b, <1>c, <1>2, <1>f
      <4>2. \A i \in 1..LastIndex(l) : l[i] # Nil
          BY <1>1, PrefixFilled
      <4>3. LastIndex(l) \in Nat
          BY LastIndexFacts
      <4>4. \A i \in 1..k : l[i] # Nil
          BY <1>2, <4>2, <4>3
      <4> QED BY <1>3, <3>1, <4>1, <4>4
    <3>2. CASE commitIndex'[m] = commitIndex[m]
      <4>1. \A i \in 1..commitIndex[m] : i \in Index /\ log[m][i] # Nil
          BY <1>a, <1>b DEF CommitHolds, Index
      <4>2. commitIndex[m] <= commitIndex[c]
          BY <1>a DEF CommitHolds
      <4> QED BY <1>5, <3>2, <4>1, <4>2 DEF LogsGrow
    <3> QED BY <1>4, <3>1, <3>2
  <2> QED BY <1>4, <2>1, <2>2 DEF CommitHolds
<1>12. ProposalsMatch'
  <2>1. proposals'[c] = proposals[c] /\ pending'[c] = pending[c]
      BY <1>a, <1>b, <1>c, <1>e DEF CollectApplyOps
  <2> QED BY <1>a, <1>3, <1>4, <1>d, <2>1 DEF ProposalsMatch
<1> QED BY <1>5, <1>6, <1>7, <1>9, <1>10, <1>11, <1>12 DEF ReplicationInv

\* replicateToPeer meets success: what it counts for the peer is what the peer has,
\* and advanceCommitIndex commits what is on a majority.
LEMMA SuccessKeeps ==
    ASSUME NEW c, Candidates = {c}, ReplicationInv, TypeOK', OnlyCandidatesAct',
           NEW a \in appends, ReplicateOk(a)
    PROVE  ReplicationInv' /\ LogsGrow
<1> DEFINE match == IF a.sent > 0 THEN [matchIndex[c] EXCEPT ![a.to] = a.sent]
                    ELSE matchIndex[c]
           k == AdvancedCommit(c, match)
<1>a. /\ c \in Node /\ TypeOK /\ OnlyCandidatesAct /\ LogsArePrefixes /\ AnswersHold
      /\ CommitHolds /\ ProposalsMatch /\ NoOpSlotFree /\ MatchHolds
    BY NodeAssumption DEF ReplicationInv
<1>b. /\ log \in [Node -> Logs] /\ commitIndex \in [Node -> 0..MaxLog]
      /\ commitIndex' \in [Node -> 0..MaxLog]
      /\ matchIndex \in [Node -> [Node -> 0..MaxLog]]
      /\ pending \in [Node -> SUBSET Operation] /\ pending' \in [Node -> SUBSET Operation]
    BY <1>a DEF TypeOK, StableType, LeaderType, ApplyType, Logs
<1>c. a.from = c /\ a.to \in Node /\ a.to # c /\ a.sent \in 0..MaxLog
    BY <1>a, CallFields DEF OnlyCandidatesAct
<1>d. /\ a.phase = "response" /\ a.success /\ appends' = appends \ {a}
      /\ matchIndex' = [matchIndex EXCEPT ![c] = match]
      /\ commitIndex' = [commitIndex EXCEPT ![c] = k]
      /\ CollectApplyOps(c, log[c], k, proposals[c])
      /\ UNCHANGED <<log, loop, status>>
    BY <1>c DEF ReplicateOk, Answered, loopVars
<1>1. \A p \in Node \ {c} : match[p] \in 0..MaxLog /\ (match[p] > 0 => log[p][match[p]] # Nil)
  <2>1. a.sent > 0 => log[a.to][a.sent] # Nil
      BY <1>a, <1>d DEF AnswersHold
  <2> QED BY <1>a, <1>b, <1>c, <2>1 DEF MatchHolds
<1>2. /\ k \in 0..MaxLog /\ commitIndex[c] <= k
      /\ \A i \in (commitIndex[c] + 1)..k : i \in Index /\ Committable(c, log[c], match, i)
    BY <1>a, AdvancedCommitFacts
<1> HIDE DEF match, k
<1>3. commitIndex'[c] = k /\ \A m \in Node \ {c} : commitIndex'[m] = commitIndex[m]
    BY <1>a, <1>b, <1>d
<1>4. LogsGrow
    BY <1>b, <1>d, <1>2, <1>3 DEF LogsGrow
<1>5. LogsArePrefixes' /\ NoOpSlotFree'
    BY <1>a, <1>d DEF LogsArePrefixes, NoOpSlotFree
<1>6. RequestsFromLog' /\ AnswersHold'
  <2>1. \A b \in appends : CallSound(b)'
      BY <1>4, GrowthKeeps
  <2> QED BY <1>d, <2>1 DEF CallSound, RequestsFromLog, AnswersHold
<1>7. MatchHolds'
  <2>1. matchIndex'[c] = match
      BY <1>a, <1>b, <1>d
  <2> QED BY <1>d, <1>1, <2>1 DEF MatchHolds
<1>8. CommitHolds'
  <2>1. ASSUME NEW i \in 1..k
        PROVE  log[c][i] # Nil /\ Majority({m \in Node : log[m][i] # Nil})
    <3>1. CASE i \in 1..commitIndex[c]
        BY <1>a, <3>1 DEF CommitHolds
    <3>2. CASE i \in (commitIndex[c] + 1)..k
      <4>1. /\ i \in Index /\ log[c][i] # Nil
            /\ Majority({c} \cup {p \in Peers(c) : match[p] >= i})
          BY <1>2, <3>2 DEF Committable
      <4>2. ASSUME NEW p \in Peers(c), match[p] >= i PROVE log[p][i] # Nil
        <5>1. p \in Node \ {c} /\ i \in 1..match[p] /\ match[p] \in Index /\ match[p] > 0
            BY <1>1, <4>1, <4>2 DEF Peers, Index
        <5>2. log[p][match[p]] # Nil /\ PrefixOf(log[p], log[c])
            BY <1>a, <1>1, <5>1 DEF LogsArePrefixes
        <5> QED BY <5>1, <5>2 DEF PrefixOf
      <4>3. {c} \cup {p \in Peers(c) : match[p] >= i} \subseteq {m \in Node : log[m][i] # Nil}
          BY <1>a, <4>1, <4>2 DEF Peers
      <4> QED BY <4>1, <4>3, MajorityGrows
    <3> QED BY <1>a, <1>b, <1>2, <3>1, <3>2
  <2>2. ASSUME NEW m \in Node
        PROVE  commitIndex'[m] <= k /\ \A i \in 1..commitIndex'[m] : log[m][i] # Nil
    <3>1. CASE m = c
      <4>1. \A i \in 1..k : log[c][i] # Nil
          BY <2>1
      <4> QED BY <1>2, <1>3, <3>1, <4>1
    <3>2. CASE m # c
      <4>1. /\ commitIndex[m] <= commitIndex[c]
            /\ \A i \in 1..commitIndex[m] : log[m][i] # Nil
          BY <1>a DEF CommitHolds
      <4> QED BY <1>a, <1>b, <1>2, <1>3, <3>2, <4>1
    <3> QED BY <3>1, <3>2
  <2> QED BY <1>3, <1>d, <2>1, <2>2 DEF CommitHolds
<1>9. ProposalsMatch'
  <2>1. \A i \in Index : proposals[c][i] # Nil =>
            log[c][i] # Nil /\ log[c][i].val = proposals[c][i]
      BY <1>a DEF ProposalsMatch
  <2>2. log[c] \in Logs
      BY <1>a, <1>b
  <2>3. /\ \A i \in Index : proposals'[c][i] # Nil =>
               log[c][i] # Nil /\ log[c][i].val = proposals'[c][i]
        /\ \A op \in pending'[c] :
               \/ op \in pending[c]
               \/ op.cmd # Nil => /\ op.index <= k /\ log[c][op.index] # Nil
                                  /\ log[c][op.index].val = op.cmd
      BY <1>a, <1>d, <1>2, <2>1, <2>2, CollectMatches
  <2>4. ASSUME NEW op \in pending'[c], op.cmd # Nil
        PROVE  /\ op.index <= k /\ log[c][op.index] # Nil
               /\ log[c][op.index].val = op.cmd
    <3>1. op \in pending[c] =>
             /\ op.index <= commitIndex[c] /\ log[c][op.index] # Nil
             /\ log[c][op.index].val = op.cmd
        BY <1>a, <2>4 DEF ProposalsMatch
    <3>2. op.index \in Nat
        BY <1>a, <1>b DEF Operation, Index
    <3> QED BY <1>a, <1>b, <1>2, <2>3, <2>4, <3>1, <3>2
  <2>5. ASSUME NEW x \in Cmd, status[x] = "acked"
        PROVE  \E i \in 1..k : log[c][i] # Nil /\ log[c][i].val = x
    <3>1. PICK i \in 1..commitIndex[c] : log[c][i] # Nil /\ log[c][i].val = x
        BY <1>a, <2>5 DEF ProposalsMatch
    <3> QED BY <1>a, <1>b, <1>2, <3>1
  <2> QED BY <1>3, <1>d, <2>3, <2>4, <2>5 DEF ProposalsMatch
<1> QED BY <1>4, <1>5, <1>6, <1>7, <1>8, <1>9 DEF ReplicationInv

-----------------------------------------------------------------------------
(* The invariant is inductive.                                             *)

\* It holds before anything happened.
LEMMA ReplicationInit ==
    ASSUME NEW c, Candidates = {c}, Init
    PROVE  ReplicationInv
<1>1. TypeOK
    BY TypeInit
<1>2. OnlyCandidatesAct
    BY DEF Init, OnlyCandidatesAct
<1>3. LogsArePrefixes
    BY NodeAssumption DEF Init, LogsArePrefixes, PrefixOf, EmptyLog
<1>4. NoOpSlotFree /\ RequestsFromLog /\ AnswersHold
    BY NodeAssumption DEF Init, NoOpSlotFree, RequestsFromLog, AnswersHold, Idle, Doing
<1>5. MatchHolds /\ CommitHolds
    BY NodeAssumption DEF Init, MatchHolds, CommitHolds
<1>6. ProposalsMatch
    BY NodeAssumption DEF Init, ProposalsMatch
<1> QED BY <1>1, <1>2, <1>3, <1>4, <1>5, <1>6 DEF ReplicationInv

\* Every step keeps it, and no step takes an entry or a commit index back.
LEMMA ReplicationStep ==
    ASSUME NEW c, Candidates = {c}, ReplicationInv, [Next]_vars
    PROVE  ReplicationInv' /\ LogsGrow
<1> USE DEF stable, roleVars, leaderVars, loopVars, applyVars
<1>a. /\ c \in Node /\ TypeOK /\ OnlyCandidatesAct /\ LogsArePrefixes /\ NoOpSlotFree
      /\ RequestsFromLog /\ AnswersHold /\ MatchHolds /\ CommitHolds /\ ProposalsMatch
    BY NodeAssumption DEF ReplicationInv
<1>b. TypeOK'
    BY <1>a, TypeStep
<1>c. OnlyCandidatesAct'
    BY <1>a, ActorsStep
<1>d. /\ log \in [Node -> Logs] /\ commitIndex \in [Node -> 0..MaxLog]
      /\ loop \in [Node -> LoopStates] /\ matchIndex \in [Node -> [Node -> 0..MaxLog]]
      /\ proposals \in [Node -> [Index -> Cmd \cup {Nil}]]
      /\ pending \in [Node -> SUBSET Operation]
      /\ status \in [Cmd -> {"new", "queued", "rejected", "acked"}]
      /\ currentTerm \in [Node -> 0..MaxTerm]
    BY <1>a DEF TypeOK, StableType, LoopType, LeaderType, ApplyType, Logs
<1>e. \A n \in Node \ {c} : loop[n].pc = "idle"
    BY <1>a DEF OnlyCandidatesAct, Idle, Doing
<1>f. ASSUME UNCHANGED <<log, commitIndex>>
      PROVE  LogsGrow /\ LogsArePrefixes' /\ CommitHolds'
    BY <1>a, <1>d, <1>f DEF LogsGrow, LogsArePrefixes, CommitHolds
<1>g. \A a \in appends : CallSound(a)
    BY <1>a DEF CallSound, RequestsFromLog, AnswersHold
<1>h. (\A a \in appends' : CallSound(a)') => RequestsFromLog' /\ AnswersHold'
    BY DEF CallSound, RequestsFromLog, AnswersHold
<1>i. ASSUME UNCHANGED <<log, commitIndex>>, NEW a \in appends PROVE CallSound(a)'
    BY <1>g, <1>i DEF CallSound
<1>1. CASE Calm
    BY <1>b, <1>c, <1>d, <1>1, <1>f, CalmKeeps DEF Calm
<1>2. ASSUME NEW n \in Node, AppendNoOp(n) PROVE ReplicationInv' /\ LogsGrow
  <2> DEFINE i == NoOpIndex(n)
             e == [term |-> currentTerm[n], val |-> NoOp]
             l == StoreLog(log[n], i, e)
  <2>1. n = c /\ loop[n].pc = "noop" /\ i <= MaxLog
      BY <1>2, <1>e DEF AppendNoOp
  <2>2. i = LastIndex(log[c]) + 1
      BY <1>a, <2>1 DEF NoOpSlotFree, NoOpIndex
  <2>3. i \in Index
      BY <2>1, <2>2, LastIndexFacts DEF Index
  <2>4. e \in Entry
      BY <1>d DEF Entry
  <2>5. /\ log' = [log EXCEPT ![c] = l]
        /\ matchIndex' = [matchIndex EXCEPT ![c][c] = i]
        /\ CommitAlone(c, l, i, proposals[c])
        /\ loop' = [loop EXCEPT ![c] = Idle]
        /\ UNCHANGED <<appends, status>>
      BY <1>2, <2>1 DEF AppendNoOp
  <2>6. proposals[c] \in [Index -> Cmd \cup {Nil}]
      BY <1>a, <1>d
  <2>7. l = StoreLog(log[c], i, e)
      BY <2>1
  <2> HIDE DEF i, e, l
  <2>8. \A p \in Node \ {c} : matchIndex'[c][p] = matchIndex[c][p]
      BY <1>a, <1>d, <2>5
  <2>9. \A k \in Index : proposals[c][k] # Nil =>
            proposals[c][k] = proposals[c][k] \/ (k = i /\ proposals[c][k] = e.val)
      OBVIOUS
  <2>10. Appends(c, i, e, l, proposals[c])
      BY <2>2, <2>3, <2>4, <2>5, <2>6, <2>7, <2>8, <2>9 DEF Appends
  <2> QED BY <1>b, <1>c, <2>10, AppendKeeps
<1>3. ASSUME NEW n \in Node, AppendProposal(n) PROVE ReplicationInv' /\ LogsGrow
  <2> DEFINE i == LastIndex(log[n]) + 1
             x == loop[n].cmd
             e == [term |-> currentTerm[n], val |-> x]
             l == StoreLog(log[n], i, e)
             props == [proposals[n] EXCEPT ![i] = x]
  <2>1. n = c /\ loop[n].pc = "append" /\ i <= MaxLog
      BY <1>3, <1>e DEF AppendProposal
  <2>2. i = LastIndex(log[c]) + 1
      BY <2>1
  <2>3. i \in Index
      BY <2>1, <2>2, LastIndexFacts DEF Index
  <2>4. x \in Cmd /\ e \in Entry
    <3>1. x \in Cmd
        BY <1>d, <2>1 DEF LoopStates
    <3> QED BY <1>d, <3>1 DEF Entry
  <2>5. /\ log' = [log EXCEPT ![c] = l]
        /\ matchIndex' = [matchIndex EXCEPT ![c][c] = i]
        /\ CommitAlone(c, l, i, props)
        /\ loop' = [loop EXCEPT ![c] = Idle]
        /\ UNCHANGED <<appends, status>>
      BY <1>3, <2>1 DEF AppendProposal
  <2>6. /\ props \in [Index -> Cmd \cup {Nil}]
        /\ \A k \in Index : props[k] # Nil =>
               props[k] = proposals[c][k] \/ (k = i /\ props[k] = e.val)
    <3>1. proposals[c] \in [Index -> Cmd \cup {Nil}] /\ props = [proposals[c] EXCEPT ![i] = x]
        BY <1>a, <1>d, <2>1
    <3>2. e.val = x
        OBVIOUS
    <3> HIDE DEF i, x, e, props
    <3> QED BY <2>3, <2>4, <3>1, <3>2
  <2>7. l = StoreLog(log[c], i, e)
      BY <2>1
  <2> HIDE DEF i, x, e, l, props
  <2>8. \A p \in Node \ {c} : matchIndex'[c][p] = matchIndex[c][p]
      BY <1>a, <1>d, <2>5
  <2>9. Appends(c, i, e, l, props)
      BY <2>2, <2>3, <2>4, <2>5, <2>6, <2>7, <2>8 DEF Appends
  <2> QED BY <1>b, <1>c, <2>9, AppendKeeps
<1>4. ASSUME NEW n \in Node, BecomeLeader(n) PROVE ReplicationInv' /\ LogsGrow
  <2>1. n = c
      BY <1>4, <1>e DEF BecomeLeader
  <2>2. UNCHANGED <<log, commitIndex, proposals, pending, appends, status>>
      BY <1>4 DEF BecomeLeader
  <2>3. NoOpSlotFree'
    <3>1. \/ loop' = [loop EXCEPT ![c] = Idle]
          \/ loop' = [loop EXCEPT ![c] = Doing("noop", LastIndex(log[c]), Nil)]
        BY <1>4, <2>1 DEF BecomeLeader
    <3>2. loop'[c].pc = "noop" => loop'[c].last = LastIndex(log[c])
        BY <1>a, <1>d, <3>1 DEF Idle, Doing
    <3> QED BY <2>2, <3>2 DEF NoOpSlotFree
  <2>4. MatchHolds'
    <3>1. \A p \in Node \ {c} : matchIndex'[c][p] \in {0, matchIndex[c][p]}
        BY <1>4, <1>d, <2>1 DEF BecomeLeader
    <3> QED BY <1>a, <2>2, <3>1 DEF MatchHolds
  <2>5. RequestsFromLog' /\ AnswersHold'
      BY <1>h, <1>i, <2>2
  <2>6. ProposalsMatch'
      BY <1>a, <2>2 DEF ProposalsMatch
  <2> QED BY <1>b, <1>c, <1>f, <2>2, <2>3, <2>4, <2>5, <2>6 DEF ReplicationInv
<1>5. ASSUME NEW n \in Node, Apply(n) PROVE ReplicationInv' /\ LogsGrow
  <2>1. /\ UNCHANGED <<log, commitIndex, loop, matchIndex, appends, proposals>>
        /\ \A m \in Node : pending'[m] \subseteq pending[m]
      BY <1>5, <1>d DEF Apply
  <2>2. NoOpSlotFree' /\ MatchHolds' /\ RequestsFromLog' /\ AnswersHold'
      BY <1>a, <2>1 DEF NoOpSlotFree, MatchHolds, RequestsFromLog, AnswersHold
  <2>3. ASSUME NEW x \in Cmd, status'[x] = "acked"
        PROVE  \E i \in 1..commitIndex[c] : log[c][i] # Nil /\ log[c][i].val = x
    <3>1. CASE status[x] = "acked"
        BY <1>a, <3>1 DEF ProposalsMatch
    <3>2. CASE status[x] # "acked"
      <4>1. PICK op \in pending[n] : op.cmd = x
          BY <1>5, <1>d, <2>3, <3>2 DEF Apply
      <4>2. op.cmd # Nil
          BY <4>1, NilAssumption
      <4>3. n = c
          BY <1>a, <4>2 DEF OnlyCandidatesAct
      <4>4. op.index \in Index
          BY <1>d DEF Operation
      <4>5. /\ op.index <= commitIndex[c]
            /\ log[c][op.index] # Nil /\ log[c][op.index].val = x
          BY <1>a, <4>1, <4>2, <4>3 DEF ProposalsMatch
      <4>6. op.index \in 1..commitIndex[c]
          BY <1>a, <1>d, <4>4, <4>5 DEF Index
      <4> QED BY <4>5, <4>6
    <3> QED BY <3>1, <3>2
  <2>4. ProposalsMatch'
      BY <1>a, <2>1, <2>3 DEF ProposalsMatch
  <2> QED BY <1>b, <1>c, <1>f, <2>1, <2>2, <2>4 DEF ReplicationInv
<1>6. ASSUME NEW n \in Node, SpawnReplicators(n) PROVE ReplicationInv' /\ LogsGrow
  <2>1. UNCHANGED <<log, commitIndex, matchIndex, proposals, pending, status>>
      BY <1>6 DEF SpawnReplicators
  <2>2. ASSUME NEW a \in appends' PROVE CallSound(a)'
    <3>1. CASE a \in appends
        BY <1>i, <2>1, <3>1
    <3>2. CASE a \notin appends
      <4>1. a.from = n /\ a.commit = commitIndex[n] /\ a.phase = "spawned"
          BY <1>6, <3>2 DEF SpawnReplicators
      <4> QED BY <1>d, <2>1, <4>1 DEF CallSound
    <3> QED BY <3>1, <3>2
  <2>3. RequestsFromLog' /\ AnswersHold'
      BY <1>h, <2>2
  <2>4. NoOpSlotFree'
    <3>1. loop' = loop \/ loop' = [loop EXCEPT ![n] = Idle]
        BY <1>6 DEF SpawnReplicators
    <3>2. Idle.pc # "noop"
        BY DEF Idle, Doing
    <3>3. loop'[c].pc = "noop" => loop'[c].last = loop[c].last /\ loop[c].pc = "noop"
        BY <1>a, <1>d, <3>1, <3>2
    <3> QED BY <1>a, <2>1, <3>3 DEF NoOpSlotFree
  <2>5. MatchHolds' /\ ProposalsMatch'
      BY <1>a, <2>1 DEF MatchHolds, ProposalsMatch
  <2> QED BY <1>b, <1>c, <1>f, <2>1, <2>3, <2>4, <2>5 DEF ReplicationInv
<1>7. ASSUME NEW n \in Node, Crash(n) PROVE ReplicationInv' /\ LogsGrow
  <2>1. UNCHANGED <<log, commitIndex, status>>
      BY <1>7 DEF Crash
  <2>2. ASSUME NEW a \in appends' PROVE CallSound(a)'
    <3>1. CASE a \in appends
        BY <1>i, <2>1, <3>1
    <3>2. ASSUME NEW b \in appends, a = [b EXCEPT !.orphan = TRUE] PROVE CallSound(a)'
      <4>1. b \in AppendCalls
          BY <1>a DEF TypeOK, CallType
      <4>2. /\ a.commit = b.commit /\ a.from = b.from /\ a.to = b.to /\ a.phase = b.phase
            /\ a.sent = b.sent /\ a.entries = b.entries /\ a.next = b.next
            /\ a.success = b.success
          BY <3>2, <4>1 DEF AppendCalls
      <4> QED BY <1>i, <2>1, <4>2 DEF CallSound
    <3>3. a \in appends \/ \E b \in appends : a = [b EXCEPT !.orphan = TRUE]
        BY <1>7 DEF Crash
    <3> QED BY <3>1, <3>2, <3>3
  <2>3. RequestsFromLog' /\ AnswersHold'
      BY <1>h, <2>2
  <2>4. NoOpSlotFree'
    <3>1. loop' = [loop EXCEPT ![n] = Idle]
        BY <1>7 DEF Crash
    <3>2. loop'[c].pc = "noop" => loop'[c].last = loop[c].last /\ loop[c].pc = "noop"
        BY <1>a, <1>d, <3>1 DEF Idle, Doing
    <3> QED BY <1>a, <2>1, <3>2 DEF NoOpSlotFree
  <2>5. MatchHolds'
    <3>1. \A p \in Node : matchIndex'[c][p] \in {0, matchIndex[c][p]}
        BY <1>7, <1>a, <1>d DEF Crash
    <3> QED BY <1>a, <2>1, <3>1 DEF MatchHolds
  <2>6. ProposalsMatch'
    <3>1. /\ \A i \in Index : proposals'[c][i] \in {Nil, proposals[c][i]}
          /\ pending'[c] \subseteq pending[c]
        BY <1>7, <1>a, <1>d DEF Crash
    <3> QED BY <1>a, <2>1, <3>1 DEF ProposalsMatch
  <2> QED BY <1>b, <1>c, <1>f, <2>1, <2>3, <2>4, <2>5, <2>6 DEF ReplicationInv
<1>8. ASSUME NEW a \in appends, Replicate(a) PROVE ReplicationInv' /\ LogsGrow
  <2> DEFINE next == nextIndex[c][a.to]
             entries == LogEntries(log[c], next, MaxBatch)
             request(t) == [a EXCEPT !.phase = "request", !.next = next, !.prevTerm = t,
                                     !.entries = entries, !.sent = LastIndex(entries)]
  <2>1. UNCHANGED <<log, commitIndex, loop, matchIndex, proposals, pending, status>>
      BY <1>8 DEF Replicate
  <2>2. a.from = c /\ a.to \in Node /\ a \in AppendCalls
      BY <1>a, CallFields DEF OnlyCandidatesAct, TypeOK, CallType
  <2>3. PICK r, t : r = request(t) /\ appends' = (appends \ {a}) \cup {r}
      BY <1>8, <2>2 DEF Replicate
  <2>4. CallSound(r)'
    <3>1. next \in 1..(MaxLog + 1)
        BY <1>a, <2>2 DEF TypeOK, LeaderType
    <3>2. \A i \in Index : entries[i] # Nil =>
             /\ entries[i] = log[c][i] /\ next <= i
             /\ \A j \in next..i : entries[j] # Nil
        BY <1>a, <1>d, <3>1, LogEntriesPiece
    <3>3. a.commit <= commitIndex[c]
        BY <1>a, <2>2 DEF RequestsFromLog
    <3> HIDE DEF next, entries
    <3>4. /\ r.from = c /\ r.commit = a.commit
          /\ r.phase = "request" /\ r.next = next
          /\ r.entries = entries /\ r.sent = LastIndex(entries)
        BY <2>2, <2>3 DEF AppendCalls
    <3>5. r.commit <= commitIndex'[r.from]
        BY <2>1, <3>3, <3>4
    <3>6. \A i \in Index : r.entries[i] # Nil =>
             /\ r.entries[i] = log'[r.from][i] /\ r.next <= i
             /\ \A j \in r.next..i : r.entries[j] # Nil
        BY <2>1, <3>2, <3>4
    <3>7. r.sent = LastIndex(r.entries)
        BY <3>4
    <3> QED BY <3>4, <3>5, <3>6, <3>7 DEF CallSound
  <2>5. RequestsFromLog' /\ AnswersHold'
    <3>1. \A b \in appends' : CallSound(b)'
        BY <1>i, <2>1, <2>3, <2>4
    <3> QED BY <1>h, <3>1
  <2>6. NoOpSlotFree' /\ MatchHolds' /\ ProposalsMatch'
      BY <1>a, <2>1 DEF NoOpSlotFree, MatchHolds, ProposalsMatch
  <2> QED BY <1>b, <1>c, <1>f, <2>1, <2>5, <2>6 DEF ReplicationInv
<1>9. ASSUME NEW a \in appends, AcceptAppend(a) PROVE ReplicationInv' /\ LogsGrow
    BY <1>b, <1>c, <1>9, AcceptKeeps
<1>10. ASSUME NEW a \in appends, ReplicateOk(a) PROVE ReplicationInv' /\ LogsGrow
    BY <1>b, <1>c, <1>10, SuccessKeeps
<1> QED BY <1>a, <1>1, <1>2, <1>3, <1>4, <1>5, <1>6, <1>7, <1>8, <1>9, <1>10, CalmSteps

-----------------------------------------------------------------------------
(* What follows from it.                                                   *)

\* With one candidate, ReplicationInv holds in every reachable state: its election,
\* replication, crashes and restarts never leave the picture the code relies on.
THEOREM ReplicationHolds ==
    ASSUME NEW c, Candidates = {c}
    PROVE  Spec => []ReplicationInv
<1>1. Init => ReplicationInv
    BY ReplicationInit
<1>2. ReplicationInv /\ [Next]_vars => ReplicationInv'
    BY ReplicationStep
<1> QED BY <1>1, <1>2, PTL DEF Spec

\* With one candidate, no step of any node removes or replaces a stored entry (the
\* deletion branch of HandleAppendEntries is never taken), and no commit index falls.
THEOREM NothingLost ==
    ASSUME NEW c, Candidates = {c}
    PROVE  Spec => [][LogsGrow]_vars
<1>1. ReplicationInv /\ [Next]_vars => [LogsGrow]_vars
    BY ReplicationStep
<1> QED BY <1>1, ReplicationHolds, PTL DEF Spec

\* With one candidate, every node holds at each index up to its commit index an entry
\* that a majority stores.
THEOREM CommitsOnMajority ==
    ASSUME NEW c, Candidates = {c}
    PROVE  Spec => []CommittedOnMajority
<1>1. ReplicationInv => CommittedOnMajority
  <2> SUFFICES ASSUME ReplicationInv, NEW n \in Node, NEW i \in 1..commitIndex[n]
               PROVE  /\ log[n][i] # Nil
                      /\ Majority({m \in Node : log[m][i] = log[n][i]})
      BY DEF CommittedOnMajority
  <2>1. /\ c \in Node /\ LogsArePrefixes /\ CommitHolds
        /\ commitIndex \in [Node -> 0..MaxLog]
      BY NodeAssumption DEF ReplicationInv, TypeOK, StableType
  <2>2. /\ commitIndex[n] <= commitIndex[c] /\ log[n][i] # Nil
      BY <2>1 DEF CommitHolds
  <2>3. i \in Index /\ i \in 1..commitIndex[c]
      BY <2>1, <2>2 DEF Index
  <2>4. Majority({m \in Node : log[m][i] # Nil})
      BY <2>1, <2>3 DEF CommitHolds
  <2>5. \A m \in Node : log[m][i] # Nil => log[m][i] = log[c][i]
      BY <2>1, <2>3 DEF LogsArePrefixes, PrefixOf
  <2>6. {m \in Node : log[m][i] # Nil} \subseteq {m \in Node : log[m][i] = log[n][i]}
      BY <2>2, <2>5
  <2> QED BY <2>2, <2>4, <2>6, MajorityGrows
<1> QED BY <1>1, ReplicationHolds, PTL

\* With one candidate, a command Propose answered with nil is on a majority.
THEOREM AcksReplicated ==
    ASSUME NEW c, Candidates = {c}
    PROVE  Spec => []AckedMeansReplicated
<1>1. ReplicationInv => AckedMeansReplicated
  <2> SUFFICES ASSUME ReplicationInv, NEW x \in Cmd, status[x] = "acked"
               PROVE  \E i \in Index :
                         Majority({n \in Node : log[n][i] # Nil /\ log[n][i].val = x})
      BY DEF AckedMeansReplicated
  <2>1. /\ c \in Node /\ LogsArePrefixes /\ CommitHolds /\ ProposalsMatch
        /\ commitIndex \in [Node -> 0..MaxLog]
      BY NodeAssumption DEF ReplicationInv, TypeOK, StableType
  <2>2. PICK i \in 1..commitIndex[c] : log[c][i] # Nil /\ log[c][i].val = x
      BY <2>1 DEF ProposalsMatch
  <2>3. i \in Index
      BY <2>1 DEF Index
  <2>4. Majority({m \in Node : log[m][i] # Nil})
      BY <2>1 DEF CommitHolds
  <2>5. \A m \in Node : log[m][i] # Nil => log[m][i] = log[c][i]
      BY <2>1, <2>3 DEF LogsArePrefixes, PrefixOf
  <2>6. {m \in Node : log[m][i] # Nil} \subseteq
           {m \in Node : log[m][i] # Nil /\ log[m][i].val = x}
      BY <2>2, <2>5
  <2>7. Majority({m \in Node : log[m][i] # Nil /\ log[m][i].val = x})
      BY <2>4, <2>6, MajorityGrows
  <2> QED BY <2>3, <2>7
<1> QED BY <1>1, ReplicationHolds, PTL

-----------------------------------------------------------------------------
(* The group implements CommittedLog.                                      *)

\* A step moves the commit index of one node at most.
LEMMA OneCommits ==
    ASSUME TypeOK, [Next]_vars
    PROVE  \/ UNCHANGED commitIndex
           \/ \E n \in Node, k \in Nat : commitIndex' = [commitIndex EXCEPT ![n] = k]
<1> USE DEF stable, roleVars, leaderVars, loopVars, applyVars
<1> DEFINE Moves == \/ UNCHANGED commitIndex
                    \/ \E n \in Node : \E k : commitIndex' = [commitIndex EXCEPT ![n] = k]
<1>1. CASE Calm
    BY <1>1 DEF Calm
<1>2. ASSUME NEW n \in Node, \/ AppendNoOp(n) \/ AppendProposal(n) \/ BecomeLeader(n)
                             \/ Apply(n) \/ SpawnReplicators(n) \/ Crash(n)
      PROVE  Moves
    BY <1>2 DEF AppendNoOp, AppendProposal, BecomeLeader, Apply, SpawnReplicators, Crash,
                CommitAlone
<1>3. ASSUME NEW a \in appends, Replicate(a) \/ AcceptAppend(a) \/ ReplicateOk(a)
      PROVE  Moves
  <2>1. a.from \in Node /\ a.to \in Node
      BY CallFields
  <2> QED BY <1>3, <2>1 DEF Replicate, AcceptAppend, ReplicateOk
<1>4. Moves
    BY <1>1, <1>2, <1>3, CalmSteps
<1>5. commitIndex \in [Node -> 0..MaxLog] /\ commitIndex' \in [Node -> 0..MaxLog]
    BY TypeStep DEF TypeOK, StableType
<1>6. ASSUME NEW n \in Node, NEW k, commitIndex' = [commitIndex EXCEPT ![n] = k]
      PROVE  k \in Nat
  <2>1. commitIndex'[n] = k
      BY <1>5, <1>6
  <2> QED BY <1>5, <2>1
<1> QED BY <1>4, <1>6

\* The first entries of a log, all there, are a sequence of entries.
LEMMA LogHead ==
    ASSUME NEW l \in Logs, NEW k \in 0..MaxLog, \A i \in 1..k : l[i] # Nil
    PROVE  /\ [i \in 1..k |-> l[i]] \in Seq(Entry)
           /\ Len([i \in 1..k |-> l[i]]) = k
<1> DEFINE head == [i \in 1..k |-> l[i]]
<1>1. head \in [1..k -> Entry]
    BY DEF Logs, Index
<1>2. head \in Seq(Entry)
  <2>1. Seq(Entry) = UNION {[1..j -> Entry] : j \in Nat}
      BY SeqDef, Zenon
  <2> HIDE DEF head
  <2>2. head \in UNION {[1..j -> Entry] : j \in Nat}
      BY <1>1
  <2> QED BY <2>1, <2>2, Zenon
<1>3. Len(head) = k
  <2>1. Len(head) \in Nat /\ DOMAIN head = 1..Len(head)
      BY <1>2, LenProperties
  <2>2. DOMAIN head = 1..k
      OBVIOUS
  <2>3. ASSUME NEW j \in Nat, 1..j = 1..k PROVE j = k
    <3>1. j > 0 => j \in 1..k
        BY <2>3
    <3>2. k > 0 => k \in 1..j
        BY <2>3
    <3> QED BY <3>1, <3>2
  <2> HIDE DEF head
  <2> QED BY <2>1, <2>2, <2>3
<1> QED BY <1>2, <1>3

\* With one candidate, the group implements one committed sequence that only grows:
\* the candidate's advanceCommitIndex chooses entries, a follower's
\* HandleAppendEntries learns of them, and nothing else touches either.
THEOREM ImplementsCommittedLog ==
    ASSUME NEW c, Candidates = {c}
    PROVE  Spec => RefinesCommittedLog
<1>a. c \in Node
    BY NodeAssumption
<1>b. /\ Chosen = [i \in 1..commitIndex[c] |-> log[c][i]]
      /\ Chosen' = [i \in 1..commitIndex'[c] |-> log'[c][i]]
  <2>1. (CHOOSE x \in Candidates : TRUE) = c
      OBVIOUS
  <2> QED BY <2>1 DEF Chosen
<1>c. ASSUME ReplicationInv
      PROVE  /\ commitIndex \in [Node -> 0..MaxLog] /\ log[c] \in Logs
             /\ \A i \in 1..commitIndex[c] : i \in Index /\ log[c][i] # Nil
             /\ \A n \in Node : commitIndex[n] <= commitIndex[c]
             /\ Chosen \in Seq(Entry) /\ Len(Chosen) = commitIndex[c]
  <2>1. /\ commitIndex \in [Node -> 0..MaxLog] /\ log[c] \in Logs
        /\ \A i \in 1..commitIndex[c] : log[c][i] # Nil
        /\ \A n \in Node : commitIndex[n] <= commitIndex[c]
      BY <1>a, <1>c DEF ReplicationInv, CommitHolds, TypeOK, StableType, Logs
  <2>2. \A i \in 1..commitIndex[c] : i \in Index
      BY <1>a, <2>1 DEF Index
  <2>3. Chosen \in Seq(Entry) /\ Len(Chosen) = commitIndex[c]
      BY <1>a, <1>b, <2>1, LogHead
  <2> QED BY <2>1, <2>2, <2>3
<1>1. Init => Promise!Init
  <2> SUFFICES ASSUME Init PROVE Promise!Init
      OBVIOUS
  <2>1. ReplicationInv /\ commitIndex = [n \in Node |-> 0]
      BY ReplicationInit DEF Init
  <2>2. Chosen \in Seq(Entry) /\ Len(Chosen) = 0
      BY <1>a, <1>c, <2>1
  <2>3. Chosen = << >>
      BY <2>2, EmptySeq
  <2> QED BY <2>1, <2>3 DEF Promise!Init
<1>2. ReplicationInv /\ [Next]_vars => [Promise!Next]_(Promise!vars)
  <2> SUFFICES ASSUME ReplicationInv, [Next]_vars
               PROVE  Promise!Next \/ UNCHANGED <<Chosen, commitIndex>>
      BY DEF Promise!vars
  <2>1. ReplicationInv' /\ LogsGrow /\ TypeOK
      BY ReplicationStep DEF ReplicationInv
  <2>2. /\ \A i \in 1..commitIndex[c] : log'[c][i] = log[c][i]
        /\ commitIndex[c] <= commitIndex'[c]
        /\ commitIndex' \in [Node -> 0..MaxLog]
        /\ \A n \in Node : commitIndex'[n] <= commitIndex'[c]
        /\ Chosen' \in Seq(Entry) /\ Len(Chosen') = commitIndex'[c]
        /\ Chosen' = [i \in 1..commitIndex'[c] |-> log'[c][i]]
    <3>1. /\ commitIndex' \in [Node -> 0..MaxLog] /\ log'[c] \in Logs
          /\ \A i \in 1..commitIndex'[c] : log'[c][i] # Nil
          /\ \A n \in Node : commitIndex'[n] <= commitIndex'[c]
        BY <1>a, <2>1 DEF ReplicationInv, CommitHolds, TypeOK, StableType, Logs
    <3>2. Chosen' = [i \in 1..commitIndex'[c] |-> log'[c][i]]
        BY <1>b
    <3>3. Chosen' \in Seq(Entry) /\ Len(Chosen') = commitIndex'[c]
        BY <1>a, <3>1, <3>2, LogHead
    <3>4. /\ \A i \in 1..commitIndex[c] : log'[c][i] = log[c][i]
          /\ commitIndex[c] <= commitIndex'[c]
        BY <1>a, <1>c, <2>1 DEF LogsGrow
    <3> QED BY <3>1, <3>2, <3>3, <3>4
  <2>3. ASSUME commitIndex'[c] = commitIndex[c] PROVE Chosen' = Chosen
      BY <1>b, <2>2, <2>3
  <2>4. CASE UNCHANGED commitIndex
      BY <2>3, <2>4
  <2>5. ASSUME NEW n \in Node, NEW k \in Nat,
               commitIndex' = [commitIndex EXCEPT ![n] = k], commitIndex' # commitIndex
        PROVE  Promise!Next
    <3>1. commitIndex'[n] = k /\ commitIndex[n] < k
        BY <1>c, <2>1, <2>2, <2>5 DEF LogsGrow
    <3>2. CASE n = c
      <4>1. Len(Chosen') > Len(Chosen)
          BY <1>c, <2>2, <3>1, <3>2
      <4>2. \A i \in 1..Len(Chosen) : Chosen'[i] = Chosen[i]
          BY <1>a, <1>b, <1>c, <2>2
      <4>3. commitIndex' = [commitIndex EXCEPT ![n] = Len(Chosen')]
          BY <2>2, <2>5, <3>1, <3>2
      <4>4. Promise!Choose(n)
          BY <2>2, <4>1, <4>2, <4>3 DEF Promise!Choose
      <4> QED BY <4>4 DEF Promise!Next
    <3>3. CASE n # c
      <4>1. commitIndex'[c] = commitIndex[c]
          BY <1>a, <1>c, <2>5, <3>3
      <4>2. k <= commitIndex'[c]
          BY <2>2, <3>1
      <4>3. k \in (commitIndex[n] + 1)..Len(Chosen)
          BY <1>a, <1>c, <3>1, <4>1, <4>2
      <4>4. Promise!Learn(n)
          BY <2>3, <2>5, <4>1, <4>3 DEF Promise!Learn
      <4> QED BY <4>4 DEF Promise!Next
    <3> QED BY <3>2, <3>3
  <2> QED BY <2>1, <2>4, <2>5, OneCommits
<1> QED BY <1>1, <1>2, ReplicationHolds, PTL DEF Spec, RefinesCommittedLog, Promise!Spec
=============================================================================
