----------------------------- MODULE RaftProofs -----------------------------
(***************************************************************************)
(* Proofs about the Raft group, for every value of the constants.          *)
(***************************************************************************)
EXTENDS RaftProperties, WellFoundedInduction, FiniteSetTheorems, SequenceTheorems, TLAPS

-----------------------------------------------------------------------------
(* The log operators of RaftLog.                                           *)

\* A non-empty set of naturals has a least element: what LastIndex and the append
\* loop of HandleAppendEntries pick exists.
LEMMA MinExists ==
    ASSUME NEW S, S \subseteq Nat, S # {}
    PROVE  Min(S) \in S /\ \A y \in S : Min(S) <= y
<1>1. PICK x \in S : \A y \in S : <<y, x>> \notin OpToRel(<, Nat)
    BY NatLessThanWellFounded, WFMin
<1>2. \A y \in S : ~(y < x)
    BY <1>1, Zenon DEF OpToRel
<1>3. \A y \in S : x <= y
    BY <1>2
<1> QED BY <1>3 DEF Min

\* A non-empty set of naturals up to a bound has a greatest element.
LEMMA MaxExists ==
    ASSUME NEW N \in Nat, NEW S, S \subseteq 0..N, S # {}
    PROVE  Max(S) \in S /\ \A y \in S : y <= Max(S)
<1> DEFINE T == {N - x : x \in S}
<1>1. T \subseteq Nat /\ T # {}
  <2>1. \A x \in S : N - x \in Nat
    OBVIOUS
  <2> QED BY <2>1
<1>2. PICK t \in T : \A u \in T : t <= u
    BY <1>1, MinExists
<1>3. PICK x \in S : t = N - x
    BY <1>2
<1>4. \A y \in S : y <= x
    BY <1>2, <1>3
<1> QED BY <1>4 DEF Max

\* getLastLogIndex: the last index holds an entry and none beyond it does.
LEMMA LastIndexFacts ==
    ASSUME MaxLog \in Nat, NEW l
    PROVE  /\ LastIndex(l) \in 0..MaxLog
           /\ \A i \in Index : l[i] # Nil => i <= LastIndex(l)
           /\ LastIndex(l) > 0 => LastIndex(l) \in Index /\ l[LastIndex(l)] # Nil
<1>1. /\ {0} \cup Present(l) \subseteq 0..MaxLog
      /\ {0} \cup Present(l) # {}
    BY DEF Present, Index
<1>2. /\ LastIndex(l) \in {0} \cup Present(l)
      /\ \A i \in {0} \cup Present(l) : i <= LastIndex(l)
    BY <1>1, MaxExists DEF LastIndex
<1> QED BY <1>2 DEF Present, Index

\* getLastLogTerm returns a term when all entries have one.
LEMMA LastTermType ==
    ASSUME MaxLog \in Nat, NEW T, 0 \in T, NEW l,
           \A i \in Index : l[i] # Nil => l[i].term \in T
    PROVE  LastTerm(l) \in T
<1>1. CASE Present(l) = {}
    BY <1>1 DEF LastTerm
<1>2. CASE Present(l) # {}
  <2>1. PICK i \in Index : l[i] # Nil
      BY <1>2 DEF Present
  <2>2. LastIndex(l) \in Index /\ l[LastIndex(l)] # Nil
      BY <2>1, LastIndexFacts DEF Index
  <2> QED BY <1>2, <2>2 DEF LastTerm
<1> QED BY <1>1, <1>2

\* The loop of collectApplyOps stays between where it starts and where it is told
\* to stop, and every index it passes holds an entry.
LEMMA ReachedFromFacts ==
    ASSUME MaxLog \in Nat, NEW l, NEW from \in 0..MaxLog, NEW to \in Nat
    PROVE  LET r == ReachedFrom(l, from, to)
           IN  /\ r \in 0..MaxLog
               /\ from <= r
               /\ r = from \/ r <= to
               /\ \A i \in (from + 1)..r : i \in Index /\ l[i] # Nil
<1> DEFINE S == {from} \cup {k \in Index : /\ k \in (from + 1)..to
                                          /\ \A i \in (from + 1)..k : l[i] # Nil}
           r == ReachedFrom(l, from, to)
<1>1. S \subseteq 0..MaxLog /\ S # {}
    BY DEF Index
<1>2. r \in S /\ \A k \in S : k <= r
    BY <1>1, MaxExists DEF ReachedFrom
<1>3. CASE r = from
    BY <1>3
<1>4. CASE r # from
  <2>1. /\ r \in Index /\ r \in (from + 1)..to
        /\ \A i \in (from + 1)..r : l[i] # Nil
      BY <1>2, <1>4
  <2> QED BY <2>1 DEF Index
<1> QED BY <1>3, <1>4

USE BoundAssumption DEF BoundAssumption

-----------------------------------------------------------------------------
(* Types of the operators the actions share.                               *)

Logs == [Index -> Entry \cup {Nil}]

\* The last entry of a log, and a log without entries.
LEMMA LogTypes ==
    ASSUME NEW l \in Logs
    PROVE  /\ LastIndex(l) \in 0..MaxLog
           /\ LastTerm(l) \in 0..MaxTerm
           /\ EmptyLog \in Logs
<1>1. \A i \in Index : l[i] # Nil => l[i].term \in 0..MaxTerm
    BY DEF Logs, Entry
<1>2. LastIndex(l) \in 0..MaxLog
    BY LastIndexFacts
<1>3. MaxLog \in Nat /\ 0 \in 0..MaxTerm
    OBVIOUS
<1>4. LastTerm(l) \in 0..MaxTerm
    BY <1>1, <1>3, LastTermType, Zenon
<1> QED BY <1>2, <1>4 DEF Logs, EmptyLog

\* The requests of a phase are well-formed.
LEMMA CallsType ==
    ASSUME TypeOK, NEW n \in Node, NEW kind \in {"prevote", "vote"}, NEW term \in 0..MaxTerm
    PROVE  Calls(n, kind, term) \subseteq Ballots
<1>1. LastIndex(log[n]) \in 0..MaxLog /\ LastTerm(log[n]) \in 0..MaxTerm
    BY LogTypes DEF TypeOK, StableType, Logs
<1>2. \A p \in Peers(n) : p \in Node
    BY DEF Peers
<1>3. ASSUME NEW p \in Node, NEW i \in 0..MaxLog, NEW t \in 0..MaxTerm
      PROVE  [kind |-> kind, from |-> n, to |-> p, term |-> term, lastIndex |-> i,
              lastTerm |-> t, phase |-> "request", mode |-> "live", rterm |-> 0,
              granted |-> FALSE] \in Ballots
    BY DEF Ballots
<1> QED BY <1>1, <1>2, <1>3 DEF Calls

\* A call that becomes late stays a call.
LEMMA LateType ==
    ASSUME TypeOK, NEW n \in Node
    PROVE  Late(n) \subseteq Ballots
<1> SUFFICES ASSUME NEW b \in ballots
             PROVE  [b EXCEPT !.mode = IF b.from = n /\ @ = "live" THEN "late" ELSE @] \in Ballots
    BY DEF Late
<1>1. b \in Ballots
    BY DEF TypeOK, CallType
<1> QED BY <1>1 DEF Ballots

\* What the run loop may be at between two of its critical sections.
LEMMA LoopTypes ==
    /\ \A n \in Node, kind \in {"prevote", "vote"} : Collecting(n, kind) \in LoopStates
    /\ \A pc \in {"idle", "noop", "append", "beat"}, last \in 0..MaxLog, cmd \in Cmd \cup {Nil} :
          (pc = "append" => cmd \in Cmd) => Doing(pc, last, cmd) \in LoopStates
    /\ Idle \in LoopStates
<1>1. ASSUME NEW n \in Node, NEW kind \in {"prevote", "vote"}
      PROVE  Collecting(n, kind) \in LoopStates
  <2>1. {n} \in SUBSET Node /\ Peers(n) \in SUBSET Node
      BY DEF Peers
  <2> QED BY <2>1 DEF Collecting, LoopStates
<1>2. ASSUME NEW pc \in {"idle", "noop", "append", "beat"}, NEW last \in 0..MaxLog,
             NEW cmd \in Cmd \cup {Nil}, pc = "append" => cmd \in Cmd
      PROVE  Doing(pc, last, cmd) \in LoopStates
  <2>1. {} \in SUBSET Node
      OBVIOUS
  <2>2. Doing(pc, last, cmd) \in
           [pc : {"idle", "prevote", "vote", "noop", "append", "beat"}, votes : SUBSET Node,
            waiting : SUBSET Node, last : 0..MaxLog, cmd : Cmd \cup {Nil}]
      BY <2>1, <1>2 DEF Doing
  <2>3. Doing(pc, last, cmd).pc = pc /\ Doing(pc, last, cmd).cmd = cmd
      BY DEF Doing
  <2> QED BY <1>2, <2>2, <2>3 DEF LoopStates
<1>3. Idle \in LoopStates
    BY <1>2 DEF Idle
<1> QED BY <1>1, <1>2, <1>3

\* What the messages and calls in flight carry.
LEMMA CallFields ==
    ASSUME TypeOK
    PROVE  /\ \A b \in ballots : /\ b.from \in Node /\ b.to \in Node /\ b.term \in 0..MaxTerm
                                 /\ b.rterm \in 0..MaxTerm /\ b.granted \in BOOLEAN
                                 /\ b.lastTerm \in 0..MaxTerm /\ b.lastIndex \in 0..MaxLog
           /\ \A a \in appends : /\ a.from \in Node /\ a.to \in Node /\ a.term \in 0..MaxTerm
                                 /\ a.rterm \in 0..MaxTerm /\ a.success \in BOOLEAN
                                 /\ a.commit \in 0..MaxLog /\ a.next \in 1..(MaxLog + 1)
                                 /\ a.entries \in Logs /\ a.sent \in 0..MaxLog
BY DEF TypeOK, CallType, Ballots, AppendCalls, Logs

\* The answer to a vote request is well formed.
LEMMA AnswerType ==
    ASSUME TypeOK, NEW b \in ballots, NEW term \in 0..MaxTerm, NEW granted \in BOOLEAN,
           Answer(b, term, granted)
    PROVE  ballots' \subseteq Ballots
<1>1. b \in Ballots
    BY DEF TypeOK, CallType
<1>2. [kind |-> b.kind, from |-> b.from, to |-> b.to, term |-> b.term,
       lastIndex |-> 0, lastTerm |-> 0, phase |-> "response", mode |-> b.mode,
       rterm |-> term, granted |-> granted] \in Ballots
    BY <1>1 DEF Ballots
<1> QED BY <1>2 DEF Answer, TypeOK, CallType

\* The answer to an AppendEntries request is well formed.
LEMMA RespondType ==
    ASSUME TypeOK, NEW a \in appends, NEW term \in 0..MaxTerm, NEW ok \in BOOLEAN,
           NEW batch \in 0..MaxLog, Respond(a, term, ok, batch)
    PROVE  appends' \subseteq AppendCalls
<1>1. a \in AppendCalls
    BY DEF TypeOK, CallType
<1>2. EmptyLog \in [Index -> Entry \cup {Nil}]
    BY DEF EmptyLog
<1>3. [from |-> a.from, to |-> a.to, slot |-> a.slot, term |-> a.term, commit |-> 0,
       phase |-> "response", orphan |-> FALSE, next |-> a.next, prevTerm |-> 0,
       entries |-> EmptyLog, sent |-> a.sent, rterm |-> term, success |-> ok,
       batch |-> batch] \in AppendCalls
    BY <1>1, <1>2 DEF AppendCalls
<1> QED BY <1>3 DEF Respond, TypeOK, CallType

\* Counting a vote keeps the run loop well formed.
LEMMA CollectType ==
    ASSUME TypeOK, NEW b \in ballots, NEW yes \in BOOLEAN, Collect(b, yes)
    PROVE  loop' \in [Node -> LoopStates]
<1> DEFINE new == [loop[b.from] EXCEPT !.waiting = @ \ {b.to},
                                       !.votes = IF yes THEN @ \cup {b.to} ELSE @]
<1>1. b.from \in Node /\ b.to \in Node
    BY CallFields
<1>2. loop \in [Node -> LoopStates]
    BY DEF TypeOK, LoopType
<1>3. new \in LoopStates
  <2>1. loop[b.from] \in LoopStates
      BY <1>1, <1>2
  <2> QED BY <1>1, <2>1 DEF LoopStates
<1>4. loop' = loop \/ loop' = [loop EXCEPT ![b.from] = new]
    BY <1>1, <1>2 DEF Collect
<1> QED BY <1>1, <1>2, <1>3, <1>4

\* Taking over a term keeps role, term and vote well formed.
LEMMA AdoptTermType ==
    ASSUME TypeOK, NEW n \in Node, NEW term \in 0..MaxTerm, AdoptTerm(n, term)
    PROVE  /\ currentTerm' \in [Node -> 0..MaxTerm]
           /\ votedFor' \in [Node -> Node \cup {Nil}]
           /\ state' \in [Node -> {"follower", "candidate", "leader"}]
BY DEF AdoptTerm, TypeOK, StableType, RoleType

\* Accepting a leader keeps role, term and vote well formed.
LEMMA AcceptLeaderType ==
    ASSUME TypeOK, NEW a \in appends, AcceptLeader(a)
    PROVE  /\ currentTerm' \in [Node -> 0..MaxTerm]
           /\ votedFor' \in [Node -> Node \cup {Nil}]
           /\ state' \in [Node -> {"follower", "candidate", "leader"}]
           /\ leaderID' \in [Node -> Node \cup {Nil}]
           /\ electionTimer' \in [Node -> BOOLEAN]
           /\ heartbeatTicker' \in [Node -> BOOLEAN]
<1>1. a.from \in Node /\ a.to \in Node /\ a.term \in 0..MaxTerm
    BY CallFields
<1> QED BY <1>1 DEF AcceptLeader, TypeOK, StableType, RoleType

\* StoreLog leaves a log.
LEMMA StoreLogType ==
    ASSUME NEW l \in Logs, NEW i, NEW e \in Entry
    PROVE  StoreLog(l, i, e) \in Logs
BY DEF StoreLog, Logs

\* The loop of HandleAppendEntries leaves a log.
LEMMA AppendLoopType ==
    ASSUME NEW l \in Logs, NEW entries \in Logs
    PROVE  AppendLoop(l, entries) \in Logs
BY DEF AppendLoop, Logs

\* LogEntries returns a log.
LEMMA LogEntriesType ==
    ASSUME NEW l \in Logs, NEW first, NEW count
    PROVE  LogEntries(l, first, count) \in Logs
BY DEF LogEntries, Logs

\* collectApplyOps keeps the shapes, and lastApplied between where it was and c.
LEMMA CollectApplyFacts ==
    ASSUME TypeOK, NEW n \in Node, NEW l \in Logs, NEW c \in 0..MaxLog
    PROVE  LET last == AppliedTo(n, l, c)
           IN  /\ last \in 0..MaxLog
               /\ lastApplied[n] <= last
               /\ last = lastApplied[n] \/ last <= c
               /\ \A i \in FirstUnapplied(n)..last : i \in Index /\ l[i] \in Entry
<1>1. lastApplied[n] \in 0..MaxLog /\ c \in Nat /\ MaxLog \in Nat
    BY DEF TypeOK, StableType
<1>2. LET last == AppliedTo(n, l, c)
      IN  /\ last \in 0..MaxLog
          /\ lastApplied[n] <= last
          /\ last = lastApplied[n] \/ last <= c
          /\ \A i \in (lastApplied[n] + 1)..last : i \in Index /\ l[i] # Nil
    BY <1>1, ReachedFromFacts, Zenon DEF AppliedTo
<1> QED BY <1>2 DEF FirstUnapplied, Logs

\* collectApplyOps keeps the applied index and the operations of doApply well formed.
LEMMA CollectApplyType ==
    ASSUME TypeOK, NEW n \in Node, NEW l \in Logs, NEW c \in 0..MaxLog,
           NEW props \in [Index -> Cmd \cup {Nil}], CollectApplyOps(n, l, c, props)
    PROVE  /\ lastApplied' \in [Node -> 0..MaxLog]
           /\ pending' \in [Node -> SUBSET Operation]
           /\ proposals' \in [Node -> [Index -> Cmd \cup {Nil}]]
           /\ collected' \in [Node -> SUBSET Index]
<1> DEFINE first == FirstUnapplied(n)
           last == AppliedTo(n, l, c)
           ops == {[index |-> i, entry |-> l[i], cmd |-> props[i], batch |-> first] :
                      i \in first..last}
<1>1. /\ last \in 0..MaxLog
      /\ \A i \in first..last : i \in Index /\ l[i] \in Entry
    BY CollectApplyFacts
<1>2. first \in Nat /\ 1 <= first
    BY DEF TypeOK, StableType, FirstUnapplied
<1>3. ops \in SUBSET Operation
  <2> SUFFICES ASSUME NEW i \in first..last
               PROVE  [index |-> i, entry |-> l[i], cmd |-> props[i], batch |-> first]
                          \in Operation
      OBVIOUS
  <2>1. i \in Index /\ l[i] \in Entry /\ first \in Index
      BY <1>1, <1>2 DEF Index
  <2> QED BY <2>1 DEF Operation
<1>4. Unregister(props, first..last) \in [Index -> Cmd \cup {Nil}]
    BY DEF Unregister
<1>5. /\ lastApplied' = [lastApplied EXCEPT ![n] = last]
      /\ pending' = [pending EXCEPT ![n] = @ \cup ops]
      /\ proposals' = [proposals EXCEPT ![n] = Unregister(props, first..last)]
      /\ collected' = [m \in Node |-> IF m = n THEN first..last ELSE {}]
    BY DEF CollectApplyOps
<1> HIDE DEF first, last, ops
<1>6. lastApplied' \in [Node -> 0..MaxLog]
    BY <1>1, <1>5 DEF TypeOK, StableType
<1>7. pending' \in [Node -> SUBSET Operation]
    BY <1>3, <1>5 DEF TypeOK, ApplyType
<1>8. proposals' \in [Node -> [Index -> Cmd \cup {Nil}]]
    BY <1>4, <1>5 DEF TypeOK, LeaderType
<1>9. collected' \in [Node -> SUBSET Index]
    BY <1>1, <1>5
<1> QED BY <1>6, <1>7, <1>8, <1>9

\* A node that is its own majority commits what it appends: its indices stay in the log's bounds.
LEMMA CommitAloneType ==
    ASSUME TypeOK, NEW n \in Node, NEW l \in Logs, NEW i \in Index,
           NEW props \in [Index -> Cmd \cup {Nil}], CommitAlone(n, l, i, props)
    PROVE  /\ commitIndex' \in [Node -> 0..MaxLog]
           /\ lastApplied' \in [Node -> 0..MaxLog]
           /\ pending' \in [Node -> SUBSET Operation]
           /\ proposals' \in [Node -> [Index -> Cmd \cup {Nil}]]
           /\ collected' \in [Node -> SUBSET Index]
<1>1. i \in 0..MaxLog
    BY DEF Index
<1>2. CASE Peers(n) = {}
  <2>1. CollectApplyOps(n, l, i, props) /\ commitIndex' = [commitIndex EXCEPT ![n] = i]
      BY <1>2 DEF CommitAlone
  <2> QED BY <1>1, <2>1, CollectApplyType DEF TypeOK, StableType
<1>3. CASE Peers(n) # {}
    BY <1>3 DEF CommitAlone, NoneCollected, TypeOK, StableType, LeaderType, ApplyType
<1> QED BY <1>2, <1>3

\* advanceCommitIndex never moves back, and every index it passes is committable.
LEMMA AdvancedCommitFacts ==
    ASSUME TypeOK, NEW n \in Node, NEW match
    PROVE  LET k == AdvancedCommit(n, match)
           IN  /\ k \in 0..MaxLog
               /\ commitIndex[n] <= k
               /\ \A i \in (commitIndex[n] + 1)..k : i \in Index /\ Committable(n, log[n], match, i)
<1> DEFINE c == commitIndex[n]
           S == {c} \cup {k \in Index : /\ k > c
                                        /\ \A i \in (c + 1)..k : Committable(n, log[n], match, i)}
           k == AdvancedCommit(n, match)
<1>1. c \in 0..MaxLog
    BY DEF TypeOK, StableType
<1>2. S \subseteq 0..MaxLog /\ S # {}
    BY <1>1 DEF Index
<1>3. k \in S /\ \A j \in S : j <= k
    BY <1>2, MaxExists DEF AdvancedCommit
<1>4. CASE k = c
    BY <1>1, <1>4
<1>5. CASE k # c
    BY <1>1, <1>3, <1>5 DEF Index
<1> QED BY <1>4, <1>5

\* The new commit index of a follower whose log is l.
LEMMA FollowerCommitFacts ==
    ASSUME NEW a, a.commit \in 0..MaxLog, NEW l
    PROVE  LET k == FollowerCommit(a, l)
           IN  /\ k \in 0..MaxLog
               /\ k \in {a.commit, LastIndex(l)}
               /\ k <= a.commit /\ k <= LastIndex(l)
<1>1. LastIndex(l) \in 0..MaxLog
    BY LastIndexFacts
<1>2. {a.commit, LastIndex(l)} \subseteq Nat /\ {a.commit, LastIndex(l)} # {}
    BY <1>1
<1>3. /\ FollowerCommit(a, l) \in {a.commit, LastIndex(l)}
      /\ \A y \in {a.commit, LastIndex(l)} : FollowerCommit(a, l) <= y
    BY <1>2, MinExists DEF FollowerCommit
<1> QED BY <1>1, <1>3

Done == [index : Index, entry : Entry]

\* What cfg.Apply was given stays a sequence of entries.
LEMMA DoneType ==
    ASSUME TypeOK, NEW n \in Node, NEW i \in Index, NEW entry \in Entry, GiveToApply(n, i, entry)
    PROVE  /\ applied' \in [Node -> Seq(Done)]
           /\ \/ applied' = applied
              \/ applied' = [applied EXCEPT ![n] = Append(applied[n], [index |-> i, entry |-> entry])]
<1>1. applied \in [Node -> Seq(Done)] /\ [index |-> i, entry |-> entry] \in Done
    BY DEF TypeOK, ApplyType, Done
<1>2. Append(applied[n], [index |-> i, entry |-> entry]) \in Seq(Done)
    BY <1>1, AppendProperties
<1>3. \/ applied' = applied
      \/ applied' = [applied EXCEPT ![n] = Append(applied[n], [index |-> i, entry |-> entry])]
    BY DEF GiveToApply
<1> QED BY <1>1, <1>2, <1>3

-----------------------------------------------------------------------------
(* The types are preserved: one step per action.                           *)

\* A node that starts for the first time has the types.
LEMMA TypeInit == Init => TypeOK
<1> SUFFICES ASSUME Init PROVE TypeOK
    OBVIOUS
<1>1. EmptyLog \in [Index -> Entry \cup {Nil}]
    BY DEF EmptyLog
<1>2. Idle \in LoopStates
    BY LoopTypes
<1> QED BY <1>1, <1>2
       DEF Init, TypeOK, StableType, RoleType, LeaderType, LoopType, CallType, ApplyType

\* No step of a run loop, a handler or a call leaves the types.
LEMMA TypeStep == TypeOK /\ [Next]_vars => TypeOK'
<1> SUFFICES ASSUME TypeOK, [Next]_vars PROVE TypeOK'
    OBVIOUS
<1> USE DEF stable, roleVars, leaderVars, loopVars, applyVars, startVars, NoneCollected
<1>1. ASSUME NEW n \in Node, StartPreVote(n) PROVE TypeOK'
  <2>1. RoleType'
      BY <1>1 DEF TypeOK, RoleType, StartPreVote
  <2>2. LoopType'
      BY <1>1, LoopTypes DEF TypeOK, LoopType, StartPreVote
  <2>3. CallType'
      BY <1>1, CallsType, LateType DEF TypeOK, CallType, StartPreVote, StableType
  <2>4. StableType' /\ LeaderType' /\ ApplyType'
      BY <1>1 DEF TypeOK, StableType, LeaderType, ApplyType, StartPreVote
  <2> QED BY <2>1, <2>2, <2>3, <2>4 DEF TypeOK
<1>2. ASSUME NEW n \in Node, ElectAlone(n) PROVE TypeOK'
  <2>1. StableType'
      BY <1>2 DEF TypeOK, StableType, ElectAlone
  <2>2. RoleType'
      BY <1>2 DEF TypeOK, RoleType, ElectAlone
  <2>3. LoopType'
      BY <1>2, LoopTypes DEF TypeOK, LoopType, ElectAlone
  <2>4. LeaderType' /\ CallType' /\ ApplyType'
      BY <1>2 DEF TypeOK, LeaderType, CallType, ApplyType, ElectAlone
  <2> QED BY <2>1, <2>2, <2>3, <2>4 DEF TypeOK
<1>3. ASSUME NEW n \in Node, StartVote(n) PROVE TypeOK'
  <2>1. StableType'
      BY <1>3 DEF TypeOK, StableType, StartVote
  <2>2. RoleType'
      BY <1>3 DEF TypeOK, RoleType, StartVote
  <2>3. LoopType'
      BY <1>3, LoopTypes DEF TypeOK, LoopType, StartVote
  <2>4. CallType'
      BY <1>3, CallsType, LateType DEF TypeOK, CallType, StartVote, StableType
  <2>5. LeaderType' /\ ApplyType'
      BY <1>3 DEF TypeOK, LeaderType, ApplyType, StartVote
  <2> QED BY <2>1, <2>2, <2>3, <2>4, <2>5 DEF TypeOK
<1>4. ASSUME NEW n \in Node, PreVoteFail(n) PROVE TypeOK'
  <2>1. RoleType'
      BY <1>4 DEF TypeOK, RoleType, PreVoteFail
  <2>2. LoopType'
      BY <1>4, LoopTypes DEF TypeOK, LoopType, PreVoteFail
  <2>3. StableType' /\ LeaderType' /\ CallType' /\ ApplyType'
      BY <1>4 DEF TypeOK, StableType, LeaderType, CallType, ApplyType, PreVoteFail
  <2> QED BY <2>1, <2>2, <2>3 DEF TypeOK
<1>5. ASSUME NEW n \in Node, LoseElection(n) PROVE TypeOK'
  <2>1. RoleType'
      BY <1>5 DEF TypeOK, RoleType, LoseElection
  <2>2. LoopType'
      BY <1>5, LoopTypes DEF TypeOK, LoopType, LoseElection
  <2>3. StableType' /\ LeaderType' /\ CallType' /\ ApplyType'
      BY <1>5 DEF TypeOK, StableType, LeaderType, CallType, ApplyType, LoseElection
  <2> QED BY <2>1, <2>2, <2>3 DEF TypeOK
<1>6. ASSUME NEW n \in Node, BecomeLeader(n) PROVE TypeOK'
  <2>a. LastIndex(log[n]) \in 0..MaxLog
      BY LogTypes DEF TypeOK, StableType, Logs
  <2>1. RoleType'
      BY <1>6, <2>a DEF TypeOK, RoleType, BecomeLeader
  <2>2. LeaderType'
    <3> DEFINE last == LastIndex(log[n])
               nexts == [p \in Node |-> IF p = n THEN nextIndex[n][p] ELSE last + 1]
               matches == [p \in Node |-> IF p = n THEN last ELSE 0]
    <3>1. nexts \in [Node -> 1..(MaxLog + 1)] /\ matches \in [Node -> 0..MaxLog]
        BY <2>a DEF TypeOK, LeaderType
    <3>2. /\ nextIndex' = nextIndex \/ nextIndex' = [nextIndex EXCEPT ![n] = nexts]
          /\ matchIndex' = matchIndex \/ matchIndex' = [matchIndex EXCEPT ![n] = matches]
          /\ proposals' = proposals
        BY <1>6 DEF BecomeLeader, TypeOK, LeaderType
    <3> QED BY <3>1, <3>2 DEF TypeOK, LeaderType
  <2>3. LoopType'
    <3>1. Idle \in LoopStates /\ Doing("noop", LastIndex(log[n]), Nil) \in LoopStates
        BY <2>a, LoopTypes
    <3> QED BY <1>6, <3>1 DEF TypeOK, LoopType, BecomeLeader
  <2>4. CallType'
      BY <1>6, LateType, <2>a DEF TypeOK, CallType, BecomeLeader
  <2>5. StableType' /\ ApplyType'
      BY <1>6 DEF TypeOK, StableType, ApplyType, BecomeLeader
  <2> QED BY <2>1, <2>2, <2>3, <2>4, <2>5 DEF TypeOK
<1>7. ASSUME NEW n \in Node, AppendNoOp(n) PROVE TypeOK'
  <2> DEFINE i == loop[n].last + 1
             l == StoreLog(log[n], i, [term |-> currentTerm[n], val |-> NoOp])
  <2>a. i \in Index /\ l \in Logs /\ proposals[n] \in [Index -> Cmd \cup {Nil}]
    <3>1. log[n] \in Logs /\ currentTerm[n] \in 0..MaxTerm
        BY DEF TypeOK, StableType, Logs
    <3>2. [term |-> currentTerm[n], val |-> NoOp] \in Entry
        BY <1>7, <3>1 DEF Entry, NoOpIndex, AppendNoOp, TypeOK, LoopType, LoopStates
    <3>3. i \in Index
        BY <1>7, <3>1, LogTypes DEF NoOpIndex, AppendNoOp, TypeOK, LoopType, LoopStates, Index
    <3> QED BY <1>7, <3>1, <3>2, <3>3, StoreLogType DEF TypeOK, LeaderType, NoOpIndex, AppendNoOp, LoopType, LoopStates
  <2>b. /\ log' = [log EXCEPT ![n] = l]
        /\ CommitAlone(n, l, i, proposals[n])
      BY <1>7 DEF NoOpIndex, AppendNoOp
  <2>c. /\ commitIndex' \in [Node -> 0..MaxLog]
        /\ lastApplied' \in [Node -> 0..MaxLog]
        /\ pending' \in [Node -> SUBSET Operation]
        /\ proposals' \in [Node -> [Index -> Cmd \cup {Nil}]]
        /\ collected' \in [Node -> SUBSET Index]
      BY <2>a, <2>b, CommitAloneType
  <2>1. StableType'
      BY <1>7, <2>a, <2>b, <2>c DEF TypeOK, StableType, NoOpIndex, AppendNoOp, Logs
  <2>2. LeaderType'
    <3>1. i \in 1..MaxLog
        BY <2>a DEF Index
    <3>2. /\ matchIndex' = [matchIndex EXCEPT ![n][n] = i]
          /\ nextIndex' = nextIndex
        BY <1>7 DEF NoOpIndex, AppendNoOp
    <3> HIDE DEF i
    <3> QED BY <2>c, <3>1, <3>2 DEF TypeOK, LeaderType
  <2>3. LoopType'
      BY <1>7, LoopTypes DEF TypeOK, LoopType, NoOpIndex, AppendNoOp
  <2>4. ApplyType'
      BY <1>7, <2>c DEF TypeOK, ApplyType, NoOpIndex, AppendNoOp
  <2>5. RoleType' /\ CallType'
      BY <1>7 DEF TypeOK, RoleType, CallType, NoOpIndex, AppendNoOp
  <2> QED BY <2>1, <2>2, <2>3, <2>4, <2>5 DEF TypeOK
<1>8. ASSUME NEW n \in Node, Apply(n) PROVE TypeOK'
  <2>1. ApplyType'
    <3>1. PICK op \in pending[n] :
              /\ pending' = [pending EXCEPT ![n] = @ \ {op}]
              /\ GiveToApply(n, op.index, op.entry)
              /\ status' = IF op.cmd = Nil THEN status
                           ELSE [status EXCEPT ![op.cmd] = "acked"]
        BY <1>8 DEF Apply
    <3>2. /\ op.index \in Index /\ op.entry \in Entry
          /\ op.cmd \in Cmd \cup {Nil}
        BY DEF TypeOK, ApplyType, Operation
    <3>4. applied' \in [Node -> Seq(Done)]
        BY <3>1, <3>2, DoneType
    <3>5. pending' \in [Node -> SUBSET Operation]
        BY <3>1 DEF TypeOK, ApplyType
    <3>6. status' \in [Cmd -> {"new", "queued", "rejected", "acked"}]
        BY <3>1, <3>2 DEF TypeOK, ApplyType
    <3> QED BY <1>8, <3>4, <3>5, <3>6 DEF Apply, TypeOK, ApplyType, Done
  <2>2. StableType' /\ RoleType' /\ LeaderType' /\ LoopType' /\ CallType'
      BY <1>8 DEF TypeOK, StableType, RoleType, LeaderType, LoopType, CallType, Apply
  <2> QED BY <2>1, <2>2 DEF TypeOK
<1>9. ASSUME NEW n \in Node, NEW c \in Cmd, Propose(n, c) PROVE TypeOK'
  <2>1. LoopType'
      BY <1>9 DEF TypeOK, LoopType, Propose
  <2>2. ApplyType'
      BY <1>9 DEF TypeOK, ApplyType, Propose
  <2>3. StableType' /\ RoleType' /\ LeaderType' /\ CallType'
      BY <1>9 DEF TypeOK, StableType, RoleType, LeaderType, CallType, Propose
  <2> QED BY <2>1, <2>2, <2>3 DEF TypeOK
<1>10. ASSUME NEW n \in Node, TakeProposal(n) PROVE TypeOK'
  <2>a. Head(queue[n]) \in Cmd /\ Tail(queue[n]) \in Seq(Cmd)
      BY <1>10 DEF TakeProposal, TypeOK, LoopType
  <2>1. LoopType'
    <3>1. Doing("append", 0, Head(queue[n])) \in LoopStates
        BY <2>a, LoopTypes
    <3> QED BY <1>10, <2>a, <3>1 DEF TakeProposal, TypeOK, LoopType
  <2>2. ApplyType'
      BY <1>10, <2>a DEF TypeOK, ApplyType, TakeProposal
  <2>3. StableType' /\ RoleType' /\ LeaderType' /\ CallType'
      BY <1>10 DEF TypeOK, StableType, RoleType, LeaderType, CallType, TakeProposal
  <2> QED BY <2>1, <2>2, <2>3 DEF TypeOK
<1>11. ASSUME NEW n \in Node, AppendProposal(n) PROVE TypeOK'
  <2> DEFINE i == LastIndex(log[n]) + 1
             l == StoreLog(log[n], i, [term |-> currentTerm[n], val |-> loop[n].cmd])
  <2>a. i \in Index /\ l \in Logs /\ [proposals[n] EXCEPT ![i] = loop[n].cmd] \in [Index -> Cmd \cup {Nil}]
    <3>1. log[n] \in Logs /\ currentTerm[n] \in 0..MaxTerm
        BY DEF TypeOK, StableType, Logs
    <3>2. [term |-> currentTerm[n], val |-> loop[n].cmd] \in Entry
        BY <1>11, <3>1 DEF Entry, AppendProposal, TypeOK, LoopType, LoopStates
    <3>3. i \in Index
        BY <1>11, <3>1, LogTypes DEF AppendProposal, TypeOK, LoopType, LoopStates, Index
    <3> QED BY <1>11, <3>1, <3>2, <3>3, StoreLogType DEF TypeOK, LeaderType, AppendProposal, LoopType, LoopStates
  <2>b. /\ log' = [log EXCEPT ![n] = l]
        /\ CommitAlone(n, l, i, [proposals[n] EXCEPT ![i] = loop[n].cmd])
      BY <1>11 DEF AppendProposal
  <2>c. /\ commitIndex' \in [Node -> 0..MaxLog]
        /\ lastApplied' \in [Node -> 0..MaxLog]
        /\ pending' \in [Node -> SUBSET Operation]
        /\ proposals' \in [Node -> [Index -> Cmd \cup {Nil}]]
        /\ collected' \in [Node -> SUBSET Index]
      BY <2>a, <2>b, CommitAloneType
  <2>1. StableType'
    <3>1. UNCHANGED <<currentTerm, votedFor>>
        BY <1>11 DEF AppendProposal
    <3>2. log' \in [Node -> [Index -> Entry \cup {Nil}]]
        BY <2>a, <2>b DEF TypeOK, StableType, Logs
    <3> QED BY <2>c, <3>1, <3>2 DEF TypeOK, StableType
  <2>2. LeaderType'
    <3>1. i \in 1..MaxLog
        BY <2>a DEF Index
    <3>2. /\ matchIndex' = [matchIndex EXCEPT ![n][n] = i]
          /\ nextIndex' = [nextIndex EXCEPT ![n][n] = i + 1]
        BY <1>11 DEF AppendProposal
    <3> HIDE DEF i
    <3> QED BY <2>c, <3>1, <3>2 DEF TypeOK, LeaderType
  <2>3. LoopType'
      BY <1>11, LoopTypes DEF TypeOK, LoopType, AppendProposal
  <2>4. ApplyType'
      BY <1>11, <2>c DEF TypeOK, ApplyType, AppendProposal
  <2>5. RoleType' /\ CallType'
      BY <1>11 DEF TypeOK, RoleType, CallType, AppendProposal
  <2> QED BY <2>1, <2>2, <2>3, <2>4, <2>5 DEF TypeOK
<1>12. ASSUME NEW n \in Node, Tick(n) PROVE TypeOK'
  <2>1. LoopType'
      BY <1>12, LoopTypes DEF TypeOK, LoopType, Tick
  <2>2. StableType' /\ RoleType' /\ LeaderType' /\ CallType' /\ ApplyType'
      BY <1>12 DEF TypeOK, StableType, RoleType, LeaderType, CallType, ApplyType, Tick
  <2> QED BY <2>1, <2>2 DEF TypeOK
<1>13. ASSUME NEW n \in Node, CheckBeat(n) PROVE TypeOK'
  <2>1. LoopType'
      BY <1>13 DEF TypeOK, LoopType, CheckBeat
  <2>2. StableType' /\ RoleType' /\ LeaderType' /\ CallType' /\ ApplyType'
      BY <1>13 DEF TypeOK, StableType, RoleType, LeaderType, CallType, ApplyType, CheckBeat
  <2> QED BY <2>1, <2>2 DEF TypeOK
<1>14. ASSUME NEW n \in Node, SpawnReplicators(n) PROVE TypeOK'
  <2>1. LoopType'
      BY <1>14, LoopTypes DEF TypeOK, LoopType, SpawnReplicators
  <2>2. CallType'
    <3>1. ASSUME NEW p \in Peers(n), FreeSlots(n, p) # {}
          PROVE  Min(FreeSlots(n, p)) \in 1..MaxInFlight
      <4>1. FreeSlots(n, p) \subseteq Nat
          BY DEF FreeSlots
      <4>2. Min(FreeSlots(n, p)) \in FreeSlots(n, p)
          BY <3>1, <4>1, MinExists
      <4> QED BY <4>2 DEF FreeSlots
    <3>2. /\ EmptyLog \in [Index -> Entry \cup {Nil}]
          /\ currentTerm[n] \in 0..MaxTerm /\ commitIndex[n] \in 0..MaxLog
        BY DEF EmptyLog, TypeOK, StableType
    <3>3. ASSUME NEW p \in Peers(n), FreeSlots(n, p) # {}
          PROVE  [from |-> n, to |-> p, slot |-> Min(FreeSlots(n, p)), term |-> currentTerm[n],
                  commit |-> commitIndex[n], phase |-> "spawned", orphan |-> FALSE, next |-> 1,
                  prevTerm |-> 0, entries |-> EmptyLog, sent |-> 0, rterm |-> 0,
                  success |-> FALSE, batch |-> 0] \in AppendCalls
        BY <3>1, <3>2, <3>3 DEF AppendCalls, Peers
    <3> QED BY <1>14, <3>3 DEF SpawnReplicators, TypeOK, CallType
  <2>3. StableType' /\ RoleType' /\ LeaderType' /\ ApplyType'
      BY <1>14 DEF TypeOK, StableType, RoleType, LeaderType, ApplyType, SpawnReplicators
  <2> QED BY <2>1, <2>2, <2>3 DEF TypeOK
<1>15. ASSUME NEW n \in Node, Crash(n) PROVE TypeOK'
  <2>1. RoleType'
      BY <1>15 DEF TypeOK, RoleType, Crash
  <2>2. LeaderType'
      BY <1>15 DEF TypeOK, LeaderType, Crash
  <2>3. LoopType'
      BY <1>15, LoopTypes DEF TypeOK, LoopType, Crash
  <2>4. CallType'
    <3>1. \A b \in Ballots : [b EXCEPT !.mode = "orphan"] \in Ballots
        BY DEF Ballots
    <3>2. \A a \in AppendCalls : [a EXCEPT !.orphan = TRUE] \in AppendCalls
        BY DEF AppendCalls
    <3>3. ballots' \subseteq Ballots
        BY <1>15, <3>1 DEF Crash, TypeOK, CallType
    <3>4. appends' \subseteq AppendCalls
        BY <1>15, <3>2 DEF Crash, TypeOK, CallType
    <3> QED BY <3>3, <3>4 DEF CallType
  <2>5. ApplyType'
      BY <1>15 DEF TypeOK, ApplyType, Crash
  <2>6. StableType'
    <3>1. PICK saved \in SavedApplied(n) : lastApplied' = [lastApplied EXCEPT ![n] = saved]
        BY <1>15 DEF Crash
    <3>2. saved \in 0..MaxLog
        BY DEF SavedApplied, TypeOK, StableType
    <3> QED BY <1>15, <3>1, <3>2 DEF TypeOK, StableType, Crash
  <2> QED BY <2>1, <2>2, <2>3, <2>4, <2>5, <2>6 DEF TypeOK
<1>16. ASSUME NEW n \in Node, Restart(n) PROVE TypeOK'
    BY <1>16 DEF TypeOK, StableType, RoleType, LeaderType, LoopType, CallType, ApplyType, Restart
<1>a. ASSUME NEW n \in Node, ReplayEntry(n) PROVE TypeOK'
  <2> DEFINE i == replayed[n] + 1
  <2>1. i \in Index /\ log[n][i] \in Entry
      BY <1>a DEF TypeOK, StableType, ApplyType, ReplayEntry, Index
  <2>2. applied' \in [Node -> Seq(Done)]
      BY <1>a, <2>1, DoneType DEF ReplayEntry
  <2>3. replayed' \in [Node -> 0..MaxLog]
      BY <1>a, <2>1 DEF TypeOK, ApplyType, ReplayEntry, Index
  <2>4. ApplyType'
      BY <1>a, <2>2, <2>3 DEF TypeOK, ApplyType, Done, ReplayEntry
  <2>5. StableType' /\ RoleType' /\ LeaderType' /\ LoopType' /\ CallType'
      BY <1>a DEF TypeOK, StableType, RoleType, LeaderType, LoopType, CallType, ReplayEntry
  <2> QED BY <2>4, <2>5 DEF TypeOK
<1>b. ASSUME NEW n \in Node, FinishStart(n) PROVE TypeOK'
  <2>1. lastApplied' \in [Node -> 0..MaxLog] /\ replayed' \in [Node -> 0..MaxLog]
      BY <1>b DEF TypeOK, StableType, ApplyType, FinishStart
  <2>2. StableType' /\ RoleType'
      BY <1>b, <2>1 DEF TypeOK, StableType, RoleType, FinishStart
  <2>3. ApplyType'
      BY <1>b, <2>1 DEF TypeOK, ApplyType, FinishStart
  <2>4. LeaderType' /\ LoopType' /\ CallType'
      BY <1>b DEF TypeOK, LeaderType, LoopType, CallType, FinishStart
  <2> QED BY <2>2, <2>3, <2>4 DEF TypeOK
<1>c. ASSUME NEW n \in Node, FailStart(n) PROVE TypeOK'
  <2>1. Unsaved(n) \subseteq Index
      BY DEF Unsaved, TypeOK, StableType, ApplyType, Index
  <2>2. /\ redone' \in [Node -> SUBSET Index] /\ replayed' \in [Node -> 0..MaxLog]
        /\ starting' \in [Node -> BOOLEAN]
    <3>1. /\ redone' = [redone EXCEPT ![n] = @ \cup Unsaved(n)]
          /\ replayed' = [replayed EXCEPT ![n] = 0]
          /\ starting' = [starting EXCEPT ![n] = FALSE]
        BY <1>c DEF FailStart
    <3> QED BY <2>1, <3>1 DEF TypeOK, ApplyType
  <2>3. ApplyType'
      BY <1>c, <2>2 DEF TypeOK, ApplyType, FailStart
  <2>4. RoleType' /\ StableType' /\ LeaderType' /\ LoopType' /\ CallType'
      BY <1>c DEF TypeOK, RoleType, StableType, LeaderType, LoopType, CallType, FailStart
  <2> QED BY <2>3, <2>4 DEF TypeOK
<1>17. ASSUME NEW b \in ballots, HandlePreVote(b) PROVE TypeOK'
  <2>a. b.to \in Node /\ b.from \in Node /\ b.term \in 0..MaxTerm
      BY CallFields
  <2>1. RoleType'
      BY <1>17, <2>a DEF TypeOK, RoleType, HandlePreVote
  <2>2. CallType'
    <3>1. PICK granted \in BOOLEAN : Answer(b, currentTerm[b.to], granted)
        BY <1>17 DEF HandlePreVote
    <3>2. ballots' \subseteq Ballots
        BY <2>a, <3>1, AnswerType DEF TypeOK, StableType
    <3> QED BY <1>17, <3>2 DEF HandlePreVote, TypeOK, CallType
  <2>3. StableType' /\ LeaderType' /\ LoopType' /\ ApplyType'
      BY <1>17 DEF TypeOK, StableType, LeaderType, LoopType, ApplyType, HandlePreVote
  <2> QED BY <2>1, <2>2, <2>3 DEF TypeOK
<1>18. ASSUME NEW b \in ballots, RejectVote(b) PROVE TypeOK'
  <2>a. b.to \in Node /\ b.from \in Node /\ b.term \in 0..MaxTerm
      BY CallFields
  <2>1. RoleType'
      BY <1>18, <2>a DEF TypeOK, RoleType, RejectVote
  <2>2. CallType'
    <3>1. PICK granted \in BOOLEAN : Answer(b, currentTerm[b.to], granted)
        BY <1>18 DEF RejectVote
    <3>2. ballots' \subseteq Ballots
        BY <2>a, <3>1, AnswerType DEF TypeOK, StableType
    <3> QED BY <1>18, <3>2 DEF RejectVote, TypeOK, CallType
  <2>3. StableType' /\ LeaderType' /\ LoopType' /\ ApplyType'
      BY <1>18 DEF TypeOK, StableType, LeaderType, LoopType, ApplyType, RejectVote
  <2> QED BY <2>1, <2>2, <2>3 DEF TypeOK
<1>19. ASSUME NEW b \in ballots, HandleVote(b) PROVE TypeOK'
  <2>a. b.to \in Node /\ b.from \in Node /\ b.term \in 0..MaxTerm
      BY CallFields
  <2>1. StableType'
      BY <1>19, <2>a DEF TypeOK, StableType, HandleVote
  <2>2. RoleType'
      BY <1>19, <2>a DEF TypeOK, RoleType, HandleVote
  <2>3. CallType'
    <3>1. PICK granted \in BOOLEAN : Answer(b, b.term, granted)
        BY <1>19 DEF HandleVote
    <3>2. ballots' \subseteq Ballots
        BY <2>a, <3>1, AnswerType DEF TypeOK, StableType
    <3> QED BY <1>19, <3>2 DEF HandleVote, TypeOK, CallType
  <2>4. LeaderType' /\ LoopType' /\ ApplyType'
      BY <1>19 DEF TypeOK, LeaderType, LoopType, ApplyType, HandleVote
  <2> QED BY <2>1, <2>2, <2>3, <2>4 DEF TypeOK
<1>20. ASSUME NEW b \in ballots, PreVoteReply(b) PROVE TypeOK'
  <2>a. /\ b.from \in Node /\ b.rterm \in 0..MaxTerm
        /\ Collect(b, b.granted /\ ~(b.rterm > b.term))
      BY <1>20, CallFields DEF PreVoteReply
  <2>b. \/ AdoptTerm(b.from, b.rterm)
        \/ UNCHANGED <<currentTerm, votedFor, state>>
      BY <1>20 DEF PreVoteReply
  <2>1. StableType'
      BY <1>20, <2>a, <2>b, AdoptTermType DEF PreVoteReply, TypeOK, StableType
  <2>2. RoleType'
      BY <1>20, <2>a, <2>b, AdoptTermType DEF PreVoteReply, TypeOK, RoleType
  <2>3. LoopType'
    <3>1. loop' \in [Node -> LoopStates]
        BY <2>a, CollectType
    <3> QED BY <1>20, <3>1 DEF PreVoteReply, TypeOK, LoopType
  <2>4. CallType'
      BY <1>20 DEF TypeOK, CallType, PreVoteReply
  <2>5. LeaderType' /\ ApplyType'
      BY <1>20 DEF TypeOK, LeaderType, ApplyType, PreVoteReply
  <2> QED BY <2>1, <2>2, <2>3, <2>4, <2>5 DEF TypeOK
<1>21. ASSUME NEW b \in ballots, VoteReply(b) PROVE TypeOK'
  <2>a. /\ b.from \in Node /\ b.rterm \in 0..MaxTerm
        /\ Collect(b, b.granted /\ b.rterm = b.term)
      BY <1>21, CallFields DEF VoteReply
  <2>b. \/ AdoptTerm(b.from, b.rterm)
        \/ UNCHANGED <<currentTerm, votedFor, state>>
      BY <1>21 DEF VoteReply
  <2>1. StableType'
      BY <1>21, <2>a, <2>b, AdoptTermType DEF VoteReply, TypeOK, StableType
  <2>2. RoleType'
      BY <1>21, <2>a, <2>b, AdoptTermType DEF VoteReply, TypeOK, RoleType
  <2>3. LoopType'
    <3>1. loop' \in [Node -> LoopStates]
        BY <2>a, CollectType
    <3> QED BY <1>21, <3>1 DEF VoteReply, TypeOK, LoopType
  <2>4. CallType'
      BY <1>21 DEF TypeOK, CallType, VoteReply
  <2>5. LeaderType' /\ ApplyType'
      BY <1>21 DEF TypeOK, LeaderType, ApplyType, VoteReply
  <2> QED BY <2>1, <2>2, <2>3, <2>4, <2>5 DEF TypeOK
<1>22. ASSUME NEW b \in ballots, FailBallot(b) PROVE TypeOK'
  <2>1. LoopType'
      BY <1>22, CollectType DEF FailBallot, TypeOK, LoopType
  <2>2. CallType'
    <3>1. \A x \in Ballots : [x EXCEPT !.mode = "orphan"] \in Ballots
        BY DEF Ballots
    <3> QED BY <1>22, <3>1 DEF FailBallot, TypeOK, CallType
  <2>3. StableType' /\ RoleType' /\ LeaderType' /\ ApplyType'
      BY <1>22 DEF TypeOK, StableType, RoleType, LeaderType, ApplyType, FailBallot
  <2> QED BY <2>1, <2>2, <2>3 DEF TypeOK
<1>23. ASSUME NEW a \in appends, Replicate(a) PROVE TypeOK'
  <2>1. CallType'
    <3> DEFINE next == nextIndex[a.from][a.to]
               prev == IF next = 1 THEN Nil ELSE log[a.from][next - 1]
               entries == LogEntries(log[a.from], next, MaxBatch)
    <3>1. /\ a.from \in Node /\ a.to \in Node /\ a \in AppendCalls
          /\ log[a.from] \in Logs
        BY CallFields DEF TypeOK, CallType, StableType, Logs
    <3>2. next \in 1..(MaxLog + 1)
        BY <3>1 DEF TypeOK, LeaderType
    <3>3. entries \in Logs /\ LastIndex(entries) \in 0..MaxLog
        BY <3>1, LogEntriesType, LogTypes
    <3>4. (IF prev = Nil THEN 0 ELSE prev.term) \in 0..MaxTerm
      <4>1. prev # Nil => prev \in Entry
          BY <3>1, <3>2 DEF Logs, Index
      <4>2. prev # Nil => prev.term \in 0..MaxTerm
        <5> HIDE DEF prev
        <5> QED BY <4>1 DEF Entry
      <4> HIDE DEF prev
      <4> QED BY <4>2
    <3> HIDE DEF next, prev, entries
    <3>5. ASSUME NEW t \in 0..MaxTerm
          PROVE  [a EXCEPT !.phase = "request", !.next = next, !.prevTerm = t,
                           !.entries = entries, !.sent = LastIndex(entries)] \in AppendCalls
        BY <3>1, <3>2, <3>3 DEF AppendCalls, Logs
    <3>6. appends' = (appends \ {a}) \cup
             {[a EXCEPT !.phase = "request", !.next = next,
                        !.prevTerm = IF prev = Nil THEN 0 ELSE prev.term,
                        !.entries = entries, !.sent = LastIndex(entries)]}
        BY <1>23 DEF Replicate, next, prev, entries
    <3>7. appends' \subseteq AppendCalls
        BY <3>4, <3>5, <3>6 DEF TypeOK, CallType
    <3> QED BY <1>23, <3>7 DEF Replicate, TypeOK, CallType
  <2>2. StableType' /\ RoleType' /\ LeaderType' /\ LoopType' /\ ApplyType'
      BY <1>23 DEF TypeOK, StableType, RoleType, LeaderType, LoopType, ApplyType, Replicate
  <2> QED BY <2>1, <2>2 DEF TypeOK
<1>24. ASSUME NEW a \in appends, RejectAppend(a) PROVE TypeOK'
  <2>a. a.to \in Node
      BY CallFields
  <2>1. RoleType'
      BY <1>24, <2>a DEF TypeOK, RoleType, RejectAppend
  <2>2. CallType'
    <3>1. currentTerm[a.to] \in 0..MaxTerm
        BY <2>a DEF TypeOK, StableType
    <3>2. FALSE \in BOOLEAN /\ 0 \in 0..MaxLog
        OBVIOUS
    <3>3. appends' \subseteq AppendCalls
        BY <1>24, <3>1, <3>2, RespondType, Zenon DEF RejectAppend
    <3> QED BY <1>24, <3>3 DEF RejectAppend, TypeOK, CallType
  <2>3. StableType' /\ LeaderType' /\ LoopType' /\ ApplyType'
      BY <1>24 DEF TypeOK, StableType, LeaderType, LoopType, ApplyType, RejectAppend
  <2> QED BY <2>1, <2>2, <2>3 DEF TypeOK
<1>25. ASSUME NEW a \in appends, MismatchAppend(a) PROVE TypeOK'
  <2>a. a.to \in Node /\ a.from \in Node /\ a.term \in 0..MaxTerm /\ a.entries \in Logs
      BY CallFields
  <2>b. /\ currentTerm' \in [Node -> 0..MaxTerm]
        /\ votedFor' \in [Node -> Node \cup {Nil}]
        /\ state' \in [Node -> {"follower", "candidate", "leader"}]
        /\ leaderID' \in [Node -> Node \cup {Nil}]
        /\ electionTimer' \in [Node -> BOOLEAN]
        /\ heartbeatTicker' \in [Node -> BOOLEAN]
      BY <1>25, AcceptLeaderType DEF MismatchAppend
  <2>1. StableType'
      BY <1>25, <2>b DEF MismatchAppend, TypeOK, StableType
  <2>2. RoleType'
      BY <1>25, <2>b DEF MismatchAppend, TypeOK, RoleType
  <2>3. CallType'
    <3>1. FALSE \in BOOLEAN /\ 0 \in 0..MaxLog
        OBVIOUS
    <3>2. appends' \subseteq AppendCalls
        BY <1>25, <2>a, <3>1, RespondType, Zenon DEF MismatchAppend
    <3> QED BY <1>25, <3>2 DEF MismatchAppend, TypeOK, CallType
  <2>4. LeaderType' /\ LoopType' /\ ApplyType'
      BY <1>25 DEF TypeOK, LeaderType, LoopType, ApplyType, MismatchAppend, AcceptLeader
  <2> QED BY <2>1, <2>2, <2>3, <2>4 DEF TypeOK
<1>26. ASSUME NEW a \in appends, AcceptAppend(a) PROVE TypeOK'
  <2>a. a.to \in Node /\ a.from \in Node /\ a.term \in 0..MaxTerm /\ a.entries \in Logs
      BY CallFields
  <2>b. /\ currentTerm' \in [Node -> 0..MaxTerm]
        /\ votedFor' \in [Node -> Node \cup {Nil}]
        /\ state' \in [Node -> {"follower", "candidate", "leader"}]
        /\ leaderID' \in [Node -> Node \cup {Nil}]
        /\ electionTimer' \in [Node -> BOOLEAN]
        /\ heartbeatTicker' \in [Node -> BOOLEAN]
      BY <1>26, AcceptLeaderType DEF AcceptAppend
  <2> DEFINE n == a.to
             l == AppendLoop(log[n], a.entries)
             first == FirstUnapplied(n)
             c == FollowerCommit(a, l)
  <2>c. l \in Logs /\ a.commit \in 0..MaxLog
      BY <2>a, AppendLoopType, CallFields DEF TypeOK, StableType, Logs
  <2>d. c \in 0..MaxLog
    <3>1. LastIndex(l) \in 0..MaxLog
        BY <2>c, LogTypes
    <3>2. {a.commit, LastIndex(l)} \subseteq Nat /\ {a.commit, LastIndex(l)} # {}
        BY <2>c, <3>1
    <3>3. c \in {a.commit, LastIndex(l)}
        BY <3>2, MinExists DEF FollowerCommit
    <3> QED BY <2>c, <3>1, <3>3
  <2>e. first \in Nat /\ (AppliedTo(n, l, c) >= first => first \in 0..MaxLog)
    <3>1. AppliedTo(n, l, c) \in 0..MaxLog
        BY <2>a, <2>c, <2>d, CollectApplyFacts
    <3>2. first \in Nat
        BY <2>a DEF TypeOK, StableType, FirstUnapplied
    <3> QED BY <3>1, <3>2
  <2>f. \/ /\ commitIndex' = [commitIndex EXCEPT ![n] = c]
           /\ CollectApplyOps(n, l, c, proposals[n])
           /\ Respond(a, a.term, TRUE, IF AppliedTo(n, l, c) >= first THEN first ELSE 0)
        \/ /\ Respond(a, a.term, TRUE, 0)
           /\ NoneCollected
           /\ UNCHANGED <<commitIndex, lastApplied, pending, proposals>>
      BY <1>26 DEF AcceptAppend
  <2>g. /\ commitIndex' \in [Node -> 0..MaxLog]
        /\ lastApplied' \in [Node -> 0..MaxLog]
        /\ pending' \in [Node -> SUBSET Operation]
        /\ proposals' \in [Node -> [Index -> Cmd \cup {Nil}]]
        /\ collected' \in [Node -> SUBSET Index]
    <3>1. proposals[n] \in [Index -> Cmd \cup {Nil}]
        BY <2>a DEF TypeOK, LeaderType
    <3>2. CASE /\ commitIndex' = [commitIndex EXCEPT ![n] = c]
               /\ CollectApplyOps(n, l, c, proposals[n])
        BY <2>a, <2>c, <2>d, <3>1, <3>2, CollectApplyType DEF TypeOK, StableType
    <3>3. CASE NoneCollected /\ UNCHANGED <<commitIndex, lastApplied, pending, proposals>>
        BY <3>3 DEF TypeOK, StableType, LeaderType, ApplyType
    <3> QED BY <2>f, <3>2, <3>3
  <2>1. StableType'
      BY <1>26, <2>a, <2>b, <2>c, <2>g DEF AcceptAppend, TypeOK, StableType, Logs
  <2>2. RoleType'
      BY <1>26, <2>b DEF AcceptAppend, TypeOK, RoleType
  <2>3. LeaderType'
      BY <1>26, <2>g DEF AcceptAppend, TypeOK, LeaderType
  <2>4. CallType'
    <3> DEFINE batch == IF AppliedTo(n, l, c) >= first THEN first ELSE 0
    <3>1. TRUE \in BOOLEAN /\ 0 \in 0..MaxLog /\ batch \in 0..MaxLog
        BY <2>e
    <3>2. Respond(a, a.term, TRUE, batch) \/ Respond(a, a.term, TRUE, 0)
        BY <2>f, Zenon
    <3> HIDE DEF batch
    <3>3. appends' \subseteq AppendCalls
        BY <2>a, <3>1, <3>2, RespondType, Zenon
    <3> QED BY <1>26, <3>3 DEF AcceptAppend, TypeOK, CallType
  <2>5. ApplyType'
      BY <1>26, <2>g DEF AcceptAppend, TypeOK, ApplyType
  <2>6. LoopType'
      BY <1>26 DEF TypeOK, LoopType, AcceptAppend, AcceptLeader
  <2> QED BY <2>1, <2>2, <2>3, <2>4, <2>5, <2>6 DEF TypeOK
<1>27. ASSUME NEW a \in appends, StepDown(a) PROVE TypeOK'
  <2>1. StableType'
    <3>1. a.from \in Node /\ a.rterm \in 0..MaxTerm
        BY CallFields
    <3> QED BY <1>27, <3>1 DEF StepDown, TypeOK, StableType
  <2>2. RoleType'
      BY <1>27 DEF TypeOK, RoleType, StepDown
  <2>3. CallType'
      BY <1>27 DEF TypeOK, CallType, StepDown
  <2>4. LeaderType' /\ LoopType' /\ ApplyType'
      BY <1>27 DEF TypeOK, LeaderType, LoopType, ApplyType, StepDown
  <2> QED BY <2>1, <2>2, <2>3, <2>4 DEF TypeOK
<1>28. ASSUME NEW a \in appends, ReplicateOk(a) PROVE TypeOK'
  <2> DEFINE n == a.from
             match == IF a.sent > 0 THEN [matchIndex[n] EXCEPT ![a.to] = a.sent]
                      ELSE matchIndex[n]
             commit == AdvancedCommit(n, match)
  <2>a. /\ n \in Node /\ a.to \in Node /\ a.sent \in 0..MaxLog
        /\ a.next \in 1..(MaxLog + 1) /\ log[n] \in Logs
        /\ proposals[n] \in [Index -> Cmd \cup {Nil}]
      BY CallFields DEF TypeOK, StableType, LeaderType, Logs
  <2>b. commit \in 0..MaxLog
      BY <2>a, AdvancedCommitFacts
  <2>c. /\ commitIndex' = [commitIndex EXCEPT ![n] = commit]
        /\ CollectApplyOps(n, log[n], commit, proposals[n])
      BY <1>28 DEF ReplicateOk
  <2>d. /\ lastApplied' \in [Node -> 0..MaxLog]
        /\ pending' \in [Node -> SUBSET Operation]
        /\ proposals' \in [Node -> [Index -> Cmd \cup {Nil}]]
        /\ collected' \in [Node -> SUBSET Index]
      BY <2>a, <2>b, <2>c, CollectApplyType
  <2>1. StableType'
    <3>1. UNCHANGED <<currentTerm, votedFor, log>>
        BY <1>28 DEF ReplicateOk
    <3> HIDE DEF commit
    <3> QED BY <2>a, <2>b, <2>c, <2>d, <3>1 DEF TypeOK, StableType
  <2>2. LeaderType'
    <3>1. matchIndex' = [matchIndex EXCEPT ![n] = match]
        BY <1>28 DEF ReplicateOk
    <3>2. match \in [Node -> 0..MaxLog]
        BY <2>a DEF TypeOK, LeaderType
    <3>3. nextIndex' = [nextIndex EXCEPT ![n][a.to] = IF a.sent > 0 THEN a.sent + 1 ELSE a.next]
        BY <1>28 DEF ReplicateOk
    <3>4. (IF a.sent > 0 THEN a.sent + 1 ELSE a.next) \in 1..(MaxLog + 1)
        BY <2>a
    <3> HIDE DEF match
    <3> QED BY <2>a, <2>d, <3>1, <3>2, <3>3, <3>4 DEF TypeOK, LeaderType
  <2>3. CallType'
      BY <1>28 DEF TypeOK, CallType, ReplicateOk
  <2>4. ApplyType'
      BY <1>28, <2>d DEF ReplicateOk, TypeOK, ApplyType
  <2>5. RoleType' /\ LoopType'
      BY <1>28 DEF TypeOK, RoleType, LoopType, ReplicateOk
  <2> QED BY <2>1, <2>2, <2>3, <2>4, <2>5 DEF TypeOK
<1>29. ASSUME NEW a \in appends, ReplicateRefused(a) PROVE TypeOK'
  <2>1. LeaderType'
    <3>1. a.from \in Node /\ a.to \in Node
        BY CallFields
    <3>2. PICK i \in 1..(MaxLog + 1) : nextIndex' = [nextIndex EXCEPT ![a.from][a.to] = i]
      <4>1. nextIndex[a.from][a.to] \in 1..(MaxLog + 1)
          BY <3>1 DEF TypeOK, LeaderType
      <4>2. nextIndex' = [nextIndex EXCEPT ![a.from][a.to] =
                            IF nextIndex[a.from][a.to] > 1 THEN nextIndex[a.from][a.to] - 1
                            ELSE nextIndex[a.from][a.to]]
          BY <1>29, <3>1 DEF ReplicateRefused, TypeOK, LeaderType
      <4>3. (IF nextIndex[a.from][a.to] > 1 THEN nextIndex[a.from][a.to] - 1
             ELSE nextIndex[a.from][a.to]) \in 1..(MaxLog + 1)
          BY <4>1
      <4> QED BY <4>2, <4>3
    <3> QED BY <1>29, <3>1, <3>2 DEF ReplicateRefused, TypeOK, LeaderType
  <2>2. CallType'
      BY <1>29 DEF TypeOK, CallType, ReplicateRefused
  <2>3. StableType' /\ RoleType' /\ LoopType' /\ ApplyType'
      BY <1>29 DEF TypeOK, StableType, RoleType, LoopType, ApplyType, ReplicateRefused
  <2> QED BY <2>1, <2>2, <2>3 DEF TypeOK
<1>30. ASSUME NEW a \in appends, ReplicateIgnored(a) PROVE TypeOK'
  <2>1. CallType'
      BY <1>30 DEF TypeOK, CallType, ReplicateIgnored
  <2>2. StableType' /\ RoleType' /\ LeaderType' /\ LoopType' /\ ApplyType'
      BY <1>30 DEF TypeOK, StableType, RoleType, LeaderType, LoopType, ApplyType, ReplicateIgnored
  <2> QED BY <2>1, <2>2 DEF TypeOK
<1>31. ASSUME NEW a \in appends, FailAppend(a) PROVE TypeOK'
  <2>1. CallType'
    <3>1. \A x \in AppendCalls : [x EXCEPT !.orphan = TRUE] \in AppendCalls
        BY DEF AppendCalls
    <3> QED BY <1>31, <3>1 DEF FailAppend, TypeOK, CallType
  <2>2. StableType' /\ RoleType' /\ LeaderType' /\ LoopType' /\ ApplyType'
      BY <1>31 DEF TypeOK, StableType, RoleType, LeaderType, LoopType, ApplyType, FailAppend
  <2> QED BY <2>1, <2>2 DEF TypeOK
<1>32. ASSUME DropOrphan PROVE TypeOK'
  <2>1. CallType'
      BY <1>32 DEF TypeOK, CallType, DropOrphan
  <2>2. StableType' /\ RoleType' /\ LeaderType' /\ LoopType' /\ ApplyType'
      BY <1>32 DEF TypeOK, StableType, RoleType, LeaderType, LoopType, ApplyType, DropOrphan
  <2> QED BY <2>1, <2>2 DEF TypeOK
<1>33. ASSUME UNCHANGED vars PROVE TypeOK'
    BY <1>33 DEF TypeOK, StableType, RoleType, LeaderType, LoopType, CallType, ApplyType, vars
<1> QED BY <1>1, <1>2, <1>3, <1>4, <1>5, <1>6, <1>7, <1>8, <1>9, <1>10, <1>11, <1>12, <1>13, <1>14, <1>15, <1>16, <1>17, <1>18, <1>19, <1>20, <1>21, <1>22, <1>23, <1>24, <1>25, <1>26, <1>27, <1>28, <1>29, <1>30, <1>31, <1>32, <1>33, <1>a, <1>b, <1>c DEF Next, Election, Ballot, Replication, Life

\* TypeOK holds in every reachable state, for every cluster and every bound.
THEOREM TypeCorrect == Spec => []TypeOK
<1> QED BY TypeInit, TypeStep, PTL DEF Spec
-----------------------------------------------------------------------------
(* Elections: while all are up, somebody can stand.                        *)

\* Nothing happens to the elections that are being held, and nobody is disarmed.
Undisturbed ==
    /\ ballots' \subseteq ballots
    /\ \A n \in Node : loop[n].pc \in {"prevote", "vote"} => loop'[n] = loop[n]
    /\ \A n \in Node : ~up[n] \/ electionTimer[n] => ~up'[n] \/ electionTimer'[n]

\* Of the steps of the run loops and of replication, those that are no part of an election.
LEMMA UndisturbedSteps ==
    ASSUME TypeOK, [Next]_vars
    PROVE  \/ Undisturbed
           \/ \E n \in Node : \/ StartPreVote(n) \/ ElectAlone(n) \/ StartVote(n) \/ PreVoteFail(n)
                              \/ LoseElection(n) \/ BecomeLeader(n) \/ Crash(n)
           \/ \E b \in ballots : Ballot(b)
<1> USE DEF stable, roleVars, leaderVars, loopVars, applyVars
<1>a. /\ loop \in [Node -> LoopStates] /\ electionTimer \in [Node -> BOOLEAN]
      /\ up \in [Node -> BOOLEAN]
    BY DEF TypeOK, LoopType, RoleType
<1>b. ASSUME NEW n \in Node, NEW new, loop[n].pc \notin {"prevote", "vote"},
             loop' \in {loop, [loop EXCEPT ![n] = new]}
      PROVE  \A m \in Node : loop[m].pc \in {"prevote", "vote"} => loop'[m] = loop[m]
    BY <1>a, <1>b
<1>1. ASSUME NEW n \in Node, AppendNoOp(n) PROVE Undisturbed
    BY <1>1, <1>b DEF AppendNoOp, Undisturbed
<1>2. ASSUME NEW n \in Node, Apply(n) PROVE Undisturbed
    BY <1>2 DEF Apply, Undisturbed
<1>3. ASSUME NEW n \in Node, TakeProposal(n) PROVE Undisturbed
    BY <1>3, <1>b DEF TakeProposal, Ready, Undisturbed
<1>4. ASSUME NEW n \in Node, AppendProposal(n) PROVE Undisturbed
    BY <1>4, <1>b DEF AppendProposal, Undisturbed
<1>5. ASSUME NEW n \in Node, Tick(n) PROVE Undisturbed
    BY <1>5, <1>b DEF Tick, Ready, Undisturbed
<1>6. ASSUME NEW n \in Node, CheckBeat(n) PROVE Undisturbed
    BY <1>6 DEF CheckBeat, Undisturbed
<1>7. ASSUME NEW n \in Node, SpawnReplicators(n) PROVE Undisturbed
  <2>1. \/ loop' = loop
        \/ loop[n].pc = "beat" /\ loop' = [loop EXCEPT ![n] = Idle]
      BY <1>7 DEF SpawnReplicators
  <2>2. \A m \in Node : loop[m].pc \in {"prevote", "vote"} => loop'[m] = loop[m]
      BY <2>1, <1>b
  <2> QED BY <1>7, <2>2 DEF SpawnReplicators, Undisturbed
<1>8. ASSUME NEW n \in Node, \/ Restart(n) \/ ReplayEntry(n) \/ FinishStart(n) \/ FailStart(n)
      PROVE  Undisturbed
    BY <1>8, <1>a DEF Restart, ReplayEntry, FinishStart, FailStart, Undisturbed
<1>9. ASSUME NEW n \in Node, NEW c \in Cmd, Propose(n, c) PROVE Undisturbed
    BY <1>9 DEF Propose, Undisturbed
<1>10. ASSUME NEW a \in appends, Replication(a) PROVE Undisturbed
  <2>1. a.from \in Node /\ a.to \in Node
      BY CallFields
  <2>2. CASE RejectAppend(a)
      BY <2>1, <2>2, <1>a DEF RejectAppend, Undisturbed
  <2>3. CASE MismatchAppend(a) \/ AcceptAppend(a)
    <3>1. /\ electionTimer' = [electionTimer EXCEPT ![a.to] = TRUE]
          /\ UNCHANGED <<ballots, loop, up>>
        BY <2>3 DEF MismatchAppend, AcceptAppend, AcceptLeader
    <3> QED BY <3>1, <2>1, <1>a DEF Undisturbed
  <2>4. CASE StepDown(a)
      BY <2>1, <2>4, <1>a DEF StepDown, Undisturbed
  <2>5. CASE Replicate(a) \/ ReplicateOk(a) \/ ReplicateRefused(a) \/ ReplicateIgnored(a) \/ FailAppend(a)
    <3>1. UNCHANGED <<ballots, loop, up, electionTimer>>
        BY <2>5 DEF Replicate, ReplicateOk, ReplicateRefused, ReplicateIgnored, FailAppend
    <3> QED BY <3>1 DEF Undisturbed
  <2> QED BY <1>10, <2>2, <2>3, <2>4, <2>5 DEF Replication
<1>11. ASSUME DropOrphan PROVE Undisturbed
    BY <1>11 DEF DropOrphan, Undisturbed
<1>12. ASSUME UNCHANGED vars PROVE Undisturbed
    BY <1>12 DEF Undisturbed, vars
<1> QED BY <1>1, <1>2, <1>3, <1>4, <1>5, <1>6, <1>7, <1>8, <1>9, <1>10, <1>11, <1>12
        DEF Next, Election, Life

Standing == \E n \in Node : ~up[n] \/ electionTimer[n] \/ NobodyVoted(n)

\* A call is either a pre-vote or a vote.
LEMMA BallotKinds ==
    ASSUME TypeOK, NEW b \in ballots
    PROVE  /\ b.from \in Node /\ b.to \in Node /\ b.granted \in BOOLEAN
           /\ b.kind \in {"prevote", "vote"} /\ b.mode \in {"live", "late", "orphan"}
BY DEF TypeOK, CallType, Ballots

\* Such a step leaves the calls and the votes as they are.
LEMMA UndisturbedKeeps ==
    ASSUME TypeOK, LiveCalls, Undisturbed
    PROVE  LiveCalls' /\ (Standing => Standing')
<1>1. LiveCalls'
  <2>1. \A b \in ballots' : b.mode = "live" => loop'[b.from].pc = b.kind /\ b.to \in loop'[b.from].waiting
      BY BallotKinds DEF LiveCalls, Undisturbed
  <2> QED BY <2>1 DEF LiveCalls, Undisturbed
<1>2. ASSUME NEW n \in Node, NobodyVoted(n) PROVE NobodyVoted(n)'
    BY <1>2 DEF NobodyVoted, Undisturbed
<1> QED BY <1>1, <1>2 DEF Standing, Undisturbed

\* A new phase: nobody reads the answers of the phases before.
LEMMA PhaseBegins ==
    ASSUME TypeOK, LiveCalls, NEW n \in Node, NEW kind \in {"prevote", "vote"}, NEW term,
           ballots' = Late(n) \cup Calls(n, kind, term),
           loop' = [loop EXCEPT ![n] = Collecting(n, kind)]
    PROVE  LiveCalls' /\ NobodyVoted(n)'
<1>1. loop \in [Node -> LoopStates]
    BY DEF TypeOK, LoopType
<1>2. /\ loop'[n].pc = kind /\ loop'[n].votes = {n} /\ loop'[n].waiting = Peers(n)
      /\ \A m \in Node \ {n} : loop'[m] = loop[m]
    BY <1>1 DEF Collecting
<1>3. \A b \in Late(n) : b.mode = "live" => b \in ballots /\ b.from # n
  <2> SUFFICES ASSUME NEW b \in ballots,
                      NEW d, d = [b EXCEPT !.mode = IF b.from = n /\ @ = "live" THEN "late" ELSE @],
                      d.mode = "live"
               PROVE  d \in ballots /\ d.from # n
      BY DEF Late
  <2>1. b \in Ballots
      BY DEF TypeOK, CallType
  <2>2. ~(b.from = n /\ b.mode = "live")
      BY <2>1 DEF Ballots
  <2>3. d = b
      BY <2>1, <2>2 DEF Ballots
  <2> QED BY <2>2, <2>3
<1> DEFINE Call(p) == [kind |-> kind, from |-> n, to |-> p, term |-> term,
                       lastIndex |-> LastIndex(log[n]), lastTerm |-> LastTerm(log[n]),
                       phase |-> "request", mode |-> "live", rterm |-> 0, granted |-> FALSE]
<1>4. /\ Calls(n, kind, term) = {Call(p) : p \in Peers(n)}
      /\ \A p \in Peers(n) : /\ Call(p).from = n /\ Call(p).to = p /\ Call(p).kind = kind
                             /\ Call(p).mode = "live" /\ ~Call(p).granted
    BY DEF Calls
<1> HIDE DEF Call
<1>5. LiveCalls'
  <2>1. ASSUME NEW b \in ballots', b.mode = "live"
        PROVE  loop'[b.from].pc = b.kind /\ b.to \in loop'[b.from].waiting
      BY <2>1, <1>2, <1>3, <1>4, BallotKinds DEF LiveCalls
  <2>2. ASSUME NEW a \in ballots', NEW b \in ballots', a.mode = "live", b.mode = "live",
               a.from = b.from, a.to = b.to
        PROVE  a = b
      BY <2>2, <1>3, <1>4 DEF LiveCalls
  <2> QED BY <2>1, <2>2 DEF LiveCalls
<1>6. NobodyVoted(n)'
    BY <1>2, <1>3, <1>4 DEF NobodyVoted
<1> QED BY <1>5, <1>6

\* A phase ends in a state where no call of it is awaited.
LEMMA PhaseEnds ==
    ASSUME TypeOK, LiveCalls, NEW n \in Node, NEW new,
           \/ ballots' = Late(n)
           \/ UNCHANGED ballots /\ loop[n].waiting = {},
           loop' = [loop EXCEPT ![n] = new]
    PROVE  LiveCalls' /\ \A m \in Node \ {n} : NobodyVoted(m) => NobodyVoted(m)'
<1>1. loop \in [Node -> LoopStates]
    BY DEF TypeOK, LoopType
<1>2. \A m \in Node \ {n} : loop'[m] = loop[m]
    BY <1>1
<1>3. \A b \in ballots' : b.mode = "live" => b \in ballots /\ b.from # n
  <2>1. CASE UNCHANGED ballots /\ loop[n].waiting = {}
      BY <2>1 DEF LiveCalls
  <2>2. CASE ballots' = Late(n)
    <3> SUFFICES ASSUME NEW b \in ballots,
                        NEW d, d = [b EXCEPT !.mode = IF b.from = n /\ @ = "live" THEN "late" ELSE @],
                        d.mode = "live"
                 PROVE  d \in ballots /\ d.from # n
        BY <2>2 DEF Late
    <3>1. b \in Ballots
        BY DEF TypeOK, CallType
    <3>2. ~(b.from = n /\ b.mode = "live")
        BY <3>1 DEF Ballots
    <3>3. d = b
        BY <3>1, <3>2 DEF Ballots
    <3> QED BY <3>2, <3>3
  <2> QED BY <2>1, <2>2
<1>4. LiveCalls'
  <2>1. ASSUME NEW b \in ballots', b.mode = "live"
        PROVE  loop'[b.from].pc = b.kind /\ b.to \in loop'[b.from].waiting
      BY <2>1, <1>2, <1>3, BallotKinds DEF LiveCalls
  <2> QED BY <2>1, <1>3 DEF LiveCalls
<1>5. ASSUME NEW m \in Node \ {n}, NobodyVoted(m) PROVE NobodyVoted(m)'
    BY <1>5, <1>2, <1>3 DEF NobodyVoted
<1> QED BY <1>4, <1>5

\* HandleRequestVote answers one call, in the phase that made it.
LEMMA AnswerKeeps ==
    ASSUME TypeOK, LiveCalls, NEW b \in ballots, NEW term, NEW granted,
           Answer(b, term, granted), UNCHANGED loop
    PROVE  /\ LiveCalls'
           /\ \A n \in Node : NobodyVoted(n) => NobodyVoted(n)' \/ (granted /\ b.kind = "vote")
<1>1. PICK r : /\ r.kind = b.kind /\ r.from = b.from /\ r.to = b.to /\ r.mode = b.mode
               /\ r.granted = granted
               /\ ballots' \subseteq (ballots \ {b}) \cup {r}
  <2> DEFINE r == [kind |-> b.kind, from |-> b.from, to |-> b.to, term |-> b.term,
                   lastIndex |-> 0, lastTerm |-> 0, phase |-> "response", mode |-> b.mode,
                   rterm |-> term, granted |-> granted]
  <2>1. ballots' \subseteq (ballots \ {b}) \cup {r}
      BY DEF Answer
  <2> QED BY <2>1
<1>2. LiveCalls'
  <2>1. ASSUME NEW x \in ballots', x.mode = "live"
        PROVE  loop'[x.from].pc = x.kind /\ x.to \in loop'[x.from].waiting
      BY <2>1, <1>1 DEF LiveCalls
  <2>2. ASSUME NEW x \in ballots', NEW y \in ballots', x.mode = "live", y.mode = "live",
               x.from = y.from, x.to = y.to
        PROVE  x = y
      BY <2>2, <1>1 DEF LiveCalls
  <2> QED BY <2>1, <2>2 DEF LiveCalls
<1>3. ASSUME NEW n \in Node, NobodyVoted(n), ~(granted /\ b.kind = "vote") PROVE NobodyVoted(n)'
  <2>1. CASE loop[n].pc = "prevote"
      BY <2>1 DEF NobodyVoted
  <2>2. CASE loop[n].pc # "prevote"
    <3>1. /\ loop[n].pc = "vote" /\ loop[n].votes \subseteq {n}
          /\ \A x \in ballots : x.from = n /\ x.mode = "live" => ~x.granted
        BY <1>3, <2>2 DEF NobodyVoted
    <3>2. ASSUME NEW x \in ballots', x.from = n, x.mode = "live" PROVE ~x.granted
        BY <3>1, <3>2, <1>1, <1>3 DEF LiveCalls
    <3> QED BY <3>1, <3>2 DEF NobodyVoted
  <2> QED BY <2>1, <2>2
<1> QED BY <1>2, <1>3

\* A call reports, or fails and may live on without its caller: it is awaited no more.
LEMMA ReportKeeps ==
    ASSUME TypeOK, LiveCalls, NEW b \in ballots, NEW yes, Collect(b, yes),
           yes => b.granted,
           \A x \in ballots' : x.mode = "live" => x \in ballots \ {b}
    PROVE  LiveCalls' /\ \A n \in Node : NobodyVoted(n) => NobodyVoted(n)'
<1>1. loop \in [Node -> LoopStates] /\ b.from \in Node
    BY CallFields DEF TypeOK, LoopType
<1> DEFINE new == [loop[b.from] EXCEPT !.waiting = @ \ {b.to},
                                       !.votes = IF yes THEN @ \cup {b.to} ELSE @]
<1>2. /\ new.pc = loop[b.from].pc /\ new.waiting = loop[b.from].waiting \ {b.to}
      /\ ~yes => new.votes = loop[b.from].votes
  <2>1. loop[b.from] \in LoopStates
      BY <1>1
  <2> QED BY <2>1 DEF LoopStates
<1>3. loop' = IF b.mode # "live" THEN loop ELSE [loop EXCEPT ![b.from] = new]
    BY <1>1 DEF Collect
<1> HIDE DEF new
<1>4. \A n \in Node :
          /\ loop'[n].pc = loop[n].pc
          /\ loop'[n].votes # loop[n].votes => yes /\ n = b.from /\ b.mode = "live"
          /\ loop'[n].waiting = IF n = b.from /\ b.mode = "live" THEN loop[n].waiting \ {b.to}
                                ELSE loop[n].waiting
    BY <1>1, <1>2, <1>3
<1>5. LiveCalls'
  <2>1. ASSUME NEW x \in ballots', x.mode = "live"
        PROVE  loop'[x.from].pc = x.kind /\ x.to \in loop'[x.from].waiting
    <3>1. x \in ballots /\ x # b /\ x.from \in Node
        BY <2>1, CallFields
    <3>2. x.from = b.from /\ b.mode = "live" => x.to # b.to
        BY <2>1, <3>1 DEF LiveCalls
    <3> QED BY <2>1, <3>1, <3>2, <1>4 DEF LiveCalls
  <2> QED BY <2>1 DEF LiveCalls
<1>6. ASSUME NEW n \in Node, NobodyVoted(n) PROVE NobodyVoted(n)'
    BY <1>6, <1>4 DEF NobodyVoted
<1> QED BY <1>5, <1>6

\* A vote beyond its own is what wins an election in a group.
LEMMA WinnersAreVotedFor ==
    ASSUME NEW n \in Node, NEW votes, votes \subseteq {n}, Majority(votes)
    PROVE  ~(Cardinality(Node) > 1)
<1>1. IsFiniteSet(Node) /\ Cardinality(Node) \in Nat
    BY NodeAssumption, FS_CardinalityType
<1>2. IsFiniteSet({n}) /\ Cardinality({n}) = 1
    BY FS_Singleton
<1>3. Cardinality(votes) \in Nat /\ Cardinality(votes) <= 1
    BY <1>2, FS_Subset, FS_CardinalityType
<1> QED BY <1>1, <1>3 DEF Majority

\* startElection and becomeLeader: who begins an election has no votes yet, who gives up is
\* armed, and who wins was voted for.
LEMMA ElectionKeeps ==
    ASSUME TypeOK, LiveCalls, Cardinality(Node) > 1 => Standing, NEW n \in Node,
           \/ StartPreVote(n) \/ ElectAlone(n) \/ StartVote(n) \/ PreVoteFail(n)
           \/ LoseElection(n) \/ BecomeLeader(n) \/ Crash(n)
    PROVE  LiveCalls' /\ (Cardinality(Node) > 1 => Standing')
<1> USE DEF stable, roleVars, leaderVars, loopVars, applyVars
<1>a. /\ loop \in [Node -> LoopStates] /\ electionTimer \in [Node -> BOOLEAN]
      /\ up \in [Node -> BOOLEAN]
    BY DEF TypeOK, LoopType, RoleType
<1>1. CASE StartPreVote(n)
  <2>1. /\ ballots' = Late(n) \cup Calls(n, "prevote", currentTerm[n])
        /\ loop' = [loop EXCEPT ![n] = Collecting(n, "prevote")]
      BY <1>1 DEF StartPreVote
  <2> QED BY <2>1, PhaseBegins DEF Standing
<1>2. CASE StartVote(n)
  <2>1. /\ ballots' = Late(n) \cup Calls(n, "vote", currentTerm[n] + 1)
        /\ loop' = [loop EXCEPT ![n] = Collecting(n, "vote")]
      BY <1>2 DEF StartVote
  <2> QED BY <2>1, PhaseBegins DEF Standing
<1>3. CASE ElectAlone(n)
  <2>1. /\ Peers(n) = {} /\ loop[n].pc = "idle" /\ UNCHANGED ballots
        /\ loop' = [loop EXCEPT ![n] = Collecting(n, "vote")]
      BY <1>3 DEF ElectAlone, Ready
  <2>2. Node = {n}
      BY <2>1 DEF Peers
  <2>3. Cardinality(Node) = 1
      BY <2>2, FS_Singleton
  <2>4. \A b \in ballots : b.mode # "live"
      BY <2>1, <2>2, BallotKinds DEF LiveCalls
  <2> QED BY <2>1, <2>3, <2>4 DEF LiveCalls
<1>4. CASE PreVoteFail(n) \/ LoseElection(n)
  <2>1. /\ UNCHANGED ballots /\ loop[n].waiting = {} /\ loop' = [loop EXCEPT ![n] = Idle]
        /\ electionTimer' = [electionTimer EXCEPT ![n] = TRUE]
      BY <1>4 DEF PreVoteFail, LoseElection, Failed
  <2>2. electionTimer'[n]
      BY <2>1, <1>a
  <2> QED BY <2>1, <2>2, PhaseEnds DEF Standing
<1>5. CASE BecomeLeader(n)
  <2>1. PICK new : loop' = [loop EXCEPT ![n] = new]
      BY <1>5 DEF BecomeLeader
  <2>2. /\ ballots' = Late(n) /\ UNCHANGED <<up, electionTimer>>
        /\ loop[n].pc = "vote" /\ Majority(loop[n].votes)
      BY <1>5 DEF BecomeLeader
  <2>3. LiveCalls' /\ \A m \in Node \ {n} : NobodyVoted(m) => NobodyVoted(m)'
      BY <2>1, <2>2, PhaseEnds
  <2>4. ASSUME Cardinality(Node) > 1 PROVE ~NobodyVoted(n)
      BY <2>2, <2>4, WinnersAreVotedFor DEF NobodyVoted
  <2> QED BY <2>2, <2>3, <2>4 DEF Standing
<1>6. CASE Crash(n)
  <2>1. /\ loop' = [loop EXCEPT ![n] = Idle] /\ up' = [up EXCEPT ![n] = FALSE]
        /\ ballots' = {b \in ballots : b.from # n} \cup
              {[b EXCEPT !.mode = "orphan"] : b \in {c \in ballots : c.from = n /\ c.phase = "request"}}
      BY <1>6 DEF Crash
  <2>2. \A b \in ballots' : b.mode = "live" => b \in ballots /\ b.from # n
    <3>1. ASSUME NEW b \in ballots PROVE [b EXCEPT !.mode = "orphan"].mode = "orphan"
        BY DEF TypeOK, CallType, Ballots
    <3> QED BY <2>1, <3>1
  <2>3. \A m \in Node \ {n} : loop'[m] = loop[m]
      BY <2>1, <1>a
  <2>4. LiveCalls'
    <3>1. ASSUME NEW b \in ballots', b.mode = "live"
          PROVE  loop'[b.from].pc = b.kind /\ b.to \in loop'[b.from].waiting
        BY <3>1, <2>2, <2>3, BallotKinds DEF LiveCalls
    <3> QED BY <3>1, <2>2 DEF LiveCalls
  <2>5. ~up'[n]
      BY <2>1, <1>a
  <2> QED BY <2>4, <2>5 DEF Standing
<1> QED BY <1>1, <1>2, <1>3, <1>4, <1>5, <1>6

\* HandleRequestVote and the goroutines that call it: who votes is armed.
LEMMA BallotKeeps ==
    ASSUME TypeOK, LiveCalls, NEW b \in ballots, Ballot(b)
    PROVE  LiveCalls' /\ (Standing => Standing')
<1> USE DEF stable, roleVars, leaderVars, loopVars, applyVars
<1>a. /\ electionTimer \in [Node -> BOOLEAN] /\ b.to \in Node /\ b.from \in Node
    BY CallFields DEF TypeOK, RoleType
<1>1. CASE HandlePreVote(b)
  <2>1. PICK term, granted : Answer(b, term, granted)
      BY <1>1 DEF HandlePreVote
  <2>2. /\ b.kind = "prevote" /\ UNCHANGED <<loop, up>>
        /\ \A n \in Node : electionTimer[n] => electionTimer'[n]
      BY <1>1, <1>a DEF HandlePreVote
  <2>3. LiveCalls' /\ \A n \in Node : NobodyVoted(n) => NobodyVoted(n)'
      BY <2>1, <2>2, AnswerKeeps
  <2> QED BY <2>2, <2>3 DEF Standing
<1>2. CASE RejectVote(b) \/ HandleVote(b)
  <2>1. PICK term, granted : Answer(b, term, granted)
      BY <1>2 DEF RejectVote, HandleVote
  <2>2. UNCHANGED loop /\ electionTimer'[b.to]
      BY <1>2, <1>a DEF RejectVote, HandleVote
  <2> QED BY <2>1, <2>2, <1>a, AnswerKeeps DEF Standing
<1>3. CASE PreVoteReply(b) \/ VoteReply(b) \/ FailBallot(b)
  <2>1. PICK yes : Collect(b, yes) /\ (yes => b.granted)
      BY <1>3 DEF PreVoteReply, VoteReply, FailBallot
  <2>2. \A x \in ballots' : x.mode = "live" => x \in ballots \ {b}
    <3>1. [b EXCEPT !.mode = "orphan"].mode = "orphan"
        BY DEF TypeOK, CallType, Ballots
    <3> QED BY <1>3, <3>1 DEF PreVoteReply, VoteReply, FailBallot
  <2>3. UNCHANGED <<up, electionTimer>>
      BY <1>3 DEF PreVoteReply, VoteReply, FailBallot
  <2>4. LiveCalls' /\ \A n \in Node : NobodyVoted(n) => NobodyVoted(n)'
      BY <2>1, <2>2, ReportKeeps
  <2> QED BY <2>3, <2>4 DEF Standing
<1> QED BY <1>1, <1>2, <1>3 DEF Ballot

\* The election timers of run.go, for any candidates, lost calls and crashes, although terms
\* can fall and becomeLeader asks for no term: whoever won was voted for by a node that was
\* armed then, and its own election can only have begun later.
THEOREM ElectionsHold == Spec => []ElectionInv
<1>1. Init => ElectionInv
  <2> SUFFICES ASSUME Init PROVE LiveCalls /\ (Cardinality(Node) > 1 => Standing)
      BY TypeInit DEF ElectionInv, Standing
  <2>1. LiveCalls
      BY DEF Init, LiveCalls
  <2>2. ASSUME Cardinality(Node) > 1 PROVE Node # {}
      BY <2>2, FS_EmptySet
  <2> QED BY <2>1, <2>2 DEF Init, Standing
<1>2. ElectionInv /\ [Next]_vars => ElectionInv'
  <2> SUFFICES ASSUME ElectionInv, [Next]_vars
               PROVE  LiveCalls' /\ (Cardinality(Node) > 1 => Standing')
      BY TypeStep DEF ElectionInv, Standing
  <2> QED BY UndisturbedSteps, UndisturbedKeeps, ElectionKeeps, BallotKeeps DEF ElectionInv, Standing
<1> QED BY <1>1, <1>2, PTL DEF Spec

\* run.go:134 and the votes of HandleRequestVote: a group whose nodes are all up never comes to
\* rest with every election timer disarmed.
THEOREM AlwaysElectable == Spec => []Electable
<1>1. ElectionInv => Electable
    BY DEF ElectionInv, Electable, NobodyVoted
<1> QED BY <1>1, ElectionsHold, PTL
=============================================================================
