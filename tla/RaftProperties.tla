--------------------------- MODULE RaftProperties ---------------------------
(***************************************************************************)
(* What the Raft group promises, and the inductive invariant behind it.    *)
(***************************************************************************)
EXTENDS Raft

-----------------------------------------------------------------------------
(* Types.                                                                  *)

Operation == [index : Index, entry : Entry, cmd : Cmd \cup {Nil}, batch : Index]

Ballots == [kind : {"prevote", "vote"}, from : Node, to : Node, term : 0..MaxTerm,
            lastIndex : 0..MaxLog, lastTerm : 0..MaxTerm, phase : {"request", "response"},
            mode : {"live", "late", "orphan"}, rterm : 0..MaxTerm, granted : BOOLEAN]

AppendCalls == [from : Node, to : Node, slot : 1..MaxInFlight, term : 0..MaxTerm,
                commit : 0..MaxLog, phase : {"spawned", "request", "response"},
                orphan : BOOLEAN, next : 1..(MaxLog + 1), prevTerm : 0..MaxTerm,
                entries : [Index -> Entry \cup {Nil}], sent : 0..MaxLog, rterm : 0..MaxTerm,
                success : BOOLEAN, batch : 0..MaxLog]

LoopStates ==
    {l \in [pc : {"idle", "prevote", "vote", "noop", "append", "beat"}, votes : SUBSET Node,
            waiting : SUBSET Node, last : 0..MaxLog, cmd : Cmd \cup {Nil}] :
        l.pc = "append" => l.cmd \in Cmd}

StableType ==
    /\ currentTerm \in [Node -> 0..MaxTerm]
    /\ votedFor \in [Node -> Node \cup {Nil}]
    /\ log \in [Node -> [Index -> Entry \cup {Nil}]]
    /\ commitIndex \in [Node -> 0..MaxLog]
    /\ lastApplied \in [Node -> 0..MaxLog]

RoleType ==
    /\ up \in [Node -> BOOLEAN]
    /\ state \in [Node -> {"follower", "candidate", "leader"}]
    /\ leaderID \in [Node -> Node \cup {Nil}]
    /\ electionTimer \in [Node -> BOOLEAN]
    /\ heartbeatTicker \in [Node -> BOOLEAN]
    /\ crashes \in 0..MaxCrash

LeaderType ==
    /\ nextIndex \in [Node -> [Node -> 1..(MaxLog + 1)]]
    /\ matchIndex \in [Node -> [Node -> 0..MaxLog]]
    /\ proposals \in [Node -> [Index -> Cmd \cup {Nil}]]

LoopType ==
    /\ loop \in [Node -> LoopStates]
    /\ queue \in [Node -> Seq(Cmd)]
    /\ beat \in [Node -> {"none", "due", "checked"}]

CallType == ballots \subseteq Ballots /\ appends \subseteq AppendCalls

ApplyType ==
    /\ pending \in [Node -> SUBSET Operation]
    /\ applied \in [Node -> Seq([index : Index, entry : Entry])]
    /\ status \in [Cmd -> {"new", "queued", "rejected", "acked"}]
    /\ starting \in [Node -> BOOLEAN] /\ replayed \in [Node -> 0..MaxLog]
    /\ redone \in [Node -> SUBSET Index] /\ collected \in [Node -> SUBSET Index]

\* The variables have the shapes the fields of Node and the RPC messages have.
TypeOK == StableType /\ RoleType /\ LeaderType /\ LoopType /\ CallType /\ ApplyType

-----------------------------------------------------------------------------
(* Replication.                                                            *)

\* A log without gaps that agrees with l wherever it has an entry.
PrefixOf(short, l) ==
    \A i \in Index : short[i] # Nil => /\ short[i] = l[i]
                                       /\ \A j \in 1..i : short[j] # Nil

\* While one node stands for election, HandleAppendEntries leaves every node with
\* a prefix of that node's log, across its crashes and whatever is lost, delayed
\* or reordered.
LogsArePrefixes == \A c \in Candidates, n \in Node : PrefixOf(log[n], log[c])

\* docs/cluster.md:7: a write is committed only once it is on a majority. At every
\* node, every index up to its commit index holds an entry that a majority stores.
CommittedOnMajority ==
    \A n \in Node : \A i \in 1..commitIndex[n] :
        /\ log[n][i] # Nil
        /\ Majority({m \in Node : log[m][i] = log[n][i]})

\* node.go:319: when Propose returns nil, the command is on a majority of nodes.
AckedMeansReplicated ==
    \A c \in Cmd : status[c] = "acked" =>
        \E i \in Index : Majority({n \in Node : log[n][i] # Nil /\ log[n][i].val = c})

\* run.go:236: a leader's NoOp carries the entries of earlier terms to commitment. An
\* entry of the leader's term on a majority is committed, with all before it.
NoOpCommits ==
    \A n \in Node : \A k \in Index :
        /\ state[n] = "leader" /\ log[n][k] # Nil
        /\ log[n][k].term = currentTerm[n]
        /\ Peers(n) # {} /\ Majority({n} \cup {p \in Peers(n) : matchIndex[n][p] >= k})
        => commitIndex[n] >= k

-----------------------------------------------------------------------------
(* Elections.                                                              *)

\* A won election disarms the winner's timer and nothing re-arms it but an RPC, so
\* every node could end up disarmed. It does not happen: while all are up, one of
\* them still has an armed timer or is holding an election. (A single node
\* re-elects nobody: it stays the leader.)
Electable ==
    Cardinality(Node) > 1 /\ (\A n \in Node : up[n]) =>
        \E n \in Node : electionTimer[n] \/ loop[n].pc \in {"prevote", "vote"}

\* The phase that a run loop is in waits for each of its calls, and made one to a peer.
LiveCalls ==
    /\ \A b \in ballots : b.mode = "live" =>
          loop[b.from].pc = b.kind /\ b.to \in loop[b.from].waiting
    /\ \A a, b \in ballots :
          a.mode = "live" /\ b.mode = "live" /\ a.from = b.from /\ a.to = b.to => a = b

\* The node is holding an election and nobody has voted for it yet.
NobodyVoted(n) ==
    \/ loop[n].pc = "prevote"
    \/ /\ loop[n].pc = "vote" /\ loop[n].votes \subseteq {n}
       /\ \A b \in ballots : b.from = n /\ b.mode = "live" => ~b.granted

\* The inductive invariant behind Electable. Who votes is armed from then on until it stands
\* itself, so that a node whose election has begun to succeed need not be the last one.
ElectionInv ==
    /\ TypeOK /\ LiveCalls
    /\ Cardinality(Node) > 1 => \E n \in Node : ~up[n] \/ electionTimer[n] \/ NobodyVoted(n)

-----------------------------------------------------------------------------
(* Applying and answering.                                                 *)

AppliedIndices(n) == {applied[n][k].index : k \in DOMAIN applied[n]}

\* lastApplied moves under the lock and before doApply runs, so overlapping batches,
\* crashes and replaced entries never give an index to Apply twice; a start does, but
\* only the indices that an earlier start replayed and did not live to save.
AppliedAtMostOnce ==
    \A n \in Node :
        /\ \A j, k \in DOMAIN applied[n] :
              applied[n][j].index = applied[n][k].index => j = k \/ applied[n][j].index \in redone[n]
        /\ \A op \in pending[n] : op.index \notin AppliedIndices(n)
        /\ \A o, p \in pending[n] : o.index = p.index => o = p

\* The places where the loop and doApply keep a command they still have to answer.
Places(c) ==
    UNION {      {<<n, "queue", k>> : k \in {k \in DOMAIN queue[n] : queue[n][k] = c}}
            \cup {<<n, "append", 0>> : l \in {l \in {loop[n]} : l.cmd = c}}
            \cup {<<n, "registered", i>> : i \in {i \in Index : proposals[n][i] = c}}
            \cup {<<n, "apply", op.index>> : op \in {op \in pending[n] : op.cmd = c}} : n \in Node}

\* proposal.done holds one answer and nobody may wait to send a second: a command
\* is in one place at most, and in none once it is answered.
AnsweredOnce ==
    \A c \in Cmd : /\ Cardinality(Places(c)) <= 1
                   /\ Places(c) # {} => status[c] = "queued"

\* A node that is up counts as applied all it has applied or is about to; what the step
\* just made has taken is beyond all it had applied before.
UpBehind(n) ==
    /\ up[n] => /\ ~starting[n] /\ replayed[n] = 0
                /\ \A i \in AppliedIndices(n) \cup redone[n] : i <= lastApplied[n]
    /\ \A op \in pending[n] : op.index <= lastApplied[n]
    /\ \A i \in collected[n], j \in AppliedIndices(n) \cup redone[n] : j < i

\* A node that is down does nothing. It has applied what it counts as applied, and what
\* this start or one that did not finish has replayed.
DownBehind(n) ==
    ~up[n] => /\ loop[n].pc = "idle" /\ pending[n] = {}
              /\ starting[n] => lastApplied[n] <= replayed[n]
              /\ \A i \in AppliedIndices(n) : \/ i <= lastApplied[n] \/ i \in redone[n]
                                              \/ starting[n] /\ i <= replayed[n]
              /\ \A i \in redone[n] : i <= lastApplied[n] \/ i <= commitIndex[n]
              /\ replayed[n] <= lastApplied[n] \/ replayed[n] <= commitIndex[n]

AppliedBehind == \A n \in Node : UpBehind(n) /\ DownBehind(n)

\* AnsweredOnce without counting.
OnePlaceEach ==
    \A c \in Cmd : /\ \A p, q \in Places(c) : p = q
                   /\ Places(c) # {} => status[c] = "queued"

\* The inductive invariant behind AppliedAtMostOnce and AnsweredOnce, whoever stands
\* for election.
ApplyInv == TypeOK /\ AppliedBehind /\ AppliedAtMostOnce /\ OnePlaceEach

\* docs/raft-review.md:32: writes are linearizable. Each state machine sees the log's
\* commands in the order of their indices.
AppliedInOrder ==
    \A n \in Node : \A j, k \in DOMAIN applied[n] :
        j < k => applied[n][j].index < applied[n][k].index

CommandIndices(n) ==
    {i \in 1..lastApplied[n] : log[n][i] # Nil /\ log[n][i].val # NoOp}

\* docs/raft-review.md:31: a restart applies what was committed. Every command that a
\* running node counts as applied has reached its state machine or is on the way there.
NothingSkipped ==
    \A n \in Node : up[n] =>
        CommandIndices(n) \subseteq AppliedIndices(n) \cup {op.index : op \in pending[n]}

-----------------------------------------------------------------------------
(* Progress.                                                               *)

\* The scheduler runs every goroutine that can run, timers and tickers fire, and a
\* call between two running nodes is delivered and answered. The run loop's select
\* picks at random among the events that are ready, so none is passed over for ever.
\* Nothing makes a call fail, a client propose or a node crash.
Fairness ==
    /\ \A n \in Node :
          /\ WF_vars(Election(n)) /\ SF_vars(TakeProposal(n)) /\ SF_vars(Tick(n))
          /\ WF_vars(AppendProposal(n)) /\ WF_vars(CheckBeat(n))
          /\ WF_vars(SpawnReplicators(n)) /\ WF_vars(Apply(n))
    /\ \A m \in Node : \A n \in Peers(m) :
          /\ WF_vars(\E b \in ballots : b.from = m /\ b.to = n /\ Ballot(b) /\ ~FailBallot(b))
          /\ WF_vars(\E a \in appends :
                       a.from = m /\ a.to = n /\ Replication(a) /\ ~FailAppend(a))

FairSpec == Spec /\ Fairness

\* A proposal that entered the queue of a leader nobody challenges is answered.
ProposalsAnswered ==
    \A c \in Cmd : status[c] = "queued" ~> status[c] \in {"acked", "rejected"}

\* An answered command reaches the state machine of every node: later heartbeats
\* carry the leader's commit index to the followers.
ReachesEveryone ==
    \A c \in Cmd, n \in Node :
        status[c] = "acked" ~> \E k \in DOMAIN applied[n] : applied[n][k].entry.val = c

-----------------------------------------------------------------------------
(* One node stands for election: the group implements CommittedLog. The    *)
(* committed entries are the candidate's, up to its commit index.          *)

Chosen == LET c == CHOOSE c \in Candidates : TRUE
          IN  [i \in 1..commitIndex[c] |-> log[c][i]]

Promise == INSTANCE CommittedLog WITH chosen <- Chosen, known <- commitIndex, Value <- Entry

\* Commitment is final: what advanceCommitIndex committed stays where it is, over
\* crashes and re-elections, and no follower runs ahead of it or falls back.
RefinesCommittedLog == Promise!Spec

\* Nobody else leads, queues, or calls anybody.
OnlyCandidatesAct ==
    /\ \A n \in Node \ Candidates :
          /\ state[n] # "leader" /\ loop[n] = Idle /\ beat[n] = "none" /\ queue[n] = << >>
          /\ \A i \in Index : proposals[n][i] = Nil
          /\ \A op \in pending[n] : op.cmd = Nil
    /\ \A b \in ballots : b.from \in Candidates /\ b.to # b.from
    /\ \A a \in appends : a.from \in Candidates /\ a.to # a.from

\* The slot becomeLeader picked for its NoOp is still the end of the log.
NoOpSlotFree ==
    \A n \in Candidates : loop[n].pc = "noop" => loop[n].last = LastIndex(log[n])

\* A request carries a contiguous piece of its sender's log and none of its
\* commit index is news to the sender.
RequestsFromLog ==
    \A a \in appends :
        /\ a.commit <= commitIndex[a.from]
        /\ a.phase = "request" =>
              /\ a.sent = LastIndex(a.entries)
              /\ \A i \in Index : a.entries[i] # Nil =>
                    /\ a.entries[i] = log[a.from][i] /\ a.next <= i
                    /\ \A j \in a.next..i : a.entries[j] # Nil

\* A peer stores what it has acknowledged, and what a leader counts on it for.
AnswersHold ==
    \A a \in appends :
        a.phase = "response" /\ a.success /\ a.sent > 0 => log[a.to][a.sent] # Nil

MatchHolds ==
    \A n \in Candidates, p \in Node :
        p # n /\ matchIndex[n][p] > 0 => log[p][matchIndex[n][p]] # Nil

\* Committed entries are on a majority, and on every node that knows of them.
CommitHolds ==
    \A c \in Candidates :
        /\ \A i \in 1..commitIndex[c] : Majority({m \in Node : log[m][i] # Nil})
        /\ \A n \in Node : /\ commitIndex[n] <= commitIndex[c]
                           /\ \A i \in 1..commitIndex[n] : log[n][i] # Nil

\* A proposal waits at the index of its own entry, until that is committed.
ProposalsMatch ==
    \A n \in Candidates :
        /\ \A i \in Index : proposals[n][i] # Nil =>
              log[n][i] # Nil /\ log[n][i].val = proposals[n][i]
        /\ \A op \in pending[n] : op.cmd # Nil =>
              /\ op.index <= commitIndex[n]
              /\ log[n][op.index] # Nil /\ log[n][op.index].val = op.cmd
        /\ \A x \in Cmd : status[x] = "acked" =>
              \E i \in 1..commitIndex[n] : log[n][i] # Nil /\ log[n][i].val = x

\* The inductive invariant behind LogsArePrefixes, CommittedOnMajority and
\* AckedMeansReplicated when one node stands for election.
ReplicationInv ==
    /\ TypeOK
    /\ OnlyCandidatesAct
    /\ LogsArePrefixes
    /\ NoOpSlotFree
    /\ RequestsFromLog
    /\ AnswersHold
    /\ MatchHolds
    /\ CommitHolds
    /\ ProposalsMatch
=============================================================================
