-------------------------------- MODULE Raft --------------------------------
(***************************************************************************)
(* One Raft group: internal/raft/{node,run,transport,storage}.go.          *)
(*                                                                         *)
(* Each node is one run loop (election timer, heartbeat ticker, proposal   *)
(* queue), the HTTP handlers of the RPCs it receives and one goroutine per *)
(* RPC it sends. An action is one critical section of n.mu, or one step of *)
(* the run loop between two of them.                                       *)
(*                                                                         *)
(* Every assignment to currentTerm, votedFor, commitIndex and lastApplied  *)
(* is written to Badger in the same critical section, so one variable      *)
(* stands for both copies and survives a crash. A crash falls between two  *)
(* critical sections or between the writes of collectApplyOps. During      *)
(* Start lastApplied in memory runs ahead of the copy on disk: there it is *)
(* the variable replayed.                                                  *)
(***************************************************************************)
EXTENDS RaftLog, Sequences

CONSTANTS Node,        \* the members of the cluster (cfg.Peers, self included)
          Cmd,         \* the client commands, each proposed at most once
          NoOp,        \* the entry a new leader appends
          Candidates,  \* the nodes whose election timer may expire
          Lossy,       \* may an RPC fail although both ends are up?
          MaxTerm,     \* bound on terms
          MaxBatch,    \* entries that fit in one AppendEntries request
          MaxInFlight, \* bound on outstanding AppendEntries calls per peer
          MaxCrash     \* bound on crashes

Entry == [term : 0..MaxTerm, val : Cmd \cup {NoOp}]

ASSUME NodeAssumption == IsFiniteSet(Node) /\ Candidates \subseteq Node
ASSUME NilAssumption == Nil \notin Node \cup Cmd \cup {NoOp} \cup Entry
ASSUME CmdAssumption == NoOp \notin Cmd
ASSUME BoundAssumption == /\ MaxLog \in Nat /\ MaxTerm \in Nat /\ MaxCrash \in Nat
                          /\ MaxBatch \in Nat \ {0} /\ MaxInFlight \in Nat
                          /\ Lossy \in BOOLEAN

VARIABLES
    \* persisted by RaftStorage
    currentTerm, votedFor, log, commitIndex, lastApplied,
    \* in memory
    up, state, leaderID, electionTimer, heartbeatTicker, nextIndex, matchIndex,
    proposals,
    \* what the run loop is doing, its proposal queue, a running sendHeartbeats
    loop, queue, beat,
    \* RPC goroutines: votes and pre-votes, AppendEntries
    ballots, appends,
    \* operations handed to doApply and not yet done; operations done, in order
    pending, applied,
    \* what the proposer of each command knows
    status,
    \* Start is replaying committed entries, and has come this far
    starting, replayed,
    crashes,
    \* history: the indices that starts which did not finish had replayed, and those
    \* that the step just made has taken for doApply
    redone, collected

stable == <<currentTerm, votedFor, log, commitIndex, lastApplied>>
roleVars == <<state, leaderID, electionTimer, heartbeatTicker>>
leaderVars == <<nextIndex, matchIndex, proposals>>
loopVars == <<loop, queue, beat>>
startVars == <<starting, replayed, redone>>
applyVars == <<pending, applied, status, startVars>>
vars == <<stable, up, roleVars, leaderVars, loopVars, ballots, appends, applyVars, crashes,
          collected>>

-----------------------------------------------------------------------------
Peers(n) == Node \ {n}

Majority(S) == 2 * Cardinality(S) > Cardinality(Node)

\* What a run loop is doing and the locals it carries from one step to the next.
Doing(pc, last, cmd) ==
    [pc |-> pc, votes |-> {}, waiting |-> {}, last |-> last, cmd |-> cmd]

Idle == Doing("idle", 0, Nil)

Init ==
    /\ currentTerm = [n \in Node |-> 0]
    /\ votedFor = [n \in Node |-> Nil]
    /\ log = [n \in Node |-> EmptyLog]
    /\ commitIndex = [n \in Node |-> 0]
    /\ lastApplied = [n \in Node |-> 0]
    /\ up = [n \in Node |-> TRUE]
    /\ state = [n \in Node |-> "follower"]
    /\ leaderID = [n \in Node |-> Nil]
    /\ electionTimer = [n \in Node |-> TRUE]
    /\ heartbeatTicker = [n \in Node |-> FALSE]
    /\ nextIndex = [n \in Node |-> [p \in Node |-> 1]]
    /\ matchIndex = [n \in Node |-> [p \in Node |-> 0]]
    /\ proposals = [n \in Node |-> [i \in Index |-> Nil]]
    /\ loop = [n \in Node |-> Idle]
    /\ queue = [n \in Node |-> << >>]
    /\ beat = [n \in Node |-> "none"]
    /\ ballots = {}
    /\ appends = {}
    /\ pending = [n \in Node |-> {}]
    /\ applied = [n \in Node |-> << >>]
    /\ status = [c \in Cmd |-> "new"]
    /\ starting = [n \in Node |-> FALSE]
    /\ replayed = [n \in Node |-> 0]
    /\ crashes = 0
    /\ redone = [n \in Node |-> {}]
    /\ collected = [n \in Node |-> {}]

-----------------------------------------------------------------------------
(* Applying committed entries.                                             *)

\* Mutants: the last applied entry is taken again; an entry too many, or too few.
LastApplied(n) == Max({1, lastApplied[n]})
AppliedPast(n, l, c) == Min({c + 1, MaxLog})
AppliedShort(n, l, c) == ReachedFrom(l, lastApplied[n], c - 1)

FirstUnapplied(n) == lastApplied[n] + 1

\* How far collectApplyOps comes with log l and commit index c.
AppliedTo(n, l, c) == ReachedFrom(l, lastApplied[n], c)

\* Mutant: the proposals stay in the map.
KeepRegistered(props, taken) == props

\* delete(n.proposals, idx) for each index taken.
Unregister(props, taken) == [i \in Index |-> IF i \in taken THEN Nil ELSE props[i]]

\* The step takes no operations.
NoneCollected == collected' = [n \in Node |-> {}]

\* collectApplyOps: lastApplied moves at once, the operations (each with the
\* proposal waiting at its index) go to doApply, which runs after the unlock.
CollectApplyOps(n, l, c, props) ==
    LET first == FirstUnapplied(n)
        last == AppliedTo(n, l, c)
    IN  /\ lastApplied' = [lastApplied EXCEPT ![n] = last]
        /\ collected' = [m \in Node |-> IF m = n THEN first..last ELSE {}]
        /\ pending' = [pending EXCEPT ![n] = @ \cup
              {[index |-> i, entry |-> l[i], cmd |-> props[i], batch |-> first] :
                  i \in first..last}]
        /\ proposals' = [proposals EXCEPT ![n] = Unregister(props, first..last)]

\* cfg.Apply is called for a command; a NoOp never reaches the state machine.
GiveToApply(n, i, entry) ==
    applied' = IF entry.val = NoOp THEN applied
               ELSE [applied EXCEPT ![n] = Append(@, [index |-> i, entry |-> entry])]

\* doApply, one operation: batches are applied by the goroutines that collected
\* them and in any order, the operations of a batch in index order. The proposer
\* is answered with nil.
Apply(n) ==
    \E op \in pending[n] :
        /\ \A o \in pending[n] : o.batch = op.batch => o.index >= op.index
        /\ pending' = [pending EXCEPT ![n] = @ \ {op}]
        /\ GiveToApply(n, op.index, op.entry)
        /\ status' = IF op.cmd = Nil THEN status
                     ELSE [status EXCEPT ![op.cmd] = "acked"]
        /\ NoneCollected
        /\ UNCHANGED <<stable, up, roleVars, leaderVars, loopVars, ballots, appends, startVars,
                       crashes>>

-----------------------------------------------------------------------------
(* Elections.                                                              *)

\* Outstanding calls of a finished phase: their goroutines still run, but
\* nobody reads the channel they report to.
Late(n) == {[b EXCEPT !.mode = IF b.from = n /\ @ = "live" THEN "late" ELSE @] : b \in ballots}

Calls(n, kind, term) ==
    {[kind |-> kind, from |-> n, to |-> p, term |-> term,
      lastIndex |-> LastIndex(log[n]), lastTerm |-> LastTerm(log[n]),
      phase |-> "request", mode |-> "live", rterm |-> 0, granted |-> FALSE] : p \in Peers(n)}

Collecting(n, kind) ==
    [pc |-> kind, votes |-> {n}, waiting |-> Peers(n), last |-> 0, cmd |-> Nil]

\* The run loop waits for its next event. A node without peers commits and applies
\* in the run loop, and is back only when that is done.
Ready(n) ==
    /\ up[n] /\ loop[n].pc = "idle"
    /\ Peers(n) = {} => pending[n] = {}

\* The election timer expires: startElection up to the PreVote requests. Nothing
\* asks whether the node is the leader.
StartPreVote(n) ==
    /\ Ready(n) /\ n \in Candidates
    /\ electionTimer[n] /\ currentTerm[n] < MaxTerm
    /\ Peers(n) # {}
    /\ electionTimer' = [electionTimer EXCEPT ![n] = FALSE]
    /\ ballots' = Late(n) \cup Calls(n, "prevote", currentTerm[n])
    /\ loop' = [loop EXCEPT ![n] = Collecting(n, "prevote")]
    /\ NoneCollected
    /\ UNCHANGED <<stable, up, state, leaderID, heartbeatTicker, leaderVars, queue, beat,
                   appends, applyVars, crashes>>

\* startElection of a node without peers: it elects itself at once.
ElectAlone(n) ==
    /\ Ready(n) /\ n \in Candidates
    /\ electionTimer[n] /\ currentTerm[n] < MaxTerm
    /\ Peers(n) = {}
    /\ electionTimer' = [electionTimer EXCEPT ![n] = FALSE]
    /\ state' = [state EXCEPT ![n] = "candidate"]
    /\ currentTerm' = [currentTerm EXCEPT ![n] = @ + 1]
    /\ votedFor' = [votedFor EXCEPT ![n] = n]
    /\ loop' = [loop EXCEPT ![n] = Collecting(n, "vote")]
    /\ NoneCollected
    /\ UNCHANGED <<log, commitIndex, lastApplied, up, leaderID, heartbeatTicker, leaderVars,
                   queue, beat, ballots, appends, applyVars, crashes>>

\* The server's answer; a caller that has given up never sees it.
Answer(b, term, granted) ==
    ballots' = (ballots \ {b}) \cup
        IF b.mode = "orphan" THEN {}
        ELSE {[kind |-> b.kind, from |-> b.from, to |-> b.to, term |-> b.term,
               lastIndex |-> 0, lastTerm |-> 0, phase |-> "response", mode |-> b.mode,
               rterm |-> term, granted |-> granted]}

\* HandleRequestVote, PreVote branch (and its stale-term rejection): only the
\* rejection of a stale term re-arms the election timer.
HandlePreVote(b) ==
    LET n == b.to
        stale == b.term + 1 < currentTerm[n]
    IN  /\ b.kind = "prevote" /\ b.phase = "request" /\ up[n]
        /\ Answer(b, currentTerm[n], ~stale /\ UpToDate(b.lastTerm, b.lastIndex, log[n]))
        /\ electionTimer' = [electionTimer EXCEPT ![n] = @ \/ stale]
        /\ NoneCollected
        /\ UNCHANGED <<stable, up, state, leaderID, heartbeatTicker, leaderVars, loopVars,
                       appends, applyVars, crashes>>

\* HandleRequestVote, real vote of a term older than ours.
RejectVote(b) ==
    LET n == b.to
    IN  /\ b.kind = "vote" /\ b.phase = "request" /\ up[n]
        /\ b.term < currentTerm[n]
        /\ Answer(b, currentTerm[n], FALSE)
        /\ electionTimer' = [electionTimer EXCEPT ![n] = TRUE]
        /\ NoneCollected
        /\ UNCHANGED <<stable, up, state, leaderID, heartbeatTicker, leaderVars, loopVars,
                       appends, applyVars, crashes>>

\* HandleRequestVote, real vote: adopt a newer term, then vote if the vote of the
\* term is free (or already this candidate's) and its log is as new as ours.
HandleVote(b) ==
    LET n == b.to
        newer == b.term > currentTerm[n]
        vote == IF newer THEN Nil ELSE votedFor[n]
        grant == /\ vote \in {Nil, b.from}
                 /\ UpToDate(b.lastTerm, b.lastIndex, log[n])
    IN  /\ b.kind = "vote" /\ b.phase = "request" /\ up[n]
        /\ b.term >= currentTerm[n]
        /\ Answer(b, b.term, grant)
        /\ currentTerm' = [currentTerm EXCEPT ![n] = b.term]
        /\ votedFor' = [votedFor EXCEPT ![n] = IF grant THEN b.from ELSE vote]
        /\ state' = [state EXCEPT ![n] = IF newer \/ grant THEN "follower" ELSE @]
        /\ leaderID' = [leaderID EXCEPT ![n] = IF newer THEN Nil ELSE @]
        /\ electionTimer' = [electionTimer EXCEPT ![n] = TRUE]
        /\ NoneCollected
        /\ UNCHANGED <<log, commitIndex, lastApplied, up, heartbeatTicker, leaderVars,
                       loopVars, appends, applyVars, crashes>>

\* One result arrives on the channel of the running phase.
Collect(b, yes) ==
    loop' = IF b.mode # "live" THEN loop
            ELSE [loop EXCEPT ![b.from].waiting = @ \ {b.to},
                              ![b.from].votes = IF yes THEN @ \cup {b.to} ELSE @]

\* A caller goroutine of startElection sees a term above the one it captured:
\* it stores that term whatever the current one is, forgets the vote and makes
\* the node a follower. Neither timer nor ticker is touched.
AdoptTerm(n, term) ==
    /\ currentTerm' = [currentTerm EXCEPT ![n] = term]
    /\ votedFor' = [votedFor EXCEPT ![n] = Nil]
    /\ state' = [state EXCEPT ![n] = "follower"]

PreVoteReply(b) ==
    LET n == b.from
        higher == b.rterm > b.term
    IN  /\ b.kind = "prevote" /\ b.phase = "response" /\ up[n]
        /\ ballots' = ballots \ {b}
        /\ Collect(b, b.granted /\ ~higher)
        /\ IF higher THEN AdoptTerm(n, b.rterm)
                     ELSE UNCHANGED <<currentTerm, votedFor, state>>
        /\ NoneCollected
        /\ UNCHANGED <<log, commitIndex, lastApplied, up, leaderID, electionTimer,
                       heartbeatTicker, leaderVars, queue, beat, appends, applyVars, crashes>>

VoteReply(b) ==
    LET n == b.from
        higher == b.rterm > b.term
    IN  /\ b.kind = "vote" /\ b.phase = "response" /\ up[n]
        /\ ballots' = ballots \ {b}
        /\ Collect(b, b.granted /\ b.rterm = b.term)
        /\ IF higher THEN AdoptTerm(n, b.rterm)
                     ELSE UNCHANGED <<currentTerm, votedFor, state>>
        /\ NoneCollected
        /\ UNCHANGED <<log, commitIndex, lastApplied, up, leaderID, electionTimer,
                       heartbeatTicker, leaderVars, queue, beat, appends, applyVars, crashes>>

\* The call fails: connection refused, request or response lost, or a timeout
\* while the request is still on its way (the request lives on as an orphan).
FailBallot(b) ==
    /\ Lossy \/ ~up[b.to]
    /\ b.mode # "orphan"
    /\ Collect(b, FALSE)
    /\ \/ ballots' = ballots \ {b}
       \/ /\ b.phase = "request"
          /\ ballots' = (ballots \ {b}) \cup {[b EXCEPT !.mode = "orphan"]}
    /\ NoneCollected
    /\ UNCHANGED <<stable, up, roleVars, leaderVars, queue, beat, appends, applyVars, crashes>>

\* PreVote won: the real election. The term is incremented from what it is now.
StartVote(n) ==
    /\ loop[n].pc = "prevote" /\ Majority(loop[n].votes)
    /\ currentTerm[n] < MaxTerm
    /\ state' = [state EXCEPT ![n] = "candidate"]
    /\ currentTerm' = [currentTerm EXCEPT ![n] = @ + 1]
    /\ votedFor' = [votedFor EXCEPT ![n] = n]
    /\ leaderID' = [leaderID EXCEPT ![n] = Nil]
    /\ ballots' = Late(n) \cup Calls(n, "vote", currentTerm[n] + 1)
    /\ loop' = [loop EXCEPT ![n] = Collecting(n, "vote")]
    /\ NoneCollected
    /\ UNCHANGED <<log, commitIndex, lastApplied, up, electionTimer, heartbeatTicker,
                   leaderVars, queue, beat, appends, applyVars, crashes>>

\* Every call has reported and the majority was not reached.
Failed(n, phase) ==
    /\ loop[n].pc = phase
    /\ loop[n].waiting = {} /\ ~Majority(loop[n].votes)

\* Mutant: a failed PreVote returns without re-arming the timer.
PreVoteGiveUp(n) ==
    /\ Failed(n, "prevote")
    /\ loop' = [loop EXCEPT ![n] = Idle]
    /\ NoneCollected
    /\ UNCHANGED <<stable, up, roleVars, leaderVars, queue, beat, ballots, appends, applyVars,
                   crashes>>

PreVoteFail(n) ==
    /\ Failed(n, "prevote")
    /\ electionTimer' = [electionTimer EXCEPT ![n] = TRUE]
    /\ loop' = [loop EXCEPT ![n] = Idle]
    /\ NoneCollected
    /\ UNCHANGED <<stable, up, state, leaderID, heartbeatTicker, leaderVars, queue, beat,
                   ballots, appends, applyVars, crashes>>

LoseElection(n) ==
    /\ Failed(n, "vote")
    /\ electionTimer' = [electionTimer EXCEPT ![n] = TRUE]
    /\ state' = [state EXCEPT ![n] = IF @ = "candidate" THEN "follower" ELSE @]
    /\ loop' = [loop EXCEPT ![n] = Idle]
    /\ NoneCollected
    /\ UNCHANGED <<stable, up, leaderID, heartbeatTicker, leaderVars, queue, beat,
                   ballots, appends, applyVars, crashes>>

\* becomeLeader, first critical section. It asks neither whether the node is
\* still a candidate nor whether its term is the one it was elected in.
BecomeLeader(n) ==
    LET last == LastIndex(log[n])
    IN  /\ loop[n].pc = "vote" /\ Majority(loop[n].votes)
        /\ ballots' = Late(n)
        /\ IF state[n] = "leader"
           THEN /\ loop' = [loop EXCEPT ![n] = Idle]
                /\ UNCHANGED <<state, leaderID, heartbeatTicker, nextIndex, matchIndex>>
           ELSE /\ state' = [state EXCEPT ![n] = "leader"]
                /\ leaderID' = [leaderID EXCEPT ![n] = n]
                /\ heartbeatTicker' = [heartbeatTicker EXCEPT ![n] = TRUE]
                /\ nextIndex' = [nextIndex EXCEPT ![n] = [p \in Node |->
                                    IF p = n THEN @[p] ELSE last + 1]]
                /\ matchIndex' = [matchIndex EXCEPT ![n] = [p \in Node |->
                                    IF p = n THEN last ELSE 0]]
                /\ loop' = [loop EXCEPT ![n] = Doing("noop", last, Nil)]
        /\ NoneCollected
        /\ UNCHANGED <<stable, up, electionTimer, proposals, queue, beat, appends,
                       applyVars, crashes>>

\* A single node commits what it has just stored; a group waits for its peers.
CommitAlone(n, l, i, props) ==
    IF Peers(n) = {}
    THEN /\ commitIndex' = [commitIndex EXCEPT ![n] = i]
         /\ CollectApplyOps(n, l, i, props)
    ELSE /\ NoneCollected
         /\ proposals' = [proposals EXCEPT ![n] = props]
         /\ UNCHANGED <<commitIndex, lastApplied, pending>>

NoOpIndex(n) == loop[n].last + 1

\* becomeLeader, second critical section: the NoOp goes where the first one saw
\* the end of the log, with the term of now.
AppendNoOp(n) ==
    LET i == NoOpIndex(n)
        l == StoreLog(log[n], i, [term |-> currentTerm[n], val |-> NoOp])
    IN  /\ loop[n].pc = "noop" /\ i <= MaxLog
        /\ log' = [log EXCEPT ![n] = l]
        /\ matchIndex' = [matchIndex EXCEPT ![n][n] = i]
        /\ CommitAlone(n, l, i, proposals[n])
        /\ loop' = [loop EXCEPT ![n] = Idle]
        /\ UNCHANGED <<currentTerm, votedFor, up, roleVars, nextIndex, queue, beat, ballots,
                       appends, applied, status, startVars, crashes>>

-----------------------------------------------------------------------------
(* Proposals.                                                              *)

\* Propose: leaders queue the command for the run loop. (A proposer that meets
\* another node gets ErrNotLeader and nothing changes.)
Propose(n, c) ==
    /\ up[n] /\ state[n] = "leader" /\ status[c] = "new"
    /\ queue' = [queue EXCEPT ![n] = Append(@, c)]
    /\ status' = [status EXCEPT ![c] = "queued"]
    /\ NoneCollected
    /\ UNCHANGED <<stable, up, roleVars, leaderVars, loop, beat, ballots, appends, pending,
                   applied, startVars, crashes>>

\* handleProposal, the leader check it makes before it takes the lock.
TakeProposal(n) ==
    /\ Ready(n) /\ queue[n] # << >>
    /\ queue' = [queue EXCEPT ![n] = Tail(@)]
    /\ IF state[n] = "leader"
       THEN /\ loop' = [loop EXCEPT ![n] = Doing("append", 0, Head(queue[n]))]
            /\ UNCHANGED status
       ELSE /\ status' = [status EXCEPT ![Head(queue[n])] = "rejected"]
            /\ UNCHANGED loop
    /\ NoneCollected
    /\ UNCHANGED <<stable, up, roleVars, leaderVars, beat, ballots, appends, pending, applied,
                   startVars, crashes>>

\* handleProposal under the lock: append with the term of now, register the
\* proposal at that index, start a sendHeartbeats goroutine.
AppendProposal(n) ==
    LET i == LastIndex(log[n]) + 1
        c == loop[n].cmd
        l == StoreLog(log[n], i, [term |-> currentTerm[n], val |-> c])
    IN  /\ loop[n].pc = "append" /\ i <= MaxLog
        /\ log' = [log EXCEPT ![n] = l]
        /\ matchIndex' = [matchIndex EXCEPT ![n][n] = i]
        /\ nextIndex' = [nextIndex EXCEPT ![n][n] = i + 1]
        /\ CommitAlone(n, l, i, [proposals[n] EXCEPT ![i] = c])
        /\ loop' = [loop EXCEPT ![n] = Idle]
        /\ beat' = [beat EXCEPT ![n] = IF @ = "none" THEN "due" ELSE @]
        /\ UNCHANGED <<currentTerm, votedFor, up, roleVars, queue, ballots, appends, applied,
                       status, startVars, crashes>>

-----------------------------------------------------------------------------
(* Replication.                                                            *)

FreeSlots(n, p) ==
    {s \in 1..MaxInFlight : ~\E a \in appends : a.from = n /\ a.to = p /\ a.slot = s}

\* sendHeartbeats, its leader check, when the ticker wakes the run loop. (Without a
\* free slot the calls it would start are beyond the bound.)
Tick(n) ==
    /\ Ready(n)
    /\ heartbeatTicker[n] /\ state[n] = "leader"
    /\ \E p \in Peers(n) : FreeSlots(n, p) # {}
    /\ loop' = [loop EXCEPT ![n] = Doing("beat", 0, Nil)]
    /\ NoneCollected
    /\ UNCHANGED <<stable, up, roleVars, leaderVars, queue, beat, ballots, appends, applyVars,
                   crashes>>

\* The same check in the goroutine that a proposal started.
CheckBeat(n) ==
    /\ beat[n] = "due"
    /\ beat' = [beat EXCEPT ![n] = IF state[n] = "leader" THEN "checked" ELSE "none"]
    /\ NoneCollected
    /\ UNCHANGED <<stable, up, roleVars, leaderVars, loop, queue, ballots, appends, applyVars,
                   crashes>>

\* sendHeartbeats after its leader check: term and commit index are read now and
\* one replicateToPeer goroutine starts per peer.
SpawnReplicators(n) ==
    /\ \/ /\ loop[n].pc = "beat"
          /\ loop' = [loop EXCEPT ![n] = Idle]
          /\ UNCHANGED beat
       \/ /\ beat[n] = "checked"
          /\ beat' = [beat EXCEPT ![n] = "none"]
          /\ UNCHANGED loop
    /\ appends' = appends \cup
         {[from |-> n, to |-> p, slot |-> Min(FreeSlots(n, p)), term |-> currentTerm[n],
           commit |-> commitIndex[n], phase |-> "spawned", orphan |-> FALSE, next |-> 1,
           prevTerm |-> 0, entries |-> EmptyLog, sent |-> 0, rterm |-> 0, success |-> FALSE, batch |-> 0] :
             p \in {q \in Peers(n) : FreeSlots(n, q) # {}}}
    /\ NoneCollected
    /\ UNCHANGED <<stable, up, roleVars, leaderVars, queue, ballots, applyVars, crashes>>

\* replicateToPeer, first critical section: the request is cut from the log of
\* now. Whether the node still leads is not asked.
Replicate(a) ==
    LET n == a.from
        next == nextIndex[n][a.to]
        prev == IF next = 1 THEN Nil ELSE log[n][next - 1]
        entries == LogEntries(log[n], next, MaxBatch)
    IN  /\ a.phase = "spawned" /\ up[n]
        /\ appends' = (appends \ {a}) \cup
              {[a EXCEPT !.phase = "request", !.next = next,
                         !.prevTerm = IF prev = Nil THEN 0 ELSE prev.term,
                         !.entries = entries, !.sent = LastIndex(entries)]}
        /\ NoneCollected
        /\ UNCHANGED <<stable, up, roleVars, leaderVars, loopVars, ballots, applyVars, crashes>>

Respond(a, term, ok, batch) ==
    appends' = (appends \ {a}) \cup
        IF a.orphan THEN {}
        ELSE {[from |-> a.from, to |-> a.to, slot |-> a.slot, term |-> a.term, commit |-> 0,
               phase |-> "response", orphan |-> FALSE, next |-> a.next, prevTerm |-> 0,
               entries |-> EmptyLog, sent |-> a.sent, rterm |-> term, success |-> ok,
               batch |-> batch]}

\* HandleAppendEntries of a stale term.
RejectAppend(a) ==
    LET n == a.to
    IN  /\ a.phase = "request" /\ up[n]
        /\ a.term < currentTerm[n]
        /\ Respond(a, currentTerm[n], FALSE, 0)
        /\ electionTimer' = [electionTimer EXCEPT ![n] = TRUE]
        /\ NoneCollected
        /\ UNCHANGED <<stable, up, state, leaderID, heartbeatTicker, leaderVars, loopVars,
                       ballots, applyVars, crashes>>

\* HandleAppendEntries of a current or newer term: the sender is the leader.
AcceptLeader(a) ==
    LET n == a.to
    IN  /\ a.phase = "request" /\ up[n]
        /\ a.term >= currentTerm[n]
        /\ currentTerm' = [currentTerm EXCEPT ![n] = a.term]
        /\ votedFor' = [votedFor EXCEPT ![n] = IF a.term > currentTerm[n] THEN Nil ELSE @]
        /\ state' = [state EXCEPT ![n] = "follower"]
        /\ leaderID' = [leaderID EXCEPT ![n] = a.from]
        /\ heartbeatTicker' = [heartbeatTicker EXCEPT ![n] = FALSE]
        /\ electionTimer' = [electionTimer EXCEPT ![n] = TRUE]

\* Mutant: the entry before the first one sent is not looked at.
PrevUnchecked(l, a) == TRUE

\* The entry before the first one sent is there with the leader's term.
PrevMatches(l, a) ==
    a.next > 1 => l[a.next - 1] # Nil /\ l[a.next - 1].term = a.prevTerm

MismatchAppend(a) ==
    /\ AcceptLeader(a)
    /\ ~PrevMatches(log[a.to], a)
    /\ Respond(a, a.term, FALSE, 0)
    /\ NoneCollected
    /\ UNCHANGED <<log, commitIndex, lastApplied, up, leaderVars, loopVars, ballots, applyVars,
                   crashes>>

\* Mutants: a follower commits all it has, or never its last entry.
FollowerCommitAll(a, l) == LastIndex(l)
FollowerCommitShort(a, l) == Min({a.commit, LastIndex(l) - 1})

\* A follower's new commit index: the leader's, but not past the end of the log.
FollowerCommit(a, l) == Min({a.commit, LastIndex(l)})

AcceptAppend(a) ==
    LET n == a.to
        l == AppendLoop(log[n], a.entries)
        first == FirstUnapplied(n)
    IN  /\ AcceptLeader(a)
        /\ PrevMatches(log[n], a)
        /\ log' = [log EXCEPT ![n] = l]
        /\ IF a.commit > commitIndex[n]
           THEN LET c == FollowerCommit(a, l)
                IN  /\ commitIndex' = [commitIndex EXCEPT ![n] = c]
                    /\ CollectApplyOps(n, l, c, proposals[n])
                    /\ Respond(a, a.term, TRUE, IF AppliedTo(n, l, c) >= first THEN first ELSE 0)
           ELSE /\ Respond(a, a.term, TRUE, 0)
                /\ NoneCollected
                /\ UNCHANGED <<commitIndex, lastApplied, pending, proposals>>
        /\ UNCHANGED <<up, nextIndex, matchIndex, loopVars, ballots, applied, status, startVars,
                       crashes>>

\* The handler answers only after its doApply.
Answered(a) ==
    /\ a.phase = "response" /\ up[a.from]
    /\ ~\E op \in pending[a.to] : op.batch = a.batch

\* Mutant: a peer counts for an index one beyond what it stores.
CommittableEarly(n, l, match, i) ==
    /\ l[i] # Nil
    /\ l[i].term = currentTerm[n]
    /\ Majority({n} \cup {p \in Peers(n) : match[p] + 1 >= i})

\* advanceCommitIndex stops at the first entry that is missing, of another term
\* than the current one, or not on a majority.
Committable(n, l, match, i) ==
    /\ l[i] # Nil
    /\ l[i].term = currentTerm[n]
    /\ Majority({n} \cup {p \in Peers(n) : match[p] >= i})

\* Mutant: one committable entry commits the whole log.
CommitWholeLog(n, match) ==
    IF \E i \in Index : i = commitIndex[n] + 1 /\ Committable(n, log[n], match, i)
    THEN LastIndex(log[n]) ELSE commitIndex[n]

AdvancedCommit(n, match) ==
    Max({commitIndex[n]} \cup
        {k \in Index : /\ k > commitIndex[n]
                       /\ \A i \in (commitIndex[n] + 1)..k : Committable(n, log[n], match, i)})

\* replicateToPeer, stepDown branch: the response has a term above the request's.
StepDown(a) ==
    LET n == a.from
    IN  /\ Answered(a) /\ a.rterm > a.term
        /\ appends' = appends \ {a}
        /\ IF a.rterm > currentTerm[n]
           THEN /\ currentTerm' = [currentTerm EXCEPT ![n] = a.rterm]
                /\ votedFor' = [votedFor EXCEPT ![n] = Nil]
           ELSE UNCHANGED <<currentTerm, votedFor>>
        /\ heartbeatTicker' = [heartbeatTicker EXCEPT ![n] = FALSE]
        /\ state' = [state EXCEPT ![n] = "follower"]
        /\ leaderID' = [leaderID EXCEPT ![n] = Nil]
        /\ electionTimer' = [electionTimer EXCEPT ![n] = TRUE]
        /\ NoneCollected
        /\ UNCHANGED <<log, commitIndex, lastApplied, up, leaderVars, loopVars, ballots,
                       applyVars, crashes>>

\* replicateToPeer, success: the peer's indices are set (not raised) to what this
\* call sent, and the commit index advances.
ReplicateOk(a) ==
    LET n == a.from
        match == IF a.sent > 0 THEN [matchIndex[n] EXCEPT ![a.to] = a.sent] ELSE matchIndex[n]
        commit == AdvancedCommit(n, match)
    IN  /\ Answered(a) /\ a.rterm <= a.term
        /\ state[n] = "leader" /\ a.rterm = a.term /\ a.success
        /\ appends' = appends \ {a}
        /\ nextIndex' = [nextIndex EXCEPT ![n][a.to] = IF a.sent > 0 THEN a.sent + 1 ELSE a.next]
        /\ matchIndex' = [matchIndex EXCEPT ![n] = match]
        /\ commitIndex' = [commitIndex EXCEPT ![n] = commit]
        /\ CollectApplyOps(n, log[n], commit, proposals[n])
        /\ UNCHANGED <<currentTerm, votedFor, log, up, roleVars, loopVars, ballots, applied,
                       status, startVars, crashes>>

\* replicateToPeer, refused: one index back. (ConflictIndex is not used.)
ReplicateRefused(a) ==
    LET n == a.from
    IN  /\ Answered(a) /\ a.rterm = a.term
        /\ state[n] = "leader" /\ ~a.success
        /\ appends' = appends \ {a}
        /\ nextIndex' = [nextIndex EXCEPT ![n][a.to] = IF @ > 1 THEN @ - 1 ELSE @]
        /\ NoneCollected
        /\ UNCHANGED <<stable, up, roleVars, matchIndex, proposals, loopVars, ballots,
                       applyVars, crashes>>

\* replicateToPeer, answer to a node that leads no more.
ReplicateIgnored(a) ==
    /\ Answered(a) /\ a.rterm <= a.term
    /\ state[a.from] # "leader" \/ a.rterm # a.term
    /\ appends' = appends \ {a}
    /\ NoneCollected
    /\ UNCHANGED <<stable, up, roleVars, leaderVars, loopVars, ballots, applyVars, crashes>>

\* The call fails; as for ballots, a request may outlive its caller.
FailAppend(a) ==
    /\ Lossy \/ ~up[a.to]
    /\ a.phase # "spawned" /\ ~a.orphan
    /\ \/ appends' = appends \ {a}
       \/ /\ a.phase = "request"
          /\ appends' = (appends \ {a}) \cup {[a EXCEPT !.orphan = TRUE]}
    /\ NoneCollected
    /\ UNCHANGED <<stable, up, roleVars, leaderVars, loopVars, ballots, applyVars, crashes>>

\* A request without a caller never arrives.
DropOrphan ==
    /\ \/ /\ \E b \in ballots : b.mode = "orphan" /\ ballots' = ballots \ {b}
          /\ UNCHANGED appends
       \/ /\ \E a \in appends : a.orphan /\ appends' = appends \ {a}
          /\ UNCHANGED ballots
    /\ NoneCollected
    /\ UNCHANGED <<stable, up, roleVars, leaderVars, loopVars, applyVars, crashes>>

-----------------------------------------------------------------------------
(* Crash and restart.                                                      *)

\* Where the copy of lastApplied on disk may stand when the process dies: within the
\* critical section that has just taken operations, it moves index by index, after the
\* commit index.
SavedApplied(n) == {lastApplied[n]} \cup {i \in 0..MaxLog : i + 1 \in collected[n]}

\* The process dies: memory is gone, its goroutines with it. Requests it sent
\* may still arrive; answers it computed but had not sent are lost.
Crash(n) ==
    /\ up[n] /\ crashes < MaxCrash
    /\ crashes' = crashes + 1
    /\ up' = [up EXCEPT ![n] = FALSE]
    /\ \E saved \in SavedApplied(n) : lastApplied' = [lastApplied EXCEPT ![n] = saved]
    /\ state' = [state EXCEPT ![n] = "follower"]
    /\ leaderID' = [leaderID EXCEPT ![n] = Nil]
    /\ electionTimer' = [electionTimer EXCEPT ![n] = FALSE]
    /\ heartbeatTicker' = [heartbeatTicker EXCEPT ![n] = FALSE]
    /\ nextIndex' = [nextIndex EXCEPT ![n] = [p \in Node |-> 1]]
    /\ matchIndex' = [matchIndex EXCEPT ![n] = [p \in Node |-> 0]]
    /\ proposals' = [proposals EXCEPT ![n] = [i \in Index |-> Nil]]
    /\ loop' = [loop EXCEPT ![n] = Idle]
    /\ queue' = [queue EXCEPT ![n] = << >>]
    /\ beat' = [beat EXCEPT ![n] = "none"]
    /\ pending' = [pending EXCEPT ![n] = {}]
    /\ ballots' = {b \in ballots : b.from # n} \cup
          {[b EXCEPT !.mode = "orphan"] : b \in {c \in ballots : c.from = n /\ c.phase = "request"}}
    /\ appends' = {a \in appends : a.from # n /\ ~(a.to = n /\ a.phase = "response"
                                                   /\ \E op \in pending[n] : op.batch = a.batch)}
          \cup {[a EXCEPT !.orphan = TRUE] : a \in {c \in appends : c.from = n /\ c.phase = "request"}}
    /\ NoneCollected
    /\ UNCHANGED <<currentTerm, votedFor, log, commitIndex, applied, status, startVars>>

\* NewNode and Start, up to the loop of applyCommitted: the persisted state is read
\* back. The RPC handlers are reachable only once Start has returned.
Restart(n) ==
    /\ ~up[n] /\ ~starting[n]
    /\ starting' = [starting EXCEPT ![n] = TRUE]
    /\ replayed' = [replayed EXCEPT ![n] = lastApplied[n]]
    /\ NoneCollected
    /\ UNCHANGED <<stable, up, roleVars, leaderVars, loopVars, ballots, appends, pending, applied,
                   status, redone, crashes>>

\* applyCommitted, one turn: lastApplied moves in memory only.
ReplayEntry(n) ==
    LET i == replayed[n] + 1
    IN  /\ starting[n] /\ i <= commitIndex[n] /\ log[n][i] # Nil
        /\ GiveToApply(n, i, log[n][i])
        /\ replayed' = [replayed EXCEPT ![n] = i]
        /\ NoneCollected
        /\ UNCHANGED <<stable, up, roleVars, leaderVars, loopVars, ballots, appends, pending,
                       status, starting, redone, crashes>>

\* The end of applyCommitted: lastApplied is saved, and the run loop starts.
FinishStart(n) ==
    /\ starting[n] /\ replayed[n] >= commitIndex[n]
    /\ lastApplied' = [lastApplied EXCEPT ![n] = replayed[n]]
    /\ up' = [up EXCEPT ![n] = TRUE]
    /\ electionTimer' = [electionTimer EXCEPT ![n] = TRUE]
    /\ starting' = [starting EXCEPT ![n] = FALSE]
    /\ replayed' = [replayed EXCEPT ![n] = 0]
    /\ NoneCollected
    /\ UNCHANGED <<currentTerm, votedFor, log, commitIndex, state, leaderID, heartbeatTicker,
                   leaderVars, loopVars, ballots, appends, pending, applied, status, redone,
                   crashes>>

\* What has been replayed and is not saved.
Unsaved(n) == (lastApplied[n] + 1)..replayed[n]

\* Start does not finish: the process dies, or an entry is missing or its Apply returns
\* an error, which ends the program. What was replayed will be replayed again.
FailStart(n) ==
    /\ starting[n] /\ crashes < MaxCrash
    /\ crashes' = crashes + 1
    /\ starting' = [starting EXCEPT ![n] = FALSE]
    /\ replayed' = [replayed EXCEPT ![n] = 0]
    /\ redone' = [redone EXCEPT ![n] = @ \cup Unsaved(n)]
    /\ NoneCollected
    /\ UNCHANGED <<stable, up, roleVars, leaderVars, loopVars, ballots, appends, pending, applied,
                   status>>

-----------------------------------------------------------------------------
Election(n) ==
    \/ StartPreVote(n) \/ ElectAlone(n) \/ StartVote(n) \/ PreVoteFail(n)
    \/ LoseElection(n) \/ BecomeLeader(n) \/ AppendNoOp(n)

Ballot(b) ==
    \/ HandlePreVote(b) \/ RejectVote(b) \/ HandleVote(b)
    \/ PreVoteReply(b) \/ VoteReply(b) \/ FailBallot(b)

Replication(a) ==
    \/ Replicate(a) \/ RejectAppend(a) \/ MismatchAppend(a) \/ AcceptAppend(a)
    \/ StepDown(a) \/ ReplicateOk(a) \/ ReplicateRefused(a) \/ ReplicateIgnored(a)
    \/ FailAppend(a)

Life(n) == Crash(n) \/ Restart(n) \/ ReplayEntry(n) \/ FinishStart(n) \/ FailStart(n)

Next ==
    \/ \E n \in Node : \/ Election(n) \/ Apply(n) \/ TakeProposal(n) \/ AppendProposal(n)
                       \/ Tick(n) \/ CheckBeat(n) \/ SpawnReplicators(n) \/ Life(n)
    \/ \E n \in Node, c \in Cmd : Propose(n, c)
    \/ \E b \in ballots : Ballot(b)
    \/ \E a \in appends : Replication(a)
    \/ DropOrphan

Spec == Init /\ [][Next]_vars
=============================================================================
