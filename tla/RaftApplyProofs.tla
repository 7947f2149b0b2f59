-------------------------- MODULE RaftApplyProofs --------------------------
(***************************************************************************)
(* Applying and answering, whoever stands for election: no index reaches a *)
(* state machine twice, but for those that an unfinished start had already *)
(* replayed, and no proposal is answered twice. The argument:              *)
(* collectApplyOps moves lastApplied past what it takes in the critical    *)
(* section that takes it, so what is applied or on its way lies behind     *)
(* lastApplied and what is taken next lies beyond it; a start begins at    *)
(* the copy of lastApplied on disk, behind which lies all that was applied *)
(* but what a start before it replayed; and each step moves a command from *)
(* one place to the next, leaving nothing behind.                          *)
(***************************************************************************)
EXTENDS RaftProofs

USE BoundAssumption DEF BoundAssumption

-----------------------------------------------------------------------------
(* Which steps matter.                                                     *)

\* No command, operation or applied entry moves; a run loop may drop a command it
\* has dealt with, and that of a node that is down does not start.
Plain ==
    /\ UNCHANGED <<up, queue, proposals, pending, applied, lastApplied, commitIndex, status,
                   starting, replayed, redone>>
    /\ NoneCollected \/ UNCHANGED collected
    /\ \A n \in Node : /\ loop'[n].cmd \in {loop[n].cmd, Nil}
                       /\ ~up[n] => loop'[n].pc = "idle"

\* All of the steps but these are plain.
LEMMA PlainSteps ==
    ASSUME TypeOK, AppliedBehind, [Next]_vars
    PROVE  \/ Plain
           \/ \E n \in Node : \/ AppendNoOp(n) \/ AppendProposal(n) \/ TakeProposal(n)
                              \/ Apply(n) \/ Life(n)
           \/ \E n \in Node, c \in Cmd : Propose(n, c)
           \/ \E a \in appends : AcceptAppend(a) \/ ReplicateOk(a)
<1> USE DEF stable, roleVars, leaderVars, loopVars, startVars, applyVars
<1>a. /\ loop \in [Node -> LoopStates]
      /\ \A n \in Node : ~up[n] => loop[n].pc = "idle"
    BY DEF TypeOK, LoopType, AppliedBehind, DownBehind
<1>b. ASSUME NEW n \in Node, NEW new, loop' = [loop EXCEPT ![n] = new],
             new.cmd = Nil, up[n] \/ new.pc = "idle"
      PROVE  \A m \in Node : /\ loop'[m].cmd \in {loop[m].cmd, Nil}
                             /\ ~up[m] => loop'[m].pc = "idle"
    BY <1>a, <1>b
<1>c. /\ Idle.cmd = Nil /\ Idle.pc = "idle"
      /\ \A n, kind : Collecting(n, kind).cmd = Nil
      /\ \A pc, last : Doing(pc, last, Nil).cmd = Nil
    BY DEF Idle, Doing, Collecting
<1>d. ASSUME UNCHANGED loop
      PROVE  \A m \in Node : /\ loop'[m].cmd \in {loop[m].cmd, Nil}
                             /\ ~up[m] => loop'[m].pc = "idle"
    BY <1>a, <1>d
<1>1. ASSUME NEW n \in Node, StartPreVote(n) PROVE Plain
    BY <1>1, <1>b, <1>c DEF StartPreVote, Ready, Plain
<1>2. ASSUME NEW n \in Node, ElectAlone(n) PROVE Plain
    BY <1>2, <1>b, <1>c DEF ElectAlone, Ready, Plain
<1>3. ASSUME NEW n \in Node, StartVote(n) PROVE Plain
  <2>1. up[n]
      BY <1>3, <1>a DEF StartVote
  <2> QED BY <1>3, <1>b, <1>c, <2>1 DEF StartVote, Plain
<1>4. ASSUME NEW n \in Node, PreVoteFail(n) PROVE Plain
    BY <1>4, <1>b, <1>c DEF PreVoteFail, Plain
<1>5. ASSUME NEW n \in Node, LoseElection(n) PROVE Plain
    BY <1>5, <1>b, <1>c DEF LoseElection, Plain
<1>6. ASSUME NEW n \in Node, BecomeLeader(n) PROVE Plain
  <2>1. up[n]
      BY <1>6, <1>a DEF BecomeLeader
  <2>2. \/ loop' = [loop EXCEPT ![n] = Idle]
        \/ loop' = [loop EXCEPT ![n] = Doing("noop", LastIndex(log[n]), Nil)]
      BY <1>6 DEF BecomeLeader
  <2>3. \A m \in Node : /\ loop'[m].cmd \in {loop[m].cmd, Nil}
                        /\ ~up[m] => loop'[m].pc = "idle"
      BY <1>b, <1>c, <2>1, <2>2
  <2> QED BY <1>6, <2>3 DEF BecomeLeader, Plain
<1>7. ASSUME NEW n \in Node, Tick(n) PROVE Plain
    BY <1>7, <1>b, <1>c DEF Tick, Ready, Plain
<1>8. ASSUME NEW n \in Node, CheckBeat(n) PROVE Plain
    BY <1>8, <1>d DEF CheckBeat, Plain
<1>9. ASSUME NEW n \in Node, SpawnReplicators(n) PROVE Plain
  <2>1. loop' = loop \/ loop' = [loop EXCEPT ![n] = Idle]
      BY <1>9 DEF SpawnReplicators
  <2>2. \A m \in Node : /\ loop'[m].cmd \in {loop[m].cmd, Nil}
                        /\ ~up[m] => loop'[m].pc = "idle"
      BY <1>b, <1>c, <1>d, <2>1
  <2> QED BY <1>9, <2>2 DEF SpawnReplicators, Plain
<1>10. ASSUME NEW b \in ballots, HandlePreVote(b) \/ RejectVote(b) \/ HandleVote(b)
       PROVE  Plain
    BY <1>10, <1>d DEF HandlePreVote, RejectVote, HandleVote, Plain
<1>11. ASSUME NEW b \in ballots, NEW yes, Collect(b, yes)
       PROVE  \A n \in Node : loop'[n].pc = loop[n].pc /\ loop'[n].cmd = loop[n].cmd
    BY <1>11, <1>a DEF Collect, LoopStates
<1>12. ASSUME NEW b \in ballots, PreVoteReply(b) \/ VoteReply(b) \/ FailBallot(b)
       PROVE  Plain
  <2>1. \A n \in Node : loop'[n].pc = loop[n].pc /\ loop'[n].cmd = loop[n].cmd
      BY <1>11, <1>12 DEF PreVoteReply, VoteReply, FailBallot
  <2> QED BY <1>12, <1>a, <2>1 DEF PreVoteReply, VoteReply, FailBallot, Plain
<1>13. ASSUME NEW a \in appends, Replicate(a) \/ RejectAppend(a) \/ MismatchAppend(a)
       PROVE  Plain
    BY <1>13, <1>d DEF Replicate, RejectAppend, MismatchAppend, Plain
<1>14. ASSUME NEW a \in appends, \/ StepDown(a) \/ ReplicateRefused(a)
                                 \/ ReplicateIgnored(a) \/ FailAppend(a)
       PROVE  Plain
    BY <1>14, <1>d DEF StepDown, ReplicateRefused, ReplicateIgnored, FailAppend, Plain
<1>15. ASSUME DropOrphan PROVE Plain
    BY <1>15, <1>d DEF DropOrphan, Plain
<1>16. ASSUME UNCHANGED vars PROVE Plain
    BY <1>16, <1>d DEF Plain, vars
<1> QED BY <1>1, <1>2, <1>3, <1>4, <1>5, <1>6, <1>7, <1>8, <1>9, <1>10, <1>12, <1>13, <1>14,
           <1>15, <1>16
        DEF Next, Election, Ballot, Replication

-----------------------------------------------------------------------------
(* Nothing is applied twice, but what a start could not save.              *)

\* The entries given to Apply, s, carry different indices but for those in R.
Distinct(s, R) == \A j, k \in DOMAIN s : s[j].index = s[k].index => j = k \/ s[j].index \in R

Indices(s) == {s[k].index : k \in DOMAIN s}

\* AppliedAtMostOnce of one node, and all that is known of it.
Once(n) ==
    /\ Distinct(applied[n], redone[n])
    /\ \A op \in pending[n] : op.index \notin Indices(applied[n])
    /\ \A o, p \in pending[n] : o.index = p.index => o = p

Behind(n) == UpBehind(n) /\ DownBehind(n) /\ Once(n)

\* The two parts of the invariant, node by node.
LEMMA BehindEach == AppliedBehind /\ AppliedAtMostOnce <=> \A n \in Node : Behind(n)
BY DEF AppliedBehind, AppliedAtMostOnce, Behind, Once, Distinct, Indices, AppliedIndices

\* The same of the next state.
LEMMA BehindEachNext == (AppliedBehind /\ AppliedAtMostOnce <=> \A n \in Node : Behind(n))'
BY BehindEach, PTL

\* What a node keeps, with its type.
LEMMA ApplyTypes ==
    ASSUME TypeOK, NEW n \in Node
    PROVE  /\ applied[n] \in Seq(Done) /\ Indices(applied[n]) \subseteq Index
           /\ AppliedIndices(n) = Indices(applied[n])
           /\ pending[n] \subseteq Operation /\ redone[n] \subseteq Index
           /\ collected[n] \subseteq Index
           /\ lastApplied[n] \in 0..MaxLog /\ commitIndex[n] \in 0..MaxLog
           /\ replayed[n] \in 0..MaxLog
<1>1. applied[n] \in Seq(Done)
    BY DEF TypeOK, ApplyType, Done
<1>2. \A k \in DOMAIN applied[n] : applied[n][k] \in Done
    BY <1>1, LenProperties
<1>3. Indices(applied[n]) \subseteq Index
    BY <1>2 DEF Indices, Done
<1> QED BY <1>1, <1>3 DEF TypeOK, ApplyType, StableType, AppliedIndices, Indices

\* GiveToApply adds at most one index, which is new or excepted.
LEMMA GiveFacts ==
    ASSUME TypeOK, NEW n \in Node, NEW i \in Index, NEW e \in Entry, GiveToApply(n, i, e),
           NEW R, Distinct(applied[n], R), i \notin Indices(applied[n]) \/ i \in R
    PROVE  /\ \A m \in Node \ {n} : applied'[m] = applied[m]
           /\ Distinct(applied'[n], R)
           /\ Indices(applied'[n]) \subseteq Indices(applied[n]) \cup {i}
<1> DEFINE s == applied[n]
           d == [index |-> i, entry |-> e]
           new == Append(s, d)
<1>a. s \in Seq(Done) /\ d \in Done /\ applied \in [Node -> Seq(Done)]
    BY ApplyTypes DEF Done, TypeOK, ApplyType
<1>1. /\ Len(s) \in Nat /\ DOMAIN s = 1..Len(s)
      /\ DOMAIN new = 1..(Len(s) + 1)
      /\ \A k \in 1..Len(s) : new[k] = s[k]
      /\ new[Len(s) + 1] = d
    BY <1>a, AppendProperties, LenProperties
<1>2. d.index = i
    OBVIOUS
<1> HIDE DEF new, d
<1>3. Indices(new) \subseteq Indices(s) \cup {i}
  <2>1. \A k \in DOMAIN new : new[k].index \in Indices(s) \cup {i}
      BY <1>1, <1>2 DEF Indices
  <2> QED BY <2>1 DEF Indices
<1>4. Distinct(new, R)
  <2> SUFFICES ASSUME NEW j \in DOMAIN new, NEW k \in DOMAIN new, new[j].index = new[k].index
               PROVE  j = k \/ new[j].index \in R
      BY DEF Distinct
  <2>1. \A x \in 1..Len(s) : new[x].index \in Indices(s)
      BY <1>1 DEF Indices
  <2>2. CASE j \in 1..Len(s) /\ k \in 1..Len(s)
      BY <1>1, <2>2 DEF Distinct
  <2>3. CASE j = Len(s) + 1 \/ k = Len(s) + 1
      BY <1>1, <1>2, <2>1, <2>3
  <2> QED BY <1>1, <2>2, <2>3
<1>5. applied' = applied \/ applied' = [applied EXCEPT ![n] = new]
    BY DEF GiveToApply, new, d
<1> QED BY <1>a, <1>3, <1>4, <1>5

\* Nothing happens at node n that concerns applying.
Still(n) ==
    /\ applied'[n] = applied[n] /\ redone'[n] = redone[n] /\ pending'[n] = pending[n]
    /\ lastApplied'[n] = lastApplied[n]
    /\ up'[n] = up[n] /\ starting'[n] = starting[n] /\ replayed'[n] = replayed[n]
    /\ collected'[n] = {} \/ collected'[n] = collected[n]
    /\ ~up[n] => loop'[n].pc = "idle" /\ commitIndex'[n] = commitIndex[n]

\* ... and what is known of the node stays so.
LEMMA StillBehind ==
    ASSUME NEW n \in Node, Behind(n), Still(n)
    PROVE  Behind(n)'
<1>1. AppliedIndices(n)' = AppliedIndices(n)
    BY DEF AppliedIndices, Still
<1>2. UpBehind(n)'
    BY <1>1 DEF Behind, UpBehind, Still
<1>3. DownBehind(n)'
    BY <1>1 DEF Behind, DownBehind, Still
<1>4. Once(n)'
    BY DEF Behind, Once, Still
<1> QED BY <1>2, <1>3, <1>4 DEF Behind

\* collectApplyOps takes indices beyond all it took before.
LEMMA CollectBehind ==
    ASSUME TypeOK, NEW n \in Node, Behind(n),
           NEW l \in Logs, NEW k \in 0..MaxLog, NEW props,
           CollectApplyOps(n, l, k, props), up[n],
           UNCHANGED <<applied, redone, up, starting, replayed>>
    PROVE  Behind(n)'
<1> DEFINE first == FirstUnapplied(n)
           last == AppliedTo(n, l, k)
           ops == {[index |-> i, entry |-> l[i], cmd |-> props[i], batch |-> first] :
                      i \in first..last}
<1>a. /\ pending \in [Node -> SUBSET Operation] /\ lastApplied \in [Node -> 0..MaxLog]
    BY DEF TypeOK, ApplyType, StableType
<1>1. /\ last \in Nat /\ lastApplied[n] <= last /\ first = lastApplied[n] + 1
      /\ \A i \in first..last : i \in Nat /\ lastApplied[n] < i /\ i <= last
    BY <1>a, CollectApplyFacts DEF FirstUnapplied
<1>2. /\ lastApplied' = [lastApplied EXCEPT ![n] = last]
      /\ pending' = [pending EXCEPT ![n] = @ \cup ops]
      /\ collected' = [m \in Node |-> IF m = n THEN first..last ELSE {}]
    BY DEF CollectApplyOps
<1>3. /\ \A op \in ops : op.index \in Nat /\ lastApplied[n] < op.index /\ op.index <= last
      /\ \A o, p \in ops : o.index = p.index => o = p
    BY <1>1
<1>4. pending'[n] = pending[n] \cup ops /\ lastApplied'[n] = last /\ collected'[n] = first..last
    BY <1>a, <1>2
<1> HIDE DEF first, last, ops
<1>5. \A i \in AppliedIndices(n) \cup redone[n] : i \in Nat /\ i <= lastApplied[n]
    BY ApplyTypes DEF Behind, UpBehind, Index
<1>6. \A op \in pending[n] : op.index \in Nat /\ op.index <= lastApplied[n]
    BY <1>a DEF Behind, UpBehind, Operation, Index
<1>7. AppliedIndices(n)' = AppliedIndices(n) /\ AppliedIndices(n) = Indices(applied[n])
    BY DEF AppliedIndices, Indices
<1>8. UpBehind(n)'
  <2>1. \A i \in AppliedIndices(n) \cup redone[n] : i <= last
      BY <1>a, <1>1, <1>5
  <2>2. \A op \in pending[n] \cup ops : op.index <= last
      BY <1>a, <1>1, <1>3, <1>6
  <2>3. \A i \in first..last, j \in AppliedIndices(n) \cup redone[n] : j < i
      BY <1>a, <1>1, <1>5
  <2> QED BY <1>4, <1>7, <2>1, <2>2, <2>3 DEF Behind, UpBehind
<1>9. DownBehind(n)'
    BY DEF DownBehind
<1>10. Once(n)'
  <2>1. \A op \in ops : op.index \notin Indices(applied[n])
      BY <1>a, <1>3, <1>5, <1>7
  <2>2. \A op \in ops, p \in pending[n] : op.index # p.index
      BY <1>a, <1>3, <1>6
  <2> QED BY <1>3, <1>4, <2>1, <2>2 DEF Behind, Once
<1> QED BY <1>8, <1>9, <1>10 DEF Behind

\* doApply gives one operation to Apply.
LEMMA ApplyBehind ==
    ASSUME TypeOK, NEW n \in Node, Behind(n), Apply(n)
    PROVE  Behind(n)' /\ \A m \in Node \ {n} : Still(m) \/ ~Behind(m)
<1> USE DEF stable, startVars, loopVars
<1>1. PICK op \in pending[n] :
          pending' = [pending EXCEPT ![n] = @ \ {op}] /\ GiveToApply(n, op.index, op.entry)
    BY DEF Apply
<1>2. /\ UNCHANGED <<lastApplied, commitIndex, up, loop, starting, replayed, redone>>
      /\ NoneCollected
    BY DEF Apply
<1>3. op.index \in Index /\ op.entry \in Entry /\ pending \in [Node -> SUBSET Operation]
    BY <1>1 DEF TypeOK, ApplyType, Operation
<1>4. /\ \A m \in Node \ {n} : applied'[m] = applied[m]
      /\ Distinct(applied'[n], redone[n])
      /\ Indices(applied'[n]) \subseteq Indices(applied[n]) \cup {op.index}
    BY <1>1, <1>3, GiveFacts DEF Behind, Once
<1>5. /\ pending'[n] = pending[n] \ {op} /\ \A m \in Node \ {n} : pending'[m] = pending[m]
      /\ \A m \in Node : collected'[m] = {}
    BY <1>1, <1>2, <1>3 DEF NoneCollected
<1>6. up[n]
    BY <1>1 DEF Behind, DownBehind
<1>7. AppliedIndices(n)' = Indices(applied'[n]) /\ AppliedIndices(n) = Indices(applied[n])
    BY DEF AppliedIndices, Indices
<1>8. UpBehind(n)'
  <2>1. op.index <= lastApplied[n]
      BY <1>1 DEF Behind, UpBehind
  <2> QED BY <1>2, <1>4, <1>5, <1>6, <1>7, <2>1 DEF Behind, UpBehind
<1>9. DownBehind(n)'
    BY <1>2, <1>6 DEF DownBehind
<1>10. Once(n)'
    BY <1>1, <1>2, <1>4, <1>5 DEF Behind, Once
<1>11. \A m \in Node \ {n} : Behind(m) => Still(m)
    BY <1>2, <1>4, <1>5 DEF Still, Behind, DownBehind
<1> QED BY <1>8, <1>9, <1>10, <1>11 DEF Behind

\* What a crash finds on disk is no less than what was applied.
LEMMA CrashBehind ==
    ASSUME TypeOK, NEW n \in Node, Behind(n), Crash(n)
    PROVE  Behind(n)' /\ \A m \in Node \ {n} : Still(m) \/ ~Behind(m)
<1> USE DEF stable, startVars
<1>1. PICK saved \in SavedApplied(n) : lastApplied' = [lastApplied EXCEPT ![n] = saved]
    BY DEF Crash
<1>2. /\ up[n] /\ UNCHANGED <<applied, commitIndex, starting, replayed, redone>>
      /\ NoneCollected
      /\ up' = [up EXCEPT ![n] = FALSE] /\ loop' = [loop EXCEPT ![n] = Idle]
      /\ pending' = [pending EXCEPT ![n] = {}]
    BY DEF Crash
<1>3. /\ up \in [Node -> BOOLEAN] /\ loop \in [Node -> LoopStates]
      /\ pending \in [Node -> SUBSET Operation] /\ lastApplied \in [Node -> 0..MaxLog]
    BY DEF TypeOK, RoleType, LoopType, ApplyType, StableType
<1>4. /\ ~up'[n] /\ loop'[n].pc = "idle" /\ pending'[n] = {} /\ lastApplied'[n] = saved
      /\ \A m \in Node : collected'[m] = {}
    BY <1>1, <1>2, <1>3 DEF NoneCollected, Idle, Doing
<1>5. saved \in Nat /\ \A i \in AppliedIndices(n) \cup redone[n] : i <= saved
  <2>1. \A i \in AppliedIndices(n) \cup redone[n] : i \in Nat
      BY ApplyTypes DEF Index
  <2>2. CASE saved = lastApplied[n]
      BY <1>2, <1>3, <2>2 DEF Behind, UpBehind
  <2>3. CASE saved \in 0..MaxLog /\ saved + 1 \in collected[n]
    <3>1. \A j \in AppliedIndices(n) \cup redone[n] : j < saved + 1
        BY <2>3 DEF Behind, UpBehind
    <3> QED BY <2>1, <2>3, <3>1
  <2> QED BY <1>1, <2>2, <2>3 DEF SavedApplied
<1>6. AppliedIndices(n)' = AppliedIndices(n)
    BY <1>2 DEF AppliedIndices
<1>7. UpBehind(n)'
    BY <1>4 DEF UpBehind
<1>8. DownBehind(n)'
  <2>1. ~starting'[n] /\ replayed'[n] = 0
      BY <1>2 DEF Behind, UpBehind
  <2> QED BY <1>2, <1>4, <1>5, <1>6, <2>1 DEF DownBehind
<1>9. Once(n)'
    BY <1>2, <1>4 DEF Behind, Once
<1>10. \A m \in Node \ {n} : Behind(m) => Still(m)
    BY <1>1, <1>2, <1>3, <1>4 DEF Still, Behind, DownBehind
<1> QED BY <1>7, <1>8, <1>9, <1>10 DEF Behind

\* A start replays from lastApplied on disk and saves where it ends; if it does not end,
\* what it replayed counts as redone.
LEMMA StartBehind ==
    ASSUME TypeOK, NEW n \in Node, Behind(n),
           Restart(n) \/ ReplayEntry(n) \/ FinishStart(n) \/ FailStart(n)
    PROVE  Behind(n)' /\ \A m \in Node \ {n} : Still(m) \/ ~Behind(m)
<1> USE DEF stable, loopVars
<1>a. /\ up \in [Node -> BOOLEAN] /\ lastApplied \in [Node -> 0..MaxLog]
      /\ starting \in [Node -> BOOLEAN] /\ replayed \in [Node -> 0..MaxLog]
      /\ redone \in [Node -> SUBSET Index] /\ log \in [Node -> Logs]
      /\ commitIndex \in [Node -> 0..MaxLog] /\ applied \in [Node -> Seq(Done)]
    BY DEF TypeOK, RoleType, ApplyType, StableType, Logs, Done
<1>b. /\ ~up[n] /\ pending[n] = {} /\ loop[n].pc = "idle"
      /\ UNCHANGED <<pending, loop, commitIndex>>
      /\ \A m \in Node : collected'[m] = {}
    BY DEF Restart, ReplayEntry, FinishStart, FailStart, Behind, UpBehind, DownBehind,
           NoneCollected
<1>c. /\ AppliedIndices(n) = Indices(applied[n]) /\ AppliedIndices(n)' = Indices(applied'[n])
      /\ Indices(applied[n]) \subseteq Nat /\ redone[n] \subseteq Nat
    BY ApplyTypes DEF AppliedIndices, Indices, Index
<1>1. CASE Restart(n)
  <2>1. /\ UNCHANGED <<up, applied, lastApplied, redone>>
        /\ starting' = [starting EXCEPT ![n] = TRUE]
        /\ replayed' = [replayed EXCEPT ![n] = lastApplied[n]]
        /\ ~starting[n]
      BY <1>1 DEF Restart
  <2>2. UpBehind(n)'
      BY <1>b, <2>1 DEF UpBehind
  <2>3. DownBehind(n)'
      BY <1>a, <1>b, <1>c, <2>1 DEF Behind, DownBehind
  <2>4. Once(n)'
      BY <1>b, <2>1 DEF Behind, Once
  <2>5. \A m \in Node \ {n} : Behind(m) => Still(m)
      BY <1>a, <1>b, <2>1 DEF Still, Behind, DownBehind
  <2> QED BY <2>2, <2>3, <2>4, <2>5 DEF Behind
<1>2. CASE ReplayEntry(n)
  <2> DEFINE i == replayed[n] + 1
  <2>1. /\ UNCHANGED <<up, lastApplied, redone, starting>>
        /\ replayed' = [replayed EXCEPT ![n] = i]
        /\ starting[n] /\ i <= commitIndex[n] /\ log[n][i] # Nil
        /\ GiveToApply(n, i, log[n][i])
      BY <1>2 DEF ReplayEntry, startVars
  <2>2. i \in Index /\ log[n][i] \in Entry
      BY <1>a, <2>1 DEF Index, Logs
  <2>3. i \notin Indices(applied[n]) \/ i \in redone[n]
    <3>1. lastApplied[n] <= replayed[n]
        BY <1>b, <2>1 DEF Behind, DownBehind
    <3>2. \A j \in Indices(applied[n]) :
              j <= lastApplied[n] \/ j \in redone[n] \/ j <= replayed[n]
        BY <1>b, <1>c DEF Behind, DownBehind
    <3>3. /\ lastApplied[n] \in Nat /\ replayed[n] \in Nat
          /\ \A j \in Nat : j <= lastApplied[n] \/ j <= replayed[n] => j # replayed[n] + 1
        BY <1>a, <3>1
    <3> QED BY <1>c, <3>2, <3>3
  <2>4. /\ \A m \in Node \ {n} : applied'[m] = applied[m]
        /\ Distinct(applied'[n], redone[n])
        /\ Indices(applied'[n]) \subseteq Indices(applied[n]) \cup {i}
      BY <2>1, <2>2, <2>3, GiveFacts DEF Behind, Once
  <2>5. i \in Nat /\ replayed[n] < i /\ replayed'[n] = i
      BY <1>a, <2>1
  <2> HIDE DEF i
  <2>6. UpBehind(n)'
      BY <1>b, <2>1 DEF UpBehind
  <2>7. DownBehind(n)'
    <3>1. \A j \in Indices(applied'[n]) : \/ j <= lastApplied[n] \/ j \in redone[n] \/ j <= i
        BY <1>a, <1>b, <1>c, <2>4, <2>5 DEF Behind, DownBehind
    <3>2. lastApplied[n] <= i
        BY <1>a, <1>b, <2>1, <2>5 DEF Behind, DownBehind
    <3> QED BY <1>b, <1>c, <2>1, <2>5, <3>1, <3>2 DEF Behind, DownBehind
  <2>8. Once(n)'
      BY <1>b, <2>1, <2>4 DEF Once
  <2>9. \A m \in Node \ {n} : Behind(m) => Still(m)
      BY <1>a, <1>b, <2>1, <2>4 DEF Still, Behind, DownBehind
  <2> QED BY <2>6, <2>7, <2>8, <2>9 DEF Behind
<1>3. CASE FinishStart(n)
  <2>1. /\ UNCHANGED <<applied, redone>> /\ starting[n] /\ replayed[n] >= commitIndex[n]
        /\ lastApplied' = [lastApplied EXCEPT ![n] = replayed[n]]
        /\ up' = [up EXCEPT ![n] = TRUE]
        /\ starting' = [starting EXCEPT ![n] = FALSE]
        /\ replayed' = [replayed EXCEPT ![n] = 0]
      BY <1>3 DEF FinishStart
  <2>2. lastApplied[n] <= replayed[n]
      BY <1>b, <2>1 DEF Behind, DownBehind
  <2>3. \A j \in redone[n] : j <= replayed[n]
    <3>1. \A j \in redone[n] : j <= lastApplied[n] \/ j <= commitIndex[n]
        BY <1>b DEF Behind, DownBehind
    <3> QED BY <1>a, <1>c, <2>1, <2>2, <3>1
  <2>4. \A j \in AppliedIndices(n) : j <= replayed[n]
    <3>1. \A j \in AppliedIndices(n) : j <= lastApplied[n] \/ j \in redone[n] \/ j <= replayed[n]
        BY <1>b DEF Behind, DownBehind
    <3> QED BY <1>a, <1>c, <2>2, <2>3, <3>1
  <2>5. UpBehind(n)'
      BY <1>a, <1>b, <1>c, <2>1, <2>3, <2>4 DEF UpBehind
  <2>6. DownBehind(n)'
      BY <1>a, <2>1 DEF DownBehind
  <2>7. Once(n)'
      BY <1>b, <2>1 DEF Behind, Once
  <2>8. \A m \in Node \ {n} : Behind(m) => Still(m)
      BY <1>a, <1>b, <2>1 DEF Still, Behind, DownBehind
  <2> QED BY <2>5, <2>6, <2>7, <2>8 DEF Behind
<1>4. CASE FailStart(n)
  <2>1. /\ UNCHANGED <<up, applied, lastApplied>> /\ starting[n]
        /\ redone' = [redone EXCEPT ![n] = @ \cup Unsaved(n)]
        /\ starting' = [starting EXCEPT ![n] = FALSE]
        /\ replayed' = [replayed EXCEPT ![n] = 0]
      BY <1>4 DEF FailStart
  <2>2. /\ redone'[n] = redone[n] \cup Unsaved(n) /\ ~starting'[n] /\ replayed'[n] = 0
        /\ \A m \in Node \ {n} : redone'[m] = redone[m]
      BY <1>a, <2>1
  <2>3. \A j \in Nat : j \in Unsaved(n) <=> lastApplied[n] < j /\ j <= replayed[n]
      BY <1>a DEF Unsaved
  <2>4. Unsaved(n) \subseteq Nat
      BY <1>a DEF Unsaved
  <2>5. UpBehind(n)'
      BY <1>b, <2>1 DEF UpBehind
  <2>6. DownBehind(n)'
    <3>1. \A j \in AppliedIndices(n) : j <= lastApplied[n] \/ j \in redone'[n]
        BY <1>a, <1>b, <1>c, <2>2, <2>3 DEF Behind, DownBehind
    <3>2. \A j \in redone'[n] : j <= lastApplied[n] \/ j <= commitIndex[n]
      <4>1. \A j \in Unsaved(n) : j <= lastApplied[n] \/ j <= commitIndex[n]
        <5>1. replayed[n] <= lastApplied[n] \/ replayed[n] <= commitIndex[n]
            BY <1>b DEF Behind, DownBehind
        <5> QED BY <1>a, <2>3, <2>4, <5>1
      <4> QED BY <1>b, <2>2, <4>1 DEF Behind, DownBehind
    <3> QED BY <1>a, <1>b, <1>c, <2>1, <2>2, <3>1, <3>2 DEF DownBehind
  <2>7. Once(n)'
      BY <1>b, <2>1, <2>2 DEF Behind, Once, Distinct
  <2>8. \A m \in Node \ {n} : Behind(m) => Still(m)
      BY <1>a, <1>b, <2>1, <2>2 DEF Still, Behind, DownBehind
  <2> QED BY <2>5, <2>6, <2>7, <2>8 DEF Behind
<1> QED BY <1>1, <1>2, <1>3, <1>4

\* The invariant's part about applying survives every step.
LEMMA AppliedStep ==
    ASSUME TypeOK, AppliedBehind, AppliedAtMostOnce, [Next]_vars
    PROVE  AppliedBehind' /\ AppliedAtMostOnce'
<1> USE DEF stable, roleVars, leaderVars, loopVars, startVars, applyVars
<1> SUFFICES \A n \in Node : Behind(n)'
    BY BehindEachNext
<1>a. /\ loop \in [Node -> LoopStates] /\ log \in [Node -> Logs]
      /\ pending \in [Node -> SUBSET Operation] /\ lastApplied \in [Node -> 0..MaxLog]
      /\ commitIndex \in [Node -> 0..MaxLog]
    BY DEF TypeOK, LoopType, ApplyType, StableType, Logs
<1>b. \A n \in Node : Behind(n)
    BY BehindEach
<1>c. \A n \in Node : ~up[n] => loop[n].pc = "idle" /\ pending[n] = {}
    BY DEF AppliedBehind, DownBehind
<1>1. CASE Plain
  <2>1. \A n \in Node : Still(n)
      BY <1>1 DEF Plain, Still, NoneCollected
  <2> QED BY <1>b, <2>1, StillBehind
<1>d. ASSUME NEW n \in Node, NEW l \in Logs, NEW k \in 0..MaxLog, NEW props,
             CollectApplyOps(n, l, k, props), up[n],
             UNCHANGED <<applied, redone, up, starting, replayed>>,
             \A m \in Node \ {n} : loop'[m] = loop[m] /\ commitIndex'[m] = commitIndex[m]
      PROVE  \A m \in Node : Behind(m)'
  <2>1. Behind(n)'
      BY <1>b, <1>d, CollectBehind
  <2>2. \A m \in Node \ {n} : /\ collected'[m] = {} /\ lastApplied'[m] = lastApplied[m]
                              /\ pending'[m] = pending[m]
      BY <1>a, <1>d DEF CollectApplyOps
  <2>3. \A m \in Node \ {n} : Still(m)
      BY <1>c, <1>d, <2>2 DEF Still
  <2> QED BY <1>b, <2>1, <2>3, StillBehind
<1>2. ASSUME NEW n \in Node, AppendNoOp(n) \/ AppendProposal(n)
      PROVE  \A m \in Node : Behind(m)'
  <2>1. up[n]
      BY <1>2, <1>c DEF AppendNoOp, AppendProposal
  <2>2. /\ loop' = [loop EXCEPT ![n] = Idle]
        /\ UNCHANGED <<applied, redone, up, starting, replayed>>
      BY <1>2 DEF AppendNoOp, AppendProposal
  <2>3. PICK l, i, props : l \in Logs /\ i \in 0..MaxLog /\ CommitAlone(n, l, i, props)
    <3>1. CASE AppendNoOp(n)
      <4> DEFINE i == NoOpIndex(n)
                 e == [term |-> currentTerm[n], val |-> NoOp]
      <4>1. e \in Entry
          BY DEF Entry, TypeOK, StableType
      <4>2. i \in 0..MaxLog
          BY <1>a, <3>1 DEF AppendNoOp, NoOpIndex, LoopStates
      <4>3. StoreLog(log[n], i, e) \in Logs
          BY <1>a, <4>1, StoreLogType
      <4> QED BY <3>1, <4>2, <4>3 DEF AppendNoOp
    <3>2. CASE AppendProposal(n)
      <4> DEFINE i == LastIndex(log[n]) + 1
                 e == [term |-> currentTerm[n], val |-> loop[n].cmd]
      <4>1. e \in Entry
          BY <1>a, <3>2 DEF AppendProposal, LoopStates, Entry, TypeOK, StableType
      <4>2. i \in 0..MaxLog
          BY <3>2, LastIndexFacts DEF AppendProposal
      <4>3. StoreLog(log[n], i, e) \in Logs
          BY <1>a, <4>1, StoreLogType
      <4> QED BY <3>2, <4>2, <4>3 DEF AppendProposal
    <3> QED BY <1>2, <3>1, <3>2
  <2>4. \A m \in Node \ {n} : loop'[m] = loop[m] /\ commitIndex'[m] = commitIndex[m]
      BY <1>a, <2>2, <2>3 DEF CommitAlone
  <2>5. CASE CollectApplyOps(n, l, i, props)
      BY <1>d, <2>1, <2>2, <2>3, <2>4, <2>5
  <2>6. CASE NoneCollected /\ UNCHANGED <<lastApplied, pending>>
    <3>1. \A m \in Node : Still(m)
        BY <1>c, <2>1, <2>2, <2>4, <2>6 DEF Still, NoneCollected
    <3> QED BY <1>b, <3>1, StillBehind
  <2> QED BY <2>3, <2>5, <2>6 DEF CommitAlone
<1>3. ASSUME NEW n \in Node, TakeProposal(n) \/ \E c \in Cmd : Propose(n, c)
      PROVE  \A m \in Node : Behind(m)'
  <2>1. /\ up[n] /\ NoneCollected
        /\ UNCHANGED <<applied, lastApplied, commitIndex, pending, up, starting, replayed, redone>>
      BY <1>3 DEF TakeProposal, Propose, Ready
  <2>2. \A m \in Node \ {n} : loop'[m] = loop[m]
      BY <1>3, <1>a DEF TakeProposal, Propose
  <2>3. \A m \in Node : Still(m)
      BY <1>c, <2>1, <2>2 DEF Still, NoneCollected
  <2> QED BY <1>b, <2>3, StillBehind
<1>4. ASSUME NEW n \in Node, Apply(n) \/ Life(n) PROVE \A m \in Node : Behind(m)'
    BY <1>4, <1>b, ApplyBehind, CrashBehind, StartBehind, StillBehind DEF Life
<1>5. ASSUME NEW a \in appends, AcceptAppend(a) PROVE \A m \in Node : Behind(m)'
  <2> DEFINE n == a.to
             l == AppendLoop(log[n], a.entries)
             k == FollowerCommit(a, l)
  <2>1. n \in Node /\ a.entries \in Logs /\ a.commit \in 0..MaxLog
      BY CallFields
  <2>2. l \in Logs /\ k \in 0..MaxLog
      BY <1>a, <2>1, AppendLoopType, FollowerCommitFacts
  <2>3. up[n] /\ UNCHANGED <<applied, up, loop, redone, starting, replayed>>
      BY <1>5 DEF AcceptAppend, AcceptLeader
  <2>4. \/ /\ CollectApplyOps(n, l, k, proposals[n])
           /\ commitIndex' = [commitIndex EXCEPT ![n] = k]
        \/ NoneCollected /\ UNCHANGED <<commitIndex, lastApplied, pending>>
      BY <1>5 DEF AcceptAppend
  <2> HIDE DEF n, l, k
  <2>5. CASE /\ CollectApplyOps(n, l, k, proposals[n])
             /\ commitIndex' = [commitIndex EXCEPT ![n] = k]
      BY <1>a, <1>d, <2>1, <2>2, <2>3, <2>5
  <2>6. CASE NoneCollected /\ UNCHANGED <<commitIndex, lastApplied, pending>>
    <3>1. \A m \in Node : Still(m)
        BY <1>c, <2>3, <2>6 DEF Still, NoneCollected
    <3> QED BY <1>b, <3>1, StillBehind
  <2> QED BY <2>4, <2>5, <2>6
<1>6. ASSUME NEW a \in appends, ReplicateOk(a) PROVE \A m \in Node : Behind(m)'
  <2> DEFINE n == a.from
  <2>1. PICK match : /\ CollectApplyOps(n, log[n], AdvancedCommit(n, match), proposals[n])
                     /\ commitIndex' = [commitIndex EXCEPT ![n] = AdvancedCommit(n, match)]
      BY <1>6 DEF ReplicateOk
  <2>2. n \in Node
      BY CallFields
  <2>3. AdvancedCommit(n, match) \in 0..MaxLog /\ log[n] \in Logs
      BY <1>a, <2>2, AdvancedCommitFacts
  <2>4. up[n] /\ UNCHANGED <<applied, up, loop, redone, starting, replayed>>
      BY <1>6 DEF ReplicateOk, Answered
  <2> HIDE DEF n
  <2> QED BY <1>a, <1>d, <2>1, <2>2, <2>3, <2>4
<1> QED BY <1>1, <1>2, <1>3, <1>4, <1>5, <1>6, PlainSteps

-----------------------------------------------------------------------------
(* Nothing is answered twice.                                              *)

\* Node n keeps command c in the i-th place of a kind.
At(n, kind, i, c) ==
    \/ kind = "queue" /\ i \in DOMAIN queue[n] /\ queue[n][i] = c
    \/ kind = "append" /\ i = 0 /\ loop[n].cmd = c
    \/ kind = "registered" /\ i \in Index /\ proposals[n][i] = c
    \/ kind = "apply" /\ \E op \in pending[n] : op.index = i /\ op.cmd = c

\* Command c is kept in one place at most, and in none but while it is queued.
Kept(c) ==
    /\ \A m, n \in Node : \A k1, k2, i, j :
          At(m, k1, i, c) /\ At(n, k2, j, c) => m = n /\ k1 = k2 /\ i = j
    /\ \A n \in Node : \A kind, i : At(n, kind, i, c) => status[c] = "queued"

\* Places lists exactly where At finds the command.
LEMMA PlacesAt ==
    ASSUME NEW c
    PROVE  /\ \A n \in Node : \A kind, i : At(n, kind, i, c) => <<n, kind, i>> \in Places(c)
           /\ \A p \in Places(c) : \E n \in Node : \E kind, i :
                 p = <<n, kind, i>> /\ At(n, kind, i, c)
<1>1. ASSUME NEW n \in Node, NEW kind, NEW i, At(n, kind, i, c)
      PROVE  <<n, kind, i>> \in Places(c)
  <2>1. CASE kind = "queue" /\ i \in DOMAIN queue[n] /\ queue[n][i] = c
      BY <2>1 DEF Places
  <2>2. CASE kind = "append" /\ i = 0 /\ loop[n].cmd = c
      BY <2>2 DEF Places
  <2>3. CASE kind = "registered" /\ i \in Index /\ proposals[n][i] = c
      BY <2>3 DEF Places
  <2>4. CASE kind = "apply" /\ \E op \in pending[n] : op.index = i /\ op.cmd = c
      BY <2>4 DEF Places
  <2> QED BY <1>1, <2>1, <2>2, <2>3, <2>4 DEF At
<1>2. ASSUME NEW p \in Places(c)
      PROVE  \E n \in Node : \E kind, i : p = <<n, kind, i>> /\ At(n, kind, i, c)
  <2>1. PICK n \in Node :
            \/ \E k \in DOMAIN queue[n] : queue[n][k] = c /\ p = <<n, "queue", k>>
            \/ loop[n].cmd = c /\ p = <<n, "append", 0>>
            \/ \E i \in Index : proposals[n][i] = c /\ p = <<n, "registered", i>>
            \/ \E op \in pending[n] : op.cmd = c /\ p = <<n, "apply", op.index>>
      BY DEF Places
  <2> QED BY <2>1 DEF At
<1> QED BY <1>1, <1>2

\* What OnePlaceEach says of the places, said of the nodes.
LEMMA OnePlaceKept == OnePlaceEach <=> \A c \in Cmd : Kept(c)
<1>1. ASSUME OnePlaceEach, NEW c \in Cmd PROVE Kept(c)
  <2>1. ASSUME NEW m \in Node, NEW n \in Node, NEW k1, NEW k2, NEW i, NEW j,
               At(m, k1, i, c), At(n, k2, j, c)
        PROVE  m = n /\ k1 = k2 /\ i = j
    <3>1. <<m, k1, i>> = <<n, k2, j>>
        BY <1>1, <2>1, PlacesAt DEF OnePlaceEach
    <3> QED BY <3>1
  <2>2. ASSUME NEW n \in Node, NEW kind, NEW i, At(n, kind, i, c) PROVE status[c] = "queued"
      BY <1>1, <2>2, PlacesAt DEF OnePlaceEach
  <2> QED BY <2>1, <2>2 DEF Kept
<1>2. ASSUME NEW c \in Cmd, Kept(c)
      PROVE  (\A p, q \in Places(c) : p = q) /\ (Places(c) # {} => status[c] = "queued")
  <2>1. ASSUME NEW p \in Places(c), NEW q \in Places(c) PROVE p = q
    <3>1. PICK m \in Node : \E k1, i : p = <<m, k1, i>> /\ At(m, k1, i, c)
        BY PlacesAt
    <3>2. PICK n \in Node : \E k2, j : q = <<n, k2, j>> /\ At(n, k2, j, c)
        BY PlacesAt
    <3> QED BY <1>2, <3>1, <3>2 DEF Kept
  <2>2. ASSUME NEW p \in Places(c) PROVE status[c] = "queued"
      BY <1>2, PlacesAt DEF Kept
  <2> QED BY <2>1, <2>2
<1> QED BY <1>1, <1>2 DEF OnePlaceEach

\* The same of the next state.
LEMMA OnePlaceKeptNext == (OnePlaceEach <=> \A c \in Cmd : Kept(c))'
BY OnePlaceKept, PTL

\* A command that goes nowhere stays kept.
LEMMA StayKept ==
    ASSUME NEW c, Kept(c), status'[c] = status[c],
           \A n \in Node : /\ queue'[n] \in {queue[n], << >>}
                           /\ loop'[n].cmd = c => loop[n].cmd = c
                           /\ \A i \in Index : proposals'[n][i] = c => proposals[n][i] = c
                           /\ \A op \in pending'[n] : op.cmd = c => op \in pending[n]
    PROVE  Kept(c)'
<1>1. ASSUME NEW n \in Node, NEW kind, NEW i, At(n, kind, i, c)' PROVE At(n, kind, i, c)
  <2>1. CASE kind = "queue" /\ i \in DOMAIN queue'[n] /\ queue'[n][i] = c
    <3>1. DOMAIN << >> = {}
        OBVIOUS
    <3>2. queue'[n] = queue[n]
        BY <2>1, <3>1
    <3> QED BY <2>1, <3>2 DEF At
  <2>2. CASE kind # "queue"
      BY <1>1, <2>2 DEF At
  <2> QED BY <1>1, <2>1, <2>2 DEF At
<1> QED BY <1>1 DEF Kept

\* At node n nothing but c moves: from the run loop or the proposals map to index new of
\* the map, or to the index in T that collectApplyOps takes.
Moves(n, T, new, c) ==
    /\ UNCHANGED <<queue, status>>
    /\ \A m \in Node : /\ loop'[m].cmd = c => loop[m].cmd = c
                       /\ m # n => proposals'[m] = proposals[m] /\ pending'[m] = pending[m]
    /\ \A i \in Index : proposals'[n][i] = c =>
          /\ i \notin T
          /\ proposals[n][i] = c \/ (i = new /\ loop[n].cmd = c /\ loop'[n].cmd # c)
    /\ \A op \in pending'[n] : op \in pending[n] \/ op.cmd # c \/
          /\ op.index \in T /\ op.index \in Index
          /\ \/ proposals[n][op.index] = c
             \/ op.index = new /\ loop[n].cmd = c /\ loop'[n].cmd # c

\* A command that moves stays kept.
LEMMA MoveKept ==
    ASSUME NEW c, Kept(c), NEW n \in Node, NEW T, NEW new, Moves(n, T, new, c)
    PROVE  Kept(c)'
<1> USE DEF Moves
<1>1. ASSUME NEW m \in Node, NEW kind, NEW i, At(m, kind, i, c)'
      PROVE  \/ At(m, kind, i, c)
             \/ /\ m = n /\ kind = IF i \in T THEN "apply" ELSE "registered"
                /\ \/ At(n, "registered", i, c)
                   \/ i = new /\ At(n, "append", 0, c) /\ loop'[n].cmd # c
  <2>1. CASE m # n
      BY <1>1, <2>1 DEF At
  <2>2. CASE m = n /\ kind \in {"queue", "append"}
      BY <1>1, <2>2 DEF At
  <2>3. CASE m = n /\ kind = "registered" /\ i \in Index /\ proposals'[n][i] = c
      BY <2>3 DEF At
  <2>4. CASE m = n /\ kind = "apply" /\ \E op \in pending'[n] : op.index = i /\ op.cmd = c
      BY <2>4 DEF At
  <2> QED BY <1>1, <2>1, <2>2, <2>3, <2>4 DEF At
<1>2. ASSUME NEW m \in Node, NEW kind, NEW i, At(m, kind, i, c)', kind = "registered", m = n
      PROVE  i \notin T
    BY <1>2 DEF At
<1>3. ASSUME At(n, "append", 0, c)' PROVE loop'[n].cmd = c
    BY <1>3 DEF At
<1>4. \A m \in Node : \A kind, i : At(m, kind, i, c)' => status'[c] = "queued"
    BY <1>1 DEF Kept
<1>5. ASSUME NEW m \in Node, NEW p \in Node, NEW k1, NEW k2, NEW i, NEW j,
             At(m, k1, i, c)', At(p, k2, j, c)'
      PROVE  m = p /\ k1 = k2 /\ i = j
    BY <1>1, <1>2, <1>3, <1>5 DEF Kept
<1> QED BY <1>4, <1>5 DEF Kept
\* props, the map of node n before collectApplyOps clears it, has c where it was, or at
\* new if the run loop puts it there.
Hands(n, props, new, c) ==
    /\ UNCHANGED <<queue, status>>
    /\ \A m \in Node : loop'[m].cmd = c => loop[m].cmd = c
    /\ \A i \in Index : props[i] = c =>
          proposals[n][i] = c \/ (i = new /\ loop[n].cmd = c /\ loop'[n].cmd # c)

\* Committing, or leaving that to the group, keeps a command that waits in the run loop
\* or in the map.
LEMMA CollectKept ==
    ASSUME TypeOK, NEW n \in Node, NEW l \in Logs, NEW k \in 0..MaxLog, NEW props, NEW new,
           CollectApplyOps(n, l, k, props) \/ (/\ proposals' = [proposals EXCEPT ![n] = props]
                                               /\ UNCHANGED pending),
           NEW c \in Cmd, Kept(c), Hands(n, props, new, c)
    PROVE  Kept(c)'
<1> USE DEF Hands
<1>a. /\ pending \in [Node -> SUBSET Operation]
      /\ proposals \in [Node -> [Index -> Cmd \cup {Nil}]]
    BY DEF TypeOK, ApplyType, LeaderType
<1>b. c # Nil
    BY NilAssumption
<1>1. CASE CollectApplyOps(n, l, k, props)
  <2> DEFINE first == FirstUnapplied(n)
             last == AppliedTo(n, l, k)
             T == first..last
             ops == {[index |-> i, entry |-> l[i], cmd |-> props[i], batch |-> first] :
                        i \in first..last}
  <2>1. \A i \in T : i \in Index
      BY CollectApplyFacts
  <2>2. /\ pending' = [pending EXCEPT ![n] = @ \cup ops]
        /\ proposals' = [proposals EXCEPT ![n] = Unregister(props, T)]
      BY <1>1 DEF CollectApplyOps
  <2>3. \A op \in ops : op.index \in T /\ op.cmd = props[op.index]
      OBVIOUS
  <2> HIDE DEF first, last, ops, T
  <2>4. \A m \in Node : m # n => proposals'[m] = proposals[m] /\ pending'[m] = pending[m]
      BY <1>a, <2>2
  <2>5. pending'[n] = pending[n] \cup ops /\ proposals'[n] = Unregister(props, T)
      BY <1>a, <2>2
  <2>6. \A i \in Index : proposals'[n][i] = IF i \in T THEN Nil ELSE props[i]
      BY <2>5 DEF Unregister
  <2>7. \A op \in pending'[n] : op \in pending[n] \/ op.cmd # c \/
            (op.index \in T /\ op.index \in Index /\ props[op.index] = c)
      BY <2>1, <2>3, <2>5
  <2>8. \A i \in Index : proposals'[n][i] = c => i \notin T /\ props[i] = c
      BY <1>b, <2>6
  <2>9. Moves(n, T, new, c)
      BY <2>4, <2>7, <2>8 DEF Moves
  <2> QED BY <2>9, MoveKept
<1>2. CASE proposals' = [proposals EXCEPT ![n] = props] /\ UNCHANGED pending
  <2>1. proposals'[n] = props /\ \A m \in Node : m # n => proposals'[m] = proposals[m]
      BY <1>a, <1>2
  <2>2. \A i \in Index : proposals'[n][i] = c =>
            /\ i \notin {}
            /\ proposals[n][i] = c \/ (i = new /\ loop[n].cmd = c /\ loop'[n].cmd # c)
      BY <2>1
  <2>3. \A op \in pending'[n] : op \in pending[n]
      BY <1>2
  <2>4. \A m \in Node : /\ loop'[m].cmd = c => loop[m].cmd = c
                        /\ m # n => proposals'[m] = proposals[m] /\ pending'[m] = pending[m]
      BY <1>2, <2>1
  <2>5. Moves(n, {}, new, c)
      BY <2>2, <2>3, <2>4 DEF Moves
  <2> QED BY <2>5, MoveKept
<1> QED BY <1>1, <1>2

\* The invariant's part about answering survives every step.
LEMMA PlacesStep ==
    ASSUME TypeOK, AppliedBehind, AppliedAtMostOnce, OnePlaceEach, [Next]_vars
    PROVE  OnePlaceEach'
<1> USE DEF stable, roleVars, leaderVars, loopVars, startVars, applyVars
<1>a. /\ loop \in [Node -> LoopStates] /\ log \in [Node -> Logs]
      /\ queue \in [Node -> Seq(Cmd)] /\ pending \in [Node -> SUBSET Operation]
      /\ proposals \in [Node -> [Index -> Cmd \cup {Nil}]]
      /\ commitIndex \in [Node -> 0..MaxLog]
      /\ status \in [Cmd -> {"new", "queued", "rejected", "acked"}]
    BY DEF TypeOK, LoopType, ApplyType, StableType, LeaderType, Logs
<1>b. Nil \notin Cmd /\ Idle.cmd = Nil
    BY NilAssumption DEF Idle, Doing
<1> SUFFICES ASSUME NEW c \in Cmd PROVE Kept(c)'
    BY OnePlaceKeptNext
<1>c. Kept(c) /\ c # Nil
    BY <1>b, OnePlaceKept
<1>d. ASSUME NEW n \in Node, loop' = [loop EXCEPT ![n] = Idle]
      PROVE  /\ \A m \in Node : loop'[m].cmd = c => loop[m].cmd = c
             /\ loop'[n].cmd # c
    BY <1>a, <1>b, <1>c, <1>d
<1>1. CASE Plain
    BY <1>1, <1>c, StayKept DEF Plain
<1>2. ASSUME NEW n \in Node, AppendNoOp(n) PROVE Kept(c)'
  <2> DEFINE e == [term |-> currentTerm[n], val |-> NoOp]
             l == StoreLog(log[n], NoOpIndex(n), e)
  <2>1. e \in Entry
      BY DEF Entry, TypeOK, StableType
  <2>2. NoOpIndex(n) \in 0..MaxLog
      BY <1>a, <1>2 DEF AppendNoOp, NoOpIndex, LoopStates
  <2>3. l \in Logs
      BY <1>a, <2>1, StoreLogType
  <2>4. /\ CommitAlone(n, l, NoOpIndex(n), proposals[n])
        /\ loop' = [loop EXCEPT ![n] = Idle] /\ UNCHANGED <<queue, status>>
      BY <1>2 DEF AppendNoOp
  <2>5. Hands(n, proposals[n], 0, c)
      BY <1>d, <2>4 DEF Hands
  <2>6. \/ CollectApplyOps(n, l, NoOpIndex(n), proposals[n])
        \/ /\ proposals' = [proposals EXCEPT ![n] = proposals[n]]
           /\ UNCHANGED pending
      BY <2>4 DEF CommitAlone
  <2> HIDE DEF l
  <2> QED BY <1>c, <2>2, <2>3, <2>5, <2>6, CollectKept
<1>3. ASSUME NEW n \in Node, AppendProposal(n) PROVE Kept(c)'
  <2> DEFINE i == LastIndex(log[n]) + 1
             e == [term |-> currentTerm[n], val |-> loop[n].cmd]
             l == StoreLog(log[n], i, e)
             props == [proposals[n] EXCEPT ![i] = loop[n].cmd]
  <2>1. e \in Entry
      BY <1>a, <1>3 DEF AppendProposal, LoopStates, Entry, TypeOK, StableType
  <2>2. i \in 0..MaxLog
      BY <1>3, LastIndexFacts DEF AppendProposal
  <2>3. l \in Logs
      BY <1>a, <2>1, StoreLogType
  <2>4. /\ CommitAlone(n, l, i, props)
        /\ loop' = [loop EXCEPT ![n] = Idle] /\ UNCHANGED <<queue, status>>
      BY <1>3 DEF AppendProposal
  <2>5. \A j \in Index : props[j] = c => proposals[n][j] = c \/ (j = i /\ loop[n].cmd = c)
      BY <1>a
  <2>6. Hands(n, props, i, c)
      BY <1>d, <2>4, <2>5 DEF Hands
  <2>7. \/ CollectApplyOps(n, l, i, props)
        \/ /\ proposals' = [proposals EXCEPT ![n] = props]
           /\ UNCHANGED pending
      BY <2>4 DEF CommitAlone
  <2> HIDE DEF l, i, props
  <2> QED BY <1>c, <2>2, <2>3, <2>6, <2>7, CollectKept
<1>4. ASSUME NEW a \in appends, AcceptAppend(a) PROVE Kept(c)'
  <2> DEFINE n == a.to
             l == AppendLoop(log[n], a.entries)
             k == FollowerCommit(a, l)
  <2>1. n \in Node /\ a.entries \in Logs /\ a.commit \in 0..MaxLog
      BY CallFields
  <2>2. l \in Logs /\ k \in 0..MaxLog
      BY <1>a, <2>1, AppendLoopType, FollowerCommitFacts
  <2>3. UNCHANGED <<queue, status, loop>>
      BY <1>4 DEF AcceptAppend
  <2>4. CollectApplyOps(n, l, k, proposals[n]) \/ UNCHANGED <<proposals, pending>>
      BY <1>4 DEF AcceptAppend
  <2> HIDE DEF n, l, k
  <2>5. CASE CollectApplyOps(n, l, k, proposals[n])
    <3>1. Hands(n, proposals[n], 0, c)
        BY <2>3 DEF Hands
    <3> QED BY <1>c, <2>1, <2>2, <2>5, <3>1, CollectKept
  <2>6. CASE UNCHANGED <<proposals, pending>>
      BY <1>c, <2>3, <2>6, StayKept
  <2> QED BY <2>4, <2>5, <2>6
<1>5. ASSUME NEW a \in appends, ReplicateOk(a) PROVE Kept(c)'
  <2> DEFINE n == a.from
  <2>1. PICK match : CollectApplyOps(n, log[n], AdvancedCommit(n, match), proposals[n])
      BY <1>5 DEF ReplicateOk
  <2>2. n \in Node
      BY CallFields
  <2>3. AdvancedCommit(n, match) \in 0..MaxLog /\ log[n] \in Logs
      BY <1>a, <2>2, AdvancedCommitFacts
  <2>4. UNCHANGED <<queue, status, loop>>
      BY <1>5 DEF ReplicateOk
  <2>5. Hands(n, proposals[n], 0, c)
      BY <2>4 DEF Hands
  <2> HIDE DEF n
  <2> QED BY <1>c, <2>1, <2>2, <2>3, <2>5, CollectKept
<1>6. ASSUME NEW n \in Node, NEW d \in Cmd, Propose(n, d) PROVE Kept(c)'
  <2>1. UNCHANGED <<loop, proposals, pending>>
      BY <1>6 DEF Propose
  <2>2. /\ \A m \in Node \ {n} : queue'[m] = queue[m]
        /\ queue'[n] = Append(queue[n], d) /\ queue[n] \in Seq(Cmd)
      BY <1>6, <1>a DEF Propose
  <2>3. /\ DOMAIN queue'[n] = DOMAIN queue[n] \cup {Len(queue[n]) + 1}
        /\ Len(queue[n]) + 1 \notin DOMAIN queue[n]
        /\ \A k \in DOMAIN queue[n] : queue'[n][k] = queue[n][k]
        /\ queue'[n][Len(queue[n]) + 1] = d
      BY <2>2, AppendProperties, LenProperties
  <2>4. ASSUME NEW m \in Node, NEW kind, NEW i, At(m, kind, i, c)'
        PROVE  \/ At(m, kind, i, c)
               \/ c = d /\ m = n /\ kind = "queue" /\ i = Len(queue[n]) + 1
      BY <2>1, <2>2, <2>3, <2>4 DEF At
  <2>5. CASE c # d
    <3>1. status'[c] = status[c]
        BY <1>6, <1>a, <2>5 DEF Propose
    <3> QED BY <1>c, <2>4, <2>5, <3>1 DEF Kept
  <2>6. CASE c = d
    <3>1. status[c] = "new" /\ status'[c] = "queued"
        BY <1>6, <1>a, <2>6 DEF Propose
    <3> QED BY <1>c, <2>4, <3>1 DEF Kept
  <2> QED BY <2>5, <2>6
<1>7. ASSUME NEW n \in Node, TakeProposal(n) PROVE Kept(c)'
  <2>1. UNCHANGED <<proposals, pending>> /\ queue[n] # << >> /\ queue[n] \in Seq(Cmd)
      BY <1>7, <1>a DEF TakeProposal
  <2>2. /\ \A m \in Node \ {n} : queue'[m] = queue[m] /\ loop'[m] = loop[m]
        /\ queue'[n] = Tail(queue[n])
      BY <1>7, <1>a DEF TakeProposal
  <2>3. /\ \A i \in DOMAIN queue'[n] : /\ i \in Nat /\ i + 1 \in DOMAIN queue[n] /\ i # 0
                                       /\ queue'[n][i] = queue[n][i + 1]
        /\ 1 \in DOMAIN queue[n] /\ queue[n][1] = Head(queue[n])
      BY <2>1, <2>2, HeadTailProperties, LenProperties, EmptySeq
  <2>4. \/ /\ loop'[n].cmd = Head(queue[n]) /\ UNCHANGED status
        \/ /\ UNCHANGED loop
           /\ status' = [status EXCEPT ![Head(queue[n])] = "rejected"]
      BY <1>7, <1>a DEF TakeProposal, Doing
  <2>5. ASSUME NEW m \in Node, NEW kind, NEW i, At(m, kind, i, c)'
        PROVE  \/ At(m, kind, i, c) /\ (m # n \/ kind # "queue")
               \/ /\ m = n /\ kind = "queue" /\ i \in Nat /\ i # 0
                  /\ At(n, "queue", i + 1, c)
               \/ /\ m = n /\ kind = "append" /\ i = 0 /\ c = Head(queue[n])
                  /\ loop'[n].cmd = c /\ UNCHANGED status /\ At(n, "queue", 1, c)
    <3>1. CASE m # n
        BY <2>1, <2>2, <2>5, <3>1 DEF At
    <3>2. CASE m = n /\ kind = "queue"
        BY <2>3, <2>5, <3>2 DEF At
    <3>3. CASE m = n /\ kind = "append"
        BY <2>3, <2>4, <2>5, <3>3 DEF At
    <3>4. CASE m = n /\ kind \notin {"queue", "append"}
        BY <2>1, <2>5, <3>4 DEF At
    <3> QED BY <3>1, <3>2, <3>3, <3>4
  <2>6. \A m \in Node : \A kind, i : At(m, kind, i, c)' => status'[c] = "queued"
    <3> SUFFICES ASSUME NEW m \in Node, NEW kind, NEW i, At(m, kind, i, c)'
                 PROVE  status'[c] = "queued"
        OBVIOUS
    <3>1. status[c] = "queued"
        BY <1>c, <2>5 DEF Kept
    <3>2. CASE c # Head(queue[n])
        BY <1>a, <2>4, <3>1, <3>2
    <3>3. CASE c = Head(queue[n])
      <4>1. At(n, "queue", 1, c)
          BY <2>3, <3>3 DEF At
      <4>2. UNCHANGED status
          BY <1>c, <2>5, <4>1 DEF Kept
      <4> QED BY <3>1, <4>2
    <3> QED BY <3>2, <3>3
  <2>7. ASSUME NEW m \in Node, NEW p \in Node, NEW k1, NEW k2, NEW i, NEW j,
               At(m, k1, i, c)', At(p, k2, j, c)'
        PROVE  m = p /\ k1 = k2 /\ i = j
    <3>1. At(m, "append", 0, c) => loop[m].cmd = c
        BY DEF At
    <3> QED BY <1>c, <2>5, <2>7 DEF Kept
  <2> QED BY <2>6, <2>7 DEF Kept
<1>8. ASSUME NEW n \in Node, Apply(n) PROVE Kept(c)'
  <2>1. PICK op \in pending[n] :
            /\ pending' = [pending EXCEPT ![n] = @ \ {op}]
            /\ status' = IF op.cmd = Nil THEN status ELSE [status EXCEPT ![op.cmd] = "acked"]
      BY <1>8 DEF Apply
  <2>2. UNCHANGED <<queue, loop, proposals>>
      BY <1>8 DEF Apply
  <2>3. /\ \A m \in Node \ {n} : pending'[m] = pending[m]
        /\ pending'[n] = pending[n] \ {op}
      BY <1>a, <2>1
  <2>4. CASE op.cmd # c
    <3>1. status'[c] = status[c]
        BY <1>a, <2>1, <2>4
    <3>2. \A m \in Node : \A o \in pending'[m] : o \in pending[m]
        BY <2>3
    <3> QED BY <1>c, <2>2, <3>1, <3>2, StayKept
  <2>5. CASE op.cmd = c
    <3>1. At(n, "apply", op.index, c)
        BY <2>5 DEF At
    <3>2. ASSUME NEW m \in Node, NEW kind, NEW i, At(m, kind, i, c)' PROVE FALSE
      <4>1. At(m, kind, i, c)
          BY <2>2, <2>3, <3>2 DEF At
      <4>2. m = n /\ kind = "apply" /\ i = op.index
          BY <1>c, <3>1, <4>1 DEF Kept
      <4>3. PICK o \in pending'[n] : o.index = i
          BY <3>2, <4>2 DEF At
      <4> QED BY <2>3, <4>2, <4>3 DEF AppliedAtMostOnce
    <3> QED BY <3>2 DEF Kept
  <2> QED BY <2>4, <2>5
<1>9. ASSUME NEW n \in Node, Crash(n) PROVE Kept(c)'
  <2>1. /\ \A m \in Node \ {n} : /\ queue'[m] = queue[m] /\ loop'[m] = loop[m]
                                 /\ proposals'[m] = proposals[m] /\ pending'[m] = pending[m]
        /\ queue'[n] = << >> /\ loop'[n] = Idle /\ pending'[n] = {}
        /\ proposals'[n] = [i \in Index |-> Nil]
        /\ UNCHANGED status
      BY <1>9, <1>a DEF Crash
  <2>2. \A m \in Node : \A i \in Index : proposals'[m][i] = c => proposals[m][i] = c
      BY <1>c, <2>1
  <2>3. \A m \in Node : /\ queue'[m] \in {queue[m], << >>}
                        /\ loop'[m].cmd = c => loop[m].cmd = c
      BY <1>b, <1>c, <2>1
  <2>4. \A m \in Node : \A op \in pending'[m] : op.cmd = c => op \in pending[m]
      BY <2>1
  <2> QED BY <1>c, <2>1, <2>2, <2>3, <2>4, StayKept
<1>10. ASSUME NEW n \in Node,
              Restart(n) \/ ReplayEntry(n) \/ FinishStart(n) \/ FailStart(n)
       PROVE  Kept(c)'
  <2>1. UNCHANGED <<queue, loop, proposals, pending, status>>
      BY <1>10 DEF Restart, ReplayEntry, FinishStart, FailStart
  <2> QED BY <1>c, <2>1, StayKept
<1> QED BY <1>1, <1>2, <1>3, <1>4, <1>5, <1>6, <1>7, <1>8, <1>9, <1>10, PlainSteps DEF Life

-----------------------------------------------------------------------------
(* For every number of nodes, candidates, commands, crashes and lost       *)
(* messages.                                                               *)

\* collectApplyOps, doApply, handleProposal, Crash and Start keep the invariant.
THEOREM ApplyHolds == Spec => []ApplyInv
<1>1. Init => ApplyInv
  <2> SUFFICES ASSUME Init PROVE AppliedBehind /\ AppliedAtMostOnce /\ OnePlaceEach
      BY TypeInit DEF ApplyInv
  <2>1. \A n \in Node : /\ up[n] /\ loop[n] = Idle /\ queue[n] = << >> /\ pending[n] = {}
                        /\ applied[n] = << >> /\ \A i \in Index : proposals[n][i] = Nil
                        /\ ~starting[n] /\ replayed[n] = 0 /\ redone[n] = {}
                        /\ collected[n] = {}
      BY DEF Init
  <2>2. DOMAIN << >> = {}
      OBVIOUS
  <2>3. Nil \notin Cmd /\ Idle.cmd = Nil
      BY NilAssumption DEF Idle, Doing
  <2>4. \A c \in Cmd, n \in Node : \A kind, i : ~At(n, kind, i, c)
      BY <2>1, <2>2, <2>3 DEF At
  <2> QED BY <2>1, <2>2, <2>4, OnePlaceKept
     DEF AppliedBehind, UpBehind, DownBehind, AppliedAtMostOnce, AppliedIndices, Kept
<1>2. ApplyInv /\ [Next]_vars => ApplyInv'
    BY TypeStep, AppliedStep, PlacesStep DEF ApplyInv
<1> QED BY <1>1, <1>2, PTL DEF Spec

\* lastApplied moves in the critical section that takes the operations, so no index
\* reaches Apply twice, whatever overlaps, crashes or restarts, but one that a start
\* replayed without saving it (applyCommitted).
THEOREM NeverAppliedTwice == Spec => []AppliedAtMostOnce
<1>1. ApplyInv => AppliedAtMostOnce
    BY DEF ApplyInv
<1> QED BY <1>1, ApplyHolds, PTL

\* The run loop, the proposals map and doApply hand a command over and keep nothing
\* back: done receives one answer.
THEOREM NeverAnsweredTwice == Spec => []AnsweredOnce
<1>1. ApplyInv => AnsweredOnce
  <2> SUFFICES ASSUME OnePlaceEach, NEW c \in Cmd PROVE Cardinality(Places(c)) <= 1
      BY DEF ApplyInv, AnsweredOnce, OnePlaceEach
  <2>1. CASE Places(c) = {}
      BY <2>1, FS_EmptySet
  <2>2. ASSUME NEW p \in Places(c) PROVE Cardinality(Places(c)) <= 1
    <3>1. Places(c) = {p}
        BY <2>2 DEF OnePlaceEach
    <3> QED BY <3>1, FS_Singleton
  <2> QED BY <2>1, <2>2
<1> QED BY <1>1, ApplyHolds, PTL
=============================================================================
