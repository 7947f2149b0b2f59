----------------------------- MODULE RaftEngine -----------------------------
(***************************************************************************)
(* What one node makes of the committed log: the state machine of          *)
(* internal/raft/engine.go and the membership of node.go, over restarts.   *)
(*                                                                         *)
(* The log is CommittedLog's, of which the node knows a part. Commit       *)
(* index, applied index and cluster are separate writes to one database,   *)
(* and the local engine is another database, so a crash may fall between   *)
(* any two writes. The operations of one batch are applied in order, and   *)
(* after those of the batch before (module Raft has those that are not).   *)
(***************************************************************************)
EXTENDS Naturals, Sequences, FiniteSets, FiniteSetsExt

CONSTANTS StateKey, StateValue,
          Absent,          \* no value under a key, no peer in a command
          Member,          \* the ids that may be peers
          Configured,      \* cfg.Peers, the node itself included
          MaxCommands, MaxEngineFault, MaxEngineCrash   \* bounds

ASSUME RaftEngineAssumption ==
    /\ Configured \subseteq Member
    /\ Absent \notin StateValue /\ Absent \notin Member
    /\ {MaxCommands, MaxEngineFault, MaxEngineCrash} \subseteq Nat

VARIABLES
    committedCmds,  \* the commands that the group has committed
    commitTo,       \* stored: KeyCommitIndex
    appliedTo,      \* stored: KeyLastApplied
    cluster,        \* stored: KeyClusterConfig, {} when there is none
    localState,     \* stored: the local engine
    enginePhase,    \* "down", "starting" (in applyCommitted) or "ready"
    replayed,       \* lastApplied in memory while the node starts
    applyOps,       \* the indices collectApplyOps has handed to doApply
    peersOf,        \* Node.peers
    engineFaults, engineCrashes,
    passedBy,       \* history: indices counted as applied that had no effect
    drifted         \* history: peers whose last change was not saved, or that a start brought back

engineStored == <<commitTo, appliedTo, cluster, localState>>
engineMemory == <<enginePhase, replayed, applyOps, peersOf>>
engineVars == <<committedCmds, engineStored, engineMemory, engineFaults, engineCrashes, passedBy, drifted>>

-----------------------------------------------------------------------------
(* Commands. An engine command is its type, a length and a JSON body with  *)
(* the writes; a peer change is its type and a JSON body.                  *)

EngineCmd(type, writes) == [type |-> type, writes |-> writes, peer |-> Absent]
PeerCmd(type, p) == [type |-> type, writes |-> << >>, peer |-> p]

\* The first byte: CmdSet, CmdDelete and CmdBatch, LogAddPeer and LogRemovePeer.
FirstByte(cmd) ==
    CASE cmd.type = "set" -> 0 [] cmd.type = "delete" -> 1 [] cmd.type = "batch" -> 2
      [] cmd.type = "add" -> 2 [] cmd.type = "remove" -> 3

\* applyCmd takes the bytes 2 and 3 for peer changes.
TakenForPeerChange(cmd) == FirstByte(cmd) \in {2, 3}

\* applyConfigChange wants JSON after the first byte, where a batch has its length.
PeerChangeParses(cmd) == cmd.type \in {"add", "remove"}

ChangedPeers(cmd) == IF FirstByte(cmd) = 2 THEN peersOf \cup {cmd.peer} ELSE peersOf \ {cmd.peer}

EngineFault == engineFaults < MaxEngineFault /\ engineFaults' = engineFaults + 1

\* A change of peers is saved after it is made in memory.
ApplyPeerChange(cmd, failed) ==
    /\ peersOf' = ChangedPeers(cmd)
    /\ \/ ~failed /\ cluster' = peersOf' /\ drifted' = drifted \ {cmd.peer} /\ UNCHANGED engineFaults
       \/ failed /\ EngineFault /\ drifted' = drifted \cup {cmd.peer} /\ UNCHANGED cluster
    /\ UNCHANGED localState

\* The local engine after the writes of a command.
Written(writes) == [k \in StateKey |-> IF k \in DOMAIN writes THEN writes[k] ELSE localState[k]]

\* The local engine takes the writes of a command at once.
ApplyWrites(cmd, failed) ==
    /\ \/ ~failed /\ localState' = Written(cmd.writes) /\ UNCHANGED engineFaults
       \/ failed /\ EngineFault /\ UNCHANGED localState
    /\ UNCHANGED <<peersOf, cluster, drifted>>

\* Config.Apply: a batch fails, the others do when their write fails.
ApplyCmd(cmd, failed) ==
    \/ /\ TakenForPeerChange(cmd) /\ ~PeerChangeParses(cmd) /\ failed
       /\ UNCHANGED <<peersOf, cluster, localState, engineFaults, drifted>>
    \/ TakenForPeerChange(cmd) /\ PeerChangeParses(cmd) /\ ApplyPeerChange(cmd, failed)
    \/ ~TakenForPeerChange(cmd) /\ ApplyWrites(cmd, failed)

-----------------------------------------------------------------------------
\* The process runs for the first time, as the node that bootstraps the cluster or another.
EngineInit ==
    /\ committedCmds = << >>
    /\ commitTo = 0 /\ appliedTo = 0
    /\ cluster \in {{}, Configured}
    /\ localState = [k \in StateKey |-> Absent]
    /\ enginePhase = "ready"
    /\ replayed = 0
    /\ applyOps = << >>
    /\ peersOf = Configured
    /\ engineFaults = 0 /\ engineCrashes = 0
    /\ passedBy = {} /\ drifted = {}

\* The group commits a command that a leader proposed: RaftEngine.Set, Delete, BatchWrite (or
\* the Commit of a transaction), or Node.AddPeer, RemovePeer of any member but the leader.
CommitCmd(cmd) ==
    /\ Len(committedCmds) < MaxCommands
    /\ committedCmds' = Append(committedCmds, cmd)
    /\ UNCHANGED <<engineStored, engineMemory, engineFaults, engineCrashes, passedBy, drifted>>

\* The node learns that more is committed, and saves it.
LearnCommit ==
    /\ enginePhase = "ready" /\ commitTo = appliedTo /\ applyOps = << >>
    /\ commitTo' \in (commitTo + 1)..Len(committedCmds)
    /\ UNCHANGED <<committedCmds, appliedTo, cluster, localState, engineMemory, engineFaults, engineCrashes, passedBy, drifted>>

\* collectApplyOps, one index: it is saved as applied before it is.
CollectOp ==
    /\ enginePhase = "ready" /\ appliedTo < commitTo
    /\ appliedTo' = appliedTo + 1
    /\ applyOps' = Append(applyOps, appliedTo')
    /\ UNCHANGED <<committedCmds, commitTo, cluster, localState, enginePhase, replayed, peersOf, engineFaults, engineCrashes, passedBy, drifted>>

\* doApply, one operation. An error is logged and given to the proposer, and that is all.
ApplyOp ==
    /\ enginePhase = "ready" /\ appliedTo = commitTo /\ applyOps # << >>
    /\ \E failed \in BOOLEAN :
           /\ ApplyCmd(committedCmds[Head(applyOps)], failed)
           /\ passedBy' = IF failed THEN passedBy \cup {Head(applyOps)} ELSE passedBy
    /\ applyOps' = Tail(applyOps)
    /\ UNCHANGED <<committedCmds, commitTo, appliedTo, enginePhase, replayed, engineCrashes>>

\* The process ends. What doApply had not done is not done again.
EngineCrash ==
    /\ enginePhase # "down" /\ engineCrashes < MaxEngineCrash
    /\ engineCrashes' = engineCrashes + 1
    /\ enginePhase' = "down"
    /\ applyOps' = << >>
    /\ passedBy' = passedBy \cup {applyOps[k] : k \in DOMAIN applyOps}
    /\ UNCHANGED <<committedCmds, engineStored, replayed, peersOf, engineFaults, drifted>>

\* NewNode: the peers are the configured and the saved ones. A node that bootstraps a cluster
\* saves the configured ones when none is saved. applyCommitted reads how far it came.
StartNode(bootstrap) ==
    /\ enginePhase = "down"
    /\ enginePhase' = "starting"
    /\ peersOf' = Configured \cup cluster
    /\ cluster' = IF bootstrap /\ cluster = {} THEN Configured ELSE cluster
    /\ replayed' = appliedTo
    /\ drifted' = drifted \cup (Configured \ cluster)
    /\ UNCHANGED <<committedCmds, commitTo, appliedTo, localState, applyOps, engineFaults, engineCrashes, passedBy>>

\* Mutant: the entry after the last applied one is taken for applied.
NextReplayedLate == replayed + 2

NextReplayed == replayed + 1

\* applyCommitted, one entry. An error ends the start: what was replayed is not saved as applied.
ReplayOp ==
    /\ enginePhase = "starting" /\ NextReplayed <= commitTo
    /\ \E failed \in BOOLEAN :
           /\ ApplyCmd(committedCmds[NextReplayed], failed)
           /\ enginePhase' = IF failed THEN "down" ELSE enginePhase
           /\ replayed' = IF failed THEN replayed ELSE NextReplayed
    /\ UNCHANGED <<committedCmds, commitTo, appliedTo, applyOps, engineCrashes, passedBy>>

\* applyCommitted saves how far it came, and the engine is ready.
FinishStart ==
    /\ enginePhase = "starting" /\ NextReplayed > commitTo
    /\ appliedTo' = replayed
    /\ enginePhase' = "ready"
    /\ UNCHANGED <<committedCmds, commitTo, cluster, localState, replayed, applyOps, peersOf, engineFaults, engineCrashes, passedBy, drifted>>

EngineStep ==
    \/ LearnCommit \/ CollectOp \/ ApplyOp
    \/ EngineCrash \/ ReplayOp \/ FinishStart
    \/ \E bootstrap \in BOOLEAN : StartNode(bootstrap)

\* All that Set, Delete, BatchWrite and the changes of peers may propose, and more: a set or
\* a delete here may also write no key or several.
StateCommand ==
    {EngineCmd(type, writes) :
        type \in {"set", "delete", "batch"},
        writes \in UNION {[S -> StateValue \cup {Absent}] : S \in SUBSET StateKey}}
    \cup {PeerCmd(type, p) : type \in {"add", "remove"}, p \in Member}

EngineNext == EngineStep \/ \E cmd \in StateCommand : CommitCmd(cmd)

EngineSpec == EngineInit /\ [][EngineNext]_engineVars

-----------------------------------------------------------------------------
(* What a node that is ready holds.                                        *)

\* The indices that had their effect on the node.
Effective == 1..(appliedTo - Len(applyOps)) \ passedBy

LastOf(S) == committedCmds[Max(S)]

\* The value that the log gives a key.
LoggedValue(k) ==
    LET writes == {i \in Effective : k \in DOMAIN committedCmds[i].writes} IN
    IF writes = {} THEN Absent ELSE LastOf(writes).writes[k]

\* Whether the log makes p a peer.
LoggedPeer(p) ==
    LET changes == {i \in Effective : committedCmds[i].peer = p} IN
    IF changes = {} THEN p \in Configured ELSE LastOf(changes).type = "add"

\* applyCmd, doApply and applyCommitted over crashes between any two writes, repeated replays and
\* failed starts: what a node answers reads from is what the log says, and so are its peers.
\* Left out are commands that doApply counts as applied although they failed or a crash cut
\* them short, peers whose change could not be saved, and those that a start brings back.
NodeFollowsLog ==
    enginePhase = "ready" =>
        /\ \A k \in StateKey : localState[k] = LoggedValue(k)
        /\ \A p \in Member \ drifted : p \in peersOf <=> LoggedPeer(p)

-----------------------------------------------------------------------------
(* The inductive invariant behind NodeFollowsLog.                          *)

\* The stored fields, the log, and the fields of Node and RaftEngine have their shapes.
EngineTypeOK ==
    /\ committedCmds \in Seq(StateCommand)
    /\ commitTo \in 0..Len(committedCmds) /\ appliedTo \in 0..commitTo
    /\ cluster \subseteq Member /\ peersOf \subseteq Member
    /\ localState \in [StateKey -> StateValue \cup {Absent}]
    /\ enginePhase \in {"down", "starting", "ready"}
    /\ replayed \in Nat
    /\ applyOps \in Seq(Nat)

\* doApply has the last of the indices that count as applied still to do, and a start has
\* replayed those from the stored index on. Only what is behind both was passed by.
OpsInOrder ==
    /\ Len(applyOps) <= appliedTo
    /\ \A j \in DOMAIN applyOps : applyOps[j] = appliedTo - Len(applyOps) + j
    /\ enginePhase # "ready" => applyOps = << >>
    /\ enginePhase = "starting" => appliedTo <= replayed /\ replayed <= commitTo
    /\ passedBy \subseteq 1..(appliedTo - Len(applyOps))

WritesKey(i, k) == k \in DOMAIN committedCmds[i].writes
ChangesPeer(i, p) == committedCmds[i].peer = p

\* A key has its logged value, but for one that a start may write to, or has: that has the
\* value of the last write replayed, in any start since the indices were saved as applied.
ValuesFollow ==
    \A k \in StateKey :
        /\ enginePhase = "ready" \/ (\A i \in (appliedTo + 1)..commitTo : ~WritesKey(i, k))
               => localState[k] = LoggedValue(k)
        /\ enginePhase = "starting" => \A i \in (appliedTo + 1)..replayed :
               WritesKey(i, k) /\ (\A j \in (i + 1)..replayed : ~WritesKey(j, k))
                   => localState[k] = committedCmds[i].writes[k]

\* The same for the peers.
PeersFollow ==
    \A p \in Member \ drifted :
        /\ enginePhase = "ready" \/ (\A i \in (appliedTo + 1)..commitTo : ~ChangesPeer(i, p))
               => (p \in peersOf <=> LoggedPeer(p))
        /\ enginePhase = "starting" => \A i \in (appliedTo + 1)..replayed :
               ChangesPeer(i, p) /\ (\A j \in (i + 1)..replayed : ~ChangesPeer(j, p))
                   => (p \in peersOf <=> committedCmds[i].type = "add")

\* The saved cluster differs from the peers in memory by configured ones only.
ClusterFollows ==
    \A p \in Member \ drifted : /\ p \in cluster => p \in peersOf
                                /\ p \in peersOf => p \in cluster \cup Configured

EngineInv == EngineTypeOK /\ OpsInOrder /\ ValuesFollow /\ PeersFollow /\ ClusterFollows
=============================================================================
