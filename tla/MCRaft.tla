------------------------------- MODULE MCRaft -------------------------------
(***************************************************************************)
(* Small groups for TLC.                                                   *)
(***************************************************************************)
EXTENDS RaftProperties, TLC

\* Followers of the one candidate are interchangeable.
FollowerSymmetry == Permutations(Node \ Candidates)

\* A state of every election that went smoothly: the candidate asked everybody,
\* everybody answered yes, and it has just become the leader of term 1.
Elected ==
    /\ currentTerm = [n \in Node |-> 1]
    /\ \E c \in Candidates :
          /\ votedFor = [n \in Node |-> c]
          /\ state = [n \in Node |-> IF n = c THEN "leader" ELSE "follower"]
          /\ leaderID = [n \in Node |-> IF n = c THEN c ELSE Nil]
          /\ electionTimer = [n \in Node |-> n # c]
          /\ heartbeatTicker = [n \in Node |-> n = c]
          /\ loop = [n \in Node |-> IF n = c THEN Doing("noop", 0, Nil) ELSE Idle]
    /\ log = [n \in Node |-> EmptyLog]
    /\ commitIndex = [n \in Node |-> 0] /\ lastApplied = [n \in Node |-> 0]
    /\ up = [n \in Node |-> TRUE]
    /\ nextIndex = [n \in Node |-> [p \in Node |-> 1]]
    /\ matchIndex = [n \in Node |-> [p \in Node |-> 0]]
    /\ proposals = [n \in Node |-> [i \in Index |-> Nil]]
    /\ queue = [n \in Node |-> << >>] /\ beat = [n \in Node |-> "none"]
    /\ ballots = {} /\ appends = {}
    /\ pending = [n \in Node |-> {}] /\ applied = [n \in Node |-> << >>]
    /\ status = [c \in Cmd |-> "new"] /\ crashes = 0
    /\ starting = [n \in Node |-> FALSE] /\ replayed = [n \in Node |-> 0]
    /\ redone = [n \in Node |-> {}] /\ collected = [n \in Node |-> {}]

ElectedSpec == Elected /\ [][Next]_vars
=============================================================================
