------------------------------ MODULE RaftLog ------------------------------
(***************************************************************************)
(* The log store of internal/raft/storage.go and the log arithmetic of     *)
(* node.go and transport.go.                                               *)
(*                                                                         *)
(* A log is a function from the indices 1..MaxLog to entries, with Nil     *)
(* where Badger holds no key: the store is keyed by index and nothing in   *)
(* it prevents a gap, so a log is not a sequence.                          *)
(***************************************************************************)
EXTENDS Integers, FiniteSets, FiniteSetsExt

CONSTANTS MaxLog,   \* bound: the largest log index
          Nil       \* the absent entry, node or command

Index == 1..MaxLog

EmptyLog == [i \in Index |-> Nil]

\* The indices that hold an entry.
Present(l) == {i \in Index : l[i] # Nil}

\* LastIndex seeks backwards from the largest key, so gaps below it are skipped.
LastIndex(l) == Max({0} \cup Present(l))

\* getLastLogTerm: 0 for an empty log.
LastTerm(l) == IF Present(l) = {} THEN 0 ELSE l[LastIndex(l)].term

\* StoreLog is a Badger Set: it overwrites what the key held.
StoreLog(l, i, e) == [l EXCEPT ![i] = e]

\* LogEntries(first, last + 1, 1MB): the entries from first on, up to the first
\* missing key, and no more than fit in one batch.
LogEntries(l, first, count) ==
    [i \in Index |->
        IF /\ i \in first..(first + count - 1)
           /\ \A j \in first..i : l[j] # Nil
        THEN l[i] ELSE Nil]

\* An entry of the request clashes with the stored one: same index, other term.
Clashes(l, entries) ==
    {i \in Index : l[i] # Nil /\ entries[i] # Nil /\ l[i].term # entries[i].term}

(***************************************************************************)
(* The append loop of HandleAppendEntries. It walks the entries in index   *)
(* order; at the first clash it deletes the stored log from there on, but  *)
(* stores an entry only where the lookup made BEFORE the deletion failed:  *)
(* the clashing index itself stays empty and the later entries are stored. *)
(***************************************************************************)
AppendLoop(l, entries) ==
    IF Clashes(l, entries) = {}
    THEN [i \in Index |-> IF l[i] = Nil THEN entries[i] ELSE l[i]]
    ELSE LET clash == Min(Clashes(l, entries))
         IN  [i \in Index |-> IF i < clash THEN (IF l[i] = Nil THEN entries[i] ELSE l[i])
                              ELSE IF i = clash THEN Nil
                              ELSE entries[i]]

\* The furthest index reachable from `from` without passing `to` or a gap: how
\* far a loop that stops at the first failed GetLog comes.
ReachedFrom(l, from, to) ==
    Max({from} \cup {k \in Index : /\ k \in (from + 1)..to
                                   /\ \A i \in (from + 1)..k : l[i] # Nil})

\* The vote rule shared by PreVote and RequestVote.
UpToDate(lastTerm, lastIndex, l) ==
    \/ lastTerm > LastTerm(l)
    \/ lastTerm = LastTerm(l) /\ lastIndex >= LastIndex(l)
=============================================================================
