---------------------------- MODULE CommittedLog ----------------------------
(***************************************************************************)
(* What a replicated log promises, whatever elects and replicates: one     *)
(* sequence of committed entries that only grows at its end, and for each  *)
(* node the part of it the node knows to be committed, which only grows    *)
(* too.                                                                    *)
(***************************************************************************)
EXTENDS Integers, Sequences

CONSTANTS Node, Value

VARIABLES chosen,   \* the committed entries
          known     \* how many of them each node knows

vars == <<chosen, known>>

Init == chosen = << >> /\ known = [n \in Node |-> 0]

\* Node n commits entries at the end of the sequence.
Choose(n) ==
    /\ chosen' \in Seq(Value)
    /\ Len(chosen') > Len(chosen)
    /\ \A i \in 1..Len(chosen) : chosen'[i] = chosen[i]
    /\ known' = [known EXCEPT ![n] = Len(chosen')]

\* Node n hears of entries that are committed.
Learn(n) ==
    \E k \in (known[n] + 1)..Len(chosen) :
        /\ known' = [known EXCEPT ![n] = k]
        /\ UNCHANGED chosen

Next == \E n \in Node : Choose(n) \/ Learn(n)

Spec == Init /\ [][Next]_vars
=============================================================================
