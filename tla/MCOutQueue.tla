----------------------------- MODULE MCOutQueue -----------------------------
(* Symmetry and the view for the runs of OutQueue.                         *)
EXTENDS OutQueue, TLC

Symmetric == Permutations(Sessions) \cup Permutations(Chains)
                                    \cup Permutations(Values)

Freed == Range(free)

\* Slots outside the rings and the contents of free chains are written before
\* they are read.
LiveView ==
  <<[s \in Sessions |-> [i \in Slots |-> IF InRing(s, i) THEN out[s][i] ELSE None]],
    outPos, outLast, outChain, writeActive, writeTimer, open, destroyed, posted,
    ref, free, [c \in Chains |-> IF c \in Freed THEN None ELSE body[c]],
    job, sender, closer>>

=============================================================================
