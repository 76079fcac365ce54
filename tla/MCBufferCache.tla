---------------------------- MODULE MCBufferCache ---------------------------
(* Symmetry and the view for the runs of BufferCache.                      *)
EXTENDS BufferCache, TLC

Symmetric == Permutations(Workers) \cup Permutations(Keys)

\* Entries that nothing refers to: a store writes every field of such an
\* entry before any step reads it, except state.  RefCoversHolders asks for
\* the sign of the count.
Dead == Slot \ (Range(usedQueue) \cup tree \cup
                {op[w].e : w \in Workers} \cup {op[w].victim : w \in Workers})

\* States that differ in the unread fields of dead entries are the same state.
LiveView ==
  <<reset, cacheAccess, tree, usedQueue, freeQueue, entriesEnd, buffersStart,
    buffersRead, buffersWrite,
    [a \in Slot |-> IF a \in Dead THEN <<entry[a].state, entry[a].ref < 0>>
                             ELSE entry[a]],
    mutex, now, time, pc, op, kills>>

=============================================================================
