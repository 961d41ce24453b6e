----------------------------- MODULE ChunkHeap ------------------------------
(***************************************************************************)
(* What the variable-length allocator promises to its callers: blocks of   *)
(* consecutive chunks, each with a reference count, that never overlap     *)
(* and that return to the heap only when no reference is left.             *)
(*                                                                         *)
(* Nothing is said of how the free space is found, kept or coalesced.      *)
(***************************************************************************)
EXTENDS Integers

CONSTANTS
    NodeCount,   \* chunks 2 .. NodeCount - 1 can be handed out
    Deltas       \* numbers of references one dup may add

VARIABLE owned       \* base chunk of each block |-> [count, refs]

vars == <<owned>>

Overlaps(b, n, c, m) == b < c + m /\ c < b + n

Put(f, b, v) == [i \in DOMAIN f \cup {b} |-> IF i = b THEN v ELSE f[i]]
Remove(f, b) == [i \in DOMAIN f \ {b} |-> f[i]]

Init == owned = [b \in {} |-> [count |-> 0, refs |-> 0]]

\* allocate: a block of n chunks that nobody else owns, with one reference.
Acquire(b, n) ==
    /\ n > 0 /\ b > 1 /\ b + n <= NodeCount
    /\ \A c \in DOMAIN owned : ~ Overlaps(b, n, c, owned[c].count)
    /\ owned' = Put(owned, b, [count |-> n, refs |-> 1])

\* dup: only a block that is still referenced gains references.
AddRefs(b, delta) ==
    /\ b \in DOMAIN owned /\ owned[b].refs > 0
    /\ owned' = [owned EXCEPT ![b].refs = @ + delta]

\* undup
DropRef(b) ==
    /\ b \in DOMAIN owned /\ owned[b].refs > 0
    /\ owned' = [owned EXCEPT ![b].refs = @ - 1]

\* dupNew: the last owner takes the dead block over for a new life.
Revive(b) ==
    /\ b \in DOMAIN owned /\ owned[b].refs = 0
    /\ owned' = [owned EXCEPT ![b].refs = 1]

\* release, once the count is zero: the chunks go back to the heap.
Reclaim(b) ==
    /\ b \in DOMAIN owned /\ owned[b].refs = 0
    /\ owned' = Remove(owned, b)

Next ==
    \/ \E b, n \in 1 .. NodeCount : Acquire(b, n)
    \/ \E b \in DOMAIN owned :
          \/ \E delta \in Deltas : AddRefs(b, delta)
          \/ DropRef(b) \/ Revive(b) \/ Reclaim(b)

Spec == Init /\ [][Next]_vars
=============================================================================
