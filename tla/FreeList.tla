------------------------------ MODULE FreeList ------------------------------
(***************************************************************************)
(* The free list of the variable-length allocator, one action for each     *)
(* successful compare-and-swap that changes it (variable_allocator.hh).    *)
(*                                                                         *)
(* Free blocks are chained in address order; a block is carved from the    *)
(* tail of a free block, so the first chunk of a free block, and chunk 1   *)
(* in particular, never leaves the list.  Adjacent free blocks are merged  *)
(* in three steps: the first is flagged JOIN_HEAD, the second JOIN_TAIL,   *)
(* and the first then swallows the second.                                 *)
(*                                                                         *)
(* Version tags do not appear: they only make a stale compare-and-swap     *)
(* fail, and here every action reads and writes the present state.         *)
(***************************************************************************)
EXTENDS NodeWord

CONSTANTS
    Needs,    \* chunk counts a caller may ask for
    Deltas    \* numbers of references one dup may add

ASSUME NeedsAssumption == Needs \subseteq Nat \ {0}
ASSUME DeltasAssumption == Deltas \subseteq Nat \ {0}

VARIABLES
    free,     \* index of each free block |-> [next, count, status]
    used      \* index of each allocated block |-> [count, refs]

vars == <<free, used>>

Heap == INSTANCE ChunkHeap WITH owned <- used

Link == [next : 0 .. NextMod - 1, count : Nat, status : SUBSET {JOIN_HEAD, JOIN_TAIL}]

Put(f, i, v) == [j \in DOMAIN f \cup {i} |-> IF j = i THEN v ELSE f[j]]
Remove(f, i) == [j \in DOMAIN f \ {i} |-> f[j]]

\* Node 0 holds nothing but the index of node 1, which owns every chunk.
Init ==
    /\ free = [i \in {1} |-> [next |-> NodeCount, count |-> NodeCount - 1,
                              status |-> AVAILABLE]]
    /\ used = [i \in {} |-> [count |-> 0, refs |-> 0]]

-----------------------------------------------------------------------------
(* allocate *)

\* Slip: the block is carved from the front.
AllocateFront(p, need) ==
    /\ p \in DOMAIN free
    /\ isAvailable(free[p]) /\ free[p].count > need
    /\ free' = [free EXCEPT ![p].count = @ - need]
    /\ used' = Put(used, p, [count |-> need, refs |-> 1])

\* Slip: a block that is being merged is taken from.
AllocateFlagged(p, need) ==
    /\ p \in DOMAIN free
    /\ free[p].count > need
    /\ LET rest == free[p].count - need
       IN  /\ free' = [free EXCEPT ![p].count = rest]
           /\ used' = Put(used, p + rest, [count |-> need, refs |-> 1])

Allocate(p, need) ==
    /\ p \in DOMAIN free
    /\ isAvailable(free[p]) /\ free[p].count > need
    /\ LET rest == free[p].count - need
       IN  /\ free' = [free EXCEPT ![p].count = rest]
           /\ used' = Put(used, p + rest, [count |-> need, refs |-> 1])

-----------------------------------------------------------------------------
(* Reference counts *)

\* The count is kept in the 22 bits of next; the code does not check that
\* it fits.  NextMod bounds it here.
Dup(b, delta) ==
    /\ b \in DOMAIN used /\ used[b].refs > 0
    /\ used[b].refs + delta < NextMod
    /\ used' = [used EXCEPT ![b].refs = @ + delta]
    /\ UNCHANGED free

\* Slip: a count of 0 is decremented.
UndupBelowZero(b) ==
    /\ b \in DOMAIN used
    /\ used' = [used EXCEPT ![b].refs = @ - 1]
    /\ UNCHANGED free

Undup(b) ==
    /\ b \in DOMAIN used /\ used[b].refs > 0
    /\ used' = [used EXCEPT ![b].refs = @ - 1]
    /\ UNCHANGED free

DupNew(b) ==
    /\ b \in DOMAIN used /\ used[b].refs = 0
    /\ used' = [used EXCEPT ![b].refs = 1]
    /\ UNCHANGED free

-----------------------------------------------------------------------------
(* releaseImpl: p is the last free block before b. *)

\* Slip: the walk stops at the first block below b.
SomeBlockBelow(p, b) == p \in DOMAIN free /\ p < b

IsPredecessor(p, b) ==
    p \in DOMAIN free /\ p < b /\ b < free[p].next

\* Slip: a block that is still referenced is returned.
ReleaseReferenced(p, b) ==
    /\ b \in DOMAIN used
    /\ IsPredecessor(p, b) /\ b = p + free[p].count
    /\ free' = [free EXCEPT ![p].count = @ + used[b].count]
    /\ used' = Remove(used, b)

\* b starts where p ends: p grows over it.
ReleaseAdjacent(p, b) ==
    /\ b \in DOMAIN used /\ used[b].refs = 0
    /\ IsPredecessor(p, b) /\ b = p + free[p].count
    /\ free' = [free EXCEPT ![p].count = @ + used[b].count]
    /\ used' = Remove(used, b)

\* Otherwise b becomes a free block of its own, right after p.
ReleaseApart(p, b) ==
    /\ b \in DOMAIN used /\ used[b].refs = 0
    /\ IsPredecessor(p, b) /\ b # p + free[p].count
    /\ free' = Put([free EXCEPT ![p].next = b], b,
                   [next |-> free[p].next, count |-> used[b].count,
                    status |-> AVAILABLE])
    /\ used' = Remove(used, b)

-----------------------------------------------------------------------------
(* updateNodeStatus and joinNodesIfNeed *)

MarkHead(p) ==
    /\ p \in DOMAIN free /\ free[p].next # NodeCount
    /\ isJoinable(p, free[p])
    /\ free' = [free EXCEPT ![p].status = @ \cup {JOIN_HEAD}]
    /\ UNCHANGED used

MarkTail(p) ==
    /\ p \in DOMAIN free /\ isJoinHead(free[p])
    /\ free' = [free EXCEPT ![free[p].next].status = @ \cup {JOIN_TAIL}]
    /\ UNCHANGED used

\* Slip: the head's count stays what it was.
JoinKeepsCount(p) ==
    /\ p \in DOMAIN free /\ isJoinHead(free[p])
    /\ LET c == free[p].next
       IN  /\ isJoinTail(free[c])
           /\ free' = Remove([free EXCEPT ![p].next = free[c].next,
                                         ![p].status = AVAILABLE], c)
    /\ UNCHANGED used

Join(p) ==
    /\ p \in DOMAIN free /\ isJoinHead(free[p])
    /\ LET c == free[p].next
       IN  /\ isJoinTail(free[c])
           /\ free' = Remove([free EXCEPT ![p] =
                  [next   |-> free[c].next,
                   count  |-> @.count + free[c].count,
                   status |-> (@.status \ {JOIN_HEAD})
                                  \cup (free[c].status \ {JOIN_TAIL})]], c)
    /\ UNCHANGED used

-----------------------------------------------------------------------------
Next ==
    \/ \E p \in DOMAIN free :
          \/ \E need \in Needs : Allocate(p, need)
          \/ \E b \in DOMAIN used : ReleaseAdjacent(p, b) \/ ReleaseApart(p, b)
          \/ MarkHead(p) \/ MarkTail(p) \/ Join(p)
    \/ \E b \in DOMAIN used :
          \/ \E delta \in Deltas : Dup(b, delta)
          \/ Undup(b) \/ DupNew(b)

Spec == Init /\ [][Next]_vars

-----------------------------------------------------------------------------
(* Properties *)

TypeOK ==
    /\ DOMAIN free \subseteq 1 .. NodeCount - 1
    /\ DOMAIN used \subseteq 2 .. NodeCount - 1
    /\ free \in [DOMAIN free -> Link]
    /\ used \in [DOMAIN used -> [count : Nat, refs : 0 .. NextMod - 1]]

(***************************************************************************)
(* The list is sorted and skips nothing: each free block's link is the     *)
(* nearest free block above it, or the end mark, and no block reaches      *)
(* past its link.  A traversal that starts at node 1 sees every free block *)
(* (getNextSnapshot follows nothing but next).                             *)
(***************************************************************************)
Linked ==
    /\ 1 \in DOMAIN free
    /\ \A i \in DOMAIN free :
          /\ free[i].count > 0 /\ i + free[i].count <= free[i].next
          /\ free[i].next \in DOMAIN free \cup {NodeCount}
          /\ \A j \in DOMAIN free : i < j => free[i].next <= j

(***************************************************************************)
(* No chunk has two owners: allocated blocks overlap neither each other    *)
(* nor the free blocks, in whatever order blocks were carved, returned and *)
(* merged.                                                                 *)
(***************************************************************************)
Disjoint ==
    \A b \in DOMAIN used :
        /\ used[b].count > 0 /\ b + used[b].count <= NodeCount
        /\ \A i \in DOMAIN free :
              b + used[b].count <= i \/ i + free[i].count <= b
        /\ \A c \in DOMAIN used :
              c # b => b + used[b].count <= c \/ c + used[c].count <= b

(***************************************************************************)
(* No chunk is lost: each chunk but chunk 0 belongs to a free block or to  *)
(* an allocated one, after any number of splits and merges.                *)
(***************************************************************************)
NoLeak ==
    \A x \in 1 .. NodeCount - 1 :
        \/ \E i \in DOMAIN free : i <= x /\ x < i + free[i].count
        \/ \E b \in DOMAIN used : b <= x /\ x < b + used[b].count

(***************************************************************************)
(* A half-finished merge can always be finished: a block flagged JOIN_HEAD *)
(* still touches its successor, and a block flagged JOIN_TAIL still has a  *)
(* flagged predecessor.  (A JOIN_TAIL without its JOIN_HEAD would turn     *)
(* every traversal back, getNextSnapshot lines 290-292, for good.)         *)
(***************************************************************************)
MergeCanFinish ==
    /\ \A i \in DOMAIN free :
          isJoinHead(free[i]) =>
              free[i].next # NodeCount /\ isJoinable(i, free[i])
    /\ \A c \in DOMAIN free :
          isJoinTail(free[c]) =>
              \E p \in DOMAIN free : free[p].next = c /\ isJoinHead(free[p])

Inv == TypeOK /\ Linked /\ Disjoint /\ NoLeak /\ MergeCanFinish

\* The list implements the heap its callers see.
HeapSpec == Heap!Spec
=============================================================================
