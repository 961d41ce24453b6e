--------------------------- MODULE FreeListProofs ---------------------------
(***************************************************************************)
(* Proofs about FreeList, for every number of nodes, every set of request  *)
(* sizes and every behaviour: the invariant Inv is inductive, and the list *)
(* implements ChunkHeap.                                                   *)
(***************************************************************************)
EXTENDS FreeList, TLAPS

USE NodeCountAssumption, NextModAssumption, NeedsAssumption, DeltasAssumption

\* What init() writes: one free block, which owns every chunk.
LEMMA InitInv == Init => Inv
<1> SUFFICES ASSUME Init PROVE Inv
    OBVIOUS
<1>1. /\ DOMAIN free = {1} /\ DOMAIN used = {}
      /\ free[1] = [next |-> NodeCount, count |-> NodeCount - 1, status |-> {}]
      /\ free = [i \in {1} |-> free[i]]
      /\ used = [i \in {} |-> [count |-> 0, refs |-> 0]]
    BY DEF Init, AVAILABLE
<1>2. TypeOK
    BY <1>1 DEF TypeOK, Link
<1>3. Linked /\ Disjoint
    BY <1>1 DEF Linked, Disjoint
<1>4. NoLeak
    BY <1>1 DEF NoLeak
<1>5. MergeCanFinish
    BY <1>1 DEF MergeCanFinish, isJoinHead, isJoinTail
<1> QED
    BY <1>2, <1>3, <1>4, <1>5 DEF Inv

\* Carving a block from the tail of a free one (allocate).
LEMMA AllocateInv ==
    ASSUME Inv, NEW p \in DOMAIN free, NEW need \in Needs, Allocate(p, need)
    PROVE  Inv'
<1> DEFINE rest == free[p].count - need
           b == p + rest
<1>1. /\ DOMAIN free' = DOMAIN free
      /\ free'[p] = [free[p] EXCEPT !.count = rest]
      /\ \A i \in DOMAIN free : i # p => free'[i] = free[i]
      /\ free' = [i \in DOMAIN free |-> free'[i]]
    BY DEF Allocate
<1>2. /\ DOMAIN used' = DOMAIN used \cup {b}
      /\ used'[b] = [count |-> need, refs |-> 1]
      /\ \A i \in DOMAIN used : i # b => used'[i] = used[i]
      /\ used' = [i \in DOMAIN used' |-> used'[i]]
  <2>1. used' = Put(used, b, [count |-> need, refs |-> 1])
    BY DEF Allocate
  <2> QED
    BY <2>1 DEF Put
<1>3. /\ free[p].count > need /\ free[p].status = {}
      /\ need \in Nat \ {0} /\ rest \in Nat \ {0}
      /\ p \in 1 .. NodeCount - 1 /\ free[p] \in Link
    BY DEF Allocate, isAvailable, AVAILABLE, Inv, TypeOK, Link
<1>4. /\ b \in 2 .. NodeCount - 1 /\ b \notin DOMAIN used
      /\ b + need = p + free[p].count /\ p < b
  <2>1. p + free[p].count <= free[p].next /\ free[p].next <= NodeCount
    BY <1>3 DEF Inv, TypeOK, Linked, Link
  <2>2. ASSUME b \in DOMAIN used PROVE FALSE
    BY <1>3, <2>1, <2>2 DEF Inv, TypeOK, Disjoint, Link
  <2> QED
    BY <1>3, <2>1, <2>2 DEF Link
<1>5. TypeOK'
    BY <1>1, <1>2, <1>3, <1>4 DEF Inv, TypeOK, Link
<1>6. Linked'
    BY <1>1, <1>3 DEF Inv, TypeOK, Linked, Link
<1>7. Disjoint'
    BY <1>1, <1>2, <1>3, <1>4 DEF Inv, TypeOK, Linked, Disjoint, Link
<1>8. NoLeak'
    BY <1>1, <1>2, <1>3, <1>4 DEF Inv, TypeOK, NoLeak, Link
<1>9. MergeCanFinish'
    BY <1>1, <1>3 DEF Inv, TypeOK, MergeCanFinish, Link, isJoinHead, isJoinTail, isJoinable
<1> QED
    BY <1>5, <1>6, <1>7, <1>8, <1>9 DEF Inv

\* dup, undup and dupNew change counts only, and keep them in 22 bits.
LEMMA RefsInv ==
    ASSUME Inv, NEW b \in DOMAIN used, NEW refs \in 0 .. NextMod - 1,
           used' = [used EXCEPT ![b].refs = refs], UNCHANGED free
    PROVE  Inv'
<1>1. /\ DOMAIN used' = DOMAIN used
      /\ \A c \in DOMAIN used : used'[c].count = used[c].count
      /\ used' \in [DOMAIN used -> [count : Nat, refs : 0 .. NextMod - 1]]
    BY DEF Inv, TypeOK
<1>2. TypeOK'
    BY <1>1 DEF Inv, TypeOK
<1>3. Linked' /\ MergeCanFinish'
    BY DEF Inv, Linked, MergeCanFinish, isJoinHead, isJoinTail, isJoinable
<1>4. Disjoint' /\ NoLeak'
    BY <1>1 DEF Inv, Disjoint, NoLeak
<1> QED
    BY <1>2, <1>3, <1>4 DEF Inv

\* releaseImpl, the predecessor grows over the block.
LEMMA ReleaseAdjacentInv ==
    ASSUME Inv, NEW p \in DOMAIN free, NEW b \in DOMAIN used,
           ReleaseAdjacent(p, b)
    PROVE  Inv'
<1>1. /\ DOMAIN free' = DOMAIN free
      /\ free'[p] = [free[p] EXCEPT !.count = @ + used[b].count]
      /\ \A i \in DOMAIN free : i # p => free'[i] = free[i]
      /\ free' = [i \in DOMAIN free |-> free'[i]]
    BY DEF ReleaseAdjacent
<1>2. /\ DOMAIN used' = DOMAIN used \ {b}
      /\ \A c \in DOMAIN used : c # b => used'[c] = used[c]
      /\ used' = [c \in DOMAIN used' |-> used'[c]]
    BY DEF ReleaseAdjacent, Remove
<1>3. /\ p < b /\ b < free[p].next /\ b = p + free[p].count
      /\ p \in 1 .. NodeCount - 1 /\ free[p] \in Link
      /\ b \in 2 .. NodeCount - 1 /\ used[b].count \in Nat \ {0}
    BY DEF ReleaseAdjacent, IsPredecessor, Inv, TypeOK, Disjoint
\* The block above p starts where b ends, or later.
<1>4. b + used[b].count <= free[p].next
    BY <1>3 DEF Inv, TypeOK, Linked, Disjoint, Link
<1>5. TypeOK'
    BY <1>1, <1>2, <1>3 DEF Inv, TypeOK, Link
<1>6. Linked'
    BY <1>1, <1>3, <1>4 DEF Inv, TypeOK, Linked, Link
<1>7. Disjoint'
    BY <1>1, <1>2, <1>3, <1>4 DEF Inv, TypeOK, Linked, Disjoint, Link
<1>8. NoLeak'
    BY <1>1, <1>2, <1>3 DEF Inv, TypeOK, NoLeak, Link
<1>9. MergeCanFinish'
    BY <1>1, <1>3 DEF Inv, TypeOK, MergeCanFinish, Link, isJoinHead, isJoinTail,
                      isJoinable
<1> QED
    BY <1>5, <1>6, <1>7, <1>8, <1>9 DEF Inv

\* releaseImpl, the block is linked in after its predecessor.
LEMMA ReleaseApartInv ==
    ASSUME Inv, NEW p \in DOMAIN free, NEW b \in DOMAIN used,
           ReleaseApart(p, b)
    PROVE  Inv'
<1> DEFINE next == free[p].next
<1>1. /\ p < b /\ b < next /\ b # p + free[p].count
      /\ p \in 1 .. NodeCount - 1 /\ free[p] \in Link
      /\ b \in 2 .. NodeCount - 1 /\ used[b].count \in Nat \ {0}
    BY DEF ReleaseApart, IsPredecessor, Inv, TypeOK, Disjoint
<1>2. b \notin DOMAIN free
    BY <1>1 DEF Inv, TypeOK, Linked, Link
<1>3. /\ DOMAIN free' = DOMAIN free \cup {b}
      /\ free'[p] = [free[p] EXCEPT !.next = b]
      /\ free'[b] = [next |-> next, count |-> used[b].count, status |-> {}]
      /\ \A i \in DOMAIN free : i # p => free'[i] = free[i]
      /\ free' = [i \in DOMAIN free' |-> free'[i]]
    BY <1>2 DEF ReleaseApart, Put, AVAILABLE
<1>4. /\ DOMAIN used' = DOMAIN used \ {b}
      /\ \A c \in DOMAIN used : c # b => used'[c] = used[c]
      /\ used' = [c \in DOMAIN used' |-> used'[c]]
    BY DEF ReleaseApart, Remove
<1>5. b + used[b].count <= next /\ p + free[p].count < b /\ next <= NodeCount
  <2>1. next \in DOMAIN free \cup {NodeCount} /\ free[p].count \in Nat
    BY DEF Inv, TypeOK, Linked, Link
  <2>2. p + free[p].count < b
    BY <1>1, <2>1 DEF Inv, Disjoint
  <2>3. CASE next = NodeCount
    BY <1>1, <2>2, <2>3 DEF Inv, Disjoint
  <2>4. CASE next \in DOMAIN free
    BY <1>1, <2>2, <2>4 DEF Inv, TypeOK, Disjoint, Link
  <2> QED
    BY <2>1, <2>2, <2>3, <2>4
<1>6. TypeOK'
  <2>1. next \in 0 .. NextMod - 1 /\ b \in 0 .. NextMod - 1
    BY <1>1 DEF Link
  <2>2. free'[p] \in Link /\ free'[b] \in Link
    BY <1>1, <1>3, <2>1 DEF Link
  <2>3. \A i \in DOMAIN free' : free'[i] \in Link
    BY <1>3, <2>2 DEF Inv, TypeOK
  <2> QED
    BY <1>1, <1>3, <1>4, <2>3 DEF Inv, TypeOK
<1>7. Linked'
    BY <1>1, <1>2, <1>3, <1>5 DEF Inv, TypeOK, Linked, Link
<1>8. Disjoint'
    BY <1>1, <1>2, <1>3, <1>4, <1>5 DEF Inv, TypeOK, Linked, Disjoint, Link
<1>9. NoLeak'
    BY <1>1, <1>2, <1>3, <1>4 DEF Inv, TypeOK, NoLeak, Link
\* p was not flagged JOIN_HEAD, since it does not touch its successor.
<1>10. MergeCanFinish'
  <2>1. /\ ~ isJoinHead(free[p])
        /\ \A i \in DOMAIN free : isJoinHead(free[i]) =>
               i # p /\ free[i].next # NodeCount /\ isJoinable(i, free[i])
    <3>1. \A i \in DOMAIN free : isJoinHead(free[i]) =>
               free[i].next # NodeCount /\ isJoinable(i, free[i])
        BY DEF Inv, MergeCanFinish
    <3>2. ~ isJoinable(p, free[p])
        BY <1>1, <1>5 DEF isJoinable, Link
    <3> QED
        BY <3>1, <3>2
  <2>2. ~ isJoinHead(free'[p]) /\ ~ isJoinHead(free'[b]) /\ ~ isJoinTail(free'[b])
    BY <1>1, <1>3, <2>1 DEF Link, isJoinHead, isJoinTail
  <2>3. ASSUME NEW i \in DOMAIN free', isJoinHead(free'[i])
        PROVE  free'[i].next # NodeCount /\ isJoinable(i, free'[i])
    <3>1. i \in DOMAIN free /\ i # p /\ free'[i] = free[i]
        BY <1>3, <2>2, <2>3
    <3> QED
        BY <2>1, <2>3, <3>1
  <2>4. ASSUME NEW c \in DOMAIN free', isJoinTail(free'[c])
        PROVE  \E q \in DOMAIN free' : free'[q].next = c /\ isJoinHead(free'[q])
    <3>1. c \in DOMAIN free /\ isJoinTail(free[c])
        BY <1>1, <1>3, <2>2, <2>4 DEF Link, isJoinTail
    <3>2. PICK q \in DOMAIN free : free[q].next = c /\ isJoinHead(free[q])
        BY <3>1 DEF Inv, MergeCanFinish
    <3>3. q # p /\ free'[q] = free[q] /\ q \in DOMAIN free'
        BY <1>3, <2>1, <3>2
    <3> QED
        BY <3>2, <3>3
  <2> QED
    BY <2>3, <2>4 DEF MergeCanFinish
<1> QED
    BY <1>6, <1>7, <1>8, <1>9, <1>10 DEF Inv

\* updateNodeStatus, the first swap.
LEMMA MarkHeadInv ==
    ASSUME Inv, NEW p \in DOMAIN free, MarkHead(p)
    PROVE  Inv'
<1>1. /\ DOMAIN free' = DOMAIN free
      /\ free'[p] = [free[p] EXCEPT !.status = @ \cup {JOIN_HEAD}]
      /\ \A i \in DOMAIN free : i # p => free'[i] = free[i]
      /\ free' = [i \in DOMAIN free |-> free'[i]]
      /\ used' = used
    BY DEF MarkHead
<1>2. free[p] \in Link /\ free'[p] \in Link
    BY <1>1 DEF Inv, TypeOK, Link
<1>3. free[p].next # NodeCount /\ free[p].next = p + free[p].count
    BY DEF MarkHead, isJoinable
<1>4. TypeOK'
    BY <1>1, <1>2 DEF Inv, TypeOK
<1>5. Linked' /\ Disjoint' /\ NoLeak'
    BY <1>1, <1>2 DEF Inv, Linked, Disjoint, NoLeak, Link
<1>6. MergeCanFinish'
    BY <1>1, <1>2, <1>3 DEF Inv, MergeCanFinish, Link, isJoinHead, isJoinTail,
                            isJoinable, JOIN_HEAD, JOIN_TAIL
<1> QED
    BY <1>4, <1>5, <1>6 DEF Inv

\* updateNodeStatus, the second swap: the predecessor is flagged already.
LEMMA MarkTailInv ==
    ASSUME Inv, NEW p \in DOMAIN free, MarkTail(p)
    PROVE  Inv'
<1> DEFINE c == free[p].next
<1>1. c \in DOMAIN free /\ isJoinHead(free[p]) /\ p # c
    BY DEF MarkTail, Inv, TypeOK, Linked, MergeCanFinish, Link
<1>2. /\ DOMAIN free' = DOMAIN free
      /\ free'[c] = [free[c] EXCEPT !.status = @ \cup {JOIN_TAIL}]
      /\ \A i \in DOMAIN free : i # c => free'[i] = free[i]
      /\ free' = [i \in DOMAIN free |-> free'[i]]
      /\ used' = used
    BY <1>1 DEF MarkTail
<1>3. free[c] \in Link /\ free'[c] \in Link
    BY <1>1, <1>2 DEF Inv, TypeOK, Link
<1>4. TypeOK'
    BY <1>2, <1>3 DEF Inv, TypeOK
<1>5. Linked' /\ Disjoint' /\ NoLeak'
    BY <1>2, <1>3 DEF Inv, Linked, Disjoint, NoLeak, Link
<1>6. MergeCanFinish'
    BY <1>1, <1>2, <1>3 DEF Inv, MergeCanFinish, Link, isJoinHead, isJoinTail,
                            isJoinable, JOIN_HEAD, JOIN_TAIL
<1> QED
    BY <1>4, <1>5, <1>6 DEF Inv

\* joinNodesIfNeed: the successor disappears into its predecessor.
LEMMA JoinInv ==
    ASSUME Inv, NEW p \in DOMAIN free, Join(p)
    PROVE  Inv'
<1> DEFINE c == free[p].next
           merged == [next   |-> free[c].next,
                      count  |-> free[p].count + free[c].count,
                      status |-> (free[p].status \ {JOIN_HEAD})
                                     \cup (free[c].status \ {JOIN_TAIL})]
\* p still touches c: that is what its JOIN_HEAD flag records.
<1>1. /\ c \in DOMAIN free /\ p < c /\ c = p + free[p].count
      /\ isJoinHead(free[p]) /\ isJoinTail(free[c])
    BY DEF Join, Inv, TypeOK, Linked, MergeCanFinish, Link, isJoinable
<1>2. /\ DOMAIN free' = DOMAIN free \ {c}
      /\ free'[p] = merged
      /\ \A i \in DOMAIN free' : i # p => free'[i] = free[i]
      /\ free' = [i \in DOMAIN free' |-> free'[i]]
      /\ used' = used
    BY <1>1 DEF Join, Remove, Inv, TypeOK
<1>3. /\ free[p] \in Link /\ free[c] \in Link /\ merged \in Link
      /\ p \in 1 .. NodeCount - 1 /\ c \in 1 .. NodeCount - 1
    BY <1>1 DEF Inv, TypeOK, Link
\* Only p links to c.
<1>4. ASSUME NEW i \in DOMAIN free, free[i].next = c
      PROVE  i = p
  <2>1. i \in 1 .. NodeCount - 1 /\ free[i].count \in Nat
    BY DEF Inv, TypeOK, Link
  <2>2. ~ (i < p)
    BY <1>1, <1>3, <1>4, <2>1 DEF Inv, Linked
  <2>3. ~ (p < i)
    BY <1>1, <1>3, <1>4, <2>1 DEF Inv, Linked
  <2> QED
    BY <1>3, <2>1, <2>2, <2>3
<1>5. TypeOK'
    BY <1>2, <1>3 DEF Inv, TypeOK
<1>6. Linked'
  <2>1. 1 \in DOMAIN free'
    BY <1>1, <1>2, <1>3 DEF Inv, Linked
  <2>2. ASSUME NEW i \in DOMAIN free', i # p
        PROVE  /\ free'[i].count > 0 /\ i + free'[i].count <= free'[i].next
               /\ free'[i].next \in DOMAIN free' \cup {NodeCount}
               /\ \A j \in DOMAIN free' : i < j => free'[i].next <= j
    BY <1>2, <1>4, <2>2 DEF Inv, Linked
  <2>3. /\ merged.count > 0 /\ p + merged.count <= merged.next
        /\ merged.next \in DOMAIN free' \cup {NodeCount}
    BY <1>1, <1>2, <1>3 DEF Inv, TypeOK, Linked, Link
  <2>4. \A j \in DOMAIN free' : p < j => merged.next <= j
    BY <1>1, <1>2, <1>3 DEF Inv, TypeOK, Linked, Link
  <2> QED
    BY <1>2, <2>1, <2>2, <2>3, <2>4 DEF Linked
<1>7. Disjoint'
    BY <1>1, <1>2, <1>3 DEF Inv, TypeOK, Disjoint, Link
<1>8. NoLeak'
    BY <1>1, <1>2, <1>3 DEF Inv, TypeOK, NoLeak, Link
<1>9. MergeCanFinish'
  <2> USE DEF isJoinHead, isJoinTail, isJoinable, JOIN_HEAD, JOIN_TAIL
  <2>1. ASSUME NEW i \in DOMAIN free', isJoinHead(free'[i])
        PROVE  free'[i].next # NodeCount /\ isJoinable(i, free'[i])
    <3>1. CASE i = p
      BY <1>1, <1>2, <1>3, <2>1, <3>1 DEF Inv, MergeCanFinish, Link
    <3>2. CASE i # p
      BY <1>2, <2>1, <3>2 DEF Inv, MergeCanFinish
    <3> QED
      BY <3>1, <3>2
  <2>2. ASSUME NEW d \in DOMAIN free', isJoinTail(free'[d])
        PROVE  \E q \in DOMAIN free' :
                   free'[q].next = d /\ isJoinHead(free'[q])
    <3>1. isJoinTail(free[d]) /\ d \in DOMAIN free
      BY <1>2, <2>2, <1>3 DEF Link
    <3>2. PICK q \in DOMAIN free : free[q].next = d /\ isJoinHead(free[q])
      BY <3>1 DEF Inv, MergeCanFinish
    \* If it was c that led to d, p does now, and keeps c's flag.
    <3>3. CASE q = c
      BY <1>1, <1>2, <3>2, <3>3
    <3>4. CASE q # c
      BY <1>1, <1>2, <3>2, <3>4
    <3> QED
      BY <3>3, <3>4
  <2> QED
    BY <2>1, <2>2 DEF MergeCanFinish
<1> QED
    BY <1>5, <1>6, <1>7, <1>8, <1>9 DEF Inv

\* The invariant is inductive: one case for each action.
LEMMA NextInv == Inv /\ [Next]_vars => Inv'
<1> SUFFICES ASSUME Inv, [Next]_vars PROVE Inv'
    OBVIOUS
<1>1. ASSUME NEW p \in DOMAIN free, NEW need \in Needs, Allocate(p, need)
      PROVE  Inv'
    BY <1>1, AllocateInv
<1>2. ASSUME NEW p \in DOMAIN free, NEW b \in DOMAIN used, ReleaseAdjacent(p, b)
      PROVE  Inv'
    BY <1>2, ReleaseAdjacentInv
<1>3. ASSUME NEW p \in DOMAIN free, NEW b \in DOMAIN used, ReleaseApart(p, b)
      PROVE  Inv'
    BY <1>3, ReleaseApartInv
<1>4. ASSUME NEW p \in DOMAIN free, MarkHead(p) \/ MarkTail(p) \/ Join(p)
      PROVE  Inv'
    BY <1>4, MarkHeadInv, MarkTailInv, JoinInv
<1>5. ASSUME NEW b \in DOMAIN used,
             (\E delta \in Deltas : Dup(b, delta)) \/ Undup(b) \/ DupNew(b)
      PROVE  Inv'
  <2>0. used[b].refs \in 0 .. NextMod - 1 /\ 1 \in 0 .. NextMod - 1
    BY NextModAssumption, NodeCountAssumption DEF Inv, TypeOK
  <2>1. ASSUME NEW delta \in Deltas, Dup(b, delta) PROVE Inv'
    <3>1. used[b].refs + delta \in 0 .. NextMod - 1
      BY <2>0, <2>1, NextModAssumption, DeltasAssumption DEF Dup
    <3>2. used' = [used EXCEPT ![b].refs = used[b].refs + delta] /\ UNCHANGED free
      BY <2>1 DEF Dup
    <3> QED
      BY <3>1, <3>2, RefsInv
  <2>2. CASE Undup(b)
    <3>1. used[b].refs - 1 \in 0 .. NextMod - 1
      BY <2>0, <2>2, NextModAssumption DEF Undup
    <3>2. used' = [used EXCEPT ![b].refs = used[b].refs - 1] /\ UNCHANGED free
      BY <2>2 DEF Undup
    <3> QED
      BY <3>1, <3>2, RefsInv
  <2>3. CASE DupNew(b)
    BY <2>0, <2>3, RefsInv DEF DupNew
  <2> QED
    BY <1>5, <2>1, <2>2, <2>3
<1>6. CASE UNCHANGED vars
    BY <1>6 DEF vars, Inv, TypeOK, Linked, Disjoint, NoLeak, MergeCanFinish,
                isJoinHead, isJoinTail, isJoinable
<1> QED
    BY <1>1, <1>2, <1>3, <1>4, <1>5, <1>6 DEF Next

(***************************************************************************)
(* The free list stays sorted and complete, no chunk has two owners, no    *)
(* chunk is lost and every started merge can be finished, through every    *)
(* sequence of allocations, releases and merges (variable_allocator.hh).   *)
(***************************************************************************)
THEOREM Safety == Spec => []Inv
BY InitInv, NextInv, PTL DEF Spec

(* The parts of the invariant, one by one. *)

\* Indices stay in the region and a reference count fits the field next of a
\* node's word, for a region of any size.
THEOREM TypeCorrect == Spec => []TypeOK
<1>1. Inv => TypeOK
    BY DEF Inv
<1> QED
    BY <1>1, Safety, PTL

\* No two callers of allocate are ever given the same chunk, nor a chunk that
\* is still on the free list.
THEOREM NoOverlap == Spec => []Disjoint
<1>1. Inv => Disjoint
    BY DEF Inv
<1> QED
    BY <1>1, Safety, PTL

\* releaseImpl and joinNodesIfNeed give back every chunk that allocate took.
THEOREM NothingLost == Spec => []NoLeak
<1>1. Inv => NoLeak
    BY DEF Inv
<1> QED
    BY <1>1, Safety, PTL

\* A merge that a thread has begun in updateNodeStatus can be finished by any
\* other: the asserts of getNextSnapshot (288) and joinNodesIfNeed (311) hold.
THEOREM MergesFinish == Spec => []MergeCanFinish
<1>1. Inv => MergeCanFinish
    BY DEF Inv
<1> QED
    BY <1>1, Safety, PTL

\* The chain of next fields stays in address order and leaves no block out,
\* as findCandidate needs to find every one of them.
THEOREM ListInOrder == Spec => []Linked
<1>1. Inv => Linked
    BY DEF Inv
<1> QED
    BY <1>1, Safety, PTL
-----------------------------------------------------------------------------
(* Refinement: the free list implements the heap of ChunkHeap. *)

\* A block carved from the tail of a free block overlaps no allocated one.
LEMMA AllocateAcquires ==
    ASSUME Inv, NEW p \in DOMAIN free, NEW need \in Needs, Allocate(p, need)
    PROVE  Heap!Next
<1> DEFINE b == p + free[p].count - need
<1>1. /\ p \in 1 .. NodeCount - 1 /\ need \in Nat /\ need > 0
      /\ free[p].count \in Nat /\ free[p].count > need
      /\ free[p].next \in Nat /\ p + free[p].count <= free[p].next
      /\ free[p].next <= NodeCount /\ NodeCount \in Nat
    BY NeedsAssumption, NodeCountAssumption DEF Inv, TypeOK, Linked, Link, Allocate
<1>2. b \in 1 .. NodeCount /\ need \in 1 .. NodeCount /\ b > 1 /\ b + need <= NodeCount
    BY <1>1
<1>3. ASSUME NEW c \in DOMAIN used PROVE ~ Heap!Overlaps(b, need, c, used[c].count)
  <2>1. c + used[c].count <= p \/ p + free[p].count <= c
    BY DEF Inv, Disjoint
  <2>2. c \in Nat /\ used[c].count \in Nat
    BY DEF Inv, TypeOK
  <2> QED
    BY <1>1, <2>1, <2>2 DEF Heap!Overlaps
<1>4. used' = Heap!Put(used, b, [count |-> need, refs |-> 1])
  <2>1. p + (free[p].count - need) = b
    BY <1>1
  <2> QED
    BY <2>1 DEF Allocate, Put, Heap!Put
<1>5. Heap!Acquire(b, need)
    BY <1>2, <1>3, <1>4 DEF Heap!Acquire
<1> QED
    BY <1>2, <1>5 DEF Heap!Next

\* Each action is one action of the heap; marks and joins are stutters.
LEMMA StepRefines == Inv /\ [Next]_vars => [Heap!Next]_(Heap!vars)
<1> SUFFICES ASSUME Inv, [Next]_vars PROVE [Heap!Next]_(Heap!vars)
    OBVIOUS
<1>1. ASSUME NEW p \in DOMAIN free, NEW need \in Needs, Allocate(p, need)
      PROVE  Heap!Next
    BY <1>1, AllocateAcquires
<1>2. ASSUME NEW p \in DOMAIN free, NEW b \in DOMAIN used,
             ReleaseAdjacent(p, b) \/ ReleaseApart(p, b)
      PROVE  Heap!Next
    BY <1>2 DEF ReleaseAdjacent, ReleaseApart, Remove,
                Heap!Next, Heap!Reclaim, Heap!Remove
<1>3. ASSUME NEW p \in DOMAIN free, MarkHead(p) \/ MarkTail(p) \/ Join(p)
      PROVE  UNCHANGED Heap!vars
    BY <1>3 DEF MarkHead, MarkTail, Join, Heap!vars
<1>4. ASSUME NEW b \in DOMAIN used, NEW delta \in Deltas, Dup(b, delta)
      PROVE  Heap!Next
    BY <1>4 DEF Dup, Heap!Next, Heap!AddRefs
<1>5. ASSUME NEW b \in DOMAIN used, Undup(b) \/ DupNew(b)
      PROVE  Heap!Next
    BY <1>5 DEF Undup, DupNew, Heap!Next, Heap!DropRef, Heap!Revive
<1>6. CASE UNCHANGED vars
    BY <1>6 DEF vars, Heap!vars
<1> QED
    BY <1>1, <1>2, <1>3, <1>4, <1>5, <1>6 DEF Next

(***************************************************************************)
(* Every step of the free list is a step of the abstract heap, or one the  *)
(* callers cannot see (a merge): whatever the region's size, what callers  *)
(* get are disjoint blocks that are reclaimed only without references.     *)
(***************************************************************************)
THEOREM Refinement == Spec => HeapSpec
<1>1. Init => Heap!Init
    BY DEF Init, Heap!Init
<1> QED
    BY <1>1, StepRefines, Safety, PTL DEF Spec, HeapSpec, Heap!Spec
=============================================================================
