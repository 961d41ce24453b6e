------------------------- MODULE VariableAllocator -------------------------
(***************************************************************************)
(* The lock-free variable-length allocator (variable_allocator.hh) as its  *)
(* threads run it: every step reads or writes one word of the shared node  *)
(* table, and what a thread computes from the word goes with it.           *)
(*                                                                         *)
(*   Snapshot, isModified    one atomic read of a word                     *)
(*   compare_and_swap        one step that succeeds iff the word still is  *)
(*                           the thread's snapshot of it                   *)
(*   node->version++, ...    plain stores, one step each: the compiled     *)
(*                           code stores them one by one                   *)
(*                                                                         *)
(* A failed assert() stops the process: the thread enters "abort".         *)
(***************************************************************************)
EXTENDS NodeWord, FiniteSets, Bags, TLC

CONSTANTS
    Threads,
    Ops,               \* the operations the clients call
    Needs,             \* chunk counts they ask for
    Deltas,            \* references one dup adds
    RetryLimit,        \* RETRY_LIMIT, 32 in the code
    LightRetryLimit,   \* LIGHT_RETRY_LIMIT, 1 in the code
    MaxCalls,          \* bound on the number of calls
    Running,           \* threads that are scheduled as long as they can step
    None               \* no descriptor, no snapshot, no base

ASSUME FiniteAssumption == IsFiniteSet(Threads)
ASSUME TagAssumption == VersionMod > 1
ASSUME AmountsAssumption == Needs \subseteq Nat \ {0} /\ Deltas \subseteq Nat \ {0}
ASSUME RetryAssumption == RetryLimit \in Nat /\ LightRetryLimit \in Nat
ASSUME CallsAssumption == MaxCalls \in Nat
ASSUME NoneAssumption ==
    None \notin Descriptors /\ None \notin [place : Indices, node : Words]
ASSUME OpsAssumption ==
    Ops \subseteq {"allocate", "release", "lightRelease", "dup", "dupNew",
                   "undup", "racyDup"}

\* Ref adds one reference at a time.
ASSUME RacyAssumption == "racyDup" \in Ops => 1 \in Deltas

VARIABLES
    nodes,     \* the shared table of words
    pc,        \* thread |-> the step it takes next
    call,      \* thread |-> the arguments and locals of its operation
    pred,      \* thread |-> snapshot `pred` of findCandidate
    curr,      \* thread |-> snapshot `curr`, later `cand`
    held,      \* bag of descriptors: the references clients own
    parked,    \* descriptors whose count reached 0, in their last owner's hand
    calls      \* number of calls made

locals == <<pc, call, pred, curr>>
vars == <<nodes, pc, call, pred, curr, held, parked, calls>>

-----------------------------------------------------------------------------
(* Snapshots and compare-and-swap (atomic.hh) *)

Snap(i) == [place |-> i, node |-> nodes[i]]

isModified(snap) == nodes[snap.place] # snap.node

index(snap) == snap.place

Swap(snap, word) ==
    /\ ~ isModified(snap)
    /\ nodes' = [nodes EXCEPT ![snap.place] = word]

-----------------------------------------------------------------------------
(* Calls and returns *)

NoCall == [op |-> "none", md |-> None, need |-> 0, carries |-> FALSE,
           retry |-> 0]

Labels == {"idle", "abort", "head", "next", "recheck", "markHead", "markTail",
           "join", "take", "initVersion", "initCount", "initRef", "dup",
           "dupCas", "dupNew", "dupNewCas", "undup", "undupCas", "link",
           "linkStatus", "bump", "publish", "undo"}

Goto(t, label) == pc' = [pc EXCEPT ![t] = label]

\* The snapshot of a thread is forgotten when its operation returns.
Return(t) ==
    /\ Goto(t, "idle")
    /\ call' = [call EXCEPT ![t] = NoCall]
    /\ pred' = [pred EXCEPT ![t] = None]
    /\ curr' = [curr EXCEPT ![t] = None]

Abort(t) == Goto(t, "abort") /\ UNCHANGED <<call, pred, curr>>

Hold(md, n) == held' = held (+) [d \in {md} |-> n]
Park(md) == parked' = parked \cup {md}
Copies(md) == IF BagIn(md, held) THEN held[md] ELSE 0

Limit(op) == IF op = "lightRelease" THEN LightRetryLimit ELSE RetryLimit

Begin(t, op, md, need, carries, label) ==
    /\ pc[t] = "idle" /\ op \in Ops /\ calls < MaxCalls
    /\ calls' = calls + 1
    /\ call' = [call EXCEPT ![t] = [op |-> op, md |-> md, need |-> need,
                                    carries |-> carries, retry |-> Limit(op)]]
    /\ Goto(t, label)
    /\ UNCHANGED <<nodes, pred, curr>>

CallAllocate(t, need) ==
    /\ Begin(t, "allocate", None, need, FALSE, "head")
    /\ UNCHANGED <<held, parked>>

\* A caller of release, lightRelease or undup gives up one reference; the
\* caller of dup lends one.
CallOnReference(t, op, md, n) ==
    /\ BagIn(md, held)
    /\ Begin(t, op, md, n, TRUE, IF op = "dup" THEN "dup" ELSE "undup")
    /\ held' = held (-) SetToBag({md})
    /\ UNCHANGED parked

\* The owner of a block whose count is 0 revives it (dupNew) or returns it
\* (FixedAllocator::release calls lightRelease after an undup of its own).
CallOnParked(t, op, md) ==
    /\ md \in parked
    /\ Begin(t, op, md, 0, FALSE, IF op = "dupNew" THEN "dupNew" ELSE "undup")
    /\ parked' = parked \ {md}
    /\ UNCHANGED held

\* Ref reads a descriptor from shared memory and dups it: nothing keeps the
\* block alive between the two (ref.hh, HashTrieImpl::dupRoot).
CallRacyDup(t, md) ==
    /\ BagIn(md, held)
    /\ Begin(t, "racyDup", md, 1, FALSE, "dup")
    /\ UNCHANGED <<held, parked>>

Call(t) ==
    \/ \E need \in Needs : CallAllocate(t, need)
    \/ \E md \in BagToSet(held) :
          \/ \E op \in {"release", "lightRelease", "undup"} :
                CallOnReference(t, op, md, 0)
          \/ \E delta \in Deltas : CallOnReference(t, "dup", md, delta)
          \/ CallRacyDup(t, md)
    \/ \E md \in parked, op \in {"dupNew", "release", "lightRelease"} :
          CallOnParked(t, op, md)

-----------------------------------------------------------------------------
(* findCandidate: walk the free list from node 0, merging on the way *)

Releasing(t) == call[t].op \in {"release", "lightRelease"}

\* Slip: one chunk too many is asked of a free block.
AcceptsLarger(t, word) ==
    IF Releasing(t) THEN call[t].md.index < word.next
                    ELSE isAvailable(word) /\ word.count > call[t].need + 1

\* IsEnoughChunk of allocate, IsPredecessor of releaseImpl
Accepts(t, word) ==
    IF Releasing(t) THEN call[t].md.index < word.next
                    ELSE isAvailable(word) /\ word.count > call[t].need

\* allocate returns 0, release false: the caller keeps the dead block.
Fail(t) ==
    /\ Return(t)
    /\ IF Releasing(t) THEN Park(call[t].md) ELSE UNCHANGED parked

Restart(t) ==
    /\ Goto(t, "head")
    /\ call' = [call EXCEPT ![t].retry = @ - 1]
    /\ pred' = [pred EXCEPT ![t] = None]
    /\ curr' = [curr EXCEPT ![t] = None]
    /\ UNCHANGED parked

Visit(t, snap) ==
    \/ /\ Accepts(t, snap.node)
       /\ curr' = [curr EXCEPT ![t] = snap]
       /\ pred' = [pred EXCEPT ![t] = None]
       /\ Goto(t, IF Releasing(t) THEN "link" ELSE "take")
       /\ UNCHANGED <<call, parked>>
    \/ /\ ~ Accepts(t, snap.node) /\ snap.node.next # NodeCount
       /\ pred' = [pred EXCEPT ![t] = snap]
       /\ curr' = [curr EXCEPT ![t] = None]
       /\ Goto(t, "next")
       /\ UNCHANGED <<call, parked>>
    \/ /\ ~ Accepts(t, snap.node) /\ snap.node.next = NodeCount
       /\ Fail(t)

Head(t) ==
    /\ pc[t] = "head"
    /\ \/ call[t].retry < 0 /\ Fail(t)
       \/ /\ call[t].retry >= 0
          /\ pred' = [pred EXCEPT ![t] = Snap(0)]
          /\ Goto(t, "next")
          /\ UNCHANGED <<call, curr, parked>>
    /\ UNCHANGED <<nodes, held, calls>>

NextSnapshot(t) ==
    /\ pc[t] = "next"
    /\ curr' = [curr EXCEPT ![t] = Snap(pred[t].node.next)]
    /\ Goto(t, "recheck")
    /\ UNCHANGED <<nodes, call, pred, held, parked, calls>>

\* The link that led to curr is still there.
Stale(t) == isModified(pred[t])

\* getNextSnapshot after its read of curr, and the choice among
\* updateNodeStatus, joinNodesIfNeed and the callback that follows.
Recheck(t) ==
    /\ pc[t] = "recheck"
    /\ LET p == pred[t].node
           c == curr[t].node
           broken == isJoinHead(c) /\ ~ isJoinable(index(curr[t]), c)
           turnBack == ~ isJoinHead(p) /\ isJoinTail(c)
       IN  \/ Stale(t) /\ Restart(t)
           \/ ~ Stale(t) /\ broken /\ Abort(t) /\ UNCHANGED parked
           \/ ~ Stale(t) /\ ~ broken /\ turnBack /\ Restart(t)
           \/ /\ ~ Stale(t) /\ ~ broken /\ ~ turnBack
              /\ IF isJoinable(index(pred[t]), p)
                 THEN Goto(t, "markHead") /\ UNCHANGED <<call, pred, curr, parked>>
                 ELSE IF isJoinHead(p) /\ isJoinTail(c)
                 THEN Abort(t) /\ UNCHANGED parked
                 ELSE Visit(t, curr[t])
    /\ UNCHANGED <<nodes, held, calls>>

\* updateNodeStatus: flag pred, then curr
MarkHead(t) ==
    /\ pc[t] = "markHead"
    /\ LET word == addStatus(pred[t].node, JOIN_HEAD)
       IN  \/ /\ Swap(pred[t], word)
              /\ pred' = [pred EXCEPT ![t].node = word]
              /\ Goto(t, "markTail")
              /\ UNCHANGED <<call, curr, parked>>
           \/ isModified(pred[t]) /\ Restart(t) /\ UNCHANGED nodes
    /\ UNCHANGED <<held, calls>>

MarkTail(t) ==
    /\ pc[t] = "markTail"
    /\ LET word == addStatus(curr[t].node, JOIN_TAIL)
       IN  \/ /\ Swap(curr[t], word)
              /\ curr' = [curr EXCEPT ![t].node = word]
              /\ Goto(t, "join")
              /\ UNCHANGED <<call, pred, parked>>
           \/ isModified(curr[t]) /\ Restart(t) /\ UNCHANGED nodes
    /\ UNCHANGED <<held, calls>>

\* joinNodesIfNeed: both flags are set now
Join(t) ==
    /\ pc[t] = "join"
    /\ LET word == join(pred[t].node, curr[t].node)
       IN  \/ Swap(pred[t], word) /\ Visit(t, [pred[t] EXCEPT !.node = word])
           \/ isModified(pred[t]) /\ Restart(t) /\ UNCHANGED nodes
    /\ UNCHANGED <<held, calls>>

-----------------------------------------------------------------------------
(* allocate, from the candidate on *)

\* Slip: a failed swap is tried again without another walk.
TakeSameCandidate(t) ==
    /\ pc[t] = "take"
    /\ LET rest == curr[t].node.count - call[t].need
       IN  /\ Swap(curr[t], changeCount(curr[t].node, rest))
           /\ call' = [call EXCEPT ![t].md =
                 [version |-> 0, index |-> index(curr[t]) + rest]]
    /\ curr' = [curr EXCEPT ![t] = None]
    /\ Goto(t, "initVersion")
    /\ UNCHANGED <<pred, held, parked, calls>>

\* The block is carved from the tail of the candidate.  A failed swap calls
\* allocate again, with a fresh retry count.
Take(t) ==
    /\ pc[t] = "take"
    /\ LET rest == curr[t].node.count - call[t].need
       IN  \/ /\ Swap(curr[t], changeCount(curr[t].node, rest))
              /\ call' = [call EXCEPT ![t].md =
                    [version |-> 0, index |-> index(curr[t]) + rest]]
              /\ curr' = [curr EXCEPT ![t] = None]
              /\ Goto(t, "initVersion")
           \/ /\ isModified(curr[t])
              /\ call' = [call EXCEPT ![t].retry = RetryLimit]
              /\ curr' = [curr EXCEPT ![t] = None]
              /\ Goto(t, "head")
              /\ UNCHANGED nodes
    /\ UNCHANGED <<pred, held, parked, calls>>

Base(t) == call[t].md.index

InitVersion(t) ==
    /\ pc[t] = "initVersion"
    /\ nodes' = [nodes EXCEPT ![Base(t)].version = Bump(@)]
    /\ call' = [call EXCEPT ![t].md.version = Bump(nodes[Base(t)].version)]
    /\ Goto(t, "initCount")
    /\ UNCHANGED <<pred, curr, held, parked, calls>>

InitCount(t) ==
    /\ pc[t] = "initCount"
    /\ nodes' = [nodes EXCEPT ![Base(t)].count = call[t].need]
    /\ Goto(t, "initRef")
    /\ UNCHANGED <<call, pred, curr, held, parked, calls>>

InitRef(t) ==
    /\ pc[t] = "initRef"
    /\ nodes' = [nodes EXCEPT ![Base(t)].next = 1]
    /\ Hold(call[t].md, 1)
    /\ Return(t)
    /\ UNCHANGED <<parked, calls>>

-----------------------------------------------------------------------------
(* dup, dupNew, undup: curr is the snapshot `snap` of the block's word *)

Matches(t, word) == word.version = call[t].md.version

\* A reference lent to dup comes back when dup returns.
Lent(t) == IF call[t].carries THEN 1 ELSE 0

\* Slip: dup does not look at the version.
DupAnyVersion(t) ==
    /\ pc[t] = "dup"
    /\ LET snap == Snap(Base(t))
       IN  \/ /\ snap.node.next = 0
              /\ IF Lent(t) = 0 THEN UNCHANGED held ELSE Hold(call[t].md, 1)
              /\ Return(t)
           \/ /\ snap.node.next # 0
              /\ curr' = [curr EXCEPT ![t] = snap]
              /\ Goto(t, "dupCas")
              /\ UNCHANGED <<call, pred, held>>
    /\ UNCHANGED <<nodes, parked, calls>>

DupRead(t) ==
    /\ pc[t] = "dup"
    /\ LET snap == Snap(Base(t))
       IN  \/ /\ ~ Matches(t, snap.node) \/ snap.node.next = 0
              /\ IF Lent(t) = 0 THEN UNCHANGED held ELSE Hold(call[t].md, 1)
              /\ Return(t)
           \/ /\ Matches(t, snap.node) /\ snap.node.next # 0
              /\ curr' = [curr EXCEPT ![t] = snap]
              /\ Goto(t, "dupCas")
              /\ UNCHANGED <<call, pred, held>>
    /\ UNCHANGED <<nodes, parked, calls>>

\* Slip: the new count is stored, not swapped in.
DupStore(t) ==
    /\ pc[t] = "dupCas"
    /\ nodes' = [nodes EXCEPT ![Base(t)].next = (curr[t].node.next + call[t].need) % NextMod]
    /\ Hold(call[t].md, call[t].need + Lent(t))
    /\ Return(t)
    /\ UNCHANGED <<parked, calls>>

DupCas(t) ==
    /\ pc[t] = "dupCas"
    /\ LET word == [curr[t].node EXCEPT !.next = (@ + call[t].need) % NextMod]
       IN  \/ /\ Swap(curr[t], word)
              /\ Hold(call[t].md, call[t].need + Lent(t))
              /\ Return(t)
           \/ /\ isModified(curr[t])
              /\ curr' = [curr EXCEPT ![t] = None]
              /\ Goto(t, "dup")
              /\ UNCHANGED <<nodes, call, pred, held>>
    /\ UNCHANGED <<parked, calls>>

DupNewRead(t) ==
    /\ pc[t] = "dupNew"
    /\ LET snap == Snap(Base(t))
       IN  \/ /\ Matches(t, snap.node) /\ snap.node.next = 0
              /\ curr' = [curr EXCEPT ![t] = snap]
              /\ Goto(t, "dupNewCas")
              /\ UNCHANGED <<call, pred>>
           \/ (~ Matches(t, snap.node) \/ snap.node.next # 0) /\ Abort(t)
    /\ UNCHANGED <<nodes, held, parked, calls>>

DupNewCas(t) ==
    /\ pc[t] = "dupNewCas"
    /\ LET version == Bump(call[t].md.version)
       IN  \/ /\ Swap(curr[t], [curr[t].node EXCEPT !.version = version, !.next = 1])
              /\ Hold([call[t].md EXCEPT !.version = version], 1)
              /\ Return(t)
           \/ isModified(curr[t]) /\ Abort(t) /\ UNCHANGED <<nodes, held>>
    /\ UNCHANGED <<parked, calls>>

\* undup returned true: its caller owns the dead block, which release and
\* lightRelease go on to return to the list.
LastReference(t) ==
    IF Releasing(t)
    THEN /\ Goto(t, "head")
         /\ call' = [call EXCEPT ![t].carries = FALSE]
         /\ curr' = [curr EXCEPT ![t] = None]
         /\ UNCHANGED <<pred, parked>>
    ELSE Return(t) /\ Park(call[t].md)

\* Slip: a count that is 0 already is decremented again.
UndupBelowZero(t) ==
    /\ pc[t] = "undup"
    /\ LET snap == Snap(Base(t))
       IN  \/ ~ Matches(t, snap.node) /\ Abort(t)
           \/ /\ Matches(t, snap.node)
              /\ curr' = [curr EXCEPT ![t] = snap]
              /\ Goto(t, "undupCas")
              /\ UNCHANGED <<call, pred>>
    /\ UNCHANGED <<nodes, held, parked, calls>>

UndupRead(t) ==
    /\ pc[t] = "undup"
    /\ LET snap == Snap(Base(t))
       IN  \/ ~ Matches(t, snap.node) /\ Abort(t) /\ UNCHANGED parked
           \/ Matches(t, snap.node) /\ snap.node.next = 0 /\ LastReference(t)
           \/ /\ Matches(t, snap.node) /\ snap.node.next # 0
              /\ curr' = [curr EXCEPT ![t] = snap]
              /\ Goto(t, "undupCas")
              /\ UNCHANGED <<call, pred, parked>>
    /\ UNCHANGED <<nodes, held, calls>>

UndupCas(t) ==
    /\ pc[t] = "undupCas"
    /\ LET word == [curr[t].node EXCEPT !.next = @ - 1]
       IN  \/ /\ Swap(curr[t], word)
              /\ \/ word.next = 0 /\ LastReference(t)
                 \/ word.next # 0 /\ Return(t) /\ UNCHANGED parked
           \/ /\ isModified(curr[t])
              /\ curr' = [curr EXCEPT ![t] = None]
              /\ Goto(t, "undup")
              /\ UNCHANGED <<nodes, call, pred, parked>>
    /\ UNCHANGED <<held, calls>>

-----------------------------------------------------------------------------
(* releaseImpl, from the predecessor (curr) on *)

Adjacent(t) == Base(t) = index(curr[t]) + curr[t].node.count

Link(t) ==
    /\ pc[t] = "link"
    /\ LET word == nodes[Base(t)]
           sound == /\ Base(t) >= index(curr[t]) + curr[t].node.count
                    /\ Matches(t, word) /\ word.next = 0
       IN  \/ ~ sound /\ Abort(t) /\ UNCHANGED nodes
           \/ sound /\ Adjacent(t) /\ Goto(t, "bump") /\ UNCHANGED <<nodes, call, pred, curr>>
           \/ /\ sound /\ ~ Adjacent(t)
              /\ nodes' = [nodes EXCEPT ![Base(t)].next = curr[t].node.next]
              /\ Goto(t, "linkStatus")
              /\ UNCHANGED <<call, pred, curr>>
    /\ UNCHANGED <<held, parked, calls>>

\* Slip: a flag of an earlier life in the free list stays.
LinkKeepsStatus(t) ==
    /\ pc[t] = "linkStatus"
    /\ Goto(t, "bump")
    /\ UNCHANGED <<nodes, call, pred, curr, held, parked, calls>>

LinkStatus(t) ==
    /\ pc[t] = "linkStatus"
    /\ nodes' = [nodes EXCEPT ![Base(t)].status = AVAILABLE]
    /\ Goto(t, "bump")
    /\ UNCHANGED <<call, pred, curr, held, parked, calls>>

BumpVersion(t) ==
    /\ pc[t] = "bump"
    /\ nodes' = [nodes EXCEPT ![Base(t)].version = Bump(@)]
    /\ Goto(t, "publish")
    /\ UNCHANGED <<call, pred, curr, held, parked, calls>>

Publish(t) ==
    /\ pc[t] = "publish"
    /\ LET p == curr[t].node
           word == IF Adjacent(t)
                   THEN changeCount(p, p.count + nodes[Base(t)].count)
                   ELSE changeNext(p, Base(t))
       IN  \/ Swap(curr[t], word) /\ Return(t)
           \/ /\ isModified(curr[t]) /\ Goto(t, "undo")
              /\ UNCHANGED <<nodes, call, pred, curr>>
    /\ UNCHANGED <<held, parked, calls>>

\* Slip: the version is not put back.
UndoKeepsVersion(t) ==
    /\ pc[t] = "undo"
    /\ nodes' = [nodes EXCEPT ![Base(t)].next = 0]
    /\ \/ call[t].op = "lightRelease" /\ Fail(t)
       \/ /\ call[t].op = "release"
          /\ call' = [call EXCEPT ![t].retry = RetryLimit]
          /\ curr' = [curr EXCEPT ![t] = None]
          /\ Goto(t, "head")
          /\ UNCHANGED <<pred, parked>>
    /\ UNCHANGED <<held, calls>>

\* The compiled code stores both fields at once.
Undo(t) ==
    /\ pc[t] = "undo"
    /\ nodes' = [nodes EXCEPT ![Base(t)].version = Unbump(@), ![Base(t)].next = 0]
    /\ \/ call[t].op = "lightRelease" /\ Fail(t)
       \/ /\ call[t].op = "release"
          /\ call' = [call EXCEPT ![t].retry = RetryLimit]
          /\ curr' = [curr EXCEPT ![t] = None]
          /\ Goto(t, "head")
          /\ UNCHANGED <<pred, parked>>
    /\ UNCHANGED <<held, calls>>

-----------------------------------------------------------------------------
\* Shared memory starts zeroed; init() then writes nodes 0 and 1.
Init ==
    /\ nodes = [i \in Indices |->
          [version |-> 0,
           next    |-> CASE i = 0 -> 1 [] i = 1 -> NodeCount [] OTHER -> 0,
           count   |-> IF i = 1 THEN NodeCount - 1 ELSE 0,
           status  |-> AVAILABLE]]
    /\ pc = [t \in Threads |-> "idle"]
    /\ call = [t \in Threads |-> NoCall]
    /\ pred = [t \in Threads |-> None]
    /\ curr = [t \in Threads |-> None]
    /\ held = EmptyBag
    /\ parked = {}
    /\ calls = 0

Step(t) ==
    \/ Head(t) \/ NextSnapshot(t) \/ Recheck(t) \/ MarkHead(t) \/ MarkTail(t) \/ Join(t)
    \/ Take(t) \/ InitVersion(t) \/ InitCount(t) \/ InitRef(t)
    \/ DupRead(t) \/ DupCas(t) \/ DupNewRead(t) \/ DupNewCas(t)
    \/ UndupRead(t) \/ UndupCas(t)
    \/ Link(t) \/ LinkStatus(t) \/ BumpVersion(t) \/ Publish(t) \/ Undo(t)

Next == \E t \in Threads : Call(t) \/ Step(t)

Spec == Init /\ [][Next]_vars

\* Nobody has to make a call, and only the Running threads are sure to go on
\* with one: the others may stop between any two steps, for good.
FairSpec == Spec /\ \A t \in Running : WF_vars(Step(t))

-----------------------------------------------------------------------------
(* The list and the blocks that the table stands for *)

\* Nodes reached from node 0: a set that leaves one out has a link out of it.
Places == 1 .. NodeCount - 1

Leaves(table, S) ==
    \E i \in S \cup {0} : table[i].next \in Places \ S

Reached(table) ==
    {i \in Places : \A S \in SUBSET Places : i \notin S => Leaves(table, S)}

FreeNodes == Reached(nodes)

\* A block from the swap that carves it to the call that returns it.
Carving(t) == pc[t] \in {"initVersion", "initCount", "initRef"}

\* The thread of a release or dupNew alone knows the block.
Owning(t) ==
    /\ pc[t] # "abort" /\ call[t].md # None
    /\ ~ Carving(t) /\ ~ call[t].carries /\ call[t].op # "racyDup"

UsedNodes ==
    {md.index : md \in BagToSet(held) \cup parked}
        \cup {Base(t) : t \in {u \in Threads : Carving(u) \/ Owning(u)
                                                \/ call[u].carries}}

UsedBlock(b) ==
    LET on == {t \in Threads : call[t].md # None /\ Base(t) = b}
    IN  IF \E t \in on : Carving(t)
        THEN [count |-> (CHOOSE w \in {call[t].need : t \in {u \in on : Carving(u)}} : TRUE),
              refs |-> 1]
        ELSE [count |-> nodes[b].count,
              refs  |-> IF \E t \in on : Owning(t) THEN 0 ELSE nodes[b].next]

FreeBlocks ==
    [i \in FreeNodes |-> [next |-> nodes[i].next, count |-> nodes[i].count,
                          status |-> nodes[i].status]]

UsedBlocks == [b \in UsedNodes |-> UsedBlock(b)]

List == INSTANCE FreeList WITH free <- FreeBlocks, used <- UsedBlocks

-----------------------------------------------------------------------------
(* Properties *)

Snapshots == [place : Indices, node : Words] \cup {None}

TypeOK ==
    /\ nodes \in [Indices -> Words]
    /\ \A t \in Threads :
          /\ pc[t] \in Labels
          /\ pred[t] \in Snapshots /\ curr[t] \in Snapshots
          /\ call[t].md \in Descriptors \cup {None}
    /\ parked \subseteq Descriptors /\ BagToSet(held) \subseteq Descriptors
    /\ calls \in 0 .. MaxCalls

(***************************************************************************)
(* No assert() of the allocator fails, whatever other threads do between   *)
(* the reads of an operation and its swap: those of getNextSnapshot,       *)
(* joinNodesIfNeed, releaseImpl, dupNew and undup.                         *)
(***************************************************************************)
NoAbort == \A t \in Threads : pc[t] # "abort"

(***************************************************************************)
(* The count in a block's word is the number of references there are to    *)
(* it, those lent to running calls included, and every descriptor a client *)
(* holds carries the version of its word: no interleaving of dup, undup,   *)
(* release and dupNew loses or forges a reference.                         *)
(***************************************************************************)
References ==
    /\ \A md \in BagToSet(held) \cup {call[t].md : t \in {u \in Threads : call[u].carries}} :
          /\ nodes[md.index].version = md.version
          /\ nodes[md.index].next = Copies(md)
                + Cardinality({t \in Threads : call[t].carries /\ call[t].md = md})
    /\ \A md \in parked :
          nodes[md.index].version = md.version /\ nodes[md.index].next = 0

(***************************************************************************)
(* Each step of a thread is one step of the sorted free list, or none:     *)
(* the swaps take effect at once, on a list no other thread has changed    *)
(* since it was read, and the plain stores before and after them are not   *)
(* seen by anyone.                                                         *)
(***************************************************************************)
ListSpec == List!Spec

(***************************************************************************)
(* Lock freedom, as far as bounded calls show it: the operation of a       *)
(* scheduled thread returns even if every other thread has stopped half    *)
(* way through a merge or a release.                                       *)
(***************************************************************************)
Returns == \A t \in Running : pc[t] # "idle" ~> pc[t] = "idle"

FreeChunks == UNION {i .. i + nodes[i].count - 1 : i \in FreeNodes}

(***************************************************************************)
(* allocate is refused only for want of space: no need + 1 consecutive     *)
(* chunks are free when a thread on its own gives up (one chunk more than  *)
(* it asked for, as the first of a free block never leaves the list).  So  *)
(* no release leaves space that allocate cannot find.                      *)
(***************************************************************************)
FailsOnlyWhenFull ==
    [][\A t \in Threads :
          call[t].op = "allocate" /\ pc[t] # "initRef" /\ pc'[t] = "idle" =>
              ~ \E x \in FreeChunks : x .. x + call[t].need \subseteq FreeChunks]_vars

(***************************************************************************)
(* A dup that finds the block's last reference gone must fail: the comment *)
(* at line 167 says the block is already released when it returns false,   *)
(* and a dup that succeeds hands out a reference nobody released.          *)
(***************************************************************************)
DupOnlyAlive ==
    [][\A t \in Threads :
          pc[t] = "dupCas" /\ pc'[t] = "idle" =>
              \/ BagIn(call[t].md, held)
              \/ \E u \in Threads : call[u].carries /\ call[u].md = call[t].md]_vars
=============================================================================
