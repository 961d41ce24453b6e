------------------------ MODULE VariableAllocatorInv ------------------------
(***************************************************************************)
(* Why the steps of VariableAllocator fit together: what a thread knows at *)
(* each line of its operation, who may write which word, and what a        *)
(* snapshot says about the present if its word has not changed since.      *)
(***************************************************************************)
EXTENDS VariableAllocator

Walking == {"next", "recheck", "markHead", "markTail", "join"}
Linking == {"link", "linkStatus", "bump", "publish", "undo"}

-----------------------------------------------------------------------------
(* What the code relies on *)

\* The snapshots that a later swap, or the second look at pred, depends on.
Armed(t) ==
    (IF pc[t] \in Walking THEN {pred[t]} ELSE {})
        \cup (IF pc[t] \in {"markTail", "take"} \cup (Linking \ {"undo"})
              THEN {curr[t]} ELSE {})

\* No write brings back a word of which a thread holds such a snapshot: the
\* 10 bits of the version do not come round in the meantime.
TagsHold ==
    \A t \in Threads : \A snap \in Armed(t) :
        nodes'[snap.place] = snap.node => nodes[snap.place] = snap.node

\* A reference count stays within the bits of next.
CountsFit ==
    \A t \in Threads :
        pc[t] = "dupCas" => curr[t].node.next + call[t].need < NextMod

\* Descriptors without a reference are dup'ed only if no block ever returns.
DupsAreSafe ==
    "racyDup" \in Ops => "release" \notin Ops /\ "lightRelease" \notin Ops

-----------------------------------------------------------------------------
(* Types *)

Calls == [op : {"none"} \cup Ops, md : Descriptors \cup {None}, need : Nat,
          carries : BOOLEAN, retry : Int]

Types ==
    /\ nodes \in [Indices -> Words]
    /\ pc \in [Threads -> Labels]
    /\ call \in [Threads -> Calls]
    /\ pred \in [Threads -> Snapshots] /\ curr \in [Threads -> Snapshots]
    /\ IsABag(held) /\ BagToSet(held) \subseteq Descriptors
    /\ parked \subseteq Descriptors
    /\ calls \in 0 .. MaxCalls

-----------------------------------------------------------------------------
(* The arguments of a call, by the step its thread takes next *)

Searching(t) ==
    /\ ~ call[t].carries
    /\ \/ call[t].op = "allocate" /\ call[t].md = None /\ call[t].need \in Needs
       \/ Releasing(t) /\ call[t].md \in Descriptors

LocatedAt(t) ==
    /\ pc[t] # "abort"
    /\ pc[t] = "idle" => call[t] = NoCall
    /\ pc[t] \in {"head", "take"} \cup Walking \cup Linking => Searching(t)
    /\ pc[t] = "take" => ~ Releasing(t)
    /\ pc[t] \in Linking => Releasing(t)
    /\ Carving(t) => /\ call[t].op = "allocate" /\ call[t].md \in Descriptors
                     /\ call[t].need \in Needs /\ ~ call[t].carries
    /\ pc[t] \in {"dup", "dupCas"} =>
          /\ call[t].op \in {"dup", "racyDup"} /\ call[t].md \in Descriptors
          /\ call[t].need \in Deltas /\ (call[t].carries <=> call[t].op = "dup")
    /\ pc[t] \in {"dupNew", "dupNewCas"} =>
          call[t].op = "dupNew" /\ call[t].md \in Descriptors /\ ~ call[t].carries
    /\ pc[t] \in {"undup", "undupCas"} =>
          /\ call[t].op = "undup" \/ Releasing(t)
          /\ call[t].md \in Descriptors
          /\ call[t].op = "undup" \/ pc[t] = "undupCas" => call[t].carries

Located == \A t \in Threads : LocatedAt(t)

-----------------------------------------------------------------------------
(* Who may write an allocated block's word *)

\* The thread alone knows the block.
Alone(t) == Carving(t) \/ Owning(t)

\* Descriptors that somebody holds a reference to.
Alive == BagToSet(held) \cup {call[t].md : t \in {u \in Threads : call[u].carries}}

Shared(b) == \E md \in Alive \cup parked : md.index = b

Exclusive ==
    \A t \in Threads : Alone(t) =>
        /\ \A u \in Threads : Alone(u) /\ Base(u) = Base(t) => u = t
        /\ ~ Shared(Base(t))

\* What is in the word of a block that one thread alone knows.
OwnWord(t) ==
    LET w == nodes[Base(t)]
    IN  /\ pc[t] \in {"initCount", "initRef"} => Matches(t, w)
        /\ pc[t] = "initRef" => w.count = call[t].need
        /\ Owning(t) =>
              /\ w.version = IF pc[t] \in {"publish", "undo"}
                             THEN Bump(call[t].md.version) ELSE call[t].md.version
              /\ pc[t] \notin Linking \ {"link"} => w.next = 0
              /\ pc[t] = "linkStatus" => ~ Adjacent(t)
              /\ pc[t] \in {"linkStatus", "bump", "publish"} /\ ~ Adjacent(t) =>
                    w.next = curr[t].node.next
              /\ pc[t] \in {"bump", "publish"} /\ ~ Adjacent(t) => isAvailable(w)

OwnWords == \A t \in Threads : OwnWord(t)

\* The snapshot of a block's word that dup, undup and dupNew work on.
CopiedAt(t) ==
    /\ pc[t] \in {"dupCas", "undupCas"} =>
          /\ curr[t] # None /\ curr[t].place = Base(t)
          /\ Matches(t, curr[t].node) /\ curr[t].node.next # 0
    /\ pc[t] = "dupNewCas" => curr[t] = Snap(Base(t))

Copied == \A t \in Threads : CopiedAt(t)

\* A block whose descriptor is dup'ed without a reference is a block yet.
Kept(b) == Shared(b) \/ \E t \in Threads : Owning(t) /\ Base(t) = b

BorrowedAt(t) ==
    pc[t] \in {"dup", "dupCas"} /\ call[t].op = "racyDup" => Kept(Base(t))

Borrowed == \A t \in Threads : BorrowedAt(t)

-----------------------------------------------------------------------------
(* What a walk knows about the free list *)

\* The snapshot of a node that was in the list, or node 0, when it was made.
Tame(snap) ==
    LET i == snap.place
        w == snap.node
    IN  /\ snap # None
        /\ w.next \in i + 1 .. NodeCount /\ i + w.count <= w.next
        /\ IF i = 0 THEN w.next = 1 /\ w.count = 0 /\ w.status = {} ELSE w.count > 0
        /\ isJoinHead(w) => w.next # NodeCount /\ isJoinable(i, w)

\* As long as it is not modified the node is in the list.
Fresh(snap) == ~ isModified(snap) => snap.place \in FreeNodes \cup {0}

PrecededAt(t) ==
    pc[t] \in Walking =>
        /\ Tame(pred[t]) /\ Fresh(pred[t])
        /\ ~ isJoinTail(pred[t].node) /\ pred[t].node.next # NodeCount
        /\ Releasing(t) => pred[t].node.next <= Base(t)
        /\ pc[t] = "markHead" => isJoinable(index(pred[t]), pred[t].node)
        /\ pc[t] \in {"markTail", "join"} => isJoinHead(pred[t].node)

Preceded == \A t \in Threads : PrecededAt(t)

\* curr was the node after pred.
Follows(t) ==
    /\ Tame(curr[t]) /\ index(curr[t]) = pred[t].node.next
    /\ Releasing(t) => index(curr[t]) + curr[t].node.count <= Base(t)

\* The join of a stale pair fails because the join of its head changed that.
Joined(c) ==
    \/ /\ c \in FreeNodes
       /\ \E p \in FreeNodes : nodes[p].next = c /\ isJoinHead(nodes[p])
    \/ /\ c \notin FreeNodes
       /\ \/ c \notin UsedNodes
          \/ \E t \in Threads : pc[t] = "initVersion" /\ Base(t) = c

FollowedAt(t) ==
    /\ pc[t] = "recheck" => curr[t] # None /\ (~ isModified(pred[t]) => Follows(t))
    /\ pc[t] \in {"markHead", "markTail", "join"} => Follows(t)
    /\ pc[t] = "markTail" /\ ~ isModified(curr[t]) => Joined(index(curr[t]))
    /\ pc[t] = "join" =>
          /\ isJoinTail(curr[t].node)
          /\ ~ isModified(pred[t]) => ~ isModified(curr[t])

Followed == \A t \in Threads : FollowedAt(t)

\* A thread about to flag the tail once more has flagged the head once more.
Flagged ==
    \A t, u \in Threads :
        /\ pc[t] = "join" /\ pc[u] = "markTail"
        /\ curr[t] = curr[u] /\ ~ isModified(curr[u])
        => isModified(pred[t])

\* The node that allocate cuts, or that release puts its block after.
ChosenAt(t) ==
    pc[t] \in {"take"} \cup (Linking \ {"undo"}) =>
        /\ Tame(curr[t]) /\ Fresh(curr[t]) /\ index(curr[t]) # 0
        /\ ~ isJoinTail(curr[t].node)
        /\ pc[t] = "take" =>
              isAvailable(curr[t].node) /\ curr[t].node.count > call[t].need
        /\ pc[t] # "take" =>
              /\ Base(t) < curr[t].node.next
              /\ index(curr[t]) + curr[t].node.count <= Base(t)

Chosen == \A t \in Threads : ChosenAt(t)

\* Node 0 holds no chunk and is never written.
Root == nodes[0] = [version |-> 0, next |-> 1, count |-> 0, status |-> AVAILABLE]

-----------------------------------------------------------------------------
(***************************************************************************)
(* All of it, with the invariant of the free list that the table stands    *)
(* for: no step of findCandidate, allocate, releaseImpl, dup, dupNew or    *)
(* undup finds what its next step does not expect.                         *)
(***************************************************************************)
Inv ==
    /\ Types /\ Located
    /\ References /\ Exclusive /\ OwnWords /\ Copied /\ Borrowed
    /\ Preceded /\ Followed /\ Flagged /\ Chosen
    /\ Root /\ List!Inv
=============================================================================
