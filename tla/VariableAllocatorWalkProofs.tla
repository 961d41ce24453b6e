--------------------- MODULE VariableAllocatorWalkProofs ---------------------
(***************************************************************************)
(* What the steps of the variable-length allocator have in common, and     *)
(* findCandidate: its walks, the restarts, and the merges on the way keep  *)
(* the invariant.                                                          *)
(***************************************************************************)
EXTENDS VariableAllocatorInv, FiniteSetTheorems, WellFoundedInduction, TLAPS

Known == INSTANCE FreeListProofs WITH free <- FreeBlocks, used <- UsedBlocks

USE DEF Base, index, Matches

-----------------------------------------------------------------------------
(* Words *)

LEMMA Amounts ==
    \A n \in Needs \cup Deltas : n \in Nat /\ n > 0
BY AmountsAssumption

LEMMA BumpMoves ==
    ASSUME NEW v \in Versions
    PROVE  /\ Bump(v) \in Versions /\ Bump(v) # v
           /\ Unbump(v) \in Versions /\ Unbump(Bump(v)) = v
<1>1. VersionMod \in Nat /\ VersionMod > 1
    BY VersionModAssumption, TagAssumption
<1>2. v \in Nat /\ v < VersionMod
    BY <1>1 DEF Versions
<1>3. CASE v + 1 = VersionMod
  <2>1. Bump(v) = 0
    BY <1>1, <1>2, <1>3 DEF Bump
  <2>2. Unbump(0) = VersionMod - 1
    BY <1>1 DEF Unbump
  <2>3. Unbump(v) \in Versions
    BY <1>1, <1>2 DEF Unbump, Versions
  <2> QED
    BY <1>1, <1>2, <1>3, <2>1, <2>2, <2>3 DEF Versions
<1>4. CASE v + 1 # VersionMod
  <2>1. Bump(v) = v + 1
    BY <1>1, <1>2, <1>4 DEF Bump
  <2>2. Unbump(v + 1) = v
    <3>1. v + 1 + VersionMod - 1 = v + VersionMod
      BY <1>1, <1>2
    <3>2. (v + VersionMod) % VersionMod = v
      BY <1>1, <1>2
    <3> QED
      BY <3>1, <3>2 DEF Unbump
  <2>3. Unbump(v) \in Versions
    BY <1>1, <1>2 DEF Unbump, Versions
  <2> QED
    BY <1>1, <1>2, <1>4, <2>1, <2>2, <2>3 DEF Versions
<1> QED
    BY <1>3, <1>4

\* The functions that the swaps use give words, and never the word they got.
LEMMA WordsChange ==
    ASSUME NEW w \in Words
    PROVE  /\ w.version \in Versions /\ w.next \in Nat /\ w.next < NextMod
           /\ w.count \in Nat /\ w.status \in SUBSET {JOIN_HEAD, JOIN_TAIL}
           /\ \A flag \in {JOIN_HEAD, JOIN_TAIL} :
                 /\ addStatus(w, flag) \in Words /\ addStatus(w, flag) # w
                 /\ addStatus(w, flag).next = w.next /\ addStatus(w, flag).count = w.count
                 /\ addStatus(w, flag).status = w.status \cup {flag}
           /\ \A c \in Nat :
                 /\ changeCount(w, c) \in Words /\ changeCount(w, c) # w
                 /\ changeCount(w, c).next = w.next /\ changeCount(w, c).count = c
                 /\ changeCount(w, c).status = w.status
           /\ \A i \in Nat : i < NextMod =>
                 /\ changeNext(w, i) \in Words /\ changeNext(w, i) # w
                 /\ changeNext(w, i).next = i /\ changeNext(w, i).count = w.count
                 /\ changeNext(w, i).status = w.status
<1>1. /\ w.version \in Versions /\ w.next \in Nat /\ w.next < NextMod
      /\ w.count \in Nat /\ w.status \in SUBSET {JOIN_HEAD, JOIN_TAIL}
    BY NextModAssumption DEF Words
<1>2. Bump(w.version) \in Versions /\ Bump(w.version) # w.version
    BY <1>1, BumpMoves
<1>3. ASSUME NEW flag \in {JOIN_HEAD, JOIN_TAIL}
      PROVE  /\ addStatus(w, flag) \in Words /\ addStatus(w, flag) # w
             /\ addStatus(w, flag).next = w.next /\ addStatus(w, flag).count = w.count
             /\ addStatus(w, flag).status = w.status \cup {flag}
  <2> DEFINE x == addStatus(w, flag)
  <2>1. /\ x.version = Bump(w.version) /\ x.next = w.next /\ x.count = w.count
        /\ x.status = w.status \cup {flag}
    BY DEF addStatus, Words
  <2>2. x \in Words
    BY <1>1, <1>2, <1>3 DEF addStatus, Words
  <2> QED
    BY <1>2, <2>1, <2>2
<1>4. ASSUME NEW c \in Nat
      PROVE  /\ changeCount(w, c) \in Words /\ changeCount(w, c) # w
             /\ changeCount(w, c).next = w.next /\ changeCount(w, c).count = c
             /\ changeCount(w, c).status = w.status
  <2> DEFINE x == changeCount(w, c)
  <2>1. /\ x.version = Bump(w.version) /\ x.next = w.next /\ x.count = c
        /\ x.status = w.status
    BY DEF changeCount, Words
  <2>2. x \in Words
    BY <1>1, <1>2 DEF changeCount, Words
  <2> QED
    BY <1>2, <2>1, <2>2
<1>5. ASSUME NEW i \in Nat, i < NextMod
      PROVE  /\ changeNext(w, i) \in Words /\ changeNext(w, i) # w
             /\ changeNext(w, i).next = i /\ changeNext(w, i).count = w.count
             /\ changeNext(w, i).status = w.status
  <2> DEFINE x == changeNext(w, i)
  <2>1. /\ x.version = Bump(w.version) /\ x.next = i /\ x.count = w.count
        /\ x.status = w.status
    BY DEF changeNext, Words
  <2>2. x \in Words
    <3>1. i \in 0 .. NextMod - 1
      BY <1>5, NextModAssumption
    <3> QED
      BY <1>1, <1>2, <3>1 DEF changeNext, Words
  <2> QED
    BY <1>2, <2>1, <2>2
<1> QED
    BY <1>1, <1>3, <1>4, <1>5

LEMMA WordParts ==
    ASSUME NEW w \in Words
    PROVE  /\ w.version \in Versions /\ w.next \in Nat /\ w.next < NextMod
           /\ w.count \in Nat /\ w.status \in SUBSET {JOIN_HEAD, JOIN_TAIL}
    BY WordsChange

LEMMA FlagWord ==
    ASSUME NEW w \in Words, NEW flag \in {JOIN_HEAD, JOIN_TAIL}
    PROVE  /\ addStatus(w, flag) \in Words /\ addStatus(w, flag) # w
           /\ addStatus(w, flag).next = w.next /\ addStatus(w, flag).count = w.count
           /\ addStatus(w, flag).status = w.status \cup {flag}
<1>1. \A f \in {JOIN_HEAD, JOIN_TAIL} :
         /\ addStatus(w, f) \in Words /\ addStatus(w, f) # w
         /\ addStatus(w, f).next = w.next /\ addStatus(w, f).count = w.count
         /\ addStatus(w, f).status = w.status \cup {f}
    BY WordsChange, Zenon
<1> QED
    BY <1>1

LEMMA CountWord ==
    ASSUME NEW w \in Words, NEW c \in Nat
    PROVE  /\ changeCount(w, c) \in Words /\ changeCount(w, c) # w
           /\ changeCount(w, c).next = w.next /\ changeCount(w, c).count = c
           /\ changeCount(w, c).status = w.status
<1>1. \A n \in Nat :
         /\ changeCount(w, n) \in Words /\ changeCount(w, n) # w
         /\ changeCount(w, n).next = w.next /\ changeCount(w, n).count = n
         /\ changeCount(w, n).status = w.status
    BY WordsChange, Zenon
<1> QED
    BY <1>1

LEMMA NextWord ==
    ASSUME NEW w \in Words, NEW i \in Nat, i < NextMod
    PROVE  /\ changeNext(w, i) \in Words /\ changeNext(w, i) # w
           /\ changeNext(w, i).next = i /\ changeNext(w, i).count = w.count
           /\ changeNext(w, i).status = w.status
<1>1. \A n \in Nat : n < NextMod =>
         /\ changeNext(w, n) \in Words /\ changeNext(w, n) # w
         /\ changeNext(w, n).next = n /\ changeNext(w, n).count = w.count
         /\ changeNext(w, n).status = w.status
    BY WordsChange, Zenon
<1> QED
    BY <1>1

LEMMA JoinType ==
    ASSUME NEW p \in Words, NEW c \in Words
    PROVE  /\ join(p, c) \in Words
           /\ join(p, c).next = c.next /\ join(p, c).count = p.count + c.count
           /\ join(p, c).status = (p.status \ {JOIN_HEAD}) \cup (c.status \ {JOIN_TAIL})
<1>1. c.version \in Versions /\ p.count \in Nat /\ c.count \in Nat
    BY DEF Words
<1>2. Bump(c.version) \in Versions
    BY <1>1, BumpMoves
<1> QED
    BY <1>1, <1>2 DEF join, Words

-----------------------------------------------------------------------------
(* Writes, and the moves of a thread *)

Set(i, w) == nodes' = [nodes EXCEPT ![i] = w]

\* A thread goes on at `label` with these arguments and snapshots.
Moves(t, label, c, p, s) ==
    /\ pc' = [pc EXCEPT ![t] = label]
    /\ call' = [call EXCEPT ![t] = c]
    /\ pred' = [pred EXCEPT ![t] = p]
    /\ curr' = [curr EXCEPT ![t] = s]

Same(t) ==
    pc'[t] = pc[t] /\ call'[t] = call[t] /\ pred'[t] = pred[t] /\ curr'[t] = curr[t]

LEMMA Written ==
    ASSUME Types, NEW i \in Indices, NEW w, Set(i, w)
    PROVE  /\ nodes'[i] = w /\ \A j \in Indices \ {i} : nodes'[j] = nodes[j]
           /\ w \in Words => nodes' \in [Indices -> Words]
<1>1. nodes \in [Indices -> Words]
    BY DEF Types
<1> HIDE DEF Words
<1> QED
    BY <1>1 DEF Set

LEMMA Moved ==
    ASSUME Types, NEW t \in Threads, NEW label, NEW c, NEW p, NEW s,
           Moves(t, label, c, p, s)
    PROVE  /\ pc'[t] = label /\ call'[t] = c /\ pred'[t] = p /\ curr'[t] = s
           /\ \A u \in Threads \ {t} : Same(u)
<1>1. /\ pc \in [Threads -> Labels] /\ call \in [Threads -> Calls]
      /\ pred \in [Threads -> Snapshots] /\ curr \in [Threads -> Snapshots]
    BY DEF Types
<1> HIDE DEF Calls, Labels, Snapshots
<1>2. pc'[t] = label /\ call'[t] = c /\ pred'[t] = p /\ curr'[t] = s
    BY <1>1 DEF Moves
<1>3. ASSUME NEW u \in Threads \ {t} PROVE Same(u)
    BY <1>1 DEF Moves, Same
<1> QED
    BY <1>2, <1>3

LEMMA MovesTyped ==
    ASSUME Types, NEW t \in Threads, NEW label \in Labels, NEW c \in Calls,
           NEW p \in Snapshots, NEW s \in Snapshots, Moves(t, label, c, p, s)
    PROVE  /\ pc' \in [Threads -> Labels] /\ call' \in [Threads -> Calls]
           /\ pred' \in [Threads -> Snapshots] /\ curr' \in [Threads -> Snapshots]
<1>1. /\ pc \in [Threads -> Labels] /\ call \in [Threads -> Calls]
      /\ pred \in [Threads -> Snapshots] /\ curr \in [Threads -> Snapshots]
    BY DEF Types
<1> HIDE DEF Calls, Labels, Snapshots
<1> QED
    BY <1>1 DEF Moves

\* What a step leaves alone, written as a move.
LEMMA Stays ==
    ASSUME Types, NEW t \in Threads
    PROVE  /\ UNCHANGED pc => pc' = [pc EXCEPT ![t] = pc[t]]
           /\ UNCHANGED call => call' = [call EXCEPT ![t] = call[t]]
           /\ UNCHANGED pred => pred' = [pred EXCEPT ![t] = pred[t]]
           /\ UNCHANGED curr => curr' = [curr EXCEPT ![t] = curr[t]]
<1>1. /\ pc \in [Threads -> Labels] /\ call \in [Threads -> Calls]
      /\ pred \in [Threads -> Snapshots] /\ curr \in [Threads -> Snapshots]
    BY DEF Types
<1> HIDE DEF Calls, Labels, Snapshots
<1> QED
    BY <1>1

LEMMA CallFields ==
    ASSUME Types, NEW t \in Threads
    PROVE  /\ call[t] \in Calls /\ NoCall \in Calls
           /\ call[t].need \in Nat /\ call[t].carries \in BOOLEAN
           /\ call[t].md \in Descriptors \cup {None} /\ call[t].retry \in Int
           /\ \A f \in Calls : \A md \in Descriptors \cup {None} :
                 /\ [f EXCEPT !.md = md] \in Calls /\ [f EXCEPT !.md = md].md = md
                 /\ [f EXCEPT !.md = md].op = f.op /\ [f EXCEPT !.md = md].need = f.need
                 /\ [f EXCEPT !.md = md].carries = f.carries
           /\ \A f \in Calls : \A r \in Int :
                 /\ [f EXCEPT !.retry = r] \in Calls /\ [f EXCEPT !.retry = r].md = f.md
                 /\ [f EXCEPT !.retry = r].op = f.op /\ [f EXCEPT !.retry = r].need = f.need
                 /\ [f EXCEPT !.retry = r].carries = f.carries
           /\ \A f \in Calls :
                 /\ [f EXCEPT !.carries = FALSE] \in Calls
                 /\ [f EXCEPT !.carries = FALSE].md = f.md
                 /\ [f EXCEPT !.carries = FALSE].op = f.op
                 /\ [f EXCEPT !.carries = FALSE].need = f.need
                 /\ [f EXCEPT !.carries = FALSE].carries = FALSE
<1>1. call[t] \in Calls
    BY DEF Types
<1>2. NoCall \in Calls
    BY DEF NoCall, Calls
<1> QED
    BY <1>1, <1>2 DEF Calls

-----------------------------------------------------------------------------
(* The outcomes of the steps *)

Fails(t) ==
    /\ Moves(t, "idle", NoCall, None, None)
    /\ parked' = IF Releasing(t) THEN parked \cup {call[t].md} ELSE parked

Restarts(t) ==
    /\ Moves(t, "head", [call[t] EXCEPT !.retry = @ - 1], None, None)
    /\ UNCHANGED parked

Visits(t, snap) ==
    \/ /\ Accepts(t, snap.node)
       /\ Moves(t, IF Releasing(t) THEN "link" ELSE "take", call[t], None, snap)
       /\ UNCHANGED parked
    \/ /\ ~ Accepts(t, snap.node) /\ snap.node.next # NodeCount
       /\ Moves(t, "next", call[t], snap, None)
       /\ UNCHANGED parked
    \/ snap.node.next = NodeCount /\ Fails(t)

LEMMA FailDoes ==
    ASSUME Types, NEW t \in Threads, Fail(t)
    PROVE  Fails(t)
BY DEF Fail, Return, Goto, Park, Fails, Moves

LEMMA RestartDoes ==
    ASSUME Types, NEW t \in Threads, Restart(t)
    PROVE  Restarts(t)
<1>1. call[t] \in Calls /\ call \in [Threads -> Calls]
    BY DEF Types
<1>2. call' = [call EXCEPT ![t] = [call[t] EXCEPT !.retry = @ - 1]]
    BY DEF Restart
<1> QED
    BY <1>2 DEF Restart, Goto, Restarts, Moves

LEMMA VisitDoes ==
    ASSUME Types, NEW t \in Threads, NEW snap, Visit(t, snap)
    PROVE  Visits(t, snap)
<1>1. CASE Accepts(t, snap.node)
  <2>1. /\ curr' = [curr EXCEPT ![t] = snap] /\ pred' = [pred EXCEPT ![t] = None]
        /\ Goto(t, IF Releasing(t) THEN "link" ELSE "take") /\ UNCHANGED <<call, parked>>
    BY <1>1 DEF Visit
  <2> QED
    BY <1>1, <2>1, Stays DEF Visits, Moves, Goto
<1>2. CASE ~ Accepts(t, snap.node) /\ snap.node.next # NodeCount
  <2>1. /\ curr' = [curr EXCEPT ![t] = None] /\ pred' = [pred EXCEPT ![t] = snap]
        /\ Goto(t, "next") /\ UNCHANGED <<call, parked>>
    BY <1>2 DEF Visit
  <2> QED
    BY <1>2, <2>1, Stays DEF Visits, Moves, Goto
<1>3. CASE ~ Accepts(t, snap.node) /\ snap.node.next = NodeCount
  <2>1. Fail(t)
    BY <1>3 DEF Visit
  <2> QED
    BY <1>3, <2>1, FailDoes DEF Visits
<1> QED
    BY <1>1, <1>2, <1>3

LEMMA HeadDoes ==
    ASSUME Types, NEW t \in Threads, Head(t)
    PROVE  /\ pc[t] = "head" /\ UNCHANGED <<nodes, held, calls>>
           /\ \/ Fails(t)
              \/ Moves(t, "next", call[t], Snap(0), curr[t]) /\ UNCHANGED parked
<1>1. CASE Fail(t)
    BY <1>1, FailDoes DEF Head
<1>2. CASE ~ Fail(t)
  <2>1. /\ pred' = [pred EXCEPT ![t] = Snap(0)] /\ Goto(t, "next")
        /\ UNCHANGED <<call, curr, parked>>
    BY <1>2 DEF Head
  <2> QED
    BY <2>1, Stays DEF Head, Moves, Goto
<1> QED
    BY <1>1, <1>2

LEMMA NextSnapshotDoes ==
    ASSUME Types, NEW t \in Threads, NextSnapshot(t)
    PROVE  /\ pc[t] = "next" /\ UNCHANGED <<nodes, held, parked, calls>>
           /\ Moves(t, "recheck", call[t], pred[t], Snap(pred[t].node.next))
BY Stays DEF NextSnapshot, Moves, Goto

LEMMA RecheckDoes ==
    ASSUME Types, NEW t \in Threads, Recheck(t)
    PROVE  /\ pc[t] = "recheck" /\ UNCHANGED <<nodes, held, calls>>
           /\ \/ Restarts(t)
              \/ /\ ~ isModified(pred[t]) /\ UNCHANGED parked
                 /\ Moves(t, "abort", call[t], pred[t], curr[t])
                 /\ \/ /\ isJoinHead(curr[t].node)
                       /\ ~ isJoinable(index(curr[t]), curr[t].node)
                    \/ /\ isJoinHead(pred[t].node)
                       /\ ~ isJoinable(index(pred[t]), pred[t].node)
              \/ /\ ~ isModified(pred[t]) /\ UNCHANGED parked
                 /\ isJoinable(index(pred[t]), pred[t].node)
                 /\ Moves(t, "markHead", call[t], pred[t], curr[t])
              \/ /\ ~ isModified(pred[t]) /\ Visits(t, curr[t])
                 /\ ~ isJoinable(index(pred[t]), pred[t].node)
                 /\ isJoinTail(curr[t].node) => isJoinHead(pred[t].node)
                 /\ ~ (isJoinHead(pred[t].node) /\ isJoinTail(curr[t].node))
<1>1. pc[t] = "recheck" /\ UNCHANGED <<nodes, held, calls>>
    BY DEF Recheck
<1>2. CASE Restart(t)
    BY <1>1, <1>2, RestartDoes
<1> DEFINE broken == isJoinHead(curr[t].node) /\ ~ isJoinable(index(curr[t]), curr[t].node)
           turnBack == ~ isJoinHead(pred[t].node) /\ isJoinTail(curr[t].node)
<1>3. CASE ~ Restart(t) /\ broken
  <2>1. ~ isModified(pred[t]) /\ Abort(t) /\ UNCHANGED parked
    BY <1>3 DEF Recheck, Stale
  <2>2. Moves(t, "abort", call[t], pred[t], curr[t])
    BY <2>1, Stays DEF Abort, Goto, Moves
  <2> QED
    BY <1>1, <1>3, <2>1, <2>2
<1>4. CASE ~ Restart(t) /\ ~ broken
  <2>1. ~ isModified(pred[t]) /\ ~ turnBack
    BY <1>4 DEF Recheck, Stale
  <2>2. IF isJoinable(index(pred[t]), pred[t].node)
        THEN Goto(t, "markHead") /\ UNCHANGED <<call, pred, curr, parked>>
        ELSE IF isJoinHead(pred[t].node) /\ isJoinTail(curr[t].node)
        THEN Abort(t) /\ UNCHANGED parked
        ELSE Visit(t, curr[t])
    BY <1>4 DEF Recheck, Stale
  <2>3. CASE isJoinable(index(pred[t]), pred[t].node)
    <3>1. Moves(t, "markHead", call[t], pred[t], curr[t]) /\ UNCHANGED parked
      BY <2>2, <2>3, Stays DEF Goto, Moves
    <3> QED
      BY <1>1, <2>1, <2>3, <3>1
  <2>4. CASE /\ ~ isJoinable(index(pred[t]), pred[t].node)
             /\ isJoinHead(pred[t].node) /\ isJoinTail(curr[t].node)
    <3>1. Abort(t) /\ UNCHANGED parked
      BY <2>2, <2>4
    <3>2. Moves(t, "abort", call[t], pred[t], curr[t])
      BY <3>1, Stays DEF Abort, Goto, Moves
    <3> QED
      BY <1>1, <2>1, <2>4, <3>1, <3>2
  <2>5. CASE /\ ~ isJoinable(index(pred[t]), pred[t].node)
             /\ ~ (isJoinHead(pred[t].node) /\ isJoinTail(curr[t].node))
    <3>1. Visits(t, curr[t])
      BY <2>2, <2>5, VisitDoes
    <3> QED
      BY <1>1, <2>1, <2>5, <3>1
  <2> QED
    BY <2>3, <2>4, <2>5
<1> QED
    BY <1>2, <1>3, <1>4

LEMMA MarkHeadDoes ==
    ASSUME Types, NEW t \in Threads, MarkHead(t)
    PROVE  /\ pc[t] = "markHead" /\ UNCHANGED <<held, calls, parked>>
           /\ \/ Restarts(t) /\ UNCHANGED nodes
              \/ LET word == addStatus(pred[t].node, JOIN_HEAD)
                 IN  /\ ~ isModified(pred[t]) /\ Set(pred[t].place, word)
                     /\ Moves(t, "markTail", call[t], [pred[t] EXCEPT !.node = word], curr[t])
<1> DEFINE word == addStatus(pred[t].node, JOIN_HEAD)
<1>1. CASE Restart(t) /\ UNCHANGED nodes
    BY <1>1, RestartDoes DEF MarkHead, Restart
<1>2. CASE ~ (Restart(t) /\ UNCHANGED nodes)
  <2>1. /\ Swap(pred[t], word) /\ pred' = [pred EXCEPT ![t].node = word]
        /\ Goto(t, "markTail") /\ UNCHANGED <<call, curr, parked>>
    BY <1>2 DEF MarkHead
  <2> HIDE DEF word
  <2>2. pred' = [pred EXCEPT ![t] = [pred[t] EXCEPT !.node = word]]
    BY <2>1
  <2>3. Moves(t, "markTail", call[t], [pred[t] EXCEPT !.node = word], curr[t])
    BY <2>1, <2>2, Stays DEF Goto, Moves
  <2>4. pc[t] = "markHead" /\ UNCHANGED <<held, calls>>
    BY DEF MarkHead
  <2> QED
    BY <2>1, <2>3, <2>4 DEF Swap, Set, word
<1> QED
    BY <1>1, <1>2

LEMMA MarkTailDoes ==
    ASSUME Types, NEW t \in Threads, MarkTail(t)
    PROVE  /\ pc[t] = "markTail" /\ UNCHANGED <<held, calls, parked>>
           /\ \/ Restarts(t) /\ UNCHANGED nodes
              \/ LET word == addStatus(curr[t].node, JOIN_TAIL)
                 IN  /\ ~ isModified(curr[t]) /\ Set(curr[t].place, word)
                     /\ Moves(t, "join", call[t], pred[t], [curr[t] EXCEPT !.node = word])
<1> DEFINE word == addStatus(curr[t].node, JOIN_TAIL)
<1>1. CASE Restart(t) /\ UNCHANGED nodes
    BY <1>1, RestartDoes DEF MarkTail, Restart
<1>2. CASE ~ (Restart(t) /\ UNCHANGED nodes)
  <2>1. /\ Swap(curr[t], word) /\ curr' = [curr EXCEPT ![t].node = word]
        /\ Goto(t, "join") /\ UNCHANGED <<call, pred, parked>>
    BY <1>2 DEF MarkTail
  <2> HIDE DEF word
  <2>2. curr' = [curr EXCEPT ![t] = [curr[t] EXCEPT !.node = word]]
    BY <2>1
  <2>3. Moves(t, "join", call[t], pred[t], [curr[t] EXCEPT !.node = word])
    BY <2>1, <2>2, Stays DEF Goto, Moves
  <2>4. pc[t] = "markTail" /\ UNCHANGED <<held, calls>>
    BY DEF MarkTail
  <2> QED
    BY <2>1, <2>3, <2>4 DEF Swap, Set, word
<1> QED
    BY <1>1, <1>2

LEMMA JoinDoes ==
    ASSUME Types, NEW t \in Threads, Join(t)
    PROVE  /\ pc[t] = "join" /\ UNCHANGED <<held, calls>>
           /\ \/ Restarts(t) /\ UNCHANGED nodes
              \/ LET word == join(pred[t].node, curr[t].node)
                 IN  /\ ~ isModified(pred[t]) /\ Set(pred[t].place, word)
                     /\ Visits(t, [pred[t] EXCEPT !.node = word])
<1> DEFINE word == join(pred[t].node, curr[t].node)
<1>1. CASE Restart(t) /\ UNCHANGED nodes
    BY <1>1, RestartDoes DEF Join
<1>2. CASE ~ (Restart(t) /\ UNCHANGED nodes)
  <2>1. Swap(pred[t], word) /\ Visit(t, [pred[t] EXCEPT !.node = word])
    BY <1>2 DEF Join
  <2>2. pc[t] = "join" /\ UNCHANGED <<held, calls>>
    BY DEF Join
  <2> HIDE DEF word
  <2>3. Visits(t, [pred[t] EXCEPT !.node = word])
    BY <2>1, VisitDoes
  <2> QED
    BY <2>1, <2>2, <2>3 DEF Swap, Set, word
<1> QED
    BY <1>1, <1>2

LEMMA TakeDoes ==
    ASSUME Types, NEW t \in Threads, Take(t)
    PROVE  /\ pc[t] = "take" /\ UNCHANGED <<held, parked, calls>>
           /\ \/ /\ Moves(t, "head", [call[t] EXCEPT !.retry = RetryLimit], pred[t], None)
                 /\ UNCHANGED nodes
              \/ LET rest == curr[t].node.count - call[t].need
                 IN  /\ ~ isModified(curr[t])
                     /\ Set(curr[t].place, changeCount(curr[t].node, rest))
                     /\ Moves(t, "initVersion",
                              [call[t] EXCEPT !.md =
                                 [version |-> 0, index |-> index(curr[t]) + rest]],
                              pred[t], None)
<1> DEFINE rest == curr[t].node.count - call[t].need
           md == [version |-> 0, index |-> index(curr[t]) + rest]
           word == changeCount(curr[t].node, rest)
<1>0. pc[t] = "take" /\ UNCHANGED <<pred, held, parked, calls>>
    BY DEF Take
<1>1. CASE Goto(t, "head")
  <2>1. CASE pc' = [pc EXCEPT ![t] = "initVersion"]
    BY <1>1, <2>1 DEF Goto, Types
  <2>2. CASE ~ (pc' = [pc EXCEPT ![t] = "initVersion"])
    <3>1. /\ call' = [call EXCEPT ![t].retry = RetryLimit]
          /\ curr' = [curr EXCEPT ![t] = None] /\ UNCHANGED nodes
      BY <2>2 DEF Take, Goto
    <3>2. Moves(t, "head", [call[t] EXCEPT !.retry = RetryLimit], pred[t], None)
      BY <1>0, <1>1, <3>1, Stays DEF Moves, Goto
    <3> QED
      BY <1>0, <3>1, <3>2
  <2> QED
    BY <2>1, <2>2
<1>2. CASE ~ Goto(t, "head")
  <2>1. /\ Swap(curr[t], word) /\ call' = [call EXCEPT ![t].md = md]
        /\ curr' = [curr EXCEPT ![t] = None] /\ Goto(t, "initVersion")
    BY <1>2 DEF Take
  <2> HIDE DEF word, md
  <2>2. Moves(t, "initVersion", [call[t] EXCEPT !.md = md], pred[t], None)
    BY <1>0, <2>1, Stays DEF Moves, Goto
  <2> QED
    BY <1>0, <2>1, <2>2 DEF Swap, Set, word, md
<1> QED
    BY <1>1, <1>2

LEMMA InitVersionDoes ==
    ASSUME Types, NEW t \in Threads, InitVersion(t)
    PROVE  /\ pc[t] = "initVersion" /\ UNCHANGED <<held, parked, calls>>
           /\ Set(Base(t), [nodes[Base(t)] EXCEPT !.version = Bump(@)])
           /\ Moves(t, "initCount",
                    [call[t] EXCEPT !.md = [@ EXCEPT !.version = Bump(nodes[Base(t)].version)]],
                    pred[t], curr[t])
<1> DEFINE v == Bump(nodes[Base(t)].version)
<1>1. /\ nodes' = [nodes EXCEPT ![Base(t)].version = v]
      /\ call' = [call EXCEPT ![t].md.version = v] /\ Goto(t, "initCount")
      /\ pc[t] = "initVersion" /\ UNCHANGED <<pred, curr, held, parked, calls>>
    BY DEF InitVersion
<1>2. Set(Base(t), [nodes[Base(t)] EXCEPT !.version = v])
    BY <1>1 DEF Set
<1> HIDE DEF v
<1>3. Moves(t, "initCount", [call[t] EXCEPT !.md = [@ EXCEPT !.version = v]], pred[t], curr[t])
    BY <1>1, Stays DEF Moves, Goto
<1> QED
    BY <1>1, <1>2, <1>3 DEF v

LEMMA InitCountDoes ==
    ASSUME Types, NEW t \in Threads, InitCount(t)
    PROVE  /\ pc[t] = "initCount" /\ UNCHANGED <<held, parked, calls>>
           /\ Set(Base(t), [nodes[Base(t)] EXCEPT !.count = call[t].need])
           /\ Moves(t, "initRef", call[t], pred[t], curr[t])
BY Stays DEF InitCount, Set, Moves, Goto

LEMMA InitRefDoes ==
    ASSUME Types, NEW t \in Threads, InitRef(t)
    PROVE  /\ pc[t] = "initRef" /\ UNCHANGED <<parked, calls>>
           /\ Set(Base(t), [nodes[Base(t)] EXCEPT !.next = 1])
           /\ Hold(call[t].md, 1) /\ Moves(t, "idle", NoCall, None, None)
BY DEF InitRef, Set, Moves, Return, Goto

Lends(t, n) == IF Lent(t) + n = 0 THEN UNCHANGED held ELSE Hold(call[t].md, n + Lent(t))

LEMMA DupReadDoes ==
    ASSUME Types, NEW t \in Threads, DupRead(t)
    PROVE  /\ pc[t] = "dup" /\ UNCHANGED <<nodes, parked, calls>>
           /\ \/ /\ ~ Matches(t, nodes[Base(t)]) \/ nodes[Base(t)].next = 0
                 /\ Lends(t, 0) /\ Moves(t, "idle", NoCall, None, None)
              \/ /\ Matches(t, nodes[Base(t)]) /\ nodes[Base(t)].next # 0
                 /\ Moves(t, "dupCas", call[t], pred[t], Snap(Base(t))) /\ UNCHANGED held
<1> DEFINE snap == Snap(Base(t))
<1>1. snap.node = nodes[Base(t)]
    BY DEF Snap
<1>2. Lent(t) \in Nat
    BY DEF Lent
<1>3. CASE ~ Matches(t, nodes[Base(t)]) \/ nodes[Base(t)].next = 0
  <2>1. /\ IF Lent(t) = 0 THEN UNCHANGED held ELSE Hold(call[t].md, 1)
        /\ Return(t)
    BY <1>1, <1>3 DEF DupRead
  <2>2. Lends(t, 0)
    BY <2>1 DEF Lends, Lent
  <2>3. Moves(t, "idle", NoCall, None, None)
    BY <2>1 DEF Return, Goto, Moves
  <2> QED
    BY <1>3, <2>2, <2>3 DEF DupRead
<1>4. CASE Matches(t, nodes[Base(t)]) /\ nodes[Base(t)].next # 0
  <2>1. curr' = [curr EXCEPT ![t] = snap] /\ Goto(t, "dupCas") /\ UNCHANGED <<call, pred, held>>
    BY <1>1, <1>4 DEF DupRead
  <2>2. Moves(t, "dupCas", call[t], pred[t], snap)
    BY <2>1, Stays DEF Goto, Moves
  <2> QED
    BY <1>4, <2>1, <2>2 DEF DupRead
<1> QED
    BY <1>3, <1>4

LEMMA DupCasDoes ==
    ASSUME Types, NEW t \in Threads, DupCas(t)
    PROVE  /\ pc[t] = "dupCas" /\ UNCHANGED <<parked, calls>>
           /\ \/ /\ Moves(t, "dup", call[t], pred[t], None) /\ UNCHANGED <<nodes, held>>
              \/ LET word == [curr[t].node EXCEPT !.next = (@ + call[t].need) % NextMod]
                 IN  /\ ~ isModified(curr[t]) /\ Set(curr[t].place, word)
                     /\ Hold(call[t].md, call[t].need + Lent(t))
                     /\ Moves(t, "idle", NoCall, None, None)
<1> DEFINE word == [curr[t].node EXCEPT !.next = (@ + call[t].need) % NextMod]
<1>0. pc[t] = "dupCas" /\ UNCHANGED <<parked, calls>>
    BY DEF DupCas
<1>1. CASE Return(t)
  <2>1. ~ Goto(t, "dup")
    BY <1>1 DEF Return, Goto, Types
  <2>2. Swap(curr[t], word) /\ Hold(call[t].md, call[t].need + Lent(t))
    BY <1>1, <2>1 DEF DupCas
  <2> HIDE DEF word
  <2>3. Moves(t, "idle", NoCall, None, None)
    BY <1>1 DEF Return, Goto, Moves
  <2> QED
    BY <1>0, <2>2, <2>3 DEF Swap, Set, word
<1>2. CASE ~ Return(t)
  <2>1. /\ curr' = [curr EXCEPT ![t] = None] /\ Goto(t, "dup")
        /\ UNCHANGED <<nodes, call, pred, held>>
    BY <1>2 DEF DupCas
  <2>2. Moves(t, "dup", call[t], pred[t], None)
    BY <2>1, Stays DEF Goto, Moves
  <2> QED
    BY <1>0, <2>1, <2>2
<1> QED
    BY <1>1, <1>2

LEMMA DupNewReadDoes ==
    ASSUME Types, NEW t \in Threads, DupNewRead(t)
    PROVE  /\ pc[t] = "dupNew" /\ UNCHANGED <<nodes, held, parked, calls>>
           /\ \/ /\ ~ Matches(t, nodes[Base(t)]) \/ nodes[Base(t)].next # 0
                 /\ Moves(t, "abort", call[t], pred[t], curr[t])
              \/ Moves(t, "dupNewCas", call[t], pred[t], Snap(Base(t)))
<1> DEFINE snap == Snap(Base(t))
<1>1. snap.node = nodes[Base(t)]
    BY DEF Snap
<1>0. pc[t] = "dupNew" /\ UNCHANGED <<nodes, held, parked, calls>>
    BY DEF DupNewRead
<1>2. CASE Matches(t, nodes[Base(t)]) /\ nodes[Base(t)].next = 0
  <2>1. curr' = [curr EXCEPT ![t] = snap] /\ Goto(t, "dupNewCas") /\ UNCHANGED <<call, pred>>
    BY <1>1, <1>2 DEF DupNewRead
  <2> HIDE DEF snap
  <2>2. Moves(t, "dupNewCas", call[t], pred[t], snap)
    BY <2>1, Stays DEF Goto, Moves
  <2> QED
    BY <1>0, <2>2 DEF snap
<1>3. CASE ~ (Matches(t, nodes[Base(t)]) /\ nodes[Base(t)].next = 0)
  <2>1. Abort(t)
    BY <1>1, <1>3 DEF DupNewRead
  <2>2. Moves(t, "abort", call[t], pred[t], curr[t])
    BY <2>1, Stays DEF Abort, Goto, Moves
  <2> QED
    BY <1>0, <1>3, <2>2
<1> QED
    BY <1>2, <1>3

LEMMA DupNewCasDoes ==
    ASSUME Types, NEW t \in Threads, DupNewCas(t)
    PROVE  /\ pc[t] = "dupNewCas" /\ UNCHANGED <<parked, calls>>
           /\ \/ /\ isModified(curr[t]) /\ UNCHANGED <<nodes, held>>
                 /\ Moves(t, "abort", call[t], pred[t], curr[t])
              \/ LET version == Bump(call[t].md.version)
                 IN  /\ ~ isModified(curr[t])
                     /\ Set(curr[t].place, [curr[t].node EXCEPT !.version = version, !.next = 1])
                     /\ Hold([call[t].md EXCEPT !.version = version], 1)
                     /\ Moves(t, "idle", NoCall, None, None)
<1> DEFINE version == Bump(call[t].md.version)
           word == [curr[t].node EXCEPT !.version = version, !.next = 1]
           md == [call[t].md EXCEPT !.version = version]
<1>0. pc[t] = "dupNewCas" /\ UNCHANGED <<parked, calls>>
    BY DEF DupNewCas
<1>1. CASE isModified(curr[t])
  <2>1. Abort(t) /\ UNCHANGED <<nodes, held>>
    BY <1>1 DEF DupNewCas, Swap
  <2>2. Moves(t, "abort", call[t], pred[t], curr[t])
    BY <2>1, Stays DEF Abort, Goto, Moves
  <2> QED
    BY <1>0, <1>1, <2>1, <2>2
<1>2. CASE ~ isModified(curr[t])
  <2>1. Swap(curr[t], word) /\ Hold(md, 1) /\ Return(t)
    BY <1>2 DEF DupNewCas
  <2> HIDE DEF word, md
  <2>2. Moves(t, "idle", NoCall, None, None)
    BY <2>1 DEF Return, Goto, Moves
  <2> QED
    BY <1>0, <2>1, <2>2 DEF Swap, Set, word, md
<1> QED
    BY <1>1, <1>2

\* The last reference of a block is gone.
Keeps(t) ==
    IF Releasing(t)
    THEN Moves(t, "head", [call[t] EXCEPT !.carries = FALSE], pred[t], None) /\ UNCHANGED parked
    ELSE Moves(t, "idle", NoCall, None, None) /\ parked' = parked \cup {call[t].md}

LEMMA LastReferenceDoes ==
    ASSUME Types, NEW t \in Threads, LastReference(t)
    PROVE  Keeps(t)
<1>1. CASE Releasing(t)
  <2>1. /\ Goto(t, "head") /\ call' = [call EXCEPT ![t].carries = FALSE]
        /\ curr' = [curr EXCEPT ![t] = None] /\ UNCHANGED <<pred, parked>>
    BY <1>1 DEF LastReference
  <2> QED
    BY <1>1, <2>1, Stays DEF Keeps, Moves, Goto
<1>2. CASE ~ Releasing(t)
    BY <1>2 DEF LastReference, Keeps, Return, Park, Goto, Moves
<1> QED
    BY <1>1, <1>2

LEMMA UndupReadDoes ==
    ASSUME Types, NEW t \in Threads, UndupRead(t)
    PROVE  /\ pc[t] = "undup" /\ UNCHANGED <<nodes, held, calls>>
           /\ \/ /\ ~ Matches(t, nodes[Base(t)]) /\ UNCHANGED parked
                 /\ Moves(t, "abort", call[t], pred[t], curr[t])
              \/ Matches(t, nodes[Base(t)]) /\ nodes[Base(t)].next = 0 /\ Keeps(t)
              \/ /\ Matches(t, nodes[Base(t)]) /\ nodes[Base(t)].next # 0 /\ UNCHANGED parked
                 /\ Moves(t, "undupCas", call[t], pred[t], Snap(Base(t)))
<1> DEFINE snap == Snap(Base(t))
<1>1. snap.node = nodes[Base(t)]
    BY DEF Snap
<1>0. pc[t] = "undup" /\ UNCHANGED <<nodes, held, calls>>
    BY DEF UndupRead
<1>2. CASE ~ Matches(t, nodes[Base(t)])
  <2>1. Abort(t) /\ UNCHANGED parked
    BY <1>1, <1>2 DEF UndupRead
  <2>2. Moves(t, "abort", call[t], pred[t], curr[t])
    BY <2>1, Stays DEF Abort, Goto, Moves
  <2> QED
    BY <1>0, <1>2, <2>1, <2>2
<1>3. CASE Matches(t, nodes[Base(t)]) /\ nodes[Base(t)].next = 0
  <2>1. LastReference(t)
    BY <1>1, <1>3 DEF UndupRead
  <2> QED
    BY <1>0, <1>3, <2>1, LastReferenceDoes
<1>4. CASE Matches(t, nodes[Base(t)]) /\ nodes[Base(t)].next # 0
  <2>1. /\ curr' = [curr EXCEPT ![t] = snap] /\ Goto(t, "undupCas")
        /\ UNCHANGED <<call, pred, parked>>
    BY <1>1, <1>4 DEF UndupRead
  <2> HIDE DEF snap
  <2>2. Moves(t, "undupCas", call[t], pred[t], snap)
    BY <2>1, Stays DEF Goto, Moves
  <2> QED
    BY <1>0, <1>4, <2>1, <2>2 DEF snap
<1> QED
    BY <1>2, <1>3, <1>4

LEMMA UndupCasDoes ==
    ASSUME Types, NEW t \in Threads, UndupCas(t)
    PROVE  /\ pc[t] = "undupCas" /\ UNCHANGED <<held, calls>>
           /\ \/ /\ Moves(t, "undup", call[t], pred[t], None) /\ UNCHANGED <<nodes, parked>>
              \/ LET word == [curr[t].node EXCEPT !.next = @ - 1]
                 IN  /\ ~ isModified(curr[t]) /\ Set(curr[t].place, word)
                     /\ \/ word.next = 0 /\ Keeps(t)
                        \/ /\ word.next # 0 /\ UNCHANGED parked
                           /\ Moves(t, "idle", NoCall, None, None)
<1> DEFINE word == [curr[t].node EXCEPT !.next = @ - 1]
<1>0. pc[t] = "undupCas" /\ UNCHANGED <<held, calls>>
    BY DEF UndupCas
<1>1. CASE Swap(curr[t], word) /\ word.next = 0 /\ LastReference(t)
  <2> HIDE DEF word
  <2>1. Keeps(t)
    BY <1>1, LastReferenceDoes
  <2> QED
    BY <1>0, <1>1, <2>1 DEF Swap, Set, word
<1>2. CASE Swap(curr[t], word) /\ word.next # 0 /\ Return(t) /\ UNCHANGED parked
  <2> HIDE DEF word
  <2>1. Moves(t, "idle", NoCall, None, None)
    BY <1>2 DEF Return, Goto, Moves
  <2> QED
    BY <1>0, <1>2, <2>1 DEF Swap, Set, word
<1>3. CASE /\ curr' = [curr EXCEPT ![t] = None] /\ Goto(t, "undup")
           /\ UNCHANGED <<nodes, call, pred, parked>>
  <2>1. Moves(t, "undup", call[t], pred[t], None)
    BY <1>3, Stays DEF Goto, Moves
  <2> QED
    BY <1>0, <1>3, <2>1
<1> QED
    BY <1>1, <1>2, <1>3 DEF UndupCas

LEMMA LinkDoes ==
    ASSUME Types, NEW t \in Threads, Link(t)
    PROVE  /\ pc[t] = "link" /\ UNCHANGED <<held, parked, calls>>
           /\ \/ /\ \/ Base(t) < index(curr[t]) + curr[t].node.count
                    \/ ~ (Base(t) >= index(curr[t]) + curr[t].node.count)
                    \/ ~ Matches(t, nodes[Base(t)]) \/ nodes[Base(t)].next # 0
                 /\ UNCHANGED nodes /\ Moves(t, "abort", call[t], pred[t], curr[t])
              \/ /\ Adjacent(t)
                 /\ UNCHANGED nodes /\ Moves(t, "bump", call[t], pred[t], curr[t])
              \/ /\ ~ Adjacent(t)
                 /\ Set(Base(t), [nodes[Base(t)] EXCEPT !.next = curr[t].node.next])
                 /\ Moves(t, "linkStatus", call[t], pred[t], curr[t])
<1> DEFINE sound == /\ Base(t) >= index(curr[t]) + curr[t].node.count
                    /\ Matches(t, nodes[Base(t)]) /\ nodes[Base(t)].next = 0
<1>0. pc[t] = "link" /\ UNCHANGED <<held, parked, calls>>
    BY DEF Link
<1>1. CASE ~ sound
  <2>1. Abort(t) /\ UNCHANGED nodes
    BY <1>1 DEF Link
  <2>2. Moves(t, "abort", call[t], pred[t], curr[t])
    BY <2>1, Stays DEF Abort, Goto, Moves
  <2> QED
    BY <1>0, <1>1, <2>1, <2>2
<1>2. CASE sound /\ Adjacent(t)
  <2>1. Goto(t, "bump") /\ UNCHANGED <<nodes, call, pred, curr>>
    BY <1>2 DEF Link
  <2>2. Moves(t, "bump", call[t], pred[t], curr[t])
    BY <2>1, Stays DEF Goto, Moves
  <2> QED
    BY <1>0, <1>2, <2>1, <2>2
<1>3. CASE sound /\ ~ Adjacent(t)
  <2>1. /\ nodes' = [nodes EXCEPT ![Base(t)].next = curr[t].node.next]
        /\ Goto(t, "linkStatus") /\ UNCHANGED <<call, pred, curr>>
    BY <1>3 DEF Link
  <2>2. Moves(t, "linkStatus", call[t], pred[t], curr[t])
    BY <2>1, Stays DEF Goto, Moves
  <2> QED
    BY <1>0, <1>3, <2>1, <2>2 DEF Set
<1> QED
    BY <1>1, <1>2, <1>3

LEMMA LinkStatusDoes ==
    ASSUME Types, NEW t \in Threads, LinkStatus(t)
    PROVE  /\ pc[t] = "linkStatus" /\ UNCHANGED <<held, parked, calls>>
           /\ Set(Base(t), [nodes[Base(t)] EXCEPT !.status = AVAILABLE])
           /\ Moves(t, "bump", call[t], pred[t], curr[t])
BY Stays DEF LinkStatus, Set, Moves, Goto

LEMMA BumpVersionDoes ==
    ASSUME Types, NEW t \in Threads, BumpVersion(t)
    PROVE  /\ pc[t] = "bump" /\ UNCHANGED <<held, parked, calls>>
           /\ Set(Base(t), [nodes[Base(t)] EXCEPT !.version = Bump(@)])
           /\ Moves(t, "publish", call[t], pred[t], curr[t])
BY Stays DEF BumpVersion, Set, Moves, Goto

LEMMA PublishDoes ==
    ASSUME Types, NEW t \in Threads, Publish(t)
    PROVE  /\ pc[t] = "publish" /\ UNCHANGED <<held, parked, calls>>
           /\ \/ UNCHANGED nodes /\ Moves(t, "undo", call[t], pred[t], curr[t])
              \/ LET p == curr[t].node
                     word == IF Adjacent(t)
                             THEN changeCount(p, p.count + nodes[Base(t)].count)
                             ELSE changeNext(p, Base(t))
                 IN  /\ ~ isModified(curr[t]) /\ Set(curr[t].place, word)
                     /\ Moves(t, "idle", NoCall, None, None)
<1> DEFINE p == curr[t].node
           word == IF Adjacent(t)
                   THEN changeCount(p, p.count + nodes[Base(t)].count)
                   ELSE changeNext(p, Base(t))
<1>0. pc[t] = "publish" /\ UNCHANGED <<held, parked, calls>>
    BY DEF Publish
<1>1. CASE Swap(curr[t], word) /\ Return(t)
  <2> HIDE DEF word
  <2>1. Moves(t, "idle", NoCall, None, None)
    BY <1>1 DEF Return, Goto, Moves
  <2> QED
    BY <1>0, <1>1, <2>1 DEF Swap, Set, word
<1>2. CASE Goto(t, "undo") /\ UNCHANGED <<nodes, call, pred, curr>>
  <2>1. Moves(t, "undo", call[t], pred[t], curr[t])
    BY <1>2, Stays DEF Goto, Moves
  <2> QED
    BY <1>0, <1>2, <2>1
<1> QED
    BY <1>1, <1>2 DEF Publish

LEMMA UndoDoes ==
    ASSUME Types, NEW t \in Threads, Base(t) \in Indices, Undo(t)
    PROVE  /\ pc[t] = "undo" /\ UNCHANGED <<held, calls>>
           /\ Set(Base(t), [nodes[Base(t)] EXCEPT !.version = Unbump(@), !.next = 0])
           /\ \/ Fails(t)
              \/ /\ Moves(t, "head", [call[t] EXCEPT !.retry = RetryLimit], pred[t], None)
                 /\ UNCHANGED parked
<1>0. pc[t] = "undo" /\ UNCHANGED <<held, calls>>
    BY DEF Undo
<1>1. Set(Base(t), [nodes[Base(t)] EXCEPT !.version = Unbump(@), !.next = 0])
  <2>1. nodes' = [nodes EXCEPT ![Base(t)].version = Unbump(@), ![Base(t)].next = 0]
    BY DEF Undo
  <2>2. nodes \in [Indices -> Words] /\ nodes[Base(t)] \in Words
    BY DEF Types
  <2> QED
    BY <2>1, <2>2 DEF Set
<1>2. CASE Fail(t)
    BY <1>0, <1>1, <1>2, FailDoes
<1>3. CASE /\ call' = [call EXCEPT ![t].retry = RetryLimit]
           /\ curr' = [curr EXCEPT ![t] = None] /\ Goto(t, "head")
           /\ UNCHANGED <<pred, parked>>
  <2>1. Moves(t, "head", [call[t] EXCEPT !.retry = RetryLimit], pred[t], None)
    BY <1>3, Stays DEF Goto, Moves
  <2> QED
    BY <1>0, <1>1, <1>3, <2>1
<1> QED
    BY <1>2, <1>3 DEF Undo

\* A call: its arguments, and what happens to the reference it is about.
Calling(t, op, md, need, carries, label) ==
    /\ pc[t] = "idle" /\ op \in Ops /\ calls < MaxCalls
    /\ calls' = calls + 1 /\ UNCHANGED nodes
    /\ Moves(t, label, [op |-> op, md |-> md, need |-> need, carries |-> carries,
                        retry |-> Limit(op)], pred[t], curr[t])

LEMMA BeginDoes ==
    ASSUME Types, NEW t \in Threads, NEW op, NEW md, NEW need, NEW carries, NEW label,
           Begin(t, op, md, need, carries, label)
    PROVE  Calling(t, op, md, need, carries, label)
BY Stays DEF Begin, Calling, Moves, Goto

Lending(md) == md \in BagToSet(held) /\ held' = held (-) SetToBag({md}) /\ UNCHANGED parked

LEMMA CallDoes ==
    ASSUME Types, NEW t \in Threads, Call(t)
    PROVE  \/ \E need \in Needs :
                 /\ Calling(t, "allocate", None, need, FALSE, "head")
                 /\ UNCHANGED <<held, parked>>
           \/ \E md \in BagToSet(held), op \in {"release", "lightRelease", "undup"} :
                 Calling(t, op, md, 0, TRUE, "undup") /\ Lending(md)
           \/ \E md \in BagToSet(held), delta \in Deltas :
                 Calling(t, "dup", md, delta, TRUE, "dup") /\ Lending(md)
           \/ \E md \in BagToSet(held) :
                 Calling(t, "racyDup", md, 1, FALSE, "dup") /\ UNCHANGED <<held, parked>>
           \/ \E md \in parked :
                 /\ \/ Calling(t, "dupNew", md, 0, FALSE, "dupNew")
                    \/ \E op \in {"release", "lightRelease"} :
                          Calling(t, op, md, 0, FALSE, "undup")
                 /\ parked' = parked \ {md} /\ UNCHANGED held
<1>1. ASSUME NEW need \in Needs, CallAllocate(t, need)
      PROVE  /\ Calling(t, "allocate", None, need, FALSE, "head")
             /\ UNCHANGED <<held, parked>>
    BY <1>1, BeginDoes DEF CallAllocate
<1>2. ASSUME NEW md \in BagToSet(held), NEW op \in {"release", "lightRelease", "undup"},
             CallOnReference(t, op, md, 0)
      PROVE  Calling(t, op, md, 0, TRUE, "undup") /\ Lending(md)
    BY <1>2, BeginDoes DEF CallOnReference, Lending
<1>3. ASSUME NEW md \in BagToSet(held), NEW delta \in Deltas,
             CallOnReference(t, "dup", md, delta)
      PROVE  Calling(t, "dup", md, delta, TRUE, "dup") /\ Lending(md)
    BY <1>3, BeginDoes DEF CallOnReference, Lending
<1>4. ASSUME NEW md \in BagToSet(held), CallRacyDup(t, md)
      PROVE  Calling(t, "racyDup", md, 1, FALSE, "dup") /\ UNCHANGED <<held, parked>>
    BY <1>4, BeginDoes DEF CallRacyDup
<1>5. ASSUME NEW md \in parked, NEW op \in {"dupNew", "release", "lightRelease"},
             CallOnParked(t, op, md)
      PROVE  /\ \/ Calling(t, "dupNew", md, 0, FALSE, "dupNew")
                \/ \E o \in {"release", "lightRelease"} :
                      Calling(t, o, md, 0, FALSE, "undup")
             /\ parked' = parked \ {md} /\ UNCHANGED held
  <2>1. Begin(t, op, md, 0, FALSE, IF op = "dupNew" THEN "dupNew" ELSE "undup")
    BY <1>5 DEF CallOnParked
  <2>2. Calling(t, op, md, 0, FALSE, IF op = "dupNew" THEN "dupNew" ELSE "undup")
    BY <2>1, BeginDoes
  <2>3. parked' = parked \ {md} /\ UNCHANGED held
    BY <1>5 DEF CallOnParked
  <2> QED
    BY <2>2, <2>3
<1> QED
    BY <1>1, <1>2, <1>3, <1>4, <1>5 DEF Call

-----------------------------------------------------------------------------
(* The nodes reached from node 0 *)

\* Every set of numbers that is not empty has a least one.
LEMMA Least ==
    ASSUME NEW S \in SUBSET Nat, S # {}
    PROVE  \E x \in S : \A y \in S : x <= y
<1> DEFINE Below == {p \in Nat \X Nat : p[1] < p[2]}
<1>1. IsWellFoundedOn(Below, Nat)
    BY NatLessThanWellFounded DEF OpToRel
<1>2. PICK x \in S : \A y \in S : ~ (<<y, x>> \in Below)
    BY <1>1, WFMin
<1>3. \A y \in S : y < x => <<y, x>> \in Below
    OBVIOUS
<1>4. \A y \in S : ~ (y < x)
    BY <1>2, <1>3
<1>5. \A y \in S : y \in Nat /\ x \in Nat
    OBVIOUS
<1> QED
    BY <1>4, <1>5

\* The node before y in a sorted list.
LEMMA Before ==
    ASSUME NEW F \in SUBSET Places, NEW x \in F, NEW y \in Nat, x < y
    PROVE  \E m \in F : m < y /\ \A j \in F : j < y => j <= m
<1>0. NodeCount \in Nat /\ \A j \in F : j \in Nat /\ j < NodeCount
    BY NodeCountAssumption DEF Places
<1> DEFINE S == {n \in Nat : \E j \in F : j < y /\ n = NodeCount - j}
<1>1. NodeCount - x \in S
    BY <1>0
<1>2. PICK n \in S : \A k \in S : n <= k
    BY <1>1, Least
<1>3. PICK m \in F : m < y /\ n = NodeCount - m
    BY <1>2
<1>4. ASSUME NEW j \in F, j < y
      PROVE  j <= m
  <2>1. NodeCount - j \in S
    BY <1>0, <1>4
  <2>2. n <= NodeCount - j
    BY <1>2, <2>1
  <2> QED
    BY <1>0, <1>3, <2>2
<1> QED
    BY <1>3, <1>4

LEMMA ReachedIs ==
    ASSUME NEW table, NEW F \in SUBSET Places, 1 \in F, table[0].next = 1,
           \A i \in F : /\ table[i].next \in F \cup {NodeCount} /\ i < table[i].next
                        /\ \A j \in F : i < j => table[i].next <= j
    PROVE  Reached(table) = F
<1>0. NodeCount \in Nat /\ NodeCount > 2 /\ NodeCount \notin Places /\ Places \subseteq Nat
    BY NodeCountAssumption DEF Places
<1>1. ASSUME NEW x \in Reached(table), x \notin F
      PROVE  FALSE
  <2>1. Leaves(table, F)
    BY <1>1 DEF Reached
  <2>2. PICK i \in F \cup {0} : table[i].next \in Places \ F
    BY <2>1 DEF Leaves
  <2> QED
    BY <1>0, <2>2
<1>2. ASSUME NEW x \in F, NEW S \in SUBSET Places, x \notin S, ~ Leaves(table, S)
      PROVE  FALSE
  <2> DEFINE T == F \ S
  <2>1. T \subseteq Nat /\ T # {}
    BY <1>0, <1>2
  <2>2. PICK y \in T : \A z \in T : y <= z
    BY <2>1, Least
  <2>3. y # 1
    BY <1>0, <1>2, <2>2 DEF Leaves, Places
  <2>4. y \in Nat /\ 1 < y
    BY <2>2, <2>3 DEF Places
  <2>5. PICK m \in F : m < y /\ \A j \in F : j < y => j <= m
    BY <2>4, Before
  <2>6. m \in S
    BY <1>0, <2>2, <2>4, <2>5
  <2>7. /\ table[m].next \in F \cup {NodeCount} /\ m < table[m].next
        /\ table[m].next <= y
    BY <2>2, <2>5
  <2>8. m \in Nat /\ y \in Nat /\ y < NodeCount
    BY <1>0, <2>2, <2>4 DEF Places
  <2>9. table[m].next = y
    <3>1. table[m].next # NodeCount
      BY <1>0, <2>7, <2>8
    <3>2. table[m].next \in F /\ table[m].next \in Nat
      BY <1>0, <2>7, <3>1
    <3>3. ~ (table[m].next < y)
      BY <2>5, <2>7, <2>8, <3>2
    <3> QED
      BY <2>7, <2>8, <3>2, <3>3
  <2> QED
    BY <1>2, <2>2, <2>6, <2>9 DEF Leaves
<1> QED
    BY <1>1, <1>2 DEF Reached

-----------------------------------------------------------------------------
(* What the invariant of the list says of the table *)

ListWords ==
    /\ FreeNodes \subseteq Places /\ 1 \in FreeNodes
    /\ \A i \in FreeNodes :
          /\ nodes[i].count > 0 /\ i + nodes[i].count <= nodes[i].next
          /\ nodes[i].next \in FreeNodes \cup {NodeCount}
          /\ \A j \in FreeNodes : i < j => nodes[i].next <= j
          /\ isJoinHead(nodes[i]) =>
                nodes[i].next # NodeCount /\ isJoinable(i, nodes[i])
          /\ isJoinTail(nodes[i]) =>
                \E p \in FreeNodes : nodes[p].next = i /\ isJoinHead(nodes[p])

Blocks ==
    /\ UsedNodes \subseteq Places
    /\ \A b \in UsedNodes :
          /\ UsedBlock(b).count \in Nat /\ UsedBlock(b).count > 0
          /\ b + UsedBlock(b).count <= NodeCount
          /\ \A i \in FreeNodes :
                b + UsedBlock(b).count <= i \/ i + nodes[i].count <= b
          /\ \A c \in UsedNodes :
                c # b => b + UsedBlock(b).count <= c \/ c + UsedBlock(c).count <= b

LEMMA ListSays ==
    ASSUME List!Inv
    PROVE  ListWords /\ Blocks
<1>1. DOMAIN FreeBlocks = FreeNodes /\ DOMAIN UsedBlocks = UsedNodes
    BY DEF FreeBlocks, UsedBlocks
<1>2. \A i \in FreeNodes : /\ FreeBlocks[i].next = nodes[i].next
                           /\ FreeBlocks[i].count = nodes[i].count
                           /\ FreeBlocks[i].status = nodes[i].status
    BY DEF FreeBlocks
<1>3. \A b \in UsedNodes : UsedBlocks[b] = UsedBlock(b)
    BY DEF UsedBlocks
<1>4. ListWords
  <2>1. FreeNodes \subseteq Places
    BY DEF FreeNodes, Reached
  <2>2. List!Linked /\ List!MergeCanFinish
    BY DEF List!Inv
  <2>3. /\ 1 \in FreeNodes
        /\ \A i \in FreeNodes :
             /\ nodes[i].count > 0 /\ i + nodes[i].count <= nodes[i].next
             /\ nodes[i].next \in FreeNodes \cup {NodeCount}
             /\ \A j \in FreeNodes : i < j => nodes[i].next <= j
    BY <1>1, <1>2, <2>2 DEF List!Linked
  <2>4. \A i \in FreeNodes : isJoinHead(nodes[i]) =>
            nodes[i].next # NodeCount /\ isJoinable(i, nodes[i])
    BY <1>1, <1>2, <2>2 DEF List!MergeCanFinish, List!isJoinHead, isJoinHead,
        List!isJoinable, isJoinable, List!JOIN_HEAD, JOIN_HEAD
  <2>5. \A i \in FreeNodes : isJoinTail(nodes[i]) =>
            \E p \in FreeNodes : nodes[p].next = i /\ isJoinHead(nodes[p])
    BY <1>1, <1>2, <2>2 DEF List!MergeCanFinish, List!isJoinHead, isJoinHead,
        List!isJoinTail, isJoinTail, List!JOIN_HEAD, JOIN_HEAD, List!JOIN_TAIL, JOIN_TAIL
  <2> QED
    BY <2>1, <2>3, <2>4, <2>5 DEF ListWords
<1>5. Blocks
  <2>1. List!TypeOK /\ List!Disjoint
    BY DEF List!Inv
  <2>2. UsedNodes \subseteq Places
    BY <1>1, <2>1, NodeCountAssumption DEF List!TypeOK, Places
  <2>3. ASSUME NEW b \in UsedNodes
        PROVE  UsedBlock(b).count \in Nat
    BY <1>1, <1>3, <2>1, <2>3 DEF List!TypeOK
  <2>4. \A b \in UsedNodes :
          /\ UsedBlock(b).count > 0 /\ b + UsedBlock(b).count <= NodeCount
          /\ \A i \in FreeNodes :
                b + UsedBlock(b).count <= i \/ i + nodes[i].count <= b
          /\ \A c \in UsedNodes :
                c # b => b + UsedBlock(b).count <= c \/ c + UsedBlock(c).count <= b
    BY <1>1, <1>2, <1>3, <2>1 DEF List!Disjoint
  <2> QED
    BY <2>2, <2>3, <2>4 DEF Blocks
<1> QED
    BY <1>4, <1>5

\* FreeListProofs is about the same steps.
LEMMA SameNext == Known!Next = List!Next
BY DEF Known!Next, List!Next, Known!Allocate, List!Allocate, Known!Dup, List!Dup,
    Known!Undup, List!Undup, Known!DupNew, List!DupNew, Known!IsPredecessor,
    List!IsPredecessor, Known!ReleaseAdjacent, List!ReleaseAdjacent,
    Known!ReleaseApart, List!ReleaseApart, Known!MarkHead, List!MarkHead,
    Known!MarkTail, List!MarkTail, Known!Join, List!Join, Known!Put, List!Put,
    Known!Remove, List!Remove, Known!isAvailable, List!isAvailable,
    Known!AVAILABLE, List!AVAILABLE, Known!isJoinTail, List!isJoinTail,
    Known!isJoinHead, List!isJoinHead, Known!isJoinable, List!isJoinable,
    Known!JOIN_HEAD, List!JOIN_HEAD, Known!JOIN_TAIL, List!JOIN_TAIL

\* The invariant of the list is kept by its steps: FreeListProofs, with the
\* list that the table stands for.
LEMMA ListStays ==
    List!Inv /\ [List!Next]_(List!vars) => List!Inv'
<1>1. Known!Inv <=> List!Inv
    BY DEF Known!Inv, List!Inv, Known!TypeOK, List!TypeOK, Known!Linked, List!Linked,
        Known!Disjoint, List!Disjoint, Known!NoLeak, List!NoLeak, Known!MergeCanFinish,
        List!MergeCanFinish, Known!Link, List!Link, Known!isJoinTail, List!isJoinTail,
        Known!isJoinHead, List!isJoinHead, Known!isJoinable, List!isJoinable,
        Known!JOIN_HEAD, List!JOIN_HEAD, Known!JOIN_TAIL, List!JOIN_TAIL
<1>2. Known!Inv /\ [Known!Next]_(Known!vars) => Known!Inv'
    BY Known!NextInv, NodeCountAssumption, NextModAssumption, AmountsAssumption,
        VersionModAssumption
<1>3. Known!Inv' <=> List!Inv'
    BY <1>1, PTL
<1>4. [List!Next]_(List!vars) => [Known!Next]_(Known!vars)
    BY SameNext DEF Known!vars, List!vars
<1> QED
    BY <1>1, <1>2, <1>3, <1>4

\* What one step does to the list: a step of the list, or nothing.
ListStep == [List!Next]_(List!vars)

LEMMA ListSteps ==
    List!Inv /\ (List!Next \/ UNCHANGED List!vars) => List!Inv' /\ ListStep
BY ListStays DEF ListStep

LEMMA ListSaysNext == List!Inv' => ListWords' /\ Blocks'
<1>1. List!Inv => ListWords /\ Blocks
    BY ListSays
<1> QED
    BY <1>1, PTL

-----------------------------------------------------------------------------
(* References *)

\* The references to md: those in clients' hands, and those lent to calls.
Lenders(md) == {t \in Threads : call[t].carries /\ call[t].md = md}
Refs(md) == Copies(md) + Cardinality(Lenders(md))

LEMMA CopiesNat ==
    ASSUME IsABag(held)
    PROVE  \A md : Copies(md) \in Nat /\ (Copies(md) > 0 <=> md \in BagToSet(held))
BY DEF IsABag, Copies, BagIn, BagToSet

LEMMA CopiesNext == IsABag(held') => \A md : Copies(md)' \in Nat
<1>1. IsABag(held) => \A md : Copies(md) \in Nat
    BY CopiesNat
<1>2. (IsABag(held) => \A md : Copies(md) \in Nat)'
    BY <1>1, PTL
<1> QED
    BY <1>2

\* What giving and taking a reference does to the bag.
LEMMA Holding ==
    ASSUME IsABag(held), NEW md, NEW n \in Nat \ {0}, Hold(md, n)
    PROVE  /\ IsABag(held') /\ BagToSet(held)' = BagToSet(held) \cup {md}
           /\ \A d : Copies(d)' = IF d = md THEN Copies(d) + n ELSE Copies(d)
<1>1. /\ DOMAIN held' = DOMAIN held \cup {md}
      /\ \A d \in DOMAIN held' : held'[d] = IF d = md THEN Copies(d) + n ELSE held[d]
    BY DEF Hold, (+), Copies, BagIn, BagToSet, IsABag
<1>2. \A d \in DOMAIN held : held[d] \in Nat /\ held[d] > 0
    BY DEF IsABag
<1>3. \A d \in DOMAIN held' : held'[d] \in Nat /\ held'[d] > 0
    BY <1>1, <1>2 DEF Copies, BagIn, BagToSet
<1>4. IsABag(held')
  <2>1. held' = [d \in DOMAIN held' |-> held'[d]]
    BY DEF Hold, (+)
  <2> QED
    BY <1>3, <2>1 DEF IsABag
<1>5. \A d : Copies(d)' = IF d \in DOMAIN held' THEN held'[d] ELSE 0
    BY DEF Copies, BagIn, BagToSet
<1>6. \A d : Copies(d) = IF d \in DOMAIN held THEN held[d] ELSE 0
    BY DEF Copies, BagIn, BagToSet
<1> QED
    BY <1>1, <1>4, <1>5, <1>6 DEF BagToSet

LEMMA Dropping ==
    ASSUME IsABag(held), NEW md \in BagToSet(held), held' = held (-) SetToBag({md})
    PROVE  /\ IsABag(held') /\ BagToSet(held)' \subseteq BagToSet(held)
           /\ Copies(md) > 0
           /\ \A d : Copies(d)' = IF d = md THEN Copies(d) - 1 ELSE Copies(d)
<1> DEFINE B == [e \in DOMAIN held |->
                    IF e \in DOMAIN SetToBag({md}) THEN held[e] - SetToBag({md})[e] ELSE held[e]]
<1>1. held' = [e \in {d \in DOMAIN B : B[d] > 0} |-> B[e]]
    BY DEF (-)
<1>2. /\ DOMAIN B = DOMAIN held
      /\ \A d \in DOMAIN held : B[d] = IF d = md THEN held[d] - 1 ELSE held[d]
    BY DEF SetToBag, BagToSet
<1>3. \A d \in DOMAIN held : held[d] \in Nat /\ held[d] > 0
    BY DEF IsABag
<1> HIDE DEF B
<1>4. DOMAIN held' = {d \in DOMAIN held : B[d] > 0} /\ \A d \in DOMAIN held' : held'[d] = B[d]
    BY <1>1, <1>2
<1>5. \A d \in DOMAIN held' : held'[d] \in Nat /\ held'[d] > 0
    BY <1>2, <1>3, <1>4
<1>6. IsABag(held')
    BY <1>1, <1>5 DEF IsABag
<1>7. \A d : Copies(d)' = IF d \in DOMAIN held' THEN held'[d] ELSE 0
    BY DEF Copies, BagIn, BagToSet
<1>8. \A d : Copies(d) = IF d \in DOMAIN held THEN held[d] ELSE 0
    BY DEF Copies, BagIn, BagToSet
<1>9. Copies(md) > 0 /\ md \in DOMAIN held
    BY <1>3, <1>8 DEF BagToSet
<1>10. ASSUME NEW d
       PROVE  Copies(d)' = IF d = md THEN Copies(d) - 1 ELSE Copies(d)
  <2>1. Copies(d)' = IF d \in DOMAIN held' THEN held'[d] ELSE 0
    BY <1>7
  <2>2. Copies(d) = IF d \in DOMAIN held THEN held[d] ELSE 0
    BY <1>8
  <2>3. CASE d \in DOMAIN held
    <3>1. held[d] \in Nat /\ held[d] > 0 /\ B[d] = IF d = md THEN held[d] - 1 ELSE held[d]
      BY <1>2, <1>3, <2>3
    <3>2. d \in DOMAIN held' <=> B[d] > 0
      BY <1>4, <2>3
    <3>3. d \in DOMAIN held' => held'[d] = B[d]
      BY <1>4
    <3> QED
      BY <2>1, <2>2, <2>3, <3>1, <3>2, <3>3
  <2>4. CASE d \notin DOMAIN held
    BY <1>4, <1>9, <2>1, <2>2, <2>4
  <2> QED
    BY <2>3, <2>4
<1> QED
    BY <1>4, <1>6, <1>9, <1>10 DEF BagToSet

\* What a thread is doing, by the step it takes next.
LEMMA Doing ==
    ASSUME Types, Located, NEW t \in Threads
    PROVE  /\ pc[t] = "idle" => call[t] = NoCall /\ ~ Alone(t) /\ ~ call[t].carries
           /\ pc[t] \in {"head", "take"} \cup Walking \cup Linking =>
                 /\ ~ call[t].carries /\ ~ Carving(t) /\ (Releasing(t) <=> Owning(t))
                 /\ ~ Releasing(t) =>
                       /\ call[t].op = "allocate" /\ call[t].md = None
                       /\ call[t].need \in Needs
           /\ pc[t] = "take" => ~ Releasing(t)
           /\ pc[t] \in Linking => Releasing(t)
           /\ Carving(t) => /\ ~ Owning(t) /\ ~ call[t].carries /\ call[t].op = "allocate"
                            /\ call[t].need \in Needs
           /\ pc[t] \in {"dup", "dupCas"} =>
                 /\ ~ Alone(t) /\ call[t].md \in Descriptors
                 /\ call[t].need \in Deltas /\ call[t].need > 0
                 /\ ~ call[t].carries => call[t].op = "racyDup"
           /\ pc[t] \in {"dupNew", "dupNewCas"} =>
                 Owning(t) /\ ~ Carving(t) /\ ~ call[t].carries
           /\ pc[t] \in {"undup", "undupCas"} =>
                 /\ ~ Carving(t) /\ (Owning(t) <=> ~ call[t].carries)
                 /\ Owning(t) => Releasing(t)
                 /\ call[t].md \in Descriptors
           /\ pc[t] = "undupCas" => call[t].carries
           /\ Alone(t) \/ call[t].carries => call[t].md \in Descriptors /\ call[t].md # None
           /\ pc[t] # "abort"
<1>1. /\ call[t].md \in Descriptors \cup {None} /\ None \notin Descriptors
      /\ call[t].carries \in BOOLEAN /\ pc[t] \in Labels
    BY NoneAssumption DEF Types, Calls
<1>2. CASE pc[t] = "idle"
  <2>1. call[t] = NoCall
    BY <1>2 DEF Located, LocatedAt
  <2>2. call[t].md = None /\ ~ call[t].carries
    BY <2>1 DEF NoCall
  <2>3. ~ Carving(t) /\ ~ Owning(t)
    BY <1>2, <2>2 DEF Carving, Owning
  <2> QED
    BY <1>2, <2>1, <2>2, <2>3 DEF Alone, Walking, Linking
<1>3. CASE pc[t] \in {"head", "take"} \cup Walking \cup Linking
  <2>1. Searching(t) /\ ~ Carving(t)
    BY <1>3 DEF Located, LocatedAt, Carving, Walking, Linking
  <2>2. Releasing(t) <=> Owning(t)
    BY <1>1, <1>3, <2>1 DEF Searching, Owning, Releasing, Walking, Linking
  <2>3. pc[t] = "take" => ~ Releasing(t)
    BY DEF Located, LocatedAt
  <2>4. pc[t] \in Linking => Releasing(t)
    BY DEF Located, LocatedAt
  <2>5. pc[t] \notin {"idle", "dup", "dupCas", "dupNew", "dupNewCas", "undup", "undupCas", "abort"}
    BY <1>3 DEF Walking, Linking
  <2>6. Owning(t) => call[t].md \in Descriptors /\ call[t].md # None
    BY <1>1 DEF Owning
  <2> QED
    BY <2>1, <2>2, <2>3, <2>4, <2>5, <2>6 DEF Searching, Releasing, Alone
<1>4. CASE Carving(t)
  <2>1. /\ call[t].op = "allocate" /\ call[t].md \in Descriptors
        /\ call[t].need \in Needs /\ ~ call[t].carries
    BY <1>4 DEF Located, LocatedAt
  <2>2. pc[t] \notin {"idle", "head", "take", "dup", "dupCas", "dupNew", "dupNewCas", "undup",
                      "undupCas", "abort"} \cup Walking \cup Linking
    BY <1>4 DEF Walking, Linking, Carving
  <2> QED
    BY <1>1, <1>4, <2>1, <2>2 DEF Owning
<1>5. CASE pc[t] \in {"dup", "dupCas"}
  <2>1. /\ call[t].op \in {"dup", "racyDup"} /\ call[t].md \in Descriptors
        /\ call[t].need \in Deltas /\ (call[t].carries <=> call[t].op = "dup")
      BY <1>5 DEF Located, LocatedAt
  <2>2. call[t].need > 0
      BY <2>1, Amounts
  <2>3. pc[t] \notin {"idle", "head", "take", "dupNew", "dupNewCas", "undup", "undupCas", "abort"}
                         \cup Walking \cup Linking
      BY <1>5 DEF Walking, Linking
  <2>4. ~ Carving(t) /\ ~ Owning(t)
      BY <1>5, <2>1 DEF Carving, Owning
  <2> QED
      BY <1>1, <1>5, <2>1, <2>2, <2>3, <2>4 DEF Alone
<1>6. CASE pc[t] \in {"dupNew", "dupNewCas"}
    BY <1>1, <1>6 DEF Located, LocatedAt, Alone, Owning, Carving, Walking, Linking
<1>7. CASE pc[t] \in {"undup", "undupCas"}
    BY <1>1, <1>7 DEF Located, LocatedAt, Alone, Owning, Carving, Walking, Linking, Releasing
<1>8. pc[t] # "abort"
    BY DEF Located, LocatedAt
<1> QED
    BY <1>1, <1>2, <1>3, <1>4, <1>5, <1>6, <1>7, <1>8 DEF Labels, Carving, Walking, Linking

LEMMA RefsNat ==
    ASSUME Types
    PROVE  \A md : Refs(md) \in Nat /\ Copies(md) \in Nat /\ IsFiniteSet(Lenders(md))
<1>1. \A md : Copies(md) \in Nat
    BY CopiesNat DEF Types
<1>2. ASSUME NEW md
      PROVE  IsFiniteSet(Lenders(md)) /\ Cardinality(Lenders(md)) \in Nat
    BY FiniteAssumption, FS_Subset, FS_CardinalityType DEF Lenders
<1> QED
    BY <1>1, <1>2 DEF Refs

LEMMA AliveIs ==
    ASSUME Types, Located
    PROVE  /\ Alive \subseteq Descriptors
           /\ \A md : md \in Alive <=> Refs(md) > 0
<1>1. Alive \subseteq Descriptors
    BY Doing DEF Alive, Types
<1>2. ASSUME NEW md
      PROVE  md \in Alive <=> Refs(md) > 0
  <2>1. Copies(md) \in Nat /\ (Copies(md) > 0 <=> md \in BagToSet(held))
    BY CopiesNat DEF Types
  <2>2. IsFiniteSet(Lenders(md)) /\ Cardinality(Lenders(md)) \in Nat
    BY RefsNat, FS_CardinalityType
  <2>3. Cardinality(Lenders(md)) > 0 <=> Lenders(md) # {}
    BY <2>2, FS_EmptySet
  <2>4. md \in Alive <=> md \in BagToSet(held) \/ Lenders(md) # {}
    BY DEF Alive, Lenders
  <2> QED
    BY <2>1, <2>2, <2>3, <2>4 DEF Refs
<1> QED
    BY <1>1, <1>2

-----------------------------------------------------------------------------
(* The blocks that the table stands for *)

\* The index of a block that a single thread knows.
Single(b) == \E t \in Threads : Alone(t) /\ Base(t) = b

UsedMeans ==
    \A b : b \in UsedNodes <=> Shared(b) \/ Single(b)

BlockMeans ==
    /\ \A t \in Threads :
          /\ Carving(t) => UsedBlock(Base(t)) = [count |-> call[t].need, refs |-> 1]
          /\ Owning(t) => UsedBlock(Base(t)) = [count |-> nodes[Base(t)].count, refs |-> 0]
    /\ \A b : Shared(b) =>
          UsedBlock(b) = [count |-> nodes[b].count, refs |-> nodes[b].next]

LEMMA UsedIs ==
    ASSUME Types, Located
    PROVE  UsedMeans
<1>1. ASSUME NEW b, b \in UsedNodes
      PROVE  Shared(b) \/ Single(b)
  <2>1. CASE b \in {md.index : md \in BagToSet(held) \cup parked}
    <3>1. PICK md \in BagToSet(held) \cup parked : md.index = b
      BY <2>1
    <3> QED
      BY <3>1 DEF Shared, Alive
  <2>2. CASE b \notin {md.index : md \in BagToSet(held) \cup parked}
    <3>1. PICK t \in Threads : (Carving(t) \/ Owning(t) \/ call[t].carries) /\ b = Base(t)
      BY <1>1, <2>2 DEF UsedNodes
    <3>2. call[t].carries => call[t].md \in Alive
      BY DEF Alive
    <3> QED
      BY <3>1, <3>2 DEF Shared, Single, Alone
  <2> QED
    BY <2>1, <2>2
<1>2. ASSUME NEW b, Shared(b)
      PROVE  b \in UsedNodes
  <2>1. PICK md \in Alive \cup parked : md.index = b
    BY <1>2 DEF Shared
  <2>2. CASE md \in BagToSet(held) \cup parked
    BY <2>1, <2>2 DEF UsedNodes
  <2>3. CASE md \notin BagToSet(held) \cup parked
    <3>1. PICK t \in Threads : call[t].carries /\ call[t].md = md
      BY <2>1, <2>3 DEF Alive
    <3> QED
      BY <2>1, <3>1 DEF UsedNodes
  <2> QED
    BY <2>2, <2>3
<1>3. ASSUME NEW b, Single(b)
      PROVE  b \in UsedNodes
    BY <1>3 DEF Single, Alone, UsedNodes
<1> QED
    BY <1>1, <1>2, <1>3 DEF UsedMeans

LEMMA BlockIs ==
    ASSUME Types, Located, Exclusive
    PROVE  BlockMeans
<1> DEFINE on(b) == {t \in Threads : call[t].md # None /\ Base(t) = b}
<1>1. ASSUME NEW t \in Threads, Carving(t)
      PROVE  UsedBlock(Base(t)) = [count |-> call[t].need, refs |-> 1]
  <2>1. t \in on(Base(t))
    BY <1>1, Doing DEF Alone
  <2>2. \A u \in on(Base(t)) : Carving(u) => u = t
    BY <1>1 DEF Exclusive, Alone
  <2>3. {call[u].need : u \in {v \in on(Base(t)) : Carving(v)}} = {call[t].need}
    BY <1>1, <2>1, <2>2
  <2>4. (CHOOSE w \in {call[t].need} : TRUE) = call[t].need
    OBVIOUS
  <2> QED
    BY <1>1, <2>1, <2>3, <2>4 DEF UsedBlock
<1>2. ASSUME NEW t \in Threads, Owning(t)
      PROVE  UsedBlock(Base(t)) = [count |-> nodes[Base(t)].count, refs |-> 0]
  <2>1. t \in on(Base(t))
    BY <1>2 DEF Owning
  <2>2. \A u \in on(Base(t)) : ~ Carving(u)
    BY <1>2 DEF Exclusive, Alone, Owning
  <2> QED
    BY <1>2, <2>1, <2>2 DEF UsedBlock
<1>3. ASSUME NEW b, Shared(b)
      PROVE  UsedBlock(b) = [count |-> nodes[b].count, refs |-> nodes[b].next]
  <2>1. \A u \in on(b) : ~ Alone(u)
    BY <1>3 DEF Exclusive, Shared
  <2> QED
    BY <2>1 DEF UsedBlock, Alone
<1> QED
    BY <1>1, <1>2, <1>3 DEF BlockMeans

LEMMA UsedIsNext == Types' /\ Located' => UsedMeans'
<1>1. Types /\ Located => UsedMeans
    BY UsedIs
<1> QED
    BY <1>1, PTL

LEMMA BlockIsNext == Types' /\ Located' /\ Exclusive' => BlockMeans'
<1>1. Types /\ Located /\ Exclusive => BlockMeans
    BY BlockIs
<1> QED
    BY <1>1, PTL

-----------------------------------------------------------------------------
(* The list that the table stands for *)

LEMMA SnapIs ==
    ASSUME Types, NEW i \in Indices
    PROVE  /\ Snap(i) \in Snapshots /\ Snap(i) # None /\ Snap(i) \in [place : Indices, node : Words]
           /\ Snap(i).place = i /\ Snap(i).node = nodes[i] /\ nodes[i] \in Words
           /\ ~ isModified(Snap(i))
<1>1. nodes[i] \in Words
    BY DEF Types
<1> HIDE DEF Words
<1>2. Snap(i) \in [place : Indices, node : Words]
    BY <1>1 DEF Snap
<1> QED
    BY <1>1, <1>2, NoneAssumption DEF Snap, Snapshots, isModified

LEMMA PlacesAre ==
    /\ NodeCount \in Nat /\ NodeCount > 2 /\ NodeCount < NextMod /\ NextMod \in Nat
    /\ Places \subseteq Indices /\ 0 \in Indices /\ 1 \in Places /\ NodeCount \notin Indices
    /\ \A i \in Indices : i \in Nat /\ i < NodeCount /\ (i # 0 => i \in Places)
    /\ \A i \in Nat : i < NodeCount => i \in Indices
    /\ \A i \in Places : i # 0
BY NodeCountAssumption, NextModAssumption DEF Places, Indices

LEMMA FreeTame ==
    ASSUME Types, Root, ListWords, NEW i \in FreeNodes \cup {0}
    PROVE  Tame(Snap(i)) /\ (nodes[i].next # NodeCount => nodes[i].next \in FreeNodes)
           /\ i \in Indices /\ nodes[i].next \in 1 .. NodeCount
<1>1. i \in Indices
    BY PlacesAre DEF ListWords
<1>2. Snap(i) # None /\ Snap(i).place = i /\ Snap(i).node = nodes[i]
    BY <1>1, SnapIs
<1>3. CASE i = 0
  <2>1. nodes[i].next = 1 /\ nodes[i].count = 0 /\ nodes[i].status = {} /\ 1 \in FreeNodes
    BY <1>3 DEF Root, AVAILABLE, ListWords
  <2> QED
    BY <1>1, <1>2, <1>3, <2>1, PlacesAre DEF Tame, isJoinHead
<1>4. CASE i # 0
  <2>1. /\ i \in FreeNodes /\ i \in Nat /\ nodes[i].count \in Nat /\ nodes[i].next \in Nat
    BY <1>1, <1>2, <1>4, PlacesAre, SnapIs, WordsChange
  <2>2. /\ nodes[i].count > 0 /\ i + nodes[i].count <= nodes[i].next
        /\ nodes[i].next \in FreeNodes \cup {NodeCount}
        /\ isJoinHead(nodes[i]) => nodes[i].next # NodeCount /\ isJoinable(i, nodes[i])
    BY <2>1 DEF ListWords
  <2>3. nodes[i].next <= NodeCount
    BY <2>2, PlacesAre DEF ListWords
  <2> QED
    BY <1>1, <1>2, <1>4, <2>1, <2>2, <2>3, PlacesAre DEF Tame
<1> QED
    BY <1>3, <1>4

\* A node is not both in the list and the first of an allocated block.
LEMMA Apart ==
    ASSUME Types, ListWords, Blocks
    PROVE  /\ \A i \in FreeNodes \cup {0} : i \notin UsedNodes
           /\ UsedNodes \subseteq Places /\ UsedNodes \subseteq Indices /\ UsedNodes \subseteq Nat
<1>1. UsedNodes \subseteq Places /\ FreeNodes \subseteq Places /\ 0 \notin UsedNodes
    BY PlacesAre DEF Blocks, ListWords
<1>2. ASSUME NEW i \in FreeNodes, i \in UsedNodes
      PROVE  FALSE
  <2>1. i \in Nat /\ nodes[i].count \in Nat /\ nodes[i].count > 0
    BY <1>1, PlacesAre, SnapIs, WordsChange DEF ListWords
  <2>2. /\ UsedBlock(i).count \in Nat /\ UsedBlock(i).count > 0
        /\ i + UsedBlock(i).count <= i \/ i + nodes[i].count <= i
    BY <1>2 DEF Blocks
  <2> QED
    BY <2>1, <2>2
<1> QED
    BY <1>1, <1>2, PlacesAre

\* Only a write to a node of the list, or to node 0, changes what is reached.
LEMMA FreeSame ==
    ASSUME Types, Root, ListWords,
           \A i \in FreeNodes \cup {0} : nodes'[i].next = nodes[i].next
    PROVE  FreeNodes' = FreeNodes
<1>1. FreeNodes \in SUBSET Places /\ 1 \in FreeNodes /\ nodes'[0].next = 1
    BY DEF ListWords, Root
<1>2. ASSUME NEW i \in FreeNodes
      PROVE  /\ nodes'[i].next \in FreeNodes \cup {NodeCount} /\ i < nodes'[i].next
             /\ \A j \in FreeNodes : i < j => nodes'[i].next <= j
  <2>1. i \in Nat /\ nodes[i].count \in Nat /\ nodes[i].count > 0 /\ nodes[i].next \in Nat
    BY <1>1, PlacesAre, SnapIs, WordsChange DEF ListWords
  <2>2. i + nodes[i].count <= nodes[i].next
    BY DEF ListWords
  <2>3. i < nodes[i].next
    BY <2>1, <2>2
  <2> QED
    BY <2>3 DEF ListWords
<1>3. Reached(nodes') = FreeNodes
    BY <1>1, <1>2, ReachedIs
<1> QED
    BY <1>3 DEF FreeNodes

LEMMA FreeBlocksSame ==
    ASSUME Types, Root, ListWords,
           \A i \in FreeNodes \cup {0} : nodes'[i] = nodes[i]
    PROVE  FreeNodes' = FreeNodes /\ FreeBlocks' = FreeBlocks
<1>1. FreeNodes' = FreeNodes
    BY FreeSame
<1> QED
    BY <1>1 DEF FreeBlocks

-----------------------------------------------------------------------------
(* What a step does to the references *)

Others(t) == \A u \in Threads \ {t} : Same(u)

\* The reference to md that t has been lent.
Lends1(t, md) == IF call[t].carries /\ call[t].md = md THEN 1 ELSE 0

LEMMA LendersAre ==
    ASSUME NEW t \in Threads, NEW md
    PROVE  Cardinality(Lenders(md)) = Cardinality(Lenders(md) \ {t}) + Lends1(t, md)
<1>1. IsFiniteSet(Lenders(md)) /\ Cardinality(Lenders(md)) \in Nat
    BY FiniteAssumption, FS_Subset, FS_CardinalityType DEF Lenders
<1>2. CASE t \in Lenders(md)
  <2>1. Cardinality(Lenders(md) \ {t}) = Cardinality(Lenders(md)) - 1
    BY <1>1, <1>2, FS_RemoveElement
  <2>2. Lends1(t, md) = 1
    BY <1>2 DEF Lenders, Lends1
  <2> QED
    BY <1>1, <2>1, <2>2
<1>3. CASE t \notin Lenders(md)
  <2>1. Lenders(md) \ {t} = Lenders(md)
    BY <1>3
  <2>2. Lends1(t, md) = 0
    BY <1>3 DEF Lenders, Lends1
  <2> QED
    BY <1>1, <2>1, <2>2
<1> QED
    BY <1>2, <1>3

LEMMA LendersNext ==
    \A t \in Threads : \A md :
        Cardinality(Lenders(md)') = Cardinality(Lenders(md)' \ {t}) + Lends1(t, md)'
<1>1. \A t \in Threads : \A md :
         Cardinality(Lenders(md)) = Cardinality(Lenders(md) \ {t}) + Lends1(t, md)
    BY LendersAre
<1>2. (\A t \in Threads : \A md :
          Cardinality(Lenders(md)) = Cardinality(Lenders(md) \ {t}) + Lends1(t, md))'
    BY <1>1, PTL
<1> QED
    BY <1>2

LEMMA RefsMove ==
    ASSUME Types, NEW t \in Threads, Others(t), IsABag(held'), NEW md
    PROVE  /\ Refs(md)' = Refs(md) + (Copies(md)' - Copies(md)) + (Lends1(t, md)' - Lends1(t, md))
           /\ Refs(md) \in Nat /\ Copies(md) \in Nat /\ Copies(md)' \in Nat
<1>1. Lenders(md)' \ {t} = Lenders(md) \ {t}
    BY DEF Lenders, Others, Same
<1> DEFINE n == Cardinality(Lenders(md) \ {t})
<1>2. IsFiniteSet(Lenders(md) \ {t})
    BY FiniteAssumption, FS_Subset DEF Lenders
<1>3. n \in Nat
    BY <1>2, FS_CardinalityType
<1>4. Cardinality(Lenders(md)) = n + Lends1(t, md)
    BY LendersAre
<1>5. Cardinality(Lenders(md)') = n + Lends1(t, md)'
  <2>1. Cardinality(Lenders(md)') = Cardinality(Lenders(md)' \ {t}) + Lends1(t, md)'
    BY LendersNext
  <2> QED
    BY <1>1, <2>1
<1>6. Copies(md) \in Nat
    BY CopiesNat DEF Types
<1>7. Copies(md)' \in Nat
    BY CopiesNext
<1>8. Lends1(t, md) \in Nat /\ Lends1(t, md)' \in Nat
    BY DEF Lends1
<1> HIDE DEF n
<1>9. Refs(md) = Copies(md) + (n + Lends1(t, md))
    BY <1>4 DEF Refs
<1>10. Refs(md)' = Copies(md)' + (n + Lends1(t, md)')
    BY <1>5 DEF Refs
<1> QED
    BY <1>3, <1>6, <1>7, <1>8, <1>9, <1>10

RefsKept == \A md : Refs(md)' = Refs(md)

\* One descriptor gains n references, or loses one.
RefsGain(md, n) == \A d : Refs(d)' = IF d = md THEN Refs(d) + n ELSE Refs(d)
RefsLose(md) == \A d : Refs(d)' = IF d = md THEN Refs(d) - 1 ELSE Refs(d)

Bagged == IsABag(held) /\ BagToSet(held) \subseteq Descriptors

LEMMA RefsSame ==
    ASSUME Types, NEW t \in Threads, Others(t), UNCHANGED held,
           call'[t].carries <=> call[t].carries,
           call[t].carries => call'[t].md = call[t].md
    PROVE  RefsKept /\ Bagged'
<1>1. Bagged'
    BY DEF Types, Bagged
<1>2. ASSUME NEW md
      PROVE  Refs(md)' = Refs(md)
  <2>1. /\ Refs(md)' = Refs(md) + (Copies(md)' - Copies(md)) + (Lends1(t, md)' - Lends1(t, md))
        /\ Refs(md) \in Nat /\ Copies(md) \in Nat
    BY <1>1, RefsMove DEF Bagged
  <2>2. Copies(md)' = Copies(md)
    BY DEF Copies
  <2>3. Lends1(t, md)' = Lends1(t, md) /\ Lends1(t, md) \in Nat
    BY DEF Lends1
  <2> QED
    BY <2>1, <2>2, <2>3
<1> QED
    BY <1>1, <1>2 DEF RefsKept

LEMMA RefsLent ==
    ASSUME Types, NEW t \in Threads, Others(t), NEW md, Lending(md),
           ~ call[t].carries, call'[t].carries, call'[t].md = md
    PROVE  RefsKept /\ Bagged'
<1>1. /\ IsABag(held') /\ BagToSet(held)' \subseteq BagToSet(held) /\ Copies(md) > 0
      /\ \A d : Copies(d)' = IF d = md THEN Copies(d) - 1 ELSE Copies(d)
    BY Dropping DEF Types, Lending
<1>2. Bagged'
    BY <1>1 DEF Types, Bagged
<1>3. ASSUME NEW d
      PROVE  Refs(d)' = Refs(d)
  <2>1. /\ Refs(d)' = Refs(d) + (Copies(d)' - Copies(d)) + (Lends1(t, d)' - Lends1(t, d))
        /\ Refs(d) \in Nat /\ Copies(d) \in Nat
    BY <1>1, RefsMove
  <2>2. Copies(d)' = IF d = md THEN Copies(d) - 1 ELSE Copies(d)
    BY <1>1
  <2>3. Lends1(t, d) = 0 /\ Lends1(t, d)' = IF d = md THEN 1 ELSE 0
    BY DEF Lends1
  <2> QED
    BY <2>1, <2>2, <2>3
<1> QED
    BY <1>2, <1>3 DEF RefsKept

LEMMA RefsMore ==
    ASSUME Types, NEW t \in Threads, Others(t), NEW md \in Descriptors, NEW n \in Nat,
           n + Lent(t) > 0, Hold(md, n + Lent(t)),
           call[t].carries => call[t].md = md, ~ call'[t].carries
    PROVE  RefsGain(md, n) /\ Bagged'
<1>0. Lent(t) \in Nat
    BY DEF Lent
<1>1. /\ IsABag(held') /\ BagToSet(held)' = BagToSet(held) \cup {md}
      /\ \A d : Copies(d)' = IF d = md THEN Copies(d) + (n + Lent(t)) ELSE Copies(d)
    BY <1>0, Holding DEF Types
<1>2. Bagged'
    BY <1>1 DEF Types, Bagged
<1>3. ASSUME NEW d
      PROVE  Refs(d)' = IF d = md THEN Refs(d) + n ELSE Refs(d)
  <2>1. /\ Refs(d)' = Refs(d) + (Copies(d)' - Copies(d)) + (Lends1(t, d)' - Lends1(t, d))
        /\ Refs(d) \in Nat /\ Copies(d) \in Nat
    BY <1>1, RefsMove
  <2>2. Copies(d)' = IF d = md THEN Copies(d) + (n + Lent(t)) ELSE Copies(d)
    BY <1>1
  <2>3. Lends1(t, d)' = 0 /\ Lends1(t, d) = IF d = md THEN Lent(t) ELSE 0
    BY DEF Lends1, Lent
  <2> QED
    BY <1>0, <2>1, <2>2, <2>3
<1> QED
    BY <1>2, <1>3 DEF RefsGain

LEMMA RefsBack ==
    ASSUME Types, NEW t \in Threads, Others(t), Lends(t, 0),
           call[t].carries => call[t].md \in Descriptors, ~ call'[t].carries
    PROVE  RefsKept /\ Bagged'
<1>1. CASE call[t].carries
  <2>1. Lent(t) = 1 /\ 0 + Lent(t) = 1
    BY <1>1 DEF Lent
  <2>2. Hold(call[t].md, 0 + Lent(t))
    BY <2>1 DEF Lends
  <2>3. RefsGain(call[t].md, 0) /\ Bagged'
    BY <1>1, <2>1, <2>2, RefsMore
  <2>4. \A d : Refs(d) + 0 = Refs(d)
    BY RefsNat
  <2> QED
    BY <2>3, <2>4 DEF RefsGain, RefsKept
<1>2. CASE ~ call[t].carries
  <2>1. UNCHANGED held
    BY <1>2 DEF Lends, Lent
  <2> QED
    BY <1>2, <2>1, RefsSame
<1> QED
    BY <1>1, <1>2

LEMMA RefsLess ==
    ASSUME Types, NEW t \in Threads, Others(t), UNCHANGED held,
           call[t].carries, ~ call'[t].carries
    PROVE  RefsLose(call[t].md) /\ Bagged'
<1>1. Bagged'
    BY DEF Types, Bagged
<1>2. ASSUME NEW d
      PROVE  Refs(d)' = IF d = call[t].md THEN Refs(d) - 1 ELSE Refs(d)
  <2>1. /\ Refs(d)' = Refs(d) + (Copies(d)' - Copies(d)) + (Lends1(t, d)' - Lends1(t, d))
        /\ Refs(d) \in Nat /\ Copies(d) \in Nat
    BY <1>1, RefsMove DEF Bagged
  <2>2. Copies(d)' = Copies(d)
    BY DEF Copies
  <2>3. Lends1(t, d)' = 0 /\ Lends1(t, d) = IF d = call[t].md THEN 1 ELSE 0
    BY DEF Lends1
  <2> QED
    BY <2>1, <2>2, <2>3
<1> QED
    BY <1>1, <1>2 DEF RefsLose

LEMMA AliveIsNext ==
    Types' /\ Located' => Alive' \subseteq Descriptors /\ \A md : md \in Alive' <=> Refs(md)' > 0
<1>1. Types /\ Located => Alive \subseteq Descriptors /\ \A md : md \in Alive <=> Refs(md) > 0
    BY AliveIs
<1>2. (Types /\ Located => Alive \subseteq Descriptors /\ \A md : md \in Alive <=> Refs(md) > 0)'
    BY <1>1, PTL
<1> QED
    BY <1>2

-----------------------------------------------------------------------------
(* The invariant, opened *)

RefWords ==
    /\ \A md \in Alive : nodes[md.index].version = md.version /\ nodes[md.index].next = Refs(md)
    /\ \A md \in parked : nodes[md.index].version = md.version /\ nodes[md.index].next = 0

LEMMA ReferencesAre == References <=> RefWords
BY DEF References, RefWords, Alive, Refs, Lenders

LEMMA InvSays ==
    ASSUME Inv
    PROVE  /\ Types /\ Located /\ RefWords /\ Exclusive /\ OwnWords /\ Copied /\ Borrowed
           /\ Preceded /\ Followed /\ Flagged /\ Chosen /\ Root
           /\ ListWords /\ Blocks /\ UsedMeans /\ BlockMeans
           /\ Alive \subseteq Descriptors /\ \A md : md \in Alive <=> Refs(md) > 0
           /\ \A i \in FreeNodes \cup {0} : i \notin UsedNodes
           /\ UsedNodes \subseteq Indices
<1>1. /\ Types /\ Located /\ References /\ Exclusive /\ OwnWords /\ Copied /\ Borrowed
      /\ Preceded /\ Followed /\ Flagged /\ Chosen /\ Root /\ List!Inv
    BY DEF Inv
<1>2. ListWords /\ Blocks
    BY <1>1, ListSays
<1>3. UsedMeans /\ BlockMeans
    BY <1>1, UsedIs, BlockIs
<1>4. Alive \subseteq Descriptors /\ \A md : md \in Alive <=> Refs(md) > 0
    BY <1>1, AliveIs
<1>5. (\A i \in FreeNodes \cup {0} : i \notin UsedNodes) /\ UsedNodes \subseteq Indices
    BY <1>1, <1>2, Apart
<1> QED
    BY <1>1, <1>2, <1>3, <1>4, <1>5, ReferencesAre

\* A block has one descriptor, alive or parked.
LEMMA OneName ==
    ASSUME Inv, NEW md \in Alive \cup parked, NEW d \in Alive \cup parked, md.index = d.index
    PROVE  md = d /\ (md \in Alive => md \notin parked)
<1>1. md \in Descriptors /\ d \in Descriptors
    BY InvSays DEF Types
<1>2. nodes[md.index].version = md.version /\ nodes[d.index].version = d.version
    BY InvSays DEF RefWords
<1>3. md = d
    BY <1>1, <1>2 DEF Descriptors
<1>4. md \in Alive => Refs(md) > 0 /\ Refs(md) \in Nat
    BY InvSays, RefsNat
<1>5. md \in parked /\ md \in Alive => Refs(md) = 0
    BY InvSays DEF RefWords
<1> QED
    BY <1>3, <1>4, <1>5

-----------------------------------------------------------------------------
(* What a step of t leaves to the other threads *)

Respects(t) ==
    /\ Others(t)
    /\ \A u \in Threads \ {t} :
          Alone(u) /\ pc[u] # "initVersion" => nodes'[Base(u)] = nodes[Base(u)]
    /\ \A i \in FreeNodes \cup {0} :
          i \in FreeNodes' \cup {0} \/ (isJoinTail(nodes[i]) /\ nodes'[i] = nodes[i])
    /\ \A c \in Indices : Joined(c) /\ nodes'[c] = nodes[c] => Joined(c)'
    /\ \A u \in Threads \ {t} :
          pc[u] = "join" /\ ~ isModified(pred[u]) /\ (~ isModified(pred[u]))' =>
              (~ isModified(curr[u]))'
    /\ \A b : Kept(b) => Kept(b)' \/ pc[t] = "publish"

LEMMA LocatedStays ==
    ASSUME Inv, NEW t \in Threads, Others(t), NEW u \in Threads \ {t}
    PROVE  LocatedAt(u)'
<1>1. Same(u) /\ LocatedAt(u)
    BY InvSays DEF Others, Located
<1> QED
    BY <1>1 DEF Same, LocatedAt, Searching, Releasing, Carving

LEMMA OwnWordStays ==
    ASSUME Inv, NEW t \in Threads, Respects(t), NEW u \in Threads \ {t}
    PROVE  OwnWord(u)'
<1>1. Same(u) /\ OwnWord(u)
    BY InvSays DEF Respects, Others, OwnWords
<1>2. Base(u)' = Base(u) /\ (Owning(u)' <=> Owning(u)) /\ (Adjacent(u)' <=> Adjacent(u))
    BY <1>1 DEF Same, Owning, Carving, Adjacent
<1>3. CASE Alone(u) /\ pc[u] # "initVersion"
  <2>1. nodes'[Base(u)] = nodes[Base(u)]
    BY <1>3 DEF Respects
  <2> QED
    BY <1>1, <1>2, <2>1 DEF Same, OwnWord
<1>4. CASE ~ (Alone(u) /\ pc[u] # "initVersion")
  <2>1. ~ Owning(u) /\ pc[u] \notin {"initCount", "initRef"}
    BY <1>4 DEF Alone, Owning, Carving
  <2> QED
    BY <1>1, <1>2, <2>1 DEF Same, OwnWord
<1> QED
    BY <1>3, <1>4

LEMMA CopiedStays ==
    ASSUME Inv, NEW t \in Threads, Respects(t), NEW u \in Threads \ {t}
    PROVE  CopiedAt(u)'
<1>1. Same(u) /\ CopiedAt(u)
    BY InvSays DEF Respects, Others, Copied
<1>2. pc[u] = "dupNewCas" => nodes'[Base(u)] = nodes[Base(u)]
    BY InvSays, Doing DEF Respects, Alone
<1> QED
    BY <1>1, <1>2 DEF Same, CopiedAt, Snap

LEMMA BorrowedStays ==
    ASSUME Inv, NEW t \in Threads, Respects(t), DupsAreSafe, NEW u \in Threads \ {t}
    PROVE  BorrowedAt(u)'
<1>1. Same(u) /\ BorrowedAt(u)
    BY InvSays DEF Respects, Others, Borrowed
<1>2. ASSUME pc[u] \in {"dup", "dupCas"}, call[u].op = "racyDup"
      PROVE  pc[t] # "publish"
  <2>1. "racyDup" \in Ops
    BY <1>2, InvSays DEF Types, Calls
  <2>2. pc[t] = "publish" => Releasing(t)
    BY InvSays, Doing DEF Linking
  <2>3. call[t].op \in {"none"} \cup Ops
    BY InvSays DEF Types, Calls
  <2> QED
    BY <2>1, <2>2, <2>3 DEF DupsAreSafe, Releasing
<1> QED
    BY <1>1, <1>2 DEF Same, BorrowedAt, Respects

\* Only a node flagged JOIN_TAIL leaves the list.
LEMMA FreshStays ==
    ASSUME Inv, NEW t \in Threads, Respects(t), TagsHold, NEW u \in Threads,
           NEW snap \in Armed(u), Fresh(snap), ~ isJoinTail(snap.node),
           nodes'[snap.place] = snap.node
    PROVE  snap.place \in FreeNodes' \cup {0} /\ nodes[snap.place] = snap.node
<1>1. nodes[snap.place] = snap.node
    BY DEF TagsHold
<1>2. snap.place \in FreeNodes \cup {0}
    BY <1>1 DEF Fresh, isModified
<1> QED
    BY <1>1, <1>2 DEF Respects

LEMMA PrecededStays ==
    ASSUME Inv, NEW t \in Threads, Respects(t), TagsHold, NEW u \in Threads \ {t}
    PROVE  PrecededAt(u)'
<1>1. Same(u) /\ PrecededAt(u)
    BY InvSays DEF Respects, Others, Preceded
<1>2. CASE pc[u] \in Walking
  <2>1. pred[u] \in Armed(u) /\ Fresh(pred[u]) /\ ~ isJoinTail(pred[u].node)
    BY <1>1, <1>2 DEF Armed, PrecededAt
  <2>2. nodes'[pred[u].place] = pred[u].node => pred[u].place \in FreeNodes' \cup {0}
    BY <2>1, FreshStays
  <2>3. Fresh(pred[u])'
    BY <1>1, <2>2 DEF Fresh, isModified, Same
  <2> QED
    BY <1>1, <1>2, <2>3 DEF PrecededAt, Same, Tame, Releasing
<1>3. CASE pc[u] \notin Walking
    BY <1>1, <1>3 DEF PrecededAt, Same
<1> QED
    BY <1>2, <1>3

LEMMA ChosenStays ==
    ASSUME Inv, NEW t \in Threads, Respects(t), TagsHold, NEW u \in Threads \ {t}
    PROVE  ChosenAt(u)'
<1>1. Same(u) /\ ChosenAt(u)
    BY InvSays DEF Respects, Others, Chosen
<1>2. CASE pc[u] \in {"take"} \cup (Linking \ {"undo"})
  <2>1. curr[u] \in Armed(u) /\ Fresh(curr[u]) /\ ~ isJoinTail(curr[u].node)
    BY <1>1, <1>2 DEF Armed, ChosenAt
  <2>2. nodes'[curr[u].place] = curr[u].node => curr[u].place \in FreeNodes' \cup {0}
    BY <2>1, FreshStays
  <2>3. Fresh(curr[u])'
    BY <1>1, <2>2 DEF Fresh, isModified, Same
  <2> QED
    BY <1>1, <1>2, <2>3 DEF ChosenAt, Same, Tame, Releasing
<1>3. CASE pc[u] \notin {"take"} \cup (Linking \ {"undo"})
    BY <1>1, <1>3 DEF ChosenAt, Same
<1> QED
    BY <1>2, <1>3

LEMMA FollowedStays ==
    ASSUME Inv, NEW t \in Threads, Respects(t), TagsHold, NEW u \in Threads \ {t}
    PROVE  FollowedAt(u)'
<1>1. Same(u) /\ FollowedAt(u)
    BY InvSays DEF Respects, Others, Followed
<1>2. Follows(u)' <=> Follows(u)
    BY <1>1 DEF Same, Follows, Tame, Releasing
<1>3. CASE pc[u] = "recheck"
  <2>1. pred[u] \in Armed(u)
    BY <1>3 DEF Armed, Walking
  <2>2. nodes'[pred[u].place] = pred[u].node => nodes[pred[u].place] = pred[u].node
    BY <2>1 DEF TagsHold
  <2> QED
    BY <1>1, <1>2, <1>3, <2>2 DEF FollowedAt, Same, isModified
<1>4. CASE pc[u] = "markHead"
    BY <1>1, <1>2, <1>4 DEF FollowedAt, Same
<1>5. CASE pc[u] = "markTail"
  <2>1. curr[u] \in Armed(u)
    BY <1>5 DEF Armed
  <2>2. nodes'[curr[u].place] = curr[u].node => nodes[curr[u].place] = curr[u].node
    BY <2>1 DEF TagsHold
  <2>3. curr[u].place \in Indices
    BY <1>1, <1>5, InvSays DEF FollowedAt, Follows, Tame, Types, Snapshots
  <2>4. nodes'[curr[u].place] = curr[u].node => Joined(curr[u].place)'
    <3> DEFINE c == curr[u].place
    <3>2. ASSUME nodes'[c] = curr[u].node
          PROVE  Joined(c) /\ nodes'[c] = nodes[c]
      BY <1>1, <1>5, <2>2, <3>2 DEF FollowedAt, isModified
    <3>3. PICK i \in Indices : i = c
      BY <2>3
    <3>4. Joined(i) /\ nodes'[i] = nodes[i] => Joined(i)'
      BY DEF Respects
    <3>5. curr'[u].place = i
      BY <1>1, <3>3 DEF Same
    <3> QED
      BY <1>1, <3>2, <3>3, <3>4, <3>5 DEF Same, Joined
  <2> QED
    BY <1>1, <1>2, <1>5, <2>4 DEF FollowedAt, Same, isModified
<1>6. CASE pc[u] = "join"
  <2>1. pred[u] \in Armed(u)
    BY <1>6 DEF Armed, Walking
  <2>2. (~ isModified(pred[u]))' => ~ isModified(pred[u])
    BY <1>1, <2>1 DEF TagsHold, Same, isModified
  <2>3. (~ isModified(pred[u]))' => (~ isModified(curr[u]))'
    BY <1>6, <2>2 DEF Respects
  <2> QED
    BY <1>1, <1>2, <1>6, <2>3 DEF FollowedAt, Same
<1>7. CASE pc[u] \notin {"recheck", "markHead", "markTail", "join"}
    BY <1>1, <1>7 DEF FollowedAt, Same
<1> QED
    BY <1>3, <1>4, <1>5, <1>6, <1>7

LEMMA FlaggedStays ==
    ASSUME Inv, NEW t \in Threads, Respects(t), TagsHold, pc'[t] \notin {"join", "markTail"}
    PROVE  Flagged'
<1>1. ASSUME NEW a \in Threads, NEW b \in Threads, pc'[a] = "join", pc'[b] = "markTail",
             curr'[a] = curr'[b], nodes'[curr'[b].place] = curr'[b].node
      PROVE  nodes'[pred'[a].place] # pred'[a].node
  <2>1. Same(a) /\ Same(b)
    BY <1>1 DEF Respects, Others
  <2>2. curr[b] \in Armed(b) /\ pred[a] \in Armed(a)
    BY <1>1, <2>1 DEF Same, Armed, Walking
  <2>3. ~ isModified(curr[b])
    BY <1>1, <2>1, <2>2 DEF TagsHold, Same, isModified
  <2>4. isModified(pred[a])
    BY <1>1, <2>1, <2>3, InvSays DEF Same, Flagged
  <2> QED
    BY <2>1, <2>2, <2>4 DEF TagsHold, Same, isModified
<1> QED
    BY <1>1 DEF Flagged, isModified

\* What there is to show of a step of t.
Finishes(t) ==
    /\ LocatedAt(t) /\ OwnWord(t) /\ CopiedAt(t) /\ BorrowedAt(t)
    /\ PrecededAt(t) /\ FollowedAt(t) /\ ChosenAt(t)

LEMMA Assembled ==
    ASSUME Inv, TagsHold, DupsAreSafe, NEW t \in Threads, Respects(t), Finishes(t)',
           Types', RefWords', Exclusive', Root', Flagged', List!Inv'
    PROVE  Inv'
<1>1. ASSUME NEW u \in Threads, u # t
      PROVE  Finishes(u)'
    BY <1>1, LocatedStays, OwnWordStays, CopiedStays, BorrowedStays, PrecededStays,
        FollowedStays, ChosenStays DEF Finishes, Respects
<1>2. \A u \in Threads : Finishes(u)'
    BY <1>1
<1>3. Located' /\ OwnWords' /\ Copied' /\ Borrowed' /\ Preceded' /\ Followed' /\ Chosen'
    BY <1>2 DEF Finishes, Located, OwnWords, Copied, Borrowed, Preceded, Followed, Chosen
<1>4. (References <=> RefWords)'
    BY ReferencesAre, PTL
<1> QED
    BY <1>3, <1>4 DEF Inv

-----------------------------------------------------------------------------
(* Steps that leave the list alone *)

\* The successor of a node of the list is one.
LEMMA NextFree ==
    ASSUME Inv, NEW i \in FreeNodes \cup {0}, nodes[i].next # NodeCount
    PROVE  nodes[i].next \in FreeNodes
BY InvSays, FreeTame

LEMMA OffList ==
    ASSUME Inv, \A i \in Indices : i \notin UsedNodes => nodes'[i] = nodes[i]
    PROVE  /\ \A i \in FreeNodes \cup {0} : nodes'[i] = nodes[i]
           /\ FreeNodes' = FreeNodes /\ UNCHANGED FreeBlocks /\ Root'
<1>1. \A i \in FreeNodes \cup {0} : i \notin UsedNodes /\ i \in Indices
    BY InvSays, FreeTame
<1>2. \A i \in FreeNodes \cup {0} : nodes'[i] = nodes[i]
    BY <1>1
<1>3. FreeNodes' = FreeNodes /\ FreeBlocks' = FreeBlocks
    BY <1>2, InvSays, FreeBlocksSame
<1>4. Root'
    BY <1>2, InvSays DEF Root
<1> QED
    BY <1>2, <1>3, <1>4

LEMMA OffRespects ==
    ASSUME Inv, NEW t \in Threads, Others(t), UsedNodes' \subseteq UsedNodes,
           \A i \in Indices : i \notin UsedNodes => nodes'[i] = nodes[i],
           \A u \in Threads \ {t} :
              Alone(u) /\ pc[u] # "initVersion" => nodes'[Base(u)] = nodes[Base(u)],
           pc[t] = "initVersion" => nodes'[Base(t)] # nodes[Base(t)],
           \A b : Kept(b) => Kept(b)'
    PROVE  Respects(t)
<1>1. /\ \A i \in FreeNodes \cup {0} : nodes'[i] = nodes[i]
      /\ FreeNodes' = FreeNodes
    BY OffList
<1>2. ASSUME NEW c \in Indices, Joined(c), nodes'[c] = nodes[c]
      PROVE  Joined(c)'
  <2>1. CASE c \in FreeNodes
    <3>1. PICK p \in FreeNodes : nodes[p].next = c /\ isJoinHead(nodes[p])
      BY <1>2, <2>1 DEF Joined
    <3>2. nodes'[p] = nodes[p]
      BY <1>1
    <3> QED
      BY <1>1, <2>1, <3>1, <3>2 DEF Joined, isJoinHead
  <2>2. CASE c \notin FreeNodes /\ c \notin UsedNodes
    BY <1>1, <2>2 DEF Joined
  <2>3. CASE c \notin FreeNodes /\ \E u \in Threads : pc[u] = "initVersion" /\ Base(u) = c
    <3>1. PICK u \in Threads : pc[u] = "initVersion" /\ Base(u) = c
      BY <2>3
    <3>2. u # t
      BY <1>2, <3>1
    <3>3. Same(u)
      BY <3>2 DEF Others
    <3>4. pc'[u] = "initVersion" /\ Base(u)' = c
      BY <3>1, <3>3 DEF Same
    <3> QED
      BY <1>1, <2>3, <3>4 DEF Joined
  <2> QED
    BY <1>2, <2>1, <2>2, <2>3 DEF Joined
<1>3. ASSUME NEW u \in Threads \ {t}, pc[u] = "join", ~ isModified(pred[u])
      PROVE  (~ isModified(curr[u]))'
  <2>1. /\ Tame(pred[u]) /\ Fresh(pred[u]) /\ pred[u].node.next # NodeCount
        /\ Follows(u) /\ ~ isModified(curr[u])
    BY <1>3, InvSays DEF Preceded, PrecededAt, Followed, FollowedAt, Walking
  <2>2. pred[u].place \in FreeNodes \cup {0} /\ nodes[pred[u].place] = pred[u].node
    BY <1>3, <2>1 DEF Fresh, isModified
  <2>3. curr[u].place \in FreeNodes
    BY <2>1, <2>2, NextFree DEF Follows
  <2> QED
    BY <1>1, <2>1, <2>3 DEF isModified, Others, Same
<1> QED
    BY <1>1, <1>2, <1>3 DEF Respects
-----------------------------------------------------------------------------
(* The blocks after a step of t *)

LEMMA BlockStays ==
    ASSUME NEW t \in Threads, Others(t), NEW b,
           Alone(t) => Base(t) # b, Alone(t)' => Base(t)' # b,
           nodes'[b].count = nodes[b].count, nodes'[b].next = nodes[b].next
    PROVE  UsedBlock(b)' = UsedBlock(b)
<1> DEFINE first(S) == CHOOSE w \in S : TRUE
           carve == {u \in {v \in Threads : call[v].md # None /\ Base(v) = b} : Carving(u)}
           own == {u \in {v \in Threads : call[v].md # None /\ Base(v) = b} : Owning(u)}
           needs == {call[u].need : u \in carve}
<1>1. \A u \in Threads \ {t} : (u \in carve' <=> u \in carve) /\ (u \in own' <=> u \in own)
    BY DEF Others, Same, Carving, Owning
<1>2. t \notin carve /\ t \notin carve' /\ t \notin own /\ t \notin own'
    BY DEF Alone
<1>3. carve' = carve /\ own' = own
    BY <1>1, <1>2
<1>4. \A u \in carve : call'[u].need = call[u].need
    BY <1>2 DEF Others, Same
<1>5. needs' = needs
    BY <1>3, <1>4
<1>6. UsedBlock(b) =
         IF carve # {}
         THEN [count |-> first(needs), refs |-> 1]
         ELSE [count |-> nodes[b].count,
               refs |-> IF own # {} THEN 0 ELSE nodes[b].next]
    BY DEF UsedBlock
<1>7. UsedBlock(b)' =
         IF carve' # {}
         THEN [count |-> first(needs'), refs |-> 1]
         ELSE [count |-> nodes'[b].count,
               refs |-> IF own' # {} THEN 0 ELSE nodes'[b].next]
    BY DEF UsedBlock
<1> HIDE DEF carve, own, first, needs
<1> QED
    BY <1>3, <1>5, <1>6, <1>7

-----------------------------------------------------------------------------
(* Steps that change nobody's part: a thread writes its own block at most *)

\* A thread that neither gets nor gives away a block.
Steady(t) ==
    /\ (Carving(t)' <=> Carving(t)) /\ (Owning(t)' <=> Owning(t))
    /\ Alone(t) => Base(t)' = Base(t)
    /\ Carving(t) => call'[t].need = call[t].need

LEMMA SteadyOthers ==
    ASSUME NEW t \in Threads, Others(t), Steady(t)
    PROVE  /\ \A u \in Threads : /\ Carving(u)' <=> Carving(u)
                                 /\ Owning(u)' <=> Owning(u)
                                 /\ Alone(u)' <=> Alone(u)
                                 /\ Alone(u) => Base(u)' = Base(u)
                                 /\ Carving(u) => call'[u].need = call[u].need
           /\ \A b : Single(b)' <=> Single(b)
<1>1. ASSUME NEW u \in Threads
      PROVE  /\ Carving(u)' <=> Carving(u)
             /\ Owning(u)' <=> Owning(u)
             /\ Alone(u)' <=> Alone(u)
             /\ Alone(u) => Base(u)' = Base(u)
             /\ Carving(u) => call'[u].need = call[u].need
  <2>1. CASE u = t
    BY <2>1 DEF Steady, Alone
  <2>2. CASE u # t
    BY <2>2 DEF Others, Same, Carving, Owning, Alone
  <2> QED
    BY <2>1, <2>2
<1>2. ASSUME NEW b
      PROVE  Single(b)' <=> Single(b)
  <2>1. \A u \in Threads : (Alone(u)' /\ Base(u)' = b) <=> (Alone(u) /\ Base(u) = b)
    BY <1>1
  <2> QED
    BY <2>1 DEF Single
<1> QED
    BY <1>1, <1>2

LEMMA AliveKept ==
    ASSUME Inv, Types', Located', RefsKept
    PROVE  Alive' = Alive
<1>1. \A md : md \in Alive' <=> md \in Alive
    BY InvSays, AliveIsNext DEF RefsKept
<1> QED
    BY <1>1

\* Nothing changes in the blocks but who knows them.
Carried ==
    /\ Exclusive' /\ RefWords' /\ UsedNodes' = UsedNodes /\ UNCHANGED UsedBlocks
    /\ \A b : Kept(b) => Kept(b)'

\* Of the allocated blocks t writes at most the one that it alone knows, and
\* those of which nothing but the swap that carved them has happened.
OwnWrites(t) ==
    \A b \in UsedNodes :
        \/ nodes'[b] = nodes[b]
        \/ Alone(t) /\ b = Base(t)
        \/ \E u \in Threads : pc[u] = "initVersion" /\ Base(u) = b

LEMMA SharedWords ==
    ASSUME Inv, NEW t \in Threads, OwnWrites(t)
    PROVE  /\ \A b : Shared(b) => b \in UsedNodes /\ nodes'[b] = nodes[b]
           /\ \A md \in Alive \cup parked : nodes'[md.index] = nodes[md.index]
           /\ \A u \in Threads \ {t} :
                 Alone(u) /\ pc[u] # "initVersion" =>
                     Base(u) \in UsedNodes /\ nodes'[Base(u)] = nodes[Base(u)]
           /\ Alone(t) => Base(t) \in UsedNodes
<1>0. \A u \in Threads : pc[u] = "initVersion" => Alone(u)
    BY DEF Alone, Carving
<1>1. \A b : Shared(b) => b \in UsedNodes /\ \A u \in Threads : ~ (Alone(u) /\ b = Base(u))
    BY InvSays DEF UsedMeans, Exclusive
<1>2. \A u \in Threads : Alone(u) => Base(u) \in UsedNodes
    BY InvSays DEF UsedMeans, Single
<1>3. \A u, v \in Threads : Alone(u) /\ Alone(v) /\ Base(u) = Base(v) => u = v
    BY InvSays DEF Exclusive
<1>4. \A b : Shared(b) => nodes'[b] = nodes[b]
    BY <1>0, <1>1 DEF OwnWrites
<1>5. \A u \in Threads \ {t} :
         Alone(u) /\ pc[u] # "initVersion" => nodes'[Base(u)] = nodes[Base(u)]
    BY <1>0, <1>2, <1>3 DEF OwnWrites
<1> QED
    BY <1>1, <1>2, <1>4, <1>5 DEF Shared

LEMMA SteadyUsed ==
    ASSUME Inv, NEW t \in Threads, Others(t), Types', Located', RefsKept, UNCHANGED parked,
           Steady(t), OwnWrites(t),
           Owning(t) => nodes'[Base(t)].count = nodes[Base(t)].count
    PROVE  Carried
<1>1. Alive' = Alive /\ \A b : Shared(b)' <=> Shared(b)
    BY AliveKept DEF Shared
<1>2. /\ \A u \in Threads : /\ Carving(u)' <=> Carving(u)
                            /\ Owning(u)' <=> Owning(u)
                            /\ Alone(u)' <=> Alone(u)
                            /\ Alone(u) => Base(u)' = Base(u)
                            /\ Carving(u) => call'[u].need = call[u].need
      /\ \A b : Single(b)' <=> Single(b)
    BY SteadyOthers
<1>3. UsedNodes' = UsedNodes
  <2>1. UsedMeans' /\ UsedMeans
    BY InvSays, UsedIsNext
  <2>2. \A b : b \in UsedNodes' <=> b \in UsedNodes
    BY <1>1, <1>2, <2>1 DEF UsedMeans
  <2> QED
    BY <2>2
<1>4. Exclusive'
  <2>1. Exclusive
    BY InvSays
  <2> QED
    BY <1>1, <1>2, <2>1 DEF Exclusive
<1>5. RefWords'
  <2>1. \A md \in Alive \cup parked : nodes'[md.index] = nodes[md.index]
    BY SharedWords
  <2>2. RefWords
    BY InvSays
  <2> QED
    BY <1>1, <2>1, <2>2 DEF RefWords, RefsKept
<1>6. ASSUME NEW b \in UsedNodes
      PROVE  UsedBlock(b)' = UsedBlock(b)
  <2>1. BlockMeans /\ BlockMeans'
    BY <1>4, InvSays, BlockIsNext
  <2>2. ASSUME NEW u \in Threads, Carving(u), Base(u) = b
        PROVE  UsedBlock(b)' = UsedBlock(b)
    <3>1. UsedBlock(b) = [count |-> call[u].need, refs |-> 1]
      BY <2>1, <2>2 DEF BlockMeans
    <3>2. Carving(u)' /\ Base(u)' = b /\ call'[u].need = call[u].need
      BY <1>2, <2>2 DEF Alone
    <3>3. UsedBlock(b)' = [count |-> call'[u].need, refs |-> 1]
      BY <2>1, <3>2 DEF BlockMeans
    <3> QED
      BY <3>1, <3>2, <3>3
  <2>3. CASE Owning(t) /\ b = Base(t)
    <3>1. UsedBlock(b) = [count |-> nodes[b].count, refs |-> 0]
      BY <2>1, <2>3 DEF BlockMeans
    <3>2. Owning(t)' /\ Base(t)' = b /\ nodes'[b].count = nodes[b].count
      BY <1>2, <2>3 DEF Alone
    <3>3. UsedBlock(b)' = [count |-> nodes'[b].count, refs |-> 0]
      BY <2>1, <3>2 DEF BlockMeans
    <3> QED
      BY <3>1, <3>2, <3>3
  <2>4. CASE /\ ~ (Alone(t) /\ b = Base(t))
             /\ ~ \E u \in Threads : Carving(u) /\ Base(u) = b
    <3>1. nodes'[b] = nodes[b]
      BY <2>4 DEF OwnWrites, Carving
    <3>2. (Alone(t) => Base(t) # b) /\ (Alone(t)' => Base(t)' # b)
      BY <1>2, <2>4
    <3> QED
      BY <3>1, <3>2, BlockStays
  <2> QED
    BY <2>2, <2>3, <2>4 DEF Alone
<1>7. UNCHANGED UsedBlocks
    BY <1>3, <1>6 DEF UsedBlocks
<1>8. \A b : Kept(b) => Kept(b)'
    BY <1>1, <1>2 DEF Kept, Alone
<1> QED
    BY <1>3, <1>4, <1>5, <1>7, <1>8 DEF Carried

\* What all steps that leave the list alone have in common.
Calm ==
    Root' /\ List!Inv' /\ ListStep /\ FreeNodes' = FreeNodes /\ Exclusive' /\ RefWords'

LEMMA OffOk ==
    ASSUME Inv, NEW t \in Threads, Others(t), Carried, OwnWrites(t),
           \A i \in Indices : i \notin UsedNodes => nodes'[i] = nodes[i],
           pc[t] = "initVersion" => nodes'[Base(t)] # nodes[Base(t)]
    PROVE  Respects(t) /\ Calm
<1>1. FreeNodes' = FreeNodes /\ UNCHANGED FreeBlocks /\ Root'
    BY OffList
<1>2. List!Inv' /\ ListStep
  <2>1. List!Inv /\ UNCHANGED List!vars
    BY <1>1 DEF Inv, List!vars, Carried
  <2> QED
    BY <2>1, ListSteps
<1>3. \A u \in Threads \ {t} :
         Alone(u) /\ pc[u] # "initVersion" => nodes'[Base(u)] = nodes[Base(u)]
    BY SharedWords
<1>4. UsedNodes' \subseteq UsedNodes /\ \A b : Kept(b) => Kept(b)'
    BY DEF Carried
<1>5. Respects(t)
    BY <1>3, <1>4, OffRespects
<1> QED
    BY <1>1, <1>2, <1>5 DEF Carried, Calm

LEMMA LocatedNext ==
    ASSUME Inv, NEW t \in Threads, Others(t), LocatedAt(t)'
    PROVE  Located'
BY LocatedStays DEF Located

LEMMA TypesNext ==
    ASSUME Types, NEW t \in Threads, NEW label \in Labels, NEW c \in Calls,
           NEW p \in Snapshots, NEW s \in Snapshots, Moves(t, label, c, p, s),
           nodes' \in [Indices -> Words], Bagged', parked' \subseteq Descriptors,
           calls' \in 0 .. MaxCalls
    PROVE  Types' /\ Others(t)
<1>1. /\ pc' \in [Threads -> Labels] /\ call' \in [Threads -> Calls]
      /\ pred' \in [Threads -> Snapshots] /\ curr' \in [Threads -> Snapshots]
    BY MovesTyped
<1>2. Others(t)
    BY Moved DEF Others
<1> QED
    BY <1>1, <1>2 DEF Types, Bagged

-----------------------------------------------------------------------------
(* Steps that write nothing *)

CarvingAt == {"initVersion", "initCount", "initRef"}

\* The call goes on with the block it is about.
Keeping(c, d) == c.md = d.md /\ c.op = d.op /\ (c.carries <=> d.carries)

LEMMA SteadyMoves ==
    ASSUME Inv, NEW t \in Threads, NEW label \in Labels \ (CarvingAt \cup {"abort"}), NEW c,
           NEW p, NEW s, Moves(t, label, c, p, s), pc[t] \notin CarvingAt, Keeping(c, call[t])
    PROVE  Steady(t) /\ (call'[t].carries <=> call[t].carries) /\ call'[t].md = call[t].md
<1>1. pc'[t] = label /\ call'[t] = c
    BY InvSays, Moved
<1>2. pc[t] # "abort"
    BY InvSays, Doing
<1>3. ~ Carving(t) /\ ~ Carving(t)'
    BY <1>1 DEF Carving, CarvingAt
<1>4. Owning(t)' <=> Owning(t)
    BY <1>1, <1>2, <1>3 DEF Owning, Keeping
<1> QED
    BY <1>1, <1>3, <1>4 DEF Steady, Keeping

LEMMA QuietOk ==
    ASSUME Inv, NEW t \in Threads, NEW label \in Labels \ (CarvingAt \cup {"abort"}),
           NEW c \in Calls, NEW p \in Snapshots, NEW s \in Snapshots,
           Moves(t, label, c, p, s), pc[t] \notin CarvingAt, Keeping(c, call[t]),
           UNCHANGED <<nodes, held, parked, calls>>, LocatedAt(t)'
    PROVE  Types' /\ Respects(t) /\ Calm /\ UsedNodes' = UsedNodes
<1>1. Bagged' /\ parked' \subseteq Descriptors /\ calls' \in 0 .. MaxCalls
      /\ nodes' \in [Indices -> Words]
    BY InvSays DEF Types, Bagged
<1>2. Types' /\ Others(t)
    BY <1>1, InvSays, TypesNext
<1>3. Located'
    BY <1>2, LocatedNext
<1>4. Steady(t) /\ (call'[t].carries <=> call[t].carries) /\ call'[t].md = call[t].md
    BY SteadyMoves
<1>5. RefsKept
    BY <1>2, <1>4, InvSays, RefsSame
<1>6. OwnWrites(t)
    BY DEF OwnWrites
<1>7. Carried
    BY <1>2, <1>3, <1>4, <1>5, <1>6, SteadyUsed
<1>8. pc[t] # "initVersion"
    BY DEF CarvingAt
<1>9. Respects(t) /\ Calm
    BY <1>2, <1>6, <1>7, <1>8, OffOk
<1> QED
    BY <1>2, <1>7, <1>9 DEF Carried

LEMMA OwnWordCalm ==
    ASSUME Inv, NEW t \in Threads,
           pc[t] \notin CarvingAt \cup (Linking \ {"link"}),
           pc'[t] \notin CarvingAt \cup (Linking \ {"link"}),
           Keeping(call'[t], call[t]), nodes'[Base(t)] = nodes[Base(t)]
    PROVE  OwnWord(t)'
<1>1. Base(t)' = Base(t) /\ (Owning(t)' => Owning(t))
    BY InvSays, Doing DEF Keeping, Owning, Carving, CarvingAt
<1>2. OwnWord(t)
    BY InvSays DEF OwnWords
<1> QED
    BY <1>1, <1>2 DEF OwnWord, CarvingAt, Linking, Keeping

\* ... to a line at which nothing is known of snapshots.
LEMMA BlankOk ==
    ASSUME Inv, TagsHold, DupsAreSafe, NEW t \in Threads, NEW label \in {"head", "dup", "undup"},
           NEW c \in Calls, NEW p \in Snapshots, NEW s \in Snapshots,
           Moves(t, label, c, p, s), Keeping(c, call[t]),
           pc[t] \notin CarvingAt \cup (Linking \ {"link"}),
           label = "dup" => pc[t] = "dupCas",
           UNCHANGED <<nodes, held, parked, calls>>, LocatedAt(t)'
    PROVE  Inv' /\ ListStep
<1>1. label \in Labels \ (CarvingAt \cup {"abort"})
    BY DEF Labels, CarvingAt
<1>2. Types' /\ Respects(t) /\ Calm
    BY <1>1, QuietOk
<1>3. pc'[t] = label /\ call'[t] = c
    BY InvSays, Moved
<1>4. OwnWord(t)'
    BY <1>3, OwnWordCalm DEF CarvingAt, Linking
<1>5. BorrowedAt(t)'
  <2>1. label = "dup" /\ call[t].op = "racyDup" => Kept(Base(t))
    BY InvSays DEF Borrowed, BorrowedAt
  <2>2. label = "dup" /\ call[t].op = "racyDup" => Kept(Base(t))'
    BY <1>2, <2>1, <1>3 DEF Respects, Keeping
  <2> QED
    BY <1>3, <2>2 DEF BorrowedAt, Keeping
<1>6. CopiedAt(t)' /\ PrecededAt(t)' /\ FollowedAt(t)' /\ ChosenAt(t)'
    BY <1>3 DEF CopiedAt, PrecededAt, FollowedAt, ChosenAt, Walking, Linking
<1>7. Flagged'
    BY <1>2, <1>3, FlaggedStays
<1> QED
    BY <1>2, <1>4, <1>5, <1>6, <1>7, Assembled DEF Finishes, Calm

-----------------------------------------------------------------------------
(* The end of an operation *)

LEMMA IdleFinishes ==
    ASSUME Inv, NEW t \in Threads, pc'[t] = "idle", call'[t] = NoCall
    PROVE  Finishes(t)' /\ ~ Alone(t)' /\ ~ call'[t].carries
<1>1. call'[t].md = None /\ ~ call'[t].carries
    BY DEF NoCall
<1>2. ~ Carving(t)' /\ ~ Owning(t)'
    BY <1>1 DEF Carving, Owning
<1>3. LocatedAt(t)'
    BY <1>2 DEF LocatedAt, Walking, Linking
<1>4. OwnWord(t)' /\ CopiedAt(t)' /\ BorrowedAt(t)'
    BY <1>2 DEF OwnWord, CopiedAt, BorrowedAt
<1>5. PrecededAt(t)' /\ FollowedAt(t)' /\ ChosenAt(t)'
    BY DEF PrecededAt, FollowedAt, ChosenAt, Walking, Linking
<1> QED
    BY <1>1, <1>2, <1>3, <1>4, <1>5 DEF Finishes, Alone

\* The blocks that other threads alone know.
Elsewhere(t, b) == \E u \in Threads \ {t} : Alone(u) /\ Base(u) = b

LEMMA ElsewhereStays ==
    ASSUME NEW t \in Threads, Others(t)
    PROVE  /\ \A u \in Threads \ {t} : /\ (Alone(u)' <=> Alone(u)) /\ (Owning(u)' <=> Owning(u))
                                       /\ Base(u)' = Base(u)
           /\ \A b : Elsewhere(t, b)' <=> Elsewhere(t, b)
           /\ \A b : Single(b) <=> Elsewhere(t, b) \/ (Alone(t) /\ Base(t) = b)
           /\ \A b : Single(b)' <=> Elsewhere(t, b) \/ (Alone(t)' /\ Base(t)' = b)
<1>1. \A u \in Threads \ {t} : /\ (Alone(u)' <=> Alone(u)) /\ (Owning(u)' <=> Owning(u))
                               /\ Base(u)' = Base(u)
    BY DEF Others, Same, Alone, Owning, Carving
<1>2. \A b : Elsewhere(t, b)' <=> Elsewhere(t, b)
    BY <1>1 DEF Elsewhere
<1>3. \A b : Single(b) <=> Elsewhere(t, b) \/ (Alone(t) /\ Base(t) = b)
    BY DEF Single, Elsewhere
<1>4. \A b : Single(b)' <=> Elsewhere(t, b)' \/ (Alone(t)' /\ Base(t)' = b)
    BY DEF Single, Elsewhere
<1> QED
    BY <1>1, <1>2, <1>3, <1>4

\* The owner of a dead block leaves it to whoever finds it parked.
LEMMA ParkUsed ==
    ASSUME Inv, NEW t \in Threads, Others(t), Types', Located', RefsKept,
           Owning(t), ~ Alone(t)', parked' = parked \cup {call[t].md}, OwnWrites(t),
           nodes'[Base(t)].count = nodes[Base(t)].count,
           nodes'[Base(t)].version = call[t].md.version, nodes'[Base(t)].next = 0
    PROVE  Carried
<1>0. Alone(t) /\ Alive' = Alive
    BY AliveKept DEF Alone
<1>1. \A b : Shared(b)' <=> Shared(b) \/ b = Base(t)
    BY <1>0 DEF Shared
<1>2. /\ \A u \in Threads \ {t} : /\ (Alone(u)' <=> Alone(u)) /\ (Owning(u)' <=> Owning(u))
                                  /\ Base(u)' = Base(u)
      /\ \A b : Single(b) <=> Elsewhere(t, b) \/ b = Base(t)
      /\ \A b : Single(b)' <=> Elsewhere(t, b)
    BY <1>0, ElsewhereStays
<1>3. UsedNodes' = UsedNodes
  <2>1. UsedMeans' /\ UsedMeans
    BY InvSays, UsedIsNext
  <2>2. \A b : b \in UsedNodes' <=> b \in UsedNodes
    BY <1>1, <1>2, <2>1 DEF UsedMeans
  <2> QED
    BY <2>2
<1>4. Exclusive'
  <2>1. Exclusive
    BY InvSays
  <2>2. \A u \in Threads : Alone(u)' => u # t /\ Alone(u) /\ Base(u)' = Base(u) /\ Base(u) # Base(t)
    BY <1>0, <1>2, <2>1 DEF Exclusive
  <2> QED
    BY <1>1, <2>1, <2>2 DEF Exclusive
<1>5. RefWords'
  <2>1. \A md \in Alive \cup parked : nodes'[md.index] = nodes[md.index]
    BY SharedWords
  <2>2. RefWords
    BY InvSays
  <2> QED
    BY <1>0, <2>1, <2>2 DEF RefWords, RefsKept
<1>6. ASSUME NEW b \in UsedNodes
      PROVE  UsedBlock(b)' = UsedBlock(b)
  <2>1. BlockMeans /\ BlockMeans'
    BY <1>4, InvSays, BlockIsNext
  <2>2. CASE b = Base(t)
    <3>1. UsedBlock(b) = [count |-> nodes[b].count, refs |-> 0]
      BY <2>1, <2>2 DEF BlockMeans
    <3>2. UsedBlock(b)' = [count |-> nodes'[b].count, refs |-> nodes'[b].next]
      BY <1>1, <2>1, <2>2 DEF BlockMeans
    <3> QED
      BY <2>2, <3>1, <3>2
  <2>3. ASSUME NEW u \in Threads \ {t}, Carving(u), Base(u) = b
        PROVE  UsedBlock(b)' = UsedBlock(b)
    <3>1. UsedBlock(b) = [count |-> call[u].need, refs |-> 1]
      BY <2>1, <2>3 DEF BlockMeans
    <3>2. Carving(u)' /\ Base(u)' = b /\ call'[u].need = call[u].need
      BY <2>3 DEF Others, Same, Carving
    <3>3. UsedBlock(b)' = [count |-> call'[u].need, refs |-> 1]
      BY <2>1, <3>2 DEF BlockMeans
    <3> QED
      BY <3>1, <3>2, <3>3
  <2>4. CASE b # Base(t) /\ ~ \E u \in Threads \ {t} : Carving(u) /\ Base(u) = b
    <3>1. nodes'[b] = nodes[b]
      BY <2>4 DEF OwnWrites, Carving
    <3> QED
      BY <2>4, <3>1, BlockStays
  <2> QED
    BY <2>2, <2>3, <2>4
<1>7. UNCHANGED UsedBlocks
    BY <1>3, <1>6 DEF UsedBlocks
<1>8. ASSUME NEW b, Kept(b)
      PROVE  Kept(b)'
  <2>1. CASE Shared(b)
    BY <1>1, <2>1 DEF Kept
  <2>2. CASE \E u \in Threads : Owning(u) /\ Base(u) = b
    BY <1>1, <1>2, <2>2 DEF Kept
  <2> QED
    BY <1>8, <2>1, <2>2 DEF Kept
<1> QED
    BY <1>3, <1>4, <1>5, <1>7, <1>8 DEF Carried

\* allocate finds nothing, or release gives its block up for now.
LEMMA FailsUsed ==
    ASSUME Inv, NEW t \in Threads, Fails(t), pc[t] \in {"head", "undo"} \cup Walking,
           UNCHANGED <<held, calls>>, nodes' \in [Indices -> Words], OwnWrites(t),
           Owning(t) => /\ nodes'[Base(t)].count = nodes[Base(t)].count
                        /\ nodes'[Base(t)].version = call[t].md.version
                        /\ nodes'[Base(t)].next = 0
    PROVE  Types' /\ Others(t) /\ Carried /\ Finishes(t)' /\ pc'[t] = "idle"
<1>1. Moves(t, "idle", NoCall, None, None)
    BY DEF Fails
<1>2. pc'[t] = "idle" /\ call'[t] = NoCall /\ Others(t)
    BY <1>1, InvSays, Moved DEF Others
<1>3. /\ ~ call[t].carries /\ ~ Carving(t) /\ (Releasing(t) <=> Owning(t))
      /\ Owning(t) => call[t].md \in Descriptors
    BY InvSays, Doing DEF Linking, Alone
<1>4. Finishes(t)' /\ ~ Alone(t)' /\ ~ call'[t].carries
    BY <1>2, IdleFinishes
<1>5. RefsKept /\ Bagged'
    BY <1>2, <1>3, <1>4, InvSays, RefsSame
<1>6. parked' \subseteq Descriptors /\ calls' \in 0 .. MaxCalls
    BY <1>3, InvSays DEF Fails, Types
<1>7. Types'
  <2>1. "idle" \in Labels /\ NoCall \in Calls /\ None \in Snapshots
    BY InvSays, CallFields DEF Labels, Snapshots
  <2> QED
    BY <1>1, <1>5, <1>6, <2>1, InvSays, TypesNext
<1>8. Located'
    BY <1>2, <1>4, LocatedNext DEF Finishes
<1>9. Carried
  <2>1. CASE Owning(t)
    <3>1. parked' = parked \cup {call[t].md}
      BY <1>3, <2>1 DEF Fails
    <3> QED
      BY <1>2, <1>4, <1>5, <1>7, <1>8, <2>1, <3>1, ParkUsed
  <2>2. CASE ~ Owning(t)
    <3>1. UNCHANGED parked
      BY <1>3, <2>2 DEF Fails
    <3>2. Steady(t)
      BY <1>3, <1>4, <2>2 DEF Steady, Alone
    <3> QED
      BY <1>2, <1>5, <1>7, <1>8, <2>2, <3>1, <3>2, SteadyUsed
  <2> QED
    BY <2>1, <2>2
<1> QED
    BY <1>2, <1>4, <1>7, <1>9

LEMMA FailOk ==
    ASSUME Inv, TagsHold, DupsAreSafe, NEW t \in Threads, Fails(t),
           pc[t] \in {"head"} \cup Walking, UNCHANGED <<nodes, held, calls>>
    PROVE  Inv' /\ ListStep
<1>1. pc[t] \notin Linking /\ pc[t] # "initVersion"
    BY DEF Walking, Linking
<1>2. Owning(t) => nodes[Base(t)].version = call[t].md.version /\ nodes[Base(t)].next = 0
    BY <1>1, InvSays DEF OwnWords, OwnWord, Linking
<1>3. OwnWrites(t) /\ nodes' \in [Indices -> Words]
    BY InvSays DEF OwnWrites, Types
<1>4. Types' /\ Others(t) /\ Carried /\ Finishes(t)' /\ pc'[t] = "idle"
    BY <1>2, <1>3, FailsUsed
<1>5. Respects(t) /\ Calm
    BY <1>1, <1>3, <1>4, OffOk
<1>6. Flagged'
    BY <1>4, <1>5, FlaggedStays
<1> QED
    BY <1>4, <1>5, <1>6, Assembled DEF Calm

-----------------------------------------------------------------------------
(* findCandidate *)

\* Where a search stands.
LEMMA SearchFacts ==
    ASSUME Inv, NEW t \in Threads, pc[t] \in {"head", "take"} \cup Walking
    PROVE  /\ pc[t] \notin CarvingAt \cup Linking \cup {"abort", "undup", "dup"}
           /\ Searching(t)
           /\ Releasing(t) => Base(t) \in UsedNodes /\ Owning(t) /\ Base(t) \in Nat /\ Base(t) >= 1
<1>1. pc[t] \notin CarvingAt \cup Linking \cup {"abort", "undup", "dup"}
    BY DEF Walking, Linking, CarvingAt
<1>2. Searching(t)
    BY InvSays DEF Located, LocatedAt
<1>3. Releasing(t) => Owning(t)
    BY InvSays, Doing
<1>4. Releasing(t) => Base(t) \in UsedNodes
    BY <1>3, InvSays DEF UsedMeans, Single, Alone
<1>5. UsedNodes \subseteq Places
    BY InvSays, Apart
<1>6. Places \subseteq Nat /\ \A b \in Places : b >= 1
    BY PlacesAre DEF Places
<1> QED
    BY <1>1, <1>2, <1>3, <1>4, <1>5, <1>6

\* A search that goes on within findCandidate.
LEMMA SearchOk ==
    ASSUME Inv, TagsHold, DupsAreSafe, NEW t \in Threads,
           pc[t] \in {"head"} \cup Walking,
           NEW label \in {"head", "next", "recheck", "markHead"}, NEW c \in Calls,
           NEW p \in Snapshots, NEW s \in Snapshots, Moves(t, label, c, p, s),
           Keeping(c, call[t]), c.need = call[t].need,
           UNCHANGED <<nodes, held, parked, calls>>, PrecededAt(t)', FollowedAt(t)'
    PROVE  Inv' /\ ListStep
<1>1. label \in Labels \ (CarvingAt \cup {"abort"})
    BY DEF Labels, CarvingAt
<1>2. pc[t] \notin CarvingAt \cup Linking /\ Searching(t)
    BY SearchFacts
<1>3. pc'[t] = label /\ call'[t] = c
    BY InvSays, Moved
<1>4. LocatedAt(t)'
    BY <1>2, <1>3 DEF LocatedAt, Searching, Keeping, Releasing, Carving, Linking
<1>5. Types' /\ Respects(t) /\ Calm
    BY <1>1, <1>2, <1>4, QuietOk
<1>6. OwnWord(t)'
    BY <1>2, <1>3, OwnWordCalm DEF CarvingAt, Linking
<1>7. CopiedAt(t)' /\ BorrowedAt(t)' /\ ChosenAt(t)'
    BY <1>3 DEF CopiedAt, BorrowedAt, ChosenAt, Linking
<1>8. Flagged'
    BY <1>3, <1>5, FlaggedStays
<1> QED
    BY <1>4, <1>5, <1>6, <1>7, <1>8, Assembled DEF Finishes, Calm

LEMMA RestartOk ==
    ASSUME Inv, TagsHold, DupsAreSafe, NEW t \in Threads, Restarts(t), pc[t] \in Walking,
           UNCHANGED <<nodes, held, calls>>
    PROVE  Inv' /\ ListStep
<1> DEFINE c == [call[t] EXCEPT !.retry = @ - 1]
<1>1. Moves(t, "head", c, None, None) /\ UNCHANGED parked
    BY DEF Restarts
<1>2. c \in Calls /\ Keeping(c, call[t]) /\ c.need = call[t].need /\ None \in Snapshots
  <2>1. call[t] \in Calls /\ call[t].retry - 1 \in Int
    BY InvSays, CallFields
  <2>2. c = [call[t] EXCEPT !.retry = call[t].retry - 1]
    BY <2>1 DEF Calls
  <2> HIDE DEF c
  <2> QED
    BY <2>1, <2>2, InvSays, CallFields DEF Keeping, Snapshots
<1> HIDE DEF c
<1>3. pc'[t] = "head"
    BY <1>1, InvSays, Moved
<1>4. PrecededAt(t)' /\ FollowedAt(t)'
    BY <1>3 DEF PrecededAt, FollowedAt, Walking
<1> QED
    BY <1>1, <1>2, <1>4, SearchOk

LEMMA HeadOk ==
    ASSUME Inv, TagsHold, DupsAreSafe, NEW t \in Threads, Head(t)
    PROVE  Inv' /\ ListStep
<1>1. pc[t] = "head" /\ UNCHANGED <<nodes, held, calls>>
    BY InvSays, HeadDoes
<1>2. CASE Fails(t)
    BY <1>1, <1>2, FailOk
<1>3. CASE Moves(t, "next", call[t], Snap(0), curr[t]) /\ UNCHANGED parked
  <2>1. pc'[t] = "next" /\ call'[t] = call[t] /\ pred'[t] = Snap(0)
    BY <1>3, InvSays, Moved
  <2>2. /\ Snap(0).node = nodes[0] /\ Snap(0) \in Snapshots /\ Snap(0).place = 0
        /\ Tame(Snap(0))
    BY InvSays, SnapIs, FreeTame, PlacesAre
  <2>3. nodes[0].next = 1 /\ nodes[0].status = {}
    BY InvSays DEF Root, AVAILABLE
  <2>4. Releasing(t) => 1 <= Base(t)
    BY <1>1, SearchFacts
  <2>5. PrecededAt(t)'
    BY <2>1, <2>2, <2>3, <2>4, PlacesAre DEF PrecededAt, Tame, Fresh, Releasing, isJoinTail
  <2>6. FollowedAt(t)'
    BY <2>1 DEF FollowedAt
  <2>7. call[t] \in Calls /\ curr[t] \in Snapshots /\ Keeping(call[t], call[t])
    BY InvSays DEF Types, Keeping
  <2> QED
    BY <1>1, <1>3, <2>2, <2>5, <2>6, <2>7, SearchOk
<1> QED
    BY <1>2, <1>3, InvSays, HeadDoes

LEMMA NextSnapshotOk ==
    ASSUME Inv, TagsHold, DupsAreSafe, NEW t \in Threads, NextSnapshot(t)
    PROVE  Inv' /\ ListStep
<1> DEFINE i == pred[t].node.next
<1>1. /\ pc[t] = "next" /\ UNCHANGED <<nodes, held, parked, calls>>
      /\ Moves(t, "recheck", call[t], pred[t], Snap(i))
    BY InvSays, NextSnapshotDoes
<1>2. /\ Tame(pred[t]) /\ Fresh(pred[t]) /\ i # NodeCount /\ PrecededAt(t)
      /\ ~ isJoinTail(pred[t].node)
      /\ (Releasing(t) => i <= Base(t))
    BY <1>1, InvSays DEF Preceded, PrecededAt, Walking
<1>3. pred[t] \in Snapshots /\ pred[t] \in [place : Indices, node : Words]
    BY <1>2, InvSays DEF Tame, Types, Snapshots
<1>4. pred[t].place \in Nat /\ i \in pred[t].place + 1 .. NodeCount
    BY <1>2, <1>3, PlacesAre DEF Tame
<1>5. isModified(pred[t])' <=> isModified(pred[t])
    <2>1. pred'[t] = pred[t]
        BY <1>1, InvSays, Moved
    <2> QED
        BY <1>1, <2>1 DEF isModified
<1>6. ~ isModified(pred[t]) => i \in FreeNodes
  <2>1. SUFFICES ASSUME ~ isModified(pred[t])
                 PROVE  i \in FreeNodes
      OBVIOUS
  <2>2. pred[t].place \in FreeNodes \cup {0} /\ nodes[pred[t].place].next = i
      BY <1>2, <2>1 DEF Fresh, isModified
  <2> QED
      BY <1>2, <2>2, NextFree
<1> HIDE DEF i
<1>7. i \in Indices
    BY <1>2, <1>4, PlacesAre
<1>8. /\ Snap(i) \in Snapshots /\ Snap(i) # None /\ Snap(i).place = i /\ Snap(i).node = nodes[i]
      /\ nodes[i] \in Words
    BY <1>7, InvSays, SnapIs
<1>9. pc'[t] = "recheck" /\ call'[t] = call[t] /\ pred'[t] = pred[t] /\ curr'[t] = Snap(i)
    BY <1>1, InvSays, Moved
<1>10. ~ isModified(pred[t]) => Tame(Snap(i))
    BY <1>6, InvSays, FreeTame
<1>11. ~ isModified(pred[t]) /\ Releasing(t) => i + nodes[i].count <= Base(t)
  <2>1. SUFFICES ASSUME ~ isModified(pred[t]), Releasing(t)
                 PROVE  i + nodes[i].count <= Base(t)
      OBVIOUS
  <2>2. i \in FreeNodes /\ i <= Base(t) /\ i \in Nat /\ nodes[i].count \in Nat
    <3>1. i \in Nat
        BY <1>7, PlacesAre
    <3>2. nodes[i].count \in Nat
        BY <1>8, WordParts
    <3> QED
        BY <1>2, <1>6, <2>1, <3>1, <3>2
  <2>3. Base(t) \in UsedNodes /\ Base(t) \in Nat
      BY <1>1, <2>1, SearchFacts DEF Walking
  <2>4. /\ UsedBlock(Base(t)).count \in Nat /\ UsedBlock(Base(t)).count > 0
        /\ (Base(t) + UsedBlock(Base(t)).count <= i \/ i + nodes[i].count <= Base(t))
      BY <2>2, <2>3, InvSays DEF Blocks
  <2> QED
      BY <2>2, <2>3, <2>4
<1>12. PrecededAt(t)'
  <2>1. Tame(pred[t])' /\ Fresh(pred[t])'
      BY <1>1, <1>2, <1>5, <1>9 DEF Tame, Fresh, FreeNodes
  <2> QED
      BY <1>2, <1>9, <2>1 DEF PrecededAt, Releasing, i
<1>13. FollowedAt(t)'
  <2>1. curr'[t] # None
      BY <1>8, <1>9
  <2>2. ASSUME ~ isModified(pred[t])'
        PROVE  Follows(t)'
    <3>1. ~ isModified(pred[t])
        BY <1>5, <2>2
    <3>2. Tame(curr[t])'
        BY <1>9, <1>10, <3>1 DEF Tame
    <3>3. index(curr[t])' = (pred[t].node.next)'
        BY <1>8, <1>9 DEF i
    <3>4. (Releasing(t) => index(curr[t]) + curr[t].node.count <= Base(t))'
        BY <1>8, <1>9, <1>11, <3>1 DEF Releasing
    <3> QED
        BY <3>2, <3>3, <3>4 DEF Follows
  <2> QED
      BY <1>9, <2>1, <2>2 DEF FollowedAt
<1>14. call[t] \in Calls /\ Keeping(call[t], call[t]) /\ call[t].need = call[t].need
    BY InvSays DEF Types, Keeping
<1>15. pc[t] \in {"head"} \cup Walking
    BY <1>1 DEF Walking
<1> QED
    BY <1>1, <1>3, <1>8, <1>12, <1>13, <1>14, <1>15, SearchOk

\* The walk visits a node of which it has a snapshot: it ends there, goes on
\* from there, or fails.
LEMMA VisitFinishes ==
    ASSUME Inv, NEW t \in Threads, pc[t] \in Walking, NEW snap \in Snapshots, Visits(t, snap),
           Tame(snap), ~ isJoinTail(snap.node), snap.place # 0,
           Releasing(t) => /\ snap.place + snap.node.count <= Base(t)
                           /\ nodes'[Base(t)] = nodes[Base(t)],
           nodes'[snap.place] = snap.node => snap.place \in FreeNodes' \cup {0}
    PROVE  \/ Fails(t)
           \/ \E label \in {"link", "take", "next"}, p, s \in Snapshots :
                 Moves(t, label, call[t], p, s) /\ UNCHANGED parked /\ Finishes(t)'
<1>1. None \in Snapshots /\ pc[t] \notin CarvingAt \cup Linking /\ Searching(t)
      /\ (Releasing(t) => Owning(t) /\ Base(t) \in Nat)
    BY SearchFacts DEF Snapshots
<1>2. snap.node.next \in Nat /\ snap # None
  <2>1. snap \in [place : Indices, node : Words] /\ snap # None
      BY DEF Tame, Snapshots
  <2> QED
      BY <2>1, WordParts
<1>3. SUFFICES ASSUME NEW label \in {"link", "take", "next"},
                      NEW p \in Snapshots, NEW s \in Snapshots,
                      Moves(t, label, call[t], p, s),
                      label = "next" => p = snap, label # "next" => s = snap,
                      label # "next" <=> Accepts(t, snap.node),
                      label = "link" => Releasing(t), label = "take" => ~ Releasing(t),
                      label = "next" => snap.node.next # NodeCount
               PROVE  Finishes(t)'
    BY <1>1 DEF Visits
<1>4. pc'[t] = label /\ call'[t] = call[t] /\ pred'[t] = p /\ curr'[t] = s
    BY <1>3, InvSays, Moved
<1>5. Tame(snap)' /\ Fresh(snap)'
    BY DEF Tame, Fresh, isModified
<1>6. LocatedAt(t)'
    BY <1>1, <1>3, <1>4 DEF LocatedAt, Searching, Releasing, Carving, Walking, Linking
<1>7. OwnWord(t)'
  <2>1. CASE Releasing(t)
      BY <1>1, <1>3, <1>4, <2>1, OwnWordCalm DEF CarvingAt, Linking, Keeping
  <2>2. CASE ~ Releasing(t)
    <3>1. call'[t].md = None /\ pc'[t] \notin CarvingAt
        BY <1>1, <1>3, <1>4, <2>2 DEF Searching, CarvingAt
    <3> QED
        BY <3>1 DEF OwnWord, Owning, CarvingAt
  <2> QED
      BY <2>1, <2>2
<1>8. CopiedAt(t)' /\ BorrowedAt(t)' /\ FollowedAt(t)'
    BY <1>3, <1>4 DEF CopiedAt, BorrowedAt, FollowedAt
<1>9. PrecededAt(t)'
    BY <1>1, <1>2, <1>3, <1>4, <1>5 DEF PrecededAt, Walking, Accepts, Releasing
<1>10. ChosenAt(t)'
    BY <1>1, <1>2, <1>3, <1>4, <1>5 DEF ChosenAt, Linking, Accepts, Releasing
<1> QED
    BY <1>6, <1>7, <1>8, <1>9, <1>10 DEF Finishes

LEMMA RecheckOk ==
    ASSUME Inv, TagsHold, DupsAreSafe, NEW t \in Threads, Recheck(t)
    PROVE  Inv' /\ ListStep
<1>1. pc[t] = "recheck" /\ UNCHANGED <<nodes, held, calls>> /\ pc[t] \in Walking
    BY InvSays, RecheckDoes DEF Walking
<1>2. CASE Restarts(t)
    BY <1>1, <1>2, RestartOk
<1>3. SUFFICES ASSUME ~ Restarts(t)
               PROVE  Inv' /\ ListStep
    BY <1>2
<1>4. ~ isModified(pred[t])
    BY <1>3, InvSays, RecheckDoes
<1>5. PrecededAt(t) /\ Follows(t) /\ curr[t] # None
    BY <1>1, <1>4, InvSays DEF Preceded, Followed, FollowedAt
<1>6. /\ Tame(pred[t]) /\ Fresh(pred[t]) /\ ~ isJoinTail(pred[t].node)
      /\ pred[t].node.next # NodeCount
    BY <1>1, <1>5 DEF PrecededAt
<1>7. /\ Tame(curr[t]) /\ curr[t].place = pred[t].node.next
      /\ (Releasing(t) => curr[t].place + curr[t].node.count <= Base(t))
    BY <1>5 DEF Follows
<1>8. /\ (isJoinHead(curr[t].node) => isJoinable(index(curr[t]), curr[t].node))
      /\ (isJoinHead(pred[t].node) => isJoinable(index(pred[t]), pred[t].node))
    BY <1>6, <1>7 DEF Tame
<1>9. pred[t] \in Snapshots /\ curr[t] \in Snapshots /\ call[t] \in Calls
      /\ Keeping(call[t], call[t])
    BY InvSays DEF Types, Keeping
<1>10. CASE /\ UNCHANGED parked /\ isJoinable(index(pred[t]), pred[t].node)
            /\ Moves(t, "markHead", call[t], pred[t], curr[t])
  <2>1. pc'[t] = "markHead" /\ call'[t] = call[t] /\ pred'[t] = pred[t] /\ curr'[t] = curr[t]
      BY <1>10, InvSays, Moved
  <2>2. Tame(pred[t])' /\ Fresh(pred[t])' /\ Follows(t)'
      BY <1>1, <1>5, <1>6, <2>1 DEF Tame, Fresh, isModified, FreeNodes, Follows, Releasing
  <2>3. PrecededAt(t)'
      BY <1>1, <1>5, <1>10, <2>1, <2>2 DEF PrecededAt, Releasing
  <2>4. FollowedAt(t)'
      BY <2>1, <2>2 DEF FollowedAt
  <2> QED
      BY <1>1, <1>9, <1>10, <2>3, <2>4, SearchOk
<1>11. CASE /\ Visits(t, curr[t]) /\ ~ isJoinable(index(pred[t]), pred[t].node)
            /\ (isJoinTail(curr[t].node) => isJoinHead(pred[t].node))
  <2>1. ~ isJoinTail(curr[t].node)
      BY <1>8, <1>11
  <2>2. curr[t].place \in FreeNodes
    <3>1. pred[t].place \in FreeNodes \cup {0} /\ nodes[pred[t].place].next = curr[t].place
        BY <1>4, <1>6, <1>7 DEF Fresh, isModified
    <3> QED
        BY <1>6, <1>7, <3>1, NextFree
  <2>3. curr[t].place # 0 /\ FreeNodes' = FreeNodes
      BY <1>1, <2>2, PlacesAre, InvSays DEF FreeNodes, ListWords
  <2>4. \/ Fails(t)
        \/ \E label \in {"link", "take", "next"}, p, s \in Snapshots :
              Moves(t, label, call[t], p, s) /\ UNCHANGED parked /\ Finishes(t)'
      BY <1>1, <1>7, <1>9, <1>11, <2>1, <2>2, <2>3, VisitFinishes
  <2>5. CASE Fails(t)
      BY <1>1, <2>5, FailOk
  <2>6. ASSUME NEW label \in {"link", "take", "next"}, NEW p \in Snapshots, NEW s \in Snapshots,
               Moves(t, label, call[t], p, s), UNCHANGED parked, Finishes(t)'
        PROVE  Inv' /\ ListStep
    <3>1. label \in Labels \ (CarvingAt \cup {"abort"}) /\ pc[t] \notin CarvingAt
        BY <1>1 DEF Labels, CarvingAt, Walking
    <3>2. LocatedAt(t)' /\ pc'[t] = label
        BY <2>6, InvSays, Moved DEF Finishes
    <3>3. Types' /\ Respects(t) /\ Calm
        BY <1>1, <1>9, <2>6, <3>1, <3>2, QuietOk
    <3>4. Flagged'
        BY <3>2, <3>3, FlaggedStays
    <3> QED
        BY <2>6, <3>3, <3>4, Assembled DEF Calm
  <2> QED
      BY <2>4, <2>5, <2>6
<1> QED
    BY <1>3, <1>8, <1>10, <1>11, InvSays, RecheckDoes

-----------------------------------------------------------------------------
(* Swaps of a word of the list *)

\* A flag changes neither the order of the nodes nor their sizes.
LEMMA FlagList ==
    ASSUME Inv, NEW i \in FreeNodes, NEW flag \in {JOIN_HEAD, JOIN_TAIL},
           Set(i, addStatus(nodes[i], flag)), UsedNodes' = UsedNodes, UNCHANGED UsedBlocks,
           flag = JOIN_HEAD => nodes[i].next # NodeCount /\ isJoinable(i, nodes[i]),
           flag = JOIN_TAIL =>
               \E q \in FreeNodes : nodes[q].next = i /\ isJoinHead(nodes[q])
    PROVE  FreeNodes' = FreeNodes /\ List!Inv' /\ ListStep
<1> DEFINE w == addStatus(nodes[i], flag)
<1>1. i \in Indices /\ i # 0 /\ nodes[i] \in Words
    BY InvSays, PlacesAre, SnapIs DEF ListWords
<1>2. w \in Words /\ w.next = nodes[i].next /\ w.count = nodes[i].count
      /\ w.status = nodes[i].status \cup {flag}
    BY <1>1, FlagWord
<1> HIDE DEF w
<1>3. nodes'[i] = w /\ \A j \in Indices \ {i} : nodes'[j] = nodes[j]
    BY <1>1, InvSays, Written DEF w
<1>4. FreeNodes \subseteq Indices /\ 0 \in Indices
    BY InvSays, PlacesAre DEF ListWords
<1>5. FreeNodes' = FreeNodes
  <2>1. \A j \in FreeNodes \cup {0} : nodes'[j].next = nodes[j].next
      BY <1>2, <1>3, <1>4
  <2> QED
      BY <2>1, InvSays, FreeSame
<1>6. FreeBlocks' = [FreeBlocks EXCEPT ![i].status = @ \cup {flag}]
  <2>1. FreeBlocks' = [j \in FreeNodes |-> [next |-> nodes'[j].next, count |-> nodes'[j].count,
                                            status |-> nodes'[j].status]]
      BY <1>5 DEF FreeBlocks
  <2>2. ASSUME NEW j \in FreeNodes
        PROVE  FreeBlocks'[j] = [FreeBlocks EXCEPT ![i].status = @ \cup {flag}][j]
    <3>1. CASE j = i
        BY <1>2, <1>3, <2>1, <3>1 DEF FreeBlocks
    <3>2. CASE j # i
        BY <1>3, <1>4, <2>1, <3>2 DEF FreeBlocks
    <3> QED
        BY <3>1, <3>2
  <2>3. FreeBlocks = [j \in FreeNodes |-> FreeBlocks[j]]
      BY DEF FreeBlocks
  <2>4. DOMAIN FreeBlocks = FreeNodes /\ DOMAIN FreeBlocks' = FreeNodes
      BY <2>1 DEF FreeBlocks
  <2> HIDE DEF FreeBlocks
  <2> QED
      BY <2>1, <2>2, <2>3
<1>7. DOMAIN FreeBlocks = FreeNodes
      /\ \A j \in FreeNodes : /\ FreeBlocks[j].next = nodes[j].next
                              /\ FreeBlocks[j].count = nodes[j].count
                              /\ FreeBlocks[j].status = nodes[j].status
    BY DEF FreeBlocks
<1>8. List!Next
  <2>1. CASE flag = JOIN_HEAD
    <3>1. List!MarkHead(i)
        BY <1>6, <1>7, <2>1
        DEF List!MarkHead, List!isJoinable, isJoinable, List!JOIN_HEAD, JOIN_HEAD
    <3> QED
        BY <1>7, <3>1 DEF List!Next
  <2>2. CASE flag = JOIN_TAIL
    <3>1. PICK q \in FreeNodes : nodes[q].next = i /\ isJoinHead(nodes[q])
        BY <2>2
    <3>2. List!MarkTail(q)
        BY <1>6, <1>7, <2>2, <3>1
        DEF List!MarkTail, List!isJoinHead, isJoinHead, List!JOIN_HEAD, JOIN_HEAD,
            List!JOIN_TAIL, JOIN_TAIL
    <3> QED
        BY <1>7, <3>2 DEF List!Next
  <2> QED
      BY <2>1, <2>2
<1>9. List!Inv
    BY DEF Inv
<1> QED
    BY <1>5, <1>8, <1>9, ListSteps

\* updateNodeStatus sets one of its two flags.
LEMMA FlagOk ==
    ASSUME Inv, NEW t \in Threads, pc[t] \in {"markHead", "markTail"},
           NEW i \in Indices \ {0}, NEW flag \in {JOIN_HEAD, JOIN_TAIL},
           Set(i, addStatus(nodes[i], flag)), UNCHANGED <<held, parked, calls>>,
           NEW label \in {"markTail", "join"}, NEW p \in Snapshots, NEW s \in Snapshots,
           Moves(t, label, call[t], p, s),
           i \in UsedNodes => \E u \in Threads : pc[u] = "initVersion" /\ Base(u) = i,
           flag = JOIN_HEAD => i \in FreeNodes /\ nodes[i].next # NodeCount
                                   /\ isJoinable(i, nodes[i]),
           i \in FreeNodes /\ flag = JOIN_TAIL =>
               \E q \in FreeNodes : nodes[q].next = i /\ isJoinHead(nodes[q]),
           \A u \in Threads \ {t} :
               pc[u] = "join" /\ ~ isModified(pred[u]) => curr[u].place # i
    PROVE  /\ Types' /\ Respects(t) /\ Calm
           /\ LocatedAt(t)' /\ OwnWord(t)' /\ CopiedAt(t)' /\ BorrowedAt(t)' /\ ChosenAt(t)'
           /\ \A c \in Indices : Joined(c) /\ c # i => Joined(c)'
<1> DEFINE w == addStatus(nodes[i], flag)
<1>1. i \in Indices /\ i # 0 /\ nodes[i] \in Words
    BY InvSays, SnapIs
<1>2. w \in Words /\ w # nodes[i] /\ w.next = nodes[i].next /\ w.count = nodes[i].count
      /\ w.status = nodes[i].status \cup {flag}
    BY <1>1, FlagWord
<1> HIDE DEF w
<1>3. nodes'[i] = w /\ (\A j \in Indices \ {i} : nodes'[j] = nodes[j])
      /\ nodes' \in [Indices -> Words]
    BY <1>1, <1>2, InvSays, Written DEF w
<1>4. pc'[t] = label /\ call'[t] = call[t] /\ Others(t)
    BY InvSays, Moved DEF Others
<1>5. /\ pc[t] \notin CarvingAt \cup Linking /\ Searching(t)
      /\ (Releasing(t) => Base(t) \in UsedNodes /\ Owning(t))
    BY SearchFacts DEF Walking
<1>6. LocatedAt(t)'
    BY <1>4, <1>5 DEF LocatedAt, Searching, Releasing, Carving, Linking
<1>7. RefsKept /\ Bagged'
    BY <1>4, InvSays, RefsSame
<1>8. Types' /\ Located'
  <2>1. label \in Labels /\ call[t] \in Calls
      BY InvSays DEF Labels, Types
  <2> QED
      BY <1>3, <1>4, <1>6, <1>7, <2>1, InvSays, TypesNext, LocatedNext DEF Types
<1>9. OwnWrites(t)
  <2>1. UsedNodes \subseteq Indices
      BY InvSays
  <2> QED
      BY <1>3, <2>1 DEF OwnWrites
<1>10. Steady(t)
    BY <1>4, <1>5, SteadyMoves DEF Labels, CarvingAt, Keeping
<1>11. Owning(t) => Base(t) \in Indices /\ Base(t) # i
  <2>1. SUFFICES ASSUME Owning(t)
                 PROVE  Base(t) \in Indices /\ Base(t) # i
      OBVIOUS
  <2>2. Alone(t) /\ Base(t) \in UsedNodes
      BY <2>1, InvSays DEF Alone, UsedMeans, Single
  <2>3. \A u \in Threads : pc[u] = "initVersion" => Alone(u) /\ u # t
      BY <1>5 DEF Alone, Carving, CarvingAt
  <2> QED
      BY <2>2, <2>3, InvSays DEF Exclusive
<1>12. Carried
    BY <1>3, <1>4, <1>7, <1>8, <1>9, <1>10, <1>11, SteadyUsed
<1>13. FreeNodes' = FreeNodes /\ List!Inv' /\ ListStep
  <2>1. CASE i \in FreeNodes
      BY <1>12, <2>1, FlagList DEF Carried
  <2>2. CASE i \notin FreeNodes
    <3>1. \A j \in FreeNodes \cup {0} : j \in Indices /\ j # i
        BY <1>1, <2>2, PlacesAre, InvSays DEF ListWords
    <3>2. FreeNodes' = FreeNodes /\ FreeBlocks' = FreeBlocks
        BY <1>3, <3>1, InvSays, FreeBlocksSame
    <3>3. List!Inv /\ UNCHANGED List!vars
        BY <1>12, <3>2 DEF Inv, List!vars, Carried
    <3> QED
        BY <3>2, <3>3, ListSteps
  <2> QED
      BY <2>1, <2>2
<1>14. Root'
  <2>1. nodes'[0] = nodes[0]
      BY <1>1, <1>3, PlacesAre
  <2> QED
      BY <2>1, InvSays DEF Root
<1>15. \A c \in Indices : Joined(c) /\ c # i => Joined(c)'
  <2>1. SUFFICES ASSUME NEW c \in Indices, Joined(c), c # i
                 PROVE  Joined(c)'
      OBVIOUS
  <2>2. CASE c \in FreeNodes
    <3>1. PICK q \in FreeNodes : nodes[q].next = c /\ isJoinHead(nodes[q])
        BY <2>1, <2>2 DEF Joined
    <3>2. q \in Indices
        BY PlacesAre, InvSays DEF ListWords
    <3>3. nodes'[q].next = c /\ JOIN_HEAD \in nodes'[q].status
        BY <1>2, <1>3, <3>1, <3>2 DEF isJoinHead
    <3> QED
        BY <1>13, <2>2, <3>3 DEF Joined, isJoinHead
  <2>3. CASE c \notin FreeNodes
    <3>1. \A u \in Threads : pc[u] = "initVersion" => pc'[u] = "initVersion" /\ Base(u)' = Base(u)
        BY <1>4 DEF Others, Same
    <3>2. UsedNodes' = UsedNodes
        BY <1>12 DEF Carried
    <3> QED
        BY <1>13, <2>1, <2>3, <3>1, <3>2 DEF Joined
  <2> QED
      BY <2>2, <2>3
<1>16. ASSUME NEW u \in Threads \ {t}, pc[u] = "join", ~ isModified(pred[u])
       PROVE  (~ isModified(curr[u]))'
  <2>1. curr[u].place # i /\ ~ isModified(curr[u])
      BY <1>16, InvSays DEF Followed, FollowedAt
  <2>2. curr[u] \in [place : Indices, node : Words]
      BY <1>16, InvSays DEF Followed, FollowedAt, Follows, Tame, Types, Snapshots
  <2>3. curr'[u] = curr[u]
      BY <1>4 DEF Others, Same
  <2> QED
      BY <1>3, <2>1, <2>2, <2>3 DEF isModified
<1>17. \A u \in Threads \ {t} :
          Alone(u) /\ pc[u] # "initVersion" => nodes'[Base(u)] = nodes[Base(u)]
    BY <1>9, SharedWords
<1>18. Respects(t)
    BY <1>2, <1>3, <1>4, <1>12, <1>13, <1>15, <1>16, <1>17 DEF Respects, Carried
<1>19. OwnWord(t)'
  <2>1. CASE Owning(t)
    <3>1. nodes'[Base(t)] = nodes[Base(t)] /\ Keeping(call'[t], call[t])
        BY <1>3, <1>4, <1>11, <2>1 DEF Keeping
    <3>2. pc'[t] \notin CarvingAt \cup Linking
        BY <1>4 DEF CarvingAt, Linking
    <3> QED
        BY <1>5, <3>1, <3>2, OwnWordCalm
  <2>2. CASE ~ Owning(t)
    <3>1. ~ Owning(t)'
        BY <1>10, <2>2 DEF Steady
    <3> QED
        BY <1>4, <3>1 DEF OwnWord
  <2> QED
      BY <2>1, <2>2
<1>20. CopiedAt(t)' /\ BorrowedAt(t)' /\ ChosenAt(t)'
    BY <1>4 DEF CopiedAt, BorrowedAt, ChosenAt, Linking
<1> QED
    BY <1>6, <1>8, <1>12, <1>13, <1>14, <1>15, <1>18, <1>19, <1>20 DEF Calm, Carried

LEMMA OnePredecessor ==
    ASSUME Inv, NEW i \in FreeNodes, NEW j \in FreeNodes, nodes[i].next = nodes[j].next
    PROVE  i = j
<1>1. i \in Indices /\ j \in Indices /\ i \in Nat /\ j \in Nat
    BY PlacesAre, InvSays DEF ListWords
<1>2. nodes[i] \in Words /\ nodes[j] \in Words
    BY <1>1, InvSays, SnapIs
<1>3. /\ nodes[i].next \in Nat /\ nodes[i].count \in Nat
      /\ nodes[j].next \in Nat /\ nodes[j].count \in Nat
    BY <1>2, WordParts
<1>4. /\ nodes[i].count > 0 /\ i + nodes[i].count <= nodes[i].next
      /\ nodes[j].count > 0 /\ j + nodes[j].count <= nodes[j].next
      /\ (i < j => nodes[i].next <= j) /\ (j < i => nodes[j].next <= i)
    BY InvSays DEF ListWords
<1> QED
    BY <1>1, <1>3, <1>4

LEMMA FlaggedOld ==
    ASSUME Inv, TagsHold, NEW t \in Threads, Others(t),
           NEW v \in Threads \ {t}, NEW u \in Threads \ {t}, pc'[v] = "join",
           pc'[u] = "markTail", curr'[v] = curr'[u], ~ isModified(curr[u])'
    PROVE  isModified(pred[v])'
<1>1. /\ pc[v] = "join" /\ pc[u] = "markTail" /\ curr[v] = curr[u]
      /\ pred'[v] = pred[v] /\ curr'[u] = curr[u]
    BY DEF Others, Same
<1>2. pred[v] \in Armed(v) /\ curr[u] \in Armed(u)
    BY <1>1 DEF Armed, Walking
<1>3. ~ isModified(curr[u])
    BY <1>1, <1>2 DEF TagsHold, isModified
<1>4. isModified(pred[v])
    BY <1>1, <1>3, InvSays DEF Flagged
<1> QED
    BY <1>1, <1>2, <1>4 DEF TagsHold, isModified

LEMMA MarkHeadOk ==
    ASSUME Inv, TagsHold, DupsAreSafe, NEW t \in Threads, MarkHead(t)
    PROVE  Inv' /\ ListStep
<1>0. SUFFICES ASSUME NEW i, i = pred[t].place, NEW c, c = curr[t].place,
                      NEW w, w = addStatus(pred[t].node, JOIN_HEAD),
                      NEW p, p = [pred[t] EXCEPT !.node = w]
               PROVE  Inv' /\ ListStep
    OBVIOUS
<1>1. pc[t] = "markHead" /\ UNCHANGED <<held, calls, parked>> /\ pc[t] \in Walking
    BY InvSays, MarkHeadDoes DEF Walking
<1>2. CASE Restarts(t) /\ UNCHANGED nodes
    BY <1>1, <1>2, RestartOk
<1>3. SUFFICES ASSUME ~ isModified(pred[t]), Set(i, w),
                      Moves(t, "markTail", call[t], p, curr[t])
               PROVE  Inv' /\ ListStep
    BY <1>0, <1>2, InvSays, MarkHeadDoes
<1>4. PrecededAt(t) /\ FollowedAt(t)
    BY InvSays DEF Preceded, Followed
<1>5. /\ Tame(pred[t]) /\ Fresh(pred[t]) /\ ~ isJoinTail(pred[t].node)
      /\ pred[t].node.next # NodeCount /\ isJoinable(i, pred[t].node)
      /\ Follows(t)
    BY <1>0, <1>1, <1>4 DEF PrecededAt, FollowedAt
<1>6. pred[t] \in [place : Indices, node : Words] /\ i \in Indices /\ pred[t].node \in Words
      /\ curr[t] \in Snapshots /\ p = [place |-> i, node |-> w]
    BY <1>0, <1>5, InvSays DEF Tame, Types, Snapshots
<1>7. i \in FreeNodes /\ i # 0 /\ nodes[i] = pred[t].node
  <2>1. i \in FreeNodes \cup {0} /\ nodes[i] = pred[t].node
      BY <1>0, <1>3, <1>5 DEF Fresh, isModified
  <2>2. i # 0
      BY <1>0, <1>5 DEF Tame, isJoinable
  <2> QED
      BY <2>1, <2>2
<1>8. w \in Words /\ w # nodes[i] /\ w.next = nodes[i].next /\ w.count = nodes[i].count
      /\ w.status = nodes[i].status \cup {JOIN_HEAD}
    BY <1>0, <1>6, <1>7, FlagWord
<1>9. Set(i, addStatus(nodes[i], JOIN_HEAD)) /\ p \in Snapshots
    BY <1>0, <1>3, <1>6, <1>7, <1>8 DEF Snapshots
<1>10. ASSUME NEW u \in Threads \ {t}, pc[u] = "join", ~ isModified(pred[u])
       PROVE  curr[u].place # i
  <2>1. isJoinTail(curr[u].node) /\ nodes[curr[u].place] = curr[u].node
      BY <1>10, InvSays DEF Followed, FollowedAt, isModified
  <2> QED
      BY <1>5, <1>7, <2>1
<1>11. /\ Types' /\ Respects(t) /\ Calm
       /\ LocatedAt(t)' /\ OwnWord(t)' /\ CopiedAt(t)' /\ BorrowedAt(t)' /\ ChosenAt(t)'
  <2>1. i \notin UsedNodes /\ i \in Indices \ {0}
      BY <1>6, <1>7, InvSays
  <2>2. JOIN_HEAD \in {JOIN_HEAD, JOIN_TAIL} /\ JOIN_HEAD # JOIN_TAIL
      BY DEF JOIN_HEAD, JOIN_TAIL
  <2>3. isJoinable(i, nodes[i]) /\ nodes[i].next # NodeCount
      BY <1>5, <1>7
  <2> QED
      BY <1>1, <1>3, <1>6, <1>7, <1>9, <1>10, <2>1, <2>2, <2>3, FlagOk
<1>12. pc'[t] = "markTail" /\ call'[t] = call[t] /\ pred'[t] = p /\ curr'[t] = curr[t] /\ Others(t)
    BY <1>3, InvSays, Moved DEF Others
<1>13. nodes'[i] = w /\ (\A j \in Indices \ {i} : nodes'[j] = nodes[j])
    BY <1>3, <1>6, InvSays, Written
<1>14. Tame(p)
  <2>1. isJoinable(i, w)
      BY <1>5, <1>7, <1>8 DEF isJoinable
  <2> QED
      BY <1>0, <1>5, <1>6, <1>7, <1>8, <2>1, NoneAssumption DEF Tame
<1>15. PrecededAt(t)'
  <2>1. Tame(p)' /\ Fresh(p)'
      BY <1>6, <1>7, <1>11, <1>14 DEF Tame, Fresh, Calm, isModified
  <2>2. ~ isJoinTail(w) /\ isJoinHead(w)
      BY <1>5, <1>7, <1>8 DEF isJoinTail, isJoinHead, JOIN_TAIL, JOIN_HEAD
  <2>3. Releasing(t) => w.next <= Base(t)
      BY <1>1, <1>4, <1>7, <1>8 DEF PrecededAt
  <2> QED
      BY <1>5, <1>6, <1>7, <1>8, <1>12, <2>1, <2>2, <2>3 DEF PrecededAt, Releasing
<1>16. c = nodes[i].next /\ c \in FreeNodes /\ c # i /\ c \in Indices
  <2>1. c = nodes[i].next
      BY <1>0, <1>5, <1>7 DEF Follows
  <2>2. c \in FreeNodes
      BY <1>5, <1>7, <2>1, NextFree
  <2>3. nodes[i].next \in i + 1 .. NodeCount /\ i \in Nat
      BY <1>0, <1>5, <1>6, <1>7, PlacesAre DEF Tame
  <2> QED
      BY <1>0, <2>1, <2>2, <2>3, PlacesAre, InvSays DEF ListWords
<1>17. FollowedAt(t)'
  <2>1. Follows(t)'
      BY <1>5, <1>6, <1>7, <1>8, <1>12 DEF Follows, Tame, Releasing
  <2>2. Joined(c)'
      BY <1>7, <1>8, <1>11, <1>13, <1>16 DEF Joined, Calm, isJoinHead
  <2>3. curr'[t].place = c
      BY <1>0, <1>12
  <2> QED
      BY <1>12, <2>1, <2>2, <2>3 DEF FollowedAt
<1>18. Flagged'
  <2>1. SUFFICES ASSUME NEW v \in Threads, NEW u \in Threads, pc'[v] = "join",
                        pc'[u] = "markTail", curr'[v] = curr'[u], ~ isModified(curr[u])'
                 PROVE  isModified(pred[v])'
      BY DEF Flagged
  <2>2. v \in Threads \ {t} /\ pc[v] = "join" /\ pred'[v] = pred[v] /\ curr'[v] = curr[v]
      BY <1>12, <2>1 DEF Others, Same
  <2>3. CASE u # t
      BY <1>12, <2>1, <2>2, <2>3, FlaggedOld
  <2>4. CASE u = t
    <3>1. SUFFICES ASSUME nodes'[pred[v].place] = pred[v].node
                   PROVE  FALSE
        BY <2>2 DEF isModified
    <3>2. pred[v] \in Armed(v)
        BY <2>2 DEF Armed, Walking
    <3>3. nodes[pred[v].place] = pred[v].node
        BY <3>1, <3>2 DEF TagsHold
    <3>4. /\ Tame(pred[v]) /\ Fresh(pred[v]) /\ isJoinHead(pred[v].node)
          /\ curr[v].place = pred[v].node.next
        BY <2>2, InvSays DEF Preceded, PrecededAt, Walking, Followed, FollowedAt, Follows
    <3>5. pred[v].place \in FreeNodes
        BY <3>3, <3>4 DEF Fresh, isModified, Tame, isJoinHead
    <3>6. nodes[pred[v].place].next = nodes[i].next
      <4>1. curr[v].place = c
          BY <1>0, <1>12, <2>1, <2>2, <2>4
      <4> QED
          BY <1>16, <3>3, <3>4, <4>1
    <3>7. pred[v].place = i
        BY <1>7, <3>5, <3>6, OnePredecessor
    <3> QED
        BY <1>8, <1>13, <3>1, <3>3, <3>7
  <2> QED
      BY <2>3, <2>4
<1> QED
    BY <1>11, <1>15, <1>17, <1>18, Assembled DEF Finishes, Calm

LEMMA MarkTailOk ==
    ASSUME Inv, TagsHold, DupsAreSafe, NEW t \in Threads, MarkTail(t)
    PROVE  Inv' /\ ListStep
<1>0. SUFFICES ASSUME NEW c, c = curr[t].place,
                      NEW w, w = addStatus(curr[t].node, JOIN_TAIL),
                      NEW s, s = [curr[t] EXCEPT !.node = w]
               PROVE  Inv' /\ ListStep
    OBVIOUS
<1>1. pc[t] = "markTail" /\ UNCHANGED <<held, calls, parked>> /\ pc[t] \in Walking
    BY InvSays, MarkTailDoes DEF Walking
<1>2. CASE Restarts(t) /\ UNCHANGED nodes
    BY <1>1, <1>2, RestartOk
<1>3. SUFFICES ASSUME ~ isModified(curr[t]), Set(c, w), Moves(t, "join", call[t], pred[t], s)
               PROVE  Inv' /\ ListStep
    BY <1>0, <1>2, InvSays, MarkTailDoes
<1>4. PrecededAt(t) /\ FollowedAt(t)
    BY InvSays DEF Preceded, Followed
<1>5. /\ Tame(pred[t]) /\ Fresh(pred[t]) /\ ~ isJoinTail(pred[t].node)
      /\ Follows(t) /\ Joined(c)
    BY <1>0, <1>1, <1>3, <1>4 DEF PrecededAt, FollowedAt
<1>6. /\ Tame(curr[t]) /\ c = pred[t].node.next
      /\ (Releasing(t) => c + curr[t].node.count <= Base(t))
    BY <1>0, <1>5 DEF Follows
<1>7. /\ curr[t] \in [place : Indices, node : Words] /\ pred[t] \in [place : Indices, node : Words]
      /\ c \in Indices /\ s = [place |-> c, node |-> w] /\ pred[t] \in Snapshots
    BY <1>0, <1>5, <1>6, InvSays DEF Tame, Types, Snapshots
<1>8. c # 0 /\ nodes[c] = curr[t].node /\ nodes[c] \in Words
  <2>1. pred[t].node.next \in pred[t].place + 1 .. NodeCount /\ pred[t].place \in Nat
      BY <1>5, <1>7, PlacesAre DEF Tame
  <2> QED
      BY <1>0, <1>3, <1>6, <1>7, <2>1 DEF isModified
<1>9. w \in Words /\ w # nodes[c] /\ w.next = nodes[c].next /\ w.count = nodes[c].count
      /\ w.status = nodes[c].status \cup {JOIN_TAIL}
    BY <1>0, <1>8, FlagWord
<1>10. Set(c, addStatus(nodes[c], JOIN_TAIL)) /\ s \in Snapshots
    BY <1>0, <1>3, <1>7, <1>8, <1>9 DEF Snapshots
<1>11. ASSUME NEW u \in Threads \ {t}, pc[u] = "join", ~ isModified(pred[u])
       PROVE  curr[u].place # c
  <2>1. SUFFICES ASSUME curr[u].place = c
                 PROVE  FALSE
      OBVIOUS
  <2>2. Tame(curr[u]) /\ nodes[curr[u].place] = curr[u].node
      BY <1>11, InvSays DEF Followed, FollowedAt, Follows, isModified
  <2>3. curr[u] \in [place : Indices, node : Words]
      BY <2>2, InvSays DEF Tame, Types, Snapshots
  <2>4. curr[u] = curr[t]
    <3>1. curr[u].place = curr[t].place /\ curr[u].node = curr[t].node
        BY <1>0, <1>8, <2>1, <2>2
    <3> QED
        BY <1>7, <2>3, <3>1
  <2> QED
      BY <1>1, <1>3, <1>11, <2>4, InvSays DEF Flagged
<1>12. /\ Types' /\ Respects(t) /\ Calm
       /\ LocatedAt(t)' /\ OwnWord(t)' /\ CopiedAt(t)' /\ BorrowedAt(t)' /\ ChosenAt(t)'
  <2>1. c \in UsedNodes => \E u \in Threads : pc[u] = "initVersion" /\ Base(u) = c
      BY <1>5, InvSays DEF Joined
  <2>2. c \in FreeNodes => \E q \in FreeNodes : nodes[q].next = c /\ isJoinHead(nodes[q])
      BY <1>5 DEF Joined
  <2>3. JOIN_TAIL \in {JOIN_HEAD, JOIN_TAIL} /\ JOIN_HEAD # JOIN_TAIL /\ c \in Indices \ {0}
      BY <1>7, <1>8 DEF JOIN_HEAD, JOIN_TAIL
  <2> QED
      BY <1>1, <1>3, <1>7, <1>10, <1>11, <2>1, <2>2, <2>3, FlagOk
<1>13. pc'[t] = "join" /\ call'[t] = call[t] /\ pred'[t] = pred[t] /\ curr'[t] = s /\ Others(t)
    BY <1>3, InvSays, Moved DEF Others
<1>14. nodes'[c] = w /\ (\A j \in Indices \ {c} : nodes'[j] = nodes[j])
    BY <1>3, <1>7, InvSays, Written
<1>15. PrecededAt(t)'
  <2>1. Tame(pred[t])'
      BY <1>5, <1>13 DEF Tame
  <2>2. Fresh(pred[t])'
    <3>1. pred[t] \in Armed(t)
        BY <1>1 DEF Armed
    <3>2. ~ isModified(pred[t])' => ~ isModified(pred[t])
        BY <1>13, <3>1 DEF TagsHold, isModified
    <3> QED
        BY <1>5, <1>12, <1>13, <3>2 DEF Fresh, Calm
  <2> QED
      BY <1>1, <1>4, <1>13, <2>1, <2>2 DEF PrecededAt, Releasing
<1>16. FollowedAt(t)'
  <2>1. Tame(s)
    <3>1. isJoinHead(w) => isJoinHead(curr[t].node)
        BY <1>8, <1>9 DEF isJoinHead, JOIN_HEAD, JOIN_TAIL
    <3>2. isJoinable(c, w) <=> isJoinable(c, curr[t].node)
        BY <1>8, <1>9 DEF isJoinable
    <3> QED
        BY <1>0, <1>6, <1>7, <1>8, <1>9, <3>1, <3>2, NoneAssumption DEF Tame
  <2>2. Follows(t)'
    <3>1. Tame(curr[t])'
        BY <1>13, <2>1 DEF Tame
    <3>2. curr'[t].place = c /\ curr'[t].node.count = curr[t].node.count
        BY <1>7, <1>8, <1>9, <1>13
    <3> QED
        BY <1>6, <1>13, <3>1, <3>2 DEF Follows, Releasing
  <2>3. isJoinTail(curr'[t].node) /\ ~ isModified(curr[t])'
      BY <1>7, <1>9, <1>13, <1>14 DEF isJoinTail, isModified
  <2> QED
      BY <1>13, <2>2, <2>3 DEF FollowedAt
<1>17. Flagged'
  <2>1. SUFFICES ASSUME NEW v \in Threads, NEW u \in Threads, pc'[v] = "join",
                        pc'[u] = "markTail", curr'[v] = curr'[u], ~ isModified(curr[u])'
                 PROVE  isModified(pred[v])'
      BY DEF Flagged
  <2>2. u \in Threads \ {t} /\ pc[u] = "markTail" /\ curr'[u] = curr[u]
      BY <1>13, <2>1 DEF Others, Same
  <2>3. CASE v # t
      BY <1>13, <2>1, <2>2, <2>3, FlaggedOld
  <2>4. CASE v = t
    <3>1. curr[u] = s /\ curr[u] \in Armed(u)
        BY <1>13, <2>1, <2>2, <2>4 DEF Armed
    <3>2. nodes'[c] = w => nodes[c] = w
        BY <1>7, <3>1 DEF TagsHold
    <3> QED
        BY <1>9, <1>14, <3>2
  <2> QED
      BY <2>3, <2>4
<1> QED
    BY <1>12, <1>15, <1>16, <1>17, Assembled DEF Finishes, Calm

-----------------------------------------------------------------------------
(* joinNodesIfNeed *)

\* The node before c swallows it.
LEMMA JoinReaches ==
    ASSUME Inv, NEW i \in FreeNodes, NEW c \in FreeNodes, nodes[i].next = c,
           Set(i, join(nodes[i], nodes[c]))
    PROVE  FreeNodes' = FreeNodes \ {c}
<1>1. /\ i \in Indices /\ c \in Indices /\ i \in Nat /\ c \in Nat /\ i # 0
      /\ NodeCount \in Nat
    BY PlacesAre, InvSays DEF ListWords
<1>2. nodes[i] \in Words /\ nodes[c] \in Words
    BY <1>1, InvSays, SnapIs
<1>3. \A j \in FreeNodes : j \in Nat /\ j \in Indices /\ j # 0 /\ j >= 1
    BY PlacesAre, InvSays DEF ListWords, Places
<1>4. \A j \in FreeNodes : nodes[j].next \in Nat /\ nodes[j].count \in Nat
    BY <1>3, InvSays, SnapIs, WordParts
<1>5. \A j \in FreeNodes :
         /\ j < nodes[j].next /\ nodes[j].next \in FreeNodes \cup {NodeCount}
         /\ \A k \in FreeNodes : j < k => nodes[j].next <= k
  <2>1. SUFFICES ASSUME NEW j \in FreeNodes
                 PROVE  j < nodes[j].next
      BY InvSays DEF ListWords
  <2>2. nodes[j].count > 0 /\ j + nodes[j].count <= nodes[j].next
      BY InvSays DEF ListWords
  <2> QED
      BY <1>3, <1>4, <2>1, <2>2
<1>6. i < c
    BY <1>5
<1> DEFINE w == join(nodes[i], nodes[c])
<1>7. /\ w.next = nodes[c].next /\ w.count = nodes[i].count + nodes[c].count
      /\ w.status = (nodes[i].status \ {JOIN_HEAD}) \cup (nodes[c].status \ {JOIN_TAIL})
    BY <1>2, JoinType
<1> HIDE DEF w
<1>8. nodes'[i] = w /\ \A j \in Indices \ {i} : nodes'[j] = nodes[j]
    BY <1>1, InvSays, Written DEF w
<1> DEFINE F == FreeNodes \ {c}
<1>9. FreeNodes' = F
  <2>1. F \in SUBSET Places /\ 1 \in F /\ nodes'[0].next = 1
    <3>1. 1 \in FreeNodes /\ 1 # c /\ FreeNodes \subseteq Places
        BY <1>1, <1>3, <1>6, InvSays DEF ListWords
    <3>2. nodes'[0] = nodes[0]
        BY <1>1, <1>8, PlacesAre
    <3> QED
        BY <3>1, <3>2, InvSays DEF Root
  <2>2. ASSUME NEW j \in F
        PROVE  /\ nodes'[j].next \in F \cup {NodeCount} /\ j < nodes'[j].next
               /\ \A k \in F : j < k => nodes'[j].next <= k
    <3>1. CASE j = i
      <4>1. nodes'[j].next = nodes[c].next
          BY <1>7, <1>8, <3>1
      <4>2. nodes[c].next \in FreeNodes \cup {NodeCount} /\ c < nodes[c].next
            /\ nodes[c].next \in Nat
          BY <1>4, <1>5
      <4>3. \A k \in F : i < k => c < k
        <5>1. SUFFICES ASSUME NEW k \in F, i < k
                       PROVE  c < k
            OBVIOUS
        <5>2. c <= k /\ k # c /\ k \in Nat
            BY <1>3, <1>5, <5>1
        <5> QED
            BY <1>1, <5>2
      <4>4. \A k \in F : c < k => nodes[c].next <= k
          BY <1>5
      <4> QED
          BY <1>1, <1>6, <3>1, <4>1, <4>2, <4>3, <4>4
    <3>2. CASE j # i
      <4>1. nodes'[j].next = nodes[j].next
          BY <1>3, <1>8, <3>2
      <4>2. nodes[j].next # c
          BY <3>2, OnePredecessor
      <4> QED
          BY <1>5, <4>1, <4>2
    <3> QED
        BY <3>1, <3>2
  <2> HIDE DEF F
  <2>3. Reached(nodes') = F
      BY <2>1, <2>2, ReachedIs
  <2> QED
      BY <2>3 DEF FreeNodes
<1> QED
    BY <1>9

LEMMA JoinList ==
    ASSUME Inv, NEW i \in FreeNodes, NEW c \in FreeNodes, nodes[i].next = c,
           isJoinHead(nodes[i]), isJoinTail(nodes[c]), Set(i, join(nodes[i], nodes[c])),
           UNCHANGED UsedBlocks
    PROVE  FreeNodes' = FreeNodes \ {c} /\ List!Inv' /\ ListStep
<1>1. /\ i \in Indices /\ c \in Indices /\ i \in Nat /\ c \in Nat /\ i # 0
      /\ NodeCount \in Nat
    BY PlacesAre, InvSays DEF ListWords
<1>2. nodes[i] \in Words /\ nodes[c] \in Words
    BY <1>1, InvSays, SnapIs
<1>3. FreeNodes \subseteq Indices
    BY PlacesAre, InvSays DEF ListWords
<1> DEFINE w == join(nodes[i], nodes[c])
<1>7. /\ w.next = nodes[c].next /\ w.count = nodes[i].count + nodes[c].count
      /\ w.status = (nodes[i].status \ {JOIN_HEAD}) \cup (nodes[c].status \ {JOIN_TAIL})
    BY <1>2, JoinType
<1> HIDE DEF w
<1>8. nodes'[i] = w /\ \A j \in Indices \ {i} : nodes'[j] = nodes[j]
    BY <1>1, InvSays, Written DEF w
<1> DEFINE F == FreeNodes \ {c}
<1>9. FreeNodes' = F
    BY JoinReaches
<1>10. /\ DOMAIN FreeBlocks = FreeNodes
       /\ \A j \in FreeNodes : /\ FreeBlocks[j].next = nodes[j].next
                               /\ FreeBlocks[j].count = nodes[j].count
                               /\ FreeBlocks[j].status = nodes[j].status
    BY DEF FreeBlocks
<1> DEFINE G == [FreeBlocks EXCEPT ![i] =
                    [next |-> nodes[c].next, count |-> nodes[i].count + nodes[c].count,
                     status |-> (nodes[i].status \ {JOIN_HEAD})
                                    \cup (nodes[c].status \ {JOIN_TAIL})]]
<1>11. FreeBlocks' = [j \in FreeNodes \ {c} |-> G[j]]
  <2>1. FreeBlocks' = [j \in F |-> [next |-> nodes'[j].next, count |-> nodes'[j].count,
                                    status |-> nodes'[j].status]]
      BY <1>9 DEF FreeBlocks
  <2>2. ASSUME NEW j \in F
        PROVE  G[j] = [next |-> nodes'[j].next, count |-> nodes'[j].count,
                       status |-> nodes'[j].status]
    <3>1. CASE j = i
        BY <1>7, <1>8, <1>10, <3>1
    <3>2. CASE j # i
      <4>1. nodes'[j] = nodes[j]
          BY <1>3, <1>8, <3>2
      <4> QED
          BY <3>2, <4>1 DEF FreeBlocks
    <3> QED
        BY <3>1, <3>2
  <2> HIDE DEF G
  <2> QED
      BY <2>1, <2>2
<1>12. List!Join(i)
  <2>1. FreeBlocks' = List!Remove(G, c)
    <3>1. DOMAIN G = FreeNodes
        BY <1>10
    <3> HIDE DEF G
    <3> QED
        BY <1>11, <3>1 DEF List!Remove
  <2>2. G = [FreeBlocks EXCEPT ![i] =
                [next |-> FreeBlocks[c].next, count |-> @.count + FreeBlocks[c].count,
                 status |-> (@.status \ {JOIN_HEAD}) \cup (FreeBlocks[c].status \ {JOIN_TAIL})]]
      BY <1>10
  <2>3. FreeBlocks[i].next = c /\ i \in DOMAIN FreeBlocks
      BY <1>10
  <2>4. JOIN_HEAD \in FreeBlocks[i].status /\ JOIN_TAIL \in FreeBlocks[c].status
      BY <1>10 DEF isJoinHead, isJoinTail
  <2> HIDE DEF G
  <2> QED
      BY <2>1, <2>2, <2>3, <2>4
      DEF List!Join, List!isJoinHead, List!isJoinTail, List!JOIN_HEAD, List!JOIN_TAIL,
          JOIN_HEAD, JOIN_TAIL
<1>13. List!Inv /\ List!Next
    BY <1>10, <1>12 DEF Inv, List!Next
<1> QED
    BY <1>9, <1>13, ListSteps

LEMMA JoinOk ==
    ASSUME Inv, TagsHold, DupsAreSafe, NEW t \in Threads, Join(t)
    PROVE  Inv' /\ ListStep
<1>0. SUFFICES ASSUME NEW i, i = pred[t].place, NEW c, c = curr[t].place,
                      NEW w, w = join(pred[t].node, curr[t].node),
                      NEW snap, snap = [pred[t] EXCEPT !.node = w]
               PROVE  Inv' /\ ListStep
    OBVIOUS
<1>1. pc[t] = "join" /\ UNCHANGED <<held, calls>> /\ pc[t] \in Walking
    BY InvSays, JoinDoes DEF Walking
<1>2. CASE Restarts(t) /\ UNCHANGED nodes
    BY <1>1, <1>2, RestartOk
<1>3. SUFFICES ASSUME ~ isModified(pred[t]), Set(i, w), Visits(t, snap)
               PROVE  Inv' /\ ListStep
    BY <1>0, <1>2, InvSays, JoinDoes
<1>4. PrecededAt(t) /\ FollowedAt(t)
    BY InvSays DEF Preceded, Followed
<1>5. /\ Tame(pred[t]) /\ Fresh(pred[t]) /\ ~ isJoinTail(pred[t].node)
      /\ isJoinHead(pred[t].node) /\ pred[t].node.next # NodeCount
      /\ Follows(t) /\ isJoinTail(curr[t].node) /\ ~ isModified(curr[t])
    BY <1>1, <1>3, <1>4 DEF PrecededAt, FollowedAt
<1>6. /\ Tame(curr[t]) /\ c = pred[t].node.next
      /\ (Releasing(t) => c + curr[t].node.count <= Base(t))
    BY <1>0, <1>5 DEF Follows
<1>7. /\ curr[t] \in [place : Indices, node : Words] /\ pred[t] \in [place : Indices, node : Words]
      /\ i \in Indices /\ c \in Indices /\ snap = [place |-> i, node |-> w]
    BY <1>0, <1>5, <1>6, InvSays DEF Tame, Types, Snapshots
<1>8. nodes[i] = pred[t].node /\ nodes[c] = curr[t].node /\ nodes[i].next = c
    BY <1>0, <1>3, <1>5, <1>6 DEF isModified
<1>9. i \in FreeNodes /\ i # 0
  <2>1. i \in FreeNodes \cup {0}
      BY <1>0, <1>3, <1>5 DEF Fresh
  <2>2. i # 0
      BY <1>0, <1>5 DEF Tame, isJoinHead
  <2> QED
      BY <2>1, <2>2
<1>10. c \in FreeNodes /\ i < c /\ i \in Nat /\ c \in Nat
  <2>1. c \in FreeNodes
      BY <1>5, <1>8, <1>9, NextFree
  <2>2. c \in i + 1 .. NodeCount /\ i \in Nat
      BY <1>0, <1>5, <1>6, <1>7, PlacesAre DEF Tame
  <2> QED
      BY <2>1, <2>2, PlacesAre
<1>11. pred[t].node \in Words /\ curr[t].node \in Words
    BY <1>7
<1>12. /\ w \in Words /\ w.next = curr[t].node.next
       /\ w.count = pred[t].node.count + curr[t].node.count
       /\ w.status = (pred[t].node.status \ {JOIN_HEAD}) \cup (curr[t].node.status \ {JOIN_TAIL})
    BY <1>0, <1>11, JoinType
<1>13. nodes'[i] = w /\ (\A j \in Indices \ {i} : nodes'[j] = nodes[j])
       /\ nodes' \in [Indices -> Words]
    BY <1>3, <1>7, <1>12, InvSays, Written
<1>14. OwnWrites(t)
  <2>1. i \notin UsedNodes /\ UsedNodes \subseteq Indices
      BY <1>9, InvSays
  <2> QED
      BY <1>13, <2>1 DEF OwnWrites
<1>15. /\ pc[t] \notin CarvingAt \cup Linking /\ Searching(t)
       /\ (Releasing(t) <=> Owning(t))
       /\ (Releasing(t) => Base(t) \in UsedNodes)
  <2>1. Releasing(t) <=> Owning(t)
      BY <1>1, InvSays, Doing
  <2> QED
      BY <1>1, <2>1, SearchFacts
<1>16. Releasing(t) => nodes'[Base(t)] = nodes[Base(t)]
  <2>1. Base(t) \in UsedNodes => Base(t) \in Indices \ {i}
      BY <1>9, InvSays
  <2> QED
      BY <1>13, <1>15, <2>1
<1>17. Set(i, join(nodes[i], nodes[c]))
    BY <1>0, <1>3, <1>8
<1>18. ASSUME UNCHANGED UsedBlocks
       PROVE  FreeNodes' = FreeNodes \ {c} /\ List!Inv' /\ ListStep
    BY <1>5, <1>8, <1>9, <1>10, <1>17, <1>18, JoinList
<1>19. Tame(snap) /\ ~ isJoinTail(w) /\ (Releasing(t) => i + w.count <= Base(t))
  <2>1. /\ pred[t].node.count \in Nat /\ curr[t].node.count \in Nat /\ curr[t].node.next \in Nat
        /\ pred[t].node.count > 0 /\ i + pred[t].node.count = c
    <3>1. pred[t].node.count \in Nat /\ curr[t].node.count \in Nat /\ curr[t].node.next \in Nat
        BY <1>11, WordParts
    <3>2. pred[t].node.count > 0 /\ isJoinable(i, pred[t].node)
        BY <1>0, <1>5, <1>9 DEF Tame
    <3> QED
        BY <1>6, <1>7, <3>1, <3>2, PlacesAre DEF isJoinable
  <2>2. /\ curr[t].node.next \in c + 1 .. NodeCount
        /\ c + curr[t].node.count <= curr[t].node.next
        /\ (isJoinHead(curr[t].node) =>
               curr[t].node.next # NodeCount /\ isJoinable(c, curr[t].node))
      BY <1>0, <1>6 DEF Tame
  <2>3. ~ isJoinTail(w) /\ (isJoinHead(w) => isJoinHead(curr[t].node))
      BY <1>5, <1>12 DEF isJoinTail, isJoinHead
  <2>4. i + w.count = c + curr[t].node.count
      BY <1>10, <1>12, <2>1
  <2>5. w.next \in i + 1 .. NodeCount /\ i + w.count <= w.next /\ w.count > 0
      BY <1>10, <1>12, <2>1, <2>2, <2>4, PlacesAre
  <2>6. isJoinHead(w) => w.next # NodeCount /\ isJoinable(i, w)
      BY <1>12, <2>2, <2>3, <2>4 DEF isJoinable
  <2>7. snap # None /\ snap.place = i /\ snap.node = w
      BY <1>7, <1>12, NoneAssumption
  <2>8. Tame(snap)
      BY <1>9, <2>5, <2>6, <2>7 DEF Tame
  <2> QED
      BY <1>6, <2>3, <2>4, <2>8
<1>20. \/ Fails(t)
       \/ \E label \in {"link", "take", "next"}, p, s \in Snapshots :
             Moves(t, label, call[t], p, s) /\ UNCHANGED parked /\ Finishes(t)'
  <2>1. snap \in Snapshots /\ snap.place = i /\ snap.node = w
      BY <1>7, <1>12 DEF Snapshots
  <2>2. i \in FreeNodes'
    <3>1. FreeNodes' = FreeNodes \ {c}
        BY <1>8, <1>9, <1>10, <1>17, JoinReaches
    <3> QED
        BY <1>9, <1>10, <3>1
  <2> QED
      BY <1>1, <1>3, <1>9, <1>16, <1>19, <2>1, <2>2, VisitFinishes
<1>21. /\ Types' /\ Others(t) /\ Carried /\ Finishes(t)'
       /\ pc'[t] \notin {"join", "markTail", "initVersion"}
  <2>1. CASE Fails(t)
    <3>1. Owning(t) => /\ nodes'[Base(t)].count = nodes[Base(t)].count
                       /\ nodes'[Base(t)].version = call[t].md.version
                       /\ nodes'[Base(t)].next = 0
      <4>1. Owning(t) => nodes[Base(t)].version = call[t].md.version /\ nodes[Base(t)].next = 0
          BY <1>1, InvSays DEF OwnWords, OwnWord, Linking
      <4> QED
          BY <1>15, <1>16, <4>1
    <3> QED
        BY <1>1, <1>13, <1>14, <2>1, <3>1, FailsUsed
  <2>2. ASSUME NEW label \in {"link", "take", "next"}, NEW p \in Snapshots, NEW s \in Snapshots,
               Moves(t, label, call[t], p, s), UNCHANGED parked, Finishes(t)'
        PROVE  /\ Types' /\ Others(t) /\ Carried
               /\ pc'[t] \notin {"join", "markTail", "initVersion"}
    <3>1. pc'[t] = label /\ call'[t] = call[t] /\ Others(t)
        BY <2>2, InvSays, Moved DEF Others
    <3>2. label \in Labels /\ label \in Labels \ (CarvingAt \cup {"abort"})
        BY DEF Labels, CarvingAt
    <3>3. RefsKept /\ Bagged'
        BY <1>1, <3>1, InvSays, RefsSame
    <3>4. Types'
      <4>1. call[t] \in Calls /\ parked' \subseteq Descriptors /\ calls' \in 0 .. MaxCalls
          BY <1>1, <2>2, InvSays DEF Types
      <4> QED
          BY <1>13, <2>2, <3>2, <3>3, <4>1, InvSays, TypesNext
    <3>5. Located'
        BY <2>2, <3>1, LocatedNext DEF Finishes
    <3>6. Steady(t)
        BY <1>15, <2>2, <3>2, SteadyMoves DEF Keeping
    <3>7. Carried
        BY <1>14, <1>15, <1>16, <2>2, <3>1, <3>3, <3>4, <3>5, <3>6, SteadyUsed
    <3> QED
        BY <3>1, <3>4, <3>7
  <2> QED
      BY <1>20, <2>1, <2>2
<1>22. FreeNodes' = FreeNodes \ {c} /\ List!Inv' /\ ListStep /\ UsedNodes' = UsedNodes
    BY <1>18, <1>21 DEF Carried
<1>23. Root'
  <2>1. nodes'[0] = nodes[0]
      BY <1>9, <1>13, PlacesAre
  <2> QED
      BY <2>1, InvSays DEF Root
<1>24. ASSUME NEW d \in Indices, Joined(d), nodes'[d] = nodes[d]
       PROVE  Joined(d)'
  <2>1. CASE d = c
    <3>1. c \notin FreeNodes' /\ c \notin UsedNodes'
        BY <1>10, <1>22, InvSays
    <3> QED
        BY <2>1, <3>1 DEF Joined
  <2>2. CASE d \in FreeNodes /\ d # c
    <3>1. PICK q \in FreeNodes : nodes[q].next = d /\ isJoinHead(nodes[q])
        BY <1>24, <2>2 DEF Joined
    <3>2. q # i /\ q \in Indices /\ i \in Indices
        BY <1>7, <1>8, <2>2, <3>1, PlacesAre, InvSays DEF ListWords
    <3>3. CASE q = c
      <4>1. nodes'[i].next = d /\ JOIN_HEAD \in nodes'[i].status /\ i \in FreeNodes'
          BY <1>8, <1>9, <1>10, <1>12, <1>13, <1>22, <3>1, <3>3
          DEF isJoinHead, JOIN_HEAD, JOIN_TAIL
      <4> QED
          BY <1>22, <2>2, <4>1 DEF Joined, isJoinHead
    <3>4. CASE q # c
      <4>1. nodes'[q] = nodes[q] /\ q \in FreeNodes'
          BY <1>13, <1>22, <3>2, <3>4
      <4> QED
          BY <1>22, <2>2, <3>1, <4>1 DEF Joined, isJoinHead
    <3> QED
        BY <3>3, <3>4
  <2>3. CASE d \notin FreeNodes
    <3>1. \A u \in Threads : pc[u] = "initVersion" => pc'[u] = "initVersion" /\ Base(u)' = Base(u)
        BY <1>1, <1>21 DEF Others, Same
    <3> QED
        BY <1>22, <1>24, <2>3, <3>1 DEF Joined
  <2> QED
      BY <2>1, <2>2, <2>3
<1>25. ASSUME NEW u \in Threads \ {t}, pc[u] = "join", ~ isModified(pred[u])
       PROVE  (~ isModified(curr[u]))'
  <2>1. nodes[curr[u].place] = curr[u].node /\ isJoinTail(curr[u].node) /\ Tame(curr[u])
      BY <1>25, InvSays DEF Followed, FollowedAt, isModified, Follows
  <2>2. curr[u].place \in Indices /\ curr[u].place # i
      BY <1>5, <1>8, <2>1, InvSays DEF Tame, Types, Snapshots
  <2>3. curr'[u] = curr[u]
      BY <1>21 DEF Others, Same
  <2> QED
      BY <1>13, <2>1, <2>2, <2>3 DEF isModified
<1>26. Respects(t)
  <2>1. \A u \in Threads \ {t} :
           Alone(u) /\ pc[u] # "initVersion" => nodes'[Base(u)] = nodes[Base(u)]
      BY <1>14, SharedWords
  <2>2. \A j \in FreeNodes \cup {0} :
           j \in FreeNodes' \cup {0} \/ (isJoinTail(nodes[j]) /\ nodes'[j] = nodes[j])
      BY <1>5, <1>7, <1>8, <1>10, <1>13, <1>22
  <2>3. \A b : Kept(b) => Kept(b)'
      BY <1>21 DEF Carried
  <2> QED
      BY <1>21, <1>24, <1>25, <2>1, <2>2, <2>3 DEF Respects
<1>27. Flagged'
    BY <1>21, <1>26, FlaggedStays
<1> QED
    BY <1>21, <1>22, <1>23, <1>26, <1>27, Assembled DEF Carried
=============================================================================
