-------------------- MODULE VariableAllocatorSpaceProofs --------------------
(***************************************************************************)
(* allocate fails only for want of space, if nobody else is at work: the   *)
(* walk leaves no two free blocks behind it that touch, and none that is   *)
(* large enough.                                                           *)
(***************************************************************************)
EXTENDS VariableAllocatorProofs

USE DEF Base, index, Matches

OneThread == \A t, u \in Threads : t = u

\* The steps at which curr is a snapshot of the list.
CurrRead == {"recheck", "markHead", "markTail", "join", "take"} \cup (Linking \ {"undo"})

\* The chunks from x on that allocate asks for, and one more, are free.
Fitting(t, x) == x \in FreeChunks /\ x .. x + call[t].need \subseteq FreeChunks

\* Nobody writes under a snapshot, so that no walk starts again.
Still(t) ==
    /\ call[t].retry >= 0
    /\ pc[t] \in Walking => ~ isModified(pred[t])
    /\ pc[t] \in CurrRead => ~ isModified(curr[t])

\* The only merge is the thread's own.
OwnMerge(t) ==
    \A i \in FreeNodes :
        isJoinHead(nodes[i]) => pc[t] \in {"markTail", "join"} /\ i = pred[t].place

\* There is no room behind the walk, and pred on its own is too small.
Searched(t) ==
    call[t].op = "allocate" =>
        /\ pc[t] \in Walking => \A x : Fitting(t, x) => x >= pred[t].place
        /\ pc[t] \in {"next", "recheck", "markHead"} =>
              pred[t].node.count <= call[t].need

Solo == \A t \in Threads : Still(t) /\ OwnMerge(t) /\ Searched(t)

-----------------------------------------------------------------------------
(* Free chunks *)

LEMMA ChunksAre ==
    ASSUME Inv
    PROVE  /\ \A x \in FreeChunks :
                 /\ x \in Nat /\ 1 <= x /\ x < NodeCount
                 /\ \E i \in FreeNodes : i <= x /\ x < i + nodes[i].count
           /\ \A i \in FreeNodes \cup {0} :
                 /\ i \in Nat /\ i < NodeCount /\ nodes[i].count \in Nat
                 /\ nodes[i].next \in Nat /\ nodes[i].next <= NodeCount
                 /\ i + nodes[i].count <= nodes[i].next
           /\ nodes[0].count = 0 /\ nodes[0].next = 1
<1>1. Types /\ ListWords /\ Root
    BY InvSays
<1>2. nodes[0].count = 0 /\ nodes[0].next = 1
    BY <1>1 DEF Root
<1>3. NodeCount \in Nat /\ NodeCount > 2
    BY NodeCountAssumption
<1>4. \A i \in FreeNodes : i \in Nat /\ 1 <= i /\ i < NodeCount /\ i \in Indices
    BY <1>1, <1>3 DEF ListWords, Places, Indices
<1>5. \A i \in FreeNodes :
         /\ nodes[i].count \in Nat /\ nodes[i].next \in Nat
         /\ i + nodes[i].count <= nodes[i].next /\ nodes[i].next <= NodeCount
  <2>1. ASSUME NEW i \in FreeNodes
        PROVE  /\ nodes[i].count \in Nat
               /\ nodes[i].next \in Nat /\ nodes[i].next <= NodeCount
    <3>1. nodes[i] \in Words
        BY <1>1, <1>4 DEF Types
    <3>2. nodes[i].count \in Nat
        BY <3>1, WordsChange
    <3>3. nodes[i].next \in FreeNodes \cup {NodeCount}
        BY <1>1 DEF ListWords
    <3> QED
        BY <1>3, <1>4, <3>2, <3>3
  <2>2. \A i \in FreeNodes : i + nodes[i].count <= nodes[i].next
      BY <1>1 DEF ListWords
  <2> QED
      BY <2>1, <2>2
<1>6. ASSUME NEW x \in FreeChunks
      PROVE  /\ x \in Nat /\ 1 <= x /\ x < NodeCount
             /\ \E i \in FreeNodes : i <= x /\ x < i + nodes[i].count
  <2>1. PICK i \in FreeNodes : x \in i .. i + nodes[i].count - 1
      BY <1>6 DEF FreeChunks
  <2>2. i \in Nat /\ nodes[i].count \in Nat /\ 1 <= i
        /\ i + nodes[i].count <= NodeCount
      BY <1>3, <1>4, <1>5
  <2>3. x \in Nat /\ i <= x /\ x < i + nodes[i].count
      BY <2>1, <2>2
  <2> QED
      BY <1>3, <2>2, <2>3
<1>7. \A i \in FreeNodes \cup {0} :
         /\ i \in Nat /\ i < NodeCount /\ nodes[i].count \in Nat
         /\ nodes[i].next \in Nat /\ nodes[i].next <= NodeCount
         /\ i + nodes[i].count <= nodes[i].next
    BY <1>2, <1>3, <1>4, <1>5
<1> QED
    BY <1>2, <1>6, <1>7

\* Between a node of the list and the next the block of the node is free, and
\* nothing else.
LEMMA BlockEnds ==
    ASSUME Inv, NEW i \in FreeNodes \cup {0}, NEW x \in FreeChunks,
           i <= x, x < nodes[i].next
    PROVE  x < i + nodes[i].count
<1>1. ListWords
    BY InvSays
<1>2. PICK j \in FreeNodes : j <= x /\ x < j + nodes[j].count
    BY ChunksAre
<1>3. /\ x \in Nat /\ j \in Nat /\ i \in Nat /\ 1 <= x
      /\ nodes[j].count \in Nat /\ nodes[j].next \in Nat /\ nodes[i].next \in Nat
      /\ j + nodes[j].count <= nodes[j].next
    BY ChunksAre
<1>4. CASE i = 0
    BY <1>3, <1>4, ChunksAre
<1>5. CASE i \in FreeNodes /\ i < j
  <2>1. nodes[i].next <= j
      BY <1>1, <1>5 DEF ListWords
  <2> QED
      BY <1>2, <1>3, <2>1
<1>6. CASE i \in FreeNodes /\ j < i
  <2>1. nodes[j].next <= i
      BY <1>1, <1>6 DEF ListWords
  <2> QED
      BY <1>2, <1>3, <2>1
<1> QED
    BY <1>2, <1>3, <1>4, <1>5, <1>6

\* A walk that goes past a node that is too small and does not touch the next
\* one leaves no room behind.
LEMMA NoRoomAt ==
    ASSUME Inv, NEW t \in Threads, call[t].need \in Nat,
           NEW i \in FreeNodes \cup {0}, NEW x, Fitting(t, x), i <= x,
           nodes[i].count <= call[t].need,
           nodes[i].next = NodeCount \/ ~ isJoinable(i, nodes[i])
    PROVE  x >= nodes[i].next /\ nodes[i].next # NodeCount
<1> DEFINE e == i + nodes[i].count
<1>1. /\ x \in Nat /\ x < NodeCount /\ i \in Nat /\ nodes[i].count \in Nat
      /\ nodes[i].next \in Nat /\ e <= nodes[i].next /\ NodeCount \in Nat
      /\ nodes[i].next <= NodeCount
    BY ChunksAre, NodeCountAssumption DEF Fitting
<1>2. ASSUME x < nodes[i].next
      PROVE  FALSE
  <2>1. x < e
      BY <1>2, BlockEnds DEF Fitting
  <2>2. e \in FreeChunks
      BY <1>1, <2>1 DEF Fitting
  <2>3. e < NodeCount
      BY <2>2, ChunksAre
  <2>4. e < nodes[i].next
      BY <1>1, <2>3 DEF isJoinable
  <2> QED
      BY <1>1, <2>2, <2>4, BlockEnds
<1> QED
    BY <1>1, <1>2

\* The same of a node and the next one, which it touches.
LEMMA NoRoomInBoth ==
    ASSUME Inv, NEW t \in Threads, call[t].need \in Nat,
           NEW i \in FreeNodes, NEW c \in FreeNodes, nodes[i].next = c,
           isJoinable(i, nodes[i]), nodes[c].next = NodeCount, NEW x, Fitting(t, x), i <= x
    PROVE  nodes[i].count + nodes[c].count > call[t].need
<1> DEFINE e == c + nodes[c].count
<1>1. /\ x \in Nat /\ x < NodeCount /\ i \in Nat /\ nodes[i].count \in Nat
      /\ c \in Nat /\ nodes[c].count \in Nat /\ NodeCount \in Nat
      /\ e <= NodeCount /\ c = i + nodes[i].count
    BY ChunksAre, NodeCountAssumption DEF Fitting, isJoinable
<1>2. ListWords
    BY InvSays
<1>3. nodes[c].count > 0
    BY <1>2 DEF ListWords
<1>4. x < e
  <2>1. CASE c <= x
      BY <1>1, <2>1, BlockEnds DEF Fitting
  <2> QED
      BY <1>1, <1>3, <2>1
<1>5. ASSUME nodes[i].count + nodes[c].count <= call[t].need
      PROVE  FALSE
  <2>1. e <= x + call[t].need
      BY <1>1, <1>5
  <2>2. e \in FreeChunks
      BY <1>1, <1>4, <2>1 DEF Fitting
  <2>3. e < NodeCount /\ c <= e
      BY <1>1, <2>2, ChunksAre
  <2>4. e < c + nodes[c].count
      BY <2>2, <2>3, BlockEnds
  <2> QED
      BY <1>1, <2>4
<1> QED
    BY <1>1, <1>5

-----------------------------------------------------------------------------
(* Steps that do not end a walk *)

\* Only a swap of updateNodeStatus makes a head of a node in the list.
LEMMA NoNewHeads ==
    ASSUME Inv, Inv', ListStep
    PROVE  \A j \in FreeNodes' : isJoinHead(nodes[j])' => j \in FreeNodes
<1>1. DOMAIN FreeBlocks = FreeNodes /\ DOMAIN FreeBlocks' = FreeNodes'
    BY DEF FreeBlocks
<1>2. \A j \in FreeNodes' : FreeBlocks'[j].status = nodes'[j].status
    BY DEF FreeBlocks
<1>3. SUFFICES ASSUME NEW j \in DOMAIN FreeBlocks', JOIN_HEAD \in FreeBlocks'[j].status
               PROVE  j \in DOMAIN FreeBlocks
    BY <1>1, <1>2 DEF isJoinHead
<1> HIDE DEF FreeBlocks, UsedBlocks
<1>4. CASE UNCHANGED FreeBlocks
    BY <1>3, <1>4
<1>5. CASE \E p \in DOMAIN FreeBlocks : \E b \in DOMAIN UsedBlocks :
              List!ReleaseApart(p, b)
  <2>1. PICK p \in DOMAIN FreeBlocks, b \in DOMAIN UsedBlocks : List!ReleaseApart(p, b)
      BY <1>5
  <2>2. j \in DOMAIN FreeBlocks \cup {b}
      BY <1>3, <2>1 DEF List!ReleaseApart, List!Put
  <2>3. j = b /\ j \notin DOMAIN FreeBlocks => FreeBlocks'[j].status = {}
      BY <1>3, <2>1 DEF List!ReleaseApart, List!Put, List!AVAILABLE
  <2> QED
      BY <1>3, <2>2, <2>3
<1>6. CASE \E p \in DOMAIN FreeBlocks :
              \/ \E need \in Needs : List!Allocate(p, need)
              \/ \E b \in DOMAIN UsedBlocks : List!ReleaseAdjacent(p, b)
              \/ List!MarkHead(p) \/ List!MarkTail(p) \/ List!Join(p)
  <2>1. DOMAIN FreeBlocks' \subseteq DOMAIN FreeBlocks
      BY <1>6 DEF List!Allocate, List!ReleaseAdjacent, List!MarkHead, List!MarkTail, List!Join,
          List!Remove
  <2> QED
      BY <1>3, <2>1
<1>7. CASE \E b \in DOMAIN UsedBlocks :
              (\E delta \in Deltas : List!Dup(b, delta)) \/ List!Undup(b) \/ List!DupNew(b)
    BY <1>3, <1>7 DEF List!Dup, List!Undup, List!DupNew
<1> QED
    BY <1>4, <1>5, <1>6, <1>7 DEF ListStep, List!Next, List!vars

NoHeadMade == \A j \in Indices : isJoinHead(nodes[j])' => isJoinHead(nodes[j])

LEMMA WriteMakesNone ==
    ASSUME Types
    PROVE  /\ UNCHANGED nodes => NoHeadMade
           /\ \A i \in Indices : \A w :
                 Set(i, w) /\ (isJoinHead(w) => isJoinHead(nodes[i])) => NoHeadMade
<1>1. UNCHANGED nodes => NoHeadMade
    BY DEF NoHeadMade
<1>2. ASSUME NEW i \in Indices, NEW w, Set(i, w), isJoinHead(w) => isJoinHead(nodes[i])
      PROVE  NoHeadMade
  <2>1. nodes'[i] = w /\ \A j \in Indices \ {i} : nodes'[j] = nodes[j]
      BY <1>2, Written
  <2> QED
      BY <1>2, <2>1 DEF NoHeadMade, isJoinHead
<1> QED
    BY <1>1, <1>2

\* A flag is set by the thread's own merge only.
LEMMA OwnMergeStays ==
    ASSUME Inv, Inv', ListStep, NEW t \in Threads, OwnMerge(t), NoHeadMade,
           pc[t] \notin {"markTail", "join"}
    PROVE  OwnMerge(t)'
<1>1. ASSUME NEW j \in FreeNodes'
      PROVE  ~ isJoinHead(nodes[j])'
  <2>1. j \in FreeNodes => j \in Indices
      BY InvSays, PlacesAre DEF ListWords
  <2> QED
      BY <1>1, <2>1, NoNewHeads DEF NoHeadMade, OwnMerge
<1> QED
    BY <1>1 DEF OwnMerge

\* A step that is not followed by a walk.
LEMMA SoloElsewhere ==
    ASSUME Inv, Inv', ListStep, NEW t \in Threads, OwnMerge(t), NoHeadMade,
           pc[t] \notin {"markTail", "join"}, pc'[t] \notin Walking, call'[t].retry >= 0,
           pc'[t] \in CurrRead => ~ isModified(curr[t])'
    PROVE  Still(t)' /\ OwnMerge(t)' /\ Searched(t)'
<1>1. OwnMerge(t)'
    BY OwnMergeStays
<1>2. Still(t)'
    BY DEF Still
<1>3. pc'[t] \notin {"next", "recheck", "markHead"}
    BY DEF Walking
<1>4. Searched(t)'
    BY <1>3 DEF Searched
<1> QED
    BY <1>1, <1>2, <1>4

\* A step that goes to a label off the list.
LEMMA SoloLeaves ==
    ASSUME Inv, Inv', ListStep, NEW t \in Threads, OwnMerge(t), NoHeadMade,
           pc[t] \notin {"markTail", "join"}, NEW label, NEW c, NEW p, NEW s,
           Moves(t, label, c, p, s), label \notin Walking \cup CurrRead, c.retry >= 0
    PROVE  Still(t)' /\ OwnMerge(t)' /\ Searched(t)'
<1>1. Types
    BY InvSays
<1>2. pc'[t] = label /\ call'[t] = c
    BY <1>1, Moved
<1> QED
    BY <1>2, SoloElsewhere

LEMMA Retries ==
    ASSUME Types, NEW t \in Threads, call[t].retry >= 0
    PROVE  /\ NoCall.retry >= 0 /\ RetryLimit >= 0
           /\ \A md : [call[t] EXCEPT !.md = md].retry >= 0
           /\ \A b : [call[t] EXCEPT !.carries = b].retry >= 0
           /\ \A r : [call[t] EXCEPT !.retry = r].retry = r
<1>1. call[t] \in Calls
    BY DEF Types
<1> QED
    BY <1>1, RetryAssumption DEF Calls, NoCall

LEMMA CallSolo ==
    ASSUME Inv, Inv', ListStep, NEW t \in Threads, OwnMerge(t), Call(t)
    PROVE  Still(t)' /\ OwnMerge(t)' /\ Searched(t)'
<1>1. Types
    BY InvSays
<1>2. ASSUME NEW op, NEW md, NEW need, NEW carries, NEW label \in {"head", "undup", "dup", "dupNew"},
             Calling(t, op, md, need, carries, label)
      PROVE  Still(t)' /\ OwnMerge(t)' /\ Searched(t)'
  <2> DEFINE c == [op |-> op, md |-> md, need |-> need, carries |-> carries,
                   retry |-> Limit(op)]
  <2>1. /\ pc[t] = "idle" /\ UNCHANGED nodes
        /\ Moves(t, label, c, pred[t], curr[t])
      BY <1>2 DEF Calling
  <2>2. c.retry >= 0
      BY RetryAssumption DEF Limit
  <2>3. label \notin Walking \cup CurrRead
      BY <1>2 DEF Walking, CurrRead, Linking
  <2>4. NoHeadMade
      BY <1>1, <2>1, WriteMakesNone
  <2> HIDE DEF c
  <2> QED
      BY <2>1, <2>2, <2>3, <2>4, SoloLeaves
<1>3. CASE \E need \in Needs : Calling(t, "allocate", None, need, FALSE, "head")
    BY <1>2, <1>3
<1>4. CASE \E md \in BagToSet(held), op \in {"release", "lightRelease", "undup"} :
              Calling(t, op, md, 0, TRUE, "undup")
    BY <1>2, <1>4
<1>5. CASE \E md \in BagToSet(held), delta \in Deltas : Calling(t, "dup", md, delta, TRUE, "dup")
    BY <1>2, <1>5
<1>6. CASE \E md \in BagToSet(held) : Calling(t, "racyDup", md, 1, FALSE, "dup")
    BY <1>2, <1>6
<1>7. CASE \E md \in parked : \/ Calling(t, "dupNew", md, 0, FALSE, "dupNew")
                               \/ \E op \in {"release", "lightRelease"} :
                                     Calling(t, op, md, 0, FALSE, "undup")
    BY <1>2, <1>7
<1> QED
    BY <1>1, <1>3, <1>4, <1>5, <1>6, <1>7, CallDoes

\* What allocate does with its candidate.
LEMMA CarveSolo ==
    ASSUME Inv, Inv', ListStep, NEW t \in Threads, Still(t), OwnMerge(t),
           Take(t) \/ InitVersion(t) \/ InitCount(t) \/ InitRef(t)
    PROVE  Still(t)' /\ OwnMerge(t)' /\ Searched(t)'
<1>1. Types /\ Chosen /\ Located
    BY InvSays
<1>2. /\ call[t].retry >= 0 /\ NoCall.retry >= 0 /\ RetryLimit >= 0
      /\ \A md : [call[t] EXCEPT !.md = md].retry >= 0
      /\ \A r : [call[t] EXCEPT !.retry = r].retry = r
    BY <1>1, Retries DEF Still
<1>3. {"idle", "head", "initVersion", "initCount", "initRef"} \cap (Walking \cup CurrRead) = {}
    BY DEF Walking, CurrRead, Linking
<1>4. CASE Take(t)
  <2> DEFINE rest == curr[t].node.count - call[t].need
             c == [call[t] EXCEPT !.md = [version |-> 0, index |-> index(curr[t]) + rest]]
             h == [call[t] EXCEPT !.retry = RetryLimit]
  <2>1. pc[t] = "take"
      BY <1>1, <1>4, TakeDoes
  <2>2. c.retry >= 0 /\ h.retry >= 0
      BY <1>2
  <2>3. \/ Moves(t, "head", h, pred[t], None) /\ UNCHANGED nodes
        \/ /\ ~ isModified(curr[t])
           /\ Set(curr[t].place, changeCount(curr[t].node, rest))
           /\ Moves(t, "initVersion", c, pred[t], None)
      BY <1>1, <1>4, TakeDoes
  <2> HIDE DEF c, h
  <2>4. CASE Moves(t, "head", h, pred[t], None) /\ UNCHANGED nodes
    <3>1. NoHeadMade
        BY <1>1, <2>4, WriteMakesNone
    <3> QED
        BY <1>3, <2>1, <2>2, <2>4, <3>1, SoloLeaves
  <2>5. CASE /\ ~ isModified(curr[t])
             /\ Set(curr[t].place, changeCount(curr[t].node, rest))
             /\ Moves(t, "initVersion", c, pred[t], None)
    <3>1. curr[t] \in [place : Indices, node : Words]
      <4>1. curr[t] # None
          BY <1>1, <2>1 DEF Chosen, ChosenAt, Tame
      <4> QED
          BY <1>1, <4>1 DEF Types, Snapshots
    <3>2. changeCount(curr[t].node, rest).status = curr[t].node.status
        BY <3>1 DEF changeCount, Words
    <3>3. nodes[curr[t].place] = curr[t].node
        BY <2>5 DEF isModified
    <3> HIDE DEF rest
    <3>4. NoHeadMade
        BY <1>1, <2>5, <3>1, <3>2, <3>3, WriteMakesNone DEF isJoinHead
    <3> QED
        BY <1>3, <2>1, <2>2, <2>5, <3>4, SoloLeaves
  <2> QED
      BY <2>3, <2>4, <2>5
<1>5. ASSUME Alone(t)
      PROVE  /\ Base(t) \in Indices /\ nodes[Base(t)] \in Words
             /\ \A v : [nodes[Base(t)] EXCEPT !.version = v].status = nodes[Base(t)].status
             /\ \A n : [nodes[Base(t)] EXCEPT !.count = n].status = nodes[Base(t)].status
             /\ \A n : [nodes[Base(t)] EXCEPT !.next = n].status = nodes[Base(t)].status
  <2>1. Base(t) \in Indices /\ nodes[Base(t)] \in Words
      BY <1>5, OwnIndex
  <2> QED
      BY <2>1 DEF Words
<1>6. CASE InitVersion(t)
  <2> DEFINE w == [nodes[Base(t)] EXCEPT !.version = Bump(@)]
             c == [call[t] EXCEPT !.md = [@ EXCEPT !.version = Bump(nodes[Base(t)].version)]]
  <2>1. /\ pc[t] = "initVersion" /\ Set(Base(t), w)
        /\ Moves(t, "initCount", c, pred[t], curr[t])
      BY <1>1, <1>6, InitVersionDoes
  <2>2. Alone(t)
      BY <2>1 DEF Alone, Carving
  <2>3. w.status = nodes[Base(t)].status /\ c.retry >= 0
      BY <1>2, <1>5, <2>2
  <2> HIDE DEF w, c
  <2>4. NoHeadMade
      BY <1>1, <1>5, <2>1, <2>2, <2>3, WriteMakesNone DEF isJoinHead
  <2> QED
      BY <1>3, <2>1, <2>3, <2>4, SoloLeaves
<1>7. CASE InitCount(t)
  <2> DEFINE w == [nodes[Base(t)] EXCEPT !.count = call[t].need]
  <2>1. /\ pc[t] = "initCount" /\ Set(Base(t), w)
        /\ Moves(t, "initRef", call[t], pred[t], curr[t])
      BY <1>1, <1>7, InitCountDoes
  <2>2. Alone(t)
      BY <2>1 DEF Alone, Carving
  <2>3. w.status = nodes[Base(t)].status
      BY <1>5, <2>2
  <2> HIDE DEF w
  <2>4. NoHeadMade
      BY <1>1, <1>5, <2>1, <2>2, <2>3, WriteMakesNone DEF isJoinHead
  <2> QED
      BY <1>2, <1>3, <2>1, <2>4, SoloLeaves
<1>8. CASE InitRef(t)
  <2> DEFINE w == [nodes[Base(t)] EXCEPT !.next = 1]
  <2>1. pc[t] = "initRef" /\ Set(Base(t), w) /\ Moves(t, "idle", NoCall, None, None)
      BY <1>1, <1>8, InitRefDoes
  <2>2. Alone(t)
      BY <2>1 DEF Alone, Carving
  <2>3. w.status = nodes[Base(t)].status
      BY <1>5, <2>2
  <2> HIDE DEF w
  <2>4. NoHeadMade
      BY <1>1, <1>5, <2>1, <2>2, <2>3, WriteMakesNone DEF isJoinHead
  <2> QED
      BY <1>2, <1>3, <2>1, <2>4, SoloLeaves
<1> QED
    BY <1>4, <1>6, <1>7, <1>8

\* A swap of a word that keeps its flags.
LEMMA SwapMakesNone ==
    ASSUME Types, NEW t \in Threads, curr[t] # None, ~ isModified(curr[t]), NEW w,
           Set(curr[t].place, w), w.status = curr[t].node.status
    PROVE  NoHeadMade
<1>1. curr[t] \in [place : Indices, node : Words]
    BY DEF Types, Snapshots
<1>2. nodes[curr[t].place] = curr[t].node /\ curr[t].place \in Indices
    BY <1>1 DEF isModified
<1> QED
    BY <1>2, WriteMakesNone DEF isJoinHead

\* dup, dupNew and undup.
LEMMA RefSolo ==
    ASSUME Inv, Inv', ListStep, NEW t \in Threads, Still(t), OwnMerge(t),
           \/ DupRead(t) \/ DupCas(t) \/ DupNewRead(t) \/ DupNewCas(t)
           \/ UndupRead(t) \/ UndupCas(t)
    PROVE  Still(t)' /\ OwnMerge(t)' /\ Searched(t)'
<1>1. Types /\ Copied
    BY InvSays
<1>2. /\ call[t].retry >= 0 /\ NoCall.retry >= 0
      /\ [call[t] EXCEPT !.carries = FALSE].retry >= 0
    BY <1>1, Retries DEF Still
<1> DEFINE off == {"idle", "abort", "head", "dup", "dupCas", "dupNew", "dupNewCas", "undup",
                   "undupCas"}
<1>3. off \cap (Walking \cup CurrRead) = {} /\ "markTail" \notin off /\ "join" \notin off
    BY DEF Walking, CurrRead, Linking
<1>4. ASSUME NoHeadMade, pc[t] \in off,
             \/ Keeps(t)
             \/ \E label \in off : \E p, s : Moves(t, label, call[t], p, s)
             \/ Moves(t, "idle", NoCall, None, None)
      PROVE  Still(t)' /\ OwnMerge(t)' /\ Searched(t)'
  <2>1. \E label \in off : \E c, p, s : Moves(t, label, c, p, s) /\ c.retry >= 0
      BY <1>2, <1>4 DEF Keeps
  <2> QED
      BY <1>3, <1>4, <2>1, SoloLeaves
<1>5. CASE DupRead(t)
  <2>1. pc[t] = "dup" /\ UNCHANGED nodes
      BY <1>1, <1>5, DupReadDoes
  <2>2. \/ Moves(t, "idle", NoCall, None, None)
        \/ Moves(t, "dupCas", call[t], pred[t], Snap(Base(t)))
      BY <1>1, <1>5, DupReadDoes
  <2>3. NoHeadMade
      BY <1>1, <2>1, WriteMakesNone
  <2> QED
      BY <1>4, <2>1, <2>2, <2>3
<1>6. CASE DupCas(t)
  <2> DEFINE w == [curr[t].node EXCEPT !.next = (@ + call[t].need) % NextMod]
  <2>1. pc[t] = "dupCas"
      BY <1>1, <1>6, DupCasDoes
  <2>2. \/ Moves(t, "dup", call[t], pred[t], None) /\ UNCHANGED nodes
        \/ /\ ~ isModified(curr[t]) /\ Set(curr[t].place, w)
           /\ Moves(t, "idle", NoCall, None, None)
      BY <1>1, <1>6, DupCasDoes
  <2>3. curr[t] # None /\ w.status = curr[t].node.status
    <3>1. curr[t] # None
        BY <1>1, <2>1 DEF Copied, CopiedAt
    <3> QED
        BY <1>1, <3>1 DEF Types, Snapshots, Words
  <2> HIDE DEF w
  <2>4. NoHeadMade
      BY <1>1, <2>2, <2>3, SwapMakesNone, WriteMakesNone
  <2> QED
      BY <1>4, <2>1, <2>2, <2>4
<1>7. CASE DupNewRead(t)
  <2>1. pc[t] = "dupNew" /\ UNCHANGED nodes
      BY <1>1, <1>7, DupNewReadDoes
  <2>2. \/ Moves(t, "abort", call[t], pred[t], curr[t])
        \/ Moves(t, "dupNewCas", call[t], pred[t], Snap(Base(t)))
      BY <1>1, <1>7, DupNewReadDoes
  <2>3. NoHeadMade
      BY <1>1, <2>1, WriteMakesNone
  <2> QED
      BY <1>4, <2>1, <2>2, <2>3
<1>8. CASE DupNewCas(t)
  <2> DEFINE w == [curr[t].node EXCEPT !.version = Bump(call[t].md.version), !.next = 1]
  <2>1. pc[t] = "dupNewCas"
      BY <1>1, <1>8, DupNewCasDoes
  <2>2. \/ Moves(t, "abort", call[t], pred[t], curr[t]) /\ UNCHANGED nodes
        \/ /\ ~ isModified(curr[t]) /\ Set(curr[t].place, w)
           /\ Moves(t, "idle", NoCall, None, None)
      BY <1>1, <1>8, DupNewCasDoes
  <2>3. curr[t] # None /\ w.status = curr[t].node.status
    <3>1. Owning(t)
        BY <1>1, <2>1, InvSays, Doing
    <3>2. Base(t) \in Indices
        BY <3>1, OwnIndex DEF Alone
    <3>3. curr[t] # None
        BY <1>1, <2>1, <3>2, SnapIs DEF Copied, CopiedAt
    <3> QED
        BY <1>1, <3>3 DEF Types, Snapshots, Words
  <2> HIDE DEF w
  <2>4. NoHeadMade
      BY <1>1, <2>2, <2>3, SwapMakesNone, WriteMakesNone
  <2> QED
      BY <1>4, <2>1, <2>2, <2>4
<1>9. CASE UndupRead(t)
  <2>1. pc[t] = "undup" /\ UNCHANGED nodes
      BY <1>1, <1>9, UndupReadDoes
  <2>2. \/ Moves(t, "abort", call[t], pred[t], curr[t])
        \/ Keeps(t)
        \/ Moves(t, "undupCas", call[t], pred[t], Snap(Base(t)))
      BY <1>1, <1>9, UndupReadDoes
  <2>3. NoHeadMade
      BY <1>1, <2>1, WriteMakesNone
  <2> QED
      BY <1>4, <2>1, <2>2, <2>3
<1>10. CASE UndupCas(t)
  <2> DEFINE w == [curr[t].node EXCEPT !.next = @ - 1]
  <2>1. pc[t] = "undupCas"
      BY <1>1, <1>10, UndupCasDoes
  <2>2. \/ Moves(t, "undup", call[t], pred[t], None) /\ UNCHANGED nodes
        \/ /\ ~ isModified(curr[t]) /\ Set(curr[t].place, w)
           /\ Keeps(t) \/ Moves(t, "idle", NoCall, None, None)
      BY <1>1, <1>10, UndupCasDoes
  <2>3. curr[t] # None /\ w.status = curr[t].node.status
    <3>1. curr[t] # None
        BY <1>1, <2>1 DEF Copied, CopiedAt
    <3> QED
        BY <1>1, <3>1 DEF Types, Snapshots, Words
  <2> HIDE DEF w
  <2>4. NoHeadMade
      BY <1>1, <2>2, <2>3, SwapMakesNone, WriteMakesNone
  <2> QED
      BY <1>4, <2>1, <2>2, <2>4
<1> QED
    BY <1>5, <1>6, <1>7, <1>8, <1>9, <1>10

\* releaseImpl: its stores are to its own block, not to the predecessor.
LEMMA LinkSolo ==
    ASSUME Inv, Inv', ListStep, NEW t \in Threads, Still(t), OwnMerge(t),
           Link(t) \/ LinkStatus(t) \/ BumpVersion(t) \/ Publish(t) \/ Undo(t)
    PROVE  Still(t)' /\ OwnMerge(t)' /\ Searched(t)'
<1>1. Types /\ Chosen /\ pc[t] \in Linking
  <2>1. Types /\ Chosen
      BY InvSays
  <2> QED
      BY <2>1 DEF Link, LinkStatus, BumpVersion, Publish, Undo, Linking
<1>2. /\ call[t].retry >= 0 /\ NoCall.retry >= 0 /\ RetryLimit >= 0
      /\ [call[t] EXCEPT !.retry = RetryLimit].retry = RetryLimit
    BY <1>1, Retries DEF Still
<1>3. Base(t) \in Indices /\ nodes[Base(t)] \in Words
    BY <1>1, LinkFacts
<1>4. pc[t] \notin {"markTail", "join"}
    BY <1>1 DEF Linking
<1>5. pc[t] # "undo" =>
         /\ curr[t] \in [place : Indices, node : Words] /\ curr[t] # None
         /\ curr[t].place # Base(t) /\ ~ isModified(curr[t])
  <2>1. SUFFICES ASSUME pc[t] # "undo"
                 PROVE  /\ curr[t] \in [place : Indices, node : Words] /\ curr[t] # None
                        /\ curr[t].place # Base(t) /\ ~ isModified(curr[t])
      OBVIOUS
  <2>2. pc[t] \in Linking \ {"undo"} /\ pc[t] \in CurrRead
      BY <1>1, <2>1 DEF CurrRead
  <2>3. /\ Tame(curr[t]) /\ index(curr[t]) # 0
        /\ pc[t] # "take"
        /\ index(curr[t]) + curr[t].node.count <= Base(t)
      BY <1>1, <2>2 DEF Chosen, ChosenAt, Linking
  <2>4. curr[t] \in [place : Indices, node : Words] /\ curr[t] # None
      BY <1>1, <2>3 DEF Tame, Types, Snapshots
  <2>5. curr[t].place \in Nat /\ curr[t].node.count \in Nat /\ curr[t].node.count > 0
    <3>1. curr[t].place \in Nat /\ curr[t].node.count \in Nat
        BY <2>4, PlacesAre, WordParts
    <3>2. curr[t].place # 0
        BY <2>3
    <3> QED
        BY <2>3, <3>1, <3>2 DEF Tame
  <2>6. curr[t].place # Base(t)
      BY <1>3, <2>3, <2>5, PlacesAre
  <2> QED
      BY <2>2, <2>4, <2>6 DEF Still
<1>6. ASSUME pc[t] # "undo", NEW label \in {"linkStatus", "bump", "publish", "abort"},
             Moves(t, label, call[t], pred[t], curr[t]),
             \/ UNCHANGED nodes
             \/ \E w : Set(Base(t), w) /\ w.status \in {{}, nodes[Base(t)].status}
      PROVE  Still(t)' /\ OwnMerge(t)' /\ Searched(t)'
  <2>1. pc'[t] = label /\ call'[t] = call[t] /\ curr'[t] = curr[t]
      BY <1>1, <1>6, Moved
  <2>2. NoHeadMade
      BY <1>1, <1>3, <1>6, WriteMakesNone DEF isJoinHead
  <2>3. nodes'[curr[t].place] = nodes[curr[t].place]
      BY <1>1, <1>3, <1>5, <1>6, Written
  <2>4. ~ isModified(curr[t])'
      BY <1>5, <1>6, <2>1, <2>3 DEF isModified
  <2>5. label \notin Walking
      BY <1>6 DEF Walking
  <2> QED
      BY <1>2, <1>4, <2>1, <2>2, <2>4, <2>5, SoloElsewhere
<1>7. /\ \A n : [nodes[Base(t)] EXCEPT !.next = n].status = nodes[Base(t)].status
      /\ \A v : [nodes[Base(t)] EXCEPT !.version = v].status = nodes[Base(t)].status
      /\ \A v, n : [nodes[Base(t)] EXCEPT !.version = v, !.next = n].status
                      = nodes[Base(t)].status
      /\ [nodes[Base(t)] EXCEPT !.status = AVAILABLE].status = {}
    BY <1>3 DEF Words, AVAILABLE
<1>8. CASE Link(t)
  <2>1. /\ pc[t] = "link"
        /\ \/ UNCHANGED nodes /\ Moves(t, "abort", call[t], pred[t], curr[t])
           \/ UNCHANGED nodes /\ Moves(t, "bump", call[t], pred[t], curr[t])
           \/ /\ Set(Base(t), [nodes[Base(t)] EXCEPT !.next = curr[t].node.next])
              /\ Moves(t, "linkStatus", call[t], pred[t], curr[t])
      BY <1>1, <1>8, LinkDoes
  <2> QED
      BY <1>6, <1>7, <2>1
<1>9. CASE LinkStatus(t)
  <2>1. /\ pc[t] = "linkStatus" /\ Set(Base(t), [nodes[Base(t)] EXCEPT !.status = AVAILABLE])
        /\ Moves(t, "bump", call[t], pred[t], curr[t])
      BY <1>1, <1>9, LinkStatusDoes
  <2> QED
      BY <1>6, <1>7, <2>1
<1>10. CASE BumpVersion(t)
  <2>1. /\ pc[t] = "bump" /\ Set(Base(t), [nodes[Base(t)] EXCEPT !.version = Bump(@)])
        /\ Moves(t, "publish", call[t], pred[t], curr[t])
      BY <1>1, <1>10, BumpVersionDoes
  <2> QED
      BY <1>6, <1>7, <2>1
<1>11. "undo" \notin Walking \cup CurrRead /\ "idle" \notin Walking \cup CurrRead
       /\ "head" \notin Walking \cup CurrRead
    BY DEF Walking, CurrRead, Linking
<1>12. CASE Publish(t)
  <2> DEFINE p == curr[t].node
             w == IF Adjacent(t) THEN changeCount(p, p.count + nodes[Base(t)].count)
                                 ELSE changeNext(p, Base(t))
  <2>1. pc[t] = "publish"
      BY <1>1, <1>12, PublishDoes
  <2>2. \/ UNCHANGED nodes /\ Moves(t, "undo", call[t], pred[t], curr[t])
        \/ Set(curr[t].place, w) /\ Moves(t, "idle", NoCall, None, None)
      BY <1>1, <1>12, PublishDoes
  <2>3. curr[t] # None /\ ~ isModified(curr[t]) /\ w.status = p.status
      BY <1>5, <2>1 DEF changeCount, changeNext, Words
  <2> HIDE DEF w
  <2>4. NoHeadMade
      BY <1>1, <2>2, <2>3, SwapMakesNone, WriteMakesNone
  <2> QED
      BY <1>2, <1>4, <1>11, <2>2, <2>4, SoloLeaves
<1>13. CASE Undo(t)
  <2> DEFINE w == [nodes[Base(t)] EXCEPT !.version = Unbump(@), !.next = 0]
             c == [call[t] EXCEPT !.retry = RetryLimit]
  <2>1. /\ Set(Base(t), w)
        /\ \/ Moves(t, "idle", NoCall, None, None)
           \/ Moves(t, "head", c, pred[t], None)
      BY <1>1, <1>3, <1>13, UndoDoes DEF Fails
  <2>2. w.status = nodes[Base(t)].status /\ c.retry >= 0
      BY <1>2, <1>7
  <2> HIDE DEF w, c
  <2>3. NoHeadMade
      BY <1>1, <1>3, <2>1, <2>2, WriteMakesNone DEF isJoinHead
  <2> QED
      BY <1>2, <1>4, <1>11, <2>1, <2>2, <2>3, SoloLeaves
<1> QED
    BY <1>8, <1>9, <1>10, <1>12, <1>13

-----------------------------------------------------------------------------
(* The walk *)

\* Where a walk stands that nobody disturbs: pred and curr are the node table.
LEMMA WalkFacts ==
    ASSUME Inv, NEW t \in Threads, Still(t), OwnMerge(t), pc[t] \in Walking
    PROVE  /\ pred[t] \in [place : Indices, node : Words] /\ pred[t].place \in FreeNodes \cup {0}
           /\ pred[t].node = nodes[pred[t].place]
           /\ pred[t].node.next \in FreeNodes /\ ~ isJoinTail(pred[t].node)
           /\ pc[t] # "next" =>
                 /\ curr[t] \in [place : Indices, node : Words]
                 /\ curr[t].place = pred[t].node.next /\ curr[t].node = nodes[curr[t].place]
                 /\ curr[t].place # pred[t].place
           /\ pc[t] \in {"markHead", "markTail", "join"} =>
                 /\ pred[t].place \in FreeNodes
                 /\ isJoinable(pred[t].place, nodes[pred[t].place])
           /\ pc[t] \in {"markTail", "join"} => isJoinHead(pred[t].node)
           /\ pc[t] = "join" => isJoinTail(curr[t].node)
<1> DEFINE p == pred[t].place
<1>1. Types /\ Root /\ ListWords /\ PrecededAt(t) /\ FollowedAt(t)
    BY InvSays DEF Preceded, Followed
<1>2. /\ Tame(pred[t]) /\ Fresh(pred[t]) /\ ~ isJoinTail(pred[t].node)
      /\ pred[t].node.next # NodeCount
      /\ pc[t] = "markHead" => isJoinable(p, pred[t].node)
      /\ pc[t] \in {"markTail", "join"} => isJoinHead(pred[t].node)
    BY <1>1 DEF PrecededAt
<1>3. pred[t] \in [place : Indices, node : Words]
    BY <1>1, <1>2 DEF Tame, Types, Snapshots
<1>4. pred[t].node = nodes[p]
    BY DEF Still, isModified
<1>5. p \in FreeNodes \cup {0}
    BY <1>2, <1>4 DEF Fresh, isModified
<1>6. pred[t].node.next \in FreeNodes
    BY <1>1, <1>2, <1>4, <1>5, FreeTame
<1>7. pc[t] # "next" =>
         /\ curr[t] \in [place : Indices, node : Words]
         /\ curr[t].place = pred[t].node.next /\ curr[t].node = nodes[curr[t].place]
         /\ curr[t].place # p
  <2>1. SUFFICES ASSUME pc[t] # "next"
                 PROVE  /\ curr[t] \in [place : Indices, node : Words]
                        /\ curr[t].place = pred[t].node.next
                        /\ curr[t].node = nodes[curr[t].place] /\ curr[t].place # p
      OBVIOUS
  <2>2. pc[t] \in CurrRead
      BY <2>1 DEF Walking, CurrRead
  <2>3. Follows(t)
      BY <1>1, <1>4, <2>1 DEF FollowedAt, Walking, isModified
  <2>4. curr[t] # None /\ curr[t].place = pred[t].node.next
      BY <2>3 DEF Follows, Tame
  <2>5. curr[t].node = nodes[curr[t].place]
      BY <2>2 DEF Still, isModified
  <2>6. pred[t].node.next # p
    <3>1. p \in Nat
        BY <1>3, PlacesAre
    <3> QED
        BY <1>2, <3>1, PlacesAre DEF Tame
  <2> QED
      BY <1>1, <2>4, <2>5, <2>6 DEF Types, Snapshots
<1>8. pc[t] \in {"markHead", "markTail", "join"} =>
         p \in FreeNodes /\ isJoinable(p, nodes[p])
  <2>1. SUFFICES ASSUME pc[t] \in {"markHead", "markTail", "join"}
                 PROVE  p \in FreeNodes /\ isJoinable(p, nodes[p])
      OBVIOUS
  <2>2. isJoinable(p, nodes[p])
      BY <1>2, <1>4, <2>1 DEF Tame
  <2>3. p # 0
      BY <1>1, <2>2 DEF Root, isJoinable
  <2> QED
      BY <1>5, <2>2, <2>3
<1>9. pc[t] = "join" => isJoinTail(curr[t].node)
    BY <1>1 DEF FollowedAt
<1> QED
    BY <1>2, <1>3, <1>4, <1>5, <1>6, <1>7, <1>8, <1>9

\* Outside its own merge a lone thread finds no flags.
LEMMA NoFlags ==
    ASSUME Inv, NEW t \in Threads, OwnMerge(t), pc[t] \notin {"markTail", "join"}
    PROVE  \A i \in FreeNodes \cup {0} : nodes[i].status = {}
<1>1. Types /\ Root /\ ListWords
    BY InvSays
<1>2. \A i \in FreeNodes : ~ isJoinHead(nodes[i])
    BY DEF OwnMerge
<1>3. \A i \in FreeNodes : ~ isJoinTail(nodes[i])
    BY <1>1, <1>2 DEF ListWords
<1>4. \A i \in FreeNodes : nodes[i] \in Words
    BY <1>1, PlacesAre DEF Types, ListWords
<1>5. \A i \in FreeNodes : nodes[i].status \in SUBSET {JOIN_HEAD, JOIN_TAIL}
    BY <1>4, WordParts
<1>6. nodes[0].status = {}
    BY <1>1 DEF Root, AVAILABLE
<1> QED
    BY <1>2, <1>3, <1>5, <1>6 DEF isJoinHead, isJoinTail

\* A word without flags is refused only because it is too small.
LEMMA Refuses ==
    ASSUME NEW t \in Threads, call[t].op = "allocate", call[t].need \in Nat,
           NEW w, w.count \in Nat, w.status = {}, ~ Accepts(t, w)
    PROVE  w.count <= call[t].need
BY DEF Accepts, Releasing, isAvailable, AVAILABLE

LEMMA VisitEnds ==
    ASSUME Types, NEW t \in Threads, NEW snap, Visit(t, snap)
    PROVE  /\ pc'[t] # "head"
           /\ pc'[t] = "idle" => ~ Accepts(t, snap.node) /\ snap.node.next = NodeCount
<1>1. CASE Accepts(t, snap.node)
    BY <1>1 DEF Visit, Goto, Types
<1>2. CASE ~ Accepts(t, snap.node) /\ snap.node.next # NodeCount
    BY <1>2 DEF Visit, Goto, Types
<1>3. CASE ~ Accepts(t, snap.node) /\ snap.node.next = NodeCount
  <2>1. Fails(t)
      BY <1>3, FailDoes DEF Visit
  <2>2. pc'[t] = "idle"
      BY <2>1, Moved DEF Fails
  <2> QED
      BY <1>3, <2>2
<1> QED
    BY <1>1, <1>2, <1>3

LEMMA ChunksKept ==
    ASSUME Inv
    PROVE  /\ UNCHANGED nodes => FreeNodes' = FreeNodes /\ FreeChunks' = FreeChunks
           /\ FreeNodes' = FreeNodes
              /\ (\A i \in FreeNodes : nodes'[i].count = nodes[i].count)
              => FreeChunks' = FreeChunks
<1>1. ASSUME UNCHANGED nodes
      PROVE  FreeNodes' = FreeNodes /\ FreeChunks' = FreeChunks
  <2>1. FreeNodes' = FreeNodes
      BY <1>1 DEF FreeNodes
  <2> QED
      BY <1>1, <2>1 DEF FreeChunks
<1>2. ASSUME FreeNodes' = FreeNodes, \A i \in FreeNodes : nodes'[i].count = nodes[i].count
      PROVE  FreeChunks' = FreeChunks
    BY <1>2 DEF FreeChunks
<1> QED
    BY <1>1, <1>2

\* A step of a walk that only reads.
LEMMA ReadSolo ==
    ASSUME Inv, Inv', ListStep, NEW t \in Threads, Still(t), OwnMerge(t),
           pc[t] \notin {"markTail", "join"}, UNCHANGED nodes,
           NEW label \in {"next", "recheck", "markHead"}, NEW p, NEW s,
           Moves(t, label, call[t], p, s), ~ isModified(p),
           label # "next" => ~ isModified(s),
           call[t].op = "allocate" =>
               /\ \A x : Fitting(t, x) => x >= p.place
               /\ p.node.count <= call[t].need
    PROVE  Still(t)' /\ OwnMerge(t)' /\ Searched(t)'
<1>1. Types
    BY InvSays
<1>2. pc'[t] = label /\ call'[t] = call[t] /\ pred'[t] = p /\ curr'[t] = s
    BY <1>1, Moved
<1>3. OwnMerge(t)'
    BY <1>1, WriteMakesNone, OwnMergeStays
<1>4. Still(t)'
  <2>1. label # "next" <=> label \in CurrRead
      BY DEF CurrRead, Linking
  <2> QED
      BY <1>2, <2>1 DEF Still, isModified
<1>5. FreeChunks' = FreeChunks
    BY ChunksKept
<1>6. Searched(t)'
    BY <1>2, <1>5 DEF Searched, Fitting
<1> QED
    BY <1>3, <1>4, <1>6

LEMMA HeadSolo ==
    ASSUME Inv, Inv', ListStep, NEW t \in Threads, Still(t), OwnMerge(t), Head(t)
    PROVE  /\ Still(t)' /\ OwnMerge(t)' /\ Searched(t)'
           /\ pc'[t] = "next"
<1>1. Types /\ Root
    BY InvSays
<1>2. pc'[t] = "next"
  <2>1. ~ (call[t].retry < 0)
      BY <1>1, CallFields DEF Still
  <2>2. Goto(t, "next") /\ pc \in [Threads -> Labels]
      BY <1>1, <2>1 DEF Head, Types
  <2> QED
      BY <2>2 DEF Goto
<1> DEFINE s == Snap(0)
<1>3. pc[t] = "head" /\ UNCHANGED nodes /\ Moves(t, "next", call[t], s, curr[t])
  <2>1. ~ Fails(t)
      BY <1>1, <1>2, Moved DEF Fails
  <2> QED
      BY <1>1, <2>1, HeadDoes
<1>4. ~ isModified(s) /\ s.place = 0 /\ s.node.count = 0
    BY <1>1, PlacesAre, SnapIs DEF Root
<1> HIDE DEF s
<1>5. call[t].op = "allocate" => /\ \A x : Fitting(t, x) => x >= s.place
                                 /\ s.node.count <= call[t].need
  <2>1. call[t].need \in Nat
      BY <1>1, CallFields
  <2>2. \A x : Fitting(t, x) => x >= 0
      BY ChunksAre DEF Fitting
  <2> QED
      BY <1>4, <2>1, <2>2
<1>6. pc[t] \notin {"markTail", "join"}
    BY <1>3
<1>7. Still(t)' /\ OwnMerge(t)' /\ Searched(t)'
    BY <1>3, <1>4, <1>5, <1>6, ReadSolo
<1> QED
    BY <1>2, <1>7

LEMMA NextSnapshotSolo ==
    ASSUME Inv, Inv', ListStep, NEW t \in Threads, Still(t), OwnMerge(t), Searched(t),
           NextSnapshot(t)
    PROVE  /\ Still(t)' /\ OwnMerge(t)' /\ Searched(t)'
           /\ pc'[t] = "recheck"
<1>1. Types
    BY InvSays
<1>2. /\ pc[t] = "next" /\ UNCHANGED nodes
      /\ Moves(t, "recheck", call[t], pred[t], Snap(pred[t].node.next))
    BY <1>1, NextSnapshotDoes
<1>3. pc'[t] = "recheck"
    BY <1>1, <1>2, Moved
<1>4. pc[t] \in Walking
    BY <1>2 DEF Walking
<1>5. pred[t].node.next \in Indices
    BY <1>4, WalkFacts, InvSays, PlacesAre DEF ListWords
<1>6. ~ isModified(pred[t]) /\ ~ isModified(Snap(pred[t].node.next))
    BY <1>1, <1>4, <1>5, SnapIs DEF Still
<1>7. call[t].op = "allocate" =>
         /\ \A x : Fitting(t, x) => x >= pred[t].place
         /\ pred[t].node.count <= call[t].need
    BY <1>2, <1>4 DEF Searched
<1> QED
    BY <1>2, <1>3, <1>6, <1>7, ReadSolo

\* updateNodeStatus: the thread's own merge.
LEMMA MarkSolo ==
    ASSUME Inv, Inv', ListStep, NEW t \in Threads, Still(t), OwnMerge(t), Searched(t),
           MarkHead(t) \/ MarkTail(t)
    PROVE  /\ Still(t)' /\ OwnMerge(t)' /\ Searched(t)'
           /\ pc'[t] \in {"markTail", "join"}
<1>1. Types /\ Root /\ ListWords
    BY InvSays
<1>2. pc[t] \in {"markHead", "markTail"} /\ pc[t] \in Walking /\ pc[t] \in CurrRead
    BY DEF MarkHead, MarkTail, Walking, CurrRead
<1> DEFINE p == pred[t].place
           c == curr[t].place
<1>3. /\ pred[t] \in [place : Indices, node : Words] /\ p \in FreeNodes /\ p \in Indices
      /\ pred[t].node = nodes[p] /\ pred[t].node.next = c /\ c \in FreeNodes /\ c # p
      /\ curr[t] \in [place : Indices, node : Words] /\ c \in Indices
      /\ curr[t].node = nodes[c] /\ p # 0 /\ c # 0
  <2>1. /\ pred[t] \in [place : Indices, node : Words] /\ p \in FreeNodes
        /\ pred[t].node = nodes[p] /\ pred[t].node.next = c /\ c \in FreeNodes /\ c # p
        /\ curr[t] \in [place : Indices, node : Words] /\ curr[t].node = nodes[c]
      BY <1>2, WalkFacts
  <2> QED
      BY <1>1, <2>1, PlacesAre DEF ListWords
<1>4. ~ isModified(pred[t]) /\ ~ isModified(curr[t])
    BY <1>2 DEF Still
<1>5. \E i \in {p, c}, w \in Words :
         /\ Set(i, w) /\ w.next = nodes[i].next /\ w.count = nodes[i].count
         /\ isJoinHead(w) => isJoinHead(nodes[i]) \/ (i = p /\ pc'[t] = "markTail")
         /\ \/ /\ i = p
               /\ Moves(t, "markTail", call[t], [pred[t] EXCEPT !.node = w], curr[t])
            \/ /\ i = c /\ pc[t] = "markTail"
               /\ Moves(t, "join", call[t], pred[t], [curr[t] EXCEPT !.node = w])
  <2>1. CASE MarkHead(t)
    <3> DEFINE w == addStatus(pred[t].node, JOIN_HEAD)
    <3>1. w \in Words /\ w.next = nodes[p].next /\ w.count = nodes[p].count
        BY <1>3, FlagWord
    <3>2. pc'[t] = "markTail"
        BY <1>1, <1>4, <2>1 DEF MarkHead, Goto, Types
    <3>3. ~ Restarts(t)
        BY <1>1, <3>2, Moved DEF Restarts
    <3>4. /\ Set(p, w)
          /\ Moves(t, "markTail", call[t], [pred[t] EXCEPT !.node = w], curr[t])
        BY <1>1, <2>1, <3>3, MarkHeadDoes
    <3> HIDE DEF w
    <3> QED
        BY <3>1, <3>2, <3>4
  <2>2. CASE MarkTail(t)
    <3> DEFINE w == addStatus(curr[t].node, JOIN_TAIL)
    <3>1. /\ w \in Words /\ w.next = nodes[c].next /\ w.count = nodes[c].count
          /\ w.status = nodes[c].status \cup {JOIN_TAIL}
        BY <1>3, FlagWord
    <3>2. isJoinHead(w) => isJoinHead(nodes[c])
        BY <3>1 DEF isJoinHead, JOIN_HEAD, JOIN_TAIL
    <3>3. pc'[t] = "join"
        BY <1>1, <1>4, <2>2 DEF MarkTail, Goto, Types
    <3>4. ~ Restarts(t)
        BY <1>1, <3>3, Moved DEF Restarts
    <3>5. /\ Set(c, w) /\ pc[t] = "markTail"
          /\ Moves(t, "join", call[t], pred[t], [curr[t] EXCEPT !.node = w])
        BY <1>1, <2>2, <3>4, MarkTailDoes
    <3> HIDE DEF w
    <3> QED
        BY <3>1, <3>2, <3>5
  <2> QED
      BY <2>1, <2>2
<1>6. PICK i \in {p, c}, w \in Words :
         /\ Set(i, w) /\ w.next = nodes[i].next /\ w.count = nodes[i].count
         /\ isJoinHead(w) => isJoinHead(nodes[i]) \/ (i = p /\ pc'[t] = "markTail")
         /\ \/ /\ i = p
               /\ Moves(t, "markTail", call[t], [pred[t] EXCEPT !.node = w], curr[t])
            \/ /\ i = c /\ pc[t] = "markTail"
               /\ Moves(t, "join", call[t], pred[t], [curr[t] EXCEPT !.node = w])
    BY <1>5
<1>7. nodes'[i] = w /\ \A j \in Indices \ {i} : nodes'[j] = nodes[j]
    BY <1>1, <1>3, <1>6, Written
<1>8. FreeNodes' = FreeNodes /\ FreeChunks' = FreeChunks
  <2>1. \A j \in FreeNodes \cup {0} : j \in Indices
      BY <1>1, PlacesAre DEF ListWords
  <2>2. \A j \in FreeNodes \cup {0} :
           nodes'[j].next = nodes[j].next /\ nodes'[j].count = nodes[j].count
      BY <1>6, <1>7, <2>1
  <2>3. FreeNodes' = FreeNodes
      BY <1>1, <2>2, FreeSame
  <2> QED
      BY <2>2, <2>3, ChunksKept
<1>9. /\ call'[t] = call[t] /\ pc'[t] \in {"markTail", "join"} /\ pred'[t].place = p
      /\ ~ isModified(pred[t])' /\ ~ isModified(curr[t])'
  <2>1. CASE i = p /\ Moves(t, "markTail", call[t], [pred[t] EXCEPT !.node = w], curr[t])
    <3>1. /\ pc'[t] = "markTail" /\ call'[t] = call[t] /\ curr'[t] = curr[t]
          /\ pred'[t] = [pred[t] EXCEPT !.node = w]
        BY <1>1, <2>1, Moved
    <3>2. pred'[t].place = p /\ pred'[t].node = w
        BY <1>3, <3>1
    <3> QED
        BY <1>3, <1>7, <2>1, <3>1, <3>2 DEF isModified
  <2>2. CASE i = c /\ Moves(t, "join", call[t], pred[t], [curr[t] EXCEPT !.node = w])
    <3>1. /\ pc'[t] = "join" /\ call'[t] = call[t] /\ pred'[t] = pred[t]
          /\ curr'[t] = [curr[t] EXCEPT !.node = w]
        BY <1>1, <2>2, Moved
    <3>2. curr'[t].place = c /\ curr'[t].node = w
        BY <1>3, <3>1
    <3> QED
        BY <1>3, <1>7, <2>2, <3>1, <3>2 DEF isModified
  <2> QED
      BY <1>6, <2>1, <2>2
<1>10. Still(t)'
    BY <1>9 DEF Still
<1>11. OwnMerge(t)'
  <2>1. ASSUME NEW j \in FreeNodes, isJoinHead(nodes'[j])
        PROVE  j = p
    <3>1. j \in Indices
        BY <1>1, PlacesAre DEF ListWords
    <3>2. isJoinHead(nodes[j]) => j = p
        BY <1>2 DEF OwnMerge
    <3> QED
        BY <1>6, <1>7, <2>1, <3>1, <3>2
  <2> QED
      BY <1>8, <1>9, <2>1 DEF OwnMerge, isJoinHead
<1>12. Searched(t)'
  <2>1. pc'[t] \notin {"next", "recheck", "markHead"}
      BY <1>9
  <2> QED
      BY <1>2, <1>8, <1>9, <2>1 DEF Searched, Fitting
<1> QED
    BY <1>9, <1>10, <1>11, <1>12

\* getNextSnapshot's second look at pred, and the callback on curr.
LEMMA RecheckSolo ==
    ASSUME Inv, Inv', ListStep, NEW t \in Threads, Still(t), OwnMerge(t), Searched(t),
           Recheck(t)
    PROVE  /\ Still(t)' /\ OwnMerge(t)' /\ Searched(t)'
           /\ call[t].op = "allocate" /\ pc'[t] = "idle" => ~ \E x : Fitting(t, x)
<1>1. Types
    BY InvSays
<1>2. pc[t] = "recheck" /\ UNCHANGED nodes
    BY <1>1, RecheckDoes
<1>3. pc[t] \in Walking /\ pc[t] \in CurrRead /\ pc[t] \notin {"markTail", "join"}
    BY <1>2 DEF Walking, CurrRead
<1> DEFINE p == pred[t].place
           c == curr[t].place
<1>4. /\ p \in FreeNodes \cup {0} /\ pred[t].node = nodes[p] /\ nodes[p].next = c
      /\ c \in FreeNodes /\ curr[t].node = nodes[c]
    BY <1>2, <1>3, WalkFacts
<1>5. ~ isModified(pred[t]) /\ ~ isModified(curr[t])
    BY <1>3 DEF Still
<1>6. pred[t].node.status = {} /\ curr[t].node.status = {}
    BY <1>3, <1>4, NoFlags
<1>7. ~ isJoinHead(pred[t].node) /\ ~ isJoinHead(curr[t].node) /\ ~ isJoinTail(curr[t].node)
    BY <1>6 DEF isJoinHead, isJoinTail
<1>8. \/ isJoinable(p, nodes[p]) /\ Goto(t, "markHead")
      \/ ~ isJoinable(p, nodes[p]) /\ Visit(t, curr[t])
    BY <1>4, <1>5, <1>7 DEF Recheck, Stale, index
<1>9. /\ pc'[t] # "head"
      /\ pc'[t] = "idle" => /\ ~ isJoinable(p, nodes[p])
                            /\ ~ Accepts(t, curr[t].node) /\ nodes[c].next = NodeCount
  <2>1. CASE isJoinable(p, nodes[p]) /\ Goto(t, "markHead")
      BY <1>1, <2>1 DEF Goto, Types
  <2>2. CASE ~ isJoinable(p, nodes[p]) /\ Visit(t, curr[t])
      BY <1>1, <1>4, <2>2, VisitEnds
  <2> QED
      BY <1>8, <2>1, <2>2
<1>10. ~ Restarts(t)
    BY <1>1, <1>9, Moved DEF Restarts
<1>11. \/ Moves(t, "markHead", call[t], pred[t], curr[t])
       \/ Visits(t, curr[t]) /\ ~ isJoinable(p, nodes[p])
    BY <1>1, <1>4, <1>7, <1>10, RecheckDoes
<1>12. nodes[c].count \in Nat /\ call[t].need \in Nat /\ call[t].retry >= 0 /\ NoCall.retry >= 0
  <2>1. call[t].retry >= 0
      BY DEF Still
  <2> QED
      BY <1>1, <1>4, <2>1, ChunksAre, CallFields, Retries
<1>13. call[t].op = "allocate" =>
         /\ \A x : Fitting(t, x) => x >= p
         /\ nodes[p].count <= call[t].need
         /\ ~ Accepts(t, curr[t].node) => nodes[c].count <= call[t].need
  <2>1. call[t].op = "allocate" /\ ~ Accepts(t, curr[t].node) => nodes[c].count <= call[t].need
      BY <1>4, <1>6, <1>12, Refuses
  <2>2. call[t].op = "allocate" => /\ \A x : Fitting(t, x) => x >= p
                                   /\ nodes[p].count <= call[t].need
      BY <1>2, <1>3, <1>4 DEF Searched
  <2> QED
      BY <2>1, <2>2
<1>14. call[t].op = "allocate" /\ ~ isJoinable(p, nodes[p])
          => \A x : Fitting(t, x) => x >= c
  <2>1. SUFFICES ASSUME call[t].op = "allocate", ~ isJoinable(p, nodes[p]),
                        NEW x, Fitting(t, x)
                 PROVE  x >= c
      OBVIOUS
  <2>2. p <= x
      BY <1>4, <1>13, <2>1, ChunksAre DEF Fitting
  <2> QED
      BY <1>4, <1>12, <1>13, <2>1, <2>2, NoRoomAt
<1>15. call[t].op = "allocate" /\ pc'[t] = "idle" => ~ \E x : Fitting(t, x)
  <2>1. SUFFICES ASSUME call[t].op = "allocate", pc'[t] = "idle", NEW x, Fitting(t, x)
                 PROVE  FALSE
      OBVIOUS
  <2>2. c <= x
      BY <1>4, <1>9, <1>14, <2>1, ChunksAre DEF Fitting
  <2> QED
      BY <1>4, <1>9, <1>12, <1>13, <2>1, <2>2, NoRoomAt
<1>16. CASE Moves(t, "markHead", call[t], pred[t], curr[t])
    BY <1>2, <1>3, <1>4, <1>5, <1>13, <1>15, <1>16, ReadSolo
<1>17. NoHeadMade
    BY <1>1, <1>2, WriteMakesNone
<1>18. CASE /\ Accepts(t, curr[t].node)
            /\ Moves(t, IF Releasing(t) THEN "link" ELSE "take", call[t], None, curr[t])
  <2>1. pc'[t] \in {"link", "take"} /\ call'[t] = call[t] /\ curr'[t] = curr[t]
      BY <1>1, <1>18, Moved
  <2>2. ~ isModified(curr[t])'
      BY <1>2, <1>5, <2>1 DEF isModified
  <2>3. pc'[t] \notin Walking
      BY <2>1 DEF Walking
  <2> QED
      BY <1>3, <1>12, <1>15, <1>17, <2>1, <2>2, <2>3, SoloElsewhere
<1>19. CASE /\ ~ Accepts(t, curr[t].node) /\ ~ isJoinable(p, nodes[p])
            /\ Moves(t, "next", call[t], curr[t], None)
  <2>1. call[t].op = "allocate" =>
           /\ \A x : Fitting(t, x) => x >= curr[t].place
           /\ curr[t].node.count <= call[t].need
      BY <1>4, <1>13, <1>14, <1>19
  <2> QED
      BY <1>2, <1>3, <1>5, <1>15, <1>19, <2>1, ReadSolo
<1>20. CASE Fails(t)
  <2>1. Moves(t, "idle", NoCall, None, None) /\ "idle" \notin Walking \cup CurrRead
      BY <1>20 DEF Fails, Walking, CurrRead, Linking
  <2> QED
      BY <1>3, <1>12, <1>15, <1>17, <2>1, SoloLeaves
<1> QED
    BY <1>11, <1>16, <1>18, <1>19, <1>20 DEF Visits

\* joinNodesIfNeed: two free blocks that touch become one.
LEMMA JoinSolo ==
    ASSUME Inv, Inv', ListStep, NEW t \in Threads, Still(t), OwnMerge(t), Searched(t), Join(t)
    PROVE  /\ Still(t)' /\ OwnMerge(t)' /\ Searched(t)'
           /\ call[t].op = "allocate" /\ pc'[t] = "idle" => ~ \E x : Fitting(t, x)
<1>1. Types /\ ListWords
    BY InvSays
<1>2. pc[t] = "join" /\ pc[t] \in Walking /\ pc[t] \in CurrRead
    BY <1>1, JoinDoes DEF Walking, CurrRead
<1> DEFINE p == pred[t].place
           c == curr[t].place
           w == join(pred[t].node, curr[t].node)
           s == [pred[t] EXCEPT !.node = w]
<1>3. /\ pred[t] \in [place : Indices, node : Words] /\ p \in FreeNodes
      /\ pred[t].node = nodes[p] /\ nodes[p].next = c /\ isJoinable(p, nodes[p])
      /\ c \in FreeNodes /\ curr[t].node = nodes[c] /\ c # p
      /\ isJoinHead(nodes[p]) /\ ~ isJoinTail(nodes[p])
    BY <1>2, WalkFacts
<1>4. /\ p \in Nat /\ c \in Nat /\ nodes[p].count \in Nat /\ nodes[c].count \in Nat
      /\ p \in Indices /\ c \in Indices /\ nodes[p] \in Words /\ nodes[c] \in Words
  <2>1. p \in Indices /\ c \in Indices
      BY <1>1, <1>3, PlacesAre DEF ListWords
  <2> QED
      BY <1>1, <1>3, <2>1, ChunksAre DEF Types
<1>5. /\ w.next = nodes[c].next /\ w.count = nodes[p].count + nodes[c].count
      /\ w.count \in Nat /\ w.status = {}
  <2>1. w.next = nodes[c].next /\ w.count = nodes[p].count + nodes[c].count
        /\ w.status = (nodes[p].status \ {JOIN_HEAD}) \cup (nodes[c].status \ {JOIN_TAIL})
      BY <1>3 DEF join
  <2>2. ~ isJoinHead(nodes[c])
      BY <1>3 DEF OwnMerge
  <2>3. nodes[p].status \in SUBSET {JOIN_HEAD, JOIN_TAIL}
        /\ nodes[c].status \in SUBSET {JOIN_HEAD, JOIN_TAIL}
      BY <1>4, WordParts
  <2>4. nodes[p].status \ {JOIN_HEAD} = {} /\ nodes[c].status \ {JOIN_TAIL} = {}
      BY <1>3, <2>2, <2>3 DEF isJoinHead, isJoinTail
  <2>5. w.status = {}
      BY <2>1, <2>4
  <2> QED
      BY <1>4, <2>1, <2>5
<1>6. ~ isModified(pred[t])
    BY <1>2 DEF Still
<1>7. Swap(pred[t], w) /\ Visit(t, s)
    BY <1>6 DEF Join
<1>8. s.place = p /\ s.node = w
    BY <1>3
<1>9. /\ pc'[t] # "head"
      /\ pc'[t] = "idle" => ~ Accepts(t, w) /\ w.next = NodeCount
    BY <1>1, <1>7, <1>8, VisitEnds
<1>10. Set(p, w) /\ Visits(t, s)
  <2>1. ~ Restarts(t)
      BY <1>1, <1>9, Moved DEF Restarts
  <2> QED
      BY <1>1, <2>1, JoinDoes
<1>11. nodes'[p] = w /\ \A j \in Indices \ {p} : nodes'[j] = nodes[j]
    BY <1>1, <1>4, <1>10, Written
<1>12. FreeNodes' = FreeNodes \ {c}
    BY <1>3, <1>10, JoinReaches
<1> HIDE DEF w
<1>13. \A x : x \in FreeChunks' => x \in FreeChunks
  <2>1. SUFFICES ASSUME NEW x, x \in FreeChunks'
                 PROVE  x \in FreeChunks
      OBVIOUS
  <2>2. PICK i \in FreeNodes' : x \in i .. i + nodes'[i].count - 1
      BY <2>1 DEF FreeChunks
  <2>3. CASE i = p
    <3>1. x \in Int /\ p <= x /\ x < p + (nodes[p].count + nodes[c].count)
        BY <1>4, <1>5, <1>11, <2>2, <2>3
    <3>2. c = p + nodes[p].count
        BY <1>3 DEF isJoinable
    <3>3. x \in p .. p + nodes[p].count - 1 \/ x \in c .. c + nodes[c].count - 1
        BY <1>4, <3>1, <3>2
    <3> QED
        BY <1>3, <3>3 DEF FreeChunks
  <2>4. CASE i # p
    <3>1. i \in FreeNodes /\ nodes'[i] = nodes[i]
        BY <1>1, <1>11, <1>12, <2>4, PlacesAre DEF ListWords
    <3> QED
        BY <2>2, <3>1 DEF FreeChunks
  <2> QED
      BY <2>3, <2>4
<1>14. OwnMerge(t)'
  <2>1. ASSUME NEW j \in FreeNodes'
        PROVE  ~ isJoinHead(nodes'[j])
    <3>1. CASE j = p
        BY <1>5, <1>11, <3>1 DEF isJoinHead
    <3>2. CASE j # p
      <4>1. j \in FreeNodes /\ nodes'[j] = nodes[j]
          BY <1>1, <1>11, <1>12, <3>2, PlacesAre DEF ListWords
      <4> QED
          BY <3>2, <4>1 DEF OwnMerge
    <3> QED
        BY <3>1, <3>2
  <2> QED
      BY <2>1 DEF OwnMerge, isJoinHead
<1>15. call[t].need \in Nat /\ call[t].retry >= 0 /\ NoCall.retry >= 0
  <2>1. call[t].retry >= 0
      BY DEF Still
  <2> QED
      BY <1>1, <2>1, CallFields, Retries
<1>16. call[t].op = "allocate" /\ ~ Accepts(t, w) => w.count <= call[t].need
    BY <1>5, <1>15, Refuses
<1>17. call[t].op = "allocate" => \A x : Fitting(t, x) => x >= p
    BY <1>2 DEF Searched
<1>18. call[t].op = "allocate" /\ pc'[t] = "idle" => ~ \E x : Fitting(t, x)
  <2>1. SUFFICES ASSUME call[t].op = "allocate", pc'[t] = "idle", NEW x, Fitting(t, x)
                 PROVE  FALSE
      OBVIOUS
  <2>2. p <= x /\ nodes[c].next = NodeCount
      BY <1>4, <1>5, <1>9, <1>17, <2>1, ChunksAre DEF Fitting
  <2>3. nodes[p].count + nodes[c].count > call[t].need
      BY <1>3, <1>15, <2>1, <2>2, NoRoomInBoth
  <2>4. nodes[p].count + nodes[c].count <= call[t].need
      BY <1>5, <1>9, <1>16, <2>1
  <2> QED
      BY <1>4, <1>15, <2>3, <2>4
<1> HIDE DEF s
<1>19. ASSUME NEW label, NEW q, NEW r, NEW f, Moves(t, label, f, q, r), f.retry >= 0,
              label \in Walking => q = s, label \in CurrRead => r = s,
              label \in Walking => label = "next" /\ f = call[t] /\ ~ Accepts(t, w)
       PROVE  Still(t)' /\ Searched(t)'
  <2>1. pc'[t] = label /\ call'[t] = f /\ pred'[t] = q /\ curr'[t] = r
      BY <1>1, <1>19, Moved
  <2>2. nodes'[s.place] = s.node
      BY <1>8, <1>11
  <2>3. Still(t)'
      BY <1>19, <2>1, <2>2 DEF Still, isModified
  <2>4. Searched(t)'
    <3>1. CASE label \in Walking
      <4>1. pred'[t].place = p /\ pred'[t].node = w /\ call'[t] = call[t]
          BY <1>8, <1>19, <2>1, <3>1
      <4>2. \A x : Fitting(t, x)' => Fitting(t, x)
        <5>1. SUFFICES ASSUME NEW x, Fitting(t, x)'
                       PROVE  Fitting(t, x)
            OBVIOUS
        <5>2. x \in FreeChunks' /\ x .. x + call[t].need \subseteq FreeChunks'
            BY <4>1, <5>1 DEF Fitting
        <5> QED
            BY <1>13, <5>2 DEF Fitting
      <4> QED
          BY <1>16, <1>17, <1>19, <3>1, <4>1, <4>2 DEF Searched
    <3>2. CASE label \notin Walking
      <4>1. pc'[t] \notin {"next", "recheck", "markHead"}
          BY <2>1, <3>2 DEF Walking
      <4> QED
          BY <2>1, <3>2, <4>1 DEF Searched
    <3> QED
        BY <3>1, <3>2
  <2> QED
      BY <2>3, <2>4
<1>20. CASE /\ Accepts(t, w)
            /\ Moves(t, IF Releasing(t) THEN "link" ELSE "take", call[t], None, s)
  <2>1. "link" \notin Walking /\ "take" \notin Walking
      BY DEF Walking
  <2> QED
      BY <1>14, <1>15, <1>18, <1>19, <1>20, <2>1
<1>21. CASE ~ Accepts(t, w) /\ Moves(t, "next", call[t], s, None)
  <2>1. "next" \notin CurrRead
      BY DEF CurrRead, Linking
  <2> QED
      BY <1>14, <1>15, <1>18, <1>19, <1>21, <2>1
<1>22. CASE Fails(t)
  <2>1. Moves(t, "idle", NoCall, None, None) /\ "idle" \notin Walking \cup CurrRead
      BY <1>22 DEF Fails, Walking, CurrRead, Linking
  <2> QED
      BY <1>14, <1>15, <1>18, <1>19, <2>1
<1> QED
    BY <1>8, <1>10, <1>20, <1>21, <1>22 DEF Visits

-----------------------------------------------------------------------------
(* Every step *)

\* What FailsOnlyWhenFull says of a step.
RefusedWhenFull ==
    \A t \in Threads :
        call[t].op = "allocate" /\ pc[t] # "initRef" /\ pc'[t] = "idle" =>
            ~ \E x \in FreeChunks : x .. x + call[t].need \subseteq FreeChunks

\* A thread's own step keeps what it knows of its walk.
LEMMA StepSolo ==
    ASSUME Inv, Inv', ListStep, NEW t \in Threads, Still(t), OwnMerge(t), Searched(t),
           Call(t) \/ Step(t)
    PROVE  /\ Still(t)' /\ OwnMerge(t)' /\ Searched(t)'
           /\ call[t].op = "allocate" /\ pc[t] # "initRef" /\ pc'[t] = "idle"
              => ~ \E x : Fitting(t, x)
<1>1. Types /\ LocatedAt(t)
    BY InvSays DEF Located
<1>2. CASE Call(t)
  <2>1. pc[t] = "idle"
      BY <1>2 DEF Call, CallAllocate, CallOnReference, CallOnParked, CallRacyDup, Begin
  <2>2. call[t].op # "allocate"
      BY <1>1, <2>1 DEF LocatedAt, NoCall
  <2> QED
      BY <1>2, <2>2, CallSolo
<1>3. CASE Head(t) \/ NextSnapshot(t) \/ MarkHead(t) \/ MarkTail(t)
    BY <1>3, HeadSolo, NextSnapshotSolo, MarkSolo
<1>4. CASE Recheck(t) \/ Join(t)
    BY <1>4, RecheckSolo, JoinSolo
<1>5. CASE Take(t) \/ InitVersion(t) \/ InitCount(t) \/ InitRef(t)
  <2>1. pc[t] = "initRef" \/ pc'[t] # "idle"
      BY <1>1, <1>5 DEF Take, InitVersion, InitCount, InitRef, Goto, Types
  <2> QED
      BY <1>5, <2>1, CarveSolo
<1>6. CASE \/ DupRead(t) \/ DupCas(t) \/ DupNewRead(t) \/ DupNewCas(t)
           \/ UndupRead(t) \/ UndupCas(t)
  <2>1. pc[t] \in {"dup", "dupCas", "dupNew", "dupNewCas", "undup", "undupCas"}
      BY <1>6 DEF DupRead, DupCas, DupNewRead, DupNewCas, UndupRead, UndupCas
  <2>2. call[t].op # "allocate"
      BY <1>1, <2>1 DEF LocatedAt, Releasing
  <2> QED
      BY <1>6, <2>2, RefSolo
<1>7. CASE Link(t) \/ LinkStatus(t) \/ BumpVersion(t) \/ Publish(t) \/ Undo(t)
  <2>1. pc[t] \in Linking
      BY <1>7 DEF Link, LinkStatus, BumpVersion, Publish, Undo, Linking
  <2>2. call[t].op # "allocate"
      BY <1>1, <2>1 DEF LocatedAt, Releasing
  <2> QED
      BY <1>7, <2>2, LinkSolo
<1> QED
    BY <1>2, <1>3, <1>4, <1>5, <1>6, <1>7 DEF Step

\* Nobody writes under a lone thread's snapshots: TagsHold comes for nothing.
LEMMA SoloTags ==
    ASSUME Solo
    PROVE  TagsHold
<1>1. SUFFICES ASSUME NEW t \in Threads, NEW snap \in Armed(t)
               PROVE  ~ isModified(snap)
    BY DEF TagsHold, isModified
<1>2. Still(t)
    BY DEF Solo
<1>3. {"markTail", "take"} \cup (Linking \ {"undo"}) \subseteq CurrRead
    BY DEF CurrRead
<1> QED
    BY <1>1, <1>2, <1>3 DEF Armed, Still

LEMMA InitSolo ==
    ASSUME Init
    PROVE  Solo
<1>1. \A t \in Threads : pc[t] = "idle" /\ call[t] = NoCall
    BY DEF Init
<1>2. \A i \in FreeNodes : nodes[i].status = {}
  <2>1. \A i \in FreeNodes : i \in Indices
      BY PlacesAre DEF FreeNodes, Reached
  <2> QED
      BY <2>1 DEF Init, AVAILABLE
<1>3. "idle" \notin Walking \cup CurrRead /\ NoCall.retry >= 0 /\ NoCall.op # "allocate"
    BY DEF Walking, CurrRead, Linking, NoCall
<1> QED
    BY <1>1, <1>2, <1>3 DEF Solo, Still, OwnMerge, Searched, isJoinHead

LEMMA NextSolo ==
    ASSUME DupsAreSafe, OneThread, Inv, Solo, CountsFit, Next
    PROVE  Inv' /\ Solo' /\ RefusedWhenFull
<1>1. Inv' /\ ListStep
    BY SoloTags, NextInv
<1>2. PICK t \in Threads : Call(t) \/ Step(t)
    BY DEF Next
<1>3. \A u \in Threads : u = t
    BY DEF OneThread
<1>4. /\ Still(t)' /\ OwnMerge(t)' /\ Searched(t)'
      /\ call[t].op = "allocate" /\ pc[t] # "initRef" /\ pc'[t] = "idle"
         => ~ \E x : Fitting(t, x)
    BY <1>1, <1>2, StepSolo DEF Solo
<1>5. Solo'
  <2>1. ASSUME NEW u \in Threads
        PROVE  Still(u)' /\ OwnMerge(u)' /\ Searched(u)'
    <3>1. u = t
        BY <1>3
    <3> QED
        BY <1>4, <3>1
  <2> QED
      BY <2>1 DEF Solo
<1>6. RefusedWhenFull
    BY <1>3, <1>4 DEF RefusedWhenFull, Fitting
<1> QED
    BY <1>1, <1>5, <1>6

LEMMA StutterSolo ==
    ASSUME Inv, Solo, UNCHANGED vars
    PROVE  Inv' /\ Solo'
<1>1. Inv'
    BY StutterInv
<1>2. nodes' = nodes /\ pc' = pc /\ call' = call /\ pred' = pred /\ curr' = curr
    BY DEF vars
<1>3. FreeNodes' = FreeNodes /\ FreeChunks' = FreeChunks
    BY <1>2, ChunksKept
<1>4. ASSUME NEW t \in Threads
      PROVE  Still(t)' /\ OwnMerge(t)' /\ Searched(t)'
    BY <1>2, <1>3 DEF Solo, Still, OwnMerge, Searched, Fitting, isModified, isJoinHead
<1> QED
    BY <1>1, <1>4 DEF Solo

LEMMA SoloStays ==
    DupsAreSafe /\ OneThread =>
        (Inv /\ Solo /\ [Next]_vars /\ [CountsFit]_vars
            => Inv' /\ Solo' /\ [RefusedWhenFull]_vars)
<1>1. ASSUME DupsAreSafe, OneThread, Inv, Solo, CountsFit, Next
      PROVE  Inv' /\ Solo' /\ RefusedWhenFull
    BY <1>1, NextSolo
<1>2. ASSUME Inv, Solo, UNCHANGED vars
      PROVE  Inv' /\ Solo'
    BY <1>2, StutterSolo
<1> QED
    BY <1>1, <1>2

\* A thread on its own never finds that a word has changed since it read it,
\* never starts findCandidate again, and leaves nothing that fits behind; and
\* it needs no bound on the versions for the invariant of the table.
THEOREM LoneWalk ==
    ASSUME DupsAreSafe, OneThread
    PROVE  Spec /\ [][CountsFit]_vars => [](Inv /\ Solo)
<1>1. Init => Inv /\ Solo
    BY InitInv, InitSolo
<1>2. Inv /\ Solo /\ [Next]_vars /\ [CountsFit]_vars => (Inv /\ Solo)'
    BY SoloStays
<1> QED
    BY <1>1, <1>2, PTL DEF Spec

\* allocate of a thread on its own is refused only if no need + 1 consecutive
\* chunks are free: whatever it allocated, released and merged before, in
\* whatever order, findCandidate misses no space.
THEOREM RefusedOnlyWhenFull ==
    ASSUME DupsAreSafe, OneThread
    PROVE  Spec /\ [][CountsFit]_vars => FailsOnlyWhenFull
<1>1. Inv /\ Solo /\ [Next]_vars /\ [CountsFit]_vars => [RefusedWhenFull]_vars
    BY SoloStays
<1>2. Spec /\ [][CountsFit]_vars => [][RefusedWhenFull]_vars
    BY <1>1, LoneWalk, PTL DEF Spec
<1> QED
    BY <1>2 DEF RefusedWhenFull, FailsOnlyWhenFull

=============================================================================
