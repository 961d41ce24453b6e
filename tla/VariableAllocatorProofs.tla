----------------------- MODULE VariableAllocatorProofs -----------------------
(***************************************************************************)
(* What the variable-length allocator guarantees for any number of         *)
(* threads, nodes, versions, references and calls, and any request sizes.  *)
(***************************************************************************)
EXTENDS VariableAllocatorWalkProofs

USE DEF Base, index, Matches

-----------------------------------------------------------------------------
(* allocate *)

\* A node of the list changes its size.
LEMMA CountList ==
    ASSUME Inv, NEW i \in FreeNodes, NEW n \in Nat, Set(i, changeCount(nodes[i], n))
    PROVE  /\ FreeNodes' = FreeNodes /\ Root'
           /\ FreeBlocks' = [FreeBlocks EXCEPT ![i].count = n]
           /\ i \in Indices /\ nodes'[i] # nodes[i] /\ nodes'[i].status = nodes[i].status
           /\ \A j \in Indices \ {i} : nodes'[j] = nodes[j]
           /\ nodes' \in [Indices -> Words]
<1> DEFINE w == changeCount(nodes[i], n)
<1>1. i \in Indices /\ i # 0 /\ nodes[i] \in Words
    BY InvSays, PlacesAre, SnapIs DEF ListWords
<1>2. w \in Words /\ w # nodes[i] /\ w.next = nodes[i].next /\ w.count = n
      /\ w.status = nodes[i].status
    BY <1>1, CountWord
<1> HIDE DEF w
<1>3. nodes'[i] = w /\ (\A j \in Indices \ {i} : nodes'[j] = nodes[j])
      /\ nodes' \in [Indices -> Words]
    BY <1>1, <1>2, InvSays, Written DEF w
<1>4. FreeNodes \subseteq Indices /\ 0 \in Indices
    BY InvSays, PlacesAre DEF ListWords
<1>5. FreeNodes' = FreeNodes
  <2>1. \A j \in FreeNodes \cup {0} : nodes'[j].next = nodes[j].next
      BY <1>2, <1>3, <1>4
  <2> QED
      BY <2>1, InvSays, FreeSame
<1>6. FreeBlocks' = [FreeBlocks EXCEPT ![i].count = n]
  <2>1. FreeBlocks' = [j \in FreeNodes |-> [next |-> nodes'[j].next, count |-> nodes'[j].count,
                                            status |-> nodes'[j].status]]
      BY <1>5 DEF FreeBlocks
  <2>2. ASSUME NEW j \in FreeNodes
        PROVE  FreeBlocks'[j] = [FreeBlocks EXCEPT ![i].count = n][j]
    <3>1. CASE j = i
        BY <1>2, <1>3, <2>1, <3>1 DEF FreeBlocks
    <3>2. CASE j # i
        BY <1>3, <1>4, <2>1, <3>2 DEF FreeBlocks
    <3> QED
        BY <3>1, <3>2
  <2>3. FreeBlocks = [j \in FreeNodes |-> FreeBlocks[j]]
      BY DEF FreeBlocks
  <2>4. DOMAIN FreeBlocks = FreeNodes /\ DOMAIN FreeBlocks' = FreeNodes
      BY <2>1 DEF FreeBlocks
  <2> HIDE DEF FreeBlocks
  <2> QED
      BY <2>1, <2>2, <2>3, <2>4
<1>7. Root'
  <2>1. nodes'[0] = nodes[0]
      BY <1>1, <1>3, <1>4
  <2> QED
      BY <2>1, InvSays DEF Root
<1> QED
    BY <1>1, <1>2, <1>3, <1>5, <1>6, <1>7

\* Where a block is carved: within a node of the list, past its first chunk.
LEMMA CarvedFrom ==
    ASSUME Inv, NEW i \in FreeNodes, NEW rest \in Nat \ {0}, rest < nodes[i].count
    PROVE  /\ i + rest \in Indices /\ i + rest \in Places
           /\ i + rest \notin FreeNodes /\ i + rest \notin UsedNodes /\ i + rest # i
<1>1. /\ i \in Nat /\ i \in Indices /\ i >= 1 /\ NodeCount \in Nat
      /\ \A j \in FreeNodes : j \in Nat
    BY PlacesAre, InvSays DEF ListWords, Places
<1>2. nodes[i].count \in Nat /\ nodes[i].next \in Nat
    BY <1>1, InvSays, SnapIs, WordParts
<1>3. i + nodes[i].count <= nodes[i].next /\ nodes[i].next <= NodeCount
  <2>1. nodes[i].next \in FreeNodes \cup {NodeCount}
      BY InvSays DEF ListWords
  <2>2. \A j \in FreeNodes : j < NodeCount
      BY PlacesAre, InvSays DEF ListWords
  <2> QED
      BY <1>1, <1>2, <2>1, <2>2, InvSays DEF ListWords
<1>4. i + rest \in Nat /\ i < i + rest /\ i + rest < nodes[i].next /\ i + rest < NodeCount
    BY <1>1, <1>2, <1>3
<1>5. i + rest \notin FreeNodes
  <2>1. \A j \in FreeNodes : i < j => nodes[i].next <= j
      BY InvSays DEF ListWords
  <2> QED
      BY <1>1, <1>2, <1>4, <2>1
<1>6. i + rest \notin UsedNodes
  <2>1. \A b \in UsedNodes :
           /\ UsedBlock(b).count \in Nat /\ UsedBlock(b).count > 0 /\ b \in Nat
           /\ (b + UsedBlock(b).count <= i \/ i + nodes[i].count <= b)
      BY InvSays, Apart DEF Blocks
  <2> QED
      BY <1>1, <1>2, <2>1
<1> QED
    BY <1>1, <1>4, <1>5, <1>6, PlacesAre DEF Places

\* A block is carved: the list and the blocks, and what others know of them.
LEMMA CarveOk ==
    ASSUME Inv, NEW t \in Threads, pc[t] = "take", NEW i \in FreeNodes,
           isAvailable(nodes[i]), NEW need \in Needs, need < nodes[i].count,
           NEW rest, rest = nodes[i].count - need, Set(i, changeCount(nodes[i], rest)),
           UNCHANGED <<held, parked, calls>>, NEW c \in Calls,
           c = [call[t] EXCEPT !.md = [version |-> 0, index |-> i + rest]],
           call[t].need = need,
           NEW p \in Snapshots, NEW s \in Snapshots, Moves(t, "initVersion", c, p, s)
    PROVE  /\ Types' /\ Respects(t) /\ Exclusive' /\ RefWords' /\ Root' /\ List!Inv' /\ ListStep
           /\ LocatedAt(t)'
<1>0. ~ Releasing(t) /\ call[t].op = "allocate" /\ ~ call[t].carries /\ call[t].md = None
      /\ ~ Alone(t)
  <2>1. pc[t] \in {"head", "take"} \cup Walking \cup Linking /\ ~ Carving(t)
      BY DEF Carving
  <2> QED
      BY <2>1, InvSays, Doing DEF Alone
<1>1. /\ need \in Nat /\ need > 0 /\ rest \in Nat \ {0} /\ rest < nodes[i].count
      /\ nodes[i].count \in Nat
  <2>1. nodes[i].count \in Nat
      BY PlacesAre, InvSays, SnapIs, WordParts DEF ListWords
  <2> QED
      BY <2>1, AmountsAssumption
<1> DEFINE b == i + rest
           md == [version |-> 0, index |-> b]
<1>2. b \in Indices /\ b \in Places /\ b \notin FreeNodes /\ b \notin UsedNodes /\ b # i
    BY <1>1, CarvedFrom
<1>3. md \in Descriptors
  <2>1. 0 \in Versions
      BY VersionModAssumption DEF Versions
  <2> QED
      BY <1>2, <2>1 DEF Descriptors
<1>4. c.md = md /\ c.op = "allocate" /\ c.need = need /\ ~ c.carries
  <2>1. call[t] \in Calls
      BY InvSays DEF Types
  <2> QED
      BY <1>0, <1>3, <2>1, CallFields, InvSays
<1>5. /\ FreeNodes' = FreeNodes /\ Root'
      /\ FreeBlocks' = [FreeBlocks EXCEPT ![i].count = rest]
      /\ i \in Indices /\ nodes'[i] # nodes[i] /\ nodes'[i].status = nodes[i].status
      /\ \A j \in Indices \ {i} : nodes'[j] = nodes[j]
      /\ nodes' \in [Indices -> Words]
    BY <1>1, CountList
<1>6. pc'[t] = "initVersion" /\ call'[t] = c /\ Others(t)
    BY InvSays, Moved DEF Others
<1>7. Carving(t)' /\ Alone(t)' /\ ~ Owning(t)' /\ Base(t)' = b /\ ~ call'[t].carries
    BY <1>4, <1>6 DEF Carving, Alone, Owning
<1> HIDE DEF b
<1>8. LocatedAt(t)'
    BY <1>3, <1>4, <1>6 DEF LocatedAt, Carving, Walking, Linking
<1>9. RefsKept /\ Bagged'
    BY <1>0, <1>6, <1>7, InvSays, RefsSame
<1>10. Types' /\ Located'
  <2>1. "initVersion" \in Labels /\ parked' \subseteq Descriptors /\ calls' \in 0 .. MaxCalls
      BY InvSays DEF Labels, Types
  <2> QED
      BY <1>5, <1>6, <1>8, <1>9, <2>1, InvSays, TypesNext, LocatedNext
<1>11. Alive' = Alive /\ \A x : Shared(x)' <=> Shared(x)
    BY <1>9, <1>10, AliveKept DEF Shared
<1>12. /\ \A u \in Threads \ {t} : /\ (Alone(u)' <=> Alone(u)) /\ (Owning(u)' <=> Owning(u))
                                   /\ Base(u)' = Base(u)
       /\ \A x : Single(x)' <=> Single(x) \/ x = b
    BY <1>0, <1>6, <1>7, ElsewhereStays
<1>13. UsedNodes' = UsedNodes \cup {b}
  <2>1. UsedMeans' /\ UsedMeans
      BY <1>10, InvSays, UsedIsNext
  <2>2. \A x : x \in UsedNodes' <=> x \in UsedNodes \cup {b}
      BY <1>11, <1>12, <2>1 DEF UsedMeans
  <2> QED
      BY <2>2
<1>14. Exclusive'
  <2>1. \A u \in Threads : Alone(u) => Base(u) \in UsedNodes
      BY InvSays DEF UsedMeans, Single
  <2>2. ~ Shared(b)
      BY <1>2, InvSays DEF UsedMeans
  <2>3. Exclusive
      BY InvSays
  <2> QED
      BY <1>2, <1>7, <1>11, <1>12, <2>1, <2>2, <2>3 DEF Exclusive
<1>15. \A x \in UsedNodes : x \in Indices /\ x # i /\ x # b /\ nodes'[x] = nodes[x]
    BY <1>2, <1>5, InvSays
<1>16. RefWords'
  <2>1. \A d \in Alive \cup parked : d.index \in UsedNodes
      BY InvSays DEF UsedMeans, Shared
  <2>2. RefWords
      BY InvSays
  <2> QED
      BY <1>9, <1>11, <1>15, <2>1, <2>2 DEF RefWords, RefsKept
<1>17. UsedBlocks' = List!Put(UsedBlocks, b, [count |-> need, refs |-> 1])
  <2>1. BlockMeans'
      BY <1>10, <1>14, BlockIsNext
  <2>2. UsedBlock(b)' = [count |-> need, refs |-> 1]
    <3>1. b = Base(t)'
        BY <1>7
    <3>2. (UsedBlock(Base(t)))' = [count |-> call'[t].need, refs |-> 1]
        BY <1>7, <2>1 DEF BlockMeans
    <3> QED
        BY <1>4, <1>6, <3>1, <3>2
  <2>3. ASSUME NEW x \in UsedNodes
        PROVE  UsedBlock(x)' = UsedBlock(x)
      BY <1>0, <1>6, <1>7, <1>15, BlockStays
  <2>4. UsedBlocks' = [x \in UsedNodes \cup {b} |-> UsedBlock(x)']
      BY <1>13 DEF UsedBlocks
  <2>5. UsedBlocks = [x \in UsedNodes |-> UsedBlock(x)]
      BY DEF UsedBlocks
  <2>6. DOMAIN UsedBlocks = UsedNodes /\ \A x \in UsedNodes : UsedBlocks[x] = UsedBlock(x)
      BY <2>5
  <2> HIDE DEF UsedBlocks
  <2> QED
      BY <1>2, <2>2, <2>3, <2>4, <2>6 DEF List!Put
<1>18. List!Inv' /\ ListStep
  <2>1. /\ DOMAIN FreeBlocks = FreeNodes /\ FreeBlocks[i].count = nodes[i].count
        /\ FreeBlocks[i].status = nodes[i].status
      BY DEF FreeBlocks
  <2>2. List!Allocate(i, need)
      BY <1>1, <1>5, <1>17, <2>1
      DEF List!Allocate, List!isAvailable, isAvailable, List!AVAILABLE, AVAILABLE, b
  <2>3. List!Inv /\ List!Next
      BY <2>1, <2>2 DEF Inv, List!Next
  <2> QED
      BY <2>3, ListSteps
<1>19. Respects(t)
  <2>1. \A u \in Threads \ {t} : Alone(u) => nodes'[Base(u)] = nodes[Base(u)]
      BY <1>15, InvSays DEF UsedMeans, Single
  <2>2. ASSUME NEW d \in Indices, Joined(d), nodes'[d] = nodes[d]
        PROVE  Joined(d)'
    <3>1. CASE d \in FreeNodes
      <4>1. PICK q \in FreeNodes : nodes[q].next = d /\ isJoinHead(nodes[q])
          BY <2>2, <3>1 DEF Joined
      <4>2. q # i /\ q \in Indices
          BY <4>1, PlacesAre, InvSays DEF ListWords, isJoinHead, isAvailable, AVAILABLE
      <4> QED
          BY <1>5, <3>1, <4>1, <4>2 DEF Joined, isJoinHead
    <3>2. CASE d \notin FreeNodes /\ d = b
        BY <1>5, <1>6, <1>7, <3>2 DEF Joined
    <3>3. CASE d \notin FreeNodes /\ d # b
      <4>1. \A u \in Threads :
               pc[u] = "initVersion" => pc'[u] = "initVersion" /\ Base(u)' = Base(u)
          BY <1>6 DEF Others, Same
      <4> QED
          BY <1>5, <1>13, <2>2, <3>3, <4>1 DEF Joined
    <3> QED
        BY <3>1, <3>2, <3>3
  <2>3. ASSUME NEW u \in Threads \ {t}, pc[u] = "join", ~ isModified(pred[u])
        PROVE  (~ isModified(curr[u]))'
    <3>1. nodes[curr[u].place] = curr[u].node /\ isJoinTail(curr[u].node) /\ Tame(curr[u])
        BY <2>3, InvSays DEF Followed, FollowedAt, isModified, Follows
    <3>2. curr[u].place \in Indices /\ curr[u].place # i
      <4>1. curr[u].place \in Indices
          BY <3>1, InvSays DEF Tame, Types, Snapshots
      <4> QED
          BY <3>1, <4>1 DEF isAvailable, AVAILABLE, isJoinTail
    <3>3. curr'[u] = curr[u]
        BY <1>6 DEF Others, Same
    <3> QED
        BY <1>5, <3>1, <3>2, <3>3 DEF isModified
  <2>4. \A x : Kept(x) => Kept(x)'
      BY <1>0, <1>11, <1>12 DEF Kept, Alone
  <2> QED
      BY <1>5, <1>6, <2>1, <2>2, <2>3, <2>4 DEF Respects
<1> QED
    BY <1>5, <1>8, <1>10, <1>14, <1>16, <1>18, <1>19

LEMMA TakeOk ==
    ASSUME Inv, TagsHold, DupsAreSafe, NEW t \in Threads, Take(t)
    PROVE  Inv' /\ ListStep
<1>0. SUFFICES ASSUME NEW i, i = curr[t].place, NEW rest,
                      rest = curr[t].node.count - call[t].need,
                      NEW c, c = [call[t] EXCEPT !.md = [version |-> 0, index |-> i + rest]]
               PROVE  Inv' /\ ListStep
    OBVIOUS
<1>1. pc[t] = "take" /\ UNCHANGED <<held, parked, calls>>
    BY InvSays, TakeDoes
<1>2. /\ ~ Releasing(t) /\ call[t].op = "allocate" /\ ~ call[t].carries
      /\ call[t].md = None /\ call[t].need \in Needs
      /\ pc[t] \notin CarvingAt \cup Linking /\ Searching(t)
  <2>1. ~ Releasing(t)
      BY <1>1, InvSays, Doing
  <2> QED
      BY <1>1, <2>1, SearchFacts DEF Searching
<1>3. pred[t] \in Snapshots /\ None \in Snapshots
    BY InvSays DEF Types, Snapshots
<1>4. CASE /\ Moves(t, "head", [call[t] EXCEPT !.retry = RetryLimit], pred[t], None)
           /\ UNCHANGED nodes
  <2>1. PICK d : d = [call[t] EXCEPT !.retry = RetryLimit]
      OBVIOUS
  <2>2. d \in Calls /\ Keeping(d, call[t]) /\ d.need = call[t].need
      BY <2>1, InvSays, CallFields, RetryAssumption DEF Keeping
  <2>3. Moves(t, "head", d, pred[t], None)
      BY <1>4, <2>1
  <2>4. pc'[t] = "head" /\ call'[t] = d
      BY <2>3, InvSays, Moved
  <2>5. LocatedAt(t)'
      BY <1>2, <2>2, <2>4
      DEF LocatedAt, Searching, Keeping, Releasing, Carving, Linking, Walking
  <2> QED
      BY <1>1, <1>2, <1>3, <1>4, <2>2, <2>3, <2>5, BlankOk DEF Linking
<1>5. SUFFICES ASSUME ~ isModified(curr[t]), Set(i, changeCount(curr[t].node, rest)),
                      Moves(t, "initVersion", c, pred[t], None)
               PROVE  Inv' /\ ListStep
    BY <1>0, <1>4, InvSays, TakeDoes
<1>6. /\ Tame(curr[t]) /\ Fresh(curr[t]) /\ i # 0
      /\ isAvailable(curr[t].node) /\ curr[t].node.count > call[t].need
    BY <1>0, <1>1, InvSays DEF Chosen, ChosenAt
<1>7. curr[t] \in [place : Indices, node : Words]
    BY <1>6, InvSays DEF Tame, Types, Snapshots
<1>8. i \in FreeNodes /\ nodes[i] = curr[t].node /\ curr[t].node \in Words
    BY <1>0, <1>5, <1>6, <1>7 DEF Fresh, isModified
<1>9. curr[t].node.count \in Nat /\ call[t].need \in Nat /\ call[t].need > 0
      /\ rest \in Nat \ {0} /\ rest < nodes[i].count
  <2>1. curr[t].node.count \in Nat /\ call[t].need \in Nat /\ call[t].need > 0
    <3>1. curr[t].node.count \in Nat
        BY <1>8, WordParts
    <3>2. \A n \in Needs : n \in Nat /\ n > 0
        BY AmountsAssumption
    <3> QED
        BY <1>2, <3>1, <3>2
  <2> QED
      BY <1>0, <1>6, <1>8, <2>1
<1>10. i + rest \in Indices
    BY <1>8, <1>9, CarvedFrom
<1>11. c \in Calls /\ c.md = [version |-> 0, index |-> i + rest]
  <2>1. [version |-> 0, index |-> i + rest] \in Descriptors
    <3>1. 0 \in Versions
        BY VersionModAssumption DEF Versions
    <3> QED
        BY <1>10, <3>1 DEF Descriptors
  <2> QED
      BY <1>0, <2>1, InvSays, CallFields
<1>12. /\ Types' /\ Respects(t) /\ Exclusive' /\ RefWords' /\ Root' /\ List!Inv' /\ ListStep
       /\ LocatedAt(t)'
  <2>1. isAvailable(nodes[i]) /\ call[t].need < nodes[i].count
        /\ rest = nodes[i].count - call[t].need /\ Set(i, changeCount(nodes[i], rest))
      BY <1>0, <1>5, <1>6, <1>8, <1>9
  <2> QED
      BY <1>0, <1>1, <1>2, <1>3, <1>5, <1>8, <1>11, <2>1, CarveOk
<1>13. pc'[t] = "initVersion" /\ call'[t] = c
    BY <1>5, InvSays, Moved
<1>14. Finishes(t)'
  <2>1. ~ Owning(t)'
      BY <1>13 DEF Owning, Carving
  <2> QED
      BY <1>12, <1>13, <2>1
      DEF Finishes, OwnWord, CopiedAt, BorrowedAt, PrecededAt, FollowedAt, ChosenAt,
          Walking, Linking
<1>15. Flagged'
    BY <1>12, <1>13, FlaggedStays
<1> QED
    BY <1>12, <1>14, <1>15, Assembled

-----------------------------------------------------------------------------
(* Stores in the word of a block that the thread alone knows *)

LEMMA OwnIndex ==
    ASSUME Inv, NEW t \in Threads, Alone(t)
    PROVE  /\ Base(t) \in UsedNodes /\ Base(t) \in Indices /\ nodes[Base(t)] \in Words
           /\ Base(t) \notin FreeNodes /\ Base(t) # 0 /\ call[t].md \in Descriptors
<1>1. Base(t) \in UsedNodes
    BY InvSays DEF UsedMeans, Single
<1>2. call[t].md \in Descriptors
    BY InvSays, Doing
<1> QED
    BY <1>1, <1>2, InvSays, SnapIs

LEMMA OwnStoreOk ==
    ASSUME Inv, NEW t \in Threads, Alone(t), NEW w \in Words, Set(Base(t), w),
           NEW label \in Labels, NEW c \in Calls, NEW p \in Snapshots, NEW s \in Snapshots,
           Moves(t, label, c, p, s), c.carries <=> call[t].carries,
           Steady(t), LocatedAt(t)', UNCHANGED <<held, parked, calls>>,
           Owning(t) => w.count = nodes[Base(t)].count,
           pc[t] = "initVersion" => w # nodes[Base(t)]
    PROVE  /\ Types' /\ Respects(t) /\ Calm /\ nodes'[Base(t)] = w
           /\ pc'[t] = label /\ call'[t] = c /\ pred'[t] = p /\ curr'[t] = s
<1>1. Base(t) \in UsedNodes /\ Base(t) \in Indices
    BY OwnIndex
<1>2. /\ nodes'[Base(t)] = w /\ (\A j \in Indices \ {Base(t)} : nodes'[j] = nodes[j])
      /\ nodes' \in [Indices -> Words]
    BY <1>1, InvSays, Written
<1>3. pc'[t] = label /\ call'[t] = c /\ pred'[t] = p /\ curr'[t] = s /\ Others(t)
    BY InvSays, Moved DEF Others
<1>4. ~ call[t].carries
    BY InvSays, Doing DEF Alone, Owning
<1>5. RefsKept /\ Bagged'
    BY <1>3, <1>4, InvSays, RefsSame
<1>6. Types' /\ Located'
  <2>1. parked' \subseteq Descriptors /\ calls' \in 0 .. MaxCalls
      BY InvSays DEF Types
  <2> QED
      BY <1>2, <1>3, <1>5, <2>1, InvSays, TypesNext, LocatedNext
<1>7. OwnWrites(t)
  <2>1. UsedNodes \subseteq Indices
      BY InvSays
  <2> QED
      BY <1>2, <2>1 DEF OwnWrites
<1>8. Carried
    BY <1>2, <1>3, <1>5, <1>6, <1>7, SteadyUsed
<1>9. \A i \in Indices : i \notin UsedNodes => nodes'[i] = nodes[i]
    BY <1>1, <1>2
<1>10. Respects(t) /\ Calm
    BY <1>2, <1>3, <1>7, <1>8, <1>9, OffOk
<1> QED
    BY <1>2, <1>3, <1>6, <1>10

\* ... by a call that ends with no snapshot to rely on.
LEMMA InitVersionOk ==
    ASSUME Inv, TagsHold, DupsAreSafe, NEW t \in Threads, InitVersion(t)
    PROVE  Inv' /\ ListStep
<1>0. SUFFICES ASSUME NEW w, w = [nodes[Base(t)] EXCEPT !.version = Bump(@)],
                      NEW md, md = [call[t].md EXCEPT !.version = Bump(nodes[Base(t)].version)],
                      NEW c, c = [call[t] EXCEPT !.md = md]
               PROVE  Inv' /\ ListStep
    OBVIOUS
<1>1. /\ pc[t] = "initVersion" /\ UNCHANGED <<held, parked, calls>>
      /\ Set(Base(t), w) /\ Moves(t, "initCount", c, pred[t], curr[t])
    BY <1>0, InvSays, InitVersionDoes
<1>2. Carving(t) /\ Alone(t) /\ ~ Owning(t) /\ ~ call[t].carries
      /\ call[t].op = "allocate" /\ call[t].need \in Needs
    BY <1>1, InvSays, Doing DEF Carving, Alone
<1>3. call[t].md \in Descriptors /\ nodes[Base(t)] \in Words
    BY <1>2, OwnIndex
<1>4. w \in Words /\ w.version = Bump(nodes[Base(t)].version) /\ w # nodes[Base(t)]
  <2>1. /\ Bump(nodes[Base(t)].version) \in Versions
        /\ Bump(nodes[Base(t)].version) # nodes[Base(t)].version
      BY <1>3, WordParts, BumpMoves
  <2> QED
      BY <1>0, <1>3, <2>1 DEF Words, Versions
<1>5. md \in Descriptors /\ md.index = Base(t) /\ md.version = w.version
  <2>1. w.version \in Versions
      BY <1>4, WordParts
  <2> QED
      BY <1>0, <1>3, <1>4, <2>1 DEF Descriptors
<1>6. c \in Calls /\ c.md = md /\ c.op = "allocate" /\ c.need = call[t].need /\ ~ c.carries
    BY <1>0, <1>2, <1>5, InvSays, CallFields
<1>7. pc'[t] = "initCount" /\ call'[t] = c
    BY <1>1, InvSays, Moved
<1>8. LocatedAt(t)'
    BY <1>2, <1>5, <1>6, <1>7 DEF LocatedAt, Carving, Walking, Linking
<1>9. Steady(t)
    BY <1>2, <1>5, <1>6, <1>7 DEF Steady, Carving, Owning
<1>10. Types' /\ Respects(t) /\ Calm /\ nodes'[Base(t)] = w
  <2>1. "initCount" \in Labels /\ pred[t] \in Snapshots /\ curr[t] \in Snapshots
      BY InvSays DEF Labels, Types
  <2>2. c.carries <=> call[t].carries
      BY <1>2, <1>6
  <2> QED
      BY <1>1, <1>2, <1>4, <1>6, <1>8, <1>9, <2>1, <2>2, OwnStoreOk
<1>11. OwnWord(t)'
  <2>1. ~ Owning(t)' /\ Base(t)' = Base(t)
      BY <1>2, <1>9 DEF Steady
  <2>2. nodes'[Base(t)].version = call'[t].md.version
      BY <1>5, <1>6, <1>7, <1>10
  <2> QED
      BY <1>5, <1>6, <1>7, <2>1, <2>2 DEF OwnWord
<1>12. Finishes(t)'
    BY <1>7, <1>8, <1>11
    DEF Finishes, CopiedAt, BorrowedAt, PrecededAt, FollowedAt, ChosenAt, Walking, Linking
<1>13. Flagged'
    BY <1>7, <1>10, FlaggedStays
<1> QED
    BY <1>10, <1>12, <1>13, Assembled DEF Calm

LEMMA InitCountOk ==
    ASSUME Inv, TagsHold, DupsAreSafe, NEW t \in Threads, InitCount(t)
    PROVE  Inv' /\ ListStep
<1>0. SUFFICES ASSUME NEW w, w = [nodes[Base(t)] EXCEPT !.count = call[t].need]
               PROVE  Inv' /\ ListStep
    OBVIOUS
<1>1. /\ pc[t] = "initCount" /\ UNCHANGED <<held, parked, calls>>
      /\ Set(Base(t), w) /\ Moves(t, "initRef", call[t], pred[t], curr[t])
    BY <1>0, InvSays, InitCountDoes
<1>2. Carving(t) /\ Alone(t) /\ ~ Owning(t) /\ ~ call[t].carries
      /\ call[t].op = "allocate" /\ call[t].need \in Needs
    BY <1>1, InvSays, Doing DEF Carving, Alone
<1>3. call[t].md \in Descriptors /\ nodes[Base(t)] \in Words
    BY <1>2, OwnIndex
<1>4. w \in Words /\ w.version = nodes[Base(t)].version /\ w.count = call[t].need
  <2>1. call[t].need \in Nat
      BY InvSays, CallFields
  <2> QED
      BY <1>0, <1>3, <2>1 DEF Words
<1>5. pc'[t] = "initRef" /\ call'[t] = call[t]
    BY <1>1, InvSays, Moved
<1>6. LocatedAt(t)'
    BY <1>2, <1>3, <1>5 DEF LocatedAt, Carving, Walking, Linking
<1>7. Steady(t)
    BY <1>2, <1>5 DEF Steady, Carving, Owning
<1>8. Types' /\ Respects(t) /\ Calm /\ nodes'[Base(t)] = w
  <2>1. /\ "initRef" \in Labels /\ pred[t] \in Snapshots /\ curr[t] \in Snapshots
        /\ call[t] \in Calls
      BY InvSays DEF Labels, Types
  <2> QED
      BY <1>1, <1>2, <1>4, <1>6, <1>7, <2>1, OwnStoreOk
<1>9. OwnWord(t)'
  <2>1. ~ Owning(t)'
      BY <1>2, <1>7 DEF Steady
  <2>2. nodes[Base(t)].version = call[t].md.version
      BY <1>1, InvSays DEF OwnWords, OwnWord
  <2> QED
      BY <1>4, <1>5, <1>8, <2>1, <2>2 DEF OwnWord
<1>10. Finishes(t)'
    BY <1>5, <1>6, <1>9
    DEF Finishes, CopiedAt, BorrowedAt, PrecededAt, FollowedAt, ChosenAt, Walking, Linking
<1>11. Flagged'
    BY <1>5, <1>8, FlaggedStays
<1> QED
    BY <1>8, <1>10, <1>11, Assembled DEF Calm

\* The new block is its caller's: the one reference there is.
LEMMA InitRefOk ==
    ASSUME Inv, TagsHold, DupsAreSafe, NEW t \in Threads, InitRef(t)
    PROVE  Inv' /\ ListStep
<1>0. SUFFICES ASSUME NEW w, w = [nodes[Base(t)] EXCEPT !.next = 1],
                      NEW b, b = Base(t), NEW md, md = call[t].md
               PROVE  Inv' /\ ListStep
    OBVIOUS
<1>1. /\ pc[t] = "initRef" /\ UNCHANGED <<parked, calls>>
      /\ Set(b, w) /\ Hold(md, 1) /\ Moves(t, "idle", NoCall, None, None)
    BY <1>0, InvSays, InitRefDoes
<1>2. /\ Carving(t) /\ Alone(t) /\ ~ Owning(t) /\ ~ call[t].carries
      /\ call[t].need \in Needs
    BY <1>1, InvSays, Doing DEF Carving, Alone
<1>3. md \in Descriptors /\ nodes[b] \in Words /\ b \in UsedNodes /\ b \in Indices /\ md.index = b
    BY <1>0, <1>2, OwnIndex
<1>4. w \in Words /\ w.version = nodes[b].version /\ w.count = nodes[b].count /\ w.next = 1
  <2>1. 1 \in 0 .. NextMod - 1
      BY PlacesAre
  <2> QED
      BY <1>0, <1>3, <2>1 DEF Words
<1>5. nodes[b].version = md.version /\ nodes[b].count = call[t].need
    BY <1>0, <1>1, InvSays DEF OwnWords, OwnWord
<1>6. /\ nodes'[b] = w /\ (\A j \in Indices \ {b} : nodes'[j] = nodes[j])
      /\ nodes' \in [Indices -> Words]
    BY <1>1, <1>3, <1>4, InvSays, Written
<1>7. pc'[t] = "idle" /\ call'[t] = NoCall /\ Others(t)
    BY <1>1, InvSays, Moved DEF Others
<1>8. Finishes(t)' /\ ~ Alone(t)' /\ ~ call'[t].carries
    BY <1>7, IdleFinishes
<1>9. RefsGain(md, 1) /\ Bagged'
  <2>1. Lent(t) = 0
      BY <1>2 DEF Lent
  <2> QED
      BY <1>1, <1>2, <1>3, <1>7, <1>8, <2>1, InvSays, RefsMore
<1>10. Types'
  <2>1. "idle" \in Labels /\ NoCall \in Calls /\ None \in Snapshots
      BY InvSays, CallFields DEF Labels, Snapshots
  <2>2. parked' \subseteq Descriptors /\ calls' \in 0 .. MaxCalls
      BY <1>1, InvSays DEF Types
  <2> QED
      BY <1>1, <1>6, <1>9, <2>1, <2>2, InvSays, TypesNext
<1>11. Located'
    BY <1>7, <1>8, LocatedNext DEF Finishes
<1>12. Refs(md) = 0 /\ ~ Shared(b)
  <2>1. ~ Shared(b)
      BY <1>0, <1>2, InvSays DEF Exclusive
  <2>2. md \notin Alive /\ Refs(md) \in Nat
      BY <1>3, <2>1, InvSays, RefsNat DEF Shared
  <2> QED
      BY <2>1, <2>2, InvSays
<1>13. Alive' = Alive \cup {md}
  <2>1. \A d : d \in Alive' <=> Refs(d)' > 0
      BY <1>10, <1>11, AliveIsNext
  <2>2. \A d : d \in Alive <=> Refs(d) > 0
      BY InvSays
  <2>3. \A d : d \in Alive' <=> d \in Alive \/ d = md
      BY <1>9, <1>12, <2>1, <2>2 DEF RefsGain
  <2> QED
      BY <2>3
<1>14. \A x : Shared(x)' <=> Shared(x) \/ x = b
    BY <1>1, <1>3, <1>13 DEF Shared
<1>15. /\ \A u \in Threads \ {t} : /\ (Alone(u)' <=> Alone(u)) /\ (Owning(u)' <=> Owning(u))
                                   /\ Base(u)' = Base(u)
       /\ \A x : Single(x) <=> Elsewhere(t, x) \/ x = b
       /\ \A x : Single(x)' <=> Elsewhere(t, x)
    BY <1>0, <1>2, <1>7, <1>8, ElsewhereStays
<1>16. UsedNodes' = UsedNodes
  <2>1. UsedMeans' /\ UsedMeans
      BY <1>10, <1>11, InvSays, UsedIsNext
  <2>2. \A x : x \in UsedNodes' <=> x \in UsedNodes
      BY <1>14, <1>15, <2>1 DEF UsedMeans
  <2> QED
      BY <2>2
<1>17. Exclusive'
  <2>1. Exclusive
      BY InvSays
  <2>2. \A u \in Threads : Alone(u)' => u # t /\ Alone(u) /\ Base(u)' = Base(u) /\ Base(u) # b
      BY <1>0, <1>2, <1>8, <1>15, <2>1 DEF Exclusive
  <2> QED
      BY <1>14, <2>1, <2>2 DEF Exclusive
<1>18. OwnWrites(t)
  <2>1. UsedNodes \subseteq Indices
      BY InvSays
  <2> QED
      BY <1>0, <1>2, <1>6, <2>1 DEF OwnWrites
<1>19. RefWords'
  <2>1. \A d \in Alive \cup parked : nodes'[d.index] = nodes[d.index] /\ d # md
      BY <1>3, <1>12, <1>18, SharedWords DEF Shared
  <2>2. RefWords
      BY InvSays
  <2>3. Refs(md)' = 1 /\ \A d \in Alive : Refs(d)' = Refs(d)
      BY <1>9, <1>12, <2>1 DEF RefsGain
  <2>4. nodes'[md.index].version = md.version /\ nodes'[md.index].next = 1
      BY <1>3, <1>4, <1>5, <1>6
  <2> QED
      BY <1>1, <1>13, <2>1, <2>2, <2>3, <2>4 DEF RefWords
<1>20. ASSUME NEW x \in UsedNodes
       PROVE  UsedBlock(x)' = UsedBlock(x)
  <2>1. BlockMeans /\ BlockMeans'
      BY <1>10, <1>11, <1>17, InvSays, BlockIsNext
  <2>2. CASE x = b
    <3>1. UsedBlock(x) = [count |-> call[t].need, refs |-> 1]
        BY <1>0, <1>2, <2>1, <2>2 DEF BlockMeans
    <3>2. UsedBlock(x)' = [count |-> nodes'[x].count, refs |-> nodes'[x].next]
        BY <1>14, <2>1, <2>2 DEF BlockMeans
    <3> QED
        BY <1>4, <1>5, <1>6, <2>2, <3>1, <3>2
  <2>3. CASE x # b
    <3>1. nodes'[x] = nodes[x]
        BY <1>6, <2>3, InvSays
    <3> QED
        BY <1>0, <1>7, <1>8, <2>3, <3>1, BlockStays
  <2> QED
      BY <2>2, <2>3
<1>21. Carried
  <2>1. UNCHANGED UsedBlocks
      BY <1>16, <1>20 DEF UsedBlocks
  <2>2. \A x : Kept(x) => Kept(x)'
      BY <1>2, <1>14, <1>15 DEF Kept
  <2> QED
      BY <1>16, <1>17, <1>19, <2>1, <2>2 DEF Carried
<1>22. Respects(t) /\ Calm
  <2>1. \A x \in Indices : x \notin UsedNodes => nodes'[x] = nodes[x]
      BY <1>3, <1>6
  <2> QED
      BY <1>1, <1>7, <1>18, <1>21, <2>1, OffOk
<1>23. Flagged'
    BY <1>7, <1>22, FlaggedStays
<1> QED
    BY <1>8, <1>10, <1>22, <1>23, Assembled DEF Calm

-----------------------------------------------------------------------------
(* releaseImpl *)

\* A thread that has found the predecessor of its block.
LEMMA LinkFacts ==
    ASSUME Inv, NEW t \in Threads, pc[t] \in Linking
    PROVE  /\ Releasing(t) /\ Owning(t) /\ Alone(t) /\ ~ Carving(t) /\ ~ call[t].carries
           /\ Searching(t) /\ call[t].md \in Descriptors
           /\ Base(t) \in Indices /\ Base(t) \in UsedNodes /\ nodes[Base(t)] \in Words
           /\ call[t] \in Calls /\ pred[t] \in Snapshots /\ curr[t] \in Snapshots
<1>1. Releasing(t) /\ Owning(t) /\ Alone(t) /\ ~ Carving(t) /\ ~ call[t].carries
    BY InvSays, Doing DEF Alone
<1>2. Searching(t)
    BY InvSays DEF Located, LocatedAt
<1> QED
    BY <1>1, <1>2, OwnIndex, InvSays DEF Types

\* Its snapshot of the predecessor stays what it is to the next line.
LEMMA ChosenKeeps ==
    ASSUME Inv, TagsHold, NEW t \in Threads, Respects(t), pc[t] \in Linking \ {"undo"},
           pc'[t] \in Linking, call'[t] = call[t], curr'[t] = curr[t]
    PROVE  ChosenAt(t)'
<1>1. ChosenAt(t) /\ curr[t] \in Armed(t)
    BY InvSays DEF Chosen, Armed, Linking
<1>2. /\ Tame(curr[t]) /\ Fresh(curr[t]) /\ index(curr[t]) # 0
      /\ ~ isJoinTail(curr[t].node)
      /\ Base(t) < curr[t].node.next /\ index(curr[t]) + curr[t].node.count <= Base(t)
    BY <1>1 DEF ChosenAt, Linking
<1>3. nodes'[curr[t].place] = curr[t].node => curr[t].place \in FreeNodes' \cup {0}
    BY <1>1, <1>2, FreshStays
<1>4. Tame(curr[t])' /\ Fresh(curr[t])'
    BY <1>2, <1>3 DEF Tame, Fresh, isModified
<1> QED
    BY <1>2, <1>4 DEF ChosenAt, Linking

\* A store on the way to the swap, or none.
LEMMA LinkingOk ==
    ASSUME Inv, TagsHold, DupsAreSafe, NEW t \in Threads, pc[t] \in Linking \ {"undo"},
           NEW w \in Words, Set(Base(t), w), w.count = nodes[Base(t)].count,
           NEW label \in Linking, Moves(t, label, call[t], pred[t], curr[t]),
           UNCHANGED <<held, parked, calls>>,
           w.version = IF label \in {"publish", "undo"} THEN Bump(call[t].md.version)
                                                       ELSE call[t].md.version,
           label # "link",
           label = "linkStatus" => ~ Adjacent(t),
           label \in {"linkStatus", "bump", "publish"} /\ ~ Adjacent(t) =>
               w.next = curr[t].node.next,
           label \in {"bump", "publish"} /\ ~ Adjacent(t) => isAvailable(w)
    PROVE  Inv' /\ ListStep
<1>1. /\ Releasing(t) /\ Owning(t) /\ Alone(t) /\ ~ Carving(t) /\ ~ call[t].carries
      /\ Searching(t)
      /\ call[t] \in Calls /\ pred[t] \in Snapshots /\ curr[t] \in Snapshots
    BY LinkFacts
<1>2. pc'[t] = label /\ call'[t] = call[t] /\ pred'[t] = pred[t] /\ curr'[t] = curr[t]
    BY InvSays, Moved
<1>3. LocatedAt(t)'
    BY <1>1, <1>2 DEF LocatedAt, Searching, Releasing, Carving, Linking, Walking
<1>4. Steady(t)
    BY <1>1, <1>2 DEF Steady, Carving, Owning, Linking
<1>5. Types' /\ Respects(t) /\ Calm /\ nodes'[Base(t)] = w
  <2>1. label \in Labels /\ pc[t] # "initVersion"
      BY DEF Labels, Linking
  <2> QED
      BY <1>1, <1>2, <1>3, <1>4, <2>1, OwnStoreOk
<1>6. OwnWord(t)'
    BY <1>2, <1>5 DEF OwnWord, Adjacent, Linking
<1>7. ChosenAt(t)'
    BY <1>2, <1>5, ChosenKeeps
<1>8. Flagged'
    BY <1>2, <1>5, FlaggedStays DEF Linking
<1>9. CopiedAt(t)' /\ BorrowedAt(t)' /\ PrecededAt(t)' /\ FollowedAt(t)'
    BY <1>2 DEF CopiedAt, BorrowedAt, PrecededAt, FollowedAt, Walking, Linking
<1> QED
    BY <1>3, <1>5, <1>6, <1>7, <1>8, <1>9, Assembled DEF Calm, Finishes

LEMMA LinkOk ==
    ASSUME Inv, TagsHold, DupsAreSafe, NEW t \in Threads, Link(t)
    PROVE  Inv' /\ ListStep
<1>1. pc[t] = "link" /\ UNCHANGED <<held, parked, calls>> /\ pc[t] \in Linking \ {"undo"}
    BY InvSays, LinkDoes DEF Linking
<1>2. /\ Owning(t) /\ nodes[Base(t)] \in Words /\ curr[t] \in Snapshots /\ Base(t) \in Indices
    BY <1>1, LinkFacts
<1>3. nodes[Base(t)].version = call[t].md.version /\ nodes[Base(t)].next = 0
    BY <1>1, <1>2, InvSays DEF OwnWords, OwnWord
<1>4. index(curr[t]) + curr[t].node.count <= Base(t) /\ Tame(curr[t])
    BY <1>1, InvSays DEF Chosen, ChosenAt
<1>5. curr[t].node \in Words /\ curr[t].place \in Indices
    BY <1>2, <1>4 DEF Tame, Snapshots
<1>6. Base(t) \in Int /\ index(curr[t]) + curr[t].node.count \in Int
  <2>1. curr[t].node.count \in Nat
      BY <1>5, WordParts
  <2> QED
      BY <1>2, <1>5, <2>1, PlacesAre
<1>7. CASE UNCHANGED nodes /\ Adjacent(t) /\ Moves(t, "bump", call[t], pred[t], curr[t])
  <2>1. Set(Base(t), nodes[Base(t)])
      BY <1>2, <1>7, InvSays DEF Set, Types
  <2>2. "bump" \in Linking
      BY DEF Linking
  <2> QED
      BY <1>1, <1>2, <1>3, <1>7, <2>1, <2>2, LinkingOk
<1>8. CASE /\ ~ Adjacent(t)
           /\ Set(Base(t), [nodes[Base(t)] EXCEPT !.next = curr[t].node.next])
           /\ Moves(t, "linkStatus", call[t], pred[t], curr[t])
  <2>1. PICK w : w = [nodes[Base(t)] EXCEPT !.next = curr[t].node.next]
      OBVIOUS
  <2>2. /\ w \in Words /\ w.count = nodes[Base(t)].count /\ w.next = curr[t].node.next
        /\ w.version = call[t].md.version
      BY <1>2, <1>3, <1>5, <2>1 DEF Words
  <2>3. "linkStatus" \in Linking /\ Set(Base(t), w)
      BY <1>8, <2>1 DEF Linking
  <2> QED
      BY <1>1, <1>8, <2>2, <2>3, LinkingOk
<1> QED
    BY <1>3, <1>4, <1>6, <1>7, <1>8, InvSays, LinkDoes

LEMMA LinkStatusOk ==
    ASSUME Inv, TagsHold, DupsAreSafe, NEW t \in Threads, LinkStatus(t)
    PROVE  Inv' /\ ListStep
<1>0. SUFFICES ASSUME NEW w, w = [nodes[Base(t)] EXCEPT !.status = AVAILABLE]
               PROVE  Inv' /\ ListStep
    OBVIOUS
<1>1. /\ pc[t] = "linkStatus" /\ UNCHANGED <<held, parked, calls>>
      /\ pc[t] \in Linking \ {"undo"} /\ "bump" \in Linking
      /\ Set(Base(t), w) /\ Moves(t, "bump", call[t], pred[t], curr[t])
    BY <1>0, InvSays, LinkStatusDoes DEF Linking
<1>2. Owning(t) /\ nodes[Base(t)] \in Words
    BY <1>1, LinkFacts
<1>3. /\ w \in Words /\ w.count = nodes[Base(t)].count /\ w.next = nodes[Base(t)].next
      /\ w.version = nodes[Base(t)].version /\ isAvailable(w)
    BY <1>0, <1>2 DEF Words, AVAILABLE, isAvailable
<1>4. nodes[Base(t)].version = call[t].md.version /\ ~ Adjacent(t)
      /\ nodes[Base(t)].next = curr[t].node.next
    BY <1>1, <1>2, InvSays DEF OwnWords, OwnWord
<1> QED
    BY <1>1, <1>3, <1>4, LinkingOk

LEMMA BumpVersionOk ==
    ASSUME Inv, TagsHold, DupsAreSafe, NEW t \in Threads, BumpVersion(t)
    PROVE  Inv' /\ ListStep
<1>0. SUFFICES ASSUME NEW w, w = [nodes[Base(t)] EXCEPT !.version = Bump(@)]
               PROVE  Inv' /\ ListStep
    OBVIOUS
<1>1. /\ pc[t] = "bump" /\ UNCHANGED <<held, parked, calls>>
      /\ pc[t] \in Linking \ {"undo"} /\ "publish" \in Linking
      /\ Set(Base(t), w) /\ Moves(t, "publish", call[t], pred[t], curr[t])
    BY <1>0, InvSays, BumpVersionDoes DEF Linking
<1>2. Owning(t) /\ nodes[Base(t)] \in Words
    BY <1>1, LinkFacts
<1>3. /\ w \in Words /\ w.count = nodes[Base(t)].count /\ w.next = nodes[Base(t)].next
      /\ w.version = Bump(nodes[Base(t)].version) /\ w.status = nodes[Base(t)].status
  <2>1. Bump(nodes[Base(t)].version) \in Versions
      BY <1>2, WordParts, BumpMoves
  <2> QED
      BY <1>0, <1>2, <2>1 DEF Words, Versions
<1>4. /\ nodes[Base(t)].version = call[t].md.version
      /\ ~ Adjacent(t) => /\ nodes[Base(t)].next = curr[t].node.next
                          /\ isAvailable(nodes[Base(t)])
    BY <1>1, <1>2, InvSays DEF OwnWords, OwnWord
<1> QED
    BY <1>1, <1>3, <1>4, LinkingOk DEF isAvailable

LEMMA UndoOk ==
    ASSUME Inv, TagsHold, DupsAreSafe, NEW t \in Threads, Undo(t)
    PROVE  Inv' /\ ListStep
<1>0. SUFFICES ASSUME NEW w, w = [nodes[Base(t)] EXCEPT !.version = Unbump(@), !.next = 0],
                      NEW c, c = [call[t] EXCEPT !.retry = RetryLimit]
               PROVE  Inv' /\ ListStep
    OBVIOUS
<1>1. pc[t] = "undo" /\ pc[t] \in Linking
    BY DEF Undo, Linking
<1>2. /\ Releasing(t) /\ Owning(t) /\ Alone(t) /\ ~ Carving(t) /\ ~ call[t].carries
      /\ Searching(t) /\ call[t].md \in Descriptors
      /\ Base(t) \in Indices /\ Base(t) \in UsedNodes /\ nodes[Base(t)] \in Words
      /\ call[t] \in Calls /\ pred[t] \in Snapshots /\ curr[t] \in Snapshots
    BY <1>1, LinkFacts
<1>3. /\ UNCHANGED <<held, calls>> /\ Set(Base(t), w)
      /\ Fails(t) \/ (Moves(t, "head", c, pred[t], None) /\ UNCHANGED parked)
    BY <1>0, <1>2, InvSays, UndoDoes
<1>4. nodes[Base(t)].version = Bump(call[t].md.version)
    BY <1>1, <1>2, InvSays DEF OwnWords, OwnWord
<1>5. /\ w \in Words /\ w.version = call[t].md.version /\ w.next = 0
      /\ w.count = nodes[Base(t)].count
  <2>1. call[t].md.version \in Versions
      BY <1>2 DEF Descriptors
  <2>2. Unbump(nodes[Base(t)].version) = call[t].md.version
      BY <1>4, <2>1, BumpMoves
  <2>3. 0 \in 0 .. NextMod - 1
      BY PlacesAre
  <2> QED
      BY <1>0, <1>2, <2>1, <2>2, <2>3 DEF Words, Versions
<1>6. /\ nodes'[Base(t)] = w /\ (\A j \in Indices \ {Base(t)} : nodes'[j] = nodes[j])
      /\ nodes' \in [Indices -> Words]
    BY <1>2, <1>3, <1>5, InvSays, Written
<1>7. CASE Fails(t)
  <2>1. OwnWrites(t) /\ \A j \in Indices : j \notin UsedNodes => nodes'[j] = nodes[j]
    <3>1. UsedNodes \subseteq Indices
        BY InvSays
    <3> QED
        BY <1>2, <1>6, <3>1 DEF OwnWrites
  <2>2. Types' /\ Others(t) /\ Carried /\ Finishes(t)' /\ pc'[t] = "idle"
      BY <1>1, <1>3, <1>5, <1>6, <1>7, <2>1, FailsUsed
  <2>3. Respects(t) /\ Calm
      BY <1>1, <2>1, <2>2, OffOk
  <2>4. Flagged'
      BY <2>2, <2>3, FlaggedStays
  <2> QED
      BY <2>2, <2>3, <2>4, Assembled DEF Calm
<1>8. CASE Moves(t, "head", c, pred[t], None) /\ UNCHANGED parked
  <2>1. c \in Calls /\ Keeping(c, call[t]) /\ c.need = call[t].need
      BY <1>0, <1>2, InvSays, CallFields, RetryAssumption DEF Keeping
  <2>2. pc'[t] = "head" /\ call'[t] = c
      BY <1>8, InvSays, Moved
  <2>3. LocatedAt(t)'
      BY <1>2, <2>1, <2>2
      DEF LocatedAt, Searching, Keeping, Releasing, Carving, Linking, Walking
  <2>4. Steady(t)
      BY <1>2, <2>1, <2>2 DEF Steady, Keeping, Carving, Owning
  <2>5. Types' /\ Respects(t) /\ Calm
    <3>1. "head" \in Labels /\ None \in Snapshots
        BY DEF Labels, Snapshots
    <3> QED
        BY <1>1, <1>2, <1>3, <1>5, <1>8, <2>1, <2>3, <2>4, <3>1, OwnStoreOk DEF Keeping
  <2>6. OwnWord(t)'
      BY <1>5, <1>6, <2>1, <2>2 DEF OwnWord, Keeping, Linking
  <2>7. Finishes(t)'
      BY <2>2, <2>3, <2>6
      DEF Finishes, CopiedAt, BorrowedAt, PrecededAt, FollowedAt, ChosenAt, Walking, Linking
  <2>8. Flagged'
      BY <2>2, <2>5, FlaggedStays
  <2> QED
      BY <2>5, <2>7, <2>8, Assembled DEF Calm
<1> QED
    BY <1>3, <1>7, <1>8

\* A thread hands its block over to the list.
LEMMA ReturnUsed ==
    ASSUME Inv, NEW t \in Threads, pc[t] = "publish", NEW b, b = Base(t),
           NEW i \in FreeNodes, NEW w \in Words, Set(i, w), UNCHANGED <<held, parked, calls>>,
           Moves(t, "idle", NoCall, None, None)
    PROVE  /\ Types' /\ Others(t) /\ Finishes(t)' /\ pc'[t] = "idle"
           /\ Exclusive' /\ RefWords' /\ Root'
           /\ b \in UsedNodes /\ UsedBlock(b) = [count |-> nodes[b].count, refs |-> 0]
           /\ UsedNodes' = UsedNodes \ {b} /\ UsedBlocks' = List!Remove(UsedBlocks, b)
<1>1. Owning(t) /\ Alone(t) /\ ~ Carving(t) /\ ~ call[t].carries
      /\ b \in UsedNodes /\ b \in Indices
    BY LinkFacts DEF Linking
<1>2. i \in Indices /\ i # 0 /\ i \notin UsedNodes /\ UsedNodes \subseteq Indices
    BY InvSays, PlacesAre DEF ListWords
<1>3. /\ nodes'[i] = w /\ (\A j \in Indices \ {i} : nodes'[j] = nodes[j])
      /\ nodes' \in [Indices -> Words]
    BY <1>2, InvSays, Written
<1>4. pc'[t] = "idle" /\ call'[t] = NoCall /\ Others(t)
    BY InvSays, Moved DEF Others
<1>5. Finishes(t)' /\ ~ Alone(t)' /\ ~ call'[t].carries
    BY <1>4, IdleFinishes
<1>6. RefsKept /\ Bagged'
    BY <1>1, <1>4, <1>5, InvSays, RefsSame
<1>7. Types'
  <2>1. "idle" \in Labels /\ NoCall \in Calls /\ None \in Snapshots
      BY InvSays, CallFields DEF Labels, Snapshots
  <2>2. parked' \subseteq Descriptors /\ calls' \in 0 .. MaxCalls
      BY InvSays DEF Types
  <2> QED
      BY <1>3, <1>6, <2>1, <2>2, InvSays, TypesNext
<1>8. Located'
    BY <1>4, <1>5, LocatedNext DEF Finishes
<1>9. Alive' = Alive /\ \A x : Shared(x)' <=> Shared(x)
    BY <1>6, <1>7, <1>8, AliveKept DEF Shared
<1>10. /\ \A u \in Threads \ {t} : /\ (Alone(u)' <=> Alone(u)) /\ (Owning(u)' <=> Owning(u))
                                   /\ Base(u)' = Base(u)
       /\ \A x : Single(x) <=> Elsewhere(t, x) \/ x = b
       /\ \A x : Single(x)' <=> Elsewhere(t, x)
    BY <1>1, <1>4, <1>5, ElsewhereStays
<1>11. ~ Shared(b) /\ ~ Elsewhere(t, b)
    BY <1>1, InvSays DEF Exclusive, Elsewhere
<1>12. UsedNodes' = UsedNodes \ {b}
  <2>1. UsedMeans' /\ UsedMeans
      BY <1>7, <1>8, InvSays, UsedIsNext
  <2>2. \A x : x \in UsedNodes' <=> x \in UsedNodes \ {b}
      BY <1>9, <1>10, <1>11, <2>1 DEF UsedMeans
  <2> QED
      BY <2>2
<1>13. Exclusive'
  <2>1. Exclusive
      BY InvSays
  <2>2. \A u \in Threads : Alone(u)' => u # t /\ Alone(u) /\ Base(u)' = Base(u)
      BY <1>5, <1>10
  <2> QED
      BY <1>9, <2>1, <2>2 DEF Exclusive
<1>14. \A x \in UsedNodes : nodes'[x] = nodes[x]
    BY <1>2, <1>3
<1>15. RefWords'
  <2>1. \A d \in Alive \cup parked : d.index \in UsedNodes
      BY InvSays DEF UsedMeans, Shared
  <2>2. RefWords
      BY InvSays
  <2> QED
      BY <1>6, <1>9, <1>14, <2>1, <2>2 DEF RefWords, RefsKept
<1>16. Root'
  <2>1. nodes'[0] = nodes[0]
      BY <1>2, <1>3, PlacesAre
  <2> QED
      BY <2>1, InvSays DEF Root
<1>17. UsedBlock(b) = [count |-> nodes[b].count, refs |-> 0]
    BY <1>1, InvSays DEF BlockMeans
<1>18. UsedBlocks' = List!Remove(UsedBlocks, b)
  <2>1. ASSUME NEW x \in UsedNodes \ {b}
        PROVE  UsedBlock(x)' = UsedBlock(x)
      BY <1>1, <1>4, <1>5, <1>14, BlockStays
  <2>2. UsedBlocks' = [x \in UsedNodes \ {b} |-> UsedBlock(x)']
      BY <1>12 DEF UsedBlocks
  <2>3. DOMAIN UsedBlocks = UsedNodes /\ \A x \in UsedNodes : UsedBlocks[x] = UsedBlock(x)
      BY DEF UsedBlocks
  <2> HIDE DEF UsedBlocks
  <2> QED
      BY <2>1, <2>2, <2>3 DEF List!Remove
<1> QED
    BY <1>1, <1>4, <1>5, <1>7, <1>12, <1>13, <1>15, <1>16, <1>17, <1>18

\* The node before the block grows over it.
LEMMA AdjacentList ==
    ASSUME Inv, NEW i \in FreeNodes, NEW b \in UsedNodes, b = i + nodes[i].count,
           b < nodes[i].next, UsedBlock(b) = [count |-> nodes[b].count, refs |-> 0],
           UsedBlocks' = List!Remove(UsedBlocks, b),
           Set(i, changeCount(nodes[i], nodes[i].count + nodes[b].count))
    PROVE  FreeNodes' = FreeNodes /\ List!Inv' /\ ListStep /\ nodes'[i] # nodes[i]
<1>1. /\ i \in Indices /\ b \in Indices /\ nodes[i].count \in Nat /\ nodes[b].count \in Nat
      /\ nodes[i].count > 0 /\ i \in Nat
    BY PlacesAre, InvSays, SnapIs, WordParts DEF ListWords
<1>2. PICK n \in Nat : n = nodes[i].count + nodes[b].count
    BY <1>1
<1>3. /\ FreeNodes' = FreeNodes /\ FreeBlocks' = [FreeBlocks EXCEPT ![i].count = n]
      /\ nodes'[i] # nodes[i]
    BY <1>2, CountList
<1>4. /\ DOMAIN FreeBlocks = FreeNodes /\ FreeBlocks[i].count = nodes[i].count
      /\ FreeBlocks[i].next = nodes[i].next
    BY DEF FreeBlocks
<1>5. DOMAIN UsedBlocks = UsedNodes /\ UsedBlocks[b].count = nodes[b].count
      /\ UsedBlocks[b].refs = 0
    BY DEF UsedBlocks
<1>6. FreeBlocks' = [FreeBlocks EXCEPT ![i].count = @ + UsedBlocks[b].count]
  <2> HIDE DEF FreeBlocks, UsedBlocks
  <2> QED
      BY <1>2, <1>3, <1>4, <1>5
<1>7. i < b
    BY <1>1
<1>8. List!ReleaseAdjacent(i, b)
    BY <1>4, <1>5, <1>6, <1>7 DEF List!ReleaseAdjacent, List!IsPredecessor
<1>9. List!Inv /\ List!Next
    BY <1>4, <1>5, <1>8 DEF Inv, List!Next
<1> QED
    BY <1>3, <1>9, ListSteps

\* The block follows the node before it.
LEMMA ApartReaches ==
    ASSUME Inv, NEW i \in FreeNodes, NEW b \in UsedNodes, i < b, b < nodes[i].next,
           nodes'[0] = nodes[0], nodes'[i].next = b, nodes'[b].next = nodes[i].next,
           \A j \in FreeNodes \ {i} : nodes'[j].next = nodes[j].next
    PROVE  FreeNodes' = FreeNodes \cup {b}
<1>1. /\ FreeNodes \subseteq Places /\ b \in Places /\ NodeCount \in Nat
      /\ \A j \in Places : j \in Nat /\ j >= 1
      /\ \A j \in FreeNodes : nodes[j].next \in Nat
    BY PlacesAre, Apart, InvSays, SnapIs, WordParts DEF ListWords, Places
<1>2. \A j \in FreeNodes :
         /\ j < nodes[j].next /\ nodes[j].next \in FreeNodes \cup {NodeCount}
         /\ \A k \in FreeNodes : j < k => nodes[j].next <= k
  <2>1. SUFFICES ASSUME NEW j \in FreeNodes
                 PROVE  j < nodes[j].next
      BY InvSays DEF ListWords
  <2>2. nodes[j].count > 0 /\ j + nodes[j].count <= nodes[j].next /\ nodes[j].count \in Nat
      BY <1>1, InvSays, PlacesAre, SnapIs, WordParts DEF ListWords
  <2> QED
      BY <1>1, <2>2
<1> DEFINE F == FreeNodes \cup {b}
<1>3. F \in SUBSET Places /\ 1 \in F /\ nodes'[0].next = 1
    BY <1>1, InvSays DEF ListWords, Root
<1>4. ASSUME NEW j \in F
      PROVE  /\ nodes'[j].next \in F \cup {NodeCount} /\ j < nodes'[j].next
             /\ \A k \in F : j < k => nodes'[j].next <= k
  <2>1. CASE j = i
      BY <1>1, <1>2, <2>1
  <2>2. CASE j = b
    <3>1. nodes'[j].next = nodes[i].next /\ nodes[i].next \in F \cup {NodeCount}
          /\ j < nodes'[j].next
        BY <1>2, <2>2
    <3>2. ASSUME NEW k \in F, j < k
          PROVE  nodes[i].next <= k
      <4>1. k \in FreeNodes /\ i < k
          BY <1>1, <2>2, <3>2
      <4> QED
          BY <1>2, <4>1
    <3> QED
        BY <3>1, <3>2
  <2>3. CASE j # i /\ j # b
    <3>1. j \in FreeNodes /\ nodes'[j].next = nodes[j].next /\ j \in Nat
        BY <1>1, <2>3
    <3>2. j < b => nodes[j].next <= b
      <4>1. CASE j < i
        <5>1. nodes[j].next <= i /\ nodes[j].next \in Nat
            BY <1>1, <1>2, <3>1, <4>1
        <5> QED
            BY <1>1, <5>1
      <4>2. CASE i < j
        <5>1. nodes[i].next <= j /\ nodes[i].next \in Nat
            BY <1>1, <1>2, <3>1, <4>2
        <5> QED
            BY <1>1, <3>1, <5>1
      <4> QED
          BY <1>1, <2>3, <3>1, <4>1, <4>2
    <3> QED
        BY <1>2, <3>1, <3>2
  <2> QED
      BY <2>1, <2>2, <2>3
<1> HIDE DEF F
<1>5. Reached(nodes') = F
    BY <1>3, <1>4, ReachedIs
<1> QED
    BY <1>5 DEF FreeNodes, F

LEMMA ApartList ==
    ASSUME Inv, NEW i \in FreeNodes, NEW b \in UsedNodes, i + nodes[i].count < b,
           b < nodes[i].next, UsedBlock(b) = [count |-> nodes[b].count, refs |-> 0],
           UsedBlocks' = List!Remove(UsedBlocks, b), nodes[b].next = nodes[i].next,
           isAvailable(nodes[b]), Set(i, changeNext(nodes[i], b))
    PROVE  FreeNodes' = FreeNodes \cup {b} /\ List!Inv' /\ ListStep /\ nodes'[i] # nodes[i]
<1>1. /\ i \in Indices /\ b \in Indices /\ nodes[i].count \in Nat /\ nodes[b].count \in Nat
      /\ nodes[i] \in Words /\ i \in Nat /\ b \in Nat /\ i # 0 /\ b < NextMod /\ 0 \in Indices
    BY PlacesAre, InvSays, SnapIs, WordParts DEF ListWords
<1>2. PICK w : w = changeNext(nodes[i], b)
    OBVIOUS
<1>3. /\ w \in Words /\ w # nodes[i] /\ w.next = b /\ w.count = nodes[i].count
      /\ w.status = nodes[i].status
    BY <1>1, <1>2, NextWord
<1>4. nodes'[i] = w /\ (\A j \in Indices \ {i} : nodes'[j] = nodes[j])
    BY <1>1, <1>2, <1>3, InvSays, Written
<1>5. b # i /\ FreeNodes \subseteq Indices /\ b \notin FreeNodes /\ i < b
    BY <1>1, PlacesAre, InvSays DEF ListWords
<1>6. FreeNodes' = FreeNodes \cup {b}
  <2>1. nodes'[0] = nodes[0] /\ nodes'[b] = nodes[b]
        /\ \A j \in FreeNodes \ {i} : nodes'[j] = nodes[j]
      BY <1>1, <1>4, <1>5
  <2> QED
      BY <1>3, <1>4, <1>5, <2>1, ApartReaches
<1>7. /\ DOMAIN FreeBlocks = FreeNodes
      /\ \A j \in FreeNodes : FreeBlocks[j] = [next |-> nodes[j].next, count |-> nodes[j].count,
                                               status |-> nodes[j].status]
    BY DEF FreeBlocks
<1>8. DOMAIN UsedBlocks = UsedNodes /\ UsedBlocks[b].count = nodes[b].count
      /\ UsedBlocks[b].refs = 0
    BY DEF UsedBlocks
<1> DEFINE new == [next |-> nodes[i].next, count |-> nodes[b].count, status |-> {}]
           G == [FreeBlocks EXCEPT ![i].next = b]
<1>9. FreeBlocks' = List!Put(G, b, new)
  <2>1. FreeBlocks' = [j \in FreeNodes \cup {b} |->
                          [next |-> nodes'[j].next, count |-> nodes'[j].count,
                           status |-> nodes'[j].status]]
      BY <1>6 DEF FreeBlocks
  <2>2. new = [next |-> nodes'[b].next, count |-> nodes'[b].count, status |-> nodes'[b].status]
    <3>1. nodes'[b] = nodes[b]
        BY <1>1, <1>4, <1>5
    <3> QED
        BY <3>1 DEF isAvailable, AVAILABLE
  <2>3. ASSUME NEW j \in FreeNodes
        PROVE  G[j] = [next |-> nodes'[j].next, count |-> nodes'[j].count,
                       status |-> nodes'[j].status]
    <3>1. CASE j = i
      <4>1. FreeBlocks[i] = [next |-> nodes[i].next, count |-> nodes[i].count,
                             status |-> nodes[i].status] /\ i \in DOMAIN FreeBlocks
          BY <1>7
      <4>2. G[i] = [next |-> b, count |-> nodes[i].count, status |-> nodes[i].status]
        <5> HIDE DEF FreeBlocks
        <5> QED
            BY <4>1
      <4> HIDE DEF G
      <4> QED
          BY <1>3, <1>4, <3>1, <4>2
    <3>2. CASE j # i
      <4>1. nodes'[j] = nodes[j]
          BY <1>4, <1>5, <3>2
      <4>2. G[j] = FreeBlocks[j]
        <5> HIDE DEF FreeBlocks
        <5> QED
            BY <1>7, <3>2
      <4> HIDE DEF G
      <4> QED
          BY <1>7, <4>1, <4>2
    <3> QED
        BY <3>1, <3>2
  <2>4. DOMAIN G = FreeNodes
      BY <1>7
  <2> HIDE DEF G, new
  <2> QED
      BY <1>5, <2>1, <2>2, <2>3, <2>4 DEF List!Put
<1>10. List!ReleaseApart(i, b)
  <2>1. FreeBlocks[i].count = nodes[i].count /\ FreeBlocks[i].next = nodes[i].next
        /\ b # i + nodes[i].count
      BY <1>1, <1>7
  <2>2. new = [next |-> FreeBlocks[i].next, count |-> UsedBlocks[b].count,
               status |-> List!AVAILABLE]
    <3> HIDE DEF FreeBlocks, UsedBlocks
    <3> QED
        BY <1>8, <2>1 DEF List!AVAILABLE
  <2> HIDE DEF new
  <2> QED
      BY <1>5, <1>7, <1>8, <1>9, <2>1, <2>2 DEF List!ReleaseApart, List!IsPredecessor
<1>11. List!Inv /\ List!Next
    BY <1>7, <1>8, <1>10 DEF Inv, List!Next
<1> QED
    BY <1>3, <1>4, <1>6, <1>11, ListSteps

LEMMA PublishOk ==
    ASSUME Inv, TagsHold, DupsAreSafe, NEW t \in Threads, Publish(t)
    PROVE  Inv' /\ ListStep
<1>0. SUFFICES ASSUME NEW i, i = curr[t].place, NEW b, b = Base(t), NEW p, p = curr[t].node
               PROVE  Inv' /\ ListStep
    OBVIOUS
<1>1. pc[t] = "publish" /\ UNCHANGED <<held, parked, calls>> /\ pc[t] \in Linking \ {"undo"}
    BY InvSays, PublishDoes DEF Linking
<1>2. /\ Owning(t) /\ Alone(t) /\ nodes[b] \in Words /\ b \in Indices /\ b \in UsedNodes
      /\ curr[t] \in Snapshots
    BY <1>0, <1>1, LinkFacts
<1>3. /\ nodes[b].version = Bump(call[t].md.version)
      /\ ~ Adjacent(t) => nodes[b].next = curr[t].node.next /\ isAvailable(nodes[b])
    BY <1>0, <1>1, <1>2, InvSays DEF OwnWords, OwnWord
<1>4. CASE UNCHANGED nodes /\ Moves(t, "undo", call[t], pred[t], curr[t])
  <2>1. Set(b, nodes[b])
      BY <1>2, <1>4, InvSays DEF Set, Types
  <2>2. "undo" \in Linking
      BY DEF Linking
  <2> QED
      BY <1>0, <1>1, <1>2, <1>3, <1>4, <2>1, <2>2, LinkingOk
<1>5. SUFFICES ASSUME NEW w, w = IF Adjacent(t) THEN changeCount(p, p.count + nodes[b].count)
                                                ELSE changeNext(p, b),
                      ~ isModified(curr[t]), Set(i, w), Moves(t, "idle", NoCall, None, None)
               PROVE  Inv' /\ ListStep
    BY <1>0, <1>4, InvSays, PublishDoes
<1>6. /\ Tame(curr[t]) /\ Fresh(curr[t]) /\ i # 0 /\ ~ isJoinTail(p)
      /\ b < p.next /\ i + p.count <= b
    BY <1>0, <1>1, InvSays DEF Chosen, ChosenAt
<1>7. i \in FreeNodes /\ nodes[i] = p /\ i \in Indices /\ p \in Words
  <2>1. curr[t] \in [place : Indices, node : Words]
      BY <1>2, <1>6 DEF Tame, Snapshots
  <2> QED
      BY <1>0, <1>5, <1>6, <2>1 DEF Fresh, isModified
<1>8. /\ i \in Nat /\ b \in Nat /\ b < NextMod /\ p.count \in Nat /\ p.next \in Nat
      /\ nodes[b].count \in Nat
    BY <1>2, <1>7, PlacesAre, WordParts
<1>9. w \in Words
  <2>1. p.count + nodes[b].count \in Nat
      BY <1>8
  <2>2. changeCount(p, p.count + nodes[b].count) \in Words
      BY <1>7, <2>1, CountWord
  <2>3. changeNext(p, b) \in Words
      BY <1>7, <1>8, NextWord
  <2> QED
      BY <1>5, <2>2, <2>3
<1>10. /\ Types' /\ Others(t) /\ Finishes(t)' /\ pc'[t] = "idle"
       /\ Exclusive' /\ RefWords' /\ Root'
       /\ UsedBlock(b) = [count |-> nodes[b].count, refs |-> 0]
       /\ UsedNodes' = UsedNodes \ {b} /\ UsedBlocks' = List!Remove(UsedBlocks, b)
    BY <1>0, <1>1, <1>5, <1>7, <1>9, ReturnUsed
<1>11. /\ FreeNodes' = FreeNodes \/ FreeNodes' = FreeNodes \cup {b}
       /\ List!Inv' /\ ListStep /\ nodes'[i] # nodes[i]
  <2>1. CASE Adjacent(t)
    <3>1. b = i + nodes[i].count /\ b < nodes[i].next
          /\ Set(i, changeCount(nodes[i], nodes[i].count + nodes[b].count))
        BY <1>0, <1>5, <1>6, <1>7, <2>1 DEF Adjacent
    <3> QED
        BY <1>2, <1>7, <1>10, <3>1, AdjacentList
  <2>2. CASE ~ Adjacent(t)
    <3>1. i + nodes[i].count < b /\ b < nodes[i].next /\ Set(i, changeNext(nodes[i], b))
          /\ nodes[b].next = nodes[i].next
      <4>1. b # i + p.count
          BY <1>0, <2>2 DEF Adjacent
      <4> QED
          BY <1>0, <1>3, <1>5, <1>6, <1>7, <1>8, <2>2, <4>1
    <3> QED
        BY <1>2, <1>3, <1>7, <1>10, <2>2, <3>1, ApartList
  <2> QED
      BY <2>1, <2>2
<1>12. nodes'[i] = w /\ (\A j \in Indices \ {i} : nodes'[j] = nodes[j])
    BY <1>5, <1>7, <1>9, InvSays, Written
<1>13. ~ isJoinHead(nodes[i])
  <2>1. isJoinHead(p) => p.next = i + p.count
      BY <1>7, InvSays DEF ListWords, isJoinable
  <2> QED
      BY <1>6, <1>7, <1>8, <2>1
<1>14. UsedNodes \subseteq Indices /\ i \notin UsedNodes /\ FreeNodes \subseteq Indices
       /\ 0 \in Indices
    BY <1>7, InvSays, PlacesAre DEF ListWords
<1>15. Respects(t)
  <2>1. ASSUME NEW u \in Threads \ {t}, Alone(u)
        PROVE  nodes'[Base(u)] = nodes[Base(u)]
    <3>1. Base(u) \in UsedNodes
        BY <2>1, InvSays DEF UsedMeans, Single
    <3> QED
        BY <1>12, <1>14, <3>1
  <2>2. ASSUME NEW d \in Indices, Joined(d)
        PROVE  Joined(d)'
    <3>1. CASE d \in FreeNodes
      <4>1. PICK q \in FreeNodes : nodes[q].next = d /\ isJoinHead(nodes[q])
          BY <2>2, <3>1 DEF Joined
      <4>2. nodes'[q] = nodes[q] /\ q \in FreeNodes' /\ d \in FreeNodes'
          BY <1>11, <1>12, <1>13, <1>14, <3>1, <4>1
      <4> QED
          BY <4>1, <4>2 DEF Joined, isJoinHead
    <3>2. CASE d \notin FreeNodes
      <4>1. d # b
        <5>1. \A u \in Threads : pc[u] = "initVersion" => Base(u) # b
            BY <1>0, <1>1, <1>2, InvSays DEF Exclusive, Alone, Carving
        <5> QED
            BY <1>2, <2>2, <3>2, <5>1 DEF Joined
      <4>2. \A u \in Threads :
               pc[u] = "initVersion" => pc'[u] = "initVersion" /\ Base(u)' = Base(u)
          BY <1>1, <1>10 DEF Others, Same
      <4> QED
          BY <1>10, <1>11, <2>2, <3>2, <4>1, <4>2 DEF Joined
    <3> QED
        BY <3>1, <3>2
  <2>3. ASSUME NEW u \in Threads \ {t}, pc[u] = "join", ~ isModified(pred[u])
        PROVE  (~ isModified(curr[u]))'
    <3>1. nodes[curr[u].place] = curr[u].node /\ isJoinTail(curr[u].node) /\ Tame(curr[u])
        BY <2>3, InvSays DEF Followed, FollowedAt, isModified, Follows
    <3>2. curr[u].place \in Indices /\ curr[u].place # i
        BY <1>6, <1>7, <3>1, InvSays DEF Tame, Types, Snapshots
    <3>3. curr'[u] = curr[u]
        BY <1>10 DEF Others, Same
    <3> QED
        BY <1>12, <3>1, <3>2, <3>3 DEF isModified
  <2> QED
      BY <1>1, <1>10, <1>11, <2>1, <2>2, <2>3 DEF Respects
<1>16. Flagged'
    BY <1>10, <1>15, FlaggedStays
<1> QED
    BY <1>10, <1>11, <1>15, <1>16, Assembled

-----------------------------------------------------------------------------
(* dup, dupNew and undup *)

\* What the swaps of dup, undup and dupNew do to a reference count.
Recounts(old, new) ==
    \/ old > 0 /\ \E delta \in Deltas : new = old + delta
    \/ old > 0 /\ new = old - 1
    \/ old = 0 /\ new = 1

LEMMA RefsList ==
    ASSUME Inv, NEW b \in UsedNodes, NEW refs \in 0 .. NextMod - 1,
           Recounts(UsedBlock(b).refs, refs),
           UsedBlocks' = [UsedBlocks EXCEPT ![b].refs = refs], UNCHANGED FreeBlocks
    PROVE  List!Inv' /\ ListStep
<1>1. DOMAIN UsedBlocks = UsedNodes /\ UsedBlocks[b].refs = UsedBlock(b).refs
    BY DEF UsedBlocks
<1>2. List!Inv
    BY DEF Inv
<1> HIDE DEF UsedBlocks, FreeBlocks
<1>3. CASE UsedBlocks[b].refs > 0 /\ \E delta \in Deltas : refs = UsedBlocks[b].refs + delta
  <2>1. PICK delta \in Deltas : refs = UsedBlocks[b].refs + delta
      BY <1>3
  <2>2. UsedBlocks[b].refs + delta < NextMod
      BY <2>1, NextModAssumption
  <2>3. List!Dup(b, delta)
      BY <1>1, <1>3, <2>1, <2>2 DEF List!Dup
  <2>4. List!Next
      BY <1>1, <2>3 DEF List!Next
  <2> QED
      BY <1>2, <2>4, ListSteps
<1>4. CASE UsedBlocks[b].refs > 0 /\ refs = UsedBlocks[b].refs - 1
  <2>1. List!Undup(b)
      BY <1>1, <1>4 DEF List!Undup
  <2>2. List!Next
      BY <1>1, <2>1 DEF List!Next
  <2> QED
      BY <1>2, <2>2, ListSteps
<1>5. CASE UsedBlocks[b].refs = 0 /\ refs = 1
  <2>1. List!DupNew(b)
      BY <1>1, <1>5 DEF List!DupNew
  <2>2. List!Next
      BY <1>1, <2>1 DEF List!Next
  <2> QED
      BY <1>2, <2>2, ListSteps
<1> QED
    BY <1>1, <1>3, <1>4, <1>5 DEF Recounts

\* A swap of the word of an allocated block: its count of references is in
\* the word before, or nobody has one, and so it is after.
LEMMA RefStoreOk ==
    ASSUME Inv, NEW t \in Threads, pc[t] \in {"dupCas", "dupNewCas", "undupCas"},
           NEW b \in UsedNodes, NEW w \in Words, Set(b, w), w.count = nodes[b].count,
           Others(t), Types', Located', Exclusive', RefWords', UsedNodes' = UsedNodes,
           \A u \in Threads \ {t} : Alone(u) => Base(u) # b,
           Alone(t) => Base(t) = b, Alone(t)' => Base(t)' = b,
           Shared(b) \/ Owning(t), Shared(b)' \/ (Owning(t)' /\ w.next = 0),
           Shared(b) => Recounts(nodes[b].next, w.next), Owning(t) => w.next = 1,
           \A x : Kept(x) => Kept(x)'
    PROVE  Respects(t) /\ Calm
<1>1. UsedNodes \subseteq Indices
    BY InvSays
<1>2. nodes'[b] = w /\ (\A j \in Indices \ {b} : nodes'[j] = nodes[j])
    BY <1>1, InvSays, Written
<1>3. \A i \in Indices : i \notin UsedNodes => nodes'[i] = nodes[i]
    BY <1>2
<1>4. Respects(t)
  <2>1. \A u \in Threads \ {t} : Alone(u) => nodes'[Base(u)] = nodes[Base(u)]
    <3>1. \A u \in Threads : Alone(u) => Base(u) \in UsedNodes
        BY InvSays DEF UsedMeans, Single
    <3> QED
        BY <1>1, <1>2, <3>1
  <2> QED
      BY <1>3, <2>1, OffRespects
<1>5. FreeNodes' = FreeNodes /\ UNCHANGED FreeBlocks /\ Root'
    BY <1>3, OffList
<1>6. BlockMeans /\ BlockMeans'
    BY InvSays, BlockIsNext
<1>7. UsedBlock(b).count = nodes[b].count /\ Recounts(UsedBlock(b).refs, w.next)
  <2>1. CASE Shared(b)
    <3>1. UsedBlock(b) = [count |-> nodes[b].count, refs |-> nodes[b].next]
        BY <1>6, <2>1 DEF BlockMeans
    <3> QED
        BY <2>1, <3>1
  <2>2. CASE Owning(t)
    <3>1. Base(t) = b
        BY <2>2 DEF Alone
    <3>2. UsedBlock(Base(t)) = [count |-> nodes[Base(t)].count, refs |-> 0]
        BY <1>6, <2>2 DEF BlockMeans
    <3> QED
        BY <2>2, <3>1, <3>2 DEF Recounts
  <2> QED
      BY <2>1, <2>2
<1>8. UsedBlock(b)' = [count |-> nodes[b].count, refs |-> w.next]
  <2>1. CASE Shared(b)'
    <3>1. UsedBlock(b)' = [count |-> nodes'[b].count, refs |-> nodes'[b].next]
        BY <1>6, <2>1 DEF BlockMeans
    <3> QED
        BY <1>2, <3>1
  <2>2. CASE Owning(t)' /\ w.next = 0
    <3>1. Base(t)' = b
        BY <2>2 DEF Alone
    <3>2. (UsedBlock(Base(t)))' = [count |-> (nodes[Base(t)].count)', refs |-> 0]
        BY <1>6, <2>2 DEF BlockMeans
    <3> QED
        BY <1>2, <2>2, <3>1, <3>2
  <2> QED
      BY <2>1, <2>2
<1>9. ASSUME NEW x \in UsedNodes, x # b
      PROVE  UsedBlock(x)' = UsedBlock(x)
  <2>1. nodes'[x] = nodes[x]
      BY <1>1, <1>2, <1>9
  <2> QED
      BY <1>9, <2>1, BlockStays
<1>10. UsedBlocks' = [UsedBlocks EXCEPT ![b].refs = w.next]
  <2>1. UsedBlocks' = [x \in UsedNodes |-> UsedBlock(x)']
      BY DEF UsedBlocks
  <2>2. /\ UsedBlocks = [x \in UsedNodes |-> UsedBlocks[x]]
        /\ \A x \in UsedNodes : UsedBlocks[x] = UsedBlock(x)
      BY DEF UsedBlocks
  <2>3. UsedBlocks[b] = [count |-> nodes[b].count, refs |-> UsedBlocks[b].refs]
    <3>1. UsedBlock(b) = [count |-> UsedBlock(b).count, refs |-> UsedBlock(b).refs]
        BY DEF UsedBlock
    <3> QED
        BY <1>7, <2>2, <3>1
  <2>4. PICK v : v = [count |-> nodes[b].count, refs |-> w.next]
      OBVIOUS
  <2> HIDE DEF UsedBlocks
  <2>5. [UsedBlocks[b] EXCEPT !.refs = w.next] = v
      BY <2>3, <2>4
  <2>6. UsedBlocks' = [UsedBlocks EXCEPT ![b] = v]
      BY <1>8, <1>9, <2>1, <2>2, <2>4
  <2> QED
      BY <2>5, <2>6
<1>11. List!Inv' /\ ListStep
  <2>1. w.next \in 0 .. NextMod - 1
      BY DEF Words
  <2> QED
      BY <1>5, <1>7, <1>10, <2>1, RefsList
<1> QED
    BY <1>4, <1>5, <1>11 DEF Calm

\* dup finds another version, or no reference: it fails.
LEMMA LeaveOk ==
    ASSUME Inv, TagsHold, DupsAreSafe, NEW t \in Threads, pc[t] = "dup",
           Lends(t, 0), Moves(t, "idle", NoCall, None, None),
           UNCHANGED <<nodes, parked, calls>>
    PROVE  Inv' /\ ListStep
<1>1. ~ Alone(t) /\ call[t].md \in Descriptors
    BY InvSays, Doing
<1>2. pc'[t] = "idle" /\ call'[t] = NoCall /\ Others(t)
    BY InvSays, Moved DEF Others
<1>3. Finishes(t)' /\ ~ Alone(t)' /\ ~ call'[t].carries
    BY <1>2, IdleFinishes
<1>4. RefsKept /\ Bagged'
    BY <1>1, <1>2, <1>3, InvSays, RefsBack
<1>5. Types'
  <2>1. "idle" \in Labels /\ NoCall \in Calls /\ None \in Snapshots
      BY InvSays, CallFields DEF Labels, Snapshots
  <2>2. /\ parked' \subseteq Descriptors /\ calls' \in 0 .. MaxCalls
        /\ nodes' \in [Indices -> Words]
      BY InvSays DEF Types
  <2> QED
      BY <1>4, <2>1, <2>2, InvSays, TypesNext
<1>6. Located'
    BY <1>2, <1>3, LocatedNext DEF Finishes
<1>7. Steady(t) /\ OwnWrites(t)
    BY <1>1, <1>3 DEF Steady, OwnWrites, Alone
<1>8. Carried
    BY <1>1, <1>2, <1>4, <1>5, <1>6, <1>7, SteadyUsed DEF Alone
<1>9. Respects(t) /\ Calm
    BY <1>2, <1>7, <1>8, OffOk
<1>10. Flagged'
    BY <1>2, <1>9, FlaggedStays
<1> QED
    BY <1>3, <1>5, <1>9, <1>10, Assembled DEF Calm

LEMMA DupReadOk ==
    ASSUME Inv, TagsHold, DupsAreSafe, NEW t \in Threads, DupRead(t)
    PROVE  Inv' /\ ListStep
<1>1. pc[t] = "dup" /\ UNCHANGED <<nodes, parked, calls>>
    BY InvSays, DupReadDoes
<1>2. CASE Lends(t, 0) /\ Moves(t, "idle", NoCall, None, None)
    BY <1>1, <1>2, LeaveOk
<1>3. CASE /\ Matches(t, nodes[Base(t)]) /\ nodes[Base(t)].next # 0
           /\ Moves(t, "dupCas", call[t], pred[t], Snap(Base(t))) /\ UNCHANGED held
  <2>1. ~ Alone(t) /\ call[t].md \in Descriptors /\ Base(t) \in Indices
    <3>1. ~ Alone(t) /\ call[t].md \in Descriptors
        BY <1>1, InvSays, Doing
    <3> QED
        BY <3>1 DEF Descriptors
  <2>2. PICK s : s = Snap(Base(t))
      OBVIOUS
  <2>3. s \in Snapshots /\ s # None /\ s.place = Base(t) /\ s.node = nodes[Base(t)]
      BY <2>1, <2>2, InvSays, SnapIs
  <2>4. call[t] \in Calls /\ pred[t] \in Snapshots
      BY InvSays DEF Types
  <2>5. pc'[t] = "dupCas" /\ call'[t] = call[t] /\ curr'[t] = s
      BY <1>3, <2>2, InvSays, Moved
  <2>6. LocatedAt(t) /\ BorrowedAt(t)
      BY InvSays DEF Located, Borrowed
  <2>7. LocatedAt(t)'
      BY <1>1, <2>5, <2>6 DEF LocatedAt, Carving, Walking, Linking
  <2>8. Types' /\ Respects(t) /\ Calm
    <3>1. "dupCas" \in Labels \ (CarvingAt \cup {"abort"}) /\ pc[t] \notin CarvingAt
          /\ Keeping(call[t], call[t])
        BY <1>1 DEF Labels, CarvingAt, Keeping
    <3> QED
        BY <1>1, <1>3, <2>2, <2>3, <2>4, <2>7, <3>1, QuietOk
  <2>9. OwnWord(t)'
    <3>1. pc[t] \notin CarvingAt \cup (Linking \ {"link"})
          /\ pc'[t] \notin CarvingAt \cup (Linking \ {"link"})
          /\ Keeping(call'[t], call[t])
        BY <1>1, <2>5 DEF CarvingAt, Linking, Keeping
    <3> QED
        BY <1>1, <3>1, OwnWordCalm
  <2>10. CopiedAt(t)'
      BY <1>3, <2>3, <2>5 DEF CopiedAt
  <2>11. BorrowedAt(t)'
    <3>1. \A b : Kept(b) => Kept(b)'
        BY <1>1, <2>8 DEF Respects
    <3> QED
        BY <1>1, <2>5, <2>6, <3>1 DEF BorrowedAt
  <2>12. Finishes(t)'
      BY <2>5, <2>7, <2>9, <2>10, <2>11
      DEF Finishes, PrecededAt, FollowedAt, ChosenAt, Walking, Linking
  <2>13. Flagged'
      BY <2>5, <2>8, FlaggedStays
  <2> QED
      BY <2>8, <2>12, <2>13, Assembled DEF Calm
<1> QED
    BY <1>2, <1>3, InvSays, DupReadDoes

\* A dup that succeeds finds a reference to the block: its count would be 0
\* otherwise, or its version another one.
LEMMA DupFinds ==
    ASSUME Inv, DupsAreSafe, NEW t \in Threads, pc[t] = "dupCas", ~ isModified(curr[t])
    PROVE  /\ call[t].md \in Alive /\ call[t].md \in Descriptors
           /\ curr[t].place = Base(t) /\ nodes[Base(t)] = curr[t].node
           /\ Base(t) \in Indices /\ Base(t) \in UsedNodes /\ nodes[Base(t)] \in Words
           /\ ~ Alone(t) /\ call[t].need \in Nat /\ call[t].need > 0
<1>1. /\ ~ Alone(t) /\ call[t].md \in Descriptors /\ call[t].need > 0
      /\ (~ call[t].carries => call[t].op = "racyDup") /\ call[t].need \in Nat
    BY InvSays, Doing, CallFields
<1>2. Base(t) \in Indices
    BY <1>1 DEF Descriptors
<1>3. CopiedAt(t) /\ BorrowedAt(t)
    BY InvSays DEF Copied, Borrowed
<1>4. /\ curr[t].place = Base(t) /\ nodes[Base(t)] = curr[t].node
      /\ nodes[Base(t)].version = call[t].md.version /\ nodes[Base(t)].next # 0
    BY <1>3 DEF CopiedAt, isModified
<1>5. call[t].md \in Alive
  <2>1. CASE call[t].carries
      BY <2>1 DEF Alive
  <2>2. CASE ~ call[t].carries
    <3>1. call[t].op = "racyDup" /\ Kept(Base(t))
        BY <1>1, <1>3, <2>2 DEF BorrowedAt
    <3>2. "racyDup" \in Ops
        BY <3>1, InvSays, CallFields DEF Calls
    <3>3. \A u \in Threads : Owning(u) => Base(u) # Base(t)
      <4>1. SUFFICES ASSUME NEW u \in Threads, Owning(u), Base(u) = Base(t)
                     PROVE  FALSE
          OBVIOUS
      <4>2. ~ Releasing(u)
        <5>1. call[u].op \in {"none"} \cup Ops
            BY InvSays, CallFields DEF Calls
        <5> QED
            BY <3>2, <5>1 DEF DupsAreSafe, Releasing
      <4>3. pc[u] \notin Linking
          BY <4>2, InvSays, Doing
      <4>4. nodes[Base(u)].next = 0
          BY <4>1, <4>3, InvSays DEF OwnWords, OwnWord
      <4> QED
          BY <1>4, <4>1, <4>4
    <3>4. PICK d \in Alive \cup parked : d.index = Base(t)
        BY <3>1, <3>3 DEF Kept, Shared
    <3>5. d \in Alive /\ d.version = call[t].md.version
        BY <1>4, <3>4, InvSays DEF RefWords
    <3>6. d \in Descriptors
        BY <3>5, InvSays
    <3> QED
        BY <1>1, <3>4, <3>5, <3>6 DEF Descriptors
  <2> QED
      BY <2>1, <2>2
<1>6. Base(t) \in UsedNodes
    BY <1>5, InvSays DEF UsedMeans, Shared
<1> QED
    BY <1>1, <1>2, <1>4, <1>5, <1>6, InvSays, SnapIs

\* The swap of the word of an alive block writes no other descriptor's word.
LEMMA OnlyName ==
    ASSUME Inv, NEW md \in Alive, NEW w, Set(md.index, w)
    PROVE  /\ md.index \in UsedNodes /\ Shared(md.index)
           /\ \A d \in Alive \ {md} : nodes'[d.index] = nodes[d.index]
           /\ \A d \in parked : d # md /\ nodes'[d.index] = nodes[d.index]
           /\ \A u \in Threads : Alone(u) => Base(u) # md.index
<1>1. \A d \in Alive \cup parked : d.index \in UsedNodes
    BY InvSays DEF UsedMeans, Shared
<1>2. UsedNodes \subseteq Indices /\ Types
    BY InvSays
<1>3. \A j \in Indices \ {md.index} : nodes'[j] = nodes[j]
    BY <1>1, <1>2, Written
<1>4. \A d \in Alive \ {md} : d.index # md.index
    BY OneName
<1>5. \A d \in parked : d # md /\ d.index # md.index
    BY OneName
<1>6. Shared(md.index)
    BY DEF Shared
<1>7. \A u \in Threads : Alone(u) => Base(u) # md.index
    BY <1>6, InvSays DEF Exclusive
<1> QED
    BY <1>1, <1>2, <1>3, <1>4, <1>5, <1>6, <1>7

LEMMA DupCasOk ==
    ASSUME Inv, TagsHold, CountsFit, DupsAreSafe, NEW t \in Threads, DupCas(t)
    PROVE  Inv' /\ ListStep
<1>0. SUFFICES ASSUME NEW md, md = call[t].md, NEW b, b = Base(t), NEW n, n = call[t].need,
                      NEW w, w = [curr[t].node EXCEPT !.next = (@ + call[t].need) % NextMod]
               PROVE  Inv' /\ ListStep
    OBVIOUS
<1>1. pc[t] = "dupCas" /\ UNCHANGED <<parked, calls>>
    BY InvSays, DupCasDoes
<1>2. CASE Moves(t, "dup", call[t], pred[t], None) /\ UNCHANGED <<nodes, held>>
  <2>1. LocatedAt(t)
      BY InvSays DEF Located
  <2>2. pc'[t] = "dup" /\ call'[t] = call[t]
      BY <1>2, InvSays, Moved
  <2>3. LocatedAt(t)'
      BY <1>1, <2>1, <2>2 DEF LocatedAt, Carving, Walking, Linking
  <2>4. call[t] \in Calls /\ pred[t] \in Snapshots /\ None \in Snapshots
        /\ Keeping(call[t], call[t])
      BY InvSays DEF Types, Snapshots, Keeping
  <2> QED
      BY <1>1, <1>2, <2>3, <2>4, BlankOk DEF CarvingAt, Linking
<1>3. SUFFICES ASSUME ~ isModified(curr[t]), Set(curr[t].place, w),
                      Hold(call[t].md, call[t].need + Lent(t)),
                      Moves(t, "idle", NoCall, None, None)
               PROVE  Inv' /\ ListStep
    BY <1>0, <1>2, InvSays, DupCasDoes
<1>4. /\ md \in Alive /\ md \in Descriptors /\ md.index = b
      /\ curr[t].place = b /\ nodes[b] = curr[t].node
      /\ b \in Indices /\ b \in UsedNodes /\ nodes[b] \in Words
      /\ ~ Alone(t) /\ n \in Nat /\ n > 0
    BY <1>0, <1>1, <1>3, DupFinds
<1>5. /\ w \in Words /\ w.version = nodes[b].version /\ w.count = nodes[b].count
      /\ w.next = nodes[b].next + n
  <2>1. curr[t].node.next + n < NextMod
      BY <1>0, <1>1 DEF CountsFit
  <2>2. nodes[b].next \in Nat
      BY <1>4, WordParts
  <2>3. PICK r \in Nat : r = nodes[b].next + n
      BY <1>4, <2>2
  <2>4. r < NextMod /\ NextMod \in Nat
      BY <1>4, <2>1, <2>3, NextModAssumption
  <2>5. r % NextMod = r /\ r \in 0 .. NextMod - 1
      BY <2>3, <2>4
  <2> QED
      BY <1>0, <1>4, <2>3, <2>5 DEF Words
<1>6. Set(b, w) /\ Set(md.index, w)
    BY <1>3, <1>4
<1>7. nodes'[b] = w /\ nodes' \in [Indices -> Words]
    BY <1>4, <1>5, <1>6, InvSays, Written
<1>8. pc'[t] = "idle" /\ call'[t] = NoCall /\ Others(t)
    BY <1>3, InvSays, Moved DEF Others
<1>9. Finishes(t)' /\ ~ Alone(t)' /\ ~ call'[t].carries
    BY <1>8, IdleFinishes
<1>10. RefsGain(md, n) /\ Bagged'
  <2>1. Lent(t) \in Nat
      BY DEF Lent
  <2> QED
      BY <1>0, <1>3, <1>4, <1>8, <1>9, <2>1, InvSays, RefsMore
<1>11. Types'
  <2>1. "idle" \in Labels /\ NoCall \in Calls /\ None \in Snapshots
      BY InvSays, CallFields DEF Labels, Snapshots
  <2>2. parked' \subseteq Descriptors /\ calls' \in 0 .. MaxCalls
      BY <1>1, InvSays DEF Types
  <2> QED
      BY <1>3, <1>7, <1>10, <2>1, <2>2, InvSays, TypesNext
<1>12. Located'
    BY <1>8, <1>9, LocatedNext DEF Finishes
<1>13. Alive' = Alive
  <2>1. \A d : d \in Alive' <=> Refs(d)' > 0
      BY <1>11, <1>12, AliveIsNext
  <2>2. \A d : (d \in Alive <=> Refs(d) > 0) /\ Refs(d) \in Nat
      BY InvSays, RefsNat
  <2>3. \A d : d \in Alive' <=> d \in Alive
      BY <1>4, <1>10, <2>1, <2>2 DEF RefsGain
  <2> QED
      BY <2>3
<1>14. \A x : Shared(x)' <=> Shared(x)
    BY <1>1, <1>13 DEF Shared
<1>15. /\ \A u \in Threads \ {t} : /\ (Alone(u)' <=> Alone(u)) /\ (Owning(u)' <=> Owning(u))
                                   /\ Base(u)' = Base(u)
       /\ \A x : Single(x)' <=> Single(x)
    BY <1>4, <1>8, <1>9, ElsewhereStays
<1>16. UsedNodes' = UsedNodes
  <2>1. UsedMeans' /\ UsedMeans
      BY <1>11, <1>12, InvSays, UsedIsNext
  <2>2. \A x : x \in UsedNodes' <=> x \in UsedNodes
      BY <1>14, <1>15, <2>1 DEF UsedMeans
  <2> QED
      BY <2>2
<1>17. Exclusive'
  <2>1. Exclusive
      BY InvSays
  <2>2. \A u \in Threads : Alone(u)' => u # t /\ Alone(u) /\ Base(u)' = Base(u)
      BY <1>9, <1>15
  <2> QED
      BY <1>14, <2>1, <2>2 DEF Exclusive
<1>18. /\ Shared(b)
       /\ \A d \in Alive \ {md} : nodes'[d.index] = nodes[d.index]
       /\ \A d \in parked : d # md /\ nodes'[d.index] = nodes[d.index]
       /\ \A u \in Threads : Alone(u) => Base(u) # b
    BY <1>4, <1>6, OnlyName
<1>19. RefWords'
  <2>1. RefWords
      BY InvSays
  <2>2. Refs(md)' = Refs(md) + n /\ \A d \in Alive \ {md} : Refs(d)' = Refs(d)
      BY <1>10 DEF RefsGain
  <2>3. nodes'[md.index].version = md.version /\ nodes'[md.index].next = Refs(md)'
    <3>1. nodes[b].version = md.version /\ nodes[b].next = Refs(md)
        BY <1>4, <2>1 DEF RefWords
    <3> QED
        BY <1>4, <1>5, <1>7, <2>2, <3>1
  <2>4. \A d \in Alive \ {md} :
           nodes'[d.index].version = d.version /\ nodes'[d.index].next = Refs(d)'
      BY <1>18, <2>1, <2>2 DEF RefWords
  <2>5. \A d \in parked : nodes'[d.index].version = d.version /\ nodes'[d.index].next = 0
      BY <1>18, <2>1 DEF RefWords
  <2> QED
      BY <1>1, <1>13, <2>3, <2>4, <2>5 DEF RefWords
<1>20. Respects(t) /\ Calm
  <2>1. \A x : Kept(x) => Kept(x)'
      BY <1>4, <1>14, <1>15 DEF Kept, Alone
  <2>2. Recounts(nodes[b].next, w.next)
    <3>1. call[t].need \in Deltas
        BY <1>1, InvSays, Doing
    <3>2. nodes[b].next # 0
        BY <1>1, <1>4, InvSays DEF Copied, CopiedAt
    <3>3. nodes[b].next \in Nat
        BY <1>4, WordParts
    <3> QED
        BY <1>0, <1>5, <3>1, <3>2, <3>3 DEF Recounts
  <2> QED
      BY <1>1, <1>4, <1>5, <1>6, <1>8, <1>9, <1>11, <1>12, <1>14, <1>16, <1>17, <1>18, <1>19,
         <2>1, <2>2, RefStoreOk DEF Alone
<1>21. Flagged'
    BY <1>8, <1>20, FlaggedStays
<1> QED
    BY <1>9, <1>11, <1>20, <1>21, Assembled DEF Calm

LEMMA DupNewReadOk ==
    ASSUME Inv, TagsHold, DupsAreSafe, NEW t \in Threads, DupNewRead(t)
    PROVE  Inv' /\ ListStep
<1>1. pc[t] = "dupNew" /\ UNCHANGED <<nodes, held, parked, calls>>
    BY InvSays, DupNewReadDoes
<1>2. Owning(t) /\ Alone(t) /\ call[t].md \in Descriptors /\ Base(t) \in Indices
  <2>1. Owning(t) /\ Alone(t)
      BY <1>1, InvSays, Doing DEF Alone
  <2> QED
      BY <2>1, OwnIndex
<1>3. Matches(t, nodes[Base(t)]) /\ nodes[Base(t)].next = 0
    BY <1>1, <1>2, InvSays DEF OwnWords, OwnWord, Linking
<1>4. Moves(t, "dupNewCas", call[t], pred[t], Snap(Base(t)))
    BY <1>3, InvSays, DupNewReadDoes
<1>5. PICK s : s = Snap(Base(t))
    OBVIOUS
<1>6. s \in Snapshots /\ s = [place |-> Base(t), node |-> nodes[Base(t)]]
    BY <1>2, <1>5, InvSays, SnapIs DEF Snap
<1>7. call[t] \in Calls /\ pred[t] \in Snapshots
    BY InvSays DEF Types
<1>8. pc'[t] = "dupNewCas" /\ call'[t] = call[t] /\ curr'[t] = s
    BY <1>4, <1>5, InvSays, Moved
<1>9. LocatedAt(t)'
  <2>1. LocatedAt(t)
      BY InvSays DEF Located
  <2> QED
      BY <1>1, <1>8, <2>1 DEF LocatedAt, Carving, Walking, Linking
<1>10. Types' /\ Respects(t) /\ Calm
  <2>1. "dupNewCas" \in Labels \ (CarvingAt \cup {"abort"}) /\ pc[t] \notin CarvingAt
        /\ Keeping(call[t], call[t])
      BY <1>1 DEF Labels, CarvingAt, Keeping
  <2> QED
      BY <1>1, <1>4, <1>5, <1>6, <1>7, <1>9, <2>1, QuietOk
<1>11. OwnWord(t)'
  <2>1. pc[t] \notin CarvingAt \cup (Linking \ {"link"})
        /\ pc'[t] \notin CarvingAt \cup (Linking \ {"link"})
        /\ Keeping(call'[t], call[t])
      BY <1>1, <1>8 DEF CarvingAt, Linking, Keeping
  <2> QED
      BY <1>1, <2>1, OwnWordCalm
<1>12. CopiedAt(t)'
  <2>1. Snap(Base(t))' = s
      BY <1>1, <1>6, <1>8 DEF Snap
  <2> QED
      BY <1>8, <2>1 DEF CopiedAt
<1>13. Finishes(t)'
    BY <1>8, <1>9, <1>11, <1>12
    DEF Finishes, BorrowedAt, PrecededAt, FollowedAt, ChosenAt, Walking, Linking
<1>14. Flagged'
    BY <1>8, <1>10, FlaggedStays
<1> QED
    BY <1>10, <1>13, <1>14, Assembled DEF Calm

LEMMA DupNewCasOk ==
    ASSUME Inv, TagsHold, DupsAreSafe, NEW t \in Threads, DupNewCas(t)
    PROVE  Inv' /\ ListStep
<1>0. SUFFICES ASSUME NEW v, v = Bump(call[t].md.version), NEW b, b = Base(t),
                      NEW md, md = [call[t].md EXCEPT !.version = v],
                      NEW w, w = [curr[t].node EXCEPT !.version = v, !.next = 1]
               PROVE  Inv' /\ ListStep
    OBVIOUS
<1>1. pc[t] = "dupNewCas" /\ UNCHANGED <<parked, calls>>
    BY InvSays, DupNewCasDoes
<1>2. /\ Owning(t) /\ Alone(t) /\ ~ Carving(t) /\ ~ call[t].carries
      /\ call[t].md \in Descriptors /\ b \in Indices /\ b \in UsedNodes /\ nodes[b] \in Words
  <2>1. Owning(t) /\ Alone(t) /\ ~ Carving(t) /\ ~ call[t].carries
      BY <1>1, InvSays, Doing DEF Alone
  <2> QED
      BY <1>0, <2>1, OwnIndex
<1>3. curr[t].place = b /\ curr[t].node = nodes[b] /\ ~ isModified(curr[t])
  <2>1. curr[t] = Snap(Base(t))
      BY <1>1, InvSays DEF Copied, CopiedAt
  <2> QED
      BY <1>0, <1>2, <2>1, InvSays, SnapIs
<1>4. /\ Set(b, w) /\ Hold(md, 1) /\ Moves(t, "idle", NoCall, None, None)
    BY <1>0, <1>3, InvSays, DupNewCasDoes
<1>5. v \in Versions /\ md \in Descriptors /\ md.index = b /\ md.version = v
  <2>1. v \in Versions
      BY <1>0, <1>2, BumpMoves DEF Descriptors
  <2> QED
      BY <1>0, <1>2, <2>1 DEF Descriptors
<1>6. w \in Words /\ w.version = v /\ w.count = nodes[b].count /\ w.next = 1
  <2>1. 1 \in 0 .. NextMod - 1
      BY PlacesAre
  <2> QED
      BY <1>0, <1>2, <1>3, <1>5, <2>1 DEF Words
<1>7. /\ nodes'[b] = w /\ (\A j \in Indices \ {b} : nodes'[j] = nodes[j])
      /\ nodes' \in [Indices -> Words]
    BY <1>2, <1>4, <1>6, InvSays, Written
<1>8. pc'[t] = "idle" /\ call'[t] = NoCall /\ Others(t)
    BY <1>4, InvSays, Moved DEF Others
<1>9. Finishes(t)' /\ ~ Alone(t)' /\ ~ call'[t].carries
    BY <1>8, IdleFinishes
<1>10. RefsGain(md, 1) /\ Bagged'
  <2>1. Lent(t) = 0
      BY <1>2 DEF Lent
  <2> QED
      BY <1>2, <1>4, <1>5, <1>8, <1>9, <2>1, InvSays, RefsMore
<1>11. Types'
  <2>1. "idle" \in Labels /\ NoCall \in Calls /\ None \in Snapshots
      BY InvSays, CallFields DEF Labels, Snapshots
  <2>2. parked' \subseteq Descriptors /\ calls' \in 0 .. MaxCalls
      BY <1>1, InvSays DEF Types
  <2> QED
      BY <1>4, <1>7, <1>10, <2>1, <2>2, InvSays, TypesNext
<1>12. Located'
    BY <1>8, <1>9, LocatedNext DEF Finishes
<1>13. Refs(md) = 0 /\ ~ Shared(b)
  <2>1. ~ Shared(b)
      BY <1>0, <1>2, InvSays DEF Exclusive
  <2>2. md \notin Alive /\ Refs(md) \in Nat
      BY <1>5, <2>1, InvSays, RefsNat DEF Shared
  <2> QED
      BY <2>1, <2>2, InvSays
<1>14. Alive' = Alive \cup {md}
  <2>1. \A d : d \in Alive' <=> Refs(d)' > 0
      BY <1>11, <1>12, AliveIsNext
  <2>2. \A d : d \in Alive <=> Refs(d) > 0
      BY InvSays
  <2>3. \A d : d \in Alive' <=> d \in Alive \/ d = md
      BY <1>10, <1>13, <2>1, <2>2 DEF RefsGain
  <2> QED
      BY <2>3
<1>15. \A x : Shared(x)' <=> Shared(x) \/ x = b
    BY <1>1, <1>5, <1>14 DEF Shared
<1>16. /\ \A u \in Threads \ {t} : /\ (Alone(u)' <=> Alone(u)) /\ (Owning(u)' <=> Owning(u))
                                   /\ Base(u)' = Base(u)
       /\ \A x : Single(x) <=> Elsewhere(t, x) \/ x = b
       /\ \A x : Single(x)' <=> Elsewhere(t, x)
    BY <1>0, <1>2, <1>8, <1>9, ElsewhereStays
<1>17. UsedNodes' = UsedNodes
  <2>1. UsedMeans' /\ UsedMeans
      BY <1>11, <1>12, InvSays, UsedIsNext
  <2>2. \A x : x \in UsedNodes' <=> x \in UsedNodes
      BY <1>15, <1>16, <2>1 DEF UsedMeans
  <2> QED
      BY <2>2
<1>18. \A u \in Threads \ {t} : Alone(u) => Base(u) # b
    BY <1>0, <1>2, InvSays DEF Exclusive
<1>19. Exclusive'
  <2>1. Exclusive
      BY InvSays
  <2>2. \A u \in Threads : Alone(u)' => u # t /\ Alone(u) /\ Base(u)' = Base(u) /\ Base(u) # b
      BY <1>9, <1>16, <1>18
  <2> QED
      BY <1>15, <2>1, <2>2 DEF Exclusive
<1>20. RefWords'
  <2>1. UsedNodes \subseteq Indices /\ \A d \in Alive \cup parked : d.index \in UsedNodes
      BY InvSays DEF UsedMeans, Shared
  <2>2. \A d \in Alive \cup parked : nodes'[d.index] = nodes[d.index] /\ d # md
      BY <1>5, <1>7, <1>13, <2>1 DEF Shared
  <2>3. RefWords
      BY InvSays
  <2>4. Refs(md)' = 1 /\ \A d \in Alive : Refs(d)' = Refs(d)
      BY <1>10, <1>13, <2>2 DEF RefsGain
  <2>5. nodes'[md.index].version = md.version /\ nodes'[md.index].next = 1
      BY <1>5, <1>6, <1>7
  <2> QED
      BY <1>1, <1>14, <2>2, <2>3, <2>4, <2>5 DEF RefWords
<1>21. Respects(t) /\ Calm
  <2>1. \A x : Kept(x) => Kept(x)'
      BY <1>0, <1>2, <1>15, <1>16 DEF Kept
  <2>2. Shared(b)' /\ (Alone(t) => Base(t) = b)
      BY <1>0, <1>15
  <2> QED
      BY <1>1, <1>2, <1>4, <1>6, <1>8, <1>9, <1>11, <1>12, <1>13, <1>17, <1>18, <1>19, <1>20,
         <2>1, <2>2, RefStoreOk
<1>22. Flagged'
    BY <1>8, <1>21, FlaggedStays
<1> QED
    BY <1>9, <1>11, <1>21, <1>22, Assembled DEF Calm

LEMMA UndupReadOk ==
    ASSUME Inv, TagsHold, DupsAreSafe, NEW t \in Threads, UndupRead(t)
    PROVE  Inv' /\ ListStep
<1>0. SUFFICES ASSUME NEW c, c = [call[t] EXCEPT !.carries = FALSE]
               PROVE  Inv' /\ ListStep
    OBVIOUS
<1>1. pc[t] = "undup" /\ UNCHANGED <<nodes, held, calls>>
    BY InvSays, UndupReadDoes
<1>2. /\ call[t].md \in Descriptors /\ Base(t) \in Indices
      /\ (Owning(t) <=> ~ call[t].carries) /\ (Owning(t) => Releasing(t))
  <2>1. /\ call[t].md \in Descriptors
        /\ (Owning(t) <=> ~ call[t].carries) /\ (Owning(t) => Releasing(t))
      BY <1>1, InvSays, Doing
  <2> QED
      BY <2>1 DEF Descriptors
<1>3. nodes[Base(t)].version = call[t].md.version
      /\ (call[t].carries <=> nodes[Base(t)].next # 0)
  <2>1. CASE call[t].carries
    <3>1. call[t].md \in Alive
        BY <2>1 DEF Alive
    <3>2. nodes[Base(t)].version = call[t].md.version
          /\ nodes[Base(t)].next = Refs(call[t].md) /\ Refs(call[t].md) > 0
        BY <3>1, InvSays DEF RefWords
    <3>3. Refs(call[t].md) # 0
        BY <3>2
    <3> QED
        BY <2>1, <3>2, <3>3
  <2>2. CASE Owning(t)
    <3>1. nodes[Base(t)].version = call[t].md.version /\ nodes[Base(t)].next = 0
        BY <1>1, <2>2, InvSays DEF OwnWords, OwnWord, Linking
    <3> QED
        BY <1>2, <2>2, <3>1
  <2> QED
      BY <1>2, <2>1, <2>2
<1>4. call[t] \in Calls /\ pred[t] \in Snapshots /\ None \in Snapshots
    BY InvSays DEF Types, Snapshots
<1>5. CASE nodes[Base(t)].next = 0 /\ Keeps(t)
  <2>1. ~ call[t].carries /\ Releasing(t)
      BY <1>2, <1>3, <1>5
  <2>2. Moves(t, "head", c, pred[t], None) /\ UNCHANGED parked
      BY <1>0, <1>5, <2>1 DEF Keeps
  <2>3. /\ c \in Calls /\ c.md = call[t].md /\ c.op = call[t].op /\ c.need = call[t].need
        /\ ~ c.carries /\ Keeping(c, call[t])
    <3>1. /\ c \in Calls /\ c.md = call[t].md /\ c.op = call[t].op /\ c.need = call[t].need
          /\ c.carries = FALSE
        BY <1>0, <1>4, InvSays, CallFields
    <3> QED
        BY <2>1, <3>1 DEF Keeping
  <2>4. pc'[t] = "head" /\ call'[t] = c
      BY <2>2, InvSays, Moved
  <2>5. LocatedAt(t)'
      BY <1>2, <2>1, <2>3, <2>4 DEF LocatedAt, Searching, Releasing, Carving, Linking, Walking
  <2>6. pc[t] \notin CarvingAt \cup (Linking \ {"link"})
      BY <1>1 DEF CarvingAt, Linking
  <2> QED
      BY <1>1, <1>4, <2>2, <2>3, <2>5, <2>6, BlankOk
<1>6. CASE /\ nodes[Base(t)].next # 0 /\ UNCHANGED parked
           /\ Moves(t, "undupCas", call[t], pred[t], Snap(Base(t)))
  <2>1. PICK s : s = Snap(Base(t))
      OBVIOUS
  <2>2. s \in Snapshots /\ s # None /\ s.place = Base(t) /\ s.node = nodes[Base(t)]
      BY <1>2, <2>1, InvSays, SnapIs
  <2>3. pc'[t] = "undupCas" /\ call'[t] = call[t] /\ curr'[t] = s
      BY <1>6, <2>1, InvSays, Moved
  <2>4. LocatedAt(t)'
    <3>1. LocatedAt(t) /\ call[t].carries
        BY <1>3, <1>6, InvSays DEF Located
    <3> QED
        BY <1>1, <2>3, <3>1 DEF LocatedAt, Carving, Releasing, Walking, Linking
  <2>5. Types' /\ Respects(t) /\ Calm
    <3>1. "undupCas" \in Labels \ (CarvingAt \cup {"abort"}) /\ pc[t] \notin CarvingAt
          /\ Keeping(call[t], call[t])
        BY <1>1 DEF Labels, CarvingAt, Keeping
    <3> QED
        BY <1>1, <1>4, <1>6, <2>1, <2>2, <2>4, <3>1, QuietOk
  <2>6. OwnWord(t)'
    <3>1. pc[t] \notin CarvingAt \cup (Linking \ {"link"})
          /\ pc'[t] \notin CarvingAt \cup (Linking \ {"link"})
          /\ Keeping(call'[t], call[t])
        BY <1>1, <2>3 DEF CarvingAt, Linking, Keeping
    <3> QED
        BY <1>1, <3>1, OwnWordCalm
  <2>7. CopiedAt(t)'
      BY <1>3, <1>6, <2>2, <2>3 DEF CopiedAt
  <2>8. Finishes(t)'
      BY <2>3, <2>4, <2>6, <2>7
      DEF Finishes, BorrowedAt, PrecededAt, FollowedAt, ChosenAt, Walking, Linking
  <2>9. Flagged'
      BY <2>3, <2>5, FlaggedStays
  <2> QED
      BY <2>5, <2>8, <2>9, Assembled DEF Calm
<1> QED
    BY <1>3, <1>5, <1>6, InvSays, UndupReadDoes

\* undup takes one reference away: another one is left.
LEMMA UndupSome ==
    ASSUME Inv, TagsHold, DupsAreSafe, NEW t \in Threads, pc[t] = "undupCas",
           NEW md, md = call[t].md, md \in Alive, NEW w \in Words, Set(md.index, w),
           w.version = md.version, w.count = nodes[md.index].count,
           w.next + 1 = Refs(md), w.next # 0, call[t].carries, ~ Alone(t),
           UNCHANGED <<held, parked, calls>>, Moves(t, "idle", NoCall, None, None)
    PROVE  Inv' /\ ListStep
<1>1. PICK b : b = md.index
    OBVIOUS
<1>2. /\ b \in UsedNodes /\ b \in Indices /\ Shared(b)
      /\ \A d \in Alive \ {md} : nodes'[d.index] = nodes[d.index]
      /\ \A d \in parked : d # md /\ nodes'[d.index] = nodes[d.index]
      /\ \A u \in Threads : Alone(u) => Base(u) # b
  <2>1. UsedNodes \subseteq Indices
      BY InvSays
  <2> QED
      BY <1>1, <2>1, OnlyName
<1>3. nodes'[b] = w /\ nodes' \in [Indices -> Words]
    BY <1>1, <1>2, InvSays, Written
<1>4. pc'[t] = "idle" /\ call'[t] = NoCall /\ Others(t)
    BY InvSays, Moved DEF Others
<1>5. Finishes(t)' /\ ~ Alone(t)' /\ ~ call'[t].carries
    BY <1>4, IdleFinishes
<1>6. RefsLose(md) /\ Bagged'
    BY <1>4, <1>5, InvSays, RefsLess
<1>7. Types'
  <2>1. "idle" \in Labels /\ NoCall \in Calls /\ None \in Snapshots
      BY InvSays, CallFields DEF Labels, Snapshots
  <2>2. parked' \subseteq Descriptors /\ calls' \in 0 .. MaxCalls
      BY InvSays DEF Types
  <2> QED
      BY <1>3, <1>6, <2>1, <2>2, InvSays, TypesNext
<1>8. Located'
    BY <1>4, <1>5, LocatedNext DEF Finishes
<1>9. w.next \in Nat /\ w.next > 0 /\ Refs(md) > 1 /\ Refs(md) \in Nat
  <2>1. w.next \in Nat /\ Refs(md) \in Nat
      BY WordParts, InvSays, RefsNat
  <2> QED
      BY <2>1
<1>10. Alive' = Alive
  <2>1. \A d : d \in Alive' <=> Refs(d)' > 0
      BY <1>7, <1>8, AliveIsNext
  <2>2. \A d : d \in Alive <=> Refs(d) > 0
      BY InvSays
  <2>3. \A d : d \in Alive' <=> d \in Alive
      BY <1>6, <1>9, <2>1, <2>2 DEF RefsLose
  <2> QED
      BY <2>3
<1>11. \A x : Shared(x)' <=> Shared(x)
    BY <1>10 DEF Shared
<1>12. /\ \A u \in Threads \ {t} : /\ (Alone(u)' <=> Alone(u)) /\ (Owning(u)' <=> Owning(u))
                                   /\ Base(u)' = Base(u)
       /\ \A x : Single(x)' <=> Single(x)
    BY <1>4, <1>5, ElsewhereStays
<1>13. UsedNodes' = UsedNodes
  <2>1. UsedMeans' /\ UsedMeans
      BY <1>7, <1>8, InvSays, UsedIsNext
  <2>2. \A x : x \in UsedNodes' <=> x \in UsedNodes
      BY <1>11, <1>12, <2>1 DEF UsedMeans
  <2> QED
      BY <2>2
<1>14. Exclusive'
  <2>1. Exclusive
      BY InvSays
  <2>2. \A u \in Threads : Alone(u)' => u # t /\ Alone(u) /\ Base(u)' = Base(u)
      BY <1>5, <1>12
  <2> QED
      BY <1>11, <2>1, <2>2 DEF Exclusive
<1>15. RefWords'
  <2>1. RefWords
      BY InvSays
  <2>2. Refs(md)' = w.next /\ \A d \in Alive \ {md} : Refs(d)' = Refs(d)
      BY <1>6, <1>9 DEF RefsLose
  <2>3. nodes'[md.index].version = md.version /\ nodes'[md.index].next = Refs(md)'
      BY <1>1, <1>3, <2>2
  <2>4. \A d \in Alive \ {md} :
           nodes'[d.index].version = d.version /\ nodes'[d.index].next = Refs(d)'
      BY <1>2, <2>1, <2>2 DEF RefWords
  <2>5. \A d \in parked : nodes'[d.index].version = d.version /\ nodes'[d.index].next = 0
      BY <1>2, <2>1 DEF RefWords
  <2> QED
      BY <1>10, <2>3, <2>4, <2>5 DEF RefWords
<1>16. Respects(t) /\ Calm
  <2>1. \A x : Kept(x) => Kept(x)'
      BY <1>11, <1>12 DEF Kept, Alone
  <2>2. Set(b, w) /\ w.count = nodes[b].count /\ Shared(b)'
      BY <1>1, <1>2, <1>11
  <2>3. nodes[b].next = Refs(md)
      BY <1>1, InvSays DEF RefWords
  <2>4. Recounts(nodes[b].next, w.next) /\ ~ Owning(t)
      BY <1>9, <2>3 DEF Recounts, Alone
  <2> QED
      BY <1>2, <1>4, <1>5, <1>7, <1>8, <1>13, <1>14, <1>15, <2>1, <2>2, <2>4, RefStoreOk
<1>17. Flagged'
    BY <1>4, <1>16, FlaggedStays
<1> QED
    BY <1>5, <1>7, <1>16, <1>17, Assembled DEF Calm

\* ... or the last one: its caller keeps the block, to return it to the list
\* or to leave it to whoever finds it parked.
LEMMA UndupLast ==
    ASSUME Inv, TagsHold, DupsAreSafe, NEW t \in Threads, pc[t] = "undupCas",
           NEW md, md = call[t].md, md \in Alive, NEW w \in Words, Set(md.index, w),
           w.version = md.version, w.count = nodes[md.index].count,
           Refs(md) = 1, w.next = 0, call[t].carries, ~ Alone(t),
           UNCHANGED <<held, calls>>, NEW label \in {"head", "idle"},
           NEW c \in Calls, NEW p \in Snapshots, NEW s \in Snapshots,
           Moves(t, label, c, p, s), LocatedAt(t)', ~ c.carries,
           parked' = IF label = "idle" THEN parked \cup {md} ELSE parked,
           label = "idle" => c = NoCall, label = "head" => Owning(t)' /\ c.md = md
    PROVE  Inv' /\ ListStep
<1>1. PICK b : b = md.index
    OBVIOUS
<1>2. /\ b \in UsedNodes /\ b \in Indices /\ Shared(b) /\ md \in Descriptors
      /\ \A d \in Alive \ {md} : nodes'[d.index] = nodes[d.index]
      /\ \A d \in parked : d # md /\ nodes'[d.index] = nodes[d.index]
      /\ \A u \in Threads : Alone(u) => Base(u) # b
  <2>1. UsedNodes \subseteq Indices /\ md \in Descriptors
      BY InvSays
  <2> QED
      BY <1>1, <2>1, OnlyName
<1>3. nodes'[b] = w /\ nodes' \in [Indices -> Words]
    BY <1>1, <1>2, InvSays, Written
<1>4. pc'[t] = label /\ call'[t] = c /\ Others(t)
    BY InvSays, Moved DEF Others
<1>5. ~ call'[t].carries
    BY <1>4
<1>6. RefsLose(md) /\ Bagged'
    BY <1>4, <1>5, InvSays, RefsLess
<1>7. Types'
  <2>1. label \in Labels
      BY DEF Labels
  <2>2. parked' \subseteq Descriptors /\ calls' \in 0 .. MaxCalls
      BY <1>2, InvSays DEF Types
  <2> QED
      BY <1>3, <1>6, <2>1, <2>2, InvSays, TypesNext
<1>8. Located'
    BY <1>4, LocatedNext
<1>9. /\ label = "idle" => ~ Alone(t)'
      /\ label = "head" => Owning(t)' /\ Alone(t)' /\ Base(t)' = b
  <2>1. label = "idle" => ~ Alone(t)'
      BY <1>4, IdleFinishes
  <2>2. label = "head" => Alone(t)' /\ Base(t)' = b
      BY <1>1, <1>4 DEF Alone
  <2> QED
      BY <2>1, <2>2
<1>10. Alive' = Alive \ {md}
  <2>1. \A d : d \in Alive' <=> Refs(d)' > 0
      BY <1>7, <1>8, AliveIsNext
  <2>2. \A d : d \in Alive <=> Refs(d) > 0
      BY InvSays
  <2>3. \A d : d \in Alive' <=> d \in Alive \ {md}
      BY <1>6, <2>1, <2>2 DEF RefsLose
  <2> QED
      BY <2>3
<1>11. \A d \in Alive \cup parked : d # md => d.index # b
    BY <1>1, OneName
<1>12. \A x : Shared(x)' <=> IF x = b THEN label = "idle" ELSE Shared(x)
  <2>1. \A x : Shared(x)' <=> \E d \in Alive' \cup parked' : d.index = x
      BY DEF Shared
  <2>2. CASE label = "idle"
    <3>1. Alive' \cup parked' = Alive \cup parked
        BY <1>10, <2>2
    <3> QED
        BY <1>2, <2>1, <2>2, <3>1 DEF Shared
  <2>3. CASE label = "head"
    <3>1. Alive' \cup parked' = (Alive \cup parked) \ {md}
        BY <1>2, <1>10, <2>3
    <3> QED
        BY <1>1, <1>11, <2>1, <2>3, <3>1 DEF Shared
  <2> QED
      BY <2>2, <2>3
<1>13. /\ \A u \in Threads \ {t} : /\ (Alone(u)' <=> Alone(u)) /\ (Owning(u)' <=> Owning(u))
                                   /\ Base(u)' = Base(u)
       /\ \A x : Single(x) <=> Elsewhere(t, x)
       /\ \A x : Single(x)' <=> Elsewhere(t, x) \/ (label = "head" /\ x = b)
    BY <1>4, <1>9, ElsewhereStays
<1>14. UsedNodes' = UsedNodes
  <2>1. UsedMeans' /\ UsedMeans
      BY <1>7, <1>8, InvSays, UsedIsNext
  <2>2. \A x : x \in UsedNodes' <=> x \in UsedNodes
      BY <1>2, <1>12, <1>13, <2>1 DEF UsedMeans
  <2> QED
      BY <2>2
<1>15. Exclusive'
  <2>1. Exclusive
      BY InvSays
  <2>2. \A u \in Threads \ {t} : Alone(u)' => Alone(u) /\ Base(u)' = Base(u) /\ Base(u) # b
      BY <1>2, <1>13
  <2>3. Alone(t)' => Base(t)' = b /\ label = "head"
      BY <1>9
  <2> QED
      BY <1>12, <2>1, <2>2, <2>3 DEF Exclusive
<1>16. RefWords'
  <2>1. RefWords
      BY InvSays
  <2>2. \A d \in Alive \ {md} : Refs(d)' = Refs(d)
      BY <1>6 DEF RefsLose
  <2>3. nodes'[md.index].version = md.version /\ nodes'[md.index].next = 0
      BY <1>1, <1>3
  <2>4. \A d \in Alive \ {md} :
           nodes'[d.index].version = d.version /\ nodes'[d.index].next = Refs(d)'
      BY <1>2, <2>1, <2>2 DEF RefWords
  <2>5. \A d \in parked : nodes'[d.index].version = d.version /\ nodes'[d.index].next = 0
      BY <1>2, <2>1 DEF RefWords
  <2>6. parked' \subseteq parked \cup {md}
      OBVIOUS
  <2> QED
      BY <1>10, <2>3, <2>4, <2>5, <2>6 DEF RefWords
<1>17. Respects(t) /\ Calm
  <2>1. \A x : Kept(x) => Kept(x)'
    <3>1. \A x : Shared(x) => Shared(x)' \/ (x = b /\ label = "head")
        BY <1>12
    <3>2. \A u \in Threads : Owning(u) => Owning(u)' /\ Base(u)' = Base(u)
        BY <1>13 DEF Alone
    <3>3. label = "head" => Kept(b)'
        BY <1>9 DEF Kept
    <3> QED
        BY <3>1, <3>2, <3>3 DEF Kept
  <2>2. Set(b, w) /\ w.count = nodes[b].count /\ (Shared(b)' \/ (Owning(t)' /\ w.next = 0))
      BY <1>1, <1>9, <1>12
  <2>3. Alone(t)' => Base(t)' = b
      BY <1>9
  <2>4. nodes[b].next = Refs(md)
      BY <1>1, InvSays DEF RefWords
  <2>5. Recounts(nodes[b].next, w.next) /\ ~ Owning(t)
      BY <2>4 DEF Recounts, Alone
  <2> QED
      BY <1>2, <1>4, <1>7, <1>8, <1>14, <1>15, <1>16, <2>1, <2>2, <2>3, <2>5, RefStoreOk
<1>18. Finishes(t)'
  <2>1. OwnWord(t)'
    <3>1. CASE label = "idle"
        BY <1>4, <1>9, <3>1 DEF OwnWord, Alone
    <3>2. CASE label = "head"
      <4>1. (nodes[Base(t)])' = w /\ call'[t].md = md
          BY <1>3, <1>4, <1>9, <3>2
      <4> QED
          BY <1>4, <3>2, <4>1 DEF OwnWord, Linking
    <3> QED
        BY <3>1, <3>2
  <2> QED
      BY <1>4, <2>1
      DEF Finishes, CopiedAt, BorrowedAt, PrecededAt, FollowedAt, ChosenAt, Walking, Linking
<1>19. Flagged'
    BY <1>4, <1>17, FlaggedStays
<1> QED
    BY <1>7, <1>17, <1>18, <1>19, Assembled DEF Calm

LEMMA UndupCasOk ==
    ASSUME Inv, TagsHold, DupsAreSafe, NEW t \in Threads, UndupCas(t)
    PROVE  Inv' /\ ListStep
<1>0. SUFFICES ASSUME NEW md, md = call[t].md,
                      NEW w, w = [curr[t].node EXCEPT !.next = @ - 1],
                      NEW c, c = [call[t] EXCEPT !.carries = FALSE]
               PROVE  Inv' /\ ListStep
    OBVIOUS
<1>1. pc[t] = "undupCas" /\ UNCHANGED <<held, calls>>
    BY InvSays, UndupCasDoes
<1>2. call[t].carries /\ ~ Alone(t) /\ md \in Descriptors /\ md \in Alive /\ md.index \in Indices
  <2>1. call[t].carries /\ ~ Alone(t) /\ md \in Descriptors
      BY <1>0, <1>1, InvSays, Doing DEF Alone
  <2> QED
      BY <1>0, <2>1 DEF Alive, Descriptors
<1>3. call[t] \in Calls /\ pred[t] \in Snapshots /\ None \in Snapshots /\ NoCall \in Calls
    BY InvSays, CallFields DEF Types, Snapshots
<1>4. CASE Moves(t, "undup", call[t], pred[t], None) /\ UNCHANGED <<nodes, parked>>
  <2>1. LocatedAt(t)
      BY InvSays DEF Located
  <2>2. pc'[t] = "undup" /\ call'[t] = call[t]
      BY <1>4, InvSays, Moved
  <2>3. LocatedAt(t)'
      BY <1>1, <2>1, <2>2 DEF LocatedAt, Releasing, Carving, Walking, Linking
  <2>4. Keeping(call[t], call[t])
      BY DEF Keeping
  <2> QED
      BY <1>1, <1>3, <1>4, <2>3, <2>4, BlankOk DEF CarvingAt, Linking
<1>5. SUFFICES ASSUME ~ isModified(curr[t]), Set(curr[t].place, w),
                      \/ w.next = 0 /\ Keeps(t)
                      \/ w.next # 0 /\ UNCHANGED parked /\ Moves(t, "idle", NoCall, None, None)
               PROVE  Inv' /\ ListStep
    BY <1>0, <1>4, InvSays, UndupCasDoes
<1>6. curr[t].place = md.index /\ nodes[md.index] = curr[t].node
  <2>1. CopiedAt(t)
      BY InvSays DEF Copied
  <2> QED
      BY <1>0, <1>1, <1>5, <2>1 DEF CopiedAt, isModified
<1>7. nodes[md.index] \in Words /\ nodes[md.index].version = md.version
      /\ nodes[md.index].next = Refs(md) /\ Refs(md) \in Nat /\ Refs(md) > 0
    BY <1>2, InvSays, SnapIs, RefsNat DEF RefWords
<1>8. /\ w \in Words /\ w.version = md.version /\ w.count = nodes[md.index].count
      /\ w.next + 1 = Refs(md)
  <2>1. Refs(md) - 1 \in 0 .. NextMod - 1
      BY <1>7, NextModAssumption DEF Words
  <2>2. w = [nodes[md.index] EXCEPT !.next = Refs(md) - 1]
      BY <1>0, <1>6, <1>7
  <2>3. w.next = Refs(md) - 1
      BY <1>7, <2>2 DEF Words
  <2> QED
      BY <1>7, <2>1, <2>2, <2>3 DEF Words
<1>9. Set(md.index, w)
    BY <1>5, <1>6
<1>10. CASE w.next # 0 /\ UNCHANGED parked /\ Moves(t, "idle", NoCall, None, None)
  <2>1. UNCHANGED <<held, parked, calls>>
      BY <1>1, <1>10
  <2> QED
      BY <1>0, <1>1, <1>2, <1>8, <1>9, <1>10, <2>1, UndupSome
<1>11. CASE w.next = 0 /\ Keeps(t)
  <2>1. Refs(md) = 1
      BY <1>7, <1>8, <1>11
  <2>2. CASE Releasing(t)
    <3>1. Moves(t, "head", c, pred[t], None) /\ UNCHANGED parked
        BY <1>0, <1>11, <2>2 DEF Keeps
    <3>2. c \in Calls /\ c.md = md /\ c.op = call[t].op /\ ~ c.carries
      <4>1. c \in Calls /\ c.md = md /\ c.op = call[t].op /\ c.carries = FALSE
          BY <1>0, <1>3, InvSays, CallFields
      <4> QED
          BY <4>1
    <3>3. pc'[t] = "head" /\ call'[t] = c
        BY <3>1, InvSays, Moved
    <3>4. LocatedAt(t)'
        BY <1>2, <2>2, <3>2, <3>3
        DEF LocatedAt, Searching, Releasing, Carving, Linking, Walking
    <3>5. Owning(t)'
      <4>1. md # None
          BY <1>2, NoneAssumption
      <4> QED
          BY <2>2, <3>2, <3>3, <4>1 DEF Owning, Carving, Releasing
    <3>6. PICK label \in {"head", "idle"} : label = "head"
        OBVIOUS
    <3>7. parked' = IF label = "idle" THEN parked \cup {md} ELSE parked
        BY <3>1, <3>6
    <3>8. Moves(t, label, c, pred[t], None)
        BY <3>1, <3>6
    <3> QED
        BY <1>0, <1>1, <1>2, <1>3, <1>8, <1>9, <1>11, <2>1, <3>2, <3>4, <3>5, <3>6, <3>7, <3>8,
           UndupLast
  <2>3. CASE ~ Releasing(t)
    <3>1. Moves(t, "idle", NoCall, None, None) /\ parked' = parked \cup {md}
        BY <1>0, <1>11, <2>3 DEF Keeps
    <3>2. pc'[t] = "idle" /\ call'[t] = NoCall
        BY <3>1, InvSays, Moved
    <3>3. LocatedAt(t)' /\ ~ NoCall.carries
        BY <3>2, IdleFinishes DEF Finishes
    <3>4. PICK label \in {"head", "idle"} : label = "idle"
        OBVIOUS
    <3>5. parked' = IF label = "idle" THEN parked \cup {md} ELSE parked
        BY <3>1, <3>4
    <3>6. Moves(t, label, NoCall, None, None)
        BY <3>1, <3>4
    <3> QED
        BY <1>0, <1>1, <1>2, <1>3, <1>8, <1>9, <1>11, <2>1, <3>3, <3>4, <3>5, <3>6, UndupLast
  <2> QED
      BY <2>2, <2>3
<1> QED
    BY <1>5, <1>10, <1>11

-----------------------------------------------------------------------------
(* Calls *)

LEMMA BeginOk ==
    ASSUME Inv, TagsHold, DupsAreSafe, NEW t \in Threads, pc[t] = "idle",
           NEW label \in {"head", "undup", "dup", "dupNew"}, NEW c,
           Moves(t, label, c, pred[t], curr[t]), UNCHANGED nodes,
           Types', LocatedAt(t)', Carried,
           Owning(t)' => nodes[c.md.index].version = c.md.version /\ nodes[c.md.index].next = 0,
           label = "dup" /\ c.op = "racyDup" => Kept(c.md.index)
    PROVE  Inv' /\ ListStep
<1>1. pc'[t] = label /\ call'[t] = c /\ Others(t)
    BY InvSays, Moved DEF Others
<1>2. Respects(t) /\ Calm
  <2>1. OwnWrites(t)
      BY DEF OwnWrites
  <2> QED
      BY <1>1, <2>1, OffOk
<1>3. OwnWord(t)'
    BY <1>1 DEF OwnWord, Linking
<1>4. BorrowedAt(t)'
  <2>1. \A b : Kept(b) => Kept(b)'
      BY DEF Carried
  <2> QED
      BY <1>1, <2>1 DEF BorrowedAt
<1>5. Finishes(t)'
    BY <1>1, <1>3, <1>4
    DEF Finishes, CopiedAt, PrecededAt, FollowedAt, ChosenAt, Walking, Linking
<1>6. Flagged'
    BY <1>1, <1>2, FlaggedStays
<1> QED
    BY <1>2, <1>5, <1>6, Assembled DEF Calm

\* A call that makes no block its thread's own.
LEMMA CallShared ==
    ASSUME Inv, TagsHold, DupsAreSafe, NEW t \in Threads, pc[t] = "idle",
           NEW label \in {"head", "undup", "dup"}, NEW c \in Calls,
           Moves(t, label, c, pred[t], curr[t]), UNCHANGED <<nodes, parked>>,
           calls' \in 0 .. MaxCalls, RefsKept, Bagged', LocatedAt(t)',
           c.carries \/ c.md = None \/ c.op = "racyDup",
           label = "dup" /\ c.op = "racyDup" => Kept(c.md.index)
    PROVE  Inv' /\ ListStep
<1>1. pc'[t] = label /\ call'[t] = c /\ Others(t)
    BY InvSays, Moved DEF Others
<1>2. ~ Alone(t) /\ ~ call[t].carries
    BY InvSays, Doing
<1>3. ~ Alone(t)'
    BY <1>1 DEF Alone, Carving, Owning
<1>4. Types'
  <2>1. label \in Labels
      BY DEF Labels
  <2>2. /\ parked' \subseteq Descriptors /\ nodes' \in [Indices -> Words]
        /\ pred[t] \in Snapshots /\ curr[t] \in Snapshots
      BY InvSays DEF Types
  <2> QED
      BY <2>1, <2>2, InvSays, TypesNext
<1>5. Located'
    BY <1>1, LocatedNext
<1>6. Carried
  <2>1. Steady(t) /\ OwnWrites(t)
      BY <1>2, <1>3 DEF Steady, OwnWrites, Alone
  <2> QED
      BY <1>1, <1>2, <1>4, <1>5, <2>1, SteadyUsed DEF Alone
<1> QED
    BY <1>3, <1>4, <1>6, BeginOk DEF Alone

\* The owner of a dead block takes it up again.
LEMMA CallParked ==
    ASSUME Inv, TagsHold, DupsAreSafe, NEW t \in Threads, pc[t] = "idle",
           NEW label \in {"undup", "dupNew"}, NEW c \in Calls, NEW md \in parked,
           Moves(t, label, c, pred[t], curr[t]), UNCHANGED <<nodes, held>>,
           parked' = parked \ {md}, calls' \in 0 .. MaxCalls, LocatedAt(t)',
           c.md = md, ~ c.carries, c.op # "racyDup"
    PROVE  Inv' /\ ListStep
<1>1. pc'[t] = label /\ call'[t] = c /\ Others(t)
    BY InvSays, Moved DEF Others
<1>2. ~ Alone(t) /\ ~ call[t].carries
    BY InvSays, Doing
<1>3. md \in Descriptors /\ md # None
    BY InvSays, NoneAssumption DEF Types
<1>4. Owning(t)' /\ Alone(t)' /\ Base(t)' = md.index /\ ~ Carving(t)' /\ ~ call'[t].carries
    BY <1>1, <1>3 DEF Alone, Carving, Owning
<1>5. RefsKept /\ Bagged'
    BY <1>1, <1>2, <1>4, InvSays, RefsSame
<1>6. Types'
  <2>1. label \in Labels
      BY DEF Labels
  <2>2. /\ parked' \subseteq Descriptors /\ nodes' \in [Indices -> Words]
        /\ pred[t] \in Snapshots /\ curr[t] \in Snapshots
      BY InvSays DEF Types
  <2> QED
      BY <1>5, <2>1, <2>2, InvSays, TypesNext
<1>7. Located'
    BY <1>1, LocatedNext
<1>8. PICK b : b = md.index
    OBVIOUS
<1>9. \A d \in Alive \cup parked : d.index = b => d = md /\ d \notin Alive
    BY <1>8, OneName
<1>10. Alive' = Alive
    BY <1>5, <1>6, <1>7, AliveKept
<1>11. Shared(b) /\ \A x : Shared(x)' <=> Shared(x) /\ x # b
  <2>1. Alive' \cup parked' = (Alive \cup parked) \ {md}
      BY <1>8, <1>9, <1>10
  <2> QED
      BY <1>8, <1>9, <2>1 DEF Shared
<1>12. /\ \A u \in Threads \ {t} : /\ (Alone(u)' <=> Alone(u)) /\ (Owning(u)' <=> Owning(u))
                                   /\ Base(u)' = Base(u)
       /\ \A x : Single(x) <=> Elsewhere(t, x)
       /\ \A x : Single(x)' <=> Elsewhere(t, x) \/ x = b
    BY <1>1, <1>2, <1>4, <1>8, ElsewhereStays
<1>13. UsedNodes' = UsedNodes
  <2>1. UsedMeans' /\ UsedMeans
      BY <1>6, <1>7, InvSays, UsedIsNext
  <2>2. \A x : x \in UsedNodes' <=> x \in UsedNodes
      BY <1>11, <1>12, <2>1 DEF UsedMeans
  <2> QED
      BY <2>2
<1>14. Exclusive'
  <2>1. Exclusive
      BY InvSays
  <2>2. \A u \in Threads \ {t} : Alone(u)' => Alone(u) /\ Base(u)' = Base(u) /\ Base(u) # b
      BY <1>11, <1>12, <2>1 DEF Exclusive
  <2>3. Base(t)' = b
      BY <1>4, <1>8
  <2> QED
      BY <1>11, <2>1, <2>2, <2>3 DEF Exclusive
<1>15. RefWords'
  <2>1. RefWords
      BY InvSays
  <2> QED
      BY <1>5, <1>10, <2>1 DEF RefWords, RefsKept
<1>16. ASSUME NEW x \in UsedNodes
       PROVE  UsedBlock(x)' = UsedBlock(x)
  <2>1. BlockMeans /\ BlockMeans'
      BY <1>6, <1>7, <1>14, InvSays, BlockIsNext
  <2>2. CASE x = b
    <3>1. UsedBlock(x) = [count |-> nodes[x].count, refs |-> nodes[x].next]
        BY <1>11, <2>1, <2>2 DEF BlockMeans
    <3>2. (UsedBlock(Base(t)))' = [count |-> (nodes[Base(t)].count)', refs |-> 0]
        BY <1>4, <2>1 DEF BlockMeans
    <3>3. nodes[x].next = 0
        BY <1>8, <2>2, InvSays DEF RefWords
    <3>4. Base(t)' = x
        BY <1>4, <1>8, <2>2
    <3> QED
        BY <3>1, <3>2, <3>3, <3>4
  <2>3. CASE x # b
    <3>1. (Alone(t) => Base(t) # x) /\ (Alone(t)' => Base(t)' # x)
        BY <1>2, <1>4, <1>8, <2>3
    <3> QED
        BY <1>1, <3>1, BlockStays
  <2> QED
      BY <2>2, <2>3
<1>17. Carried
  <2>1. UNCHANGED UsedBlocks
      BY <1>13, <1>16 DEF UsedBlocks
  <2>2. \A x : Kept(x) => Kept(x)'
    <3>1. \A x : Shared(x) => Shared(x)' \/ x = b
        BY <1>11
    <3>2. \A u \in Threads : Owning(u) => Owning(u)' /\ Base(u)' = Base(u)
        BY <1>2, <1>12 DEF Alone
    <3>3. Kept(b)'
        BY <1>4, <1>8 DEF Kept
    <3> QED
        BY <3>1, <3>2, <3>3 DEF Kept
  <2> QED
      BY <1>13, <1>14, <1>15, <2>1, <2>2 DEF Carried
<1>18. nodes[md.index].version = md.version /\ nodes[md.index].next = 0
    BY InvSays DEF RefWords
<1> QED
    BY <1>6, <1>17, <1>18, BeginOk

\* The record of a call's arguments.
LEMMA Arguments ==
    ASSUME NEW op \in Ops, NEW md \in Descriptors \cup {None}, NEW need \in Nat, NEW c,
           c = [op |-> op, md |-> md, need |-> need, carries |-> FALSE, retry |-> Limit(op)]
    PROVE  c \in Calls /\ c.op = op /\ c.md = md /\ c.need = need /\ ~ c.carries
<1>1. Limit(op) \in Int
    BY RetryAssumption DEF Limit
<1> QED
    BY <1>1 DEF Calls

LEMMA ArgumentsLent ==
    ASSUME NEW op \in Ops, NEW md \in Descriptors \cup {None}, NEW need \in Nat, NEW c,
           c = [op |-> op, md |-> md, need |-> need, carries |-> TRUE, retry |-> Limit(op)]
    PROVE  c \in Calls /\ c.op = op /\ c.md = md /\ c.need = need /\ c.carries
<1>1. Limit(op) \in Int
    BY RetryAssumption DEF Limit
<1> QED
    BY <1>1 DEF Calls

LEMMA CallOk ==
    ASSUME Inv, TagsHold, DupsAreSafe, NEW t \in Threads, Call(t)
    PROVE  Inv' /\ ListStep
<1>1. Types /\ BagToSet(held) \subseteq Descriptors /\ parked \subseteq Descriptors
    BY InvSays DEF Types
<1>2. ASSUME NEW op, NEW md, NEW need, NEW carries, NEW label,
             Calling(t, op, md, need, carries, label)
      PROVE  /\ pc[t] = "idle" /\ op \in Ops /\ UNCHANGED nodes /\ calls' \in 0 .. MaxCalls
             /\ Moves(t, label, [op |-> op, md |-> md, need |-> need, carries |-> carries,
                                 retry |-> Limit(op)], pred[t], curr[t])
  <2>1. calls' \in 0 .. MaxCalls
      BY <1>1, <1>2, CallsAssumption DEF Calling, Types
  <2> QED
      BY <1>2, <2>1 DEF Calling
<1>3. ASSUME pc[t] = "idle"
      PROVE  ~ Alone(t) /\ ~ call[t].carries
    BY <1>3, InvSays, Doing
<1>4. ASSUME NEW need \in Needs, Calling(t, "allocate", None, need, FALSE, "head"),
             UNCHANGED <<held, parked>>
      PROVE  Inv' /\ ListStep
  <2>1. PICK c : c = [op |-> "allocate", md |-> None, need |-> need, carries |-> FALSE,
                      retry |-> Limit("allocate")]
      OBVIOUS
  <2>2. /\ pc[t] = "idle" /\ UNCHANGED nodes /\ calls' \in 0 .. MaxCalls
        /\ Moves(t, "head", c, pred[t], curr[t]) /\ "allocate" \in Ops
      BY <1>2, <1>4, <2>1
  <2>3. c \in Calls /\ c.op = "allocate" /\ c.md = None /\ c.need = need /\ ~ c.carries
    <3>1. need \in Nat
        BY AmountsAssumption
    <3> QED
        BY <2>1, <2>2, <3>1, Arguments
  <2>4. pc'[t] = "head" /\ call'[t] = c /\ Others(t)
      BY <2>2, InvSays, Moved DEF Others
  <2>5. LocatedAt(t)'
      BY <2>3, <2>4 DEF LocatedAt, Searching, Carving, Linking, Walking
  <2>6. RefsKept /\ Bagged'
    <3>1. ~ call[t].carries /\ ~ call'[t].carries
        BY <1>3, <2>2, <2>3, <2>4
    <3> QED
        BY <1>4, <2>4, <3>1, InvSays, RefsSame
  <2> QED
      BY <1>4, <2>2, <2>3, <2>5, <2>6, CallShared
<1>5. ASSUME NEW md \in BagToSet(held), NEW op \in {"release", "lightRelease", "undup", "dup"},
             NEW need \in Nat, NEW label \in {"undup", "dup"},
             label = IF op = "dup" THEN "dup" ELSE "undup", op = "dup" => need \in Deltas,
             Calling(t, op, md, need, TRUE, label), Lending(md)
      PROVE  Inv' /\ ListStep
  <2>1. PICK c : c = [op |-> op, md |-> md, need |-> need, carries |-> TRUE,
                      retry |-> Limit(op)]
      OBVIOUS
  <2>2. /\ pc[t] = "idle" /\ UNCHANGED nodes /\ calls' \in 0 .. MaxCalls
        /\ Moves(t, label, c, pred[t], curr[t]) /\ op \in Ops /\ md \in Descriptors
      BY <1>1, <1>2, <1>5, <2>1
  <2>3. c \in Calls /\ c.op = op /\ c.md = md /\ c.need = need /\ c.carries
      BY <2>1, <2>2, ArgumentsLent
  <2>4. pc'[t] = label /\ call'[t] = c /\ Others(t)
      BY <2>2, InvSays, Moved DEF Others
  <2>5. LocatedAt(t)'
      BY <1>5, <2>2, <2>3, <2>4 DEF LocatedAt, Releasing, Carving, Linking, Walking
  <2>6. RefsKept /\ Bagged'
    <3>1. ~ call[t].carries /\ call'[t].carries /\ call'[t].md = md
        BY <1>3, <2>2, <2>3, <2>4
    <3> QED
        BY <1>5, <2>4, <3>1, InvSays, RefsLent
  <2>7. UNCHANGED <<nodes, parked>> /\ c.op # "racyDup"
      BY <1>5, <2>2, <2>3 DEF Lending
  <2> QED
      BY <2>2, <2>3, <2>5, <2>6, <2>7, CallShared
<1>6. ASSUME NEW md \in BagToSet(held), Calling(t, "racyDup", md, 1, FALSE, "dup"),
             UNCHANGED <<held, parked>>
      PROVE  Inv' /\ ListStep
  <2>1. PICK c : c = [op |-> "racyDup", md |-> md, need |-> 1, carries |-> FALSE,
                      retry |-> Limit("racyDup")]
      OBVIOUS
  <2>2. /\ pc[t] = "idle" /\ UNCHANGED nodes /\ calls' \in 0 .. MaxCalls
        /\ Moves(t, "dup", c, pred[t], curr[t]) /\ "racyDup" \in Ops /\ md \in Descriptors
      BY <1>1, <1>2, <1>6, <2>1
  <2>3. c \in Calls /\ c.op = "racyDup" /\ c.md = md /\ c.need = 1 /\ ~ c.carries
      BY <2>1, <2>2, Arguments
  <2>4. pc'[t] = "dup" /\ call'[t] = c /\ Others(t)
      BY <2>2, InvSays, Moved DEF Others
  <2>5. LocatedAt(t)'
      BY <2>2, <2>3, <2>4, RacyAssumption DEF LocatedAt, Releasing, Carving, Linking, Walking
  <2>6. RefsKept /\ Bagged'
    <3>1. ~ call[t].carries /\ ~ call'[t].carries
        BY <1>3, <2>2, <2>3, <2>4
    <3> QED
        BY <1>6, <2>4, <3>1, InvSays, RefsSame
  <2>7. Kept(c.md.index)
      BY <2>3 DEF Kept, Shared, Alive
  <2> QED
      BY <1>6, <2>2, <2>3, <2>5, <2>6, <2>7, CallShared
<1>7. ASSUME NEW md \in parked, NEW op \in {"release", "lightRelease", "dupNew"},
             NEW label \in {"undup", "dupNew"},
             label = IF op = "dupNew" THEN "dupNew" ELSE "undup",
             Calling(t, op, md, 0, FALSE, label), parked' = parked \ {md}, UNCHANGED held
      PROVE  Inv' /\ ListStep
  <2>1. PICK c : c = [op |-> op, md |-> md, need |-> 0, carries |-> FALSE,
                      retry |-> Limit(op)]
      OBVIOUS
  <2>2. /\ pc[t] = "idle" /\ UNCHANGED nodes /\ calls' \in 0 .. MaxCalls
        /\ Moves(t, label, c, pred[t], curr[t]) /\ op \in Ops /\ md \in Descriptors
      BY <1>1, <1>2, <1>7, <2>1
  <2>3. c \in Calls /\ c.op = op /\ c.md = md /\ c.need = 0 /\ ~ c.carries
      BY <2>1, <2>2, Arguments
  <2>4. pc'[t] = label /\ call'[t] = c /\ Others(t)
      BY <2>2, InvSays, Moved DEF Others
  <2>5. LocatedAt(t)'
      BY <1>7, <2>2, <2>3, <2>4 DEF LocatedAt, Releasing, Carving, Linking, Walking
  <2> QED
      BY <1>7, <2>2, <2>3, <2>5, CallParked
<1>8. \/ \E need \in Needs :
            /\ Calling(t, "allocate", None, need, FALSE, "head")
            /\ UNCHANGED <<held, parked>>
      \/ \E md \in BagToSet(held), op \in {"release", "lightRelease", "undup"} :
            Calling(t, op, md, 0, TRUE, "undup") /\ Lending(md)
      \/ \E md \in BagToSet(held), delta \in Deltas :
            Calling(t, "dup", md, delta, TRUE, "dup") /\ Lending(md)
      \/ \E md \in BagToSet(held) :
            Calling(t, "racyDup", md, 1, FALSE, "dup") /\ UNCHANGED <<held, parked>>
      \/ \E md \in parked :
            /\ \/ Calling(t, "dupNew", md, 0, FALSE, "dupNew")
               \/ \E op \in {"release", "lightRelease"} :
                     Calling(t, op, md, 0, FALSE, "undup")
            /\ parked' = parked \ {md} /\ UNCHANGED held
    BY <1>1, CallDoes
<1>9. ASSUME NEW md \in BagToSet(held), NEW op \in {"release", "lightRelease", "undup"},
             Calling(t, op, md, 0, TRUE, "undup"), Lending(md)
      PROVE  Inv' /\ ListStep
    BY <1>5, <1>9
<1>10. ASSUME NEW md \in BagToSet(held), NEW delta \in Deltas,
              Calling(t, "dup", md, delta, TRUE, "dup"), Lending(md)
       PROVE  Inv' /\ ListStep
  <2>1. delta \in Nat
      BY AmountsAssumption
  <2> QED
      BY <1>5, <1>10, <2>1
<1> QED
    BY <1>4, <1>6, <1>7, <1>8, <1>9, <1>10

-----------------------------------------------------------------------------
(* The first state *)

LEMMA InitTypes ==
    ASSUME Init
    PROVE  /\ Types /\ IsABag(held) /\ BagToSet(held) = {} /\ parked = {}
           /\ \A t \in Threads : /\ pc[t] = "idle" /\ call[t] = NoCall
                                 /\ pred[t] = None /\ curr[t] = None
           /\ nodes[0] = [version |-> 0, next |-> 1, count |-> 0, status |-> AVAILABLE]
           /\ nodes[1] = [version |-> 0, next |-> NodeCount, count |-> NodeCount - 1,
                          status |-> AVAILABLE]
<1>1. IsABag(held) /\ BagToSet(held) = {}
    BY DEF Init, EmptyBag, SetToBag, IsABag, BagToSet
<1>2. NodeCount \in Nat /\ NodeCount > 2 /\ NextMod \in Nat /\ NodeCount < NextMod
    BY NodeCountAssumption, NextModAssumption
<1>3. 0 \in Indices /\ 1 \in Indices /\ 0 \in Versions
    BY <1>2, VersionModAssumption DEF Indices, Versions
<1>4. nodes \in [Indices -> Words]
  <2>1. ASSUME NEW i \in Indices
        PROVE  nodes[i] \in Words
    <3>1. PICK n : n = CASE i = 0 -> 1 [] i = 1 -> NodeCount [] OTHER -> 0
        OBVIOUS
    <3>2. PICK c : c = IF i = 1 THEN NodeCount - 1 ELSE 0
        OBVIOUS
    <3>3. n \in 0 .. NextMod - 1 /\ c \in Nat
        BY <1>2, <3>1, <3>2
    <3>4. nodes[i] = [version |-> 0, next |-> n, count |-> c, status |-> {}]
        BY <2>1, <3>1, <3>2 DEF Init, AVAILABLE
    <3> QED
        BY <1>3, <3>3, <3>4 DEF Words
  <2> QED
      BY <2>1 DEF Init
<1>5. /\ nodes[0] = [version |-> 0, next |-> 1, count |-> 0, status |-> AVAILABLE]
      /\ nodes[1] = [version |-> 0, next |-> NodeCount, count |-> NodeCount - 1,
                     status |-> AVAILABLE]
    BY <1>3 DEF Init
<1>6. \A t \in Threads : /\ pc[t] = "idle" /\ call[t] = NoCall
                         /\ pred[t] = None /\ curr[t] = None
    BY DEF Init
<1>7. /\ pc \in [Threads -> Labels]
      /\ pred \in [Threads -> Snapshots] /\ curr \in [Threads -> Snapshots]
    BY DEF Init, Labels, Snapshots
<1>8. call \in [Threads -> Calls]
  <2>1. NoCall \in Calls
      BY DEF NoCall, Calls
  <2> QED
      BY <2>1 DEF Init
<1>9. calls \in 0 .. MaxCalls /\ parked = {}
    BY CallsAssumption DEF Init
<1>10. Types
    BY <1>1, <1>4, <1>7, <1>8, <1>9 DEF Types
<1> QED
    BY <1>1, <1>5, <1>6, <1>9, <1>10

LEMMA InitList ==
    ASSUME Init
    PROVE  List!Init
<1>1. /\ parked = {} /\ BagToSet(held) = {} /\ nodes[0].next = 1
      /\ nodes[1] = [version |-> 0, next |-> NodeCount, count |-> NodeCount - 1,
                     status |-> AVAILABLE]
      /\ \A t \in Threads : pc[t] = "idle" /\ call[t] = NoCall
    BY InitTypes
<1>2. FreeNodes = {1}
  <2>1. {1} \in SUBSET Places /\ 1 < NodeCount
      BY NodeCountAssumption DEF Places
  <2>2. \A i \in {1} : /\ nodes[i].next \in {1} \cup {NodeCount} /\ i < nodes[i].next
                       /\ \A j \in {1} : i < j => nodes[i].next <= j
      BY <1>1, <2>1
  <2> QED
      BY <1>1, <2>1, <2>2, ReachedIs DEF FreeNodes
<1>3. UsedNodes = {}
  <2>1. \A t \in Threads : ~ Carving(t) /\ ~ Owning(t) /\ ~ call[t].carries
      BY <1>1 DEF Carving, Owning, NoCall
  <2> QED
      BY <1>1, <2>1 DEF UsedNodes
<1>4. FreeBlocks = [i \in {1} |-> [next |-> NodeCount, count |-> NodeCount - 1,
                                   status |-> List!AVAILABLE]]
    BY <1>1, <1>2 DEF FreeBlocks, AVAILABLE, List!AVAILABLE
<1>5. UsedBlocks = [b \in {} |-> [count |-> 0, refs |-> 0]]
    BY <1>3 DEF UsedBlocks
<1> QED
    BY <1>4, <1>5 DEF List!Init

LEMMA InitInv == Init => Inv
<1> SUFFICES ASSUME Init PROVE Inv
    OBVIOUS
<1>1. /\ Types /\ BagToSet(held) = {} /\ parked = {}
      /\ \A t \in Threads : pc[t] = "idle" /\ call[t] = NoCall
      /\ nodes[0] = [version |-> 0, next |-> 1, count |-> 0, status |-> AVAILABLE]
    BY InitTypes
<1>2. \A t \in Threads : ~ Carving(t) /\ ~ Owning(t) /\ ~ call[t].carries
    BY <1>1 DEF Carving, Owning, NoCall
<1>3. Located /\ OwnWords /\ Copied /\ Borrowed
  <2>1. ASSUME NEW t \in Threads
        PROVE  LocatedAt(t) /\ OwnWord(t) /\ CopiedAt(t) /\ BorrowedAt(t)
      BY <1>1, <1>2 DEF LocatedAt, OwnWord, CopiedAt, BorrowedAt, Walking, Linking
  <2> QED
      BY <2>1 DEF Located, OwnWords, Copied, Borrowed
<1>4. Preceded /\ Followed /\ Flagged /\ Chosen
  <2>1. ASSUME NEW t \in Threads
        PROVE  PrecededAt(t) /\ FollowedAt(t) /\ ChosenAt(t)
      BY <1>1 DEF PrecededAt, FollowedAt, ChosenAt, Walking, Linking
  <2> QED
      BY <1>1, <2>1 DEF Preceded, Followed, Flagged, Chosen
<1>5. Exclusive
    BY <1>2 DEF Exclusive, Alone
<1>6. References
  <2>1. Alive = {}
      BY <1>1, <1>2 DEF Alive
  <2>2. RefWords
      BY <1>1, <2>1 DEF RefWords
  <2> QED
      BY <2>2, ReferencesAre
<1>7. Root
    BY <1>1 DEF Root
<1>8. List!Inv
  <2>1. Known!Init <=> List!Init
      BY DEF Known!Init, List!Init, Known!AVAILABLE, List!AVAILABLE
  <2>2. Known!Init => Known!Inv
      BY Known!InitInv, NodeCountAssumption, NextModAssumption, AmountsAssumption,
          VersionModAssumption
  <2>3. Known!Inv => List!Inv
      BY DEF Known!Inv, List!Inv, Known!TypeOK, List!TypeOK, Known!Linked, List!Linked,
          Known!Disjoint, List!Disjoint, Known!NoLeak, List!NoLeak, Known!MergeCanFinish,
          List!MergeCanFinish, Known!Link, List!Link, Known!isJoinTail, List!isJoinTail,
          Known!isJoinHead, List!isJoinHead, Known!isJoinable, List!isJoinable,
          Known!JOIN_HEAD, List!JOIN_HEAD, Known!JOIN_TAIL, List!JOIN_TAIL
  <2> QED
      BY <2>1, <2>2, <2>3, InitList
<1> QED
    BY <1>1, <1>3, <1>4, <1>5, <1>6, <1>7, <1>8 DEF Inv

-----------------------------------------------------------------------------
(* Every step *)

LEMMA NextInv ==
    ASSUME Inv, TagsHold, CountsFit, DupsAreSafe, Next
    PROVE  Inv' /\ ListStep
<1>1. PICK t \in Threads : Call(t) \/ Step(t)
    BY DEF Next
<1>2. CASE Call(t)
    BY <1>2, CallOk
<1>3. CASE Head(t) \/ NextSnapshot(t) \/ Recheck(t) \/ MarkHead(t) \/ MarkTail(t) \/ Join(t)
    BY <1>3, HeadOk, NextSnapshotOk, RecheckOk, MarkHeadOk, MarkTailOk, JoinOk
<1>4. CASE Take(t) \/ InitVersion(t) \/ InitCount(t) \/ InitRef(t)
    BY <1>4, TakeOk, InitVersionOk, InitCountOk, InitRefOk
<1>5. CASE DupRead(t) \/ DupCas(t) \/ DupNewRead(t) \/ DupNewCas(t)
    BY <1>5, DupReadOk, DupCasOk, DupNewReadOk, DupNewCasOk
<1>6. CASE UndupRead(t) \/ UndupCas(t)
    BY <1>6, UndupReadOk, UndupCasOk
<1>7. CASE Link(t) \/ LinkStatus(t) \/ BumpVersion(t) \/ Publish(t) \/ Undo(t)
    BY <1>7, LinkOk, LinkStatusOk, BumpVersionOk, PublishOk, UndoOk
<1> QED
    BY <1>1, <1>2, <1>3, <1>4, <1>5, <1>6, <1>7 DEF Step

LEMMA StutterInv ==
    ASSUME Inv, UNCHANGED vars
    PROVE  Inv' /\ ListStep
<1>1. /\ nodes' = nodes /\ pc' = pc /\ call' = call /\ pred' = pred /\ curr' = curr
      /\ held' = held /\ parked' = parked /\ calls' = calls
    BY DEF vars
<1>2. /\ Types /\ Located /\ RefWords /\ Exclusive /\ OwnWords /\ Copied /\ Borrowed
      /\ Preceded /\ Followed /\ Flagged /\ Chosen /\ Root /\ UsedMeans /\ BlockMeans
    BY InvSays
<1>3. Types' /\ Root'
    BY <1>1, <1>2 DEF Types, Root
<1>4. /\ \A t \in Threads : /\ Carving(t)' <=> Carving(t)
                            /\ Owning(t)' <=> Owning(t)
                            /\ Base(t)' = Base(t)
      /\ \A t \in Threads : Alone(t)' <=> Alone(t)
    BY <1>1 DEF Carving, Owning, Alone
<1>5. Located'
  <2>1. ASSUME NEW t \in Threads
        PROVE  LocatedAt(t)'
      BY <1>1, <1>2 DEF Located, LocatedAt, Searching, Releasing, Carving
  <2> QED
      BY <2>1 DEF Located
<1>6. Alive' = Alive /\ \A b : Shared(b)' <=> Shared(b)
    BY <1>1 DEF Alive, Shared
<1>7. Exclusive'
    BY <1>2, <1>4, <1>6 DEF Exclusive
<1>8. RefWords'
  <2>1. ASSUME NEW md
        PROVE  Refs(md)' = Refs(md)
    <3>1. Lenders(md)' = Lenders(md)
        BY <1>1 DEF Lenders
    <3> QED
        BY <1>1, <3>1 DEF Refs, Copies
  <2> QED
      BY <1>1, <1>2, <1>6, <2>1 DEF RefWords
<1>9. OwnWords'
  <2>1. ASSUME NEW t \in Threads
        PROVE  OwnWord(t)'
      BY <1>1, <1>2 DEF OwnWords, OwnWord, Owning, Carving, Adjacent
  <2> QED
      BY <2>1 DEF OwnWords
<1>10. Copied' /\ Borrowed'
  <2>1. ASSUME NEW t \in Threads
        PROVE  CopiedAt(t)'
      BY <1>1, <1>2 DEF Copied, CopiedAt, Snap
  <2>2. \A b : Kept(b)' <=> Kept(b)
      BY <1>1, <1>4, <1>6 DEF Kept
  <2>3. ASSUME NEW t \in Threads
        PROVE  BorrowedAt(t)'
      BY <1>1, <1>2, <2>2 DEF Borrowed, BorrowedAt
  <2> QED
      BY <2>1, <2>3 DEF Copied, Borrowed
<1>11. UsedNodes' = UsedNodes /\ FreeNodes' = FreeNodes
    BY <1>1 DEF UsedNodes, FreeNodes, Reached, Leaves, Carving, Owning
<1>12. Preceded' /\ Chosen'
  <2>1. ASSUME NEW t \in Threads
        PROVE  PrecededAt(t)' /\ ChosenAt(t)'
      BY <1>1, <1>2, <1>11 DEF Preceded, PrecededAt, Chosen, ChosenAt, Tame, Fresh,
          isModified, Releasing
  <2> QED
      BY <2>1 DEF Preceded, Chosen
<1>13. Followed' /\ Flagged'
  <2>1. \A c : Joined(c)' <=> Joined(c)
      BY <1>1, <1>11 DEF Joined
  <2>2. \A t \in Threads : Follows(t)' <=> Follows(t)
      BY <1>1 DEF Follows, Tame, Releasing
  <2>3. ASSUME NEW t \in Threads
        PROVE  FollowedAt(t)'
      BY <1>1, <1>2, <2>1, <2>2 DEF Followed, FollowedAt, isModified
  <2>4. Flagged'
      BY <1>1, <1>2 DEF Flagged, isModified
  <2> QED
      BY <2>3, <2>4 DEF Followed
<1>14. UNCHANGED FreeBlocks
    BY <1>1, <1>11 DEF FreeBlocks
<1>15. UNCHANGED UsedBlocks
  <2>1. BlockMeans' /\ UsedMeans'
      BY <1>3, <1>5, <1>7, BlockIsNext, UsedIsNext
  <2>2. ASSUME NEW b \in UsedNodes
        PROVE  UsedBlock(b)' = UsedBlock(b)
    <3>1. CASE Shared(b)
        BY <1>1, <1>2, <1>6, <2>1, <3>1 DEF BlockMeans
    <3>2. CASE ~ Shared(b)
      <4>1. PICK t \in Threads : Alone(t) /\ Base(t) = b
          BY <1>2, <2>2, <3>2 DEF UsedMeans, Single
      <4>2. CASE Carving(t)
          BY <1>1, <1>2, <1>4, <2>1, <4>1, <4>2 DEF BlockMeans
      <4>3. CASE Owning(t)
          BY <1>1, <1>2, <1>4, <2>1, <4>1, <4>3 DEF BlockMeans
      <4> QED
          BY <4>1, <4>2, <4>3 DEF Alone
    <3> QED
        BY <3>1, <3>2
  <2> QED
      BY <1>11, <2>2 DEF UsedBlocks
<1>16. List!Inv' /\ ListStep
  <2>1. List!Inv
      BY DEF Inv
  <2> QED
      BY <1>14, <1>15, <2>1, ListSteps DEF List!vars
<1>17. References'
  <2>1. References' <=> RefWords'
      BY ReferencesAre, PTL
  <2> QED
      BY <1>8, <2>1
<1> QED
    BY <1>3, <1>5, <1>7, <1>9, <1>10, <1>12, <1>13, <1>16, <1>17 DEF Inv

-----------------------------------------------------------------------------
(* The theorems *)

\* The swaps that must fail do fail, and no count outgrows its field.
Fits == TagsHold /\ CountsFit

LEMMA StepInv ==
    DupsAreSafe => (Inv /\ [Next]_vars /\ [Fits]_vars => Inv' /\ ListStep)
<1>1. ASSUME DupsAreSafe, Inv, Next, Fits
      PROVE  Inv' /\ ListStep
    BY <1>1, NextInv DEF Fits
<1>2. ASSUME Inv, UNCHANGED vars
      PROVE  Inv' /\ ListStep
    BY <1>2, StutterInv
<1> QED
    BY <1>1, <1>2

\* In any interleaving of the operations of any number of threads, what a
\* thread has read in findCandidate, dup, undup or releaseImpl tells what its
\* next swap or store needs: the walks, the merges, the stores to a block
\* that nobody else knows and the reference counts fit together (Inv).
THEOREM Safety ==
    ASSUME DupsAreSafe
    PROVE  Spec /\ [][Fits]_vars => []Inv
<1>1. Init => Inv
    BY InitInv
<1>2. Inv /\ [Next]_vars /\ [Fits]_vars => Inv'
    BY StepInv
<1> QED
    BY <1>1, <1>2, PTL DEF Spec

\* The words of the node table keep to their bit fields, and the snapshots
\* and descriptors of all threads name nodes of the table.
THEOREM TypeCorrect ==
    ASSUME DupsAreSafe
    PROVE  Spec /\ [][Fits]_vars => []TypeOK
<1>1. Inv => TypeOK
  <2>1. ASSUME Inv
        PROVE  Types
      BY <2>1, InvSays
  <2>2. ASSUME Types, NEW t \in Threads
        PROVE  call[t].md \in Descriptors \cup {None}
      BY <2>2, CallFields
  <2> QED
      BY <2>1, <2>2 DEF Types, TypeOK
<1> QED
    BY <1>1, Safety, PTL

\* No assert() of getNextSnapshot, joinNodesIfNeed, releaseImpl, dupNew or
\* undup fails, whatever other threads do between the reads of an operation
\* and its swap, and wherever they stop.
THEOREM NoAssertFails ==
    ASSUME DupsAreSafe
    PROVE  Spec /\ [][Fits]_vars => []NoAbort
<1>1. Inv => NoAbort
    BY DEF Inv, Located, LocatedAt, NoAbort
<1> QED
    BY <1>1, Safety, PTL

\* dup, dupNew, undup and release neither lose nor forge a reference: the
\* count in a block's word is the number of references clients hold and have
\* lent to running calls, and their descriptors have the word's version.
THEOREM CountsAreReferences ==
    ASSUME DupsAreSafe
    PROVE  Spec /\ [][Fits]_vars => []References
<1>1. Inv => References
    BY DEF Inv
<1> QED
    BY <1>1, Safety, PTL

\* The table always stands for a sorted list of free blocks that overlap
\* neither each other nor an allocated block, with no chunk missing and every
\* merge that some thread began ready to be finished by another: what
\* findCandidate, allocate and releaseImpl leave between any two steps.
THEOREM ListHolds ==
    ASSUME DupsAreSafe
    PROVE  Spec /\ [][Fits]_vars => []List!Inv
<1>1. Inv => List!Inv
    BY DEF Inv
<1> QED
    BY <1>1, Safety, PTL

\* The step of a thread at the swap of dup is that swap, and no other thread's.
LEMMA OnlyDupCas ==
    ASSUME Types, Next, NEW t \in Threads, pc[t] = "dupCas", pc'[t] # pc[t]
    PROVE  DupCas(t)
<1>1. PICK u \in Threads : Call(u) \/ Step(u)
    BY DEF Next
<1>2. PICK label : pc' = [pc EXCEPT ![u] = label]
  <2>1. CASE Call(u)
      BY <2>1 DEF Call, CallAllocate, CallOnReference, CallOnParked, CallRacyDup, Begin, Goto
  <2>2. \/ Fail(u) \/ Restart(u) \/ Return(u) \/ Abort(u) \/ LastReference(u)
        \/ (\E snap : Visit(u, snap)) \/ (\E l : Goto(u, l))
        => \E l : pc' = [pc EXCEPT ![u] = l]
      BY DEF Fail, Restart, Return, Abort, LastReference, Visit, Goto
  <2>3. CASE Head(u) \/ NextSnapshot(u) \/ Recheck(u) \/ MarkHead(u) \/ MarkTail(u) \/ Join(u)
      BY <2>2, <2>3 DEF Head, NextSnapshot, Recheck, MarkHead, MarkTail, Join
  <2>4. CASE Take(u) \/ InitVersion(u) \/ InitCount(u) \/ InitRef(u)
      BY <2>2, <2>4 DEF Take, InitVersion, InitCount, InitRef
  <2>5. CASE DupRead(u) \/ DupCas(u) \/ DupNewRead(u) \/ DupNewCas(u)
      BY <2>2, <2>5 DEF DupRead, DupCas, DupNewRead, DupNewCas
  <2>6. CASE UndupRead(u) \/ UndupCas(u)
      BY <2>2, <2>6 DEF UndupRead, UndupCas
  <2>7. CASE Link(u) \/ LinkStatus(u) \/ BumpVersion(u) \/ Publish(u) \/ Undo(u)
      BY <2>2, <2>7 DEF Link, LinkStatus, BumpVersion, Publish, Undo
  <2> QED
      BY <1>1, <2>1, <2>3, <2>4, <2>5, <2>6, <2>7 DEF Step
<1>3. u = t
    BY <1>2 DEF Types
<1>4. ~ Call(t)
    BY DEF Call, CallAllocate, CallOnReference, CallOnParked, CallRacyDup, Begin
<1>5. /\ ~ Head(t) /\ ~ NextSnapshot(t) /\ ~ Recheck(t) /\ ~ MarkHead(t) /\ ~ MarkTail(t)
      /\ ~ Join(t) /\ ~ Take(t) /\ ~ InitVersion(t) /\ ~ InitCount(t) /\ ~ InitRef(t)
      /\ ~ DupRead(t) /\ ~ DupNewRead(t) /\ ~ DupNewCas(t) /\ ~ UndupRead(t) /\ ~ UndupCas(t)
    BY DEF Head, NextSnapshot, Recheck, MarkHead, MarkTail, Join, Take, InitVersion,
        InitCount, InitRef, DupRead, DupNewRead, DupNewCas, UndupRead, UndupCas
<1>6. ~ Link(t) /\ ~ LinkStatus(t) /\ ~ BumpVersion(t) /\ ~ Publish(t) /\ ~ Undo(t)
    BY DEF Link, LinkStatus, BumpVersion, Publish, Undo
<1> QED
    BY <1>1, <1>3, <1>4, <1>5, <1>6 DEF Step

\* A dup succeeds only on a block somebody still holds a reference to, the
\* caller of dup or another: line 166 refuses a block already released.
THEOREM DupsFindReferences ==
    ASSUME DupsAreSafe
    PROVE  Spec /\ [][Fits]_vars => DupOnlyAlive
<1> DEFINE D == \A t \in Threads :
                   pc[t] = "dupCas" /\ pc'[t] = "idle" =>
                      \/ BagIn(call[t].md, held)
                      \/ \E u \in Threads : call[u].carries /\ call[u].md = call[t].md
<1>1. ASSUME DupsAreSafe, Inv, [Next]_vars
      PROVE  [D]_vars
  <2>1. SUFFICES ASSUME Next, NEW t \in Threads, pc[t] = "dupCas", pc'[t] = "idle"
                 PROVE  call[t].md \in Alive
      BY <1>1 DEF Alive, BagIn
  <2>2. Types
      BY <1>1, InvSays
  <2>3. DupCas(t)
      BY <2>1, <2>2, OnlyDupCas
  <2>4. pc'[t] # "dup"
      BY <2>1
  <2>5. ~ isModified(curr[t])
    <3>1. ~ Moves(t, "dup", call[t], pred[t], None)
        BY <2>2, <2>4, Moved
    <3> QED
        BY <2>2, <2>3, <3>1, DupCasDoes
  <2> QED
      BY <1>1, <2>1, <2>5, DupFinds
<1> QED
    BY <1>1, Safety, PTL DEF Spec, DupOnlyAlive

\* The swaps of allocate, releaseImpl, updateNodeStatus, joinNodesIfNeed, dup,
\* undup and dupNew take effect one at a time on the sorted free list; all
\* other reads, stores and failed swaps of all threads change nothing in it.
THEOREM ImplementsList ==
    ASSUME DupsAreSafe
    PROVE  Spec /\ [][Fits]_vars => ListSpec
<1>1. Init => List!Init
    BY InitList
<1>2. Inv /\ [Next]_vars /\ [Fits]_vars => [List!Next]_(List!vars)
    BY StepInv DEF ListStep
<1> QED
    BY <1>1, <1>2, Safety, PTL DEF Spec, ListSpec, List!Spec

\* So the callers of allocate, release, dup, dupNew and undup see a heap of
\* disjoint blocks with reference counts, which comes back at count 0: the
\* step-by-step code implements ChunkHeap, by way of FreeList.
THEOREM ImplementsHeap ==
    ASSUME DupsAreSafe
    PROVE  Spec /\ [][Fits]_vars => List!HeapSpec
<1>1. Known!Spec => Known!HeapSpec
    BY Known!Refinement, NodeCountAssumption, NextModAssumption, AmountsAssumption,
        VersionModAssumption
<1>2. List!Init => Known!Init
    BY DEF Known!Init, List!Init, Known!AVAILABLE, List!AVAILABLE
<1>3. [List!Next]_(List!vars) => [Known!Next]_(Known!vars)
    BY SameNext DEF Known!vars, List!vars
<1>4. Known!Heap!Init => List!Heap!Init
    BY DEF Known!Heap!Init, List!Heap!Init
<1>5. [Known!Heap!Next]_(Known!Heap!vars) => [List!Heap!Next]_(List!Heap!vars)
    BY DEF Known!Heap!Next, List!Heap!Next, Known!Heap!Acquire, List!Heap!Acquire,
        Known!Heap!AddRefs, List!Heap!AddRefs, Known!Heap!DropRef, List!Heap!DropRef,
        Known!Heap!Revive, List!Heap!Revive, Known!Heap!Reclaim, List!Heap!Reclaim,
        Known!Heap!Put, List!Heap!Put, Known!Heap!Remove, List!Heap!Remove,
        Known!Heap!Overlaps, List!Heap!Overlaps, Known!Heap!vars, List!Heap!vars
<1> QED
    BY <1>1, <1>2, <1>3, <1>4, <1>5, ImplementsList, PTL
    DEF ListSpec, Known!Spec, List!Spec, Known!HeapSpec, List!HeapSpec,
        Known!Heap!Spec, List!Heap!Spec
=============================================================================
