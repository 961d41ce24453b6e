# Formal models of ipc-hashtrie

`ipc-hashtrie` is a header-only C++ library: a persistent hash trie in shared
memory, built on a lock-free block allocator. This directory holds TLA+ models
of it, TLC configurations that check them on small instances, and theorems that
TLAPS checks for every size. Paths below are relative to the repository root;
the library is under `include/iht/`, the benchmark under `src/bin/`.

## 1. Inventory

| Part | State it keeps | Operations | Who uses it |
|---|---|---|---|
| `atomic/atomic.hh` | none | `compare_and_swap`, `fetch`, `add`, `sub`; `Snapshot` = a place and the word last read from it | both allocators |
| `VariableAllocator` | one 64-bit word per 64-byte chunk (`version`, `next` or reference count, `count`, `status`) | `allocate`, `release`, `lightRelease`, `dup`, `dupNew`, `undup` | `FixedAllocator` |
| `FixedAllocator` | per size class: `used_count`, `free_count`, the top of a stack of dead blocks linked through their first word | `allocate`, `release`, `release_no_undup`, `dup`, `undup` | the trie, `Ref` |
| `trie/node.hh` (`Cons`, `List`, `Node`, `RootNode`) | immutable nodes in allocator blocks | `store` (path copy), `find`, `foreach`, `resize` | `HashTrieImpl` |
| `string.hh` | a byte range | `operator bool`, `==`, `hash` | the trie |
| `HashTrieImpl`, `Ref`, `View` | `Header.root`, one descriptor in shared memory; `root_` of each view | `init`, `initOnce`, `store`, `dupRoot`, `undupRoot`, `size`, `find`, `updateIfNeed` | `PersistentMap` |
| `ipc/shared_memory.hh` | the mapping; a named region outlives its processes | constructor, destructor | `HashTrie` |
| `sync_map.hh` | a mutex or rwlock, a map | `store`, `find`, `member`, `size`, `totalValueLength`, `createView` | `mt-bench` |
| `mt-bench` | the list of operations, the start latch, the threads and their results | `gen_input_data`, `do_bench`, `main` | - |
| `st-bench`, `map.hh`, `nano_timer.hh` | timers | benchmarks of library containers | - |

How they interact. Nothing but shared memory connects the threads and
processes: the words of the node table, the tops of the stacks, the counters
and `Header.root`. `PersistentMap` puts one mutex around `store`; readers take
no lock. A reader reads `Header.root`, then asks the allocator for a reference
to it (`dup`), and tries again if that is refused. Writers drop the references
to superseded roots; the last one to drop a reference (a reader, perhaps)
returns the block, to the stack of its class or to the free list.

What is hard. Every operation of the allocators is a sequence of reads and one
or more compare-and-swaps, and any thread may stop between two of them. Merging
two free blocks is three swaps on two words. A released block is written with
plain stores before it is published and again if the publication fails. A pop
reads a link out of a block that may be somebody else's by then. A reader's
`dup` may come after the root it read has died, been handed out again and died
again. Two counters follow the stack with a delay. Reference counts have 22
bits, version tags 10. Roots share the blocks below them without counting. A
region in a file is initialised by whoever opens it first, in several writes,
and its users may die anywhere. An allocation may fail in the middle of a path
copy. `PROJECT.json` lists these hazards at their lines.

What makes each part correct:

- *VariableAllocator*: blocks never overlap; no chunk is lost; a half-done
  merge can be finished by anybody; the count in the word is the number of
  references; no assert fails; operations return although other threads stop;
  `allocate` is refused only for want of space.
- *FixedAllocator*: a dead block is in exactly one place; a block has one life
  at a time, and a descriptor of an earlier life is refused as long as the block
  is in the cache or in use; the counters come right.
- *Trie*: a finished store sets its key and no other, an aborted one none; `count_` is the number of cells; a traversal shows each
  key once; a view does not change under stores that share its blocks, rebuild
  the trie or stop half-way; no descriptor dangles.
- *Root and views*: once initialised, `h_->root` is alive; snapshot isolation;
  every root's count is its views plus one for `h_->root`; superseded roots
  come back; a restart finds the last map; stores and views end.
- *Maps of the benchmark*: a reading answers from one state of the map. *The
  benchmark*: its threads start together, the report is about all operations,
  and it ends.

## 2. Modules

```
 ChunkHeap  <-- proved ---  FreeList  <-- proved ---  VariableAllocator  NodeWord
 BlockStore  <-- proved ---  FixedAllocator                               (words)
 SnapshotMap <-- proved ---  HashTrieImpl  (uses BlockStore)
 Trie        (below the roots of HashTrieImpl)
 SyncMap  (locks, and SnapshotMap's promise)  --- extended by ---  MtBench
```
An arrow is a refinement: the module on the right implements the one it points
to.

**NodeWord**: the word of a node and the pure functions on it (`struct Node`),
with the assumptions on the region: more than two nodes and fewer than the
`next` field has values, which is what `operator bool` tests.

**ChunkHeap**: what the variable-length allocator promises: disjoint blocks of
consecutive chunks with reference counts, reclaimed only at count 0.

**FreeList**: the sorted list of free blocks, one action for each swap that
takes effect. `free` is the chain of free nodes, `used` the allocated blocks.
`Allocate` carves a block from the tail; `ReleaseAdjacent` and `ReleaseApart`
are the two branches of `releaseImpl`; `MarkHead`, `MarkTail` and `Join` are
the swaps of `updateNodeStatus` and `joinNodesIfNeed`. Version tags are absent:
they only make stale swaps fail.

**VariableAllocator**: the code, thread by thread. `nodes` is the shared
table, `pred` and `curr` the two snapshots of `findCandidate`, `call` the
arguments and remaining retries. Each action is one atomic read, one
compare-and-swap or one plain store, with the local computation that goes with
it:

| Code | Actions |
|---|---|
| `findCandidate` | `Head`, `NextSnapshot`, `Recheck` (with `Visit`, `Restart`, `Fail`) |
| `updateNodeStatus`, `joinNodesIfNeed` | `MarkHead`, `MarkTail`, `Join` |
| `allocate` | `Take`, then the stores `InitVersion`, `InitCount`, `InitRef` |
| `dup`, `dupNew`, `undup` | `DupRead`/`DupCas`, `DupNewRead`/`DupNewCas`, `UndupRead`/`UndupCas` |
| `releaseImpl` | `Link`, `LinkStatus`, `BumpVersion` (stores), `Publish` (swap), `Undo` |

The plain stores are kept apart in the order in which they are written, which
is the order the compiler emits at `-O2`; `version--` and `setRefCount(0)` of
the undo are one store there and one step here. Asserts are enabled in the
build, so that a failed one ends the thread in `abort`. The clients are part
of the model: `held` is the bag of references they own, `parked` the blocks
whose last reference they dropped with `undup` and which they alone may revive
or return, as `FixedAllocator` does.

**BlockStore**: what the cache promises: a descriptor names one life of a
block; lives do not overlap and do not come back.

**FixedAllocator**: the cache, one step per access to the top of a stack, to a
link, or to a counter. Clients overwrite the first word of their blocks at any
time (`Write`), and so the link that a slow pop still has to read; they dup any
descriptor they have ever seen (`CallDup`), as readers of the trie do. The calls
it makes of the variable-length allocator are one step each where
`VariableAllocator` shows that this hides nothing, and are taken apart or left
open where it would:

- `lightRelease` is `LightRelease` (asserts, and the plain stores into the word)
  and `LightPublish` (the swap, which may fail). In between the word of the block
  looks alive (`Opened`): this is the window of finding 1.
- The word of a block in the heap is a word of the free list, with a `next` in
  the field of the count and a version that merges change, backwards too (line
  35). So a late dup may find its own version there (`Exposed`), and the next
  life starts under any of `HeapVersions` (`BaseAllocate`), a descriptor of an
  earlier life included if `Recurring`.
- `LateDup` is a dup by an old descriptor that succeeds on such a block. It
  writes to a word that a release or the free list relies on; what comes of it
  is not followed (`Astray`), and every property speaks of the time before.

**SnapshotMap**: what the persistent map promises: stores take effect one at a
time; a view is the map as it was at one moment while it was being opened
(`window` collects the candidates), and does not change until it is closed; the
map outlives its users.

**HashTrieImpl**: `h_->root`, the header, the mutex, `Ref`, views and the
reference counts of the root nodes. The allocator is `BlockStore`, whose
actions it uses. `Open` is `initOnce`, and `AlcInit`, the two `WriteHeader`,
`AllocRoot` and `NewRoot` are the writes of `init` in their order. `Crash` kills
all processes between any two steps: the region stays, mutexes, views and
locals go. `Careful` says whether `init` is left to finish before somebody else
opens the region. The tree below a root is a value here; it is what `Trie` is
about.

| Code | Actions |
|---|---|
| `PersistentMap::store`, `HashTrieImpl::store` | `CallStore`, `Lock`, `ReadRoot`, `DupRef`, `Publish`, `DropRef`, `Unlock` |
| `RootNode::store` | `Copy`, `DropFull` (after a rebuild), `DropFrom` |
| `View`, `dupRoot`, `undupRoot`, `updateIfNeed` | `CallOpen`, `OpenRead`, `OpenDup`, `Close`, `Update` |

**Trie**: what is below `h_->root`, block by block: `refs` and `body` are the
allocator's blocks, a root node holds the descriptor of a node, nodes hold
descriptors of nodes or of cells. The operators stand for the functions of
`node.hh` one to one (`Insert`, `insertImpl`, `NodeStore`, `setSubNode`,
`NodeResize`, `relocateEntries`, `Stored`, `resize`, `RootStore`, ...) and pass
the blocks along; recursive as they are, only TLC uses them. A store is one
step: writers are alone, and readers meet them in the counts of root nodes only.
Any one allocation of a store may fail and later ones succeed, and an assert
that fails leaves what has been done until then. `last` keeps the arguments of
the last store and whether it came to its end, for `MapSpec`: a finished store
of a key and a value changes what `find` returns for that key to that value and
for no other key, and nothing else changes what `find` returns. Once a trie has a hole (finding
4) the model follows it no further.

**SyncMap**: `MutexMap`, `RWLockMap` and `PersistentMap` with their views, as
the benchmark uses them. `operator[]` and the assignment are two steps
(`Insert`, `Assign`), and a reader visits one key at a time (`Visit`); for the
persistent map the two are the copy of the root and the write of `h_->root`, and
a reading looks at its view. The hash map itself is external.

**MtBench**: `main` (`gen_input_data`, `Fill`, `SetLatch`, `Create`, `Join`,
`Report`) and the threads of `do_bench` (`Arrive`, `Pass`, `Begin`, `Finish`,
`Exit`) around the steps of `SyncMap`. `rand()` is any choice.

**VariableAllocatorInv**: what a thread of the allocator knows at each line of its
operation, as an invariant (`Inv`), and the conditions on tags and counts under
which it holds.

**FreeListProofs**, **VariableAllocatorWalkProofs** (what the steps have in common,
and `findCandidate`), **VariableAllocatorProofs**, **VariableAllocatorSpaceProofs**,
**FixedAllocatorProofs**, **HashTrieProofs**, **MtBenchProofs**: the proofs about the modules they are named
for (section 5). The `MC...` modules hold the symmetry sets and hash values.

Definitions marked `Slip:` are not part of the specifications. They are wrong
versions of the definition that follows, used to show that a property does
notice such a mistake (`PROJECT.json`, "mutants").

## 3. Runs

| Run | Module, cfg | Bounds | States | What it shows |
|---|---|---|---|---|
| `free_list` | FreeList, `FreeList.cfg` | 7 nodes, requests of 1-3 chunks, counts below 8 | 99 464 | `TypeOK`, `Linked`, `Disjoint`, `NoLeak`, `MergeCanFinish` hold and `FreeList` implements `ChunkHeap` |
| `va_merge` | VariableAllocatorInv, `...Merge.cfg` | 5 nodes, 4 version tags, 2 threads, one of them fair, 8 calls, 1 restart | 846 641 | every interleaved step implements `FreeList` (`ListSpec`); no assert fails (`NoAbort`); the inductive `Inv` with its exact counts (`References`); operations return (`Returns`) |
| `va_counts` | MCVariableAllocator, `...Counts.cfg` | 4 nodes, 3 threads, 7 calls | 195 232 | `References` with late dups and revivals; `DupOnlyAlive` while blocks stay out of the free list |
| `va_space` | `...Space.cfg` | 8 nodes, 1 thread, 10 calls | 3 346 271 | `FailsOnlyWhenFull` |
| `va_racy_dup` | `...RacyDup.cfg` | 6 nodes, 2 threads, 4 calls | violation | `DupOnlyAlive` fails, finding 1 |
| `fixed_cache` | FixedAllocator, `FixedAllocator.cfg` | 2 blocks, 2 classes and a larger size, 2 threads, one of them fair, 6 calls, heap versions 0 and 4 of 16 | 431 552 | `StackSound`, `CountersSettle`, `NoAbort`, the inductive `Inv`, `BlockStore` is implemented up to the first late dup that succeeds (`StoreSpec`), and the loops end (`Returns`) |
| `trie_root` | HashTrieImpl, `HashTrieImpl.cfg` | 2 threads, 5 root blocks, 2 keys, 1 value, 2 stores, 1 crash | 520 001 | `RootAlive`, `RootsSettle`, `RefSucceeds`, the inductive `Inv`, snapshot isolation (`SnapshotSpec`), `Answers` |
| `init_race` | `HashTrieRace.cfg` | 2 processes open a new region | violation | `RootAlive` fails, finding 2 |
| `trie_map` | Trie, `Trie.cfg` | 4 keys, 3 hashes, 2 values, 4 stores, 1 view, 1 failing allocation, fan-out 2, first rebuild at 1 key | 328 906 | `MapSpec`, `CountsCells`, `VisitsOnce`, `ViewsStay`; no dangling descriptor (`TypeOK`) |
| `trie_empty` | `TrieEmpty.cfg` | the same with an empty value, no failure | violation | `MapSpec` fails, finding 3 |
| `trie_hole` | `TrieHole.cfg` | one value, 1 failing allocation | violation | `NoHole` fails, finding 4 |
| `mt_bench` | MtBench, `MtBench.cfg` | each of the 3 maps, 3 threads, 1 initial key, 2 writes, 1 read, 1 sum, 2 keys | 1 153 923 | `ReadsOneState`, `StartsTogether`, `ReportIsRight`, the inductive `Inv`, `Ends` |

Why the bounds are enough for the cases that matter:

- 5 nodes with requests of 1 and 3 chunks are the least that let two free
  blocks be adjacent without having been coalesced at release, so that the
  three-swap merge runs, races with a second merge, with an allocation from
  either block and with a release next to it. Eight calls let a chunk leave
  the list by a merge, be allocated and come back with a stale status flag.
- `RetryLimit` is 1 and `LightRetryLimit` 0 (32 and 1 in the code): every
  restart path and the exhaustion of retries occur.
- `VersionMod` is 4 in `va_merge`, so that tags come round within the run, and
  go back by `join`, which takes over the tail's version. A snapshot is in
  danger only if as many changes as there are tags are made to its word while
  it is held, and 8 calls of two threads do not manage that with 4 tags. With 2
  tags TLC finds `References` violated by a trace of 72 states: the stale
  `MarkTail` swap of a slow thread succeeds on the word of a block that another
  thread is handing out. The code has 2^10 tags. In the other concurrent runs
  tags do not come round.
- `NextMod` is larger than the number of references a run can create; the code
  relies on its clients for that.
- Two blocks and two threads suffice for the classic sequence of a slow pop
  (pop, write, push of the same block under a new version); two classes let a
  block change its class by way of the heap meanwhile. Six calls are enough for
  a block that comes out of the heap under an older version than it went in
  with, for a late dup in the window of `lightRelease`, and for one in the heap.
  Two versions for lives from the heap, four apart, let versions go back and
  leave tags unused between them; `Recurring` is `FALSE`, so that a descriptor
  is not given out twice (the theorems say where that is assumed). Without
  `~ Astray'` in `StoreSpec` TLC finds it violated, by a late dup.
- `CounterMod` is 8, so that `free_count` below 0 is the largest value, as in
  32 bits, and the comparison of line 140 goes the wrong way as it does there.
- `MaxVersion` of `trie_root` bounds the lives of a block at 5, more than two
  stores can use up.
- Five root blocks are enough for every root node that two stores make, one of
  them with a rebuild, and for what a crash leaks, so `NoAbort` of `trie_root`
  is about a reference given up twice and not about memory. That superseded
  roots come back is `RootsSettle`.
- In `trie_map` two keys share a whole hash, a third shares the first digit
  with them, and the trigger of 1 lets two rebuilds occur, the second from
  depth 1, where nodes have nodes below them. 50 blocks are more than four
  stores take, so that the one allocation that fails is the one chosen.
- Four operations on three threads are slices of 1, 1 and 2 operations; every
  order and every assignment of keys is an initial choice of the run, so that
  two writers and a sum, a read and a sum, or two writers of one key meet.

Symmetry is used in runs that check safety only, and permutes keys of equal
hash, values and threads. Runs stop when their calls are used up, hence
`CHECK_DEADLOCK FALSE`; in `FreeList`, which has no such bound, deadlock is
checked.

**Fairness.** `Returns` (both allocators) assumes weak fairness for the threads
in `Running` only, that is, for one of two: the other may stop anywhere, as a
preempted thread or a killed process does. So the runs show that nobody waits
for a stopped thread; since calls are bounded, they do not show that a thread
cannot be overtaken for ever by others who make progress (the code does not
promise it). `Answers` assumes that all threads are scheduled while they
live, and that a waiting writer gets the mutex, which the operating system
provides; with only two writers weak fairness is enough. `Ends` assumes weak
fairness of the main thread and of each thread of the benchmark, nothing about
the order in which locks are granted: the operations are finite, and the spin on
the latch is left by whoever is scheduled after the last `Arrive`.

## 4. Findings

1. `va_racy_dup`: `releaseImpl` writes the link of the free list into the
   field that doubles as the reference count (line 360) three stores before it
   changes the version (line 363). A `dup` by a reader who holds no reference
   (`Ref`, `dupRoot`) succeeds in that window, although the block was released:
   the test of lines 166-167 is meant to refuse it. The store between makes
   the window real; it needs a release to the free list (not to the cache) of a
   block whose descriptor is still in shared memory or in a reader's hand.
2. `init_race`: `init` writes the magic and the size before it has a root
   (lines 43-45), and `initOnce` of another process tests those two only. That
   process goes on with `h_->root == 0`, on which `dup` asserts. The run shows
   the race; the same file is left for good by a process that dies between the
   lines (the run has no crash, and shows the two processes only).
3. `trie_empty`: `List::insert` takes the found value for a truth value; an
   empty value counts as absent. The next store of that key puts a second cell
   in front of the first, `count_` grows, and the next rebuild, which turns each
   list round, brings the old cell back to the front: the store is lost.
4. `trie_hole`: `setSubNode` copies into whatever `allocate` returned
   (lines 267-270). If a copy fails on the way up and the next one does not,
   descriptor 0 is linked into the new trie; only the topmost copy is tested
   (line 390). `allocate` may well fail once: it gives up after a number of
   restarts, and readers give back blocks.

Not counted as a finding, since no line promises more than it holds:
`allocate` passes requests above `BLOCK_SIZE_LAST` (4096 bytes) on to the
variable-length allocator, but the last `release` of such a block fails the
assert of `getSuperBlockId`, which never returns the 0 that line 132 of
`fixed_allocator.hh` tests for. `NoAbort` of `fixed_cache` names this as the one
assert that can fail.

## 5. Proofs

TLAPS checks these modules for every value of the constants that satisfies the
named assumptions. Each follows the same line: `Inv` holds initially, one lemma
for each action (or group of actions) shows that it is preserved, one step for
each conjunct the action can disturb, and the properties follow from `Inv`. TLC
checks each `Inv` on the runs above.

**`FreeListProofs`**, for every `NodeCount`, every set of request sizes and every
width of the fields, from the assumptions of `NodeWord` and `FreeList` (a valid
region, positive requests and deltas):

- `Safety`: `Spec => []Inv`, where `Inv` is the conjunction of `TypeOK`,
  `Linked`, `Disjoint`, `NoLeak` and `MergeCanFinish`. The parts are inductive
  only together. That `Allocate` keeps blocks apart needs that free blocks do
  not overlap, which is `Linked`; that `Join` makes a block that overlaps
  nothing needs the second half of the merge to touch the first, which is
  `MergeCanFinish`; that a `JOIN_HEAD` block still touches its successor after
  other steps needs that `Allocate` refuses flagged blocks and that a release
  cannot be inserted between blocks that touch, which is `Disjoint`.
- `TypeCorrect`, `NoOverlap`, `NothingLost`, `MergesFinish`, `ListInOrder`:
  the parts as theorems of their own.
- `Refinement`: `Spec => HeapSpec`. Each action is mapped to one action of
  `ChunkHeap`; the marks and joins are stutters. The only step with something
  to prove is `Allocate` (`AllocateAcquires`: the block carved overlaps no
  other).

**`VariableAllocatorWalkProofs`** and **`VariableAllocatorProofs`**, for any finite set of
threads, any region, request sizes, deltas and retry limits, and any number of version
tags above one: the code of `variable_allocator.hh` access by access. Three conditions are stated as such,
because the code relies on them without a test:

- `TagsHold`, an action: no step gives a word back the value of a snapshot that a
  thread still needs (`Armed`: `pred` of a walk, `curr` from the look at a node to
  the swap that uses it), after it has had another. The comment of lines 343-346
  counts on this; with tags of two values TLC shows what happens otherwise.
  Snapshots of `dup` and `undup` need no such condition: a count that comes back to
  its old value under the same version is as good as one that never changed.
- `CountsFit`, an action: the swap of `dup` does not carry out of the 22 bits of
  the count (line 171 does not test it).
- `DupsAreSafe`: descriptors without a reference are dup'ed only if no block returns
  to the free list; finding 1 is what happens otherwise. With it the theorems cover
  the readers of `Ref` as long as the blocks stay in the cache, and every other
  client without restriction.

Under `Fits` (the first two, in every step) and `DupsAreSafe`:

- `Safety`: `Inv`, whose parts are proved step by step for each action:
  - `Located`: the arguments a call has at each of its lines; in particular no
    thread is in `abort`;
  - `References`, `Copied`: the count is the number of references, and the
    snapshot of a `dup` or `undup` that has not been overtaken is of a living block;
  - `Exclusive`, `OwnWords`: a block that is being carved, revived or returned is
    known to one thread, nobody has a reference to it, and its word holds what the
    plain stores so far have put there. This is why stores that are no swaps
    are safe;
  - `Preceded`, `Followed`, `Chosen`: a snapshot of a walk is of a node as a free
    node looks (`Tame`), and as long as its word has not changed the node is in the
    list (`Fresh`); so is the node after it, if `pred` was found unchanged after
    `curr` was read, which is what lines 284-286 are for;
  - `Joined`, `Flagged`: a thread that is late with `JOIN_TAIL` finds the node still
    behind a flagged head, or else merged away and not in use again, and of two threads in
    the same merge the later one's `join` fails. Without these the second of two
    helpers would merge a node twice;
  - `Root`, and `List!Inv`, the invariant of `FreeList` for the list that the table
    stands for. `FreeNodes` is defined as the nodes reached from node 0 (those in
    every set closed under the links), so that each swap needs a lemma on what is
    reached afterwards.
- `TypeCorrect`, `NoAssertFails` (`NoAbort`), `CountsAreReferences` (`References`),
  `ListHolds` (`List!Inv`), `DupsFindReferences` (`DupOnlyAlive`) follow.
- `ImplementsList`: `ListSpec`. The swap of `Take` is `Allocate`, the swap of `Publish`
  one of the two releases, and so on; every other step, failed swaps, plain
  stores and restarts included, leaves `FreeBlocks` and `UsedBlocks` as they are.
  That the compare-and-swap of a walker changes the list it meant to change is
  `Fresh`, `Follows` and `TagsHold` together.
- `ImplementsHeap`: with `Refinement` of `FreeListProofs`, the code implements
  `ChunkHeap`.

The conditions are met by behaviours that matter: `va_merge` and `va_counts` have as
many states with `TagsHold` and `CountsFit` as action constraints as without.

**`VariableAllocatorSpaceProofs`**, for one thread (`OneThread`), any region, any
requests and any number of calls, under `DupsAreSafe` and `CountsFit`. With other
threads at work `allocate` may give up early, after `RETRY_LIMIT` restarts or
because a block it needs is being returned, so the promise is of a lone thread only.

- `LoneWalk`: `Inv` together with `Solo`. `Still`: every snapshot is what the table
  holds, so that no swap fails and no walk starts again; this implies `TagsHold`,
  which is therefore no hypothesis here. `OwnMerge`: no node is flagged but by the
  thread's own merge, so that no block is passed over for its flags. `Searched`:
  `need + 1` free chunks in a row begin at `pred` or after it, and `pred` alone is too
  small for them.
- `RefusedOnlyWhenFull`: `FailsOnlyWhenFull`. `Searched` at the end of the list leaves
  no place for the chunks. What it rests on: between a node and its successor only the
  node's own block is free (`BlockEnds`), so a run of free chunks longer than the
  block goes on into a block that touches it (`NoRoomAt`), which the walk would have
  merged; and after a merge the joined block is looked at again (`NoRoomInBoth`).

**`FixedAllocatorProofs`**, for any finite sets of threads and blocks, any size
classes, and any number of version tags above one. `CounterAssumption` says that
blocks are fewer than counter values; a descriptor has 22 bits for the index, a
counter 32.

The tags of the code have 10 bits, and a pop that sleeps while its block goes
through all of them would be fooled, so no invariant of the stacks holds without
a hypothesis. There are two, both stated on behaviours:

- `TagsHold`, an action: while a thread is between its look at the top of a stack
  and its swap, no step brings the block it saw back to the version it had. This
  is exactly what the tag is for. Under `[][TagsHold]_vars` the invariant `Inv`
  holds (`Safety`), hence `TypeCorrect`, `NeverAborts` (`NoAbort`), `StacksAreSound`
  (`StackSound`) and `CountersComeRight` (`CountersSettle`), with tags that come
  round any number of times otherwise, and versions that the heap sets to
  anything.
- `FreshLives`, an action: a block that comes alive does so under a descriptor
  that was not handed out before. `BlockStore` promises for ever that an ended
  life never returns under its old descriptor, which a tag that has come round,
  or one that a merge has set back, breaks for whoever still keeps the
  descriptor. The code has nothing against it but the width of the tag.

Under both, `PromiseKept` is `StoreSpec`: up to the first late dup that the free
list lets through, every step is one of `BlockStore` or a stutter. That an
ended life does not come back is then the hypothesis, not the result; what is
proved is that lives do not overlap, that a dup refers to the present life of a
living block, that references are counted and that only the last release ends a
life, under any interleaving of pushes, pops and late calls. The theorem says
nothing of a reader whose dup meets a block on its way to the free list or in
it: finding 1 shows that the code keeps no promise there.

`Inv` holds between any two steps of any threads. `InvStays` proves it step by step
for `Kept`, the steps that leave no thread astray; a `LateDup` keeps the types and
ends the behaviour (`LateDupEnds`). Its parts are

- `Located`: what a call knows at each of its steps;
- `Counted`: the reference count in a block's word is the number of references of
  clients and of calls on their way, and who holds one has the present version;
- `Hands`: a dead block in a thread's hand (popped and not yet revived, or not yet
  pushed) is in no other hand; a dead block of a larger size is in some hand;
- `Stacks`: the dead blocks of a class that are in no hand are, in some order,
  the chain from `head` through the links. `StackSound` follows the links that
  are there; `Stacks` also says that nothing else is missing, which the counters
  need;
- `Looked`: if the block that a pop saw still has the version it was seen with,
  then it has been on the stack all the time, and the link that was read is its
  link. This is why the swap of line 90 may trust what lines 86 to 88 read,
  although the block may have belonged to somebody else in between;
- `Linked`: before its swap, a push has its block linked to the head it saw;
- `Tallied`: each counter plus the calls that have yet to add to it equals,
  modulo 2^32, the number of blocks plus the calls that have yet to subtract. It
  is what makes `CountersSettle` inductive, for a counter that is below 0 for a
  while included.

**`HashTrieProofs`**, for any finite set of threads and any blocks, keys, values,
stores and crashes, in a region that is opened with care (`Careful`, without which
finding 2 refutes them) and has at least one block for the first root. How many
lives a block has (`MaxVersion`) is arbitrary; that a life never comes back
is what `BlockStore` promises.

- `Safety`: `Inv`. Its centre is `Counted`: at every moment the count of a root is
  the number of those who hold it (`Held`): its views, `h_->root`, the `Ref` of
  the store in progress, and the store itself while the reference of `h_->root`
  or that of the new root is in its hands. `RootsSettle` says this for quiet
  states only, in which it cannot be inductive. It needs that one thread at a
  time is in a store (`Exclusive`), what that store has read and made
  (`StoreRight`: the root read is still `h_->root`, the copy shows the map it
  should), what a reader that has read a root may rely on (`ViewsRight`), and the
  state of a region before its first root (`Initialised`).
- `TypeCorrect`, `RootNeverDangles` (`RootAlive`), `CountsSettle`
  (`RootsSettle`), `RetryNeverTaken` (`RefSucceeds`).
- `NoDoubleRelease`: as long as a block can be had for a copy of the root
  (`HasRoom`), no assert fails. `RootsComeBack` proves that condition for
  regions whose processes do not die: three more root blocks than threads are
  enough for any number of stores, since at most one root per thread is kept by
  its view, and three by `h_->root` and the store. With crashes no number
  is enough: each may leak the roots of the views it ends.
- `SnapshotIsolation`: `Spec => SnapshotSpec`. `Publish` is the abstract store;
  the reads of a view before its `dup` succeeds stay within the window of
  `SnapshotMap`, by `ViewsRight` and because a block whose descriptor is alive is
  not written (`Counted`).

**`MtBenchProofs`**, for any number of threads, any numbers of initial keys, writes,
reads and sums, and any finite set of keys (`KeysAssumption`: without it the
`Cardinality` that stands for a total means nothing), on each of the three maps.
`ParamAssumption` asks for at least one thread, without which nothing is run, and
for a key to read if reads are asked for (line 89 computes `rand() % 0` else).

- `Safety`: `Inv`, in parts that follow the code from the locks up to the report:
  - `Phases`, `Latched`: the main thread starts and joins the threads in order;
    `g_latch` is the number of threads that have not arrived, hence once it is 0
    nobody is missing;
  - `Locked`: the holders of the locks are exactly the threads in the code between
    lock and unlock; `HalfDone`: a value that `operator[]` has inserted and the
    assignment has not yet written is in the hands of the holder of the lock, and
    the writer of a persistent map copies what is still `h_->root`;
  - `Windows`: what a reader has found so far is what the map (or its view) holds
    now. `ReadsOneState` alone is not inductive: that some earlier state agrees with
    the keys seen says nothing of the next key;
  - `Working`: a thread is inside its slice, at the operation its call belongs to;
    `Stored`: the map has the initial keys and those of the stores made so far, and
    no others, whichever threads made them; `Seen`: no reading misses an initial key
    or shows a key nobody writes;
  - `Scored`: the result of each thread is possible for the part of its slice that
    is done, and the total for the slices of the joined threads.
- `TypeCorrect`, `SeesOneState` (`ReadsOneState`), `LatchHolds`
  (`StartsTogether`) follow from it.
- `ReportCorrect` (`ReportIsRight`) needs also that the slices of `beg_i` and
  `end_i`, with their rounding, meet and cover the list: `Slice`, `WholeList`,
  `SlicesCover` (operation `i` of `n` is in the slice of thread
  `(i * thread_num - 1) \div n`). The code divides in doubles, which truncates to
  the same integer as long as `n * thread_num` is far below 2^53. The persistent map
  loses no store because `Locked` and `HalfDone` leave no second writer between the
  copy and the swap.

So the abstract promises rest on each other as the code does: the root protocol
is proved over `BlockStore`, the cache is proved to be a `BlockStore` (with fresh
descriptors, and up to a late dup that the free list lets through), and the
variable-length allocator a sorted free list, which is a `ChunkHeap`.

Only model-checked:

- liveness (`Returns`, `Answers`, `Ends`), which the prover does not handle;
- `Trie`, whose functions are recursive operators, which TLAPS does not support.

## 6. Not modelled, and limits

- *Weak memory*: steps are sequentially consistent and plain stores are seen
  in program order. On x86 a `__sync` operation is a full barrier and stores
  stay in order, so that this is the behaviour of the target; a plain read
  is never reordered before an earlier locked operation.
- `FixedAllocator` takes calls of the variable-length allocator for one step,
  except for `lightRelease`, and does not carry the words of the free list. The
  two things this is known to hide are left open in the model: a late dup in the
  window of finding 1 or on a word of the free list, and versions that merges
  set back. A late dup that succeeds ends the behaviour, so that no run and no
  theorem about the cache says what a reader may see, or what the free list may
  suffer, after it. `HashTrieImpl` rests on `BlockStore` and so on root blocks
  that stay in the cache as long as their old descriptors are about.
- Reference counts that overflow their 22 bits; totals of the benchmark that
  overflow an `unsigned` (`mt-bench.cc:51`), and so a report modulo 2^32.
- Releases below the root: the code has them commented out, so that every
  store leaks the cells and nodes it supersedes. No property states the leak;
  the mutant `releaseNodeDeep` of `Trie` shows what the comment of
  `trie/node.hh:334` says, that they must not be released as long as shared
  nodes are not counted (line 276).
- `HashTrie::store` without the lock of `PersistentMap` (the TODO of
  `hashtrie.hh:38`); the mutant `NoLock` shows that the lock is needed.
- A process that opens a region under another size, which `initOnce` answers by
  initialising it again under its users; failures of `mmap`, `open` and
  `ftruncate`; a crash of one process among several (a mutex of `PersistentMap`
  is private to its process and dies with it); the node block below a new root,
  which `RootNode`'s constructor may fail to get.
- What a trie with a hole does next (finding 4): it reads and overwrites
  a chunk nobody owns.
- `isMember` of `HashTrieImpl` is a stub; `HashTrieImpl::foreach(callback)`
  calls an overload that does not exist and would not end if it did; neither
  is called. `map.hh`, `st-bench.cc`, `nano_timer.hh` and the `Makefile` have
  no behaviour of interest.
- Byte strings: keys are model values, so that `strncmp` stopping at a NUL is
  not told from equality.

## 7. Plan

Done: all modules above. `VersionTag` of an earlier plan has become a bound of
`va_merge`, `SharedInit` a part of `HashTrieImpl`, `SyncMaps` is `SyncMap` and
`MtBench`.

Left: `HashTrieImpl` over an allocator that goes on after a late dup (finding 1), to
see what readers can observe of it; it matters only if root blocks go back to the free list
while old descriptors are in a reader's hand.
