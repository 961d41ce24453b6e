--------------------------- MODULE FixedAllocator ---------------------------
(***************************************************************************)
(* The lock-free cache of fixed-size blocks (fixed_allocator.hh) in front  *)
(* of the variable-length allocator.  Each size class (SuperBlock) keeps a *)
(* stack of dead blocks, linked through their own first word, and two      *)
(* counters.  Every step is one access to shared memory.                   *)
(*                                                                         *)
(* The operations of the variable-length allocator are single steps here,  *)
(* as VariableAllocator shows them to be for callers who hold a reference: *)
(* allocate and lightRelease may fail for want of retries.  Where such a   *)
(* step would hide something it is taken apart or left open:               *)
(*   - lightRelease has two steps, and between them the word of the block  *)
(*     looks alive (variable_allocator.hh lines 350-363);                  *)
(*   - the word of a block in the heap is the free list's, whose version   *)
(*     and next may be anything, set back by merges too (line 35): a late  *)
(*     dup may find it alive, and the next life starts under any version;  *)
(*   - a late dup that succeeds (finding 1 of the README) ends the         *)
(*     behaviour: what follows from it, in the free list too, is not       *)
(*     followed any further.                                               *)
(***************************************************************************)
EXTENDS Integers, FiniteSets, Bags, TLC

CONSTANTS
    Threads,
    Blocks,          \* blocks the heap can be cut into
    Classes,         \* size classes, SUPER_BLOCK_COUNT of them in the code
    Large,           \* the sizes above BLOCK_SIZE_LAST, no class
    Sizes,           \* the sizes the clients ask for
    Ops,             \* the operations the clients call
    VersionMod,      \* number of versions, 2^10 in the code
    HeapVersions,    \* versions under which the heap starts a life, all in the code
    Recurring,       \* may the heap start a life under a descriptor of an earlier one?
    CounterMod,      \* number of values of a counter, 2^32 in the code
    MaxCalls,        \* bound on the number of calls
    Running,         \* threads that are scheduled as long as they can step
    END,             \* Block::END
    Junk,            \* what a client has written into a block's first word
    None

ASSUME SizesAssumption == Large \notin Classes /\ Sizes \subseteq Classes \cup {Large}
ASSUME ModAssumption == VersionMod \in Nat \ {0, 1} /\ CounterMod \in Nat \ {0}
ASSUME HeapAssumption == HeapVersions \subseteq 0 .. VersionMod - 1 /\ Recurring \in BOOLEAN
ASSUME CounterAssumption == Cardinality(Blocks) < CounterMod   \* 2^22 indexes at most
ASSUME FiniteAssumption == IsFiniteSet(Threads) /\ IsFiniteSet(Blocks)

VARIABLES
    word,         \* block |-> [version, refs, size], its word in the heap
    inHeap,       \* blocks the variable-length allocator owns
    link,         \* block |-> its first word, Block::next while it is cached
    head,         \* class |-> head.next
    used_count, free_count,     \* class |-> counter
    pc, call,     \* thread |-> next step, arguments and locals
    held,         \* bag of descriptors: the references clients own
    born,         \* descriptors handed out so far
    calls

shared == <<word, inHeap, link, head, used_count, free_count>>
vars == <<word, inHeap, link, head, used_count, free_count, pc, call, held, born, calls>>

Descriptors == [version : 0 .. VersionMod - 1, index : Blocks]

ASSUME NamesAssumption == {END, Junk, None} \cap Descriptors = {}

Descriptor(b) == [version |-> word[b].version, index |-> b]

Inc(counter, c) == counter' = [counter EXCEPT ![c] = (@ + 1) % CounterMod]
Dec(counter, c) == counter' = [counter EXCEPT ![c] = (@ + CounterMod - 1) % CounterMod]

-----------------------------------------------------------------------------
(* Calls and returns *)

NoCall == [op |-> "none", size |-> None, md |-> None, top |-> None, next |-> None,
           used |-> None]

Goto(t, label) == pc' = [pc EXCEPT ![t] = label]
Return(t) == Goto(t, "idle") /\ call' = [call EXCEPT ![t] = NoCall]
Hold(md, n) == held' = held (+) [d \in {md} |-> n]

Class(t) == call[t].size
Md(t) == call[t].md
Top(t) == call[t].top

Begin(t, op, size, md, label) ==
    /\ pc[t] = "idle" /\ op \in Ops /\ calls < MaxCalls
    /\ calls' = calls + 1
    /\ call' = [call EXCEPT ![t] = [NoCall EXCEPT !.op = op, !.size = size, !.md = md]]
    /\ Goto(t, label)

CallAllocate(t, size) ==
    /\ Begin(t, "allocate", size, None, IF size = Large THEN "base" ELSE "popHead")
    /\ UNCHANGED <<shared, held, born>>

\* release(md), or undup(md) and release_no_undup(md) as the trie calls them
CallRelease(t, md) ==
    /\ BagIn(md, held)
    /\ Begin(t, "release", None, md, "undup")
    /\ held' = held (-) SetToBag({md})
    /\ UNCHANGED <<shared, born>>

\* Callers of dup hold a reference themselves, or read md from shared memory
\* some time ago (ref.hh line 24, hashtrie_impl.hh line 86).
CallDup(t, md) ==
    /\ Begin(t, "dup", None, md, "dup")
    /\ UNCHANGED <<shared, held, born>>

\* A client writes into a block it holds, or into one the heap has cut so
\* that it covers a block of an earlier life.
Write(b) ==
    /\ b \in inHeap \/ \E md \in BagToSet(held) : md.index = b
    /\ link[b] # Junk
    /\ link' = [link EXCEPT ![b] = Junk]
    /\ UNCHANGED <<word, inHeap, head, used_count, free_count, pc, call, held, born, calls>>

Call(t) ==
    \/ \E size \in Sizes : CallAllocate(t, size)
    \/ \E md \in BagToSet(held) : CallRelease(t, md)
    \/ \E md \in born : CallDup(t, md)

-----------------------------------------------------------------------------
(* The variable-length allocator, one step for each call *)

Matches(md) == word[md.index].version = md.version

Bump(version) == (version + 1) % VersionMod

\* The blocks whose word a release has changed and not yet published.
Opened == {Md(t).index : t \in {u \in Threads : pc[u] = "lightPublish"}}

\* The version of an opened block is bumped by then or not.
Exposed(md) ==
    \/ md.index \in inHeap
    \/ md.index \in Opened /\ md.version \in {word[md.index].version, Bump(word[md.index].version)}

BaseDup(t) ==
    /\ pc[t] = "dup"
    /\ \/ /\ ~ Matches(Md(t)) \/ word[Md(t).index].refs = 0
          /\ UNCHANGED <<word, held>>
       \/ /\ Matches(Md(t)) /\ word[Md(t).index].refs > 0
          /\ word' = [word EXCEPT ![Md(t).index].refs = @ + 1]
          /\ Hold(Md(t), 1)
    /\ Return(t)
    /\ UNCHANGED <<inHeap, link, head, used_count, free_count, born, calls>>

\* A dup by a descriptor of an ended life that finds the block alive: between
\* the plain stores of a release and its swap, or in the free list.
LateDup(t) ==
    /\ pc[t] = "dup" /\ Exposed(Md(t))
    /\ word' = [word EXCEPT ![Md(t).index].version = Md(t).version, ![Md(t).index].refs = 1]
    /\ Hold(Md(t), 1)
    /\ Goto(t, "astray")
    /\ UNCHANGED <<inHeap, link, head, used_count, free_count, call, born, calls>>

BaseAllocate(t) ==
    /\ pc[t] = "base"
    /\ \/ \E b \in inHeap, version \in HeapVersions :
            LET md == [version |-> version, index |-> b]
            IN  /\ Recurring \/ md \notin born
                /\ word' = [word EXCEPT ![b] =
                       [version |-> version, refs |-> 1, size |-> Class(t)]]
                /\ inHeap' = inHeap \ {b}
                /\ born' = born \cup {md}
                /\ \/ Class(t) = Large /\ Return(t) /\ Hold(md, 1)
                   \/ /\ Class(t) # Large
                      /\ call' = [call EXCEPT ![t].md = md]
                      /\ Goto(t, "baseUsed") /\ UNCHANGED held
       \/ Return(t) /\ UNCHANGED <<word, inHeap, born, held>>
    /\ UNCHANGED <<link, head, used_count, free_count, calls>>

BaseUndup(t) ==
    /\ pc[t] = "undup"
    /\ LET refs == word[Md(t).index].refs
           size == word[Md(t).index].size
       IN  \/ ~ Matches(Md(t)) /\ Goto(t, "abort") /\ UNCHANGED <<word, call>>
           \/ /\ Matches(Md(t)) /\ refs > 1
              /\ word' = [word EXCEPT ![Md(t).index].refs = @ - 1]
              /\ Return(t)
           \/ /\ Matches(Md(t)) /\ refs <= 1
              /\ word' = [word EXCEPT ![Md(t).index].refs = 0]
              /\ call' = [call EXCEPT ![t].size = size]
              /\ Goto(t, IF size = Large THEN "abort" ELSE "readUsed")
    /\ UNCHANGED <<inHeap, link, head, used_count, free_count, held, born, calls>>

-----------------------------------------------------------------------------
(* allocate *)

PopHead(t) ==
    /\ pc[t] = "popHead"
    /\ \/ head[Class(t)] = END /\ Goto(t, "base") /\ UNCHANGED call
       \/ /\ head[Class(t)] # END
          /\ call' = [call EXCEPT ![t].top = head[Class(t)]]
          /\ Goto(t, "popLink")
    /\ UNCHANGED <<shared, held, born, calls>>

\* The block may be somebody else's by now.
PopLink(t) ==
    /\ pc[t] = "popLink"
    /\ call' = [call EXCEPT ![t].next = link[Top(t).index]]
    /\ Goto(t, "popCas")
    /\ UNCHANGED <<shared, held, born, calls>>

\* Slip: only the block's index is compared, as if there were no version.
PopAnyLife(t) ==
    /\ pc[t] = "popCas"
    /\ LET same == head[Class(t)] \in Descriptors /\ head[Class(t)].index = Top(t).index
       IN  \/ /\ same
              /\ head' = [head EXCEPT ![Class(t)] = call[t].next]
              /\ Goto(t, "popUsed") /\ UNCHANGED call
           \/ /\ ~ same
              /\ call' = [call EXCEPT ![t].top = None, ![t].next = None]
              /\ Goto(t, "popHead") /\ UNCHANGED head
    /\ UNCHANGED <<word, inHeap, link, used_count, free_count, held, born, calls>>

\* Slip: the head is stored, not swapped in.
PopStore(t) ==
    /\ pc[t] = "popCas"
    /\ head' = [head EXCEPT ![Class(t)] = call[t].next]
    /\ Goto(t, "popUsed")
    /\ UNCHANGED <<word, inHeap, link, used_count, free_count, call, held, born, calls>>

\* Slip: a failed swap is tried again without a new look at the head.
PopSameHead(t) ==
    /\ pc[t] = "popCas"
    /\ head[Class(t)] = Top(t)
    /\ head' = [head EXCEPT ![Class(t)] = call[t].next]
    /\ Goto(t, "popUsed")
    /\ UNCHANGED <<word, inHeap, link, used_count, free_count, call, held, born, calls>>

PopCas(t) ==
    /\ pc[t] = "popCas"
    /\ \/ /\ head[Class(t)] = Top(t)
          /\ head' = [head EXCEPT ![Class(t)] = call[t].next]
          /\ Goto(t, "popUsed") /\ UNCHANGED call
       \/ /\ head[Class(t)] # Top(t)
          /\ call' = [call EXCEPT ![t].top = None, ![t].next = None]
          /\ Goto(t, "popHead") /\ UNCHANGED head
    /\ UNCHANGED <<word, inHeap, link, used_count, free_count, held, born, calls>>

PopUsed(t) ==
    /\ pc[t] = "popUsed"
    /\ Inc(used_count, Class(t)) /\ Goto(t, "popFree")
    /\ UNCHANGED <<word, inHeap, link, head, free_count, call, held, born, calls>>

\* Slip: the counter is a signed one.
PopFreeSigned(t) ==
    /\ pc[t] = "popFree"
    /\ free_count' = [free_count EXCEPT ![Class(t)] = @ - 1] /\ Goto(t, "revive")
    /\ UNCHANGED <<word, inHeap, link, head, used_count, call, held, born, calls>>

PopFree(t) ==
    /\ pc[t] = "popFree"
    /\ Dec(free_count, Class(t)) /\ Goto(t, "revive")
    /\ UNCHANGED <<word, inHeap, link, head, used_count, call, held, born, calls>>

\* Slip: the block starts its new life under its old version.
ReviveSameVersion(t) ==
    /\ pc[t] = "revive"
    /\ LET b == Top(t).index
       IN  \/ /\ ~ Matches(Top(t)) \/ word[b].refs # 0
              /\ Goto(t, "abort") /\ UNCHANGED <<word, call, held>>
           \/ /\ Matches(Top(t)) /\ word[b].refs = 0
              /\ word' = [word EXCEPT ![b].refs = 1]
              /\ Hold(Top(t), 1) /\ Return(t)
    /\ UNCHANGED <<inHeap, link, head, used_count, free_count, born, calls>>

\* dupNew and its asserts
Revive(t) ==
    /\ pc[t] = "revive"
    /\ LET b == Top(t).index
           md == [version |-> Bump(word[b].version), index |-> b]
       IN  \/ /\ ~ Matches(Top(t)) \/ word[b].refs # 0
              /\ Goto(t, "abort") /\ UNCHANGED <<word, call, held, born>>
           \/ /\ Matches(Top(t)) /\ word[b].refs = 0
              /\ word' = [word EXCEPT ![b].version = md.version, ![b].refs = 1]
              /\ born' = born \cup {md}
              /\ Hold(md, 1) /\ Return(t)
    /\ UNCHANGED <<inHeap, link, head, used_count, free_count, calls>>

BaseUsed(t) ==
    /\ pc[t] = "baseUsed"
    /\ Inc(used_count, Class(t))
    /\ Hold(Md(t), 1) /\ Return(t)
    /\ UNCHANGED <<word, inHeap, link, head, free_count, born, calls>>

-----------------------------------------------------------------------------
(* release, once the last reference is gone *)

\* The two counters are read one after the other.
ReadUsed(t) ==
    /\ pc[t] = "readUsed"
    /\ call' = [call EXCEPT ![t].used = used_count[Class(t)]]
    /\ Goto(t, "readFree")
    /\ UNCHANGED <<shared, held, born, calls>>

ReadFree(t) ==
    /\ pc[t] = "readFree"
    /\ Goto(t, IF call[t].used < free_count[Class(t)] THEN "lightRelease" ELSE "pushHead")
    /\ call' = [call EXCEPT ![t].used = None]
    /\ UNCHANGED <<shared, held, born, calls>>

\* lightRelease finds the count at 0, and gives up when it meets competition;
\* else it writes the word of the block, a link of the free list over the count.
LightRelease(t) ==
    /\ pc[t] = "lightRelease"
    /\ LET dead == Matches(Md(t)) /\ word[Md(t).index].refs = 0
       IN  \/ ~ dead /\ Goto(t, "abort")
           \/ dead /\ Goto(t, "pushHead")
           \/ dead /\ Goto(t, "lightPublish")
    /\ UNCHANGED <<shared, call, held, born, calls>>

\* The swap gives the block to the free list, or fails and the word is put back.
LightPublish(t) ==
    /\ pc[t] = "lightPublish"
    /\ \/ /\ word' = [word EXCEPT ![Md(t).index].version = Bump(@)]
          /\ inHeap' = inHeap \cup {Md(t).index}
          /\ Goto(t, "freedUsed")
       \/ Goto(t, "pushHead") /\ UNCHANGED <<word, inHeap>>
    /\ UNCHANGED <<link, head, used_count, free_count, call, held, born, calls>>

\* Slip: the counter is left alone when the block goes back to the heap.
FreedUncounted(t) ==
    /\ pc[t] = "freedUsed"
    /\ Return(t)
    /\ UNCHANGED <<shared, held, born, calls>>

FreedUsed(t) ==
    /\ pc[t] = "freedUsed"
    /\ Dec(used_count, Class(t)) /\ Return(t)
    /\ UNCHANGED <<word, inHeap, link, head, free_count, held, born, calls>>

PushHead(t) ==
    /\ pc[t] = "pushHead"
    /\ call' = [call EXCEPT ![t].top = head[Class(t)]]
    /\ Goto(t, "pushLink")
    /\ UNCHANGED <<shared, held, born, calls>>

PushLink(t) ==
    /\ pc[t] = "pushLink"
    /\ link' = [link EXCEPT ![Md(t).index] = Top(t)]
    /\ Goto(t, "pushCas")
    /\ UNCHANGED <<word, inHeap, head, used_count, free_count, call, held, born, calls>>

PushCas(t) ==
    /\ pc[t] = "pushCas"
    /\ \/ /\ head[Class(t)] = Top(t)
          /\ head' = [head EXCEPT ![Class(t)] = Md(t)]
          /\ Goto(t, "pushUsed") /\ UNCHANGED call
       \/ /\ head[Class(t)] # Top(t)
          /\ call' = [call EXCEPT ![t].top = None]
          /\ Goto(t, "pushHead") /\ UNCHANGED head
    /\ UNCHANGED <<word, inHeap, link, used_count, free_count, held, born, calls>>

PushUsed(t) ==
    /\ pc[t] = "pushUsed"
    /\ Dec(used_count, Class(t)) /\ Goto(t, "pushFree")
    /\ UNCHANGED <<word, inHeap, link, head, free_count, call, held, born, calls>>

PushFree(t) ==
    /\ pc[t] = "pushFree"
    /\ Inc(free_count, Class(t)) /\ Return(t)
    /\ UNCHANGED <<word, inHeap, link, head, used_count, held, born, calls>>

-----------------------------------------------------------------------------
Init ==
    /\ word = [b \in Blocks |-> [version |-> 0, refs |-> 0, size |-> None]]
    /\ inHeap = Blocks
    /\ link = [b \in Blocks |-> Junk]
    /\ head = [c \in Classes |-> END]
    /\ used_count = [c \in Classes |-> 0]
    /\ free_count = [c \in Classes |-> 0]
    /\ pc = [t \in Threads |-> "idle"]
    /\ call = [t \in Threads |-> NoCall]
    /\ held = EmptyBag
    /\ born = {}
    /\ calls = 0

Step(t) ==
    \/ BaseDup(t) \/ BaseAllocate(t) \/ BaseUndup(t)
    \/ PopHead(t) \/ PopLink(t) \/ PopCas(t) \/ PopUsed(t) \/ PopFree(t)
    \/ Revive(t) \/ BaseUsed(t)
    \/ ReadUsed(t) \/ ReadFree(t) \/ LightRelease(t) \/ LightPublish(t) \/ FreedUsed(t)
    \/ PushHead(t) \/ PushLink(t) \/ PushCas(t) \/ PushUsed(t) \/ PushFree(t)

Kept ==
    \/ \E t \in Threads : Call(t) \/ Step(t)
    \/ \E b \in Blocks : Write(b)

\* Nothing is said of what happens after a late dup.
Astray == \E t \in Threads : pc[t] = "astray"

Run(t) == ~ Astray /\ (Step(t) \/ LateDup(t))

Next ==
    \/ ~ Astray /\ Kept
    \/ ~ Astray /\ \E t \in Threads : LateDup(t)

Spec == Init /\ [][Next]_vars
\* The Running threads go on with their call; the others may stop anywhere.
FairSpec == Spec /\ \A t \in Running : WF_vars(Run(t))

-----------------------------------------------------------------------------
(* Properties *)

\* Position k of the stack of class c, the top at 0.
Entry(c) ==
    LET entry[k \in 0 .. Cardinality(Blocks)] ==
            IF k = 0 THEN head[c]
            ELSE IF entry[k - 1] \in Descriptors THEN link[entry[k - 1].index]
            ELSE Junk
    IN  entry

Cached(c) == {Entry(c)[k] : k \in 0 .. Cardinality(Blocks)} \cap Descriptors

\* Where a call is: between its look at a head and its swap; with a block that
\* it has popped; with one that has lost its last reference; with a reference
\* that no client owns.
Popping == {"popLink", "popCas"}
Popped == {"popUsed", "popFree", "revive"}
Leaving == {"readUsed", "readFree", "lightRelease", "lightPublish",
            "pushHead", "pushLink", "pushCas", "abort"}
Owing == {"undup", "baseUsed"}
Labels == {"idle", "dup", "astray", "base", "popHead", "freedUsed", "pushUsed", "pushFree"}
              \cup Popping \cup Popped \cup Leaving \cup Owing

\* The descriptors of the dead blocks that are in a thread's hand.
InHand(t) ==
    IF pc[t] \in Popped THEN {Top(t)} ELSE IF pc[t] \in Leaving THEN {Md(t)} ELSE {}

Calls == [op : {"none", "allocate", "release", "dup"},
          size : Classes \cup {Large, None},
          md : Descriptors \cup {None},
          top : Descriptors \cup {END, None},
          next : Descriptors \cup {END, Junk, None},
          used : {None} \cup 0 .. CounterMod - 1]

TypeOK ==
    /\ word \in [Blocks -> [version : 0 .. VersionMod - 1, refs : Nat,
                            size : Classes \cup {Large, None}]]
    /\ inHeap \subseteq Blocks
    /\ link \in [Blocks -> Descriptors \cup {END, Junk}]
    /\ head \in [Classes -> Descriptors \cup {END}]
    /\ used_count \in [Classes -> 0 .. CounterMod - 1]
    /\ free_count \in [Classes -> 0 .. CounterMod - 1]
    /\ pc \in [Threads -> Labels] /\ call \in [Threads -> Calls]
    /\ IsABag(held)
    /\ BagToSet(held) \subseteq born /\ born \subseteq Descriptors

(***************************************************************************)
(* No assert fails but one: dupNew always finds the block it popped dead   *)
(* and under the version it was cached with, although a pop reads a link   *)
(* that may belong to somebody else by then (fixed_allocator.hh lines      *)
(* 84-94), and undup and lightRelease find the version of their caller.    *)
(* The exception: the last release of a block above BLOCK_SIZE_LAST stops  *)
(* the process in getSuperBlockId (line 181), which has no class for it    *)
(* and never returns the 0 that line 132 tests for.                        *)
(***************************************************************************)
NoAbort ==
    ~ Astray => \A t \in Threads :
        pc[t] = "abort" =>
            /\ call[t].op = "release" /\ Class(t) = Large
            /\ Matches(Md(t)) /\ word[Md(t).index].refs = 0

(***************************************************************************)
(* Each stack ends, and holds dead blocks of its own class only, under     *)
(* their present version; a dead block is in one place: in one stack, in   *)
(* the heap or in the hand of one thread.                                  *)
(***************************************************************************)
StackSound ==
    ~ Astray =>
    /\ \A c \in Classes :
          /\ \E n \in 0 .. Cardinality(Blocks) : Entry(c)[n] = END
          /\ \A md \in Cached(c) :
                /\ md = Descriptor(md.index) /\ md.index \notin inHeap
                /\ word[md.index].refs = 0 /\ word[md.index].size = c
    /\ \A t \in Threads : \A md \in InHand(t) :
          /\ md.index \notin inHeap
          /\ \A c \in Classes : md \notin Cached(c)
          /\ \A u \in Threads \ {t} : md \notin InHand(u)

(***************************************************************************)
(* The counters, changed after the fact and one at a time, come right      *)
(* again: when no call is running, free_count is the number of cached      *)
(* blocks and used_count the number of referenced ones, and every block    *)
(* that is neither is back in the heap.  (In between they may be off, and  *)
(* free_count may be below 0, that is, huge.)                              *)
(***************************************************************************)
CountersSettle ==
    (\A t \in Threads : pc[t] = "idle") =>
        /\ \A c \in Classes :
              /\ free_count[c] = Cardinality(Cached(c))
              /\ used_count[c] = Cardinality({b \in Blocks \ inHeap :
                                     word[b].size = c /\ word[b].refs > 0})
        /\ \A b \in Blocks \ inHeap :
              word[b].refs > 0 \/ \E c \in Classes : Descriptor(b) \in Cached(c)

-----------------------------------------------------------------------------
(* The inductive invariant *)

Dead == {b \in Blocks \ inHeap : word[b].refs = 0}

\* The dead blocks of class c that are in nobody's hand.
Stacked(c) ==
    {b \in Dead : word[b].size = c /\ \A t \in Threads : Descriptor(b) \notin InHand(t)}

Referenced(c) == {b \in Blocks \ inHeap : word[b].size = c /\ word[b].refs > 0}

\* The references to md that clients own, and those that calls are about to
\* drop or to hand over.
Copies(md) == IF BagIn(md, held) THEN held[md] ELSE 0
Owed(md) == {t \in Threads : pc[t] \in Owing /\ Md(t) = md}

At(c, labels) == {t \in Threads : pc[t] \in labels /\ Class(t) = c}

\* What a call knows at each step.
Locals(t) ==
    /\ pc[t] \notin {"idle", "dup", "astray", "undup", "base", "abort"} => Class(t) \in Classes
    /\ pc[t] = "base" => Class(t) \in Classes \cup {Large}
    /\ pc[t] = "abort" => Class(t) = Large
    /\ pc[t] \in {"dup"} \cup Owing \cup Leaving => Md(t) \in born
    /\ pc[t] \in {"undup"} \cup Leaving => call[t].op = "release"
    /\ pc[t] \in Popping \cup Popped => Top(t) \in Descriptors
    /\ pc[t] \in {"pushLink", "pushCas"} => Top(t) \in Descriptors \cup {END}

Located == \A t \in Threads : Locals(t)

\* The word of a block counts its references; who has one has the version.
Counted ==
    /\ \A md \in BagToSet(held) : Matches(md)
    /\ \A t \in Threads : pc[t] \in Owing => Matches(Md(t))
    /\ \A b \in Blocks :
          /\ word[b].refs = Copies(Descriptor(b)) + Cardinality(Owed(Descriptor(b)))
          /\ b \in inHeap => word[b].refs = 0
          /\ b \notin inHeap => word[b].size \in Classes \cup {Large}

\* A dead block is in one hand at most, and one without a class is in a hand.
Hands ==
    /\ \A t \in Threads : \A md \in InHand(t) :
          /\ Matches(md) /\ md.index \in Dead /\ word[md.index].size = Class(t)
          /\ \A u \in Threads \ {t} : md \notin InHand(u)
    /\ Stacked(Large) = {}

\* The stacked blocks of a class in order, the top last.
InOrder(c, s) ==
    LET n == Cardinality(Stacked(c))
    IN  /\ \A b \in Stacked(c) : \E i \in 1 .. n : s[i] = b
        /\ \A i, j \in 1 .. n : s[i] = s[j] => i = j
        /\ head[c] = IF n = 0 THEN END ELSE Descriptor(s[n])
        /\ \A i \in 1 .. n : link[s[i]] = IF i = 1 THEN END ELSE Descriptor(s[i - 1])

Stacks ==
    \A c \in Classes : \E s \in [1 .. Cardinality(Stacked(c)) -> Stacked(c)] : InOrder(c, s)

\* A block that still has the version under which it was seen as a head has
\* not been revived, so that its link is the one that was read.
Looked ==
    \A t \in Threads :
        pc[t] \in Popping /\ Matches(Top(t)) =>
            /\ Top(t).index \in Dead
            /\ \A u \in Threads : pc[u] \in Leaving => Md(u) # Top(t)
            /\ pc[t] = "popCas" => call[t].next = link[Top(t).index]

Linked == \A t \in Threads : pc[t] = "pushCas" => link[Md(t).index] = Top(t)

\* The counters are what they should be, but for the calls that have moved a
\* block and not counted it yet.
Tallied ==
    \A c \in Classes :
        /\ (free_count[c] + Cardinality(At(c, {"pushUsed", "pushFree"}))) % CounterMod
              = (Cardinality(Stacked(c)) + Cardinality(At(c, {"popUsed", "popFree"}))) % CounterMod
        /\ (used_count[c] + Cardinality(At(c, {"baseUsed"}))) % CounterMod
              = (Cardinality(Referenced(c))
                    + Cardinality(At(c, {"popFree", "revive", "pushUsed", "freedUsed"}
                                            \cup Leaving))) % CounterMod

(***************************************************************************)
(* All that a step relies on: where each block is, who counts it, in which *)
(* order the stacks are linked, and what a pop may conclude from a head    *)
(* that has not changed since it looked (fixed_allocator.hh lines 84-94).  *)
(***************************************************************************)
Sound == Located /\ Counted /\ Hands /\ Stacks /\ Looked /\ Linked /\ Tallied
Inv == TypeOK /\ (Astray \/ Sound)

-----------------------------------------------------------------------------
Living == {Descriptor(b) : b \in {x \in Blocks : word[x].refs > 0}}

Store == INSTANCE BlockStore WITH
    live <- [md \in Living |-> word[md.index].refs],
    retired <- born \ Living

(***************************************************************************)
(* The cache keeps the promise of BlockStore (dupRoot relies on it) as far *)
(* as the free list lets it: whatever the threads do between the reads and *)
(* the swaps of a pop and a push, no block has two lives at once, and a    *)
(* dup gives references to living blocks only, under the descriptor of     *)
(* their present life, up to the first dup by an old descriptor that meets *)
(* its block on the way to the free list or in it.  That dup may succeed   *)
(* (variable_allocator.hh lines 360-363), and the promise ends there.      *)
(***************************************************************************)
StoreSpec == Store!Init /\ [][~ Astray' => [Store!Next]_(Store!vars)]_vars

(***************************************************************************)
(* Lock freedom, as far as bounded calls show it: neither the pop loop nor *)
(* the push loop, which have no retry limit, waits for a thread that has   *)
(* stopped.  (A late dup that succeeds is the end of the behaviour.)       *)
(***************************************************************************)
Returns == \A t \in Running : pc[t] # "idle" ~> pc[t] \in {"idle", "abort"} \/ Astray
=============================================================================
