---------------------------- MODULE HashTrieImpl ----------------------------
(***************************************************************************)
(* The root of the persistent trie: one writer at a time, under the mutex  *)
(* of PersistentMap, copies the root node and swings h_->root to the copy; *)
(* readers take a reference to the root they find, without any lock, and   *)
(* read the tree below it in peace (hashtrie_impl.hh, ref.hh, the root     *)
(* node of node.hh, View of hashtrie.hh, PersistentMap of sync_map.hh).    *)
(*                                                                         *)
(* The region may be a named file: whoever opens it first initialises it,  *)
(* its contents outlive the processes, and they may die between any two    *)
(* steps (HashTrie of hashtrie.hh, shared_memory.hh).  Writers that do not *)
(* share a PersistentMap are taken to share a lock all the same: store     *)
(* leaves it to them (the TODO of hashtrie.hh line 38).                    *)
(*                                                                         *)
(* The allocator is the BlockStore that FixedAllocator implements.  A root *)
(* node is the map it leads to, and its depth; the nodes and cells below   *)
(* the root are never changed, and never freed in the code as it is (the   *)
(* release of line 335 of node.hh is commented out), so that reading them  *)
(* is one step.                                                            *)
(***************************************************************************)
EXTENDS Integers, FiniteSets, TLC

CONSTANTS
    Threads,
    Blocks,           \* blocks a root node can be put in
    Keys, Values,
    Trigger,          \* next_resize_trigger_ of a new trie, 16 * 4 in the code
    Fanout,           \* 16 in the code
    MaxVersion,       \* bound on the lives of a block
    MaxStores,        \* bound on the number of stores
    MaxCrashes,       \* bound on the number of crashes
    Careful,          \* init() is let finish before others open the region
    Ops,              \* what the threads do
    None

ASSUME CarefulAssumption == Careful \in BOOLEAN
ASSUME SizeAssumption == Trigger \in Nat \ {0} /\ Fanout \in Nat \ {0}
ASSUME ThreadsAssumption == IsFiniteSet(Threads)

Descriptors == [version : 0 .. MaxVersion, index : Blocks]

ASSUME NoneAssumption == None \notin Threads /\ None \notin Descriptors

VARIABLES
    root,       \* h_->root, or None for 0
    header,     \* the rest of the header that is written: "magic", "size"
    live, retired,     \* the allocator's promise, see BlockStore
    node,       \* block |-> the root node last written into it
    mutex,      \* the thread that holds mtx_, or None
    pc, call,   \* thread |-> next step, arguments and locals
    view,       \* thread |-> root_ of its View, or None
    window,     \* thread |-> the maps current since it began to open a view
    stores,     \* number of stores begun
    crashes     \* number of crashes

allocator == <<live, retired, node>>
rest == <<header, stores, crashes>>
vars == <<root, header, live, retired, node, mutex, pc, call, view, window, stores, crashes>>

Alc == INSTANCE BlockStore

-----------------------------------------------------------------------------
Goto(t, label) == pc' = [pc EXCEPT ![t] = label]

\* key, value: arguments; ref: md_ of store's Ref; from: the root that
\* RootNode::store copies; to: the copy.
NoCall == [op |-> "none", key |-> None, value |-> None, ref |-> None,
           from |-> None, to |-> None]

Map(md) == node[md.index].map
Fresh == {b \in Blocks : \A md \in DOMAIN live : md.index # b}
Descriptor(b) == [version |-> Cardinality({md \in retired : md.index = b}), index |-> b]

count(md) == Cardinality({k \in Keys : Map(md)[k] # None})
next_resize_trigger(md) == Trigger * Fanout ^ node[md.index].depth

\* A fresh block, or an abort: allocate returned 0 and an assert fails.
New(t, content, label) ==
    \/ \E b \in Fresh :
          /\ Alc!Allocate(Descriptor(b))
          /\ node' = [node EXCEPT ![b] = content]
          /\ call' = [call EXCEPT ![t].to = Descriptor(b)]
          /\ Goto(t, label)
    \/ /\ Fresh = {}
       /\ Goto(t, "abort") /\ UNCHANGED <<allocator, call>>

\* Slip: undup alone, the dead block is not released.
DropUndupOnly(t, md, label) ==
    IF md \in DOMAIN live
    THEN live' = [live EXCEPT ![md] = @ - 1] /\ Goto(t, label) /\ UNCHANGED retired
    ELSE Goto(t, "abort") /\ UNCHANGED <<live, retired>>

\* undup and, for the last reference, release_no_undup
Drop(t, md, label) ==
    IF md \in DOMAIN live
    THEN Alc!Release(md) /\ Goto(t, label)
    ELSE Goto(t, "abort") /\ UNCHANGED <<live, retired>>

-----------------------------------------------------------------------------
(* HashTrie(shm_size, filepath): initOnce, init *)

Opening == {"alcInit", "magic", "size", "allocRoot", "newRoot"}
Empty == [map |-> [k \in Keys |-> None], depth |-> 0]

\* initOnce compares the magic and the size.
Open(t) ==
    /\ pc[t] = "closed"
    /\ Careful => \A u \in Threads : pc[u] \notin Opening
    /\ Goto(t, IF header = {"magic", "size"} THEN "idle" ELSE "alcInit")
    /\ UNCHANGED <<root, allocator, mutex, call, view, window, rest>>

\* Every block goes back to the heap; the versions stay what they are.
AlcInit(t) ==
    /\ pc[t] = "alcInit"
    /\ live' = [md \in {} |-> 0]
    /\ retired' = retired \cup DOMAIN live
    /\ Goto(t, "magic")
    /\ UNCHANGED <<root, node, mutex, call, view, window, rest>>

WriteHeader(t, field, label) ==
    /\ pc[t] = field
    /\ header' = header \cup {field}
    /\ Goto(t, label)
    /\ UNCHANGED <<root, allocator, mutex, call, view, window, stores, crashes>>

\* The root is published before the node is constructed.  If there is no
\* block, the trie cannot be used and the header stays as it is.  The blocks
\* are all alike here.
AllocRoot(t) ==
    /\ pc[t] = "allocRoot"
    /\ IF Fresh = {}
       THEN /\ root' = None
            /\ Goto(t, "closed")
            /\ UNCHANGED <<live, retired, call>>
       ELSE LET md == Descriptor(CHOOSE b \in Fresh : TRUE)
            IN  /\ Alc!Allocate(md)
                /\ root' = md
                /\ call' = [call EXCEPT ![t].to = md]
                /\ Goto(t, "newRoot")
    /\ UNCHANGED <<node, mutex, view, window, rest>>

NewRoot(t) ==
    /\ pc[t] = "newRoot"
    /\ node' = [node EXCEPT ![call[t].to.index] = Empty]
    /\ call' = [call EXCEPT ![t] = NoCall]
    /\ Goto(t, "idle")
    /\ UNCHANGED <<root, live, retired, mutex, view, window, rest>>

OpenRegion(t) ==
    \/ Open(t) \/ AlcInit(t)
    \/ WriteHeader(t, "magic", "size") \/ WriteHeader(t, "size", "allocRoot")
    \/ AllocRoot(t) \/ NewRoot(t)

\* The process dies; the region is all that is left.
Crash ==
    /\ crashes < MaxCrashes
    /\ Careful => \A t \in Threads : pc[t] \notin Opening
    /\ crashes' = crashes + 1
    /\ mutex' = None
    /\ pc' = [t \in Threads |-> "closed"]
    /\ call' = [t \in Threads |-> NoCall]
    /\ view' = [t \in Threads |-> None]
    /\ window' = [t \in Threads |-> {}]
    /\ UNCHANGED <<root, header, allocator, stores>>

-----------------------------------------------------------------------------
(* PersistentMap::store, HashTrieImpl::store, RootNode::store *)

CallStore(t, k, v) ==
    /\ pc[t] = "idle" /\ "store" \in Ops /\ stores < MaxStores
    /\ stores' = stores + 1
    /\ call' = [call EXCEPT ![t] = [NoCall EXCEPT !.op = "store", !.key = k, !.value = v]]
    /\ Goto(t, "lock")
    /\ UNCHANGED <<root, header, allocator, mutex, view, window, crashes>>

\* Slip: store takes no lock (the TODO of hashtrie.hh line 38).
NoLock(t) ==
    /\ pc[t] = "lock"
    /\ mutex' = t
    /\ Goto(t, "readRoot")
    /\ UNCHANGED <<root, allocator, call, view, window, rest>>

Lock(t) ==
    /\ pc[t] = "lock" /\ mutex = None
    /\ mutex' = t
    /\ Goto(t, "readRoot")
    /\ UNCHANGED <<root, allocator, call, view, window, rest>>

ReadRoot(t) ==
    /\ pc[t] = "readRoot"
    /\ call' = [call EXCEPT ![t].ref = root]
    /\ Goto(t, "dupRef")
    /\ UNCHANGED <<root, allocator, mutex, view, window, rest>>

\* Slip: store uses the root without a reference to it.
DupRefSkipped(t) ==
    /\ pc[t] = "dupRef"
    /\ call' = [call EXCEPT ![t].from = call[t].ref]
    /\ Goto(t, "copy")
    /\ UNCHANGED <<root, live, retired, node, mutex, view, window, rest>>

\* The constructor of Ref; a Ref that holds nothing sends store back.
DupRef(t) ==
    /\ pc[t] = "dupRef"
    /\ IF call[t].ref \in DOMAIN live
       THEN /\ Alc!Dup(call[t].ref)
            /\ call' = [call EXCEPT ![t].from = call[t].ref]
            /\ Goto(t, "copy")
       ELSE Goto(t, "readRoot") /\ UNCHANGED <<live, retired, call>>
    /\ UNCHANGED <<root, node, mutex, view, window, rest>>

\* A full trie is first rebuilt one level deeper.
Copy(t) ==
    /\ pc[t] = "copy"
    /\ LET from == call[t].from
       IN  \/ /\ count(from) >= next_resize_trigger(from)
              /\ New(t, [node[from.index] EXCEPT !.depth = @ + 1], "dropFull")
           \/ /\ count(from) < next_resize_trigger(from)
              /\ New(t, [node[from.index] EXCEPT !.map[call[t].key] = call[t].value],
                     "dropFrom")
    /\ UNCHANGED <<root, mutex, view, window, rest>>

\* Slip: the superseded root is forgotten when the trie is rebuilt.
DropFullForgotten(t) ==
    /\ pc[t] = "dropFull"
    /\ Goto(t, "copy")
    /\ call' = [call EXCEPT ![t].from = call[t].to]
    /\ UNCHANGED <<root, live, retired, node, mutex, view, window, rest>>

\* releaseNode(root), then store(new_root, ...) again
DropFull(t) ==
    /\ pc[t] = "dropFull"
    /\ Drop(t, call[t].from, "copy")
    /\ call' = [call EXCEPT ![t].from = call[t].to]
    /\ UNCHANGED <<root, node, mutex, view, window, rest>>

\* releaseNode(root): the reference that h_->root stands for
DropFrom(t) ==
    /\ pc[t] = "dropFrom"
    /\ Drop(t, call[t].from, "publish")
    /\ UNCHANGED <<root, node, mutex, call, view, window, rest>>

Publish(t) ==
    /\ pc[t] = "publish"
    /\ root' = call[t].to
    /\ window' = [u \in Threads |->
          IF window[u] = {} THEN {} ELSE window[u] \cup {Map(call[t].to)}]
    /\ Goto(t, "dropRef")
    /\ UNCHANGED <<allocator, mutex, call, view, rest>>

\* The destructor of Ref
DropRef(t) ==
    /\ pc[t] = "dropRef"
    /\ Drop(t, call[t].ref, "unlock")
    /\ UNCHANGED <<root, node, mutex, call, view, window, rest>>

Unlock(t) ==
    /\ pc[t] = "unlock"
    /\ mutex' = None
    /\ call' = [call EXCEPT ![t] = NoCall]
    /\ Goto(t, "idle")
    /\ UNCHANGED <<root, allocator, view, window, rest>>

-----------------------------------------------------------------------------
(* View, and HashTrieImpl::size, which opens and closes a Ref as View does *)

\* View(): dupRoot
CallOpen(t) ==
    /\ pc[t] = "idle" /\ "view" \in Ops /\ view[t] = None
    /\ window' = [window EXCEPT ![t] = {Map(root)}]
    /\ Goto(t, "openRead")
    /\ UNCHANGED <<root, allocator, mutex, call, view, rest>>

OpenRead(t) ==
    /\ pc[t] = "openRead"
    /\ call' = [call EXCEPT ![t].ref = root]
    /\ Goto(t, "openDup")
    /\ UNCHANGED <<root, allocator, mutex, view, window, rest>>

\* Slip: the root is read again after the dup.
OpenDupRereads(t) ==
    /\ pc[t] = "openDup"
    /\ IF call[t].ref \in DOMAIN live
       THEN /\ Alc!Dup(call[t].ref)
            /\ view' = [view EXCEPT ![t] = root]
            /\ window' = [window EXCEPT ![t] = {}]
            /\ call' = [call EXCEPT ![t] = NoCall]
            /\ Goto(t, "idle")
       ELSE Goto(t, "openRead") /\ UNCHANGED <<live, retired, call, view, window>>
    /\ UNCHANGED <<root, node, mutex, rest>>

\* Slip: a refused dup is tried again on the same root.
OpenDupAgain(t) ==
    /\ pc[t] = "openDup"
    /\ call[t].ref \in DOMAIN live
    /\ Alc!Dup(call[t].ref)
    /\ view' = [view EXCEPT ![t] = call[t].ref]
    /\ window' = [window EXCEPT ![t] = {}]
    /\ call' = [call EXCEPT ![t] = NoCall]
    /\ Goto(t, "idle")
    /\ UNCHANGED <<root, node, mutex, rest>>

OpenDup(t) ==
    /\ pc[t] = "openDup"
    /\ IF call[t].ref \in DOMAIN live
       THEN /\ Alc!Dup(call[t].ref)
            /\ view' = [view EXCEPT ![t] = call[t].ref]
            /\ window' = [window EXCEPT ![t] = {}]
            /\ call' = [call EXCEPT ![t] = NoCall]
            /\ Goto(t, "idle")
       ELSE Goto(t, "openRead") /\ UNCHANGED <<live, retired, call, view, window>>
    /\ UNCHANGED <<root, node, mutex, rest>>

\* ~View(): undupRoot
Close(t) ==
    /\ pc[t] = "idle" /\ view[t] # None
    /\ Drop(t, view[t], "idle")
    /\ view' = [view EXCEPT ![t] = None]
    /\ UNCHANGED <<root, node, mutex, call, window, rest>>

\* updateIfNeed: undupRoot, then dupRoot.  An up-to-date view stays.
Update(t) ==
    /\ pc[t] = "idle" /\ "update" \in Ops /\ view[t] # None /\ view[t] # root
    /\ Drop(t, view[t], "openRead")
    /\ view' = [view EXCEPT ![t] = None]
    /\ window' = [window EXCEPT ![t] = {Map(root)}]
    /\ UNCHANGED <<root, node, mutex, call, rest>>

-----------------------------------------------------------------------------
\* A new file: all bytes are 0.
Init ==
    /\ root = None /\ header = {}
    /\ live = [md \in {} |-> 0] /\ retired = {}
    /\ node = [b \in Blocks |-> Empty]
    /\ mutex = None
    /\ pc = [t \in Threads |-> "closed"]
    /\ call = [t \in Threads |-> NoCall]
    /\ view = [t \in Threads |-> None]
    /\ window = [t \in Threads |-> {}]
    /\ stores = 0 /\ crashes = 0

StoreStep(t) ==
    \/ Lock(t) \/ ReadRoot(t) \/ DupRef(t) \/ Copy(t) \/ DropFull(t)
    \/ DropFrom(t) \/ Publish(t) \/ DropRef(t) \/ Unlock(t)

ViewStep(t) == OpenRead(t) \/ OpenDup(t)

Next ==
    \/ Crash
    \/ \E t \in Threads :
        \/ OpenRegion(t)
        \/ \E k \in Keys, v \in Values : CallStore(t, k, v)
        \/ CallOpen(t) \/ Close(t) \/ Update(t)
        \/ StoreStep(t) \/ ViewStep(t)

Spec == Init /\ [][Next]_vars

\* The system schedules every thread, and pthread_mutex_lock lets each waiting
\* writer in sooner or later.
FairSpec == Spec /\ \A t \in Threads : WF_vars(StoreStep(t)) /\ WF_vars(ViewStep(t))
-----------------------------------------------------------------------------
(* Properties *)

\* Labels of a store that holds the mutex
Storing == {"readRoot", "dupRef", "copy", "dropFull", "dropFrom", "publish",
            "dropRef", "unlock", "abort"}
Viewing == {"openRead", "openDup"}
Labels == {"closed", "idle", "lock"} \cup Opening \cup Storing \cup Viewing
Maps == [Keys -> Values \cup {None}]
Calls == [op : {"none", "store"}, key : Keys \cup {None}, value : Values \cup {None},
          ref : Descriptors \cup {None}, from : Descriptors \cup {None},
          to : Descriptors \cup {None}]

TypeOK ==
    /\ root \in Descriptors \cup {None} /\ header \subseteq {"magic", "size"}
    /\ DOMAIN live \subseteq Descriptors /\ retired \subseteq Descriptors
    /\ \A md \in DOMAIN live : live[md] \in Nat \ {0}
    /\ node \in [Blocks -> [map : Maps, depth : Nat]]
    /\ mutex \in Threads \cup {None}
    /\ pc \in [Threads -> Labels]
    /\ call \in [Threads -> Calls]
    /\ view \in [Threads -> Descriptors \cup {None}]
    /\ window \in [Threads -> SUBSET Maps]
    /\ stores \in Nat /\ crashes \in Nat

(***************************************************************************)
(* No reference is given up twice: undup and release never meet a root     *)
(* node that is already released, on any path of store, view and update.   *)
(***************************************************************************)
NoAbort == \A t \in Threads : pc[t] # "abort"

(***************************************************************************)
(* From the moment init() is done, h_->root leads to a living root: also   *)
(* while a store has given up the reference that h_->root stands for and   *)
(* has not yet written the new root, and if the process dies there, in     *)
(* which case the leaked reference of its Ref keeps the root.              *)
(***************************************************************************)
RootAlive == \A t \in Threads : pc[t] = "idle" => root \in DOMAIN live

Refs(md) == IF md \in DOMAIN live THEN live[md] ELSE 0
Viewers(md) == {t \in Threads : view[t] = md}
One(p) == IF p THEN 1 ELSE 0
Owed(md) == Cardinality(Viewers(md)) + One(md = root)

(***************************************************************************)
(* Between stores every root node has one reference for h_->root, if it is *)
(* the current one, and one for each view on it: releaseNode and the       *)
(* destructor of Ref together drop what a store took over, on the plain    *)
(* path and on the resize path, however the readers' dup and undup fall in *)
(* between.  A crash may leave references that nobody gives up, but never  *)
(* too few.                                                                *)
(***************************************************************************)
RootsSettle ==
    (\A t \in Threads : pc[t] \in {"closed", "idle"}) =>
        \A md \in Descriptors :
            /\ Refs(md) >= Owed(md)
            /\ crashes = 0 => Refs(md) = Owed(md)

(***************************************************************************)
(* The retry of store (hashtrie_impl.hh lines 72-74) is never taken under  *)
(* the mutex: nobody else can supersede the root a writer has read.        *)
(***************************************************************************)
RefSucceeds == \A t \in Threads : pc[t] = "dupRef" => call[t].ref \in DOMAIN live

-----------------------------------------------------------------------------
(* The inductive invariant, for a region that is opened with care *)

\* The region before its first root
Blank == header # {"magic", "size"} \/ \E t \in Threads : pc[t] = "allocRoot"

\* Who initialises the region is alone in it, and finds it as it was created;
\* nobody is in it before.
Initialised ==
    /\ Blank => root = None /\ DOMAIN live = {}
    /\ ~Blank => root # None
    /\ (Blank \/ \E t \in Threads : pc[t] = "newRoot") => \A b \in Blocks : node[b] = Empty
    /\ "size" \in header => "magic" \in header
    /\ \A t \in Threads :
          /\ pc[t] \in Opening => \A u \in Threads \ {t} : pc[u] = "closed"
          /\ pc[t] \notin {"closed"} \cup Opening => ~Blank
          /\ pc[t] \in {"alcInit", "magic", "size"} => "size" \notin header
          /\ pc[t] = "size" => "magic" \in header
          /\ pc[t] = "allocRoot" => "size" \in header
          /\ pc[t] = "newRoot" => ~Blank /\ call[t].to = root

Exclusive == \A t \in Threads : mutex = t <=> pc[t] \in Storing

\* Between the copy of the root and the write of h_->root the reference of
\* h_->root is in the hands of the store (from), and so is that of the copy.
At(labels) == mutex # None /\ pc[mutex] \in labels
Held(md) ==
    Cardinality(Viewers(md))
    + One(md = root /\ ~At({"copy", "dropFull", "dropFrom", "publish", "abort"}))
    + One(At({"copy", "dropFull", "dropFrom", "abort"}) /\ md = call[mutex].from)
    + One(At({"dropFull", "dropFrom", "publish"}) /\ md = call[mutex].to)
    + One(At({"copy", "dropFull", "dropFrom", "publish", "dropRef", "abort"})
              /\ md = call[mutex].ref)

Counted ==
    \A md \in Descriptors :
        /\ Refs(md) >= Held(md)
        /\ crashes = 0 => Refs(md) = Held(md)

\* What a store has read and made so far
StoreRight ==
    \A t \in Threads :
        /\ pc[t] \in {"lock"} \cup Storing => call[t].key \in Keys /\ call[t].value \in Values
        /\ pc[t] \in {"dupRef", "copy", "dropFull", "dropFrom", "publish", "abort"} =>
              call[t].ref = root
        /\ pc[t] = "dropRef" => call[t].ref # None
        /\ pc[t] \in {"copy", "dropFull", "dropFrom", "abort"} =>
              call[t].from # None /\ Map(call[t].from) = Map(root)
        /\ pc[t] \in {"dropFull", "dropFrom", "publish"} => call[t].to # None
        /\ pc[t] = "dropFull" => Map(call[t].to) = Map(root)
        /\ pc[t] \in {"dropFrom", "publish"} =>
              Map(call[t].to) = [Map(root) EXCEPT ![call[t].key] = call[t].value]

\* A root that a reader has read and that still lives is the one it read.
ViewsRight ==
    \A t \in Threads :
        /\ window[t] # {} <=> pc[t] \in Viewing
        /\ pc[t] \in Viewing => view[t] = None /\ Map(root) \in window[t]
        /\ pc[t] = "openDup" =>
              /\ call[t].ref \in DOMAIN live \cup retired
              /\ call[t].ref \in DOMAIN live => Map(call[t].ref) \in window[t]

(***************************************************************************)
(* At every moment, and not only between stores, the count of a root node  *)
(* is the number of those who hold a reference to it, be it h_->root, a    *)
(* view, the Ref of a store or the store itself.  With what holds of the   *)
(* region before it has a root, of the mutex, of what a store has made so  *)
(* far and of what a reader has read, this is what every step preserves.   *)
(***************************************************************************)
Inv == TypeOK /\ Initialised /\ Exclusive /\ Counted /\ StoreRight /\ ViewsRight

Snapshots == INSTANCE SnapshotMap WITH
    current <- IF root = None THEN Empty.map ELSE Map(root),
    view <- [t \in Threads |-> IF view[t] = None THEN None ELSE Map(view[t])]

(***************************************************************************)
(* Snapshot isolation: stores take effect at the write of h_->root, a view *)
(* shows a map that was current while it was being opened, and what it     *)
(* shows never changes until it is closed, although its block would be     *)
(* reused as soon as its count reached 0.  A restart finds the map as the  *)
(* last store that wrote h_->root left it.                                 *)
(***************************************************************************)
SnapshotSpec == Snapshots!Spec

(***************************************************************************)
(* Every store returns and every view opens: a reader's retries (dupRoot)  *)
(* end when the stores do, and a writer never waits for a reader.          *)
(***************************************************************************)
Answers == \A t \in Threads : pc[t] \notin Opening ~> pc[t] \in {"idle", "closed"}
=============================================================================
