-------------------------------- MODULE Trie --------------------------------
(***************************************************************************)
(* The hash trie below h_->root (node.hh), as blocks of the allocator: a   *)
(* root node, a tree of nodes of fixed depth, and lists of cells.  store   *)
(* copies the path to the cell it adds and shares the rest with the roots  *)
(* that came before, which readers may still look at; a trie that holds    *)
(* too many keys is first rebuilt one level deeper.                        *)
(*                                                                         *)
(* Writers are alone (see HashTrieImpl) and readers meet them in the       *)
(* counts of root nodes only, so that a store is one step.  An allocation  *)
(* may fail, and the next one succeed: allocate gives up under competition *)
(* and readers give blocks back.  Operators that stand for code that       *)
(* allocates pass a machine m along: the blocks, the value returned (md),  *)
(* and whether the asserts so far have held (ok); a machine that has       *)
(* stopped is passed on as it is.                                          *)
(***************************************************************************)
EXTENDS Integers, SequencesExt, FiniteSetsExt

CONSTANTS
    Readers,       \* the views that may be open
    Keys, Values,
    Hash,          \* key |-> hash; keys may share one
    Empty,         \* the value of size 0
    Fanout,        \* children of a node, 16 in the code
    Trigger,       \* next_resize_trigger_ of a new trie, 16 * 4 in the code
    MaxBlocks,     \* blocks of the region
    MaxStores,     \* bound on the number of stores
    MaxFailures,   \* bound on the number of allocations that fail
    NotFound       \* String::invalid()

ASSUME HashAssumption == Hash \in [Keys -> Nat]
ASSUME SizeAssumption == Fanout \in Nat \ {0, 1} /\ Trigger \in Nat \ {0}

VARIABLES
    refs,      \* block |-> its reference count; 0 if it is free
    body,      \* block |-> what was last written into it
    root,      \* h_->root
    view,      \* reader |-> root_ of its View, or 0
    stores, failures,
    last       \* the last store: its arguments, and did it come to its end?

vars == <<refs, body, root, view, stores, failures, last>>

Digits == 0 .. Fanout - 1

\* Block 0 is what descriptor 0 leads to, a chunk that nobody owns.
Blocks == 0 .. MaxBlocks

-----------------------------------------------------------------------------
(* Blocks *)

\* allocations: how many there were; refused: the number of the one that
\* fails, or 0.
Machine(n) ==
    [refs |-> refs, body |-> body, md |-> 0, ok |-> TRUE, allocations |-> 0, refused |-> n]

\* alc.allocate, and what is then written into the block.  If the descriptor
\* is tested, a process that gets 0 stops at an assert.
Alloc(m, content, tested) ==
    LET free == {b \in Blocks \ {0} : m.refs[b] = 0}
        number == m.allocations + 1
        md == IF number = m.refused \/ free = {} THEN 0 ELSE Min(free)
    IN  IF ~ m.ok THEN m
        ELSE IF md = 0 /\ tested THEN [m EXCEPT !.allocations = number, !.ok = FALSE]
        ELSE [m EXCEPT !.allocations = number, !.md = md, !.body[md] = content,
                       !.refs[md] = IF md = 0 THEN 0 ELSE 1]

New(m, content) == Alloc(m, content, TRUE)

Dup(m, md) == [m EXCEPT !.refs[md] = @ + 1]

-----------------------------------------------------------------------------
(* String, Cons, List *)

\* String::operator bool is beg_ < end_: an empty string is as false as the
\* invalid one.
Truthy(string) == string \notin {Empty, NotFound}

Cell(key, value, cdr) == [key |-> key, value |-> value, cdr |-> cdr]
cons(m, key, value, cdr) == New(m, Cell(key, value, cdr))

RECURSIVE List(_, _)
List(bodies, list) ==
    IF list = 0 THEN <<>> ELSE <<bodies[list]>> \o List(bodies, bodies[list].cdr)

ListFind(bodies, list, key) ==
    LET hits == SelectSeq(List(bodies, list), LAMBDA cell : cell.key = key)
    IN  IF hits = <<>> THEN NotFound ELSE Head(hits).value

\* The cells before the first with this key are copied.
RECURSIVE insertImpl(_, _, _, _)
insertImpl(m, list, key, value) ==
    LET c == m.body[list]
        rest == insertImpl(m, c.cdr, key, value)
    IN  IF c.key = key
        THEN cons(IF c.cdr = 0 THEN m ELSE Dup(m, c.cdr), key, value, c.cdr)
        ELSE cons(rest, c.key, c.value, rest.md)

new_key(bodies, list, key) == ~ Truthy(ListFind(bodies, list, key))

\* Slip: a key that is there gets a second cell.
InsertAlways(m, list, key, value) == cons(m, key, value, list)

Insert(m, list, key, value) ==
    IF new_key(m.body, list, key) THEN cons(m, key, value, list)
    ELSE insertImpl(m, list, key, value)

-----------------------------------------------------------------------------
(* Node *)

index(hash) == hash % Fanout
next(hash) == hash \div Fanout

\* Slip: the digits are counted from 1.
nthIndexFromOne(hash, n) == index(hash \div Fanout ^ (n - 1))

nthIndex(hash, n) == index(hash \div Fanout ^ n)

\* Slip: the node is changed in place.
setSubNodeInPlace(m, md, i) == [m EXCEPT !.body[md][i] = m.md, !.md = md]

\* sub_node is what has just been returned.  The copy is not tested:
\* descriptor 0 is written to, and returned.  The children it shares with the
\* node get no reference (line 276 is commented out).
setSubNode(m, md, i) == Alloc(m, [m.body[md] EXCEPT ![i] = m.md], FALSE)

RECURSIVE NodeStore(_, _, _, _, _, _)
NodeStore(m, md, key, value, hash, depth) ==
    LET i == index(hash)
        child == m.body[md][i]
    IN  setSubNode(IF depth = 0 THEN Insert(m, child, key, value)
                   ELSE NodeStore(m, child, key, value, next(hash), depth - 1),
                   md, i)

\* The list that a hash leads to
RECURSIVE ListOf(_, _, _, _)
ListOf(bodies, md, hash, depth) ==
    LET child == bodies[md][index(hash)]
    IN  IF depth = 0 THEN child ELSE ListOf(bodies, child, next(hash), depth - 1)

NoChildren == [i \in Digits |-> 0]
NewNode(m) == New(m, NoChildren)
SetChild(m, md, i) == IF m.ok THEN [m EXCEPT !.body[md][i] = m.md] ELSE m

\* Each cell goes to the front of its new list.
relocateEntriesImpl(m, md, list, next_depth) ==
    LET Relocate(n, cell) ==
            LET i == nthIndex(Hash[cell.key], next_depth)
            IN  SetChild(cons(n, cell.key, cell.value, n.body[md][i]), md, i)
    IN  FoldLeft(Relocate, m, List(m.body, list))

relocateEntries(m, list, next_depth) ==
    LET node == NewNode(m)
    IN  [relocateEntriesImpl(node, node.md, list, next_depth) EXCEPT !.md = node.md]

RECURSIVE NodeResize(_, _, _, _)
NodeResize(m, md, depth, next_depth) ==
    LET sub == NewNode(m)
        Fill(n, i) ==
            LET child == m.body[md][i]
            IN  SetChild(IF depth = 0 THEN relocateEntries(n, child, next_depth)
                         ELSE NodeResize(n, child, depth - 1, next_depth),
                         sub.md, i)
    IN  [FoldLeft(Fill, sub, [j \in 1 .. Fanout |-> j - 1]) EXCEPT !.md = sub.md]

\* foreach: the cells in the order they are visited; empty places are skipped.
RECURSIVE Cells(_, _, _)
Cells(bodies, md, depth) ==
    FlattenSeq([j \in 1 .. Fanout |->
        LET child == bodies[md][j - 1]
        IN  IF child = 0 THEN <<>>
            ELSE IF depth = 0 THEN List(bodies, child)
            ELSE Cells(bodies, child, depth - 1)])

-----------------------------------------------------------------------------
(* RootNode *)

RootNode(count, next_resize_trigger, depth, node) ==
    [count |-> count, next_resize_trigger |-> next_resize_trigger,
     depth |-> depth, root |-> node]

\* Slip: a root that dies takes its children along (lines 154-169, 317-326 and
\* 335 of node.hh): every reference it holds to a node below is given up.
RECURSIVE ReleaseBelow(_, _, _)
ReleaseBelow(m, md, depth) ==
    LET n == [m EXCEPT !.refs[md] = Max({@ - 1, 0})]
        Children(o, i) ==
            IF m.body[md][i] = 0 \/ depth = 0 THEN o
            ELSE ReleaseBelow(o, m.body[md][i], depth - 1)
    IN  IF n.refs[md] > 0 THEN n
        ELSE FoldLeft(Children, n, [j \in 1 .. Fanout |-> j - 1])

releaseNodeDeep(m, md) ==
    LET n == [m EXCEPT !.refs[md] = @ - 1]
    IN  IF ~ m.ok THEN m
        ELSE IF n.refs[md] > 0 THEN n
        ELSE ReleaseBelow(n, m.body[md].root, m.body[md].depth)

\* undup, and release_no_undup of the last reference
releaseNode(m, md) == IF m.ok THEN [m EXCEPT !.refs[md] = @ - 1] ELSE m

\* A root for the node that has just been returned: assert(new_node != 0)
NewRoot(m, count, next_resize_trigger, depth) ==
    IF m.md = 0 THEN [m EXCEPT !.ok = FALSE]
    ELSE New(m, RootNode(count, next_resize_trigger, depth, m.md))

resize(m, md) ==
    LET r == m.body[md]
    IN  NewRoot(NodeResize(m, r.root, r.depth, r.depth + 1),
                r.count, r.next_resize_trigger * Fanout, r.depth + 1)

\* Slip: every store counts.
StoredAlwaysNew(m, md, key, value) ==
    LET r == m.body[md]
    IN  NewRoot(NodeStore(m, r.root, key, value, Hash[key], r.depth),
                r.count + 1, r.next_resize_trigger, r.depth)

\* RootNode::store of a node that is not full
Stored(m, md, key, value) ==
    LET r == m.body[md]
        list == ListOf(m.body, r.root, Hash[key], r.depth)
    IN  NewRoot(NodeStore(m, r.root, key, value, Hash[key], r.depth),
                r.count + (IF new_key(m.body, list, key) THEN 1 ELSE 0),
                r.next_resize_trigger, r.depth)

\* RootNode::store: the old root loses the reference of h_->root.
RECURSIVE RootStore(_, _, _, _)
RootStore(m, md, key, value) ==
    LET r == m.body[md]
        bigger == resize(m, md)
    IN  IF ~ m.ok THEN m
        ELSE IF r.count >= r.next_resize_trigger
        THEN RootStore(releaseNode(bigger, md), bigger.md, key, value)
        ELSE releaseNode(Stored(m, md, key, value), md)

-----------------------------------------------------------------------------
(* HashTrieImpl: init, store, dupRoot, undupRoot *)

Init ==
    /\ refs = [b \in Blocks |-> IF b \in {1, 2} THEN 1 ELSE 0]
    /\ body = [b \in Blocks |->
          IF b = 1 THEN RootNode(0, Trigger, 0, 2) ELSE NoChildren]
    /\ root = 1
    /\ view = [r \in Readers |-> 0]
    /\ stores = 0 /\ failures = 0
    /\ last = [key |-> NotFound, value |-> NotFound, finished |-> FALSE]

\* The descriptors of nodes reached at a depth; 0 is a hole.
NodesAt(md) ==
    LET r == body[md]
        at[d \in 0 .. r.depth] ==
            IF d = r.depth THEN {r.root}
            ELSE UNION {{body[node][i] : i \in Digits} : node \in at[d + 1] \ {0}}
    IN  at

Whole(md) == \A d \in DOMAIN NodesAt(md) : 0 \notin NodesAt(md)[d]

\* A store of which the n-th allocation fails, or none (0).  The Ref is
\* released last.  If an assert has stopped the process, what it has done stays.
StoreRefused(key, value, n) ==
    LET m == releaseNode(RootStore(Dup(Machine(n), root), root, key, value), root)
    IN  /\ refs' = m.refs /\ body' = m.body
        /\ root' = IF m.ok THEN m.md ELSE root
        /\ last' = [key |-> key, value |-> value, finished |-> m.ok]
        /\ UNCHANGED view

\* A trie with a hole is not followed any further: the code would go on with
\* what lies in the chunk that nobody owns.
Store(key, value) ==
    /\ stores < MaxStores
    /\ Whole(root)
    /\ stores' = stores + 1
    /\ \/ failures' = failures /\ StoreRefused(key, value, 0)
       \/ /\ failures < MaxFailures
          /\ failures' = failures + 1
          /\ \E n \in 1 .. RootStore(Dup(Machine(0), root), root, key, value).allocations :
                StoreRefused(key, value, n)

Open(r) ==
    /\ view[r] = 0
    /\ view' = [view EXCEPT ![r] = root]
    /\ refs' = Dup(Machine(0), root).refs
    /\ UNCHANGED <<body, root, stores, failures, last>>

Close(r) ==
    /\ view[r] # 0
    /\ refs' = releaseNode(Machine(0), view[r]).refs
    /\ view' = [view EXCEPT ![r] = 0]
    /\ UNCHANGED <<body, root, stores, failures, last>>

Next ==
    \/ \E key \in Keys, value \in Values : Store(key, value)
    \/ \E r \in Readers : Open(r) \/ Close(r)

Spec == Init /\ [][Next]_vars

-----------------------------------------------------------------------------
(* Properties *)

Roots == {root} \cup ({view[r] : r \in Readers} \ {0})

Find(md, key) ==
    ListFind(body, ListOf(body, body[md].root, Hash[key], body[md].depth), key)

MapOf(md) == [key \in Keys |-> Find(md, key)]
CellsOf(md) == Cells(body, body[md].root, body[md].depth)
Contents(md) == <<MapOf(md), CellsOf(md), body[md].count>>

RECURSIVE CellsUnder(_)
CellsUnder(list) == IF list = 0 THEN {} ELSE {list} \cup CellsUnder(body[list].cdr)

(***************************************************************************)
(* Every node above the lists has all its children.  resize,               *)
(* relocateEntries and RootNode::store assert that what they build on has  *)
(* been allocated; setSubNode does not, so that a copy it could not        *)
(* allocate becomes a hole if the copy of its parent can be: foreach skips *)
(* it, and find reads the chunk that nobody owns.                          *)
(***************************************************************************)
NoHole == Whole(root)

IsBlock(md, fields) == refs[md] > 0 /\ DOMAIN body[md] = fields

(***************************************************************************)
(* No dangling descriptor: every node and cell that leads from h_->root or *)
(* from an open view is an allocated block of its kind, whatever has been  *)
(* released and used again since, though the references from nodes to      *)
(* shared nodes are not counted.                                           *)
(***************************************************************************)
TypeOK ==
    \A md \in Roots :
        /\ IsBlock(md, {"count", "next_resize_trigger", "depth", "root"})
        /\ \A node \in UNION Range(NodesAt(md)) \ {0} : IsBlock(node, Digits)
        /\ \A node \in NodesAt(md)[0] \ {0}, i \in Digits :
              \A cell \in CellsUnder(body[node][i]) : IsBlock(cell, {"key", "value", "cdr"})

(***************************************************************************)
(* The trie is a map.  It is empty at first, and a store that comes to its *)
(* end makes find return its value for its key, and for every other key    *)
(* what it returned before, through every rebuild and whichever keys share *)
(* a list or a hash.  Nothing else changes what find returns: no store     *)
(* that an assert has stopped, and no view that is opened or closed.       *)
(***************************************************************************)
MapSpec ==
    /\ \A key \in Keys : Find(root, key) = NotFound
    /\ [][Whole(root) /\ Whole(root)' =>
              MapOf(root)' = IF stores' # stores /\ last'.finished
                             THEN [MapOf(root) EXCEPT ![last'.key] = last'.value]
                             ELSE MapOf(root)]_vars

(***************************************************************************)
(* A view is a snapshot: while it is open, find, foreach and size return   *)
(* the same for it, although stores share its blocks, rebuild the trie,    *)
(* stop at an assert, release roots and use their blocks again.            *)
(***************************************************************************)
ViewsStay ==
    [][\A r \in Readers : view[r] # 0 /\ view'[r] = view[r] /\ Whole(view[r]) =>
          Contents(view[r])' = Contents(view[r])]_vars

(***************************************************************************)
(* size() is the number of cells that foreach visits; mt-bench prints it   *)
(* as "keys", and the rebuild goes by it.                                  *)
(***************************************************************************)
CountsCells == Whole(root) => body[root].count = Len(CellsOf(root))

(***************************************************************************)
(* A traversal (foreach, and so totalValueLength) meets every key once,    *)
(* with the value find returns: an overwritten cell never shows, and none  *)
(* is lost or doubled in a rebuild.                                        *)
(***************************************************************************)
VisitsOnce ==
    LET cells == CellsOf(root)
        present == {key \in Keys : Find(root, key) # NotFound}
    IN  Whole(root) =>
            /\ Len(cells) = Cardinality(present)
            /\ {<<cells[i].key, cells[i].value>> : i \in DOMAIN cells}
                   = {<<key, Find(root, key)>> : key \in present}
=============================================================================
