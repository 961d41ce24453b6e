--------------------------- MODULE HashTrieProofs ---------------------------
(***************************************************************************)
(* Proofs about HashTrieImpl, for any finite set of threads and any number *)
(* of blocks, keys and values, wherever the processes die.                 *)
(***************************************************************************)
EXTENDS HashTrieImpl, FiniteSetTheorems, TLAPS

USE NoneAssumption

-----------------------------------------------------------------------------
(* References *)

LEMMA ViewersFinite ==
    ASSUME NEW md
    PROVE  IsFiniteSet(Viewers(md)) /\ Cardinality(Viewers(md)) \in Nat
BY ThreadsAssumption, FS_Subset, FS_CardinalityType DEF Viewers

LEMMA HeldNat ==
    ASSUME NEW md
    PROVE  Held(md) \in Nat /\ Held(md) >= Cardinality(Viewers(md))
BY ViewersFinite DEF Held, One

LEMMA ViewHeld ==
    ASSUME NEW t \in Threads, NEW md, view[t] = md
    PROVE  Held(md) > 0
<1>1. t \in Viewers(md)
    BY DEF Viewers
<1>2. Cardinality(Viewers(md)) # 0
    BY <1>1, ViewersFinite, FS_EmptySet
<1> QED
    BY <1>2, HeldNat, ViewersFinite

\* A thread that has no view opens one.
LEMMA ViewOpened ==
    ASSUME TypeOK, NEW t \in Threads, NEW md \in Descriptors,
           view[t] = None, view' = [view EXCEPT ![t] = md]
    PROVE  /\ Cardinality(Viewers(md))' = Cardinality(Viewers(md)) + 1
           /\ \A other \in Descriptors \ {md} : Viewers(other)' = Viewers(other)
<1>1. Viewers(md)' = Viewers(md) \cup {t} /\ t \notin Viewers(md)
    BY DEF Viewers, TypeOK
<1>2. Cardinality(Viewers(md) \cup {t}) = Cardinality(Viewers(md)) + 1
    BY <1>1, ViewersFinite, FS_AddElement
<1>3. \A other \in Descriptors \ {md} : Viewers(other)' = Viewers(other)
    BY DEF Viewers, TypeOK
<1> QED
    BY <1>1, <1>2, <1>3

LEMMA ViewClosed ==
    ASSUME TypeOK, NEW t \in Threads, NEW md \in Descriptors,
           view[t] = md, view' = [view EXCEPT ![t] = None]
    PROVE  /\ Cardinality(Viewers(md)) \in Nat \ {0}
           /\ Cardinality(Viewers(md))' = Cardinality(Viewers(md)) - 1
           /\ \A other \in Descriptors \ {md} : Viewers(other)' = Viewers(other)
<1>1. t \in Viewers(md) /\ Viewers(md)' = Viewers(md) \ {t}
    BY DEF Viewers, TypeOK
<1>2. Cardinality(Viewers(md) \ {t}) = Cardinality(Viewers(md)) - 1
    BY <1>1, ViewersFinite, FS_RemoveElement
<1>3. Cardinality(Viewers(md)) # 0
    BY <1>1, ViewersFinite, FS_EmptySet
<1>4. \A other \in Descriptors \ {md} : Viewers(other)' = Viewers(other)
    BY DEF Viewers, TypeOK
<1> QED
    BY <1>1, <1>2, <1>3, <1>4, ViewersFinite

\* A step of a thread that does not hold the mutex
LEMMA HeldStays ==
    ASSUME TypeOK, NEW t \in Threads, mutex # t, UNCHANGED <<root, mutex, view>>,
           \A u \in Threads \ {t} : pc'[u] = pc[u] /\ call'[u] = call[u],
           NEW md
    PROVE  Held(md)' = Held(md)
<1>1. ~(mutex # None) \/ (pc'[mutex] = pc[mutex] /\ call'[mutex] = call[mutex])
    BY DEF TypeOK
<1>2. Viewers(md)' = Viewers(md)
    BY DEF Viewers
<1>3. /\ \A labels : At(labels)' <=> At(labels)
      /\ mutex # None => call'[mutex] = call[mutex]
    BY <1>1 DEF At
<1> QED
    BY <1>1, <1>2 DEF Held, At

LEMMA HeldAlive ==
    ASSUME TypeOK, Counted, NEW md \in Descriptors, Held(md) > 0
    PROVE  md \in DOMAIN live /\ live[md] >= Held(md)
BY HeldNat DEF Counted, Refs

-----------------------------------------------------------------------------
(* The allocator *)

\* What every change of counts keeps of the type invariant, and that no life
\* is forgotten
AllocatorOK ==
    /\ DOMAIN live \subseteq Descriptors /\ retired \subseteq Descriptors
    /\ \A md \in DOMAIN live : live[md] \in Nat \ {0}

Remembered == DOMAIN live \cup retired \subseteq DOMAIN live' \cup retired'

LEMMA RefsNat ==
    ASSUME TypeOK, NEW md
    PROVE  Refs(md) \in Nat /\ (md \in DOMAIN live <=> Refs(md) > 0)
BY DEF TypeOK, Refs

LEMMA AllocateCounts ==
    ASSUME TypeOK, NEW md, Alc!Allocate(md)
    PROVE  /\ md \in Descriptors /\ Refs(md) = 0 /\ Refs(md)' = 1
           /\ md \notin DOMAIN live \cup retired
           /\ DOMAIN live' = DOMAIN live \cup {md}
           /\ \A other \in Descriptors \ {md} : Refs(other)' = Refs(other)
           /\ AllocatorOK' /\ Remembered
BY DEF TypeOK, Refs, AllocatorOK, Remembered, Alc!Allocate, Alc!Put

LEMMA DupCounts ==
    ASSUME TypeOK, NEW md, Alc!Dup(md)
    PROVE  /\ md \in Descriptors /\ Refs(md)' = Refs(md) + 1
           /\ DOMAIN live' = DOMAIN live /\ UNCHANGED retired
           /\ \A other \in Descriptors \ {md} : Refs(other)' = Refs(other)
           /\ AllocatorOK' /\ Remembered
BY DEF TypeOK, Refs, AllocatorOK, Remembered, Alc!Dup

LEMMA ReleaseCounts ==
    ASSUME TypeOK, NEW md, Alc!Release(md)
    PROVE  /\ md \in Descriptors /\ Refs(md)' = Refs(md) - 1
           /\ DOMAIN live' \subseteq DOMAIN live
           /\ \A other \in Descriptors \ {md} : Refs(other)' = Refs(other)
           /\ AllocatorOK' /\ Remembered
<1>1. CASE live[md] > 1 /\ live' = [live EXCEPT ![md] = @ - 1] /\ UNCHANGED retired
    BY <1>1 DEF TypeOK, Refs, AllocatorOK, Remembered, Alc!Release
<1>2. CASE /\ live[md] = 1
           /\ live' = [other \in DOMAIN live \ {md} |-> live[other]]
           /\ retired' = retired \cup {md}
    BY <1>2 DEF TypeOK, Refs, AllocatorOK, Remembered, Alc!Release
<1> QED
    BY <1>1, <1>2 DEF Alc!Release

\* A node is written into a block that holds no living one.
LEMMA MapStays ==
    ASSUME TypeOK, NEW b \in Fresh, NEW content, node' = [node EXCEPT ![b] = content],
           NEW md \in DOMAIN live
    PROVE  Map(md)' = Map(md)
BY DEF TypeOK, Fresh, Map, Descriptors

-----------------------------------------------------------------------------
(* What the parts of the invariant say together *)

\* Once the region has a root, the root lives: h_->root holds it, or the Ref
\* of the store that is about to write h_->root.
LEMMA RootLives ==
    ASSUME Inv, ~Blank
    PROVE  root \in DOMAIN live
<1>1. PICK md \in Descriptors : md = root
    BY DEF Inv, TypeOK, Initialised
<1>2. Held(md) > 0
  <2>1. CASE At({"copy", "dropFull", "dropFrom", "publish", "abort"})
    <3>1. mutex \in Threads /\ call[mutex].ref = root
      BY <2>1 DEF At, Inv, TypeOK, StoreRight
    <3> QED
      BY <1>1, <2>1, <3>1, ViewersFinite DEF Held, One, At
  <2>2. CASE ~At({"copy", "dropFull", "dropFrom", "publish", "abort"})
    BY <1>1, <2>2, ViewersFinite DEF Held, One
  <2> QED
    BY <2>1, <2>2
<1> QED
    BY <1>1, <1>2, HeldAlive DEF Inv

\* So does every root node that somebody looks at.
LEMMA ViewLives ==
    ASSUME Inv, NEW t \in Threads, view[t] # None
    PROVE  view[t] \in DOMAIN live
<1>1. PICK md \in Descriptors : md = view[t]
    BY DEF Inv, TypeOK
<1>2. Held(md) > 0
    BY <1>1, ViewHeld
<1> QED
    BY <1>1, <1>2, HeldAlive DEF Inv

\* Nobody is in the region while it is initialised.
LEMMA Alone ==
    ASSUME Inv, NEW t \in Threads, pc[t] \in Opening
    PROVE  /\ mutex = None
           /\ \A u \in Threads : window[u] = {} /\ pc[u] \notin Storing \cup Viewing
BY DEF Inv, TypeOK, Initialised, Exclusive, ViewsRight, Opening, Storing, Viewing

-----------------------------------------------------------------------------
(* Opening the region *)

LEMMA InitInv == Init => Inv
<1> SUFFICES ASSUME Init PROVE Inv
    OBVIOUS
<1>1. TypeOK
    BY DEF Init, TypeOK, Empty, Maps, Labels, Calls, NoCall
<1>2. Blank /\ Initialised
    BY DEF Init, Initialised, Blank, Opening
<1>3. Exclusive
    BY DEF Init, Exclusive, Storing
<1>4. Counted
  <2>1. \A md \in Descriptors : Viewers(md) = {}
    BY DEF Init, Viewers
  <2> QED
    <3>1. \A md \in Descriptors : Held(md) = 0
      <4>1. \A md \in Descriptors : Cardinality(Viewers(md)) = 0
        BY <2>1, FS_EmptySet
      <4>2. mutex = None /\ root = None /\ \A md \in Descriptors : md # root
        BY DEF Init, Descriptors
      <4>3. \A labels : ~ At(labels)
        BY <4>2 DEF At
      <4> QED
        BY <4>1, <4>2, <4>3 DEF Held, One
    <3>2. \A md \in Descriptors : Refs(md) = 0
      BY DEF Init, Refs
    <3> QED
      BY <3>1, <3>2 DEF Counted
<1>5. StoreRight /\ ViewsRight
    BY DEF Init, StoreRight, ViewsRight, Storing, Viewing
<1> QED
    BY <1>1, <1>2, <1>3, <1>4, <1>5 DEF Inv

LEMMA OpenInv ==
    ASSUME Careful, Inv, NEW t \in Threads, Open(t)
    PROVE  Inv'
<1>1. TypeOK'
    BY DEF Inv, TypeOK, Open, Goto, Labels, Opening, allocator, rest
<1>2. Initialised'
  <2>1. /\ \A u \in Threads : pc[u] \notin Opening
        /\ \A u \in Threads \ {t} : pc'[u] = pc[u]
        /\ UNCHANGED <<root, header, live, node, call>>
    BY DEF Inv, TypeOK, Open, Goto, allocator, rest
  <2>2. CASE header = {"magic", "size"}
    <3>1. pc'[t] = "idle" /\ ~Blank /\ ~Blank'
      BY <2>1, <2>2 DEF Inv, TypeOK, Open, Goto, Blank, Opening
    <3> QED
      BY <2>1, <3>1 DEF Inv, Initialised, Opening
  <2>3. CASE header # {"magic", "size"}
    <3>1. pc'[t] = "alcInit" /\ Blank /\ Blank' /\ "size" \notin header
      <4>1. pc'[t] = "alcInit"
        BY <2>3 DEF Inv, TypeOK, Open, Goto
      <4>2. Blank /\ Blank'
        BY <2>1, <2>3 DEF Blank
      <4>3. "size" \notin header
        BY <2>3 DEF Inv, TypeOK, Initialised
      <4> QED
        BY <4>1, <4>2, <4>3
    <3>2. \A u \in Threads \ {t} : pc[u] = "closed"
      BY <2>1, <3>1 DEF Inv, Initialised
    <3> QED
      BY <2>1, <3>1, <3>2 DEF Inv, Initialised, Opening
  <2> QED
    BY <2>2, <2>3
<1>3. Exclusive'
    BY DEF Inv, TypeOK, Exclusive, Open, Goto, Storing
<1>4. Counted'
  <2>1. mutex # t
    BY DEF Inv, Exclusive, Open, Storing
  <2>2. \A md : Held(md)' = Held(md)
    BY <2>1, HeldStays DEF Inv, TypeOK, Open, Goto
  <2> QED
    BY <2>2 DEF Inv, Counted, Refs, Open, allocator, rest
<1>5. StoreRight'
    BY DEF Inv, TypeOK, StoreRight, Open, Goto, Map, Storing, allocator
<1>6. ViewsRight'
    BY DEF Inv, TypeOK, ViewsRight, Open, Goto, Map, Viewing, allocator
<1> QED
    BY <1>1, <1>2, <1>3, <1>4, <1>5, <1>6 DEF Inv

\* Nothing lives yet, so that nothing is lost.
LEMMA AlcInitInv ==
    ASSUME Inv, NEW t \in Threads, AlcInit(t)
    PROVE  Inv'
<1>1. Blank /\ DOMAIN live = {} /\ UNCHANGED retired /\ DOMAIN live' = {}
    BY DEF Inv, Initialised, Blank, AlcInit
<1>2. TypeOK'
    BY <1>1 DEF Inv, TypeOK, AlcInit, Goto, Labels, Opening, rest
<1>3. Initialised'
    BY <1>1 DEF Inv, TypeOK, Initialised, Blank, AlcInit, Goto, Opening, rest
<1>4. Exclusive'
    BY DEF Inv, TypeOK, Exclusive, AlcInit, Goto, Storing
<1>5. Counted'
  <2>1. mutex # t
    BY DEF Inv, Exclusive, AlcInit, Storing
  <2>2. \A md : Held(md)' = Held(md)
    BY <2>1, HeldStays DEF Inv, TypeOK, AlcInit, Goto
  <2> QED
    BY <1>1, <2>2 DEF Inv, Counted, Refs, AlcInit, rest
<1>6. StoreRight'
    BY DEF Inv, TypeOK, StoreRight, AlcInit, Goto, Map, Storing
<1>7. ViewsRight'
    BY <1>1 DEF Inv, TypeOK, ViewsRight, AlcInit, Goto, Map, Viewing
<1> QED
    BY <1>2, <1>3, <1>4, <1>5, <1>6, <1>7 DEF Inv

LEMMA WriteHeaderInv ==
    ASSUME Inv, NEW t \in Threads,
           WriteHeader(t, "magic", "size") \/ WriteHeader(t, "size", "allocRoot")
    PROVE  Inv'
<1>1. TypeOK'
    BY DEF Inv, TypeOK, WriteHeader, Goto, Labels, Opening, allocator
<1>2. Initialised'
    BY DEF Inv, TypeOK, Initialised, Blank, WriteHeader, Goto, Opening, allocator
<1>3. Exclusive'
    BY DEF Inv, TypeOK, Exclusive, WriteHeader, Goto, Storing
<1>4. Counted'
  <2>1. mutex # t
    BY DEF Inv, Exclusive, WriteHeader, Storing
  <2>2. \A md : Held(md)' = Held(md)
    BY <2>1, HeldStays DEF Inv, TypeOK, WriteHeader, Goto
  <2> QED
    BY <2>2 DEF Inv, Counted, Refs, WriteHeader, allocator
<1>5. StoreRight'
    BY DEF Inv, TypeOK, StoreRight, WriteHeader, Goto, Map, Storing, allocator
<1>6. ViewsRight'
    BY DEF Inv, TypeOK, ViewsRight, WriteHeader, Goto, Map, Viewing, allocator
<1> QED
    BY <1>1, <1>2, <1>3, <1>4, <1>5, <1>6 DEF Inv

\* The first root: everything is free, so that there is a block.
LEMMA AllocRootInv ==
    ASSUME Blocks # {}, Inv, NEW t \in Threads, AllocRoot(t)
    PROVE  Inv'
<1>1. /\ Blank /\ root = None /\ DOMAIN live = {} /\ mutex = None
      /\ \A b \in Blocks : node[b] = Empty
      /\ \A u \in Threads \ {t} : pc[u] = "closed"
    BY Alone DEF Inv, Initialised, Blank, AllocRoot, Opening
<1>2. Fresh # {}
    BY <1>1 DEF Fresh
<1>3. PICK md : /\ Alc!Allocate(md) /\ root' = md
                /\ call' = [call EXCEPT ![t].to = md]
                /\ pc' = [pc EXCEPT ![t] = "newRoot"]
                /\ UNCHANGED <<header, node, mutex, view, window, stores, crashes>>
    BY <1>2 DEF AllocRoot, Goto, rest
<1>4. /\ md \in Descriptors /\ Refs(md) = 0 /\ Refs(md)' = 1 /\ md # None
      /\ \A other \in Descriptors \ {md} : Refs(other)' = Refs(other)
      /\ AllocatorOK' /\ Remembered
    BY <1>3, AllocateCounts DEF Inv
<1>5. TypeOK'
  <2>1. call' \in [Threads -> Calls]
    <3>1. [call[t] EXCEPT !.to = md] \in Calls
      BY <1>4 DEF Inv, TypeOK, Calls
    <3> QED
      BY <1>3, <3>1 DEF Inv, TypeOK
  <2> QED
    BY <1>3, <1>4, <2>1 DEF Inv, TypeOK, AllocatorOK, Labels, Opening
<1>6. Initialised'
  <2>1. ~Blank' /\ pc'[t] = "newRoot" /\ \A u \in Threads \ {t} : pc'[u] = "closed"
    BY <1>1, <1>3 DEF Inv, TypeOK, Initialised, Blank, AllocRoot
  <2> QED
    BY <1>1, <1>3, <1>4, <2>1 DEF Inv, TypeOK, Initialised, Opening
<1>7. Exclusive'
    BY <1>3 DEF Inv, TypeOK, Exclusive, AllocRoot, Storing
<1>8. Counted'
  <2>1. ASSUME NEW other \in Descriptors
        PROVE  Held(other)' = Held(other) + (IF other = md THEN 1 ELSE 0)
    <3>1. Viewers(other)' = Viewers(other)
      BY <1>3 DEF Viewers
    <3> QED
      BY <1>1, <1>3, <3>1, ViewersFinite DEF Held, At, One
  <2>2. \A other \in Descriptors : Held(other) \in Nat /\ Refs(other) \in Nat
    BY HeldNat, RefsNat DEF Inv
  <2> QED
    BY <1>3, <1>4, <2>1, <2>2 DEF Inv, Counted
<1>9. StoreRight'
    BY <1>1, <1>3 DEF Inv, TypeOK, StoreRight, AllocRoot, Storing
<1>10. ViewsRight'
    BY <1>1, <1>3 DEF Inv, TypeOK, ViewsRight, AllocRoot, Viewing
<1> QED
    BY <1>5, <1>6, <1>7, <1>8, <1>9, <1>10 DEF Inv

LEMMA NewRootInv ==
    ASSUME Inv, NEW t \in Threads, NewRoot(t)
    PROVE  Inv'
<1>1. /\ ~Blank /\ mutex = None /\ root \in Descriptors /\ call[t].to = root
      /\ \A b \in Blocks : node[b] = Empty
      /\ \A u \in Threads \ {t} : pc[u] = "closed"
      /\ \A u \in Threads : window[u] = {}
    BY Alone DEF Inv, TypeOK, Initialised, NewRoot, Opening
<1>2. node' = node
    BY <1>1 DEF Inv, TypeOK, NewRoot, Descriptors
<1>3. TypeOK'
    BY <1>2 DEF Inv, TypeOK, NewRoot, Goto, Labels, Calls, NoCall, rest
<1>4. Initialised'
    BY <1>1, <1>2 DEF Inv, TypeOK, Initialised, Blank, NewRoot, Goto, Opening, rest
<1>5. Exclusive'
    BY DEF Inv, TypeOK, Exclusive, NewRoot, Goto, Storing
<1>6. Counted'
  <2>1. mutex # t
    BY <1>1
  <2>2. \A md : Held(md)' = Held(md)
    BY <2>1, HeldStays DEF Inv, TypeOK, NewRoot, Goto
  <2> QED
    BY <2>2 DEF Inv, Counted, Refs, NewRoot, rest
<1>7. StoreRight' /\ ViewsRight'
    BY <1>1, <1>2 DEF Inv, TypeOK, StoreRight, ViewsRight, NewRoot, Goto, Storing, Viewing
<1> QED
    BY <1>3, <1>4, <1>5, <1>6, <1>7 DEF Inv

\* What a dead process held is held by nobody, but counted for ever.
LEMMA CrashInv ==
    ASSUME Careful, Inv, Crash
    PROVE  Inv'
<1>1. TypeOK'
    BY DEF Inv, TypeOK, Crash, Labels, Calls, NoCall, allocator
<1>2. Blank' <=> Blank
    BY DEF Crash, Blank, Opening
<1>3. Initialised'
    BY <1>2 DEF Inv, Initialised, Crash, Opening, allocator
<1>4. Exclusive' /\ StoreRight' /\ ViewsRight'
    BY DEF Inv, TypeOK, Exclusive, StoreRight, ViewsRight, Crash, Storing, Viewing
<1>5. Counted'
  <2>1. ASSUME NEW md \in Descriptors
        PROVE  Held(md)' = IF md = root THEN 1 ELSE 0
    <3>1. Viewers(md)' = {}
      BY DEF Crash, Viewers
    <3>2. Held(md)' = 0 + One(md = root)
      BY <3>1, FS_EmptySet DEF Held, At, One, Crash
    <3> QED
      BY <3>2 DEF One
  <2>2. root # None => root \in DOMAIN live
    BY RootLives DEF Inv, Initialised
  <2>3. crashes' # 0
    BY DEF Inv, TypeOK, Crash
  <2>4. \A md \in Descriptors :
           /\ Refs(md)' = Refs(md) /\ Refs(md) \in Nat
           /\ md \in DOMAIN live => Refs(md) > 0
    BY RefsNat DEF Inv, Crash, allocator, Refs
  <2>5. \A md \in Descriptors : Refs(md)' >= Held(md)'
    BY <2>1, <2>2, <2>4
  <2> QED
    BY <2>3, <2>5 DEF Counted
<1> QED
    BY <1>1, <1>3, <1>4, <1>5 DEF Inv

-----------------------------------------------------------------------------
(* A store *)

\* Nobody initialises the region while somebody is in it.
LEMMA InitialisedStays ==
    ASSUME Inv, NEW t \in Threads, pc[t] \notin {"closed"} \cup Opening,
           pc'[t] \notin {"closed"} \cup Opening, root' # None, UNCHANGED header,
           \A u \in Threads \ {t} : pc'[u] = pc[u]
    PROVE  Initialised'
<1>1. ~Blank /\ \A u \in Threads : pc[u] \notin Opening
    BY DEF Inv, Initialised
<1>2. \A u \in Threads : pc'[u] \notin Opening
    BY <1>1
<1>3. ~Blank'
    BY <1>1, <1>2 DEF Blank, Opening
<1> QED
    BY <1>1, <1>2, <1>3 DEF Inv, Initialised, Opening

LEMMA CallStoreInv ==
    ASSUME Inv, NEW t \in Threads, NEW k \in Keys, NEW v \in Values, CallStore(t, k, v)
    PROVE  Inv'
<1>1. /\ pc[t] = "idle" /\ pc' = [pc EXCEPT ![t] = "lock"]
      /\ call' = [call EXCEPT ![t] = [NoCall EXCEPT !.op = "store", !.key = k, !.value = v]]
      /\ stores' = stores + 1
      /\ UNCHANGED <<root, header, live, retired, node, mutex, view, window, crashes>>
    BY DEF CallStore, Goto, allocator
<1>2. TypeOK'
  <2>1. [NoCall EXCEPT !.op = "store", !.key = k, !.value = v] \in Calls
    BY DEF NoCall, Calls
  <2>2. call' \in [Threads -> Calls]
    BY <1>1, <2>1 DEF Inv, TypeOK
  <2> QED
    BY <1>1, <2>2 DEF Inv, TypeOK, Labels
<1>3. Initialised'
    BY <1>1, InitialisedStays DEF Inv, TypeOK, Initialised, Opening
<1>4. Exclusive'
    BY <1>1 DEF Inv, TypeOK, Exclusive, Storing
<1>5. Counted'
  <2>1. mutex # t
    BY <1>1 DEF Inv, Exclusive, Storing
  <2>2. \A md : Held(md)' = Held(md)
    BY <1>1, <2>1, HeldStays DEF Inv, TypeOK
  <2> QED
    BY <1>1, <2>2 DEF Inv, Counted, Refs
<1>6. StoreRight'
    BY <1>1 DEF Inv, TypeOK, StoreRight, NoCall, Map, Storing
<1>7. ViewsRight'
    BY <1>1 DEF Inv, TypeOK, ViewsRight, Map, Viewing
<1> QED
    BY <1>2, <1>3, <1>4, <1>5, <1>6, <1>7 DEF Inv

LEMMA LockInv ==
    ASSUME Inv, NEW t \in Threads, Lock(t)
    PROVE  Inv'
<1>1. /\ pc[t] = "lock" /\ pc' = [pc EXCEPT ![t] = "readRoot"] /\ mutex = None /\ mutex' = t
      /\ UNCHANGED <<root, header, live, retired, node, call, view, window, stores, crashes>>
    BY DEF Lock, Goto, allocator, rest
<1>2. TypeOK'
    BY <1>1 DEF Inv, TypeOK, Labels, Storing
<1>3. Initialised'
    BY <1>1, InitialisedStays DEF Inv, TypeOK, Initialised, Opening
<1>4. Exclusive'
    BY <1>1 DEF Inv, TypeOK, Exclusive, Storing
<1>5. Counted'
  <2>1. \A md : Viewers(md)' = Viewers(md)
    BY <1>1 DEF Viewers
  <2>2. \A md : Held(md)' = Held(md)
    BY <1>1, <2>1 DEF Inv, TypeOK, Held, At
  <2> QED
    BY <1>1, <2>2 DEF Inv, Counted, Refs
<1>6. StoreRight'
    BY <1>1 DEF Inv, TypeOK, StoreRight, Map, Storing
<1>7. ViewsRight'
    BY <1>1 DEF Inv, TypeOK, ViewsRight, Map, Viewing
<1> QED
    BY <1>2, <1>3, <1>4, <1>5, <1>6, <1>7 DEF Inv

LEMMA ReadRootInv ==
    ASSUME Inv, NEW t \in Threads, ReadRoot(t)
    PROVE  Inv'
<1>1. /\ pc[t] = "readRoot" /\ pc' = [pc EXCEPT ![t] = "dupRef"] /\ mutex = t
      /\ call' = [call EXCEPT ![t].ref = root]
      /\ UNCHANGED <<root, header, live, retired, node, mutex, view, window, stores, crashes>>
    BY DEF Inv, Exclusive, Storing, ReadRoot, Goto, allocator, rest
<1>2. TypeOK'
  <2>1. [call[t] EXCEPT !.ref = root] \in Calls
    BY DEF Inv, TypeOK, Calls
  <2>2. call' \in [Threads -> Calls]
    BY <1>1, <2>1 DEF Inv, TypeOK
  <2> QED
    BY <1>1, <2>2 DEF Inv, TypeOK, Labels, Storing
<1>3. Initialised'
    BY <1>1, InitialisedStays DEF Inv, TypeOK, Initialised, Opening
<1>4. Exclusive'
    BY <1>1 DEF Inv, TypeOK, Exclusive, Storing
<1>5. Counted'
  <2>1. \A md : Viewers(md)' = Viewers(md)
    BY <1>1 DEF Viewers
  <2>2. \A md : Held(md)' = Held(md)
    BY <1>1, <2>1 DEF Inv, TypeOK, Held, At
  <2> QED
    BY <1>1, <2>2 DEF Inv, Counted, Refs
<1>6. StoreRight'
  <2>1. /\ pc'[t] = "dupRef" /\ call'[t].ref = root
        /\ call'[t].key = call[t].key /\ call'[t].value = call[t].value
        /\ \A u \in Threads \ {t} : pc'[u] = pc[u] /\ call'[u] = call[u]
    BY <1>1 DEF Inv, TypeOK, Calls
  <2> QED
    BY <1>1, <2>1 DEF Inv, Exclusive, StoreRight, Map, Storing
<1>7. ViewsRight'
    BY <1>1 DEF Inv, TypeOK, ViewsRight, Map, Viewing
<1> QED
    BY <1>2, <1>3, <1>4, <1>5, <1>6, <1>7 DEF Inv

\* The root that a store has read lives, and the retry is never taken.
LEMMA DupRefInv ==
    ASSUME Inv, NEW t \in Threads, DupRef(t)
    PROVE  Inv'
<1>1. /\ pc[t] = "dupRef" /\ mutex = t /\ call[t].ref = root /\ root \in DOMAIN live
      /\ call[t] \in Calls
    BY RootLives DEF Inv, TypeOK, Initialised, Exclusive, StoreRight, DupRef, Storing, Opening
<1>2. PICK md : /\ md = root /\ Alc!Dup(md) /\ pc' = [pc EXCEPT ![t] = "copy"]
                /\ call' = [call EXCEPT ![t].from = md]
                /\ UNCHANGED <<root, header, node, mutex, view, window, stores, crashes>>
    BY <1>1 DEF DupRef, Goto, rest
<1>3. /\ md \in Descriptors /\ Refs(md)' = Refs(md) + 1 /\ DOMAIN live' = DOMAIN live
      /\ \A other \in Descriptors \ {md} : Refs(other)' = Refs(other)
      /\ UNCHANGED retired /\ AllocatorOK'
    BY <1>2, DupCounts DEF Inv
<1>4. /\ pc'[t] = "copy" /\ call'[t].from = md /\ call'[t].ref = md
      /\ \A u \in Threads \ {t} : pc'[u] = pc[u] /\ call'[u] = call[u]
      /\ call'[t].key = call[t].key /\ call'[t].value = call[t].value
    BY <1>1, <1>2 DEF Inv, TypeOK, Calls
<1>5. TypeOK'
  <2>1. call' \in [Threads -> Calls]
    <3>1. [call[t] EXCEPT !.from = md] \in Calls
      BY <1>1, <1>3 DEF Calls
    <3> QED
      BY <1>2, <3>1 DEF Inv, TypeOK
  <2> QED
    BY <1>2, <1>3, <2>1 DEF Inv, TypeOK, AllocatorOK, Labels, Storing
<1>6. Initialised'
    BY <1>1, <1>2, <1>3, <1>4, InitialisedStays DEF Opening
<1>7. Exclusive'
    BY <1>1, <1>2, <1>4 DEF Inv, Exclusive, Storing
<1>8. Counted'
  <2>1. ASSUME NEW other \in Descriptors
        PROVE  Held(other)' = Held(other) + (IF other = md THEN 1 ELSE 0)
    <3>1. Viewers(other)' = Viewers(other)
      BY <1>2 DEF Viewers
    <3> QED
      BY <1>1, <1>2, <1>4, <3>1, ViewersFinite DEF Held, At, One
  <2>2. \A other \in Descriptors : Held(other) \in Nat /\ Refs(other) \in Nat
    BY HeldNat, RefsNat DEF Inv
  <2> QED
    BY <1>2, <1>3, <2>1, <2>2 DEF Inv, Counted
<1>9. StoreRight'
    BY <1>1, <1>2, <1>3, <1>4 DEF Inv, Exclusive, StoreRight, Map, Storing
<1>10. ViewsRight'
    BY <1>1, <1>2, <1>3, <1>4 DEF Inv, TypeOK, ViewsRight, Map, Viewing
<1> QED
    BY <1>5, <1>6, <1>7, <1>8, <1>9, <1>10 DEF Inv

\* A store in the copy of a root: its arguments, the root, and the node that
\* it copies, which lives because the store holds it.
LEMMA CopyFacts ==
    ASSUME Inv, NEW t \in Threads, pc[t] = "copy"
    PROVE  /\ mutex = t /\ call[t].ref = root /\ call[t] \in Calls
           /\ call[t].from \in DOMAIN live /\ call[t].from \in Descriptors
           /\ Map(call[t].from) = Map(root)
           /\ call[t].key \in Keys /\ call[t].value \in Values
           /\ root \in DOMAIN live /\ root # None
<1>1. /\ mutex = t /\ call[t].ref = root /\ call[t] \in Calls
      /\ call[t].from \in Descriptors /\ Map(call[t].from) = Map(root)
      /\ call[t].key \in Keys /\ call[t].value \in Values
      /\ root \in DOMAIN live /\ root # None
  <2>1. mutex = t /\ call[t] \in Calls
    BY DEF Inv, TypeOK, Exclusive, Storing
  <2>2. /\ call[t].ref = root /\ Map(call[t].from) = Map(root) /\ call[t].from # None
        /\ call[t].key \in Keys /\ call[t].value \in Values
    BY DEF Inv, StoreRight, Storing
  <2>3. ~ Blank /\ root # None
    BY DEF Inv, Initialised, Opening
  <2> QED
    BY <2>1, <2>2, <2>3, RootLives DEF Calls
<1>2. PICK md \in Descriptors : md = call[t].from
    BY <1>1
<1>3. Held(md) > 0
    BY <1>1, <1>2, ViewersFinite DEF Held, At, One
<1> QED
    BY <1>1, <1>2, <1>3, HeldAlive DEF Inv

\* The copy is made, of the same map after a rebuild and of the next one
\* after a store.
LEMMA CopiedInv ==
    ASSUME Inv, NEW t \in Threads, pc[t] = "copy",
           NEW label \in {"dropFull", "dropFrom"},
           NEW content \in [map : Maps, depth : Nat],
           content.map = IF label = "dropFull" THEN Map(root)
                         ELSE [Map(root) EXCEPT ![call[t].key] = call[t].value],
           NEW b \in Fresh, NEW md, md.index = b,
           Alc!Allocate(md), node' = [node EXCEPT ![b] = content],
           call' = [call EXCEPT ![t].to = md], pc' = [pc EXCEPT ![t] = label],
           UNCHANGED <<root, mutex, view, window, header, stores, crashes>>
    PROVE  Inv'
<1>1. /\ mutex = t /\ call[t].ref = root /\ call[t] \in Calls
      /\ call[t].from \in DOMAIN live /\ call[t].from \in Descriptors
      /\ Map(call[t].from) = Map(root)
      /\ call[t].key \in Keys /\ call[t].value \in Values
      /\ root \in DOMAIN live /\ root # None
    BY CopyFacts
<1>2. /\ md \in Descriptors /\ Refs(md) = 0 /\ Refs(md)' = 1 /\ md \notin DOMAIN live \cup retired
      /\ DOMAIN live' = DOMAIN live \cup {md}
      /\ \A other \in Descriptors \ {md} : Refs(other)' = Refs(other)
      /\ AllocatorOK' /\ Remembered
    BY AllocateCounts DEF Inv
<1>3. /\ pc'[t] = label /\ call'[t].from = call[t].from /\ call'[t].ref = call[t].ref
      /\ call'[t].to = md /\ call'[t].key = call[t].key /\ call'[t].value = call[t].value
      /\ \A u \in Threads \ {t} : pc'[u] = pc[u] /\ call'[u] = call[u]
    BY <1>1 DEF Inv, TypeOK, Calls
<1>4. /\ Map(md)' = content.map
      /\ \A other \in DOMAIN live : Map(other)' = Map(other)
    BY <1>2, MapStays DEF Inv, TypeOK, Map, Descriptors
<1>5. TypeOK'
  <2>1. call' \in [Threads -> Calls]
    <3>1. [call[t] EXCEPT !.to = md] \in Calls
      BY <1>1, <1>2 DEF Calls
    <3> QED
      BY <3>1 DEF Inv, TypeOK
  <2>2. node' \in [Blocks -> [map : Maps, depth : Nat]]
    BY DEF Inv, TypeOK
  <2> QED
    BY <1>1, <1>2, <2>1, <2>2 DEF Inv, TypeOK, AllocatorOK, Labels, Storing
<1>6. Initialised'
    BY <1>1, <1>3, InitialisedStays DEF Inv, Initialised, Opening
<1>7. Exclusive'
    BY <1>1, <1>3 DEF Inv, Exclusive, Storing
<1>8. Counted'
  <2>1. ASSUME NEW other \in Descriptors
        PROVE  Held(other)' = Held(other) + (IF other = md THEN 1 ELSE 0)
    <3>1. Viewers(other)' = Viewers(other)
      BY <1>1 DEF Viewers
    <3> QED
      BY <1>1, <1>3, <3>1, ViewersFinite DEF Held, At, One
  <2>2. \A other \in Descriptors : Held(other) \in Nat /\ Refs(other) \in Nat
    BY HeldNat, RefsNat DEF Inv
  <2> QED
    BY <1>1, <1>2, <2>1, <2>2 DEF Inv, Counted
<1>9. StoreRight'
  <2>1. \A u \in Threads \ {t} : pc'[u] \notin Storing
    BY <1>1, <1>3 DEF Inv, Exclusive
  <2>2. call'[t].ref = root' /\ Map(root)' = Map(root) /\ Map(call[t].from)' = Map(root)
    BY <1>1, <1>3, <1>4
  <2>3. ASSUME NEW u \in Threads \ {t}
        PROVE  pc'[u] = "lock" => call'[u].key \in Keys /\ call'[u].value \in Values
    BY <1>3 DEF Inv, StoreRight
  <2> QED
    BY <1>1, <1>2, <1>3, <1>4, <2>1, <2>2, <2>3 DEF StoreRight, Storing
<1>10. ViewsRight'
  <2>1. ASSUME NEW u \in Threads, pc[u] = "openDup"
        PROVE  /\ call'[u].ref \in DOMAIN live' \cup retired'
               /\ call'[u].ref \in DOMAIN live' => Map(call[u].ref)' \in window[u]
    BY <1>1, <1>2, <1>3, <1>4, <2>1 DEF Inv, ViewsRight, Remembered
  <2> QED
    BY <1>1, <1>3, <1>4, <2>1 DEF Inv, ViewsRight, Viewing
<1> QED
    BY <1>5, <1>6, <1>7, <1>8, <1>9, <1>10 DEF Inv

\* Or there is no block for it, and the store stops with what it holds.
LEMMA CopyAbortsInv ==
    ASSUME Inv, NEW t \in Threads, pc[t] = "copy", pc' = [pc EXCEPT ![t] = "abort"],
           UNCHANGED <<root, mutex, view, window, header, stores, crashes, live, retired,
                       node, call>>
    PROVE  Inv'
<1>1. /\ mutex = t /\ pc'[t] = "abort" /\ root # None
      /\ \A u \in Threads \ {t} : pc'[u] = pc[u]
    BY CopyFacts DEF Inv, TypeOK
<1>2. TypeOK'
    BY DEF Inv, TypeOK, Labels, Storing
<1>3. Initialised'
    BY <1>1, InitialisedStays DEF Opening
<1>4. Exclusive'
    BY <1>1 DEF Inv, Exclusive, Storing
<1>5. Counted'
  <2>1. \A md : Viewers(md)' = Viewers(md)
    BY DEF Viewers
  <2>2. \A md : Held(md)' = Held(md)
    BY <1>1, <2>1 DEF Held, At
  <2> QED
    BY <2>2 DEF Inv, Counted, Refs
<1>6. StoreRight' /\ ViewsRight'
    BY <1>1 DEF Inv, StoreRight, ViewsRight, Map, Storing, Viewing
<1> QED
    BY <1>2, <1>3, <1>4, <1>5, <1>6 DEF Inv

LEMMA CopyInv ==
    ASSUME Inv, NEW t \in Threads, Copy(t)
    PROVE  Inv'
<1> DEFINE from == call[t].from
           Deeper == [node[from.index] EXCEPT !.depth = @ + 1]
           Stored == [node[from.index] EXCEPT !.map[call[t].key] = call[t].value]
<1>1. /\ Deeper \in [map : Maps, depth : Nat] /\ Deeper.map = Map(root)
      /\ Stored \in [map : Maps, depth : Nat]
      /\ Stored.map = [Map(root) EXCEPT ![call[t].key] = call[t].value]
  <2>1. node[from.index] \in [map : Maps, depth : Nat] /\ node[from.index].map = Map(root)
    BY CopyFacts DEF Inv, TypeOK, Map, Descriptors, Copy
  <2>2. call[t].key \in Keys /\ call[t].value \in Values
    BY CopyFacts DEF Copy
  <2> QED
    BY <2>1, <2>2 DEF Maps
<1>2. /\ pc[t] = "copy"
      /\ New(t, Deeper, "dropFull") \/ New(t, Stored, "dropFrom")
      /\ UNCHANGED <<root, mutex, view, window, header, stores, crashes>>
    BY DEF Copy, rest
<1>3. ASSUME NEW b \in Blocks PROVE Descriptor(b).index = b
    BY DEF Descriptor
<1>4. CASE New(t, Deeper, "dropFull")
  <2>1. CASE \E b \in Fresh : /\ Alc!Allocate(Descriptor(b))
                               /\ node' = [node EXCEPT ![b] = Deeper]
                               /\ call' = [call EXCEPT ![t].to = Descriptor(b)]
                               /\ pc' = [pc EXCEPT ![t] = "dropFull"]
    <3>1. PICK b \in Fresh : /\ Alc!Allocate(Descriptor(b))
                             /\ node' = [node EXCEPT ![b] = Deeper]
                             /\ call' = [call EXCEPT ![t].to = Descriptor(b)]
                             /\ pc' = [pc EXCEPT ![t] = "dropFull"]
      BY <2>1
    <3>2. Descriptor(b).index = b
      BY <1>3 DEF Fresh
    <3> HIDE DEF Deeper, Stored
    <3> QED
      BY <1>1, <1>2, <3>1, <3>2, CopiedInv
  <2>2. CASE pc' = [pc EXCEPT ![t] = "abort"] /\ UNCHANGED <<allocator, call>>
    BY <1>2, <2>2, CopyAbortsInv DEF allocator
  <2> QED
    BY <1>4, <2>1, <2>2 DEF New, Goto
<1>5. CASE New(t, Stored, "dropFrom")
  <2>1. CASE \E b \in Fresh : /\ Alc!Allocate(Descriptor(b))
                               /\ node' = [node EXCEPT ![b] = Stored]
                               /\ call' = [call EXCEPT ![t].to = Descriptor(b)]
                               /\ pc' = [pc EXCEPT ![t] = "dropFrom"]
    <3>1. PICK b \in Fresh : /\ Alc!Allocate(Descriptor(b))
                             /\ node' = [node EXCEPT ![b] = Stored]
                             /\ call' = [call EXCEPT ![t].to = Descriptor(b)]
                             /\ pc' = [pc EXCEPT ![t] = "dropFrom"]
      BY <2>1
    <3>2. Descriptor(b).index = b
      BY <1>3 DEF Fresh
    <3> HIDE DEF Deeper, Stored
    <3> QED
      BY <1>1, <1>2, <3>1, <3>2, CopiedInv
  <2>2. CASE pc' = [pc EXCEPT ![t] = "abort"] /\ UNCHANGED <<allocator, call>>
    BY <1>2, <2>2, CopyAbortsInv DEF allocator
  <2> QED
    BY <1>5, <2>1, <2>2 DEF New, Goto
<1> QED
    BY <1>2, <1>4, <1>5

\* Whoever drops a reference that it holds meets a living block.
LEMMA HeldDrop ==
    ASSUME Inv, NEW t \in Threads, NEW md \in Descriptors, NEW label,
           Held(md) > 0, Drop(t, md, label)
    PROVE  Alc!Release(md) /\ pc' = [pc EXCEPT ![t] = label]
BY HeldAlive DEF Inv, Drop, Goto

\* Drops of a store: from, in the copy or at its end, and at last ref.  The
\* step leaves the others alone, and releases one of the references held.
LEMMA StoreDropInv ==
    ASSUME Inv, NEW t \in Threads, mutex = t, NEW md \in Descriptors, Alc!Release(md),
           pc[t] \in Storing, pc'[t] \in Storing,
           \A u \in Threads \ {t} : pc'[u] = pc[u] /\ call'[u] = call[u],
           pc' \in [Threads -> Labels], call' \in [Threads -> Calls],
           call'[t].ref = call[t].ref,
           UNCHANGED <<root, header, node, mutex, view, window, stores, crashes>>,
           \A other \in Descriptors :
              Held(other)' = Held(other) - (IF other = md THEN 1 ELSE 0),
           StoreRight'
    PROVE  Inv'
<1>1. /\ Refs(md)' = Refs(md) - 1 /\ DOMAIN live' \subseteq DOMAIN live
      /\ \A other \in Descriptors \ {md} : Refs(other)' = Refs(other)
      /\ AllocatorOK' /\ Remembered
    BY ReleaseCounts DEF Inv
<1>2. TypeOK'
    BY <1>1 DEF Inv, TypeOK, AllocatorOK
<1>3. Initialised'
  <2>1. root # None
    BY DEF Inv, Initialised, Storing, Opening
  <2> QED
    BY <2>1, InitialisedStays DEF Opening, Storing
<1>4. Exclusive'
    BY DEF Inv, Exclusive
<1>5. Counted'
  <2>1. \A other \in Descriptors : Held(other) \in Nat /\ Refs(other) \in Nat
    BY HeldNat, RefsNat DEF Inv
  <2> QED
    BY <1>1, <2>1 DEF Inv, Counted
<1>6. ViewsRight'
  <2>1. ASSUME NEW u \in Threads
        PROVE  /\ pc'[u] \in Viewing <=> pc[u] \in Viewing
               /\ pc'[u] = "openDup" => pc[u] = "openDup" /\ call'[u].ref = call[u].ref
    BY DEF Storing, Viewing
  <2>2. ASSUME NEW u \in Threads, pc[u] = "openDup"
        PROVE  /\ call'[u].ref \in DOMAIN live' \cup retired'
               /\ call'[u].ref \in DOMAIN live' => Map(call[u].ref)' \in window[u]
    BY <1>1, <2>1, <2>2 DEF Inv, ViewsRight, Remembered, Map, Storing
  <2> QED
    BY <2>1, <2>2 DEF Inv, ViewsRight, Map
<1> QED
    BY <1>2, <1>3, <1>4, <1>5, <1>6 DEF Inv

\* What a store that is about to drop from holds
LEMMA DropFacts ==
    ASSUME Inv, NEW t \in Threads, pc[t] \in {"dropFull", "dropFrom"}
    PROVE  /\ mutex = t /\ call[t] \in Calls /\ call[t].ref = root
           /\ call[t].from \in Descriptors /\ call[t].to \in Descriptors
           /\ \A md \in Descriptors : md = call[t].from => Held(md) > 0
<1>1. /\ mutex = t /\ call[t] \in Calls /\ call[t].ref = root
      /\ call[t].from \in Descriptors /\ call[t].to \in Descriptors
    BY DEF Inv, TypeOK, Exclusive, StoreRight, Storing, Calls
<1>2. ASSUME NEW md \in Descriptors, md = call[t].from
      PROVE  Held(md) > 0
    BY <1>1, <1>2, ViewersFinite DEF Held, At, One
<1> QED
    BY <1>1, <1>2

LEMMA DropFullInv ==
    ASSUME Inv, NEW t \in Threads, DropFull(t)
    PROVE  Inv'
<1>1. pc[t] = "dropFull"
    BY DEF DropFull
<1>2. /\ mutex = t /\ call[t] \in Calls /\ call[t].ref = root
      /\ call[t].from \in Descriptors /\ call[t].to \in Descriptors
    BY <1>1, DropFacts
<1>3. PICK md \in Descriptors :
         /\ md = call[t].from /\ Alc!Release(md) /\ pc' = [pc EXCEPT ![t] = "copy"]
         /\ call' = [call EXCEPT ![t].from = call[t].to]
         /\ UNCHANGED <<root, header, node, mutex, view, window, stores, crashes>>
    BY <1>1, <1>2, DropFacts, HeldDrop DEF DropFull, rest
<1>4. /\ pc'[t] = "copy" /\ call'[t].from = call[t].to /\ call'[t].ref = call[t].ref
      /\ call'[t].key = call[t].key /\ call'[t].value = call[t].value
      /\ \A u \in Threads \ {t} : pc'[u] = pc[u] /\ call'[u] = call[u]
      /\ pc' \in [Threads -> Labels]
    BY <1>2, <1>3 DEF Inv, TypeOK, Calls, Labels, Storing
<1>5. call' \in [Threads -> Calls]
  <2>1. [call[t] EXCEPT !.from = call[t].to] \in Calls
    BY <1>2 DEF Calls
  <2> QED
    BY <1>3, <2>1 DEF Inv, TypeOK
<1>6. ASSUME NEW other \in Descriptors
      PROVE  Held(other)' = Held(other) - (IF other = md THEN 1 ELSE 0)
  <2>1. Viewers(other)' = Viewers(other)
    BY <1>3 DEF Viewers
  <2> QED
    BY <1>1, <1>2, <1>3, <1>4, <2>1, ViewersFinite DEF Held, At, One
<1>7. StoreRight'
    BY <1>1, <1>2, <1>3, <1>4 DEF Inv, Exclusive, StoreRight, Map, Storing
<1> QED
    BY <1>1, <1>2, <1>3, <1>4, <1>5, <1>6, <1>7, StoreDropInv DEF Storing

LEMMA DropFromInv ==
    ASSUME Inv, NEW t \in Threads, DropFrom(t)
    PROVE  Inv'
<1>1. pc[t] = "dropFrom"
    BY DEF DropFrom
<1>2. /\ mutex = t /\ call[t].ref = root /\ call[t].from \in Descriptors
    BY <1>1, DropFacts
<1>3. PICK md \in Descriptors :
         /\ md = call[t].from /\ Alc!Release(md) /\ pc' = [pc EXCEPT ![t] = "publish"]
         /\ UNCHANGED <<root, header, node, mutex, call, view, window, stores, crashes>>
    BY <1>1, <1>2, DropFacts, HeldDrop DEF DropFrom, rest
<1>4. /\ pc'[t] = "publish" /\ pc' \in [Threads -> Labels]
      /\ \A u \in Threads \ {t} : pc'[u] = pc[u]
    BY <1>3 DEF Inv, TypeOK, Labels, Storing
<1>5. ASSUME NEW other \in Descriptors
      PROVE  Held(other)' = Held(other) - (IF other = md THEN 1 ELSE 0)
  <2>1. Viewers(other)' = Viewers(other)
    BY <1>3 DEF Viewers
  <2> QED
    BY <1>1, <1>2, <1>3, <1>4, <2>1, ViewersFinite DEF Held, At, One
<1>6. StoreRight'
    BY <1>1, <1>2, <1>3, <1>4 DEF Inv, Exclusive, StoreRight, Map, Storing
<1>7. call' \in [Threads -> Calls]
    BY <1>3 DEF Inv, TypeOK
<1> QED
    BY <1>1, <1>2, <1>3, <1>4, <1>5, <1>6, <1>7, StoreDropInv DEF Storing

LEMMA DropRefInv ==
    ASSUME Inv, NEW t \in Threads, DropRef(t)
    PROVE  Inv'
<1>1. pc[t] = "dropRef"
    BY DEF DropRef
<1>2. mutex = t /\ call[t].ref \in Descriptors
    BY <1>1 DEF Inv, TypeOK, Exclusive, StoreRight, Storing, Calls
<1>3. \A md \in Descriptors : md = call[t].ref => Held(md) > 0
  <2>1. ASSUME NEW md \in Descriptors, md = call[t].ref
        PROVE  Held(md) > 0
    BY <1>1, <1>2, <2>1, ViewersFinite DEF Held, At, One
  <2> QED
    BY <2>1
<1>4. PICK md \in Descriptors :
         /\ md = call[t].ref /\ Alc!Release(md) /\ pc' = [pc EXCEPT ![t] = "unlock"]
         /\ UNCHANGED <<root, header, node, mutex, call, view, window, stores, crashes>>
    BY <1>2, <1>3, HeldDrop DEF DropRef, rest
<1>5. /\ pc'[t] = "unlock" /\ pc' \in [Threads -> Labels]
      /\ \A u \in Threads \ {t} : pc'[u] = pc[u]
    BY <1>4 DEF Inv, TypeOK, Labels, Storing
<1>6. ASSUME NEW other \in Descriptors
      PROVE  Held(other)' = Held(other) - (IF other = md THEN 1 ELSE 0)
  <2>1. Viewers(other)' = Viewers(other)
    BY <1>4 DEF Viewers
  <2> QED
    BY <1>1, <1>2, <1>4, <1>5, <2>1, ViewersFinite DEF Held, At, One
<1>7. StoreRight'
    BY <1>1, <1>2, <1>4, <1>5 DEF Inv, Exclusive, StoreRight, Map, Storing
<1>8. call' \in [Threads -> Calls]
    BY <1>4 DEF Inv, TypeOK
<1> QED
    BY <1>1, <1>2, <1>4, <1>5, <1>6, <1>7, <1>8, StoreDropInv DEF Storing

\* The write of h_->root: the reference that the store held of the copy is
\* from now on that of h_->root.
LEMMA PublishInv ==
    ASSUME Inv, NEW t \in Threads, Publish(t)
    PROVE  Inv'
<1>1. /\ pc[t] = "publish" /\ mutex = t /\ call[t].ref = root /\ root \in Descriptors
      /\ call[t].to \in Descriptors /\ pc' = [pc EXCEPT ![t] = "dropRef"]
      /\ root' = call[t].to
      /\ UNCHANGED <<header, live, retired, node, mutex, call, view, stores, crashes>>
  <2>1. /\ pc[t] = "publish" /\ pc' = [pc EXCEPT ![t] = "dropRef"] /\ root' = call[t].to
        /\ UNCHANGED <<header, live, retired, node, mutex, call, view, stores, crashes>>
    BY DEF Publish, Goto, allocator, rest
  <2>2. mutex = t /\ call[t].ref = root /\ call[t].to # None /\ root # None
    BY <2>1 DEF Inv, Initialised, Exclusive, StoreRight, Storing, Opening
  <2>3. call[t].to \in Descriptors \cup {None} /\ root \in Descriptors \cup {None}
    BY DEF Inv, TypeOK, Calls
  <2> QED
    BY <2>1, <2>2, <2>3
<1>2. \A u \in Threads :
         window'[u] = IF window[u] = {} THEN {} ELSE window[u] \cup {Map(root)'}
    BY <1>1 DEF Publish, Map
<1>3. pc'[t] = "dropRef" /\ \A u \in Threads \ {t} : pc'[u] = pc[u]
    BY <1>1 DEF Inv, TypeOK
<1>4. TypeOK'
  <2>1. Map(call[t].to) \in Maps
    BY <1>1 DEF Inv, TypeOK, Map, Descriptors
  <2>2. window' \in [Threads -> SUBSET Maps]
    BY <2>1 DEF Inv, TypeOK, Publish
  <2> QED
    BY <1>1, <2>2 DEF Inv, TypeOK, Labels, Storing
<1>5. Initialised'
    BY <1>1, <1>3, InitialisedStays DEF Opening
<1>6. Exclusive'
    BY <1>1, <1>3 DEF Inv, Exclusive, Storing
<1>7. Counted'
  <2>1. \A md : Viewers(md)' = Viewers(md)
    BY <1>1 DEF Viewers
  <2>2. ASSUME NEW md \in Descriptors
        PROVE  Held(md)' = Held(md)
    BY <1>1, <1>3, <2>1, ViewersFinite DEF Held, At, One
  <2> QED
    BY <1>1, <2>2 DEF Inv, Counted, Refs
<1>8. StoreRight'
    BY <1>1, <1>3 DEF Inv, Exclusive, StoreRight, Storing
<1>9. ViewsRight'
    BY <1>1, <1>2, <1>3 DEF Inv, ViewsRight, Map, Viewing
<1> QED
    BY <1>4, <1>5, <1>6, <1>7, <1>8, <1>9 DEF Inv

LEMMA UnlockInv ==
    ASSUME Inv, NEW t \in Threads, Unlock(t)
    PROVE  Inv'
<1>1. /\ pc[t] = "unlock" /\ pc' = [pc EXCEPT ![t] = "idle"] /\ mutex = t /\ mutex' = None
      /\ call' = [call EXCEPT ![t] = NoCall] /\ root # None
      /\ UNCHANGED <<root, header, live, retired, node, view, window, stores, crashes>>
    BY DEF Inv, Initialised, Exclusive, Storing, Opening, Unlock, Goto, allocator, rest
<1>2. /\ pc'[t] = "idle"
      /\ \A u \in Threads \ {t} : pc'[u] = pc[u] /\ call'[u] = call[u]
    BY <1>1 DEF Inv, TypeOK
<1>3. TypeOK'
  <2>1. call' \in [Threads -> Calls]
    BY <1>1 DEF Inv, TypeOK, NoCall, Calls
  <2> QED
    BY <1>1, <2>1 DEF Inv, TypeOK, Labels
<1>4. Initialised'
    BY <1>1, <1>2, InitialisedStays DEF Opening
<1>5. Exclusive'
    BY <1>1, <1>2 DEF Inv, Exclusive, Storing
<1>6. Counted'
  <2>1. \A md : Viewers(md)' = Viewers(md)
    BY <1>1 DEF Viewers
  <2>2. ASSUME NEW md \in Descriptors
        PROVE  Held(md)' = Held(md)
    BY <1>1, <2>1, ViewersFinite DEF Held, At, One
  <2> QED
    BY <1>1, <2>2 DEF Inv, Counted, Refs
<1>7. StoreRight'
    BY <1>1, <1>2 DEF Inv, StoreRight, Map, Storing
<1>8. ViewsRight'
    BY <1>1, <1>2 DEF Inv, ViewsRight, Map, Viewing
<1> QED
    BY <1>3, <1>4, <1>5, <1>6, <1>7, <1>8 DEF Inv

-----------------------------------------------------------------------------
(* A view *)

LEMMA CallOpenInv ==
    ASSUME Inv, NEW t \in Threads, CallOpen(t)
    PROVE  Inv'
<1>1. /\ pc[t] = "idle" /\ pc' = [pc EXCEPT ![t] = "openRead"] /\ view[t] = None
      /\ window' = [window EXCEPT ![t] = {Map(root)}] /\ root \in Descriptors
      /\ UNCHANGED <<root, header, live, retired, node, mutex, call, view, stores, crashes>>
    BY DEF Inv, TypeOK, Initialised, Opening, CallOpen, Goto, allocator, rest
<1>2. /\ pc'[t] = "openRead" /\ window'[t] = {Map(root)}
      /\ \A u \in Threads \ {t} : pc'[u] = pc[u] /\ window'[u] = window[u]
    BY <1>1 DEF Inv, TypeOK
<1>3. TypeOK'
  <2>1. Map(root) \in Maps
    BY <1>1 DEF Inv, TypeOK, Map, Descriptors
  <2> QED
    BY <1>1, <2>1 DEF Inv, TypeOK, Labels, Viewing
<1>4. Initialised'
    BY <1>1, <1>2, InitialisedStays DEF Opening
<1>5. Exclusive'
    BY <1>1, <1>2 DEF Inv, Exclusive, Storing
<1>6. Counted'
  <2>1. mutex # t
    BY <1>1 DEF Inv, Exclusive, Storing
  <2>2. \A md : Held(md)' = Held(md)
    BY <1>1, <1>2, <2>1, HeldStays DEF Inv
  <2> QED
    BY <1>1, <2>2 DEF Inv, Counted, Refs
<1>7. StoreRight'
    BY <1>1, <1>2 DEF Inv, StoreRight, Map, Storing
<1>8. ViewsRight'
    BY <1>1, <1>2 DEF Inv, ViewsRight, Map, Viewing
<1> QED
    BY <1>3, <1>4, <1>5, <1>6, <1>7, <1>8 DEF Inv

LEMMA OpenReadInv ==
    ASSUME Inv, NEW t \in Threads, OpenRead(t)
    PROVE  Inv'
<1>1. /\ pc[t] = "openRead" /\ pc' = [pc EXCEPT ![t] = "openDup"]
      /\ call' = [call EXCEPT ![t].ref = root] /\ ~Blank /\ root # None
      /\ UNCHANGED <<root, header, live, retired, node, mutex, view, window, stores, crashes>>
    BY DEF Inv, Initialised, Opening, OpenRead, Goto, allocator, rest
<1>2. /\ pc'[t] = "openDup" /\ call'[t].ref = root
      /\ \A u \in Threads \ {t} : pc'[u] = pc[u] /\ call'[u] = call[u]
    BY <1>1 DEF Inv, TypeOK, Calls
<1>3. TypeOK'
  <2>1. [call[t] EXCEPT !.ref = root] \in Calls
    BY DEF Inv, TypeOK, Calls
  <2>2. call' \in [Threads -> Calls]
    BY <1>1, <2>1 DEF Inv, TypeOK
  <2> QED
    BY <1>1, <2>2 DEF Inv, TypeOK, Labels, Viewing
<1>4. Initialised'
    BY <1>1, <1>2, InitialisedStays DEF Opening
<1>5. Exclusive'
    BY <1>1, <1>2 DEF Inv, Exclusive, Storing
<1>6. Counted'
  <2>1. mutex # t
    BY <1>1 DEF Inv, Exclusive, Storing
  <2>2. \A md : Held(md)' = Held(md)
    BY <1>1, <1>2, <2>1, HeldStays DEF Inv
  <2> QED
    BY <1>1, <2>2 DEF Inv, Counted, Refs
<1>7. StoreRight'
    BY <1>1, <1>2 DEF Inv, StoreRight, Map, Storing
<1>8. ViewsRight'
    BY <1>1, <1>2, RootLives DEF Inv, ViewsRight, Map, Viewing
<1> QED
    BY <1>3, <1>4, <1>5, <1>6, <1>7, <1>8 DEF Inv

LEMMA OpenDupInv ==
    ASSUME Inv, NEW t \in Threads, OpenDup(t)
    PROVE  Inv'
<1>1. /\ pc[t] = "openDup" /\ view[t] = None /\ mutex # t /\ root # None
      /\ UNCHANGED <<root, node, mutex, header, stores, crashes>>
    BY DEF Inv, Initialised, Exclusive, ViewsRight, OpenDup, Opening, Viewing, Storing, rest
<1>2. CASE call[t].ref \in DOMAIN live
  <2>1. PICK md : /\ md = call[t].ref /\ Alc!Dup(md)
                  /\ view' = [view EXCEPT ![t] = md]
                  /\ window' = [window EXCEPT ![t] = {}]
                  /\ call' = [call EXCEPT ![t] = NoCall]
                  /\ pc' = [pc EXCEPT ![t] = "idle"]
    BY <1>2 DEF OpenDup, Goto
  <2>2. /\ md \in Descriptors /\ Refs(md)' = Refs(md) + 1 /\ DOMAIN live' = DOMAIN live
        /\ \A other \in Descriptors \ {md} : Refs(other)' = Refs(other)
        /\ UNCHANGED retired /\ AllocatorOK'
    BY <2>1, DupCounts DEF Inv
  <2>3. /\ pc'[t] = "idle" /\ window'[t] = {}
        /\ \A u \in Threads \ {t} : /\ pc'[u] = pc[u] /\ call'[u] = call[u]
                                     /\ view'[u] = view[u] /\ window'[u] = window[u]
    BY <2>1 DEF Inv, TypeOK
  <2>4. TypeOK'
    <3>1. call' \in [Threads -> Calls]
      BY <2>1 DEF Inv, TypeOK, NoCall, Calls
    <3> QED
      BY <1>1, <2>1, <2>2, <3>1 DEF Inv, TypeOK, AllocatorOK, Labels
  <2>5. Initialised'
    BY <1>1, <2>3, InitialisedStays DEF Opening
  <2>6. Exclusive'
    BY <1>1, <2>3 DEF Inv, Exclusive, Storing
  <2>7. Counted'
    <3>1. /\ Cardinality(Viewers(md))' = Cardinality(Viewers(md)) + 1
          /\ \A other \in Descriptors \ {md} : Viewers(other)' = Viewers(other)
      BY <1>1, <2>1, <2>2, ViewOpened DEF Inv
    <3>2. ASSUME NEW other \in Descriptors
          PROVE  Held(other)' = Held(other) + (IF other = md THEN 1 ELSE 0)
      <4>1. mutex # None => pc'[mutex] = pc[mutex] /\ call'[mutex] = call[mutex]
        BY <1>1, <2>3 DEF Inv, TypeOK
      <4>2. Cardinality(Viewers(other))' =
                Cardinality(Viewers(other)) + (IF other = md THEN 1 ELSE 0)
        BY <3>1, ViewersFinite
      <4> QED
        BY <1>1, <4>1, <4>2, ViewersFinite DEF Held, At, One
    <3>3. \A other \in Descriptors : Held(other) \in Nat /\ Refs(other) \in Nat
      BY HeldNat, RefsNat DEF Inv
    <3> QED
      BY <1>1, <2>2, <3>2, <3>3 DEF Inv, Counted
  <2>8. StoreRight' /\ ViewsRight'
    BY <1>1, <2>2, <2>3 DEF Inv, StoreRight, ViewsRight, Map, Storing, Viewing
  <2> QED
    BY <2>4, <2>5, <2>6, <2>7, <2>8 DEF Inv
\* The root that was read has died: it is read again.
<1>3. CASE call[t].ref \notin DOMAIN live
  <2>1. /\ pc' = [pc EXCEPT ![t] = "openRead"]
        /\ UNCHANGED <<live, retired, call, view, window>>
    BY <1>3 DEF OpenDup, Goto
  <2>2. /\ pc'[t] = "openRead"
        /\ \A u \in Threads \ {t} : pc'[u] = pc[u] /\ call'[u] = call[u]
    BY <2>1 DEF Inv, TypeOK
  <2>3. TypeOK'
    BY <1>1, <2>1 DEF Inv, TypeOK, Labels, Viewing
  <2>4. Initialised'
    BY <1>1, <2>2, InitialisedStays DEF Opening
  <2>5. Exclusive'
    BY <1>1, <2>2 DEF Inv, Exclusive, Storing
  <2>6. Counted'
    <3>1. \A md : Held(md)' = Held(md)
      BY <1>1, <2>1, <2>2, HeldStays DEF Inv
    <3> QED
      BY <1>1, <2>1, <3>1 DEF Inv, Counted, Refs
  <2>7. StoreRight' /\ ViewsRight'
    BY <1>1, <2>1, <2>2 DEF Inv, StoreRight, ViewsRight, Map, Storing, Viewing
  <2> QED
    BY <2>3, <2>4, <2>5, <2>6, <2>7 DEF Inv
<1> QED
    BY <1>2, <1>3

\* A view gives up its reference, to be closed or to be opened again.
LEMMA ViewDropInv ==
    ASSUME Inv, NEW t \in Threads, pc[t] = "idle", view[t] # None,
           NEW label \in {"idle", "openRead"}, Drop(t, view[t], label),
           view' = [view EXCEPT ![t] = None],
           window' = IF label = "idle" THEN window ELSE [window EXCEPT ![t] = {Map(root)}],
           UNCHANGED <<root, header, node, mutex, call, stores, crashes>>
    PROVE  Inv'
<1>1. PICK md \in Descriptors :
         /\ md = view[t] /\ Alc!Release(md) /\ pc' = [pc EXCEPT ![t] = label]
  <2>1. PICK md \in Descriptors : md = view[t]
    BY DEF Inv, TypeOK
  <2>2. Held(md) > 0
    BY <2>1, ViewHeld
  <2> QED
    BY <2>1, <2>2, HeldDrop
<1>2. /\ Refs(md)' = Refs(md) - 1 /\ DOMAIN live' \subseteq DOMAIN live
      /\ \A other \in Descriptors \ {md} : Refs(other)' = Refs(other)
      /\ AllocatorOK' /\ Remembered
    BY <1>1, ReleaseCounts DEF Inv
<1>3. /\ pc'[t] = label /\ window[t] = {} /\ view'[t] = None /\ mutex # t
      /\ window'[t] = IF label = "idle" THEN {} ELSE {Map(root)}
      /\ \A u \in Threads \ {t} : /\ pc'[u] = pc[u]
                                   /\ view'[u] = view[u] /\ window'[u] = window[u]
    BY <1>1 DEF Inv, TypeOK, Exclusive, ViewsRight, Viewing, Storing
<1>4. root \in Descriptors
    BY DEF Inv, TypeOK, Initialised, Opening
<1>5. TypeOK'
  <2>1. Map(root) \in Maps
    BY <1>4 DEF Inv, TypeOK, Map, Descriptors
  <2> QED
    BY <1>1, <1>2, <2>1 DEF Inv, TypeOK, AllocatorOK, Labels, Viewing
<1>6. Initialised'
    BY <1>3, <1>4, InitialisedStays DEF Opening
<1>7. Exclusive'
    BY <1>3 DEF Inv, Exclusive, Storing
<1>8. Counted'
  <2>1. /\ Cardinality(Viewers(md))' = Cardinality(Viewers(md)) - 1
        /\ \A other \in Descriptors \ {md} : Viewers(other)' = Viewers(other)
    BY <1>1, ViewClosed DEF Inv
  <2>2. ASSUME NEW other \in Descriptors
        PROVE  Held(other)' = Held(other) - (IF other = md THEN 1 ELSE 0)
    <3>1. mutex # None => pc'[mutex] = pc[mutex] /\ call'[mutex] = call[mutex]
      BY <1>3 DEF Inv, TypeOK
    <3>2. /\ Cardinality(Viewers(other)) \in Nat
          /\ Cardinality(Viewers(other))' =
                 Cardinality(Viewers(other)) - (IF other = md THEN 1 ELSE 0)
      BY <2>1, ViewersFinite
    <3> QED
      BY <3>1, <3>2 DEF Held, At, One
  <2>3. \A other \in Descriptors : Held(other) \in Nat /\ Refs(other) \in Nat
    BY HeldNat, RefsNat DEF Inv
  <2> QED
    BY <1>2, <2>2, <2>3 DEF Inv, Counted
<1>9. StoreRight'
    BY <1>3 DEF Inv, StoreRight, Map, Storing
<1>10. ViewsRight'
  <2>1. ASSUME NEW u \in Threads, pc'[u] = "openDup"
        PROVE  /\ call'[u].ref \in DOMAIN live' \cup retired'
               /\ call'[u].ref \in DOMAIN live' => Map(call[u].ref)' \in window'[u]
    BY <1>2, <1>3, <2>1 DEF Inv, ViewsRight, Remembered, Map
  <2>2. Map(root)' = Map(root)
    BY DEF Map
  <2>3. ASSUME NEW u \in Threads
        PROVE  /\ window'[u] # {} <=> pc'[u] \in Viewing
               /\ pc'[u] \in Viewing => view'[u] = None /\ Map(root)' \in window'[u]
    <3>1. CASE u = t
      BY <1>3, <2>2, <3>1 DEF Viewing
    <3>2. CASE u # t
      BY <1>3, <2>2, <3>2 DEF Inv, ViewsRight
    <3> QED
      BY <3>1, <3>2
  <2>4. UNCHANGED call
    OBVIOUS
  <2> QED
    BY <2>1, <2>3, <2>4 DEF ViewsRight
<1> QED
    BY <1>5, <1>6, <1>7, <1>8, <1>9, <1>10 DEF Inv

LEMMA CloseInv ==
    ASSUME Inv, NEW t \in Threads, Close(t)
    PROVE  Inv'
BY ViewDropInv DEF Close, rest

LEMMA UpdateInv ==
    ASSUME Inv, NEW t \in Threads, Update(t)
    PROVE  Inv'
BY ViewDropInv DEF Update, rest

-----------------------------------------------------------------------------
(* The theorems *)

(***************************************************************************)
(* The invariant holds in every state of a region that is opened with care *)
(* and has room for one root, whatever is stored and viewed and whenever   *)
(* the processes die.                                                      *)
(***************************************************************************)
THEOREM Safety ==
    ASSUME Careful, Blocks # {}
    PROVE  Spec => []Inv
<1>1. ASSUME Inv, [Next]_vars
      PROVE  Inv'
  <2>1. CASE Crash
    BY <1>1, <2>1, CrashInv
  <2>2. ASSUME NEW t \in Threads, OpenRegion(t)
        PROVE  Inv'
    BY <1>1, <2>2, OpenInv, AlcInitInv, WriteHeaderInv, AllocRootInv, NewRootInv
    DEF OpenRegion
  <2>3. ASSUME NEW t \in Threads, NEW k \in Keys, NEW v \in Values, CallStore(t, k, v)
        PROVE  Inv'
    BY <1>1, <2>3, CallStoreInv
  <2>4. ASSUME NEW t \in Threads, StoreStep(t)
        PROVE  Inv'
    BY <1>1, <2>4, LockInv, ReadRootInv, DupRefInv, CopyInv, DropFullInv, DropFromInv,
       PublishInv, DropRefInv, UnlockInv DEF StoreStep
  <2>5. ASSUME NEW t \in Threads, CallOpen(t) \/ Close(t) \/ Update(t) \/ ViewStep(t)
        PROVE  Inv'
    BY <1>1, <2>5, CallOpenInv, CloseInv, UpdateInv, OpenReadInv, OpenDupInv DEF ViewStep
  <2>6. CASE UNCHANGED vars
    BY <1>1, <2>6 DEF vars, Inv, TypeOK, Initialised, Blank, Exclusive, Counted, Held, At,
       Viewers, Refs, StoreRight, ViewsRight, Map
  <2> QED
    BY <1>1, <2>1, <2>2, <2>3, <2>4, <2>5, <2>6 DEF Next
<1> QED
    BY <1>1, InitInv, PTL DEF Spec

(***************************************************************************)
(* Types, among them that counts of living roots are positive.             *)
(***************************************************************************)
THEOREM TypeCorrect ==
    ASSUME Careful, Blocks # {}
    PROVE  Spec => []TypeOK
BY Safety, PTL DEF Inv

(***************************************************************************)
(* Once init() is done, h_->root always leads to a living root node, also  *)
(* in the middle of a store and after a crash in the middle of a store.    *)
(***************************************************************************)
THEOREM RootNeverDangles ==
    ASSUME Careful, Blocks # {}
    PROVE  Spec => []RootAlive
<1>1. Inv => RootAlive
    BY RootLives DEF Inv, Initialised, RootAlive, Opening
<1> QED
    BY <1>1, Safety, PTL

(***************************************************************************)
(* Between stores, the count of a root is one for h_->root and one for     *)
(* each view, and never less after a crash.                                *)
(***************************************************************************)
THEOREM CountsSettle ==
    ASSUME Careful, Blocks # {}
    PROVE  Spec => []RootsSettle
<1>1. ASSUME Inv, \A t \in Threads : pc[t] \in {"closed", "idle"}, NEW md \in Descriptors
      PROVE  Held(md) = Owed(md)
  <2>1. mutex = None
    BY <1>1 DEF Inv, TypeOK, Exclusive, Storing
  <2> QED
    BY <2>1, ViewersFinite DEF Held, Owed, At, One
<1>2. Inv => RootsSettle
    BY <1>1 DEF Inv, Counted, RootsSettle
<1> QED
    BY <1>2, Safety, PTL

(***************************************************************************)
(* The root that a store has read is still alive when it takes a reference *)
(* to it: the retry of HashTrieImpl::store is never taken.                 *)
(***************************************************************************)
THEOREM RetryNeverTaken ==
    ASSUME Careful, Blocks # {}
    PROVE  Spec => []RefSucceeds
<1>1. Inv => RefSucceeds
    BY RootLives DEF Inv, Initialised, StoreRight, RefSucceeds, Opening
<1> QED
    BY <1>1, Safety, PTL

-----------------------------------------------------------------------------
(* No abort *)

\* What a step is about to drop lives.
LEMMA DropsLive ==
    ASSUME Inv, NEW t \in Threads
    PROVE  /\ pc[t] \in {"dropFull", "dropFrom"} => call[t].from \in DOMAIN live
           /\ pc[t] = "dropRef" => call[t].ref \in DOMAIN live
           /\ view[t] # None => view[t] \in DOMAIN live
<1>1. ASSUME pc[t] \in {"dropFull", "dropFrom"}
      PROVE  call[t].from \in DOMAIN live
    BY <1>1, DropFacts, HeldAlive DEF Inv
<1>2. ASSUME pc[t] = "dropRef"
      PROVE  call[t].ref \in DOMAIN live
  <2>1. mutex = t /\ t # None
    BY <1>2 DEF Inv, Exclusive, Storing
  <2>2. PICK md \in Descriptors : md = call[t].ref
    BY <1>2 DEF Inv, TypeOK, StoreRight, Calls
  <2>3. Held(md) > 0
    BY <1>2, <2>1, <2>2, ViewersFinite DEF Held, At, One
  <2> QED
    BY <2>2, <2>3, HeldAlive DEF Inv
<1> QED
    BY <1>1, <1>2, ViewLives

\* A store that copies finds a block.
HasRoom == \A t \in Threads : pc[t] = "copy" => Fresh # {}

LEMMA NoAbortStep ==
    ASSUME Inv, HasRoom, NoAbort, [Next]_vars
    PROVE  NoAbort'
<1>1. CASE Crash
    BY <1>1 DEF NoAbort, Crash
<1>2. ASSUME NEW t \in Threads, pc' \in [Threads -> Labels],
             pc'[t] # "abort", \A u \in Threads \ {t} : pc'[u] = pc[u]
      PROVE  NoAbort'
    BY <1>2 DEF NoAbort
<1>3. ASSUME NEW t \in Threads, NEW label \in Labels \ {"abort"}, pc' = [pc EXCEPT ![t] = label]
      PROVE  NoAbort'
    BY <1>3 DEF NoAbort, Inv, TypeOK
<1>4. ASSUME NEW t \in Threads, OpenRegion(t)
      PROVE  NoAbort'
    BY <1>3, <1>4 DEF OpenRegion, Open, AlcInit, WriteHeader, AllocRoot, NewRoot, Goto,
       Labels, Opening, Storing
<1>5. ASSUME NEW t \in Threads, NEW k \in Keys, NEW v \in Values, CallStore(t, k, v)
      PROVE  NoAbort'
    BY <1>3, <1>5 DEF CallStore, Goto, Labels, Storing
<1>6. ASSUME NEW t \in Threads, Copy(t)
      PROVE  NoAbort'
    BY <1>3, <1>6 DEF HasRoom, Copy, New, Goto, Labels, Storing
<1>7. ASSUME NEW t \in Threads, DropFull(t) \/ DropFrom(t) \/ DropRef(t) \/ Close(t) \/ Update(t)
      PROVE  NoAbort'
    BY <1>3, <1>7, DropsLive DEF DropFull, DropFrom, DropRef, Close, Update, Drop, Goto,
       Labels, Storing, Viewing
<1>8. ASSUME NEW t \in Threads,
             Lock(t) \/ ReadRoot(t) \/ DupRef(t) \/ Publish(t) \/ Unlock(t)
             \/ CallOpen(t) \/ ViewStep(t)
      PROVE  NoAbort'
    BY <1>3, <1>8 DEF Lock, ReadRoot, DupRef, Publish, Unlock, CallOpen, ViewStep, OpenRead,
       OpenDup, Goto, Labels, Storing, Viewing
<1>9. CASE UNCHANGED vars
    BY <1>9 DEF vars, NoAbort
<1> QED
    BY <1>1, <1>4, <1>5, <1>6, <1>7, <1>8, <1>9 DEF Next, StoreStep

(***************************************************************************)
(* No reference is given up twice: as long as there are blocks, no assert  *)
(* fails on any path of store, view and update.                            *)
(***************************************************************************)
THEOREM NoDoubleRelease ==
    ASSUME Careful, Blocks # {}
    PROVE  Spec /\ []HasRoom => []NoAbort
<1>1. Init => NoAbort
    BY DEF Init, NoAbort
<1> QED
    BY <1>1, NoAbortStep, Safety, PTL DEF Spec

NoCrash == crashes = 0

\* What lives while a store copies: what it copies from, what its Ref holds
\* (the current root), and what the views show; nothing else, if no process
\* has died.
LEMMA FewLive ==
    ASSUME Inv, crashes = 0, NEW t \in Threads, pc[t] = "copy"
    PROVE  DOMAIN live \subseteq
              {view[u] : u \in Threads} \cup {call[t].from} \cup {call[t].ref}
<1> SUFFICES ASSUME NEW md \in DOMAIN live, md # call[t].from, md # call[t].ref
             PROVE  \E u \in Threads : view[u] = md
    OBVIOUS
<1>1. md \in Descriptors /\ Held(md) > 0
    BY RefsNat DEF Inv, TypeOK, Counted
<1>2. mutex = t /\ t # None
    BY CopyFacts
<1>3. Held(md) = Cardinality(Viewers(md))
    BY <1>2, ViewersFinite DEF Held, At, One
<1>4. Viewers(md) # {}
    BY <1>1, <1>3, FS_EmptySet
<1> QED
    BY <1>4 DEF Viewers

\* A set that a function covers is no larger than the function's domain.
LEMMA Covered ==
    ASSUME NEW S, IsFiniteSet(S), NEW T, NEW f \in [S -> T], \A y \in T : \E x \in S : f[x] = y
    PROVE  IsFiniteSet(T) /\ Cardinality(T) <= Cardinality(S)
<1>1. f \in Surjection(S, T)
    BY DEF Surjection
<1> QED
    BY <1>1, FS_Surjection

LEMMA OneMore ==
    ASSUME NEW S, NEW x, IsFiniteSet(S)
    PROVE  /\ IsFiniteSet(S \cup {x}) /\ Cardinality(S \cup {x}) \in Nat
           /\ Cardinality(S \cup {x}) <= Cardinality(S) + 1
<1>1. Cardinality(S) \in Nat
    BY FS_CardinalityType
<1>2. IsFiniteSet(S \cup {x})
    BY FS_AddElement
<1>3. Cardinality(S \cup {x}) = IF x \in S THEN Cardinality(S) ELSE Cardinality(S) + 1
    BY FS_AddElement
<1> QED
    BY <1>1, <1>2, <1>3

\* Three blocks more than there are threads are enough.
LEMMA RoomForAll ==
    ASSUME Inv, crashes = 0, IsFiniteSet(Blocks) => Cardinality(Blocks) > Cardinality(Threads) + 2
    PROVE  HasRoom
<1> SUFFICES ASSUME NEW t \in Threads, pc[t] = "copy", Fresh = {}
             PROVE  FALSE
    BY DEF HasRoom
<1> DEFINE Views == {view[u] : u \in Threads}
           Some == Views \cup {call[t].from} \cup {call[t].ref}
<1>1. IsFiniteSet(Views) /\ Cardinality(Views) <= Cardinality(Threads)
  <2>1. [u \in Threads |-> view[u]] \in [Threads -> Views]
    OBVIOUS
  <2> QED
    BY <2>1, Covered, ThreadsAssumption
<1>2. IsFiniteSet(Some) /\ Cardinality(Some) <= Cardinality(Threads) + 2
  <2> DEFINE Two == Views \cup {call[t].from}
  <2> HIDE DEF Views
  <2>1. /\ IsFiniteSet(Two) /\ Cardinality(Two) <= Cardinality(Views) + 1
        /\ Cardinality(Two) \in Nat
    BY <1>1, OneMore
  <2> HIDE DEF Two
  <2>2. /\ IsFiniteSet(Two \cup {call[t].ref}) /\ Cardinality(Two \cup {call[t].ref}) \in Nat
        /\ Cardinality(Two \cup {call[t].ref}) <= Cardinality(Two) + 1
    BY <2>1, OneMore
  <2>3. Cardinality(Views) \in Nat /\ Cardinality(Threads) \in Nat
    BY <1>1, ThreadsAssumption, FS_CardinalityType
  <2>4. Some = Two \cup {call[t].ref}
    BY DEF Two
  <2> QED
    BY <1>1, <2>1, <2>2, <2>3, <2>4
<1>3. IsFiniteSet(DOMAIN live) /\ Cardinality(DOMAIN live) <= Cardinality(Some)
    BY <1>2, FewLive, FS_Subset
<1>4. IsFiniteSet(Blocks) /\ Cardinality(Blocks) <= Cardinality(DOMAIN live)
  <2>1. [md \in DOMAIN live |-> md.index] \in [DOMAIN live -> Blocks]
    BY DEF Inv, TypeOK, Descriptors
  <2>2. \A b \in Blocks : \E md \in DOMAIN live : md.index = b
    BY DEF Fresh
  <2> DEFINE f == [md \in DOMAIN live |-> md.index]
  <2>3. f \in [DOMAIN live -> Blocks] /\ \A b \in Blocks : \E md \in DOMAIN live : f[md] = b
    BY <2>1, <2>2
  <2> HIDE DEF f
  <2> QED
    BY <1>3, <2>3, Covered
<1>5. /\ Cardinality(Blocks) \in Nat /\ Cardinality(DOMAIN live) \in Nat
      /\ Cardinality(Some) \in Nat /\ Cardinality(Threads) \in Nat
    BY <1>2, <1>3, <1>4, ThreadsAssumption, FS_CardinalityType
<1> QED
    BY <1>2, <1>3, <1>4, <1>5

(***************************************************************************)
(* Superseded roots come back: in a region whose processes do not die,     *)
(* however many stores are made, three root blocks more than there are     *)
(* threads are enough for every store to find a block, and so for no       *)
(* assert ever to fail.                                                    *)
(***************************************************************************)
THEOREM RootsComeBack ==
    ASSUME Careful, MaxCrashes = 0,
           IsFiniteSet(Blocks) => Cardinality(Blocks) > Cardinality(Threads) + 2
    PROVE  Spec => []NoAbort
<1>1. Blocks # {}
  <2>1. Cardinality({}) = 0 /\ IsFiniteSet({}) /\ Cardinality(Threads) \in Nat
    BY ThreadsAssumption, FS_EmptySet, FS_CardinalityType
  <2>2. CASE Blocks = {}
    BY <2>1, <2>2
  <2> QED
    BY <2>2
<1>2. Init => NoCrash /\ NoAbort
    BY DEF Init, NoCrash, NoAbort
<1>3. ASSUME NoCrash, [Next]_vars
      PROVE  NoCrash'
  <2>1. ASSUME Crash PROVE FALSE
    BY <1>3, <2>1 DEF NoCrash, Crash
  <2>2. ASSUME NEW t \in Threads,
               OpenRegion(t) \/ (\E k \in Keys, v \in Values : CallStore(t, k, v))
        PROVE  UNCHANGED crashes
    BY <2>2 DEF OpenRegion, Open, AlcInit, WriteHeader, AllocRoot, NewRoot, CallStore, rest
  <2>3. ASSUME NEW t \in Threads, CallOpen(t) \/ Close(t) \/ Update(t) \/ ViewStep(t)
        PROVE  UNCHANGED crashes
    BY <2>3 DEF CallOpen, Close, Update, ViewStep, OpenRead, OpenDup, rest
  <2>4. ASSUME NEW t \in Threads, StoreStep(t)
        PROVE  UNCHANGED crashes
    BY <2>4 DEF StoreStep, Lock, ReadRoot, DupRef, Copy, DropFull, DropFrom, Publish, DropRef,
       Unlock, rest
  <2> QED
    BY <1>3, <2>1, <2>2, <2>3, <2>4 DEF Next, vars, NoCrash
<1>4. ASSUME Inv, NoCrash, NoAbort, [Next]_vars
      PROVE  NoAbort'
    BY <1>4, RoomForAll, NoAbortStep DEF NoCrash
<1>5. Spec => []Inv
    BY <1>1, Safety
<1> QED
    BY <1>2, <1>3, <1>4, <1>5, PTL DEF Spec

-----------------------------------------------------------------------------
(* Snapshot isolation *)

\* The variables of SnapshotMap
Current == IF root = None THEN Empty.map ELSE Map(root)
Shown == [t \in Threads |-> IF view[t] = None THEN None ELSE Map(view[t])]

\* The map of a living root node never changes.
LEMMA MapsStay ==
    ASSUME Inv, [Next]_vars, NEW md \in DOMAIN live
    PROVE  Map(md)' = Map(md)
<1>1. ASSUME NEW t \in Threads, Copy(t)
      PROVE  UNCHANGED node \/ \E b \in Fresh : \E content : node' = [node EXCEPT ![b] = content]
    BY <1>1 DEF Copy, New, allocator
<1>2. ASSUME NEW t \in Threads, OpenRegion(t)
      PROVE  UNCHANGED node
  <2>1. CASE NewRoot(t)
    <3>1. call[t].to \in Descriptors /\ \A b \in Blocks : node[b] = Empty
      BY <2>1 DEF Inv, TypeOK, Initialised, NewRoot
    <3> QED
      BY <2>1, <3>1 DEF Inv, TypeOK, NewRoot, Descriptors
  <2>2. CASE ~NewRoot(t)
    BY <1>2, <2>2 DEF OpenRegion, Open, AlcInit, WriteHeader, AllocRoot, allocator
  <2> QED
    BY <2>1, <2>2
<1>3. ASSUME NEW t \in Threads, CallOpen(t) \/ Close(t) \/ Update(t) \/ ViewStep(t)
      PROVE  UNCHANGED node
    BY <1>3 DEF CallOpen, Close, Update, ViewStep, OpenRead, OpenDup, allocator
<1>4. ASSUME NEW t \in Threads, StoreStep(t)
      PROVE  UNCHANGED node \/ Copy(t)
    BY <1>4 DEF StoreStep, Lock, ReadRoot, DupRef, DropFull, DropFrom, Publish, DropRef,
       Unlock, allocator
<1>5. UNCHANGED node \/ \E t \in Threads : Copy(t)
    BY <1>2, <1>3, <1>4 DEF Next, vars, Crash, CallStore, allocator
<1> QED
    BY <1>1, <1>5, MapStays DEF Inv, Map

\* So a step that leaves root and view alone leaves what they show alone.
LEMMA CurrentStays ==
    ASSUME Inv, [Next]_vars, UNCHANGED root
    PROVE  Current' = Current
BY MapsStay, RootLives DEF Inv, Initialised, Current

LEMMA ShownStays ==
    ASSUME Inv, [Next]_vars, UNCHANGED view
    PROVE  Shown' = Shown
<1>1. ASSUME NEW t \in Threads, view[t] # None
      PROVE  Map(view[t])' = Map(view[t])
  <2>1. PICK md \in DOMAIN live : md = view[t]
    BY <1>1, ViewLives
  <2>2. Map(md)' = Map(md)
    BY MapsStay
  <2> QED
    BY <2>1, <2>2 DEF Map
<1> QED
    BY <1>1 DEF Shown

\* A step that changes the view of one thread
LEMMA ShownChanges ==
    ASSUME Inv, [Next]_vars, NEW t \in Threads, NEW md \in DOMAIN live \cup {None},
           view' = [view EXCEPT ![t] = md]
    PROVE  Shown' = [Shown EXCEPT ![t] = IF md = None THEN None ELSE Map(md)]
<1>1. \A other \in DOMAIN live : Map(other)' = Map(other)
    BY MapsStay
<1>2. /\ md # None => Map(md)' = Map(md)
      /\ view'[t] = md
    BY <1>1 DEF Inv, TypeOK
<1>3. ASSUME NEW u \in Threads \ {t}
      PROVE  /\ view'[u] = view[u]
             /\ view[u] # None => Map(view[u])' = Map(view[u])
  <2>1. view'[u] = view[u]
    BY DEF Inv, TypeOK
  <2>2. ASSUME view[u] # None
        PROVE  Map(view[u])' = Map(view[u])
    <3>1. PICK other \in DOMAIN live : other = view[u]
      BY <2>2, ViewLives
    <3>2. Map(other)' = Map(other)
      BY <1>1
    <3> QED
      BY <2>1, <3>1, <3>2 DEF Map
  <2> QED
    BY <2>1, <2>2
<1> QED
    BY <1>2, <1>3 DEF Shown, Map

LEMMA InitSnapshots == Init => Snapshots!Init
BY DEF Init, Snapshots!Init, Empty

\* Whoever initialises the region does not change the map, which is empty.
LEMMA OpenRegionStutters ==
    ASSUME Inv, [Next]_vars, NEW t \in Threads, OpenRegion(t)
    PROVE  UNCHANGED <<Current, Shown, window>>
<1>1. UNCHANGED <<view, window>>
    BY DEF OpenRegion, Open, AlcInit, WriteHeader, AllocRoot, NewRoot
<1>2. CASE AllocRoot(t)
  <2>1. /\ root = None /\ DOMAIN live = {} /\ UNCHANGED node
        /\ \A b \in Blocks : node[b] = Empty
    BY <1>2 DEF Inv, Initialised, Blank, AllocRoot
  <2>2. root' = None \/ root'.index \in Blocks
    BY <1>2 DEF AllocRoot, Descriptor, Fresh
  <2>3. Current' = Current
    BY <2>1, <2>2 DEF Current, Map
  <2> QED
    BY <1>1, <2>3, ShownStays
<1>3. CASE ~AllocRoot(t)
  <2>1. UNCHANGED root
    BY <1>3 DEF OpenRegion, Open, AlcInit, WriteHeader, NewRoot
  <2> QED
    BY <1>1, <2>1, CurrentStays, ShownStays
<1> QED
    BY <1>2, <1>3

LEMMA CrashCrashes ==
    ASSUME Inv, [Next]_vars, Crash
    PROVE  Snapshots!Crash
<1>1. Current' = Current
    BY CurrentStays DEF Crash
<1>2. Shown' = [t \in Threads |-> None] /\ window' = [t \in Threads |-> {}]
    BY DEF Crash, Shown
<1> QED
    BY <1>1, <1>2 DEF Snapshots!Crash, Current, Shown

\* A store takes effect at the write of h_->root.
LEMMA PublishStores ==
    ASSUME Inv, [Next]_vars, NEW t \in Threads, Publish(t)
    PROVE  \E k \in Keys, v \in Values : Snapshots!Store(k, v)
<1>1. /\ call[t].key \in Keys /\ call[t].value \in Values /\ root # None
      /\ call[t].to # None
      /\ Map(call[t].to) = [Map(root) EXCEPT ![call[t].key] = call[t].value]
    BY DEF Inv, Initialised, StoreRight, Publish, Storing, Opening
<1>2. root' = call[t].to /\ UNCHANGED node /\ UNCHANGED view
    BY DEF Publish, allocator
<1>3. Current' = [Current EXCEPT ![call[t].key] = call[t].value]
    BY <1>1, <1>2 DEF Current, Map
<1>4. window' = [u \in Threads |->
                   IF window[u] = {} THEN {} ELSE window[u] \cup {Current'}]
    BY <1>1, <1>2 DEF Publish, Current, Map
<1>5. Shown' = Shown
    BY <1>2, ShownStays
<1>6. Snapshots!Store(call[t].key, call[t].value)
    BY <1>3, <1>4, <1>5 DEF Snapshots!Store, Current, Shown
<1> QED
    BY <1>1, <1>6

LEMMA ViewBegins ==
    ASSUME Inv, [Next]_vars, NEW t \in Threads, CallOpen(t) \/ Update(t)
    PROVE  Snapshots!BeginOpen(t)
<1>1. /\ pc[t] = "idle" /\ UNCHANGED root
      /\ window' = [window EXCEPT ![t] = {Map(root)}]
      /\ view' = [view EXCEPT ![t] = None]
  <2>1. CASE CallOpen(t)
    BY <2>1 DEF Inv, TypeOK, CallOpen
  <2>2. CASE Update(t)
    BY <2>2 DEF Update
  <2> QED
    BY <2>1, <2>2
<1>2. window[t] = {} /\ root # None
    BY <1>1 DEF Inv, Initialised, ViewsRight, Viewing, Opening
<1>3. Current' = Current /\ Current = Map(root)
    BY <1>1, <1>2, CurrentStays DEF Current
<1>4. Shown' = [Shown EXCEPT ![t] = None]
    BY <1>1, ShownChanges
<1> QED
    BY <1>1, <1>2, <1>3, <1>4 DEF Snapshots!BeginOpen, Current, Shown

\* A dup that succeeds opens the view on a map of the window; one that is
\* refused changes nothing.
LEMMA OpenDupEnds ==
    ASSUME Inv, [Next]_vars, NEW t \in Threads, OpenDup(t)
    PROVE  Snapshots!EndOpen(t) \/ UNCHANGED <<Current, Shown, window>>
<1>1. UNCHANGED root /\ Current' = Current
    BY CurrentStays DEF OpenDup
<1>2. CASE call[t].ref \in DOMAIN live
  <2>1. PICK md \in DOMAIN live : md = call[t].ref
    BY <1>2
  <2>2. /\ view' = [view EXCEPT ![t] = md] /\ window' = [window EXCEPT ![t] = {}]
    BY <2>1 DEF OpenDup
  <2>3. Map(md) \in window[t]
    BY <2>1 DEF Inv, ViewsRight, OpenDup
  <2>4. md # None
    BY DEF Inv, TypeOK
  <2>5. Shown' = [Shown EXCEPT ![t] = Map(md)]
    BY <2>2, <2>4, ShownChanges
  <2> QED
    BY <1>1, <2>2, <2>3, <2>5 DEF Snapshots!EndOpen, Current, Shown
<1>3. CASE call[t].ref \notin DOMAIN live
    BY <1>1, <1>3, ShownStays DEF OpenDup
<1> QED
    BY <1>2, <1>3

LEMMA CloseCloses ==
    ASSUME Inv, [Next]_vars, NEW t \in Threads, Close(t)
    PROVE  Snapshots!Close(t) \/ UNCHANGED <<Current, Shown, window>>
<1>1. UNCHANGED <<root, window>> /\ Current' = Current
    BY CurrentStays DEF Close
<1>2. Shown' = [Shown EXCEPT ![t] = None]
    BY ShownChanges DEF Close
<1>3. CASE Shown[t] = None
    BY <1>1, <1>2, <1>3 DEF Shown
<1>4. CASE Shown[t] # None
    BY <1>1, <1>2, <1>4 DEF Snapshots!Close, Current, Shown
<1> QED
    BY <1>3, <1>4

\* All other steps of stores and views change nothing that is promised.
LEMMA OtherStepsStutter ==
    ASSUME Inv, [Next]_vars, NEW t \in Threads,
           (StoreStep(t) /\ ~Publish(t)) \/ OpenRead(t)
           \/ (\E k \in Keys, v \in Values : CallStore(t, k, v)) \/ UNCHANGED vars
    PROVE  UNCHANGED <<Current, Shown, window>>
<1>1. UNCHANGED <<root, view, window>>
    BY DEF StoreStep, Lock, ReadRoot, DupRef, Copy, DropFull, DropFrom, DropRef, Unlock,
       OpenRead, CallStore, vars
<1> QED
    BY <1>1, CurrentStays, ShownStays

(***************************************************************************)
(* Snapshot isolation, for any number of threads, keys and blocks: every   *)
(* step of the root protocol is a store, the beginning, the end or the     *)
(* closing of a view, or a crash of the abstract map, or changes nothing   *)
(* of it.  Deeper than the run: a refused dup, a reused block or a crash   *)
(* in any of the steps of any number of threads never shows.               *)
(***************************************************************************)
THEOREM SnapshotIsolation ==
    ASSUME Careful, Blocks # {}
    PROVE  Spec => SnapshotSpec
<1>1. ASSUME Inv, [Next]_vars
      PROVE  [Snapshots!Next]_(Snapshots!vars)
  <2>1. UNCHANGED <<Current, Shown, window>> => UNCHANGED Snapshots!vars
    BY DEF Snapshots!vars, Current, Shown
  <2>2. CASE Crash
    BY <1>1, <2>2, CrashCrashes DEF Snapshots!Next
  <2>3. ASSUME NEW t \in Threads, OpenRegion(t)
        PROVE  UNCHANGED Snapshots!vars
    BY <1>1, <2>1, <2>3, OpenRegionStutters
  <2>4. ASSUME NEW t \in Threads, Publish(t)
        PROVE  Snapshots!Next
    BY <1>1, <2>4, PublishStores DEF Snapshots!Next
  <2>5. ASSUME NEW t \in Threads, CallOpen(t) \/ Update(t)
        PROVE  Snapshots!Next
    BY <1>1, <2>5, ViewBegins DEF Snapshots!Next
  <2>6. ASSUME NEW t \in Threads, OpenDup(t)
        PROVE  Snapshots!Next \/ UNCHANGED Snapshots!vars
    BY <1>1, <2>1, <2>6, OpenDupEnds DEF Snapshots!Next
  <2>7. ASSUME NEW t \in Threads, Close(t)
        PROVE  Snapshots!Next \/ UNCHANGED Snapshots!vars
    BY <1>1, <2>1, <2>7, CloseCloses DEF Snapshots!Next
  <2>8. ASSUME NEW t \in Threads,
               (StoreStep(t) /\ ~Publish(t)) \/ OpenRead(t)
               \/ (\E k \in Keys, v \in Values : CallStore(t, k, v))
        PROVE  UNCHANGED Snapshots!vars
    BY <1>1, <2>1, <2>8, OtherStepsStutter
  <2>9. CASE UNCHANGED vars
    BY <1>1, <2>1, <2>9, CurrentStays, ShownStays DEF vars
  <2> QED
    BY <1>1, <2>2, <2>3, <2>4, <2>5, <2>6, <2>7, <2>8, <2>9 DEF Next, ViewStep
<1> QED
    BY <1>1, InitSnapshots, Safety, PTL DEF Spec, SnapshotSpec, Snapshots!Spec
=============================================================================
