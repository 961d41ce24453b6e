------------------------ MODULE FixedAllocatorProofs ------------------------
(***************************************************************************)
(* What the cache of fixed-size blocks guarantees for any number of        *)
(* threads, blocks, size classes, versions and calls.                      *)
(***************************************************************************)
EXTENDS FixedAllocator, FiniteSetTheorems, WellFoundedInduction, TLAPS

USE DEF Md, Top, Class

-----------------------------------------------------------------------------
(* Arithmetic, bags and the records of calls *)

LEMMA Wrap ==
    ASSUME NEW M \in Nat \ {0}, NEW a \in 0 .. M - 1
    PROVE  /\ (a + 1) % M = IF a + 1 = M THEN 0 ELSE a + 1
           /\ (a + M - 1) % M = IF a = 0 THEN M - 1 ELSE a - 1
           /\ a % M = a
<1>1. a % M = a
    OBVIOUS
<1>2. M % M = 0
    OBVIOUS
<1>3. a # 0 => (a + M - 1) % M = a - 1
    OBVIOUS
<1> QED
    BY <1>1, <1>2, <1>3

LEMMA Quotient ==
    ASSUME NEW M \in Nat \ {0}, NEW a \in Nat
    PROVE  \E q \in Nat : \E r \in 0 .. M - 1 : a = M * q + r
<1>1. a = M * (a \div M) + (a % M) /\ a \div M \in Nat /\ a % M \in 0 .. M - 1
    OBVIOUS
<1> QED
    BY <1>1

LEMMA Remainder ==
    ASSUME NEW M \in Nat \ {0}, NEW q \in Nat, NEW r \in 0 .. M - 1
    PROVE  (M * q + r) % M = r
OBVIOUS

LEMMA AddsModulus ==
    ASSUME NEW M \in Nat \ {0}, NEW a \in Nat
    PROVE  (a + M) % M = a % M
<1>1. PICK q \in Nat, r \in 0 .. M - 1 : a = M * q + r
    BY Quotient
<1>2. a + M = M * (q + 1) + r
    BY <1>1
<1>3. a % M = r
    BY <1>1, Remainder
<1>4. (M * (q + 1) + r) % M = r
    BY Remainder
<1> QED
    BY <1>2, <1>3, <1>4

LEMMA Successor ==
    ASSUME NEW M \in Nat \ {0}, NEW a \in Nat
    PROVE  (a + 1) % M = IF (a % M) + 1 = M THEN 0 ELSE (a % M) + 1
<1>1. PICK q \in Nat, r \in 0 .. M - 1 : a = M * q + r
    BY Quotient
<1>2. a % M = r
    BY <1>1, Remainder
<1>3. CASE r + 1 = M
  <2>1. a + 1 = M * (q + 1) + 0
    BY <1>1, <1>3
  <2>2. (M * (q + 1) + 0) % M = 0
    BY Remainder
  <2> QED
    BY <1>2, <1>3, <2>1, <2>2
<1>4. CASE r + 1 # M
  <2>1. a + 1 = M * q + (r + 1)
    BY <1>1
  <2>2. (M * q + (r + 1)) % M = r + 1
    BY <1>4, Remainder
  <2> QED
    BY <1>2, <1>4, <2>1, <2>2
<1> QED
    BY <1>3, <1>4

\* Two numbers that agree modulo M still do when both move by one.
LEMMA Balance ==
    ASSUME NEW M \in Nat \ {0}, NEW a \in Nat, NEW b \in Nat
    PROVE  a % M = b % M <=> (a + 1) % M = (b + 1) % M
<1>1. PICK x \in 0 .. M - 1, y \in 0 .. M - 1 : x = a % M /\ y = b % M
    OBVIOUS
<1>2. /\ (a + 1) % M = IF x + 1 = M THEN 0 ELSE x + 1
      /\ (b + 1) % M = IF y + 1 = M THEN 0 ELSE y + 1
    BY <1>1, Successor
<1>3. (IF x + 1 = M THEN 0 ELSE x + 1) = (IF y + 1 = M THEN 0 ELSE y + 1) <=> x = y
    OBVIOUS
<1> QED
    BY <1>1, <1>2, <1>3

\* A counter is moved by one, modulo M; n is what is not in it yet.
LEMMA Moved ==
    ASSUME NEW M \in Nat \ {0}, NEW a \in 0 .. M - 1, NEW n \in Nat
    PROVE  /\ ((a + 1) % M) + n \in Nat /\ ((a + M - 1) % M) + n \in Nat
           /\ (((a + 1) % M) + n) % M = (a + 1 + n) % M
           /\ (((a + M - 1) % M) + 1 + n) % M = (a + n) % M
<1>1. /\ (a + 1) % M = IF a + 1 = M THEN 0 ELSE a + 1
      /\ (a + M - 1) % M = IF a = 0 THEN M - 1 ELSE a - 1
    BY Wrap
<1>2. (n + M) % M = n % M
    BY AddsModulus
<1>3. (((a + 1) % M) + n) % M = (a + 1 + n) % M
  <2>1. CASE a + 1 = M
    <3>1. a + 1 + n = n + M /\ ((a + 1) % M) + n = n
      BY <1>1, <2>1
    <3> QED
      BY <1>2, <3>1
  <2>2. CASE a + 1 # M
    BY <1>1, <2>2
  <2> QED
    BY <2>1, <2>2
<1>4. (((a + M - 1) % M) + 1 + n) % M = (a + n) % M
  <2>1. CASE a = 0
    <3>1. ((a + M - 1) % M) + 1 + n = n + M /\ a + n = n
      BY <1>1, <2>1
    <3> QED
      BY <1>2, <3>1
  <2>2. CASE a # 0
    <3>1. ((a + M - 1) % M) + 1 + n = a + n
      BY <1>1, <2>2
    <3> QED
      BY <3>1
  <2> QED
    BY <2>1, <2>2
<1>5. (a + 1) % M \in Nat /\ (a + M - 1) % M \in Nat
    BY <1>1
<1> QED
    BY <1>3, <1>4, <1>5

\* A block that is revived or given back gets another version.
LEMMA BumpMoves ==
    ASSUME NEW v \in 0 .. VersionMod - 1
    PROVE  Bump(v) \in 0 .. VersionMod - 1 /\ Bump(v) # v
<1>1. VersionMod \in Nat \ {0}
    BY ModAssumption
<1>2. (v + 1) % VersionMod = IF v + 1 = VersionMod THEN 0 ELSE v + 1
    BY <1>1, Wrap
<1> QED
    BY <1>2, ModAssumption DEF Bump

LEMMA Holding ==
    ASSUME TypeOK, NEW md \in Descriptors, Hold(md, 1)
    PROVE  /\ IsABag(held') /\ BagToSet(held)' = BagToSet(held) \cup {md}
           /\ \A d : Copies(d)' = IF d = md THEN Copies(d) + 1 ELSE Copies(d)
<1>1. /\ DOMAIN held' = DOMAIN held \cup {md}
      /\ \A d \in DOMAIN held' : held'[d] = IF d = md THEN Copies(d) + 1 ELSE held[d]
    BY DEF Hold, (+), Copies, BagIn, BagToSet, TypeOK, IsABag
<1>2. \A d \in DOMAIN held : held[d] \in Nat /\ held[d] > 0
    BY DEF TypeOK, IsABag
<1>3. \A d \in DOMAIN held' : held'[d] \in Nat /\ held'[d] > 0
    BY <1>1, <1>2 DEF Copies, BagIn, BagToSet
<1>4. IsABag(held')
  <2>1. held' = [d \in DOMAIN held' |-> held'[d]]
    BY DEF Hold, (+)
  <2> QED
    BY <1>3, <2>1 DEF IsABag
<1>5. \A d : Copies(d)' = IF d \in DOMAIN held' THEN held'[d] ELSE 0
    BY DEF Copies, BagIn, BagToSet
<1>6. \A d : Copies(d) = IF d \in DOMAIN held THEN held[d] ELSE 0
    BY DEF Copies, BagIn, BagToSet
<1> QED
    BY <1>1, <1>4, <1>5, <1>6 DEF BagToSet

LEMMA Dropping ==
    ASSUME TypeOK, NEW md \in BagToSet(held), held' = held (-) SetToBag({md})
    PROVE  /\ IsABag(held') /\ BagToSet(held)' \subseteq BagToSet(held)
           /\ Copies(md) > 0
           /\ \A d : Copies(d)' = IF d = md THEN Copies(d) - 1 ELSE Copies(d)
<1> DEFINE B == [e \in DOMAIN held |->
                    IF e \in DOMAIN SetToBag({md}) THEN held[e] - SetToBag({md})[e] ELSE held[e]]
<1>1. held' = [e \in {d \in DOMAIN B : B[d] > 0} |-> B[e]]
    BY DEF (-)
<1>2. /\ DOMAIN B = DOMAIN held
      /\ \A d \in DOMAIN held : B[d] = IF d = md THEN held[d] - 1 ELSE held[d]
    BY DEF SetToBag, BagToSet
<1>3. \A d \in DOMAIN held : held[d] \in Nat /\ held[d] > 0
    BY DEF TypeOK, IsABag
<1> HIDE DEF B
<1>4. DOMAIN held' = {d \in DOMAIN held : B[d] > 0} /\ \A d \in DOMAIN held' : held'[d] = B[d]
    BY <1>1, <1>2
<1>5. \A d \in DOMAIN held' : held'[d] \in Nat /\ held'[d] > 0
    BY <1>2, <1>3, <1>4
<1>6. IsABag(held')
    BY <1>1, <1>5 DEF IsABag
<1>7. \A d : Copies(d)' = IF d \in DOMAIN held' THEN held'[d] ELSE 0
    BY DEF Copies, BagIn, BagToSet
<1>8. \A d : Copies(d) = IF d \in DOMAIN held THEN held[d] ELSE 0
    BY DEF Copies, BagIn, BagToSet
<1> QED
    BY <1>2, <1>3, <1>4, <1>6, <1>7, <1>8 DEF BagToSet

LEMMA CopiesType ==
    ASSUME TypeOK
    PROVE  \A md : Copies(md) \in Nat /\ (Copies(md) > 0 <=> md \in BagToSet(held))
BY DEF TypeOK, IsABag, Copies, BagIn, BagToSet

\* The locals of a thread change in one field at a time.
LEMMA FieldTypes ==
    ASSUME NEW c \in Calls
    PROVE  /\ NoCall \in Calls
           /\ \A x \in Descriptors \cup {None} : [c EXCEPT !.md = x] \in Calls
           /\ \A x \in Descriptors \cup {END, None} : [c EXCEPT !.top = x] \in Calls
           /\ \A x \in Descriptors \cup {END, Junk, None} : [c EXCEPT !.next = x] \in Calls
           /\ \A x \in {None} \cup 0 .. CounterMod - 1 : [c EXCEPT !.used = x] \in Calls
           /\ \A x \in Classes \cup {Large, None} : [c EXCEPT !.size = x] \in Calls
           /\ [c EXCEPT !.top = None, !.next = None] \in Calls
BY DEF Calls, NoCall

LEMMA CallTypes ==
    ASSUME TypeOK, NEW t \in Threads,
           \/ Return(t) \/ UNCHANGED call
           \/ \E x \in Descriptors \cup {None} : call' = [call EXCEPT ![t].md = x]
           \/ \E x \in Descriptors \cup {END, None} : call' = [call EXCEPT ![t].top = x]
           \/ \E x \in Descriptors \cup {END, Junk, None} : call' = [call EXCEPT ![t].next = x]
           \/ \E x \in {None} \cup 0 .. CounterMod - 1 : call' = [call EXCEPT ![t].used = x]
           \/ \E x \in Classes \cup {Large, None} : call' = [call EXCEPT ![t].size = x]
           \/ call' = [call EXCEPT ![t].top = None, ![t].next = None]
    PROVE  call' \in [Threads -> Calls]
<1>1. call[t] \in Calls /\ call = [call EXCEPT ![t] = call[t]]
    BY DEF TypeOK
<1>2. \E c \in Calls : call' = [call EXCEPT ![t] = c]
  <2>1. CASE Return(t) \/ UNCHANGED call
    BY <1>1, <2>1, FieldTypes DEF Return
  <2>2. ASSUME NEW x \in Descriptors \cup {None}, call' = [call EXCEPT ![t].md = x]
        PROVE  \E c \in Calls : call' = [call EXCEPT ![t] = c]
    BY <1>1, <2>2, FieldTypes
  <2>3. ASSUME NEW x \in Descriptors \cup {END, None}, call' = [call EXCEPT ![t].top = x]
        PROVE  \E c \in Calls : call' = [call EXCEPT ![t] = c]
    BY <1>1, <2>3, FieldTypes
  <2>4. ASSUME NEW x \in Descriptors \cup {END, Junk, None}, call' = [call EXCEPT ![t].next = x]
        PROVE  \E c \in Calls : call' = [call EXCEPT ![t] = c]
    BY <1>1, <2>4, FieldTypes
  <2>5. ASSUME NEW x \in {None} \cup 0 .. CounterMod - 1, call' = [call EXCEPT ![t].used = x]
        PROVE  \E c \in Calls : call' = [call EXCEPT ![t] = c]
    BY <1>1, <2>5, FieldTypes
  <2>6. ASSUME NEW x \in Classes \cup {Large, None}, call' = [call EXCEPT ![t].size = x]
        PROVE  \E c \in Calls : call' = [call EXCEPT ![t] = c]
    BY <1>1, <2>6, FieldTypes
  <2>7. CASE call' = [call EXCEPT ![t].top = None, ![t].next = None]
    <3>1. call' = [call EXCEPT ![t] = [call[t] EXCEPT !.top = None, !.next = None]]
      BY <1>1, <2>7
    <3> QED
      BY <1>1, <3>1, FieldTypes
  <2> QED
    BY <2>1, <2>2, <2>3, <2>4, <2>5, <2>6, <2>7
<1> QED
    BY <1>2 DEF TypeOK

\* A thread's step leaves the other threads where they are.
LEMMA Alone ==
    ASSUME TypeOK, NEW t \in Threads, Call(t) \/ Step(t)
    PROVE  \A u \in Threads \ {t} : pc'[u] = pc[u] /\ call'[u] = call[u]
<1>1. CASE Call(t)
    BY <1>1 DEF TypeOK, Call, CallAllocate, CallRelease, CallDup, Begin, Goto
<1>2. CASE Step(t)
  <2>1. CASE BaseDup(t) \/ BaseAllocate(t) \/ BaseUndup(t) \/ BaseUsed(t)
    BY <2>1 DEF TypeOK, BaseDup, BaseAllocate, BaseUndup, BaseUsed, Return, Goto
  <2>2. CASE PopHead(t) \/ PopLink(t) \/ PopCas(t) \/ PopUsed(t) \/ PopFree(t) \/ Revive(t)
    BY <2>2 DEF TypeOK, PopHead, PopLink, PopCas, PopUsed, PopFree, Revive, Return, Goto, shared
  <2>3. CASE ReadUsed(t) \/ ReadFree(t) \/ LightRelease(t) \/ LightPublish(t) \/ FreedUsed(t)
    BY <2>3 DEF TypeOK, ReadUsed, ReadFree, LightRelease, LightPublish, FreedUsed, Return, Goto, shared
  <2>4. CASE PushHead(t) \/ PushLink(t) \/ PushCas(t) \/ PushUsed(t) \/ PushFree(t)
    BY <2>4 DEF TypeOK, PushHead, PushLink, PushCas, PushUsed, PushFree, Return, Goto, shared
  <2> QED
    BY <1>2, <2>1, <2>2, <2>3, <2>4 DEF Step
<1> QED
    BY <1>1, <1>2

LEMMA OtherHands ==
    ASSUME TypeOK, NEW t \in Threads, Call(t) \/ Step(t)
    PROVE  \A u \in Threads \ {t} : InHand(u)' = InHand(u)
BY Alone DEF InHand

LEMMA DescriptorType ==
    ASSUME TypeOK, NEW b \in Blocks
    PROVE  Descriptor(b) \in Descriptors /\ Descriptor(b).index = b /\ Matches(Descriptor(b))
BY DEF TypeOK, Descriptor, Descriptors, Matches

LEMMA MatchesIs ==
    ASSUME TypeOK, NEW md \in Descriptors
    PROVE  md.index \in Blocks /\ (Matches(md) <=> md = Descriptor(md.index))
BY DEF TypeOK, Descriptor, Descriptors, Matches

LEMMA StackedFinite ==
    ASSUME NEW c
    PROVE  /\ IsFiniteSet(Stacked(c)) /\ Cardinality(Stacked(c)) \in Nat
           /\ IsFiniteSet(Referenced(c)) /\ Cardinality(Referenced(c)) \in Nat
           /\ Cardinality(Stacked(c))' \in Nat /\ Cardinality(Referenced(c))' \in Nat
<1>1. /\ Stacked(c) \subseteq Blocks /\ Referenced(c) \subseteq Blocks
      /\ Stacked(c)' \subseteq Blocks /\ Referenced(c)' \subseteq Blocks
    BY DEF Stacked, Dead, Referenced
<1> QED
    BY <1>1, FiniteAssumption, FS_Subset, FS_CardinalityType

\* A head is END or the present descriptor of a stacked block.
LEMMA Heads ==
    ASSUME TypeOK, Stacks, NEW c \in Classes, head[c] # END
    PROVE  \E b \in Stacked(c) : head[c] = Descriptor(b) /\ link[b] \in Descriptors \cup {END}
<1>1. PICK s \in [1 .. Cardinality(Stacked(c)) -> Stacked(c)] : InOrder(c, s)
    BY DEF Stacks
<1> DEFINE n == Cardinality(Stacked(c))
<1>2. n \in Nat
    BY StackedFinite
<1>3. n # 0 /\ s[n] \in Stacked(c) /\ head[c] = Descriptor(s[n])
    BY <1>1, <1>2 DEF InOrder
<1>4. link[s[n]] = IF n = 1 THEN END ELSE Descriptor(s[n - 1])
    BY <1>1, <1>2, <1>3 DEF InOrder
<1>5. n # 1 => s[n - 1] \in Blocks
    BY <1>1, <1>2, <1>3 DEF Stacked, Dead
<1> QED
    BY <1>3, <1>4, <1>5, DescriptorType

\* What a pop swaps in if its look at the head is still true.
LEMMA NextType ==
    ASSUME TypeOK, Located, Stacks, Looked, NEW t \in Threads,
           pc[t] = "popCas", head[Class(t)] = Top(t)
    PROVE  call[t].next \in Descriptors \cup {END}
<1>1. Class(t) \in Classes /\ Top(t) \in Descriptors
    BY DEF Located, Locals, Popping
<1>2. PICK b \in Stacked(Class(t)) : Top(t) = Descriptor(b) /\ link[b] \in Descriptors \cup {END}
    BY <1>1, Heads, NamesAssumption
<1>3. b \in Blocks /\ Matches(Top(t)) /\ Top(t).index = b
    BY <1>2, DescriptorType DEF Stacked, Dead
<1>4. call[t].next = link[b]
    BY <1>3 DEF Looked, Popping
<1> QED
    BY <1>2, <1>4

-----------------------------------------------------------------------------
(* Types *)

WordTypes == [version : 0 .. VersionMod - 1, refs : Nat, size : Classes \cup {Large, None}]

SetRefs(b, n) == word' = [word EXCEPT ![b].refs = n]
SetLife(b, v, n) == word' = [word EXCEPT ![b].version = v, ![b].refs = n]

\* What a write of one block's word leaves in the table.
LEMMA WordWritten ==
    ASSUME TypeOK, NEW b \in Blocks, NEW w, word' = [word EXCEPT ![b] = w]
    PROVE  /\ word'[b] = w /\ \A x \in Blocks \ {b} : word'[x] = word[x]
           /\ w \in WordTypes => word' \in [Blocks -> WordTypes]
<1>1. word \in [Blocks -> WordTypes]
    BY DEF TypeOK, WordTypes
<1> HIDE DEF WordTypes
<1> QED
    BY <1>1

LEMMA RefsWritten ==
    ASSUME TypeOK, NEW b \in Blocks, NEW n, SetRefs(b, n)
    PROVE  /\ word'[b].refs = n /\ word'[b].version = word[b].version
           /\ word'[b].size = word[b].size
           /\ \A x \in Blocks \ {b} : word'[x] = word[x]
           /\ n \in Nat => word' \in [Blocks -> WordTypes]
<1>1. word[b] \in WordTypes
    BY DEF TypeOK, WordTypes
<1> DEFINE w == [word[b] EXCEPT !.refs = n]
<1>2. /\ w.refs = n /\ w.version = word[b].version /\ w.size = word[b].size
      /\ n \in Nat => w \in WordTypes
    BY <1>1 DEF WordTypes
<1>3. word' = [word EXCEPT ![b] = w]
    BY DEF SetRefs
<1> HIDE DEF w
<1> QED
    BY <1>2, <1>3, WordWritten

LEMMA LifeWritten ==
    ASSUME TypeOK, NEW b \in Blocks, NEW v, NEW n, SetLife(b, v, n)
    PROVE  /\ word'[b].refs = n /\ word'[b].version = v
           /\ word'[b].size = word[b].size
           /\ \A x \in Blocks \ {b} : word'[x] = word[x]
           /\ n \in Nat /\ v \in 0 .. VersionMod - 1 => word' \in [Blocks -> WordTypes]
<1>1. word[b] \in WordTypes
    BY DEF TypeOK, WordTypes
<1> DEFINE w == [word[b] EXCEPT !.version = v, !.refs = n]
<1>2. /\ w.refs = n /\ w.version = v /\ w.size = word[b].size
      /\ n \in Nat /\ v \in 0 .. VersionMod - 1 => w \in WordTypes
    BY <1>1 DEF WordTypes
<1>3. word' = [word EXCEPT ![b] = w]
    BY DEF TypeOK, SetLife
<1> HIDE DEF w
<1> QED
    BY <1>2, <1>3, WordWritten

LEMMA VersionWritten ==
    ASSUME TypeOK, NEW b \in Blocks, NEW v, word' = [word EXCEPT ![b].version = v]
    PROVE  /\ word'[b].refs = word[b].refs /\ word'[b].version = v
           /\ word'[b].size = word[b].size
           /\ \A x \in Blocks \ {b} : word'[x] = word[x]
<1>1. word[b] \in WordTypes
    BY DEF TypeOK, WordTypes
<1> DEFINE w == [word[b] EXCEPT !.version = v]
<1>2. w.refs = word[b].refs /\ w.version = v /\ w.size = word[b].size
    BY <1>1 DEF WordTypes
<1>3. word' = [word EXCEPT ![b] = w]
    OBVIOUS
<1> HIDE DEF w
<1> QED
    BY <1>2, <1>3, WordWritten

LEMMA CountersType ==
    ASSUME TypeOK, NEW t \in Threads, Class(t) \in Classes
    PROVE  /\ Inc(used_count, Class(t)) \/ Dec(used_count, Class(t)) =>
                 used_count' \in [Classes -> 0 .. CounterMod - 1]
           /\ Inc(free_count, Class(t)) \/ Dec(free_count, Class(t)) =>
                 free_count' \in [Classes -> 0 .. CounterMod - 1]
<1>1. /\ CounterMod \in Nat \ {0}
      /\ \A a \in 0 .. CounterMod - 1 : /\ (a + 1) % CounterMod \in 0 .. CounterMod - 1
                                        /\ (a + CounterMod - 1) % CounterMod \in 0 .. CounterMod - 1
    BY ModAssumption, Wrap
<1>2. used_count[Class(t)] \in 0 .. CounterMod - 1 /\ free_count[Class(t)] \in 0 .. CounterMod - 1
    BY DEF TypeOK
<1>3. ASSUME NEW counter \in [Classes -> 0 .. CounterMod - 1], NEW x \in 0 .. CounterMod - 1
      PROVE  [counter EXCEPT ![Class(t)] = x] \in [Classes -> 0 .. CounterMod - 1]
    OBVIOUS
<1>4. Inc(used_count, Class(t)) \/ Dec(used_count, Class(t)) =>
          \E x \in 0 .. CounterMod - 1 : used_count' = [used_count EXCEPT ![Class(t)] = x]
    BY <1>1, <1>2 DEF Inc, Dec
<1>5. Inc(free_count, Class(t)) \/ Dec(free_count, Class(t)) =>
          \E x \in 0 .. CounterMod - 1 : free_count' = [free_count EXCEPT ![Class(t)] = x]
    BY <1>1, <1>2 DEF Inc, Dec
<1> QED
    BY <1>3, <1>4, <1>5 DEF TypeOK

LEMMA TypeStays ==
    ASSUME TypeOK, Located, Counted, Stacks, Looked, [Kept]_vars
    PROVE  TypeOK'
<1> USE DEF Labels, Popping, Popped, Leaving, Owing
<1>1. ASSUME NEW t \in Threads, Call(t)
      PROVE  TypeOK'
  <2>1. ASSUME NEW op \in {"allocate", "release", "dup"}, NEW size \in Classes \cup {Large, None},
               NEW md \in Descriptors \cup {None}, NEW label \in Labels, Begin(t, op, size, md, label)
        PROVE  pc' \in [Threads -> Labels] /\ call' \in [Threads -> Calls]
    <3>1. [NoCall EXCEPT !.op = op, !.size = size, !.md = md] \in Calls
      BY DEF NoCall, Calls
    <3> QED
      BY <2>1, <3>1 DEF Begin, Goto, TypeOK
  <2>2. CASE \E size \in Sizes : CallAllocate(t, size)
    BY <2>1, <2>2, SizesAssumption DEF CallAllocate, TypeOK, shared
  <2>3. ASSUME NEW md \in BagToSet(held), CallRelease(t, md)
        PROVE  TypeOK'
    <3>1. md \in Descriptors
      BY DEF TypeOK
    <3> QED
      BY <2>1, <2>3, <3>1, Dropping DEF CallRelease, TypeOK, shared
  <2>4. CASE \E md \in born : CallDup(t, md)
    BY <2>1, <2>4 DEF CallDup, TypeOK, shared
  <2> QED
    BY <1>1, <2>2, <2>3, <2>4 DEF Call
<1>2. ASSUME NEW t \in Threads, BaseDup(t)
      PROVE  TypeOK'
  <2>1. Md(t) \in born /\ Md(t) \in Descriptors /\ Md(t).index \in Blocks
    BY <1>2 DEF BaseDup, Located, Locals, Descriptors, TypeOK
  <2>2. pc' \in [Threads -> Labels] /\ call' \in [Threads -> Calls]
    BY <1>2, CallTypes DEF BaseDup, Return, Goto, TypeOK
  <2>3. CASE UNCHANGED <<word, held>>
    BY <1>2, <2>2, <2>3 DEF BaseDup, TypeOK
  <2>4. CASE ~ UNCHANGED <<word, held>>
    <3>1. /\ SetRefs(Md(t).index, word[Md(t).index].refs + 1)
          /\ Hold(Md(t), 1) /\ word[Md(t).index].refs + 1 \in Nat
      BY <1>2, <2>1, <2>4 DEF BaseDup, TypeOK, SetRefs
    <3>2. word' \in [Blocks -> WordTypes]
      BY <2>1, <3>1, RefsWritten
    <3>3. UNCHANGED <<inHeap, link, head, used_count, free_count, born>>
      BY <1>2 DEF BaseDup
    <3>4. IsABag(held)' /\ BagToSet(held)' \subseteq born'
      BY <2>1, <3>1, <3>3, Holding DEF TypeOK
    <3> QED
      BY <2>2, <3>2, <3>3, <3>4 DEF TypeOK, WordTypes
  <2> QED
    BY <2>3, <2>4
<1>3. ASSUME NEW t \in Threads, BaseAllocate(t)
      PROVE  TypeOK'
  <2>1. CASE UNCHANGED <<word, inHeap, born, held>>
    BY <1>3, <2>1, CallTypes DEF BaseAllocate, Return, Goto, TypeOK
  <2>2. ASSUME NEW b \in inHeap, NEW version \in HeapVersions,
               LET md == [version |-> version, index |-> b]
               IN  /\ word' = [word EXCEPT ![b] =
                          [version |-> version, refs |-> 1, size |-> Class(t)]]
                   /\ inHeap' = inHeap \ {b}
                   /\ born' = born \cup {md}
                   /\ \/ Class(t) = Large /\ Return(t) /\ Hold(md, 1)
                      \/ /\ Class(t) # Large
                         /\ call' = [call EXCEPT ![t].md = md]
                         /\ Goto(t, "baseUsed") /\ UNCHANGED held
        PROVE  TypeOK'
    <3> DEFINE md == [version |-> version, index |-> b]
    <3>1. version \in 0 .. VersionMod - 1 /\ md \in Descriptors /\ Class(t) \in Classes \cup {Large}
      BY <1>3, HeapAssumption DEF BaseAllocate, Located, Locals, TypeOK, Descriptors
    <3>2. word' \in [Blocks -> [version : 0 .. VersionMod - 1, refs : Nat,
                                size : Classes \cup {Large, None}]]
      BY <2>2, <3>1 DEF TypeOK
    <3>3. pc' \in [Threads -> Labels] /\ call' \in [Threads -> Calls]
      BY <2>2, <3>1, CallTypes DEF Return, Goto, TypeOK
    <3>4. IsABag(held)' /\ BagToSet(held)' \subseteq born' /\ born' \subseteq Descriptors
      BY <2>2, <3>1, Holding DEF TypeOK
    <3> QED
      BY <1>3, <2>2, <3>2, <3>3, <3>4 DEF BaseAllocate, TypeOK
  <2> QED
    BY <1>3, <2>1, <2>2 DEF BaseAllocate
<1>4. ASSUME NEW t \in Threads, BaseUndup(t)
      PROVE  TypeOK'
  <2>1. Md(t).index \in Blocks /\ word[Md(t).index] \in [version : 0 .. VersionMod - 1, refs : Nat,
                                                  size : Classes \cup {Large, None}]
    BY <1>4 DEF BaseUndup, Located, Locals, Descriptors, TypeOK
  <2>2. /\ pc' \in [Threads -> Labels]
        /\ Return(t) \/ UNCHANGED call
              \/ \E x \in Classes \cup {Large, None} : call' = [call EXCEPT ![t].size = x]
    BY <1>4, <2>1 DEF BaseUndup, Return, Goto, TypeOK
  <2>3. word' \in [Blocks -> [version : 0 .. VersionMod - 1, refs : Nat,
                              size : Classes \cup {Large, None}]]
    BY <1>4, <2>1 DEF BaseUndup, TypeOK
  <2> QED
    BY <1>4, <2>2, <2>3, CallTypes DEF BaseUndup, TypeOK
<1>5. ASSUME NEW t \in Threads, PopHead(t) \/ PopLink(t) \/ PopCas(t)
      PROVE  TypeOK'
  <2>1. Class(t) \in Classes /\ (PopLink(t) => Top(t).index \in Blocks)
    BY <1>5 DEF PopHead, PopLink, PopCas, Located, Locals, Descriptors
  <2>2. pc' \in [Threads -> Labels] /\ call' \in [Threads -> Calls]
    BY <1>5, <2>1, CallTypes DEF PopHead, PopLink, PopCas, Goto, TypeOK
  <2>3. head' \in [Classes -> Descriptors \cup {END}]
    BY <1>5, <2>1, NextType DEF PopHead, PopLink, PopCas, TypeOK, shared
  <2> QED
    BY <1>5, <2>2, <2>3 DEF PopHead, PopLink, PopCas, TypeOK, shared
<1>6. ASSUME NEW t \in Threads, PopUsed(t) \/ PopFree(t) \/ FreedUsed(t) \/ PushUsed(t) \/ PushFree(t)
      PROVE  TypeOK'
  <2>1. Class(t) \in Classes
    BY <1>6 DEF PopUsed, PopFree, FreedUsed, PushUsed, PushFree, Located, Locals
  <2>2. pc' \in [Threads -> Labels] /\ call' \in [Threads -> Calls]
    BY <1>6, CallTypes DEF PopUsed, PopFree, FreedUsed, PushUsed, PushFree, Return, Goto, TypeOK
  <2>3. /\ used_count' \in [Classes -> 0 .. CounterMod - 1]
        /\ free_count' \in [Classes -> 0 .. CounterMod - 1]
    BY <1>6, <2>1, CountersType DEF PopUsed, PopFree, FreedUsed, PushUsed, PushFree, TypeOK
  <2> QED
    BY <1>6, <2>2, <2>3 DEF PopUsed, PopFree, FreedUsed, PushUsed, PushFree, TypeOK
<1>7. ASSUME NEW t \in Threads, Revive(t)
      PROVE  TypeOK'
  <2>1. Top(t).index \in Blocks
    BY <1>7 DEF Revive, Located, Locals, Descriptors
  <2> DEFINE b == Top(t).index
             md == [version |-> Bump(word[b].version), index |-> b]
  <2>2. md.version \in 0 .. VersionMod - 1 /\ md \in Descriptors
    BY <2>1, BumpMoves DEF TypeOK, Descriptors
  <2>3. pc' \in [Threads -> Labels] /\ call' \in [Threads -> Calls]
    BY <1>7, CallTypes DEF Revive, Return, Goto, TypeOK
  <2>4. CASE UNCHANGED <<word, held, born>>
    BY <1>7, <2>3, <2>4 DEF Revive, TypeOK
  <2>5. CASE /\ word' = [word EXCEPT ![b].version = md.version, ![b].refs = 1]
             /\ born' = born \cup {md} /\ Hold(md, 1)
    <3>1. word' \in [Blocks -> [version : 0 .. VersionMod - 1, refs : Nat,
                                size : Classes \cup {Large, None}]]
      <4>1. SetLife(b, md.version, 1)
        BY <2>5 DEF SetLife
      <4>2. b \in Blocks /\ md.version \in 0 .. VersionMod - 1
        BY <2>1, <2>2
      <4> HIDE DEF b, md
      <4>3. word' \in [Blocks -> WordTypes]
        BY <4>1, <4>2, LifeWritten
      <4> QED
        BY <4>3 DEF WordTypes
    <3>2. IsABag(held)' /\ BagToSet(held)' \subseteq born' /\ born' \subseteq Descriptors
      BY <2>2, <2>5, Holding DEF TypeOK
    <3> QED
      BY <1>7, <2>3, <3>1, <3>2 DEF Revive, TypeOK
  <2> QED
    BY <1>7, <2>4, <2>5 DEF Revive
<1>8. ASSUME NEW t \in Threads, BaseUsed(t)
      PROVE  TypeOK'
  <2>1. Class(t) \in Classes /\ Md(t) \in born /\ Md(t) \in Descriptors
    BY <1>8 DEF BaseUsed, Located, Locals, TypeOK
  <2>2. pc' \in [Threads -> Labels] /\ call' \in [Threads -> Calls]
    BY <1>8, CallTypes DEF BaseUsed, Return, Goto, TypeOK
  <2>3. used_count' \in [Classes -> 0 .. CounterMod - 1]
    BY <1>8, <2>1, CountersType DEF BaseUsed
  <2> QED
    BY <1>8, <2>1, <2>2, <2>3, Holding DEF BaseUsed, TypeOK
<1>9. ASSUME NEW t \in Threads, ReadUsed(t) \/ ReadFree(t) \/ PushHead(t)
      PROVE  TypeOK'
  <2>1. Class(t) \in Classes
    BY <1>9 DEF ReadUsed, ReadFree, PushHead, Located, Locals
  <2>2. pc' \in [Threads -> Labels] /\ call' \in [Threads -> Calls]
    BY <1>9, <2>1, CallTypes DEF ReadUsed, ReadFree, PushHead, Goto, TypeOK
  <2> QED
    BY <1>9, <2>2 DEF ReadUsed, ReadFree, PushHead, TypeOK, shared
<1>10. ASSUME NEW t \in Threads, LightRelease(t) \/ LightPublish(t) \/ PushLink(t) \/ PushCas(t)
      PROVE  TypeOK'
  <2>1. /\ Class(t) \in Classes /\ Md(t) \in Descriptors /\ Md(t).index \in Blocks
        /\ pc[t] = "pushLink" => Top(t) \in Descriptors \cup {END}
    BY <1>10 DEF LightRelease, LightPublish, PushLink, PushCas, Located, Locals, Descriptors, TypeOK, Calls
  <2>2. pc' \in [Threads -> Labels] /\ call' \in [Threads -> Calls]
    BY <1>10, <2>1, CallTypes DEF LightRelease, LightPublish, PushLink, PushCas, Goto, TypeOK
  <2>3. /\ word' \in [Blocks -> [version : 0 .. VersionMod - 1, refs : Nat,
                                 size : Classes \cup {Large, None}]]
        /\ inHeap' \subseteq Blocks
    BY <1>10, <2>1, BumpMoves DEF LightRelease, LightPublish, PushLink, PushCas, TypeOK, shared
  <2>4. link' \in [Blocks -> Descriptors \cup {END, Junk}] /\ head' \in [Classes -> Descriptors \cup {END}]
    BY <1>10, <2>1 DEF LightRelease, LightPublish, PushLink, PushCas, TypeOK, shared
  <2> QED
    BY <1>10, <2>2, <2>3, <2>4 DEF LightRelease, LightPublish, PushLink, PushCas, TypeOK, shared
<1>11. ASSUME NEW b \in Blocks, Write(b)
      PROVE  TypeOK'
    BY <1>11 DEF Write, TypeOK
<1>12. CASE UNCHANGED vars
    BY <1>12 DEF vars, TypeOK
<1> QED
    BY <1>1, <1>2, <1>3, <1>4, <1>5, <1>6, <1>7, <1>8, <1>9, <1>10, <1>11, <1>12 DEF Kept, Step

-----------------------------------------------------------------------------
(* What a call knows *)

LEMMA OwedFinite ==
    ASSUME TypeOK, NEW md
    PROVE  /\ IsFiniteSet(Owed(md)) /\ Cardinality(Owed(md)) \in Nat
           /\ Owed(md) # {} => Cardinality(Owed(md)) > 0
<1>1. IsFiniteSet(Owed(md))
    BY FiniteAssumption, FS_Subset DEF Owed
<1> QED
    BY <1>1, FS_CardinalityType, FS_EmptySet

\* A reference keeps its block out of the heap, whoever has it.
LEMMA Alive ==
    ASSUME TypeOK, Counted, NEW md \in Descriptors, Matches(md),
           md \in BagToSet(held) \/ Owed(md) # {}
    PROVE  /\ md.index \in Blocks \ inHeap /\ word[md.index].refs > 0
           /\ word[md.index].size \in Classes \cup {Large}
<1> DEFINE b == md.index
<1>1. b \in Blocks /\ md = Descriptor(b)
    BY MatchesIs
<1>2. word[b].refs = Copies(md) + Cardinality(Owed(md))
    BY <1>1 DEF Counted
<1>3. Copies(md) \in Nat /\ Cardinality(Owed(md)) \in Nat
    BY CopiesType, OwedFinite
<1>4. Copies(md) > 0 \/ Cardinality(Owed(md)) > 0
    BY CopiesType, OwedFinite
<1>5. word[b].refs > 0
    BY <1>2, <1>3, <1>4
<1>6. b \notin inHeap /\ word[b].size \in Classes \cup {Large}
    BY <1>1, <1>5 DEF Counted
<1> QED
    BY <1>1, <1>5, <1>6 DEF TypeOK

LEMMA OwedAlive ==
    ASSUME TypeOK, Located, Counted, NEW t \in Threads, pc[t] \in Owing
    PROVE  /\ Md(t) \in Descriptors /\ Matches(Md(t)) /\ t \in Owed(Md(t))
           /\ Md(t).index \in Blocks \ inHeap /\ word[Md(t).index].refs > 0
           /\ word[Md(t).index].size \in Classes \cup {Large}
<1>1. Md(t) \in Descriptors /\ Matches(Md(t)) /\ t \in Owed(Md(t))
    BY DEF Located, Locals, Counted, Owed, TypeOK
<1> QED
    BY <1>1, Alive

\* The asserts of dupNew and lightRelease find what they look for.
LEMMA HandFound ==
    ASSUME TypeOK, Hands, NEW t \in Threads, NEW md \in InHand(t)
    PROVE  /\ Matches(md) /\ md.index \in Blocks \ inHeap /\ word[md.index].refs = 0
           /\ word[md.index].size = Class(t)
BY DEF Hands, Dead

LEMMA BornStays ==
    ASSUME [Kept]_vars
    PROVE  born \subseteq born'
<1>1. ASSUME NEW t \in Threads, Call(t)
      PROVE  born \subseteq born'
    BY <1>1 DEF Call, CallAllocate, CallRelease, CallDup
<1>2. ASSUME NEW t \in Threads, Step(t)
      PROVE  born \subseteq born'
    BY <1>2 DEF Step, BaseDup, BaseAllocate, BaseUndup, BaseUsed, PopHead, PopLink, PopCas,
       PopUsed, PopFree, Revive, ReadUsed, ReadFree, LightRelease, LightPublish, FreedUsed, PushHead, PushLink,
       PushCas, PushUsed, PushFree
<1> QED
    BY <1>1, <1>2 DEF Kept, Write, vars

LEMMA LocatedStays ==
    ASSUME TypeOK, Located, Counted, Hands, [Kept]_vars
    PROVE  Located'
<1> USE DEF Popping, Popped, Leaving, Owing
<1>1. ASSUME NEW t \in Threads, Call(t) \/ Step(t), Locals(t)'
      PROVE  Located'
    BY <1>1, Alone, BornStays DEF Located, Locals
<1>2. ASSUME NEW t \in Threads, Call(t)
      PROVE  Locals(t)'
  <2>1. CASE \E size \in Sizes : CallAllocate(t, size)
    BY <2>1, SizesAssumption DEF CallAllocate, Begin, Goto, NoCall, Locals, TypeOK
  <2>2. CASE \E md \in BagToSet(held) : CallRelease(t, md)
    BY <2>2 DEF CallRelease, Begin, Goto, NoCall, Locals, TypeOK, shared
  <2>3. CASE \E md \in born : CallDup(t, md)
    BY <2>3 DEF CallDup, Begin, Goto, NoCall, Locals, TypeOK, shared
  <2> QED
    BY <1>2, <2>1, <2>2, <2>3 DEF Call
<1>3. ASSUME NEW t \in Threads, Step(t)
      PROVE  Locals(t)'
  <2> USE DEF Locals, Goto
  <2>1. Locals(t) /\ call[t] \in Calls
    BY DEF Located, TypeOK
  <2>2. CASE BaseDup(t)
    BY <2>2, <2>1 DEF BaseDup, Return, TypeOK
  <2>3. CASE BaseAllocate(t)
    <3>1. CASE Return(t)
      BY <3>1 DEF Return, TypeOK
    <3>2. CASE ~ Return(t)
      <4>1. PICK b \in inHeap, version \in HeapVersions :
                               /\ Class(t) # Large
                               /\ call' = [call EXCEPT ![t].md = [version |-> version, index |-> b]]
                               /\ born' = born \cup {[version |-> version, index |-> b]}
                               /\ Goto(t, "baseUsed")
        BY <2>3, <3>2 DEF BaseAllocate
      <4>2. /\ pc'[t] = "baseUsed" /\ Class(t)' = Class(t) /\ Md(t)' \in born'
        BY <4>1, <2>1 DEF TypeOK, Calls
      <4> QED
        BY <4>1, <4>2, <2>1, <2>3 DEF BaseAllocate
    <3> QED
      BY <3>1, <3>2
  <2>4. CASE BaseUndup(t)
    <3>1. /\ Matches(Md(t)) /\ word[Md(t).index].size \in Classes \cup {Large}
          /\ pc[t] = "undup" /\ UNCHANGED born
      BY <2>4, OwedAlive DEF BaseUndup, Owing
    <3>2. CASE Return(t)
      BY <3>2 DEF Return, TypeOK
    <3>3. CASE ~ Return(t)
      <4>1. /\ call' = [call EXCEPT ![t].size = word[Md(t).index].size]
            /\ Goto(t, IF word[Md(t).index].size = Large THEN "abort" ELSE "readUsed")
        BY <2>4, <3>1, <3>3 DEF BaseUndup
      <4>2. /\ call'[t].size = word[Md(t).index].size /\ call'[t].md = Md(t)
            /\ call'[t].op = call[t].op
        BY <4>1, <2>1 DEF TypeOK, Calls
      <4>3. IF word[Md(t).index].size = Large THEN pc'[t] = "abort" ELSE pc'[t] = "readUsed"
        BY <4>1 DEF TypeOK
      <4>4. Md(t) \in born /\ call[t].op = "release"
        BY <2>1, <3>1
      <4> QED
        BY <3>1, <4>2, <4>3, <4>4
    <3> QED
      BY <3>2, <3>3
  <2>5. CASE PopHead(t) \/ PopLink(t) \/ PopCas(t)
    BY <2>5, <2>1 DEF PopHead, PopLink, PopCas, TypeOK, Calls
  <2>6. CASE PopUsed(t) \/ PopFree(t) \/ FreedUsed(t) \/ PushUsed(t) \/ PushFree(t)
    BY <2>6, <2>1 DEF PopUsed, PopFree, FreedUsed, PushUsed, PushFree, Return, TypeOK
  <2>7. CASE Revive(t) \/ BaseUsed(t)
    <3>1. Return(t)
      BY <2>7, HandFound DEF Revive, BaseUsed, InHand
    <3> QED
      BY <3>1 DEF Return, TypeOK
  <2>8. CASE ReadUsed(t) \/ ReadFree(t)
    <3>1. CASE ReadUsed(t)
      BY <3>1, <2>1 DEF ReadUsed, TypeOK, Calls
    <3>2. CASE ReadFree(t)
      <4>1. /\ pc[t] = "readFree" /\ pc'[t] \in {"lightRelease", "pushHead"}
            /\ UNCHANGED born
        BY <3>2 DEF ReadFree, TypeOK
      <4>2. call'[t].size = Class(t) /\ call'[t].md = Md(t) /\ call'[t].op = call[t].op
        BY <3>2, <2>1 DEF ReadFree, TypeOK, Calls
      <4>3. Class(t) \in Classes /\ Md(t) \in born /\ call[t].op = "release"
        BY <2>1, <4>1
      <4> QED
        BY <4>1, <4>2, <4>3
    <3> QED
      BY <2>8, <3>1, <3>2
  <2>9. CASE LightRelease(t) \/ LightPublish(t)
    <3>1. /\ Goto(t, "freedUsed") \/ Goto(t, "pushHead") \/ Goto(t, "lightPublish")
          /\ UNCHANGED call
      BY <2>9, HandFound DEF LightRelease, LightPublish, InHand
    <3> QED
      BY <2>9, <3>1, <2>1 DEF LightRelease, LightPublish, TypeOK
  <2>10. CASE PushHead(t) \/ PushLink(t) \/ PushCas(t)
    BY <2>10, <2>1 DEF PushHead, PushLink, PushCas, TypeOK, Calls
  <2> QED
    BY <1>3, <2>2, <2>3, <2>4, <2>5, <2>6, <2>7, <2>8, <2>9, <2>10 DEF Step
<1>4. CASE UNCHANGED vars \/ \E b \in Blocks : Write(b)
    BY <1>4 DEF vars, Write, Located, Locals
<1> QED
    BY <1>1, <1>2, <1>3, <1>4 DEF Kept

-----------------------------------------------------------------------------
(* References *)

\* Of a dead block there is no reference, under whatever version.
LEMMA NoneLeft ==
    ASSUME TypeOK, Counted, NEW md \in Descriptors, word[md.index].refs = 0
    PROVE  Copies(md) = 0 /\ md \notin BagToSet(held) /\ Owed(md) = {}
<1>1. md \notin BagToSet(held)
    BY Alive DEF Counted
<1>2. Owed(md) = {}
    BY Alive DEF Counted, Owed
<1> QED
    BY <1>1, <1>2 DEF Copies, BagIn

LEMMA OwedStays ==
    ASSUME NEW t \in Threads, \A u \in Threads \ {t} : pc'[u] = pc[u] /\ call'[u] = call[u],
           pc'[t] \in Owing <=> pc[t] \in Owing, pc'[t] \in Owing => Md(t)' = Md(t)
    PROVE  \A md : Owed(md)' = Owed(md)
BY DEF Owed

LEMMA OwedGains ==
    ASSUME TypeOK, NEW t \in Threads, \A u \in Threads \ {t} : pc'[u] = pc[u] /\ call'[u] = call[u],
           pc'[t] \in Owing, pc[t] \notin Owing
    PROVE  \A md : /\ Owed(md)' = IF md = Md(t)' THEN Owed(md) \cup {t} ELSE Owed(md)
                   /\ Cardinality(Owed(md))' = Cardinality(Owed(md)) + IF md = Md(t)' THEN 1 ELSE 0
<1> TAKE md
<1>1. Owed(md)' = (IF md = Md(t)' THEN Owed(md) \cup {t} ELSE Owed(md)) /\ t \notin Owed(md)
    BY DEF Owed
<1>2. Cardinality(Owed(md) \cup {t}) = Cardinality(Owed(md)) + 1
    BY <1>1, OwedFinite, FS_AddElement
<1> QED
    BY <1>1, <1>2, OwedFinite

LEMMA OwedLoses ==
    ASSUME TypeOK, NEW t \in Threads, \A u \in Threads \ {t} : pc'[u] = pc[u] /\ call'[u] = call[u],
           pc'[t] \notin Owing, pc[t] \in Owing
    PROVE  \A md : /\ Owed(md)' = IF md = Md(t) THEN Owed(md) \ {t} ELSE Owed(md)
                   /\ Cardinality(Owed(md))' = Cardinality(Owed(md)) - IF md = Md(t) THEN 1 ELSE 0
<1> TAKE md
<1>1. Owed(md)' = (IF md = Md(t) THEN Owed(md) \ {t} ELSE Owed(md)) /\ (md = Md(t) => t \in Owed(md))
    BY DEF Owed
<1>2. md = Md(t) => Cardinality(Owed(md) \ {t}) = Cardinality(Owed(md)) - 1
    BY <1>1, OwedFinite, FS_RemoveElement
<1> QED
    BY <1>1, <1>2, OwedFinite

LEMMA CountedStays ==
    ASSUME TypeOK, Located, Counted, Hands, [Kept]_vars
    PROVE  Counted'
<1> DEFINE Count(b) == word[b].refs = Copies(Descriptor(b)) + Cardinality(Owed(Descriptor(b)))
           Rest(t) == \A u \in Threads \ {t} : pc'[u] = pc[u] /\ call'[u] = call[u]
<1>a. \A b \in Blocks : /\ Descriptor(b) \in Descriptors /\ Copies(Descriptor(b)) \in Nat
                        /\ Cardinality(Owed(Descriptor(b))) \in Nat /\ word[b].refs \in Nat
    BY DescriptorType, CopiesType, OwedFinite DEF TypeOK
<1>b. \A u \in Threads : pc[u] \in Owing => Md(u) \in Descriptors /\ Matches(Md(u))
    BY OwedAlive
<1>1. ASSUME UNCHANGED <<word, inHeap, held>>, \A md : Owed(md)' = Owed(md),
             \A u \in Threads : pc'[u] \in Owing => pc[u] \in Owing /\ Md(u)' = Md(u)
      PROVE  Counted'
  <2>1. \A b \in Blocks : Descriptor(b)' = Descriptor(b) /\ Copies(Descriptor(b))' = Copies(Descriptor(b))
    BY <1>1 DEF Descriptor, Copies, BagIn, BagToSet
  <2>2. \A b \in Blocks : Cardinality(Owed(Descriptor(b)))' = Cardinality(Owed(Descriptor(b)))
    BY <1>1, <2>1
  <2> QED
    BY <1>1, <2>1, <2>2 DEF Counted, Matches
<1>2. ASSUME NEW t \in Threads, NEW md \in BagToSet(held), CallRelease(t, md)
      PROVE  Counted'
  <2>1. Rest(t) /\ md \in Descriptors /\ Matches(md)
    BY <1>2, Alone DEF Call, Counted, TypeOK
  <2>2. pc[t] = "idle" /\ pc'[t] = "undup" /\ Md(t)' = md /\ UNCHANGED <<word, inHeap>>
    BY <1>2 DEF CallRelease, Begin, Goto, NoCall, TypeOK, shared
  <2>3. \A d : Cardinality(Owed(d))' = Cardinality(Owed(d)) + IF d = md THEN 1 ELSE 0
    BY <2>1, <2>2, OwedGains DEF Owing
  <2>4. /\ BagToSet(held)' \subseteq BagToSet(held)
        /\ \A d : Copies(d)' = IF d = md THEN Copies(d) - 1 ELSE Copies(d)
    BY <1>2, Dropping DEF CallRelease
  <2>5. \A b \in Blocks : Descriptor(b)' = Descriptor(b)
    BY <2>2 DEF Descriptor
  <2>6. ASSUME NEW b \in Blocks
        PROVE  Count(b)'
    <3>1. /\ Copies(Descriptor(b))' = IF Descriptor(b) = md THEN Copies(Descriptor(b)) - 1
                                                        ELSE Copies(Descriptor(b))
          /\ Cardinality(Owed(Descriptor(b)))'
                 = Cardinality(Owed(Descriptor(b))) + IF Descriptor(b) = md THEN 1 ELSE 0
      BY <2>3, <2>4, <2>5
    <3> QED
      BY <1>a, <2>2, <3>1 DEF Counted
  <2> QED
    BY <2>1, <2>2, <2>4, <2>6 DEF Counted, Matches
<1>3. ASSUME NEW t \in Threads, BaseDup(t)
      PROVE  Counted'
  <2> DEFINE md == Md(t)
  <2>1. /\ Rest(t) /\ md \in Descriptors /\ md.index \in Blocks
        /\ pc[t] = "dup" /\ pc'[t] = "idle" /\ UNCHANGED inHeap
    BY <1>3, Alone DEF Step, BaseDup, Return, Goto, Located, Locals, TypeOK, Descriptors
  <2>2. \A d : Owed(d)' = Owed(d)
    BY <2>1, OwedStays DEF Owing
  <2>3. CASE UNCHANGED <<word, held>>
    BY <1>1, <2>1, <2>2, <2>3 DEF Owing
  <2>4. CASE ~ UNCHANGED <<word, held>>
    <3>1. /\ Matches(md) /\ word[md.index].refs > 0 /\ Hold(md, 1)
          /\ word' = [word EXCEPT ![md.index].refs = @ + 1]
      BY <1>3, <2>4 DEF BaseDup
    <3>2. /\ BagToSet(held)' = BagToSet(held) \cup {md}
          /\ \A d : Copies(d)' = IF d = md THEN Copies(d) + 1 ELSE Copies(d)
      BY <2>1, <3>1, Holding
    <3>3. \A b \in Blocks : /\ Descriptor(b)' = Descriptor(b) /\ word'[b].size = word[b].size
                            /\ word'[b].version = word[b].version
                            /\ word'[b].refs = word[b].refs + IF b = md.index THEN 1 ELSE 0
      BY <2>1, <3>1 DEF Descriptor, TypeOK
    <3>4. \A b \in Blocks : Descriptor(b) = md <=> b = md.index
      BY <2>1, <3>1, MatchesIs, DescriptorType
    <3>5. ASSUME NEW b \in Blocks
          PROVE  Count(b)'
      <4>1. /\ Copies(Descriptor(b))' = Copies(Descriptor(b)) + IF b = md.index THEN 1 ELSE 0
            /\ Cardinality(Owed(Descriptor(b)))' = Cardinality(Owed(Descriptor(b)))
        BY <1>a, <2>2, <3>2, <3>3, <3>4
      <4> QED
        BY <1>a, <3>3, <4>1 DEF Counted
    <3>6. \A d \in Descriptors : Matches(d)' <=> Matches(d)
      BY <3>3 DEF Matches, Descriptors
    <3>7. md.index \notin inHeap
      BY <2>1, <3>1 DEF Counted
    <3> QED
      BY <2>1, <3>1, <3>2, <3>3, <3>5, <3>6, <3>7, <1>b DEF Counted, TypeOK, Owing
  <2> QED
    BY <2>3, <2>4
\* A block b without references gets a version, and the number n of
\* references, all of them to its new life.
<1>4. ASSUME NEW t \in Threads, NEW b \in Blocks, word[b].refs = 0, Rest(t), NEW n \in {0, 1},
             NEW md, md = Descriptor(b)',
             \A x \in Blocks \ {b} : word'[x] = word[x],
             word'[b].refs = n, word'[b].version \in 0 .. VersionMod - 1,
             IF b \in inHeap' THEN n = 0 ELSE word'[b].size \in Classes \cup {Large},
             \A x \in Blocks \ {b} : x \in inHeap' <=> x \in inHeap,
             pc[t] \notin Owing,
             \/ n = 0 /\ pc'[t] \notin Owing /\ UNCHANGED held
             \/ n = 1 /\ pc'[t] \notin Owing /\ Hold(md, 1)
             \/ n = 1 /\ pc'[t] \in Owing /\ UNCHANGED held /\ Md(t)' = md
      PROVE  Counted'
  <2>1. md \in Descriptors /\ md.index = b /\ Matches(md)'
    BY <1>4 DEF Descriptor, Descriptors, Matches
  <2>2. \A d \in Descriptors : d.index = b => Copies(d) = 0 /\ d \notin BagToSet(held) /\ Owed(d) = {}
    BY <1>4, NoneLeft
  <2>3. \A x \in Blocks \ {b} : Descriptor(x)' = Descriptor(x) /\ Descriptor(x) # md
    BY <1>4, <2>1, DescriptorType DEF Descriptor
  <2>4. \A d \in Descriptors : d.index # b => (Matches(d)' <=> Matches(d))
    BY <1>4 DEF Matches, Descriptors
  <2>5. /\ BagToSet(held)' \subseteq BagToSet(held) \cup {md}
        /\ n = 0 => BagToSet(held)' \subseteq BagToSet(held)
        /\ \A d : Copies(d)' = IF d = md /\ n = 1 /\ pc'[t] \notin Owing THEN Copies(d) + 1 ELSE Copies(d)
    <3>1. CASE UNCHANGED held /\ (n = 0 \/ pc'[t] \in Owing)
      BY <3>1 DEF Copies, BagIn, BagToSet
    <3>2. CASE n = 1 /\ pc'[t] \notin Owing /\ Hold(md, 1)
      BY <2>1, <3>2, Holding
    <3> QED
      BY <1>4, <3>1, <3>2
  <2>6. /\ \A d : d # md \/ pc'[t] \notin Owing => Owed(d)' = Owed(d)
        /\ pc'[t] \in Owing => Owed(md)' = {t} /\ Cardinality(Owed(md)') = 1
    <3>1. CASE pc'[t] \notin Owing
      BY <1>4, <3>1, OwedStays
    <3>2. CASE pc'[t] \in Owing
      <4>1. \A d : Owed(d)' = IF d = md THEN Owed(d) \cup {t} ELSE Owed(d)
        BY <1>4, <3>2, OwedGains
      <4>2. Owed(md)' = {t}
        BY <2>1, <2>2, <4>1
      <4> QED
        BY <3>2, <4>1, <4>2, FS_Singleton
    <3> QED
      BY <3>1, <3>2
  <2>7. Count(b)'
    <3>1. /\ Copies(md) = 0 /\ Cardinality(Owed(md)) = 0
          /\ Copies(Descriptor(b))' = Copies(md)' /\ Owed(Descriptor(b))' = Owed(md)'
      BY <1>4, <2>1, <2>2, FS_EmptySet
    <3>2. Copies(md)' = IF n = 1 /\ pc'[t] \notin Owing THEN 1 ELSE 0
      BY <2>5, <3>1
    <3>3. Cardinality(Owed(md)') = IF pc'[t] \in Owing THEN 1 ELSE 0
      BY <2>6, <3>1
    <3> QED
      BY <1>4, <3>1, <3>2, <3>3
  <2>8. ASSUME NEW x \in Blocks \ {b}
        PROVE  Count(x)'
    <3>1. Copies(Descriptor(x))' = Copies(Descriptor(x))
      BY <2>3, <2>5
    <3>2. Cardinality(Owed(Descriptor(x)))' = Cardinality(Owed(Descriptor(x)))
      BY <2>3, <2>6
    <3> QED
      BY <1>4, <3>1, <3>2 DEF Counted
  <2>9. \A d \in BagToSet(held)' : Matches(d)'
    BY <2>1, <2>2, <2>4, <2>5 DEF Counted, TypeOK
  <2>10. \A u \in Threads : pc'[u] \in Owing => Matches(Md(u))'
    <3>1. ASSUME NEW u \in Threads \ {t}, pc'[u] \in Owing
          PROVE  Matches(Md(u))'
      <4>1. Md(u) \in Descriptors /\ Matches(Md(u)) /\ u \in Owed(Md(u)) /\ Md(u)' = Md(u)
        BY <1>4, <3>1, OwedAlive
      <4>2. Md(u).index # b
        BY <4>1, <2>2
      <4> QED
        BY <4>1, <4>2, <2>4 DEF Matches
    <3>2. pc'[t] \in Owing => Matches(Md(t))'
      BY <1>4, <2>1 DEF Matches
    <3> QED
      BY <3>1, <3>2
  <2> QED
    BY <1>4, <2>7, <2>8, <2>9, <2>10 DEF Counted
<1>5. ASSUME NEW t \in Threads, BaseAllocate(t)
      PROVE  Counted'
  <2>1. /\ Rest(t) /\ pc[t] = "base" /\ Class(t) \in Classes \cup {Large}
    BY <1>5, Alone DEF Step, BaseAllocate, Located, Locals
  <2>2. CASE Return(t) /\ UNCHANGED <<word, inHeap, born, held>>
    <3>1. pc'[t] = "idle"
      BY <2>2 DEF Return, Goto, TypeOK
    <3>2. \A md : Owed(md)' = Owed(md)
      BY <2>1, <3>1, OwedStays DEF Owing
    <3> QED
      BY <1>1, <2>1, <2>2, <3>1, <3>2 DEF Owing
  <2>3. ASSUME NEW b \in inHeap, NEW version \in HeapVersions, NEW md,
               md = [version |-> version, index |-> b],
               word' = [word EXCEPT ![b] = [version |-> md.version, refs |-> 1, size |-> Class(t)]],
               inHeap' = inHeap \ {b},
               \/ Class(t) = Large /\ Return(t) /\ Hold(md, 1)
               \/ /\ call' = [call EXCEPT ![t].md = md]
                  /\ Goto(t, "baseUsed") /\ UNCHANGED held
        PROVE  Counted'
    <3>1. b \in Blocks /\ word[b].refs = 0 /\ version \in 0 .. VersionMod - 1
      BY HeapAssumption DEF Counted, TypeOK
    <3>2. word'[b].refs = 1 /\ word'[b].size = Class(t)
      BY <2>3, <3>1 DEF TypeOK
    <3>3. md = Descriptor(b)'
      BY <2>3, <3>1 DEF Descriptor, TypeOK
    <3>4. \/ pc'[t] \notin Owing /\ Hold(md, 1)
          \/ pc'[t] \in Owing /\ UNCHANGED held /\ Md(t)' = md
      BY <2>3 DEF Return, Goto, TypeOK, Calls, Owing
    <3>5. /\ \A x \in Blocks \ {b} : word'[x] = word[x] /\ (x \in inHeap' <=> x \in inHeap)
          /\ b \notin inHeap' /\ word'[b].version \in 0 .. VersionMod - 1 /\ pc[t] \notin Owing
      BY <2>1, <2>3, <3>1, <3>3 DEF TypeOK, Owing
    <3> QED
      BY <1>4, <2>1, <3>1, <3>2, <3>3, <3>4, <3>5
  <2>4. CASE \E b \in inHeap, version \in HeapVersions : \E md :
               /\ md = [version |-> version, index |-> b]
               /\ word' = [word EXCEPT ![b] = [version |-> md.version, refs |-> 1, size |-> Class(t)]]
               /\ inHeap' = inHeap \ {b}
               /\ \/ Class(t) = Large /\ Return(t) /\ Hold(md, 1)
                  \/ /\ call' = [call EXCEPT ![t].md = md]
                     /\ Goto(t, "baseUsed") /\ UNCHANGED held
    BY <2>3, <2>4
  <2> QED
    BY <1>5, <2>2, <2>4 DEF BaseAllocate
<1>6. ASSUME NEW t \in Threads, BaseUndup(t)
      PROVE  Counted'
  <2> DEFINE md == Md(t)
  <2>1. /\ Rest(t) /\ pc[t] = "undup" /\ pc[t] \in Owing
    BY <1>6, Alone DEF Step, BaseUndup, Owing
  <2>2. /\ md \in Descriptors /\ md.index \in Blocks \ inHeap /\ Matches(md)
        /\ word[md.index].refs > 0 /\ word[md.index].size \in Classes \cup {Large}
    BY <2>1, OwedAlive
  <2>3. /\ pc'[t] \notin Owing /\ UNCHANGED <<inHeap, held>>
        /\ word' = [word EXCEPT ![md.index].refs = word[md.index].refs - 1]
    <3>1. pc'[t] \in {"idle", "abort", "readUsed"} /\ UNCHANGED <<inHeap, held>>
      BY <1>6 DEF BaseUndup, Return, Goto, TypeOK
    <3>2. word[md.index].refs \in Nat
      BY <2>2 DEF TypeOK
    <3> DEFINE n == word[md.index].refs
    <3>3. CASE n > 1
      <4>1. Matches(Md(t)) /\ ~ (word[Md(t).index].refs <= 1)
        BY <2>2, <3>2, <3>3
      <4>2. word' = [word EXCEPT ![Md(t).index].refs = word[Md(t).index].refs - 1]
        BY <1>6, <4>1, Zenon DEF BaseUndup
      <4> QED
        BY <3>1, <4>2, Zenon DEF Owing
    <3>4. CASE n = 1
      <4>1. Matches(Md(t)) /\ ~ (word[Md(t).index].refs > 1)
        BY <2>2, <3>4
      <4>2. word' = [word EXCEPT ![md.index].refs = 0]
        BY <1>6, <4>1, Zenon DEF BaseUndup
      <4>3. word[md.index].refs - 1 = 0
        BY <3>4
      <4>4. SetRefs(md.index, 0)
        BY <4>2, Zenon DEF SetRefs
      <4>5. SetRefs(md.index, word[md.index].refs - 1)
        BY <4>3, <4>4, Zenon
      <4> QED
        BY <3>1, <4>5, Zenon DEF SetRefs, Owing
    <3> QED
      BY <2>2, <3>1, <3>2, <3>3, <3>4 DEF Owing
  <2>4. \A d : Cardinality(Owed(d))' = Cardinality(Owed(d)) - IF d = md THEN 1 ELSE 0
    BY <2>1, <2>3, OwedLoses
  <2>5. \A b \in Blocks : /\ Descriptor(b)' = Descriptor(b) /\ word'[b].size = word[b].size
                          /\ word'[b].version = word[b].version
                          /\ word'[b].refs = word[b].refs - IF b = md.index THEN 1 ELSE 0
    BY <2>2, <2>3 DEF Descriptor, TypeOK
  <2>6. \A b \in Blocks : Descriptor(b) = md <=> b = md.index
    BY <2>2, MatchesIs, DescriptorType
  <2>7. ASSUME NEW b \in Blocks
        PROVE  Count(b)'
    <3>1. /\ Copies(Descriptor(b))' = Copies(Descriptor(b))
          /\ Cardinality(Owed(Descriptor(b)))'
                = Cardinality(Owed(Descriptor(b))) - IF b = md.index THEN 1 ELSE 0
      BY <2>3, <2>4, <2>5, <2>6 DEF Copies, BagIn, BagToSet
    <3> QED
      BY <1>a, <2>5, <3>1 DEF Counted
  <2>8. \A d \in Descriptors : Matches(d)' <=> Matches(d)
    BY <2>5 DEF Matches, Descriptors
  <2>9. \A u \in Threads : pc'[u] \in Owing => pc[u] \in Owing /\ Md(u)' = Md(u)
    BY <2>1, <2>3
  <2> QED
    BY <1>b, <2>2, <2>3, <2>5, <2>7, <2>8, <2>9 DEF Counted, TypeOK
<1>7. ASSUME NEW t \in Threads, Revive(t)
      PROVE  Counted'
  <2>0. PICK b : b = Top(t).index
    OBVIOUS
  <2>1. Rest(t) /\ pc[t] = "revive" /\ Top(t) \in InHand(t) /\ UNCHANGED inHeap
    BY <1>7, Alone DEF Step, Revive, InHand, Popped
  <2>2. /\ Matches(Top(t)) /\ b \in Blocks \ inHeap /\ word[b].refs = 0 /\ Class(t) \in Classes
        /\ word[b].size = Class(t) /\ Bump(word[b].version) \in 0 .. VersionMod - 1
    BY <2>0, <2>1, HandFound, BumpMoves DEF Located, Locals, TypeOK
  <2>3. PICK md : md = [version |-> Bump(word[b].version), index |-> b]
    OBVIOUS
  <2>4. /\ word' = [word EXCEPT ![b].version = md.version, ![b].refs = 1]
        /\ Hold(md, 1) /\ pc'[t] = "idle"
    BY <1>7, <2>0, <2>2, <2>3 DEF Revive, Return, Goto, TypeOK
  <2>5. /\ md = Descriptor(b)' /\ word'[b].refs = 1 /\ word'[b].size = word[b].size
        /\ word'[b].version # word[b].version /\ word'[b].version \in 0 .. VersionMod - 1
        /\ \A x \in Blocks \ {b} : word'[x] = word[x]
    <3>1. /\ word[b] \in [version : 0 .. VersionMod - 1, refs : Nat, size : Classes \cup {Large, None}]
          /\ word'[b] = [word[b] EXCEPT !.version = md.version, !.refs = 1]
          /\ \A x \in Blocks \ {b} : word'[x] = word[x]
      BY <2>2, <2>4 DEF TypeOK
    <3>2. word'[b].version = md.version /\ word'[b].refs = 1 /\ word'[b].size = word[b].size
      BY <3>1
    <3> QED
      <4>1. md.version = Bump(word[b].version) /\ Bump(word[b].version) # word[b].version
        BY <2>3, <3>1, BumpMoves
      <4>2. Descriptor(b)' = [version |-> word'[b].version, index |-> b]
        BY DEF Descriptor
      <4> QED
        BY <2>2, <2>3, <3>1, <3>2, <4>1, <4>2
  <2>6. pc[t] \notin Owing /\ pc'[t] \notin Owing
    BY <2>1, <2>4 DEF Owing
  <2> QED
    <3>1. /\ \A x \in Blocks \ {b} : x \in inHeap' <=> x \in inHeap
          /\ IF b \in inHeap' THEN 1 = 0 ELSE word'[b].size \in Classes \cup {Large}
      BY <2>1, <2>2, <2>5
    <3>2. /\ b \in Blocks /\ word[b].refs = 0 /\ Rest(t) /\ md = Descriptor(b)'
          /\ \A x \in Blocks \ {b} : word'[x] = word[x]
          /\ word'[b].version # word[b].version /\ word'[b].refs = 1
          /\ word'[b].version \in 0 .. VersionMod - 1
          /\ pc[t] \notin Owing /\ pc'[t] \notin Owing /\ Hold(md, 1)
      BY <2>1, <2>2, <2>4, <2>5, <2>6
    <3> QED
      BY <1>4, <3>1, <3>2
<1>8. ASSUME NEW t \in Threads, LightRelease(t) \/ LightPublish(t)
      PROVE  Counted'
  <2> DEFINE b == Md(t).index
  <2>1. /\ Rest(t) /\ pc[t] \in {"lightRelease", "lightPublish"}
        /\ Md(t) \in InHand(t) /\ UNCHANGED <<held, call>>
    BY <1>8, Alone DEF Step, LightRelease, LightPublish, InHand, Popped, Leaving
  <2>2. /\ Matches(Md(t)) /\ b \in Blocks \ inHeap /\ word[b].refs = 0
        /\ Bump(word[b].version) \in 0 .. VersionMod - 1
    BY <2>1, HandFound, BumpMoves DEF TypeOK
  <2>3. pc'[t] \in {"freedUsed", "pushHead", "lightPublish"}
    BY <1>8, <2>2 DEF LightRelease, LightPublish, Goto, TypeOK
  <2>4. pc[t] \notin Owing /\ pc'[t] \notin Owing
    BY <2>1, <2>3 DEF Owing
  <2>5. CASE UNCHANGED <<word, inHeap>>
    <3>1. \A md : Owed(md)' = Owed(md)
      BY <2>1, <2>4, OwedStays
    <3> QED
      BY <1>1, <2>1, <2>4, <2>5, <3>1
  <2>6. CASE word' = [word EXCEPT ![b].version = Bump(@)] /\ inHeap' = inHeap \cup {b}
    <3>1. /\ word'[b].refs = 0 /\ word'[b].version \in 0 .. VersionMod - 1
          /\ \A x \in Blocks \ {b} : word'[x] = word[x]
      BY <2>2, <2>6 DEF TypeOK
    <3> QED
      BY <1>4, <2>1, <2>2, <2>4, <2>6, <3>1
  <2> QED
    BY <1>8, <2>2, <2>5, <2>6 DEF LightRelease, LightPublish, shared
<1>9. ASSUME NEW t \in Threads, BaseUsed(t)
      PROVE  Counted'
  <2> DEFINE md == Md(t)
  <2>1. /\ Rest(t) /\ pc[t] \in Owing /\ pc'[t] \notin Owing /\ UNCHANGED <<word, inHeap>>
        /\ Hold(md, 1)
    BY <1>9, Alone DEF Step, BaseUsed, Return, Goto, Owing, TypeOK
  <2>2. md \in Descriptors /\ Matches(md)
    BY <2>1, OwedAlive
  <2>3. /\ BagToSet(held)' = BagToSet(held) \cup {md}
        /\ \A d : Copies(d)' = IF d = md THEN Copies(d) + 1 ELSE Copies(d)
    BY <2>1, <2>2, Holding
  <2>4. \A d : Cardinality(Owed(d))' = Cardinality(Owed(d)) - IF d = md THEN 1 ELSE 0
    BY <2>1, OwedLoses
  <2>5. \A b \in Blocks : Descriptor(b)' = Descriptor(b)
    BY <2>1 DEF Descriptor
  <2>6. ASSUME NEW b \in Blocks
        PROVE  Count(b)'
    <3>1. /\ Copies(Descriptor(b))' = Copies(Descriptor(b)) + IF Descriptor(b) = md THEN 1 ELSE 0
          /\ Cardinality(Owed(Descriptor(b)))'
                 = Cardinality(Owed(Descriptor(b))) - IF Descriptor(b) = md THEN 1 ELSE 0
      BY <1>a, <2>3, <2>4, <2>5
    <3> QED
      BY <1>a, <2>1, <3>1 DEF Counted
  <2>7. \A u \in Threads : pc'[u] \in Owing => pc[u] \in Owing /\ Md(u)' = Md(u)
    BY <2>1
  <2> QED
    BY <1>b, <2>1, <2>2, <2>3, <2>6, <2>7 DEF Counted, Matches
<1>10. ASSUME NEW t \in Threads, Call(t) \/ Step(t), UNCHANGED <<word, inHeap, held>>,
              pc[t] \notin Owing, pc'[t] \notin Owing
       PROVE  Counted'
  <2>1. Rest(t)
    BY <1>10, Alone
  <2>2. \A md : Owed(md)' = Owed(md)
    BY <1>10, <2>1, OwedStays
  <2> QED
    BY <1>1, <1>10, <2>1, <2>2
<1>11. ASSUME NEW t \in Threads,
              (\E size \in Sizes : CallAllocate(t, size)) \/ (\E md \in born : CallDup(t, md))
       PROVE  Counted'
  <2>1. /\ Call(t) /\ UNCHANGED <<word, inHeap, held>>
        /\ pc[t] = "idle" /\ pc'[t] \in {"base", "popHead", "dup"}
    BY <1>11 DEF Call, CallAllocate, CallDup, Begin, Goto, shared, TypeOK
  <2> QED
    BY <1>10, <2>1 DEF Owing
<1>12. ASSUME NEW t \in Threads, PopHead(t) \/ PopLink(t) \/ PopCas(t) \/ PopUsed(t) \/ PopFree(t)
       PROVE  Counted'
  <2>1. /\ Step(t) /\ UNCHANGED <<word, inHeap, held>> /\ pc[t] \notin Owing /\ pc'[t] \notin Owing
    BY <1>12 DEF Step, PopHead, PopLink, PopCas, PopUsed, PopFree, Goto, shared, TypeOK, Owing
  <2> QED
    BY <1>10, <2>1
<1>13. ASSUME NEW t \in Threads, ReadUsed(t) \/ ReadFree(t) \/ FreedUsed(t)
       PROVE  Counted'
  <2>1. /\ Step(t) /\ UNCHANGED <<word, inHeap, held>> /\ pc[t] \notin Owing /\ pc'[t] \notin Owing
    BY <1>13 DEF Step, ReadUsed, ReadFree, FreedUsed, Return, Goto, shared, TypeOK, Owing
  <2> QED
    BY <1>10, <2>1
<1>14. ASSUME NEW t \in Threads, PushHead(t) \/ PushLink(t) \/ PushCas(t) \/ PushUsed(t) \/ PushFree(t)
       PROVE  Counted'
  <2>1. /\ Step(t) /\ UNCHANGED <<word, inHeap, held>> /\ pc[t] \notin Owing /\ pc'[t] \notin Owing
    BY <1>14 DEF Step, PushHead, PushLink, PushCas, PushUsed, PushFree, Return, Goto, shared,
       TypeOK, Owing
  <2> QED
    BY <1>10, <2>1
<1>15. CASE UNCHANGED vars \/ \E b \in Blocks : Write(b)
  <2>1. UNCHANGED <<word, inHeap, held, pc, call>>
    BY <1>15 DEF vars, Write
  <2>2. \A md : Owed(md)' = Owed(md)
    BY <2>1 DEF Owed
  <2> QED
    BY <1>1, <2>1, <2>2
<1> QED
    BY <1>2, <1>3, <1>5, <1>6, <1>7, <1>8, <1>9, <1>11, <1>12, <1>13, <1>14, <1>15
       DEF Kept, Call, Step

-----------------------------------------------------------------------------
(* Dead blocks: what a step does to them *)

Others(t) == \A u \in Threads \ {t} : InHand(u)' = InHand(u) /\ Class(u)' = Class(u)

SameWord(b) == word'[b].version = word[b].version /\ word'[b].size = word[b].size

\* Nothing.
Still ==
    /\ Dead' = Dead /\ UNCHANGED head
    /\ \A b \in Dead : SameWord(b)
    /\ \A t \in Threads : InHand(t)' = InHand(t) /\ (InHand(t) # {} => Class(t)' = Class(t))

\* Thread t gives up the last reference to b, and has it in its hand.
Dies(t, b) ==
    /\ b \notin Dead /\ Dead' = Dead \cup {b} /\ UNCHANGED head
    /\ \A x \in Blocks : SameWord(x)
    /\ InHand(t) = {} /\ InHand(t)' = {Descriptor(b)} /\ Class(t)' = word[b].size
    /\ word[b].size \in Classes \cup {Large} /\ Others(t)

\* Thread t takes b from the top of a stack.
Pops(t, b) ==
    /\ Dead' = Dead /\ UNCHANGED word /\ head[Class(t)] = Descriptor(b)
    /\ head' = [head EXCEPT ![Class(t)] = link[b]]
    /\ Class(t) \in Classes /\ b \in Stacked(Class(t))
    /\ InHand(t) = {} /\ InHand(t)' = {Descriptor(b)} /\ Class(t)' = Class(t) /\ Others(t)

\* Thread t revives b or gives it back to the heap.
Goes(t, b) ==
    /\ b \in Dead /\ Dead' = Dead \ {b} /\ UNCHANGED head
    /\ word'[b].version # word[b].version
    /\ \A x \in Blocks \ {b} : SameWord(x)
    /\ InHand(t) = {Descriptor(b)} /\ InHand(t)' = {} /\ Others(t)

\* Thread t puts b on a stack.
Pushes(t, b) ==
    /\ Dead' = Dead /\ UNCHANGED <<word, link>> /\ b \in Dead /\ link[b] = head[Class(t)]
    /\ head' = [head EXCEPT ![Class(t)] = Descriptor(b)]
    /\ Class(t) \in Classes /\ word[b].size = Class(t)
    /\ InHand(t) = {Descriptor(b)} /\ InHand(t)' = {} /\ Others(t)

LEMMA OthersStay ==
    ASSUME TypeOK, NEW t \in Threads, Call(t) \/ Step(t)
    PROVE  Others(t)
BY Alone, OtherHands DEF Others

LEMMA StillIf ==
    ASSUME TypeOK, NEW t \in Threads, Call(t) \/ Step(t), UNCHANGED <<word, inHeap, head>>,
           InHand(t)' = InHand(t), InHand(t) # {} => Class(t)' = Class(t)
    PROVE  Still
BY OthersStay DEF Still, Others, Dead, SameWord

LEMMA BaseEffects ==
    ASSUME TypeOK, Located, Counted, NEW t \in Threads,
           BaseDup(t) \/ BaseAllocate(t) \/ BaseUndup(t) \/ BaseUsed(t)
    PROVE  Still \/ \E b \in Blocks : Dies(t, b)
<1> USE DEF Popped, Leaving
<1>0. Others(t) /\ UNCHANGED head
    BY OthersStay DEF Step, BaseDup, BaseAllocate, BaseUndup, BaseUsed
<1>1. CASE BaseDup(t)
  <2>1. InHand(t) = {} /\ InHand(t)' = {}
    BY <1>1 DEF BaseDup, Return, Goto, InHand, TypeOK
  <2>2. Dead' = Dead /\ \A b \in Dead : SameWord(b)
    <3>1. \A b \in Blocks : SameWord(b) /\ (word'[b].refs = 0 <=> word[b].refs = 0)
      BY <1>1 DEF BaseDup, SameWord, TypeOK
    <3> QED
      BY <1>1, <3>1 DEF BaseDup, Dead, TypeOK
  <2> QED
    BY <1>0, <2>1, <2>2 DEF Still, Others
<1>2. CASE BaseAllocate(t)
  <2>1. InHand(t) = {} /\ InHand(t)' = {}
    BY <1>2 DEF BaseAllocate, Return, Goto, InHand, TypeOK
  <2>2. Dead' = Dead /\ \A b \in Dead : SameWord(b)
    <3>1. CASE UNCHANGED <<word, inHeap>>
      BY <3>1 DEF Dead, SameWord
    <3>2. ASSUME NEW b \in inHeap, inHeap' = inHeap \ {b}, \A x \in Blocks \ {b} : word'[x] = word[x],
                 word'[b].refs = 1
          PROVE  Dead' = Dead /\ \A x \in Dead : SameWord(x)
      BY <3>2 DEF Dead, SameWord
    <3>3. CASE \E b \in inHeap :
                 /\ inHeap' = inHeap \ {b}
                 /\ \E version : word' = [word EXCEPT ![b] =
                        [version |-> version, refs |-> 1, size |-> Class(t)]]
      <4>1. PICK b \in inHeap : \E version :
                 /\ inHeap' = inHeap \ {b}
                 /\ word' = [word EXCEPT ![b] =
                        [version |-> version, refs |-> 1, size |-> Class(t)]]
        BY <3>3
      <4>2. (\A x \in Blocks \ {b} : word'[x] = word[x]) /\ word'[b].refs = 1
        BY <4>1 DEF TypeOK
      <4> QED
        BY <3>2, <4>1, <4>2
    <3> QED
      BY <1>2, <3>1, <3>3 DEF BaseAllocate
  <2> QED
    BY <1>0, <2>1, <2>2 DEF Still, Others
<1>3. CASE BaseUndup(t)
  <2>0. PICK b : b = Md(t).index
    OBVIOUS
  <2>1. /\ b \in Blocks \ inHeap /\ word[b].refs > 0 /\ word[b].size \in Classes \cup {Large}
        /\ Md(t) = Descriptor(b) /\ Matches(Md(t)) /\ InHand(t) = {}
    BY <1>3, <2>0, OwedAlive, MatchesIs DEF BaseUndup, Owing, InHand
  <2>4. word[b].refs \in Nat
    BY <2>1 DEF TypeOK
  <2>2. CASE word[b].refs > 1
    <3>0. word[Md(t).index].refs > 1 /\ ~ (word[Md(t).index].refs <= 1)
      BY <2>0, <2>2, <2>4
    <3>1. Return(t) /\ word' = [word EXCEPT ![Md(t).index].refs = @ - 1]
      BY <1>3, <2>1, <3>0 DEF BaseUndup
    <3>2. \A x \in Blocks : SameWord(x) /\ (word'[x].refs = 0 <=> word[x].refs = 0)
      <4>1. SetRefs(b, word[b].refs - 1) /\ word[b].refs - 1 # 0 /\ word[b].refs # 0
        BY <2>0, <2>2, <2>4, <3>1 DEF SetRefs
      <4> QED
        BY <2>1, <4>1, RefsWritten DEF SameWord
    <3>3. InHand(t)' = {}
      BY <3>1 DEF Return, Goto, InHand, TypeOK
    <3> QED
      BY <1>0, <1>3, <2>1, <3>2, <3>3 DEF BaseUndup, Still, Others, Dead
  <2>3. CASE word[b].refs = 1
    <3>0. word[Md(t).index].refs <= 1 /\ ~ (word[Md(t).index].refs > 1)
      BY <2>0, <2>3, <2>4
    <3>1. /\ word' = [word EXCEPT ![Md(t).index].refs = 0] /\ inHeap' = inHeap
          /\ call' = [call EXCEPT ![t].size = word[Md(t).index].size]
          /\ Goto(t, IF word[Md(t).index].size = Large THEN "abort" ELSE "readUsed")
      BY <1>3, <2>1, <3>0 DEF BaseUndup
    <3>5. pc'[t] \in {"abort", "readUsed"}
      BY <3>1 DEF Goto, TypeOK
    <3>2. \A x \in Blocks : SameWord(x) /\ word'[x].refs = IF x = b THEN 0 ELSE word[x].refs
      BY <2>0, <3>1 DEF SameWord, TypeOK
    <3>3. InHand(t)' = {Md(t)} /\ Class(t)' = word[b].size
      BY <2>0, <3>1, <3>5 DEF InHand, TypeOK, Calls
    <3>4. b \notin Dead /\ Dead' = Dead \cup {b}
      BY <2>1, <3>1, <3>2 DEF Dead
    <3> QED
      BY <1>0, <2>1, <3>2, <3>3, <3>4 DEF Dies
  <2> QED
    BY <2>1, <2>2, <2>3 DEF TypeOK
<1>4. CASE BaseUsed(t)
  <2>1. InHand(t) = {} /\ InHand(t)' = {} /\ UNCHANGED <<word, inHeap>>
    BY <1>4 DEF BaseUsed, Return, Goto, InHand, TypeOK
  <2> QED
    BY <1>0, <2>1 DEF Still, Others, Dead, SameWord
<1> QED
    BY <1>1, <1>2, <1>3, <1>4

LEMMA QuietEffects ==
    ASSUME TypeOK, NEW t \in Threads,
           \/ Call(t) \/ PopHead(t) \/ PopLink(t) \/ PopUsed(t) \/ PopFree(t)
           \/ ReadUsed(t) \/ ReadFree(t) \/ FreedUsed(t)
           \/ PushHead(t) \/ PushLink(t) \/ PushUsed(t) \/ PushFree(t)
    PROVE  Still
<1> USE DEF Popped, Leaving, InHand
<1>1. CASE Call(t)
  <2>1. UNCHANGED <<word, inHeap, head>> /\ InHand(t) = {} /\ InHand(t)' = {}
    BY <1>1 DEF Call, CallAllocate, CallRelease, CallDup, Begin, Goto, TypeOK, shared
  <2> QED
    BY <1>1, <2>1, StillIf
<1>2. CASE PopHead(t) \/ PopLink(t) \/ PopUsed(t) \/ PopFree(t)
  <2>1. /\ UNCHANGED <<word, inHeap, head>> /\ InHand(t)' = InHand(t) /\ Class(t)' = Class(t)
    <3>1. CASE PopHead(t)
      BY <3>1 DEF PopHead, Goto, TypeOK, Calls, shared
    <3>2. CASE PopLink(t)
      BY <3>2 DEF PopLink, Goto, TypeOK, Calls, shared
    <3>3. CASE PopUsed(t) \/ PopFree(t)
      BY <3>3 DEF PopUsed, PopFree, Goto, TypeOK
    <3> QED
      BY <1>2, <3>1, <3>2, <3>3
  <2> QED
    BY <1>2, <2>1, StillIf DEF Step
<1>3. CASE ReadUsed(t) \/ ReadFree(t) \/ PushHead(t) \/ PushLink(t)
  <2>1. /\ UNCHANGED <<word, inHeap, head>>
        /\ pc[t] \in Leaving /\ pc'[t] \in Leaving
    BY <1>3 DEF ReadUsed, ReadFree, PushHead, PushLink, Goto, TypeOK, shared
  <2>2. Md(t)' = Md(t) /\ Class(t)' = Class(t)
    BY <1>3 DEF ReadUsed, ReadFree, PushHead, PushLink, TypeOK, Calls
  <2>3. InHand(t)' = InHand(t)
    BY <2>1, <2>2
  <2> QED
    BY <1>3, <2>1, <2>2, <2>3, StillIf DEF Step
<1>4. CASE FreedUsed(t) \/ PushUsed(t) \/ PushFree(t)
  <2>1. /\ UNCHANGED <<word, inHeap, head>> /\ InHand(t)' = InHand(t) /\ InHand(t) = {}
    BY <1>4 DEF FreedUsed, PushUsed, PushFree, Return, Goto, TypeOK
  <2> QED
    BY <1>4, <2>1, StillIf DEF Step
<1> QED
    BY <1>1, <1>2, <1>3, <1>4

LEMMA CacheEffects ==
    ASSUME TypeOK, Located, Hands, Stacks, Looked, Linked, NEW t \in Threads
    PROVE  /\ PopCas(t) => Still \/ \E b \in Blocks : Pops(t, b)
           /\ Revive(t) \/ LightRelease(t) \/ LightPublish(t) => Still \/ \E b \in Blocks : Goes(t, b)
           /\ PushCas(t) => Still \/ \E b \in Blocks : Pushes(t, b)
<1> USE DEF Popped, Leaving
<1>0. PopCas(t) \/ Revive(t) \/ LightRelease(t) \/ LightPublish(t) \/ PushCas(t) => Others(t)
    BY OthersStay DEF Step
<1>1. ASSUME PopCas(t)
      PROVE  Still \/ \E b \in Blocks : Pops(t, b)
  <2>1. CASE head[Class(t)] # Top(t)
    <3>1. UNCHANGED <<word, inHeap, head>> /\ InHand(t)' = InHand(t) /\ InHand(t) = {}
      BY <1>1, <2>1 DEF PopCas, Goto, TypeOK, InHand
    <3> QED
      BY <1>1, <3>1, StillIf DEF Step
  <2>2. CASE head[Class(t)] = Top(t)
    <3>1. Class(t) \in Classes /\ Top(t) \in Descriptors /\ pc[t] = "popCas"
      BY <1>1 DEF PopCas, Located, Locals, Popping
    <3>2. PICK b \in Stacked(Class(t)) : Top(t) = Descriptor(b)
      BY <2>2, <3>1, Heads, NamesAssumption
    <3>3. b \in Dead /\ b \in Blocks /\ Matches(Top(t)) /\ Top(t).index = b
      BY <3>2, DescriptorType DEF Stacked, Dead
    <3>4. call[t].next = link[b]
      BY <3>1, <3>3 DEF Looked, Popping
    <3>5. /\ UNCHANGED <<word, inHeap, call>> /\ head' = [head EXCEPT ![Class(t)] = call[t].next]
          /\ pc'[t] = "popUsed"
      BY <1>1, <2>2 DEF PopCas, Goto, TypeOK
    <3>6. InHand(t) = {} /\ InHand(t)' = {Descriptor(b)} /\ Class(t)' = Class(t)
      BY <3>1, <3>2, <3>5 DEF InHand
    <3> QED
      BY <1>0, <1>1, <2>2, <3>1, <3>2, <3>3, <3>4, <3>5, <3>6 DEF Pops, Dead
  <2> QED
    BY <2>1, <2>2
<1>2. ASSUME Revive(t)
      PROVE  Still \/ \E b \in Blocks : Goes(t, b)
  <2>0. PICK b : b = Top(t).index
    OBVIOUS
  <2>1. pc[t] = "revive" /\ InHand(t) = {Top(t)} /\ Top(t) \in Descriptors
    BY <1>2 DEF Revive, InHand, Located, Locals
  <2>2. /\ Matches(Top(t)) /\ b \in Blocks \ inHeap /\ word[b].refs = 0
    BY <2>0, <2>1, HandFound
  <2>3. /\ word' = [word EXCEPT ![Top(t).index].version = Bump(word[Top(t).index].version),
                                ![Top(t).index].refs = 1]
        /\ UNCHANGED <<inHeap, head>> /\ pc'[t] = "idle"
    BY <1>2, <2>0, <2>2 DEF Revive, Return, Goto, TypeOK
  <2>4. word'[b].refs = 1 /\ \A x \in Blocks \ {b} : word'[x] = word[x]
    BY <2>0, <2>2, <2>3 DEF TypeOK
  <2>7. word'[b].version # word[b].version
    <3>1. word'[b].version = Bump(word[b].version) /\ word[b].version \in 0 .. VersionMod - 1
      BY <2>0, <2>2, <2>3 DEF TypeOK
    <3> QED
      BY <3>1, BumpMoves
  <2>5. b \in Dead /\ Dead' = Dead \ {b}
    <3>1. UNCHANGED inHeap
      BY <2>3
    <3> QED
      BY <2>2, <2>4, <3>1 DEF Dead
  <2>6. InHand(t) = {Descriptor(b)} /\ InHand(t)' = {}
    BY <2>0, <2>1, <2>2, <2>3, MatchesIs DEF InHand
  <2> QED
    BY <1>0, <1>2, <2>2, <2>3, <2>4, <2>5, <2>6, <2>7 DEF Goes, SameWord
<1>3. ASSUME LightRelease(t) \/ LightPublish(t)
      PROVE  Still \/ \E b \in Blocks : Goes(t, b)
  <2>0. PICK b : b = Md(t).index
    OBVIOUS
  <2>1. /\ pc[t] \in {"lightRelease", "lightPublish"}
        /\ InHand(t) = {Md(t)} /\ Md(t) \in Descriptors
    BY <1>3 DEF LightRelease, LightPublish, InHand, Located, Locals, TypeOK
  <2>2. /\ Matches(Md(t)) /\ b \in Blocks \ inHeap /\ word[b].refs = 0
    BY <2>0, <2>1, HandFound
  <2>3. CASE (Goto(t, "pushHead") \/ Goto(t, "lightPublish")) /\ UNCHANGED <<word, inHeap>>
    <3>1. UNCHANGED <<word, inHeap, head>> /\ InHand(t)' = InHand(t) /\ Class(t)' = Class(t)
      BY <1>3, <2>1, <2>3 DEF LightRelease, LightPublish, Goto, TypeOK, InHand, shared
    <3> QED
      BY <1>3, <3>1, StillIf DEF Step
  <2>4. CASE /\ word' = [word EXCEPT ![Md(t).index].version = Bump(@)]
             /\ inHeap' = inHeap \cup {Md(t).index} /\ Goto(t, "freedUsed")
    <3>1. \A x \in Blocks \ {b} : word'[x] = word[x]
      BY <2>0, <2>2, <2>4 DEF TypeOK
    <3>2. b \in Dead /\ Dead' = Dead \ {b}
      BY <2>0, <2>2, <2>4, <3>1 DEF Dead
    <3>4. word'[b].version # word[b].version
      <4>1. word'[b].version = Bump(word[b].version) /\ word[b].version \in 0 .. VersionMod - 1
        BY <2>0, <2>2, <2>4 DEF TypeOK
      <4> QED
        BY <4>1, BumpMoves
    <3>3. InHand(t) = {Descriptor(b)} /\ InHand(t)' = {} /\ UNCHANGED head
      BY <1>3, <2>0, <2>1, <2>2, <2>4, MatchesIs DEF LightRelease, LightPublish, InHand, Goto, TypeOK
    <3> QED
      BY <1>0, <1>3, <2>2, <3>1, <3>2, <3>3, <3>4 DEF Goes, SameWord
  <2> QED
    BY <1>3, <2>0, <2>2, <2>3, <2>4 DEF LightRelease, LightPublish, shared
<1>4. ASSUME PushCas(t)
      PROVE  Still \/ \E b \in Blocks : Pushes(t, b)
  <2>1. /\ pc[t] = "pushCas" /\ InHand(t) = {Md(t)} /\ Md(t) \in Descriptors /\ Class(t) \in Classes
        /\ UNCHANGED <<word, inHeap, link>>
    BY <1>4 DEF PushCas, InHand, Located, Locals, TypeOK
  <2>2. CASE head[Class(t)] # Top(t)
    <3>1. UNCHANGED head /\ InHand(t)' = InHand(t) /\ Class(t)' = Class(t)
      BY <1>4, <2>1, <2>2 DEF PushCas, Goto, TypeOK, InHand, Calls
    <3> QED
      BY <1>4, <2>1, <3>1, StillIf DEF Step
  <2>3. CASE head[Class(t)] = Top(t)
    <3>0. PICK b : b = Md(t).index
      OBVIOUS
    <3>1. /\ b \in Dead /\ b \in Blocks /\ Md(t) = Descriptor(b) /\ word[b].size = Class(t)
      BY <2>1, <3>0, HandFound, MatchesIs DEF Dead
    <3>2. link[b] = head[Class(t)]
      BY <2>1, <2>3, <3>0 DEF Linked
    <3>3. /\ head' = [head EXCEPT ![Class(t)] = Md(t)] /\ pc'[t] = "pushUsed" /\ UNCHANGED call
      BY <1>4, <2>3 DEF PushCas, Goto, TypeOK
    <3>4. InHand(t)' = {}
      BY <3>3 DEF InHand
    <3> QED
      BY <1>0, <1>4, <2>1, <3>1, <3>2, <3>3, <3>4 DEF Pushes, Dead
  <2> QED
    BY <2>2, <2>3
<1> QED
    BY <1>1, <1>2, <1>3, <1>4

LEMMA Effects ==
    ASSUME TypeOK, Located, Counted, Hands, Stacks, Looked, Linked, [Kept]_vars
    PROVE  \/ Still
           \/ \E t \in Threads, b \in Blocks :
                 Dies(t, b) \/ Pops(t, b) \/ Goes(t, b) \/ Pushes(t, b)
<1>1. CASE UNCHANGED vars \/ \E b \in Blocks : Write(b)
    BY <1>1 DEF vars, Write, Still, Dead, SameWord, InHand
<1> QED
    BY <1>1, BaseEffects, QuietEffects, CacheEffects DEF Kept, Step

-----------------------------------------------------------------------------
(* Dead blocks: hands *)

LEMMA HandIs ==
    ASSUME TypeOK, Located, Hands, NEW t \in Threads, NEW md \in InHand(t)
    PROVE  /\ md \in Descriptors /\ md = Descriptor(md.index)
           /\ md.index \in Dead /\ md.index \in Blocks /\ word[md.index].size = Class(t)
           /\ \A u \in Threads \ {t} : md \notin InHand(u)
<1>1. md \in Descriptors
    BY DEF InHand, Located, Locals, TypeOK
<1> QED
    BY <1>1, HandFound, MatchesIs DEF Hands

LEMMA DescriptorStays ==
    ASSUME NEW b, SameWord(b)
    PROVE  Descriptor(b)' = Descriptor(b)
BY DEF SameWord, Descriptor

LEMMA StackedStays ==
    ASSUME TypeOK, Located, Hands,
           Still \/ \E t \in Threads, b \in Blocks : Dies(t, b) \/ Goes(t, b)
    PROVE  \A c : /\ Stacked(c)' = Stacked(c)
                  /\ \A b \in Stacked(c) : SameWord(b)
<1> TAKE c
<1>1. CASE Still
    BY <1>1, DescriptorStays DEF Still, Stacked, SameWord
<1>2. ASSUME NEW t \in Threads, NEW b \in Blocks, Dies(t, b)
      PROVE  Stacked(c)' = Stacked(c) /\ \A x \in Stacked(c) : SameWord(x)
  <2>1. \A x \in Blocks : Descriptor(x)' = Descriptor(x) /\ SameWord(x)
    BY <1>2, DescriptorStays DEF Dies
  <2>2. \A x \in Blocks : x # b => Descriptor(x) # Descriptor(b)
    BY DEF Descriptor
  <2>3. ASSUME NEW x \in Dead
        PROVE  /\ x # b /\ x \in Dead'
               /\ \A u \in Threads : Descriptor(x)' \in InHand(u)' <=> Descriptor(x) \in InHand(u)
    BY <1>2, <2>1, <2>2 DEF Dies, Others, Dead
  <2>4. b \notin Stacked(c)'
    BY <1>2, <2>1 DEF Dies, Stacked
  <2>5. Stacked(c)' \subseteq Stacked(c)
    BY <1>2, <2>1, <2>3, <2>4 DEF Stacked, Dies, SameWord, Dead
  <2>6. Stacked(c) \subseteq Stacked(c)'
    BY <1>2, <2>1, <2>3 DEF Stacked, Dies, SameWord, Dead
  <2> QED
    BY <2>1, <2>5, <2>6 DEF Stacked, Dead
<1>3. ASSUME NEW t \in Threads, NEW b \in Blocks, Goes(t, b)
      PROVE  Stacked(c)' = Stacked(c) /\ \A x \in Stacked(c) : SameWord(x)
  <2>1. \A x \in Blocks \ {b} : Descriptor(x)' = Descriptor(x) /\ SameWord(x) /\ Descriptor(x) # Descriptor(b)
    BY <1>3, DescriptorStays DEF Goes, Descriptor
  <2>2. b \notin Stacked(c) /\ b \notin Stacked(c)'
    BY <1>3 DEF Goes, Stacked
  <2>3. ASSUME NEW x \in Blocks \ {b}
        PROVE  /\ x \in Dead' <=> x \in Dead
               /\ \A u \in Threads : Descriptor(x)' \in InHand(u)' <=> Descriptor(x) \in InHand(u)
    BY <1>3, <2>1 DEF Goes, Others
  <2>4. \A x \in Blocks \ {b} : x \in Stacked(c)' <=> x \in Stacked(c)
    BY <2>1, <2>3 DEF Stacked, SameWord
  <2>5. Stacked(c) \subseteq Blocks /\ Stacked(c)' \subseteq Blocks
    BY <1>3 DEF Stacked, Dead, Goes
  <2> QED
    BY <2>1, <2>2, <2>4, <2>5
<1> QED
    BY <1>1, <1>2, <1>3

LEMMA StackedPops ==
    ASSUME TypeOK, NEW t \in Threads, NEW b \in Blocks, Pops(t, b)
    PROVE  \A c : Stacked(c)' = IF c = Class(t) THEN Stacked(c) \ {b} ELSE Stacked(c)
<1> TAKE c
<1>1. \A x \in Blocks : Descriptor(x)' = Descriptor(x) /\ (x # b => Descriptor(x) # Descriptor(b))
    BY DEF Pops, Descriptor
<1>2. b \notin Stacked(c)' /\ (c # Class(t) => b \notin Stacked(c))
    BY <1>1 DEF Pops, Stacked
<1>3. \A x \in Blocks \ {b} : x \in Stacked(c)' <=> x \in Stacked(c)
    BY <1>1 DEF Pops, Others, Stacked
<1>4. Stacked(c) \subseteq Blocks /\ Stacked(c)' \subseteq Blocks
    BY DEF Stacked, Dead, Pops
<1> QED
    BY <1>2, <1>3, <1>4

LEMMA StackedPushes ==
    ASSUME TypeOK, Located, Hands, NEW t \in Threads, NEW b \in Blocks, Pushes(t, b)
    PROVE  /\ \A c : Stacked(c)' = IF c = Class(t) THEN Stacked(c) \cup {b} ELSE Stacked(c)
           /\ b \notin Stacked(Class(t))
<1>0. b \notin Stacked(Class(t))
    BY DEF Pushes, Stacked
<1>1. \A x \in Blocks : Descriptor(x)' = Descriptor(x) /\ (x # b => Descriptor(x) # Descriptor(b))
    BY DEF Pushes, Descriptor
<1>2. \A u \in Threads \ {t} : Descriptor(b) \notin InHand(u)
    BY HandIs DEF Pushes
<1>3. ASSUME NEW c
      PROVE  Stacked(c)' = IF c = Class(t) THEN Stacked(c) \cup {b} ELSE Stacked(c)
  <2>1. b \in Stacked(c)' <=> c = Class(t)
    BY <1>1, <1>2 DEF Pushes, Others, Stacked
  <2>2. \A x \in Blocks \ {b} : x \in Stacked(c)' <=> x \in Stacked(c)
    BY <1>1 DEF Pushes, Others, Stacked
  <2>3. Stacked(c) \subseteq Blocks /\ Stacked(c)' \subseteq Blocks /\ b \notin Stacked(c)
    BY DEF Stacked, Dead, Pushes
  <2> QED
    BY <2>1, <2>2, <2>3
<1> QED
    BY <1>0, <1>3

LEMMA HandsStay ==
    ASSUME TypeOK, Located, Counted, Hands, Stacks, Looked, Linked, [Kept]_vars
    PROVE  Hands'
<1> DEFINE Held(t, md) == /\ Matches(md) /\ md.index \in Dead /\ word[md.index].size = Class(t)
                          /\ \A u \in Threads \ {t} : md \notin InHand(u)
<1>0. SUFFICES ASSUME NEW t \in Threads, NEW md \in InHand(t)'
               PROVE  Held(t, md)'
  <2>1. Stacked(Large)' = Stacked(Large)
    BY Effects, StackedStays, StackedPops, StackedPushes, SizesAssumption DEF Pops, Pushes
  <2> QED
    BY <2>1 DEF Hands
<1>1. ASSUME NEW x \in Blocks, SameWord(x), md = Descriptor(x), word'[x].size = Class(t)',
             x \in Dead', \A u \in Threads \ {t} : Descriptor(x) \notin InHand(u)'
      PROVE  Held(t, md)'
    BY <1>1 DEF SameWord, Descriptor, Matches
<1>2. CASE md \in InHand(t)
  <2>1. PICK x \in Blocks : /\ x = md.index /\ md = Descriptor(x) /\ x \in Dead
                            /\ word[x].size = Class(t)
                            /\ \A u \in Threads \ {t} : Descriptor(x) \notin InHand(u)
    BY <1>2, HandIs
  <2>2. CASE Still
    BY <1>1, <1>2, <2>1, <2>2 DEF Still, SameWord
  <2>3. ASSUME NEW u \in Threads, NEW b \in Blocks,
               Dies(u, b) \/ Pops(u, b) \/ Goes(u, b) \/ Pushes(u, b)
        PROVE  Held(t, md)'
    <3>1. t # u
      BY <1>0, <1>2, <2>3 DEF Dies, Pops, Goes, Pushes
    <3>2. Descriptor(x) # Descriptor(b) /\ x # b
      <4>1. CASE Dies(u, b)
        BY <2>1, <4>1 DEF Dies, Descriptor
      <4>2. CASE Pops(u, b)
        BY <1>2, <2>1, <4>2 DEF Pops, Stacked, Descriptor
      <4>3. CASE Goes(u, b) \/ Pushes(u, b)
        BY <2>1, <3>1, <4>3 DEF Goes, Pushes, Descriptor
      <4> QED
        BY <2>3, <4>1, <4>2, <4>3
    <3>3. /\ SameWord(x) /\ x \in Dead' /\ Class(t)' = Class(t)
          /\ \A v \in Threads \ {t} : Descriptor(x) \notin InHand(v)'
      BY <2>1, <2>3, <3>1, <3>2 DEF Dies, Pops, Goes, Pushes, Others, SameWord
    <3> QED
      BY <1>1, <2>1, <3>3 DEF SameWord
  <2> QED
    BY <2>2, <2>3, Effects
<1>3. CASE md \notin InHand(t)
  <2>1. PICK b \in Blocks : md = Descriptor(b) /\ (Dies(t, b) \/ Pops(t, b))
    BY <1>0, <1>3, Effects DEF Still, Dies, Pops, Goes, Pushes, Others
  <2>2. \A u \in Threads \ {t} : Descriptor(b) \notin InHand(u)
    <3>1. CASE Dies(t, b)
      BY <3>1, HandIs DEF Dies, Descriptor
    <3>2. CASE Pops(t, b)
      BY <3>2 DEF Pops, Stacked
    <3> QED
      BY <2>1, <3>1, <3>2
  <2>3. SameWord(b) /\ b \in Dead' /\ word'[b].size = Class(t)'
    BY <2>1 DEF Dies, Pops, Stacked, SameWord
  <2> QED
    BY <1>1, <2>1, <2>2, <2>3 DEF Dies, Pops, Others
<1> QED
    BY <1>2, <1>3

-----------------------------------------------------------------------------
(* Dead blocks: stacks *)

\* Only a thread that pushes a block changes the link of a dead one.
LEMMA LinkStays ==
    ASSUME TypeOK, Located, Counted, [Kept]_vars, NEW b \in Dead
    PROVE  \/ link'[b] = link[b]
           \/ \E t \in Threads : PushLink(t) /\ Md(t).index = b
<1>1. ASSUME NEW x \in Blocks, Write(x)
      PROVE  link'[b] = link[b]
  <2>1. x # b
    BY <1>1, Alive, MatchesIs DEF Write, Dead, Counted, TypeOK
  <2> QED
    BY <1>1, <2>1 DEF Write, TypeOK, Dead
<1>2. ASSUME NEW t \in Threads, Call(t)
      PROVE  UNCHANGED link
    BY <1>2 DEF Call, CallAllocate, CallRelease, CallDup, shared
<1>3. ASSUME NEW t \in Threads, PushLink(t)
      PROVE  link'[b] = link[b] \/ Md(t).index = b
    BY <1>3 DEF PushLink, TypeOK, Dead
<1>4. ASSUME NEW t \in Threads, Step(t), ~ PushLink(t)
      PROVE  UNCHANGED link
    BY <1>4 DEF Step, BaseDup, BaseAllocate, BaseUndup, BaseUsed, PopHead, PopLink, PopCas,
       PopUsed, PopFree, Revive, ReadUsed, ReadFree, LightRelease, LightPublish, FreedUsed, PushHead,
       PushCas, PushUsed, PushFree, shared
<1> QED
    BY <1>1, <1>2, <1>3, <1>4 DEF Kept, vars

LEMMA StackedLinkStays ==
    ASSUME TypeOK, Located, Counted, Hands, [Kept]_vars, NEW c, NEW b \in Stacked(c)
    PROVE  link'[b] = link[b]
<1>1. b \in Dead
    BY DEF Stacked
<1>2. ASSUME NEW t \in Threads, PushLink(t), Md(t).index = b
      PROVE  FALSE
  <2>1. Md(t) \in InHand(t)
    BY <1>2 DEF PushLink, InHand, Popped, Leaving
  <2>2. Descriptor(b) \in InHand(t)
    BY <1>2, <2>1, HandIs
  <2> QED
    BY <2>2 DEF Stacked
<1> QED
    BY <1>1, <1>2, LinkStays

StackOf(c) == \E s \in [1 .. Cardinality(Stacked(c)) -> Stacked(c)] : InOrder(c, s)

LEMMA StackKept ==
    ASSUME TypeOK, NEW c \in Classes, StackOf(c), Stacked(c)' = Stacked(c), head'[c] = head[c],
           \A b \in Stacked(c) : link'[b] = link[b] /\ Descriptor(b)' = Descriptor(b)
    PROVE  StackOf(c)'
<1>1. PICK s \in [1 .. Cardinality(Stacked(c)) -> Stacked(c)] : InOrder(c, s)
    BY DEF StackOf
<1>2. PICK n : n = Cardinality(Stacked(c)) /\ n \in Nat
    BY StackedFinite
<1>3. Cardinality(Stacked(c))' = n
    BY <1>2
<1>4. /\ \A b \in Stacked(c) : \E i \in 1 .. n : s[i] = b
      /\ \A i, j \in 1 .. n : s[i] = s[j] => i = j
      /\ head[c] = IF n = 0 THEN END ELSE Descriptor(s[n])
      /\ \A i \in 1 .. n : link[s[i]] = IF i = 1 THEN END ELSE Descriptor(s[i - 1])
    BY <1>1, <1>2 DEF InOrder
<1>5. \A i \in 1 .. n : s[i] \in Stacked(c)
    BY <1>1, <1>2
<1>6. head'[c] = IF n = 0 THEN END ELSE Descriptor(s[n])'
    BY <1>2, <1>4, <1>5
<1>7. \A i \in 1 .. n : link'[s[i]] = IF i = 1 THEN END ELSE Descriptor(s[i - 1])'
    BY <1>2, <1>4, <1>5
<1>8. InOrder(c, s)'
    BY <1>3, <1>4, <1>6, <1>7 DEF InOrder
<1> QED
    BY <1>1, <1>2, <1>3, <1>8 DEF StackOf

LEMMA StackPopped ==
    ASSUME TypeOK, NEW c \in Classes, StackOf(c), NEW b \in Stacked(c), head[c] = Descriptor(b),
           Stacked(c)' = Stacked(c) \ {b}, head'[c] = link[b], UNCHANGED word,
           \A x \in Stacked(c) : link'[x] = link[x]
    PROVE  StackOf(c)'
<1>1. PICK s \in [1 .. Cardinality(Stacked(c)) -> Stacked(c)] : InOrder(c, s)
    BY DEF StackOf
<1>2. PICK n : n = Cardinality(Stacked(c)) /\ n \in Nat
    BY StackedFinite
<1>3. PICK m : m = Cardinality(Stacked(c))' /\ m = n - 1 /\ m \in Nat
  <2>1. Cardinality(Stacked(c) \ {b}) = n - 1
    BY <1>2, StackedFinite, FS_RemoveElement
  <2>2. IsFiniteSet(Stacked(c) \ {b})
    BY StackedFinite, FS_RemoveElement
  <2> QED
    BY <2>1, <2>2, FS_CardinalityType
<1>4. /\ \A x \in Stacked(c) : \E i \in 1 .. n : s[i] = x
      /\ \A i, j \in 1 .. n : s[i] = s[j] => i = j
      /\ head[c] = IF n = 0 THEN END ELSE Descriptor(s[n])
      /\ \A i \in 1 .. n : link[s[i]] = IF i = 1 THEN END ELSE Descriptor(s[i - 1])
      /\ s \in [1 .. n -> Stacked(c)]
    BY <1>1, <1>2 DEF InOrder
<1>5. n \in 1 .. n /\ s[n] = b
    BY <1>2, <1>3, <1>4 DEF Descriptor
<1>6. \A x : Descriptor(x)' = Descriptor(x)
    BY DEF Descriptor
<1> DEFINE r == [i \in 1 .. m |-> s[i]]
<1>7. r \in [1 .. m -> Stacked(c) \ {b}] /\ \A i \in 1 .. m : i \in 1 .. n /\ r[i] = s[i]
  <2>1. \A i \in 1 .. m : i \in 1 .. n /\ i # n
    BY <1>2, <1>3
  <2>2. \A i \in 1 .. m : s[i] \in Stacked(c) /\ s[i] # b
    BY <1>4, <1>5, <2>1
  <2> QED
    BY <2>1, <2>2
<1> HIDE DEF r
<1>8. \A x \in Stacked(c) \ {b} : \E i \in 1 .. m : r[i] = x
  <2> TAKE x \in Stacked(c) \ {b}
  <2>1. PICK i \in 1 .. n : s[i] = x
    BY <1>4
  <2>2. i \in 1 .. m
    BY <1>3, <1>5, <2>1
  <2> QED
    BY <1>7, <2>1, <2>2
<1>9. \A i, j \in 1 .. m : r[i] = r[j] => i = j
    BY <1>4, <1>7
<1>10. head'[c] = IF m = 0 THEN END ELSE Descriptor(r[m])
  <2>1. head'[c] = IF n = 1 THEN END ELSE Descriptor(s[n - 1])
    BY <1>4, <1>5
  <2>2. /\ m = 0 <=> n = 1
        /\ m = n - 1 /\ (m # 0 => m \in 1 .. m)
    BY <1>2, <1>3
  <2> QED
    BY <1>7, <2>1, <2>2
<1>11. \A i \in 1 .. m : link'[r[i]] = IF i = 1 THEN END ELSE Descriptor(r[i - 1])
  <2> TAKE i \in 1 .. m
  <2>1. link'[r[i]] = IF i = 1 THEN END ELSE Descriptor(s[i - 1])
    BY <1>4, <1>7
  <2>2. i # 1 => i - 1 \in 1 .. m
    BY <1>3
  <2> QED
    BY <1>7, <2>1, <2>2
<1>12. InOrder(c, r)'
    BY <1>3, <1>6, <1>8, <1>9, <1>10, <1>11 DEF InOrder
<1> QED
    BY <1>3, <1>7, <1>12 DEF StackOf

LEMMA StackPushed ==
    ASSUME TypeOK, NEW c \in Classes, StackOf(c), NEW b \in Blocks \ Stacked(c),
           Stacked(c)' = Stacked(c) \cup {b}, link[b] = head[c], head'[c] = Descriptor(b),
           UNCHANGED <<word, link>>
    PROVE  StackOf(c)'
<1>1. PICK s \in [1 .. Cardinality(Stacked(c)) -> Stacked(c)] : InOrder(c, s)
    BY DEF StackOf
<1>2. PICK n : n = Cardinality(Stacked(c)) /\ n \in Nat
    BY StackedFinite
<1>3. PICK m : m = Cardinality(Stacked(c))' /\ m = n + 1 /\ m \in Nat
  <2>1. Cardinality(Stacked(c) \cup {b}) = n + 1
    BY <1>2, StackedFinite, FS_AddElement
  <2> QED
    BY <1>2, <2>1
<1>4. /\ \A x \in Stacked(c) : \E i \in 1 .. n : s[i] = x
      /\ \A i, j \in 1 .. n : s[i] = s[j] => i = j
      /\ head[c] = IF n = 0 THEN END ELSE Descriptor(s[n])
      /\ \A i \in 1 .. n : link[s[i]] = IF i = 1 THEN END ELSE Descriptor(s[i - 1])
      /\ s \in [1 .. n -> Stacked(c)]
    BY <1>1, <1>2 DEF InOrder
<1>5. \A x : Descriptor(x)' = Descriptor(x)
    BY DEF Descriptor
<1> DEFINE r == [i \in 1 .. m |-> IF i = m THEN b ELSE s[i]]
<1>6. /\ \A i \in 1 .. m : i = m \/ i \in 1 .. n
      /\ \A i \in 1 .. n : i \in 1 .. m /\ i # m
      /\ m \in 1 .. m
  <2>1. n \in Nat /\ m = n + 1
    BY <1>2, <1>3
  <2> QED
    BY <2>1
<1>7. /\ r \in [1 .. m -> Stacked(c) \cup {b}] /\ r[m] = b
      /\ \A i \in 1 .. n : r[i] = s[i]
    BY <1>4, <1>6
<1> HIDE DEF r
<1>8. \A x \in Stacked(c) \cup {b} : \E i \in 1 .. m : r[i] = x
    BY <1>4, <1>6, <1>7
<1>9. \A i, j \in 1 .. m : r[i] = r[j] => i = j
  <2>0. \A i \in 1 .. n : r[i] = s[i] /\ s[i] \in Stacked(c)
    <3>1. \A i \in 1 .. n : s[i] \in Stacked(c)
      BY <1>1, <1>2
    <3> QED
      BY <1>7, <3>1
  <2>1. \A i \in 1 .. n : r[i] # b
    BY <2>0
  <2>2. \A i, j \in 1 .. n : r[i] = r[j] => i = j
    BY <1>4, <2>0
  <2> QED
    BY <1>6, <1>7, <2>1, <2>2
<1>10. head'[c] = IF m = 0 THEN END ELSE Descriptor(r[m])
    BY <1>2, <1>3, <1>7
<1>11. \A i \in 1 .. m : link'[r[i]] = IF i = 1 THEN END ELSE Descriptor(r[i - 1])
  <2> TAKE i \in 1 .. m
  <2>1. CASE i = m
    <3>1. link'[r[i]] = IF n = 0 THEN END ELSE Descriptor(s[n])
      BY <1>4, <1>7, <2>1
    <3>2. /\ i = 1 <=> n = 0
          /\ i - 1 = n /\ (n # 0 => n \in 1 .. n)
      BY <1>2, <1>3, <2>1
    <3> QED
      BY <1>7, <3>1, <3>2
  <2>2. CASE i \in 1 .. n
    <3>1. i # 1 => i - 1 \in 1 .. n
      BY <1>2, <2>2
    <3> QED
      BY <1>4, <1>7, <2>2, <3>1
  <2> QED
    BY <1>6, <2>1, <2>2
<1>12. InOrder(c, r)'
    BY <1>3, <1>5, <1>8, <1>9, <1>10, <1>11 DEF InOrder
<1> QED
    BY <1>3, <1>7, <1>12 DEF StackOf

LEMMA StacksStay ==
    ASSUME TypeOK, Located, Counted, Hands, Stacks, Looked, Linked, [Kept]_vars
    PROVE  Stacks'
<1> SUFFICES ASSUME NEW c \in Classes
             PROVE  StackOf(c)'
    BY DEF Stacks, StackOf
<1>1. StackOf(c)
    BY DEF Stacks, StackOf
<1>2. \A b \in Stacked(c) : link'[b] = link[b]
    BY StackedLinkStays
<1>3. CASE Still \/ \E t \in Threads, b \in Blocks : Dies(t, b) \/ Goes(t, b)
  <2>1. Stacked(c)' = Stacked(c) /\ \A b \in Stacked(c) : Descriptor(b)' = Descriptor(b)
    BY <1>3, StackedStays, DescriptorStays
  <2>2. head' = head
    BY <1>3 DEF Still, Dies, Goes
  <2> QED
    BY <1>1, <1>2, <2>1, <2>2, StackKept
<1>4. ASSUME NEW t \in Threads, NEW b \in Blocks, Pops(t, b)
      PROVE  StackOf(c)'
  <2>1. \A x : Descriptor(x)' = Descriptor(x)
    BY <1>4 DEF Pops, Descriptor
  <2>2. CASE c = Class(t)
    BY <1>1, <1>2, <1>4, <2>2, StackedPops, StackPopped DEF Pops, TypeOK
  <2>3. CASE c # Class(t)
    BY <1>1, <1>2, <1>4, <2>1, <2>3, StackedPops, StackKept DEF Pops, TypeOK
  <2> QED
    BY <2>2, <2>3
<1>5. ASSUME NEW t \in Threads, NEW b \in Blocks, Pushes(t, b)
      PROVE  StackOf(c)'
  <2>1. \A x : Descriptor(x)' = Descriptor(x)
    BY <1>5 DEF Pushes, Descriptor
  <2>2. CASE c = Class(t)
    BY <1>1, <1>5, <2>2, StackedPushes, StackPushed DEF Pushes, TypeOK
  <2>3. CASE c # Class(t)
    BY <1>1, <1>2, <1>5, <2>1, <2>3, StackedPushes, StackKept DEF Pushes, TypeOK
  <2> QED
    BY <2>2, <2>3
<1> QED
    BY <1>3, <1>4, <1>5, Effects

-----------------------------------------------------------------------------
(* What a pop and a push remember *)

(***************************************************************************)
(* What the version tags are there for (lines 84-94 of the code): while a  *)
(* thread is between its look at a head and its swap, the block it saw     *)
(* there does not come round to the version it had.  The tags have 10      *)
(* bits; every life of a block takes one or two of their values, and the   *)
(* merges of the free list may set them back (variable_allocator.hh line   *)
(* 35), so that this is assumed, as the comment of lines 343-346 does.     *)
(***************************************************************************)
TagsHold ==
    \A t \in Threads : pc[t] \in Popping /\ ~ Matches(Top(t)) =>
        word'[Top(t).index].version # Top(t).version

LEMMA VersionMoves ==
    ASSUME TypeOK, Located, Counted, Hands, Stacks, Looked, Linked, [Kept]_vars, NEW b \in Dead,
           word'[b].version = word[b].version
    PROVE  b \in Dead'
BY Effects DEF Still, Dies, Pops, Goes, Pushes

LEMMA LeavingFrom ==
    ASSUME TypeOK, Located, Hands, [Kept]_vars, NEW u \in Threads, pc'[u] \in Leaving
    PROVE  pc[u] \in Leaving \cup {"undup"} /\ Md(u)' = Md(u)
<1> USE DEF Leaving
<1>1. CASE Call(u)
    BY <1>1 DEF Call, CallAllocate, CallRelease, CallDup, Begin, Goto, TypeOK
<1>2. CASE BaseDup(u) \/ BaseAllocate(u) \/ BaseUsed(u)
    BY <1>2 DEF BaseDup, BaseAllocate, BaseUsed, Return, Goto, TypeOK
<1>8. CASE BaseUndup(u)
  <2>1. CASE Return(u)
    BY <2>1 DEF Return, Goto, TypeOK
  <2>2. CASE UNCHANGED call \/ \E size : call' = [call EXCEPT ![u].size = size]
    BY <1>8, <2>2 DEF BaseUndup, TypeOK, Calls
  <2> QED
    BY <1>8, <2>1, <2>2 DEF BaseUndup
<1>3. CASE PopHead(u) \/ PopLink(u) \/ PopCas(u) \/ PopUsed(u) \/ PopFree(u)
    BY <1>3 DEF PopHead, PopLink, PopCas, PopUsed, PopFree, Goto, TypeOK
<1>4. CASE Revive(u)
    BY <1>4, HandFound DEF Revive, Return, Goto, TypeOK, InHand, Popped
<1>5. CASE ReadUsed(u) \/ ReadFree(u) \/ LightRelease(u) \/ LightPublish(u) \/ FreedUsed(u)
    BY <1>5 DEF ReadUsed, ReadFree, LightRelease, LightPublish, FreedUsed, Return, Goto, TypeOK, Calls
<1>6. CASE PushHead(u) \/ PushLink(u) \/ PushCas(u) \/ PushUsed(u) \/ PushFree(u)
    BY <1>6 DEF PushHead, PushLink, PushCas, PushUsed, PushFree, Return, Goto, TypeOK, Calls
<1>7. CASE pc'[u] = pc[u] /\ call'[u] = call[u]
    BY <1>7
<1> QED
    BY <1>1, <1>2, <1>3, <1>4, <1>5, <1>6, <1>7, <1>8, Alone DEF Kept, Step, Write, vars

LEMMA PoppingFrom ==
    ASSUME TypeOK, Located, Hands, [Kept]_vars, NEW u \in Threads, pc'[u] \in Popping
    PROVE  \/ PopHead(u) /\ head[Class(u)] # END
           \/ PopLink(u) /\ pc'[u] = "popCas"
           \/ pc[u] \in Popping /\ pc'[u] = pc[u] /\ call'[u] = call[u]
<1> USE DEF Popping
<1>1. CASE Call(u)
    BY <1>1 DEF Call, CallAllocate, CallRelease, CallDup, Begin, Goto, TypeOK
<1>2. CASE BaseDup(u) \/ BaseAllocate(u) \/ BaseUsed(u) \/ BaseUndup(u)
    BY <1>2 DEF BaseDup, BaseAllocate, BaseUsed, BaseUndup, Return, Goto, TypeOK
<1>3. CASE PopHead(u) \/ PopLink(u) \/ PopCas(u) \/ PopUsed(u) \/ PopFree(u)
    BY <1>3 DEF PopHead, PopLink, PopCas, PopUsed, PopFree, Goto, TypeOK
<1>4. CASE Revive(u)
    BY <1>4 DEF Revive, Return, Goto, TypeOK
<1>5. CASE ReadUsed(u) \/ ReadFree(u) \/ LightRelease(u) \/ LightPublish(u) \/ FreedUsed(u)
    BY <1>5 DEF ReadUsed, ReadFree, LightRelease, LightPublish, FreedUsed, Return, Goto, TypeOK
<1>6. CASE PushHead(u) \/ PushLink(u) \/ PushCas(u) \/ PushUsed(u) \/ PushFree(u)
    BY <1>6 DEF PushHead, PushLink, PushCas, PushUsed, PushFree, Return, Goto, TypeOK
<1>7. CASE pc'[u] = pc[u] /\ call'[u] = call[u]
    BY <1>7
<1> QED
    BY <1>1, <1>2, <1>3, <1>4, <1>5, <1>6, <1>7, Alone DEF Kept, Step, Write, vars

LEMMA LookedStays ==
    ASSUME TypeOK, Located, Counted, Hands, Stacks, Looked, Linked, [Kept]_vars, TagsHold
    PROVE  Looked'
<1> SUFFICES ASSUME NEW t \in Threads, pc'[t] \in Popping, Matches(Top(t))'
             PROVE  /\ Top(t)'.index \in Dead'
                    /\ \A u \in Threads : pc'[u] \in Leaving => Md(u)' # Top(t)'
                    /\ pc'[t] = "popCas" => call'[t].next = link'[Top(t)'.index]
    BY DEF Looked
<1>1. ASSUME PopHead(t), head[Class(t)] # END
      PROVE  /\ Top(t)'.index \in Dead' /\ pc'[t] # "popCas"
             /\ \A u \in Threads : pc'[u] \in Leaving => Md(u)' # Top(t)'
  <2>1. /\ Top(t)' = head[Class(t)] /\ pc'[t] = "popLink" /\ UNCHANGED <<word, inHeap>>
        /\ Class(t) \in Classes
    BY <1>1 DEF PopHead, Goto, TypeOK, Calls, shared, Located, Locals
  <2>2. PICK b \in Stacked(Class(t)) : Top(t)' = Descriptor(b)
    BY <1>1, <2>1, Heads
  <2>3. ASSUME NEW u \in Threads, pc'[u] \in Leaving
        PROVE  Md(u)' # Top(t)'
    <3>1. u # t /\ pc'[u] = pc[u] /\ Md(u)' = Md(u)
      BY <1>1, <2>1, <2>3, Alone DEF Step, Leaving
    <3>2. Md(u) \in InHand(u)
      BY <2>3, <3>1 DEF InHand, Popped, Leaving
    <3> QED
      BY <2>2, <3>1, <3>2 DEF Stacked
  <2>4. Top(t)'.index = b
    BY <2>2 DEF Descriptor
  <2> QED
    BY <2>1, <2>2, <2>3, <2>4 DEF Stacked, Dead
<1>2. ASSUME pc[t] \in Popping, Top(t)' = Top(t), PopLink(t) \/ (pc'[t] = pc[t] /\ call'[t] = call[t])
      PROVE  /\ Top(t)'.index \in Dead'
             /\ \A u \in Threads : pc'[u] \in Leaving => Md(u)' # Top(t)'
             /\ pc'[t] = "popCas" => call'[t].next = link'[Top(t)'.index]
  <2>1. PICK b : b = Top(t).index
    OBVIOUS
  <2>2. word'[b].version = Top(t).version
    BY <1>2, <2>1 DEF Matches
  <2>3. Matches(Top(t))
    BY <1>2, <2>1, <2>2 DEF TagsHold
  <2>4. /\ b \in Dead /\ word[b].version = Top(t).version
        /\ \A u \in Threads : pc[u] \in Leaving => Md(u) # Top(t)
    BY <1>2, <2>1, <2>3 DEF Looked, Matches
  <2>5. b \in Dead'
    BY <2>2, <2>4, VersionMoves
  <2>6. ASSUME NEW u \in Threads, pc'[u] \in Leaving, Md(u)' = Top(t)
        PROVE  FALSE
    <3>1. pc[u] = "undup" /\ Md(u) = Top(t)
      BY <2>4, <2>6, LeavingFrom
    <3>2. word[b].refs > 0
      BY <2>1, <3>1, OwedAlive DEF Owing
    <3> QED
      BY <2>4, <3>2 DEF Dead
  <2>7. Top(t) = Descriptor(b)
    BY <1>2, <2>1, <2>3, MatchesIs DEF Located, Locals
  <2>8. link'[b] = link[b]
    <3>1. ASSUME NEW u \in Threads, PushLink(u), Md(u).index = b
          PROVE  FALSE
      <4>1. pc[u] \in Leaving /\ Md(u) \in InHand(u)
        BY <3>1 DEF PushLink, InHand, Popped, Leaving
      <4>2. Md(u) = Top(t)
        BY <2>7, <3>1, <4>1, HandIs
      <4> QED
        BY <2>4, <4>1, <4>2
    <3> QED
      BY <2>4, <3>1, LinkStays
  <2>9. pc'[t] = "popCas" => call'[t].next = link[b]
    <3>1. CASE PopLink(t)
      BY <2>1, <3>1 DEF PopLink, TypeOK, Calls
    <3>2. CASE pc'[t] = pc[t] /\ call'[t] = call[t]
      BY <1>2, <2>1, <2>3, <3>2 DEF Looked
    <3> QED
      BY <1>2, <3>1, <3>2
  <2> QED
    BY <1>2, <2>1, <2>5, <2>6, <2>8, <2>9
<1>3. PopLink(t) => pc[t] \in Popping /\ Top(t)' = Top(t)
    BY DEF PopLink, Popping, TypeOK, Calls
<1> QED
    BY <1>1, <1>2, <1>3, PoppingFrom

LEMMA LinkedStays ==
    ASSUME TypeOK, Located, Counted, Hands, Linked, [Kept]_vars
    PROVE  Linked'
<1> SUFFICES ASSUME NEW t \in Threads, pc'[t] = "pushCas"
             PROVE  link'[Md(t)'.index] = Top(t)'
    BY DEF Linked
<1>1. CASE PushLink(t)
  <2>1. Md(t) \in InHand(t) /\ Md(t)' = Md(t) /\ Top(t)' = Top(t)
    BY <1>1 DEF PushLink, InHand, Popped, Leaving
  <2> QED
    BY <1>1, <2>1, HandIs DEF PushLink, TypeOK
<1>2. CASE pc[t] = "pushCas" /\ call'[t] = call[t]
  <2>1. PICK b : b = Md(t).index
    OBVIOUS
  <2>2. Md(t) \in InHand(t)
    BY <1>2 DEF InHand, Popped, Leaving
  <2>3. b \in Dead /\ Md(t) = Descriptor(b)
    BY <2>1, <2>2, HandIs
  <2>4. ~ PushLink(t)
    BY <1>2 DEF PushLink
  <2>5. ASSUME NEW u \in Threads \ {t}, PushLink(u), Md(u).index = b
        PROVE  FALSE
    <3>1. Md(u) \in InHand(u)
      BY <2>5 DEF PushLink, InHand, Popped, Leaving
    <3>2. Md(u) = Md(t)
      BY <2>3, <2>5, <3>1, HandIs
    <3> QED
      BY <2>2, <3>1, <3>2, HandIs
  <2>6. link'[b] = link[b]
    BY <2>3, <2>4, <2>5, LinkStays
  <2> QED
    BY <1>2, <2>1, <2>6 DEF Linked
<1>3. CASE ~ PushLink(t) /\ ~ (pc[t] = "pushCas" /\ call'[t] = call[t])
  <2>1. CASE Call(t)
    BY <2>1 DEF Call, CallAllocate, CallRelease, CallDup, Begin, Goto, TypeOK
  <2>2. CASE BaseDup(t) \/ BaseAllocate(t) \/ BaseUsed(t) \/ BaseUndup(t)
    BY <2>2 DEF BaseDup, BaseAllocate, BaseUsed, BaseUndup, Return, Goto, TypeOK
  <2>3. CASE PopHead(t) \/ PopLink(t) \/ PopCas(t) \/ PopUsed(t) \/ PopFree(t)
    BY <2>3 DEF PopHead, PopLink, PopCas, PopUsed, PopFree, Goto, TypeOK
  <2>4. CASE Revive(t)
    BY <2>4 DEF Revive, Return, Goto, TypeOK
  <2>5. CASE ReadUsed(t) \/ ReadFree(t) \/ LightRelease(t) \/ LightPublish(t) \/ FreedUsed(t)
    BY <2>5 DEF ReadUsed, ReadFree, LightRelease, LightPublish, FreedUsed, Return, Goto, TypeOK
  <2>6. CASE PushHead(t) \/ PushCas(t) \/ PushUsed(t) \/ PushFree(t)
    BY <2>6 DEF PushHead, PushCas, PushUsed, PushFree, Return, Goto, TypeOK
  <2>7. CASE pc'[t] = pc[t] /\ call'[t] = call[t]
    BY <1>3, <2>7
  <2> QED
    BY <1>3, <2>1, <2>2, <2>3, <2>4, <2>5, <2>6, <2>7, Alone DEF Kept, Step, Write, vars
<1> QED
    BY <1>1, <1>2, <1>3

-----------------------------------------------------------------------------
(* Counters *)

\* The calls that have moved a block of class c, by what they have not
\* counted yet.
Pushed(c) == At(c, {"pushUsed", "pushFree"})
Taken(c) == At(c, {"popUsed", "popFree"})
Cut(c) == At(c, {"baseUsed"})
Using == {"popFree", "revive", "pushUsed", "freedUsed"} \cup Leaving

FreeTally(c) ==
    (free_count[c] + Cardinality(Pushed(c))) % CounterMod
        = (Cardinality(Stacked(c)) + Cardinality(Taken(c))) % CounterMod
UsedTally(c) ==
    (used_count[c] + Cardinality(Cut(c))) % CounterMod
        = (Cardinality(Referenced(c)) + Cardinality(At(c, Using))) % CounterMod

LEMMA AtFinite ==
    ASSUME NEW c, NEW labels
    PROVE  /\ IsFiniteSet(At(c, labels)) /\ Cardinality(At(c, labels)) \in Nat
           /\ Cardinality(At(c, labels))' \in Nat
BY FiniteAssumption, FS_Subset, FS_CardinalityType DEF At

LEMMA AtMoves ==
    ASSUME TypeOK, NEW t \in Threads, Call(t) \/ Step(t), NEW c, NEW labels
    PROVE  Cardinality(At(c, labels))'
               = Cardinality(At(c, labels))
                     + (IF pc'[t] \in labels /\ Class(t)' = c THEN 1 ELSE 0)
                     - (IF pc[t] \in labels /\ Class(t) = c THEN 1 ELSE 0)
<1> DEFINE A == At(c, labels)
           B == At(c, labels)'
<1>1. \A u \in Threads \ {t} : u \in B <=> u \in A
    BY Alone DEF At
<1>2. /\ t \in A <=> pc[t] \in labels /\ Class(t) = c
      /\ t \in B <=> pc'[t] \in labels /\ Class(t)' = c
      /\ A \subseteq Threads /\ B \subseteq Threads
    BY DEF At
<1>3. IsFiniteSet(A) /\ Cardinality(A) \in Nat
    BY AtFinite
<1> HIDE DEF A, B
<1>4. CASE t \in A <=> t \in B
  <2>1. A = B
    BY <1>1, <1>2, <1>4
  <2> QED
    BY <1>2, <1>3, <1>4, <2>1 DEF A, B
<1>5. CASE t \notin A /\ t \in B
  <2>1. B = A \cup {t}
    BY <1>1, <1>2, <1>5
  <2>2. Cardinality(B) = Cardinality(A) + 1
    BY <1>3, <1>5, <2>1, FS_AddElement
  <2> QED
    BY <1>2, <1>3, <1>5, <2>2 DEF A, B
<1>6. CASE t \in A /\ t \notin B
  <2>1. B = A \ {t}
    BY <1>1, <1>2, <1>6
  <2>2. Cardinality(B) = Cardinality(A) - 1
    BY <1>3, <1>6, <2>1, FS_RemoveElement
  <2> QED
    BY <1>2, <1>3, <1>6, <2>2 DEF A, B
<1> QED
    BY <1>4, <1>5, <1>6

\* Both sides stand still, or move together.
LEMMA Balanced ==
    ASSUME NEW a \in Nat, NEW b \in Nat, NEW x \in Nat, NEW y \in Nat,
           a % CounterMod = b % CounterMod,
           \/ x % CounterMod = a % CounterMod /\ y = b
           \/ x % CounterMod = (a + 1) % CounterMod /\ y = b + 1
           \/ (x + 1) % CounterMod = a % CounterMod /\ y + 1 = b
    PROVE  x % CounterMod = y % CounterMod
<1> CounterMod \in Nat \ {0}
    BY ModAssumption
<1>1. CASE x % CounterMod = a % CounterMod /\ y = b
    BY <1>1
<1>2. CASE x % CounterMod = (a + 1) % CounterMod /\ y = b + 1
    BY <1>2, Balance
<1>3. CASE (x + 1) % CounterMod = a % CounterMod /\ y + 1 = b
  <2>1. (x + 1) % CounterMod = (y + 1) % CounterMod
    BY <1>3
  <2> QED
    BY <2>1, Balance
<1> QED
    BY <1>1, <1>2, <1>3

LEMMA CardinalityTypes ==
    ASSUME TypeOK, TypeOK', NEW c \in Classes
    PROVE  /\ free_count[c] \in 0 .. CounterMod - 1 /\ used_count[c] \in 0 .. CounterMod - 1
           /\ free_count[c] \in Nat /\ used_count[c] \in Nat /\ CounterMod \in Nat \ {0}
           /\ Cardinality(Stacked(c)) \in Nat /\ Cardinality(Referenced(c)) \in Nat
           /\ Cardinality(Pushed(c)) \in Nat /\ Cardinality(Taken(c)) \in Nat
           /\ Cardinality(Cut(c)) \in Nat /\ Cardinality(At(c, Using)) \in Nat
           /\ free_count'[c] \in Nat /\ used_count'[c] \in Nat
           /\ Cardinality(Stacked(c))' \in Nat /\ Cardinality(Referenced(c))' \in Nat
           /\ Cardinality(Pushed(c))' \in Nat /\ Cardinality(Taken(c))' \in Nat
           /\ Cardinality(Cut(c))' \in Nat /\ Cardinality(At(c, Using))' \in Nat
BY StackedFinite, AtFinite, ModAssumption DEF TypeOK, Pushed, Taken, Cut

LEMMA FreeStays ==
    ASSUME TypeOK, TypeOK', Located, Counted, Hands, Stacks, Looked, Linked, [Kept]_vars,
           NEW c \in Classes, FreeTally(c)
    PROVE  FreeTally(c)'
<1>1. PICK f, p, s, q : /\ f = free_count[c] /\ p = Cardinality(Pushed(c))
                        /\ s = Cardinality(Stacked(c)) /\ q = Cardinality(Taken(c))
    OBVIOUS
<1>2. PICK f2, p2, s2, q2 :
            /\ f2 = free_count'[c] /\ p2 = Cardinality(Pushed(c))'
            /\ s2 = Cardinality(Stacked(c))' /\ q2 = Cardinality(Taken(c))'
    OBVIOUS
<1>3. /\ f \in Nat /\ p \in Nat /\ s \in Nat /\ q \in Nat /\ f \in 0 .. CounterMod - 1
      /\ f2 \in Nat /\ p2 \in Nat /\ s2 \in Nat /\ q2 \in Nat /\ CounterMod \in Nat \ {0}
    BY <1>1, <1>2, CardinalityTypes
<1>4. (f + p) % CounterMod = (s + q) % CounterMod
    BY <1>1 DEF FreeTally
<1> DEFINE Sums == \/ (f2 + p2) % CounterMod = (f + p) % CounterMod /\ s2 + q2 = s + q
                   \/ (f2 + p2) % CounterMod = (f + p + 1) % CounterMod /\ s2 + q2 = s + q + 1
                   \/ (f2 + p2 + 1) % CounterMod = (f + p) % CounterMod /\ s2 + q2 + 1 = s + q
<1> SUFFICES Sums
  <2>1. f + p \in Nat /\ s + q \in Nat /\ f2 + p2 \in Nat /\ s2 + q2 \in Nat
    BY <1>3
  <2>2. Sums => (f2 + p2) % CounterMod = (s2 + q2) % CounterMod
    BY <1>4, <2>1, Balanced
  <2> QED
    BY <1>2, <2>2 DEF FreeTally
<1> HIDE DEF Sums
<1>5. ASSUME NEW t \in Threads, Call(t) \/ Step(t)
      PROVE  /\ p2 = p + (IF pc'[t] \in {"pushUsed", "pushFree"} /\ Class(t)' = c THEN 1 ELSE 0)
                       - (IF pc[t] \in {"pushUsed", "pushFree"} /\ Class(t) = c THEN 1 ELSE 0)
             /\ q2 = q + (IF pc'[t] \in {"popUsed", "popFree"} /\ Class(t)' = c THEN 1 ELSE 0)
                       - (IF pc[t] \in {"popUsed", "popFree"} /\ Class(t) = c THEN 1 ELSE 0)
    BY <1>1, <1>2, <1>5, AtMoves DEF Pushed, Taken
<1>6. ASSUME f2 = f, p2 = p, s2 = s, q2 = q
      PROVE  Sums
    BY <1>6 DEF Sums
<1>7. CASE UNCHANGED vars \/ \E b \in Blocks : Write(b)
  <2>1. Still /\ UNCHANGED <<free_count, pc, call>>
    BY <1>7 DEF vars, Write, Still, Dead, SameWord, InHand
  <2>2. Stacked(c)' = Stacked(c) /\ Pushed(c)' = Pushed(c) /\ Taken(c)' = Taken(c)
    BY <2>1, StackedStays DEF Pushed, Taken, At
  <2> QED
    BY <1>1, <1>2, <1>6, <2>1, <2>2
<1>8. ASSUME NEW t \in Threads, Call(t) \/ Step(t), UNCHANGED free_count, Stacked(c)' = Stacked(c),
             pc[t] \notin {"pushUsed", "pushFree", "popUsed", "popFree"},
             pc'[t] \notin {"pushUsed", "pushFree", "popUsed", "popFree"}
      PROVE  Sums
    BY <1>1, <1>2, <1>3, <1>5, <1>6, <1>8
<1>9. ASSUME NEW t \in Threads, BaseDup(t) \/ BaseAllocate(t) \/ BaseUndup(t) \/ BaseUsed(t)
      PROVE  Sums
  <2>1. Stacked(c)' = Stacked(c)
    BY <1>9, BaseEffects, StackedStays
  <2>2. /\ Step(t) /\ UNCHANGED free_count
        /\ pc[t] \notin {"pushUsed", "pushFree", "popUsed", "popFree"}
        /\ pc'[t] \notin {"pushUsed", "pushFree", "popUsed", "popFree"}
    <3>1. CASE BaseDup(t) \/ BaseUsed(t)
      BY <3>1 DEF Step, BaseDup, BaseUsed, Return, Goto, TypeOK
    <3>2. CASE BaseAllocate(t)
      <4>1. Goto(t, "idle") \/ Goto(t, "baseUsed")
        BY <3>2 DEF BaseAllocate, Return
      <4>2. pc[t] = "base" /\ pc'[t] \in {"idle", "baseUsed"} /\ UNCHANGED free_count
        BY <3>2, <4>1 DEF BaseAllocate, Goto, TypeOK
      <4> QED
        BY <3>2, <4>2 DEF Step
    <3>3. CASE BaseUndup(t)
      BY <3>3 DEF Step, BaseUndup, Return, Goto, TypeOK
    <3> QED
      BY <1>9, <3>1, <3>2, <3>3
  <2> QED
    BY <1>8, <2>1, <2>2
<1>10. ASSUME NEW t \in Threads,
              \/ Call(t) \/ PopHead(t) \/ PopLink(t) \/ ReadUsed(t) \/ ReadFree(t) \/ FreedUsed(t)
              \/ PushHead(t) \/ PushLink(t)
       PROVE  Sums
  <2>1. Stacked(c)' = Stacked(c)
    BY <1>10, QuietEffects, StackedStays
  <2>2. CASE Call(t)
    <3>1. /\ UNCHANGED free_count /\ pc[t] = "idle" /\ pc'[t] \in {"base", "popHead", "undup", "dup"}
      BY <2>2 DEF Call, CallAllocate, CallRelease, CallDup, Begin, Goto, TypeOK, shared
    <3> QED
      BY <1>8, <2>1, <2>2, <3>1
  <2>3. CASE ~ Call(t)
    <3>1. /\ Step(t) /\ UNCHANGED free_count
          /\ pc[t] \notin {"pushUsed", "pushFree", "popUsed", "popFree"}
          /\ pc'[t] \notin {"pushUsed", "pushFree", "popUsed", "popFree"}
      BY <1>10, <2>3 DEF Step, PopHead, PopLink, ReadUsed, ReadFree, FreedUsed, PushHead, PushLink,
         Return, Goto, TypeOK, shared
    <3> QED
      BY <1>8, <2>1, <3>1
  <2> QED
    BY <2>2, <2>3
<1>11. ASSUME NEW t \in Threads, Revive(t) \/ LightRelease(t) \/ LightPublish(t)
       PROVE  Sums
  <2>1. Stacked(c)' = Stacked(c)
    BY <1>11, CacheEffects, StackedStays
  <2>2. /\ Step(t) /\ UNCHANGED free_count
        /\ pc[t] \notin {"pushUsed", "pushFree", "popUsed", "popFree"}
        /\ pc'[t] \notin {"pushUsed", "pushFree", "popUsed", "popFree"}
    BY <1>11 DEF Step, Revive, LightRelease, LightPublish, Return, Goto, TypeOK, shared
  <2> QED
    BY <1>8, <2>1, <2>2
<1>12. ASSUME NEW t \in Threads, PopCas(t)
       PROVE  Sums
  <2>1. Step(t) /\ UNCHANGED free_count /\ pc[t] = "popCas"
    BY <1>12 DEF Step, PopCas
  <2>2. CASE Still
    <3>1. pc'[t] \notin Popped
      BY <2>1, <2>2 DEF Still, InHand, Popped, Leaving
    <3>2. pc'[t] = "popHead"
      BY <1>12, <3>1 DEF PopCas, Goto, TypeOK, Popped
    <3> QED
      BY <1>8, <2>1, <2>2, <3>2, StackedStays
  <2>3. ASSUME NEW b \in Blocks, Pops(t, b)
        PROVE  Sums
    <3>1. pc'[t] = "popUsed" /\ Class(t)' = Class(t)
      BY <1>12, <2>3 DEF PopCas, Pops, Goto, TypeOK, InHand, Popped, Leaving
    <3>2. s2 = IF c = Class(t) THEN s - 1 ELSE s
      <4>1. Stacked(c)' = IF c = Class(t) THEN Stacked(c) \ {b} ELSE Stacked(c)
        BY <2>3, StackedPops
      <4>2. c = Class(t) => Cardinality(Stacked(c) \ {b}) = s - 1
        BY <1>1, <2>3, StackedFinite, FS_RemoveElement DEF Pops
      <4> QED
        BY <1>1, <1>2, <4>1, <4>2
    <3> QED
      BY <1>1, <1>2, <1>3, <1>5, <2>1, <3>1, <3>2 DEF Sums
  <2> QED
    BY <1>12, <2>2, <2>3, CacheEffects
<1>13. ASSUME NEW t \in Threads, PushCas(t)
       PROVE  Sums
  <2>1. Step(t) /\ UNCHANGED free_count /\ pc[t] = "pushCas"
    BY <1>13 DEF Step, PushCas
  <2>2. CASE Still
    <3>1. pc'[t] # "pushUsed"
      BY <2>1, <2>2 DEF Still, InHand, Popped, Leaving
    <3>2. pc'[t] = "pushHead"
      BY <1>13, <3>1 DEF PushCas, Goto, TypeOK
    <3> QED
      BY <1>8, <2>1, <2>2, <3>2, StackedStays
  <2>3. ASSUME NEW b \in Blocks, Pushes(t, b)
        PROVE  Sums
    <3>1. pc'[t] = "pushUsed" /\ Class(t)' = Class(t)
      BY <1>13, <2>3 DEF PushCas, Pushes, Goto, TypeOK, InHand, Popped, Leaving
    <3>2. s2 = IF c = Class(t) THEN s + 1 ELSE s
      <4>1. Stacked(c)' = IF c = Class(t) THEN Stacked(c) \cup {b} ELSE Stacked(c)
        BY <2>3, StackedPushes
      <4>2. c = Class(t) => Cardinality(Stacked(c) \cup {b}) = s + 1
        BY <1>1, <2>3, StackedPushes, StackedFinite, FS_AddElement
      <4> QED
        BY <1>1, <1>2, <4>1, <4>2
    <3>3. /\ p2 = IF c = Class(t) THEN p + 1 ELSE p
          /\ q2 = q /\ f2 = f
      BY <1>1, <1>2, <1>3, <1>5, <2>1, <3>1
    <3>4. c = Class(t) => f2 + p2 = f + p + 1 /\ s2 + q2 = s + q + 1
      BY <1>3, <3>2, <3>3
    <3>5. c # Class(t) => f2 = f /\ p2 = p /\ s2 = s /\ q2 = q
      BY <3>2, <3>3
    <3> QED
      BY <1>6, <3>4, <3>5 DEF Sums
  <2> QED
    BY <1>13, <2>2, <2>3, CacheEffects
<1>14. ASSUME NEW t \in Threads, PopUsed(t) \/ PushUsed(t)
       PROVE  Sums
  <2>1. Stacked(c)' = Stacked(c)
    BY <1>14, QuietEffects, StackedStays
  <2>2. /\ Step(t) /\ UNCHANGED free_count /\ Class(t)' = Class(t)
        /\ \/ pc[t] = "popUsed" /\ pc'[t] = "popFree"
           \/ pc[t] = "pushUsed" /\ pc'[t] = "pushFree"
    BY <1>14 DEF Step, PopUsed, PushUsed, Goto, TypeOK
  <2> QED
    BY <1>1, <1>2, <1>3, <1>5, <1>6, <2>1, <2>2
<1>15. ASSUME NEW t \in Threads, PopFree(t)
       PROVE  Sums
  <2>1. Stacked(c)' = Stacked(c)
    BY <1>15, QuietEffects, StackedStays
  <2>2. /\ Step(t) /\ Class(t)' = Class(t) /\ pc[t] = "popFree" /\ pc'[t] = "revive"
        /\ Dec(free_count, Class(t))
    BY <1>15 DEF Step, PopFree, Goto, TypeOK
  <2>3. p2 = p /\ s2 = s /\ q2 = IF c = Class(t) THEN q - 1 ELSE q
    BY <1>1, <1>2, <1>3, <1>5, <2>1, <2>2
  <2>4. f2 = IF c = Class(t) THEN (f + CounterMod - 1) % CounterMod ELSE f
    BY <1>1, <1>2, <2>2 DEF Dec, TypeOK
  <2>5. CASE c = Class(t)
    <3>1. (((f + CounterMod - 1) % CounterMod) + 1 + p) % CounterMod = (f + p) % CounterMod
      BY <1>3, Moved
    <3>2. f2 + p2 + 1 = ((f + CounterMod - 1) % CounterMod) + 1 + p /\ s2 + q2 + 1 = s + q
      BY <1>3, <2>3, <2>4, <2>5
    <3> QED
      BY <3>1, <3>2 DEF Sums
  <2> QED
    BY <1>6, <2>3, <2>4, <2>5
<1>16. ASSUME NEW t \in Threads, PushFree(t)
       PROVE  Sums
  <2>1. Stacked(c)' = Stacked(c)
    BY <1>16, QuietEffects, StackedStays
  <2>2. /\ Step(t) /\ pc[t] = "pushFree" /\ pc'[t] = "idle" /\ Inc(free_count, Class(t))
    BY <1>16 DEF Step, PushFree, Return, Goto, TypeOK
  <2>3. q2 = q /\ s2 = s /\ p2 = IF c = Class(t) THEN p - 1 ELSE p
    BY <1>1, <1>2, <1>3, <1>5, <2>1, <2>2
  <2>4. f2 = IF c = Class(t) THEN (f + 1) % CounterMod ELSE f
    BY <1>1, <1>2, <2>2 DEF Inc, TypeOK
  <2>5. CASE c = Class(t)
    <3>1. (((f + 1) % CounterMod) + p2) % CounterMod = (f + 1 + p2) % CounterMod
      BY <1>3, Moved
    <3>2. f2 + p2 = ((f + 1) % CounterMod) + p2 /\ f + 1 + p2 = f + p /\ s2 + q2 = s + q
      BY <1>3, <2>3, <2>4, <2>5
    <3> QED
      BY <3>1, <3>2 DEF Sums
  <2> QED
    BY <1>6, <2>3, <2>4, <2>5
<1> QED
    BY <1>7, <1>9, <1>10, <1>11, <1>12, <1>13, <1>14, <1>15, <1>16 DEF Kept, Step

\* A step that concerns block b only.
LEMMA ReferencedMoves ==
    ASSUME NEW c, NEW b \in Blocks,
           \A x \in Blocks \ {b} : word'[x] = word[x] /\ (x \in inHeap' <=> x \in inHeap)
    PROVE  Cardinality(Referenced(c))'
               = Cardinality(Referenced(c)) + (IF b \in Referenced(c)' THEN 1 ELSE 0)
                                            - (IF b \in Referenced(c) THEN 1 ELSE 0)
<1> DEFINE A == Referenced(c)
           B == Referenced(c)'
<1>1. /\ \A x \in Blocks \ {b} : x \in B <=> x \in A
      /\ A \subseteq Blocks /\ B \subseteq Blocks
    BY DEF Referenced
<1>2. IsFiniteSet(A) /\ Cardinality(A) \in Nat
    BY StackedFinite
<1> HIDE DEF A, B
<1>3. CASE b \in A <=> b \in B
  <2>1. A = B
    BY <1>1, <1>3
  <2> QED
    BY <1>2, <1>3, <2>1 DEF A, B
<1>4. CASE b \notin A /\ b \in B
  <2>1. B = A \cup {b}
    BY <1>1, <1>4
  <2>2. Cardinality(B) = Cardinality(A) + 1
    BY <1>2, <1>4, <2>1, FS_AddElement
  <2> QED
    BY <1>2, <1>4, <2>2 DEF A, B
<1>5. CASE b \in A /\ b \notin B
  <2>1. B = A \ {b}
    BY <1>1, <1>5
  <2>2. Cardinality(B) = Cardinality(A) - 1
    BY <1>2, <1>5, <2>1, FS_RemoveElement
  <2> QED
    BY <1>2, <1>5, <2>2 DEF A, B
<1> QED
    BY <1>3, <1>4, <1>5

LEMMA UsedStays ==
    ASSUME TypeOK, TypeOK', Located, Counted, Hands, Stacks, Looked, Linked, [Kept]_vars,
           NEW c \in Classes, UsedTally(c)
    PROVE  UsedTally(c)'
<1>1. PICK f, p, s, q : /\ f = used_count[c] /\ p = Cardinality(Cut(c))
                        /\ s = Cardinality(Referenced(c)) /\ q = Cardinality(At(c, Using))
    OBVIOUS
<1>2. PICK f2, p2, s2, q2 :
            /\ f2 = used_count'[c] /\ p2 = Cardinality(Cut(c))'
            /\ s2 = Cardinality(Referenced(c))' /\ q2 = Cardinality(At(c, Using))'
    OBVIOUS
<1>3. /\ f \in Nat /\ p \in Nat /\ s \in Nat /\ q \in Nat /\ f \in 0 .. CounterMod - 1
      /\ f2 \in Nat /\ p2 \in Nat /\ s2 \in Nat /\ q2 \in Nat /\ CounterMod \in Nat \ {0}
    BY <1>1, <1>2, CardinalityTypes
<1>4. (f + p) % CounterMod = (s + q) % CounterMod
    BY <1>1 DEF UsedTally
<1> DEFINE Sums == \/ (f2 + p2) % CounterMod = (f + p) % CounterMod /\ s2 + q2 = s + q
                   \/ (f2 + p2) % CounterMod = (f + p + 1) % CounterMod /\ s2 + q2 = s + q + 1
                   \/ (f2 + p2 + 1) % CounterMod = (f + p) % CounterMod /\ s2 + q2 + 1 = s + q
<1> SUFFICES Sums
  <2>1. f + p \in Nat /\ s + q \in Nat /\ f2 + p2 \in Nat /\ s2 + q2 \in Nat
    BY <1>3
  <2>2. Sums => (f2 + p2) % CounterMod = (s2 + q2) % CounterMod
    BY <1>4, <2>1, Balanced
  <2> QED
    BY <1>2, <2>2 DEF UsedTally
<1> HIDE DEF Sums
<1>5. ASSUME NEW t \in Threads, Call(t) \/ Step(t)
      PROVE  /\ p2 = p + (IF pc'[t] = "baseUsed" /\ Class(t)' = c THEN 1 ELSE 0)
                       - (IF pc[t] = "baseUsed" /\ Class(t) = c THEN 1 ELSE 0)
             /\ q2 = q + (IF pc'[t] \in Using /\ Class(t)' = c THEN 1 ELSE 0)
                       - (IF pc[t] \in Using /\ Class(t) = c THEN 1 ELSE 0)
  <2>1. p2 = p + (IF pc'[t] \in {"baseUsed"} /\ Class(t)' = c THEN 1 ELSE 0)
               - (IF pc[t] \in {"baseUsed"} /\ Class(t) = c THEN 1 ELSE 0)
    BY <1>1, <1>2, <1>5, AtMoves DEF Cut
  <2>2. q2 = q + (IF pc'[t] \in Using /\ Class(t)' = c THEN 1 ELSE 0)
               - (IF pc[t] \in Using /\ Class(t) = c THEN 1 ELSE 0)
    BY <1>1, <1>2, <1>5, AtMoves
  <2> QED
    BY <2>1, <2>2
<1>6. ASSUME f2 = f, p2 = p, s2 = s, q2 = q
      PROVE  Sums
    BY <1>6 DEF Sums
<1>7. CASE UNCHANGED vars \/ \E b \in Blocks : Write(b)
  <2>1. UNCHANGED <<used_count, word, inHeap, pc, call>>
    BY <1>7 DEF vars, Write
  <2>2. Referenced(c)' = Referenced(c) /\ Cut(c)' = Cut(c) /\ At(c, Using)' = At(c, Using)
    BY <2>1 DEF Referenced, Cut, At
  <2> QED
    BY <1>1, <1>2, <1>6, <2>1, <2>2
<1>8. ASSUME UNCHANGED <<word, inHeap>>
      PROVE  s2 = s
  <2>1. Referenced(c)' = Referenced(c)
    BY <1>8 DEF Referenced
  <2> QED
    BY <1>1, <1>2, <2>1
<1>9. ASSUME NEW t \in Threads, Call(t) \/ Step(t), UNCHANGED used_count, s2 = s,
             pc[t] # "baseUsed", pc'[t] # "baseUsed",
             \/ pc[t] \notin Using /\ pc'[t] \notin Using
             \/ pc[t] \in Using /\ pc'[t] \in Using /\ Class(t)' = Class(t)
      PROVE  Sums
    BY <1>1, <1>2, <1>3, <1>5, <1>6, <1>9
<1>10. ASSUME NEW t \in Threads, Call(t)
       PROVE  Sums
  <2>1. /\ UNCHANGED <<used_count, word, inHeap>> /\ pc[t] = "idle"
        /\ pc'[t] \in {"base", "popHead", "undup", "dup"}
    BY <1>10 DEF Call, CallAllocate, CallRelease, CallDup, Begin, Goto, TypeOK, shared
  <2> QED
    BY <1>8, <1>9, <1>10, <2>1 DEF Using, Leaving
<1>11. ASSUME NEW t \in Threads, PopHead(t) \/ PopLink(t) \/ PopCas(t) \/ PushFree(t)
       PROVE  Sums
  <2>1. /\ Step(t) /\ UNCHANGED <<used_count, word, inHeap>>
        /\ pc[t] \in {"popHead", "popLink", "popCas", "pushFree"}
        /\ pc'[t] \in {"base", "popHead", "popLink", "popCas", "popUsed", "idle"}
    BY <1>11 DEF Step, PopHead, PopLink, PopCas, PushFree, Return, Goto, TypeOK, shared
  <2> QED
    BY <1>8, <1>9, <2>1 DEF Using, Leaving
<1>12. ASSUME NEW t \in Threads,
              \/ PopFree(t) \/ ReadUsed(t) \/ ReadFree(t)
              \/ PushHead(t) \/ PushLink(t) \/ PushCas(t)
       PROVE  Sums
  <2>1. /\ Step(t) /\ UNCHANGED <<used_count, word, inHeap>>
        /\ pc[t] \in Using /\ pc'[t] \in Using /\ pc[t] # "baseUsed" /\ pc'[t] # "baseUsed"
    BY <1>12 DEF Step, PopFree, ReadUsed, ReadFree, PushHead, PushLink, PushCas, Goto, TypeOK,
       shared, Using, Leaving
  <2>2. Class(t)' = Class(t)
    BY <1>12 DEF PopFree, ReadUsed, ReadFree, PushHead, PushLink, PushCas, TypeOK, Calls
  <2> QED
    BY <1>8, <1>9, <2>1, <2>2
<1>13. ASSUME NEW t \in Threads, BaseDup(t)
       PROVE  Sums
  <2>1. /\ Step(t) /\ UNCHANGED <<used_count, inHeap>> /\ pc[t] = "dup" /\ pc'[t] = "idle"
    BY <1>13 DEF Step, BaseDup, Return, Goto, TypeOK
  <2>2. \A b \in Blocks : word'[b].size = word[b].size /\ (word'[b].refs > 0 <=> word[b].refs > 0)
    BY <1>13 DEF BaseDup, TypeOK
  <2>3. Referenced(c)' = Referenced(c)
    BY <2>1, <2>2 DEF Referenced
  <2> QED
    BY <1>1, <1>2, <1>9, <2>1, <2>3 DEF Using, Leaving
<1>14. ASSUME NEW t \in Threads, LightRelease(t) \/ LightPublish(t)
       PROVE  Sums
  <2>1. /\ Step(t) /\ pc[t] \in {"lightRelease", "lightPublish"} /\ Md(t) \in InHand(t)
        /\ UNCHANGED <<used_count, call>>
    BY <1>14 DEF Step, LightRelease, LightPublish, InHand, Popped, Leaving, shared
  <2>2. PICK b : b = Md(t).index
    OBVIOUS
  <2>3. b \in Blocks \ inHeap /\ Matches(Md(t)) /\ word[b].refs = 0
    BY <2>1, <2>2, HandFound
  <2>4. pc'[t] \in {"freedUsed", "pushHead", "lightPublish"}
    BY <1>14, <2>2, <2>3 DEF LightRelease, LightPublish, Goto, TypeOK
  <2>5. \A x \in Blocks : x \in Referenced(c)' <=> x \in Referenced(c)
    <3>1. CASE UNCHANGED <<word, inHeap>>
      BY <3>1 DEF Referenced
    <3>2. CASE word' = [word EXCEPT ![Md(t).index].version = Bump(@)] /\ inHeap' = inHeap \cup {Md(t).index}
      <4>1. /\ word'[b].refs = 0 /\ \A x \in Blocks \ {b} : word'[x] = word[x]
            /\ \A x \in Blocks \ {b} : x \in inHeap' <=> x \in inHeap
        BY <2>2, <2>3, <3>2, VersionWritten
      <4> QED
        BY <2>3, <4>1 DEF Referenced
    <3> QED
      BY <1>14, <2>2, <2>3, <3>1, <3>2 DEF LightRelease, LightPublish, shared
  <2>6. Referenced(c)' = Referenced(c)
    BY <2>5 DEF Referenced
  <2> QED
    BY <1>1, <1>2, <1>9, <2>1, <2>4, <2>6 DEF Using, Leaving
<1>15. ASSUME NEW t \in Threads, PopUsed(t)
       PROVE  Sums
  <2>1. /\ Step(t) /\ UNCHANGED <<word, inHeap>> /\ Class(t)' = Class(t)
        /\ pc[t] = "popUsed" /\ pc'[t] = "popFree" /\ Inc(used_count, Class(t))
    BY <1>15 DEF Step, PopUsed, Goto, TypeOK
  <2>2. p2 = p /\ s2 = s /\ q2 = IF c = Class(t) THEN q + 1 ELSE q
    BY <1>1, <1>2, <1>3, <1>5, <1>8, <2>1 DEF Using, Leaving
  <2>3. f2 = IF c = Class(t) THEN (f + 1) % CounterMod ELSE f
    BY <1>1, <1>2, <2>1 DEF Inc, TypeOK
  <2>4. CASE c = Class(t)
    <3>1. (((f + 1) % CounterMod) + p) % CounterMod = (f + 1 + p) % CounterMod
      BY <1>3, Moved
    <3>2. f2 + p2 = ((f + 1) % CounterMod) + p /\ f + 1 + p = f + p + 1 /\ s2 + q2 = s + q + 1
      BY <1>3, <2>2, <2>3, <2>4
    <3> QED
      BY <3>1, <3>2 DEF Sums
  <2> QED
    BY <1>6, <2>2, <2>3, <2>4
<1>16. ASSUME NEW t \in Threads, PushUsed(t) \/ FreedUsed(t)
       PROVE  Sums
  <2>1. /\ Step(t) /\ UNCHANGED <<word, inHeap>> /\ Dec(used_count, Class(t))
        /\ pc[t] \in {"pushUsed", "freedUsed"} /\ pc'[t] \in {"pushFree", "idle"}
    BY <1>16 DEF Step, PushUsed, FreedUsed, Return, Goto, TypeOK
  <2>2. p2 = p /\ s2 = s /\ q2 = IF c = Class(t) THEN q - 1 ELSE q
    BY <1>1, <1>2, <1>3, <1>5, <1>8, <2>1 DEF Using, Leaving
  <2>3. f2 = IF c = Class(t) THEN (f + CounterMod - 1) % CounterMod ELSE f
    BY <1>1, <1>2, <2>1 DEF Dec, TypeOK
  <2>4. CASE c = Class(t)
    <3>1. (((f + CounterMod - 1) % CounterMod) + 1 + p) % CounterMod = (f + p) % CounterMod
      BY <1>3, Moved
    <3>2. f2 + p2 + 1 = ((f + CounterMod - 1) % CounterMod) + 1 + p /\ s2 + q2 + 1 = s + q
      BY <1>3, <2>2, <2>3, <2>4
    <3> QED
      BY <3>1, <3>2 DEF Sums
  <2> QED
    BY <1>6, <2>2, <2>3, <2>4
<1>17. ASSUME NEW t \in Threads, BaseUsed(t)
       PROVE  Sums
  <2>1. /\ Step(t) /\ UNCHANGED <<word, inHeap>> /\ Inc(used_count, Class(t))
        /\ pc[t] = "baseUsed" /\ pc'[t] = "idle"
    BY <1>17 DEF Step, BaseUsed, Return, Goto, TypeOK
  <2>2. q2 = q /\ s2 = s /\ p2 = IF c = Class(t) THEN p - 1 ELSE p
    BY <1>1, <1>2, <1>3, <1>5, <1>8, <2>1 DEF Using, Leaving
  <2>3. f2 = IF c = Class(t) THEN (f + 1) % CounterMod ELSE f
    BY <1>1, <1>2, <2>1 DEF Inc, TypeOK
  <2>4. CASE c = Class(t)
    <3>1. (((f + 1) % CounterMod) + p2) % CounterMod = (f + 1 + p2) % CounterMod
      BY <1>3, Moved
    <3>2. f2 + p2 = ((f + 1) % CounterMod) + p2 /\ f + 1 + p2 = f + p /\ s2 + q2 = s + q
      BY <1>3, <2>2, <2>3, <2>4
    <3> QED
      BY <3>1, <3>2 DEF Sums
  <2> QED
    BY <1>6, <2>2, <2>3, <2>4
<1>18. ASSUME NEW t \in Threads, BaseAllocate(t)
       PROVE  Sums
  <2>1. Step(t) /\ pc[t] = "base" /\ UNCHANGED used_count
    BY <1>18 DEF Step, BaseAllocate
  <2>2. CASE Return(t) /\ UNCHANGED <<word, inHeap, born, held>>
    <3>1. pc'[t] = "idle"
      BY <2>2 DEF Return, Goto, TypeOK
    <3> QED
      BY <1>8, <1>9, <2>1, <2>2, <3>1 DEF Using, Leaving
  <2>3. ASSUME NEW b \in inHeap, NEW version,
               word' = [word EXCEPT ![b] = [version |-> version, refs |-> 1, size |-> Class(t)]],
               inHeap' = inHeap \ {b},
               \/ Class(t) = Large /\ Return(t)
               \/ /\ Class(t) # Large /\ Goto(t, "baseUsed")
                  /\ \E md : call' = [call EXCEPT ![t].md = md]
        PROVE  Sums
    <3>1. /\ b \in Blocks /\ word'[b].refs = 1 /\ word'[b].size = Class(t)
          /\ \A x \in Blocks \ {b} : word'[x] = word[x] /\ (x \in inHeap' <=> x \in inHeap)
      BY <2>3 DEF TypeOK
    <3>2. b \notin Referenced(c) /\ (b \in Referenced(c)' <=> c = Class(t))
      BY <2>3, <3>1 DEF Referenced
    <3>3. s2 = IF c = Class(t) THEN s + 1 ELSE s
      BY <1>1, <1>2, <1>3, <3>1, <3>2, ReferencedMoves
    <3>4. f2 = f /\ q2 = q /\ p2 = IF c = Class(t) THEN p + 1 ELSE p
      <4>1. CASE Class(t) = Large /\ Return(t)
        <5>1. pc'[t] = "idle" /\ c # Class(t)
          BY <4>1, SizesAssumption DEF Return, Goto, TypeOK
        <5> QED
          BY <1>1, <1>2, <1>3, <1>5, <2>1, <5>1 DEF Using, Leaving
      <4>2. CASE Goto(t, "baseUsed") /\ \E md : call' = [call EXCEPT ![t].md = md]
        <5>1. pc'[t] = "baseUsed" /\ Class(t)' = Class(t)
          BY <4>2 DEF Goto, TypeOK, Calls
        <5> QED
          BY <1>1, <1>2, <1>3, <1>5, <2>1, <5>1 DEF Using, Leaving
      <4> QED
        BY <2>3, <4>1, <4>2
    <3>5. c = Class(t) => f2 + p2 = f + p + 1 /\ s2 + q2 = s + q + 1
      BY <1>3, <3>3, <3>4
    <3> QED
      BY <1>6, <3>3, <3>4, <3>5 DEF Sums
  <2>4. CASE \E b \in inHeap : \E version :
               /\ word' = [word EXCEPT ![b] = [version |-> version, refs |-> 1, size |-> Class(t)]]
               /\ inHeap' = inHeap \ {b}
               /\ \/ Class(t) = Large /\ Return(t)
                  \/ /\ Class(t) # Large /\ Goto(t, "baseUsed")
                     /\ \E md : call' = [call EXCEPT ![t].md = md]
    BY <2>3, <2>4
  <2> QED
    BY <1>18, <2>2, <2>4 DEF BaseAllocate
<1>19. ASSUME NEW t \in Threads, BaseUndup(t)
       PROVE  Sums
  <2>0. PICK b : b = Md(t).index
    OBVIOUS
  <2>1. /\ Step(t) /\ pc[t] = "undup" /\ UNCHANGED <<used_count, inHeap>>
        /\ b \in Blocks \ inHeap /\ word[b].refs > 0 /\ word[b].size \in Classes \cup {Large}
        /\ Matches(Md(t)) /\ word[b].refs \in Nat
    BY <1>19, <2>0, OwedAlive DEF Step, BaseUndup, Owing, TypeOK
  <2>2. CASE word[b].refs > 1
    <3>0. word[Md(t).index].refs > 1 /\ ~ (word[Md(t).index].refs <= 1)
      BY <2>0, <2>1, <2>2
    <3>1. Return(t) /\ word' = [word EXCEPT ![Md(t).index].refs = @ - 1]
      BY <1>19, <2>1, <3>0 DEF BaseUndup
    <3>2. \A x \in Blocks : word'[x].size = word[x].size /\ (word'[x].refs > 0 <=> word[x].refs > 0)
      <4>1. SetRefs(b, word[b].refs - 1) /\ word[b].refs - 1 > 0
        BY <2>0, <2>1, <2>2, <3>1 DEF SetRefs
      <4> QED
        BY <2>1, <2>2, <4>1, RefsWritten
    <3>3. Referenced(c)' = Referenced(c) /\ pc'[t] = "idle"
      <4>1. pc'[t] = "idle"
        BY <3>1 DEF Return, Goto, TypeOK
      <4>2. UNCHANGED inHeap
        BY <2>1
      <4> HIDE <3>1, <2>1
      <4> QED
        BY <3>2, <4>1, <4>2 DEF Referenced
    <3> QED
      BY <1>1, <1>2, <1>9, <2>1, <3>3 DEF Using, Leaving
  <2>3. CASE word[b].refs = 1
    <3>0. word[Md(t).index].refs <= 1 /\ ~ (word[Md(t).index].refs > 1)
      BY <2>0, <2>3
    <3>1. /\ word' = [word EXCEPT ![Md(t).index].refs = 0]
          /\ call' = [call EXCEPT ![t].size = word[Md(t).index].size]
          /\ Goto(t, IF word[Md(t).index].size = Large THEN "abort" ELSE "readUsed")
      BY <1>19, <2>1, <3>0 DEF BaseUndup
    <3>2. pc'[t] \in {"abort", "readUsed"} /\ Class(t)' = word[b].size
      <4>1. pc'[t] \in {"abort", "readUsed"}
        BY <3>1 DEF Goto, TypeOK
      <4>2. call[t] \in Calls
        BY DEF TypeOK
      <4>3. call'[t] = [call[t] EXCEPT !.size = word[b].size]
        BY <2>0, <3>1 DEF TypeOK
      <4>4. Class(t)' = word[b].size
        BY <4>2, <4>3 DEF Calls
      <4> QED
        BY <4>1, <4>4
    <3>3. word'[b].refs = 0 /\ \A x \in Blocks \ {b} : word'[x] = word[x]
      <4>1. SetRefs(b, 0)
        BY <2>0, <3>1 DEF SetRefs
      <4> QED
        BY <2>1, <4>1, RefsWritten
    <3>4. b \notin Referenced(c)' /\ (b \in Referenced(c) <=> c = word[b].size)
      BY <2>1, <3>3 DEF Referenced
    <3>5. s2 = IF c = word[b].size THEN s - 1 ELSE s
      BY <1>1, <1>2, <1>3, <2>1, <3>3, <3>4, ReferencedMoves
    <3>6. f2 = f /\ p2 = p /\ q2 = IF c = word[b].size THEN q + 1 ELSE q
      BY <1>1, <1>2, <1>3, <1>5, <2>1, <3>2 DEF Using, Leaving
    <3>7. s2 + q2 = s + q
      BY <1>3, <3>5, <3>6
    <3> QED
      BY <3>6, <3>7 DEF Sums
  <2> QED
    BY <2>1, <2>2, <2>3
<1>20. ASSUME NEW t \in Threads, Revive(t)
       PROVE  Sums
  <2>0. PICK b : b = Top(t).index
    OBVIOUS
  <2>1. /\ Step(t) /\ pc[t] = "revive" /\ Top(t) \in InHand(t) /\ UNCHANGED <<used_count, inHeap>>
    BY <1>20 DEF Step, Revive, InHand, Popped
  <2>2. /\ Matches(Top(t)) /\ b \in Blocks \ inHeap /\ word[b].refs = 0 /\ word[b].size = Class(t)
    BY <2>0, <2>1, HandFound
  <2>3. /\ word' = [word EXCEPT ![Top(t).index].version = Bump(word[Top(t).index].version),
                                ![Top(t).index].refs = 1]
        /\ pc'[t] = "idle"
    BY <1>20, <2>0, <2>2 DEF Revive, Return, Goto, TypeOK
  <2>4. /\ word'[b].refs = 1 /\ word'[b].size = Class(t)
        /\ \A x \in Blocks \ {b} : word'[x] = word[x]
    <3>1. SetLife(b, Bump(word[b].version), 1)
      BY <2>0, <2>3 DEF SetLife
    <3> QED
      BY <2>2, <3>1, LifeWritten
  <2>5. b \notin Referenced(c) /\ (b \in Referenced(c)' <=> c = Class(t))
    BY <2>1, <2>2, <2>4 DEF Referenced
  <2>6. s2 = IF c = Class(t) THEN s + 1 ELSE s
    BY <1>1, <1>2, <1>3, <2>1, <2>2, <2>4, <2>5, ReferencedMoves
  <2>7. f2 = f /\ p2 = p /\ q2 = IF c = Class(t) THEN q - 1 ELSE q
    BY <1>1, <1>2, <1>3, <1>5, <2>1, <2>3 DEF Using, Leaving
  <2>8. s2 + q2 = s + q
    BY <1>3, <2>6, <2>7
  <2> QED
    BY <2>7, <2>8 DEF Sums
<1> QED
    BY <1>7, <1>10, <1>11, <1>12, <1>13, <1>14, <1>15, <1>16, <1>17, <1>18, <1>19, <1>20
       DEF Kept, Step

LEMMA TalliedIs ==
    Tallied <=> \A c \in Classes : FreeTally(c) /\ UsedTally(c)
BY DEF Tallied, FreeTally, UsedTally, Pushed, Taken, Cut, Using

LEMMA TalliedStays ==
    ASSUME TypeOK, TypeOK', Located, Counted, Hands, Stacks, Looked, Linked, Tallied, [Kept]_vars
    PROVE  Tallied'
<1>1. \A c \in Classes : FreeTally(c)' /\ UsedTally(c)'
    BY TalliedIs, FreeStays, UsedStays
<1> QED
    BY <1>1 DEF Tallied, FreeTally, UsedTally, Pushed, Taken, Cut, Using

-----------------------------------------------------------------------------
(* The inductive invariant *)

LEMMA InitInv ==
    ASSUME Init
    PROVE  Inv
<1>1. /\ \A t \in Threads : pc[t] = "idle" /\ InHand(t) = {} /\ call[t] = NoCall
      /\ Dead = {} /\ BagToSet(held) = {} /\ \A md : Copies(md) = 0
    BY DEF Init, InHand, Popped, Leaving, Dead, EmptyBag, SetToBag, BagToSet, Copies, BagIn
<1>2. \A c : Stacked(c) = {} /\ Referenced(c) = {} /\ Cardinality(Stacked(c)) = 0
                 /\ Cardinality(Referenced(c)) = 0
  <2>1. \A c : Stacked(c) = {} /\ Referenced(c) = {}
    BY <1>1 DEF Stacked, Referenced, Init
  <2> QED
    BY <2>1, FS_EmptySet
<1>3. \A md : Owed(md) = {} /\ Cardinality(Owed(md)) = 0
  <2>1. \A md : Owed(md) = {}
    BY <1>1 DEF Owed, Owing
  <2> QED
    BY <2>1, FS_EmptySet
<1>4. TypeOK
  <2>1. 0 \in 0 .. VersionMod - 1 /\ 0 \in 0 .. CounterMod - 1
    BY ModAssumption
  <2>2. NoCall \in Calls
    BY DEF NoCall, Calls
  <2>3. IsABag(held)
    BY DEF Init, EmptyBag, SetToBag, IsABag
  <2> QED
    BY <1>1, <2>1, <2>2, <2>3 DEF Init, TypeOK, Labels
<1>5. Located /\ Hands /\ Looked /\ Linked
    BY <1>1, <1>2 DEF Located, Locals, Hands, Looked, Linked, Popping, Popped, Leaving, Owing
<1>6. Counted
    BY <1>1, <1>3 DEF Counted, Init, Owing
<1>7. Stacks
  <2> SUFFICES ASSUME NEW c \in Classes
               PROVE  \E s \in [1 .. Cardinality(Stacked(c)) -> Stacked(c)] : InOrder(c, s)
    BY DEF Stacks
  <2> DEFINE s == [i \in 1 .. 0 |-> {}]
  <2>1. s \in [1 .. 0 -> {}]
    OBVIOUS
  <2>2. InOrder(c, s)
    BY <1>2 DEF InOrder, Init
  <2> QED
    BY <1>2, <2>1, <2>2
<1>8. Tallied
  <2>1. \A c, labels : "idle" \notin labels => At(c, labels) = {}
    BY <1>1 DEF At
  <2>2. \A c, labels : "idle" \notin labels => Cardinality(At(c, labels)) = 0
    BY <2>1, FS_EmptySet
  <2> QED
    BY <1>2, <2>2 DEF Tallied, Init, Leaving
<1> QED
    BY <1>4, <1>5, <1>6, <1>7, <1>8 DEF Inv, Sound

\* A step that changes nothing keeps the versions.
LEMMA TagsStutter ==
    UNCHANGED vars => TagsHold
BY DEF vars, TagsHold, Matches

LEMMA SoundStays ==
    ASSUME TypeOK, Sound, [Kept]_vars, [TagsHold]_vars
    PROVE  TypeOK' /\ Sound'
<1> USE DEF Sound
<1>0. TagsHold
    BY TagsStutter
<1>1. TypeOK'
    BY TypeStays
<1>2. Located'
    BY LocatedStays
<1>3. Counted'
    BY CountedStays
<1>4. Hands'
    BY HandsStay
<1>5. Stacks'
    BY StacksStay
<1>6. Looked'
    BY <1>0, LookedStays
<1>7. Linked'
    BY LinkedStays
<1>8. Tallied'
    BY <1>1, TalliedStays
<1> QED
    BY <1>1, <1>2, <1>3, <1>4, <1>5, <1>6, <1>7, <1>8

\* A late dup ends the behaviour in a state of the right type.
LEMMA LateDupEnds ==
    ASSUME TypeOK, Located, NEW t \in Threads, LateDup(t)
    PROVE  TypeOK' /\ Astray'
<1>1. Md(t) \in born /\ Md(t) \in Descriptors /\ Md(t).index \in Blocks
          /\ Md(t).version \in 0 .. VersionMod - 1
    BY DEF LateDup, Located, Locals, Descriptors, TypeOK
<1>2. word' \in [Blocks -> WordTypes]
  <2>1. SetLife(Md(t).index, Md(t).version, 1)
    BY DEF LateDup, SetLife
  <2> QED
    BY <1>1, <2>1, LifeWritten
<1>3. pc' \in [Threads -> Labels] /\ pc'[t] = "astray"
    BY DEF LateDup, Goto, TypeOK, Labels
<1>4. IsABag(held)' /\ BagToSet(held)' \subseteq born'
    BY <1>1, Holding DEF LateDup, TypeOK
<1> QED
    BY <1>2, <1>3, <1>4 DEF LateDup, TypeOK, WordTypes, Astray

LEMMA InvStays ==
    ASSUME Inv, [Next]_vars, [TagsHold]_vars
    PROVE  Inv'
<1>1. CASE UNCHANGED vars
  <2>1. UNCHANGED pc /\ (Astray' <=> Astray)
    BY <1>1 DEF vars, Astray
  <2>2. CASE Astray
    BY <1>1, <2>1, <2>2 DEF Inv, TypeOK, vars
  <2>3. CASE ~ Astray
    BY <1>1, <2>3, SoundStays DEF Inv
  <2> QED
    BY <2>2, <2>3
<1>2. CASE ~ Astray /\ Kept
    BY <1>2, SoundStays DEF Inv
<1>3. CASE ~ Astray /\ \E t \in Threads : LateDup(t)
    BY <1>3, LateDupEnds DEF Inv, Sound
<1> QED
    BY <1>1, <1>2, <1>3 DEF Next

(***************************************************************************)
(* All that Inv says about blocks, stacks, hands, references and counters  *)
(* holds in every state, as long as the version tags do what they are      *)
(* there for.                                                              *)
(***************************************************************************)
THEOREM Safety ==
    Spec /\ [][TagsHold]_vars => []Inv
BY InitInv, InvStays, PTL DEF Spec

(***************************************************************************)
(* Types: links and heads are descriptors or END or what a client wrote,   *)
(* no count of references is below 0, and no counter leaves its range.     *)
(***************************************************************************)
THEOREM TypeCorrect ==
    Spec /\ [][TagsHold]_vars => []TypeOK
<1>1. Inv => TypeOK
    BY DEF Inv
<1> QED
    BY <1>1, Safety, PTL

(***************************************************************************)
(* No assert fails, but the one on the size of a block of no class: what a *)
(* pop finds is dead and has the version it was cached with, and a release *)
(* finds the version of its caller.                                        *)
(***************************************************************************)
THEOREM NeverAborts ==
    Spec /\ [][TagsHold]_vars => []NoAbort
<1>1. Inv => NoAbort
  <2> SUFFICES ASSUME Inv, Sound, NEW t \in Threads, pc[t] = "abort"
               PROVE  /\ call[t].op = "release" /\ Class(t) = Large
                      /\ Matches(Md(t)) /\ word[Md(t).index].refs = 0
    BY DEF NoAbort, Inv
  <2>1. call[t].op = "release" /\ Class(t) = Large
    BY DEF Sound, Located, Locals, Leaving
  <2>2. Md(t) \in InHand(t)
    BY DEF InHand, Popped, Leaving
  <2> QED
    BY <2>1, <2>2, HandFound DEF Inv, Sound
<1> QED
    BY <1>1, Safety, PTL

-----------------------------------------------------------------------------
(* The stacks as a thread walks them *)

LEMMA Least ==
    ASSUME NEW S \in SUBSET Nat, S # {}
    PROVE  \E x \in S : \A y \in S : x <= y
<1> DEFINE R == {ss \in Nat \X Nat : ss[1] < ss[2]}
<1>1. IsWellFoundedOn(R, Nat)
    BY NatLessThanWellFounded DEF OpToRel
<1>2. PICK x \in S : \A y \in S : ~ (<<y, x>> \in R)
    BY <1>1, WFMin
<1>3. \A y \in S : y < x => <<y, x>> \in R
    OBVIOUS
<1>4. \A y \in S : ~ (y < x)
    BY <1>2, <1>3
<1>5. \A y \in S : y \in Nat /\ x \in Nat
    OBVIOUS
<1> QED
    BY <1>4, <1>5

\* What follows e along the links.
Walk(c, e) ==
    [k \in 0 .. Cardinality(Blocks) |->
        IF k = 0 THEN head[c]
        ELSE IF e[k - 1] \in Descriptors THEN link[e[k - 1].index]
        ELSE Junk]

\* The equation that defines Entry has one solution.
LEMMA EntryIs ==
    ASSUME NEW c, NEW F, F = Walk(c, F)
    PROVE  Entry(c) = F
<1> DEFINE N == Cardinality(Blocks)
           E == Entry(c)
<1>1. E = Walk(c, E)
  <2>1. E = CHOOSE e : e = Walk(c, e)
    BY DEF Entry, Walk
  <2> QED
    BY <2>1
<1>2. N \in Nat
    BY FiniteAssumption, FS_CardinalityType
<1>3. /\ \A k \in 0 .. N : E[k] = IF k = 0 THEN head[c]
                                  ELSE IF E[k - 1] \in Descriptors THEN link[E[k - 1].index]
                                  ELSE Junk
      /\ E = [k \in 0 .. N |-> E[k]]
    BY <1>1 DEF Walk
<1>4. /\ \A k \in 0 .. N : F[k] = IF k = 0 THEN head[c]
                                  ELSE IF F[k - 1] \in Descriptors THEN link[F[k - 1].index]
                                  ELSE Junk
      /\ F = [k \in 0 .. N |-> F[k]]
    BY DEF Walk
<1> HIDE DEF E, N
<1> DEFINE S == {k \in 0 .. N : E[k] # F[k]}
<1>5. ASSUME S # {}
      PROVE  FALSE
  <2>1. S \in SUBSET Nat
    BY <1>2
  <2>2. PICK k \in S : \A j \in S : k <= j
    BY <1>5, <2>1, Least
  <2>3. k # 0 /\ k \in 0 .. N /\ E[k] # F[k]
    BY <1>3, <1>4, <2>2
  <2>4. k - 1 \in 0 .. N /\ ~ (k <= k - 1)
    BY <1>2, <2>3
  <2>5. k - 1 \notin S
    BY <2>2, <2>4
  <2>6. E[k - 1] = F[k - 1]
    BY <2>4, <2>5
  <2> QED
    BY <1>3, <1>4, <2>3, <2>6
<1>6. \A k \in 0 .. N : E[k] = F[k]
    BY <1>5
<1>7. [k \in 0 .. N |-> E[k]] = [k \in 0 .. N |-> F[k]]
    BY <1>6
<1>8. E = F
    BY <1>3, <1>4, <1>7
<1> QED
    BY <1>8 DEF E

LEMMA EntriesAre ==
    ASSUME TypeOK, NEW c \in Classes, NEW n, n = Cardinality(Stacked(c)),
           NEW s \in [1 .. n -> Stacked(c)], InOrder(c, s)
    PROVE  /\ n \in 0 .. Cardinality(Blocks)
           /\ Entry(c) = [k \in 0 .. Cardinality(Blocks) |->
                             IF k < n THEN Descriptor(s[n - k]) ELSE IF k = n THEN END ELSE Junk]
<1> DEFINE N == Cardinality(Blocks)
           F == [k \in 0 .. N |->
                    IF k < n THEN Descriptor(s[n - k]) ELSE IF k = n THEN END ELSE Junk]
<1>1. n \in Nat /\ N \in Nat /\ n <= N
  <2>1. Stacked(c) \subseteq Blocks
    BY DEF Stacked, Dead
  <2> QED
    BY <2>1, FiniteAssumption, FS_Subset, FS_CardinalityType
<1>2. /\ head[c] = IF n = 0 THEN END ELSE Descriptor(s[n])
      /\ \A i \in 1 .. n : link[s[i]] = IF i = 1 THEN END ELSE Descriptor(s[i - 1])
    BY DEF InOrder
<1>3. \A i \in 1 .. n : /\ Descriptor(s[i]) \in Descriptors /\ Descriptor(s[i]).index = s[i]
    BY DescriptorType DEF Stacked, Dead
<1>4. END \notin Descriptors /\ Junk \notin Descriptors
    BY NamesAssumption
<1>5. ASSUME NEW k \in 0 .. N
      PROVE  F[k] = IF k = 0 THEN head[c]
                    ELSE IF F[k - 1] \in Descriptors THEN link[F[k - 1].index]
                    ELSE Junk
  <2>1. F[k] = IF k < n THEN Descriptor(s[n - k]) ELSE IF k = n THEN END ELSE Junk
    BY <1>5
  <2>2. CASE k = 0
    <3>1. F[k] = IF 0 < n THEN Descriptor(s[n]) ELSE END
      BY <1>1, <2>1, <2>2
    <3> QED
      BY <1>1, <1>2, <2>2, <3>1
  <2>3. CASE k # 0
    <3>1. PICK j \in 0 .. N : j = k - 1 /\ k = j + 1
      BY <1>1, <2>3
    <3>2. F[j] = IF j < n THEN Descriptor(s[n - j]) ELSE IF j = n THEN END ELSE Junk
      OBVIOUS
    <3>3. CASE j < n
      <4>1. n - j \in 1 .. n /\ n - k = (n - j) - 1 /\ (k < n <=> n - j # 1) /\ (k = n <=> n - j = 1)
        BY <1>1, <3>1, <3>3
      <4>2. F[j] \in Descriptors /\ F[j].index = s[n - j]
        BY <1>3, <3>2, <3>3, <4>1
      <4>3. link[s[n - j]] = IF k = n THEN END ELSE Descriptor(s[n - k])
        BY <1>2, <4>1
      <4> QED
        BY <1>1, <2>1, <2>3, <3>1, <4>1, <4>2, <4>3
    <3>4. CASE ~ (j < n)
      <4>1. F[j] \notin Descriptors /\ ~ (k < n) /\ k # n
        BY <1>1, <1>4, <3>1, <3>2, <3>4
      <4> QED
        BY <2>1, <2>3, <3>1, <4>1
    <3> QED
      BY <3>3, <3>4
  <2> QED
    BY <2>2, <2>3
<1>6. F = Walk(c, F)
    BY <1>5 DEF Walk
<1> QED
    BY <1>1, <1>6, EntryIs

\* Walking from the head, one meets the stacked blocks, and nothing else.
LEMMA CachedIs ==
    ASSUME TypeOK, Stacks, NEW c \in Classes
    PROVE  /\ Cached(c) = {Descriptor(b) : b \in Stacked(c)}
           /\ \E n \in 0 .. Cardinality(Blocks) : Entry(c)[n] = END
<1>1. PICK n : n = Cardinality(Stacked(c)) /\ n \in Nat
    BY StackedFinite
<1>2. PICK s \in [1 .. n -> Stacked(c)] : InOrder(c, s)
    BY <1>1 DEF Stacks
<1>3. PICK N : N = Cardinality(Blocks) /\ N \in Nat
    BY FiniteAssumption, FS_CardinalityType
<1>4. /\ n \in 0 .. N
      /\ \A k \in 0 .. N : Entry(c)[k] = IF k < n THEN Descriptor(s[n - k])
                                         ELSE IF k = n THEN END ELSE Junk
    BY <1>1, <1>2, <1>3, EntriesAre
<1>5. END \notin Descriptors /\ Junk \notin Descriptors
    BY NamesAssumption
<1>6. ASSUME NEW md \in Cached(c)
      PROVE  \E b \in Stacked(c) : md = Descriptor(b)
  <2>1. PICK k \in 0 .. N : md = Entry(c)[k] /\ md \in Descriptors
    BY <1>3 DEF Cached
  <2>2. k < n /\ md = Descriptor(s[n - k])
    BY <1>4, <1>5, <2>1
  <2>3. n - k \in 1 .. n
    BY <1>1, <2>2
  <2> QED
    BY <2>2, <2>3
<1>7. ASSUME NEW b \in Stacked(c)
      PROVE  Descriptor(b) \in Cached(c)
  <2>1. PICK i \in 1 .. n : s[i] = b
    BY <1>1, <1>2 DEF InOrder
  <2>2. PICK k \in 0 .. N : k = n - i /\ k < n /\ n - k = i
    <3>1. n \in Nat /\ N \in Nat /\ n <= N
      BY <1>1, <1>3, <1>4
    <3>2. n - i \in 0 .. N /\ n - i < n /\ n - (n - i) = i
      BY <3>1, <2>1
    <3> QED
      BY <3>2
  <2>3. Entry(c)[k] = Descriptor(b)
    BY <1>4, <2>1, <2>2
  <2>4. Descriptor(b) \in Descriptors
    BY DescriptorType DEF Stacked, Dead
  <2> QED
    BY <1>3, <2>3, <2>4 DEF Cached
<1> QED
    BY <1>3, <1>4, <1>6, <1>7

LEMMA CachedCount ==
    ASSUME TypeOK, Stacks, NEW c \in Classes
    PROVE  Cardinality(Cached(c)) = Cardinality(Stacked(c))
<1> DEFINE f == [b \in Stacked(c) |-> Descriptor(b)]
<1>1. \A b \in Stacked(c) : Descriptor(b).index = b
    BY DescriptorType DEF Stacked, Dead
<1>2. f \in Bijection(Stacked(c), Cached(c))
  <2>1. f \in [Stacked(c) -> Cached(c)] /\ \A d \in Cached(c) : \E b \in Stacked(c) : f[b] = d
    BY CachedIs
  <2>2. \A a, b \in Stacked(c) : f[a] = f[b] => a = b
    BY <1>1
  <2> HIDE DEF f
  <2> QED
    BY <2>1, <2>2 DEF Bijection, Injection, Surjection, IsInjective
<1>3. ExistsBijection(Stacked(c), Cached(c))
    BY <1>2 DEF ExistsBijection
<1> QED
    BY <1>3, StackedFinite, FS_Bijection

(***************************************************************************)
(* Every stack ends, and holds dead blocks of its class under their        *)
(* present versions; what a thread has in its hand is in no stack, not in  *)
(* the heap, and in no other hand.                                         *)
(***************************************************************************)
THEOREM StacksAreSound ==
    Spec /\ [][TagsHold]_vars => []StackSound
<1>1. Inv => StackSound
  <2> SUFFICES ASSUME TypeOK, Sound
               PROVE  StackSound
    BY DEF Inv, StackSound
  <2> USE DEF Sound
  <2>1. ASSUME NEW c \in Classes, NEW md \in Cached(c)
        PROVE  /\ md = Descriptor(md.index) /\ md.index \notin inHeap
               /\ word[md.index].refs = 0 /\ word[md.index].size = c
    <3>1. PICK b \in Stacked(c) : md = Descriptor(b)
      BY <2>1, CachedIs
    <3>2. md.index = b
      BY <3>1, DescriptorType DEF Stacked, Dead
    <3> QED
      BY <3>1, <3>2 DEF Stacked, Dead
  <2>2. ASSUME NEW t \in Threads, NEW md \in InHand(t)
        PROVE  /\ md.index \notin inHeap
               /\ \A c \in Classes : md \notin Cached(c)
               /\ \A u \in Threads \ {t} : md \notin InHand(u)
    <3>1. md.index \notin inHeap /\ \A u \in Threads \ {t} : md \notin InHand(u)
      BY <2>2, HandIs DEF Dead
    <3>2. ASSUME NEW c \in Classes
          PROVE  md \notin Cached(c)
      BY <2>2, CachedIs DEF Stacked
    <3> QED
      BY <3>1, <3>2
  <2>3. \A c \in Classes : \E n \in 0 .. Cardinality(Blocks) : Entry(c)[n] = END
    BY CachedIs
  <2> QED
    BY <2>1, <2>2, <2>3 DEF StackSound
<1> QED
    BY <1>1, Safety, PTL

(***************************************************************************)
(* Whenever no call is running, the counters say how many blocks of each   *)
(* class are cached and referenced, and no block is lost.                  *)
(***************************************************************************)
THEOREM CountersComeRight ==
    Spec /\ [][TagsHold]_vars => []CountersSettle
<1>1. Inv => CountersSettle
  <2> SUFFICES ASSUME TypeOK, Sound, \A t \in Threads : pc[t] = "idle"
               PROVE  /\ \A c \in Classes :
                            /\ free_count[c] = Cardinality(Cached(c))
                            /\ used_count[c] = Cardinality(Referenced(c))
                      /\ \A b \in Blocks \ inHeap :
                            word[b].refs > 0 \/ \E c \in Classes : Descriptor(b) \in Cached(c)
    BY DEF CountersSettle, Referenced, Inv, Astray
  <2> USE DEF Sound
  <2>1. \A c, labels : "idle" \notin labels => Cardinality(At(c, labels)) = 0
    <3>1. \A c, labels : "idle" \notin labels => At(c, labels) = {}
      BY DEF At
    <3> QED
      BY <3>1, FS_EmptySet
  <2>2. ASSUME NEW n \in 0 .. CounterMod - 1, NEW S, S \subseteq Blocks,
               (n + 0) % CounterMod = (Cardinality(S) + 0) % CounterMod
        PROVE  n = Cardinality(S)
    <3>1. /\ CounterMod \in Nat \ {0} /\ Cardinality(S) \in Nat /\ Cardinality(Blocks) \in Nat
          /\ Cardinality(S) <= Cardinality(Blocks)
      BY <2>2, ModAssumption, FiniteAssumption, FS_Subset, FS_CardinalityType
    <3>2. Cardinality(S) \in 0 .. CounterMod - 1
      BY <3>1, CounterAssumption
    <3>3. n % CounterMod = n /\ Cardinality(S) % CounterMod = Cardinality(S)
      BY <3>1, <3>2, Wrap
    <3>4. n + 0 = n /\ Cardinality(S) + 0 = Cardinality(S)
      BY <3>1
    <3> QED
      BY <2>2, <3>3, <3>4
  <2>3. ASSUME NEW c \in Classes
        PROVE  free_count[c] = Cardinality(Cached(c)) /\ used_count[c] = Cardinality(Referenced(c))
    <3>1. /\ (free_count[c] + 0) % CounterMod = (Cardinality(Stacked(c)) + 0) % CounterMod
          /\ (used_count[c] + 0) % CounterMod = (Cardinality(Referenced(c)) + 0) % CounterMod
      BY <2>1 DEF Tallied, Leaving
    <3>2. Stacked(c) \subseteq Blocks /\ Referenced(c) \subseteq Blocks
      BY DEF Stacked, Dead, Referenced
    <3>3. free_count[c] \in 0 .. CounterMod - 1 /\ used_count[c] \in 0 .. CounterMod - 1
      BY DEF TypeOK
    <3> QED
      BY <2>2, <3>1, <3>2, <3>3, CachedCount
  <2>4. ASSUME NEW b \in Blocks \ inHeap, ~ (word[b].refs > 0)
        PROVE  \E c \in Classes : Descriptor(b) \in Cached(c)
    <3>1. word[b].refs = 0 /\ word[b].size \in Classes \cup {Large}
      BY <2>4 DEF Counted, TypeOK
    <3>2. \A t \in Threads : InHand(t) = {}
      BY DEF InHand, Popped, Leaving
    <3>3. b \in Stacked(word[b].size)
      BY <3>1, <3>2 DEF Stacked, Dead
    <3>4. word[b].size \in Classes
      BY <3>1, <3>3 DEF Hands
    <3> QED
      BY <3>3, <3>4, CachedIs
  <2> QED
    BY <2>3, <2>4
<1> QED
    BY <1>1, Safety, PTL

-----------------------------------------------------------------------------
(* What the cache promises: BlockStore *)

(***************************************************************************)
(* A block that comes alive, out of the heap or out of the cache, does so  *)
(* under a descriptor that it has not had before.                          *)
(***************************************************************************)
FreshLives ==
    ~ Astray' => \A b \in Blocks :
                     word[b].refs = 0 /\ word'[b].refs > 0 => Descriptor(b)' \notin born

\* What a step does to the words and to the descriptors handed out.
LEMMA WordSteps ==
    ASSUME TypeOK, Located, Counted, Hands, [Kept]_vars
    PROVE  \/ UNCHANGED <<word, born>>
           \/ \E t \in Threads : (BaseDup(t) \/ BaseUndup(t)) /\ word' # word
           \/ \E t \in Threads, b \in Blocks :
                 /\ LightPublish(t) /\ UNCHANGED born
                 /\ word[b].refs = 0 /\ word'[b].refs = 0
                 /\ \A x \in Blocks \ {b} : word'[x] = word[x]
           \/ \E b \in Blocks :
                 /\ word[b].refs = 0 /\ word'[b].refs = 1
                 /\ \A x \in Blocks \ {b} : word'[x] = word[x]
                 /\ born' = born \cup {Descriptor(b)'}
<1>1. CASE UNCHANGED vars \/ \E b \in Blocks : Write(b)
    BY <1>1 DEF vars, Write
<1>2. ASSUME NEW t \in Threads, Call(t)
      PROVE  UNCHANGED <<word, born>>
    BY <1>2 DEF Call, CallAllocate, CallRelease, CallDup, shared
<1>3. ASSUME NEW t \in Threads, BaseDup(t) \/ BaseUndup(t)
      PROVE  UNCHANGED <<word, born>> \/ word' # word
    BY <1>3 DEF BaseDup, BaseUndup
<1>4. ASSUME NEW t \in Threads,
             \/ BaseUsed(t) \/ PopHead(t) \/ PopLink(t) \/ PopCas(t) \/ PopUsed(t) \/ PopFree(t)
             \/ ReadUsed(t) \/ ReadFree(t) \/ LightRelease(t) \/ FreedUsed(t)
             \/ PushHead(t) \/ PushLink(t) \/ PushCas(t) \/ PushUsed(t) \/ PushFree(t)
      PROVE  UNCHANGED <<word, born>>
    BY <1>4 DEF BaseUsed, PopHead, PopLink, PopCas, PopUsed, PopFree, ReadUsed, ReadFree,
       LightRelease, FreedUsed, PushHead, PushLink, PushCas, PushUsed, PushFree, shared
<1>5. ASSUME NEW t \in Threads, LightPublish(t), ~ UNCHANGED <<word, born>>
      PROVE  \E b \in Blocks :
                 /\ UNCHANGED born
                 /\ word[b].refs = 0 /\ word'[b].refs = 0
                 /\ \A x \in Blocks \ {b} : word'[x] = word[x]
  <2>1. PICK b : b = Md(t).index
    OBVIOUS
  <2>2. Md(t) \in InHand(t)
    BY <1>5 DEF LightPublish, InHand, Popped, Leaving
  <2>3. b \in Blocks /\ word[b].refs = 0
    BY <2>1, <2>2, HandFound
  <2>4. word' = [word EXCEPT ![Md(t).index].version = Bump(@)] /\ UNCHANGED born
    BY <1>5 DEF LightPublish
  <2>5. /\ word'[b].refs = 0
        /\ \A x \in Blocks \ {b} : word'[x] = word[x]
    BY <2>1, <2>3, <2>4 DEF TypeOK
  <2> QED
    BY <2>3, <2>4, <2>5
<1>6. ASSUME NEW t \in Threads, Revive(t), ~ UNCHANGED <<word, born>>
      PROVE  \E b \in Blocks :
                 /\ word[b].refs = 0 /\ word'[b].refs = 1
                 /\ \A x \in Blocks \ {b} : word'[x] = word[x]
                 /\ born' = born \cup {Descriptor(b)'}
  <2>1. PICK b : b = Top(t).index
    OBVIOUS
  <2>2. Top(t) \in InHand(t)
    BY <1>6 DEF Revive, InHand, Popped
  <2>3. b \in Blocks /\ word[b].refs = 0 /\ Matches(Top(t))
    BY <2>1, <2>2, HandFound
  <2>4. PICK md : md = [version |-> Bump(word[b].version), index |-> b]
    OBVIOUS
  <2>5. /\ word' = [word EXCEPT ![Top(t).index].version = md.version, ![Top(t).index].refs = 1]
        /\ born' = born \cup {md}
    BY <1>6, <2>1, <2>3, <2>4 DEF Revive
  <2>6. /\ word'[b].refs = 1 /\ word'[b].version = md.version
        /\ \A x \in Blocks \ {b} : word'[x] = word[x]
    <3>1. SetLife(b, md.version, 1)
      BY <2>1, <2>5 DEF SetLife
    <3> QED
      BY <2>3, <3>1, LifeWritten
  <2>7. md = Descriptor(b)'
    BY <2>4, <2>6 DEF Descriptor
  <2> QED
    BY <2>3, <2>5, <2>6, <2>7
<1>7. ASSUME NEW t \in Threads, BaseAllocate(t), ~ UNCHANGED <<word, born>>
      PROVE  \E b \in Blocks :
                 /\ word[b].refs = 0 /\ word'[b].refs = 1
                 /\ \A x \in Blocks \ {b} : word'[x] = word[x]
                 /\ born' = born \cup {Descriptor(b)'}
  <2>1. PICK b \in inHeap, version \in HeapVersions :
          /\ word' = [word EXCEPT ![b] = [version |-> version, refs |-> 1, size |-> Class(t)]]
          /\ born' = born \cup {[version |-> version, index |-> b]}
    BY <1>7 DEF BaseAllocate
  <2>2. b \in Blocks /\ word[b].refs = 0
    BY DEF Counted, TypeOK
  <2>3. /\ word'[b].refs = 1 /\ word'[b].version = version
        /\ \A x \in Blocks \ {b} : word'[x] = word[x]
    BY <2>1, <2>2 DEF TypeOK
  <2> QED
    BY <2>1, <2>2, <2>3 DEF Descriptor
<1> QED
    BY <1>1, <1>2, <1>3, <1>4, <1>5, <1>6, <1>7 DEF Kept, Step

\* A dup or an undup that does something.
LEMMA CountSteps ==
    ASSUME TypeOK, Located, Counted, NEW t \in Threads, BaseDup(t) \/ BaseUndup(t), word' # word
    PROVE  \E md \in Descriptors :
             /\ Matches(md) /\ word[md.index].refs > 0 /\ UNCHANGED born
             /\ word'[md.index].version = word[md.index].version
             /\ \/ word'[md.index].refs = word[md.index].refs + 1
                \/ word'[md.index].refs = word[md.index].refs - 1
             /\ \A x \in Blocks \ {md.index} : word'[x] = word[x]
<1>0. PICK b : b = Md(t).index
    OBVIOUS
<1>1. CASE BaseDup(t)
  <2>1. /\ Matches(Md(t)) /\ word[Md(t).index].refs > 0 /\ UNCHANGED born
        /\ word' = [word EXCEPT ![Md(t).index].refs = @ + 1] /\ pc[t] = "dup"
    BY <1>1 DEF BaseDup
  <2>2. Md(t) \in Descriptors /\ b \in Blocks
    BY <1>0, <2>1 DEF Located, Locals, TypeOK, Descriptors
  <2>3. /\ word'[b].version = word[b].version /\ word'[b].refs = word[b].refs + 1
        /\ \A x \in Blocks \ {b} : word'[x] = word[x]
    BY <1>0, <2>1, <2>2 DEF TypeOK
  <2> QED
    BY <1>0, <2>1, <2>2, <2>3
<1>2. CASE BaseUndup(t)
  <2>1. /\ Md(t) \in Descriptors /\ Matches(Md(t)) /\ b \in Blocks
        /\ word[b].refs > 0 /\ word[b].refs \in Nat
    BY <1>0, <1>2, OwedAlive DEF BaseUndup, Owing, TypeOK
  <2>2. /\ word' = [word EXCEPT ![Md(t).index].refs = word[Md(t).index].refs - 1] /\ UNCHANGED born
    <3>1. word[b].refs <= 1 => word[b].refs - 1 = 0
      BY <2>1
    <3> QED
      BY <1>0, <1>2, <2>1, <3>1 DEF BaseUndup
  <2>3. /\ word'[b].version = word[b].version /\ word'[b].refs = word[b].refs - 1
        /\ \A x \in Blocks \ {b} : word'[x] = word[x]
    BY <1>0, <2>1, <2>2 DEF TypeOK
  <2> QED
    BY <1>0, <2>1, <2>2, <2>3
<1> QED
    BY <1>1, <1>2

\* The variables of BlockStore
Lives == [md \in Living |-> word[md.index].refs]
Ended == born \ Living

LEMMA LivingIs ==
    ASSUME TypeOK
    PROVE  \A md : md \in Living <=> md \in Descriptors /\ Matches(md) /\ word[md.index].refs > 0
BY MatchesIs, DescriptorType DEF Living

LEMMA LivingBorn ==
    ASSUME TypeOK, Located, Counted
    PROVE  Living \subseteq born
<1> SUFFICES ASSUME NEW md \in Living
             PROVE  md \in born
    OBVIOUS
<1>1. PICK b \in Blocks : md = Descriptor(b) /\ word[b].refs > 0
    BY DEF Living
<1>2. word[b].refs = Copies(md) + Cardinality(Owed(md))
    BY <1>1 DEF Counted
<1>3. Copies(md) \in Nat /\ Cardinality(Owed(md)) \in Nat
    BY CopiesType, OwedFinite
<1>4. Copies(md) > 0 \/ Cardinality(Owed(md)) > 0
    BY <1>1, <1>2, <1>3
<1>5. CASE Copies(md) > 0
    BY <1>5, CopiesType DEF TypeOK
<1>6. CASE Cardinality(Owed(md)) > 0
  <2>1. Owed(md) # {}
    BY <1>6, FS_EmptySet
  <2> QED
    BY <2>1 DEF Owed, Located, Locals
<1> QED
    BY <1>4, <1>5, <1>6

\* A step that concerns the word of block b only.
LEMMA LivingMoves ==
    ASSUME NEW b \in Blocks, \A x \in Blocks \ {b} : word'[x] = word[x]
    PROVE  /\ \A md : md.index # b => (md \in Living' <=> md \in Living)
           /\ \A md : md.index = b => /\ md \in Living <=> md = Descriptor(b) /\ word[b].refs > 0
                                      /\ md \in Living' <=> md = Descriptor(b)' /\ word'[b].refs > 0
           /\ \A md \in Living : md.index # b => word'[md.index] = word[md.index]
<1>1. \A x \in Blocks \ {b} : Descriptor(x)' = Descriptor(x)
    BY DEF Descriptor
<1>2. \A x : Descriptor(x).index = x /\ Descriptor(x)'.index = x
    BY DEF Descriptor
<1> QED
    BY <1>1, <1>2 DEF Living

\* A dead block becomes a living one.
LEMMA Births ==
    ASSUME TypeOK, TypeOK', Located, Counted, FreshLives, ~ Astray',
           NEW b \in Blocks, NEW md, md = Descriptor(b)', word[b].refs = 0, word'[b].refs = 1,
           \A x \in Blocks \ {b} : word'[x] = word[x], born' = born \cup {Descriptor(b)'}
    PROVE  Store!Allocate(md)
<1>1. md = Descriptor(b)'
    OBVIOUS
<1>2. md \in Descriptors /\ md.index = b /\ md.version = word'[b].version
    BY <1>1 DEF Descriptor, Descriptors, TypeOK
<1>3. md \notin born
    BY <1>1 DEF FreshLives
<1>4. md \notin Living /\ \A other \in Living : other.index # b
    BY <1>2, <1>3, LivingBorn, LivingMoves
<1>5. Living' = Living \cup {md}
  <2>1. \A d \in Living' : d \in Living \/ d = md
    BY <1>1, LivingMoves
  <2>2. \A d \in Living : d \in Living'
    BY <1>4, LivingMoves
  <2>3. md \in Living'
    BY <1>1, <1>2, LivingMoves
  <2> QED
    BY <2>1, <2>2, <2>3
<1>6. Lives' = [d \in Living \cup {md} |-> IF d = md THEN 1 ELSE Lives[d]]
  <2>1. Lives' = [d \in Living \cup {md} |-> word'[d.index].refs]
    BY <1>5 DEF Lives
  <2>2. \A d \in Living : word'[d.index].refs = Lives[d] /\ d # md
    BY <1>4, LivingMoves DEF Lives
  <2> QED
    BY <1>2, <2>1, <2>2
<1>7. Ended' = Ended
    BY <1>1, <1>3, <1>5 DEF Ended
<1>8. DOMAIN Lives = Living
    BY DEF Lives
<1> QED
    BY <1>1, <1>2, <1>3, <1>4, <1>6, <1>7, <1>8 DEF Store!Allocate, Store!Put, Lives, Ended

LEMMA CountsStore ==
    ASSUME TypeOK, TypeOK', Located, Counted, NEW md \in Descriptors,
           Matches(md), word[md.index].refs > 0, UNCHANGED born,
           word'[md.index].version = word[md.index].version,
           \/ word'[md.index].refs = word[md.index].refs + 1
           \/ word'[md.index].refs = word[md.index].refs - 1,
           \A x \in Blocks \ {md.index} : word'[x] = word[x]
    PROVE  Store!Dup(md) \/ Store!Release(md)
<1>1. PICK b \in Blocks : b = md.index
    BY DEF Descriptors
<1>2. /\ md = Descriptor(b) /\ Descriptor(b)' = md
      /\ word[b].refs \in Nat /\ word'[b].refs \in Nat /\ word[b].refs > 0
    BY <1>1, MatchesIs DEF Descriptor, TypeOK
<1>3. md \in Living /\ Lives[md] = word[b].refs /\ DOMAIN Lives = Living
    BY <1>1, <1>2, LivingIs DEF Lives
<1>4. /\ \A d : d # md => (d \in Living' <=> d \in Living)
      /\ md \in Living' <=> word'[b].refs > 0
  <2>1. /\ \A d : d.index # b => (d \in Living' <=> d \in Living)
        /\ \A d : d.index = b => /\ d \in Living <=> d = md
                                 /\ d \in Living' <=> d = md /\ word'[b].refs > 0
    BY <1>1, <1>2, LivingMoves
  <2> QED
    BY <1>1, <2>1
<1>5. \A d \in Living : d # md => word'[d.index].refs = Lives[d]
  <2>1. \A d \in Living : d # md => d.index # b
    BY <1>1, <1>2, LivingMoves
  <2> QED
    BY <1>1, <2>1, LivingMoves DEF Lives
<1>6. CASE word'[b].refs > 0
  <2>1. Living' = Living
    BY <1>3, <1>4, <1>6
  <2>2. Lives' = [Lives EXCEPT ![md] = word'[b].refs]
    <3>1. Lives' = [d \in Living |-> word'[d.index].refs]
      BY <2>1 DEF Lives
    <3>2. \A d \in Living : word'[d.index].refs = IF d = md THEN word'[b].refs ELSE Lives[d]
      BY <1>1, <1>5
    <3>3. Lives' = [d \in Living |-> IF d = md THEN word'[b].refs ELSE Lives[d]]
      BY <3>1, <3>2
    <3> QED
      BY <1>3, <3>3
  <2>3. Ended' = Ended
    BY <2>1 DEF Ended
  <2>4. CASE word'[b].refs = word[b].refs + 1
    BY <1>3, <2>2, <2>3, <2>4 DEF Store!Dup, Lives, Ended
  <2>5. CASE word'[b].refs = word[b].refs - 1
    <3>1. word[b].refs > 1
      BY <1>2, <1>6, <2>5
    <3> QED
      BY <1>3, <2>2, <2>3, <2>5, <3>1 DEF Store!Release, Lives, Ended
  <2> QED
    BY <1>1, <2>4, <2>5
<1>7. CASE ~ (word'[b].refs > 0)
  <2>1. word[b].refs = 1
    BY <1>1, <1>2, <1>7
  <2>2. Living' = Living \ {md}
    BY <1>4, <1>7
  <2>3. Lives' = [d \in Living \ {md} |-> Lives[d]]
    <3>1. Lives' = [d \in Living \ {md} |-> word'[d.index].refs]
      BY <2>2 DEF Lives
    <3> QED
      BY <1>5, <3>1
  <2>4. Ended' = Ended \cup {md}
    BY <1>3, <2>2, LivingBorn DEF Ended
  <2> QED
    BY <1>3, <2>1, <2>3, <2>4 DEF Store!Release, Lives, Ended
<1> QED
    BY <1>6, <1>7

(***************************************************************************)
(* As long as lives get fresh descriptors, and up to the first dup by an   *)
(* old one that the free list lets through, the cache is a BlockStore: a   *)
(* block has one life at a time, a life that has ended does not come back  *)
(* under the same descriptor, and the references are counted.              *)
(***************************************************************************)
THEOREM PromiseKept ==
    Spec /\ [][TagsHold /\ FreshLives]_vars => StoreSpec
<1>1. Init => Store!Init
  <2> SUFFICES ASSUME Init
               PROVE  Lives = [md \in {} |-> 0] /\ Ended = {}
    BY DEF Store!Init, Lives, Ended
  <2>1. Living = {}
    BY DEF Init, Living
  <2> QED
    BY <2>1 DEF Lives, Ended, Init
<1>2. Inv /\ Inv' /\ [Next]_vars /\ [TagsHold /\ FreshLives]_vars
          => [~ Astray' => [Store!Next]_(Store!vars)]_vars
  <2> SUFFICES ASSUME Inv, TypeOK', Next, FreshLives, ~ Astray'
               PROVE  Store!Next \/ (Lives' = Lives /\ Ended' = Ended)
    BY DEF Inv, Store!vars, Lives, Ended
  <2>0. TypeOK /\ Sound /\ [Kept]_vars
    BY LateDupEnds DEF Inv, Next, Sound
  <2> USE <2>0 DEF Sound
  <2>1. CASE UNCHANGED <<word, born>>
    BY <2>1 DEF Lives, Ended, Living, Descriptor
  <2>2. ASSUME NEW t \in Threads, BaseDup(t) \/ BaseUndup(t), word' # word
        PROVE  Store!Next
    <3>1. PICK md \in Descriptors : Store!Dup(md) \/ Store!Release(md)
      BY <2>2, CountSteps, CountsStore
    <3> QED
      BY <3>1 DEF Store!Next
  <2>3. ASSUME NEW b \in Blocks, UNCHANGED born, word[b].refs = 0, word'[b].refs = 0,
               \A x \in Blocks \ {b} : word'[x] = word[x]
        PROVE  Lives' = Lives /\ Ended' = Ended
    <3>1. \A md : (md \in Living' <=> md \in Living) /\ (md \in Living => md.index # b)
      BY <2>3, LivingMoves
    <3>2. Living' = Living
      BY <3>1
    <3>3. \A md \in Living : word'[md.index].refs = word[md.index].refs
      BY <2>3, <3>1, LivingMoves
    <3> QED
      BY <2>3, <3>2, <3>3 DEF Lives, Ended
  <2>4. ASSUME NEW b \in Blocks, word[b].refs = 0, word'[b].refs = 1,
               \A x \in Blocks \ {b} : word'[x] = word[x], born' = born \cup {Descriptor(b)'}
        PROVE  Store!Next
    <3>1. PICK md : md = Descriptor(b)'
      OBVIOUS
    <3>2. md \in Descriptors
      BY <3>1 DEF Descriptor, Descriptors, TypeOK
    <3>3. Store!Allocate(md)
      BY <2>4, <3>1, Births
    <3> QED
      BY <3>2, <3>3 DEF Store!Next
  <2> QED
    BY <2>1, <2>2, <2>3, <2>4, WordSteps
<1>3. [TagsHold /\ FreshLives]_vars => [TagsHold]_vars
    OBVIOUS
<1> QED
    BY <1>1, <1>2, <1>3, Safety, PTL DEF Spec, StoreSpec

=============================================================================
