----------------------------- MODULE BlockStore -----------------------------
(***************************************************************************)
(* What the fixed-size allocator promises to the trie: a descriptor names  *)
(* one life of one block, a block has one life at a time, and a life that  *)
(* has ended never starts again, so that a descriptor read from shared     *)
(* memory and dup'ed later either names the block that was meant or is     *)
(* refused.                                                                *)
(***************************************************************************)
EXTENDS Integers

CONSTANT Descriptors    \* records with the field index, the block they name

VARIABLES
    live,       \* descriptor of each living block |-> number of references
    retired     \* descriptors of the lives that have ended

vars == <<live, retired>>

Put(f, x, v) == [y \in DOMAIN f \cup {x} |-> IF y = x THEN v ELSE f[y]]

Init ==
    /\ live = [md \in {} |-> 0]
    /\ retired = {}

Allocate(md) ==
    /\ md \in Descriptors
    /\ md \notin DOMAIN live \cup retired
    /\ \A other \in DOMAIN live : other.index # md.index
    /\ live' = Put(live, md, 1)
    /\ UNCHANGED retired

Dup(md) ==
    /\ md \in DOMAIN live
    /\ live' = [live EXCEPT ![md] = @ + 1]
    /\ UNCHANGED retired

Release(md) ==
    /\ md \in DOMAIN live
    /\ \/ /\ live[md] > 1
          /\ live' = [live EXCEPT ![md] = @ - 1]
          /\ UNCHANGED retired
       \/ /\ live[md] = 1
          /\ live' = [other \in DOMAIN live \ {md} |-> live[other]]
          /\ retired' = retired \cup {md}

Next == \E md \in Descriptors : Allocate(md) \/ Dup(md) \/ Release(md)

Spec == Init /\ [][Next]_vars
=============================================================================
