------------------------------- MODULE MCTrie -------------------------------
(***************************************************************************)
(* An instance of Trie for TLC: two keys that share a hash, one that parts *)
(* from them at the second digit, and one at the first.                    *)
(***************************************************************************)
EXTENDS Trie

CONSTANTS k1, k2, k3, k4

MCHash == k1 :> 5 @@ k2 :> 5 @@ k3 :> 7 @@ k4 :> 2

\* k1 and k2 are alike, and so are the values.
Symmetry == Permutations({k1, k2}) \cup Permutations(Values)
=============================================================================
