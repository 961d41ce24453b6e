------------------------ MODULE MCVariableAllocator ------------------------
(***************************************************************************)
(* Instances of VariableAllocator for TLC.  The threads run the same code  *)
(* and the properties name none of them, so they may be permuted in the    *)
(* runs that check safety only.                                            *)
(***************************************************************************)
EXTENDS VariableAllocator

Symmetry == Permutations(Threads)
=============================================================================
