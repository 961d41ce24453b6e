------------------------------ MODULE NodeWord ------------------------------
(***************************************************************************)
(* The 64-bit word the variable-length allocator keeps for every chunk     *)
(* (struct Node of variable_allocator.hh) and the pure functions on it.    *)
(*                                                                         *)
(*   version : 10   tag bumped by every change, VersionMod values here     *)
(*   next    : 22   index of the next free node; the reference count while *)
(*                  the node heads an allocated block                      *)
(*   count   : 24   number of chunks of the block the node heads           *)
(*   status  :  8   the two join flags, a set of flags here                *)
(*                                                                         *)
(* Node 0 is the list head, chunk 0 is never handed out, and NodeCount     *)
(* itself is the end-of-list mark.                                         *)
(***************************************************************************)
EXTENDS Integers

CONSTANTS
    NodeCount,   \* node_count_, the number of nodes and of chunks
    VersionMod,  \* number of values of the version field, 2^10 in the code
    NextMod      \* number of values of the next field, 2^22 in the code

\* operator bool refuses a region of less than three nodes, or of as many
\* nodes as the next field has values.
ASSUME NodeCountAssumption == NodeCount \in Nat /\ NodeCount > 2
ASSUME NextModAssumption == NextMod \in Nat /\ NodeCount < NextMod
ASSUME VersionModAssumption == VersionMod \in Nat /\ VersionMod > 0

Indices == 0 .. NodeCount - 1
Versions == 0 .. VersionMod - 1

JOIN_HEAD == "JOIN_HEAD"
JOIN_TAIL == "JOIN_TAIL"
AVAILABLE == {}

Words == [version : Versions, next : 0 .. NextMod - 1, count : Nat,
          status : SUBSET {JOIN_HEAD, JOIN_TAIL}]

Bump(version) == (version + 1) % VersionMod
Unbump(version) == (version + VersionMod - 1) % VersionMod

isAvailable(word) == word.status = AVAILABLE
isJoinHead(word) == JOIN_HEAD \in word.status
isJoinTail(word) == JOIN_TAIL \in word.status

changeNext(word, next) ==
    [word EXCEPT !.version = Bump(@), !.next = next]
changeCount(word, count) ==
    [word EXCEPT !.version = Bump(@), !.count = count]
addStatus(word, flag) ==
    [word EXCEPT !.version = Bump(@), !.status = @ \cup {flag}]

(***************************************************************************)
(* The merged word takes the TAIL's version, bumped: the version of the    *)
(* predecessor is forgotten and may go down.                               *)
(***************************************************************************)
join(head, tail) ==
    [version |-> Bump(tail.version),
     next    |-> tail.next,
     count   |-> head.count + tail.count,
     status  |-> (head.status \ {JOIN_HEAD}) \cup (tail.status \ {JOIN_TAIL})]

\* The block headed by node `index` touches the next free block.
isJoinable(index, word) == word.next = index + word.count

(***************************************************************************)
(* A descriptor names an allocated block by the index of its first node    *)
(* and the version the node had when the block was handed out.             *)
(***************************************************************************)
Descriptors == [version : Versions, index : Indices]
=============================================================================
