---------------------------- MODULE SnapshotMap ----------------------------
(***************************************************************************)
(* What the persistent map promises (HashTrie with PersistentMap's lock):  *)
(* stores take effect one at a time, and a view is the whole map as it was *)
(* at one moment while the view was being opened, for as long as the view  *)
(* stays open, whatever is stored meanwhile.  The map outlives its users.  *)
(***************************************************************************)
CONSTANTS Threads, Keys, Values, None

VARIABLES
    current,    \* the map: key |-> value, or None
    window,     \* thread |-> the maps current since it began to open a view
    view        \* thread |-> the map it sees, or None

vars == <<current, window, view>>

Maps == [Keys -> Values \cup {None}]

Init ==
    /\ current = [k \in Keys |-> None]
    /\ window = [t \in Threads |-> {}]
    /\ view = [t \in Threads |-> None]

Store(k, v) ==
    /\ current' = [current EXCEPT ![k] = v]
    /\ window' = [t \in Threads |->
          IF window[t] = {} THEN {} ELSE window[t] \cup {current'}]
    /\ UNCHANGED view

BeginOpen(t) ==
    /\ window[t] = {}
    /\ window' = [window EXCEPT ![t] = {current}]
    /\ view' = [view EXCEPT ![t] = None]
    /\ UNCHANGED current

EndOpen(t) ==
    /\ \E map \in window[t] : view' = [view EXCEPT ![t] = map]
    /\ window' = [window EXCEPT ![t] = {}]
    /\ UNCHANGED current

Close(t) ==
    /\ view[t] # None
    /\ view' = [view EXCEPT ![t] = None]
    /\ UNCHANGED <<current, window>>

\* The process dies: the map is all that is left.
Crash ==
    /\ view' = [t \in Threads |-> None]
    /\ window' = [t \in Threads |-> {}]
    /\ UNCHANGED current

Next ==
    \/ \E k \in Keys, v \in Values : Store(k, v)
    \/ \E t \in Threads : BeginOpen(t) \/ EndOpen(t) \/ Close(t)
    \/ Crash

Spec == Init /\ [][Next]_vars
=============================================================================
