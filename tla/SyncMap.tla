------------------------------ MODULE SyncMap ------------------------------
(***************************************************************************)
(* The three maps that mt-bench compares (sync_map.hh): a hash map under a *)
(* mutex, a hash map under a read-write lock, and the persistent trie,     *)
(* whose writers share a mutex and whose readers refresh a view.  The      *)
(* threads store keys with themselves as values, so that a value is what   *)
(* is told of it: there or not, and written or still empty.                *)
(*                                                                         *)
(* The persistent map is what HashTrieImpl implements (SnapshotMap): its   *)
(* root and its views are maps here.  The hash map is external; operator[] *)
(* inserts an empty value, which the assignment then overwrites.           *)
(***************************************************************************)
EXTENDS Integers, FiniteSets

CONSTANTS Threads, Keys

VARIABLES
    map_type,    \* "mutex", "rwlock" or "persistent"
    impl,        \* key |-> "absent", "empty" or "written"
    writer,      \* holders of the mutex or of the write lock
    readers,     \* holders of the read lock
    view,        \* thread |-> v_ of its PersistentView
    pc, call,    \* thread |-> next step, arguments and locals
    window       \* thread |-> the maps current since it began to read

mapVars == <<map_type, impl, writer, readers, view, pc, call, window>>

MapTypes == {"mutex", "rwlock", "persistent"}
Maps == [Keys -> {"absent", "empty", "written"}]
EmptyMap == [k \in Keys |-> "absent"]

\* from: the root that store copies; left: the keys a reader has yet to
\* visit; seen: what it found at the others.
NoCall == [keys |-> {}, from |-> EmptyMap, left |-> {}, seen |-> [k \in {} |-> "absent"]]

Goto(t, label) == pc' = [pc EXCEPT ![t] = label]

\* A half-done insertion is not yet a change of the map.
Shown(map) == [k \in Keys |-> IF map[k] = "empty" THEN "absent" ELSE map[k]]

-----------------------------------------------------------------------------
(* store(key, key) *)

CallStore(t, key) ==
    /\ pc[t] = "idle"
    /\ call' = [call EXCEPT ![t].keys = {key}]
    /\ Goto(t, "writeLock")
    /\ UNCHANGED <<map_type, impl, writer, readers, view, window>>

\* Slip: store takes the lock of the readers.
WriteLockShared(t) ==
    /\ pc[t] = "writeLock"
    /\ readers = {}
    /\ writer' = writer \cup {t}
    /\ Goto(t, "insert")
    /\ UNCHANGED <<map_type, impl, readers, view, call, window>>

\* pthread_mutex_lock, pthread_rwlock_wrlock
WriteLock(t) ==
    /\ pc[t] = "writeLock"
    /\ writer = {} /\ readers = {}
    /\ writer' = {t}
    /\ Goto(t, "insert")
    /\ UNCHANGED <<map_type, impl, readers, view, call, window>>

\* impl_[key], or the root that HashTrie::store copies
Insert(t) ==
    /\ pc[t] = "insert"
    /\ call' = [call EXCEPT ![t].from = impl]
    /\ impl' = [k \in Keys |->
          IF map_type # "persistent" /\ k \in call[t].keys /\ impl[k] = "absent"
          THEN "empty" ELSE impl[k]]
    /\ Goto(t, "assign")
    /\ UNCHANGED <<map_type, writer, readers, view, window>>

\* ... = value, or the write of h_->root
Assign(t) ==
    /\ pc[t] = "assign"
    /\ impl' = [k \in Keys |->
          IF k \in call[t].keys THEN "written"
          ELSE IF map_type = "persistent" THEN call[t].from[k] ELSE impl[k]]
    /\ window' = [u \in Threads |->
          IF window[u] = {} THEN {} ELSE window[u] \cup {Shown(impl')}]
    /\ Goto(t, "writeUnlock")
    /\ UNCHANGED <<map_type, writer, readers, view, call>>

WriteUnlock(t) ==
    /\ pc[t] = "writeUnlock"
    /\ writer' = writer \ {t}
    /\ call' = [call EXCEPT ![t] = NoCall]
    /\ Goto(t, "done")
    /\ UNCHANGED <<map_type, impl, readers, view, window>>

-----------------------------------------------------------------------------
(* View: member(key), totalValueLength() *)

\* createView: a PersistentView opens a view of the trie.
CreateView(t) ==
    view' = IF map_type = "persistent" THEN [view EXCEPT ![t] = impl] ELSE view

CallRead(t, keys) ==
    /\ pc[t] = "idle"
    /\ call' = [call EXCEPT ![t].keys = keys, ![t].left = keys]
    /\ window' = [window EXCEPT ![t] = {Shown(impl)}]
    /\ Goto(t, IF map_type = "persistent" THEN "update" ELSE "readLock")
    /\ UNCHANGED <<map_type, impl, writer, readers, view>>

\* Slip: a read lock is granted beside a writer.
ReadLockAlways(t) ==
    /\ pc[t] = "readLock"
    /\ readers' = readers \cup {t}
    /\ Goto(t, "visit")
    /\ UNCHANGED <<map_type, impl, writer, view, call, window>>

\* pthread_mutex_lock, pthread_rwlock_rdlock
ReadLock(t) ==
    /\ pc[t] = "readLock"
    /\ writer = {}
    /\ map_type = "mutex" => readers = {}
    /\ readers' = readers \cup {t}
    /\ Goto(t, "visit")
    /\ UNCHANGED <<map_type, impl, writer, view, call, window>>

\* updateIfNeed
Update(t) ==
    /\ pc[t] = "update"
    /\ view' = [view EXCEPT ![t] = impl]
    /\ Goto(t, "visit")
    /\ UNCHANGED <<map_type, impl, writer, readers, call, window>>

\* One step of an iterator or of foreach; find visits the one key.
Visit(t) ==
    /\ pc[t] = "visit" /\ call[t].left # {}
    /\ \E k \in call[t].left :
          call' = [call EXCEPT
              ![t].left = @ \ {k},
              ![t].seen = [j \in DOMAIN @ \cup {k} |->
                  IF j # k THEN @[j]
                  ELSE IF map_type = "persistent" THEN view[t][k] ELSE impl[k]]]
    /\ UNCHANGED <<map_type, impl, writer, readers, view, pc, window>>

\* The unlock of a reader, and the end of its call
Answer(t) ==
    /\ pc[t] = "visit" /\ call[t].left = {}
    /\ readers' = readers \ {t}
    /\ window' = [window EXCEPT ![t] = {}]
    /\ Goto(t, "answered")
    /\ UNCHANGED <<map_type, impl, writer, view, call>>

\* member() and totalValueLength() of what was seen; a key has length 1.
Member(seen) == \E k \in DOMAIN seen : seen[k] # "absent"
TotalValueLength(seen) == Cardinality({k \in DOMAIN seen : seen[k] = "written"})
Size(map) == Cardinality({k \in Keys : map[k] # "absent"})

Return(t) ==
    /\ call' = [call EXCEPT ![t] = NoCall]
    /\ Goto(t, "idle")
    /\ UNCHANGED <<map_type, impl, writer, readers, view, window>>

MapStep(t) ==
    \/ WriteLock(t) \/ Insert(t) \/ Assign(t) \/ WriteUnlock(t)
    \/ ReadLock(t) \/ Update(t) \/ Visit(t) \/ Answer(t)

-----------------------------------------------------------------------------
(* Properties *)

(***************************************************************************)
(* A reading, however many steps it takes, answers from one state the map  *)
(* was in while it ran: it never meets a value that is being inserted, nor *)
(* some keys from before a store and others from after a later one, and    *)
(* never an older map than the one its call began with.                    *)
(***************************************************************************)
ReadsOneState ==
    \A t \in Threads : pc[t] = "visit" =>
        \E map \in window[t] :
            \A k \in DOMAIN call[t].seen : call[t].seen[k] = map[k]
=============================================================================
