------------------------------ MODULE MtBench ------------------------------
(***************************************************************************)
(* mt-bench: the main thread generates the keys and the operations, stores *)
(* the initial keys, starts the threads behind a latch, joins them and     *)
(* adds up what they found; each thread runs its slice of the operations   *)
(* on the map under test (mt-bench.cc, sync_map.hh).                       *)
(***************************************************************************)
EXTENDS SyncMap, SequencesExt

CONSTANTS
    thread_num, init_entry_num, write_op_num, read_op_num, sum_op_num,
    None

ASSUME ParamAssumption ==
    /\ Threads = 0 .. thread_num - 1 /\ thread_num \in Nat \ {0}
    /\ {init_entry_num, write_op_num, read_op_num, sum_op_num} \subseteq Nat
    /\ read_op_num > 0 => init_entry_num + write_op_num > 0

ASSUME KeysAssumption == IsFiniteSet(Keys)

VARIABLES
    init_keys, ops,    \* the lists; ops also holds the keys
    g_latch,
    main,              \* next step of the main thread
    created, joined,   \* threads it has started, and joined
    position,          \* thread |-> i of do_bench
    rlt, total         \* thread |-> Result, and their sum

benchVars == <<init_keys, ops, g_latch, main, created, joined, position, rlt, total>>
vars == <<mapVars, benchVars>>

op_num == write_op_num + read_op_num + sum_op_num
NoResult == [found_count |-> 0, sum_acc |-> 0]
Add(r, s) == [found_count |-> r.found_count + s.found_count, sum_acc |-> r.sum_acc + s.sum_acc]

Positions(list, op) == {i \in DOMAIN list : list[i].op = op}

\* The shuffled operations: OP_READ takes a key that is stored at some time.
OpLists(init) ==
    {list \in [1 .. op_num -> [op : {"write", "read"}, key : Keys] \cup [op : {"sum"}, key : {None}]] :
        /\ Cardinality(Positions(list, "write")) = write_op_num
        /\ Cardinality(Positions(list, "read")) = read_op_num
        /\ \A i \in Positions(list, "read") :
              \/ list[i].key \in ToSet(init)
              \/ \E j \in Positions(list, "write") : list[j].key = list[i].key}

-----------------------------------------------------------------------------
(* main *)

gen_input_data ==
    /\ main = "generate"
    /\ init_keys' \in [1 .. init_entry_num -> Keys]
    /\ ops' \in OpLists(init_keys')
    /\ main' = "fill"
    /\ UNCHANGED <<mapVars, g_latch, created, joined, position, rlt, total>>

\* No other thread runs yet.
Fill ==
    /\ main = "fill"
    /\ impl' = [k \in Keys |-> IF k \in ToSet(init_keys) THEN "written" ELSE "absent"]
    /\ main' = "latch"
    /\ UNCHANGED <<map_type, writer, readers, view, pc, call, window, init_keys,
                   ops, g_latch, created, joined, position, rlt, total>>

\* Slip: the latch is raised as the threads are started.
SetLatchOne ==
    /\ main = "latch"
    /\ g_latch' = g_latch + 1
    /\ main' = "create"
    /\ UNCHANGED <<mapVars, init_keys, ops, created, joined, position, rlt, total>>

SetLatch ==
    /\ main = "latch"
    /\ g_latch' = thread_num
    /\ main' = "create"
    /\ UNCHANGED <<mapVars, init_keys, ops, created, joined, position, rlt, total>>

\* pthread_create
Create ==
    /\ main = "create" /\ created < thread_num
    /\ created' = created + 1
    /\ Goto(created, "start")
    /\ UNCHANGED <<map_type, impl, writer, readers, view, call, window, init_keys,
                   ops, g_latch, main, joined, position, rlt, total>>

\* pthread_join
Join ==
    /\ main = "create" /\ created = thread_num /\ joined < thread_num
    /\ pc[joined] = "exited"
    /\ total' = Add(total, rlt[joined])
    /\ joined' = joined + 1
    /\ UNCHANGED <<mapVars, init_keys, ops, g_latch, main, created, position, rlt>>

Report ==
    /\ main = "create" /\ joined = thread_num
    /\ main' = "reported"
    /\ UNCHANGED <<mapVars, init_keys, ops, g_latch, created, joined, position, rlt, total>>

Main == gen_input_data \/ Fill \/ SetLatch \/ Create \/ Join \/ Report

-----------------------------------------------------------------------------
(* do_bench *)

beg_i(t) == (op_num * t) \div thread_num

\* Slip: the last operation of a slice is taken for its end.
end_iInclusive(t) == ((op_num - 1) * (t + 1)) \div thread_num

end_i(t) == (op_num * (t + 1)) \div thread_num

Arrive(t) ==
    /\ pc[t] = "start"
    /\ g_latch' = g_latch - 1
    /\ Goto(t, "spin")
    /\ UNCHANGED <<map_type, impl, writer, readers, view, call, window, init_keys,
                   ops, main, created, joined, position, rlt, total>>

\* Slip: the spin is while(g_latch >= 0).
PassBelowZero(t) ==
    /\ pc[t] = "spin" /\ g_latch < 0
    /\ CreateView(t)
    /\ position' = [position EXCEPT ![t] = beg_i(t)]
    /\ Goto(t, "idle")
    /\ UNCHANGED <<map_type, impl, writer, readers, call, window, init_keys, ops,
                   g_latch, main, created, joined, rlt, total>>

\* while(g_latch > 0), then createView
Pass(t) ==
    /\ pc[t] = "spin" /\ g_latch <= 0
    /\ CreateView(t)
    /\ position' = [position EXCEPT ![t] = beg_i(t)]
    /\ Goto(t, "idle")
    /\ UNCHANGED <<map_type, impl, writer, readers, call, window, init_keys, ops,
                   g_latch, main, created, joined, rlt, total>>

Begin(t) ==
    /\ pc[t] = "idle" /\ position[t] < end_i(t)
    /\ LET todo == ops[position[t] + 1]
       IN  \/ todo.op = "write" /\ CallStore(t, todo.key)
           \/ todo.op = "read" /\ CallRead(t, {todo.key})
           \/ todo.op = "sum" /\ CallRead(t, Keys)
    /\ UNCHANGED benchVars

Finish(t) ==
    /\ pc[t] \in {"done", "answered"}
    /\ LET op == ops[position[t] + 1].op
           seen == call[t].seen
       IN  rlt' = [rlt EXCEPT ![t] = Add(@,
              [found_count |-> IF op = "read" /\ Member(seen) THEN 1 ELSE 0,
               sum_acc |-> IF op = "sum" THEN TotalValueLength(seen) ELSE 0])]
    /\ position' = [position EXCEPT ![t] = @ + 1]
    /\ Return(t)
    /\ UNCHANGED <<init_keys, ops, g_latch, main, created, joined, total>>

\* delete view
Exit(t) ==
    /\ pc[t] = "idle" /\ position[t] >= end_i(t)
    /\ Goto(t, "exited")
    /\ UNCHANGED <<map_type, impl, writer, readers, view, call, window, benchVars>>

Thread(t) ==
    \/ Arrive(t) \/ Pass(t) \/ Begin(t) \/ Finish(t) \/ Exit(t)
    \/ MapStep(t) /\ UNCHANGED benchVars

-----------------------------------------------------------------------------
Init ==
    /\ map_type \in MapTypes
    /\ impl = EmptyMap /\ writer = {} /\ readers = {}
    /\ view = [t \in Threads |-> EmptyMap]
    /\ pc = [t \in Threads |-> "new"]
    /\ call = [t \in Threads |-> NoCall]
    /\ window = [t \in Threads |-> {}]
    /\ init_keys = <<>> /\ ops = <<>>
    /\ g_latch = 0 /\ main = "generate" /\ created = 0 /\ joined = 0
    /\ position = [t \in Threads |-> 0]
    /\ rlt = [t \in Threads |-> NoResult] /\ total = NoResult

Next == Main \/ \E t \in Threads : Thread(t)

Spec == Init /\ [][Next]_vars

\* Every thread is scheduled, the main thread too; a thread that waits for a
\* lock may be passed over as long as others want it.
FairSpec == Spec /\ WF_vars(Main) /\ \A t \in Threads : WF_vars(Thread(t))

-----------------------------------------------------------------------------
(* Properties *)

Starting == {"new", "start", "spin"}
Writing == {"insert", "assign", "writeUnlock"}      \* with the lock
Reading == {"readLock", "update", "visit"}
Labels == Starting \cup Writing \cup Reading
              \cup {"idle", "writeLock", "done", "answered", "exited"}
Marks == {"absent", "empty", "written"}
Answers == UNION {[keys -> Marks] : keys \in SUBSET Keys}
Calls == [keys : SUBSET Keys, from : Maps, left : SUBSET Keys, seen : Answers]
Results == [found_count : Nat, sum_acc : Nat]

TypeOK ==
    /\ map_type \in MapTypes /\ impl \in Maps /\ view \in [Threads -> Maps]
    /\ writer \subseteq Threads /\ readers \subseteq Threads
    /\ Cardinality(writer) <= 1
    /\ writer # {} => readers = {}
    /\ pc \in [Threads -> Labels] /\ call \in [Threads -> Calls]
    /\ window \in [Threads -> SUBSET Maps]
    /\ main \in {"generate", "fill", "latch", "create", "reported"}
    /\ main # "generate" =>
          init_keys \in [1 .. init_entry_num -> Keys] /\ ops \in OpLists(init_keys)
    /\ g_latch \in 0 .. thread_num
    /\ created \in 0 .. thread_num /\ joined \in 0 .. created
    /\ position \in [Threads -> 0 .. op_num]
    /\ rlt \in [Threads -> Results] /\ total \in Results

(***************************************************************************)
(* The latch: the first operation is not begun before the last thread has  *)
(* started, so that the measurement holds work of all threads at once.     *)
(***************************************************************************)
StartsTogether ==
    (\E t \in Threads : pc[t] \notin {"new", "start", "spin"}) =>
        \A t \in Threads : pc[t] \notin {"new", "start"}

Initial == ToSet(init_keys)
Final == Initial \cup {ops[i].key : i \in Positions(ops, "write")}
Written(map) == {k \in Keys : map[k] = "written"}

\* A result that the operations of a part of the list can have.
Right(result, part) ==
    LET certain == {i \in Positions(ops, "read") : ops[i].key \in Initial}
        sums == Cardinality(Positions(ops, "sum") \cap part)
    IN  /\ result.found_count \in Cardinality(certain \cap part) ..
                                  Cardinality(Positions(ops, "read") \cap part)
        /\ result.sum_acc \in sums * Cardinality(Initial) .. sums * Cardinality(Final)

(***************************************************************************)
(* The report: the slices of the threads cover every operation once, with  *)
(* no store lost between threads.  All initial keys are found, each sum is *)
(* that of a map between the initial and the final one, and the map holds  *)
(* the initial and the written keys.                                       *)
(***************************************************************************)
ReportIsRight ==
    main = "reported" =>
        /\ Written(impl) = Final /\ Size(impl) = Cardinality(Final)
        /\ Right(total, 1 .. op_num)

-----------------------------------------------------------------------------
(* The inductive invariant *)

\* The main thread starts the threads in order and joins them in order.
Phases ==
    /\ main \in {"generate", "fill", "latch"} => created = 0
    /\ \A t \in Threads :
          /\ pc[t] = "new" <=> t >= created
          /\ t < joined => pc[t] = "exited"
          /\ pc[t] \in Starting => position[t] = 0 /\ rlt[t] = NoResult
    /\ joined > 0 => created = thread_num
    /\ joined = 0 => total = NoResult
    /\ main = "reported" => joined = thread_num

\* The latch counts the threads that have not arrived.
Latched ==
    /\ g_latch = IF main \in {"generate", "fill", "latch"} THEN 0
                 ELSE Cardinality({t \in Threads : pc[t] \in {"new", "start"}})
    /\ StartsTogether

Locked ==
    /\ writer = {t \in Threads : pc[t] \in Writing}
    /\ readers = {t \in Threads : pc[t] = "visit" /\ map_type # "persistent"}
    /\ \A t \in Threads :
          /\ pc[t] = "update" => map_type = "persistent"
          /\ pc[t] = "readLock" => map_type # "persistent"

\* Only the holder of the lock has left a value empty, and it still copies
\* what is the map.
HalfDone ==
    /\ \A k \in Keys : impl[k] = "empty" =>
          map_type # "persistent" /\ \E t \in Threads : pc[t] = "assign" /\ k \in call[t].keys
    /\ map_type = "persistent" => \A t \in Threads : pc[t] = "assign" => call[t].from = impl

\* What a reader has seen so far is what it would see now.
Windows ==
    \A t \in Threads :
        /\ window[t] # {} <=> pc[t] \in Reading
        /\ pc[t] \in Reading => Shown(impl) \in window[t]
        /\ pc[t] = "visit" /\ map_type = "persistent" => view[t] \in window[t]
        /\ pc[t] = "visit" => \A k \in DOMAIN call[t].seen :
              call[t].seen[k] = IF map_type = "persistent" THEN view[t][k] ELSE impl[k]

\* A thread is at its operation, and in its slice.
Works(t) ==
    LET todo == ops[position[t] + 1]
    IN  /\ pc[t] \notin Starting => position[t] \in beg_i(t) .. end_i(t)
        /\ pc[t] = "exited" => position[t] = end_i(t)
        /\ pc[t] \notin Starting \cup {"idle", "exited"} => position[t] < end_i(t)
        /\ pc[t] \in {"writeLock", "done"} \cup Writing => todo.op = "write"
        /\ pc[t] \in {"writeLock"} \cup Writing => call[t].keys = {todo.key}
        /\ pc[t] \in {"answered"} \cup Reading =>
              /\ \/ todo.op = "read" /\ call[t].keys = {todo.key}
                 \/ todo.op = "sum" /\ call[t].keys = Keys
              /\ call[t].left \subseteq call[t].keys
              /\ DOMAIN call[t].seen = call[t].keys \ call[t].left
        /\ pc[t] = "answered" => call[t].left = {}
        /\ pc[t] \in {"readLock", "update"} => call[t].left = call[t].keys
        /\ pc[t] \notin {"answered"} \cup Reading => DOMAIN call[t].seen = {}

Working == \A t \in Threads : Works(t)

\* Thread t has made the store at position i of the list.
TookEffect(t, i) ==
    /\ beg_i(t) < i
    /\ \/ i <= position[t]
       \/ i = position[t] + 1 /\ pc[t] \in {"writeUnlock", "done"}

Stores == {i \in Positions(ops, "write") : \E t \in Threads : TookEffect(t, i)}

Stored ==
    main \in {"latch", "create", "reported"} =>
        Written(impl) = Initial \cup {ops[i].key : i \in Stores}

\* No reading misses an initial key or shows a value never written.
Between(map, keys) ==
    LET found == {k \in keys : map[k] = "written"}
    IN  Initial \cap keys \subseteq found /\ found \subseteq Final

Seen ==
    \A t \in Threads : pc[t] \notin Starting =>
        /\ map_type = "persistent" => Between(view[t], Keys)
        /\ pc[t] \in {"answered", "visit"} => Between(call[t].seen, DOMAIN call[t].seen)

Scored ==
    main # "generate" =>
        /\ \A t \in Threads : Right(rlt[t], beg_i(t) + 1 .. position[t])
        /\ Right(total, 1 .. beg_i(joined))

(***************************************************************************)
(* What every step of the benchmark preserves: who has which lock, what    *)
(* the readers see beside the writer, and that each result is right for    *)
(* the part of the slice that is done.                                     *)
(***************************************************************************)
Inv ==
    /\ TypeOK /\ Phases /\ Latched /\ Locked /\ HalfDone
    /\ Windows /\ Working /\ Stored /\ Seen /\ Scored

(***************************************************************************)
(* The benchmark ends: no thread spins on the latch for ever or waits for  *)
(* a lock for ever, and the main thread joins them all.                    *)
(***************************************************************************)
Ends == <>(main = "reported")
=============================================================================
