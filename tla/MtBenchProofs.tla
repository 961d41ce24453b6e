--------------------------- MODULE MtBenchProofs ---------------------------
(***************************************************************************)
(* Proofs about MtBench and the three maps of SyncMap, for any number of   *)
(* threads, keys and operations, in every order of the operations.         *)
(***************************************************************************)
EXTENDS MtBench, FiniteSetTheorems, TLAPS

-----------------------------------------------------------------------------
(* The slices *)

LEMMA Quotient ==
    ASSUME NEW a \in Nat, NEW n \in Nat \ {0}
    PROVE  /\ a \div n \in Nat
           /\ n * (a \div n) <= a /\ a < n * (a \div n) + n
<1>1. a = n * (a \div n) + (a % n) /\ a \div n \in Nat /\ a % n \in 0 .. n - 1
    OBVIOUS
<1>2. n * (a \div n) \in Nat
    BY <1>1
<1> QED
    BY <1>1, <1>2

LEMMA Times ==
    ASSUME NEW n \in Nat, NEW x \in Nat, NEW y \in Nat, x <= y
    PROVE  n * x <= n * y
OBVIOUS

LEMMA DivGrows ==
    ASSUME NEW a \in Nat, NEW b \in Nat, a <= b, NEW n \in Nat \ {0}
    PROVE  a \div n <= b \div n
<1> SUFFICES ASSUME a \div n > b \div n
             PROVE  FALSE
    BY Quotient
<1> DEFINE p == a \div n
           q == b \div n
<1>1. p \in Nat /\ q \in Nat /\ n * p <= a /\ b < n * q + n
    BY Quotient
<1>2. n * (q + 1) <= n * p
    BY <1>1, Times
<1>3. n * (q + 1) = n * q + n
    BY <1>1
<1>4. n * p \in Nat /\ n * q \in Nat
    BY <1>1
<1> QED
    BY <1>1, <1>2, <1>3, <1>4

LEMMA Params ==
    /\ thread_num \in Nat \ {0} /\ Threads = 0 .. thread_num - 1
    /\ init_entry_num \in Nat /\ op_num \in Nat
    /\ write_op_num \in Nat /\ read_op_num \in Nat /\ sum_op_num \in Nat
BY ParamAssumption DEF op_num

LEMMA Exact ==
    ASSUME NEW m \in Nat, NEW n \in Nat \ {0}
    PROVE  (m * n) \div n = m
<1> DEFINE q == (m * n) \div n
<1>1. m * n \in Nat /\ m * n = n * m
    OBVIOUS
<1>2. q \in Nat /\ n * q <= m * n /\ m * n < n * q + n
    BY <1>1, Quotient
<1>3. CASE q > m
  <2>1. n * (m + 1) <= n * q
    BY <1>2, <1>3, Times
  <2>2. n * (m + 1) = n * m + n
    OBVIOUS
  <2> QED
    BY <1>1, <1>2, <2>1, <2>2
<1>4. CASE q < m
  <2>1. n * (q + 1) <= n * m
    BY <1>2, <1>4, Times
  <2>2. n * (q + 1) = n * q + n
    BY <1>2
  <2> QED
    BY <1>1, <1>2, <2>1, <2>2
<1> QED
    BY <1>2, <1>3, <1>4

LEMMA Slice ==
    ASSUME NEW t \in Threads
    PROVE  /\ beg_i(t) \in 0 .. op_num /\ end_i(t) \in 0 .. op_num
           /\ beg_i(t) <= end_i(t)
           /\ end_i(t) = beg_i(t + 1) /\ t \in Nat /\ t + 1 \in 1 .. thread_num
<1>1. t \in Nat /\ t + 1 \in 1 .. thread_num /\ thread_num \in Nat \ {0} /\ op_num \in Nat
    BY Params
<1>2. op_num * t \in Nat /\ op_num * (t + 1) \in Nat /\ op_num * thread_num \in Nat
    BY <1>1
<1>3. op_num * t <= op_num * (t + 1) /\ op_num * (t + 1) <= op_num * thread_num
    BY <1>1, Times
<1>4. (op_num * thread_num) \div thread_num = op_num
    BY <1>1, Exact
<1>5. /\ (op_num * t) \div thread_num <= (op_num * (t + 1)) \div thread_num
      /\ (op_num * (t + 1)) \div thread_num <= (op_num * thread_num) \div thread_num
    BY <1>1, <1>2, <1>3, DivGrows
<1>6. (op_num * t) \div thread_num \in Nat /\ (op_num * (t + 1)) \div thread_num \in Nat
    BY <1>1, <1>2, Quotient
<1> QED
    BY <1>1, <1>4, <1>5, <1>6 DEF beg_i, end_i

LEMMA WholeList ==
    /\ beg_i(0) = 0 /\ beg_i(thread_num) = op_num
    /\ \A j \in 0 .. thread_num : beg_i(j) \in 0 .. op_num
<1>1. op_num * 0 = 0 /\ 0 \div thread_num = 0
    BY Params
<1>2. (op_num * thread_num) \div thread_num = op_num
    BY Params, Exact
<1>3. beg_i(0) = 0 /\ beg_i(thread_num) = op_num
    BY <1>1, <1>2 DEF beg_i
<1>4. ASSUME NEW j \in 0 .. thread_num
      PROVE  beg_i(j) \in 0 .. op_num
  <2>1. CASE j \in Threads
    BY <2>1, Slice
  <2>2. CASE j = thread_num
    BY <1>3, <2>2, Params
  <2> QED
    BY <2>1, <2>2, Params
<1> QED
    BY <1>3, <1>4

\* Every operation is in the slice of a thread.
LEMMA SlicesCover ==
    ASSUME NEW i \in 1 .. op_num
    PROVE  \E t \in Threads : beg_i(t) < i /\ i <= end_i(t)
<1> DEFINE a == i * thread_num
           t == (a - 1) \div op_num
<1>1. op_num \in Nat \ {0} /\ thread_num \in Nat \ {0} /\ i \in Nat \ {0}
    BY Params
<1>2. a \in Nat \ {0} /\ a <= op_num * thread_num
  <2>1. thread_num * 1 <= thread_num * i /\ thread_num * i <= thread_num * op_num
    BY <1>1, Times
  <2>2. thread_num * i = a /\ thread_num * op_num = op_num * thread_num /\ a \in Nat
    BY <1>1
  <2> QED
    BY <1>1, <2>1, <2>2
<1>3. t \in Nat /\ op_num * t <= a - 1 /\ a - 1 < op_num * t + op_num
    BY <1>1, <1>2, Quotient
<1>4. t \in Threads
  <2>1. CASE t >= thread_num
    <3>1. op_num * thread_num <= op_num * t
        BY <1>1, <1>3, <2>1, Times
    <3> QED
        BY <1>1, <1>2, <1>3, <3>1
  <2> QED
    BY <1>1, <1>3, <2>1, Params
<1>5. beg_i(t) < i
  <2>1. CASE beg_i(t) >= i
    <3> DEFINE q == (op_num * t) \div thread_num
    <3>1. q \in Nat /\ thread_num * q <= op_num * t /\ q >= i
        BY <1>1, <1>3, <2>1, Quotient DEF beg_i
    <3>2. thread_num * i <= thread_num * q /\ thread_num * i = a
        BY <1>1, <3>1, Times
    <3> QED
        BY <1>1, <1>2, <1>3, <3>1, <3>2
  <2> QED
    BY <1>1, <1>4, <2>1, Slice
<1>6. i <= end_i(t)
  <2>1. CASE end_i(t) < i
    <3> DEFINE q == (op_num * (t + 1)) \div thread_num
    <3>1. op_num * (t + 1) \in Nat /\ op_num * (t + 1) = op_num * t + op_num
        BY <1>1, <1>3
    <3>2. q \in Nat /\ op_num * (t + 1) < thread_num * q + thread_num /\ q + 1 <= i
        BY <1>1, <2>1, <3>1, Quotient DEF end_i
    <3>3. thread_num * (q + 1) <= thread_num * i /\ thread_num * i = a
        BY <1>1, <3>2, Times
    <3>4. thread_num * (q + 1) = thread_num * q + thread_num
        BY <1>1, <3>2
    <3> QED
        BY <1>1, <1>2, <1>3, <3>1, <3>2, <3>3, <3>4
  <2> QED
    BY <1>1, <1>4, <2>1, Slice
<1> QED
    BY <1>4, <1>5, <1>6

-----------------------------------------------------------------------------
(* The list of operations and the results *)

LEMMA Listed ==
    ASSUME TypeOK, main # "generate"
    PROVE  /\ DOMAIN ops = 1 .. op_num
           /\ \A i \in 1 .. op_num :
                 \/ ops[i].op \in {"write", "read"} /\ ops[i].key \in Keys
                 \/ ops[i].op = "sum"
           /\ Cardinality(Positions(ops, "read")) = read_op_num
           /\ Initial \subseteq Keys /\ Final \subseteq Keys
<1> DEFINE Op == [op : {"write", "read"}, key : Keys] \cup [op : {"sum"}, key : {None}]
<1>1. ops \in [1 .. op_num -> Op] /\ Cardinality(Positions(ops, "read")) = read_op_num
    BY DEF TypeOK, OpLists
<1>2. init_keys \in [1 .. init_entry_num -> Keys]
    BY DEF TypeOK
<1>3. \A o \in Op : (o.op \in {"write", "read"} /\ o.key \in Keys) \/ o.op = "sum"
    OBVIOUS
<1>4. \A i \in 1 .. op_num : \/ ops[i].op \in {"write", "read"} /\ ops[i].key \in Keys
                             \/ ops[i].op = "sum"
    BY <1>1, <1>3
<1>5. Initial \subseteq Keys
    BY <1>2 DEF Initial, ToSet
<1>6. Final \subseteq Keys
    BY <1>1, <1>4, <1>5 DEF Final, Positions
<1> QED
    BY <1>1, <1>4, <1>5, <1>6

LEMMA Sizes ==
    ASSUME TypeOK, main # "generate"
    PROVE  /\ IsFiniteSet(Initial) /\ IsFiniteSet(Final)
           /\ Cardinality(Initial) \in Nat /\ Cardinality(Final) \in Nat
           /\ Cardinality(Initial) <= Cardinality(Final)
<1>1. Initial \subseteq Final /\ Initial \subseteq Keys /\ Final \subseteq Keys
    BY Listed DEF Final
<1>2. IsFiniteSet(Initial) /\ IsFiniteSet(Final) /\ Cardinality(Initial) <= Cardinality(Final)
    BY <1>1, KeysAssumption, FS_Subset
<1> QED
    BY <1>2, FS_CardinalityType

\* How many of a part of the list are of a kind, for two parts and a set of
\* positions.
LEMMA Counts ==
    ASSUME TypeOK, main # "generate", NEW S, S \subseteq 1 .. op_num,
           NEW A, NEW B, A \cap B = {}
    PROVE  /\ Cardinality(S \cap A) \in Nat /\ Cardinality(S \cap B) \in Nat
           /\ Cardinality(S \cap (A \cup B)) = Cardinality(S \cap A) + Cardinality(S \cap B)
<1>1. IsFiniteSet(S)
  <2>1. IsFiniteSet(1 .. op_num)
    BY FS_Interval, Params
  <2> QED
    BY <2>1, FS_Subset
<1>2. IsFiniteSet(S \cap A) /\ IsFiniteSet(S \cap B)
    BY <1>1, FS_Intersection
<1>3. S \cap (A \cup B) = (S \cap A) \cup (S \cap B) /\ (S \cap A) \cap (S \cap B) = {}
    OBVIOUS
<1>6. Cardinality(S \cap (A \cup B)) = Cardinality((S \cap A) \cup (S \cap B))
    BY <1>3, Zenon
<1>4. Cardinality((S \cap A) \cup (S \cap B)) = Cardinality(S \cap A) + Cardinality(S \cap B) - 0
  <2>1. Cardinality((S \cap A) \cap (S \cap B)) = 0
    BY <1>3, FS_EmptySet
  <2> QED
    BY <1>2, <2>1, FS_Union
<1>5. Cardinality(S \cap A) \in Nat /\ Cardinality(S \cap B) \in Nat
    BY <1>2, FS_CardinalityType
<1> QED
    BY <1>4, <1>5, <1>6

Certain == {i \in Positions(ops, "read") : ops[i].key \in Initial}

LEMMA RightIs ==
    ASSUME NEW result, NEW part
    PROVE  Right(result, part) <=>
               /\ result.found_count \in Cardinality(Certain \cap part) ..
                                         Cardinality(Positions(ops, "read") \cap part)
               /\ result.sum_acc \in
                      Cardinality(Positions(ops, "sum") \cap part) * Cardinality(Initial) ..
                      Cardinality(Positions(ops, "sum") \cap part) * Cardinality(Final)
BY DEF Right, Certain

LEMMA KindsListed ==
    ASSUME TypeOK, main # "generate"
    PROVE  /\ Certain \subseteq 1 .. op_num
           /\ \A op : Positions(ops, op) \subseteq 1 .. op_num
BY Listed DEF Certain, Positions

\* The results of two parts of the list add up.
LEMMA RightAdds ==
    ASSUME TypeOK, main # "generate", NEW r \in Results, NEW s \in Results,
           NEW A, NEW B, A \cap B = {}, Right(r, A), Right(s, B)
    PROVE  Right(Add(r, s), A \cup B) /\ Add(r, s) \in Results
<1> DEFINE reads == Positions(ops, "read")
           sums == Positions(ops, "sum")
<1>1. /\ Certain \subseteq 1 .. op_num
      /\ reads \subseteq 1 .. op_num /\ sums \subseteq 1 .. op_num
    BY KindsListed
<1>2. /\ Cardinality(Certain \cap A) \in Nat /\ Cardinality(Certain \cap B) \in Nat
      /\ Cardinality(Certain \cap (A \cup B)) =
             Cardinality(Certain \cap A) + Cardinality(Certain \cap B)
    BY <1>1, Counts
<1>3. /\ Cardinality(reads \cap A) \in Nat /\ Cardinality(reads \cap B) \in Nat
      /\ Cardinality(reads \cap (A \cup B)) =
             Cardinality(reads \cap A) + Cardinality(reads \cap B)
    BY <1>1, Counts
<1>4. /\ Cardinality(sums \cap A) \in Nat /\ Cardinality(sums \cap B) \in Nat
      /\ Cardinality(sums \cap (A \cup B)) = Cardinality(sums \cap A) + Cardinality(sums \cap B)
    BY <1>1, Counts
<1>5. Cardinality(Initial) \in Nat /\ Cardinality(Final) \in Nat
    BY Sizes
<1>6. /\ r.found_count \in Nat /\ r.sum_acc \in Nat
      /\ s.found_count \in Nat /\ s.sum_acc \in Nat
    BY DEF Results
<1> DEFINE a == Cardinality(sums \cap A)
           b == Cardinality(sums \cap B)
           m == Cardinality(Initial)
           n == Cardinality(Final)
<1>7. a * m \in Nat /\ b * m \in Nat /\ a * n \in Nat /\ b * n \in Nat
    BY <1>4, <1>5
<1>8. (a + b) * m = a * m + b * m /\ (a + b) * n = a * n + b * n
    BY <1>4, <1>5
<1>9. /\ Add(r, s).found_count = r.found_count + s.found_count
      /\ Add(r, s).sum_acc = r.sum_acc + s.sum_acc
      /\ Add(r, s) \in Results
    BY <1>6 DEF Add, Results
<1>10. /\ r.found_count \in Cardinality(Certain \cap A) .. Cardinality(reads \cap A)
       /\ s.found_count \in Cardinality(Certain \cap B) .. Cardinality(reads \cap B)
       /\ r.sum_acc \in a * m .. a * n /\ s.sum_acc \in b * m .. b * n
    BY RightIs
<1>11. r.found_count + s.found_count \in
           Cardinality(Certain \cap (A \cup B)) .. Cardinality(reads \cap (A \cup B))
    BY <1>2, <1>3, <1>6, <1>10
<1>12. r.sum_acc + s.sum_acc \in (a + b) * m .. (a + b) * n
  <2> HIDE DEF a, b, m, n
  <2> QED
    BY <1>6, <1>7, <1>8, <1>10
<1>13. Cardinality(sums \cap (A \cup B)) = a + b
    BY <1>4
<1> QED
    BY <1>9, <1>11, <1>12, <1>13, RightIs

LEMMA RightEmpty ==
    ASSUME TypeOK, main # "generate"
    PROVE  Right(NoResult, {}) /\ NoResult \in Results
<1>1. Cardinality(Certain \cap {}) = 0 /\ Cardinality(Positions(ops, "read") \cap {}) = 0
      /\ Cardinality(Positions(ops, "sum") \cap {}) = 0
    BY FS_EmptySet
<1>2. 0 * Cardinality(Initial) = 0 /\ 0 * Cardinality(Final) = 0
    BY Sizes
<1> QED
    BY <1>1, <1>2, RightIs DEF NoResult, Results

-----------------------------------------------------------------------------
(* Types *)

USE DEF Goto

LEMMA Fields ==
    ASSUME TypeOK, NEW t \in Threads
    PROVE  /\ call[t] \in Calls
           /\ call[t].keys \subseteq Keys /\ call[t].left \subseteq Keys /\ call[t].from \in Maps
           /\ DOMAIN call[t].seen \subseteq Keys
           /\ call[t].seen \in [DOMAIN call[t].seen -> Marks]
BY DEF TypeOK, Calls, Answers

LEMMA NoCallType == NoCall \in Calls
<1>1. [k \in {} |-> "absent"] \in Answers
    BY DEF Answers
<1>2. EmptyMap \in Maps
    BY DEF EmptyMap, Maps
<1> QED
    BY <1>1, <1>2 DEF NoCall, Calls

LEMMA CallsHave ==
    ASSUME TypeOK, NEW t \in Threads, NEW c \in Calls, call' = [call EXCEPT ![t] = c]
    PROVE  call' \in [Threads -> Calls]
BY DEF TypeOK

LEMMA CardWriter ==
    ASSUME TypeOK, NEW t \in Threads
    PROVE  Cardinality({t}) <= 1 /\ Cardinality(writer \ {t}) <= 1
<1>1. IsFiniteSet(writer)
  <2>1. IsFiniteSet(Threads)
    BY Params, FS_Interval
  <2> QED
    BY <2>1, FS_Subset DEF TypeOK
<1>2. Cardinality(writer \ {t}) <= Cardinality(writer) /\ Cardinality(writer) \in Nat
      /\ Cardinality(writer \ {t}) \in Nat
    BY <1>1, FS_Difference, FS_CardinalityType, FS_Subset
<1>3. Cardinality({t}) = 1
    BY FS_Singleton
<1> QED
    BY <1>2, <1>3 DEF TypeOK

LEMMA MapKeepsTypes ==
    ASSUME TypeOK, Locked, NEW t \in Threads, MapStep(t), UNCHANGED benchVars
    PROVE  TypeOK'
<1> USE Fields DEF Maps, Marks
<1>1. CASE WriteLock(t)
    BY <1>1, CardWriter DEF WriteLock, TypeOK, Labels, Writing, benchVars
<1>2. CASE Insert(t)
  <2>1. [call[t] EXCEPT !.from = impl] \in Calls
    BY DEF TypeOK, Calls
  <2>2. call' \in [Threads -> Calls]
    BY <1>2, <2>1 DEF Insert, TypeOK
  <2>3. impl' \in Maps
    BY <1>2 DEF Insert, TypeOK
  <2> QED
    BY <1>2, <2>2, <2>3 DEF Insert, TypeOK, Labels, Writing, benchVars
<1>3. CASE Assign(t)
  <2>1. impl' \in Maps
    BY <1>3 DEF Assign, TypeOK
  <2>2. Shown(impl') \in Maps
    BY <2>1 DEF Shown
  <2>3. window' \in [Threads -> SUBSET Maps]
    BY <1>3, <2>2 DEF Assign, TypeOK
  <2> QED
    BY <1>3, <2>1, <2>3 DEF Assign, TypeOK, Labels, Writing, benchVars
<1>4. CASE WriteUnlock(t)
    BY <1>4, NoCallType, CardWriter DEF WriteUnlock, TypeOK, Labels, benchVars
<1>5. CASE ReadLock(t)
    BY <1>5 DEF ReadLock, TypeOK, Labels, Reading, benchVars
<1>6. CASE Update(t)
    BY <1>6 DEF Update, TypeOK, Labels, Reading, benchVars
<1>7. CASE Visit(t)
  <2>1. PICK k \in call[t].left :
          call' = [call EXCEPT
              ![t].left = @ \ {k},
              ![t].seen = [j \in DOMAIN @ \cup {k} |->
                  IF j # k THEN @[j]
                  ELSE IF map_type = "persistent" THEN view[t][k] ELSE impl[k]]]
    BY <1>7 DEF Visit
  <2> DEFINE seen == [j \in DOMAIN call[t].seen \cup {k} |->
                  IF j # k THEN call[t].seen[j]
                  ELSE IF map_type = "persistent" THEN view[t][k] ELSE impl[k]]
             c == [call[t] EXCEPT !.left = @ \ {k}, !.seen = seen]
  <2>2. seen \in [DOMAIN call[t].seen \cup {k} -> Marks]
    BY DEF TypeOK
  <2>3. DOMAIN call[t].seen \cup {k} \in SUBSET Keys
    OBVIOUS
  <2>4. seen \in Answers
    BY <2>2, <2>3 DEF Answers
  <2>5. c \in Calls
    <3> HIDE DEF seen
    <3> QED
        BY <2>4 DEF Calls
  <2>6. call' = [call EXCEPT ![t] = c]
    BY <2>1 DEF TypeOK, Calls
  <2>7. call' \in [Threads -> Calls]
    BY <2>5, <2>6, CallsHave
  <2> QED
    BY <1>7, <2>7 DEF Visit, TypeOK, benchVars
<1>8. CASE Answer(t)
    BY <1>8 DEF Answer, TypeOK, Labels, benchVars
<1> QED
    BY <1>1, <1>2, <1>3, <1>4, <1>5, <1>6, <1>7, <1>8 DEF MapStep

\* The threads the latch waits for
Waiting == {t \in Threads : pc[t] \in {"new", "start"}}

LEMMA WaitingFinite ==
    IsFiniteSet(Threads) /\ Cardinality(Threads) = thread_num
    /\ IsFiniteSet(Waiting) /\ Cardinality(Waiting) \in 0 .. thread_num
<1>1. IsFiniteSet(Threads) /\ Cardinality(Threads) = thread_num
  <2>1. thread_num - 1 \in Int /\ thread_num - 1 - 0 + 1 = thread_num
    BY Params
  <2> QED
    BY <2>1, Params, FS_Interval
<1>2. IsFiniteSet(Waiting) /\ Cardinality(Waiting) <= Cardinality(Threads)
    BY <1>1, FS_Subset DEF Waiting
<1> QED
    BY <1>1, <1>2, FS_CardinalityType, Params

\* A thread that exists was created after the latch was set.
LEMMA LatchSet ==
    ASSUME TypeOK, Phases, Latched, NEW t \in Threads, pc[t] # "new"
    PROVE  main \in {"create", "reported"} /\ g_latch = Cardinality(Waiting)
<1>1. t < created /\ t \in Nat
    BY Params DEF Phases, TypeOK
<1>2. created # 0
    BY <1>1 DEF TypeOK
<1> QED
    BY <1>2 DEF Phases, TypeOK, Latched, Waiting

LEMMA ArriveCounts ==
    ASSUME TypeOK, Phases, Latched, NEW t \in Threads, Arrive(t)
    PROVE  /\ Cardinality(Waiting)' = Cardinality(Waiting) - 1
           /\ g_latch = Cardinality(Waiting) /\ g_latch' \in 0 .. thread_num
           /\ main \in {"create", "reported"}
<1>1. pc[t] = "start" /\ pc' = [pc EXCEPT ![t] = "spin"] /\ g_latch' = g_latch - 1
    BY DEF Arrive
<1>2. Waiting' = Waiting \ {t} /\ t \in Waiting
    BY <1>1 DEF Waiting, TypeOK
<1>3. Cardinality(Waiting \ {t}) = Cardinality(Waiting) - 1
      /\ Cardinality(Waiting \ {t}) \in Nat
    BY <1>2, WaitingFinite, FS_RemoveElement, FS_CardinalityType
<1>4. g_latch = Cardinality(Waiting) /\ main \in {"create", "reported"}
    BY <1>1, LatchSet
<1>5. Cardinality(Waiting)' = Cardinality(Waiting \ {t})
    BY <1>2, Zenon
<1>6. Cardinality(Waiting) \in 0 .. thread_num /\ thread_num \in Nat
    BY WaitingFinite, Params
<1>7. g_latch' \in 0 .. thread_num
    BY <1>1, <1>3, <1>4, <1>6
<1> QED
    BY <1>3, <1>4, <1>5, <1>7

LEMMA MainKeepsTypes ==
    ASSUME TypeOK, Main
    PROVE  TypeOK'
<1> USE DEF mapVars
<1>1. CASE gen_input_data
    BY <1>1 DEF gen_input_data, TypeOK, OpLists, Positions
<1>2. CASE Fill
  <2>1. impl' \in Maps
    BY <1>2 DEF Fill, Maps
  <2> QED
    BY <1>2, <2>1 DEF Fill, TypeOK
<1>3. CASE SetLatch
    BY <1>3, Params DEF SetLatch, TypeOK
<1>4. CASE Create
  <2>1. created \in Threads /\ created + 1 \in 0 .. thread_num /\ created < created + 1
    BY <1>4, Params DEF Create, TypeOK
  <2>2. joined \in 0 .. created + 1
    BY <2>1 DEF TypeOK
  <2> QED
    BY <1>4, <2>1, <2>2 DEF Create, TypeOK, Labels, Starting
<1>5. CASE Join
  <2>1. joined \in Threads /\ joined + 1 \in 0 .. created
    BY <1>5, Params DEF Join, TypeOK
  <2>2. Add(total, rlt[joined]) \in Results
    BY <2>1 DEF Add, TypeOK, Results
  <2> QED
    BY <1>5, <2>1, <2>2 DEF Join, TypeOK
<1>6. CASE Report
    BY <1>6 DEF Report, TypeOK
<1> QED
    BY <1>1, <1>2, <1>3, <1>4, <1>5, <1>6 DEF Main

\* The result of one operation
Found(t) ==
    [found_count |-> IF ops[position[t] + 1].op = "read" /\ Member(call[t].seen) THEN 1 ELSE 0,
     sum_acc |-> IF ops[position[t] + 1].op = "sum" THEN TotalValueLength(call[t].seen) ELSE 0]

LEMMA FoundType ==
    ASSUME TypeOK, NEW t \in Threads
    PROVE  Found(t) \in Results
<1>1. TotalValueLength(call[t].seen) \in Nat
  <2> DEFINE K == {k \in DOMAIN call[t].seen : call[t].seen[k] = "written"}
  <2>1. K \subseteq Keys
    BY Fields
  <2>2. Cardinality(K) \in Nat
    BY <2>1, KeysAssumption, FS_Subset, FS_CardinalityType
  <2> QED
    BY <2>2 DEF TotalValueLength
<1> QED
    BY <1>1 DEF Found, Results

\* A thread that is at an operation is in its slice.
LEMMA InSlice ==
    ASSUME TypeOK, Working, NEW t \in Threads,
           \/ pc[t] \notin Starting \cup {"idle", "exited"}
           \/ pc[t] = "idle" /\ position[t] < end_i(t)
    PROVE  /\ position[t] \in Nat /\ position[t] + 1 \in beg_i(t) + 1 .. end_i(t)
           /\ position[t] + 1 \in 1 .. op_num
<1>1. position[t] \in beg_i(t) .. end_i(t) /\ position[t] < end_i(t)
    BY DEF Working, Works, Starting
<1>2. /\ beg_i(t) \in Int /\ end_i(t) \in Int /\ op_num \in Int
      /\ 0 <= beg_i(t) /\ end_i(t) <= op_num
    BY Slice, Params
<1> QED
    BY <1>1, <1>2

\* Threads are started after the list has been made.
LEMMA Generated ==
    ASSUME TypeOK, Phases, Latched, NEW t \in Threads, pc[t] # "new"
    PROVE  main # "generate"
BY LatchSet

LEMMA ThreadKeepsTypes ==
    ASSUME TypeOK, Phases, Latched, Locked, Working, NEW t \in Threads, Thread(t)
    PROVE  TypeOK'
<1>1. CASE Arrive(t)
    BY <1>1, ArriveCounts DEF Arrive, TypeOK, Labels, Starting
<1>2. CASE Pass(t)
  <2>1. view' \in [Threads -> Maps]
    BY <1>2 DEF Pass, CreateView, TypeOK
  <2>2. position' \in [Threads -> 0 .. op_num]
    BY <1>2, Slice DEF Pass, TypeOK
  <2> QED
    BY <1>2, <2>1, <2>2 DEF Pass, TypeOK, Labels
<1>3. CASE Begin(t)
  <2> DEFINE todo == ops[position[t] + 1]
  <2>1. position[t] + 1 \in 1 .. op_num /\ main # "generate"
    BY <1>3, InSlice, Generated DEF Begin
  <2>2. todo.op \in {"write", "read"} => {todo.key} \subseteq Keys
    BY <2>1, Listed
  <2>3. CASE todo.op = "write" /\ CallStore(t, todo.key)
    <3>1. [call[t] EXCEPT !.keys = {todo.key}] \in Calls
        BY <2>2, <2>3, Fields DEF Calls
    <3>2. call' \in [Threads -> Calls]
        BY <2>3, <3>1 DEF CallStore, TypeOK
    <3> QED
        BY <1>3, <2>3, <3>2 DEF Begin, benchVars, CallStore, TypeOK, Labels
  <2>4. ASSUME NEW keys \in SUBSET Keys, CallRead(t, keys)
        PROVE  TypeOK'
    <3>1. [call[t] EXCEPT !.keys = keys, !.left = keys] \in Calls
        BY Fields DEF Calls
    <3>2. call' = [call EXCEPT ![t] = [call[t] EXCEPT !.keys = keys, !.left = keys]]
        BY <2>4 DEF CallRead, TypeOK, Calls
    <3>3. call' \in [Threads -> Calls]
        BY <3>1, <3>2, CallsHave
    <3>4. Shown(impl) \in Maps
        BY DEF Shown, Maps, TypeOK
    <3>5. window' \in [Threads -> SUBSET Maps]
        BY <2>4, <3>4 DEF CallRead, TypeOK
    <3> QED
        BY <1>3, <2>4, <3>3, <3>5 DEF Begin, benchVars, CallRead, TypeOK, Labels, Reading
  <2> QED
    BY <1>3, <2>2, <2>3, <2>4 DEF Begin
<1>4. CASE Finish(t)
  <2>1. position[t] + 1 \in 1 .. op_num
    <3>1. pc[t] \in {"done", "answered"}
        BY <1>4 DEF Finish
    <3> QED
        BY <3>1, InSlice DEF Starting
  <2>2. rlt' = [rlt EXCEPT ![t] = Add(@, Found(t))]
    BY <1>4 DEF Finish, Found
  <2>3. Add(rlt[t], Found(t)) \in Results
    BY FoundType DEF Add, Results, TypeOK
  <2>4. call' \in [Threads -> Calls]
    BY <1>4, NoCallType, CallsHave DEF Finish, Return
  <2> QED
    BY <1>4, <2>1, <2>2, <2>3, <2>4 DEF Finish, Return, TypeOK, Labels
<1>5. CASE Exit(t)
    BY <1>5 DEF Exit, TypeOK, Labels, benchVars
<1>6. CASE MapStep(t) /\ UNCHANGED benchVars
    BY <1>6, MapKeepsTypes
<1> QED
    BY <1>1, <1>2, <1>3, <1>4, <1>5, <1>6 DEF Thread

-----------------------------------------------------------------------------
(* The main thread, the latch and the locks *)

\* A step of a thread changes what is its own.
LEMMA Own ==
    ASSUME TypeOK, NEW t \in Threads, Thread(t)
    PROVE  /\ UNCHANGED <<map_type, init_keys, ops, main, created, joined, total>>
           /\ pc[t] # "new" /\ pc[t] # "exited" /\ pc'[t] \notin {"new", "start"}
           /\ (pc'[t] = "spin") <=> (pc[t] = "start")
           /\ pc[t] \in {"start"} => pc'[t] = "spin"
           /\ pc'[t] = "exited" => Exit(t)
           /\ \A u \in Threads \ {t} :
                 /\ pc'[u] = pc[u] /\ call'[u] = call[u] /\ view'[u] = view[u]
                 /\ position'[u] = position[u] /\ rlt'[u] = rlt[u]
<1>1. CASE Arrive(t)
    BY <1>1 DEF Arrive, TypeOK
<1>2. CASE Pass(t)
    BY <1>2 DEF Pass, CreateView, TypeOK
<1>3. CASE Begin(t)
    BY <1>3 DEF Begin, CallStore, CallRead, TypeOK, benchVars
<1>4. CASE Finish(t)
    BY <1>4 DEF Finish, Return, TypeOK
<1>5. CASE Exit(t)
    BY <1>5 DEF Exit, TypeOK, benchVars
<1>6. CASE MapStep(t) /\ UNCHANGED benchVars
    BY <1>6 DEF MapStep, WriteLock, Insert, Assign, WriteUnlock, ReadLock, Update, Visit, Answer,
       TypeOK, benchVars
<1> QED
    BY <1>1, <1>2, <1>3, <1>4, <1>5, <1>6 DEF Thread

LEMMA PhasesStay ==
    ASSUME TypeOK, Phases, Latched, Working, [Next]_vars
    PROVE  Phases'
<1>1. CASE gen_input_data
    BY <1>1 DEF gen_input_data, Phases, mapVars
<1>2. CASE Fill
    BY <1>2 DEF Fill, Phases
<1>3. CASE SetLatch
    BY <1>3 DEF SetLatch, Phases, mapVars
<1>4. CASE Create
  <2>1. created \in Threads /\ created \in Nat /\ pc[created] = "new" /\ joined = 0
    BY <1>4, Params DEF Create, TypeOK, Phases
  <2>2. \A t \in Threads : t \in Nat
    BY Params
  <2> QED
    BY <1>4, <2>1, <2>2 DEF Create, Phases, TypeOK, Starting
<1>5. CASE Join
  <2>1. \A t \in Threads : t \in Nat
    BY Params
  <2>2. created = thread_num /\ joined + 1 > 0 /\ joined \in Nat /\ main = "create"
    BY <1>5 DEF Join, TypeOK
  <2>3. \A t \in Threads : t < joined + 1 => pc[t] = "exited"
    BY <1>5, <2>1, <2>2 DEF Join, Phases
  <2> QED
    BY <1>5, <2>2, <2>3 DEF Join, Phases, mapVars
<1>6. CASE Report
    BY <1>6 DEF Report, Phases, mapVars
<1>7. ASSUME NEW t \in Threads, Thread(t)
      PROVE  Phases'
  <2>1. /\ UNCHANGED <<main, created, joined, total>>
        /\ pc[t] # "new" /\ pc[t] # "exited" /\ pc'[t] \notin {"new", "start"}
        /\ (pc'[t] = "spin") <=> (pc[t] = "start")
        /\ \A u \in Threads \ {t} :
              pc'[u] = pc[u] /\ position'[u] = position[u] /\ rlt'[u] = rlt[u]
    BY <1>7, Own
  <2>2. ~ (t < joined)
    BY <2>1 DEF Phases
  <2>3. pc'[t] \in Starting => position'[t] = 0 /\ rlt'[t] = NoResult
    <3>1. SUFFICES ASSUME pc'[t] = "spin"
                   PROVE  position'[t] = 0 /\ rlt'[t] = NoResult
        BY <2>1 DEF Starting
    <3>2. Arrive(t)
        BY <1>7, <2>1, <3>1 DEF Thread, Pass, Begin, Finish, Exit, MapStep, WriteLock, Insert,
           Assign, WriteUnlock, ReadLock, Update, Visit, Answer
    <3> QED
        BY <3>2 DEF Arrive, Phases, Starting
  <2> QED
    BY <2>1, <2>2, <2>3 DEF Phases
<1>8. CASE UNCHANGED vars
    BY <1>8 DEF vars, mapVars, benchVars, Phases
<1> QED
    BY <1>1, <1>2, <1>3, <1>4, <1>5, <1>6, <1>7, <1>8 DEF Next, Main

LEMMA LatchedIs ==
    ASSUME TypeOK
    PROVE  Latched <=>
               /\ main \in {"generate", "fill", "latch"} => g_latch = 0
               /\ main \in {"create", "reported"} => g_latch = Cardinality(Waiting)
               /\ (\E t \in Threads : pc[t] \notin Starting) => Waiting = {}
<1>1. StartsTogether <=> ((\E t \in Threads : pc[t] \notin Starting) => Waiting = {})
    BY DEF StartsTogether, Starting, Waiting
<1>2. Latched <=>
          /\ main \in {"generate", "fill", "latch"} => g_latch = 0
          /\ main \in {"create", "reported"} => g_latch = Cardinality(Waiting)
          /\ StartsTogether
    BY DEF Latched, Waiting, TypeOK
<1> QED
    BY <1>1, <1>2

LEMMA LatchedStays ==
    ASSUME TypeOK, TypeOK', Phases, Latched, [Next]_vars
    PROVE  Latched'
<1>1. Latched' <=>
          /\ main' \in {"generate", "fill", "latch"} => g_latch' = 0
          /\ main' \in {"create", "reported"} => g_latch' = Cardinality(Waiting)'
          /\ (\E t \in Threads : pc'[t] \notin Starting) => Waiting' = {}
  <2>1. StartsTogether' <=> ((\E t \in Threads : pc'[t] \notin Starting) => Waiting' = {})
    BY DEF StartsTogether, Starting, Waiting
  <2>2. Latched' <=>
          /\ main' \in {"generate", "fill", "latch"} => g_latch' = 0
          /\ main' \in {"create", "reported"} => g_latch' = Cardinality(Waiting)'
          /\ StartsTogether'
    BY DEF Latched, Waiting, TypeOK
  <2> QED
    BY <2>1, <2>2
<1>2. ASSUME pc' = pc, g_latch' = g_latch, main' = main
      PROVE  Latched'
    BY <1>2 DEF Latched, StartsTogether
<1>3. CASE gen_input_data
    BY <1>3 DEF gen_input_data, mapVars, Latched, StartsTogether
<1>4. CASE Fill
    BY <1>4 DEF Fill, Latched, StartsTogether
<1>5. CASE SetLatch
  <2>1. pc' = pc /\ main = "latch" /\ g_latch' = thread_num
    BY <1>5 DEF SetLatch, mapVars
  <2>2. \A t \in Threads : pc[t] = "new"
    BY <2>1, Params DEF Phases
  <2>3. Waiting' = Threads
    BY <2>1, <2>2 DEF Waiting
  <2>4. Cardinality(Waiting)' = thread_num
    BY <2>3, WaitingFinite, Zenon
  <2>5. ~ \E t \in Threads : pc'[t] \notin Starting
    BY <2>1, <2>2 DEF Starting
  <2>6. main' = "create"
    BY <1>5 DEF SetLatch
  <2> QED
    BY <1>1, <2>1, <2>4, <2>5, <2>6
<1>6. CASE Create
  <2>1. /\ created \in Threads /\ pc[created] = "new" /\ pc' = [pc EXCEPT ![created] = "start"]
        /\ g_latch' = g_latch /\ main' = main
    BY <1>6, Params DEF Create, TypeOK, Phases
  <2>2. Waiting' = Waiting
    BY <2>1 DEF Waiting, TypeOK
  <2>3. \A t \in Threads : pc'[t] \notin Starting => pc[t] \notin Starting
    BY <2>1 DEF Starting, TypeOK
  <2>4. Cardinality(Waiting)' = Cardinality(Waiting)
    BY <2>2, Zenon
  <2> QED
    BY <1>1, <2>1, <2>2, <2>3, <2>4, LatchedIs
<1>7. CASE Join
    BY <1>2, <1>7 DEF Join, mapVars
<1>8. CASE Report
  <2>1. main = "create" /\ main' = "reported" /\ pc' = pc /\ g_latch' = g_latch
    BY <1>8 DEF Report, mapVars
  <2> QED
    BY <2>1 DEF Latched, StartsTogether
<1>9. ASSUME NEW t \in Threads, Arrive(t)
      PROVE  Latched'
  <2>1. /\ Cardinality(Waiting)' = Cardinality(Waiting) - 1
        /\ g_latch = Cardinality(Waiting) /\ main \in {"create", "reported"}
    BY <1>9, ArriveCounts
  <2>2. g_latch' = g_latch - 1 /\ main' = main /\ pc' = [pc EXCEPT ![t] = "spin"]
    BY <1>9 DEF Arrive
  <2>3. \A u \in Threads : pc'[u] \notin Starting => pc[u] \notin Starting
    BY <2>2 DEF Starting, TypeOK
  <2>4. Waiting' \subseteq Waiting
    BY <2>2 DEF Waiting, TypeOK
  <2> QED
    BY <1>1, <2>1, <2>2, <2>3, <2>4, LatchedIs
<1>10. ASSUME NEW t \in Threads, Thread(t), ~ Arrive(t)
       PROVE  Latched'
  <2>1. g_latch' = g_latch /\ main' = main
    BY <1>10 DEF Thread, Pass, Begin, Finish, Exit, benchVars
  <2>2. /\ pc[t] \notin {"new", "start"} /\ pc'[t] \notin {"new", "start"}
        /\ \A u \in Threads \ {t} : pc'[u] = pc[u]
    <3>1. pc[t] # "start"
        BY <1>10 DEF Thread, Pass, Begin, Finish, Exit, MapStep, WriteLock, Insert, Assign,
           WriteUnlock, ReadLock, Update, Visit, Answer
    <3> QED
        BY <1>10, <3>1, Own
  <2>3. Waiting' = Waiting
    BY <2>2 DEF Waiting
  <2>4. Waiting = {}
    <3>1. CASE pc[t] \notin Starting
        BY <3>1, LatchedIs
    <3>2. CASE pc[t] = "spin"
      <4>1. g_latch <= 0
        BY <1>10, <3>2 DEF Thread, Pass, Begin, Finish, Exit, MapStep, WriteLock, Insert, Assign,
           WriteUnlock, ReadLock, Update, Visit, Answer
      <4>2. g_latch = Cardinality(Waiting)
        BY <3>2, LatchSet
      <4>3. Cardinality(Waiting) = 0
        BY <4>1, <4>2, WaitingFinite
      <4> QED
        BY <4>3, WaitingFinite, FS_EmptySet
    <3> QED
        BY <2>2, <3>1, <3>2 DEF Starting
  <2>5. Cardinality(Waiting)' = Cardinality(Waiting)
    BY <2>3, Zenon
  <2> QED
    BY <1>1, <2>1, <2>3, <2>4, <2>5, LatchedIs
<1>11. CASE UNCHANGED vars
    BY <1>2, <1>11 DEF vars, mapVars, benchVars
<1> QED
    BY <1>3, <1>4, <1>5, <1>6, <1>7, <1>8, <1>9, <1>10, <1>11 DEF Next, Main

\* No thread is at work before all have been created.
LEMMA BeforeCreate ==
    ASSUME TypeOK, Phases, Latched, main \in {"generate", "fill", "latch"}
    PROVE  \A t \in Threads : pc[t] = "new"
BY Params DEF Phases

LEMMA OneWriter ==
    ASSUME TypeOK, Locked, NEW t \in Threads, NEW u \in Threads,
           pc[t] \in Writing, pc[u] \in Writing
    PROVE  t = u
<1>1. t \in writer /\ u \in writer
    BY DEF Locked
<1>2. IsFiniteSet(writer) /\ Cardinality(writer) \in Nat /\ Cardinality(writer) <= 1
    BY WaitingFinite, FS_Subset, FS_CardinalityType DEF TypeOK
<1>3. Cardinality(writer) # 0
    BY <1>1, <1>2, FS_EmptySet
<1>4. Cardinality(writer) = 1
    BY <1>2, <1>3
<1> QED
    BY <1>1, <1>2, <1>4, FS_Singleton

\* The locks and the labels of all threads, where one thread has moved.
LEMMA LockedStays ==
    ASSUME TypeOK, TypeOK', Phases, Latched, Locked, [Next]_vars
    PROVE  Locked'
<1> USE DEF Writing
<1>1. ASSUME UNCHANGED <<pc, writer, readers, map_type>>
      PROVE  Locked'
    BY <1>1 DEF Locked
<1>2. CASE gen_input_data \/ Fill \/ SetLatch \/ Join \/ Report
    BY <1>1, <1>2 DEF gen_input_data, Fill, SetLatch, Join, Report, mapVars
<1>3. ASSUME NEW t \in Threads, NEW label, pc' = [pc EXCEPT ![t] = label],
             UNCHANGED <<writer, readers, map_type>>,
             pc[t] \notin Writing \cup {"visit"}, label \notin Writing \cup {"visit"},
             label = "update" => map_type = "persistent",
             label = "readLock" => map_type # "persistent"
      PROVE  Locked'
    BY <1>3 DEF Locked, TypeOK
<1>4. CASE Create
  <2>1. created \in Threads /\ pc[created] = "new"
    BY <1>4, Params DEF Create, TypeOK, Phases
  <2> QED
    BY <1>3, <1>4, <2>1 DEF Create
<1>5. ASSUME NEW t \in Threads, Arrive(t) \/ Pass(t) \/ Finish(t) \/ Exit(t)
      PROVE  Locked'
    BY <1>3, <1>5 DEF Arrive, Pass, Finish, Return, Exit, benchVars
<1>6. ASSUME NEW t \in Threads, Begin(t)
      PROVE  Locked'
    BY <1>3, <1>6 DEF Begin, CallStore, CallRead
<1>7. ASSUME NEW t \in Threads, WriteLock(t)
      PROVE  Locked'
    BY <1>7 DEF WriteLock, Locked, TypeOK
<1>8. ASSUME NEW t \in Threads, Insert(t)
      PROVE  Locked'
    BY <1>8 DEF Insert, Locked, TypeOK
<1>9. ASSUME NEW t \in Threads, Assign(t)
      PROVE  Locked'
    BY <1>9 DEF Assign, Locked, TypeOK
<1>10. ASSUME NEW t \in Threads, WriteUnlock(t)
       PROVE  Locked'
    BY <1>10 DEF WriteUnlock, Locked, TypeOK
<1>11. ASSUME NEW t \in Threads, ReadLock(t)
       PROVE  Locked'
    BY <1>11 DEF ReadLock, Locked, TypeOK
<1>12. ASSUME NEW t \in Threads, Update(t)
       PROVE  Locked'
    BY <1>12 DEF Update, Locked, TypeOK
<1>13. ASSUME NEW t \in Threads, Visit(t)
       PROVE  Locked'
    BY <1>1, <1>13 DEF Visit
<1>14. ASSUME NEW t \in Threads, Answer(t)
       PROVE  Locked'
    BY <1>14 DEF Answer, Locked, TypeOK
<1>15. CASE UNCHANGED vars
    BY <1>1, <1>15 DEF vars, mapVars
<1> QED
    BY <1>2, <1>4, <1>5, <1>6, <1>7, <1>8, <1>9, <1>10, <1>11, <1>12, <1>13, <1>14, <1>15
    DEF Next, Main, Thread, MapStep

LEMMA HalfDoneStays ==
    ASSUME TypeOK, TypeOK', Phases, Latched, Locked, HalfDone, [Next]_vars
    PROVE  HalfDone'
<1>1. ASSUME UNCHANGED <<impl, map_type>>,
             NEW t \in Threads, pc[t] # "assign", pc'[t] # "assign",
             \A u \in Threads \ {t} : pc'[u] = pc[u] /\ call'[u] = call[u]
      PROVE  HalfDone'
    BY <1>1 DEF HalfDone
<1>2. CASE Fill
  <2>1. \A t \in Threads : pc'[t] = "new"
    BY <1>2, BeforeCreate DEF Fill
  <2>2. \A k \in Keys : impl'[k] # "empty"
    BY <1>2 DEF Fill
  <2> QED
    BY <2>1, <2>2 DEF HalfDone
<1>3. ASSUME UNCHANGED <<impl, map_type, pc, call>>
      PROVE  HalfDone'
    BY <1>3 DEF HalfDone
<1>4. CASE gen_input_data \/ SetLatch \/ Join \/ Report
    BY <1>3, <1>4 DEF gen_input_data, SetLatch, Join, Report, mapVars
<1>5. CASE Create
  <2>1. created \in Threads /\ pc[created] = "new"
    BY <1>5, Params DEF Create, TypeOK, Phases
  <2> QED
    BY <1>1, <1>5, <2>1 DEF Create, TypeOK
<1>6. ASSUME NEW t \in Threads, Insert(t)
      PROVE  HalfDone'
  <2>1. call'[t].from = impl /\ call'[t].keys = call[t].keys /\ pc'[t] = "assign"
        /\ \A u \in Threads \ {t} : pc'[u] = pc[u] /\ call'[u] = call[u]
    BY <1>6 DEF Insert, TypeOK, Calls
  <2>2. ASSUME map_type = "persistent"
        PROVE  impl' = impl
    BY <1>6, <2>2 DEF Insert, TypeOK, Maps
  <2>3. \A k \in Keys : impl'[k] = "empty" =>
            impl[k] = "empty" \/ (map_type # "persistent" /\ k \in call[t].keys)
    BY <1>6 DEF Insert
  <2>4. pc[t] = "insert" /\ map_type' = map_type
    BY <1>6 DEF Insert
  <2> QED
    BY <2>1, <2>2, <2>3, <2>4 DEF HalfDone
<1>7. ASSUME NEW t \in Threads, Assign(t)
      PROVE  HalfDone'
  <2>1. pc[t] = "assign" /\ pc' = [pc EXCEPT ![t] = "writeUnlock"] /\ call' = call
        /\ map_type' = map_type
    BY <1>7 DEF Assign
  <2>2. \A u \in Threads : pc'[u] # "assign"
    BY <2>1, OneWriter DEF TypeOK, Writing
  <2>3. \A u \in Threads : pc[u] = "assign" => u = t
    BY <2>1, OneWriter DEF Writing
  <2>4. \A k \in Keys : impl'[k] = "empty" => impl[k] = "empty" /\ k \notin call[t].keys
    BY <1>7, <2>1 DEF Assign, HalfDone
  <2>5. \A k \in Keys : impl'[k] # "empty"
    BY <2>3, <2>4 DEF HalfDone
  <2> QED
    BY <2>2, <2>5 DEF HalfDone
<1>8. ASSUME NEW t \in Threads, Thread(t), ~ Insert(t), ~ Assign(t)
      PROVE  HalfDone'
  <2>1. UNCHANGED <<impl, map_type>>
    BY <1>8 DEF Thread, Arrive, Pass, Begin, CallStore, CallRead, Finish, Return, Exit, MapStep,
       WriteLock, WriteUnlock, ReadLock, Update, Visit, Answer, mapVars
  <2>2. pc[t] # "assign" /\ pc'[t] # "assign"
    BY <1>8 DEF Thread, Arrive, Pass, Begin, CallStore, CallRead, Finish, Return, Exit, MapStep,
       WriteLock, WriteUnlock, ReadLock, Update, Visit, Answer, TypeOK
  <2> QED
    BY <1>1, <1>8, <2>1, <2>2, Own
<1>9. CASE UNCHANGED vars
    BY <1>3, <1>9 DEF vars, mapVars
<1> QED
    BY <1>2, <1>4, <1>5, <1>6, <1>7, <1>8, <1>9 DEF Next, Main, Thread, MapStep

-----------------------------------------------------------------------------
(* What readers see *)

\* A reading of the hash map excludes writers.
LEMMA ReadersAlone ==
    ASSUME TypeOK, Locked, NEW t \in Threads, NEW u \in Threads,
           pc[t] = "visit", pc[u] \in Writing
    PROVE  map_type = "persistent"
BY DEF Locked, TypeOK

LEMMA ShownWhole ==
    ASSUME TypeOK, HalfDone, map_type = "persistent"
    PROVE  Shown(impl) = impl
BY DEF TypeOK, HalfDone, Shown, Maps

LEMMA VisitSees ==
    ASSUME TypeOK, NEW t \in Threads, Visit(t)
    PROVE  /\ UNCHANGED <<pc, view, impl, window, map_type>>
           /\ call'[t].keys = call[t].keys
           /\ \E k \in call[t].left :
                 /\ call'[t].left = call[t].left \ {k}
                 /\ DOMAIN call'[t].seen = DOMAIN call[t].seen \cup {k}
                 /\ \A j \in DOMAIN call'[t].seen : call'[t].seen[j] =
                       IF j # k THEN call[t].seen[j]
                       ELSE IF map_type = "persistent" THEN view[t][k] ELSE impl[k]
<1>1. PICK k \in call[t].left :
          call' = [call EXCEPT
              ![t].left = @ \ {k},
              ![t].seen = [j \in DOMAIN @ \cup {k} |->
                  IF j # k THEN @[j]
                  ELSE IF map_type = "persistent" THEN view[t][k] ELSE impl[k]]]
    BY DEF Visit
<1>2. /\ call'[t].left = call[t].left \ {k}
      /\ call'[t].seen = [j \in DOMAIN call[t].seen \cup {k} |->
             IF j # k THEN call[t].seen[j]
             ELSE IF map_type = "persistent" THEN view[t][k] ELSE impl[k]]
      /\ call'[t].keys = call[t].keys
    BY <1>1 DEF TypeOK, Calls
<1>3. UNCHANGED <<pc, view, impl, window, map_type>>
    BY DEF Visit
<1>4. DOMAIN call'[t].seen = DOMAIN call[t].seen \cup {k}
    BY <1>2
<1>5. \A j \in DOMAIN call'[t].seen : call'[t].seen[j] =
          IF j # k THEN call[t].seen[j]
          ELSE IF map_type = "persistent" THEN view[t][k] ELSE impl[k]
    BY <1>2
<1> QED
    BY <1>2, <1>3, <1>4, <1>5

LEMMA WindowsStay ==
    ASSUME TypeOK, TypeOK', Phases, Latched, Locked, HalfDone, Windows, Working, [Next]_vars
    PROVE  Windows'
<1> DEFINE Window(t) ==
        /\ window[t] # {} <=> pc[t] \in Reading
        /\ pc[t] \in Reading => Shown(impl) \in window[t]
        /\ pc[t] = "visit" /\ map_type = "persistent" => view[t] \in window[t]
        /\ pc[t] = "visit" => \A k \in DOMAIN call[t].seen :
              call[t].seen[k] = IF map_type = "persistent" THEN view[t][k] ELSE impl[k]
<1>1. Windows <=> \A t \in Threads : Window(t)
    BY DEF Windows
<1>2. Windows' <=> \A t \in Threads : Window(t)'
    BY DEF Windows
<1> USE DEF Reading
<1>3. ASSUME UNCHANGED <<impl, map_type, pc, call, window, view>>
      PROVE  Windows'
    BY <1>3 DEF Windows, Shown
<1>4. ASSUME UNCHANGED <<impl, map_type>>,
             NEW t \in Threads, Window(t)',
             \A u \in Threads \ {t} :
                 pc'[u] = pc[u] /\ call'[u] = call[u] /\ window'[u] = window[u] /\ view'[u] = view[u]
      PROVE  Windows'
    BY <1>1, <1>2, <1>4 DEF Shown
<1>5. CASE Fill
  <2>1. \A t \in Threads : pc[t] = "new" /\ pc'[t] = "new"
    BY <1>5, BeforeCreate DEF Fill
  <2> QED
    BY <1>5, <2>1 DEF Fill, Windows
<1>6. CASE gen_input_data \/ SetLatch \/ Join \/ Report
    BY <1>3, <1>6 DEF gen_input_data, SetLatch, Join, Report, mapVars
<1>7. CASE Create
  <2>1. PICK t \in Threads : t = created /\ pc[t] = "new"
    BY <1>7, Params DEF Create, TypeOK, Phases
  <2>2. pc' = [pc EXCEPT ![t] = "start"] /\ UNCHANGED <<call, view, window, impl, map_type>>
    BY <1>7, <2>1 DEF Create
  <2>3. Window(t)'
    BY <2>1, <2>2 DEF TypeOK, Windows
  <2> QED
    BY <1>4, <2>2, <2>3 DEF TypeOK
<1>8. ASSUME NEW t \in Threads, Insert(t)
      PROVE  Windows'
  <2>1. Shown(impl') = Shown(impl)
    BY <1>8 DEF Insert, Shown, TypeOK, Maps
  <2>2. \A u \in Threads : pc'[u] = "visit" => pc[u] = "visit" /\ u # t /\ map_type = "persistent"
    BY <1>8, ReadersAlone DEF Insert, TypeOK, Writing
  <2>3. map_type' = map_type /\ window' = window /\ view' = view
        /\ pc[t] = "insert" /\ pc'[t] = "assign"
        /\ \A u \in Threads \ {t} : pc'[u] = pc[u] /\ call'[u] = call[u]
    BY <1>8 DEF Insert, TypeOK
  <2> QED
    BY <2>1, <2>2, <2>3 DEF Windows
<1>9. ASSUME NEW t \in Threads, Assign(t)
      PROVE  Windows'
  <2>1. window' = [u \in Threads |->
            IF window[u] = {} THEN {} ELSE window[u] \cup {Shown(impl')}]
    BY <1>9 DEF Assign
  <2>2. \A u \in Threads : pc'[u] = "visit" => pc[u] = "visit" /\ u # t /\ map_type = "persistent"
    BY <1>9, ReadersAlone DEF Assign, TypeOK, Writing
  <2>3. map_type' = map_type /\ view' = view /\ pc[t] = "assign" /\ pc'[t] = "writeUnlock"
        /\ \A u \in Threads \ {t} : pc'[u] = pc[u] /\ call'[u] = call[u]
    BY <1>9 DEF Assign, TypeOK
  <2> QED
    BY <2>1, <2>2, <2>3 DEF Windows
<1>10. ASSUME NEW t \in Threads, Begin(t)
       PROVE  Windows'
  <2>1. ASSUME NEW key, CallStore(t, key)
        PROVE  Windows'
    <3>1. Window(t)'
        BY <2>1 DEF CallStore, TypeOK, Windows
    <3> QED
        BY <1>4, <2>1, <3>1 DEF CallStore, TypeOK
  <2>2. ASSUME NEW keys, CallRead(t, keys)
        PROVE  Windows'
    <3>1. window'[t] = {Shown(impl)} /\ pc'[t] \in {"update", "readLock"}
          /\ impl' = impl
        BY <2>2 DEF CallRead, TypeOK
    <3>2. Window(t)'
        BY <3>1 DEF Shown
    <3> QED
        BY <1>4, <2>2, <3>2 DEF CallRead, TypeOK
  <2> QED
    BY <1>10, <2>1, <2>2 DEF Begin
<1>11. ASSUME NEW t \in Threads, ReadLock(t)
       PROVE  Windows'
  <2>1. DOMAIN call[t].seen = {} /\ map_type # "persistent"
    BY <1>11 DEF ReadLock, Working, Works, Locked
  <2>2. Window(t)'
    BY <1>11, <2>1 DEF ReadLock, TypeOK, Windows, Shown
  <2> QED
    BY <1>4, <1>11, <2>2 DEF ReadLock, TypeOK
<1>12. ASSUME NEW t \in Threads, Update(t)
       PROVE  Windows'
  <2>1. DOMAIN call[t].seen = {} /\ map_type = "persistent"
    BY <1>12 DEF Update, Working, Works, Locked
  <2>2. impl \in window[t] /\ Shown(impl) \in window[t]
    BY <1>12, <2>1, ShownWhole DEF Update, Windows
  <2>3. view'[t] = impl /\ pc'[t] = "visit" /\ window' = window /\ impl' = impl /\ call' = call
    BY <1>12 DEF Update, TypeOK
  <2>4. Window(t)'
    BY <2>1, <2>2, <2>3 DEF Shown
  <2> QED
    BY <1>4, <1>12, <2>4 DEF Update, TypeOK
<1>13. ASSUME NEW t \in Threads, Visit(t)
       PROVE  Windows'
  <2>1. pc[t] = "visit"
    BY <1>13 DEF Visit
  <2>2. Window(t)'
    BY <1>1, <1>13, <2>1, VisitSees DEF Shown
  <2> QED
    BY <1>4, <1>13, <2>2 DEF Visit, TypeOK
<1>14. ASSUME NEW t \in Threads, Answer(t)
       PROVE  Windows'
  <2>1. Window(t)'
    BY <1>14 DEF Answer, TypeOK
  <2> QED
    BY <1>4, <1>14, <2>1 DEF Answer, TypeOK
<1>15. ASSUME NEW t \in Threads, Thread(t), ~ Insert(t), ~ Assign(t), ~ Begin(t),
              ~ ReadLock(t), ~ Update(t), ~ Visit(t), ~ Answer(t)
       PROVE  Windows'
  <2>1. pc[t] \notin Reading /\ pc'[t] \notin Reading /\ window' = window
        /\ UNCHANGED <<impl, map_type>>
    BY <1>15 DEF Arrive, Pass, Finish, Return, Exit, WriteLock, WriteUnlock, TypeOK, Thread,
       MapStep, benchVars
  <2>2. Window(t)'
    BY <2>1 DEF Windows
  <2> QED
    BY <1>4, <1>15, <2>1, <2>2, Own
<1>16. CASE UNCHANGED vars
    BY <1>3, <1>16 DEF vars, mapVars
<1> QED
    BY <1>5, <1>6, <1>7, <1>8, <1>9, <1>10, <1>11, <1>12, <1>13, <1>14, <1>15, <1>16
    DEF Next, Main

-----------------------------------------------------------------------------
(* Where the threads are in their slices *)

LEMMA WorkingStays ==
    ASSUME TypeOK, TypeOK', Phases, Latched, Locked, Working, [Next]_vars
    PROVE  Working'
<1>1. Working' <=> \A t \in Threads : Works(t)'
    BY DEF Working
<1>2. \A t \in Threads : Works(t)
    BY DEF Working
<1> USE DEF Reading, Writing, Starting
<1>3. ASSUME UNCHANGED <<pc, call, position, ops>>
      PROVE  Working'
    BY <1>3 DEF Working, Works
<1>4. ASSUME NEW t \in Threads, Works(t)', ops' = ops,
             \A u \in Threads \ {t} :
                 pc'[u] = pc[u] /\ call'[u] = call[u] /\ position'[u] = position[u]
      PROVE  Working'
    BY <1>1, <1>2, <1>4 DEF Works
<1>5. CASE gen_input_data
  <2>1. \A t \in Threads : pc[t] = "new"
    BY <1>5, BeforeCreate DEF gen_input_data
  <2>2. pc' = pc /\ call' = call
    BY <1>5 DEF gen_input_data, mapVars
  <2> QED
    BY <2>1, <2>2 DEF Working, Works
<1>6. CASE Fill \/ SetLatch \/ Join \/ Report
    BY <1>3, <1>6 DEF Fill, SetLatch, Join, Report, mapVars
<1>7. CASE Create
  <2>1. PICK t \in Threads : t = created /\ pc[t] = "new"
    BY <1>7, Params DEF Create, TypeOK, Phases
  <2>2. pc' = [pc EXCEPT ![t] = "start"] /\ UNCHANGED <<call, position, ops>>
    BY <1>7, <2>1 DEF Create
  <2>3. Works(t)'
    BY <1>2, <2>1, <2>2 DEF TypeOK, Works
  <2> QED
    BY <1>4, <2>2, <2>3 DEF TypeOK
<1>8. ASSUME NEW t \in Threads, Thread(t), Works(t)'
      PROVE  Working'
    BY <1>4, <1>8, Own
<1>9. ASSUME NEW t \in Threads, Arrive(t)
      PROVE  Works(t)'
    BY <1>2, <1>9 DEF Arrive, TypeOK, Works
<1>10. ASSUME NEW t \in Threads, Pass(t)
       PROVE  Works(t)'
  <2>1. beg_i(t) \in beg_i(t) .. end_i(t)
    BY Slice
  <2> QED
    BY <1>2, <1>10, <2>1 DEF Pass, TypeOK, Works
<1>11. ASSUME NEW t \in Threads, Begin(t)
       PROVE  Works(t)'
  <2> DEFINE todo == ops[position[t] + 1]
  <2>1. pc[t] = "idle" /\ position[t] < end_i(t) /\ UNCHANGED <<position, ops>>
    BY <1>11 DEF Begin, benchVars
  <2>2. position[t] \in beg_i(t) .. end_i(t) /\ DOMAIN call[t].seen = {}
    BY <1>2, <2>1 DEF Works
  <2>3. ASSUME todo.op = "write", CallStore(t, todo.key)
        PROVE  Works(t)'
    <3>1. pc'[t] = "writeLock" /\ call'[t].keys = {todo.key} /\ call'[t].seen = call[t].seen
        BY <2>3 DEF CallStore, TypeOK, Calls
    <3> QED
        BY <2>1, <2>2, <2>3, <3>1 DEF Works
  <2>4. ASSUME NEW keys, CallRead(t, keys),
               \/ todo.op = "read" /\ keys = {todo.key}
               \/ todo.op = "sum" /\ keys = Keys
        PROVE  Works(t)'
    <3>1. pc'[t] \in {"update", "readLock"} /\ call'[t].keys = keys /\ call'[t].left = keys
          /\ call'[t].seen = call[t].seen
        BY <2>4 DEF CallRead, TypeOK, Calls
    <3> QED
        BY <2>1, <2>2, <2>4, <3>1 DEF Works
  <2> QED
    BY <1>11, <2>3, <2>4 DEF Begin
<1>12. ASSUME NEW t \in Threads, Finish(t)
       PROVE  Works(t)'
  <2>1. pc[t] \in {"done", "answered"} /\ pc'[t] = "idle" /\ position'[t] = position[t] + 1
        /\ call'[t] = NoCall
    BY <1>12 DEF Finish, Return, TypeOK
  <2>2. position[t] + 1 \in beg_i(t) + 1 .. end_i(t)
    BY <2>1, InSlice
  <2>3. position[t] + 1 \in beg_i(t) .. end_i(t)
    BY <2>2, Slice
  <2>4. DOMAIN NoCall.seen = {}
    BY DEF NoCall
  <2> QED
    BY <2>1, <2>3, <2>4 DEF Works
<1>13. ASSUME NEW t \in Threads, Exit(t)
       PROVE  Works(t)'
  <2>1. pc[t] = "idle" /\ position[t] >= end_i(t) /\ pc'[t] = "exited"
        /\ UNCHANGED <<call, position>>
    BY <1>13 DEF Exit, TypeOK, benchVars
  <2>2. position[t] \in beg_i(t) .. end_i(t) /\ DOMAIN call[t].seen = {}
    BY <1>2, <2>1 DEF Works
  <2>3. position[t] = end_i(t)
    BY <2>1, <2>2, Slice
  <2> QED
    BY <2>1, <2>2, <2>3 DEF Works
<1>14. ASSUME NEW t \in Threads, WriteLock(t) \/ Insert(t) \/ Assign(t) \/ WriteUnlock(t),
              UNCHANGED benchVars
       PROVE  Works(t)'
  <2>1. /\ pc[t] \in {"writeLock"} \cup Writing
        /\ pc'[t] \in {"done"} \cup Writing
        /\ \/ call'[t].keys = call[t].keys /\ call'[t].seen = call[t].seen
           \/ pc'[t] = "done" /\ call'[t] = NoCall
    BY <1>14 DEF WriteLock, Insert, Assign, WriteUnlock, TypeOK, Calls
  <2>2. DOMAIN call[t].seen = {} /\ DOMAIN NoCall.seen = {}
    BY <1>2, <2>1 DEF NoCall, Works
  <2>3. position' = position /\ ops' = ops
    BY <1>14 DEF benchVars
  <2> QED
    BY <1>2, <2>1, <2>2, <2>3 DEF Works
<1>15. ASSUME NEW t \in Threads, ReadLock(t) \/ Update(t) \/ Answer(t), UNCHANGED benchVars
       PROVE  Works(t)'
  <2>1. /\ call' = call /\ pc[t] \in Reading /\ pc'[t] \in {"visit", "answered"}
        /\ pc'[t] = "answered" => call[t].left = {}
    BY <1>15 DEF ReadLock, Update, Answer, TypeOK
  <2>2. position' = position /\ ops' = ops
    BY <1>15 DEF benchVars
  <2> QED
    BY <1>2, <2>1, <2>2 DEF Works
<1>16. ASSUME NEW t \in Threads, Visit(t), UNCHANGED benchVars
       PROVE  Works(t)'
  <2>1. pc[t] = "visit" /\ pc' = pc
    BY <1>16 DEF Visit
  <2>2. position' = position /\ ops' = ops
    BY <1>16 DEF benchVars
  <2>3. PICK k \in call[t].left :
           /\ call'[t].keys = call[t].keys
           /\ call'[t].left = call[t].left \ {k}
           /\ DOMAIN call'[t].seen = DOMAIN call[t].seen \cup {k}
    BY <1>16, VisitSees
  <2>4. /\ call[t].left \subseteq call[t].keys
        /\ DOMAIN call[t].seen = call[t].keys \ call[t].left
    BY <1>2, <2>1 DEF Works
  <2>5. DOMAIN call'[t].seen = call'[t].keys \ call'[t].left
    BY <2>3, <2>4
  <2> QED
    BY <1>2, <2>1, <2>2, <2>3, <2>4, <2>5 DEF Works
<1>17. CASE UNCHANGED vars
    BY <1>3, <1>17 DEF vars, mapVars, benchVars
<1> QED
    BY <1>5, <1>6, <1>7, <1>8, <1>9, <1>10, <1>11, <1>12, <1>13, <1>14, <1>15, <1>16, <1>17
    DEF Next, Main, Thread, MapStep

-----------------------------------------------------------------------------
(* The stores *)

LEMMA ListStays ==
    ASSUME TypeOK, main # "generate", [Next]_vars
    PROVE  /\ main' # "generate" /\ ops' = ops /\ init_keys' = init_keys
           /\ main \in {"latch", "create", "reported"} => main' \in {"latch", "create", "reported"}
           /\ Initial' = Initial /\ Final' = Final
           /\ \A op : Positions(ops, op)' = Positions(ops, op)
<1>1. ASSUME NEW t \in Threads, Thread(t)
      PROVE  main' = main /\ ops' = ops /\ init_keys' = init_keys
    BY <1>1, Own
<1>2. /\ main' # "generate" /\ ops' = ops /\ init_keys' = init_keys
      /\ main \in {"latch", "create", "reported"} => main' \in {"latch", "create", "reported"}
    BY <1>1 DEF Next, Main, gen_input_data, Fill, SetLatch, Create, Join, Report, vars, benchVars
<1> QED
    BY <1>2 DEF Initial, Final, Positions

\* Which stores have taken effect changes only with the thread that moves.
LEMMA StoresKept ==
    ASSUME TypeOK, main # "generate", ops' = ops, NEW t \in Threads,
           \A i \in Positions(ops, "write") : TookEffect(t, i)' <=> TookEffect(t, i),
           \A u \in Threads \ {t} : pc'[u] = pc[u] /\ position'[u] = position[u]
    PROVE  Stores' = Stores
BY DEF Stores, Positions, TookEffect

LEMMA NotYet ==
    ASSUME TypeOK, TypeOK', NEW t \in Threads, NEW i \in 1 .. op_num
    PROVE  /\ pc[t] \in Starting /\ position[t] = 0 => ~ TookEffect(t, i)
           /\ pc'[t] = "idle" /\ position'[t] = beg_i(t) => ~ TookEffect(t, i)'
BY Slice DEF TookEffect, Starting

LEMMA StoredStays ==
    ASSUME TypeOK, TypeOK', Phases, Latched, Locked, HalfDone, Working, Stored, [Next]_vars
    PROVE  Stored'
<1>1. ASSUME main \in {"latch", "create", "reported"}, main' \in {"latch", "create", "reported"},
             Written(impl)' = Written(impl), Stores' = Stores
      PROVE  Stored'
    BY <1>1, ListStays DEF Stored
<1>2. ASSUME main \in {"latch", "create", "reported"}, UNCHANGED <<impl, pc, position>>
      PROVE  Stored'
  <2>1. ops' = ops /\ main' \in {"latch", "create", "reported"}
    BY <1>2, ListStays
  <2> QED
    BY <1>1, <1>2, <2>1 DEF Written, Stores, TookEffect
<1>3. CASE gen_input_data
    BY <1>3 DEF gen_input_data, Stored
<1>4. CASE Fill
  <2>1. \A t \in Threads : pc[t] = "new" /\ position[t] = 0
    BY <1>4, BeforeCreate DEF Fill, Phases, Starting
  <2>2. pc' = pc /\ position' = position /\ main # "generate"
    BY <1>4 DEF Fill
  <2>3. Stores' = {}
    BY <2>1, <2>2, NotYet, KindsListed, ListStays DEF Stores, TookEffect, Starting
  <2>4. Initial \subseteq Keys /\ Initial' = Initial
    BY <2>2, Listed, ListStays
  <2>5. Written(impl)' = Initial
    BY <1>4, <2>4 DEF Fill, Written, Initial
  <2> QED
    BY <2>3, <2>4, <2>5 DEF Stored
<1>5. CASE SetLatch \/ Join \/ Report
    BY <1>2, <1>5 DEF SetLatch, Join, Report, mapVars
<1>6. CASE Create
  <2>1. PICK t \in Threads : t = created /\ pc[t] = "new"
    BY <1>6, Params DEF Create, TypeOK, Phases
  <2>2. pc' = [pc EXCEPT ![t] = "start"] /\ UNCHANGED <<impl, position, ops, main>>
    BY <1>6, <2>1 DEF Create
  <2>3. main = "create"
    BY <1>6 DEF Create
  <2>4. Stores' = Stores
    BY <2>1, <2>2, <2>3, StoresKept DEF TookEffect, TypeOK
  <2> QED
    BY <1>1, <2>2, <2>3, <2>4 DEF Written
<1>7. ASSUME NEW t \in Threads, Thread(t)
      PROVE  /\ main \in {"create", "reported"} /\ main' = main /\ ops' = ops
             /\ \A u \in Threads \ {t} : pc'[u] = pc[u] /\ position'[u] = position[u]
  <2>1. pc[t] # "new" /\ main' = main /\ ops' = ops
        /\ \A u \in Threads \ {t} : pc'[u] = pc[u] /\ position'[u] = position[u]
    BY <1>7, Own
  <2> QED
    BY <2>1, LatchSet
<1>8. ASSUME NEW t \in Threads, Thread(t), Written(impl)' = Written(impl),
             \A i \in Positions(ops, "write") : TookEffect(t, i)' <=> TookEffect(t, i)
      PROVE  Stored'
    BY <1>1, <1>7, <1>8, StoresKept
<1>9. ASSUME NEW t \in Threads, Assign(t), UNCHANGED benchVars
      PROVE  Stored'
  <2> DEFINE i == position[t] + 1
  <2>1. Thread(t) /\ pc[t] = "assign" /\ pc'[t] = "writeUnlock" /\ position' = position
    BY <1>9 DEF Thread, MapStep, Assign, TypeOK, benchVars
  <2>2. main \in {"create", "reported"} /\ main' = main /\ ops' = ops
    BY <1>7, <2>1
  <2>3. ops[i].op = "write" /\ call[t].keys = {ops[i].key} /\ i \in beg_i(t) + 1 .. end_i(t)
        /\ i \in 1 .. op_num
    BY <2>1, InSlice DEF Working, Works, Writing, Starting
  <2>4. i \in Positions(ops, "write") /\ ops[i].key \in Keys
    BY <2>2, <2>3, Listed DEF Positions
  <2>5. Stores' = Stores \cup {i}
    <3>1. \A j \in Positions(ops, "write") :
              TookEffect(t, j)' <=> TookEffect(t, j) \/ j = i
        BY <2>1, <2>3, Slice, KindsListed DEF TookEffect
    <3>2. \A u \in Threads \ {t} : pc'[u] = pc[u] /\ position'[u] = position[u]
        BY <1>7, <2>1
    <3>3. \A u \in Threads \ {t} : \A j : TookEffect(u, j)' <=> TookEffect(u, j)
        BY <3>2 DEF TookEffect
    <3> QED
        BY <2>2, <2>4, <3>1, <3>3 DEF Stores, Positions
  <2>6. Written(impl)' = Written(impl) \cup {ops[i].key}
    <3>1. \A k \in Keys : impl'[k] = IF k = ops[i].key THEN "written"
                 ELSE IF map_type = "persistent" THEN call[t].from[k] ELSE impl[k]
        BY <1>9, <2>3 DEF Assign
    <3>2. map_type = "persistent" => call[t].from = impl
        BY <2>1 DEF HalfDone
    <3> QED
        BY <2>4, <3>1, <3>2 DEF Written
  <2> QED
    BY <2>2, <2>5, <2>6, ListStays DEF Stored
<1>10. ASSUME NEW t \in Threads, Thread(t), UNCHANGED <<impl, position>>,
              \/ pc[t] \in {"writeUnlock", "done"} /\ pc'[t] \in {"writeUnlock", "done"}
              \/ pc[t] \notin {"writeUnlock", "done"} /\ pc'[t] \notin {"writeUnlock", "done"}
       PROVE  Stored'
    BY <1>8, <1>10 DEF Written, TookEffect
<1>11. ASSUME NEW t \in Threads, Arrive(t) \/ Begin(t) \/ Exit(t)
       PROVE  Stored'
  <2>1. Thread(t) /\ UNCHANGED <<impl, position>>
        /\ pc[t] \notin {"writeUnlock", "done"} /\ pc'[t] \notin {"writeUnlock", "done"}
    BY <1>11 DEF Arrive, Begin, CallStore, CallRead, Exit, TypeOK, Thread, benchVars
  <2> QED
    BY <1>10, <2>1
<1>12. ASSUME NEW t \in Threads, UNCHANGED benchVars,
              WriteLock(t) \/ WriteUnlock(t) \/ ReadLock(t) \/ Update(t) \/ Visit(t) \/ Answer(t)
       PROVE  Stored'
  <2>1. /\ Thread(t) /\ UNCHANGED <<impl, position>>
        /\ \/ pc[t] \in {"writeUnlock", "done"} /\ pc'[t] \in {"writeUnlock", "done"}
           \/ pc[t] \notin {"writeUnlock", "done"} /\ pc'[t] \notin {"writeUnlock", "done"}
    BY <1>12 DEF WriteLock, WriteUnlock, ReadLock, Update, Visit, Answer, TypeOK, Thread, MapStep,
       benchVars
  <2> QED
    BY <1>10, <2>1
<1>13. ASSUME NEW t \in Threads, Insert(t), UNCHANGED benchVars
       PROVE  Stored'
  <2>1. Thread(t) /\ pc[t] = "insert" /\ pc'[t] = "assign" /\ position' = position
    BY <1>13 DEF Insert, TypeOK, Thread, MapStep, benchVars
  <2>2. Written(impl)' = Written(impl)
    BY <1>13 DEF Insert, Written
  <2> QED
    BY <1>8, <2>1, <2>2 DEF TookEffect
<1>14. ASSUME NEW t \in Threads, Pass(t)
       PROVE  Stored'
  <2>1. Thread(t) /\ pc[t] = "spin" /\ pc'[t] = "idle" /\ position'[t] = beg_i(t) /\ impl' = impl
    BY <1>14 DEF Pass, TypeOK, Thread
  <2>2. position[t] = 0
    BY <2>1 DEF Phases, Starting
  <2>3. main # "generate"
    BY <2>1, <1>7
  <2> QED
    BY <1>8, <2>1, <2>2, <2>3, NotYet, KindsListed DEF Starting, Written
<1>15. ASSUME NEW t \in Threads, Finish(t)
       PROVE  Stored'
  <2>1. Thread(t) /\ pc[t] \in {"done", "answered"} /\ pc'[t] = "idle"
        /\ position'[t] = position[t] + 1 /\ impl' = impl
    BY <1>15 DEF Finish, Return, TypeOK, Thread
  <2>2. position[t] \in Nat /\ position[t] + 1 \in beg_i(t) + 1 .. end_i(t)
    BY <2>1, InSlice DEF Starting
  <2>3. pc[t] = "answered" => position[t] + 1 \notin Positions(ops, "write")
    BY DEF Working, Works, Positions
  <2>4. main # "generate"
    BY <2>1, <1>7
  <2>5. \A i \in Positions(ops, "write") : i \in Nat
    BY <2>4, KindsListed
  <2>6. \A i \in Positions(ops, "write") : TookEffect(t, i)' <=> TookEffect(t, i)
    BY <2>1, <2>2, <2>3, <2>5, Slice DEF TookEffect
  <2> QED
    BY <1>8, <2>1, <2>6 DEF Written
<1>16. CASE UNCHANGED vars
    BY <1>16 DEF vars, mapVars, benchVars, Stored, Written, Initial, Stores, TookEffect
<1> QED
    BY <1>3, <1>4, <1>5, <1>6, <1>9, <1>11, <1>12, <1>13, <1>14, <1>15, <1>16
    DEF Next, Main, Thread, MapStep

-----------------------------------------------------------------------------
(* What a reading can find *)

LEMMA MapBetween ==
    ASSUME TypeOK, Stored, main \in {"latch", "create", "reported"}
    PROVE  Between(impl, Keys)
<1>1. Written(impl) = Initial \cup {ops[i].key : i \in Stores}
    BY DEF Stored
<1>2. {ops[i].key : i \in Stores} \subseteq {ops[i].key : i \in Positions(ops, "write")}
    BY DEF Stores
<1> QED
    BY <1>1, <1>2 DEF Between, Written, Final

LEMMA SeenStays ==
    ASSUME TypeOK, TypeOK', Phases, Latched, Locked, Working, Stored, Seen, [Next]_vars
    PROVE  Seen'
<1> DEFINE Sees(t) ==
        pc[t] \notin Starting =>
            /\ map_type = "persistent" => Between(view[t], Keys)
            /\ pc[t] \in {"answered", "visit"} => Between(call[t].seen, DOMAIN call[t].seen)
<1>1. Seen' <=> \A t \in Threads : Sees(t)'
    BY DEF Seen
<1>2. \A t \in Threads : Sees(t)
    BY DEF Seen
<1>3. CASE main \in {"generate", "fill", "latch"}
  <2>1. \A t \in Threads : pc[t] = "new"
    BY <1>3, BeforeCreate
  <2>2. pc' = pc
    <3>1. ASSUME NEW t \in Threads, Thread(t)
          PROVE  FALSE
        BY <2>1, <3>1, Own
    <3> QED
        BY <1>3, <3>1 DEF Next, Main, gen_input_data, Fill, SetLatch, Create, Join, Report,
           mapVars, vars
  <2> QED
    BY <2>1, <2>2 DEF Seen, Starting
<1>5. ASSUME main \in {"create", "reported"}, map_type' = map_type,
             NEW t \in Threads, Sees(t)',
             \A u \in Threads \ {t} : pc'[u] = pc[u] /\ call'[u] = call[u] /\ view'[u] = view[u]
      PROVE  Seen'
  <2>1. Initial' = Initial /\ Final' = Final
    BY <1>5, ListStays
  <2> QED
    BY <1>1, <1>2, <1>5, <2>1 DEF Between
<1>6. ASSUME main \in {"create", "reported"}, UNCHANGED <<map_type, pc, call, view>>
      PROVE  Seen'
  <2>1. Initial' = Initial /\ Final' = Final
    BY <1>6, ListStays
  <2> QED
    BY <1>6, <2>1 DEF Seen, Between
<1>7. CASE Create
  <2>1. PICK t \in Threads : t = created
    BY <1>7, Params DEF Create, TypeOK, Phases
  <2>2. pc' = [pc EXCEPT ![t] = "start"] /\ UNCHANGED <<map_type, call, view>> /\ main = "create"
    BY <1>7, <2>1 DEF Create
  <2>3. Sees(t)'
    BY <2>2 DEF TypeOK, Starting
  <2> QED
    BY <1>5, <2>2, <2>3 DEF TypeOK
<1>8. CASE Join \/ Report
    BY <1>6, <1>8 DEF Join, Report, mapVars
<1>9. ASSUME NEW t \in Threads, Thread(t)
      PROVE  Seen'
  <2>1. main \in {"create", "reported"} /\ Between(impl, Keys)
    BY <1>9, Own, LatchSet, MapBetween
  <2>2. /\ Initial' = Initial /\ Final' = Final /\ map_type' = map_type
        /\ \A u \in Threads \ {t} : pc'[u] = pc[u] /\ call'[u] = call[u] /\ view'[u] = view[u]
    BY <1>9, <2>1, Own, ListStays
  <2>3. SUFFICES Sees(t)'
    BY <1>5, <2>1, <2>2
  <2>4. CASE Visit(t)
    <3>1. PICK k \in call[t].left :
            /\ DOMAIN call'[t].seen = DOMAIN call[t].seen \cup {k}
            /\ \A j \in DOMAIN call'[t].seen : call'[t].seen[j] =
                  IF j # k THEN call[t].seen[j]
                  ELSE IF map_type = "persistent" THEN view[t][k] ELSE impl[k]
        BY <2>4, VisitSees
    <3>2. pc' = pc /\ view' = view /\ pc[t] = "visit" /\ k \in Keys
        BY <2>4, Fields DEF Visit
    <3>3. /\ Between(call[t].seen, DOMAIN call[t].seen)
          /\ map_type = "persistent" => Between(view[t], Keys)
        BY <1>2, <3>2 DEF Starting
    <3>4. \A j \in DOMAIN call'[t].seen :
              /\ j \in Initial => call'[t].seen[j] = "written"
              /\ call'[t].seen[j] = "written" => j \in Final
        BY <2>1, <3>1, <3>2, <3>3 DEF Between
    <3> QED
        BY <2>2, <3>2, <3>3, <3>4 DEF Between
  <2>5. CASE Pass(t) \/ Update(t)
    <3>1. /\ pc'[t] \in {"idle", "visit"} /\ call' = call
          /\ map_type = "persistent" => view'[t] = impl
        BY <2>5 DEF Pass, CreateView, Update, TypeOK
    <3>2. pc'[t] = "visit" => DOMAIN call[t].seen = {}
        BY <2>5, <3>1 DEF Pass, Update, TypeOK, Working, Works, Reading
    <3> QED
        BY <2>1, <2>2, <3>1, <3>2 DEF Between
  <2>6. CASE ReadLock(t)
    <3>1. pc[t] = "readLock" /\ pc'[t] = "visit" /\ call' = call /\ view' = view
        BY <2>6 DEF ReadLock, TypeOK
    <3>2. DOMAIN call[t].seen = {}
        BY <3>1 DEF Working, Works, Reading
    <3>3. map_type = "persistent" => Between(view[t], Keys)
        BY <1>2, <3>1 DEF Starting
    <3> QED
        BY <2>2, <3>1, <3>2, <3>3 DEF Between
  <2>7. CASE Answer(t)
    <3>1. pc[t] = "visit" /\ call' = call /\ view' = view
        BY <2>7 DEF Answer
    <3>2. /\ Between(call[t].seen, DOMAIN call[t].seen)
          /\ map_type = "persistent" => Between(view[t], Keys)
        BY <1>2, <3>1 DEF Starting
    <3> QED
        BY <2>2, <3>1, <3>2 DEF Between
  <2>8. ASSUME ~ Visit(t), ~ Pass(t), ~ Update(t), ~ ReadLock(t), ~ Answer(t), ~ Arrive(t)
        PROVE  Sees(t)'
    <3>1. pc[t] \notin Starting /\ pc'[t] \notin {"answered", "visit"} /\ view' = view
        BY <1>9, <2>8 DEF Thread, Begin, CallStore, CallRead, Finish, Return, Exit, MapStep,
           WriteLock, Insert, Assign, WriteUnlock, TypeOK, Starting
    <3>2. map_type = "persistent" => Between(view[t], Keys)
        BY <1>2, <3>1
    <3> QED
        BY <2>2, <3>1, <3>2 DEF Between
  <2>9. CASE Arrive(t)
    BY <2>9 DEF Arrive, TypeOK, Starting
  <2> QED
    BY <2>4, <2>5, <2>6, <2>7, <2>8, <2>9
<1>10. CASE UNCHANGED vars
  <2>1. ASSUME main \in {"create", "reported"} PROVE Seen'
    BY <1>6, <1>10, <2>1 DEF vars, mapVars
  <2> QED
    BY <1>3, <2>1 DEF TypeOK
<1> QED
    BY <1>3, <1>7, <1>8, <1>9, <1>10 DEF Next, Main, gen_input_data, Fill, SetLatch

-----------------------------------------------------------------------------
(* The results *)

LEMMA OneOf ==
    ASSUME NEW S, NEW i
    PROVE  /\ i \in S => Cardinality(S \cap {i}) = 1
           /\ i \notin S => Cardinality(S \cap {i}) = 0
<1>1. i \in S => S \cap {i} = {i}
    OBVIOUS
<1>2. i \notin S => S \cap {i} = {}
    OBVIOUS
<1>3. Cardinality({i}) = 1 /\ Cardinality({}) = 0
    BY FS_Singleton, FS_EmptySet
<1>4. CASE i \in S
  <2>1. Cardinality(S \cap {i}) = Cardinality({i})
    BY <1>1, <1>4, Zenon
  <2> QED
    BY <1>3, <1>4, <2>1
<1>5. CASE i \notin S
  <2>1. Cardinality(S \cap {i}) = Cardinality({})
    BY <1>2, <1>5, Zenon
  <2> QED
    BY <1>3, <1>5, <2>1
<1> QED
    BY <1>4, <1>5

LEMMA RightIf ==
    ASSUME NEW result, NEW part, NEW certain, NEW reads, NEW sums,
           certain = Cardinality(Certain \cap part),
           reads = Cardinality(Positions(ops, "read") \cap part),
           sums = Cardinality(Positions(ops, "sum") \cap part),
           result.found_count \in certain .. reads,
           result.sum_acc \in sums * Cardinality(Initial) .. sums * Cardinality(Final)
    PROVE  Right(result, part)
BY RightIs

\* The result of one operation is right for its position.
LEMMA FoundRight ==
    ASSUME TypeOK, Working, Seen, main # "generate", NEW t \in Threads,
           pc[t] \in {"done", "answered"}
    PROVE  Right(Found(t), {position[t] + 1})
<1> DEFINE i == position[t] + 1
           seen == call[t].seen
<1>1. i \in 1 .. op_num /\ i \in DOMAIN ops
    BY InSlice, Listed DEF Starting
<1>2. \A op : i \in Positions(ops, op) <=> ops[i].op = op
    BY <1>1 DEF Positions
<1>3. i \in Certain <=> ops[i].op = "read" /\ ops[i].key \in Initial
    BY <1>2 DEF Certain
<1>4. /\ Cardinality(Initial) \in Nat /\ Cardinality(Final) \in Nat
    BY Sizes
<1>8. 0 \in 0 * Cardinality(Initial) .. 0 * Cardinality(Final)
    BY <1>4
<1>5. CASE ops[i].op = "write"
  <2>1. Found(t).found_count = 0 /\ Found(t).sum_acc = 0
    BY <1>5 DEF Found
  <2>2. /\ Cardinality(Certain \cap {i}) = 0 /\ Cardinality(Positions(ops, "read") \cap {i}) = 0
        /\ Cardinality(Positions(ops, "sum") \cap {i}) = 0
    BY <1>2, <1>3, <1>5, OneOf
  <2>3. /\ Found(t).found_count \in 0 .. 0
        /\ Found(t).sum_acc \in 0 * Cardinality(Initial) .. 0 * Cardinality(Final)
    BY <1>8, <2>1
  <2> QED
    BY <2>2, <2>3, RightIf
<1>6. CASE pc[t] = "answered"
  <2>1. /\ \/ ops[i].op = "read" /\ DOMAIN seen = {ops[i].key}
           \/ ops[i].op = "sum" /\ DOMAIN seen = Keys
        /\ Between(seen, DOMAIN seen)
    BY <1>6 DEF Working, Works, Seen, Starting
  <2>2. CASE ops[i].op = "read"
    <3>1. /\ Cardinality(Positions(ops, "read") \cap {i}) = 1
          /\ Cardinality(Positions(ops, "sum") \cap {i}) = 0
        BY <1>2, <2>2, OneOf
    <3>2. i \in Certain => Cardinality(Certain \cap {i}) = 1 /\ Member(seen)
        BY <1>3, <2>1, <2>2, OneOf DEF Between, Member
    <3>3. i \notin Certain => Cardinality(Certain \cap {i}) = 0
        BY OneOf
    <3>4. /\ Found(t).found_count = IF Member(seen) THEN 1 ELSE 0
          /\ Found(t).sum_acc = 0
        BY <2>2 DEF Found
    <3>5. Found(t).found_count \in Cardinality(Certain \cap {i}) .. 1
        BY <3>2, <3>3, <3>4
    <3> QED
        BY <1>8, <3>1, <3>4, <3>5, RightIf
  <2>3. CASE ops[i].op = "sum"
    <3> DEFINE K == {k \in DOMAIN seen : seen[k] = "written"}
    <3>1. /\ Cardinality(Positions(ops, "read") \cap {i}) = 0
          /\ Cardinality(Positions(ops, "sum") \cap {i}) = 1
          /\ Cardinality(Certain \cap {i}) = 0
        BY <1>2, <1>3, <2>3, OneOf
    <3>2. Initial \subseteq K /\ K \subseteq Final
        BY <2>1, <2>3, Listed DEF Between
    <3>3. IsFiniteSet(Final) /\ IsFiniteSet(K)
        BY <3>2, Sizes, FS_Subset
    <3>4. /\ Cardinality(Initial) <= Cardinality(K) /\ Cardinality(K) <= Cardinality(Final)
          /\ Cardinality(K) \in Nat
        BY <3>2, <3>3, FS_Subset, FS_CardinalityType
    <3>5. Found(t).found_count = 0 /\ Found(t).sum_acc = Cardinality(K)
        BY <2>3 DEF Found, TotalValueLength
    <3> HIDE DEF K
    <3>6. 1 * Cardinality(Initial) = Cardinality(Initial) /\ 1 * Cardinality(Final) = Cardinality(Final)
        BY <1>4
    <3>7. Found(t).sum_acc \in 1 * Cardinality(Initial) .. 1 * Cardinality(Final)
        BY <1>4, <3>4, <3>5, <3>6
    <3>8. Found(t).found_count \in 0 .. 0
        BY <3>5
    <3> QED
        BY <3>1, <3>7, <3>8, RightIf
  <2> QED
    BY <2>1, <2>2, <2>3
<1>7. pc[t] = "done" => ops[i].op = "write"
    BY DEF Working, Works
<1> QED
    BY <1>5, <1>6, <1>7

LEMMA RightKept ==
    ASSUME TypeOK, main # "generate", [Next]_vars, NEW r, NEW part, Right(r, part)
    PROVE  Right(r, part)'
<1>1. /\ Positions(ops, "read")' = Positions(ops, "read")
      /\ Positions(ops, "sum")' = Positions(ops, "sum")
      /\ Initial' = Initial /\ Final' = Final /\ ops' = ops
    BY ListStays
<1> QED
    BY <1>1 DEF Right

LEMMA ScoredStays ==
    ASSUME TypeOK, TypeOK', Phases, Phases', Latched, Working, Seen, Scored, [Next]_vars,
           main # "generate"
    PROVE  Scored'
<1>1. \A t \in Threads : Right(rlt[t], beg_i(t) + 1 .. position[t])
    BY DEF Scored
<1>2. Right(total, 1 .. beg_i(joined))
    BY DEF Scored
<1>3. ASSUME UNCHANGED <<rlt, position>>
      PROVE  \A t \in Threads : Right(rlt[t], beg_i(t) + 1 .. position[t])'
    BY <1>1, <1>3, RightKept
<1>4. ASSUME UNCHANGED <<total, joined>>
      PROVE  Right(total, 1 .. beg_i(joined))'
  <2>1. beg_i(joined)' = beg_i(joined)
    BY <1>4
  <2> QED
    BY <1>2, <1>4, <2>1, RightKept
<1>5. CASE Fill \/ SetLatch \/ Create \/ Report
  <2>1. UNCHANGED <<rlt, position, total, joined>>
    BY <1>5 DEF Fill, SetLatch, Create, Report
  <2> QED
    BY <1>3, <1>4, <2>1 DEF Scored
<1>6. CASE Join
  <2>1. PICK t \in Threads : t = joined /\ pc[t] = "exited"
    BY <1>6, Params DEF Join, TypeOK
  <2>2. total' = Add(total, rlt[t]) /\ joined' = t + 1 /\ UNCHANGED <<rlt, position>>
    BY <1>6, <2>1 DEF Join
  <2>3. position[t] = end_i(t)
    BY <2>1 DEF Working, Works
  <2>4. /\ (1 .. beg_i(t)) \cap (beg_i(t) + 1 .. end_i(t)) = {}
        /\ (1 .. beg_i(t)) \cup (beg_i(t) + 1 .. end_i(t)) = 1 .. beg_i(t + 1)
    BY Slice
  <2>5. Right(total, 1 .. beg_i(t)) /\ Right(rlt[t], beg_i(t) + 1 .. end_i(t))
        /\ total \in Results /\ rlt[t] \in Results
    BY <1>1, <1>2, <2>1, <2>3 DEF TypeOK
  <2>6. Right(Add(total, rlt[t]), 1 .. beg_i(t + 1))
    <3>1. Right(Add(total, rlt[t]), (1 .. beg_i(t)) \cup (beg_i(t) + 1 .. end_i(t)))
        BY <2>4, <2>5, RightAdds
    <3> QED
        BY <2>4, <3>1, Zenon
  <2>7. Right(total, 1 .. beg_i(joined))'
    BY <2>2, <2>6, RightKept
  <2> QED
    BY <1>3, <2>2, <2>7 DEF Scored
<1>7. ASSUME NEW t \in Threads, Thread(t), Right(rlt[t], beg_i(t) + 1 .. position[t])'
      PROVE  Scored'
  <2>1. /\ UNCHANGED <<joined, total>>
        /\ \A u \in Threads \ {t} : position'[u] = position[u] /\ rlt'[u] = rlt[u]
    BY <1>7, Own
  <2>2. \A u \in Threads \ {t} : Right(rlt[u], beg_i(u) + 1 .. position[u])'
    BY <1>1, <2>1, RightKept
  <2> QED
    BY <1>4, <1>7, <2>1, <2>2 DEF Scored
<1>8. ASSUME NEW t \in Threads, Pass(t)
      PROVE  Right(rlt[t], beg_i(t) + 1 .. position[t])'
  <2>1. rlt'[t] = NoResult /\ position'[t] = beg_i(t)
    BY <1>8 DEF Pass, TypeOK, Phases, Starting
  <2>2. beg_i(t) + 1 .. beg_i(t) = {}
    BY Slice
  <2>3. Right(NoResult, {})
    BY RightEmpty
  <2> QED
    BY <2>1, <2>2, <2>3, RightKept
<1>9. ASSUME NEW t \in Threads, Finish(t)
      PROVE  Right(rlt[t], beg_i(t) + 1 .. position[t])'
  <2>1. rlt'[t] = Add(rlt[t], Found(t)) /\ position'[t] = position[t] + 1
        /\ pc[t] \in {"done", "answered"}
    BY <1>9 DEF Finish, Found, TypeOK
  <2>2. position[t] + 1 \in beg_i(t) + 1 .. end_i(t) /\ position[t] \in Nat /\ beg_i(t) \in Nat
    BY <2>1, InSlice, Slice DEF Starting
  <2>3. /\ (beg_i(t) + 1 .. position[t]) \cap {position[t] + 1} = {}
        /\ (beg_i(t) + 1 .. position[t]) \cup {position[t] + 1} =
               beg_i(t) + 1 .. position[t] + 1
    BY <2>2
  <2>4. Right(rlt[t], beg_i(t) + 1 .. position[t]) /\ Right(Found(t), {position[t] + 1})
        /\ rlt[t] \in Results /\ Found(t) \in Results
    BY <1>1, <2>1, FoundRight, FoundType DEF TypeOK
  <2>5. Right(Add(rlt[t], Found(t)), beg_i(t) + 1 .. position[t] + 1)
    <3>1. Right(Add(rlt[t], Found(t)), (beg_i(t) + 1 .. position[t]) \cup {position[t] + 1})
        BY <2>3, <2>4, RightAdds
    <3> QED
        BY <2>3, <3>1, Zenon
  <2> QED
    BY <2>1, <2>5, RightKept
<1>10. ASSUME NEW t \in Threads, Thread(t), ~ Pass(t), ~ Finish(t)
       PROVE  UNCHANGED <<rlt, position, total, joined>>
    BY <1>10 DEF Thread, Arrive, Begin, Exit, benchVars
<1>11. CASE UNCHANGED vars
  <2>1. UNCHANGED <<rlt, position, total, joined>>
    BY <1>11 DEF vars, benchVars
  <2> QED
    BY <1>3, <1>4, <2>1 DEF Scored
<1>12. ASSUME NEW t \in Threads, Thread(t)
       PROVE  Scored'
  <2>1. CASE Pass(t) \/ Finish(t)
    BY <1>7, <1>8, <1>9, <1>12, <2>1
  <2>2. CASE ~ Pass(t) /\ ~ Finish(t)
    BY <1>3, <1>4, <1>10, <1>12, <2>2 DEF Scored
  <2> QED
    BY <2>1, <2>2
<1> QED
    BY <1>5, <1>6, <1>11, <1>12 DEF Next, Main, gen_input_data

LEMMA ScoredBegins ==
    ASSUME TypeOK, TypeOK', Phases, Latched, gen_input_data
    PROVE  Scored'
<1>1. /\ main = "generate" /\ main' = "fill"
      /\ UNCHANGED <<created, joined, position, rlt, total>>
    BY DEF gen_input_data
<1>2. joined = 0 /\ total = NoResult
    BY <1>1, Params DEF Phases, TypeOK
<1>3. \A t \in Threads : position[t] = 0 /\ rlt[t] = NoResult
    BY <1>1, BeforeCreate DEF Phases, Starting
<1>4. IsFiniteSet(Initial)' /\ IsFiniteSet(Final)'
  <2>1. /\ init_keys' \in [1 .. init_entry_num -> Keys]
        /\ ops' \in [1 .. op_num -> [op : {"write", "read"}, key : Keys]
                                       \cup [op : {"sum"}, key : {None}]]
    BY <1>1 DEF TypeOK, OpLists
  <2>2. Initial' \subseteq Keys
    BY <2>1, Params DEF Initial, ToSet
  <2>3. \A i \in Positions(ops, "write")' : ops'[i].key \in Keys
    BY <2>1, Params DEF Positions
  <2>4. Final' \subseteq Keys
    BY <2>2, <2>3 DEF Final
  <2> QED
    BY <2>2, <2>4, KeysAssumption, FS_Subset
<1>5. Cardinality(Initial)' \in Nat /\ Cardinality(Final)' \in Nat
    BY <1>4, FS_CardinalityType
<1>6. Right(NoResult, {})'
  <2>1. \A S : Cardinality(S \cap {}) = 0
    <3>1. \A S : S \cap {} = {}
        OBVIOUS
    <3> QED
        BY <3>1, FS_EmptySet, Zenon
  <2>2. 0 \in 0 .. 0 /\ 0 \in (0 * Cardinality(Initial)') .. (0 * Cardinality(Final)')
    BY <1>5
  <2>3. NoResult.found_count = 0 /\ NoResult.sum_acc = 0
    BY DEF NoResult
  <2> QED
    BY <2>1, <2>2, <2>3 DEF Right
<1>7. \A t \in Threads : beg_i(t) + 1 .. 0 = {}
    BY Slice
<1>8. 1 .. beg_i(0) = {}
    BY WholeList
<1>9. \A t \in Threads : rlt'[t] = NoResult /\ position'[t] = 0
    BY <1>1, <1>3
<1>10. total' = NoResult /\ joined' = 0
    BY <1>1, <1>2
<1> QED
    BY <1>6, <1>7, <1>8, <1>9, <1>10 DEF Scored

-----------------------------------------------------------------------------
(* The theorems *)

LEMMA InitInv == Init => Inv
<1> SUFFICES ASSUME Init
             PROVE  Inv
    OBVIOUS
<1> USE DEF Init
<1>1. TypeOK
  <2>1. EmptyMap \in Maps
    BY DEF EmptyMap, Maps
  <2>2. NoResult \in Results
    BY DEF NoResult, Results
  <2>3. Cardinality({}) = 0
    BY FS_EmptySet
  <2> QED
    BY <2>1, <2>2, <2>3, NoCallType, Params DEF TypeOK, Labels, Starting
<1>2. Phases
    BY Params DEF Phases, Starting
<1>3. Latched
    BY DEF Latched, StartsTogether
<1>4. Locked
    BY DEF Locked, Writing
<1>5. HalfDone
    BY DEF HalfDone, EmptyMap
<1>6. Windows
    BY DEF Windows, Reading
<1>7. Working
  <2>1. \A t \in Threads : DOMAIN call[t].seen = {}
    BY DEF NoCall
  <2> QED
    BY <2>1 DEF Working, Works, Starting, Writing, Reading
<1>8. Stored
    BY DEF Stored
<1>9. Seen
    BY DEF Seen, Starting
<1>10. Scored
    BY DEF Scored
<1> QED
    BY <1>1, <1>2, <1>3, <1>4, <1>5, <1>6, <1>7, <1>8, <1>9, <1>10 DEF Inv

LEMMA InvStays == Inv /\ [Next]_vars => Inv'
<1> SUFFICES ASSUME Inv, [Next]_vars
             PROVE  Inv'
    OBVIOUS
<1> USE DEF Inv
<1>1. TypeOK'
  <2>1. CASE Main
    BY <2>1, MainKeepsTypes
  <2>2. ASSUME NEW t \in Threads, Thread(t)
        PROVE  TypeOK'
    BY <2>2, ThreadKeepsTypes
  <2>3. CASE UNCHANGED vars
    BY <2>3 DEF TypeOK, vars, mapVars, benchVars
  <2> QED
    BY <2>1, <2>2, <2>3 DEF Next
<1>2. Phases'
    BY PhasesStay
<1>3. Latched'
    BY <1>1, LatchedStays
<1>4. Locked'
    BY <1>1, LockedStays
<1>5. HalfDone'
    BY <1>1, HalfDoneStays
<1>6. Windows'
    BY <1>1, WindowsStay
<1>7. Working'
    BY <1>1, WorkingStays
<1>8. Stored'
    BY <1>1, StoredStays
<1>9. Seen'
    BY <1>1, SeenStays
<1>10. Scored'
  <2>1. CASE main # "generate"
    BY <1>1, <1>2, <2>1, ScoredStays
  <2>2. CASE gen_input_data
    BY <1>1, <2>2, ScoredBegins
  <2>3. CASE main = "generate" /\ UNCHANGED main
    BY <2>3 DEF Scored
  <2>4. main = "generate" => gen_input_data \/ UNCHANGED main
    <3>1. main = "generate" /\ Main => gen_input_data
        BY DEF Main, Fill, SetLatch, Create, Join, Report
    <3>2. \A t \in Threads : Thread(t) => UNCHANGED main
        BY Own
    <3> QED
        BY <3>1, <3>2 DEF Next, vars, benchVars
  <2> QED
    BY <2>1, <2>2, <2>3, <2>4
<1> QED
    BY <1>1, <1>2, <1>3, <1>4, <1>5, <1>6, <1>7, <1>8, <1>9, <1>10

(***************************************************************************)
(* Every step of the benchmark, of the main thread or of one of its        *)
(* threads in the middle of a store or of a reading, keeps the invariant.  *)
(***************************************************************************)
THEOREM Safety == Spec => []Inv
<1> QED
    BY InitInv, InvStays, PTL DEF Spec

(***************************************************************************)
(* Types; with them: one holder of the mutex or of the write lock, and     *)
(* never beside a reader; a latch that does not fall below zero; no thread *)
(* beyond the list of operations.                                          *)
(***************************************************************************)
THEOREM TypeCorrect == Spec => []TypeOK
<1>1. Inv => TypeOK
    BY DEF Inv
<1> QED
    BY <1>1, Safety, PTL

(***************************************************************************)
(* A reading of any of the three maps, one key or the sum of all, is of    *)
(* one state that the map was in between the call and the return.          *)
(***************************************************************************)
THEOREM SeesOneState == Spec => []ReadsOneState
<1>1. Inv => ReadsOneState
  <2> SUFFICES ASSUME Inv, NEW t \in Threads, pc[t] = "visit"
               PROVE  \E map \in window[t] :
                          \A k \in DOMAIN call[t].seen : call[t].seen[k] = map[k]
    BY DEF ReadsOneState
  <2> USE DEF Inv
  <2>1. CASE map_type = "persistent"
    BY <2>1 DEF Windows
  <2>2. CASE map_type # "persistent"
    <3>1. Shown(impl) \in window[t] /\ \A k \in DOMAIN call[t].seen : call[t].seen[k] = impl[k]
        BY <2>2 DEF Windows, Reading
    <3>2. \A k \in Keys : impl[k] # "empty"
        BY <2>2, ReadersAlone DEF HalfDone, Writing
    <3>3. \A k \in DOMAIN call[t].seen : k \in Keys /\ Shown(impl)[k] = impl[k]
        BY <3>2, Fields DEF Shown
    <3> QED
        BY <3>1, <3>3
  <2> QED
    BY <2>1, <2>2
<1> QED
    BY <1>1, Safety, PTL

(***************************************************************************)
(* No operation is begun before the last thread is at the latch.           *)
(***************************************************************************)
THEOREM LatchHolds == Spec => []StartsTogether
<1>1. Inv => StartsTogether
    BY DEF Inv, Latched
<1> QED
    BY <1>1, Safety, PTL

(***************************************************************************)
(* What mt-bench reports is the work of the whole list: no operation falls *)
(* between two slices or is run twice, no store is lost.                   *)
(***************************************************************************)
THEOREM ReportCorrect == Spec => []ReportIsRight
<1>1. Inv => ReportIsRight
  <2> SUFFICES ASSUME Inv, main = "reported"
               PROVE  /\ Written(impl) = Final /\ Size(impl) = Cardinality(Final)
                      /\ Right(total, 1 .. op_num)
    BY DEF ReportIsRight
  <2> USE DEF Inv
  <2>1. joined = thread_num
    BY DEF Phases
  <2>2. \A t \in Threads : pc[t] = "exited" /\ position[t] = end_i(t)
    BY <2>1, Params DEF Phases, Working, Works
  <2>3. Stores = Positions(ops, "write")
    <3>1. ASSUME NEW i \in Positions(ops, "write")
          PROVE  i \in Stores
      <4>1. i \in 1 .. op_num
        BY KindsListed
      <4>2. PICK t \in Threads : beg_i(t) < i /\ i <= end_i(t)
        BY <4>1, SlicesCover
      <4> QED
        BY <2>2, <4>2 DEF Stores, TookEffect
    <3> QED
        BY <3>1 DEF Stores
  <2>4. Written(impl) = Final
    BY <2>3 DEF Stored, Final
  <2>5. Size(impl) = Cardinality(Final)
    BY <2>2, <2>4 DEF HalfDone, Size, Written, TypeOK, Maps
  <2>6. Right(total, 1 .. op_num)
    BY <2>1, WholeList DEF Scored
  <2> QED
    BY <2>4, <2>5, <2>6
<1> QED
    BY <1>1, Safety, PTL

=============================================================================
