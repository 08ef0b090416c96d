---------------------- MODULE ScenarioExperiments_proofs ----------------------
(***************************************************************************)
(* Proofs about the scenarios of ScenarioExperiments.                      *)
(***************************************************************************)
EXTENDS ScenarioExperiments, FiniteSetTheorems, WellFoundedInduction, NaturalsInduction, TLAPS

(* Sets and sequences *)

(* A nonempty set of numbers has a least one. *)
LEMMA LeastNumber ==
  ASSUME NEW S \in SUBSET Nat, S # {}
  PROVE  \E x \in S : \A y \in S : x <= y
<1> DEFINE R == OpToRel(<, Nat)
<1>1. IsWellFoundedOn(R, Nat)
  BY NatLessThanWellFounded, Zenon
<1>2. PICK x \in S : \A y \in S : <<y, x>> \notin R
  <2> HIDE DEF R
  <2> QED BY <1>1, WFMin
<1>3. ASSUME NEW y \in S PROVE x <= y
  <2>1. ~(y < x)
    BY <1>2 DEF OpToRel
  <2> QED BY <2>1
<1> QED BY <1>3

LEMMA MinIsLeast ==
  ASSUME NEW S \in SUBSET Nat, S # {}
  PROVE  Min(S) \in S /\ \A y \in S : Min(S) <= y
BY LeastNumber DEF Min

(* Induction up to n: what holds of 0 and passes from i - 1 to i. *)
LEMMA Induction ==
  ASSUME NEW n \in Nat, NEW P, 0 \in P, \A i \in 1..n : i - 1 \in P => i \in P
  PROVE  0..n \subseteq P
<1> SUFFICES ASSUME (0..n) \ P # {} PROVE FALSE
  OBVIOUS
<1>1. (0..n) \ P \in SUBSET Nat
  OBVIOUS
<1>2. PICK k \in (0..n) \ P : \A j \in (0..n) \ P : k <= j
  BY <1>1, LeastNumber
<1>3. k # 0
  BY <1>2
<1>4. k - 1 \in 0..n /\ ~(k <= k - 1)
  BY <1>3
<1> QED BY <1>2, <1>3, <1>4

(* A sequence by its elements. *)
LEMMA SequenceOf ==
  ASSUME NEW S, NEW n \in Nat, NEW s, s = [i \in 1..n |-> s[i]], \A i \in 1..n : s[i] \in S
  PROVE  s \in Seq(S) /\ DOMAIN s = 1..n /\ Len(s) = n
OBVIOUS

-----------------------------------------------------------------------------
(* shared.ts *)

(* The operations that are done in turn on a value, item after item. *)
Done(operation, value, item, argument) ==
  CASE operation = "sum" -> value + item
    [] operation = "upsert" -> upsertById(value, item)
    [] operation = "project" -> Projected(value, item)
    [] operation = "insert" -> Inserted(value, item)
    [] operation = "produce" -> Produced(value, item, argument)
    [] operation = "add" -> ConsumerAdded(value)
    [] operation = "process" -> Processed(value, item, item \in argument)

Values(operation, first, n, items, argument) ==
  CHOOSE f : f[0] = first /\ \A i \in 1..n : f[i] = Done(operation, f[i - 1], items[i], argument)
(* What is done in turn has a value after every item. *)
LEMMA DoneInTurn ==
  ASSUME NEW operation, NEW first, NEW n \in Nat, NEW items, NEW argument
  PROVE  LET f == Values(operation, first, n, items, argument)
         IN  f[0] = first /\ \A i \in 1..n : f[i] = Done(operation, f[i - 1], items[i], argument)
<1> DEFINE From(k, f) == f[0] = first /\ \A i \in 1..k : f[i] = Done(operation, f[i - 1], items[i], argument)
           reached == {k \in 0..n : \E f : From(k, f)}
<1>1. From(0, [i \in 0..0 |-> first])
  OBVIOUS
<1>2. ASSUME NEW k \in 1..n, k - 1 \in reached PROVE k \in reached
  <2>1. PICK f : From(k - 1, f)
    BY <1>2
  <2> DEFINE g == [i \in 0..k |-> IF i < k THEN f[i] ELSE Done(operation, f[k - 1], items[k], argument)]
  <2>2. From(k, g)
    BY <2>1
  <2> HIDE DEF g, From
  <2> QED BY <2>2
<1>3. 0 \in reached
  <2> HIDE DEF From
  <2> QED BY <1>1
<1>4. 0..n \subseteq reached
  <2> HIDE DEF reached
  <2> QED BY <1>2, <1>3, Induction
<1>5. PICK f : From(n, f)
  BY <1>4
<1> QED BY <1>5 DEF Values

(* The sums of the first numbers. *)
LEMMA TotalInTurn ==
  ASSUME NEW n \in Nat, NEW s, Len(s) = n
  PROVE  \E f : f[0] = 0 /\ (\A i \in 1..n : f[i] = f[i - 1] + s[i]) /\ Total(s) = f[n]
<1> DEFINE IsAfter(f) == f = [i \in 0..n |-> IF i = 0 THEN 0 ELSE f[i - 1] + s[i]]
           after == CHOOSE f : IsAfter(f)
           f == Values("sum", 0, n, s, Null)
<1>1. f[0] = 0 /\ \A i \in 1..n : f[i] = Done("sum", f[i - 1], s[i], Null)
  BY DoneInTurn
<1> HIDE DEF f
<1>2. IsAfter([i \in 0..n |-> f[i]])
  BY <1>1 DEF Done
<1>3. IsAfter(after)
  <2> HIDE DEF IsAfter
  <2> QED BY <1>2
<1>4. Total(s) = after[n]
  BY DEF Total, InTurn
<1> HIDE DEF after
<1>5. after[0] = 0 /\ \A i \in 1..n : after[i] = after[i - 1] + s[i]
  BY <1>3
<1> QED BY <1>4, <1>5

(* The items after each addition. *)
LEMMA UpsertInTurn ==
  ASSUME NEW n \in Nat, NEW items, NEW s, Len(s) = n
  PROVE  \E f : f[0] = items /\ (\A i \in 1..n : f[i] = upsertById(f[i - 1], s[i])) /\ upsertAll(items, s) = f[n]
<1> DEFINE IsAfter(f) == f = [i \in 0..n |-> IF i = 0 THEN items ELSE upsertById(f[i - 1], s[i])]
           after == CHOOSE f : IsAfter(f)
           f == Values("upsert", items, n, s, Null)
<1>1. f[0] = items /\ \A i \in 1..n : f[i] = Done("upsert", f[i - 1], s[i], Null)
  BY DoneInTurn
<1> HIDE DEF f
<1>2. IsAfter([i \in 0..n |-> f[i]])
  BY <1>1 DEF Done
<1>3. IsAfter(after)
  <2> HIDE DEF IsAfter
  <2> QED BY <1>2
<1>4. upsertAll(items, s) = after[n]
  BY DEF upsertAll, InTurn
<1> HIDE DEF after
<1>5. after[0] = items /\ \A i \in 1..n : after[i] = upsertById(after[i - 1], s[i])
  BY <1>3
<1> QED BY <1>4, <1>5

(* The projection after each event. *)
LEMMA ProjectInTurn ==
  ASSUME NEW n \in Nat, NEW s, Len(s) = n
  PROVE  \E f : f[0] = <<>> /\ (\A i \in 1..n : f[i] = Projected(f[i - 1], s[i])) /\ projectReplayLog(s) = f[n]
<1> DEFINE IsAfter(f) == f = [i \in 0..n |-> IF i = 0 THEN <<>> ELSE Projected(f[i - 1], s[i])]
           after == CHOOSE f : IsAfter(f)
           f == Values("project", <<>>, n, s, Null)
<1>1. f[0] = <<>> /\ \A i \in 1..n : f[i] = Done("project", f[i - 1], s[i], Null)
  BY DoneInTurn
<1> HIDE DEF f
<1>2. IsAfter([i \in 0..n |-> f[i]])
  BY <1>1 DEF Done
<1>3. IsAfter(after)
  <2> HIDE DEF IsAfter
  <2> QED BY <1>2
<1>4. projectReplayLog(s) = after[n]
  BY DEF projectReplayLog, InTurn
<1> HIDE DEF after
<1>5. after[0] = <<>> /\ \A i \in 1..n : after[i] = Projected(after[i - 1], s[i])
  BY <1>3
<1> QED BY <1>4, <1>5

(* The sorted samples after each one. *)
LEMMA InsertInTurn ==
  ASSUME NEW n \in Nat, NEW s, Len(s) = n
  PROVE  \E f : f[0] = <<>> /\ (\A i \in 1..n : f[i] = Inserted(f[i - 1], s[i])) /\ InOrderOfTime(s) = f[n]
<1> DEFINE IsAfter(f) == f = [i \in 0..n |-> IF i = 0 THEN <<>> ELSE Inserted(f[i - 1], s[i])]
           after == CHOOSE f : IsAfter(f)
           f == Values("insert", <<>>, n, s, Null)
<1>1. f[0] = <<>> /\ \A i \in 1..n : f[i] = Done("insert", f[i - 1], s[i], Null)
  BY DoneInTurn
<1> HIDE DEF f
<1>2. IsAfter([i \in 0..n |-> f[i]])
  BY <1>1 DEF Done
<1>3. IsAfter(after)
  <2> HIDE DEF IsAfter
  <2> QED BY <1>2
<1>4. InOrderOfTime(s) = after[n]
  BY DEF InOrderOfTime, InTurn
<1> HIDE DEF after
<1>5. after[0] = <<>> /\ \A i \in 1..n : after[i] = Inserted(after[i - 1], s[i])
  BY <1>3
<1> QED BY <1>4, <1>5

(* The run after each record that is produced. *)
LEMMA ProduceInTurn ==
  ASSUME NEW n \in Nat, NEW r, NEW s, Len(s) = n, NEW choice
  PROVE  \E f : f[0] = r /\ (\A i \in 1..n : f[i] = Produced(f[i - 1], s[i], choice)) /\ ProducedInTurn(r, s, choice) = f[n]
<1> DEFINE IsAfter(f) == f = [i \in 0..n |-> IF i = 0 THEN r ELSE Produced(f[i - 1], s[i], choice)]
           after == CHOOSE f : IsAfter(f)
           f == Values("produce", r, n, s, choice)
<1>1. f[0] = r /\ \A i \in 1..n : f[i] = Done("produce", f[i - 1], s[i], choice)
  BY DoneInTurn
<1> HIDE DEF f
<1>2. IsAfter([i \in 0..n |-> f[i]])
  BY <1>1 DEF Done
<1>3. IsAfter(after)
  <2> HIDE DEF IsAfter
  <2> QED BY <1>2
<1>4. ProducedInTurn(r, s, choice) = after[n]
  BY DEF ProducedInTurn, InTurn
<1> HIDE DEF after
<1>5. after[0] = r /\ \A i \in 1..n : after[i] = Produced(after[i - 1], s[i], choice)
  BY <1>3
<1> QED BY <1>4, <1>5

(* The run after each consumer that is added. *)
LEMMA AddInTurn ==
  ASSUME NEW n \in Nat, NEW r
  PROVE  \E f : f[0] = r /\ (\A i \in 1..n : f[i] = ConsumerAdded(f[i - 1])) /\ AddedInTurn(r, n) = f[n]
<1> DEFINE IsAfter(f) == f = [i \in 0..n |-> IF i = 0 THEN r ELSE ConsumerAdded(f[i - 1])]
           after == CHOOSE f : IsAfter(f)
           f == Values("add", r, n, [i \in 1..n |-> i], Null)
<1>1. f[0] = r /\ \A i \in 1..n : f[i] = Done("add", f[i - 1], [j \in 1..n |-> j][i], Null)
  BY DoneInTurn
<1> HIDE DEF f
<1>2. IsAfter([i \in 0..n |-> f[i]])
  BY <1>1 DEF Done
<1>3. IsAfter(after)
  <2> HIDE DEF IsAfter
  <2> QED BY <1>2
<1>4. AddedInTurn(r, n) = after[n]
  BY DEF AddedInTurn, InTurn
<1> HIDE DEF after
<1>5. after[0] = r /\ \A i \in 1..n : after[i] = ConsumerAdded(after[i - 1])
  BY <1>3
<1> QED BY <1>4, <1>5

(* The run after each message that is processed. *)
LEMMA ProcessInTurn ==
  ASSUME NEW n \in Nat, NEW r, NEW s, Len(s) = n, NEW c
  PROVE  \E f : f[0] = r /\ (\A i \in 1..n : f[i] = Processed(f[i - 1], s[i], s[i] \in c)) /\ ProcessedInTurn(r, s, c) = f[n]
<1> DEFINE IsAfter(f) == f = [i \in 0..n |-> IF i = 0 THEN r ELSE Processed(f[i - 1], s[i], s[i] \in c)]
           after == CHOOSE f : IsAfter(f)
           f == Values("process", r, n, s, c)
<1>1. f[0] = r /\ \A i \in 1..n : f[i] = Done("process", f[i - 1], s[i], c)
  BY DoneInTurn
<1> HIDE DEF f
<1>2. IsAfter([i \in 0..n |-> f[i]])
  BY <1>1 DEF Done
<1>3. IsAfter(after)
  <2> HIDE DEF IsAfter
  <2> QED BY <1>2
<1>4. ProcessedInTurn(r, s, c) = after[n]
  BY DEF ProcessedInTurn, InTurn
<1> HIDE DEF after
<1>5. after[0] = r /\ \A i \in 1..n : after[i] = Processed(after[i - 1], s[i], s[i] \in c)
  BY <1>3
<1> QED BY <1>4, <1>5

(* The sums of a sequence of numbers. *)
LEMMA TotalIsSum ==
  ASSUME NEW n \in Nat, NEW s \in [1..n -> Int]
  PROVE  \E f \in [0..n -> Int] : f[0] = 0 /\ (\A i \in 1..n : f[i] = f[i - 1] + s[i]) /\ Total(s) = f[n]
<1>1. Len(s) = n
  OBVIOUS
<1>2. PICK f : f[0] = 0 /\ (\A i \in 1..n : f[i] = f[i - 1] + s[i]) /\ Total(s) = f[n]
  BY <1>1, TotalInTurn
<1> DEFINE whole == {i \in 0..n : f[i] \in Int}
           g == [i \in 0..n |-> f[i]]
<1>3. 0 \in whole
  BY <1>2
<1>4. ASSUME NEW i \in 1..n, i - 1 \in whole PROVE i \in whole
  <2>1. f[i] = f[i - 1] + s[i] /\ s[i] \in Int /\ f[i - 1] \in Int
    BY <1>2, <1>4
  <2> QED BY <2>1
<1> HIDE DEF whole
<1>5. 0..n \subseteq whole
  BY <1>3, <1>4, Induction
<1>6. g \in [0..n -> Int]
  BY <1>5 DEF whole
<1>7. g[0] = 0 /\ (\A i \in 1..n : g[i] = g[i - 1] + s[i]) /\ Total(s) = g[n]
  BY <1>2
<1> HIDE DEF g
<1> QED BY <1>6, <1>7

\* How far the clock moves by the first transitions.
Advance(ts, i) == Elapsed(SubSeq(ts, 1, i))

(* It moves by the sum of what each of them moves it. *)
LEMMA AdvanceIs ==
  ASSUME NEW n \in Nat, NEW ts, ts \in Seq(Range(ts)), Len(ts) = n, \A i \in 1..n : ts[i].advanceMs \in Int
  PROVE  /\ Elapsed(ts) = IF n = 0 THEN 0 ELSE Advance(ts, n)
         /\ n # 0 => Advance(ts, 1) = ts[1].advanceMs
         /\ \A i \in 2..n : Advance(ts, i) = Advance(ts, i - 1) + ts[i].advanceMs
<1> DEFINE s == [i \in 1..n |-> ts[i].advanceMs]
           part(k) == [i \in 1..k |-> ts[i].advanceMs]
<1>1. PICK f \in [0..n -> Int] : f[0] = 0 /\ (\A i \in 1..n : f[i] = f[i - 1] + s[i]) /\ Total(s) = f[n]
  BY TotalIsSum
<1>2. ASSUME NEW k \in 1..n PROVE Total(part(k)) = f[k]
  <2>1. part(k) \in [1..k -> Int] /\ k \in Nat
    OBVIOUS
  <2>2. PICK g \in [0..k -> Int] : g[0] = 0 /\ (\A i \in 1..k : g[i] = g[i - 1] + part(k)[i]) /\ Total(part(k)) = g[k]
    <3> HIDE DEF part
    <3> QED BY <2>1, TotalIsSum
  <2> DEFINE same == {i \in 0..k : g[i] = f[i]}
  <2>3. 0 \in same
    BY <1>1, <2>2
  <2>4. ASSUME NEW i \in 1..k, i - 1 \in same PROVE i \in same
    <3>1. g[i] = g[i - 1] + ts[i].advanceMs
      BY <2>2
    <3>2. f[i] = f[i - 1] + ts[i].advanceMs
      BY <1>1
    <3> QED BY <2>4, <3>1, <3>2
  <2> HIDE DEF same
  <2>5. 0..k \subseteq same
    BY <2>1, <2>3, <2>4, Induction
  <2> QED BY <2>1, <2>2, <2>5 DEF same
<1>3. Each(ts, LAMBDA item : item.advanceMs) = s
  BY DEF Each
<1>4. ASSUME NEW k \in 1..n PROVE Each(SubSeq(ts, 1, k), LAMBDA item : item.advanceMs) = part(k)
  <2> DEFINE t == SubSeq(ts, 1, k)
  <2>1. Len(t) = k /\ DOMAIN t = 1..k /\ \A i \in 1..k : t[i] = ts[i]
    OBVIOUS
  <2> HIDE DEF t
  <2> QED BY <2>1 DEF Each
<1>5. Elapsed(ts) = f[n]
  BY <1>1, <1>3 DEF Elapsed
<1>6. \A k \in 1..n : Advance(ts, k) = f[k]
  BY <1>2, <1>4 DEF Elapsed, Advance
<1>7. \A i \in 1..n : f[i] = f[i - 1] + ts[i].advanceMs
  BY <1>1
<1>8. ASSUME NEW i \in 2..n PROVE Advance(ts, i) = Advance(ts, i - 1) + ts[i].advanceMs
  BY <1>6, <1>7
<1>9. n # 0 => Advance(ts, 1) = ts[1].advanceMs
  <2>1. n # 0 => 1 \in 1..n /\ f[1] = f[0] + ts[1].advanceMs /\ ts[1].advanceMs \in Int
    BY <1>7
  <2> QED BY <1>1, <1>6, <2>1
<1>10. Elapsed(ts) = IF n = 0 THEN 0 ELSE Advance(ts, n)
  BY <1>1, <1>5, <1>6
<1> QED BY <1>8, <1>9, <1>10

(* What a completed experiment leaves of a state. *)
CommonFields == {"scenarioId", "virtualTimeMs", "revision", "experiment"}

LEMMA ResultIs ==
  ASSUME NEW s, CommonFields \subseteq DOMAIN s, NEW experimentId, NEW startedAt, NEW ts
  PROVE  LET r == Result(s, experimentId, startedAt, ts) IN
         /\ r.transitions = ts
         /\ DOMAIN r.state = DOMAIN s
         /\ r.state.virtualTimeMs = startedAt + Elapsed(ts)
         /\ \A field \in DOMAIN s \ {"virtualTimeMs", "revision", "experiment"} : r.state[field] = s[field]
BY DEF Result, complete, CommonFields

DistinctIds(rows) == \A i, j \in DOMAIN rows : rows[i].id = rows[j].id => i = j

(* An item replaces the first one of its id, or is the last one. *)
LEMMA UpsertIs ==
  ASSUME NEW items, items \in Seq(Range(items)), NEW item
  PROVE  LET n == Len(items)
             u == upsertById(items, item)
         IN  \E k \in 1..(n + 1) :
               /\ u = [i \in 1..(IF k = n + 1 THEN n + 1 ELSE n) |-> IF i = k THEN item ELSE items[i]]
               /\ k # n + 1 => items[k].id = item.id
               /\ k = n + 1 => \A i \in 1..n : items[i].id # item.id
<1> DEFINE n == Len(items)
           existing == {i \in 1..n : items[i].id = item.id}
<1>1. n \in Nat /\ DOMAIN items = 1..n /\ items = [i \in 1..n |-> items[i]]
  OBVIOUS
<1>2. CASE existing = {}
  <2>1. upsertById(items, item) = Append(items, item)
    BY <1>1, <1>2 DEF upsertById
  <2>2. Append(items, item) = [i \in 1..(n + 1) |-> IF i = n + 1 THEN item ELSE items[i]]
    <3> DEFINE a == Append(items, item)
    <3>1. a \in Seq(Range(items) \union {item}) /\ Len(a) = n + 1
      OBVIOUS
    <3>2. \A i \in 1..(n + 1) : a[i] = IF i = n + 1 THEN item ELSE items[i]
      OBVIOUS
    <3> HIDE DEF n, a
    <3>3. a = [i \in 1..(n + 1) |-> a[i]]
      BY <3>1
    <3> QED BY <3>2, <3>3 DEF a
  <2>3. n + 1 \in 1..(n + 1)
    BY <1>1
  <2> QED BY <1>2, <2>1, <2>2, <2>3
<1>3. CASE existing # {}
  <2>1. existing \in SUBSET Nat
    BY <1>1
  <2>11. Min(existing) \in existing
    <3> HIDE DEF existing
    <3> QED BY <1>3, <2>1, MinIsLeast
  <2>2. upsertById(items, item) = [items EXCEPT ![Min(existing)] = item]
    BY <1>1, <1>3 DEF upsertById
  <2>3. [items EXCEPT ![Min(existing)] = item] = [i \in 1..n |-> IF i = Min(existing) THEN item ELSE items[i]]
    BY <1>1
  <2>4. PICK k \in 1..n : k = Min(existing) /\ items[k].id = item.id
    BY <2>11
  <2>5. k \in 1..(n + 1) /\ k # n + 1
    BY <1>1
  <2> HIDE DEF n, existing
  <2> QED BY <2>2, <2>3, <2>4, <2>5 DEF n
<1> QED BY <1>2, <1>3

(* So the items are the old ones and the new one, and their ids stay distinct. *)
LEMMA UpsertKeeps ==
  ASSUME NEW items, items \in Seq(Range(items)), NEW item
  PROVE  LET u == upsertById(items, item) IN
         /\ u \in Seq(Range(u))
         /\ item \in Range(u) /\ Range(u) \subseteq Range(items) \union {item}
         /\ DistinctIds(items) => DistinctIds(u)
<1> DEFINE n == Len(items)
           u == upsertById(items, item)
<1>1. n \in Nat /\ DOMAIN items = 1..n
  OBVIOUS
<1>2. PICK k \in 1..(n + 1) :
        /\ u = [i \in 1..(IF k = n + 1 THEN n + 1 ELSE n) |-> IF i = k THEN item ELSE items[i]]
        /\ k # n + 1 => items[k].id = item.id
        /\ k = n + 1 => \A i \in 1..n : items[i].id # item.id
  BY UpsertIs
<1> DEFINE m == IF k = n + 1 THEN n + 1 ELSE n
<1>3. m \in Nat /\ k \in 1..m /\ \A i \in 1..m : i = k \/ i \in 1..n
  BY <1>1
<1>4. u = [i \in 1..m |-> IF i = k THEN item ELSE items[i]]
  BY <1>2
<1> HIDE DEF u, m
<1>5. DOMAIN u = 1..m /\ u = [i \in 1..m |-> u[i]] /\ u[k] = item /\ \A i \in 1..m : i # k => i \in 1..n /\ u[i] = items[i]
  BY <1>3, <1>4
<1>6. u \in Seq(Range(u))
  <2>1. \A i \in 1..m : u[i] \in Range(u)
    BY <1>5 DEF Range
  <2> QED BY <1>3, <1>5, <2>1, SequenceOf
<1>7. item \in Range(u) /\ Range(u) \subseteq Range(items) \union {item}
  BY <1>1, <1>3, <1>5 DEF Range
<1>8. ASSUME DistinctIds(items) PROVE DistinctIds(u)
  <2> SUFFICES ASSUME NEW i \in 1..m, NEW j \in 1..m, u[i].id = u[j].id, i # j PROVE FALSE
    BY <1>5 DEF DistinctIds
  <2>1. ASSUME NEW l \in 1..m, l # k PROVE u[l] = items[l] /\ l \in 1..n /\ items[l].id # item.id
    <3>1. u[l] = items[l] /\ l \in 1..n
      BY <1>5, <2>1
    <3>2. CASE k = n + 1
      BY <1>2, <3>1, <3>2
    <3>3. CASE k # n + 1
      BY <1>1, <1>2, <1>8, <2>1, <3>1, <3>3 DEF DistinctIds
    <3> QED BY <3>1, <3>2, <3>3
  <2>2. i # k /\ j # k
    BY <1>5, <2>1
  <2> QED BY <1>1, <1>8, <2>1, <2>2 DEF DistinctIds
<1> QED BY <1>6, <1>7, <1>8 DEF u


LEMMA UpsertOne ==
  ASSUME NEW items, NEW a
  PROVE  upsertAll(items, <<a>>) = upsertById(items, a)
<1> DEFINE n == 1
           s == <<a>>
<1>1. n \in Nat /\ Len(s) = n /\ s[1] = a
  OBVIOUS
<1> HIDE DEF n, s
<1>2. PICK f : f[0] = items /\ (\A i \in 1..n : f[i] = upsertById(f[i - 1], s[i])) /\ upsertAll(items, s) = f[n]
  BY <1>1, UpsertInTurn
<1>3. f[1] = upsertById(items, a)
  BY <1>1, <1>2 DEF n
<1> QED BY <1>2, <1>3 DEF n, s

LEMMA UpsertTwo ==
  ASSUME NEW items, NEW a, NEW b
  PROVE  upsertAll(items, <<a, b>>) = upsertById(upsertById(items, a), b)
<1> DEFINE n == 2
           s == <<a, b>>
<1>1. n \in Nat /\ Len(s) = n /\ s[1] = a /\ s[2] = b
  OBVIOUS
<1> HIDE DEF n, s
<1>2. PICK f : f[0] = items /\ (\A i \in 1..n : f[i] = upsertById(f[i - 1], s[i])) /\ upsertAll(items, s) = f[n]
  BY <1>1, UpsertInTurn
<1>3. f[1] = upsertById(items, a) /\ f[2] = upsertById(f[1], b)
  BY <1>1, <1>2 DEF n
<1> QED BY <1>2, <1>3 DEF n, s
LEMMA ElapsedIsNatural ==
  ASSUME NEW ts, ts \in Seq(Range(ts)), \A i \in DOMAIN ts : ts[i].advanceMs \in Nat
  PROVE  Elapsed(ts) \in Nat
<1> DEFINE n == Len(ts)
<1>1. n \in Nat /\ DOMAIN ts = 1..n /\ Len(ts) = n /\ \A i \in 1..n : ts[i].advanceMs \in Int
  OBVIOUS
<1> HIDE DEF n
<1>2. /\ Elapsed(ts) = IF n = 0 THEN 0 ELSE Advance(ts, n)
      /\ n # 0 => Advance(ts, 1) = ts[1].advanceMs
      /\ \A i \in 2..n : Advance(ts, i) = Advance(ts, i - 1) + ts[i].advanceMs
  BY <1>1, AdvanceIs
<1> DEFINE natural == {i \in 0..n : i = 0 \/ Advance(ts, i) \in Nat}
<1>3. 0 \in natural
  BY <1>1
<1>4. ASSUME NEW i \in 1..n, i - 1 \in natural PROVE i \in natural
  <2>1. CASE i = 1
    BY <1>1, <1>2, <2>1
  <2>2. CASE i # 1
    <3>1. i \in 2..n /\ i - 1 # 0
      BY <2>2
    <3>2. Advance(ts, i) = Advance(ts, i - 1) + ts[i].advanceMs
      BY <1>2, <3>1
    <3>3. Advance(ts, i - 1) \in Nat /\ ts[i].advanceMs \in Nat
      BY <1>1, <1>4, <3>1
    <3> QED BY <1>1, <3>2, <3>3
  <2> QED BY <2>1, <2>2
<1> HIDE DEF natural
<1>5. 0..n \subseteq natural
  BY <1>1, <1>3, <1>4, Induction
<1> QED BY <1>1, <1>2, <1>5 DEF natural

-----------------------------------------------------------------------------
(* retention-data-loss *)

\* The window of records, where those before the cutoff have expired.
RetainedWindow(cutoff) ==
  [i \in 1..5 |-> [RetentionRecord(i - 1) EXCEPT !.expired = (i - 1) * 100 < cutoff]]

RetentionFields ==
  CommonFields \union
  {"records", "retentionMs", "cutoffVirtualMs", "logStartOffset", "committedOffset", "error", "lastOffsetOutOfRange"}

\* The cutoff is the retention time behind the clock, or further.
RetentionOk(s) ==
  /\ RetentionFields \subseteq DOMAIN s
  /\ s.virtualTimeMs \in Nat /\ s.retentionMs = 60000
  /\ s.cutoffVirtualMs \in Nat /\ (s.cutoffVirtualMs = 0 \/ s.cutoffVirtualMs + 60000 <= s.virtualTimeMs)
  /\ \/ s.records = <<>> /\ s.cutoffVirtualMs = 0 /\ s.logStartOffset = 0
     \/ s.records = RetainedWindow(s.cutoffVirtualMs) /\ s.logStartOffset = LogStart(RetainedWindow(s.cutoffVirtualMs))

LEMMA WindowIs ==
  ASSUME NEW cutoff \in Nat
  PROVE  /\ DOMAIN RetainedWindow(cutoff) = 1..5
         /\ \A i \in 1..5 : /\ RetainedWindow(cutoff)[i].offset = i - 1
                            /\ RetainedWindow(cutoff)[i].createdAtVirtualMs = (i - 1) * 100
                            /\ RetainedWindow(cutoff)[i].expired <=> (i - 1) * 100 < cutoff
BY DEF RetainedWindow, RetentionRecord

(* No record of the first window has expired. *)
LEMMA FirstWindow == RetentionRecords = RetainedWindow(0)
<1>1. ASSUME NEW i \in 1..5 PROVE RetentionRecord(i - 1) = [RetentionRecord(i - 1) EXCEPT !.expired = (i - 1) * 100 < 0]
  <2>1. ((i - 1) * 100 < 0) = FALSE
    OBVIOUS
  <2>2. ASSUME NEW o PROVE RetentionRecord(o) = [RetentionRecord(o) EXCEPT !.expired = FALSE]
    <3> DEFINE r == RetentionRecord(o)
    <3>1. r = [field \in DOMAIN r |-> r[field]] /\ r["expired"] = FALSE
      BY DEF RetentionRecord
    <3> HIDE DEF r
    <3> QED BY <3>1 DEF r
  <2>3. RetentionRecord(i - 1) = [RetentionRecord(i - 1) EXCEPT !.expired = FALSE]
    BY <2>2
  <2> QED BY <2>1, <2>3
<1> QED BY <1>1 DEF RetentionRecords, RetainedWindow

LEMMA LogStartIs ==
  ASSUME NEW cutoff \in Nat
  PROVE  LET start == LogStart(RetainedWindow(cutoff))
         IN  start \in 0..5 /\ \A k \in 0..4 : k < start <=> k * 100 < cutoff
<1> DEFINE w == RetainedWindow(cutoff)
           left == {i \in DOMAIN w : ~w[i].expired}
<1>1. DOMAIN w = 1..5 /\ Len(w) = 5 /\ \A i \in 1..5 : w[i].offset = i - 1
  BY WindowIs
<1>2. LogStart(w) = IF left = {} THEN w[5].offset + 1 ELSE w[Min(left)].offset
  BY <1>1 DEF LogStart, Last
<1>21. \A i \in 1..5 : w[i].expired <=> (i - 1) * 100 < cutoff
  BY WindowIs
<1> HIDE DEF w
<1>22. \A i : i \in left <=> i \in 1..5 /\ ~((i - 1) * 100 < cutoff)
  BY <1>1, <1>21
<1>3. left \in SUBSET Nat /\ \A i \in 1..5 : i \in left <=> ~((i - 1) * 100 < cutoff)
  BY <1>22
<1>4. CASE left = {}
  <2>1. 4 * 100 < cutoff
    BY <1>3, <1>4
  <2>2. LogStart(w) = 5
    BY <1>1, <1>2, <1>4
  <2> QED BY <2>1, <2>2 DEF w
<1>5. CASE left # {}
  <2> DEFINE m == Min(left)
  <2>1. m \in left /\ \A y \in left : m <= y
    <3> HIDE DEF left
    <3> QED BY <1>3, <1>5, MinIsLeast
  <2>2. LogStart(w) = m - 1 /\ m \in 1..5
    BY <1>1, <1>2, <1>5, <2>1
  <2>3. ASSUME NEW k \in 0..4 PROVE k < m - 1 <=> k * 100 < cutoff
    <3>1. k + 1 \in 1..5
      OBVIOUS
    <3>2. CASE k < m - 1
      <4>1. k + 1 \notin left
        BY <2>1, <2>2, <3>2
      <4> QED BY <1>3, <3>1, <3>2, <4>1
    <3>3. CASE ~(k < m - 1)
      <4>1. ~((m - 1) * 100 < cutoff)
        BY <1>3, <2>1, <2>2
      <4> HIDE DEF m
      <4> QED BY <2>2, <3>3, <4>1
    <3> QED BY <3>2, <3>3
  <2> HIDE DEF m
  <2> QED BY <2>2, <2>3 DEF w
<1> QED BY <1>4, <1>5

(* The later the cutoff, the later the log starts. *)
LEMMA LogStartAdvances ==
  ASSUME NEW c \in Nat, NEW d \in Nat, c <= d
  PROVE  LogStart(RetainedWindow(c)) <= LogStart(RetainedWindow(d))
<1> DEFINE a == LogStart(RetainedWindow(c))
           b == LogStart(RetainedWindow(d))
<1>1. a \in 0..5 /\ b \in 0..5
  BY LogStartIs
<1>2. SUFFICES ASSUME b < a PROVE FALSE
  BY <1>1
<1>3. b \in 0..4
  BY <1>1, <1>2
<1>4. b * 100 < c
  BY <1>2, <1>3, LogStartIs
<1>5. b * 100 < d
  <2> HIDE DEF b
  <2> QED BY <1>3, <1>4
<1>6. b < b
  BY <1>3, <1>5, LogStartIs
<1> HIDE DEF b
<1> QED BY <1>3, <1>6

LEMMA RetentionStepsAdvance ==
  ASSUME NEW s, NEW e
  PROVE  Elapsed(RetentionSteps(s, e)) \in Nat
<1> DEFINE ts == RetentionSteps(s, e)
           a == step("append", "log.appended", <<"retention-records">> \o RetentionIds, 500)
           m == step("materialize-retention-window", "log.appended", <<"retention-records">> \o RetentionIds, 500)
           b == step("advance", "virtual_time.advanced", <<"retention-clock">> \o RetentionIds, 59550)
           c == step("expire", "retention.expired", <<"log-start-offset">> \o RetentionIds, 100)
           d == step("replay", "offset.out_of_range", <<"consumer-group">> \o RetentionIds, 100)
           r == step("recover", "offset.recovered", <<"consumer-group">> \o RetentionIds, 100)
           T == {x \in {a, b, c, d, m, r} : x.advanceMs \in Nat}
<1>1. ts = CASE e = "retention-window" -> <<a>>
             [] e = "advance-retention" -> (IF s.records = <<>> THEN <<m>> ELSE <<>>) \o <<b, c, d>>
             [] OTHER -> <<r>>
  BY DEF RetentionSteps
<1>2. a \in T /\ b \in T /\ c \in T /\ d \in T /\ m \in T /\ r \in T
  BY DEF step
<1>3. \A x \in T : x.advanceMs \in Nat
  OBVIOUS
<1> HIDE DEF a, b, c, d, m, r, ts, T
<1>4. ts \in Seq(T)
  <2>1. <<b, c, d>> \in Seq(T) /\ <<m>> \in Seq(T) /\ <<>> \in Seq(T) /\ <<a>> \in Seq(T) /\ <<r>> \in Seq(T)
    BY <1>2
  <2>2. <<m>> \o <<b, c, d>> \in Seq(T) /\ <<>> \o <<b, c, d>> \in Seq(T)
    BY <2>1
  <2>3. CASE e = "advance-retention" /\ s.records = <<>>
    BY <1>1, <2>2, <2>3
  <2>4. CASE e = "advance-retention" /\ s.records # <<>>
    BY <1>1, <2>2, <2>4
  <2>5. CASE e # "advance-retention"
    BY <1>1, <2>1, <2>5
  <2> QED BY <2>3, <2>4, <2>5
<1>5. ts \in Seq(Range(ts)) /\ \A i \in DOMAIN ts : ts[i].advanceMs \in Nat
  BY <1>3, <1>4 DEF Range
<1> QED BY <1>5, ElapsedIsNatural DEF ts

LEMMA RetentionStep ==
  ASSUME NEW s, RetentionOk(s), NEW e
  PROVE  LET t == buildRetentionExperiment(s, e, s.virtualTimeMs).state IN
         /\ RetentionOk(t)
         /\ t.logStartOffset >= s.logStartOffset
         /\ t.cutoffVirtualMs # s.cutoffVirtualMs => t.cutoffVirtualMs = t.virtualTimeMs - t.retentionMs
<1> DEFINE steps == RetentionSteps(s, e)
           d == Elapsed(steps)
           now == s.virtualTimeMs + d
           filled == FilledWindow(s)
           advanced == AdvanceRetention(filled, now)
           cutoff == Max({0, now - filled.retentionMs})
           built == CASE e = "retention-window" ->
                           [filled EXCEPT !.committedOffset = 1, !.error = Null, !.lastOffsetOutOfRange = Null]
                      [] e = "advance-retention" -> advanced
                      [] OTHER -> [filled EXCEPT !.committedOffset = filled.logStartOffset, !.error = Null]
           t == Result(built, e, s.virtualTimeMs, steps).state
<1>1. d \in Nat /\ s.virtualTimeMs \in Nat
  BY RetentionStepsAdvance DEF RetentionOk
<1>2. t = buildRetentionExperiment(s, e, s.virtualTimeMs).state
  BY DEF buildRetentionExperiment
<1> HIDE DEF steps, d
<1>3. /\ DOMAIN filled = DOMAIN s
      /\ filled.retentionMs = 60000 /\ filled.cutoffVirtualMs = s.cutoffVirtualMs
      /\ filled.logStartOffset = s.logStartOffset
      /\ s.cutoffVirtualMs \in Nat
      /\ filled.records = RetainedWindow(s.cutoffVirtualMs)
      /\ filled.logStartOffset = LogStart(RetainedWindow(s.cutoffVirtualMs))
  <2>1. CASE s.records = <<>>
    <3>1. s.cutoffVirtualMs = 0 /\ s.logStartOffset = 0
      <4>1. RetainedWindow(s.cutoffVirtualMs) # <<>>
        BY WindowIs DEF RetentionOk
      <4> QED BY <2>1, <4>1 DEF RetentionOk
    <3>2. RetentionRecords = RetainedWindow(0)
      BY FirstWindow
    <3>3. LogStart(RetainedWindow(0)) = 0
      <4> DEFINE start == LogStart(RetainedWindow(0))
      <4>1. start \in 0..5 /\ \A k \in 0..4 : k < start <=> k * 100 < 0
        BY LogStartIs
      <4> HIDE DEF start
      <4>2. start = 0
        BY <4>1
      <4> QED BY <4>2 DEF start
    <3> QED BY <2>1, <3>1, <3>2, <3>3 DEF FilledWindow, RetentionOk, RetentionFields, CommonFields
  <2>2. CASE s.records # <<>>
    BY <2>2 DEF FilledWindow, RetentionOk, RetentionFields
  <2> QED BY <2>1, <2>2
<1>4. /\ cutoff \in Nat /\ s.cutoffVirtualMs <= cutoff
      /\ cutoff = 0 \/ cutoff = now - 60000
  <2>1. cutoff = IF now - 60000 < 0 THEN 0 ELSE now - 60000
    <3>1. filled.retentionMs = 60000 /\ now \in Nat
      BY <1>1, <1>3
    <3> HIDE DEF now, filled
    <3> QED BY <3>1 DEF Max
  <2> QED BY <1>1, <2>1 DEF RetentionOk
<1> HIDE DEF cutoff
<1>5. /\ DOMAIN advanced = DOMAIN s
      /\ advanced.retentionMs = 60000 /\ advanced.cutoffVirtualMs = cutoff
      /\ advanced.records = RetainedWindow(cutoff) /\ advanced.logStartOffset = LogStart(RetainedWindow(cutoff))
  <2> DEFINE w == RetainedWindow(s.cutoffVirtualMs)
             expiring == Each(filled.records, LAMBDA r : [r EXCEPT !.expired = r.createdAtVirtualMs < cutoff])
  <2>1. expiring = RetainedWindow(cutoff)
    <3>1. w = [i \in 1..5 |-> w[i]] /\ Len(w) = 5 /\ filled.records = w
      BY <1>3 DEF RetainedWindow
    <3>2. expiring = [i \in 1..5 |-> [w[i] EXCEPT !.expired = w[i].createdAtVirtualMs < cutoff]]
      <4> HIDE DEF w, filled
      <4> QED BY <3>1 DEF Each
    <3>3. ASSUME NEW i \in 1..5
          PROVE  [w[i] EXCEPT !.expired = w[i].createdAtVirtualMs < cutoff] = RetainedWindow(cutoff)[i]
      <4>1. w[i] = [RetentionRecord(i - 1) EXCEPT !.expired = (i - 1) * 100 < s.cutoffVirtualMs]
        BY DEF RetainedWindow
      <4>2. RetainedWindow(cutoff)[i] = [RetentionRecord(i - 1) EXCEPT !.expired = (i - 1) * 100 < cutoff]
        BY DEF RetainedWindow
      <4>3. w[i].createdAtVirtualMs = (i - 1) * 100
        BY <4>1 DEF RetentionRecord
      <4> HIDE DEF w
      <4> QED BY <4>1, <4>2, <4>3 DEF RetentionRecord
    <3>4. RetainedWindow(cutoff) = [i \in 1..5 |-> RetainedWindow(cutoff)[i]]
      BY DEF RetainedWindow
    <3> HIDE DEF expiring, w
    <3> QED BY <3>2, <3>3, <3>4
  <2>2. advanced = [filled EXCEPT !.records = expiring, !.cutoffVirtualMs = cutoff,
                                  !.logStartOffset = LogStart(expiring),
                                  !.error = OffsetOutOfRange(filled.committedOffset),
                                  !.lastOffsetOutOfRange = OffsetOutOfRange(filled.committedOffset)]
    BY DEF AdvanceRetention, cutoff
  <2> HIDE DEF expiring, filled, advanced
  <2> QED BY <1>3, <2>1, <2>2 DEF RetentionOk, RetentionFields
<1>6. /\ DOMAIN built = DOMAIN s
      /\ built.retentionMs = 60000
      /\ built.cutoffVirtualMs = IF e = "advance-retention" THEN cutoff ELSE s.cutoffVirtualMs
      /\ built.records = RetainedWindow(built.cutoffVirtualMs)
      /\ built.logStartOffset = LogStart(RetainedWindow(built.cutoffVirtualMs))
  <2> HIDE DEF filled, advanced
  <2> QED BY <1>3, <1>5 DEF RetentionOk, RetentionFields
<1> HIDE DEF built
<1>7. /\ DOMAIN t = DOMAIN s /\ t.virtualTimeMs = now
      /\ t.retentionMs = 60000 /\ t.cutoffVirtualMs = built.cutoffVirtualMs
      /\ t.records = built.records /\ t.logStartOffset = built.logStartOffset
  BY <1>6, ResultIs DEF RetentionOk, RetentionFields, CommonFields, d
<1> HIDE DEF t
<1>8. LogStart(RetainedWindow(s.cutoffVirtualMs)) <= LogStart(RetainedWindow(cutoff))
  BY <1>3, <1>4, LogStartAdvances
<1>9. LogStart(RetainedWindow(s.cutoffVirtualMs)) \in 0..5 /\ s.logStartOffset = LogStart(RetainedWindow(s.cutoffVirtualMs))
  BY <1>3, LogStartIs
<1>10. RetentionOk(t)
  BY <1>1, <1>3, <1>4, <1>6, <1>7 DEF RetentionOk
<1>11. t.logStartOffset >= s.logStartOffset
  BY <1>6, <1>7, <1>8, <1>9
<1>12. t.cutoffVirtualMs # s.cutoffVirtualMs => t.cutoffVirtualMs = t.virtualTimeMs - t.retentionMs
  BY <1>3, <1>4, <1>6, <1>7
<1> QED BY <1>2, <1>10, <1>11, <1>12

(* Exactly the records below the log start have expired. *)
LEMMA RetentionOkAgrees ==
  ASSUME NEW s, RetentionOk(s)
  PROVE  \A r \in Range(s.records) : r.expired <=> r.offset < s.logStartOffset
<1>1. CASE s.records = <<>>
  BY <1>1 DEF Range
<1>2. CASE s.records # <<>>
  <2> DEFINE c == s.cutoffVirtualMs
             start == LogStart(RetainedWindow(c))
  <2>1. c \in Nat /\ s.records = RetainedWindow(c) /\ s.logStartOffset = start
    BY <1>2 DEF RetentionOk
  <2>2. \A k \in 0..4 : k < start <=> k * 100 < c
    BY <2>1, LogStartIs
  <2> HIDE DEF start, c
  <2> SUFFICES ASSUME NEW i \in 1..5 PROVE RetainedWindow(c)[i].expired <=> RetainedWindow(c)[i].offset < start
    BY <2>1, WindowIs DEF Range
  <2>3. i - 1 \in 0..4
    OBVIOUS
  <2>4. i - 1 < start <=> (i - 1) * 100 < c
    BY <2>2, <2>3
  <2>5. RetainedWindow(c)[i].offset = i - 1 /\ (RetainedWindow(c)[i].expired <=> (i - 1) * 100 < c)
    BY <2>1, WindowIs
  <2> QED BY <2>4, <2>5
<1> QED BY <1>1, <1>2

-----------------------------------------------------------------------------
(* retry-dead-letter-queues, log-compaction-tombstones *)

\* The times at which transitions happen that start at some time.
TimesFrom(at, ts) == {at + Advance(ts, i) : i \in DOMAIN ts}

RetryOk(s) ==
  /\ CommonFields \union {"records"} \subseteq DOMAIN s
  /\ s.records \in Seq(Range(s.records))

LEMMA RetryTimes ==
  ASSUME NEW at
  PROVE  /\ {at + d : d \in {100, 200, 1300, 1400}} \subseteq TimesFrom(at, TransientSteps)
         /\ {at + d : d \in {100, 200, 1300, 1400, 3500, 3600}} \subseteq TimesFrom(at, PoisonSteps)
<1>1. {at + d : d \in {100, 200, 1300, 1400}} \subseteq TimesFrom(at, TransientSteps)
  <2> DEFINE ts == TransientSteps
  <2>1. ts \in Seq(Range(ts)) /\ Len(ts) = 5 /\ DOMAIN ts = 1..5
    BY DEF TransientSteps, Range
  <2>2. /\ ts[1].advanceMs = 100 /\ ts[2].advanceMs = 100 /\ ts[3].advanceMs = 1000
        /\ ts[4].advanceMs = 100 /\ ts[5].advanceMs = 100
    BY DEF TransientSteps, Attempt, step
  <2> HIDE DEF ts
  <2> DEFINE n == 5
  <2>3. n \in Nat /\ n # 0 /\ Len(ts) = n /\ \A i \in 1..n : ts[i].advanceMs \in Int
    BY <2>1, <2>2
  <2> HIDE DEF n
  <2>4. Advance(ts, 1) = ts[1].advanceMs /\ \A i \in 2..n : Advance(ts, i) = Advance(ts, i - 1) + ts[i].advanceMs
    BY <2>1, <2>3, AdvanceIs
  <2>41. Advance(ts, 1) = 100
    BY <2>2, <2>4 DEF n
  <2>42. Advance(ts, 2) = 200
    BY <2>2, <2>41, <2>4 DEF n
  <2>43. Advance(ts, 3) = 1200
    BY <2>2, <2>42, <2>4 DEF n
  <2>44. Advance(ts, 4) = 1300
    BY <2>2, <2>43, <2>4 DEF n
  <2>45. Advance(ts, 5) = 1400
    BY <2>2, <2>44, <2>4 DEF n
  <2>6. \A i \in 1..5 : at + Advance(ts, i) \in TimesFrom(at, ts)
    BY <2>1 DEF TimesFrom
  <2> QED BY <2>41, <2>42, <2>44, <2>45, <2>6 DEF ts
<1>2. {at + d : d \in {100, 200, 1300, 1400, 3500, 3600}} \subseteq TimesFrom(at, PoisonSteps)
  <2> DEFINE ts == PoisonSteps
  <2>1. ts \in Seq(Range(ts)) /\ Len(ts) = 8 /\ DOMAIN ts = 1..8
    BY DEF PoisonSteps, Range
  <2>2. /\ ts[1].advanceMs = 100 /\ ts[2].advanceMs = 100 /\ ts[3].advanceMs = 1000
        /\ ts[4].advanceMs = 100 /\ ts[5].advanceMs = 100 /\ ts[6].advanceMs = 2000
        /\ ts[7].advanceMs = 100 /\ ts[8].advanceMs = 100
    BY DEF PoisonSteps, Attempt, step
  <2> HIDE DEF ts
  <2> DEFINE n == 8
  <2>3. n \in Nat /\ n # 0 /\ Len(ts) = n /\ \A i \in 1..n : ts[i].advanceMs \in Int
    BY <2>1, <2>2
  <2> HIDE DEF n
  <2>4. Advance(ts, 1) = ts[1].advanceMs /\ \A i \in 2..n : Advance(ts, i) = Advance(ts, i - 1) + ts[i].advanceMs
    BY <2>1, <2>3, AdvanceIs
  <2>41. Advance(ts, 1) = 100
    BY <2>2, <2>4 DEF n
  <2>42. Advance(ts, 2) = 200
    BY <2>2, <2>41, <2>4 DEF n
  <2>43. Advance(ts, 3) = 1200
    BY <2>2, <2>42, <2>4 DEF n
  <2>44. Advance(ts, 4) = 1300
    BY <2>2, <2>43, <2>4 DEF n
  <2>45. Advance(ts, 5) = 1400
    BY <2>2, <2>44, <2>4 DEF n
  <2>46. Advance(ts, 6) = 3400
    BY <2>2, <2>45, <2>4 DEF n
  <2>47. Advance(ts, 7) = 3500
    BY <2>2, <2>46, <2>4 DEF n
  <2>48. Advance(ts, 8) = 3600
    BY <2>2, <2>47, <2>4 DEF n
  <2>6. \A i \in 1..8 : at + Advance(ts, i) \in TimesFrom(at, ts)
    BY <2>1 DEF TimesFrom
  <2> QED BY <2>41, <2>42, <2>44, <2>45, <2>47, <2>48, <2>6 DEF ts
<1> QED BY <1>1, <1>2

LEMMA RetryStep ==
  ASSUME NEW s, RetryOk(s), NEW e
  PROVE  LET result == buildRetryDeadLetterExperiment(s, e, s.virtualTimeMs) IN
         /\ RetryOk(result.state)
         /\ \A r \in Fresh(result.state.records, s.records) :
              \A hop \in Range(r.route) : hop.atVirtualMs \in TimesFrom(s.virtualTimeMs, result.transitions)
<1> DEFINE at == s.virtualTimeMs
           transient == e = "transient-recovery"
           record == IF transient THEN TransientRecord(at) ELSE PoisonRecord(at)
           ts == IF transient THEN TransientSteps ELSE PoisonSteps
           u == upsertById(s.records, record)
           built == [s EXCEPT !.records = u]
           result == Result(built, e, at, ts)
<1>1. result = buildRetryDeadLetterExperiment(s, e, at)
  BY DEF buildRetryDeadLetterExperiment
<1>2. DOMAIN built = DOMAIN s /\ built.records = u
  BY DEF RetryOk
<1>3. u \in Seq(Range(u)) /\ Range(u) \subseteq Range(s.records) \union {record}
  BY UpsertKeeps DEF RetryOk
<1>4. \A hop \in Range(record.route) : hop.atVirtualMs \in TimesFrom(at, ts)
  <2>1. CASE transient
    <3>1. record.route = [i \in 1..5 |-> record.route[i]]
          /\ record.route[1].atVirtualMs = at + 100 /\ record.route[2].atVirtualMs = at + 200
          /\ record.route[3].atVirtualMs = at + 200 /\ record.route[4].atVirtualMs = at + 1300
          /\ record.route[5].atVirtualMs = at + 1400
      BY <2>1 DEF TransientRecord, retryRecord
    <3> HIDE DEF record
    <3>2. at + 100 \in TimesFrom(at, ts) /\ at + 200 \in TimesFrom(at, ts) /\ at + 1300 \in TimesFrom(at, ts)
          /\ at + 1400 \in TimesFrom(at, ts)
      BY <2>1, RetryTimes
    <3>3. \A i \in 1..5 : record.route[i].atVirtualMs \in TimesFrom(at, ts)
      BY <3>1, <3>2
    <3> QED BY <3>1, <3>3 DEF Range
  <2>2. CASE ~transient
    <3>1. record.route = [i \in 1..7 |-> record.route[i]]
          /\ record.route[1].atVirtualMs = at + 100 /\ record.route[2].atVirtualMs = at + 200
          /\ record.route[3].atVirtualMs = at + 200 /\ record.route[4].atVirtualMs = at + 1300
          /\ record.route[5].atVirtualMs = at + 1400 /\ record.route[6].atVirtualMs = at + 3500
          /\ record.route[7].atVirtualMs = at + 3600
      BY <2>2 DEF PoisonRecord, retryRecord
    <3> HIDE DEF record
    <3>2. at + 100 \in TimesFrom(at, ts) /\ at + 200 \in TimesFrom(at, ts) /\ at + 1300 \in TimesFrom(at, ts)
          /\ at + 1400 \in TimesFrom(at, ts) /\ at + 3500 \in TimesFrom(at, ts) /\ at + 3600 \in TimesFrom(at, ts)
      BY <2>2, RetryTimes
    <3>3. \A i \in 1..7 : record.route[i].atVirtualMs \in TimesFrom(at, ts)
      BY <3>1, <3>2
    <3> QED BY <3>1, <3>3 DEF Range
  <2> QED BY <2>1, <2>2
<1> HIDE DEF ts, record, built, u
<1>5. DOMAIN result.state = DOMAIN s /\ result.state.records = u /\ result.transitions = ts
  BY <1>2, ResultIs DEF RetryOk, CommonFields
<1> HIDE DEF result
<1> QED BY <1>1, <1>3, <1>4, <1>5 DEF RetryOk, Fresh

CompactionOk(s) ==
  /\ CommonFields \union {"rawLog", "materialized", "cleanerPasses"} \subseteq DOMAIN s
  /\ s.cleanerPasses \in Seq(Range(s.cleanerPasses))

LEMMA CompactionStep ==
  ASSUME NEW s, CompactionOk(s), NEW e
  PROVE  LET t == buildLogCompactionExperiment(s, e, s.virtualTimeMs).state IN
         /\ CompactionOk(t)
         /\ \A pass \in Fresh(t.cleanerPasses, s.cleanerPasses) : pass.atVirtualMs = t.virtualTimeMs
<1> DEFINE at == s.virtualTimeMs
           append == e = "compacted-key-series"
           compact == e = "run-compaction"
           ts == CompactionSteps(s, e)
           pass == PassOf(compact, at + Elapsed(ts))
           sourceLog == IF s.rawLog = <<>> THEN AppendedLog ELSE s.rawLog
           raw == IF append THEN AppendedLog ELSE Cleaned(sourceLog, pass)
           materialized == IF append \/ compact THEN <<MaterializedA, MaterializedB>> ELSE <<MaterializedA>>
           passes == IF append THEN s.cleanerPasses ELSE upsertById(s.cleanerPasses, pass)
           built == [s EXCEPT !.rawLog = raw, !.materialized = materialized, !.cleanerPasses = passes]
           t == Result(built, e, at, ts).state
<1>1. t = buildLogCompactionExperiment(s, e, at).state
  BY DEF buildLogCompactionExperiment
<1>2. pass.atVirtualMs = at + Elapsed(ts)
  BY DEF PassOf, CleanerPass
<1> HIDE DEF ts, pass, raw, materialized
<1>3. passes \in Seq(Range(passes)) /\ Range(passes) \subseteq Range(s.cleanerPasses) \union {pass}
  <2>1. CASE append
    BY <2>1 DEF CompactionOk
  <2>2. CASE ~append
    BY <2>2, UpsertKeeps DEF CompactionOk
  <2> QED BY <2>1, <2>2
<1> HIDE DEF passes
<1>4. DOMAIN built = DOMAIN s /\ built.cleanerPasses = passes
  BY DEF CompactionOk
<1> HIDE DEF built
<1>5. DOMAIN t = DOMAIN s /\ t.cleanerPasses = passes /\ t.virtualTimeMs = at + Elapsed(ts)
  BY <1>4, ResultIs DEF CompactionOk, CommonFields
<1> HIDE DEF t
<1> QED BY <1>1, <1>2, <1>3, <1>5 DEF CompactionOk, Fresh

-----------------------------------------------------------------------------
(* consumer-lag-backpressure *)

\* Samples up to now, each of a time of its own; and samples in the order of their times.
SamplesOk(samples, now) ==
  /\ samples \in Seq(Range(samples))
  /\ \A i \in DOMAIN samples : samples[i].atVirtualMs \in Nat /\ samples[i].atVirtualMs <= now
  /\ \A i, j \in DOMAIN samples : samples[i].atVirtualMs = samples[j].atVirtualMs => i = j
Ordered(samples) == \A i, j \in DOMAIN samples : i < j => samples[i].atVirtualMs < samples[j].atVirtualMs

(* A later sample is the latest one, and the only one of its time. *)
LEMMA UpsertLater ==
  ASSUME NEW now \in Nat, NEW samples, SamplesOk(samples, now),
         NEW item, item.atVirtualMs \in Nat, now < item.atVirtualMs
  PROVE  LET u == upsertById(samples, item) IN
         /\ SamplesOk(u, item.atVirtualMs)
         /\ item \in Range(u) /\ Range(u) \subseteq Range(samples) \union {item}
<1> DEFINE n == Len(samples)
           u == upsertById(samples, item)
<1>1. n \in Nat /\ DOMAIN samples = 1..n /\ samples \in Seq(Range(samples))
  BY DEF SamplesOk
<1>2. PICK k \in 1..(n + 1) :
        /\ u = [i \in 1..(IF k = n + 1 THEN n + 1 ELSE n) |-> IF i = k THEN item ELSE samples[i]]
        /\ k # n + 1 => samples[k].id = item.id
        /\ k = n + 1 => \A i \in 1..n : samples[i].id # item.id
  BY <1>1, UpsertIs
<1> DEFINE m == IF k = n + 1 THEN n + 1 ELSE n
<1>3. m \in Nat /\ k \in 1..m /\ \A i \in 1..m : i = k \/ i \in 1..n
  BY <1>1
<1>4. u = [i \in 1..m |-> IF i = k THEN item ELSE samples[i]]
  BY <1>2
<1>5. u \in Seq(Range(u)) /\ item \in Range(u) /\ Range(u) \subseteq Range(samples) \union {item}
  BY <1>1, UpsertKeeps
<1> HIDE DEF u, m
<1>6. DOMAIN u = 1..m /\ u[k] = item /\ \A i \in 1..m : i # k => i \in 1..n /\ u[i] = samples[i]
  BY <1>3, <1>4
<1>7. \A i \in 1..n : samples[i].atVirtualMs \in Nat /\ samples[i].atVirtualMs <= now
  BY <1>1 DEF SamplesOk
<1>8. \A i, j \in 1..n : samples[i].atVirtualMs = samples[j].atVirtualMs => i = j
  BY <1>1 DEF SamplesOk
<1>9. \A i \in 1..m : i # k => u[i].atVirtualMs \in Nat /\ u[i].atVirtualMs < item.atVirtualMs
  BY <1>6, <1>7
<1>10. \A i \in 1..m : u[i].atVirtualMs \in Nat /\ u[i].atVirtualMs <= item.atVirtualMs
  BY <1>6, <1>9
<1>11. ASSUME NEW i \in 1..m, NEW j \in 1..m, u[i].atVirtualMs = u[j].atVirtualMs PROVE i = j
  BY <1>6, <1>8, <1>9, <1>11
<1>12. SamplesOk(u, item.atVirtualMs)
  BY <1>5, <1>6, <1>10, <1>11 DEF SamplesOk
<1> QED BY <1>5, <1>12 DEF u

(* A sample goes where its time says. *)
LEMMA InsertedKeeps ==
  ASSUME NEW sorted, sorted \in Seq(Range(sorted)), Ordered(sorted), NEW s, s.atVirtualMs \in Nat,
         \A i \in DOMAIN sorted : sorted[i].atVirtualMs \in Nat /\ sorted[i].atVirtualMs # s.atVirtualMs
  PROVE  LET u == Inserted(sorted, s) IN
         u \in Seq(Range(u)) /\ Range(u) = Range(sorted) \union {s} /\ Ordered(u)
<1> DEFINE n == Len(sorted)
           at == s.atVirtualMs
           Splits(k) == \A i \in DOMAIN sorted : i <= k <=> sorted[i].atVirtualMs <= at
           later == {i \in 1..n : at < sorted[i].atVirtualMs} \union {n + 1}
           k == CHOOSE j \in 0..n : Splits(j)
           u == Inserted(sorted, s)
<1>1. n \in Nat /\ DOMAIN sorted = 1..n /\ at \in Nat
      /\ \A i \in 1..n : sorted[i].atVirtualMs \in Nat /\ sorted[i].atVirtualMs # at
  OBVIOUS
<1>2. \A i, j \in 1..n : i < j => sorted[i].atVirtualMs < sorted[j].atVirtualMs
  BY <1>1 DEF Ordered
<1>3. k \in 0..n /\ Splits(k)
  <2>1. later \in SUBSET Nat /\ n + 1 \in later
    BY <1>1
  <2>2. PICK m \in later : \A i \in later : m <= i
    <3> HIDE DEF later
    <3> QED BY <2>1, LeastNumber
  <2>3. m - 1 \in 0..n /\ m \in 1..(n + 1)
    BY <1>1, <2>1, <2>2
  <2>4. ASSUME NEW i \in 1..n PROVE i <= m - 1 <=> sorted[i].atVirtualMs <= at
    <3>1. CASE i < m
      <4>1. i \notin later
        BY <2>2, <2>3, <3>1
      <4> QED BY <1>1, <2>3, <3>1, <4>1
    <3>2. CASE ~(i < m)
      <4>1. m \in 1..n /\ at < sorted[m].atVirtualMs
        BY <1>1, <2>2, <2>3, <3>2
      <4>2. sorted[m].atVirtualMs <= sorted[i].atVirtualMs
        BY <1>1, <1>2, <3>2, <4>1
      <4> QED BY <1>1, <2>3, <3>2, <4>1, <4>2
    <3> QED BY <3>1, <3>2
  <2>5. Splits(m - 1)
    BY <1>1, <2>4
  <2> HIDE DEF Splits
  <2> QED BY <2>3, <2>5
<1>4. u = SubSeq(sorted, 1, k) \o <<s>> \o SubSeq(sorted, k + 1, n)
  BY DEF Inserted
<1> HIDE DEF k
<1>5. \A i \in 1..n : i <= k <=> sorted[i].atVirtualMs <= at
  BY <1>1, <1>3
<1> HIDE DEF Splits, later
<1>6. /\ u \in Seq(Range(sorted) \union {s}) /\ Len(u) = n + 1
      /\ \A i \in 1..(n + 1) : u[i] = IF i <= k THEN sorted[i] ELSE IF i = k + 1 THEN s ELSE sorted[i - 1]
  <2> DEFINE T == Range(sorted) \union {s}
  <2>1. sorted \in Seq(T)
    BY DEF Range
  <2>2. s \in T
    OBVIOUS
  <2> HIDE DEF T
  <2>3. SubSeq(sorted, 1, k) \in Seq(T) /\ Len(SubSeq(sorted, 1, k)) = k /\ \A i \in 1..k : SubSeq(sorted, 1, k)[i] = sorted[i]
    BY <1>1, <1>3, <2>1
  <2>4. /\ SubSeq(sorted, k + 1, n) \in Seq(T) /\ Len(SubSeq(sorted, k + 1, n)) = n - k
        /\ \A i \in 1..(n - k) : SubSeq(sorted, k + 1, n)[i] = sorted[k + i]
    <3>1. n - (k + 1) + 1 = n - k /\ k + 1 \in 1..(n + 1) /\ k \in Nat /\ n - k \in Nat
      BY <1>1, <1>3
    <3>2. SubSeq(sorted, k + 1, n) \in Seq(T)
      BY <1>1, <2>1, <3>1
    <3>3. Len(SubSeq(sorted, k + 1, n)) = n - k
      <4> DEFINE j == k + 1
      <4>1. j \in 1..(n + 1) /\ n - j + 1 \in Nat
        BY <3>1
      <4> HIDE DEF j, n
      <4>2. Len(SubSeq(sorted, j, n)) = n - j + 1
        BY <1>1, <4>1
      <4> QED BY <3>1, <4>2 DEF j
    <3>4. ASSUME NEW i \in 1..(n - k) PROVE SubSeq(sorted, k + 1, n)[i] = sorted[k + i]
      <4>1. k + 1 + i - 1 = k + i /\ i \in 1..(n - (k + 1) + 1)
        BY <3>1
      <4> QED BY <1>1, <2>1, <3>1, <4>1
    <3> QED BY <3>2, <3>3, <3>4
  <2> DEFINE a == SubSeq(sorted, 1, k)
             b == SubSeq(sorted, k + 1, n)
  <2> HIDE DEF a, b
  <2>5. a \in Seq(T) /\ b \in Seq(T) /\ Len(a) = k /\ Len(b) = n - k
    BY <2>3, <2>4 DEF a, b
  <2>6. a \o <<s>> \o b \in Seq(T) /\ Len(a \o <<s>> \o b) = n + 1
    BY <1>1, <1>3, <2>2, <2>5
  <2>7. ASSUME NEW i \in 1..(n + 1)
        PROVE  (a \o <<s>> \o b)[i] = IF i <= k THEN a[i] ELSE IF i = k + 1 THEN s ELSE b[i - k - 1]
    BY <1>1, <1>3, <2>2, <2>5
  <2>8. ASSUME NEW i \in 1..(n + 1)
        PROVE  u[i] = IF i <= k THEN sorted[i] ELSE IF i = k + 1 THEN s ELSE sorted[i - 1]
    <3>1. i <= k => a[i] = sorted[i]
      BY <1>3, <2>3 DEF a
    <3>2. i > k + 1 => b[i - k - 1] = sorted[i - 1]
      <4>1. i > k + 1 => i - k - 1 \in 1..(n - k) /\ k + (i - k - 1) = i - 1
        BY <1>1, <1>3
      <4> QED BY <2>4, <4>1 DEF b
    <3>3. u[i] = (a \o <<s>> \o b)[i]
      BY <1>4 DEF a, b
    <3> HIDE DEF u
    <3>4. (a \o <<s>> \o b)[i] = IF i <= k THEN a[i] ELSE IF i = k + 1 THEN s ELSE b[i - k - 1]
      BY <2>7
    <3>5. i \in Int /\ k \in Int
      BY <1>1, <1>3
    <3> HIDE DEF n
    <3>6. CASE i <= k
      BY <3>1, <3>3, <3>4, <3>6
    <3>7. CASE i = k + 1
      <4>1. ~(i <= k)
        BY <3>5, <3>7
      <4> QED BY <3>3, <3>4, <3>7, <4>1
    <3>8. CASE i > k + 1
      <4>1. ~(i <= k) /\ i # k + 1
        BY <3>5, <3>8
      <4> QED BY <3>2, <3>3, <3>4, <3>8, <4>1
    <3> QED BY <3>5, <3>6, <3>7, <3>8
  <2>9. u = a \o <<s>> \o b
    BY <1>4 DEF a, b
  <2> HIDE DEF u
  <2> QED BY <2>6, <2>8, <2>9 DEF T
<1> HIDE DEF u
<1>7. u \in Seq(Range(u)) /\ DOMAIN u = 1..(n + 1)
  BY <1>1, <1>6 DEF Range
<1>8. Range(u) = Range(sorted) \union {s}
  <2>1. Range(u) \subseteq Range(sorted) \union {s}
    BY <1>6 DEF Range
  <2>2. s \in Range(u)
    <3>1. k + 1 \in 1..(n + 1) /\ u[k + 1] = s
      BY <1>1, <1>3, <1>6
    <3> QED BY <1>7, <3>1 DEF Range
  <2>3. ASSUME NEW i \in 1..n PROVE sorted[i] \in Range(u)
    <3>1. CASE i <= k
      <4>1. i \in 1..(n + 1) /\ u[i] = sorted[i]
        BY <1>1, <1>3, <1>6, <3>1
      <4> QED BY <1>7, <4>1 DEF Range
    <3>2. CASE ~(i <= k)
      <4>1. i + 1 \in 1..(n + 1) /\ ~(i + 1 <= k) /\ i + 1 # k + 1 /\ i + 1 - 1 = i
        BY <1>1, <1>3, <3>2
      <4>2. u[i + 1] = sorted[i]
        BY <1>6, <4>1
      <4> QED BY <1>7, <4>1, <4>2 DEF Range
    <3> QED BY <3>1, <3>2
  <2> QED BY <1>1, <2>1, <2>2, <2>3 DEF Range
<1>9. Ordered(u)
  <2> SUFFICES ASSUME NEW i \in 1..(n + 1), NEW j \in 1..(n + 1), i < j
               PROVE  u[i].atVirtualMs < u[j].atVirtualMs
    BY <1>7 DEF Ordered
  <2>1. CASE j <= k
    <3>1. u[i] = sorted[i] /\ u[j] = sorted[j] /\ i \in 1..n /\ j \in 1..n
      BY <1>1, <1>3, <1>6, <2>1
    <3> QED BY <1>2, <3>1
  <2>2. CASE j = k + 1
    <3>1. u[i] = sorted[i] /\ u[j] = s /\ i \in 1..n /\ i <= k
      BY <1>1, <1>3, <1>6, <2>2
    <3> QED BY <1>1, <1>5, <3>1
  <2>3. CASE j > k + 1
    <3>1. u[j] = sorted[j - 1] /\ j - 1 \in 1..n /\ ~(j - 1 <= k)
      BY <1>1, <1>3, <1>6, <2>3
    <3>2. at < sorted[j - 1].atVirtualMs
      BY <1>1, <1>5, <3>1
    <3>3. CASE i <= k
      <4>1. u[i] = sorted[i] /\ i \in 1..n /\ i < j - 1
        BY <1>1, <1>3, <1>6, <2>3, <3>3
      <4> QED BY <1>2, <3>1, <4>1
    <3>4. CASE i = k + 1
      <4>1. u[i] = s
        BY <1>1, <1>3, <1>6, <3>4
      <4> QED BY <3>1, <3>2, <4>1
    <3>5. CASE i > k + 1
      <4>1. u[i] = sorted[i - 1] /\ i - 1 \in 1..n /\ i - 1 < j - 1
        BY <1>1, <1>3, <1>6, <3>5
      <4> QED BY <1>2, <3>1, <4>1
    <3> QED BY <1>3, <3>3, <3>4, <3>5
  <2> QED BY <1>3, <2>1, <2>2, <2>3
<1> QED BY <1>7, <1>8, <1>9 DEF u

(* Sorting samples keeps them, in the order of their times. *)
LEMMA SortedKeeps ==
  ASSUME NEW now, NEW samples, SamplesOk(samples, now)
  PROVE  LET u == InOrderOfTime(samples) IN
         u \in Seq(Range(u)) /\ Range(u) = Range(samples) /\ Ordered(u)
<1> DEFINE n == Len(samples)
<1>1. n \in Nat /\ DOMAIN samples = 1..n /\ \A i \in 1..n : samples[i].atVirtualMs \in Nat
  BY DEF SamplesOk
<1>2. PICK f : f[0] = <<>> /\ (\A i \in 1..n : f[i] = Inserted(f[i - 1], samples[i])) /\ InOrderOfTime(samples) = f[n]
  BY <1>1, InsertInTurn
<1>3. \A i, j \in 1..n : samples[i].atVirtualMs = samples[j].atVirtualMs => i = j
  BY <1>1 DEF SamplesOk
<1> HIDE DEF n
<1> DEFINE first(i) == {samples[j] : j \in 1..i}
           Good(i) == f[i] \in Seq(Range(f[i])) /\ Range(f[i]) = first(i) /\ Ordered(f[i])
           good == {i \in 0..n : Good(i)}
<1>4. 0 \in good
  <2>1. <<>> \in Seq(Range(<<>>)) /\ Range(<<>>) = {} /\ Ordered(<<>>)
    BY DEF Range, Ordered
  <2>2. first(0) = {}
    OBVIOUS
  <2>3. Good(0)
    BY <1>2, <2>1, <2>2
  <2> HIDE DEF Good
  <2> QED BY <1>1, <2>3
<1>5. ASSUME NEW i \in 1..n, i - 1 \in good PROVE i \in good
  <2> DEFINE sorted == f[i - 1]
             s == samples[i]
  <2>0. Good(i - 1)
    <3> HIDE DEF Good
    <3> QED BY <1>5
  <2>1. sorted \in Seq(Range(sorted)) /\ Range(sorted) = first(i - 1) /\ Ordered(sorted) /\ f[i] = Inserted(sorted, s)
    BY <1>2, <2>0
  <2>2. ASSUME NEW l \in DOMAIN sorted PROVE sorted[l].atVirtualMs \in Nat /\ sorted[l].atVirtualMs # s.atVirtualMs
    <3>1. sorted[l] \in first(i - 1)
      BY <2>1 DEF Range
    <3>2. PICK j \in 1..(i - 1) : sorted[l] = samples[j]
      BY <3>1
    <3>3. j \in 1..n /\ j # i
      BY <1>1
    <3> QED BY <1>1, <1>3, <3>2, <3>3
  <2>3. s.atVirtualMs \in Nat
    BY <1>1
  <2>4. first(i) = first(i - 1) \union {s}
    <3>1. \A j : j \in 1..i <=> j \in 1..(i - 1) \/ j = i
      BY <1>1
    <3> QED BY <3>1
  <2> HIDE DEF sorted, first, s
  <2>5. f[i] \in Seq(Range(f[i])) /\ Range(f[i]) = Range(sorted) \union {s} /\ Ordered(f[i])
    BY <2>1, <2>2, <2>3, InsertedKeeps
  <2>6. Good(i)
    BY <2>1, <2>4, <2>5
  <2> HIDE DEF Good
  <2> QED BY <1>1, <2>6
<1> HIDE DEF good
<1>6. 0..n \subseteq good
  BY <1>1, <1>4, <1>5, Induction
<1>7. Good(n)
  <2>1. n \in good
    BY <1>1, <1>6
  <2> HIDE DEF Good
  <2> QED BY <2>1 DEF good
<1>8. first(n) = Range(samples)
  BY <1>1 DEF Range
<1> QED BY <1>2, <1>7, <1>8

LagFields == CommonFields \union {"samples", "partitions", "consumerCount", "drainEstimateMs"}

LagOk(s) ==
  /\ LagFields \subseteq DOMAIN s
  /\ s.virtualTimeMs \in Nat
  /\ SamplesOk(s.samples, s.virtualTimeMs) /\ Ordered(s.samples)
  /\ DOMAIN s.partitions = 1..3 /\ \A i \in 1..3 : s.partitions[i].partition = i - 1
  /\ LagAgrees(s)

(* The partitions that an experiment models, and their lag. *)
LEMMA ModeledPartitions ==
  ASSUME NEW recover \in BOOLEAN, NEW partitions, DOMAIN partitions = 1..3, Len(partitions) = 3,
         \A i \in 1..3 : partitions[i].partition = i - 1
  PROVE  LET u == Each(partitions, LAMBDA p : ModeledPartition(recover, p)) IN
         /\ DOMAIN u = 1..3 /\ \A i \in 1..3 : u[i].partition = i - 1
         /\ Total(Each(u, LAMBDA p : p.lag)) = IF recover THEN 0 ELSE 18
         /\ \A p \in Range(u) : p.lag = p.endOffset - p.committedOffset
<1> DEFINE u == Each(partitions, LAMBDA p : ModeledPartition(recover, p))
           row(i) == LagPartition(i - 1, EndOffsets[i], CommittedOffsets(recover)[i])
           lags == [i \in 1..3 |-> EndOffsets[i] - CommittedOffsets(recover)[i]]
<1>1. ASSUME NEW i \in 1..3 PROVE ModeledPartition(recover, partitions[i]) = row(i)
  <2>1. partitions[i].partition = i - 1 /\ i - 1 < 3 /\ i - 1 + 1 = i
    OBVIOUS
  <2> QED BY <2>1 DEF ModeledPartition
<1>2. u = [i \in 1..3 |-> row(i)]
  <2>1. u = [i \in 1..3 |-> ModeledPartition(recover, partitions[i])]
    BY DEF Each
  <2> HIDE DEF u, row
  <2> QED BY <1>1, <2>1
<1> HIDE DEF u
<1>3. \A i \in 1..3 : /\ u[i].partition = i - 1 /\ u[i].endOffset = EndOffsets[i]
                      /\ u[i].committedOffset = CommittedOffsets(recover)[i]
                      /\ u[i].lag = EndOffsets[i] - CommittedOffsets(recover)[i]
  BY <1>2 DEF LagPartition
<1>4. DOMAIN u = 1..3 /\ Len(u) = 3
  BY <1>2
<1>5. Each(u, LAMBDA p : p.lag) = lags
  BY <1>3, <1>4 DEF Each
<1>6. \A p \in Range(u) : p.lag = p.endOffset - p.committedOffset
  BY <1>3, <1>4 DEF Range
<1>7. lags[1] = (IF recover THEN 0 ELSE 7) /\ lags[2] = (IF recover THEN 0 ELSE 5) /\ lags[3] = (IF recover THEN 0 ELSE 6)
  BY DEF EndOffsets, CommittedOffsets
<1>8. Total(lags) = IF recover THEN 0 ELSE 18
  <2> DEFINE n == 3
  <2>1. n \in Nat /\ Len(lags) = n
    OBVIOUS
  <2> HIDE DEF n, lags
  <2>2. PICK f : f[0] = 0 /\ (\A i \in 1..n : f[i] = f[i - 1] + lags[i]) /\ Total(lags) = f[n]
    BY <2>1, TotalInTurn
  <2>3. f[1] = f[0] + lags[1] /\ f[2] = f[1] + lags[2] /\ f[3] = f[2] + lags[3] /\ Total(lags) = f[3]
    BY <2>2 DEF n
  <2>4. CASE recover
    BY <1>7, <2>2, <2>3, <2>4
  <2>5. CASE ~recover
    BY <1>7, <2>2, <2>3, <2>5
  <2> QED BY <2>4, <2>5
<1> QED BY <1>3, <1>4, <1>5, <1>6, <1>8 DEF u

\* The last of the new samples.
LastSample(recover, now) == Samples(recover, now)[IF recover THEN 2 ELSE 1]

(* The new samples, at the times of the transitions. *)
LEMMA LagSamples ==
  ASSUME NEW now \in Nat, NEW samples, SamplesOk(samples, now), NEW recover \in BOOLEAN,
         NEW later, later = IF recover THEN now + 5100 ELSE now + 5000
  PROVE  LET u == upsertAll(samples, Samples(recover, now))
             last == LastSample(recover, now)
         IN  /\ SamplesOk(u, later) /\ last \in Range(u) /\ last.atVirtualMs = later
             /\ last.lag = IF recover THEN 0 ELSE 18
             /\ \A x \in Range(u) \ Range(samples) :
                  x.atVirtualMs = later \/ (recover /\ x.atVirtualMs = now + 100)
<1> DEFINE items == Samples(recover, now)
           u == upsertAll(samples, items)
<1>1. CASE recover
  <2> DEFINE a == items[1]
             b == items[2]
  <2>1. items = <<a, b>> /\ LastSample(recover, now) = b
    BY <1>1 DEF Samples, LastSample
  <2>2. a.atVirtualMs = now + 100 /\ b.atVirtualMs = now + 5100 /\ b.lag = 0
    BY <1>1 DEF Samples, sample
  <2> HIDE DEF a, b, items
  <2>4. u = upsertById(upsertById(samples, a), b)
    BY <2>1, UpsertTwo
  <2> DEFINE v == upsertById(samples, a)
  <2> HIDE DEF u, v
  <2>5. SamplesOk(v, now + 100) /\ Range(v) \subseteq Range(samples) \union {a}
    <3>1. a.atVirtualMs \in Nat /\ now < a.atVirtualMs
      BY <2>2
    <3>2. SamplesOk(v, a.atVirtualMs) /\ Range(v) \subseteq Range(samples) \union {a}
      BY <3>1, UpsertLater DEF v
    <3> QED BY <2>2, <3>2
  <2>6. SamplesOk(u, now + 5100) /\ b \in Range(u) /\ Range(u) \subseteq Range(v) \union {b}
    <3> DEFINE then == now + 100
    <3>1. b.atVirtualMs \in Nat /\ then \in Nat /\ then < b.atVirtualMs /\ SamplesOk(v, then)
      BY <2>2, <2>5
    <3> HIDE DEF then
    <3>2. SamplesOk(u, b.atVirtualMs) /\ b \in Range(u) /\ Range(u) \subseteq Range(v) \union {b}
      BY <2>4, <3>1, UpsertLater DEF v
    <3> QED BY <2>2, <3>2
  <2>7. \A x \in Range(u) \ Range(samples) : x = a \/ x = b
    BY <2>5, <2>6
  <2>8. later = now + 5100
    BY <1>1
  <2>9. ASSUME NEW x \in Range(u) \ Range(samples) PROVE x.atVirtualMs = later \/ (recover /\ x.atVirtualMs = now + 100)
    BY <1>1, <2>2, <2>7, <2>8
  <2>10. b.atVirtualMs = later /\ b.lag = IF recover THEN 0 ELSE 18
    BY <1>1, <2>2, <2>8
  <2>11. SamplesOk(u, later)
    BY <2>6, <2>8
  <2> QED BY <2>1, <2>6, <2>9, <2>10, <2>11 DEF items, u
<1>2. CASE ~recover
  <2> DEFINE a == items[1]
  <2>1. items = <<a>> /\ LastSample(recover, now) = a
    BY <1>2 DEF Samples, LastSample
  <2>2. a.atVirtualMs = now + 5000 /\ a.lag = 18
    BY <1>2 DEF Samples, sample
  <2> HIDE DEF a, items
  <2>4. u = upsertById(samples, a)
    BY <2>1, UpsertOne
  <2> HIDE DEF u
  <2>5. SamplesOk(u, now + 5000) /\ a \in Range(u) /\ Range(u) \subseteq Range(samples) \union {a}
    <3>1. a.atVirtualMs \in Nat /\ now < a.atVirtualMs
      BY <2>2
    <3>2. SamplesOk(u, a.atVirtualMs) /\ a \in Range(u) /\ Range(u) \subseteq Range(samples) \union {a}
      BY <2>4, <3>1, UpsertLater
    <3> QED BY <2>2, <3>2
  <2>6. \A x \in Range(u) \ Range(samples) : x = a
    BY <2>5
  <2> QED BY <1>2, <2>1, <2>2, <2>5, <2>6 DEF items, u
<1> QED BY <1>1, <1>2

LEMMA LagStep ==
  ASSUME NEW s, LagOk(s), NEW e
  PROVE  LET result == buildConsumerLagExperiment(s, e, s.virtualTimeMs) IN
         /\ LagOk(result.state)
         /\ \A x \in Fresh(result.state.samples, s.samples) :
              x.atVirtualMs \in TimesFrom(s.virtualTimeMs, result.transitions)
<1> DEFINE now == s.virtualTimeMs
           recover == e = "recover-lag"
           ids == Each(s.partitions, LAMBDA p : p.id)
           added == upsertAll(s.samples, Samples(recover, now))
           sorted == InOrderOfTime(added)
           partitions == Each(s.partitions, LAMBDA p : ModeledPartition(recover, p))
           scale == step("scale", "capacity.increased", <<"lag-sample-1", "consumer-2", "consumer-3">> \o ids, 100)
           drain == step("recover", "lag.decreased", <<"lag-sample-2", "consumer-group">> \o ids, 5000)
           build == step("build", "lag.increased", <<"lag-sample-0", "consumer-group">> \o ids, 5000)
           ts == IF recover THEN <<scale, drain>> ELSE <<build>>
           built == [s EXCEPT !.samples = sorted, !.partitions = partitions,
                              !.consumerCount = IF recover THEN 3 ELSE 1,
                              !.drainEstimateMs = IF recover THEN 0 ELSE 9000]
           result == Result(built, e, now, ts)
           t == result.state
           later == IF recover THEN now + 5100 ELSE now + 5000
           last == LastSample(recover, now)
<1>1. result = buildConsumerLagExperiment(s, e, now)
  BY DEF buildConsumerLagExperiment
<1>2. now \in Nat /\ SamplesOk(s.samples, now) /\ recover \in BOOLEAN
      /\ DOMAIN s.partitions = 1..3 /\ Len(s.partitions) = 3
      /\ \A i \in 1..3 : s.partitions[i].partition = i - 1
  BY DEF LagOk
<1>3. scale.advanceMs = 100 /\ drain.advanceMs = 5000 /\ build.advanceMs = 5000
  BY DEF step
<1> HIDE DEF scale, drain, build, added, sorted, partitions, last
<1>4. /\ SamplesOk(added, later) /\ last \in Range(added) /\ last.atVirtualMs = later
      /\ last.lag = IF recover THEN 0 ELSE 18
      /\ \A x \in Range(added) \ Range(s.samples) : x.atVirtualMs = later \/ (recover /\ x.atVirtualMs = now + 100)
  <2>1. later = IF recover THEN now + 5100 ELSE now + 5000
    OBVIOUS
  <2> HIDE DEF now, recover, later
  <2> QED BY <1>2, <2>1, LagSamples DEF added, last
<1>5. sorted \in Seq(Range(sorted)) /\ Range(sorted) = Range(added) /\ Ordered(sorted)
  <2> HIDE DEF later
  <2> QED BY <1>4, SortedKeeps DEF sorted
<1>6. /\ DOMAIN partitions = 1..3 /\ \A i \in 1..3 : partitions[i].partition = i - 1
      /\ Total(Each(partitions, LAMBDA p : p.lag)) = IF recover THEN 0 ELSE 18
      /\ \A p \in Range(partitions) : p.lag = p.endOffset - p.committedOffset
  <2> HIDE DEF recover
  <2> QED BY <1>2, ModeledPartitions DEF partitions
<1>7. Elapsed(ts) = (IF recover THEN 5100 ELSE 5000)
      /\ later \in TimesFrom(now, ts) /\ (recover => now + 100 \in TimesFrom(now, ts))
  <2>1. CASE recover
    <3> DEFINE n == 2
    <3>1. ts \in Seq(Range(ts)) /\ DOMAIN ts = 1..2 /\ ts[1] = scale /\ ts[2] = drain
      BY <2>1 DEF Range
    <3> HIDE DEF ts
    <3>2. n \in Nat /\ n # 0 /\ Len(ts) = n /\ \A i \in 1..n : ts[i].advanceMs \in Int
      BY <1>3, <3>1
    <3> HIDE DEF n
    <3>3. /\ Elapsed(ts) = Advance(ts, n) /\ Advance(ts, 1) = ts[1].advanceMs
          /\ \A i \in 2..n : Advance(ts, i) = Advance(ts, i - 1) + ts[i].advanceMs
      BY <3>1, <3>2, AdvanceIs
    <3>4. Advance(ts, 1) = 100
      BY <1>3, <3>1, <3>3
    <3>5. Advance(ts, 2) = 5100 /\ Elapsed(ts) = 5100
      BY <1>3, <3>1, <3>3, <3>4 DEF n
    <3>6. \A i \in 1..2 : now + Advance(ts, i) \in TimesFrom(now, ts)
      BY <3>1 DEF TimesFrom
    <3> HIDE DEF now
    <3> QED BY <2>1, <3>4, <3>5, <3>6
  <2>2. CASE ~recover
    <3> DEFINE n == 1
    <3>1. ts \in Seq(Range(ts)) /\ DOMAIN ts = 1..1 /\ ts[1] = build
      BY <2>2 DEF Range
    <3> HIDE DEF ts
    <3>2. n \in Nat /\ n # 0 /\ Len(ts) = n /\ \A i \in 1..n : ts[i].advanceMs \in Int
      BY <1>3, <3>1
    <3> HIDE DEF n
    <3>3. Elapsed(ts) = Advance(ts, n) /\ Advance(ts, 1) = ts[1].advanceMs
      BY <3>1, <3>2, AdvanceIs
    <3>4. Advance(ts, 1) = 5000 /\ Elapsed(ts) = 5000
      BY <1>3, <3>1, <3>3 DEF n
    <3>5. now + Advance(ts, 1) \in TimesFrom(now, ts)
      BY <3>1 DEF TimesFrom
    <3> HIDE DEF now
    <3> QED BY <2>2, <3>4, <3>5
  <2> QED BY <2>1, <2>2
<1> HIDE DEF ts
<1>8. DOMAIN built = DOMAIN s /\ built.samples = sorted /\ built.partitions = partitions
  BY DEF LagOk, LagFields
<1> HIDE DEF built
<1>9. /\ DOMAIN t = DOMAIN s /\ t.samples = sorted /\ t.partitions = partitions /\ t.virtualTimeMs = later
      /\ result.transitions = ts
  <2>1. t.virtualTimeMs = now + Elapsed(ts) /\ DOMAIN t = DOMAIN built /\ t.samples = built.samples
        /\ t.partitions = built.partitions /\ result.transitions = ts
    BY <1>8, ResultIs DEF LagOk, LagFields, CommonFields
  <2> QED BY <1>7, <1>8, <2>1
<1> HIDE DEF result
<1>10. SamplesOk(sorted, later)
  <2>1. ASSUME NEW i \in DOMAIN sorted PROVE sorted[i].atVirtualMs \in Nat /\ sorted[i].atVirtualMs <= later
    <3>1. sorted[i] \in Range(added)
      BY <1>5 DEF Range
    <3> QED BY <1>4, <3>1 DEF SamplesOk, Range
  <2>2. ASSUME NEW i \in DOMAIN sorted, NEW j \in DOMAIN sorted, sorted[i].atVirtualMs = sorted[j].atVirtualMs PROVE i = j
    <3>1. i \in Int /\ j \in Int
      BY <1>5
    <3>2. (i < j => sorted[i].atVirtualMs < sorted[j].atVirtualMs) /\ (j < i => sorted[j].atVirtualMs < sorted[i].atVirtualMs)
      BY <1>5 DEF Ordered
    <3> QED BY <2>1, <2>2, <3>1, <3>2
  <2> QED BY <1>5, <2>1, <2>2 DEF SamplesOk
<1>11. Last(sorted) = last
  <2> DEFINE n == Len(sorted)
  <2>1. n \in Nat /\ DOMAIN sorted = 1..n
    BY <1>5
  <2>2. PICK k \in 1..n : sorted[k] = last
    <3>1. last \in Range(sorted)
      BY <1>4, <1>5
    <3> HIDE DEF n
    <3> QED BY <2>1, <3>1 DEF Range
  <2>3. n \in 1..n
    BY <2>1
  <2>4. CASE k < n
    <3>1. sorted[k].atVirtualMs < sorted[n].atVirtualMs
      BY <1>5, <2>1, <2>3, <2>4 DEF Ordered
    <3>2. sorted[n].atVirtualMs <= later /\ sorted[n].atVirtualMs \in Nat
      BY <1>10, <2>1, <2>3 DEF SamplesOk
    <3>3. later \in Nat
      BY <1>2
    <3> HIDE DEF later
    <3> QED BY <1>4, <2>2, <3>1, <3>2, <3>3
  <2> QED BY <2>1, <2>2, <2>4 DEF Last
<1>12. LagAgrees(t)
  <2>1. Increasing(Each(sorted, LAMBDA x : x.atVirtualMs))
    BY <1>5 DEF Increasing, Each, Ordered
  <2>2. Last(sorted).lag = Total(Each(partitions, LAMBDA p : p.lag))
    BY <1>4, <1>6, <1>11
  <2> QED BY <1>6, <1>9, <2>1, <2>2 DEF LagAgrees
<1>13. LagOk(t)
  <2>1. later \in Nat
    BY <1>2
  <2> HIDE DEF later
  <2> QED BY <1>5, <1>6, <1>9, <1>10, <1>12, <2>1 DEF LagOk
<1>14. \A x \in Fresh(t.samples, s.samples) : x.atVirtualMs \in TimesFrom(now, result.transitions)
  BY <1>4, <1>5, <1>7, <1>9 DEF Fresh
<1> QED BY <1>1, <1>13, <1>14

-----------------------------------------------------------------------------
(* scenario-experiments.ts *)

\* A state of the same scenario with the same fields.
Alike(s, t) == DOMAIN t = DOMAIN s /\ t.scenarioId = s.scenarioId

LEMMA ResultIsAlike ==
  ASSUME NEW s, CommonFields \subseteq DOMAIN s, NEW built, Alike(s, built), NEW e, NEW at, NEW ts
  PROVE  Alike(s, Result(built, e, at, ts).state)
BY ResultIs DEF Alike, CommonFields

(* An experiment leaves a state of the same scenario. *)
LEMMA BuiltIsAlike ==
  ASSUME NEW s, CommonFields \subseteq DOMAIN s, NEW e, NEW observations
  PROVE  Alike(s, Built(s, e, observations).state)
<1> DEFINE at == s.virtualTimeMs
           t == Built(s, e, observations).state
<1>1. CASE s.scenarioId = "partitioning"
  <2> DEFINE growGroup == e = "grow-consumer-group"
             seen == IF observations = {} THEN FallbackPartitioning(s, growGroup) ELSE The(observations)
             built == [s EXCEPT !.routingTraces = seen.routingTraces, !.partitionPositions = seen.partitionPositions,
                                !.consumers = seen.consumers, !.assignmentEpoch = seen.assignmentEpoch]
             ts == PartitioningTransitions(growGroup, seen)
  <2>1. t = Result(built, e, at, ts).state
    BY <1>1 DEF Built, buildPartitioningExperiment
  <2> HIDE DEF seen, ts, t
  <2>2. Alike(s, built)
    BY DEF Alike
  <2> HIDE DEF built
  <2> QED BY <2>1, <2>2, ResultIsAlike DEF t
<1>2. CASE s.scenarioId = "fan-out-load-balancing"
  <2> DEFINE seen(field) == IF observations = {} THEN <<>> ELSE The(observations)[field]
             routes == IF seen("routes") = <<>> THEN FallbackRoutes ELSE seen("routes")
             epochs == IF seen("epochs") # <<>> THEN seen("epochs")
                       ELSE IF s.epochs # <<>> THEN s.epochs ELSE FallbackEpochs
             built == [s EXCEPT !.epochs = epochs]
             burst == UnkeyedBurst(routes)
             balance == <<step("balance-settings", "producer.settings_changed", <<"producer">>, 100)>>
  <2>1. \/ t = Result(s, e, at, burst).state
        \/ t = Result(s, e, at, balance).state
        \/ t = Result(built, e, at, GrowingGroup).state
    BY <1>2 DEF Built, buildLoadBalancingExperiment
  <2> HIDE DEF epochs, burst, balance, t
  <2>2. Alike(s, built) /\ Alike(s, s)
    BY DEF Alike
  <2> HIDE DEF built
  <2> QED BY <2>1, <2>2, ResultIsAlike DEF t
<1>3. CASE s.scenarioId = "at-least-once-duplicates"
  <2> DEFINE redeliver == e = "crash-and-redeliver"
             again == \E d \in Range(s.deliveries) : d.attempt > 1
             attempts == IF redeliver \/ again THEN 2 ELSE 1
             deliveries == [a \in 1..attempts |-> delivery(a)]
             effects == <<Ledger(attempts)>>
             built == [s EXCEPT !.deliveries = deliveries, !.sideEffects = effects]
             ts == IF redeliver THEN CrashAndRedeliver ELSE IF again THEN CompareHandlers ELSE HoldCommit
  <2>1. t = Result(built, e, at, ts).state
    BY <1>3 DEF Built, buildAtLeastOnceExperiment
  <2> HIDE DEF deliveries, effects, ts, t
  <2>2. Alike(s, built)
    BY DEF Alike
  <2> HIDE DEF built
  <2> QED BY <2>1, <2>2, ResultIsAlike DEF t
<1>4. CASE s.scenarioId = "retry-dead-letter-queues"
  <2> DEFINE transient == e = "transient-recovery"
             record == IF transient THEN TransientRecord(at) ELSE PoisonRecord(at)
             ts == IF transient THEN TransientSteps ELSE PoisonSteps
             built == [s EXCEPT !.records = upsertById(s.records, record)]
  <2>1. t = Result(built, e, at, ts).state
    BY <1>4 DEF Built, buildRetryDeadLetterExperiment
  <2> HIDE DEF record, ts, t
  <2>2. Alike(s, built)
    BY DEF Alike
  <2> HIDE DEF built
  <2> QED BY <2>1, <2>2, ResultIsAlike DEF t
<1>5. CASE s.scenarioId = "schema-evolution-karapace"
  <2> DEFINE accepted == [SchemaAttempt(2, TRUE) EXCEPT !.id = "schema-attempt-v2"]
             rejected == [SchemaAttempt(3, FALSE) EXCEPT !.id = "schema-attempt-v3"]
             b1 == [s EXCEPT !.activeVersion = 2, !.topicRecordCount = s.topicRecordCount + 1,
                             !.attempts = upsertById(s.attempts, accepted)]
             b2 == [s EXCEPT !.attempts = upsertById(s.attempts, rejected)]
             r1 == Result(b1, e, at, SchemaSteps("v2", "accept")).state
             r2 == Result(b2, e, at, SchemaSteps("v3", "reject")).state
  <2>1. t = IF e = "compatible-schema" THEN r1 ELSE r2
    BY <1>5 DEF Built, buildSchemaEvolutionExperiment
  <2> HIDE DEF accepted, rejected, t
  <2>2. Alike(s, b1) /\ Alike(s, b2)
    BY DEF Alike
  <2> HIDE DEF b1, b2
  <2> QED BY <2>1, <2>2, ResultIsAlike DEF t
<1>6. CASE s.scenarioId = "transactional-producers"
  <2> DEFINE b1 == [s EXCEPT !.transactions = upsertAll(s.transactions, ContrastedTransactions)]
             b2 == [s EXCEPT !.transactions = upsertById(s.transactions, CommittedTransaction)]
             ts1 == <<step("abort", "transaction.aborted", <<"transaction-row-txn-2", "txn-2", "txn-2-record-1">>, 100),
                      step("dedupe", "producer.deduplicated",
                           <<"transaction-row-txn-3", "txn-3", "txn-3-record-1">>, 100)>>
             ts2 == <<step("stage", "transaction.staged",
                           <<"transaction-row-txn-1", "txn-1-record-1", "txn-1-record-2">>, 100),
                      step("commit", "transaction.committed", <<"transaction-row-txn-1", "txn-1">>, 100)>>
  <2>1. t = IF e = "abort-and-dedupe" THEN Result(b1, e, at, ts1).state ELSE Result(b2, e, at, ts2).state
    BY <1>6 DEF Built, buildTransactionalProducerExperiment
  <2> HIDE DEF ts1, ts2, t
  <2>2. Alike(s, b1) /\ Alike(s, b2)
    BY DEF Alike
  <2> HIDE DEF b1, b2
  <2> QED BY <2>1, <2>2, ResultIsAlike DEF t
<1>7. CASE s.scenarioId = "event-replay-sourcing"
  <2> DEFINE rebuild == e = "rebuild-projection"
             log == IF rebuild THEN s.log ELSE s.log \o AppendedEvents(Len(s.log))
             ts == IF rebuild THEN RebuildSteps(s.log) ELSE AppendSteps(Len(s.log))
             cursor == IF log = <<>> THEN Null ELSE Last(log).offset
             count == IF rebuild THEN s.producedCount ELSE s.producedCount + 3
             built == [s EXCEPT !.log = log, !.cursor = cursor, !.projection = projectReplayLog(log),
                                !.rebuildInProgress = FALSE, !.producedCount = count]
  <2>1. t = Result(built, e, at, ts).state
    BY <1>7 DEF Built, buildEventReplayExperiment
  <2> HIDE DEF log, ts, cursor, count, t
  <2>2. Alike(s, built)
    BY DEF Alike
  <2> HIDE DEF built
  <2> QED BY <2>1, <2>2, ResultIsAlike DEF t
<1>8. CASE s.scenarioId = "consumer-lag-backpressure"
  <2> DEFINE recover == e = "recover-lag"
             ids == Each(s.partitions, LAMBDA p : p.id)
             sorted == InOrderOfTime(upsertAll(s.samples, Samples(recover, at)))
             partitions == Each(s.partitions, LAMBDA p : ModeledPartition(recover, p))
             count == IF recover THEN 3 ELSE 1
             estimate == IF recover THEN 0 ELSE 9000
             ts == IF recover
                   THEN <<step("scale", "capacity.increased", <<"lag-sample-1", "consumer-2", "consumer-3">> \o ids, 100),
                          step("recover", "lag.decreased", <<"lag-sample-2", "consumer-group">> \o ids, 5000)>>
                   ELSE <<step("build", "lag.increased", <<"lag-sample-0", "consumer-group">> \o ids, 5000)>>
             built == [s EXCEPT !.samples = sorted, !.partitions = partitions, !.consumerCount = count,
                                !.drainEstimateMs = estimate]
  <2>1. t = Result(built, e, at, ts).state
    BY <1>8 DEF Built, buildConsumerLagExperiment
  <2> HIDE DEF sorted, partitions, count, estimate, ts, t
  <2>2. Alike(s, built)
    BY DEF Alike
  <2> HIDE DEF built
  <2> QED BY <2>1, <2>2, ResultIsAlike DEF t
<1>9. CASE s.scenarioId = "hot-partitions-key-skew"
  <2> DEFINE b1 == [s EXCEPT !.phases = upsertById(s.phases, BalancedPhase)]
             b2 == [s EXCEPT !.phases = upsertById(s.phases, HotPhase)]
             ts1 == <<step("balanced", "phase.completed", <<"phase-balanced">>, 100),
                      step("compare", "skew.compared", <<"phase-hot", "phase-balanced">>, 100)>>
             ts2 == <<step("hot", "phase.completed", <<"phase-hot">>, 100)>>
  <2>1. t = IF e = "balanced-comparison" THEN Result(b1, e, at, ts1).state ELSE Result(b2, e, at, ts2).state
    BY <1>9 DEF Built, buildHotPartitionExperiment
  <2> HIDE DEF ts1, ts2, t
  <2>2. Alike(s, b1) /\ Alike(s, b2)
    BY DEF Alike
  <2> HIDE DEF b1, b2
  <2> QED BY <2>1, <2>2, ResultIsAlike DEF t
<1>10. CASE s.scenarioId = "log-compaction-tombstones"
  <2> DEFINE append == e = "compacted-key-series"
             compact == e = "run-compaction"
             ts == CompactionSteps(s, e)
             pass == PassOf(compact, at + Elapsed(ts))
             sourceLog == IF s.rawLog = <<>> THEN AppendedLog ELSE s.rawLog
             raw == IF append THEN AppendedLog ELSE Cleaned(sourceLog, pass)
             materialized == IF append \/ compact THEN <<MaterializedA, MaterializedB>> ELSE <<MaterializedA>>
             passes == IF append THEN s.cleanerPasses ELSE upsertById(s.cleanerPasses, pass)
             built == [s EXCEPT !.rawLog = raw, !.materialized = materialized, !.cleanerPasses = passes]
  <2>1. t = Result(built, e, at, ts).state
    BY <1>10 DEF Built, buildLogCompactionExperiment
  <2> HIDE DEF raw, materialized, passes, ts, t
  <2>2. Alike(s, built)
    BY DEF Alike
  <2> HIDE DEF built
  <2> QED BY <2>1, <2>2, ResultIsAlike DEF t
<1>11. CASE s.scenarioId = "retention-data-loss"
  <2> DEFINE ts == RetentionSteps(s, e)
             filled == FilledWindow(s)
             b1 == [filled EXCEPT !.committedOffset = 1, !.error = Null, !.lastOffsetOutOfRange = Null]
             b2 == AdvanceRetention(filled, at + Elapsed(ts))
             b3 == [filled EXCEPT !.committedOffset = filled.logStartOffset, !.error = Null]
             built == CASE e = "retention-window" -> b1 [] e = "advance-retention" -> b2 [] OTHER -> b3
  <2>1. t = Result(built, e, at, ts).state
    BY <1>11 DEF Built, buildRetentionExperiment
  <2> HIDE DEF ts, t
  <2>2. Alike(s, filled)
    BY DEF Alike, FilledWindow
  <2> HIDE DEF filled
  <2>3. Alike(s, b1) /\ Alike(s, b3)
    BY <2>2 DEF Alike
  <2>4. Alike(s, b2)
    <3> DEFINE done == at + Elapsed(ts)
               cutoff == Max({0, done - filled.retentionMs})
               records == Each(filled.records, LAMBDA r : [r EXCEPT !.expired = r.createdAtVirtualMs < cutoff])
               error == OffsetOutOfRange(filled.committedOffset)
               b == [filled EXCEPT !.records = records, !.cutoffVirtualMs = cutoff, !.logStartOffset = LogStart(records),
                                   !.error = error, !.lastOffsetOutOfRange = error]
    <3>1. b2 = b
      BY DEF AdvanceRetention
    <3> HIDE DEF records, error, cutoff, b2
    <3> QED BY <2>2, <3>1 DEF Alike
  <2> HIDE DEF b1, b2, b3
  <2>5. Alike(s, built)
    BY <2>3, <2>4
  <2> HIDE DEF built
  <2> QED BY <2>1, <2>5, ResultIsAlike DEF t
<1>12. CASE s.scenarioId = "cooperative-rebalancing"
  <2> DEFINE pressure == e = "cooperative-pressure"
             name(id) == IF pressure THEN id \o "-pressure" ELSE id
             built == [s EXCEPT !.comparisons =
                         upsertAll(s.comparisons, <<EagerComparison(pressure), StickyComparison(pressure)>>)]
             ts == <<step(name("eager"), "rebalance.eager", <<"eager-comparison">>, 100),
                     step(name("sticky"), "rebalance.cooperative", <<"sticky-comparison">>, 100),
                     step(name("compare"), "rebalance.compared", <<"eager-comparison", "sticky-comparison">>, 100)>>
  <2>1. t = Result(built, e, at, ts).state
    BY <1>12 DEF Built, buildCooperativeRebalancingExperiment
  <2> HIDE DEF ts, t
  <2>2. Alike(s, built)
    BY DEF Alike
  <2> HIDE DEF built
  <2> QED BY <2>1, <2>2, ResultIsAlike DEF t
<1>13. CASE s.scenarioId = "streams-joins-windows"
  <2> DEFINE closed == <<Window(TRUE)>>
             open == <<Window(FALSE)>>
             late == <<"payment-99">>
             joins == <<Join42>>
             b1 == [s EXCEPT !.inputs = upsertById(s.inputs, LateInput), !.windows = closed, !.lateRecords = late]
             b2 == [s EXCEPT !.inputs = upsertAll(s.inputs, BaseInputs), !.windows = open, !.joins = joins]
             ts1 == <<step("late", "window.record_late",
                           <<"stream-input-payment-99", "payment-99", "window-state-0">>, 6000)>>
             ts2 == <<step("order", "window.record_buffered",
                           <<"stream-input-order-42", "order-42", "window-state-0">>, 100),
                      step("payment", "window.join_emitted",
                           <<"stream-input-payment-42", "join-row-42", "join-42", "window-state-0">>, 100),
                      step("unmatched", "window.record_unmatched",
                           <<"stream-input-order-99", "order-99", "window-state-0">>, 100)>>
  <2>1. t = IF e = "late-arrival" THEN Result(b1, e, at, ts1).state ELSE Result(b2, e, at, ts2).state
    BY <1>13 DEF Built, buildStreamsJoinExperiment
  <2> HIDE DEF closed, open, late, joins, ts1, ts2, t
  <2>2. Alike(s, b1) /\ Alike(s, b2)
    BY DEF Alike
  <2> HIDE DEF b1, b2
  <2> QED BY <2>1, <2>2, ResultIsAlike DEF t
<1>14. CASE s.scenarioId = "outbox-cdc"
  <2> DEFINE ledger == <<DedupeEntry>>
             transactions1 == <<DbTransaction>>
             wal == <<WalRow>>
             b1 == [s EXCEPT !.connectorAttempts = upsertById(s.connectorAttempts, ConnectorAttempt(2, "retried")),
                             !.dedupeLedger = ledger]
             b2 == [s EXCEPT !.dbTransactions = transactions1, !.wal = wal,
                             !.connectorAttempts = upsertById(s.connectorAttempts, ConnectorAttempt(1, "published")),
                             !.publishes = upsertById(s.publishes, FirstPublish)]
             ts1 == <<step("retry", "cdc.retry_deduplicated",
                           <<"connector-row-2", "cdc-attempt-2", "publish-row-1", "dedupe-outbox-order-1">>, 100)>>
             ts2 == <<step("db", "database.transaction_committed",
                           <<"db-transaction-row-1", "db-txn-1", "business-order-1", "outbox-order-1">>, 100),
                      step("wal", "wal.recorded", <<"wal-row-100", "wal-100", "connector-row-1">>, 100),
                      step("publish", "kafka.publish_acknowledged",
                           <<"publish-row-1", "cdc-message-1", "connector-row-1">>, 100)>>
  <2>1. t = IF e = "retry-cdc" THEN Result(b1, e, at, ts1).state ELSE Result(b2, e, at, ts2).state
    BY <1>14 DEF Built, buildOutboxCdcExperiment
  <2> HIDE DEF ledger, transactions1, wal, ts1, ts2, t
  <2>2. Alike(s, b1) /\ Alike(s, b2)
    BY DEF Alike
  <2> HIDE DEF b1, b2
  <2> QED BY <2>1, <2>2, ResultIsAlike DEF t
<1>15. CASE s.scenarioId \notin {"partitioning", "fan-out-load-balancing", "at-least-once-duplicates",
                                 "retry-dead-letter-queues", "schema-evolution-karapace", "transactional-producers",
                                 "event-replay-sourcing", "consumer-lag-backpressure", "hot-partitions-key-skew",
                                 "log-compaction-tombstones", "retention-data-loss", "cooperative-rebalancing",
                                 "streams-joins-windows", "outbox-cdc"}
  <2> DEFINE b1 == [s EXCEPT !.policies = upsertById(s.policies, WritePolicy),
                             !.attempts = upsertById(s.attempts, AclAttempt("acl-attempt-2", WritePolicy.id)),
                             !.lastHighlightedCell = HighlightedCell]
             b2 == [s EXCEPT !.attempts = upsertById(s.attempts, AclAttempt("acl-attempt-1", Null)),
                             !.lastHighlightedCell = HighlightedCell]
             ts1 == <<step("grant", "acl.granted", <<"policy-orders-write">>, 100),
                      step("retry", "acl.allowed", <<"acl-attempt-2">>, 100)>>
             ts2 == <<step("evaluate", "acl.evaluated", <<"acl-attempt-1", "acl-cell-write">>, 100),
                      step("deny", "acl.denied", <<"acl-attempt-1">>, 100)>>
  <2>1. t = IF e = "grant-required-permission" THEN Result(b1, e, at, ts1).state ELSE Result(b2, e, at, ts2).state
    BY <1>15 DEF Built, buildAclExperiment
  <2> HIDE DEF ts1, ts2, t
  <2>2. Alike(s, b1) /\ Alike(s, b2)
    BY DEF Alike
  <2> HIDE DEF b1, b2
  <2> QED BY <2>1, <2>2, ResultIsAlike DEF t
<1> QED BY <1>1, <1>2, <1>3, <1>4, <1>5, <1>6, <1>7, <1>8, <1>9, <1>10, <1>11, <1>12, <1>13, <1>14, <1>15

-----------------------------------------------------------------------------
(* event-replay-sourcing *)

\* The partial sums of what the events add to an aggregate.
SumsOf(a, log) ==
  CHOOSE f : /\ f[0] = 0 /\ \A i \in 1..Len(log) : f[i] = f[i - 1] + DeltasOf(a, log)[i]
             /\ Total(DeltasOf(a, log)) = f[Len(log)]

LEMMA SumsAre ==
  ASSUME NEW log, log \in Seq(Range(log)), \A i \in DOMAIN log : log[i].delta \in Int, NEW a
  PROVE  LET f == SumsOf(a, log) IN
         /\ f[0] = 0
         /\ \A i \in 1..Len(log) : f[i] = f[i - 1] + (IF log[i].aggregateId = a THEN log[i].delta ELSE 0)
         /\ Total(DeltasOf(a, log)) = f[Len(log)]
<1> DEFINE n == Len(log)
           deltas == DeltasOf(a, log)
           Sums(f) == f[0] = 0 /\ (\A i \in 1..n : f[i] = f[i - 1] + deltas[i]) /\ Total(deltas) = f[n]
<1>1. n \in Nat /\ DOMAIN log = 1..n
  OBVIOUS
<1>2. deltas = [i \in 1..n |-> IF log[i].aggregateId = a THEN log[i].delta ELSE 0]
  BY DEF DeltasOf, Each
<1>3. Len(deltas) = n /\ \A i \in 1..n : deltas[i] = IF log[i].aggregateId = a THEN log[i].delta ELSE 0
  BY <1>1, <1>2
<1> HIDE DEF deltas
<1>4. \E f : Sums(f)
  <2> HIDE DEF n
  <2> QED BY <1>1, <1>3, TotalInTurn
<1>5. Sums(SumsOf(a, log))
  <2>1. SumsOf(a, log) = CHOOSE f : Sums(f)
    BY DEF SumsOf, deltas
  <2> HIDE DEF Sums
  <2> QED BY <1>4, <2>1
<1> HIDE DEF n
<1> QED BY <1>3, <1>5 DEF n, deltas

(* The projection of a log has, for each aggregate, what the events add to it. *)
LEMMA ProjectionIs ==
  ASSUME NEW log, log \in Seq(Range(log)), \A i \in DOMAIN log : log[i].delta \in Int
  PROVE  projectReplayLog(log) = [a \in {event.aggregateId : event \in Range(log)} |-> Total(DeltasOf(a, log))]
<1> DEFINE n == Len(log)
           ids(i) == {log[j].aggregateId : j \in 1..i}
<1>1. n \in Nat /\ DOMAIN log = 1..n
  OBVIOUS
<1>2. PICK f : f[0] = <<>> /\ (\A i \in 1..n : f[i] = Projected(f[i - 1], log[i])) /\ projectReplayLog(log) = f[n]
  BY <1>1, ProjectInTurn
<1>3. \A a : /\ SumsOf(a, log)[0] = 0
             /\ \A i \in 1..n : SumsOf(a, log)[i] =
                  SumsOf(a, log)[i - 1] + (IF log[i].aggregateId = a THEN log[i].delta ELSE 0)
             /\ Total(DeltasOf(a, log)) = SumsOf(a, log)[n]
  BY SumsAre
<1> DEFINE Good(i) == /\ f[i] = [a \in ids(i) |-> SumsOf(a, log)[i]]
                      /\ \A a : SumsOf(a, log)[i] \in Int /\ (a \notin ids(i) => SumsOf(a, log)[i] = 0)
           good == {i \in 0..n : Good(i)}
<1>4. 0 \in good
  <2>1. Good(0)
    BY <1>2, <1>3
  <2> HIDE DEF Good
  <2> QED BY <1>1, <2>1
<1>5. ASSUME NEW i \in 1..n, i - 1 \in good PROVE i \in good
  <2>1. Good(i - 1)
    <3> HIDE DEF Good
    <3> QED BY <1>5
  <2> DEFINE id == log[i].aggregateId
             delta == log[i].delta
             now(a) == SumsOf(a, log)[i]
             before(a) == SumsOf(a, log)[i - 1]
             was == ids(i - 1)
             is == ids(i)
  <2>2. is = was \union {id}
    <3>1. \A j : j \in 1..i <=> j \in 1..(i - 1) \/ j = i
      BY <1>1
    <3> QED BY <3>1
  <2>3. f[i - 1] = [a \in was |-> before(a)] /\ \A a : before(a) \in Int /\ (a \notin was => before(a) = 0)
    BY <2>1
  <2>4. delta \in Int /\ \A a : now(a) = before(a) + (IF id = a THEN delta ELSE 0)
    BY <1>1, <1>3
  <2>5. f[i] = Projected(f[i - 1], log[i])
    BY <1>2
  <2> HIDE DEF was, is, now, before
  <2>6. f[i] = [a \in is |-> now(a)]
    <3> DEFINE p == f[i - 1]
               old == IF id \in DOMAIN p THEN p[id] ELSE 0
    <3>1. f[i] = [a \in DOMAIN p \union {id} |-> IF a = id THEN old + delta ELSE p[a]]
      BY <2>5 DEF Projected
    <3>2. DOMAIN p = was /\ old = before(id)
      BY <2>3
    <3>3. ASSUME NEW a \in is PROVE (IF a = id THEN old + delta ELSE p[a]) = now(a)
      <4>1. CASE a = id
        BY <2>4, <3>2, <4>1
      <4>2. CASE a # id
        <5>1. a \in was /\ p[a] = before(a) /\ before(a) \in Int
          BY <2>2, <2>3, <4>2
        <5>2. now(a) = before(a) + 0
          BY <2>4, <4>2
        <5> HIDE DEF p, old
        <5> QED BY <4>2, <5>1, <5>2
      <4> QED BY <4>1, <4>2
    <3> HIDE DEF p, old
    <3> QED BY <2>2, <3>1, <3>2, <3>3
  <2>7. ASSUME NEW a PROVE now(a) \in Int /\ (a \notin is => now(a) = 0)
    BY <2>2, <2>3, <2>4
  <2>8. Good(i)
    BY <2>6, <2>7 DEF is, now
  <2> HIDE DEF Good
  <2> QED BY <1>1, <2>8
<1> HIDE DEF good
<1>6. 0..n \subseteq good
  BY <1>1, <1>4, <1>5, Induction
<1>7. Good(n)
  <2>1. n \in good
    BY <1>1, <1>6
  <2> HIDE DEF Good
  <2> QED BY <2>1 DEF good
<1>8. ids(n) = {event.aggregateId : event \in Range(log)}
  BY <1>1 DEF Range
<1>9. f[n] = [a \in ids(n) |-> Total(DeltasOf(a, log))]
  <2> HIDE DEF ids, n
  <2> QED BY <1>3, <1>7
<1> QED BY <1>2, <1>8, <1>9

\* A log and what is appended to it.
Extended(a, b) == a \o b

LEMMA ExtendedIs ==
  ASSUME NEW T, NEW a \in Seq(T), NEW b \in Seq(T), NEW n \in Nat, NEW m \in Nat, Len(a) = n, Len(b) = m
  PROVE  /\ Extended(a, b) \in Seq(T) /\ Len(Extended(a, b)) = n + m
         /\ \A i \in 1..n : Extended(a, b)[i] = a[i]
         /\ \A i \in 1..m : Extended(a, b)[n + i] = b[i]
<1> DEFINE both == a \o b
<1>1. both \in Seq(T) /\ Len(both) = n + m
  OBVIOUS
<1>2. \A i \in 1..n : both[i] = a[i]
  OBVIOUS
<1>3. ASSUME NEW i \in 1..m PROVE both[n + i] = b[i]
  <2>1. n + i \in 1..(n + m) /\ n + i > n /\ n + i - n = i
    OBVIOUS
  <2> QED BY <2>1
<1>4. Extended(a, b) = both
  BY DEF Extended
<1> HIDE DEF both
<1> QED BY <1>1, <1>2, <1>3, <1>4

ReplayFields == CommonFields \union {"log", "cursor", "projection", "rebuildInProgress", "producedCount"}

ReplayOk(s) ==
  /\ ReplayFields \subseteq DOMAIN s
  /\ s.log \in Seq(Range(s.log)) /\ \A i \in DOMAIN s.log : s.log[i].delta \in Int
  /\ ReplayAgrees(s)

LEMMA ReplayStep ==
  ASSUME NEW s, ReplayOk(s), NEW e
  PROVE  ReplayOk(buildEventReplayExperiment(s, e, s.virtualTimeMs).state)
<1> DEFINE at == s.virtualTimeMs
           rebuild == e = "rebuild-projection"
           added == AppendedEvents(Len(s.log))
           log == IF rebuild THEN s.log ELSE s.log \o added
           ts == IF rebuild THEN RebuildSteps(s.log) ELSE AppendSteps(Len(s.log))
           cursor == IF log = <<>> THEN Null ELSE Last(log).offset
           count == IF rebuild THEN s.producedCount ELSE s.producedCount + 3
           built == [s EXCEPT !.log = log, !.cursor = cursor, !.projection = projectReplayLog(log),
                              !.rebuildInProgress = FALSE, !.producedCount = count]
           t == Result(built, e, at, ts).state
<1>1. t = buildEventReplayExperiment(s, e, at).state
  BY DEF buildEventReplayExperiment
<1>2. /\ s.log \in Seq(Range(s.log)) /\ \A i \in DOMAIN s.log : s.log[i].delta \in Int /\ s.log[i].offset = i - 1
      /\ s.producedCount = Len(s.log)
  BY DEF ReplayOk, ReplayAgrees
<1>3. log \in Seq(Range(log)) /\ count = Len(log)
      /\ \A i \in DOMAIN log : log[i].delta \in Int /\ log[i].offset = i - 1
  <2>1. CASE rebuild
    BY <1>2, <2>1
  <2>2. CASE ~rebuild
    <3> DEFINE n == Len(s.log)
               T == Range(s.log) \union Range(added)
    <3>1. Len(added) = 3 /\ DOMAIN added = 1..3 /\ \A i \in 1..3 : added[i].delta \in Int /\ added[i].offset = n + i - 1
      BY <1>2 DEF AppendedEvents, replayEvent
    <3>2. added \in Seq(Range(added))
      BY DEF AppendedEvents, Range
    <3>3. n \in Nat /\ DOMAIN s.log = 1..n
      BY <1>2
    <3> HIDE DEF added
    <3>4. s.log \in Seq(T) /\ added \in Seq(T)
      BY <1>2, <3>2, <3>3 DEF Range
    <3>5. /\ log \in Seq(T) /\ Len(log) = n + 3
          /\ \A i \in 1..n : log[i] = s.log[i]
          /\ \A i \in 1..3 : log[n + i] = added[i]
      <4> HIDE DEF n, T
      <4>1. Len(s.log) = n /\ Len(added) = 3
        BY <3>1 DEF n
      <4>2. log = Extended(s.log, added)
        BY <2>2 DEF Extended
      <4> DEFINE a == s.log
                 m == 3
      <4>3. a \in Seq(T) /\ added \in Seq(T) /\ Len(a) = n /\ Len(added) = m /\ n \in Nat /\ m \in Nat
        BY <3>3, <3>4, <4>1
      <4> HIDE DEF log, a, m
      <4>4. /\ Extended(a, added) \in Seq(T) /\ Len(Extended(a, added)) = n + m
            /\ \A i \in 1..n : Extended(a, added)[i] = a[i]
            /\ \A i \in 1..m : Extended(a, added)[n + i] = added[i]
        BY <4>3, ExtendedIs
      <4> QED BY <4>2, <4>4 DEF a, m
    <3> HIDE DEF log, n, T
    <3>6. log \in Seq(Range(log)) /\ DOMAIN log = 1..(n + 3)
      BY <3>3, <3>5 DEF Range
    <3>7. ASSUME NEW i \in 1..(n + 3) PROVE log[i].delta \in Int /\ log[i].offset = i - 1
      <4>1. CASE i \in 1..n
        BY <1>2, <3>3, <3>5, <4>1
      <4>2. CASE i \notin 1..n
        <5>1. i - n \in 1..3 /\ n + (i - n) = i
          BY <3>3, <4>2
        <5>2. log[i] = added[i - n]
          BY <3>5, <5>1
        <5>3. added[i - n].delta \in Int /\ added[i - n].offset = n + (i - n) - 1
          BY <3>1, <5>1
        <5>4. n + (i - n) - 1 = i - 1
          BY <3>3, <4>2
        <5> QED BY <5>2, <5>3, <5>4
      <4> QED BY <4>1, <4>2
    <3>8. count = n + 3
      BY <1>2, <2>2 DEF n
    <3> QED BY <3>5, <3>6, <3>7, <3>8
  <2> QED BY <2>1, <2>2
<1> HIDE DEF log, count
<1>4. cursor = IF log = <<>> THEN Null ELSE Len(log) - 1
  <2>1. CASE log # <<>>
    <3>1. Len(log) \in DOMAIN log
      BY <1>3, <2>1
    <3> QED BY <1>3, <2>1, <3>1 DEF Last
  <2> QED BY <2>1
<1>5. projectReplayLog(log) = [a \in {event.aggregateId : event \in Range(log)} |-> Total(DeltasOf(a, log))]
  BY <1>3, ProjectionIs
<1> HIDE DEF ts, cursor
<1>6. /\ DOMAIN built = DOMAIN s /\ built.log = log /\ built.cursor = cursor
      /\ built.projection = projectReplayLog(log) /\ built.producedCount = count
  BY DEF ReplayOk, ReplayFields
<1> HIDE DEF built
<1>7. /\ DOMAIN t = DOMAIN s /\ t.log = log /\ t.cursor = cursor
      /\ t.projection = projectReplayLog(log) /\ t.producedCount = count
  BY <1>6, ResultIs DEF ReplayOk, ReplayFields, CommonFields
<1> HIDE DEF t
<1>8. ReplayAgrees(t)
  BY <1>3, <1>4, <1>5, <1>7 DEF ReplayAgrees
<1> QED BY <1>1, <1>3, <1>7, <1>8 DEF ReplayOk

-----------------------------------------------------------------------------
(* transactional-producers *)

(* A transaction accepts each of its sequences; its records are visible if it commits. *)
LEMMA TransactionIs ==
  ASSUME NEW id, NEW status, NEW sequences, NEW n \in Nat, DOMAIN sequences = 1..n, Len(sequences) = n
  PROVE  LET t == transaction(id, status, sequences) IN
         /\ t.status = status /\ (t.offsetsCommitted <=> status = "committed")
         /\ DOMAIN t.records = 1..n /\ DOMAIN t.dedupe = 1..n
         /\ \A k \in 1..n : /\ t.records[k].producerSequence = sequences[k]
                            /\ t.records[k].visible <=> status = "committed"
                            /\ t.dedupe[k].producerSequence = sequences[k] /\ t.dedupe[k].accepted
<1> DEFINE t == transaction(id, status, sequences)
           visible == status = "committed"
           recordId(k) == Numbered(id \o "-record", k)
           records == [k \in 1..n |-> [recordId |-> recordId(k), producerSequence |-> sequences[k],
                                       staged |-> TRUE, visible |-> visible]]
           seen == {r.recordId : r \in {q \in Range(records) : q.visible}}
           dedupe == Each(sequences, LAMBDA s : Dedupe(s, TRUE))
           row == "transaction-row-" \o id
<1>1. t = [id |-> row, transactionId |-> id, status |-> status, records |-> records,
           visibleRecordIds |-> seen, offsetsCommitted |-> visible, dedupe |-> dedupe]
  BY DEF transaction
<1>2. dedupe = [k \in 1..n |-> Dedupe(sequences[k], TRUE)]
  BY DEF Each
<1> HIDE DEF seen, dedupe, recordId, row
<1>3. DOMAIN records = 1..n /\ \A k \in 1..n : records[k].producerSequence = sequences[k] /\ (records[k].visible <=> visible)
  OBVIOUS
<1>4. DOMAIN dedupe = 1..n /\ \A k \in 1..n : dedupe[k].producerSequence = sequences[k] /\ dedupe[k].accepted
  BY <1>2 DEF Dedupe
<1> HIDE DEF records, t, visible
<1>5. t.status = status /\ t.offsetsCommitted = visible /\ t.records = records /\ t.dedupe = dedupe
  BY <1>1
<1> QED BY <1>3, <1>4, <1>5 DEF t, visible

KnownTransactions == {CommittedTransaction, ContrastedTransactions[1], ContrastedTransactions[2]}

\* The sequences that a transaction accepts.
Accepted(t) == {k \in DOMAIN t.dedupe : t.dedupe[k].accepted}

(* The transactions accept each sequence once, and show no other. *)
LEMMA KnownTransactionsAre ==
  /\ \A t, u \in KnownTransactions : \A k \in Accepted(t), l \in Accepted(u) :
       t.dedupe[k].producerSequence = u.dedupe[l].producerSequence => t = u /\ k = l
  /\ \A t \in KnownTransactions :
       /\ \A r \in Range(t.records) :
            r.visible => \E k \in Accepted(t) : t.dedupe[k].producerSequence = r.producerSequence
       /\ t.status = "aborted" => ~t.offsetsCommitted
<1> DEFINE a == CommittedTransaction
           b == ContrastedTransactions[1]
           c == ContrastedTransactions[2]
<1>1. /\ DOMAIN a.records = 1..2 /\ Accepted(a) = 1..2 /\ a.status = "committed"
      /\ \A k \in 1..2 : a.records[k].producerSequence = k - 1 /\ a.dedupe[k].producerSequence = k - 1
  <2> DEFINE n == 2
             s == <<0, 1>>
  <2>1. n \in Nat /\ DOMAIN s = 1..n /\ Len(s) = n /\ s[1] = 0 /\ s[2] = 1
    OBVIOUS
  <2> HIDE DEF n, s
  <2>2. /\ a.status = "committed" /\ DOMAIN a.records = 1..n /\ DOMAIN a.dedupe = 1..n
        /\ \A k \in 1..n : a.records[k].producerSequence = s[k] /\ a.dedupe[k].producerSequence = s[k] /\ a.dedupe[k].accepted
    <3> DEFINE t == transaction("txn-1", "committed", s)
    <3>1. t = a
      BY DEF CommittedTransaction, s
    <3>2. /\ t.status = "committed" /\ DOMAIN t.records = 1..n /\ DOMAIN t.dedupe = 1..n
          /\ \A k \in 1..n : t.records[k].producerSequence = s[k] /\ t.dedupe[k].producerSequence = s[k] /\ t.dedupe[k].accepted
      BY <2>1, TransactionIs
    <3> HIDE DEF t
    <3> QED BY <3>1, <3>2
  <2> HIDE DEF a
  <2> QED BY <2>1, <2>2 DEF n, Dedupe, Accepted
<1>2. /\ DOMAIN b.records = 1..1 /\ Accepted(b) = 1..1 /\ b.status = "aborted" /\ ~b.offsetsCommitted
      /\ ~b.records[1].visible /\ b.dedupe[1].producerSequence = 2
  <2> DEFINE n == 1
             s == <<2>>
             t == transaction("txn-2", "aborted", s)
  <2>1. n \in Nat /\ DOMAIN s = 1..n /\ Len(s) = n /\ s[1] = 2
    OBVIOUS
  <2>2. t = b
    BY DEF ContrastedTransactions
  <2> HIDE DEF n, s
  <2>3. /\ t.status = "aborted" /\ ~t.offsetsCommitted /\ DOMAIN t.records = 1..n /\ DOMAIN t.dedupe = 1..n
        /\ \A k \in 1..n : ~t.records[k].visible /\ t.dedupe[k].producerSequence = s[k] /\ t.dedupe[k].accepted
    BY <2>1, TransactionIs
  <2> HIDE DEF b, t
  <2> QED BY <2>1, <2>2, <2>3 DEF n, Dedupe, Accepted
<1>3. /\ DOMAIN c.records = 1..1 /\ Accepted(c) = 1..1 /\ c.status = "committed"
      /\ c.records[1].producerSequence = 3 /\ c.dedupe[1].producerSequence = 3
  <2> DEFINE n == 1
             s == <<3>>
             t == transaction("txn-3", "committed", s)
             d == <<Dedupe(3, TRUE), Dedupe(3, FALSE)>>
  <2>1. n \in Nat /\ DOMAIN s = 1..n /\ Len(s) = n /\ s[1] = 3
    OBVIOUS
  <2>2. c = [t EXCEPT !.dedupe = d]
    BY DEF ContrastedTransactions
  <2>5. c.status = t.status /\ c.records = t.records /\ c.dedupe = d
    <3>1. t = [field \in DOMAIN t |-> t[field]] /\ {"dedupe", "status", "records"} \subseteq DOMAIN t
      BY DEF transaction
    <3> HIDE DEF t, c, d
    <3> QED BY <2>2, <3>1
  <2>3. DOMAIN d = 1..2 /\ d[1] = Dedupe(3, TRUE) /\ d[2] = Dedupe(3, FALSE)
    OBVIOUS
  <2> HIDE DEF n, s
  <2>4. /\ t.status = "committed" /\ DOMAIN t.records = 1..n
        /\ \A k \in 1..n : t.records[k].producerSequence = s[k]
    BY <2>1, TransactionIs
  <2> HIDE DEF c, t, d
  <2> QED BY <2>1, <2>3, <2>4, <2>5 DEF n, Dedupe, Accepted
<1> HIDE DEF a, b, c
<1>4. KnownTransactions = {a, b, c}
  BY DEF KnownTransactions, a, b, c
<1>5. ASSUME NEW t \in {a, b, c}, NEW u \in {a, b, c}, NEW k \in Accepted(t), NEW l \in Accepted(u),
             t.dedupe[k].producerSequence = u.dedupe[l].producerSequence
      PROVE  t = u /\ k = l
  BY <1>1, <1>2, <1>3, <1>5
<1>6. ASSUME NEW t \in {a, b, c}
      PROVE  /\ \A r \in Range(t.records) :
                  r.visible => \E k \in Accepted(t) : t.dedupe[k].producerSequence = r.producerSequence
             /\ t.status = "aborted" => ~t.offsetsCommitted
  <2>1. CASE t = a
    BY <1>1, <2>1 DEF Range
  <2>2. CASE t = b
    BY <1>2, <2>2 DEF Range
  <2>3. CASE t = c
    BY <1>3, <2>3 DEF Range
  <2> QED BY <2>1, <2>2, <2>3
<1> QED BY <1>4, <1>5, <1>6

TransactionsOk(s) ==
  /\ CommonFields \union {"transactions"} \subseteq DOMAIN s
  /\ s.transactions \in Seq(Range(s.transactions))
  /\ Range(s.transactions) \subseteq KnownTransactions /\ DistinctIds(s.transactions)

(* As their ids are distinct, no sequence is accepted by two of them. *)
LEMMA TransactionsOkAgrees ==
  ASSUME NEW s, TransactionsOk(s)
  PROVE  ExactlyOnce(s)
<1> DEFINE rows == s.transactions
<1>1. \A i \in DOMAIN rows : rows[i] \in KnownTransactions /\ rows[i] \in Range(rows)
  BY DEF TransactionsOk, Range
<1>2. \A x : x \in Acceptances(s) <=> \E i \in DOMAIN rows : \E k \in Accepted(rows[i]) : x = <<i, k>>
  <2>1. ASSUME NEW x \in Acceptances(s) PROVE \E i \in DOMAIN rows : \E k \in Accepted(rows[i]) : x = <<i, k>>
    BY DEF Acceptances, Accepted
  <2>2. ASSUME NEW i \in DOMAIN rows, NEW k \in Accepted(rows[i]) PROVE <<i, k>> \in Acceptances(s)
    BY DEF Acceptances, Accepted
  <2> QED BY <2>1, <2>2
<1>3. ASSUME NEW x \in Acceptances(s), NEW y \in Acceptances(s), SequenceAt(s, x) = SequenceAt(s, y) PROVE x = y
  <2>10. PICK i \in DOMAIN rows : \E k \in Accepted(rows[i]) : x = <<i, k>>
    BY <1>2
  <2>1. PICK k \in Accepted(rows[i]) : x = <<i, k>>
    BY <2>10
  <2>20. PICK j \in DOMAIN rows : \E l \in Accepted(rows[j]) : y = <<j, l>>
    BY <1>2
  <2>2. PICK l \in Accepted(rows[j]) : y = <<j, l>>
    BY <2>20
  <2>3. rows[i].dedupe[k].producerSequence = rows[j].dedupe[l].producerSequence
    BY <1>3, <2>1, <2>2 DEF SequenceAt
  <2>4. rows[i] = rows[j] /\ k = l
    BY <1>1, <2>3, KnownTransactionsAre
  <2>5. i = j
    BY <2>4 DEF TransactionsOk, DistinctIds
  <2> QED BY <2>1, <2>2, <2>4, <2>5
<1>4. ASSUME NEW t \in Range(rows)
      PROVE  /\ \A r \in Range(t.records) :
                  r.visible => \E a \in Acceptances(s) : SequenceAt(s, a) = r.producerSequence
             /\ t.status = "aborted" => ~t.offsetsCommitted
  <2>1. PICK i \in DOMAIN rows : t = rows[i]
    BY DEF Range
  <2>2. t \in KnownTransactions
    BY <1>1, <2>1
  <2>3. ASSUME NEW r \in Range(t.records), r.visible
        PROVE  \E a \in Acceptances(s) : SequenceAt(s, a) = r.producerSequence
    <3>1. PICK k \in Accepted(t) : t.dedupe[k].producerSequence = r.producerSequence
      BY <2>2, <2>3, KnownTransactionsAre
    <3>2. <<i, k>> \in Acceptances(s) /\ SequenceAt(s, <<i, k>>) = r.producerSequence
      BY <1>2, <2>1, <3>1 DEF SequenceAt
    <3> QED BY <3>2
  <2> QED BY <2>2, <2>3, KnownTransactionsAre
<1> QED BY <1>3, <1>4 DEF ExactlyOnce

LEMMA TransactionsStep ==
  ASSUME NEW s, TransactionsOk(s), NEW e
  PROVE  TransactionsOk(buildTransactionalProducerExperiment(s, e, s.virtualTimeMs).state)
<1> DEFINE at == s.virtualTimeMs
           a == ContrastedTransactions[1]
           b == ContrastedTransactions[2]
           two == upsertById(upsertById(s.transactions, a), b)
           one == upsertById(s.transactions, CommittedTransaction)
           Fine(rows) == rows \in Seq(Range(rows)) /\ Range(rows) \subseteq KnownTransactions /\ DistinctIds(rows)
<1>1. ASSUME NEW rows, Fine(rows), NEW row \in KnownTransactions PROVE Fine(upsertById(rows, row))
  BY <1>1, UpsertKeeps
<1>2. Fine(one) /\ Fine(two)
  <2>1. Fine(s.transactions)
    BY DEF TransactionsOk
  <2>2. a \in KnownTransactions /\ b \in KnownTransactions /\ CommittedTransaction \in KnownTransactions
    BY DEF KnownTransactions
  <2> HIDE DEF Fine, a, b
  <2> QED BY <1>1, <2>1, <2>2
<1>3. upsertAll(s.transactions, ContrastedTransactions) = two
  <2>1. ContrastedTransactions = <<a, b>>
    BY DEF ContrastedTransactions
  <2> HIDE DEF a, b
  <2> QED BY <2>1, UpsertTwo
<1> HIDE DEF Fine, one, two
<1>4. ASSUME NEW rows, Fine(rows), NEW ts PROVE TransactionsOk(Result([s EXCEPT !.transactions = rows], e, at, ts).state)
  <2> DEFINE built == [s EXCEPT !.transactions = rows]
             t == Result(built, e, at, ts).state
  <2>1. DOMAIN built = DOMAIN s /\ built.transactions = rows
    BY DEF TransactionsOk
  <2> HIDE DEF built
  <2>2. DOMAIN t = DOMAIN s /\ t.transactions = rows
    BY <2>1, ResultIs DEF TransactionsOk, CommonFields
  <2> HIDE DEF t
  <2>3. TransactionsOk(t)
    BY <1>4, <2>2 DEF TransactionsOk, Fine
  <2> QED BY <2>3 DEF t, built
<1>5. PICK ts, us : buildTransactionalProducerExperiment(s, e, at) =
                    IF e = "abort-and-dedupe" THEN Result([s EXCEPT !.transactions = two], e, at, ts)
                    ELSE Result([s EXCEPT !.transactions = one], e, at, us)
  <2> DEFINE ts1 == <<step("abort", "transaction.aborted", <<"transaction-row-txn-2", "txn-2", "txn-2-record-1">>, 100),
                      step("dedupe", "producer.deduplicated",
                           <<"transaction-row-txn-3", "txn-3", "txn-3-record-1">>, 100)>>
             ts2 == <<step("stage", "transaction.staged",
                           <<"transaction-row-txn-1", "txn-1-record-1", "txn-1-record-2">>, 100),
                      step("commit", "transaction.committed", <<"transaction-row-txn-1", "txn-1">>, 100)>>
  <2>1. buildTransactionalProducerExperiment(s, e, at) =
          IF e = "abort-and-dedupe" THEN Result([s EXCEPT !.transactions = two], e, at, ts1)
          ELSE Result([s EXCEPT !.transactions = one], e, at, ts2)
    BY <1>3 DEF buildTransactionalProducerExperiment, one
  <2> HIDE DEF ts1, ts2
  <2> QED BY <2>1
<1>6. CASE e = "abort-and-dedupe"
  BY <1>2, <1>4, <1>5, <1>6
<1>7. CASE e # "abort-and-dedupe"
  BY <1>2, <1>4, <1>5, <1>7
<1> QED BY <1>6, <1>7

-----------------------------------------------------------------------------
(* Who owns a partition *)

(* A partition with one owner among some. *)
LEMMA OneOwner ==
  ASSUME NEW owners, NEW p, NEW i \in DOMAIN owners, p \in owners[i].partitions,
         \A j \in DOMAIN owners : p \in owners[j].partitions => j = i
  PROVE  Cardinality(OwnersOf(p, owners)) = 1 /\ OwnerOf(p, owners) = owners[i].consumerId
<1>1. OwnersOf(p, owners) = {i}
  BY DEF OwnersOf
<1>2. Cardinality({i}) = 1
  BY FS_Singleton
<1>3. (CHOOSE j \in DOMAIN owners : p \in owners[j].partitions) = i
  OBVIOUS
<1> QED BY <1>1, <1>2, <1>3 DEF OwnerOf

(* What is dealt to members in turn is dealt once. *)
LEMMA DealtOnce ==
  ASSUME NEW partitions \in SUBSET Nat, NEW n \in Nat, n # 0, NEW owners, DOMAIN owners = 1..n,
         \A i \in 1..n : owners[i].partitions = Dealt(partitions, n, i)
  PROVE  OwnedOnce(owners, partitions)
<1> SUFFICES ASSUME NEW p \in partitions PROVE Cardinality(OwnersOf(p, owners)) = 1
  BY DEF OwnedOnce
<1> DEFINE i == (p % n) + 1
<1>1. p % n \in 0..(n - 1)
  OBVIOUS
<1>2. i \in 1..n
  BY <1>1
<1>3. \A j \in 1..n : p \in owners[j].partitions <=> j = i
  <2>1. \A j \in 1..n : p \in Dealt(partitions, n, j) <=> p % n = j - 1
    BY DEF Dealt
  <2> QED BY <1>1, <2>1
<1> HIDE DEF i
<1> QED BY <1>2, <1>3, OneOwner

-----------------------------------------------------------------------------
(* cooperative-rebalancing *)

ComparisonRows == {EagerComparison(TRUE), EagerComparison(FALSE), StickyComparison(TRUE), StickyComparison(FALSE)}

(* Before a rebalance and after it each partition has one owner. *)
LEMMA OwnershipIs ==
  /\ \A p \in 0..2 : Cardinality(OwnersOf(p, OwnershipBefore)) = 1 /\ OwnerOf(p, OwnershipBefore) = "consumer-1"
  /\ \A p \in 0..2 : /\ Cardinality(OwnersOf(p, OwnershipAfter(TRUE))) = 1
                     /\ OwnerOf(p, OwnershipAfter(TRUE)) =
                          IF p = 0 THEN "consumer-1" ELSE IF p = 1 THEN "consumer-2" ELSE "consumer-3"
  /\ \A p \in 0..2 : /\ Cardinality(OwnersOf(p, OwnershipAfter(FALSE))) = 1
                     /\ OwnerOf(p, OwnershipAfter(FALSE)) = IF p = 1 THEN "consumer-2" ELSE "consumer-1"
<1>1. ASSUME NEW p \in 0..2
      PROVE  Cardinality(OwnersOf(p, OwnershipBefore)) = 1 /\ OwnerOf(p, OwnershipBefore) = "consumer-1"
  <2> DEFINE o == OwnershipBefore
             i == 1
  <2>1. /\ DOMAIN o = 1..1 /\ i \in DOMAIN o /\ o[i].consumerId = "consumer-1"
        /\ \A j \in DOMAIN o : p \in o[j].partitions <=> j = i
    BY DEF OwnershipBefore, Owned
  <2> HIDE DEF o, i
  <2>2. Cardinality(OwnersOf(p, o)) = 1 /\ OwnerOf(p, o) = "consumer-1"
    BY <2>1, OneOwner
  <2> QED BY <2>2 DEF o
<1>2. ASSUME NEW p \in 0..2
      PROVE  /\ Cardinality(OwnersOf(p, OwnershipAfter(TRUE))) = 1
             /\ OwnerOf(p, OwnershipAfter(TRUE)) =
                  IF p = 0 THEN "consumer-1" ELSE IF p = 1 THEN "consumer-2" ELSE "consumer-3"
  <2> DEFINE o == OwnershipAfter(TRUE)
             i == p + 1
  <2>1. /\ DOMAIN o = 1..3 /\ i \in DOMAIN o
        /\ o[i].consumerId = IF p = 0 THEN "consumer-1" ELSE IF p = 1 THEN "consumer-2" ELSE "consumer-3"
        /\ \A j \in DOMAIN o : p \in o[j].partitions <=> j = i
    BY DEF OwnershipAfter, Owned
  <2> HIDE DEF o, i
  <2>2. Cardinality(OwnersOf(p, o)) = 1 /\ OwnerOf(p, o) = o[i].consumerId
    BY <2>1, OneOwner
  <2> QED BY <2>1, <2>2 DEF o
<1>3. ASSUME NEW p \in 0..2
      PROVE  /\ Cardinality(OwnersOf(p, OwnershipAfter(FALSE))) = 1
             /\ OwnerOf(p, OwnershipAfter(FALSE)) = IF p = 1 THEN "consumer-2" ELSE "consumer-1"
  <2> DEFINE o == OwnershipAfter(FALSE)
             i == IF p = 1 THEN 2 ELSE 1
  <2>1. /\ DOMAIN o = 1..2 /\ i \in DOMAIN o /\ o[i].consumerId = IF p = 1 THEN "consumer-2" ELSE "consumer-1"
        /\ \A j \in DOMAIN o : p \in o[j].partitions <=> j = i
    BY DEF OwnershipAfter, Owned
  <2> HIDE DEF o, i
  <2>2. Cardinality(OwnersOf(p, o)) = 1 /\ OwnerOf(p, o) = o[i].consumerId
    BY <2>1, OneOwner
  <2> QED BY <2>1, <2>2 DEF o
<1> QED BY <1>1, <1>2, <1>3

LEMMA ComparisonsAgree ==
  ASSUME NEW c \in ComparisonRows
  PROVE  OwnedOnce(c.before, 0..2) /\ OwnedOnce(c.after, 0..2) /\ MovesAgree(c)
<1> DEFINE before == OwnershipBefore
           grown == OwnershipAfter(TRUE)
           paired == OwnershipAfter(FALSE)
           two == MovedPartitions(TRUE)
           one == MovedPartitions(FALSE)
<1>1. Range(two) = {Moved(1, "consumer-2"), Moved(2, "consumer-3")} /\ Range(one) = {Moved(1, "consumer-2")}
  <2> DEFINE a == Moved(1, "consumer-2")
             b == Moved(2, "consumer-3")
  <2>1. two = <<a>> \o <<b>> /\ one = <<a>> \o <<>>
    BY DEF MovedPartitions
  <2> HIDE DEF a, b
  <2>2. DOMAIN (<<a>> \o <<b>>) = 1..2 /\ (<<a>> \o <<b>>)[1] = a /\ (<<a>> \o <<b>>)[2] = b
    OBVIOUS
  <2>3. <<a>> \o <<>> = <<a>>
    OBVIOUS
  <2> HIDE DEF two, one
  <2>4. DOMAIN two = 1..2 /\ two[1] = a /\ two[2] = b /\ one = <<a>>
    BY <2>1, <2>2, <2>3
  <2>5. Range(two) = {a, b} /\ Range(one) = {a}
    BY <2>4 DEF Range
  <2> QED BY <2>5 DEF a, b
<1> HIDE DEF before, grown, paired, two, one
<1>3. /\ OwnedOnce(before, 0..2) /\ OwnedOnce(grown, 0..2) /\ OwnedOnce(paired, 0..2)
      /\ \A p \in 0..2 : OwnerOf(p, before) = "consumer-1"
      /\ \A p \in 0..2 : OwnerOf(p, grown) = IF p = 0 THEN "consumer-1" ELSE IF p = 1 THEN "consumer-2" ELSE "consumer-3"
      /\ \A p \in 0..2 : OwnerOf(p, paired) = IF p = 1 THEN "consumer-2" ELSE "consumer-1"
  BY OwnershipIs DEF OwnedOnce, before, grown, paired
<1>4. /\ {1, 2} = {p \in 0..2 : OwnerOf(p, before) # OwnerOf(p, grown)}
      /\ {[partition |-> p, fromConsumerId |-> OwnerOf(p, before), toConsumerId |-> OwnerOf(p, grown)] : p \in {1, 2}}
           = Range(two)
  <2>1. {1, 2} = {p \in 0..2 : OwnerOf(p, before) # OwnerOf(p, grown)}
    BY <1>3
  <2> DEFINE row(p) == [partition |-> p, fromConsumerId |-> OwnerOf(p, before), toConsumerId |-> OwnerOf(p, grown)]
  <2>2. row(1) = Moved(1, "consumer-2") /\ row(2) = Moved(2, "consumer-3")
    BY <1>3 DEF Moved
  <2> HIDE DEF row
  <2>3. {row(p) : p \in {1, 2}} = Range(two)
    BY <1>1, <2>2
  <2> QED BY <2>1, <2>3 DEF row
<1>5. /\ {1} = {p \in 0..2 : OwnerOf(p, before) # OwnerOf(p, paired)}
      /\ {[partition |-> p, fromConsumerId |-> OwnerOf(p, before), toConsumerId |-> OwnerOf(p, paired)] : p \in {1}}
           = Range(one)
  <2>1. {1} = {p \in 0..2 : OwnerOf(p, before) # OwnerOf(p, paired)}
    BY <1>3
  <2> DEFINE row(p) == [partition |-> p, fromConsumerId |-> OwnerOf(p, before), toConsumerId |-> OwnerOf(p, paired)]
  <2>2. row(1) = Moved(1, "consumer-2")
    BY <1>3 DEF Moved
  <2> HIDE DEF row
  <2>3. {row(p) : p \in {1}} = Range(one)
    BY <1>1, <2>2
  <2> QED BY <2>1, <2>3 DEF row
<1>6. CASE c = EagerComparison(TRUE)
  <2>1. /\ c.before = before /\ c.after = grown /\ c.movedPartitions = two /\ c.keptPartitions = {}
        /\ c.revokedPartitions = {0, 1, 2} /\ c.strategy = "eager"
    BY <1>6 DEF EagerComparison, Comparison, before, grown, two
  <2>2. MovesAgree(c)
    BY <1>4, <2>1 DEF MovesAgree
  <2> QED BY <1>3, <2>1, <2>2
<1>7. CASE c = EagerComparison(FALSE)
  <2>1. /\ c.before = before /\ c.after = paired /\ c.movedPartitions = one /\ c.keptPartitions = {}
        /\ c.revokedPartitions = {0, 1, 2} /\ c.strategy = "eager"
    BY <1>7 DEF EagerComparison, Comparison, before, paired, one
  <2>2. MovesAgree(c)
    BY <1>5, <2>1 DEF MovesAgree
  <2> QED BY <1>3, <2>1, <2>2
<1>8. CASE c = StickyComparison(TRUE)
  <2>1. /\ c.before = before /\ c.after = grown /\ c.movedPartitions = two /\ c.keptPartitions = {0}
        /\ c.revokedPartitions = {1, 2} /\ c.strategy = "cooperative_sticky"
    BY <1>8 DEF StickyComparison, Comparison, before, grown, two
  <2>2. MovesAgree(c)
    <3>1. {0} = (0..2) \ {1, 2}
      OBVIOUS
    <3> QED BY <1>4, <2>1, <3>1 DEF MovesAgree
  <2> QED BY <1>3, <2>1, <2>2
<1>9. CASE c = StickyComparison(FALSE)
  <2>1. /\ c.before = before /\ c.after = paired /\ c.movedPartitions = one /\ c.keptPartitions = {0, 2}
        /\ c.revokedPartitions = {1} /\ c.strategy = "cooperative_sticky"
    BY <1>9 DEF StickyComparison, Comparison, before, paired, one
  <2>2. MovesAgree(c)
    <3>1. {0, 2} = (0..2) \ {1}
      OBVIOUS
    <3> QED BY <1>5, <2>1, <3>1 DEF MovesAgree
  <2> QED BY <1>3, <2>1, <2>2
<1> QED BY <1>6, <1>7, <1>8, <1>9 DEF ComparisonRows

CooperativeOk(s) ==
  /\ CommonFields \union {"comparisons"} \subseteq DOMAIN s
  /\ s.comparisons \in Seq(Range(s.comparisons)) /\ Range(s.comparisons) \subseteq ComparisonRows

LEMMA CooperativeStep ==
  ASSUME NEW s, CooperativeOk(s), NEW e
  PROVE  CooperativeOk(buildCooperativeRebalancingExperiment(s, e, s.virtualTimeMs).state)
<1> DEFINE at == s.virtualTimeMs
           pressure == e = "cooperative-pressure"
           name(id) == IF pressure THEN id \o "-pressure" ELSE id
           eager == EagerComparison(pressure)
           sticky == StickyComparison(pressure)
           rows == upsertById(upsertById(s.comparisons, eager), sticky)
           ts == <<step(name("eager"), "rebalance.eager", <<"eager-comparison">>, 100),
                   step(name("sticky"), "rebalance.cooperative", <<"sticky-comparison">>, 100),
                   step(name("compare"), "rebalance.compared", <<"eager-comparison", "sticky-comparison">>, 100)>>
           built == [s EXCEPT !.comparisons = upsertAll(s.comparisons, <<eager, sticky>>)]
           t == Result(built, e, at, ts).state
           Fine(r) == r \in Seq(Range(r)) /\ Range(r) \subseteq ComparisonRows
<1>1. t = buildCooperativeRebalancingExperiment(s, e, at).state
  BY DEF buildCooperativeRebalancingExperiment
<1>2. eager \in ComparisonRows /\ sticky \in ComparisonRows
  BY DEF ComparisonRows
<1> HIDE DEF eager, sticky, ts
<1>3. ASSUME NEW r, Fine(r), NEW row \in ComparisonRows PROVE Fine(upsertById(r, row))
  BY <1>3, UpsertKeeps
<1>4. Fine(rows)
  <2>1. Fine(s.comparisons)
    BY DEF CooperativeOk
  <2> HIDE DEF Fine
  <2> QED BY <1>2, <1>3, <2>1
<1>5. upsertAll(s.comparisons, <<eager, sticky>>) = rows
  BY UpsertTwo
<1>6. DOMAIN built = DOMAIN s /\ built.comparisons = rows
  BY <1>5 DEF CooperativeOk
<1> HIDE DEF built, rows
<1>7. DOMAIN t = DOMAIN s /\ t.comparisons = rows
  BY <1>6, ResultIs DEF CooperativeOk, CommonFields
<1> HIDE DEF t
<1> QED BY <1>1, <1>4, <1>7 DEF CooperativeOk

-----------------------------------------------------------------------------
(* fan-out-load-balancing *)

FanOutOk(s) ==
  /\ CommonFields \union {"epochs"} \subseteq DOMAIN s
  /\ \A epoch \in Range(s.epochs) : OwnedOnce(epoch.assignments, 0..2)

LEMMA EpochsDealOnce ==
  \A epoch \in Range([members \in 1..4 |-> Epoch(members, 0..2)]) : OwnedOnce(epoch.assignments, 0..2)
<1> SUFFICES ASSUME NEW n \in 1..4 PROVE OwnedOnce(Epoch(n, 0..2).assignments, 0..2)
  BY DEF Range
<1> DEFINE owners == Epoch(n, 0..2).assignments
           name(i) == Numbered("consumer", i)
           partitions == 0..2
<1>1. owners = [i \in 1..n |-> [consumerId |-> name(i), partitions |-> Dealt(0..2, n, i)]]
  BY DEF Epoch
<1>2. DOMAIN owners = 1..n /\ (\A i \in 1..n : owners[i].partitions = Dealt(partitions, n, i))
      /\ partitions \in SUBSET Nat /\ n \in Nat /\ n # 0
  BY <1>1
<1> HIDE DEF owners, partitions
<1>3. OwnedOnce(owners, partitions)
  BY <1>2, DealtOnce
<1> QED BY <1>3 DEF owners, partitions

LEMMA FanOutStep ==
  ASSUME NEW s, FanOutOk(s), NEW e, NEW observations,
         observations # {} =>
           The(observations).epochs \in {<<>>, [members \in 1..4 |-> Epoch(members, 0..2)]}
  PROVE  FanOutOk(buildLoadBalancingExperiment(s, e, s.virtualTimeMs, observations).state)
<1> DEFINE at == s.virtualTimeMs
           seen(field) == IF observations = {} THEN <<>> ELSE The(observations)[field]
           routes == IF seen("routes") = <<>> THEN FallbackRoutes ELSE seen("routes")
           epochs == IF seen("epochs") # <<>> THEN seen("epochs")
                     ELSE IF s.epochs # <<>> THEN s.epochs ELSE FallbackEpochs
           burst == UnkeyedBurst(routes)
           balance == <<step("balance-settings", "producer.settings_changed", <<"producer">>, 100)>>
           t == buildLoadBalancingExperiment(s, e, at, observations).state
           Fine(rows) == \A epoch \in Range(rows) : OwnedOnce(epoch.assignments, 0..2)
<1>1. \/ t = Result(s, e, at, burst).state
      \/ t = Result(s, e, at, balance).state
      \/ t = Result([s EXCEPT !.epochs = epochs], e, at, GrowingGroup).state
  BY DEF buildLoadBalancingExperiment
<1>2. epochs \in {[members \in 1..4 |-> Epoch(members, 0..2)], s.epochs}
  BY DEF FallbackEpochs
<1>3. Fine(s.epochs) /\ Fine([members \in 1..4 |-> Epoch(members, 0..2)])
  BY EpochsDealOnce DEF FanOutOk
<1> HIDE DEF epochs, burst, balance, Fine, t
<1>4. Fine(epochs)
  BY <1>2, <1>3
<1>5. ASSUME NEW built, DOMAIN built = DOMAIN s, Fine(built.epochs), NEW ts PROVE FanOutOk(Result(built, e, at, ts).state)
  <2> DEFINE u == Result(built, e, at, ts).state
  <2>1. DOMAIN u = DOMAIN s /\ u.epochs = built.epochs
    BY <1>5, ResultIs DEF FanOutOk, CommonFields
  <2> HIDE DEF u
  <2>2. FanOutOk(u)
    BY <1>5, <2>1 DEF FanOutOk, Fine
  <2> QED BY <2>2 DEF u
<1> DEFINE built == [s EXCEPT !.epochs = epochs]
<1>6. DOMAIN built = DOMAIN s /\ built.epochs = epochs
  BY DEF FanOutOk
<1> HIDE DEF built
<1> QED BY <1>1, <1>3, <1>4, <1>5, <1>6 DEF t, built

-----------------------------------------------------------------------------
(* partitioning: indexes in order *)

LEMMA PlacesAre ==
  ASSUME NEW n \in Nat, NEW S \in SUBSET (1..n)
  PROVE  /\ IsFiniteSet(S) /\ Cardinality(S) \in Nat
         /\ \A i \in S : Place(i, S) \in 1..Cardinality(S)
         /\ \A i, j \in S : i < j => Place(i, S) < Place(j, S)
         /\ \A k \in 1..Cardinality(S) : \E i \in S : Place(i, S) = k
<1> DEFINE m == Cardinality(S)
           upTo(i) == {j \in S : j <= i}
           place == [i \in S |-> Cardinality(upTo(i))]
<1>0. \A i \in S : i \in Nat
  OBVIOUS
<1>1. IsFiniteSet(S) /\ m \in Nat
  <2>1. IsFiniteSet(1..n)
    BY FS_Interval
  <2>2. IsFiniteSet(S)
    BY <2>1, FS_Subset
  <2> QED BY <2>2, FS_CardinalityType
<1>2. ASSUME NEW i \in S PROVE IsFiniteSet(upTo(i)) /\ Cardinality(upTo(i)) \in 1..m
  <2>1. upTo(i) \in SUBSET S /\ i \in upTo(i)
    OBVIOUS
  <2>2. IsFiniteSet(upTo(i)) /\ Cardinality(upTo(i)) <= m
    BY <1>1, <2>1, FS_Subset
  <2>3. Cardinality(upTo(i)) \in Nat /\ Cardinality(upTo(i)) # 0
    BY <2>1, <2>2, FS_CardinalityType, FS_EmptySet
  <2> HIDE DEF m, upTo
  <2> QED BY <1>1, <2>2, <2>3
<1>3. ASSUME NEW i \in S, NEW j \in S, i < j PROVE Cardinality(upTo(i)) < Cardinality(upTo(j))
  <2>0. i \in Nat /\ j \in Nat /\ i < j
    BY <1>0, <1>3
  <2>1. upTo(i) \in SUBSET upTo(j) /\ j \in upTo(j) /\ j \notin upTo(i)
    <3>1. ASSUME NEW k \in S, k <= i PROVE k <= j
      BY <1>0, <2>0, <3>1
    <3>2. ~(j <= i) /\ j <= j
      BY <2>0
    <3> QED BY <3>1, <3>2
  <2>2. Cardinality(upTo(i)) <= Cardinality(upTo(j)) /\ Cardinality(upTo(i)) # Cardinality(upTo(j))
    BY <1>2, <2>1, FS_Subset
  <2> HIDE DEF upTo
  <2> QED BY <1>2, <2>2
<1>4. place \in Injection(S, 1..m)
  <2>1. place \in [S -> 1..m]
    <3> HIDE DEF m, upTo
    <3> QED BY <1>2
  <2>2. ASSUME NEW i \in S, NEW j \in S, place[i] = place[j] PROVE i = j
    <3>1. Cardinality(upTo(i)) = Cardinality(upTo(j))
      <4> HIDE DEF upTo
      <4> QED BY <2>2
    <3>2. ~(i < j) /\ ~(j < i)
      <4> HIDE DEF upTo
      <4> QED BY <1>2, <1>3, <3>1
    <3> QED BY <3>2
  <2> HIDE DEF place, m
  <2> QED BY <2>1, <2>2 DEF Injection, IsInjective
<1>5. IsFiniteSet(1..m) /\ Cardinality(1..m) = m
  BY <1>1, FS_Interval
<1>6. place \in Surjection(S, 1..m)
  BY <1>4, <1>5, FS_Injection
<1>7. ASSUME NEW k \in 1..m PROVE \E i \in S : Cardinality(upTo(i)) = k
  <2>1. PICK i \in S : place[i] = k
    BY <1>6 DEF Surjection
  <2> HIDE DEF upTo
  <2> QED BY <2>1
<1>8. \A i : Place(i, S) = Cardinality(upTo(i))
  BY DEF Place
<1> HIDE DEF upTo, m
<1> QED BY <1>1, <1>2, <1>3, <1>7, <1>8 DEF m

(* Indexes in order are those of the set, increasing. *)
LEMMA InOrderIs ==
  ASSUME NEW n \in Nat, NEW S \in SUBSET (1..n)
  PROVE  /\ InOrder(S) \in Seq(S) /\ Len(InOrder(S)) = Cardinality(S) /\ DOMAIN InOrder(S) = 1..Cardinality(S)
         /\ \A k \in 1..Cardinality(S) : InOrder(S)[k] \in S /\ Place(InOrder(S)[k], S) = k
         /\ \A k, l \in 1..Cardinality(S) : k < l => InOrder(S)[k] < InOrder(S)[l]
<1> DEFINE m == Cardinality(S)
           s == InOrder(S)
<1>1. /\ m \in Nat
      /\ \A i \in S : Place(i, S) \in 1..m
      /\ \A i, j \in S : i < j => Place(i, S) < Place(j, S)
      /\ \A k \in 1..m : \E i \in S : Place(i, S) = k
  BY PlacesAre
<1>0. \A i \in S : i \in Nat
  OBVIOUS
<1>2. s = [k \in 1..m |-> CHOOSE i \in S : Place(i, S) = k]
  BY DEF InOrder
<1> HIDE DEF s, m
<1>3. \A k \in 1..m : s[k] \in S /\ Place(s[k], S) = k
  BY <1>1, <1>2
<1>4. s = [k \in 1..m |-> s[k]]
  BY <1>2
<1>5. s \in Seq(S) /\ DOMAIN s = 1..m /\ Len(s) = m
  BY <1>1, <1>3, <1>4, SequenceOf
<1>6. ASSUME NEW k \in 1..m, NEW l \in 1..m, k < l PROVE s[k] < s[l]
  <2>1. s[k] \in S /\ s[l] \in S /\ Place(s[k], S) = k /\ Place(s[l], S) = l
    BY <1>3
  <2>2. s[k] \in Nat /\ s[l] \in Nat
    BY <1>0, <2>1
  <2>3. s[k] # s[l]
    BY <1>6, <2>1
  <2>4. s[l] < s[k] => l < k
    BY <1>1, <2>1
  <2>5. ~(l < k)
    BY <1>1, <1>6
  <2> QED BY <2>2, <2>3, <2>4, <2>5
<1> QED BY <1>3, <1>5, <1>6 DEF s, m

-----------------------------------------------------------------------------
(* partitioning: the messages of the run *)

RunFields == {"partitionCount", "messages", "consumers", "noKeyCursor", "nextOffset", "latestCommittedOffsets"}
RecordFields == {"messageId", "key", "partition", "offset", "state", "assignedConsumerId"}

\* A record with a key is in the partition of the key, below its next offset.
PlacedAs(m, nextOffset, choice) ==
  /\ RecordFields \subseteq DOMAIN m
  /\ m.key \in {"A", "B"} /\ m.partition = choice[m.key]
  /\ m.offset \in Nat /\ m.offset < nextOffset[m.partition]

MessagesOk(messages, nextOffset, choice) ==
  /\ messages \in Seq(Range(messages))
  /\ \A i \in DOMAIN messages : PlacedAs(messages[i], nextOffset, choice)
  /\ \A i, j \in DOMAIN messages :
       messages[i].key = messages[j].key /\ i < j => messages[i].offset < messages[j].offset

\* A command that moves no record.
SameRecord(m, n) == RecordFields \subseteq DOMAIN n /\ n.key = m.key /\ n.partition = m.partition /\ n.offset = m.offset

LEMMA SameRecords ==
  ASSUME NEW messages, NEW nextOffset, NEW choice, MessagesOk(messages, nextOffset, choice),
         NEW others, others = [i \in DOMAIN messages |-> others[i]],
         \A i \in DOMAIN messages : SameRecord(messages[i], others[i])
  PROVE  MessagesOk(others, nextOffset, choice) /\ Len(others) = Len(messages)
<1> DEFINE n == Len(messages)
<1>1. n \in Nat /\ DOMAIN messages = 1..n
  BY DEF MessagesOk
<1> HIDE DEF n
<1>2. DOMAIN others = 1..n /\ others = [i \in 1..n |-> others[i]]
  BY <1>1
<1>3. others \in Seq(Range(others)) /\ Len(others) = n
  <2>1. \A i \in 1..n : others[i] \in Range(others)
    BY <1>2 DEF Range
  <2> QED BY <1>1, <1>2, <2>1, SequenceOf
<1>4. \A i \in 1..n : PlacedAs(others[i], nextOffset, choice)
  BY <1>1 DEF MessagesOk, PlacedAs, SameRecord
<1>5. \A i, j \in 1..n : others[i].key = others[j].key /\ i < j => others[i].offset < others[j].offset
  BY <1>1 DEF MessagesOk, SameRecord
<1> QED BY <1>2, <1>3, <1>4, <1>5 DEF MessagesOk, n

(* A record that is appended has the next offset of its partition. *)
LEMMA AppendedRecord ==
  ASSUME NEW messages, NEW nextOffset \in [0..1 -> Nat], NEW choice \in [{"A", "B"} -> 0..1],
         MessagesOk(messages, nextOffset, choice),
         NEW m, RecordFields \subseteq DOMAIN m, m.key \in {"A", "B"}, m.partition = choice[m.key],
         m.offset = nextOffset[m.partition]
  PROVE  /\ MessagesOk(Append(messages, m), [nextOffset EXCEPT ![m.partition] = @ + 1], choice)
         /\ Len(Append(messages, m)) = Len(messages) + 1
         /\ [nextOffset EXCEPT ![m.partition] = @ + 1] \in [0..1 -> Nat]
<1> DEFINE n == Len(messages)
           longer == Append(messages, m)
           next == [nextOffset EXCEPT ![m.partition] = @ + 1]
<1>1. n \in Nat /\ DOMAIN messages = 1..n
  BY DEF MessagesOk
<1>2. /\ longer \in Seq(Range(messages) \union {m}) /\ DOMAIN longer = 1..(n + 1) /\ Len(longer) = n + 1
      /\ longer[n + 1] = m /\ \A i \in 1..n : longer[i] = messages[i]
  BY DEF MessagesOk
<1>3. next \in [0..1 -> Nat] /\ \A p \in 0..1 : nextOffset[p] <= next[p]
  OBVIOUS
<1>4. m.partition \in 0..1 /\ m.offset \in Nat /\ next[m.partition] = m.offset + 1
  OBVIOUS
<1> HIDE DEF longer, next, n
<1>5. longer \in Seq(Range(longer))
  <2>1. \A i \in 1..(n + 1) : longer[i] \in Range(longer)
    BY <1>2 DEF Range
  <2>2. longer = [i \in 1..(n + 1) |-> longer[i]] /\ n + 1 \in Nat
    BY <1>1, <1>2
  <2> QED BY <2>1, <2>2, SequenceOf
<1>6. ASSUME NEW i \in 1..n
      PROVE  /\ PlacedAs(messages[i], next, choice)
             /\ messages[i].key = m.key => messages[i].offset < m.offset
  <2>1. PlacedAs(messages[i], nextOffset, choice)
    BY <1>1 DEF MessagesOk
  <2>2. messages[i].partition \in 0..1 /\ nextOffset[messages[i].partition] \in Nat /\ next[messages[i].partition] \in Nat
    BY <1>3, <2>1 DEF PlacedAs
  <2>3. PlacedAs(messages[i], next, choice)
    BY <1>3, <2>1, <2>2 DEF PlacedAs
  <2>4. messages[i].key = m.key => messages[i].offset < m.offset
    BY <2>1 DEF PlacedAs
  <2> QED BY <2>3, <2>4
<1>7. PlacedAs(m, next, choice)
  BY <1>4 DEF PlacedAs
<1>8. \A i \in 1..(n + 1) : i \in 1..n \/ i = n + 1
  BY <1>1
<1>9. \A i \in 1..(n + 1) : PlacedAs(longer[i], next, choice)
  BY <1>2, <1>6, <1>7, <1>8
<1>10. ASSUME NEW i \in 1..(n + 1), NEW j \in 1..(n + 1), longer[i].key = longer[j].key, i < j
       PROVE  longer[i].offset < longer[j].offset
  <2>1. i \in 1..n
    BY <1>1, <1>10
  <2>2. CASE j \in 1..n
    BY <1>1, <1>2, <1>10, <2>1, <2>2 DEF MessagesOk
  <2>3. CASE j = n + 1
    BY <1>2, <1>6, <1>10, <2>1, <2>3
  <2> QED BY <1>8, <2>2, <2>3
<1> QED BY <1>2, <1>3, <1>5, <1>9, <1>10 DEF MessagesOk, longer, next, n

-----------------------------------------------------------------------------
(* The commands of a run *)

\* What every command leaves.
SameRun(r, q) == DOMAIN q = DOMAIN r /\ q.partitionCount = r.partitionCount

LEMMA RegroupedIs ==
  ASSUME NEW r, RunFields \subseteq DOMAIN r, NEW active
  PROVE  LET q == Regrouped(r, active) IN
         /\ SameRun(r, q) /\ q.messages = r.messages /\ q.nextOffset = r.nextOffset
         /\ DOMAIN q.consumers = DOMAIN r.consumers
<1> DEFINE after(i) == IF i \in active
                       THEN [r.consumers[i] EXCEPT !.partitions = Dealt(Partitions(r), Cardinality(active), Place(i, active))]
                       ELSE r.consumers[i]
           grouped == [i \in DOMAIN r.consumers |-> after(i)]
           q == Regrouped(r, active)
<1>1. q = [r EXCEPT !.consumers = grouped]
  BY DEF Regrouped
<1>2. DOMAIN grouped = DOMAIN r.consumers
  OBVIOUS
<1> HIDE DEF grouped, q
<1>3. DOMAIN q = DOMAIN r /\ q.partitionCount = r.partitionCount /\ q.messages = r.messages
      /\ q.nextOffset = r.nextOffset /\ q.consumers = grouped
  BY <1>1 DEF RunFields
<1> QED BY <1>2, <1>3 DEF SameRun, q

LEMMA RebalancedIs ==
  ASSUME NEW r, RunFields \subseteq DOMAIN r
  PROVE  LET g == Regrouped(r, ActiveIndexes(r))
             q == Rebalanced(r)
         IN  /\ SameRun(r, q) /\ q.nextOffset = r.nextOffset /\ q.consumers = g.consumers
             /\ q.messages = Each(r.messages, LAMBDA m : Delivered(g, m))
<1> DEFINE g == Regrouped(r, ActiveIndexes(r))
           delivered == Each(r.messages, LAMBDA m : Delivered(g, m))
           q == Rebalanced(r)
<1>1. SameRun(r, g) /\ g.messages = r.messages /\ g.nextOffset = r.nextOffset
  BY RegroupedIs
<1>2. q = [g EXCEPT !.messages = delivered]
  BY <1>1 DEF Rebalanced, Redelivered
<1> HIDE DEF g, delivered, q
<1>3. DOMAIN q = DOMAIN r /\ q.partitionCount = r.partitionCount /\ q.messages = delivered
      /\ q.nextOffset = r.nextOffset /\ q.consumers = g.consumers
  BY <1>1, <1>2 DEF RunFields, SameRun
<1> QED BY <1>3 DEF SameRun, q, delivered, g

LEMMA ProducedKeepsRun ==
  ASSUME NEW r, RunFields \subseteq DOMAIN r, NEW key, NEW choice
  PROVE  SameRun(r, Produced(r, key, choice))
<1> DEFINE p == ChosenPartition(r, key, choice)
           message == [messageId |-> Numbered("message", Len(r.messages) + 1), key |-> key, partition |-> p,
                       offset |-> r.nextOffset[p], state |-> "produced", assignedConsumerId |-> Null]
           longer == Append(r.messages, Delivered(r, message))
           next == [r.nextOffset EXCEPT ![p] = r.nextOffset[p] + 1]
           cursor == IF key = Null THEN r.noKeyCursor + 1 ELSE r.noKeyCursor
<1>1. Produced(r, key, choice) = [r EXCEPT !.messages = longer, !.nextOffset = next, !.noKeyCursor = cursor]
  BY DEF Produced, RunFields
<1> HIDE DEF longer, next, cursor
<1> QED BY <1>1 DEF SameRun, RunFields

LEMMA AddedKeepsRun ==
  ASSUME NEW r, RunFields \subseteq DOMAIN r
  PROVE  SameRun(r, ConsumerAdded(r))
<1> DEFINE used == {c.consumerId : c \in Range(r.consumers)}
           index == CHOOSE i \in 1..(Len(r.consumers) + 1) :
                      /\ Numbered("consumer", i) \notin used
                      /\ \A j \in 1..(i - 1) : Numbered("consumer", j) \in used
           longer == Append(r.consumers, [consumerId |-> Numbered("consumer", index), partitions |-> {}, crashed |-> FALSE])
           q == [r EXCEPT !.consumers = longer]
<1>1. ConsumerAdded(r) = Rebalanced(q)
  BY DEF ConsumerAdded
<1> HIDE DEF longer
<1>2. RunFields \subseteq DOMAIN q /\ SameRun(r, q)
  BY DEF SameRun, RunFields
<1> HIDE DEF q
<1>3. SameRun(q, Rebalanced(q))
  BY <1>2, RebalancedIs
<1> QED BY <1>1, <1>2, <1>3 DEF SameRun

LEMMA CrashedKeepsRun ==
  ASSUME NEW r, RunFields \subseteq DOMAIN r, NEW id
  PROVE  SameRun(r, ConsumerCrashed(r, id))
<1> DEFINE consumers == Each(r.consumers, LAMBDA c : IF c.consumerId = id
                                                     THEN [c EXCEPT !.partitions = {}, !.crashed = TRUE] ELSE c)
           messages == Requeued(r.messages, id)
           q == [r EXCEPT !.consumers = consumers, !.messages = messages]
<1>1. ConsumerCrashed(r, id) = Rebalanced(q)
  BY DEF ConsumerCrashed, RunFields
<1> HIDE DEF consumers, messages
<1>2. RunFields \subseteq DOMAIN q /\ SameRun(r, q)
  BY DEF SameRun, RunFields
<1> HIDE DEF q
<1>3. SameRun(q, Rebalanced(q))
  BY <1>2, RebalancedIs
<1> QED BY <1>1, <1>2, <1>3 DEF SameRun

\* The i-th message in another state.
Restated(messages, i, x) == [messages EXCEPT ![i] = [@ EXCEPT !.state = x]]

LEMMA ProcessedIs ==
  ASSUME NEW r, RunFields \subseteq DOMAIN r, NEW i, NEW commit
  PROVE  LET q == Processed(r, i, commit) IN
         /\ SameRun(r, q) /\ q.nextOffset = r.nextOffset /\ q.consumers = r.consumers
         /\ \E x : q.messages = r.messages \/ q.messages = Restated(r.messages, i, x)
<1> DEFINE q == Processed(r, i, commit)
           processed == Restated(r.messages, i, "processed")
           done == Restated(r.messages, i, "committed")
           m == r.messages[i]
           committed == [r.latestCommittedOffsets EXCEPT ![m.partition] = m.offset + 1]
<1>1. \/ q = r
      \/ q = [r EXCEPT !.messages = processed]
      \/ q = [r EXCEPT !.messages = done, !.latestCommittedOffsets = committed]
  BY DEF Processed, RunFields, Restated
<1> HIDE DEF processed, done, committed, q
<1>2. /\ SameRun(r, q) /\ q.nextOffset = r.nextOffset /\ q.consumers = r.consumers
      /\ q.messages \in {r.messages, processed, done}
  BY <1>1 DEF SameRun, RunFields
<1> QED BY <1>2 DEF q, processed, done

-----------------------------------------------------------------------------
(* partitioning: the run *)

ConsumerFields == {"consumerId", "partitions", "crashed"}

\* A run whose records are in place, and one whose group has its partitions.
PlacedRun(r, choice) ==
  /\ RunFields \subseteq DOMAIN r /\ r.partitionCount = 2
  /\ r.nextOffset \in [0..1 -> Nat] /\ MessagesOk(r.messages, r.nextOffset, choice)
  /\ r.consumers \in Seq(Range(r.consumers)) /\ \A i \in DOMAIN r.consumers : ConsumerFields \subseteq DOMAIN r.consumers[i]

Grouped(r) ==
  \A i \in ActiveIndexes(r) :
    r.consumers[i].partitions = Dealt(0..1, Cardinality(ActiveIndexes(r)), Place(i, ActiveIndexes(r)))

RunOk(r, choice) == PlacedRun(r, choice) /\ Grouped(r)

LEMMA TwoPartitions ==
  ASSUME NEW r, r.partitionCount = 2
  PROVE  Partitions(r) = 0..1
BY DEF Partitions

LEMMA DeliveredIs ==
  ASSUME NEW r, NEW m, RecordFields \subseteq DOMAIN m
  PROVE  SameRecord(m, Delivered(r, m))
<1> DEFINE id == Owner(r, m.partition)
<1>1. Delivered(r, m) \in {m, [m EXCEPT !.state = "received", !.assignedConsumerId = id]}
  BY DEF Delivered
<1> HIDE DEF id
<1> QED BY <1>1 DEF SameRecord, RecordFields

(* A rebalance gives the group its partitions and moves no record. *)
LEMMA RebalancedKeeps ==
  ASSUME NEW r, NEW choice, PlacedRun(r, choice)
  PROVE  RunOk(Rebalanced(r), choice) /\ Len(Rebalanced(r).messages) = Len(r.messages)
<1> DEFINE S == ActiveIndexes(r)
           g == Regrouped(r, S)
           q == Rebalanced(r)
           after == [i \in DOMAIN r.messages |-> Delivered(g, r.messages[i])]
<1>1. /\ SameRun(r, q) /\ q.nextOffset = r.nextOffset /\ q.consumers = g.consumers
      /\ q.messages = Each(r.messages, LAMBDA m : Delivered(g, m))
  BY RebalancedIs DEF PlacedRun
<1>2. MessagesOk(r.messages, r.nextOffset, choice)
  BY DEF PlacedRun
<1>3. Each(r.messages, LAMBDA m : Delivered(g, m)) = after
  BY <1>2 DEF Each, MessagesOk
<1>4. MessagesOk(after, r.nextOffset, choice) /\ Len(after) = Len(r.messages)
  <2>1. \A i \in DOMAIN r.messages : SameRecord(r.messages[i], Delivered(g, r.messages[i]))
    BY <1>2, DeliveredIs DEF MessagesOk, PlacedAs
  <2>2. after = [i \in DOMAIN r.messages |-> after[i]] /\ \A i \in DOMAIN r.messages : SameRecord(r.messages[i], after[i])
    BY <2>1
  <2> HIDE DEF after, g
  <2> QED BY <1>2, <2>2, SameRecords
<1> DEFINE dealt(i) == Dealt(0..1, Cardinality(S), Place(i, S))
           changed(i) == IF i \in S THEN [r.consumers[i] EXCEPT !.partitions = dealt(i)] ELSE r.consumers[i]
           grouped == [i \in DOMAIN r.consumers |-> changed(i)]
<1>5. g.consumers = grouped
  <2>1. Partitions(r) = 0..1
    BY TwoPartitions DEF PlacedRun
  <2>2. g = [r EXCEPT !.consumers = grouped]
    BY <2>1 DEF Regrouped
  <2> HIDE DEF g, grouped
  <2> QED BY <2>2 DEF PlacedRun, RunFields
<1> HIDE DEF dealt, g, after
<1>6. \A i \in DOMAIN r.consumers :
        /\ ConsumerFields \subseteq DOMAIN changed(i) /\ changed(i).crashed = r.consumers[i].crashed
        /\ i \in S => changed(i).partitions = dealt(i)
  BY DEF PlacedRun, ConsumerFields
<1>7. DOMAIN grouped = DOMAIN r.consumers /\ \A i \in DOMAIN r.consumers : grouped[i] = changed(i)
  OBVIOUS
<1>8. grouped \in Seq(Range(grouped))
  <2> DEFINE n == Len(r.consumers)
  <2>1. n \in Nat /\ DOMAIN r.consumers = 1..n
    BY DEF PlacedRun
  <2> HIDE DEF n, changed
  <2>2. grouped = [i \in 1..n |-> grouped[i]]
    BY <2>1
  <2>3. \A i \in 1..n : grouped[i] \in Range(grouped)
    BY <1>7, <2>1 DEF Range
  <2> QED BY <2>1, <2>2, <2>3, SequenceOf
<1> HIDE DEF q, changed, grouped
<1>9. ActiveIndexes(q) = S
  BY <1>1, <1>5, <1>6, <1>7 DEF ActiveIndexes, S
<1> HIDE DEF S
<1>10. Grouped(q)
  <2>1. ASSUME NEW i \in S PROVE q.consumers[i].partitions = dealt(i)
    <3>1. i \in DOMAIN r.consumers
      BY DEF S, ActiveIndexes
    <3> QED BY <1>1, <1>5, <1>6, <1>7, <3>1
  <2> QED BY <1>9, <2>1 DEF Grouped, dealt
<1>11. PlacedRun(q, choice)
  BY <1>1, <1>3, <1>4, <1>5, <1>6, <1>7, <1>8 DEF PlacedRun, SameRun
<1> QED BY <1>1, <1>3, <1>4, <1>10, <1>11 DEF RunOk, q

LEMMA ProducedKeeps ==
  ASSUME NEW r, NEW choice \in [{"A", "B"} -> 0..1], RunOk(r, choice), NEW key \in {"A", "B"}
  PROVE  RunOk(Produced(r, key, choice), choice) /\ Len(Produced(r, key, choice).messages) = Len(r.messages) + 1
<1> DEFINE p == choice[key]
           message == [messageId |-> Numbered("message", Len(r.messages) + 1), key |-> key, partition |-> p,
                       offset |-> r.nextOffset[p], state |-> "produced", assignedConsumerId |-> Null]
           m == Delivered(r, message)
           longer == Append(r.messages, m)
           next == [r.nextOffset EXCEPT ![p] = @ + 1]
           q == Produced(r, key, choice)
<1>1. ChosenPartition(r, key, choice) = p
  BY NullIsNoKey DEF ChosenPartition
<1>2. key # Null
  BY NullIsNoKey
<1>3. q = [r EXCEPT !.messages = longer, !.nextOffset = next, !.noKeyCursor = r.noKeyCursor]
  BY <1>1, <1>2 DEF Produced, RunOk, PlacedRun, RunFields
<1>4. RecordFields \subseteq DOMAIN message /\ message.key = key /\ message.partition = p /\ message.offset = r.nextOffset[p]
  BY DEF RecordFields
<1> HIDE DEF message
<1>5. SameRecord(message, m)
  BY <1>4, DeliveredIs
<1> HIDE DEF longer, next, m, q
<1>6. DOMAIN q = DOMAIN r /\ q.partitionCount = r.partitionCount /\ q.messages = longer /\ q.nextOffset = next
      /\ q.consumers = r.consumers
  BY <1>3 DEF RunOk, PlacedRun, RunFields
<1>7. MessagesOk(longer, next, choice) /\ Len(longer) = Len(r.messages) + 1 /\ next \in [0..1 -> Nat]
  <2>1. RecordFields \subseteq DOMAIN m /\ m.key = key /\ m.partition = p /\ m.offset = r.nextOffset[p]
    BY <1>4, <1>5 DEF SameRecord
  <2>2. MessagesOk(r.messages, r.nextOffset, choice) /\ r.nextOffset \in [0..1 -> Nat]
    BY DEF RunOk, PlacedRun
  <2>3. m.key \in {"A", "B"} /\ m.partition = choice[m.key] /\ m.offset = r.nextOffset[m.partition]
    BY <2>1
  <2>4. next = [r.nextOffset EXCEPT ![m.partition] = @ + 1]
    BY <2>1 DEF next
  <2>5. longer = Append(r.messages, m)
    BY DEF longer
  <2> HIDE DEF p
  <2>6. /\ MessagesOk(Append(r.messages, m), [r.nextOffset EXCEPT ![m.partition] = @ + 1], choice)
        /\ Len(Append(r.messages, m)) = Len(r.messages) + 1
        /\ [r.nextOffset EXCEPT ![m.partition] = @ + 1] \in [0..1 -> Nat]
    <3> DEFINE messages == r.messages
               nextOffset == r.nextOffset
    <3>1. MessagesOk(messages, nextOffset, choice) /\ nextOffset \in [0..1 -> Nat] /\ m.offset = nextOffset[m.partition]
      BY <2>2, <2>3
    <3> HIDE DEF messages, nextOffset
    <3>2. RecordFields \subseteq DOMAIN m /\ m.key \in {"A", "B"} /\ m.partition = choice[m.key]
      BY <2>1, <2>3
    <3>3. /\ MessagesOk(Append(messages, m), [nextOffset EXCEPT ![m.partition] = @ + 1], choice)
          /\ Len(Append(messages, m)) = Len(messages) + 1
          /\ [nextOffset EXCEPT ![m.partition] = @ + 1] \in [0..1 -> Nat]
      BY <3>1, <3>2, AppendedRecord
    <3> QED BY <3>3 DEF messages, nextOffset
  <2> QED BY <2>4, <2>5, <2>6
<1>8. ActiveIndexes(q) = ActiveIndexes(r)
  BY <1>6 DEF ActiveIndexes
<1>9. Grouped(q)
  BY <1>6, <1>8 DEF Grouped, RunOk
<1>10. PlacedRun(q, choice)
  BY <1>6, <1>7 DEF PlacedRun, RunOk
<1> QED BY <1>6, <1>7, <1>9, <1>10 DEF RunOk, q

LEMMA AddedKeeps ==
  ASSUME NEW r, NEW choice, PlacedRun(r, choice)
  PROVE  RunOk(ConsumerAdded(r), choice) /\ Len(ConsumerAdded(r).messages) = Len(r.messages)
<1> DEFINE used == {c.consumerId : c \in Range(r.consumers)}
           index == CHOOSE i \in 1..(Len(r.consumers) + 1) :
                      /\ Numbered("consumer", i) \notin used
                      /\ \A j \in 1..(i - 1) : Numbered("consumer", j) \in used
           added == [consumerId |-> Numbered("consumer", index), partitions |-> {}, crashed |-> FALSE]
           longer == Append(r.consumers, added)
           q == [r EXCEPT !.consumers = longer]
           n == Len(r.consumers)
<1>1. ConsumerAdded(r) = Rebalanced(q)
  BY DEF ConsumerAdded
<1>2. ConsumerFields \subseteq DOMAIN added
  BY DEF ConsumerFields
<1> HIDE DEF added
<1>3. n \in Nat /\ DOMAIN r.consumers = 1..n
  BY DEF PlacedRun
<1>4. /\ longer \in Seq(Range(r.consumers) \union {added}) /\ DOMAIN longer = 1..(n + 1) /\ Len(longer) = n + 1
      /\ longer[n + 1] = added /\ \A i \in 1..n : longer[i] = r.consumers[i]
  BY DEF PlacedRun
<1> HIDE DEF longer, n
<1>5. longer \in Seq(Range(longer))
  <2>1. \A i \in 1..(n + 1) : longer[i] \in Range(longer)
    BY <1>4 DEF Range
  <2>2. longer = [i \in 1..(n + 1) |-> longer[i]] /\ n + 1 \in Nat
    BY <1>3, <1>4
  <2> QED BY <2>1, <2>2, SequenceOf
<1>6. \A i \in 1..(n + 1) : ConsumerFields \subseteq DOMAIN longer[i]
  <2>1. \A i \in 1..(n + 1) : i \in 1..n \/ i = n + 1
    BY <1>3
  <2>2. \A i \in 1..n : ConsumerFields \subseteq DOMAIN r.consumers[i]
    BY <1>3 DEF PlacedRun
  <2> QED BY <1>2, <1>4, <2>1, <2>2
<1>7. DOMAIN q = DOMAIN r /\ q.partitionCount = r.partitionCount /\ q.messages = r.messages
      /\ q.nextOffset = r.nextOffset /\ q.consumers = longer
  BY DEF PlacedRun, RunFields
<1> HIDE DEF q
<1>8. PlacedRun(q, choice)
  BY <1>4, <1>5, <1>6, <1>7 DEF PlacedRun
<1> QED BY <1>1, <1>7, <1>8, RebalancedKeeps

LEMMA CrashedKeeps ==
  ASSUME NEW r, NEW choice, PlacedRun(r, choice), NEW id
  PROVE  RunOk(ConsumerCrashed(r, id), choice)
<1> DEFINE out(c) == IF c.consumerId = id THEN [c EXCEPT !.partitions = {}, !.crashed = TRUE] ELSE c
           back(m) == IF m.assignedConsumerId = id /\ m.state \in {"received", "processed"}
                      THEN [m EXCEPT !.state = "produced", !.assignedConsumerId = Null] ELSE m
           consumers == [i \in DOMAIN r.consumers |-> out(r.consumers[i])]
           messages == [i \in DOMAIN r.messages |-> back(r.messages[i])]
           q == [r EXCEPT !.consumers = consumers, !.messages = messages]
<1>1. MessagesOk(r.messages, r.nextOffset, choice)
  BY DEF PlacedRun
<1>2. Each(r.consumers, LAMBDA c : IF c.consumerId = id THEN [c EXCEPT !.partitions = {}, !.crashed = TRUE] ELSE c)
        = consumers
  BY DEF Each, PlacedRun
<1>3. Requeued(r.messages, id) = messages
  BY <1>1 DEF Requeued, Each, MessagesOk
<1>4. ConsumerCrashed(r, id) = Rebalanced(q)
  BY <1>2, <1>3 DEF ConsumerCrashed, PlacedRun, RunFields
<1>5. DOMAIN consumers = DOMAIN r.consumers /\ \A i \in DOMAIN r.consumers : ConsumerFields \subseteq DOMAIN consumers[i]
  BY DEF PlacedRun, ConsumerFields
<1>6. consumers \in Seq(Range(consumers))
  <2> DEFINE n == Len(r.consumers)
  <2>1. n \in Nat /\ DOMAIN r.consumers = 1..n
    BY DEF PlacedRun
  <2> HIDE DEF n, out
  <2>2. consumers = [i \in 1..n |-> consumers[i]]
    BY <2>1
  <2>3. \A i \in 1..n : consumers[i] \in Range(consumers)
    BY <1>5, <2>1 DEF Range
  <2> QED BY <2>1, <2>2, <2>3, SequenceOf
<1>7. MessagesOk(messages, r.nextOffset, choice)
  <2>1. \A i \in DOMAIN r.messages : RecordFields \subseteq DOMAIN r.messages[i]
    BY <1>1 DEF MessagesOk, PlacedAs
  <2>2. \A i \in DOMAIN r.messages : SameRecord(r.messages[i], messages[i])
    BY <2>1 DEF SameRecord, RecordFields
  <2>3. messages = [i \in DOMAIN r.messages |-> messages[i]]
    OBVIOUS
  <2> HIDE DEF messages
  <2> QED BY <1>1, <2>2, <2>3, SameRecords
<1> HIDE DEF consumers, messages
<1>8. DOMAIN q = DOMAIN r /\ q.partitionCount = r.partitionCount /\ q.messages = messages
      /\ q.nextOffset = r.nextOffset /\ q.consumers = consumers
  BY DEF PlacedRun, RunFields
<1> HIDE DEF q
<1>9. PlacedRun(q, choice)
  BY <1>5, <1>6, <1>7, <1>8 DEF PlacedRun
<1> QED BY <1>4, <1>9, RebalancedKeeps

LEMMA ProcessedKeeps ==
  ASSUME NEW r, NEW choice, RunOk(r, choice), NEW i, NEW commit
  PROVE  RunOk(Processed(r, i, commit), choice) /\ Len(Processed(r, i, commit).messages) = Len(r.messages)
<1> DEFINE q == Processed(r, i, commit)
<1>1. MessagesOk(r.messages, r.nextOffset, choice) /\ RunFields \subseteq DOMAIN r
  BY DEF RunOk, PlacedRun
<1>2. /\ SameRun(r, q) /\ q.nextOffset = r.nextOffset /\ q.consumers = r.consumers
      /\ \E x : q.messages = r.messages \/ q.messages = Restated(r.messages, i, x)
  BY <1>1, ProcessedIs
<1> HIDE DEF q
<1>3. PICK x : q.messages = r.messages \/ q.messages = Restated(r.messages, i, x)
  BY <1>2
<1>4. MessagesOk(q.messages, r.nextOffset, choice) /\ Len(q.messages) = Len(r.messages)
  <2>1. CASE q.messages = r.messages
    BY <1>1, <2>1
  <2>2. CASE q.messages = Restated(r.messages, i, x)
    <3> DEFINE messages == q.messages
    <3>1. \A k \in DOMAIN r.messages : RecordFields \subseteq DOMAIN r.messages[k]
      BY <1>1 DEF MessagesOk, PlacedAs
    <3>2. \A k \in DOMAIN r.messages : messages[k] = IF k = i THEN [r.messages[k] EXCEPT !.state = x] ELSE r.messages[k]
      BY <2>2 DEF Restated
    <3>3. messages = [k \in DOMAIN r.messages |-> messages[k]]
      BY <2>2 DEF Restated
    <3> HIDE DEF messages
    <3>4. \A k \in DOMAIN r.messages : SameRecord(r.messages[k], messages[k])
      BY <3>1, <3>2 DEF SameRecord, RecordFields
    <3>5. MessagesOk(messages, r.nextOffset, choice) /\ Len(messages) = Len(r.messages)
      BY <1>1, <3>3, <3>4, SameRecords
    <3> QED BY <3>5 DEF messages
  <2> QED BY <1>3, <2>1, <2>2
<1>5. ActiveIndexes(q) = ActiveIndexes(r)
  BY <1>2 DEF ActiveIndexes
<1>6. Grouped(q)
  BY <1>2, <1>5 DEF Grouped, RunOk
<1>7. PlacedRun(q, choice)
  BY <1>2, <1>4 DEF PlacedRun, RunOk, SameRun
<1> QED BY <1>4, <1>6, <1>7 DEF RunOk, q

-----------------------------------------------------------------------------
(* partitioning: an experiment *)

(* Three records that are produced, one after the other. *)
LEMMA ThreeProduced ==
  ASSUME NEW r, NEW keys, Len(keys) = 3, NEW choice
  PROVE  \E f : /\ f[0] = r /\ f[1] = Produced(f[0], keys[1], choice) /\ f[2] = Produced(f[1], keys[2], choice)
                /\ f[3] = Produced(f[2], keys[3], choice) /\ ProducedInTurn(r, keys, choice) = f[3]
<1> DEFINE n == 3
           q == ProducedInTurn(r, keys, choice)
<1>1. n \in Nat /\ Len(keys) = n
  OBVIOUS
<1>11. q = ProducedInTurn(r, keys, choice)
  OBVIOUS
<1> HIDE DEF n, q
<1>2. PICK f : f[0] = r /\ (\A i \in 1..n : f[i] = Produced(f[i - 1], keys[i], choice)) /\ q = f[n]
  BY <1>1, <1>11, ProduceInTurn
<1>3. f[1] = Produced(f[0], keys[1], choice) /\ f[2] = Produced(f[1], keys[2], choice)
      /\ f[3] = Produced(f[2], keys[3], choice) /\ q = f[3]
  BY <1>2 DEF n
<1>4. f[0] = r
  BY <1>2
<1> QED BY <1>3, <1>4 DEF q

LEMMA ProducedAll ==
  ASSUME NEW r, NEW choice \in [{"A", "B"} -> 0..1], RunOk(r, choice)
  PROVE  LET q == ProducedInTurn(r, <<"A", "B", "A">>, choice)
         IN  RunOk(q, choice) /\ Len(q.messages) = Len(r.messages) + 3
<1> DEFINE keys == <<"A", "B", "A">>
           q == ProducedInTurn(r, keys, choice)
<1>1. Len(keys) = 3 /\ \A i \in 1..3 : keys[i] \in {"A", "B"}
  OBVIOUS
<1> HIDE DEF keys
<1>2. PICK f : /\ f[0] = r /\ f[1] = Produced(f[0], keys[1], choice) /\ f[2] = Produced(f[1], keys[2], choice)
               /\ f[3] = Produced(f[2], keys[3], choice) /\ q = f[3]
  BY <1>1, ThreeProduced
<1>3. keys[1] \in {"A", "B"} /\ keys[2] \in {"A", "B"} /\ keys[3] \in {"A", "B"}
  BY <1>1
<1>4. Len(r.messages) \in Nat
  BY DEF RunOk, PlacedRun, MessagesOk
<1> HIDE DEF q
<1>5. RunOk(f[1], choice) /\ Len(f[1].messages) = Len(r.messages) + 1
  BY <1>2, <1>3, ProducedKeeps
<1>6. RunOk(f[2], choice) /\ Len(f[2].messages) = Len(f[1].messages) + 1
  BY <1>2, <1>3, <1>5, ProducedKeeps
<1>7. RunOk(f[3], choice) /\ Len(f[3].messages) = Len(f[2].messages) + 1
  BY <1>2, <1>3, <1>6, ProducedKeeps
<1>8. RunOk(q, choice) /\ Len(q.messages) = Len(r.messages) + 3
  BY <1>2, <1>4, <1>5, <1>6, <1>7
<1> QED BY <1>8 DEF q, keys

LEMMA AddedAll ==
  ASSUME NEW r, NEW choice, RunOk(r, choice), NEW n \in Nat
  PROVE  RunOk(AddedInTurn(r, n), choice) /\ Len(AddedInTurn(r, n).messages) = Len(r.messages)
<1>1. PICK f : f[0] = r /\ (\A i \in 1..n : f[i] = ConsumerAdded(f[i - 1])) /\ AddedInTurn(r, n) = f[n]
  BY AddInTurn
<1> DEFINE fine == {i \in 0..n : RunOk(f[i], choice) /\ Len(f[i].messages) = Len(r.messages)}
<1>2. 0 \in fine
  BY <1>1
<1>3. ASSUME NEW i \in 1..n, i - 1 \in fine PROVE i \in fine
  <2>1. f[i] = ConsumerAdded(f[i - 1])
    BY <1>1
  <2>2. PlacedRun(f[i - 1], choice) /\ Len(f[i - 1].messages) = Len(r.messages)
    BY <1>3 DEF RunOk
  <2>3. RunOk(f[i], choice) /\ Len(f[i].messages) = Len(r.messages)
    BY <2>1, <2>2, AddedKeeps
  <2> QED BY <2>3
<1> HIDE DEF fine
<1>4. 0..n \subseteq fine
  BY <1>2, <1>3, Induction
<1>5. n \in fine
  BY <1>4
<1> QED BY <1>1, <1>5 DEF fine

LEMMA ProcessedAll ==
  ASSUME NEW r, NEW choice, RunOk(r, choice), NEW n \in Nat, NEW indexes, Len(indexes) = n, NEW committed
  PROVE  LET q == ProcessedInTurn(r, indexes, committed)
         IN  RunOk(q, choice) /\ Len(q.messages) = Len(r.messages)
<1> DEFINE q == ProcessedInTurn(r, indexes, committed)
<1>1. PICK f : f[0] = r /\ (\A i \in 1..n : f[i] = Processed(f[i - 1], indexes[i], indexes[i] \in committed)) /\ q = f[n]
  BY ProcessInTurn
<1> DEFINE fine == {i \in 0..n : RunOk(f[i], choice) /\ Len(f[i].messages) = Len(r.messages)}
<1>2. 0 \in fine
  BY <1>1
<1>3. ASSUME NEW i \in 1..n, i - 1 \in fine PROVE i \in fine
  <2> DEFINE commit == indexes[i] \in committed
  <2>1. f[i] = Processed(f[i - 1], indexes[i], commit)
    BY <1>1
  <2>2. RunOk(f[i - 1], choice) /\ Len(f[i - 1].messages) = Len(r.messages)
    BY <1>3
  <2> HIDE DEF commit
  <2>3. RunOk(f[i], choice) /\ Len(f[i].messages) = Len(r.messages)
    BY <2>1, <2>2, ProcessedKeeps
  <2> QED BY <2>3
<1> HIDE DEF fine, q
<1>4. 0..n \subseteq fine
  BY <1>2, <1>3, Induction
<1>5. n \in fine
  BY <1>4
<1>6. RunOk(q, choice) /\ Len(q.messages) = Len(r.messages)
  BY <1>1, <1>5 DEF fine
<1> QED BY <1>6 DEF q

\* Indexes of the first messages of a run, in order.
OrderedIndexes(indexes, n) ==
  /\ Len(indexes) \in Nat /\ DOMAIN indexes = 1..Len(indexes)
  /\ \A k \in DOMAIN indexes : indexes[k] \in 1..n
  /\ \A k, l \in DOMAIN indexes : k < l => indexes[k] < indexes[l]

LEMMA ProducedIndexesAre ==
  ASSUME NEW r, NEW n \in Nat, DOMAIN r.messages = 1..n, Len(r.messages) = n, NEW s, NEW growGroup \in BOOLEAN
  PROVE  OrderedIndexes(ProducedIndexes(r, s, growGroup), IF growGroup THEN n ELSE n + 3)
<1>1. CASE growGroup
  <2> DEFINE S == {i \in 1..n : \E t \in Range(s.routingTraces) : t.messageId = r.messages[i].messageId}
  <2>1. ProducedIndexes(r, s, growGroup) = InOrder(S)
    BY <1>1 DEF ProducedIndexes
  <2>2. S \in SUBSET (1..n)
    OBVIOUS
  <2> HIDE DEF S
  <2>3. Cardinality(S) \in Nat
    BY <2>2, PlacesAre
  <2>4. /\ Len(InOrder(S)) = Cardinality(S) /\ DOMAIN InOrder(S) = 1..Cardinality(S)
        /\ \A k \in 1..Cardinality(S) : InOrder(S)[k] \in S
        /\ \A k, l \in 1..Cardinality(S) : k < l => InOrder(S)[k] < InOrder(S)[l]
    BY <2>2, InOrderIs
  <2>5. \A i \in S : i \in 1..n
    BY <2>2
  <2> QED BY <1>1, <2>1, <2>3, <2>4, <2>5 DEF OrderedIndexes
<1>2. CASE ~growGroup
  <2> DEFINE three == [i \in 1..3 |-> n + i]
  <2>1. ProducedIndexes(r, s, growGroup) = three
    BY <1>2 DEF ProducedIndexes
  <2>2. Len(three) = 3 /\ DOMAIN three = 1..3 /\ \A i \in 1..3 : three[i] = n + i
    OBVIOUS
  <2> HIDE DEF three
  <2>3. \A k \in 1..3 : three[k] \in 1..(n + 3)
    BY <2>2
  <2>4. \A k, l \in 1..3 : k < l => three[k] < three[l]
    BY <2>2
  <2> QED BY <1>2, <2>1, <2>2, <2>3, <2>4 DEF OrderedIndexes
<1> QED BY <1>1, <1>2

(* The commands of an experiment leave a run like the one before. *)
LEMMA PartitioningRunKeeps ==
  ASSUME NEW r, NEW choice \in [{"A", "B"} -> 0..1], RunOk(r, choice), NEW s, NEW growGroup \in BOOLEAN, NEW limit
  PROVE  LET q == PartitioningRun(r, s, growGroup, limit, choice)
         IN  RunOk(q, choice) /\ Len(q.messages) = IF growGroup THEN Len(r.messages) ELSE Len(r.messages) + 3
<1> DEFINE q == PartitioningRun(r, s, growGroup, limit, choice)
           n == Len(r.messages)
           indexes == ProducedIndexes(r, s, growGroup)
           sent == IF growGroup THEN r ELSE ProducedInTurn(r, <<"A", "B", "A">>, choice)
           missing == Max({0, (IF growGroup THEN 3 ELSE 1) - Cardinality(ActiveIndexes(sent))})
           committed == IF growGroup THEN Range(indexes) ELSE Range(indexes) \ {Last(indexes)}
           added == AddedInTurn(sent, missing)
           m == IF growGroup THEN n ELSE n + 3
<1>1. q = IF growGroup /\ limit < 3 THEN sent ELSE ProcessedInTurn(added, indexes, committed)
  BY DEF PartitioningRun
<1>2. RunOk(sent, choice) /\ Len(sent.messages) = m
  <2>1. CASE growGroup
    BY <2>1
  <2>2. CASE ~growGroup
    BY <2>2, ProducedAll
  <2> QED BY <2>1, <2>2
<1>3. Len(indexes) \in Nat
  <2>1. n \in Nat /\ DOMAIN r.messages = 1..n
    BY DEF RunOk, PlacedRun, MessagesOk
  <2>2. OrderedIndexes(indexes, m)
    <3> HIDE DEF n
    <3> QED BY <2>1, ProducedIndexesAre DEF n
  <2> QED BY <2>2 DEF OrderedIndexes
<1> HIDE DEF indexes, committed, sent, m
<1>4. missing \in Nat
  <2> DEFINE S == ActiveIndexes(sent)
             want == IF growGroup THEN 3 ELSE 1
             some == {0, want - Cardinality(S)}
  <2>1. Cardinality(S) \in Nat
    <3>1. S \in SUBSET (1..Len(sent.consumers)) /\ Len(sent.consumers) \in Nat
      BY <1>2 DEF ActiveIndexes, RunOk, PlacedRun
    <3> HIDE DEF S
    <3> QED BY <3>1, PlacesAre
  <2> HIDE DEF S
  <2>2. \E x \in some : \A y \in some : x >= y
    <3>1. CASE want - Cardinality(S) >= 0
      BY <2>1, <3>1
    <3>2. CASE ~(want - Cardinality(S) >= 0)
      BY <2>1, <3>2
    <3> QED BY <3>1, <3>2
  <2>3. Max(some) \in some /\ \A y \in some : Max(some) >= y
    <3> HIDE DEF some
    <3> QED BY <2>2 DEF Max
  <2>4. missing = Max(some)
    BY DEF S
  <2> QED BY <2>1, <2>3, <2>4
<1> HIDE DEF missing
<1>5. RunOk(added, choice) /\ Len(added.messages) = m
  BY <1>2, <1>4, AddedAll
<1> DEFINE done == ProcessedInTurn(added, indexes, committed)
<1>6. RunOk(done, choice) /\ Len(done.messages) = m
  <2> HIDE DEF added
  <2> QED BY <1>3, <1>5, ProcessedAll
<1> HIDE DEF done, added, q
<1>7. RunOk(q, choice) /\ Len(q.messages) = m
  BY <1>1, <1>2, <1>6 DEF done
<1> QED BY <1>7 DEF q, m

-----------------------------------------------------------------------------
(* partitioning: what is observed *)

\* A group whose members have the two partitions in turn.
GroupDealt(owners) ==
  /\ owners \in Seq(Range(owners))
  /\ \A i \in DOMAIN owners : owners[i].partitions = Dealt(0..1, Len(owners), i)

LEMMA GroupDealtOnce ==
  ASSUME NEW owners, GroupDealt(owners), owners # <<>>
  PROVE  OwnedOnce(owners, 0..1)
<1> DEFINE n == Len(owners)
           partitions == 0..1
<1>1. n \in Nat /\ DOMAIN owners = 1..n /\ n # 0
  BY DEF GroupDealt
<1>2. \A i \in 1..n : owners[i].partitions = Dealt(partitions, n, i)
  BY <1>1 DEF GroupDealt
<1>3. partitions \in SUBSET Nat
  OBVIOUS
<1> HIDE DEF n, partitions
<1>4. OwnedOnce(owners, partitions)
  BY <1>1, <1>2, <1>3, DealtOnce
<1> QED BY <1>4 DEF partitions

(* The members that are observed have the partitions in turn. *)
LEMMA MembersAre ==
  ASSUME NEW r, NEW choice, RunOk(r, choice), NEW simulate \in BOOLEAN
  PROVE  LET members == IF simulate THEN GuidedConsumers(r) ELSE Active(r) IN
         /\ Len(members) \in Nat /\ DOMAIN members = 1..Len(members)
         /\ \A i \in DOMAIN members : members[i].partitions = Dealt(0..1, Len(members), i)
<1>1. CASE simulate
  <2> DEFINE n == 3
             name(i) == Numbered("guided-consumer", i)
             members == [i \in 1..n |-> [consumerId |-> name(i), partitions |-> Dealt(0..1, n, i)]]
  <2>1. Partitions(r) = 0..1
    BY TwoPartitions DEF RunOk, PlacedRun
  <2>2. GuidedConsumers(r) = members
    BY <2>1 DEF GuidedConsumers
  <2>3. n \in Nat /\ Len(members) = n /\ DOMAIN members = 1..n
        /\ \A i \in 1..n : members[i].partitions = Dealt(0..1, n, i)
    OBVIOUS
  <2> HIDE DEF members, n
  <2> QED BY <1>1, <2>2, <2>3
<1>2. CASE ~simulate
  <2> DEFINE S == ActiveIndexes(r)
             m == Cardinality(S)
             order == InOrder(S)
             members == [i \in 1..m |-> r.consumers[order[i]]]
  <2>1. S \in SUBSET (1..Len(r.consumers)) /\ Len(r.consumers) \in Nat
    BY DEF ActiveIndexes, RunOk, PlacedRun
  <2>2. m \in Nat /\ Len(order) = m /\ DOMAIN order = 1..m /\ \A k \in 1..m : order[k] \in S /\ Place(order[k], S) = k
    <3> HIDE DEF S
    <3> QED BY <2>1, PlacesAre, InOrderIs
  <2> HIDE DEF order, m
  <2>3. Active(r) = members
    BY <2>2 DEF Active, Each, order, S
  <2>4. Len(members) = m /\ DOMAIN members = 1..m /\ \A i \in 1..m : members[i] = r.consumers[order[i]]
    BY <2>2
  <2> HIDE DEF members
  <2>5. \A i \in S : r.consumers[i].partitions = Dealt(0..1, m, Place(i, S))
    BY DEF RunOk, Grouped, m
  <2> HIDE DEF S
  <2>6. ASSUME NEW i \in 1..m PROVE members[i].partitions = Dealt(0..1, m, i)
    <3>1. order[i] \in S /\ Place(order[i], S) = i /\ members[i] = r.consumers[order[i]]
      BY <2>2, <2>4
    <3>2. r.consumers[order[i]].partitions = Dealt(0..1, m, Place(order[i], S))
      BY <2>5, <3>1
    <3> QED BY <3>1, <3>2
  <2>7. (IF simulate THEN GuidedConsumers(r) ELSE Active(r)) = members
    BY <1>2, <2>3
  <2> QED BY <2>2, <2>4, <2>6, <2>7
<1> QED BY <1>1, <1>2

LEMMA ObservedIs ==
  ASSUME NEW r, NEW choice, RunOk(r, choice), NEW indexes, OrderedIndexes(indexes, Len(r.messages)), NEW s,
         NEW simulate \in BOOLEAN
  PROVE  LET o == ObservedPartitioning(r, indexes, s, simulate)
         IN  SameKeySamePartition(o.routingTraces) /\ GroupDealt(o.consumers)
<1> DEFINE o == ObservedPartitioning(r, indexes, s, simulate)
           epoch == s.assignmentEpoch + 1
           members == IF simulate THEN GuidedConsumers(r) ELSE Active(r)
           at(n) == r.messages[indexes[n]]
           traces == [n \in DOMAIN indexes |->
                        route("routing-" \o at(n).messageId, at(n).messageId, at(n).key, at(n).partition, at(n).offset, n)]
           consumers == Each(members, LAMBDA c : consumer(c.consumerId, c.partitions, epoch))
<1>1. o.routingTraces = traces /\ o.consumers = consumers
  BY DEF ObservedPartitioning
<1>2. \A n \in DOMAIN indexes : traces[n].key = at(n).key /\ traces[n].partition = at(n).partition
                                /\ traces[n].offset = at(n).offset
  BY DEF route
<1>3. DOMAIN traces = DOMAIN indexes
  OBVIOUS
<1> HIDE DEF traces
<1>4. SameKeySamePartition(traces)
  <2> SUFFICES ASSUME NEW k \in DOMAIN indexes, NEW l \in DOMAIN indexes, at(k).key = at(l).key, k < l
               PROVE  at(k).partition = at(l).partition /\ at(k).offset < at(l).offset
    BY <1>2, <1>3 DEF SameKeySamePartition
  <2>1. MessagesOk(r.messages, r.nextOffset, choice) /\ DOMAIN r.messages = 1..Len(r.messages)
    BY DEF RunOk, PlacedRun, MessagesOk
  <2>2. indexes[k] \in DOMAIN r.messages /\ indexes[l] \in DOMAIN r.messages /\ indexes[k] < indexes[l]
    BY <2>1 DEF OrderedIndexes
  <2>3. at(k).partition = choice[at(k).key] /\ at(l).partition = choice[at(l).key]
    BY <2>1, <2>2 DEF MessagesOk, PlacedAs
  <2>4. at(k).offset < at(l).offset
    BY <2>1, <2>2 DEF MessagesOk
  <2> QED BY <2>3, <2>4
<1>5. GroupDealt(consumers)
  <2> DEFINE m == Len(members)
             row(c) == consumer(c.consumerId, c.partitions, epoch)
             rows == [i \in 1..m |-> row(members[i])]
  <2>1. m \in Nat /\ DOMAIN members = 1..m /\ \A i \in 1..m : members[i].partitions = Dealt(0..1, m, i)
    BY MembersAre
  <2> HIDE DEF members, m
  <2>2. consumers = rows
    BY <2>1 DEF Each, m
  <2>3. \A i \in 1..m : rows[i].partitions = Dealt(0..1, m, i)
    BY <2>1 DEF consumer
  <2>4. DOMAIN rows = 1..m /\ rows = [i \in 1..m |-> rows[i]]
    OBVIOUS
  <2> HIDE DEF rows
  <2>5. \A i \in 1..m : rows[i] \in Range(rows)
    BY <2>4 DEF Range
  <2>6. rows \in Seq(Range(rows)) /\ Len(rows) = m
    BY <2>1, <2>4, <2>5, SequenceOf
  <2> QED BY <2>2, <2>3, <2>4, <2>6 DEF GroupDealt
<1> HIDE DEF o, consumers
<1> QED BY <1>1, <1>4, <1>5 DEF o

PartitioningOk(s) ==
  /\ CommonFields \union {"routingTraces", "partitionPositions", "consumers", "assignmentEpoch"} \subseteq DOMAIN s
  /\ SameKeySamePartition(s.routingTraces) /\ GroupDealt(s.consumers)

LEMMA PartitioningStep ==
  ASSUME NEW s, PartitioningOk(s), NEW e, NEW o, SameKeySamePartition(o.routingTraces), GroupDealt(o.consumers)
  PROVE  PartitioningOk(buildPartitioningExperiment(s, e, s.virtualTimeMs, {o}).state)
<1> DEFINE at == s.virtualTimeMs
           growGroup == e = "grow-consumer-group"
           ts == PartitioningTransitions(growGroup, o)
           built == [s EXCEPT !.routingTraces = o.routingTraces, !.partitionPositions = o.partitionPositions,
                              !.consumers = o.consumers, !.assignmentEpoch = o.assignmentEpoch]
           t == Result(built, e, at, ts).state
<1>1. The({o}) = o /\ {o} # {}
  BY DEF The
<1>2. t = buildPartitioningExperiment(s, e, at, {o}).state
  BY <1>1 DEF buildPartitioningExperiment
<1> HIDE DEF ts
<1>3. DOMAIN built = DOMAIN s /\ built.routingTraces = o.routingTraces /\ built.consumers = o.consumers
  BY DEF PartitioningOk
<1> HIDE DEF built
<1>4. DOMAIN t = DOMAIN s /\ t.routingTraces = o.routingTraces /\ t.consumers = o.consumers
  BY <1>3, ResultIs DEF PartitioningOk, CommonFields
<1> HIDE DEF t
<1> QED BY <1>2, <1>4 DEF PartitioningOk

-----------------------------------------------------------------------------
(* The states that scenarios start from *)

\* A state has the fields of the rest.
HasAll(s, rest) == \A field \in DOMAIN rest : s[field] = rest[field]

LEMMA JoinedIs ==
  ASSUME NEW id, NEW rest, DOMAIN rest \intersect CommonFields = {}
  PROVE  LET s == Joined(base(id), rest) IN
         /\ DOMAIN s = CommonFields \union DOMAIN rest
         /\ s.scenarioId = id /\ s.virtualTimeMs = 0
         /\ HasAll(s, rest)
<1> DEFINE first == base(id)
           s == Joined(first, rest)
<1>1. DOMAIN first = CommonFields /\ first.scenarioId = id /\ first.virtualTimeMs = 0
  BY DEF base, CommonFields
<1> HIDE DEF first
<1>2. s = [field \in DOMAIN first \union DOMAIN rest |-> IF field \in DOMAIN rest THEN rest[field] ELSE first[field]]
  BY DEF Joined
<1>3. "scenarioId" \in CommonFields \ DOMAIN rest /\ "virtualTimeMs" \in CommonFields \ DOMAIN rest
  BY DEF CommonFields
<1> HIDE DEF s
<1> QED BY <1>1, <1>2, <1>3 DEF s, first, HasAll

\* Of the scenarios whose groups, logs or times are spoken of, what a state has.
ScenarioOk(s) ==
  /\ CommonFields \subseteq DOMAIN s
  /\ s.scenarioId = "partitioning" => PartitioningOk(s)
  /\ s.scenarioId = "fan-out-load-balancing" => FanOutOk(s)
  /\ s.scenarioId = "retry-dead-letter-queues" => RetryOk(s)
  /\ s.scenarioId = "transactional-producers" => TransactionsOk(s)
  /\ s.scenarioId = "event-replay-sourcing" => ReplayOk(s)
  /\ s.scenarioId = "consumer-lag-backpressure" => LagOk(s)
  /\ s.scenarioId = "log-compaction-tombstones" => CompactionOk(s)
  /\ s.scenarioId = "retention-data-loss" => RetentionOk(s)
  /\ s.scenarioId = "cooperative-rebalancing" => CooperativeOk(s)

LEMMA NoRows ==
  /\ Range(<<>>) = {} /\ DistinctIds(<<>>) /\ <<>> \in Seq(Range(<<>>))
  /\ SameKeySamePartition(<<>>) /\ GroupDealt(<<>>)
BY DEF Range, DistinctIds, SameKeySamePartition, GroupDealt

LEMMA InitialState ==
  ASSUME NEW id \in scenarioStateIds
  PROVE  LET s == createInitialScenarioState(id, SCENARIOS[id].partitions)
         IN  s.scenarioId = id /\ ScenarioOk(s)
<1> DEFINE n == SCENARIOS[id].partitions
           s == createInitialScenarioState(id, n)
<1>1. CASE id = "partitioning"
  <2> DEFINE positions == [i \in 1..n |-> Position(i - 1, Null, Null)]
             rest == [routingTraces |-> <<>>, consumers |-> <<>>, assignmentEpoch |-> 0, partitionPositions |-> positions]
  <2>1. s = Joined(base(id), rest)
    BY <1>1 DEF createInitialScenarioState, PerPartition
  <2> HIDE DEF positions, s
  <2>2. DOMAIN rest \intersect CommonFields = {}
        /\ DOMAIN rest = {"routingTraces", "consumers", "assignmentEpoch", "partitionPositions"}
        /\ rest.routingTraces = <<>> /\ rest.consumers = <<>>
    BY DEF CommonFields
  <2> HIDE DEF rest
  <2>3. DOMAIN s = CommonFields \union DOMAIN rest /\ s.scenarioId = id /\ s.routingTraces = <<>> /\ s.consumers = <<>>
    <3>1. /\ DOMAIN s = CommonFields \union DOMAIN rest /\ s.scenarioId = id /\ s.virtualTimeMs = 0
          /\ HasAll(s, rest)
      BY <2>1, <2>2, JoinedIs
    <3> QED BY <2>2, <3>1 DEF HasAll
  <2>4. PartitioningOk(s)
    BY <2>2, <2>3, NoRows DEF PartitioningOk
  <2> QED BY <1>1, <2>3, <2>4 DEF ScenarioOk, s
<1>2. CASE id = "fan-out-load-balancing"
  <2> DEFINE rest == [epochs |-> <<>>]
  <2>1. s = Joined(base(id), rest)
    BY <1>2 DEF createInitialScenarioState
  <2> HIDE DEF s
  <2>2. DOMAIN rest \intersect CommonFields = {} /\ DOMAIN rest = {"epochs"} /\ rest.epochs = <<>>
    BY DEF CommonFields
  <2> HIDE DEF rest
  <2>3. DOMAIN s = CommonFields \union DOMAIN rest /\ s.scenarioId = id /\ s.epochs = <<>>
    <3>1. /\ DOMAIN s = CommonFields \union DOMAIN rest /\ s.scenarioId = id /\ s.virtualTimeMs = 0
          /\ HasAll(s, rest)
      BY <2>1, <2>2, JoinedIs
    <3> QED BY <2>2, <3>1 DEF HasAll
  <2>4. FanOutOk(s)
    BY <2>2, <2>3, NoRows DEF FanOutOk
  <2> QED BY <1>2, <2>3, <2>4 DEF ScenarioOk, s
<1>3. CASE id = "retry-dead-letter-queues"
  <2> DEFINE rest == [records |-> <<>>]
  <2>1. s = Joined(base(id), rest)
    BY <1>3 DEF createInitialScenarioState
  <2> HIDE DEF s
  <2>2. DOMAIN rest \intersect CommonFields = {} /\ DOMAIN rest = {"records"} /\ rest.records = <<>>
    BY DEF CommonFields
  <2> HIDE DEF rest
  <2>3. DOMAIN s = CommonFields \union DOMAIN rest /\ s.scenarioId = id /\ s.records = <<>>
    <3>1. /\ DOMAIN s = CommonFields \union DOMAIN rest /\ s.scenarioId = id /\ s.virtualTimeMs = 0
          /\ HasAll(s, rest)
      BY <2>1, <2>2, JoinedIs
    <3> QED BY <2>2, <3>1 DEF HasAll
  <2>4. RetryOk(s)
    BY <2>2, <2>3, NoRows DEF RetryOk
  <2> QED BY <1>3, <2>3, <2>4 DEF ScenarioOk, s
<1>4. CASE id = "transactional-producers"
  <2> DEFINE rest == [transactions |-> <<>>]
  <2>1. s = Joined(base(id), rest)
    BY <1>4 DEF createInitialScenarioState
  <2> HIDE DEF s
  <2>2. DOMAIN rest \intersect CommonFields = {} /\ DOMAIN rest = {"transactions"} /\ rest.transactions = <<>>
    BY DEF CommonFields
  <2> HIDE DEF rest
  <2>3. DOMAIN s = CommonFields \union DOMAIN rest /\ s.scenarioId = id /\ s.transactions = <<>>
    <3>1. /\ DOMAIN s = CommonFields \union DOMAIN rest /\ s.scenarioId = id /\ s.virtualTimeMs = 0
          /\ HasAll(s, rest)
      BY <2>1, <2>2, JoinedIs
    <3> QED BY <2>2, <3>1 DEF HasAll
  <2>4. TransactionsOk(s)
    BY <2>2, <2>3, NoRows DEF TransactionsOk
  <2> QED BY <1>4, <2>3, <2>4 DEF ScenarioOk, s
<1>5. CASE id = "event-replay-sourcing"
  <2> DEFINE rest == [log |-> <<>>, cursor |-> Null, projection |-> <<>>, rebuildInProgress |-> FALSE, producedCount |-> 0]
  <2>1. s = Joined(base(id), rest)
    BY <1>5 DEF createInitialScenarioState
  <2> HIDE DEF s
  <2>2. DOMAIN rest \intersect CommonFields = {}
        /\ DOMAIN rest = {"log", "cursor", "projection", "rebuildInProgress", "producedCount"}
        /\ rest.log = <<>> /\ rest.cursor = Null /\ rest.projection = <<>> /\ rest.producedCount = 0
    BY DEF CommonFields
  <2> HIDE DEF rest
  <2>3. DOMAIN s = CommonFields \union DOMAIN rest /\ s.scenarioId = id
        /\ s.log = <<>> /\ s.cursor = Null /\ s.projection = <<>> /\ s.producedCount = 0
    <3>1. /\ DOMAIN s = CommonFields \union DOMAIN rest /\ s.scenarioId = id /\ s.virtualTimeMs = 0
          /\ HasAll(s, rest)
      BY <2>1, <2>2, JoinedIs
    <3> QED BY <2>2, <3>1 DEF HasAll
  <2>4. s.projection = [a \in {e.aggregateId : e \in Range(s.log)} |-> Total(DeltasOf(a, s.log))]
    <3> DEFINE sum(a) == Total(DeltasOf(a, s.log))
               ids == {e.aggregateId : e \in Range(s.log)}
    <3>1. ids = {}
      BY <2>3, NoRows
    <3> HIDE DEF sum, ids
    <3>2. [a \in ids |-> sum(a)] = <<>>
      BY <3>1
    <3> QED BY <2>3, <3>2 DEF sum, ids
  <2>5. ReplayAgrees(s)
    <3> DEFINE sum(a) == Total(DeltasOf(a, s.log))
    <3>1. s.projection = [a \in {e.aggregateId : e \in Range(s.log)} |-> sum(a)]
      BY <2>4
    <3> HIDE DEF sum
    <3>2. DOMAIN s.log = {} /\ Len(s.log) = 0
      BY <2>3
    <3> QED BY <2>3, <3>1, <3>2 DEF ReplayAgrees, sum
  <2>6. ReplayOk(s)
    BY <2>2, <2>3, <2>5, NoRows DEF ReplayOk, ReplayFields
  <2> QED BY <1>5, <2>3, <2>6 DEF ScenarioOk, s
<1>6. CASE id = "consumer-lag-backpressure"
  <2> DEFINE partitions == [i \in 1..n |-> LagPartition(i - 1, 0, 0)]
             rest == [samples |-> <<>>, consumerCount |-> 1, drainEstimateMs |-> Null, partitions |-> partitions]
  <2>1. s = Joined(base(id), rest)
    BY <1>6 DEF createInitialScenarioState, PerPartition
  <2>2. n = 3
    BY <1>6 DEF SCENARIOS, Scenario
  <2>3. DOMAIN partitions = 1..3 /\ \A i \in 1..3 : partitions[i].partition = i - 1
    BY <2>2 DEF LagPartition
  <2> HIDE DEF partitions, s
  <2>4. DOMAIN rest \intersect CommonFields = {}
        /\ DOMAIN rest = {"samples", "consumerCount", "drainEstimateMs", "partitions"}
        /\ rest.samples = <<>> /\ rest.partitions = partitions
    BY DEF CommonFields
  <2> HIDE DEF rest
  <2>5. DOMAIN s = CommonFields \union DOMAIN rest /\ s.scenarioId = id /\ s.virtualTimeMs = 0
        /\ s.samples = <<>> /\ s.partitions = partitions
    <3>1. /\ DOMAIN s = CommonFields \union DOMAIN rest /\ s.scenarioId = id /\ s.virtualTimeMs = 0
          /\ HasAll(s, rest)
      BY <2>1, <2>4, JoinedIs
    <3> QED BY <2>4, <3>1 DEF HasAll
  <2>6. SamplesOk(s.samples, s.virtualTimeMs) /\ Ordered(s.samples)
    BY <2>5, NoRows DEF SamplesOk, Ordered
  <2>7. LagAgrees(s)
    BY <2>5 DEF LagAgrees
  <2>8. LagOk(s)
    BY <2>3, <2>4, <2>5, <2>6, <2>7 DEF LagOk, LagFields
  <2> QED BY <1>6, <2>5, <2>8 DEF ScenarioOk, s
<1>7. CASE id = "log-compaction-tombstones"
  <2> DEFINE rest == [rawLog |-> <<>>, materialized |-> <<>>, cleanerPasses |-> <<>>]
  <2>1. s = Joined(base(id), rest)
    BY <1>7 DEF createInitialScenarioState
  <2> HIDE DEF s
  <2>2. DOMAIN rest \intersect CommonFields = {} /\ DOMAIN rest = {"rawLog", "materialized", "cleanerPasses"}
        /\ rest.cleanerPasses = <<>>
    BY DEF CommonFields
  <2> HIDE DEF rest
  <2>3. DOMAIN s = CommonFields \union DOMAIN rest /\ s.scenarioId = id /\ s.cleanerPasses = <<>>
    <3>1. /\ DOMAIN s = CommonFields \union DOMAIN rest /\ s.scenarioId = id /\ s.virtualTimeMs = 0
          /\ HasAll(s, rest)
      BY <2>1, <2>2, JoinedIs
    <3> QED BY <2>2, <3>1 DEF HasAll
  <2>4. CompactionOk(s)
    BY <2>2, <2>3, NoRows DEF CompactionOk
  <2> QED BY <1>7, <2>3, <2>4 DEF ScenarioOk, s
<1>8. CASE id = "retention-data-loss"
  <2> DEFINE rest == [records |-> <<>>, retentionMs |-> 60000, cutoffVirtualMs |-> 0, logStartOffset |-> 0,
                      committedOffset |-> 0, error |-> Null, lastOffsetOutOfRange |-> Null]
  <2>1. s = Joined(base(id), rest)
    BY <1>8 DEF createInitialScenarioState
  <2> HIDE DEF s
  <2>11. DOMAIN rest \intersect CommonFields = {}
    BY DEF CommonFields
  <2>2. DOMAIN rest = {"records", "retentionMs", "cutoffVirtualMs", "logStartOffset", "committedOffset", "error",
                     "lastOffsetOutOfRange"}
        /\ rest.records = <<>> /\ rest.retentionMs = 60000 /\ rest.cutoffVirtualMs = 0 /\ rest.logStartOffset = 0
    OBVIOUS
  <2> HIDE DEF rest
  <2>3. DOMAIN s = CommonFields \union DOMAIN rest /\ s.scenarioId = id /\ s.virtualTimeMs = 0
        /\ s.records = <<>> /\ s.retentionMs = 60000 /\ s.cutoffVirtualMs = 0 /\ s.logStartOffset = 0
    <3>1. /\ DOMAIN s = CommonFields \union DOMAIN rest /\ s.scenarioId = id /\ s.virtualTimeMs = 0
          /\ HasAll(s, rest)
      BY <2>1, <2>11, JoinedIs
    <3> QED BY <2>2, <3>1 DEF HasAll
  <2>4. RetentionOk(s)
    BY <2>2, <2>3 DEF RetentionOk, RetentionFields
  <2> QED BY <1>8, <2>3, <2>4 DEF ScenarioOk, s
<1>9. CASE id = "cooperative-rebalancing"
  <2> DEFINE rest == [comparisons |-> <<>>]
  <2>1. s = Joined(base(id), rest)
    BY <1>9 DEF createInitialScenarioState
  <2> HIDE DEF s
  <2>2. DOMAIN rest \intersect CommonFields = {} /\ DOMAIN rest = {"comparisons"} /\ rest.comparisons = <<>>
    BY DEF CommonFields
  <2> HIDE DEF rest
  <2>3. DOMAIN s = CommonFields \union DOMAIN rest /\ s.scenarioId = id /\ s.comparisons = <<>>
    <3>1. /\ DOMAIN s = CommonFields \union DOMAIN rest /\ s.scenarioId = id /\ s.virtualTimeMs = 0
          /\ HasAll(s, rest)
      BY <2>1, <2>2, JoinedIs
    <3> QED BY <2>2, <3>1 DEF HasAll
  <2>4. CooperativeOk(s)
    BY <2>2, <2>3, NoRows DEF CooperativeOk
  <2> QED BY <1>9, <2>3, <2>4 DEF ScenarioOk, s
<1>10. CASE id \in {"at-least-once-duplicates", "schema-evolution-karapace", "hot-partitions-key-skew",
                    "streams-joins-windows", "outbox-cdc", "acl-least-privilege"}
  <2> DEFINE policies == <<Policy("policy-orders-read", "read")>>
             rest ==
               CASE id = "at-least-once-duplicates" -> [deliveries |-> <<>>, sideEffects |-> <<>>]
                 [] id = "schema-evolution-karapace" ->
                      [activeVersion |-> 1, topicRecordCount |-> 0, attempts |-> <<>>]
                 [] id = "hot-partitions-key-skew" -> [phases |-> <<>>]
                 [] id = "streams-joins-windows" ->
                      [inputs |-> <<>>, windows |-> <<>>, joins |-> <<>>, lateRecords |-> <<>>]
                 [] id = "outbox-cdc" ->
                      [dbTransactions |-> <<>>, wal |-> <<>>, connectorAttempts |-> <<>>, publishes |-> <<>>,
                       dedupeLedger |-> <<>>]
                 [] id = "acl-least-privilege" ->
                      [policies |-> policies, attempts |-> <<>>, lastHighlightedCell |-> Null]
  <2>1. s = Joined(base(id), rest)
    BY <1>10 DEF createInitialScenarioState
  <2> HIDE DEF s, policies
  <2>2. DOMAIN rest \intersect CommonFields = {}
    BY <1>10 DEF CommonFields
  <2> HIDE DEF rest
  <2>3. DOMAIN s = CommonFields \union DOMAIN rest /\ s.scenarioId = id
    BY <2>1, <2>2, JoinedIs
  <2> QED BY <1>10, <2>3 DEF ScenarioOk, s
<1> QED BY <1>1, <1>2, <1>3, <1>4, <1>5, <1>6, <1>7, <1>8, <1>9, <1>10 DEF scenarioStateIds

-----------------------------------------------------------------------------
(* What an experiment builds *)

\* What the experiments of the first two scenarios see of their runs.
ObservationsOk(s, observations) ==
  /\ s.scenarioId = "partitioning" =>
       \E o \in observations :
         observations = {o} /\ SameKeySamePartition(o.routingTraces) /\ GroupDealt(o.consumers)
  /\ s.scenarioId = "fan-out-load-balancing" =>
       (observations # {} => The(observations).epochs \in {<<>>, [members \in 1..4 |-> Epoch(members, 0..2)]})

(* From a state as it should be an experiment makes one like it. *)
LEMMA BuiltIsOk ==
  ASSUME NEW s, ScenarioOk(s), NEW e, NEW observations, ObservationsOk(s, observations)
  PROVE  ScenarioOk(Built(s, e, observations).state)
<1> DEFINE at == s.virtualTimeMs
           t == Built(s, e, observations).state
<1>1. CommonFields \subseteq DOMAIN s
  BY DEF ScenarioOk
<1>2. CommonFields \subseteq DOMAIN t /\ t.scenarioId = s.scenarioId
  BY <1>1, BuiltIsAlike DEF Alike
<1>3. s.scenarioId = "partitioning" => PartitioningOk(t)
  <2> SUFFICES ASSUME s.scenarioId = "partitioning" PROVE PartitioningOk(t)
    OBVIOUS
  <2>1. PartitioningOk(s)
    BY DEF ScenarioOk
  <2>2. PICK o \in observations :
          observations = {o} /\ SameKeySamePartition(o.routingTraces) /\ GroupDealt(o.consumers)
    BY DEF ObservationsOk
  <2>3. t = buildPartitioningExperiment(s, e, at, observations).state
    BY DEF Built
  <2> QED BY <2>1, <2>2, <2>3, PartitioningStep
<1>4. s.scenarioId = "fan-out-load-balancing" => FanOutOk(t)
  <2> SUFFICES ASSUME s.scenarioId = "fan-out-load-balancing" PROVE FanOutOk(t)
    OBVIOUS
  <2>1. t = buildLoadBalancingExperiment(s, e, at, observations).state
    BY DEF Built
  <2>2. FanOutOk(s)
    BY DEF ScenarioOk
  <2>3. observations # {} => The(observations).epochs \in {<<>>, [members \in 1..4 |-> Epoch(members, 0..2)]}
    BY DEF ObservationsOk
  <2>4. FanOutOk(buildLoadBalancingExperiment(s, e, at, observations).state)
    BY <2>2, <2>3, FanOutStep
  <2> QED BY <2>1, <2>4
<1>5. s.scenarioId = "retry-dead-letter-queues" => RetryOk(t)
  <2> SUFFICES ASSUME s.scenarioId = "retry-dead-letter-queues" PROVE RetryOk(t)
    OBVIOUS
  <2>1. t = buildRetryDeadLetterExperiment(s, e, at).state
    BY DEF Built
  <2> QED BY <2>1, RetryStep DEF ScenarioOk
<1>6. s.scenarioId = "transactional-producers" => TransactionsOk(t)
  <2> SUFFICES ASSUME s.scenarioId = "transactional-producers" PROVE TransactionsOk(t)
    OBVIOUS
  <2>1. t = buildTransactionalProducerExperiment(s, e, at).state
    BY DEF Built
  <2> QED BY <2>1, TransactionsStep DEF ScenarioOk
<1>7. s.scenarioId = "event-replay-sourcing" => ReplayOk(t)
  <2> SUFFICES ASSUME s.scenarioId = "event-replay-sourcing" PROVE ReplayOk(t)
    OBVIOUS
  <2>1. t = buildEventReplayExperiment(s, e, at).state
    BY DEF Built
  <2> QED BY <2>1, ReplayStep DEF ScenarioOk
<1>8. s.scenarioId = "consumer-lag-backpressure" => LagOk(t)
  <2> SUFFICES ASSUME s.scenarioId = "consumer-lag-backpressure" PROVE LagOk(t)
    OBVIOUS
  <2>1. t = buildConsumerLagExperiment(s, e, at).state
    BY DEF Built
  <2> QED BY <2>1, LagStep DEF ScenarioOk
<1>9. s.scenarioId = "log-compaction-tombstones" => CompactionOk(t)
  <2> SUFFICES ASSUME s.scenarioId = "log-compaction-tombstones" PROVE CompactionOk(t)
    OBVIOUS
  <2>1. t = buildLogCompactionExperiment(s, e, at).state
    BY DEF Built
  <2> QED BY <2>1, CompactionStep DEF ScenarioOk
<1>10. s.scenarioId = "retention-data-loss" => RetentionOk(t)
  <2> SUFFICES ASSUME s.scenarioId = "retention-data-loss" PROVE RetentionOk(t)
    OBVIOUS
  <2>1. t = buildRetentionExperiment(s, e, at).state
    BY DEF Built
  <2> QED BY <2>1, RetentionStep DEF ScenarioOk
<1>11. s.scenarioId = "cooperative-rebalancing" => CooperativeOk(t)
  <2> SUFFICES ASSUME s.scenarioId = "cooperative-rebalancing" PROVE CooperativeOk(t)
    OBVIOUS
  <2>1. t = buildCooperativeRebalancingExperiment(s, e, at).state
    BY DEF Built
  <2> QED BY <2>1, CooperativeStep DEF ScenarioOk
<1> HIDE DEF t
<1> QED BY <1>2, <1>3, <1>4, <1>5, <1>6, <1>7, <1>8, <1>9, <1>10, <1>11 DEF ScenarioOk, t

\* The rows that an experiment that takes s to t writes say the times of its transitions.
RowsFollow(s, t, ts) ==
  /\ s.scenarioId = "retry-dead-letter-queues" =>
       \A r \in Fresh(t.records, s.records) :
         \A hop \in Range(r.route) : hop.atVirtualMs \in TimesFrom(s.virtualTimeMs, ts)
  /\ s.scenarioId = "consumer-lag-backpressure" =>
       \A x \in Fresh(t.samples, s.samples) : x.atVirtualMs \in TimesFrom(s.virtualTimeMs, ts)
  /\ s.scenarioId = "log-compaction-tombstones" =>
       \A pass \in Fresh(t.cleanerPasses, s.cleanerPasses) : pass.atVirtualMs = t.virtualTimeMs
  /\ s.scenarioId = "retention-data-loss" =>
       (t.cutoffVirtualMs # s.cutoffVirtualMs => t.cutoffVirtualMs = t.virtualTimeMs - t.retentionMs)

LEMMA BuiltFollows ==
  ASSUME NEW s, ScenarioOk(s), NEW e, NEW observations
  PROVE  LET result == Built(s, e, observations) IN
         /\ RowsFollow(s, result.state, result.transitions)
         /\ s.scenarioId = "retention-data-loss" => result.state.logStartOffset >= s.logStartOffset
<1> DEFINE at == s.virtualTimeMs
           result == Built(s, e, observations)
<1>1. CASE s.scenarioId = "retry-dead-letter-queues"
  <2>1. result = buildRetryDeadLetterExperiment(s, e, at)
    BY <1>1 DEF Built
  <2> HIDE DEF result
  <2>2. \A r \in Fresh(result.state.records, s.records) :
          \A hop \in Range(r.route) : hop.atVirtualMs \in TimesFrom(at, result.transitions)
    BY <1>1, <2>1, RetryStep DEF ScenarioOk
  <2> QED BY <1>1, <2>2 DEF RowsFollow, result
<1>2. CASE s.scenarioId = "consumer-lag-backpressure"
  <2>1. result = buildConsumerLagExperiment(s, e, at)
    BY <1>2 DEF Built
  <2> HIDE DEF result
  <2>2. \A x \in Fresh(result.state.samples, s.samples) : x.atVirtualMs \in TimesFrom(at, result.transitions)
    BY <1>2, <2>1, LagStep DEF ScenarioOk
  <2> QED BY <1>2, <2>2 DEF RowsFollow, result
<1>3. CASE s.scenarioId = "log-compaction-tombstones"
  <2>1. result = buildLogCompactionExperiment(s, e, at)
    BY <1>3 DEF Built
  <2> HIDE DEF result
  <2>2. \A pass \in Fresh(result.state.cleanerPasses, s.cleanerPasses) : pass.atVirtualMs = result.state.virtualTimeMs
    BY <1>3, <2>1, CompactionStep DEF ScenarioOk
  <2> QED BY <1>3, <2>2 DEF RowsFollow, result
<1>4. CASE s.scenarioId = "retention-data-loss"
  <2>1. result = buildRetentionExperiment(s, e, at)
    BY <1>4 DEF Built
  <2> HIDE DEF result
  <2>2. /\ result.state.logStartOffset >= s.logStartOffset
        /\ result.state.cutoffVirtualMs # s.cutoffVirtualMs =>
             result.state.cutoffVirtualMs = result.state.virtualTimeMs - result.state.retentionMs
    BY <1>4, <2>1, RetentionStep DEF ScenarioOk
  <2> QED BY <1>4, <2>2 DEF RowsFollow, result
<1>5. CASE s.scenarioId \notin {"retry-dead-letter-queues", "consumer-lag-backpressure", "log-compaction-tombstones",
                                "retention-data-loss"}
  <2> HIDE DEF result
  <2> QED BY <1>5 DEF RowsFollow, result
<1> QED BY <1>1, <1>2, <1>3, <1>4, <1>5
-----------------------------------------------------------------------------
(* The run that an experiment leaves, and what it sees *)

\* Of the run that a scenario observes.
RunsOk(id, r, choice) ==
  /\ id = "partitioning" => choice \in [{"A", "B"} -> 0..1] /\ RunOk(r, choice)
  /\ id = "fan-out-load-balancing" => RunFields \subseteq DOMAIN r /\ r.partitionCount = 3

LEMMA EmptyRunIs ==
  ASSUME NEW id \in scenarioStateIds,
         NEW choice, id = "partitioning" => choice \in [{"A", "B"} -> Partitions(EmptyRun(SCENARIOS[id].partitions))]
  PROVE  RunsOk(id, EmptyRun(SCENARIOS[id].partitions), choice)
<1> DEFINE n == SCENARIOS[id].partitions
           r == EmptyRun(n)
<1>1. CASE id = "partitioning"
  <2>1. n = 2
    BY <1>1 DEF SCENARIOS, Scenario
  <2>2. /\ RunFields \subseteq DOMAIN r /\ r.partitionCount = 2 /\ r.messages = <<>> /\ r.consumers = <<>>
        /\ r.nextOffset \in [0..1 -> Nat]
    BY <2>1 DEF EmptyRun, RunFields
  <2> HIDE DEF r
  <2>3. choice \in [{"A", "B"} -> 0..1]
    BY <1>1, <2>2, TwoPartitions DEF r
  <2>4. MessagesOk(r.messages, r.nextOffset, choice)
    BY <2>2, NoRows DEF MessagesOk
  <2>5. ActiveIndexes(r) = {}
    BY <2>2 DEF ActiveIndexes
  <2>6. RunOk(r, choice)
    BY <2>2, <2>4, <2>5, NoRows DEF RunOk, PlacedRun, Grouped
  <2> QED BY <1>1, <2>3, <2>6 DEF RunsOk, r
<1>2. CASE id = "fan-out-load-balancing"
  <2>1. n = 3
    BY <1>2 DEF SCENARIOS, Scenario
  <2>2. RunFields \subseteq DOMAIN r /\ r.partitionCount = 3
    BY <2>1 DEF EmptyRun, RunFields
  <2> HIDE DEF r
  <2> QED BY <1>2, <2>2 DEF RunsOk, r
<1>3. CASE id \notin {"partitioning", "fan-out-load-balancing"}
  BY <1>3 DEF RunsOk
<1> QED BY <1>1, <1>2, <1>3

(* A burst produces as often as it has records, and keeps the rest of the run. *)
LEMMA BurstKeepsRun ==
  ASSUME NEW r, RunFields \subseteq DOMAIN r, NEW e, NEW choice
  PROVE  SameRun(r, BurstRun(r, e, choice))
<1>1. CASE e # "produce-unkeyed-burst"
  BY <1>1 DEF BurstRun, SameRun
<1>2. CASE e = "produce-unkeyed-burst"
  <2> DEFINE keys == <<Null, Null, Null>>
             q == ProducedInTurn(r, keys, choice)
  <2>1. Len(keys) = 3
    OBVIOUS
  <2> HIDE DEF keys
  <2>2. PICK f : /\ f[0] = r /\ f[1] = Produced(f[0], keys[1], choice) /\ f[2] = Produced(f[1], keys[2], choice)
                 /\ f[3] = Produced(f[2], keys[3], choice) /\ q = f[3]
    BY <2>1, ThreeProduced
  <2> HIDE DEF q
  <2>3. SameRun(r, f[1])
    BY <2>2, ProducedKeepsRun
  <2>4. SameRun(f[1], f[2])
    BY <2>2, <2>3, ProducedKeepsRun DEF SameRun
  <2>5. SameRun(f[2], f[3])
    BY <2>2, <2>3, <2>4, ProducedKeepsRun DEF SameRun
  <2>6. SameRun(r, q)
    BY <2>2, <2>3, <2>4, <2>5 DEF SameRun
  <2> QED BY <1>2, <2>6 DEF BurstRun, q, keys
<1> QED BY <1>1, <1>2

LEMMA PartitioningObserved ==
  ASSUME state.scenarioId = "partitioning", RunsOk(state.scenarioId, run, partitionOf), NEW e
  PROVE  RunsOk(state.scenarioId, Observed(e).run, partitionOf) /\ ObservationsOk(state, Observed(e).seen)
<1> DEFINE growGroup == e = "grow-consumer-group"
           after == PartitioningRun(run, state, growGroup, consumerLimit, partitionOf)
           simulate == growGroup /\ consumerLimit < 3
           indexes == ProducedIndexes(run, state, growGroup)
           o == ObservedPartitioning(after, indexes, state, simulate)
<1>1. growGroup \in BOOLEAN /\ simulate \in BOOLEAN
  OBVIOUS
<1>2. Observed(e).run = after /\ Observed(e).seen = {o}
  BY DEF Observed, scenarioId
<1>3. partitionOf \in [{"A", "B"} -> 0..1] /\ RunOk(run, partitionOf)
  BY DEF RunsOk
<1>4. /\ Len(run.messages) \in Nat /\ DOMAIN run.messages = 1..Len(run.messages)
  BY <1>3 DEF RunOk, PlacedRun, MessagesOk
<1> HIDE DEF growGroup, simulate
<1>5. RunOk(after, partitionOf)
      /\ Len(after.messages) = IF growGroup THEN Len(run.messages) ELSE Len(run.messages) + 3
  BY <1>1, <1>3, PartitioningRunKeeps
<1>6. OrderedIndexes(indexes, IF growGroup THEN Len(run.messages) ELSE Len(run.messages) + 3)
  <2> DEFINE n == Len(run.messages)
  <2>1. n \in Nat /\ DOMAIN run.messages = 1..n /\ Len(run.messages) = n
    BY <1>4
  <2> HIDE DEF n
  <2>2. OrderedIndexes(indexes, IF growGroup THEN n ELSE n + 3)
    BY <1>1, <2>1, ProducedIndexesAre
  <2> QED BY <2>2 DEF n
<1> HIDE DEF after, indexes
<1>7. OrderedIndexes(indexes, Len(after.messages))
  BY <1>5, <1>6
<1>8. SameKeySamePartition(o.routingTraces) /\ GroupDealt(o.consumers)
  BY <1>1, <1>5, <1>7, ObservedIs
<1> HIDE DEF o
<1>9. ObservationsOk(state, Observed(e).seen)
  BY <1>2, <1>8 DEF ObservationsOk
<1>10. RunsOk(state.scenarioId, Observed(e).run, partitionOf)
  BY <1>2, <1>3, <1>5 DEF RunsOk
<1> QED BY <1>9, <1>10

LEMMA FanOutObserved ==
  ASSUME state.scenarioId = "fan-out-load-balancing", RunsOk(state.scenarioId, run, partitionOf), NEW e
  PROVE  RunsOk(state.scenarioId, Observed(e).run, partitionOf) /\ ObservationsOk(state, Observed(e).seen)
<1> DEFINE after == BurstRun(run, e, partitionOf)
           o == ObservedLoadBalancing(run, after, e)
           all == [members \in 1..4 |-> Epoch(members, 0..2)]
<1>1. Observed(e).run = after /\ Observed(e).seen = {o}
  BY DEF Observed, scenarioId
<1>2. RunFields \subseteq DOMAIN run /\ run.partitionCount = 3
  BY DEF RunsOk
<1>3. SameRun(run, after)
  BY <1>2, BurstKeepsRun
<1>4. o.epochs = IF e = "grow-consumer-group" THEN [members \in 1..4 |-> Epoch(members, Partitions(run))] ELSE <<>>
  <2> HIDE DEF after
  <2> QED BY DEF ObservedLoadBalancing
<1>5. Partitions(run) = 0..2
  BY <1>2 DEF Partitions
<1> HIDE DEF after, o
<1>6. o.epochs \in {<<>>, all}
  <2> DEFINE partitions == Partitions(run)
  <2>1. partitions = 0..2
    BY <1>5
  <2>2. o.epochs = IF e = "grow-consumer-group" THEN [members \in 1..4 |-> Epoch(members, partitions)] ELSE <<>>
    BY <1>4
  <2> HIDE DEF partitions
  <2> QED BY <2>1, <2>2
<1>7. The(Observed(e).seen) = o
  BY <1>1 DEF The
<1> HIDE DEF all
<1>8. ObservationsOk(state, Observed(e).seen)
  BY <1>6, <1>7 DEF ObservationsOk, all
<1>9. RunsOk(state.scenarioId, Observed(e).run, partitionOf)
  BY <1>1, <1>2, <1>3 DEF RunsOk, SameRun
<1> QED BY <1>8, <1>9

(* An experiment leaves the run as it should be, and sees what it should. *)
LEMMA ObservedIsOk ==
  ASSUME RunsOk(state.scenarioId, run, partitionOf), NEW e
  PROVE  RunsOk(state.scenarioId, Observed(e).run, partitionOf) /\ ObservationsOk(state, Observed(e).seen)
<1>1. CASE state.scenarioId = "partitioning"
  BY <1>1, PartitioningObserved
<1>2. CASE state.scenarioId = "fan-out-load-balancing"
  BY <1>2, FanOutObserved
<1>3. CASE state.scenarioId \notin {"partitioning", "fan-out-load-balancing"}
  BY <1>3 DEF RunsOk, ObservationsOk
<1> QED BY <1>1, <1>2, <1>3
-----------------------------------------------------------------------------
(* The inductive invariant *)

\* The last experiment wrote what its transitions say, and did not move a log back.
HistoryOk ==
  /\ RowsFollow(previous, state, transitions)
  /\ previous.scenarioId = scenarioId
  /\ scenarioId = "retention-data-loss" => state.logStartOffset >= previous.logStartOffset

IInv ==
  /\ ScenarioOk(state)
  /\ RunsOk(scenarioId, run, partitionOf)
  /\ HistoryOk

LEMMA InitIInv == Init => IInv
<1> SUFFICES ASSUME Init PROVE IInv
  OBVIOUS
<1>1. PICK id \in scenarioStateIds :
        /\ state = createInitialScenarioState(id, SCENARIOS[id].partitions)
        /\ run = EmptyRun(SCENARIOS[id].partitions)
        /\ partitionOf \in IF id = "partitioning" THEN [{"A", "B"} -> Partitions(run)] ELSE {[k \in {"A", "B"} |-> 0]}
  BY DEF Init
<1>2. scenarioId = id /\ ScenarioOk(state)
  BY <1>1, InitialState DEF scenarioId
<1>3. RunsOk(scenarioId, run, partitionOf)
  <2>1. id = "partitioning" => partitionOf \in [{"A", "B"} -> Partitions(EmptyRun(SCENARIOS[id].partitions))]
    BY <1>1
  <2> QED BY <1>1, <1>2, <2>1, EmptyRunIs
<1>4. previous = state
  BY DEF Init
<1>5. RowsFollow(previous, state, transitions)
  BY <1>4 DEF RowsFollow, Fresh
<1>6. scenarioId = "retention-data-loss" => state.logStartOffset >= previous.logStartOffset
  <2> SUFFICES ASSUME scenarioId = "retention-data-loss" PROVE state.logStartOffset >= state.logStartOffset
    BY <1>4
  <2>1. RetentionOk(state)
    BY <1>2 DEF ScenarioOk, scenarioId
  <2>2. state.logStartOffset \in Nat
    BY <2>1, LogStartIs DEF RetentionOk
  <2> QED BY <2>2
<1> QED BY <1>2, <1>3, <1>4, <1>5, <1>6 DEF IInv, HistoryOk, scenarioId

LEMMA RunExperimentKeeps ==
  ASSUME IInv, NEW e, RunExperiment(e)
  PROVE  IInv'
<1> DEFINE observed == Observed(e)
           result == Built(state, e, observed.seen)
<1>1. /\ state' = result.state /\ transitions' = result.transitions /\ run' = observed.run
      /\ previous' = state /\ partitionOf' = partitionOf
  BY DEF RunExperiment
<1>2. RunsOk(state.scenarioId, observed.run, partitionOf) /\ ObservationsOk(state, observed.seen)
  BY ObservedIsOk DEF IInv, scenarioId
<1>3. ScenarioOk(state) /\ CommonFields \subseteq DOMAIN state
  BY DEF IInv, ScenarioOk
<1> HIDE DEF observed
<1>4. ScenarioOk(result.state)
  BY <1>2, <1>3, BuiltIsOk
<1>5. /\ RowsFollow(state, result.state, result.transitions)
      /\ state.scenarioId = "retention-data-loss" => result.state.logStartOffset >= state.logStartOffset
  BY <1>3, BuiltFollows
<1>6. result.state.scenarioId = state.scenarioId
  BY <1>3, BuiltIsAlike DEF Alike
<1> HIDE DEF result
<1>7. HistoryOk'
  BY <1>1, <1>5, <1>6 DEF HistoryOk, scenarioId
<1>8. RunsOk(scenarioId, run, partitionOf)'
  BY <1>1, <1>2, <1>6 DEF scenarioId
<1> QED BY <1>1, <1>4, <1>7, <1>8 DEF IInv

(* A command leaves the state, and the run as it should be. *)
LEMMA CommandKeeps ==
  ASSUME IInv, Command, RunsOk(scenarioId, run', partitionOf)
  PROVE  IInv'
<1>1. state' = state /\ previous' = previous /\ transitions' = transitions /\ partitionOf' = partitionOf
  BY DEF Command
<1>2. HistoryOk'
  BY <1>1 DEF IInv, HistoryOk, scenarioId
<1>3. RunsOk(scenarioId, run, partitionOf)'
  BY <1>1 DEF scenarioId
<1> QED BY <1>1, <1>2, <1>3 DEF IInv

(* A run with the same fields and partitions is as good, where only those are spoken of. *)
LEMMA SameRunIsOk ==
  ASSUME NEW id, NEW r, NEW q, NEW choice, RunsOk(id, r, choice),
         RunFields \subseteq DOMAIN r => SameRun(r, q),
         choice \in [{"A", "B"} -> 0..1] /\ RunOk(r, choice) => RunOk(q, choice)
  PROVE  RunsOk(id, q, choice)
<1>1. ASSUME id = "partitioning" PROVE choice \in [{"A", "B"} -> 0..1] /\ RunOk(q, choice)
  BY <1>1 DEF RunsOk
<1>2. ASSUME id = "fan-out-load-balancing" PROVE RunFields \subseteq DOMAIN q /\ q.partitionCount = 3
  BY <1>2 DEF RunsOk, SameRun
<1> QED BY <1>1, <1>2 DEF RunsOk

LEMMA NextIInv == IInv /\ [Next]_vars => IInv'
<1> SUFFICES ASSUME IInv, [Next]_vars PROVE IInv'
  OBVIOUS
<1>1. RunsOk(scenarioId, run, partitionOf)
  BY DEF IInv
<1>2. ASSUME NEW e, RunExperiment(e) PROVE IInv'
  BY <1>2, RunExperimentKeeps
<1>3. CASE AddConsumer
  <2>1. Command /\ run' = ConsumerAdded(run)
    BY <1>3 DEF AddConsumer
  <2>2. RunsOk(scenarioId, ConsumerAdded(run), partitionOf)
    <3>1. RunFields \subseteq DOMAIN run => SameRun(run, ConsumerAdded(run))
      BY AddedKeepsRun
    <3>2. RunOk(run, partitionOf) => RunOk(ConsumerAdded(run), partitionOf)
      BY AddedKeeps DEF RunOk
    <3> QED BY <1>1, <3>1, <3>2, SameRunIsOk
  <2> QED BY <2>1, <2>2, CommandKeeps
<1>4. CASE CrashConsumer
  <2>1. PICK i \in ActiveIndexes(run) : run' = ConsumerCrashed(run, run.consumers[i].consumerId)
    BY <1>4 DEF CrashConsumer
  <2> DEFINE id == run.consumers[i].consumerId
  <2>2. Command /\ run' = ConsumerCrashed(run, id)
    BY <1>4, <2>1 DEF CrashConsumer
  <2> HIDE DEF id
  <2>3. RunsOk(scenarioId, ConsumerCrashed(run, id), partitionOf)
    <3>1. RunFields \subseteq DOMAIN run => SameRun(run, ConsumerCrashed(run, id))
      BY CrashedKeepsRun
    <3>2. RunOk(run, partitionOf) => RunOk(ConsumerCrashed(run, id), partitionOf)
      BY CrashedKeeps DEF RunOk
    <3> QED BY <1>1, <3>1, <3>2, SameRunIsOk
  <2> QED BY <2>2, <2>3, CommandKeeps
<1>5. CASE ProduceMessage
  <2>1. PICK key \in DOMAIN partitionOf : run' = Produced(run, key, partitionOf)
    BY <1>5 DEF ProduceMessage
  <2>2. RunsOk(scenarioId, Produced(run, key, partitionOf), partitionOf)
    <3>1. RunFields \subseteq DOMAIN run => SameRun(run, Produced(run, key, partitionOf))
      BY ProducedKeepsRun
    <3>2. ASSUME partitionOf \in [{"A", "B"} -> 0..1], RunOk(run, partitionOf)
          PROVE  RunOk(Produced(run, key, partitionOf), partitionOf)
      <4>1. key \in {"A", "B"}
        BY <3>2, <2>1
      <4> QED BY <3>2, <4>1, ProducedKeeps
    <3> QED BY <1>1, <3>1, <3>2, SameRunIsOk
  <2>3. Command
    BY <1>5 DEF ProduceMessage
  <2> QED BY <2>1, <2>2, <2>3, CommandKeeps
<1>6. CASE ProcessMessage
  <2> DEFINE commit == TRUE
  <2>1. PICK i \in DOMAIN run.messages : run' = Processed(run, i, commit)
    BY <1>6 DEF ProcessMessage
  <2> HIDE DEF commit
  <2>2. RunsOk(scenarioId, Processed(run, i, commit), partitionOf)
    <3>1. RunFields \subseteq DOMAIN run => SameRun(run, Processed(run, i, commit))
      BY ProcessedIs
    <3>2. RunOk(run, partitionOf) => RunOk(Processed(run, i, commit), partitionOf)
      BY ProcessedKeeps
    <3> QED BY <1>1, <3>1, <3>2, SameRunIsOk
  <2>3. Command
    BY <1>6 DEF ProcessMessage
  <2> QED BY <2>1, <2>2, <2>3, CommandKeeps
<1>7. CASE UNCHANGED vars
  <2>1. /\ state' = state /\ run' = run /\ partitionOf' = partitionOf /\ previous' = previous
        /\ transitions' = transitions
    BY <1>7 DEF vars
  <2>2. HistoryOk'
    BY <2>1 DEF IInv, HistoryOk, scenarioId
  <2> QED BY <1>1, <2>1, <2>2 DEF IInv, scenarioId
<1> QED BY <1>2, <1>3, <1>4, <1>5, <1>6, <1>7 DEF Next
LEMMA IInvTimes == IInv => TimesFollowTransitions
<1> SUFFICES ASSUME IInv PROVE TimesFollowTransitions
  OBVIOUS
<1>1. TransitionTimes = TimesFrom(previous.virtualTimeMs, transitions)
  BY DEF TransitionTimes, TimesFrom, Advance
<1>2. RowsFollow(previous, state, transitions) /\ previous.scenarioId = scenarioId
  BY DEF IInv, HistoryOk
<1> QED BY <1>1, <1>2 DEF RowsFollow, TimesFollowTransitions

LEMMA IInvLogs == IInv => LogsAgree
<1> SUFFICES ASSUME IInv PROVE LogsAgree
  OBVIOUS
<1>1. ScenarioOk(state) /\ HistoryOk
  BY DEF IInv
<1>2. CASE scenarioId = "partitioning"
  BY <1>1, <1>2 DEF ScenarioOk, PartitioningOk, LogsAgree, scenarioId
<1>3. CASE scenarioId = "event-replay-sourcing"
  BY <1>1, <1>3 DEF ScenarioOk, ReplayOk, LogsAgree, scenarioId
<1>4. CASE scenarioId = "consumer-lag-backpressure"
  BY <1>1, <1>4 DEF ScenarioOk, LagOk, LogsAgree, scenarioId
<1>5. CASE scenarioId = "retention-data-loss"
  <2>1. RetentionOk(state)
    BY <1>1, <1>5 DEF ScenarioOk, scenarioId
  <2>2. RetentionAgrees(state)
    BY <1>1, <1>5, <2>1, RetentionOkAgrees DEF RetentionAgrees, HistoryOk
  <2> QED BY <1>5, <2>2 DEF LogsAgree
<1>6. CASE scenarioId = "transactional-producers"
  <2>1. ExactlyOnce(state)
    BY <1>1, <1>6, TransactionsOkAgrees DEF ScenarioOk, scenarioId
  <2> QED BY <1>6, <2>1 DEF LogsAgree
<1>7. CASE scenarioId \notin {"partitioning", "event-replay-sourcing", "consumer-lag-backpressure",
                              "retention-data-loss", "transactional-producers"}
  BY <1>7 DEF LogsAgree
<1> QED BY <1>2, <1>3, <1>4, <1>5, <1>6, <1>7

LEMMA IInvGroups == IInv => GroupsAgree
<1> SUFFICES ASSUME IInv PROVE GroupsAgree
  OBVIOUS
<1>1. ScenarioOk(state) /\ RunsOk(scenarioId, run, partitionOf)
  BY DEF IInv
<1>2. CASE scenarioId = "partitioning"
  <2>1. Partitions(run) = 0..1
    BY <1>1, <1>2, TwoPartitions DEF RunsOk, RunOk, PlacedRun
  <2>2. GroupDealt(state.consumers)
    BY <1>1, <1>2 DEF ScenarioOk, PartitioningOk, scenarioId
  <2>3. state.consumers # <<>> => OwnedOnce(state.consumers, Partitions(run))
    BY <2>1, <2>2, GroupDealtOnce
  <2> QED BY <1>2, <2>3 DEF GroupsAgree
<1>3. CASE scenarioId = "fan-out-load-balancing"
  <2>1. Partitions(run) = 0..2
    BY <1>1, <1>3 DEF RunsOk, Partitions
  <2>2. \A epoch \in Range(state.epochs) : OwnedOnce(epoch.assignments, Partitions(run))
    BY <1>1, <1>3, <2>1 DEF ScenarioOk, FanOutOk, scenarioId
  <2> QED BY <1>3, <2>2 DEF GroupsAgree
<1>4. CASE scenarioId = "cooperative-rebalancing"
  <2>1. Range(state.comparisons) \subseteq ComparisonRows
    BY <1>1, <1>4 DEF ScenarioOk, CooperativeOk, scenarioId
  <2>2. \A c \in Range(state.comparisons) : OwnedOnce(c.before, 0..2) /\ OwnedOnce(c.after, 0..2) /\ MovesAgree(c)
    BY <2>1, ComparisonsAgree
  <2> QED BY <1>4, <2>2 DEF GroupsAgree
<1>5. CASE scenarioId \notin {"partitioning", "fan-out-load-balancing", "cooperative-rebalancing"}
  BY <1>5 DEF GroupsAgree
<1> QED BY <1>2, <1>3, <1>4, <1>5

-----------------------------------------------------------------------------

\* Whatever experiments are run, in whatever order and however often, with
\* consumers that crash, join and process between them, the state of the
\* scenario and its run are as the lemmas above describe them.
THEOREM SpecIInv == Spec => []IInv
<1>1. Init => IInv
  BY InitIInv
<1>2. IInv /\ [Next]_vars => IInv'
  BY NextIInv
<1> QED BY <1>1, <1>2, PTL DEF Spec

\* The rows that an experiment writes into the state say times at which its
\* transitions happen, however far the clock of the run has moved before it:
\* what buildRetryDeadLetterExperiment(), buildConsumerLagExperiment(),
\* buildLogCompactionExperiment() and buildRetentionExperiment() add to
\* startedAt agrees with the advanceMs of the transitions they return.
THEOREM SpecTimesFollowTransitions == Spec => []TimesFollowTransitions
<1>1. IInv => TimesFollowTransitions
  BY IInvTimes
<1> QED BY <1>1, SpecIInv, PTL

\* What a scenario derives from its log agrees with the log after any number of
\* experiments: a key stays in one partition in the order of its offsets, a
\* projection and its cursor are those of the events, the last sample of the
\* lag is the lag of the partitions, exactly the records below the log start
\* have expired and it never moves back, and no producer sequence is accepted
\* twice.
THEOREM SpecLogsAgree == Spec => []LogsAgree
<1>1. IInv => LogsAgree
  BY IInvLogs
<1> QED BY <1>1, SpecIInv, PTL

\* The groups that a scenario shows own each partition once, whoever crashed
\* or joined before the experiment, and a rebalance moves, keeps and revokes
\* what the assignments before and after it show.
THEOREM SpecGroupsAgree == Spec => []GroupsAgree
<1>1. IInv => GroupsAgree
  BY IInvGroups
<1> QED BY <1>1, SpecIInv, PTL
=============================================================================
