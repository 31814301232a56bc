---------------------------- MODULE ReportsProofs ----------------------------
(***************************************************************************)
(* The reports, for any number of runs and machines and any length of day: *)
(* that merging the sorted intervals of the runs counts each instant of a  *)
(* machine once, that the past does not change, that the days add up, and  *)
(* that the chart shows what was reported.  A loop is a recursive function *)
(* on its counter, and a sum counts the elements of disjoint sets.         *)
(***************************************************************************)
EXTENDS TrendChart, FunctionTheorems, FiniteSetTheorems, NaturalsInduction,
        WellFoundedInduction, TLAPS

-----------------------------------------------------------------------------
\* Induction, for a set instead of a predicate.

LEMMA SetInduction ==
    ASSUME NEW S, 0 \in S, \A n \in Nat : n \in S => n + 1 \in S
    PROVE  Nat \subseteq S
<1> DEFINE Out == Nat \ S
<1> SUFFICES ASSUME Out # {} PROVE FALSE
  OBVIOUS
<1> HIDE DEF Out
<1>1. PICK m \in Out : \A k \in Out : <<k, m>> \notin OpToRel(<, Nat)
  BY WFMin, NatLessThanWellFounded DEF Out
<1>2. m \in Nat /\ m # 0 /\ m \notin S
  BY DEF Out
<1>3. m - 1 \in Nat /\ m - 1 < m /\ (m - 1) + 1 = m
  BY <1>2
<1>4. m - 1 \in Out
  BY <1>2, <1>3 DEF Out
<1>5. <<m - 1, m>> \in OpToRel(<, Nat)
  BY <1>2, <1>3, Zenon DEF OpToRel
<1> QED
  BY <1>1, <1>4, <1>5

-----------------------------------------------------------------------------
\* Any finite number of intervals can be sorted.

Spans == [start : Nat, end : Nat]

LEMMA OneIsLast ==
    ASSUME NEW D, NEW iv \in [D -> Spans], NEW F \in SUBSET D, IsFiniteSet(F), F # {}
    PROVE  \E m \in F : \A x \in F : InOrder(iv[x], iv[m])
<1> DEFINE LastOf(G) == \E m \in G : \A x \in G : InOrder(iv[x], iv[m])
           S == {n \in Nat : \A G \in SUBSET D :
                    IsFiniteSet(G) /\ Cardinality(G) = n + 1 => LastOf(G)}
<1>1. 0 \in S
  <2> SUFFICES ASSUME NEW G \in SUBSET D, IsFiniteSet(G), Cardinality(G) = 0 + 1
               PROVE  LastOf(G)
    OBVIOUS
  <2>1. PICK m : G = {m}
    BY FS_Singleton
  <2>2. iv[m].start \in Nat /\ iv[m].end \in Nat
    BY <2>1 DEF Spans
  <2> QED
    BY <2>1, <2>2 DEF InOrder
<1>2. ASSUME NEW n \in Nat, n \in S PROVE n + 1 \in S
  <2> SUFFICES ASSUME NEW G \in SUBSET D, IsFiniteSet(G), Cardinality(G) = (n + 1) + 1
               PROVE  LastOf(G)
    OBVIOUS
  <2>1. PICK a : a \in G
    BY FS_EmptySet
  <2>2. /\ G \ {a} \in SUBSET D /\ IsFiniteSet(G \ {a})
        /\ Cardinality(G \ {a}) = n + 1
    BY <2>1, FS_RemoveElement
  <2>3. PICK m \in G \ {a} : \A x \in G \ {a} : InOrder(iv[x], iv[m])
    BY <1>2, <2>2
  <2>4. \A x \in G : iv[x].start \in Nat /\ iv[x].end \in Nat
    BY DEF Spans
  <2>5. CASE InOrder(iv[a], iv[m])
    BY <2>3, <2>5
  <2>6. CASE ~InOrder(iv[a], iv[m])
    <3>1. \A x \in G : InOrder(iv[x], iv[a])
      BY <2>1, <2>3, <2>4, <2>6 DEF InOrder
    <3> QED
      BY <2>1, <3>1
  <2> QED
    BY <2>5, <2>6
<1> HIDE DEF S
<1>3. Nat \subseteq S
  BY <1>1, <1>2, SetInduction
<1>4. Cardinality(F) \in Nat /\ Cardinality(F) # 0
  BY FS_CardinalityType, FS_EmptySet
<1>5. PICK n \in Nat : Cardinality(F) = n + 1
  BY <1>4
<1> QED
  BY <1>3, <1>5 DEF S

Ascending(iv, q) ==
    \A i, j \in DOMAIN q : i < j => InOrder(iv[q[i]], iv[q[j]])

LEMMA CanBeSorted ==
    ASSUME NEW D, NEW iv \in [D -> Spans], IsFiniteSet(D)
    PROVE  \E q \in SetToSeqs(D) : Ascending(iv, q)
<1> DEFINE S == {n \in Nat : \A G \in SUBSET D :
                    IsFiniteSet(G) /\ Cardinality(G) = n =>
                        \E q \in SetToSeqs(G) : Ascending(iv, q)}
<1>1. 0 \in S
  <2> SUFFICES ASSUME NEW G \in SUBSET D, IsFiniteSet(G), Cardinality(G) = 0
               PROVE  \E q \in SetToSeqs(G) : Ascending(iv, q)
    OBVIOUS
  <2>1. G = {}
    BY FS_EmptySet
  <2> DEFINE q == [i \in 1..0 |-> {}]
  <2>2. q \in SetToSeqs(G) /\ Ascending(iv, q)
    BY <2>1 DEF SetToSeqs, Ascending
  <2> QED
    BY <2>2
<1>2. ASSUME NEW n \in Nat, n \in S PROVE n + 1 \in S
  <2> SUFFICES ASSUME NEW G \in SUBSET D, IsFiniteSet(G), Cardinality(G) = n + 1
               PROVE  \E q \in SetToSeqs(G) : Ascending(iv, q)
    OBVIOUS
  <2>1. G # {}
    BY FS_EmptySet
  <2>2. PICK m \in G : \A x \in G : InOrder(iv[x], iv[m])
    BY <2>1, OneIsLast
  <2>3. /\ G \ {m} \in SUBSET D /\ IsFiniteSet(G \ {m})
        /\ Cardinality(G \ {m}) = n
    <3>1. IsFiniteSet(G \ {m}) /\ Cardinality(G \ {m}) = Cardinality(G) - 1
      BY <2>2, FS_RemoveElement
    <3> QED
      BY <1>2, <3>1
  <2>4. PICK p \in SetToSeqs(G \ {m}) : Ascending(iv, p)
    BY <1>2, <2>3
  <2>5. /\ p \in [1..n -> G \ {m}]
        /\ \A i, j \in 1..n : i # j => p[i] # p[j]
    BY <2>3, <2>4 DEF SetToSeqs
  <2> DEFINE q == [i \in 1..(n + 1) |-> IF i = n + 1 THEN m ELSE p[i]]
  <2>6. q \in [1..(n + 1) -> G] /\ q[n + 1] = m /\ \A i \in 1..n : q[i] = p[i]
    BY <2>5
  <2> HIDE DEF q
  <2>7. q \in SetToSeqs(G)
    <3>1. \A i, j \in 1..(n + 1) : i # j => q[i] # q[j]
      BY <2>5, <2>6
    <3> QED
      BY <2>6, <3>1 DEF SetToSeqs
  <2>8. Ascending(iv, q)
    <3> SUFFICES ASSUME NEW i \in 1..(n + 1), NEW j \in 1..(n + 1), i < j
                 PROVE  InOrder(iv[q[i]], iv[q[j]])
      BY <2>6 DEF Ascending
    <3>1. CASE j = n + 1
      BY <2>2, <2>6, <3>1
    <3>2. CASE j # n + 1
      <4>1. i \in 1..n /\ j \in 1..n
        BY <3>2
      <4> QED
        BY <2>4, <2>5, <2>6, <4>1 DEF Ascending
    <3> QED
      BY <3>1, <3>2
  <2> QED
    BY <2>7, <2>8
<1> HIDE DEF S
<1>3. Cardinality(D) \in Nat /\ Nat \subseteq S
  BY <1>1, <1>2, SetInduction, FS_CardinalityType
<1> QED
  BY <1>3 DEF S

LEMMA SortedIsSorted ==
    ASSUME NEW D, NEW iv \in [D -> Spans], IsFiniteSet(D)
    PROVE  Sorted(iv) \in SetToSeqs(D) /\ Ascending(iv, Sorted(iv))
BY CanBeSorted DEF Sorted, Ascending

-----------------------------------------------------------------------------
\* Merging sorted intervals.

\* The instants in the first n intervals.
Covered(q, n) == {t \in Nat : \E i \in 1..n : q[i].start <= t /\ t < q[i].end}

\* After n intervals: those that are done are counted, and lie before the current.
MergedSoFar(q, n, acc) ==
    /\ acc \in [done : Nat, start : Nat, end : Nat]
    /\ acc.start <= q[n].start /\ acc.start < acc.end
    /\ \E C \in SUBSET Nat :
        /\ IsFiniteSet(C) /\ Cardinality(C) = acc.done
        /\ \A t \in C : t < acc.start
        /\ Covered(q, n) = C \cup (acc.start)..(acc.end - 1)

Proper(q, len) ==
    /\ q \in [1..len -> Spans]
    /\ \A i \in 1..len : q[i].start < q[i].end
    /\ \A i, j \in 1..len : i < j => q[i].start <= q[j].start

LEMMA MergeFirst ==
    ASSUME NEW len \in Nat \ {0}, NEW q, Proper(q, len)
    PROVE  MergedSoFar(q, 1, [done |-> 0, start |-> q[1].start, end |-> q[1].end])
<1>1. q[1] \in Spans /\ q[1].start < q[1].end
  BY DEF Proper
<1>2. Covered(q, 1) = {} \cup (q[1].start)..(q[1].end - 1)
  BY <1>1 DEF Covered, Spans
<1> QED
  BY <1>1, <1>2, FS_EmptySet DEF MergedSoFar, Spans

LEMMA MergeNext ==
    ASSUME NEW len \in Nat, NEW q, Proper(q, len), NEW n \in 1..len, n + 1 \in 1..len,
           NEW acc, MergedSoFar(q, n, acc)
    PROVE  MergedSoFar(q, n + 1, Merge(acc, q[n + 1]))
<1> DEFINE i == q[n + 1]
<1>1. /\ i.start \in Nat /\ i.end \in Nat /\ i.start < i.end
      /\ q[n].start <= i.start
  BY DEF Proper, Spans
<1>2. /\ acc.done \in Nat /\ acc.start \in Nat /\ acc.end \in Nat
      /\ acc.start <= i.start /\ acc.start < acc.end
      /\ acc = [done |-> acc.done, start |-> acc.start, end |-> acc.end]
  <2>1. q[n].start \in Nat
    BY DEF Proper, Spans
  <2> QED
    BY <1>1, <2>1 DEF MergedSoFar
<1>3. PICK C \in SUBSET Nat :
            /\ IsFiniteSet(C) /\ Cardinality(C) = acc.done
            /\ \A t \in C : t < acc.start
            /\ Covered(q, n) = C \cup (acc.start)..(acc.end - 1)
  BY DEF MergedSoFar
<1>4. Covered(q, n + 1) = Covered(q, n) \cup (i.start)..(i.end - 1)
  <2>1. 1..(n + 1) = (1..n) \cup {n + 1}
    OBVIOUS
  <2>2. \A t \in Nat : i.start <= t /\ t < i.end <=> t \in (i.start)..(i.end - 1)
    BY <1>1
  <2>3. (i.start)..(i.end - 1) \subseteq Nat
    BY <1>1
  <2> HIDE DEF i
  <2> QED
    BY <2>1, <2>2, <2>3 DEF Covered, i
<1>5. CASE i.start <= acc.end
  <2>1. Merge(acc, i) = [done |-> acc.done, start |-> acc.start,
                         end |-> Latest(acc.end, i.end)]
    BY <1>2, <1>5 DEF Merge
  <2>2. Latest(acc.end, i.end) \in Nat /\ acc.start < Latest(acc.end, i.end)
    BY <1>1, <1>2 DEF Latest
  <2>3. (acc.start)..(acc.end - 1) \cup (i.start)..(i.end - 1)
            = (acc.start)..(Latest(acc.end, i.end) - 1)
    BY <1>1, <1>2, <1>5 DEF Latest
  <2>4. Covered(q, n + 1) = C \cup (acc.start)..(Latest(acc.end, i.end) - 1)
    BY <1>3, <1>4, <2>3
  <2> HIDE DEF i
  <2>5. MergedSoFar(q, n + 1, [done |-> acc.done, start |-> acc.start,
                                end |-> Latest(acc.end, i.end)])
    BY <1>2, <1>3, <2>2, <2>4 DEF MergedSoFar, i
  <2> QED
    BY <2>1, <2>5 DEF i
<1>6. CASE ~(i.start <= acc.end)
  <2> DEFINE E == C \cup (acc.start)..(acc.end - 1)
             done == acc.done + (acc.end - acc.start)
  <2>1. Merge(acc, i) = [done |-> done, start |-> i.start, end |-> i.end]
    BY <1>6 DEF Merge
  <2>2. /\ IsFiniteSet((acc.start)..(acc.end - 1))
        /\ Cardinality((acc.start)..(acc.end - 1)) = acc.end - acc.start
    BY <1>2, FS_Interval
  <2>3. C \cap (acc.start)..(acc.end - 1) = {}
    BY <1>3, <1>2
  <2>4. IsFiniteSet(E) /\ Cardinality(E) = done
    <3>1. /\ IsFiniteSet(E)
          /\ Cardinality(E) = Cardinality(C) + Cardinality((acc.start)..(acc.end - 1))
                    - Cardinality(C \cap (acc.start)..(acc.end - 1))
      BY <1>3, <2>2, FS_Union
    <3>2. Cardinality(C \cap (acc.start)..(acc.end - 1)) = 0
      BY <2>3, FS_EmptySet
    <3> HIDE DEF E
    <3> QED
      BY <1>2, <1>3, <2>2, <3>1, <3>2
  <2>5. E \in SUBSET Nat /\ \A t \in E : t < i.start
    BY <1>1, <1>2, <1>3, <1>6
  <2>6. done \in Nat
    BY <1>2
  <2>7. Covered(q, n + 1) = E \cup (i.start)..(i.end - 1)
    BY <1>3, <1>4
  <2> HIDE DEF i, E, done
  <2>8. MergedSoFar(q, n + 1, [done |-> done, start |-> i.start, end |-> i.end])
    BY <1>1, <2>4, <2>5, <2>6, <2>7 DEF MergedSoFar, i
  <2> QED
    BY <2>1, <2>8 DEF i
<1> QED
  BY <1>5, <1>6

\* The loop is a function: a recursive definition on 1..len has a value.
FirstSpan(q) == [done |-> 0, start |-> q[1].start, end |-> q[1].end]

LEMMA LoopEnds ==
    ASSUME NEW q, NEW len \in Nat
    PROVE  \E f : f = [n \in 1..len |->
                          IF n = 1 THEN FirstSpan(q) ELSE Merge(f[n - 1], q[n])]
<1> DEFINE Loop(f, k) == f = [n \in 1..k |->
                          IF n = 1 THEN FirstSpan(q) ELSE Merge(f[n - 1], q[n])]
           S == {k \in Nat : \E f : Loop(f, k)}
<1>1. 0 \in S
  <2>1. Loop([n \in 1..0 |-> 0], 0)
    OBVIOUS
  <2> QED
    BY <2>1
<1>2. ASSUME NEW k \in Nat, k \in S PROVE k + 1 \in S
  <2>1. PICK f : Loop(f, k)
    BY <1>2
  <2> DEFINE g == [n \in 1..(k + 1) |->
                      IF n = 1 THEN FirstSpan(q) ELSE Merge(f[n - 1], q[n])]
  <2>2. \A n \in 1..k : g[n] = f[n]
    BY <2>1
  <2>3. \A n \in 1..(k + 1) : n = 1 \/ n - 1 \in 1..k
    OBVIOUS
  <2>4. \A n \in 1..(k + 1) :
            g[n] = IF n = 1 THEN FirstSpan(q) ELSE Merge(g[n - 1], q[n])
    BY <2>2, <2>3
  <2>5. g = [n \in 1..(k + 1) |-> g[n]]
    OBVIOUS
  <2> HIDE DEF g
  <2>6. Loop(g, k + 1)
    BY <2>4, <2>5
  <2> QED
    BY <2>6
<1> HIDE DEF S
<1>3. len \in S
  BY <1>1, <1>2, SetInduction
<1> QED
  BY <1>3 DEF S

LEMMA LoopIs ==
    ASSUME NEW q, Len(q) \in Nat
    PROVE  MergedUpTo(q) = [n \in 1..Len(q) |->
                IF n = 1 THEN FirstSpan(q) ELSE Merge(MergedUpTo(q)[n - 1], q[n])]
BY LoopEnds, Zenon DEF MergedUpTo, FirstSpan

\* Merging sorted intervals counts the instants in them.
LEMMA MergeCounts ==
    ASSUME NEW len \in Nat \ {0}, NEW q, Proper(q, len), Len(q) = len
    PROVE  /\ IsFiniteSet(Covered(q, len))
           /\ MergeBusySeconds(q) = Cardinality(Covered(q, len))
<1> DEFINE f == MergedUpTo(q)
<1>1. f = [n \in 1..len |-> IF n = 1 THEN FirstSpan(q) ELSE Merge(f[n - 1], q[n])]
  BY LoopIs
<1> DEFINE S == {n \in Nat : n + 1 \in 1..len => MergedSoFar(q, n + 1, f[n + 1])}
<1> HIDE DEF f
<1>2. 0 \in S
  <2>1. MergedSoFar(q, 1, f[1])
    BY <1>1, MergeFirst DEF FirstSpan
  <2> QED
    BY <2>1
<1>3. ASSUME NEW n \in Nat, n \in S PROVE n + 1 \in S
  <2> SUFFICES ASSUME (n + 1) + 1 \in 1..len
               PROVE  MergedSoFar(q, (n + 1) + 1, f[(n + 1) + 1])
    OBVIOUS
  <2>1. n + 1 \in 1..len /\ MergedSoFar(q, n + 1, f[n + 1])
    BY <1>3
  <2>2. f[(n + 1) + 1] = Merge(f[n + 1], q[(n + 1) + 1])
    <3>1. (n + 1) + 1 # 1 /\ ((n + 1) + 1) - 1 = n + 1
      OBVIOUS
    <3> QED
      BY <1>1, <3>1
  <2> QED
    BY <2>1, <2>2, MergeNext
<1> HIDE DEF S
<1>4. len - 1 \in S
  BY <1>2, <1>3, SetInduction
<1>5. MergedSoFar(q, len, f[len])
  <2>1. (len - 1) + 1 = len /\ len \in 1..len
    OBVIOUS
  <2> QED
    BY <1>4, <2>1 DEF S
<1> DEFINE acc == f[len]
<1>6. /\ acc.done \in Nat /\ acc.start \in Nat /\ acc.end \in Nat
      /\ acc.start < acc.end
  BY <1>5 DEF MergedSoFar
<1>7. PICK C \in SUBSET Nat :
            /\ IsFiniteSet(C) /\ Cardinality(C) = acc.done
            /\ \A t \in C : t < acc.start
            /\ Covered(q, len) = C \cup (acc.start)..(acc.end - 1)
  BY <1>5 DEF MergedSoFar
<1> HIDE DEF acc
<1>8. /\ IsFiniteSet((acc.start)..(acc.end - 1))
      /\ Cardinality((acc.start)..(acc.end - 1)) = acc.end - acc.start
  <2>1. acc.start \in Int /\ acc.end - 1 \in Int /\ ~(acc.start > acc.end - 1)
    BY <1>6
  <2>2. (acc.end - 1) - acc.start + 1 = acc.end - acc.start
    BY <1>6
  <2> QED
    BY <2>1, <2>2, FS_Interval
<1>9. C \cap (acc.start)..(acc.end - 1) = {}
  BY <1>6, <1>7
<1>10. Cardinality(C \cap (acc.start)..(acc.end - 1)) = 0
  BY <1>9, FS_EmptySet
<1>11. /\ IsFiniteSet(Covered(q, len))
       /\ Cardinality(Covered(q, len)) =
            Cardinality(C) + Cardinality((acc.start)..(acc.end - 1))
                - Cardinality(C \cap (acc.start)..(acc.end - 1))
  BY <1>7, <1>8, FS_Union
<1>12. Cardinality(Covered(q, len)) = acc.done + (acc.end - acc.start)
  BY <1>6, <1>7, <1>8, <1>10, <1>11
<1>13. q # <<>>
  OBVIOUS
<1> QED
  BY <1>11, <1>12, <1>13 DEF MergeBusySeconds, acc, f

-----------------------------------------------------------------------------
\* The busy time of a machine, of a table of rows.

Window == [start : Nat, end : Nat]

\* A run that has begun has a first and a last instant to speak of.
Timed(R, d) ==
    /\ R[d].dispatched_at \in Nat
    /\ R[d].completed_at \in Nat \cup {Unset}
    /\ R[d].updated_at \in Nat

LEMMA IntervalsProper ==
    ASSUME NEW R, NEW D \in SUBSET Dispatches, \A d \in D : Timed(R, d),
           NEW e, NEW w \in Window
    PROVE  LET q == Intervals(R, D, e, w)
               all == {d \in D : /\ R[d].equipment = e
                                 /\ Interval(R, d, w).end > Interval(R, d, w).start}
               n == Cardinality(all)
           IN  /\ n \in Nat /\ Proper(q, n) /\ Len(q) = n
               /\ \A i \in 1..n : \E d \in all : q[i] = Interval(R, d, w)
               /\ \A d \in all : \E i \in 1..n : q[i] = Interval(R, d, w)
<1> DEFINE all == {d \in D : /\ R[d].equipment = e
                             /\ Interval(R, d, w).end > Interval(R, d, w).start}
           n == Cardinality(all)
           iv == [d \in all |-> Interval(R, d, w)]
           p == Sorted(iv)
           q == [i \in 1..n |-> iv[p[i]]]
<1>1. IsFiniteSet(all) /\ n \in Nat
  BY ReportsAssumption, FS_Subset, FS_CardinalityType
<1>2. \A d \in all : Interval(R, d, w) \in Spans
  <2> SUFFICES ASSUME NEW d \in all PROVE Interval(R, d, w) \in Spans
    OBVIOUS
  <2>1. Timed(R, d)
    OBVIOUS
  <2>2. w.start \in Nat /\ w.end \in Nat
    BY DEF Window
  <2>3. DispatchBusyEnd(R, d, w.end) \in Nat
    BY <2>1, <2>2 DEF DispatchBusyEnd, Timed, Earliest
  <2>4. Latest(R[d].dispatched_at, w.start) \in Nat
    BY <2>1, <2>2 DEF Timed, Latest
  <2> QED
    BY <2>3, <2>4 DEF Interval, Spans
<1>3. iv \in [all -> Spans]
  BY <1>2
<1>4. \A d \in all : iv[d] = Interval(R, d, w) /\ iv[d].start < iv[d].end
  <2> SUFFICES ASSUME NEW d \in all
               PROVE  iv[d] = Interval(R, d, w) /\ iv[d].start < iv[d].end
    OBVIOUS
  <2>1. Interval(R, d, w).start \in Nat /\ Interval(R, d, w).end \in Nat
    BY <1>2 DEF Spans
  <2> QED
    BY <2>1
<1>5. Intervals(R, D, e, w) = q
  BY DEF Intervals
<1> HIDE DEF iv
<1>6. p \in SetToSeqs(all) /\ Ascending(iv, p)
  BY <1>1, <1>3, SortedIsSorted
<1>7. p \in [1..n -> all] /\ \A i, j \in 1..n : i # j => p[i] # p[j]
  BY <1>6 DEF SetToSeqs
<1> HIDE DEF p, all, n
<1>8. q \in [1..n -> Spans] /\ \A i \in 1..n : q[i] = Interval(R, p[i], w)
  BY <1>3, <1>4, <1>7
<1>9. \A i \in 1..n : q[i].start < q[i].end
  BY <1>4, <1>7
<1>10. \A i, j \in 1..n : i < j => q[i].start <= q[j].start
  <2> SUFFICES ASSUME NEW i \in 1..n, NEW j \in 1..n, i < j
               PROVE  q[i].start <= q[j].start
    OBVIOUS
  <2>1. InOrder(iv[p[i]], iv[p[j]])
    BY <1>6, <1>7 DEF Ascending
  <2>2. q[i] = iv[p[i]] /\ q[j] = iv[p[j]]
    OBVIOUS
  <2>3. q[i].start \in Nat /\ q[j].start \in Nat
    BY <1>8 DEF Spans
  <2> QED
    BY <2>1, <2>2, <2>3 DEF InOrder
<1>11. Len(q) = n
  BY <1>1
<1>12. \A d \in all : \E i \in 1..n : p[i] = d
  <2>1. p \in Injection(1..n, all)
    BY <1>7 DEF Injection, IsInjective
  <2>2. /\ IsFiniteSet(1..n) /\ Cardinality(1..n) = n
    BY <1>1, FS_Interval
  <2>3. p \in Surjection(1..n, all)
    BY <1>1, <2>1, <2>2, FS_Injection DEF n
  <2> QED
    BY <2>3 DEF Surjection
<1>13. \A d \in all : \E i \in 1..n : q[i] = Interval(R, d, w)
  BY <1>8, <1>12
<1>14. \A i \in 1..n : \E d \in all : q[i] = Interval(R, d, w)
  BY <1>7, <1>8
<1>15. Proper(q, n)
  BY <1>8, <1>9, <1>10 DEF Proper
<1> HIDE DEF q
<1> QED
  BY <1>1, <1>5, <1>11, <1>13, <1>14, <1>15 DEF all, n

\* The instants of the window at which some run of D has machine e.
BusyInstants(R, D, e, w) ==
    {t \in (w.start)..(w.end - 1) :
        \E d \in D : /\ R[d].equipment = e
                     /\ R[d].dispatched_at <= t
                     /\ t < DispatchBusyEnd(R, d, w.end)}

LEMMA BusyTimeCounts ==
    ASSUME NEW R, NEW D \in SUBSET Dispatches, \A d \in D : Timed(R, d),
           NEW e, NEW w \in Window
    PROVE  /\ IsFiniteSet(BusyInstants(R, D, e, w))
           /\ BusyTime(R, D, e, w) = Cardinality(BusyInstants(R, D, e, w))
<1> DEFINE q == Intervals(R, D, e, w)
           all == {d \in D : /\ R[d].equipment = e
                             /\ Interval(R, d, w).end > Interval(R, d, w).start}
           n == Cardinality(all)
<1>1. /\ n \in Nat /\ Proper(q, n) /\ Len(q) = n
      /\ \A i \in 1..n : \E d \in all : q[i] = Interval(R, d, w)
      /\ \A d \in all : \E i \in 1..n : q[i] = Interval(R, d, w)
  BY IntervalsProper
<1>2. w.start \in Nat /\ w.end \in Nat
  BY DEF Window
<1>3. ASSUME NEW d \in D
      PROVE  /\ Interval(R, d, w).start = Latest(R[d].dispatched_at, w.start)
             /\ Interval(R, d, w).end = DispatchBusyEnd(R, d, w.end)
             /\ R[d].dispatched_at \in Nat
             /\ DispatchBusyEnd(R, d, w.end) \in Nat
             /\ DispatchBusyEnd(R, d, w.end) <= w.end
  <2>1. Timed(R, d)
    OBVIOUS
  <2> QED
    BY <1>2, <2>1 DEF Interval, DispatchBusyEnd, Timed, Earliest
<1> HIDE DEF q, n
<1>4. ASSUME NEW t \in Nat, NEW d \in D, R[d].equipment = e
      PROVE  (d \in all /\ Interval(R, d, w).start <= t /\ t < Interval(R, d, w).end)
                <=> /\ t \in (w.start)..(w.end - 1)
                    /\ R[d].dispatched_at <= t
                    /\ t < DispatchBusyEnd(R, d, w.end)
  BY <1>2, <1>3, <1>4 DEF Latest
<1>5. Covered(q, n) = BusyInstants(R, D, e, w)
  <2>1. ASSUME NEW t \in Covered(q, n) PROVE t \in BusyInstants(R, D, e, w)
    <3>1. PICK i \in 1..n : q[i].start <= t /\ t < q[i].end
      BY DEF Covered
    <3>2. PICK d \in all : q[i] = Interval(R, d, w)
      BY <1>1
    <3>3. t \in Nat /\ d \in D /\ R[d].equipment = e
      BY DEF Covered
    <3> QED
      BY <1>4, <3>1, <3>2, <3>3 DEF BusyInstants
  <2>2. ASSUME NEW t \in BusyInstants(R, D, e, w) PROVE t \in Covered(q, n)
    <3>1. PICK d \in D : /\ R[d].equipment = e /\ R[d].dispatched_at <= t
                         /\ t < DispatchBusyEnd(R, d, w.end)
      BY DEF BusyInstants
    <3>2. t \in Nat /\ t \in (w.start)..(w.end - 1)
      BY <1>2 DEF BusyInstants
    <3>3. d \in all /\ Interval(R, d, w).start <= t /\ t < Interval(R, d, w).end
      BY <1>4, <3>1, <3>2
    <3>4. PICK i \in 1..n : q[i] = Interval(R, d, w)
      BY <1>1, <3>3
    <3> QED
      BY <3>2, <3>3, <3>4 DEF Covered
  <2> QED
    BY <2>1, <2>2
<1>6. CASE n = 0
  <2>1. q = <<>>
    BY <1>1, <1>6 DEF Proper
  <2>2. Covered(q, n) = {}
    BY <1>6 DEF Covered
  <2>3. BusyTime(R, D, e, w) = 0
    BY <2>1 DEF BusyTime, MergeBusySeconds, q
  <2> QED
    BY <1>5, <2>2, <2>3, FS_EmptySet
<1>7. CASE n # 0
  <2>1. /\ IsFiniteSet(Covered(q, n))
        /\ MergeBusySeconds(q) = Cardinality(Covered(q, n))
    BY <1>1, <1>7, MergeCounts
  <2> QED
    BY <1>5, <2>1 DEF BusyTime, q
<1> QED
  BY <1>6, <1>7

-----------------------------------------------------------------------------
\* The rows that the handlers leave.

RowRecords ==
    [status : DispatchStatuses \cup {"none"}, equipment : Equipments \cup {Unset},
     created_at : Stamps, dispatched_at : Stamps, completed_at : Stamps,
     updated_at : Stamps]

\* A run that has not begun has no time of beginning, one that has was saved at
\* some time, and only a completed one has a time of completion, not before that
\* of its beginning.
WellTimed(r) ==
    /\ r.status \in {"none", "pending"} => r.dispatched_at = Unset
    /\ r.status \in OccupyingStatuses => r.completed_at = Unset
    /\ r.dispatched_at # Unset => r.updated_at # Unset
    /\ r.completed_at # Unset => r.status = "completed"
    /\ Unset \notin {r.dispatched_at, r.completed_at} => r.dispatched_at <= r.completed_at

RowsWellTimed == \A d \in Dispatches : WellTimed(rows[d])

ReportsInv == TypeOK /\ RowsWellTimed

LEMMA ReportsInit == Init => ReportsInv
<1> SUFFICES ASSUME Init PROVE ReportsInv
  OBVIOUS
<1>1. 0 \in Stamps /\ Unset \in Stamps
  BY DEF Stamps, Init
<1>2. TypeOK
  BY <1>1, ReportsAssumption DEF Init, TypeOK, NoRow
<1>3. RowsWellTimed
  BY DEF Init, RowsWellTimed, WellTimed, NoRow, OccupyingStatuses
<1> QED
  BY <1>2, <1>3 DEF ReportsInv

\* What a handler makes of a row.
MovedRow(r, a) == [r EXCEPT !.status = DispatchTarget[a], !.updated_at = now]

NewRow(e) == [NoRow EXCEPT !.status = "pending", !.equipment = e,
                           !.created_at = now, !.updated_at = now]

RowMove(r, s) ==
    \/ r = NoRow /\ \E e \in Equipments \cup {Unset} : s = NewRow(e)
    \/ \E a \in {"unload", "report_exception", "redispatch", "abort"} :
        r.status \in DispatchTransitions[a] /\ s = MovedRow(r, a)
    \/ /\ r.status \in DispatchTransitions["dispatch"]
       /\ s = [MovedRow(r, "start") EXCEPT !.dispatched_at = now]
    \/ /\ r.status \in DispatchTransitions["unload"]
                        \cup DispatchTransitions["record_result"]
       /\ s = [MovedRow(r, "record_result") EXCEPT !.completed_at = now]

\* A step is one of the clock, or moves rows.
LEMMA RowsMove ==
    ASSUME TypeOK, Next
    PROVE  \/ Tick
           \/ /\ now' = now
              /\ rows' = [x \in Dispatches |-> rows'[x]]
              /\ \A x \in Dispatches :
                    rows'[x] = rows[x] \/ RowMove(rows[x], rows'[x])
<1>0. rows = [x \in Dispatches |-> rows[x]]
  BY DEF TypeOK
<1>1. ASSUME NEW d \in Dispatches, NEW s, RowMove(rows[d], s), now' = now,
             rows' = [rows EXCEPT ![d] = s]
      PROVE  /\ now' = now
             /\ rows' = [x \in Dispatches |-> rows'[x]]
             /\ \A x \in Dispatches :
                    rows'[x] = rows[x] \/ RowMove(rows[x], rows'[x])
  <2> HIDE DEF RowMove
  <2> QED
    BY <1>0, <1>1
<1>2. ASSUME NEW d \in Dispatches, NEW e \in Equipments, CreateDispatch(d, e)
      PROVE  \E s : RowMove(rows[d], s) /\ rows' = [rows EXCEPT ![d] = s]
  <2>1. RowMove(rows[d], NewRow(e))
    BY <1>2 DEF CreateDispatch, RowMove
  <2>2. rows' = [rows EXCEPT ![d] = NewRow(e)]
    BY <1>2 DEF CreateDispatch, Created, NewRow
  <2> QED
    BY <2>1, <2>2
<1>3. ASSUME NEW d \in Dispatches,
             \/ UnloadDispatch(d) \/ ReportException(d) \/ AbortDispatch(d)
      PROVE  \E s : RowMove(rows[d], s) /\ rows' = [rows EXCEPT ![d] = s]
  <2>1. PICK a \in {"unload", "report_exception", "abort"} :
            May(d, a) /\ rows' = [rows EXCEPT ![d] = Moved(d, a)]
    BY <1>3 DEF UnloadDispatch, ReportException, AbortDispatch
  <2>2. RowMove(rows[d], MovedRow(rows[d], a))
    BY <2>1 DEF RowMove, May
  <2>3. rows' = [rows EXCEPT ![d] = MovedRow(rows[d], a)]
    BY <2>1 DEF Moved, MovedRow
  <2> QED
    BY <2>2, <2>3
<1>4. ASSUME NEW d \in Dispatches, StartDispatch(d)
      PROVE  \E s : RowMove(rows[d], s) /\ rows' = [rows EXCEPT ![d] = s]
  <2> DEFINE s == [MovedRow(rows[d], "start") EXCEPT !.dispatched_at = now]
  <2>1. RowMove(rows[d], s)
    BY <1>4 DEF StartDispatch, RowMove, May
  <2>2. rows' = [rows EXCEPT ![d] = s]
    BY <1>4 DEF StartDispatch, Moved, MovedRow
  <2> QED
    BY <2>1, <2>2
<1>5. ASSUME NEW d \in Dispatches, RecordResult(d) \/ CompleteDispatchRun(d)
      PROVE  \E s : RowMove(rows[d], s) /\ rows' = [rows EXCEPT ![d] = s]
  <2> DEFINE s == [MovedRow(rows[d], "record_result") EXCEPT !.completed_at = now]
  <2>1. RowMove(rows[d], s)
    BY <1>5 DEF RecordResult, CompleteDispatchRun, RowMove, May
  <2>2. rows' = [rows EXCEPT ![d] = s]
    BY <1>5 DEF RecordResult, CompleteDispatchRun, Moved, MovedRow
  <2> QED
    BY <2>1, <2>2
<1>6. ASSUME NEW d \in Dispatches, NEW n \in Dispatches, Redispatch(d, n)
      PROVE  /\ now' = now
             /\ rows' = [x \in Dispatches |-> rows'[x]]
             /\ \A x \in Dispatches :
                    rows'[x] = rows[x] \/ RowMove(rows[x], rows'[x])
  <2>1. /\ now' = now /\ rows[d].status \in DispatchTransitions["redispatch"]
        /\ rows[n] = NoRow
        /\ rows' = [rows EXCEPT ![d] = MovedRow(rows[d], "redispatch"),
                                ![n] = NewRow(rows[d].equipment)]
    BY <1>6 DEF Redispatch, May, Moved, MovedRow, Created, NewRow
  <2>2. d # n
    BY <2>1 DEF NoRow, DispatchTransitions
  <2>3. rows[d].equipment \in Equipments \cup {Unset}
    BY DEF TypeOK
  <2>4. /\ RowMove(rows[d], MovedRow(rows[d], "redispatch"))
        /\ RowMove(rows[n], NewRow(rows[d].equipment))
    BY <2>1, <2>3 DEF RowMove
  <2>5. /\ rows'[d] = MovedRow(rows[d], "redispatch")
        /\ rows'[n] = NewRow(rows[d].equipment)
        /\ \A x \in Dispatches \ {d, n} : rows'[x] = rows[x]
        /\ rows' = [x \in Dispatches |-> rows'[x]]
    BY <1>0, <2>1, <2>2
  <2> QED
    BY <2>1, <2>4, <2>5
<1>7. ASSUME NEW d \in Dispatches,
             \/ \E e \in Equipments : CreateDispatch(d, e)
             \/ StartDispatch(d) \/ UnloadDispatch(d) \/ RecordResult(d)
             \/ CompleteDispatchRun(d) \/ ReportException(d) \/ AbortDispatch(d)
      PROVE  now' = now
  BY <1>7 DEF CreateDispatch, StartDispatch, UnloadDispatch, RecordResult,
              CompleteDispatchRun, ReportException, AbortDispatch
<1> HIDE DEF RowMove
<1> QED
  BY <1>1, <1>2, <1>3, <1>4, <1>5, <1>6, <1>7 DEF Next

LEMMA ReportsNext == ReportsInv /\ [Next]_reportVars => ReportsInv'
<1> SUFFICES ASSUME ReportsInv, [Next]_reportVars PROVE ReportsInv'
  OBVIOUS
<1>0. /\ now \in Nat /\ now \in 0..(Days * DayLength) /\ Days * DayLength \in Nat
      /\ rows \in [Dispatches -> RowRecords]
  <2>1. Days * DayLength \in Nat
    BY ReportsAssumption
  <2> QED
    BY <2>1 DEF ReportsInv, TypeOK, RowRecords
<1>1. CASE UNCHANGED reportVars
  BY <1>1 DEF reportVars, ReportsInv, TypeOK, Stamps, RowsWellTimed, WellTimed
<1>2. CASE Tick
  <2>1. now' \in 0..(Days * DayLength) /\ rows' = rows /\ now' = now + 1
    BY <1>0, <1>2 DEF Tick
  <2>2. Stamps \subseteq Stamps'
    BY <1>0, <2>1 DEF Stamps
  <2>3. RowRecords \subseteq RowRecords'
    BY <2>2 DEF RowRecords
  <2>4. rows' \in [Dispatches -> RowRecords']
    BY <1>0, <2>1, <2>3
  <2>5. TypeOK'
    BY <2>1, <2>4 DEF TypeOK, RowRecords
  <2> QED
    BY <2>1, <2>5 DEF ReportsInv, RowsWellTimed, WellTimed
<1>3. CASE /\ now' = now
           /\ rows' = [x \in Dispatches |-> rows'[x]]
           /\ \A x \in Dispatches :
                    rows'[x] = rows[x] \/ RowMove(rows[x], rows'[x])
  <2>1. Stamps' = Stamps /\ RowRecords' = RowRecords /\ now \in Stamps /\ Unset \in Stamps
    BY <1>0, <1>3 DEF Stamps, RowRecords
  <2>2. ASSUME NEW r \in RowRecords, WellTimed(r), NEW s, RowMove(r, s)
        PROVE  s \in RowRecords /\ WellTimed(s)
    <3>0. now # Unset
      BY <1>0, ReportsAssumption
    <3>1. CASE r = NoRow /\ \E e \in Equipments \cup {Unset} : s = NewRow(e)
      <4>1. PICK e \in Equipments \cup {Unset} : s = NewRow(e)
        BY <3>1
      <4>2. s = [status |-> "pending", equipment |-> e, created_at |-> now,
                 dispatched_at |-> Unset, completed_at |-> Unset, updated_at |-> now]
        BY <4>1 DEF NewRow, NoRow
      <4> QED
        BY <2>1, <4>2 DEF RowRecords, DispatchStatuses, WellTimed, OccupyingStatuses
    <3>2. ASSUME NEW a \in {"unload", "report_exception", "redispatch", "abort"},
                 r.status \in DispatchTransitions[a], s = MovedRow(r, a)
          PROVE  s \in RowRecords /\ WellTimed(s)
      <4>1. /\ s \in RowRecords /\ s.status = DispatchTarget[a]
            /\ s.dispatched_at = r.dispatched_at /\ s.completed_at = r.completed_at
            /\ s.updated_at = now
        <5>1. DispatchTarget[a] \in DispatchStatuses
          BY DEF DispatchTarget, DispatchStatuses
        <5> QED
          BY <2>1, <3>2, <5>1 DEF MovedRow, RowRecords
      <4>2. r.status # "completed" /\ s.status \notin {"none", "pending"}
        BY <3>2, <4>1 DEF DispatchTransitions, DispatchTarget
      <4> QED
        BY <2>2, <3>0, <4>1, <4>2 DEF WellTimed
    <3>3. CASE /\ r.status \in DispatchTransitions["dispatch"]
               /\ s = [MovedRow(r, "start") EXCEPT !.dispatched_at = now]
      <4>1. /\ s \in RowRecords /\ s.status = "running"
            /\ s.dispatched_at = now /\ s.completed_at = r.completed_at
            /\ s.updated_at = now
        BY <2>1, <3>3 DEF MovedRow, RowRecords, DispatchTarget, DispatchStatuses
      <4>2. r.status = "pending"
        BY <3>3 DEF DispatchTransitions
      <4> QED
        BY <2>2, <3>0, <4>1, <4>2 DEF WellTimed
    <3>4. CASE s = [MovedRow(r, "record_result") EXCEPT !.completed_at = now]
      <4>1. /\ s \in RowRecords /\ s.status = "completed"
            /\ s.completed_at = now /\ s.updated_at = now
        BY <2>1, <3>4 DEF MovedRow, RowRecords, DispatchTarget, DispatchStatuses
      <4>2. s.dispatched_at = r.dispatched_at /\ r.dispatched_at \in Stamps
        BY <3>4 DEF MovedRow, RowRecords
      <4>3. s.dispatched_at # Unset => s.dispatched_at <= now
        BY <1>0, <4>2 DEF Stamps
      <4> QED
        BY <3>0, <4>1, <4>3 DEF WellTimed, OccupyingStatuses
    <3> QED
      BY <2>2, <3>1, <3>2, <3>3, <3>4 DEF RowMove
  <2>3. \A x \in Dispatches : rows'[x] \in RowRecords /\ WellTimed(rows'[x])
    BY <1>0, <1>3, <2>2 DEF ReportsInv, RowsWellTimed
  <2>4. rows' \in [Dispatches -> RowRecords]
    BY <1>3, <2>3
  <2>5. TypeOK'
    BY <1>0, <1>3, <2>1, <2>4 DEF TypeOK, RowRecords
  <2> QED
    BY <2>3, <2>5 DEF ReportsInv, RowsWellTimed
<1> QED
  BY <1>1, <1>2, <1>3, RowsMove DEF ReportsInv

\* Every row has its types and is well timed.
THEOREM RowsAreWellTimed == Spec => []ReportsInv
BY ReportsInit, ReportsNext, PTL DEF Spec

-----------------------------------------------------------------------------
\* The reports of these rows.

LEMMA DaysAreWindows ==
    /\ Windows \subseteq Window
    /\ \A first, last \in Nat : DateRangeBounds(first, last) \in Window
<1>1. ASSUME NEW first \in Nat, NEW last \in Nat
      PROVE  DateRangeBounds(first, last) \in Window
  <2>1. first * DayLength \in Nat /\ (last + 1) * DayLength \in Nat
    BY ReportsAssumption
  <2> QED
    BY <2>1 DEF DateRangeBounds, Window
<1>2. AllDays \subseteq Nat
  BY DEF AllDays
<1> QED
  BY <1>1, <1>2 DEF Windows

LEMMA OverlappingAreTimed ==
    ASSUME ReportsInv, NEW w, NEW d \in DispatchesOverlapping(rows, w)
    PROVE  d \in Dispatches /\ Timed(rows, d) /\ WellTimed(rows[d])
<1>1. d \in Dispatches /\ rows[d].dispatched_at # Unset
  BY DEF DispatchesOverlapping
<1>2. /\ rows[d].dispatched_at \in Stamps /\ rows[d].completed_at \in Stamps
      /\ rows[d].updated_at \in Stamps /\ WellTimed(rows[d])
  BY <1>1 DEF ReportsInv, TypeOK, RowsWellTimed
<1>3. Stamps \subseteq Nat \cup {Unset}
  BY DEF Stamps
<1> QED
  BY <1>1, <1>2, <1>3 DEF Timed, WellTimed

\* The busy time of a machine is the number of instants at which some run has
\* it, however the runs touch, nest or overlap and wherever the window cuts
\* them: merging the sorted intervals counts nothing twice and leaves nothing
\* out (_utilization_rows_for_bounds, _merge_busy_seconds).
THEOREM BusyTimeIsCounted == Spec => []BusyTimeIsExact
<1>1. ReportsInv => BusyTimeIsExact
  <2> SUFFICES ASSUME ReportsInv, NEW e \in Equipments, NEW w \in Windows
               PROVE  UtilizationRow(rows, e, w) = Cardinality(
                        {t \in (w.start)..(w.end - 1) :
                            \E d \in Dispatches : rows[d].equipment = e /\ Occupies(d, t)})
    BY DEF BusyTimeIsExact
  <2> DEFINE D == DispatchesOverlapping(rows, w)
  <2>1. w \in Window /\ w.start \in Nat /\ w.end \in Nat
    BY DaysAreWindows DEF Window
  <2>2. D \in SUBSET Dispatches /\ \A d \in D : Timed(rows, d)
    BY OverlappingAreTimed
  <2>3. UtilizationRow(rows, e, w) = Cardinality(BusyInstants(rows, D, e, w))
    BY <2>1, <2>2, BusyTimeCounts DEF UtilizationRow
  <2>4. ASSUME NEW t \in (w.start)..(w.end - 1), NEW d \in Dispatches
        PROVE  Occupies(d, t) <=>
                  /\ d \in D /\ rows[d].dispatched_at <= t
                  /\ t < DispatchBusyEnd(rows, d, w.end)
    <3>1. /\ rows[d].dispatched_at \in Nat \cup {Unset}
          /\ rows[d].completed_at \in Nat \cup {Unset}
          /\ rows[d].updated_at \in Nat \cup {Unset}
          /\ WellTimed(rows[d])
      BY DEF ReportsInv, TypeOK, RowsWellTimed, Stamps
    <3>2. t \in Nat /\ w.start <= t /\ t < w.end
      BY <2>1
    <3>3. CASE rows[d].dispatched_at = Unset
      BY <3>3 DEF Occupies, DispatchesOverlapping
    <3>4. CASE rows[d].dispatched_at # Unset /\ rows[d].completed_at # Unset
      <4>1. /\ rows[d].dispatched_at \in Nat /\ rows[d].completed_at \in Nat
            /\ rows[d].status \notin OccupyingStatuses
        BY <3>1, <3>4 DEF WellTimed
      <4>2. Occupies(d, t) <=> rows[d].dispatched_at <= t /\ t < rows[d].completed_at
        BY <3>4, <4>1 DEF Occupies, OccupyingStatuses
      <4>3. DispatchBusyEnd(rows, d, w.end) = Earliest(rows[d].completed_at, w.end)
        BY <3>4 DEF DispatchBusyEnd
      <4> QED
        BY <2>1, <3>2, <3>4, <4>1, <4>2, <4>3 DEF DispatchesOverlapping, Earliest
    <3>5. CASE rows[d].dispatched_at # Unset /\ rows[d].completed_at = Unset
      <4>1. rows[d].dispatched_at \in Nat /\ rows[d].updated_at \in Nat
        BY <3>1, <3>5 DEF WellTimed
      <4>2. CASE rows[d].status \in OccupyingStatuses
        BY <2>1, <3>2, <3>5, <4>1, <4>2
           DEF Occupies, OccupyingStatuses, DispatchesOverlapping, DispatchBusyEnd
      <4>3. CASE rows[d].status \notin OccupyingStatuses
        BY <2>1, <3>2, <3>5, <4>1, <4>3
           DEF Occupies, OccupyingStatuses, DispatchesOverlapping, DispatchBusyEnd, Earliest
      <4> QED
        BY <4>2, <4>3
    <3> QED
      BY <3>3, <3>4, <3>5
  <2> HIDE DEF D
  <2>5. BusyInstants(rows, D, e, w) =
            {t \in (w.start)..(w.end - 1) :
                \E d \in Dispatches : rows[d].equipment = e /\ Occupies(d, t)}
    BY <2>2, <2>4 DEF BusyInstants
  <2> QED
    BY <2>3, <2>5
<1> QED
  BY <1>1, RowsAreWellTimed, PTL

-----------------------------------------------------------------------------
\* What is over.

\* The intervals on a machine depend on nothing of the rows but the runs that
\* overlap, the machine and the interval of each.
LEMMA SameRows ==
    ASSUME NEW R, NEW Q, NEW e, NEW w,
           DispatchesOverlapping(R, w) = DispatchesOverlapping(Q, w),
           \A d \in DispatchesOverlapping(R, w) :
                /\ R[d].equipment = Q[d].equipment
                /\ Interval(R, d, w) = Interval(Q, d, w)
    PROVE  UtilizationRow(R, e, w) = UtilizationRow(Q, e, w)
<1> DEFINE D == DispatchesOverlapping(R, w)
           All(T) == {d \in D : /\ T[d].equipment = e
                                /\ Interval(T, d, w).end > Interval(T, d, w).start}
           Iv(T) == [d \in All(T) |-> Interval(T, d, w)]
           Span(T) == [i \in 1..Cardinality(All(T)) |-> Iv(T)[Sorted(Iv(T))[i]]]
<1>1. All(R) = All(Q)
  OBVIOUS
<1>2. Iv(R) = Iv(Q)
  BY <1>1
<1>3. Intervals(R, D, e, w) = Span(R) /\ Intervals(Q, D, e, w) = Span(Q)
  BY DEF Intervals
<1> HIDE DEF Iv, All
<1>4. Span(R) = Span(Q)
  BY <1>1, <1>2
<1> QED
  BY <1>3, <1>4 DEF UtilizationRow, BusyTime

LEMMA WindowsAreNotEmpty == \A w \in Windows : w.start < w.end
<1> SUFFICES ASSUME NEW first \in AllDays, NEW last \in AllDays, first <= last
             PROVE  first * DayLength < (last + 1) * DayLength
  BY DEF Windows, DateRangeBounds
<1>1. first \in Nat /\ last \in Nat /\ DayLength \in Nat /\ DayLength > 0
  BY ReportsAssumption DEF AllDays
<1> DEFINE k == (last + 1) - first
<1>2. k \in Nat /\ k > 0 /\ last + 1 = first + k
  BY <1>1
<1> HIDE DEF k
<1>3. (last + 1) * DayLength = first * DayLength + k * DayLength
  BY <1>1, <1>2
<1>4. k * DayLength \in Nat /\ k * DayLength > 0 /\ first * DayLength \in Nat
  BY <1>1, <1>2
<1> QED
  BY <1>3, <1>4

\* What may still happen to the row of a run that has begun and has not failed.
LEMMA RunsGoOn ==
    ASSUME NEW r \in RowRecords, WellTimed(r), r.status # "execution_exception",
           NEW s, RowMove(r, s)
    PROVE  \/ r.dispatched_at = Unset /\ s.dispatched_at \in {Unset, now}
           \/ /\ s.dispatched_at = r.dispatched_at /\ s.equipment = r.equipment
              /\ r.status \in OccupyingStatuses /\ r.completed_at = Unset
              /\ \/ s.completed_at = now
                 \/ /\ s.completed_at = Unset
                    /\ s.status \in OccupyingStatuses \/ s.updated_at = now
<1>1. CASE r = NoRow /\ \E e \in Equipments \cup {Unset} : s = NewRow(e)
  BY <1>1 DEF NoRow, NewRow
<1>2. ASSUME NEW a \in {"unload", "report_exception", "redispatch", "abort"},
             r.status \in DispatchTransitions[a], s = MovedRow(r, a)
      PROVE  \/ r.dispatched_at = Unset /\ s.dispatched_at = Unset
             \/ /\ s.dispatched_at = r.dispatched_at /\ s.equipment = r.equipment
                /\ r.status \in OccupyingStatuses /\ r.completed_at = Unset
                /\ s.completed_at = Unset /\ s.updated_at = now
  <2>1. /\ s.dispatched_at = r.dispatched_at /\ s.equipment = r.equipment
        /\ s.completed_at = r.completed_at /\ s.updated_at = now
    BY <1>2 DEF MovedRow, RowRecords
  <2>2. r.status \in {"pending", "dispatched", "running"}
    BY <1>2 DEF DispatchTransitions
  <2> QED
    BY <2>1, <2>2 DEF WellTimed, OccupyingStatuses
<1>3. CASE /\ r.status \in DispatchTransitions["dispatch"]
           /\ s = [MovedRow(r, "start") EXCEPT !.dispatched_at = now]
  BY <1>3 DEF DispatchTransitions, WellTimed, MovedRow, RowRecords
<1>4. CASE /\ r.status \in DispatchTransitions["unload"]
                                \cup DispatchTransitions["record_result"]
           /\ s = [MovedRow(r, "record_result") EXCEPT !.completed_at = now]
  <2>1. /\ s.dispatched_at = r.dispatched_at /\ s.equipment = r.equipment
        /\ s.completed_at = now
    BY <1>4 DEF MovedRow, RowRecords
  <2>2. r.status \in OccupyingStatuses
    BY <1>4 DEF DispatchTransitions, OccupyingStatuses
  <2> QED
    BY <2>1, <2>2 DEF WellTimed
<1> QED
  BY <1>1, <1>2, <1>3, <1>4 DEF RowMove

\* A report about days that are over stays as it is, whatever becomes of the
\* runs it counted, except that a run that failed is counted until its row is
\* last saved (_dispatch_busy_end: the times that a later call writes are cut by
\* the end of the window).
THEOREM PastStaysFixed == Spec => PastIsFixed
<1>1. ASSUME ReportsInv, [Next]_reportVars, NEW e \in Equipments, NEW w \in Windows,
             w.end <= now,
             \A d \in Dispatches : rows'[d] # rows[d] =>
                rows[d].status # "execution_exception"
      PROVE  UtilizationRow(rows', e, w) = UtilizationRow(rows, e, w)
  <2>1. /\ w.start \in Nat /\ w.end \in Nat /\ w.start < w.end
        /\ now \in Nat /\ now # Unset
    <3>1. Days * DayLength \in Nat
      BY ReportsAssumption
    <3>2. now \in Nat
      BY <1>1, <3>1 DEF ReportsInv, TypeOK
    <3> QED
      BY <3>2, DaysAreWindows, WindowsAreNotEmpty, ReportsAssumption DEF Window
  <2>2. ASSUME rows' = rows PROVE UtilizationRow(rows', e, w) = UtilizationRow(rows, e, w)
    BY <2>2
  <2>3. CASE \A x \in Dispatches : rows'[x] = rows[x] \/ RowMove(rows[x], rows'[x])
    <3>1. ASSUME NEW d \in Dispatches
          PROVE  /\ d \in DispatchesOverlapping(rows', w)
                        <=> d \in DispatchesOverlapping(rows, w)
                 /\ d \in DispatchesOverlapping(rows', w) =>
                        /\ rows'[d].equipment = rows[d].equipment
                        /\ Interval(rows', d, w) = Interval(rows, d, w)
      <4>1. rows[d] \in RowRecords /\ WellTimed(rows[d])
        BY <1>1 DEF ReportsInv, TypeOK, RowRecords, RowsWellTimed
      <4>2. CASE rows'[d] = rows[d]
        BY <4>2 DEF DispatchesOverlapping, Interval, DispatchBusyEnd
      <4>3. CASE rows[d].dispatched_at = Unset /\ rows'[d].dispatched_at \in {Unset, now}
        BY <1>1, <2>1, <4>3 DEF DispatchesOverlapping
      <4>4. CASE /\ rows'[d].dispatched_at = rows[d].dispatched_at
                 /\ rows'[d].equipment = rows[d].equipment
                 /\ rows[d].status \in OccupyingStatuses
                 /\ rows[d].completed_at = Unset
                 /\ \/ rows'[d].completed_at = now
                    \/ /\ rows'[d].completed_at = Unset
                       /\ \/ rows'[d].status \in OccupyingStatuses
                          \/ rows'[d].updated_at = now
        <5>1. Earliest(now, w.end) = w.end /\ now > w.start
          BY <1>1, <2>1 DEF Earliest
        <5>2. /\ DispatchBusyEnd(rows, d, w.end) = w.end
              /\ DispatchBusyEnd(rows', d, w.end) = w.end
          BY <2>1, <4>4, <5>1 DEF DispatchBusyEnd
        <5>3. Interval(rows', d, w) = Interval(rows, d, w)
          BY <4>4, <5>2 DEF Interval
        <5> QED
          BY <2>1, <4>4, <5>1, <5>3 DEF DispatchesOverlapping
      <4> QED
        BY <1>1, <2>3, <4>1, <4>2, <4>3, <4>4, RunsGoOn
    <3>2. DispatchesOverlapping(rows', w) = DispatchesOverlapping(rows, w)
      BY <3>1 DEF DispatchesOverlapping
    <3>3. PICK Q, R : Q = rows' /\ R = rows
      OBVIOUS
    <3>4. /\ DispatchesOverlapping(Q, w) = DispatchesOverlapping(R, w)
          /\ \A d \in DispatchesOverlapping(Q, w) :
                /\ Q[d].equipment = R[d].equipment
                /\ Interval(Q, d, w) = Interval(R, d, w)
      BY <3>1, <3>2, <3>3 DEF DispatchesOverlapping
    <3>5. UtilizationRow(Q, e, w) = UtilizationRow(R, e, w)
      BY <3>4, SameRows
    <3> QED
      BY <3>3, <3>5
  <2>4. ReportsInv /\ [Next]_reportVars =>
            \/ rows' = rows
            \/ \A x \in Dispatches : rows'[x] = rows[x] \/ RowMove(rows[x], rows'[x])
    BY RowsMove DEF ReportsInv, reportVars, Tick
  <2> QED
    BY <1>1, <2>2, <2>3, <2>4
<1>2. ReportsInv /\ [Next]_reportVars =>
        [\A e \in Equipments, w \in Windows :
            /\ w.end <= now
            /\ \A d \in Dispatches : rows'[d] # rows[d] =>
                    rows[d].status # "execution_exception"
            => UtilizationRow(rows', e, w) = UtilizationRow(rows, e, w)]_reportVars
  BY <1>1
<1> QED
  BY <1>2, RowsAreWellTimed, PTL DEF Spec, PastIsFixed

-----------------------------------------------------------------------------
\* Sums of cardinalities.

Some(s) == CHOOSE x \in s : TRUE

SumOver(fun, it) ==
    it = [s \in SUBSET DOMAIN fun |->
            IF s = {} THEN 0 ELSE fun[Some(s)] + it[s \ {Some(s)}]]

LEMMA SumIsFold ==
    ASSUME NEW fun
    PROVE  SumFunction(fun) = (CHOOSE it : SumOver(fun, it))[DOMAIN fun]
BY Zenon DEF SumFunction, SumFunctionOnSet, FoldFunctionOnSet, MapThenFoldSet, SumOver, Some

Together(F, s) == UNION {F[x] : x \in s}

\* The sum of the sizes of disjoint sets is the size of their union.
LEMMA SumOfParts ==
    ASSUME NEW fun, NEW S, S = DOMAIN fun, IsFiniteSet(S), NEW F,
           \A x \in S : IsFiniteSet(F[x]) /\ fun[x] = Cardinality(F[x]),
           \A x, y \in S : x # y => F[x] \cap F[y] = {}
    PROVE  /\ IsFiniteSet(Together(F, S))
           /\ SumFunction(fun) = Cardinality(Together(F, S))
<1> DEFINE Parts(s) == UNION {F[x] : x \in s}
           g == [s \in SUBSET S |-> Cardinality(Parts(s))]
<1>1. ASSUME NEW s \in SUBSET S PROVE IsFiniteSet(s) /\ IsFiniteSet(Parts(s))
  <2>1. IsFiniteSet(s)
    BY FS_Subset
  <2> DEFINE f == [x \in s |-> F[x]]
             T == {F[x] : x \in s}
  <2>2. f \in Surjection(s, T)
    <3>1. f \in [s -> T] /\ \A y \in T : \E x \in s : f[x] = y
      OBVIOUS
    <3> QED
      BY <3>1 DEF Surjection
  <2> HIDE DEF f, T
  <2>3. IsFiniteSet(T)
    BY <2>1, <2>2, FS_Surjection
  <2> QED
    BY <2>1, <2>3, FS_UNION DEF T
<1>2. ASSUME NEW s \in SUBSET S, s # {}
      PROVE  /\ Some(s) \in s /\ s \ {Some(s)} \in SUBSET S
             /\ Cardinality(Parts(s)) = fun[Some(s)] + Cardinality(Parts(s \ {Some(s)}))
  <2>1. Some(s) \in s
    BY <1>2 DEF Some
  <2> DEFINE x == Some(s)
             t == s \ {x}
  <2> HIDE DEF x
  <2>2. x \in s /\ x \in S /\ t \in SUBSET S
    BY <2>1 DEF x
  <2>3. Parts(s) = F[x] \cup Parts(t)
    BY <2>2
  <2>4. F[x] \cap Parts(t) = {}
    BY <2>2
  <2>5. IsFiniteSet(F[x]) /\ IsFiniteSet(Parts(t)) /\ fun[x] = Cardinality(F[x])
    BY <1>1, <2>2
  <2> HIDE DEF t, Parts
  <2>6. Cardinality(F[x] \cup Parts(t)) =
            Cardinality(F[x]) + Cardinality(Parts(t)) - Cardinality({})
    BY <2>4, <2>5, FS_Union
  <2>7. Cardinality({}) = 0 /\ Cardinality(F[x]) \in Nat /\ Cardinality(Parts(t)) \in Nat
    BY <2>5, FS_EmptySet, FS_CardinalityType
  <2>8. Cardinality(Parts(s)) = fun[x] + Cardinality(Parts(t))
    BY <2>3, <2>5, <2>6, <2>7
  <2> QED
    BY <2>2, <2>8 DEF t, x
<1>3. Parts({}) = {} /\ Cardinality(Parts({})) = 0
  BY FS_EmptySet
<1> HIDE DEF Parts
<1>4. SumOver(fun, g)
  <2>1. \A s \in SUBSET S :
            g[s] = IF s = {} THEN 0 ELSE fun[Some(s)] + g[s \ {Some(s)}]
    BY <1>2, <1>3
  <2>2. g = [s \in SUBSET S |-> g[s]]
    OBVIOUS
  <2> HIDE DEF g
  <2> QED
    BY <2>1, <2>2 DEF SumOver
<1> DEFINE it == CHOOSE h : SumOver(fun, h)
<1>5. SumOver(fun, it)
  BY <1>4, Zenon
<1> HIDE DEF it
<1> DEFINE N == {n \in Nat : \A s \in SUBSET S :
                    Cardinality(s) = n => it[s] = Cardinality(Parts(s))}
<1>6. 0 \in N
  <2> SUFFICES ASSUME NEW s \in SUBSET S, Cardinality(s) = 0
               PROVE  it[s] = Cardinality(Parts(s))
    OBVIOUS
  <2>1. s = {}
    BY <1>1, FS_EmptySet
  <2> QED
    BY <1>3, <1>5, <2>1 DEF SumOver
<1>7. ASSUME NEW n \in Nat, n \in N PROVE n + 1 \in N
  <2> SUFFICES ASSUME NEW s \in SUBSET S, Cardinality(s) = n + 1
               PROVE  it[s] = Cardinality(Parts(s))
    OBVIOUS
  <2>1. s # {}
    BY FS_EmptySet
  <2>2. Some(s) \in s /\ s \ {Some(s)} \in SUBSET S
    BY <1>2, <2>1
  <2>3. Cardinality(s \ {Some(s)}) = n
    <3> DEFINE x == Some(s)
    <3>1. x \in s /\ IsFiniteSet(s)
      BY <1>1, <2>2
    <3> HIDE DEF x
    <3>2. Cardinality(s \ {x}) = Cardinality(s) - 1
      BY <3>1, FS_RemoveElement
    <3> QED
      BY <3>2 DEF x
  <2>4. it[s \ {Some(s)}] = Cardinality(Parts(s \ {Some(s)}))
    BY <1>7, <2>2, <2>3
  <2>5. it[s] = fun[Some(s)] + it[s \ {Some(s)}]
    BY <1>5, <2>1 DEF SumOver
  <2> QED
    BY <1>2, <2>1, <2>4, <2>5
<1> HIDE DEF N
<1>8. Cardinality(S) \in N
  BY <1>6, <1>7, SetInduction, FS_CardinalityType
<1>9. it[S] = Cardinality(Parts(S))
  BY <1>8 DEF N
<1>10. SumFunction(fun) = it[S]
  BY SumIsFold DEF it
<1> QED
  BY <1>1, <1>9, <1>10 DEF Parts, Together

-----------------------------------------------------------------------------
\* Days, one after the other.

LEMMA DaysGrow ==
    \A i, j \in Nat :
        /\ i * DayLength \in Nat
        /\ i <= j => i * DayLength <= j * DayLength
        /\ (i + 1) * DayLength = i * DayLength + DayLength
<1> SUFFICES ASSUME NEW i \in Nat, NEW j \in Nat
             PROVE  /\ i * DayLength \in Nat
                    /\ i <= j => i * DayLength <= j * DayLength
                    /\ (i + 1) * DayLength = i * DayLength + DayLength
  OBVIOUS
<1>1. DayLength \in Nat
  BY ReportsAssumption
<1>2. ASSUME i <= j PROVE i * DayLength <= j * DayLength
  <2> DEFINE k == j - i
  <2>1. k \in Nat /\ j = i + k
    BY <1>2
  <2> HIDE DEF k
  <2>2. j * DayLength = i * DayLength + k * DayLength
    BY <1>1, <2>1
  <2>3. k * DayLength \in Nat /\ i * DayLength \in Nat
    BY <1>1, <2>1
  <2> QED
    BY <2>2, <2>3
<1> QED
  BY <1>1, <1>2

OnDay(t, day) == day * DayLength <= t /\ t < (day + 1) * DayLength

LEMMA DayOf ==
    ASSUME NEW t \in Nat
    PROVE  t \div DayLength \in Nat /\ OnDay(t, t \div DayLength)
<1> DEFINE q == t \div DayLength
           r == t % DayLength
<1>1. DayLength \in Nat /\ DayLength > 0
  BY ReportsAssumption
<1>2. q \in Nat
  BY <1>1
<1>3. r \in Nat /\ r < DayLength
  BY <1>1
<1>4. t = q * DayLength + r
  BY <1>1
<1> HIDE DEF q, r
<1>5. OnDay(t, q)
  BY <1>1, <1>2, <1>3, <1>4, DaysGrow DEF OnDay
<1> QED
  BY <1>2, <1>5 DEF q

\* An instant of a range of days is on one of them, and on no other.
LEMMA OnOneDay ==
    ASSUME NEW t \in Nat, NEW first \in Nat, NEW last \in Nat
    PROVE  /\ first * DayLength <= t /\ t < (last + 1) * DayLength
                <=> \E day \in first..last : OnDay(t, day)
           /\ \A i, j \in Nat : OnDay(t, i) /\ OnDay(t, j) => i = j
<1>1. ASSUME NEW i \in Nat, NEW j \in Nat,
             i * DayLength <= t, t < (j + 1) * DayLength
      PROVE  i <= j
  <2> SUFFICES ASSUME j + 1 <= i PROVE FALSE
    OBVIOUS
  <2>1. (j + 1) * DayLength <= i * DayLength
    BY DaysGrow
  <2> QED
    BY <1>1, <2>1, DaysGrow
<1>2. ASSUME NEW i \in Nat, NEW j \in Nat, OnDay(t, i), OnDay(t, j) PROVE i = j
  BY <1>1, <1>2 DEF OnDay
<1>3. ASSUME first * DayLength <= t, t < (last + 1) * DayLength
      PROVE  \E day \in first..last : OnDay(t, day)
  <2> DEFINE q == t \div DayLength
  <2>1. q \in Nat /\ OnDay(t, q)
    BY DayOf
  <2> HIDE DEF q
  <2>2. first <= q /\ q <= last
    BY <1>1, <1>3, <2>1 DEF OnDay
  <2> QED
    BY <2>1, <2>2
<1>4. ASSUME NEW day \in first..last, OnDay(t, day)
      PROVE  first * DayLength <= t /\ t < (last + 1) * DayLength
  <2>1. day \in Nat /\ first <= day /\ day + 1 <= last + 1
    OBVIOUS
  <2>2. first * DayLength <= day * DayLength /\ (day + 1) * DayLength <= (last + 1) * DayLength
    BY <2>1, DaysGrow
  <2>3. /\ first * DayLength \in Nat /\ day * DayLength \in Nat
        /\ (day + 1) * DayLength \in Nat /\ (last + 1) * DayLength \in Nat
    BY <2>1, DaysGrow
  <2> QED
    BY <1>4, <2>2, <2>3 DEF OnDay
<1> QED
  BY <1>2, <1>3, <1>4

-----------------------------------------------------------------------------
\* The daily reports add up.

MachineInstants(R, D, w) ==
    UNION {{e} \X BusyInstants(R, D, e, w) : e \in Equipments}

LEMMA MachinesAddUp ==
    ASSUME NEW R, NEW D \in SUBSET Dispatches, \A d \in D : Timed(R, d),
           NEW w \in Window
    PROVE  /\ IsFiniteSet(MachineInstants(R, D, w))
           /\ SumFunction([e \in Equipments |-> BusyTime(R, D, e, w)])
                = Cardinality(MachineInstants(R, D, w))
<1> DEFINE fun == [e \in Equipments |-> BusyTime(R, D, e, w)]
           F == [e \in Equipments |-> {e} \X BusyInstants(R, D, e, w)]
<1>1. ASSUME NEW e \in Equipments
      PROVE  IsFiniteSet(F[e]) /\ fun[e] = Cardinality(F[e])
  <2> DEFINE B == BusyInstants(R, D, e, w)
  <2>1. IsFiniteSet(B) /\ fun[e] = Cardinality(B)
    BY BusyTimeCounts
  <2> HIDE DEF B
  <2>2. IsFiniteSet({e}) /\ Cardinality({e}) = 1
    BY FS_Singleton
  <2>3. IsFiniteSet({e} \X B) /\ Cardinality({e} \X B) = Cardinality({e}) * Cardinality(B)
    BY <2>1, <2>2, FS_Product
  <2>4. Cardinality(B) \in Nat
    BY <2>1, FS_CardinalityType
  <2>5. fun[e] = Cardinality({e} \X B)
    BY <2>1, <2>2, <2>3, <2>4
  <2> QED
    BY <2>3, <2>5 DEF B
<1>2. \A i, j \in Equipments : i # j => F[i] \cap F[j] = {}
  OBVIOUS
<1>3. Equipments = DOMAIN fun /\ IsFiniteSet(Equipments)
  BY ReportsAssumption
<1>4. MachineInstants(R, D, w) = Together(F, Equipments)
  BY DEF MachineInstants, Together
<1> HIDE DEF fun, F
<1>5. /\ IsFiniteSet(Together(F, Equipments))
      /\ SumFunction(fun) = Cardinality(Together(F, Equipments))
  BY <1>1, <1>2, <1>3, SumOfParts
<1> QED
  BY <1>4, <1>5 DEF fun

\* Where a report is cut does not matter to the instants before.
LEMMA CutLater ==
    ASSUME NEW R, NEW d, Timed(R, d), NEW t \in Nat,
           NEW i \in Nat, NEW j \in Nat, t < i, t < j
    PROVE  t < DispatchBusyEnd(R, d, i) <=> t < DispatchBusyEnd(R, d, j)
BY DEF DispatchBusyEnd, Earliest, Timed

LEMMA DaysAddUp ==
    ASSUME NEW R, NEW D \in SUBSET Dispatches, \A d \in D : Timed(R, d),
           NEW first \in Nat, NEW last \in Nat
    PROVE  SumFunction([day \in first..last |-> TrendBusy(R, D, day)])
             = SumFunction([e \in Equipments |->
                    BusyTime(R, D, e, DateRangeBounds(first, last))])
<1> DEFINE w == DateRangeBounds(first, last)
           W(day) == DateRangeBounds(day, day)
           days == first..last
           fun == [day \in days |-> TrendBusy(R, D, day)]
           F == [day \in days |-> MachineInstants(R, D, W(day))]
<1>1. ASSUME NEW day \in days
      PROVE  IsFiniteSet(F[day]) /\ fun[day] = Cardinality(F[day])
  <2>1. W(day) \in Window
    BY DaysAreWindows
  <2> QED
    BY <2>1, MachinesAddUp DEF TrendBusy
<1>2. ASSUME NEW e \in Equipments, NEW t, NEW day \in Nat
      PROVE  <<e, t>> \in MachineInstants(R, D, W(day))
                <=> /\ t \in Nat /\ OnDay(t, day)
                    /\ \E d \in D : /\ R[d].equipment = e /\ R[d].dispatched_at <= t
                                    /\ t < DispatchBusyEnd(R, d, (day + 1) * DayLength)
  <2>1. day * DayLength \in Nat /\ (day + 1) * DayLength \in Nat
    BY DaysGrow
  <2>2. <<e, t>> \in MachineInstants(R, D, W(day)) <=> t \in BusyInstants(R, D, e, W(day))
    BY DEF MachineInstants
  <2>3. t \in (day * DayLength)..((day + 1) * DayLength - 1) <=> t \in Nat /\ OnDay(t, day)
    BY <2>1 DEF OnDay
  <2> QED
    BY <2>2, <2>3 DEF BusyInstants, DateRangeBounds
<1>3. ASSUME NEW e \in Equipments, NEW t
      PROVE  <<e, t>> \in MachineInstants(R, D, w)
                <=> /\ t \in Nat /\ first * DayLength <= t /\ t < (last + 1) * DayLength
                    /\ \E d \in D : /\ R[d].equipment = e /\ R[d].dispatched_at <= t
                                    /\ t < DispatchBusyEnd(R, d, (last + 1) * DayLength)
  <2>1. first * DayLength \in Nat /\ (last + 1) * DayLength \in Nat
    BY DaysGrow
  <2>2. <<e, t>> \in MachineInstants(R, D, w) <=> t \in BusyInstants(R, D, e, w)
    BY DEF MachineInstants
  <2>3. t \in (first * DayLength)..((last + 1) * DayLength - 1)
            <=> t \in Nat /\ first * DayLength <= t /\ t < (last + 1) * DayLength
    BY <2>1
  <2> QED
    BY <2>2, <2>3 DEF BusyInstants, DateRangeBounds
<1>4. ASSUME NEW e \in Equipments, NEW t
      PROVE  <<e, t>> \in MachineInstants(R, D, w)
                <=> \E day \in days : <<e, t>> \in MachineInstants(R, D, W(day))
  <2> HIDE DEF w, W
  <2>1. CASE t \notin Nat
    BY <1>2, <1>3, <2>1
  <2>2. CASE t \in Nat
    <3>1. /\ (last + 1) * DayLength \in Nat
          /\ \A day \in days : day \in Nat /\ (day + 1) * DayLength \in Nat
      BY DaysGrow
    <3>2. ASSUME NEW day \in days, OnDay(t, day), NEW d \in D
          PROVE  t < DispatchBusyEnd(R, d, (day + 1) * DayLength)
                    <=> t < DispatchBusyEnd(R, d, (last + 1) * DayLength)
      <4>1. t < (day + 1) * DayLength /\ t < (last + 1) * DayLength
        BY <2>2, <3>2, OnOneDay DEF OnDay
      <4> QED
        BY <2>2, <3>1, <4>1, CutLater
    <3>3. first * DayLength <= t /\ t < (last + 1) * DayLength
                <=> \E day \in days : OnDay(t, day)
      BY <2>2, OnOneDay
    <3> HIDE DEF days
    <3> QED
      BY <1>2, <1>3, <2>2, <3>1, <3>2, <3>3
  <2> QED
    BY <2>1, <2>2
<1>5. MachineInstants(R, D, w) = Together(F, days)
  <2>1. \A day : \A p \in MachineInstants(R, D, W(day)) : \E e \in Equipments : \E t : p = <<e, t>>
    BY DEF MachineInstants
  <2>2. \A p \in MachineInstants(R, D, w) : \E e \in Equipments : \E t : p = <<e, t>>
    BY DEF MachineInstants
  <2>3. \A day \in days : F[day] = MachineInstants(R, D, W(day))
    OBVIOUS
  <2> HIDE DEF w, W, F, days
  <2> QED
    BY <1>4, <2>1, <2>2, <2>3 DEF Together
<1>6. ASSUME NEW i \in days, NEW j \in days, i # j PROVE F[i] \cap F[j] = {}
  <2> SUFFICES ASSUME NEW p \in F[i], p \in F[j] PROVE FALSE
    OBVIOUS
  <2>0. PICK e \in Equipments : \E t : p = <<e, t>>
    BY DEF MachineInstants
  <2>1. PICK t : p = <<e, t>>
    BY <2>0
  <2>2. t \in Nat /\ OnDay(t, i) /\ OnDay(t, j)
    <3>1. <<e, t>> \in MachineInstants(R, D, W(i)) /\ <<e, t>> \in MachineInstants(R, D, W(j))
      BY <2>1
    <3>2. i \in Nat /\ j \in Nat
      OBVIOUS
    <3> HIDE DEF W
    <3> QED
      BY <1>2, <3>1, <3>2
  <2> QED
    BY <1>6, <2>2, OnOneDay
<1>7. days = DOMAIN fun /\ IsFiniteSet(days)
  BY FS_Interval
<1>8. SumFunction([e \in Equipments |-> BusyTime(R, D, e, w)])
        = Cardinality(MachineInstants(R, D, w))
  BY MachinesAddUp, DaysAreWindows
<1> HIDE DEF fun, F, days, w
<1>9. SumFunction(fun) = Cardinality(Together(F, days))
  <2>1. \A x \in days : IsFiniteSet(F[x]) /\ fun[x] = Cardinality(F[x])
    BY <1>1
  <2>2. \A x, y \in days : x # y => F[x] \cap F[y] = {}
    BY <1>6
  <2> QED
    BY <1>7, <2>1, <2>2, SumOfParts
<1> QED
  BY <1>5, <1>8, <1>9 DEF fun, days, w

BegunIn(R, D, first, last) ==
    {d \in D : /\ R[d].dispatched_at >= first * DayLength
               /\ R[d].dispatched_at < (last + 1) * DayLength}

LEMMA CountsAddUp ==
    ASSUME NEW R, NEW D \in SUBSET Dispatches, \A d \in D : Timed(R, d),
           NEW first \in Nat, NEW last \in Nat
    PROVE  SumFunction([day \in first..last |-> TrendCount(R, D, day)])
             = Cardinality(BegunIn(R, D, first, last))
<1> DEFINE days == first..last
           At(d) == R[d].dispatched_at
           Begun == {d \in D : first * DayLength <= At(d) /\ At(d) < (last + 1) * DayLength}
           fun == [day \in days |-> TrendCount(R, D, day)]
           F == [day \in days |-> {d \in D : OnDay(At(d), day)}]
<1>1. \A d \in D : At(d) \in Nat
  BY DEF Timed
<1>2. \A i \in Nat : i * DayLength \in Nat /\ (i + 1) * DayLength \in Nat
  BY DaysGrow
<1>3. \A x, y \in Nat : x >= y <=> y <= x
  OBVIOUS
<1>4. ASSUME NEW day \in days
      PROVE  IsFiniteSet(F[day]) /\ fun[day] = Cardinality(F[day])
  <2>1. IsFiniteSet(D)
    BY ReportsAssumption, FS_Subset
  <2>2. IsFiniteSet(F[day])
    BY <2>1, FS_Subset
  <2>3. fun[day] = Cardinality({d \in D : At(d) >= day * DayLength /\ At(d) < (day + 1) * DayLength})
    BY DEF TrendCount, DateRangeBounds
  <2>4. day \in Nat /\ day * DayLength \in Nat
    BY <1>2
  <2> HIDE DEF At
  <2>5. {d \in D : At(d) >= day * DayLength /\ At(d) < (day + 1) * DayLength} = F[day]
    BY <1>1, <1>3, <2>4 DEF OnDay
  <2> QED
    BY <2>2, <2>3, <2>5
<1> HIDE DEF At
<1>5. ASSUME NEW i \in days, NEW j \in days, i # j PROVE F[i] \cap F[j] = {}
  BY <1>1, <1>5, OnOneDay
<1>6. days = DOMAIN fun /\ IsFiniteSet(days)
  BY FS_Interval
<1>7. Begun = Together(F, days)
  <2>1. \A d \in D : first * DayLength <= At(d) /\ At(d) < (last + 1) * DayLength
                        <=> \E day \in days : OnDay(At(d), day)
    BY <1>1, OnOneDay
  <2>2. \A day \in days : F[day] = {d \in D : OnDay(At(d), day)}
    OBVIOUS
  <2> HIDE DEF days, F
  <2> QED
    BY <2>1, <2>2 DEF Together
<1>8. Begun = {d \in D : At(d) >= first * DayLength /\ At(d) < (last + 1) * DayLength}
  BY <1>1, <1>2, <1>3
<1> HIDE DEF fun, F, days, Begun
<1>9. SumFunction(fun) = Cardinality(Together(F, days))
  <2>1. \A x \in days : IsFiniteSet(F[x]) /\ fun[x] = Cardinality(F[x])
    BY <1>4
  <2>2. \A x, y \in days : x # y => F[x] \cap F[y] = {}
    BY <1>5
  <2> QED
    BY <1>6, <2>1, <2>2, SumOfParts
<1> QED
  BY <1>7, <1>8, <1>9 DEF fun, days, At, BegunIn

LEMMA ResultsAddUp ==
    ASSUME ReportsInv, NEW first \in Nat, NEW last \in Nat
    PROVE  DispatchResults(rows, DateRangeBounds(first, last)) =
             UNION {DispatchResults(rows, DateRangeBounds(day, day)) : day \in first..last}
<1> DEFINE Times(d) == {rows[d].created_at, rows[d].dispatched_at,
                        rows[d].completed_at} \ {Unset}
           At(i, j) == DispatchResults(rows, DateRangeBounds(i, j))
<1>1. \A d \in Dispatches : Times(d) \subseteq Nat
  BY DEF ReportsInv, TypeOK, Stamps
<1>2. ASSUME NEW i \in Nat, NEW j \in Nat
      PROVE  At(i, j) = {d \in Dispatches : \E t \in Times(d) :
                            i * DayLength <= t /\ t < (j + 1) * DayLength}
  <2>1. i * DayLength \in Nat
    BY DaysGrow
  <2>2. \A t \in Nat : t >= i * DayLength <=> i * DayLength <= t
    BY <2>1
  <2>3. At(i, j) = {d \in Dispatches : \E t \in Times(d) :
                        t >= i * DayLength /\ t < (j + 1) * DayLength}
    BY DEF DispatchResults, DateRangeBounds
  <2> HIDE DEF Times, At
  <2> QED
    BY <1>1, <2>2, <2>3
<1> HIDE DEF Times, At
<1>3. \A day \in first..last :
            At(day, day) = {d \in Dispatches : \E t \in Times(d) : OnDay(t, day)}
  BY <1>2 DEF OnDay
<1>4. \A d \in Dispatches : \A t \in Times(d) :
            first * DayLength <= t /\ t < (last + 1) * DayLength
                <=> \E day \in first..last : OnDay(t, day)
  BY <1>1, OnOneDay
<1>5. At(first, last) = {d \in Dispatches : \E t \in Times(d) :
                            first * DayLength <= t /\ t < (last + 1) * DayLength}
  BY <1>2
<1> DEFINE days == first..last
<1> HIDE DEF days
<1>6. At(first, last) = UNION {At(day, day) : day \in days}
  BY <1>3, <1>4, <1>5 DEF days
<1> QED
  BY <1>6 DEF At, days

LEMMA RangesEndToday ==
    ASSUME ReportsInv, NEW back \in Nat, NEW d \in Dispatches,
           now \in {rows[d].created_at, rows[d].dispatched_at, rows[d].completed_at}
    PROVE  d \in DispatchResults(rows, PresetRange(back))
<1> DEFINE first == Latest(Today - back, 0)
<1>1. now \in Nat /\ now # Unset
  <2>1. Days * DayLength \in Nat
    BY ReportsAssumption
  <2> QED
    BY <2>1, ReportsAssumption DEF ReportsInv, TypeOK
<1>2. Today \in Nat /\ OnDay(now, Today)
  BY <1>1, DayOf DEF Today
<1>3. first \in Nat /\ first <= Today
  BY <1>2 DEF Latest
<1> HIDE DEF first
<1>4. /\ first * DayLength <= Today * DayLength
      /\ first * DayLength \in Nat /\ Today * DayLength \in Nat
  BY <1>2, <1>3, DaysGrow
<1>5. now >= first * DayLength /\ now < (Today + 1) * DayLength
  BY <1>1, <1>2, <1>4 DEF OnDay
<1>6. PresetRange(back) = DateRangeBounds(first, Today)
  BY DEF PresetRange, first
<1> QED
  BY <1>1, <1>5, <1>6 DEF DispatchResults, DateRangeBounds

LEMMA DurationIsBusy ==
    ASSUME ReportsInv, NEW d \in Dispatches, DurationOf(rows, d) # Unset
    PROVE  DurationOf(rows, d) \in
                0..UtilizationRow(rows, rows[d].equipment, DateRangeBounds(0, Today))
<1> DEFINE w == DateRangeBounds(0, Today)
           D == DispatchesOverlapping(rows, w)
           e == rows[d].equipment
           B == BusyInstants(rows, D, e, w)
           start == rows[d].dispatched_at
           end == rows[d].completed_at
<1>1. now \in Nat
  <2>1. Days * DayLength \in Nat
    BY ReportsAssumption
  <2> QED
    BY <2>1 DEF ReportsInv, TypeOK
<1>2. Today \in Nat /\ now < (Today + 1) * DayLength /\ (Today + 1) * DayLength \in Nat
  BY <1>1, DayOf, DaysGrow DEF Today, OnDay
<1>3. start # Unset /\ end # Unset /\ DurationOf(rows, d) = end - start
  BY DEF DurationOf
<1>4. start \in Nat /\ end \in Nat /\ start <= end /\ end <= now
  BY <1>1, <1>3 DEF ReportsInv, TypeOK, RowsWellTimed, WellTimed, Stamps
<1>5. w \in Window /\ w.start = 0 /\ w.end = (Today + 1) * DayLength
  BY <1>2, DaysAreWindows, ReportsAssumption DEF DateRangeBounds
<1>6. D \in SUBSET Dispatches /\ \A x \in D : Timed(rows, x)
  BY OverlappingAreTimed
<1>7. IsFiniteSet(B) /\ UtilizationRow(rows, e, w) = Cardinality(B)
  BY <1>5, <1>6, BusyTimeCounts DEF UtilizationRow
<1> DEFINE run == start..(end - 1)
<1>8. run \in SUBSET B
  <2> SUFFICES ASSUME NEW t \in run PROVE t \in B
    OBVIOUS
  <2>1. t \in Nat /\ start <= t /\ t < end
    BY <1>4
  <2>2. t \in (w.start)..(w.end - 1)
    BY <1>2, <1>4, <1>5, <2>1, <1>1
  <2>3. d \in D
    BY <1>1, <1>2, <1>3, <1>4, <1>5, <2>1 DEF DispatchesOverlapping
  <2>4. t < DispatchBusyEnd(rows, d, w.end)
    BY <1>1, <1>2, <1>3, <1>4, <1>5, <2>1 DEF DispatchBusyEnd, Earliest
  <2> QED
    BY <2>1, <2>2, <2>3, <2>4 DEF BusyInstants
<1>9. Cardinality(run) = end - start
  <2>1. ASSUME NEW i \in Nat, NEW j \in Nat, i <= j PROVE Cardinality(i..(j - 1)) = j - i
    <3>1. \A a, b \in Int : Cardinality(a..b) = IF a > b THEN 0 ELSE (b - a) + 1
      BY FS_Interval
    <3>2. i \in Int /\ j - 1 \in Int /\ (i > j - 1 <=> i = j)
      BY <2>1
    <3>3. Cardinality(i..(j - 1)) = IF i > j - 1 THEN 0 ELSE ((j - 1) - i) + 1
      BY <3>1, <3>2
    <3> QED
      BY <3>2, <3>3
  <2> QED
    BY <1>4, <2>1
<1> HIDE DEF B, run, start, end
<1>10. Cardinality(run) <= Cardinality(B) /\ Cardinality(B) \in Nat
  BY <1>7, <1>8, FS_Subset, FS_CardinalityType
<1> QED
  BY <1>3, <1>4, <1>7, <1>9, <1>10

\* The reports tell one story: the days of a range add up to it, over all
\* machines; a run is counted on the day it began and listed on the days that
\* its times are on; a quick range ends with what was done last; and no run is
\* said to last longer than its machine was busy (equipment_utilization_trend,
\* equipment_utilization_rows, dispatch_result_rows).
THEOREM ReportsTellOneStory == Spec => []ReportsAddUp
<1>1. ReportsInv => ReportsAddUp
  <2> SUFFICES ASSUME ReportsInv PROVE ReportsAddUp
    OBVIOUS
  <2>1. ASSUME NEW first \in AllDays, NEW last \in AllDays, first <= last
        PROVE  LET w == DateRangeBounds(first, last)
                   D == DispatchesOverlapping(rows, w)
                   L == DispatchResults(rows, w)
               IN  /\ SumFunction([day \in first..last |-> TrendBusy(rows, D, day)])
                        = SumFunction([e \in Equipments |-> UtilizationRow(rows, e, w)])
                   /\ SumFunction([day \in first..last |-> TrendCount(rows, D, day)])
                        = Cardinality({d \in D \cap L : rows[d].dispatched_at >= w.start})
                   /\ L = UNION {DispatchResults(rows, DateRangeBounds(day, day)) :
                                    day \in first..last}
    <3> DEFINE w == DateRangeBounds(first, last)
               D == DispatchesOverlapping(rows, w)
               L == DispatchResults(rows, w)
    <3>1. first \in Nat /\ last \in Nat
      BY DEF AllDays
    <3>2. D \in SUBSET Dispatches /\ \A d \in D : Timed(rows, d)
      BY OverlappingAreTimed
    <3>3. w.start = first * DayLength /\ w.end = (last + 1) * DayLength
      BY DEF DateRangeBounds
    <3>4. \A d \in D : rows[d].dispatched_at >= w.start => d \in L
      BY <3>2 DEF DispatchesOverlapping, DispatchResults
    <3>5. \A d \in D : rows[d].dispatched_at < w.end
      BY DEF DispatchesOverlapping
    <3>6. [e \in Equipments |-> UtilizationRow(rows, e, w)]
            = [e \in Equipments |-> BusyTime(rows, D, e, w)]
      BY DEF UtilizationRow
    <3>7. L = UNION {DispatchResults(rows, DateRangeBounds(day, day)) : day \in first..last}
      BY <3>1, ResultsAddUp
    <3> HIDE DEF D, L
    <3>8. SumFunction([day \in first..last |-> TrendBusy(rows, D, day)])
            = SumFunction([e \in Equipments |-> BusyTime(rows, D, e, w)])
      BY <3>1, <3>2, DaysAddUp
    <3>9. BegunIn(rows, D, first, last) = {d \in D \cap L : rows[d].dispatched_at >= w.start}
      BY <3>3, <3>4, <3>5 DEF BegunIn
    <3>10. SumFunction([day \in first..last |-> TrendCount(rows, D, day)])
            = Cardinality(BegunIn(rows, D, first, last))
      BY <3>1, <3>2, CountsAddUp
    <3> QED
      BY <3>6, <3>7, <3>8, <3>9, <3>10 DEF D, L
  <2>2. ASSUME NEW d \in Dispatches, NEW back \in PresetDaysBack,
               now \in {rows[d].created_at, rows[d].dispatched_at, rows[d].completed_at}
        PROVE  d \in DispatchResults(rows, PresetRange(back))
    BY <2>2, RangesEndToday DEF PresetDaysBack
  <2>3. ASSUME NEW d \in Dispatches, DurationOf(rows, d) # Unset
        PROVE  DurationOf(rows, d) \in
                    0..UtilizationRow(rows, rows[d].equipment, DateRangeBounds(0, Today))
    BY <2>3, DurationIsBusy
  <2> QED
    BY <2>1, <2>2, <2>3 DEF ReportsAddUp
<1> QED
  BY <1>1, RowsAreWellTimed, PTL

-----------------------------------------------------------------------------
\* The chart.

LEMMA MinIs ==
    ASSUME NEW S \in SUBSET Nat, NEW m \in S, \A y \in S : m <= y
    PROVE  Min(S) = m
<1>1. Min(S) \in S /\ \A y \in S : Min(S) <= y
  BY Zenon DEF Min
<1> DEFINE x == Min(S)
<1>2. x \in S /\ x <= m
  BY <1>1
<1> HIDE DEF x
<1>3. x \in Nat /\ m \in Nat /\ m <= x /\ x <= m
  BY <1>2
<1> QED
  BY <1>3 DEF x

LEMMA HasMax ==
    ASSUME NEW S \in SUBSET Nat, S # {}, NEW bound \in Nat, \A y \in S : y <= bound
    PROVE  Max(S) \in S /\ \A y \in S : y <= Max(S)
<1> DEFINE Out == {n \in Nat : (\A y \in S : y <= n) => \E x \in S : \A y \in S : y <= x}
<1>1. 0 \in Out
  <2> SUFFICES ASSUME \A y \in S : y <= 0
               PROVE  \E x \in S : \A y \in S : y <= x
    OBVIOUS
  <2>1. PICK x \in S : TRUE
    OBVIOUS
  <2>2. x = 0 /\ \A y \in S : y <= x
    OBVIOUS
  <2> QED
    BY <2>2
<1>2. ASSUME NEW n \in Nat, n \in Out PROVE n + 1 \in Out
  <2> SUFFICES ASSUME \A y \in S : y <= n + 1
               PROVE  \E x \in S : \A y \in S : y <= x
    OBVIOUS
  <2>1. CASE n + 1 \in S
    BY <2>1
  <2>2. CASE n + 1 \notin S
    <3>1. \A y \in S : y <= n
      BY <2>2
    <3> QED
      BY <1>2, <3>1
  <2> QED
    BY <2>1, <2>2
<1> HIDE DEF Out
<1>3. bound \in Out
  BY <1>1, <1>2, SetInduction
<1>4. PICK x \in S : \A y \in S : y <= x
  BY <1>3 DEF Out
<1>5. \A y \in S : x >= y
  BY <1>4
<1>6. Max(S) \in S /\ \A y \in S : Max(S) >= y
  BY <1>5, Zenon DEF Max
<1> QED
  BY <1>6

\* A part of a scale.
LEMMA Share ==
    ASSUME NEW v \in Nat, NEW m \in Nat \ {0}, NEW k \in Nat, v <= k * m
    PROVE  v \div m \in 0..k
<1> DEFINE q == v \div m
<1>1. q \in Nat /\ q * m <= v
  BY SMTT(30)
<1> HIDE DEF q
<1>2. ASSUME q >= k + 1 PROVE FALSE
  <2> DEFINE x == q - (k + 1)
  <2>1. x \in Nat /\ q = (k + 1) + x
    BY <1>1, <1>2
  <2> HIDE DEF x
  <2>2. q * m = k * m + m + x * m
    BY <2>1
  <2>3. x * m \in Nat /\ k * m \in Nat
    BY <2>1
  <2> QED
    BY <1>1, <2>2, <2>3
<1>3. q \in 0..k
  BY <1>1, <1>2
<1> QED
  BY <1>3 DEF q

LEMMA WholeShare ==
    ASSUME NEW m \in Nat \ {0}, NEW k \in Nat
    PROVE  (k * m) \div m = k /\ 0 \div m = 0
BY SMTT(30)

Ticks(last, step) ==
    {i \in 0..last : i \in {0, last} \/ (i % step = 0 /\ last - i >= step)}

\* The label after a label.
LEMMA NextTick ==
    ASSUME NEW last \in Nat, NEW step \in {2, 3, 4}, step <= last,
           NEW i \in Ticks(last, step) \ {last}
    PROVE  /\ Min({j \in Ticks(last, step) : j > i}) - i >= step
           /\ Min({j \in Ticks(last, step) : j > i}) - i < 2 * step
<1> DEFINE After == {j \in Ticks(last, step) : j > i}
<1>1. i \in Nat /\ i < last /\ i % step = 0 /\ last - i >= step
  <2>1. 0 % step = 0
    OBVIOUS
  <2> QED
    BY <2>1 DEF Ticks
<1>2. After \in SUBSET Nat
  BY DEF Ticks
<1>3. ASSUME NEW j \in After, j # last
      PROVE  j \in Nat /\ j >= i + step /\ last - j >= step
  <2>1. j \in Nat /\ j > i /\ j % step = 0 /\ last - j >= step
    BY <1>1, <1>3 DEF Ticks
  <2>2. j >= i + step
    <3>1. CASE step = 2
      BY <1>1, <2>1, <3>1
    <3>2. CASE step = 3
      BY <1>1, <2>1, <3>2
    <3>3. CASE step = 4
      BY <1>1, <2>1, <3>3
    <3> QED
      BY <3>1, <3>2, <3>3
  <2> QED
    BY <2>1, <2>2
<1>4. CASE last - (i + step) >= step
  <2>1. (i + step) % step = 0
    <3>1. CASE step = 2
      BY <1>1, <3>1
    <3>2. CASE step = 3
      BY <1>1, <3>2
    <3>3. CASE step = 4
      BY <1>1, <3>3
    <3> QED
      BY <3>1, <3>2, <3>3
  <2>2. i + step \in After
    BY <1>1, <1>4, <2>1 DEF Ticks
  <2>3. \A j \in After : i + step <= j
    BY <1>1, <1>3
  <2> HIDE DEF After
  <2>4. Min(After) = i + step
    BY <1>2, <2>2, <2>3, MinIs
  <2> QED
    BY <1>1, <2>4 DEF After
<1>5. CASE last - (i + step) < step
  <2>1. last \in After
    BY <1>1 DEF Ticks
  <2>2. \A j \in After : last <= j
    BY <1>1, <1>3, <1>5
  <2> HIDE DEF After
  <2>3. Min(After) = last
    BY <1>2, <2>1, <2>2, MinIs
  <2> QED
    BY <1>1, <1>5, <2>3 DEF After
<1> QED
  BY <1>1, <1>4, <1>5

LEMMA LabelsAreSpaced == LabelsSpaced
<1> SUFFICES ASSUME NEW n \in 3..30
             PROVE  LET step == IF n > 14 THEN (n + 7) \div 8 ELSE 2 IN
                    /\ {0, n - 1} \subseteq TickIndexes(n)
                    /\ \A i \in TickIndexes(n) \ {n - 1} :
                        LET next == Min({j \in TickIndexes(n) : j > i}) IN
                        next - i >= step /\ next - i < 2 * step
  BY DEF LabelsSpaced, TrendDays
<1> DEFINE step == IF n > 14 THEN (n + 7) \div 8 ELSE 2
           last == n - 1
<1>1. step \in {2, 3, 4} /\ last \in Nat /\ step <= last
  OBVIOUS
<1>2. TickIndexes(n) = Ticks(last, step)
  BY DEF TickIndexes, Ticks
<1>3. {0, last} \subseteq Ticks(last, step)
  BY <1>1 DEF Ticks
<1> HIDE DEF step, last
<1>4. \A i \in Ticks(last, step) \ {last} :
        /\ Min({j \in Ticks(last, step) : j > i}) - i >= step
        /\ Min({j \in Ticks(last, step) : j > i}) - i < 2 * step
  BY <1>1, NextTick
<1> QED
  BY <1>2, <1>3, <1>4 DEF step, last

\* No day is busier than all its machines together.
LEMMA BusyIsBounded ==
    ASSUME NEW R, NEW D \in SUBSET Dispatches, \A d \in D : Timed(R, d),
           NEW day \in Nat
    PROVE  /\ Cardinality(Equipments) \in Nat
           /\ TrendBusy(R, D, day) \in 0..(DayLength * Cardinality(Equipments))
<1> DEFINE w == DateRangeBounds(day, day)
           M == MachineInstants(R, D, w)
           ticks == (w.start)..(w.end - 1)
<1>1. w \in Window /\ w.start \in Nat /\ w.end \in Nat /\ w.end = w.start + DayLength
  BY DaysAreWindows, DaysGrow DEF DateRangeBounds
<1>2. DayLength \in Nat /\ DayLength > 0 /\ IsFiniteSet(Equipments)
  BY ReportsAssumption
<1>3. TrendBusy(R, D, day) = Cardinality(M)
  BY <1>1, MachinesAddUp DEF TrendBusy
<1>4. M \in SUBSET (Equipments \X ticks)
  BY DEF MachineInstants, BusyInstants
<1> HIDE DEF w, M
<1>5. IsFiniteSet(ticks) /\ Cardinality(ticks) = DayLength
  <2>1. w.start \in Int /\ w.end - 1 \in Int /\ ~(w.start > w.end - 1)
    BY <1>1, <1>2
  <2>2. ((w.end - 1) - w.start) + 1 = DayLength
    BY <1>1, <1>2
  <2>3. \A a, b \in Int : /\ IsFiniteSet(a..b)
                          /\ Cardinality(a..b) = IF a > b THEN 0 ELSE (b - a) + 1
    BY FS_Interval
  <2> QED
    BY <2>1, <2>2, <2>3
<1> HIDE DEF ticks
<1>6. /\ IsFiniteSet(Equipments \X ticks)
      /\ Cardinality(Equipments \X ticks) = Cardinality(Equipments) * DayLength
  BY <1>2, <1>5, FS_Product
<1>7. Cardinality(M) \in Nat /\ Cardinality(M) <= Cardinality(Equipments) * DayLength
  BY <1>4, <1>6, FS_Subset, FS_CardinalityType
<1>8. Cardinality(Equipments) \in Nat
  BY <1>2, FS_CardinalityType
<1>9. Cardinality(Equipments) * DayLength = DayLength * Cardinality(Equipments)
  BY <1>2, <1>8
<1> QED
  BY <1>3, <1>7, <1>8, <1>9

LEMMA CountIsBounded ==
    ASSUME NEW R, NEW D \in SUBSET Dispatches, NEW day \in Nat
    PROVE  /\ Cardinality(D) \in Nat
           /\ TrendCount(R, D, day) \in 0..Cardinality(D)
<1> DEFINE C == {d \in D : /\ R[d].dispatched_at >= day * DayLength
                           /\ R[d].dispatched_at < (day + 1) * DayLength}
<1>1. TrendCount(R, D, day) = Cardinality(C)
  BY DEF TrendCount, DateRangeBounds
<1>2. C \in SUBSET D /\ IsFiniteSet(D)
  BY ReportsAssumption, FS_Subset
<1> HIDE DEF C
<1>3. Cardinality(C) \in Nat /\ Cardinality(D) \in Nat /\ Cardinality(C) <= Cardinality(D)
  BY <1>2, FS_Subset, FS_CardinalityType
<1> QED
  BY <1>1, <1>3

\* The share of a day, and where it is drawn.
LEMMA ShareIsDrawn ==
    ASSUME Cardinality(Equipments) \in Nat,
           NEW busy \in 0..(DayLength * Cardinality(Equipments))
    PROVE  LET y == YUtil(UtilizationPct(busy)) IN
           /\ UtilizationPct(busy) \in 0..100
           /\ ClampMetric(UtilizationPct(busy), 0, 100) = UtilizationPct(busy)
           /\ y \in Top..Baseline
           /\ Equipments # {} /\ busy = DayLength * Cardinality(Equipments) => y = Top
           /\ busy = 0 => y = Baseline
<1> DEFINE n == Cardinality(Equipments)
           m == DayLength * n
           u == UtilizationPct(busy)
<1>1. DayLength \in Nat /\ DayLength > 0 /\ IsFiniteSet(Equipments)
  BY ReportsAssumption
<1>2. Equipments # {} => n \in Nat \ {0}
  BY <1>1, FS_EmptySet
<1>3. Equipments # {} => m \in Nat \ {0}
  <2> HIDE DEF n
  <2> QED
    BY <1>1, <1>2
<1>4. u = IF Equipments = {} THEN 0 ELSE (100 * busy) \div m
  BY DEF UtilizationPct
<1> HIDE DEF u
<1>5. busy \in Nat /\ busy <= m
  <2>1. m \in Nat
    <3> HIDE DEF n
    <3>1. n \in Nat
      BY DEF n
    <3> QED
      BY <1>1, <3>1
  <2> QED
    BY <2>1
<1> HIDE DEF m
<1>6. /\ u \in 0..100
      /\ Equipments # {} /\ busy = m => u = 100
      /\ busy = 0 => u = 0
  <2>1. CASE Equipments = {}
    BY <1>4, <2>1
  <2>2. CASE Equipments # {}
    <3>1. m \in Nat \ {0} /\ u = (100 * busy) \div m
      BY <1>3, <1>4, <2>2
    <3> DEFINE v == 100 * busy
    <3>2. v \in Nat /\ v <= 100 * m /\ (busy = m => v = 100 * m) /\ (busy = 0 => v = 0)
      BY <1>5, <3>1
    <3> HIDE DEF v
    <3>3. u = v \div m
      BY <3>1 DEF v
    <3>4. u \in 0..100
      BY <3>1, <3>2, <3>3, Share
    <3>5. (100 * m) \div m = 100 /\ 0 \div m = 0
      BY <3>1, WholeShare
    <3> QED
      BY <3>2, <3>3, <3>4, <3>5
  <2> QED
    BY <2>1, <2>2
<1>7. ClampMetric(u, 0, 100) = u
  BY <1>6 DEF ClampMetric, Earliest, Latest
<1>8. /\ YUtil(u) \in Top..Baseline
      /\ u = 100 => YUtil(u) = Top
      /\ u = 0 => YUtil(u) = Baseline
  BY <1>6 DEF YUtil, Top, Baseline
<1> QED
  BY <1>6, <1>7, <1>8 DEF u, m

\* The chart shows what the report says: no day is drawn as busier than it was,
\* every point lies in the plot, a day on which no machine stood still at its
\* top, and so does the day with most of the runs that were begun; the labels
\* are neither crowded nor far apart (TrendChart, getTrendTickIndexes).
THEOREM ChartFitsItsScale == Spec => []TrendWithinScale
<1>1. ReportsInv => TrendWithinScale
  <2> SUFFICES ASSUME ReportsInv PROVE TrendWithinScale
    OBVIOUS
  <2> DEFINE w == DateRangeBounds(FirstDay, Today)
             D == DispatchesOverlapping(rows, w)
             days == FirstDay..Today
             points == Points
             counts == {1} \cup {points[day].dispatches : day \in DOMAIN points}
             max == MaxDispatches(points)
  <2>1. now \in Nat
    <3>1. Days * DayLength \in Nat
      BY ReportsAssumption
    <3> QED
      BY <3>1 DEF ReportsInv, TypeOK
  <2>2. Today \in Nat
    BY <2>1, DayOf DEF Today
  <2>3. FirstDay \in Nat
    BY <2>2 DEF FirstDay, Latest, TrendDays
  <2>4. D \in SUBSET Dispatches /\ \A d \in D : Timed(rows, d)
    BY OverlappingAreTimed
  <2>5. days \in SUBSET Nat
    BY <2>2, <2>3
  <2>6. /\ DOMAIN points = days
        /\ \A day \in days :
            /\ points[day].dispatches = Latest(TrendCount(rows, D, day), 0)
            /\ points[day].utilization
                    = ClampMetric(UtilizationPct(TrendBusy(rows, D, day)), 0, 100)
    BY DEF Points
  <2>7. max = Max(counts)
    BY DEF MaxDispatches
  <2>8. TrendWithinScale <=>
          /\ \A day \in days :
                LET busy == TrendBusy(rows, D, day) y == YUtil(points[day].utilization) IN
                /\ points[day].utilization = UtilizationPct(busy)
                /\ YDispatch(points[day].dispatches, max) \in Top..Baseline
                /\ y \in Top..Baseline
                /\ Equipments # {} /\ busy = DayLength * Cardinality(Equipments) => y = Top
                /\ busy = 0 => y = Baseline
          /\ (\E d \in D : rows[d].dispatched_at >= FirstDay * DayLength) =>
                \E day \in days : YDispatch(points[day].dispatches, max) = Top
          /\ LabelsSpaced
    BY DEF TrendWithinScale
  <2>9. \A d \in D : rows[d].dispatched_at < (Today + 1) * DayLength
    BY DEF DispatchesOverlapping, DateRangeBounds
  <2> HIDE DEF D, days, points, max
  <2>10. \A day \in days :
            /\ Cardinality(D) \in Nat
            /\ TrendCount(rows, D, day) \in 0..Cardinality(D)
            /\ points[day].dispatches = TrendCount(rows, D, day)
    <3> SUFFICES ASSUME NEW day \in days
                 PROVE  /\ Cardinality(D) \in Nat
                        /\ TrendCount(rows, D, day) \in 0..Cardinality(D)
                        /\ points[day].dispatches = TrendCount(rows, D, day)
      OBVIOUS
    <3>1. Cardinality(D) \in Nat /\ TrendCount(rows, D, day) \in 0..Cardinality(D)
      BY <2>4, <2>5, CountIsBounded
    <3> QED
      BY <2>6, <3>1 DEF Latest
  <2>11. /\ max \in counts /\ max \in Nat \ {0}
         /\ \A day \in days : points[day].dispatches <= max
    <3>1. IsFiniteSet(D)
      BY <2>4, ReportsAssumption, FS_Subset
    <3>2. Cardinality(D) \in Nat
      BY <3>1, FS_CardinalityType
    <3> DEFINE bound == Cardinality(D) + 1
    <3>3. bound \in Nat /\ \A c \in counts : c \in Nat /\ c <= bound
      BY <2>6, <2>10, <3>2
    <3>4. 1 \in counts /\ \A day \in days : points[day].dispatches \in counts
      BY <2>6
    <3> HIDE DEF counts, bound
    <3>5. counts \in SUBSET Nat /\ counts # {}
      BY <3>3, <3>4
    <3>6. Max(counts) \in counts /\ \A c \in counts : c <= Max(counts)
      BY <3>3, <3>5, HasMax
    <3>7. max \in counts /\ max \in Nat /\ 1 <= max /\ \A c \in counts : c <= max
      BY <2>7, <3>3, <3>4, <3>6
    <3>8. max \in Nat \ {0}
      BY <3>7
    <3>9. \A day \in days : points[day].dispatches <= max
      BY <3>4, <3>7, Zenon
    <3> QED
      BY <3>7, <3>8, <3>9
  <2>12. ASSUME NEW day \in days
         PROVE  LET busy == TrendBusy(rows, D, day) y == YUtil(points[day].utilization) IN
                /\ points[day].utilization = UtilizationPct(busy)
                /\ YDispatch(points[day].dispatches, max) \in Top..Baseline
                /\ y \in Top..Baseline
                /\ Equipments # {} /\ busy = DayLength * Cardinality(Equipments) => y = Top
                /\ busy = 0 => y = Baseline
    <3>1. /\ Cardinality(Equipments) \in Nat
          /\ TrendBusy(rows, D, day) \in 0..(DayLength * Cardinality(Equipments))
      BY <2>4, <2>5, BusyIsBounded
    <3> DEFINE v == points[day].dispatches
               z == v * 160
    <3>2. z \in Nat /\ z <= 160 * max
      <4>1. v \in Nat /\ v <= max
        BY <2>10, <2>11
      <4> HIDE DEF v
      <4> QED
        BY <2>11, <4>1
    <3> HIDE DEF z
    <3>3. z \div max \in 0..160
      BY <2>11, <3>2, Share
    <3>4. YDispatch(v, max) = 184 - (z \div max)
      BY DEF YDispatch, Top, Baseline, z
    <3>5. YDispatch(v, max) \in Top..Baseline
      BY <3>3, <3>4 DEF Top, Baseline
    <3>6. points[day].utilization
            = ClampMetric(UtilizationPct(TrendBusy(rows, D, day)), 0, 100)
      BY <2>6
    <3> QED
      BY <3>1, <3>5, <3>6, ShareIsDrawn
  <2>13. ASSUME NEW d \in D, rows[d].dispatched_at >= FirstDay * DayLength
         PROVE  \E day \in days : YDispatch(points[day].dispatches, max) = Top
    <3> DEFINE t == rows[d].dispatched_at
    <3>1. t \in Nat
      BY <2>4 DEF Timed
    <3>2. FirstDay * DayLength <= t /\ t < (Today + 1) * DayLength
      BY <2>3, <2>9, <2>13, <3>1, DaysGrow
    <3>3. PICK day \in days : OnDay(t, day)
      BY <2>2, <2>3, <3>1, <3>2, OnOneDay DEF days
    <3>4. TrendCount(rows, D, day) # 0
      <4> DEFINE C == {x \in D : /\ rows[x].dispatched_at >= day * DayLength
                                 /\ rows[x].dispatched_at < (day + 1) * DayLength}
      <4>1. TrendCount(rows, D, day) = Cardinality(C)
        BY DEF TrendCount, DateRangeBounds
      <4>2. d \in C
        BY <2>5, <3>1, <3>3, DaysGrow DEF OnDay
      <4>3. IsFiniteSet(C)
        BY <2>4, ReportsAssumption, FS_Subset
      <4> HIDE DEF C
      <4> QED
        BY <4>1, <4>2, <4>3, FS_EmptySet
    <3>5. \E x \in days : points[x].dispatches = max
      <4>1. points[day].dispatches \in Nat /\ points[day].dispatches >= 1
        BY <2>10, <3>4
      <4> QED
        BY <2>6, <2>11, <4>1
    <3>6. PICK x \in days : points[x].dispatches = max
      BY <3>5
    <3>7. (160 * max) \div max = 160 /\ max * 160 = 160 * max
      BY <2>11, WholeShare
    <3> QED
      BY <3>6, <3>7 DEF YDispatch, Top, Baseline
  <2> QED
    BY <2>8, <2>12, <2>13, LabelsAreSpaced
<1> QED
  BY <1>1, RowsAreWellTimed, PTL
=============================================================================
