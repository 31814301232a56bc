------------------------- MODULE TransactionsProofs -------------------------
(***************************************************************************)
(* What holds of the handlers at the grain of their statements, for any    *)
(* number of calls made side by side on any tables that handlers leave:    *)
(* no two transactions write one row, a run ends once, a WIP has one run   *)
(* on its way.  What is left of each call's program is described by the    *)
(* statements its handler has, by the locks that stand before each of      *)
(* them, and by the tests they follow from.                                *)
(***************************************************************************)
EXTENDS Transactions, TLAPS, FiniteSetTheorems, WellFoundedInduction

-----------------------------------------------------------------------------
\* Induction on the natural numbers, over a set instead of a predicate.

LEMMA LeastElement ==
  ASSUME NEW T \in SUBSET Nat, T # {}
  PROVE  \E m \in T : \A k \in T : m <= k
<1> DEFINE R == OpToRel(<, Nat)
<1>1. IsWellFoundedOn(R, Nat)
  BY NatLessThanWellFounded, Zenon
<1>2. \A x, y \in Nat : y < x => <<y, x>> \in R
  BY Zenon DEF OpToRel
<1> HIDE DEF R
<1>3. PICK m \in T : \A y \in T : ~(<<y, m>> \in R)
  BY <1>1, WFMin
<1>4. \A k \in T : ~(k < m)
  BY <1>2, <1>3, Zenon
<1> QED
  BY <1>4

LEMMA NatInd ==
  ASSUME NEW G \in SUBSET Nat, 0 \in G, \A n \in G : n + 1 \in G
  PROVE  G = Nat
<1> SUFFICES ASSUME Nat \ G # {} PROVE FALSE
  OBVIOUS
<1>1. PICK m \in Nat \ G : \A k \in Nat \ G : m <= k
  BY LeastElement
<1>2. m # 0 /\ m - 1 \in Nat
  BY <1>1
<1>3. m - 1 \in G
  BY <1>1, <1>2
<1> QED
  BY <1>1, <1>2, <1>3

-----------------------------------------------------------------------------
\* FlattenSeq keeps the order of each of its sequences: what stands before an
\* element there stands before it in the result.

Flattens(f, seqs) ==
  f = [i \in 1..Len(seqs) |-> IF i = 1 THEN seqs[i] ELSE f[i - 1] \o seqs[i]]

LEMMA FlattenExists ==
  ASSUME NEW S, NEW seqs \in Seq(Seq(S))
  PROVE  \E f : Flattens(f, seqs)
<1> DEFINE Upto(m, f) ==
      \A i \in 1..m : f[i] = IF i = 1 THEN seqs[i] ELSE f[i - 1] \o seqs[i]
    P(m) == m <= Len(seqs) => \E f \in [1..m -> Seq(S)] : Upto(m, f)
    G == {m \in Nat : P(m)}
<1>1. P(0)
  <2>1. [i \in 1..0 |-> <<>>] \in [1..0 -> Seq(S)]
    OBVIOUS
  <2>2. Upto(0, [i \in 1..0 |-> <<>>])
    OBVIOUS
  <2> QED BY <2>1, <2>2
<1>2. ASSUME NEW n \in Nat, P(n), n + 1 <= Len(seqs)
      PROVE  \E g \in [1..(n + 1) -> Seq(S)] : Upto(n + 1, g)
  <2>1. PICK f \in [1..n -> Seq(S)] : Upto(n, f)
    BY <1>2
  <2> DEFINE new == IF n = 0 THEN seqs[1] ELSE f[n] \o seqs[n + 1]
      g == [i \in 1..(n + 1) |-> IF i = n + 1 THEN new ELSE f[i]]
  <2>2. new \in Seq(S)
    <3>1. CASE n = 0 BY <3>1, <1>2
    <3>2. CASE n # 0
      <4>1. f[n] \in Seq(S) /\ seqs[n + 1] \in Seq(S)
        BY <3>2, <1>2
      <4> QED BY <4>1, <3>2
    <3> QED BY <3>1, <3>2
  <2>3. g \in [1..(n + 1) -> Seq(S)]
    BY <2>2
  <2>4. ASSUME NEW i \in 1..(n + 1)
        PROVE  g[i] = IF i = 1 THEN seqs[i] ELSE g[i - 1] \o seqs[i]
    <3>1. CASE i = n + 1
      <4>1. CASE n = 0 BY <3>1, <4>1
      <4>2. CASE n # 0
        <5>1. g[n] = f[n] /\ i - 1 = n /\ i # 1
          BY <3>1, <4>2
        <5> QED BY <5>1, <3>1, <4>2
      <4> QED BY <4>1, <4>2
    <3>2. CASE i # n + 1
      <4>1. i \in 1..n /\ g[i] = f[i]
        BY <3>2
      <4>2. CASE i = 1 BY <4>1, <4>2, <2>1
      <4>3. CASE i # 1
        <5>1. g[i - 1] = f[i - 1]
          BY <4>1, <4>3
        <5> QED BY <5>1, <4>1, <4>3, <2>1
      <4> QED BY <4>2, <4>3
    <3> QED BY <3>1, <3>2
  <2> HIDE DEF g
  <2>5. Upto(n + 1, g)
    BY <2>4
  <2> HIDE DEF Upto
  <2> QED BY <2>3, <2>5
<1>3. \A n \in Nat : P(n) => P(n + 1)
  <2> HIDE DEF Upto
  <2> QED BY <1>2
<1>4. P(Len(seqs))
  <2> HIDE DEF P
  <2>0. /\ G \in SUBSET Nat /\ 0 \in G /\ \A n \in G : n + 1 \in G
    BY <1>1, <1>3
  <2>1. G = Nat
    <3> HIDE DEF G
    <3> QED BY <2>0, NatInd
  <2>2. Len(seqs) \in G BY <2>1
  <2> QED BY <2>2
<1>5. PICK f \in [1..Len(seqs) -> Seq(S)] : Upto(Len(seqs), f)
  BY <1>4
<1>6. f = [i \in 1..Len(seqs) |-> IF i = 1 THEN seqs[i] ELSE f[i - 1] \o seqs[i]]
  BY <1>5
<1> QED
  BY <1>6, Zenon DEF Flattens

LEMMA FlattenIs ==
  ASSUME NEW S, NEW seqs \in Seq(Seq(S)), seqs # <<>>
  PROVE  \E f : Flattens(f, seqs) /\ FlattenSeq(seqs) = f[Len(seqs)]
<1> DEFINE c == CHOOSE f : f = [i \in 1..Len(seqs) |-> IF i = 1 THEN seqs[i] ELSE f[i-1] \o seqs[i]]
<1>1. Flattens(c, seqs)
  BY FlattenExists, Zenon DEF Flattens
<1>2. FlattenSeq(seqs) = c[Len(seqs)]
  BY DEF FlattenSeq
<1> QED BY <1>1, <1>2, Zenon

\* what stands in one of the sequences
InOrder(flat, seqs, n) ==
  \A k \in 1..Len(flat) : \E i \in 1..n : \E j \in 1..Len(seqs[i]) :
     /\ flat[k] = seqs[i][j]
     /\ \A h \in 1..(j - 1) : \E l \in 1..(k - 1) : flat[l] = seqs[i][h]

LEMMA ConcatInOrder ==
  ASSUME NEW S, NEW seqs \in Seq(Seq(S)), NEW n \in 1..Len(seqs), 
         NEW a \in Seq(S), InOrder(a, seqs, n - 1)
  PROVE  InOrder(a \o seqs[n], seqs, n)
<1> DEFINE b == seqs[n]
           c == a \o b
<1>1. b \in Seq(S) /\ c \in Seq(S) /\ Len(c) = Len(a) + Len(b)
  OBVIOUS
<1>2. \A k \in 1..Len(a) : c[k] = a[k]
  BY <1>1
<1>3. \A k \in 1..Len(b) : c[Len(a) + k] = b[k]
  BY <1>1
<1> SUFFICES ASSUME NEW k \in 1..Len(c)
             PROVE  \E i \in 1..n : \E j \in 1..Len(seqs[i]) :
     /\ c[k] = seqs[i][j]
     /\ \A h \in 1..(j - 1) : \E l \in 1..(k - 1) : c[l] = seqs[i][h]
  BY DEF InOrder
<1> HIDE DEF c
<1>4. CASE k <= Len(a)
  <2>0. PICK i \in 1..(n - 1) : \E j \in 1..Len(seqs[i]) :
       /\ a[k] = seqs[i][j]
       /\ \A h \in 1..(j - 1) : \E l \in 1..(k - 1) : a[l] = seqs[i][h]
    <3>1. k \in 1..Len(a) BY <1>4
    <3> QED BY <3>1, Zenon DEF InOrder
  <2>1. PICK j \in 1..Len(seqs[i]) :
       /\ a[k] = seqs[i][j]
       /\ \A h \in 1..(j - 1) : \E l \in 1..(k - 1) : a[l] = seqs[i][h]
    BY <2>0
  <2>2. \A h \in 1..(j - 1) : \E l \in 1..(k - 1) : c[l] = seqs[i][h]
    BY <1>2, <1>4, <2>1, SMTT(30)
  <2>3. c[k] = a[k] /\ i \in 1..n
    BY <1>2, <1>4
  <2> QED BY <2>1, <2>2, <2>3
<1>5. CASE k > Len(a)
  <2>1. k - Len(a) \in 1..Len(b) /\ c[k] = b[k - Len(a)]
    <3>1. k - Len(a) \in 1..Len(b)
      BY <1>1, <1>5
    <3>2. Len(a) + (k - Len(a)) = k
      BY <1>1
    <3> QED BY <3>1, <3>2, <1>3
  <2>2. ASSUME NEW h \in 1..(k - Len(a) - 1)
        PROVE  Len(a) + h \in 1..(k - 1) /\ c[Len(a) + h] = b[h]
    <3>1. h \in 1..Len(b) BY <2>1, <1>1
    <3> QED BY <3>1, <1>3, <1>1
  <2>3. ASSUME NEW h \in 1..(k - Len(a) - 1)
        PROVE  \E l \in 1..(k - 1) : c[l] = seqs[n][h]
    BY <2>2
  <2>4. n \in 1..n OBVIOUS
  <2> QED BY <2>1, <2>3, <2>4
<1> QED BY <1>1, <1>4, <1>5

LEMMA FlattenInOrder ==
  ASSUME NEW S, NEW seqs \in Seq(Seq(S))
  PROVE  /\ FlattenSeq(seqs) \in Seq(S)
         /\ InOrder(FlattenSeq(seqs), seqs, Len(seqs))
<1>1. CASE seqs = <<>>
  <2>1. FlattenSeq(seqs) = <<>>
    BY <1>1 DEF FlattenSeq
  <2> QED BY <2>1, <1>1 DEF InOrder
<1>2. CASE seqs # <<>>
  <2>1. PICK f : Flattens(f, seqs) /\ FlattenSeq(seqs) = f[Len(seqs)]
    BY <1>2, FlattenIs
  <2> DEFINE P(m) == m \in 1..Len(seqs) =>
                        f[m] \in Seq(S) /\ InOrder(f[m], seqs, m)
             G == {m \in Nat : P(m)}
  <2>2. P(0) OBVIOUS
  <2>3. ASSUME NEW m \in Nat, P(m), m + 1 \in 1..Len(seqs)
        PROVE  f[m + 1] \in Seq(S) /\ InOrder(f[m + 1], seqs, m + 1)
    <3>1. f[m + 1] = IF m + 1 = 1 THEN seqs[m + 1] ELSE f[m + 1 - 1] \o seqs[m + 1]
      <4>1. f = [i \in 1..Len(seqs) |-> IF i = 1 THEN seqs[i] ELSE f[i - 1] \o seqs[i]]
        BY <2>1 DEF Flattens
      <4> DEFINE X(i) == IF i = 1 THEN seqs[i] ELSE f[i - 1] \o seqs[i]
      <4>2. f = [i \in 1..Len(seqs) |-> X(i)]
        BY <4>1
      <4> HIDE DEF X
      <4>3. f[m + 1] = X(m + 1)
        BY <4>2, <2>3
      <4> QED BY <4>3 DEF X
    <3>2. seqs[m + 1] \in Seq(S) BY <2>3
    <3>3. CASE m = 0
      <4>1. f[m + 1] = seqs[1] BY <3>1, <3>3
      <4>2. InOrder(seqs[1], seqs, 1)
        BY <2>3, <3>3 DEF InOrder
      <4> QED BY <4>1, <4>2, <3>2, <3>3
    <3>4. CASE m # 0
      <4>1. f[m] \in Seq(S) /\ InOrder(f[m], seqs, m)
        BY <2>3, <3>4
      <4>2. f[m + 1] = f[m] \o seqs[m + 1]
        <5>1. m + 1 # 1 /\ m + 1 - 1 = m BY <3>4
        <5> QED BY <3>1, <5>1
      <4>3. m = (m + 1) - 1 OBVIOUS
      <4>4. InOrder(f[m] \o seqs[m + 1], seqs, m + 1)
        BY ONLY <4>1, <4>3, <2>3, ConcatInOrder, seqs \in Seq(Seq(S))
      <4> QED BY <4>1, <4>2, <4>4, <3>2
    <3> QED BY <3>3, <3>4
  <2>4. \A m \in Nat : P(m) => P(m + 1)
    BY <2>3
  <2>5. P(Len(seqs))
    <3> HIDE DEF P
    <3>0. /\ G \in SUBSET Nat /\ 0 \in G /\ \A n \in G : n + 1 \in G
      BY <2>2, <2>4
    <3>1. G = Nat
      <4> HIDE DEF G
      <4> QED BY <3>0, NatInd
    <3>2. Len(seqs) \in G BY <3>1
    <3> QED BY <3>2
  <2> QED BY <2>1, <2>5, <1>2
<1> QED BY <1>1, <1>2
-----------------------------------------------------------------------------
\* A call's transaction, seen from its program: L is what is left of it, M what
\* it has written, H the locks it holds, v the committed tables.

Modes == {"share", "write", "update"}
Locks == [do : {"lock"}, row : Rows \cup {Type(t) : t \in Types}, mode : Modes]

Unloading == {"unload", "equipment_result", "finalize"}
Recording == {"record_result", "equipment_result", "finalize"}
Cascading == Unloading \cup Recording \cup {"complete_wip", "abort_dispatch"}

\* The statements that the handler of call c can have left.
Moves(c) ==
    CASE c.op \in {"submit", "approve", "cancel", "ship"} ->
            {Move(Request(c.on), c.op)}
      [] c.op \in {"receive", "void", "return"} -> {Move(Sample(c.on), c.op)}
      [] c.op = "complete_wip"  -> {Move(Wip(c.on), "complete")}
      [] c.op = "abort_wip"     -> {Move(Wip(c.on), "abort")}
      [] c.op = "unload"        -> {Move(Dispatch(c.on), "unload")}
      [] c.op = "record_result" -> {Move(Dispatch(c.on), "record_result")}
      [] c.op \in {"equipment_result", "finalize"} ->
            {Move(Dispatch(c.on), a) : a \in {"unload", "record_result"}}
      [] c.op \in {"report_exception", "redispatch"} ->
            {Move(Dispatch(c.on), c.op)}
      [] c.op = "abort_dispatch" -> {Move(Dispatch(c.on), "abort")}
      [] OTHER -> {}

Sets(c) ==
    CASE c.op = "delete_draft" ->
            {Set(Request(c.on), "none")}
                \cup {Set(Sample(s), "none") : s \in SamplesOf(c.on)}
      [] c.op \in {"create_wip", "add_samples"} ->
            {Set(Member(c.on, s), "in") : s \in c.samples}
                \cup {Set(Sample(s), "processing") : s \in c.samples}
                \cup (IF c.op = "create_wip" THEN {Set(Wip(c.on), "created")}
                                             ELSE {})
      [] c.op = "start" -> {Set(Dispatch(c.on), "running")}
      [] OTHER -> {}

SetIfs(c) ==
    CASE c.op = "ship" ->
            {SetIf(Sample(s), "created", "shipped") : s \in SamplesOf(c.on)}
      [] c.op \in {"receive", "void", "return"} ->
            {SetIf(Progress(s, t), "none", "pending") :
                s \in SamplesOf(Owner[c.on]), t \in Types}
      [] c.op = "abort_wip" ->
            {SetIf(Sample(s), "processing", "processing_exception") :
                s \in Samples}
      [] c.op = "redispatch" -> {SetIf(Dispatch(c.new), "none", "pending")}
      [] OTHER -> {}

Cascades == {Check("trycomplete", s) : s \in Samples}
                \cup {Check("completed", r) : r \in Requests}

Checks(c) ==
    CASE c.op = "ship" -> {Check("shipsamples", c.on)}
      [] c.op = "delete_draft" ->
            {Check("draft", c.on), Check("deletesamples", c.on)}
      [] c.op = "receive" -> {Check("received", Owner[c.on])}
      [] c.op \in {"void", "return"} ->
            {Check("received", Owner[c.on]), Check("completed", Owner[c.on])}
      [] c.op = "create_wip" ->
            {[do |-> "validate", on |-> c.on, samples |-> c.samples]}
      [] c.op = "add_samples" ->
            {Check("open", c.on),
             [do |-> "validate", on |-> c.on, samples |-> c.samples]}
      [] c.op = "create_dispatch" ->
            {Check("alldone", WipOf[c.on]),
             [do |-> "dispatch", on |-> WipOf[c.on], new |-> c.on]}
      [] c.op = "complete_wip" ->
            {Check("alldone", c.on), Check("cascade", c.on)} \cup Cascades
      [] c.op = "abort_wip" -> {Check("except", c.on)}
      [] c.op = "start" -> {Check("startable", c.on)}
      [] c.op = "unload" -> {Check("roll", c.on)} \cup Cascades
      [] c.op \in {"record_result", "abort_dispatch"} ->
            {Check("autocomplete", WipOf[c.on]), Check("cascade", WipOf[c.on])}
                \cup Cascades
      [] c.op \in {"equipment_result", "finalize"} ->
            {Check("running", c.on), Check("roll", c.on),
             Check("autocomplete", WipOf[c.on]), Check("cascade", WipOf[c.on])}
                \cup Cascades
      [] OTHER -> {}

StatementsOf(c) ==
    Locks \cup {Commit} \cup Moves(c) \cup Sets(c) \cup SetIfs(c) \cup Checks(c)

\* The values that call c can write to a row.
WritesOf(c, row) ==
    CASE row[1] = "request" ->
            CASE c.op = "submit"  -> {"pending_approval"}
              [] c.op = "approve" -> {"approved"}
              [] c.op = "cancel"  -> {"cancelled"}
              [] c.op = "ship"    -> {"sample_shipped"}
              [] c.op = "delete_draft" -> {"none"}
              [] c.op = "receive" -> {"in_progress"}
              [] c.op \in {"void", "return"} -> {"in_progress", "completed"}
              [] c.op \in Cascading -> {"completed"}
              [] OTHER -> {}
      [] row[1] = "sample" ->
            CASE c.op = "ship"    -> {"shipped"}
              [] c.op = "delete_draft" -> {"none"}
              [] c.op = "receive" -> {"received"}
              [] c.op = "void"    -> {"voided"}
              [] c.op = "return"  -> {"returned"}
              [] c.op \in {"create_wip", "add_samples"} -> {"processing"}
              [] c.op = "abort_wip" -> {"processing_exception"}
              [] c.op \in Cascading -> {"completed"}
              [] OTHER -> {}
      [] row[1] = "wip" ->
            CASE c.op = "create_wip" -> {"created"}
              [] c.op = "create_dispatch" -> {"in_progress"}
              [] c.op = "abort_wip" -> {"aborted"}
              [] c.op \in Cascading -> {"completed"}
              [] OTHER -> {}
      [] row[1] = "dispatch" ->
            (IF c.op \in RunOps \cup {"redispatch"} /\ row = Dispatch(c.on)
             THEN CASE c.op = "create_dispatch" -> {"pending"}
                    [] c.op = "start" -> {"running"}
                    [] c.op = "unload" -> {"unloaded"}
                    [] c.op = "record_result" -> {"completed"}
                    [] c.op \in {"equipment_result", "finalize"} ->
                            {"unloaded", "completed"}
                    [] c.op = "report_exception" -> {"execution_exception"}
                    [] c.op = "redispatch" -> {"pending_redispatch"}
                    [] c.op = "abort_dispatch" -> {"aborted"}
             ELSE {})
            \cup (IF c.op = "redispatch" /\ row = Dispatch(c.new)
                  THEN {"pending"} ELSE {})
      [] row[1] = "member" ->
            IF c.op \in {"create_wip", "add_samples"} THEN {"in"} ELSE {}
      [] row[1] = "progress" ->
            CASE c.op \in {"receive", "void", "return"} -> {"pending"}
              [] c.op = "create_dispatch" -> {"in_progress"}
              [] c.op \in Unloading -> {c.on}
              [] OTHER -> {}

\* A lock that keeps every other writer out, held or ahead of statement i.
HasLock(H, row) == \E mode \in {"write", "update"} : <<row, mode>> \in H

Locked(L, H, i, row) ==
    \/ HasLock(H, row)
    \/ \E j \in 1..(i - 1) : L[j] \in {Lock(row), Update(row)}

\* The rows a statement needs so locked.
NeedsLock(c, st) ==
    CASE st.do = "move" -> {st.row}
      [] st.do = "set" ->
            IF st.row[1] \in {"request", "sample", "dispatch"} THEN {st.row}
            ELSE IF st.row[1] = "member" /\ c.op = "add_samples"
                 THEN {Wip(c.on)} ELSE {}
      [] st.do = "setif" ->
            IF st.row[1] = "sample" THEN {st.row}
            ELSE IF st.row[1] = "dispatch" THEN {Wip(WipOf[c.new])} ELSE {}
      [] st.do \in {"received", "completed"} -> {Request(st.on)}
      [] st.do \in {"autocomplete", "dispatch"} -> {Wip(st.on)}
      [] st.do = "trycomplete" -> {Sample(st.on)}
      [] st.do = "roll" -> {Wip(WipOf[st.on])}
      [] st.do = "validate" ->
            IF c.op = "add_samples" THEN {Wip(st.on)} ELSE {}
      [] OTHER -> {}

ListLocked(c, L, H) ==
    \A i \in 1..Len(L) : \A row \in NeedsLock(c, L[i]) : Locked(L, H, i, row)

\* Before statement i, a test establishes a fact that the lock on a row keeps
\* true; either the test is still to come or the fact holds.
Ahead(L, H, i, test, row) ==
    \E j \in 1..(i - 1) : L[j] = test /\ Locked(L, H, j, row)

Tested(L, H, i, test, row, fact) ==
    \/ fact /\ HasLock(H, row)
    \/ Ahead(L, H, i, test, row)

\* All other runs of d's WIP have ended.
Alone(v, d) ==
    \A e \in Dispatches : e # d /\ WipOf[e] = WipOf[d] =>
        v[Dispatch(e)] \in TerminalDispatchStatuses \cup {"none"}

StartTested(c, v, L, H) ==
    c.op = "start" => \A i \in 1..Len(L) :
        L[i] = Set(Dispatch(c.on), "running") =>
            Tested(L, H, i, Check("startable", c.on), Dispatch(c.on),
                   v[Dispatch(c.on)] \in {"pending", "dispatched"})

InsertTested(c, v, L, M, H) ==
    c.op = "create_dispatch" => \A i \in 1..Len(L) :
        L[i].do = "dispatch" =>
            Tested(L, H, i, Check("alldone", WipOf[c.on]), Wip(WipOf[c.on]),
                   Alone(Over(M, v), c.on))

ReplaceTested(c, v, L, M, H) ==
    c.op = "redispatch" => \A i \in 1..Len(L) :
        L[i].do = "setif" =>
            Tested(L, H, i, Move(Dispatch(c.on), "redispatch"),
                   Wip(WipOf[c.new]), Alone(Over(M, v), c.new))

JoinTested(c, v, L, H) ==
    c.op = "add_samples" => \A i \in 1..Len(L) :
        L[i].do = "validate" =>
            Tested(L, H, i, Check("open", c.on), Wip(c.on),
                   v[Wip(c.on)] # "none")

NewWip(c, v, L) ==
    c.op = "create_wip" /\ L # <<>> => v[Wip(c.on)] = "none"

\* What a call has written, it has locked; a row that it has inserted is nobody
\* else's to insert.
WrittenLocked(c, v, M, H) ==
    \A row \in DOMAIN M :
        CASE row[1] \in {"request", "sample"} -> HasLock(H, row)
          [] row[1] = "wip" -> \/ HasLock(H, row) /\ v[row] # "none"
                               \/ Creates(c, row[2])
          [] row[1] = "member" -> HasLock(H, Wip(row[2])) \/ Creates(c, row[2])
          [] row[1] = "dispatch" ->
                /\ <<v[row], M[row]>> \in RunMoves
                /\ HasLock(H, IF v[row] = "none" THEN Wip(WipOf[row[2]])
                                                 ELSE row)
          [] OTHER -> TRUE

InsertedAlone(v, M) ==
    \A d \in Dispatches : Dispatch(d) \in DOMAIN M /\ v[Dispatch(d)] = "none"
        => Alone(Over(M, v), d)

CallTypeOK(c, L, M, H) ==
    /\ c \in Calls
    /\ L \in Seq(StatementsOf(c))
    /\ DOMAIN M \subseteq Rows
    /\ \A row \in DOMAIN M : M[row] \in WritesOf(c, row)
    /\ H \subseteq (Rows \cup {Type(t) : t \in Types}) \X Modes

EndsInCommit(L) == L # <<>> => L[Len(L)] = Commit

CallInv(c, v, L, M, H) ==
    /\ CallTypeOK(c, L, M, H)
    /\ EndsInCommit(L)
    /\ ListLocked(c, L, H)
    /\ StartTested(c, v, L, H)
    /\ InsertTested(c, v, L, M, H)
    /\ ReplaceTested(c, v, L, M, H)
    /\ JoinTested(c, v, L, H)
    /\ NewWip(c, v, L)
    /\ WrittenLocked(c, v, M, H)
    /\ InsertedAlone(v, M)

LocksExclude ==
    \A c, o \in calls : c # o =>
        \A h \in held[c], k \in held[o] : h[1] = k[1] => Compatible(h[2], k[2])

FreshKeys == \A c, o \in calls, w \in Wips :
                Creates(c, w) /\ Creates(o, w) => c = o

TxInv ==
    /\ TypeOK
    /\ FreshKeys
    /\ LocksExclude
    /\ OneActive(db)
    /\ \A c \in calls : CallInv(c, db, left[c], mine[c], held[c])


-----------------------------------------------------------------------------
\* Rows and views of them.

LEMMA RowFacts ==
  /\ \A r \in Requests : /\ Request(r) \in Rows
                         /\ Request(r)[1] = "request" /\ Request(r)[2] = r
  /\ \A s \in Samples : /\ Sample(s) \in Rows
                        /\ Sample(s)[1] = "sample" /\ Sample(s)[2] = s
  /\ \A w \in Wips : Wip(w) \in Rows /\ Wip(w)[1] = "wip" /\ Wip(w)[2] = w
  /\ \A d \in Dispatches : /\ Dispatch(d) \in Rows
                           /\ Dispatch(d)[1] = "dispatch" /\ Dispatch(d)[2] = d
  /\ \A w \in Wips, s \in Samples :
        /\ Member(w, s) \in Rows
        /\ Member(w, s)[1] = "member"
        /\ Member(w, s)[2] = w /\ Member(w, s)[3] = s
  /\ \A s \in Samples, t \in Types :
        /\ Progress(s, t) \in Rows
        /\ Progress(s, t)[1] = "progress"
        /\ Progress(s, t)[2] = s /\ Progress(s, t)[3] = t
BY DEF Rows, Request, Sample, Wip, Dispatch, Member, Progress

LEMMA RowKinds ==
  ASSUME NEW row \in Rows
  PROVE  \/ row[1] = "request" /\ \E r \in Requests : row = Request(r)
         \/ row[1] = "sample" /\ \E s \in Samples : row = Sample(s)
         \/ row[1] = "wip" /\ \E w \in Wips : row = Wip(w)
         \/ row[1] = "dispatch" /\ \E d \in Dispatches : row = Dispatch(d)
         \/ row[1] = "member" /\ \E w \in Wips, s \in Samples : row = Member(w, s)
         \/ row[1] = "progress"
                /\ \E s \in Samples, t \in Types : row = Progress(s, t)
BY RowFacts DEF Rows

LEMMA OverRow ==
  ASSUME NEW w, NEW f
  PROVE  /\ DOMAIN Over(w, f) = DOMAIN w \cup DOMAIN f
         /\ \A row \in DOMAIN w : Over(w, f)[row] = w[row]
         /\ \A row \in DOMAIN f \ DOMAIN w : Over(w, f)[row] = f[row]
BY DEF Over

LEMMA ViewRow ==
  ASSUME NEW w, NEW f, DOMAIN w \subseteq Rows, DOMAIN f = Rows
  PROVE  /\ DOMAIN Over(w, f) = Rows
         /\ \A row \in Rows : row \in DOMAIN w => Over(w, f)[row] = w[row]
         /\ \A row \in Rows : row \notin DOMAIN w => Over(w, f)[row] = f[row]
BY DEF Over

LEMMA WriteRow ==
  ASSUME NEW row, NEW value
  PROVE  DOMAIN Write(row, value) = {row} /\ Write(row, value)[row] = value
BY DEF Write

LEMMA NothingWritten == DOMAIN Nothing = {}
BY DEF Nothing

\* What the tables hold is a value of the row's table.
LEMMA WritesAreValues ==
  ASSUME NEW c \in Calls, NEW row \in Rows, NEW value \in WritesOf(c, row)
  PROVE  /\ value \in ValuesOf(row)
         /\ row[1] \in {"wip", "dispatch", "member", "progress"} => value # "none"
<1> USE DEF WritesOf, ValuesOf
<1>1. CASE row[1] = "request"
  BY <1>1 DEF RequestStatuses
<1>2. CASE row[1] = "sample"
  BY <1>2 DEF SampleStatuses
<1>3. CASE row[1] = "wip"
  BY <1>3 DEF WipStatuses
<1>4. CASE row[1] = "dispatch"
  BY <1>4 DEF DispatchStatuses, RunOps
<1>5. CASE row[1] = "member"
  BY <1>5
<1>6. CASE row[1] = "progress"
  <2>1. c.op \in Unloading => c.on \in Dispatches
    BY DEF Calls, RunOps, Unloading
  <2> QED
    BY <1>6, <2>1, TablesAssumption
<1> QED
  BY <1>1, <1>2, <1>3, <1>4, <1>5, <1>6, RowKinds

-----------------------------------------------------------------------------
\* Statements and programs.

LEMMA StatementKinds ==
  ASSUME NEW c \in Calls, NEW st \in StatementsOf(c)
  PROVE  /\ st.do = "lock" => st \in Locks
         /\ st.do = "move" => st \in Moves(c)
         /\ st.do = "set" => st \in Sets(c)
         /\ st.do = "setif" => st \in SetIfs(c)
         /\ st.do \notin {"lock", "move", "set", "setif", "commit"} =>
                st \in Checks(c)
<1>1. st \in Locks => st.do = "lock"
  BY DEF Locks
<1>2. st \in Moves(c) => st.do = "move"
  BY DEF Moves, Move
<1>3. st \in Sets(c) => st.do = "set"
  BY DEF Sets, Set
<1>4. st \in SetIfs(c) => st.do = "setif"
  BY DEF SetIfs, SetIf
<1>5. st \in Checks(c) =>
        st.do \notin {"lock", "move", "set", "setif", "commit"}
  BY DEF Checks, Cascades, Check
<1>6. st = Commit => st.do = "commit"
  BY DEF Commit
<1> QED
  BY <1>1, <1>2, <1>3, <1>4, <1>5, <1>6 DEF StatementsOf

-----------------------------------------------------------------------------
\* What a step does to the rest of a program: the head goes, and new
\* statements F may come in front of the others.

LEMMA Splice ==
  ASSUME NEW S, NEW L \in Seq(S), L # <<>>, NEW F \in Seq(S)
  PROVE  LET N == F \o Tail(L) IN
         /\ N \in Seq(S) /\ Len(N) = Len(F) + Len(L) - 1
         /\ \A i \in 1..Len(F) : N[i] = F[i]
         /\ \A i \in 2..Len(L) :
                Len(F) + i - 1 \in 1..Len(N) /\ N[Len(F) + i - 1] = L[i]
         /\ \A i \in 1..Len(N) :
                \/ i \in 1..Len(F)
                \/ i - Len(F) + 1 \in 2..Len(L) /\ N[i] = L[i - Len(F) + 1]
OBVIOUS

LEMMA AfterHead ==
  ASSUME NEW S, NEW L \in Seq(S), L # <<>>
  PROVE  /\ Tail(L) \in Seq(S) /\ Len(Tail(L)) = Len(L) - 1
         /\ \A i \in 1..Len(Tail(L)) : i + 1 \in 2..Len(L) /\ Tail(L)[i] = L[i + 1]
         /\ \A i \in 2..Len(L) : i - 1 \in 1..Len(Tail(L)) /\ Tail(L)[i - 1] = L[i]
         /\ Head(L) = L[1] /\ 1 \in 1..Len(L) /\ L[1] \in S
         /\ <<>> \o Tail(L) = Tail(L)
OBVIOUS

\* A lock ahead of statement i is still ahead of it when a statement that is
\* no lock is done, and held when it was the lock.
LEMMA LockedSplice ==
  ASSUME NEW S, NEW L \in Seq(S), L # <<>>, L[1].do # "lock",
         NEW F \in Seq(S), NEW H, NEW row, NEW i \in 1..Len(L),
         Locked(L, H, i, row)
  PROVE  Locked(F \o Tail(L), H, Len(F) + i - 1, row)
<1> DEFINE N == F \o Tail(L)
<1>1. CASE HasLock(H, row)
  BY <1>1 DEF Locked
<1>2. CASE ~HasLock(H, row)
  <2>1. PICK j \in 1..(i - 1) : L[j] \in {Lock(row), Update(row)}
    BY <1>2 DEF Locked
  <2>2. j # 1
    BY <2>1 DEF Lock, Update
  <2>3. Len(F) + j - 1 \in 1..(Len(F) + i - 1 - 1)
    BY <2>1, <2>2
  <2>4. N[Len(F) + j - 1] = L[j]
    BY <2>1, <2>2, Splice
  <2> HIDE DEF N
  <2>5. Locked(N, H, Len(F) + i - 1, row)
    BY <2>1, <2>3, <2>4 DEF Locked
  <2> QED
    BY <2>5 DEF N
<1> QED
  BY <1>1, <1>2

LEMMA LockedAcquire ==
  ASSUME NEW S, NEW L \in Seq(S), L # <<>>, NEW H, NEW row,
         NEW i \in 2..Len(L), Locked(L, H, i, row),
         L[1].do = "lock"
  PROVE  Locked(Tail(L), H \cup {<<L[1].row, L[1].mode>>}, i - 1, row)
<1> DEFINE G == H \cup {<<L[1].row, L[1].mode>>}
<1>1. CASE HasLock(H, row)
  BY <1>1 DEF Locked, HasLock
<1>2. CASE ~HasLock(H, row)
  <2>1. PICK j \in 1..(i - 1) : L[j] \in {Lock(row), Update(row)}
    BY <1>2 DEF Locked
  <2>2. CASE j = 1
    <3>1. L[1].row = row /\ L[1].mode \in {"write", "update"}
      BY <2>1, <2>2 DEF Lock, Update
    <3>2. HasLock(G, row)
      BY <3>1 DEF HasLock
    <3> QED
      BY <3>2 DEF Locked
  <2>3. CASE j # 1
    <3>1. j - 1 \in 1..(i - 1 - 1) /\ Tail(L)[j - 1] = L[j]
      BY <2>1, <2>3, AfterHead
    <3> QED
      BY <2>1, <3>1 DEF Locked
  <2> QED
    BY <2>2, <2>3
<1> QED
  BY <1>1, <1>2

LEMMA ListLockedSplice ==
  ASSUME NEW S, NEW L \in Seq(S), L # <<>>, L[1].do # "lock",
         NEW F \in Seq(S), NEW H, NEW c,
         ListLocked(c, L, H), ListLocked(c, F, H)
  PROVE  ListLocked(c, F \o Tail(L), H)
<1> DEFINE N == F \o Tail(L)
<1> SUFFICES ASSUME NEW i \in 1..Len(N), NEW row \in NeedsLock(c, N[i])
             PROVE  Locked(N, H, i, row)
  BY DEF ListLocked
<1>1. CASE i \in 1..Len(F)
  <2>1. \A j \in 1..i : N[j] = F[j]
    BY <1>1, Splice
  <2>2. Locked(F, H, i, row)
    BY <1>1, <2>1 DEF ListLocked
  <2> HIDE DEF N
  <2> QED
    BY <1>1, <2>1, <2>2 DEF Locked
<1>2. CASE i \notin 1..Len(F)
  <2> DEFINE k == i - Len(F) + 1
  <2>1. k \in 2..Len(L) /\ N[i] = L[k]
    BY <1>2, Splice
  <2>2. Locked(L, H, k, row)
    BY <2>1 DEF ListLocked
  <2>3. Locked(N, H, Len(F) + k - 1, row)
    BY <2>1, <2>2, LockedSplice
  <2>4. Len(F) + k - 1 = i
    OBVIOUS
  <2> QED
    BY <2>3, <2>4
<1> QED
  BY <1>1, <1>2

LEMMA ListLockedAcquire ==
  ASSUME NEW S, NEW L \in Seq(S), L # <<>>, L[1].do = "lock", NEW H, NEW c,
         ListLocked(c, L, H)
  PROVE  ListLocked(c, Tail(L), H \cup {<<L[1].row, L[1].mode>>})
<1> SUFFICES ASSUME NEW i \in 1..Len(Tail(L)),
                    NEW row \in NeedsLock(c, Tail(L)[i])
             PROVE  Locked(Tail(L), H \cup {<<L[1].row, L[1].mode>>}, i, row)
  BY DEF ListLocked
<1>1. i + 1 \in 2..Len(L) /\ Tail(L)[i] = L[i + 1]
  BY AfterHead
<1>2. Locked(L, H, i + 1, row)
  BY <1>1 DEF ListLocked
<1>3. Locked(Tail(L), H \cup {<<L[1].row, L[1].mode>>}, (i + 1) - 1, row)
  BY <1>1, <1>2, LockedAcquire
<1> QED
  BY <1>3

\* A test ahead of statement i stays ahead until it is done, and then the
\* lock is held.
LEMMA AheadSplice ==
  ASSUME NEW S, NEW L \in Seq(S), L # <<>>, L[1].do # "lock",
         NEW F \in Seq(S), NEW H, NEW row, NEW test, NEW i \in 2..Len(L),
         Ahead(L, H, i, test, row)
  PROVE  \/ L[1] = test /\ HasLock(H, row)
         \/ Ahead(F \o Tail(L), H, Len(F) + i - 1, test, row)
<1>1. PICK j \in 1..(i - 1) : L[j] = test /\ Locked(L, H, j, row)
  BY DEF Ahead
<1>2. CASE j = 1
  <2>1. HasLock(H, row)
    BY <1>1, <1>2 DEF Locked
  <2> QED
    BY <1>1, <1>2, <2>1
<1>3. CASE j # 1
  <2> DEFINE k == Len(F) + j - 1
  <2>1. k \in 1..(Len(F) + i - 1 - 1)
    BY <1>1, <1>3
  <2>2. (F \o Tail(L))[k] = test
    BY <1>1, <1>3, Splice
  <2>3. Locked(F \o Tail(L), H, k, row)
    BY <1>1, LockedSplice
  <2> HIDE DEF k
  <2> QED
    BY <2>1, <2>2, <2>3 DEF Ahead
<1> QED
  BY <1>2, <1>3

LEMMA AheadAcquire ==
  ASSUME NEW S, NEW L \in Seq(S), L # <<>>, L[1].do = "lock",
         NEW H, NEW row, NEW test, NEW i \in 2..Len(L),
         Ahead(L, H, i, test, row), test.do # "lock"
  PROVE  Ahead(Tail(L), H \cup {<<L[1].row, L[1].mode>>}, i - 1, test, row)
<1> DEFINE G == H \cup {<<L[1].row, L[1].mode>>}
<1>1. PICK j \in 1..(i - 1) : L[j] = test /\ Locked(L, H, j, row)
  BY DEF Ahead
<1>2. j # 1
  BY <1>1
<1>3. j - 1 \in 1..(i - 1 - 1) /\ Tail(L)[j - 1] = test
  BY <1>1, <1>2, AfterHead
<1>4. Locked(Tail(L), G, j - 1, row)
  BY <1>1, <1>2, LockedAcquire
<1> HIDE DEF G
<1>5. Ahead(Tail(L), G, i - 1, test, row)
  BY <1>3, <1>4 DEF Ahead
<1> QED
  BY <1>5 DEF G

LEMMA HasMore ==
  ASSUME NEW H, NEW G, NEW row, HasLock(H, row)
  PROVE  HasLock(H \cup G, row)
BY DEF HasLock

\* The lock at the head of a program is taken.
LEMMA Acquire ==
  ASSUME NEW c, NEW v, NEW L, NEW M, NEW H, CallInv(c, v, L, M, H),
         L # <<>>, L[1].do = "lock"
  PROVE  CallInv(c, v, Tail(L), M, H \cup {<<L[1].row, L[1].mode>>})
<1> DEFINE G == H \cup {<<L[1].row, L[1].mode>>}
           N == Tail(L)
<1>0. /\ c \in Calls /\ L \in Seq(StatementsOf(c)) /\ CallTypeOK(c, L, M, H)
      /\ N \in Seq(StatementsOf(c)) /\ L[1] \in StatementsOf(c)
  BY AfterHead DEF CallInv, CallTypeOK
<1>1. CallTypeOK(c, N, M, G)
  <2>1. L[1] \in Locks
    BY <1>0, StatementKinds
  <2>2. <<L[1].row, L[1].mode>> \in (Rows \cup {Type(t) : t \in Types}) \X Modes
    BY <2>1 DEF Locks
  <2> QED
    BY <1>0, <2>2 DEF CallTypeOK
<1>2. ListLocked(c, N, G)
  BY <1>0, ListLockedAcquire DEF CallInv
<1>i. \A i \in 1..Len(N) : i + 1 \in 2..Len(L) /\ N[i] = L[i + 1] /\ i = (i + 1) - 1
  BY <1>0, AfterHead
<1>e. EndsInCommit(N)
  <2>1. L[1] # Commit
    BY DEF Commit
  <2>2. Len(N) = Len(L) - 1
    BY <1>0, AfterHead
  <2>3. CASE Len(N) # 0
    <3>1. Len(L) \in 2..Len(L) /\ N[Len(L) - 1] = L[Len(L)]
      BY <1>0, <2>2, <2>3, AfterHead
    <3> QED BY <2>2, <3>1 DEF CallInv, EndsInCommit
  <2>4. CASE Len(N) = 0
    BY <1>0, <2>1, <2>2, <2>4 DEF CallInv, EndsInCommit
  <2> QED BY <2>3, <2>4
<1>g. \A row : HasLock(H, row) => HasLock(G, row)
  BY HasMore
<1> HIDE DEF N
<1>3. StartTested(c, v, N, G)
  <2> SUFFICES ASSUME c.op = "start", NEW i \in 1..Len(N),
                      N[i] = Set(Dispatch(c.on), "running")
               PROVE  Tested(N, G, i, Check("startable", c.on), Dispatch(c.on),
                        v[Dispatch(c.on)] \in {"pending", "dispatched"})
    BY DEF StartTested
  <2>1. Tested(L, H, i + 1, Check("startable", c.on), Dispatch(c.on),
               v[Dispatch(c.on)] \in {"pending", "dispatched"})
    BY <1>i, i + 1 \in 1..Len(L) DEF CallInv, StartTested
  <2>2. Check("startable", c.on).do # "lock"
    BY DEF Check
  <2>3. i + 1 \in 2..Len(L)
    BY <1>i
  <2>5. Ahead(L, H, i + 1, Check("startable", c.on), Dispatch(c.on)) =>
            Ahead(Tail(L), G, (i + 1) - 1, Check("startable", c.on), Dispatch(c.on))
    BY <1>0, <2>2, <2>3, AheadAcquire
  <2>4. Tested(Tail(L), G, (i + 1) - 1, Check("startable", c.on),
           Dispatch(c.on), v[Dispatch(c.on)] \in {"pending", "dispatched"})
    BY <1>g, <2>1, <2>5 DEF Tested
  <2> QED
    BY <2>4, <1>i DEF N
<1>4. InsertTested(c, v, N, M, G)
  <2> SUFFICES ASSUME c.op = "create_dispatch", NEW i \in 1..Len(N),
                      N[i].do = "dispatch"
               PROVE  Tested(N, G, i, Check("alldone", WipOf[c.on]),
                        Wip(WipOf[c.on]), Alone(Over(M, v), c.on))
    BY DEF InsertTested
  <2>1. Tested(L, H, i + 1, Check("alldone", WipOf[c.on]),
               Wip(WipOf[c.on]), Alone(Over(M, v), c.on))
    BY <1>i, i + 1 \in 1..Len(L) DEF CallInv, InsertTested
  <2>2. Check("alldone", WipOf[c.on]).do # "lock"
    BY DEF Check
  <2>3. i + 1 \in 2..Len(L)
    BY <1>i
  <2>5. Ahead(L, H, i + 1, Check("alldone", WipOf[c.on]), Wip(WipOf[c.on])) =>
            Ahead(Tail(L), G, (i + 1) - 1, Check("alldone", WipOf[c.on]), Wip(WipOf[c.on]))
    BY <1>0, <2>2, <2>3, AheadAcquire
  <2>4. Tested(Tail(L), G, (i + 1) - 1, Check("alldone", WipOf[c.on]),
               Wip(WipOf[c.on]), Alone(Over(M, v), c.on))
    BY <1>g, <2>1, <2>5 DEF Tested
  <2> QED
    BY <2>4, <1>i DEF N
<1>5. ReplaceTested(c, v, N, M, G)
  <2> SUFFICES ASSUME c.op = "redispatch", NEW i \in 1..Len(N),
                      N[i].do = "setif"
               PROVE  Tested(N, G, i, Move(Dispatch(c.on), "redispatch"),
                        Wip(WipOf[c.new]), Alone(Over(M, v), c.new))
    BY DEF ReplaceTested
  <2>1. Tested(L, H, i + 1, Move(Dispatch(c.on), "redispatch"),
               Wip(WipOf[c.new]), Alone(Over(M, v), c.new))
    BY <1>i, i + 1 \in 1..Len(L) DEF CallInv, ReplaceTested
  <2>2. Move(Dispatch(c.on), "redispatch").do # "lock"
    BY DEF Move
  <2>3. i + 1 \in 2..Len(L) 
    BY <1>i
  <2>5. Ahead(L, H, i + 1, Move(Dispatch(c.on), "redispatch"), Wip(WipOf[c.new])) =>
            Ahead(Tail(L), G, (i + 1) - 1, Move(Dispatch(c.on), "redispatch"), Wip(WipOf[c.new]))
    BY <1>0, <2>2, <2>3, AheadAcquire
  <2>4. Tested(Tail(L), G, (i + 1) - 1, Move(Dispatch(c.on), "redispatch"),
               Wip(WipOf[c.new]), Alone(Over(M, v), c.new))
    BY <1>g, <2>1, <2>5 DEF Tested
  <2> QED
    BY <2>4, <1>i DEF N
<1>6. JoinTested(c, v, N, G)
  <2> SUFFICES ASSUME c.op = "add_samples", NEW i \in 1..Len(N),
                      N[i].do = "validate"
               PROVE  Tested(N, G, i, Check("open", c.on), Wip(c.on),
                             v[Wip(c.on)] # "none")
    BY DEF JoinTested
  <2>1. Tested(L, H, i + 1, Check("open", c.on), Wip(c.on),
               v[Wip(c.on)] # "none")
    BY <1>i, i + 1 \in 1..Len(L) DEF CallInv, JoinTested
  <2>2. Check("open", c.on).do # "lock"
    BY DEF Check
  <2>3. i + 1 \in 2..Len(L)
    BY <1>i
  <2>5. Ahead(L, H, i + 1, Check("open", c.on), Wip(c.on)) =>
            Ahead(Tail(L), G, (i + 1) - 1, Check("open", c.on), Wip(c.on))
    BY <1>0, <2>2, <2>3, AheadAcquire
  <2>4. Tested(Tail(L), G, (i + 1) - 1, Check("open", c.on), Wip(c.on),
               v[Wip(c.on)] # "none")
    BY <1>g, <2>1, <2>5 DEF Tested
  <2> QED
    BY <2>4, <1>i DEF N
<1>7. NewWip(c, v, N)
  BY DEF CallInv, NewWip
<1>8. WrittenLocked(c, v, M, G)
  BY <1>g DEF CallInv, WrittenLocked
<1>9. InsertedAlone(v, M)
  BY DEF CallInv
<1> HIDE DEF G
<1> QED
  BY <1>1, <1>2, <1>3, <1>4, <1>5, <1>6, <1>7, <1>8, <1>9, <1>e DEF CallInv, N, G

\* The statement at the head is done, writes w, and puts F before the others.
LEMMA Continue ==
  ASSUME NEW c, NEW v, NEW L, NEW M, NEW H, CallInv(c, v, L, M, H),
         L # <<>>, L[1].do \notin {"lock", "commit"},
         NEW F \in Seq(StatementsOf(c)), ListLocked(c, F, H),
         F # <<>> => c.op \notin {"start", "create_dispatch", "redispatch"},
         \A i \in 1..Len(F) : F[i].do # "validate",
         NEW w, DOMAIN w \subseteq Rows,
         \A row \in DOMAIN w : w[row] \in WritesOf(c, row),
         WrittenLocked(c, v, w, H), InsertedAlone(v, Over(w, M)),
         L[1] = Check("startable", c.on) =>
            v[Dispatch(c.on)] \in {"pending", "dispatched"},
         L[1] = Check("open", c.on) => v[Wip(c.on)] # "none",
         c.op = "create_dispatch" =>
            ((\/ L[1] = Check("alldone", WipOf[c.on])
              \/ Alone(Over(M, v), c.on)) => Alone(Over(Over(w, M), v), c.on)),
         c.op = "redispatch" =>
            ((\/ L[1] = Move(Dispatch(c.on), "redispatch")
              \/ Alone(Over(M, v), c.new)) => Alone(Over(Over(w, M), v), c.new))
  PROVE  CallInv(c, v, F \o Tail(L), Over(w, M), H)
<1> DEFINE N == F \o Tail(L)
           W == Over(w, M)
<1>0. /\ c \in Calls /\ L \in Seq(StatementsOf(c)) /\ CallTypeOK(c, L, M, H)
      /\ N \in Seq(StatementsOf(c))
  BY Splice DEF CallInv, CallTypeOK
<1>w. /\ DOMAIN W = DOMAIN w \cup DOMAIN M
      /\ \A row \in DOMAIN w : W[row] = w[row]
      /\ \A row \in DOMAIN M \ DOMAIN w : W[row] = M[row]
  BY DEF Over
<1>1. CallTypeOK(c, N, W, H)
  <2> HIDE DEF N, W
  <2> QED BY <1>0, <1>w DEF CallTypeOK
<1>2. ListLocked(c, N, H)
  BY <1>0, ListLockedSplice DEF CallInv
<1>i. \A i \in 1..Len(N) :
        \/ i \in 1..Len(F) /\ N[i] = F[i]
        \/ /\ i - Len(F) + 1 \in 2..Len(L) /\ N[i] = L[i - Len(F) + 1]
           /\ Len(F) + (i - Len(F) + 1) - 1 = i
  BY <1>0, Splice
<1>a. ASSUME NEW test, NEW row, NEW i \in 2..Len(L), Ahead(L, H, i, test, row)
      PROVE  \/ L[1] = test /\ HasLock(H, row)
             \/ Ahead(N, H, Len(F) + i - 1, test, row)
  BY <1>0, <1>a, AheadSplice
<1>e. EndsInCommit(N)
  <2>1. L[1] # Commit
    BY DEF Commit
  <2>2. L[Len(L)] = Commit /\ Len(L) \in 2..Len(L)
    BY <1>0, <2>1 DEF CallInv, EndsInCommit
  <2>3. Len(N) = Len(F) + Len(L) - 1 /\ N[Len(F) + Len(L) - 1] = L[Len(L)]
    BY <1>0, <2>2, Splice
  <2> QED BY <2>2, <2>3 DEF EndsInCommit
<1>f. \A i \in 1..Len(N) : c.op \in {"start", "create_dispatch", "redispatch"}
        => ~(i \in 1..Len(F))
  OBVIOUS
<1> HIDE DEF N, W
<1>3. StartTested(c, v, N, H)
  <2> SUFFICES ASSUME c.op = "start", NEW i \in 1..Len(N),
                      N[i] = Set(Dispatch(c.on), "running")
               PROVE  Tested(N, H, i, Check("startable", c.on), Dispatch(c.on),
                        v[Dispatch(c.on)] \in {"pending", "dispatched"})
    BY DEF StartTested
  <2> DEFINE k == i - Len(F) + 1
  <2>1. k \in 2..Len(L) /\ k \in 1..Len(L) /\ L[k] = N[i] /\ Len(F) + k - 1 = i
    BY <1>i, <1>f
  <2> HIDE DEF k
  <2>2. Tested(L, H, k, Check("startable", c.on), Dispatch(c.on),
               v[Dispatch(c.on)] \in {"pending", "dispatched"})
    BY <2>1 DEF CallInv, StartTested
  <2> QED
    BY <2>1, <2>2, <1>a DEF Tested
<1>4. InsertTested(c, v, N, W, H)
  <2> SUFFICES ASSUME c.op = "create_dispatch", NEW i \in 1..Len(N),
                      N[i].do = "dispatch"
               PROVE  Tested(N, H, i, Check("alldone", WipOf[c.on]),
                        Wip(WipOf[c.on]), Alone(Over(W, v), c.on))
    BY DEF InsertTested
  <2> DEFINE k == i - Len(F) + 1
  <2>1. k \in 2..Len(L) /\ k \in 1..Len(L) /\ L[k] = N[i] /\ Len(F) + k - 1 = i
    BY <1>i, <1>f
  <2> HIDE DEF k
  <2>2. Tested(L, H, k, Check("alldone", WipOf[c.on]),
               Wip(WipOf[c.on]), Alone(Over(M, v), c.on))
    BY <2>1 DEF CallInv, InsertTested
  <2>3. (\/ L[1] = Check("alldone", WipOf[c.on])
         \/ Alone(Over(M, v), c.on)) => Alone(Over(W, v), c.on)
    BY DEF W
  <2> QED
    BY <2>1, <2>2, <2>3, <1>a DEF Tested
<1>5. ReplaceTested(c, v, N, W, H)
  <2> SUFFICES ASSUME c.op = "redispatch", NEW i \in 1..Len(N),
                      N[i].do = "setif"
               PROVE  Tested(N, H, i, Move(Dispatch(c.on), "redispatch"),
                        Wip(WipOf[c.new]), Alone(Over(W, v), c.new))
    BY DEF ReplaceTested
  <2> DEFINE k == i - Len(F) + 1
  <2>1. k \in 2..Len(L) /\ k \in 1..Len(L) /\ L[k] = N[i] /\ Len(F) + k - 1 = i
    BY <1>i, <1>f
  <2> HIDE DEF k
  <2>2. Tested(L, H, k, Move(Dispatch(c.on), "redispatch"),
               Wip(WipOf[c.new]), Alone(Over(M, v), c.new))
    BY <2>1 DEF CallInv, ReplaceTested
  <2>3. (\/ L[1] = Move(Dispatch(c.on), "redispatch")
         \/ Alone(Over(M, v), c.new)) => Alone(Over(W, v), c.new)
    BY DEF W
  <2> QED
    BY <2>1, <2>2, <2>3, <1>a DEF Tested
<1>6. JoinTested(c, v, N, H)
  <2> SUFFICES ASSUME c.op = "add_samples", NEW i \in 1..Len(N),
                      N[i].do = "validate"
               PROVE  Tested(N, H, i, Check("open", c.on), Wip(c.on),
                             v[Wip(c.on)] # "none")
    BY DEF JoinTested
  <2> DEFINE k == i - Len(F) + 1
  <2>1. k \in 2..Len(L) /\ k \in 1..Len(L) /\ L[k] = N[i] /\ Len(F) + k - 1 = i
    BY <1>i
  <2> HIDE DEF k
  <2>2. Tested(L, H, k, Check("open", c.on), Wip(c.on), v[Wip(c.on)] # "none")
    BY <2>1 DEF CallInv, JoinTested
  <2> QED
    BY <2>1, <2>2, <1>a DEF Tested
<1>7. NewWip(c, v, N)
  BY DEF CallInv, NewWip
<1>8. WrittenLocked(c, v, W, H)
  <2>1. WrittenLocked(c, v, M, H)
    BY DEF CallInv
  <2> SUFFICES ASSUME NEW row \in DOMAIN W
               PROVE  CASE row[1] \in {"request", "sample"} -> HasLock(H, row)
          [] row[1] = "wip" -> \/ HasLock(H, row) /\ v[row] # "none"
                               \/ Creates(c, row[2])
          [] row[1] = "member" -> HasLock(H, Wip(row[2])) \/ Creates(c, row[2])
          [] row[1] = "dispatch" ->
                /\ <<v[row], W[row]>> \in RunMoves
                /\ HasLock(H, IF v[row] = "none" THEN Wip(WipOf[row[2]])
                                                 ELSE row)
          [] OTHER -> TRUE
    BY DEF WrittenLocked
  <2>2. CASE row \in DOMAIN w
    <3>1. W[row] = w[row]
      BY <2>2, <1>w
    <3> QED BY <2>2, <3>1 DEF WrittenLocked
  <2>3. CASE row \notin DOMAIN w
    <3>1. row \in DOMAIN M /\ W[row] = M[row]
      BY <2>3, <1>w
    <3> QED BY <2>1, <3>1 DEF WrittenLocked
  <2> QED BY <2>2, <2>3
<1>9. InsertedAlone(v, W)
  BY DEF W
<1> QED
  BY <1>1, <1>2, <1>3, <1>4, <1>5, <1>6, <1>7, <1>8, <1>9, <1>e DEF CallInv, N, W

-----------------------------------------------------------------------------
\* When call o commits what M has, the other calls stay as they are.

Exclude(G, H) == \A h \in G, k \in H : h[1] = k[1] => Compatible(h[2], k[2])

LEMMA OneWriter ==
  ASSUME NEW G, NEW H, Exclude(G, H), NEW row
  PROVE  ~(HasLock(G, row) /\ HasLock(H, row))
BY DEF Exclude, HasLock, Compatible

LEMMA MovesOfRuns ==
  /\ \A x, y : <<x, y>> \in RunMoves =>
        /\ x \notin TerminalDispatchStatuses /\ y # "none"
        /\ x = "none" => y = "pending"
  /\ "none" \notin TerminalDispatchStatuses
BY DEF RunMoves, TerminalDispatchStatuses

LEMMA Alone2 ==
  ASSUME NEW c, NEW v, NEW M, NEW H, NEW o, NEW W, NEW G, NEW d \in Dispatches,
         WrittenLocked(o, v, W, G), Exclude(H, G), DOMAIN W \subseteq Rows,
         DOMAIN M \subseteq Rows, DOMAIN v = Rows,
         HasLock(H, Wip(WipOf[d])), Alone(Over(M, v), d)
  PROVE  Alone(Over(M, Over(W, v)), d)
<1> DEFINE u == Over(W, v)
<1>1. /\ \A row \in Rows : row \in DOMAIN W => u[row] = W[row]
      /\ \A row \in Rows : row \notin DOMAIN W => u[row] = v[row]
      /\ DOMAIN u = Rows
  BY ViewRow
<1> HIDE DEF u
<1>2. /\ \A row \in Rows : row \in DOMAIN M => Over(M, u)[row] = M[row]
      /\ \A row \in Rows : row \notin DOMAIN M => Over(M, u)[row] = u[row]
      /\ \A row \in Rows : row \in DOMAIN M => Over(M, v)[row] = M[row]
      /\ \A row \in Rows : row \notin DOMAIN M => Over(M, v)[row] = v[row]
  BY <1>1, ViewRow
<1> SUFFICES ASSUME NEW e \in Dispatches, e # d, WipOf[e] = WipOf[d]
             PROVE  Over(M, u)[Dispatch(e)] \in TerminalDispatchStatuses \cup {"none"}
  BY DEF Alone, u
<1> DEFINE row == Dispatch(e)
<1>3. row \in Rows /\ row[1] = "dispatch" /\ row[2] = e
  BY RowFacts
<1>4. Over(M, v)[row] \in TerminalDispatchStatuses \cup {"none"}
  BY DEF Alone
<1> HIDE DEF row
<1>5. CASE row \in DOMAIN M
  BY <1>2, <1>3, <1>4, <1>5 DEF row
<1>6. CASE row \notin DOMAIN M /\ row \notin DOMAIN W
  BY <1>1, <1>2, <1>3, <1>4, <1>6 DEF row
<1>7. CASE row \notin DOMAIN M /\ row \in DOMAIN W
  <2>1. /\ <<v[row], W[row]>> \in RunMoves
        /\ HasLock(G, IF v[row] = "none" THEN Wip(WipOf[row[2]]) ELSE row)
    BY <1>3, <1>7 DEF WrittenLocked
  <2>2. v[row] = "none"
    BY <1>2, <1>3, <1>4, <1>7, <2>1, MovesOfRuns
  <2>3. HasLock(G, Wip(WipOf[d]))
    BY <2>1, <2>2, <1>3
  <2> QED
    BY <2>3, OneWriter
<1> QED
  BY <1>5, <1>6, <1>7

\* Another call's commit leaves a call's invariant true.
LEMMA OthersCommit ==
  ASSUME NEW c, NEW v, NEW L, NEW M, NEW H, CallInv(c, v, L, M, H),
         NEW o, NEW K, NEW W, NEW G, CallInv(o, v, K, W, G),
         Exclude(H, G), DOMAIN v = Rows,
         \A w \in Wips : ~(Creates(c, w) /\ Creates(o, w))
  PROVE  CallInv(c, Over(W, v), L, M, H)
<1> DEFINE u == Over(W, v)
<1>t. CallTypeOK(c, L, M, H) /\ CallTypeOK(o, K, W, G)
  BY DEF CallInv
<1>0. /\ c \in Calls /\ o \in Calls /\ L \in Seq(StatementsOf(c))
      /\ DOMAIN M \subseteq Rows /\ DOMAIN W \subseteq Rows
      /\ WrittenLocked(o, v, W, G) /\ WrittenLocked(c, v, M, H)
      /\ \A row \in DOMAIN W : W[row] \in WritesOf(o, row)
  BY DEF CallInv, CallTypeOK
<1>1. /\ \A row \in Rows : row \in DOMAIN W => u[row] = W[row]
      /\ \A row \in Rows : row \notin DOMAIN W => u[row] = v[row]
      /\ DOMAIN u = Rows
  BY <1>0, ViewRow
<1>2. \A d \in Dispatches :
        HasLock(H, Wip(WipOf[d])) /\ Alone(Over(M, v), d) => Alone(Over(M, u), d)
  BY <1>0, Alone2
<1> HIDE DEF u
<1>3. \A d \in Dispatches : HasLock(H, Dispatch(d)) /\ v[Dispatch(d)] # "none"
        => u[Dispatch(d)] = v[Dispatch(d)]
  <2> SUFFICES ASSUME NEW d \in Dispatches, HasLock(H, Dispatch(d)),
                      v[Dispatch(d)] # "none", Dispatch(d) \in DOMAIN W
               PROVE  FALSE
    BY <1>1, RowFacts
  <2>1. HasLock(G, Dispatch(d))
    BY <1>0, RowFacts, ZenonT(60) DEF WrittenLocked
  <2> QED
    BY <2>1, OneWriter
<1>4. \A w \in Wips : v[Wip(w)] # "none" => u[Wip(w)] # "none"
  <2> SUFFICES ASSUME NEW w \in Wips, v[Wip(w)] # "none"
               PROVE  u[Wip(w)] # "none"
    OBVIOUS
  <2>0. Wip(w) \in Rows /\ Wip(w)[1] = "wip"
    BY RowFacts
  <2>1. CASE Wip(w) \in DOMAIN W
    <3>1. W[Wip(w)] # "none"
      BY <1>0, <2>0, <2>1, WritesAreValues
    <3> QED BY <1>1, <2>0, <2>1, <3>1
  <2> QED BY <1>1, <2>0, <2>1
<1>a. StartTested(c, u, L, H)
  <2> SUFFICES ASSUME c.op = "start", NEW i \in 1..Len(L),
                      L[i] = Set(Dispatch(c.on), "running")
               PROVE  Tested(L, H, i, Check("startable", c.on), Dispatch(c.on),
                        u[Dispatch(c.on)] \in {"pending", "dispatched"})
    BY DEF StartTested
  <2>1. Tested(L, H, i, Check("startable", c.on), Dispatch(c.on),
               v[Dispatch(c.on)] \in {"pending", "dispatched"})
    BY DEF CallInv, StartTested
  <2>2. c.on \in Dispatches
    BY <1>0 DEF Calls, RunOps
  <2> QED
    BY <2>1, <2>2, <1>3 DEF Tested
<1>b. InsertTested(c, u, L, M, H)
  <2> SUFFICES ASSUME c.op = "create_dispatch", NEW i \in 1..Len(L),
                      L[i].do = "dispatch"
               PROVE  Tested(L, H, i, Check("alldone", WipOf[c.on]),
                        Wip(WipOf[c.on]), Alone(Over(M, u), c.on))
    BY DEF InsertTested
  <2>1. Tested(L, H, i, Check("alldone", WipOf[c.on]),
               Wip(WipOf[c.on]), Alone(Over(M, v), c.on))
    BY DEF CallInv, InsertTested
  <2>2. c.on \in Dispatches
    BY <1>0 DEF Calls, RunOps
  <2> QED
    BY <2>1, <2>2, <1>2 DEF Tested
<1>c. ReplaceTested(c, u, L, M, H)
  <2> SUFFICES ASSUME c.op = "redispatch", NEW i \in 1..Len(L),
                      L[i].do = "setif"
               PROVE  Tested(L, H, i, Move(Dispatch(c.on), "redispatch"),
                        Wip(WipOf[c.new]), Alone(Over(M, u), c.new))
    BY DEF ReplaceTested
  <2>1. Tested(L, H, i, Move(Dispatch(c.on), "redispatch"),
               Wip(WipOf[c.new]), Alone(Over(M, v), c.new))
    BY DEF CallInv, ReplaceTested
  <2>2. c.new \in Dispatches
    BY <1>0 DEF Calls, RunOps
  <2> QED
    BY <2>1, <2>2, <1>2 DEF Tested
<1>d. JoinTested(c, u, L, H)
  <2> SUFFICES ASSUME c.op = "add_samples", NEW i \in 1..Len(L),
                      L[i].do = "validate"
               PROVE  Tested(L, H, i, Check("open", c.on), Wip(c.on),
                             u[Wip(c.on)] # "none")
    BY DEF JoinTested
  <2>1. Tested(L, H, i, Check("open", c.on), Wip(c.on), v[Wip(c.on)] # "none")
    BY DEF CallInv, JoinTested
  <2>2. c.on \in Wips
    BY <1>0 DEF Calls, RunOps
  <2> QED
    BY <2>1, <2>2, <1>4 DEF Tested
<1>e. NewWip(c, u, L)
  <2> SUFFICES ASSUME c.op = "create_wip", L # <<>>
               PROVE  u[Wip(c.on)] = "none"
    BY DEF NewWip
  <2>1. v[Wip(c.on)] = "none" /\ c.on \in Wips
    BY <1>0 DEF CallInv, NewWip, Calls, RunOps
  <2>2. CASE Wip(c.on) \in DOMAIN W
    <3>1. Creates(o, c.on)
      BY <1>0, <2>1, <2>2, RowFacts, ZenonT(60) DEF WrittenLocked
    <3> QED BY <2>1, <3>1 DEF Creates
  <2> QED BY <2>1, <2>2, <1>1, RowFacts
<1>f. WrittenLocked(c, u, M, H)
  <2> SUFFICES ASSUME NEW row \in DOMAIN M
               PROVE  CASE row[1] \in {"request", "sample"} -> HasLock(H, row)
          [] row[1] = "wip" -> \/ HasLock(H, row) /\ u[row] # "none"
                               \/ Creates(c, row[2])
          [] row[1] = "member" -> HasLock(H, Wip(row[2])) \/ Creates(c, row[2])
          [] row[1] = "dispatch" ->
                /\ <<u[row], M[row]>> \in RunMoves
                /\ HasLock(H, IF u[row] = "none" THEN Wip(WipOf[row[2]])
                                                 ELSE row)
          [] OTHER -> TRUE
    BY DEF WrittenLocked
  <2>1. row \in Rows
    BY <1>0
  <2>2. CASE row[1] = "wip"
    <3>1. v[row] # "none" => u[row] # "none"
      BY <1>4, <2>1, <2>2, RowKinds
    <3> QED BY <1>0, <2>2, <3>1 DEF WrittenLocked
  <2>3. CASE row[1] = "dispatch"
    <3>1. row \notin DOMAIN W
      <4> SUFFICES ASSUME row \in DOMAIN W PROVE FALSE
        OBVIOUS
      <4>1. HasLock(H, IF v[row] = "none" THEN Wip(WipOf[row[2]]) ELSE row)
        BY <1>0, <2>3 DEF WrittenLocked
      <4>2. HasLock(G, IF v[row] = "none" THEN Wip(WipOf[row[2]]) ELSE row)
        BY <1>0, <2>3 DEF WrittenLocked
      <4> QED BY <4>1, <4>2, OneWriter
    <3>2. u[row] = v[row]
      BY <3>1, <2>1, <1>1
    <3> QED BY <1>0, <2>3, <3>2 DEF WrittenLocked
  <2>4. CASE row[1] \in {"request", "sample", "member", "progress"}
    BY <1>0, <2>4 DEF WrittenLocked
  <2> QED BY <2>1, <2>2, <2>3, <2>4, RowKinds
<1>g. InsertedAlone(u, M)
  <2> SUFFICES ASSUME NEW d \in Dispatches, Dispatch(d) \in DOMAIN M,
                      u[Dispatch(d)] = "none"
               PROVE  Alone(Over(M, u), d)
    BY DEF InsertedAlone
  <2>1. v[Dispatch(d)] = "none"
    <3>1. CASE Dispatch(d) \in DOMAIN W
      <4>1. <<v[Dispatch(d)], W[Dispatch(d)]>> \in RunMoves
        BY <1>0, <3>1, RowFacts DEF WrittenLocked
      <4> QED BY <3>1, <4>1, <1>1, MovesOfRuns, RowFacts
    <3>2. CASE Dispatch(d) \notin DOMAIN W
      BY <3>2, <1>1, RowFacts
    <3> QED BY <3>1, <3>2
  <2>2. Alone(Over(M, v), d)
    BY <2>1 DEF CallInv, InsertedAlone
  <2>3. HasLock(H, Wip(WipOf[d]))
    BY <2>1, <1>0, RowFacts, ZenonT(60) DEF WrittenLocked
  <2> QED BY <2>2, <2>3, <1>2
<1>h. CallTypeOK(c, L, M, H) /\ ListLocked(c, L, H) /\ EndsInCommit(L)
  BY DEF CallInv
<1> QED
  BY <1>a, <1>b, <1>c, <1>d, <1>e, <1>f, <1>g, <1>h DEF CallInv, u

\* What the tables are after o's commit.
LEMMA CommitTables ==
  ASSUME NEW o, NEW v, NEW K, NEW W, NEW G, CallInv(o, v, K, W, G), TablesOK(v)
  PROVE  TablesOK(Over(W, v))
<1>1. /\ o \in Calls /\ DOMAIN W \subseteq Rows
      /\ \A row \in DOMAIN W : W[row] \in WritesOf(o, row)
  BY DEF CallInv, CallTypeOK
<1>2. /\ DOMAIN v = Rows
      /\ \A row \in Rows : v[row] \in ValuesOf(row)
  BY DEF TablesOK
<1> DEFINE u == Over(W, v)
<1>3. /\ \A row \in Rows : row \in DOMAIN W => u[row] = W[row]
      /\ \A row \in Rows : row \notin DOMAIN W => u[row] = v[row]
      /\ DOMAIN u = Rows
  BY <1>1, <1>2, ViewRow
<1> HIDE DEF u
<1>4. ASSUME NEW row \in Rows PROVE u[row] \in ValuesOf(row)
  <2>1. CASE row \in DOMAIN W
    <3>1. W[row] \in ValuesOf(row)
      BY <1>1, <2>1, WritesAreValues
    <3> QED BY <1>3, <2>1, <3>1
  <2>2. CASE row \notin DOMAIN W
    BY <1>2, <1>3, <2>2
  <2> QED BY <2>1, <2>2
<1> QED
  BY <1>3, <1>4 DEF TablesOK, u

LEMMA CommitKeepsOneActive ==
  ASSUME NEW o, NEW v, NEW K, NEW W, NEW G, CallInv(o, v, K, W, G),
         DOMAIN v = Rows, OneActive(v)
  PROVE  OneActive(Over(W, v))
<1>1. DOMAIN W \subseteq Rows /\ WrittenLocked(o, v, W, G) /\ InsertedAlone(v, W)
  BY DEF CallInv, CallTypeOK
<1> DEFINE u == Over(W, v)
<1>2. /\ \A row \in Rows : row \in DOMAIN W => u[row] = W[row]
      /\ \A row \in Rows : row \notin DOMAIN W => u[row] = v[row]
  BY <1>1, ViewRow
<1> HIDE DEF u
<1>3. ASSUME NEW d \in Dispatches, u[Dispatch(d)] # "none",
             u[Dispatch(d)] \notin TerminalDispatchStatuses
      PROVE  IF v[Dispatch(d)] = "none" THEN Alone(u, d)
             ELSE v[Dispatch(d)] \notin TerminalDispatchStatuses
  <2>1. CASE Dispatch(d) \in DOMAIN W
    <3>1. <<v[Dispatch(d)], W[Dispatch(d)]>> \in RunMoves
      BY <1>1, <2>1, RowFacts DEF WrittenLocked
    <3>2. v[Dispatch(d)] = "none" => Alone(u, d)
      BY <1>1, <2>1 DEF InsertedAlone, u
    <3> QED BY <3>1, <3>2, MovesOfRuns
  <2>2. CASE Dispatch(d) \notin DOMAIN W
    BY <1>2, <1>3, <2>2, RowFacts
  <2> QED BY <2>1, <2>2
<1> SUFFICES ASSUME NEW w \in Wips, NEW d \in Active(u, w), NEW e \in Active(u, w)
             PROVE  d = e
  BY DEF OneActive, u
<1>4. /\ d \in Dispatches /\ WipOf[d] = w /\ u[Dispatch(d)] # "none"
      /\ u[Dispatch(d)] \notin TerminalDispatchStatuses
      /\ e \in Dispatches /\ WipOf[e] = w /\ u[Dispatch(e)] # "none"
      /\ u[Dispatch(e)] \notin TerminalDispatchStatuses
  BY DEF Active, DispatchesOf
<1>5. CASE v[Dispatch(d)] = "none"
  BY <1>3, <1>4, <1>5 DEF Alone
<1>6. CASE v[Dispatch(e)] = "none"
  BY <1>3, <1>4, <1>6 DEF Alone
<1>7. CASE v[Dispatch(d)] # "none" /\ v[Dispatch(e)] # "none"
  <2>1. d \in Active(v, w) /\ e \in Active(v, w)
    BY <1>3, <1>4, <1>7 DEF Active, DispatchesOf
  <2> QED BY <2>1 DEF OneActive
<1> QED
  BY <1>5, <1>6, <1>7

-----------------------------------------------------------------------------
\* The programs of the handlers.

LockedFirst(L, i, row) == \E j \in 1..(i - 1) : L[j] = Lock(row)

TestedFirst(L, i, test, row) ==
  \E k \in 1..(i - 1) : L[k] = test /\ LockedFirst(L, k, row)

LEMMA Starts ==
  ASSUME NEW c \in Calls, NEW v, NEW L \in Seq(StatementsOf(c)),
         L[Len(L)] = Commit,
         \A i \in 1..Len(L) : \A row \in NeedsLock(c, L[i]) : LockedFirst(L, i, row),
         c.op = "start" => \A i \in 1..Len(L) :
            L[i] = Set(Dispatch(c.on), "running") =>
                TestedFirst(L, i, Check("startable", c.on), Dispatch(c.on)),
         c.op = "create_dispatch" => \A i \in 1..Len(L) :
            L[i].do = "dispatch" =>
                TestedFirst(L, i, Check("alldone", WipOf[c.on]), Wip(WipOf[c.on])),
         c.op = "redispatch" => \A i \in 1..Len(L) :
            L[i].do = "setif" =>
                TestedFirst(L, i, Move(Dispatch(c.on), "redispatch"),
                            Wip(WipOf[c.new])),
         c.op = "add_samples" => \A i \in 1..Len(L) :
            L[i].do = "validate" =>
                TestedFirst(L, i, Check("open", c.on), Wip(c.on)),
         c.op = "create_wip" => v[Wip(c.on)] = "none"
  PROVE  CallInv(c, v, L, <<>>, {})
<1>0. DOMAIN <<>> = {}
  OBVIOUS
<1>1. CallTypeOK(c, L, <<>>, {})
  BY <1>0 DEF CallTypeOK
<1>2. \A i, row : LockedFirst(L, i, row) => Locked(L, {}, i, row)
  BY DEF LockedFirst, Locked
<1>3. \A i, test, row : TestedFirst(L, i, test, row) => Ahead(L, {}, i, test, row)
  BY <1>2 DEF TestedFirst, Ahead
<1>4. ListLocked(c, L, {})
  BY <1>2 DEF ListLocked
<1>5. StartTested(c, v, L, {})
  BY <1>3 DEF StartTested, Tested
<1>6. InsertTested(c, v, L, <<>>, {})
  BY <1>3 DEF InsertTested, Tested
<1>7. ReplaceTested(c, v, L, <<>>, {})
  BY <1>3 DEF ReplaceTested, Tested
<1>8. JoinTested(c, v, L, {})
  BY <1>3 DEF JoinTested, Tested
<1>9. NewWip(c, v, L)
  BY DEF NewWip
<1>10. WrittenLocked(c, v, <<>>, {}) /\ InsertedAlone(v, <<>>) /\ EndsInCommit(L)
  BY <1>0 DEF WrittenLocked, InsertedAlone, EndsInCommit
<1> QED
  BY <1>1, <1>4, <1>5, <1>6, <1>7, <1>8, <1>9, <1>10 DEF CallInv

LEMMA StatementIn ==
  ASSUME NEW c \in Calls
  PROVE  /\ Commit \in StatementsOf(c)
         /\ \A row \in Rows \cup {Type(t) : t \in Types} :
                Lock(row) \in StatementsOf(c) /\ Refer(row) \in StatementsOf(c)
BY DEF StatementsOf, Locks, Modes, Lock, Refer

LEMMA CallsOn ==
  ASSUME NEW c \in Calls
  PROVE  /\ c.op \in {"submit", "approve", "cancel", "ship", "delete_draft"}
                => c.on \in Requests
         /\ c.op \in {"receive", "void", "return"} =>
                c.on \in Samples /\ Owner[c.on] \in Requests
         /\ c.op \in {"create_wip", "add_samples"} =>
                /\ c.on \in Wips /\ c.samples \subseteq Samples
                /\ TypeOf[c.on] \in Types
         /\ c.op \in {"complete_wip", "abort_wip"} => c.on \in Wips
         /\ c.op \in RunOps \cup {"redispatch"} =>
                /\ c.on \in Dispatches /\ WipOf[c.on] \in Wips
                /\ TypeOf[WipOf[c.on]] \in Types
         /\ c.op = "redispatch" => c.new \in Dispatches /\ WipOf[c.new] = WipOf[c.on]
BY TablesAssumption DEF Calls, RunOps

LEMMA StartsRequestAction ==
  ASSUME NEW c \in Calls, c.op \in {"submit", "approve", "cancel"}, NEW v
  PROVE  CallInv(c, v, Program(c), <<>>, {})
<1> DEFINE L == Program(c)
<1>1. c.on \in Requests /\ Request(c.on) \in Rows
  BY CallsOn, RowFacts
<1>2. L = <<Lock(Request(c.on)), Move(Request(c.on), c.op), Commit>>
  BY DEF Program, RequestAction
<1>3. Move(Request(c.on), c.op) \in StatementsOf(c)
  BY DEF StatementsOf, Moves
<1>4. L \in Seq(StatementsOf(c)) /\ Len(L) = 3
  BY <1>1, <1>2, <1>3, StatementIn
<1>5. /\ L[1] = Lock(Request(c.on)) /\ L[2] = Move(Request(c.on), c.op)
      /\ L[3] = Commit
  BY <1>2
<1> HIDE DEF L
<1>6. \A i \in 1..Len(L) : \A row \in NeedsLock(c, L[i]) : LockedFirst(L, i, row)
  BY <1>4, <1>5 DEF NeedsLock, Lock, Move, Commit, LockedFirst
<1> QED
  BY <1>4, <1>5, <1>6, Starts DEF L

LEMMA StartsShip ==
  ASSUME NEW c \in Calls, c.op = "ship", NEW v
  PROVE  CallInv(c, v, Program(c), <<>>, {})
<1> DEFINE L == Program(c)
<1>1. c.on \in Requests /\ Request(c.on) \in Rows
  BY CallsOn, RowFacts
<1>2. L = <<Lock(Request(c.on)), Move(Request(c.on), "ship"),
            Check("shipsamples", c.on), Commit>>
  BY DEF Program, ShipRequest
<1>3. /\ Move(Request(c.on), "ship") \in StatementsOf(c)
      /\ Check("shipsamples", c.on) \in StatementsOf(c)
  BY <1>1 DEF StatementsOf, Moves, Sets, SetIfs, Checks, SamplesOf
<1>4. L \in Seq(StatementsOf(c)) /\ Len(L) = 4
  BY <1>1, <1>2, <1>3, StatementIn
<1>5. /\ L[1] = Lock(Request(c.on))
      /\ L[2] = Move(Request(c.on), "ship")
      /\ L[3] = Check("shipsamples", c.on)
      /\ L[4] = Commit
  BY <1>2
<1> HIDE DEF L
<1>6. \A i \in 1..Len(L) : \A row \in NeedsLock(c, L[i]) : LockedFirst(L, i, row)
  BY <1>4, <1>5 DEF NeedsLock, Lock, Move, Check, Commit, LockedFirst
<1> QED
  BY <1>4, <1>5, <1>6, Starts DEF L

LEMMA StartsDelete ==
  ASSUME NEW c \in Calls, c.op = "delete_draft", NEW v
  PROVE  CallInv(c, v, Program(c), <<>>, {})
<1> DEFINE L == Program(c)
<1>1. /\ c.on \in Requests /\ Request(c.on) \in Rows
      /\ Request(c.on)[1] = "request"
  BY CallsOn, RowFacts
<1>2. L = <<Check("draft", c.on), Check("deletesamples", c.on),
            Lock(Request(c.on)), Set(Request(c.on), "none"), Commit>>
  BY DEF Program, DeleteDraft
<1>3. /\ Check("draft", c.on) \in StatementsOf(c)
      /\ Check("deletesamples", c.on) \in StatementsOf(c)
      /\ Set(Request(c.on), "none") \in StatementsOf(c)
  BY <1>1 DEF StatementsOf, Moves, Sets, SetIfs, Checks, SamplesOf
<1>4. L \in Seq(StatementsOf(c)) /\ Len(L) = 5
  BY <1>1, <1>2, <1>3, StatementIn
<1>5. /\ L[1] = Check("draft", c.on)
      /\ L[2] = Check("deletesamples", c.on)
      /\ L[3] = Lock(Request(c.on))
      /\ L[4] = Set(Request(c.on), "none")
      /\ L[5] = Commit
  BY <1>2
<1> HIDE DEF L
<1>6. \A i \in 1..Len(L) : \A row \in NeedsLock(c, L[i]) : LockedFirst(L, i, row)
  BY <1>1, <1>4, <1>5 DEF NeedsLock, Lock, Set, Check, Commit, LockedFirst
<1> QED
  BY <1>4, <1>5, <1>6, Starts DEF L

LEMMA StartsReceive ==
  ASSUME NEW c \in Calls, c.op = "receive", NEW v
  PROVE  CallInv(c, v, Program(c), <<>>, {})
<1> DEFINE L == Program(c)
<1>1. /\ c.on \in Samples /\ Owner[c.on] \in Requests
      /\ Sample(c.on) \in Rows /\ Request(Owner[c.on]) \in Rows
  BY CallsOn, RowFacts
<1>2. L = <<Lock(Sample(c.on)), Move(Sample(c.on), "receive"),
            Lock(Request(Owner[c.on])), Check("received", Owner[c.on]), Commit>>
  BY DEF Program, ReceiveSample
<1>3. /\ Move(Sample(c.on), "receive") \in StatementsOf(c)
      /\ Check("received", Owner[c.on]) \in StatementsOf(c)
  BY <1>1 DEF StatementsOf, Moves, Sets, SetIfs, Checks, SamplesOf
<1>4. L \in Seq(StatementsOf(c)) /\ Len(L) = 5
  BY <1>1, <1>2, <1>3, StatementIn
<1>5. /\ L[1] = Lock(Sample(c.on))
      /\ L[2] = Move(Sample(c.on), "receive")
      /\ L[3] = Lock(Request(Owner[c.on]))
      /\ L[4] = Check("received", Owner[c.on])
      /\ L[5] = Commit
  BY <1>2
<1> HIDE DEF L
<1>6. \A i \in 1..Len(L) : \A row \in NeedsLock(c, L[i]) : LockedFirst(L, i, row)
  BY <1>4, <1>5 DEF NeedsLock, Lock, Move, Check, Commit, LockedFirst
<1> QED
  BY <1>4, <1>5, <1>6, Starts DEF L

LEMMA StartsSettle ==
  ASSUME NEW c \in Calls, c.op \in {"void", "return"}, NEW v
  PROVE  CallInv(c, v, Program(c), <<>>, {})
<1> DEFINE L == Program(c)
<1>1. /\ c.on \in Samples /\ Owner[c.on] \in Requests
      /\ Sample(c.on) \in Rows /\ Request(Owner[c.on]) \in Rows
  BY CallsOn, RowFacts
<1>2. L = <<Lock(Sample(c.on)), Move(Sample(c.on), c.op),
            Lock(Request(Owner[c.on])), Check("received", Owner[c.on]),
            Check("completed", Owner[c.on]), Commit>>
  BY DEF Program, SettleSample
<1>3. /\ Move(Sample(c.on), c.op) \in StatementsOf(c)
      /\ Check("received", Owner[c.on]) \in StatementsOf(c)
      /\ Check("completed", Owner[c.on]) \in StatementsOf(c)
  BY <1>1 DEF StatementsOf, Moves, Sets, SetIfs, Checks, SamplesOf
<1>4. L \in Seq(StatementsOf(c)) /\ Len(L) = 6
  BY <1>1, <1>2, <1>3, StatementIn
<1>5. /\ L[1] = Lock(Sample(c.on))
      /\ L[2] = Move(Sample(c.on), c.op)
      /\ L[3] = Lock(Request(Owner[c.on]))
      /\ L[4] = Check("received", Owner[c.on])
      /\ L[5] = Check("completed", Owner[c.on])
      /\ L[6] = Commit
  BY <1>2
<1> HIDE DEF L
<1>6. \A i \in 1..Len(L) : \A row \in NeedsLock(c, L[i]) : LockedFirst(L, i, row)
  BY <1>4, <1>5 DEF NeedsLock, Lock, Move, Check, Commit, LockedFirst
<1> QED
  BY <1>4, <1>5, <1>6, Starts DEF L

LEMMA StartsCreateWip ==
  ASSUME NEW c \in Calls, c.op = "create_wip", NEW v, v[Wip(c.on)] = "none"
  PROVE  CallInv(c, v, Program(c), <<>>, {})
<1> DEFINE L == Program(c)
<1>1. c.on \in Wips
  BY CallsOn, RowFacts
<1>2. L = <<[do |-> "validate", on |-> c.on, samples |-> c.samples], Commit>>
  BY DEF Program, CreateWip
<1>3. [do |-> "validate", on |-> c.on, samples |-> c.samples] \in StatementsOf(c)
  BY <1>1 DEF StatementsOf, Moves, Sets, SetIfs, Checks, SamplesOf
<1>4. L \in Seq(StatementsOf(c)) /\ Len(L) = 2
  BY <1>1, <1>2, <1>3, StatementIn
<1>5. /\ L[1] = [do |-> "validate", on |-> c.on, samples |-> c.samples]
      /\ L[2] = Commit
  BY <1>2
<1> HIDE DEF L
<1>6. \A i \in 1..Len(L) : \A row \in NeedsLock(c, L[i]) : LockedFirst(L, i, row)
  BY <1>4, <1>5 DEF NeedsLock, Commit, LockedFirst
<1> QED
  BY <1>4, <1>5, <1>6, Starts DEF L

LEMMA StartsAddSamples ==
  ASSUME NEW c \in Calls, c.op = "add_samples", NEW v
  PROVE  CallInv(c, v, Program(c), <<>>, {})
<1> DEFINE L == Program(c)
<1>1. /\ c.on \in Wips /\ TypeOf[c.on] \in Types /\ Wip(c.on) \in Rows
  BY CallsOn, RowFacts
<1>2. L = <<Lock(Wip(c.on)), Lock(Type(TypeOf[c.on])), Check("open", c.on),
            [do |-> "validate", on |-> c.on, samples |-> c.samples], Commit>>
  BY DEF Program, AddSamples
<1>3. /\ Check("open", c.on) \in StatementsOf(c)
      /\ [do |-> "validate", on |-> c.on, samples |-> c.samples] \in StatementsOf(c)
  BY <1>1 DEF StatementsOf, Moves, Sets, SetIfs, Checks, SamplesOf
<1>4. L \in Seq(StatementsOf(c)) /\ Len(L) = 5
  BY <1>1, <1>2, <1>3, StatementIn
<1>5. /\ L[1] = Lock(Wip(c.on))
      /\ L[2] = Lock(Type(TypeOf[c.on]))
      /\ L[3] = Check("open", c.on)
      /\ L[4] = [do |-> "validate", on |-> c.on, samples |-> c.samples]
      /\ L[5] = Commit
  BY <1>2
<1> HIDE DEF L
<1>6. \A i \in 1..Len(L) : \A row \in NeedsLock(c, L[i]) : LockedFirst(L, i, row)
  BY <1>4, <1>5 DEF NeedsLock, Lock, Check, Commit, LockedFirst
<1>7. \A i \in 1..Len(L) : L[i].do = "validate" =>
        TestedFirst(L, i, Check("open", c.on), Wip(c.on))
  BY <1>4, <1>5 DEF Lock, Check, Commit, LockedFirst, TestedFirst
<1> QED
  BY <1>4, <1>5, <1>6, <1>7, Starts DEF L

LEMMA StartsCreateDispatch ==
  ASSUME NEW c \in Calls, c.op = "create_dispatch", NEW v
  PROVE  CallInv(c, v, Program(c), <<>>, {})
<1> DEFINE L == Program(c)
<1>1. /\ c.on \in Dispatches /\ WipOf[c.on] \in Wips
      /\ TypeOf[WipOf[c.on]] \in Types
      /\ Wip(WipOf[c.on]) \in Rows /\ Dispatch(c.on) \in Rows
  BY CallsOn, RowFacts DEF RunOps
<1>2. L = <<Lock(Wip(WipOf[c.on])), Lock(Type(TypeOf[WipOf[c.on]])),
            Check("alldone", WipOf[c.on]),
            [do |-> "dispatch", on |-> WipOf[c.on], new |-> c.on], Commit>>
  BY DEF Program, CreateDispatch
<1>3. /\ Check("alldone", WipOf[c.on]) \in StatementsOf(c)
      /\ [do |-> "dispatch", on |-> WipOf[c.on], new |-> c.on] \in StatementsOf(c)
  BY <1>1 DEF StatementsOf, Moves, Sets, SetIfs, Checks, SamplesOf
<1>4. L \in Seq(StatementsOf(c)) /\ Len(L) = 5
  BY <1>1, <1>2, <1>3, StatementIn
<1>5. /\ L[1] = Lock(Wip(WipOf[c.on]))
      /\ L[2] = Lock(Type(TypeOf[WipOf[c.on]]))
      /\ L[3] = Check("alldone", WipOf[c.on])
      /\ L[4] = [do |-> "dispatch", on |-> WipOf[c.on], new |-> c.on]
      /\ L[5] = Commit
  BY <1>2
<1> HIDE DEF L
<1>6. \A i \in 1..Len(L) : \A row \in NeedsLock(c, L[i]) : LockedFirst(L, i, row)
  BY <1>4, <1>5 DEF NeedsLock, Lock, Check, Commit, LockedFirst
<1>7. \A i \in 1..Len(L) : L[i].do = "dispatch" =>
        TestedFirst(L, i, Check("alldone", WipOf[c.on]), Wip(WipOf[c.on]))
  BY <1>4, <1>5 DEF Lock, Check, Commit, LockedFirst, TestedFirst
<1> QED
  BY <1>4, <1>5, <1>6, <1>7, Starts DEF L

LEMMA StartsCompleteWip ==
  ASSUME NEW c \in Calls, c.op = "complete_wip", NEW v
  PROVE  CallInv(c, v, Program(c), <<>>, {})
<1> DEFINE L == Program(c)
<1>1. c.on \in Wips /\ Wip(c.on) \in Rows
  BY CallsOn, RowFacts
<1>2. L = <<Lock(Wip(c.on)), Check("alldone", c.on),
            Move(Wip(c.on), "complete"), Check("cascade", c.on), Commit>>
  BY DEF Program, CompleteWip
<1>3. /\ Check("alldone", c.on) \in StatementsOf(c)
      /\ Move(Wip(c.on), "complete") \in StatementsOf(c)
      /\ Check("cascade", c.on) \in StatementsOf(c)
  BY <1>1 DEF StatementsOf, Moves, Sets, SetIfs, Checks, SamplesOf
<1>4. L \in Seq(StatementsOf(c)) /\ Len(L) = 5
  BY <1>1, <1>2, <1>3, StatementIn
<1>5. /\ L[1] = Lock(Wip(c.on))
      /\ L[2] = Check("alldone", c.on)
      /\ L[3] = Move(Wip(c.on), "complete")
      /\ L[4] = Check("cascade", c.on)
      /\ L[5] = Commit
  BY <1>2
<1> HIDE DEF L
<1>6. \A i \in 1..Len(L) : \A row \in NeedsLock(c, L[i]) : LockedFirst(L, i, row)
  BY <1>4, <1>5, SMTT(30) DEF NeedsLock, Lock, Move, Check, Commit, LockedFirst
<1> QED
  BY <1>4, <1>5, <1>6, Starts DEF L

LEMMA StartsAbortWip ==
  ASSUME NEW c \in Calls, c.op = "abort_wip", NEW v
  PROVE  CallInv(c, v, Program(c), <<>>, {})
<1> DEFINE L == Program(c)
<1>1. c.on \in Wips /\ Wip(c.on) \in Rows
  BY CallsOn, RowFacts
<1>2. L = <<Lock(Wip(c.on)), Move(Wip(c.on), "abort"), Check("except", c.on),
            Commit>>
  BY DEF Program, AbortWip
<1>3. /\ Move(Wip(c.on), "abort") \in StatementsOf(c)
      /\ Check("except", c.on) \in StatementsOf(c)
  BY <1>1 DEF StatementsOf, Moves, Sets, SetIfs, Checks, SamplesOf
<1>4. L \in Seq(StatementsOf(c)) /\ Len(L) = 4
  BY <1>1, <1>2, <1>3, StatementIn
<1>5. /\ L[1] = Lock(Wip(c.on))
      /\ L[2] = Move(Wip(c.on), "abort")
      /\ L[3] = Check("except", c.on)
      /\ L[4] = Commit
  BY <1>2
<1> HIDE DEF L
<1>6. \A i \in 1..Len(L) : \A row \in NeedsLock(c, L[i]) : LockedFirst(L, i, row)
  BY <1>4, <1>5 DEF NeedsLock, Lock, Move, Check, Commit, LockedFirst
<1> QED
  BY <1>4, <1>5, <1>6, Starts DEF L

LEMMA StartsStart ==
  ASSUME NEW c \in Calls, c.op = "start", NEW v
  PROVE  CallInv(c, v, Program(c), <<>>, {})
<1> DEFINE L == Program(c)
<1>1. /\ c.on \in Dispatches /\ WipOf[c.on] \in Wips
      /\ TypeOf[WipOf[c.on]] \in Types
      /\ Wip(WipOf[c.on]) \in Rows /\ Dispatch(c.on) \in Rows
  BY CallsOn, RowFacts DEF RunOps
<1>2. L = <<Lock(Dispatch(c.on)), Check("startable", c.on),
            Set(Dispatch(c.on), "running"), Commit>>
  BY DEF Program, StartDispatch
<1>3. /\ Check("startable", c.on) \in StatementsOf(c)
      /\ Set(Dispatch(c.on), "running") \in StatementsOf(c)
  BY <1>1 DEF StatementsOf, Moves, Sets, SetIfs, Checks, SamplesOf
<1>4. L \in Seq(StatementsOf(c)) /\ Len(L) = 4
  BY <1>1, <1>2, <1>3, StatementIn
<1>5. /\ L[1] = Lock(Dispatch(c.on))
      /\ L[2] = Check("startable", c.on)
      /\ L[3] = Set(Dispatch(c.on), "running")
      /\ L[4] = Commit
  BY <1>2
<1> HIDE DEF L
<1>6. \A i \in 1..Len(L) : \A row \in NeedsLock(c, L[i]) : LockedFirst(L, i, row)
  BY <1>4, <1>5 DEF NeedsLock, Lock, Set, Check, Commit, Dispatch, LockedFirst
<1>7. \A i \in 1..Len(L) : L[i] = Set(Dispatch(c.on), "running") =>
        TestedFirst(L, i, Check("startable", c.on), Dispatch(c.on))
  BY <1>4, <1>5, SMTT(30) DEF Lock, Set, Check, Commit, Dispatch, LockedFirst, TestedFirst
<1> QED
  BY <1>4, <1>5, <1>6, <1>7, Starts DEF L

LEMMA StartsReport ==
  ASSUME NEW c \in Calls, c.op = "report_exception", NEW v
  PROVE  CallInv(c, v, Program(c), <<>>, {})
<1> DEFINE L == Program(c)
<1>1. /\ c.on \in Dispatches /\ WipOf[c.on] \in Wips
      /\ TypeOf[WipOf[c.on]] \in Types
      /\ Wip(WipOf[c.on]) \in Rows /\ Dispatch(c.on) \in Rows
  BY CallsOn, RowFacts DEF RunOps
<1>2. L = <<Lock(Dispatch(c.on)), Move(Dispatch(c.on), "report_exception"),
            Commit>>
  BY DEF Program, ReportException
<1>3. Move(Dispatch(c.on), "report_exception") \in StatementsOf(c)
  BY <1>1 DEF StatementsOf, Moves, Sets, SetIfs, Checks, SamplesOf
<1>4. L \in Seq(StatementsOf(c)) /\ Len(L) = 3
  BY <1>1, <1>2, <1>3, StatementIn
<1>5. /\ L[1] = Lock(Dispatch(c.on))
      /\ L[2] = Move(Dispatch(c.on), "report_exception")
      /\ L[3] = Commit
  BY <1>2
<1> HIDE DEF L
<1>6. \A i \in 1..Len(L) : \A row \in NeedsLock(c, L[i]) : LockedFirst(L, i, row)
  BY <1>4, <1>5 DEF NeedsLock, Lock, Move, Commit, LockedFirst
<1> QED
  BY <1>4, <1>5, <1>6, Starts DEF L

LEMMA StartsRedispatch ==
  ASSUME NEW c \in Calls, c.op = "redispatch", NEW v
  PROVE  CallInv(c, v, Program(c), <<>>, {})
<1> DEFINE L == Program(c)
<1>1. /\ c.on \in Dispatches /\ WipOf[c.on] \in Wips
      /\ TypeOf[WipOf[c.on]] \in Types
      /\ Wip(WipOf[c.on]) \in Rows /\ Dispatch(c.on) \in Rows
      /\ WipOf[c.new] = WipOf[c.on] /\ Dispatch(c.new)[1] = "dispatch"
  BY CallsOn, RowFacts DEF RunOps
<1>2. L = <<Lock(Dispatch(c.on)), Lock(Wip(WipOf[c.on])),
            Move(Dispatch(c.on), "redispatch"),
            Refer(Type(TypeOf[WipOf[c.on]])),
            SetIf(Dispatch(c.new), "none", "pending"), Commit>>
  BY DEF Program, Redispatch
<1>3. /\ Move(Dispatch(c.on), "redispatch") \in StatementsOf(c)
      /\ SetIf(Dispatch(c.new), "none", "pending") \in StatementsOf(c)
  BY <1>1 DEF StatementsOf, Moves, Sets, SetIfs, Checks, SamplesOf
<1>4. L \in Seq(StatementsOf(c)) /\ Len(L) = 6
  BY <1>1, <1>2, <1>3, StatementIn
<1>5. /\ L[1] = Lock(Dispatch(c.on))
      /\ L[2] = Lock(Wip(WipOf[c.on]))
      /\ L[3] = Move(Dispatch(c.on), "redispatch")
      /\ L[4] = Refer(Type(TypeOf[WipOf[c.on]]))
      /\ L[5] = SetIf(Dispatch(c.new), "none", "pending")
      /\ L[6] = Commit
  BY <1>2
<1> HIDE DEF L
<1>6. \A i \in 1..Len(L) : \A row \in NeedsLock(c, L[i]) : LockedFirst(L, i, row)
  <2>1. /\ NeedsLock(c, L[1]) = {} /\ NeedsLock(c, L[2]) = {}
        /\ NeedsLock(c, L[4]) = {} /\ NeedsLock(c, L[6]) = {}
    BY <1>5 DEF NeedsLock, Lock, Refer, Commit
  <2>2. NeedsLock(c, L[3]) = {Dispatch(c.on)}
    BY <1>5 DEF NeedsLock, Move
  <2>3. NeedsLock(c, L[5]) = {Wip(WipOf[c.on])}
    BY <1>1, <1>5 DEF NeedsLock, SetIf
  <2>4. LockedFirst(L, 3, Dispatch(c.on)) /\ LockedFirst(L, 5, Wip(WipOf[c.on]))
    BY <1>4, <1>5 DEF LockedFirst
  <2>5. \A i \in 1..Len(L) : i \in {1, 2, 3, 4, 5, 6}
    BY <1>4
  <2> QED BY <2>1, <2>2, <2>3, <2>4, <2>5
<1>7. \A i \in 1..Len(L) : L[i].do = "setif" =>
        TestedFirst(L, i, Move(Dispatch(c.on), "redispatch"), Wip(WipOf[c.new]))
  <2>1. \A i \in 1..Len(L) : L[i].do = "setif" => i = 5
    BY <1>4, <1>5 DEF Lock, Move, Refer, Commit
  <2>2. LockedFirst(L, 3, Wip(WipOf[c.new])) /\ 3 \in 1..(5 - 1)
    BY <1>1, <1>4, <1>5 DEF LockedFirst
  <2>3. TestedFirst(L, 5, Move(Dispatch(c.on), "redispatch"), Wip(WipOf[c.new]))
    BY <1>5, <2>2 DEF TestedFirst
  <2> QED BY <2>1, <2>3
<1> QED
  BY <1>4, <1>5, <1>6, <1>7, Starts DEF L

LEMMA StartsAbortDispatch ==
  ASSUME NEW c \in Calls, c.op = "abort_dispatch", NEW v
  PROVE  CallInv(c, v, Program(c), <<>>, {})
<1> DEFINE L == Program(c)
<1>1. /\ c.on \in Dispatches /\ WipOf[c.on] \in Wips
      /\ TypeOf[WipOf[c.on]] \in Types
      /\ Wip(WipOf[c.on]) \in Rows /\ Dispatch(c.on) \in Rows
  BY CallsOn, RowFacts DEF RunOps
<1>2. L = <<Lock(Dispatch(c.on)), Move(Dispatch(c.on), "abort"),
            Lock(Wip(WipOf[c.on])), Check("autocomplete", WipOf[c.on]), Commit>>
  BY DEF Program, AbortDispatch
<1>3. /\ Move(Dispatch(c.on), "abort") \in StatementsOf(c)
      /\ Check("autocomplete", WipOf[c.on]) \in StatementsOf(c)
  BY <1>1 DEF StatementsOf, Moves, Sets, SetIfs, Checks, SamplesOf
<1>4. L \in Seq(StatementsOf(c)) /\ Len(L) = 5
  BY <1>1, <1>2, <1>3, StatementIn
<1>5. /\ L[1] = Lock(Dispatch(c.on))
      /\ L[2] = Move(Dispatch(c.on), "abort")
      /\ L[3] = Lock(Wip(WipOf[c.on]))
      /\ L[4] = Check("autocomplete", WipOf[c.on])
      /\ L[5] = Commit
  BY <1>2
<1> HIDE DEF L
<1>6. \A i \in 1..Len(L) : \A row \in NeedsLock(c, L[i]) : LockedFirst(L, i, row)
  BY <1>4, <1>5 DEF NeedsLock, Lock, Move, Check, Commit, LockedFirst
<1> QED
  BY <1>4, <1>5, <1>6, Starts DEF L

\* A program may be made of parts: a part needs the locks that it takes itself
\* or that a part before it takes.
Takes(L, row) == \E j \in 1..Len(L) : L[j] = Lock(row)

WellLocked(c, L) ==
  \A i \in 1..Len(L) : \A row \in NeedsLock(c, L[i]) : LockedFirst(L, i, row)

LEMMA ConcatLocked ==
  ASSUME NEW c, NEW S, NEW a \in Seq(S), NEW b \in Seq(S), WellLocked(c, a),
         \A i \in 1..Len(b) : \A row \in NeedsLock(c, b[i]) :
            LockedFirst(b, i, row) \/ Takes(a, row)
  PROVE  /\ a \o b \in Seq(S) /\ WellLocked(c, a \o b)
         /\ \A row : Takes(a, row) \/ Takes(b, row) => Takes(a \o b, row)
<1> DEFINE N == a \o b
<1>1. N \in Seq(S) /\ Len(N) = Len(a) + Len(b)
  OBVIOUS
<1>2. \A i \in 1..Len(a) : N[i] = a[i] /\ i \in 1..Len(N)
  OBVIOUS
<1>3. \A i \in 1..Len(b) : N[Len(a) + i] = b[i] /\ Len(a) + i \in 1..Len(N)
  OBVIOUS
<1>4. \A i \in 1..Len(N) : i \in 1..Len(a) \/ i - Len(a) \in 1..Len(b)
  OBVIOUS
<1>n. Len(a) \in Nat /\ Len(b) \in Nat
  OBVIOUS
<1> HIDE DEF N
<1>5. ASSUME NEW row, Takes(a, row) \/ Takes(b, row) PROVE Takes(N, row)
  BY <1>2, <1>3, <1>5 DEF Takes
<1>6. ASSUME NEW i \in 1..Len(N), NEW row \in NeedsLock(c, N[i])
      PROVE  LockedFirst(N, i, row)
  <2>1. CASE i \in 1..Len(a)
    <3>1. PICK j \in 1..(i - 1) : a[j] = Lock(row)
      BY <1>2, <1>6, <2>1 DEF WellLocked, LockedFirst
    <3>2. j \in 1..Len(a)
      BY <2>1, <3>1
    <3> QED BY <1>2, <3>1, <3>2 DEF LockedFirst
  <2>2. CASE i - Len(a) \in 1..Len(b)
    <3> DEFINE k == i - Len(a)
    <3>1. k \in 1..Len(b) /\ i = Len(a) + k /\ N[i] = b[k]
      <4>1. Len(a) + k = i BY <1>n
      <4> QED BY <4>1, <2>2, <1>3
    <3> HIDE DEF k
    <3>2. CASE LockedFirst(b, k, row)
      <4>1. PICK j \in 1..(k - 1) : b[j] = Lock(row)
        BY <3>2 DEF LockedFirst
      <4>2. Len(a) + j \in 1..(i - 1) /\ N[Len(a) + j] = Lock(row)
        BY <4>1, <3>1, <1>3, <1>n
      <4> QED BY <4>2 DEF LockedFirst
    <3>3. CASE Takes(a, row)
      <4>1. PICK j \in 1..Len(a) : a[j] = Lock(row)
        BY <3>3 DEF Takes
      <4>2. j \in 1..(i - 1) /\ N[j] = Lock(row)
        BY <4>1, <3>1, <1>2, <1>n
      <4> QED BY <4>2 DEF LockedFirst
    <3> QED BY <3>1, <3>2, <3>3, <1>6
  <2> QED BY <2>1, <2>2, <1>4
<1> QED BY <1>1, <1>5, <1>6 DEF WellLocked, N

\* The parts of the programs that end a run.
LEMMA RunParts ==
  ASSUME NEW c \in Calls, NEW d \in Dispatches, c.on = d,
         c.op \in {"unload", "record_result", "equipment_result", "finalize"}
  PROVE  LET S == StatementsOf(c) IN
         /\ LockRun(d) \in Seq(S) /\ WellLocked(c, LockRun(d))
         /\ Takes(LockRun(d), Dispatch(d)) /\ Takes(LockRun(d), Wip(WipOf[d]))
         /\ c.op # "record_result" => Unload(d) \in Seq(S)
         /\ c.op # "unload" => Record(d) \in Seq(S)
         /\ c.op = "finalize" =>
                <<Check("running", d)>> \in Seq(S)
         /\ <<Commit>> \in Seq(S)
         /\ \A i \in 1..Len(Unload(d)) : \A row \in NeedsLock(c, Unload(d)[i]) :
                row \in {Dispatch(d), Wip(WipOf[d])}
         /\ \A i \in 1..Len(Record(d)) : \A row \in NeedsLock(c, Record(d)[i]) :
                row \in {Dispatch(d), Wip(WipOf[d])}
         /\ \A i \in 1..Len(<<Commit>>) : NeedsLock(c, <<Commit>>[i]) = {}
         /\ \A i \in 1..Len(<<Check("running", d)>>) :
                NeedsLock(c, <<Check("running", d)>>[i]) = {}
<1> DEFINE S == StatementsOf(c)
           A == LockRun(d)
           U == Unload(d)
           R == Record(d)
<1>1. /\ Dispatch(d) \in Rows /\ WipOf[d] \in Wips /\ Wip(WipOf[d]) \in Rows
      /\ TypeOf[WipOf[d]] \in Types
  BY TablesAssumption, RowFacts
<1>2. A = <<Lock(Dispatch(d)), Lock(Wip(WipOf[d])), Lock(Type(TypeOf[WipOf[d]]))>>
  BY DEF LockRun
<1>3. /\ A \in Seq(S) /\ Len(A) = 3
      /\ A[1] = Lock(Dispatch(d)) /\ A[2] = Lock(Wip(WipOf[d]))
      /\ A[3] = Lock(Type(TypeOf[WipOf[d]]))
  BY <1>1, <1>2, StatementIn
<1>4. U = <<Move(Dispatch(d), "unload"), Check("roll", d)>>
  BY DEF Unload
<1>5. /\ c.op # "record_result" => U \in Seq(S)
      /\ Len(U) = 2
      /\ U[1] = Move(Dispatch(d), "unload") /\ U[2] = Check("roll", d)
  <2>1. c.op # "record_result" =>
            Move(Dispatch(d), "unload") \in S /\ Check("roll", d) \in S
    BY DEF StatementsOf, Moves, Checks
  <2> QED BY <1>4, <2>1
<1>6. R = <<Move(Dispatch(d), "record_result"), Lock(Wip(WipOf[d])),
            Check("autocomplete", WipOf[d])>>
  BY DEF Record
<1>7. /\ c.op # "unload" => R \in Seq(S)
      /\ Len(R) = 3
      /\ R[1] = Move(Dispatch(d), "record_result") /\ R[2] = Lock(Wip(WipOf[d]))
      /\ R[3] = Check("autocomplete", WipOf[d])
  <2>1. c.op # "unload" => /\ Move(Dispatch(d), "record_result") \in S
                           /\ Check("autocomplete", WipOf[d]) \in S
    BY DEF StatementsOf, Moves, Checks
  <2>2. Lock(Wip(WipOf[d])) \in S
    BY <1>1, StatementIn
  <2> QED BY <1>6, <2>1, <2>2
<1>8. /\ <<Commit>> \in Seq(S) /\ Len(<<Commit>>) = 1 /\ <<Commit>>[1] = Commit
  BY StatementIn
<1>9. /\ c.op = "finalize" => <<Check("running", d)>> \in Seq(S)
      /\ Len(<<Check("running", d)>>) = 1
      /\ <<Check("running", d)>>[1] = Check("running", d)
  <2>1. c.op = "finalize" => Check("running", d) \in S
    BY DEF StatementsOf, Checks
  <2> QED BY <2>1
<1> HIDE DEF A, U, R, S
<1>10. WellLocked(c, A)
  BY <1>3 DEF WellLocked, NeedsLock, Lock
<1>11. Takes(A, Dispatch(d)) /\ Takes(A, Wip(WipOf[d]))
  BY <1>3 DEF Takes
<1>12. \A i \in 1..Len(U) : \A row \in NeedsLock(c, U[i]) :
                row \in {Dispatch(d), Wip(WipOf[d])}
  BY <1>5 DEF NeedsLock, Move, Check
<1>13. \A i \in 1..Len(R) : \A row \in NeedsLock(c, R[i]) :
                row \in {Dispatch(d), Wip(WipOf[d])}
  BY <1>7 DEF NeedsLock, Move, Check, Lock
<1>14. NeedsLock(c, Commit) = {} /\ NeedsLock(c, Check("running", d)) = {}
  BY DEF NeedsLock, Commit, Check
<1> QED
  BY <1>3, <1>5, <1>7, <1>8, <1>9, <1>10, <1>11, <1>12, <1>13, <1>14
  DEF A, U, R, S

LEMMA StartsRun ==
  ASSUME NEW c \in Calls, NEW v,
         c.op \in {"unload", "record_result", "equipment_result", "finalize"}
  PROVE  CallInv(c, v, Program(c), <<>>, {})
<1> DEFINE d == c.on
           S == StatementsOf(c)
           A == LockRun(d)
           U == Unload(d)
           R == Record(d)
           C == <<Commit>>
           K == <<Check("running", d)>>
           rows == {Dispatch(d), Wip(WipOf[d])}
<1>1. d \in Dispatches
  BY CallsOn DEF RunOps
<1>2. /\ A \in Seq(S) /\ WellLocked(c, A) /\ \A row \in rows : Takes(A, row)
      /\ c.op # "record_result" => U \in Seq(S)
      /\ c.op # "unload" => R \in Seq(S)
      /\ c.op = "finalize" => K \in Seq(S)
      /\ C \in Seq(S)
      /\ \A i \in 1..Len(U) : \A row \in NeedsLock(c, U[i]) : row \in rows
      /\ \A i \in 1..Len(R) : \A row \in NeedsLock(c, R[i]) : row \in rows
      /\ \A i \in 1..Len(C) : NeedsLock(c, C[i]) = {}
      /\ \A i \in 1..Len(K) : NeedsLock(c, K[i]) = {}
  BY <1>1, RunParts, ZenonT(60)
<1> HIDE DEF d, S, A, U, R, C, K, rows
<1>3. ASSUME NEW X \in Seq(S), WellLocked(c, X \o C), X \o C = Program(c)
      PROVE  CallInv(c, v, Program(c), <<>>, {})
  <2> DEFINE L == X \o C
  <2>1. L \in Seq(S) /\ L[Len(L)] = Commit
    BY <1>2 DEF C
  <2>2. WellLocked(c, L)
    BY <1>3
  <2> HIDE DEF L
  <2>3. CallInv(c, v, L, <<>>, {})
    BY <2>1, <2>2, Starts DEF WellLocked, S
  <2> QED BY <1>3, <2>3 DEF L
<1>4. CASE c.op = "unload"
  <2>1. A \o U \in Seq(S) /\ WellLocked(c, A \o U)
    BY <1>2, <1>4, ConcatLocked
  <2>2. (A \o U) \o C \in Seq(S) /\ WellLocked(c, (A \o U) \o C)
    BY <1>2, <2>1, ConcatLocked
  <2>3. Program(c) = (A \o U) \o C
    BY <1>4 DEF Program, UnloadDispatch, A, U, C, d
  <2> QED BY <1>3, <2>1, <2>2, <2>3
<1>5. CASE c.op = "record_result"
  <2>1. A \o R \in Seq(S) /\ WellLocked(c, A \o R)
    BY <1>2, <1>5, ConcatLocked
  <2>2. (A \o R) \o C \in Seq(S) /\ WellLocked(c, (A \o R) \o C)
    BY <1>2, <2>1, ConcatLocked
  <2>3. Program(c) = (A \o R) \o C
    BY <1>5 DEF Program, RecordResult, A, R, C, d
  <2> QED BY <1>3, <2>1, <2>2, <2>3
<1>6. CASE c.op = "equipment_result"
  <2>1. /\ A \o U \in Seq(S) /\ WellLocked(c, A \o U)
        /\ \A row \in rows : Takes(A \o U, row)
    BY <1>2, <1>6, ConcatLocked
  <2>2. (A \o U) \o R \in Seq(S) /\ WellLocked(c, (A \o U) \o R)
    BY <1>2, <1>6, <2>1, ConcatLocked
  <2>3. ((A \o U) \o R) \o C \in Seq(S) /\ WellLocked(c, ((A \o U) \o R) \o C)
    BY <1>2, <2>2, ConcatLocked
  <2>4. Program(c) = ((A \o U) \o R) \o C
    BY <1>6 DEF Program, CompleteDispatchRun, A, U, R, C, d
  <2> QED BY <1>3, <2>2, <2>3, <2>4
<1>7. CASE c.op = "finalize"
  <2>0. WellLocked(c, K)
    BY <1>2 DEF WellLocked
  <2>1. /\ K \o A \in Seq(S) /\ WellLocked(c, K \o A)
        /\ \A row \in rows : Takes(K \o A, row)
    <3>1. \A i \in 1..Len(A) : \A row \in NeedsLock(c, A[i]) :
            LockedFirst(A, i, row) \/ Takes(K, row)
      BY <1>2 DEF WellLocked
    <3> QED BY <1>2, <1>7, <2>0, <3>1, ConcatLocked
  <2>2. /\ (K \o A) \o K \in Seq(S) /\ WellLocked(c, (K \o A) \o K)
        /\ \A row \in rows : Takes((K \o A) \o K, row)
    BY <1>2, <1>7, <2>1, ConcatLocked
  <2> DEFINE B == (K \o A) \o K
  <2>3. B \in Seq(S) /\ WellLocked(c, B) /\ \A row \in rows : Takes(B, row)
    BY <2>2
  <2> HIDE DEF B
  <2>4. /\ B \o U \in Seq(S) /\ WellLocked(c, B \o U)
        /\ \A row \in rows : Takes(B \o U, row)
    BY <1>2, <1>7, <2>3, ConcatLocked
  <2>5. (B \o U) \o R \in Seq(S) /\ WellLocked(c, (B \o U) \o R)
    BY <1>2, <1>7, <2>4, ConcatLocked
  <2>6. ((B \o U) \o R) \o C \in Seq(S) /\ WellLocked(c, ((B \o U) \o R) \o C)
    BY <1>2, <2>5, ConcatLocked
  <2>7. Program(c) = ((B \o U) \o R) \o C
    BY <1>7 DEF Program, FinalizeDueDispatch, A, U, R, C, K, B, d
  <2> QED BY <1>3, <2>5, <2>6, <2>7
<1> QED
  BY <1>4, <1>5, <1>6, <1>7

\* Every call begins with its program.
LEMMA ProgramsStart ==
  ASSUME NEW c \in Calls, NEW v, c.op = "create_wip" => v[Wip(c.on)] = "none"
  PROVE  CallInv(c, v, Program(c), <<>>, {})
<1>1. c.op \in {"submit", "approve", "cancel", "ship", "delete_draft", "receive",
        "void", "return", "create_wip", "add_samples", "complete_wip",
        "abort_wip", "redispatch"} \cup RunOps
  BY DEF Calls
<1> QED
  BY <1>1, StartsRequestAction, StartsShip, StartsDelete, StartsReceive,
     StartsSettle, StartsCreateWip, StartsAddSamples, StartsCreateDispatch,
     StartsCompleteWip, StartsAbortWip, StartsStart, StartsReport,
     StartsRedispatch, StartsAbortDispatch, StartsRun DEF RunOps

-----------------------------------------------------------------------------
\* The steps of the system.

LEMMA Ended ==
  ASSUME NEW c \in Calls, NEW v
  PROVE  CallInv(c, v, <<>>, <<>>, {})
<1>1. Len(<<>>) = 0 /\ DOMAIN <<>> = {} /\ <<>> \in Seq(StatementsOf(c))
  OBVIOUS
<1>2. CallTypeOK(c, <<>>, <<>>, {})
  BY <1>1 DEF CallTypeOK
<1>3. \A i \in 1..Len(<<>>) : FALSE
  BY <1>1
<1> QED
  BY <1>1, <1>2, <1>3
  DEF CallInv, EndsInCommit, ListLocked, StartTested, InsertTested,
      ReplaceTested, JoinTested, NewWip, WrittenLocked, InsertedAlone

\* The invariant holds of the calls as they are made.
THEOREM InitInv == Init => TxInv
<1> SUFFICES ASSUME Init PROVE TxInv
  OBVIOUS
<1>1. /\ db \in StartDbs /\ calls \in Races
      /\ left = [c \in calls |-> Program(c)]
      /\ mine = [c \in calls |-> <<>>] /\ held = [c \in calls |-> {}]
      /\ \A c \in calls, w \in Wips : Creates(c, w) => db[Wip(w)] = "none"
  BY DEF Init
<1>2. calls \subseteq Calls /\ FreshKeys
  BY <1>1, RacesAssumption DEF FreshKeys
<1>3. TablesOK(db) /\ OneActive(db)
  BY <1>1, StartAssumption DEF Consistent
<1>4. ASSUME NEW c \in calls
      PROVE  CallInv(c, db, left[c], mine[c], held[c])
  <2>1. c.op = "create_wip" => db[Wip(c.on)] = "none"
    BY <1>1, <1>2, CallsOn DEF Creates
  <2> QED BY <1>1, <1>2, <2>1, ProgramsStart
<1>5. TypeOK
  BY <1>1, <1>3 DEF TypeOK
<1>6. LocksExclude
  BY <1>1 DEF LocksExclude
<1> QED
  BY <1>2, <1>3, <1>4, <1>5, <1>6 DEF TxInv

\* A step of call c that neither commits nor locks.
LEMMA LocalStep ==
  ASSUME TxInv, NEW c \in calls, NEW N, NEW W,
         CallInv(c, db, N, W, held[c]), N # <<>>,
         left' = [left EXCEPT ![c] = N], mine' = [mine EXCEPT ![c] = W],
         UNCHANGED <<db, held, calls>>
  PROVE  TxInv'
<1>1. TypeOK
  BY DEF TxInv
<1>2. /\ DOMAIN left' = calls /\ DOMAIN mine' = calls
      /\ left'[c] = N /\ mine'[c] = W
      /\ \A o \in calls : o # c => left'[o] = left[o] /\ mine'[o] = mine[o]
  BY <1>1 DEF TypeOK
<1>3. TypeOK'
  <2>1. DOMAIN W \subseteq Rows
    BY DEF CallInv, CallTypeOK
  <2> QED BY <1>1, <1>2, <2>1 DEF TypeOK
<1>4. ASSUME NEW o \in calls
      PROVE  CallInv(o, db', left'[o], mine'[o], held'[o])
  BY <1>2 DEF TxInv
<1>5. FreshKeys' /\ LocksExclude' /\ OneActive(db')
  BY DEF TxInv, FreshKeys, LocksExclude
<1> QED
  BY <1>3, <1>4, <1>5 DEF TxInv

LEMMA AcquireStep ==
  ASSUME TxInv, NEW c \in calls, left[c] # <<>>, AcquireLock(c), UNCHANGED calls
  PROVE  TxInv'
<1> DEFINE st == left[c][1]
           H == held[c] \cup {<<st.row, st.mode>>}
<1>0. TypeOK /\ CallInv(c, db, left[c], mine[c], held[c])
  BY DEF TxInv
<1>1. left[c] \in Seq(StatementsOf(c)) /\ c \in Calls
  BY <1>0 DEF CallInv, CallTypeOK
<1>2. Head(left[c]) = st
  BY <1>1, AfterHead
<1>3. /\ st.do = "lock" /\ Blockers(c, st.row, st.mode) = {}
      /\ held' = [held EXCEPT ![c] = H]
      /\ left' = [left EXCEPT ![c] = Tail(left[c])]
      /\ db' = db /\ mine' = mine /\ calls' = calls
  BY <1>2 DEF AcquireLock
<1>4. CallInv(c, db, Tail(left[c]), mine[c], H)
  BY <1>0, <1>3, Acquire
<1> HIDE DEF H, st
<1>5. /\ DOMAIN left' = calls /\ DOMAIN held' = calls
      /\ left'[c] = Tail(left[c]) /\ held'[c] = H
      /\ \A o \in calls : o # c => left'[o] = left[o] /\ held'[o] = held[o]
  BY <1>0, <1>3 DEF TypeOK
<1>6. left'[c] # <<>>
  <2>1. left[c][1] # Commit
    BY <1>3 DEF Commit, st
  <2>2. Len(left[c]) # 1
    BY <1>0, <2>1 DEF CallInv, EndsInCommit
  <2>3. Len(Tail(left[c])) # 0
    BY <1>1, <2>2, AfterHead
  <2>4. Len(<<>>) = 0
    OBVIOUS
  <2> QED BY <1>5, <2>3, <2>4
<1>7. TypeOK'
  BY <1>0, <1>3, <1>5, <1>6 DEF TypeOK
<1>8. ASSUME NEW o \in calls
      PROVE  CallInv(o, db', left'[o], mine'[o], held'[o])
  BY <1>3, <1>4, <1>5 DEF TxInv
<1>9. LocksExclude'
  <2> SUFFICES ASSUME NEW e \in calls, NEW o \in calls, e # o,
                      NEW h \in held'[e], NEW k \in held'[o], h[1] = k[1]
               PROVE  Compatible(h[2], k[2])
    BY <1>3 DEF LocksExclude
  <2>0. \A x, y : Compatible(x, y) = Compatible(y, x)
    BY DEF Compatible
  <2>1. ASSUME NEW x \in calls, x # c, NEW g \in held[x], g[1] = st.row
        PROVE  Compatible(g[2], st.mode)
    BY <1>3, <2>1 DEF Blockers
  <2>2. CASE e # c /\ o # c
    BY <1>5, <2>2 DEF TxInv, LocksExclude
  <2>3. CASE e = c
    <3>1. k \in held[o] /\ o # c
      BY <1>5, <2>3
    <3>2. CASE h \in held[c]
      BY <2>3, <3>1, <3>2 DEF TxInv, LocksExclude
    <3>3. CASE h = <<st.row, st.mode>>
      BY <2>0, <2>1, <3>1, <3>3
    <3> QED BY <1>5, <2>3, <3>2, <3>3 DEF H
  <2>4. CASE o = c
    <3>1. h \in held[e] /\ e # c
      BY <1>5, <2>4
    <3>2. CASE k \in held[c]
      BY <2>4, <3>1, <3>2 DEF TxInv, LocksExclude
    <3>3. CASE k = <<st.row, st.mode>>
      BY <2>1, <3>1, <3>3
    <3> QED BY <1>5, <2>4, <3>2, <3>3 DEF H
  <2> QED BY <2>2, <2>3, <2>4
<1>10. FreshKeys' /\ OneActive(db')
  BY <1>3 DEF TxInv, FreshKeys
<1> QED
  BY <1>3, <1>7, <1>8, <1>9, <1>10 DEF TxInv

\* c's transaction ends.
LEMMA ReleaseStep ==
  ASSUME TxInv, NEW c \in calls, Release(c), UNCHANGED calls,
         TablesOK(db'), OneActive(db'),
         \A o \in calls \ {c} : CallInv(o, db', left[o], mine[o], held[o])
  PROVE  TxInv'
<1>0. TypeOK /\ c \in Calls
  BY DEF TxInv, CallInv, CallTypeOK
<1>1. /\ DOMAIN left' = calls /\ DOMAIN held' = calls /\ DOMAIN mine' = calls
      /\ left'[c] = <<>> /\ held'[c] = {} /\ mine'[c] = <<>>
      /\ \A o \in calls : o # c => /\ left'[o] = left[o] /\ held'[o] = held[o]
                                  /\ mine'[o] = mine[o]
  BY <1>0 DEF TypeOK, Release
<1>2. DOMAIN <<>> = {}
  OBVIOUS
<1>3. TypeOK'
  BY <1>0, <1>1, <1>2 DEF TypeOK
<1>4. ASSUME NEW o \in calls
      PROVE  CallInv(o, db', left'[o], mine'[o], held'[o])
  BY <1>0, <1>1, Ended
<1>5. LocksExclude' /\ FreshKeys'
  BY <1>1 DEF TxInv, LocksExclude, FreshKeys
<1> QED
  BY <1>3, <1>4, <1>5 DEF TxInv

LEMMA RefuseStep ==
  ASSUME TxInv, NEW c \in calls, Refuse(c), UNCHANGED calls
  PROVE  TxInv'
BY ReleaseStep DEF Refuse, TxInv, TypeOK

LEMMA CommitStep ==
  ASSUME TxInv, NEW c \in calls, CommitTransaction(c), UNCHANGED calls
  PROVE  TxInv'
<1>1. Release(c) /\ db' = Over(mine[c], db)
  BY DEF CommitTransaction, View
<1>2. CallInv(c, db, left[c], mine[c], held[c]) /\ TablesOK(db) /\ OneActive(db)
  BY DEF TxInv, TypeOK
<1>3. TablesOK(db') /\ OneActive(db')
  BY <1>1, <1>2, CommitTables, CommitKeepsOneActive DEF TablesOK
<1>4. ASSUME NEW o \in calls \ {c}
      PROVE  CallInv(o, db', left[o], mine[o], held[o])
  <2>1. CallInv(o, db, left[o], mine[o], held[o])
    BY DEF TxInv
  <2>2. Exclude(held[o], held[c])
    BY DEF TxInv, LocksExclude, Exclude
  <2>3. \A w \in Wips : ~(Creates(o, w) /\ Creates(c, w))
    BY DEF TxInv, FreshKeys
  <2> QED BY <1>1, <1>2, <2>1, <2>2, <2>3, OthersCommit DEF TablesOK
<1> QED
  BY <1>1, <1>3, <1>4, ReleaseStep

LEMMA HeadLocked ==
  ASSUME NEW c, NEW v, NEW L, NEW M, NEW H, CallInv(c, v, L, M, H), L # <<>>
  PROVE  \A row \in NeedsLock(c, L[1]) : HasLock(H, row)
<1>1. 1 \in 1..Len(L)
  BY AfterHead DEF CallInv, CallTypeOK
<1>2. \A row \in NeedsLock(c, L[1]) : Locked(L, H, 1, row)
  BY <1>1 DEF CallInv, ListLocked
<1> QED
  BY <1>2 DEF Locked

LEMMA HeadIs ==
  ASSUME TxInv, NEW c \in calls, left[c] # <<>>
  PROVE  /\ c \in Calls /\ CallInv(c, db, left[c], mine[c], held[c])
         /\ left[c] \in Seq(StatementsOf(c)) /\ Head(left[c]) = left[c][1]
         /\ left[c][1] \in StatementsOf(c) /\ <<>> \o Tail(left[c]) = Tail(left[c])
         /\ DOMAIN mine[c] \subseteq Rows /\ DOMAIN db = Rows
         /\ \A row \in NeedsLock(c, left[c][1]) : HasLock(held[c], row)
         /\ WrittenLocked(c, db, mine[c], held[c]) /\ InsertedAlone(db, mine[c])
         /\ \A row \in DOMAIN mine[c] : mine[c][row] \in WritesOf(c, row)
         /\ DOMAIN View(c) = Rows
         /\ \A row \in Rows : row \in DOMAIN mine[c] => View(c)[row] = mine[c][row]
         /\ \A row \in Rows : row \notin DOMAIN mine[c] => View(c)[row] = db[row]
<1>1. CallInv(c, db, left[c], mine[c], held[c]) /\ DOMAIN db = Rows
  BY DEF TxInv, TypeOK, TablesOK
<1>2. CallTypeOK(c, left[c], mine[c], held[c])
  BY <1>1 DEF CallInv
<1>3. DOMAIN mine[c] \subseteq Rows
  BY <1>2 DEF CallTypeOK
<1>4. /\ DOMAIN View(c) = Rows
      /\ \A row \in Rows : row \in DOMAIN mine[c] => View(c)[row] = mine[c][row]
      /\ \A row \in Rows : row \notin DOMAIN mine[c] => View(c)[row] = db[row]
  BY <1>1, <1>3, ViewRow DEF View
<1> QED
  BY <1>1, <1>2, <1>4, AfterHead, HeadLocked DEF CallInv, CallTypeOK

LEMMA ProceedStep ==
  ASSUME TxInv, NEW c \in calls, left[c] # <<>>, left[c][1].do # "commit",
         UNCHANGED calls, NEW w, NEW F \in Seq(StatementsOf(c)), Proceed(c, w, F),
         CallInv(c, db, F \o Tail(left[c]), Over(w, mine[c]), held[c])
  PROVE  TxInv'
<1> DEFINE L == left[c]
           N == F \o Tail(L)
<1>1. /\ L \in Seq(StatementsOf(c)) /\ L # <<>> /\ L[1] # Commit
      /\ L[Len(L)] = Commit
  BY HeadIs DEF Commit, CallInv, EndsInCommit
<1> HIDE DEF L
<1>2. N # <<>>
  <2>1. Len(L) \in Nat /\ Len(L) > 1
    BY <1>1
  <2>2. Len(F) \in Nat /\ Len(N) = Len(F) + Len(L) - 1
    BY <1>1, Splice
  <2>3. Len(N) # 0 /\ Len(<<>>) = 0
    BY <2>1, <2>2
  <2> QED BY <2>3
<1>3. /\ left' = [left EXCEPT ![c] = N]
      /\ mine' = [mine EXCEPT ![c] = Over(w, mine[c])]
      /\ db' = db /\ held' = held /\ calls' = calls
  BY DEF Proceed, L
<1>4. CallInv(c, db, N, Over(w, mine[c]), held[c])
  BY DEF L
<1> HIDE DEF N
<1> QED
  BY <1>2, <1>3, <1>4, LocalStep

\* Nothing about runs is written.
LEMMA NoRunWritten ==
  ASSUME NEW v, NEW M, NEW w, DOMAIN v = Rows, DOMAIN M \subseteq Rows,
         DOMAIN w \subseteq Rows, \A row \in DOMAIN w : row[1] # "dispatch"
  PROVE  /\ \A d \in Dispatches : Alone(Over(Over(w, M), v), d) = Alone(Over(M, v), d)
         /\ InsertedAlone(v, M) => InsertedAlone(v, Over(w, M))
<1> DEFINE W == Over(w, M)
           X == Over(W, v)
           V == Over(M, v)
<1>1. /\ DOMAIN W = DOMAIN w \cup DOMAIN M
      /\ \A row \in DOMAIN M \ DOMAIN w : W[row] = M[row]
  BY DEF Over
<1>2. /\ \A row \in Rows : row \in DOMAIN W => X[row] = W[row]
      /\ \A row \in Rows : row \notin DOMAIN W => X[row] = v[row]
  BY <1>1, ViewRow
<1>3. /\ \A row \in Rows : row \in DOMAIN M => V[row] = M[row]
      /\ \A row \in Rows : row \notin DOMAIN M => V[row] = v[row]
  BY ViewRow
<1> HIDE DEF W, X, V
<1>4. \A e \in Dispatches : Dispatch(e) \in Rows /\ Dispatch(e) \notin DOMAIN w
  BY RowFacts
<1>5. \A e \in Dispatches : X[Dispatch(e)] = V[Dispatch(e)]
  BY <1>1, <1>2, <1>3, <1>4
<1>6. \A d \in Dispatches : Alone(X, d) = Alone(V, d)
  BY <1>5 DEF Alone
<1>7. InsertedAlone(v, M) => InsertedAlone(v, W)
  BY <1>1, <1>4, <1>6 DEF InsertedAlone, V, X
<1> QED
  BY <1>6, <1>7 DEF W, X, V

\* A statement that writes no run and tests nothing that another relies on.
LEMMA QuietStep ==
  ASSUME TxInv, NEW c \in calls, left[c] # <<>>, UNCHANGED calls,
         left[c][1].do \notin {"lock", "commit", "startable", "open", "alldone"},
         left[c][1].do = "move" => c.op # "redispatch",
         NEW w, NEW F \in Seq(StatementsOf(c)), Proceed(c, w, F),
         ListLocked(c, F, held[c]),
         F # <<>> => c.op \notin {"start", "create_dispatch", "redispatch"},
         \A i \in 1..Len(F) : F[i].do # "validate",
         DOMAIN w \subseteq Rows, \A row \in DOMAIN w : row[1] # "dispatch",
         \A row \in DOMAIN w : w[row] \in WritesOf(c, row),
         WrittenLocked(c, db, w, held[c])
  PROVE  TxInv'
<1>1. /\ c \in Calls /\ CallInv(c, db, left[c], mine[c], held[c])
      /\ InsertedAlone(db, mine[c])
      /\ DOMAIN db = Rows /\ DOMAIN mine[c] \subseteq Rows
  BY HeadIs
<1>2. /\ \A d \in Dispatches : Alone(Over(Over(w, mine[c]), db), d)
                                    = Alone(Over(mine[c], db), d)
      /\ InsertedAlone(db, Over(w, mine[c]))
  BY <1>1, NoRunWritten
<1>3. /\ c.op = "create_dispatch" => c.on \in Dispatches
      /\ c.op = "redispatch" => c.new \in Dispatches
  BY <1>1, CallsOn DEF RunOps
<1>4. /\ left[c][1] # Check("startable", c.on)
      /\ left[c][1] # Check("open", c.on)
      /\ left[c][1] # Check("alldone", WipOf[c.on])
      /\ c.op = "redispatch" =>
            left[c][1] # Move(Dispatch(c.on), "redispatch")
  BY DEF Check, Move
<1>5. CallInv(c, db, F \o Tail(left[c]), Over(w, mine[c]), held[c])
  BY <1>1, <1>2, <1>3, <1>4, Continue
<1> QED
  BY <1>5, ProceedStep

\* What a move makes of a row.
LEMMA MoveKinds ==
  ASSUME NEW c \in Calls, NEW st \in Moves(c)
  PROVE  /\ st.row \in Rows /\ st.do = "move" /\ NeedsLock(c, st) = {st.row}
         /\ Target(st.row, st.action) \in WritesOf(c, st.row)
         /\ \/ st.row[1] \in {"request", "sample"} /\ c.op # "redispatch"
            \/ /\ st.row[1] = "wip" /\ c.op \notin {"redispatch", "create_wip"}
               /\ "none" \notin Sources(st.row, st.action)
            \/ /\ st.row = Dispatch(c.on) /\ c.on \in Dispatches
               /\ c.op \in RunOps \cup {"redispatch"}
               /\ st = Move(Dispatch(c.on), st.action)
               /\ st.action \in {"unload", "record_result", "report_exception",
                                 "redispatch", "abort"}
               /\ st.action = "unload" => c.op \in Unloading
               /\ st.action = "record_result" => c.op \in Recording
               /\ st.action \in {"report_exception", "redispatch"} =>
                    c.op = st.action
               /\ st.action = "abort" => c.op = "abort_dispatch"
<1> USE DEF WritesOf, Target, Cascading, Unloading, Recording
<1>1. CASE c.op \in {"submit", "approve", "cancel", "ship"}
  <2>1. st = Move(Request(c.on), c.op) /\ c.on \in Requests
    BY <1>1, CallsOn DEF Moves
  <2>2. st.row = Request(c.on) /\ st.action = c.op /\ st.do = "move"
    BY <2>1 DEF Move
  <2>3. st.row \in Rows /\ st.row[1] = "request"
    BY <2>1, <2>2, RowFacts
  <2>4. NeedsLock(c, st) = {st.row}
    BY <2>2 DEF NeedsLock
  <2>5. Target(st.row, st.action) \in WritesOf(c, st.row)
    <3>1. Target(st.row, st.action) = RequestTarget[c.op]
      BY <2>2, <2>3
    <3> HIDE DEF Target
    <3>2. /\ c.op = "submit" => RequestTarget[c.op] = "pending_approval" /\ "pending_approval" \in WritesOf(c, st.row)
          /\ c.op = "approve" => RequestTarget[c.op] = "approved" /\ "approved" \in WritesOf(c, st.row)
          /\ c.op = "cancel" => RequestTarget[c.op] = "cancelled" /\ "cancelled" \in WritesOf(c, st.row)
          /\ c.op = "ship" => RequestTarget[c.op] = "sample_shipped" /\ "sample_shipped" \in WritesOf(c, st.row)
      BY <2>2, <2>3 DEF RequestTarget
    <3> QED BY <1>1, <3>1, <3>2
  <2> QED BY <1>1, <2>2, <2>3, <2>4, <2>5
<1>2. CASE c.op \in {"receive", "void", "return"}
  <2>1. st = Move(Sample(c.on), c.op) /\ c.on \in Samples
    BY <1>2, CallsOn DEF Moves
  <2>2. st.row = Sample(c.on) /\ st.action = c.op /\ st.do = "move"
    BY <2>1 DEF Move
  <2>3. st.row \in Rows /\ st.row[1] = "sample"
    BY <2>1, <2>2, RowFacts
  <2>4. NeedsLock(c, st) = {st.row}
    BY <2>2 DEF NeedsLock
  <2>5. Target(st.row, st.action) \in WritesOf(c, st.row)
    <3>1. Target(st.row, st.action) = SampleTarget[c.op]
      BY <2>2, <2>3
    <3> HIDE DEF Target
    <3>2. /\ c.op = "receive" => SampleTarget[c.op] = "received" /\ "received" \in WritesOf(c, st.row)
          /\ c.op = "void" => SampleTarget[c.op] = "voided" /\ "voided" \in WritesOf(c, st.row)
          /\ c.op = "return" => SampleTarget[c.op] = "returned" /\ "returned" \in WritesOf(c, st.row)
      BY <2>2, <2>3 DEF SampleTarget
    <3> QED BY <1>2, <3>1, <3>2
  <2> QED BY <1>2, <2>2, <2>3, <2>4, <2>5
<1>3. CASE c.op \in {"complete_wip", "abort_wip"}
  <2>1. c.on \in Wips /\ st = Move(Wip(c.on), IF c.op = "abort_wip" THEN "abort"
                                                                 ELSE "complete")
    BY <1>3, CallsOn DEF Moves
  <2>2. /\ st.row = Wip(c.on) /\ st.do = "move"
        /\ st.action = IF c.op = "abort_wip" THEN "abort" ELSE "complete"
    BY <2>1 DEF Move
  <2>3. st.row \in Rows /\ st.row[1] = "wip"
    BY <2>1, <2>2, RowFacts
  <2>4. NeedsLock(c, st) = {st.row}
    BY <2>2 DEF NeedsLock
  <2>5. Target(st.row, st.action) \in WritesOf(c, st.row)
    <3>1. Target(st.row, st.action) = WipTarget[st.action]
      BY <2>2, <2>3
    <3> HIDE DEF Target
    <3>2. /\ c.op = "complete_wip" => WipTarget[st.action] = "completed"
                                       /\ "completed" \in WritesOf(c, st.row)
          /\ c.op = "abort_wip" => WipTarget[st.action] = "aborted"
                                    /\ "aborted" \in WritesOf(c, st.row)
      BY <2>2, <2>3 DEF WipTarget, Cascading
    <3> QED BY <1>3, <3>1, <3>2
  <2>6. "none" \notin Sources(st.row, st.action)
    BY <1>3, <2>2, <2>3 DEF Sources, WipTransitions
  <2> QED BY <1>3, <2>2, <2>3, <2>4, <2>5, <2>6
<1>4. CASE c.op \in {"unload", "record_result", "equipment_result", "finalize",
                     "report_exception", "redispatch", "abort_dispatch"}
  <2>1. /\ c.on \in Dispatches
        /\ \E a \in {"unload", "record_result", "report_exception",
                     "redispatch", "abort"} :
             /\ st = Move(Dispatch(c.on), a)
             /\ a = "unload" => c.op \in Unloading
             /\ a = "record_result" => c.op \in Recording
             /\ a \in {"report_exception", "redispatch"} => c.op = a
             /\ a = "abort" => c.op = "abort_dispatch"
    BY <1>4, CallsOn DEF Moves, RunOps, Unloading, Recording
  <2>2. st.row = Dispatch(c.on) /\ st.do = "move" /\ st = Move(Dispatch(c.on), st.action)
    BY <2>1 DEF Move
  <2>a. /\ st.action \in {"unload", "record_result", "report_exception",
                          "redispatch", "abort"}
        /\ st.action = "unload" => c.op \in Unloading
        /\ st.action = "record_result" => c.op \in Recording
        /\ st.action \in {"report_exception", "redispatch"} => c.op = st.action
        /\ st.action = "abort" => c.op = "abort_dispatch"
    BY <2>1 DEF Move
  <2>3. st.row \in Rows /\ st.row[1] = "dispatch"
    BY <2>1, <2>2, RowFacts
  <2>4. NeedsLock(c, st) = {st.row}
    BY <2>2 DEF NeedsLock
  <2>5. Target(st.row, st.action) \in WritesOf(c, st.row)
    <3>1. c.op \in RunOps \cup {"redispatch"}
      BY <1>4 DEF RunOps
    <3>2. Target(st.row, st.action) = DispatchTarget[st.action]
      BY <2>3
    <3> HIDE DEF Target
    <3> QED BY <1>4, <2>2, <2>a, <2>3, <3>1, <3>2 DEF DispatchTarget, Unloading, Recording
  <2>6. c.op \in RunOps \cup {"redispatch"}
    BY <1>4 DEF RunOps
  <2> QED BY <2>1, <2>2, <2>3, <2>4, <2>5, <2>6, <2>a
<1>5. CASE c.op \notin {"submit", "approve", "cancel", "ship", "receive", "void",
         "return", "complete_wip", "abort_wip", "unload", "record_result",
         "equipment_result", "finalize", "report_exception", "redispatch",
         "abort_dispatch"}
  BY <1>5 DEF Moves
<1> QED
  BY <1>1, <1>2, <1>3, <1>4, <1>5

\* The move of a run is one that a transaction may make of it.
LEMMA MoveOfRun ==
  ASSUME TxInv, NEW c \in calls, left[c] # <<>>, NEW st, st = left[c][1],
         st \in Moves(c), st.row = Dispatch(c.on), c.on \in Dispatches,
         View(c)[st.row] \in Sources(st.row, st.action)
  PROVE  /\ db[st.row] # "none"
         /\ <<db[st.row], Target(st.row, st.action)>> \in RunMoves
         /\ c.op = "redispatch" => /\ st.row \notin DOMAIN mine[c]
                                   /\ db[st.row] = "execution_exception"
<1>0. /\ c \in Calls /\ WrittenLocked(c, db, mine[c], held[c])
      /\ \A row \in DOMAIN mine[c] : mine[c][row] \in WritesOf(c, row)
      /\ \A row \in Rows : row \in DOMAIN mine[c] => View(c)[row] = mine[c][row]
      /\ \A row \in Rows : row \notin DOMAIN mine[c] => View(c)[row] = db[row]
  BY HeadIs
<1> DEFINE row == st.row
           a == st.action
<1>1. row \in Rows /\ row[1] = "dispatch" /\ row[2] = c.on
  BY RowFacts
<1>2. Sources(row, a) = DispatchTransitions[a] /\ Target(row, a) = DispatchTarget[a]
  BY <1>1 DEF Sources, Target
<1>3. /\ a \in {"unload", "record_result", "report_exception",
                "redispatch", "abort"}
      /\ a = "unload" => c.op \in Unloading
      /\ a = "record_result" => c.op \in Recording
      /\ a \in {"report_exception", "redispatch"} => c.op = a
      /\ a = "abort" => c.op = "abort_dispatch"
      /\ c.op \in RunOps \cup {"redispatch"}
  BY <1>0, <1>1, MoveKinds
<1> HIDE DEF row, a
<1>4. CASE row \notin DOMAIN mine[c]
  <2>1. db[row] \in DispatchTransitions[a]
    BY <1>0, <1>1, <1>2, <1>4 DEF row, a
  <2>2. <<db[row], DispatchTarget[a]>> \in RunMoves /\ db[row] # "none"
    BY <1>3, <2>1 DEF DispatchTransitions, DispatchTarget, RunMoves
  <2>3. c.op = "redispatch" => db[row] = "execution_exception"
    BY <1>3, <2>1 DEF DispatchTransitions, Unloading, Recording
  <2> QED BY <1>2, <1>4, <2>2, <2>3 DEF row, a
<1>5. CASE row \in DOMAIN mine[c]
  <2>1. /\ mine[c][row] \in DispatchTransitions[a]
        /\ mine[c][row] \in WritesOf(c, row)
        /\ <<db[row], mine[c][row]>> \in RunMoves
    BY <1>0, <1>1, <1>2, <1>5 DEF WrittenLocked, row, a
  <2>2. mine[c][row] \in
          CASE c.op = "create_dispatch" -> {"pending"}
            [] c.op = "start" -> {"running"}
            [] c.op = "unload" -> {"unloaded"}
            [] c.op = "record_result" -> {"completed"}
            [] c.op \in {"equipment_result", "finalize"} -> {"unloaded", "completed"}
            [] c.op = "report_exception" -> {"execution_exception"}
            [] c.op = "redispatch" -> {"pending_redispatch", "pending"}
            [] c.op = "abort_dispatch" -> {"aborted"}
    BY <1>1, <1>3, <2>1 DEF WritesOf, RunOps
  <2>3. mine[c][row] = "unloaded" /\ a = "record_result"
    BY <1>3, <2>1, <2>2 DEF DispatchTransitions, Unloading, Recording, RunOps
  <2>4. db[row] \in {"dispatched", "running"}
    BY <2>1, <2>3 DEF RunMoves
  <2>5. <<db[row], "completed">> \in RunMoves
    BY <2>4 DEF RunMoves
  <2> QED BY <1>2, <1>3, <2>3, <2>4, <2>5 DEF DispatchTarget, Recording, row, a
<1> QED
  BY <1>4, <1>5

LEMMA EmptyList ==
  ASSUME NEW c, NEW H
  PROVE  /\ <<>> \in Seq(StatementsOf(c)) /\ ListLocked(c, <<>>, H)
         /\ \A i \in 1..Len(<<>>) : FALSE
BY DEF ListLocked

LEMMA MoveOfRunStep ==
  ASSUME TxInv, NEW c \in calls, left[c] # <<>>, UNCHANGED calls,
         NEW st, st = left[c][1], st \in Moves(c), st.row = Dispatch(c.on),
         c.on \in Dispatches, View(c)[st.row] \in Sources(st.row, st.action),
         Proceed(c, Write(st.row, Target(st.row, st.action)), <<>>)
  PROVE  TxInv'
<1> DEFINE row == st.row
           w == Write(row, Target(row, st.action))
           M == mine[c]
           W == Over(w, M)
           X == Over(W, db)
<1>1. /\ c \in Calls /\ CallInv(c, db, left[c], M, held[c])
      /\ DOMAIN M \subseteq Rows /\ DOMAIN db = Rows
      /\ WrittenLocked(c, db, M, held[c]) /\ InsertedAlone(db, M)
      /\ \A r \in DOMAIN M : M[r] \in WritesOf(c, r)
      /\ \A r \in NeedsLock(c, st) : HasLock(held[c], r)
  BY HeadIs
<1>2. /\ row \in Rows /\ st.do = "move" /\ NeedsLock(c, st) = {row}
      /\ Target(row, st.action) \in WritesOf(c, row)
      /\ row[1] = "dispatch" /\ row[2] = c.on
      /\ c.op \in RunOps \cup {"redispatch"}
      /\ st = Move(Dispatch(c.on), st.action)
      /\ c.op = "redispatch" => st.action = "redispatch"
      /\ c.op \notin {"create_dispatch", "start"}
  <2>1. row[1] = "dispatch" /\ row[2] = c.on
    BY RowFacts
  <2>2. c.op \notin {"create_dispatch", "start"}
    BY DEF Moves
  <2> QED
    BY <1>1, <2>1, <2>2, MoveKinds DEF Unloading, Recording
<1>3. /\ db[row] # "none"
      /\ <<db[row], Target(row, st.action)>> \in RunMoves
      /\ c.op = "redispatch" => /\ row \notin DOMAIN M
                                /\ db[row] = "execution_exception"
  BY MoveOfRun
<1>4. /\ DOMAIN w = {row} /\ w[row] = Target(row, st.action)
  BY WriteRow
<1> HIDE DEF w
<1>5. /\ DOMAIN W = {row} \cup DOMAIN M /\ W[row] = Target(row, st.action)
      /\ \A r \in DOMAIN M : r # row => W[r] = M[r]
  BY <1>4 DEF Over
<1>6. /\ \A r \in Rows : r \in DOMAIN W => X[r] = W[r]
      /\ \A r \in Rows : r \notin DOMAIN W => X[r] = db[r]
  BY <1>1, <1>2, <1>5, ViewRow
<1> HIDE DEF W, X
<1>7. \A d \in Dispatches : Dispatch(d) \in Rows /\ Dispatch(d)[1] = "dispatch"
                            /\ Dispatch(d)[2] = d
  BY RowFacts
<1>8. c.op = "redispatch" => /\ Target(row, st.action) \in TerminalDispatchStatuses
                             /\ c.new \in Dispatches /\ WipOf[c.new] = WipOf[c.on]
  <2>1. c.op = "redispatch" => Target(row, st.action) = "pending_redispatch"
    BY <1>2 DEF Target, DispatchTarget
  <2> QED BY <2>1, <1>1, CallsOn DEF TerminalDispatchStatuses
<1>9. c.op = "redispatch" => Alone(X, c.new)
  <2> SUFFICES ASSUME c.op = "redispatch", NEW e \in Dispatches, e # c.new,
                      WipOf[e] = WipOf[c.new]
               PROVE  X[Dispatch(e)] \in TerminalDispatchStatuses \cup {"none"}
    BY DEF Alone
  <2>1. CASE e = c.on
    BY <1>2, <1>5, <1>6, <1>8, <2>1
  <2>2. CASE e # c.on
    <3>1. Dispatch(e) # row /\ Dispatch(e) # Dispatch(c.new)
      BY <1>2, <1>7, <1>8, <2>2
    <3>2. WritesOf(c, Dispatch(e)) = {}
      BY <1>7, <3>1 DEF WritesOf
    <3>3. Dispatch(e) \notin DOMAIN W
      BY <1>1, <1>5, <3>1, <3>2
    <3>4. X[Dispatch(e)] = db[Dispatch(e)]
      BY <1>6, <1>7, <3>3
    <3>5. ASSUME db[Dispatch(e)] \notin TerminalDispatchStatuses \cup {"none"}
          PROVE  FALSE
      <4>1. e \in Active(db, WipOf[c.on])
        BY <1>8, <3>5 DEF Active, DispatchesOf
      <4>2. c.on \in Active(db, WipOf[c.on])
        BY <1>3 DEF Active, DispatchesOf, TerminalDispatchStatuses
      <4>3. WipOf[c.on] \in Wips
        BY TablesAssumption
      <4> QED BY <2>2, <4>1, <4>2, <4>3 DEF TxInv, OneActive
    <3> QED BY <3>4, <3>5
  <2> QED BY <2>1, <2>2
<1>10. InsertedAlone(db, W)
  <2> SUFFICES ASSUME NEW d \in Dispatches, Dispatch(d) \in DOMAIN W,
                      db[Dispatch(d)] = "none"
               PROVE  Alone(X, d)
    BY DEF InsertedAlone, X
  <2>1. Dispatch(d) \in DOMAIN M /\ d # c.on
    BY <1>3, <1>5
  <2>2. M[Dispatch(d)] = "pending"
    BY <1>1, <1>7, <2>1, MovesOfRuns DEF WrittenLocked
  <2>3. M[Dispatch(d)] \in WritesOf(c, Dispatch(d))
    BY <1>1, <2>1
  <2>4. Dispatch(d) # Dispatch(c.on)
    BY <1>7, <2>1
  <2>5. c.op = "redispatch" /\ Dispatch(d) = Dispatch(c.new)
    BY <1>7, <2>3, <2>4 DEF WritesOf
  <2>6. d = c.new
    BY <1>7, <1>8, <2>5
  <2> QED BY <2>5, <2>6, <1>9
<1>11. WrittenLocked(c, db, w, held[c])
  BY <1>1, <1>2, <1>3, <1>4 DEF WrittenLocked
<1>12. CallInv(c, db, <<>> \o Tail(left[c]), W, held[c])
  <2>1. /\ left[c][1].do \notin {"lock", "commit"}
        /\ left[c][1] # Check("startable", c.on)
        /\ left[c][1] # Check("open", c.on)
    BY <1>2 DEF Check
  <2>2. DOMAIN w \subseteq Rows /\ \A r \in DOMAIN w : w[r] \in WritesOf(c, r)
    BY <1>2, <1>4
  <2>3. c.op = "redispatch" => Alone(Over(Over(w, M), db), c.new)
    BY <1>9 DEF X, W
  <2>4. InsertedAlone(db, Over(w, M))
    BY <1>10 DEF W
  <2> QED
    BY <1>1, <1>2, <1>11, <2>1, <2>2, <2>3, <2>4, EmptyList, Continue DEF W
<1>13. Proceed(c, w, <<>>)
  BY DEF w
<1>14. left[c][1].do # "commit"
  BY <1>2
<1> QED
  BY <1>12, <1>13, <1>14, EmptyList, ProceedStep DEF W

LEMMA MoveStep ==
  ASSUME TxInv, NEW c \in calls, left[c] # <<>>, MoveRow(c), UNCHANGED calls
  PROVE  TxInv'
<1> DEFINE st == left[c][1]
           row == st.row
           w == Write(row, Target(row, st.action))
<1>1. /\ c \in Calls /\ st \in StatementsOf(c) /\ Head(left[c]) = st
      /\ \A r \in NeedsLock(c, st) : HasLock(held[c], r)
      /\ WrittenLocked(c, db, mine[c], held[c])
      /\ \A r \in Rows : r \in DOMAIN mine[c] => View(c)[r] = mine[c][r]
      /\ \A r \in Rows : r \notin DOMAIN mine[c] => View(c)[r] = db[r]
  BY HeadIs
<1>2. st.do = "move" /\ st \in Moves(c)
  BY <1>1, StatementKinds DEF MoveRow
<1>3. \/ Refuse(c)
      \/ View(c)[row] \in Sources(row, st.action) /\ Proceed(c, w, <<>>)
  BY <1>1 DEF MoveRow
<1> HIDE DEF w, row, st
<1>4. CASE Refuse(c)
  BY <1>4, RefuseStep
<1>5. CASE View(c)[row] \in Sources(row, st.action) /\ Proceed(c, w, <<>>)
  <2>1. /\ row \in Rows /\ NeedsLock(c, st) = {row}
        /\ Target(row, st.action) \in WritesOf(c, row)
        /\ \/ row[1] \in {"request", "sample"} /\ c.op # "redispatch"
           \/ /\ row[1] = "wip" /\ c.op \notin {"redispatch", "create_wip"}
              /\ "none" \notin Sources(row, st.action)
           \/ row = Dispatch(c.on) /\ c.on \in Dispatches
    BY <1>1, <1>2, MoveKinds DEF row
  <2>2. DOMAIN w = {row} /\ w[row] = Target(row, st.action)
    BY WriteRow DEF w
  <2>3. CASE row = Dispatch(c.on) /\ c.on \in Dispatches
    BY <1>2, <1>5, <2>3, MoveOfRunStep DEF w, row, st
  <2>4. CASE /\ row[1] \in {"request", "sample", "wip"} /\ c.op # "redispatch"
             /\ row[1] = "wip" => /\ "none" \notin Sources(row, st.action)
                                  /\ c.op # "create_wip"
    <3>1. row[1] = "wip" => db[row] # "none"
      BY <1>1, <1>5, <2>1, <2>4 DEF WrittenLocked, Creates
    <3>2. WrittenLocked(c, db, w, held[c])
      BY <1>1, <2>1, <2>2, <2>4, <3>1 DEF WrittenLocked
    <3> QED
      BY <1>2, <1>5, <2>1, <2>2, <2>4, <3>2, EmptyList, QuietStep DEF st
  <2> QED BY <2>1, <2>3, <2>4
<1> QED
  BY <1>3, <1>4, <1>5

\* One run is written, a row that no other run's fact is about.
LEMMA AloneWrite ==
  ASSUME NEW v, NEW M, NEW w, DOMAIN v = Rows, DOMAIN M \subseteq Rows,
         DOMAIN w \subseteq Rows, NEW d \in Dispatches,
         \A row \in DOMAIN w : row[1] = "dispatch" => row = Dispatch(d)
  PROVE  Alone(Over(Over(w, M), v), d) = Alone(Over(M, v), d)
<1> DEFINE W == Over(w, M)
           X == Over(W, v)
           V == Over(M, v)
<1>1. /\ DOMAIN W = DOMAIN w \cup DOMAIN M
      /\ \A row \in DOMAIN M \ DOMAIN w : W[row] = M[row]
  BY DEF Over
<1>2. /\ \A row \in Rows : row \in DOMAIN W => X[row] = W[row]
      /\ \A row \in Rows : row \notin DOMAIN W => X[row] = v[row]
  BY <1>1, ViewRow
<1>3. /\ \A row \in Rows : row \in DOMAIN M => V[row] = M[row]
      /\ \A row \in Rows : row \notin DOMAIN M => V[row] = v[row]
  BY ViewRow
<1> HIDE DEF W, X, V
<1>4. \A e \in Dispatches : e # d =>
        Dispatch(e) \in Rows /\ Dispatch(e) \notin DOMAIN w
  BY RowFacts
<1>5. \A e \in Dispatches : e # d => X[Dispatch(e)] = V[Dispatch(e)]
  BY <1>1, <1>2, <1>3, <1>4
<1>6. Alone(X, d) = Alone(V, d)
  BY <1>5 DEF Alone
<1> QED
  BY <1>6 DEF W, X, V

\* What Set writes.
LEMMA SetKinds ==
  ASSUME NEW c \in Calls, NEW st \in Sets(c)
  PROVE  /\ st.row \in Rows /\ st.value \in WritesOf(c, st.row) /\ st.do = "set"
         /\ \/ st.row[1] \in {"request", "sample"} /\ NeedsLock(c, st) = {st.row}
            \/ st.row[1] = "wip" /\ Creates(c, st.row[2])
            \/ /\ st.row[1] = "member" /\ st.row[2] = c.on
               /\ Creates(c, c.on) \/ NeedsLock(c, st) = {Wip(c.on)}
            \/ /\ c.op = "start" /\ c.on \in Dispatches
               /\ st = Set(Dispatch(c.on), "running")
               /\ st.row = Dispatch(c.on) /\ st.value = "running"
<1>1. CASE c.op = "delete_draft"
  <2>1. PICK row : /\ st = Set(row, "none")
                   /\ row = Request(c.on) \/ \E s \in SamplesOf(c.on) : row = Sample(s)
    BY <1>1 DEF Sets
  <2>2. row \in Rows /\ row[1] \in {"request", "sample"}
    BY <1>1, <2>1, CallsOn, RowFacts DEF SamplesOf
  <2>3. st.row = row /\ st.value = "none" /\ st.do = "set"
    BY <2>1 DEF Set
  <2>4. "none" \in WritesOf(c, row)
    BY <1>1, <2>2 DEF WritesOf, Cascading, Unloading, Recording
  <2>5. NeedsLock(c, st) = {st.row}
    BY <2>2, <2>3 DEF NeedsLock
  <2> QED BY <2>2, <2>3, <2>4, <2>5
<1>2. CASE c.op \in {"create_wip", "add_samples"}
  <2>0. c.on \in Wips /\ c.samples \subseteq Samples
    BY <1>2, CallsOn
  <2>1. CASE \E s \in c.samples : st = Set(Member(c.on, s), "in")
    <3>1. PICK s \in c.samples : st = Set(Member(c.on, s), "in")
      BY <2>1
    <3>2. st.row = Member(c.on, s) /\ st.value = "in" /\ st.do = "set"
      BY <3>1 DEF Set
    <3>3. st.row \in Rows /\ st.row[1] = "member" /\ st.row[2] = c.on
      BY <2>0, <3>2, RowFacts
    <3>4. st.value \in WritesOf(c, st.row)
      BY <1>2, <3>2, <3>3 DEF WritesOf
    <3>5. c.op = "add_samples" => NeedsLock(c, st) = {Wip(c.on)}
      BY <3>2, <3>3 DEF NeedsLock
    <3> QED BY <1>2, <3>2, <3>3, <3>4, <3>5 DEF Creates
  <2>2. CASE \E s \in c.samples : st = Set(Sample(s), "processing")
    <3>1. PICK s \in c.samples : st = Set(Sample(s), "processing")
      BY <2>2
    <3>2. st.row = Sample(s) /\ st.value = "processing" /\ st.do = "set"
      BY <3>1 DEF Set
    <3>3. st.row \in Rows /\ st.row[1] = "sample"
      BY <2>0, <3>2, RowFacts
    <3>4. st.value \in WritesOf(c, st.row)
      BY <1>2, <3>2, <3>3 DEF WritesOf, Cascading, Unloading, Recording
    <3>5. NeedsLock(c, st) = {st.row}
      BY <3>2, <3>3 DEF NeedsLock
    <3> QED BY <3>2, <3>3, <3>4, <3>5
  <2>3. CASE c.op = "create_wip" /\ st = Set(Wip(c.on), "created")
    <3>2. st.row = Wip(c.on) /\ st.value = "created" /\ st.do = "set"
      BY <2>3 DEF Set
    <3>3. st.row \in Rows /\ st.row[1] = "wip" /\ st.row[2] = c.on
      BY <2>0, <3>2, RowFacts
    <3>4. st.value \in WritesOf(c, st.row)
      BY <2>3, <3>2, <3>3 DEF WritesOf, Cascading, Unloading, Recording
    <3> QED BY <2>3, <3>2, <3>3, <3>4 DEF Creates
  <2> QED BY <1>2, <2>1, <2>2, <2>3 DEF Sets
<1>3. CASE c.op = "start"
  <2>1. st = Set(Dispatch(c.on), "running") /\ c.on \in Dispatches
    BY <1>3, CallsOn DEF Sets, RunOps
  <2>2. st.row = Dispatch(c.on) /\ st.value = "running" /\ st.do = "set"
    BY <2>1 DEF Set
  <2>3. st.row \in Rows /\ st.row[1] = "dispatch"
    BY <2>1, <2>2, RowFacts
  <2>4. st.value \in WritesOf(c, st.row)
    BY <1>3, <2>2, <2>3 DEF WritesOf, RunOps
  <2> QED BY <1>3, <2>1, <2>2, <2>3, <2>4
<1> QED
  BY <1>1, <1>2, <1>3 DEF Sets

LEMMA SetIfKinds ==
  ASSUME NEW c \in Calls, NEW st \in SetIfs(c)
  PROVE  /\ st.row \in Rows /\ st.value \in WritesOf(c, st.row) /\ st.do = "setif"
         /\ \/ st.row[1] = "sample" /\ NeedsLock(c, st) = {st.row}
            \/ st.row[1] = "progress"
            \/ /\ c.op = "redispatch" /\ c.new \in Dispatches
               /\ st.row = Dispatch(c.new) /\ st.old = "none"
               /\ st.value = "pending"
<1>1. CASE c.op = "ship"
  <2>1. PICK s \in SamplesOf(c.on) : st = SetIf(Sample(s), "created", "shipped")
    BY <1>1 DEF SetIfs
  <2>2. st.row = Sample(s) /\ st.value = "shipped" /\ st.do = "setif"
    BY <2>1 DEF SetIf
  <2>3. st.row \in Rows /\ st.row[1] = "sample"
    BY <2>2, RowFacts DEF SamplesOf
  <2>4. st.value \in WritesOf(c, st.row)
    BY <1>1, <2>2, <2>3 DEF WritesOf, Cascading, Unloading, Recording
  <2>5. NeedsLock(c, st) = {st.row}
    BY <2>2, <2>3 DEF NeedsLock
  <2> QED BY <2>2, <2>3, <2>4, <2>5
<1>2. CASE c.op \in {"receive", "void", "return"}
  <2>1. PICK s \in SamplesOf(Owner[c.on]), t \in Types :
            st = SetIf(Progress(s, t), "none", "pending")
    BY <1>2 DEF SetIfs
  <2>2. st.row = Progress(s, t) /\ st.value = "pending" /\ st.do = "setif"
    BY <2>1 DEF SetIf
  <2>3. st.row \in Rows /\ st.row[1] = "progress"
    BY <2>2, RowFacts DEF SamplesOf
  <2>4. st.value \in WritesOf(c, st.row)
    BY <1>2, <2>2, <2>3 DEF WritesOf, Unloading
  <2> QED BY <2>2, <2>3, <2>4
<1>3. CASE c.op = "abort_wip"
  <2>1. PICK s \in Samples :
            st = SetIf(Sample(s), "processing", "processing_exception")
    BY <1>3 DEF SetIfs
  <2>2. /\ st.row = Sample(s) /\ st.value = "processing_exception"
        /\ st.do = "setif"
    BY <2>1 DEF SetIf
  <2>3. st.row \in Rows /\ st.row[1] = "sample"
    BY <2>2, RowFacts
  <2>4. st.value \in WritesOf(c, st.row)
    BY <1>3, <2>2, <2>3 DEF WritesOf, Cascading, Unloading, Recording
  <2>5. NeedsLock(c, st) = {st.row}
    BY <2>2, <2>3 DEF NeedsLock
  <2> QED BY <2>2, <2>3, <2>4, <2>5
<1>4. CASE c.op = "redispatch"
  <2>1. st = SetIf(Dispatch(c.new), "none", "pending") /\ c.new \in Dispatches
    BY <1>4, CallsOn DEF SetIfs
  <2>2. /\ st.row = Dispatch(c.new) /\ st.value = "pending" /\ st.old = "none"
        /\ st.do = "setif"
    BY <2>1 DEF SetIf
  <2>3. st.row \in Rows /\ st.row[1] = "dispatch"
    BY <2>1, <2>2, RowFacts
  <2>4. st.value \in WritesOf(c, st.row)
    BY <1>4, <2>2, <2>3 DEF WritesOf
  <2> QED BY <1>4, <2>1, <2>2, <2>3, <2>4
<1> QED
  BY <1>1, <1>2, <1>3, <1>4 DEF SetIfs

\* A statement that writes one run, and inserts it only when it is alone.
LEMMA WriteRunStep ==
  ASSUME TxInv, NEW c \in calls, left[c] # <<>>, UNCHANGED calls,
         left[c][1].do \in {"set", "setif", "dispatch"},
         NEW d \in Dispatches, NEW w, Proceed(c, w, <<>>),
         DOMAIN w \subseteq Rows,
         \A row \in DOMAIN w : w[row] \in WritesOf(c, row),
         \A row \in DOMAIN w : row[1] = "dispatch" => row = Dispatch(d),
         WrittenLocked(c, db, w, held[c]),
         \/ c.op = "start" /\ d = c.on
         \/ c.op = "create_dispatch" /\ d = c.on
         \/ c.op = "redispatch" /\ d = c.new,
         db[Dispatch(d)] = "none" => Alone(View(c), d)
  PROVE  TxInv'
<1> DEFINE M == mine[c]
           W == Over(w, M)
<1>1. /\ c \in Calls /\ CallInv(c, db, left[c], M, held[c])
      /\ DOMAIN M \subseteq Rows /\ DOMAIN db = Rows
      /\ WrittenLocked(c, db, M, held[c]) /\ InsertedAlone(db, M)
      /\ \A r \in DOMAIN M : M[r] \in WritesOf(c, r)
  BY HeadIs
<1>2. Alone(Over(W, db), d) = Alone(Over(M, db), d)
  BY <1>1, AloneWrite
<1>3. DOMAIN W = DOMAIN w \cup DOMAIN M
  BY DEF Over
<1> HIDE DEF W
<1>4. InsertedAlone(db, W)
  <2> SUFFICES ASSUME NEW e \in Dispatches, Dispatch(e) \in DOMAIN W,
                      db[Dispatch(e)] = "none"
               PROVE  Alone(Over(W, db), e)
    BY DEF InsertedAlone
  <2>0. Dispatch(e)[1] = "dispatch" /\ Dispatch(e)[2] = e
    BY RowFacts
  <2>1. CASE Dispatch(e) \in DOMAIN w
    <3>1. e = d
      BY <2>1, <2>0, RowFacts
    <3> QED BY <1>2, <3>1 DEF View
  <2>2. CASE Dispatch(e) \in DOMAIN M
    <3>1. M[Dispatch(e)] = "pending"
      BY <1>1, <2>0, <2>2, MovesOfRuns DEF WrittenLocked
    <3>2. "pending" \in WritesOf(c, Dispatch(e))
      BY <1>1, <2>2, <3>1
    <3>3. Dispatch(e) = Dispatch(d)
      BY <2>0, <3>2 DEF WritesOf, RunOps
    <3>4. e = d
      BY <2>0, <3>3, RowFacts
    <3> QED BY <1>2, <3>4 DEF View
  <2> QED BY <1>3, <2>1, <2>2
<1>5. /\ left[c][1].do \notin {"lock", "commit"}
      /\ left[c][1] # Check("startable", c.on)
      /\ left[c][1] # Check("open", c.on)
      /\ left[c][1] # Check("alldone", WipOf[c.on])
      /\ left[c][1] # Move(Dispatch(c.on), "redispatch")
  BY DEF Check, Move
<1>6. CallInv(c, db, <<>> \o Tail(left[c]), W, held[c])
  BY <1>1, <1>2, <1>4, <1>5, EmptyList, Continue DEF W
<1> QED
  BY <1>5, <1>6, EmptyList, ProceedStep DEF W

LEMMA SetStep ==
  ASSUME TxInv, NEW c \in calls, left[c] # <<>>, SetRow(c), UNCHANGED calls
  PROVE  TxInv'
<1> DEFINE st == left[c][1]
           row == st.row
           w == Write(row, st.value)
           M == mine[c]
           V == View(c)
           H == held[c]
<1>1. /\ c \in Calls /\ st \in StatementsOf(c) /\ Head(left[c]) = st
      /\ CallInv(c, db, left[c], M, H)
      /\ \A r \in NeedsLock(c, st) : HasLock(H, r)
      /\ \A r \in DOMAIN M : M[r] \in WritesOf(c, r)
      /\ \A r \in Rows : r \in DOMAIN M => V[r] = M[r]
      /\ \A r \in Rows : r \notin DOMAIN M => V[r] = db[r]
      /\ 1 \in 1..Len(left[c])
  BY HeadIs, AfterHead
<1>2. DOMAIN w = {row} /\ w[row] = st.value /\ DOMAIN Nothing = {}
  BY DEF Write, Nothing
<1>3. \/ st.do = "set" /\ Proceed(c, w, <<>>)
      \/ st.do = "setif" /\ V[row] = st.old /\ Proceed(c, w, <<>>)
      \/ st.do = "setif" /\ V[row] # st.old /\ Proceed(c, Nothing, <<>>)
  BY <1>1 DEF SetRow
<1> HIDE DEF w, row, st, V
<1>4. CASE st.do = "set" /\ Proceed(c, w, <<>>)
  <2>1. st \in Sets(c)
    BY <1>1, <1>4, StatementKinds
  <2>2. /\ row \in Rows /\ st.value \in WritesOf(c, row)
        /\ \/ row[1] \in {"request", "sample"} /\ NeedsLock(c, st) = {row}
           \/ row[1] = "wip" /\ Creates(c, row[2])
           \/ /\ row[1] = "member" /\ row[2] = c.on
              /\ Creates(c, c.on) \/ NeedsLock(c, st) = {Wip(c.on)}
           \/ /\ c.op = "start" /\ c.on \in Dispatches
              /\ st = Set(Dispatch(c.on), "running")
              /\ row = Dispatch(c.on) /\ st.value = "running"
    BY <1>1, <2>1, SetKinds DEF row
  <2>3. CASE row[1] # "dispatch"
    <3>1. c.on \in Dispatches => row # Dispatch(c.on)
      BY <2>3, RowFacts
    <3>2. WrittenLocked(c, db, w, H)
      BY <1>1, <1>2, <2>2, <3>1 DEF WrittenLocked
    <3> QED
      BY <1>2, <1>4, <2>2, <2>3, <3>2, EmptyList, QuietStep DEF st
  <2>4. CASE row[1] = "dispatch"
    <3>1. /\ c.op = "start" /\ c.on \in Dispatches
          /\ st = Set(Dispatch(c.on), "running")
          /\ row = Dispatch(c.on) /\ st.value = "running"
      BY <2>2, <2>4
    <3>2. Tested(left[c], H, 1, Check("startable", c.on), Dispatch(c.on),
                 db[Dispatch(c.on)] \in {"pending", "dispatched"})
      BY <1>1, <3>1 DEF CallInv, StartTested, st
    <3>3. db[row] \in {"pending", "dispatched"} /\ HasLock(H, row)
      BY <3>1, <3>2 DEF Tested, Ahead
    <3>4. WrittenLocked(c, db, w, H)
      BY <1>2, <2>4, <3>1, <3>3 DEF WrittenLocked, RunMoves
    <3>5. db[Dispatch(c.on)] # "none"
      BY <3>1, <3>3
    <3> QED
      BY <1>2, <1>4, <2>2, <3>1, <3>4, <3>5, WriteRunStep DEF st
  <2> QED BY <2>3, <2>4
<1>5. CASE st.do = "setif" /\ V[row] = st.old /\ Proceed(c, w, <<>>)
  <2>1. st \in SetIfs(c)
    BY <1>1, <1>5, StatementKinds
  <2>2. /\ row \in Rows /\ st.value \in WritesOf(c, row)
        /\ \/ row[1] = "sample" /\ NeedsLock(c, st) = {row}
           \/ row[1] = "progress"
           \/ /\ c.op = "redispatch" /\ c.new \in Dispatches
              /\ row = Dispatch(c.new) /\ st.old = "none"
              /\ st.value = "pending"
    BY <1>1, <2>1, SetIfKinds DEF row
  <2>3. CASE row[1] # "dispatch"
    <3>1. row # Dispatch(c.new) \/ c.new \notin Dispatches
      BY <2>3, RowFacts
    <3>2. WrittenLocked(c, db, w, H)
      BY <1>1, <1>2, <2>2, <3>1 DEF WrittenLocked
    <3> QED
      BY <1>2, <1>5, <2>2, <2>3, <3>2, EmptyList, QuietStep DEF st
  <2>4. CASE row[1] = "dispatch"
    <3>1. /\ c.op = "redispatch" /\ c.new \in Dispatches
          /\ row = Dispatch(c.new) /\ st.old = "none" /\ st.value = "pending"
      BY <2>2, <2>4
    <3>2. Tested(left[c], H, 1, Move(Dispatch(c.on), "redispatch"),
                 Wip(WipOf[c.new]), Alone(Over(M, db), c.new))
      BY <1>1, <1>5, <3>1 DEF CallInv, ReplaceTested, st
    <3>3. Alone(V, c.new) /\ HasLock(H, Wip(WipOf[c.new]))
      BY <3>2 DEF Tested, Ahead, V, View
    <3>4. db[row] = "none"
      <4>1. ASSUME row \in DOMAIN M PROVE FALSE
        <5>1. M[row] = "none" /\ M[row] \in WritesOf(c, row)
          BY <1>1, <1>5, <2>2, <3>1, <4>1
        <5> QED BY <1>1, <2>2, <2>4, <5>1, WritesAreValues
      <4> QED BY <1>1, <1>5, <2>2, <3>1, <4>1
    <3>5. WrittenLocked(c, db, w, H)
      <4>1. row[2] = c.new
        BY <3>1, RowFacts
      <4> QED BY <1>2, <2>4, <3>1, <3>3, <3>4, <4>1 DEF WrittenLocked, RunMoves
    <3> QED
      BY <1>2, <1>5, <2>2, <3>1, <3>3, <3>5, WriteRunStep DEF st, V
  <2> QED BY <2>3, <2>4
<1>6. CASE st.do = "setif" /\ V[row] # st.old /\ Proceed(c, Nothing, <<>>)
  <2>1. WrittenLocked(c, db, Nothing, H)
    BY <1>2 DEF WrittenLocked
  <2> QED
    BY <1>2, <1>6, <2>1, EmptyList, QuietStep DEF st
<1> QED
  BY <1>3, <1>4, <1>5, <1>6

LEMMA TestStep ==
  ASSUME TxInv, NEW c \in calls, left[c] # <<>>, TestCondition(c), UNCHANGED calls
  PROVE  TxInv'
<1> DEFINE st == left[c][1]
           M == mine[c]
           V == View(c)
           H == held[c]
           W == Over(Nothing, M)
<1>1. /\ c \in Calls /\ st \in StatementsOf(c) /\ Head(left[c]) = st
      /\ CallInv(c, db, left[c], M, H)
      /\ DOMAIN M \subseteq Rows /\ DOMAIN db = Rows /\ InsertedAlone(db, M)
      /\ \A r \in DOMAIN M : M[r] \in WritesOf(c, r)
      /\ \A r \in Rows : r \in DOMAIN M => V[r] = M[r]
      /\ \A r \in Rows : r \notin DOMAIN M => V[r] = db[r]
  BY HeadIs
<1>2. st.do \in {"draft", "open", "alldone", "running", "startable"}
  BY <1>1 DEF TestCondition
<1>3. \/ Holds(V, st) /\ Proceed(c, Nothing, <<>>)
      \/ Refuse(c)
  BY <1>1 DEF TestCondition
<1> HIDE DEF st, V
<1>4. CASE Refuse(c)
  BY <1>4, RefuseStep
<1>5. CASE Holds(V, st) /\ Proceed(c, Nothing, <<>>)
  <2>1. /\ \A d \in Dispatches : Alone(Over(W, db), d) = Alone(Over(M, db), d)
        /\ InsertedAlone(db, W)
    BY <1>1, NothingWritten, NoRunWritten
  <2>2. st = Check("startable", c.on) =>
            db[Dispatch(c.on)] \in {"pending", "dispatched"}
    <3> SUFFICES ASSUME st = Check("startable", c.on)
                 PROVE  db[Dispatch(c.on)] \in {"pending", "dispatched"}
      OBVIOUS
    <3>1. st.do = "startable" /\ st.on = c.on
      BY DEF Check
    <3>2. c.op = "start"
      <4>1. st \in Checks(c)
        BY <1>1, <3>1, StatementKinds
      <4> QED BY <3>1, <4>1 DEF Checks, Check, Cascades
    <3>3. V[Dispatch(c.on)] \in {"pending", "dispatched"}
      BY <1>5, <3>1 DEF Holds
    <3>4. Dispatch(c.on) \in Rows /\ Dispatch(c.on)[1] = "dispatch"
      BY <1>1, <3>2, CallsOn, RowFacts DEF RunOps
    <3>5. WritesOf(c, Dispatch(c.on)) \subseteq {"running"}
      BY <3>2, <3>4 DEF WritesOf, RunOps
    <3> QED BY <1>1, <3>3, <3>4, <3>5
  <2>3. st = Check("open", c.on) => db[Wip(c.on)] # "none"
    <3> SUFFICES ASSUME st = Check("open", c.on) PROVE db[Wip(c.on)] # "none"
      OBVIOUS
    <3>1. st.do = "open" /\ st.on = c.on
      BY DEF Check
    <3>2. c.op = "add_samples"
      <4>1. st \in Checks(c)
        BY <1>1, <3>1, StatementKinds
      <4> QED BY <3>1, <4>1 DEF Checks, Check, Cascades
    <3>3. V[Wip(c.on)] \in {"created", "in_progress"}
      BY <1>5, <3>1 DEF Holds
    <3>4. Wip(c.on) \in Rows /\ Wip(c.on)[1] = "wip"
      BY <1>1, <3>2, CallsOn, RowFacts
    <3>5. WritesOf(c, Wip(c.on)) = {}
      BY <3>2, <3>4 DEF WritesOf, Cascading, Unloading, Recording
    <3> QED BY <1>1, <3>3, <3>4, <3>5
  <2>4. c.op = "create_dispatch" =>
            /\ c.on \in Dispatches
            /\ st = Check("alldone", WipOf[c.on]) => Alone(Over(M, db), c.on)
    <3> SUFFICES ASSUME c.op = "create_dispatch"
                 PROVE  /\ c.on \in Dispatches
                        /\ st = Check("alldone", WipOf[c.on]) =>
                                Alone(Over(M, db), c.on)
      OBVIOUS
    <3>1. st = Check("alldone", WipOf[c.on]) =>
            st.do = "alldone" /\ st.on = WipOf[c.on]
      BY DEF Check
    <3>2. st = Check("alldone", WipOf[c.on]) => Alone(V, c.on)
      BY <1>5, <3>1 DEF Holds, DispatchesOf, Alone
    <3> QED BY <1>1, <3>2, CallsOn DEF RunOps, V, View
  <2>5. c.op = "redispatch" => /\ c.new \in Dispatches
                               /\ st # Move(Dispatch(c.on), "redispatch")
    BY <1>1, <1>2, CallsOn DEF Move
  <2>6. WrittenLocked(c, db, Nothing, H) /\ DOMAIN Nothing = {}
    BY NothingWritten DEF WrittenLocked
  <2>7. st.do \notin {"lock", "commit"}
    BY <1>2
  <2>a. c.op = "create_dispatch" =>
            ((st = Check("alldone", WipOf[c.on]) \/ Alone(Over(M, db), c.on))
                => Alone(Over(W, db), c.on))
    <3>1. \A d \in Dispatches : Alone(Over(M, db), d) => Alone(Over(W, db), d)
      BY <2>1
    <3> HIDE DEF W
    <3> QED BY <2>4, <3>1, Zenon
  <2>b. c.op = "redispatch" =>
            ((st = Move(Dispatch(c.on), "redispatch") \/ Alone(Over(M, db), c.new))
                => Alone(Over(W, db), c.new))
    BY <2>1, <2>5
  <2>c. InsertedAlone(db, W)
    BY <2>1
  <2>8. CallInv(c, db, <<>> \o Tail(left[c]), W, H)
    <3> DEFINE w == Nothing
    <3>1. /\ DOMAIN w \subseteq Rows /\ \A r \in DOMAIN w : w[r] \in WritesOf(c, r)
          /\ WrittenLocked(c, db, w, H) /\ W = Over(w, M)
      BY <2>6
    <3> HIDE DEF w, W
    <3> QED
      BY <1>1, <2>a, <2>b, <2>c, <2>2, <2>3, <2>7, <3>1, EmptyList, Continue
      DEF st
  <2> QED
    BY <1>5, <2>7, <2>8, EmptyList, ProceedStep DEF st
<1> QED
  BY <1>3, <1>4, <1>5

\* Which calls make the compound statements, and about what.
LEMMA CheckKinds ==
  ASSUME NEW c \in Calls, NEW st \in Checks(c)
  PROVE  /\ st.do = "completed" =>
                st.on \in Requests /\ c.op \in {"void", "return"} \cup Cascading
         /\ st.do = "trycomplete" => st.on \in Samples /\ c.op \in Cascading
         /\ st.do = "cascade" => st.on \in Wips /\ c.op \in Cascading
         /\ st.do = "autocomplete" =>
                st.on \in Wips /\ c.op \in Recording \cup {"abort_dispatch"}
         /\ st.do = "roll" =>
                st.on = c.on /\ c.on \in Dispatches /\ c.op \in Unloading
         /\ st.do = "received" =>
                /\ c.op \in {"receive", "void", "return"}
                /\ st.on = Owner[c.on] /\ st.on \in Requests
         /\ st.do = "except" =>
                c.op = "abort_wip" /\ st.on = c.on /\ c.on \in Wips
         /\ st.do = "shipsamples" =>
                c.op = "ship" /\ st.on = c.on /\ c.on \in Requests
         /\ st.do = "deletesamples" =>
                c.op = "delete_draft" /\ st.on = c.on /\ c.on \in Requests
         /\ st.do = "validate" =>
                /\ c.op \in {"create_wip", "add_samples"}
                /\ st.on = c.on /\ c.on \in Wips
                /\ st.samples = c.samples /\ c.samples \subseteq Samples
         /\ st.do = "dispatch" =>
                /\ c.op = "create_dispatch" /\ st.on = WipOf[c.on]
                /\ st.new = c.on /\ c.on \in Dispatches /\ WipOf[c.on] \in Wips
<1> DEFINE ops == {"create_dispatch", "start", "unload", "record_result",
                   "equipment_result", "finalize", "report_exception",
                   "abort_dispatch"}
<1>1. /\ c.op \in {"ship", "delete_draft"} => c.on \in Requests
      /\ c.op \in {"receive", "void", "return"} => Owner[c.on] \in Requests
      /\ c.op \in {"create_wip", "add_samples"} =>
            c.on \in Wips /\ c.samples \subseteq Samples
      /\ c.op \in {"complete_wip", "abort_wip"} => c.on \in Wips
      /\ c.op \in ops => c.on \in Dispatches /\ WipOf[c.on] \in Wips
  BY CallsOn DEF RunOps
<1>2. CASE st \in Cascades /\ c.op \in Cascading
  BY <1>2 DEF Cascades, Check
<1>3. CASE c.op \in {"ship", "delete_draft"}
  BY <1>1, <1>3 DEF Checks, Check
<1>4. CASE c.op \in {"receive", "void", "return"}
  BY <1>1, <1>4 DEF Checks, Check
<1>5. CASE c.op \in {"create_wip", "add_samples"}
  BY <1>1, <1>5 DEF Checks, Check
<1>6. CASE /\ c.op \in {"complete_wip", "abort_wip"}
           /\ ~(st \in Cascades /\ c.op \in Cascading)
  BY <1>1, <1>6 DEF Checks, Check, Cascading
<1>7. CASE c.op \in ops /\ ~(st \in Cascades /\ c.op \in Cascading)
  BY <1>1, <1>7 DEF Checks, Check, Cascading, Unloading, Recording
<1> QED
  BY <1>2, <1>3, <1>4, <1>5, <1>6, <1>7 DEF Checks

\* What a step finds at the head of a call's program.
LEMMA AtCheck ==
  ASSUME TxInv, NEW c \in calls, left[c] # <<>>,
         left[c][1].do \notin {"lock", "move", "set", "setif", "commit"}
  PROVE  left[c][1] \in Checks(c) /\ c \in Calls
BY HeadIs, StatementKinds

LEMMA CheckCompletedStep ==
  ASSUME TxInv, NEW c \in calls, left[c] # <<>>, CheckCompleted(c),
         UNCHANGED calls
  PROVE  TxInv'
<1> DEFINE st == left[c][1]
           r == st.on
           w == Write(Request(r), "completed")
           H == held[c]
<1>1. /\ Head(left[c]) = st /\ st.do = "completed"
      /\ \A row \in NeedsLock(c, st) : HasLock(H, row)
  BY HeadIs DEF CheckCompleted
<1>2. /\ c \in Calls /\ r \in Requests
      /\ c.op \in {"void", "return"} \cup Cascading
  BY <1>1, AtCheck, CheckKinds
<1>3. Proceed(c, w, <<>>) \/ Proceed(c, Nothing, <<>>)
  BY <1>1 DEF CheckCompleted
<1>4. Request(r) \in Rows /\ Request(r)[1] = "request"
  BY <1>2, RowFacts
<1>5. HasLock(H, Request(r))
  BY <1>1 DEF NeedsLock
<1>6. "completed" \in WritesOf(c, Request(r))
  BY <1>2, <1>4 DEF WritesOf, Cascading, Unloading, Recording
<1>7. /\ DOMAIN w = {Request(r)} /\ w[Request(r)] = "completed"
      /\ DOMAIN Nothing = {}
  BY DEF Write, Nothing
<1> HIDE DEF w, st, r
<1>8. WrittenLocked(c, db, w, H) /\ WrittenLocked(c, db, Nothing, H)
  BY <1>4, <1>5, <1>7 DEF WrittenLocked
<1> QED
  BY <1>1, <1>3, <1>4, <1>6, <1>7, <1>8, EmptyList, QuietStep DEF st

LEMMA AutoCompleteStep ==
  ASSUME TxInv, NEW c \in calls, left[c] # <<>>, AutoComplete(c), UNCHANGED calls
  PROVE  TxInv'
<1> DEFINE st == left[c][1]
           x == st.on
           w == Write(Wip(x), "completed")
           F == <<Check("cascade", x)>>
           H == held[c]
           M == mine[c]
<1>1. /\ Head(left[c]) = st /\ st.do = "autocomplete"
      /\ \A row \in NeedsLock(c, st) : HasLock(H, row)
      /\ \A row \in Rows : row \in DOMAIN M => View(c)[row] = M[row]
      /\ \A row \in Rows : row \notin DOMAIN M => View(c)[row] = db[row]
      /\ WrittenLocked(c, db, M, H)
  BY HeadIs DEF AutoComplete
<1>2. st \in Checks(c) /\ c \in Calls /\ x \in Wips
      /\ c.op \in Recording \cup {"abort_dispatch"}
  BY <1>1, AtCheck, CheckKinds
<1>3. \/ View(c)[Wip(x)] = "in_progress" /\ Proceed(c, w, F)
      \/ Proceed(c, Nothing, <<>>)
  BY <1>1 DEF AutoComplete
<1>4. Wip(x) \in Rows /\ Wip(x)[1] = "wip" /\ Wip(x)[2] = x
  BY <1>2, RowFacts
<1>5. HasLock(H, Wip(x))
  BY <1>1 DEF NeedsLock
<1>6. "completed" \in WritesOf(c, Wip(x))
  BY <1>2, <1>4 DEF WritesOf, Cascading, Unloading, Recording
<1>7. DOMAIN w = {Wip(x)} /\ w[Wip(x)] = "completed" /\ DOMAIN Nothing = {}
  BY DEF Write, Nothing
<1>8. /\ F \in Seq(StatementsOf(c)) /\ ListLocked(c, F, H)
      /\ \A i \in 1..Len(F) : F[i].do # "validate"
  <2>1. Check("cascade", x) \in Checks(c)
    <3>1. st = Check("autocomplete", x) /\ st.on = x
      BY <1>1, <1>2 DEF Checks, Check, Cascades
    <3> QED BY <1>2, <3>1 DEF Checks, Check, Cascades, Recording
  <2>2. F \in Seq(StatementsOf(c)) /\ Len(F) = 1 /\ F[1] = Check("cascade", x)
    BY <2>1 DEF StatementsOf
  <2> HIDE DEF F
  <2> QED BY <2>2 DEF ListLocked, NeedsLock, Check
<1> HIDE DEF w, st, x, F
<1>9. WrittenLocked(c, db, Nothing, H)
  BY <1>7 DEF WrittenLocked
<1>10. View(c)[Wip(x)] = "in_progress" => WrittenLocked(c, db, w, H)
  BY <1>1, <1>2, <1>4, <1>5, <1>7 DEF WrittenLocked, Creates, Recording
<1>11. c.op \notin {"start", "create_dispatch", "redispatch"}
  BY <1>2 DEF Recording
<1>12. CASE View(c)[Wip(x)] = "in_progress" /\ Proceed(c, w, F)
  BY <1>1, <1>4, <1>6, <1>7, <1>8, <1>10, <1>11, <1>12, QuietStep DEF st
<1>13. CASE Proceed(c, Nothing, <<>>)
  BY <1>1, <1>7, <1>9, <1>13, EmptyList, QuietStep DEF st
<1> QED
  BY <1>3, <1>12, <1>13

LEMMA TryCompleteStep ==
  ASSUME TxInv, NEW c \in calls, left[c] # <<>>, TryComplete(c), UNCHANGED calls
  PROVE  TxInv'
<1> DEFINE st == left[c][1]
           s == st.on
           r == Owner[s]
           w == Write(Sample(s), "completed")
           F == <<Lock(Request(r)), Check("completed", r)>>
           H == held[c]
<1>1. /\ Head(left[c]) = st /\ st.do = "trycomplete"
      /\ \A row \in NeedsLock(c, st) : HasLock(H, row)
  BY HeadIs DEF TryComplete
<1>2. st \in Checks(c) /\ c \in Calls /\ s \in Samples /\ c.op \in Cascading
  BY <1>1, AtCheck, CheckKinds
<1>3. Proceed(c, w, F) \/ Proceed(c, Nothing, <<>>)
  BY <1>1 DEF TryComplete
<1>4. /\ Sample(s) \in Rows /\ Sample(s)[1] = "sample"
      /\ r \in Requests /\ Request(r) \in Rows
  BY <1>2, RowFacts, TablesAssumption
<1>5. HasLock(H, Sample(s))
  BY <1>1 DEF NeedsLock
<1>6. "completed" \in WritesOf(c, Sample(s))
  BY <1>2, <1>4 DEF WritesOf, Cascading, Unloading, Recording
<1>7. DOMAIN w = {Sample(s)} /\ w[Sample(s)] = "completed" /\ DOMAIN Nothing = {}
  BY DEF Write, Nothing
<1>8. /\ F \in Seq(StatementsOf(c)) /\ ListLocked(c, F, H)
      /\ \A i \in 1..Len(F) : F[i].do # "validate"
  <2>1. Check("completed", r) \in StatementsOf(c)
    BY <1>2, <1>4 DEF StatementsOf, Checks, Cascades, Cascading, Unloading, Recording
  <2>2. Lock(Request(r)) \in StatementsOf(c)
    BY <1>2, <1>4, StatementIn
  <2>3. /\ F \in Seq(StatementsOf(c)) /\ Len(F) = 2
        /\ F[1] = Lock(Request(r)) /\ F[2] = Check("completed", r)
    BY <2>1, <2>2
  <2> HIDE DEF F
  <2>4. /\ NeedsLock(c, F[1]) = {} /\ NeedsLock(c, F[2]) = {Request(r)}
        /\ F[1].do # "validate" /\ F[2].do # "validate"
    BY <2>3 DEF NeedsLock, Lock, Check
  <2>5. Locked(F, H, 2, Request(r))
    BY <2>3 DEF Locked
  <2>6. 1..Len(F) = {1, 2}
    BY <2>3
  <2> QED BY <2>3, <2>4, <2>5, <2>6 DEF ListLocked
<1> HIDE DEF w, st, s, r, F
<1>9. WrittenLocked(c, db, w, H) /\ WrittenLocked(c, db, Nothing, H)
  BY <1>4, <1>5, <1>7 DEF WrittenLocked
<1>10. c.op \notin {"start", "create_dispatch", "redispatch"}
  BY <1>2 DEF Cascading, Unloading, Recording
<1>11. CASE Proceed(c, w, F)
  BY <1>1, <1>4, <1>6, <1>7, <1>8, <1>9, <1>10, <1>11, QuietStep DEF st
<1>12. CASE Proceed(c, Nothing, <<>>)
  BY <1>1, <1>7, <1>9, <1>12, EmptyList, QuietStep DEF st
<1> QED
  BY <1>3, <1>11, <1>12

LEMMA InsertStep ==
  ASSUME TxInv, NEW c \in calls, left[c] # <<>>, InsertDispatch(c),
         UNCHANGED calls
  PROVE  TxInv'
<1> DEFINE st == left[c][1]
           x == st.on
           d == st.new
           v == View(c)
           opened == {s \in MembersOf(v, x) :
                        v[Progress(s, TypeOf[x])] = "pending"}
           rows == {Progress(s, TypeOf[x]) : s \in opened}
           w1 == IF v[Wip(x)] = "created" THEN Write(Wip(x), "in_progress")
                                          ELSE Nothing
           w2 == Over(Write(Dispatch(d), "pending"), w1)
           w == Over([row \in rows |-> "in_progress"], w2)
           H == held[c]
           M == mine[c]
<1>1. /\ Head(left[c]) = st /\ st.do = "dispatch"
      /\ CallInv(c, db, left[c], M, H)
      /\ \A row \in NeedsLock(c, st) : HasLock(H, row)
      /\ \A row \in Rows : row \in DOMAIN M => v[row] = M[row]
      /\ \A row \in Rows : row \notin DOMAIN M => v[row] = db[row]
      /\ WrittenLocked(c, db, M, H)
      /\ \A row \in DOMAIN M : M[row] \in WritesOf(c, row)
      /\ 1 \in 1..Len(left[c])
  BY HeadIs, AfterHead DEF InsertDispatch
<1>2. /\ c \in Calls /\ c.op = "create_dispatch"
      /\ x = WipOf[c.on] /\ d = c.on /\ d \in Dispatches /\ x \in Wips
  BY <1>1, AtCheck, CheckKinds
<1>3. \/ Refuse(c)
      \/ /\ v[Wip(x)] # "none" /\ v[Dispatch(d)] = "none"
         /\ Proceed(c, w, <<>>)
  BY <1>1 DEF InsertDispatch
<1>4. /\ Wip(x) \in Rows /\ Wip(x)[1] = "wip" /\ Wip(x)[2] = x
      /\ Dispatch(d) \in Rows /\ Dispatch(d)[1] = "dispatch" /\ Dispatch(d)[2] = d
  BY <1>2, RowFacts
<1>5. HasLock(H, Wip(x))
  BY <1>1 DEF NeedsLock
<1>6. \A row \in rows : row \in Rows /\ row[1] = "progress"
  <2>1. TypeOf[x] \in Types /\ opened \subseteq Samples
    BY <1>2, TablesAssumption DEF MembersOf
  <2> HIDE DEF opened
  <2> QED BY <2>1, RowFacts
<1>7. /\ DOMAIN w1 \subseteq {Wip(x)}
      /\ \A row \in DOMAIN w1 : w1[row] = "in_progress"
  BY DEF Write, Nothing
<1> HIDE DEF w1, rows
<1>8. /\ DOMAIN w2 = {Dispatch(d)} \cup DOMAIN w1
      /\ w2[Dispatch(d)] = "pending"
      /\ \A row \in DOMAIN w1 : row # Dispatch(d) => w2[row] = w1[row]
  BY DEF Write, Over
<1> HIDE DEF w2
<1>9. /\ DOMAIN w = rows \cup DOMAIN w2
      /\ \A row \in rows : w[row] = "in_progress"
      /\ \A row \in DOMAIN w2 : row \notin rows => w[row] = w2[row]
  BY DEF Over
<1> HIDE DEF w, v, x, d, st
<1>10. /\ \A row \in DOMAIN w : row = Dispatch(d) \/ row = Wip(x) \/ row \in rows
       /\ Dispatch(d) \notin rows /\ Wip(x) \notin rows /\ Wip(x) # Dispatch(d)
       /\ w[Dispatch(d)] = "pending" /\ Dispatch(d) \in DOMAIN w
       /\ Wip(x) \in DOMAIN w => w[Wip(x)] = "in_progress"
  BY <1>4, <1>6, <1>7, <1>8, <1>9
<1>11. /\ DOMAIN w \subseteq Rows
       /\ \A row \in DOMAIN w : w[row] \in WritesOf(c, row)
       /\ \A row \in DOMAIN w : row[1] = "dispatch" => row = Dispatch(d)
  <2>1. \A row \in rows : "in_progress" \in WritesOf(c, row)
    BY <1>2, <1>6 DEF WritesOf, Unloading
  <2>2. "pending" \in WritesOf(c, Dispatch(d))
    BY <1>2, <1>4 DEF WritesOf, RunOps
  <2>3. "in_progress" \in WritesOf(c, Wip(x))
    BY <1>2, <1>4 DEF WritesOf, Cascading, Unloading, Recording
  <2> QED BY <1>4, <1>6, <1>9, <1>10, <2>1, <2>2, <2>3
<1>12. CASE /\ v[Wip(x)] # "none" /\ v[Dispatch(d)] = "none"
            /\ Proceed(c, w, <<>>)
  <2>1. db[Wip(x)] # "none"
    BY <1>1, <1>2, <1>4, <1>12 DEF WrittenLocked, Creates
  <2>2. db[Dispatch(d)] = "none"
    <3>1. ASSUME Dispatch(d) \in DOMAIN M PROVE FALSE
      <4>1. M[Dispatch(d)] = "none" /\ M[Dispatch(d)] \in WritesOf(c, Dispatch(d))
        BY <1>1, <1>4, <1>12, <3>1
      <4> QED BY <1>2, <1>4, <4>1, WritesAreValues
    <3> QED BY <1>1, <1>4, <1>12, <3>1
  <2>3. WrittenLocked(c, db, w, H)
    <3> SUFFICES ASSUME NEW row \in DOMAIN w
                 PROVE  CASE row[1] \in {"request", "sample"} -> HasLock(H, row)
          [] row[1] = "wip" -> \/ HasLock(H, row) /\ db[row] # "none"
                               \/ Creates(c, row[2])
          [] row[1] = "member" -> HasLock(H, Wip(row[2])) \/ Creates(c, row[2])
          [] row[1] = "dispatch" ->
                /\ <<db[row], w[row]>> \in RunMoves
                /\ HasLock(H, IF db[row] = "none" THEN Wip(WipOf[row[2]])
                                                  ELSE row)
          [] OTHER -> TRUE
      BY DEF WrittenLocked
    <3>1. CASE row \in rows
      BY <1>6, <3>1
    <3>2. CASE row = Wip(x)
      BY <1>4, <1>5, <2>1, <3>2
    <3>3. CASE row = Dispatch(d)
      <4>1. <<db[row], w[row]>> \in RunMoves
        BY <1>10, <2>2, <3>3 DEF RunMoves
      <4> QED BY <1>2, <1>4, <1>5, <2>2, <3>3, <4>1
    <3> QED BY <1>10, <3>1, <3>2, <3>3
  <2>4. Alone(v, d)
    <3>1. Tested(left[c], H, 1, Check("alldone", WipOf[c.on]),
                 Wip(WipOf[c.on]), Alone(Over(M, db), c.on))
      BY <1>1, <1>2 DEF CallInv, InsertTested, st
    <3> QED BY <1>2, <3>1 DEF Tested, Ahead, v, View
  <2> QED
    BY <1>1, <1>2, <1>11, <1>12, <2>3, <2>4, WriteRunStep DEF st, v
<1>13. CASE Refuse(c)
  BY <1>13, RefuseStep
<1> QED
  BY <1>3, <1>12, <1>13

-----------------------------------------------------------------------------
\* Statements for each row of a set, in some order.

LEMMA OrderOf ==
  ASSUME NEW S, IsFiniteSet(S), NEW q \in SetToSeqs(S)
  PROVE  /\ q \in Seq(S) /\ DOMAIN q = 1..Len(q)
         /\ \A i \in 1..Len(q) : q[i] \in S
         /\ \A s \in S : \E i \in 1..Len(q) : q[i] = s
<1> DEFINE n == Cardinality(S)
<1>1. n \in Nat /\ ExistsBijection(1..n, S)
  BY FS_CardinalityType
<1>2. q \in [1..n -> S] /\ \A i, j \in 1..n : i # j => q[i] # q[j]
  BY DEF SetToSeqs
<1>3. q \in Injection(1..n, S)
  BY <1>2 DEF Injection, IsInjective
<1>4. Cardinality(1..n) = n
  BY <1>1, FS_Interval
<1> HIDE DEF n
<1>5. q \in Surjection(1..n, S)
  BY <1>3, <1>4, FS_Injection DEF n
<1>6. q \in Seq(S) /\ Len(q) = n /\ DOMAIN q = 1..n
  BY <1>1, <1>2
<1> QED
  BY <1>2, <1>5, <1>6 DEF Surjection

LEMMA OneOrder ==
  ASSUME NEW S, IsFiniteSet(S)
  PROVE  SetToSeq(S) \in Seq(S)
<1> DEFINE n == Cardinality(S)
<1>1. n \in Nat /\ ExistsBijection(1..n, S)
  BY FS_CardinalityType
<1>2. \E f \in [1..n -> S] : IsInjective(f)
  BY <1>1 DEF ExistsBijection, Bijection, Injection
<1>3. SetToSeq(S) \in [1..n -> S]
  BY <1>2, Zenon DEF SetToSeq
<1> HIDE DEF n
<1> QED
  BY <1>1, <1>3

\* One row's statements after another's.
LEMMA EachInOrder ==
  ASSUME NEW T, NEW g \in Seq(Seq(T))
  PROVE  /\ FlattenSeq(g) \in Seq(T)
         /\ \A k \in 1..Len(FlattenSeq(g)) :
                \E i \in 1..Len(g) : \E j \in 1..Len(g[i]) :
                    FlattenSeq(g)[k] = g[i][j]
         /\ \A c, H : (\A i \in 1..Len(g) : ListLocked(c, g[i], H))
                => ListLocked(c, FlattenSeq(g), H)
<1> DEFINE F == FlattenSeq(g)
<1>1. F \in Seq(T) /\ InOrder(F, g, Len(g))
  BY FlattenInOrder
<1> HIDE DEF F
<1>2. ASSUME NEW c, NEW H, \A i \in 1..Len(g) : ListLocked(c, g[i], H)
      PROVE  ListLocked(c, F, H)
  <2> SUFFICES ASSUME NEW k \in 1..Len(F), NEW row \in NeedsLock(c, F[k])
               PROVE  Locked(F, H, k, row)
    BY DEF ListLocked
  <2>1. PICK i \in 1..Len(g) : \E j \in 1..Len(g[i]) :
            /\ F[k] = g[i][j]
            /\ \A h \in 1..(j - 1) : \E l \in 1..(k - 1) : F[l] = g[i][h]
    BY <1>1 DEF InOrder
  <2>2. PICK j \in 1..Len(g[i]) :
            /\ F[k] = g[i][j]
            /\ \A h \in 1..(j - 1) : \E l \in 1..(k - 1) : F[l] = g[i][h]
    BY <2>1
  <2>3. Locked(g[i], H, j, row)
    BY <1>2, <2>2 DEF ListLocked
  <2> QED BY <2>2, <2>3 DEF Locked
<1>3. \A k \in 1..Len(F) : \E i \in 1..Len(g) : \E j \in 1..Len(g[i]) :
        F[k] = g[i][j]
  BY <1>1 DEF InOrder
<1> QED
  BY <1>1, <1>2, <1>3 DEF F

\* Two lists, one after the other.
LEMMA BothLocked ==
  ASSUME NEW T, NEW a \in Seq(T), NEW b \in Seq(T), NEW c, NEW H,
         ListLocked(c, a, H), ListLocked(c, b, H)
  PROVE  /\ a \o b \in Seq(T) /\ ListLocked(c, a \o b, H)
         /\ \A k \in 1..Len(a \o b) : \/ \E i \in 1..Len(a) : (a \o b)[k] = a[i]
                                     \/ \E i \in 1..Len(b) : (a \o b)[k] = b[i]
<1> DEFINE N == a \o b
<1>1. /\ N \in Seq(T) /\ Len(N) = Len(a) + Len(b)
      /\ Len(a) \in Nat /\ Len(b) \in Nat
  OBVIOUS
<1>2. \A i \in 1..Len(a) : N[i] = a[i]
  OBVIOUS
<1>3. \A i \in 1..Len(b) : N[Len(a) + i] = b[i]
  OBVIOUS
<1> HIDE DEF N
<1>4. \A k \in 1..Len(N) :
        \/ k \in 1..Len(a)
        \/ k - Len(a) \in 1..Len(b) /\ k = Len(a) + (k - Len(a))
  BY <1>1
<1>5. ASSUME NEW k \in 1..Len(N), NEW row \in NeedsLock(c, N[k])
      PROVE  Locked(N, H, k, row)
  <2>1. CASE k \in 1..Len(a)
    <3>1. N[k] = a[k] /\ Locked(a, H, k, row)
      BY <1>2, <1>5, <2>1 DEF ListLocked
    <3>2. \A j \in 1..(k - 1) : N[j] = a[j]
      BY <1>2, <2>1
    <3> QED BY <3>1, <3>2 DEF Locked
  <2>2. CASE k - Len(a) \in 1..Len(b)
    <3> DEFINE i == k - Len(a)
    <3>1. k = Len(a) + i /\ i \in 1..Len(b)
      BY <1>1, <2>2
    <3> HIDE DEF i
    <3>2. N[k] = b[i] /\ Locked(b, H, i, row)
      BY <1>3, <1>5, <3>1 DEF ListLocked
    <3>3. \A j \in 1..(i - 1) : Len(a) + j \in 1..(k - 1) /\ N[Len(a) + j] = b[j]
      BY <1>1, <1>3, <3>1
    <3> QED BY <3>2, <3>3 DEF Locked
  <2> QED BY <1>4, <2>1, <2>2
<1>6. \A k \in 1..Len(N) : \/ \E i \in 1..Len(a) : N[k] = a[i]
                          \/ \E i \in 1..Len(b) : N[k] = b[i]
  BY <1>2, <1>3, <1>4
<1> QED
  BY <1>1, <1>5, <1>6 DEF ListLocked, N

\* The set of wafers is finite, and so is any part of it.
LEMMA FiniteWafers ==
  ASSUME NEW S \in SUBSET Samples PROVE IsFiniteSet(S)
BY TablesAssumption, FS_Subset

\* A list that a compound statement of call c can put in front of its program.
Work == {"lock", "set", "setif", "trycomplete", "completed", "cascade"}

Fits(c, L, H) ==
    /\ L \in Seq(StatementsOf(c))
    /\ ListLocked(c, L, H)
    /\ \A k \in 1..Len(L) : L[k].do \in Work

LEMMA FitsBoth ==
  ASSUME NEW c, NEW H, NEW a, NEW b, Fits(c, a, H), Fits(c, b, H)
  PROVE  Fits(c, a \o b, H)
<1>1. /\ a \in Seq(StatementsOf(c)) /\ b \in Seq(StatementsOf(c))
      /\ ListLocked(c, a, H) /\ ListLocked(c, b, H)
      /\ \A k \in 1..Len(a) : a[k].do \in Work
      /\ \A k \in 1..Len(b) : b[k].do \in Work
  BY DEF Fits
<1> DEFINE N == a \o b
<1>2. /\ N \in Seq(StatementsOf(c)) /\ ListLocked(c, N, H)
      /\ \A k \in 1..Len(N) : \/ \E i \in 1..Len(a) : N[k] = a[i]
                              \/ \E i \in 1..Len(b) : N[k] = b[i]
  BY <1>1, BothLocked
<1> HIDE DEF N
<1>3. \A k \in 1..Len(N) : N[k].do \in Work
  BY <1>1, <1>2
<1> QED BY <1>2, <1>3 DEF Fits, N

LEMMA FitsEach ==
  ASSUME NEW c, NEW H, NEW n \in Nat, NEW g, DOMAIN g = 1..n,
         g = [i \in 1..n |-> g[i]], \A i \in 1..n : Fits(c, g[i], H)
  PROVE  Fits(c, FlattenSeq(g), H)
<1> DEFINE T == StatementsOf(c)
           F == FlattenSeq(g)
<1>1. \A i \in 1..n : /\ g[i] \in Seq(T) /\ ListLocked(c, g[i], H)
                      /\ \A k \in 1..Len(g[i]) : g[i][k].do \in Work
  BY DEF Fits
<1> HIDE DEF T
<1>2. g \in Seq(Seq(T)) /\ Len(g) = n
  BY <1>1
<1>3. /\ F \in Seq(T)
      /\ \A k \in 1..Len(F) : \E i \in 1..Len(g) : \E j \in 1..Len(g[i]) :
            F[k] = g[i][j]
      /\ \A x, G : (\A i \in 1..Len(g) : ListLocked(x, g[i], G))
                => ListLocked(x, F, G)
  BY <1>2, EachInOrder
<1> HIDE DEF F
<1>4. ListLocked(c, F, H)
  BY <1>1, <1>2, <1>3
<1>5. ASSUME NEW k \in 1..Len(F) PROVE F[k].do \in Work
  <2>1. PICK i \in 1..Len(g) : \E j \in 1..Len(g[i]) : F[k] = g[i][j]
    BY <1>3
  <2>2. PICK j \in 1..Len(g[i]) : F[k] = g[i][j]
    BY <2>1
  <2> QED BY <1>1, <1>2, <2>2
<1> QED BY <1>3, <1>4, <1>5 DEF Fits, F, T

\* A pair of statements, of which the first takes the lock that the second
\* needs, or which need none.
LEMMA FitsPair ==
  ASSUME NEW c, NEW H, NEW x \in StatementsOf(c), NEW y \in StatementsOf(c),
         NeedsLock(c, x) = {}, x.do \in Work, y.do \in Work,
         \A row \in NeedsLock(c, y) :
            HasLock(H, row) \/ x \in {Lock(row), Update(row)}
  PROVE  Fits(c, <<x, y>>, H)
<1> DEFINE L == <<x, y>>
<1>1. /\ L \in Seq(StatementsOf(c)) /\ L[1] = x /\ L[2] = y /\ 1 \in 1..(2 - 1)
      /\ \A i \in 1..Len(L) : i = 1 \/ i = 2
  OBVIOUS
<1> HIDE DEF L
<1>2. \A row \in NeedsLock(c, y) : Locked(L, H, 2, row)
  BY <1>1 DEF Locked
<1>3. ListLocked(c, L, H)
  BY <1>1, <1>2 DEF ListLocked
<1> QED BY <1>1, <1>3 DEF Fits, L

\* A list of statements that need no lock.
LEMMA FitsFree ==
  ASSUME NEW c, NEW H, NEW L \in Seq(StatementsOf(c)),
         \A k \in 1..Len(L) : NeedsLock(c, L[k]) = {} /\ L[k].do \in Work
  PROVE  Fits(c, L, H)
BY DEF Fits, ListLocked

LEMMA FitsNothing == \A c, H : Fits(c, <<>>, H)
BY EmptyList, FitsFree DEF Fits

\* Wafers locked one after the other, and then a statement about each.
LEMMA FitsBatch ==
  ASSUME NEW c, NEW H, NEW q \in Seq(Samples), NEW b,
         b = [i \in DOMAIN q |-> b[i]],
         \A i \in 1..Len(q) : /\ b[i] \in StatementsOf(c)
                              /\ NeedsLock(c, b[i]) = {Sample(q[i])}
                              /\ b[i].do \in Work
  PROVE  Fits(c, [i \in DOMAIN q |-> Lock(Sample(q[i]))] \o b, H)
<1> DEFINE a == [i \in DOMAIN q |-> Lock(Sample(q[i]))]
           N == a \o b
           T == StatementsOf(c)
           n == Len(q)
<1>1. \A i \in 1..n : /\ Sample(q[i]) \in Rows /\ Lock(Sample(q[i])) \in T
                      /\ NeedsLock(c, Lock(Sample(q[i]))) = {}
                      /\ Lock(Sample(q[i])).do \in Work
  <2> TAKE i \in 1..n
  <2>1. Sample(q[i]) \in Rows
    BY RowFacts
  <2>2. Lock(Sample(q[i])) \in Locks
    BY <2>1 DEF Locks, Lock, Modes
  <2> QED BY <2>1, <2>2 DEF Work, StatementsOf, Lock, NeedsLock
<1>2. DOMAIN q = 1..n /\ n \in Nat
  OBVIOUS
<1> HIDE DEF T
<1>3. a \in Seq(T) /\ Len(a) = n /\ \A i \in 1..n : a[i] = Lock(Sample(q[i]))
  BY <1>1, <1>2
<1>4. b \in Seq(T) /\ Len(b) = n
  BY <1>2 DEF T
<1> HIDE DEF a, n
<1>5. /\ N \in Seq(T) /\ Len(N) = n + n
      /\ \A i \in 1..n : N[i] = a[i]
      /\ \A i \in 1..n : N[n + i] = b[i]
      /\ \A k \in 1..Len(N) : \/ k \in 1..n
                              \/ k - n \in 1..n /\ k = n + (k - n)
  BY <1>2, <1>3, <1>4
<1> HIDE DEF N
<1>6. \A k \in 1..Len(N) : N[k].do \in Work
  <2> TAKE k \in 1..Len(N)
  <2>1. CASE k \in 1..n
    BY <1>1, <1>3, <1>5, <2>1
  <2>2. CASE k - n \in 1..n /\ k = n + (k - n)
    <3>1. N[k] = b[k - n]
      BY <1>5, <2>2
    <3> QED BY <2>2, <3>1 DEF n
  <2> QED BY <1>5, <2>1, <2>2
<1>7. ListLocked(c, N, H)
  <2> SUFFICES ASSUME NEW k \in 1..Len(N), NEW row \in NeedsLock(c, N[k])
               PROVE  Locked(N, H, k, row)
    BY DEF ListLocked
  <2>1. CASE k \in 1..n
    BY <1>1, <1>3, <1>5, <2>1
  <2>2. CASE k - n \in 1..n /\ k = n + (k - n)
    <3> DEFINE i == k - n
    <3>1. N[k] = b[i] /\ i \in 1..n
      BY <1>5, <2>2
    <3>2. row = Sample(q[i])
      BY <3>1 DEF n
    <3>3. i \in 1..(k - 1) /\ N[i] = Lock(row)
      BY <1>2, <1>3, <1>5, <2>2, <3>1, <3>2
    <3> QED BY <3>3 DEF Locked
  <2> QED BY <1>5, <2>1, <2>2
<1> QED BY <1>5, <1>6, <1>7 DEF Fits, N, a, T

\* A compound statement that writes no run.
LEMMA FitsStep ==
  ASSUME TxInv, NEW c \in calls, left[c] # <<>>, UNCHANGED calls,
         left[c][1].do \notin {"lock", "commit", "startable", "open", "alldone",
                               "move"},
         c.op \notin {"start", "create_dispatch", "redispatch"},
         NEW w, NEW F, Fits(c, F, held[c]), Proceed(c, w, F),
         DOMAIN w \subseteq Rows,
         \A row \in DOMAIN w : /\ row[1] # "dispatch"
                               /\ w[row] \in WritesOf(c, row),
         WrittenLocked(c, db, w, held[c])
  PROVE  TxInv'
BY QuietStep DEF Fits, Work

LEMMA FitsQuietly ==
  ASSUME TxInv, NEW c \in calls, left[c] # <<>>, UNCHANGED calls,
         left[c][1].do \notin {"lock", "commit", "startable", "open", "alldone",
                               "move"},
         c.op \notin {"start", "create_dispatch", "redispatch"},
         NEW F, Fits(c, F, held[c]), Proceed(c, Nothing, F)
  PROVE  TxInv'
<1>1. DOMAIN Nothing = {} /\ WrittenLocked(c, db, Nothing, held[c])
  BY NothingWritten DEF WrittenLocked
<1> QED BY <1>1, FitsStep

LEMMA ShipDoes ==
  ASSUME TxInv, NEW c \in calls, left[c] # <<>>, ShipSamples(c)
  PROVE  /\ left[c][1].do = "shipsamples" /\ c.op = "ship"
         /\ \E F : Fits(c, F, held[c]) /\ Proceed(c, Nothing, F)
<1> DEFINE st == left[c][1]
           r == st.on
           S == {s \in SamplesOf(r) : View(c)[Sample(s)] = "created"}
           U(s) == <<Update(Sample(s)), SetIf(Sample(s), "created", "shipped")>>
           H == held[c]
<1>1. Head(left[c]) = st /\ st.do = "shipsamples"
  BY HeadIs DEF ShipSamples
<1>2. c \in Calls /\ c.op = "ship" /\ r = c.on /\ c.on \in Requests
  BY <1>1, AtCheck, CheckKinds
<1>3. PICK q \in SetToSeqs(S) :
        Proceed(c, Nothing, FlattenSeq([i \in DOMAIN q |-> U(q[i])]))
  <2>1. SampleTarget.ship = "shipped"
    BY DEF SampleTarget
  <2> QED BY <1>1, <2>1 DEF ShipSamples, ForEach
<1> DEFINE g == [i \in DOMAIN q |-> U(q[i])]
<1>4. S \in SUBSET Samples /\ S \subseteq SamplesOf(c.on)
  BY <1>2 DEF SamplesOf
<1> HIDE DEF S, st
<1>5. DOMAIN q = 1..Len(q) /\ Len(q) \in Nat /\ \A i \in 1..Len(q) : q[i] \in S
  BY <1>4, FiniteWafers, OrderOf
<1>6. ASSUME NEW s \in S PROVE Fits(c, U(s), H)
  <2>1. Sample(s) \in Rows /\ Sample(s)[1] = "sample"
    BY <1>4, RowFacts
  <2>2. Update(Sample(s)) \in StatementsOf(c)
    BY <2>1 DEF StatementsOf, Locks, Modes, Update
  <2>3. SetIf(Sample(s), "created", "shipped") \in StatementsOf(c)
    BY <1>2, <1>4 DEF StatementsOf, SetIfs
  <2>4. /\ NeedsLock(c, Update(Sample(s))) = {}
        /\ NeedsLock(c, SetIf(Sample(s), "created", "shipped")) = {Sample(s)}
        /\ Update(Sample(s)).do \in Work
        /\ SetIf(Sample(s), "created", "shipped").do \in Work
    BY <2>1 DEF Work, NeedsLock, Update, SetIf
  <2> QED BY <2>2, <2>3, <2>4, FitsPair
<1> HIDE DEF U
<1>7. Fits(c, FlattenSeq(g), H)
  BY <1>5, <1>6, FitsEach
<1>8. Proceed(c, Nothing, FlattenSeq(g))
  BY <1>3
<1> HIDE DEF g
<1> QED
  BY <1>1, <1>2, <1>7, <1>8 DEF st

LEMMA ShipStep ==
  ASSUME TxInv, NEW c \in calls, left[c] # <<>>, ShipSamples(c), UNCHANGED calls
  PROVE  TxInv'
BY ShipDoes, FitsQuietly

LEMMA DeleteDoes ==
  ASSUME TxInv, NEW c \in calls, left[c] # <<>>, DeleteSamples(c)
  PROVE  /\ left[c][1].do = "deletesamples" /\ c.op = "delete_draft"
         /\ \E F : Fits(c, F, held[c]) /\ Proceed(c, Nothing, F)
<1> DEFINE st == left[c][1]
           S == SamplesOf(st.on)
           D(s) == <<Lock(Sample(s)), Set(Sample(s), "none")>>
           H == held[c]
<1>1. Head(left[c]) = st /\ st.do = "deletesamples"
  BY HeadIs DEF DeleteSamples
<1>2. c \in Calls /\ c.op = "delete_draft" /\ st.on = c.on /\ c.on \in Requests
  BY <1>1, AtCheck, CheckKinds
<1>3. PICK q \in SetToSeqs(S) :
        Proceed(c, Nothing, FlattenSeq([i \in DOMAIN q |-> D(q[i])]))
  BY <1>1 DEF DeleteSamples, ForEach
<1> DEFINE g == [i \in DOMAIN q |-> D(q[i])]
<1>4. S \in SUBSET Samples /\ S = SamplesOf(c.on)
  BY <1>2 DEF SamplesOf
<1> HIDE DEF S, st
<1>5. DOMAIN q = 1..Len(q) /\ Len(q) \in Nat /\ \A i \in 1..Len(q) : q[i] \in S
  BY <1>4, FiniteWafers, OrderOf
<1>6. ASSUME NEW s \in S PROVE Fits(c, D(s), H)
  <2>1. Sample(s) \in Rows /\ Sample(s)[1] = "sample"
    BY <1>4, RowFacts
  <2>2. Lock(Sample(s)) \in StatementsOf(c)
    BY <2>1 DEF StatementsOf, Locks, Modes, Lock
  <2>3. Set(Sample(s), "none") \in StatementsOf(c)
    BY <1>2, <1>4 DEF StatementsOf, Sets
  <2>4. /\ NeedsLock(c, Lock(Sample(s))) = {}
        /\ NeedsLock(c, Set(Sample(s), "none")) = {Sample(s)}
        /\ Lock(Sample(s)).do \in Work
        /\ Set(Sample(s), "none").do \in Work
    BY <2>1 DEF Work, NeedsLock, Lock, Set
  <2> QED BY <2>2, <2>3, <2>4, FitsPair
<1> HIDE DEF D
<1>7. Fits(c, FlattenSeq(g), H)
  BY <1>5, <1>6, FitsEach
<1>8. Proceed(c, Nothing, FlattenSeq(g))
  BY <1>3
<1> HIDE DEF g
<1> QED
  BY <1>1, <1>2, <1>7, <1>8 DEF st

LEMMA DeleteStep ==
  ASSUME TxInv, NEW c \in calls, left[c] # <<>>, DeleteSamples(c), UNCHANGED calls
  PROVE  TxInv'
BY DeleteDoes, FitsQuietly

\* The list of a cascade over wafers.
LEMMA CascadeFits ==
  ASSUME NEW c \in Calls, c.op \in Cascading, NEW H, NEW S \in SUBSET Samples,
         NEW L \in Cascade(S)
  PROVE  Fits(c, L, H)
<1>1. PICK q \in SetToSeqs(S) :
        L = [i \in DOMAIN q |-> Lock(Sample(q[i]))]
                \o [i \in DOMAIN q |-> Check("trycomplete", q[i])]
  BY DEF Cascade
<1>2. q \in Seq(Samples) /\ \A i \in 1..Len(q) : q[i] \in Samples
  <2>1. q \in Seq(S) /\ DOMAIN q = 1..Len(q) /\ \A i \in 1..Len(q) : q[i] \in S
    BY FiniteWafers, OrderOf
  <2> QED BY <2>1
<1> DEFINE b == [i \in DOMAIN q |-> Check("trycomplete", q[i])]
<1>3. ASSUME NEW i \in 1..Len(q)
      PROVE  /\ Check("trycomplete", q[i]) \in StatementsOf(c)
             /\ NeedsLock(c, Check("trycomplete", q[i])) = {Sample(q[i])}
             /\ Check("trycomplete", q[i]).do \in Work
  <2>1. Check("trycomplete", q[i]) \in Cascades
    BY <1>2 DEF Cascades
  <2>2. Check("trycomplete", q[i]) \in Checks(c)
    BY <2>1 DEF Checks, Cascading, Unloading, Recording
  <2> QED BY <2>2 DEF Work, StatementsOf, NeedsLock, Check
<1>4. /\ b = [i \in DOMAIN q |-> b[i]]
      /\ \A i \in 1..Len(q) : /\ b[i] \in StatementsOf(c)
                              /\ NeedsLock(c, b[i]) = {Sample(q[i])}
                              /\ b[i].do \in Work
  <2>1. DOMAIN q = 1..Len(q)
    BY <1>2
  <2> QED BY <1>3, <2>1
<1>5. L = [i \in DOMAIN q |-> Lock(Sample(q[i]))] \o b
  BY <1>1
<1> HIDE DEF b
<1> QED
  BY <1>2, <1>4, <1>5, FitsBatch

LEMMA CascadeDoes ==
  ASSUME TxInv, NEW c \in calls, left[c] # <<>>, CascadeBatch(c)
  PROVE  /\ left[c][1].do = "cascade" /\ c.op \in Cascading
         /\ \E F : Fits(c, F, held[c]) /\ Proceed(c, Nothing, F)
<1> DEFINE st == left[c][1]
           S == MembersOf(View(c), st.on)
<1>1. Head(left[c]) = st /\ st.do = "cascade"
  BY HeadIs DEF CascadeBatch
<1>2. c \in Calls /\ c.op \in Cascading
  BY <1>1, AtCheck, CheckKinds
<1>3. PICK L \in Cascade(S) : Proceed(c, Nothing, L)
  BY <1>1 DEF CascadeBatch
<1>4. S \in SUBSET Samples
  BY DEF MembersOf
<1> HIDE DEF S
<1>5. Fits(c, L, held[c])
  BY <1>2, <1>4, CascadeFits
<1> QED
  BY <1>1, <1>2, <1>3, <1>5

LEMMA CascadeStep ==
  ASSUME TxInv, NEW c \in calls, left[c] # <<>>, CascadeBatch(c), UNCHANGED calls
  PROVE  TxInv'
BY CascadeDoes, FitsQuietly DEF Cascading, Unloading, Recording

LEMMA RollStep ==
  ASSUME TxInv, NEW c \in calls, left[c] # <<>>, RollVerdicts(c), UNCHANGED calls
  PROVE  TxInv'
<1> DEFINE st == left[c][1]
           x == WipOf[st.on]
           S == MembersOf(View(c), x)
           rows == {Progress(s, TypeOf[x]) : s \in S}
           w == [row \in rows |-> st.on]
<1>1. Head(left[c]) = st /\ st.do = "roll"
  BY HeadIs DEF RollVerdicts
<1>2. /\ c \in Calls /\ c.op \in Unloading /\ st.on = c.on
      /\ c.on \in Dispatches
  BY <1>1, AtCheck, CheckKinds
<1>3. PICK L \in Cascade(S) : Proceed(c, w, L)
  BY <1>1 DEF RollVerdicts
<1>4. S \in SUBSET Samples /\ TypeOf[x] \in Types
  BY <1>2, TablesAssumption DEF MembersOf
<1>5. DOMAIN w = rows /\ \A row \in rows : w[row] = c.on
  BY <1>2
<1> HIDE DEF S, w
<1>6. \A row \in rows : row \in Rows /\ row[1] = "progress"
  BY <1>4, RowFacts
<1>7. Fits(c, L, held[c])
  BY <1>2, <1>4, CascadeFits DEF Cascading
<1>8. \A row \in rows : c.on \in WritesOf(c, row)
  BY <1>2, <1>6 DEF WritesOf, Unloading
<1> HIDE DEF rows
<1>9. WrittenLocked(c, db, w, held[c])
  BY <1>5, <1>6 DEF WrittenLocked
<1>10. c.op \notin {"start", "create_dispatch", "redispatch"}
  BY <1>2 DEF Unloading
<1>11. DOMAIN w \subseteq Rows
       /\ \A row \in DOMAIN w : row[1] # "dispatch" /\ w[row] \in WritesOf(c, row)
  BY <1>5, <1>6, <1>8
<1> QED
  BY <1>1, <1>3, <1>7, <1>9, <1>10, <1>11, FitsStep

LEMMA ExceptDoes ==
  ASSUME TxInv, NEW c \in calls, left[c] # <<>>, ExceptBatch(c)
  PROVE  /\ left[c][1].do = "except" /\ c.op = "abort_wip"
         /\ \E F : Fits(c, F, held[c]) /\ Proceed(c, Nothing, F)
<1> DEFINE st == left[c][1]
           S == MembersOf(View(c), st.on)
           X(s) == SetIf(Sample(s), "processing", "processing_exception")
<1>1. Head(left[c]) = st /\ st.do = "except"
  BY HeadIs DEF ExceptBatch
<1>2. c \in Calls /\ c.op = "abort_wip"
  BY <1>1, AtCheck, CheckKinds
<1>3. PICK q \in SetToSeqs(S) :
        Proceed(c, Nothing, [i \in DOMAIN q |-> Lock(Sample(q[i]))]
                                \o [i \in DOMAIN q |-> X(q[i])])
  <2>1. SampleTarget.processing_exception = "processing_exception"
    BY DEF SampleTarget
  <2> QED BY <1>1, <2>1 DEF ExceptBatch
<1>4. S \in SUBSET Samples
  BY DEF MembersOf
<1> HIDE DEF S
<1>5. q \in Seq(Samples) /\ \A i \in 1..Len(q) : q[i] \in Samples
  <2>1. q \in Seq(S) /\ DOMAIN q = 1..Len(q) /\ \A i \in 1..Len(q) : q[i] \in S
    BY <1>4, FiniteWafers, OrderOf
  <2> QED BY <1>4, <2>1
<1> DEFINE b == [i \in DOMAIN q |-> X(q[i])]
<1>6. ASSUME NEW s \in Samples
      PROVE  /\ X(s) \in StatementsOf(c) /\ NeedsLock(c, X(s)) = {Sample(s)}
             /\ X(s).do \in Work
  <2>1. X(s) \in SetIfs(c)
    BY <1>2 DEF SetIfs
  <2>2. Sample(s)[1] = "sample"
    BY RowFacts
  <2> QED BY <2>1, <2>2 DEF Work, StatementsOf, NeedsLock, SetIf
<1> HIDE DEF X
<1>7. /\ b = [i \in DOMAIN q |-> b[i]]
      /\ \A i \in 1..Len(q) : /\ b[i] \in StatementsOf(c)
                              /\ NeedsLock(c, b[i]) = {Sample(q[i])}
                              /\ b[i].do \in Work
  <2>1. DOMAIN q = 1..Len(q)
    BY <1>5
  <2> QED BY <1>5, <1>6, <2>1
<1> DEFINE L == [i \in DOMAIN q |-> Lock(Sample(q[i]))] \o b
<1>8. Proceed(c, Nothing, L)
  BY <1>3
<1> HIDE DEF b
<1>9. Fits(c, L, held[c])
  BY <1>5, <1>7, FitsBatch
<1> HIDE DEF L
<1> QED
  BY <1>1, <1>2, <1>8, <1>9

LEMMA ExceptStep ==
  ASSUME TxInv, NEW c \in calls, left[c] # <<>>, ExceptBatch(c), UNCHANGED calls
  PROVE  TxInv'
BY ExceptDoes, FitsQuietly

\* The rows and the references that are made for one wafer of a request.
LEMMA TypesFinite ==
  ASSUME NEW s
  PROVE  /\ IsFiniteSet({Refer(Type(t)) : t \in Types})
         /\ IsFiniteSet({SetIf(Progress(s, t), "none", "pending") : t \in Types})
<1> DEFINE f == [t \in Types |-> Refer(Type(t))]
           g == [t \in Types |-> SetIf(Progress(s, t), "none", "pending")]
           A == {Refer(Type(t)) : t \in Types}
           B == {SetIf(Progress(s, t), "none", "pending") : t \in Types}
<1>1. IsFiniteSet(Types)
  BY TablesAssumption
<1>2. f \in Surjection(Types, A) /\ g \in Surjection(Types, B)
  BY DEF Surjection
<1> HIDE DEF f, g, A, B
<1>3. IsFiniteSet(A) /\ IsFiniteSet(B)
  BY <1>1, <1>2, FS_Surjection
<1> QED BY <1>3 DEF A, B

LEMMA ReceivedDoes ==
  ASSUME TxInv, NEW c \in calls, left[c] # <<>>, CheckReceived(c)
  PROVE  LET r == left[c][1].on
             v == View(c)
         IN /\ left[c][1].do = "received"
            /\ c.op \in {"receive", "void", "return"}
            /\ r = Owner[c.on] /\ r \in Requests /\ HasLock(held[c], Request(r))
            /\ \E F : /\ Fits(c, F, held[c])
                     /\ \/ /\ v[Request(r)] = "sample_shipped"
                           /\ Accounted(v, r)
                           /\ Proceed(c, Write(Request(r), "in_progress"), F)
                        \/ /\ ~(v[Request(r)] = "sample_shipped"
                                    /\ Accounted(v, r))
                           /\ Proceed(c, Nothing, F)
<1> DEFINE st == left[c][1]
           r == st.on
           S == SamplesOf(r)
           A == {Refer(Type(t)) : t \in Types}
           B(s) == {SetIf(Progress(s, t), "none", "pending") : t \in Types}
           I(s) == <<Refer(Sample(s))>> \o SetToSeq(A) \o SetToSeq(B(s))
           w == Write(Request(r), "in_progress")
           H == held[c]
           moves == View(c)[Request(r)] = "sample_shipped" /\ Accounted(View(c), r)
<1>1. /\ Head(left[c]) = st /\ st.do = "received"
      /\ \A row \in NeedsLock(c, st) : HasLock(H, row)
  BY HeadIs DEF CheckReceived
<1>2. /\ c \in Calls /\ c.op \in {"receive", "void", "return"}
      /\ r = Owner[c.on] /\ r \in Requests
  BY <1>1, AtCheck, CheckKinds
<1>3. HasLock(H, Request(r))
  BY <1>1 DEF NeedsLock
<1>4. ASSUME \E q \in SetToSeqs(S) :
               Proceed(c, w, FlattenSeq([i \in DOMAIN q |-> I(q[i])]))
      PROVE  \E F : Fits(c, F, H) /\ Proceed(c, w, F)
  <2>1. PICK q \in SetToSeqs(S) :
          Proceed(c, w, FlattenSeq([i \in DOMAIN q |-> I(q[i])]))
    BY <1>4
  <2> DEFINE g == [i \in DOMAIN q |-> I(q[i])]
  <2>2. S \in SUBSET Samples /\ S = SamplesOf(Owner[c.on])
    BY <1>2 DEF SamplesOf
  <2> HIDE DEF S
  <2>3. /\ DOMAIN q = 1..Len(q) /\ Len(q) \in Nat
        /\ \A i \in 1..Len(q) : q[i] \in S
    BY <2>2, FiniteWafers, OrderOf
  <2>4. ASSUME NEW s \in S PROVE Fits(c, I(s), H)
    <3>1. A \subseteq StatementsOf(c)
      BY DEF StatementsOf, Locks, Modes, Refer
    <3>2. B(s) \subseteq StatementsOf(c)
      <4>1. B(s) \subseteq SetIfs(c)
        BY <1>2, <2>2 DEF SetIfs
      <4> QED BY <4>1 DEF StatementsOf
    <3>3. Refer(Sample(s)) \in StatementsOf(c)
      <4>1. Sample(s) \in Rows
        BY <2>2, RowFacts
      <4> QED BY <4>1 DEF StatementsOf, Locks, Modes, Refer
    <3>4. \A x \in A : NeedsLock(c, x) = {} /\ x.do \in Work
      BY DEF Work, NeedsLock, Refer
    <3>5. \A x \in B(s) : NeedsLock(c, x) = {} /\ x.do \in Work
      <4>1. \A t \in Types : Progress(s, t)[1] = "progress"
        BY DEF Progress
      <4> QED BY <4>1 DEF Work, NeedsLock, SetIf
    <3>6. NeedsLock(c, Refer(Sample(s))) = {} /\ Refer(Sample(s)).do \in Work
      BY DEF Work, NeedsLock, Refer
    <3>7. SetToSeq(A) \in Seq(A) /\ SetToSeq(B(s)) \in Seq(B(s))
      <4>1. IsFiniteSet(A) /\ IsFiniteSet(B(s))
        BY TypesFinite
      <4> HIDE DEF A, B
      <4> QED BY <4>1, OneOrder
    <3> HIDE DEF A, B
    <3>8. Fits(c, SetToSeq(A), H)
      <4>1. /\ SetToSeq(A) \in Seq(StatementsOf(c))
            /\ \A k \in 1..Len(SetToSeq(A)) : SetToSeq(A)[k] \in A
        BY <3>1, <3>7
      <4> QED BY <3>4, <4>1, FitsFree
    <3>9. Fits(c, SetToSeq(B(s)), H)
      <4>1. /\ SetToSeq(B(s)) \in Seq(StatementsOf(c))
            /\ \A k \in 1..Len(SetToSeq(B(s))) : SetToSeq(B(s))[k] \in B(s)
        BY <3>2, <3>7
      <4> QED BY <3>5, <4>1, FitsFree
    <3>10. Fits(c, <<Refer(Sample(s))>>, H)
      <4> DEFINE L == <<Refer(Sample(s))>>
      <4>1. /\ L \in Seq(StatementsOf(c))
            /\ \A k \in 1..Len(L) : L[k] = Refer(Sample(s))
        BY <3>3
      <4> HIDE DEF L
      <4>2. Fits(c, L, H)
        BY <3>6, <4>1, FitsFree
      <4> QED BY <4>2 DEF L
    <3>11. Fits(c, <<Refer(Sample(s))>> \o SetToSeq(A), H)
      BY <3>8, <3>10, FitsBoth
    <3> QED BY <3>9, <3>11, FitsBoth
  <2> HIDE DEF I
  <2>5. Fits(c, FlattenSeq(g), H)
    BY <2>3, <2>4, FitsEach
  <2>6. Proceed(c, w, FlattenSeq(g))
    BY <2>1
  <2> QED BY <2>5, <2>6
<1>5. \/ ~moves /\ Proceed(c, Nothing, <<>>)
      \/ /\ moves
         /\ \E q \in SetToSeqs(S) :
                Proceed(c, w, FlattenSeq([i \in DOMAIN q |-> I(q[i])]))
  BY <1>1 DEF CheckReceived, ForEach, Accounted
<1>6. CASE ~moves /\ Proceed(c, Nothing, <<>>)
  <2>1. Fits(c, <<>>, H)
    BY FitsNothing
  <2> QED BY <1>1, <1>2, <1>3, <1>6, <2>1
<1>7. CASE moves /\ \E F : Fits(c, F, H) /\ Proceed(c, w, F)
  BY <1>1, <1>2, <1>3, <1>7
<1> HIDE DEF I, w, moves
<1> QED
  BY <1>4, <1>5, <1>6, <1>7

LEMMA ReceivedStep ==
  ASSUME TxInv, NEW c \in calls, left[c] # <<>>, CheckReceived(c), UNCHANGED calls
  PROVE  TxInv'
<1> DEFINE r == left[c][1].on
           w == Write(Request(r), "in_progress")
           H == held[c]
<1>1. /\ left[c][1].do = "received" /\ c.op \in {"receive", "void", "return"}
      /\ r \in Requests /\ HasLock(H, Request(r))
  BY ReceivedDoes
<1>2. PICK F : Fits(c, F, H) /\ (Proceed(c, w, F) \/ Proceed(c, Nothing, F))
  BY ReceivedDoes
<1>3. Request(r) \in Rows /\ Request(r)[1] = "request"
  BY <1>1, RowFacts
<1>4. "in_progress" \in WritesOf(c, Request(r))
  BY <1>1, <1>3 DEF WritesOf, Cascading, Unloading, Recording
<1>5. DOMAIN w = {Request(r)} /\ w[Request(r)] = "in_progress"
  BY DEF Write
<1> HIDE DEF w, r
<1>6. WrittenLocked(c, db, w, H)
  BY <1>1, <1>3, <1>5 DEF WrittenLocked
<1>7. /\ DOMAIN w \subseteq Rows
      /\ \A row \in DOMAIN w : row[1] # "dispatch" /\ w[row] \in WritesOf(c, row)
  BY <1>3, <1>4, <1>5
<1> QED
  BY <1>1, <1>2, <1>6, <1>7, FitsStep, FitsQuietly

LEMMA ValidateDoes ==
  ASSUME TxInv, NEW c \in calls, left[c] # <<>>, ValidateSamples(c)
  PROVE  /\ left[c][1].do = "validate" /\ c.op \in {"create_wip", "add_samples"}
         /\ \/ Refuse(c)
            \/ /\ \A s \in c.samples :
                    View(c)[Request(Owner[s])] = "in_progress"
               /\ \E F : Fits(c, F, held[c]) /\ Proceed(c, Nothing, F)
<1> DEFINE st == Head(left[c])
           v == View(c)
           x == st.on
           I(s) == <<Refer(Sample(s)), Set(Member(x, s), "in")>>
           U(s) == <<Update(Sample(s)), Set(Sample(s), SampleTarget.start_processing)>>
           Stale == {s \in st.samples : v[Sample(s)] = "received"}
           First == IF v[Wip(x)] = "none"
                    THEN <<Refer(Type(TypeOf[x])), Set(Wip(x), "created")>>
                    ELSE <<>>
           H == held[c]
           M == mine[c]
<1>1. /\ st = left[c][1] /\ st.do = "validate"
      /\ CallInv(c, db, left[c], M, H)
      /\ \A row \in NeedsLock(c, st) : HasLock(H, row)
      /\ \A row \in Rows : row \in DOMAIN M => v[row] = M[row]
      /\ \A row \in Rows : row \notin DOMAIN M => v[row] = db[row]
      /\ \A row \in DOMAIN M : M[row] \in WritesOf(c, row)
      /\ 1 \in 1..Len(left[c])
  BY HeadIs, AfterHead DEF ValidateSamples
<1>2. /\ c \in Calls /\ c.op \in {"create_wip", "add_samples"}
      /\ x = c.on /\ c.on \in Wips
      /\ st.samples = c.samples /\ c.samples \subseteq Samples
  BY <1>1, AtCheck, CheckKinds
<1>3. SampleTarget.start_processing = "processing"
  BY DEF SampleTarget
<1>4. \/ Refuse(c)
      \/ /\ \A s \in st.samples : v[Request(Owner[s])] = "in_progress"
         /\ \E a \in SetToSeqs(st.samples), b \in SetToSeqs(Stale) :
               Proceed(c, Nothing,
                       First \o FlattenSeq([i \in DOMAIN a |-> I(a[i])])
                             \o FlattenSeq([i \in DOMAIN b |-> U(b[i])]))
  <2>1. \/ Refuse(c)
        \/ /\ \A s \in st.samples : v[Request(Owner[s])] = "in_progress"
           /\ \E q \in ForEach(st.samples, I), u \in ForEach(Stale, U) :
                 Proceed(c, Nothing, First \o q \o u)
    BY Zenon DEF ValidateSamples
  <2> QED BY <2>1 DEF ForEach
<1>5. CASE Refuse(c)
  BY <1>1, <1>2, <1>5
<1>6. ASSUME \E a \in SetToSeqs(st.samples), b \in SetToSeqs(Stale) :
            Proceed(c, Nothing,
                    First \o FlattenSeq([i \in DOMAIN a |-> I(a[i])])
                          \o FlattenSeq([i \in DOMAIN b |-> U(b[i])]))
      PROVE  \E F : Fits(c, F, H) /\ Proceed(c, Nothing, F)
  <2>1. PICK a \in SetToSeqs(c.samples), b \in SetToSeqs(Stale) :
          Proceed(c, Nothing,
                  First \o FlattenSeq([i \in DOMAIN a |-> I(a[i])])
                        \o FlattenSeq([i \in DOMAIN b |-> U(b[i])]))
    BY <1>2, <1>6
  <2>2. Stale \in SUBSET Samples /\ Stale \subseteq c.samples
    BY <1>2
  <2>3. \A s \in Samples :
            /\ Sample(s) \in Rows /\ Sample(s)[1] = "sample"
            /\ Member(x, s)[1] = "member"
    BY <1>2, RowFacts
  <2>4. Wip(x) \in Rows /\ Wip(x)[1] = "wip" /\ TypeOf[x] \in Types
    BY <1>2, RowFacts, TablesAssumption
  <2>5. c.op = "add_samples" => HasLock(H, Wip(x))
    BY <1>1 DEF Work, NeedsLock
  <2>6. c.op = "add_samples" => v[Wip(x)] # "none"
    <3> SUFFICES ASSUME c.op = "add_samples" PROVE v[Wip(x)] # "none"
      OBVIOUS
    <3>1. Tested(left[c], H, 1, Check("open", c.on), Wip(c.on),
                 db[Wip(c.on)] # "none")
      BY <1>1 DEF CallInv, JoinTested
    <3>2. db[Wip(x)] # "none"
      BY <1>2, <3>1 DEF Tested, Ahead
    <3>3. WritesOf(c, Wip(x)) = {}
      BY <2>4 DEF WritesOf, Cascading, Unloading, Recording
    <3> QED BY <1>1, <2>4, <3>2, <3>3
  <2> HIDE DEF Stale, x, v, st
  <2>7. Fits(c, First, H)
    <3>1. CASE v[Wip(x)] = "none"
      <4>1. c.op = "create_wip"
        BY <1>2, <2>6, <3>1
      <4>2. Refer(Type(TypeOf[x])) \in StatementsOf(c)
        BY <2>4 DEF StatementsOf, Locks, Modes, Refer
      <4>3. Set(Wip(x), "created") \in StatementsOf(c)
        BY <1>2, <4>1 DEF StatementsOf, Sets
      <4>4. /\ NeedsLock(c, Refer(Type(TypeOf[x]))) = {}
            /\ NeedsLock(c, Set(Wip(x), "created")) = {}
            /\ Refer(Type(TypeOf[x])).do \in Work
            /\ Set(Wip(x), "created").do \in Work
        BY <2>4 DEF Work, NeedsLock, Refer, Set
      <4>5. Fits(c, <<Refer(Type(TypeOf[x])), Set(Wip(x), "created")>>, H)
        BY <4>2, <4>3, <4>4, FitsPair
      <4> QED BY <3>1, <4>5
    <3>2. CASE v[Wip(x)] # "none"
      <4>1. Fits(c, <<>>, H)
        BY FitsNothing
      <4> QED BY <3>2, <4>1
    <3> QED BY <3>1, <3>2
  <2> HIDE DEF First
  <2>8. ASSUME NEW s \in c.samples PROVE Fits(c, I(s), H)
    <3>1. Refer(Sample(s)) \in StatementsOf(c)
      BY <1>2, <2>3 DEF StatementsOf, Locks, Modes, Refer
    <3>2. Set(Member(x, s), "in") \in StatementsOf(c)
      <4>1. Set(Member(x, s), "in") \in Sets(c)
        BY <1>2 DEF Sets
      <4> QED BY <4>1 DEF StatementsOf
    <3>3. /\ NeedsLock(c, Refer(Sample(s))) = {}
          /\ \A row \in NeedsLock(c, Set(Member(x, s), "in")) : HasLock(H, row)
          /\ Refer(Sample(s)).do \in Work
          /\ Set(Member(x, s), "in").do \in Work
      BY <1>2, <2>3, <2>5 DEF Work, NeedsLock, Refer, Set
    <3> QED BY <3>1, <3>2, <3>3, FitsPair
  <2>9. ASSUME NEW s \in c.samples PROVE Fits(c, U(s), H)
    <3>0. U(s) = <<Update(Sample(s)), Set(Sample(s), "processing")>>
      BY <1>3
    <3>1. Update(Sample(s)) \in StatementsOf(c)
      BY <1>2, <2>3 DEF StatementsOf, Locks, Modes, Update
    <3>2. Set(Sample(s), "processing") \in StatementsOf(c)
      <4>1. Set(Sample(s), "processing") \in Sets(c)
        BY <1>2 DEF Sets
      <4> QED BY <4>1 DEF StatementsOf
    <3>3. /\ NeedsLock(c, Update(Sample(s))) = {}
          /\ NeedsLock(c, Set(Sample(s), "processing")) = {Sample(s)}
          /\ Update(Sample(s)).do \in Work
          /\ Set(Sample(s), "processing").do \in Work
      BY <1>2, <2>3 DEF Work, NeedsLock, Update, Set
    <3> QED BY <3>0, <3>1, <3>2, <3>3, FitsPair
  <2> HIDE DEF I, U
  <2> DEFINE g == [i \in DOMAIN a |-> I(a[i])]
             h == [i \in DOMAIN b |-> U(b[i])]
  <2>10. /\ DOMAIN a = 1..Len(a) /\ Len(a) \in Nat
         /\ \A i \in 1..Len(a) : a[i] \in c.samples
    BY <1>2, FiniteWafers, OrderOf
  <2>11. /\ DOMAIN b = 1..Len(b) /\ Len(b) \in Nat
         /\ \A i \in 1..Len(b) : b[i] \in Stale
    BY <2>2, FiniteWafers, OrderOf
  <2>12. Fits(c, FlattenSeq(g), H)
    BY <2>8, <2>10, FitsEach
  <2>13. Fits(c, FlattenSeq(h), H)
    BY <2>2, <2>9, <2>11, FitsEach
  <2>14. Proceed(c, Nothing, First \o FlattenSeq(g) \o FlattenSeq(h))
    BY <2>1
  <2> HIDE DEF g, h
  <2>15. Fits(c, First \o FlattenSeq(g), H)
    BY <2>7, <2>12, FitsBoth
  <2>16. Fits(c, First \o FlattenSeq(g) \o FlattenSeq(h), H)
    BY <2>13, <2>15, FitsBoth
  <2> QED BY <2>14, <2>16
<1>7. CASE /\ \A s \in st.samples : v[Request(Owner[s])] = "in_progress"
           /\ \E F : Fits(c, F, H) /\ Proceed(c, Nothing, F)
  BY <1>1, <1>2, <1>7
<1> HIDE DEF I, U, First, Stale, v
<1> QED
  BY <1>4, <1>5, <1>6, <1>7

LEMMA ValidateStep ==
  ASSUME TxInv, NEW c \in calls, left[c] # <<>>, ValidateSamples(c),
         UNCHANGED calls
  PROVE  TxInv'
BY ValidateDoes, FitsQuietly, RefuseStep

\* Every step of every call keeps the invariant.
THEOREM StepInv == TxInv /\ [Next]_txVars => TxInv'
<1> SUFFICES ASSUME TxInv, [Next]_txVars PROVE TxInv'
  OBVIOUS
<1>1. CASE UNCHANGED txVars
  BY <1>1 DEF txVars, TxInv, TypeOK, LocksExclude, FreshKeys
<1>2. ASSUME NEW c \in calls, Step(c) PROVE TxInv'
  <2>1. left[c] # <<>> /\ UNCHANGED calls
    BY <1>2 DEF Step
  <2>2. CASE AcquireLock(c)
    BY <2>1, <2>2, AcquireStep
  <2>3. CASE MoveRow(c)
    BY <2>1, <2>3, MoveStep
  <2>4. CASE SetRow(c)
    BY <2>1, <2>4, SetStep
  <2>5. CASE TestCondition(c)
    BY <2>1, <2>5, TestStep
  <2>6. CASE ShipSamples(c)
    BY <2>1, <2>6, ShipStep
  <2>7. CASE DeleteSamples(c)
    BY <2>1, <2>7, DeleteStep
  <2>8. CASE CheckReceived(c)
    BY <2>1, <2>8, ReceivedStep
  <2>9. CASE CheckCompleted(c)
    BY <2>1, <2>9, CheckCompletedStep
  <2>10. CASE ValidateSamples(c)
    BY <2>1, <2>10, ValidateStep
  <2>11. CASE InsertDispatch(c)
    BY <2>1, <2>11, InsertStep
  <2>12. CASE CascadeBatch(c)
    BY <2>1, <2>12, CascadeStep
  <2>13. CASE TryComplete(c)
    BY <2>1, <2>13, TryCompleteStep
  <2>14. CASE RollVerdicts(c)
    BY <2>1, <2>14, RollStep
  <2>15. CASE ExceptBatch(c)
    BY <2>1, <2>15, ExceptStep
  <2>16. CASE AutoComplete(c)
    BY <2>1, <2>16, AutoCompleteStep
  <2>17. CASE Head(left[c]).do = "commit" /\ CommitTransaction(c)
    BY <2>1, <2>17, CommitStep
  <2>18. CASE BreakDeadlock(c)
    BY <2>1, <2>18, RefuseStep DEF BreakDeadlock
  <2> QED
    BY <1>2, <2>2, <2>3, <2>4, <2>5, <2>6, <2>7, <2>8, <2>9, <2>10, <2>11,
       <2>12, <2>13, <2>14, <2>15, <2>16, <2>17, <2>18 DEF Step
<1> QED
  BY <1>1, <1>2 DEF Next

\* The invariant holds in every state, for any calls made side by side.
THEOREM TransactionsInv == Spec => []TxInv
BY InitInv, StepInv, PTL DEF Spec

-----------------------------------------------------------------------------
\* What the invariant says of the runs of the model.

\* Every row holds a value of its table, and a call that has ended has no
\* transaction open.
THEOREM TransactionsTypes == Spec => []TypeOK
<1>1. TxInv => TypeOK
  BY DEF TxInv
<1> QED BY <1>1, TransactionsInv, PTL

\* Two locks on one row that keep writers out are never held by two calls.
LEMMA OneLocks ==
  ASSUME TxInv, NEW c \in calls, NEW o \in calls, NEW row,
         HasLock(held[c], row), HasLock(held[o], row)
  PROVE  c = o
<1>1. PICK m \in {"write", "update"} : <<row, m>> \in held[c]
  BY DEF HasLock
<1>2. PICK n \in {"write", "update"} : <<row, n>> \in held[o]
  BY DEF HasLock
<1>3. ~Compatible(m, n)
  BY <1>1, <1>2 DEF Compatible
<1>4. <<row, m>>[1] = <<row, n>>[1] /\ <<row, m>>[2] = m /\ <<row, n>>[2] = n
  OBVIOUS
<1> QED BY <1>1, <1>2, <1>3, <1>4 DEF TxInv, LocksExclude

\* No two open transactions have written the same request, wafer, WIP or run:
\* whoever writes one has its row, or for a new run its WIP's row, locked.
THEOREM WritesNeverConflict == Spec => []NoConflictingWrites
<1>1. ASSUME TxInv, NEW c \in calls, NEW o \in calls, c # o,
             NEW row \in DOMAIN mine[c] \cap DOMAIN mine[o]
      PROVE  row[1] \notin {"request", "sample", "wip", "dispatch"}
  <2>1. /\ WrittenLocked(c, db, mine[c], held[c])
        /\ WrittenLocked(o, db, mine[o], held[o])
        /\ NewWip(c, db, left[c]) /\ NewWip(o, db, left[o])
        /\ c \in Calls /\ o \in Calls
    BY <1>1 DEF TxInv, CallInv, CallTypeOK
  <2>2. left[c] # <<>> /\ left[o] # <<>>
    <3>1. DOMAIN <<>> = {}
      OBVIOUS
    <3>2. /\ left[c] = <<>> => DOMAIN mine[c] = {}
          /\ left[o] = <<>> => DOMAIN mine[o] = {}
      BY <1>1, <3>1 DEF TxInv, TypeOK
    <3> QED BY <1>1, <3>2
  <2>3. row \in Rows
    BY <1>1 DEF TxInv, TypeOK
  <2>4. CASE row[1] \in {"request", "sample"}
    <3>1. HasLock(held[c], row) /\ HasLock(held[o], row)
      BY <1>1, <2>1, <2>4 DEF WrittenLocked
    <3> QED BY <1>1, <3>1, OneLocks
  <2>5. CASE row[1] = "wip"
    <3>1. PICK w \in Wips : row = Wip(w) /\ row[2] = w
      BY <2>3, <2>5, RowKinds, RowFacts
    <3>2. /\ (HasLock(held[c], row) /\ db[row] # "none") \/ Creates(c, w)
          /\ (HasLock(held[o], row) /\ db[row] # "none") \/ Creates(o, w)
      BY <1>1, <2>1, <2>5, <3>1 DEF WrittenLocked
    <3>3. /\ Creates(c, w) => db[row] = "none"
          /\ Creates(o, w) => db[row] = "none"
      BY <2>1, <2>2, <3>1 DEF NewWip, Creates
    <3>4. ~(Creates(c, w) /\ Creates(o, w))
      BY <1>1 DEF TxInv, FreshKeys
    <3>5. HasLock(held[c], row) /\ HasLock(held[o], row)
      BY <3>2, <3>3, <3>4
    <3> QED BY <1>1, <3>5, OneLocks
  <2>6. CASE row[1] = "dispatch"
    <3> DEFINE lock == IF db[row] = "none" THEN Wip(WipOf[row[2]]) ELSE row
    <3>1. HasLock(held[c], lock) /\ HasLock(held[o], lock)
      BY <1>1, <2>1, <2>6 DEF WrittenLocked
    <3> HIDE DEF lock
    <3> QED BY <1>1, <3>1, OneLocks
  <2> QED BY <2>4, <2>5, <2>6
<1>2. TxInv => NoConflictingWrites
  BY <1>1 DEF NoConflictingWrites, TxInv, LocksExclude
<1> QED BY <1>2, TransactionsInv, PTL

\* However many calls create or replace runs side by side, a WIP has at most
\* one run that has not ended.
THEOREM RunsTakeTurns == Spec => []OneActiveRun
<1>1. TxInv => OneActiveRun
  BY DEF TxInv, OneActiveRun
<1> QED BY <1>1, TransactionsInv, PTL

\* The tables only change when a transaction commits.
LEMMA OnlyCommitsChange ==
  ASSUME NEW c, Step(c)
  PROVE  \/ db' = db
         \/ Head(left[c]).do = "commit" /\ CommitTransaction(c)
<1>1. \A w, F : Proceed(c, w, F) => db' = db
  BY DEF Proceed
<1>2. Refuse(c) => db' = db
  BY DEF Refuse
<1>3. CASE AcquireLock(c)
  BY <1>3 DEF AcquireLock
<1>4. CASE MoveRow(c)
  BY <1>1, <1>2, <1>4 DEF MoveRow
<1>5. CASE SetRow(c)
  BY <1>1, <1>2, <1>5 DEF SetRow
<1>6. CASE TestCondition(c)
  BY <1>1, <1>2, <1>6 DEF TestCondition
<1>7. CASE ShipSamples(c)
  BY <1>1, <1>2, <1>7 DEF ShipSamples
<1>8. CASE DeleteSamples(c)
  BY <1>1, <1>2, <1>8 DEF DeleteSamples
<1>9. CASE CheckReceived(c)
  BY <1>1, <1>2, <1>9 DEF CheckReceived
<1>10. CASE CheckCompleted(c)
  BY <1>1, <1>2, <1>10 DEF CheckCompleted
<1>11. CASE ValidateSamples(c)
  BY <1>1, <1>2, <1>11 DEF ValidateSamples
<1>12. CASE InsertDispatch(c)
  BY <1>1, <1>2, <1>12 DEF InsertDispatch
<1>13. CASE CascadeBatch(c)
  BY <1>1, <1>2, <1>13 DEF CascadeBatch
<1>14. CASE TryComplete(c)
  BY <1>1, <1>2, <1>14 DEF TryComplete
<1>15. CASE RollVerdicts(c)
  BY <1>1, <1>2, <1>15 DEF RollVerdicts
<1>16. CASE ExceptBatch(c)
  BY <1>1, <1>2, <1>16 DEF ExceptBatch
<1>17. CASE AutoComplete(c)
  BY <1>1, <1>2, <1>17 DEF AutoComplete
<1>18. CASE BreakDeadlock(c)
  BY <1>2, <1>18 DEF BreakDeadlock
<1> QED
  BY <1>3, <1>4, <1>5, <1>6, <1>7, <1>8, <1>9, <1>10, <1>11, <1>12, <1>13,
     <1>14, <1>15, <1>16, <1>17, <1>18 DEF Step

\* A run's committed status moves only as the state machine allows from what
\* was committed before, whoever races to end it.
THEOREM RunsMoveLegally == Spec => RunEndsOnce
<1> DEFINE Legal == \A d \in Dispatches : db'[Dispatch(d)] # db[Dispatch(d)] =>
                        <<db[Dispatch(d)], db'[Dispatch(d)]>> \in RunMoves
<1>1. TxInv /\ [Next]_txVars => [Legal]_txVars
  <2> SUFFICES ASSUME TxInv, Next, NEW d \in Dispatches,
                      db'[Dispatch(d)] # db[Dispatch(d)]
               PROVE  <<db[Dispatch(d)], db'[Dispatch(d)]>> \in RunMoves
    BY DEF txVars
  <2>1. PICK c \in calls : Step(c)
    BY DEF Next
  <2>2. db' = Over(mine[c], db)
    BY <2>1, OnlyCommitsChange DEF CommitTransaction, View
  <2>3. WrittenLocked(c, db, mine[c], held[c])
    BY DEF TxInv, CallInv
  <2>4. /\ DOMAIN mine[c] \subseteq Rows /\ DOMAIN db = Rows
        /\ Dispatch(d) \in Rows /\ Dispatch(d)[1] = "dispatch"
    BY RowFacts DEF TxInv, TypeOK, TablesOK
  <2>5. Dispatch(d) \in DOMAIN mine[c] /\ db'[Dispatch(d)] = mine[c][Dispatch(d)]
    BY <2>2, <2>4, ViewRow
  <2> QED BY <2>3, <2>4, <2>5 DEF WrittenLocked
<1> QED BY <1>1, TransactionsInv, PTL DEF Spec, RunEndsOnce
=============================================================================
