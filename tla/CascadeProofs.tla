--------------------------- MODULE CascadeProofs ---------------------------
(***************************************************************************)
(* That the cascades of Transactions miss nothing when calls run side by   *)
(* side: no request waits for a cascade that has run, a run's unload gives *)
(* its verdict to every wafer of its batch, and the run that measures a    *)
(* wafer's last experiment completes it.                                   *)
(*                                                                         *)
(* A cascade reads rows that it does not lock.  What makes it safe is that *)
(* whoever could make its answer stale must take the same lock before it   *)
(* commits: the invariant says of each row written, that the check it      *)
(* calls for is still to come, or that the lock is held and the check, if  *)
(* it were made again, would still do nothing.                             *)
(*                                                                         *)
(* The locks it takes for that do not make calls wait in a circle over a   *)
(* run, a WIP or a type: the invariant OrderInv says of each lock that is  *)
(* still to be taken, that only rows of earlier tables are held by then.   *)
(***************************************************************************)
EXTENDS TransactionsProofs

Pending(L, st) == \E i \in 1..Len(L) : L[i] = st

\* Statement b comes after each statement a.
Follows(L, a, b) ==
    \A i \in 1..Len(L) : L[i] = a => \E j \in (i + 1)..Len(L) : L[j] = b

\* The row has been written before statement i, or the move to do so is ahead
\* of it.
WrittenFirst(L, M, i, row, move) ==
    \/ row \in DOMAIN M
    \/ \E j \in 1..(i - 1) : L[j] = move

Settling == {"receive", "void", "return"}

\* The order of the statements, as far as the cascades rest on it.
InSequence(c, L, M) ==
    /\ \A i \in 1..Len(L) : L[i].do = "commit" => i = Len(L)
    /\ c.op \in Settling =>
        Follows(L, Move(Sample(c.on), c.op), Check("received", Owner[c.on]))
    /\ c.op \in {"void", "return"} =>
        Follows(L, Check("received", Owner[c.on]), Check("completed", Owner[c.on]))
    /\ c.op \in Unloading =>
        Follows(L, Move(Dispatch(c.on), "unload"), Check("roll", c.on))
    /\ c.op = "ship" => \A i \in 1..Len(L) :
        L[i].do \in {"shipsamples", "setif"} =>
            WrittenFirst(L, M, i, Request(c.on), Move(Request(c.on), "ship"))
    /\ c.op = "redispatch" => \A i \in 1..Len(L) :
        L[i].do = "setif" =>
            WrittenFirst(L, M, i, Dispatch(c.on),
                         Move(Dispatch(c.on), "redispatch"))

\* The request has reached the laboratory; it never leaves it again.
Later(v, r) == v[Request(r)] \in InLab \cup {"none"}

\* What a transaction makes of a request or a wafer, from what is committed;
\* ValidateSamples and DeleteSamples write whatever has become of the wafers.
RequestWrites ==
    ({"draft", "returned"} \X {"pending_approval"})
    \cup {<<"pending_approval", "approved">>, <<"approved", "sample_shipped">>}
    \cup (RequestTransitions.cancel \X {"cancelled"})
    \cup ({"sample_shipped"} \X {"in_progress", "completed"})
    \cup {<<"in_progress", "completed">>}

SampleWrites ==
    {<<"created", "shipped">>, <<"shipped", "received">>}
    \cup ({"processing"} \X {"completed", "processing_exception"})
    \cup ({"receiving_exception", "processing_exception", "lost"}
            \X {"voided", "returned"})

Written(c, v, M) ==
    /\ \A r \in Requests : Request(r) \in DOMAIN M =>
            \/ M[Request(r)] = "none"
            \/ <<v[Request(r)], M[Request(r)]>> \in RequestWrites
    /\ \A s \in Samples : Sample(s) \in DOMAIN M =>
            /\ \/ M[Sample(s)] \in {"processing", "none"}
               \/ <<v[Sample(s)], M[Sample(s)]>> \in SampleWrites
            /\ c.op \in Settling => s = c.on
            /\ c.op = "ship" => Owner[s] = c.on /\ Request(c.on) \in DOMAIN M
    /\ \A d \in Dispatches :
            Dispatch(d) \in DOMAIN M /\ v[Dispatch(d)] = "none" =>
                v[Wip(WipOf[d])] # "none"

\* The wafers that a batch takes are wafers of requests in the laboratory.
Joins(c, v, L, M) ==
    c.op \in {"create_wip", "add_samples"} => \A s \in Samples :
        Sample(s) \in DOMAIN M \/ Pending(L, Set(Sample(s), "processing")) =>
            Later(v, Owner[s])

\* A wafer that is accounted for, or settled, has its request looked at, and
\* the request's lock keeps the answer true.
Looked(L, V, H, row, check, waits) ==
    \/ Pending(L, check)
    \/ HasLock(H, row) /\ ~waits

Waits(v, L, M, H) ==
    LET V == Over(M, v) IN
    \A s \in Samples : Sample(s) \in DOMAIN M =>
        LET r == Owner[s] IN
        /\ M[Sample(s)] \in {"received", "voided", "returned"} =>
            Looked(L, V, H, Request(r), Check("received", r),
                   V[Request(r)] = "sample_shipped" /\ Accounted(V, r))
        /\ M[Sample(s)] \in {"voided", "returned", "completed"} =>
            Looked(L, V, H, Request(r), Check("completed", r),
                   V[Request(r)] = "in_progress" /\ Settled(V, r))

\* A run that is ended writes its verdict for every wafer of its batch.
Verdicts(c, v, L, M, H) ==
    (/\ c.op \in Unloading \cup Recording
     /\ Dispatch(c.on) \in DOMAIN M
     /\ v[Dispatch(c.on)] \in {"dispatched", "running"}) =>
        \/ Pending(L, Check("roll", c.on))
        \/ /\ HasLock(H, Wip(WipOf[c.on]))
           /\ \A s \in MembersOf(v, WipOf[c.on]) :
                 Progress(s, TypeOf[WipOf[c.on]]) \in DOMAIN M

\* A wafer that gets a verdict is looked at, under its own lock.
Measures(c, v, L, M, H) ==
    LET V == Over(M, v) IN
    c.op \in Unloading => \A s \in Samples, t \in Types :
        Progress(s, t) \in DOMAIN M =>
            Looked(L, V, H, Sample(s), Check("trycomplete", s),
                   V[Sample(s)] = "processing" /\ Measured(V, s))

EarlyWhole(v) ==
    \A s \in Samples : v[Request(Owner[s])] \in Early =>
        v[Sample(s)] \in {"created", "none"}

\* What is said of one call: L left, M written, the locks H.
Careful(c, v, L, M, H) ==
    /\ InSequence(c, L, M)
    /\ Written(c, v, M)
    /\ Joins(c, v, L, M)
    /\ Waits(v, L, M, H)
    /\ Verdicts(c, v, L, M, H)
    /\ Measures(c, v, L, M, H)

CascadeInv ==
    /\ EarlyWhole(db)
    /\ RunsHaveWips(db)
    /\ NoneWaits(db)
    /\ \A c \in calls : Careful(c, db, left[c], mine[c], held[c])

-----------------------------------------------------------------------------
\* The lists of statements.

LEMMA PendingSplice ==
  ASSUME NEW S, NEW L \in Seq(S), L # <<>>, NEW F \in Seq(S), NEW x
  PROVE  /\ Pending(L, x) /\ L[1] # x => Pending(F \o Tail(L), x)
         /\ Pending(F, x) => Pending(F \o Tail(L), x)
         /\ Pending(F \o Tail(L), x) => Pending(L, x) \/ Pending(F, x)
<1> DEFINE N == F \o Tail(L)
<1>0. /\ Len(L) \in Nat /\ Len(F) \in Nat /\ Len(N) = Len(F) + Len(L) - 1
      /\ \A i \in 1..Len(F) : N[i] = F[i]
      /\ \A i \in 2..Len(L) :
            Len(F) + i - 1 \in 1..Len(N) /\ N[Len(F) + i - 1] = L[i]
      /\ \A i \in 1..Len(N) :
            \/ i \in 1..Len(F)
            \/ i - Len(F) + 1 \in 2..Len(L) /\ N[i] = L[i - Len(F) + 1]
  BY Splice
<1>1. Len(L) > 0
  OBVIOUS
<1> HIDE DEF N
<1>2. ASSUME Pending(L, x), L[1] # x PROVE Pending(N, x)
  <2>1. PICK i \in 1..Len(L) : L[i] = x
    BY <1>2 DEF Pending
  <2>2. i \in 2..Len(L)
    BY <1>0, <1>2, <2>1
  <2> QED BY <1>0, <2>1, <2>2 DEF Pending
<1>3. ASSUME Pending(F, x) PROVE Pending(N, x)
  <2>1. PICK i \in 1..Len(F) : F[i] = x
    BY <1>3 DEF Pending
  <2>2. i \in 1..Len(N)
    BY <1>0, <1>1
  <2> QED BY <1>0, <2>1, <2>2 DEF Pending
<1>4. ASSUME Pending(N, x) PROVE Pending(L, x) \/ Pending(F, x)
  <2>1. PICK i \in 1..Len(N) : N[i] = x
    BY <1>4 DEF Pending
  <2>2. CASE i \in 1..Len(F)
    BY <1>0, <2>1, <2>2 DEF Pending
  <2>3. CASE i - Len(F) + 1 \in 2..Len(L) /\ N[i] = L[i - Len(F) + 1]
    <3>1. i - Len(F) + 1 \in 1..Len(L)
      BY <2>3, <1>0
    <3> QED BY <2>1, <2>3, <3>1 DEF Pending
  <2> QED BY <1>0, <2>1, <2>2, <2>3
<1> QED
  BY <1>2, <1>3, <1>4 DEF N

LEMMA FollowsSplice ==
  ASSUME NEW S, NEW L \in Seq(S), L # <<>>, NEW F \in Seq(S), NEW a, NEW b,
         Follows(L, a, b), ~Pending(F, a)
  PROVE  /\ Follows(F \o Tail(L), a, b)
         /\ L[1] = a => Pending(F \o Tail(L), b)
<1> DEFINE N == F \o Tail(L)
<1>0. /\ Len(L) \in Nat /\ Len(F) \in Nat /\ Len(N) = Len(F) + Len(L) - 1
      /\ \A i \in 1..Len(F) : N[i] = F[i]
      /\ \A i \in 2..Len(L) :
            Len(F) + i - 1 \in 1..Len(N) /\ N[Len(F) + i - 1] = L[i]
      /\ \A i \in 1..Len(N) :
            \/ i \in 1..Len(F)
            \/ i - Len(F) + 1 \in 2..Len(L) /\ N[i] = L[i - Len(F) + 1]
  BY Splice
<1>1. Len(L) > 0
  OBVIOUS
<1> HIDE DEF N
<1>2. ASSUME NEW i \in 1..Len(N), N[i] = a
      PROVE  \E j \in (i + 1)..Len(N) : N[j] = b
  <2>1. i \notin 1..Len(F)
    BY <1>0, <1>2 DEF Pending
  <2> DEFINE k == i - Len(F) + 1
  <2>2. k \in 2..Len(L) /\ L[k] = a
    BY <1>0, <1>2, <2>1
  <2> HIDE DEF k
  <2>3. k \in 1..Len(L) /\ Follows(L, a, b)
    BY <1>0, <2>2
  <2>a. PICK j \in (k + 1)..Len(L) : L[j] = b
    BY <2>2, <2>3 DEF Follows
  <2>4. j \in 2..Len(L) /\ Len(F) + j - 1 \in (i + 1)..Len(N)
    BY <1>0, <2>2, <2>a DEF k
  <2> QED BY <1>0, <2>a, <2>4
<1>3. ASSUME L[1] = a PROVE Pending(N, b)
  <2>1. 1 \in 1..Len(L)
    BY <1>0, <1>1
  <2>2. PICK j \in 2..Len(L) : L[j] = b
    BY <1>3, <2>1 DEF Follows
  <2> QED BY <1>0, <2>2 DEF Pending
<1> QED
  BY <1>2, <1>3 DEF N, Follows

LEMMA FirstSplice ==
  ASSUME NEW S, NEW L \in Seq(S), L # <<>>, NEW F \in Seq(S), NEW M, NEW N,
         NEW row, NEW move, NEW i \in 2..Len(L), WrittenFirst(L, M, i, row, move),
         DOMAIN M \subseteq DOMAIN N, L[1] = move => row \in DOMAIN N
  PROVE  WrittenFirst(F \o Tail(L), N, Len(F) + i - 1, row, move)
<1> DEFINE K == F \o Tail(L)
<1>0. /\ Len(L) \in Nat /\ Len(F) \in Nat
      /\ \A j \in 2..Len(L) :
            Len(F) + j - 1 \in 1..Len(K) /\ K[Len(F) + j - 1] = L[j]
  BY Splice
<1> HIDE DEF K
<1> SUFFICES WrittenFirst(K, N, Len(F) + i - 1, row, move)
  BY DEF K
<1>1. CASE row \in DOMAIN M
  BY <1>1 DEF WrittenFirst
<1>2. CASE \E j \in 1..(i - 1) : L[j] = move
  <2>1. PICK j \in 1..(i - 1) : L[j] = move
    BY <1>2
  <2>2. CASE j = 1
    BY <2>1, <2>2 DEF WrittenFirst
  <2>3. CASE j # 1
    <3>1. j \in 2..Len(L) /\ Len(F) + j - 1 \in 1..(Len(F) + i - 1 - 1)
      BY <1>0, <2>3
    <3>2. K[Len(F) + j - 1] = move
      BY <1>0, <2>1, <3>1
    <3> QED BY <3>1, <3>2 DEF WrittenFirst
  <2> QED BY <2>2, <2>3
<1> QED
  BY <1>1, <1>2 DEF WrittenFirst

-----------------------------------------------------------------------------
\* What a step of call c writes, the function w, and what it puts at the head
\* of the list, F, by the kind of the statement st that it executes.

Writes(w, row, value) == DOMAIN w = {row} /\ w[row] = value

\* Nothing that a cascade is about is written.
Quiet(c, V, st, w, F) ==
    /\ \A row \in DOMAIN w : row[1] \in {"wip", "member"}
    /\ st.do \notin {"received", "completed", "trycomplete", "roll"}
    /\ st.do = "move" => st.row[1] = "wip"
    /\ F # <<>> =>
        \/ c.op = "ship" /\ st.do = "shipsamples"
        \/ c.op \in {"delete_draft", "abort_wip"} \cup Cascading
        \/ /\ c.op \in {"create_wip", "add_samples"}
           /\ \A s \in c.samples : V[Request(Owner[s])] = "in_progress"

Moving(c, V, st, w, F) ==
    /\ st \in Moves(c) /\ st.do = "move"
    /\ st.row[1] \in {"request", "sample", "dispatch"}
    /\ V[st.row] \in Sources(st.row, st.action)
    /\ Writes(w, st.row, Target(st.row, st.action))
    /\ F = <<>>

Setting(c, V, st, w, F) ==
    /\ st \in Sets(c) /\ st.do = "set"
    /\ st.row[1] \in {"request", "sample", "dispatch"}
    /\ Writes(w, st.row, st.value)
    /\ F = <<>>

SettingIf(c, V, st, w, F) ==
    /\ st \in SetIfs(c) /\ st.do = "setif"
    /\ V[st.row] = st.old
    /\ Writes(w, st.row, st.value)
    /\ F = <<>>

Receiving(c, V, st, w, F) ==
    /\ c.op \in Settling /\ Owner[c.on] \in Requests
    /\ st = Check("received", Owner[c.on])
    /\ \/ /\ V[Request(Owner[c.on])] = "sample_shipped"
          /\ Accounted(V, Owner[c.on])
          /\ Writes(w, Request(Owner[c.on]), "in_progress")
       \/ /\ ~(/\ V[Request(Owner[c.on])] = "sample_shipped"
               /\ Accounted(V, Owner[c.on]))
          /\ DOMAIN w = {}

Completing(c, V, st, w, F) ==
    \E r \in Requests :
        /\ c.op \in {"void", "return"} \cup Cascading
        /\ st = Check("completed", r)
        /\ \/ /\ V[Request(r)] = "in_progress" /\ Settled(V, r)
              /\ Writes(w, Request(r), "completed")
           \/ /\ ~(V[Request(r)] = "in_progress" /\ Settled(V, r))
              /\ DOMAIN w = {}
        /\ F = <<>>

Trying(c, V, st, w, F) ==
    \E s \in Samples :
        /\ c.op \in Cascading
        /\ st = Check("trycomplete", s)
        /\ \/ /\ V[Sample(s)] = "processing"
              /\ Writes(w, Sample(s), "completed")
              /\ Pending(F, Check("completed", Owner[s]))
           \/ /\ ~(V[Sample(s)] = "processing" /\ Types # {} /\ Measured(V, s))
              /\ DOMAIN w = {}

Rolling(c, V, st, w, F) ==
    /\ c.op \in Unloading
    /\ st = Check("roll", c.on)
    /\ DOMAIN w = {Progress(s, TypeOf[WipOf[c.on]]) :
                        s \in MembersOf(V, WipOf[c.on])}
    /\ \A s \in MembersOf(V, WipOf[c.on]) : Pending(F, Check("trycomplete", s))

Inserting(c, V, st, w, F) ==
    /\ c.op = "create_dispatch" /\ st.do = "dispatch"
    /\ V[Wip(WipOf[c.on])] # "none"
    /\ \A row \in DOMAIN w : row = Dispatch(c.on) \/ row[1] \in {"wip", "progress"}
    /\ F = <<>>

Kind(c, V, st, w, F) ==
    \/ Quiet(c, V, st, w, F)
    \/ Moving(c, V, st, w, F)
    \/ Setting(c, V, st, w, F)
    \/ SettingIf(c, V, st, w, F)
    \/ Receiving(c, V, st, w, F)
    \/ Completing(c, V, st, w, F)
    \/ Trying(c, V, st, w, F)
    \/ Rolling(c, V, st, w, F)
    \/ Inserting(c, V, st, w, F)

\* The call with L left, M written and the locks H comes to F and the rest of
\* L left, N written and the locks G.
Goes(c, v, L, M, H, w, F, N, G) ==
    /\ DOMAIN v = Rows
    /\ L # <<>> /\ L[1].do # "commit"
    /\ CallInv(c, v, L, M, H)
    /\ F \in Seq(StatementsOf(c)) /\ \A k \in 1..Len(F) : F[k].do \in Work
    /\ DOMAIN N = DOMAIN w \cup DOMAIN M
    /\ \A row \in DOMAIN w : N[row] = w[row]
    /\ \A row \in DOMAIN M \ DOMAIN w : N[row] = M[row]
    /\ H \subseteq G
    /\ CallInv(c, v, F \o Tail(L), N, G)
    /\ Kind(c, Over(M, v), L[1], w, F)

LEMMA GoesFacts ==
  ASSUME NEW c, NEW v, NEW L, NEW M, NEW H, NEW w, NEW F, NEW N, NEW G,
         Goes(c, v, L, M, H, w, F, N, G)
  PROVE  LET K  == F \o Tail(L)
             V1 == Over(M, v)
             V2 == Over(N, v)
         IN
         /\ c \in Calls /\ L \in Seq(StatementsOf(c)) /\ L # <<>>
         /\ F \in Seq(StatementsOf(c)) /\ L[1] \in StatementsOf(c)
         /\ \A x : Pending(L, x) /\ L[1] # x => Pending(K, x)
         /\ \A x : Pending(F, x) => Pending(K, x)
         /\ \A x : Pending(K, x) => Pending(L, x) \/ Pending(F, x)
         /\ \A row : HasLock(H, row) => HasLock(G, row)
         /\ DOMAIN M \subseteq Rows /\ DOMAIN N \subseteq Rows
         /\ \A row \in DOMAIN M : M[row] \in WritesOf(c, row)
         /\ \A row \in DOMAIN N : N[row] \in WritesOf(c, row)
         /\ DOMAIN V1 = Rows /\ DOMAIN V2 = Rows
         /\ \A row \in DOMAIN M : V1[row] = M[row]
         /\ \A row \in DOMAIN N : V2[row] = N[row]
         /\ \A row \in Rows \ DOMAIN M : V1[row] = v[row]
         /\ \A row \in Rows \ DOMAIN N : V2[row] = v[row]
         /\ \A row \in DOMAIN w : V2[row] = w[row]
         /\ \A row \in Rows \ DOMAIN w : V2[row] = V1[row]
         /\ \A row \in NeedsLock(c, L[1]) : HasLock(H, row)
<1>1. /\ CallInv(c, v, L, M, H) /\ CallInv(c, v, F \o Tail(L), N, G)
      /\ DOMAIN v = Rows /\ L # <<>> /\ F \in Seq(StatementsOf(c)) /\ H \subseteq G
      /\ DOMAIN N = DOMAIN w \cup DOMAIN M
      /\ \A row \in DOMAIN w : N[row] = w[row]
      /\ \A row \in DOMAIN M \ DOMAIN w : N[row] = M[row]
  BY DEF Goes
<1>2. /\ c \in Calls /\ L \in Seq(StatementsOf(c))
      /\ DOMAIN M \subseteq Rows /\ DOMAIN N \subseteq Rows
      /\ \A row \in DOMAIN M : M[row] \in WritesOf(c, row)
      /\ \A row \in DOMAIN N : N[row] \in WritesOf(c, row)
  BY <1>1 DEF CallInv, CallTypeOK
<1>3. /\ \A x : Pending(L, x) /\ L[1] # x => Pending(F \o Tail(L), x)
      /\ \A x : Pending(F, x) => Pending(F \o Tail(L), x)
      /\ \A x : Pending(F \o Tail(L), x) => Pending(L, x) \/ Pending(F, x)
  BY <1>1, <1>2, PendingSplice
<1>4. \A row : HasLock(H, row) => HasLock(G, row)
  BY <1>1 DEF HasLock
<1>5. /\ DOMAIN Over(M, v) = Rows /\ DOMAIN Over(N, v) = Rows
      /\ \A row \in DOMAIN M : Over(M, v)[row] = M[row]
      /\ \A row \in DOMAIN N : Over(N, v)[row] = N[row]
      /\ \A row \in Rows \ DOMAIN M : Over(M, v)[row] = v[row]
      /\ \A row \in Rows \ DOMAIN N : Over(N, v)[row] = v[row]
  BY <1>1, <1>2, ViewRow
<1>6. L[1] \in StatementsOf(c)
  BY <1>1, <1>2, AfterHead
<1>7. \A row \in NeedsLock(c, L[1]) : HasLock(H, row)
  BY <1>1, HeadLocked
<1>8. \A row \in DOMAIN w : Over(N, v)[row] = w[row]
  BY <1>1, <1>5
<1>9. \A row \in Rows \ DOMAIN w : Over(N, v)[row] = Over(M, v)[row]
  BY <1>1, <1>5
<1> QED
  BY <1>1, <1>2, <1>3, <1>4, <1>5, <1>6, <1>7, <1>8, <1>9

\* Which calls write what.
LEMMA WhoWrites ==
  ASSUME NEW c \in Calls, NEW row \in Rows, NEW x \in WritesOf(c, row)
  PROVE  /\ row[1] = "request" =>
            /\ x \in {"pending_approval", "approved", "cancelled", "none",
                      "sample_shipped", "in_progress", "completed"}
            /\ x = "pending_approval" => c.op = "submit"
            /\ x = "approved" => c.op = "approve"
            /\ x = "cancelled" => c.op = "cancel"
            /\ x = "sample_shipped" => c.op = "ship"
            /\ x = "in_progress" => c.op \in Settling
            /\ x = "completed" => c.op \in {"void", "return"} \cup Cascading
            /\ x = "none" => c.op = "delete_draft"
         /\ row[1] = "sample" =>
            /\ x \in {"shipped", "none", "received", "voided", "returned",
                      "processing", "processing_exception", "completed"}
            /\ x = "shipped" => c.op = "ship"
            /\ x = "received" => c.op = "receive"
            /\ x = "voided" => c.op = "void"
            /\ x = "returned" => c.op = "return"
            /\ x = "processing" => c.op \in {"create_wip", "add_samples"}
            /\ x = "processing_exception" => c.op = "abort_wip"
            /\ x = "completed" => c.op \in Cascading
            /\ x = "none" => c.op = "delete_draft"
         /\ row[1] = "dispatch" =>
            /\ x = "pending" => c.op \in {"create_dispatch", "redispatch"}
            /\ x \in {"unloaded", "completed"} =>
                row = Dispatch(c.on) /\ c.op \in Unloading \cup Recording
         /\ row[1] = "member" => c.op \in {"create_wip", "add_samples"}
         /\ row[1] = "progress" =>
            x \in {"pending", "in_progress"} \/ (c.op \in Unloading /\ x = c.on)
<1>1. ASSUME row[1] = "request"
      PROVE  /\ x \in {"pending_approval", "approved", "cancelled", "none",
                       "sample_shipped", "in_progress", "completed"}
             /\ x = "pending_approval" => c.op = "submit"
             /\ x = "approved" => c.op = "approve"
             /\ x = "cancelled" => c.op = "cancel"
             /\ x = "sample_shipped" => c.op = "ship"
             /\ x = "in_progress" => c.op \in Settling
             /\ x = "completed" => c.op \in {"void", "return"} \cup Cascading
             /\ x = "none" => c.op = "delete_draft"
  BY <1>1 DEF WritesOf, Cascading, Unloading, Recording, Settling
<1>2. ASSUME row[1] = "sample"
      PROVE  /\ x \in {"shipped", "none", "received", "voided", "returned",
                       "processing", "processing_exception", "completed"}
             /\ x = "shipped" => c.op = "ship"
             /\ x = "received" => c.op = "receive"
             /\ x = "voided" => c.op = "void"
             /\ x = "returned" => c.op = "return"
             /\ x = "processing" => c.op \in {"create_wip", "add_samples"}
             /\ x = "processing_exception" => c.op = "abort_wip"
             /\ x = "completed" => c.op \in Cascading
             /\ x = "none" => c.op = "delete_draft"
  BY <1>2 DEF WritesOf, Cascading, Unloading, Recording
<1>3. ASSUME row[1] = "dispatch"
      PROVE  /\ x = "pending" => c.op \in {"create_dispatch", "redispatch"}
             /\ x \in {"unloaded", "completed"} =>
                row = Dispatch(c.on) /\ c.op \in Unloading \cup Recording
  BY <1>3 DEF WritesOf, Cascading, Unloading, Recording, RunOps
<1>4. row[1] = "member" => c.op \in {"create_wip", "add_samples"}
  BY DEF WritesOf
<1>5. row[1] = "progress" =>
            x \in {"pending", "in_progress"} \/ (c.op \in Unloading /\ x = c.on)
  BY DEF WritesOf, Unloading
<1> QED
  BY <1>1, <1>2, <1>3, <1>4, <1>5, Zenon

-----------------------------------------------------------------------------
\* Every step ends a transaction or goes on in one of these ways.

GoesOn(c) ==
    /\ db' = db
    /\ \A o \in calls : o # c => /\ left'[o] = left[o] /\ mine'[o] = mine[o]
                                /\ held'[o] = held[o]
    /\ \E w, F :
        /\ Goes(c, db, left[c], mine[c], held[c], w, F, mine'[c], held'[c])
        /\ left'[c] = F \o Tail(left[c])

LEMMA ProceedGoes ==
  ASSUME TxInv, TxInv', NEW c \in calls, left[c] # <<>>, UNCHANGED calls,
         left[c][1].do # "commit", NEW w, NEW F \in Seq(StatementsOf(c)),
         \A k \in 1..Len(F) : F[k].do \in Work,
         Proceed(c, w, F), Kind(c, View(c), left[c][1], w, F)
  PROVE  GoesOn(c)
<1>1. /\ CallInv(c, db, left[c], mine[c], held[c]) /\ DOMAIN db = Rows
      /\ DOMAIN left = calls /\ DOMAIN mine = calls
  BY DEF TxInv, TypeOK, TablesOK
<1>2. /\ db' = db /\ held' = held
      /\ left' = [left EXCEPT ![c] = F \o Tail(left[c])]
      /\ mine' = [mine EXCEPT ![c] = Over(w, mine[c])]
  BY DEF Proceed
<1>3. /\ left'[c] = F \o Tail(left[c]) /\ mine'[c] = Over(w, mine[c])
      /\ \A o \in calls : o # c => left'[o] = left[o] /\ mine'[o] = mine[o]
  BY <1>1, <1>2
<1>4. CallInv(c, db, F \o Tail(left[c]), mine'[c], held'[c])
  <2>1. CallInv(c, db', left'[c], mine'[c], held'[c])
    BY DEF TxInv
  <2> QED BY <1>2, <1>3, <2>1
<1>5. /\ DOMAIN mine'[c] = DOMAIN w \cup DOMAIN mine[c]
      /\ \A row \in DOMAIN w : mine'[c][row] = w[row]
      /\ \A row \in DOMAIN mine[c] \ DOMAIN w : mine'[c][row] = mine[c][row]
  <2> DEFINE W == Over(w, mine[c])
  <2>1. /\ DOMAIN W = DOMAIN w \cup DOMAIN mine[c]
        /\ \A row \in DOMAIN w : W[row] = w[row]
        /\ \A row \in DOMAIN mine[c] \ DOMAIN w : W[row] = mine[c][row]
    BY OverRow
  <2>2. mine'[c] = W
    BY <1>3
  <2> HIDE DEF W
  <2> QED BY <2>1, <2>2
<1>6. Goes(c, db, left[c], mine[c], held[c], w, F, mine'[c], held'[c])
  BY <1>1, <1>2, <1>4, <1>5 DEF Goes, View
<1> QED
  BY <1>2, <1>3, <1>6 DEF GoesOn

LEMMA AcquireGoes ==
  ASSUME TxInv, TxInv', NEW c \in calls, left[c] # <<>>, UNCHANGED calls,
         AcquireLock(c)
  PROVE  GoesOn(c)
<1> DEFINE w == Nothing
           F == <<>>
<1>1. /\ CallInv(c, db, left[c], mine[c], held[c]) /\ DOMAIN db = Rows
      /\ DOMAIN left = calls /\ DOMAIN held = calls
  BY DEF TxInv, TypeOK, TablesOK
<1>2. Head(left[c]) = left[c][1] /\ <<>> \o Tail(left[c]) = Tail(left[c])
  BY HeadIs
<1>3. /\ db' = db /\ mine' = mine /\ left[c][1].do = "lock"
      /\ left' = [left EXCEPT ![c] = Tail(left[c])]
      /\ held' = [held EXCEPT ![c] = held[c] \cup
                    {<<left[c][1].row, left[c][1].mode>>}]
  BY <1>2 DEF AcquireLock
<1>4. /\ left'[c] = Tail(left[c]) /\ held[c] \subseteq held'[c]
      /\ \A o \in calls : o # c => left'[o] = left[o] /\ held'[o] = held[o]
  BY <1>1, <1>3
<1>5. CallInv(c, db, <<>> \o Tail(left[c]), mine'[c], held'[c])
  <2>1. CallInv(c, db', left'[c], mine'[c], held'[c])
    BY DEF TxInv
  <2> QED BY <1>2, <1>3, <1>4, <2>1
<1>6. DOMAIN w = {}
  BY NothingWritten
<1>7. Kind(c, Over(mine[c], db), left[c][1], w, F)
  <2>1. Quiet(c, Over(mine[c], db), left[c][1], w, F)
    BY <1>3, <1>6 DEF Quiet
  <2> QED BY <2>1, Zenon DEF Kind
<1>8. F \in Seq(StatementsOf(c)) /\ \A k \in 1..Len(F) : F[k].do \in Work
  BY EmptyList
<1>9. left'[c] = F \o Tail(left[c]) /\ CallInv(c, db, F \o Tail(left[c]), mine'[c], held'[c])
  BY <1>2, <1>4, <1>5
<1> HIDE DEF w, F
<1>10. Goes(c, db, left[c], mine[c], held[c], w, F, mine'[c], held'[c])
  BY <1>1, <1>3, <1>4, <1>6, <1>7, <1>8, <1>9 DEF Goes
<1> QED
  BY <1>3, <1>4, <1>9, <1>10 DEF GoesOn

LEMMA MoveGoes ==
  ASSUME TxInv, TxInv', NEW c \in calls, left[c] # <<>>, UNCHANGED calls,
         MoveRow(c)
  PROVE  Refuse(c) \/ GoesOn(c)
<1> DEFINE st == left[c][1]
           w == Write(st.row, Target(st.row, st.action))
<1>1. c \in Calls /\ st \in StatementsOf(c) /\ Head(left[c]) = st
  BY HeadIs
<1>2. st.do = "move" /\ st \in Moves(c)
  BY <1>1, StatementKinds DEF MoveRow
<1>3. \/ Refuse(c)
      \/ View(c)[st.row] \in Sources(st.row, st.action) /\ Proceed(c, w, <<>>)
  BY <1>1 DEF MoveRow
<1>4. Writes(w, st.row, Target(st.row, st.action))
  BY WriteRow DEF Writes
<1>5. \/ st.row[1] \in {"request", "sample", "wip"}
      \/ st.row = Dispatch(c.on) /\ c.on \in Dispatches
  BY <1>1, <1>2, MoveKinds
<1>6. st.row[1] \in {"request", "sample", "wip", "dispatch"}
  BY <1>5, RowFacts
<1>7. \A row \in DOMAIN w : row = st.row
  BY <1>4 DEF Writes
<1> HIDE DEF st, w
<1>8. ASSUME View(c)[st.row] \in Sources(st.row, st.action), Proceed(c, w, <<>>)
      PROVE  GoesOn(c)
  <2>1. CASE st.row[1] = "wip"
    <3>1. Quiet(c, View(c), st, w, <<>>)
      BY <1>2, <1>7, <2>1 DEF Quiet
    <3>2. Kind(c, View(c), st, w, <<>>)
      BY <3>1, Zenon DEF Kind
    <3> QED BY <1>2, <1>8, <3>2, EmptyList, ProceedGoes DEF st
  <2>2. CASE st.row[1] # "wip"
    <3>1. Moving(c, View(c), st, w, <<>>)
      BY <1>2, <1>4, <1>6, <1>8, <2>2 DEF Moving
    <3>2. Kind(c, View(c), st, w, <<>>)
      BY <3>1, Zenon DEF Kind
    <3> QED BY <1>2, <1>8, <3>2, EmptyList, ProceedGoes DEF st
  <2> QED BY <2>1, <2>2
<1> QED
  BY <1>3, <1>8

LEMMA SetGoes ==
  ASSUME TxInv, TxInv', NEW c \in calls, left[c] # <<>>, UNCHANGED calls,
         SetRow(c)
  PROVE  GoesOn(c)
<1> DEFINE st == left[c][1]
           w == Write(st.row, st.value)
<1>1. c \in Calls /\ st \in StatementsOf(c) /\ Head(left[c]) = st
  BY HeadIs
<1>2. \/ st.do = "set" /\ Proceed(c, w, <<>>)
      \/ st.do = "setif" /\ View(c)[st.row] = st.old /\ Proceed(c, w, <<>>)
      \/ st.do = "setif" /\ Proceed(c, Nothing, <<>>)
  BY <1>1 DEF SetRow
<1>3. Writes(w, st.row, st.value) /\ DOMAIN Nothing = {}
  <2>1. Writes(w, st.row, st.value)
    <3> HIDE DEF st
    <3> QED BY DEF Writes, Write
  <2> QED BY <2>1, NothingWritten
<1>4. \A row \in DOMAIN w : row = st.row
  BY <1>3 DEF Writes
<1> HIDE DEF st, w
<1>5. CASE st.do = "set" /\ Proceed(c, w, <<>>)
  <2>1. st \in Sets(c)
    BY <1>1, <1>5, StatementKinds
  <2>2. st.row \in Rows /\ st.row[1] # "progress"
    <3>1. \/ st.row[1] \in {"request", "sample", "wip", "member"}
          \/ st.row = Dispatch(c.on) /\ c.on \in Dispatches
      BY <1>1, <2>1, SetKinds
    <3> QED BY <1>1, <2>1, <3>1, SetKinds, RowFacts
  <2>3. CASE st.row[1] \in {"wip", "member"}
    <3>1. Quiet(c, View(c), st, w, <<>>)
      BY <1>4, <1>5, <2>3 DEF Quiet
    <3>2. Kind(c, View(c), st, w, <<>>)
      BY <3>1, Zenon DEF Kind
    <3> QED BY <1>5, <3>2, EmptyList, ProceedGoes DEF st
  <2>4. CASE st.row[1] \in {"request", "sample", "dispatch"}
    <3>1. Setting(c, View(c), st, w, <<>>)
      BY <1>3, <1>5, <2>1, <2>4 DEF Setting
    <3>2. Kind(c, View(c), st, w, <<>>)
      BY <3>1, Zenon DEF Kind
    <3> QED BY <1>5, <3>2, EmptyList, ProceedGoes DEF st
  <2> QED BY <2>2, <2>3, <2>4, RowKinds
<1>6. CASE st.do = "setif" /\ View(c)[st.row] = st.old /\ Proceed(c, w, <<>>)
  <2>1. st \in SetIfs(c)
    BY <1>1, <1>6, StatementKinds
  <2>2. SettingIf(c, View(c), st, w, <<>>)
    BY <1>3, <1>6, <2>1 DEF SettingIf
  <2>3. Kind(c, View(c), st, w, <<>>)
    BY <2>2, Zenon DEF Kind
  <2> QED BY <1>6, <2>3, EmptyList, ProceedGoes DEF st
<1>7. CASE st.do = "setif" /\ Proceed(c, Nothing, <<>>)
  <2>1. Quiet(c, View(c), st, Nothing, <<>>)
    BY <1>3, <1>7 DEF Quiet
  <2>2. Kind(c, View(c), st, Nothing, <<>>)
    BY <2>1, Zenon DEF Kind
  <2> QED BY <1>7, <2>2, EmptyList, ProceedGoes DEF st
<1> QED
  BY <1>2, <1>5, <1>6, <1>7

\* The statements that write nothing.
LEMMA NothingGoes ==
  ASSUME TxInv, TxInv', NEW c \in calls, left[c] # <<>>, UNCHANGED calls,
         left[c][1].do \in {"draft", "open", "alldone", "running", "startable",
                            "shipsamples", "deletesamples", "validate",
                            "cascade", "except", "autocomplete"},
         NEW F, Fits(c, F, held[c]), Proceed(c, Nothing, F),
         F # <<>> =>
            \/ c.op = "ship" /\ left[c][1].do = "shipsamples"
            \/ c.op \in {"delete_draft", "abort_wip"} \cup Cascading
            \/ /\ c.op \in {"create_wip", "add_samples"}
               /\ \A s \in c.samples : View(c)[Request(Owner[s])] = "in_progress"
  PROVE  GoesOn(c)
<1>1. Quiet(c, View(c), left[c][1], Nothing, F)
  BY NothingWritten DEF Quiet
<1>2. Kind(c, View(c), left[c][1], Nothing, F)
  BY <1>1, Zenon DEF Kind
<1>3. left[c][1].do # "commit"
  OBVIOUS
<1> QED
  BY <1>2, <1>3, ProceedGoes DEF Fits

LEMMA TestGoes ==
  ASSUME TxInv, TxInv', NEW c \in calls, left[c] # <<>>, UNCHANGED calls,
         TestCondition(c)
  PROVE  Refuse(c) \/ GoesOn(c)
<1>1. Head(left[c]) = left[c][1]
  BY HeadIs
<1>2. left[c][1].do \in {"draft", "open", "alldone", "running", "startable"}
  BY <1>1 DEF TestCondition
<1>3. Refuse(c) \/ Proceed(c, Nothing, <<>>)
  BY DEF TestCondition
<1> QED
  BY <1>2, <1>3, FitsNothing, NothingGoes

LEMMA ShipGoes ==
  ASSUME TxInv, TxInv', NEW c \in calls, left[c] # <<>>, UNCHANGED calls,
         ShipSamples(c)
  PROVE  GoesOn(c)
BY ShipDoes, NothingGoes

LEMMA DeleteGoes ==
  ASSUME TxInv, TxInv', NEW c \in calls, left[c] # <<>>, UNCHANGED calls,
         DeleteSamples(c)
  PROVE  GoesOn(c)
BY DeleteDoes, NothingGoes

LEMMA CascadeGoes ==
  ASSUME TxInv, TxInv', NEW c \in calls, left[c] # <<>>, UNCHANGED calls,
         CascadeBatch(c)
  PROVE  GoesOn(c)
BY CascadeDoes, NothingGoes

LEMMA ExceptGoes ==
  ASSUME TxInv, TxInv', NEW c \in calls, left[c] # <<>>, UNCHANGED calls,
         ExceptBatch(c)
  PROVE  GoesOn(c)
BY ExceptDoes, NothingGoes

LEMMA ValidateGoes ==
  ASSUME TxInv, TxInv', NEW c \in calls, left[c] # <<>>, UNCHANGED calls,
         ValidateSamples(c)
  PROVE  Refuse(c) \/ GoesOn(c)
BY ValidateDoes, NothingGoes

LEMMA ReceivedGoes ==
  ASSUME TxInv, TxInv', NEW c \in calls, left[c] # <<>>, UNCHANGED calls,
         CheckReceived(c)
  PROVE  GoesOn(c)
<1> DEFINE st == left[c][1]
           r == Owner[c.on]
           v == View(c)
<1>1. /\ st.do = "received" /\ st.on = r
      /\ c.op \in {"receive", "void", "return"} /\ r \in Requests
  BY ReceivedDoes
<1>2. PICK F : /\ Fits(c, F, held[c])
               /\ \/ /\ v[Request(r)] = "sample_shipped" /\ Accounted(v, r)
                     /\ Proceed(c, Write(Request(r), "in_progress"), F)
                  \/ /\ ~(v[Request(r)] = "sample_shipped" /\ Accounted(v, r))
                     /\ Proceed(c, Nothing, F)
  BY ReceivedDoes
<1>3. st = Check("received", r)
  <2>1. st \in Checks(c)
    BY <1>1, AtCheck
  <2> HIDE DEF r, st
  <2> QED BY <1>1, <2>1 DEF Checks, Check, r
<1>4. /\ F \in Seq(StatementsOf(c)) /\ \A k \in 1..Len(F) : F[k].do \in Work
      /\ st.do # "commit"
  BY <1>1, <1>2 DEF Fits
<1> HIDE DEF st, v
<1>5. CASE /\ v[Request(r)] = "sample_shipped" /\ Accounted(v, r)
           /\ Proceed(c, Write(Request(r), "in_progress"), F)
  <2> DEFINE w == Write(Request(r), "in_progress")
  <2>1. Writes(w, Request(r), "in_progress")
    BY DEF Writes, Write
  <2> HIDE DEF w
  <2>2. Receiving(c, v, st, w, F)
    BY <1>1, <1>3, <1>5, <2>1 DEF Receiving, Settling
  <2>3. Kind(c, v, st, w, F)
    BY <2>2, Zenon DEF Kind
  <2>4. Proceed(c, w, F)
    BY <1>5 DEF w
  <2> QED BY <1>4, <2>3, <2>4, ProceedGoes DEF st, v
<1>6. CASE /\ ~(v[Request(r)] = "sample_shipped" /\ Accounted(v, r))
           /\ Proceed(c, Nothing, F)
  <2>1. Receiving(c, v, st, Nothing, F)
    BY <1>1, <1>3, <1>6, NothingWritten DEF Receiving, Settling
  <2>2. Kind(c, v, st, Nothing, F)
    BY <2>1, Zenon DEF Kind
  <2> QED BY <1>4, <1>6, <2>2, ProceedGoes DEF st, v
<1> QED
  BY <1>2, <1>5, <1>6

LEMMA CompletedGoes ==
  ASSUME TxInv, TxInv', NEW c \in calls, left[c] # <<>>, UNCHANGED calls,
         CheckCompleted(c)
  PROVE  GoesOn(c)
<1> DEFINE st == left[c][1]
           r == st.on
           v == View(c)
           w == Write(Request(r), "completed")
<1>1. Head(left[c]) = st /\ st.do = "completed"
  BY HeadIs DEF CheckCompleted
<1>2. r \in Requests /\ c.op \in {"void", "return"} \cup Cascading
  BY <1>1, AtCheck, CheckKinds
<1>3. \/ v[Request(r)] = "in_progress" /\ Settled(v, r) /\ Proceed(c, w, <<>>)
      \/ /\ ~(v[Request(r)] = "in_progress" /\ Settled(v, r))
         /\ Proceed(c, Nothing, <<>>)
  BY <1>1 DEF CheckCompleted, Settled
<1>4. st = Check("completed", r)
  <2>1. st \in Checks(c)
    BY <1>1, AtCheck
  <2> HIDE DEF st, r
  <2>2. st.on = r
    BY DEF r
  <2> QED BY <1>1, <2>1, <2>2 DEF Checks, Check, Cascades
<1>5. Writes(w, Request(r), "completed")
  BY DEF Writes, Write
<1> HIDE DEF st, v, w, r
<1>6. CASE v[Request(r)] = "in_progress" /\ Settled(v, r) /\ Proceed(c, w, <<>>)
  <2>1. Completing(c, v, st, w, <<>>)
    BY <1>2, <1>4, <1>5, <1>6 DEF Completing
  <2>2. Kind(c, v, st, w, <<>>)
    BY <2>1, Zenon DEF Kind
  <2> QED BY <1>1, <1>6, <2>2, EmptyList, ProceedGoes DEF st, v
<1>7. CASE /\ ~(v[Request(r)] = "in_progress" /\ Settled(v, r))
           /\ Proceed(c, Nothing, <<>>)
  <2>1. Completing(c, v, st, Nothing, <<>>)
    BY <1>2, <1>4, <1>7, NothingWritten DEF Completing
  <2>2. Kind(c, v, st, Nothing, <<>>)
    BY <2>1, Zenon DEF Kind
  <2> QED BY <1>1, <1>7, <2>2, EmptyList, ProceedGoes DEF st, v
<1> QED
  BY <1>3, <1>6, <1>7

LEMMA AutoGoes ==
  ASSUME TxInv, TxInv', NEW c \in calls, left[c] # <<>>, UNCHANGED calls,
         AutoComplete(c)
  PROVE  GoesOn(c)
<1> DEFINE st == left[c][1]
           w == Write(Wip(st.on), "completed")
           F == <<Check("cascade", st.on)>>
<1>1. Head(left[c]) = st /\ st.do = "autocomplete"
  BY HeadIs DEF AutoComplete
<1>2. /\ st \in Checks(c) /\ c \in Calls /\ st.on \in Wips
      /\ c.op \in Recording \cup {"abort_dispatch"}
  BY <1>1, AtCheck, CheckKinds
<1>3. Proceed(c, w, F) \/ Proceed(c, Nothing, <<>>)
  BY <1>1 DEF AutoComplete
<1>4. \A row \in DOMAIN w : row[1] = "wip"
  BY DEF Write, Wip
<1>5. F \in Seq(StatementsOf(c)) /\ \A k \in 1..Len(F) : F[k].do \in Work
  <2>1. Check("cascade", st.on) \in Checks(c)
    <3>1. st = Check("autocomplete", WipOf[c.on])
      <4> HIDE DEF st
      <4> QED BY <1>1, <1>2 DEF Checks, Check, Cascades
    <3>2. st.on = WipOf[c.on]
      BY <3>1 DEF Check
    <3> HIDE DEF st
    <3> QED BY <1>2, <3>2 DEF Checks, Check, Cascades, Recording
  <2>2. F \in Seq(StatementsOf(c)) /\ Len(F) = 1 /\ F[1] = Check("cascade", st.on)
    BY <2>1 DEF StatementsOf
  <2> HIDE DEF F
  <2> QED BY <2>2 DEF Check, Work
<1> HIDE DEF w, F
<1>6. CASE Proceed(c, w, F)
  <2>1. Quiet(c, View(c), st, w, F)
    BY <1>1, <1>2, <1>4 DEF Quiet, Cascading
  <2>2. Kind(c, View(c), st, w, F)
    BY <2>1, Zenon DEF Kind
  <2> QED BY <1>1, <1>5, <1>6, <2>2, ProceedGoes
<1>7. CASE Proceed(c, Nothing, <<>>)
  BY <1>1, <1>7, FitsNothing, NothingGoes
<1> QED
  BY <1>3, <1>6, <1>7

LEMMA InsertGoes ==
  ASSUME TxInv, TxInv', NEW c \in calls, left[c] # <<>>, UNCHANGED calls,
         InsertDispatch(c)
  PROVE  Refuse(c) \/ GoesOn(c)
<1> DEFINE st == left[c][1]
           x == st.on
           v == View(c)
           opened == {s \in MembersOf(v, x) :
                        v[Progress(s, TypeOf[x])] = "pending"}
           rows == {Progress(s, TypeOf[x]) : s \in opened}
           w1 == IF v[Wip(x)] = "created" THEN Write(Wip(x), "in_progress")
                                          ELSE Nothing
           w2 == Over(Write(Dispatch(st.new), "pending"), w1)
           w == Over([row \in rows |-> "in_progress"], w2)
<1>1. Head(left[c]) = st /\ st.do = "dispatch"
  BY HeadIs DEF InsertDispatch
<1>2. /\ c.op = "create_dispatch" /\ x = WipOf[c.on] /\ st.new = c.on
  BY <1>1, AtCheck, CheckKinds
<1>3. \/ Refuse(c)
      \/ v[Wip(x)] # "none" /\ Proceed(c, w, <<>>)
  BY <1>1 DEF InsertDispatch
<1>4. \A row \in rows : row[1] = "progress"
  <2>1. \A s, t : Progress(s, t)[1] = "progress"
    BY DEF Progress
  <2> HIDE DEF opened, x
  <2> QED BY <2>1
<1>5. \A row \in DOMAIN w1 : row[1] = "wip"
  BY DEF Write, Nothing, Wip
<1> HIDE DEF w1, rows
<1>6. DOMAIN w2 = {Dispatch(st.new)} \cup DOMAIN w1
  BY DEF Write, Over
<1> HIDE DEF w2
<1>7. DOMAIN w = rows \cup DOMAIN w2
  BY DEF Over
<1> HIDE DEF w
<1>8. \A row \in DOMAIN w : row = Dispatch(c.on) \/ row[1] \in {"wip", "progress"}
  BY <1>2, <1>4, <1>5, <1>6, <1>7
<1>9. ASSUME v[Wip(x)] # "none", Proceed(c, w, <<>>) PROVE GoesOn(c)
  <2>1. Inserting(c, v, st, w, <<>>)
    BY <1>1, <1>2, <1>8, <1>9 DEF Inserting
  <2>2. Kind(c, v, st, w, <<>>)
    BY <2>1, Zenon DEF Kind
  <2> QED BY <1>1, <1>9, <2>2, EmptyList, ProceedGoes
<1> QED
  BY <1>3, <1>9

\* A cascade over wafers looks at each of them.
LEMMA CascadeCovers ==
  ASSUME NEW S \in SUBSET Samples, NEW F \in Cascade(S), NEW s \in S
  PROVE  Pending(F, Check("trycomplete", s))
<1>1. PICK q \in SetToSeqs(S) :
        F = [i \in DOMAIN q |-> Lock(Sample(q[i]))]
                \o [i \in DOMAIN q |-> Check("trycomplete", q[i])]
  BY DEF Cascade
<1>2. /\ q \in Seq(S) /\ DOMAIN q = 1..Len(q) /\ Len(q) \in Nat
      /\ \E i \in 1..Len(q) : q[i] = s
  BY FiniteWafers, OrderOf
<1>3. PICK i \in 1..Len(q) : q[i] = s
  BY <1>2
<1> DEFINE a == [k \in DOMAIN q |-> Lock(Sample(q[k]))]
           b == [k \in DOMAIN q |-> Check("trycomplete", q[k])]
<1>4. /\ DOMAIN a = 1..Len(q) /\ DOMAIN b = 1..Len(q)
      /\ b[i] = Check("trycomplete", s)
  BY <1>2, <1>3
<1>5. \E X : a \in Seq(X) /\ b \in Seq(X)
  <2> DEFINE X == {a[k] : k \in 1..Len(q)} \cup {b[k] : k \in 1..Len(q)}
  <2>1. a = [k \in 1..Len(q) |-> a[k]] /\ b = [k \in 1..Len(q) |-> b[k]]
    BY <1>2
  <2> HIDE DEF a, b
  <2>2. a \in Seq(X) /\ b \in Seq(X)
    BY <1>2, <2>1
  <2> QED BY <2>2
<1>6. F = a \o b
  BY <1>1
<1> HIDE DEF a, b
<1>7. PICK X : a \in Seq(X) /\ b \in Seq(X)
  BY <1>5
<1>8. Len(a) = Len(q) /\ Len(b) = Len(q)
  BY <1>2, <1>4, <1>7
<1>9. Len(q) + i \in 1..Len(F) /\ F[Len(q) + i] = b[i]
  BY <1>2, <1>3, <1>6, <1>7, <1>8
<1> QED
  BY <1>4, <1>9 DEF Pending

LEMMA RollGoes ==
  ASSUME TxInv, TxInv', NEW c \in calls, left[c] # <<>>, UNCHANGED calls,
         RollVerdicts(c)
  PROVE  GoesOn(c)
<1> DEFINE st == left[c][1]
           x == WipOf[st.on]
           S == MembersOf(View(c), x)
           w == [row \in {Progress(s, TypeOf[x]) : s \in S} |-> st.on]
<1>1. Head(left[c]) = st /\ st.do = "roll"
  BY HeadIs DEF RollVerdicts
<1>2. /\ c \in Calls /\ c.op \in Unloading /\ st.on = c.on /\ st \in Checks(c)
  BY <1>1, AtCheck, CheckKinds
<1>3. PICK F \in Cascade(S) : Proceed(c, w, F)
  BY <1>1 DEF RollVerdicts
<1>4. S \in SUBSET Samples
  BY DEF MembersOf
<1>5. DOMAIN w = {Progress(s, TypeOf[x]) : s \in S}
  OBVIOUS
<1>6. st = Check("roll", c.on)
  <2> HIDE DEF st
  <2> QED BY <1>1, <1>2 DEF Checks, Check, Cascades
<1> HIDE DEF S, w
<1>7. \A s \in S : Pending(F, Check("trycomplete", s))
  BY <1>3, <1>4, CascadeCovers
<1>8. Fits(c, F, held[c])
  BY <1>2, <1>3, <1>4, CascadeFits DEF Cascading
<1>9. Rolling(c, View(c), st, w, F)
  BY <1>2, <1>5, <1>6, <1>7 DEF Rolling, S
<1>10. Kind(c, View(c), st, w, F)
  BY <1>9, Zenon DEF Kind
<1> QED
  BY <1>1, <1>3, <1>8, <1>10, ProceedGoes DEF Fits

LEMMA TryGoes ==
  ASSUME TxInv, TxInv', NEW c \in calls, left[c] # <<>>, UNCHANGED calls,
         TryComplete(c)
  PROVE  GoesOn(c)
<1> DEFINE st == left[c][1]
           s == st.on
           r == Owner[s]
           v == View(c)
           w == Write(Sample(s), "completed")
           F == <<Lock(Request(r)), Check("completed", r)>>
           Done == /\ v[Sample(s)] = "processing"
                   /\ \E t \in Types : v[Progress(s, t)] # "none"
                   /\ \A t \in Types :
                        v[Progress(s, t)] \in Dispatches \cup {"none"}
<1>1. Head(left[c]) = st /\ st.do = "trycomplete"
  BY HeadIs DEF TryComplete
<1>2. st \in Checks(c) /\ c \in Calls /\ s \in Samples /\ c.op \in Cascading
  BY <1>1, AtCheck, CheckKinds
<1>3. \/ Done /\ Proceed(c, w, F)
      \/ ~Done /\ Proceed(c, Nothing, <<>>)
  BY <1>1 DEF TryComplete
<1>4. st = Check("trycomplete", s)
  <2> HIDE DEF st
  <2> QED BY <1>1, <1>2 DEF Checks, Check, Cascades
<1>5. Writes(w, Sample(s), "completed")
  <2> HIDE DEF s
  <2> QED BY DEF Writes, Write
<1>6. /\ F \in Seq(StatementsOf(c)) /\ \A k \in 1..Len(F) : F[k].do \in Work
      /\ Pending(F, Check("completed", r))
  <2>1. r \in Requests /\ Request(r) \in Rows
    BY <1>2, RowFacts, TablesAssumption
  <2>2. Check("completed", r) \in StatementsOf(c)
    BY <1>2, <2>1 DEF StatementsOf, Checks, Cascades, Cascading, Unloading, Recording
  <2>3. Lock(Request(r)) \in StatementsOf(c)
    BY <1>2, <2>1, StatementIn
  <2>4. /\ F \in Seq(StatementsOf(c)) /\ Len(F) = 2
        /\ F[1] = Lock(Request(r)) /\ F[2] = Check("completed", r)
    BY <2>2, <2>3
  <2> HIDE DEF F
  <2>5. 1..Len(F) = {1, 2}
    BY <2>4
  <2>6. F[1].do \in Work /\ F[2].do \in Work
    BY <2>4 DEF Work, Lock, Check
  <2>7. 2 \in 1..Len(F)
    BY <2>4
  <2> QED BY <2>4, <2>5, <2>6, <2>7 DEF Pending
<1>7. Done => v[Sample(s)] = "processing"
  OBVIOUS
<1>8. ~Done => ~(v[Sample(s)] = "processing" /\ Types # {} /\ Measured(v, s))
  <2> SUFFICES ASSUME v[Sample(s)] = "processing", Types # {}, Measured(v, s)
               PROVE  Done
    OBVIOUS
  <2>1. \A t \in Types : v[Progress(s, t)] \in Dispatches
    BY DEF Measured
  <2> HIDE DEF v, s
  <2>2. \A t \in Types : v[Progress(s, t)] # "none"
    BY <2>1, TablesAssumption
  <2> QED BY <2>1, <2>2
<1> HIDE DEF w, F, st, s, r, v, Done
<1>9. CASE Done /\ Proceed(c, w, F)
  <2>1. Trying(c, v, st, w, F)
    BY <1>2, <1>4, <1>5, <1>6, <1>7, <1>9 DEF Trying, r
  <2>2. Kind(c, v, st, w, F)
    BY <2>1, Zenon DEF Kind
  <2> QED BY <1>1, <1>6, <1>9, <2>2, ProceedGoes DEF st, v
<1>10. CASE ~Done /\ Proceed(c, Nothing, <<>>)
  <2>1. Trying(c, v, st, Nothing, <<>>)
    BY <1>2, <1>4, <1>8, <1>10, NothingWritten DEF Trying
  <2>2. Kind(c, v, st, Nothing, <<>>)
    BY <2>1, Zenon DEF Kind
  <2> QED BY <1>1, <1>10, <2>2, EmptyList, ProceedGoes DEF st, v
<1> QED
  BY <1>3, <1>9, <1>10

LEMMA StepGoes ==
  ASSUME TxInv, TxInv', NEW c \in calls, Step(c)
  PROVE  \/ Refuse(c)
         \/ left[c] # <<>> /\ Head(left[c]).do = "commit" /\ CommitTransaction(c)
         \/ GoesOn(c)
<1>0. left[c] # <<>> /\ UNCHANGED calls
  BY DEF Step
<1>1. CASE AcquireLock(c)
  BY <1>0, <1>1, AcquireGoes
<1>2. CASE MoveRow(c)
  BY <1>0, <1>2, MoveGoes
<1>3. CASE SetRow(c)
  BY <1>0, <1>3, SetGoes
<1>4. CASE TestCondition(c)
  BY <1>0, <1>4, TestGoes
<1>5. CASE ShipSamples(c)
  BY <1>0, <1>5, ShipGoes
<1>6. CASE DeleteSamples(c)
  BY <1>0, <1>6, DeleteGoes
<1>7. CASE CheckReceived(c)
  BY <1>0, <1>7, ReceivedGoes
<1>8. CASE CheckCompleted(c)
  BY <1>0, <1>8, CompletedGoes
<1>9. CASE ValidateSamples(c)
  BY <1>0, <1>9, ValidateGoes
<1>10. CASE InsertDispatch(c)
  BY <1>0, <1>10, InsertGoes
<1>11. CASE CascadeBatch(c)
  BY <1>0, <1>11, CascadeGoes
<1>12. CASE TryComplete(c)
  BY <1>0, <1>12, TryGoes
<1>13. CASE RollVerdicts(c)
  BY <1>0, <1>13, RollGoes
<1>14. CASE ExceptBatch(c)
  BY <1>0, <1>14, ExceptGoes
<1>15. CASE AutoComplete(c)
  BY <1>0, <1>15, AutoGoes
<1>16. CASE BreakDeadlock(c)
  BY <1>16 DEF BreakDeadlock
<1> QED
  BY <1>0, <1>1, <1>2, <1>3, <1>4, <1>5, <1>6, <1>7, <1>8, <1>9, <1>10,
     <1>11, <1>12, <1>13, <1>14, <1>15, <1>16 DEF Step

-----------------------------------------------------------------------------
\* A call's own steps keep what is said of it.

LEMMA CheckFields ==
  /\ \A what, on : Check(what, on).do = what /\ Check(what, on).on = on
  /\ \A row, action : /\ Move(row, action).do = "move"
                      /\ Move(row, action).row = row
                      /\ Move(row, action).action = action
  /\ \A row, value : /\ Set(row, value).do = "set"
                     /\ Set(row, value).row = row
                     /\ Set(row, value).value = value
  /\ \A row, old, value : /\ SetIf(row, old, value).do = "setif"
                          /\ SetIf(row, old, value).row = row
                          /\ SetIf(row, old, value).old = old
                          /\ SetIf(row, old, value).value = value
BY DEF Check, Move, Set, SetIf

\* Which steps put statements at the head of the list, and what a move writes.
LEMMA KindFacts ==
  ASSUME NEW c, NEW V, NEW st, NEW w, NEW F, Kind(c, V, st, w, F)
  PROVE  /\ F # <<>> =>
             \/ c.op = "ship" /\ st.do = "shipsamples"
             \/ c.op \in {"delete_draft", "abort_wip"} \cup Cascading \cup Settling
             \/ /\ c.op \in {"create_wip", "add_samples"}
                /\ \A s \in c.samples : V[Request(Owner[s])] = "in_progress"
         /\ st.do = "move" /\ st.row[1] # "wip" =>
                Moving(c, V, st, w, F) /\ st.row \in DOMAIN w
<1>1. CASE Quiet(c, V, st, w, F)
  BY <1>1 DEF Quiet
<1>2. CASE Moving(c, V, st, w, F)
  BY <1>2 DEF Moving, Writes
<1>3. CASE Setting(c, V, st, w, F)
  BY <1>3 DEF Setting
<1>4. CASE SettingIf(c, V, st, w, F)
  BY <1>4 DEF SettingIf
<1>5. CASE Receiving(c, V, st, w, F)
  BY <1>5, CheckFields DEF Receiving
<1>6. CASE Completing(c, V, st, w, F)
  BY <1>6, CheckFields DEF Completing
<1>7. CASE Trying(c, V, st, w, F)
  BY <1>7, CheckFields DEF Trying
<1>8. CASE Rolling(c, V, st, w, F)
  BY <1>8, CheckFields DEF Rolling, Cascading
<1>9. CASE Inserting(c, V, st, w, F)
  BY <1>9 DEF Inserting
<1> QED
  BY <1>1, <1>2, <1>3, <1>4, <1>5, <1>6, <1>7, <1>8, <1>9 DEF Kind

LEMMA KeepsSequence ==
  ASSUME NEW c, NEW v, NEW L, NEW M, NEW H, NEW w, NEW F, NEW N, NEW G,
         Goes(c, v, L, M, H, w, F, N, G), InSequence(c, L, M)
  PROVE  InSequence(c, F \o Tail(L), N)
<1> DEFINE K == F \o Tail(L)
           S == StatementsOf(c)
<1>1. /\ c \in Calls /\ L \in Seq(S) /\ L # <<>> /\ F \in Seq(S)
      /\ \A k \in 1..Len(F) : F[k].do \in Work
      /\ DOMAIN M \subseteq DOMAIN N /\ DOMAIN w \subseteq DOMAIN N
      /\ Kind(c, Over(M, v), L[1], w, F) /\ L[1].do # "commit"
  <2>1. /\ c \in Calls /\ L \in Seq(S) /\ L # <<>> /\ F \in Seq(S)
    BY GoesFacts
  <2> QED BY <2>1 DEF Goes
<1>2. /\ Len(L) \in Nat /\ Len(F) \in Nat /\ Len(K) = Len(F) + Len(L) - 1
      /\ \A i \in 1..Len(F) : K[i] = F[i]
      /\ \A i \in 1..Len(K) :
            \/ i \in 1..Len(F)
            \/ i - Len(F) + 1 \in 2..Len(L) /\ K[i] = L[i - Len(F) + 1]
  BY <1>1, Splice
<1>3. \A x : Pending(F, x) => x.do \in Work
  BY <1>1 DEF Pending
<1>4. \A a, b : Follows(L, a, b) /\ a.do \notin Work => Follows(K, a, b)
  BY <1>1, <1>3, FollowsSplice
<1> HIDE DEF K
<1>5. \A i \in 1..Len(K) : K[i].do = "commit" => i = Len(K)
  <2> SUFFICES ASSUME NEW i \in 1..Len(K), K[i].do = "commit" PROVE i = Len(K)
    OBVIOUS
  <2>1. i \notin 1..Len(F)
    BY <1>1, <1>2 DEF Work
  <2>2. i - Len(F) + 1 \in 2..Len(L) /\ L[i - Len(F) + 1].do = "commit"
    BY <1>2, <2>1
  <2>3. i - Len(F) + 1 = Len(L)
    BY <2>2 DEF InSequence
  <2> QED BY <1>2, <2>3
<1>6. /\ \A row, action : Move(row, action).do \notin Work
      /\ \A on : Check("received", on).do \notin Work
  BY CheckFields DEF Work
<1>7. ASSUME NEW row, NEW move, NEW D,
             \A i \in 1..Len(L) : L[i].do \in D => WrittenFirst(L, M, i, row, move),
             L[1] = move => row \in DOMAIN N,
             F # <<>> => L[1].do \in D
      PROVE  \A i \in 1..Len(K) : K[i].do \in D => WrittenFirst(K, N, i, row, move)
  <2> SUFFICES ASSUME NEW i \in 1..Len(K), K[i].do \in D
               PROVE  WrittenFirst(K, N, i, row, move)
    OBVIOUS
  <2>1. CASE i \in 1..Len(F)
    <3>1. F # <<>> /\ 1 \in 1..Len(L)
      BY <1>1, <1>2, <2>1
    <3>2. WrittenFirst(L, M, 1, row, move)
      BY <1>7, <3>1
    <3>3. row \in DOMAIN M
      BY <3>2 DEF WrittenFirst
    <3> QED BY <1>1, <3>3 DEF WrittenFirst
  <2>2. CASE i - Len(F) + 1 \in 2..Len(L) /\ K[i] = L[i - Len(F) + 1]
    <3> DEFINE k == i - Len(F) + 1
    <3>1. k \in 2..Len(L) /\ L[k].do \in D /\ k \in 1..Len(L)
      BY <1>2, <2>2
    <3>2. Len(F) + k - 1 = i
      BY <1>2
    <3> HIDE DEF k
    <3>3. WrittenFirst(L, M, k, row, move)
      BY <1>7, <3>1
    <3>4. WrittenFirst(K, N, Len(F) + k - 1, row, move)
      BY <1>1, <1>7, <3>1, <3>3, FirstSplice DEF K
    <3> QED BY <3>2, <3>4
  <2> QED BY <1>2, <2>1, <2>2
<1>8. ASSUME c.op = "ship"
      PROVE  \A i \in 1..Len(K) : K[i].do \in {"shipsamples", "setif"} =>
                WrittenFirst(K, N, i, Request(c.on), Move(Request(c.on), "ship"))
  <2> DEFINE D == {"shipsamples", "setif"}
             row == Request(c.on)
             move == Move(row, "ship")
  <2>1. \A i \in 1..Len(L) : L[i].do \in D => WrittenFirst(L, M, i, row, move)
    BY <1>8 DEF InSequence
  <2>2. F # <<>> => L[1].do \in D
    BY <1>1, <1>8, KindFacts DEF Cascading, Unloading, Recording, Settling
  <2>3. L[1] = move => row \in DOMAIN N
    BY <1>1, CheckFields, KindFacts DEF Request
  <2> HIDE DEF D, row, move
  <2>5. \A i \in 1..Len(K) : K[i].do \in D => WrittenFirst(K, N, i, row, move)
    BY <1>7, <2>1, <2>2, <2>3
  <2> QED BY <2>5 DEF D, row, move
<1>9. ASSUME c.op = "redispatch"
      PROVE  \A i \in 1..Len(K) : K[i].do = "setif" =>
                WrittenFirst(K, N, i, Dispatch(c.on),
                             Move(Dispatch(c.on), "redispatch"))
  <2> DEFINE D == {"setif"}
             row == Dispatch(c.on)
             move == Move(row, "redispatch")
  <2>1. \A i \in 1..Len(L) : L[i].do \in D => WrittenFirst(L, M, i, row, move)
    BY <1>9 DEF InSequence
  <2>2. F # <<>> => L[1].do \in D
    BY <1>1, <1>9, KindFacts DEF Cascading, Unloading, Recording, Settling
  <2>3. L[1] = move => row \in DOMAIN N
    BY <1>1, CheckFields, KindFacts DEF Dispatch
  <2> HIDE DEF D, row, move
  <2>5. \A i \in 1..Len(K) : K[i].do \in D => WrittenFirst(K, N, i, row, move)
    BY <1>7, <2>1, <2>2, <2>3
  <2> QED BY <2>5 DEF D, row, move
<1> QED
  BY <1>4, <1>5, <1>6, <1>8, <1>9 DEF InSequence, K

LEMMA MovesOfRequests ==
  ASSUME NEW c \in Calls, NEW st \in Moves(c), st.row[1] = "request"
  PROVE  /\ c.op \in {"submit", "approve", "cancel", "ship"} /\ c.on \in Requests
         /\ st = Move(Request(c.on), c.op)
         /\ st.row = Request(c.on) /\ st.action = c.op
         /\ Sources(st.row, st.action) = RequestTransitions[c.op]
         /\ Target(st.row, st.action) = RequestTarget[c.op]
<1>1. \A x, y, z, a : /\ Sample(x)[1] # "request" /\ Wip(y)[1] # "request"
                      /\ Dispatch(z)[1] # "request"
  BY DEF Sample, Wip, Dispatch
<1>2. \A row, action : Move(row, action).row = row
  BY CheckFields
<1>3. c.op \in {"submit", "approve", "cancel", "ship"}
  BY <1>1, <1>2 DEF Moves
<1>4. st = Move(Request(c.on), c.op)
  BY <1>3 DEF Moves
<1>5. st.row = Request(c.on) /\ st.action = c.op
  BY <1>4, CheckFields
<1> QED
  BY <1>3, <1>4, <1>5, CallsOn DEF Sources, Target

LEMMA MovesOfSamples ==
  ASSUME NEW c \in Calls, NEW st \in Moves(c), st.row[1] = "sample"
  PROVE  /\ c.op \in Settling /\ c.on \in Samples
         /\ st = Move(Sample(c.on), c.op)
         /\ st.row = Sample(c.on) /\ st.action = c.op
         /\ Sources(st.row, st.action) = SampleTransitions[c.op]
         /\ Target(st.row, st.action) = SampleTarget[c.op]
<1>1. \A x, y, z : /\ Request(x)[1] # "sample" /\ Wip(y)[1] # "sample"
                   /\ Dispatch(z)[1] # "sample"
  BY DEF Request, Wip, Dispatch
<1>2. \A row, action : Move(row, action).row = row
  BY CheckFields
<1>3. c.op \in {"receive", "void", "return"}
  BY <1>1, <1>2 DEF Moves
<1>4. st = Move(Sample(c.on), c.op)
  BY <1>3 DEF Moves
<1>5. st.row = Sample(c.on) /\ st.action = c.op
  BY <1>4, CheckFields
<1> QED
  BY <1>3, <1>4, <1>5, CallsOn DEF Sources, Target, Settling

\* A call writes a request, a wafer or a run where the state machine allows.
LEMMA KeepsRequestWrites ==
  ASSUME NEW c, NEW v, NEW L, NEW M, NEW H, NEW w, NEW F, NEW N, NEW G,
         Goes(c, v, L, M, H, w, F, N, G), Written(c, v, M),
         NEW r \in Requests, Request(r) \in DOMAIN w
  PROVE  \/ N[Request(r)] = "none"
         \/ <<v[Request(r)], N[Request(r)]>> \in RequestWrites
<1> DEFINE V == Over(M, v)
           st == L[1]
           row == Request(r)
<1>1. /\ c \in Calls /\ L[1] \in StatementsOf(c)
      /\ \A x \in DOMAIN M : M[x] \in WritesOf(c, x)
      /\ row \in DOMAIN M => V[row] = M[row]
      /\ row \in Rows \ DOMAIN M => V[row] = v[row]
  BY GoesFacts
<1>2. row \in Rows /\ row[1] = "request" /\ row[2] = r
  BY RowFacts
<1>3. N[row] = w[row] /\ Kind(c, V, st, w, F)
  BY DEF Goes
<1>4. \/ row \in DOMAIN M /\ V[row] \in WritesOf(c, row)
      \/ row \notin DOMAIN M /\ V[row] = v[row]
  BY <1>1, <1>2
<1>a. \A x, y : Progress(x, y)[1] # "request" /\ Sample(x)[1] # "request"
                    /\ Dispatch(x)[1] # "request"
  BY DEF Progress, Sample, Dispatch
<1>b. row \in DOMAIN w
  OBVIOUS
<1> HIDE DEF V, st, row
<1>5. CASE Quiet(c, V, st, w, F)
  BY <1>2, <1>5, <1>b DEF Quiet
<1>6. CASE Moving(c, V, st, w, F)
  <2>1. st \in Moves(c) /\ st.row = row /\ w[row] = Target(row, st.action)
        /\ V[row] \in Sources(row, st.action)
    BY <1>6, <1>b DEF Moving, Writes
  <2>2. /\ c.op \in {"submit", "approve", "cancel", "ship"}
        /\ V[row] \in RequestTransitions[c.op] /\ w[row] = RequestTarget[c.op]
    BY <1>1, <1>2, <2>1, MovesOfRequests
  <2>3. \A x \in WritesOf(c, row) : x = RequestTarget[c.op]
    BY <1>1, <1>2, <2>2, WhoWrites
    DEF RequestTarget, Cascading, Unloading, Recording, Settling
  <2>4. RequestTarget[c.op] \notin RequestTransitions[c.op]
    BY <2>2 DEF RequestTarget, RequestTransitions
  <2>5. V[row] = v[row]
    BY <1>4, <2>2, <2>3, <2>4
  <2>6. <<v[row], w[row]>> \in RequestWrites
    BY <2>2, <2>5 DEF RequestWrites, RequestTarget, RequestTransitions
  <2> QED BY <1>3, <2>6 DEF row
<1>7. CASE Setting(c, V, st, w, F)
  <2>1. st \in Sets(c) /\ st.row = row /\ w[row] = st.value
    BY <1>7, <1>b DEF Setting, Writes
  <2>2. st.value = "none"
    <3>1. \A x, y : Member(x, y)[1] # "request" /\ Wip(x)[1] # "request"
      BY DEF Member, Wip
    <3> QED BY <1>2, <1>a, <2>1, <3>1, CheckFields DEF Sets
  <2> QED BY <1>3, <2>1, <2>2 DEF row
<1>8. CASE SettingIf(c, V, st, w, F)
  <2>1. st \in SetIfs(c) /\ st.row = row
    BY <1>8, <1>b DEF SettingIf, Writes
  <2> QED BY <1>2, <1>a, <2>1, CheckFields DEF SetIfs
<1>9. CASE Receiving(c, V, st, w, F)
  <2>1. /\ V[row] = "sample_shipped" /\ w[row] = "in_progress" /\ c.op \in Settling
    BY <1>2, <1>9, <1>b DEF Receiving, Writes, row, Request
  <2>2. WritesOf(c, row) \subseteq {"in_progress", "completed"}
    BY <1>2, <2>1 DEF WritesOf, Settling
  <2>3. V[row] = v[row]
    BY <1>4, <2>1, <2>2
  <2>4. <<v[row], w[row]>> \in RequestWrites
    BY <2>1, <2>3 DEF RequestWrites
  <2> QED BY <1>3, <2>4 DEF row
<1>10. CASE Completing(c, V, st, w, F)
  <2>1. V[row] = "in_progress" /\ w[row] = "completed"
    BY <1>2, <1>10, <1>b DEF Completing, Writes, row, Request
  <2>2. v[row] \in {"in_progress", "sample_shipped"}
    <3>1. CASE row \notin DOMAIN M
      BY <1>4, <2>1, <3>1
    <3>2. CASE row \in DOMAIN M
      <4>1. \/ M[row] = "none"
            \/ <<v[row], M[row]>> \in RequestWrites
        BY <3>2 DEF Written, row
      <4>2. M[row] = "in_progress"
        BY <1>1, <2>1, <3>2
      <4> QED BY <4>1, <4>2 DEF RequestWrites
    <3> QED BY <3>1, <3>2
  <2>3. <<v[row], w[row]>> \in RequestWrites
    BY <2>1, <2>2 DEF RequestWrites
  <2> QED BY <1>3, <2>3 DEF row
<1>11. CASE Trying(c, V, st, w, F)
  <2>1. \A x \in DOMAIN w : x[1] # "request"
    BY <1>11, <1>a DEF Trying, Writes
  <2> QED BY <1>2, <1>b, <2>1
<1>12. CASE Rolling(c, V, st, w, F)
  <2>1. \A x \in DOMAIN w : x[1] # "request"
    BY <1>12, <1>a DEF Rolling
  <2> QED BY <1>2, <1>b, <2>1
<1>13. CASE Inserting(c, V, st, w, F)
  <2>1. \A x \in DOMAIN w : x[1] # "request"
    BY <1>13, <1>a DEF Inserting
  <2> QED BY <1>2, <1>b, <2>1
<1> QED
  BY <1>3, <1>5, <1>6, <1>7, <1>8, <1>9, <1>10, <1>11, <1>12, <1>13 DEF Kind

LEMMA KeepsSampleWrites ==
  ASSUME NEW c, NEW v, NEW L, NEW M, NEW H, NEW w, NEW F, NEW N, NEW G,
         Goes(c, v, L, M, H, w, F, N, G), InSequence(c, L, M),
         NEW s \in Samples, Sample(s) \in DOMAIN w
  PROVE  /\ \/ N[Sample(s)] \in {"processing", "none"}
            \/ <<v[Sample(s)], N[Sample(s)]>> \in SampleWrites
         /\ c.op \in Settling => s = c.on
         /\ c.op = "ship" => Owner[s] = c.on /\ Request(c.on) \in DOMAIN N
<1> DEFINE V == Over(M, v)
           st == L[1]
           row == Sample(s)
<1>1. /\ c \in Calls /\ L[1] \in StatementsOf(c) /\ L \in Seq(StatementsOf(c))
      /\ L # <<>>
      /\ \A x \in DOMAIN M : M[x] \in WritesOf(c, x)
      /\ row \in DOMAIN M => V[row] = M[row]
      /\ row \in Rows \ DOMAIN M => V[row] = v[row]
  BY GoesFacts
<1>2. row \in Rows /\ row[1] = "sample" /\ row[2] = s
  BY RowFacts
<1>3. N[row] = w[row] /\ Kind(c, V, st, w, F) /\ DOMAIN M \subseteq DOMAIN N
  BY DEF Goes
<1>4. \/ row \in DOMAIN M /\ V[row] \in WritesOf(c, row)
      \/ row \notin DOMAIN M /\ V[row] = v[row]
  BY <1>1, <1>2
<1>a. \A x, y : Progress(x, y)[1] # "sample" /\ Request(x)[1] # "sample"
                    /\ Dispatch(x)[1] # "sample"
  BY DEF Progress, Request, Dispatch
<1>b. row \in DOMAIN w
  OBVIOUS
<1>c. \A x : Sample(x)[2] = x
  BY DEF Sample
<1> HIDE DEF V, st, row
<1>5. CASE Quiet(c, V, st, w, F)
  BY <1>2, <1>5, <1>b DEF Quiet
<1>6. CASE Moving(c, V, st, w, F)
  <2>1. st \in Moves(c) /\ st.row = row /\ w[row] = Target(row, st.action)
        /\ V[row] \in Sources(row, st.action)
    BY <1>6, <1>b DEF Moving, Writes
  <2>2. /\ c.op \in Settling /\ row = Sample(c.on)
        /\ V[row] \in SampleTransitions[c.op] /\ w[row] = SampleTarget[c.op]
    BY <1>1, <1>2, <2>1, MovesOfSamples
  <2>3. \A x \in WritesOf(c, row) : x = SampleTarget[c.op]
    BY <1>1, <1>2, <2>2, WhoWrites
    DEF SampleTarget, Cascading, Unloading, Recording, Settling
  <2>4. SampleTarget[c.op] \notin SampleTransitions[c.op]
    BY <2>2 DEF SampleTarget, SampleTransitions, Settling
  <2>5. V[row] = v[row]
    BY <1>4, <2>2, <2>3, <2>4
  <2>6. <<v[row], w[row]>> \in SampleWrites
    BY <2>2, <2>5 DEF SampleWrites, SampleTarget, SampleTransitions, Settling
  <2>7. s = c.on
    BY <1>2, <1>c, <2>2
  <2> QED BY <1>3, <2>2, <2>6, <2>7 DEF row, Settling
<1>7. CASE Setting(c, V, st, w, F)
  <2>1. st \in Sets(c) /\ st.row = row /\ w[row] = st.value
    BY <1>7, <1>b DEF Setting, Writes
  <2>2. /\ st.value \in {"none", "processing"}
        /\ c.op \in {"delete_draft", "create_wip", "add_samples"}
    <3>1. \A x, y : Member(x, y)[1] # "sample" /\ Wip(x)[1] # "sample"
      BY DEF Member, Wip
    <3> QED BY <1>2, <1>a, <2>1, <3>1, CheckFields DEF Sets
  <2> QED BY <1>3, <2>1, <2>2 DEF row, Settling
<1>8. CASE SettingIf(c, V, st, w, F)
  <2>1. /\ st \in SetIfs(c) /\ st.row = row /\ w[row] = st.value
        /\ V[row] = st.old /\ st.do = "setif"
    BY <1>8, <1>b DEF SettingIf, Writes
  <2>2. \/ /\ c.op = "ship" /\ s \in SamplesOf(c.on)
           /\ st.old = "created" /\ st.value = "shipped"
        \/ /\ c.op = "abort_wip"
           /\ st.old = "processing" /\ st.value = "processing_exception"
    BY <1>2, <1>a, <1>c, <2>1, CheckFields DEF SetIfs
  <2>3. V[row] = v[row]
    BY <1>1, <1>2, <1>4, <2>1, <2>2, WhoWrites DEF Cascading, Unloading, Recording
  <2>4. <<v[row], w[row]>> \in SampleWrites
    BY <2>1, <2>2, <2>3 DEF SampleWrites
  <2>5. c.op = "ship" => Request(c.on) \in DOMAIN N
    <3> SUFFICES ASSUME c.op = "ship" PROVE Request(c.on) \in DOMAIN N
      OBVIOUS
    <3>1. 1 \in 1..Len(L)
      BY <1>1
    <3>2. WrittenFirst(L, M, 1, Request(c.on), Move(Request(c.on), "ship"))
      BY <2>1, <3>1 DEF InSequence, st
    <3>3. Request(c.on) \in DOMAIN M
      BY <3>2 DEF WrittenFirst
    <3> QED BY <1>3, <3>3
  <2> QED BY <1>3, <2>2, <2>4, <2>5 DEF row, Settling, SamplesOf
<1>9. CASE Receiving(c, V, st, w, F)
  <2>1. \A x \in DOMAIN w : x[1] # "sample"
    BY <1>9, <1>a DEF Receiving, Writes
  <2> QED BY <1>2, <1>b, <2>1
<1>10. CASE Completing(c, V, st, w, F)
  <2>1. \A x \in DOMAIN w : x[1] # "sample"
    BY <1>10, <1>a DEF Completing, Writes
  <2> QED BY <1>2, <1>b, <2>1
<1>11. CASE Trying(c, V, st, w, F)
  <2>1. V[row] = "processing" /\ w[row] = "completed" /\ c.op \in Cascading
    BY <1>2, <1>11, <1>b, <1>c DEF Trying, Writes
  <2>2. V[row] = v[row]
    BY <1>1, <1>2, <1>4, <2>1, WhoWrites DEF Cascading, Unloading, Recording
  <2>3. <<v[row], w[row]>> \in SampleWrites
    BY <2>1, <2>2 DEF SampleWrites
  <2>4. c.op \notin Settling /\ c.op # "ship"
    BY <2>1 DEF Cascading, Unloading, Recording, Settling
  <2> QED BY <1>3, <2>3, <2>4 DEF row
<1>12. CASE Rolling(c, V, st, w, F)
  <2>1. \A x \in DOMAIN w : x[1] # "sample"
    BY <1>12, <1>a DEF Rolling
  <2> QED BY <1>2, <1>b, <2>1
<1>13. CASE Inserting(c, V, st, w, F)
  <2>1. \A x \in DOMAIN w : x[1] # "sample"
    BY <1>13, <1>a DEF Inserting
  <2> QED BY <1>2, <1>b, <2>1
<1> QED
  BY <1>3, <1>5, <1>6, <1>7, <1>8, <1>9, <1>10, <1>11, <1>12, <1>13 DEF Kind

LEMMA KeepsRunWrites ==
  ASSUME NEW c, NEW v, NEW L, NEW M, NEW H, NEW w, NEW F, NEW N, NEW G,
         Goes(c, v, L, M, H, w, F, N, G), InSequence(c, L, M),
         Written(c, v, M), RunsHaveWips(v),
         NEW d \in Dispatches, Dispatch(d) \in DOMAIN w, v[Dispatch(d)] = "none"
  PROVE  v[Wip(WipOf[d])] # "none"
<1> DEFINE V == Over(M, v)
           st == L[1]
           row == Dispatch(d)
<1>1. /\ c \in Calls /\ L[1] \in StatementsOf(c) /\ L \in Seq(StatementsOf(c))
      /\ L # <<>> /\ DOMAIN N \subseteq Rows
      /\ \A x \in DOMAIN M : M[x] \in WritesOf(c, x)
      /\ \A x \in DOMAIN N : N[x] \in WritesOf(c, x)
      /\ \A x \in Rows \ DOMAIN M : V[x] = v[x]
  BY GoesFacts
<1>2. row \in Rows /\ row[1] = "dispatch" /\ row[2] = d /\ WipOf[d] \in Wips
  BY RowFacts, TablesAssumption
<1>3. /\ Kind(c, V, st, w, F) /\ row \in DOMAIN N /\ N[row] = w[row]
      /\ WrittenLocked(c, v, M, H) /\ WrittenLocked(c, v, N, G)
  BY DEF Goes, CallInv
<1>4. N[row] = "pending" /\ c.op \in {"create_dispatch", "redispatch"}
  <2>1. <<v[row], N[row]>> \in RunMoves
    BY <1>2, <1>3 DEF WrittenLocked
  <2>2. N[row] = "pending"
    BY <2>1, MovesOfRuns
  <2> QED BY <1>1, <1>2, <1>3, <2>2, WhoWrites
<1>5. c.on \in Dispatches /\ WipOf[c.on] \in Wips
  BY <1>1, <1>4, CallsOn DEF RunOps
<1>b. row \in DOMAIN w
  OBVIOUS
<1>c. \A x : Dispatch(x)[2] = x /\ Dispatch(x)[1] = "dispatch"
  BY DEF Dispatch
<1> HIDE DEF V, st, row
<1>6. CASE c.op = "create_dispatch"
  <2>1. row \in {Dispatch(c.on)} /\ d = c.on
    <3>1. N[row] \in WritesOf(c, row)
      BY <1>1, <1>3
    <3>2. row = Dispatch(c.on)
      BY <1>2, <1>6, <3>1 DEF WritesOf
    <3> QED BY <3>2, <1>2, <1>c
  <2>2. V[Wip(WipOf[d])] # "none"
    <3>1. Inserting(c, V, st, w, F)
      <4>1. CASE Quiet(c, V, st, w, F)
        BY <1>2, <1>b, <4>1 DEF Quiet
      <4>2. CASE Moving(c, V, st, w, F)
        BY <1>6, <4>2 DEF Moving, Moves
      <4>3. CASE Setting(c, V, st, w, F)
        BY <1>6, <4>3 DEF Setting, Sets
      <4>4. CASE SettingIf(c, V, st, w, F)
        BY <1>6, <4>4 DEF SettingIf, SetIfs
      <4>5. CASE Receiving(c, V, st, w, F)
        BY <1>6, <4>5 DEF Receiving, Settling
      <4>6. CASE Completing(c, V, st, w, F) \/ Trying(c, V, st, w, F)
        BY <1>6, <4>6 DEF Completing, Trying, Cascading, Unloading, Recording
      <4>7. CASE Rolling(c, V, st, w, F)
        BY <1>6, <4>7 DEF Rolling, Unloading
      <4> QED BY <1>3, <4>1, <4>2, <4>3, <4>4, <4>5, <4>6, <4>7 DEF Kind
    <3> QED BY <2>1, <3>1 DEF Inserting
  <2>3. Wip(WipOf[d]) \in Rows /\ Wip(WipOf[d])[1] = "wip"
    BY <1>2, RowFacts
  <2>4. Wip(WipOf[d]) \in DOMAIN M => v[Wip(WipOf[d])] # "none"
    BY <1>3, <1>6, <2>3 DEF WrittenLocked, Creates
  <2> QED BY <1>1, <2>2, <2>3, <2>4
<1>7. CASE c.op = "redispatch"
  <2>1. WipOf[c.new] = WipOf[c.on] /\ c.new \in Dispatches
    BY <1>1, <1>7, CallsOn
  <2>2. d \in {c.on, c.new}
    <3>1. N[row] \in WritesOf(c, row)
      BY <1>1, <1>3
    <3>2. row = Dispatch(c.on) \/ row = Dispatch(c.new)
      BY <1>2, <1>7, <3>1 DEF WritesOf
    <3> QED BY <3>2, <1>2, <1>c
  <2>3. CASE st.do = "setif"
    <3>1. 1 \in 1..Len(L)
      BY <1>1
    <3>2. WrittenFirst(L, M, 1, Dispatch(c.on), Move(Dispatch(c.on), "redispatch"))
      BY <1>7, <2>3, <3>1 DEF InSequence, st
    <3>3. Dispatch(c.on) \in DOMAIN M
      BY <3>2 DEF WrittenFirst
    <3>4. v[Wip(WipOf[c.on])] # "none"
      BY <1>5, <3>3 DEF Written, RunsHaveWips
    <3> QED BY <2>1, <2>2, <3>4
  <2>4. CASE st.do # "setif"
    <3>1. Moving(c, V, st, w, F)
      <4>1. CASE Quiet(c, V, st, w, F)
        BY <1>2, <1>b, <4>1 DEF Quiet
      <4>3. CASE Setting(c, V, st, w, F)
        BY <1>7, <4>3 DEF Setting, Sets
      <4>4. CASE SettingIf(c, V, st, w, F)
        BY <2>4, <4>4 DEF SettingIf
      <4>5. CASE Receiving(c, V, st, w, F)
        BY <1>7, <4>5 DEF Receiving, Settling
      <4>6. CASE Completing(c, V, st, w, F) \/ Trying(c, V, st, w, F)
        BY <1>7, <4>6 DEF Completing, Trying, Cascading, Unloading, Recording
      <4>7. CASE Rolling(c, V, st, w, F)
        BY <1>7, <4>7 DEF Rolling, Unloading
      <4>8. CASE Inserting(c, V, st, w, F)
        BY <1>7, <4>8 DEF Inserting
      <4> QED BY <1>3, <4>1, <4>3, <4>4, <4>5, <4>6, <4>7, <4>8 DEF Kind
    <3>2. st = Move(Dispatch(c.on), "redispatch")
      BY <1>7, <3>1 DEF Moving, Moves
    <3>3. st.row = Dispatch(c.on) /\ st.action = "redispatch"
      BY <3>2, CheckFields
    <3>4. w[row] = Target(Dispatch(c.on), "redispatch")
      BY <1>b, <3>1, <3>3 DEF Moving, Writes
    <3>5. Target(Dispatch(c.on), "redispatch") = "pending_redispatch"
      BY <1>c DEF Target, DispatchTarget
    <3> QED BY <1>3, <1>4, <3>4, <3>5
  <2> QED BY <2>3, <2>4
<1> QED
  BY <1>4, <1>6, <1>7

LEMMA KeepsWritten ==
  ASSUME NEW c, NEW v, NEW L, NEW M, NEW H, NEW w, NEW F, NEW N, NEW G,
         Goes(c, v, L, M, H, w, F, N, G), InSequence(c, L, M),
         Written(c, v, M), RunsHaveWips(v)
  PROVE  Written(c, v, N)
<1>1. /\ DOMAIN N = DOMAIN w \cup DOMAIN M
      /\ \A row \in DOMAIN M \ DOMAIN w : N[row] = M[row]
  BY DEF Goes
<1>2. ASSUME NEW r \in Requests, Request(r) \in DOMAIN N
      PROVE  \/ N[Request(r)] = "none"
             \/ <<v[Request(r)], N[Request(r)]>> \in RequestWrites
  BY <1>1, <1>2, KeepsRequestWrites DEF Written
<1>3. ASSUME NEW s \in Samples, Sample(s) \in DOMAIN N
      PROVE  /\ \/ N[Sample(s)] \in {"processing", "none"}
                \/ <<v[Sample(s)], N[Sample(s)]>> \in SampleWrites
             /\ c.op \in Settling => s = c.on
             /\ c.op = "ship" => Owner[s] = c.on /\ Request(c.on) \in DOMAIN N
  <2>1. CASE Sample(s) \in DOMAIN w
    BY <2>1, KeepsSampleWrites
  <2>2. CASE Sample(s) \notin DOMAIN w
    BY <1>1, <1>3, <2>2 DEF Written
  <2> QED BY <2>1, <2>2
<1>4. ASSUME NEW d \in Dispatches, Dispatch(d) \in DOMAIN N, v[Dispatch(d)] = "none"
      PROVE  v[Wip(WipOf[d])] # "none"
  BY <1>1, <1>4, KeepsRunWrites DEF Written
<1> QED
  BY <1>2, <1>3, <1>4 DEF Written

LEMMA KeepsJoins ==
  ASSUME NEW c, NEW v, NEW L, NEW M, NEW H, NEW w, NEW F, NEW N, NEW G,
         Goes(c, v, L, M, H, w, F, N, G), Joins(c, v, L, M)
  PROVE  Joins(c, v, F \o Tail(L), N)
<1> DEFINE V == Over(M, v)
           st == L[1]
           K == F \o Tail(L)
<1>1. /\ c \in Calls /\ L \in Seq(StatementsOf(c)) /\ L # <<>>
      /\ F \in Seq(StatementsOf(c))
      /\ \A x : Pending(K, x) => Pending(L, x) \/ Pending(F, x)
      /\ \A x \in DOMAIN M : M[x] \in WritesOf(c, x)
      /\ \A x \in Rows \ DOMAIN M : V[x] = v[x]
  BY GoesFacts
<1>2. DOMAIN N = DOMAIN w \cup DOMAIN M /\ Kind(c, V, st, w, F)
  BY DEF Goes
<1> SUFFICES ASSUME c.op \in {"create_wip", "add_samples"}, NEW s \in Samples,
                    \/ Sample(s) \in DOMAIN N
                    \/ Pending(K, Set(Sample(s), "processing"))
             PROVE  Later(v, Owner[s])
  BY DEF Joins
<1> DEFINE row == Sample(s)
           x == Set(row, "processing")
<1>3. Pending(L, x) \/ row \in DOMAIN M => Later(v, Owner[s])
  BY DEF Joins
<1>4. row \in Rows /\ row[1] = "sample" /\ row[2] = s /\ Owner[s] \in Requests
  BY RowFacts, TablesAssumption
<1>c. \A z, y : /\ Sample(z)[2] = z /\ Member(z, y)[1] = "member"
                /\ Wip(z)[1] = "wip"
  BY DEF Sample, Member, Wip
<1>s. st = L[1]
  OBVIOUS
<1> HIDE DEF V, st, K, row
<1>5. CASE row \in DOMAIN w
  <2>1. Setting(c, V, st, w, F)
    <3>1. CASE Quiet(c, V, st, w, F)
      BY <1>4, <1>5, <3>1 DEF Quiet
    <3>2. CASE Moving(c, V, st, w, F)
      BY <3>2 DEF Moving, Moves
    <3>3. CASE SettingIf(c, V, st, w, F)
      BY <3>3 DEF SettingIf, SetIfs
    <3>4. CASE Receiving(c, V, st, w, F)
      BY <3>4 DEF Receiving, Settling
    <3>5. CASE Completing(c, V, st, w, F) \/ Trying(c, V, st, w, F)
      BY <3>5 DEF Completing, Trying, Cascading, Unloading, Recording
    <3>6. CASE Rolling(c, V, st, w, F) \/ Inserting(c, V, st, w, F)
      BY <3>6 DEF Rolling, Inserting, Unloading
    <3> QED BY <1>2, <3>1, <3>2, <3>3, <3>4, <3>5, <3>6 DEF Kind
  <2>2. st \in Sets(c) /\ st.row = row
    BY <1>5, <2>1 DEF Setting, Writes
  <2>3. st = x
    BY <1>4, <1>c, <2>2, CheckFields DEF Sets
  <2>4. Pending(L, x)
    <3>1. 1 \in 1..Len(L)
      BY <1>1
    <3> HIDE DEF x
    <3> QED BY <1>s, <2>3, <3>1 DEF Pending
  <2> QED BY <1>3, <2>4
<1>6. CASE Pending(F, x)
  <2>1. PICK k \in 1..Len(F) : F[k] = x
    BY <1>6 DEF Pending
  <2>2. F # <<>> /\ x \in StatementsOf(c)
    BY <1>1, <2>1
  <2>3. x \in Sets(c)
    BY <1>1, <2>2, CheckFields, StatementKinds
  <2>4. s \in c.samples
    <3>1. x.row = row
      BY CheckFields
    <3>2. PICK z \in c.samples : x = Set(Sample(z), "processing")
      BY <1>4, <1>c, <2>3, <3>1, CheckFields DEF Sets
    <3>3. row = Sample(z)
      BY <3>1, <3>2, CheckFields
    <3> QED BY <1>4, <1>c, <3>3, <3>2
  <2>5. V[Request(Owner[s])] = "in_progress"
    <3>1. c.op \notin {"ship", "delete_draft", "abort_wip"} \cup Cascading \cup Settling
      BY DEF Cascading, Unloading, Recording, Settling
    <3> QED BY <1>2, <2>2, <2>4, <3>1, KindFacts
  <2>6. Request(Owner[s]) \in Rows \ DOMAIN M
    <3>1. Request(Owner[s]) \in Rows /\ Request(Owner[s])[1] = "request"
      BY <1>4, RowFacts
    <3>2. \A y : y \notin WritesOf(c, Request(Owner[s]))
      BY <1>1, <3>1, WhoWrites DEF Cascading, Unloading, Recording, Settling
    <3> QED BY <1>1, <3>1, <3>2
  <2> QED BY <1>1, <2>5, <2>6 DEF Later, InLab
<1>7. row \in DOMAIN M \/ row \in DOMAIN w \/ Pending(L, x) \/ Pending(F, x)
  BY <1>1, <1>2 DEF row
<1> QED
  BY <1>3, <1>5, <1>6, <1>7

LEMMA KeepsVerdicts ==
  ASSUME NEW c, NEW v, NEW L, NEW M, NEW H, NEW w, NEW F, NEW N, NEW G,
         Goes(c, v, L, M, H, w, F, N, G), InSequence(c, L, M),
         Verdicts(c, v, L, M, H)
  PROVE  Verdicts(c, v, F \o Tail(L), N, G)
<1> DEFINE V == Over(M, v)
           st == L[1]
           K == F \o Tail(L)
           row == Dispatch(c.on)
           x == WipOf[c.on]
           roll == Check("roll", c.on)
<1>1. /\ c \in Calls /\ L \in Seq(StatementsOf(c)) /\ L # <<>>
      /\ F \in Seq(StatementsOf(c))
      /\ \A y : Pending(L, y) /\ L[1] # y => Pending(K, y)
      /\ \A y : HasLock(H, y) => HasLock(G, y)
      /\ \A y \in NeedsLock(c, L[1]) : HasLock(H, y)
      /\ \A y \in DOMAIN M : M[y] \in WritesOf(c, y)
      /\ \A y \in Rows \ DOMAIN M : V[y] = v[y]
  BY GoesFacts
<1>2. DOMAIN N = DOMAIN w \cup DOMAIN M /\ Kind(c, V, st, w, F)
  BY DEF Goes
<1> SUFFICES ASSUME c.op \in Unloading \cup Recording, row \in DOMAIN N,
                    v[row] \in {"dispatched", "running"}
             PROVE  \/ Pending(K, roll)
                    \/ /\ HasLock(G, Wip(x))
                       /\ \A s \in MembersOf(v, x) : Progress(s, TypeOf[x]) \in DOMAIN N
  BY DEF Verdicts
<1>3. row \in DOMAIN M =>
        \/ Pending(L, roll)
        \/ /\ HasLock(H, Wip(x))
           /\ \A s \in MembersOf(v, x) : Progress(s, TypeOf[x]) \in DOMAIN M
  BY DEF Verdicts
<1>4. /\ c.on \in Dispatches /\ x \in Wips /\ row \in Rows
      /\ row[1] = "dispatch" /\ row[2] = c.on
  BY <1>1, CallsOn, RowFacts DEF Unloading, Recording, RunOps
<1>6. CASE row \in DOMAIN M /\ (~Pending(L, roll) \/ L[1] # roll)
  BY <1>1, <1>2, <1>3, <1>6
<1>7. CASE L[1] = roll
  <2>1. Rolling(c, V, st, w, F)
    <3>1. st.do = "roll"
      BY <1>7, CheckFields
    <3>2. CASE Quiet(c, V, st, w, F)
      BY <3>1, <3>2 DEF Quiet
    <3>3. CASE \/ Moving(c, V, st, w, F) \/ Setting(c, V, st, w, F)
               \/ SettingIf(c, V, st, w, F) \/ Inserting(c, V, st, w, F)
      BY <3>1, <3>3 DEF Moving, Setting, SettingIf, Inserting
    <3>4. CASE \/ Receiving(c, V, st, w, F) \/ Completing(c, V, st, w, F)
               \/ Trying(c, V, st, w, F)
      BY <3>1, <3>4, CheckFields DEF Receiving, Completing, Trying
    <3> QED BY <1>2, <3>2, <3>3, <3>4 DEF Kind
  <2>2. \A s \in MembersOf(V, x) : Progress(s, TypeOf[x]) \in DOMAIN N
    BY <1>2, <2>1 DEF Rolling
  <2>3. MembersOf(V, x) = MembersOf(v, x)
    <3>1. ASSUME NEW s \in Samples PROVE V[Member(x, s)] = v[Member(x, s)]
      <4>1. Member(x, s) \in Rows /\ Member(x, s)[1] = "member"
        BY <1>4, RowFacts
      <4>2. \A y : y \notin WritesOf(c, Member(x, s))
        BY <1>1, <4>1, WhoWrites DEF Unloading, Recording
      <4> QED BY <1>1, <4>1, <4>2
    <3> HIDE DEF V
    <3> QED BY <3>1 DEF MembersOf
  <2>4. HasLock(H, Wip(x))
    <3>1. NeedsLock(c, L[1]) = {Wip(x)}
      BY <1>7 DEF NeedsLock, Check
    <3> QED BY <1>1, <3>1
  <2> QED BY <1>1, <2>2, <2>3, <2>4
<1>8. CASE row \notin DOMAIN M /\ L[1] # roll
  <2>1. row \in DOMAIN w /\ V[row] = v[row]
    BY <1>1, <1>2, <1>4, <1>8
  <2>c. \A y, z : /\ Sample(y)[1] # "dispatch" /\ Request(y)[1] # "dispatch"
                  /\ Progress(y, z)[1] # "dispatch"
    BY DEF Sample, Request, Progress
  <2> HIDE DEF V, st, K, row, roll, x
  <2>2. Moving(c, V, st, w, F)
    <3>1. CASE Quiet(c, V, st, w, F)
      BY <1>4, <2>1, <3>1 DEF Quiet
    <3>2. CASE Setting(c, V, st, w, F)
      BY <3>2 DEF Setting, Sets, Unloading, Recording
    <3>3. CASE SettingIf(c, V, st, w, F)
      BY <3>3 DEF SettingIf, SetIfs, Unloading, Recording
    <3>4. CASE Receiving(c, V, st, w, F)
      BY <3>4 DEF Receiving, Settling, Unloading, Recording
    <3>5. CASE Completing(c, V, st, w, F) \/ Trying(c, V, st, w, F)
      BY <1>4, <2>1, <2>c, <3>5 DEF Completing, Trying, Writes
    <3>6. CASE Rolling(c, V, st, w, F)
      BY <1>4, <2>1, <2>c, <3>6 DEF Rolling
    <3>7. CASE Inserting(c, V, st, w, F)
      BY <3>7 DEF Inserting, Unloading, Recording
    <3> QED BY <1>2, <3>1, <3>2, <3>3, <3>4, <3>5, <3>6, <3>7 DEF Kind
  <2>3. st \in Moves(c) /\ st.row = row /\ V[row] \in Sources(row, st.action)
    BY <2>1, <2>2 DEF Moving, Writes
  <2>4. st.action \in {"unload", "record_result"} /\ st = Move(row, st.action)
        /\ (st.action = "unload" => c.op \in Unloading)
    BY <1>1, <1>4, <2>3, MoveKinds, CheckFields
       DEF Moves, Unloading, Recording, row
  <2>5. st.action # "record_result"
    <3> SUFFICES ASSUME st.action = "record_result" PROVE FALSE
      OBVIOUS
    <3>1. V[row] \in {"unloaded"}
      BY <1>4, <2>3 DEF Sources, DispatchTransitions
    <3> QED BY <2>1, <3>1
  <2>6. Follows(L, Move(row, "unload"), roll) /\ L[1] = Move(row, "unload")
    BY <2>4, <2>5 DEF InSequence, row, roll, st
  <2>7. ~Pending(F, Move(row, "unload"))
    <3>1. F = <<>>
      BY <2>2 DEF Moving
    <3> QED BY <3>1 DEF Pending
  <2> QED BY <1>1, <2>6, <2>7, FollowsSplice DEF K
<1> QED
  BY <1>6, <1>7, <1>8

LEMMA KeepsMeasures ==
  ASSUME NEW c, NEW v, NEW L, NEW M, NEW H, NEW w, NEW F, NEW N, NEW G,
         Goes(c, v, L, M, H, w, F, N, G), Measures(c, v, L, M, H)
  PROVE  Measures(c, v, F \o Tail(L), N, G)
<1> DEFINE V == Over(M, v)
           V2 == Over(N, v)
           st == L[1]
           K == F \o Tail(L)
<1>1. /\ c \in Calls /\ L # <<>>
      /\ \A y : Pending(L, y) /\ L[1] # y => Pending(K, y)
      /\ \A y : Pending(F, y) => Pending(K, y)
      /\ \A y : HasLock(H, y) => HasLock(G, y)
      /\ \A y \in NeedsLock(c, L[1]) : HasLock(H, y)
      /\ \A y \in DOMAIN N : N[y] \in WritesOf(c, y)
      /\ \A y \in DOMAIN N : V2[y] = N[y]
      /\ \A y \in DOMAIN w : V2[y] = w[y]
      /\ \A y \in Rows \ DOMAIN w : V2[y] = V[y]
  BY GoesFacts
<1>2. DOMAIN N = DOMAIN w \cup DOMAIN M /\ Kind(c, V, st, w, F)
  BY DEF Goes
<1> SUFFICES ASSUME c.op \in Unloading, NEW s \in Samples, NEW t \in Types,
                    Progress(s, t) \in DOMAIN N
             PROVE  \/ Pending(K, Check("trycomplete", s))
                    \/ /\ HasLock(G, Sample(s))
                       /\ ~(V2[Sample(s)] = "processing" /\ Measured(V2, s))
  BY DEF Measures, Looked
<1> DEFINE row == Sample(s)
           try == Check("trycomplete", s)
<1>3. Progress(s, t) \in DOMAIN M =>
        \/ Pending(L, try)
        \/ HasLock(H, row) /\ ~(V[row] = "processing" /\ Measured(V, s))
  BY DEF Measures, Looked
<1>4. /\ row \in Rows /\ row[1] = "sample"
      /\ \A u \in Types : Progress(s, u) \in Rows
      /\ try.do = "trycomplete" /\ try.on = s
  BY RowFacts, CheckFields
<1>5. ASSUME NEW u \in Types, Progress(s, u) \in DOMAIN w PROVE Pending(F, try)
  <2>c. \A x, y : /\ Progress(x, y)[2] = x /\ Progress(x, y)[1] = "progress"
                  /\ Sample(x)[1] = "sample" /\ Request(x)[1] = "request"
    BY DEF Progress, Sample, Request
  <2> DEFINE p == Progress(s, u)
  <2>d. p \in DOMAIN w /\ p[1] = "progress" /\ p[2] = s
    BY <1>5, <2>c
  <2> HIDE DEF V, V2, st, K, row, p
  <2>1. CASE Quiet(c, V, st, w, F)
    BY <2>1, <2>d DEF Quiet
  <2>2. CASE Moving(c, V, st, w, F)
    BY <2>2, <2>d DEF Moving, Writes
  <2>3. CASE Setting(c, V, st, w, F)
    BY <2>3, <2>d DEF Setting, Writes
  <2>4. CASE SettingIf(c, V, st, w, F)
    BY <2>4 DEF SettingIf, SetIfs, Unloading
  <2>5. CASE \/ Receiving(c, V, st, w, F) \/ Completing(c, V, st, w, F)
             \/ Trying(c, V, st, w, F)
    BY <2>5, <2>c, <2>d DEF Receiving, Completing, Trying, Writes
  <2>6. CASE Rolling(c, V, st, w, F)
    <3>1. PICK x \in MembersOf(V, WipOf[c.on]) : p = Progress(x, TypeOf[WipOf[c.on]])
      BY <2>6, <2>d DEF Rolling
    <3>2. x = s
      BY <3>1, <2>c, <2>d
    <3> QED BY <2>6, <3>1, <3>2 DEF Rolling
  <2>7. CASE Inserting(c, V, st, w, F)
    BY <2>7 DEF Inserting, Unloading
  <2> QED BY <1>2, <2>1, <2>2, <2>3, <2>4, <2>5, <2>6, <2>7 DEF Kind
<1>6. CASE st = try
  <2>1. HasLock(G, row)
    <3>1. NeedsLock(c, L[1]) = {row}
      BY <1>6 DEF NeedsLock, Check
    <3> QED BY <1>1, <3>1
  <2>2. Trying(c, V, st, w, F) /\ st.do = "trycomplete" /\ st.on = s
    <3>1. st.do = "trycomplete" /\ st.on = s
      BY <1>4, <1>6
    <3> HIDE DEF V, V2, st, K, row, try
    <3>2. CASE Quiet(c, V, st, w, F)
      BY <3>1, <3>2 DEF Quiet
    <3>3. CASE \/ Moving(c, V, st, w, F) \/ Setting(c, V, st, w, F)
               \/ SettingIf(c, V, st, w, F) \/ Inserting(c, V, st, w, F)
      BY <3>1, <3>3 DEF Moving, Setting, SettingIf, Inserting
    <3>4. CASE \/ Receiving(c, V, st, w, F) \/ Completing(c, V, st, w, F)
               \/ Rolling(c, V, st, w, F)
      BY <3>1, <3>4, CheckFields DEF Receiving, Completing, Rolling
    <3> QED BY <1>2, <3>1, <3>2, <3>3, <3>4 DEF Kind
  <2>3. \/ Writes(w, row, "completed")
        \/ ~(V[row] = "processing" /\ Measured(V, s)) /\ DOMAIN w = {}
    <3>1. PICK x \in Samples :
            /\ st = Check("trycomplete", x)
            /\ \/ Writes(w, Sample(x), "completed")
               \/ /\ ~(V[Sample(x)] = "processing" /\ Types # {} /\ Measured(V, x))
                  /\ DOMAIN w = {}
      <4> HIDE DEF V
      <4> QED BY <2>2 DEF Trying
    <3>2. x = s
      BY <2>2, <3>1, CheckFields
    <3> QED BY <3>1, <3>2
  <2>4. CASE Writes(w, row, "completed")
    BY <1>1, <2>1, <2>4 DEF Writes
  <2>5. CASE ~(V[row] = "processing" /\ Measured(V, s)) /\ DOMAIN w = {}
    <3>1. V2[row] = V[row] /\ \A u \in Types : V2[Progress(s, u)] = V[Progress(s, u)]
      BY <1>1, <1>4, <2>5
    <3> HIDE DEF V, V2
    <3> QED BY <2>1, <2>5, <3>1 DEF Measured
  <2> QED BY <2>3, <2>4, <2>5
<1>7. CASE st # try /\ \E u \in Types : Progress(s, u) \in DOMAIN w
  BY <1>1, <1>5, <1>7
<1>8. CASE st # try /\ \A u \in Types : Progress(s, u) \notin DOMAIN w
  <2>1. Progress(s, t) \in DOMAIN M
    BY <1>2, <1>8
  <2>2. CASE Pending(L, try)
    BY <1>1, <1>8, <2>2
  <2>3. CASE HasLock(H, row) /\ ~(V[row] = "processing" /\ Measured(V, s))
    <3>1. V2[row] = V[row] \/ V2[row] # "processing"
      <4>1. CASE row \in DOMAIN w
        <5>1. row \in DOMAIN N /\ N[row] \in WritesOf(c, row) /\ V2[row] = N[row]
          BY <1>1, <1>2, <4>1
        <5>2. N[row] # "processing"
          BY <1>1, <1>4, <5>1, WhoWrites DEF Unloading
        <5> QED BY <5>1, <5>2
      <4> QED BY <1>1, <1>4, <4>1
    <3>2. \A u \in Types : V2[Progress(s, u)] = V[Progress(s, u)]
      BY <1>1, <1>4, <1>8
    <3> HIDE DEF V, V2
    <3> QED BY <1>1, <2>3, <3>1, <3>2 DEF Measured
  <2> QED BY <1>3, <2>1, <2>2, <2>3
<1> QED
  BY <1>6, <1>7, <1>8

\* Which statement a step executes when it writes a wafer or a request, and
\* what the checks do.
LEMMA RowNames ==
  \A x, y : /\ Progress(x, y)[1] = "progress" /\ Progress(x, y)[2] = x
            /\ Sample(x)[1] = "sample" /\ Sample(x)[2] = x
            /\ Request(x)[1] = "request" /\ Request(x)[2] = x
            /\ Dispatch(x)[1] = "dispatch" /\ Dispatch(x)[2] = x
            /\ Wip(x)[1] = "wip" /\ Wip(x)[2] = x
            /\ Member(x, y)[1] = "member" /\ Member(x, y)[2] = x
BY DEF Progress, Sample, Request, Dispatch, Wip, Member

LEMMA SettlingWrites ==
  ASSUME NEW c \in Calls, NEW V, NEW st, NEW w, NEW F, Kind(c, V, st, w, F),
         c.op \in Settling, NEW s, Sample(s) \in DOMAIN w
  PROVE  st = Move(Sample(c.on), c.op) /\ F = <<>>
<1> DEFINE row == Sample(s)
<1>1. row \in DOMAIN w /\ row[1] = "sample" /\ row[2] = s
  BY RowNames
<1> HIDE DEF row
<1>2. CASE Quiet(c, V, st, w, F)
  BY <1>1, <1>2 DEF Quiet
<1>3. CASE Moving(c, V, st, w, F)
  <2>1. st \in Moves(c) /\ st.row[1] = "sample" /\ F = <<>>
    BY <1>1, <1>3 DEF Moving, Writes
  <2> QED BY <2>1, MovesOfSamples
<1>4. CASE Setting(c, V, st, w, F)
  BY <1>4 DEF Setting, Sets, Settling
<1>5. CASE SettingIf(c, V, st, w, F)
  <2>1. st \in SetIfs(c) /\ st.row = row
    BY <1>1, <1>5 DEF SettingIf, Writes
  <2>2. \E x, t : st = SetIf(Progress(x, t), "none", "pending")
    BY <2>1 DEF SetIfs, Settling
  <2> QED BY <1>1, <2>1, <2>2, CheckFields, RowNames
<1>6. CASE Receiving(c, V, st, w, F) \/ Completing(c, V, st, w, F)
  <2>1. \A x \in DOMAIN w : \E r : x = Request(r)
    <3>1. CASE Receiving(c, V, st, w, F)
      BY <3>1 DEF Receiving, Writes
    <3>2. CASE Completing(c, V, st, w, F)
      BY <3>2 DEF Completing, Writes
    <3> QED BY <1>6, <3>1, <3>2
  <2> QED BY <1>1, <2>1, RowNames
<1>7. CASE Trying(c, V, st, w, F)
  BY <1>7 DEF Trying, Cascading, Unloading, Recording, Settling
<1>8. CASE Rolling(c, V, st, w, F)
  BY <1>8 DEF Rolling, Unloading, Settling
<1>9. CASE Inserting(c, V, st, w, F)
  BY <1>9 DEF Inserting, Settling
<1> QED
  BY <1>2, <1>3, <1>4, <1>5, <1>6, <1>7, <1>8, <1>9, Zenon DEF Kind

LEMMA CascadingWrites ==
  ASSUME NEW c \in Calls, NEW V, NEW st, NEW w, NEW F, Kind(c, V, st, w, F),
         c.op \in Cascading, NEW s, Sample(s) \in DOMAIN w
  PROVE  Pending(F, Check("completed", Owner[s]))
<1> DEFINE row == Sample(s)
<1>1. row \in DOMAIN w /\ row[1] = "sample" /\ row[2] = s
  BY RowNames
<1>a. c.op \notin Settling /\ c.op # "create_dispatch"
  BY DEF Cascading, Unloading, Recording, Settling
<1> HIDE DEF row
<1>2. CASE Quiet(c, V, st, w, F)
  BY <1>1, <1>2 DEF Quiet
<1>3. CASE Moving(c, V, st, w, F)
  <2>1. st \in Moves(c) /\ st.row[1] = "sample"
    BY <1>1, <1>3 DEF Moving, Writes
  <2> QED BY <1>a, <2>1, MovesOfSamples
<1>4. CASE Setting(c, V, st, w, F)
  BY <1>4 DEF Setting, Sets, Cascading, Unloading, Recording
<1>5. CASE SettingIf(c, V, st, w, F)
  BY <1>5 DEF SettingIf, SetIfs, Cascading, Unloading, Recording
<1>6. CASE Receiving(c, V, st, w, F) \/ Completing(c, V, st, w, F)
  <2>1. \A x \in DOMAIN w : \E r : x = Request(r)
    <3>1. CASE Receiving(c, V, st, w, F)
      BY <3>1 DEF Receiving, Writes
    <3>2. CASE Completing(c, V, st, w, F)
      BY <3>2 DEF Completing, Writes
    <3> QED BY <1>6, <3>1, <3>2
  <2> QED BY <1>1, <2>1, RowNames
<1>7. CASE Trying(c, V, st, w, F)
  <2>1. PICK x \in Samples : /\ row \in DOMAIN w =>
                                /\ row = Sample(x)
                                /\ Pending(F, Check("completed", Owner[x]))
    BY <1>7 DEF Trying, Writes
  <2>2. x = s
    BY <1>1, <2>1, RowNames
  <2> QED BY <1>1, <2>1, <2>2
<1>8. CASE Rolling(c, V, st, w, F)
  BY <1>1, <1>8, RowNames DEF Rolling
<1>9. CASE Inserting(c, V, st, w, F)
  BY <1>a, <1>9 DEF Inserting
<1> QED
  BY <1>2, <1>3, <1>4, <1>5, <1>6, <1>7, <1>8, <1>9, Zenon DEF Kind

LEMMA AtReceived ==
  ASSUME NEW c, NEW V, NEW st, NEW w, NEW F, Kind(c, V, st, w, F),
         NEW r, st = Check("received", r)
  PROVE  /\ c.op \in Settling /\ r = Owner[c.on]
         /\ \/ Writes(w, Request(r), "in_progress")
            \/ ~(V[Request(r)] = "sample_shipped" /\ Accounted(V, r)) /\ DOMAIN w = {}
<1>1. st.do = "received" /\ st.on = r
  BY CheckFields
<1>2. CASE Quiet(c, V, st, w, F)
  BY <1>1, <1>2 DEF Quiet
<1>3. CASE \/ Moving(c, V, st, w, F) \/ Setting(c, V, st, w, F)
           \/ SettingIf(c, V, st, w, F) \/ Inserting(c, V, st, w, F)
  BY <1>1, <1>3 DEF Moving, Setting, SettingIf, Inserting
<1>4. CASE \/ Completing(c, V, st, w, F) \/ Trying(c, V, st, w, F)
           \/ Rolling(c, V, st, w, F)
  BY <1>1, <1>4, CheckFields DEF Completing, Trying, Rolling
<1>5. CASE Receiving(c, V, st, w, F)
  <2>1. r = Owner[c.on]
    BY <1>1, <1>5, CheckFields DEF Receiving
  <2> QED BY <1>5, <2>1 DEF Receiving
<1> QED
  BY <1>2, <1>3, <1>4, <1>5, Zenon DEF Kind

LEMMA AtCompleted ==
  ASSUME NEW c, NEW V, NEW st, NEW w, NEW F, Kind(c, V, st, w, F),
         NEW r, st = Check("completed", r)
  PROVE  \/ Writes(w, Request(r), "completed")
         \/ ~(V[Request(r)] = "in_progress" /\ Settled(V, r)) /\ DOMAIN w = {}
<1>1. st.do = "completed" /\ st.on = r
  BY CheckFields
<1>2. CASE Quiet(c, V, st, w, F)
  BY <1>1, <1>2 DEF Quiet
<1>3. CASE \/ Moving(c, V, st, w, F) \/ Setting(c, V, st, w, F)
           \/ SettingIf(c, V, st, w, F) \/ Inserting(c, V, st, w, F)
  BY <1>1, <1>3 DEF Moving, Setting, SettingIf, Inserting
<1>4. CASE \/ Receiving(c, V, st, w, F) \/ Trying(c, V, st, w, F)
           \/ Rolling(c, V, st, w, F)
  BY <1>1, <1>4, CheckFields DEF Receiving, Trying, Rolling
<1>5. CASE Completing(c, V, st, w, F)
  <2>1. PICK x \in Requests :
          /\ st = Check("completed", x)
          /\ \/ Writes(w, Request(x), "completed")
             \/ /\ ~(V[Request(x)] = "in_progress" /\ Settled(V, x))
                /\ DOMAIN w = {}
    BY <1>5 DEF Completing
  <2>2. x = r
    BY <1>1, <2>1, CheckFields
  <2> QED BY <2>1, <2>2
<1> QED
  BY <1>2, <1>3, <1>4, <1>5, Zenon DEF Kind

LEMMA StartsWork ==
  ASSUME NEW c, NEW V, NEW st, NEW w, NEW F, Kind(c, V, st, w, F),
         c.op \in {"void", "return"}, NEW r, Request(r) \in DOMAIN w,
         w[Request(r)] = "in_progress"
  PROVE  st = Check("received", r) /\ r = Owner[c.on]
<1> DEFINE row == Request(r)
<1>1. row \in DOMAIN w /\ row[1] = "request" /\ row[2] = r /\ w[row] = "in_progress"
  BY RowNames
<1> HIDE DEF row
<1>2. CASE Quiet(c, V, st, w, F)
  BY <1>1, <1>2 DEF Quiet
<1>3. CASE Moving(c, V, st, w, F)
  <2>1. st.row = row /\ st = Move(Sample(c.on), c.op)
    BY <1>1, <1>3 DEF Moving, Moves, Writes
  <2> QED BY <1>1, <2>1, CheckFields, RowNames
<1>4. CASE Setting(c, V, st, w, F)
  BY <1>4 DEF Setting, Sets
<1>5. CASE SettingIf(c, V, st, w, F)
  <2>1. st \in SetIfs(c) /\ st.row = row
    BY <1>1, <1>5 DEF SettingIf, Writes
  <2>2. \E x, t : st = SetIf(Progress(x, t), "none", "pending")
    BY <2>1 DEF SetIfs
  <2> QED BY <1>1, <2>1, <2>2, CheckFields, RowNames
<1>6. CASE Receiving(c, V, st, w, F)
  <2>1. row = Request(Owner[c.on]) /\ st = Check("received", Owner[c.on])
    BY <1>1, <1>6 DEF Receiving, Writes
  <2>2. r = Owner[c.on]
    BY <1>1, <2>1, RowNames
  <2> QED BY <2>1, <2>2
<1>7. CASE Completing(c, V, st, w, F)
  BY <1>1, <1>7 DEF Completing, Writes
<1>8. CASE Trying(c, V, st, w, F) \/ Rolling(c, V, st, w, F)
  BY <1>8 DEF Trying, Rolling, Cascading, Unloading, Recording
<1>9. CASE Inserting(c, V, st, w, F)
  BY <1>9 DEF Inserting
<1> QED
  BY <1>2, <1>3, <1>4, <1>5, <1>6, <1>7, <1>8, <1>9, Zenon DEF Kind

\* Only calls that settle wafers or complete them write these statuses.
LEMMA WhoWaits ==
  ASSUME NEW c \in Calls, NEW M, NEW s \in Samples, Sample(s) \in DOMAIN M,
         M[Sample(s)] \in WritesOf(c, Sample(s))
  PROVE  /\ M[Sample(s)] \in {"received", "voided", "returned"} => c.op \in Settling
         /\ M[Sample(s)] \in {"voided", "returned"} => c.op \in {"void", "return"}
         /\ M[Sample(s)] = "completed" => c.op \in Cascading
<1>1. Sample(s) \in Rows /\ Sample(s)[1] = "sample"
  BY RowFacts
<1> QED
  BY <1>1, WhoWrites DEF Settling

LEMMA KeepsReceived ==
  ASSUME NEW c, NEW v, NEW L, NEW M, NEW H, NEW w, NEW F, NEW N, NEW G,
         Goes(c, v, L, M, H, w, F, N, G), InSequence(c, L, M),
         Written(c, v, N), Waits(v, L, M, H),
         NEW s \in Samples, Sample(s) \in DOMAIN N,
         N[Sample(s)] \in {"received", "voided", "returned"}
  PROVE  Looked(F \o Tail(L), Over(N, v), G, Request(Owner[s]),
                Check("received", Owner[s]),
                /\ Over(N, v)[Request(Owner[s])] = "sample_shipped"
                /\ Accounted(Over(N, v), Owner[s]))
<1> DEFINE V == Over(M, v)
           V2 == Over(N, v)
           st == L[1]
           K == F \o Tail(L)
           r == Owner[s]
           row == Request(r)
           look == Check("received", r)
<1>1. /\ c \in Calls /\ L \in Seq(StatementsOf(c)) /\ L # <<>>
      /\ F \in Seq(StatementsOf(c))
      /\ \A y : Pending(L, y) /\ L[1] # y => Pending(K, y)
      /\ \A y : HasLock(H, y) => HasLock(G, y)
      /\ \A y \in NeedsLock(c, L[1]) : HasLock(H, y)
      /\ \A y \in DOMAIN N : N[y] \in WritesOf(c, y)
      /\ \A y \in DOMAIN N : V2[y] = N[y]
      /\ \A y \in DOMAIN w : V2[y] = w[y]
      /\ \A y \in Rows \ DOMAIN w : V2[y] = V[y]
  BY GoesFacts
<1>2. /\ DOMAIN N = DOMAIN w \cup DOMAIN M /\ Kind(c, V, st, w, F)
      /\ \A y \in DOMAIN M \ DOMAIN w : N[y] = M[y]
  BY DEF Goes
<1>3. c.op \in Settling /\ s = c.on
  BY <1>1, WhoWaits DEF Written
<1>4. /\ row \in Rows /\ row[1] = "request" /\ look.do = "received" /\ look.on = r
      /\ \A x \in Samples : Sample(x) \in Rows
  BY TablesAssumption, RowFacts, CheckFields
<1>5. NeedsLock(c, look) = {row}
  BY DEF NeedsLock, Check
<1> SUFFICES \/ Pending(K, look)
             \/ HasLock(G, row) /\ ~(V2[row] = "sample_shipped" /\ Accounted(V2, r))
  BY DEF Looked
<1>6. CASE st = look
  <2>1. HasLock(G, row)
    BY <1>1, <1>5, <1>6
  <2>2. \/ Writes(w, row, "in_progress")
        \/ ~(V[row] = "sample_shipped" /\ Accounted(V, r)) /\ DOMAIN w = {}
    <3> HIDE DEF V, st
    <3> QED BY <1>2, <1>6, AtReceived
  <2>3. CASE Writes(w, row, "in_progress")
    BY <1>1, <2>1, <2>3 DEF Writes
  <2>4. CASE ~(V[row] = "sample_shipped" /\ Accounted(V, r)) /\ DOMAIN w = {}
    <3>1. \A y \in Rows : V2[y] = V[y]
      BY <1>1, <2>4
    <3> HIDE DEF V, V2
    <3> QED BY <1>4, <2>1, <2>4, <3>1 DEF Accounted, SamplesOf
  <2> QED BY <2>2, <2>3, <2>4
<1>7. CASE st # look /\ Sample(s) \in DOMAIN w
  <2>1. st = Move(Sample(c.on), c.op) /\ F = <<>>
    <3> HIDE DEF V, st
    <3> QED BY <1>1, <1>2, <1>3, <1>7, SettlingWrites
  <2>2. Follows(L, Move(Sample(c.on), c.op), look)
    BY <1>3 DEF InSequence
  <2>3. ~Pending(F, Move(Sample(c.on), c.op))
    BY <2>1 DEF Pending
  <2> HIDE DEF look
  <2> QED BY <1>1, <2>1, <2>2, <2>3, FollowsSplice
<1>8. CASE st # look /\ Sample(s) \notin DOMAIN w
  <2>1. /\ Sample(s) \in DOMAIN M
        /\ M[Sample(s)] \in {"received", "voided", "returned"}
    BY <1>2, <1>8
  <2>2. \/ Pending(L, look)
        \/ HasLock(H, row) /\ ~(V[row] = "sample_shipped" /\ Accounted(V, r))
    BY <2>1 DEF Waits, Looked
  <2>3. CASE Pending(L, look)
    BY <1>1, <1>8, <2>3
  <2>4. CASE HasLock(H, row) /\ ~(V[row] = "sample_shipped" /\ Accounted(V, r))
    <3>1. \A x \in Samples : V2[Sample(x)] = V[Sample(x)]
      <4> SUFFICES ASSUME NEW x \in Samples, Sample(x) \in DOMAIN w PROVE FALSE
        BY <1>1, <1>4
      <4>1. x = c.on
        BY <1>2, <1>3 DEF Written
      <4> QED BY <1>3, <1>8, <4>1
    <3>2. V2[row] = V[row] \/ V2[row] # "sample_shipped"
      <4>1. CASE row \in DOMAIN w
        <5>1. row \in DOMAIN N /\ V2[row] = N[row] /\ N[row] \in WritesOf(c, row)
          BY <1>1, <1>2, <4>1
        <5>2. N[row] # "sample_shipped"
          BY <1>1, <1>3, <1>4, <5>1, WhoWrites DEF Settling
        <5> QED BY <5>1, <5>2
      <4> QED BY <1>1, <1>4, <4>1
    <3> HIDE DEF V, V2
    <3> QED BY <1>1, <2>4, <3>1, <3>2 DEF Accounted, SamplesOf
  <2> QED BY <2>2, <2>3, <2>4
<1> QED
  BY <1>6, <1>7, <1>8

LEMMA KeepsCompleted ==
  ASSUME NEW c, NEW v, NEW L, NEW M, NEW H, NEW w, NEW F, NEW N, NEW G,
         Goes(c, v, L, M, H, w, F, N, G), InSequence(c, L, M),
         Written(c, v, N), Waits(v, L, M, H),
         NEW s \in Samples, Sample(s) \in DOMAIN N,
         N[Sample(s)] \in {"voided", "returned", "completed"}
  PROVE  Looked(F \o Tail(L), Over(N, v), G, Request(Owner[s]),
                Check("completed", Owner[s]),
                /\ Over(N, v)[Request(Owner[s])] = "in_progress"
                /\ Settled(Over(N, v), Owner[s]))
<1> DEFINE V == Over(M, v)
           V2 == Over(N, v)
           st == L[1]
           K == F \o Tail(L)
           r == Owner[s]
           row == Request(r)
           look == Check("completed", r)
<1>1. /\ c \in Calls /\ L \in Seq(StatementsOf(c)) /\ L # <<>>
      /\ F \in Seq(StatementsOf(c))
      /\ \A y : Pending(L, y) /\ L[1] # y => Pending(K, y)
      /\ \A y : Pending(F, y) => Pending(K, y)
      /\ \A y : HasLock(H, y) => HasLock(G, y)
      /\ \A y \in NeedsLock(c, L[1]) : HasLock(H, y)
      /\ \A y \in DOMAIN N : N[y] \in WritesOf(c, y)
      /\ \A y \in DOMAIN N : V2[y] = N[y]
      /\ \A y \in DOMAIN w : V2[y] = w[y]
      /\ \A y \in Rows \ DOMAIN w : V2[y] = V[y]
  BY GoesFacts
<1>2. /\ DOMAIN N = DOMAIN w \cup DOMAIN M /\ Kind(c, V, st, w, F)
      /\ \A y \in DOMAIN M \ DOMAIN w : N[y] = M[y]
      /\ \A y \in DOMAIN w : N[y] = w[y]
  BY DEF Goes
<1>3. \/ c.op \in {"void", "return"} /\ s = c.on /\ c.op \in Settling
      \/ c.op \in Cascading
  <2>1. c.op \in {"void", "return"} \/ c.op \in Cascading
    BY <1>1, WhoWaits
  <2>2. c.op \in {"void", "return"} => c.op \in Settling
    BY DEF Settling
  <2>3. c.op \in Settling => s = c.on
    BY DEF Written
  <2> QED BY <2>1, <2>2, <2>3
<1>4. /\ row \in Rows /\ row[1] = "request" /\ look.do = "completed" /\ look.on = r
      /\ \A x \in Samples : Sample(x) \in Rows
  BY TablesAssumption, RowFacts, CheckFields
<1>5. NeedsLock(c, look) = {row}
  BY DEF NeedsLock, Check
<1> SUFFICES \/ Pending(K, look)
             \/ HasLock(G, row) /\ ~(V2[row] = "in_progress" /\ Settled(V2, r))
  BY DEF Looked
<1>6. CASE st = look
  <2>1. HasLock(G, row)
    BY <1>1, <1>5, <1>6
  <2>2. \/ Writes(w, row, "completed")
        \/ ~(V[row] = "in_progress" /\ Settled(V, r)) /\ DOMAIN w = {}
    <3> HIDE DEF V, st
    <3> QED BY <1>2, <1>6, AtCompleted
  <2>3. CASE Writes(w, row, "completed")
    BY <1>1, <2>1, <2>3 DEF Writes
  <2>4. CASE ~(V[row] = "in_progress" /\ Settled(V, r)) /\ DOMAIN w = {}
    <3>1. \A y \in Rows : V2[y] = V[y]
      BY <1>1, <2>4
    <3> HIDE DEF V, V2
    <3> QED BY <1>4, <2>1, <2>4, <3>1 DEF Settled, SamplesOf
  <2> QED BY <2>2, <2>3, <2>4
<1> DEFINE first == Check("received", r)
<1>a. c.op \in {"void", "return"} /\ s = c.on =>
        \A a : L[1] = a /\ Follows(L, a, first) => Pending(L, look)
  <2> SUFFICES ASSUME c.op \in {"void", "return"}, s = c.on,
                      Follows(L, L[1], first)
               PROVE  Pending(L, look)
    OBVIOUS
  <2>1. Follows(L, first, look)
    BY DEF InSequence
  <2>2. 1 \in 1..Len(L) /\ Len(L) \in Nat
    BY <1>1
  <2> HIDE DEF first, look
  <2>3. PICK j \in 2..Len(L) : L[j] = first
    BY <2>2 DEF Follows
  <2>4. PICK k \in (j + 1)..Len(L) : L[k] = look
    BY <2>1, <2>2, <2>3 DEF Follows
  <2> QED BY <2>2, <2>3, <2>4 DEF Pending
<1>b. c.op \in {"void", "return"} /\ s = c.on /\ L[1] = first => Pending(L, look)
  <2> SUFFICES ASSUME c.op \in {"void", "return"}, s = c.on, L[1] = first
               PROVE  Pending(L, look)
    OBVIOUS
  <2>1. Follows(L, first, look)
    BY DEF InSequence
  <2>2. 1 \in 1..Len(L) /\ Len(L) \in Nat
    BY <1>1
  <2> HIDE DEF first, look
  <2> QED BY <2>1, <2>2 DEF Follows, Pending
<1>7. CASE st # look /\ Sample(s) \in DOMAIN w
  <2>1. CASE c.op \in {"void", "return"} /\ s = c.on /\ c.op \in Settling
    <3>1. st = Move(Sample(c.on), c.op)
      <4> HIDE DEF V, st
      <4> QED BY <1>1, <1>2, <1>7, <2>1, SettlingWrites
    <3>2. Follows(L, Move(Sample(c.on), c.op), first)
      BY <2>1 DEF InSequence
    <3>3. Pending(L, look)
      BY <1>a, <2>1, <3>1, <3>2
    <3> QED BY <1>1, <1>7, <3>3
  <2>2. CASE c.op \in Cascading
    <3>1. Pending(F, look)
      <4> HIDE DEF V, st
      <4> QED BY <1>1, <1>2, <1>7, <2>2, CascadingWrites
    <3> QED BY <1>1, <3>1
  <2> QED BY <1>3, <2>1, <2>2
<1>8. CASE st # look /\ Sample(s) \notin DOMAIN w
  <2>1. /\ Sample(s) \in DOMAIN M
        /\ M[Sample(s)] \in {"voided", "returned", "completed"}
    BY <1>2, <1>8
  <2>2. \/ Pending(L, look)
        \/ HasLock(H, row) /\ ~(V[row] = "in_progress" /\ Settled(V, r))
    BY <2>1 DEF Waits, Looked
  <2>3. CASE Pending(L, look)
    BY <1>1, <1>8, <2>3
  <2>4. CASE /\ HasLock(H, row) /\ ~(V[row] = "in_progress" /\ Settled(V, r))
             /\ ~Pending(K, look)
    <3>1. \A x \in SamplesOf(r) : V2[Sample(x)] = V[Sample(x)]
      <4> SUFFICES ASSUME NEW x \in Samples, Owner[x] = r, Sample(x) \in DOMAIN w
                   PROVE  FALSE
        BY <1>1, <1>4 DEF SamplesOf
      <4>1. CASE c.op \in {"void", "return"} /\ s = c.on /\ c.op \in Settling
        <5>1. x = c.on
          BY <1>2, <4>1 DEF Written
        <5> QED BY <1>8, <4>1, <5>1
      <4>2. CASE c.op \in Cascading
        <5>1. Pending(F, Check("completed", Owner[x]))
          <6> HIDE DEF V, st
          <6> QED BY <1>1, <1>2, <4>2, CascadingWrites
        <5> QED BY <1>1, <2>4, <5>1
      <4> QED BY <1>3, <4>1, <4>2
    <3>2. V2[row] = V[row] \/ V2[row] # "in_progress"
      <4>1. CASE row \in DOMAIN w
        <5>1. row \in DOMAIN N /\ V2[row] = N[row] /\ N[row] \in WritesOf(c, row)
              /\ N[row] = w[row]
          BY <1>1, <1>2, <4>1
        <5> SUFFICES ASSUME N[row] = "in_progress" PROVE FALSE
          BY <5>1
        <5>2. c.op \in {"void", "return"} /\ s = c.on
          <6>1. c.op \in Settling
            BY <1>1, <1>4, <5>1, WhoWrites
          <6> QED BY <1>3, <6>1 DEF Cascading, Unloading, Recording, Settling
        <5>3. L[1] = first
          <6>1. st = Check("received", r)
            <7> HIDE DEF V, st
            <7> QED BY <1>2, <4>1, <5>1, <5>2, StartsWork
          <6> QED BY <6>1
        <5>4. Pending(L, look)
          BY <1>b, <5>2, <5>3
        <5> QED BY <1>1, <1>8, <2>4, <5>4
      <4> QED BY <1>1, <1>4, <4>1
    <3> HIDE DEF V, V2
    <3> QED BY <1>1, <2>4, <3>1, <3>2 DEF Settled
  <2> QED BY <2>2, <2>3, <2>4
<1> QED
  BY <1>6, <1>7, <1>8

LEMMA KeepsWaits ==
  ASSUME NEW c, NEW v, NEW L, NEW M, NEW H, NEW w, NEW F, NEW N, NEW G,
         Goes(c, v, L, M, H, w, F, N, G), InSequence(c, L, M),
         Written(c, v, N), Waits(v, L, M, H)
  PROVE  Waits(v, F \o Tail(L), N, G)
BY KeepsReceived, KeepsCompleted DEF Waits

LEMMA KeepsCareful ==
  ASSUME NEW c, NEW v, NEW L, NEW M, NEW H, NEW w, NEW F, NEW N, NEW G,
         Goes(c, v, L, M, H, w, F, N, G), Careful(c, v, L, M, H), RunsHaveWips(v)
  PROVE  Careful(c, v, F \o Tail(L), N, G)
<1>1. /\ InSequence(c, L, M) /\ Written(c, v, M) /\ Joins(c, v, L, M)
      /\ Waits(v, L, M, H) /\ Verdicts(c, v, L, M, H) /\ Measures(c, v, L, M, H)
  BY DEF Careful
<1>2. Written(c, v, N)
  BY <1>1, KeepsWritten
<1>3. InSequence(c, F \o Tail(L), N)
  BY <1>1, KeepsSequence
<1>4. Joins(c, v, F \o Tail(L), N)
  BY <1>1, KeepsJoins
<1>5. Waits(v, F \o Tail(L), N, G)
  BY <1>1, <1>2, KeepsWaits
<1>6. Verdicts(c, v, F \o Tail(L), N, G)
  BY <1>1, KeepsVerdicts
<1>7. Measures(c, v, F \o Tail(L), N, G)
  BY <1>1, KeepsMeasures
<1> QED
  BY <1>2, <1>3, <1>4, <1>5, <1>6, <1>7 DEF Careful

LEMMA EndedCareful ==
  ASSUME NEW c \in Calls, NEW v
  PROVE  Careful(c, v, <<>>, <<>>, {})
<1>1. Len(<<>>) = 0 /\ DOMAIN <<>> = {}
  OBVIOUS
<1>2. \A i \in 1..Len(<<>>) : FALSE
  BY <1>1
<1>3. \A x, y : ~Pending(<<>>, x) /\ Follows(<<>>, x, y)
  BY <1>2 DEF Pending, Follows
<1>4. InSequence(c, <<>>, <<>>)
  BY <1>2, <1>3 DEF InSequence
<1>5. Written(c, v, <<>>) /\ Waits(v, <<>>, <<>>, {})
  BY <1>1 DEF Written, Waits
<1>6. Joins(c, v, <<>>, <<>>)
  BY <1>1, <1>3 DEF Joins
<1>7. Verdicts(c, v, <<>>, <<>>, {}) /\ Measures(c, v, <<>>, <<>>, {})
  BY <1>1 DEF Verdicts, Measures
<1> QED
  BY <1>4, <1>5, <1>6, <1>7 DEF Careful

-----------------------------------------------------------------------------
\* A commit: the call o has nothing more to do, has written W and holds the
\* locks G.

Commits(o, v, K, W, G) ==
    /\ DOMAIN v = Rows
    /\ K # <<>> /\ K[1].do = "commit"
    /\ CallInv(o, v, K, W, G)
    /\ Careful(o, v, K, W, G)

LEMMA CommitFacts ==
  ASSUME NEW o, NEW v, NEW K, NEW W, NEW G, Commits(o, v, K, W, G)
  PROVE  LET u == Over(W, v) IN
         /\ o \in Calls /\ DOMAIN W \subseteq Rows
         /\ \A row \in DOMAIN W : W[row] \in WritesOf(o, row)
         /\ \A row \in DOMAIN W : u[row] = W[row]
         /\ \A row \in Rows \ DOMAIN W : u[row] = v[row]
         /\ \A x : Pending(K, x) => x.do = "commit"
<1>1. /\ o \in Calls /\ DOMAIN W \subseteq Rows /\ K \in Seq(StatementsOf(o))
      /\ \A row \in DOMAIN W : W[row] \in WritesOf(o, row)
  BY DEF Commits, CallInv, CallTypeOK
<1>2. /\ \A row \in DOMAIN W : Over(W, v)[row] = W[row]
      /\ \A row \in Rows \ DOMAIN W : Over(W, v)[row] = v[row]
  BY <1>1, ViewRow DEF Commits
<1>3. Len(K) = 1
  <2>1. 1 \in 1..Len(K) /\ K[1].do = "commit"
    BY <1>1 DEF Commits
  <2> QED BY <2>1 DEF Commits, Careful, InSequence
<1>4. \A x : Pending(K, x) => x.do = "commit"
  BY <1>3 DEF Pending, Commits
<1> QED
  BY <1>1, <1>2, <1>4

\* Having nothing more to do, the call holds the locks that make its answers
\* last.
LEMMA CommitLocks ==
  ASSUME NEW o, NEW v, NEW K, NEW W, NEW G, Commits(o, v, K, W, G)
  PROVE  LET u == Over(W, v) IN
         /\ \A s \in Samples : Sample(s) \in DOMAIN W =>
            /\ W[Sample(s)] \in {"received", "voided", "returned"} =>
                /\ HasLock(G, Request(Owner[s]))
                /\ ~(/\ u[Request(Owner[s])] = "sample_shipped"
                     /\ Accounted(u, Owner[s]))
            /\ W[Sample(s)] \in {"voided", "returned", "completed"} =>
                /\ HasLock(G, Request(Owner[s]))
                /\ ~(/\ u[Request(Owner[s])] = "in_progress"
                     /\ Settled(u, Owner[s]))
            /\ W[Sample(s)] = "processing" => Later(v, Owner[s])
         /\ (/\ o.op \in Unloading \cup Recording
             /\ Dispatch(o.on) \in DOMAIN W
             /\ v[Dispatch(o.on)] \in {"dispatched", "running"}) =>
             \A s \in MembersOf(v, WipOf[o.on]) :
                Progress(s, TypeOf[WipOf[o.on]]) \in DOMAIN W
         /\ o.op \in Unloading => \A s \in Samples, t \in Types :
             Progress(s, t) \in DOMAIN W =>
                /\ HasLock(G, Sample(s))
                /\ ~(u[Sample(s)] = "processing" /\ Measured(u, s))
<1> DEFINE u == Over(W, v)
<1>1. /\ o \in Calls /\ \A row \in DOMAIN W : W[row] \in WritesOf(o, row)
      /\ \A x : Pending(K, x) => x.do = "commit"
  BY CommitFacts
<1>2. \A what, on : what # "commit" => ~Pending(K, Check(what, on))
  BY <1>1, CheckFields
<1>3. /\ Joins(o, v, K, W) /\ Waits(v, K, W, G)
      /\ Verdicts(o, v, K, W, G) /\ Measures(o, v, K, W, G)
  BY DEF Commits, Careful
<1>4. ASSUME NEW s \in Samples, Sample(s) \in DOMAIN W
      PROVE  /\ W[Sample(s)] \in {"received", "voided", "returned"} =>
                /\ HasLock(G, Request(Owner[s]))
                /\ ~(/\ u[Request(Owner[s])] = "sample_shipped"
                     /\ Accounted(u, Owner[s]))
             /\ W[Sample(s)] \in {"voided", "returned", "completed"} =>
                /\ HasLock(G, Request(Owner[s]))
                /\ ~(/\ u[Request(Owner[s])] = "in_progress"
                     /\ Settled(u, Owner[s]))
  <2> HIDE DEF u
  <2> QED BY <1>2, <1>3, <1>4 DEF Waits, Looked, u
<1>5. ASSUME NEW s \in Samples, Sample(s) \in DOMAIN W, W[Sample(s)] = "processing"
      PROVE  Later(v, Owner[s])
  <2>1. o.op \in {"create_wip", "add_samples"}
    BY <1>1, <1>5, RowFacts, WhoWrites
  <2> QED BY <1>3, <1>5, <2>1 DEF Joins
<1>6. (/\ o.op \in Unloading \cup Recording
       /\ Dispatch(o.on) \in DOMAIN W
       /\ v[Dispatch(o.on)] \in {"dispatched", "running"}) =>
             \A s \in MembersOf(v, WipOf[o.on]) :
                Progress(s, TypeOf[WipOf[o.on]]) \in DOMAIN W
  BY <1>2, <1>3 DEF Verdicts
<1>7. ASSUME o.op \in Unloading, NEW s \in Samples, NEW t \in Types,
             Progress(s, t) \in DOMAIN W
      PROVE  /\ HasLock(G, Sample(s))
             /\ ~(u[Sample(s)] = "processing" /\ Measured(u, s))
  <2> HIDE DEF u
  <2> QED BY <1>2, <1>3, <1>7 DEF Measures, Looked, u
<1> QED
  BY <1>4, <1>5, <1>6, <1>7

\* What another call has locked, the commit has not written.
LEMMA LockedApart ==
  ASSUME NEW o, NEW v, NEW K, NEW W, NEW G, Commits(o, v, K, W, G),
         NEW H, Exclude(H, G), NEW row \in Rows,
         row[1] \in {"request", "sample"}, HasLock(H, row)
  PROVE  row \notin DOMAIN W
<1>1. WrittenLocked(o, v, W, G)
  BY DEF Commits, CallInv
<1> SUFFICES ASSUME row \in DOMAIN W PROVE FALSE
  OBVIOUS
<1>2. HasLock(G, row)
  BY <1>1 DEF WrittenLocked
<1> QED
  BY <1>2, OneWriter

\* A request that has reached the laboratory, and a WIP, stay.
LEMMA StaysThere ==
  ASSUME NEW o, NEW v, NEW K, NEW W, NEW G, Commits(o, v, K, W, G)
  PROVE  /\ \A r \in Requests : Later(v, r) => Later(Over(W, v), r)
         /\ \A x \in Wips : v[Wip(x)] # "none" => Over(W, v)[Wip(x)] # "none"
         /\ \A d \in Dispatches :
                v[Dispatch(d)] # "none" => Over(W, v)[Dispatch(d)] # "none"
<1> DEFINE u == Over(W, v)
<1>1. /\ o \in Calls /\ DOMAIN W \subseteq Rows
      /\ \A row \in DOMAIN W : W[row] \in WritesOf(o, row)
      /\ \A row \in DOMAIN W : u[row] = W[row]
      /\ \A row \in Rows \ DOMAIN W : u[row] = v[row]
  BY CommitFacts
<1>2. Written(o, v, W)
  BY DEF Commits, Careful
<1> HIDE DEF u
<1>3. ASSUME NEW r \in Requests, Later(v, r) PROVE Later(u, r)
  <2>1. Request(r) \in Rows
    BY RowFacts
  <2>2. CASE Request(r) \in DOMAIN W
    <3>1. \/ W[Request(r)] = "none"
          \/ <<v[Request(r)], W[Request(r)]>> \in RequestWrites
      BY <1>2, <2>2 DEF Written
    <3>2. v[Request(r)] \in InLab \cup {"none"}
      BY <1>3 DEF Later
    <3>3. W[Request(r)] \in InLab \cup {"none"}
      BY <3>1, <3>2 DEF RequestWrites, RequestTransitions, InLab
    <3> QED BY <1>1, <2>2, <3>3 DEF Later
  <2> QED BY <1>1, <1>3, <2>1, <2>2 DEF Later
<1>4. ASSUME NEW row \in Rows, row[1] \in {"wip", "dispatch"}, v[row] # "none"
      PROVE  u[row] # "none"
  <2>1. row \in DOMAIN W => W[row] # "none"
    BY <1>1, <1>4, WritesAreValues
  <2> QED BY <1>1, <1>4, <2>1
<1>5. ASSUME NEW x \in Wips, v[Wip(x)] # "none" PROVE u[Wip(x)] # "none"
  BY <1>4, <1>5, RowFacts
<1>6. ASSUME NEW d \in Dispatches, v[Dispatch(d)] # "none"
      PROVE  u[Dispatch(d)] # "none"
  BY <1>4, <1>6, RowFacts
<1> QED
  BY <1>3, <1>5, <1>6 DEF u

LEMMA OthersWritten ==
  ASSUME NEW o, NEW v, NEW K, NEW W, NEW G, Commits(o, v, K, W, G),
         NEW c, NEW L, NEW M, NEW H, CallInv(c, v, L, M, H), Exclude(H, G),
         Written(c, v, M)
  PROVE  Written(c, Over(W, v), M)
<1> DEFINE u == Over(W, v)
<1>1. /\ \A row \in DOMAIN W : u[row] = W[row]
      /\ \A row \in Rows \ DOMAIN W : u[row] = v[row]
  BY CommitFacts
<1>2. WrittenLocked(c, v, M, H) /\ DOMAIN M \subseteq Rows
  BY DEF CallInv, CallTypeOK
<1>3. ASSUME NEW row \in DOMAIN M, row[1] \in {"request", "sample"}
      PROVE  u[row] = v[row]
  <2>1. HasLock(H, row) /\ row \in Rows
    BY <1>2, <1>3 DEF WrittenLocked
  <2> HIDE DEF u
  <2> QED BY <1>1, <1>3, <2>1, LockedApart
<1>4. /\ \A x \in Wips : v[Wip(x)] # "none" => u[Wip(x)] # "none"
      /\ \A d \in Dispatches : v[Dispatch(d)] # "none" => u[Dispatch(d)] # "none"
  BY StaysThere
<1> HIDE DEF u
<1>5. ASSUME NEW r \in Requests, Request(r) \in DOMAIN M
      PROVE  \/ M[Request(r)] = "none"
             \/ <<u[Request(r)], M[Request(r)]>> \in RequestWrites
  BY <1>3, <1>5, RowFacts DEF Written
<1>6. ASSUME NEW s \in Samples, Sample(s) \in DOMAIN M
      PROVE  /\ \/ M[Sample(s)] \in {"processing", "none"}
                \/ <<u[Sample(s)], M[Sample(s)]>> \in SampleWrites
             /\ c.op \in Settling => s = c.on
             /\ c.op = "ship" => Owner[s] = c.on /\ Request(c.on) \in DOMAIN M
  BY <1>3, <1>6, RowFacts DEF Written
<1>7. ASSUME NEW d \in Dispatches, Dispatch(d) \in DOMAIN M, u[Dispatch(d)] = "none"
      PROVE  u[Wip(WipOf[d])] # "none"
  BY <1>4, <1>7, TablesAssumption DEF Written
<1> QED
  BY <1>5, <1>6, <1>7 DEF Written, u

LEMMA OthersJoins ==
  ASSUME NEW o, NEW v, NEW K, NEW W, NEW G, Commits(o, v, K, W, G),
         NEW c, NEW L, NEW M, Joins(c, v, L, M)
  PROVE  Joins(c, Over(W, v), L, M)
BY StaysThere, TablesAssumption DEF Joins

LEMMA OthersVerdicts ==
  ASSUME NEW o, NEW v, NEW K, NEW W, NEW G, Commits(o, v, K, W, G),
         NEW c, NEW L, NEW M, NEW H, CallInv(c, v, L, M, H), Exclude(H, G),
         Verdicts(c, v, L, M, H), RunsHaveWips(v)
  PROVE  Verdicts(c, Over(W, v), L, M, H)
<1> DEFINE u == Over(W, v)
           row == Dispatch(c.on)
           x == WipOf[c.on]
<1>1. /\ o \in Calls /\ DOMAIN W \subseteq Rows
      /\ \A y \in DOMAIN W : u[y] = W[y]
      /\ \A y \in Rows \ DOMAIN W : u[y] = v[y]
  BY CommitFacts
<1>2. /\ WrittenLocked(c, v, M, H) /\ c \in Calls
      /\ WrittenLocked(o, v, W, G) /\ NewWip(o, v, K) /\ K # <<>>
  BY DEF CallInv, CallTypeOK, Commits
<1> HIDE DEF u
<1> SUFFICES ASSUME c.op \in Unloading \cup Recording, row \in DOMAIN M,
                    u[row] \in {"dispatched", "running"},
                    ~Pending(L, Check("roll", c.on))
             PROVE  /\ HasLock(H, Wip(x))
                    /\ \A s \in MembersOf(u, x) : Progress(s, TypeOf[x]) \in DOMAIN M
  BY DEF Verdicts, u
<1>3. /\ c.on \in Dispatches /\ x \in Wips /\ row \in Rows
      /\ row[1] = "dispatch" /\ row[2] = c.on
  BY <1>2, CallsOn, RowFacts DEF Unloading, Recording, RunOps
<1>4. u[row] = v[row]
  <2> DEFINE lock == IF v[row] = "none" THEN Wip(WipOf[row[2]]) ELSE row
  <2>1. HasLock(H, lock)
    BY <1>2, <1>3 DEF WrittenLocked
  <2>2. row \in DOMAIN W => HasLock(G, lock)
    BY <1>2, <1>3 DEF WrittenLocked
  <2> HIDE DEF lock
  <2>3. row \notin DOMAIN W
    BY <2>1, <2>2, OneWriter
  <2> QED BY <1>1, <1>3, <2>3
<1>5. /\ HasLock(H, Wip(x))
      /\ \A s \in MembersOf(v, x) : Progress(s, TypeOf[x]) \in DOMAIN M
  BY <1>4 DEF Verdicts
<1>6. v[Wip(x)] # "none"
  BY <1>3, <1>4 DEF RunsHaveWips
<1>7. \A s \in Samples : Member(x, s) \notin DOMAIN W
  <2> SUFFICES ASSUME NEW s \in Samples, Member(x, s) \in DOMAIN W PROVE FALSE
    OBVIOUS
  <2>1. Member(x, s)[1] = "member" /\ Member(x, s)[2] = x
    BY RowNames
  <2>2. HasLock(G, Wip(x)) \/ Creates(o, x)
    <3> DEFINE y == Member(x, s)
    <3>1. y \in DOMAIN W /\ y[1] = "member" /\ y[2] = x
      BY <2>1
    <3> HIDE DEF y
    <3> QED BY <1>2, <3>1 DEF WrittenLocked
  <2>3. CASE HasLock(G, Wip(x))
    BY <1>5, <2>3, OneWriter
  <2>4. CASE Creates(o, x)
    BY <1>2, <1>6, <2>4 DEF Creates, NewWip
  <2> QED BY <2>2, <2>3, <2>4
<1>8. MembersOf(u, x) \subseteq MembersOf(v, x)
  <2>1. \A s \in Samples : u[Member(x, s)] = v[Member(x, s)]
    BY <1>1, <1>3, <1>7, RowFacts
  <2> QED BY <2>1 DEF MembersOf
<1> QED
  BY <1>5, <1>8

LEMMA OthersMeasures ==
  ASSUME NEW o, NEW v, NEW K, NEW W, NEW G, Commits(o, v, K, W, G),
         NEW c, NEW L, NEW M, NEW H, CallInv(c, v, L, M, H), Exclude(H, G),
         Measures(c, v, L, M, H)
  PROVE  Measures(c, Over(W, v), L, M, H)
<1> DEFINE u == Over(W, v)
           V == Over(M, v)
           U == Over(M, u)
<1>1. /\ o \in Calls /\ DOMAIN W \subseteq Rows
      /\ \A y \in DOMAIN W : W[y] \in WritesOf(o, y)
      /\ \A y \in DOMAIN W : u[y] = W[y]
      /\ \A y \in Rows \ DOMAIN W : u[y] = v[y]
  BY CommitFacts
<1>2. DOMAIN M \subseteq Rows /\ DOMAIN v = Rows
  BY DEF CallInv, CallTypeOK, Commits
<1>3. DOMAIN u = Rows
  BY <1>1, <1>2, ViewRow
<1> HIDE DEF u
<1>4. \A y \in Rows : /\ y \in DOMAIN M => V[y] = M[y] /\ U[y] = M[y]
                      /\ y \notin DOMAIN M => V[y] = v[y] /\ U[y] = u[y]
  BY <1>2, <1>3, ViewRow
<1> SUFFICES ASSUME c.op \in Unloading, NEW s \in Samples, NEW t \in Types,
                    Progress(s, t) \in DOMAIN M, ~Pending(L, Check("trycomplete", s))
             PROVE  /\ HasLock(H, Sample(s))
                    /\ ~(U[Sample(s)] = "processing" /\ Measured(U, s))
  BY DEF Measures, Looked, u
<1> HIDE DEF U, V
<1>5. HasLock(H, Sample(s)) /\ ~(V[Sample(s)] = "processing" /\ Measured(V, s))
  BY DEF Measures, Looked, V
<1>6. Sample(s) \in Rows /\ Sample(s)[1] = "sample"
  BY RowFacts
<1>7. U[Sample(s)] = V[Sample(s)]
  <2>1. Sample(s) \notin DOMAIN W
    BY <1>5, <1>6, LockedApart
  <2> QED BY <1>1, <1>4, <1>6, <2>1
<1>8. ASSUME Measured(U, s) PROVE Measured(V, s)
  <2> SUFFICES ASSUME NEW z \in Types, V[Progress(s, z)] \notin Dispatches PROVE FALSE
    BY DEF Measured
  <2>1. U[Progress(s, z)] \in Dispatches
    BY <1>8 DEF Measured
  <2>2. Progress(s, z) \in Rows /\ Progress(s, z)[1] = "progress"
    BY RowFacts
  <2>3. /\ Progress(s, z) \in DOMAIN W
        /\ W[Progress(s, z)] \in Dispatches
    BY <1>1, <1>4, <2>1, <2>2
  <2>4. o.op \in Unloading
    <3>1. W[Progress(s, z)] \notin {"pending", "in_progress"}
      BY <2>3, TablesAssumption
    <3> QED BY <1>1, <2>2, <2>3, <3>1, WhoWrites
  <2>5. HasLock(G, Sample(s))
    BY <2>3, <2>4, CommitLocks
  <2> QED BY <1>5, <2>5, OneWriter
<1> QED
  BY <1>5, <1>7, <1>8

\* A wafer that a commit accounts for, or settles.
LEMMA NewlyAccounted ==
  ASSUME NEW o, NEW v, NEW K, NEW W, NEW G, Commits(o, v, K, W, G),
         NEW s \in Samples, Sample(s) \in DOMAIN W,
         W[Sample(s)] \in {"received", "processing", "completed", "voided",
                           "returned"},
         v[Sample(s)] \notin {"received", "processing", "completed", "voided",
                              "returned"}
  PROVE  \/ Later(v, Owner[s])
         \/ /\ HasLock(G, Request(Owner[s]))
            /\ ~(/\ Over(W, v)[Request(Owner[s])] = "sample_shipped"
                 /\ Accounted(Over(W, v), Owner[s]))
<1>1. \/ W[Sample(s)] \in {"processing", "none"}
      \/ <<v[Sample(s)], W[Sample(s)]>> \in SampleWrites
  BY DEF Commits, Careful, Written
<1>2. CASE W[Sample(s)] = "processing"
  BY <1>2, CommitLocks
<1>3. CASE W[Sample(s)] \in {"received", "voided", "returned"}
  BY <1>3, CommitLocks
<1>4. CASE W[Sample(s)] = "completed"
  BY <1>1, <1>4 DEF SampleWrites
<1> QED
  BY <1>2, <1>3, <1>4

LEMMA OthersReceived ==
  ASSUME NEW o, NEW v, NEW K, NEW W, NEW G, Commits(o, v, K, W, G),
         NEW c, NEW L, NEW M, NEW H, CallInv(c, v, L, M, H), Exclude(H, G),
         Written(c, v, M), NEW r \in Requests, NEW look,
         Looked(L, Over(M, v), H, Request(r), look,
                /\ Over(M, v)[Request(r)] = "sample_shipped"
                /\ Accounted(Over(M, v), r))
  PROVE  Looked(L, Over(M, Over(W, v)), H, Request(r), look,
                /\ Over(M, Over(W, v))[Request(r)] = "sample_shipped"
                /\ Accounted(Over(M, Over(W, v)), r))
<1> DEFINE u == Over(W, v)
           V == Over(M, v)
           U == Over(M, u)
           row == Request(r)
<1>1. /\ o \in Calls /\ DOMAIN W \subseteq Rows
      /\ \A y \in DOMAIN W : u[y] = W[y]
      /\ \A y \in Rows \ DOMAIN W : u[y] = v[y]
  BY CommitFacts
<1>2. DOMAIN M \subseteq Rows /\ DOMAIN v = Rows
  BY DEF CallInv, CallTypeOK, Commits
<1>3. DOMAIN u = Rows
  BY <1>1, <1>2, ViewRow
<1> HIDE DEF u
<1>4. \A y \in Rows : /\ y \in DOMAIN M => V[y] = M[y] /\ U[y] = M[y]
                      /\ y \notin DOMAIN M => V[y] = v[y] /\ U[y] = u[y]
  BY <1>2, <1>3, ViewRow
<1> SUFFICES ASSUME ~Pending(L, look)
             PROVE  HasLock(H, row) /\ ~(U[row] = "sample_shipped" /\ Accounted(U, r))
  BY DEF Looked, u
<1> HIDE DEF U, V
<1>5. HasLock(H, row) /\ ~(V[row] = "sample_shipped" /\ Accounted(V, r))
  BY DEF Looked, V
<1>6. row \in Rows /\ row[1] = "request"
  BY RowFacts
<1>7. U[row] = V[row]
  <2>1. row \notin DOMAIN W
    BY <1>5, <1>6, LockedApart
  <2> QED BY <1>1, <1>4, <1>6, <2>1
<1>8. ASSUME V[row] = "sample_shipped", Accounted(U, r) PROVE Accounted(V, r)
  <2> DEFINE A == {"received", "processing", "completed", "voided", "returned"}
  <2> SUFFICES ASSUME NEW s \in SamplesOf(r), V[Sample(s)] \notin A PROVE FALSE
    BY DEF Accounted
  <2>1. U[Sample(s)] \in A
    BY <1>8 DEF Accounted
  <2>2. s \in Samples /\ Owner[s] = r /\ Sample(s) \in Rows
    BY RowFacts DEF SamplesOf
  <2>3. Sample(s) \in DOMAIN W /\ W[Sample(s)] \in A /\ v[Sample(s)] \notin A
    BY <1>1, <1>4, <2>1, <2>2
  <2>4. ~HasLock(G, row)
    BY <1>5, OneWriter
  <2>5. Later(v, r)
    BY <2>2, <2>3, <2>4, NewlyAccounted
  <2>6. v[row] \in InLab \cup {"none"}
    BY <2>5 DEF Later
  <2>7. CASE row \in DOMAIN M
    <3>1. M[row] = "sample_shipped"
      BY <1>4, <1>6, <1>8, <2>7
    <3>2. <<v[row], M[row]>> \in RequestWrites
      BY <2>7, <3>1 DEF Written
    <3> QED BY <2>6, <3>1, <3>2 DEF RequestWrites, InLab
  <2>8. CASE row \notin DOMAIN M
    <3>1. v[row] = "sample_shipped"
      BY <1>4, <1>6, <1>8, <2>8
    <3> QED BY <2>6, <3>1 DEF InLab
  <2> QED BY <2>7, <2>8
<1> QED
  BY <1>5, <1>7, <1>8

LEMMA OthersCompleted ==
  ASSUME NEW o, NEW v, NEW K, NEW W, NEW G, Commits(o, v, K, W, G),
         NEW c, NEW L, NEW M, NEW H, CallInv(c, v, L, M, H), Exclude(H, G),
         NEW r \in Requests, NEW look,
         Looked(L, Over(M, v), H, Request(r), look,
                /\ Over(M, v)[Request(r)] = "in_progress"
                /\ Settled(Over(M, v), r))
  PROVE  Looked(L, Over(M, Over(W, v)), H, Request(r), look,
                /\ Over(M, Over(W, v))[Request(r)] = "in_progress"
                /\ Settled(Over(M, Over(W, v)), r))
<1> DEFINE u == Over(W, v)
           V == Over(M, v)
           U == Over(M, u)
           row == Request(r)
<1>1. /\ o \in Calls /\ DOMAIN W \subseteq Rows
      /\ \A y \in DOMAIN W : u[y] = W[y]
      /\ \A y \in Rows \ DOMAIN W : u[y] = v[y]
  BY CommitFacts
<1>2. DOMAIN M \subseteq Rows /\ DOMAIN v = Rows
  BY DEF CallInv, CallTypeOK, Commits
<1>3. DOMAIN u = Rows
  BY <1>1, <1>2, ViewRow
<1> HIDE DEF u
<1>4. \A y \in Rows : /\ y \in DOMAIN M => V[y] = M[y] /\ U[y] = M[y]
                      /\ y \notin DOMAIN M => V[y] = v[y] /\ U[y] = u[y]
  BY <1>2, <1>3, ViewRow
<1> SUFFICES ASSUME ~Pending(L, look)
             PROVE  HasLock(H, row) /\ ~(U[row] = "in_progress" /\ Settled(U, r))
  BY DEF Looked, u
<1> HIDE DEF U, V
<1>5. HasLock(H, row) /\ ~(V[row] = "in_progress" /\ Settled(V, r))
  BY DEF Looked, V
<1>6. row \in Rows /\ row[1] = "request"
  BY RowFacts
<1>7. U[row] = V[row]
  <2>1. row \notin DOMAIN W
    BY <1>5, <1>6, LockedApart
  <2> QED BY <1>1, <1>4, <1>6, <2>1
<1>8. ASSUME Settled(U, r) PROVE Settled(V, r)
  <2> DEFINE A == {"completed", "voided", "returned"}
  <2> SUFFICES ASSUME NEW s \in SamplesOf(r), V[Sample(s)] \notin A PROVE FALSE
    BY DEF Settled
  <2>1. U[Sample(s)] \in A
    BY <1>8 DEF Settled
  <2>2. s \in Samples /\ Owner[s] = r /\ Sample(s) \in Rows
    BY RowFacts DEF SamplesOf
  <2>3. Sample(s) \in DOMAIN W /\ W[Sample(s)] \in A
    BY <1>1, <1>4, <2>1, <2>2
  <2>4. HasLock(G, row)
    BY <2>2, <2>3, CommitLocks
  <2> QED BY <1>5, <2>4, OneWriter
<1> QED
  BY <1>5, <1>7, <1>8

LEMMA OthersWaits ==
  ASSUME NEW o, NEW v, NEW K, NEW W, NEW G, Commits(o, v, K, W, G),
         NEW c, NEW L, NEW M, NEW H, CallInv(c, v, L, M, H), Exclude(H, G),
         Written(c, v, M), Waits(v, L, M, H)
  PROVE  Waits(Over(W, v), L, M, H)
<1> DEFINE V == Over(M, v)
           U == Over(M, Over(W, v))
<1> SUFFICES ASSUME NEW s \in Samples, Sample(s) \in DOMAIN M
             PROVE  LET r == Owner[s] IN
                    /\ M[Sample(s)] \in {"received", "voided", "returned"} =>
                        Looked(L, U, H, Request(r), Check("received", r),
                          U[Request(r)] = "sample_shipped" /\ Accounted(U, r))
                    /\ M[Sample(s)] \in {"voided", "returned", "completed"} =>
                        Looked(L, U, H, Request(r), Check("completed", r),
                          U[Request(r)] = "in_progress" /\ Settled(U, r))
  BY DEF Waits
<1> DEFINE r == Owner[s]
<1>0. r \in Requests
  BY TablesAssumption
<1>1. /\ M[Sample(s)] \in {"received", "voided", "returned"} =>
            Looked(L, V, H, Request(r), Check("received", r),
                   V[Request(r)] = "sample_shipped" /\ Accounted(V, r))
      /\ M[Sample(s)] \in {"voided", "returned", "completed"} =>
            Looked(L, V, H, Request(r), Check("completed", r),
                   V[Request(r)] = "in_progress" /\ Settled(V, r))
  BY DEF Waits
<1> HIDE DEF r
<1>2. ASSUME NEW look, Looked(L, V, H, Request(r), look,
                   V[Request(r)] = "sample_shipped" /\ Accounted(V, r))
      PROVE  Looked(L, U, H, Request(r), look,
                   U[Request(r)] = "sample_shipped" /\ Accounted(U, r))
  BY <1>0, <1>2, OthersReceived
<1>3. ASSUME NEW look, Looked(L, V, H, Request(r), look,
                   V[Request(r)] = "in_progress" /\ Settled(V, r))
      PROVE  Looked(L, U, H, Request(r), look,
                   U[Request(r)] = "in_progress" /\ Settled(U, r))
  BY <1>0, <1>3, OthersCompleted
<1> HIDE DEF U, V
<1> QED
  BY <1>1, <1>2, <1>3 DEF r

LEMMA OthersCareful ==
  ASSUME NEW o, NEW v, NEW K, NEW W, NEW G, Commits(o, v, K, W, G),
         NEW c, NEW L, NEW M, NEW H, CallInv(c, v, L, M, H), Exclude(H, G),
         Careful(c, v, L, M, H), RunsHaveWips(v)
  PROVE  Careful(c, Over(W, v), L, M, H)
<1>1. /\ InSequence(c, L, M) /\ Written(c, v, M) /\ Joins(c, v, L, M)
      /\ Waits(v, L, M, H) /\ Verdicts(c, v, L, M, H) /\ Measures(c, v, L, M, H)
  BY DEF Careful
<1>2. Written(c, Over(W, v), M)
  BY <1>1, OthersWritten
<1>3. Joins(c, Over(W, v), L, M)
  BY <1>1, OthersJoins
<1>4. Waits(Over(W, v), L, M, H)
  BY <1>1, OthersWaits
<1>5. Verdicts(c, Over(W, v), L, M, H)
  BY <1>1, OthersVerdicts
<1>6. Measures(c, Over(W, v), L, M, H)
  BY <1>1, OthersMeasures
<1> QED
  BY <1>1, <1>2, <1>3, <1>4, <1>5, <1>6 DEF Careful

\* What a commit makes of the tables.
LEMMA CommitKeepsEarly ==
  ASSUME NEW o, NEW v, NEW K, NEW W, NEW G, Commits(o, v, K, W, G), EarlyWhole(v)
  PROVE  EarlyWhole(Over(W, v))
<1> DEFINE u == Over(W, v)
<1>1. /\ o \in Calls /\ DOMAIN W \subseteq Rows
      /\ \A y \in DOMAIN W : W[y] \in WritesOf(o, y)
      /\ \A y \in DOMAIN W : u[y] = W[y]
      /\ \A y \in Rows \ DOMAIN W : u[y] = v[y]
  BY CommitFacts
<1>2. Written(o, v, W)
  BY DEF Commits, Careful
<1> HIDE DEF u
<1> SUFFICES ASSUME NEW s \in Samples, u[Request(Owner[s])] \in Early
             PROVE  u[Sample(s)] \in {"created", "none"}
  BY DEF EarlyWhole, u
<1> DEFINE r == Owner[s]
           row == Request(r)
<1>3. /\ r \in Requests /\ row \in Rows /\ row[1] = "request"
      /\ Sample(s) \in Rows /\ Sample(s)[1] = "sample"
  BY TablesAssumption, RowFacts
<1>4. row \in DOMAIN W =>
        W[row] \in {"pending_approval", "approved"} /\ v[row] \in Early
  <2> SUFFICES ASSUME row \in DOMAIN W
               PROVE  W[row] \in {"pending_approval", "approved"} /\ v[row] \in Early
    OBVIOUS
  <2>1. W[row] \in Early
    BY <1>1
  <2>2. W[row] # "none"
    BY <2>1 DEF Early
  <2>3. <<v[row], W[row]>> \in RequestWrites
    BY <1>2, <1>3, <2>2 DEF Written
  <2> HIDE DEF row
  <2> QED BY <2>1, <2>3 DEF RequestWrites, Early
<1>5. v[row] \in Early
  BY <1>1, <1>3, <1>4
<1>6. v[Sample(s)] \in {"created", "none"}
  BY <1>5 DEF EarlyWhole
<1>7. CASE Sample(s) \notin DOMAIN W
  BY <1>1, <1>3, <1>6, <1>7
<1>8. CASE Sample(s) \in DOMAIN W
  <2>1. \/ W[Sample(s)] \in {"processing", "none"}
        \/ <<v[Sample(s)], W[Sample(s)]>> \in SampleWrites
    BY <1>2, <1>8 DEF Written
  <2>2. W[Sample(s)] # "processing"
    <3> SUFFICES ASSUME W[Sample(s)] = "processing" PROVE FALSE
      OBVIOUS
    <3>1. Later(v, r)
      BY <1>8, CommitLocks
    <3> QED BY <1>5, <3>1 DEF Later, Early, InLab
  <2>3. W[Sample(s)] # "shipped"
    <3> SUFFICES ASSUME W[Sample(s)] = "shipped" PROVE FALSE
      OBVIOUS
    <3>1. o.op = "ship"
      BY <1>1, <1>3, <1>8, WhoWrites
    <3>2. row \in DOMAIN W
      BY <1>2, <1>8, <3>1 DEF Written
    <3>3. W[row] \in WritesOf(o, row) /\ W[row] \in {"pending_approval", "approved"}
      BY <1>1, <1>4, <3>2
    <3> QED BY <1>1, <1>3, <3>1, <3>3, WhoWrites
  <2>4. W[Sample(s)] = "none"
    BY <1>6, <2>1, <2>2, <2>3 DEF SampleWrites
  <2> QED BY <1>1, <1>8, <2>4
<1> QED
  BY <1>7, <1>8

LEMMA CommitKeepsRuns ==
  ASSUME NEW o, NEW v, NEW K, NEW W, NEW G, Commits(o, v, K, W, G), RunsHaveWips(v)
  PROVE  RunsHaveWips(Over(W, v))
<1> DEFINE u == Over(W, v)
<1>1. \A y \in Rows \ DOMAIN W : u[y] = v[y]
  BY CommitFacts
<1>2. \A x \in Wips : v[Wip(x)] # "none" => u[Wip(x)] # "none"
  BY StaysThere
<1> HIDE DEF u
<1> SUFFICES ASSUME NEW d \in Dispatches, u[Dispatch(d)] # "none"
             PROVE  u[Wip(WipOf[d])] # "none"
  BY DEF RunsHaveWips, u
<1>3. v[Wip(WipOf[d])] # "none"
  <2>1. CASE v[Dispatch(d)] # "none"
    BY <2>1 DEF RunsHaveWips
  <2>2. CASE v[Dispatch(d)] = "none"
    <3>1. Dispatch(d) \in DOMAIN W
      BY <1>1, <2>2, RowFacts
    <3> QED BY <2>2, <3>1 DEF Commits, Careful, Written
  <2> QED BY <2>1, <2>2
<1> QED
  BY <1>2, <1>3, TablesAssumption

LEMMA CommitKeepsNoneWaits ==
  ASSUME NEW o, NEW v, NEW K, NEW W, NEW G, Commits(o, v, K, W, G),
         EarlyWhole(v), NoneWaits(v)
  PROVE  NoneWaits(Over(W, v))
<1> DEFINE u == Over(W, v)
           A == {"received", "processing", "completed", "voided", "returned"}
           B == {"completed", "voided", "returned"}
<1>1. /\ o \in Calls /\ DOMAIN W \subseteq Rows
      /\ \A y \in DOMAIN W : W[y] \in WritesOf(o, y)
      /\ \A y \in DOMAIN W : u[y] = W[y]
      /\ \A y \in Rows \ DOMAIN W : u[y] = v[y]
  BY CommitFacts
<1>2. Written(o, v, W)
  BY DEF Commits, Careful
<1>3. \A s \in Samples : Sample(s) \in DOMAIN W /\ W[Sample(s)] \in B =>
        ~(u[Request(Owner[s])] = "in_progress" /\ Settled(u, Owner[s]))
  BY CommitLocks
<1>4. \A s \in Samples :
        /\ Sample(s) \in DOMAIN W /\ W[Sample(s)] \in A /\ v[Sample(s)] \notin A
        => \/ Later(v, Owner[s])
           \/ ~(u[Request(Owner[s])] = "sample_shipped" /\ Accounted(u, Owner[s]))
  BY NewlyAccounted
<1> HIDE DEF u
<1> SUFFICES ASSUME NEW r \in Requests
             PROVE  /\ u[Request(r)] = "sample_shipped" => ~Accounted(u, r)
                    /\ u[Request(r)] = "in_progress" => ~Settled(u, r)
  BY DEF NoneWaits, u
<1> DEFINE row == Request(r)
<1>5. row \in Rows /\ row[1] = "request"
  BY RowFacts
<1>6. \A s \in SamplesOf(r) : /\ s \in Samples /\ Owner[s] = r
                              /\ Sample(s) \in Rows /\ Sample(s)[1] = "sample"
  BY RowFacts DEF SamplesOf
<1>7. row \in DOMAIN W => W[row] = "none" \/ <<v[row], W[row]>> \in RequestWrites
  BY <1>2 DEF Written
<1>8. \A s \in SamplesOf(r) : Sample(s) \notin DOMAIN W => u[Sample(s)] = v[Sample(s)]
  BY <1>1, <1>6
<1>9. ASSUME u[row] = "sample_shipped", Accounted(u, r) PROVE FALSE
  <2>1. \A s \in SamplesOf(r) : u[Sample(s)] \in A
    BY <1>9 DEF Accounted
  <2>2. CASE row \in DOMAIN W
    <3>1. W[row] = "sample_shipped"
      BY <1>1, <1>9, <2>2
    <3>2. o.op = "ship"
      <4>1. W[row] \in WritesOf(o, row)
        BY <1>1, <2>2
      <4> HIDE DEF row
      <4> QED BY <1>1, <1>5, <3>1, <4>1, WhoWrites
    <3>3. v[row] = "approved"
      BY <1>7, <2>2, <3>1 DEF RequestWrites
    <3>4. PICK s \in SamplesOf(r) : TRUE
      BY StartAssumption
    <3>5. v[Sample(s)] \in {"created", "none"}
      BY <1>6, <3>3 DEF EarlyWhole, Early
    <3>6. Sample(s) \in DOMAIN W /\ W[Sample(s)] \in A
      BY <1>1, <1>6, <1>8, <2>1, <3>5
    <3>7. W[Sample(s)] \in WritesOf(o, Sample(s))
      BY <1>1, <3>6
    <3>8. o.op \in Settling \cup Cascading \cup {"create_wip", "add_samples"}
      BY <1>1, <1>6, <3>6, <3>7, WhoWrites DEF Settling
    <3> QED BY <3>2, <3>8 DEF Settling, Cascading, Unloading, Recording
  <2>3. CASE row \notin DOMAIN W
    <3>1. v[row] = "sample_shipped"
      BY <1>1, <1>5, <1>9, <2>3
    <3>2. ~Accounted(v, r)
      BY <3>1 DEF NoneWaits
    <3>3. PICK s \in SamplesOf(r) : v[Sample(s)] \notin A
      BY <3>2 DEF Accounted
    <3>4. Sample(s) \in DOMAIN W /\ W[Sample(s)] \in A
      BY <1>1, <1>8, <2>1, <3>3
    <3>5. Later(v, r)
      BY <1>4, <1>6, <1>9, <3>3, <3>4
    <3> QED BY <3>1, <3>5 DEF Later, InLab
  <2> QED BY <2>2, <2>3
<1>10. ASSUME u[row] = "in_progress", Settled(u, r) PROVE FALSE
  <2>1. \A s \in SamplesOf(r) : u[Sample(s)] \in B
    BY <1>10 DEF Settled
  <2>2. \A s \in SamplesOf(r) : Sample(s) \notin DOMAIN W
    BY <1>1, <1>3, <1>6, <1>10, <2>1
  <2>3. Settled(v, r)
    BY <1>8, <2>1, <2>2 DEF Settled
  <2>4. v[row] # "in_progress"
    BY <2>3 DEF NoneWaits
  <2>5. row \in DOMAIN W /\ W[row] = "in_progress"
    BY <1>1, <1>5, <1>10, <2>4
  <2>6. v[row] = "sample_shipped"
    BY <1>7, <2>4, <2>5 DEF RequestWrites
  <2>7. Accounted(v, r)
    BY <2>3 DEF Settled, Accounted
  <2> QED BY <2>6, <2>7 DEF NoneWaits
<1> QED
  BY <1>9, <1>10

-----------------------------------------------------------------------------
\* The programs of the handlers.

OnlyLast(L) == \A i \in 1..Len(L) : L[i].do = "commit" => i = Len(L)

NoCommit(L) == \A i \in 1..Len(L) : L[i].do # "commit"

LEMMA LockFields ==
  /\ \A row : Lock(row).do = "lock" /\ Refer(row).do = "lock"
  /\ Commit.do = "commit"
BY DEF Lock, Refer, Commit

LEMMA LastOf ==
  ASSUME NEW a, a.do # "commit", NEW b, b.do # "commit", NEW d, d.do # "commit",
         NEW e, e.do # "commit", NEW f, f.do # "commit"
  PROVE  /\ OnlyLast(<<a, Commit>>)
         /\ OnlyLast(<<a, b, Commit>>)
         /\ OnlyLast(<<a, b, d, Commit>>)
         /\ OnlyLast(<<a, b, d, e, Commit>>)
         /\ OnlyLast(<<a, b, d, e, f, Commit>>)
<1>1. OnlyLast(<<a, Commit>>)
  BY DEF OnlyLast
<1>2. OnlyLast(<<a, b, Commit>>)
  BY DEF OnlyLast
<1>3. OnlyLast(<<a, b, d, Commit>>)
  BY DEF OnlyLast
<1>4. OnlyLast(<<a, b, d, e, Commit>>)
  BY DEF OnlyLast
<1>5. OnlyLast(<<a, b, d, e, f, Commit>>)
  BY DEF OnlyLast
<1> QED
  BY <1>1, <1>2, <1>3, <1>4, <1>5

LEMMA ConcatFollows ==
  ASSUME NEW S, NEW a \in Seq(S), NEW b \in Seq(S)
  PROVE  /\ a \o b \in Seq(S)
         /\ NoCommit(a) /\ NoCommit(b) => NoCommit(a \o b)
         /\ NoCommit(a) /\ OnlyLast(b) => OnlyLast(a \o b)
         /\ \A x, y : Follows(a, x, y) /\ Follows(b, x, y) => Follows(a \o b, x, y)
<1> DEFINE N == a \o b
<1>1. N \in Seq(S) /\ Len(N) = Len(a) + Len(b) /\ Len(a) \in Nat /\ Len(b) \in Nat
  OBVIOUS
<1>2. \A i \in 1..Len(a) : N[i] = a[i] /\ i \in 1..Len(N)
  OBVIOUS
<1>3. \A i \in 1..Len(b) : N[Len(a) + i] = b[i] /\ Len(a) + i \in 1..Len(N)
  OBVIOUS
<1>4. \A i \in 1..Len(N) :
        \/ i \in 1..Len(a) /\ N[i] = a[i]
        \/ i - Len(a) \in 1..Len(b) /\ N[i] = b[i - Len(a)]
  OBVIOUS
<1> HIDE DEF N
<1>5. NoCommit(a) /\ NoCommit(b) => NoCommit(N)
  BY <1>4 DEF NoCommit
<1>6. ASSUME NoCommit(a), OnlyLast(b) PROVE OnlyLast(N)
  <2> SUFFICES ASSUME NEW i \in 1..Len(N), N[i].do = "commit" PROVE i = Len(N)
    BY DEF OnlyLast
  <2>1. i - Len(a) \in 1..Len(b) /\ b[i - Len(a)].do = "commit"
    BY <1>4, <1>6 DEF NoCommit
  <2>2. i - Len(a) = Len(b)
    BY <1>6, <2>1 DEF OnlyLast
  <2> QED BY <1>1, <2>2
<1>7. ASSUME NEW x, NEW y, Follows(a, x, y), Follows(b, x, y) PROVE Follows(N, x, y)
  <2> SUFFICES ASSUME NEW i \in 1..Len(N), N[i] = x
               PROVE  \E j \in (i + 1)..Len(N) : N[j] = y
    BY DEF Follows
  <2>1. CASE i \in 1..Len(a) /\ N[i] = a[i]
    <3>1. PICK j \in (i + 1)..Len(a) : a[j] = y
      BY <1>7, <2>1 DEF Follows
    <3>2. j \in 1..Len(a) /\ j \in (i + 1)..Len(N)
      BY <1>1, <2>1, <3>1
    <3> QED BY <1>2, <3>1, <3>2
  <2>2. CASE i - Len(a) \in 1..Len(b) /\ N[i] = b[i - Len(a)]
    <3> DEFINE k == i - Len(a)
    <3>1. k \in 1..Len(b) /\ b[k] = x
      BY <2>2
    <3> HIDE DEF k
    <3>2. PICK j \in (k + 1)..Len(b) : b[j] = y
      BY <1>7, <3>1 DEF Follows
    <3>3. j \in 1..Len(b) /\ Len(a) + j \in (i + 1)..Len(N)
      BY <1>1, <3>1, <3>2 DEF k
    <3> QED BY <1>3, <3>2, <3>3
  <2> QED BY <1>4, <2>1, <2>2
<1> QED
  BY <1>1, <1>5, <1>6, <1>7 DEF N

\* The programs that unload or record a run are made of parts.
LEMMA RunsInSequence ==
  ASSUME NEW c \in Calls,
         c.op \in {"unload", "record_result", "equipment_result", "finalize"}
  PROVE  /\ OnlyLast(Program(c))
         /\ Follows(Program(c), Move(Dispatch(c.on), "unload"), Check("roll", c.on))
<1> DEFINE d == c.on
           S == StatementsOf(c)
           A == LockRun(d)
           U == Unload(d)
           R == Record(d)
           C == <<Commit>>
           K == <<Check("running", d)>>
           x == Move(Dispatch(d), "unload")
           y == Check("roll", d)
           Part(L) == L \in Seq(S) /\ NoCommit(L) /\ Follows(L, x, y)
<1>0. d \in Dispatches
  BY CallsOn DEF RunOps
<1>1. /\ A \in Seq(S) /\ C \in Seq(S)
      /\ c.op # "record_result" => U \in Seq(S)
      /\ c.op # "unload" => R \in Seq(S)
      /\ c.op = "finalize" => K \in Seq(S)
  <2> HIDE DEF S
  <2> QED BY <1>0, RunParts DEF S
<1>2. /\ x.do = "move" /\ x.action = "unload" /\ y.do = "roll"
      /\ \A row : Lock(row).do = "lock"
      /\ \A what, on : Check(what, on).do = what
      /\ \A row, action : /\ Move(row, action).do = "move"
                          /\ Move(row, action).action = action
      /\ Commit.do = "commit"
  BY CheckFields, LockFields
<1> HIDE DEF x, y
<1>3. NoCommit(A) /\ Follows(A, x, y)
  <2>1. Len(A) = 3 /\ \A i \in 1..3 : A[i].do = "lock"
    BY <1>2 DEF LockRun
  <2> HIDE DEF A
  <2> QED BY <1>2, <2>1 DEF NoCommit, Follows
<1>4. NoCommit(K) /\ Follows(K, x, y)
  <2>1. Len(K) = 1 /\ K[1].do = "running"
    BY <1>2
  <2> HIDE DEF K
  <2> QED BY <1>2, <2>1 DEF NoCommit, Follows
<1>5. NoCommit(U) /\ Follows(U, x, y)
  <2>1. Len(U) = 2 /\ U[1] = x /\ U[2] = y
    BY DEF Unload, x, y
  <2> HIDE DEF U
  <2>2. 2 \in (1 + 1)..Len(U) /\ \A i \in 1..2 : i = 1 \/ i = 2
    BY <2>1
  <2> QED BY <1>2, <2>1, <2>2 DEF NoCommit, Follows
<1>6. NoCommit(R) /\ Follows(R, x, y)
  <2>1. /\ Len(R) = 3 /\ R[1].do = "move" /\ R[1].action = "record_result"
        /\ R[2].do = "lock" /\ R[3].do = "autocomplete"
    BY <1>2 DEF Record
  <2> HIDE DEF R
  <2> QED BY <1>2, <2>1 DEF NoCommit, Follows
<1>7. OnlyLast(C) /\ Follows(C, x, y)
  <2>1. Len(C) = 1 /\ C[1].do = "commit"
    BY <1>2
  <2> HIDE DEF C
  <2> QED BY <1>2, <2>1 DEF OnlyLast, Follows
<1> HIDE DEF d, S, A, U, R, C, K
<1>8. ASSUME NEW L, NEW N, Part(L), Part(N) PROVE Part(L \o N)
  BY <1>8, ConcatFollows
<1>9. ASSUME NEW L, Part(L) PROVE OnlyLast(L \o C) /\ Follows(L \o C, x, y)
  BY <1>1, <1>7, <1>9, ConcatFollows
<1>10. /\ Part(A)
       /\ c.op # "record_result" => Part(U)
       /\ c.op # "unload" => Part(R)
       /\ c.op = "finalize" => Part(K)
  BY <1>1, <1>3, <1>4, <1>5, <1>6
<1> HIDE DEF Part
<1> SUFFICES OnlyLast(Program(c)) /\ Follows(Program(c), x, y)
  BY DEF x, y, d
<1>11. CASE c.op = "unload"
  <2>1. Part(A \o U)
    BY <1>8, <1>10, <1>11
  <2>2. Program(c) = (A \o U) \o C
    BY <1>11 DEF Program, UnloadDispatch, A, U, C, d
  <2> QED BY <1>9, <2>1, <2>2
<1>12. CASE c.op = "record_result"
  <2>1. Part(A \o R)
    BY <1>8, <1>10, <1>12
  <2>2. Program(c) = (A \o R) \o C
    BY <1>12 DEF Program, RecordResult, A, R, C, d
  <2> QED BY <1>9, <2>1, <2>2
<1>13. CASE c.op = "equipment_result"
  <2>1. Part(A \o U)
    BY <1>8, <1>10, <1>13
  <2>2. Part((A \o U) \o R)
    BY <1>8, <1>10, <1>13, <2>1
  <2>3. Program(c) = ((A \o U) \o R) \o C
    BY <1>13 DEF Program, CompleteDispatchRun, A, U, R, C, d
  <2> QED BY <1>9, <2>2, <2>3
<1>14. CASE c.op = "finalize"
  <2>1. Part(K \o A)
    BY <1>8, <1>10, <1>14
  <2>2. Part((K \o A) \o K)
    BY <1>8, <1>10, <1>14, <2>1
  <2>3. Part(((K \o A) \o K) \o U)
    BY <1>8, <1>10, <1>14, <2>2
  <2>4. Part((((K \o A) \o K) \o U) \o R)
    BY <1>8, <1>10, <1>14, <2>3
  <2>5. Program(c) = ((((K \o A) \o K) \o U) \o R) \o C
    BY <1>14 DEF Program, FinalizeDueDispatch, A, U, R, C, K, d
  <2> QED BY <1>9, <2>4, <2>5
<1> QED
  BY <1>11, <1>12, <1>13, <1>14

LEMMA SettlesInSequence ==
  ASSUME NEW c \in Calls, c.op \in Settling
  PROVE  /\ OnlyLast(Program(c))
         /\ Follows(Program(c), Move(Sample(c.on), c.op), Check("received", Owner[c.on]))
         /\ c.op \in {"void", "return"} =>
              Follows(Program(c), Check("received", Owner[c.on]),
                      Check("completed", Owner[c.on]))
<1> DEFINE s == c.on
           L == Program(c)
           x == Move(Sample(s), c.op)
           y == Check("received", Owner[s])
           z == Check("completed", Owner[s])
<1>1. /\ x.do = "move" /\ y.do = "received" /\ z.do = "completed"
      /\ \A row : Lock(row).do = "lock"
      /\ Commit.do = "commit"
  BY CheckFields, LockFields
<1>2. CASE c.op = "receive"
  <2>1. L = <<Lock(Sample(s)), x, Lock(Request(Owner[s])), y, Commit>>
    BY <1>2 DEF Program, ReceiveSample
  <2> HIDE DEF L, x, y, z
  <2>2. OnlyLast(L)
    BY <1>1, <2>1, LastOf
  <2>3. /\ Len(L) = 5 /\ L[1].do = "lock" /\ L[2] = x /\ L[3].do = "lock"
        /\ L[4] = y /\ L[5].do = "commit"
    BY <1>1, <2>1
  <2>4. \A i \in 1..Len(L) : L[i] = x => i = 2
    BY <1>1, <2>3
  <2>5. 4 \in (2 + 1)..Len(L)
    BY <2>3
  <2>6. Follows(L, x, y)
    BY <2>3, <2>4, <2>5 DEF Follows
  <2> QED BY <1>2, <2>2, <2>6 DEF L, x, y
<1>3. CASE c.op \in {"void", "return"}
  <2>1. L = <<Lock(Sample(s)), x, Lock(Request(Owner[s])), y, z, Commit>>
    BY <1>3 DEF Program, SettleSample
  <2> HIDE DEF L, x, y, z
  <2>2. OnlyLast(L)
    BY <1>1, <2>1, LastOf
  <2>3. /\ Len(L) = 6 /\ L[1].do = "lock" /\ L[2] = x /\ L[3].do = "lock"
        /\ L[4] = y /\ L[5] = z /\ L[6].do = "commit"
    BY <1>1, <2>1
  <2>4. /\ \A i \in 1..Len(L) : L[i] = x => i = 2
        /\ \A i \in 1..Len(L) : L[i] = y => i = 4
    BY <1>1, <2>3
  <2>5. 4 \in (2 + 1)..Len(L) /\ 5 \in (4 + 1)..Len(L)
    BY <2>3
  <2>6. Follows(L, x, y) /\ Follows(L, y, z)
    BY <2>3, <2>4, <2>5 DEF Follows
  <2> QED BY <2>2, <2>6 DEF L, x, y, z
<1> QED
  BY <1>2, <1>3 DEF Settling

LEMMA ShipsInSequence ==
  ASSUME NEW c \in Calls, c.op = "ship"
  PROVE  /\ OnlyLast(Program(c))
         /\ \A i \in 1..Len(Program(c)) :
              Program(c)[i].do \in {"shipsamples", "setif"} =>
                WrittenFirst(Program(c), <<>>, i, Request(c.on),
                             Move(Request(c.on), "ship"))
<1> DEFINE L == Program(c)
           x == Move(Request(c.on), "ship")
           y == Check("shipsamples", c.on)
<1>1. /\ x.do = "move" /\ y.do = "shipsamples"
      /\ \A row : Lock(row).do = "lock"
      /\ Commit.do = "commit"
  BY CheckFields, LockFields
<1>2. L = <<Lock(Request(c.on)), x, y, Commit>>
  BY DEF Program, ShipRequest
<1> HIDE DEF L, x, y
<1>3. OnlyLast(L)
  BY <1>1, <1>2, LastOf
<1>4. /\ Len(L) = 4 /\ L[1].do = "lock" /\ L[2] = x /\ L[3] = y
      /\ L[4].do = "commit"
  BY <1>1, <1>2
<1>5. \A i \in 1..Len(L) : L[i].do \in {"shipsamples", "setif"} => i = 3
  BY <1>1, <1>4
<1>6. 2 \in 1..(3 - 1)
  OBVIOUS
<1>7. \A i \in 1..Len(L) : L[i].do \in {"shipsamples", "setif"} =>
        WrittenFirst(L, <<>>, i, Request(c.on), x)
  BY <1>4, <1>5, <1>6 DEF WrittenFirst
<1> QED
  BY <1>3, <1>7 DEF L, x

LEMMA ReplacesInSequence ==
  ASSUME NEW c \in Calls, c.op = "redispatch"
  PROVE  /\ OnlyLast(Program(c))
         /\ \A i \in 1..Len(Program(c)) : Program(c)[i].do = "setif" =>
                WrittenFirst(Program(c), <<>>, i, Dispatch(c.on),
                             Move(Dispatch(c.on), "redispatch"))
<1> DEFINE L == Program(c)
           x == Move(Dispatch(c.on), "redispatch")
           y == SetIf(Dispatch(c.new), "none", "pending")
<1>1. /\ x.do = "move" /\ y.do = "setif"
      /\ \A row : Lock(row).do = "lock" /\ Refer(row).do = "lock"
      /\ Commit.do = "commit"
  BY CheckFields, LockFields
<1>2. L = <<Lock(Dispatch(c.on)), Lock(Wip(WipOf[c.on])), x,
            Refer(Type(TypeOf[WipOf[c.on]])), y, Commit>>
  BY DEF Program, Redispatch
<1> HIDE DEF L, x, y
<1>3. OnlyLast(L)
  BY <1>1, <1>2, LastOf
<1>4. /\ Len(L) = 6 /\ L[1].do = "lock" /\ L[2].do = "lock" /\ L[3] = x
      /\ L[4].do = "lock" /\ L[5] = y /\ L[6].do = "commit"
  BY <1>1, <1>2
<1>5. \A i \in 1..Len(L) : L[i].do = "setif" => i = 5
  BY <1>1, <1>4
<1>6. 3 \in 1..(5 - 1)
  OBVIOUS
<1>7. \A i \in 1..Len(L) : L[i].do = "setif" =>
        WrittenFirst(L, <<>>, i, Dispatch(c.on), x)
  BY <1>4, <1>5, <1>6 DEF WrittenFirst
<1> QED
  BY <1>3, <1>7 DEF L, x

LEMMA BatchesInSequence ==
  ASSUME NEW c \in Calls, c.op \in {"create_wip", "add_samples"}
  PROVE  /\ OnlyLast(Program(c))
         /\ \A s : ~Pending(Program(c), Set(Sample(s), "processing"))
<1> DEFINE L == Program(c)
           y == [do |-> "validate", on |-> c.on, samples |-> c.samples]
<1>1. /\ y.do = "validate" /\ \A what, on : Check(what, on).do = what
      /\ \A row : Lock(row).do = "lock"
      /\ Commit.do = "commit"
      /\ \A s : Set(Sample(s), "processing").do = "set"
  BY CheckFields, LockFields
<1>2. CASE c.op = "create_wip"
  <2>1. L = <<y, Commit>>
    BY <1>2 DEF Program, CreateWip
  <2> HIDE DEF L, y
  <2>2. OnlyLast(L)
    BY <1>1, <2>1, LastOf
  <2>3. Len(L) = 2 /\ L[1].do = "validate" /\ L[2].do = "commit"
    BY <1>1, <2>1
  <2>4. \A i \in 1..Len(L) : L[i].do # "set"
    BY <2>3
  <2> QED BY <1>1, <2>2, <2>4 DEF L, Pending
<1>3. CASE c.op = "add_samples"
  <2>1. L = <<Lock(Wip(c.on)), Lock(Type(TypeOf[c.on])), Check("open", c.on),
              y, Commit>>
    BY <1>3 DEF Program, AddSamples
  <2> HIDE DEF L, y
  <2>2. /\ Len(L) = 5 /\ L[1].do = "lock" /\ L[2].do = "lock"
        /\ L[3].do = "open" /\ L[4].do = "validate" /\ L[5].do = "commit"
    BY <1>1, <2>1
  <2>3. OnlyLast(L)
    BY <2>2 DEF OnlyLast
  <2>4. \A i \in 1..Len(L) : L[i].do # "set"
    BY <2>2
  <2> QED BY <1>1, <2>3, <2>4 DEF L, Pending
<1> QED
  BY <1>2, <1>3

\* The other programs only have to end with the commit.
LEMMA OthersInSequence ==
  ASSUME NEW c \in Calls,
         c.op \in {"submit", "approve", "cancel", "delete_draft", "complete_wip",
                   "abort_wip", "create_dispatch", "start", "report_exception",
                   "abort_dispatch"}
  PROVE  OnlyLast(Program(c))
<1>1. /\ \A what, on : Check(what, on).do # "commit" \/ what = "commit"
      /\ \A row : Lock(row).do # "commit"
      /\ \A row, action : Move(row, action).do # "commit"
      /\ \A row, value : Set(row, value).do # "commit"
      /\ \A w, d : [do |-> "dispatch", on |-> w, new |-> d].do # "commit"
  BY CheckFields, LockFields
<1>2. CASE c.op \in {"submit", "approve", "cancel"}
  <2>1. Program(c) = <<Lock(Request(c.on)), Move(Request(c.on), c.op), Commit>>
    BY <1>2 DEF Program, RequestAction
  <2> QED BY <1>1, <2>1, LastOf
<1>3. CASE c.op = "delete_draft"
  <2>1. Program(c) = <<Check("draft", c.on), Check("deletesamples", c.on),
                       Lock(Request(c.on)), Set(Request(c.on), "none"), Commit>>
    BY <1>3 DEF Program, DeleteDraft
  <2> QED BY <1>1, <2>1, LastOf
<1>4. CASE c.op = "complete_wip"
  <2>1. Program(c) = <<Lock(Wip(c.on)), Check("alldone", c.on),
                       Move(Wip(c.on), "complete"), Check("cascade", c.on), Commit>>
    BY <1>4 DEF Program, CompleteWip
  <2> QED BY <1>1, <2>1, LastOf
<1>5. CASE c.op = "abort_wip"
  <2>1. Program(c) = <<Lock(Wip(c.on)), Move(Wip(c.on), "abort"),
                       Check("except", c.on), Commit>>
    BY <1>5 DEF Program, AbortWip
  <2> QED BY <1>1, <2>1, LastOf
<1>6. CASE c.op = "create_dispatch"
  <2> DEFINE w == WipOf[c.on]
  <2>1. Program(c) = <<Lock(Wip(w)), Lock(Type(TypeOf[w])), Check("alldone", w),
                       [do |-> "dispatch", on |-> w, new |-> c.on], Commit>>
    BY <1>6 DEF Program, CreateDispatch
  <2> QED BY <1>1, <2>1, LastOf
<1>7. CASE c.op = "start"
  <2>1. Program(c) = <<Lock(Dispatch(c.on)), Check("startable", c.on),
                       Set(Dispatch(c.on), "running"), Commit>>
    BY <1>7 DEF Program, StartDispatch
  <2> QED BY <1>1, <2>1, LastOf
<1>8. CASE c.op = "report_exception"
  <2>1. Program(c) = <<Lock(Dispatch(c.on)),
                       Move(Dispatch(c.on), "report_exception"), Commit>>
    BY <1>8 DEF Program, ReportException
  <2> QED BY <1>1, <2>1, LastOf
<1>9. CASE c.op = "abort_dispatch"
  <2>1. Program(c) = <<Lock(Dispatch(c.on)), Move(Dispatch(c.on), "abort"),
                       Lock(Wip(WipOf[c.on])), Check("autocomplete", WipOf[c.on]),
                       Commit>>
    BY <1>9 DEF Program, AbortDispatch
  <2> QED BY <1>1, <2>1, LastOf
<1> QED
  BY <1>2, <1>3, <1>4, <1>5, <1>6, <1>7, <1>8, <1>9

\* A call that begins is careful: it has written nothing yet, and its program
\* has the checks in their places.
LEMMA StartsCareful ==
  ASSUME NEW c \in Calls, NEW v
  PROVE  Careful(c, v, Program(c), <<>>, {})
<1> DEFINE L == Program(c)
           Run   == {"unload", "record_result", "equipment_result", "finalize"}
           Batch == {"create_wip", "add_samples"}
           Other == {"submit", "approve", "cancel", "delete_draft",
                     "complete_wip", "abort_wip", "create_dispatch", "start",
                     "report_exception", "abort_dispatch"}
<1>1. DOMAIN <<>> = {}
  OBVIOUS
<1>2. c.op \in Run \cup Settling \cup {"ship", "redispatch"} \cup Batch \cup Other
  BY DEF Calls, RunOps, Settling
<1>3. OnlyLast(L)
  <2> HIDE DEF L
  <2>1. CASE c.op \in Run
    BY <2>1, RunsInSequence DEF L
  <2>2. CASE c.op \in Settling
    BY <2>2, SettlesInSequence DEF L
  <2>3. CASE c.op = "ship"
    BY <2>3, ShipsInSequence DEF L
  <2>4. CASE c.op = "redispatch"
    BY <2>4, ReplacesInSequence DEF L
  <2>5. CASE c.op \in Batch
    BY <2>5, BatchesInSequence DEF L
  <2>6. CASE c.op \in Other
    BY <2>6, OthersInSequence DEF L
  <2> QED BY <1>2, <2>1, <2>2, <2>3, <2>4, <2>5, <2>6
<1>4. InSequence(c, L, <<>>)
  <2> HIDE DEF L
  <2>1. c.op \in Settling =>
          Follows(L, Move(Sample(c.on), c.op), Check("received", Owner[c.on]))
    BY SettlesInSequence DEF L
  <2>2. c.op \in {"void", "return"} =>
          Follows(L, Check("received", Owner[c.on]), Check("completed", Owner[c.on]))
    BY SettlesInSequence DEF L, Settling
  <2>3. c.op \in Unloading =>
          Follows(L, Move(Dispatch(c.on), "unload"), Check("roll", c.on))
    BY RunsInSequence DEF L, Unloading
  <2>4. c.op = "ship" => \A i \in 1..Len(L) :
          L[i].do \in {"shipsamples", "setif"} =>
            WrittenFirst(L, <<>>, i, Request(c.on), Move(Request(c.on), "ship"))
    BY ShipsInSequence DEF L
  <2>5. c.op = "redispatch" => \A i \in 1..Len(L) :
          L[i].do = "setif" =>
            WrittenFirst(L, <<>>, i, Dispatch(c.on),
                         Move(Dispatch(c.on), "redispatch"))
    BY ReplacesInSequence DEF L
  <2> QED BY <1>3, <2>1, <2>2, <2>3, <2>4, <2>5 DEF InSequence, OnlyLast
<1>5. Joins(c, v, L, <<>>)
  <2> HIDE DEF L
  <2>1. c.op \in Batch => \A s : ~Pending(L, Set(Sample(s), "processing"))
    BY BatchesInSequence DEF L
  <2> QED BY <1>1, <2>1 DEF Joins
<1> HIDE DEF L
<1>6. Written(c, v, <<>>) /\ Waits(v, L, <<>>, {})
  BY <1>1 DEF Written, Waits
<1>7. Verdicts(c, v, L, <<>>, {}) /\ Measures(c, v, L, <<>>, {})
  BY <1>1 DEF Verdicts, Measures
<1> QED
  BY <1>4, <1>5, <1>6, <1>7 DEF Careful, L

-----------------------------------------------------------------------------
\* The invariant.

\* The tables that the calls find, and the programs they start with, satisfy
\* the invariant.
THEOREM CascadeInit == Init => CascadeInv
<1> SUFFICES ASSUME Init PROVE CascadeInv
  OBVIOUS
<1>1. /\ db \in StartDbs /\ calls \in Races
      /\ left = [c \in calls |-> Program(c)]
      /\ mine = [c \in calls |-> <<>>] /\ held = [c \in calls |-> {}]
  BY DEF Init
<1>2. calls \subseteq Calls
  BY <1>1, RacesAssumption
<1>3. NoneWaits(db) /\ ShippedWhole(db) /\ RunsHaveWips(db)
  BY <1>1, StartAssumption DEF Consistent
<1>4. EarlyWhole(db)
  BY <1>3 DEF ShippedWhole, EarlyWhole
<1>5. ASSUME NEW c \in calls PROVE Careful(c, db, left[c], mine[c], held[c])
  BY <1>1, <1>2, StartsCareful
<1> QED
  BY <1>3, <1>4, <1>5 DEF CascadeInv

\* The transaction of call c ends, and the others go on over the tables as it
\* leaves them.
LEMMA ReleaseCareful ==
  ASSUME TxInv, CascadeInv, NEW c \in calls, Release(c), UNCHANGED calls,
         EarlyWhole(db'), RunsHaveWips(db'), NoneWaits(db'),
         \A o \in calls \ {c} : Careful(o, db', left[o], mine[o], held[o])
  PROVE  CascadeInv'
<1>1. TypeOK /\ c \in Calls
  BY DEF TxInv, CallInv, CallTypeOK
<1>2. /\ left'[c] = <<>> /\ held'[c] = {} /\ mine'[c] = <<>>
      /\ \A o \in calls : o # c => /\ left'[o] = left[o] /\ held'[o] = held[o]
                                  /\ mine'[o] = mine[o]
  BY <1>1 DEF TypeOK, Release
<1>3. ASSUME NEW o \in calls
      PROVE  Careful(o, db', left'[o], mine'[o], held'[o])
  BY <1>1, <1>2, EndedCareful
<1> QED
  BY <1>3 DEF CascadeInv

\* Every step keeps the invariant.
LEMMA KeepsCascades ==
  ASSUME TxInv, TxInv', CascadeInv, [Next]_txVars
  PROVE  CascadeInv'
<1>1. CASE UNCHANGED txVars
  BY <1>1 DEF txVars, CascadeInv
<1>2. ASSUME NEW c \in calls, Step(c) PROVE CascadeInv'
  <2>0. left[c] # <<>> /\ UNCHANGED calls
    BY <1>2 DEF Step
  <2>1. CASE Refuse(c)
    BY <2>0, <2>1, ReleaseCareful DEF Refuse, CascadeInv
  <2>2. CASE Head(left[c]).do = "commit" /\ CommitTransaction(c)
    <3>1. Release(c) /\ db' = Over(mine[c], db)
      BY <2>2 DEF CommitTransaction, View
    <3>2. Commits(c, db, left[c], mine[c], held[c])
      BY <2>0, <2>2, HeadIs DEF Commits, CascadeInv
    <3>3. EarlyWhole(db) /\ RunsHaveWips(db) /\ NoneWaits(db)
      BY DEF CascadeInv
    <3>4. EarlyWhole(db') /\ RunsHaveWips(db') /\ NoneWaits(db')
      BY <3>1, <3>2, <3>3, CommitKeepsEarly, CommitKeepsRuns, CommitKeepsNoneWaits
    <3>5. ASSUME NEW o \in calls \ {c}
          PROVE  Careful(o, db', left[o], mine[o], held[o])
      <4>1. CallInv(o, db, left[o], mine[o], held[o])
        BY DEF TxInv
      <4>2. Exclude(held[o], held[c])
        BY DEF TxInv, LocksExclude, Exclude
      <4>3. Careful(o, db, left[o], mine[o], held[o])
        BY DEF CascadeInv
      <4> QED BY <3>1, <3>2, <3>3, <4>1, <4>2, <4>3, OthersCareful
    <3> QED BY <2>0, <3>1, <3>4, <3>5, ReleaseCareful
  <2>3. CASE GoesOn(c)
    <3>1. PICK w, F :
            /\ Goes(c, db, left[c], mine[c], held[c], w, F, mine'[c], held'[c])
            /\ left'[c] = F \o Tail(left[c])
      BY <2>3 DEF GoesOn
    <3>2. /\ db' = db
          /\ \A o \in calls : o # c => /\ left'[o] = left[o] /\ mine'[o] = mine[o]
                                      /\ held'[o] = held[o]
      BY <2>3 DEF GoesOn
    <3>3. EarlyWhole(db') /\ RunsHaveWips(db') /\ NoneWaits(db')
      BY <3>2 DEF CascadeInv
    <3>4. Careful(c, db', left'[c], mine'[c], held'[c])
      BY <3>1, <3>2, KeepsCareful DEF CascadeInv
    <3>5. ASSUME NEW o \in calls, o # c
          PROVE  Careful(o, db', left'[o], mine'[o], held'[o])
      BY <3>2, <3>5 DEF CascadeInv
    <3> QED BY <2>0, <3>3, <3>4, <3>5 DEF CascadeInv
  <2> QED BY <1>2, <2>1, <2>2, <2>3, StepGoes
<1> QED
  BY <1>1, <1>2 DEF Next

\* The two invariants hold in every state.
THEOREM CascadeInvariant == Spec => [](TxInv /\ CascadeInv)
<1>1. TxInv /\ CascadeInv /\ [Next]_txVars => (TxInv /\ CascadeInv)'
  BY StepInv, KeepsCascades
<1> QED BY InitInv, CascadeInit, <1>1, PTL DEF Spec

-----------------------------------------------------------------------------
\* What the invariant says of the cascades.

\* However many calls receive, void, return or measure the last wafers of a
\* request side by side, no committed state has a request that a cascade should
\* have moved: one of them, the last to commit, sees what the others wrote.
THEOREM NoRequestWaits == Spec => []CascadeSeesAll
<1>1. CascadeInv => CascadeSeesAll
  BY DEF CascadeInv, CascadeSeesAll
<1> QED BY <1>1, CascadeInvariant, PTL

\* What changes the tables is the commit of a call that has written the rows
\* that change.
LEMMA WhoCommits ==
  ASSUME TxInv, CascadeInv, Next, NEW row \in Rows, db'[row] # db[row]
  PROVE  \E c \in calls :
            /\ Commits(c, db, left[c], mine[c], held[c])
            /\ db' = Over(mine[c], db)
            /\ row \in DOMAIN mine[c]
<1>1. PICK c \in calls : Step(c)
  BY DEF Next
<1>2. Head(left[c]).do = "commit" /\ CommitTransaction(c) /\ left[c] # <<>>
  BY <1>1, OnlyCommitsChange DEF Step
<1>3. db' = Over(mine[c], db)
  BY <1>2 DEF CommitTransaction, View
<1>4. Commits(c, db, left[c], mine[c], held[c])
  BY <1>2, HeadIs DEF Commits, CascadeInv
<1>5. \A y \in Rows \ DOMAIN mine[c] : db'[y] = db[y]
  BY <1>3, <1>4, CommitFacts
<1> QED
  BY <1>3, <1>4, <1>5

\* Whoever unloads a run, and whatever wafers join its batch meanwhile, every
\* wafer of the batch has that run's verdict when the unload is committed.
THEOREM EveryWaferGetsItsVerdict == Spec => BatchGetsVerdict
<1> DEFINE Verdict ==
        \A d \in Dispatches :
          /\ db[Dispatch(d)] \in {"dispatched", "running"}
          /\ db'[Dispatch(d)] \in {"unloaded", "completed"}
          => \A s \in MembersOf(db', WipOf[d]) :
                db'[Progress(s, TypeOf[WipOf[d]])] = d
<1>1. TxInv /\ CascadeInv /\ [Next]_txVars => [Verdict]_txVars
  <2> SUFFICES ASSUME TxInv, CascadeInv, Next, NEW d \in Dispatches,
                      db[Dispatch(d)] \in {"dispatched", "running"},
                      db'[Dispatch(d)] \in {"unloaded", "completed"},
                      NEW s \in MembersOf(db', WipOf[d])
               PROVE  db'[Progress(s, TypeOf[WipOf[d]])] = d
    BY DEF txVars
  <2> DEFINE row == Dispatch(d)
             w   == WipOf[d]
             p   == Progress(s, TypeOf[w])
  <2>1. /\ row \in Rows /\ row[1] = "dispatch" /\ row[2] = d
        /\ s \in Samples /\ w \in Wips /\ TypeOf[w] \in Types
        /\ p \in Rows /\ p[1] = "progress"
        /\ Member(w, s) \in Rows /\ Member(w, s)[1] = "member"
    BY TablesAssumption, RowFacts DEF MembersOf
  <2> HIDE DEF row, p
  <2>2. PICK c \in calls : /\ Commits(c, db, left[c], mine[c], held[c])
                           /\ db' = Over(mine[c], db)
                           /\ row \in DOMAIN mine[c]
    BY <2>1, WhoCommits DEF row
  <2>3. /\ c \in Calls
        /\ \A y \in DOMAIN mine[c] : mine[c][y] \in WritesOf(c, y)
        /\ \A y \in DOMAIN mine[c] : db'[y] = mine[c][y]
        /\ \A y \in Rows \ DOMAIN mine[c] : db'[y] = db[y]
    BY <2>2, CommitFacts
  <2>4. row = Dispatch(c.on) /\ c.op \in Unloading \cup Recording
    <3>1. mine[c][row] \in WritesOf(c, row) /\ mine[c][row] \in {"unloaded", "completed"}
      BY <2>2, <2>3 DEF row
    <3> QED BY <2>1, <2>3, <3>1, WhoWrites
  <2>5. c.on = d
    BY <2>4 DEF row, Dispatch
  <2>6. s \in MembersOf(db, w)
    <3>1. db'[Member(w, s)] = "in"
      BY DEF MembersOf
    <3>2. Member(w, s) \notin DOMAIN mine[c]
      <4> SUFFICES ASSUME Member(w, s) \in DOMAIN mine[c] PROVE FALSE
        OBVIOUS
      <4>1. mine[c][Member(w, s)] \in WritesOf(c, Member(w, s))
        BY <2>3
      <4>2. c.op \in {"create_wip", "add_samples"}
        BY <2>1, <2>3, <4>1, WhoWrites
      <4> QED BY <2>4, <4>2 DEF Unloading, Recording
    <3> QED BY <2>1, <2>3, <3>1, <3>2 DEF MembersOf
  <2>7. p \in DOMAIN mine[c]
    <3>1. Dispatch(c.on) \in DOMAIN mine[c] /\ db[Dispatch(c.on)] \in {"dispatched", "running"}
      BY <2>2, <2>4 DEF row
    <3> QED BY <2>2, <2>4, <2>5, <2>6, <3>1, CommitLocks DEF p
  <2>8. mine[c][p] \in WritesOf(c, p)
    BY <2>3, <2>7
  <2>9. mine[c][p] = c.on
    BY <2>1, <2>4, <2>8 DEF WritesOf, Unloading, Recording
  <2> QED BY <2>3, <2>5, <2>7, <2>9 DEF p
<1> QED BY <1>1, CascadeInvariant, PTL DEF Spec, BatchGetsVerdict

\* The run that measures a wafer's last experiment completes the wafer, even
\* when the runs of several batches record its experiments side by side.
THEOREM LastMeasureCompletes == Spec => LastRunCompletesWafer
<1> DEFINE Completed ==
        \A s \in Samples :
          /\ db[Sample(s)] = "processing"
          /\ ~Measured(db, s) /\ Measured(db', s)
          => db'[Sample(s)] = "completed"
<1>1. TxInv /\ CascadeInv /\ [Next]_txVars => [Completed]_txVars
  <2> SUFFICES ASSUME TxInv, CascadeInv, Next, NEW s \in Samples,
                      db[Sample(s)] = "processing",
                      ~Measured(db, s), Measured(db', s)
               PROVE  db'[Sample(s)] = "completed"
    BY DEF txVars
  <2>1. PICK t \in Types : db[Progress(s, t)] \notin Dispatches
    BY DEF Measured
  <2> DEFINE p == Progress(s, t)
  <2>2. /\ p \in Rows /\ p[1] = "progress" /\ db'[p] \in Dispatches
        /\ db[p] \notin Dispatches
        /\ Sample(s) \in Rows /\ Sample(s)[1] = "sample"
    BY <2>1, RowFacts DEF Measured
  <2> HIDE DEF p
  <2>3. PICK c \in calls : /\ Commits(c, db, left[c], mine[c], held[c])
                           /\ db' = Over(mine[c], db)
                           /\ p \in DOMAIN mine[c]
    BY <2>2, WhoCommits
  <2>4. /\ c \in Calls
        /\ \A y \in DOMAIN mine[c] : mine[c][y] \in WritesOf(c, y)
        /\ \A y \in DOMAIN mine[c] : db'[y] = mine[c][y]
        /\ \A y \in Rows \ DOMAIN mine[c] : db'[y] = db[y]
    BY <2>3, CommitFacts
  <2>5. c.op \in Unloading
    <3>1. mine[c][p] \in WritesOf(c, p) /\ mine[c][p] \in Dispatches
      BY <2>2, <2>3, <2>4
    <3>2. mine[c][p] \notin {"pending", "in_progress"}
      BY <3>1, TablesAssumption
    <3> QED BY <2>2, <2>4, <3>1, <3>2, WhoWrites
  <2>6. ~(db'[Sample(s)] = "processing" /\ Measured(db', s))
    BY <2>3, <2>5, CommitLocks DEF p
  <2>7. Sample(s) \in DOMAIN mine[c]
    BY <2>2, <2>4, <2>6
  <2>8. mine[c][Sample(s)] \in WritesOf(c, Sample(s))
    BY <2>4, <2>7
  <2>9. mine[c][Sample(s)] = "completed"
    BY <2>2, <2>5, <2>8 DEF WritesOf, Unloading, Cascading
  <2> QED BY <2>4, <2>7, <2>9
<1> QED BY <1>1, CascadeInvariant, PTL DEF Spec, LastRunCompletesWafer
-----------------------------------------------------------------------------
\* The order of the locks.  Rows of dispatches are locked before rows of WIPs,
\* these before types, and these before wafers and requests; a batch takes
\* wafers of requests that are in the laboratory, a handler about a request
\* takes that request and its wafers.

Requesting == {"submit", "approve", "cancel", "ship", "delete_draft"} \cup Settling

\* The request that a call of Requesting is about.
RequestOf(c) == IF c.op \in Settling THEN Owner[c.on] ELSE c.on

OfRequest(row, r) == row = Request(r) \/ \E s \in SamplesOf(r) : row = Sample(s)

\* A row of a request that has reached the laboratory.
LabRow(v, row) == \E r \in Requests : OfRequest(row, r) /\ Later(v, r)

Earlier(table) ==
    CASE table = "dispatch" -> {}
      [] table = "wip"      -> {"dispatch"}
      [] table = "type"     -> {"dispatch", "wip"}

\* The lock that statement i asks for is held, or asked for before.
Already(L, H, i) ==
    \/ <<L[i].row, "update">> \in H
    \/ \E j \in 1..(i - 1) : L[j] = Lock(L[i].row)

\* Only rows of earlier tables are held or asked for before statement i, and
\* nothing before it can put other locks ahead.
InTurn(L, H, i) ==
    /\ \A h \in H : h[1][1] \in Earlier(L[i].row[1])
    /\ \A j \in 1..(i - 1) :
          \/ L[j].do \in {"running", "move"}
          \/ L[j].do = "lock" /\ L[j].row[1] \in Earlier(L[i].row[1])

\* A batch is about wafers that are in the laboratory.
LabStatement(v, st) ==
    /\ st.do = "lock" => LabRow(v, st.row)
    /\ st.do = "trycomplete" => Later(v, Owner[st.on])
    /\ st.do = "set" /\ st.row[1] = "member" => Later(v, Owner[st.row[3]])

BatchOrder(c, v, L, M, H) ==
    /\ \A i \in 1..Len(L) :
          \/ LabStatement(v, L[i])
          \/ /\ L[i].do = "lock" /\ L[i].row[1] \in {"dispatch", "wip", "type"}
             /\ Already(L, H, i) \/ InTurn(L, H, i)
    /\ c.op = "create_wip" => \A i \in 1..Len(L) :
          L[i].do = "validate" => i = 1 /\ H = {}
    /\ \A w \in Wips, s \in Samples :
          Member(w, s) \in DOMAIN M => Later(v, Owner[s])

\* A type is referred to by a call that has just begun the request's work:
\* it has the request's lock, and the others still see a request on its way.
Begins(c, v, H) ==
    /\ v[Request(RequestOf(c))] = "sample_shipped"
    /\ HasLock(H, Request(RequestOf(c)))

OwnStatement(c, v, H, st) ==
    st.do = "lock" =>
        \/ OfRequest(st.row, RequestOf(c))
        \/ st.row[1] = "type" /\ st.mode = "share" /\ Begins(c, v, H)

OwnLock(c, h) ==
    \/ OfRequest(h[1], RequestOf(c))
    \/ h[1][1] = "type" /\ h[2] = "share"

RequestOrder(c, v, L, H) ==
    /\ \A i \in 1..Len(L) : OwnStatement(c, v, H, L[i])
    /\ \A h \in H : OwnLock(c, h)

LockOrder(c, v, L, M, H) ==
    IF c.op \in Requesting THEN RequestOrder(c, v, L, H)
                           ELSE BatchOrder(c, v, L, M, H)

\* The wafers of a batch are in the laboratory.
BatchesStay(v) ==
    \A w \in Wips : \A s \in MembersOf(v, w) : Later(v, Owner[s])

OrderInv ==
    /\ BatchesStay(db)
    /\ \A c \in calls : LockOrder(c, db, left[c], mine[c], held[c])

\* A lock in its place stays in its place when the head of the list goes.
LEMMA InTurnSplice ==
  ASSUME NEW S, NEW L \in Seq(S), L # <<>>, L[1].do # "lock", NEW H,
         NEW F \in Seq(S), F # <<>> => L[1].do \notin {"running", "move"},
         NEW i \in 2..Len(L), Already(L, H, i) \/ InTurn(L, H, i)
  PROVE  LET N == F \o Tail(L)
             k == Len(F) + i - 1
         IN Already(N, H, k) \/ InTurn(N, H, k)
<1> DEFINE N == F \o Tail(L)
           k == Len(F) + i - 1
<1>1. /\ Len(F) \in Nat /\ Len(L) \in Nat
      /\ \A j \in 2..Len(L) :
            Len(F) + j - 1 \in 1..Len(N) /\ N[Len(F) + j - 1] = L[j]
  BY Splice
<1>2. N[k] = L[i] /\ k \in Nat
  BY <1>1
<1>3. ASSUME NEW j \in 1..(i - 1), j # 1
      PROVE  Len(F) + j - 1 \in 1..(k - 1) /\ N[Len(F) + j - 1] = L[j]
  BY <1>1, <1>3
<1>0. Len(F) = 0 => k = i - 1
  OBVIOUS
<1> HIDE DEF N, k
<1> SUFFICES Already(N, H, k) \/ InTurn(N, H, k)
  BY DEF N, k
<1>4. CASE Already(L, H, i)
  <2>1. CASE <<L[i].row, "update">> \in H
    BY <1>2, <2>1 DEF Already
  <2>2. CASE <<L[i].row, "update">> \notin H
    <3>1. PICK j \in 1..(i - 1) : L[j] = Lock(L[i].row)
      BY <1>4, <2>2 DEF Already
    <3>2. j # 1
      BY <3>1, LockFields
    <3> QED BY <1>2, <1>3, <3>1, <3>2 DEF Already
  <2> QED BY <2>1, <2>2
<1>5. CASE InTurn(L, H, i)
  <2>1. 1 \in 1..(i - 1)
    OBVIOUS
  <2>2. L[1].do \in {"running", "move"}
    BY <1>5, <2>1 DEF InTurn
  <2>3. F = <<>> /\ Len(F) = 0
    BY <2>2
  <2>4. \A j \in 1..(k - 1) : j + 1 \in 1..(i - 1) /\ N[j] = L[j + 1]
    <3> TAKE j \in 1..(k - 1)
    <3>1. j + 1 \in 2..Len(L) /\ j + 1 \in 1..(i - 1)
      BY <1>0, <2>3
    <3>2. N[Len(F) + (j + 1) - 1] = L[j + 1]
      BY <1>1, <3>1
    <3> QED BY <2>3, <3>1, <3>2
  <2>5. InTurn(N, H, k)
    BY <1>2, <1>5, <2>4 DEF InTurn
  <2> QED BY <2>5
<1> QED
  BY <1>4, <1>5

LEMMA InTurnAcquire ==
  ASSUME NEW S, NEW L \in Seq(S), L # <<>>, L[1].do = "lock", NEW H,
         NEW i \in 2..Len(L), Already(L, H, i) \/ InTurn(L, H, i)
  PROVE  LET N == Tail(L)
             G == H \cup {<<L[1].row, L[1].mode>>}
         IN Already(N, G, i - 1) \/ InTurn(N, G, i - 1)
<1> DEFINE N == Tail(L)
           G == H \cup {<<L[1].row, L[1].mode>>}
<1>1. \A j \in 2..Len(L) : j - 1 \in 1..Len(N) /\ N[j - 1] = L[j]
  BY AfterHead
<1>2. N[i - 1] = L[i]
  BY <1>1
<1> HIDE DEF N, G
<1> SUFFICES Already(N, G, i - 1) \/ InTurn(N, G, i - 1)
  BY DEF N, G
<1>3. CASE Already(L, H, i)
  <2>1. CASE <<L[i].row, "update">> \in H
    BY <1>2, <2>1 DEF Already, G
  <2>2. CASE <<L[i].row, "update">> \notin H
    <3>1. PICK j \in 1..(i - 1) : L[j] = Lock(L[i].row)
      BY <1>3, <2>2 DEF Already
    <3>2. CASE j = 1
      <4>1. <<L[i].row, "update">> = <<L[1].row, L[1].mode>>
        BY <3>1, <3>2 DEF Lock
      <4> QED BY <1>2, <4>1 DEF Already, G
    <3>3. CASE j # 1
      <4>1. j - 1 \in 1..(i - 1 - 1) /\ N[j - 1] = L[j]
        BY <1>1, <3>3
      <4> QED BY <1>2, <3>1, <4>1 DEF Already
    <3> QED BY <3>2, <3>3
  <2> QED BY <2>1, <2>2
<1>4. CASE InTurn(L, H, i)
  <2>1. L[1].row[1] \in Earlier(L[i].row[1])
    <3>1. 1 \in 1..(i - 1)
      OBVIOUS
    <3> QED BY <1>4, <3>1 DEF InTurn
  <2>2. \A h \in G : h[1][1] \in Earlier(L[i].row[1])
    BY <1>4, <2>1 DEF InTurn, G
  <2>3. \A j \in 1..(i - 1 - 1) : j + 1 \in 1..(i - 1) /\ N[j] = L[j + 1]
    <3> TAKE j \in 1..(i - 1 - 1)
    <3>1. j + 1 \in 2..Len(L) /\ (j + 1) - 1 = j /\ j + 1 \in 1..(i - 1)
      OBVIOUS
    <3> QED BY <1>1, <3>1
  <2> QED BY <1>2, <1>4, <2>2, <2>3 DEF InTurn
<1> QED
  BY <1>3, <1>4

LEMMA BatchSplice ==
  ASSUME NEW c, NEW v, NEW S, NEW L \in Seq(S), L # <<>>, L[1].do # "lock",
         NEW F \in Seq(S), F # <<>> => L[1].do \notin {"running", "move"},
         NEW M, NEW N, NEW H, BatchOrder(c, v, L, M, H),
         \A k \in 1..Len(F) :
            /\ F[k].do # "validate"
            /\ \/ LabStatement(v, F[k])
               \/ k = 1 /\ H = {} /\ F[k].do = "lock" /\ F[k].row[1] = "type",
         \A w \in Wips, s \in Samples : Member(w, s) \in DOMAIN N =>
            Member(w, s) \in DOMAIN M \/ Later(v, Owner[s])
  PROVE  BatchOrder(c, v, F \o Tail(L), N, H)
<1> DEFINE K == F \o Tail(L)
<1>1. /\ Len(F) \in Nat /\ Len(L) \in Nat
      /\ \A i \in 1..Len(F) : K[i] = F[i]
      /\ \A i \in 1..Len(K) :
            \/ i \in 1..Len(F)
            \/ i - Len(F) + 1 \in 2..Len(L) /\ K[i] = L[i - Len(F) + 1]
  BY Splice
<1>2. ASSUME NEW i \in 2..Len(L), Already(L, H, i) \/ InTurn(L, H, i)
      PROVE  Already(K, H, Len(F) + i - 1) \/ InTurn(K, H, Len(F) + i - 1)
  BY <1>2, InTurnSplice
<1> HIDE DEF K
<1>3. ASSUME NEW i \in 1..Len(K)
      PROVE  \/ LabStatement(v, K[i])
             \/ /\ K[i].do = "lock" /\ K[i].row[1] \in {"dispatch", "wip", "type"}
                /\ Already(K, H, i) \/ InTurn(K, H, i)
  <2>1. CASE i \in 1..Len(F)
    <3>1. K[i] = F[i]
      BY <1>1, <2>1
    <3>2. CASE LabStatement(v, F[i])
      BY <3>1, <3>2
    <3>3. CASE i = 1 /\ H = {} /\ F[i].do = "lock" /\ F[i].row[1] = "type"
      <4>1. InTurn(K, H, i)
        BY <3>3 DEF InTurn
      <4> QED BY <3>1, <3>3, <4>1
    <3> QED BY <2>1, <3>2, <3>3
  <2>2. CASE i \notin 1..Len(F)
    <3> DEFINE k == i - Len(F) + 1
    <3>1. k \in 2..Len(L) /\ K[i] = L[k] /\ Len(F) + k - 1 = i
      BY <1>1, <2>2
    <3> HIDE DEF k
    <3>2. \/ LabStatement(v, L[k])
          \/ /\ L[k].do = "lock" /\ L[k].row[1] \in {"dispatch", "wip", "type"}
             /\ Already(L, H, k) \/ InTurn(L, H, k)
      <4>1. k \in 1..Len(L)
        BY <1>1, <3>1
      <4> QED BY <4>1 DEF BatchOrder
    <3> QED BY <1>2, <3>1, <3>2
  <2> QED BY <2>1, <2>2
<1>4. ASSUME c.op = "create_wip", NEW i \in 1..Len(K), K[i].do = "validate"
      PROVE  i = 1 /\ H = {}
  <2>1. i \notin 1..Len(F)
    BY <1>1, <1>4
  <2>2. i - Len(F) + 1 \in 2..Len(L) /\ L[i - Len(F) + 1].do = "validate"
    BY <1>1, <1>4, <2>1
  <2>3. \A k \in 2..Len(L) : L[k].do # "validate"
    <3>1. \A k \in 1..Len(L) : L[k].do = "validate" => k = 1
      BY <1>4 DEF BatchOrder
    <3> QED BY <1>1, <3>1
  <2> QED BY <2>2, <2>3
<1>5. \A w \in Wips, s \in Samples : Member(w, s) \in DOMAIN N => Later(v, Owner[s])
  BY DEF BatchOrder
<1>6. BatchOrder(c, v, K, N, H)
  BY <1>3, <1>4, <1>5 DEF BatchOrder
<1> QED BY <1>6 DEF K

LEMMA BatchAcquire ==
  ASSUME NEW c, NEW v, NEW S, NEW L \in Seq(S), L # <<>>, L[1].do = "lock",
         NEW M, NEW H, BatchOrder(c, v, L, M, H)
  PROVE  BatchOrder(c, v, Tail(L), M, H \cup {<<L[1].row, L[1].mode>>})
<1> DEFINE K == Tail(L)
           G == H \cup {<<L[1].row, L[1].mode>>}
<1>1. /\ Len(L) \in Nat
      /\ \A i \in 1..Len(K) : i + 1 \in 2..Len(L) /\ K[i] = L[i + 1]
  BY AfterHead
<1>2. ASSUME NEW i \in 2..Len(L), Already(L, H, i) \/ InTurn(L, H, i)
      PROVE  Already(K, G, i - 1) \/ InTurn(K, G, i - 1)
  BY <1>2, InTurnAcquire
<1> HIDE DEF K, G
<1>3. ASSUME NEW i \in 1..Len(K)
      PROVE  \/ LabStatement(v, K[i])
             \/ /\ K[i].do = "lock" /\ K[i].row[1] \in {"dispatch", "wip", "type"}
                /\ Already(K, G, i) \/ InTurn(K, G, i)
  <2> DEFINE k == i + 1
  <2>1. k \in 2..Len(L) /\ K[i] = L[k] /\ k - 1 = i /\ k \in 1..Len(L)
    BY <1>1
  <2> HIDE DEF k
  <2>2. \/ LabStatement(v, L[k])
        \/ /\ L[k].do = "lock" /\ L[k].row[1] \in {"dispatch", "wip", "type"}
           /\ Already(L, H, k) \/ InTurn(L, H, k)
    BY <2>1 DEF BatchOrder
  <2> QED BY <1>2, <2>1, <2>2
<1>4. ASSUME c.op = "create_wip", NEW i \in 1..Len(K), K[i].do = "validate"
      PROVE  i = 1 /\ G = {}
  <2>1. i + 1 \in 1..Len(L) /\ L[i + 1].do = "validate" /\ i + 1 # 1
    BY <1>1, <1>4
  <2> QED BY <1>4, <2>1 DEF BatchOrder
<1>5. \A w \in Wips, s \in Samples : Member(w, s) \in DOMAIN M => Later(v, Owner[s])
  BY DEF BatchOrder
<1>6. BatchOrder(c, v, K, M, G)
  BY <1>3, <1>4, <1>5 DEF BatchOrder
<1> QED BY <1>6 DEF K, G

LEMMA RequestSplice ==
  ASSUME NEW c, NEW v, NEW S, NEW L \in Seq(S), L # <<>>, NEW F \in Seq(S),
         NEW H, RequestOrder(c, v, L, H),
         \A k \in 1..Len(F) : OwnStatement(c, v, H, F[k])
  PROVE  RequestOrder(c, v, F \o Tail(L), H)
<1> DEFINE K == F \o Tail(L)
<1>1. /\ Len(F) \in Nat /\ Len(L) \in Nat
      /\ \A i \in 1..Len(F) : K[i] = F[i]
      /\ \A i \in 1..Len(K) :
            \/ i \in 1..Len(F)
            \/ i - Len(F) + 1 \in 2..Len(L) /\ K[i] = L[i - Len(F) + 1]
  BY Splice
<1> HIDE DEF K
<1>2. ASSUME NEW i \in 1..Len(K) PROVE OwnStatement(c, v, H, K[i])
  <2>1. CASE i \in 1..Len(F)
    BY <1>1, <2>1
  <2>2. CASE i \notin 1..Len(F)
    <3>1. i - Len(F) + 1 \in 1..Len(L) /\ K[i] = L[i - Len(F) + 1]
      BY <1>1, <2>2
    <3> QED BY <3>1 DEF RequestOrder
  <2> QED BY <2>1, <2>2
<1>3. RequestOrder(c, v, K, H)
  BY <1>2 DEF RequestOrder
<1> QED BY <1>3 DEF K

LEMMA RequestAcquire ==
  ASSUME NEW c, NEW v, NEW S, NEW L \in Seq(S), L # <<>>, L[1].do = "lock",
         NEW H, RequestOrder(c, v, L, H)
  PROVE  RequestOrder(c, v, Tail(L), H \cup {<<L[1].row, L[1].mode>>})
<1> DEFINE K == Tail(L)
           h == <<L[1].row, L[1].mode>>
           G == H \cup {h}
<1>1. /\ \A i \in 1..Len(K) : i + 1 \in 1..Len(L) /\ K[i] = L[i + 1]
      /\ 1 \in 1..Len(L)
  BY AfterHead
<1>2. \A row : HasLock(H, row) => HasLock(G, row)
  BY DEF HasLock
<1>3. OwnLock(c, h)
  <2>1. OwnStatement(c, v, H, L[1])
    BY <1>1 DEF RequestOrder
  <2> QED BY <2>1 DEF OwnStatement, OwnLock
<1> HIDE DEF K, h
<1>4. \A x \in G : OwnLock(c, x)
  BY <1>3 DEF RequestOrder
<1> HIDE DEF G
<1>5. ASSUME NEW i \in 1..Len(K) PROVE OwnStatement(c, v, G, K[i])
  <2>1. OwnStatement(c, v, H, K[i])
    BY <1>1 DEF RequestOrder
  <2> QED BY <1>2, <2>1 DEF OwnStatement, Begins
<1>6. RequestOrder(c, v, K, G)
  BY <1>4, <1>5 DEF RequestOrder
<1> QED BY <1>6 DEF K, G, h
-----------------------------------------------------------------------------
\* A call's own steps keep its locks in order.

\* What a step may put at the head of the list.
Orderly(c, v, H, st) ==
    IF c.op \in Requesting THEN OwnStatement(c, v, H, st)
                           ELSE st.do # "validate" /\ LabStatement(v, st)

LEMMA ProceedOrders ==
  ASSUME TxInv, OrderInv, NEW c \in calls, left[c] # <<>>,
         left[c][1].do # "lock", NEW w, NEW F \in Seq(StatementsOf(c)),
         Proceed(c, w, F),
         F # <<>> => left[c][1].do \notin {"running", "move"},
         \A k \in 1..Len(F) :
            \/ Orderly(c, db, held[c], F[k])
            \/ /\ c.op \notin Requesting
               /\ k = 1 /\ held[c] = {} /\ F[k].do = "lock" /\ F[k].row[1] = "type",
         \A x \in Wips, s \in Samples :
            Member(x, s) \in DOMAIN w => Later(db, Owner[s])
  PROVE  LockOrder(c, db, left'[c], mine'[c], held'[c])
<1> DEFINE L == left[c]
           M == mine[c]
           N == Over(w, M)
           H == held[c]
           K == F \o Tail(L)
<1>1. /\ L \in Seq(StatementsOf(c)) /\ LockOrder(c, db, L, M, H)
      /\ DOMAIN left = calls /\ DOMAIN mine = calls /\ L # <<>>
  BY HeadIs DEF OrderInv, TxInv, TypeOK
<1>2. left'[c] = K /\ mine'[c] = N /\ held'[c] = H
  BY <1>1 DEF Proceed
<1>3. DOMAIN N = DOMAIN w \cup DOMAIN M
  BY OverRow
<1> HIDE DEF N
<1>4. CASE c.op \in Requesting
  <2>1. RequestOrder(c, db, L, H)
    BY <1>1, <1>4 DEF LockOrder
  <2>2. \A k \in 1..Len(F) : OwnStatement(c, db, H, F[k])
    BY <1>4 DEF Orderly
  <2>3. RequestOrder(c, db, K, H)
    BY <1>1, <2>1, <2>2, RequestSplice
  <2> QED BY <1>2, <1>4, <2>3 DEF LockOrder
<1>5. CASE c.op \notin Requesting
  <2>1. BatchOrder(c, db, L, M, H)
    BY <1>1, <1>5 DEF LockOrder
  <2>2. \A k \in 1..Len(F) :
            /\ F[k].do # "validate"
            /\ \/ LabStatement(db, F[k])
               \/ k = 1 /\ H = {} /\ F[k].do = "lock" /\ F[k].row[1] = "type"
    BY <1>5 DEF Orderly
  <2>3. \A x \in Wips, s \in Samples : Member(x, s) \in DOMAIN N =>
            Member(x, s) \in DOMAIN M \/ Later(db, Owner[s])
    BY <1>3
  <2>4. L[1].do # "lock" /\ (F # <<>> => L[1].do \notin {"running", "move"})
    OBVIOUS
  <2> HIDE DEF L, M, H
  <2>5. BatchOrder(c, db, K, N, H)
    BY <1>1, <2>1, <2>2, <2>3, <2>4, BatchSplice
  <2> QED BY <1>2, <1>5, <2>5 DEF LockOrder
<1> QED
  BY <1>4, <1>5

LEMMA AcquireOrders ==
  ASSUME TxInv, OrderInv, NEW c \in calls, left[c] # <<>>, AcquireLock(c)
  PROVE  LockOrder(c, db, left'[c], mine'[c], held'[c])
<1> DEFINE L == left[c]
           M == mine[c]
           H == held[c]
           G == H \cup {<<L[1].row, L[1].mode>>}
<1>1. /\ L \in Seq(StatementsOf(c)) /\ LockOrder(c, db, L, M, H) /\ L # <<>>
      /\ DOMAIN left = calls /\ DOMAIN held = calls /\ Head(L) = L[1]
  BY HeadIs DEF OrderInv, TxInv, TypeOK
<1>2. /\ left'[c] = Tail(L) /\ mine'[c] = M /\ held'[c] = G
      /\ L[1].do = "lock"
  BY <1>1 DEF AcquireLock
<1>3. CASE c.op \in Requesting
  <2>1. RequestOrder(c, db, L, H)
    BY <1>1, <1>3 DEF LockOrder
  <2> HIDE DEF L, H
  <2>2. RequestOrder(c, db, Tail(L), G)
    BY <1>1, <1>2, <2>1, RequestAcquire
  <2> QED BY <1>2, <1>3, <2>2 DEF LockOrder
<1>4. CASE c.op \notin Requesting
  <2>1. BatchOrder(c, db, L, M, H)
    BY <1>1, <1>4 DEF LockOrder
  <2> HIDE DEF L, M, H
  <2>2. BatchOrder(c, db, Tail(L), M, G)
    BY <1>1, <1>2, <2>1, BatchAcquire
  <2> QED BY <1>2, <1>4, <2>2 DEF LockOrder
<1> QED
  BY <1>3, <1>4

\* A statement that puts nothing ahead.
LEMMA PlainOrders ==
  ASSUME TxInv, OrderInv, NEW c \in calls, left[c] # <<>>,
         left[c][1].do # "lock", NEW w, Proceed(c, w, <<>>),
         \A x \in Wips, s \in Samples :
            Member(x, s) \in DOMAIN w => Later(db, Owner[s])
  PROVE  LockOrder(c, db, left'[c], mine'[c], held'[c])
BY EmptyList, ProceedOrders

LEMMA MoveOrders ==
  ASSUME TxInv, OrderInv, NEW c \in calls, left[c] # <<>>, MoveRow(c)
  PROVE  Refuse(c) \/ LockOrder(c, db, left'[c], mine'[c], held'[c])
<1> DEFINE st == left[c][1]
           w == Write(st.row, Target(st.row, st.action))
<1>1. /\ Head(left[c]) = st /\ c \in Calls /\ st \in StatementsOf(c)
      /\ st.do = "move"
  BY HeadIs DEF MoveRow
<1>2. Refuse(c) \/ Proceed(c, w, <<>>)
  BY <1>1 DEF MoveRow
<1>3. st.row[1] # "member"
  <2>1. st \in Moves(c)
    BY <1>1, StatementKinds
  <2>2. \E x, a : st \in {Move(Request(x), a), Move(Sample(x), a),
                          Move(Wip(x), a), Move(Dispatch(x), a)}
    BY <2>1 DEF Moves
  <2> HIDE DEF st
  <2>3. PICK x, a : st \in {Move(Request(x), a), Move(Sample(x), a),
                            Move(Wip(x), a), Move(Dispatch(x), a)}
    BY <2>2
  <2>4. st.row \in {Request(x), Sample(x), Wip(x), Dispatch(x)}
    BY <2>3, CheckFields
  <2> QED BY <2>4, RowNames
<1>4. \A x, s : Member(x, s) \notin DOMAIN w
  BY <1>3, RowNames DEF Write
<1> HIDE DEF w
<1> QED
  BY <1>1, <1>2, <1>4, PlainOrders

LEMMA SetOrders ==
  ASSUME TxInv, OrderInv, NEW c \in calls, left[c] # <<>>, SetRow(c)
  PROVE  LockOrder(c, db, left'[c], mine'[c], held'[c])
<1> DEFINE st == left[c][1]
<1>1. /\ Head(left[c]) = st /\ c \in Calls /\ st \in StatementsOf(c)
      /\ st.do \in {"set", "setif"} /\ 1 \in 1..Len(left[c])
  BY HeadIs, AfterHead DEF SetRow
<1>2. CASE st.do = "set"
  <2> DEFINE w == Write(st.row, st.value)
  <2>1. Proceed(c, w, <<>>) /\ DOMAIN w = {st.row}
    BY <1>1, <1>2 DEF SetRow, Write
  <2> HIDE DEF w
  <2>2. ASSUME NEW x \in Wips, NEW s \in Samples, st.row = Member(x, s)
        PROVE  Later(db, Owner[s])
    <3>1. c.op \notin Requesting
      <4>1. st \in Sets(c)
        BY <1>1, <1>2, StatementKinds
      <4>2. CASE c.op = "delete_draft"
        <5>1. \E y : st \in {Set(Request(y), "none"), Set(Sample(y), "none")}
          BY <4>1, <4>2 DEF Sets
        <5>2. \E y : st.row \in {Request(y), Sample(y)}
          BY <5>1, CheckFields
        <5>3. st.row[1] = "member"
          BY <2>2, RowNames
        <5> QED BY <5>2, <5>3, RowNames
      <4>3. CASE c.op # "delete_draft"
        BY <4>1, <4>3 DEF Sets, Requesting, Settling
      <4> QED BY <4>2, <4>3
    <3>2. LabStatement(db, st)
      BY <1>1, <1>2, <3>1 DEF OrderInv, LockOrder, BatchOrder
    <3>3. st.row[1] = "member" /\ st.row[3] = s
      BY <2>2 DEF Member
    <3> QED BY <1>2, <3>2, <3>3 DEF LabStatement
  <2> QED BY <1>1, <2>1, <2>2, PlainOrders
<1>3. CASE st.do = "setif"
  <2> DEFINE w == IF View(c)[st.row] = st.old THEN Write(st.row, st.value)
                                               ELSE Nothing
  <2>1. Proceed(c, w, <<>>)
    BY <1>1, <1>3 DEF SetRow
  <2>2. DOMAIN w \subseteq {st.row}
    BY NothingWritten DEF Write
  <2> HIDE DEF w
  <2>3. st.row[1] # "member"
    <3>1. st \in SetIfs(c)
      BY <1>1, <1>3, StatementKinds
    <3>2. \E x, y, a, b : \/ st = SetIf(Sample(x), a, b)
                          \/ st = SetIf(Dispatch(x), a, b)
                          \/ st = SetIf(Progress(x, y), a, b)
      <4>0. CASE c.op = "ship"
        <5> HIDE DEF st
        <5>1. PICK s \in SamplesOf(c.on) : st = SetIf(Sample(s), "created", "shipped")
          BY <3>1, <4>0 DEF SetIfs
        <5> QED BY <5>1
      <4>1. CASE c.op = "abort_wip"
        <5> HIDE DEF st
        <5>1. PICK s \in Samples :
                st = SetIf(Sample(s), "processing", "processing_exception")
          BY <3>1, <4>1 DEF SetIfs
        <5> QED BY <5>1
      <4>2. CASE c.op \in {"receive", "void", "return"}
        <5> HIDE DEF st
        <5>1. PICK s \in SamplesOf(Owner[c.on]), t \in Types :
                st = SetIf(Progress(s, t), "none", "pending")
          BY <3>1, <4>2 DEF SetIfs
        <5> QED BY <5>1
      <4>3. CASE c.op = "redispatch"
        <5> HIDE DEF st
        <5>1. st = SetIf(Dispatch(c.new), "none", "pending")
          BY <3>1, <4>3 DEF SetIfs
        <5> QED BY <5>1
      <4> QED BY <3>1, <4>0, <4>1, <4>2, <4>3 DEF SetIfs
    <3> HIDE DEF st
    <3>3. PICK x, y, a, b : \/ st = SetIf(Sample(x), a, b)
                            \/ st = SetIf(Dispatch(x), a, b)
                            \/ st = SetIf(Progress(x, y), a, b)
      BY <3>2
    <3>4. st.row \in {Sample(x), Dispatch(x), Progress(x, y)}
      BY <3>3, CheckFields
    <3> QED BY <3>4, RowNames
  <2>4. \A x, s : Member(x, s) \notin DOMAIN w
    BY <2>2, <2>3, RowNames
  <2> QED BY <1>1, <2>1, <2>4, PlainOrders
<1> QED
  BY <1>1, <1>2, <1>3

LEMMA TestOrders ==
  ASSUME TxInv, OrderInv, NEW c \in calls, left[c] # <<>>,
         TestCondition(c) \/ CheckCompleted(c) \/ InsertDispatch(c)
  PROVE  Refuse(c) \/ LockOrder(c, db, left'[c], mine'[c], held'[c])
<1> DEFINE st == left[c][1]
<1>1. Head(left[c]) = st /\ DOMAIN Nothing = {}
  BY HeadIs, NothingWritten
<1>2. CASE TestCondition(c)
  <2>1. /\ st.do # "lock"
        /\ Refuse(c) \/ Proceed(c, Nothing, <<>>)
    BY <1>1, <1>2 DEF TestCondition
  <2> QED BY <1>1, <2>1, PlainOrders
<1>3. CASE CheckCompleted(c)
  <2> DEFINE w == IF /\ View(c)[Request(st.on)] = "in_progress"
                     /\ \A s \in SamplesOf(st.on) : View(c)[Sample(s)] \in
                             {"completed", "voided", "returned"}
                  THEN Write(Request(st.on), "completed") ELSE Nothing
  <2>1. st.do # "lock" /\ Proceed(c, w, <<>>)
    BY <1>1, <1>3 DEF CheckCompleted
  <2>2. DOMAIN w \subseteq {Request(st.on)}
    BY <1>1 DEF Write
  <2> HIDE DEF w
  <2>3. \A x, s : Member(x, s) \notin DOMAIN w
    BY <2>2, RowNames
  <2> QED BY <2>1, <2>3, PlainOrders
<1>4. CASE InsertDispatch(c)
  <2> DEFINE v == View(c)
             y == st.on
             opened == {s \in MembersOf(v, y) : v[Progress(s, TypeOf[y])] = "pending"}
             rows == {Progress(s, TypeOf[y]) : s \in opened}
             a == [row \in rows |-> "in_progress"]
             b == Write(Dispatch(st.new), "pending")
             e == IF v[Wip(y)] = "created" THEN Write(Wip(y), "in_progress") ELSE Nothing
             f == Over(b, e)
             w == Over(a, f)
  <2>1. st.do # "lock" /\ (Refuse(c) \/ Proceed(c, w, <<>>))
    BY <1>1, <1>4 DEF InsertDispatch
  <2>2. DOMAIN b = {Dispatch(st.new)} /\ DOMAIN e \subseteq {Wip(y)} /\ DOMAIN a = rows
    BY <1>1 DEF Write
  <2> HIDE DEF a, b, e
  <2>5. DOMAIN f = DOMAIN b \cup DOMAIN e
    BY OverRow
  <2> HIDE DEF f
  <2>6. DOMAIN w = DOMAIN a \cup DOMAIN f
    BY OverRow
  <2> HIDE DEF w
  <2>3. DOMAIN w = DOMAIN a \cup (DOMAIN b \cup DOMAIN e)
    BY <2>5, <2>6
  <2>4. \A x, s : Member(x, s) \notin DOMAIN w
    <3>1. \A row \in rows : row[1] = "progress"
      BY RowNames
    <3> HIDE DEF rows
    <3> QED BY <2>2, <2>3, <3>1, RowNames
  <2> QED BY <2>1, <2>4, PlainOrders
<1> QED
  BY <1>2, <1>3, <1>4

\* The statements that call c may put at the head of its list.
Allowed(c) == {x \in StatementsOf(c) : Orderly(c, db, held[c], x)}

LEMMA EachIn ==
  ASSUME NEW T, NEW n \in Nat, NEW g, DOMAIN g = 1..n,
         g = [i \in 1..n |-> g[i]], \A i \in 1..n : g[i] \in Seq(T)
  PROVE  FlattenSeq(g) \in Seq(T)
<1>1. g \in Seq(Seq(T))
  OBVIOUS
<1> QED BY <1>1, FlattenInOrder

LEMMA WorkOrders ==
  ASSUME TxInv, OrderInv, NEW c \in calls, left[c] # <<>>,
         left[c][1].do \notin {"lock", "running", "move"},
         NEW w, NEW F \in Seq(Allowed(c)), Proceed(c, w, F),
         \A x, s : Member(x, s) \notin DOMAIN w
  PROVE  LockOrder(c, db, left'[c], mine'[c], held'[c])
<1> DEFINE T == Allowed(c)
<1>1. \A x \in T : x \in StatementsOf(c) /\ Orderly(c, db, held[c], x)
  BY DEF Allowed
<1> HIDE DEF T
<1>2. /\ F \in Seq(StatementsOf(c))
      /\ \A k \in 1..Len(F) : Orderly(c, db, held[c], F[k])
  <2>1. F \in Seq(T)
    BY DEF T
  <2> QED BY <1>1, <2>1
<1> QED
  BY <1>2, ProceedOrders

LEMMA LockNames ==
  /\ \A row : /\ Lock(row).do = "lock" /\ Lock(row).row = row
              /\ Lock(row).mode = "update"
              /\ Update(row).do = "lock" /\ Update(row).row = row
              /\ Update(row).mode = "write"
              /\ Refer(row).do = "lock" /\ Refer(row).row = row
              /\ Refer(row).mode = "share"
  /\ \A t : Type(t)[1] = "type"
  /\ \A x, s : Member(x, s)[3] = s
BY DEF Lock, Update, Refer, Type, Member

LEMMA ShipOrders ==
  ASSUME TxInv, OrderInv, NEW c \in calls, left[c] # <<>>, ShipSamples(c)
  PROVE  LockOrder(c, db, left'[c], mine'[c], held'[c])
<1> DEFINE st == left[c][1]
           S == {s \in SamplesOf(st.on) : View(c)[Sample(s)] = "created"}
           U(s) == <<Update(Sample(s)), SetIf(Sample(s), "created", "shipped")>>
<1>1. Head(left[c]) = st /\ st.do = "shipsamples"
  BY HeadIs DEF ShipSamples
<1>2. c \in Calls /\ c.op = "ship" /\ st.on = c.on /\ c.on \in Requests
  BY <1>1, AtCheck, CheckKinds
<1>3. PICK q \in SetToSeqs(S) :
        Proceed(c, Nothing, FlattenSeq([i \in DOMAIN q |-> U(q[i])]))
  <2>1. SampleTarget.ship = "shipped"
    BY DEF SampleTarget
  <2> QED BY <1>1, <2>1 DEF ShipSamples, ForEach
<1> DEFINE g == [i \in DOMAIN q |-> U(q[i])]
<1>4. S \in SUBSET Samples /\ S \subseteq SamplesOf(c.on)
  BY <1>2 DEF SamplesOf
<1> HIDE DEF S, st
<1>5. DOMAIN q = 1..Len(q) /\ Len(q) \in Nat /\ \A i \in 1..Len(q) : q[i] \in S
  BY <1>4, FiniteWafers, OrderOf
<1>6. ASSUME NEW s \in S PROVE U(s) \in Seq(Allowed(c))
  <2>1. Sample(s) \in Rows
    BY <1>4, RowFacts
  <2>2. Update(Sample(s)) \in StatementsOf(c)
    BY <2>1 DEF StatementsOf, Locks, Modes, Update
  <2>3. SetIf(Sample(s), "created", "shipped") \in StatementsOf(c)
    BY <1>2, <1>4 DEF StatementsOf, SetIfs
  <2>4. OfRequest(Sample(s), RequestOf(c)) /\ c.op \in Requesting
    BY <1>2, <1>4 DEF OfRequest, RequestOf, Settling, Requesting
  <2>5. Orderly(c, db, held[c], Update(Sample(s)))
    BY <2>4, LockNames DEF Orderly, OwnStatement
  <2>6. Orderly(c, db, held[c], SetIf(Sample(s), "created", "shipped"))
    BY <2>4, CheckFields DEF Orderly, OwnStatement
  <2> QED BY <2>2, <2>3, <2>5, <2>6 DEF Allowed
<1> HIDE DEF U
<1>7. FlattenSeq(g) \in Seq(Allowed(c))
  BY <1>5, <1>6, EachIn
<1>8. Proceed(c, Nothing, FlattenSeq(g))
  BY <1>3
<1> HIDE DEF g
<1> QED
  BY <1>1, <1>7, <1>8, NothingWritten, WorkOrders DEF st

LEMMA DeleteOrders ==
  ASSUME TxInv, OrderInv, NEW c \in calls, left[c] # <<>>, DeleteSamples(c)
  PROVE  LockOrder(c, db, left'[c], mine'[c], held'[c])
<1> DEFINE st == left[c][1]
           S == SamplesOf(st.on)
           D(s) == <<Lock(Sample(s)), Set(Sample(s), "none")>>
<1>1. Head(left[c]) = st /\ st.do = "deletesamples"
  BY HeadIs DEF DeleteSamples
<1>2. c \in Calls /\ c.op = "delete_draft" /\ st.on = c.on /\ c.on \in Requests
  BY <1>1, AtCheck, CheckKinds
<1>3. PICK q \in SetToSeqs(S) :
        Proceed(c, Nothing, FlattenSeq([i \in DOMAIN q |-> D(q[i])]))
  BY <1>1 DEF DeleteSamples, ForEach
<1> DEFINE g == [i \in DOMAIN q |-> D(q[i])]
<1>4. S \in SUBSET Samples /\ S = SamplesOf(c.on)
  BY <1>2 DEF SamplesOf
<1> HIDE DEF S, st
<1>5. DOMAIN q = 1..Len(q) /\ Len(q) \in Nat /\ \A i \in 1..Len(q) : q[i] \in S
  BY <1>4, FiniteWafers, OrderOf
<1>6. ASSUME NEW s \in S PROVE D(s) \in Seq(Allowed(c))
  <2>1. Sample(s) \in Rows
    BY <1>4, RowFacts
  <2>2. Lock(Sample(s)) \in StatementsOf(c)
    BY <2>1 DEF StatementsOf, Locks, Modes, Lock
  <2>3. Set(Sample(s), "none") \in StatementsOf(c)
    BY <1>2, <1>4 DEF StatementsOf, Sets
  <2>4. OfRequest(Sample(s), RequestOf(c)) /\ c.op \in Requesting
    BY <1>2, <1>4 DEF OfRequest, RequestOf, Settling, Requesting
  <2>5. Orderly(c, db, held[c], Lock(Sample(s)))
    BY <2>4, LockNames DEF Orderly, OwnStatement
  <2>6. Orderly(c, db, held[c], Set(Sample(s), "none"))
    BY <2>4, CheckFields DEF Orderly, OwnStatement
  <2> QED BY <2>2, <2>3, <2>5, <2>6 DEF Allowed
<1> HIDE DEF D
<1>7. FlattenSeq(g) \in Seq(Allowed(c))
  BY <1>5, <1>6, EachIn
<1>8. Proceed(c, Nothing, FlattenSeq(g))
  BY <1>3
<1> HIDE DEF g
<1> QED
  BY <1>1, <1>7, <1>8, NothingWritten, WorkOrders DEF st

\* Initialising a request's wafers refers to types, by the call that has just
\* begun the request's work.
LEMMA ReceivedOrders ==
  ASSUME TxInv, OrderInv, NEW c \in calls, left[c] # <<>>, CheckReceived(c)
  PROVE  LockOrder(c, db, left'[c], mine'[c], held'[c])
<1> DEFINE st == left[c][1]
           r == st.on
           S == SamplesOf(r)
           A == {Refer(Type(t)) : t \in Types}
           B(s) == {SetIf(Progress(s, t), "none", "pending") : t \in Types}
           I(s) == <<Refer(Sample(s))>> \o SetToSeq(A) \o SetToSeq(B(s))
           w == Write(Request(r), "in_progress")
           moves == View(c)[Request(r)] = "sample_shipped" /\ Accounted(View(c), r)
           T == Allowed(c)
<1>1. /\ st.do = "received" /\ c \in Calls /\ c.op \in Settling
      /\ r = Owner[c.on] /\ r \in Requests /\ HasLock(held[c], Request(r))
      /\ Head(left[c]) = st
  BY ReceivedDoes, HeadIs DEF Settling
<1>2. r = RequestOf(c) /\ c.op \in Requesting
  BY <1>1 DEF RequestOf, Requesting
<1>3. \/ ~moves /\ Proceed(c, Nothing, <<>>)
      \/ /\ moves
         /\ \E q \in SetToSeqs(S) :
                Proceed(c, w, FlattenSeq([i \in DOMAIN q |-> I(q[i])]))
  BY <1>1 DEF CheckReceived, ForEach, Accounted
<1>4. CASE Proceed(c, Nothing, <<>>)
  BY <1>1, <1>4, NothingWritten, PlainOrders
<1>5. ASSUME moves, NEW q \in SetToSeqs(S),
             Proceed(c, w, FlattenSeq([i \in DOMAIN q |-> I(q[i])]))
      PROVE  LockOrder(c, db, left'[c], mine'[c], held'[c])
  <2> DEFINE g == [i \in DOMAIN q |-> I(q[i])]
  <2>1. Begins(c, db, held[c])
    <3>1. Request(r) \in Rows /\ Request(r)[1] = "request"
      BY <1>1, RowFacts
    <3>2. "sample_shipped" \notin WritesOf(c, Request(r))
      BY <1>1, <3>1, WhoWrites DEF Settling
    <3>3. db[Request(r)] = "sample_shipped"
      <4>1. View(c)[Request(r)] = "sample_shipped"
        BY <1>5
      <4> QED BY <3>1, <3>2, <4>1, HeadIs
    <3> QED BY <1>1, <1>2, <3>3 DEF Begins
  <2>2. S \in SUBSET Samples /\ S = SamplesOf(Owner[c.on])
    BY <1>1 DEF SamplesOf
  <2>s. \A s \in S : OfRequest(Sample(s), RequestOf(c))
    BY <1>2 DEF OfRequest
  <2> HIDE DEF S, r
  <2>3. /\ DOMAIN q = 1..Len(q) /\ Len(q) \in Nat
        /\ \A i \in 1..Len(q) : q[i] \in S
    BY <2>2, FiniteWafers, OrderOf
  <2>4. ASSUME NEW s \in S PROVE I(s) \in Seq(T)
    <3>1. A \subseteq T
      <4> SUFFICES ASSUME NEW t \in Types PROVE Refer(Type(t)) \in T
        OBVIOUS
      <4>1. Refer(Type(t)) \in StatementsOf(c)
        BY DEF StatementsOf, Locks, Modes, Refer
      <4>2. Orderly(c, db, held[c], Refer(Type(t)))
        BY <1>2, <2>1, LockNames DEF Orderly, OwnStatement
      <4> QED BY <4>1, <4>2 DEF Allowed
    <3>2. B(s) \subseteq T
      <4> SUFFICES ASSUME NEW t \in Types
                   PROVE  SetIf(Progress(s, t), "none", "pending") \in T
        OBVIOUS
      <4>1. SetIf(Progress(s, t), "none", "pending") \in SetIfs(c)
        BY <1>1, <2>2 DEF SetIfs, Settling
      <4>2. Orderly(c, db, held[c], SetIf(Progress(s, t), "none", "pending"))
        BY <1>2, CheckFields DEF Orderly, OwnStatement
      <4> QED BY <4>1, <4>2 DEF Allowed, StatementsOf
    <3>3. Refer(Sample(s)) \in T
      <4>1. Sample(s) \in Rows
        BY <2>2, RowFacts
      <4>2. Refer(Sample(s)) \in StatementsOf(c)
        BY <4>1 DEF StatementsOf, Locks, Modes, Refer
      <4>3. Orderly(c, db, held[c], Refer(Sample(s)))
        BY <1>2, <2>s, LockNames DEF Orderly, OwnStatement
      <4> QED BY <4>2, <4>3 DEF Allowed
    <3>4. SetToSeq(A) \in Seq(A) /\ SetToSeq(B(s)) \in Seq(B(s))
      <4>1. IsFiniteSet(A) /\ IsFiniteSet(B(s))
        BY TypesFinite
      <4> HIDE DEF A, B
      <4> QED BY <4>1, OneOrder
    <3> HIDE DEF A, B, T
    <3>5. SetToSeq(A) \in Seq(T) /\ SetToSeq(B(s)) \in Seq(T)
      BY <3>1, <3>2, <3>4
    <3>6. <<Refer(Sample(s))>> \in Seq(T)
      BY <3>3
    <3> QED BY <3>5, <3>6
  <2> HIDE DEF I, T
  <2>5. FlattenSeq(g) \in Seq(T)
    BY <2>3, <2>4, EachIn
  <2>6. Proceed(c, w, FlattenSeq(g))
    BY <1>5
  <2>7. \A x, s : Member(x, s) \notin DOMAIN w
    BY RowNames DEF Write
  <2> HIDE DEF g, w
  <2> QED BY <1>1, <2>5, <2>6, <2>7, WorkOrders DEF T
<1> HIDE DEF I, w, moves
<1> QED
  BY <1>3, <1>4, <1>5

\* The wafers of a batch, as a call about batches sees it.
LEMMA MembersLater ==
  ASSUME TxInv, OrderInv, NEW c \in calls, left[c] # <<>>, c.op \notin Requesting,
         NEW x \in Wips, NEW s \in MembersOf(View(c), x)
  PROVE  Later(db, Owner[s])
<1>1. s \in Samples /\ View(c)[Member(x, s)] = "in"
  BY DEF MembersOf
<1>2. Member(x, s) \in Rows
  BY <1>1, RowFacts
<1>3. CASE Member(x, s) \in DOMAIN mine[c]
  BY <1>1, <1>3 DEF OrderInv, LockOrder, BatchOrder
<1>4. CASE Member(x, s) \notin DOMAIN mine[c]
  <2>1. db[Member(x, s)] = "in"
    BY <1>1, <1>2, <1>4, HeadIs
  <2> QED BY <1>1, <2>1 DEF OrderInv, BatchesStay, MembersOf
<1> QED
  BY <1>3, <1>4

\* A batch call may lock a wafer of the laboratory, and write what is no member.
LEMMA LabAllowed ==
  ASSUME NEW c, c.op \notin Requesting, NEW s \in Samples, Later(db, Owner[s]),
         NEW st \in StatementsOf(c), st.do # "validate",
         st.do = "lock" => st.row = Sample(s) \/ st.row = Request(Owner[s]),
         st.do = "trycomplete" => st.on = s,
         st.do = "set" /\ st.row[1] = "member" => st.row[3] = s
  PROVE  st \in Allowed(c)
<1>1. Owner[s] \in Requests
  BY TablesAssumption
<1>2. LabRow(db, Sample(s)) /\ LabRow(db, Request(Owner[s]))
  BY <1>1 DEF LabRow, OfRequest, SamplesOf
<1>3. LabStatement(db, st)
  BY <1>2 DEF LabStatement
<1> QED
  BY <1>3 DEF Allowed, Orderly

\* Wafers locked one after the other, and then a statement about each.
LEMMA BatchIn ==
  ASSUME NEW T, NEW q, NEW n \in Nat, DOMAIN q = 1..n, NEW b,
         b = [i \in DOMAIN q |-> b[i]],
         \A i \in 1..n : Lock(Sample(q[i])) \in T /\ b[i] \in T
  PROVE  [i \in DOMAIN q |-> Lock(Sample(q[i]))] \o b \in Seq(T)
<1> DEFINE a == [i \in DOMAIN q |-> Lock(Sample(q[i]))]
<1>1. a \in Seq(T) /\ b \in Seq(T)
  OBVIOUS
<1> HIDE DEF a
<1>2. a \o b \in Seq(T)
  BY <1>1
<1> QED BY <1>2 DEF a

LEMMA CascadeIn ==
  ASSUME NEW c \in Calls, c.op \in Cascading, NEW S \in SUBSET Samples,
         \A s \in S : Later(db, Owner[s]), NEW L \in Cascade(S)
  PROVE  L \in Seq(Allowed(c))
<1>1. PICK q \in SetToSeqs(S) :
        L = [i \in DOMAIN q |-> Lock(Sample(q[i]))]
                \o [i \in DOMAIN q |-> Check("trycomplete", q[i])]
  BY DEF Cascade
<1>2. DOMAIN q = 1..Len(q) /\ Len(q) \in Nat /\ \A i \in 1..Len(q) : q[i] \in S
  BY FiniteWafers, OrderOf
<1>3. c.op \notin Requesting
  BY DEF Cascading, Unloading, Recording, Requesting, Settling
<1>4. ASSUME NEW s \in S
      PROVE  Lock(Sample(s)) \in Allowed(c) /\ Check("trycomplete", s) \in Allowed(c)
  <2>1. Lock(Sample(s)) \in StatementsOf(c)
    <3>1. Sample(s) \in Rows
      BY RowFacts
    <3> QED BY <3>1 DEF StatementsOf, Locks, Modes, Lock
  <2>2. Check("trycomplete", s) \in StatementsOf(c)
    <3>1. Check("trycomplete", s) \in Cascades
      BY DEF Cascades
    <3> QED BY <3>1 DEF StatementsOf, Checks, Cascading, Unloading, Recording
  <2> QED BY <1>3, <2>1, <2>2, LockNames, CheckFields, LabAllowed
<1> DEFINE b == [i \in DOMAIN q |-> Check("trycomplete", q[i])]
           T == Allowed(c)
<1>5. b = [i \in DOMAIN q |-> b[i]] /\ \A i \in 1..Len(q) : b[i] \in T
  BY <1>2, <1>4
<1>6. \A i \in 1..Len(q) : Lock(Sample(q[i])) \in T
  BY <1>2, <1>4
<1>7. L = [i \in DOMAIN q |-> Lock(Sample(q[i]))] \o b
  BY <1>1
<1> HIDE DEF b, T
<1> QED
  BY <1>2, <1>5, <1>6, <1>7, BatchIn DEF T

LEMMA CascadeOrders ==
  ASSUME TxInv, OrderInv, NEW c \in calls, left[c] # <<>>, CascadeBatch(c)
  PROVE  LockOrder(c, db, left'[c], mine'[c], held'[c])
<1> DEFINE st == left[c][1]
           S == MembersOf(View(c), st.on)
<1>1. Head(left[c]) = st /\ st.do = "cascade"
  BY HeadIs DEF CascadeBatch
<1>2. c \in Calls /\ c.op \in Cascading /\ st.on \in Wips
  BY <1>1, AtCheck, CheckKinds
<1>3. PICK L \in Cascade(S) : Proceed(c, Nothing, L)
  BY <1>1 DEF CascadeBatch
<1>4. S \in SUBSET Samples /\ \A s \in S : Later(db, Owner[s])
  <2>1. c.op \notin Requesting
    BY <1>2 DEF Cascading, Unloading, Recording, Requesting, Settling
  <2>2. S \in SUBSET Samples
    BY DEF MembersOf
  <2> QED BY <1>2, <2>1, <2>2, MembersLater
<1> HIDE DEF S
<1>5. L \in Seq(Allowed(c))
  BY <1>2, <1>4, CascadeIn
<1> QED
  BY <1>1, <1>3, <1>5, NothingWritten, WorkOrders

LEMMA RollOrders ==
  ASSUME TxInv, OrderInv, NEW c \in calls, left[c] # <<>>, RollVerdicts(c)
  PROVE  LockOrder(c, db, left'[c], mine'[c], held'[c])
<1> DEFINE st == left[c][1]
           x == WipOf[st.on]
           S == MembersOf(View(c), x)
           w == [row \in {Progress(s, TypeOf[x]) : s \in S} |-> st.on]
<1>1. Head(left[c]) = st /\ st.do = "roll"
  BY HeadIs DEF RollVerdicts
<1>2. /\ c \in Calls /\ c.op \in Cascading /\ c.op \notin Requesting
      /\ st.on \in Dispatches /\ x \in Wips
  BY <1>1, AtCheck, CheckKinds, TablesAssumption
     DEF Cascading, Unloading, Recording, Requesting, Settling
<1>3. PICK L \in Cascade(S) : Proceed(c, w, L)
  BY <1>1 DEF RollVerdicts
<1>4. \A y, s : Member(y, s) \notin DOMAIN w
  BY RowNames
<1>5. S \in SUBSET Samples /\ \A s \in S : Later(db, Owner[s])
  <2>1. S \in SUBSET Samples
    BY DEF MembersOf
  <2> HIDE DEF x
  <2> QED BY <1>2, <2>1, MembersLater
<1> HIDE DEF S, w
<1>6. L \in Seq(Allowed(c))
  BY <1>2, <1>5, CascadeIn
<1> QED
  BY <1>1, <1>3, <1>4, <1>6, WorkOrders

LEMMA ExceptOrders ==
  ASSUME TxInv, OrderInv, NEW c \in calls, left[c] # <<>>, ExceptBatch(c)
  PROVE  LockOrder(c, db, left'[c], mine'[c], held'[c])
<1> DEFINE st == left[c][1]
           S == MembersOf(View(c), st.on)
           X(s) == SetIf(Sample(s), "processing", "processing_exception")
           T == Allowed(c)
<1>1. Head(left[c]) = st /\ st.do = "except"
  BY HeadIs DEF ExceptBatch
<1>2. /\ c \in Calls /\ c.op = "abort_wip" /\ c.op \notin Requesting
      /\ st.on \in Wips
  BY <1>1, AtCheck, CheckKinds DEF Requesting, Settling
<1>3. PICK q \in SetToSeqs(S) :
        Proceed(c, Nothing, [i \in DOMAIN q |-> Lock(Sample(q[i]))]
                                \o [i \in DOMAIN q |-> X(q[i])])
  <2>1. SampleTarget.processing_exception = "processing_exception"
    BY DEF SampleTarget
  <2> QED BY <1>1, <2>1 DEF ExceptBatch
<1>4. S \in SUBSET Samples /\ \A s \in S : Later(db, Owner[s])
  <2>1. S \in SUBSET Samples
    BY DEF MembersOf
  <2> QED BY <1>2, <2>1, MembersLater
<1> HIDE DEF S
<1>5. DOMAIN q = 1..Len(q) /\ Len(q) \in Nat /\ \A i \in 1..Len(q) : q[i] \in S
  BY <1>4, FiniteWafers, OrderOf
<1>6. ASSUME NEW s \in S PROVE Lock(Sample(s)) \in T /\ X(s) \in T
  <2>1. s \in Samples /\ Later(db, Owner[s])
    BY <1>4
  <2>2. Lock(Sample(s)) \in StatementsOf(c)
    <3>1. Sample(s) \in Rows
      BY <2>1, RowFacts
    <3> QED BY <3>1 DEF StatementsOf, Locks, Modes, Lock
  <2>3. X(s) \in StatementsOf(c)
    <3>1. X(s) \in SetIfs(c)
      BY <1>2, <2>1 DEF SetIfs
    <3> QED BY <3>1 DEF StatementsOf
  <2>4. X(s).do = "setif"
    BY CheckFields
  <2> HIDE DEF X
  <2> QED BY <1>2, <2>1, <2>2, <2>3, <2>4, LockNames, LabAllowed
<1> DEFINE b == [i \in DOMAIN q |-> X(q[i])]
           L == [i \in DOMAIN q |-> Lock(Sample(q[i]))] \o b
<1> HIDE DEF X, T
<1>7. b = [i \in DOMAIN q |-> b[i]] /\ \A i \in 1..Len(q) : b[i] \in T
  BY <1>5, <1>6
<1>8. Proceed(c, Nothing, L)
  BY <1>3
<1>9. \A i \in 1..Len(q) : Lock(Sample(q[i])) \in T
  BY <1>5, <1>6
<1> HIDE DEF b
<1>10. L \in Seq(T)
  BY <1>5, <1>7, <1>9, BatchIn
<1> HIDE DEF L
<1> QED
  BY <1>1, <1>8, <1>10, NothingWritten, WorkOrders DEF T

LEMMA TryOrders ==
  ASSUME TxInv, OrderInv, NEW c \in calls, left[c] # <<>>, TryComplete(c)
  PROVE  LockOrder(c, db, left'[c], mine'[c], held'[c])
<1> DEFINE st == left[c][1]
           s == st.on
           r == Owner[s]
           w == Write(Sample(s), "completed")
           F == <<Lock(Request(r)), Check("completed", r)>>
<1>1. /\ Head(left[c]) = st /\ st.do = "trycomplete"
      /\ c \in Calls /\ 1 \in 1..Len(left[c])
  BY HeadIs, AfterHead DEF TryComplete
<1>2. /\ c.op \in Cascading /\ c.op \notin Requesting
      /\ s \in Samples /\ r \in Requests
  BY <1>1, AtCheck, CheckKinds, TablesAssumption
     DEF Cascading, Unloading, Recording, Requesting, Settling
<1>3. Proceed(c, w, F) \/ Proceed(c, Nothing, <<>>)
  BY <1>1 DEF TryComplete
<1>4. Later(db, r)
  <2>1. LabStatement(db, st)
    BY <1>1, <1>2 DEF OrderInv, LockOrder, BatchOrder
  <2> QED BY <1>1, <2>1 DEF LabStatement
<1>5. Lock(Request(r)) \in StatementsOf(c) /\ Check("completed", r) \in StatementsOf(c)
  <2>1. Request(r) \in Rows
    BY <1>2, RowFacts
  <2>2. Lock(Request(r)) \in StatementsOf(c)
    BY <2>1 DEF StatementsOf, Locks, Modes, Lock
  <2>3. Check("completed", r) \in Cascades
    BY <1>2 DEF Cascades
  <2>4. Check("completed", r) \in Checks(c)
    BY <1>2, <2>3 DEF Checks, Cascading, Unloading, Recording
  <2> QED BY <2>2, <2>4 DEF StatementsOf
<1> HIDE DEF st
<1>6. Lock(Request(r)) \in Allowed(c) /\ Check("completed", r) \in Allowed(c)
  BY <1>2, <1>4, <1>5, LockNames, CheckFields, LabAllowed
<1>7. F \in Seq(Allowed(c))
  BY <1>6
<1>8. \A y, z : Member(y, z) \notin DOMAIN w
  BY RowNames DEF Write
<1> HIDE DEF w, F
<1> QED
  BY <1>1, <1>3, <1>7, <1>8, NothingWritten, PlainOrders, WorkOrders DEF st

LEMMA AutoOrders ==
  ASSUME TxInv, OrderInv, NEW c \in calls, left[c] # <<>>, AutoComplete(c)
  PROVE  LockOrder(c, db, left'[c], mine'[c], held'[c])
<1> DEFINE st == left[c][1]
           w == Write(Wip(st.on), "completed")
           F == <<Check("cascade", st.on)>>
<1>1. Head(left[c]) = st /\ st.do = "autocomplete" /\ c \in Calls
  BY HeadIs DEF AutoComplete
<1>2. /\ st \in Checks(c) /\ c.op \in Recording \cup {"abort_dispatch"}
      /\ c.op \notin Requesting
  BY <1>1, AtCheck, CheckKinds DEF Recording, Requesting, Settling
<1>3. Proceed(c, w, F) \/ Proceed(c, Nothing, <<>>)
  BY <1>1 DEF AutoComplete
<1>4. Check("cascade", st.on) \in StatementsOf(c)
  <2>1. st.on = WipOf[c.on]
    <3>1. CASE st \in Cascades
      BY <1>1, <3>1, CheckFields DEF Cascades
    <3>2. CASE st \notin Cascades
      <4> HIDE DEF st
      <4> QED BY <1>1, <1>2, <3>2, CheckFields DEF Checks, Recording
    <3> QED BY <3>1, <3>2
  <2> QED BY <1>2, <2>1 DEF StatementsOf, Checks, Recording
<1> HIDE DEF st
<1>5. Check("cascade", st.on) \in Allowed(c)
  BY <1>2, <1>4, CheckFields DEF Allowed, Orderly, LabStatement
<1>6. F \in Seq(Allowed(c))
  BY <1>5
<1>7. \A y, z : Member(y, z) \notin DOMAIN w
  BY RowNames DEF Write
<1> HIDE DEF w, F
<1> QED
  BY <1>1, <1>3, <1>6, <1>7, NothingWritten, PlainOrders, WorkOrders DEF st

LEMMA ConcatIn ==
  ASSUME NEW X, NEW a \in Seq(X), NEW b \in Seq(X)
  PROVE  LET N == a \o b IN
         /\ N \in Seq(X) /\ Len(N) = Len(a) + Len(b)
         /\ \A k \in 1..Len(a) : N[k] = a[k]
         /\ \A k \in 1..Len(N) :
                \/ k \in 1..Len(a)
                \/ k - Len(a) \in 1..Len(b) /\ N[k] = b[k - Len(a)]
OBVIOUS

LEMMA AfterFirst ==
  ASSUME NEW T, NEW x, NEW y \in T, NEW a \in Seq(T), NEW b \in Seq(T)
  PROVE  LET N == <<x, y>> \o a \o b IN
         /\ N \in Seq(T \cup {x})
         /\ \A k \in 1..Len(N) : N[k] \in T \/ (k = 1 /\ N[k] = x)
<1> DEFINE X == T \cup {x}
           p == <<x, y>>
           e == p \o a
           N == e \o b
<1>1. /\ p \in Seq(X) /\ a \in Seq(X) /\ b \in Seq(X)
      /\ Len(p) = 2 /\ p[1] = x /\ p[2] \in T
      /\ Len(a) \in Nat /\ \A k \in 1..Len(a) : a[k] \in T
      /\ Len(b) \in Nat /\ \A k \in 1..Len(b) : b[k] \in T
  OBVIOUS
<1> HIDE DEF p, X
<1>2. /\ e \in Seq(X) /\ Len(e) = 2 + Len(a)
      /\ \A k \in 1..2 : e[k] = p[k]
      /\ \A k \in 1..Len(e) :
            k \in 1..2 \/ (k - 2 \in 1..Len(a) /\ e[k] = a[k - 2])
  <2>0. p \in Seq(X) /\ a \in Seq(X)
    BY <1>1
  <2>1. /\ e \in Seq(X) /\ Len(e) = Len(p) + Len(a)
        /\ \A k \in 1..Len(p) : e[k] = p[k]
        /\ \A k \in 1..Len(e) :
              \/ k \in 1..Len(p)
              \/ k - Len(p) \in 1..Len(a) /\ e[k] = a[k - Len(p)]
    BY <2>0, ConcatIn, Zenon
  <2> HIDE DEF e
  <2> QED BY <1>1, <2>1
<1> HIDE DEF e
<1>3. /\ Len(e) \in Nat /\ \A k \in 1..Len(e) : e[k] \in T \/ (k = 1 /\ e[k] = x)
  BY <1>1, <1>2
<1>4. /\ N \in Seq(X)
      /\ \A k \in 1..Len(e) : N[k] = e[k]
      /\ \A k \in 1..Len(N) :
            k \in 1..Len(e) \/ (k - Len(e) \in 1..Len(b) /\ N[k] = b[k - Len(e)])
  BY <1>1, <1>2, ConcatIn
<1> HIDE DEF N
<1>5. \A k \in 1..Len(N) : N[k] \in T \/ (k = 1 /\ N[k] = x)
  BY <1>1, <1>3, <1>4
<1> QED BY <1>4, <1>5 DEF N, e, p, X

LEMMA ValidateOrders ==
  ASSUME TxInv, OrderInv, NEW c \in calls, left[c] # <<>>, ValidateSamples(c)
  PROVE  Refuse(c) \/ LockOrder(c, db, left'[c], mine'[c], held'[c])
<1> DEFINE st == Head(left[c])
           v == View(c)
           x == st.on
           I(s) == <<Refer(Sample(s)), Set(Member(x, s), "in")>>
           U(s) == <<Update(Sample(s)), Set(Sample(s), SampleTarget.start_processing)>>
           Stale == {s \in st.samples : v[Sample(s)] = "received"}
           First == IF v[Wip(x)] = "none"
                    THEN <<Refer(Type(TypeOf[x])), Set(Wip(x), "created")>>
                    ELSE <<>>
           H == held[c]
           T == Allowed(c)
<1>1. /\ st = left[c][1] /\ st.do = "validate"
      /\ CallInv(c, db, left[c], mine[c], H)
      /\ \A row \in Rows : row \notin DOMAIN mine[c] => v[row] = db[row]
      /\ \A row \in DOMAIN mine[c] : mine[c][row] \in WritesOf(c, row)
      /\ 1 \in 1..Len(left[c])
  BY HeadIs, AfterHead DEF ValidateSamples
<1>2. /\ c \in Calls /\ c.op \in {"create_wip", "add_samples"}
      /\ x = c.on /\ c.on \in Wips
      /\ st.samples = c.samples /\ c.samples \subseteq Samples
      /\ c.op \notin Requesting
  BY <1>1, AtCheck, CheckKinds DEF Requesting, Settling
<1>3. SampleTarget.start_processing = "processing"
  BY DEF SampleTarget
<1>4. \/ Refuse(c)
      \/ /\ \A s \in st.samples : v[Request(Owner[s])] = "in_progress"
         /\ \E a \in SetToSeqs(st.samples), b \in SetToSeqs(Stale) :
               Proceed(c, Nothing,
                       First \o FlattenSeq([i \in DOMAIN a |-> I(a[i])])
                             \o FlattenSeq([i \in DOMAIN b |-> U(b[i])]))
  <2>1. \/ Refuse(c)
        \/ /\ \A s \in st.samples : v[Request(Owner[s])] = "in_progress"
           /\ \E q \in ForEach(st.samples, I), u \in ForEach(Stale, U) :
                 Proceed(c, Nothing, First \o q \o u)
    BY Zenon DEF ValidateSamples
  <2> QED BY <2>1 DEF ForEach
<1>5. ASSUME \A s \in st.samples : v[Request(Owner[s])] = "in_progress",
             \E a \in SetToSeqs(st.samples), b \in SetToSeqs(Stale) :
                Proceed(c, Nothing,
                        First \o FlattenSeq([i \in DOMAIN a |-> I(a[i])])
                              \o FlattenSeq([i \in DOMAIN b |-> U(b[i])]))
      PROVE  LockOrder(c, db, left'[c], mine'[c], held'[c])
  <2>1. PICK a \in SetToSeqs(c.samples), b \in SetToSeqs(Stale) :
          Proceed(c, Nothing,
                  First \o FlattenSeq([i \in DOMAIN a |-> I(a[i])])
                        \o FlattenSeq([i \in DOMAIN b |-> U(b[i])]))
    BY <1>2, <1>5
  <2>2. Stale \in SUBSET Samples /\ Stale \subseteq c.samples
    BY <1>2
  <2>3. \A s \in c.samples : Later(db, Owner[s])
    <3> SUFFICES ASSUME NEW s \in c.samples PROVE Later(db, Owner[s])
      OBVIOUS
    <3>1. v[Request(Owner[s])] = "in_progress" /\ Owner[s] \in Requests
      BY <1>2, <1>5, TablesAssumption
    <3>2. Request(Owner[s]) \in Rows /\ Request(Owner[s])[1] = "request"
      BY <3>1, RowFacts
    <3>3. \A y : y \notin WritesOf(c, Request(Owner[s]))
      BY <1>2, <3>2, WhoWrites DEF Cascading, Unloading, Recording, Settling
    <3>4. db[Request(Owner[s])] = "in_progress"
      BY <1>1, <3>1, <3>2, <3>3
    <3> QED BY <3>4 DEF Later, InLab
  <2>4. Wip(x) \in Rows /\ Wip(x)[1] = "wip" /\ TypeOf[x] \in Types
    BY <1>2, RowFacts, TablesAssumption
  <2>5. v[Wip(x)] = "none" => c.op = "create_wip"
    <3> SUFFICES ASSUME c.op = "add_samples" PROVE v[Wip(x)] # "none"
      BY <1>2
    <3>1. Tested(left[c], H, 1, Check("open", c.on), Wip(c.on),
                 db[Wip(c.on)] # "none")
      BY <1>1 DEF CallInv, JoinTested
    <3>2. db[Wip(x)] # "none"
      BY <1>2, <3>1 DEF Tested, Ahead
    <3>3. WritesOf(c, Wip(x)) = {}
      BY <2>4 DEF WritesOf, Cascading, Unloading, Recording
    <3> QED BY <1>1, <2>4, <3>2, <3>3
  <2>6. c.op = "create_wip" => H = {}
    BY <1>1, <1>2 DEF OrderInv, LockOrder, BatchOrder
  <2> HIDE DEF Stale, x, v, st
  <2>7. ASSUME NEW s \in c.samples PROVE I(s) \in Seq(T)
    <3>0. s \in Samples /\ Later(db, Owner[s])
      BY <1>2, <2>3
    <3>1. Refer(Sample(s)) \in StatementsOf(c)
      <4>1. Sample(s) \in Rows
        BY <3>0, RowFacts
      <4> QED BY <4>1 DEF StatementsOf, Locks, Modes, Refer
    <3>2. Set(Member(x, s), "in") \in StatementsOf(c)
      <4>1. Set(Member(x, s), "in") \in Sets(c)
        BY <1>2 DEF Sets
      <4> QED BY <4>1 DEF StatementsOf
    <3>3. Refer(Sample(s)) \in T /\ Set(Member(x, s), "in") \in T
      BY <1>2, <3>0, <3>1, <3>2, LockNames, CheckFields, LabAllowed
    <3> QED BY <3>3
  <2>8. ASSUME NEW s \in c.samples PROVE U(s) \in Seq(T)
    <3>0. s \in Samples /\ Later(db, Owner[s])
      BY <1>2, <2>3
    <3>1. Update(Sample(s)) \in StatementsOf(c)
      <4>1. Sample(s) \in Rows
        BY <3>0, RowFacts
      <4> QED BY <4>1 DEF StatementsOf, Locks, Modes, Update
    <3>2. Set(Sample(s), "processing") \in StatementsOf(c)
      <4>1. Set(Sample(s), "processing") \in Sets(c)
        BY <1>2 DEF Sets
      <4> QED BY <4>1 DEF StatementsOf
    <3>3. Set(Sample(s), "processing").row[1] # "member"
      BY CheckFields, RowNames
    <3>4. Update(Sample(s)) \in T /\ Set(Sample(s), "processing") \in T
      BY <1>2, <3>0, <3>1, <3>2, <3>3, LockNames, CheckFields, LabAllowed
    <3> QED BY <1>3, <3>4
  <2> HIDE DEF I, U, T
  <2> DEFINE g == [i \in DOMAIN a |-> I(a[i])]
             h == [i \in DOMAIN b |-> U(b[i])]
             p == FlattenSeq(g)
             q == FlattenSeq(h)
  <2>9. /\ DOMAIN a = 1..Len(a) /\ Len(a) \in Nat
        /\ \A i \in 1..Len(a) : a[i] \in c.samples
    BY <1>2, FiniteWafers, OrderOf
  <2>10. /\ DOMAIN b = 1..Len(b) /\ Len(b) \in Nat
         /\ \A i \in 1..Len(b) : b[i] \in Stale
    BY <2>2, FiniteWafers, OrderOf
  <2>11. p \in Seq(T)
    BY <2>7, <2>9, EachIn
  <2>12. q \in Seq(T)
    BY <2>2, <2>8, <2>10, EachIn
  <2>13. Proceed(c, Nothing, First \o p \o q)
    BY <2>1
  <2> HIDE DEF g, h, p, q
  <2>14. CASE v[Wip(x)] # "none"
    <3>1. First \o p \o q \in Seq(T)
      BY <2>11, <2>12, <2>14
    <3> HIDE DEF First
    <3> QED BY <1>1, <2>13, <3>1, NothingWritten, WorkOrders DEF T, st
  <2>15. CASE v[Wip(x)] = "none"
    <3> DEFINE y == Refer(Type(TypeOf[x]))
               z == Set(Wip(x), "created")
               F == <<y, z>> \o p \o q
    <3>1. y \in StatementsOf(c)
      BY <2>4 DEF StatementsOf, Locks, Modes, Refer
    <3>2. z \in T
      <4>1. z \in StatementsOf(c)
        BY <1>2, <2>5, <2>15 DEF StatementsOf, Sets
      <4>2. z.do = "set" /\ z.row = Wip(x)
        BY CheckFields
      <4> HIDE DEF z
      <4> QED BY <1>2, <2>4, <4>1, <4>2 DEF T, Allowed, Orderly, LabStatement
    <3>3. y.do = "lock" /\ y.row[1] = "type"
      BY LockNames
    <3>4. Proceed(c, Nothing, F)
      BY <2>13, <2>15
    <3> HIDE DEF y, z
    <3>5. /\ F \in Seq(T \cup {y})
          /\ \A k \in 1..Len(F) : F[k] \in T \/ (k = 1 /\ F[k] = y)
      BY <2>11, <2>12, <3>2, AfterFirst
    <3> HIDE DEF F
    <3>6. T \cup {y} \subseteq StatementsOf(c)
      BY <3>1 DEF T, Allowed
    <3>7. F \in Seq(StatementsOf(c))
      BY <3>5, <3>6
    <3>8. \A k \in 1..Len(F) :
            \/ Orderly(c, db, held[c], F[k])
            \/ /\ c.op \notin Requesting
               /\ k = 1 /\ held[c] = {} /\ F[k].do = "lock" /\ F[k].row[1] = "type"
      BY <1>2, <2>5, <2>6, <2>15, <3>3, <3>5 DEF T, Allowed
    <3>9. \A w, s : Member(w, s) \notin DOMAIN Nothing
      BY NothingWritten
    <3> QED BY <1>1, <3>4, <3>7, <3>8, <3>9, ProceedOrders DEF st
  <2> QED BY <2>14, <2>15
<1> HIDE DEF I, U, First, Stale, v
<1> QED
  BY <1>4, <1>5

LEMMA StepOrders ==
  ASSUME TxInv, OrderInv, NEW c \in calls, Step(c)
  PROVE  \/ Refuse(c)
         \/ left[c] # <<>> /\ Head(left[c]).do = "commit" /\ CommitTransaction(c)
         \/ LockOrder(c, db, left'[c], mine'[c], held'[c])
<1>0. left[c] # <<>>
  BY DEF Step
<1>1. CASE AcquireLock(c)
  BY <1>0, <1>1, AcquireOrders
<1>2. CASE MoveRow(c) \/ SetRow(c)
  BY <1>0, <1>2, MoveOrders, SetOrders
<1>3. CASE TestCondition(c) \/ CheckCompleted(c) \/ InsertDispatch(c)
  BY <1>0, <1>3, TestOrders
<1>4. CASE ShipSamples(c) \/ DeleteSamples(c) \/ CheckReceived(c)
  BY <1>0, <1>4, ShipOrders, DeleteOrders, ReceivedOrders
<1>5. CASE ValidateSamples(c)
  BY <1>0, <1>5, ValidateOrders
<1>6. CASE CascadeBatch(c) \/ RollVerdicts(c) \/ ExceptBatch(c)
  BY <1>0, <1>6, CascadeOrders, RollOrders, ExceptOrders
<1>7. CASE TryComplete(c) \/ AutoComplete(c)
  BY <1>0, <1>7, TryOrders, AutoOrders
<1>8. CASE BreakDeadlock(c)
  BY <1>8 DEF BreakDeadlock
<1> QED
  BY <1>0, <1>1, <1>2, <1>3, <1>4, <1>5, <1>6, <1>7, <1>8 DEF Step

-----------------------------------------------------------------------------
\* The commit of another call keeps a call's locks in order.

LEMMA LabLasts ==
  ASSUME NEW u, NEW v, \A r \in Requests : Later(v, r) => Later(u, r),
         NEW c \in Calls, NEW st \in StatementsOf(c), LabStatement(v, st)
  PROVE  LabStatement(u, st)
<1>1. st.do = "lock" => LabRow(u, st.row)
  BY DEF LabStatement, LabRow
<1>2. ASSUME st.do = "trycomplete" PROVE Later(u, Owner[st.on])
  <2>1. st.on \in Samples
    BY <1>2, StatementKinds, CheckKinds
  <2> QED BY <1>2, <2>1, TablesAssumption DEF LabStatement
<1>3. ASSUME st.do = "set", st.row[1] = "member" PROVE Later(u, Owner[st.row[3]])
  <2>1. st \in Sets(c)
    BY <1>3, StatementKinds
  <2>2. st.row[3] \in Samples
    <3>1. CASE c.op \in {"create_wip", "add_samples"}
      <4>1. c.samples \subseteq Samples
        BY <3>1, CallsOn
      <4>2. CASE \E s \in c.samples : st = Set(Member(c.on, s), "in")
        <5>1. PICK s \in c.samples : st = Set(Member(c.on, s), "in")
          BY <4>2
        <5>2. st.row = Member(c.on, s)
          BY <5>1, CheckFields
        <5> QED BY <4>1, <5>2, LockNames
      <4>3. CASE ~(\E s \in c.samples : st = Set(Member(c.on, s), "in"))
        <5>1. \/ \E s \in c.samples : st = Set(Sample(s), "processing")
              \/ st = Set(Wip(c.on), "created")
          BY <2>1, <3>1, <4>3 DEF Sets
        <5>2. \E s : st.row = Sample(s) \/ st.row = Wip(c.on)
          BY <5>1, CheckFields
        <5> QED BY <1>3, <5>2, RowNames
      <4> QED BY <4>2, <4>3
    <3>2. CASE c.op = "delete_draft"
      <4>1. \/ st = Set(Request(c.on), "none")
            \/ \E s \in SamplesOf(c.on) : st = Set(Sample(s), "none")
        BY <2>1, <3>2 DEF Sets
      <4>2. \E s : st.row = Sample(s) \/ st.row = Request(c.on)
        BY <4>1, CheckFields
      <4> QED BY <1>3, <4>2, RowNames
    <3>3. CASE c.op = "start"
      <4>1. st.row = Dispatch(c.on)
        BY <2>1, <3>3, CheckFields DEF Sets
      <4> QED BY <1>3, <4>1, RowNames
    <3> QED BY <2>1, <3>1, <3>2, <3>3 DEF Sets
  <2> QED BY <1>3, <2>2, TablesAssumption DEF LabStatement
<1> QED
  BY <1>1, <1>2, <1>3 DEF LabStatement

LEMMA OthersOrder ==
  ASSUME NEW o, NEW v, NEW K, NEW W, NEW G, Commits(o, v, K, W, G),
         NEW c, NEW L, NEW M, NEW H, CallInv(c, v, L, M, H), Exclude(H, G),
         LockOrder(c, v, L, M, H)
  PROVE  LockOrder(c, Over(W, v), L, M, H)
<1> DEFINE u == Over(W, v)
<1>1. /\ \A r \in Requests : Later(v, r) => Later(u, r)
      /\ \A row \in Rows \ DOMAIN W : u[row] = v[row]
      /\ c \in Calls /\ L \in Seq(StatementsOf(c))
  BY StaysThere, CommitFacts DEF CallInv, CallTypeOK
<1>2. \A i \in 1..Len(L) : L[i] \in StatementsOf(c)
  BY <1>1
<1> HIDE DEF u
<1>3. CASE c.op \in Requesting
  <2>1. RequestOrder(c, v, L, H)
    BY <1>3 DEF LockOrder
  <2>2. ASSUME Begins(c, v, H) PROVE Begins(c, u, H)
    <3>1. RequestOf(c) \in Requests
      BY <1>1, <1>3, CallsOn, TablesAssumption
         DEF Calls, RequestOf, Requesting, Settling, RunOps
    <3>2. /\ Request(RequestOf(c)) \in Rows
          /\ Request(RequestOf(c))[1] = "request"
      BY <3>1, RowFacts
    <3>3. Request(RequestOf(c)) \notin DOMAIN W
      BY <2>2, <3>2, LockedApart DEF Begins
    <3> QED BY <1>1, <2>2, <3>2, <3>3 DEF Begins
  <2>3. RequestOrder(c, u, L, H)
    BY <2>1, <2>2 DEF RequestOrder, OwnStatement
  <2> QED BY <1>3, <2>3 DEF LockOrder, u
<1>4. CASE c.op \notin Requesting
  <2>1. BatchOrder(c, v, L, M, H)
    BY <1>4 DEF LockOrder
  <2>2. ASSUME NEW i \in 1..Len(L)
        PROVE  \/ LabStatement(u, L[i])
               \/ /\ L[i].do = "lock" /\ L[i].row[1] \in {"dispatch", "wip", "type"}
                  /\ Already(L, H, i) \/ InTurn(L, H, i)
    BY <1>1, <1>2, <2>1, LabLasts DEF BatchOrder
  <2>3. \A w \in Wips, s \in Samples :
          Member(w, s) \in DOMAIN M => Later(u, Owner[s])
    BY <1>1, <2>1, TablesAssumption DEF BatchOrder
  <2>4. BatchOrder(c, u, L, M, H)
    BY <2>1, <2>2, <2>3 DEF BatchOrder
  <2> QED BY <1>4, <2>4 DEF LockOrder, u
<1> QED
  BY <1>3, <1>4

LEMMA CommitKeepsBatches ==
  ASSUME NEW o, NEW v, NEW K, NEW W, NEW G, Commits(o, v, K, W, G),
         LockOrder(o, v, K, W, G), BatchesStay(v)
  PROVE  BatchesStay(Over(W, v))
<1> DEFINE u == Over(W, v)
<1>1. /\ \A r \in Requests : Later(v, r) => Later(u, r)
      /\ \A row \in Rows \ DOMAIN W : u[row] = v[row]
      /\ \A row \in DOMAIN W : W[row] \in WritesOf(o, row)
      /\ o \in Calls /\ DOMAIN W \subseteq Rows
  BY StaysThere, CommitFacts
<1> HIDE DEF u
<1> SUFFICES ASSUME NEW w \in Wips, NEW s \in MembersOf(u, w)
             PROVE  Later(u, Owner[s])
  BY DEF BatchesStay, u
<1>2. /\ s \in Samples /\ u[Member(w, s)] = "in" /\ Owner[s] \in Requests
      /\ Member(w, s) \in Rows /\ Member(w, s)[1] = "member"
  BY RowFacts, TablesAssumption DEF MembersOf
<1>3. CASE Member(w, s) \in DOMAIN W
  <2>1. o.op \in {"create_wip", "add_samples"}
    BY <1>1, <1>2, <1>3, WhoWrites
  <2>2. Later(v, Owner[s])
    BY <1>2, <1>3, <2>1 DEF LockOrder, BatchOrder, Requesting, Settling
  <2> QED BY <1>1, <1>2, <2>2
<1>4. CASE Member(w, s) \notin DOMAIN W
  <2>1. v[Member(w, s)] = "in"
    BY <1>1, <1>2, <1>4
  <2>2. Later(v, Owner[s])
    BY <1>2, <2>1 DEF BatchesStay, MembersOf
  <2> QED BY <1>1, <1>2, <2>2
<1> QED
  BY <1>3, <1>4

LEMMA EndedOrder ==
  ASSUME NEW c, NEW v
  PROVE  LockOrder(c, v, <<>>, <<>>, {})
<1>1. Len(<<>>) = 0 /\ DOMAIN <<>> = {}
  OBVIOUS
<1>2. \A i \in 1..Len(<<>>) : FALSE
  BY <1>1
<1> QED
  BY <1>1, <1>2 DEF LockOrder, RequestOrder, BatchOrder

\* The transaction of call c ends.
LEMMA ReleaseOrder ==
  ASSUME TxInv, OrderInv, NEW c \in calls, Release(c), UNCHANGED calls,
         BatchesStay(db'),
         \A o \in calls \ {c} : LockOrder(o, db', left[o], mine[o], held[o])
  PROVE  OrderInv'
<1>1. TypeOK
  BY DEF TxInv
<1>2. /\ left'[c] = <<>> /\ held'[c] = {} /\ mine'[c] = <<>>
      /\ \A o \in calls : o # c => /\ left'[o] = left[o] /\ held'[o] = held[o]
                                  /\ mine'[o] = mine[o]
  BY <1>1 DEF TypeOK, Release
<1>3. ASSUME NEW o \in calls
      PROVE  LockOrder(o, db', left'[o], mine'[o], held'[o])
  BY <1>1, <1>2, EndedOrder
<1> QED
  BY <1>3 DEF OrderInv

LEMMA KeepsOrder ==
  ASSUME TxInv, TxInv', CascadeInv, OrderInv, [Next]_txVars
  PROVE  OrderInv'
<1>1. CASE UNCHANGED txVars
  BY <1>1 DEF txVars, OrderInv
<1>2. ASSUME NEW c \in calls, Step(c) PROVE OrderInv'
  <2>0. left[c] # <<>> /\ UNCHANGED calls
    BY <1>2 DEF Step
  <2>1. CASE Refuse(c)
    BY <2>0, <2>1, ReleaseOrder DEF Refuse, OrderInv
  <2>2. CASE Head(left[c]).do = "commit" /\ CommitTransaction(c)
    <3>1. Release(c) /\ db' = Over(mine[c], db)
      BY <2>2 DEF CommitTransaction, View
    <3>2. Commits(c, db, left[c], mine[c], held[c])
      BY <2>0, <2>2, HeadIs DEF Commits, CascadeInv
    <3>3. BatchesStay(db')
      BY <3>1, <3>2, CommitKeepsBatches DEF OrderInv
    <3>4. ASSUME NEW o \in calls \ {c}
          PROVE  LockOrder(o, db', left[o], mine[o], held[o])
      <4>1. CallInv(o, db, left[o], mine[o], held[o])
        BY DEF TxInv
      <4>2. Exclude(held[o], held[c])
        BY DEF TxInv, LocksExclude, Exclude
      <4>3. LockOrder(o, db, left[o], mine[o], held[o])
        BY DEF OrderInv
      <4> QED BY <3>1, <3>2, <4>1, <4>2, <4>3, OthersOrder
    <3> QED BY <2>0, <3>1, <3>3, <3>4, ReleaseOrder
  <2>3. CASE /\ ~Refuse(c)
             /\ ~(Head(left[c]).do = "commit" /\ CommitTransaction(c))
    <3>1. GoesOn(c)
      BY <1>2, <2>3, StepGoes
    <3>2. /\ db' = db
          /\ \A o \in calls : o # c => /\ left'[o] = left[o] /\ mine'[o] = mine[o]
                                      /\ held'[o] = held[o]
      BY <3>1 DEF GoesOn
    <3>3. LockOrder(c, db, left'[c], mine'[c], held'[c])
      BY <1>2, <2>3, StepOrders
    <3>4. ASSUME NEW o \in calls
          PROVE  LockOrder(o, db', left'[o], mine'[o], held'[o])
      BY <3>2, <3>3 DEF OrderInv
    <3>5. BatchesStay(db')
      BY <3>2 DEF OrderInv
    <3> QED BY <2>0, <3>4, <3>5 DEF OrderInv
  <2> QED BY <2>1, <2>2, <2>3
<1> QED
  BY <1>1, <1>2 DEF Next
-----------------------------------------------------------------------------
\* The locks of the handlers are in order.

\* Statement i of a program is no lock that is out of order.
Ordered(L, i) ==
    \/ /\ L[i].do \notin {"lock", "trycomplete"}
       /\ ~(L[i].do = "set" /\ L[i].row[1] = "member")
    \/ /\ L[i].do = "lock" /\ L[i].row[1] \in {"dispatch", "wip", "type"}
       /\ Already(L, {}, i) \/ InTurn(L, {}, i)

LEMMA ProgramOrder ==
  ASSUME NEW c, c.op \notin Requesting, NEW v, NEW L, \A i \in 1..Len(L) : Ordered(L, i),
         c.op = "create_wip" => \A i \in 1..Len(L) : L[i].do = "validate" => i = 1
  PROVE  LockOrder(c, v, L, <<>>, {})
<1>1. DOMAIN <<>> = {}
  OBVIOUS
<1>2. \A i \in 1..Len(L) :
        \/ LabStatement(v, L[i])
        \/ /\ L[i].do = "lock" /\ L[i].row[1] \in {"dispatch", "wip", "type"}
           /\ Already(L, {}, i) \/ InTurn(L, {}, i)
  BY DEF Ordered, LabStatement
<1> QED
  BY <1>1, <1>2 DEF LockOrder, BatchOrder

LEMMA RequestsOrder ==
  ASSUME NEW c, c.op \in Requesting, NEW v, NEW L,
         \A i \in 1..Len(L) : L[i].do = "lock" => OfRequest(L[i].row, RequestOf(c))
  PROVE  LockOrder(c, v, L, <<>>, {})
BY DEF LockOrder, RequestOrder, OwnStatement

LEMMA StartsRequesting ==
  ASSUME NEW c \in Calls, c.op \in Requesting, NEW v
  PROVE  LockOrder(c, v, Program(c), <<>>, {})
<1> DEFINE L == Program(c)
           r == RequestOf(c)
<1>1. /\ \A row : Lock(row).do = "lock" /\ Lock(row).row = row
      /\ \A row, action : Move(row, action).do # "lock"
      /\ \A row, value : Set(row, value).do # "lock"
      /\ Check("shipsamples", c.on).do # "lock"
      /\ Check("draft", c.on).do # "lock"
      /\ Check("deletesamples", c.on).do # "lock"
      /\ Check("received", r).do # "lock"
      /\ Check("completed", r).do # "lock"
      /\ Commit.do # "lock"
  BY DEF Lock, Move, Set, Check, Commit
<1>2. OfRequest(Request(r), r)
  BY DEF OfRequest
<1>3. ASSUME \A i \in 1..Len(L) : L[i].do = "lock" => OfRequest(L[i].row, r)
      PROVE  LockOrder(c, v, L, <<>>, {})
  BY <1>3, RequestsOrder
<1>4. CASE c.op \in {"submit", "approve", "cancel"}
  <2>1. r = c.on
    BY <1>4 DEF RequestOf, Settling
  <2>2. L = <<Lock(Request(r)), Move(Request(r), c.op), Commit>>
    BY <1>4, <2>1 DEF Program, RequestAction
  <2> HIDE DEF L, r
  <2>3. /\ Len(L) = 3 /\ L[1] = Lock(Request(r)) /\ L[2].do # "lock"
        /\ L[3].do # "lock"
    BY <1>1, <2>2
  <2> QED BY <1>1, <1>2, <1>3, <2>3 DEF L, r
<1>5. CASE c.op = "ship"
  <2>1. r = c.on
    BY <1>5 DEF RequestOf, Settling
  <2>2. L = <<Lock(Request(r)), Move(Request(r), "ship"),
              Check("shipsamples", c.on), Commit>>
    BY <1>5, <2>1 DEF Program, ShipRequest
  <2> HIDE DEF L, r
  <2>3. /\ Len(L) = 4 /\ L[1] = Lock(Request(r)) /\ L[2].do # "lock"
        /\ L[3].do # "lock" /\ L[4].do # "lock"
    BY <1>1, <2>2
  <2> QED BY <1>1, <1>2, <1>3, <2>3 DEF L, r
<1>6. CASE c.op = "delete_draft"
  <2>1. r = c.on
    BY <1>6 DEF RequestOf, Settling
  <2>2. L = <<Check("draft", c.on), Check("deletesamples", c.on),
              Lock(Request(r)), Set(Request(r), "none"), Commit>>
    BY <1>6, <2>1 DEF Program, DeleteDraft
  <2> HIDE DEF L, r
  <2>3. /\ Len(L) = 5 /\ L[1].do # "lock" /\ L[2].do # "lock"
        /\ L[3] = Lock(Request(r)) /\ L[4].do # "lock" /\ L[5].do # "lock"
    BY <1>1, <2>2
  <2> QED BY <1>1, <1>2, <1>3, <2>3 DEF L, r
<1>7. ASSUME c.op \in Settling
      PROVE  r = Owner[c.on] /\ OfRequest(Sample(c.on), r)
  <2>1. c.on \in Samples
    BY <1>7, CallsOn DEF Settling
  <2> QED BY <1>7, <2>1 DEF RequestOf, OfRequest, SamplesOf
<1>8. CASE c.op = "receive"
  <2>1. r = Owner[c.on] /\ OfRequest(Sample(c.on), r)
    BY <1>7, <1>8 DEF Settling
  <2>2. L = <<Lock(Sample(c.on)), Move(Sample(c.on), "receive"),
              Lock(Request(r)), Check("received", r), Commit>>
    BY <1>8, <2>1 DEF Program, ReceiveSample
  <2> HIDE DEF L, r
  <2>3. /\ Len(L) = 5 /\ L[1] = Lock(Sample(c.on)) /\ L[2].do # "lock"
        /\ L[3] = Lock(Request(r)) /\ L[4].do # "lock" /\ L[5].do # "lock"
    BY <1>1, <2>2
  <2> QED BY <1>1, <1>2, <1>3, <2>1, <2>3 DEF L, r
<1>9. CASE c.op \in {"void", "return"}
  <2>1. r = Owner[c.on] /\ OfRequest(Sample(c.on), r)
    BY <1>7, <1>9 DEF Settling
  <2>2. L = <<Lock(Sample(c.on)), Move(Sample(c.on), c.op), Lock(Request(r)),
              Check("received", r), Check("completed", r), Commit>>
    BY <1>9, <2>1 DEF Program, SettleSample
  <2> HIDE DEF L, r
  <2>3. /\ Len(L) = 6 /\ L[1] = Lock(Sample(c.on)) /\ L[2].do # "lock"
        /\ L[3] = Lock(Request(r)) /\ L[4].do # "lock" /\ L[5].do # "lock"
        /\ L[6].do # "lock"
    BY <1>1, <2>2
  <2> QED BY <1>1, <1>2, <1>3, <2>1, <2>3 DEF L, r
<1> QED
  BY <1>4, <1>5, <1>6, <1>8, <1>9 DEF Requesting, Settling

LEMMA OrderFields ==
  /\ \A row : /\ Lock(row).do = "lock" /\ Lock(row).row = row
              /\ Refer(row).do = "lock" /\ Refer(row).row = row
  /\ \A row, action : Move(row, action).do = "move"
  /\ \A row, value : Set(row, value).do = "set" /\ Set(row, value).row = row
  /\ \A row, old, value : SetIf(row, old, value).do = "setif"
  /\ \A what, on : Check(what, on).do = what
  /\ Commit.do = "commit"
  /\ \A d : Dispatch(d)[1] = "dispatch"
  /\ \A w : Wip(w)[1] = "wip"
  /\ \A t : Type(t)[1] = "type"
BY DEF Lock, Refer, Move, Set, SetIf, Check, Commit, Dispatch, Wip, Type

\* A program of at most one WIP: no lock, or the lock of one row first.
LEMMA BatchesOrder ==
  ASSUME NEW c \in Calls, NEW v,
         c.op \in {"create_wip", "add_samples", "create_dispatch",
                   "complete_wip", "abort_wip", "start", "report_exception"}
  PROVE  LockOrder(c, v, Program(c), <<>>, {})
<1> DEFINE L == Program(c)
<1>1. c.op \notin Requesting
  BY DEF Requesting, Settling
<1>2. ASSUME \A i \in 1..Len(L) : Ordered(L, i),
             c.op = "create_wip" => \A i \in 1..Len(L) : L[i].do = "validate" => i = 1
      PROVE  LockOrder(c, v, L, <<>>, {})
  BY <1>1, <1>2, ProgramOrder
<1>3. CASE c.op = "create_wip"
  <2> DEFINE y == [do |-> "validate", on |-> c.on, samples |-> c.samples]
  <2>0. y.do = "validate"
    OBVIOUS
  <2>1. L = <<y, Commit>>
    BY <1>3 DEF Program, CreateWip
  <2> HIDE DEF L, y
  <2>2. Len(L) = 2 /\ L[1].do = "validate" /\ L[2].do = "commit"
    BY <2>0, <2>1, OrderFields
  <2>3. \A i \in 1..Len(L) : Ordered(L, i) /\ (L[i].do = "validate" => i = 1)
    BY <2>2 DEF Ordered
  <2> QED BY <1>2, <2>3 DEF L
<1>4. CASE c.op = "add_samples"
  <2> DEFINE y == [do |-> "validate", on |-> c.on, samples |-> c.samples]
  <2>0. y.do = "validate"
    OBVIOUS
  <2>1. L = <<Lock(Wip(c.on)), Lock(Type(TypeOf[c.on])), Check("open", c.on), y,
              Commit>>
    BY <1>4 DEF Program, AddSamples
  <2> HIDE DEF L, y
  <2>2. /\ Len(L) = 5
        /\ L[1].do = "lock" /\ L[1].row[1] = "wip"
        /\ L[2].do = "lock" /\ L[2].row[1] = "type"
        /\ L[3].do = "open" /\ L[4].do = "validate" /\ L[5].do = "commit"
    BY <2>0, <2>1, OrderFields
  <2>3. \A i \in 1..Len(L) : Ordered(L, i)
    BY <2>2 DEF Ordered, InTurn, Earlier
  <2> QED BY <1>2, <1>4, <2>3 DEF L
<1>5. CASE c.op = "create_dispatch"
  <2> DEFINE w == WipOf[c.on]
             y == [do |-> "dispatch", on |-> w, new |-> c.on]
  <2>0. y.do = "dispatch"
    OBVIOUS
  <2>1. L = <<Lock(Wip(w)), Lock(Type(TypeOf[w])), Check("alldone", w), y, Commit>>
    BY <1>5 DEF Program, CreateDispatch
  <2> HIDE DEF L, y, w
  <2>2. /\ Len(L) = 5
        /\ L[1].do = "lock" /\ L[1].row[1] = "wip"
        /\ L[2].do = "lock" /\ L[2].row[1] = "type"
        /\ L[3].do = "alldone" /\ L[4].do = "dispatch" /\ L[5].do = "commit"
    BY <2>0, <2>1, OrderFields
  <2>3. \A i \in 1..Len(L) : Ordered(L, i)
    BY <2>2 DEF Ordered, InTurn, Earlier
  <2> QED BY <1>2, <1>5, <2>3 DEF L
<1>6. CASE c.op = "complete_wip"
  <2>1. L = <<Lock(Wip(c.on)), Check("alldone", c.on), Move(Wip(c.on), "complete"),
              Check("cascade", c.on), Commit>>
    BY <1>6 DEF Program, CompleteWip
  <2> HIDE DEF L
  <2>2. /\ Len(L) = 5
        /\ L[1].do = "lock" /\ L[1].row[1] = "wip"
        /\ L[2].do = "alldone" /\ L[3].do = "move" /\ L[4].do = "cascade"
        /\ L[5].do = "commit"
    BY <2>1, OrderFields
  <2>3. \A i \in 1..Len(L) : Ordered(L, i)
    BY <2>2 DEF Ordered, InTurn, Earlier
  <2> QED BY <1>2, <1>6, <2>3 DEF L
<1>7. CASE c.op = "abort_wip"
  <2>1. L = <<Lock(Wip(c.on)), Move(Wip(c.on), "abort"), Check("except", c.on),
              Commit>>
    BY <1>7 DEF Program, AbortWip
  <2> HIDE DEF L
  <2>2. /\ Len(L) = 4
        /\ L[1].do = "lock" /\ L[1].row[1] = "wip"
        /\ L[2].do = "move" /\ L[3].do = "except" /\ L[4].do = "commit"
    BY <2>1, OrderFields
  <2>3. \A i \in 1..Len(L) : Ordered(L, i)
    BY <2>2 DEF Ordered, InTurn, Earlier
  <2> QED BY <1>2, <1>7, <2>3 DEF L
<1>8. CASE c.op = "start"
  <2>1. L = <<Lock(Dispatch(c.on)), Check("startable", c.on),
              Set(Dispatch(c.on), "running"), Commit>>
    BY <1>8 DEF Program, StartDispatch
  <2> HIDE DEF L
  <2>2. /\ Len(L) = 4
        /\ L[1].do = "lock" /\ L[1].row[1] = "dispatch"
        /\ L[2].do = "startable" /\ L[3].do = "set" /\ L[3].row[1] = "dispatch"
        /\ L[4].do = "commit"
    BY <2>1, OrderFields
  <2>3. \A i \in 1..Len(L) : Ordered(L, i)
    BY <2>2 DEF Ordered, InTurn, Earlier
  <2> QED BY <1>2, <1>8, <2>3 DEF L
<1>9. CASE c.op = "report_exception"
  <2>1. L = <<Lock(Dispatch(c.on)), Move(Dispatch(c.on), "report_exception"),
              Commit>>
    BY <1>9 DEF Program, ReportException
  <2> HIDE DEF L
  <2>2. /\ Len(L) = 3
        /\ L[1].do = "lock" /\ L[1].row[1] = "dispatch"
        /\ L[2].do = "move" /\ L[3].do = "commit"
    BY <2>1, OrderFields
  <2>3. \A i \in 1..Len(L) : Ordered(L, i)
    BY <2>2 DEF Ordered, InTurn, Earlier
  <2> QED BY <1>2, <1>9, <2>3 DEF L
<1> QED
  BY <1>3, <1>4, <1>5, <1>6, <1>7, <1>8, <1>9

\* A statement that takes no lock, or takes the given lock once more.
Harmless(x) ==
    x.do \notin {"lock", "trycomplete"} /\ ~(x.do = "set" /\ x.row[1] = "member")

\* The list is in order and takes the lock of the row.
TakesInOrder(L, row) ==
    /\ \A i \in 1..Len(L) : Ordered(L, i)
    /\ \E i \in 1..Len(L) : L[i] = Lock(row)

LEMMA OrderedConcat ==
  ASSUME NEW S, NEW a \in Seq(S), NEW b \in Seq(S), NEW row, row[1] = "wip",
         TakesInOrder(a, row),
         \A i \in 1..Len(b) : Harmless(b[i]) \/ b[i] = Lock(row)
  PROVE  a \o b \in Seq(S) /\ TakesInOrder(a \o b, row)
<1> DEFINE N == a \o b
<1>1. /\ N \in Seq(S) /\ Len(N) = Len(a) + Len(b)
      /\ Len(a) \in Nat /\ Len(b) \in Nat
      /\ \A k \in 1..Len(a) : N[k] = a[k]
      /\ \A k \in 1..Len(N) :
            \/ k \in 1..Len(a)
            \/ k - Len(a) \in 1..Len(b) /\ N[k] = b[k - Len(a)]
  BY ConcatIn
<1> HIDE DEF N
<1>2. PICK j \in 1..Len(a) : a[j] = Lock(row)
  BY DEF TakesInOrder
<1>3. j \in 1..Len(N) /\ N[j] = Lock(row)
  BY <1>1, <1>2
<1>4. ASSUME NEW i \in 1..Len(a) PROVE Ordered(N, i)
  <2>1. \A k \in 1..(i - 1) : k \in 1..Len(a) /\ N[k] = a[k]
    BY <1>1
  <2>2. N[i] = a[i] /\ Ordered(a, i)
    BY <1>1 DEF TakesInOrder
  <2>3. Already(a, {}, i) => Already(N, {}, i)
    BY <2>1, <2>2 DEF Already
  <2>4. InTurn(a, {}, i) => InTurn(N, {}, i)
    BY <2>1, <2>2 DEF InTurn
  <2> QED BY <2>2, <2>3, <2>4 DEF Ordered
<1>5. ASSUME NEW i \in 1..Len(N), i \notin 1..Len(a) PROVE Ordered(N, i)
  <2>1. Harmless(N[i]) \/ N[i] = Lock(row)
    BY <1>1, <1>5
  <2>2. CASE Harmless(N[i])
    BY <2>2 DEF Harmless, Ordered
  <2>3. CASE N[i] = Lock(row)
    <3>1. N[i].do = "lock" /\ N[i].row = row
      BY <2>3, OrderFields
    <3>2. j \in 1..(i - 1)
      BY <1>1, <1>2, <1>5
    <3>3. Already(N, {}, i)
      BY <1>3, <3>1, <3>2 DEF Already
    <3> QED BY <3>1, <3>3 DEF Ordered
  <2> QED BY <2>1, <2>2, <2>3
<1>6. \A i \in 1..Len(N) : Ordered(N, i)
  BY <1>4, <1>5
<1>7. TakesInOrder(N, row)
  BY <1>3, <1>6 DEF TakesInOrder
<1> QED
  BY <1>1, <1>7 DEF N

\* The programs about a run lock the dispatch, its WIP and the type in this
\* order; a second lock of the WIP is a lock that is held.
LEMMA RunsOrder ==
  ASSUME NEW c \in Calls, NEW v,
         c.op \in {"unload", "record_result", "equipment_result", "finalize"}
  PROVE  LockOrder(c, v, Program(c), <<>>, {})
<1> DEFINE S == StatementsOf(c)
           d == c.on
           row == Wip(WipOf[d])
           A == LockRun(d)
           U == Unload(d)
           R == Record(d)
           C == <<Commit>>
           K == <<Check("running", d)>>
           Part(L) == L \in Seq(S) /\ TakesInOrder(L, row)
           Rest(L) == /\ L \in Seq(S)
                      /\ \A i \in 1..Len(L) : Harmless(L[i]) \/ L[i] = Lock(row)
<1>0. /\ c.op \notin Requesting /\ c.op # "create_wip"
      /\ d \in Dispatches /\ row[1] = "wip"
  BY CallsOn, OrderFields DEF RunOps, Requesting, Settling
<1>1. ASSUME \A i \in 1..Len(Program(c)) : Ordered(Program(c), i)
      PROVE  LockOrder(c, v, Program(c), <<>>, {})
  BY <1>0, <1>1, ProgramOrder
<1>2. /\ A \in Seq(S) /\ C \in Seq(S)
      /\ c.op # "record_result" => U \in Seq(S)
      /\ c.op # "unload" => R \in Seq(S)
      /\ c.op = "finalize" => K \in Seq(S)
  <2> HIDE DEF S
  <2> QED BY <1>0, RunParts DEF S
<1>3. /\ Len(A) = 3
      /\ A[1].do = "lock" /\ A[1].row[1] = "dispatch"
      /\ A[2].do = "lock" /\ A[2].row[1] = "wip" /\ A[2] = Lock(row)
      /\ A[3].do = "lock" /\ A[3].row[1] = "type"
  BY OrderFields DEF LockRun
<1>4. Len(U) = 2 /\ U[1].do = "move" /\ U[2].do = "roll"
  BY OrderFields DEF Unload
<1>5. /\ Len(R) = 3 /\ R[1].do = "move" /\ R[2] = Lock(row)
      /\ R[3].do = "autocomplete"
  BY OrderFields DEF Record
<1>6. /\ Len(C) = 1 /\ C[1].do = "commit"
      /\ Len(K) = 1 /\ K[1].do = "running"
  BY OrderFields
<1> HIDE DEF S, d, row, A, U, R, C, K
<1>7. Part(A)
  <2>1. \A i \in 1..Len(A) : Ordered(A, i)
    BY <1>3 DEF Ordered, InTurn, Earlier
  <2> QED BY <1>2, <1>3, <2>1 DEF TakesInOrder
<1>8. /\ c.op # "record_result" => Rest(U)
      /\ c.op # "unload" => Rest(R)
      /\ c.op = "finalize" => Rest(K)
      /\ Rest(C)
  BY <1>2, <1>4, <1>5, <1>6 DEF Harmless
<1>9. c.op = "finalize" => Part(K \o A)
  <2> DEFINE N == K \o A
  <2> SUFFICES ASSUME c.op = "finalize" PROVE Part(N)
    OBVIOUS
  <2>1. /\ N \in Seq(S) /\ Len(N) = Len(K) + Len(A)
        /\ \A k \in 1..Len(K) : N[k] = K[k]
        /\ \A k \in 1..Len(N) :
              k \in 1..Len(K) \/ (k - Len(K) \in 1..Len(A) /\ N[k] = A[k - Len(K)])
    BY <1>2, ConcatIn
  <2> HIDE DEF N
  <2>2. /\ Len(N) = 4 /\ N[1].do = "running"
        /\ N[2].do = "lock" /\ N[2].row[1] = "dispatch"
        /\ N[3].do = "lock" /\ N[3].row[1] = "wip" /\ N[3] = Lock(row)
        /\ N[4].do = "lock" /\ N[4].row[1] = "type"
    BY <1>3, <1>6, <2>1
  <2>3. \A i \in 1..Len(N) : Ordered(N, i)
    BY <2>2 DEF Ordered, InTurn, Earlier
  <2> QED BY <2>1, <2>2, <2>3 DEF TakesInOrder
<1>10. ASSUME NEW L, NEW N, Part(L), Rest(N) PROVE Part(L \o N)
  BY <1>0, <1>10, OrderedConcat
<1> HIDE DEF Part, Rest
<1> SUFFICES Part(Program(c))
  BY <1>1 DEF Part, TakesInOrder
<1>11. CASE c.op = "unload"
  <2>1. Part((A \o U) \o C)
    BY <1>7, <1>8, <1>10, <1>11
  <2> QED BY <1>11, <2>1 DEF Program, UnloadDispatch, A, U, C, d
<1>12. CASE c.op = "record_result"
  <2>1. Part((A \o R) \o C)
    BY <1>7, <1>8, <1>10, <1>12
  <2> QED BY <1>12, <2>1 DEF Program, RecordResult, A, R, C, d
<1>13. CASE c.op = "equipment_result"
  <2>1. Part(((A \o U) \o R) \o C)
    BY <1>7, <1>8, <1>10, <1>13
  <2> QED BY <1>13, <2>1 DEF Program, CompleteDispatchRun, A, U, R, C, d
<1>14. CASE c.op = "finalize"
  <2>1. Part(((((K \o A) \o K) \o U) \o R) \o C)
    BY <1>8, <1>9, <1>10, <1>14
  <2> QED BY <1>14, <2>1 DEF Program, FinalizeDueDispatch, A, U, R, C, K, d
<1> QED
  BY <1>11, <1>12, <1>13, <1>14

LEMMA OtherRunsOrder ==
  ASSUME NEW c \in Calls, NEW v, c.op \in {"redispatch", "abort_dispatch"}
  PROVE  LockOrder(c, v, Program(c), <<>>, {})
<1> DEFINE L == Program(c)
           d == c.on
           w == WipOf[d]
<1>0. c.op \notin Requesting /\ c.op # "create_wip"
  BY DEF Requesting, Settling
<1>1. ASSUME \A i \in 1..Len(L) : Ordered(L, i)
      PROVE  LockOrder(c, v, L, <<>>, {})
  BY <1>0, <1>1, ProgramOrder
<1>2. CASE c.op = "redispatch"
  <2>1. L = <<Lock(Dispatch(d)), Lock(Wip(w)), Move(Dispatch(d), "redispatch"),
              Refer(Type(TypeOf[w])), SetIf(Dispatch(c.new), "none", "pending"),
              Commit>>
    BY <1>2 DEF Program, Redispatch
  <2> HIDE DEF L, d, w
  <2>2. /\ Len(L) = 6
        /\ L[1].do = "lock" /\ L[1].row[1] = "dispatch"
        /\ L[2].do = "lock" /\ L[2].row[1] = "wip"
        /\ L[3].do = "move"
        /\ L[4].do = "lock" /\ L[4].row[1] = "type"
        /\ L[5].do = "setif" /\ L[6].do = "commit"
    BY <2>1, OrderFields
  <2>3. \A i \in 1..Len(L) : Ordered(L, i)
    BY <2>2 DEF Ordered, InTurn, Earlier
  <2> QED BY <1>1, <2>3 DEF L
<1>3. CASE c.op = "abort_dispatch"
  <2>1. L = <<Lock(Dispatch(d)), Move(Dispatch(d), "abort"), Lock(Wip(w)),
              Check("autocomplete", w), Commit>>
    BY <1>3 DEF Program, AbortDispatch
  <2> HIDE DEF L, d, w
  <2>2. /\ Len(L) = 5
        /\ L[1].do = "lock" /\ L[1].row[1] = "dispatch"
        /\ L[2].do = "move"
        /\ L[3].do = "lock" /\ L[3].row[1] = "wip"
        /\ L[4].do = "autocomplete" /\ L[5].do = "commit"
    BY <2>1, OrderFields
  <2>3. \A i \in 1..Len(L) : Ordered(L, i)
    BY <2>2 DEF Ordered, InTurn, Earlier
  <2> QED BY <1>1, <2>3 DEF L
<1> QED
  BY <1>2, <1>3

LEMMA StartsOrder ==
  ASSUME NEW c \in Calls, NEW v
  PROVE  LockOrder(c, v, Program(c), <<>>, {})
<1>1. \/ c.op \in Requesting
      \/ c.op \in {"create_wip", "add_samples", "create_dispatch",
                   "complete_wip", "abort_wip", "start", "report_exception"}
      \/ c.op \in {"unload", "record_result", "equipment_result", "finalize"}
      \/ c.op \in {"redispatch", "abort_dispatch"}
  BY DEF Calls, RunOps, Requesting, Settling
<1> QED
  BY <1>1, StartsRequesting, BatchesOrder, RunsOrder, OtherRunsOrder

THEOREM OrderInit == Init => OrderInv
<1> SUFFICES ASSUME Init PROVE OrderInv
  OBVIOUS
<1>1. /\ db \in StartDbs /\ calls \in Races
      /\ left = [c \in calls |-> Program(c)]
      /\ mine = [c \in calls |-> <<>>] /\ held = [c \in calls |-> {}]
  BY DEF Init
<1>2. calls \subseteq Calls
  BY <1>1, RacesAssumption
<1>3. BatchesStay(db)
  BY <1>1, StartAssumption DEF Consistent, BatchesInLab, BatchesStay, Later
<1>4. ASSUME NEW c \in calls PROVE LockOrder(c, db, left[c], mine[c], held[c])
  BY <1>1, <1>2, StartsOrder
<1> QED
  BY <1>3, <1>4 DEF OrderInv

\* The programs that the calls start with, and every step, keep the order.
THEOREM OrderInvariant == Spec => [](TxInv /\ CascadeInv /\ OrderInv)
<1>1. TxInv /\ CascadeInv /\ OrderInv /\ [Next]_txVars
        => (TxInv /\ CascadeInv /\ OrderInv)'
  BY StepInv, KeepsCascades, KeepsOrder
<1> QED BY InitInv, CascadeInit, OrderInit, <1>1, PTL DEF Spec

-----------------------------------------------------------------------------
\* Who waits for whom.

\* The calls that c waits for over a chain of at most n others.
Reaches(f, c) ==
    f = [n \in 0..Cardinality(calls) |->
            IF n = 0 THEN BlockersOf(c)
            ELSE f[n - 1] \cup UNION {BlockersOf(o) : o \in f[n - 1]}]

LEMMA ReachExists ==
  ASSUME NEW c, Cardinality(calls) \in Nat
  PROVE  \E f : Reaches(f, c)
<1> DEFINE N == Cardinality(calls)
           Next1(X) == X \cup UNION {BlockersOf(o) : o \in X}
           Upto(m, f) == \A n \in 0..m :
                f[n] = IF n = 0 THEN BlockersOf(c) ELSE Next1(f[n - 1])
           P(m) == \E f : f = [n \in 0..m |-> f[n]] /\ Upto(m, f)
           G == {m \in Nat : P(m)}
<1>1. P(0)
  <2> DEFINE g == [n \in 0..0 |-> BlockersOf(c)]
  <2>1. g = [n \in 0..0 |-> g[n]] /\ Upto(0, g)
    OBVIOUS
  <2> QED BY <2>1
<1>2. ASSUME NEW m \in Nat, P(m) PROVE P(m + 1)
  <2>1. PICK f : Upto(m, f)
    BY <1>2
  <2> DEFINE g == [n \in 0..(m + 1) |-> IF n = m + 1 THEN Next1(f[m]) ELSE f[n]]
  <2> HIDE DEF Next1
  <2>2. g = [n \in 0..(m + 1) |-> g[n]]
    OBVIOUS
  <2>3. ASSUME NEW n \in 0..(m + 1)
        PROVE  g[n] = IF n = 0 THEN BlockersOf(c) ELSE Next1(g[n - 1])
    <3>1. CASE n = m + 1
      <4>1. g[n] = Next1(f[m]) /\ g[n - 1] = f[m] /\ n # 0
        BY <3>1
      <4> QED BY <4>1
    <3>2. CASE n # m + 1
      <4>1. n \in 0..m /\ g[n] = f[n]
        BY <3>2
      <4>2. n # 0 => g[n - 1] = f[n - 1]
        BY <4>1
      <4> QED BY <2>1, <4>1, <4>2
    <3> QED BY <3>1, <3>2
  <2> HIDE DEF g
  <2>4. Upto(m + 1, g)
    BY <2>3
  <2> QED BY <2>2, <2>4
<1>3. P(N)
  <2>1. \A m \in Nat : P(m) => P(m + 1)
    <3> HIDE DEF P
    <3> QED BY <1>2
  <2> HIDE DEF P
  <2>2. /\ G \in SUBSET Nat /\ 0 \in G /\ \A m \in G : m + 1 \in G
    BY <1>1, <2>1
  <2> HIDE DEF G
  <2>3. G = Nat
    BY <2>2, NatInd
  <2>4. N \in G
    BY <2>3
  <2> QED BY <2>4 DEF G
<1>4. PICK f : f = [n \in 0..N |-> f[n]] /\ Upto(N, f)
  BY <1>3
<1>5. f = [n \in 0..N |-> IF n = 0 THEN BlockersOf(c)
             ELSE f[n - 1] \cup UNION {BlockersOf(o) : o \in f[n - 1]}]
  BY <1>4
<1> QED
  BY <1>5, Zenon DEF Reaches

\* A set that has the calls c waits for, and with a call those it waits for,
\* has every call on a circle through c.
LEMMA CircleWithin ==
  ASSUME NEW c, Cardinality(calls) \in Nat, NEW X, BlockersOf(c) \subseteq X,
         \A o \in X : BlockersOf(o) \subseteq X, InCycle(c)
  PROVE  c \in X
<1> DEFINE N == Cardinality(calls)
           g == CHOOSE f : f = [n \in 0..Cardinality(calls) |->
                    IF n = 0 THEN BlockersOf(c)
                    ELSE f[n - 1] \cup UNION {BlockersOf(o) : o \in f[n - 1]}]
           G == {n \in Nat : n <= N => g[n] \subseteq X}
<1>1. c \in g[N]
  BY DEF InCycle
<1>2. Reaches(g, c)
  <2>1. \E f : Reaches(f, c)
    BY ReachExists
  <2> QED BY <2>1, Zenon DEF Reaches
<1> HIDE DEF g
<1>3. \A n \in 0..N : g[n] = IF n = 0 THEN BlockersOf(c)
             ELSE g[n - 1] \cup UNION {BlockersOf(o) : o \in g[n - 1]}
  BY <1>2 DEF Reaches
<1>4. 0 \in G
  <2>1. 0 \in 0..N /\ 0 \in Nat
    OBVIOUS
  <2>2. g[0] = BlockersOf(c)
    BY <1>3, <2>1
  <2> QED BY <2>1, <2>2
<1>5. ASSUME NEW n \in G PROVE n + 1 \in G
  <2> SUFFICES ASSUME n + 1 <= N PROVE g[n + 1] \subseteq X
    BY <1>5
  <2>1. n \in 0..N /\ n + 1 \in 0..N /\ n + 1 # 0 /\ (n + 1) - 1 = n
    OBVIOUS
  <2>2. g[n + 1] = g[n] \cup UNION {BlockersOf(o) : o \in g[n]}
    BY <1>3, <2>1
  <2>3. g[n] \subseteq X
    BY <2>1
  <2> QED BY <2>2, <2>3
<1>6. G = Nat
  <2>1. G \in SUBSET Nat
    OBVIOUS
  <2> HIDE DEF G
  <2> QED BY <1>4, <1>5, <2>1, NatInd
<1>7. g[N] \subseteq X
  <2>1. N \in G
    BY <1>6
  <2> QED BY <2>1
<1> QED
  BY <1>1, <1>7

LEMMA RequestOfIn ==
  ASSUME NEW c \in Calls, c.op \in Requesting
  PROVE  RequestOf(c) \in Requests
BY CallsOn, TablesAssumption DEF Calls, RequestOf, Requesting, Settling, RunOps

\* A wafer belongs to one request.
LEMMA OneRequest ==
  ASSUME NEW row, NEW r \in Requests, NEW q \in Requests,
         OfRequest(row, r), OfRequest(row, q)
  PROVE  r = q /\ row[1] \in {"request", "sample"}
<1>1. \A x : /\ Request(x)[1] = "request" /\ Request(x)[2] = x
             /\ Sample(x)[1] = "sample" /\ Sample(x)[2] = x
  BY DEF Request, Sample
<1> QED
  BY <1>1 DEF OfRequest, SamplesOf

LEMMA LabTables ==
  ASSUME NEW v, NEW row, LabRow(v, row)
  PROVE  row[1] \in {"request", "sample"}
BY OneRequest DEF LabRow

\* The call that holds the lock another waits for holds it in a mode that
\* excludes what is asked for.
LEMMA BlockersHold ==
  ASSUME NEW c, NEW o \in BlockersOf(c)
  PROVE  /\ o \in calls /\ o # c /\ Waiting(c)
         /\ \E h \in held[o] : /\ h[1] = Head(left[c]).row
                               /\ ~Compatible(h[2], Head(left[c]).mode)
BY DEF BlockersOf, Blockers

LEMMA Excluded ==
  /\ \A m : ~Compatible("update", m) /\ ~Compatible(m, "update")
  /\ \A m : ~Compatible(m, "share") => m = "update"
BY DEF Compatible

\* What a waiting call may wait for.
WaitsInTurn(c, row) ==
    /\ c.op \notin Requesting /\ row[1] \in {"dispatch", "wip", "type"}
    /\ \A h \in held[c] : h[1][1] \in Earlier(row[1])

WaitsToBegin(c, st) ==
    /\ c.op \in Requesting /\ st.row[1] = "type" /\ st.mode = "share"
    /\ db[Request(RequestOf(c))] = "sample_shipped"

LEMMA WaitsOrderly ==
  ASSUME TxInv, OrderInv, NEW c \in calls, Waiting(c)
  PROVE  LET st == Head(left[c]) IN
         \/ c.op \notin Requesting /\ LabRow(db, st.row)
         \/ WaitsInTurn(c, st.row)
         \/ c.op \in Requesting /\ OfRequest(st.row, RequestOf(c))
         \/ WaitsToBegin(c, st)
<1> DEFINE L == left[c]
           st == Head(L)
<1>1. /\ c \in Calls /\ L \in Seq(StatementsOf(c)) /\ L # <<>>
      /\ CallInv(c, db, L, mine[c], held[c])
      /\ LockOrder(c, db, L, mine[c], held[c])
      /\ LocksExclude
  BY DEF TxInv, CallInv, CallTypeOK, OrderInv, Waiting
<1>2. st = L[1] /\ 1 \in 1..Len(L)
  BY <1>1
<1>3. st.do = "lock" /\ Blockers(c, st.row, st.mode) # {}
  BY DEF Waiting
<1>4. <<st.row, "update">> \notin held[c]
  <2> SUFFICES ASSUME <<st.row, "update">> \in held[c] PROVE FALSE
    OBVIOUS
  <2>1. PICK o \in calls \ {c} : \E h \in held[o] :
            h[1] = st.row /\ ~Compatible(h[2], st.mode)
    BY <1>3 DEF Blockers
  <2>2. PICK h \in held[o] : h[1] = st.row
    BY <2>1
  <2> DEFINE k == <<st.row, "update">>
  <2>3. k[1] = h[1] /\ k[2] = "update" /\ k \in held[c]
    BY <2>2
  <2> HIDE DEF k, st
  <2>4. Compatible(k[2], h[2])
    BY <1>1, <2>1, <2>2, <2>3 DEF LocksExclude
  <2> QED BY <2>3, <2>4, Excluded
<1> HIDE DEF st, L
<1>5. CASE c.op \in Requesting
  <2>1. OwnStatement(c, db, held[c], st)
    BY <1>1, <1>2, <1>5 DEF LockOrder, RequestOrder
  <2>2. OfRequest(st.row, RequestOf(c)) \/ WaitsToBegin(c, st)
    BY <1>3, <1>5, <2>1 DEF OwnStatement, WaitsToBegin, Begins
  <2> QED BY <1>5, <2>2 DEF st, L
<1>6. CASE c.op \notin Requesting
  <2>1. \/ LabStatement(db, st)
        \/ /\ st.row[1] \in {"dispatch", "wip", "type"}
           /\ Already(L, held[c], 1) \/ InTurn(L, held[c], 1)
    BY <1>1, <1>2, <1>6 DEF LockOrder, BatchOrder
  <2>2. CASE LabStatement(db, st)
    <3>1. LabRow(db, st.row)
      BY <1>3, <2>2 DEF LabStatement
    <3> QED BY <1>6, <3>1 DEF st, L
  <2>3. CASE /\ st.row[1] \in {"dispatch", "wip", "type"}
             /\ Already(L, held[c], 1) \/ InTurn(L, held[c], 1)
    <3>1. ~Already(L, held[c], 1)
      BY <1>2, <1>4 DEF Already
    <3>2. WaitsInTurn(c, st.row)
      BY <1>2, <1>6, <2>3, <3>1 DEF InTurn, WaitsInTurn
    <3> QED BY <3>2 DEF st, L
  <2> QED BY <2>1, <2>2, <2>3
<1> QED
  BY <1>5, <1>6

\* Over rows of dispatches, WIPs and types nobody waits in a circle: whoever
\* waits for one holds rows of earlier tables only, and whoever holds a row of
\* another table waits for no earlier one.
LEMMA NoCircleInTurn ==
  ASSUME TxInv, OrderInv, Cardinality(calls) \in Nat, NEW c \in calls,
         Waiting(c), WaitsInTurn(c, Head(left[c]).row)
  PROVE  ~InCycle(c)
<1> DEFINE E == Earlier(Head(left[c]).row[1])
           X == {o \in calls \ {c} : \E h \in held[o] : h[1][1] \notin E}
<1>1. /\ E \subseteq {"dispatch", "wip"}
      /\ Head(left[c]).row[1] \notin E
      /\ \A t \in E : Earlier(t) \subseteq E
      /\ \A h \in held[c] : h[1][1] \in E
  BY DEF WaitsInTurn, Earlier
<1> HIDE DEF E
<1>2. BlockersOf(c) \subseteq X
  BY <1>1, BlockersHold
<1>3. ASSUME NEW o \in X, NEW p \in BlockersOf(o) PROVE p \in X
  <2> DEFINE row == Head(left[o]).row
  <2>1. /\ Waiting(o) /\ p \in calls
        /\ \E h \in held[p] : h[1] = row
    BY <1>3, BlockersHold
  <2>2. row[1] \notin E
    <3> SUFFICES ASSUME row[1] \in E PROVE FALSE
      OBVIOUS
    <3> HIDE DEF row
    <3>1. row[1] \in {"dispatch", "wip"}
      BY <1>1
    <3>2. row[1] \notin {"request", "sample", "type"}
      BY <3>1
    <3>3. ~LabRow(db, row)
      BY <3>2, LabTables
    <3>4. ~(o.op \in Requesting /\ OfRequest(row, RequestOf(o)))
      <4> SUFFICES ASSUME o.op \in Requesting, OfRequest(row, RequestOf(o))
                   PROVE FALSE
        OBVIOUS
      <4>1. o \in Calls
        BY <1>3 DEF TxInv, CallInv, CallTypeOK
      <4> QED BY <3>2, <4>1, RequestOfIn, OneRequest
    <3>5. ~WaitsToBegin(o, Head(left[o]))
      BY <3>2 DEF WaitsToBegin, row
    <3>6. WaitsInTurn(o, row)
      BY <1>3, <2>1, <3>3, <3>4, <3>5, WaitsOrderly DEF row
    <3>7. \A h \in held[o] : h[1][1] \in E
      BY <1>1, <3>6 DEF WaitsInTurn
    <3> QED BY <1>3, <3>7
  <2> HIDE DEF row
  <2>3. \E h \in held[p] : h[1][1] \notin E
    BY <2>1, <2>2
  <2>4. p # c
    BY <1>1, <2>3
  <2> QED BY <2>1, <2>3, <2>4
<1> HIDE DEF X
<1>4. InCycle(c) => c \in X
  BY <1>2, <1>3, CircleWithin
<1>5. c \notin X
  BY DEF X
<1> QED BY <1>4, <1>5

\* The calls that wait, if they wait, for a row of a request that has reached
\* the laboratory.
InLabOnly ==
    {o \in calls : Waiting(o) => LabRow(db, Head(left[o]).row)}

\* A batch call that holds a type, a wafer or a request waits for wafers and
\* requests only.
LEMMA BatchWaitsInLab ==
  ASSUME TxInv, OrderInv, NEW o \in calls, o.op \notin Requesting,
         NEW h \in held[o], h[1][1] \in {"type", "request", "sample"}
  PROVE  o \in InLabOnly
<1> SUFFICES ASSUME Waiting(o) PROVE LabRow(db, Head(left[o]).row)
  BY DEF InLabOnly
<1>1. ~WaitsInTurn(o, Head(left[o]).row)
  <2> SUFFICES ASSUME WaitsInTurn(o, Head(left[o]).row) PROVE FALSE
    OBVIOUS
  <2>1. h[1][1] \in {"dispatch", "wip"}
    BY DEF WaitsInTurn, Earlier
  <2> QED BY <2>1
<1> QED
  BY <1>1, WaitsOrderly DEF WaitsToBegin

\* Whoever holds a row of a request in the laboratory waits for such rows too.
LEMMA LabWaitsInLab ==
  ASSUME TxInv, OrderInv, NEW o \in calls, NEW h \in held[o], LabRow(db, h[1])
  PROVE  o \in InLabOnly
<1>1. h[1][1] \in {"request", "sample"}
  BY LabTables
<1>2. CASE o.op \notin Requesting
  BY <1>1, <1>2, BatchWaitsInLab
<1>3. CASE o.op \in Requesting
  <2> DEFINE r == RequestOf(o)
  <2>1. o \in Calls /\ RequestOrder(o, db, left[o], held[o])
    BY <1>3 DEF TxInv, CallInv, CallTypeOK, OrderInv, LockOrder
  <2>2. r \in Requests /\ OfRequest(h[1], r)
    BY <1>1, <1>3, <2>1, RequestOfIn DEF RequestOrder, OwnLock
  <2>3. Later(db, r)
    BY <2>2, OneRequest DEF LabRow
  <2> SUFFICES ASSUME Waiting(o) PROVE LabRow(db, Head(left[o]).row)
    BY DEF InLabOnly
  <2>4. db[Request(r)] # "sample_shipped"
    BY <2>3 DEF Later, InLab
  <2>5. OfRequest(Head(left[o]).row, r)
    BY <1>3, <2>4, WaitsOrderly DEF WaitsToBegin, WaitsInTurn
  <2> QED BY <2>2, <2>3, <2>5 DEF LabRow
<1> QED
  BY <1>2, <1>3

\* Nor does a call that begins the work on a request, and refers to a type,
\* wait in a circle: whoever holds the type is a batch call, and waits, if it
\* waits, for wafers and requests that are in the laboratory already.
LEMMA NoCircleToBegin ==
  ASSUME TxInv, OrderInv, Cardinality(calls) \in Nat, NEW c \in calls,
         Waiting(c), WaitsToBegin(c, Head(left[c]))
  PROVE  ~InCycle(c)
<1>1. ASSUME NEW o \in BlockersOf(c) PROVE o \in InLabOnly
  <2>1. PICK h \in held[o] : /\ h[1] = Head(left[c]).row
                             /\ ~Compatible(h[2], Head(left[c]).mode)
    BY <1>1, BlockersHold
  <2>2. o \in calls /\ h[1][1] = "type" /\ h[2] = "update"
    BY <1>1, <2>1, BlockersHold, Excluded DEF WaitsToBegin
  <2>3. o.op \notin Requesting
    <3> SUFFICES ASSUME o.op \in Requesting PROVE FALSE
      OBVIOUS
    <3>1. o \in Calls /\ RequestOrder(o, db, left[o], held[o])
      BY <2>2 DEF TxInv, CallInv, CallTypeOK, OrderInv, LockOrder
    <3>2. OfRequest(h[1], RequestOf(o))
      BY <2>2, <3>1 DEF RequestOrder, OwnLock
    <3> QED BY <2>2, <3>1, <3>2, RequestOfIn, OneRequest
  <2> QED BY <2>2, <2>3, BatchWaitsInLab
<1>2. ASSUME NEW o \in InLabOnly, NEW p \in BlockersOf(o) PROVE p \in InLabOnly
  <2>1. PICK h \in held[p] : h[1] = Head(left[o]).row
    BY <1>2, BlockersHold
  <2>2. p \in calls /\ Waiting(o)
    BY <1>2, BlockersHold
  <2>3. LabRow(db, h[1])
    BY <2>1, <2>2 DEF InLabOnly
  <2> QED BY <2>2, <2>3, LabWaitsInLab
<1>3. c \notin InLabOnly
  <2>1. Head(left[c]).row[1] = "type"
    BY DEF WaitsToBegin
  <2> QED BY <2>1, LabTables DEF InLabOnly
<1>4. InCycle(c) => c \in InLabOnly
  BY <1>1, <1>2, CircleWithin
<1> QED BY <1>3, <1>4

\* A call that waits for nothing is on no circle.
LEMMA CircleWaits ==
  ASSUME Cardinality(calls) \in Nat, NEW c \in calls, InCycle(c)
  PROVE  Waiting(c)
<1> SUFFICES ASSUME ~Waiting(c) PROVE FALSE
  OBVIOUS
<1>1. BlockersOf(c) = {}
  BY DEF BlockersOf
<1>2. c \in {}
  BY <1>1, CircleWithin
<1> QED BY <1>2

\* However many calls run side by side, over whatever tables: calls wait for
\* each other in a circle over wafers and requests only, never over a run, a
\* WIP or a type, because these are locked in one order (select_for_update of
\* a dispatch with its WIP and type, of a WIP before its wafers).
THEOREM LocksAreOrdered == Spec => []CirclesOnlyOverBatches
<1> DEFINE Finite == Cardinality(calls) \in Nat
<1>1. Init => Finite
  <2> SUFFICES ASSUME Init PROVE Finite
    OBVIOUS
  <2>1. calls \subseteq UNION Races
    BY DEF Init
  <2> QED BY <2>1, RacesAssumption, FS_Subset, FS_CardinalityType
<1>2. Finite /\ [Next]_txVars => Finite'
  BY DEF Next, Step, txVars
<1>3. TxInv /\ OrderInv /\ Finite => CirclesOnlyOverBatches
  <2> SUFFICES ASSUME TxInv, OrderInv, Finite, NEW c \in calls, InCycle(c)
               PROVE  Head(left[c]).row[1] \in {"sample", "request"}
    BY DEF CirclesOnlyOverBatches
  <2> DEFINE st == Head(left[c])
  <2>1. Waiting(c)
    BY CircleWaits
  <2>2. ~WaitsInTurn(c, st.row) /\ ~WaitsToBegin(c, st)
    BY <2>1, NoCircleInTurn, NoCircleToBegin
  <2>3. \/ LabRow(db, st.row)
        \/ c.op \in Requesting /\ OfRequest(st.row, RequestOf(c))
    BY <2>1, <2>2, WaitsOrderly
  <2>4. c \in Calls
    BY DEF TxInv, CallInv, CallTypeOK
  <2> HIDE DEF st
  <2>5. st.row[1] \in {"request", "sample"}
    BY <2>3, <2>4, LabTables, RequestOfIn, OneRequest
  <2> QED BY <2>5 DEF st
<1> HIDE DEF Finite
<1> QED BY OrderInvariant, <1>1, <1>2, <1>3, PTL DEF Spec
=============================================================================
