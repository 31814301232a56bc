---------------------------- MODULE Transactions ----------------------------
(***************************************************************************)
(* The handlers of commissions/api.py and wip/api.py at the grain of their *)
(* SQL statements.  Lims takes a handler as one step; here calls run side  *)
(* by side in PostgreSQL transactions at READ COMMITTED, the way the       *)
(* product is deployed: a statement sees what is committed when it starts, *)
(* and its own transaction's writes; row locks are held to the end; a      *)
(* wait that has become circular is broken by failing one of the calls.    *)
(*                                                                         *)
(* A handler is a program: the list of its statements.  A statement that   *)
(* reads a set of rows and then works on each of them, in an order nobody  *)
(* specifies, puts the statements for the rows it has read at the head of  *)
(* what is left to do.  The columns are those of Lims that the cascades    *)
(* read; what cannot change while a request is in the laboratory (the      *)
(* owner and the selection of a wafer, a WIP's type, a dispatch's WIP) is  *)
(* constant here, and every wafer has selected every type.                 *)
(***************************************************************************)
EXTENDS Naturals, Sequences, SequencesExt, LimsStatus

CONSTANTS
    Requests, Samples, Types, Wips, Dispatches,
    Owner,            \* the request of each sample
    TypeOf,           \* the experiment type of each WIP
    WipOf,            \* the WIP of each dispatch
    Races,            \* sets of calls made side by side, records as in Program
    StartDbs          \* states of the tables at which they are made

ASSUME TablesAssumption ==
    /\ Owner \in [Samples -> Requests]
    /\ TypeOf \in [Wips -> Types]
    /\ WipOf \in [Dispatches -> Wips]
    /\ IsFiniteSet(Samples) /\ IsFiniteSet(Types)
    /\ Dispatches \cap {"none", "pending", "in_progress"} = {}

\* A row is named by its table and its key; a member row joins a wafer to a
\* WIP, a progress row belongs to a wafer and a type.
Request(r) == <<"request", r>>
Sample(s) == <<"sample", s>>
Progress(s, t) == <<"progress", s, t>>
Wip(w) == <<"wip", w>>
Member(w, s) == <<"member", w, s>>
Dispatch(d) == <<"dispatch", d>>
Type(t) == <<"type", t>>

Rows == {Request(r) : r \in Requests} \cup {Sample(s) : s \in Samples}
            \cup {Progress(s, t) : s \in Samples, t \in Types}
            \cup {Wip(w) : w \in Wips} \cup {Dispatch(d) : d \in Dispatches}
            \cup {Member(w, s) : w \in Wips, s \in Samples}

VARIABLES
    db,               \* what is committed: the status of each row, "none" when
                      \* there is none; a completed progress row has the id of
                      \* its dispatch; a member row is "in" or "none"
    calls,            \* the calls of this behaviour
    left,             \* the statements a call has still to execute
    mine,             \* what its open transaction has written
    held              \* the row locks it holds: pairs of a row and a mode

txVars == <<db, calls, left, mine, held>>

\* The rows of w, and of f those that w does not write.
Over(w, f) ==
    [row \in DOMAIN w \cup DOMAIN f |->
        IF row \in DOMAIN w THEN w[row] ELSE f[row]]

\* What a statement of call c sees.
View(c) == Over(mine[c], db)

-----------------------------------------------------------------------------
\* Row locks: "share" is taken on a referenced row by an INSERT (FOR KEY
\* SHARE), "write" by an UPDATE (FOR NO KEY UPDATE), "update" by
\* select_for_update and DELETE (FOR UPDATE).
Compatible(m, n) == \/ m = "share" /\ n # "update"
                    \/ n = "share" /\ m # "update"

Blockers(c, row, mode) ==
    {o \in calls \ {c} : \E h \in held[o] :
        h[1] = row /\ ~Compatible(h[2], mode)}

\* Statements.
Lock(row) == [do |-> "lock", row |-> row, mode |-> "update"]
Refer(row) == [do |-> "lock", row |-> row, mode |-> "share"]
Update(row) == [do |-> "lock", row |-> row, mode |-> "write"]
Move(row, action) == [do |-> "move", row |-> row, action |-> action]
Set(row, value) == [do |-> "set", row |-> row, value |-> value]
SetIf(row, old, value) == [do |-> "setif", row |-> row, old |-> old,
                           value |-> value]
Check(what, on) == [do |-> what, on |-> on]
Commit == [do |-> "commit"]

\* validate_*_transition, and the tables.
Sources(row, action) ==
    CASE row[1] = "request"  -> RequestTransitions[action]
      [] row[1] = "sample"   -> SampleTransitions[action]
      [] row[1] = "wip"      -> WipTransitions[action]
      [] row[1] = "dispatch" -> DispatchTransitions[action]
Target(row, action) ==
    CASE row[1] = "request"  -> RequestTarget[action]
      [] row[1] = "sample"   -> SampleTarget[action]
      [] row[1] = "wip"      -> WipTarget[action]
      [] row[1] = "dispatch" -> DispatchTarget[action]

SamplesOf(r) == {s \in Samples : Owner[s] = r}
DispatchesOf(v, w) == {d \in Dispatches : WipOf[d] = w /\ v[Dispatch(d)] # "none"}
MembersOf(v, w) == {s \in Samples : v[Member(w, s)] = "in"}

-----------------------------------------------------------------------------
\* The handlers.

RequestAction(r, action) ==
    <<Lock(Request(r)), Move(Request(r), action), Commit>>

ShipRequest(r) ==
    <<Lock(Request(r)), Move(Request(r), "ship"), Check("shipsamples", r),
      Commit>>

\* The check is outside any transaction, and the delete goes by key: first the
\* request's samples, then the request.
DeleteDraft(r) ==
    <<Check("draft", r), Check("deletesamples", r),
      Lock(Request(r)), Set(Request(r), "none"), Commit>>

\* Mutated form: the request's row is locked only to be written.
ReceiveUnderSampleLock(s) ==
    <<Lock(Sample(s)), Move(Sample(s), "receive"),
      Check("received", Owner[s]), Lock(Request(Owner[s])), Commit>>

ReceiveSample(s) ==
    <<Lock(Sample(s)), Move(Sample(s), "receive"),
      Lock(Request(Owner[s])), Check("received", Owner[s]), Commit>>

SettleSample(s, action) ==
    <<Lock(Sample(s)), Move(Sample(s), action), Lock(Request(Owner[s])),
      Check("received", Owner[s]), Check("completed", Owner[s]), Commit>>

\* The wafers are validated before the transaction begins, and not locked.
CreateWip(w, S) ==
    <<[do |-> "validate", on |-> w, samples |-> S], Commit>>

AddSamples(w, S) ==
    <<Lock(Wip(w)), Lock(Type(TypeOf[w])), Check("open", w),
      [do |-> "validate", on |-> w, samples |-> S], Commit>>

\* Mutated form: the WIP is locked after the gate.
CreateDispatchLate(w, d) ==
    <<Check("alldone", w), Lock(Wip(w)), Lock(Type(TypeOf[w])),
      [do |-> "dispatch", on |-> w, new |-> d], Commit>>

CreateDispatch(w, d) ==
    <<Lock(Wip(w)), Lock(Type(TypeOf[w])), Check("alldone", w),
      [do |-> "dispatch", on |-> w, new |-> d], Commit>>

\* Mutated form: the wafers are completed, and locked, before the WIP.
CompleteWipWafersFirst(w) ==
    <<Check("alldone", w), Check("cascade", w), Lock(Wip(w)),
      Move(Wip(w), "complete"), Commit>>

CompleteWip(w) ==
    <<Lock(Wip(w)), Check("alldone", w), Move(Wip(w), "complete"),
      Check("cascade", w), Commit>>

AbortWip(w) ==
    <<Lock(Wip(w)), Move(Wip(w), "abort"), Check("except", w), Commit>>

\* select_for_update with select_related locks the joined rows too.
LockRun(d) ==
    <<Lock(Dispatch(d)), Lock(Wip(WipOf[d])), Lock(Type(TypeOf[WipOf[d]]))>>

Unload(d) == <<Move(Dispatch(d), "unload"), Check("roll", d)>>

Record(d) ==
    <<Move(Dispatch(d), "record_result"), Lock(Wip(WipOf[d])),
      Check("autocomplete", WipOf[d])>>

\* Mutated form: only the dispatch's row is locked, as by select_for_update
\* without select_related.
UnloadWithoutWip(d) == <<Lock(Dispatch(d))>> \o Unload(d) \o <<Commit>>

UnloadDispatch(d) == LockRun(d) \o Unload(d) \o <<Commit>>

RecordResult(d) == LockRun(d) \o Record(d) \o <<Commit>>

CompleteDispatchRun(d) == LockRun(d) \o Unload(d) \o Record(d) \o <<Commit>>

\* Mutated form: the sweep trusts its unlocked list.
FinalizeUnchecked(d) ==
    <<Check("running", d)>> \o LockRun(d)
        \o <<Check("roll", d), Set(Dispatch(d), "completed"), Commit>>

\* The list of due runs is read without a lock, then each row is locked and
\* looked at again.
FinalizeDueDispatch(d) ==
    <<Check("running", d)>> \o LockRun(d) \o <<Check("running", d)>>
        \o Unload(d) \o Record(d) \o <<Commit>>

StartDispatch(d) ==
    <<Lock(Dispatch(d)), Check("startable", d), Set(Dispatch(d), "running"),
      Commit>>

ReportException(d) ==
    <<Lock(Dispatch(d)), Move(Dispatch(d), "report_exception"), Commit>>

Redispatch(d, n) ==
    <<Lock(Dispatch(d)), Lock(Wip(WipOf[d])), Move(Dispatch(d), "redispatch"),
      Refer(Type(TypeOf[WipOf[d]])), SetIf(Dispatch(n), "none", "pending"),
      Commit>>

AbortDispatch(d) ==
    <<Lock(Dispatch(d)), Move(Dispatch(d), "abort"), Lock(Wip(WipOf[d])),
      Check("autocomplete", WipOf[d]), Commit>>

Program(c) ==
    CASE c.op \in {"submit", "approve", "cancel"} -> RequestAction(c.on, c.op)
      [] c.op = "ship"         -> ShipRequest(c.on)
      [] c.op = "delete_draft" -> DeleteDraft(c.on)
      [] c.op = "receive"      -> ReceiveSample(c.on)
      [] c.op \in {"void", "return"} -> SettleSample(c.on, c.op)
      [] c.op = "create_wip"   -> CreateWip(c.on, c.samples)
      [] c.op = "add_samples"  -> AddSamples(c.on, c.samples)
      [] c.op = "create_dispatch" -> CreateDispatch(WipOf[c.on], c.on)
      [] c.op = "complete_wip" -> CompleteWip(c.on)
      [] c.op = "abort_wip"    -> AbortWip(c.on)
      [] c.op = "start"        -> StartDispatch(c.on)
      [] c.op = "unload"       -> UnloadDispatch(c.on)
      [] c.op = "record_result" -> RecordResult(c.on)
      [] c.op = "equipment_result" -> CompleteDispatchRun(c.on)
      [] c.op = "finalize"     -> FinalizeDueDispatch(c.on)
      [] c.op = "report_exception" -> ReportException(c.on)
      [] c.op = "redispatch"   -> Redispatch(c.on, c.new)
      [] c.op = "abort_dispatch" -> AbortDispatch(c.on)

-----------------------------------------------------------------------------
\* The calls: the row a call is about, the wafers of a batch, and the key of a
\* replacement, which is a run of the same WIP.  A WIP that two calls make is
\* two WIPs: the database gives every INSERT a key of its own.
RunOps == {"create_dispatch", "start", "unload", "record_result",
           "equipment_result", "finalize", "report_exception",
           "abort_dispatch"}
Calls ==
    [op : {"submit", "approve", "cancel", "ship", "delete_draft"}, on : Requests]
    \cup [op : {"receive", "void", "return"}, on : Samples]
    \cup [op : {"create_wip", "add_samples"}, on : Wips,
          samples : SUBSET Samples]
    \cup [op : {"complete_wip", "abort_wip"}, on : Wips]
    \cup [op : RunOps, on : Dispatches]
    \cup {c \in [op : {"redispatch"}, on : Dispatches, new : Dispatches] :
            WipOf[c.new] = WipOf[c.on]}

Creates(c, w) == c.op = "create_wip" /\ c.on = w

ASSUME RacesAssumption ==
    /\ IsFiniteSet(UNION Races)
    /\ \A R \in Races : /\ R \subseteq Calls
                       /\ \A c, o \in R, w \in Wips :
                            Creates(c, w) /\ Creates(o, w) => c = o

-----------------------------------------------------------------------------
\* What a call does next.

Init ==
    /\ db \in StartDbs
    /\ calls \in Races
    /\ \A c \in calls, w \in Wips : Creates(c, w) => db[Wip(w)] = "none"
    /\ left = [c \in calls |-> Program(c)]
    /\ mine = [c \in calls |-> <<>>]
    /\ held = [c \in calls |-> {}]

\* The transaction ends, with nothing left to do.
Release(c) ==
    /\ left' = [left EXCEPT ![c] = <<>>]
    /\ mine' = [mine EXCEPT ![c] = <<>>]
    /\ held' = [held EXCEPT ![c] = {}]

\* An early return, or an error: nothing it wrote is kept.
Refuse(c) == Release(c) /\ UNCHANGED db

CommitTransaction(c) == Release(c) /\ db' = View(c)

\* The transaction goes on, writes the function w from rows to values, and has
\* the statements "first" to execute before the others.
Proceed(c, w, first) ==
    /\ mine' = [mine EXCEPT ![c] = Over(w, @)]
    /\ left' = [left EXCEPT ![c] = first \o Tail(@)]
    /\ UNCHANGED <<db, held>>

Write(row, value) == [x \in {row} |-> value]
Nothing == <<>>

AcquireLock(c) ==
    LET st == Head(left[c]) IN
    /\ st.do = "lock"
    /\ Blockers(c, st.row, st.mode) = {}
    /\ held' = [held EXCEPT ![c] = @ \cup {<<st.row, st.mode>>}]
    /\ left' = [left EXCEPT ![c] = Tail(@)]
    /\ UNCHANGED <<db, mine>>

MoveRow(c) ==
    LET st == Head(left[c]) IN
    /\ st.do = "move"
    /\ IF View(c)[st.row] \in Sources(st.row, st.action)
       THEN Proceed(c, Write(st.row, Target(st.row, st.action)), <<>>)
       ELSE Refuse(c)

SetRow(c) ==
    LET st == Head(left[c]) IN
    \/ st.do = "set" /\ Proceed(c, Write(st.row, st.value), <<>>)
    \/ /\ st.do = "setif"
       /\ Proceed(c, IF View(c)[st.row] = st.old THEN Write(st.row, st.value)
                                                 ELSE Nothing, <<>>)

\* A condition that refuses the call when it does not hold.
Holds(v, st) ==
    CASE st.do = "draft"     -> v[Request(st.on)] = "draft"
      [] st.do = "open"      -> v[Wip(st.on)] \in {"created", "in_progress"}
      [] st.do = "alldone"   -> \A d \in DispatchesOf(v, st.on) :
                                    v[Dispatch(d)] \in TerminalDispatchStatuses
      [] st.do = "running"   -> v[Dispatch(st.on)] = "running"
      [] st.do = "startable" -> v[Dispatch(st.on)] \in {"pending", "dispatched"}
      [] OTHER               -> TRUE

TestCondition(c) ==
    LET st == Head(left[c]) IN
    /\ st.do \in {"draft", "open", "alldone", "running", "startable"}
    /\ IF Holds(View(c), st) THEN Proceed(c, Nothing, <<>>) ELSE Refuse(c)

\* The statements f(s) for each of the wafers S, in some order.
ForEach(S, f(_)) ==
    {FlattenSeq([i \in DOMAIN q |-> f(q[i])]) : q \in SetToSeqs(S)}

ShipSamples(c) ==
    LET st == Head(left[c])
        S  == {s \in SamplesOf(st.on) : View(c)[Sample(s)] = "created"}
        UpdateOne(s) == <<Update(Sample(s)),
                          SetIf(Sample(s), "created", SampleTarget.ship)>>
    IN  /\ st.do = "shipsamples"
        /\ \E q \in ForEach(S, UpdateOne) : Proceed(c, Nothing, q)

DeleteSamples(c) ==
    LET st == Head(left[c])
        DeleteOne(s) == <<Lock(Sample(s)), Set(Sample(s), "none")>>
    IN  /\ st.do = "deletesamples"
        /\ \E q \in ForEach(SamplesOf(st.on), DeleteOne) :
            Proceed(c, Nothing, q)

\* check_all_samples_received, and the rows it makes: the INSERTs refer to the
\* wafers and the types.
CheckReceived(c) ==
    LET st == Head(left[c])
        v  == View(c)
        r  == st.on
        Initialise(s) ==
            <<Refer(Sample(s))>>
                \o SetToSeq({Refer(Type(t)) : t \in Types})
                \o SetToSeq({SetIf(Progress(s, t), "none", "pending") :
                                t \in Types})
    IN  /\ st.do = "received"
        /\ IF /\ v[Request(r)] = "sample_shipped"
              /\ \A s \in SamplesOf(r) : v[Sample(s)] \in
                    {"received", "processing", "completed", "voided", "returned"}
           THEN \E q \in ForEach(SamplesOf(r), Initialise) :
                    Proceed(c, Write(Request(r), "in_progress"), q)
           ELSE Proceed(c, Nothing, <<>>)

\* check_request_completed
CheckCompleted(c) ==
    LET st == Head(left[c])
        v  == View(c)
        r  == st.on
    IN  /\ st.do = "completed"
        /\ Proceed(c,
             IF /\ v[Request(r)] = "in_progress"
                /\ \A s \in SamplesOf(r) : v[Sample(s)] \in
                        {"completed", "voided", "returned"}
             THEN Write(Request(r), "completed") ELSE Nothing, <<>>)

\* validate_samples_for_wip reads the wafers and their requests once.  What
\* follows works on the objects that were read: a wafer that was received then
\* is saved as processing, whatever it has become.
ValidateSamples(c) ==
    LET st == Head(left[c])
        v  == View(c)
        w  == st.on
        InsertOne(s) == <<Refer(Sample(s)), Set(Member(w, s), "in")>>
        SaveOne(s) == <<Update(Sample(s)),
                        Set(Sample(s), SampleTarget.start_processing)>>
        Stale == {s \in st.samples : v[Sample(s)] = "received"}
        First == IF v[Wip(w)] = "none"
                 THEN <<Refer(Type(TypeOf[w])), Set(Wip(w), "created")>> ELSE <<>>
    IN  /\ st.do = "validate"
        /\ IF \A s \in st.samples :
                /\ v[Request(Owner[s])] = "in_progress"
                /\ v[Sample(s)] \in {"received", "processing"}
                /\ v[Member(w, s)] = "none"
           THEN \E q \in ForEach(st.samples, InsertOne), u \in ForEach(Stale, SaveOne) :
                    Proceed(c, Nothing, First \o q \o u)
           ELSE Refuse(c)

\* create_dispatch: the row, the WIP's status, and the pending rows.
InsertDispatch(c) ==
    LET st == Head(left[c])
        v  == View(c)
        w  == st.on
        opened == {s \in MembersOf(v, w) :
                        v[Progress(s, TypeOf[w])] = "pending"}
    IN  /\ st.do = "dispatch"
        /\ IF v[Wip(w)] # "none" /\ v[Dispatch(st.new)] = "none"
           THEN Proceed(c,
                    Over([row \in {Progress(s, TypeOf[w]) : s \in opened}
                            |-> "in_progress"],
                    Over(Write(Dispatch(st.new), "pending"),
                         IF v[Wip(w)] = "created"
                         THEN Write(Wip(w), "in_progress") ELSE Nothing)), <<>>)
           ELSE Refuse(c)

\* Mutated form: nobody locks the wafers.
CascadeUnlocked(S) ==
    {[i \in DOMAIN q |-> Check("trycomplete", q[i])] :
        q \in SetToSeqs(S)}

\* cascade_sample_completion over the wafers S: all their rows are locked by
\* one query, and then each is looked at.
Cascade(S) ==
    {[i \in DOMAIN q |-> Lock(Sample(q[i]))]
        \o [i \in DOMAIN q |-> Check("trycomplete", q[i])] :
        q \in SetToSeqs(S)}

CascadeBatch(c) ==
    LET st == Head(left[c]) IN
    /\ st.do = "cascade"
    /\ \E q \in Cascade(MembersOf(View(c), st.on)) : Proceed(c, Nothing, q)

\* _try_complete_sample, and its request.
TryComplete(c) ==
    LET st == Head(left[c])
        v  == View(c)
        s  == st.on
        r  == Owner[s]
    IN  /\ st.do = "trycomplete"
        /\ IF /\ v[Sample(s)] = "processing"
              /\ \E t \in Types : v[Progress(s, t)] # "none"
              /\ \A t \in Types : v[Progress(s, t)] \in Dispatches \cup {"none"}
           THEN Proceed(c, Write(Sample(s), "completed"),
                        <<Lock(Request(r)), Check("completed", r)>>)
           ELSE Proceed(c, Nothing, <<>>)

\* Mutated form: the row's dispatch is not written.
RollWithoutDispatch(c) ==
    LET st == Head(left[c])
        w  == WipOf[st.on]
        S  == MembersOf(View(c), w)
    IN  /\ st.do = "roll"
        /\ \E q \in Cascade(S) :
            Proceed(c, [row \in {Progress(s, TypeOf[w]) : s \in S} |->
                            "completed"], q)

\* update_experiment_statuses_on_unload
RollVerdicts(c) ==
    LET st == Head(left[c])
        w  == WipOf[st.on]
        S  == MembersOf(View(c), w)
    IN  /\ st.do = "roll"
        /\ \E q \in Cascade(S) :
            Proceed(c, [row \in {Progress(s, TypeOf[w]) : s \in S} |-> st.on], q)

\* cascade_samples_to_processing_exception
ExceptBatch(c) ==
    LET st == Head(left[c])
        S  == MembersOf(View(c), st.on)
    IN  /\ st.do = "except"
        /\ \E q \in SetToSeqs(S) :
            Proceed(c, Nothing,
                [i \in DOMAIN q |-> Lock(Sample(q[i]))]
                \o [i \in DOMAIN q |->
                    SetIf(Sample(q[i]), "processing",
                          SampleTarget.processing_exception)])

\* maybe_auto_complete_wip
AutoComplete(c) ==
    LET st == Head(left[c])
        v  == View(c)
        w  == st.on
    IN  /\ st.do = "autocomplete"
        /\ IF /\ v[Wip(w)] = "in_progress"
              /\ \A d \in DispatchesOf(v, w) :
                    v[Dispatch(d)] \in TerminalDispatchStatuses
              /\ \E d \in DispatchesOf(v, w) : v[Dispatch(d)] = "completed"
           THEN Proceed(c, Write(Wip(w), "completed"), <<Check("cascade", w)>>)
           ELSE Proceed(c, Nothing, <<>>)

\* Waiting.  The detector fails one call of a cycle.
Waiting(c) ==
    /\ left[c] # <<>>
    /\ Head(left[c]).do = "lock"
    /\ Blockers(c, Head(left[c]).row, Head(left[c]).mode) # {}

BlockersOf(c) ==
    IF Waiting(c) THEN Blockers(c, Head(left[c]).row, Head(left[c]).mode) ELSE {}

\* c waits for itself, over a chain of other calls.
InCycle(c) ==
    LET reach[n \in 0..Cardinality(calls)] ==
            IF n = 0 THEN BlockersOf(c)
            ELSE reach[n - 1] \cup UNION {BlockersOf(o) : o \in reach[n - 1]}
    IN  c \in reach[Cardinality(calls)]

BreakDeadlock(c) == InCycle(c) /\ Refuse(c)

Step(c) ==
    /\ left[c] # <<>>
    /\ UNCHANGED calls
    /\ \/ AcquireLock(c)
       \/ MoveRow(c)
       \/ SetRow(c)
       \/ TestCondition(c)
       \/ ShipSamples(c)
       \/ DeleteSamples(c)
       \/ CheckReceived(c)
       \/ CheckCompleted(c)
       \/ ValidateSamples(c)
       \/ InsertDispatch(c)
       \/ CascadeBatch(c)
       \/ TryComplete(c)
       \/ RollVerdicts(c)
       \/ ExceptBatch(c)
       \/ AutoComplete(c)
       \/ Head(left[c]).do = "commit" /\ CommitTransaction(c)
       \/ BreakDeadlock(c)

Next == \E c \in calls : Step(c)

Spec == Init /\ [][Next]_txVars

-----------------------------------------------------------------------------
Accounted(v, r) == \A s \in SamplesOf(r) : v[Sample(s)] \in
    {"received", "processing", "completed", "voided", "returned"}
Settled(v, r) == \A s \in SamplesOf(r) : v[Sample(s)] \in
    {"completed", "voided", "returned"}
Measured(v, s) == \A t \in Types : v[Progress(s, t)] \in Dispatches

\* The values a row of each table can hold; a measured row names the dispatch
\* that measured it.
ValuesOf(row) ==
    {"none"} \cup
        CASE row[1] = "request"  -> RequestStatuses
          [] row[1] = "sample"   -> SampleStatuses
          [] row[1] = "wip"      -> WipStatuses
          [] row[1] = "dispatch" -> DispatchStatuses
          [] row[1] = "member"   -> {"in"}
          [] row[1] = "progress" -> {"pending", "in_progress"} \cup Dispatches

TablesOK(v) == DOMAIN v = Rows /\ \A row \in Rows : v[row] \in ValuesOf(row)

\* Every row has a value its table can hold, and a call that has ended has no
\* transaction open.
TypeOK ==
    /\ DOMAIN left = calls /\ DOMAIN mine = calls /\ DOMAIN held = calls
    /\ TablesOK(db)
    /\ \A c \in calls : /\ DOMAIN mine[c] \subseteq Rows
                        /\ left[c] = <<>> => mine[c] = <<>> /\ held[c] = {}

\* Two calls never hold row locks that exclude each other, and what a call has
\* written to a status row no other call has written too (READ COMMITTED would
\* lose one of them).
NoConflictingWrites ==
    \A c, o \in calls : c # o =>
        /\ \A h \in held[c], k \in held[o] : h[1] = k[1] => Compatible(h[2], k[2])
        /\ \A row \in DOMAIN mine[c] \cap DOMAIN mine[o] :
                row[1] \notin {"request", "sample", "wip", "dispatch"}

\* Of the calls that settle or receive the last wafers of a request side by
\* side, the last to commit sees the others: no committed state has a request
\* that a cascade should have moved (the request lock that the docstrings of
\* commissions/services.py ask for).
NoneWaits(v) ==
    \A r \in Requests :
        /\ v[Request(r)] = "sample_shipped" => ~Accounted(v, r)
        /\ v[Request(r)] = "in_progress" => ~Settled(v, r)

CascadeSeesAll == NoneWaits(db)

\* When runs of two batches record a wafer's last experiments side by side,
\* the one that commits last completes the wafer (select_for_update on the
\* wafers in cascade_sample_completion).
LastRunCompletesWafer ==
    [][\A s \in Samples :
        /\ db[Sample(s)] = "processing"
        /\ ~Measured(db, s) /\ Measured(db', s)
        => db'[Sample(s)] = "completed"]_txVars

\* Every wafer that is in a batch when its run is unloaded gets its verdict
\* from that run, although wafers join batches that are on a machine (the lock
\* on the joined WIP row, which add_samples_to_wip takes too).
BatchGetsVerdict ==
    [][\A d \in Dispatches :
        /\ db[Dispatch(d)] \in {"dispatched", "running"}
        /\ db'[Dispatch(d)] \in {"unloaded", "completed"}
        => \A s \in MembersOf(db', WipOf[d]) :
                db'[Progress(s, TypeOf[WipOf[d]])] = d]_txVars

\* The committed changes of a run: what a handler may make of it in one
\* transaction (complete_dispatch_run makes two moves in one).
RunMoves ==
    {<<"none", "pending">>, <<"pending", "running">>, <<"dispatched", "running">>,
     <<"unloaded", "completed">>, <<"pending", "aborted">>}
        \cup ({"dispatched", "running"} \X
                {"unloaded", "completed", "execution_exception"})
        \cup ({"execution_exception"} \X {"pending_redispatch", "aborted"})

\* The sweep, the machine's endpoint, an operator's unload and an exception
\* report race to end a run; each committed change of a run is one that the
\* state machine allows from what was committed before.
RunEndsOnce ==
    [][\A d \in Dispatches : db'[Dispatch(d)] # db[Dispatch(d)] =>
            <<db[Dispatch(d)], db'[Dispatch(d)]>> \in RunMoves]_txVars

\* create_dispatch and redispatch serialise through the WIP's row lock, as the
\* comment in create_dispatch says.
Active(v, w) ==
    {d \in DispatchesOf(v, w) : v[Dispatch(d)] \notin TerminalDispatchStatuses}

OneActive(v) == \A w \in Wips : \A d, e \in Active(v, w) : d = e

OneActiveRun == OneActive(db)

\* The handlers take locks of different tables in one order: calls wait for
\* each other in a circle only over rows of wafers and requests, those of two
\* batches, whose order no query fixes, or those of a draft that is deleted
\* while it is shipped; never over a run, a WIP or a type.
CirclesOnlyOverBatches ==
    \A c \in calls : InCycle(c) =>
        Head(left[c]).row[1] \in {"sample", "request"}

\* The moves of commissions/state_machine.py, and the removal of a draft.
SampleMoves ==
    UNION {SampleTransitions[a] \X {SampleTarget[a]} : a \in DOMAIN SampleTarget}
        \cup {<<"created", "none">>}

\* What validate_samples_for_wip has established still holds when the wafers
\* are saved: a wafer's status only moves as the state machine allows.
WafersMoveLegally ==
    [][\A s \in Samples : db'[Sample(s)] # db[Sample(s)] =>
            <<db[Sample(s)], db'[Sample(s)]>> \in SampleMoves]_txVars

-----------------------------------------------------------------------------
\* The tables between handlers.  Every request has a wafer (schemas.py), a
\* wafer is not shipped before its request nor worked on or put in a batch
\* before its request is in the laboratory, and a run is a run of a WIP that
\* exists.  Lims shows as much of the states that handlers leave when they run
\* one at a time.
Early == {"draft", "pending_approval", "returned", "rejected", "approved"}
InLab == {"in_progress", "completed", "closed", "cancelled"}

ShippedWhole(v) ==
    \A s \in Samples :
        /\ v[Request(Owner[s])] \in Early => v[Sample(s)] \in {"created", "none"}
        /\ v[Sample(s)] \in {"processing", "processing_exception", "completed"}
            => v[Request(Owner[s])] \in InLab

RunsHaveWips(v) ==
    \A d \in Dispatches :
        v[Dispatch(d)] # "none" => v[Wip(WipOf[d])] # "none"

BatchesInLab(v) ==
    \A w \in Wips : \A s \in MembersOf(v, w) : v[Request(Owner[s])] \in InLab

Consistent(v) ==
    /\ TablesOK(v) /\ NoneWaits(v) /\ OneActive(v)
    /\ ShippedWhole(v) /\ RunsHaveWips(v) /\ BatchesInLab(v)

ASSUME StartAssumption ==
    /\ \A r \in Requests : SamplesOf(r) # {}
    /\ \A v \in StartDbs : Consistent(v)
=============================================================================
