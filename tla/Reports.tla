------------------------------ MODULE Reports ------------------------------
(***************************************************************************)
(* The equipment-utilisation reports of apps/reports/services.py, over the *)
(* life of the runs they count: the timestamps the handlers of wip/api.py  *)
(* leave on a dispatch, and the busy time the reports make of them while   *)
(* the clock goes on.  Time is in ticks, DayLength of them a day; reports  *)
(* are asked for whole days.  Which batch a dispatch belongs to is left    *)
(* out: machines take several batches, so runs of one machine overlap.     *)
(***************************************************************************)
EXTENDS Naturals, Sequences, SequencesExt, FiniteSetsExt, LimsStatus

CONSTANTS
    Dispatches, Equipments,
    Days,             \* bound on the clock, in days
    DayLength,        \* ticks in a day
    Unset             \* a timestamp column that is null

ASSUME ReportsAssumption ==
    /\ Days \in Nat \ {0} /\ DayLength \in Nat \ {0}
    /\ Unset \notin Nat
    /\ IsFiniteSet(Dispatches) /\ IsFiniteSet(Equipments)

VARIABLES
    now,
    rows              \* the dispatch rows: status, equipment and timestamps

reportVars == <<now, rows>>

NoRow == [status |-> "none", equipment |-> Unset, created_at |-> Unset,
          dispatched_at |-> Unset, completed_at |-> Unset, updated_at |-> Unset]

Init == now = 0 /\ rows = [d \in Dispatches |-> NoRow]

-----------------------------------------------------------------------------
\* The handlers that write a dispatch row.

Created(e) == [NoRow EXCEPT !.status = "pending", !.equipment = e,
                            !.created_at = now, !.updated_at = now]

Moved(d, action) == [rows[d] EXCEPT !.status = DispatchTarget[action],
                                    !.updated_at = now]

May(d, action) == rows[d].status \in DispatchTransitions[action]

CreateDispatch(d, e) ==
    /\ rows[d] = NoRow
    /\ rows' = [rows EXCEPT ![d] = Created(e)]
    /\ UNCHANGED now

StartDispatch(d) ==
    /\ May(d, "dispatch")
    /\ rows' = [rows EXCEPT ![d] = [Moved(d, "start") EXCEPT !.dispatched_at = now]]
    /\ UNCHANGED now

UnloadDispatch(d) ==
    /\ May(d, "unload")
    /\ rows' = [rows EXCEPT ![d] = Moved(d, "unload")]
    /\ UNCHANGED now

RecordResult(d) ==
    /\ May(d, "record_result")
    /\ rows' = [rows EXCEPT ![d] =
                    [Moved(d, "record_result") EXCEPT !.completed_at = now]]
    /\ UNCHANGED now

\* The automation endpoint at any time, and the sweep once the run is due: both
\* stamp the time of the call.
CompleteDispatchRun(d) ==
    /\ May(d, "unload")
    /\ rows' = [rows EXCEPT ![d] =
                    [Moved(d, "record_result") EXCEPT !.completed_at = now]]
    /\ UNCHANGED now

ReportException(d) ==
    /\ May(d, "report_exception")
    /\ rows' = [rows EXCEPT ![d] = Moved(d, "report_exception")]
    /\ UNCHANGED now

Redispatch(d, n) ==
    /\ May(d, "redispatch") /\ rows[n] = NoRow
    /\ rows' = [rows EXCEPT ![d] = Moved(d, "redispatch"),
                            ![n] = Created(rows[d].equipment)]
    /\ UNCHANGED now

AbortDispatch(d) ==
    /\ May(d, "abort")
    /\ rows' = [rows EXCEPT ![d] = Moved(d, "abort")]
    /\ UNCHANGED now

Tick == now < Days * DayLength /\ now' = now + 1 /\ UNCHANGED rows

Next ==
    \/ Tick
    \/ \E d \in Dispatches :
        \/ \E e \in Equipments : CreateDispatch(d, e)
        \/ StartDispatch(d) \/ UnloadDispatch(d) \/ RecordResult(d)
        \/ CompleteDispatchRun(d) \/ ReportException(d) \/ AbortDispatch(d)
        \/ \E n \in Dispatches : Redispatch(d, n)

Spec == Init /\ [][Next]_reportVars

-----------------------------------------------------------------------------
\* The reports, of a table R of dispatch rows.

Earliest(a, b) == IF a < b THEN a ELSE b
Latest(a, b) == IF a > b THEN a ELSE b

\* _date_range_bounds: midnight of the first day to midnight after the last.
DateRangeBounds(first, last) ==
    [start |-> first * DayLength, end |-> (last + 1) * DayLength]

\* Mutated form: an unloaded run has left the machine.
OccupyingWithoutUnloaded == {"dispatched", "running"}

OccupyingStatuses == {"dispatched", "running", "unloaded"}

DispatchBusyEnd(R, d, windowEnd) ==
    IF R[d].completed_at # Unset THEN Earliest(R[d].completed_at, windowEnd)
    ELSE IF R[d].status \in OccupyingStatuses THEN windowEnd
    ELSE Earliest(R[d].updated_at, windowEnd)

DispatchesOverlapping(R, w) ==
    {d \in Dispatches :
        /\ R[d].dispatched_at # Unset /\ R[d].dispatched_at < w.end
        /\ R[d].completed_at = Unset \/ R[d].completed_at > w.start}

Interval(R, d, w) ==
    [start |-> Latest(R[d].dispatched_at, w.start),
     end   |-> DispatchBusyEnd(R, d, w.end)]

\* The order of pairs.
InOrder(i, j) == i.start < j.start \/ (i.start = j.start /\ i.end <= j.end)

\* The runs that iv gives an interval, in the order of their intervals.
Sorted(iv) ==
    CHOOSE q \in SetToSeqs(DOMAIN iv) :
        \A i, j \in DOMAIN q : i < j => InOrder(iv[q[i]], iv[q[j]])

\* The intervals of the runs D on machine e, sorted by start and then end.
Intervals(R, D, e, w) ==
    LET all == {d \in D : R[d].equipment = e
                            /\ Interval(R, d, w).end > Interval(R, d, w).start}
        iv == [d \in all |-> Interval(R, d, w)]
        order == Sorted(iv)
    IN  [i \in 1..Cardinality(all) |-> iv[order[i]]]

\* Mutated form: the last interval ends the merged one.
MergeLastEnd(acc, i) ==
    IF i.start <= acc.end THEN [acc EXCEPT !.end = i.end]
    ELSE [done |-> acc.done + (acc.end - acc.start), start |-> i.start, end |-> i.end]

\* An interval extends the current one, or the current one is done.
Merge(acc, i) ==
    IF i.start <= acc.end THEN [acc EXCEPT !.end = Latest(acc.end, i.end)]
    ELSE [done |-> acc.done + (acc.end - acc.start), start |-> i.start, end |-> i.end]

\* The loop over the intervals.
MergedUpTo(q) ==
    LET merged[n \in 1..Len(q)] ==
            IF n = 1 THEN [done |-> 0, start |-> q[1].start, end |-> q[1].end]
            ELSE Merge(merged[n - 1], q[n])
    IN  merged

MergeBusySeconds(q) ==
    IF q = <<>> THEN 0
    ELSE LET last == MergedUpTo(q)[Len(q)] IN last.done + (last.end - last.start)

\* One row of _utilization_rows_for_bounds.
BusyTime(R, D, e, w) == MergeBusySeconds(Intervals(R, D, e, w))

UtilizationRow(R, e, w) == BusyTime(R, DispatchesOverlapping(R, w), e, w)

\* Mutated form: the day's end belongs to the day.
CountWithMidnight(R, D, day) ==
    LET w == DateRangeBounds(day, day) IN
    Cardinality({d \in D : R[d].dispatched_at \in w.start..w.end})

\* One point of equipment_utilization_trend: the runs begun on that day, and the
\* busy time of all machines, over the runs of the whole range.
TrendCount(R, D, day) ==
    LET w == DateRangeBounds(day, day) IN
    Cardinality({d \in D : /\ R[d].dispatched_at >= w.start
                           /\ R[d].dispatched_at < w.end})

\* Mutated form: the busy time is that since the first day.
TrendBusySinceFirst(R, D, day) ==
    SumFunction([e \in Equipments |-> BusyTime(R, D, e, DateRangeBounds(0, day))])

TrendBusy(R, D, day) ==
    SumFunction([e \in Equipments |-> BusyTime(R, D, e, DateRangeBounds(day, day))])

-----------------------------------------------------------------------------
AllDays == 0..(Days - 1)
Windows == {DateRangeBounds(r[1], r[2]) : r \in {x \in AllDays \X AllDays : x[1] <= x[2]}}

Stamps == (0..now) \cup {Unset}
TypeOK ==
    /\ now \in 0..(Days * DayLength)
    /\ rows \in [Dispatches -> [status : DispatchStatuses \cup {"none"},
            equipment : Equipments \cup {Unset}, created_at : Stamps,
            dispatched_at : Stamps, completed_at : Stamps, updated_at : Stamps]]

\* A run has its machine at instant t.
Occupies(d, t) ==
    /\ rows[d].dispatched_at # Unset /\ rows[d].dispatched_at <= t
    /\ \/ rows[d].status \in {"dispatched", "running", "unloaded"}
       \/ rows[d].completed_at # Unset /\ t < rows[d].completed_at
       \/ rows[d].completed_at = Unset /\ t < rows[d].updated_at

\* The busy time of a machine is the number of instants at which some run has
\* it, however the runs touch, nest or overlap and wherever the window cuts them
\* ("without double counting").
BusyTimeIsExact ==
    \A e \in Equipments, w \in Windows :
        UtilizationRow(rows, e, w) = Cardinality(
            {t \in w.start..(w.end - 1) :
                \E d \in Dispatches : rows[d].equipment = e /\ Occupies(d, t)})

\* A report about days that are over stays as it is, whatever becomes of the
\* runs it counted, except that a run that failed is counted until its row is
\* last saved.
PastIsFixed ==
    [][\A e \in Equipments, w \in Windows :
        /\ w.end <= now
        /\ \A d \in Dispatches : rows'[d] # rows[d] =>
                rows[d].status # "execution_exception"
        => UtilizationRow(rows', e, w) = UtilizationRow(rows, e, w)]_reportVars
=============================================================================
