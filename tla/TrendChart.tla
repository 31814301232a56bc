----------------------------- MODULE TrendChart ------------------------------
(***************************************************************************)
(* What a manager sees of the reports: the list of the runs of a range     *)
(* (dispatch_result_rows), the ranges that the quick buttons ask for, and  *)
(* the chart of the last days on the dashboard                             *)
(* (frontend/components/Manager/TrendChart.tsx), in the units of its       *)
(* drawing.                                                                *)
(*                                                                         *)
(* Left out: the horizontal positions, the curve between two points, the   *)
(* range of the current month, tenths of a per cent, and that the browser  *)
(* counts days by its own clock, the server by UTC.                        *)
(***************************************************************************)
EXTENDS Reports, Integers

Today == now \div DayLength

\* dispatch_result_rows: what was created, begun or completed in the range.
DispatchResults(R, w) ==
    {d \in Dispatches :
        \E t \in {R[d].created_at, R[d].dispatched_at, R[d].completed_at} \ {Unset} :
            t >= w.start /\ t < w.end}

DurationOf(R, d) ==
    IF Unset \in {R[d].dispatched_at, R[d].completed_at} THEN Unset
    ELSE R[d].completed_at - R[d].dispatched_at

\* "Today", "Last 7 days" and "Last 30 days", by the days they go back.
PresetDaysBack == {0, 6, 29}

PresetRange(back) == DateRangeBounds(Latest(Today - back, 0), Today)

-----------------------------------------------------------------------------
\* The trend of the last days and its drawing.

TrendDays == 30

FirstDay == Latest(Today - (TrendDays - 1), 0)

\* A share of the day of all machines, in per cent.
UtilizationPct(busy) ==
    IF Equipments = {} THEN 0
    ELSE (100 * busy) \div (DayLength * Cardinality(Equipments))

ClampMetric(v, low, high) == Earliest(high, Latest(low, v))

\* The points of the chart, a day each.
Points ==
    LET D == DispatchesOverlapping(rows, DateRangeBounds(FirstDay, Today)) IN
    [day \in FirstDay..Today |->
        [dispatches  |-> Latest(TrendCount(rows, D, day), 0),
         utilization |-> ClampMetric(UtilizationPct(TrendBusy(rows, D, day)), 0, 100)]]

Top == 24
Baseline == 184

\* The left scale ends with the busiest day, the right one with 100 per cent.
MaxDispatches(points) == Max({1} \cup {points[day].dispatches : day \in DOMAIN points})

YDispatch(v, max) == Baseline - ((v * (Baseline - Top)) \div max)

YUtil(v) == Baseline - ((v * (Baseline - Top)) \div 100)

\* The days that get a label.
TickIndexes(n) ==
    LET last == n - 1
        step == IF n > 14 THEN (n + 7) \div 8 ELSE 2
    IN  {i \in 0..last : \/ i \in {0, last}
                         \/ i % step = 0 /\ last - i >= step}

-----------------------------------------------------------------------------
\* The reports tell one story: over any range of days the daily busy times add
\* up to that of the range, each run is counted on the day it began, the list of
\* the runs is that of its days taken together and holds each run that the trend
\* counts, every quick range ends with what was done last, and no run is said to
\* last longer than its machine was busy.
ReportsAddUp ==
    /\ \A first, last \in AllDays : first <= last =>
        LET w == DateRangeBounds(first, last)
            D == DispatchesOverlapping(rows, w)
            L == DispatchResults(rows, w)
        IN  /\ SumFunction([day \in first..last |-> TrendBusy(rows, D, day)])
                = SumFunction([e \in Equipments |-> UtilizationRow(rows, e, w)])
            /\ SumFunction([day \in first..last |-> TrendCount(rows, D, day)])
                = Cardinality({d \in D \cap L : rows[d].dispatched_at >= w.start})
            /\ L = UNION {DispatchResults(rows, DateRangeBounds(day, day)) : day \in first..last}
    /\ \A d \in Dispatches :
        /\ now \in {rows[d].created_at, rows[d].dispatched_at, rows[d].completed_at} =>
            \A back \in PresetDaysBack : d \in DispatchResults(rows, PresetRange(back))
        /\ DurationOf(rows, d) # Unset =>
            DurationOf(rows, d) \in
                0..UtilizationRow(rows, rows[d].equipment, DateRangeBounds(0, Today))

LabelsSpaced ==
    \A n \in 3..TrendDays :
        LET step == IF n > 14 THEN (n + 7) \div 8 ELSE 2 IN
        /\ {0, n - 1} \subseteq TickIndexes(n)
        /\ \A i \in TickIndexes(n) \ {n - 1} :
            LET next == Min({j \in TickIndexes(n) : j > i}) IN
            next - i >= step /\ next - i < 2 * step

\* The chart shows what the report says: no day is busier than all its machines
\* together, so that the upper bound of its scale never cuts a point and each
\* lies in the plot, at its top for a day on which no machine stood still; if a
\* run was begun on one of the days, the day with most reaches the top of its
\* scale; and of any number of days the first and the last are labelled, with
\* labels neither crowded nor far apart
\* (TrendChart, getTrendTickIndexes, equipment_utilization_trend).
TrendWithinScale ==
    LET D == DispatchesOverlapping(rows, DateRangeBounds(FirstDay, Today))
        points == Points
        max == MaxDispatches(points)
    IN  /\ \A day \in FirstDay..Today :
            LET busy == TrendBusy(rows, D, day) y == YUtil(points[day].utilization) IN
            /\ points[day].utilization = UtilizationPct(busy)
            /\ YDispatch(points[day].dispatches, max) \in Top..Baseline
            /\ y \in Top..Baseline
            /\ Equipments # {} /\ busy = DayLength * Cardinality(Equipments) => y = Top
            /\ busy = 0 => y = Baseline
        /\ (\E d \in D : rows[d].dispatched_at >= FirstDay * DayLength) =>
            \E day \in FirstDay..Today : YDispatch(points[day].dispatches, max) = Top
        /\ LabelsSpaced
=============================================================================
