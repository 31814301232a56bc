---------------------------- MODULE RequestViews -----------------------------
(***************************************************************************)
(* The pages of the requesters and of the managers                         *)
(* (frontend/components/Fab, Manager), card by card, and the two reports   *)
(* that list rows (apps/reports): what each counts or draws of the tables, *)
(* and the links it holds.                                                 *)
(*                                                                         *)
(* Left out: titles, notes and dates, the search, the urgency and the      *)
(* order of a list, that a dashboard's card and the tiles counted from it  *)
(* hold the first three or five rows only, and the range of a report.      *)
(***************************************************************************)
EXTENDS LabViews

-----------------------------------------------------------------------------
\* The requester's dashboard.

FabTiles ==
    {Counter(RowsOf("fab_request", Filed({"submitted"})),
             LinkTab("fab_requests", "all")),
     Counter(RowsOf("fab_request", Filed({"in_progress"})),
             LinkTab("fab_requests", "in_progress")),
     Counter(RowsOf("fab_request", Filed({"returned", "rejected"})),
             LinkTab("fab_requests", "returned")),
     Counter(DraftRows, Link("fab_drafts"))}

WaferPhases == <<"Approved", "Shipped", "Received", "Processing", "Done">>

PhaseName(i) == IF i >= 0 THEN WaferPhases[i + 1] ELSE "none"

\* A row of "In Progress", unfolded: it has read the request by itself.
InProgressRow(r) ==
    [currently |-> IF SamplesOf(r) = {} THEN "none" ELSE PhaseName(OverallPhase(r)),
     wafers    |-> {[sample |-> s, phase |-> Phase(s)] : s \in SamplesOf(r)},
     links     |-> {LinkTo("fab_request", r)}]

InProgressRows == (UNION {InProgressRow(r).links : r \in Filed({"in_progress"})})
                    \cup {LinkTab("fab_requests", "in_progress")}

AttentionRows == LinksTo("fab_request", Filed({"returned", "rejected"}))

DraftsCard == LinksOf(DraftRows) \cup {Link("fab_drafts"), Link("fab_new")}

\* What is told of a request by its status of today.  Of a closed or cancelled
\* one there is nothing.
ActivityOf(r) ==
    CASE reqStatus[r] = "approved"       -> "APPROVE"
      [] reqStatus[r] = "sample_shipped" -> "SHIP"
      [] reqStatus[r] = "in_progress"    -> "IN_PROG"
      [] reqStatus[r] = "completed"      -> "COMPLETED"
      [] reqStatus[r] = "returned"       -> "RETURN"
      [] reqStatus[r] = "rejected"       -> "REJECT"
      [] OTHER                           -> "none"

ActivityStyles == {"APPROVE", "SHIP", "IN_PROG", "COMPLETED", "RETURN", "REJECT"}

ActivityDrawn == {r \in Requests : ActivityOf(r) \in ActivityStyles}

FabDashboardLinks ==
    {tile.link : tile \in FabTiles} \cup InProgressRows \cup AttentionRows
        \cup DraftsCard

-----------------------------------------------------------------------------
\* The requester's lists and the page of a request.

FabListTabs == {"all", "pending", "in_progress", "returned", "rejected", "cancelled"}

FabListLinks(drafts) ==
    {Link("fab_new")} \cup LinksOf(IF drafts THEN DraftRows ELSE FabTab("all"))

\* The four dots of a row: the first one alone, or those up to the step.
RequestDots(r) ==
    IF ShownRequest(reqStatus[r]) \in Decided THEN {0}
    ELSE {i \in 0..3 : i <= ListStep(r)}

\* The five dots of a wafer.
PipelineDots(idx) == [done    |-> {i \in 0..4 : i < idx},
                      current |-> {i \in 0..4 : i = idx}]

\* "Currently at" is drawn of a returned or rejected request too.
CurrentlyAt(r) ==
    IF ShownRequest(reqStatus[r]) \in {"draft", "cancelled", "submitted"} THEN "none"
    ELSE PhaseName(OverallPhase(r))

Overview(r) == [wafers |-> Cardinality(SamplesOf(r)),
                experiments |-> Cardinality(reqTypes[r])]

WaferPhasesCard(r) ==
    {[sample |-> s, dots |-> PipelineDots(Phase(s))] : s \in SamplesOf(r)}

\* "Experiments by Wafer" of the requester: how many of how many are done.
ExperimentsDrawn(s) ==
    [total |-> Cardinality(ExperimentsOf(s)), done |-> Cardinality(OwnersDone(s))]

FabRequestHead == {Link("fab_requests")}

-----------------------------------------------------------------------------
\* The manager's dashboard, list and page of a request.  The list opens on what
\* is to be approved, from whichever tile one comes.

MgrTiles ==
    {Counter(RowsOf("mgr_request", Filed({"submitted"})), Link("mgr_all_requests")),
     Counter(RowsOf("mgr_request", Filed({"in_progress"})), Link("mgr_all_requests"))}

MgrCompletedTile == Filed({"completed"})

AwaitingYourResponse == LinksTo("mgr_request", Filed({"submitted"}))

MgrDashboardLinks ==
    {tile.link : tile \in MgrTiles} \cup {Link("lab_equipment")}
        \cup AwaitingYourResponse

MgrRequestRows == LinksOf(ManagerTab("all"))

\* A wafer without rows of its own is drawn by its own experiments, of which
\* there are none: what it inherits of its request is not drawn.
ManagersExperiments(s) ==
    {[type |-> t, done |-> sesStatus[s][t] = "completed",
      fail |-> sesStatus[s][t] = "completed" /\ sesVerdict[s][t] = "fail"] :
        t \in chosen[s]}

\* Every wafer leads to its page in the laboratory.
ExperimentsByWafer(r) == LinksTo("lab_wafer", SamplesOf(r))

MgrRequestLinks(r) == {Link("mgr_all_requests")} \cup ExperimentsByWafer(r)

-----------------------------------------------------------------------------
\* The reports: a row of the results of the runs, and the statistics of the
\* requests.

\* Mutated form: the verdicts of the batch's wafers, whichever run gave them.
CountedByWafer(d, v) ==
    {s \in wipSamples[dWip[d]] : sesVerdict[s][wipType[dWip[d]]] = v}

\* pass_count and fail_count: the progress rows that name this run.
CountedFor(d, v) ==
    {s \in Samples : \E t \in ExpTypes :
        sesDispatch[s][t] = d /\ sesVerdict[s][t] = v}

DispatchRow(d) ==
    [samples  |-> wipSamples[dWip[d]],
     requests |-> {owner[s] : s \in wipSamples[dWip[d]]},
     verdicts |-> [v \in Verdicts |-> CountedFor(d, v)]]

DispatchRows == {d \in Dispatches : dStatus[d] # "none"}

DispatchResultsLinks == LinksTo("lab_dispatch_detail", DispatchRows)

\* Drafts are counted and listed.
StatisticsRows == {r \in Requests : reqStatus[r] # "none"}

CompletionRate ==
    [completed |-> {r \in StatisticsRows : reqStatus[r] \in {"completed", "closed"}},
     total     |-> StatisticsRows]

StatisticsLinks == LinksTo("mgr_request", StatisticsRows)
=============================================================================
