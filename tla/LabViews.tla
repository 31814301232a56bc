------------------------------ MODULE LabViews -------------------------------
(***************************************************************************)
(* The laboratory's pages (frontend/components/Lab), card by card: what    *)
(* each card counts or draws of the tables, and the links it holds.        *)
(*                                                                         *)
(* Left out: codes, names, notes and dates, the estimate of a run's        *)
(* duration, and the deadline of a wafer.                                  *)
(***************************************************************************)
EXTENDS Pages, Routes

\* The rows of a list as the links they are.
RouteName ==
    [draft |-> "fab_draft_edit", fab_request |-> "fab_request",
     mgr_request |-> "mgr_request", wafer |-> "lab_wafer",
     wip |-> "lab_wip_detail", dispatch |-> "lab_dispatch_detail"]

LinksOf(rows) == {LinkTo(RouteName[row[1]], row[2]) : row \in rows}

LinksTo(page, ids) == {LinkTo(page, x) : x \in ids}

Counter(rows, link) == [rows |-> rows, link |-> link]

-----------------------------------------------------------------------------
\* The dashboard.  "Dispatches live" counts runs only, the list it leads to and
\* the card below it also what waits for a machine.

OnMachine == {"running", "pending", "dispatched"}

LabTiles ==
    {Counter(SampleTab("incoming"), LinkTab("lab_samples", "incoming")),
     Counter(RowsOf("wip", {w \in Wips : wipStatus[w] = "in_progress"}),
             Link("lab_wip")),
     Counter(RowsOf("dispatch", {d \in Dispatches : dStatus[d] = "running"}),
             LinkTab("lab_dispatches", "active")),
     Counter(RowsOf("dispatch", {d \in Dispatches :
                        ShownDispatch(dStatus[d]) \in {"unloaded", "exception"}}),
             LinkTab("lab_dispatches", "record"))}

NowRunning == {d \in Dispatches : dStatus[d] \in OnMachine}

AwaitingYourResult ==
    {d \in Dispatches : ShownDispatch(dStatus[d]) \in {"unloaded", "exception"}}

\* A machine is drawn as running while a run waits for it or is on it.
LiveMachines == {dEquip[d] : d \in NowRunning}

\* A disabled machine is shown as one in maintenance.
ShownMachine(st) == IF st = "available" THEN "idle" ELSE "maintenance"

MachineLine(e) ==
    IF e \in LiveMachines THEN "running" ELSE ShownMachine(equipStatus[e])

LabDashboardLinks ==
    {tile.link : tile \in LabTiles}
        \cup LinksTo("lab_dispatch_detail", NowRunning \cup AwaitingYourResult)
        \cup {Link("lab_equipment") : e \in {x \in Equipments : equipStatus[x] # "none"}}

-----------------------------------------------------------------------------
\* The lists.

\* "Bulk receive incoming" calls receive for each wafer that no call is under
\* way for, whatever tab is open.
BulkReceived(busy) == {row[2] : row \in SampleTab("incoming")} \ busy

\* The buttons of a row: those of the wafer's page, until they are pressed.
SampleRowButtons(s, busy) ==
    IF s \in busy THEN {} ELSE WaferButtons(ReadWafer(s))

\* The list that a link opens; an unknown tab of dispatches has no group.
ListTab(link) ==
    CASE link.page = "lab_samples"    -> SampleTab(Tab(link.tab, "all"))
      [] link.page = "lab_wip"        -> WipTab("active")
      [] link.page = "lab_dispatches" -> DispatchTab(Tab(link.tab, "active"))

EquipmentTab(tab) ==
    {e \in Equipments : /\ equipStatus[e] # "none"
                        /\ tab \in {"all", ShownMachine(equipStatus[e])}}

EquipmentCard(e) == [capacity |-> equipCapacity[e], capabilities |-> capable[e]]

-----------------------------------------------------------------------------
\* A run.

StatusFlow == <<"dispatched", "pending", "running", "unloaded", "completed">>

StepOf(st) == Max({0} \cup {i \in DOMAIN StatusFlow : StatusFlow[i] = st})

\* The dots of its lifecycle.  An aborted or excepted run has none.
Dots(d) ==
    LET st == ShownDispatch(dStatus[d])
        failed == st \in {"aborted", "exception"}
    IN  [done    |-> {i \in DOMAIN StatusFlow :
                        IF st = "completed" THEN TRUE ELSE ~failed /\ i < StepOf(st)},
         current |-> {i \in DOMAIN StatusFlow :
                        st # "completed" /\ ~failed /\ i = StepOf(st)}]

\* The countdown goes by the machine's deadline, which the server has set.
Countdown(d) ==
    IF dStatus[d] # "running" THEN "none"
    ELSE CASE dTimer[d] = "unset"   -> "estimate"
           [] dTimer[d] = "set"     -> "remaining"
           [] dTimer[d] = "elapsed" -> "over"

Notice(d) ==
    CASE dStatus[d] = "aborted"             -> "aborted before completion"
      [] dStatus[d] = "pending_redispatch"  -> "superseded"
      [] dStatus[d] = "execution_exception" -> "abort or redispatch"
      [] OTHER                              -> "none"

DispatchHead(d) == {Link("lab_dispatches"), LinkTo("lab_wip_detail", dWip[d])}

DispatchInfo(d) ==
    [links |-> {LinkTo("lab_wip_detail", dWip[d])}, machine |-> dEquip[d],
     type |-> wipType[dWip[d]]]

\* The wafers of the batch with the verdict of the row that names this run.
WaferVerdicts(d) ==
    {[sample |-> s,
      verdict |-> IF \E e \in ExperimentsOf(s) : d \in e.runs
                  THEN (CHOOSE e \in ExperimentsOf(s) : d \in e.runs).verdict ELSE Nil] :
        s \in wipSamples[dWip[d]]}

ResultCardDrawn(d) == d \in results \/ WaferVerdicts(d) # {}

\* The parameters are drawn while a recipe of the type is still active.
ParametersDrawn(d) == wipType[dWip[d]] \in recipeTypes

DispatchLinks(d) == DispatchHead(d) \cup DispatchInfo(d).links

-----------------------------------------------------------------------------
\* A WIP.

WipHead == {Link("lab_wip")}

ExceptionBanner(w) ==
    {d \in DispatchesOf(w) : dStatus[d] = "execution_exception"}

RunTable(w) == LinksTo("lab_dispatch_detail", DispatchesOf(w))

SamplesCard(w) == LinksTo("lab_wafer", wipSamples[w])

WipLinks(w) ==
    WipHead \cup LinksTo("lab_dispatch_detail", ExceptionBanner(w))
        \cup RunTable(w) \cup SamplesCard(w)

-----------------------------------------------------------------------------
\* A wafer.

OpenBatches(s) ==
    {w \in Wips : wipStatus[w] \in {"created", "in_progress"} /\ s \in wipSamples[w]}

\* Mutated form: the chip leads to runs only.
ChipToRun(e) == LinksTo("lab_dispatch_detail", e.runs)

\* What the chip of an experiment may lead to: the run that the server names,
\* else the newest open batch of the type.
ChipTargets(e) ==
    IF e.runs # {} THEN LinksTo("lab_dispatch_detail", e.runs)
    ELSE LinksTo("lab_wip_detail", {w \in OpenBatches(e.sample) : wipType[w] = e.type})

\* How a chip is drawn.  It would be drawn as running for the status "running",
\* which the API does not send.
ChipDrawn(e) ==
    CASE e.status = "done"    -> IF e.verdict = "fail" THEN "fail" ELSE "done"
      [] e.status = "running" -> "running"
      [] OTHER                -> "grey"

DoneCount(s) == Cardinality({e \in ExperimentsOf(s) : e.status = "done"})

\* The batches one of which is drawn as the current one: the page looks
\* through those in progress only.
CurrentWips(s) == {w \in OpenBatches(s) : wipStatus[w] = "in_progress"}

CurrentWipCard(w) == {LinkTo("lab_wip_detail", w)} \cup RunTable(w)

WaferInfo(s) == [request |-> owner[s], status |-> ShownWafer(sampleStatus[s])]

WaferLinks(s) ==
    {Link("lab_samples")} \cup (UNION {ChipTargets(e) : e \in ExperimentsOf(s)})
        \cup (UNION {CurrentWipCard(w) : w \in CurrentWips(s)})
=============================================================================
