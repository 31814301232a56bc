-------------------------------- MODULE Site ---------------------------------
(***************************************************************************)
(* All pages together: the links each holds, and what the pages of the     *)
(* three roles, their dashboards and the reports tell of one batch, one    *)
(* run or one wafer at one moment.                                         *)
(***************************************************************************)
EXTENDS RequestViews

\* Ids are numbers: none is taken for a missing one, or for the form of a new
\* request.
ASSUME IdsAssumption ==
    {"none", "new"} \cap (Requests \cup Samples \cup Wips \cup Dispatches) = {}

Areas == {"fab", "lab", "manager"}

\* The pages that there are, with the row they show.
FabPagesNow ==
    {Link("fab_dashboard"), Link("fab_requests"), Link("fab_drafts"), Link("fab_new")}
        \cup LinksOf(FabTab("all")) \cup LinksOf(DraftRows)

LabPagesNow ==
    {Link("lab_dashboard"), Link("lab_samples"), Link("lab_wip"),
     Link("lab_dispatches"), Link("lab_equipment")}
        \cup LinksTo("lab_wafer", {s \in Samples : owner[s] # Nil})
        \cup LinksOf(WipTab("all")) \cup LinksOf(DispatchTab("all"))

ManagerPagesNow ==
    {Link("mgr_dashboard"), Link("mgr_all_requests"), Link("mgr_recipes"),
     Link("mgr_reports")}
        \cup LinksTo("mgr_request", StatisticsRows) \cup LabPagesNow

PagesNow(area) ==
    CASE area = "fab" -> FabPagesNow [] area = "lab" -> LabPagesNow
      [] area = "manager" -> ManagerPagesNow

\* The links of a page.
LinksOn(p) ==
    CASE p.page = "fab_dashboard"       -> FabDashboardLinks
      [] p.page = "fab_requests"        -> FabListLinks(FALSE)
      [] p.page = "fab_drafts"          -> FabListLinks(TRUE)
      [] p.page = "fab_request"         -> FabRequestHead
      [] p.page = "lab_dashboard"       -> LabDashboardLinks
      [] p.page = "lab_samples"         -> LinksOf(SampleTab("all"))
      [] p.page = "lab_wafer"           -> WaferLinks(p.id)
      [] p.page = "lab_wip"             -> LinksOf(WipTab("all"))
      [] p.page = "lab_wip_detail"      -> WipLinks(p.id)
      [] p.page = "lab_dispatches"      -> LinksOf(DispatchTab("all"))
      [] p.page = "lab_dispatch_detail" -> DispatchLinks(p.id)
      [] p.page = "mgr_dashboard"       -> MgrDashboardLinks
      [] p.page = "mgr_all_requests"    -> MgrRequestRows
      [] p.page = "mgr_request"         -> MgrRequestLinks(p.id)
      [] p.page = "mgr_reports"         -> DispatchResultsLinks \cup StatisticsLinks
      [] OTHER                          -> {}

\* The rows of the list that a link leads to.
RowsBehind(link) ==
    CASE link.page = "fab_requests"     -> FabTab(Tab(link.tab, "all"))
      [] link.page = "fab_drafts"       -> DraftRows
      [] link.page = "mgr_all_requests" -> ManagerTab("pending")
      [] OTHER                          -> ListTab(link)

Tiles == FabTiles \cup LabTiles \cup MgrTiles

KnownTabs ==
    [fab_requests   |-> FabListTabs,
     lab_samples    |-> {"all", "incoming", "received", "in_wip", "completed", "rejected"},
     lab_dispatches |-> DOMAIN DispatchGroups]

-----------------------------------------------------------------------------
\* Every link that a page draws leads to the page and the row it names, on a
\* tab that the page has, below the area of the user who follows it, whatever
\* has been deleted, aborted or superseded meanwhile; and the menu of that area
\* marks one of its items (navigate.ts, the catch-all routes, the layouts and
\* every page).
LinksLand ==
    \A area \in Areas : \A p \in PagesNow(area) : \A l \in LinksOn(p) :
        LET url == Navigate(area, p.page, l) drawn == Drawn(url) IN
        /\ drawn.page = l.page /\ drawn.id = l.id
        /\ drawn.id # "none" => drawn \in PagesNow(area)
        /\ l.tab # "none" => drawn.tab = l.tab
        /\ drawn.tab # "none" => drawn.tab \in KnownTabs[drawn.page]
        /\ url.path[1] = area
        /\ Marked(url) \in Menu(area)

\* What a tile counts is what the list behind it holds, the manager's work in
\* progress and the rejected requests apart; and the roles see one moment of a
\* batch alike: a run that waits, runs or is to be recorded is in one of the two
\* cards of the laboratory's dashboard, with its dot or its notice on its own
\* page, and the owners of its wafers see them as processing or done, unless they
\* were set aside, as by aborting the batch, which leaves its run as it is (the
\* dashboards of Fab, Lab and Manager, phaseIndexFor, LabDispatchDetail).
OverviewsAgree ==
    /\ \A tile \in Tiles :
        tile.link = Link("mgr_all_requests") \/
        {row \in tile.rows : row \notin FabTab("rejected")} \subseteq RowsBehind(tile.link)
    /\ NowRunning \cap AwaitingYourResult = {}
    /\ \A d \in NowRunning \cup AwaitingYourResult :
        /\ Dots(d).current # {} <=> Notice(d) = "none"
        /\ Countdown(d) # "estimate"
        /\ dStatus[d] # "pending_redispatch" =>
            \A s \in wipSamples[dWip[d]] :
                Phase(s) \in {3, 4} \/ sampleStatus[s] \in SetAside

\* What is done is reported once: a progress row that is completed is counted in
\* the report of the runs, with its verdict, in the row of one run and no other,
\* which was unloaded, for the experiment and with the wafer in its batch, and the
\* page of some run of the experiment shows that verdict; and nothing else is
\* counted (dispatch_result_rows, LabDispatchDetail, over the rows that every
\* unload and every re-run rewrites).
VerdictsCounted ==
    \A s \in Samples, t \in ExpTypes :
        LET counting == {d \in DispatchRows : wipType[dWip[d]] = t /\ \E v \in Verdicts :
                            s \in DispatchRow(d).verdicts[v]}
        IN  /\ Cardinality(counting) = IF sesStatus[s][t] = "completed" THEN 1 ELSE 0
            /\ \A d \in counting :
                /\ dStatus[d] \in {"unloaded", "completed"}
                /\ s \in DispatchRow(d).samples
                /\ s \in DispatchRow(d).verdicts[sesVerdict[s][t]]
                /\ \E e \in DispatchRows : /\ wipType[dWip[e]] = t
                    /\ [sample |-> s, verdict |-> sesVerdict[s][t]] \in WaferVerdicts(e)

\* The chip of an experiment on a wafer's page leads to work that goes on: while
\* an open batch of the type has the wafer, and it was not done before, to such a
\* batch or to a run that was not left behind by an aborted one, however batches
\* and their runs were aborted, completed and superseded (LabWaferDetail,
\* sample_experiments; a chip without a target cannot be pressed).
BatchIsLinked ==
    \A s \in {x \in Samples : sampleStatus[x] \in {"received", "processing"}} :
    \A e \in ExperimentsOf(s) :
        LET batches == {w \in OpenBatches(s) : wipType[w] = e.type}
            going == {w \in Wips : wipStatus[w] # "aborted" /\ s \in wipSamples[w]}
        IN  batches # {} =>
                /\ ChipTargets(e) # {}
                /\ e.status # "done" =>
                    ChipTargets(e) \subseteq LinksTo("lab_wip_detail", batches)
                                            \cup UNION {RunTable(w) : w \in going}
=============================================================================
