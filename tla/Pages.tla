------------------------------- MODULE Pages --------------------------------
(***************************************************************************)
(* What the application's pages, lists and dashboards (frontend/           *)
(* components) show of the tables, as functions of them: the statuses as   *)
(* the API client renames them, the rows that each list and tab holds, the *)
(* progress that each page draws, what a page reads, and the buttons it    *)
(* then offers.  How pages grow stale is in Screens.                       *)
(*                                                                         *)
(* Left out: the order of the rows, searching and paging, that some cards  *)
(* of a dashboard are cut to their first rows, wording and layout.         *)
(***************************************************************************)
EXTENDS Lims, Integers, FiniteSetsExt

FabPages == {"new_request", "draft", "fab_request"}
LabPages == {"wafer", "new_wip", "wip", "dispatch"}
ManagerPages == {"mgr_request"}

\* What a page has read: a status, whether a WIP has an active dispatch, for
\* the form of a new WIP the wafers it lets one pick for each type, and for the
\* pages of a run and of a wafer the wafers and their experiments.
Reading(status) ==
    [status |-> status, active |-> FALSE, picks |-> {}, wafers |-> {}, rows |-> {}]

-----------------------------------------------------------------------------
\* The statuses as the API client renames them.

ShownRequest(st) ==
    CASE st = "pending_approval" -> "submitted"
      [] st \in {"approved", "sample_shipped", "in_progress"} -> "in_progress"
      [] st \in {"completed", "closed"} -> "completed"
      [] OTHER -> st

ShownWafer(st) ==
    CASE st \in {"created", "shipped"} -> "incoming"
      [] st \in {"receiving_exception", "processing_exception", "lost"} -> "rejected"
      [] st = "voided" -> "cancelled"
      [] OTHER -> st

ShownDispatch(st) ==
    IF st \in {"execution_exception", "pending_redispatch"} THEN "exception" ELSE st

\* The buttons of each page.

NewRequestButtons == {"create", "publish"}

\* The form opens on whatever has become of the draft; "Delete" is in the list.
DraftButtons(seen) ==
    {b \in {"save", "publish", "delete_draft"} :
        /\ seen.status # "none"
        /\ b = "delete_draft" => seen.status = "draft"}

FabRequestButtons(seen) ==
    {b \in {"ship", "cancel"} :
        \/ b = "ship" /\ seen.status = "approved"
        \/ b = "cancel" /\ ShownRequest(seen.status) \in {"in_progress", "submitted"}}

MgrRequestButtons(seen) ==
    CASE ShownRequest(seen.status) = "submitted" -> {"approve", "return", "reject"}
      [] ShownRequest(seen.status) = "in_progress" -> {"close"}
      [] OTHER -> {}

WaferButtons(seen) ==
    IF ShownWafer(seen.status) = "incoming" THEN {"receive", "reject_receiving"} ELSE {}

\* Mutated form: the page does not look at the WIP's dispatches.
WipButtonsAlways(seen) ==
    IF seen.status \in {"none", "completed", "aborted"} THEN {}
    ELSE {"abort_wip", "create_dispatch"}

WipButtons(seen) ==
    IF seen.status \in {"none", "completed", "aborted"} THEN {}
    ELSE IF seen.active THEN {"abort_wip"} ELSE {"create_dispatch"}

DispatchButtons(seen) ==
    CASE seen.status \in {"pending", "dispatched"} -> {"abort", "start"}
      [] seen.status = "running" -> {"report_exception", "unload"}
      [] seen.status = "unloaded" -> {"record_result"}
      [] /\ ShownDispatch(seen.status) = "exception"
         /\ seen.status = "execution_exception" -> {"abort", "redispatch"}
      [] OTHER -> {}

-----------------------------------------------------------------------------
\* What a page reads.

HasActiveDispatch(w) ==
    \E d \in DispatchesOf(w) :
        dStatus[d] \notin {"completed", "aborted", "pending_redispatch"}

\* Mutated form: the filter on the capabilities is lost.
AnyMachine(t) == {e \in Equipments : equipStatus[e] # "none"}

\* What the forms of a new WIP and of a new dispatch list for type t: whether a
\* machine is available, or has room, is not looked at.
MachinesFor(t) == {e \in Equipments : equipStatus[e] # "none" /\ t \in capable[e]}

RecipesFor(t) == {t} \cap recipeTypes

\* "Max .. wafers - largest capable equipment is .."
MaxBatch(t) == Max({0} \cup {equipCapacity[e] : e \in MachinesFor(t)})

\* Mutated form: a wafer whose WIP is over cannot be picked again.
EverInWip(s) == \E w \in Wips : s \in wipSamples[w]

\* has_wip of the list of samples.
HasWip(s) == \E w \in Wips : /\ wipStatus[w] \in {"created", "in_progress"}
                             /\ s \in wipSamples[w]

\* The picker of the new WIP.
Pickable ==
    {st \in Samples \X ExpTypes :
        /\ owner[st[1]] # Nil
        /\ sampleStatus[st[1]] \in {"received", "processing"}
        /\ ~HasWip(st[1])
        /\ reqStatus[owner[st[1]]] = "in_progress"
        /\ st[2] \in SelectedTypes(st[1]) \cap ActiveTypes}

\* The wafers that the picker can hold for type t.  It counts while one ticks
\* wafers, not when one changes the type, which keeps those that it fits too.
Picked(picks, t) ==
    {S \in (SUBSET Samples) \ {{}} :
        /\ S \X {t} \subseteq picks
        /\ \E u \in ExpTypes :
            S \X {u} \subseteq picks /\ Cardinality(S) <= MaxBatch(u)}

NewWipButtons(seen) ==
    {b \in {"create_wip"} : \E t \in ExpTypes : Picked(seen.picks, t) # {}}

Buttons(page, seen) ==
    CASE page = "new_request" -> NewRequestButtons
      [] page = "draft"       -> DraftButtons(seen)
      [] page = "fab_request" -> FabRequestButtons(seen)
      [] page = "mgr_request" -> MgrRequestButtons(seen)
      [] page = "wafer"       -> WaferButtons(seen)
      [] page = "new_wip"     -> NewWipButtons(seen)
      [] page = "wip"         -> WipButtons(seen)
      [] page = "dispatch"    -> DispatchButtons(seen)
      [] OTHER                -> {}

\* sample_experiments: the wafer's experiments with what its runs have come to.
\* The page is told one of "runs", the newest, and the verdict of the progress
\* row, which the newest unload wrote.
RunsOf(s, t, statuses) ==
    {d \in Dispatches : /\ dStatus[d] \in statuses
                        /\ wipType[dWip[d]] = t /\ s \in wipSamples[dWip[d]]}

ActiveRunStatuses ==
    {"pending", "dispatched", "running", "execution_exception", "unloaded"}

ExperimentOf(s, t) ==
    LET done == RunsOf(s, t, {"completed"})
        active == RunsOf(s, t, ActiveRunStatuses)
    IN  [sample |-> s, type |-> t, verdict |-> sesVerdict[s][t],
         status |-> IF done # {} THEN "done"
                    ELSE IF active # {} THEN "in_progress" ELSE "pending",
         runs   |-> IF done # {} THEN done ELSE active]

ExperimentsOf(s) == {ExperimentOf(s, t) : t \in SelectedTypes(s)}

ReadRequest(r) == Reading(reqStatus[r])
ReadWafer(s) == [Reading(sampleStatus[s]) EXCEPT !.wafers = {s}]
ReadWip(w) == [Reading(wipStatus[w]) EXCEPT !.active = HasActiveDispatch(w)]
ReadDispatch(d) == Reading(dStatus[d])
ReadPicker == [Reading("none") EXCEPT !.picks = Pickable]

\* The first part of a page.
Read(page, id) ==
    CASE page \in {"draft", "fab_request", "mgr_request"} -> ReadRequest(id)
      [] page = "wafer"    -> ReadWafer(id)
      [] page = "wip"      -> ReadWip(id)
      [] page = "dispatch" -> ReadDispatch(id)
      [] page = "new_wip"  -> ReadPicker
      [] OTHER             -> Reading("none")

-----------------------------------------------------------------------------
\* The lists, each as the pages its rows lead to.  Drafts are shown to their
\* author only, and the laboratory's list of wafers leaves out those that have
\* not been shipped.

RowsOf(page, ids) == {<<page, x>> : x \in ids}

FormsToFile == {<<"new_request", Nil>>, <<"new_wip", Nil>>}

DraftRows == RowsOf("draft", {r \in Requests : reqStatus[r] = "draft"})

Filed(shown) ==
    {r \in Requests : /\ reqStatus[r] \notin {"none", "draft"}
                      /\ ShownRequest(reqStatus[r]) \in shown}

RequestStates ==
    {"submitted", "in_progress", "completed", "returned", "rejected", "cancelled"}

\* Mutated form: the tab follows the API's names of the statuses.
FabTabByApiName(tab) ==
    RowsOf("fab_request", {r \in Requests : reqStatus[r] = tab})

FabTab(tab) ==
    RowsOf("fab_request",
           CASE tab = "all"     -> Filed(RequestStates)
             [] tab = "pending" -> Filed({"submitted"})
             [] OTHER           -> Filed({tab}))

ManagerTab(tab) ==
    RowsOf("mgr_request",
           CASE tab = "all"     -> Filed(RequestStates)
             [] tab = "pending" -> Filed({"submitted"})
             [] OTHER           -> Filed({tab}))

\* A received wafer in a batch would be "in_wip", but a wafer leaves received
\* when it joins one.
WaferLabel(s) ==
    IF ShownWafer(sampleStatus[s]) = "received" /\ HasWip(s)
    THEN "in_wip" ELSE ShownWafer(sampleStatus[s])

SampleTab(tab) ==
    RowsOf("wafer", {s \in Samples : /\ owner[s] # Nil
                                     /\ sampleStatus[s] # "created"
                                     /\ tab \in {"all", WaferLabel(s)}})

WipTab(tab) ==
    RowsOf("wip", {w \in Wips :
        /\ wipStatus[w] # "none"
        /\ CASE tab = "all"    -> TRUE
             [] tab = "active" -> wipStatus[w] \notin {"completed", "aborted"}
             [] OTHER          -> wipStatus[w] \in {"completed", "aborted"}})

DispatchGroups ==
    [active |-> {"pending", "dispatched", "running"},
     record |-> {"unloaded", "exception"},
     done   |-> {"completed", "aborted"},
     all    |-> {"pending", "dispatched", "running", "unloaded", "exception",
                 "completed", "aborted"}]

DispatchTab(tab) ==
    RowsOf("dispatch",
           {d \in Dispatches : ShownDispatch(dStatus[d]) \in DispatchGroups[tab]})

\* Every page that some list leads to.
Listed ==
    FormsToFile \cup DraftRows \cup FabTab("all") \cup ManagerTab("all")
        \cup SampleTab("all") \cup WipTab("all") \cup DispatchTab("all")

\* The tabs behind the tiles and the cards of the dashboards.
InProgressCard == FabTab("in_progress")
AttentionCard == FabTab("returned")
FabDashboard == InProgressCard \cup AttentionCard \cup DraftRows

ManagerDashboard == ManagerTab("pending")

IncomingTile == SampleTab("incoming")
BatchesTile == WipTab("active")
RunningCard == DispatchTab("active")
ToRecordCard == DispatchTab("record")
LabDashboard == IncomingTile \cup BatchesTile \cup RunningCard \cup ToRecordCard

\* What somebody comes to who looks for work from the dashboard of the role.
AtHand == FormsToFile \cup FabDashboard \cup ManagerDashboard \cup LabDashboard

-----------------------------------------------------------------------------
\* How far a request and its wafers have come, as three components draw it.

Decided == {"draft", "returned", "rejected", "cancelled"}

\* Mutated form: the renamed status decides the dot.
ListStepOfShown(r) ==
    CASE ShownRequest(reqStatus[r]) = "submitted"   -> -1
      [] ShownRequest(reqStatus[r]) = "in_progress" -> 2
      [] OTHER -> 3

\* The dots of a row of a list (approved, shipped, in progress, done): a row
\* comes without its wafers, so the request's own status decides.
ListStep(r) ==
    CASE reqStatus[r] = "pending_approval"       -> -1
      [] reqStatus[r] = "approved"               -> 0
      [] reqStatus[r] = "sample_shipped"         -> 1
      [] reqStatus[r] = "in_progress"            -> 2
      [] reqStatus[r] \in {"completed", "closed"} -> 3

\* Mutated form: a wafer is being processed while some batch has it.
PhaseOfBatch(s) ==
    LET r == owner[s] st == sampleStatus[s] IN
    IF reqStatus[r] \in {"draft", "pending_approval"} THEN -1
    ELSE IF ShownRequest(reqStatus[r]) = "completed" \/ st = "completed" THEN 4
    ELSE IF HasWip(s) THEN 3
    ELSE CASE st \in {"received", "processing"} -> 2
           [] st = "shipped"  -> 1
           [] OTHER           -> 0

\* The phase of a wafer on its owner's page: approved, shipped, received,
\* processing, done.
Phase(s) ==
    LET r == owner[s] st == sampleStatus[s] IN
    IF reqStatus[r] \in {"draft", "pending_approval"} THEN -1
    ELSE IF ShownRequest(reqStatus[r]) = "completed" THEN 4
    ELSE CASE st = "completed" -> 4
           [] st \in {"processing", "processing_exception"} -> 3
           [] st = "received" -> 2
           [] st = "shipped"  -> 1
           [] OTHER           -> 0

\* "Currently at", of a request: its wafer that is least far.
OverallPhase(r) ==
    IF SamplesOf(r) = {} THEN 0 ELSE Min({Phase(s) : s \in SamplesOf(r)})

\* The lifecycle on the laboratory's page of a wafer: arrived, received,
\* processing, done.
WaferStep(s) ==
    CASE ShownWafer(sampleStatus[s]) = "incoming"   -> 0
      [] ShownWafer(sampleStatus[s]) = "processing" -> 2
      [] ShownWafer(sampleStatus[s]) = "completed"  -> 3
      [] OTHER -> 1

\* The experiments of a wafer that its owner and the laboratory see as done, by
\* what its runs have come to, ...
OwnersDone(s) == {e.type : e \in {x \in ExperimentsOf(s) : x.status = "done"}}

\* ... and those that the manager sees, by the progress rows.  Only the wafer's
\* own rows are listed there, not what it inherits of its request.
ManagersDone(s) == {t \in chosen[s] : sesStatus[s][t] = "completed"}

-----------------------------------------------------------------------------
SetAside == {"receiving_exception", "processing_exception", "lost", "returned",
             "voided"}

\* The three drawings of one request's progress agree, although one goes by its
\* status, one by the wafer least far, one by the single wafer, and only
\* cascades move the one along with the other: none of them shows a request as
\* finished, or a batch as under way, while another does not (RequestFlow and
\* stepFromRequest, phaseIndexFor, the lifecycle of LabWaferDetail;
\* check_all_samples_received, check_request_completed).
FlowsAgree ==
    \A r \in Requests :
        LET step == ListStep(r) phase == OverallPhase(r) IN
        reqStatus[r] \notin Decided \cup {"none"} =>
        /\ step = -1 <=> phase = -1
        /\ step = 3 <=> phase = 4
        /\ \A s \in SamplesOf(r) : sampleStatus[s] \notin SetAside =>
            WaferStep(s) = IF Phase(s) < 2 THEN 0 ELSE Phase(s) - 1
        /\ (\A s \in SamplesOf(r) : sampleStatus[s] \notin SetAside) =>
            /\ step = 0 => phase = 0
            /\ step = 1 => phase = 1
            /\ step = 2 => phase \in {2, 3}

\* What the owner of a wafer and the manager are told of its experiments agrees,
\* although one list comes from the runs and the other from the progress rows:
\* what has a verdict is done in both once the result is recorded, and a wafer
\* that is completed has all of it done for the manager (sample_experiments,
\* RequestDetailOut.from_request, FabRequestDetail, MgrRequestDetail).
CountsAgree ==
    \A s \in Samples : owner[s] # Nil /\ chosen[s] # {} =>
        /\ \A t \in OwnersDone(s) : sesVerdict[s][t] # Nil => t \in ManagersDone(s)
        /\ \A t \in ManagersDone(s) \ OwnersDone(s) :
            RunsOf(s, t, {"unloaded"}) # {}
        /\ sampleStatus[s] = "completed" => ManagersDone(s) = chosen[s]

\* The phase that an owner sees of a wafer never goes back, unless the wafer is
\* set aside or its request, returned, is submitted again, through approvals,
\* batches, re-runs and aborts (phaseIndexFor, over two tables that different
\* handlers write).
PhaseNeverGoesBack ==
    [][\A s \in Samples : owner[s] # Nil /\ owner'[s] = owner[s] =>
        \/ Phase(s)' >= Phase(s)
        \/ sampleStatus'[s] \in SetAside
        \/ reqStatus[owner[s]] = "returned"]_vars
=============================================================================
