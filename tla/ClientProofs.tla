---------------------------- MODULE ClientProofs -----------------------------
(***************************************************************************)
(* The clients of the JSON API, for every value of the constants: that the *)
(* pages do no more than the API lets them, so that all that LimsSafety    *)
(* proves holds with the pages as its only clients, and that what a page   *)
(* shows after reading it in parts fits together.                          *)
(***************************************************************************)
EXTENDS Screens, LimsSafety

-----------------------------------------------------------------------------
\* What every client's step leaves of a run and its batch.

\* A run that exists stays one of its batch, and once it has been unloaded it is
\* at most completed.
RunStays(d) ==
    /\ dStatus'[d] # "none" /\ dWip'[d] = dWip[d] /\ wipType'[dWip[d]] = wipType[dWip[d]]
    /\ dStatus[d] \in {"unloaded", "completed"} =>
            dStatus'[d] \in {"unloaded", "completed"}

LEMMA RunsStay ==
    ASSUME TypeOK, DispatchesBound, [Next]_vars, NEW d \in Dispatches,
           dStatus[d] # "none"
    PROVE  RunStays(d)
<1> USE DEF TypeOK, WipTypeOK
<1>1. dWip[d] \in Wips /\ wipStatus[dWip[d]] # "none"
  BY DEF DispatchesBound
<1>2. CASE UNCHANGED <<wipVars, dispatchVars>>
  BY <1>2 DEF wipVars, dispatchVars, RunStays
<1>3. ASSUME NEW w \in Wips,
             \/ \E t \in ExpTypes, S \in SUBSET Samples : CreateWip(w, t, S)
             \/ \E S \in SUBSET Samples : AddSamplesToWip(w, S)
             \/ \E n \in Dispatches, e \in Equipments : CreateDispatch(w, n, e)
             \/ CompleteWip(w)
             \/ AbortWip(w)
      PROVE  RunStays(d)
  BY <1>1, <1>3 DEF CreateWip, AddSamplesToWip, CreateDispatch, CompleteWip, AbortWip,
        dispatchVars, RunStays
<1>4. ASSUME NEW x \in Dispatches,
             \/ StartDispatch(x) \/ UnloadDispatch(x) \/ RecordResult(x)
             \/ CompleteDispatchRun(x) \/ ReportException(x)
             \/ \E n \in Dispatches : Redispatch(x, n)
             \/ AbortDispatch(x) \/ TimerElapses(x)
      PROVE  RunStays(d)
  BY <1>4 DEF StartDispatch, UnloadDispatch, RecordResult, CompleteDispatchRun,
        ReportException, Redispatch, AbortDispatch, TimerElapses, MoveDispatch, wipVars,
        DispatchTransitions, DispatchTarget, RunStays
<1> QED
  BY <1>2, <1>3, <1>4 DEF Next, vars, WipNext, SubmitEquipmentResult,
        FinalizeDueDispatch, dispatchVars

\* What the pages leave of the tables: a step of Lims, and no wafer joins a batch
\* that exists, which no page offers.
ClientStep ==
    /\ [Next]_vars
    /\ \A w \in Wips : wipStatus[w] # "none" => wipSamples'[w] = wipSamples[w]

\* The row that a call is about is one of the page's table.
Addressed(page, b, x) ==
    /\ page \in FabPages \cup LabPages \cup ManagerPages
    /\ page \in {"draft", "fab_request", "mgr_request"} => x \in Requests
    /\ page = "new_request" => b \in {"create", "publish", "submit"}
    /\ page = "new_request" /\ b = "submit" => x \in Requests
    /\ page = "new_wip" => b = "create_wip"
    /\ page = "wafer" => x \in Samples
    /\ page = "wip" => x \in Wips
    /\ page = "dispatch" => x \in Dispatches

\* What a filled form holds: wafers, and for each the types picked, which are types.
LEMMA FormsAreTyped ==
    ASSUME NEW b, NEW f \in FilledForms(b)
    PROVE  /\ f.wafers \in SUBSET Samples /\ AllPicked(f) \in SUBSET ExpTypes
           /\ f.picked \in [f.wafers -> SUBSET ExpTypes]
           /\ f.picked \in [f.wafers -> SUBSET AllPicked(f)]
<1> DEFINE Types == {T \in SUBSET ActiveTypes : b = "publish" => T # {}}
<1>0. PICK S \in SUBSET Samples :
            \E sel \in [S -> Types] : f = [wafers |-> S, picked |-> sel]
  BY DEF FilledForms
<1>1. PICK sel \in [S -> Types] : f = [wafers |-> S, picked |-> sel]
  BY <1>0
<1>2. ActiveTypes \subseteq ExpTypes
  BY DEF ActiveTypes
<1>3. f.wafers = S /\ f.picked = sel
  BY <1>1
<1>4. AllPicked(f) = UNION {sel[s] : s \in S}
  BY <1>3 DEF AllPicked
<1>5. \A s \in S : sel[s] \subseteq ExpTypes /\ sel[s] \subseteq AllPicked(f)
  BY <1>2, <1>4
<1>6. AllPicked(f) \subseteq ExpTypes
  BY <1>4, <1>5
<1> QED
  BY <1>1, <1>3, <1>5, <1>6

\* Each call behind a button of the pages of requests is a step of Lims, one that
\* adds no wafer to a batch; so are those of the pages of WIPs and of runs.
LEMMA RequestCallsAreSteps ==
    ASSUME NEW page, NEW b, NEW x, RequestCall(page, b, x),
           page \in {"new_request", "draft", "fab_request", "mgr_request"},
           Addressed(page, b, x)
    PROVE  CommissionNext /\ UNCHANGED <<catalogVars, wipVars, dispatchVars, verdictVars>>
<1>1. CASE page = "new_request" /\ \E new \in Requests, f \in FilledForms(b) :
                CreateRequest(new, AllPicked(f), f.wafers, f.picked)
  <2>1. PICK new \in Requests, f \in FilledForms(b) :
                CreateRequest(new, AllPicked(f), f.wafers, f.picked)
    BY <1>1
  <2> QED
    BY <2>1, FormsAreTyped DEF CommissionNext, RequestCall
<1>2. CASE x \in Requests /\ \E f \in FilledForms(b) :
                UpdateRequest(x, AllPicked(f), f.wafers, f.picked)
  <2>1. PICK f \in FilledForms(b) : UpdateRequest(x, AllPicked(f), f.wafers, f.picked)
    BY <1>2
  <2> QED
    BY <1>2, <2>1, FormsAreTyped DEF CommissionNext, RequestCall
<1>3. CASE /\ x \in Requests
           /\ \/ SubmitRequest(x) \/ DeleteDraft(x) \/ ShipRequest(x) \/ CancelRequest(x)
              \/ ApproveRequest(x) \/ ReturnRequest(x) \/ RejectRequest(x)
              \/ CloseRequest(x)
  BY <1>3 DEF CommissionNext, RequestCall
<1> QED
  BY <1>1, <1>2, <1>3 DEF RequestCall, Addressed

LEMMA WipCallsAreSteps ==
    ASSUME TypeOK, NEW page \in {"new_wip", "wip"}, NEW b, NEW x, NEW seen,
           WipCall(b, x, seen), Addressed(page, b, x)
    PROVE  WipNext /\ \A w \in Wips : wipStatus[w] # "none" => wipSamples'[w] = wipSamples[w]
<1>1. CASE \E t \in ExpTypes, new \in Wips :
                \E S \in Picked(seen.picks, t) : CreateWip(new, t, S)
  <2>0. PICK t \in ExpTypes, new \in Wips :
                \E S \in Picked(seen.picks, t) : CreateWip(new, t, S)
    BY <1>1
  <2>1. PICK S \in Picked(seen.picks, t) : CreateWip(new, t, S)
    BY <2>0
  <2>2. S \in SUBSET Samples
    BY DEF Picked
  <2>3. WipNext
    BY <2>1, <2>2 DEF WipNext
  <2> QED
    BY <2>1, <2>3 DEF CreateWip, TypeOK, WipTypeOK
<1>2. CASE x \in Wips /\ \E d \in Dispatches, e \in MachinesFor(wipType[x]) :
                CreateDispatch(x, d, e)
  <2>1. MachinesFor(wipType[x]) \subseteq Equipments
    BY DEF MachinesFor
  <2>2. WipNext
    BY <1>2, <2>1 DEF WipNext
  <2> QED
    BY <1>2, <2>2 DEF CreateDispatch
<1> QED
  BY <1>1, <1>2 DEF WipCall, Addressed

LEMMA DispatchCallsAreSteps ==
    ASSUME NEW x \in Dispatches,
           \/ \E b : DispatchCall(b, x)
           \/ SubmitEquipmentResult(x) \/ FinalizeDueDispatch(x) \/ TimerElapses(x)
    PROVE  WipNext /\ UNCHANGED wipSamples
<1>1. WipNext
  BY DEF DispatchCall, WipNext
<1>2. UNCHANGED wipSamples
  BY DEF DispatchCall, StartDispatch, UnloadDispatch, RecordResult, CompleteDispatchRun,
         SubmitEquipmentResult, FinalizeDueDispatch, ReportException, Redispatch,
         AbortDispatch, TimerElapses, wipVars
<1> QED
  BY <1>1, <1>2

\* Whatever a page calls is a step of the API.
LEMMA CallsAreSteps ==
    ASSUME TypeOK, NEW page, NEW b, NEW x, NEW seen,
           Addressed(page, b, x), ApiCall(page, b, x, seen)
    PROVE  ClientStep
<1>1. CASE page \in {"new_request", "draft", "fab_request", "mgr_request"}
  <2>0. /\ page # "wafer" /\ page # "dispatch" /\ page \notin {"new_wip", "wip"}
        /\ (page \in {"new_request", "draft", "fab_request", "mgr_request"}) = TRUE
    BY <1>1
  <2>1. RequestCall(page, b, x)
    BY <1>1, <2>0, Zenon DEF ApiCall
  <2> QED
    BY <1>1, <2>1, RequestCallsAreSteps DEF ClientStep, Next, wipVars
<1>2. CASE page = "wafer"
  <2>1. WaferCall(b, x) /\ x \in Samples
    BY <1>2 DEF ApiCall, Addressed
  <2>2. CommissionNext
    BY <2>1 DEF WaferCall, CommissionNext
  <2> QED
    BY <2>1, <2>2 DEF ClientStep, Next, wipVars, WaferCall
<1>3. CASE page \in {"new_wip", "wip"}
  <2>0. /\ page # "wafer" /\ page # "dispatch"
        /\ page \notin {"new_request", "draft", "fab_request", "mgr_request"}
    BY <1>3
  <2>1. WipCall(b, x, seen)
    BY <1>3, <2>0, Zenon DEF ApiCall
  <2> QED
    BY <1>3, <2>1, WipCallsAreSteps DEF ClientStep, Next
<1>4. CASE page = "dispatch"
  <2>1. DispatchCall(b, x) /\ x \in Dispatches
    BY <1>4 DEF ApiCall, Addressed
  <2> QED
    BY <2>1, DispatchCallsAreSteps DEF ClientStep, Next
<1> QED
  BY <1>1, <1>2, <1>3, <1>4 DEF Addressed, FabPages, LabPages, ManagerPages

-----------------------------------------------------------------------------
\* What a tab is once some of its fields are written.

IsTab(p) ==
    p \in [page : {p.page}, on : {p.on}, seen : {p.seen}, failed : {p.failed},
           left : {p.left}, got : {p.got}, button : {p.button}, timer : {p.timer}]

HasFields(p, page, on, seen, failed, left, got, button, timer) ==
    /\ IsTab(p) /\ p.page = page /\ p.on = on /\ p.seen = seen /\ p.failed = failed
    /\ p.left = left /\ p.got = got /\ p.button = button /\ p.timer = timer

\* The fields of a tab, one by one, after a change to it.
LEMMA SetButton ==
    ASSUME NEW p, IsTab(p), NEW v0, NEW q,
           q = [p EXCEPT !.button = v0]
    PROVE  HasFields(q, p.page, p.on, p.seen, p.failed, p.left, p.got, v0, p.timer)
BY DEF HasFields, IsTab

LEMMA SetTimer ==
    ASSUME NEW p, IsTab(p), NEW v0, NEW q,
           q = [p EXCEPT !.timer = v0]
    PROVE  HasFields(q, p.page, p.on, p.seen, p.failed, p.left, p.got, p.button, v0)
BY DEF HasFields, IsTab

LEMMA SetPlace ==
    ASSUME NEW p, IsTab(p), NEW v0, NEW v1, NEW q,
           q = [p EXCEPT !.page = v0, !.on = v1]
    PROVE  HasFields(q, v0, v1, p.seen, p.failed, p.left, p.got, p.button, p.timer)
<1>1. PICK a : a = [p EXCEPT !.page = v0]
  OBVIOUS
<1>2. q = [a EXCEPT !.on = v1]
  BY <1>1
<1>3. HasFields(a, v0, p.on, p.seen, p.failed, p.left, p.got, p.button, p.timer)
  BY <1>1 DEF HasFields, IsTab
<1> QED
  BY <1>2, <1>3 DEF HasFields, IsTab

LEMMA SetButtonOn ==
    ASSUME NEW p, IsTab(p), NEW v0, NEW v1, NEW q,
           q = [p EXCEPT !.button = v0, !.on = v1]
    PROVE  HasFields(q, p.page, v1, p.seen, p.failed, p.left, p.got, v0, p.timer)
<1>1. PICK a : a = [p EXCEPT !.button = v0]
  OBVIOUS
<1>2. q = [a EXCEPT !.on = v1]
  BY <1>1
<1>3. HasFields(a, p.page, p.on, p.seen, p.failed, p.left, p.got, v0, p.timer)
  BY <1>1 DEF HasFields, IsTab
<1> QED
  BY <1>2, <1>3 DEF HasFields, IsTab

LEMMA SetLeftGot ==
    ASSUME NEW p, IsTab(p), NEW v0, NEW v1, NEW q,
           q = [p EXCEPT !.left = v0, !.got = v1]
    PROVE  HasFields(q, p.page, p.on, p.seen, p.failed, v0, v1, p.button, p.timer)
<1>1. PICK a : a = [p EXCEPT !.left = v0]
  OBVIOUS
<1>2. q = [a EXCEPT !.got = v1]
  BY <1>1
<1>3. HasFields(a, p.page, p.on, p.seen, p.failed, v0, p.got, p.button, p.timer)
  BY <1>1 DEF HasFields, IsTab
<1> QED
  BY <1>2, <1>3 DEF HasFields, IsTab

LEMMA SetLeftGotFailed ==
    ASSUME NEW p, IsTab(p), NEW v0, NEW v1, NEW v2, NEW q,
           q = [p EXCEPT !.left = v0, !.got = v1, !.failed = v2]
    PROVE  HasFields(q, p.page, p.on, p.seen, v2, v0, v1, p.button, p.timer)
<1>1. PICK a : a = [p EXCEPT !.left = v0]
  OBVIOUS
<1>2. PICK b : b = [a EXCEPT !.got = v1]
  OBVIOUS
<1>3. q = [b EXCEPT !.failed = v2]
  BY <1>1, <1>2
<1>4. HasFields(a, p.page, p.on, p.seen, p.failed, v0, p.got, p.button, p.timer)
  BY <1>1 DEF HasFields, IsTab
<1>5. HasFields(b, p.page, p.on, p.seen, p.failed, v0, v1, p.button, p.timer)
  BY <1>2, <1>4 DEF HasFields, IsTab
<1> QED
  BY <1>3, <1>5 DEF HasFields, IsTab

LEMMA SetRead ==
    ASSUME NEW p, IsTab(p), NEW v0, NEW v1, NEW v2, NEW v3, NEW q,
           q = [p EXCEPT !.left = v0, !.got = v1, !.failed = v2, !.seen = v3]
    PROVE  HasFields(q, p.page, p.on, v3, v2, v0, v1, p.button, p.timer)
<1>1. PICK a : a = [p EXCEPT !.left = v0]
  OBVIOUS
<1>2. PICK b : b = [a EXCEPT !.got = v1]
  OBVIOUS
<1>3. PICK c : c = [b EXCEPT !.failed = v2]
  OBVIOUS
<1>4. q = [c EXCEPT !.seen = v3]
  BY <1>1, <1>2, <1>3
<1>5. HasFields(a, p.page, p.on, p.seen, p.failed, v0, p.got, p.button, p.timer)
  BY <1>1 DEF HasFields, IsTab
<1>6. HasFields(b, p.page, p.on, p.seen, p.failed, v0, v1, p.button, p.timer)
  BY <1>2, <1>5 DEF HasFields, IsTab
<1>7. HasFields(c, p.page, p.on, p.seen, v2, v0, v1, p.button, p.timer)
  BY <1>3, <1>6 DEF HasFields, IsTab
<1> QED
  BY <1>4, <1>7 DEF HasFields, IsTab

-----------------------------------------------------------------------------
\* The shape of a tab: its page is about a row of the page's table, the button
\* under way is one of the page's, and what is left to be read is an end of the
\* parts of the page.

IsReading(x) ==
    x \in [status : {x.status}, active : {x.active}, picks : {x.picks},
           wafers : {x.wafers}, rows : {x.rows}]

Remainders(page) ==
    CASE page = "none"     -> {<<>>}
      [] page = "dispatch" -> {<<"row", "wafers", "rows">>, <<"wafers", "rows">>,
                               <<"rows">>, <<>>}
      [] page = "wafer"    -> {<<"row", "rows">>, <<"rows">>, <<>>}
      [] OTHER             -> {<<"row">>, <<>>}

Shape(p) ==
    /\ IsTab(p) /\ IsReading(p.seen) /\ IsReading(p.got)
    /\ p.failed \in BOOLEAN
    /\ p.left \in Remainders(p.page)
    /\ p.timer = "calling" => p.page = "dispatch"

WellPlaced(p) ==
    /\ p.page = "none" => p.button = "none"
    /\ p.page # "none" => p.page \in FabPages \cup LabPages \cup ManagerPages
    /\ p.page \in {"draft", "fab_request", "mgr_request"} => p.on \in Requests
    /\ p.page = "new_request" =>
            p.button \in {"none", "create", "publish", "submit"}
    /\ p.page = "new_request" /\ p.button = "submit" => p.on \in Requests
    /\ p.page = "new_request" => p.on \in Requests \cup {Nil}
    /\ p.page = "new_wip" => p.button \in {"none", "create_wip"}
    /\ p.page = "wafer" => p.on \in Samples
    /\ p.page = "wip" => p.on \in Wips
    /\ p.page = "dispatch" => p.on \in Dispatches

TabOK(p) == Shape(p) /\ WellPlaced(p)

\* A well placed tab is about a row of its table, so its calls are steps.
LEMMA PlacedCallsAreSteps ==
    ASSUME TypeOK, NEW p, WellPlaced(p), p.button # "none",
           ApiCall(p.page, p.button, p.on, p.seen)
    PROVE  ClientStep
<1>1. Addressed(p.page, p.button, p.on)
  BY DEF WellPlaced, Addressed
<1> QED
  BY <1>1, CallsAreSteps

LEMMA PartsAreARemainder ==
    ASSUME NEW page PROVE PartsOf(page) \in Remainders(page)
<1>1. CASE page = "none"
  BY <1>1 DEF PartsOf, Remainders
<1>2. CASE page = "dispatch"
  BY <1>2 DEF PartsOf, Remainders
<1>3. CASE page = "wafer"
  BY <1>3 DEF PartsOf, Remainders
<1>4. CASE page # "none" /\ page # "dispatch" /\ page # "wafer"
  BY <1>4 DEF PartsOf, Remainders
<1> QED
  BY <1>1, <1>2, <1>3, <1>4

LEMMA ReadingsAreReadings == \A st : IsReading(Reading(st))
BY DEF IsReading, Reading

LEMMA RefreshFields ==
    ASSUME NEW p, IsTab(p), NEW q, q = Refresh(p)
    PROVE  HasFields(q, p.page, p.on, p.seen, p.failed, PartsOf(p.page),
                     Reading("none"), p.button, p.timer)
<1>1. PICK l : l = PartsOf(p.page)
  OBVIOUS
<1>2. PICK g : g = Reading("none")
  OBVIOUS
<1>3. q = [p EXCEPT !.left = l, !.got = g]
  BY <1>1, <1>2 DEF Refresh
<1>4. HasFields(q, p.page, p.on, p.seen, p.failed, l, g, p.button, p.timer)
  BY <1>3, SetLeftGot, Zenon
<1> QED
  BY <1>1, <1>2, <1>4

LEMMA RefreshIsOK == ASSUME NEW p, TabOK(p), NEW q, q = Refresh(p) PROVE TabOK(q)
<1>1. IsTab(p)
  BY DEF TabOK, Shape
<1>2. PartsOf(p.page) \in Remainders(p.page) /\ IsReading(Reading("none"))
  BY PartsAreARemainder, ReadingsAreReadings
<1>3. HasFields(q, p.page, p.on, p.seen, p.failed, PartsOf(p.page),
                Reading("none"), p.button, p.timer)
  BY <1>1, RefreshFields, Zenon
<1> QED
  BY <1>2, <1>3 DEF TabOK, Shape, WellPlaced, HasFields

LEMMA NoPageFields ==
    ASSUME NEW p, p = NoPage
    PROVE  HasFields(p, "none", Nil, Reading("none"), FALSE, <<>>, Reading("none"),
                     "none", "armed")
BY DEF NoPage, HasFields, IsTab

LEMMA NoPageIsOK == ASSUME NEW p, p = NoPage PROVE TabOK(p)
<1>1. <<>> \in Remainders("none") /\ IsReading(Reading("none"))
  BY ReadingsAreReadings DEF Remainders
<1> QED
  BY <1>1, NoPageFields DEF TabOK, Shape, WellPlaced, HasFields

LEMMA OpenedFields ==
    ASSUME NEW page, NEW x, NEW q, q = PageOf(page, x)
    PROVE  HasFields(q, page, x, Reading("none"), FALSE, PartsOf(page),
                     Reading("none"), "none", "armed")
<1>1. PICK n : n = NoPage
  OBVIOUS
<1>2. PICK p : p = [n EXCEPT !.page = page, !.on = x]
  OBVIOUS
<1>3. q = Refresh(p)
  BY <1>1, <1>2 DEF PageOf
<1>4. /\ IsTab(n) /\ n.seen = Reading("none") /\ n.failed = FALSE
      /\ n.button = "none" /\ n.timer = "armed"
  BY <1>1, NoPageFields DEF HasFields
<1>5. HasFields(p, page, x, n.seen, n.failed, n.left, n.got, n.button, n.timer)
  BY <1>2, <1>4, SetPlace, Zenon
<1>6. IsTab(p)
  BY <1>5 DEF HasFields
<1>7. HasFields(q, p.page, p.on, p.seen, p.failed, PartsOf(p.page), Reading("none"),
                p.button, p.timer)
  BY <1>3, <1>6, RefreshFields, Zenon
<1> QED
  BY <1>4, <1>5, <1>7 DEF HasFields

LEMMA OpenedIsOK ==
    ASSUME NEW page \in FabPages \cup LabPages \cup ManagerPages, NEW x,
           <<page, x>> \in Listed, NEW q, q = PageOf(page, x)
    PROVE  TabOK(q)
<1>1. /\ page \in {"draft", "fab_request", "mgr_request"} => x \in Requests
      /\ page = "new_request" => x = Nil
      /\ page = "wafer" => x \in Samples
      /\ page = "wip" => x \in Wips
      /\ page = "dispatch" => x \in Dispatches
  BY DEF Listed, FormsToFile, DraftRows, FabTab, ManagerTab, SampleTab, WipTab,
         DispatchTab, RowsOf, Filed
<1>2. page # "none"
  BY DEF FabPages, LabPages, ManagerPages
<1>3. PartsOf(page) \in Remainders(page) /\ IsReading(Reading("none"))
  BY PartsAreARemainder, ReadingsAreReadings
<1>4. HasFields(q, page, x, Reading("none"), FALSE, PartsOf(page), Reading("none"),
                "none", "armed")
  BY OpenedFields, Zenon
<1> QED
  BY <1>1, <1>2, <1>3, <1>4 DEF TabOK, Shape, WellPlaced, HasFields

LEMMA ButtonsOfForms ==
    \A seen : /\ Buttons("none", seen) = {}
              /\ Buttons("new_request", seen) = {"create", "publish"}
              /\ Buttons("new_wip", seen) \subseteq {"create_wip"}
<1> TAKE seen
<1>1. Buttons("none", seen) = {}
  BY DEF Buttons
<1>2. Buttons("new_request", seen) = {"create", "publish"}
  BY DEF Buttons, NewRequestButtons
<1>3. Buttons("new_wip", seen) = NewWipButtons(seen)
  BY DEF Buttons
<1> QED
  BY <1>1, <1>2, <1>3 DEF NewWipButtons

LEMMA PressedIsOK ==
    ASSUME NEW p, TabOK(p), p.button = "none", NEW b \in Offered(p),
           NEW q, q = [p EXCEPT !.button = b]
    PROVE  /\ HasFields(q, p.page, p.on, p.seen, p.failed, p.left, p.got, b, p.timer)
           /\ TabOK(q)
<1>1. IsTab(p) /\ b \in Buttons(p.page, p.seen)
  BY DEF TabOK, Shape, Offered
<1>2. HasFields(q, p.page, p.on, p.seen, p.failed, p.left, p.got, b, p.timer)
  BY <1>1, SetButton, Zenon
<1>3. /\ p.page # "none"
      /\ p.page = "new_request" => b \in {"create", "publish"}
      /\ p.page = "new_wip" => b = "create_wip"
  BY <1>1, ButtonsOfForms
<1> QED
  BY <1>2, <1>3 DEF TabOK, Shape, WellPlaced, HasFields

LEMMA RefusedIsOK ==
    ASSUME NEW p, TabOK(p), NEW q, q = Refused(p)
    PROVE  /\ TabOK(q)
           /\ HasFields(q, p.page, IF p.page = "new_request" THEN Nil ELSE p.on, p.seen,
                        p.failed, p.left, p.got, "none", p.timer)
<1>1. IsTab(p)
  BY DEF TabOK, Shape
<1>2. PICK a : a = [p EXCEPT !.button = "none"]
  OBVIOUS
<1>3. a.on = p.on /\ a.page = p.page
  <2>1. HasFields(a, p.page, p.on, p.seen, p.failed, p.left, p.got, "none", p.timer)
    BY <1>1, <1>2, SetButton, Zenon
  <2> QED
    BY <2>1 DEF HasFields
<1>4. PICK x : x = IF p.page = "new_request" THEN Nil ELSE p.on
  OBVIOUS
<1>5. q = [p EXCEPT !.button = "none", !.on = x]
  BY <1>2, <1>3, <1>4 DEF Refused
<1>6. HasFields(q, p.page, x, p.seen, p.failed, p.left, p.got, "none", p.timer)
  BY <1>1, <1>5, SetButtonOn, Zenon
<1> QED
  BY <1>4, <1>6 DEF TabOK, Shape, WellPlaced, HasFields

\* Only a form publishes, and one that files a request is told its id.
LEMMA PublishedIsFiled ==
    ASSUME TypeOK, NEW p, TabOK(p), p.button = "publish",
           ApiCall(p.page, p.button, p.on, p.seen)
    PROVE  /\ p.page \in {"new_request", "draft"}
           /\ (IF p.on = Nil THEN JustFiled ELSE p.on) \in Requests
<1>1. p.page \in FabPages \cup LabPages \cup ManagerPages
  BY DEF TabOK, WellPlaced
<1>2. p.page # "wafer"
  <2>1. p.page = "wafer" => WaferCall(p.button, p.on)
    BY DEF ApiCall
  <2> QED
    BY <2>1 DEF WaferCall
<1>3. p.page \notin {"new_wip", "wip"}
  <2>1. p.page = "new_wip" => WipCall(p.button, p.on, p.seen)
    BY Zenon DEF ApiCall
  <2>2. p.page = "wip" => WipCall(p.button, p.on, p.seen)
    BY Zenon DEF ApiCall
  <2> QED
    BY <2>1, <2>2 DEF WipCall
<1>4. p.page # "dispatch"
  <2>1. p.page = "dispatch" => DispatchCall(p.button, p.on)
    BY DEF ApiCall
  <2> QED
    BY <2>1 DEF DispatchCall
<1>5. p.page \in {"new_request", "draft", "fab_request", "mgr_request"}
  BY <1>1, <1>2, <1>3, <1>4 DEF FabPages, LabPages, ManagerPages
<1>6. RequestCall(p.page, p.button, p.on)
  <2>1. /\ p.page # "wafer" /\ p.page # "dispatch" /\ p.page \notin {"new_wip", "wip"}
        /\ (p.page \in {"new_request", "draft", "fab_request", "mgr_request"}) = TRUE
    BY <1>5
  <2> QED
    BY <2>1, Zenon DEF ApiCall
<1>7. CASE p.page = "draft"
  BY <1>7, NilAssumption DEF TabOK, WellPlaced
<1>8. CASE p.page = "new_request"
  <2>1. PICK new \in Requests, f \in FilledForms(p.button) :
            CreateRequest(new, AllPicked(f), f.wafers, f.picked)
    BY <1>6, <1>8 DEF RequestCall
  <2>2. reqStatus'[new] # reqStatus[new]
    BY <2>1 DEF CreateRequest, TypeOK, CommissionTypeOK
  <2>3. JustFiled \in Requests
    BY <2>2 DEF JustFiled
  <2>4. p.on \in Requests \cup {Nil}
    BY <1>8 DEF TabOK, WellPlaced
  <2> QED
    BY <1>8, <2>3, <2>4
<1> QED
  BY <1>5, <1>6, <1>7, <1>8 DEF RequestCall

\* A tab that is about to read its page from the start, or has none.
FromTheStart(p) == p.left = PartsOf(p.page) /\ p.got = Reading("none")

LEMMA RefreshedIsOK ==
    ASSUME NEW p, TabOK(p), NEW q, q = Refresh(p)
    PROVE  TabOK(q) /\ FromTheStart(q) /\ q.page = p.page /\ q.on = p.on
<1>1. IsTab(p)
  BY DEF TabOK, Shape
<1>2. HasFields(q, p.page, p.on, p.seen, p.failed, PartsOf(p.page),
                Reading("none"), p.button, p.timer)
  BY <1>1, RefreshFields, Zenon
<1> QED
  BY <1>2, RefreshIsOK DEF HasFields, FromTheStart

LEMMA SucceededIsOK ==
    ASSUME TypeOK, NEW p, TabOK(p), p.button # "none",
           ApiCall(p.page, p.button, p.on, p.seen), NEW q, q = Succeeded(p)
    PROVE  /\ TabOK(q)
           /\ \/ /\ FromTheStart(q)
                 /\ q.page = "none" \/ (q.page = p.page /\ q.on = p.on)
              \/ /\ q.page \in {"new_request", "draft"}
                 /\ q.page = p.page /\ q.left = p.left /\ q.got = p.got
<1>1. IsTab(p)
  BY DEF TabOK, Shape
<1>2. CASE p.button = "publish"
  <2>1. PICK x \in Requests : x = IF p.on = Nil THEN JustFiled ELSE p.on
    BY <1>2, PublishedIsFiled
  <2>2. PICK a : a = [p EXCEPT !.button = "submit"]
    OBVIOUS
  <2>3. a.on = p.on
    <3>1. HasFields(a, p.page, p.on, p.seen, p.failed, p.left, p.got, "submit", p.timer)
      BY <1>1, <2>2, SetButton, Zenon
    <3> QED
      BY <3>1 DEF HasFields
  <2>4. q = [p EXCEPT !.button = "submit", !.on = x]
    BY <1>2, <2>1, <2>2, <2>3 DEF Succeeded
  <2>5. HasFields(q, p.page, x, p.seen, p.failed, p.left, p.got, "submit", p.timer)
    BY <1>1, <2>4, SetButtonOn, Zenon
  <2>6. p.page \in {"new_request", "draft"}
    BY <1>2, PublishedIsFiled
  <2> QED
    BY <2>1, <2>5, <2>6 DEF TabOK, Shape, WellPlaced, HasFields
<1>3. CASE p.button # "publish" /\ q = NoPage
  <2>1. HasFields(q, "none", Nil, Reading("none"), FALSE, <<>>, Reading("none"), "none",
                  "armed")
    BY <1>3, NoPageFields, Zenon
  <2> QED
    BY <1>3, <2>1, NoPageIsOK DEF HasFields, FromTheStart, PartsOf
<1>4. CASE p.button # "publish" /\ q = Refresh([p EXCEPT !.button = "none"])
  <2>1. PICK a : a = [p EXCEPT !.button = "none"]
    OBVIOUS
  <2>2. HasFields(a, p.page, p.on, p.seen, p.failed, p.left, p.got, "none", p.timer)
    BY <1>1, <2>1, SetButton, Zenon
  <2>3. TabOK(a)
    BY <2>2 DEF TabOK, Shape, WellPlaced, HasFields
  <2>4. q = Refresh(a)
    BY <1>4, <2>1
  <2>5. TabOK(q) /\ FromTheStart(q) /\ q.page = a.page /\ q.on = a.on
    BY <2>3, <2>4, RefreshedIsOK, Zenon
  <2> QED
    BY <2>2, <2>5 DEF HasFields
<1>5. p.button # "publish" => q \in {NoPage, Refresh([p EXCEPT !.button = "none"])}
  BY DEF Succeeded
<1> QED
  BY <1>2, <1>3, <1>4, <1>5

LEMMA ResyncedIsOK ==
    ASSUME NEW p, TabOK(p), NEW failed, NEW q, q = Resync(p, failed)
    PROVE  /\ TabOK(q) /\ q.page = p.page /\ q.on = p.on
           /\ \/ FromTheStart(q)
              \/ HasFields(q, p.page, p.on, p.seen, p.failed, p.left, p.got, p.button,
                           "fired")
<1>1. IsTab(p)
  BY DEF TabOK, Shape
<1>2. PICK a : a = [p EXCEPT !.timer = "fired"]
  OBVIOUS
<1>3. HasFields(a, p.page, p.on, p.seen, p.failed, p.left, p.got, p.button, "fired")
  BY <1>1, <1>2, SetTimer, Zenon
<1>4. TabOK(a)
  BY <1>3 DEF TabOK, Shape, WellPlaced, HasFields
<1>5. CASE q = a
  BY <1>3, <1>4, <1>5 DEF HasFields
<1>6. CASE q = Refresh(a)
  <2>1. TabOK(q) /\ FromTheStart(q) /\ q.page = a.page /\ q.on = a.on
    BY <1>4, <1>6, RefreshedIsOK, Zenon
  <2> QED
    BY <1>3, <2>1 DEF HasFields
<1> QED
  BY <1>2, <1>5, <1>6 DEF Resync

LEMMA FiredIsOK ==
    ASSUME NEW p, TabOK(p), p.page = "dispatch", NEW q, q = [p EXCEPT !.timer = "calling"]
    PROVE  /\ TabOK(q)
           /\ HasFields(q, p.page, p.on, p.seen, p.failed, p.left, p.got, p.button,
                        "calling")
<1>1. IsTab(p)
  BY DEF TabOK, Shape
<1>2. HasFields(q, p.page, p.on, p.seen, p.failed, p.left, p.got, p.button, "calling")
  BY <1>1, SetTimer, Zenon
<1> QED
  BY <1>2 DEF TabOK, Shape, WellPlaced, HasFields

LEMMA NotFoundIsOK ==
    ASSUME NEW p, TabOK(p),
           NEW q, q = [p EXCEPT !.left = <<>>, !.got = Reading("none"), !.failed = TRUE]
    PROVE  /\ TabOK(q)
           /\ HasFields(q, p.page, p.on, p.seen, TRUE, <<>>, Reading("none"), p.button,
                        p.timer)
<1>1. IsTab(p)
  BY DEF TabOK, Shape
<1>2. PICK g : g = Reading("none")
  OBVIOUS
<1>3. HasFields(q, p.page, p.on, p.seen, TRUE, <<>>, g, p.button, p.timer)
  BY <1>1, <1>2, SetLeftGotFailed, Zenon
<1>4. <<>> \in Remainders(p.page)
  <2>1. CASE p.page \in {"none", "dispatch", "wafer"}
    BY <2>1 DEF Remainders
  <2>2. CASE p.page \notin {"none", "dispatch", "wafer"}
    BY <2>2 DEF Remainders
  <2> QED
    BY <2>1, <2>2
<1> QED
  BY <1>2, <1>3, <1>4, ReadingsAreReadings DEF TabOK, Shape, WellPlaced, HasFields

\* The parts of a page, one after the other.
Parted(page, left) ==
    /\ Tail(left) \in Remainders(page)
    /\ Tail(left) # PartsOf(page)
    /\ page # "none"
    /\ page = "dispatch" =>
        \/ left = PartsOf(page) /\ Head(left) = "row" /\ Tail(left) = <<"wafers", "rows">>
        \/ left = <<"wafers", "rows">> /\ Head(left) = "wafers" /\ Tail(left) = <<"rows">>
        \/ left = <<"rows">> /\ Head(left) = "rows" /\ Tail(left) = <<>>
    /\ page = "wafer" =>
        \/ left = PartsOf(page) /\ Head(left) = "row" /\ Tail(left) = <<"rows">>
        \/ left = <<"rows">> /\ Head(left) = "rows" /\ Tail(left) = <<>>
    /\ page \notin {"dispatch", "wafer"} =>
        left = PartsOf(page) /\ Head(left) = "row" /\ Tail(left) = <<>>

LEMMA Remains ==
    ASSUME NEW page, NEW left \in Remainders(page), left # <<>>
    PROVE  Parted(page, left)
<1> USE DEF Parted
<1>1. page # "none"
  BY DEF Remainders
<1>2. CASE page = "dispatch"
  <2>1. /\ Remainders(page) = {<<"row", "wafers", "rows">>, <<"wafers", "rows">>,
                               <<"rows">>, <<>>}
        /\ PartsOf(page) = <<"row", "wafers", "rows">>
    BY <1>2 DEF Remainders, PartsOf
  <2>2. CASE left = <<"row", "wafers", "rows">>
    <3>1. Tail(left) = <<"wafers", "rows">> /\ Head(left) = "row"
      BY <2>2
    <3>2. <<"wafers", "rows">> # <<"row", "wafers", "rows">>
      OBVIOUS
    <3> QED
      BY <1>2, <2>1, <2>2, <3>1, <3>2
  <2>3. CASE left = <<"wafers", "rows">>
    <3>1. Tail(left) = <<"rows">> /\ Head(left) = "wafers"
      BY <2>3
    <3>2. <<"rows">> # <<"row", "wafers", "rows">>
      OBVIOUS
    <3> QED
      BY <1>2, <2>1, <2>3, <3>1, <3>2
  <2>4. CASE left = <<"rows">>
    <3>1. Tail(left) = <<>> /\ Head(left) = "rows"
      BY <2>4
    <3>2. <<>> # <<"row", "wafers", "rows">>
      OBVIOUS
    <3> QED
      BY <1>2, <2>1, <2>4, <3>1, <3>2
  <2> QED
    BY <2>1, <2>2, <2>3, <2>4
<1>3. CASE page = "wafer"
  <2>1. /\ Remainders(page) = {<<"row", "rows">>, <<"rows">>, <<>>}
        /\ PartsOf(page) = <<"row", "rows">>
    BY <1>3 DEF Remainders, PartsOf
  <2>2. CASE left = <<"row", "rows">>
    <3>1. Tail(left) = <<"rows">> /\ Head(left) = "row"
      BY <2>2
    <3>2. <<"rows">> # <<"row", "rows">>
      OBVIOUS
    <3> QED
      BY <1>3, <2>1, <2>2, <3>1, <3>2
  <2>3. CASE left = <<"rows">>
    <3>1. Tail(left) = <<>> /\ Head(left) = "rows"
      BY <2>3
    <3>2. <<>> # <<"row", "rows">>
      OBVIOUS
    <3> QED
      BY <1>3, <2>1, <2>3, <3>1, <3>2
  <2> QED
    BY <2>1, <2>2, <2>3
<1>4. CASE page \notin {"none", "dispatch", "wafer"}
  <2>1. Remainders(page) = {<<"row">>, <<>>} /\ PartsOf(page) = <<"row">>
    BY <1>4 DEF Remainders, PartsOf
  <2>2. Tail(<<"row">>) = <<>> /\ Head(<<"row">>) = "row" /\ <<>> # <<"row">>
    OBVIOUS
  <2> QED
    BY <1>4, <2>1, <2>2
<1> QED
  BY <1>1, <1>2, <1>3, <1>4

LEMMA StatusIsReading ==
    ASSUME NEW x, IsReading(x), NEW st, NEW y, y = [x EXCEPT !.status = st]
    PROVE  IsReading(y) /\ y.wafers = x.wafers /\ y.rows = x.rows
BY DEF IsReading

\* Tab q is tab p with a part less to read, and g read so far.
Further(q, p, g) ==
    /\ TabOK(q) /\ q.page = p.page /\ q.on = p.on /\ q.left = Tail(p.left)
    /\ q.left = <<>> => q.seen = g
    /\ q.left # <<>> => q.got = g

\* Reading a part of a page leaves the tab well formed, with one part less to read.
LEMMA PartReadIsOK ==
    ASSUME NEW p, TabOK(p), p.left # <<>>, NEW g, IsReading(g),
           NEW q, q = PartRead(p, g)
    PROVE  Further(q, p, g)
<1>1. IsTab(p)
  BY DEF TabOK, Shape
<1> DEFINE m == Tail(p.left)
<1>2. PICK a : a = [p EXCEPT !.left = m]
  OBVIOUS
<1>3. PICK v1 : v1 = IF m = <<>> THEN Reading("none") ELSE g
  OBVIOUS
<1>4. PICK b : b = [a EXCEPT !.got = v1]
  OBVIOUS
<1>5. PICK v2 \in BOOLEAN : v2 = (p.failed /\ m # <<>>)
  OBVIOUS
<1>6. PICK c : c = [b EXCEPT !.failed = v2]
  OBVIOUS
<1>7. PICK v3 : v3 = IF m = <<>> THEN g
                     ELSE IF p.page = "dispatch" THEN [p.seen EXCEPT !.status = g.status]
                     ELSE p.seen
  OBVIOUS
<1>8. HasFields(a, p.page, p.on, p.seen, p.failed, m, p.got, p.button, p.timer)
  BY <1>1, <1>2 DEF HasFields, IsTab
<1>9. HasFields(b, p.page, p.on, p.seen, p.failed, m, v1, p.button, p.timer)
  BY <1>4, <1>8 DEF HasFields, IsTab
<1>10. HasFields(c, p.page, p.on, p.seen, v2, m, v1, p.button, p.timer)
  BY <1>6, <1>9 DEF HasFields, IsTab
<1>11. q = [c EXCEPT !.seen = v3]
  <2>1. b.failed = p.failed /\ c.seen = p.seen
    BY <1>9, <1>10 DEF HasFields
  <2> QED
    BY <2>1, <1>2, <1>3, <1>4, <1>5, <1>6, <1>7 DEF PartRead
<1>12. HasFields(q, p.page, p.on, v3, v2, m, v1, p.button, p.timer)
  BY <1>10, <1>11 DEF HasFields, IsTab
<1>13. IsReading(v1) /\ IsReading(v3)
  <2>1. PICK y : y = [p.seen EXCEPT !.status = g.status]
    OBVIOUS
  <2>2. IsReading(p.seen)
    BY DEF TabOK, Shape
  <2>3. IsReading(y)
    BY <2>1, <2>2, StatusIsReading
  <2> QED
    BY <1>3, <1>7, <2>1, <2>2, <2>3, ReadingsAreReadings
<1>14. m \in Remainders(p.page)
  <2>1. p.left \in Remainders(p.page)
    BY DEF TabOK, Shape
  <2>2. Parted(p.page, p.left)
    BY <2>1, Remains, Zenon
  <2> QED
    BY <2>2 DEF Parted
<1>15. TabOK(q)
  BY <1>5, <1>12, <1>13, <1>14 DEF TabOK, Shape, WellPlaced, HasFields
<1> QED
  BY <1>3, <1>5, <1>7, <1>12, <1>15 DEF HasFields, Further

-----------------------------------------------------------------------------
\* What a page has been told, against the tables.

\* All wafers of an unloaded run's batch have a verdict.  That is not so of the
\* API by itself: a wafer added to a batch after its run was unloaded
\* (AddSamplesToWip) has none.  It holds of the application because no page offers
\* that call, and it is why a page that read the batch's wafers and the progress
\* rows at different moments finds a verdict for each.
RunsAreJudged ==
    \A d \in Dispatches : dStatus[d] \in {"unloaded", "completed"} =>
        \A s \in wipSamples[dWip[d]] : sesVerdict[s][wipType[dWip[d]]] # Nil

\* What the parts read so far gave is still so, and no part gave too much.
Gathered(p) ==
    /\ p.left = PartsOf(p.page) => p.got = Reading("none")
    /\ p.page = "dispatch" /\ p.left \in {<<"wafers", "rows">>, <<"rows">>} =>
        /\ p.got.rows = {}
        /\ p.got.wafers \subseteq wipSamples[dWip[p.on]]
        /\ p.got.status \in {"unloaded", "completed"} =>
                dStatus[p.on] \in {"unloaded", "completed"}
    /\ p.page = "wafer" /\ p.left = <<"rows">> =>
        /\ p.got.rows = {}
        /\ p.got.status = "completed" => sampleStatus[p.on] = "completed"

\* ResultsAreShown, of one tab.
Fits(p) ==
    p.left = <<>> /\ ~p.failed /\ p.seen.rows # {} =>
    /\ p.page = "dispatch" /\ p.seen.status \in {"unloaded", "completed"} =>
        \A s \in p.seen.wafers : \E e \in p.seen.rows :
            /\ e.sample = s /\ e.type = wipType[dWip[p.on]]
            /\ e.verdict # Nil
            /\ p.on \in e.runs \/ e.runs \ {p.on} # {}
    /\ p.page = "wafer" /\ p.seen.status = "completed" =>
        \A e \in p.seen.rows : e.verdict # Nil

OnRun(p) == p.page = "dispatch" => dStatus[p.on] # "none"

GoodTab(p) == TabOK(p) /\ OnRun(p) /\ Gathered(p) /\ Fits(p)

\* The wafers of a batch have selected its type.
LEMMA BatchTypes ==
    ASSUME AllInv, NEW w \in Wips, NEW s \in wipSamples[w]
    PROVE  s \in Samples /\ wipType[w] \in ExpTypes /\ wipType[w] \in SelectedTypes(s)
<1>1. s \in Samples
  BY DEF AllInv, TypeOK, WipTypeOK
<1>2. owner[s] \in Requests
  BY <1>1 DEF AllInv, LabInv, LabWorkNeedsRequest, TypeOK, CommissionTypeOK
<1>3. SelectedTypes(s) \subseteq ExpTypes
  BY <1>1, <1>2 DEF SelectedTypes, AllInv, TypeOK, CommissionTypeOK
<1> QED
  BY <1>1, <1>3 DEF AllInv, LabInv, BatchesMatchSelection

\* A verdict, once given, is not taken back.
LEMMA VerdictsStay ==
    ASSUME AllInv, AllInv', [Next]_vars, NEW s \in Samples, NEW t \in ExpTypes,
           sesVerdict[s][t] # Nil
    PROVE  sesVerdict'[s][t] # Nil
<1>1. sesStatus[s][t] = "completed"
  BY DEF AllInv, LabInv, VerdictTraceable
<1>2. sesStatus'[s][t] = "completed"
  BY <1>1, RowsMoveForward DEF AllInv
<1> QED
  BY <1>2 DEF AllInv, LabInv, VerdictTraceable

\* The step that brings a run to unloaded is the unload's, with its verdicts.
LEMMA JustUnloaded ==
    ASSUME TypeOK, [Next]_vars, NEW d \in Dispatches,
           dStatus[d] \notin {"unloaded", "completed"},
           dStatus'[d] \in {"unloaded", "completed"}
    PROVE  sesStatus' = UnloadedSes(d) /\ UNCHANGED <<dWip, wipType, wipSamples>>
<1> USE DEF TypeOK, WipTypeOK
<1>1. dStatus' # dStatus
  OBVIOUS
<1>2. WipNext
  BY <1>1 DEF Next, vars, dispatchVars
<1>3. ASSUME NEW w \in Wips,
             \/ \E t \in ExpTypes, S \in SUBSET Samples : CreateWip(w, t, S)
             \/ \E S \in SUBSET Samples : AddSamplesToWip(w, S)
             \/ \E n \in Dispatches, e \in Equipments : CreateDispatch(w, n, e)
             \/ CompleteWip(w)
             \/ AbortWip(w)
      PROVE  FALSE
  BY <1>1, <1>3 DEF CreateWip, AddSamplesToWip, CreateDispatch, CompleteWip, AbortWip,
        dispatchVars
<1>4. ASSUME NEW x \in Dispatches,
             \/ StartDispatch(x) \/ RecordResult(x) \/ ReportException(x)
             \/ \E n \in Dispatches : Redispatch(x, n)
             \/ AbortDispatch(x) \/ TimerElapses(x)
      PROVE  FALSE
  BY <1>4 DEF StartDispatch, RecordResult, ReportException, Redispatch, AbortDispatch,
        TimerElapses, MoveDispatch, DispatchTransitions, DispatchTarget
<1>5. ASSUME NEW x \in Dispatches, UnloadDispatch(x) \/ CompleteDispatchRun(x)
      PROVE  sesStatus' = UnloadedSes(d) /\ UNCHANGED <<dWip, wipType, wipSamples>>
  <2>1. /\ sesStatus' = UnloadedSes(x)
        /\ \E st : MoveDispatch(x, st)
        /\ UNCHANGED <<wipType, wipSamples>>
    BY <1>5 DEF UnloadDispatch, CompleteDispatchRun, wipVars
  <2>2. x = d /\ UNCHANGED dWip
    BY <2>1 DEF MoveDispatch
  <2> QED
    BY <2>1, <2>2
<1> QED
  BY <1>2, <1>3, <1>4, <1>5 DEF WipNext, SubmitEquipmentResult, FinalizeDueDispatch

\* RunsAreJudged is kept by every step that adds no wafer to a batch.
LEMMA JudgedStay ==
    ASSUME AllInv, AllInv', ClientStep, RunsAreJudged
    PROVE  RunsAreJudged'
<1> SUFFICES ASSUME NEW d \in Dispatches, dStatus'[d] \in {"unloaded", "completed"},
                    NEW s \in wipSamples'[dWip'[d]]
             PROVE  sesVerdict'[s][wipType'[dWip'[d]]] # Nil
  BY DEF RunsAreJudged
<1>1. TypeOK /\ DispatchesBound /\ [Next]_vars
  BY DEF AllInv, DispatchInv, ClientStep
<1>2. CASE dStatus[d] \in {"unloaded", "completed"}
  <2>1. dWip[d] \in Wips /\ wipStatus[dWip[d]] # "none"
    BY <1>1, <1>2 DEF DispatchesBound
  <2>2. RunStays(d)
    BY <1>1, <1>2, RunsStay
  <2>3. /\ dWip'[d] = dWip[d] /\ wipType'[dWip[d]] = wipType[dWip[d]]
        /\ wipSamples'[dWip[d]] = wipSamples[dWip[d]]
    BY <2>1, <2>2 DEF RunStays, ClientStep
  <2>4. s \in wipSamples[dWip[d]] /\ s \in Samples
    BY <2>1, <2>3, <1>1 DEF TypeOK, WipTypeOK
  <2>5. wipType[dWip[d]] \in ExpTypes
    BY <2>1, <2>4, BatchTypes
  <2>6. sesVerdict[s][wipType[dWip[d]]] # Nil
    BY <1>2, <2>4 DEF RunsAreJudged
  <2> QED
    BY <1>1, <2>3, <2>4, <2>5, <2>6, VerdictsStay
<1>3. CASE dStatus[d] \notin {"unloaded", "completed"}
  <2>1. sesStatus' = UnloadedSes(d) /\ UNCHANGED <<dWip, wipType, wipSamples>>
    BY <1>1, <1>3, JustUnloaded
  <2>2. dWip'[d] \in Wips
    BY DEF AllInv, DispatchInv, DispatchesBound
  <2>3. PICK w \in Wips : w = dWip[d]
    BY <2>1, <2>2
  <2>4. PICK t \in ExpTypes : t = wipType[w] /\ s \in Samples /\ s \in wipSamples[w]
    BY <2>1, <2>3, BatchTypes
  <2>5. sesStatus'[s][t] = "completed"
    BY <2>1, <2>3, <2>4 DEF UnloadedSes
  <2>6. sesVerdict'[s][t] # Nil
    BY <2>4, <2>5 DEF AllInv, LabInv, VerdictTraceable
  <2> QED
    BY <2>1, <2>3, <2>4, <2>6
<1> QED
  BY <1>2, <1>3

\* Whatever any client does, a page that was right stays right.
LEMMA TabStays ==
    ASSUME AllInv, ClientStep, NEW p, GoodTab(p)
    PROVE  GoodTab(p)'
<1>1. TypeOK /\ DispatchesBound /\ [Next]_vars /\ RequestInv
  BY DEF AllInv, DispatchInv, ClientStep
<1>2. ASSUME p.page = "dispatch"
      PROVE  /\ dStatus'[p.on] # "none"
             /\ wipType'[dWip'[p.on]] = wipType[dWip[p.on]]
             /\ wipSamples'[dWip'[p.on]] = wipSamples[dWip[p.on]]
             /\ dStatus[p.on] \in {"unloaded", "completed"} =>
                    dStatus'[p.on] \in {"unloaded", "completed"}
  <2>1. p.on \in Dispatches /\ dStatus[p.on] # "none"
    BY <1>2 DEF GoodTab, TabOK, WellPlaced, OnRun
  <2>2. dWip[p.on] \in Wips /\ wipStatus[dWip[p.on]] # "none"
    BY <1>1, <2>1 DEF DispatchesBound
  <2>3. RunStays(p.on)
    BY <1>1, <2>1, RunsStay
  <2> QED
    BY <2>2, <2>3 DEF RunStays, ClientStep
<1>3. ASSUME p.page = "wafer", sampleStatus[p.on] = "completed"
      PROVE  sampleStatus'[p.on] = "completed"
  <2>1. p.on \in Samples
    BY <1>3 DEF GoodTab, TabOK, WellPlaced
  <2> QED
    BY <1>1, <1>3, <2>1, FinishedRequestsStay DEF Settled
<1>4. TabOK(p)'
  BY DEF GoodTab, TabOK, Shape, WellPlaced, IsTab, IsReading, Remainders
<1>5. OnRun(p)'
  BY <1>2 DEF OnRun
<1>6. Gathered(p)'
  <2>1. PartsOf(p.page)' = PartsOf(p.page) /\ Reading("none")' = Reading("none")
    BY DEF PartsOf, Reading
  <2> QED
    BY <1>2, <1>3, <2>1 DEF GoodTab, Gathered
<1>7. Fits(p)'
  BY <1>2 DEF GoodTab, Fits
<1> QED
  BY <1>4, <1>5, <1>6, <1>7 DEF GoodTab

LEMMA ReadParts ==
    ASSUME NEW page, NEW id, NEW x, x = Read(page, id)
    PROVE  /\ IsReading(x) /\ x.rows = {}
           /\ page = "dispatch" => x.status = dStatus[id] /\ x.wafers = {}
           /\ page = "wafer" => x.status = sampleStatus[id]
<1>1. \A st : /\ IsReading(Reading(st)) /\ Reading(st).rows = {}
              /\ Reading(st).status = st /\ Reading(st).wafers = {}
  BY DEF IsReading, Reading
<1>2. CASE page \in {"draft", "fab_request", "mgr_request"}
  BY <1>1, <1>2, Zenon DEF Read, ReadRequest
<1>3. CASE page = "wafer"
  <2>1. x = [Reading(sampleStatus[id]) EXCEPT !.wafers = {id}]
    BY <1>3 DEF Read, ReadWafer
  <2>2. PICK y : y = Reading(sampleStatus[id])
    OBVIOUS
  <2>3. IsReading(y) /\ y.rows = {} /\ y.status = sampleStatus[id]
    BY <1>1, <2>2
  <2>4. x = [y EXCEPT !.wafers = {id}]
    BY <2>1, <2>2
  <2> QED
    BY <1>3, <2>3, <2>4 DEF IsReading
<1>4. CASE page = "wip"
  <2>1. x = [Reading(wipStatus[id]) EXCEPT !.active = HasActiveDispatch(id)]
    BY <1>4 DEF Read, ReadWip
  <2>2. PICK y : y = Reading(wipStatus[id])
    OBVIOUS
  <2>3. IsReading(y) /\ y.rows = {}
    BY <1>1, <2>2
  <2>4. x = [y EXCEPT !.active = HasActiveDispatch(id)]
    BY <2>1, <2>2
  <2> QED
    BY <1>4, <2>3, <2>4 DEF IsReading
<1>5. CASE page = "dispatch"
  <2>1. x = Reading(dStatus[id])
    BY <1>5 DEF Read, ReadDispatch
  <2> QED
    BY <1>1, <1>5, <2>1
<1>6. CASE page = "new_wip"
  <2>1. x = [Reading("none") EXCEPT !.picks = Pickable]
    BY <1>6 DEF Read, ReadPicker
  <2>2. PICK y : y = Reading("none")
    OBVIOUS
  <2>3. IsReading(y) /\ y.rows = {}
    BY <1>1, <2>2
  <2>4. x = [y EXCEPT !.picks = Pickable]
    BY <2>1, <2>2
  <2> QED
    BY <1>6, <2>3, <2>4 DEF IsReading
<1>7. CASE page \notin {"draft", "fab_request", "mgr_request", "wafer", "wip", "dispatch",
                       "new_wip"}
  <2>1. x = Reading("none")
    BY <1>7 DEF Read
  <2> QED
    BY <1>1, <1>7, <2>1
<1> QED
  BY <1>2, <1>3, <1>4, <1>5, <1>6, <1>7

\* What the first part of a page gives, ...
LEMMA RowGives ==
    ASSUME NEW p, TabOK(p), p.got = Reading("none"), NEW g, g = WithPart(p, "row")
    PROVE  /\ IsReading(g) /\ g.rows = {}
           /\ p.page = "dispatch" => g.status = dStatus[p.on] /\ g.wafers = {}
           /\ p.page = "wafer" => g.status = sampleStatus[p.on]
<1>1. p.got.wafers = {} /\ p.got.rows = {}
  BY DEF Reading
<1>2. PICK x : x = Read(p.page, p.on)
  OBVIOUS
<1>3. /\ IsReading(x)
      /\ p.page = "dispatch" => x.status = dStatus[p.on] /\ x.wafers = {}
      /\ p.page = "wafer" => x.status = sampleStatus[p.on]
  BY <1>2, ReadParts
<1>4. PICK y : y = [x EXCEPT !.wafers = x.wafers]
  OBVIOUS
<1>5. IsReading(y) /\ y.status = x.status /\ y.wafers = x.wafers
  BY <1>3, <1>4 DEF IsReading
<1>6. g = [y EXCEPT !.rows = {}]
  <2>1. g = [x EXCEPT !.wafers = x.wafers \cup p.got.wafers, !.rows = p.got.rows]
    BY <1>2 DEF WithPart
  <2>2. x.wafers \cup p.got.wafers = x.wafers
    BY <1>1
  <2> QED
    BY <1>1, <1>4, <2>1, <2>2
<1>7. IsReading(g) /\ g.rows = {} /\ g.status = y.status /\ g.wafers = y.wafers
  BY <1>5, <1>6 DEF IsReading
<1> QED
  BY <1>3, <1>5, <1>7

\* ... the second of the page of a run, ...
LEMMA WafersGive ==
    ASSUME NEW p, TabOK(p), NEW g, g = WithPart(p, "wafers")
    PROVE  /\ IsReading(g) /\ g.rows = p.got.rows /\ g.status = p.got.status
           /\ g.wafers = wipSamples[dWip[p.on]]
<1>1. PICK x : x = p.got
  OBVIOUS
<1>2. IsReading(x)
  BY <1>1 DEF TabOK, Shape
<1>3. g = [x EXCEPT !.wafers = wipSamples[dWip[p.on]]]
  BY <1>1 DEF WithPart
<1> QED
  BY <1>1, <1>2, <1>3 DEF IsReading

\* ... and the last.
LEMMA RowsGive ==
    ASSUME NEW p, TabOK(p), NEW g, g = WithPart(p, "rows")
    PROVE  /\ IsReading(g) /\ g.status = p.got.status /\ g.wafers = p.got.wafers
           /\ g.rows = UNION {ExperimentsOf(s) :
                    s \in IF p.page = "wafer" THEN {p.on} ELSE p.got.wafers}
<1>1. PICK x : x = p.got
  OBVIOUS
<1>2. IsReading(x)
  BY <1>1 DEF TabOK, Shape
<1>3. PICK R : R = UNION {ExperimentsOf(s) :
                    s \in IF p.page = "wafer" THEN {p.on} ELSE p.got.wafers}
  OBVIOUS
<1>4. g = [x EXCEPT !.rows = R]
  BY <1>1, <1>3 DEF WithPart
<1> QED
  BY <1>1, <1>2, <1>3, <1>4 DEF IsReading

\* The experiments of a wafer of a run that has been unloaded, ...
LEMMA RunRows ==
    ASSUME AllInv, RunsAreJudged, NEW d \in Dispatches,
           dStatus[d] \in {"unloaded", "completed"}, NEW s \in wipSamples[dWip[d]]
    PROVE  \E e \in ExperimentsOf(s) :
                /\ e.sample = s /\ e.type = wipType[dWip[d]]
                /\ e.verdict # Nil
                /\ d \in e.runs \/ e.runs \ {d} # {}
<1>1. PICK w \in Wips : w = dWip[d]
  BY DEF AllInv, DispatchInv, DispatchesBound
<1>2. PICK t \in ExpTypes : t = wipType[w] /\ t \in SelectedTypes(s)
  BY <1>1, BatchTypes
<1>3. sesVerdict[s][t] # Nil
  BY <1>1, <1>2 DEF RunsAreJudged
<1>4. PICK e : e = ExperimentOf(s, t)
  OBVIOUS
<1>5. e \in ExperimentsOf(s)
  BY <1>2, <1>4 DEF ExperimentsOf
<1> DEFINE done == RunsOf(s, t, {"completed"})
           active == RunsOf(s, t, ActiveRunStatuses)
<1>6. /\ e.sample = s /\ e.type = t /\ e.verdict = sesVerdict[s][t]
      /\ e.runs = IF done # {} THEN done ELSE active
  BY <1>4 DEF ExperimentOf
<1>7. d \in done \/ d \in active
  BY <1>1, <1>2 DEF RunsOf, ActiveRunStatuses
<1>8. e.runs # {}
  BY <1>6, <1>7
<1> QED
  BY <1>1, <1>2, <1>3, <1>5, <1>6, <1>8

\* ... and those of a wafer that is completed.
LEMMA WaferRows ==
    ASSUME AllInv, NEW s \in Samples, sampleStatus[s] = "completed",
           NEW e \in ExperimentsOf(s)
    PROVE  e.verdict # Nil
<1>1. PICK t \in SelectedTypes(s) : e = ExperimentOf(s, t)
  BY DEF ExperimentsOf
<1>2. e.verdict = sesVerdict[s][t]
  BY <1>1 DEF ExperimentOf
<1> QED
  BY <1>2 DEF AllInv, LabInv, CompletedWaferMeasured

\* A further part that is answered fits what the page has been told.
LEMMA LoadedIsGood ==
    ASSUME AllInv, RunsAreJudged, NEW p, GoodTab(p), p.left # <<>>,
           NEW q, q = PartRead(p, WithPart(p, Head(p.left)))
    PROVE  GoodTab(q)
<1>1. TabOK(p) /\ p.left \in Remainders(p.page)
  BY DEF GoodTab, TabOK, Shape
<1>2. PICK g : g = WithPart(p, Head(p.left))
  OBVIOUS
<1>3. q = PartRead(p, g)
  BY <1>2
<1>4. Parted(p.page, p.left)
  BY <1>1, Remains, Zenon
<1>5. CASE p.left = PartsOf(p.page)
  <2>1. p.got = Reading("none")
    BY <1>5 DEF GoodTab, Gathered
  <2>2. Head(p.left) = "row"
    <3>1. p.page # "none"
      BY <1>4 DEF Parted
    <3>2. PartsOf(p.page) \in {<<"row", "wafers", "rows">>, <<"row", "rows">>, <<"row">>}
      BY <3>1 DEF PartsOf
    <3>3. /\ Head(<<"row", "wafers", "rows">>) = "row" /\ Head(<<"row", "rows">>) = "row"
          /\ Head(<<"row">>) = "row"
      OBVIOUS
    <3> QED
      BY <1>5, <3>2, <3>3
  <2>3. g = WithPart(p, "row")
    BY <1>2, <2>2
  <2>4. /\ IsReading(g) /\ g.rows = {}
        /\ p.page = "dispatch" => g.status = dStatus[p.on] /\ g.wafers = {}
        /\ p.page = "wafer" => g.status = sampleStatus[p.on]
    BY <1>1, <2>1, <2>3, RowGives
  <2>5. /\ TabOK(q) /\ q.page = p.page /\ q.on = p.on /\ q.left = Tail(p.left)
        /\ q.left = <<>> => q.seen = g
        /\ q.left # <<>> => q.got = g
    <3>1. Further(q, p, g)
      BY <1>1, <1>3, <2>4, PartReadIsOK, Zenon
    <3> QED
      BY <3>1 DEF Further
  <2>6. q.left # PartsOf(q.page)
    BY <1>4, <2>5 DEF Parted
  <2>7. Gathered(q)
    <3>1. <<"wafers", "rows">> # <<>> /\ <<"rows">> # <<>>
      OBVIOUS
    <3> QED
      BY <2>4, <2>5, <2>6, <3>1 DEF Gathered
  <2>8. Fits(q)
    BY <2>4, <2>5 DEF Fits
  <2> QED
    BY <2>5, <2>7, <2>8 DEF GoodTab, OnRun
<1>6. CASE p.page = "dispatch" /\ p.left = <<"wafers", "rows">>
  <2>1. Head(p.left) = "wafers" /\ Tail(p.left) = <<"rows">>
    BY <1>6
  <2>2. /\ IsReading(g) /\ g.rows = p.got.rows /\ g.status = p.got.status
        /\ g.wafers = wipSamples[dWip[p.on]]
    BY <1>1, <1>2, <2>1, WafersGive
  <2>3. /\ p.got.rows = {}
        /\ p.got.status \in {"unloaded", "completed"} =>
                dStatus[p.on] \in {"unloaded", "completed"}
    BY <1>6 DEF GoodTab, Gathered
  <2>4. <<"rows">> # <<>>
    OBVIOUS
  <2>5. TabOK(q) /\ q.page = p.page /\ q.on = p.on /\ q.left = <<"rows">> /\ q.got = g
    <3>1. Further(q, p, g)
      BY <1>1, <1>3, <2>2, PartReadIsOK, Zenon
    <3> QED
      BY <2>1, <2>4, <3>1 DEF Further
  <2>6. q.left # PartsOf(q.page)
    BY <1>4, <2>1, <2>5 DEF Parted
  <2>7. Gathered(q)
    BY <1>6, <2>2, <2>3, <2>5, <2>6 DEF Gathered
  <2>8. Fits(q)
    BY <2>4, <2>5 DEF Fits
  <2> QED
    BY <2>5, <2>7, <2>8 DEF GoodTab, OnRun
<1>7. CASE p.page \in {"dispatch", "wafer"} /\ p.left = <<"rows">>
  <2>1. Head(p.left) = "rows" /\ Tail(p.left) = <<>>
    BY <1>7
  <2>2. /\ IsReading(g) /\ g.status = p.got.status /\ g.wafers = p.got.wafers
        /\ g.rows = UNION {ExperimentsOf(s) :
                    s \in IF p.page = "wafer" THEN {p.on} ELSE p.got.wafers}
    BY <1>1, <1>2, <2>1, RowsGive
  <2>3. /\ TabOK(q) /\ q.page = p.page /\ q.on = p.on /\ q.left = <<>>
        /\ q.seen = g
    <3>1. Further(q, p, g)
      BY <1>1, <1>3, <2>2, PartReadIsOK, Zenon
    <3> QED
      BY <2>1, <3>1 DEF Further
  <2>4. q.left # PartsOf(q.page)
    BY <1>4, <2>1, <2>3 DEF Parted
  <2>5. Gathered(q)
    <3>1. <<>> # <<"rows">> /\ <<>> # <<"wafers", "rows">>
      OBVIOUS
    <3> QED
      BY <2>3, <2>4, <3>1 DEF Gathered
  <2>6. ASSUME q.page = "dispatch", g.status \in {"unloaded", "completed"},
               NEW s \in g.wafers
        PROVE  \E e \in g.rows :
                    /\ e.sample = s /\ e.type = wipType[dWip[q.on]]
                    /\ e.verdict # Nil
                    /\ q.on \in e.runs \/ e.runs \ {q.on} # {}
    <3>1. /\ dStatus[q.on] \in {"unloaded", "completed"}
          /\ s \in wipSamples[dWip[q.on]]
      BY <1>7, <2>2, <2>3, <2>6 DEF GoodTab, Gathered
    <3>2. q.on \in Dispatches
      BY <2>3, <2>6 DEF TabOK, WellPlaced
    <3>3. ExperimentsOf(s) \subseteq g.rows
      BY <2>2, <2>3, <2>6
    <3>4. PICK d \in Dispatches : d = q.on
      BY <3>2
    <3>5. \E e \in ExperimentsOf(s) :
                    /\ e.sample = s /\ e.type = wipType[dWip[d]]
                    /\ e.verdict # Nil
                    /\ d \in e.runs \/ e.runs \ {d} # {}
      BY <3>1, <3>4, RunRows
    <3> QED
      BY <3>3, <3>4, <3>5
  <2>7. ASSUME q.page = "wafer", g.status = "completed", NEW e \in g.rows
        PROVE  e.verdict # Nil
    <3>1. sampleStatus[q.on] = "completed"
      BY <1>7, <2>2, <2>3, <2>7 DEF GoodTab, Gathered
    <3>2. PICK s \in Samples : s = q.on
      BY <2>3, <2>7 DEF TabOK, WellPlaced
    <3>3. e \in ExperimentsOf(s)
      BY <2>2, <2>3, <2>7, <3>2
    <3> QED
      BY <3>1, <3>2, <3>3, WaferRows
  <2>8. Fits(q)
    BY <2>3, <2>6, <2>7 DEF Fits
  <2> QED
    BY <2>3, <2>5, <2>8 DEF GoodTab, OnRun
<1> QED
  BY <1>5, <1>6, <1>7, <1>4 DEF Parted

\* A part that is lost leaves the page with what came before it.
LEMMA LostIsGood ==
    ASSUME NEW p, GoodTab(p), p.left # <<>>, Head(p.left) # "row",
           NEW q, q = PartRead(p, p.got)
    PROVE  GoodTab(q)
<1>1. TabOK(p) /\ p.left \in Remainders(p.page) /\ IsReading(p.got)
  BY DEF GoodTab, TabOK, Shape
<1>2. PICK g : g = p.got
  OBVIOUS
<1>3. q = PartRead(p, g)
  BY <1>2
<1>4. Parted(p.page, p.left)
  BY <1>1, Remains, Zenon
<1>5. /\ TabOK(q) /\ q.page = p.page /\ q.on = p.on /\ q.left = Tail(p.left)
      /\ q.left = <<>> => q.seen = g
      /\ q.left # <<>> => q.got = g
  <2>1. Further(q, p, g)
    BY <1>1, <1>2, <1>3, PartReadIsOK, Zenon
  <2> QED
    BY <2>1 DEF Further
<1>6. q.left # PartsOf(q.page)
  BY <1>4, <1>5 DEF Parted
<1>7. \/ p.page = "dispatch" /\ p.left = <<"wafers", "rows">> /\ q.left = <<"rows">>
      \/ p.page \in {"dispatch", "wafer"} /\ p.left = <<"rows">> /\ q.left = <<>>
  BY <1>4, <1>5 DEF Parted
<1>8. g.rows = {}
  BY <1>2, <1>7 DEF GoodTab, Gathered
<1>9. Gathered(q)
  <2>1. <<>> # <<"rows">> /\ <<>> # <<"wafers", "rows">>
    OBVIOUS
  <2>2. CASE q.left = <<>>
    BY <1>6, <2>1, <2>2 DEF Gathered
  <2>3. CASE p.page = "dispatch" /\ p.left = <<"wafers", "rows">> /\ q.left = <<"rows">>
    BY <1>2, <1>5, <1>6, <2>1, <2>3 DEF GoodTab, Gathered
  <2> QED
    BY <1>7, <2>2, <2>3
<1>10. Fits(q)
  BY <1>5, <1>8 DEF Fits
<1> QED
  BY <1>5, <1>9, <1>10 DEF GoodTab, OnRun

-----------------------------------------------------------------------------
\* Every step of the pages.

TabsGood ==
    /\ tab \in [Tabs -> {tab[t] : t \in Tabs}]
    /\ \A t \in Tabs : GoodTab(tab[t])

ClientInv == AllInv /\ RunsAreJudged /\ TabsGood

\* A step that changes one tab keeps the tabs good if it leaves that one good.
LEMMA OneTab ==
    ASSUME AllInv, ClientStep, TabsGood, NEW t \in Tabs, NEW q, GoodTab(q)',
           tab' = [tab EXCEPT ![t] = q]
    PROVE  TabsGood'
<1>1. tab' \in [Tabs -> {tab'[u] : u \in Tabs}]
  BY DEF TabsGood
<1>2. ASSUME NEW u \in Tabs PROVE GoodTab(tab[u])'
  <2>1. PICK p : p = tab[u]
    OBVIOUS
  <2>2. GoodTab(p)'
    BY <2>1, TabStays DEF TabsGood
  <2>3. tab'[u] = IF u = t THEN q ELSE p
    BY <2>1 DEF TabsGood
  <2>4. CASE u = t
    BY <2>3, <2>4
  <2>5. CASE u # t
    BY <2>2, <2>3, <2>5
  <2> QED
    BY <2>4, <2>5
<1> QED
  BY <1>1, <1>2 DEF TabsGood

LEMMA SameTabs ==
    ASSUME AllInv, ClientStep, TabsGood, UNCHANGED tab
    PROVE  TabsGood'
<1>1. ASSUME NEW u \in Tabs PROVE GoodTab(tab[u])'
  <2>1. PICK p : p = tab[u]
    OBVIOUS
  <2>2. GoodTab(p)'
    BY <2>1, TabStays DEF TabsGood
  <2>3. tab'[u] = p
    BY <2>1
  <2> QED
    BY <2>2, <2>3
<1> QED
  BY <1>1 DEF TabsGood

LEMMA StillStep == ASSUME UNCHANGED vars PROVE ClientStep
BY DEF ClientStep, vars, wipVars

\* A page that is to be read from its first part has nothing to be wrong about.
LEMMA FreshIsGood ==
    ASSUME NEW q, TabOK(q), FromTheStart(q), OnRun(q) PROVE GoodTab(q)
<1>1. Gathered(q)
  <2>1. <<"row", "wafers", "rows">> \notin {<<"wafers", "rows">>, <<"rows">>}
    OBVIOUS
  <2>2. <<"row", "rows">> # <<"rows">>
    OBVIOUS
  <2>3. /\ q.page = "dispatch" => q.left = <<"row", "wafers", "rows">>
        /\ q.page = "wafer" => q.left = <<"row", "rows">>
    BY DEF FromTheStart, PartsOf
  <2> QED
    BY <2>1, <2>2, <2>3 DEF Gathered, FromTheStart
<1>2. Fits(q)
  <2>1. q.page \in {"dispatch", "wafer"} => q.left # <<>>
    <3>1. <<"row", "wafers", "rows">> # <<>> /\ <<"row", "rows">> # <<>>
      OBVIOUS
    <3> QED
      BY <3>1 DEF FromTheStart, PartsOf
  <2> QED
    BY <2>1 DEF Fits
<1> QED
  BY <1>1, <1>2 DEF GoodTab

\* A page that shows and has read the same is as good as it was.
LEMMA SameViewIsGood ==
    ASSUME NEW p, GoodTab(p), NEW q, TabOK(q), q.page = p.page,
           q.page \in {"dispatch", "wafer"} => q.on = p.on,
           q.seen = p.seen, q.failed = p.failed, q.left = p.left, q.got = p.got
    PROVE  GoodTab(q)
<1>1. OnRun(q)
  BY DEF GoodTab, OnRun
<1>2. Gathered(q)
  BY DEF GoodTab, Gathered
<1>3. Fits(q)
  BY DEF GoodTab, Fits
<1> QED
  BY <1>1, <1>2, <1>3 DEF GoodTab

LEMMA OpenedIsGood ==
    ASSUME NEW page \in FabPages \cup LabPages \cup ManagerPages, NEW x,
           <<page, x>> \in Listed, NEW q, q = PageOf(page, x)
    PROVE  GoodTab(q)
<1>1. HasFields(q, page, x, Reading("none"), FALSE, PartsOf(page), Reading("none"),
                "none", "armed")
  BY OpenedFields, Zenon
<1>2. TabOK(q)
  BY OpenedIsOK, Zenon
<1>3. page = "dispatch" => dStatus[x] # "none"
  <2>1. page = "dispatch" => <<page, x>> \in DispatchTab("all")
    BY DEF Listed, FormsToFile, DraftRows, FabTab, ManagerTab, SampleTab, WipTab, RowsOf
  <2>2. page = "dispatch" => ShownDispatch(dStatus[x]) \in DispatchGroups["all"]
    BY <2>1 DEF DispatchTab, RowsOf
  <2> QED
    BY <2>2 DEF ShownDispatch, DispatchGroups
<1> QED
  BY <1>1, <1>2, <1>3, FreshIsGood DEF HasFields, FromTheStart, OnRun

LEMMA NotFoundIsGood ==
    ASSUME NEW p, GoodTab(p),
           NEW q, q = [p EXCEPT !.left = <<>>, !.got = Reading("none"), !.failed = TRUE]
    PROVE  GoodTab(q)
<1>1. HasFields(q, p.page, p.on, p.seen, TRUE, <<>>, Reading("none"), p.button, p.timer)
  BY NotFoundIsOK, Zenon DEF GoodTab
<1>2. TabOK(q)
  BY NotFoundIsOK, Zenon DEF GoodTab
<1>3. <<>> \notin {<<"wafers", "rows">>, <<"rows">>}
  OBVIOUS
<1>4. Gathered(q)
  BY <1>1, <1>3 DEF HasFields, Gathered
<1>5. Fits(q)
  BY <1>1 DEF HasFields, Fits
<1> QED
  BY <1>1, <1>2, <1>4, <1>5 DEF HasFields, GoodTab, OnRun

LEMMA SucceededIsGood ==
    ASSUME TypeOK, NEW p, GoodTab(p), p.button # "none",
           ApiCall(p.page, p.button, p.on, p.seen), NEW q, q = Succeeded(p)
    PROVE  GoodTab(q)
<1>1. /\ TabOK(q)
      /\ \/ /\ FromTheStart(q)
            /\ q.page = "none" \/ (q.page = p.page /\ q.on = p.on)
         \/ /\ q.page \in {"new_request", "draft"}
            /\ q.page = p.page /\ q.left = p.left /\ q.got = p.got
  BY SucceededIsOK DEF GoodTab
<1>2. CASE FromTheStart(q) /\ (q.page = "none" \/ (q.page = p.page /\ q.on = p.on))
  BY <1>1, <1>2, FreshIsGood DEF GoodTab, OnRun
<1>3. CASE /\ q.page \in {"new_request", "draft"}
           /\ q.page = p.page /\ q.left = p.left /\ q.got = p.got
  BY <1>1, <1>3 DEF GoodTab, OnRun, Gathered, Fits
<1> QED
  BY <1>1, <1>2, <1>3

LEMMA RefusedIsGood ==
    ASSUME NEW p, GoodTab(p), NEW q, q = Refused(p) PROVE GoodTab(q)
<1>1. /\ TabOK(q)
      /\ HasFields(q, p.page, IF p.page = "new_request" THEN Nil ELSE p.on, p.seen,
                   p.failed, p.left, p.got, "none", p.timer)
  BY RefusedIsOK, Zenon DEF GoodTab
<1> QED
  BY <1>1, SameViewIsGood DEF HasFields

LEMMA ResyncedIsGood ==
    ASSUME NEW p, GoodTab(p), NEW failed, NEW q, q = Resync(p, failed) PROVE GoodTab(q)
<1>1. /\ TabOK(q) /\ q.page = p.page /\ q.on = p.on
      /\ \/ FromTheStart(q)
         \/ HasFields(q, p.page, p.on, p.seen, p.failed, p.left, p.got, p.button,
                      "fired")
  BY ResyncedIsOK, Zenon DEF GoodTab
<1>2. CASE FromTheStart(q)
  BY <1>1, <1>2, FreshIsGood DEF GoodTab, OnRun
<1>3. CASE HasFields(q, p.page, p.on, p.seen, p.failed, p.left, p.got, p.button, "fired")
  BY <1>1, <1>3, SameViewIsGood DEF HasFields
<1> QED
  BY <1>1, <1>2, <1>3

\* A step of one tab that leaves the tables alone.
LEMMA StillTab ==
    ASSUME ClientInv, UNCHANGED vars, NEW t \in Tabs, NEW q, GoodTab(q),
           tab' = [tab EXCEPT ![t] = q]
    PROVE  ClientStep /\ TabsGood'
<1>1. ClientStep
  BY StillStep
<1>2. GoodTab(q)'
  BY <1>1, TabStays DEF ClientInv
<1> QED
  BY <1>1, <1>2, OneTab DEF ClientInv

\* ... and one that calls the API.
LEMMA CallingTab ==
    ASSUME ClientInv, ClientStep, NEW t \in Tabs, NEW q, GoodTab(q),
           tab' = [tab EXCEPT ![t] = q]
    PROVE  TabsGood'
<1>1. GoodTab(q)'
  BY TabStays DEF ClientInv
<1> QED
  BY <1>1, OneTab DEF ClientInv

\* The steps of the pages, each a client's step that keeps the tabs good: answers
\* to what was pressed, the timer, and what only opens, reads or presses.
LEMMA AnswersAreGood ==
    ASSUME ClientInv, NEW t \in Tabs, Answered(t) \/ Failed(t)
    PROVE  ClientStep /\ TabsGood'
<1>1. PICK p : p = tab[t]
  OBVIOUS
<1>2. GoodTab(p) /\ TabOK(p) /\ WellPlaced(p) /\ TypeOK /\ p.button # "none"
  BY <1>1 DEF ClientInv, TabsGood, GoodTab, TabOK, AllInv, Answered, Failed
<1>3. CASE Answered(t)
  <2>1. ApiCall(p.page, p.button, p.on, p.seen)
    BY <1>1, <1>3 DEF Answered
  <2>2. ClientStep
    BY <1>2, <2>1, PlacedCallsAreSteps
  <2>3. PICK q : q = Succeeded(p)
    OBVIOUS
  <2>4. GoodTab(q)
    BY <1>2, <2>1, <2>3, SucceededIsGood
  <2>5. tab' = [tab EXCEPT ![t] = q]
    BY <1>1, <1>3, <2>3 DEF Answered
  <2> QED
    BY <2>2, <2>4, <2>5, CallingTab
<1>4. CASE Failed(t)
  <2>1. ClientStep
    <3>1. CASE UNCHANGED vars
      BY <3>1, StillStep
    <3>2. CASE ApiCall(p.page, p.button, p.on, p.seen)
      BY <1>2, <3>2, PlacedCallsAreSteps
    <3> QED
      BY <1>1, <1>4, <3>1, <3>2 DEF Failed
  <2>2. PICK q : q = Refused(p)
    OBVIOUS
  <2>3. GoodTab(q)
    BY <1>2, <2>2, RefusedIsGood
  <2>4. tab' = [tab EXCEPT ![t] = q]
    BY <1>1, <1>4, <2>2 DEF Failed
  <2> QED
    BY <2>1, <2>3, <2>4, CallingTab
<1> QED
  BY <1>3, <1>4

LEMMA TimersAreGood ==
    ASSUME ClientInv, NEW t \in Tabs, TimerFires(t) \/ TimerAnswered(t)
    PROVE  ClientStep /\ TabsGood'
<1>1. PICK p : p = tab[t]
  OBVIOUS
<1>2. GoodTab(p) /\ TabOK(p)
  BY <1>1 DEF ClientInv, TabsGood, GoodTab
<1>3. CASE TimerFires(t)
  <2>1. PICK q : q = [p EXCEPT !.timer = "calling"]
    OBVIOUS
  <2>2. p.page = "dispatch" /\ UNCHANGED vars
    BY <1>1, <1>3 DEF TimerFires
  <2>3. /\ TabOK(q)
        /\ HasFields(q, p.page, p.on, p.seen, p.failed, p.left, p.got, p.button,
                     "calling")
    BY <1>2, <2>1, <2>2, FiredIsOK, Zenon
  <2>4. GoodTab(q)
    BY <1>2, <2>3, SameViewIsGood DEF HasFields
  <2>5. tab' = [tab EXCEPT ![t] = q]
    BY <1>1, <1>3, <2>1 DEF TimerFires
  <2> QED
    BY <2>2, <2>4, <2>5, StillTab
<1>4. CASE TimerAnswered(t)
  <2>1. p.page = "dispatch" /\ p.on \in Dispatches
    BY <1>1, <1>2, <1>4 DEF TimerAnswered, TabOK, Shape, WellPlaced
  <2>2. ClientStep
    <3>1. CASE UNCHANGED vars
      BY <3>1, StillStep
    <3>2. CASE SubmitEquipmentResult(p.on)
      BY <2>1, <3>2, DispatchCallsAreSteps DEF ClientStep, Next
    <3> QED
      BY <1>1, <1>4, <3>1, <3>2 DEF TimerAnswered
  <2>3. PICK failed \in BOOLEAN : tab' = [tab EXCEPT ![t] = Resync(p, failed)]
    BY <1>1, <1>4 DEF TimerAnswered
  <2>4. PICK q : q = Resync(p, failed)
    OBVIOUS
  <2>5. GoodTab(q)
    BY <1>2, <2>4, ResyncedIsGood
  <2>6. tab' = [tab EXCEPT ![t] = q]
    BY <2>3, <2>4
  <2> QED
    BY <2>2, <2>5, <2>6, CallingTab
<1> QED
  BY <1>3, <1>4

LEMMA ReadsAreGood ==
    ASSUME ClientInv, NEW t \in Tabs,
           \/ \E x \in Listed : Open(t, x[1], x[2])
           \/ Load(t) \/ LoadLost(t)
           \/ \E b \in Offered(tab[t]) : Press(t, b)
    PROVE  ClientStep /\ TabsGood'
<1>1. PICK p : p = tab[t]
  OBVIOUS
<1>2. GoodTab(p) /\ TabOK(p) /\ AllInv /\ RunsAreJudged
  BY <1>1 DEF ClientInv, TabsGood, GoodTab
<1>3. ASSUME NEW x \in Listed, Open(t, x[1], x[2]) PROVE ClientStep /\ TabsGood'
  <2>1. PICK page, y : page = x[1] /\ y = x[2]
    OBVIOUS
  <2>2. PICK q : q = PageOf(page, y)
    OBVIOUS
  <2>3. page \in FabPages \cup LabPages \cup ManagerPages /\ <<page, y>> \in Listed
    BY <1>3, <2>1, ScreensAssumption DEF Open
  <2>4. GoodTab(q)
    BY <2>2, <2>3, OpenedIsGood, Zenon
  <2>5. tab' = [tab EXCEPT ![t] = q] /\ UNCHANGED vars
    BY <1>3, <2>1, <2>2 DEF Open
  <2> QED
    BY <2>4, <2>5, StillTab
<1>4. CASE Load(t)
  <2>1. PICK q : q = PartRead(p, WithPart(p, Head(p.left)))
    OBVIOUS
  <2>2. p.left # <<>> /\ UNCHANGED vars /\ tab' = [tab EXCEPT ![t] = q]
    BY <1>1, <1>4, <2>1 DEF Load
  <2>3. GoodTab(q)
    BY <1>2, <2>1, <2>2, LoadedIsGood
  <2> QED
    BY <2>2, <2>3, StillTab
<1>5. CASE LoadLost(t)
  <2>1. p.left # <<>> /\ UNCHANGED vars
    BY <1>1, <1>5 DEF LoadLost
  <2>2. CASE Head(p.left) = "row"
    <3>1. PICK q : q = [p EXCEPT !.left = <<>>, !.got = Reading("none"), !.failed = TRUE]
      OBVIOUS
    <3>2. GoodTab(q)
      BY <1>2, <3>1, NotFoundIsGood, Zenon
    <3>3. tab' = [tab EXCEPT ![t] = q]
      BY <1>1, <1>5, <2>2, <3>1 DEF LoadLost
    <3> QED
      BY <2>1, <3>2, <3>3, StillTab
  <2>3. CASE Head(p.left) # "row"
    <3>1. PICK q : q = PartRead(p, p.got)
      OBVIOUS
    <3>2. GoodTab(q)
      BY <1>2, <2>1, <2>3, <3>1, LostIsGood
    <3>3. tab' = [tab EXCEPT ![t] = q]
      BY <1>1, <1>5, <2>3, <3>1 DEF LoadLost
    <3> QED
      BY <2>1, <3>2, <3>3, StillTab
  <2> QED
    BY <2>2, <2>3
<1>6. ASSUME NEW b \in Offered(tab[t]), Press(t, b) PROVE ClientStep /\ TabsGood'
  <2>1. PICK q : q = [p EXCEPT !.button = b]
    OBVIOUS
  <2>2. /\ p.button = "none" /\ b \in Offered(p) /\ UNCHANGED vars
        /\ tab' = [tab EXCEPT ![t] = q]
    BY <1>1, <1>6, <2>1 DEF Press
  <2>3. /\ TabOK(q)
        /\ HasFields(q, p.page, p.on, p.seen, p.failed, p.left, p.got, b, p.timer)
    BY <1>2, <2>1, <2>2, PressedIsOK
  <2>4. GoodTab(q)
    BY <1>2, <2>3, SameViewIsGood DEF HasFields
  <2> QED
    BY <2>2, <2>4, StillTab
<1> QED
  BY <1>3, <1>4, <1>5, <1>6

LEMMA ScreensStep ==
    ASSUME ClientInv, [ScreensNext]_<<vars, screenVars>>
    PROVE  ClientStep /\ TabsGood'
<1>1. ASSUME NEW t \in Tabs,
             \/ \E x \in Listed : Open(t, x[1], x[2])
             \/ Load(t) \/ LoadLost(t)
             \/ \E b \in Offered(tab[t]) : Press(t, b)
      PROVE  ClientStep /\ TabsGood'
  BY <1>1, ReadsAreGood
<1>2. ASSUME NEW t \in Tabs, Answered(t) \/ Failed(t) PROVE ClientStep /\ TabsGood'
  BY <1>2, AnswersAreGood
<1>3. ASSUME NEW t \in Tabs, TimerFires(t) \/ TimerAnswered(t)
      PROVE  ClientStep /\ TabsGood'
  BY <1>3, TimersAreGood
<1>4. ASSUME NEW d \in Dispatches, Sweep(d) \/ (TimerElapses(d) /\ UNCHANGED screenVars)
      PROVE  ClientStep /\ TabsGood'
  <2>1. FinalizeDueDispatch(d) \/ TimerElapses(d)
    BY <1>4 DEF Sweep
  <2>2. ClientStep
    BY <2>1, DispatchCallsAreSteps DEF ClientStep, Next
  <2>3. UNCHANGED tab
    BY <1>4 DEF Sweep, screenVars
  <2> QED
    BY <2>2, <2>3, SameTabs DEF ClientInv
<1>5. CASE UNCHANGED <<vars, screenVars>>
  <2>1. ClientStep
    BY <1>5, StillStep
  <2>2. UNCHANGED tab
    BY <1>5 DEF screenVars
  <2> QED
    BY <2>1, <2>2, SameTabs DEF ClientInv
<1> QED
  BY <1>1, <1>2, <1>3, <1>4, <1>5 DEF ScreensNext

LEMMA InitClient == ScreensInit => ClientInv
<1> SUFFICES ASSUME ScreensInit PROVE ClientInv
  OBVIOUS
<1>1. AllInv
  BY InitAll DEF ScreensInit
<1>2. RunsAreJudged
  BY DEF ScreensInit, Init, WipInit, RunsAreJudged
<1>3. PICK n : n = NoPage
  OBVIOUS
<1>4. HasFields(n, "none", Nil, Reading("none"), FALSE, <<>>, Reading("none"), "none",
                "armed")
  BY <1>3, NoPageFields, Zenon
<1>5. TabOK(n)
  BY <1>3, NoPageIsOK, Zenon
<1>6. FromTheStart(n) /\ OnRun(n)
  BY <1>4 DEF HasFields, FromTheStart, OnRun, PartsOf
<1>7. GoodTab(n)
  BY <1>5, <1>6, FreshIsGood
<1>8. tab = [t \in Tabs |-> n]
  BY <1>3 DEF ScreensInit
<1>9. TabsGood
  BY <1>7, <1>8 DEF TabsGood
<1> QED
  BY <1>1, <1>2, <1>9 DEF ClientInv

LEMMA NextClient ==
    ClientInv /\ [ScreensNext]_<<vars, screenVars>> => ClientInv' /\ [Next]_vars
<1> SUFFICES ASSUME ClientInv, [ScreensNext]_<<vars, screenVars>>
             PROVE  ClientInv' /\ [Next]_vars
  OBVIOUS
<1>1. ClientStep /\ TabsGood'
  BY ScreensStep
<1>2. [Next]_vars
  BY <1>1 DEF ClientStep
<1>3. AllInv'
  BY <1>2, NextAll DEF ClientInv
<1>4. RunsAreJudged'
  BY <1>1, <1>3, JudgedStay DEF ClientInv
<1> QED
  BY <1>1, <1>2, <1>3, <1>4 DEF ClientInv

\* The pages call the API as it lets itself be called, on rows of the right
\* tables, whatever they last read: the laboratory behind them is that of Lims, so
\* that each theorem about Lims is one about the application.
THEOREM PagesAreClients == ScreensSpec => Spec
<1>1. ScreensInit => ClientInv /\ Init
  BY InitClient DEF ScreensInit
<1>2. ClientInv /\ [ScreensNext]_<<vars, screenVars>> => ClientInv' /\ [Next]_vars
  BY NextClient
<1> QED
  BY <1>1, <1>2, PTL DEF ScreensSpec, Spec

\* The pages of a run and of a wafer, read in parts between which others act,
\* never show results that do not fit what they say of the run and of the wafer
\* (useLabDispatchDetail, useWaferDetail).
THEOREM PartsFitTogether == ScreensSpec => []ResultsAreShown
<1>1. ScreensInit => ClientInv
  BY InitClient
<1>2. ClientInv /\ [ScreensNext]_<<vars, screenVars>> => ClientInv'
  BY NextClient
<1>3. ClientInv => ResultsAreShown
  BY DEF ClientInv, TabsGood, GoodTab, Fits, ResultsAreShown
<1> QED
  BY <1>1, <1>2, <1>3, PTL DEF ScreensSpec
=============================================================================
