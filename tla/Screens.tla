------------------------------ MODULE Screens -------------------------------
(***************************************************************************)
(* The application's pages (frontend/components) as the clients of Lims.   *)
(* A page shows what it last read, offers the buttons that fit what it     *)
(* shows, and calls the API when one is pressed; meanwhile the tables move *)
(* on.  After a call that succeeded the page is read again; after one that *)
(* failed it shows an error and stays as it is.  Nothing is polled: the    *)
(* sweep runs when some page is read, and the page of a running dispatch   *)
(* has a timer that calls the automation endpoint once.                    *)
(*                                                                         *)
(* Some pages are read in parts, by one call after the other, and the      *)
(* tables move on between the parts too.                                   *)
(*                                                                         *)
(* A page is opened from the lists, by someone whose role has it.          *)
(* Left out: that two reads of one page may overlap and be answered in the *)
(* other order, and that the experiments of the wafers of a run are read   *)
(* by a call for each wafer.  A page that has been left with a call under  *)
(* way is the page of a tab that nobody looks at.                          *)
(***************************************************************************)
EXTENDS Pages, Sequences

CONSTANTS
    Tabs,
    PagesOf,          \* the pages that the role of a tab's user opens
    MaxLost           \* bound on the timer's calls and the reads that are lost

ASSUME ScreensAssumption ==
    /\ PagesOf \in [Tabs -> SUBSET (FabPages \cup LabPages \cup ManagerPages)]
    /\ MaxLost \in Nat

VARIABLES
    tab,              \* what each tab shows
    lost              \* the timer's calls and the reads lost so far

screenVars == <<tab, lost>>

\* Mutated form: the experiments are read before the run and the wafer are.
PartsInAnyOrder(page) ==
    CASE page = "none"     -> <<>>
      [] page = "dispatch" -> <<"wafers", "rows", "row">>
      [] page = "wafer"    -> <<"rows", "row">>
      [] OTHER             -> <<"row">>

\* The parts that a page is read in, in order.
PartsOf(page) ==
    CASE page = "none"     -> <<>>
      [] page = "dispatch" -> <<"row", "wafers", "rows">>
      [] page = "wafer"    -> <<"row", "rows">>
      [] OTHER             -> <<"row">>

\* A tab: its page, the row it is about, what it shows, whether it shows "not
\* found" instead, the parts still to be read and what those before them gave,
\* the button whose call is under way, and the timer.
NoPage == [page |-> "none", on |-> Nil, seen |-> Reading("none"), failed |-> FALSE,
           left |-> <<>>, got |-> Reading("none"),
           button |-> "none", timer |-> "armed"]

Refresh(p) == [p EXCEPT !.left = PartsOf(p.page), !.got = Reading("none")]

PageOf(name, id) == Refresh([NoPage EXCEPT !.page = name, !.on = id])

\* What page p has been told once a further part is answered.
WithPart(p, part) ==
    CASE part = "row" ->
            [Read(p.page, p.on) EXCEPT !.wafers = @ \cup p.got.wafers,
                                       !.rows = p.got.rows]
      [] part = "wafers" -> [p.got EXCEPT !.wafers = wipSamples[dWip[p.on]]]
      [] part = "rows" ->
            [p.got EXCEPT !.rows = UNION {ExperimentsOf(s) :
                s \in IF p.page = "wafer" THEN {p.on} ELSE p.got.wafers}]

-----------------------------------------------------------------------------
\* The API call behind a button of the page about row x, given what the page
\* has read.  The form of a request wants types for each of its wafers before it
\* is submitted, but not for being saved.

FilledForms(b) ==
    UNION {{[wafers |-> S, picked |-> sel] :
                sel \in [S -> {T \in SUBSET ActiveTypes : b = "publish" => T # {}}]} :
            S \in (SUBSET Samples) \ {{}}}

AllPicked(f) == UNION {f.picked[s] : s \in f.wafers}

RequestCall(page, b, r) ==
    /\ \/ /\ page = "new_request" /\ b \in {"create", "publish"}
          /\ \E new \in Requests, f \in FilledForms(b) :
                CreateRequest(new, AllPicked(f), f.wafers, f.picked)
       \/ /\ page = "draft" /\ b \in {"save", "publish"}
          /\ \E f \in FilledForms(b) :
                UpdateRequest(r, AllPicked(f), f.wafers, f.picked)
       \/ b = "submit" /\ SubmitRequest(r)
       \/ b = "delete_draft" /\ DeleteDraft(r)
       \/ b = "ship" /\ ShipRequest(r)
       \/ b = "cancel" /\ CancelRequest(r)
       \/ b = "approve" /\ ApproveRequest(r)
       \/ b = "return" /\ ReturnRequest(r)
       \/ b = "reject" /\ RejectRequest(r)
       \/ b = "close" /\ CloseRequest(r)
    /\ UNCHANGED <<catalogVars, wipVars, dispatchVars, verdictVars>>

WaferCall(b, s) ==
    /\ \/ b = "receive" /\ ReceiveSample(s)
       \/ b = "reject_receiving" /\ RejectReceivingSample(s)
    /\ UNCHANGED <<catalogVars, wipVars, dispatchVars, verdictVars>>

\* "Abort WIP" reaches no handler: the client posts to /wips/{id}/abort, the route
\* ends with a slash, the proxy forwards the address as it is, and what is posted
\* cannot be redirected.  The button always fails (Failed).
WipCall(b, w, seen) ==
    \/ /\ b = "create_wip"
       /\ \E t \in ExpTypes, new \in Wips :
            \E S \in Picked(seen.picks, t) : CreateWip(new, t, S)
    \/ /\ b = "create_dispatch"
       /\ \E d \in Dispatches, e \in MachinesFor(wipType[w]) : CreateDispatch(w, d, e)

DispatchCall(b, d) ==
    \/ b = "start" /\ StartDispatch(d)
    \/ b = "unload" /\ UnloadDispatch(d)
    \/ b = "record_result" /\ RecordResult(d)
    \/ b = "report_exception" /\ ReportException(d)
    \/ b = "redispatch" /\ \E n \in Dispatches : Redispatch(d, n)
    \/ b = "abort" /\ AbortDispatch(d)

ApiCall(page, b, x, seen) ==
    CASE page \in {"new_request", "draft", "fab_request", "mgr_request"} ->
            RequestCall(page, b, x)
      [] page = "wafer" -> WaferCall(b, x)
      [] page \in {"new_wip", "wip"} -> WipCall(b, x, seen)
      [] page = "dispatch" -> DispatchCall(b, x)

\* The request that a form has just filed.
JustFiled == CHOOSE r \in Requests : reqStatus'[r] # reqStatus[r]

\* The page once the call has succeeded.  A form saves, then submits; the other
\* forms, and the abort of a run that failed, lead to another page.
Succeeded(p) ==
    IF p.button = "publish"
    THEN [p EXCEPT !.button = "submit", !.on = IF @ = Nil THEN JustFiled ELSE @]
    ELSE IF \/ p.page \in {"new_request", "draft", "new_wip"}
            \/ p.button = "abort" /\ p.seen.status = "execution_exception"
    THEN NoPage
    ELSE Refresh([p EXCEPT !.button = "none"])

\* ... and once it has failed.  The form of a new request does not keep the id
\* that was filed: pressed again, it files another.
Refused(p) ==
    [p EXCEPT !.button = "none", !.on = IF p.page = "new_request" THEN Nil ELSE @]

Offered(p) == IF p.failed THEN {} ELSE Buttons(p.page, p.seen)

-----------------------------------------------------------------------------
ScreensInit == Init /\ tab = [t \in Tabs |-> NoPage] /\ lost = 0

Open(t, page, x) ==
    /\ tab[t].button = "none" /\ tab[t].timer # "calling"
    /\ page \in PagesOf[t] /\ <<page, x>> \in Listed
    /\ tab' = [tab EXCEPT ![t] = PageOf(page, x)]
    /\ UNCHANGED <<vars, lost>>

\* The page of a run shows the run at once, and the wafers with the last part;
\* the others show everything with the last part.
PartRead(p, got) ==
    LET more == Tail(p.left) IN
    [p EXCEPT !.left = more,
              !.got = IF more = <<>> THEN Reading("none") ELSE got,
              !.failed = @ /\ more # <<>>,
              !.seen = IF more = <<>> THEN got
                       ELSE IF p.page = "dispatch" THEN [@ EXCEPT !.status = got.status]
                       ELSE @]

\* The endpoint has swept first (Sweep), so nothing is due.
Load(t) ==
    /\ tab[t].left # <<>>
    /\ \A d \in Dispatches : dTimer[d] # "elapsed"
    /\ tab' = [tab EXCEPT ![t] = PartRead(@, WithPart(@, Head(@.left)))]
    /\ UNCHANGED <<vars, lost>>

\* Without its first part a page shows "not found", whatever it showed; it does
\* without the others.
LoadLost(t) ==
    /\ tab[t].left # <<>>
    /\ lost < MaxLost /\ lost' = lost + 1
    /\ tab' = [tab EXCEPT ![t] =
            IF Head(@.left) = "row"
            THEN [@ EXCEPT !.left = <<>>, !.got = Reading("none"), !.failed = TRUE]
            ELSE PartRead(@, @.got)]
    /\ UNCHANGED vars

Sweep(d) ==
    /\ \E t \in Tabs : tab[t].left # <<>>
    /\ FinalizeDueDispatch(d)
    /\ UNCHANGED screenVars

Press(t, b) ==
    /\ tab[t].button = "none"
    /\ b \in Offered(tab[t])
    /\ tab' = [tab EXCEPT ![t].button = b]
    /\ UNCHANGED <<vars, lost>>

Answered(t) ==
    /\ tab[t].button # "none"
    /\ ApiCall(tab[t].page, tab[t].button, tab[t].on, tab[t].seen)
    /\ tab' = [tab EXCEPT ![t] = Succeeded(tab[t])]
    /\ UNCHANGED lost

\* Refused, or lost; or carried out, and the answer lost.
Failed(t) ==
    /\ tab[t].button # "none"
    /\ \/ UNCHANGED vars
       \/ ApiCall(tab[t].page, tab[t].button, tab[t].on, tab[t].seen)
    /\ tab' = [tab EXCEPT ![t] = Refused(@)]
    /\ UNCHANGED lost

\* The timer was set to the moment the server stamped: it fires then or later,
\* whatever has become of the run.
TimerFires(t) ==
    /\ tab[t].page = "dispatch" /\ tab[t].seen.status = "running"
    /\ tab[t].timer = "armed" /\ dTimer[tab[t].on] # "set"
    /\ tab' = [tab EXCEPT ![t].timer = "calling"]
    /\ UNCHANGED <<vars, lost>>

\* Mutated form: a call that fails is the end of it.
ResyncUnlessFailed(p, failed) ==
    LET q == [p EXCEPT !.timer = "fired"] IN
    IF p.seen.status = "running" /\ ~failed THEN Refresh(q) ELSE q

\* Whatever came of the call, the page is read again, unless it has been read
\* meanwhile and shows another status.
Resync(p, failed) ==
    LET q == [p EXCEPT !.timer = "fired"] IN
    IF p.seen.status = "running" THEN Refresh(q) ELSE q

TimerAnswered(t) ==
    LET d == tab[t].on IN
    /\ tab[t].timer = "calling"
    /\ \/ /\ SubmitEquipmentResult(d)
          /\ tab' = [tab EXCEPT ![t] = Resync(tab[t], FALSE)]
          /\ UNCHANGED lost
       \/ /\ dStatus[d] \notin DispatchTransitions.unload
          /\ tab' = [tab EXCEPT ![t] = Resync(tab[t], TRUE)]
          /\ UNCHANGED <<vars, lost>>
       \/ /\ lost < MaxLost /\ lost' = lost + 1
          /\ tab' = [tab EXCEPT ![t] = Resync(tab[t], TRUE)]
          /\ UNCHANGED vars

ScreensNext ==
    \/ \E t \in Tabs :
        \/ \E x \in Listed : Open(t, x[1], x[2])
        \/ Load(t) \/ LoadLost(t)
        \/ \E b \in Offered(tab[t]) : Press(t, b)
        \/ Answered(t) \/ Failed(t)
        \/ TimerFires(t) \/ TimerAnswered(t)
    \/ \E d \in Dispatches :
        \/ Sweep(d)
        \/ TimerElapses(d) /\ UNCHANGED screenVars

ScreensSpec == ScreensInit /\ [][ScreensNext]_<<vars, screenVars>>

\* Time passes, the browser answers what a page has asked for, and its event
\* loop fires timers.  Nobody is assumed to press anything, or to open a page.
ScreensFairness ==
    /\ \A t \in Tabs :
        /\ WF_<<vars, screenVars>>(Load(t))
        /\ WF_<<vars, screenVars>>(TimerFires(t))
        /\ WF_<<vars, screenVars>>(TimerAnswered(t))
    /\ \A d \in Dispatches :
        /\ WF_<<vars, screenVars>>(Sweep(d))
        /\ WF_<<vars, screenVars>>(TimerElapses(d) /\ UNCHANGED screenVars)

FairScreensSpec == ScreensSpec /\ ScreensFairness

-----------------------------------------------------------------------------
Accepted(page, b, x) ==
    LET seen == Read(page, x) IN
    /\ <<page, x>> \in AtHand
    /\ b \in Buttons(page, seen)
    /\ ENABLED ApiCall(page, b, x, seen)

\* The ids of the instance, or the room on the machines, have run out.
NoRoomFor(b, x) ==
    \/ x = Nil /\ b \in {"create", "publish"}
        /\ \/ \A r \in Requests : reqStatus[r] # "none"
           \/ \A s \in Samples : owner[s] # Nil
    \/ b = "create_wip" /\ \A w \in Wips : wipStatus[w] # "none"
    \/ /\ b \in {"create_dispatch", "redispatch"}
       /\ \A d \in Dispatches : dStatus[d] # "none"
    \/ /\ b = "create_dispatch"
       /\ \A e \in Equipments : Cardinality(wipSamples[x]) > RemainingCapacity(e)

\* Two buttons are refused wherever they are offered: "Mark Complete", see below,
\* and "Abort WIP", whose address no route has.
NeverAccepted == {"close", "abort_wip"}

\* Of what a page offers that has just been read, the server refuses these two
\* buttons, and no other: the conditions of the pages, over renamed statuses,
\* agree with the transition tables and the gates of the handlers.  Set apart are
\* pages that no list leads to: the manager's request page links wafers that have
\* not been shipped, whose page offers to receive them.
OfferedIsAccepted ==
    \A x \in Listed :
        LET seen == Read(x[1], x[2]) IN
        \A b \in Buttons(x[1], seen) :
            b \notin NeverAccepted <=>
                \/ ENABLED ApiCall(x[1], b, x[2], seen)
                \/ NoRoomFor(b, x[2])

\* What carries a request on, of the buttons that its pages, those of its
\* wafers and those of the batches these are in offer.
OnwardFor(r) ==
    \/ Accepted("draft", "publish", r)
    \/ Accepted("mgr_request", "approve", r)
    \/ Accepted("fab_request", "ship", r)
    \/ \E s \in SamplesOf(r) :
        \/ Accepted("wafer", "receive", s)
        \/ \E t \in ExpTypes : <<s, t>> \in Pickable /\ sesStatus[s][t] # "completed"
        \/ \E w \in Wips : s \in wipSamples[w] /\
            \/ "create_dispatch" \in WipButtons(Read("wip", w))
            \/ \E d \in DispatchesOf(w), b \in {"start", "unload", "record_result",
                                               "redispatch", "abort"} :
                /\ dStatus[d] \notin TerminalDispatchStatuses
                /\ Accepted("dispatch", b, d)

\* Nobody is stuck at the screens: unless a wafer of it was refused at receiving,
\* a request that is not decided against and not completed is carried on by a
\* button that some page offers and the server accepts, on a page that the
\* dashboards lead to.  (From a returned request, and for a wafer with an
\* exception, the pages offer no way on.)
NobodyIsStuck ==
    \A r \in Requests :
        /\ reqStatus[r] \in {"draft", "pending_approval", "approved",
                             "sample_shipped", "in_progress"}
        /\ \A s \in SamplesOf(r) : sampleStatus[s] # "receiving_exception"
        => OnwardFor(r)

\* What a page that has been read to its end shows was never put together out of
\* two moments that do not fit.  The page of a run that shows it as unloaded or
\* completed shows each wafer of its batch with the verdict of the run, or is
\* told of another run of the same wafer; that of a wafer that it shows as
\* completed has a verdict on each of its experiments.  (The verdicts are read
\* two calls after the run, and a run may end, and be made anew, in between:
\* useLabDispatchDetail, useWaferDetail, sample_experiments.)
ResultsAreShown ==
    \A t \in Tabs :
        LET p == tab[t] IN
        p.left = <<>> /\ ~p.failed /\ p.seen.rows # {} =>
        /\ p.page = "dispatch" /\ p.seen.status \in {"unloaded", "completed"} =>
            \A s \in p.seen.wafers : \E e \in p.seen.rows :
                /\ e.sample = s /\ e.type = wipType[dWip[p.on]]
                /\ e.verdict # Nil
                /\ p.on \in e.runs \/ e.runs \ {p.on} # {}
        /\ p.page = "wafer" /\ p.seen.status = "completed" =>
            \A e \in p.seen.rows : e.verdict # Nil

\* A run has ended: unloaded, decided against, or completed with its batch closed
\* and a verdict on each of its wafers.
Ended(d) ==
    \/ dStatus[d] \in {"unloaded", "execution_exception", "pending_redispatch",
                       "aborted"}
    \/ /\ dStatus[d] = "completed"
       /\ wipStatus[dWip[d]] \in {"completed", "aborted"}
       /\ \A s \in wipSamples[dWip[d]] : sesVerdict[s][wipType[dWip[d]]] # Nil

Shows(t, d, status) ==
    tab[t].page = "dispatch" /\ tab[t].on = d /\ tab[t].seen.status = status

\* A run that a page shows as running comes to an end, its batch closed and its
\* wafers with their verdicts, although a call of the page is lost, and whatever
\* others do to the run, unless the page is left (the timer of LabDispatchDetail
\* with its resync, the sweep, complete_dispatch_run, maybe_auto_complete_wip).
ShownRunEnds ==
    \A t \in Tabs, d \in Dispatches :
        Shows(t, d, "running") ~> Ended(d) \/ ~Shows(t, d, "running")

\* "An in-progress request can be marked complete" (MgrRequestDetail.test.tsx):
\* the server closes only completed ones.
MarkCompleteCloses ==
    \A r \in Requests :
        "close" \in MgrRequestButtons(Read("mgr_request", r)) =>
            Accepted("mgr_request", "close", r)
=============================================================================
