-------------------------------- MODULE Lims --------------------------------
(***************************************************************************)
(* The laboratory system seen through its JSON API: the catalogue, the     *)
(* requests with their samples, and the WIPs with their dispatches, whose  *)
(* handlers interleave freely, one transaction at a time.  Here are the    *)
(* specification and what it is to satisfy.                                *)
(***************************************************************************)
EXTENDS Wip

vars == <<commissionVars, catalogVars, wipVars, dispatchVars, verdictVars>>

Init == CatalogInit /\ CommissionInit /\ WipInit

Next ==
    \/ CommissionNext /\ UNCHANGED <<catalogVars, wipVars, dispatchVars,
                                     verdictVars>>
    \/ CatalogNext /\ UNCHANGED <<commissionVars, wipVars, dispatchVars,
                                  verdictVars>>
    \/ WipNext

Spec == Init /\ [][Next]_vars

-----------------------------------------------------------------------------
TypeOK == CatalogTypeOK /\ CommissionTypeOK /\ WipTypeOK

\* A request that has completed, or was closed after that, has samples, and
\* every one of them is completed, voided or returned: no later call moves a
\* wafer of a finished request (check_request_completed).
CompletedRequestSettled ==
    \A r \in Requests : reqStatus[r] \in {"completed", "closed"} =>
        /\ SamplesOf(r) # {}
        /\ \A s \in SamplesOf(r) :
            sampleStatus[s] \in {"completed", "voided", "returned"}

\* No request is left behind by a cascade: while it is sample_shipped some
\* wafer is unaccounted for, and while it is in_progress some wafer is not
\* settled.  Nobody can push a request over these edges by hand, so a missed
\* check would strand it (check_all_samples_received, check_request_completed).
NoStrandedRequest ==
    \A r \in Requests :
        /\ reqStatus[r] = "sample_shipped" =>
            \E s \in SamplesOf(r) : sampleStatus[s] \notin
                {"received", "processing", "completed", "voided", "returned"}
        /\ reqStatus[r] = "in_progress" =>
            \E s \in SamplesOf(r) : sampleStatus[s] \notin
                {"completed", "voided", "returned"}

\* What the owner of a wafer asked for is what was done: a completed wafer has
\* at least one selected experiment, and a completed progress row with a verdict
\* for each of them, through every order of patches, WIPs, re-runs and aborts
\* (initialize_sample_experiment_statuses, _try_complete_sample).
CompletedWaferMeasured ==
    \A s \in Samples : sampleStatus[s] = "completed" =>
        /\ owner[s] # Nil
        /\ SelectedTypes(s) # {}
        /\ \A t \in SelectedTypes(s) : /\ sesStatus[s][t] = "completed"
                                      /\ sesVerdict[s][t] # Nil

\* No wafer is left behind in the laboratory: one in processing, or received
\* for a request in progress that names any experiment, still has an open
\* progress row for a type that a WIP may take it for.  The initialisation and
\* the WIP validation compute that set apart, from rows that patches rewrite.
WaferCanBeWorked ==
    \A s \in Samples :
        \/ sampleStatus[s] = "processing"
        \/ /\ sampleStatus[s] = "received"
           /\ reqStatus[owner[s]] = "in_progress"
           /\ reqTypes[owner[s]] # {}
        => \E t \in SelectedTypes(s) :
                sesStatus[s][t] \in {"pending", "in_progress"}

\* A WIP in progress has a dispatch that can still move, or has dispatches
\* none of which completed (operators then decide): it is never left open once
\* its work is done, in whatever order runs are aborted, superseded and recorded
\* (maybe_auto_complete_wip after record_result, abort and the shared path).
NoStrandedWip ==
    \A w \in Wips : wipStatus[w] = "in_progress" =>
        \/ \E d \in DispatchesOf(w) : dStatus[d] \notin TerminalDispatchStatuses
        \/ /\ DispatchesOf(w) # {}
           /\ \A d \in DispatchesOf(w) : dStatus[d] # "completed"

\* Only one dispatch of a WIP is active at a time (create_dispatch's gate;
\* redispatch supersedes the row it replaces in the same transaction).
OneActiveDispatch ==
    \A d1, d2 \in Dispatches :
        /\ dStatus[d1] # "none" /\ dStatus[d2] # "none"
        /\ dWip[d1] = dWip[d2]
        /\ dStatus[d1] \notin TerminalDispatchStatuses
        /\ dStatus[d2] \notin TerminalDispatchStatuses
        => d1 = d2

\* A wafer's verdict can be traced: the row has a verdict exactly when its
\* experiment is completed, and then names an unloaded or completed dispatch,
\* of a WIP of that type that holds the wafer (update_experiment_statuses_on_
\* unload); and a dispatch has a result exactly when it is completed.
VerdictTraceable ==
    /\ \A s \in Samples, t \in ExpTypes :
        IF sesStatus[s][t] = "completed"
        THEN LET d == sesDispatch[s][t] IN
             /\ sesVerdict[s][t] # Nil
             /\ d \in Dispatches
             /\ dStatus[d] \in {"unloaded", "completed"}
             /\ wipType[dWip[d]] = t
             /\ s \in wipSamples[dWip[d]]
        ELSE sesVerdict[s][t] = Nil /\ sesDispatch[s][t] = Nil
    /\ \A d \in Dispatches : d \in results <=> dStatus[d] = "completed"

\* Until the laboratory has the whole request, none of its wafers is in a WIP
\* or has a progress row, so that editing or deleting a draft breaks nothing
\* (validate_samples_for_wip; the comment in update_request relies on it).
LabWorkNeedsRequest ==
    \A s \in Samples :
        (\/ \E w \in Wips : s \in wipSamples[w]
         \/ \E t \in ExpTypes : sesStatus[s][t] # "none")
        => /\ owner[s] # Nil
           /\ reqStatus[owner[s]] \in {"in_progress", "completed", "closed",
                                       "cancelled"}

\* A wafer's own selection stays within its request's experiment set, through
\* every order of patches (update_request drops rows that fall out of it).
SelectionWithinRequest ==
    \A s \in Samples : owner[s] # Nil => chosen[s] \subseteq reqTypes[owner[s]]

-----------------------------------------------------------------------------
\* Once a request has left draft, its wafers, its experiment types and the
\* wafers' selections never change again, even while it is returned
\* (update_request: samples and experiment_type_ids are draft-only).
LockedAfterDraft ==
    [][\A r \in Requests : reqStatus[r] \notin {"none", "draft"} =>
        /\ reqTypes'[r] = reqTypes[r]
        /\ SamplesOf(r)' = SamplesOf(r)
        /\ \A s \in SamplesOf(r) : chosen'[s] = chosen[s]]_vars

\* Finished is finished: a settled wafer, a closed, rejected or cancelled
\* request, a completed or aborted WIP and a terminal dispatch keep their
\* status, and a completed request can only be closed.
FinishedStays ==
    [][/\ \A s \in Samples : sampleStatus[s] \in SettledStatuses =>
            sampleStatus'[s] = sampleStatus[s]
       /\ \A r \in Requests :
            /\ reqStatus[r] \in {"closed", "rejected", "cancelled"} =>
                reqStatus'[r] = reqStatus[r]
            /\ reqStatus[r] = "completed" =>
                reqStatus'[r] \in {"completed", "closed"}
       /\ \A w \in Wips : wipStatus[w] \in {"completed", "aborted"} =>
            wipStatus'[w] = wipStatus[w]
       /\ \A d \in Dispatches : dStatus[d] \in TerminalDispatchStatuses =>
            dStatus'[d] = dStatus[d]]_vars

\* Progress of a wafer's experiment only moves forward, pending, in_progress,
\* completed, and a row once made is never removed.
ProgressForward ==
    [][\A s \in Samples, t \in ExpTypes :
        /\ sesStatus[s][t] # "none" => sesStatus'[s][t] # "none"
        /\ sesStatus[s][t] = "in_progress" => sesStatus'[s][t] # "pending"
        /\ sesStatus[s][t] = "completed" => sesStatus'[s][t] = "completed"]_vars

-----------------------------------------------------------------------------
\* One request as its owner sees it: the tables of the laboratory reduced to
\* the wafers that are done and the experiments that have a verdict.
PlanOf(r) == [s \in SamplesOf(r) |-> SelectedTypes(s)]
ReportedOf(r) ==
    [s \in SamplesOf(r) |-> {t \in ExpTypes : sesVerdict[s][t] # Nil}]
MeasuredOf(r) == {s \in SamplesOf(r) : sampleStatus[s] = "completed"}
DisposedOf(r) == {s \in SamplesOf(r) : sampleStatus[s] \in {"voided", "returned"}}

Promise(r) == INSTANCE RequestPromise WITH
    Types    <- ExpTypes,
    status   <- reqStatus[r],
    types    <- reqTypes[r],
    plan     <- PlanOf(r),
    reported <- ReportedOf(r),
    measured <- MeasuredOf(r),
    disposed <- DisposedOf(r)

\* Whatever the laboratory does with its batches, runs, re-runs and aborts, the
\* owner of each request sees a promised life of it: a fixed plan, verdicts
\* that only accumulate and stay within the plan, wafers measured in full or
\* disposed of, and completion exactly with the last of them (the handlers of
\* commissions/api.py and all the cascades of both services.py).
\* This is \A r \in Requests : Promise(r)!Spec, with the quantifier inside.
Promised ==
    /\ \A r \in Requests : Promise(r)!Init
    /\ [][\A r \in Requests :
            [Promise(r)!Next]_(Promise(r)!promiseVars)]_vars
=============================================================================
