-------------------------------- MODULE Wip ---------------------------------
(***************************************************************************)
(* WIPs (batches of wafers bound to one experiment type) and dispatches    *)
(* (runs of a WIP on a machine): the JSON API of wip/api.py and the rules  *)
(* and cascades of wip/services.py.  Each handler is one transaction and   *)
(* one step.  Where the code reads rows it has not locked (the samples of  *)
(* create_wip and add_samples_to_wip, the equipment of create_dispatch)    *)
(* the step reads them at the moment it writes.                            *)
(*                                                                         *)
(* Left out: notes, timestamps, estimated durations, and which recipe a    *)
(* dispatch runs (only that an active one of its type existed).            *)
(* Dispatch.experiment_type is always copied from its WIP, whose type      *)
(* never changes, so it is read there.                                     *)
(***************************************************************************)
EXTENDS FiniteSets, Commissions

CONSTANTS
    Wips,             \* ids of WIP rows
    Dispatches,       \* ids of dispatch rows
    Verdicts          \* SampleExperimentVerdict values the roll may give

ASSUME WipAssumption == /\ Nil \notin ExpTypes \cup Equipments
                        /\ Nil \notin Wips \cup Dispatches \cup Verdicts

VARIABLES
    wipStatus,        \* WIP.status, or "none"
    wipType,          \* WIP.experiment_type
    wipSamples,       \* WIPSample rows
    dStatus,          \* Dispatch.status, or "none"
    dWip,             \* Dispatch.wip
    dEquip,           \* Dispatch.equipment
    dTimer,           \* auto_complete_at of a running dispatch: "unset",
                      \* "set" (in the future) or "elapsed"
    results,          \* the dispatches that have an ExperimentResult
    sesVerdict,       \* SampleExperimentStatus.verdict, Nil for null
    sesDispatch       \* SampleExperimentStatus.dispatch, Nil for null

wipVars == <<wipStatus, wipType, wipSamples>>
dispatchVars == <<dStatus, dWip, dEquip, dTimer, results>>
verdictVars == <<sesVerdict, sesDispatch>>

WipTypeOK ==
    /\ wipStatus \in [Wips -> WipStatuses \cup {"none"}]
    /\ wipType \in [Wips -> ExpTypes \cup {Nil}]
    /\ wipSamples \in [Wips -> SUBSET Samples]
    /\ dStatus \in [Dispatches -> DispatchStatuses \cup {"none"}]
    /\ dWip \in [Dispatches -> Wips \cup {Nil}]
    /\ dEquip \in [Dispatches -> Equipments \cup {Nil}]
    /\ dTimer \in [Dispatches -> {"unset", "set", "elapsed"}]
    /\ results \subseteq Dispatches
    /\ sesVerdict \in [Samples -> [ExpTypes -> Verdicts \cup {Nil}]]
    /\ sesDispatch \in [Samples -> [ExpTypes -> Dispatches \cup {Nil}]]

WipInit ==
    /\ wipStatus = [w \in Wips |-> "none"]
    /\ wipType = [w \in Wips |-> Nil]
    /\ wipSamples = [w \in Wips |-> {}]
    /\ dStatus = [d \in Dispatches |-> "none"]
    /\ dWip = [d \in Dispatches |-> Nil]
    /\ dEquip = [d \in Dispatches |-> Nil]
    /\ dTimer = [d \in Dispatches |-> "unset"]
    /\ results = {}
    /\ sesVerdict = [s \in Samples |-> [t \in ExpTypes |-> Nil]]
    /\ sesDispatch = [s \in Samples |-> [t \in ExpTypes |-> Nil]]

-----------------------------------------------------------------------------
\* Queries and validation.

DispatchesOf(w) == {d \in Dispatches : dWip[d] = w}

\* Mutated form: a run that failed on its machine counts as done.
AllDispatchesStopped(w, ds) ==
    \A d \in DispatchesOf(w) :
        ds[d] \in TerminalDispatchStatuses \cup {"execution_exception"}

\* check_all_dispatches_done, over the dispatch statuses ds.
AllDispatchesDone(w, ds) ==
    \A d \in DispatchesOf(w) : ds[d] \in TerminalDispatchStatuses

OccupyingStatuses == {"dispatched", "running", "unloaded"}

\* Each occupying dispatch holds one slot for each wafer its WIP has now.
WafersOn(e) ==
    {ds \in Dispatches \X Samples :
        /\ dEquip[ds[1]] = e
        /\ dStatus[ds[1]] \in OccupyingStatuses
        /\ ds[2] \in wipSamples[dWip[ds[1]]]}

\* equipment_remaining_capacity
RemainingCapacity(e) ==
    LET used == Cardinality(WafersOn(e))
    IN  IF used < equipCapacity[e] THEN equipCapacity[e] - used ELSE 0

\* Mutated form: the state of the wafer's request is not looked at.
ValidForWipAnyRequest(s, t) ==
    /\ owner[s] # Nil
    /\ sampleStatus[s] \in {"received", "processing"}
    /\ t \in SelectedTypes(s)

\* validate_samples_for_wip, for one wafer.  Nothing stops a wafer from being
\* in two WIPs of one type.
ValidForWip(s, t) ==
    /\ owner[s] # Nil
    /\ reqStatus[owner[s]] = "in_progress"
    /\ sampleStatus[s] \in {"received", "processing"}
    /\ t \in SelectedTypes(s)

\* Mutated form: the action's name is written instead of its target.
NameSamplesProcessing(S) ==
    [s \in Samples |-> IF s \in S THEN "start_processing" ELSE sampleStatus[s]]

TransitionSamplesToProcessing(S) ==
    [s \in Samples |->
        IF s \in S /\ sampleStatus[s] \in SampleTransitions.start_processing
        THEN SampleTarget.start_processing ELSE sampleStatus[s]]

-----------------------------------------------------------------------------
\* Cascades.  They are given the statuses the handler has already written.

\* Mutated form: the first finished experiment completes the wafer.
CompletesOnFirst(s, ss, ses) ==
    /\ ss[s] \in SampleTransitions.complete
    /\ \E t \in ExpTypes : ses[s][t] = "completed"

\* _try_complete_sample
Completes(s, ss, ses) ==
    /\ ss[s] \in SampleTransitions.complete
    /\ \E t \in ExpTypes : ses[s][t] # "none"
    /\ \A t \in ExpTypes : ses[s][t] \in {"none", "completed"}

CascadeSamples(S, ss, ses) ==
    [s \in Samples |-> IF s \in S /\ Completes(s, ss, ses)
                       THEN SampleTarget.complete ELSE ss[s]]

\* cascade_sample_completion: a request is checked when a wafer of its own
\* completes in this very call.
CascadeSampleCompletion(S, ses) ==
    LET ss == CascadeSamples(S, sampleStatus, ses) IN
    /\ sampleStatus' = ss
    /\ reqStatus' = [r \in Requests |->
            IF \E s \in S : owner[s] = r /\ Completes(s, sampleStatus, ses)
            THEN CheckRequestCompleted(r, reqStatus[r], ss)
            ELSE reqStatus[r]]

\* Mutated form: an aborted or superseded sibling keeps the WIP open.
WipFinishesIfAllCompleted(w, ds) ==
    /\ wipStatus[w] = "in_progress"
    /\ \A d \in DispatchesOf(w) : ds[d] = "completed"

\* maybe_auto_complete_wip's condition, over the dispatch statuses ds.
WipFinishes(w, ds) ==
    /\ wipStatus[w] = "in_progress"
    /\ AllDispatchesDone(w, ds)
    /\ \E d \in DispatchesOf(w) : ds[d] = "completed"

MaybeAutoCompleteWip(w, ds) ==
    wipStatus' = IF WipFinishes(w, ds)
                 THEN [wipStatus EXCEPT ![w] = WipTarget.complete]
                 ELSE wipStatus

\* update_experiment_statuses_on_unload: the progress rows of the run's
\* wafers (get_or_create: a missing row is made), ...
UnloadedSes(d) ==
    LET w == dWip[d] IN
    [s \in Samples |-> [t \in ExpTypes |->
        IF s \in wipSamples[w] /\ t = wipType[w]
        THEN "completed" ELSE sesStatus[s][t]]]

\* Mutated form: the dispatch is missing from update_fields.
RollAnonymousVerdicts(d) ==
    LET w == dWip[d] IN
    /\ \E roll \in [wipSamples[w] -> Verdicts] :
        sesVerdict' = [s \in Samples |-> [t \in ExpTypes |->
            IF s \in wipSamples[w] /\ t = wipType[w]
            THEN roll[s] ELSE sesVerdict[s][t]]]
    /\ UNCHANGED sesDispatch

\* ... with a verdict rolled for each wafer and the dispatch it came from.
RollVerdicts(d) ==
    LET w == dWip[d] IN
    /\ \E roll \in [wipSamples[w] -> Verdicts] :
        sesVerdict' = [s \in Samples |-> [t \in ExpTypes |->
            IF s \in wipSamples[w] /\ t = wipType[w]
            THEN roll[s] ELSE sesVerdict[s][t]]]
    /\ sesDispatch' = [s \in Samples |-> [t \in ExpTypes |->
            IF s \in wipSamples[w] /\ t = wipType[w]
            THEN d ELSE sesDispatch[s][t]]]

-----------------------------------------------------------------------------
\* WIP handlers.

CreateWip(w, t, S) ==
    /\ wipStatus[w] = "none"
    /\ t \in ActiveTypes
    /\ S # {} /\ \A s \in S : ValidForWip(s, t)
    /\ wipStatus' = [wipStatus EXCEPT ![w] = "created"]
    /\ wipType' = [wipType EXCEPT ![w] = t]
    /\ wipSamples' = [wipSamples EXCEPT ![w] = S]
    /\ sampleStatus' = TransitionSamplesToProcessing(S)
    /\ UNCHANGED <<reqStatus, reqTypes, owner, chosen, sesStatus>>
    /\ UNCHANGED <<catalogVars, dispatchVars, verdictVars>>

\* Allowed while a dispatch of the WIP is on its machine: a wafer that joins
\* before the unload shares its verdict roll, one that joins later gets none
\* from that run.
AddSamplesToWip(w, S) ==
    /\ wipStatus[w] \in {"created", "in_progress"}
    /\ S # {} /\ \A s \in S : ValidForWip(s, wipType[w]) /\ s \notin wipSamples[w]
    /\ wipSamples' = [wipSamples EXCEPT ![w] = @ \cup S]
    /\ sampleStatus' = TransitionSamplesToProcessing(S)
    /\ UNCHANGED <<reqStatus, reqTypes, owner, chosen, sesStatus>>
    /\ UNCHANGED <<wipStatus, wipType, catalogVars, dispatchVars, verdictVars>>

\* Mutated form: the filter on PENDING rows is lost.
RestartedSes(w) ==
    [s \in Samples |-> [t \in ExpTypes |->
        IF s \in wipSamples[w] /\ t = wipType[w] /\ sesStatus[s][t] # "none"
        THEN "in_progress" ELSE sesStatus[s][t]]]

\* The progress rows once a dispatch of w exists.
DispatchedSes(w) ==
    [s \in Samples |-> [t \in ExpTypes |->
        IF s \in wipSamples[w] /\ t = wipType[w] /\ sesStatus[s][t] = "pending"
        THEN "in_progress" ELSE sesStatus[s][t]]]

\* The WIP's own status is not a guard.
CreateDispatch(w, d, e) ==
    LET t == wipType[w] IN
    /\ wipStatus[w] # "none"
    /\ AllDispatchesDone(w, dStatus)
    /\ equipStatus[e] = "available"
    /\ t \in capable[e]
    /\ t \in recipeTypes
    /\ Cardinality(wipSamples[w]) <= RemainingCapacity(e)
    /\ dStatus[d] = "none"
    /\ dStatus' = [dStatus EXCEPT ![d] = "pending"]
    /\ dWip' = [dWip EXCEPT ![d] = w]
    /\ dEquip' = [dEquip EXCEPT ![d] = e]
    /\ wipStatus' = [wipStatus EXCEPT
            ![w] = IF @ = "created" THEN "in_progress" ELSE @]
    /\ sesStatus' = DispatchedSes(w)
    /\ UNCHANGED <<reqStatus, reqTypes, owner, sampleStatus, chosen>>
    /\ UNCHANGED <<wipType, wipSamples, dTimer, results>>
    /\ UNCHANGED <<catalogVars, verdictVars>>

CompleteWip(w) ==
    /\ AllDispatchesDone(w, dStatus)
    /\ wipStatus[w] \in WipTransitions.complete
    /\ wipStatus' = [wipStatus EXCEPT ![w] = WipTarget.complete]
    /\ CascadeSampleCompletion(wipSamples[w], sesStatus)
    /\ UNCHANGED <<reqTypes, owner, chosen, sesStatus>>
    /\ UNCHANGED <<wipType, wipSamples, catalogVars, dispatchVars, verdictVars>>

\* Its dispatches stay as they are.
AbortWip(w) ==
    /\ wipStatus[w] \in WipTransitions.abort
    /\ wipStatus' = [wipStatus EXCEPT ![w] = WipTarget.abort]
    /\ sampleStatus' = [s \in Samples |->
            IF /\ s \in wipSamples[w]
               /\ sampleStatus[s] \in SampleTransitions.processing_exception
            THEN SampleTarget.processing_exception ELSE sampleStatus[s]]
    /\ UNCHANGED <<reqStatus, reqTypes, owner, chosen, sesStatus>>
    /\ UNCHANGED <<wipType, wipSamples, catalogVars, dispatchVars, verdictVars>>

-----------------------------------------------------------------------------
\* Dispatch handlers.

\* auto_complete_at is read only while the dispatch is running: it is
\* forgotten when the dispatch stops running.
MoveDispatch(d, to) ==
    /\ dStatus' = [dStatus EXCEPT ![d] = to]
    /\ dTimer' = [dTimer EXCEPT ![d] = "unset"]
    /\ UNCHANGED <<dWip, dEquip>>

\* A pending dispatch goes through "dispatch" and "start" in one call; nothing
\* looks at the equipment, its capacity or the WIP again.
StartDispatch(d) ==
    LET st == IF dStatus[d] = "pending" THEN DispatchTarget.dispatch
                                        ELSE dStatus[d]
    IN  /\ st \in DispatchTransitions.start
        /\ dStatus' = [dStatus EXCEPT ![d] = DispatchTarget.start]
        /\ dTimer' = [dTimer EXCEPT ![d] = "set"]
        /\ UNCHANGED <<dWip, dEquip, results>>
        /\ UNCHANGED <<commissionVars, catalogVars, wipVars, verdictVars>>

UnloadDispatch(d) ==
    /\ dStatus[d] \in DispatchTransitions.unload
    /\ MoveDispatch(d, DispatchTarget.unload)
    /\ sesStatus' = UnloadedSes(d)
    /\ RollVerdicts(d)
    /\ CascadeSampleCompletion(wipSamples[dWip[d]], UnloadedSes(d))
    /\ UNCHANGED <<reqTypes, owner, chosen, wipVars, catalogVars, results>>

RecordResult(d) ==
    LET w  == dWip[d]
        ds == [dStatus EXCEPT ![d] = DispatchTarget.record_result]
    IN  /\ dStatus[d] \in DispatchTransitions.record_result
        /\ MoveDispatch(d, DispatchTarget.record_result)
        /\ results' = results \cup {d}
        /\ MaybeAutoCompleteWip(w, ds)
        /\ IF WipFinishes(w, ds)
           THEN CascadeSampleCompletion(wipSamples[w], sesStatus)
           ELSE UNCHANGED <<sampleStatus, reqStatus>>
        /\ UNCHANGED <<reqTypes, owner, chosen, sesStatus>>
        /\ UNCHANGED <<wipType, wipSamples, catalogVars, verdictVars>>

\* complete_dispatch_run: unload and record_result in one transaction.  When
\* the WIP finishes too, its cascade runs over the same wafers as the unload's
\* and finds nothing left to complete (LimsSafety!CascadeIdempotent).
CompleteDispatchRun(d) ==
    LET w  == dWip[d]
        ds == [dStatus EXCEPT ![d] = DispatchTarget.record_result]
    IN  /\ dStatus[d] \in DispatchTransitions.unload
        /\ MoveDispatch(d, DispatchTarget.record_result)
        /\ sesStatus' = UnloadedSes(d)
        /\ RollVerdicts(d)
        /\ CascadeSampleCompletion(wipSamples[w], UnloadedSes(d))
        /\ results' = results \cup {d}
        /\ MaybeAutoCompleteWip(w, ds)
        /\ UNCHANGED <<reqTypes, owner, chosen, wipType, wipSamples>>
        /\ UNCHANGED catalogVars

\* The automation endpoint.
SubmitEquipmentResult(d) == CompleteDispatchRun(d)

\* finalize_due_dispatches, at the head of every status-reporting read: each
\* due dispatch is completed in a transaction of its own, re-checked under
\* the row lock, so one dispatch is one step.
FinalizeDueDispatch(d) ==
    /\ dStatus[d] = "running"
    /\ dTimer[d] = "elapsed"
    /\ CompleteDispatchRun(d)

ReportException(d) ==
    /\ dStatus[d] \in DispatchTransitions.report_exception
    /\ MoveDispatch(d, DispatchTarget.report_exception)
    /\ UNCHANGED <<commissionVars, catalogVars, wipVars, verdictVars, results>>

\* The replacement n copies the WIP and the equipment; nothing is re-checked.
Redispatch(d, n) ==
    /\ dStatus[d] \in DispatchTransitions.redispatch
    /\ dStatus[n] = "none"
    /\ dStatus' = [dStatus EXCEPT ![d] = DispatchTarget.redispatch,
                                  ![n] = "pending"]
    /\ dWip' = [dWip EXCEPT ![n] = dWip[d]]
    /\ dEquip' = [dEquip EXCEPT ![n] = dEquip[d]]
    /\ UNCHANGED <<dTimer, results>>
    /\ UNCHANGED <<commissionVars, catalogVars, wipVars, verdictVars>>

AbortDispatch(d) ==
    LET w  == dWip[d]
        ds == [dStatus EXCEPT ![d] = DispatchTarget.abort]
    IN  /\ dStatus[d] \in DispatchTransitions.abort
        /\ MoveDispatch(d, DispatchTarget.abort)
        /\ MaybeAutoCompleteWip(w, ds)
        /\ IF WipFinishes(w, ds)
           THEN CascadeSampleCompletion(wipSamples[w], sesStatus)
           ELSE UNCHANGED <<sampleStatus, reqStatus>>
        /\ UNCHANGED <<reqTypes, owner, chosen, sesStatus, results>>
        /\ UNCHANGED <<wipType, wipSamples, catalogVars, verdictVars>>

\* The simulated machine's moment comes.
TimerElapses(d) ==
    /\ dStatus[d] = "running"
    /\ dTimer[d] = "set"
    /\ dTimer' = [dTimer EXCEPT ![d] = "elapsed"]
    /\ UNCHANGED <<dStatus, dWip, dEquip, results>>
    /\ UNCHANGED <<commissionVars, catalogVars, wipVars, verdictVars>>

WipNext ==
    \/ \E w \in Wips :
        \/ \E t \in ExpTypes, S \in SUBSET Samples : CreateWip(w, t, S)
        \/ \E S \in SUBSET Samples : AddSamplesToWip(w, S)
        \/ \E d \in Dispatches, e \in Equipments : CreateDispatch(w, d, e)
        \/ CompleteWip(w)
        \/ AbortWip(w)
    \/ \E d \in Dispatches :
        \/ StartDispatch(d)
        \/ UnloadDispatch(d)
        \/ RecordResult(d)
        \/ SubmitEquipmentResult(d)
        \/ FinalizeDueDispatch(d)
        \/ ReportException(d)
        \/ \E n \in Dispatches : Redispatch(d, n)
        \/ AbortDispatch(d)
        \/ TimerElapses(d)
=============================================================================
