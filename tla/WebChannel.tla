----------------------------- MODULE WebChannel -----------------------------
(***************************************************************************)
(* The server-rendered pages of web/views.py: a second set of handlers     *)
(* over the tables of the JSON API, mounted beside it and used at the same *)
(* time.  They share the transition tables and some of the cascades, but   *)
(* not all the guards; none of them runs the sweep.  A page whose handler  *)
(* changes what the API's handler changes, under the same guard, is that   *)
(* handler's step.  (The pages do not lock what they validate either; the  *)
(* steps are whole handlers, as in Wip.)                                   *)
(***************************************************************************)
EXTENDS Lims

-----------------------------------------------------------------------------
\* Requests.

\* The page makes no SampleExperiment rows: its wafers inherit the request's
\* types.
WebCreateRequest(r, T, S) ==
    /\ reqStatus[r] = "none"
    /\ T # {} /\ T \subseteq ActiveTypes
    /\ S # {} /\ \A s \in S : owner[s] = Nil
    /\ reqStatus' = [reqStatus EXCEPT ![r] = "draft"]
    /\ reqTypes' = [reqTypes EXCEPT ![r] = T]
    /\ owner' = [s \in Samples |-> IF s \in S THEN r ELSE owner[s]]
    /\ UNCHANGED <<sampleStatus, chosen, sesStatus>>

WebSubmitRequest(r) == SubmitRequest(r)
WebShipRequest(r) == ShipRequest(r)
WebCancelRequest(r) == CancelRequest(r)
WebApproveRequest(r) == ApproveRequest(r)
WebReturnRequest(r) == ReturnRequest(r)
WebRejectRequest(r) == RejectRequest(r)
WebCloseRequest(r) == CloseRequest(r)
WebCancelByManager(r) == CancelRequest(r)

-----------------------------------------------------------------------------
\* Samples, all through _sample_action.  Only "receive" looks at the request.

WebReceiveSample(s) == ReceiveSample(s)
WebRejectReceivingSample(s) == RejectReceivingSample(s)
WebReportLostSample(s) == ReportLostSample(s)

WebVoidSample(s) ==
    SampleAction(s, SampleTransitions.void, SampleTarget.void)

WebReturnSample(s) ==
    SampleAction(s, SampleTransitions.return, SampleTarget.return)

-----------------------------------------------------------------------------
\* WIPs.

\* Only the wafers that are received are written.
WebCreateWip(w, t, S) == CreateWip(w, t, S)

\* The statuses that wip_complete counts as still going on.
WebActiveStatuses == {"pending", "dispatched", "running", "unloaded"}

\* Mutated form: every wafer of the batch completes with the batch.
CompleteAllOfBatch(S) ==
    /\ sampleStatus' = [s \in Samples |->
            IF s \in S /\ sampleStatus[s] \in SampleTransitions.complete
            THEN SampleTarget.complete ELSE sampleStatus[s]]
    /\ UNCHANGED reqStatus

\* wip_complete's own loop: a wafer completes when all its rows have, and its
\* request is checked with each.
WebCompleteSamples(S) == CascadeSampleCompletion(S, sesStatus)

\* A run that failed on its machine does not stop the WIP from completing.
WebCompleteWip(w) ==
    /\ \A d \in DispatchesOf(w) : dStatus[d] \notin WebActiveStatuses
    /\ wipStatus[w] \in WipTransitions.complete
    /\ wipStatus' = [wipStatus EXCEPT ![w] = WipTarget.complete]
    /\ WebCompleteSamples(wipSamples[w])
    /\ UNCHANGED <<reqTypes, owner, chosen, sesStatus>>
    /\ UNCHANGED <<wipType, wipSamples, catalogVars, dispatchVars, verdictVars>>

WebAbortWip(w) == AbortWip(w)

-----------------------------------------------------------------------------
\* Dispatches.

WebDispatchedSes(w) == DispatchedSes(w)

\* Mutated form: dispatching re-opens the WIP whatever its status.
WebReopenWip(w) == [wipStatus EXCEPT ![w] = "in_progress"]

WebOpenWip(w) ==
    [wipStatus EXCEPT ![w] = IF @ = "created" THEN "in_progress" ELSE @]

\* Neither the WIP's other dispatches nor the machine's capacity are looked at.
WebCreateDispatch(w, d, e) ==
    LET t == wipType[w] IN
    /\ wipStatus[w] # "none"
    /\ equipStatus[e] = "available"
    /\ t \in capable[e]
    /\ t \in recipeTypes
    /\ dStatus[d] = "none"
    /\ dStatus' = [dStatus EXCEPT ![d] = "pending"]
    /\ dWip' = [dWip EXCEPT ![d] = w]
    /\ dEquip' = [dEquip EXCEPT ![d] = e]
    /\ wipStatus' = WebOpenWip(w)
    /\ sesStatus' = WebDispatchedSes(w)
    /\ UNCHANGED <<reqStatus, reqTypes, owner, sampleStatus, chosen>>
    /\ UNCHANGED <<wipType, wipSamples, dTimer, results>>
    /\ UNCHANGED <<catalogVars, verdictVars>>

\* No auto_complete_at: a run started here is for somebody to unload.
WebStartDispatch(d) ==
    /\ dStatus[d] \in DispatchTransitions.dispatch \cup DispatchTransitions.start
    /\ dStatus' = [dStatus EXCEPT ![d] = DispatchTarget.start]
    /\ UNCHANGED <<dTimer, dWip, dEquip, results>>
    /\ UNCHANGED <<commissionVars, catalogVars, wipVars, verdictVars>>

\* Mutated form: the page completes the rows and leaves the wafers alone.
WebUnloadRowsOnly(d) ==
    /\ dStatus[d] \in DispatchTransitions.unload
    /\ MoveDispatch(d, DispatchTarget.unload)
    /\ sesStatus' = UnloadedSes(d)
    /\ RollVerdicts(d)
    /\ UNCHANGED <<reqStatus, sampleStatus, reqTypes, owner, chosen>>
    /\ UNCHANGED <<wipVars, catalogVars, results>>

WebUnloadDispatch(d) == UnloadDispatch(d)

\* Mutated form: the status moves and no ExperimentResult is made.
WebRecordStatusOnly(d) ==
    /\ dStatus[d] \in DispatchTransitions.record_result
    /\ MoveDispatch(d, DispatchTarget.record_result)
    /\ UNCHANGED <<commissionVars, catalogVars, wipVars, verdictVars, results>>

\* The result is recorded without a look at the WIP.  "complete" is the same
\* handler under another path.
WebRecordResult(d) ==
    /\ dStatus[d] \in DispatchTransitions.record_result
    /\ MoveDispatch(d, DispatchTarget.record_result)
    /\ results' = results \cup {d}
    /\ UNCHANGED <<commissionVars, catalogVars, wipVars, verdictVars>>

WebCompleteDispatch(d) == WebRecordResult(d)
WebReportException(d) == ReportException(d)
WebRedispatch(d, n) == Redispatch(d, n)

WebAbortDispatch(d) ==
    /\ dStatus[d] \in DispatchTransitions.abort
    /\ MoveDispatch(d, DispatchTarget.abort)
    /\ UNCHANGED <<commissionVars, catalogVars, wipVars, verdictVars, results>>

-----------------------------------------------------------------------------
\* The catalogue.  The pages take the capacity that is typed: equipment_create
\* refuses less than 1, equipment_update does not.

WebCreateEquipment(e, st, n, T) ==
    /\ equipStatus[e] = "none"
    /\ equipStatus' = [equipStatus EXCEPT ![e] = st]
    /\ equipCapacity' = [equipCapacity EXCEPT ![e] = n]
    /\ capable' = [capable EXCEPT ![e] = T \cap ActiveTypes]
    /\ UNCHANGED <<typeStatus, recipeTypes>>

WebUpdateEquipment(e, st, n) == UpdateEquipment(e, st, n)

WebSetCapabilities(e, T) ==
    /\ equipStatus[e] # "none"
    /\ capable' = [capable EXCEPT ![e] = T \cap ActiveTypes]
    /\ UNCHANGED <<typeStatus, recipeTypes, equipStatus, equipCapacity>>

WebCreateRecipe(t) ==
    /\ t \in ActiveTypes
    /\ recipeTypes' = recipeTypes \cup {t}
    /\ UNCHANGED <<typeStatus, equipStatus, equipCapacity, capable>>

WebDeleteRecipe(t) == DeleteRecipe(t)

-----------------------------------------------------------------------------
WebCommissionNext ==
    \/ \E r \in Requests :
        \/ \E T \in SUBSET ExpTypes, S \in SUBSET Samples :
            WebCreateRequest(r, T, S)
        \/ WebSubmitRequest(r)
        \/ WebShipRequest(r)
        \/ WebCancelRequest(r)
        \/ WebApproveRequest(r)
        \/ WebReturnRequest(r)
        \/ WebRejectRequest(r)
        \/ WebCloseRequest(r)
        \/ WebCancelByManager(r)
    \/ \E s \in Samples :
        \/ WebReceiveSample(s)
        \/ WebRejectReceivingSample(s)
        \/ WebReportLostSample(s)
        \/ WebVoidSample(s)
        \/ WebReturnSample(s)

WebCatalogNext ==
    \/ \E e \in EditedEquipment :
        \/ \E st \in EquipmentStatuses :
            \/ \E n \in CapacityInputs, T \in SUBSET ExpTypes :
                WebCreateEquipment(e, st, n, T)
            \/ \E n \in CapacityInputs \cup {0, equipCapacity[e]} :
                WebUpdateEquipment(e, st, n)
        \/ \E T \in SUBSET ExpTypes : WebSetCapabilities(e, T)
    \/ \E t \in EditedTypes : WebCreateRecipe(t) \/ WebDeleteRecipe(t)

WebCatalogPages ==
    WebCatalogNext /\ UNCHANGED <<commissionVars, wipVars, dispatchVars, verdictVars>>

WebLabNext ==
    \/ \E w \in Wips :
        \/ \E t \in ExpTypes, S \in SUBSET Samples : WebCreateWip(w, t, S)
        \/ WebCompleteWip(w)
        \/ WebAbortWip(w)
        \/ \E d \in Dispatches, e \in Equipments : WebCreateDispatch(w, d, e)
    \/ \E d \in Dispatches :
        \/ WebStartDispatch(d)
        \/ WebUnloadDispatch(d)
        \/ WebRecordResult(d)
        \/ WebCompleteDispatch(d)
        \/ WebReportException(d)
        \/ \E n \in Dispatches : WebRedispatch(d, n)
        \/ WebAbortDispatch(d)

WebNext ==
    \/ WebCommissionNext /\ UNCHANGED <<catalogVars, wipVars, dispatchVars,
                                        verdictVars>>
    \/ WebCatalogPages
    \/ WebLabNext

\* Both channels at once, on the same tables.
ChannelsSpec == Init /\ [][Next \/ WebNext]_vars
=============================================================================
