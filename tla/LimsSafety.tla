----------------------------- MODULE LimsSafety -----------------------------
(***************************************************************************)
(* The type invariant and the safety invariants of Lims, proved for every  *)
(* value of the constants.  The inductive invariant of LimsInv is taken in *)
(* three parts, each kept by every step: the WIPs with their dispatches,   *)
(* the requests with their samples, and the laboratory's progress rows     *)
(* that tie the two together.                                              *)
(*                                                                         *)
(* The last part is proved from less than the whole (KeptInv), for         *)
(* ChannelProofs to use it of handlers that keep only that.                *)
(*                                                                         *)
(* The refinement of RequestPromise comes last.                            *)
(***************************************************************************)
EXTENDS LimsInv, TLAPS

-----------------------------------------------------------------------------
\* Type correctness.

LEMMA InitTypeOK == Init => TypeOK
<1> SUFFICES ASSUME Init PROVE TypeOK
  OBVIOUS
<1>1. CatalogTypeOK
  BY CatalogAssumption DEF Init, CatalogInit, CatalogTypeOK, EquipmentStatuses
<1>2. CommissionTypeOK
  BY DEF Init, CommissionInit, CommissionTypeOK, RequestStatuses,
         SampleStatuses, ProgressStatuses
<1>3. WipTypeOK
  BY DEF Init, WipInit, WipTypeOK, WipStatuses, DispatchStatuses
<1> QED
  BY <1>1, <1>2, <1>3 DEF TypeOK

LEMMA CatalogTypes == ASSUME CatalogTypeOK, CatalogNext PROVE CatalogTypeOK'
<1> USE CatalogAssumption DEF CatalogTypeOK
<1>1. ASSUME NEW t \in ExpTypes, CreateExperimentType(t) PROVE CatalogTypeOK'
  BY <1>1 DEF CreateExperimentType
<1>2. ASSUME NEW t \in ExpTypes, DeleteExperimentType(t) PROVE CatalogTypeOK'
  BY <1>2 DEF DeleteExperimentType
<1>3. ASSUME NEW t \in ExpTypes, CreateRecipe(t) PROVE CatalogTypeOK'
  BY <1>3 DEF CreateRecipe
<1>4. ASSUME NEW t \in ExpTypes, DeleteRecipe(t) PROVE CatalogTypeOK'
  BY <1>4 DEF DeleteRecipe
<1>5. ASSUME NEW e \in Equipments, NEW n \in CapacityInputs,
             NEW T \in SUBSET ExpTypes, CreateEquipment(e, n, T)
      PROVE  CatalogTypeOK'
  BY <1>5 DEF CreateEquipment, EquipmentStatuses
<1>6. ASSUME NEW e \in Equipments, NEW st \in EquipmentStatuses,
             NEW n \in CapacityInputs \cup {equipCapacity[e]},
             UpdateEquipment(e, st, n)
      PROVE  CatalogTypeOK'
  BY <1>6 DEF UpdateEquipment
<1>7. ASSUME NEW e \in Equipments, NEW T \in SUBSET ExpTypes,
             SetEquipmentCapabilities(e, T)
      PROVE  CatalogTypeOK'
  BY <1>7 DEF SetEquipmentCapabilities
<1> QED
  BY <1>1, <1>2, <1>3, <1>4, <1>5, <1>6, <1>7 DEF CatalogNext

LEMMA RequestTargets ==
    /\ RequestTarget.submit \in RequestStatuses
    /\ RequestTarget.approve \in RequestStatuses
    /\ RequestTarget.return \in RequestStatuses
    /\ RequestTarget.reject \in RequestStatuses
    /\ RequestTarget.ship \in RequestStatuses
    /\ RequestTarget.cancel \in RequestStatuses
    /\ RequestTarget.close \in RequestStatuses
BY DEF RequestTarget, RequestStatuses

LEMMA SampleTargets ==
    /\ SampleTarget.ship \in SampleStatuses
    /\ SampleTarget.receive \in SampleStatuses
    /\ SampleTarget.reject_receiving \in SampleStatuses
    /\ SampleTarget.report_lost \in SampleStatuses
    /\ SampleTarget.start_processing \in SampleStatuses
    /\ SampleTarget.complete \in SampleStatuses
    /\ SampleTarget.processing_exception \in SampleStatuses
    /\ SampleTarget.void \in SampleStatuses
    /\ SampleTarget.return \in SampleStatuses
BY DEF SampleTarget, SampleStatuses

\* The two request checks return a status when they are given one.
LEMMA ChecksTyped ==
    ASSUME NEW r, NEW st \in RequestStatuses \cup {"none"}, NEW ss
    PROVE  /\ CheckAllSamplesReceived(r, st, ss) \in RequestStatuses \cup {"none"}
           /\ CheckRequestCompleted(r, st, ss) \in RequestStatuses \cup {"none"}
BY DEF CheckAllSamplesReceived, CheckRequestCompleted, RequestStatuses

LEMMA InitializeSesTyped ==
    ASSUME CommissionTypeOK, NEW r, NEW ss
    PROVE  InitializeSes(r, ss)
              \in [Samples -> [ExpTypes -> ProgressStatuses \cup {"none"}]]
BY DEF CommissionTypeOK, InitializeSes, ProgressStatuses

LEMMA RequestActionTypes ==
    ASSUME CommissionTypeOK, NEW r \in Requests, NEW from,
           NEW to \in RequestStatuses, RequestAction(r, from, to)
    PROVE  CommissionTypeOK'
BY DEF CommissionTypeOK, RequestAction

LEMMA SampleActionTypes ==
    ASSUME CommissionTypeOK, NEW s \in Samples, NEW from,
           NEW to \in SampleStatuses, SampleAction(s, from, to)
    PROVE  CommissionTypeOK'
BY DEF CommissionTypeOK, SampleAction

LEMMA SettleSampleTypes ==
    ASSUME CommissionTypeOK, NEW s \in Samples, NEW from,
           NEW to \in SampleStatuses, SettleSample(s, from, to)
    PROVE  CommissionTypeOK'
<1> DEFINE r  == owner[s]
           ss == [sampleStatus EXCEPT ![s] = to]
           st == CheckAllSamplesReceived(r, reqStatus[r], ss)
<1>1. r \in Requests
  BY DEF CommissionTypeOK, SettleSample
<1>2. st \in RequestStatuses \cup {"none"}
  BY <1>1, ChecksTyped DEF CommissionTypeOK
<1>3. CheckRequestCompleted(r, st, ss) \in RequestStatuses \cup {"none"}
  BY <1>2, ChecksTyped
<1>4. reqStatus' \in [Requests -> RequestStatuses \cup {"none"}]
  BY <1>1, <1>3 DEF CommissionTypeOK, SettleSample
<1>5. sesStatus' \in [Samples -> [ExpTypes -> ProgressStatuses \cup {"none"}]]
  BY InitializeSesTyped DEF SettleSample
<1> QED
  BY <1>4, <1>5 DEF CommissionTypeOK, SettleSample

LEMMA CommissionTypes == ASSUME CommissionTypeOK, CommissionNext
                         PROVE  CommissionTypeOK'
<1>1. ASSUME NEW r \in Requests, NEW T \in SUBSET ExpTypes,
             NEW S \in SUBSET Samples, NEW sel \in [S -> SUBSET T],
             CreateRequest(r, T, S, sel)
      PROVE  CommissionTypeOK'
  BY <1>1 DEF CreateRequest, CommissionTypeOK, RequestStatuses, ResolveSelection
<1>2. ASSUME NEW r \in Requests, NEW T \in (SUBSET ExpTypes) \cup {Nil},
             NEW S \in SUBSET Samples, NEW sel \in [S -> SUBSET ExpTypes],
             UpdateRequest(r, T, S, sel)
      PROVE  CommissionTypeOK'
  <2> DEFINE types == IF T = Nil THEN reqTypes[r] ELSE T
  <2>1. types \in SUBSET ExpTypes
    BY DEF CommissionTypeOK
  <2>2. reqTypes' \in [Requests -> SUBSET ExpTypes]
    BY <1>2, <2>1 DEF UpdateRequest, CommissionTypeOK
  <2>3. chosen' \in [Samples -> SUBSET ExpTypes]
    BY <1>2, <2>1 DEF UpdateRequest, CommissionTypeOK, ResolveSelection,
                      PruneSelection
  <2>4. owner' \in [Samples -> Requests \cup {Nil}]
    BY <1>2 DEF UpdateRequest, CommissionTypeOK
  <2> QED
    BY <1>2, <2>2, <2>3, <2>4 DEF UpdateRequest, CommissionTypeOK
<1>3. ASSUME NEW r \in Requests,
             \/ SubmitRequest(r) \/ ApproveRequest(r) \/ ReturnRequest(r)
             \/ RejectRequest(r) \/ CancelRequest(r) \/ CloseRequest(r)
      PROVE  CommissionTypeOK'
  BY <1>3, RequestActionTypes, RequestTargets
     DEF SubmitRequest, ApproveRequest, ReturnRequest, RejectRequest,
         CancelRequest, CloseRequest
<1>4. ASSUME NEW r \in Requests, ShipRequest(r) PROVE CommissionTypeOK'
  BY <1>4, RequestTargets, SampleTargets DEF ShipRequest, CommissionTypeOK
<1>5. ASSUME NEW r \in Requests, DeleteDraft(r) PROVE CommissionTypeOK'
  BY <1>5 DEF DeleteDraft, CommissionTypeOK
<1>6. ASSUME NEW s \in Samples, ReceiveSample(s) PROVE CommissionTypeOK'
  <2> DEFINE r  == owner[s]
             ss == [sampleStatus EXCEPT ![s] = SampleTarget.receive]
  <2>1. r \in Requests
    BY <1>6 DEF CommissionTypeOK, ReceiveSample
  <2>2. CheckAllSamplesReceived(r, reqStatus[r], ss)
            \in RequestStatuses \cup {"none"}
    BY <2>1, ChecksTyped DEF CommissionTypeOK
  <2>3. reqStatus' \in [Requests -> RequestStatuses \cup {"none"}]
    BY <1>6, <2>1, <2>2 DEF CommissionTypeOK, ReceiveSample
  <2>4. sesStatus' \in [Samples -> [ExpTypes -> ProgressStatuses \cup {"none"}]]
    BY <1>6, InitializeSesTyped DEF ReceiveSample
  <2> QED
    BY <1>6, <2>3, <2>4, SampleTargets DEF CommissionTypeOK, ReceiveSample
<1>7. ASSUME NEW s \in Samples,
             RejectReceivingSample(s) \/ ReportLostSample(s)
      PROVE  CommissionTypeOK'
  BY <1>7, SampleActionTypes, SampleTargets
     DEF RejectReceivingSample, ReportLostSample
<1>8. ASSUME NEW s \in Samples, VoidSample(s) \/ ReturnSample(s)
      PROVE  CommissionTypeOK'
  BY <1>8, SettleSampleTypes, SampleTargets DEF VoidSample, ReturnSample
<1> QED
  BY <1>1, <1>2, <1>3, <1>4, <1>5, <1>6, <1>7, <1>8 DEF CommissionNext

LEMMA WipTargets ==
    /\ WipTarget.complete \in WipStatuses
    /\ WipTarget.abort \in WipStatuses
    /\ DispatchTarget.dispatch \in DispatchStatuses
    /\ DispatchTarget.start \in DispatchStatuses
    /\ DispatchTarget.unload \in DispatchStatuses
    /\ DispatchTarget.record_result \in DispatchStatuses
    /\ DispatchTarget.report_exception \in DispatchStatuses
    /\ DispatchTarget.redispatch \in DispatchStatuses
    /\ DispatchTarget.abort \in DispatchStatuses
BY DEF WipTarget, WipStatuses, DispatchTarget, DispatchStatuses

\* The cascade writes statuses of the enums, whatever wafers it is given.
LEMMA CascadeTypes ==
    ASSUME CommissionTypeOK, NEW S, NEW ses, CascadeSampleCompletion(S, ses)
    PROVE  /\ sampleStatus' \in [Samples -> SampleStatuses]
           /\ reqStatus' \in [Requests -> RequestStatuses \cup {"none"}]
<1> DEFINE ss == CascadeSamples(S, sampleStatus, ses)
<1>1. ss \in [Samples -> SampleStatuses]
  BY SampleTargets DEF CascadeSamples, CommissionTypeOK
<1>2. \A r \in Requests : CheckRequestCompleted(r, reqStatus[r], ss)
                              \in RequestStatuses \cup {"none"}
  BY ChecksTyped DEF CommissionTypeOK
<1> QED
  BY <1>1, <1>2 DEF CascadeSampleCompletion, CommissionTypeOK

LEMMA MoveDispatchTypes ==
    ASSUME WipTypeOK, NEW d \in Dispatches, NEW to \in DispatchStatuses,
           MoveDispatch(d, to)
    PROVE  /\ dStatus' \in [Dispatches -> DispatchStatuses \cup {"none"}]
           /\ dWip' \in [Dispatches -> Wips \cup {Nil}]
           /\ dEquip' \in [Dispatches -> Equipments \cup {Nil}]
           /\ dTimer' \in [Dispatches -> {"unset", "set", "elapsed"}]
BY DEF WipTypeOK, MoveDispatch

LEMMA UnloadTypes ==
    ASSUME CommissionTypeOK, WipTypeOK, NEW d \in Dispatches, RollVerdicts(d)
    PROVE  /\ UnloadedSes(d)
                \in [Samples -> [ExpTypes -> ProgressStatuses \cup {"none"}]]
           /\ sesVerdict' \in [Samples -> [ExpTypes -> Verdicts \cup {Nil}]]
           /\ sesDispatch' \in [Samples -> [ExpTypes -> Dispatches \cup {Nil}]]
BY DEF CommissionTypeOK, WipTypeOK, UnloadedSes, RollVerdicts, ProgressStatuses

LEMMA AutoCompleteTypes ==
    ASSUME WipTypeOK, NEW w, NEW ds, MaybeAutoCompleteWip(w, ds)
    PROVE  wipStatus' \in [Wips -> WipStatuses \cup {"none"}]
BY WipTargets DEF WipTypeOK, MaybeAutoCompleteWip

LEMMA CompleteDispatchRunTypes ==
    ASSUME CommissionTypeOK, WipTypeOK, NEW d \in Dispatches,
           CompleteDispatchRun(d)
    PROVE  CommissionTypeOK' /\ WipTypeOK'
<1>1. CommissionTypeOK'
  BY CascadeTypes, UnloadTypes DEF CompleteDispatchRun, CommissionTypeOK
<1>2. WipTypeOK'
  BY WipTargets, MoveDispatchTypes, UnloadTypes, AutoCompleteTypes
     DEF CompleteDispatchRun, WipTypeOK
<1> QED
  BY <1>1, <1>2

LEMMA WipTypes == ASSUME TypeOK, WipNext PROVE TypeOK'
<1> USE DEF TypeOK
<1>0. ASSUME UNCHANGED catalogVars PROVE CatalogTypeOK'
  BY <1>0 DEF CatalogTypeOK, catalogVars
<1>1. ASSUME NEW w \in Wips, NEW t \in ExpTypes, NEW S \in SUBSET Samples,
             CreateWip(w, t, S)
      PROVE  TypeOK'
  <2>1. CommissionTypeOK'
    BY <1>1, SampleTargets
       DEF CreateWip, TransitionSamplesToProcessing, CommissionTypeOK
  <2>2. WipTypeOK'
    BY <1>1 DEF CreateWip, WipTypeOK, WipStatuses, dispatchVars, verdictVars
  <2> QED
    BY <1>0, <1>1, <2>1, <2>2 DEF CreateWip
<1>2. ASSUME NEW w \in Wips, NEW S \in SUBSET Samples, AddSamplesToWip(w, S)
      PROVE  TypeOK'
  <2>1. CommissionTypeOK'
    BY <1>2, SampleTargets
       DEF AddSamplesToWip, TransitionSamplesToProcessing, CommissionTypeOK
  <2>2. WipTypeOK'
    BY <1>2 DEF AddSamplesToWip, WipTypeOK, dispatchVars, verdictVars
  <2> QED
    BY <1>0, <1>2, <2>1, <2>2 DEF AddSamplesToWip
<1>3. ASSUME NEW w \in Wips, NEW d \in Dispatches, NEW e \in Equipments,
             CreateDispatch(w, d, e)
      PROVE  TypeOK'
  <2>1. CommissionTypeOK'
    BY <1>3 DEF CreateDispatch, DispatchedSes, CommissionTypeOK, ProgressStatuses
  <2>2. WipTypeOK'
    BY <1>3 DEF CreateDispatch, WipTypeOK, WipStatuses, DispatchStatuses,
                verdictVars
  <2> QED
    BY <1>0, <1>3, <2>1, <2>2 DEF CreateDispatch
<1>4. ASSUME NEW w \in Wips, CompleteWip(w) PROVE TypeOK'
  <2>1. CommissionTypeOK'
    BY <1>4, CascadeTypes DEF CompleteWip, CommissionTypeOK
  <2>2. WipTypeOK'
    BY <1>4, WipTargets DEF CompleteWip, WipTypeOK, dispatchVars, verdictVars
  <2> QED
    BY <1>0, <1>4, <2>1, <2>2 DEF CompleteWip
<1>5. ASSUME NEW w \in Wips, AbortWip(w) PROVE TypeOK'
  <2>1. CommissionTypeOK'
    BY <1>5, SampleTargets DEF AbortWip, CommissionTypeOK
  <2>2. WipTypeOK'
    BY <1>5, WipTargets DEF AbortWip, WipTypeOK, dispatchVars, verdictVars
  <2> QED
    BY <1>0, <1>5, <2>1, <2>2 DEF AbortWip
<1>6. ASSUME NEW d \in Dispatches, StartDispatch(d) PROVE TypeOK'
  BY <1>0, <1>6, WipTargets DEF StartDispatch, CommissionTypeOK, WipTypeOK,
     commissionVars, wipVars, verdictVars
<1>7. ASSUME NEW d \in Dispatches, UnloadDispatch(d) PROVE TypeOK'
  <2>1. CommissionTypeOK'
    BY <1>7, CascadeTypes, UnloadTypes DEF UnloadDispatch, CommissionTypeOK
  <2>2. WipTypeOK'
    BY <1>7, WipTargets, MoveDispatchTypes, UnloadTypes
       DEF UnloadDispatch, WipTypeOK, wipVars
  <2> QED
    BY <1>0, <1>7, <2>1, <2>2 DEF UnloadDispatch
<1>8. ASSUME NEW d \in Dispatches, RecordResult(d) PROVE TypeOK'
  <2>1. CommissionTypeOK'
    BY <1>8, CascadeTypes DEF RecordResult, CommissionTypeOK
  <2>2. WipTypeOK'
    BY <1>8, WipTargets, MoveDispatchTypes, AutoCompleteTypes
       DEF RecordResult, WipTypeOK, verdictVars
  <2> QED
    BY <1>0, <1>8, <2>1, <2>2 DEF RecordResult
<1>9. ASSUME NEW d \in Dispatches,
             SubmitEquipmentResult(d) \/ FinalizeDueDispatch(d)
      PROVE  TypeOK'
  BY <1>0, <1>9, CompleteDispatchRunTypes
     DEF SubmitEquipmentResult, FinalizeDueDispatch, CompleteDispatchRun
<1>10. ASSUME NEW d \in Dispatches, ReportException(d) PROVE TypeOK'
  BY <1>0, <1>10, WipTargets, MoveDispatchTypes
     DEF ReportException, CommissionTypeOK, WipTypeOK, commissionVars,
         wipVars, verdictVars
<1>11. ASSUME NEW d \in Dispatches, NEW n \in Dispatches, Redispatch(d, n)
       PROVE  TypeOK'
  <2>1. WipTypeOK'
    BY <1>11, WipTargets DEF Redispatch, WipTypeOK, DispatchStatuses, wipVars,
                             verdictVars
  <2> QED
    BY <1>0, <1>11, <2>1 DEF Redispatch, CommissionTypeOK, commissionVars
<1>12. ASSUME NEW d \in Dispatches, AbortDispatch(d) PROVE TypeOK'
  <2>1. CommissionTypeOK'
    BY <1>12, CascadeTypes DEF AbortDispatch, CommissionTypeOK
  <2>2. WipTypeOK'
    BY <1>12, WipTargets, MoveDispatchTypes, AutoCompleteTypes
       DEF AbortDispatch, WipTypeOK, verdictVars
  <2> QED
    BY <1>0, <1>12, <2>1, <2>2 DEF AbortDispatch
<1>13. ASSUME NEW d \in Dispatches, TimerElapses(d) PROVE TypeOK'
  BY <1>0, <1>13 DEF TimerElapses, CommissionTypeOK, WipTypeOK,
     commissionVars, wipVars, verdictVars
<1> QED
  BY <1>1, <1>2, <1>3, <1>4, <1>5, <1>6, <1>7, <1>8, <1>9, <1>10, <1>11,
     <1>12, <1>13 DEF WipNext

LEMMA NextTypeOK == TypeOK /\ [Next]_vars => TypeOK'
<1> SUFFICES ASSUME TypeOK, [Next]_vars PROVE TypeOK'
  OBVIOUS
<1> USE DEF TypeOK
<1>1. CASE CommissionNext /\ UNCHANGED <<catalogVars, wipVars, dispatchVars,
                                         verdictVars>>
  BY <1>1, CommissionTypes DEF CatalogTypeOK, WipTypeOK, catalogVars, wipVars,
                               dispatchVars, verdictVars
<1>2. CASE CatalogNext /\ UNCHANGED <<commissionVars, wipVars, dispatchVars,
                                      verdictVars>>
  BY <1>2, CatalogTypes DEF CommissionTypeOK, WipTypeOK, commissionVars, wipVars,
                            dispatchVars, verdictVars
<1>3. CASE WipNext
  BY <1>3, WipTypes
<1>4. CASE UNCHANGED vars
  BY <1>4 DEF vars, CatalogTypeOK, CommissionTypeOK, WipTypeOK, catalogVars,
              commissionVars, wipVars, dispatchVars, verdictVars
<1> QED
  BY <1>1, <1>2, <1>3, <1>4 DEF Next

\* Every variable keeps to its domain: each status to its enum, each selection
\* and progress row to existing experiment types, each dispatch to its WIP.
THEOREM TypeCorrect == Spec => []TypeOK
BY InitTypeOK, NextTypeOK, PTL DEF Spec

-----------------------------------------------------------------------------
\* Dispatches.

DispatchInv == DispatchesBound /\ OneActiveDispatch /\ NoStrandedWip

\* What a handler that moves one dispatch along leaves of the invariant: the
\* dispatch had not ended, and if it now has, its WIP was checked.
LEMMA MovedDispatch ==
    ASSUME TypeOK, DispatchInv, NEW d \in Dispatches, NEW to \in DispatchStatuses,
           dStatus[d] \in {"pending", "dispatched", "running", "unloaded",
                           "execution_exception"},
           dStatus' = [dStatus EXCEPT ![d] = to],
           dWip' = dWip,
           \/ /\ to \notin TerminalDispatchStatuses
              /\ wipStatus' = wipStatus
           \/ MaybeAutoCompleteWip(dWip[d], dStatus')
    PROVE  DispatchInv'
<1> USE DEF DispatchInv
<1>1. dWip[d] \in Wips /\ wipStatus[dWip[d]] # "none"
  BY DEF DispatchesBound
<1>2. DispatchesBound'
  BY <1>1 DEF DispatchesBound, MaybeAutoCompleteWip, WipTarget, TypeOK, WipTypeOK,
              DispatchStatuses
<1>3. OneActiveDispatch'
  BY <1>1 DEF OneActiveDispatch, TypeOK, WipTypeOK, TerminalDispatchStatuses
<1>4. NoStrandedWip'
  <2> SUFFICES ASSUME NEW w \in Wips, wipStatus'[w] = "in_progress"
               PROVE  \/ \E x \in DispatchesOf(w)' :
                            dStatus'[x] \notin TerminalDispatchStatuses
                      \/ /\ DispatchesOf(w)' # {}
                         /\ \A x \in DispatchesOf(w)' : dStatus'[x] # "completed"
    BY DEF NoStrandedWip
  <2>1. DispatchesOf(w)' = DispatchesOf(w)
    BY DEF DispatchesOf
  <2>2. wipStatus[w] = "in_progress"
    BY DEF MaybeAutoCompleteWip, WipTarget, TypeOK, WipTypeOK
  <2>3. CASE w # dWip[d]
    BY <2>1, <2>2, <2>3 DEF NoStrandedWip, DispatchesOf, TypeOK, WipTypeOK
  <2>4. CASE w = dWip[d] /\ to \notin TerminalDispatchStatuses
    BY <2>1, <2>4 DEF DispatchesOf, TypeOK, WipTypeOK
  <2>5. CASE w = dWip[d] /\ MaybeAutoCompleteWip(w, dStatus')
    <3>1. ~ WipFinishes(w, dStatus')
      BY <2>2, <2>5 DEF MaybeAutoCompleteWip, WipTarget, TypeOK, WipTypeOK
    <3> QED
      BY <3>1, <2>1, <2>2, <2>5 DEF WipFinishes, AllDispatchesDone, DispatchesOf
  <2> QED
    BY <2>3, <2>4, <2>5
<1> QED
  BY <1>2, <1>3, <1>4

LEMMA DispatchUnchanged ==
    ASSUME DispatchInv, dStatus' = dStatus, dWip' = dWip, wipStatus' = wipStatus
    PROVE  DispatchInv'
BY DEF DispatchInv, DispatchesBound, OneActiveDispatch, NoStrandedWip, DispatchesOf

LEMMA InitDispatch == Init => DispatchInv
BY DEF Init, WipInit, DispatchInv, DispatchesBound, OneActiveDispatch, NoStrandedWip

LEMMA NextDispatch == ASSUME TypeOK, DispatchInv, [Next]_vars PROVE DispatchInv'
<1> USE DEF TerminalDispatchStatuses
<1>1. ASSUME NEW w \in Wips, NEW t \in ExpTypes, NEW S \in SUBSET Samples,
             CreateWip(w, t, S)
      PROVE  DispatchInv'
  BY <1>1 DEF CreateWip, dispatchVars, DispatchInv, DispatchesBound, OneActiveDispatch,
              NoStrandedWip, DispatchesOf, TypeOK, WipTypeOK
<1>2. ASSUME NEW w \in Wips, NEW S \in SUBSET Samples, AddSamplesToWip(w, S)
      PROVE  DispatchInv'
  BY <1>2, DispatchUnchanged DEF AddSamplesToWip, dispatchVars
<1>3. ASSUME NEW w \in Wips, NEW d \in Dispatches, NEW e \in Equipments,
             CreateDispatch(w, d, e)
      PROVE  DispatchInv'
  <2> USE <1>3 DEF CreateDispatch, TypeOK, WipTypeOK, DispatchInv
  <2>1. DispatchesBound'
    BY DEF DispatchesBound
  <2>2. OneActiveDispatch'
    BY DEF OneActiveDispatch, AllDispatchesDone, DispatchesOf
  <2>3. NoStrandedWip'
    <3> SUFFICES ASSUME NEW x \in Wips, wipStatus'[x] = "in_progress"
                 PROVE  \/ \E y \in DispatchesOf(x)' :
                              dStatus'[y] \notin TerminalDispatchStatuses
                        \/ /\ DispatchesOf(x)' # {}
                           /\ \A y \in DispatchesOf(x)' : dStatus'[y] # "completed"
      BY DEF NoStrandedWip
    <3>1. CASE x = w
      BY <3>1 DEF DispatchesOf
    <3>2. CASE x # w
      <4>1. DispatchesOf(x)' = DispatchesOf(x) /\ wipStatus[x] = "in_progress"
        BY <3>2, WipAssumption DEF DispatchesOf, DispatchesBound
      <4>2. \A y \in DispatchesOf(x) : dStatus'[y] = dStatus[y]
        BY <3>2, WipAssumption DEF DispatchesOf, DispatchesBound
      <4> QED
        BY <4>1, <4>2 DEF NoStrandedWip
    <3> QED
      BY <3>1, <3>2
  <2> QED
    BY <2>1, <2>2, <2>3
<1>4. ASSUME NEW w \in Wips, CompleteWip(w) \/ AbortWip(w) PROVE DispatchInv'
  <2>1. /\ dStatus' = dStatus /\ dWip' = dWip
        /\ \E to \in {"completed", "aborted"} :
                wipStatus' = [wipStatus EXCEPT ![w] = to]
    BY <1>4 DEF CompleteWip, AbortWip, WipTarget, dispatchVars
  <2>2. DispatchesBound'
    BY <2>1 DEF DispatchesBound, DispatchInv, TypeOK, WipTypeOK
  <2>3. OneActiveDispatch'
    BY <2>1 DEF OneActiveDispatch, DispatchInv
  <2>4. NoStrandedWip'
    BY <2>1 DEF NoStrandedWip, DispatchesOf, DispatchInv, TypeOK, WipTypeOK
  <2> QED
    BY <2>2, <2>3, <2>4 DEF DispatchInv
<1>5. ASSUME NEW d \in Dispatches, StartDispatch(d) PROVE DispatchInv'
  <2>1. dStatus[d] \in {"pending", "dispatched"}
    BY <1>5 DEF StartDispatch, DispatchTransitions, DispatchTarget
  <2>2. dStatus' = [dStatus EXCEPT ![d] = "running"] /\ wipStatus' = wipStatus
    BY <1>5 DEF StartDispatch, DispatchTarget, wipVars
  <2> QED
    BY <1>5, <2>1, <2>2, MovedDispatch DEF StartDispatch, DispatchStatuses
<1>6. ASSUME NEW d \in Dispatches, UnloadDispatch(d) PROVE DispatchInv'
  <2>1. dStatus[d] \in {"dispatched", "running"}
    BY <1>6 DEF UnloadDispatch, DispatchTransitions
  <2>2. dStatus' = [dStatus EXCEPT ![d] = "unloaded"] /\ wipStatus' = wipStatus
    BY <1>6 DEF UnloadDispatch, MoveDispatch, DispatchTarget, wipVars
  <2> QED
    BY <1>6, <2>1, <2>2, MovedDispatch
       DEF UnloadDispatch, MoveDispatch, DispatchStatuses
<1>7. ASSUME NEW d \in Dispatches, RecordResult(d) \/ CompleteDispatchRun(d)
      PROVE  DispatchInv'
  <2>1. dStatus[d] \in {"unloaded", "dispatched", "running"}
    BY <1>7 DEF RecordResult, CompleteDispatchRun, DispatchTransitions
  <2>2. dStatus' = [dStatus EXCEPT ![d] = "completed"] /\ dWip' = dWip
    BY <1>7 DEF RecordResult, CompleteDispatchRun, MoveDispatch, DispatchTarget
  <2>3. MaybeAutoCompleteWip(dWip[d], dStatus')
    BY <1>7, <2>2 DEF RecordResult, CompleteDispatchRun, DispatchTarget
  <2> QED
    BY <2>1, <2>2, <2>3, MovedDispatch DEF DispatchStatuses
<1>8. ASSUME NEW d \in Dispatches, ReportException(d) PROVE DispatchInv'
  <2>1. dStatus[d] \in {"dispatched", "running"}
    BY <1>8 DEF ReportException, DispatchTransitions
  <2>2. /\ dStatus' = [dStatus EXCEPT ![d] = "execution_exception"]
        /\ wipStatus' = wipStatus /\ dWip' = dWip
    BY <1>8 DEF ReportException, MoveDispatch, DispatchTarget, wipVars
  <2> QED
    BY <2>1, <2>2, MovedDispatch DEF DispatchStatuses
<1>9. ASSUME NEW d \in Dispatches, NEW n \in Dispatches, Redispatch(d, n)
      PROVE  DispatchInv'
  <2> USE DEF DispatchInv
  <2>0. /\ dStatus[d] = "execution_exception" /\ d # n
        /\ dStatus' = [dStatus EXCEPT ![d] = "pending_redispatch", ![n] = "pending"]
        /\ dStatus[n] = "none"
        /\ dWip' = [dWip EXCEPT ![n] = dWip[d]]
        /\ wipStatus' = wipStatus
    BY <1>9 DEF Redispatch, DispatchTransitions, DispatchTarget, wipVars
  <2>1. dWip[d] \in Wips /\ wipStatus[dWip[d]] # "none"
    BY <2>0 DEF DispatchesBound
  <2>2. DispatchesBound'
    BY <2>0, <2>1 DEF DispatchesBound, TypeOK, WipTypeOK
  <2>3. OneActiveDispatch'
    BY <2>0, <2>1 DEF OneActiveDispatch, TypeOK, WipTypeOK
  <2>4. NoStrandedWip'
    <3> SUFFICES ASSUME NEW x \in Wips, wipStatus'[x] = "in_progress"
                 PROVE  \/ \E y \in DispatchesOf(x)' :
                              dStatus'[y] \notin TerminalDispatchStatuses
                        \/ /\ DispatchesOf(x)' # {}
                           /\ \A y \in DispatchesOf(x)' : dStatus'[y] # "completed"
      BY DEF NoStrandedWip
    <3>1. CASE x = dWip[d]
      BY <2>0, <3>1 DEF DispatchesOf, TypeOK, WipTypeOK
    <3>2. CASE x # dWip[d]
      <4>0. dWip[n] = Nil /\ x # Nil
        BY <2>0, WipAssumption DEF DispatchesBound
      <4>1. DispatchesOf(x)' = DispatchesOf(x) /\ wipStatus[x] = "in_progress"
        BY <2>0, <3>2, <4>0 DEF DispatchesOf, TypeOK, WipTypeOK
      <4>2. \A y \in DispatchesOf(x) : dStatus'[y] = dStatus[y]
        BY <2>0, <3>2, <4>0 DEF DispatchesOf, TypeOK, WipTypeOK
      <4> QED
        BY <4>1, <4>2 DEF NoStrandedWip
    <3> QED
      BY <3>1, <3>2
  <2> QED
    BY <2>2, <2>3, <2>4
<1>10. ASSUME NEW d \in Dispatches, AbortDispatch(d) PROVE DispatchInv'
  <2>1. dStatus[d] \in {"execution_exception", "pending"}
    BY <1>10 DEF AbortDispatch, DispatchTransitions
  <2>2. dStatus' = [dStatus EXCEPT ![d] = "aborted"] /\ dWip' = dWip
    BY <1>10 DEF AbortDispatch, MoveDispatch, DispatchTarget
  <2>3. MaybeAutoCompleteWip(dWip[d], dStatus')
    BY <1>10, <2>2 DEF AbortDispatch, DispatchTarget
  <2> QED
    BY <2>1, <2>2, <2>3, MovedDispatch DEF DispatchStatuses
<1>11. ASSUME NEW d \in Dispatches, TimerElapses(d) PROVE DispatchInv'
  BY <1>11, DispatchUnchanged DEF TimerElapses, wipVars
<1>12. CASE UNCHANGED <<wipVars, dispatchVars>>
  BY <1>12, DispatchUnchanged DEF wipVars, dispatchVars
<1> QED
  BY <1>1, <1>2, <1>3, <1>4, <1>5, <1>6, <1>7, <1>8, <1>9, <1>10, <1>11, <1>12
     DEF Next, WipNext, SubmitEquipmentResult, FinalizeDueDispatch, vars

LEMMA DispatchSafety == Spec => [](OneActiveDispatch /\ NoStrandedWip)
<1>1. Init => TypeOK /\ DispatchInv
  BY InitTypeOK, InitDispatch
<1>2. (TypeOK /\ DispatchInv) /\ [Next]_vars => (TypeOK /\ DispatchInv)'
  BY NextTypeOK, NextDispatch
<1>3. TypeOK /\ DispatchInv => OneActiveDispatch /\ NoStrandedWip
  BY DEF DispatchInv
<1> QED
  BY <1>1, <1>2, <1>3, PTL DEF Spec

\* Only one dispatch of a WIP is active at a time, whatever create_dispatch,
\* redispatch and the aborts of runs do in turn.
THEOREM OneRunAtATime == Spec => []OneActiveDispatch
BY DispatchSafety, PTL

\* No WIP is left in progress when its work is done, however its dispatches are
\* aborted, superseded and recorded (maybe_auto_complete_wip).
THEOREM NoWipIsStranded == Spec => []NoStrandedWip
BY DispatchSafety, PTL

-----------------------------------------------------------------------------
\* Requests and samples.

RequestInv ==
    /\ SamplesBound
    /\ UnshippedUntouched
    /\ SelectionWithinRequest
    /\ CompletedRequestSettled
    /\ NoStrandedRequest

Settled == {"completed", "voided", "returned"}

\* What the handlers of WIPs and dispatches do to requests and samples: wafers
\* only move on from received or processing, and a request in progress
\* completes exactly when its last wafer does.
LabStep ==
    /\ UNCHANGED <<reqTypes, owner, chosen>>
    /\ reqStatus' \in [Requests -> RequestStatuses \cup {"none"}]
    /\ sampleStatus' \in [Samples -> SampleStatuses]
    /\ \A s \in Samples :
        \/ sampleStatus'[s] = sampleStatus[s]
        \/ sampleStatus[s] = "received" /\ sampleStatus'[s] = "processing"
        \/ /\ sampleStatus[s] = "processing"
           /\ sampleStatus'[s] \in {"processing_exception", "completed"}
    /\ \A r \in Requests :
        \/ reqStatus'[r] = reqStatus[r]
        \/ /\ reqStatus[r] = "in_progress" /\ reqStatus'[r] = "completed"
           /\ SamplesOf(r) # {}
           /\ \A s \in SamplesOf(r) : sampleStatus'[s] \in Settled
    /\ \A s \in Samples :
        /\ sampleStatus[s] = "processing" /\ sampleStatus'[s] = "completed"
        /\ owner[s] \in Requests /\ reqStatus[owner[s]] = "in_progress"
        /\ \A x \in SamplesOf(owner[s]) : sampleStatus'[x] \in Settled
        => reqStatus'[owner[s]] = "completed"

LEMMA CascadeStep ==
    ASSUME TypeOK, NEW S, NEW ses, CascadeSampleCompletion(S, ses),
           UNCHANGED <<reqTypes, owner, chosen>>
    PROVE  LabStep
<1> DEFINE ss == CascadeSamples(S, sampleStatus, ses)
<1> USE DEF TypeOK
<1>1. sampleStatus' = ss /\ sampleStatus' \in [Samples -> SampleStatuses]
  BY CascadeTypes DEF CascadeSampleCompletion
<1>2. reqStatus' \in [Requests -> RequestStatuses \cup {"none"}]
  BY CascadeTypes
<1>3. \A s \in Samples :
        \/ sampleStatus'[s] = sampleStatus[s]
        \/ sampleStatus[s] = "processing" /\ sampleStatus'[s] = "completed"
  BY <1>1 DEF CascadeSamples, Completes, SampleTransitions, SampleTarget
<1>4. \A r \in Requests :
        \/ reqStatus'[r] = reqStatus[r]
        \/ /\ reqStatus[r] = "in_progress" /\ reqStatus'[r] = "completed"
           /\ SamplesOf(r) # {}
           /\ \A s \in SamplesOf(r) : sampleStatus'[s] \in Settled
  BY <1>1 DEF CascadeSampleCompletion, CheckRequestCompleted, AllIn,
              SettledStatuses, Settled
<1>5. ASSUME NEW s \in Samples,
             sampleStatus[s] = "processing", sampleStatus'[s] = "completed",
             owner[s] \in Requests, reqStatus[owner[s]] = "in_progress",
             \A x \in SamplesOf(owner[s]) : sampleStatus'[x] \in Settled
      PROVE  reqStatus'[owner[s]] = "completed"
  <2>1. s \in S /\ Completes(s, sampleStatus, ses)
    BY <1>1, <1>5 DEF CascadeSamples
  <2>2. AllIn(owner[s], ss, SettledStatuses)
    BY <1>1, <1>5 DEF AllIn, SamplesOf, SettledStatuses, Settled
  <2> QED
    BY <1>5, <2>1, <2>2 DEF CascadeSampleCompletion, CheckRequestCompleted
<1> QED
  BY <1>1, <1>2, <1>3, <1>4, <1>5 DEF LabStep

LEMMA StutterLabStep == ASSUME TypeOK, UNCHANGED commissionVars PROVE LabStep
BY DEF LabStep, commissionVars, TypeOK, CommissionTypeOK

LEMMA WipIsLabStep == ASSUME TypeOK, WipNext PROVE LabStep
<1> USE DEF TypeOK
<1>1. ASSUME NEW S \in SUBSET Samples,
             sampleStatus' = TransitionSamplesToProcessing(S),
             UNCHANGED <<reqStatus, reqTypes, owner, chosen>>
      PROVE  LabStep
  BY <1>1 DEF LabStep, TransitionSamplesToProcessing, SampleTransitions,
              SampleTarget, SampleStatuses, CommissionTypeOK
<1>2. ASSUME NEW w \in Wips, NEW S \in SUBSET Samples,
             \/ \E t \in ExpTypes : CreateWip(w, t, S)
             \/ AddSamplesToWip(w, S)
      PROVE  LabStep
  BY <1>1, <1>2 DEF CreateWip, AddSamplesToWip
<1>3. ASSUME NEW w \in Wips, NEW d \in Dispatches, NEW e \in Equipments,
             CreateDispatch(w, d, e)
      PROVE  LabStep
  BY <1>3 DEF CreateDispatch, LabStep, CommissionTypeOK
<1>4. ASSUME NEW w \in Wips, CompleteWip(w) PROVE LabStep
  BY <1>4, CascadeStep DEF CompleteWip
<1>5. ASSUME NEW w \in Wips, AbortWip(w) PROVE LabStep
  BY <1>5 DEF AbortWip, LabStep, SampleTransitions, SampleTarget,
              SampleStatuses, CommissionTypeOK
<1>6. ASSUME NEW d \in Dispatches, UnloadDispatch(d) PROVE LabStep
  BY <1>6, CascadeStep DEF UnloadDispatch
<1>7. ASSUME NEW d \in Dispatches, CompleteDispatchRun(d) PROVE LabStep
  BY <1>7, CascadeStep DEF CompleteDispatchRun
<1>8. ASSUME NEW d \in Dispatches, RecordResult(d) \/ AbortDispatch(d)
      PROVE  LabStep
  <2>1. UNCHANGED <<reqTypes, owner, chosen, sesStatus>>
    BY <1>8 DEF RecordResult, AbortDispatch
  <2>2. CASE CascadeSampleCompletion(wipSamples[dWip[d]], sesStatus)
    BY <2>1, <2>2, CascadeStep
  <2>3. CASE UNCHANGED <<sampleStatus, reqStatus>>
    BY <2>1, <2>3, StutterLabStep DEF commissionVars
  <2> QED
    BY <1>8, <2>2, <2>3 DEF RecordResult, AbortDispatch
<1>9. ASSUME NEW d \in Dispatches,
             \/ StartDispatch(d) \/ ReportException(d) \/ TimerElapses(d)
             \/ \E n \in Dispatches : Redispatch(d, n)
      PROVE  LabStep
  BY <1>9, StutterLabStep
     DEF StartDispatch, ReportException, Redispatch, TimerElapses
<1> QED
  BY <1>2, <1>3, <1>4, <1>5, <1>6, <1>7, <1>8, <1>9
     DEF WipNext, SubmitEquipmentResult, FinalizeDueDispatch

LEMMA LabStepKeepsRequestInv ==
    ASSUME TypeOK, RequestInv, LabStep PROVE RequestInv'
<1> USE DEF RequestInv, TypeOK, CommissionTypeOK
<1>1. \A r \in Requests : SamplesOf(r)' = SamplesOf(r)
  BY DEF LabStep, SamplesOf
<1>2. SamplesBound'
  BY <1>1 DEF LabStep, SamplesBound
<1>3. UnshippedUntouched'
  BY DEF LabStep, UnshippedUntouched, UnshippedStatuses
<1>4. SelectionWithinRequest'
  BY DEF LabStep, SelectionWithinRequest
<1>5. CompletedRequestSettled'
  <2> SUFFICES ASSUME NEW r \in Requests, reqStatus'[r] \in {"completed", "closed"}
               PROVE  /\ SamplesOf(r) # {}
                      /\ \A s \in SamplesOf(r) : sampleStatus'[s] \in Settled
    BY <1>1 DEF CompletedRequestSettled, Settled
  <2>1. CASE reqStatus'[r] = reqStatus[r]
    BY <2>1 DEF LabStep, CompletedRequestSettled, Settled, SamplesOf
  <2>2. CASE reqStatus'[r] # reqStatus[r]
    BY <2>2 DEF LabStep
  <2> QED
    BY <2>1, <2>2
<1>6. NoStrandedRequest'
  <2> SUFFICES ASSUME NEW r \in Requests
               PROVE  /\ reqStatus'[r] = "sample_shipped" =>
                            \E s \in SamplesOf(r) : sampleStatus'[s] \notin
                                {"received", "processing", "completed",
                                 "voided", "returned"}
                      /\ reqStatus'[r] = "in_progress" =>
                            \E s \in SamplesOf(r) : sampleStatus'[s] \notin Settled
    BY <1>1 DEF NoStrandedRequest, Settled
  <2>1. CASE reqStatus'[r] = "sample_shipped"
    BY <2>1 DEF LabStep, NoStrandedRequest, SamplesOf
  <2>2. CASE reqStatus'[r] = "in_progress"
    <3>1. reqStatus[r] = "in_progress"
      BY <2>2 DEF LabStep
    <3>2. PICK s \in SamplesOf(r) : sampleStatus[s] \notin Settled
      BY <3>1 DEF NoStrandedRequest, Settled
    <3>3. s \in Samples /\ owner[s] = r
      BY DEF SamplesOf
    <3>4. CASE sampleStatus'[s] \notin Settled
      BY <2>2, <3>4
    <3>5. CASE sampleStatus'[s] \in Settled
      <4>1. sampleStatus[s] = "processing" /\ sampleStatus'[s] = "completed"
        BY <3>2, <3>3, <3>5 DEF LabStep, Settled
      <4> QED
        BY <2>2, <3>1, <3>3, <4>1 DEF LabStep
    <3> QED
      BY <3>4, <3>5
  <2> QED
    BY <2>1, <2>2
<1> QED
  BY <1>2, <1>3, <1>4, <1>5, <1>6

\* The handlers that move only the request: within the statuses before
\* shipping, to cancelled, or from completed to closed.
LEMMA RequestActionKeepsRequestInv ==
    ASSUME TypeOK, RequestInv, NEW r \in Requests, NEW from, NEW to,
           RequestAction(r, from, to),
           \/ from \subseteq UnshippedStatuses /\ to \in UnshippedStatuses
           \/ from \subseteq RequestStatuses /\ to = "cancelled"
           \/ from = {"completed"} /\ to = "closed"
    PROVE  RequestInv'
<1> USE DEF RequestInv, TypeOK, CommissionTypeOK
<1>1. /\ reqStatus[r] \in from /\ reqStatus[r] # "none"
      /\ reqStatus' = [reqStatus EXCEPT ![r] = to]
      /\ UNCHANGED <<reqTypes, owner, sampleStatus, chosen>>
  BY DEF RequestAction, UnshippedStatuses, RequestStatuses
<1>2. \A x \in Requests : SamplesOf(x)' = SamplesOf(x)
  BY <1>1 DEF SamplesOf
<1>3. SamplesBound'
  BY <1>1, <1>2 DEF SamplesBound, UnshippedStatuses
<1>4. UnshippedUntouched'
  BY <1>1 DEF UnshippedUntouched, UnshippedStatuses
<1>5. SelectionWithinRequest'
  BY <1>1 DEF SelectionWithinRequest
<1>6. CompletedRequestSettled'
  BY <1>1, <1>2 DEF CompletedRequestSettled, UnshippedStatuses
<1>7. NoStrandedRequest'
  BY <1>1, <1>2 DEF NoStrandedRequest, UnshippedStatuses
<1> QED
  BY <1>3, <1>4, <1>5, <1>6, <1>7

\* The handlers that move one wafer of a shipped request and then run checks:
\* st is the status the checks leave the request with.
LEMMA SampleMoveKeepsRequestInv ==
    ASSUME TypeOK, RequestInv, NEW s \in Samples, NEW to \in SampleStatuses, NEW st,
           owner[s] # Nil,
           sampleStatus[s] \in {"shipped", "receiving_exception",
                                "processing_exception", "lost"},
           sampleStatus' = [sampleStatus EXCEPT ![s] = to],
           reqStatus' = [reqStatus EXCEPT ![owner[s]] = st],
           UNCHANGED <<reqTypes, owner, chosen>>,
           \/ /\ st = reqStatus[owner[s]]
              /\ st = "sample_shipped" => \E x \in SamplesOf(owner[s]) :
                    sampleStatus'[x] \notin {"received", "processing", "completed",
                                             "voided", "returned"}
              /\ st = "in_progress" => \E x \in SamplesOf(owner[s]) :
                    sampleStatus'[x] \notin Settled
           \/ /\ reqStatus[owner[s]] = "sample_shipped" /\ st = "in_progress"
              /\ \E x \in SamplesOf(owner[s]) : sampleStatus'[x] \notin Settled
           \/ /\ reqStatus[owner[s]] \in {"sample_shipped", "in_progress"}
              /\ st = "completed"
              /\ \A x \in SamplesOf(owner[s]) : sampleStatus'[x] \in Settled
    PROVE  RequestInv'
<1> USE DEF RequestInv, TypeOK, CommissionTypeOK, Settled
<1> DEFINE r == owner[s]
<1>1. r \in Requests /\ s \in SamplesOf(r) /\ reqStatus[r] # "none"
  BY DEF SamplesOf, SamplesBound
<1>2. \A x \in Requests : SamplesOf(x)' = SamplesOf(x)
  BY DEF SamplesOf
<1>3. /\ reqStatus'[r] = st
      /\ \A x \in Requests : x # r => reqStatus'[x] = reqStatus[x]
      /\ \A x \in Samples : x # s => sampleStatus'[x] = sampleStatus[x]
  BY <1>1
<1>4. reqStatus[r] \notin UnshippedStatuses
  BY <1>1 DEF UnshippedUntouched
<1>5. SamplesBound'
  BY <1>1, <1>2, <1>3 DEF SamplesBound
<1>6. UnshippedUntouched'
  BY <1>1, <1>3, <1>4 DEF UnshippedUntouched, UnshippedStatuses
<1>7. SelectionWithinRequest'
  BY DEF SelectionWithinRequest
<1>8. CompletedRequestSettled'
  <2> SUFFICES ASSUME NEW x \in Requests, reqStatus'[x] \in {"completed", "closed"}
               PROVE  /\ SamplesOf(x) # {}
                      /\ \A y \in SamplesOf(x) : sampleStatus'[y] \in Settled
    BY <1>2 DEF CompletedRequestSettled
  <2>1. CASE x # r
    BY <2>1, <1>3 DEF CompletedRequestSettled, SamplesOf
  <2>2. CASE x = r
    BY <2>2, <1>1, <1>3 DEF CompletedRequestSettled
  <2> QED
    BY <2>1, <2>2
<1>9. NoStrandedRequest'
  <2> SUFFICES ASSUME NEW x \in Requests
               PROVE  /\ reqStatus'[x] = "sample_shipped" =>
                            \E y \in SamplesOf(x) : sampleStatus'[y] \notin
                                {"received", "processing", "completed",
                                 "voided", "returned"}
                      /\ reqStatus'[x] = "in_progress" =>
                            \E y \in SamplesOf(x) : sampleStatus'[y] \notin Settled
    BY <1>2 DEF NoStrandedRequest
  <2>1. CASE x # r
    BY <2>1, <1>3 DEF NoStrandedRequest, SamplesOf
  <2>2. CASE x = r
    BY <2>2, <1>3
  <2> QED
    BY <2>1, <2>2
<1> QED
  BY <1>5, <1>6, <1>7, <1>8, <1>9

\* void and return, through both checks.
LEMMA SettleKeepsRequestInv ==
    ASSUME TypeOK, RequestInv, NEW s \in Samples, NEW from,
           from \subseteq {"receiving_exception", "processing_exception", "lost"},
           NEW to \in {"voided", "returned"}, SettleSample(s, from, to)
    PROVE  RequestInv'
<1> USE DEF TypeOK, CommissionTypeOK
<1> DEFINE r  == owner[s]
           ss == [sampleStatus EXCEPT ![s] = to]
           s1 == CheckAllSamplesReceived(r, reqStatus[r], ss)
           s2 == CheckRequestCompleted(r, s1, ss)
<1>1. /\ r # Nil /\ sampleStatus[s] \in from /\ sampleStatus' = ss
      /\ reqStatus' = [reqStatus EXCEPT ![r] = s2]
      /\ UNCHANGED <<reqTypes, owner, chosen>>
  BY DEF SettleSample
<1>2. r \in Requests /\ s \in SamplesOf(r)
  BY <1>1 DEF SamplesOf
<1>3. \/ s1 = reqStatus[r]
      \/ reqStatus[r] = "sample_shipped" /\ s1 = "in_progress"
  BY DEF CheckAllSamplesReceived
<1>4. s1 = "sample_shipped" => \E x \in SamplesOf(r) :
        ss[x] \notin {"received", "processing", "completed", "voided", "returned"}
  BY <1>2 DEF CheckAllSamplesReceived, AllIn, AccountedStatuses
<1>5. \/ s2 = s1 /\ (s1 = "in_progress" => \E x \in SamplesOf(r) : ss[x] \notin Settled)
      \/ /\ s1 = "in_progress" /\ s2 = "completed"
         /\ \A x \in SamplesOf(r) : ss[x] \in Settled
  BY <1>2 DEF CheckRequestCompleted, AllIn, SettledStatuses, Settled
<1>6. to \in SampleStatuses
  BY DEF SampleStatuses
<1> HIDE DEF r, ss, s1, s2
<1>7. \/ /\ s2 = reqStatus[r]
         /\ s2 = "sample_shipped" => \E x \in SamplesOf(r) :
                ss[x] \notin {"received", "processing", "completed", "voided",
                              "returned"}
         /\ s2 = "in_progress" => \E x \in SamplesOf(r) : ss[x] \notin Settled
      \/ /\ reqStatus[r] = "sample_shipped" /\ s2 = "in_progress"
         /\ \E x \in SamplesOf(r) : ss[x] \notin Settled
      \/ /\ reqStatus[r] \in {"sample_shipped", "in_progress"}
         /\ s2 = "completed"
         /\ \A x \in SamplesOf(r) : ss[x] \in Settled
  BY <1>3, <1>4, <1>5
<1> QED
  BY <1>1, <1>6, <1>7, SampleMoveKeepsRequestInv DEF r, ss

LEMMA CommissionKeepsRequestInv ==
    ASSUME TypeOK, RequestInv, CommissionNext PROVE RequestInv'
<1> USE DEF TypeOK, CommissionTypeOK
<1>1. ASSUME NEW r \in Requests, NEW T \in SUBSET ExpTypes,
             NEW S \in SUBSET Samples, NEW sel \in [S -> SUBSET T],
             CreateRequest(r, T, S, sel)
      PROVE  RequestInv'
  <2> USE DEF RequestInv
  <2>1. /\ reqStatus[r] = "none" /\ S # {} /\ \A s \in S : owner[s] = Nil
        /\ reqStatus' = [reqStatus EXCEPT ![r] = "draft"]
        /\ reqTypes' = [reqTypes EXCEPT ![r] = T]
        /\ owner' = [s \in Samples |-> IF s \in S THEN r ELSE owner[s]]
        /\ sampleStatus' = sampleStatus
        /\ \A s \in Samples : /\ s \notin S => chosen'[s] = chosen[s]
                              /\ s \in S => chosen'[s] \subseteq T
    BY <1>1 DEF CreateRequest, ResolveSelection
  <2>2. \A x \in Requests : x # r => SamplesOf(x)' = SamplesOf(x)
    BY <2>1, NilAssumption DEF SamplesOf
  <2>3. SamplesOf(r) = {} /\ SamplesOf(r)' = S
    BY <2>1, NilAssumption DEF SamplesOf, SamplesBound
  <2>4. SamplesBound'
    BY <2>1, <2>2, <2>3 DEF SamplesBound
  <2>5. UnshippedUntouched'
    BY <2>1, <2>3 DEF UnshippedUntouched, UnshippedStatuses, SamplesOf
  <2>6. SelectionWithinRequest'
    BY <2>1, NilAssumption DEF SelectionWithinRequest, SamplesBound
  <2>7. CompletedRequestSettled'
    BY <2>1, <2>2 DEF CompletedRequestSettled
  <2>8. NoStrandedRequest'
    BY <2>1, <2>2 DEF NoStrandedRequest
  <2> QED
    BY <2>4, <2>5, <2>6, <2>7, <2>8
<1>2. ASSUME NEW r \in Requests, NEW T \in (SUBSET ExpTypes) \cup {Nil},
             NEW S \in SUBSET Samples, NEW sel \in [S -> SUBSET ExpTypes],
             UpdateRequest(r, T, S, sel)
      PROVE  RequestInv'
  <2> USE DEF RequestInv
  <2> DEFINE types == IF T = Nil THEN reqTypes[r] ELSE T
  <2>1. /\ reqStatus[r] = "draft" /\ \A s \in S : owner[s] \in {r, Nil}
        /\ reqTypes' = [reqTypes EXCEPT ![r] = types]
        /\ owner' = [s \in Samples |->
                        IF s \in S THEN r
                        ELSE IF S # {} /\ owner[s] = r THEN Nil
                        ELSE owner[s]]
        /\ reqStatus' = reqStatus /\ sampleStatus' = sampleStatus
    BY <1>2 DEF UpdateRequest, Rebuildable
  <2>2. \A s \in Samples :
          /\ s \in S => chosen'[s] \subseteq types
          /\ s \notin S /\ owner[s] # r => chosen'[s] = chosen[s]
          /\ s \notin S /\ owner[s] = r /\ S = {} =>
                IF T = Nil THEN chosen'[s] = chosen[s] ELSE chosen'[s] \subseteq types
    BY <1>2 DEF UpdateRequest, ResolveSelection, PruneSelection
  <2>3. \A x \in Requests : x # r => SamplesOf(x)' = SamplesOf(x)
    BY <2>1, NilAssumption DEF SamplesOf
  <2>4. SamplesOf(r)' = IF S = {} THEN SamplesOf(r) ELSE S
    BY <2>1, NilAssumption DEF SamplesOf
  <2>5. SamplesBound'
    BY <2>1, <2>3, <2>4 DEF SamplesBound
  <2>6. UnshippedUntouched'
    BY <2>1 DEF UnshippedUntouched, UnshippedStatuses
  <2>7. SelectionWithinRequest'
    <3> SUFFICES ASSUME NEW s \in Samples, owner'[s] # Nil
                 PROVE  chosen'[s] \subseteq reqTypes'[owner'[s]]
      BY DEF SelectionWithinRequest
    <3>1. CASE s \in S
      BY <2>1, <2>2, <3>1
    <3>2. CASE s \notin S /\ owner[s] # r
      BY <2>1, <2>2, <3>2 DEF SelectionWithinRequest
    <3>3. CASE s \notin S /\ owner[s] = r
      BY <2>1, <2>2, <3>3 DEF SelectionWithinRequest
    <3> QED
      BY <3>1, <3>2, <3>3
  <2>8. CompletedRequestSettled'
    BY <2>1, <2>3 DEF CompletedRequestSettled
  <2>9. NoStrandedRequest'
    BY <2>1, <2>3 DEF NoStrandedRequest
  <2> QED
    BY <2>5, <2>6, <2>7, <2>8, <2>9
<1>3. ASSUME NEW r \in Requests,
             SubmitRequest(r) \/ ApproveRequest(r) \/ ReturnRequest(r) \/ RejectRequest(r)
      PROVE  RequestInv'
  BY <1>3, RequestActionKeepsRequestInv
     DEF SubmitRequest, ApproveRequest, ReturnRequest, RejectRequest,
         RequestTransitions, RequestTarget, UnshippedStatuses
<1>4. ASSUME NEW r \in Requests, CancelRequest(r) PROVE RequestInv'
  <2>1. RequestTransitions.cancel \subseteq RequestStatuses
    BY DEF RequestTransitions, RequestStatuses
  <2> QED
    BY <1>4, <2>1, RequestActionKeepsRequestInv DEF CancelRequest, RequestTarget
<1>5. ASSUME NEW r \in Requests, CloseRequest(r) PROVE RequestInv'
  BY <1>5, RequestActionKeepsRequestInv
     DEF CloseRequest, RequestTransitions, RequestTarget
<1>6. ASSUME NEW r \in Requests, ShipRequest(r) PROVE RequestInv'
  <2> USE DEF RequestInv
  <2>1. /\ reqStatus[r] = "approved"
        /\ reqStatus' = [reqStatus EXCEPT ![r] = "sample_shipped"]
        /\ \A s \in Samples : sampleStatus'[s] =
                IF owner[s] = r /\ sampleStatus[s] = "created"
                THEN "shipped" ELSE sampleStatus[s]
        /\ UNCHANGED <<reqTypes, owner, chosen>>
    BY <1>6 DEF ShipRequest, RequestTransitions, RequestTarget,
                SampleTransitions, SampleTarget
  <2>2. \A x \in Requests : SamplesOf(x)' = SamplesOf(x)
    BY <2>1 DEF SamplesOf
  <2>3. SamplesBound'
    BY <2>1, <2>2 DEF SamplesBound
  <2>4. UnshippedUntouched'
    BY <2>1, NilAssumption DEF UnshippedUntouched, UnshippedStatuses
  <2>5. SelectionWithinRequest'
    BY <2>1 DEF SelectionWithinRequest
  <2>6. CompletedRequestSettled'
    BY <2>1, <2>2 DEF CompletedRequestSettled, SamplesOf
  <2>7. \E s \in SamplesOf(r) : sampleStatus'[s] = "shipped"
    BY <2>1 DEF SamplesBound, SamplesOf, UnshippedUntouched, UnshippedStatuses
  <2>8. NoStrandedRequest'
    <3> SUFFICES ASSUME NEW x \in Requests
                 PROVE  /\ reqStatus'[x] = "sample_shipped" =>
                            \E y \in SamplesOf(x) : sampleStatus'[y] \notin
                                {"received", "processing", "completed",
                                 "voided", "returned"}
                        /\ reqStatus'[x] = "in_progress" =>
                            \E y \in SamplesOf(x) : sampleStatus'[y] \notin
                                {"completed", "voided", "returned"}
      BY <2>2 DEF NoStrandedRequest
    <3>1. CASE x = r
      BY <2>1, <2>7, <3>1
    <3>2. CASE x # r
      <4>1. /\ reqStatus'[x] = reqStatus[x]
            /\ \A y \in SamplesOf(x) : sampleStatus'[y] = sampleStatus[y]
        BY <2>1, <3>2 DEF SamplesOf
      <4> QED
        BY <4>1 DEF NoStrandedRequest
    <3> QED
      BY <3>1, <3>2
  <2> QED
    BY <2>3, <2>4, <2>5, <2>6, <2>8
<1>7. ASSUME NEW r \in Requests, DeleteDraft(r) PROVE RequestInv'
  <2> USE DEF RequestInv
  <2>1. /\ reqStatus[r] = "draft"
        /\ reqStatus' = [reqStatus EXCEPT ![r] = "none"]
        /\ reqTypes' = [reqTypes EXCEPT ![r] = {}]
        /\ \A s \in Samples :
                /\ owner'[s] = IF owner[s] = r THEN Nil ELSE owner[s]
                /\ owner[s] # r => chosen'[s] = chosen[s]
        /\ sampleStatus' = sampleStatus
    BY <1>7 DEF DeleteDraft
  <2>2. \A x \in Requests : x # r => SamplesOf(x)' = SamplesOf(x)
    BY <2>1, NilAssumption DEF SamplesOf
  <2>3. SamplesBound'
    BY <2>1, <2>2 DEF SamplesBound
  <2>4. UnshippedUntouched'
    BY <2>1 DEF UnshippedUntouched, UnshippedStatuses
  <2>5. SelectionWithinRequest'
    BY <2>1 DEF SelectionWithinRequest
  <2>6. CompletedRequestSettled'
    BY <2>1, <2>2 DEF CompletedRequestSettled
  <2>7. NoStrandedRequest'
    BY <2>1, <2>2 DEF NoStrandedRequest
  <2> QED
    BY <2>3, <2>4, <2>5, <2>6, <2>7
<1>8. ASSUME NEW s \in Samples, ReceiveSample(s) PROVE RequestInv'
  <2> DEFINE r  == owner[s]
             ss == [sampleStatus EXCEPT ![s] = "received"]
             st == CheckAllSamplesReceived(r, reqStatus[r], ss)
  <2>1. /\ r # Nil /\ sampleStatus[s] = "shipped" /\ sampleStatus' = ss
        /\ reqStatus' = [reqStatus EXCEPT ![r] = st]
        /\ UNCHANGED <<reqTypes, owner, chosen>>
    BY <1>8 DEF ReceiveSample, SampleTransitions, SampleTarget
  <2>2. s \in SamplesOf(r) /\ ss[s] = "received"
    BY DEF SamplesOf
  <2>3. \/ /\ st = reqStatus[r]
           /\ st = "sample_shipped" => \E x \in SamplesOf(r) :
                ss[x] \notin {"received", "processing", "completed", "voided",
                              "returned"}
        \/ reqStatus[r] = "sample_shipped" /\ st = "in_progress"
    BY <2>2 DEF CheckAllSamplesReceived, AllIn, AccountedStatuses
  <2>4. \E x \in SamplesOf(r) : ss[x] \notin Settled
    BY <2>2 DEF Settled
  <2>5. "received" \in SampleStatuses
    BY DEF SampleStatuses
  <2> HIDE DEF r, ss, st
  <2> QED
    BY <2>1, <2>3, <2>4, <2>5, SampleMoveKeepsRequestInv DEF r, ss
<1>9. ASSUME NEW s \in Samples, RejectReceivingSample(s) \/ ReportLostSample(s)
      PROVE  RequestInv'
  <2>1. PICK to \in {"receiving_exception", "lost"} :
            SampleAction(s, {"shipped"}, to)
    BY <1>9 DEF RejectReceivingSample, ReportLostSample, SampleTransitions,
                SampleTarget
  <2>2. s \in SamplesOf(owner[s]) /\ sampleStatus'[s] = to
    BY <2>1 DEF SamplesOf, SampleAction
  <2>3. reqStatus' = [reqStatus EXCEPT ![owner[s]] = reqStatus[owner[s]]]
    BY <2>1 DEF SampleAction
  <2>4. to \in SampleStatuses
    BY DEF SampleStatuses
  <2> QED
    BY <2>1, <2>2, <2>3, <2>4, SampleMoveKeepsRequestInv DEF SampleAction, Settled
<1>10. ASSUME NEW s \in Samples, VoidSample(s) \/ ReturnSample(s) PROVE RequestInv'
  BY <1>10, SettleKeepsRequestInv
     DEF VoidSample, ReturnSample, SampleTransitions, SampleTarget
<1> QED
  BY <1>1, <1>2, <1>3, <1>4, <1>5, <1>6, <1>7, <1>8, <1>9, <1>10
     DEF CommissionNext

LEMMA InitRequest == Init => RequestInv
BY DEF Init, CommissionInit, RequestInv, SamplesBound, UnshippedUntouched,
       SelectionWithinRequest, CompletedRequestSettled, NoStrandedRequest

LEMMA NextRequest == ASSUME TypeOK, RequestInv, [Next]_vars PROVE RequestInv'
<1>1. CASE WipNext
  BY <1>1, WipIsLabStep, LabStepKeepsRequestInv
<1>2. CASE CommissionNext
  BY <1>2, CommissionKeepsRequestInv
<1>3. CASE UNCHANGED commissionVars
  BY <1>3, StutterLabStep, LabStepKeepsRequestInv
<1> QED
  BY <1>1, <1>2, <1>3 DEF Next, vars

LEMMA RequestSafety ==
    Spec => [](CompletedRequestSettled /\ NoStrandedRequest /\ SelectionWithinRequest)
<1>1. Init => TypeOK /\ RequestInv
  BY InitTypeOK, InitRequest
<1>2. (TypeOK /\ RequestInv) /\ [Next]_vars => (TypeOK /\ RequestInv)'
  BY NextTypeOK, NextRequest
<1>3. TypeOK /\ RequestInv =>
        CompletedRequestSettled /\ NoStrandedRequest /\ SelectionWithinRequest
  BY DEF RequestInv
<1> QED
  BY <1>1, <1>2, <1>3, PTL DEF Spec

\* A request that is completed or closed has only settled wafers
\* (check_request_completed, and the wafers' state machine after it).
THEOREM CompletedIsSettled == Spec => []CompletedRequestSettled
BY RequestSafety, PTL

\* No request waits for a cascade that has already had its chance
\* (check_all_samples_received and check_request_completed).
THEOREM NoRequestIsStranded == Spec => []NoStrandedRequest
BY RequestSafety, PTL

\* A wafer's own selection stays within its request's types, although drafts
\* are patched in parts (create_request and update_request).
THEOREM SelectionsAreWithin == Spec => []SelectionWithinRequest
BY RequestSafety, PTL

-----------------------------------------------------------------------------
\* A request that has left draft keeps its wafers, its types and their rows.

PlansLocked ==
    \A r \in Requests : reqStatus[r] \notin {"none", "draft"} =>
        /\ reqTypes'[r] = reqTypes[r]
        /\ SamplesOf(r)' = SamplesOf(r)
        /\ \A s \in SamplesOf(r) : chosen'[s] = chosen[s]

LEMMA SelectionLocked == ASSUME TypeOK, [Next]_vars PROVE PlansLocked
<1> SUFFICES ASSUME NEW r \in Requests, reqStatus[r] \notin {"none", "draft"}
             PROVE  /\ reqTypes'[r] = reqTypes[r]
                    /\ SamplesOf(r)' = SamplesOf(r)
                    /\ \A s \in SamplesOf(r) : chosen'[s] = chosen[s]
  BY DEF PlansLocked
<1> USE NilAssumption DEF TypeOK, CommissionTypeOK
<1>1. ASSUME UNCHANGED <<reqTypes, owner, chosen>>
      PROVE  /\ reqTypes'[r] = reqTypes[r]
             /\ SamplesOf(r)' = SamplesOf(r)
             /\ \A s \in SamplesOf(r) : chosen'[s] = chosen[s]
  BY <1>1 DEF SamplesOf
<1>2. CASE WipNext
  BY <1>1, <1>2, WipIsLabStep DEF LabStep
<1>3. CASE UNCHANGED commissionVars
  BY <1>1, <1>3 DEF commissionVars
<1>4. ASSUME NEW x \in Requests, NEW T \in SUBSET ExpTypes,
             NEW S \in SUBSET Samples, NEW sel \in [S -> SUBSET T],
             CreateRequest(x, T, S, sel)
      PROVE  /\ reqTypes'[r] = reqTypes[r]
             /\ SamplesOf(r)' = SamplesOf(r)
             /\ \A s \in SamplesOf(r) : chosen'[s] = chosen[s]
  BY <1>4 DEF CreateRequest, SamplesOf
<1>5. ASSUME NEW x \in Requests, NEW T \in (SUBSET ExpTypes) \cup {Nil},
             NEW S \in SUBSET Samples, NEW sel \in [S -> SUBSET ExpTypes],
             UpdateRequest(x, T, S, sel)
      PROVE  /\ reqTypes'[r] = reqTypes[r]
             /\ SamplesOf(r)' = SamplesOf(r)
             /\ \A s \in SamplesOf(r) : chosen'[s] = chosen[s]
  BY <1>5 DEF UpdateRequest, Rebuildable, SamplesOf
<1>6. ASSUME NEW x \in Requests, DeleteDraft(x)
      PROVE  /\ reqTypes'[r] = reqTypes[r]
             /\ SamplesOf(r)' = SamplesOf(r)
             /\ \A s \in SamplesOf(r) : chosen'[s] = chosen[s]
  BY <1>6 DEF DeleteDraft, SamplesOf
<1>7. ASSUME NEW x \in Requests,
             \/ SubmitRequest(x) \/ ApproveRequest(x) \/ ReturnRequest(x)
             \/ RejectRequest(x) \/ CancelRequest(x) \/ CloseRequest(x)
             \/ ShipRequest(x)
      PROVE  UNCHANGED <<reqTypes, owner, chosen>>
  BY <1>7 DEF SubmitRequest, ApproveRequest, ReturnRequest, RejectRequest,
              CancelRequest, CloseRequest, ShipRequest, RequestAction
<1>8. ASSUME NEW s \in Samples,
             \/ ReceiveSample(s) \/ RejectReceivingSample(s)
             \/ ReportLostSample(s) \/ VoidSample(s) \/ ReturnSample(s)
      PROVE  UNCHANGED <<reqTypes, owner, chosen>>
  BY <1>8 DEF ReceiveSample, RejectReceivingSample, ReportLostSample,
              VoidSample, ReturnSample, SampleAction, SettleSample
<1> QED
  BY <1>1, <1>2, <1>3, <1>4, <1>5, <1>6, <1>7, <1>8
     DEF Next, CommissionNext, vars

\* Once a request has left draft, its wafers, its experiment types and the
\* wafers' selections never change again, even while it is returned.
THEOREM SelectionIsLocked == Spec => LockedAfterDraft
<1>1. Init => TypeOK /\ RequestInv
  BY InitTypeOK, InitRequest
<1>2. (TypeOK /\ RequestInv) /\ [Next]_vars => (TypeOK /\ RequestInv)'
  BY NextTypeOK, NextRequest
<1>3. (TypeOK /\ RequestInv) /\ [Next]_vars =>
        [\A r \in Requests : reqStatus[r] \notin {"none", "draft"} =>
            /\ reqTypes'[r] = reqTypes[r]
            /\ SamplesOf(r)' = SamplesOf(r)
            /\ \A s \in SamplesOf(r) : chosen'[s] = chosen[s]]_vars
  BY SelectionLocked DEF PlansLocked
<1> QED
  BY <1>1, <1>2, <1>3, PTL DEF Spec, LockedAfterDraft

-----------------------------------------------------------------------------
\* The laboratory's rows.

\* The part of WaferCanBeWorked that is inductive; the rest follows.
ProcessingHasOpenRow ==
    \A s \in Samples : sampleStatus[s] = "processing" =>
        \E t \in SelectedTypes(s) : sesStatus[s][t] \in {"pending", "in_progress"}

LabInv ==
    /\ LabWorkNeedsRequest
    /\ RowsMatchSelection
    /\ BatchesMatchSelection
    /\ VerdictTraceable
    /\ CompletedWaferMeasured
    /\ ProcessingHasOpenRow

AllInv == TypeOK /\ DispatchInv /\ RequestInv /\ LabInv

\* What the last part needs of the other two.
KeptInv ==
    /\ TypeOK
    /\ DispatchesBound
    /\ SamplesBound
    /\ UnshippedUntouched
    /\ SelectionWithinRequest
    /\ CompletedRequestSettled
    /\ LabInv

LEMMA AllIsKept == AllInv => KeptInv
BY DEF AllInv, KeptInv, DispatchInv, RequestInv

LabOrCancelled == {"in_progress", "completed", "closed", "cancelled"}

HasLabWork(s) == \/ \E w \in Wips : s \in wipSamples[w]
                 \/ \E t \in ExpTypes : sesStatus[s][t] # "none"

\* The selection of a wafer whose request has left draft is fixed ...
LEMMA WaferLocked ==
    ASSUME PlansLocked, NEW s \in Samples,
           owner[s] \in Requests, reqStatus[owner[s]] \notin {"none", "draft"}
    PROVE  owner'[s] = owner[s] /\ SelectedTypes(s)' = SelectedTypes(s)
<1>1. s \in SamplesOf(owner[s])
  BY DEF SamplesOf
<1>2. PICK r \in Requests : r = owner[s]
  OBVIOUS
<1>3. /\ reqTypes'[r] = reqTypes[r] /\ SamplesOf(r)' = SamplesOf(r)
      /\ chosen'[s] = chosen[s]
  BY <1>1, <1>2 DEF PlansLocked
<1>4. owner'[s] = r
  BY <1>1, <1>2, <1>3 DEF SamplesOf
<1> QED
  BY <1>2, <1>3, <1>4 DEF SelectedTypes

\* ... and every wafer the laboratory has worked on is one of those.
LEMMA LabWorkLocked ==
    ASSUME TypeOK, LabWorkNeedsRequest, PlansLocked, NEW s \in Samples, HasLabWork(s)
    PROVE  /\ owner[s] \in Requests /\ owner'[s] = owner[s]
           /\ reqStatus[owner[s]] \in LabOrCancelled
           /\ SelectedTypes(s)' = SelectedTypes(s)
<1>1. owner[s] \in Requests /\ reqStatus[owner[s]] \in LabOrCancelled
  BY DEF LabWorkNeedsRequest, HasLabWork, LabOrCancelled, TypeOK, CommissionTypeOK
<1> QED
  BY <1>1, WaferLocked DEF LabOrCancelled

\* A received wafer of a request in progress has open rows only: it has been in
\* no WIP, and a row completes in a WIP.
LEMMA OpenRows == KeptInv => WaferCanBeWorked
<1> SUFFICES ASSUME KeptInv, NEW s \in Samples,
                    sampleStatus[s] = "received",
                    reqStatus[owner[s]] = "in_progress", reqTypes[owner[s]] # {}
             PROVE  \E t \in SelectedTypes(s) :
                        sesStatus[s][t] \in {"pending", "in_progress"}
  BY DEF KeptInv, LabInv, WaferCanBeWorked, ProcessingHasOpenRow
<1> USE DEF KeptInv, TypeOK, CommissionTypeOK
<1>1. owner[s] \in Requests
  BY DEF UnshippedUntouched
<1>2. PICK t \in SelectedTypes(s) : TRUE
  BY DEF SelectedTypes
<1>3. t \in ExpTypes /\ sesStatus[s][t] # "none"
  BY <1>1, <1>2, NilAssumption DEF LabInv, RowsMatchSelection, LabStatuses, SelectedTypes
<1>4. sesStatus[s][t] # "completed"
  <2> SUFFICES ASSUME sesStatus[s][t] = "completed" PROVE FALSE
    OBVIOUS
  <2> DEFINE d == sesDispatch[s][t]
  <2>1. d \in Dispatches /\ dStatus[d] # "none" /\ s \in wipSamples[dWip[d]]
    BY <1>3 DEF LabInv, VerdictTraceable
  <2>2. \A w \in Wips : s \notin wipSamples[w]
    BY DEF LabInv, BatchesMatchSelection
  <2> QED
    BY <2>1, <2>2 DEF DispatchesBound
<1> QED
  BY <1>2, <1>3, <1>4 DEF ProgressStatuses

\* A request enters the laboratory phase from sample_shipped, with a row for
\* each selected type of its wafers, and no other row is made then.
LabPhaseStep ==
    /\ \A r \in Requests :
        reqStatus[r] \in LabOrCancelled => reqStatus'[r] \in LabOrCancelled
    /\ \A r \in Requests : reqStatus'[r] \in LabStatuses =>
        \/ reqStatus[r] \in LabStatuses
        \/ /\ reqStatus[r] = "sample_shipped"
           /\ \A s \in SamplesOf(r), t \in ExpTypes : t \in SelectedTypes(s) =>
                sesStatus'[s][t] # "none"
    /\ \A s \in Samples, t \in ExpTypes :
        \/ sesStatus'[s][t] = sesStatus[s][t]
        \/ /\ sesStatus[s][t] = "none" /\ sesStatus'[s][t] = "pending"
           /\ t \in SelectedTypes(s)
           /\ owner[s] \in Requests
           /\ reqStatus[owner[s]] = "sample_shipped"
           /\ reqStatus'[owner[s]] \in LabStatuses

\* What the handlers of requests and samples do to the laboratory's rows.
CommissionStep ==
    /\ \A s \in Samples :
        \/ sampleStatus'[s] = sampleStatus[s]
        \/ /\ sampleStatus[s] \in {"created", "shipped", "receiving_exception",
                                   "processing_exception", "lost"}
           /\ sampleStatus'[s] \in {"shipped", "received", "receiving_exception",
                                    "lost", "voided", "returned"}
    /\ \A s \in Samples : sampleStatus[s] = "processing_exception" =>
            sampleStatus'[s] \in {"processing_exception", "voided", "returned"}
    /\ LabPhaseStep

\* The checks after receive, void and return: when they open the laboratory
\* phase of a request, each selected type of its wafers has a row.
LEMMA InitializeSesStep ==
    ASSUME TypeOK, NEW r \in Requests, NEW ss, NEW st,
           sesStatus' = InitializeSes(r, ss),
           reqStatus' = [reqStatus EXCEPT ![r] = st],
           \/ st = CheckAllSamplesReceived(r, reqStatus[r], ss)
           \/ st = CheckRequestCompleted(r,
                    CheckAllSamplesReceived(r, reqStatus[r], ss), ss)
    PROVE  LabPhaseStep
<1> USE DEF TypeOK, CommissionTypeOK
<1> DEFINE s1 == CheckAllSamplesReceived(r, reqStatus[r], ss)
<1>1. \/ s1 = reqStatus[r]
      \/ reqStatus[r] = "sample_shipped" /\ s1 = "in_progress"
  BY DEF CheckAllSamplesReceived
<1>2. \/ st = s1
      \/ s1 = "in_progress" /\ st = "completed"
  BY DEF CheckRequestCompleted
<1>3. CASE s1 = reqStatus[r]
  <2>1. sesStatus' = sesStatus
    BY <1>3 DEF InitializeSes
  <2> QED
    BY <1>2, <1>3, <2>1 DEF LabPhaseStep, LabStatuses, LabOrCancelled
<1>4. CASE s1 # reqStatus[r]
  <2>1. /\ reqStatus[r] = "sample_shipped" /\ reqStatus'[r] = st
        /\ st \in LabStatuses /\ st \in LabOrCancelled
    BY <1>1, <1>2, <1>4 DEF LabStatuses, LabOrCancelled
  <2>2. \A s \in Samples, t \in ExpTypes : sesStatus'[s][t] =
            IF owner[s] = r /\ t \in SelectedTypes(s) /\ sesStatus[s][t] = "none"
            THEN "pending" ELSE sesStatus[s][t]
    BY <1>4 DEF InitializeSes
  <2>3. \A s \in SamplesOf(r), t \in ExpTypes : t \in SelectedTypes(s) =>
            sesStatus'[s][t] # "none"
    BY <2>2 DEF SamplesOf
  <2> HIDE DEF s1
  <2> QED
    BY <2>1, <2>2, <2>3 DEF LabPhaseStep
<1> QED
  BY <1>3, <1>4

LEMMA CommissionIsCommissionStep ==
    ASSUME TypeOK, CommissionNext PROVE CommissionStep
<1> USE DEF TypeOK, CommissionTypeOK
<1>1. ASSUME NEW r \in Requests,
             \/ \E T \in SUBSET ExpTypes, S \in SUBSET Samples :
                    \E sel \in [S -> SUBSET T] : CreateRequest(r, T, S, sel)
             \/ \E T \in (SUBSET ExpTypes) \cup {Nil}, S \in SUBSET Samples :
                    \E sel \in [S -> SUBSET ExpTypes] : UpdateRequest(r, T, S, sel)
             \/ DeleteDraft(r)
      PROVE  CommissionStep
  BY <1>1 DEF CreateRequest, UpdateRequest, Rebuildable, DeleteDraft,
              CommissionStep, LabPhaseStep, LabStatuses, LabOrCancelled
<1>2. ASSUME NEW r \in Requests,
             \/ SubmitRequest(r) \/ ApproveRequest(r) \/ ReturnRequest(r)
             \/ RejectRequest(r) \/ CancelRequest(r) \/ CloseRequest(r)
      PROVE  CommissionStep
  BY <1>2 DEF SubmitRequest, ApproveRequest, ReturnRequest, RejectRequest,
              CancelRequest, CloseRequest, RequestAction, RequestTransitions,
              RequestTarget, CommissionStep, LabPhaseStep, LabStatuses, LabOrCancelled
<1>3. ASSUME NEW r \in Requests, ShipRequest(r) PROVE CommissionStep
  BY <1>3 DEF ShipRequest, RequestTransitions, RequestTarget, SampleTransitions,
              SampleTarget, CommissionStep, LabPhaseStep, LabStatuses, LabOrCancelled
<1>4. ASSUME NEW s \in Samples, ReceiveSample(s) PROVE CommissionStep
  <2> DEFINE ss == [sampleStatus EXCEPT ![s] = "received"]
  <2>1. /\ owner[s] \in Requests
        /\ sampleStatus[s] = "shipped" /\ sampleStatus' = ss
        /\ sesStatus' = InitializeSes(owner[s], ss)
        /\ reqStatus' = [reqStatus EXCEPT ![owner[s]] =
                CheckAllSamplesReceived(owner[s], reqStatus[owner[s]], ss)]
    BY <1>4 DEF ReceiveSample, SampleTransitions, SampleTarget
  <2> HIDE DEF ss
  <2> QED
    <3>1. LabPhaseStep
      BY <2>1, InitializeSesStep
    <3> QED
      BY <2>1, <3>1 DEF CommissionStep, ss
<1>5. ASSUME NEW s \in Samples, RejectReceivingSample(s) \/ ReportLostSample(s)
      PROVE  CommissionStep
  BY <1>5 DEF RejectReceivingSample, ReportLostSample, SampleAction,
              SampleTransitions, SampleTarget, CommissionStep, LabPhaseStep,
              LabStatuses
<1>6. ASSUME NEW s \in Samples, VoidSample(s) \/ ReturnSample(s)
      PROVE  CommissionStep
  <2>1. PICK to \in {"voided", "returned"} :
            SettleSample(s, {"receiving_exception", "processing_exception"}, to)
            \/ SettleSample(s, {"receiving_exception", "processing_exception",
                                "lost"}, to)
    BY <1>6 DEF VoidSample, ReturnSample, SampleTransitions, SampleTarget
  <2> DEFINE ss == [sampleStatus EXCEPT ![s] = to]
  <2>2. /\ owner[s] \in Requests
        /\ sampleStatus[s] \in {"receiving_exception", "processing_exception", "lost"}
        /\ sampleStatus' = ss
        /\ sesStatus' = InitializeSes(owner[s], ss)
        /\ reqStatus' = [reqStatus EXCEPT ![owner[s]] = CheckRequestCompleted(owner[s],
                CheckAllSamplesReceived(owner[s], reqStatus[owner[s]], ss), ss)]
    BY <2>1 DEF SettleSample
  <2> HIDE DEF ss
  <2> QED
    <3>1. LabPhaseStep
      BY <2>2, InitializeSesStep
    <3> QED
      BY <2>2, <3>1 DEF CommissionStep, ss
<1> QED
  BY <1>1, <1>2, <1>3, <1>4, <1>5, <1>6 DEF CommissionNext

\* The laboratory's rows through a step of a request or a sample.
LEMMA CommissionKeepsLabInv ==
    ASSUME KeptInv, TypeOK', PlansLocked, CommissionStep,
           UNCHANGED <<wipVars, dispatchVars, verdictVars>>
    PROVE  LabInv'
<1> USE DEF KeptInv, LabInv, CommissionStep
<1>0. /\ UNCHANGED <<wipStatus, wipType, wipSamples, dStatus, dWip, results>>
      /\ UNCHANGED <<sesVerdict, sesDispatch>>
  BY DEF wipVars, dispatchVars, verdictVars
<1>1. \A s \in Samples : HasLabWork(s) =>
        /\ owner[s] \in Requests /\ owner'[s] = owner[s]
        /\ reqStatus[owner[s]] \in LabOrCancelled
        /\ reqStatus'[owner[s]] \in LabOrCancelled
        /\ SelectedTypes(s)' = SelectedTypes(s)
        /\ \A t \in ExpTypes : sesStatus'[s][t] = sesStatus[s][t]
  BY LabWorkLocked DEF LabPhaseStep, LabOrCancelled
<1>2. \A s \in Samples, t \in ExpTypes : sesStatus'[s][t] # sesStatus[s][t] =>
        /\ sesStatus[s][t] = "none" /\ sesStatus'[s][t] = "pending"
        /\ owner[s] \in Requests /\ owner'[s] = owner[s]
        /\ reqStatus[owner[s]] = "sample_shipped"
        /\ reqStatus'[owner[s]] \in LabStatuses
  BY WaferLocked DEF LabPhaseStep
<1>3. LabWorkNeedsRequest'
  BY <1>0, <1>1, <1>2, NilAssumption
     DEF LabWorkNeedsRequest, HasLabWork, LabOrCancelled, LabStatuses
<1>4. RowsMatchSelection'
  <2> SUFFICES ASSUME NEW s \in Samples,
                      \/ owner'[s] # Nil /\ reqStatus'[owner'[s]] \in LabStatuses
                      \/ \E t \in ExpTypes : sesStatus'[s][t] # "none"
               PROVE  \A t \in ExpTypes :
                        sesStatus'[s][t] # "none" <=> t \in SelectedTypes(s)'
    BY DEF RowsMatchSelection
  <2>1. CASE HasLabWork(s) /\ \E t \in ExpTypes : sesStatus[s][t] # "none"
    BY <2>1, <1>1 DEF RowsMatchSelection
  <2>2. CASE \A t \in ExpTypes : sesStatus[s][t] = "none"
    <3>1. owner'[s] \in Requests /\ reqStatus'[owner'[s]] \in LabStatuses
      <4>1. CASE \E t \in ExpTypes : sesStatus'[s][t] # "none"
        BY <2>2, <4>1, <1>2
      <4>2. CASE owner'[s] # Nil /\ reqStatus'[owner'[s]] \in LabStatuses
        BY <4>2 DEF TypeOK, CommissionTypeOK
      <4> QED
        BY <4>1, <4>2
    <3>2. PICK r \in Requests : r = owner'[s]
      BY <3>1
    <3>3. reqStatus[r] \in LabStatuses \/ reqStatus[r] = "sample_shipped"
      BY <3>1, <3>2 DEF LabPhaseStep
    <3>4. SamplesOf(r)' = SamplesOf(r)
      BY <3>3 DEF PlansLocked, LabStatuses
    <3>5. owner[s] = r
      BY <3>2, <3>4 DEF SamplesOf
    <3>6. SelectedTypes(s)' = SelectedTypes(s)
      BY <3>3, <3>5, WaferLocked DEF LabStatuses
    <3>7. CASE reqStatus[r] \in LabStatuses
      <4>1. \A t \in ExpTypes : sesStatus'[s][t] = sesStatus[s][t]
        BY <1>2, <3>5, <3>7 DEF LabStatuses
      <4> QED
        BY <3>5, <3>6, <3>7, <4>1, NilAssumption DEF RowsMatchSelection
    <3>8. CASE reqStatus[r] = "sample_shipped"
      <4>1. \A t \in ExpTypes : t \in SelectedTypes(s) => sesStatus'[s][t] # "none"
        BY <3>1, <3>2, <3>5, <3>8 DEF LabPhaseStep, LabStatuses, SamplesOf
      <4>2. \A t \in ExpTypes : t \notin SelectedTypes(s) => sesStatus'[s][t] = "none"
        BY <2>2 DEF LabPhaseStep
      <4> QED
        BY <3>6, <4>1, <4>2
    <3> QED
      BY <3>3, <3>7, <3>8
  <2> QED
    BY <2>1, <2>2 DEF HasLabWork
<1>5. BatchesMatchSelection'
  <2> SUFFICES ASSUME NEW w \in Wips, NEW s \in wipSamples[w]
               PROVE  /\ wipType[w] \in SelectedTypes(s)'
                      /\ sesStatus'[s][wipType[w]] # "none"
                      /\ sampleStatus'[s] \in {"processing", "processing_exception",
                                               "completed", "voided", "returned"}
    BY <1>0 DEF BatchesMatchSelection
  <2>1. s \in Samples
    BY DEF TypeOK, WipTypeOK
  <2>2. SelectedTypes(s)' = SelectedTypes(s)
    BY <1>1, <2>1 DEF HasLabWork
  <2>3. /\ wipType[w] \in SelectedTypes(s) /\ sesStatus[s][wipType[w]] # "none"
        /\ sampleStatus[s] \in {"processing", "processing_exception",
                                "completed", "voided", "returned"}
    BY DEF BatchesMatchSelection
  <2>4. wipType[w] \in ExpTypes
    BY <1>1, <2>1, <2>3 DEF HasLabWork, SelectedTypes, TypeOK, CommissionTypeOK
  <2>5. sesStatus'[s][wipType[w]] = sesStatus[s][wipType[w]]
    BY <1>1, <2>1, <2>4 DEF HasLabWork
  <2> QED
    BY <2>1, <2>2, <2>3, <2>5
<1>6. VerdictTraceable'
  <2>1. \A s \in Samples, t \in ExpTypes :
            sesStatus'[s][t] = "completed" <=> sesStatus[s][t] = "completed"
    BY <1>2
  <2> QED
    BY <1>0, <2>1 DEF VerdictTraceable
<1>7. CompletedWaferMeasured'
  <2> SUFFICES ASSUME NEW s \in Samples, sampleStatus'[s] = "completed"
               PROVE  /\ owner'[s] # Nil /\ SelectedTypes(s)' # {}
                      /\ \A t \in SelectedTypes(s)' :
                            sesStatus'[s][t] = "completed" /\ sesVerdict'[s][t] # Nil
    BY DEF CompletedWaferMeasured
  <2>1. sampleStatus[s] = "completed"
    OBVIOUS
  <2>2. SelectedTypes(s) \subseteq ExpTypes
    BY <2>1, NilAssumption DEF CompletedWaferMeasured, SelectedTypes, TypeOK, CommissionTypeOK
  <2>3. HasLabWork(s)
    BY <2>1, <2>2 DEF CompletedWaferMeasured, HasLabWork
  <2> QED
    BY <1>0, <1>1, <2>1, <2>2, <2>3, NilAssumption DEF CompletedWaferMeasured
<1>8. ProcessingHasOpenRow'
  <2> SUFFICES ASSUME NEW s \in Samples, sampleStatus'[s] = "processing"
               PROVE  \E t \in SelectedTypes(s)' :
                        sesStatus'[s][t] \in {"pending", "in_progress"}
    BY DEF ProcessingHasOpenRow
  <2>1. sampleStatus[s] = "processing" /\ owner[s] # Nil
    BY DEF UnshippedUntouched
  <2>2. SelectedTypes(s) \subseteq ExpTypes
    BY <2>1 DEF SelectedTypes, TypeOK, CommissionTypeOK
  <2>3. HasLabWork(s)
    BY <2>1, <2>2 DEF ProcessingHasOpenRow, HasLabWork
  <2> QED
    BY <1>1, <2>1, <2>2, <2>3 DEF ProcessingHasOpenRow
<1> QED
  BY <1>3, <1>4, <1>5, <1>6, <1>7, <1>8

\* The laboratory's rows through a step of a WIP or a dispatch: the batches
\* grow by valid wafers only, and no progress row comes or goes.
LEMMA BatchFrame ==
    ASSUME KeptInv, LabStep,
           \A s \in Samples, t \in ExpTypes :
                sesStatus'[s][t] # "none" <=> sesStatus[s][t] # "none",
           \A w \in Wips : \A s \in wipSamples'[w] :
                \/ s \in wipSamples[w] /\ wipType'[w] = wipType[w]
                \/ /\ s \in Samples /\ ValidForWip(s, wipType'[w])
                   /\ sampleStatus'[s] = "processing"
    PROVE  LabWorkNeedsRequest' /\ RowsMatchSelection' /\ BatchesMatchSelection'
<1>0. UNCHANGED <<reqTypes, owner, chosen>>
  BY DEF LabStep
<1>2. ASSUME NEW r \in Requests
      PROVE  \/ reqStatus'[r] = reqStatus[r]
             \/ reqStatus[r] = "in_progress" /\ reqStatus'[r] = "completed"
  BY DEF LabStep
<1> USE DEF KeptInv, LabInv, TypeOK, CommissionTypeOK
<1>1. \A s \in Samples : owner'[s] = owner[s] /\ SelectedTypes(s)' = SelectedTypes(s)
  BY <1>0 DEF SelectedTypes
<1>3. LabWorkNeedsRequest'
  <2> SUFFICES ASSUME NEW s \in Samples,
                      \/ \E w \in Wips : s \in wipSamples'[w]
                      \/ \E t \in ExpTypes : sesStatus'[s][t] # "none"
               PROVE  owner'[s] # Nil /\ reqStatus'[owner'[s]] \in LabOrCancelled
    BY DEF LabWorkNeedsRequest, LabOrCancelled
  <2>1. owner[s] \in Requests /\ reqStatus[owner[s]] \in LabOrCancelled
    BY DEF LabWorkNeedsRequest, LabOrCancelled, ValidForWip
  <2> QED
    BY <1>1, <1>2, <2>1, NilAssumption DEF LabOrCancelled
<1>4. RowsMatchSelection'
  <2> SUFFICES ASSUME NEW s \in Samples,
                      \/ owner'[s] # Nil /\ reqStatus'[owner'[s]] \in LabStatuses
                      \/ \E t \in ExpTypes : sesStatus'[s][t] # "none"
               PROVE  \A t \in ExpTypes :
                        sesStatus'[s][t] # "none" <=> t \in SelectedTypes(s)'
    BY DEF RowsMatchSelection
  <2>1. \/ owner[s] # Nil /\ reqStatus[owner[s]] \in LabStatuses
        \/ \E t \in ExpTypes : sesStatus[s][t] # "none"
    BY <1>1, <1>2 DEF LabStatuses
  <2> QED
    BY <1>1, <2>1 DEF RowsMatchSelection
<1>5. BatchesMatchSelection'
  <2> SUFFICES ASSUME NEW w \in Wips, NEW s \in wipSamples'[w]
               PROVE  /\ wipType'[w] \in SelectedTypes(s)'
                      /\ sesStatus'[s][wipType'[w]] # "none"
                      /\ sampleStatus'[s] \in {"processing", "processing_exception",
                                               "completed", "voided", "returned"}
    BY DEF BatchesMatchSelection
  <2>1. CASE s \in wipSamples[w] /\ wipType'[w] = wipType[w]
    <3>1. s \in Samples
      BY <2>1 DEF WipTypeOK
    <3>2. /\ wipType[w] \in SelectedTypes(s) /\ sesStatus[s][wipType[w]] # "none"
          /\ sampleStatus[s] \in {"processing", "processing_exception",
                                  "completed", "voided", "returned"}
      BY <2>1 DEF BatchesMatchSelection
    <3>3. wipType[w] \in ExpTypes
      BY <2>1, <3>1, <3>2 DEF LabWorkNeedsRequest, SelectedTypes
    <3>4. sampleStatus'[s] \in {"processing", "processing_exception",
                                "completed", "voided", "returned"}
      BY <3>1, <3>2 DEF LabStep
    <3> QED
      BY <1>1, <2>1, <3>1, <3>2, <3>3, <3>4
  <2>2. CASE /\ s \in Samples /\ ValidForWip(s, wipType'[w])
             /\ sampleStatus'[s] = "processing"
    <3>1. owner[s] \in Requests /\ wipType'[w] \in SelectedTypes(s)
      BY <2>2 DEF ValidForWip
    <3>2. wipType'[w] \in ExpTypes
      BY <2>2, <3>1 DEF SelectedTypes
    <3>3. sesStatus[s][wipType'[w]] # "none"
      BY <2>2, <3>1, <3>2 DEF ValidForWip, RowsMatchSelection, LabStatuses
    <3> QED
      BY <1>1, <2>2, <3>1, <3>2, <3>3
  <2> QED
    BY <2>1, <2>2
<1> QED
  BY <1>3, <1>4, <1>5

\* Verdicts through a step that unloads nothing.
LEMMA VerdictFrame ==
    ASSUME KeptInv, UNCHANGED verdictVars,
           \A s \in Samples, t \in ExpTypes :
                sesStatus'[s][t] = "completed" <=> sesStatus[s][t] = "completed",
           \A w \in Wips : wipStatus[w] # "none" =>
                wipType'[w] = wipType[w] /\ wipSamples[w] \subseteq wipSamples'[w],
           \A d \in Dispatches : dStatus[d] \in {"unloaded", "completed"} =>
                dStatus'[d] \in {"unloaded", "completed"} /\ dWip'[d] = dWip[d],
           \A d \in Dispatches : d \in results' <=> dStatus'[d] = "completed"
    PROVE  VerdictTraceable'
<1> SUFFICES ASSUME NEW s \in Samples, NEW t \in ExpTypes
             PROVE  (IF sesStatus[s][t] = "completed"
                     THEN LET d == sesDispatch[s][t] IN
                          /\ sesVerdict[s][t] # Nil
                          /\ d \in Dispatches
                          /\ dStatus[d] \in {"unloaded", "completed"}
                          /\ wipType[dWip[d]] = t
                          /\ s \in wipSamples[dWip[d]]
                     ELSE sesVerdict[s][t] = Nil /\ sesDispatch[s][t] = Nil)'
  BY DEF VerdictTraceable
<1>1. UNCHANGED <<sesVerdict, sesDispatch>>
  BY DEF verdictVars
<1>2. CASE sesStatus[s][t] = "completed"
  <2>1. PICK d : d = sesDispatch[s][t]
    OBVIOUS
  <2>2. /\ sesVerdict[s][t] # Nil /\ d \in Dispatches
        /\ dStatus[d] \in {"unloaded", "completed"}
        /\ wipType[dWip[d]] = t /\ s \in wipSamples[dWip[d]]
    BY <1>2, <2>1 DEF KeptInv, LabInv, VerdictTraceable
  <2>3. dWip[d] \in Wips /\ wipStatus[dWip[d]] # "none"
    BY <2>2 DEF KeptInv, DispatchesBound
  <2>4. /\ dStatus'[d] \in {"unloaded", "completed"} /\ dWip'[d] = dWip[d]
        /\ wipType'[dWip[d]] = t /\ s \in wipSamples'[dWip[d]]
    BY <2>2, <2>3
  <2> QED
    BY <1>1, <1>2, <2>1, <2>2, <2>4
<1>3. CASE sesStatus[s][t] # "completed"
  BY <1>1, <1>3 DEF KeptInv, LabInv, VerdictTraceable
<1> QED
  BY <1>2, <1>3

\* Wafers through a step that unloads nothing and completes no wafer.
LEMMA WaferFrame ==
    ASSUME KeptInv, LabStep, UNCHANGED verdictVars,
           \A s \in Samples, t \in ExpTypes :
                \/ sesStatus'[s][t] = sesStatus[s][t]
                \/ sesStatus[s][t] = "pending" /\ sesStatus'[s][t] = "in_progress",
           \A s \in Samples : sampleStatus'[s] = "completed" =>
                sampleStatus[s] = "completed",
           \A s \in Samples :
                sampleStatus[s] # "processing" /\ sampleStatus'[s] = "processing" =>
                    \E t \in ExpTypes : ValidForWip(s, t)
    PROVE  CompletedWaferMeasured' /\ ProcessingHasOpenRow'
<1> USE DEF KeptInv, LabInv, TypeOK, CommissionTypeOK
<1>1. /\ UNCHANGED <<sesVerdict, sesDispatch>>
      /\ \A s \in Samples : owner'[s] = owner[s] /\ SelectedTypes(s)' = SelectedTypes(s)
  BY DEF verdictVars, LabStep, SelectedTypes
<1>2. \A s \in Samples : owner[s] # Nil => SelectedTypes(s) \subseteq ExpTypes
  BY DEF SelectedTypes
<1>3. CompletedWaferMeasured'
  BY <1>1, <1>2 DEF CompletedWaferMeasured
<1>4. ProcessingHasOpenRow'
  <2> SUFFICES ASSUME NEW s \in Samples, sampleStatus'[s] = "processing"
               PROVE  \E t \in SelectedTypes(s)' :
                        sesStatus'[s][t] \in {"pending", "in_progress"}
    BY DEF ProcessingHasOpenRow
  <2>1. owner[s] # Nil
    BY DEF UnshippedUntouched, ValidForWip
  <2>2. \E t \in SelectedTypes(s) : sesStatus[s][t] \in {"pending", "in_progress"}
    <3>1. CASE sampleStatus[s] = "processing"
      BY <3>1 DEF ProcessingHasOpenRow
    <3>2. CASE sampleStatus[s] # "processing"
      <4>1. PICK t \in ExpTypes : ValidForWip(s, t)
        BY <3>2
      <4>2. reqTypes[owner[s]] # {}
        BY <4>1, <2>1 DEF ValidForWip, SelectedTypes, SelectionWithinRequest
      <4> QED
        BY <3>2, <4>1, <4>2, OpenRows DEF ValidForWip, WaferCanBeWorked
    <3> QED
      BY <3>1, <3>2
  <2> QED
    BY <1>1, <1>2, <2>1, <2>2
<1> QED
  BY <1>3, <1>4

\* A cascade that follows no unload has nothing to complete: every wafer in
\* processing has an open row.
LEMMA CascadeIdle ==
    ASSUME KeptInv, NEW S, CascadeSampleCompletion(S, sesStatus)
    PROVE  sampleStatus' = sampleStatus
<1> USE DEF KeptInv, LabInv, TypeOK, CommissionTypeOK
<1>1. ASSUME NEW s \in Samples PROVE ~ Completes(s, sampleStatus, sesStatus)
  <2> SUFFICES ASSUME sampleStatus[s] = "processing"
               PROVE  \E t \in ExpTypes : sesStatus[s][t] \notin {"none", "completed"}
    BY DEF Completes, SampleTransitions
  <2>1. owner[s] \in Requests
    BY DEF UnshippedUntouched
  <2> QED
    BY <2>1 DEF ProcessingHasOpenRow, SelectedTypes
<1> QED
  BY <1>1 DEF CascadeSampleCompletion, CascadeSamples

\* The end of a run: the rows of its wafers complete, each with a verdict, and
\* the wafers with no row left open complete with them.
LEMMA UnloadKeepsLabInv ==
    ASSUME KeptInv, NEW d \in Dispatches, NEW to \in {"unloaded", "completed"},
           dStatus[d] \in {"dispatched", "running"},
           dStatus' = [dStatus EXCEPT ![d] = to],
           results' = IF to = "completed" THEN results \cup {d} ELSE results,
           sesStatus' = UnloadedSes(d),
           RollVerdicts(d),
           CascadeSampleCompletion(wipSamples[dWip[d]], UnloadedSes(d)),
           UNCHANGED <<reqTypes, owner, chosen, wipType, wipSamples, dWip>>
    PROVE  LabInv'
<1> USE DEF KeptInv, LabInv, TypeOK, CommissionTypeOK, WipTypeOK
<1>1. PICK w \in Wips : w = dWip[d]
  BY DEF DispatchesBound
<1>2. PICK t \in ExpTypes \cup {Nil} : t = wipType[w]
  OBVIOUS
<1>3. LabStep
  BY CascadeStep
<1>4. \A s \in wipSamples[w] :
        /\ s \in Samples /\ t \in ExpTypes
        /\ t \in SelectedTypes(s) /\ sesStatus[s][t] # "none"
  <2> SUFFICES ASSUME NEW s \in wipSamples[w]
               PROVE  /\ s \in Samples /\ t \in ExpTypes
                      /\ t \in SelectedTypes(s) /\ sesStatus[s][t] # "none"
    OBVIOUS
  <2>1. s \in Samples /\ owner[s] \in Requests
    BY DEF LabWorkNeedsRequest
  <2> QED
    BY <1>2, <2>1 DEF BatchesMatchSelection, SelectedTypes
<1>5. \A s \in Samples, x \in ExpTypes :
        sesStatus'[s][x] = IF s \in wipSamples[w] /\ x = t THEN "completed"
                           ELSE sesStatus[s][x]
  BY <1>1, <1>2 DEF UnloadedSes
<1>6. \A s \in Samples, x \in ExpTypes :
        /\ sesDispatch'[s][x] = IF s \in wipSamples[w] /\ x = t THEN d
                                ELSE sesDispatch[s][x]
        /\ s \in wipSamples[w] /\ x = t => sesVerdict'[s][x] \in Verdicts
        /\ ~ (s \in wipSamples[w] /\ x = t) => sesVerdict'[s][x] = sesVerdict[s][x]
  <2>1. PICK roll \in [wipSamples[dWip[d]] -> Verdicts] :
            sesVerdict' = [s \in Samples |-> [x \in ExpTypes |->
                IF s \in wipSamples[dWip[d]] /\ x = wipType[dWip[d]]
                THEN roll[s] ELSE sesVerdict[s][x]]]
    BY DEF RollVerdicts
  <2>2. sesDispatch' = [s \in Samples |-> [x \in ExpTypes |->
            IF s \in wipSamples[dWip[d]] /\ x = wipType[dWip[d]]
            THEN d ELSE sesDispatch[s][x]]]
    BY DEF RollVerdicts
  <2> QED
    BY <1>1, <1>2, <2>1, <2>2
<1>7. /\ \A s \in Samples : owner'[s] = owner[s] /\ SelectedTypes(s)' = SelectedTypes(s)
      /\ \A s \in Samples : owner[s] # Nil => SelectedTypes(s) \subseteq ExpTypes
  BY DEF SelectedTypes
<1>8. \A s \in Samples : sampleStatus'[s] =
        IF s \in wipSamples[w] /\ Completes(s, sampleStatus, UnloadedSes(d))
        THEN "completed" ELSE sampleStatus[s]
  BY <1>1 DEF CascadeSampleCompletion, CascadeSamples, SampleTarget
<1>9. \A s \in Samples : Completes(s, sampleStatus, UnloadedSes(d)) <=>
        /\ sampleStatus[s] = "processing"
        /\ \E x \in ExpTypes : sesStatus'[s][x] # "none"
        /\ \A x \in ExpTypes : sesStatus'[s][x] \in {"none", "completed"}
  BY DEF Completes, SampleTransitions
<1>10. LabWorkNeedsRequest' /\ RowsMatchSelection' /\ BatchesMatchSelection'
  <2>1. \A s \in Samples, x \in ExpTypes :
            sesStatus'[s][x] # "none" <=> sesStatus[s][x] # "none"
    BY <1>4, <1>5
  <2> QED
    BY <1>3, <2>1, BatchFrame
<1>11. VerdictTraceable'
  <2>1. ASSUME NEW s \in Samples, NEW x \in ExpTypes
        PROVE  (IF sesStatus[s][x] = "completed"
                THEN LET e == sesDispatch[s][x] IN
                     /\ sesVerdict[s][x] # Nil
                     /\ e \in Dispatches
                     /\ dStatus[e] \in {"unloaded", "completed"}
                     /\ wipType[dWip[e]] = x
                     /\ s \in wipSamples[dWip[e]]
                ELSE sesVerdict[s][x] = Nil /\ sesDispatch[s][x] = Nil)'
    <3>1. CASE s \in wipSamples[w] /\ x = t
      <4>1. /\ sesStatus'[s][x] = "completed"
            /\ sesVerdict'[s][x] # Nil /\ sesDispatch'[s][x] = d
        BY <1>5, <1>6, <3>1, WipAssumption
      <4>2. /\ dStatus'[d] \in {"unloaded", "completed"}
            /\ wipType'[dWip'[d]] = x /\ s \in wipSamples'[dWip'[d]]
        BY <1>1, <1>2, <3>1
      <4> QED
        BY <4>1, <4>2
    <3>2. CASE ~ (s \in wipSamples[w] /\ x = t)
      <4>1. /\ sesStatus'[s][x] = sesStatus[s][x]
            /\ sesVerdict'[s][x] = sesVerdict[s][x]
            /\ sesDispatch'[s][x] = sesDispatch[s][x]
        BY <1>5, <1>6, <3>2
      <4>2. PICK e : e = sesDispatch[s][x]
        OBVIOUS
      <4>3. IF sesStatus[s][x] = "completed"
            THEN /\ sesVerdict[s][x] # Nil
                 /\ e \in Dispatches
                 /\ dStatus[e] \in {"unloaded", "completed"}
                 /\ wipType[dWip[e]] = x
                 /\ s \in wipSamples[dWip[e]]
            ELSE sesVerdict[s][x] = Nil /\ sesDispatch[s][x] = Nil
        BY <4>2 DEF VerdictTraceable
      <4> QED
        BY <4>1, <4>2, <4>3
    <3> QED
      BY <3>1, <3>2
  <2>2. \A e \in Dispatches : e \in results' <=> dStatus'[e] = "completed"
    BY DEF VerdictTraceable
  <2> QED
    BY <2>1, <2>2 DEF VerdictTraceable
<1>12. CompletedWaferMeasured'
  <2> SUFFICES ASSUME NEW s \in Samples, sampleStatus'[s] = "completed"
               PROVE  /\ owner[s] # Nil /\ SelectedTypes(s) # {}
                      /\ \A x \in SelectedTypes(s) :
                            sesStatus'[s][x] = "completed" /\ sesVerdict'[s][x] # Nil
    BY <1>7 DEF CompletedWaferMeasured
  <2>1. CASE sampleStatus[s] = "completed"
    BY <1>5, <1>6, <1>7, <2>1, WipAssumption DEF CompletedWaferMeasured
  <2>2. CASE sampleStatus[s] # "completed"
    <3>1. s \in wipSamples[w] /\ Completes(s, sampleStatus, UnloadedSes(d))
      BY <1>8, <2>2
    <3>2. owner[s] # Nil /\ t \in ExpTypes /\ t \in SelectedTypes(s)
      BY <1>4, <3>1 DEF LabWorkNeedsRequest
    <3>3. \A x \in SelectedTypes(s) : x \in ExpTypes /\ sesStatus[s][x] # "none"
      BY <1>4, <1>7, <3>1, <3>2 DEF RowsMatchSelection
    <3>4. \A x \in SelectedTypes(s) : sesStatus'[s][x] = "completed"
      BY <1>5, <1>9, <3>1, <3>3
    <3>5. \A x \in SelectedTypes(s) : sesVerdict'[s][x] # Nil
      BY <1>11, <3>3, <3>4 DEF VerdictTraceable
    <3> QED
      BY <3>2, <3>4, <3>5
  <2> QED
    BY <2>1, <2>2
<1>13. ProcessingHasOpenRow'
  <2> SUFFICES ASSUME NEW s \in Samples, sampleStatus'[s] = "processing"
               PROVE  \E x \in SelectedTypes(s) :
                        sesStatus'[s][x] \in {"pending", "in_progress"}
    BY <1>7 DEF ProcessingHasOpenRow
  <2>1. sampleStatus[s] = "processing" /\ owner[s] # Nil
    BY <1>8 DEF UnshippedUntouched
  <2>2. CASE s \notin wipSamples[w]
    BY <1>5, <1>7, <2>1, <2>2 DEF ProcessingHasOpenRow
  <2>3. CASE s \in wipSamples[w]
    <3>1. t \in ExpTypes /\ sesStatus[s][t] # "none" /\ sesStatus'[s][t] # "none"
      BY <1>4, <1>5, <2>3
    <3>2. PICK x \in ExpTypes : sesStatus'[s][x] \notin {"none", "completed"}
      BY <1>8, <1>9, <2>1, <2>3, <3>1
    <3>3. sesStatus[s][x] = sesStatus'[s][x]
      BY <1>5, <3>2
    <3>4. x \in SelectedTypes(s)
      BY <3>1, <3>2, <3>3 DEF RowsMatchSelection
    <3> QED
      BY <3>2, <3>3, <3>4 DEF ProgressStatuses
  <2> QED
    BY <2>2, <2>3
<1> QED
  BY <1>10, <1>11, <1>12, <1>13

\* A step of a WIP or a dispatch that leaves the batches, the progress rows and
\* the verdicts alone, and takes no wafer into processing or to completion.
LEMMA QuietStep ==
    ASSUME KeptInv, LabStep, UNCHANGED <<verdictVars, wipType, wipSamples>>,
           \A s \in Samples, t \in ExpTypes :
                \/ sesStatus'[s][t] = sesStatus[s][t]
                \/ sesStatus[s][t] = "pending" /\ sesStatus'[s][t] = "in_progress",
           \A s \in Samples :
                \/ sampleStatus'[s] = sampleStatus[s]
                \/ sampleStatus'[s] = "processing_exception",
           \A d \in Dispatches : dStatus[d] \in {"unloaded", "completed"} =>
                dStatus'[d] \in {"unloaded", "completed"} /\ dWip'[d] = dWip[d],
           \A d \in Dispatches : d \in results' <=> dStatus'[d] = "completed"
    PROVE  LabInv'
<1>1. LabWorkNeedsRequest' /\ RowsMatchSelection' /\ BatchesMatchSelection'
  BY BatchFrame
<1>2. VerdictTraceable'
  BY VerdictFrame
<1>3. CompletedWaferMeasured' /\ ProcessingHasOpenRow'
  BY WaferFrame
<1> QED
  BY <1>1, <1>2, <1>3 DEF LabInv

LEMMA TakeInKeepsLabInv ==
    ASSUME KeptInv, NEW w \in Wips, NEW S \in SUBSET Samples,
           \/ \E t \in ExpTypes : CreateWip(w, t, S)
           \/ AddSamplesToWip(w, S)
    PROVE  LabInv'
<1>1. LabStep
  BY WipIsLabStep DEF WipNext, KeptInv
<1>2. /\ UNCHANGED <<sesStatus, dStatus, dWip, results, verdictVars>>
      /\ sampleStatus' = TransitionSamplesToProcessing(S)
  BY DEF CreateWip, AddSamplesToWip, dispatchVars
<1>3. /\ \A x \in Wips : wipStatus[x] # "none" =>
            wipType'[x] = wipType[x] /\ wipSamples[x] \subseteq wipSamples'[x]
      /\ \A x \in Wips : \A s \in wipSamples'[x] :
            \/ s \in wipSamples[x] /\ wipType'[x] = wipType[x]
            \/ s \in S /\ ValidForWip(s, wipType'[x])
      /\ \A s \in S : \E t \in ExpTypes \cup {Nil} : ValidForWip(s, t)
  <2> USE DEF KeptInv, TypeOK, WipTypeOK
  <2>1. CASE \E t \in ExpTypes : CreateWip(w, t, S)
    <3>1. PICK t \in ExpTypes : CreateWip(w, t, S)
      BY <2>1
    <3>2. /\ wipStatus[w] = "none" /\ \A s \in S : ValidForWip(s, t)
          /\ wipType' = [wipType EXCEPT ![w] = t]
          /\ wipSamples' = [wipSamples EXCEPT ![w] = S]
      BY <3>1 DEF CreateWip
    <3> QED
      BY <3>2
  <2>2. CASE AddSamplesToWip(w, S)
    <3>1. /\ \A s \in S : ValidForWip(s, wipType[w])
          /\ wipType' = wipType
          /\ wipSamples' = [wipSamples EXCEPT ![w] = @ \cup S]
      BY <2>2 DEF AddSamplesToWip
    <3> QED
      BY <3>1
  <2> QED
    BY <2>1, <2>2
<1>4. \A s \in Samples :
        IF s \in S /\ sampleStatus[s] = "received"
        THEN sampleStatus'[s] = "processing" ELSE sampleStatus'[s] = sampleStatus[s]
  BY <1>2 DEF TransitionSamplesToProcessing, SampleTransitions, SampleTarget
<1>5. LabWorkNeedsRequest' /\ RowsMatchSelection' /\ BatchesMatchSelection'
  <2>1. \A s \in S : \A t : ValidForWip(s, t) => sampleStatus'[s] = "processing"
    BY <1>4 DEF ValidForWip
  <2> QED
    BY <1>1, <1>2, <1>3, <2>1, BatchFrame
<1>6. VerdictTraceable'
  <2>1. \A d \in Dispatches : d \in results' <=> dStatus'[d] = "completed"
    BY <1>2 DEF KeptInv, LabInv, VerdictTraceable
  <2> QED
    BY <1>2, <1>3, <2>1, VerdictFrame
<1>7. CompletedWaferMeasured' /\ ProcessingHasOpenRow'
  <2>1. \A s \in S : \E t \in ExpTypes : ValidForWip(s, t)
    <3> SUFFICES ASSUME NEW s \in S PROVE \E t \in ExpTypes : ValidForWip(s, t)
      OBVIOUS
    <3>1. PICK t \in ExpTypes \cup {Nil} : ValidForWip(s, t)
      BY <1>3
    <3> QED
      BY <3>1 DEF ValidForWip, SelectedTypes, KeptInv, TypeOK, CommissionTypeOK
  <2> QED
    BY <1>1, <1>2, <1>4, <2>1, WaferFrame
<1> QED
  BY <1>5, <1>6, <1>7 DEF LabInv

LEMMA WipKeepsLabInv == ASSUME KeptInv, WipNext PROVE LabInv'
<1>1. LabStep
  BY WipIsLabStep DEF KeptInv
<1>2. \A d \in Dispatches : d \in results <=> dStatus[d] = "completed"
  BY DEF KeptInv, LabInv, VerdictTraceable
<1>3. dStatus \in [Dispatches -> DispatchStatuses \cup {"none"}]
  BY DEF KeptInv, TypeOK, WipTypeOK
<1>4. ASSUME NEW w \in Wips, NEW S \in SUBSET Samples,
             \/ \E t \in ExpTypes : CreateWip(w, t, S)
             \/ AddSamplesToWip(w, S)
      PROVE  LabInv'
  BY <1>4, TakeInKeepsLabInv
<1>5. ASSUME NEW w \in Wips, NEW d \in Dispatches, NEW e \in Equipments,
             CreateDispatch(w, d, e)
      PROVE  LabInv'
  <2>1. /\ UNCHANGED <<verdictVars, wipType, wipSamples, sampleStatus, results>>
        /\ sesStatus' = DispatchedSes(w)
        /\ dStatus[d] = "none" /\ dStatus' = [dStatus EXCEPT ![d] = "pending"]
        /\ dWip' = [dWip EXCEPT ![d] = w]
    BY <1>5 DEF CreateDispatch
  <2>2. \A s \in Samples, t \in ExpTypes :
            \/ sesStatus'[s][t] = sesStatus[s][t]
            \/ sesStatus[s][t] = "pending" /\ sesStatus'[s][t] = "in_progress"
    BY <2>1 DEF DispatchedSes
  <2>3. \A x \in Dispatches : dStatus[x] \in {"unloaded", "completed"} =>
            dStatus'[x] \in {"unloaded", "completed"} /\ dWip'[x] = dWip[x]
    BY <2>1, <1>3 DEF KeptInv, TypeOK, WipTypeOK
  <2>4. \A x \in Dispatches : x \in results' <=> dStatus'[x] = "completed"
    BY <1>2, <1>3, <2>1
  <2> QED
    BY <1>1, <2>1, <2>2, <2>3, <2>4, QuietStep
<1>6. ASSUME NEW w \in Wips, CompleteWip(w) \/ AbortWip(w) PROVE LabInv'
  <2>1. UNCHANGED <<verdictVars, wipType, wipSamples, sesStatus, dStatus, dWip,
                    results>>
    BY <1>6 DEF CompleteWip, AbortWip, dispatchVars
  <2>2. \A s \in Samples :
            \/ sampleStatus'[s] = sampleStatus[s]
            \/ sampleStatus'[s] = "processing_exception"
    <3>1. CASE CompleteWip(w)
      BY <3>1, CascadeIdle DEF CompleteWip
    <3>2. CASE AbortWip(w)
      BY <3>2 DEF AbortWip, SampleTarget
    <3> QED
      BY <1>6, <3>1, <3>2
  <2> QED
    BY <1>1, <1>2, <2>1, <2>2, QuietStep
<1>7. ASSUME NEW d \in Dispatches,
             StartDispatch(d) \/ ReportException(d) \/ TimerElapses(d)
      PROVE  LabInv'
  <2>1. /\ UNCHANGED <<verdictVars, wipType, wipSamples, sesStatus, sampleStatus,
                       dWip, results>>
        /\ \/ dStatus' = dStatus
           \/ /\ dStatus[d] \in {"pending", "dispatched", "running"}
              /\ \/ dStatus' = [dStatus EXCEPT ![d] = "running"]
                 \/ dStatus' = [dStatus EXCEPT ![d] = "execution_exception"]
    BY <1>7 DEF StartDispatch, ReportException, TimerElapses, MoveDispatch,
                DispatchTransitions, DispatchTarget, commissionVars, wipVars
  <2>2. \A x \in Dispatches :
            /\ dStatus[x] \in {"unloaded", "completed"} => dStatus'[x] = dStatus[x]
            /\ dStatus'[x] = "completed" <=> dStatus[x] = "completed"
    BY <2>1, <1>3
  <2> QED
    BY <1>1, <1>2, <2>1, <2>2, QuietStep
<1>8. ASSUME NEW d \in Dispatches, NEW n \in Dispatches, Redispatch(d, n)
      PROVE  LabInv'
  <2>1. /\ UNCHANGED <<verdictVars, wipType, wipSamples, sesStatus, sampleStatus,
                       results>>
        /\ dStatus[d] = "execution_exception" /\ dStatus[n] = "none"
        /\ dStatus' = [dStatus EXCEPT ![d] = "pending_redispatch", ![n] = "pending"]
        /\ dWip' = [dWip EXCEPT ![n] = dWip[d]]
    BY <1>8 DEF Redispatch, DispatchTransitions, DispatchTarget, commissionVars,
                wipVars
  <2>2. \A x \in Dispatches :
            /\ dStatus[x] \in {"unloaded", "completed"} =>
                dStatus'[x] = dStatus[x] /\ dWip'[x] = dWip[x]
            /\ dStatus'[x] = "completed" <=> dStatus[x] = "completed"
    BY <2>1, <1>3 DEF KeptInv, TypeOK, WipTypeOK
  <2> QED
    BY <1>1, <1>2, <2>1, <2>2, QuietStep
<1>9. ASSUME NEW d \in Dispatches, RecordResult(d) \/ AbortDispatch(d)
      PROVE  LabInv'
  <2>1. UNCHANGED <<verdictVars, wipType, wipSamples, sesStatus, dWip>>
    BY <1>9 DEF RecordResult, AbortDispatch, MoveDispatch
  <2>2. sampleStatus' = sampleStatus
    BY <1>9, CascadeIdle DEF RecordResult, AbortDispatch
  <2>3. \/ /\ dStatus' = [dStatus EXCEPT ![d] = "completed"]
           /\ results' = results \cup {d}
        \/ /\ dStatus[d] \in {"execution_exception", "pending"}
           /\ dStatus' = [dStatus EXCEPT ![d] = "aborted"] /\ results' = results
    BY <1>9 DEF RecordResult, AbortDispatch, MoveDispatch, DispatchTransitions,
                DispatchTarget
  <2>4. \A x \in Dispatches :
            /\ dStatus[x] \in {"unloaded", "completed"} =>
                dStatus'[x] \in {"unloaded", "completed"}
            /\ x \in results' <=> dStatus'[x] = "completed"
    BY <1>2, <1>3, <2>3
  <2> QED
    BY <1>1, <2>1, <2>2, <2>4, QuietStep
<1>10. ASSUME NEW d \in Dispatches, UnloadDispatch(d) PROVE LabInv'
  BY <1>10, UnloadKeepsLabInv DEF UnloadDispatch, MoveDispatch, wipVars,
        DispatchTransitions, DispatchTarget
<1>11. ASSUME NEW d \in Dispatches, CompleteDispatchRun(d) PROVE LabInv'
  BY <1>11, UnloadKeepsLabInv DEF CompleteDispatchRun, MoveDispatch,
        DispatchTransitions, DispatchTarget
<1> QED
  BY <1>4, <1>5, <1>6, <1>7, <1>8, <1>9, <1>10, <1>11
     DEF WipNext, SubmitEquipmentResult, FinalizeDueDispatch

LEMMA InitLab == Init => LabInv
<1> SUFFICES ASSUME Init PROVE LabInv
  OBVIOUS
<1>1. /\ \A w \in Wips : wipSamples[w] = {}
      /\ \A s \in Samples : sampleStatus[s] = "created" /\ owner[s] = Nil
      /\ \A s \in Samples, t \in ExpTypes :
            /\ sesStatus[s][t] = "none"
            /\ sesVerdict[s][t] = Nil /\ sesDispatch[s][t] = Nil
      /\ \A d \in Dispatches : d \notin results /\ dStatus[d] = "none"
  BY DEF Init, CommissionInit, WipInit
<1> QED
  BY <1>1 DEF LabInv, LabWorkNeedsRequest, RowsMatchSelection,
        BatchesMatchSelection, VerdictTraceable, CompletedWaferMeasured,
        ProcessingHasOpenRow

LEMMA NextLab == ASSUME KeptInv, [Next]_vars PROVE LabInv'
<1>0. TypeOK /\ TypeOK' /\ PlansLocked
  BY NextTypeOK, SelectionLocked DEF KeptInv
<1>1. CASE WipNext
  BY <1>1, WipKeepsLabInv
<1>2. CASE CommissionNext /\ UNCHANGED <<catalogVars, wipVars, dispatchVars,
                                         verdictVars>>
  <2>1. CommissionStep
    BY <1>2, <1>0, CommissionIsCommissionStep
  <2> QED
    BY <1>0, <1>2, <2>1, CommissionKeepsLabInv
<1>3. CASE UNCHANGED <<commissionVars, wipVars, dispatchVars, verdictVars>>
  <2>1. CommissionStep
    BY <1>3 DEF CommissionStep, LabPhaseStep, commissionVars
  <2> QED
    BY <1>0, <1>3, <2>1, CommissionKeepsLabInv
<1> QED
  BY <1>1, <1>2, <1>3 DEF Next, vars

LEMMA InitAll == Init => AllInv
BY InitTypeOK, InitDispatch, InitRequest, InitLab DEF AllInv

LEMMA NextAll == AllInv /\ [Next]_vars => AllInv'
BY NextTypeOK, NextDispatch, NextRequest, NextLab, AllIsKept DEF AllInv

LEMMA LabSafety ==
    Spec => [](/\ LabWorkNeedsRequest /\ VerdictTraceable
               /\ CompletedWaferMeasured /\ WaferCanBeWorked)
<1>1. Init => AllInv
  BY InitAll
<1>2. AllInv /\ [Next]_vars => AllInv'
  BY NextAll
<1>3. AllInv => /\ LabWorkNeedsRequest /\ VerdictTraceable
                /\ CompletedWaferMeasured /\ WaferCanBeWorked
  BY OpenRows, AllIsKept DEF AllInv, LabInv
<1> QED
  BY <1>1, <1>2, <1>3, PTL DEF Spec

\* No wafer is worked on before the laboratory has its request.
THEOREM LabWorkWaits == Spec => []LabWorkNeedsRequest
BY LabSafety, PTL

\* Every verdict can be traced to the run of a batch that held the wafer.
THEOREM VerdictsAreTraceable == Spec => []VerdictTraceable
BY LabSafety, PTL

\* A completed wafer has had every experiment that was selected for it, however
\* its batches overlap and its request was patched.
THEOREM CompletedIsMeasured == Spec => []CompletedWaferMeasured
BY LabSafety, PTL

\* A wafer that the laboratory holds has an experiment left to do: it is never
\* both finished and not completed.
THEOREM HeldWafersHaveWork == Spec => []WaferCanBeWorked
BY LabSafety, PTL

\* All the safety invariants at once, with the facts about the tables that
\* carry them.
THEOREM InductiveHolds == Spec => []Inductive
<1>1. Init => AllInv
  BY InitAll
<1>2. AllInv /\ [Next]_vars => AllInv'
  BY NextAll
<1>3. AllInv => Inductive
  BY OpenRows, AllIsKept DEF AllInv, DispatchInv, RequestInv, LabInv, Inductive
<1> QED
  BY <1>1, <1>2, <1>3, PTL DEF Spec

-----------------------------------------------------------------------------
\* What no step undoes.

\* Why complete_dispatch_run is one cascade here and two in the code: over the
\* same wafers and rows the second one finds nothing left to complete.
LEMMA CascadeIdempotent ==
    ASSUME NEW S, NEW ss, NEW ses, NEW s \in Samples
    PROVE  ~ (s \in S /\ Completes(s, CascadeSamples(S, ss, ses), ses))
BY DEF Completes, CascadeSamples, SampleTransitions, SampleTarget

LEMMA RowsMoveForward ==
    ASSUME TypeOK, [Next]_vars, NEW s \in Samples, NEW t \in ExpTypes
    PROVE  /\ sesStatus[s][t] # "none" => sesStatus'[s][t] # "none"
           /\ sesStatus[s][t] = "in_progress" => sesStatus'[s][t] # "pending"
           /\ sesStatus[s][t] = "completed" => sesStatus'[s][t] = "completed"
<1>1. CASE CommissionNext
  BY <1>1, CommissionIsCommissionStep DEF CommissionStep, LabPhaseStep
<1>2. CASE UNCHANGED sesStatus
  BY <1>2
<1>3. ASSUME NEW d \in Dispatches, sesStatus' = UnloadedSes(d)
      PROVE  sesStatus'[s][t] \in {"completed", sesStatus[s][t]}
  BY <1>3 DEF UnloadedSes
<1>4. ASSUME NEW w \in Wips, sesStatus' = DispatchedSes(w)
      PROVE  \/ sesStatus'[s][t] = sesStatus[s][t]
             \/ sesStatus[s][t] = "pending" /\ sesStatus'[s][t] = "in_progress"
  BY <1>4 DEF DispatchedSes
<1>5. CASE WipNext
  <2>1. \/ UNCHANGED sesStatus
        \/ \E d \in Dispatches : sesStatus' = UnloadedSes(d)
        \/ \E w \in Wips : sesStatus' = DispatchedSes(w)
    BY <1>5 DEF WipNext, CreateWip, AddSamplesToWip, CreateDispatch, CompleteWip,
        AbortWip, StartDispatch, UnloadDispatch, RecordResult,
        SubmitEquipmentResult, FinalizeDueDispatch, CompleteDispatchRun,
        ReportException, Redispatch, AbortDispatch, TimerElapses, commissionVars
  <2> QED
    BY <1>2, <1>3, <1>4, <2>1
<1> QED
  BY <1>1, <1>2, <1>5 DEF Next, vars, commissionVars

\* Progress of a wafer's experiment only moves forward, and a row once made is
\* never removed.
THEOREM ProgressIsForward == Spec => ProgressForward
<1>1. Init => TypeOK /\ RequestInv
  BY InitTypeOK, InitRequest
<1>2. (TypeOK /\ RequestInv) /\ [Next]_vars => (TypeOK /\ RequestInv)'
  BY NextTypeOK, NextRequest
<1>3. (TypeOK /\ RequestInv) /\ [Next]_vars =>
        [\A s \in Samples, t \in ExpTypes :
            /\ sesStatus[s][t] # "none" => sesStatus'[s][t] # "none"
            /\ sesStatus[s][t] = "in_progress" => sesStatus'[s][t] # "pending"
            /\ sesStatus[s][t] = "completed" => sesStatus'[s][t] = "completed"]_vars
  BY RowsMoveForward
<1> QED
  BY <1>1, <1>2, <1>3, PTL DEF Spec, ProgressForward

\* Requests and samples: a step of the laboratory, or of a request.
LEMMA FinishedRequestsStay ==
    ASSUME TypeOK, [Next]_vars
    PROVE  /\ \A s \in Samples : sampleStatus[s] \in Settled =>
                sampleStatus'[s] = sampleStatus[s]
           /\ \A r \in Requests :
                /\ reqStatus[r] \in {"closed", "rejected", "cancelled"} =>
                    reqStatus'[r] = reqStatus[r]
                /\ reqStatus[r] = "completed" =>
                    reqStatus'[r] \in {"completed", "closed"}
<1> DEFINE Stay(r) == /\ reqStatus[r] \in {"closed", "rejected", "cancelled"} =>
                            reqStatus'[r] = reqStatus[r]
                      /\ reqStatus[r] = "completed" =>
                            reqStatus'[r] \in {"completed", "closed"}
<1>1. CASE WipNext
  BY <1>1, WipIsLabStep DEF LabStep, Settled
<1>2. CASE UNCHANGED commissionVars
  BY <1>2 DEF commissionVars
<1>3. ASSUME CommissionNext
      PROVE  \A s \in Samples : sampleStatus[s] \in Settled =>
                sampleStatus'[s] = sampleStatus[s]
  BY <1>3, CommissionIsCommissionStep DEF CommissionStep, Settled
<1>4. ASSUME NEW x \in Requests, NEW r \in Requests,
             \/ \E T \in SUBSET ExpTypes, S \in SUBSET Samples :
                    \E sel \in [S -> SUBSET T] : CreateRequest(x, T, S, sel)
             \/ \E T \in (SUBSET ExpTypes) \cup {Nil}, S \in SUBSET Samples :
                    \E sel \in [S -> SUBSET ExpTypes] : UpdateRequest(x, T, S, sel)
             \/ SubmitRequest(x) \/ ApproveRequest(x) \/ ReturnRequest(x)
             \/ RejectRequest(x) \/ CancelRequest(x) \/ CloseRequest(x)
             \/ ShipRequest(x) \/ DeleteDraft(x)
      PROVE  Stay(r)
  BY <1>4 DEF TypeOK, CommissionTypeOK, CreateRequest, UpdateRequest, SubmitRequest,
        ApproveRequest, ReturnRequest, RejectRequest, CancelRequest, CloseRequest,
        ShipRequest, DeleteDraft, RequestAction, RequestTransitions, RequestTarget
<1>5. ASSUME NEW s \in Samples, NEW r \in Requests,
             \/ ReceiveSample(s) \/ RejectReceivingSample(s)
             \/ ReportLostSample(s) \/ VoidSample(s) \/ ReturnSample(s)
      PROVE  Stay(r)
  BY <1>5 DEF TypeOK, CommissionTypeOK, ReceiveSample, RejectReceivingSample,
        ReportLostSample, VoidSample, ReturnSample, SampleAction, SettleSample,
        CheckAllSamplesReceived, CheckRequestCompleted
<1>6. CASE CommissionNext
  <2>1. \A r \in Requests : Stay(r)
    BY <1>4, <1>5, <1>6 DEF CommissionNext
  <2> QED
    BY <1>3, <1>6, <2>1
<1> QED
  BY <1>1, <1>2, <1>6 DEF Next, vars

LEMMA FinishedWorkStays ==
    ASSUME TypeOK, [Next]_vars
    PROVE  /\ \A w \in Wips : wipStatus[w] \in {"completed", "aborted"} =>
                wipStatus'[w] = wipStatus[w]
           /\ \A d \in Dispatches : dStatus[d] \in TerminalDispatchStatuses =>
                dStatus'[d] = dStatus[d]
<1> USE DEF TerminalDispatchStatuses
<1> DEFINE Stay == /\ \A w \in Wips : wipStatus[w] \in {"completed", "aborted"} =>
                        wipStatus'[w] = wipStatus[w]
                   /\ \A d \in Dispatches : dStatus[d] \in TerminalDispatchStatuses =>
                        dStatus'[d] = dStatus[d]
<1>1. CASE UNCHANGED <<wipVars, dispatchVars>>
  BY <1>1 DEF wipVars, dispatchVars
<1>2. ASSUME NEW w \in Wips,
             \/ \E t \in ExpTypes, S \in SUBSET Samples : CreateWip(w, t, S)
             \/ \E S \in SUBSET Samples : AddSamplesToWip(w, S)
             \/ \E d \in Dispatches, e \in Equipments : CreateDispatch(w, d, e)
             \/ CompleteWip(w)
             \/ AbortWip(w)
      PROVE  Stay
  BY <1>2 DEF TypeOK, WipTypeOK, CreateWip, AddSamplesToWip, CreateDispatch,
        CompleteWip, AbortWip, WipTransitions, dispatchVars
<1>3. ASSUME NEW d \in Dispatches,
             \/ StartDispatch(d) \/ UnloadDispatch(d) \/ RecordResult(d)
             \/ CompleteDispatchRun(d) \/ ReportException(d)
             \/ \E n \in Dispatches : Redispatch(d, n)
             \/ AbortDispatch(d) \/ TimerElapses(d)
      PROVE  Stay
  <2>1. \/ wipStatus' = wipStatus
        \/ \E ds : MaybeAutoCompleteWip(dWip[d], ds)
    BY <1>3 DEF StartDispatch, UnloadDispatch, RecordResult, CompleteDispatchRun,
        ReportException, Redispatch, AbortDispatch, TimerElapses, wipVars
  <2>2. \A w \in Wips : wipStatus[w] \in {"completed", "aborted"} =>
            wipStatus'[w] = wipStatus[w]
    BY <2>1 DEF MaybeAutoCompleteWip, WipFinishes, TypeOK, WipTypeOK
  <2>3. \A x \in Dispatches : dStatus[x] \in TerminalDispatchStatuses =>
            dStatus'[x] = dStatus[x]
    BY <1>3 DEF TypeOK, WipTypeOK, StartDispatch, UnloadDispatch, RecordResult,
        CompleteDispatchRun, ReportException, Redispatch, AbortDispatch,
        TimerElapses, MoveDispatch, DispatchTransitions, DispatchTarget
  <2> QED
    BY <2>2, <2>3
<1> QED
  BY <1>1, <1>2, <1>3 DEF Next, vars, WipNext, SubmitEquipmentResult,
        FinalizeDueDispatch

\* Settled wafers, finished requests, finished WIPs and ended dispatches keep
\* their status; a completed request can only be closed.
THEOREM FinishedIsFinal == Spec => FinishedStays
<1>1. Init => TypeOK /\ RequestInv
  BY InitTypeOK, InitRequest
<1>2. (TypeOK /\ RequestInv) /\ [Next]_vars => (TypeOK /\ RequestInv)'
  BY NextTypeOK, NextRequest
<1>3. (TypeOK /\ RequestInv) /\ [Next]_vars =>
        [/\ \A s \in Samples : sampleStatus[s] \in SettledStatuses =>
                sampleStatus'[s] = sampleStatus[s]
         /\ \A r \in Requests :
                /\ reqStatus[r] \in {"closed", "rejected", "cancelled"} =>
                    reqStatus'[r] = reqStatus[r]
                /\ reqStatus[r] = "completed" =>
                    reqStatus'[r] \in {"completed", "closed"}
         /\ \A w \in Wips : wipStatus[w] \in {"completed", "aborted"} =>
                wipStatus'[w] = wipStatus[w]
         /\ \A d \in Dispatches : dStatus[d] \in TerminalDispatchStatuses =>
                dStatus'[d] = dStatus[d]]_vars
  BY FinishedRequestsStay, FinishedWorkStays DEF Settled, SettledStatuses
<1> QED
  BY <1>1, <1>2, <1>3, PTL DEF Spec, FinishedStays

-----------------------------------------------------------------------------
\* Lims implements RequestPromise for each of its requests: what the tables of
\* the laboratory are reduced to by the mapping of Lims!Promise starts as
\* promised, and each step of Lims is a promised step of each request, or
\* leaves it as it was.

LabOrShipped == LabOrCancelled \cup {"sample_shipped"}

\* The moves a user decides on, which leave the rest of the request alone.
Decision(r, from, to) ==
    reqStatus[r] \in from /\ reqStatus'[r] = to

ADecision(r) ==
    \/ Decision(r, {"draft", "returned"}, "pending_approval")
    \/ Decision(r, {"pending_approval"}, "approved")
    \/ Decision(r, {"pending_approval"}, "returned")
    \/ Decision(r, {"pending_approval"}, "rejected")
    \/ Decision(r, {"approved"}, "sample_shipped")
    \/ Decision(r, {"draft", "pending_approval", "approved", "returned",
                    "sample_shipped", "in_progress"}, "cancelled")
    \/ Decision(r, {"completed"}, "closed")

Untouched(r) ==
    /\ UNCHANGED <<reqTypes, owner, chosen, sesVerdict>>
    /\ \A s \in SamplesOf(r) :
        \/ sampleStatus'[s] = sampleStatus[s]
        \/ sampleStatus[s] = "created" /\ sampleStatus'[s] = "shipped"

\* How one step may move one request.
LEMMA StatusMoves ==
    ASSUME TypeOK, RequestInv, [Next]_vars, NEW r \in Requests
    PROVE  \/ reqStatus'[r] = reqStatus[r]
           \/ {reqStatus[r], reqStatus'[r]} \subseteq {"none", "draft"}
           \/ ADecision(r) /\ Untouched(r)
           \/ /\ reqStatus[r] = "sample_shipped"
              /\ reqStatus'[r] \in {"in_progress", "completed"}
              /\ UNCHANGED sesVerdict
           \/ reqStatus[r] = "in_progress" /\ reqStatus'[r] = "completed"
<1> USE DEF TypeOK, CommissionTypeOK
<1>1. CASE WipNext
  BY <1>1, WipIsLabStep DEF LabStep
<1>2. CASE UNCHANGED commissionVars
  BY <1>2 DEF commissionVars
<1>3. ASSUME CommissionNext, UNCHANGED verdictVars, reqStatus'[r] # reqStatus[r]
      PROVE  \/ {reqStatus[r], reqStatus'[r]} \subseteq {"none", "draft"}
             \/ ADecision(r) /\ Untouched(r)
             \/ /\ reqStatus[r] = "sample_shipped"
                /\ reqStatus'[r] \in {"in_progress", "completed"}
                /\ UNCHANGED sesVerdict
             \/ reqStatus[r] = "in_progress" /\ reqStatus'[r] = "completed"
  <2>1. UNCHANGED sesVerdict
    BY <1>3 DEF verdictVars
  <2>2. ASSUME NEW x \in Requests, NEW T \in SUBSET ExpTypes,
               NEW S \in SUBSET Samples, NEW sel \in [S -> SUBSET T],
               CreateRequest(x, T, S, sel)
        PROVE  {reqStatus[r], reqStatus'[r]} \subseteq {"none", "draft"}
    BY <1>3, <2>2 DEF CreateRequest
  <2>3. ASSUME NEW x \in Requests, NEW T \in (SUBSET ExpTypes) \cup {Nil},
               NEW S \in SUBSET Samples, NEW sel \in [S -> SUBSET ExpTypes],
               UpdateRequest(x, T, S, sel)
        PROVE  FALSE
    BY <1>3, <2>3 DEF UpdateRequest
  <2>4. ASSUME NEW x \in Requests, DeleteDraft(x)
        PROVE  {reqStatus[r], reqStatus'[r]} \subseteq {"none", "draft"}
    BY <1>3, <2>4 DEF DeleteDraft
  <2>5. ASSUME NEW x \in Requests,
               \/ SubmitRequest(x) \/ ApproveRequest(x) \/ ReturnRequest(x)
               \/ RejectRequest(x) \/ CancelRequest(x) \/ CloseRequest(x)
        PROVE  ADecision(r) /\ Untouched(r)
    BY <1>3, <2>1, <2>5
       DEF SubmitRequest, ApproveRequest, ReturnRequest, RejectRequest,
           CancelRequest, CloseRequest, RequestAction, RequestTransitions,
           RequestTarget, ADecision, Decision, Untouched
  <2>6. ASSUME NEW x \in Requests, ShipRequest(x)
        PROVE  ADecision(r) /\ Untouched(r)
    BY <1>3, <2>1, <2>6
       DEF ShipRequest, RequestTransitions, RequestTarget, SampleTransitions,
           SampleTarget, SamplesOf, ADecision, Decision, Untouched
  <2>7. ASSUME NEW s \in Samples,
               ReceiveSample(s) \/ VoidSample(s) \/ ReturnSample(s)
        PROVE  \/ /\ reqStatus[r] = "sample_shipped"
                  /\ reqStatus'[r] \in {"in_progress", "completed"}
               \/ reqStatus[r] = "in_progress" /\ reqStatus'[r] = "completed"
    BY <1>3, <2>7 DEF ReceiveSample, VoidSample, ReturnSample, SettleSample,
           CheckAllSamplesReceived, CheckRequestCompleted
  <2>8. ASSUME NEW s \in Samples, RejectReceivingSample(s) \/ ReportLostSample(s)
        PROVE  FALSE
    BY <1>3, <2>8 DEF RejectReceivingSample, ReportLostSample, SampleAction
  <2> QED
    BY <1>3, <2>1, <2>2, <2>3, <2>4, <2>5, <2>6, <2>7, <2>8 DEF CommissionNext
<1> QED
  BY <1>1, <1>2, <1>3 DEF Next, vars

-----------------------------------------------------------------------------
\* What the invariant says of the promised view of a request.

\* Verdicts are only of planned experiments, and only of laboratory work.
LEMMA ReportedWithinPlan ==
    ASSUME AllInv, NEW s \in Samples, NEW t \in ExpTypes, sesVerdict[s][t] # Nil
    PROVE  /\ t \in SelectedTypes(s)
           /\ owner[s] \in Requests
           /\ reqStatus[owner[s]] \in LabOrCancelled
<1> USE DEF AllInv, LabInv
<1>1. /\ sesStatus[s][t] = "completed"
      /\ sesDispatch[s][t] \in Dispatches
      /\ dStatus[sesDispatch[s][t]] \in {"unloaded", "completed"}
      /\ wipType[dWip[sesDispatch[s][t]]] = t
      /\ s \in wipSamples[dWip[sesDispatch[s][t]]]
  BY DEF VerdictTraceable
<1>2. dWip[sesDispatch[s][t]] \in Wips
  BY <1>1 DEF DispatchInv, DispatchesBound
<1>3. t \in SelectedTypes(s)
  BY <1>1, <1>2 DEF BatchesMatchSelection
<1>4. owner[s] # Nil /\ reqStatus[owner[s]] \in LabOrCancelled
  BY <1>1 DEF LabWorkNeedsRequest, LabOrCancelled
<1> QED
  BY <1>3, <1>4 DEF TypeOK, CommissionTypeOK

\* A completed wafer is of a request the laboratory has.
LEMMA MeasuredInLab ==
    ASSUME AllInv, NEW s \in Samples, sampleStatus[s] = "completed"
    PROVE  /\ owner[s] \in Requests /\ reqStatus[owner[s]] \in LabOrCancelled
           /\ SelectedTypes(s) # {} /\ SelectedTypes(s) \subseteq ExpTypes
           /\ SelectedTypes(s) = {t \in ExpTypes : sesVerdict[s][t] # Nil}
<1>1. /\ owner[s] # Nil /\ SelectedTypes(s) # {}
      /\ \A t \in SelectedTypes(s) : sesVerdict[s][t] # Nil
  BY DEF AllInv, LabInv, CompletedWaferMeasured
<1>2. owner[s] \in Requests
  BY <1>1 DEF AllInv, TypeOK, CommissionTypeOK
<1>3. SelectedTypes(s) \subseteq ExpTypes
  BY <1>2 DEF SelectedTypes, AllInv, TypeOK, CommissionTypeOK
<1>4. PICK t \in ExpTypes : t \in SelectedTypes(s) /\ sesVerdict[s][t] # Nil
  BY <1>1, <1>3
<1> QED
  BY <1>1, <1>2, <1>3, <1>4, ReportedWithinPlan

\* Before the laboratory has the request, nothing is reported or settled.
Untried(r) ==
    /\ \A s \in SamplesOf(r) : ReportedOf(r)[s] = {}
    /\ MeasuredOf(r) = {} /\ DisposedOf(r) = {}

LEMMA NothingDone ==
    AllInv => \A r \in Requests :
        reqStatus[r] \in UnshippedStatuses \cup {"none"} => Untried(r)
<1> SUFFICES ASSUME AllInv, NEW r \in Requests,
                    reqStatus[r] \in UnshippedStatuses \cup {"none"}
             PROVE  Untried(r)
  OBVIOUS
<1>1. \A s \in SamplesOf(r) : s \in Samples /\ owner[s] = r
  BY DEF SamplesOf
<1>2. SamplesOf(r) # {} => reqStatus[r] # "none"
  BY NilAssumption DEF AllInv, RequestInv, SamplesBound, SamplesOf
<1>3. \A s \in SamplesOf(r) : sampleStatus[s] = "created"
  BY <1>1, <1>2 DEF AllInv, RequestInv, UnshippedUntouched
<1>4. \A s \in SamplesOf(r), t \in ExpTypes : sesVerdict[s][t] = Nil
  BY <1>1, ReportedWithinPlan DEF UnshippedStatuses, LabOrCancelled
<1> QED
  BY <1>3, <1>4 DEF Untried, ReportedOf, MeasuredOf, DisposedOf

-----------------------------------------------------------------------------
\* The steps, one lemma per part of the view.

\* The plan of a request that has left draft is fixed.
LEMMA PlanFixed ==
    ASSUME AllInv, [Next]_vars, NEW r \in Requests,
           reqStatus[r] \notin {"none", "draft"}
    PROVE  /\ reqTypes'[r] = reqTypes[r]
           /\ SamplesOf(r)' = SamplesOf(r)
           /\ PlanOf(r)' = PlanOf(r)
<1>1. reqTypes'[r] = reqTypes[r] /\ SamplesOf(r)' = SamplesOf(r)
  BY SelectionLocked DEF AllInv, PlansLocked
<1>2. ASSUME NEW s \in SamplesOf(r) PROVE SelectedTypes(s)' = SelectedTypes(s)
  <2>1. s \in Samples /\ owner[s] = r
    BY DEF SamplesOf
  <2> QED
    BY <2>1, SelectionLocked, WaferLocked DEF AllInv
<1> QED
  BY <1>1, <1>2 DEF PlanOf

\* Verdicts accumulate, and settled wafers stay settled.
LEMMA ViewGrows ==
    ASSUME AllInv, AllInv', [Next]_vars, NEW r \in Requests,
           reqStatus[r] \notin {"none", "draft"}
    PROVE  /\ \A s \in SamplesOf(r) : ReportedOf(r)[s] \subseteq ReportedOf(r)'[s]
           /\ MeasuredOf(r) \subseteq MeasuredOf(r)'
           /\ DisposedOf(r) \subseteq DisposedOf(r)'
<1>1. SamplesOf(r)' = SamplesOf(r) /\ SamplesOf(r) \subseteq Samples
  BY PlanFixed DEF SamplesOf
<1>2. \A s \in Samples : sampleStatus[s] \in Settled =>
            sampleStatus'[s] = sampleStatus[s]
  BY FinishedRequestsStay DEF AllInv
<1>3. ASSUME NEW s \in Samples, NEW t \in ExpTypes, sesVerdict[s][t] # Nil
      PROVE  sesVerdict'[s][t] # Nil
  <2>1. sesStatus[s][t] = "completed"
    BY <1>3 DEF AllInv, LabInv, VerdictTraceable
  <2>2. sesStatus'[s][t] = "completed"
    BY <2>1, RowsMoveForward DEF AllInv
  <2> QED
    BY <2>2 DEF AllInv, LabInv, VerdictTraceable
<1> QED
  BY <1>1, <1>2, <1>3 DEF ReportedOf, MeasuredOf, DisposedOf, Settled

\* Verdicts stay within the plan, and a measured wafer has all of its own.
WithinPlan(r) ==
    /\ \A s \in SamplesOf(r) : ReportedOf(r)[s] \subseteq PlanOf(r)[s]
    /\ \A s \in MeasuredOf(r) : /\ PlanOf(r)[s] # {}
                                /\ ReportedOf(r)[s] = PlanOf(r)[s]
    /\ MeasuredOf(r) \subseteq SamplesOf(r)
    /\ DisposedOf(r) \subseteq SamplesOf(r)
    /\ MeasuredOf(r) \cap DisposedOf(r) = {}

LEMMA ViewWithinPlan == AllInv => \A r \in Requests : WithinPlan(r)
<1> SUFFICES ASSUME AllInv, NEW r \in Requests PROVE WithinPlan(r)
  OBVIOUS
<1>1. SamplesOf(r) \subseteq Samples
  BY DEF SamplesOf
<1>2. \A s \in SamplesOf(r) : ReportedOf(r)[s] \subseteq PlanOf(r)[s]
  BY <1>1, ReportedWithinPlan DEF ReportedOf, PlanOf
<1>3. \A s \in MeasuredOf(r) : /\ PlanOf(r)[s] # {}
                               /\ ReportedOf(r)[s] = PlanOf(r)[s]
  BY <1>1, MeasuredInLab DEF MeasuredOf, ReportedOf, PlanOf
<1> QED
  BY <1>2, <1>3 DEF WithinPlan, MeasuredOf, DisposedOf

\* Until the laboratory has every wafer, a step reports and measures nothing.
LEMMA NotMeasuredWhileShipped ==
    ASSUME AllInv, AllInv', [Next]_vars, NEW r \in Requests,
           reqStatus[r] = "sample_shipped",
           \/ reqStatus'[r] = "sample_shipped"
           \/ UNCHANGED sesVerdict
    PROVE  ReportedOf(r)' = ReportedOf(r) /\ MeasuredOf(r)' = MeasuredOf(r)
<1>1. SamplesOf(r)' = SamplesOf(r) /\ SamplesOf(r) \subseteq Samples
      /\ \A s \in SamplesOf(r) : owner[s] = r /\ owner'[s] = r
  BY PlanFixed DEF SamplesOf
<1>2. \A s \in SamplesOf(r), t \in ExpTypes : sesVerdict[s][t] = Nil
  BY <1>1, ReportedWithinPlan DEF LabOrCancelled
<1>3. \A s \in SamplesOf(r), t \in ExpTypes : sesVerdict'[s][t] = Nil
  <2>1. CASE UNCHANGED sesVerdict
    BY <1>2, <2>1
  <2>2. CASE reqStatus'[r] = "sample_shipped"
    <3>1. ASSUME NEW s \in Samples, NEW t \in ExpTypes, sesVerdict'[s][t] # Nil
          PROVE  reqStatus'[owner'[s]] \in LabOrCancelled
      <4>1. sesStatus'[s][t] = "completed"
        BY <3>1 DEF AllInv, LabInv, VerdictTraceable
      <4> QED
        BY <4>1 DEF AllInv, LabInv, LabWorkNeedsRequest, LabOrCancelled
    <3> QED
      BY <1>1, <2>2, <3>1 DEF LabOrCancelled
  <2> QED
    BY <2>1, <2>2
<1>4. \A s \in SamplesOf(r) : sampleStatus[s] # "completed"
  BY <1>1, <1>2, MeasuredInLab
<1>5. \A s \in SamplesOf(r) : sampleStatus'[s] # "completed"
  <2>1. ASSUME NEW s \in SamplesOf(r), sampleStatus'[s] = "completed" PROVE FALSE
    <3>1. /\ SelectedTypes(s)' # {}
          /\ \A t \in SelectedTypes(s)' : sesVerdict'[s][t] # Nil
      BY <1>1, <2>1 DEF AllInv, LabInv, CompletedWaferMeasured
    <3>2. SelectedTypes(s)' \subseteq ExpTypes
      BY <1>1 DEF SelectedTypes, AllInv, TypeOK, CommissionTypeOK
    <3> QED
      BY <1>3, <3>1, <3>2
  <2> QED
    BY <2>1
<1> QED
  BY <1>1, <1>2, <1>3, <1>4, <1>5 DEF ReportedOf, MeasuredOf

\* The request is completed with its last wafer, and not before.
LEMMA CompletesWithLast ==
    ASSUME AllInv, AllInv', [Next]_vars, NEW r \in Requests,
           reqStatus[r] \in {"sample_shipped", "in_progress"},
           reqStatus'[r] \in {"sample_shipped", "in_progress", "completed"}
    PROVE  reqStatus'[r] = "completed" <=>
                MeasuredOf(r)' \cup DisposedOf(r)' = SamplesOf(r)
<1>1. SamplesOf(r)' = SamplesOf(r)
  BY PlanFixed
<1>2. MeasuredOf(r)' \cup DisposedOf(r)' =
            {s \in SamplesOf(r) : sampleStatus'[s] \in Settled}
  BY <1>1 DEF MeasuredOf, DisposedOf, Settled
<1>3. reqStatus'[r] = "completed" =>
            \A s \in SamplesOf(r) : sampleStatus'[s] \in Settled
  BY <1>1 DEF AllInv, RequestInv, CompletedRequestSettled, Settled
<1>4. reqStatus'[r] # "completed" =>
            \E s \in SamplesOf(r) : sampleStatus'[s] \notin Settled
  BY <1>1 DEF AllInv, RequestInv, NoStrandedRequest, Settled
<1> QED
  BY <1>2, <1>3, <1>4

\* What a draft's wafers are to undergo is among its types, and a request has
\* wafers from the moment it is filed.
DraftFormed(r) ==
    /\ \A s \in SamplesOf(r) : PlanOf(r)[s] \subseteq reqTypes[r]
    /\ SamplesOf(r) # {} <=> reqStatus[r] # "none"
    /\ reqTypes[r] \subseteq ExpTypes

LEMMA Formed == AllInv => \A r \in Requests : DraftFormed(r)
<1> SUFFICES ASSUME AllInv, NEW r \in Requests PROVE DraftFormed(r)
  OBVIOUS
<1>1. SamplesOf(r) \subseteq Samples /\ \A s \in SamplesOf(r) : owner[s] = r
  BY DEF SamplesOf
<1>2. \A s \in SamplesOf(r) : SelectedTypes(s) \subseteq reqTypes[r]
  BY <1>1, NilAssumption
     DEF SelectedTypes, AllInv, RequestInv, SelectionWithinRequest
<1>3. SamplesOf(r) # {} <=> reqStatus[r] # "none"
  BY <1>1, NilAssumption DEF AllInv, RequestInv, SamplesBound
<1> QED
  BY <1>1, <1>2, <1>3 DEF DraftFormed, PlanOf, AllInv, TypeOK, CommissionTypeOK

ViewFormed ==
    \A r \in Requests :
        /\ reqStatus[r] \in UnshippedStatuses \cup {"none"} => Untried(r)
        /\ WithinPlan(r) /\ DraftFormed(r)

LEMMA ViewIsFormed == AllInv => ViewFormed
BY NothingDone, ViewWithinPlan, Formed DEF ViewFormed

\* A decision changes nothing but the status.
LEMMA DecisionKeepsView ==
    ASSUME NEW r \in Requests, Untouched(r)
    PROVE  UNCHANGED <<reqTypes[r], PlanOf(r), ReportedOf(r), MeasuredOf(r),
                       DisposedOf(r)>>
BY DEF Untouched, SamplesOf, SelectedTypes, PlanOf, ReportedOf, MeasuredOf, DisposedOf

\* Every step of Lims is a promised step of each request, or leaves it alone.
LEMMA StepIsPromised ==
    ASSUME AllInv, AllInv', ViewFormed', [Next]_vars, NEW r \in Requests
    PROVE  [Promise(r)!Next]_(Promise(r)!promiseVars)
<1>1. /\ reqStatus'[r] \in UnshippedStatuses \cup {"none"} => Untried(r)'
      /\ WithinPlan(r)' /\ DraftFormed(r)'
  BY DEF ViewFormed
<1>2. \/ reqStatus'[r] = reqStatus[r]
      \/ {reqStatus[r], reqStatus'[r]} \subseteq {"none", "draft"}
      \/ ADecision(r) /\ Untouched(r)
      \/ /\ reqStatus[r] = "sample_shipped"
         /\ reqStatus'[r] \in {"in_progress", "completed"}
         /\ UNCHANGED sesVerdict
      \/ reqStatus[r] = "in_progress" /\ reqStatus'[r] = "completed"
  BY StatusMoves DEF AllInv
<1>3. reqStatus[r] \in RequestStatuses \cup {"none"}
  BY DEF AllInv, TypeOK, CommissionTypeOK
<1>4. CASE {reqStatus[r], reqStatus'[r]} \subseteq {"none", "draft"}
  <2>1. Untried(r)'
    BY <1>1, <1>4 DEF UnshippedStatuses
  <2>2. DOMAIN PlanOf(r)' = SamplesOf(r)'
    BY DEF PlanOf
  <2>3. Promise(r)!Write
    BY <1>1, <1>4, <2>1, <2>2 DEF Promise!Write, Promise!Wafers, Untried, DraftFormed
  <2> QED
    BY <2>3 DEF Promise!Next
<1>5. CASE ADecision(r) /\ Untouched(r)
  <2>1. UNCHANGED <<reqTypes[r], PlanOf(r), ReportedOf(r), MeasuredOf(r),
                    DisposedOf(r)>>
    BY <1>5, DecisionKeepsView
  <2> QED
    BY <1>5, <2>1
       DEF ADecision, Decision, Promise!Next, Promise!Decide, Promise!Submit,
           Promise!Approve, Promise!Return, Promise!Reject, Promise!Ship,
           Promise!Cancel, Promise!Close
<1>6. CASE /\ reqStatus'[r] = reqStatus[r]
           /\ reqStatus[r] \in {"pending_approval", "approved", "returned", "rejected"}
  <2>1. reqTypes'[r] = reqTypes[r] /\ PlanOf(r)' = PlanOf(r)
        /\ SamplesOf(r)' = SamplesOf(r)
    BY <1>6, PlanFixed
  <2>2. Untried(r) /\ Untried(r)'
    BY <1>1, <1>6, NothingDone DEF UnshippedStatuses
  <2>3. ReportedOf(r)' = ReportedOf(r)
    <3>1. \A s \in SamplesOf(r) : /\ ReportedOf(r)'[s] = {}
                                  /\ ReportedOf(r)[s] = {}
      BY <2>1, <2>2 DEF Untried
    <3> QED
      BY <2>1, <3>1 DEF ReportedOf
  <2> QED
    BY <1>6, <2>1, <2>2, <2>3 DEF Untried, Promise!promiseVars
<1>7. CASE /\ reqStatus[r] \in {"sample_shipped", "in_progress", "completed",
                                "closed", "cancelled"}
           /\ \/ reqStatus'[r] = reqStatus[r]
              \/ /\ reqStatus[r] = "sample_shipped"
                 /\ reqStatus'[r] \in {"in_progress", "completed"}
                 /\ UNCHANGED sesVerdict
              \/ reqStatus[r] = "in_progress" /\ reqStatus'[r] = "completed"
  <2>1. /\ reqTypes'[r] = reqTypes[r] /\ PlanOf(r)' = PlanOf(r)
        /\ SamplesOf(r)' = SamplesOf(r)
    BY <1>7, PlanFixed
  <2>2. DOMAIN PlanOf(r) = SamplesOf(r)
    BY DEF PlanOf
  <2>3. /\ \A s \in SamplesOf(r) : ReportedOf(r)[s] \subseteq ReportedOf(r)'[s]
        /\ MeasuredOf(r) \subseteq MeasuredOf(r)'
        /\ DisposedOf(r) \subseteq DisposedOf(r)'
    BY <1>7, ViewGrows
  <2>4. reqStatus[r] = "sample_shipped" =>
            ReportedOf(r)' = ReportedOf(r) /\ MeasuredOf(r)' = MeasuredOf(r)
    BY <1>7, NotMeasuredWhileShipped
  <2>5. reqStatus[r] \in {"sample_shipped", "in_progress"} =>
            (reqStatus'[r] = "completed" <=>
                MeasuredOf(r)' \cup DisposedOf(r)' = SamplesOf(r))
    BY <1>7, CompletesWithLast
  <2>6. Promise(r)!LabWork
    BY <1>1, <1>7, <2>1, <2>2, <2>3, <2>4, <2>5
       DEF Promise!LabWork, Promise!Wafers, Promise!Settled, WithinPlan
  <2> QED
    BY <2>6 DEF Promise!Next
<1> QED
  BY <1>2, <1>3, <1>4, <1>5, <1>6, <1>7 DEF RequestStatuses

LEMMA InitIsPromised == Init => \A r \in Requests : Promise(r)!Init
<1> SUFFICES ASSUME Init, NEW r \in Requests PROVE Promise(r)!Init
  OBVIOUS
<1>1. SamplesOf(r) = {} /\ reqStatus[r] = "none" /\ reqTypes[r] = {}
  BY NilAssumption DEF Init, CommissionInit, SamplesOf
<1> QED
  BY <1>1 DEF Promise!Init, Promise!Wafers, PlanOf, MeasuredOf, DisposedOf

\* Each request lives a promised life, whatever the laboratory does: its plan
\* is fixed once it is submitted, verdicts accumulate within the plan, every
\* wafer ends measured in full or disposed of, and the request is completed
\* exactly with its last wafer.
THEOREM RequestsArePromised == Spec => Promised
<1>1. Init => AllInv /\ \A r \in Requests : Promise(r)!Init
  BY InitAll, InitIsPromised
<1>2. AllInv /\ [Next]_vars => AllInv'
  BY NextAll
<1>3. AllInv => ViewFormed
  BY ViewIsFormed
<1>4. AllInv /\ AllInv' /\ ViewFormed' /\ [Next]_vars =>
        [\A r \in Requests :
            [Promise(r)!Next]_(Promise(r)!promiseVars)]_vars
  BY StepIsPromised
<1> QED
  BY <1>1, <1>2, <1>3, <1>4, PTL DEF Spec, Promised
=============================================================================
