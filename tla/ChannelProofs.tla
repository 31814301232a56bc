---------------------------- MODULE ChannelProofs ---------------------------
(***************************************************************************)
(* What the legacy pages leave true.  Used at the same time as the JSON    *)
(* API, they break three of the safety invariants of Lims: they start a    *)
(* second run of a batch, complete the last dispatch without looking at    *)
(* its WIP, and dispose of wafers without the checks of their request.     *)
(* All the others still hold, among them everything that is said of a      *)
(* wafer, its rows and its verdicts: KeptInv, with the reason why a page   *)
(* may leave the wafers' selections out, is inductive for both channels.   *)
(* The last section is about the catalogue's forms, which are used beside  *)
(* both.                                                                   *)
(***************************************************************************)
EXTENDS CatalogForms, LimsSafety

-----------------------------------------------------------------------------
\* The handlers the pages do not share with the API.

\* web/views.py request_create makes no selection: it relies on the rows of a
\* wafer's earlier life having gone with it.
FreeUnchosen == \A s \in Samples : owner[s] = Nil => chosen[s] = {}

ChannelInv == KeptInv /\ FreeUnchosen

\* Inductive without OneActiveDispatch, NoStrandedWip and NoStrandedRequest.
ChannelInductive ==
    /\ TypeOK
    /\ DispatchesBound
    /\ SamplesBound
    /\ UnshippedUntouched
    /\ SelectionWithinRequest
    /\ LabWorkNeedsRequest
    /\ CompletedRequestSettled
    /\ RowsMatchSelection
    /\ BatchesMatchSelection
    /\ VerdictTraceable
    /\ CompletedWaferMeasured
    /\ WaferCanBeWorked

WebDisposal(s) == WebVoidSample(s) \/ WebReturnSample(s)

OwnCommission ==
    /\ \/ \E r \in Requests, T \in SUBSET ExpTypes, S \in SUBSET Samples :
            WebCreateRequest(r, T, S)
       \/ \E s \in Samples : WebDisposal(s)
    /\ UNCHANGED <<catalogVars, wipVars, dispatchVars, verdictVars>>

OwnLab ==
    \/ \E w \in Wips :
        \/ WebCompleteWip(w)
        \/ \E d \in Dispatches, e \in Equipments : WebCreateDispatch(w, d, e)
    \/ \E d \in Dispatches :
        WebStartDispatch(d) \/ WebRecordResult(d) \/ WebAbortDispatch(d)

\* A step of both channels is one of the API, or one of a page's own.
LEMMA ChannelSteps ==
    ASSUME Next \/ WebNext
    PROVE  Next \/ OwnCommission \/ WebCatalogPages \/ OwnLab
<1>1. CASE Next
  BY <1>1
<1>2. CASE WebCommissionNext /\ UNCHANGED <<catalogVars, wipVars, dispatchVars,
                                            verdictVars>>
  <2>1. CASE \E r \in Requests, T \in SUBSET ExpTypes, S \in SUBSET Samples :
                WebCreateRequest(r, T, S)
    BY <1>2, <2>1 DEF OwnCommission
  <2>2. CASE \E s \in Samples : WebVoidSample(s) \/ WebReturnSample(s)
    BY <1>2, <2>2 DEF OwnCommission, WebDisposal
  <2>3. CASE \E r \in Requests :
                \/ WebSubmitRequest(r) \/ WebShipRequest(r) \/ WebCancelRequest(r)
                \/ WebApproveRequest(r) \/ WebReturnRequest(r)
                \/ WebRejectRequest(r) \/ WebCloseRequest(r)
                \/ WebCancelByManager(r)
    <3>1. CommissionNext
      BY <2>3 DEF CommissionNext, WebSubmitRequest, WebShipRequest,
                  WebCancelRequest, WebApproveRequest, WebReturnRequest,
                  WebRejectRequest, WebCloseRequest, WebCancelByManager
    <3> QED
      BY <1>2, <3>1 DEF Next
  <2>4. CASE \E s \in Samples :
                \/ WebReceiveSample(s) \/ WebRejectReceivingSample(s)
                \/ WebReportLostSample(s)
    <3>1. CommissionNext
      BY <2>4 DEF CommissionNext, WebReceiveSample, WebRejectReceivingSample,
                  WebReportLostSample
    <3> QED
      BY <1>2, <3>1 DEF Next
  <2> QED
    BY <1>2, <2>1, <2>2, <2>3, <2>4 DEF WebCommissionNext
<1>3. CASE WebCatalogPages
  BY <1>3
<1>4. CASE WebLabNext
  <2>1. CASE \E w \in Wips :
                \/ \E t \in ExpTypes, S \in SUBSET Samples : WebCreateWip(w, t, S)
                \/ WebAbortWip(w)
    BY <2>1 DEF WebCreateWip, WebAbortWip, Next, WipNext
  <2>2. CASE \E d \in Dispatches :
                \/ WebUnloadDispatch(d) \/ WebReportException(d)
                \/ \E n \in Dispatches : WebRedispatch(d, n)
    BY <2>2 DEF WebUnloadDispatch, WebReportException, WebRedispatch, Next, WipNext
  <2> QED
    BY <1>4, <2>1, <2>2 DEF WebLabNext, OwnLab, WebCompleteDispatch
<1> QED
  BY <1>1, <1>2, <1>3, <1>4 DEF WebNext

-----------------------------------------------------------------------------
\* Types.

LEMMA WebCatalogTypes == ASSUME CatalogTypeOK, WebCatalogNext PROVE CatalogTypeOK'
<1> USE CatalogAssumption DEF CatalogTypeOK
<1>1. ASSUME NEW e \in Equipments, NEW st \in EquipmentStatuses,
             NEW n \in CapacityInputs, NEW T \in SUBSET ExpTypes,
             WebCreateEquipment(e, st, n, T)
      PROVE  CatalogTypeOK'
  BY <1>1 DEF WebCreateEquipment, ActiveTypes
<1>2. ASSUME NEW e \in Equipments, NEW st \in EquipmentStatuses,
             NEW n \in CapacityInputs \cup {0, equipCapacity[e]},
             WebUpdateEquipment(e, st, n)
      PROVE  CatalogTypeOK'
  BY <1>2 DEF WebUpdateEquipment, UpdateEquipment
<1>3. ASSUME NEW e \in Equipments, NEW T \in SUBSET ExpTypes,
             WebSetCapabilities(e, T)
      PROVE  CatalogTypeOK'
  BY <1>3 DEF WebSetCapabilities, ActiveTypes
<1>4. ASSUME NEW t \in ExpTypes, WebCreateRecipe(t) \/ WebDeleteRecipe(t)
      PROVE  CatalogTypeOK'
  BY <1>4 DEF WebCreateRecipe, WebDeleteRecipe, DeleteRecipe
<1> QED
  BY <1>1, <1>2, <1>3, <1>4 DEF WebCatalogNext

LEMMA OwnTypes == ASSUME TypeOK, OwnCommission \/ OwnLab PROVE TypeOK'
<1> USE DEF TypeOK
<1>0. ASSUME UNCHANGED catalogVars PROVE CatalogTypeOK'
  BY <1>0 DEF CatalogTypeOK, catalogVars
<1>1. ASSUME UNCHANGED <<wipVars, dispatchVars, verdictVars>> PROVE WipTypeOK'
  BY <1>1 DEF WipTypeOK, wipVars, dispatchVars, verdictVars
<1>2. ASSUME NEW r \in Requests, NEW T \in SUBSET ExpTypes,
             NEW S \in SUBSET Samples, WebCreateRequest(r, T, S)
      PROVE  CommissionTypeOK'
  BY <1>2 DEF WebCreateRequest, CommissionTypeOK, RequestStatuses
<1>3. ASSUME NEW s \in Samples, WebDisposal(s) PROVE CommissionTypeOK'
  BY <1>3, SampleActionTypes, SampleTargets
     DEF WebDisposal, WebVoidSample, WebReturnSample
<1>4. ASSUME NEW w \in Wips, WebCompleteWip(w) PROVE TypeOK'
  <2>1. CommissionTypeOK'
    BY <1>4, CascadeTypes DEF WebCompleteWip, WebCompleteSamples, CommissionTypeOK
  <2>2. WipTypeOK'
    BY <1>4, WipTargets DEF WebCompleteWip, WipTypeOK, dispatchVars, verdictVars
  <2> QED
    BY <1>0, <1>4, <2>1, <2>2 DEF WebCompleteWip
<1>5. ASSUME NEW w \in Wips, NEW d \in Dispatches, NEW e \in Equipments,
             WebCreateDispatch(w, d, e)
      PROVE  TypeOK'
  <2>1. CommissionTypeOK'
    BY <1>5 DEF WebCreateDispatch, WebDispatchedSes, DispatchedSes,
                CommissionTypeOK, ProgressStatuses
  <2>2. WipTypeOK'
    BY <1>5 DEF WebCreateDispatch, WebOpenWip, WipTypeOK, WipStatuses,
                DispatchStatuses, verdictVars
  <2> QED
    BY <1>0, <1>5, <2>1, <2>2 DEF WebCreateDispatch
<1>6. ASSUME NEW d \in Dispatches, WebStartDispatch(d) PROVE TypeOK'
  BY <1>0, <1>6, WipTargets DEF WebStartDispatch, CommissionTypeOK, WipTypeOK,
     commissionVars, wipVars, verdictVars
<1>7. ASSUME NEW d \in Dispatches, WebRecordResult(d) \/ WebAbortDispatch(d)
      PROVE  TypeOK'
  <2>1. PICK to \in DispatchStatuses : MoveDispatch(d, to)
    BY <1>7, WipTargets DEF WebRecordResult, WebAbortDispatch
  <2>2. /\ UNCHANGED <<commissionVars, catalogVars, wipVars, verdictVars>>
        /\ results' \in {results, results \cup {d}}
    BY <1>7 DEF WebRecordResult, WebAbortDispatch
  <2>3. WipTypeOK'
    BY <2>1, <2>2, MoveDispatchTypes DEF WipTypeOK, wipVars, verdictVars
  <2> QED
    BY <1>0, <2>2, <2>3 DEF CommissionTypeOK, commissionVars
<1> QED
  BY <1>0, <1>1, <1>2, <1>3, <1>4, <1>5, <1>6, <1>7 DEF OwnCommission, OwnLab

LEMMA ChannelTypes == ASSUME TypeOK, [Next \/ WebNext]_vars PROVE TypeOK'
<1>1. CASE Next \/ UNCHANGED vars
  BY <1>1, NextTypeOK
<1>2. CASE OwnCommission \/ OwnLab
  BY <1>2, OwnTypes
<1>3. CASE WebCatalogPages
  BY <1>3, WebCatalogTypes DEF WebCatalogPages, TypeOK, CommissionTypeOK, WipTypeOK,
     commissionVars, wipVars, dispatchVars, verdictVars
<1> QED
  BY <1>1, <1>2, <1>3, ChannelSteps

-----------------------------------------------------------------------------
\* Requests and samples.

\* What is kept of requests and samples, whoever moves them.
RequestKept ==
    /\ SamplesBound
    /\ UnshippedUntouched
    /\ SelectionWithinRequest
    /\ CompletedRequestSettled
    /\ FreeUnchosen

LEMMA LabStepKeeps == ASSUME TypeOK, RequestKept, LabStep PROVE RequestKept'
<1> USE DEF RequestKept, TypeOK, CommissionTypeOK
<1>1. \A r \in Requests : SamplesOf(r)' = SamplesOf(r)
  BY DEF LabStep, SamplesOf
<1>2. SamplesBound'
  BY <1>1 DEF LabStep, SamplesBound
<1>3. UnshippedUntouched'
  BY DEF LabStep, UnshippedUntouched, UnshippedStatuses
<1>4. SelectionWithinRequest' /\ FreeUnchosen'
  BY DEF LabStep, SelectionWithinRequest, FreeUnchosen
<1>5. CompletedRequestSettled'
  <2> SUFFICES ASSUME NEW r \in Requests, reqStatus'[r] \in {"completed", "closed"}
               PROVE  /\ SamplesOf(r) # {}
                      /\ \A s \in SamplesOf(r) : sampleStatus'[s] \in Settled
    BY <1>1 DEF CompletedRequestSettled, Settled
  <2>1. CASE reqStatus'[r] = reqStatus[r]
    BY <2>1 DEF LabStep, CompletedRequestSettled, Settled, SamplesOf
  <2>2. CASE reqStatus'[r] # reqStatus[r]
    BY <2>2 DEF LabStep
  <2> QED
    BY <2>1, <2>2
<1> QED
  BY <1>2, <1>3, <1>4, <1>5

\* A step that rewrites one request while it is a draft, or makes it one.
LEMMA DraftKeeps ==
    ASSUME TypeOK, RequestKept, NEW r \in Requests, NEW st \in {"none", "draft"},
           reqStatus[r] \in {"none", "draft"},
           reqStatus' = [reqStatus EXCEPT ![r] = st],
           sampleStatus' = sampleStatus,
           \A s \in Samples :
                \/ owner[s] # r /\ owner'[s] = owner[s] /\ chosen'[s] = chosen[s]
                \/ owner[s] \in {r, Nil} /\ owner'[s] = Nil /\ chosen'[s] = {}
                \/ /\ owner[s] \in {r, Nil} /\ owner'[s] = r
                   /\ chosen'[s] \subseteq reqTypes'[r],
           \A x \in Requests : x # r => reqTypes'[x] = reqTypes[x],
           st = "none" => \A s \in Samples : owner'[s] # r,
           st = "draft" => \E s \in Samples : owner'[s] = r
    PROVE  RequestKept'
<1> USE NilAssumption DEF RequestKept, TypeOK, CommissionTypeOK
<1>1. \A x \in Requests : x # r => SamplesOf(x)' = SamplesOf(x)
  BY DEF SamplesOf
<1>2. SamplesBound'
  BY <1>1 DEF SamplesBound, SamplesOf
<1>3. UnshippedUntouched'
  BY DEF UnshippedUntouched, UnshippedStatuses, SamplesBound
<1>4. SelectionWithinRequest'
  BY DEF SelectionWithinRequest
<1>5. CompletedRequestSettled'
  BY <1>1 DEF CompletedRequestSettled, SamplesOf
<1>6. FreeUnchosen'
  BY DEF FreeUnchosen
<1> QED
  BY <1>2, <1>3, <1>4, <1>5, <1>6

\* A step that moves one request, with wafers that had left "created" before
\* or that have it behind them now.
LEMMA MoveKeeps ==
    ASSUME TypeOK, RequestKept, NEW r \in Requests, NEW st,
           reqStatus[r] # "none", st # "none",
           reqStatus' = [reqStatus EXCEPT ![r] = st],
           UNCHANGED <<reqTypes, owner, chosen>>,
           \A s \in Samples : sampleStatus'[s] # sampleStatus[s] =>
                /\ owner[s] = r
                /\ sampleStatus[s] \notin Settled,
           st \in UnshippedStatuses =>
                reqStatus[r] \in UnshippedStatuses /\ sampleStatus' = sampleStatus,
           st \in {"completed", "closed"} =>
                \/ \A s \in SamplesOf(r) : sampleStatus'[s] \in Settled
                \/ reqStatus[r] \in {"completed", "closed"}
    PROVE  RequestKept'
<1> USE NilAssumption DEF RequestKept, TypeOK, CommissionTypeOK
<1>1. \A x \in Requests : SamplesOf(x)' = SamplesOf(x)
  BY DEF SamplesOf
<1>2. SamplesBound'
  BY <1>1 DEF SamplesBound
<1>3. UnshippedUntouched'
  BY DEF UnshippedUntouched
<1>4. SelectionWithinRequest' /\ FreeUnchosen'
  BY DEF SelectionWithinRequest, FreeUnchosen
<1>5. CompletedRequestSettled'
  <2> SUFFICES ASSUME NEW x \in Requests, reqStatus'[x] \in {"completed", "closed"}
               PROVE  /\ SamplesOf(x) # {}
                      /\ \A s \in SamplesOf(x) : sampleStatus'[s] \in Settled
    BY <1>1 DEF CompletedRequestSettled, Settled
  <2>1. SamplesOf(x) # {}
    BY DEF SamplesBound
  <2>2. CASE reqStatus[x] \in {"completed", "closed"}
    BY <2>1, <2>2 DEF CompletedRequestSettled, Settled, SamplesOf
  <2>3. CASE reqStatus[x] \notin {"completed", "closed"}
    BY <2>1, <2>3
  <2> QED
    BY <2>2, <2>3
<1> QED
  BY <1>2, <1>3, <1>4, <1>5

\* A wafer leaves "shipped" or an exception, and the checks that follow, if
\* any, leave its request with st.
LEMMA CheckedKeeps ==
    ASSUME TypeOK, RequestKept, NEW s \in Samples, NEW to \in SampleStatuses,
           NEW st,
           owner[s] # Nil,
           sampleStatus[s] \in {"shipped", "receiving_exception",
                                "processing_exception", "lost"},
           sampleStatus' = [sampleStatus EXCEPT ![s] = to],
           reqStatus' = [reqStatus EXCEPT ![owner[s]] = st],
           UNCHANGED <<reqTypes, owner, chosen>>,
           \/ st = reqStatus[owner[s]]
           \/ st = "in_progress"
           \/ /\ st = "completed"
              /\ \A x \in SamplesOf(owner[s]) : sampleStatus'[x] \in Settled
    PROVE  RequestKept'
<1> USE DEF TypeOK, CommissionTypeOK
<1> DEFINE r == owner[s]
<1>1. r \in Requests /\ s \in SamplesOf(r) /\ sampleStatus[s] \notin Settled
  BY DEF SamplesOf, Settled
<1>2. reqStatus[r] # "none" /\ reqStatus[r] \notin UnshippedStatuses
  BY <1>1 DEF RequestKept, SamplesBound, UnshippedUntouched
<1>3. st # "none" /\ st \notin UnshippedStatuses
  BY <1>2 DEF UnshippedStatuses
<1>4. \A x \in Samples : sampleStatus'[x] # sampleStatus[x] =>
        owner[x] = r /\ sampleStatus[x] \notin Settled
  BY <1>1
<1>5. st \in {"completed", "closed"} =>
        \/ \A x \in SamplesOf(r) : sampleStatus'[x] \in Settled
        \/ reqStatus[r] \in {"completed", "closed"}
  OBVIOUS
<1> HIDE DEF r
<1> QED
  BY <1>1, <1>2, <1>3, <1>4, <1>5, MoveKeeps DEF r

LEMMA RequestActionKeeps ==
    ASSUME TypeOK, RequestKept, NEW r \in Requests, NEW from, NEW to,
           RequestAction(r, from, to), "none" \notin from, to # "none",
           to \in UnshippedStatuses => from \subseteq UnshippedStatuses,
           to \in {"completed", "closed"} => from = {"completed"}
    PROVE  RequestKept'
<1>1. /\ reqStatus[r] \in from
      /\ reqStatus' = [reqStatus EXCEPT ![r] = to]
      /\ UNCHANGED <<reqTypes, owner, chosen, sampleStatus>>
  BY DEF RequestAction
<1> QED
  BY <1>1, MoveKeeps

\* The requests' part through every handler of requests and samples, the
\* API's and the pages'.
LEMMA CommissionKeeps == ASSUME TypeOK, RequestKept, CommissionNext PROVE RequestKept'
<1> USE NilAssumption DEF TypeOK, CommissionTypeOK
<1>1. ASSUME NEW r \in Requests, NEW T \in SUBSET ExpTypes,
             NEW S \in SUBSET Samples, NEW sel \in [S -> SUBSET T],
             CreateRequest(r, T, S, sel)
      PROVE  RequestKept'
  <2>1. /\ reqStatus[r] = "none" /\ S # {} /\ \A s \in S : owner[s] = Nil
        /\ reqStatus' = [reqStatus EXCEPT ![r] = "draft"]
        /\ reqTypes' = [reqTypes EXCEPT ![r] = T]
        /\ owner' = [s \in Samples |-> IF s \in S THEN r ELSE owner[s]]
        /\ sampleStatus' = sampleStatus
        /\ \A s \in Samples : /\ s \notin S => chosen'[s] = chosen[s]
                              /\ s \in S => chosen'[s] \subseteq T
    BY <1>1 DEF CreateRequest, ResolveSelection
  <2>2. \A s \in Samples : owner[s] # r
    BY <2>1 DEF RequestKept, SamplesBound
  <2>3. \A s \in Samples :
          \/ owner[s] # r /\ owner'[s] = owner[s] /\ chosen'[s] = chosen[s]
          \/ owner[s] \in {r, Nil} /\ owner'[s] = Nil /\ chosen'[s] = {}
          \/ /\ owner[s] \in {r, Nil} /\ owner'[s] = r
             /\ chosen'[s] \subseteq reqTypes'[r]
    BY <2>1, <2>2
  <2>4. \E s \in Samples : owner'[s] = r
    BY <2>1
  <2> QED
    BY <2>1, <2>3, <2>4, DraftKeeps
<1>2. ASSUME NEW r \in Requests, NEW T \in (SUBSET ExpTypes) \cup {Nil},
             NEW S \in SUBSET Samples, NEW sel \in [S -> SUBSET ExpTypes],
             UpdateRequest(r, T, S, sel)
      PROVE  RequestKept'
  <2> DEFINE types == IF T = Nil THEN reqTypes[r] ELSE T
  <2>1. /\ reqStatus[r] = "draft" /\ \A s \in S : owner[s] \in {r, Nil}
        /\ reqTypes' = [reqTypes EXCEPT ![r] = types]
        /\ owner' = [s \in Samples |->
                        IF s \in S THEN r
                        ELSE IF S # {} /\ owner[s] = r THEN Nil
                        ELSE owner[s]]
        /\ reqStatus' = [reqStatus EXCEPT ![r] = "draft"]
        /\ sampleStatus' = sampleStatus
    BY <1>2 DEF UpdateRequest, Rebuildable
  <2>2. \A s \in Samples :
          /\ s \in S => chosen'[s] \subseteq types
          /\ s \notin S /\ owner[s] # r => chosen'[s] = chosen[s]
          /\ s \notin S /\ owner[s] = r /\ S # {} => chosen'[s] = {}
          /\ s \notin S /\ owner[s] = r /\ S = {} =>
                IF T = Nil THEN chosen'[s] = chosen[s] ELSE chosen'[s] \subseteq types
    BY <1>2 DEF UpdateRequest, ResolveSelection, PruneSelection
  <2>3. \A s \in Samples : owner[s] = r => chosen[s] \subseteq reqTypes[r]
    BY DEF RequestKept, SelectionWithinRequest
  <2>4. SamplesOf(r) # {}
    BY <2>1 DEF RequestKept, SamplesBound
  <2>5. \E s \in Samples : owner'[s] = r
    BY <2>1, <2>4 DEF SamplesOf
  <2>6. \A s \in Samples :
          \/ owner[s] # r /\ owner'[s] = owner[s] /\ chosen'[s] = chosen[s]
          \/ owner[s] \in {r, Nil} /\ owner'[s] = Nil /\ chosen'[s] = {}
          \/ /\ owner[s] \in {r, Nil} /\ owner'[s] = r
             /\ chosen'[s] \subseteq reqTypes'[r]
    <3> SUFFICES ASSUME NEW s \in Samples
                 PROVE
          \/ owner[s] # r /\ owner'[s] = owner[s] /\ chosen'[s] = chosen[s]
          \/ owner[s] \in {r, Nil} /\ owner'[s] = Nil /\ chosen'[s] = {}
          \/ /\ owner[s] \in {r, Nil} /\ owner'[s] = r
             /\ chosen'[s] \subseteq reqTypes'[r]
      OBVIOUS
    <3>1. reqTypes'[r] = types
      BY <2>1
    <3>2. CASE s \in S
      BY <2>1, <2>2, <3>1, <3>2
    <3>3. CASE s \notin S /\ owner[s] # r
      BY <2>1, <2>2, <3>3
    <3>4. CASE s \notin S /\ owner[s] = r
      BY <2>1, <2>2, <2>3, <3>1, <3>4
    <3> QED
      BY <3>2, <3>3, <3>4
  <2> HIDE DEF types
  <2> QED
    BY <2>1, <2>5, <2>6, DraftKeeps
<1>3. ASSUME NEW r \in Requests,
             SubmitRequest(r) \/ ApproveRequest(r) \/ ReturnRequest(r) \/ RejectRequest(r)
      PROVE  RequestKept'
  BY <1>3, RequestActionKeeps
     DEF SubmitRequest, ApproveRequest, ReturnRequest, RejectRequest,
         RequestTransitions, RequestTarget, UnshippedStatuses
<1>4. ASSUME NEW r \in Requests, CancelRequest(r) \/ CloseRequest(r)
      PROVE  RequestKept'
  BY <1>4, RequestActionKeeps
     DEF CancelRequest, CloseRequest, RequestTransitions, RequestTarget,
         UnshippedStatuses
<1>5. ASSUME NEW r \in Requests, ShipRequest(r) PROVE RequestKept'
  <2>1. /\ reqStatus[r] = "approved"
        /\ reqStatus' = [reqStatus EXCEPT ![r] = "sample_shipped"]
        /\ \A s \in Samples : sampleStatus'[s] =
                IF owner[s] = r /\ sampleStatus[s] = "created"
                THEN "shipped" ELSE sampleStatus[s]
        /\ UNCHANGED <<reqTypes, owner, chosen>>
    BY <1>5 DEF ShipRequest, RequestTransitions, RequestTarget,
                SampleTransitions, SampleTarget
  <2> QED
    BY <2>1, MoveKeeps DEF UnshippedStatuses, Settled
<1>6. ASSUME NEW r \in Requests, DeleteDraft(r) PROVE RequestKept'
  <2>1. /\ reqStatus[r] = "draft"
        /\ reqStatus' = [reqStatus EXCEPT ![r] = "none"]
        /\ reqTypes' = [reqTypes EXCEPT ![r] = {}]
        /\ \A s \in Samples :
                /\ owner'[s] = IF owner[s] = r THEN Nil ELSE owner[s]
                /\ chosen'[s] = IF owner[s] = r THEN {} ELSE chosen[s]
        /\ sampleStatus' = sampleStatus
    BY <1>6 DEF DeleteDraft
  <2>2. \A s \in Samples :
          \/ owner[s] # r /\ owner'[s] = owner[s] /\ chosen'[s] = chosen[s]
          \/ owner[s] \in {r, Nil} /\ owner'[s] = Nil /\ chosen'[s] = {}
          \/ /\ owner[s] \in {r, Nil} /\ owner'[s] = r
             /\ chosen'[s] \subseteq reqTypes'[r]
    BY <2>1
  <2>3. \A s \in Samples : owner'[s] # r
    BY <2>1
  <2> QED
    BY <2>1, <2>2, <2>3, DraftKeeps
<1>7. ASSUME NEW s \in Samples, ReceiveSample(s) PROVE RequestKept'
  <2> DEFINE r  == owner[s]
             ss == [sampleStatus EXCEPT ![s] = "received"]
             st == CheckAllSamplesReceived(r, reqStatus[r], ss)
  <2>1. /\ r # Nil /\ sampleStatus[s] = "shipped" /\ sampleStatus' = ss
        /\ reqStatus' = [reqStatus EXCEPT ![r] = st]
        /\ UNCHANGED <<reqTypes, owner, chosen>>
    BY <1>7 DEF ReceiveSample, SampleTransitions, SampleTarget
  <2>2. st = reqStatus[r] \/ st = "in_progress"
    BY DEF CheckAllSamplesReceived
  <2>3. "received" \in SampleStatuses
    BY DEF SampleStatuses
  <2> HIDE DEF st
  <2> QED
    BY <2>1, <2>2, <2>3, CheckedKeeps
<1>8. ASSUME NEW s \in Samples, RejectReceivingSample(s) \/ ReportLostSample(s)
      PROVE  RequestKept'
  <2>1. PICK to \in {"receiving_exception", "lost"} :
            SampleAction(s, {"shipped"}, to)
    BY <1>8 DEF RejectReceivingSample, ReportLostSample, SampleTransitions,
                SampleTarget
  <2>2. reqStatus' = [reqStatus EXCEPT ![owner[s]] = reqStatus[owner[s]]]
    BY <2>1 DEF SampleAction
  <2>3. to \in SampleStatuses
    BY DEF SampleStatuses
  <2> QED
    BY <2>1, <2>2, <2>3, CheckedKeeps DEF SampleAction
<1>9. ASSUME NEW s \in Samples, VoidSample(s) \/ ReturnSample(s) PROVE RequestKept'
  <2>1. PICK to \in {"voided", "returned"} :
            \E from \in SUBSET {"receiving_exception", "processing_exception",
                                "lost"} : SettleSample(s, from, to)
    BY <1>9 DEF VoidSample, ReturnSample, SampleTransitions, SampleTarget
  <2> DEFINE r  == owner[s]
             ss == [sampleStatus EXCEPT ![s] = to]
             s1 == CheckAllSamplesReceived(r, reqStatus[r], ss)
             st == CheckRequestCompleted(r, s1, ss)
  <2>2. /\ r # Nil /\ sampleStatus' = ss
        /\ sampleStatus[s] \in {"receiving_exception", "processing_exception", "lost"}
        /\ reqStatus' = [reqStatus EXCEPT ![r] = st]
        /\ UNCHANGED <<reqTypes, owner, chosen>>
    BY <2>1 DEF SettleSample
  <2>3. \/ st = reqStatus[r] \/ st = "in_progress"
        \/ st = "completed" /\ \A x \in SamplesOf(r) : ss[x] \in Settled
    BY DEF CheckAllSamplesReceived, CheckRequestCompleted, AllIn,
           SettledStatuses, Settled
  <2>4. to \in SampleStatuses
    BY DEF SampleStatuses
  <2> HIDE DEF st
  <2> QED
    BY <2>2, <2>3, <2>4, CheckedKeeps
<1> QED
  BY <1>1, <1>2, <1>3, <1>4, <1>5, <1>6, <1>7, <1>8, <1>9 DEF CommissionNext

LEMMA OwnCommissionKeeps ==
    ASSUME TypeOK, RequestKept, OwnCommission PROVE RequestKept'
<1> USE NilAssumption DEF TypeOK, CommissionTypeOK
<1>1. ASSUME NEW r \in Requests, NEW T \in SUBSET ExpTypes,
             NEW S \in SUBSET Samples, WebCreateRequest(r, T, S)
      PROVE  RequestKept'
  <2>1. /\ reqStatus[r] = "none" /\ S # {} /\ \A s \in S : owner[s] = Nil
        /\ reqStatus' = [reqStatus EXCEPT ![r] = "draft"]
        /\ reqTypes' = [reqTypes EXCEPT ![r] = T]
        /\ owner' = [s \in Samples |-> IF s \in S THEN r ELSE owner[s]]
        /\ UNCHANGED <<sampleStatus, chosen>>
    BY <1>1 DEF WebCreateRequest
  <2>2. \A s \in Samples : owner[s] # r
    BY <2>1 DEF RequestKept, SamplesBound
  <2>3. \A s \in S : chosen[s] = {}
    BY <2>1 DEF RequestKept, FreeUnchosen
  <2>4. \A s \in Samples :
          \/ owner[s] # r /\ owner'[s] = owner[s] /\ chosen'[s] = chosen[s]
          \/ owner[s] \in {r, Nil} /\ owner'[s] = Nil /\ chosen'[s] = {}
          \/ /\ owner[s] \in {r, Nil} /\ owner'[s] = r
             /\ chosen'[s] \subseteq reqTypes'[r]
    BY <2>1, <2>2, <2>3
  <2>5. \E s \in Samples : owner'[s] = r
    BY <2>1
  <2> QED
    BY <2>1, <2>4, <2>5, DraftKeeps
<1>2. ASSUME NEW s \in Samples, WebDisposal(s) PROVE RequestKept'
  <2>1. PICK to \in {"voided", "returned"} :
            \E from \in SUBSET {"receiving_exception", "processing_exception",
                                "lost"} : SampleAction(s, from, to)
    BY <1>2 DEF WebDisposal, WebVoidSample, WebReturnSample, SampleTransitions,
                SampleTarget
  <2>2. reqStatus' = [reqStatus EXCEPT ![owner[s]] = reqStatus[owner[s]]]
    BY <2>1 DEF SampleAction
  <2>3. to \in SampleStatuses
    BY DEF SampleStatuses
  <2> QED
    BY <2>1, <2>2, <2>3, CheckedKeeps DEF SampleAction
<1> QED
  BY <1>1, <1>2 DEF OwnCommission

-----------------------------------------------------------------------------
\* WIPs and dispatches.

LEMMA OwnLabStep == ASSUME TypeOK, OwnLab PROVE LabStep
<1> USE DEF TypeOK
<1>1. ASSUME NEW w \in Wips, WebCompleteWip(w) PROVE LabStep
  BY <1>1, CascadeStep DEF WebCompleteWip, WebCompleteSamples
<1>2. ASSUME NEW w \in Wips, NEW d \in Dispatches, NEW e \in Equipments,
             WebCreateDispatch(w, d, e)
      PROVE  LabStep
  BY <1>2 DEF WebCreateDispatch, LabStep, CommissionTypeOK
<1>3. ASSUME NEW d \in Dispatches,
             WebStartDispatch(d) \/ WebRecordResult(d) \/ WebAbortDispatch(d)
      PROVE  LabStep
  BY <1>3, StutterLabStep DEF WebStartDispatch, WebRecordResult, WebAbortDispatch
<1> QED
  BY <1>1, <1>2, <1>3 DEF OwnLab

\* A dispatch row keeps its WIP row: no step removes either.
LEMMA BoundKept ==
    ASSUME TypeOK, DispatchesBound,
           \A w \in Wips : wipStatus[w] # "none" => wipStatus'[w] # "none",
           \A d \in Dispatches :
                \/ dWip'[d] = dWip[d] /\ (dStatus'[d] = "none" <=> dStatus[d] = "none")
                \/ /\ dStatus'[d] # "none"
                   /\ dWip'[d] \in Wips /\ wipStatus[dWip'[d]] # "none"
    PROVE  DispatchesBound'
BY DEF DispatchesBound

LEMMA WipBound == ASSUME TypeOK, DispatchesBound, WipNext PROVE DispatchesBound'
<1> USE DEF TypeOK, WipTypeOK
<1>1. ASSUME NEW w \in Wips, NEW S \in SUBSET Samples,
             \/ \E t \in ExpTypes : CreateWip(w, t, S)
             \/ AddSamplesToWip(w, S)
      PROVE  DispatchesBound'
  <2>1. /\ UNCHANGED <<dStatus, dWip>>
        /\ wipStatus' \in {wipStatus, [wipStatus EXCEPT ![w] = "created"]}
    BY <1>1 DEF CreateWip, AddSamplesToWip, dispatchVars
  <2> QED
    BY <2>1, BoundKept
<1>2. ASSUME NEW w \in Wips, NEW d \in Dispatches, NEW e \in Equipments,
             CreateDispatch(w, d, e)
      PROVE  DispatchesBound'
  <2>1. /\ wipStatus[w] # "none"
        /\ dStatus' = [dStatus EXCEPT ![d] = "pending"]
        /\ dWip' = [dWip EXCEPT ![d] = w]
        /\ \A x \in Wips : wipStatus[x] # "none" => wipStatus'[x] # "none"
    BY <1>2 DEF CreateDispatch
  <2> QED
    BY <2>1, BoundKept
<1>3. ASSUME NEW w \in Wips, CompleteWip(w) \/ AbortWip(w) PROVE DispatchesBound'
  <2>1. /\ UNCHANGED <<dStatus, dWip>>
        /\ \E to \in {"completed", "aborted"} :
                wipStatus' = [wipStatus EXCEPT ![w] = to]
    BY <1>3 DEF CompleteWip, AbortWip, WipTarget, dispatchVars
  <2> QED
    BY <2>1, BoundKept
<1>4. ASSUME NEW d \in Dispatches,
             \/ StartDispatch(d) \/ UnloadDispatch(d) \/ RecordResult(d)
             \/ CompleteDispatchRun(d) \/ ReportException(d) \/ AbortDispatch(d)
             \/ TimerElapses(d)
      PROVE  DispatchesBound'
  <2>1. /\ dWip' = dWip
        /\ \/ dStatus' = dStatus
           \/ /\ dStatus[d] # "none"
              /\ \E to \in DispatchStatuses : dStatus' = [dStatus EXCEPT ![d] = to]
    BY <1>4, WipTargets
       DEF StartDispatch, UnloadDispatch, RecordResult, CompleteDispatchRun,
           ReportException, AbortDispatch, TimerElapses, MoveDispatch,
           DispatchTransitions
  <2>2. \A x \in Wips : wipStatus[x] # "none" => wipStatus'[x] # "none"
    BY <1>4 DEF StartDispatch, UnloadDispatch, RecordResult, CompleteDispatchRun,
           ReportException, AbortDispatch, TimerElapses, MaybeAutoCompleteWip,
           WipTarget, wipVars
  <2> QED
    BY <2>1, <2>2, BoundKept DEF DispatchStatuses
<1>5. ASSUME NEW d \in Dispatches, NEW n \in Dispatches, Redispatch(d, n)
      PROVE  DispatchesBound'
  <2>1. /\ dStatus[d] = "execution_exception" /\ dStatus[n] = "none"
        /\ dStatus' = [dStatus EXCEPT ![d] = "pending_redispatch", ![n] = "pending"]
        /\ dWip' = [dWip EXCEPT ![n] = dWip[d]]
        /\ wipStatus' = wipStatus
    BY <1>5 DEF Redispatch, DispatchTransitions, DispatchTarget, wipVars
  <2>2. dWip[d] \in Wips /\ wipStatus[dWip[d]] # "none"
    BY <2>1 DEF DispatchesBound
  <2> QED
    BY <2>1, <2>2, BoundKept
<1> QED
  BY <1>1, <1>2, <1>3, <1>4, <1>5
     DEF WipNext, SubmitEquipmentResult, FinalizeDueDispatch

LEMMA OwnLabBound == ASSUME TypeOK, DispatchesBound, OwnLab PROVE DispatchesBound'
<1> USE DEF TypeOK, WipTypeOK
<1>1. ASSUME NEW w \in Wips, WebCompleteWip(w) PROVE DispatchesBound'
  <2>1. /\ UNCHANGED <<dStatus, dWip>>
        /\ wipStatus' = [wipStatus EXCEPT ![w] = "completed"]
    BY <1>1 DEF WebCompleteWip, WipTarget, dispatchVars
  <2> QED
    BY <2>1, BoundKept
<1>2. ASSUME NEW w \in Wips, NEW d \in Dispatches, NEW e \in Equipments,
             WebCreateDispatch(w, d, e)
      PROVE  DispatchesBound'
  <2>1. /\ wipStatus[w] # "none"
        /\ dStatus' = [dStatus EXCEPT ![d] = "pending"]
        /\ dWip' = [dWip EXCEPT ![d] = w]
        /\ \A x \in Wips : wipStatus[x] # "none" => wipStatus'[x] # "none"
    BY <1>2 DEF WebCreateDispatch, WebOpenWip
  <2> QED
    BY <2>1, BoundKept
<1>3. ASSUME NEW d \in Dispatches,
             WebStartDispatch(d) \/ WebRecordResult(d) \/ WebAbortDispatch(d)
      PROVE  DispatchesBound'
  <2>1. /\ UNCHANGED <<dWip, wipStatus>>
        /\ dStatus[d] # "none"
        /\ \E to \in DispatchStatuses : dStatus' = [dStatus EXCEPT ![d] = to]
    BY <1>3, WipTargets
       DEF WebStartDispatch, WebRecordResult, WebAbortDispatch, MoveDispatch,
           DispatchTransitions, wipVars
  <2> QED
    BY <2>1, BoundKept DEF DispatchStatuses
<1> QED
  BY <1>1, <1>2, <1>3 DEF OwnLab

\* The laboratory's rows through the pages' own handlers of WIPs and
\* dispatches.  A WIP that completes over a run that failed completes no wafer
\* that a run has not measured: there is nothing left for its cascade.
LEMMA OwnLabKeepsLabInv == ASSUME KeptInv, OwnLab PROVE LabInv'
<1>1. LabStep
  BY OwnLabStep DEF KeptInv
<1>2. \A d \in Dispatches : d \in results <=> dStatus[d] = "completed"
  BY DEF KeptInv, LabInv, VerdictTraceable
<1>3. /\ dStatus \in [Dispatches -> DispatchStatuses \cup {"none"}]
      /\ dWip \in [Dispatches -> Wips \cup {Nil}]
  BY DEF KeptInv, TypeOK, WipTypeOK
<1>4. ASSUME NEW w \in Wips, WebCompleteWip(w) PROVE LabInv'
  <2>1. UNCHANGED <<verdictVars, wipType, wipSamples, sesStatus, dStatus, dWip,
                    results>>
    BY <1>4 DEF WebCompleteWip, dispatchVars
  <2>2. sampleStatus' = sampleStatus
    BY <1>4, CascadeIdle DEF WebCompleteWip, WebCompleteSamples
  <2> QED
    BY <1>1, <1>2, <2>1, <2>2, QuietStep
<1>5. ASSUME NEW w \in Wips, NEW d \in Dispatches, NEW e \in Equipments,
             WebCreateDispatch(w, d, e)
      PROVE  LabInv'
  <2>1. /\ UNCHANGED <<verdictVars, wipType, wipSamples, sampleStatus, results>>
        /\ sesStatus' = DispatchedSes(w)
        /\ dStatus[d] = "none" /\ dStatus' = [dStatus EXCEPT ![d] = "pending"]
        /\ dWip' = [dWip EXCEPT ![d] = w]
    BY <1>5 DEF WebCreateDispatch, WebDispatchedSes
  <2>2. \A s \in Samples, t \in ExpTypes :
            \/ sesStatus'[s][t] = sesStatus[s][t]
            \/ sesStatus[s][t] = "pending" /\ sesStatus'[s][t] = "in_progress"
    BY <2>1 DEF DispatchedSes
  <2>3. \A x \in Dispatches : dStatus[x] \in {"unloaded", "completed"} =>
            dStatus'[x] \in {"unloaded", "completed"} /\ dWip'[x] = dWip[x]
    BY <1>3, <2>1
  <2>4. \A x \in Dispatches : x \in results' <=> dStatus'[x] = "completed"
    BY <1>2, <1>3, <2>1
  <2> QED
    BY <1>1, <2>1, <2>2, <2>3, <2>4, QuietStep
<1>6. ASSUME NEW d \in Dispatches,
             WebStartDispatch(d) \/ WebRecordResult(d) \/ WebAbortDispatch(d)
      PROVE  LabInv'
  <2>1. UNCHANGED <<verdictVars, wipType, wipSamples, sesStatus, sampleStatus, dWip>>
    BY <1>6 DEF WebStartDispatch, WebRecordResult, WebAbortDispatch,
                MoveDispatch, commissionVars, wipVars
  <2>2. \/ /\ dStatus' = [dStatus EXCEPT ![d] = "completed"]
           /\ results' = results \cup {d}
        \/ /\ dStatus[d] \in {"pending", "dispatched", "execution_exception"}
           /\ \E to \in {"running", "aborted"} : dStatus' = [dStatus EXCEPT ![d] = to]
           /\ results' = results
    BY <1>6 DEF WebStartDispatch, WebRecordResult, WebAbortDispatch,
                MoveDispatch, DispatchTransitions, DispatchTarget
  <2>3. \A x \in Dispatches :
            /\ dStatus[x] \in {"unloaded", "completed"} =>
                dStatus'[x] \in {"unloaded", "completed"}
            /\ x \in results' <=> dStatus'[x] = "completed"
    BY <1>2, <1>3, <2>2
  <2> QED
    BY <1>1, <2>1, <2>3, QuietStep
<1> QED
  BY <1>4, <1>5, <1>6 DEF OwnLab

LEMMA OwnCommissionKeepsLabInv ==
    ASSUME KeptInv, OwnCommission PROVE LabInv'
<1> USE NilAssumption DEF KeptInv, TypeOK, CommissionTypeOK
<1>0. TypeOK'
  BY OwnTypes
<1>1. ASSUME NEW r \in Requests, NEW T \in SUBSET ExpTypes,
             NEW S \in SUBSET Samples, WebCreateRequest(r, T, S)
      PROVE  PlansLocked /\ CommissionStep
  <2>1. PlansLocked
    BY <1>1 DEF WebCreateRequest, PlansLocked, SamplesOf
  <2>2. CommissionStep
    BY <1>1 DEF WebCreateRequest, CommissionStep, LabPhaseStep, LabStatuses,
                LabOrCancelled
  <2> QED
    BY <2>1, <2>2
<1>2. ASSUME NEW s \in Samples, WebDisposal(s) PROVE PlansLocked /\ CommissionStep
  <2>1. PlansLocked
    BY <1>2 DEF WebDisposal, WebVoidSample, WebReturnSample, SampleAction,
                PlansLocked, SamplesOf
  <2>2. CommissionStep
    BY <1>2 DEF WebDisposal, WebVoidSample, WebReturnSample, SampleAction,
                SampleTransitions, SampleTarget, CommissionStep, LabPhaseStep,
                LabStatuses
  <2> QED
    BY <2>1, <2>2
<1>3. PlansLocked /\ CommissionStep /\ UNCHANGED <<wipVars, dispatchVars, verdictVars>>
  BY <1>1, <1>2 DEF OwnCommission
<1> HIDE DEF KeptInv, TypeOK, CommissionTypeOK
<1> QED
  BY <1>0, <1>3, CommissionKeepsLabInv

-----------------------------------------------------------------------------
\* Both channels together.

LEMMA ChannelInit == Init => ChannelInv
<1> SUFFICES ASSUME Init PROVE ChannelInv
  OBVIOUS
<1>1. KeptInv
  BY InitAll, AllIsKept
<1>2. FreeUnchosen
  BY DEF Init, CommissionInit, FreeUnchosen
<1> QED
  BY <1>1, <1>2 DEF ChannelInv

LEMMA ChannelNext == ASSUME ChannelInv, [Next \/ WebNext]_vars PROVE ChannelInv'
<1>0. TypeOK /\ DispatchesBound /\ RequestKept /\ LabInv /\ KeptInv
  BY DEF ChannelInv, KeptInv, RequestKept
<1>1. TypeOK'
  BY <1>0, ChannelTypes
<1>2. CASE UNCHANGED <<commissionVars, wipVars, dispatchVars, verdictVars>>
  <2>1. LabStep
    BY <1>0, <1>2, StutterLabStep
  <2>2. RequestKept'
    BY <1>0, <2>1, LabStepKeeps
  <2>3. DispatchesBound'
    BY <1>0, <1>2 DEF DispatchesBound, wipVars, dispatchVars
  <2>4. PlansLocked /\ CommissionStep
    BY <1>2 DEF PlansLocked, SamplesOf, CommissionStep, LabPhaseStep, commissionVars
  <2>5. LabInv'
    BY <1>0, <1>1, <1>2, <2>4, CommissionKeepsLabInv
  <2> QED
    BY <1>1, <2>2, <2>3, <2>5 DEF ChannelInv, KeptInv, RequestKept
<1>3. CASE Next
  <2>1. LabInv'
    BY <1>0, <1>3, NextLab
  <2>2. CASE WipNext
    <3>1. RequestKept' /\ DispatchesBound'
      BY <1>0, <2>2, WipIsLabStep, LabStepKeeps, WipBound
    <3> QED
      BY <1>1, <2>1, <3>1 DEF ChannelInv, KeptInv, RequestKept
  <2>3. CASE CommissionNext /\ UNCHANGED <<catalogVars, wipVars, dispatchVars,
                                           verdictVars>>
    <3>1. RequestKept'
      BY <1>0, <2>3, CommissionKeeps
    <3>2. DispatchesBound'
      BY <1>0, <2>3 DEF DispatchesBound, wipVars, dispatchVars
    <3> QED
      BY <1>1, <2>1, <3>1, <3>2 DEF ChannelInv, KeptInv, RequestKept
  <2> QED
    BY <1>2, <1>3, <2>2, <2>3 DEF Next
<1>4. CASE OwnCommission
  <2>1. RequestKept' /\ LabInv'
    BY <1>0, <1>4, OwnCommissionKeeps, OwnCommissionKeepsLabInv
  <2>2. DispatchesBound'
    BY <1>0, <1>4 DEF OwnCommission, DispatchesBound, wipVars, dispatchVars
  <2> QED
    BY <1>1, <2>1, <2>2 DEF ChannelInv, KeptInv, RequestKept
<1>5. CASE OwnLab
  <2>1. RequestKept' /\ DispatchesBound' /\ LabInv'
    BY <1>0, <1>5, OwnLabStep, LabStepKeeps, OwnLabBound, OwnLabKeepsLabInv
  <2> QED
    BY <1>1, <2>1 DEF ChannelInv, KeptInv, RequestKept
<1>6. CASE WebCatalogPages
  BY <1>2, <1>6 DEF WebCatalogPages
<1>7. CASE UNCHANGED vars
  BY <1>2, <1>7 DEF vars
<1> QED
  BY <1>3, <1>4, <1>5, <1>6, <1>7, ChannelSteps

LEMMA ChannelParts ==
    ChannelInv => /\ ChannelInductive
                  /\ CompletedWaferMeasured /\ WaferCanBeWorked /\ VerdictTraceable
BY OpenRows DEF ChannelInv, KeptInv, LabInv, ChannelInductive

LEMMA ChannelSafety ==
    ChannelsSpec => [](/\ ChannelInductive
                       /\ CompletedWaferMeasured /\ WaferCanBeWorked
                       /\ VerdictTraceable)
<1>1. ChannelInv /\ [Next \/ WebNext]_vars => ChannelInv'
  BY ChannelNext
<1> QED
  BY <1>1, ChannelInit, ChannelParts, PTL DEF ChannelsSpec

\* A completed wafer has had every experiment that was selected for it, although
\* the legacy pages start runs beside runs, complete a WIP over a run that
\* failed and record results without a look at their WIP.
THEOREM MeasuredOnBothChannels == ChannelsSpec => []CompletedWaferMeasured
BY ChannelSafety, PTL

\* A wafer that the laboratory holds has an experiment left to do, although the
\* pages void and return its siblings without checking their request.
THEOREM WorkOnBothChannels == ChannelsSpec => []WaferCanBeWorked
BY ChannelSafety, PTL

\* Every verdict can be traced to the run of a batch that held the wafer,
\* although two runs of the batch may be under way at once, one started on each
\* channel, and be unloaded in either order.
THEOREM TraceableOnBothChannels == ChannelsSpec => []VerdictTraceable
BY ChannelSafety, PTL

\* With both channels in use, all of Lims' safety invariants hold but the three
\* that the pages' missing guards break: one run at a time, no WIP stranded, no
\* request stranded.
THEOREM BothChannelsInductive == ChannelsSpec => []ChannelInductive
BY ChannelSafety, PTL

-----------------------------------------------------------------------------
\* What no step of either channel undoes.

LEMMA OwnStepsLock == ASSUME TypeOK, OwnCommission \/ OwnLab PROVE PlansLocked
<1> USE DEF TypeOK, CommissionTypeOK
<1>1. CASE OwnLab
  BY <1>1, OwnLabStep DEF LabStep, PlansLocked, SamplesOf
<1>2. CASE OwnCommission
  <2>1. ASSUME NEW r \in Requests, NEW T \in SUBSET ExpTypes,
               NEW S \in SUBSET Samples, WebCreateRequest(r, T, S)
        PROVE  PlansLocked
    BY <2>1, NilAssumption DEF WebCreateRequest, PlansLocked, SamplesOf
  <2>2. ASSUME NEW s \in Samples, WebDisposal(s) PROVE PlansLocked
    BY <2>2 DEF WebDisposal, WebVoidSample, WebReturnSample, SampleAction,
                PlansLocked, SamplesOf
  <2> QED
    BY <1>2, <2>1, <2>2 DEF OwnCommission
<1> QED
  BY <1>1, <1>2

LEMMA OwnStepsMoveForward ==
    ASSUME TypeOK, OwnCommission \/ OwnLab, NEW s \in Samples, NEW t \in ExpTypes
    PROVE  \/ sesStatus'[s][t] = sesStatus[s][t]
           \/ sesStatus[s][t] = "pending" /\ sesStatus'[s][t] = "in_progress"
<1>1. \/ UNCHANGED sesStatus
      \/ \E w \in Wips : sesStatus' = DispatchedSes(w)
  BY DEF OwnCommission, WebCreateRequest, WebDisposal, WebVoidSample,
         WebReturnSample, SampleAction, OwnLab, WebCompleteWip, WebCreateDispatch,
         WebDispatchedSes, WebStartDispatch, WebRecordResult, WebAbortDispatch,
         commissionVars
<1> QED
  BY <1>1 DEF DispatchedSes

LEMMA OwnStepsFinish ==
    ASSUME TypeOK, OwnCommission \/ OwnLab
    PROVE  /\ \A s \in Samples : sampleStatus[s] \in Settled =>
                sampleStatus'[s] = sampleStatus[s]
           /\ \A r \in Requests :
                /\ reqStatus[r] \in {"closed", "rejected", "cancelled"} =>
                    reqStatus'[r] = reqStatus[r]
                /\ reqStatus[r] = "completed" =>
                    reqStatus'[r] \in {"completed", "closed"}
           /\ \A w \in Wips : wipStatus[w] \in {"completed", "aborted"} =>
                wipStatus'[w] = wipStatus[w]
           /\ \A d \in Dispatches : dStatus[d] \in TerminalDispatchStatuses =>
                dStatus'[d] = dStatus[d]
<1> USE DEF TypeOK, CommissionTypeOK, WipTypeOK, Settled
<1>1. CASE OwnCommission
  <2>1. UNCHANGED <<wipStatus, dStatus>>
    BY <1>1 DEF OwnCommission, wipVars, dispatchVars
  <2>2. ASSUME NEW r \in Requests, NEW T \in SUBSET ExpTypes,
               NEW S \in SUBSET Samples, WebCreateRequest(r, T, S)
        PROVE  /\ sampleStatus' = sampleStatus /\ reqStatus[r] = "none"
               /\ \A x \in Requests : x # r => reqStatus'[x] = reqStatus[x]
    BY <2>2 DEF WebCreateRequest
  <2>3. ASSUME NEW s \in Samples, WebDisposal(s)
        PROVE  /\ reqStatus' = reqStatus /\ sampleStatus[s] \notin Settled
               /\ \A x \in Samples : x # s => sampleStatus'[x] = sampleStatus[x]
    BY <2>3 DEF WebDisposal, WebVoidSample, WebReturnSample, SampleAction,
                SampleTransitions
  <2> QED
    BY <1>1, <2>1, <2>2, <2>3 DEF OwnCommission
<1>2. CASE OwnLab
  <2>1. /\ \A s \in Samples : sampleStatus[s] \in Settled =>
                sampleStatus'[s] = sampleStatus[s]
        /\ \A r \in Requests :
            /\ reqStatus[r] \in {"closed", "rejected", "cancelled"} =>
                reqStatus'[r] = reqStatus[r]
            /\ reqStatus[r] = "completed" =>
                reqStatus'[r] \in {"completed", "closed"}
    BY <1>2, OwnLabStep DEF LabStep
  <2>2. \A w \in Wips : wipStatus[w] \in {"completed", "aborted"} =>
            wipStatus'[w] = wipStatus[w]
    BY <1>2 DEF OwnLab, WebCompleteWip, WebCreateDispatch, WebOpenWip,
        WebStartDispatch, WebRecordResult, WebAbortDispatch, WipTransitions, wipVars
  <2>3. \A d \in Dispatches : dStatus[d] \in TerminalDispatchStatuses =>
            dStatus'[d] = dStatus[d]
    BY <1>2 DEF OwnLab, WebCompleteWip, WebCreateDispatch, WebStartDispatch,
        WebRecordResult, WebAbortDispatch, MoveDispatch, DispatchTransitions,
        TerminalDispatchStatuses, dispatchVars
  <2> QED
    BY <2>1, <2>2, <2>3
<1> QED
  BY <1>1, <1>2

LEMMA ChannelStepsUndoNothing ==
    ASSUME TypeOK, [Next \/ WebNext]_vars
    PROVE  /\ PlansLocked
           /\ \A s \in Samples, t \in ExpTypes :
                /\ sesStatus[s][t] # "none" => sesStatus'[s][t] # "none"
                /\ sesStatus[s][t] = "in_progress" => sesStatus'[s][t] # "pending"
                /\ sesStatus[s][t] = "completed" => sesStatus'[s][t] = "completed"
           /\ \A s \in Samples : sampleStatus[s] \in Settled =>
                sampleStatus'[s] = sampleStatus[s]
           /\ \A r \in Requests :
                /\ reqStatus[r] \in {"closed", "rejected", "cancelled"} =>
                    reqStatus'[r] = reqStatus[r]
                /\ reqStatus[r] = "completed" =>
                    reqStatus'[r] \in {"completed", "closed"}
           /\ \A w \in Wips : wipStatus[w] \in {"completed", "aborted"} =>
                wipStatus'[w] = wipStatus[w]
           /\ \A d \in Dispatches : dStatus[d] \in TerminalDispatchStatuses =>
                dStatus'[d] = dStatus[d]
<1>1. CASE Next \/ UNCHANGED vars
  BY <1>1, SelectionLocked, RowsMoveForward, FinishedRequestsStay, FinishedWorkStays
<1>2. CASE OwnCommission \/ OwnLab
  BY <1>2, OwnStepsLock, OwnStepsMoveForward, OwnStepsFinish
<1>3. CASE WebCatalogPages
  BY <1>3 DEF WebCatalogPages, PlansLocked, SamplesOf, commissionVars, wipVars,
              dispatchVars
<1> QED
  BY <1>1, <1>2, <1>3, ChannelSteps

\* The legacy pages undo nothing either: a request that has left draft keeps
\* its wafers and their selections, progress only moves forward, and what is
\* finished stays so, although the pages ask for less before they write.
THEOREM ChannelsUndoNothing ==
    ChannelsSpec => LockedAfterDraft /\ ProgressForward /\ FinishedStays
<1>1. TypeOK /\ [Next \/ WebNext]_vars => TypeOK'
  BY ChannelTypes
<1>2. TypeOK /\ [Next \/ WebNext]_vars =>
        [\A r \in Requests : reqStatus[r] \notin {"none", "draft"} =>
            /\ reqTypes'[r] = reqTypes[r]
            /\ SamplesOf(r)' = SamplesOf(r)
            /\ \A s \in SamplesOf(r) : chosen'[s] = chosen[s]]_vars
  BY ChannelStepsUndoNothing DEF PlansLocked
<1>3. TypeOK /\ [Next \/ WebNext]_vars =>
        [\A s \in Samples, t \in ExpTypes :
            /\ sesStatus[s][t] # "none" => sesStatus'[s][t] # "none"
            /\ sesStatus[s][t] = "in_progress" => sesStatus'[s][t] # "pending"
            /\ sesStatus[s][t] = "completed" => sesStatus'[s][t] = "completed"]_vars
  BY ChannelStepsUndoNothing
<1>4. TypeOK /\ [Next \/ WebNext]_vars =>
        [/\ \A s \in Samples : sampleStatus[s] \in SettledStatuses =>
                sampleStatus'[s] = sampleStatus[s]
         /\ \A r \in Requests :
                /\ reqStatus[r] \in {"closed", "rejected", "cancelled"} =>
                    reqStatus'[r] = reqStatus[r]
                /\ reqStatus[r] = "completed" =>
                    reqStatus'[r] \in {"completed", "closed"}
         /\ \A w \in Wips : wipStatus[w] \in {"completed", "aborted"} =>
                wipStatus'[w] = wipStatus[w]
         /\ \A d \in Dispatches : dStatus[d] \in TerminalDispatchStatuses =>
                dStatus'[d] = dStatus[d]]_vars
  BY ChannelStepsUndoNothing DEF Settled, SettledStatuses
<1> QED
  BY <1>1, <1>2, <1>3, <1>4, InitTypeOK, PTL
     DEF ChannelsSpec, LockedAfterDraft, ProgressForward, FinishedStays

-----------------------------------------------------------------------------
\* The form of a machine.

Parts == {"fields", "caps"}

MachineRecords == [fields : (EquipmentStatuses \cup {"none"}) \X Nat,
                   caps   : SUBSET ExpTypes]

CallLists == {<<>>, <<"fields">>, <<"fields", "caps">>, <<"caps">>}

FormRecords ==
    [kind : {"none", "edit", "machine", "recipe", "recipes"},
     on : Equipments \cup {Nil}, listed : SUBSET ExpTypes,
     was : MachineRecords, typed : MachineRecords,
     calls : CallLists, saved : BOOLEAN, unsure : SUBSET Parts]

FormTypeOK == form \in FormRecords

Stored(p) == Machine(form.on)[p]

\* While the form of a machine is open, the capabilities are as they were
\* listed (nobody is unsure of them, and this form writes them last), those it
\* does not send are as they were listed, and once the fields have been sent
\* they are as they were typed.
OpenFormInv ==
    form.kind = "edit" /\ ~form.saved =>
        /\ "caps" \notin form.unsure => Stored("caps") = form.was.caps
        /\ form.calls = <<"fields">> => form.typed.caps = form.was.caps
        /\ form.calls = <<"caps">> /\ "fields" \notin form.unsure =>
                Stored("fields") = form.typed.fields

FormInv ==
    /\ TypeOK
    /\ FormTypeOK
    /\ form.kind = "edit" => form.on \in Equipments
    /\ form.kind # "edit" => form.calls = <<>> /\ ~form.saved
    /\ form.saved => form.calls = <<>>
    /\ OpenFormInv
    /\ SavedIsStored

LEMMA ListedMachine ==
    ASSUME TypeOK, NEW e \in Equipments
    PROVE  Machine(e) \in MachineRecords
BY DEF Machine, MachineRecords, TypeOK, CatalogTypeOK

LEMMA NoFormTyped ==
    /\ NoMachine \in MachineRecords
    /\ NoForm \in FormRecords
<1>1. NoMachine \in MachineRecords
  BY DEF NoMachine, MachineRecords
<1> QED
  BY <1>1 DEF NoForm, FormRecords, CallLists, Parts

\* The calls that are made write a part as it was typed, and no other part.
LEMMA SaveWrites ==
    ASSUME FormInv, form.calls # <<>>, SaveCall, NEW e, e = form.on
    PROVE  /\ TypeOK'
           /\ e \in Equipments
           /\ \/ /\ Head(form.calls) = "fields"
                 /\ Machine(e)'.fields = form.typed.fields
                 /\ Machine(e)'.caps = Machine(e).caps
              \/ /\ Head(form.calls) = "caps"
                 /\ Machine(e)'.caps = form.typed.caps
                 /\ Machine(e)'.fields = Machine(e).fields
<1> USE DEF FormInv
<1>1. e \in Equipments
  BY DEF FormTypeOK, FormRecords
<1>2. /\ form.typed \in MachineRecords
      /\ form.typed.fields = <<form.typed.fields[1], form.typed.fields[2]>>
      /\ form.typed.fields[1] \in EquipmentStatuses \cup {"none"}
      /\ form.typed.fields[2] \in Nat
      /\ form.typed.caps \in SUBSET ExpTypes
  BY DEF FormTypeOK, FormRecords, MachineRecords
<1>3. ASSUME CatalogTypeOK', UNCHANGED <<commissionVars, wipVars, dispatchVars,
                                         verdictVars>>
      PROVE  TypeOK'
  BY <1>3 DEF TypeOK, CommissionTypeOK, WipTypeOK, commissionVars, wipVars,
              dispatchVars, verdictVars
<1>4. CASE /\ Head(form.calls) = "fields"
           /\ UpdateEquipment(form.on, form.typed.fields[1], form.typed.fields[2])
  <2>1. /\ equipStatus' = [equipStatus EXCEPT ![e] = form.typed.fields[1]]
        /\ equipCapacity' = [equipCapacity EXCEPT ![e] = form.typed.fields[2]]
        /\ UNCHANGED <<typeStatus, recipeTypes, capable>>
    BY <1>4 DEF UpdateEquipment
  <2>2. CatalogTypeOK'
    BY <1>1, <1>2, <2>1 DEF TypeOK, CatalogTypeOK
  <2>3. Machine(e)'.fields = form.typed.fields /\ Machine(e)'.caps = Machine(e).caps
    BY <1>1, <1>2, <2>1 DEF Machine, TypeOK, CatalogTypeOK
  <2> QED
    BY <1>1, <1>3, <1>4, <2>2, <2>3 DEF SaveCall
<1>5. CASE /\ Head(form.calls) = "caps"
           /\ SetEquipmentCapabilities(form.on, form.typed.caps)
  <2>1. /\ capable' = [capable EXCEPT ![e] = form.typed.caps]
        /\ UNCHANGED <<typeStatus, recipeTypes, equipStatus, equipCapacity>>
    BY <1>5 DEF SetEquipmentCapabilities
  <2>2. CatalogTypeOK'
    BY <1>1, <1>2, <2>1 DEF TypeOK, CatalogTypeOK
  <2>3. Machine(e)'.caps = form.typed.caps /\ Machine(e)'.fields = Machine(e).fields
    BY <1>1, <1>2, <2>1 DEF Machine, TypeOK, CatalogTypeOK
  <2> QED
    BY <1>1, <1>3, <1>5, <2>2, <2>3 DEF SaveCall
<1> QED
  BY <1>4, <1>5 DEF SaveCall

LEMMA OtherForm ==
    ASSUME TypeOK', form' \in FormRecords, form'.kind # "edit",
           form'.calls = <<>>, ~form'.saved
    PROVE  FormInv'
BY DEF FormInv, FormTypeOK, FormRecords, OpenFormInv, SavedIsStored

\* What there is to show of the form of a machine.
LEMMA EditForm ==
    ASSUME TypeOK', form' \in FormRecords, form'.kind = "edit",
           NEW e \in Equipments, form'.on = e,
           form'.saved => form'.calls = <<>>,
           ~form'.saved =>
                /\ "caps" \notin form'.unsure => Machine(e)'.caps = form'.was.caps
                /\ form'.calls = <<"fields">> => form'.typed.caps = form'.was.caps
                /\ form'.calls = <<"caps">> /\ "fields" \notin form'.unsure =>
                        Machine(e)'.fields = form'.typed.fields,
           form'.saved =>
                /\ "caps" \notin form'.unsure => Machine(e)'.caps = form'.typed.caps
                /\ "fields" \notin form'.unsure =>
                        Machine(e)'.fields = form'.typed.fields
    PROVE  FormInv'
<1>1. /\ Stored("caps")' = Machine(e)'.caps
      /\ Stored("fields")' = Machine(e)'.fields
  BY DEF Stored, Machine
<1>2. OpenFormInv'
  BY <1>1 DEF OpenFormInv
<1>3. SavedIsStored'
  BY <1>1 DEF SavedIsStored, Stored
<1> QED
  BY <1>2, <1>3 DEF FormInv, FormTypeOK

\* What the invariant says of an open form, by the parts.
LEMMA EditFacts ==
    ASSUME FormInv, form.kind = "edit", NEW e, form.on = e
    PROVE  /\ e \in Equipments
           /\ form.saved => form.calls = <<>>
           /\ ~form.saved =>
                /\ "caps" \notin form.unsure => Machine(e).caps = form.was.caps
                /\ form.calls = <<"fields">> => form.typed.caps = form.was.caps
                /\ form.calls = <<"caps">> /\ "fields" \notin form.unsure =>
                        Machine(e).fields = form.typed.fields
           /\ form.saved =>
                /\ "caps" \notin form.unsure => Machine(e).caps = form.typed.caps
                /\ "fields" \notin form.unsure => Machine(e).fields = form.typed.fields
<1>1. /\ Machine(e)["caps"] = Machine(e).caps
      /\ Machine(e)["fields"] = Machine(e).fields
  BY DEF Machine
<1> QED
  BY <1>1 DEF FormInv, OpenFormInv, SavedIsStored, Stored

LEMMA FormUntouched ==
    ASSUME FormInv, TypeOK', form' = form, UNCHANGED catalogVars
    PROVE  FormInv'
BY DEF FormInv, FormTypeOK, OpenFormInv, SavedIsStored, Stored, Machine, catalogVars

LEMMA TypedMachine ==
    ASSUME FormTypeOK, NEW m \in Typed(form)
    PROVE  m \in MachineRecords
<1>1. PICK st \in EquipmentStatuses,
           n \in (CapacityInputs \cup {form.was.fields[2]}) \ {0},
           T \in SUBSET form.listed :
        m = [fields |-> <<st, n>>, caps |-> (form.was.caps \ form.listed) \cup T]
  BY DEF Typed
<1>2. n \in Nat /\ form.was.caps \subseteq ExpTypes /\ T \subseteq ExpTypes
  BY CatalogAssumption DEF FormTypeOK, FormRecords, MachineRecords
<1> QED
  BY <1>1, <1>2 DEF MachineRecords

\* The list of calls, its head and its tail.
LEMMA Calls ==
    ASSUME NEW c \in CallLists, c # <<>>
    PROVE  \/ c = <<"fields">> /\ Head(c) = "fields" /\ Len(c) = 1
           \/ c = <<"caps">> /\ Head(c) = "caps" /\ Len(c) = 1
           \/ /\ c = <<"fields", "caps">> /\ Head(c) = "fields" /\ Len(c) = 2
              /\ Tail(c) = <<"caps">>
<1>1. \/ c = <<"fields">> \/ c = <<"caps">> \/ c = <<"fields", "caps">>
  BY DEF CallLists
<1>2. c = <<"fields">> => Head(c) = "fields" /\ Len(c) = 1
  OBVIOUS
<1>3. c = <<"caps">> => Head(c) = "caps" /\ Len(c) = 1
  OBVIOUS
<1>4. c = <<"fields", "caps">> => Head(c) = "fields" /\ Len(c) = 2
  OBVIOUS
<1>5. ASSUME c = <<"fields", "caps">> PROVE Tail(c) = <<"caps">>
  BY <1>5
<1> QED
  BY <1>1, <1>2, <1>3, <1>4, <1>5

LEMMA SaveAnsweredKeeps == ASSUME FormInv, SaveAnswered PROVE FormInv'
<1>0. PICK e : e = form.on
  OBVIOUS
<1>1. /\ TypeOK' /\ e \in Equipments
      /\ \/ /\ Head(form.calls) = "fields"
            /\ Machine(e)'.fields = form.typed.fields
            /\ Machine(e)'.caps = Machine(e).caps
         \/ /\ Head(form.calls) = "caps"
            /\ Machine(e)'.caps = form.typed.caps
            /\ Machine(e)'.fields = Machine(e).fields
  BY <1>0, SaveWrites DEF SaveAnswered
<1>2. /\ form.kind = "edit" /\ form.calls # <<>> /\ ~form.saved
      /\ form \in FormRecords /\ form.calls \in CallLists
  BY DEF SaveAnswered, FormInv, FormTypeOK, FormRecords
<1>3. /\ "caps" \notin form.unsure => Machine(e).caps = form.was.caps
      /\ form.calls = <<"fields">> => form.typed.caps = form.was.caps
      /\ form.calls = <<"caps">> /\ "fields" \notin form.unsure =>
            Machine(e).fields = form.typed.fields
  BY <1>0, <1>2, EditFacts
<1>4. form' = IF Len(form.calls) > 1
              THEN [form EXCEPT !.calls = Tail(@),
                                !.unsure = form.unsure \ {Head(form.calls)}]
              ELSE [NoForm EXCEPT !.kind = "edit", !.on = form.on, !.saved = TRUE,
                                  !.typed = form.typed,
                                  !.unsure = form.unsure \ {Head(form.calls)}]
  BY DEF SaveAnswered
<1>5. CASE form.calls = <<"fields", "caps">>
  <2>1. /\ Head(form.calls) = "fields" /\ Len(form.calls) = 2
        /\ Tail(form.calls) = <<"caps">>
    BY <1>2, <1>5, Calls
  <2>2. form' = [form EXCEPT !.calls = <<"caps">>, !.unsure = form.unsure \ {"fields"}]
    <3>1. Len(form.calls) > 1
      BY <2>1
    <3>2. form' = [form EXCEPT !.calls = Tail(form.calls),
                               !.unsure = form.unsure \ {Head(form.calls)}]
      BY <1>4, <3>1, Zenon
    <3> QED
      BY <2>1, <3>2, Zenon
  <2>3. /\ form' \in FormRecords /\ form'.on = e /\ form'.kind = "edit"
        /\ ~form'.saved /\ form'.calls = <<"caps">> /\ form'.typed = form.typed
        /\ form'.was = form.was /\ form'.unsure = form.unsure \ {"fields"}
    BY <1>0, <1>2, <2>2 DEF FormRecords, CallLists
  <2> QED
    BY <1>1, <1>3, <2>1, <2>3, EditForm
<1>6. CASE form.calls \in {<<"fields">>, <<"caps">>}
  <2>1. PICK h \in Parts :
            form.calls = <<h>> /\ Head(form.calls) = h /\ Len(form.calls) = 1
    BY <1>2, <1>6, Calls DEF Parts
  <2>2. form' = [NoForm EXCEPT !.kind = "edit", !.on = form.on, !.saved = TRUE,
                               !.typed = form.typed, !.unsure = form.unsure \ {h}]
    BY <1>4, <2>1
  <2>3. /\ form' \in FormRecords /\ form'.on = e /\ form'.kind = "edit"
        /\ form'.saved /\ form'.calls = <<>> /\ form'.typed = form.typed
        /\ form'.unsure = form.unsure \ {h}
    BY <1>0, <1>1, <1>2, <2>2, NoFormTyped DEF FormRecords, NoForm
  <2>4. /\ "caps" \notin form'.unsure => Machine(e)'.caps = form'.typed.caps
        /\ "fields" \notin form'.unsure => Machine(e)'.fields = form'.typed.fields
    BY <1>1, <1>3, <2>1, <2>3 DEF Parts
  <2> QED
    BY <1>1, <2>3, <2>4, EditForm
<1> QED
  BY <1>2, <1>5, <1>6 DEF CallLists

LEMMA SaveFailsKeeps == ASSUME FormInv, SaveFails PROVE FormInv'
<1>0. PICK e : e = form.on
  OBVIOUS
<1>1. /\ form.kind = "edit" /\ form.calls # <<>> /\ ~form.saved
      /\ form \in FormRecords /\ e \in Equipments /\ TypeOK
  BY <1>0 DEF SaveFails, FormInv, FormTypeOK
<1>2. "caps" \notin form.unsure => Machine(e).caps = form.was.caps
  BY <1>0, <1>1, EditFacts
<1>3. CASE UNCHANGED vars /\ form' = [form EXCEPT !.calls = <<>>, !.typed = NoMachine]
  <2>1. TypeOK' /\ Machine(e)' = Machine(e)
    BY <1>1, <1>3, NextTypeOK DEF Machine, vars, catalogVars
  <2>2. /\ form' \in FormRecords /\ form'.on = e /\ form'.kind = "edit"
        /\ ~form'.saved /\ form'.calls = <<>>
        /\ form'.was = form.was /\ form'.unsure = form.unsure
    BY <1>0, <1>1, <1>3, NoFormTyped DEF FormRecords, CallLists
  <2> QED
    BY <1>1, <1>2, <2>1, <2>2, EditForm
<1>4. CASE SaveCall /\ form' = [form EXCEPT !.calls = <<>>, !.typed = NoMachine,
                                            !.unsure = @ \cup {Head(form.calls)}]
  <2>1. /\ TypeOK' /\ Head(form.calls) \in Parts
        /\ Head(form.calls) = "fields" => Machine(e)'.caps = Machine(e).caps
    BY <1>0, <1>1, <1>4, SaveWrites DEF Parts
  <2>2. /\ form' \in FormRecords /\ form'.on = e /\ form'.kind = "edit"
        /\ ~form'.saved /\ form'.calls = <<>>
        /\ form'.was = form.was
        /\ form'.unsure = form.unsure \cup {Head(form.calls)}
    BY <1>0, <1>1, <1>4, <2>1, NoFormTyped DEF FormRecords, CallLists
  <2>3. "caps" \notin form'.unsure => Machine(e)'.caps = form'.was.caps
    BY <1>2, <2>1, <2>2 DEF Parts
  <2> QED
    BY <1>1, <2>1, <2>2, <2>3, EditForm
<1> QED
  BY <1>3, <1>4 DEF SaveFails

\* Somebody else's write of a part makes the form unsure of it.
LEMMA OthersKeep == ASSUME FormInv, Others PROVE FormInv'
<1>1. TypeOK'
  BY ChannelTypes DEF Others, FormInv, WebNext
<1>2. CASE form.kind # "edit"
  <2>1. form' = form /\ form \in FormRecords
    BY <1>2 DEF Others, FormInv, FormTypeOK
  <2>2. form.calls = <<>> /\ ~form.saved
    BY <1>2 DEF FormInv
  <2> QED
    BY <1>1, <1>2, <2>1, <2>2, OtherForm
<1>3. CASE form.kind = "edit"
  <2>1. form' = [form EXCEPT !.unsure = @ \cup
                    {p \in Parts : \E x \in {form.on} :
                        Machine(x)[p]' # Machine(x)[p]}]
    BY <1>3 DEF Others, Parts
  <2>2. PICK e : e = form.on
    OBVIOUS
  <2>3. form \in FormRecords /\ e \in Equipments
    BY <1>3, <2>2 DEF FormInv, FormTypeOK
  <2>4. /\ form' \in FormRecords /\ form'.on = e /\ form'.kind = "edit"
        /\ form'.saved = form.saved /\ form'.calls = form.calls
        /\ form'.was = form.was /\ form'.typed = form.typed
        /\ form'.unsure = form.unsure \cup
                {p \in Parts : \E x \in {e} : Machine(x)[p]' # Machine(x)[p]}
    BY <1>3, <2>1, <2>2, <2>3 DEF FormRecords
  <2>5. /\ Machine(e)["caps"]' = Machine(e)'.caps
        /\ Machine(e)["fields"]' = Machine(e)'.fields
        /\ Machine(e)["caps"] = Machine(e).caps
        /\ Machine(e)["fields"] = Machine(e).fields
    BY DEF Machine
  <2>6. /\ form.unsure \subseteq form'.unsure
        /\ "caps" \notin form'.unsure => Machine(e)'.caps = Machine(e).caps
        /\ "fields" \notin form'.unsure => Machine(e)'.fields = Machine(e).fields
    BY <2>4, <2>5 DEF Parts
  <2>7. /\ form.saved => form.calls = <<>>
        /\ ~form.saved =>
            /\ "caps" \notin form.unsure => Machine(e).caps = form.was.caps
            /\ form.calls = <<"fields">> => form.typed.caps = form.was.caps
            /\ form.calls = <<"caps">> /\ "fields" \notin form.unsure =>
                    Machine(e).fields = form.typed.fields
        /\ form.saved =>
            /\ "caps" \notin form.unsure => Machine(e).caps = form.typed.caps
            /\ "fields" \notin form.unsure => Machine(e).fields = form.typed.fields
    BY <1>3, <2>2, EditFacts
  <2> QED
    BY <1>1, <2>3, <2>4, <2>6, <2>7, EditForm
<1> QED
  BY <1>2, <1>3

LEMMA FormNext == FormInv /\ [FormsNext]_<<vars, form>> => FormInv'
<1>a. SUFFICES ASSUME FormInv, [FormsNext]_<<vars, form>> PROVE FormInv'
  OBVIOUS
<1>b. FormInv
  BY <1>a
<1> USE <1>b
<1>0. TypeOK /\ form \in FormRecords
  BY DEF FormInv, FormTypeOK
<1>1. ASSUME UNCHANGED vars PROVE TypeOK'
  BY <1>0, <1>1, ChannelTypes
<1>2. ASSUME NEW e \in Equipments, OpenEdit(e) PROVE FormInv'
  <2>1. /\ form' = [NoForm EXCEPT !.kind = "edit", !.on = e, !.listed = ActiveTypes,
                                  !.was = Machine(e)]
        /\ UNCHANGED vars
    BY <1>2 DEF OpenEdit
  <2>2. Machine(e)' = Machine(e)
    BY <2>1 DEF Machine, vars, catalogVars
  <2>3. /\ form' \in FormRecords /\ form'.on = e /\ form'.kind = "edit"
        /\ ~form'.saved /\ form'.calls = <<>> /\ form'.was = Machine(e)
    <3>1. ActiveTypes \in SUBSET ExpTypes /\ Machine(e) \in MachineRecords
      BY <1>0, ListedMachine DEF ActiveTypes
    <3> QED
      BY <2>1, <3>1, NoFormTyped DEF FormRecords, NoForm
  <2>4. /\ ~form'.saved /\ Machine(e)'.caps = form'.was.caps
        /\ form'.calls # <<"fields">> /\ form'.calls # <<"caps">>
    BY <2>2, <2>3
  <2>5. TypeOK'
    BY <1>1, <2>1
  <2> QED
    BY <1>2, <2>3, <2>4, <2>5, EditForm
<1>3. CASE OpenOther
  <2>1. form' \in {[NoForm EXCEPT !.kind = "machine", !.listed = ActiveTypes],
                   [NoForm EXCEPT !.kind = "recipe", !.listed = ActiveTypes],
                   [NoForm EXCEPT !.kind = "recipes", !.listed = recipeTypes]}
    BY <1>3 DEF OpenOther
  <2>2. ASSUME NEW k \in {"machine", "recipe", "recipes"}, NEW L \in SUBSET ExpTypes,
               form' = [NoForm EXCEPT !.kind = k, !.listed = L]
        PROVE  /\ form' \in FormRecords /\ form'.kind # "edit"
               /\ ~form'.saved /\ form'.calls = <<>>
    BY <2>2, NoFormTyped DEF FormRecords, NoForm
  <2>3. ActiveTypes \in SUBSET ExpTypes /\ recipeTypes \in SUBSET ExpTypes
    BY <1>0 DEF ActiveTypes, TypeOK, CatalogTypeOK
  <2>4. /\ form' \in FormRecords /\ form'.kind # "edit"
        /\ ~form'.saved /\ form'.calls = <<>>
    <3>1. CASE form' = [NoForm EXCEPT !.kind = "machine", !.listed = ActiveTypes]
      BY <2>2, <2>3, <3>1
    <3>2. CASE form' = [NoForm EXCEPT !.kind = "recipe", !.listed = ActiveTypes]
      BY <2>2, <2>3, <3>2
    <3>3. CASE form' = [NoForm EXCEPT !.kind = "recipes", !.listed = recipeTypes]
      BY <2>2, <2>3, <3>3
    <3> QED
      BY <2>1, <3>1, <3>2, <3>3
  <2> QED
    BY <1>1, <1>3, <2>4, OtherForm DEF OpenOther
<1>4. CASE PressSave
  <2>1. PICK m \in Typed(form) :
            form' = [form EXCEPT !.typed = m, !.calls = CallsFor(form.was, m)]
    BY <1>4 DEF PressSave
  <2>2. PICK e : e = form.on
    OBVIOUS
  <2>3. CallsFor(form.was, m) = IF m.caps = form.was.caps THEN <<"fields">>
                                ELSE <<"fields", "caps">>
    BY DEF CallsFor
  <2>4. m \in MachineRecords
    BY <1>0, TypedMachine DEF FormTypeOK
  <2>5. CallsFor(form.was, m) \in CallLists
    BY <2>3 DEF CallLists
  <2>6. /\ form' \in FormRecords /\ form'.on = form.on /\ form'.kind = "edit"
        /\ ~form'.saved /\ form'.was = form.was /\ form'.unsure = form.unsure
        /\ form'.typed = m /\ form'.calls = CallsFor(form.was, m)
    BY <1>0, <1>4, <2>1, <2>4, <2>5 DEF PressSave, FormRecords
  <2>7. /\ e \in Equipments
        /\ "caps" \notin form.unsure => Machine(e).caps = form.was.caps
    BY <1>4, <2>2, EditFacts DEF PressSave
  <2>8. Machine(e)' = Machine(e) /\ UNCHANGED vars
    BY <1>4 DEF PressSave, Machine, vars, catalogVars
  <2>9. /\ form'.calls = <<"fields">> => form'.typed.caps = form'.was.caps
        /\ form'.calls # <<"caps">>
    BY <2>3, <2>6
  <2> QED
    BY <1>1, <2>2, <2>6, <2>7, <2>8, <2>9, EditForm
<1>5. CASE SaveAnswered
  BY <1>5, SaveAnsweredKeeps
<1>6. CASE SaveFails
  BY <1>6, SaveFailsKeeps
<1>7. CASE OtherCall
  <2>1. /\ form.kind # "edit" /\ form.calls = <<>> /\ ~form.saved
    BY <1>7 DEF OtherCall, FormInv
  <2>2. CatalogTypeOK'
    BY <1>0, <1>7, CatalogAssumption
       DEF OtherCall, CreateEquipment, CreateRecipe, DeleteRecipe, TypeOK,
           CatalogTypeOK, EquipmentStatuses, FormRecords
  <2>3. TypeOK'
    BY <1>0, <1>7, <2>2 DEF OtherCall, TypeOK, CommissionTypeOK, WipTypeOK,
       commissionVars, wipVars, dispatchVars, verdictVars
  <2>4. form' \in {NoForm, form, [form EXCEPT !.listed = recipeTypes']}
    BY <1>7 DEF OtherCall
  <2>5. /\ form' \in FormRecords /\ form'.kind # "edit"
        /\ form'.calls = <<>> /\ ~form'.saved
    <3>1. recipeTypes' \in SUBSET ExpTypes
      BY <2>2 DEF CatalogTypeOK
    <3>2. CASE form' = NoForm
      BY <3>2, NoFormTyped DEF NoForm
    <3>3. CASE form' \in {form, [form EXCEPT !.listed = recipeTypes']}
      BY <1>0, <2>1, <3>1, <3>3 DEF FormRecords
    <3> QED
      BY <2>4, <3>2, <3>3
  <2> QED
    BY <2>3, <2>5, OtherForm
<1>8. CASE CloseForm
  <2>1. /\ form' \in FormRecords /\ form'.kind # "edit"
        /\ form'.calls = <<>> /\ ~form'.saved
    BY <1>8, NoFormTyped DEF CloseForm, NoForm
  <2> QED
    BY <1>1, <1>8, <2>1, OtherForm DEF CloseForm
<1>9. CASE Others
  BY <1>9, OthersKeep
<1>10. CASE UNCHANGED <<vars, form>>
  BY <1>1, <1>10, FormUntouched DEF vars
<1> QED
  BY <1>a, <1>2, <1>3, <1>4, <1>5, <1>6, <1>7, <1>8, <1>9, <1>10 DEF FormsNext

LEMMA FormInit == Init /\ form = NoForm => FormInv
<1> SUFFICES ASSUME Init, form = NoForm PROVE FormInv
  OBVIOUS
<1> QED
  BY InitTypeOK, NoFormTyped
     DEF FormInv, FormTypeOK, OpenFormInv, SavedIsStored, NoForm

\* When the form of a machine has closed as saved, each of its two parts is
\* stored as it was typed, unless somebody else wrote it meanwhile or the
\* answer to an earlier attempt was lost (EquipmentModal.submit: the calls fail
\* apart, the second is left out when the capabilities are those listed).
THEOREM SavedFormIsStored == FormsSpec => []SavedIsStored
<1>1. FormInv => SavedIsStored
  BY DEF FormInv
<1> QED
  BY <1>1, FormInit, FormNext, PTL DEF FormsSpec

\* A call that writes only the catalogue, as those of the forms do, leaves all
\* that is said of requests, wafers, batches and verdicts as it was.
LEMMA CatalogStepKeeps ==
    ASSUME AllInv, TypeOK',
           UNCHANGED <<commissionVars, wipVars, dispatchVars, verdictVars>>
    PROVE  AllInv'
<1>1. DispatchInv'
  BY DispatchUnchanged DEF AllInv, wipVars, dispatchVars
<1>2. RequestInv'
  BY StutterLabStep, LabStepKeepsRequestInv DEF AllInv
<1>3. PlansLocked /\ CommissionStep
  BY DEF PlansLocked, SamplesOf, CommissionStep, LabPhaseStep, commissionVars
<1>4. LabInv'
  BY <1>3, AllIsKept, CommissionKeepsLabInv DEF AllInv
<1> QED
  BY <1>1, <1>2, <1>4 DEF AllInv

\* Each step of the system with a form writes only the catalogue, or is one of
\* the API's.
LEMMA FormSteps ==
    ASSUME [FormsNext]_<<vars, form>>
    PROVE  \/ Next
           \/ UNCHANGED <<commissionVars, wipVars, dispatchVars, verdictVars>>
<1>1. ASSUME UNCHANGED vars
      PROVE  UNCHANGED <<commissionVars, wipVars, dispatchVars, verdictVars>>
  BY <1>1 DEF vars
<1>2. CASE \/ \E e \in Equipments : OpenEdit(e)
           \/ OpenOther \/ PressSave \/ CloseForm
  BY <1>1, <1>2 DEF OpenEdit, OpenOther, PressSave, CloseForm
<1>3. CASE SaveAnswered \/ SaveFails
  BY <1>1, <1>3 DEF SaveAnswered, SaveFails, SaveCall
<1>4. CASE OtherCall
  BY <1>4 DEF OtherCall
<1>5. CASE Others
  BY <1>5 DEF Others, WebCatalogPages
<1>6. CASE UNCHANGED <<vars, form>>
  BY <1>1, <1>6
<1> QED
  BY <1>2, <1>3, <1>4, <1>5, <1>6 DEF FormsNext

LEMMA FormsSafety == FormsSpec => [](FormInv /\ AllInv)
<1>1. Init /\ form = NoForm => FormInv /\ AllInv
  BY FormInit, InitAll
<1>2. (FormInv /\ AllInv) /\ [FormsNext]_<<vars, form>> => (FormInv /\ AllInv)'
  <2> SUFFICES ASSUME FormInv, AllInv, [FormsNext]_<<vars, form>>
               PROVE  FormInv' /\ AllInv'
    OBVIOUS
  <2>1. FormInv' /\ TypeOK'
    BY FormNext DEF FormInv
  <2>2. AllInv'
    BY <2>1, FormSteps, NextAll, CatalogStepKeeps
  <2> QED
    BY <2>1, <2>2
<1> QED
  BY <1>1, <1>2, PTL DEF FormsSpec

\* A wafer's own selection stays within its request's experiment set beside the
\* catalogue's forms too, whichever of their calls is answered, refused or lost
\* (EquipmentModal, RecipeModal: they write machines, capabilities and recipes),
\* and while the staff and the legacy pages go on editing types and machines.
THEOREM SelectionBesideForms == FormsSpec => []SelectionWithinRequest
BY FormsSafety, PTL DEF AllInv, RequestInv
=============================================================================
