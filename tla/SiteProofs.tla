----------------------------- MODULE SiteProofs ------------------------------
(***************************************************************************)
(* What the pages tell of one moment agrees, for every value of the        *)
(* constants: the drawings of a request's progress, the counts of its      *)
(* experiments, the dashboards, the report of the runs and the chips of a  *)
(* wafer.  They are functions of the tables, so most follows from the      *)
(* invariant of LimsSafety; what does not is in SiteInv, kept by every     *)
(* step beside it.  The last part is about addresses: each link that a     *)
(* page draws, through navigate.ts and the routes, draws the page meant.   *)
(***************************************************************************)
EXTENDS Site, LimsSafety, FiniteSetTheorems, SequenceTheorems

-----------------------------------------------------------------------------
\* What the pages need to know of the tables and no invariant of Lims says.

ArrivedStatuses ==
    {"received", "processing", "processing_exception", "completed", "voided",
     "returned"}

\* The wafers of a request travel together: all of them have left when it ships,
\* and all are accounted for once the laboratory has it.
WafersTravel ==
    \A s \in Samples : owner[s] # Nil =>
        /\ reqStatus[owner[s]] = "sample_shipped" => sampleStatus[s] # "created"
        /\ reqStatus[owner[s]] \in LabStatuses => sampleStatus[s] \in ArrivedStatuses

\* A wafer of an aborted batch is not worked on any more.
AbortedIsSetAside ==
    \A w \in Wips : wipStatus[w] = "aborted" =>
        \A s \in wipSamples[w] : sampleStatus[s] \notin {"received", "processing"}

\* A run on its machine has a deadline.
RunsAreTimed == \A d \in Dispatches : dStatus[d] = "running" => dTimer[d] # "unset"

SiteInv == WafersTravel /\ AbortedIsSetAside /\ RunsAreTimed

LEMMA InitSite == Init => SiteInv
BY DEF Init, CommissionInit, WipInit, SiteInv, WafersTravel, AbortedIsSetAside,
       RunsAreTimed

\* How a step moves a wafer: along its table and never back.
WaferMove(from, to) ==
    \/ to = from
    \/ from = "created" /\ to = "shipped"
    \/ from = "shipped" /\ to \in {"received", "receiving_exception", "lost"}
    \/ from = "received" /\ to = "processing"
    \/ from = "processing" /\ to \in {"completed", "processing_exception"}
    \/ /\ from \in {"receiving_exception", "processing_exception", "lost"}
       /\ to \in {"voided", "returned"}

LEMMA WaferMoves ==
    ASSUME TypeOK, [Next]_vars, NEW s \in Samples
    PROVE  WaferMove(sampleStatus[s], sampleStatus'[s])
<1> USE DEF WaferMove
<1>1. CASE WipNext
  BY <1>1, WipIsLabStep DEF LabStep
<1>2. CASE UNCHANGED sampleStatus
  BY <1>2
<1>3. ASSUME NEW r \in Requests, ShipRequest(r)
      PROVE  WaferMove(sampleStatus[s], sampleStatus'[s])
  BY <1>3 DEF ShipRequest, SampleTransitions, SampleTarget
<1>4. ASSUME NEW x \in Samples,
             \/ ReceiveSample(x) \/ RejectReceivingSample(x) \/ ReportLostSample(x)
             \/ VoidSample(x) \/ ReturnSample(x)
      PROVE  WaferMove(sampleStatus[s], sampleStatus'[s])
  BY <1>4 DEF TypeOK, CommissionTypeOK, ReceiveSample, RejectReceivingSample,
        ReportLostSample, VoidSample, ReturnSample, SampleAction, SettleSample,
        SampleTransitions, SampleTarget
<1>5. CASE CommissionNext
  <2>1. \/ UNCHANGED sampleStatus
        \/ \E r \in Requests : ShipRequest(r)
        \/ \E x \in Samples :
            \/ ReceiveSample(x) \/ RejectReceivingSample(x) \/ ReportLostSample(x)
            \/ VoidSample(x) \/ ReturnSample(x)
    BY <1>5 DEF CommissionNext, CreateRequest, UpdateRequest, SubmitRequest,
          ApproveRequest, ReturnRequest, RejectRequest, CancelRequest, CloseRequest,
          RequestAction, DeleteDraft
  <2> QED
    BY <1>2, <1>3, <1>4, <2>1
<1> QED
  BY <1>1, <1>2, <1>5 DEF Next, vars, commissionVars

\* How a step moves a request that is under way: on, never back to its author,
\* and into the laboratory only when its wafers are accounted for.
LEMMA RequestMoves ==
    ASSUME TypeOK, RequestInv, [Next]_vars, NEW r \in Requests
    PROVE  /\ reqStatus[r] \in {"none", "draft"} =>
                reqStatus'[r] \in {"none", "draft", "pending_approval", "cancelled"}
           /\ reqStatus[r] \in {"approved", "rejected", "cancelled",
                                "sample_shipped", "in_progress"} =>
                reqStatus'[r] \notin {"none", "draft", "pending_approval", "returned"}
           /\ reqStatus'[r] = "sample_shipped" =>
                \/ reqStatus[r] = "sample_shipped"
                \/ \A s \in SamplesOf(r) : sampleStatus'[s] # "created"
           /\ reqStatus'[r] \in LabStatuses =>
                \/ reqStatus[r] \in LabStatuses
                \/ /\ reqStatus[r] = "sample_shipped"
                   /\ \A s \in SamplesOf(r) : sampleStatus'[s] \in ArrivedStatuses
<1> DEFINE On ==
                /\ reqStatus[r] \in {"none", "draft"} =>
                    reqStatus'[r] \in {"none", "draft", "pending_approval", "cancelled"}
                /\ reqStatus[r] \in {"approved", "rejected", "cancelled",
                                     "sample_shipped", "in_progress"} =>
                    reqStatus'[r] \notin
                        {"none", "draft", "pending_approval", "returned"}
           Ships == reqStatus'[r] = "sample_shipped" =>
                \/ reqStatus[r] = "sample_shipped"
                \/ \A s \in SamplesOf(r) : sampleStatus'[s] # "created"
           Arrives == reqStatus'[r] \in LabStatuses =>
                \/ reqStatus[r] \in LabStatuses
                \/ /\ reqStatus[r] = "sample_shipped"
                   /\ \A s \in SamplesOf(r) : sampleStatus'[s] \in ArrivedStatuses
<1> USE DEF LabStatuses
<1>1. CASE UNCHANGED commissionVars
  BY <1>1 DEF commissionVars
<1>2. CASE WipNext
  BY <1>2, WipIsLabStep DEF LabStep
<1>3. ASSUME NEW x \in Requests,
             \/ \E T \in SUBSET ExpTypes, S \in SUBSET Samples :
                    \E sel \in [S -> SUBSET T] : CreateRequest(x, T, S, sel)
             \/ \E T \in (SUBSET ExpTypes) \cup {Nil}, S \in SUBSET Samples :
                    \E sel \in [S -> SUBSET ExpTypes] : UpdateRequest(x, T, S, sel)
             \/ SubmitRequest(x) \/ ApproveRequest(x) \/ ReturnRequest(x)
             \/ RejectRequest(x) \/ CancelRequest(x) \/ CloseRequest(x)
             \/ DeleteDraft(x)
      PROVE  On /\ Ships /\ Arrives
  BY <1>3 DEF TypeOK, CommissionTypeOK, CreateRequest, UpdateRequest, SubmitRequest,
        ApproveRequest, ReturnRequest, RejectRequest, CancelRequest, CloseRequest,
        DeleteDraft, RequestAction, RequestTransitions, RequestTarget
<1>4. ASSUME NEW x \in Requests, ShipRequest(x) PROVE On /\ Ships /\ Arrives
  <2>1. \A s \in Samples : owner[s] = x => sampleStatus'[s] # "created"
    BY <1>4 DEF TypeOK, CommissionTypeOK, ShipRequest, SampleTransitions, SampleTarget
  <2> QED
    BY <1>4, <2>1 DEF TypeOK, CommissionTypeOK, ShipRequest, RequestTransitions,
          RequestTarget, SamplesOf
<1>5. ASSUME NEW x \in Samples, RejectReceivingSample(x) \/ ReportLostSample(x)
      PROVE  On /\ Ships /\ Arrives
  BY <1>5 DEF RejectReceivingSample, ReportLostSample, SampleAction
<1>6. ASSUME NEW x \in Samples, ReceiveSample(x) \/ VoidSample(x) \/ ReturnSample(x)
      PROVE  On /\ Ships /\ Arrives
  <2>1. PICK ss : /\ owner[x] \in Requests /\ sampleStatus' = ss
                  /\ \/ reqStatus' = [reqStatus EXCEPT ![owner[x]] =
                            CheckAllSamplesReceived(owner[x], @, ss)]
                     \/ reqStatus' = [reqStatus EXCEPT ![owner[x]] =
                            CheckRequestCompleted(owner[x],
                                CheckAllSamplesReceived(owner[x], @, ss), ss)]
    BY <1>6 DEF TypeOK, CommissionTypeOK, ReceiveSample, VoidSample, ReturnSample,
          SettleSample
  <2>2. \/ reqStatus'[r] = reqStatus[r]
        \/ /\ reqStatus[r] = "sample_shipped"
           /\ reqStatus'[r] \in {"in_progress", "completed"}
           /\ AllIn(r, ss, AccountedStatuses)
        \/ reqStatus[r] = "in_progress" /\ reqStatus'[r] = "completed"
    BY <2>1 DEF TypeOK, CommissionTypeOK, CheckAllSamplesReceived, CheckRequestCompleted
  <2> QED
    BY <2>1, <2>2 DEF AllIn, AccountedStatuses, ArrivedStatuses
<1> QED
  BY <1>1, <1>2, <1>3, <1>4, <1>5, <1>6 DEF Next, vars, CommissionNext

LEMMA SiteKeepsTravel ==
    ASSUME AllInv, WafersTravel, [Next]_vars PROVE WafersTravel'
<1> SUFFICES ASSUME NEW s \in Samples, NEW q \in Requests, owner'[s] = q
             PROVE  /\ reqStatus'[q] = "sample_shipped" =>
                        sampleStatus'[s] # "created"
                    /\ reqStatus'[q] \in LabStatuses =>
                        sampleStatus'[s] \in ArrivedStatuses
  BY NextTypeOK DEF WafersTravel, AllInv, TypeOK, CommissionTypeOK
<1> USE DEF AllInv
<1>1. CASE reqStatus[q] \in {"none", "draft"}
  BY <1>1, RequestMoves DEF LabStatuses
<1>2. CASE reqStatus[q] \notin {"none", "draft"}
  <2>1. owner[s] = q
    BY <1>2, SelectionLocked DEF PlansLocked, SamplesOf
  <2>2. q # Nil
    BY NilAssumption
  <2>3. s \in SamplesOf(q)
    BY <2>1 DEF SamplesOf
  <2>4. CASE reqStatus'[q] = "sample_shipped"
    <3>1. CASE reqStatus[q] = "sample_shipped"
      BY <2>1, <2>2, <2>4, <3>1, WaferMoves DEF WafersTravel, WaferMove, LabStatuses
    <3> QED
      BY <2>3, <2>4, <3>1, RequestMoves DEF LabStatuses
  <2>5. CASE reqStatus'[q] \in LabStatuses
    <3>1. CASE reqStatus[q] \in LabStatuses
      <4>1. sampleStatus[s] \in ArrivedStatuses
        BY <2>1, <2>2, <3>1 DEF WafersTravel
      <4> QED
        BY <4>1, <2>5, WaferMoves DEF ArrivedStatuses, LabStatuses, WaferMove
    <3> QED
      BY <2>3, <2>5, <3>1, RequestMoves DEF LabStatuses
  <2> QED
    BY <2>4, <2>5
<1> QED
  BY <1>1, <1>2

\* A batch is aborted by one handler, and its wafers are then fixed.
LEMMA BatchesEnd ==
    ASSUME TypeOK, [Next]_vars, NEW w \in Wips, wipStatus'[w] = "aborted"
    PROVE  /\ wipSamples'[w] = wipSamples[w]
           /\ wipStatus[w] = "aborted" \/ AbortWip(w)
<1> USE DEF TypeOK, WipTypeOK
<1>1. CASE UNCHANGED wipVars
  BY <1>1 DEF wipVars
<1>2. ASSUME NEW x \in Wips,
             \/ \E t \in ExpTypes, S \in SUBSET Samples : CreateWip(x, t, S)
             \/ \E S \in SUBSET Samples : AddSamplesToWip(x, S)
             \/ \E d \in Dispatches, e \in Equipments : CreateDispatch(x, d, e)
             \/ CompleteWip(x)
             \/ AbortWip(x)
      PROVE  /\ wipSamples'[w] = wipSamples[w]
             /\ wipStatus[w] = "aborted" \/ AbortWip(w)
  BY <1>2 DEF CreateWip, AddSamplesToWip, CreateDispatch, CompleteWip, AbortWip,
        WipTransitions, WipTarget
<1>3. ASSUME NEW d \in Dispatches,
             \/ StartDispatch(d) \/ UnloadDispatch(d) \/ RecordResult(d)
             \/ CompleteDispatchRun(d) \/ ReportException(d)
             \/ \E n \in Dispatches : Redispatch(d, n)
             \/ AbortDispatch(d) \/ TimerElapses(d)
      PROVE  wipSamples'[w] = wipSamples[w] /\ wipStatus[w] = "aborted"
  <2>1. /\ wipSamples' = wipSamples
        /\ wipStatus' = wipStatus \/ \E ds : MaybeAutoCompleteWip(dWip[d], ds)
    BY <1>3 DEF StartDispatch, UnloadDispatch, RecordResult, CompleteDispatchRun,
        ReportException, Redispatch, AbortDispatch, TimerElapses, wipVars
  <2> QED
    BY <2>1 DEF MaybeAutoCompleteWip, WipTarget
<1> QED
  BY <1>1, <1>2, <1>3 DEF Next, vars, WipNext, SubmitEquipmentResult,
        FinalizeDueDispatch

LEMMA SiteKeepsAborted ==
    ASSUME AllInv, AbortedIsSetAside, [Next]_vars PROVE AbortedIsSetAside'
<1> SUFFICES ASSUME NEW w \in Wips, wipStatus'[w] = "aborted",
                    NEW s \in wipSamples'[w]
             PROVE  sampleStatus'[s] \notin {"received", "processing"}
  BY DEF AbortedIsSetAside
<1> USE DEF AllInv
<1>1. s \in wipSamples[w] /\ s \in Samples
  BY BatchesEnd DEF TypeOK, WipTypeOK
<1>2. sampleStatus[s] \in {"processing", "processing_exception", "completed",
                           "voided", "returned"}
  BY <1>1 DEF LabInv, BatchesMatchSelection
<1>3. CASE wipStatus[w] = "aborted"
  BY <1>1, <1>2, <1>3, WaferMoves DEF AbortedIsSetAside, WaferMove
<1>4. CASE AbortWip(w)
  BY <1>1, <1>2, <1>4 DEF AbortWip, SampleTransitions, SampleTarget
<1> QED
  BY <1>3, <1>4, BatchesEnd

LEMMA SiteKeepsTimed ==
    ASSUME TypeOK, RunsAreTimed, [Next]_vars PROVE RunsAreTimed'
<1> SUFFICES ASSUME NEW x \in Dispatches
             PROVE  dStatus'[x] = "running" => dTimer'[x] # "unset"
  BY DEF RunsAreTimed
<1> USE DEF TypeOK, WipTypeOK, RunsAreTimed
<1>1. CASE UNCHANGED dispatchVars
  BY <1>1 DEF dispatchVars
<1>2. ASSUME NEW w \in Wips, NEW d \in Dispatches, NEW e \in Equipments,
             CreateDispatch(w, d, e)
      PROVE  dStatus'[x] = "running" => dTimer'[x] # "unset"
  BY <1>2 DEF CreateDispatch
<1>3. ASSUME NEW w \in Wips,
             \/ \E t \in ExpTypes, S \in SUBSET Samples : CreateWip(w, t, S)
             \/ \E S \in SUBSET Samples : AddSamplesToWip(w, S)
             \/ CompleteWip(w)
             \/ AbortWip(w)
      PROVE  UNCHANGED dispatchVars
  BY <1>3 DEF CreateWip, AddSamplesToWip, CompleteWip, AbortWip
<1>4. ASSUME NEW d \in Dispatches,
             \/ StartDispatch(d) \/ UnloadDispatch(d) \/ RecordResult(d)
             \/ CompleteDispatchRun(d) \/ ReportException(d)
             \/ \E n \in Dispatches : Redispatch(d, n)
             \/ AbortDispatch(d) \/ TimerElapses(d)
      PROVE  dStatus'[x] = "running" => dTimer'[x] # "unset"
  BY <1>4 DEF StartDispatch, UnloadDispatch, RecordResult, CompleteDispatchRun,
        ReportException, Redispatch, AbortDispatch, TimerElapses, MoveDispatch,
        DispatchTarget
<1> QED
  BY <1>1, <1>2, <1>3, <1>4 DEF Next, vars, WipNext, SubmitEquipmentResult,
        FinalizeDueDispatch

LEMMA NextSite ==
    (AllInv /\ SiteInv) /\ [Next]_vars => (AllInv /\ SiteInv)'
BY NextAll, SiteKeepsTravel, SiteKeepsAborted, SiteKeepsTimed DEF SiteInv, AllInv

\* What holds whenever both invariants do holds always.
LEMMA SiteSafety == Spec => [](AllInv /\ SiteInv)
<1>1. Init => AllInv /\ SiteInv
  BY InitAll, InitSite
<1> QED
  BY <1>1, NextSite, PTL DEF Spec

-----------------------------------------------------------------------------
\* The drawings of a request's progress.

\* The phase of a wafer, by the statuses of its request and its own.
PhaseOf(st) ==
    CASE st = "completed" -> 4
      [] st \in {"processing", "processing_exception"} -> 3
      [] st = "received" -> 2
      [] st = "shipped" -> 1
      [] OTHER -> 0

LEMMA PhaseIs ==
    ASSUME NEW s \in Samples
    PROVE  /\ reqStatus[owner[s]] \in {"draft", "pending_approval"} => Phase(s) = -1
           /\ reqStatus[owner[s]] \in {"completed", "closed"} => Phase(s) = 4
           /\ reqStatus[owner[s]] \notin {"draft", "pending_approval", "completed",
                                          "closed"}
              => Phase(s) = PhaseOf(sampleStatus[s])
<1> DEFINE r == owner[s] shown == ShownRequest(reqStatus[r])
<1>1. ASSUME reqStatus[r] \in {"draft", "pending_approval"} PROVE Phase(s) = -1
  BY <1>1 DEF Phase
<1>2. ASSUME reqStatus[r] \in {"completed", "closed"} PROVE Phase(s) = 4
  <2>1. shown = "completed"
    BY <1>2 DEF ShownRequest
  <2> QED
    BY <1>2, <2>1 DEF Phase
<1>3. ASSUME reqStatus[r] \notin {"draft", "pending_approval", "completed", "closed"}
      PROVE  Phase(s) = PhaseOf(sampleStatus[s])
  <2>1. shown # "completed"
    BY <1>3 DEF ShownRequest
  <2> QED
    BY <1>3, <2>1 DEF Phase, PhaseOf
<1> QED
  BY <1>1, <1>2, <1>3

\* The phase of a request is that of one of its wafers, and no other is less far.
LEMMA OverallPhaseIsLeast ==
    ASSUME NEW r, SamplesOf(r) # {}
    PROVE  /\ \E s \in SamplesOf(r) : OverallPhase(r) = Phase(s)
           /\ \A s \in SamplesOf(r) : OverallPhase(r) <= Phase(s)
           /\ OverallPhase(r) \in -1..4
<1> DEFINE P == {Phase(s) : s \in SamplesOf(r)}
<1>1. \A s \in Samples : Phase(s) \in -1..4
  BY DEF Phase
<1>2. P \subseteq -1..4 /\ P # {}
  BY <1>1 DEF SamplesOf
<1> HIDE DEF P
<1>3. \E x \in P : \A y \in P : x <= y
  <2>1. \A y \in P : y \in {-1, 0, 1, 2, 3, 4}
    BY <1>2
  <2>2. CASE -1 \in P
    BY <2>1, <2>2
  <2>3. CASE -1 \notin P /\ 0 \in P
    BY <2>1, <2>3
  <2>4. CASE -1 \notin P /\ 0 \notin P /\ 1 \in P
    BY <2>1, <2>4
  <2>5. CASE -1 \notin P /\ 0 \notin P /\ 1 \notin P /\ 2 \in P
    BY <2>1, <2>5
  <2>6. CASE -1 \notin P /\ 0 \notin P /\ 1 \notin P /\ 2 \notin P /\ 3 \in P
    BY <2>1, <2>6
  <2>7. CASE \A y \in P : y = 4
    <3>1. PICK x \in P : x = 4
      BY <1>2, <2>7
    <3>2. \A y \in P : x <= y
      BY <2>7, <3>1
    <3> QED
      BY <3>2
  <2> QED
    BY <2>1, <2>2, <2>3, <2>4, <2>5, <2>6, <2>7
<1>4. Min(P) \in P /\ \A y \in P : Min(P) <= y
  BY <1>3 DEF Min
<1>5. OverallPhase(r) = Min(P)
  BY DEF OverallPhase, P
<1> QED
  BY <1>2, <1>4, <1>5 DEF P

\* What the three drawings of one request come to.
LEMMA FlowsMatch == AllInv /\ WafersTravel => FlowsAgree
<1> SUFFICES ASSUME AllInv, WafersTravel, NEW r \in Requests,
                    reqStatus[r] \notin Decided \cup {"none"}
             PROVE  LET step == ListStep(r) phase == OverallPhase(r) IN
                    /\ step = -1 <=> phase = -1
                    /\ step = 3 <=> phase = 4
                    /\ \A s \in SamplesOf(r) : sampleStatus[s] \notin SetAside =>
                        WaferStep(s) = IF Phase(s) < 2 THEN 0 ELSE Phase(s) - 1
                    /\ (\A s \in SamplesOf(r) : sampleStatus[s] \notin SetAside) =>
                        /\ step = 0 => phase = 0
                        /\ step = 1 => phase = 1
                        /\ step = 2 => phase \in {2, 3}
  BY DEF FlowsAgree
<1> DEFINE phase == OverallPhase(r)
<1> USE DEF AllInv
<1>1. /\ r # Nil /\ SamplesOf(r) # {}
      /\ \A s \in SamplesOf(r) : s \in Samples /\ owner[s] = r
      /\ \A s \in SamplesOf(r) : sampleStatus[s] \in SampleStatuses
  BY NilAssumption DEF RequestInv, SamplesBound, Decided, SamplesOf, TypeOK,
     CommissionTypeOK
<1>2. /\ \E s \in SamplesOf(r) : phase = Phase(s)
      /\ \A s \in SamplesOf(r) : phase <= Phase(s)
      /\ phase \in -1..4
  BY <1>1, OverallPhaseIsLeast
<1> HIDE DEF phase
<1>3. reqStatus[r] \in {"pending_approval", "approved", "sample_shipped",
                        "in_progress", "completed", "closed"}
  BY DEF TypeOK, CommissionTypeOK, RequestStatuses, Decided
<1>4. ASSUME NEW s \in SamplesOf(r), sampleStatus[s] \notin SetAside
      PROVE  WaferStep(s) = CASE sampleStatus[s] \in {"created", "shipped"} -> 0
                              [] sampleStatus[s] = "received" -> 1
                              [] sampleStatus[s] = "processing" -> 2
                              [] OTHER -> 3
  BY <1>1, <1>4 DEF WaferStep, ShownWafer, SampleStatuses, SetAside
<1>5. CASE reqStatus[r] = "pending_approval"
  <2>1. \A s \in SamplesOf(r) : Phase(s) = -1 /\ sampleStatus[s] = "created"
    BY <1>1, <1>5, PhaseIs DEF RequestInv, UnshippedUntouched, UnshippedStatuses
  <2>2. ListStep(r) = -1 /\ phase = -1
    BY <1>2, <1>5, <2>1 DEF ListStep
  <2> QED
    BY <1>4, <2>1, <2>2 DEF phase
<1>6. CASE reqStatus[r] = "approved"
  <2>1. \A s \in SamplesOf(r) : Phase(s) = 0 /\ sampleStatus[s] = "created"
    BY <1>1, <1>6, PhaseIs DEF RequestInv, UnshippedUntouched, UnshippedStatuses, PhaseOf
  <2>2. ListStep(r) = 0 /\ phase = 0
    BY <1>2, <1>6, <2>1 DEF ListStep
  <2> QED
    BY <1>4, <2>1, <2>2 DEF phase
<1>7. CASE reqStatus[r] = "sample_shipped"
  <2>1. PICK x \in SamplesOf(r) : sampleStatus[x] \notin
                {"received", "processing", "completed", "voided", "returned"}
    BY <1>1, <1>7 DEF RequestInv, NoStrandedRequest
  <2>2. \A s \in SamplesOf(r) : sampleStatus[s] # "created"
    BY <1>1, <1>7 DEF WafersTravel
  <2>3. ASSUME NEW s \in SamplesOf(r)
        PROVE  Phase(s) = PhaseOf(sampleStatus[s])
    BY <1>1, <1>7, PhaseIs
  <2>4. ListStep(r) = 1 /\ phase \notin {-1, 4}
    BY <1>2, <1>7, <2>1, <2>3 DEF ListStep, PhaseOf
  <2>5. ASSUME NEW s \in SamplesOf(r), sampleStatus[s] \notin SetAside
        PROVE  WaferStep(s) = IF Phase(s) < 2 THEN 0 ELSE Phase(s) - 1
    BY <1>1, <1>4, <2>3, <2>5 DEF PhaseOf, SampleStatuses, SetAside
  <2>6. ASSUME \A s \in SamplesOf(r) : sampleStatus[s] \notin SetAside
        PROVE  phase = 1
    <3>1. Phase(x) = 1
      BY <1>1, <2>1, <2>2, <2>3, <2>6 DEF PhaseOf, SampleStatuses, SetAside
    <3>2. \A s \in SamplesOf(r) : Phase(s) >= 1
      BY <1>1, <2>2, <2>3, <2>6 DEF PhaseOf, SampleStatuses, SetAside
    <3> QED
      BY <1>2, <3>1, <3>2
  <2> QED
    BY <2>4, <2>5, <2>6 DEF phase
<1>8. CASE reqStatus[r] = "in_progress"
  <2>1. PICK x \in SamplesOf(r) : sampleStatus[x] \notin
                {"completed", "voided", "returned"}
    BY <1>1, <1>8 DEF RequestInv, NoStrandedRequest
  <2>2. \A s \in SamplesOf(r) : sampleStatus[s] \in ArrivedStatuses
    BY <1>1, <1>8 DEF WafersTravel, LabStatuses
  <2>3. ASSUME NEW s \in SamplesOf(r)
        PROVE  Phase(s) = PhaseOf(sampleStatus[s])
    BY <1>1, <1>8, PhaseIs
  <2>4. ListStep(r) = 2 /\ phase \notin {-1, 4}
    BY <1>2, <1>8, <2>1, <2>3 DEF ListStep, PhaseOf
  <2>5. ASSUME NEW s \in SamplesOf(r), sampleStatus[s] \notin SetAside
        PROVE  WaferStep(s) = IF Phase(s) < 2 THEN 0 ELSE Phase(s) - 1
    BY <1>1, <1>4, <2>3, <2>5 DEF PhaseOf, SampleStatuses, SetAside
  <2>6. ASSUME \A s \in SamplesOf(r) : sampleStatus[s] \notin SetAside
        PROVE  phase \in {2, 3}
    <3>1. \A s \in SamplesOf(r) : Phase(s) \in {2, 3, 4}
      BY <2>2, <2>3, <2>6 DEF PhaseOf, ArrivedStatuses, SetAside
    <3> QED
      BY <1>2, <2>4, <3>1
  <2> QED
    BY <2>4, <2>5, <2>6 DEF phase
<1>9. CASE reqStatus[r] \in {"completed", "closed"}
  <2>1. \A s \in SamplesOf(r) : sampleStatus[s] \in {"completed", "voided", "returned"}
    BY <1>9 DEF RequestInv, CompletedRequestSettled
  <2>2. \A s \in SamplesOf(r) : Phase(s) = 4
    BY <1>1, <1>9, <2>1, PhaseIs DEF Settled
  <2>3. ListStep(r) = 3 /\ phase = 4
    BY <1>2, <1>9, <2>2 DEF ListStep
  <2>4. ASSUME NEW s \in SamplesOf(r), sampleStatus[s] \notin SetAside
        PROVE  WaferStep(s) = 3
    BY <1>4, <2>1, <2>4 DEF SetAside
  <2> QED
    BY <2>2, <2>3, <2>4 DEF phase
<1> QED
  BY <1>3, <1>5, <1>6, <1>7, <1>8, <1>9

\* The dots of a list, the phase of a request and the lifecycle of its wafers
\* agree on how far it has come (RequestFlow, phaseIndexFor, LabWaferDetail).
THEOREM ProgressIsDrawnAlike == Spec => []FlowsAgree
BY SiteSafety, FlowsMatch, PTL DEF SiteInv

\* The same of every wafer, so that it can be said of the next state too.
PhasesFollow ==
    \A s \in Samples :
        /\ reqStatus[owner[s]] \in {"draft", "pending_approval"} => Phase(s) = -1
        /\ reqStatus[owner[s]] \in {"completed", "closed"} => Phase(s) = 4
        /\ reqStatus[owner[s]] \notin {"draft", "pending_approval", "completed",
                                       "closed"}
           => Phase(s) = PhaseOf(sampleStatus[s])

LEMMA PhasesAlwaysFollow == PhasesFollow
BY PhaseIs DEF PhasesFollow

LEMMA PhasesFollowOn == PhasesFollow'
BY PhasesAlwaysFollow, PTL

LEMMA PhaseStays ==
    ASSUME AllInv, AllInv', [Next]_vars, NEW s \in Samples,
           owner[s] # Nil, owner'[s] = owner[s]
    PROVE  \/ Phase(s)' >= Phase(s)
           \/ sampleStatus'[s] \in SetAside
           \/ reqStatus[owner[s]] = "returned"
<1> SUFFICES ASSUME sampleStatus'[s] \notin SetAside,
                    reqStatus[owner[s]] # "returned"
             PROVE  Phase(s)' >= Phase(s)
  OBVIOUS
<1> USE DEF AllInv
<1>1. PICK r \in Requests : r = owner[s] /\ r = owner'[s] /\ r # Nil
  BY DEF TypeOK, CommissionTypeOK
<1>2. reqStatus[r] \notin {"none", "returned"} /\ reqStatus[r] \in RequestStatuses
  BY <1>1 DEF RequestInv, SamplesBound, TypeOK, CommissionTypeOK
<1>3. /\ WaferMove(sampleStatus[s], sampleStatus'[s])
      /\ sampleStatus[s] \in SampleStatuses /\ sampleStatus'[s] \in SampleStatuses
  BY WaferMoves DEF TypeOK, CommissionTypeOK
<1>4. /\ reqStatus'[r] \in {"draft", "pending_approval"} => Phase(s)' = -1
      /\ reqStatus'[r] \in {"completed", "closed"} => Phase(s)' = 4
      /\ reqStatus'[r] \notin {"draft", "pending_approval", "completed", "closed"} =>
            Phase(s)' = PhaseOf(sampleStatus'[s])
  BY <1>1, PhasesFollowOn DEF PhasesFollow, PhaseOf
<1>5. PhaseOf(sampleStatus'[s]) \in 0..4
  BY DEF PhaseOf
<1>6. CASE reqStatus[r] \in {"draft", "pending_approval"}
  <2>1. Phase(s) = -1
    BY <1>1, <1>6, PhaseIs
  <2> QED
    BY <1>4, <1>5, <2>1
<1>7. CASE reqStatus[r] \in {"completed", "closed"}
  <2>1. Phase(s) = 4
    BY <1>1, <1>7, PhaseIs
  <2>2. reqStatus'[r] \in {"completed", "closed"}
    BY <1>7, FinishedRequestsStay
  <2> QED
    BY <1>4, <2>1, <2>2
<1>8. CASE reqStatus[r] \in {"approved", "rejected", "cancelled", "sample_shipped",
                              "in_progress"}
  <2>1. Phase(s) = PhaseOf(sampleStatus[s])
    BY <1>1, <1>8, PhaseIs
  <2>2. PhaseOf(sampleStatus'[s]) >= PhaseOf(sampleStatus[s])
    BY <1>3 DEF PhaseOf, WaferMove, SetAside
  <2>3. PhaseOf(sampleStatus[s]) \in 0..4
    BY DEF PhaseOf
  <2>4. reqStatus'[r] \notin {"draft", "pending_approval"}
    BY <1>8, RequestMoves
  <2> QED
    BY <1>4, <2>1, <2>2, <2>3, <2>4
<1> QED
  BY <1>2, <1>6, <1>7, <1>8 DEF RequestStatuses

\* The phase that an owner is shown of a wafer never goes back, unless the wafer
\* is set aside or its request was returned.
THEOREM PhasesGoForward == Spec => PhaseNeverGoesBack
<1>1. Init => AllInv
  BY InitAll
<1>2. AllInv /\ [Next]_vars => AllInv'
  BY NextAll
<1>3. AllInv /\ AllInv' /\ [Next]_vars =>
        [\A s \in Samples : owner[s] # Nil /\ owner'[s] = owner[s] =>
            \/ Phase(s)' >= Phase(s)
            \/ sampleStatus'[s] \in SetAside
            \/ reqStatus[owner[s]] = "returned"]_vars
  BY PhaseStays
<1> QED
  BY <1>1, <1>2, <1>3, PTL DEF Spec, PhaseNeverGoesBack

-----------------------------------------------------------------------------
\* The counts of a wafer's experiments.

LEMMA CountsMatch == AllInv => CountsAgree
<1> SUFFICES ASSUME AllInv, NEW s \in Samples, owner[s] # Nil, chosen[s] # {}
             PROVE  /\ \A t \in OwnersDone(s) : sesVerdict[s][t] # Nil =>
                            t \in ManagersDone(s)
                    /\ \A t \in ManagersDone(s) \ OwnersDone(s) :
                            RunsOf(s, t, {"unloaded"}) # {}
                    /\ sampleStatus[s] = "completed" => ManagersDone(s) = chosen[s]
  BY DEF CountsAgree
<1> USE DEF AllInv, LabInv
<1>1. SelectedTypes(s) = chosen[s] /\ chosen[s] \subseteq ExpTypes
  BY DEF SelectedTypes, TypeOK, CommissionTypeOK
<1>2. \A t \in ExpTypes : sesVerdict[s][t] # Nil => sesStatus[s][t] = "completed"
  BY DEF VerdictTraceable
<1>3. OwnersDone(s) = {t \in chosen[s] : RunsOf(s, t, {"completed"}) # {}}
  <2>1. \A t : ExperimentOf(s, t).type = t /\
            (ExperimentOf(s, t).status = "done" <=> RunsOf(s, t, {"completed"}) # {})
    BY DEF ExperimentOf
  <2> QED
    BY <1>1, <2>1 DEF OwnersDone, ExperimentsOf
<1>4. ASSUME NEW t \in ManagersDone(s), t \notin OwnersDone(s)
      PROVE  RunsOf(s, t, {"unloaded"}) # {}
  <2>1. t \in chosen[s] /\ t \in ExpTypes /\ sesStatus[s][t] = "completed"
    BY <1>1, <1>4 DEF ManagersDone
  <2>2. PICK d \in Dispatches :
            /\ dStatus[d] \in {"unloaded", "completed"}
            /\ wipType[dWip[d]] = t
            /\ s \in wipSamples[dWip[d]]
    BY <2>1 DEF VerdictTraceable
  <2> QED
    BY <1>3, <1>4, <2>1, <2>2 DEF RunsOf
<1>5. sampleStatus[s] = "completed" => ManagersDone(s) = chosen[s]
  BY <1>1 DEF ManagersDone, CompletedWaferMeasured
<1> QED
  BY <1>1, <1>2, <1>3, <1>4, <1>5 DEF ManagersDone

\* The owner, who is told by the runs, and the manager, who is told by the
\* progress rows, are told of the same experiments, up to runs to be recorded.
THEOREM DoneIsDoneForAll == Spec => []CountsAgree
BY SiteSafety, CountsMatch, PTL

-----------------------------------------------------------------------------
\* The report of the runs and the pages of the runs.

\* The runs whose row of the report counts a verdict of wafer s for type t.
Counting(s, t) ==
    {d \in DispatchRows : wipType[dWip[d]] = t /\ \E v \in Verdicts :
        s \in DispatchRow(d).verdicts[v]}

\* A run counts a verdict of a wafer exactly when a progress row names it.
LEMMA CountedByRow ==
    ASSUME AllInv, NEW s \in Samples, NEW t \in ExpTypes, NEW d \in Dispatches
    PROVE  d \in Counting(s, t) <=>
                sesStatus[s][t] = "completed" /\ sesDispatch[s][t] = d
<1> USE DEF AllInv, LabInv
<1>1. ASSUME NEW v \in Verdicts
      PROVE  s \in DispatchRow(d).verdicts[v] <=>
                \E u \in ExpTypes : sesDispatch[s][u] = d /\ sesVerdict[s][u] = v
  BY DEF DispatchRow, CountedFor
<1>2. ASSUME d \in Counting(s, t)
      PROVE  sesStatus[s][t] = "completed" /\ sesDispatch[s][t] = d
  <2>1. wipType[dWip[d]] = t
    BY <1>2 DEF Counting
  <2>2. PICK v \in Verdicts : s \in DispatchRow(d).verdicts[v]
    BY <1>2 DEF Counting
  <2>3. PICK u \in ExpTypes : sesDispatch[s][u] = d /\ sesVerdict[s][u] = v
    BY <1>1, <2>2
  <2>4. sesVerdict[s][u] # Nil
    BY <2>3, WipAssumption
  <2>5. sesStatus[s][u] = "completed"
    BY <2>4 DEF VerdictTraceable
  <2>6. wipType[dWip[d]] = u
    BY <2>3, <2>5 DEF VerdictTraceable
  <2> QED
    BY <2>1, <2>3, <2>5, <2>6
<1>3. ASSUME sesStatus[s][t] = "completed", sesDispatch[s][t] = d
      PROVE  d \in Counting(s, t)
  <2>1. /\ sesVerdict[s][t] # Nil
        /\ dStatus[d] \in {"unloaded", "completed"}
        /\ wipType[dWip[d]] = t
    BY <1>3 DEF VerdictTraceable
  <2>2. sesVerdict[s][t] \in Verdicts
    BY <2>1 DEF TypeOK, WipTypeOK
  <2> QED
    BY <1>1, <1>3, <2>1, <2>2 DEF Counting, DispatchRows
<1> QED
  BY <1>2, <1>3

\* The page of a run shows the verdict of the wafer's row of the run's type.
LEMMA VerdictOnPage ==
    ASSUME AllInv, NEW s \in Samples, NEW t \in ExpTypes, t \in SelectedTypes(s),
           NEW d \in ExperimentOf(s, t).runs
    PROVE  [sample |-> s, verdict |-> sesVerdict[s][t]] \in WaferVerdicts(d)
<1> DEFINE e == ExperimentOf(s, t)
           it == CHOOSE x \in ExperimentsOf(s) : d \in x.runs
<1>1. \A u : /\ ExperimentOf(s, u).type = u
             /\ ExperimentOf(s, u).verdict = sesVerdict[s][u]
             /\ \A x \in ExperimentOf(s, u).runs :
                    /\ x \in Dispatches
                    /\ wipType[dWip[x]] = u /\ s \in wipSamples[dWip[x]]
  BY DEF ExperimentOf, RunsOf
<1>2. e \in ExperimentsOf(s) /\ d \in e.runs
  BY DEF ExperimentsOf
<1>3. it \in ExperimentsOf(s) /\ d \in it.runs
  BY <1>2
<1>4. PICK u \in SelectedTypes(s) : it = ExperimentOf(s, u)
  BY <1>3 DEF ExperimentsOf
<1>5. u = t
  BY <1>1, <1>2, <1>3, <1>4
<1>6. it.verdict = sesVerdict[s][t]
  BY <1>1, <1>4, <1>5
<1>7. s \in wipSamples[dWip[d]]
  BY <1>1, <1>2
<1> QED
  BY <1>2, <1>6, <1>7 DEF WaferVerdicts

LEMMA VerdictsMatch == AllInv => VerdictsCounted
<1> SUFFICES ASSUME AllInv, NEW s \in Samples, NEW t \in ExpTypes
             PROVE  LET counting == Counting(s, t) IN
                    /\ Cardinality(counting) =
                            IF sesStatus[s][t] = "completed" THEN 1 ELSE 0
                    /\ \A d \in counting :
                        /\ dStatus[d] \in {"unloaded", "completed"}
                        /\ s \in DispatchRow(d).samples
                        /\ s \in DispatchRow(d).verdicts[sesVerdict[s][t]]
                        /\ \E e \in DispatchRows : /\ wipType[dWip[e]] = t
                            /\ [sample |-> s, verdict |-> sesVerdict[s][t]]
                                    \in WaferVerdicts(e)
  BY DEF VerdictsCounted, Counting
<1> USE DEF AllInv, LabInv
<1>1. Counting(s, t) \subseteq Dispatches
  BY DEF Counting, DispatchRows
<1>2. CASE sesStatus[s][t] # "completed"
  <2>1. Counting(s, t) = {}
    BY <1>1, <1>2, CountedByRow
  <2> QED
    BY <1>2, <2>1, FS_EmptySet
<1>3. CASE sesStatus[s][t] = "completed"
  <2> DEFINE d == sesDispatch[s][t]
  <2>1. /\ sesVerdict[s][t] # Nil
        /\ d \in Dispatches
        /\ dStatus[d] \in {"unloaded", "completed"}
        /\ wipType[dWip[d]] = t
        /\ s \in wipSamples[dWip[d]]
    BY <1>3 DEF VerdictTraceable
  <2>2. Counting(s, t) = {d}
    BY <1>1, <1>3, <2>1, CountedByRow
  <2>3. Cardinality(Counting(s, t)) = 1
    BY <2>2, FS_Singleton
  <2>4. s \in DispatchRow(d).samples
    BY <2>1 DEF DispatchRow
  <2>5. s \in DispatchRow(d).verdicts[sesVerdict[s][t]]
    <3>1. sesVerdict[s][t] \in Verdicts
      BY <2>1 DEF TypeOK, WipTypeOK
    <3> QED
      BY <3>1 DEF DispatchRow, CountedFor
  <2>6. dWip[d] \in Wips /\ t \in SelectedTypes(s)
    <3>1. dWip[d] \in Wips
      BY <2>1 DEF DispatchInv, DispatchesBound
    <3> QED
      BY <2>1, <3>1 DEF BatchesMatchSelection
  <2>7. ExperimentOf(s, t).runs # {}
    BY <2>1 DEF ExperimentOf, RunsOf, ActiveRunStatuses
  <2>8. PICK e \in ExperimentOf(s, t).runs : TRUE
    BY <2>7
  <2>9. e \in DispatchRows /\ wipType[dWip[e]] = t
    BY <2>8 DEF ExperimentOf, RunsOf, ActiveRunStatuses, DispatchRows
  <2>10. [sample |-> s, verdict |-> sesVerdict[s][t]] \in WaferVerdicts(e)
    BY <2>6, <2>8, VerdictOnPage
  <2> QED
    BY <1>3, <2>1, <2>2, <2>3, <2>4, <2>5, <2>9, <2>10
<1> QED
  BY <1>2, <1>3

\* What is done is reported once, in the row of one run, and shown on the page of
\* some run of the experiment; nothing else is counted.
THEOREM VerdictsAreCountedOnce == Spec => []VerdictsCounted
BY SiteSafety, VerdictsMatch, PTL

-----------------------------------------------------------------------------
\* The chips of a wafer.

\* A wafer that the laboratory holds is in no aborted batch, ...
LEMMA HeldIsNotAborted ==
    ASSUME SiteInv, NEW s \in Samples, sampleStatus[s] \in {"received", "processing"},
           NEW w \in Wips, s \in wipSamples[w]
    PROVE  wipStatus[w] # "aborted"
BY DEF SiteInv, AbortedIsSetAside

\* ... so that its runs are those of batches that go on or are done.
LEMMA BatchesMatch == AllInv /\ SiteInv => BatchIsLinked
<1> SUFFICES ASSUME AllInv, SiteInv, NEW s \in Samples,
                    sampleStatus[s] \in {"received", "processing"},
                    NEW t \in SelectedTypes(s)
             PROVE  LET e == ExperimentOf(s, t)
                        batches == {w \in OpenBatches(s) : wipType[w] = e.type}
                        going == {w \in Wips : /\ wipStatus[w] # "aborted"
                                               /\ s \in wipSamples[w]}
                    IN  batches # {} =>
                            /\ ChipTargets(e) # {}
                            /\ e.status # "done" =>
                                ChipTargets(e) \subseteq
                                    LinksTo("lab_wip_detail", batches)
                                        \cup UNION {RunTable(w) : w \in going}
  BY DEF BatchIsLinked, ExperimentsOf
<1> DEFINE e == ExperimentOf(s, t)
           batches == {w \in OpenBatches(s) : wipType[w] = e.type}
           going == {w \in Wips : wipStatus[w] # "aborted" /\ s \in wipSamples[w]}
<1>1. /\ e.sample = s /\ e.type = t
      /\ \A d \in e.runs : /\ d \in Dispatches /\ dStatus[d] # "none"
                           /\ s \in wipSamples[dWip[d]]
  BY DEF ExperimentOf, RunsOf, ActiveRunStatuses
<1>2. CASE e.runs = {}
  <2>1. ChipTargets(e) = LinksTo("lab_wip_detail", batches)
    BY <1>1, <1>2 DEF ChipTargets
  <2> QED
    BY <2>1 DEF LinksTo
<1>3. CASE e.runs # {}
  <2>1. ChipTargets(e) = LinksTo("lab_dispatch_detail", e.runs)
    BY <1>3 DEF ChipTargets
  <2>2. ASSUME NEW d \in e.runs PROVE dWip[d] \in going /\ d \in DispatchesOf(dWip[d])
    <3>1. dWip[d] \in Wips
      BY <1>1 DEF AllInv, DispatchInv, DispatchesBound
    <3> QED
      BY <1>1, <3>1, HeldIsNotAborted DEF DispatchesOf
  <2>3. ChipTargets(e) # {}
    BY <1>3, <2>1 DEF LinksTo
  <2>4. ChipTargets(e) \subseteq UNION {RunTable(w) : w \in going}
    <3> SUFFICES ASSUME NEW d \in e.runs
                 PROVE  \E w \in going : LinkTo("lab_dispatch_detail", d) \in RunTable(w)
      BY <2>1 DEF LinksTo
    <3> QED
      BY <2>2 DEF RunTable, LinksTo
  <2> QED
    BY <2>3, <2>4
<1> QED
  BY <1>2, <1>3

\* The chip of an experiment leads to work that goes on while an open batch of
\* the type has the wafer.
THEOREM ChipsLeadToWork == Spec => []BatchIsLinked
BY SiteSafety, BatchesMatch, PTL

-----------------------------------------------------------------------------
\* The dashboards.

LEMMA LinkFields ==
    ASSUME NEW page, NEW x
    PROVE  /\ Link(page).page = page /\ Link(page).id = "none" /\ Link(page).tab = "none"
           /\ LinkTo(page, x).page = page /\ LinkTo(page, x).id = x
           /\ LinkTo(page, x).tab = "none"
           /\ LinkTab(page, x).page = page /\ LinkTab(page, x).id = "none"
           /\ LinkTab(page, x).tab = x
BY DEF Link, LinkTo, LinkTab

\* The rows of the lists that the tiles lead to.
LEMMA ListsBehind ==
    /\ RowsBehind(LinkTab("fab_requests", "all")) =
            RowsOf("fab_request", Filed(RequestStates))
    /\ RowsBehind(LinkTab("fab_requests", "in_progress")) =
            RowsOf("fab_request", Filed({"in_progress"}))
    /\ RowsBehind(LinkTab("fab_requests", "returned")) =
            RowsOf("fab_request", Filed({"returned"}))
    /\ RowsBehind(Link("fab_drafts")) = DraftRows
    /\ RowsBehind(LinkTab("lab_samples", "incoming")) = SampleTab("incoming")
    /\ RowsBehind(Link("lab_wip")) = WipTab("active")
    /\ RowsBehind(LinkTab("lab_dispatches", "active")) = DispatchTab("active")
    /\ RowsBehind(LinkTab("lab_dispatches", "record")) = DispatchTab("record")
<1>1. ASSUME NEW tab \in {"all", "in_progress", "returned"}
      PROVE  RowsBehind(LinkTab("fab_requests", tab)) =
                RowsOf("fab_request", IF tab = "all" THEN Filed(RequestStates)
                                      ELSE Filed({tab}))
  <2>1. RowsBehind(LinkTab("fab_requests", tab)) = FabTab(tab)
    BY LinkFields DEF RowsBehind, Tab
  <2> QED
    BY <2>1 DEF FabTab
<1>2. RowsBehind(Link("fab_drafts")) = DraftRows
  BY LinkFields DEF RowsBehind
<1>3. RowsBehind(LinkTab("lab_samples", "incoming")) = SampleTab("incoming")
  BY LinkFields DEF RowsBehind, ListTab, Tab
<1>4. RowsBehind(Link("lab_wip")) = WipTab("active")
  BY LinkFields DEF RowsBehind, ListTab
<1>5. ASSUME NEW tab \in {"active", "record"}
      PROVE  RowsBehind(LinkTab("lab_dispatches", tab)) = DispatchTab(tab)
  BY LinkFields DEF RowsBehind, ListTab, Tab
<1> QED
  BY <1>1, <1>2, <1>3, <1>4, <1>5

\* What a tile counts is in the list behind it, the rejected requests apart.
LEMMA TilesMatch ==
    ASSUME NEW tile \in Tiles, tile.link # Link("mgr_all_requests"),
           NEW row \in tile.rows, row \notin FabTab("rejected")
    PROVE  row \in RowsBehind(tile.link)
<1>1. CASE tile \in FabTiles
  <2>1. FabTab("rejected") = RowsOf("fab_request", Filed({"rejected"}))
    BY DEF FabTab
  <2>2. Filed({"submitted"}) \subseteq Filed(RequestStates)
    BY DEF Filed, RequestStates
  <2>3. Filed({"returned", "rejected"}) \subseteq Filed({"returned"}) \cup Filed({"rejected"})
    BY DEF Filed
  <2>4. CASE tile = Counter(RowsOf("fab_request", Filed({"submitted"})),
                            LinkTab("fab_requests", "all"))
    BY <2>2, <2>4, ListsBehind DEF Counter, RowsOf
  <2>5. CASE tile = Counter(RowsOf("fab_request", Filed({"in_progress"})),
                            LinkTab("fab_requests", "in_progress"))
    BY <2>5, ListsBehind DEF Counter
  <2>6. CASE tile = Counter(RowsOf("fab_request", Filed({"returned", "rejected"})),
                            LinkTab("fab_requests", "returned"))
    BY <2>1, <2>3, <2>6, ListsBehind DEF Counter, RowsOf
  <2>7. CASE tile = Counter(DraftRows, Link("fab_drafts"))
    BY <2>7, ListsBehind DEF Counter
  <2> QED
    BY <1>1, <2>4, <2>5, <2>6, <2>7 DEF FabTiles
<1>2. CASE tile \in LabTiles
  <2>1. CASE tile = Counter(SampleTab("incoming"), LinkTab("lab_samples", "incoming"))
    BY <2>1, ListsBehind DEF Counter
  <2>2. CASE tile = Counter(RowsOf("wip", {w \in Wips : wipStatus[w] = "in_progress"}),
                            Link("lab_wip"))
    BY <2>2, ListsBehind DEF Counter, RowsOf, WipTab
  <2>3. CASE tile = Counter(RowsOf("dispatch",
                                   {d \in Dispatches : dStatus[d] = "running"}),
                            LinkTab("lab_dispatches", "active"))
    BY <2>3, ListsBehind DEF Counter, RowsOf, DispatchTab, DispatchGroups, ShownDispatch
  <2>4. CASE tile = Counter(RowsOf("dispatch", {d \in Dispatches :
                                ShownDispatch(dStatus[d]) \in {"unloaded", "exception"}}),
                            LinkTab("lab_dispatches", "record"))
    BY <2>4, ListsBehind DEF Counter, RowsOf, DispatchTab, DispatchGroups
  <2> QED
    BY <1>2, <2>1, <2>2, <2>3, <2>4 DEF LabTiles
<1>3. tile \notin MgrTiles
  BY DEF MgrTiles, Counter
<1> QED
  BY <1>1, <1>2, <1>3 DEF Tiles

\* A run that is not over has its dot, and one that failed has its notice instead.
LEMMA DotOrNotice ==
    ASSUME NEW d \in NowRunning \cup AwaitingYourResult, dStatus[d] \in DispatchStatuses
    PROVE  Dots(d).current # {} <=> Notice(d) = "none"
<1> DEFINE st == ShownDispatch(dStatus[d])
<1>1. /\ st \in {"pending", "dispatched", "running", "unloaded", "exception"}
      /\ st = "exception" <=>
            dStatus[d] \in {"execution_exception", "pending_redispatch"}
      /\ st # "exception" => dStatus[d] = st
  BY DEF NowRunning, AwaitingYourResult, OnMachine, ShownDispatch, DispatchStatuses
<1>2. Notice(d) = "none" <=> st # "exception"
  BY <1>1 DEF Notice
<1>3. Dots(d).current = {i \in DOMAIN StatusFlow :
            st # "completed" /\ ~(st \in {"aborted", "exception"}) /\ i = StepOf(st)}
  BY DEF Dots
<1>4. ASSUME st # "exception" PROVE StepOf(st) \in DOMAIN StatusFlow
  <2>1. PICK n \in 1..4 : \A i \in DOMAIN StatusFlow : StatusFlow[i] = st <=> i = n
    BY <1>1, <1>4 DEF StatusFlow
  <2>2. StepOf(st) = Max({0, n})
    <3>1. {i \in DOMAIN StatusFlow : StatusFlow[i] = st} = {n}
      BY <2>1 DEF StatusFlow
    <3> QED
      BY <3>1 DEF StepOf
  <2>3. Max({0, n}) = n
    BY DEF Max
  <2> QED
    BY <2>2, <2>3 DEF StatusFlow
<1> HIDE DEF st
<1> QED
  BY <1>1, <1>2, <1>3, <1>4

\* The wafers of a run that is shown are processing or done for their owners.
LEMMA RunsShowProgress ==
    ASSUME AllInv, NEW d \in Dispatches, dStatus[d] # "none", NEW s \in wipSamples[dWip[d]]
    PROVE  Phase(s) \in {3, 4} \/ sampleStatus[s] \in SetAside
<1> USE DEF AllInv, LabInv
<1>1. dWip[d] \in Wips
  BY DEF DispatchInv, DispatchesBound
<1>2. /\ s \in Samples
      /\ sampleStatus[s] \in {"processing", "processing_exception", "completed",
                              "voided", "returned"}
  BY <1>1 DEF BatchesMatchSelection, TypeOK, WipTypeOK
<1>3. /\ owner[s] # Nil
      /\ reqStatus[owner[s]] \in {"in_progress", "completed", "closed", "cancelled"}
  BY <1>1, <1>2 DEF LabWorkNeedsRequest
<1> QED
  BY <1>2, <1>3, PhaseIs DEF PhaseOf, SetAside

LEMMA OverviewsMatch == AllInv /\ SiteInv => OverviewsAgree
<1> SUFFICES ASSUME AllInv, SiteInv PROVE OverviewsAgree
  OBVIOUS
<1>1. ASSUME NEW tile \in Tiles, tile.link # Link("mgr_all_requests")
      PROVE  {row \in tile.rows : row \notin FabTab("rejected")}
                \subseteq RowsBehind(tile.link)
  BY <1>1, TilesMatch
<1>2. NowRunning \cap AwaitingYourResult = {}
  BY DEF NowRunning, AwaitingYourResult, OnMachine, ShownDispatch
<1>3. ASSUME NEW d \in NowRunning \cup AwaitingYourResult
      PROVE  /\ Dots(d).current # {} <=> Notice(d) = "none"
             /\ Countdown(d) # "estimate"
             /\ \A s \in wipSamples[dWip[d]] :
                    Phase(s) \in {3, 4} \/ sampleStatus[s] \in SetAside
  <2>1. d \in Dispatches
    BY DEF NowRunning, AwaitingYourResult
  <2>2. dStatus[d] # "none" /\ dStatus[d] \in DispatchStatuses
    BY <2>1 DEF NowRunning, AwaitingYourResult, OnMachine, ShownDispatch, AllInv, TypeOK,
       WipTypeOK
  <2>3. Countdown(d) # "estimate"
    <3>1. dStatus[d] = "running" => dTimer[d] \in {"set", "elapsed"}
      BY <2>1 DEF SiteInv, RunsAreTimed, AllInv, TypeOK, WipTypeOK
    <3> QED
      BY <3>1 DEF Countdown
  <2> QED
    BY <2>1, <2>2, <2>3, DotOrNotice, RunsShowProgress
<1> QED
  BY <1>1, <1>2, <1>3 DEF OverviewsAgree

\* The tiles count what their lists hold, and the three roles see one moment of a
\* batch alike.
THEOREM RolesSeeAlike == Spec => []OverviewsAgree
BY SiteSafety, OverviewsMatch, PTL

-----------------------------------------------------------------------------
\* Addresses.

LEMMA Segments ==
    ASSUME NEW a, NEW b
    PROVE  /\ Segment(<<a>>, 1) = a /\ Segment(<<a>>, 2) = "none"
           /\ Segment(<<a, b>>, 1) = a /\ Segment(<<a, b>>, 2) = b
BY DEF Segment

LEMMA SegmentOfTail ==
    ASSUME NEW S
    PROVE  \A path \in Seq(S) : path # <<>> =>
                \A i \in 1..3 : Segment(Tail(path), i) = Segment(path, i + 1)
<1> SUFFICES ASSUME NEW path \in Seq(S), path # <<>>, NEW i \in 1..3
             PROVE  Segment(Tail(path), i) = Segment(path, i + 1)
  OBVIOUS
<1>1. /\ Len(Tail(path)) = Len(path) - 1
      /\ \A k \in 1..Len(Tail(path)) : Tail(path)[k] = path[k + 1]
  BY HeadTailProperties
<1>2. Len(path) \in Nat
  OBVIOUS
<1> QED
  BY <1>1, <1>2 DEF Segment

\* What the route and the menu of an area see of an address.
LEMMA FabPath ==
    ASSUME NEW x
    PROVE  /\ <<"fab", x>>[1] = "fab"
           /\ Segment(Tail(<<"fab", x>>), 1) = x
           /\ Segment(Tail(<<"fab", x>>), 2) = "none"
<1> DEFINE S == {"fab", x} path == <<"fab", x>>
<1>1. path \in Seq(S) /\ path # <<>> /\ path[1] = "fab"
  OBVIOUS
<1>2. Segment(path, 1 + 1) = x /\ Segment(path, 2 + 1) = "none"
  BY DEF Segment
<1> HIDE DEF S, path
<1>3. \A p \in Seq(S) : p # <<>> =>
            \A i \in 1..3 : Segment(Tail(p), i) = Segment(p, i + 1)
  BY SegmentOfTail
<1>4. \A i \in 1..3 : Segment(Tail(path), i) = Segment(path, i + 1)
  BY <1>1, <1>3
<1> QED
  BY <1>1, <1>2, <1>4 DEF path

LEMMA FabPathTo ==
    ASSUME NEW x, NEW y
    PROVE  /\ <<"fab", x, y>>[1] = "fab"
           /\ Segment(Tail(<<"fab", x, y>>), 1) = x
           /\ Segment(Tail(<<"fab", x, y>>), 2) = y
<1> DEFINE S == {"fab", x, y} path == <<"fab", x, y>>
<1>1. path \in Seq(S) /\ path # <<>> /\ path[1] = "fab"
  OBVIOUS
<1>2. Segment(path, 1 + 1) = x /\ Segment(path, 2 + 1) = y
  BY DEF Segment
<1> HIDE DEF S, path
<1>3. \A p \in Seq(S) : p # <<>> =>
            \A i \in 1..3 : Segment(Tail(p), i) = Segment(p, i + 1)
  BY SegmentOfTail
<1>4. \A i \in 1..3 : Segment(Tail(path), i) = Segment(path, i + 1)
  BY <1>1, <1>3
<1> QED
  BY <1>1, <1>2, <1>4 DEF path

\* The address of a link in the laboratory: below /lab, or below /manager/lab.
LEMMA LabPath ==
    ASSUME NEW S, "lab" \in S, NEW path \in Seq(S)
    PROVE  /\ (<<"lab">> \o path)[1] = "lab"
           /\ \A i \in 1..2 : Segment(Tail(<<"lab">> \o path), i) = Segment(path, i)
<1> DEFINE base == <<"lab">> whole == base \o path
<1>1. base \in Seq(S) /\ Len(base) = 1 /\ base[1] = "lab" /\ Len(path) \in Nat
  OBVIOUS
<1> HIDE DEF base
<1>2. /\ whole \in Seq(S)
      /\ Len(whole) = Len(base) + Len(path)
      /\ \A i \in 1..Len(base) + Len(path) :
            whole[i] = IF i <= Len(base) THEN base[i] ELSE path[i - Len(base)]
  BY <1>1, ConcatProperties
<1> HIDE DEF whole
<1>3. whole # <<>> /\ whole[1] = "lab"
  BY <1>1, <1>2
<1>4. \A i \in 1..2 : Segment(whole, i + 1) = Segment(path, i)
  BY <1>1, <1>2 DEF Segment
<1>5. \A i \in 1..3 : Segment(Tail(whole), i) = Segment(whole, i + 1)
  BY <1>2, <1>3, SegmentOfTail
<1> QED
  BY <1>3, <1>4, <1>5 DEF whole, base

LEMMA ManagerLabPath ==
    ASSUME NEW S, {"manager", "lab"} \subseteq S, NEW path \in Seq(S), path # <<>>
    PROVE  /\ (<<"manager", "lab">> \o path)[1] = "manager"
           /\ Segment(Tail(<<"manager", "lab">> \o path), 1) = "lab"
           /\ \A i \in 1..2 :
                Segment(Tail(Tail(<<"manager", "lab">> \o path)), i) = Segment(path, i)
<1> DEFINE base == <<"manager", "lab">> whole == base \o path
<1>1. /\ base \in Seq(S) /\ Len(base) = 2 /\ base[1] = "manager" /\ base[2] = "lab"
      /\ Len(path) \in Nat /\ Len(path) # 0
  OBVIOUS
<1> HIDE DEF base
<1>2. /\ whole \in Seq(S)
      /\ Len(whole) = Len(base) + Len(path)
      /\ \A i \in 1..Len(base) + Len(path) :
            whole[i] = IF i <= Len(base) THEN base[i] ELSE path[i - Len(base)]
  BY <1>1, ConcatProperties
<1> HIDE DEF whole
<1>3. whole # <<>> /\ whole[1] = "manager" /\ Segment(whole, 2) = "lab"
  BY <1>1, <1>2 DEF Segment
<1>4. \A i \in 1..2 : Segment(whole, i + 2) = Segment(path, i)
  BY <1>1, <1>2 DEF Segment
<1>5. \A p \in Seq(S) : p # <<>> =>
            \A i \in 1..3 : Segment(Tail(p), i) = Segment(p, i + 1)
  BY SegmentOfTail
<1>6. \A i \in 1..3 : Segment(Tail(whole), i) = Segment(whole, i + 1)
  BY <1>2, <1>3, <1>5
<1>7. Tail(whole) \in Seq(S) /\ Tail(whole) # <<>>
  <2>1. Tail(whole) \in Seq(S) /\ Len(Tail(whole)) = Len(whole) - 1
    BY <1>2, <1>3, HeadTailProperties
  <2>2. Len(Tail(whole)) # 0
    BY <1>1, <1>2, <2>1
  <2>3. Len(<<>>) = 0
    OBVIOUS
  <2> QED
    BY <2>1, <2>2, <2>3
<1>8. \A i \in 1..3 : Segment(Tail(Tail(whole)), i) = Segment(Tail(whole), i + 1)
  BY <1>5, <1>7, Zenon
<1>9. Segment(Tail(whole), 1) = "lab"
  BY <1>3, <1>6
<1>10. \A i \in 1..2 : Segment(Tail(Tail(whole)), i) = Segment(path, i)
  BY <1>4, <1>6, <1>8
<1> QED
  BY <1>3, <1>9, <1>10 DEF whole, base

\* What LinksLand says of one link, but that the page is there.
Lands(area, from, l) ==
    LET url == Navigate(area, from, l) drawn == Drawn(url) IN
    /\ drawn.page = l.page /\ drawn.id = l.id
    /\ drawn.id # "none" => drawn = l
    /\ l.tab # "none" => drawn.tab = l.tab
    /\ drawn.tab # "none" => drawn.tab \in KnownTabs[drawn.page]
    /\ url.path[1] = area
    /\ Marked(url) \in Menu(area)

\* The links of an area, whatever the tables hold.
FabLinks ==
    {Link("fab_drafts"), Link("fab_new"), Link("fab_requests")}
        \cup {LinkTab("fab_requests", tab) : tab \in FabListTabs}
        \cup LinksTo("fab_request", Requests) \cup LinksTo("fab_draft_edit", Requests)

LabLinks ==
    {Link("lab_samples"), Link("lab_wip"), Link("lab_dispatches"), Link("lab_equipment"),
     LinkTab("lab_samples", "incoming"), LinkTab("lab_dispatches", "active"),
     LinkTab("lab_dispatches", "record")}
        \cup LinksTo("lab_wafer", Samples) \cup LinksTo("lab_wip_detail", Wips)
        \cup LinksTo("lab_dispatch_detail", Dispatches)

ManagersOwnLinks == {Link("mgr_all_requests")} \cup LinksTo("mgr_request", Requests)

\* The route and the menu of an area.
LEMMA FabDraws ==
    ASSUME NEW path, NEW tab, path[1] = "fab"
    PROVE  /\ Drawn([path |-> path, tab |-> tab]) = FabRoute(Tail(path), tab)
           /\ Marked([path |-> path, tab |-> tab]) = PathToFabPage(Tail(path))
BY DEF Drawn, Marked

LEMMA FabLands ==
    ASSUME NEW from, NEW l \in FabLinks
    PROVE  Lands("fab", from, l)
<1>1. KnownTabs["fab_requests"] = FabListTabs
  BY DEF KnownTabs
<1>2. "all" \in FabListTabs /\ "none" \notin FabListTabs
  BY DEF FabListTabs
<1>3. CASE l = Link("fab_drafts")
  <2> DEFINE path == <<"fab", "drafts">>
  <2>1. Navigate("fab", from, l) = [path |-> path, tab |-> "none"]
    BY <1>3, LinkFields DEF Navigate, FabUrl, Url
  <2>2. /\ path[1] = "fab"
        /\ Segment(Tail(path), 1) = "drafts" /\ Segment(Tail(path), 2) = "none"
    BY FabPath
  <2> HIDE DEF path
  <2>3. FabRoute(Tail(path), "none") = Link("fab_drafts")
    BY <2>2 DEF FabRoute, ListOrRow, Tab
  <2>4. PathToFabPage(Tail(path)) = "fab_drafts"
    BY <2>2 DEF PathToFabPage
  <2> QED
    BY <1>1, <1>2, <1>3, <2>1, <2>2, <2>3, <2>4, FabDraws, LinkFields
       DEF Lands, Menu, FabMenu
<1>4. CASE l = Link("fab_new")
  <2> DEFINE path == <<"fab", "requests", "new">>
  <2>1. Navigate("fab", from, l) = [path |-> path, tab |-> "none"]
    BY <1>4, LinkFields DEF Navigate, FabUrl, Url
  <2>2. /\ path[1] = "fab"
        /\ Segment(Tail(path), 1) = "requests" /\ Segment(Tail(path), 2) = "new"
    BY FabPathTo
  <2> HIDE DEF path
  <2>3. FabRoute(Tail(path), "none") = Link("fab_new")
    BY <2>2 DEF FabRoute, ListOrRow, Tab
  <2>4. PathToFabPage(Tail(path)) = "fab_new"
    BY <2>2 DEF PathToFabPage
  <2> QED
    BY <1>1, <1>2, <1>4, <2>1, <2>2, <2>3, <2>4, FabDraws, LinkFields
       DEF Lands, Menu, FabMenu
<1>5. CASE l = Link("fab_requests")
  <2> DEFINE path == <<"fab", "requests">>
  <2>1. Navigate("fab", from, l) = [path |-> path, tab |-> "none"]
    BY <1>5, LinkFields DEF Navigate, FabUrl, Url
  <2>2. /\ path[1] = "fab"
        /\ Segment(Tail(path), 1) = "requests" /\ Segment(Tail(path), 2) = "none"
    BY FabPath
  <2> HIDE DEF path
  <2>3. FabRoute(Tail(path), "none") = LinkTab("fab_requests", "all")
    BY <2>2 DEF FabRoute, ListOrRow, Tab
  <2>4. PathToFabPage(Tail(path)) = "fab_requests"
    BY <2>2 DEF PathToFabPage
  <2> QED
    BY <1>1, <1>2, <1>5, <2>1, <2>2, <2>3, <2>4, FabDraws, LinkFields
       DEF Lands, Menu, FabMenu
<1>6. ASSUME NEW tab \in FabListTabs, l = LinkTab("fab_requests", tab)
      PROVE  Lands("fab", from, l)
  <2> DEFINE path == <<"fab", "requests">>
  <2>1. Navigate("fab", from, l) = [path |-> path, tab |-> tab]
    BY <1>6, LinkFields DEF Navigate, FabUrl, Url
  <2>2. /\ path[1] = "fab"
        /\ Segment(Tail(path), 1) = "requests" /\ Segment(Tail(path), 2) = "none"
    BY FabPath
  <2> HIDE DEF path
  <2>3. FabRoute(Tail(path), tab) = LinkTab("fab_requests", tab)
    BY <1>2, <2>2 DEF FabRoute, ListOrRow, Tab
  <2>4. PathToFabPage(Tail(path)) = "fab_requests"
    BY <1>2, <2>2 DEF PathToFabPage
  <2> QED
    BY <1>1, <1>2, <1>6, <2>1, <2>2, <2>3, <2>4, FabDraws, LinkFields
       DEF Lands, Menu, FabMenu
<1>7. ASSUME NEW r \in Requests, l = LinkTo("fab_request", r)
      PROVE  Lands("fab", from, l)
  <2> DEFINE path == <<"fab", "requests", r>>
  <2>5. r # "none" /\ r # "new"
    BY IdsAssumption
  <2>1. Navigate("fab", from, l) = [path |-> path, tab |-> "none"]
    BY <1>7, LinkFields DEF Navigate, FabUrl, Url
  <2>2. /\ path[1] = "fab"
        /\ Segment(Tail(path), 1) = "requests" /\ Segment(Tail(path), 2) = r
    BY FabPathTo
  <2> HIDE DEF path
  <2>3. FabRoute(Tail(path), "none") = LinkTo("fab_request", r)
    BY <2>5, <2>2 DEF FabRoute, ListOrRow, Tab
  <2>4. PathToFabPage(Tail(path)) = "fab_requests"
    BY <2>5, <2>2 DEF PathToFabPage
  <2> QED
    BY <1>1, <1>2, <1>7, <2>1, <2>2, <2>3, <2>4, FabDraws, LinkFields
       DEF Lands, Menu, FabMenu
<1>8. ASSUME NEW r \in Requests, l = LinkTo("fab_draft_edit", r)
      PROVE  Lands("fab", from, l)
  <2> DEFINE path == <<"fab", "drafts", r>>
  <2>5. r # "none" /\ r # "new"
    BY IdsAssumption
  <2>1. Navigate("fab", from, l) = [path |-> path, tab |-> "none"]
    BY <1>8, LinkFields DEF Navigate, FabUrl, Url
  <2>2. /\ path[1] = "fab"
        /\ Segment(Tail(path), 1) = "drafts" /\ Segment(Tail(path), 2) = r
    BY FabPathTo
  <2> HIDE DEF path
  <2>3. FabRoute(Tail(path), "none") = LinkTo("fab_draft_edit", r)
    BY <2>5, <2>2 DEF FabRoute, ListOrRow, Tab
  <2>4. PathToFabPage(Tail(path)) = "fab_drafts"
    BY <2>5, <2>2 DEF PathToFabPage
  <2> QED
    BY <1>1, <1>2, <1>8, <2>1, <2>2, <2>3, <2>4, FabDraws, LinkFields
       DEF Lands, Menu, FabMenu
<1> QED
  BY <1>3, <1>4, <1>5, <1>6, <1>7, <1>8 DEF FabLinks, LinksTo

\* A link of the laboratory without the base it is put below.
LabPathOf(l) ==
    CASE l.page = "lab_samples"         -> <<"samples">>
      [] l.page = "lab_wafer"           -> <<"samples", l.id>>
      [] l.page = "lab_wip"             -> <<"wips">>
      [] l.page = "lab_wip_detail"      -> <<"wips", l.id>>
      [] l.page = "lab_dispatches"      -> <<"dispatches">>
      [] l.page = "lab_dispatch_detail" -> <<"dispatches", l.id>>
      [] l.page = "lab_equipment"       -> <<"equipment">>

LEMMA LabAddress ==
    ASSUME NEW l \in LabLinks, NEW base
    PROVE  /\ LabUrl(l, base) = [path |-> base \o LabPathOf(l), tab |-> l.tab]
           /\ l.page \in LabPageNames
           /\ LabPathOf(l) # <<>>
           /\ \E S : {"manager", "lab"} \subseteq S /\ LabPathOf(l) \in Seq(S)
<1>1. /\ l = [page |-> l.page, id |-> l.id, tab |-> l.tab]
      /\ l.page \in LabPageNames \ {"lab_dashboard"}
      /\ l.page \notin {"lab_samples", "lab_dispatches"} => l.tab = "none"
  BY DEF LabLinks, LinksTo, Link, LinkTo, LinkTab, LabPageNames
<1>2. LabUrl(l, base) = [path |-> base \o LabPathOf(l), tab |-> l.tab]
  BY <1>1 DEF LabUrl, LabPathOf, Url, LabPageNames
<1>3. LabPathOf(l) \in
        {<<"samples">>, <<"samples", l.id>>, <<"wips">>, <<"wips", l.id>>,
         <<"dispatches">>, <<"dispatches", l.id>>, <<"equipment">>}
  BY <1>1 DEF LabPathOf, LabPageNames
<1> DEFINE S == {"manager", "lab", "samples", "wips", "dispatches", "equipment", l.id}
<1>4. LabPathOf(l) # <<>> /\ LabPathOf(l) \in Seq(S)
  <2>1. ASSUME NEW x \in S PROVE <<x>> # <<>> /\ <<x>> \in Seq(S)
    OBVIOUS
  <2>2. ASSUME NEW x \in S, NEW y \in S PROVE <<x, y>> # <<>> /\ <<x, y>> \in Seq(S)
    OBVIOUS
  <2> QED
    BY <1>3, <2>1, <2>2
<1>5. {"manager", "lab"} \subseteq S
  OBVIOUS
<1> QED
  BY <1>1, <1>2, <1>4, <1>5

\* The laboratory's routes and its menu lead a link's path to the link's page.
LabDraws(l, rest) ==
    LET drawn == LabRoute(rest, l.tab) IN
    /\ drawn.page = l.page /\ drawn.id = l.id
    /\ drawn.id # "none" => drawn = l
    /\ l.tab # "none" => drawn.tab = l.tab
    /\ drawn.tab # "none" => drawn.tab \in KnownTabs[drawn.page]
    /\ PathToLabPage(rest) \in LabMenu \ {"lab_dashboard"}

LEMMA LabLinkIsDrawn ==
    ASSUME NEW l \in LabLinks, NEW rest,
           \A i \in 1..2 : Segment(rest, i) = Segment(LabPathOf(l), i)
    PROVE  LabDraws(l, rest)
<1>1. /\ KnownTabs["lab_samples"] = {"all", "incoming", "received", "in_wip",
                                     "completed", "rejected"}
      /\ {"active", "record"} \subseteq KnownTabs["lab_dispatches"]
  BY DEF KnownTabs, DispatchGroups
<1>2. ASSUME NEW x PROVE Segment(<<x>>, 1) = x /\ Segment(<<x>>, 2) = "none"
  BY DEF Segment
<1>3. ASSUME NEW x, NEW y PROVE Segment(<<x, y>>, 1) = x /\ Segment(<<x, y>>, 2) = y
  BY DEF Segment
<1>4. Segment(rest, 1) = Segment(LabPathOf(l), 1) /\ Segment(rest, 2) = Segment(LabPathOf(l), 2)
  OBVIOUS
<1>5. CASE l = Link("lab_samples")
  <2>1. /\ l.page = "lab_samples" /\ l.id = "none" /\ l.tab = "none"
    BY <1>5, LinkFields
  <2>2. LabPathOf(l) = <<"samples">>
    BY <2>1 DEF LabPathOf
  <2>3. Segment(rest, 1) = "samples" /\ Segment(rest, 2) = "none"
    BY <1>2, <1>4, <2>2
  <2>5. LabRoute(rest, l.tab) = LinkTab("lab_samples", "all")
    BY <2>1, <2>3 DEF LabRoute, ListOrRow, Tab
  <2>6. PathToLabPage(rest) = "lab_samples"
    BY <2>3 DEF PathToLabPage
  <2> QED
    BY <1>1, <1>5, <2>1, <2>5, <2>6, LinkFields DEF LabDraws, LabMenu
<1>6. CASE l = LinkTab("lab_samples", "incoming")
  <2>1. /\ l.page = "lab_samples" /\ l.id = "none" /\ l.tab = "incoming"
    BY <1>6, LinkFields
  <2>2. LabPathOf(l) = <<"samples">>
    BY <2>1 DEF LabPathOf
  <2>3. Segment(rest, 1) = "samples" /\ Segment(rest, 2) = "none"
    BY <1>2, <1>4, <2>2
  <2>5. LabRoute(rest, l.tab) = LinkTab("lab_samples", "incoming")
    BY <2>1, <2>3 DEF LabRoute, ListOrRow, Tab
  <2>6. PathToLabPage(rest) = "lab_samples"
    BY <2>3 DEF PathToLabPage
  <2> QED
    BY <1>1, <1>6, <2>1, <2>5, <2>6, LinkFields DEF LabDraws, LabMenu
<1>7. CASE l = Link("lab_wip")
  <2>1. /\ l.page = "lab_wip" /\ l.id = "none" /\ l.tab = "none"
    BY <1>7, LinkFields
  <2>2. LabPathOf(l) = <<"wips">>
    BY <2>1 DEF LabPathOf
  <2>3. Segment(rest, 1) = "wips" /\ Segment(rest, 2) = "none"
    BY <1>2, <1>4, <2>2
  <2>5. LabRoute(rest, l.tab) = Link("lab_wip")
    BY <2>1, <2>3 DEF LabRoute, ListOrRow, Tab
  <2>6. PathToLabPage(rest) = "lab_wip"
    BY <2>3 DEF PathToLabPage
  <2> QED
    BY <1>1, <1>7, <2>1, <2>5, <2>6, LinkFields DEF LabDraws, LabMenu
<1>8. CASE l = Link("lab_dispatches")
  <2>1. /\ l.page = "lab_dispatches" /\ l.id = "none" /\ l.tab = "none"
    BY <1>8, LinkFields
  <2>2. LabPathOf(l) = <<"dispatches">>
    BY <2>1 DEF LabPathOf
  <2>3. Segment(rest, 1) = "dispatches" /\ Segment(rest, 2) = "none"
    BY <1>2, <1>4, <2>2
  <2>5. LabRoute(rest, l.tab) = LinkTab("lab_dispatches", "active")
    BY <2>1, <2>3 DEF LabRoute, ListOrRow, Tab
  <2>6. PathToLabPage(rest) = "lab_dispatches"
    BY <2>3 DEF PathToLabPage
  <2> QED
    BY <1>1, <1>8, <2>1, <2>5, <2>6, LinkFields DEF LabDraws, LabMenu
<1>9. ASSUME NEW tab \in {"active", "record"}, l = LinkTab("lab_dispatches", tab)
      PROVE  LabDraws(l, rest)
  <2>1. /\ l.page = "lab_dispatches" /\ l.id = "none" /\ l.tab = tab
    BY <1>9, LinkFields
  <2>2. LabPathOf(l) = <<"dispatches">>
    BY <2>1 DEF LabPathOf
  <2>3. Segment(rest, 1) = "dispatches" /\ Segment(rest, 2) = "none"
    BY <1>2, <1>4, <2>2
  <2>5. LabRoute(rest, l.tab) = LinkTab("lab_dispatches", tab)
    BY <2>1, <2>3 DEF LabRoute, ListOrRow, Tab
  <2>6. PathToLabPage(rest) = "lab_dispatches"
    BY <2>3 DEF PathToLabPage
  <2> QED
    BY <1>1, <1>9, <2>1, <2>5, <2>6, LinkFields DEF LabDraws, LabMenu
<1>10. CASE l = Link("lab_equipment")
  <2>1. /\ l.page = "lab_equipment" /\ l.id = "none" /\ l.tab = "none"
    BY <1>10, LinkFields
  <2>2. LabPathOf(l) = <<"equipment">>
    BY <2>1 DEF LabPathOf
  <2>3. Segment(rest, 1) = "equipment" /\ Segment(rest, 2) = "none"
    BY <1>2, <1>4, <2>2
  <2>5. LabRoute(rest, l.tab) = Link("lab_equipment")
    BY <2>1, <2>3 DEF LabRoute, ListOrRow, Tab
  <2>6. PathToLabPage(rest) = "lab_equipment"
    BY <2>3 DEF PathToLabPage
  <2> QED
    BY <1>1, <1>10, <2>1, <2>5, <2>6, LinkFields DEF LabDraws, LabMenu
<1>11. ASSUME NEW s \in Samples, l = LinkTo("lab_wafer", s)
      PROVE  LabDraws(l, rest)
  <2>1. /\ l.page = "lab_wafer" /\ l.id = s /\ l.tab = "none"
    BY <1>11, LinkFields
  <2>2. LabPathOf(l) = <<"samples", s>>
    BY <2>1 DEF LabPathOf
  <2>3. Segment(rest, 1) = "samples" /\ Segment(rest, 2) = s
    BY <1>3, <1>4, <2>2
  <2>4. s # "none"
    BY IdsAssumption
  <2>5. LabRoute(rest, l.tab) = LinkTo("lab_wafer", s)
    BY <2>4, <2>1, <2>3 DEF LabRoute, ListOrRow, Tab
  <2>6. PathToLabPage(rest) = "lab_samples"
    BY <2>3 DEF PathToLabPage
  <2> QED
    BY <1>1, <1>11, <2>4, <2>1, <2>5, <2>6, LinkFields DEF LabDraws, LabMenu
<1>12. ASSUME NEW w \in Wips, l = LinkTo("lab_wip_detail", w)
      PROVE  LabDraws(l, rest)
  <2>1. /\ l.page = "lab_wip_detail" /\ l.id = w /\ l.tab = "none"
    BY <1>12, LinkFields
  <2>2. LabPathOf(l) = <<"wips", w>>
    BY <2>1 DEF LabPathOf
  <2>3. Segment(rest, 1) = "wips" /\ Segment(rest, 2) = w
    BY <1>3, <1>4, <2>2
  <2>4. w # "none"
    BY IdsAssumption
  <2>5. LabRoute(rest, l.tab) = LinkTo("lab_wip_detail", w)
    BY <2>4, <2>1, <2>3 DEF LabRoute, ListOrRow, Tab
  <2>6. PathToLabPage(rest) = "lab_wip"
    BY <2>3 DEF PathToLabPage
  <2> QED
    BY <1>1, <1>12, <2>4, <2>1, <2>5, <2>6, LinkFields DEF LabDraws, LabMenu
<1>13. ASSUME NEW d \in Dispatches, l = LinkTo("lab_dispatch_detail", d)
      PROVE  LabDraws(l, rest)
  <2>1. /\ l.page = "lab_dispatch_detail" /\ l.id = d /\ l.tab = "none"
    BY <1>13, LinkFields
  <2>2. LabPathOf(l) = <<"dispatches", d>>
    BY <2>1 DEF LabPathOf
  <2>3. Segment(rest, 1) = "dispatches" /\ Segment(rest, 2) = d
    BY <1>3, <1>4, <2>2
  <2>4. d # "none"
    BY IdsAssumption
  <2>5. LabRoute(rest, l.tab) = LinkTo("lab_dispatch_detail", d)
    BY <2>4, <2>1, <2>3 DEF LabRoute, ListOrRow, Tab
  <2>6. PathToLabPage(rest) = "lab_dispatches"
    BY <2>3 DEF PathToLabPage
  <2> QED
    BY <1>1, <1>13, <2>4, <2>1, <2>5, <2>6, LinkFields DEF LabDraws, LabMenu
<1> QED
  BY <1>5, <1>6, <1>7, <1>8, <1>9, <1>10, <1>11, <1>12, <1>13 DEF LabLinks, LinksTo

LEMMA LabLands ==
    ASSUME NEW from, NEW l \in LabLinks
    PROVE  Lands("lab", from, l)
<1>1. PICK S : /\ {"manager", "lab"} \subseteq S
               /\ LabPathOf(l) \in Seq(S) /\ LabPathOf(l) # <<>>
  BY LabAddress
<1> DEFINE path == <<"lab">> \o LabPathOf(l)
<1>2. Navigate("lab", from, l) = [path |-> path, tab |-> l.tab]
  BY LabAddress DEF Navigate
<1>3. /\ path[1] = "lab"
      /\ \A i \in 1..2 : Segment(Tail(path), i) = Segment(LabPathOf(l), i)
  BY <1>1, LabPath
<1> HIDE DEF path
<1>4. LabDraws(l, Tail(path))
  BY <1>3, LabLinkIsDrawn
<1>5. /\ Drawn([path |-> path, tab |-> l.tab]) = LabRoute(Tail(path), l.tab)
      /\ Marked([path |-> path, tab |-> l.tab]) = PathToLabPage(Tail(path))
  BY <1>3 DEF Drawn, Marked
<1> QED
  BY <1>2, <1>3, <1>4, <1>5 DEF Lands, LabDraws, Menu

LEMMA ManagerLabLands ==
    ASSUME NEW from, NEW l \in LabLinks
    PROVE  Lands("manager", from, l)
<1>1. PICK S : /\ {"manager", "lab"} \subseteq S
               /\ LabPathOf(l) \in Seq(S) /\ LabPathOf(l) # <<>>
  BY LabAddress
<1> DEFINE path == <<"manager", "lab">> \o LabPathOf(l)
<1>2. Navigate("manager", from, l) = [path |-> path, tab |-> l.tab]
  BY LabAddress DEF Navigate, MgrUrl
<1>3. /\ path[1] = "manager"
      /\ Segment(Tail(path), 1) = "lab"
      /\ \A i \in 1..2 : Segment(Tail(Tail(path)), i) = Segment(LabPathOf(l), i)
  BY <1>1, ManagerLabPath
<1> HIDE DEF path
<1>4. LabDraws(l, Tail(Tail(path)))
  BY <1>3, LabLinkIsDrawn
<1>5. /\ Drawn([path |-> path, tab |-> l.tab]) = LabRoute(Tail(Tail(path)), l.tab)
      /\ Marked([path |-> path, tab |-> l.tab]) = PathToLabPage(Tail(Tail(path)))
  BY <1>3 DEF Drawn, Marked, ManagerRoute, PathToMgrPage
<1> QED
  BY <1>2, <1>3, <1>4, <1>5 DEF Lands, LabDraws, Menu, ManagerMenu

\* A manager's own address.
LEMMA ManagerPath ==
    ASSUME NEW x
    PROVE  /\ <<"manager", x>>[1] = "manager"
           /\ Segment(Tail(<<"manager", x>>), 1) = x
           /\ Segment(Tail(<<"manager", x>>), 2) = "none"
<1> DEFINE S == {"manager", x} path == <<"manager", x>>
<1>1. path \in Seq(S) /\ path # <<>> /\ path[1] = "manager"
  OBVIOUS
<1>2. Segment(path, 1 + 1) = x /\ Segment(path, 2 + 1) = "none"
  BY DEF Segment
<1> HIDE DEF S, path
<1>3. \A p \in Seq(S) : p # <<>> =>
            \A i \in 1..3 : Segment(Tail(p), i) = Segment(p, i + 1)
  BY SegmentOfTail
<1>4. \A i \in 1..3 : Segment(Tail(path), i) = Segment(path, i + 1)
  BY <1>1, <1>3
<1> QED
  BY <1>1, <1>2, <1>4 DEF path

LEMMA ManagerPathTo ==
    ASSUME NEW x, NEW y
    PROVE  /\ <<"manager", x, y>>[1] = "manager"
           /\ Segment(Tail(<<"manager", x, y>>), 1) = x
           /\ Segment(Tail(<<"manager", x, y>>), 2) = y
<1> DEFINE S == {"manager", x, y} path == <<"manager", x, y>>
<1>1. path \in Seq(S) /\ path # <<>> /\ path[1] = "manager"
  OBVIOUS
<1>2. Segment(path, 1 + 1) = x /\ Segment(path, 2 + 1) = y
  BY DEF Segment
<1> HIDE DEF S, path
<1>3. \A p \in Seq(S) : p # <<>> =>
            \A i \in 1..3 : Segment(Tail(p), i) = Segment(p, i + 1)
  BY SegmentOfTail
<1>4. \A i \in 1..3 : Segment(Tail(path), i) = Segment(path, i + 1)
  BY <1>1, <1>3
<1> QED
  BY <1>1, <1>2, <1>4 DEF path

LEMMA ManagersOwnLand ==
    ASSUME NEW from, from \notin LabPageNames, NEW l \in ManagersOwnLinks
    PROVE  Lands("manager", from, l)
<1>1. ASSUME NEW path, NEW tab, path[1] = "manager"
      PROVE  /\ Drawn([path |-> path, tab |-> tab]) = ManagerRoute(Tail(path), tab)
             /\ Marked([path |-> path, tab |-> tab]) = PathToMgrPage(Tail(path))
  BY <1>1 DEF Drawn, Marked
<1>2. CASE l = Link("mgr_all_requests")
  <2> DEFINE path == <<"manager", "requests">>
  <2>1. Navigate("manager", from, l) = [path |-> path, tab |-> "none"]
    BY <1>2, LinkFields DEF Navigate, MgrUrl, ManagersOwnUrl, Url, LabPageNames
  <2>2. /\ path[1] = "manager"
        /\ Segment(Tail(path), 1) = "requests" /\ Segment(Tail(path), 2) = "none"
    BY ManagerPath
  <2> HIDE DEF path
  <2>3. ManagerRoute(Tail(path), "none") = Link("mgr_all_requests")
    BY <2>2 DEF ManagerRoute, ListOrRow
  <2>4. PathToMgrPage(Tail(path)) = "mgr_all_requests"
    BY <2>2 DEF PathToMgrPage
  <2> QED
    BY <1>1, <1>2, <2>1, <2>2, <2>3, <2>4, LinkFields DEF Lands, Menu, ManagerMenu
<1>3. ASSUME NEW r \in Requests, l = LinkTo("mgr_request", r)
      PROVE  Lands("manager", from, l)
  <2> DEFINE path == <<"manager", "requests", r>>
  <2>1. Navigate("manager", from, l) = [path |-> path, tab |-> "none"]
    BY <1>3, LinkFields DEF Navigate, MgrUrl, ManagersOwnUrl, Url, LabPageNames
  <2>2. /\ path[1] = "manager"
        /\ Segment(Tail(path), 1) = "requests" /\ Segment(Tail(path), 2) = r
    BY ManagerPathTo
  <2> HIDE DEF path
  <2>3. r # "none"
    BY IdsAssumption
  <2>4. ManagerRoute(Tail(path), "none") = LinkTo("mgr_request", r)
    BY <2>2, <2>3 DEF ManagerRoute, ListOrRow
  <2>5. PathToMgrPage(Tail(path)) = "mgr_all_requests"
    BY <2>2 DEF PathToMgrPage
  <2> QED
    BY <1>1, <1>3, <2>1, <2>2, <2>4, <2>5, LinkFields DEF Lands, Menu, ManagerMenu
<1> QED
  BY <1>2, <1>3 DEF ManagersOwnLinks, LinksTo

-----------------------------------------------------------------------------
\* The links that the pages draw of the tables.

LEMMA LinksOfRows ==
    /\ LinksOf(FabTab("all")) = LinksTo("fab_request", Filed(RequestStates))
    /\ LinksOf(DraftRows) =
            LinksTo("fab_draft_edit", {r \in Requests : reqStatus[r] = "draft"})
    /\ LinksOf(ManagerTab("all")) = LinksTo("mgr_request", Filed(RequestStates))
    /\ LinksOf(SampleTab("all")) \subseteq
            LinksTo("lab_wafer", {s \in Samples : owner[s] # Nil})
    /\ LinksOf(WipTab("all")) =
            LinksTo("lab_wip_detail", {w \in Wips : wipStatus[w] # "none"})
    /\ LinksOf(DispatchTab("all")) =
            LinksTo("lab_dispatch_detail",
                    {d \in Dispatches : ShownDispatch(dStatus[d]) \in DispatchGroups["all"]})
<1>1. ASSUME NEW page, NEW ids
      PROVE  LinksOf(RowsOf(page, ids)) = LinksTo(RouteName[page], ids)
  <2>1. ASSUME NEW x \in ids PROVE <<page, x>>[1] = page /\ <<page, x>>[2] = x
    OBVIOUS
  <2>2. ASSUME NEW l \in LinksOf(RowsOf(page, ids))
        PROVE  l \in LinksTo(RouteName[page], ids)
    <3>1. PICK row \in RowsOf(page, ids) : l = LinkTo(RouteName[row[1]], row[2])
      BY DEF LinksOf
    <3>2. PICK x \in ids : row = <<page, x>>
      BY DEF RowsOf
    <3> QED
      BY <2>1, <3>1, <3>2 DEF LinksTo
  <2>3. ASSUME NEW x \in ids
        PROVE  LinkTo(RouteName[page], x) \in LinksOf(RowsOf(page, ids))
    <3>1. <<page, x>> \in RowsOf(page, ids)
      BY DEF RowsOf
    <3> QED
      BY <2>1, <3>1 DEF LinksOf
  <2> QED
    BY <2>2, <2>3 DEF LinksTo
<1>2. /\ RouteName["fab_request"] = "fab_request" /\ RouteName["draft"] = "fab_draft_edit"
      /\ RouteName["mgr_request"] = "mgr_request" /\ RouteName["wafer"] = "lab_wafer"
      /\ RouteName["wip"] = "lab_wip_detail"
      /\ RouteName["dispatch"] = "lab_dispatch_detail"
  BY DEF RouteName
<1>3. /\ FabTab("all") = RowsOf("fab_request", Filed(RequestStates))
      /\ ManagerTab("all") = RowsOf("mgr_request", Filed(RequestStates))
  BY DEF FabTab, ManagerTab
<1>4. LinksOf(SampleTab("all")) \subseteq
            LinksTo("lab_wafer", {s \in Samples : owner[s] # Nil})
  BY <1>1, <1>2 DEF SampleTab, LinksTo
<1>5. WipTab("all") = RowsOf("wip", {w \in Wips : wipStatus[w] # "none"})
  BY DEF WipTab
<1> QED
  BY <1>1, <1>2, <1>3, <1>4, <1>5 DEF DraftRows, DispatchTab

\* A dispatch that exists is in the list of them, with its WIP in its own.
LEMMA DispatchIsListed ==
    ASSUME AllInv, NEW d \in Dispatches
    PROVE  /\ dStatus[d] # "none" <=>
                ShownDispatch(dStatus[d]) \in DispatchGroups["all"]
           /\ dStatus[d] # "none" => dWip[d] \in {w \in Wips : wipStatus[w] # "none"}
           /\ dWip[d] \in Wips => dStatus[d] # "none"
<1>1. dStatus[d] \in DispatchStatuses \cup {"none"}
  BY DEF AllInv, TypeOK, WipTypeOK
<1>2. DispatchGroups["all"] = {"pending", "dispatched", "running", "unloaded",
                               "exception", "completed", "aborted"}
  BY DEF DispatchGroups
<1> QED
  BY <1>1, <1>2, WipAssumption
     DEF ShownDispatch, DispatchStatuses, AllInv, DispatchInv, DispatchesBound

LEMMA FabLinksOn ==
    ASSUME NEW p \in FabPagesNow, NEW l \in LinksOn(p)
    PROVE  l \in FabLinks /\ (l.id # "none" => l \in FabPagesNow)
<1> DEFINE rows == LinksTo("fab_request", Filed(RequestStates))
           drafts == LinksTo("fab_draft_edit", {r \in Requests : reqStatus[r] = "draft"})
           lists == {Link("fab_drafts"), Link("fab_new"), Link("fab_requests")}
                        \cup {LinkTab("fab_requests", tab) : tab \in FabListTabs}
<1>1. \A k \in lists : k.id = "none"
  BY LinkFields
<1>2. /\ lists \cup rows \cup drafts \subseteq FabLinks
      /\ rows \cup drafts \subseteq FabPagesNow
  BY LinksOfRows DEF FabLinks, LinksTo, Filed, FabPagesNow
<1>3. /\ \A shown \in SUBSET RequestStates : LinksTo("fab_request", Filed(shown)) \subseteq rows
      /\ {"in_progress"} \subseteq RequestStates
      /\ {"returned", "rejected"} \subseteq RequestStates
  BY DEF LinksTo, Filed, RequestStates
<1>4. FabDashboardLinks \subseteq lists \cup rows \cup drafts
  <2>1. {tile.link : tile \in FabTiles} \subseteq lists
    BY DEF FabTiles, Counter, FabListTabs
  <2>5. \A r : InProgressRow(r).links = {LinkTo("fab_request", r)}
    BY DEF InProgressRow
  <2>2. InProgressRows \subseteq lists \cup rows
    <3>1. ASSUME NEW k \in InProgressRows
          PROVE  \/ k = LinkTab("fab_requests", "in_progress")
                 \/ \E r \in Filed({"in_progress"}) : k = LinkTo("fab_request", r)
      BY <2>5 DEF InProgressRows
    <3>2. \A r \in Filed({"in_progress"}) : LinkTo("fab_request", r) \in rows
      BY DEF LinksTo, Filed, RequestStates
    <3>3. LinkTab("fab_requests", "in_progress") \in lists
      BY DEF FabListTabs
    <3> QED
      BY <3>1, <3>2, <3>3
  <2>3. AttentionRows \subseteq rows
    BY <1>3 DEF AttentionRows
  <2>4. DraftsCard \subseteq lists \cup drafts
    BY LinksOfRows DEF DraftsCard
  <2> QED
    BY <2>1, <2>2, <2>3, <2>4 DEF FabDashboardLinks
<1>5. /\ FabListLinks(FALSE) \subseteq lists \cup rows
      /\ FabListLinks(TRUE) \subseteq lists \cup drafts
      /\ FabRequestHead \subseteq lists
  BY LinksOfRows DEF FabListLinks, FabRequestHead
<1>6. p.page \in {"fab_dashboard", "fab_requests", "fab_drafts", "fab_new",
                  "fab_request", "fab_draft_edit"}
  <2>1. /\ \A k \in rows : k.page = "fab_request"
        /\ \A k \in drafts : k.page = "fab_draft_edit"
    BY LinkFields DEF LinksTo
  <2>2. p \in {Link("fab_dashboard"), Link("fab_requests"), Link("fab_drafts"),
               Link("fab_new")} \cup rows \cup drafts
    BY LinksOfRows DEF FabPagesNow
  <2> HIDE DEF rows, drafts
  <2> QED
    BY <2>1, <2>2, LinkFields
<1>7. l \in lists \cup rows \cup drafts
  <2> HIDE DEF lists, rows, drafts
  <2> QED
    BY <1>4, <1>5, <1>6 DEF LinksOn
<1> QED
  BY <1>1, <1>2, <1>7

LEMMA LabLinksOn ==
    ASSUME AllInv, NEW p \in LabPagesNow, NEW l \in LinksOn(p)
    PROVE  l \in LabLinks /\ (l.id # "none" => l \in LabPagesNow)
<1> DEFINE wafers == LinksTo("lab_wafer", {s \in Samples : owner[s] # Nil})
           wips == LinksTo("lab_wip_detail", {w \in Wips : wipStatus[w] # "none"})
           runs == LinksTo("lab_dispatch_detail",
                           {d \in Dispatches :
                                ShownDispatch(dStatus[d]) \in DispatchGroups["all"]})
           lists == {Link("lab_samples"), Link("lab_wip"), Link("lab_dispatches"),
                     Link("lab_equipment"), LinkTab("lab_samples", "incoming"),
                     LinkTab("lab_dispatches", "active"),
                     LinkTab("lab_dispatches", "record")}
           all == lists \cup wafers \cup wips \cup runs
<1>1. \A k \in lists : k.id = "none"
  BY LinkFields
<1>2. all \subseteq LabLinks /\ wafers \cup wips \cup runs \subseteq LabPagesNow
  BY LinksOfRows DEF LabLinks, LinksTo, LabPagesNow
<1>3. ASSUME NEW d \in Dispatches, dStatus[d] # "none"
      PROVE  /\ LinkTo("lab_dispatch_detail", d) \in runs
             /\ LinkTo("lab_wip_detail", dWip[d]) \in wips
             /\ dWip[d] \in Wips
  BY <1>3, DispatchIsListed DEF LinksTo
<1>4. ASSUME NEW w \in Wips PROVE RunTable(w) \subseteq runs
  BY <1>3, DispatchIsListed DEF RunTable, DispatchesOf, LinksTo
<1>5. LabDashboardLinks \subseteq lists \cup runs
  <2>1. {tile.link : tile \in LabTiles} \subseteq lists
    BY DEF LabTiles, Counter
  <2>2. LinksTo("lab_dispatch_detail", NowRunning \cup AwaitingYourResult) \subseteq runs
    BY <1>3 DEF LinksTo, NowRunning, AwaitingYourResult, OnMachine, ShownDispatch
  <2> QED
    BY <2>1, <2>2 DEF LabDashboardLinks
<1>6. /\ LinksOf(SampleTab("all")) \subseteq wafers
      /\ LinksOf(WipTab("all")) \subseteq wips
      /\ LinksOf(DispatchTab("all")) \subseteq runs
  BY LinksOfRows
<1>7. ASSUME NEW s \in Samples PROVE WaferLinks(s) \subseteq all
  <2>1. OpenBatches(s) \subseteq {w \in Wips : wipStatus[w] # "none"}
    BY DEF OpenBatches
  <2>2. ASSUME NEW e \in ExperimentsOf(s) PROVE ChipTargets(e) \subseteq runs \cup wips
    <3>1. PICK t \in SelectedTypes(s) : e = ExperimentOf(s, t)
      BY DEF ExperimentsOf
    <3>2. \A d \in e.runs : d \in Dispatches /\ dStatus[d] # "none"
      BY <3>1 DEF ExperimentOf, RunsOf, ActiveRunStatuses
    <3>3. e.sample = s
      BY <3>1 DEF ExperimentOf
    <3>4. LinksTo("lab_dispatch_detail", e.runs) \subseteq runs
      BY <1>3, <3>2 DEF LinksTo
    <3>5. LinksTo("lab_wip_detail", {w \in OpenBatches(e.sample) : wipType[w] = e.type})
             \subseteq wips
      BY <2>1, <3>3 DEF LinksTo
    <3> HIDE DEF runs, wips
    <3> QED
      BY <3>4, <3>5 DEF ChipTargets
  <2>3. ASSUME NEW w \in CurrentWips(s) PROVE CurrentWipCard(w) \subseteq runs \cup wips
    BY <1>4, <2>1 DEF CurrentWips, CurrentWipCard, LinksTo
  <2> HIDE DEF runs, wips
  <2> QED
    BY <2>2, <2>3 DEF WaferLinks
<1>8. ASSUME NEW w \in Wips PROVE WipLinks(w) \subseteq all
  <2>1. SamplesCard(w) \subseteq wafers
    BY DEF SamplesCard, LinksTo, AllInv, LabInv, LabWorkNeedsRequest, TypeOK, WipTypeOK
  <2>2. LinksTo("lab_dispatch_detail", ExceptionBanner(w)) \subseteq RunTable(w)
    BY DEF LinksTo, ExceptionBanner, RunTable
  <2> HIDE DEF runs, wips, wafers
  <2> QED
    BY <1>4, <2>1, <2>2 DEF WipLinks, WipHead
<1>9. ASSUME NEW d \in Dispatches, dStatus[d] # "none" PROVE DispatchLinks(d) \subseteq all
  <2> HIDE DEF runs, wips, wafers
  <2> QED
    BY <1>3, <1>9 DEF DispatchLinks, DispatchHead, DispatchInfo
<1>10. l \in all
  <2>1. CASE p \in {Link("lab_dashboard"), Link("lab_samples"), Link("lab_wip"),
                    Link("lab_dispatches"), Link("lab_equipment")}
    <3>1. LinksOn(p) \in {LabDashboardLinks, LinksOf(SampleTab("all")),
                          LinksOf(WipTab("all")), LinksOf(DispatchTab("all")), {}}
      <4>1. p.page \in {"lab_dashboard", "lab_samples", "lab_wip", "lab_dispatches",
                        "lab_equipment"}
        BY <2>1, LinkFields
      <4> QED
        BY <4>1 DEF LinksOn
    <3> HIDE DEF runs, wips, wafers
    <3> QED
      BY <1>5, <1>6, <3>1
  <2>2. ASSUME NEW s \in Samples, p = LinkTo("lab_wafer", s) PROVE l \in all
    <3>2. p.page = "lab_wafer" /\ p.id = s
      BY <2>2, LinkFields
    <3>1. LinksOn(p) = WaferLinks(s)
      BY <3>2 DEF LinksOn
    <3> QED
      BY <1>7, <3>1
  <2>3. ASSUME NEW w \in Wips, p = LinkTo("lab_wip_detail", w) PROVE l \in all
    <3>2. p.page = "lab_wip_detail" /\ p.id = w
      BY <2>3, LinkFields
    <3>1. LinksOn(p) = WipLinks(w)
      BY <3>2 DEF LinksOn
    <3> QED
      BY <1>8, <3>1
  <2>4. ASSUME NEW d \in Dispatches, dStatus[d] # "none",
               p = LinkTo("lab_dispatch_detail", d)
        PROVE  l \in all
    <3>2. p.page = "lab_dispatch_detail" /\ p.id = d
      BY <2>4, LinkFields
    <3>1. LinksOn(p) = DispatchLinks(d)
      BY <3>2 DEF LinksOn
    <3> QED
      BY <1>9, <2>4, <3>1
  <2>5. /\ p \in wafers => \E s \in Samples : p = LinkTo("lab_wafer", s)
        /\ p \in wips => \E w \in Wips : p = LinkTo("lab_wip_detail", w)
        /\ p \in runs => \E d \in Dispatches :
                            dStatus[d] # "none" /\ p = LinkTo("lab_dispatch_detail", d)
    BY DispatchIsListed DEF LinksTo
  <2>6. p \in {Link("lab_dashboard"), Link("lab_samples"), Link("lab_wip"),
               Link("lab_dispatches"), Link("lab_equipment")} \cup wafers \cup wips \cup runs
    BY LinksOfRows DEF LabPagesNow
  <2> HIDE DEF all, runs, wips, wafers
  <2> QED
    BY <2>1, <2>2, <2>3, <2>4, <2>5, <2>6
<1> HIDE DEF lists, runs, wips, wafers
<1> QED
  BY <1>1, <1>2, <1>10

\* The laboratory's pages go by their own names, the manager's by others.
LEMMA ManagerLinksOn ==
    ASSUME AllInv, NEW p \in ManagerPagesNow, NEW l \in LinksOn(p)
    PROVE  /\ \/ l \in LabLinks
              \/ l \in ManagersOwnLinks /\ p.page \notin LabPageNames
           /\ l.id # "none" => l \in ManagerPagesNow
<1>1. CASE p \in LabPagesNow
  BY <1>1, LabLinksOn DEF ManagerPagesNow
<1>2. CASE p \in {Link("mgr_dashboard"), Link("mgr_all_requests"), Link("mgr_recipes"),
                  Link("mgr_reports")} \cup LinksTo("mgr_request", StatisticsRows)
  <2> DEFINE own == LinksTo("mgr_request", StatisticsRows)
             runs == LinksTo("lab_dispatch_detail", DispatchRows)
             wafers == LinksTo("lab_wafer", {s \in Samples : owner[s] # Nil})
             lists == {Link("mgr_all_requests"), Link("lab_equipment")}
  <2>1. p.page \in {"mgr_dashboard", "mgr_all_requests", "mgr_recipes", "mgr_reports",
                    "mgr_request"}
    BY <1>2, LinkFields DEF LinksTo
  <2>2. /\ own \cup {Link("mgr_all_requests")} \subseteq ManagersOwnLinks
        /\ own \subseteq ManagerPagesNow
    BY DEF LinksTo, StatisticsRows, ManagersOwnLinks, ManagerPagesNow
  <2>3. /\ runs \cup wafers \cup {Link("lab_equipment")} \subseteq LabLinks
        /\ wafers \subseteq LabPagesNow
    BY DEF LinksTo, DispatchRows, LabLinks, LabPagesNow
  <2>4. runs \subseteq LabPagesNow
    BY DispatchIsListed, LinksOfRows DEF LinksTo, DispatchRows, LabPagesNow
  <2>5. \A shown : LinksTo("mgr_request", Filed(shown)) \subseteq own
    BY DEF LinksTo, Filed, StatisticsRows
  <2>6. /\ MgrDashboardLinks \subseteq lists \cup own
        /\ MgrRequestRows \subseteq own
        /\ DispatchResultsLinks \cup StatisticsLinks \subseteq runs \cup own
    <3>1. {tile.link : tile \in MgrTiles} \subseteq lists
      BY DEF MgrTiles, Counter
    <3> QED
      BY <2>5, <3>1, LinksOfRows DEF MgrDashboardLinks, AwaitingYourResponse,
         MgrRequestRows, DispatchResultsLinks, StatisticsLinks
  <2>7. ASSUME NEW r \in Requests PROVE MgrRequestLinks(r) \subseteq lists \cup wafers
    <3>1. ExperimentsByWafer(r) \subseteq wafers
      BY NilAssumption DEF ExperimentsByWafer, LinksTo, SamplesOf
    <3> QED
      BY <3>1 DEF MgrRequestLinks
  <2>8. p.page = "mgr_request" => p.id \in Requests
    BY <1>2, LinkFields DEF LinksTo, StatisticsRows
  <2>9. l \in lists \cup own \cup runs \cup wafers
    <3> HIDE DEF lists, own, runs, wafers
    <3> QED
      BY <2>1, <2>6, <2>7, <2>8 DEF LinksOn
  <2>10. p.page \notin LabPageNames
    BY <2>1 DEF LabPageNames
  <2>11. \A k \in lists : k.id = "none"
    BY LinkFields
  <2> HIDE DEF own, runs, wafers
  <2> QED
    BY <2>2, <2>3, <2>4, <2>9, <2>10, <2>11 DEF ManagerPagesNow
<1> QED
  BY <1>1, <1>2 DEF ManagerPagesNow

LEMMA LinksMatch == AllInv => LinksLand
<1> SUFFICES ASSUME AllInv, NEW area \in Areas, NEW p \in PagesNow(area),
                    NEW l \in LinksOn(p)
             PROVE  Lands(area, p.page, l) /\ (l.id # "none" => l \in PagesNow(area))
  BY DEF LinksLand, Lands
<1>1. CASE area = "fab"
  BY <1>1, FabLinksOn, FabLands DEF PagesNow
<1>2. CASE area = "lab"
  BY <1>2, LabLinksOn, LabLands DEF PagesNow
<1>3. CASE area = "manager"
  BY <1>3, ManagerLinksOn, ManagerLabLands, ManagersOwnLand DEF PagesNow
<1> QED
  BY <1>1, <1>2, <1>3 DEF Areas

\* Every link leads to the page and the row that it names, in the user's own area.
THEOREM LinksLeadWhereTheySay == Spec => []LinksLand
BY SiteSafety, LinksMatch, PTL
=============================================================================
