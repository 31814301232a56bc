---------------------------- MODULE Commissions -----------------------------
(***************************************************************************)
(* Requests and their samples: the JSON API of commissions/api.py and the  *)
(* cascades of commissions/services.py.  Every handler that changes a      *)
(* request or a sample locks the row first, re-reads it and validates the  *)
(* transition under the lock, in one transaction: it is one step here.     *)
(* (DeleteDraft checks without a lock; that gap is out of this module.)    *)
(*                                                                         *)
(* Left out: who may call a handler (some user of the role always can),    *)
(* titles, notes, urgency, timestamps and the append-only approval log.    *)
(***************************************************************************)
EXTENDS Catalog

CONSTANTS
    Requests,         \* ids of request rows
    Samples,          \* ids of sample rows
    Nil               \* "no row": a null reference, or a field not sent

ASSUME NilAssumption == /\ Nil \notin Requests \cup Samples
                        /\ \A T \in SUBSET ExpTypes : T # Nil

VARIABLES
    reqStatus,        \* Request.status, or "none"
    reqTypes,         \* RequestExperiment rows of the request
    owner,            \* Sample.request; Nil while there is no such row
    sampleStatus,     \* Sample.status
    chosen,           \* SampleExperiment rows: the wafer's own selection
    sesStatus         \* SampleExperimentStatus.status per type, or "none"

commissionVars ==
    <<reqStatus, reqTypes, owner, sampleStatus, chosen, sesStatus>>

CommissionTypeOK ==
    /\ reqStatus \in [Requests -> RequestStatuses \cup {"none"}]
    /\ reqTypes \in [Requests -> SUBSET ExpTypes]
    /\ owner \in [Samples -> Requests \cup {Nil}]
    /\ sampleStatus \in [Samples -> SampleStatuses]
    /\ chosen \in [Samples -> SUBSET ExpTypes]
    /\ sesStatus \in [Samples -> [ExpTypes -> ProgressStatuses \cup {"none"}]]

CommissionInit ==
    /\ reqStatus = [r \in Requests |-> "none"]
    /\ reqTypes = [r \in Requests |-> {}]
    /\ owner = [s \in Samples |-> Nil]
    /\ sampleStatus = [s \in Samples |-> "created"]
    /\ chosen = [s \in Samples |-> {}]
    /\ sesStatus = [s \in Samples |-> [t \in ExpTypes |-> "none"]]

-----------------------------------------------------------------------------
\* Queries and cascades.

SamplesOf(r) == {s \in Samples : owner[s] = r}

\* The types a wafer is to undergo: its own rows, or, when it has none, the
\* request's.  Both the initialisation and the WIP validation fall back so.
SelectedTypes(s) == IF chosen[s] # {} THEN chosen[s] ELSE reqTypes[owner[s]]

\* Mutated form: a disposed wafer is not counted as accounted for.
AccountedUndisposed == {"received", "processing", "completed"}

AccountedStatuses == {"received", "processing", "completed", "voided",
                      "returned"}

\* Mutated form: a wafer that waits for its disposal counts as settled.
SettledWithExceptions == {"completed", "voided", "returned",
                          "processing_exception"}

SettledStatuses == {"completed", "voided", "returned"}

AllIn(r, ss, statuses) ==
    SamplesOf(r) # {} /\ \A s \in SamplesOf(r) : ss[s] \in statuses

\* The status check_all_samples_received leaves a request of status st with,
\* when its samples have the statuses ss.
CheckAllSamplesReceived(r, st, ss) ==
    IF st = "sample_shipped" /\ AllIn(r, ss, AccountedStatuses)
    THEN "in_progress" ELSE st

\* Mutated form: the early return on the request's status is lost.
CompleteWheneverSettled(r, st, ss) ==
    IF AllIn(r, ss, SettledStatuses) THEN "completed" ELSE st

\* ... and the status check_request_completed leaves it with.
CheckRequestCompleted(r, st, ss) ==
    IF st = "in_progress" /\ AllIn(r, ss, SettledStatuses)
    THEN "completed" ELSE st

\* Mutated form: the rows follow the request's set, not the wafer's selection.
InitializeSesFromRequest(r, ss) ==
    IF CheckAllSamplesReceived(r, reqStatus[r], ss) = reqStatus[r]
    THEN sesStatus
    ELSE [s \in Samples |-> [t \in ExpTypes |->
            IF owner[s] = r /\ t \in reqTypes[r] THEN "pending"
            ELSE sesStatus[s][t]]]

\* initialize_sample_experiment_statuses, which runs when the request enters
\* in_progress: a pending row for each selected type that has none.
InitializeSes(r, ss) ==
    IF CheckAllSamplesReceived(r, reqStatus[r], ss) = reqStatus[r]
    THEN sesStatus
    ELSE [s \in Samples |-> [t \in ExpTypes |->
            IF /\ owner[s] = r
               /\ t \in SelectedTypes(s)
               /\ sesStatus[s][t] = "none"
            THEN "pending" ELSE sesStatus[s][t]]]

\* _resolve_sample_experiments: no selection inherits the request's set.
ResolveSelection(sel, types) == IF sel = {} THEN types ELSE sel

\* Mutated form: the wafers' rows survive a smaller experiment set.
KeepSelection(s, types) == chosen[s]

\* What a patch of the types leaves of a wafer's rows.
PruneSelection(s, types) == chosen[s] \cap types

\* Mutated form: a returned request may be rebuilt.
RebuildableWhenReturned(r) == reqStatus[r] \in {"draft", "returned"}

\* A returned request may still be patched, but not its samples and types.
Rebuildable(r) == reqStatus[r] = "draft"

-----------------------------------------------------------------------------
\* Request handlers.

CreateRequest(r, T, S, sel) ==
    /\ reqStatus[r] = "none"
    /\ T # {} /\ T \subseteq ActiveTypes
    /\ S # {} /\ \A s \in S : owner[s] = Nil /\ sel[s] \subseteq T
    /\ reqStatus' = [reqStatus EXCEPT ![r] = "draft"]
    /\ reqTypes' = [reqTypes EXCEPT ![r] = T]
    /\ owner' = [s \in Samples |-> IF s \in S THEN r ELSE owner[s]]
    /\ chosen' = [s \in Samples |->
                    IF s \in S THEN ResolveSelection(sel[s], T) ELSE chosen[s]]
    /\ UNCHANGED <<sampleStatus, sesStatus>>

\* PATCH with experiment_type_ids = T (Nil: not sent) and samples = S ({}: not
\* sent; an empty list is refused).  Both are draft-only; a patch of the other
\* fields changes nothing modelled.  The request's samples are deleted and new
\* ones created; a freed id may be taken again, as nothing else refers to it.
\* Types without samples drops the wafers' rows that fell out of the set.
UpdateRequest(r, T, S, sel) ==
    LET types == IF T = Nil THEN reqTypes[r] ELSE T IN
    /\ Rebuildable(r)
    /\ T # Nil => T \subseteq ActiveTypes
    /\ \A s \in S : owner[s] \in {r, Nil} /\ sel[s] \subseteq types
    /\ reqTypes' = [reqTypes EXCEPT ![r] = types]
    /\ owner' = [s \in Samples |->
                    IF s \in S THEN r
                    ELSE IF S # {} /\ owner[s] = r THEN Nil
                    ELSE owner[s]]
    /\ chosen' = [s \in Samples |->
                    IF s \in S THEN ResolveSelection(sel[s], types)
                    ELSE IF owner[s] # r THEN chosen[s]
                    ELSE IF S # {} THEN {}
                    ELSE IF T = Nil THEN chosen[s]
                    ELSE PruneSelection(s, types)]
    /\ UNCHANGED <<reqStatus, sampleStatus, sesStatus>>

\* The handlers that only move the request along its table.
RequestAction(r, from, to) ==
    /\ reqStatus[r] \in from
    /\ reqStatus' = [reqStatus EXCEPT ![r] = to]
    /\ UNCHANGED <<reqTypes, owner, sampleStatus, chosen, sesStatus>>

SubmitRequest(r) ==
    RequestAction(r, RequestTransitions.submit, RequestTarget.submit)

ApproveRequest(r) ==
    RequestAction(r, RequestTransitions.approve, RequestTarget.approve)

ReturnRequest(r) ==
    RequestAction(r, RequestTransitions.return, RequestTarget.return)

RejectRequest(r) ==
    RequestAction(r, RequestTransitions.reject, RequestTarget.reject)

\* Only the request row changes: its samples, WIPs and dispatches stay as
\* they are.
CancelRequest(r) ==
    RequestAction(r, RequestTransitions.cancel, RequestTarget.cancel)

CloseRequest(r) ==
    RequestAction(r, RequestTransitions.close, RequestTarget.close)

ShipRequest(r) ==
    /\ reqStatus[r] \in RequestTransitions.ship
    /\ reqStatus' = [reqStatus EXCEPT ![r] = RequestTarget.ship]
    /\ sampleStatus' = [s \in Samples |->
            IF owner[s] = r /\ sampleStatus[s] \in SampleTransitions.ship
            THEN SampleTarget.ship ELSE sampleStatus[s]]
    /\ UNCHANGED <<reqTypes, owner, chosen, sesStatus>>

\* The hard delete takes the request's samples with it (CASCADE).
DeleteDraft(r) ==
    /\ reqStatus[r] = "draft"
    /\ reqStatus' = [reqStatus EXCEPT ![r] = "none"]
    /\ reqTypes' = [reqTypes EXCEPT ![r] = {}]
    /\ owner' = [s \in Samples |-> IF owner[s] = r THEN Nil ELSE owner[s]]
    /\ chosen' = [s \in Samples |-> IF owner[s] = r THEN {} ELSE chosen[s]]
    /\ UNCHANGED <<sampleStatus, sesStatus>>

-----------------------------------------------------------------------------
\* Sample handlers, all through _lab_sample_action.

ReceiveSample(s) ==
    LET r  == owner[s]
        ss == [sampleStatus EXCEPT ![s] = SampleTarget.receive]
    IN  /\ r # Nil
        /\ sampleStatus[s] \in SampleTransitions.receive
        /\ sampleStatus' = ss
        /\ reqStatus' = [reqStatus EXCEPT
                ![r] = CheckAllSamplesReceived(r, reqStatus[r], ss)]
        /\ sesStatus' = InitializeSes(r, ss)
        /\ UNCHANGED <<reqTypes, owner, chosen>>

\* reject_receiving and report_lost leave the request alone.
SampleAction(s, from, to) ==
    /\ owner[s] # Nil
    /\ sampleStatus[s] \in from
    /\ sampleStatus' = [sampleStatus EXCEPT ![s] = to]
    /\ UNCHANGED <<reqStatus, reqTypes, owner, chosen, sesStatus>>

RejectReceivingSample(s) ==
    SampleAction(s, SampleTransitions.reject_receiving,
                 SampleTarget.reject_receiving)

ReportLostSample(s) ==
    SampleAction(s, SampleTransitions.report_lost, SampleTarget.report_lost)

\* void and return run both checks, the second on the re-read request, so one
\* call can take a request from sample_shipped to completed.
SettleSample(s, from, to) ==
    LET r  == owner[s]
        ss == [sampleStatus EXCEPT ![s] = to]
    IN  /\ r # Nil
        /\ sampleStatus[s] \in from
        /\ sampleStatus' = ss
        /\ reqStatus' = [reqStatus EXCEPT
                ![r] = CheckRequestCompleted(r,
                        CheckAllSamplesReceived(r, reqStatus[r], ss), ss)]
        /\ sesStatus' = InitializeSes(r, ss)
        /\ UNCHANGED <<reqTypes, owner, chosen>>

VoidSample(s) == SettleSample(s, SampleTransitions.void, SampleTarget.void)

ReturnSample(s) ==
    SettleSample(s, SampleTransitions.return, SampleTarget.return)

CommissionNext ==
    \/ \E r \in Requests :
        \/ \E T \in SUBSET ExpTypes, S \in SUBSET Samples :
            \E sel \in [S -> SUBSET T] : CreateRequest(r, T, S, sel)
        \/ \E T \in (SUBSET ExpTypes) \cup {Nil}, S \in SUBSET Samples :
            \E sel \in [S -> SUBSET ExpTypes] : UpdateRequest(r, T, S, sel)
        \/ SubmitRequest(r)
        \/ ApproveRequest(r)
        \/ ReturnRequest(r)
        \/ RejectRequest(r)
        \/ ShipRequest(r)
        \/ CancelRequest(r)
        \/ CloseRequest(r)
        \/ DeleteDraft(r)
    \/ \E s \in Samples :
        \/ ReceiveSample(s)
        \/ RejectReceivingSample(s)
        \/ ReportLostSample(s)
        \/ VoidSample(s)
        \/ ReturnSample(s)
=============================================================================
