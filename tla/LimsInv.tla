------------------------------ MODULE LimsInv -------------------------------
(***************************************************************************)
(* The inductive invariant of Lims: the safety invariants of Lims and the  *)
(* facts about the tables that make them inductive.  The requests run      *)
(* checks it on an instance; LimsSafety proves that every step keeps it.   *)
(***************************************************************************)
EXTENDS Lims

\* A dispatch row belongs to a WIP row.
DispatchesBound ==
    \A d \in Dispatches :
        IF dStatus[d] = "none" THEN dWip[d] = Nil
        ELSE dWip[d] \in Wips /\ wipStatus[dWip[d]] # "none"

\* A sample row belongs to a request row, which has samples.
SamplesBound ==
    /\ \A s \in Samples : owner[s] # Nil => reqStatus[owner[s]] # "none"
    /\ \A r \in Requests : reqStatus[r] # "none" => SamplesOf(r) # {}

UnshippedStatuses ==
    {"draft", "pending_approval", "approved", "returned", "rejected"}

\* Until its request ships, a wafer is as it was created.
UnshippedUntouched ==
    \A s \in Samples :
        owner[s] = Nil \/ reqStatus[owner[s]] \in UnshippedStatuses
        => sampleStatus[s] = "created"

LabStatuses == {"in_progress", "completed", "closed"}

\* Once the laboratory has the request, the progress rows of a wafer are
\* exactly those of its selection, and they are so after a cancellation too.
RowsMatchSelection ==
    \A s \in Samples :
        \/ owner[s] # Nil /\ reqStatus[owner[s]] \in LabStatuses
        \/ \E t \in ExpTypes : sesStatus[s][t] # "none"
        => \A t \in ExpTypes : sesStatus[s][t] # "none" <=> t \in SelectedTypes(s)

\* The wafers of a WIP have selected its type, have a progress row for it and
\* have been taken into processing.
BatchesMatchSelection ==
    \A w \in Wips : \A s \in wipSamples[w] :
        /\ wipType[w] \in SelectedTypes(s)
        /\ sesStatus[s][wipType[w]] # "none"
        /\ sampleStatus[s] \in {"processing", "processing_exception",
                                "completed", "voided", "returned"}

\* All of Lims' safety invariants, with what makes them inductive.
Inductive ==
    /\ TypeOK
    /\ DispatchesBound
    /\ OneActiveDispatch
    /\ NoStrandedWip
    /\ SamplesBound
    /\ UnshippedUntouched
    /\ SelectionWithinRequest
    /\ LabWorkNeedsRequest
    /\ CompletedRequestSettled
    /\ NoStrandedRequest
    /\ RowsMatchSelection
    /\ BatchesMatchSelection
    /\ VerdictTraceable
    /\ CompletedWaferMeasured
    /\ WaferCanBeWorked
=============================================================================
