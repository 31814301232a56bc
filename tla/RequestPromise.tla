--------------------------- MODULE RequestPromise ---------------------------
(***************************************************************************)
(* What the system promises the person who files one request, with the     *)
(* laboratory hidden: no WIPs, machines, dispatches or progress rows.      *)
(* A request is written, decided, shipped and worked on.  Once it has been *)
(* submitted its plan is fixed.  Every wafer ends measured, for the whole  *)
(* of its plan, or disposed of; and the request is completed in the very   *)
(* step that settles its last wafer.  Lims implements this for each        *)
(* request (Lims!Promised).                                                *)
(***************************************************************************)
CONSTANT Types                   \* ids of experiment types

VARIABLES
    status,                      \* Request.status, "none" before it is filed
    types,                       \* the request's experiment types
    plan,                        \* per wafer, the experiments it is to undergo
    reported,                    \* per wafer, the experiments with a verdict
    measured,                    \* the wafers that are completed
    disposed                     \* the wafers voided or returned

promiseVars == <<status, types, plan, reported, measured, disposed>>

Wafers == DOMAIN plan

Init ==
    /\ status = "none"
    /\ types = {}
    /\ Wafers = {}
    /\ measured = {} /\ disposed = {}

\* The request is filed, rewritten, or deleted while a draft.  It always has
\* wafers; nothing is done to them yet.
Write ==
    /\ status \in {"none", "draft"}
    /\ status' \in {"none", "draft"}
    /\ status' = "draft" <=> Wafers' # {}
    /\ types' \subseteq Types
    /\ \A s \in Wafers' : plan'[s] \subseteq types' /\ reported'[s] = {}
    /\ measured' = {} /\ disposed' = {}

Decide(from, to) ==
    /\ status \in from
    /\ status' = to
    /\ UNCHANGED <<types, plan, reported, measured, disposed>>

Submit == Decide({"draft", "returned"}, "pending_approval")
Approve == Decide({"pending_approval"}, "approved")
Return == Decide({"pending_approval"}, "returned")
Reject == Decide({"pending_approval"}, "rejected")
Ship == Decide({"approved"}, "sample_shipped")
Cancel == Decide({"draft", "pending_approval", "approved", "returned",
                  "sample_shipped", "in_progress"}, "cancelled")
Close == Decide({"completed"}, "closed")

Settled == measured \cup disposed

\* The laboratory does something: verdicts arrive for planned experiments, a
\* wafer whose plan is done is measured, another is disposed of.  Before it has
\* the whole request it can only dispose; and a cancelled request may still be
\* worked on, but never completes.
LabWork ==
    /\ status \in {"sample_shipped", "in_progress", "completed", "closed",
                   "cancelled"}
    /\ UNCHANGED <<types, plan>>
    /\ \A s \in Wafers : /\ reported[s] \subseteq reported'[s]
                         /\ reported'[s] \subseteq plan[s]
    /\ measured \subseteq measured' /\ measured' \subseteq Wafers
    /\ disposed \subseteq disposed' /\ disposed' \subseteq Wafers
    /\ measured' \cap disposed' = {}
    /\ \A s \in measured' : plan[s] # {} /\ reported'[s] = plan[s]
    /\ status = "sample_shipped" => UNCHANGED <<reported, measured>>
    /\ IF status \in {"sample_shipped", "in_progress"}
       THEN IF Settled' = Wafers
            THEN status' = "completed"
            ELSE status' \in {status, "in_progress"}
       ELSE status' = status

Next ==
    \/ Write
    \/ Submit \/ Approve \/ Return \/ Reject \/ Ship \/ Cancel \/ Close
    \/ LabWork

Spec == Init /\ [][Next]_promiseVars
=============================================================================
