----------------------------- MODULE LimsStatus -----------------------------
(***************************************************************************)
(* The status enums and transition tables of the laboratory system: the    *)
(* TextChoices of commissions/models.py, wip/models.py and                 *)
(* equipment/models.py, and the two state_machine.py modules.  A handler   *)
(* looks its action up by name: it is refused unless the row's status is   *)
(* among the action's sources, and it then writes the action's target.     *)
(* "none" is not a status of the code: it marks an id with no row.         *)
(***************************************************************************)

RequestStatuses ==
    {"draft", "pending_approval", "approved", "returned", "rejected",
     "sample_shipped", "in_progress", "completed", "closed", "cancelled"}

SampleStatuses ==
    {"created", "shipped", "received", "receiving_exception", "processing",
     "processing_exception", "completed", "lost", "returned", "voided"}

WipStatuses == {"created", "in_progress", "completed", "aborted"}

\* result_recorded is kept in the enum for historical rows only; no code
\* assigns it, and no code assigns the request status "exception" either.
DispatchStatuses ==
    {"pending", "dispatched", "running", "execution_exception", "unloaded",
     "completed", "pending_redispatch", "aborted"}

ProgressStatuses == {"pending", "in_progress", "completed"}

EquipmentStatuses == {"available", "maintenance", "disabled"}

RequestTransitions ==
    [ submit  |-> {"draft", "returned"},
      approve |-> {"pending_approval"},
      return  |-> {"pending_approval"},
      reject  |-> {"pending_approval"},
      ship    |-> {"approved"},
      cancel  |-> {"draft", "pending_approval", "approved", "returned",
                   "sample_shipped", "in_progress"},
      close   |-> {"completed"} ]

RequestTarget ==
    [ submit  |-> "pending_approval",
      approve |-> "approved",
      return  |-> "returned",
      reject  |-> "rejected",
      ship    |-> "sample_shipped",
      cancel  |-> "cancelled",
      close   |-> "closed" ]

SampleTransitions ==
    [ ship                 |-> {"created"},
      receive              |-> {"shipped"},
      reject_receiving     |-> {"shipped"},
      report_lost          |-> {"shipped"},
      start_processing     |-> {"received"},
      complete             |-> {"processing"},
      processing_exception |-> {"processing"},
      void                 |-> {"receiving_exception", "processing_exception",
                                "lost"},
      return               |-> {"receiving_exception",
                                "processing_exception"} ]

SampleTarget ==
    [ ship                 |-> "shipped",
      receive              |-> "received",
      reject_receiving     |-> "receiving_exception",
      report_lost          |-> "lost",
      start_processing     |-> "processing",
      complete             |-> "completed",
      processing_exception |-> "processing_exception",
      void                 |-> "voided",
      return               |-> "returned" ]

WipTransitions == [ complete |-> {"in_progress"},
                    abort    |-> {"created", "in_progress"} ]

WipTarget == [ complete |-> "completed", abort |-> "aborted" ]

DispatchTransitions ==
    [ dispatch         |-> {"pending"},
      start            |-> {"dispatched"},
      unload           |-> {"dispatched", "running"},
      record_result    |-> {"unloaded"},
      report_exception |-> {"dispatched", "running"},
      redispatch       |-> {"execution_exception"},
      abort            |-> {"execution_exception", "pending"} ]

DispatchTarget ==
    [ dispatch         |-> "dispatched",
      start            |-> "running",
      unload           |-> "unloaded",
      record_result    |-> "completed",
      report_exception |-> "execution_exception",
      redispatch       |-> "pending_redispatch",
      abort            |-> "aborted" ]

\* wip/services.py TERMINAL_DISPATCH_STATUSES: no further progression on the
\* row.  A pending_redispatch row has been superseded by its replacement.
TerminalDispatchStatuses == {"completed", "aborted", "pending_redispatch"}
=============================================================================
