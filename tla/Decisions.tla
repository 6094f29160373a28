----------------------------- MODULE Decisions ------------------------------
(***************************************************************************)
(* What a human may decide about a task: when the API admits a decision,   *)
(* the status it leaves and the events it announces.                       *)
(*                                                                         *)
(*   apps/api/services.py (approve, reject, cancel), core/domain.py        *)
(***************************************************************************)

TERMINAL_STATUSES == {"COMPLETED", "FAILED", "CANCELLED", "REJECTED",
                      "HUMAN_REVIEW_REQUIRED"}

(* TERMINAL_STATUSES | WAITING_STATUSES *)
SETTLED_STATUSES == TERMINAL_STATUSES \cup {"READY_FOR_REVIEW"}

DecisionKinds == {"approve", "reject", "cancel"}

Admits(kind, status) ==
  CASE kind = "approve" -> status = "READY_FOR_REVIEW"
    [] kind = "reject"  -> status \notin TERMINAL_STATUSES \ {"HUMAN_REVIEW_REQUIRED"}
    [] kind = "cancel"  -> status \notin TERMINAL_STATUSES

(* Variant: approve stops at its first set_status. *)
Outcome_unfinished(kind) ==
  CASE kind = "approve" -> "HUMAN_APPROVED"
    [] kind = "reject"  -> "REJECTED"
    [] kind = "cancel"  -> "CANCELLED"

Outcome(kind) ==
  CASE kind = "approve" -> "COMPLETED"
    [] kind = "reject"  -> "REJECTED"
    [] kind = "cancel"  -> "CANCELLED"

Announces(kind) ==
  CASE kind = "approve" -> <<"APPROVAL_GRANTED", "TASK_COMPLETED">>
    [] kind = "reject"  -> <<"APPROVAL_REJECTED">>
    [] kind = "cancel"  -> <<"TASK_CANCELLED">>

=============================================================================
