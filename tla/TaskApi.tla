------------------------------ MODULE TaskApi -------------------------------
(***************************************************************************)
(* One task as the API and a worker share it: the requests that create it  *)
(* under one Idempotency-Key, the requests that approve, reject or cancel  *)
(* it, each in one database transaction, and the worker that writes its    *)
(* status, its approval rows and its agent runs while it executes.         *)
(*                                                                         *)
(*   apps/api/services.py, apps/api/routes/tasks.py,                       *)
(*   apps/api/dependencies.py, graph/context.py, agents/supervisor.py,     *)
(*   graph/nodes.py (human_review, halt), apps/worker/execution.py,        *)
(*   persistence/repositories/{tasks,audit}.py, persistence/db.py          *)
(*                                                                         *)
(* The database is PostgreSQL at READ COMMITTED: an UPDATE waits for the   *)
(* row lock of an open transaction, its effect is seen at the commit, and  *)
(* a primary key admits one row.  The events are module EventStream's.     *)
(* Which worker executes is Coordination's, what the nodes do Workflow's:  *)
(* here a node is the database operations of its wrapper, and "ACTIVE"     *)
(* stands for the status of every node that does not settle the task.      *)
(***************************************************************************)
EXTENDS Integers, Sequences, FiniteSets, FiniteSetsExt, Decisions

CONSTANTS
  Creates,         \* POST /tasks requests that carry the same key
  Fingerprints,    \* the request fingerprints they may have
  Requests,        \* decision requests
  MaxNodes,        \* bound on the ordinary nodes of an execution
  MaxExecutions,   \* bound on executions: redeliveries after a crash
  MaxFailures      \* bound on decisions that fail before their commit and on
                   \* exceptions that leave the wrapper of a node

(* There is no idempotency record: not a fingerprint. *)
NoRecord == "no record"

ASSUME TaskApiAssumption ==
  /\ \A f \in Fingerprints :
       DOMAIN f = Creates /\ \A c \in Creates : f[c] # NoRecord
  /\ MaxNodes \in Nat /\ MaxExecutions \in Nat /\ MaxFailures \in Nat

VARIABLES
  create,      \* where a creating request stands
  fingerprint, \* what a creating request asks for (never changes)
  key,         \* the fingerprint of the committed idempotency record
  status,      \* the status column of the task ("none": no row yet)
  approvals,   \* the status column of its approval rows, oldest first
  tx,          \* a decision request and its transaction
  executing,   \* is a worker executing the task?
  prog,        \* what the worker has to do before it chooses again
  nodes,       \* ordinary nodes of this execution so far
  running,     \* agent_runs rows that say RUNNING
  executions, crashes, escapes, rollbacks

apiVars == <<create, fingerprint, key, tx, rollbacks>>
workerVars == <<executing, prog, nodes, running, executions, crashes, escapes>>
vars == <<apiVars, workerVars, status, approvals>>

-----------------------------------------------------------------------------
(* POST /tasks *)

(* find_by_idempotency_key: replay to the same task, refuse another request,
   or go on to create. *)
Lookup(c) ==
  /\ create[c] = "start"
  /\ create' = [create EXCEPT ![c] =
       CASE key = NoRecord -> "creating"
         [] key = fingerprint[c] -> "replayed"
         [] OTHER -> "conflict"]
  /\ UNCHANGED <<fingerprint, key, tx, rollbacks, workerVars, status, approvals>>

(* Variant: the record has no primary key. *)
Insert_unkeyed(c) ==
  /\ create[c] = "creating"
  /\ create' = [create EXCEPT ![c] = "inserted"]
  /\ UNCHANGED <<fingerprint, key, tx, rollbacks, workerVars, status, approvals>>

(* TaskRepository.create flushes the task and the record: the primary key
   makes the flush wait for a transaction that inserted the key, and fail once
   that one has committed. *)
Insert(c) ==
  /\ create[c] = "creating"
  /\ \A d \in Creates : create[d] # "inserted"
  /\ create' = [create EXCEPT ![c] = IF key = NoRecord THEN "inserted" ELSE "error"]
  /\ UNCHANGED <<fingerprint, key, tx, rollbacks, workerVars, status, approvals>>

CommitCreate(c) ==
  /\ create[c] = "inserted"
  /\ create' = [create EXCEPT ![c] = "created"]
  /\ key' = fingerprint[c]
  /\ status' = "QUEUED"
  /\ UNCHANGED <<fingerprint, tx, rollbacks, workerVars, approvals>>

RollbackCreate(c) ==
  /\ create[c] = "inserted"
  /\ create' = [create EXCEPT ![c] = "error"]
  /\ UNCHANGED <<fingerprint, key, tx, rollbacks, workerVars, status, approvals>>

(* The client that was answered 500 sends its request again. *)
Retry(c) ==
  /\ create[c] = "error"
  /\ create' = [create EXCEPT ![c] = "start"]
  /\ UNCHANGED <<fingerprint, key, tx, rollbacks, workerVars, status, approvals>>

-----------------------------------------------------------------------------
(* POST /approve, /reject, /cancel *)

Verdict(kind) == IF kind = "approve" THEN "APPROVED" ELSE "REJECTED"

Pending == {i \in DOMAIN approvals : approvals[i] = "PENDING"}

NoTx == [pc |-> "start", kind |-> "cancel", row |-> 0]

(* get: the status that the decision is admitted by; a request answered 404 or
   409 changes nothing. *)
Check(r, kind) ==
  /\ tx[r].pc = "start"
  /\ status # "none"
  /\ Admits(kind, status)
  /\ tx' = [tx EXCEPT ![r] = [NoTx EXCEPT !.pc = "checked", !.kind = kind]]
  /\ UNCHANGED <<create, fingerprint, key, rollbacks, workerVars, status, approvals>>

(* pending_for: the newest open question, if any; cancel asks for none. *)
PendingFor(r) ==
  /\ tx[r].pc = "checked"
  /\ tx' = [tx EXCEPT ![r].pc = "ready",
       ![r].row = IF tx[r].kind = "cancel" \/ Pending = {} THEN 0 ELSE Max(Pending)]
  /\ UNCHANGED <<create, fingerprint, key, rollbacks, workerVars, status, approvals>>

(* A transaction that has written the task row holds its lock. *)
Locked == \E r \in Requests : tx[r].pc = "open"

(* decide and set_status: UPDATEs without a condition on what was read. *)
Write(r) ==
  /\ tx[r].pc = "ready"
  /\ ~Locked
  /\ tx' = [tx EXCEPT ![r].pc = "open"]
  /\ UNCHANGED <<create, fingerprint, key, rollbacks, workerVars, status, approvals>>

(* The request-scoped session commits after the handler returned. *)
Commit(r) ==
  /\ tx[r].pc = "open"
  /\ status' = Outcome(tx[r].kind)
  /\ approvals' = IF tx[r].row = 0 THEN approvals
                  ELSE [approvals EXCEPT ![tx[r].row] = Verdict(tx[r].kind)]
  /\ tx' = [tx EXCEPT ![r] = [NoTx EXCEPT !.pc = "done"]]
  /\ UNCHANGED <<create, fingerprint, key, rollbacks, workerVars>>

Rollback(r) ==
  /\ tx[r].pc = "open"
  /\ rollbacks + escapes < MaxFailures
  /\ tx' = [tx EXCEPT ![r] = [NoTx EXCEPT !.pc = "failed"]]
  /\ rollbacks' = rollbacks + 1
  /\ UNCHANGED <<create, fingerprint, key, workerVars, status, approvals>>

-----------------------------------------------------------------------------
(* The worker *)

save_checkpoint(s) == <<[op |-> "status", arg |-> s]>>
agent_run(s) == <<[op |-> s, arg |-> "ACTIVE"]>>
request_approval == <<[op |-> "approval", arg |-> "READY_FOR_REVIEW"]>>

(* Variant: an exception skips finish_agent_run. *)
instrument_unfinished(s, body, ok) ==
  agent_run("start") \o save_checkpoint(s) \o body
  \o (IF ok THEN agent_run("finish") ELSE <<>>) \o save_checkpoint(s)

(* Supervisor.instrument around the database operations of a node, which ends
   its agent run as COMPLETED, or as FAILED or BLOCKED when the node raises.
   Only the node itself is inside the try: see WrapperRaises. *)
instrument(s, body, ok) ==
  agent_run("start") \o save_checkpoint(s) \o body
  \o agent_run("finish") \o save_checkpoint(s)

finalize(s) == <<[op |-> "finalize", arg |-> s]>>

human_review == instrument("READY_FOR_REVIEW", request_approval, TRUE)

(* Variant: the claim does not look at the status. *)
Start_any ==
  /\ ~executing
  /\ status # "none"
  /\ executions < MaxExecutions
  /\ executing' = TRUE
  /\ executions' = executions + 1
  /\ UNCHANGED <<prog, nodes, running, crashes, escapes, apiVars, status, approvals>>

(* Variant: the sweep looks for queued tasks only. *)
Start_queued ==
  /\ ~executing
  /\ status = "QUEUED"
  /\ executions < MaxExecutions
  /\ executing' = TRUE
  /\ executions' = executions + 1
  /\ UNCHANGED <<prog, nodes, running, crashes, escapes, apiVars, status, approvals>>

(* _execute and claim: a message or the sweep brings the task to a worker, and
   again after a crash, or when a message was duplicated or redelivered. *)
Start ==
  /\ ~executing
  /\ status \notin TERMINAL_STATUSES \cup {"none"}
  /\ executions < MaxExecutions
  /\ executing' = TRUE
  /\ executions' = executions + 1
  /\ UNCHANGED <<prog, nodes, running, crashes, escapes, apiVars, status, approvals>>

Does(op) == prog # <<>> /\ Head(prog).op = op

(* What _finalize finds when the last node raised: no outcome, which is FAILED,
   or the outcome that an earlier execution left in the checkpoint. *)
OldOutcomes ==
  {"FAILED"} \cup (IF executions > 1 THEN {"HUMAN_REVIEW_REQUIRED"} ELSE {})
             \cup (IF approvals # <<>> THEN {"READY_FOR_REVIEW"} ELSE {})

(* The workflow takes a next node, or ends in one of its ways: a review, a
   review whose node raised before or after it asked, an escalation by halt or
   by the recursion limit, an exception between two nodes, a bad path. *)
NextNode ==
  /\ executing /\ prog = <<>>
  /\ \/ /\ nodes < MaxNodes
        /\ \E ok \in BOOLEAN : prog' = instrument("ACTIVE", <<>>, ok)
     \/ prog' = human_review \o finalize("READY_FOR_REVIEW")
     \/ \E body \in {<<>>, request_approval}, o \in OldOutcomes :
          prog' = instrument("READY_FOR_REVIEW", body, FALSE) \o finalize(o)
     \/ prog' = instrument("ACTIVE", <<>>, TRUE) \o finalize("HUMAN_REVIEW_REQUIRED")
     \/ prog' = finalize("HUMAN_REVIEW_REQUIRED")
     \/ prog' = finalize("FAILED")
  /\ nodes' = IF prog'[Len(prog')].op = "finalize" THEN nodes ELSE nodes + 1
  /\ UNCHANGED <<executing, running, executions, crashes, escapes, apiVars, status, approvals>>

(* save_checkpoint: an unconditional UPDATE. *)
Checkpoint ==
  /\ Does("status") /\ ~Locked
  /\ status' = Head(prog).arg
  /\ prog' = Tail(prog)
  /\ UNCHANGED <<executing, nodes, running, executions, crashes, escapes, apiVars, approvals>>

(* _finalize, _finalize_failure, and the end of the execution. *)
Finalize ==
  /\ Does("finalize") /\ ~Locked
  /\ status' = Head(prog).arg
  /\ prog' = Tail(prog)
  /\ executing' = FALSE
  /\ nodes' = 0
  /\ UNCHANGED <<running, executions, crashes, escapes, apiVars, approvals>>

(* Variant: a resumed execution asks again. *)
RequestApproval_again ==
  /\ Does("approval")
  /\ approvals' = Append(approvals, "PENDING")
  /\ prog' = Tail(prog)
  /\ UNCHANGED <<executing, nodes, running, executions, crashes, escapes, apiVars, status>>

(* context.request_approval: one open question is enough. *)
RequestApproval ==
  /\ Does("approval")
  /\ approvals' = IF Pending = {} THEN Append(approvals, "PENDING") ELSE approvals
  /\ prog' = Tail(prog)
  /\ UNCHANGED <<executing, nodes, running, executions, crashes, escapes, apiVars, status>>

StartAgentRun ==
  /\ Does("start")
  /\ running' = running + 1
  /\ prog' = Tail(prog)
  /\ UNCHANGED <<executing, nodes, executions, crashes, escapes, apiVars, status, approvals>>

FinishAgentRun ==
  /\ Does("finish")
  /\ running' = running - 1
  /\ prog' = Tail(prog)
  /\ UNCHANGED <<executing, nodes, executions, crashes, escapes, apiVars, status, approvals>>

(* An operation of the wrapper itself fails: an event, start_agent_run or a
   checkpoint, all outside the try, or finish_agent_run in the except branch
   that answers its own failure.  The exception leaves the graph, the agent run
   stays as it is, and the task is FAILED. *)
WrapperRaises ==
  /\ executing /\ prog # <<>>
  /\ Head(prog).op # "approval"
  /\ rollbacks + escapes < MaxFailures
  /\ escapes' = escapes + 1
  /\ prog' = finalize("FAILED")
  /\ UNCHANGED <<executing, nodes, running, executions, crashes, apiVars, status, approvals>>

(* The worker dies and its lease runs out, or _finalize itself raises and the
   lease is released; nothing closes the agent run. *)
Crash ==
  /\ executing
  /\ executions < MaxExecutions
  /\ crashes' = crashes + 1
  /\ executing' = FALSE
  /\ prog' = <<>>
  /\ nodes' = 0
  /\ UNCHANGED <<running, executions, escapes, apiVars, status, approvals>>

-----------------------------------------------------------------------------
(* Specification *)

Init ==
  /\ create = [c \in Creates |-> "start"]
  /\ fingerprint \in Fingerprints
  /\ key = NoRecord
  /\ status = "none"
  /\ approvals = <<>>
  /\ tx = [r \in Requests |-> NoTx]
  /\ executing = FALSE
  /\ prog = <<>>
  /\ nodes = 0
  /\ running = 0
  /\ executions = 0
  /\ crashes = 0
  /\ escapes = 0
  /\ rollbacks = 0

CreateStep(c) == Lookup(c) \/ Insert(c) \/ CommitCreate(c) \/ Retry(c)

DecisionStep(r) == PendingFor(r) \/ Write(r) \/ Commit(r)

WorkerStep == NextNode \/ Checkpoint \/ Finalize \/ RequestApproval
              \/ StartAgentRun \/ FinishAgentRun

(* Once the task exists, a creating request only reads the key, and nothing
   else reads or writes it: its steps commute with those of the rest.  The
   behaviours explored are the ones that answer these requests first. *)
Answered == \A c \in Creates : create[c] \in {"created", "replayed", "conflict"}

Next ==
  \/ \E c \in Creates : CreateStep(c) \/ RollbackCreate(c)
  \/ /\ Answered
     /\ \/ \E r \in Requests : DecisionStep(r) \/ Rollback(r)
        \/ \E r \in Requests, kind \in DecisionKinds : Check(r, kind)
        \/ Start
        \/ WorkerStep
        \/ WrapperRaises
        \/ Crash

(* Requests that were received and the worker keep running, a client retries
   until it is answered, and the sweep finds a task that is neither settled nor
   executed (Coordination: TasksStart); the arrival of a decision, a
   redelivery, a crash, an exception and a rollback are not owed. *)
Fairness ==
  /\ WF_vars(\E c \in Creates : CreateStep(c))
  /\ WF_vars(Answered /\ \E r \in Requests : DecisionStep(r))
  /\ WF_vars(Answered /\ WorkerStep)
  /\ WF_vars(Answered /\ status \notin SETTLED_STATUSES /\ Start)

Spec == Init /\ [][Next]_vars /\ Fairness

-----------------------------------------------------------------------------
(* Properties *)

(* The variables have their types; in particular an agent run that stays RUNNING
   behind its node was left by a crash or by an exception of the wrapper, and
   each of these leaves at most one (supervisor.instrument). *)
TypeOK ==
  /\ create \in [Creates -> {"start", "creating", "inserted", "created",
                             "replayed", "conflict", "error"}]
  /\ fingerprint \in Fingerprints
  /\ key \in {NoRecord} \cup {fingerprint[c] : c \in Creates}
  /\ status \in SETTLED_STATUSES \cup {"none", "QUEUED", "ACTIVE"}
  /\ approvals \in Seq({"PENDING", "APPROVED", "REJECTED"})
  /\ tx \in [Requests -> [pc : {"start", "checked", "ready", "open", "done", "failed"},
                          kind : DecisionKinds, row : Nat]]
  /\ executing \in BOOLEAN
  /\ prog \in Seq([op : {"status", "start", "finish", "approval", "finalize"},
                   arg : SETTLED_STATUSES \cup {"ACTIVE"}])
  /\ nodes \in Nat /\ running \in Nat /\ executions \in Nat /\ crashes \in Nat
  /\ rollbacks \in Nat /\ escapes \in Nat
  /\ running <= crashes + escapes + (IF prog = <<>> THEN 0 ELSE 1)

(* Requests that carry one Idempotency-Key create at most one task, also when
   none of them finds a record and when they are retried, and a request
   answered with that task asks for what the task was created for
   (services.create_task). *)
OneTaskPerKey ==
  \A c, d \in Creates :
    create[c] = "created" =>
      /\ create[d] = "created" => c = d
      /\ create[d] = "replayed" => fingerprint[c] = fingerprint[d]

(* There is never more than one open question to a human, also after a resumed
   execution and decisions in between; and a task that a worker parked for
   review has one, unless a worker died or a decision was taken meanwhile
   (nodes.human_review, context.request_approval). *)
OneOpenQuestion ==
  /\ Cardinality(Pending) <= 1
  /\ (/\ status = "READY_FOR_REVIEW"
      /\ ~executing
      /\ crashes = 0
      /\ \A r \in Requests : tx[r].pc # "done") => Pending # {}

Final ==
  /\ status \in TERMINAL_STATUSES \ {"HUMAN_REVIEW_REQUIRED"}
  /\ ~executing
  /\ \A r \in Requests : tx[r].pc \notin {"checked", "ready", "open"}

(* A decision is final once no execution and no request that was admitted
   earlier is left to overwrite it: no message and no sweep takes the task up
   again (services.approve, reject, cancel; _execute and claim). *)
DecisionsStick == [][Final => Final' /\ status' = status]_vars

(* A task that exists settles for good, whatever decisions and redeliveries do
   to its status (execution._finalize). *)
TaskSettles == (status # "none") ~> [](status \in SETTLED_STATUSES)

(* "POST /cancel stops a task that is still running." *)
CancelStops == [][(status = "CANCELLED") => (status' = "CANCELLED")]_vars

=============================================================================
