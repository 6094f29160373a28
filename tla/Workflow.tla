------------------------------ MODULE Workflow ------------------------------
(***************************************************************************)
(* The agent workflow of one task: the LangGraph nodes, the deterministic  *)
(* routing between them, the supervisor that wraps every node in a         *)
(* checkpoint before and a checkpoint after, and the execution service     *)
(* that starts, resumes and finalises a run.                               *)
(*                                                                         *)
(*   graph/nodes.py, graph/routing.py, graph/workflow.py, graph/state.py,  *)
(*   graph/fingerprint.py, graph/context.py, agents/supervisor.py,         *)
(*   agents/git_agent.py, tools/workspace.py, tools/git/*.py,              *)
(*   apps/worker/execution.py                                              *)
(*                                                                         *)
(* Data is abstracted to what routing and the properties tell apart:       *)
(*   - a list of failure signatures is one value of Signatures, or NoSig   *)
(*     for the empty list; only the last two entries of the history are    *)
(*     kept, because is_stuck reads no others;                             *)
(*   - modified_files is its length, capped at MaxFiles + 1;               *)
(*   - a commit is its position on the task branch (0: none);              *)
(*   - policy actions ALLOW and HUMAN_APPROVAL route alike: both are ALLOW.*)
(* Model output is arbitrary: an agent may write any number of files or    *)
(* none, a test run or a CI run may end in any way.                        *)
(***************************************************************************)
EXTENDS Integers

CONSTANTS
  MaxIterations,    \* settings.max_agent_iterations
  MaxCIIterations,  \* settings.max_ci_iterations
  MaxFiles,         \* settings.max_files_per_task
  RecursionLimit,   \* graph.workflow.RECURSION_LIMIT
  Signatures,       \* non-empty failure fingerprints
  NoSig,            \* the empty list of fingerprints
  Violations,       \* nodes where a policy or workspace violation may be raised
  Errors,           \* nodes where any other exception may be raised
  StoreFails,       \* may a checkpoint write raise?
  LostWorkspaces,   \* may a resuming worker miss the worktree's directory?
  MaxRuns           \* executions of the task: bounds crashes and redeliveries

NodeNames == {"plan", "repository_analysis", "risk_assessment",
  "implementation", "test_generation", "run_tests", "debugging",
  "security_policy", "git_commit", "ci_validation", "ci_debugging",
  "create_pr", "human_review", "halt"}

ASSUME ConstantsAssumption ==
  /\ MaxIterations \in Nat
  /\ MaxCIIterations \in Nat
  /\ MaxFiles \in Nat
  /\ RecursionLimit \in Nat
  /\ NoSig \notin Signatures
  /\ Violations \subseteq NodeNames
  /\ Errors \subseteq NodeNames
  /\ StoreFails \in BOOLEAN
  /\ LostWorkspaces \in BOOLEAN
  /\ MaxRuns \in Nat

VARIABLES
  node,      \* the graph node that runs, or runs next ("END" past the last)
  phase,     \* idle | enter | run | save : where the wrapped node stands
  steps,     \* supersteps of the current ainvoke
  st,        \* the AgentState LangGraph carries (lost in a crash)
  input,     \* the AgentState handed to ainvoke
  row,       \* the durable task row: status and checkpointed state
  wt,        \* the git worktree and its registration in the worker process
  head,      \* the task branch
  pr,        \* newest commit the pull request shows (NoPR: none was opened)
  approval,  \* is there a PENDING approval row?
  checkout,  \* did a tool write into the developer's own checkout?
  runs       \* executions so far

vars == <<node, phase, steps, st, input, row, wt, head, pr, approval,
          checkout, runs>>

-----------------------------------------------------------------------------
(* State *)

Files == 0 .. (MaxFiles + 1)
Sigs == Signatures \cup {NoSig}
CIOutcomes == {"PASSED", "SKIPPED", "FAILED", "TIMED_OUT"}

TerminalStatuses ==
  {"COMPLETED", "FAILED", "CANCELLED", "REJECTED", "HUMAN_REVIEW_REQUIRED"}

(* Parked or finished: no lease sweep picks the task up again. *)
SettledStatuses == TerminalStatuses \cup {"READY_FOR_REVIEW"}

NODE_STATUS == [n \in NodeNames |->
  CASE n = "plan"                -> "PLANNING"
    [] n = "repository_analysis" -> "REPOSITORY_ANALYSIS"
    [] n = "risk_assessment"     -> "RISK_ASSESSMENT"
    [] n = "implementation"      -> "IMPLEMENTING"
    [] n = "test_generation"     -> "TESTING"
    [] n = "run_tests"           -> "TESTING"
    [] n = "debugging"           -> "DEBUGGING"
    [] n = "security_policy"     -> "POLICY_CHECK"
    [] n = "git_commit"          -> "TEST_PASSED"
    [] n = "ci_validation"       -> "CI_RUNNING"
    [] n = "ci_debugging"        -> "CI_DEBUGGING"
    [] n = "create_pr"           -> "PR_CREATED"
    [] n = "human_review"        -> "READY_FOR_REVIEW"
    [] OTHER                     -> "PLANNING"]   \* "halt" is not in the table

Statuses == TerminalStatuses \cup {"QUEUED", "PLANNING", "REPOSITORY_ANALYSIS",
  "RISK_ASSESSMENT", "IMPLEMENTING", "TESTING", "DEBUGGING", "POLICY_CHECK",
  "TEST_PASSED", "CI_RUNNING", "CI_DEBUGGING", "PR_CREATED",
  "READY_FOR_REVIEW"}

AgentState == [
  policy_action     : {"unset", "ALLOW", "BLOCK"},
  modified_files    : Nat,
  test_run_ok       : BOOLEAN,
  prev_signatures   : Sigs,          \* failure_signature_history[-2]
  last_signatures   : Sigs,          \* failure_signature_history[-1]
  iteration         : Nat,
  ci_iteration      : Nat,
  ci_status         : {"unset"} \cup CIOutcomes,
  ci_requires_human : BOOLEAN,
  commit_sha        : Nat,
  workspace_path    : BOOLEAN,       \* is it set?
  outcome           : {"unset", "READY_FOR_REVIEW", "HUMAN_REVIEW_REQUIRED"},
  halt_reason       : BOOLEAN]       \* is it set?

initial_state == [
  policy_action |-> "unset", modified_files |-> 0, test_run_ok |-> FALSE,
  prev_signatures |-> NoSig, last_signatures |-> NoSig, iteration |-> 0,
  ci_iteration |-> 0, ci_status |-> "unset", ci_requires_human |-> FALSE,
  commit_sha |-> 0, workspace_path |-> FALSE, outcome |-> "unset",
  halt_reason |-> FALSE]

(* active: in WorkspaceManager._active; files: paths that differ from HEAD.
   tested and gated are history: did run_tests pass, and did the policy gate
   allow, exactly the content that is in the tree now? *)
WorkTree == [active : BOOLEAN, files : Nat, tested : BOOLEAN, gated : BOOLEAN]

NoWorkTree    == [active |-> FALSE, files |-> 0, tested |-> FALSE, gated |-> FALSE]
FreshWorkTree == [active |-> TRUE, files |-> 0, tested |-> FALSE, gated |-> FALSE]

(* n: commits of the agent on the branch. tested and gated: were all of them
   tested and gated when they were made? ci: what CI said of the newest one. *)
Branch == [n : Nat, tested : BOOLEAN, gated : BOOLEAN, ci : {"unset"} \cup CIOutcomes]

NoPR == -1

FreshBranch == [n |-> 0, tested |-> TRUE, gated |-> TRUE, ci |-> "unset"]

Init ==
  /\ node = "plan" /\ phase = "idle" /\ steps = 0
  /\ st = initial_state /\ input = initial_state
  /\ row = [status |-> "QUEUED", state |-> initial_state]
  /\ wt = NoWorkTree /\ head = FreshBranch /\ pr = NoPR
  /\ approval = FALSE /\ checkout = FALSE /\ runs = 0

-----------------------------------------------------------------------------
(* Routing *)

is_stuck(s) == s.last_signatures = s.prev_signatures /\ s.last_signatures # NoSig

after_risk(s) == IF s.policy_action = "BLOCK" THEN "halt" ELSE "implementation"

after_tests(s) ==
  CASE s.test_run_ok                     -> "security_policy"
    [] ~s.test_run_ok /\ \/ s.iteration >= MaxIterations
                         \/ is_stuck(s)
                         \/ s.modified_files > MaxFiles -> "halt"
    [] OTHER                             -> "debugging"

after_policy_ignored(s) == "git_commit"         \* variant: the gate is advisory

after_policy(s) == IF s.policy_action = "BLOCK" THEN "halt" ELSE "git_commit"

after_commit_ungated(s) == "ci_validation"      \* variant: the gate is missing

after_commit(s) == IF s.commit_sha = 0 THEN "halt" ELSE "ci_validation"

after_ci_optimistic(s) ==         \* variant: only FAILED counts as a failure
  CASE s.ci_status # "FAILED" -> "create_pr"
    [] s.ci_status = "FAILED" /\
         (s.ci_requires_human \/ s.ci_iteration >= MaxCIIterations) -> "halt"
    [] OTHER -> "ci_debugging"

after_ci(s) ==
  CASE s.ci_status \in {"PASSED", "SKIPPED", "unset"} -> "create_pr"
    [] s.ci_status \in {"FAILED", "TIMED_OUT"} /\
         (s.ci_requires_human \/ s.ci_iteration >= MaxCIIterations) -> "halt"
    [] OTHER -> "ci_debugging"

(* The edges of build_workflow. *)
NextNode(n, s) ==
  CASE n = "plan"                -> "repository_analysis"
    [] n = "repository_analysis" -> "risk_assessment"
    [] n = "risk_assessment"     -> after_risk(s)
    [] n = "implementation"      -> "test_generation"
    [] n = "test_generation"     -> "run_tests"
    [] n = "run_tests"           -> after_tests(s)
    [] n = "debugging"           -> "run_tests"
    [] n = "security_policy"     -> after_policy(s)
    [] n = "git_commit"          -> after_commit(s)
    [] n = "ci_validation"       -> after_ci(s)
    [] n = "ci_debugging"        -> "run_tests"
    [] n = "create_pr"           -> "human_review"
    [] OTHER                     -> "END"

-----------------------------------------------------------------------------
(* Tools and the worktree *)

WriteAllowed == st.policy_action # "BLOCK"

(* An agent that holds write tools works from worktree w: it writes nothing,
   or it changes files. The tools are rooted at ToolContext.root, which is the
   worktree when one is registered and the developer's checkout otherwise. *)
AgentWrites(w) ==
  \/ wt' = w /\ UNCHANGED checkout
  \/ /\ WriteAllowed /\ w.active
     /\ \E f \in Files : wt' = [w EXCEPT !.files = f, !.tested = FALSE, !.gated = FALSE]
     /\ UNCHANGED checkout
  \/ /\ WriteAllowed /\ ~w.active
     /\ wt' = w /\ checkout' = TRUE

(* _refresh_diff: without a worktree the update is empty. *)
RefreshDiff(s, w) == IF w.active THEN [s EXCEPT !.modified_files = w.files] ELSE s

(* WorkspaceManager.create: a leftover directory is removed and its branch
   deleted before the worktree is added. *)
CreateWorkspace(w) == IF wt.active THEN w = wt /\ UNCHANGED head
                      ELSE w = FreshWorkTree /\ head' = FreshBranch

(* commit_all: everything in the tree becomes one commit on the branch. *)
CommitAll ==
  /\ head' = [n |-> head.n + 1, tested |-> head.tested /\ wt.tested,
              gated |-> head.gated /\ wt.gated, ci |-> "unset"]
  /\ wt' = [wt EXCEPT !.files = 0]

-----------------------------------------------------------------------------
(* Execution service: start, resume, finalise *)

(* The worktree the checkpoint names is registered when its directory is there.
   A worker on another node may not have it. A worktree that the checkpoint does
   not name yet may still be registered, if the same process runs the task. *)
AdoptWorkspace == \E a \in BOOLEAN :
  /\ a => row.state.workspace_path \/ wt.active
  /\ row.state.workspace_path /\ ~LostWorkspaces => a
  /\ wt' = [wt EXCEPT !.active = a]

Begin_afresh ==                   \* variant: the checkpoint is not read back
  /\ phase = "idle" /\ row.status \notin TerminalStatuses /\ runs < MaxRuns
  /\ runs' = runs + 1
  /\ st' = initial_state /\ input' = initial_state
  /\ AdoptWorkspace
  /\ node' = "plan" /\ phase' = "enter" /\ steps' = 0
  /\ UNCHANGED <<row, head, pr, approval, checkout>>

Begin_queued_only ==              \* variant: a task a crash interrupted is not resumed
  /\ phase = "idle" /\ row.status = "QUEUED" /\ runs < MaxRuns
  /\ runs' = runs + 1
  /\ st' = row.state /\ input' = row.state
  /\ AdoptWorkspace
  /\ node' = "plan" /\ phase' = "enter" /\ steps' = 0
  /\ UNCHANGED <<row, head, pr, approval, checkout>>

(* The claim refuses terminal tasks only; a READY_FOR_REVIEW task is run again
   when its queue message is delivered again. Whatever the checkpoint says, the
   graph restarts at its first node, with the checkpointed state as its input. *)
Begin ==
  /\ phase = "idle" /\ row.status \notin TerminalStatuses /\ runs < MaxRuns
  /\ runs' = runs + 1
  /\ st' = row.state /\ input' = row.state
  /\ AdoptWorkspace
  /\ node' = "plan" /\ phase' = "enter" /\ steps' = 0
  /\ UNCHANGED <<row, head, pr, approval, checkout>>

(* _resolve_repository_path raises: the task fails without a run. *)
BadRepositoryPath ==
  /\ phase = "idle" /\ row.status \notin TerminalStatuses /\ runs < MaxRuns
  /\ row' = [row EXCEPT !.status = "FAILED"]
  /\ runs' = runs + 1
  /\ UNCHANGED <<node, phase, steps, st, input, wt, head, pr, approval, checkout>>

(* Back to idle: the in-memory run is gone, the worktree stays on disk, and stays
   registered with the process when that is still alive. *)
EndRun(alive) ==
  /\ phase' = "idle" /\ node' = "plan" /\ steps' = 0
  /\ st' = initial_state /\ input' = initial_state
  /\ wt' = [wt EXCEPT !.active = @ /\ alive]
  /\ UNCHANGED <<head, pr, approval, checkout, runs>>

FinalStatus(s) == CASE s.outcome = "HUMAN_REVIEW_REQUIRED" -> "HUMAN_REVIEW_REQUIRED"
                    [] s.outcome = "READY_FOR_REVIEW"      -> "READY_FOR_REVIEW"
                    [] OTHER                               -> "FAILED"

Finalize ==
  /\ phase = "enter" /\ node = "END"
  /\ row' = [status |-> FinalStatus(st), state |-> st]
  /\ EndRun(TRUE)

(* GraphRecursionError: finalised with the state that was the run's input. *)
RecursionLimitReached ==
  /\ phase = "enter" /\ node # "END" /\ steps = RecursionLimit
  /\ row' = [status |-> "HUMAN_REVIEW_REQUIRED",
             state |-> [input EXCEPT !.outcome = "HUMAN_REVIEW_REQUIRED",
                                     !.halt_reason = TRUE]]
  /\ EndRun(TRUE)

(* The event, audit and checkpoint writes around a node are outside the
   supervisor's try: ainvoke raises and the task fails. *)
CheckpointFails ==
  /\ StoreFails /\ phase \in {"enter", "save"} /\ node # "END"
  /\ row' = [row EXCEPT !.status = "FAILED"]
  /\ EndRun(TRUE)

(* The worker process dies. The last run allowed by MaxRuns does not crash. *)
Crash ==
  /\ phase # "idle" /\ runs < MaxRuns
  /\ UNCHANGED row
  /\ EndRun(FALSE)

-----------------------------------------------------------------------------
(* Supervisor.instrument *)

EnterNode_uncounted ==            \* variant: no recursion limit is configured
  /\ phase = "enter" /\ node # "END"
  /\ row' = [status |-> NODE_STATUS[node], state |-> st]
  /\ phase' = "run"
  /\ UNCHANGED <<node, steps, st, input, wt, head, pr, approval, checkout, runs>>

EnterNode ==
  /\ phase = "enter" /\ node # "END" /\ steps < RecursionLimit
  /\ row' = [status |-> NODE_STATUS[node], state |-> st]
  /\ steps' = steps + 1
  /\ phase' = "run"
  /\ UNCHANGED <<node, st, input, wt, head, pr, approval, checkout, runs>>

SaveNode ==
  /\ phase = "save"
  /\ row' = [status |-> NODE_STATUS[node], state |-> st]
  /\ node' = NextNode(node, st)
  /\ phase' = "enter"
  /\ UNCHANGED <<steps, st, input, wt, head, pr, approval, checkout, runs>>

(* A node function runs from phase "run" and leaves the merged state in st. *)
Runs(n) == phase = "run" /\ node = n
Returns(s) == /\ st' = s /\ phase' = "save"
              /\ UNCHANGED <<node, steps, input, row, runs>>

(* What may have happened before the exception that leaves node n. *)
PartialEffects(n) ==
  CASE n = "implementation" ->
         /\ \/ UNCHANGED <<wt, head, checkout>>
            \/ \E w \in {wt, FreshWorkTree} : CreateWorkspace(w) /\ AgentWrites(w)
         /\ UNCHANGED <<pr, approval>>
    [] n \in {"test_generation", "debugging", "ci_debugging"} ->
         AgentWrites(wt) /\ UNCHANGED <<head, pr, approval>>
    [] n = "git_commit" ->
         /\ \/ UNCHANGED <<wt, head>>
            \/ wt.active /\ st.modified_files > 0 /\ wt.files > 0 /\ CommitAll
         /\ UNCHANGED <<pr, approval, checkout>>
    [] n = "create_pr" ->
         /\ pr' \in {pr, IF wt.active THEN head.n ELSE pr}
         /\ UNCHANGED <<wt, head, approval, checkout>>
    [] n = "human_review" ->
         /\ approval' \in {approval, TRUE}
         /\ UNCHANGED <<wt, head, pr, checkout>>
    [] OTHER -> UNCHANGED <<wt, head, pr, approval, checkout>>

(* WorkspaceManager.get raises in these nodes when no worktree is registered. *)
NeedsWorkspace == {"run_tests", "git_commit", "ci_validation", "create_pr"}

NodeViolates_unblocked ==         \* variant: a violation is handled as any error
  /\ phase = "run"
  /\ \/ node \in Violations /\ PartialEffects(node)
     \/ /\ node \in NeedsWorkspace /\ ~wt.active
        /\ UNCHANGED <<wt, head, pr, approval, checkout>>
  /\ Returns([st EXCEPT !.halt_reason = TRUE])

NodeViolates ==
  /\ phase = "run"
  /\ \/ node \in Violations /\ PartialEffects(node)
     \/ /\ node \in NeedsWorkspace /\ ~wt.active
        /\ UNCHANGED <<wt, head, pr, approval, checkout>>
  /\ Returns([st EXCEPT !.policy_action = "BLOCK", !.halt_reason = TRUE])

NodeFails ==
  /\ phase = "run" /\ node \in Errors
  /\ node \in NeedsWorkspace => wt.active
  /\ PartialEffects(node)
  /\ Returns([st EXCEPT !.halt_reason = TRUE])

-----------------------------------------------------------------------------
(* The nodes *)

plan ==
  /\ Runs("plan") /\ Returns(st)
  /\ UNCHANGED <<wt, head, pr, approval, checkout>>

repository_analysis ==
  /\ Runs("repository_analysis") /\ Returns(st)
  /\ UNCHANGED <<wt, head, pr, approval, checkout>>

risk_assessment ==
  /\ Runs("risk_assessment")
  /\ \E a \in {"ALLOW", "BLOCK"} :
       Returns([st EXCEPT !.policy_action = a,
                          !.halt_reason = @ \/ a = "BLOCK"])
  /\ UNCHANGED <<wt, head, pr, approval, checkout>>

implementation ==
  /\ Runs("implementation")
  /\ \E w \in {wt, FreshWorkTree} : CreateWorkspace(w) /\ AgentWrites(w)
  /\ Returns([RefreshDiff(st, wt') EXCEPT !.workspace_path = TRUE])
  /\ UNCHANGED <<pr, approval>>

test_generation ==
  /\ Runs("test_generation")
  /\ AgentWrites(wt)
  /\ Returns(RefreshDiff(st, wt'))
  /\ UNCHANGED <<head, pr, approval>>

run_tests_by_failures ==          \* variant: no parsed failure means the run passed
  /\ Runs("run_tests") /\ wt.active
  /\ \E ok \in BOOLEAN, sig \in Sigs :
       /\ ok => sig = NoSig
       /\ Returns(RefreshDiff([st EXCEPT !.test_run_ok = (sig = NoSig),
                                         !.prev_signatures = st.last_signatures,
                                         !.last_signatures = sig], wt))
       /\ wt' = [wt EXCEPT !.tested = ok]
  /\ UNCHANGED <<head, pr, approval, checkout>>

(* No recognised test project counts as a pass and leaves the history alone.
   A failing run may carry fingerprints or none (a timed-out run). *)
run_tests ==
  /\ Runs("run_tests") /\ wt.active
  /\ \/ Returns([st EXCEPT !.test_run_ok = TRUE]) /\ wt' = [wt EXCEPT !.tested = TRUE]
     \/ \E ok \in BOOLEAN, sig \in Sigs :
          /\ ok => sig = NoSig
          /\ Returns(RefreshDiff([st EXCEPT !.test_run_ok = ok,
                                            !.prev_signatures = st.last_signatures,
                                            !.last_signatures = sig], wt))
          /\ wt' = [wt EXCEPT !.tested = ok]
  /\ UNCHANGED <<head, pr, approval, checkout>>

debugging_unpaid ==               \* variant: the iteration is not written back
  /\ Runs("debugging")
  /\ AgentWrites(wt)
  /\ Returns(RefreshDiff(st, wt'))
  /\ UNCHANGED <<head, pr, approval>>

debugging ==
  /\ Runs("debugging")
  /\ AgentWrites(wt)
  /\ Returns(RefreshDiff([st EXCEPT !.iteration = @ + 1], wt'))
  /\ UNCHANGED <<head, pr, approval>>

security_policy ==
  /\ Runs("security_policy")
  /\ \E a \in {"ALLOW", "BLOCK"} :
       /\ Returns([RefreshDiff(st, wt) EXCEPT !.policy_action = a,
                                              !.halt_reason = @ \/ a = "BLOCK"])
       /\ wt' = [wt EXCEPT !.gated = wt.active /\ a = "ALLOW"]
  /\ UNCHANGED <<head, pr, approval, checkout>>

git_commit ==
  /\ Runs("git_commit") /\ wt.active
  /\ \/ /\ st.modified_files = 0
        /\ Returns([st EXCEPT !.halt_reason = TRUE, !.policy_action = "BLOCK"])
        /\ UNCHANGED <<wt, head>>
     \/ /\ st.modified_files > 0
        /\ wt.files = 0 \/ "git_commit" \in Errors   \* git add or commit failed
        /\ Returns([st EXCEPT !.halt_reason = TRUE])
        /\ UNCHANGED <<wt, head>>
     \/ /\ st.modified_files > 0 /\ wt.files > 0
        /\ CommitAll
        /\ Returns([st EXCEPT !.commit_sha = head'.n])
  /\ UNCHANGED <<pr, approval, checkout>>

ci_validation_no_wait ==          \* variant: the run is not polled to its end
  /\ Runs("ci_validation") /\ wt.active
  /\ \E c \in CIOutcomes \cup {"RUNNING"} : Returns([st EXCEPT !.ci_status = c])
  /\ UNCHANGED <<wt, head, pr, approval, checkout>>

(* CI reports on the commit it was asked about, commit_sha. *)
ci_validation ==
  /\ Runs("ci_validation") /\ wt.active
  /\ \E c \in CIOutcomes :
       /\ Returns([st EXCEPT !.ci_status = c])
       /\ head' = IF st.commit_sha = head.n THEN [head EXCEPT !.ci = c] ELSE head
  /\ UNCHANGED <<wt, pr, approval, checkout>>

ci_debugging ==
  /\ Runs("ci_debugging")
  /\ AgentWrites(wt)
  /\ \E h \in BOOLEAN :
       Returns(RefreshDiff([st EXCEPT !.ci_iteration = @ + 1,
                                      !.ci_requires_human = h], wt'))
  /\ UNCHANGED <<head, pr, approval>>

(* Pushes the branch and opens the pull request on it. *)
create_pr ==
  /\ Runs("create_pr") /\ wt.active
  /\ pr' = head.n
  /\ Returns(st)
  /\ UNCHANGED <<wt, head, approval, checkout>>

human_review ==
  /\ Runs("human_review")
  /\ approval' = TRUE
  /\ Returns([st EXCEPT !.outcome = "READY_FOR_REVIEW"])
  /\ UNCHANGED <<wt, head, pr, checkout>>

halt ==
  /\ Runs("halt")
  /\ Returns([st EXCEPT !.outcome = "HUMAN_REVIEW_REQUIRED", !.halt_reason = TRUE])
  /\ UNCHANGED <<wt, head, pr, approval, checkout>>

-----------------------------------------------------------------------------
NodeStep ==
  \/ plan \/ repository_analysis \/ risk_assessment \/ implementation
  \/ test_generation \/ run_tests \/ debugging \/ security_policy
  \/ git_commit \/ ci_validation \/ ci_debugging \/ create_pr
  \/ human_review \/ halt \/ NodeViolates \/ NodeFails

WorkerStep ==
  \/ EnterNode \/ NodeStep \/ SaveNode \/ Finalize
  \/ RecursionLimitReached \/ CheckpointFails

(* Nothing is left to do. *)
Terminated == phase = "idle" /\ row.status \in SettledStatuses /\ UNCHANGED vars

Next == Begin \/ BadRepositoryPath \/ WorkerStep \/ Crash \/ Terminated

(* A live worker keeps executing, and recovery eventually restarts an
   unsettled task. Redelivery of a READY_FOR_REVIEW task and crashes are not
   fair. *)
Fairness == /\ WF_vars(WorkerStep)
            /\ WF_vars(Begin /\ row.status \notin SettledStatuses)

Spec == Init /\ [][Next]_vars /\ Fairness

-----------------------------------------------------------------------------
(* Properties *)

(* Type invariant: in particular ci_status is only ever the verdict of a
   finished CI run, the only values after_ci is written for. *)
TypeOK ==
  /\ node \in NodeNames \cup {"END"}
  /\ phase \in {"idle", "enter", "run", "save"}
  /\ steps \in Nat
  /\ st \in AgentState /\ input \in AgentState
  /\ row \in [status : Statuses, state : AgentState]
  /\ wt \in WorkTree /\ head \in Branch
  /\ pr \in Nat \cup {NoPR}
  /\ approval \in BOOLEAN /\ checkout \in BOOLEAN
  /\ runs \in Nat

(* The debugging and CI budgets hold in the live state and in the checkpoint,
   whatever the nodes raise and however often the task is resumed: after_tests
   and after_ci test them before the nodes that spend them. *)
BudgetsRespected ==
  \A s \in {st, input, row.state} :
    s.iteration <= MaxIterations /\ s.ci_iteration <= MaxCIIterations

(* May node n leave with an exception of its own? *)
Unreliable(n) == n \in Errors \cup Violations

(* Only content that run_tests passed is ever committed, through every debug
   and CI loop and every crash and resume, as long as run_tests itself does not
   raise (after_tests would then read the test_run_ok of an older run). *)
CommitsTested == ~Unreliable("run_tests") => head.tested

(* Only content the policy gate allowed is ever committed, as long as
   security_policy does not raise (after_policy would then read an older
   policy_action). *)
CommitsGated == ~Unreliable("security_policy") => head.gated

(* No agent tool writes into the developer's checkout, although ToolContext.root
   falls back to it without a worktree: either a worktree is registered or the
   BLOCK of the violation that prevented it withholds the write tools. It takes
   a plain exception in implementation to escape this. *)
CheckoutUntouched == "implementation" \notin Errors => ~checkout

(* The debugging and CI loops are bounded by the state that after_tests and
   after_ci read, never by the recursion limit, in fresh and in resumed runs:
   this is the exact number of supersteps. It needs the two nodes that pay for
   an iteration to return their update. *)
LoopsBoundedByState ==
  ~Unreliable("debugging") /\ ~Unreliable("ci_debugging")
    => steps <= 11 + 2 * MaxIterations + 5 * MaxCIIterations

(* No pull request is opened on a branch without a commit of the agent: the
   commit_sha that after_commit reads, which may come from the checkpoint of an
   earlier run, always stands for a commit that is still on the branch, as long
   as the worktree survives the worker and implementation does not raise between
   creating it and returning its path. *)
PullRequestHasCommit == ~Unreliable("implementation") /\ ~LostWorkspaces => pr # 0

(* What a reviewer is asked to approve in an uninterrupted run: a pull request
   that shows the newest commit, for which CI did not fail, and an approval row
   to decide. *)
ReviewIsBacked ==
  row.status = "READY_FOR_REVIEW" /\ phase = "idle"
    => pr = head.n /\ pr > 0 /\ head.ci \in {"PASSED", "SKIPPED"} /\ approval

(* The checkpoint never gives a debugging or CI iteration back: neither a crash
   nor a resume resets a budget. (The recursion limit does, by writing the run's
   input back, in a row that no run reads again; LoopsBoundedByState says when it
   is out of reach.) *)
BudgetsNeverRefunded ==
  [][/\ row'.state.iteration >= row.state.iteration
     /\ row'.state.ci_iteration >= row.state.ci_iteration]_row

(* Every task ends up settled, whatever its nodes raise, when only finitely
   many of its executions crash. *)
EventuallySettled == <>(phase = "idle" /\ row.status \in SettledStatuses)

=============================================================================
