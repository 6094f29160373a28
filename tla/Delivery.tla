------------------------------ MODULE Delivery ------------------------------
(***************************************************************************)
(* From a changed worktree to a pull request: the test command and what is *)
(* read from its output, the commit, the push, the CI run that the push    *)
(* starts on the hosting service, the wait for it, and the pull request.   *)
(*                                                                         *)
(*   graph/nodes.py, graph/routing.py, agents/git_agent.py,                *)
(*   agents/ci_agent.py, tools/runner.py, tools/testing/test.py,           *)
(*   tools/git/commit.py, providers/ci/*.py, providers/scm/*.py            *)
(*                                                                         *)
(* Module Workflow treats each of these nodes as one step with some        *)
(* outcome; here a node is the calls it makes, the hosting service runs on *)
(* its own, and a crash between two calls restarts the graph from the      *)
(* AgentState of the last node that ended. An exception in a node is       *)
(* swallowed by the supervisor: the graph goes on along its edges with the *)
(* AgentState it had. The task has its worktree (ToolGate and Workflow     *)
(* look at its absence). Commits are numbered along the task branch; a CI  *)
(* run is known by its place in the order of arrival.                      *)
(***************************************************************************)
EXTENDS Naturals, Sequences, FiniteSets, SequencesExt

CONSTANTS
  Projects,         \* test projects of the solution
  MaxIterations, MaxCIIterations,
  TriggerAttempts,  \* listings tried before trigger gives up
  PageSize,         \* runs in one listing
  Deadline,         \* timeout_seconds of wait, in polls
  Workflows,        \* workflow files that react to a push
  Conclusions,      \* conclusions a run may come to
  MaxCrashes,
  RecursionLimit,   \* supersteps of one execution of the graph
  None              \* no commit, no run

ASSUME DeliveryAssumption ==
  /\ Projects \in Nat \ {0} /\ TriggerAttempts \in Nat \ {0} /\ PageSize \in Nat \ {0}
  /\ MaxIterations \in Nat /\ MaxCIIterations \in Nat /\ Deadline \in Nat
  /\ Workflows \in Nat /\ MaxCrashes \in Nat
  /\ RecursionLimit \in Nat /\ RecursionLimit >= 5
  /\ None \notin Nat
  /\ Conclusions \subseteq {"success", "failure", "timed_out", "cancelled",
                            "startup_failure", "skipped", "neutral", "stale"}

VARIABLES
  scm, ci,       \* the providers the settings name
  kind,          \* kind of project in the worktree
  node,          \* the step of the graph that comes next
  steps,         \* supersteps of this execution, the one of node included
  printed,       \* what the test command has printed: a report per project
  iteration,     \* AgentState, local debugging rounds
  s,             \* AgentState, the fields about delivery
  dirty,         \* does the worktree differ from HEAD?
  head,          \* commits on the task branch
  result,        \* CIRunResult of the node that runs
  attempt, clock,
  remote,        \* commit the hosted branch shows
  unregistered,  \* per commit: runs its push will start, not listed yet
  server,        \* runs of the hosting service, oldest first
  rows,          \* table ci_runs
  prs,           \* pull requests
  crashes,
  green,         \* did every project pass when run_tests last returned?
  validated,     \* did the last ci_validation return?
  lost           \* did git_commit end, since the last sha it returned, without the
                 \* sha of the commit it made?

vars == <<scm, ci, kind, node, steps, printed, iteration, s, dirty, head, result, attempt,
          clock, remote, unregistered, server, rows, prs, crashes, green, validated, lost>>

config == <<scm, ci, kind>>
tests == <<printed, iteration>>
tree == <<dirty, head>>
poll == <<result, attempt, clock>>
hosted == <<remote, unregistered, server>>
past == <<green, validated, lost>>

Nodes == {"implementation", "run_tests", "test_killed", "debugging", "security_policy",
          "git_commit", "committed", "ci_push", "ci_trigger", "ci_wait", "ci_record",
          "ci_recorded", "ci_debugging", "pr_push", "pr_open", "pr_opened"}
AgentNodes == {"debugging", "ci_debugging"}
CINodes == {"ci_push", "ci_trigger", "ci_wait", "ci_record", "ci_recorded"}
Ended == {"human_review", "halt", "FAILED", "recursion_limit"}

Goto_uncounted(n) == node' = n /\ UNCHANGED steps       \* variant: no recursion limit

(* The next superstep, or GraphRecursionError. *)
Goto(n) ==
  IF steps < RecursionLimit THEN node' = n /\ steps' = steps + 1
                            ELSE node' = "recursion_limit" /\ UNCHANGED steps

-----------------------------------------------------------------------------
(* The test command and parse_dotnet_output *)

(* A project prints its totals and lists its failing tests; a build error or *)
(* a crashed test host prints neither.                                       *)
Reports == {[totals |-> TRUE, failed |-> 0, passed |-> 1, listed |-> 0, exit |-> 0],
            [totals |-> TRUE, failed |-> 1, passed |-> 1, listed |-> 1, exit |-> 1],
            [totals |-> FALSE, failed |-> 0, passed |-> 0, listed |-> 0, exit |-> 1]}

AllGreen == Len(printed) = Projects /\ \A i \in DOMAIN printed : printed[i].exit = 0

TestOutcome_ok_counts(exit_code, failed, timed_out) == failed = 0 /\ ~timed_out  \* variant: trusts the counts

TestOutcome_ok(exit_code, failed, timed_out) ==
  exit_code = 0 /\ failed = 0 /\ ~timed_out

(* Only the first totals of the output are read. *)
parse_dotnet_output(text, exit_code, timed_out) ==
  LET withTotals == SelectSeq(text, LAMBDA r : r.totals)
      failed0 == IF withTotals = <<>> THEN 0 ELSE Head(withTotals).failed
      passed == IF withTotals = <<>> THEN 0 ELSE Head(withTotals).passed
      failures == FoldSeq(LAMBDA r, n : r.listed + n, 0, text)
      failed == IF failed0 = 0 THEN failures ELSE failed0
      synthetic == exit_code # 0 /\ failed = 0 /\ passed = 0
      total == IF synthetic THEN 1 ELSE failed
  IN  [ok |-> TestOutcome_ok(exit_code, total, timed_out),
       failed |-> total, passed |-> passed]

(* Failing tests are debugged while the budget holds, unless the failures stay
   the same or the change has grown too large, which is left open here. *)
after_tests(t) ==
  IF t.tests_ok THEN {"security_policy"}
  ELSE IF iteration >= MaxIterations THEN {"halt"} ELSE {"halt", "debugging"}

-----------------------------------------------------------------------------
(* CI results *)

NoResult == [id |-> None, status |-> "none"]
CIStatuses == {"RUNNING", "PASSED", "FAILED", "SKIPPED", "TIMED_OUT"}

finished(r) == r.status \in {"PASSED", "FAILED", "SKIPPED", "TIMED_OUT"}

(* Queued and waiting runs count as in progress: both are not finished. *)
_to_result(i) ==
  [id |-> i,
   status |-> CASE server[i].state = "in_progress" -> "RUNNING"
                [] server[i].state \in {"success", "neutral"} -> "PASSED"
                [] server[i].state = "timed_out" -> "TIMED_OUT"
                [] server[i].state = "skipped" -> "SKIPPED"
                [] OTHER -> "FAILED"]

(* The newest page of runs on the branch. *)
_list_runs ==
  {i \in DOMAIN server : ~server[i].gone /\
     Cardinality({j \in DOMAIN server : j > i /\ ~server[j].gone}) < PageSize}

RunsFor_branch(sha) == _list_runs                \* variant: any run of the branch

RunsFor(sha) == {i \in _list_runs : server[i].sha = sha}

get_status(i) == IF server[i].gone THEN [id |-> i, status |-> "SKIPPED"] ELSE _to_result(i)

after_ci_late(t) ==                              \* variant: one round too many
  IF t.ci_status \in {"PASSED", "SKIPPED", "unset"} THEN "pr_push"
  ELSE IF t.ci_requires_human \/ t.ci_iteration > MaxCIIterations THEN "halt"
  ELSE "ci_debugging"

(* No status at all, after a ci_validation that raised, counts like a skipped run. *)
after_ci(t) ==
  IF t.ci_status \in {"PASSED", "SKIPPED", "unset"} THEN "pr_push"
  ELSE IF t.ci_requires_human \/ t.ci_iteration >= MaxCIIterations THEN "halt"
  ELSE "ci_debugging"

NoLocals == result' = NoResult /\ attempt' = 0 /\ clock' = 0

after_policy(t) == IF t.blocked THEN "halt" ELSE "git_commit"

after_commit(t) == IF t.commit_sha = None THEN "halt" ELSE "ci_push"

(* The nodes an edge of the graph may lead to from n, with AgentState t. *)
Edges(n, t) ==
  CASE n \in {"run_tests", "test_killed"} -> after_tests(t)
    [] n \in AgentNodes -> {"run_tests"}
    [] n = "security_policy" -> {after_policy(t)}
    [] n \in {"git_commit", "committed"} -> {after_commit(t)}
    [] n \in CINodes -> {after_ci(t)}
    [] n \in {"pr_push", "pr_open", "pr_opened"} -> {"human_review"}

-----------------------------------------------------------------------------
Init ==
  /\ scm \in {"local", "github"} /\ ci \in {"none", "github_actions"}
  /\ kind \in {"dotnet", "other"}
  /\ node = "implementation" /\ steps = 5 /\ printed = <<>> /\ iteration = 0
  /\ s = [tests_ok |-> FALSE, modified |-> FALSE, commit_sha |-> None, blocked |-> FALSE,
          ci_status |-> "unset", ci_run_id |-> None, ci_iteration |-> 0,
          ci_requires_human |-> FALSE]
  /\ dirty = FALSE /\ head = 0
  /\ result = NoResult /\ attempt = 0 /\ clock = 0
  /\ remote = 0 /\ unregistered = <<>> /\ server = <<>>
  /\ rows = {} /\ prs = <<>> /\ crashes = 0
  /\ green = FALSE /\ validated = FALSE /\ lost = FALSE

(* plan to test_generation, five supersteps: risk_assessment decides anew
   whether the policy blocks and may halt, a violation may block afterwards, and
   agents may change files. A node among them that raises leaves the older list
   of modified files. *)
Implement ==
  /\ node = "implementation"
  /\ \/ /\ dirty' \in {dirty, TRUE}
        /\ \E modified \in {s.modified, dirty'}, blocked \in BOOLEAN :
             s' = [s EXCEPT !.modified = modified, !.blocked = blocked]
        /\ Goto("run_tests")
     \/ /\ s' = [s EXCEPT !.blocked = TRUE]
        /\ Goto("halt") /\ UNCHANGED dirty
  /\ UNCHANGED <<config, tests, head, poll, hosted, rows, prs, crashes, past>>

-----------------------------------------------------------------------------
(* run_tests *)

NoTestProject ==
  /\ node = "run_tests" /\ kind # "dotnet"
  /\ s' = [s EXCEPT !.tests_ok = TRUE]
  /\ \E n \in after_tests(s') : Goto(n)
  /\ UNCHANGED <<config, tests, tree, poll, hosted, rows, prs, crashes, past>>

PrintReport(r) ==
  /\ node = "run_tests" /\ kind = "dotnet" /\ Len(printed) < Projects
  /\ printed' = Append(printed, r)
  /\ UNCHANGED <<config, node, steps, iteration, s, tree, poll, hosted, rows, prs, crashes, past>>

(* What run_tests makes of the output, and the diff it takes. *)
TestsDone(outcome) ==
  /\ s' = [s EXCEPT !.tests_ok = outcome.ok /\ outcome.failed = 0, !.modified = dirty]
  /\ \E n \in after_tests(s') : Goto(n)
  /\ green' = AllGreen /\ printed' = <<>>
  /\ UNCHANGED <<config, iteration, tree, poll, hosted, rows, prs, crashes, validated, lost>>

(* communicate() returns: the command exits 1 when any project did not pass. *)
TestsEnd ==
  /\ node = "run_tests" /\ kind = "dotnet" /\ Len(printed) = Projects
  /\ LET exit_code == IF AllGreen THEN 0 ELSE 1
     IN  TestsDone(parse_dotnet_output(printed, exit_code, FALSE))

(* wait_for raises TimeoutError: the process is killed, *)
TestsTimeOut ==
  /\ node = "run_tests" /\ kind = "dotnet"
  /\ node' = "test_killed"
  /\ UNCHANGED <<config, steps, tests, s, tree, poll, hosted, rows, prs, crashes, past>>

(* and what it printed is collected; it may have exited just before.         *)
CollectKilled(exit_code) ==
  /\ node = "test_killed"
  /\ exit_code = 0 => AllGreen
  /\ TestsDone(parse_dotnet_output(printed, exit_code, TRUE))

(* The files an agent may leave: none are written while the policy blocks. *)
AgentWrites == dirty' \in (IF s.blocked THEN {dirty} ELSE {dirty, TRUE})

Debug ==
  /\ node = "debugging" /\ Goto("run_tests")
  /\ iteration' = iteration + 1
  /\ AgentWrites /\ s' = [s EXCEPT !.modified = dirty']
  /\ UNCHANGED <<config, printed, head, poll, hosted, rows, prs, crashes, past>>

-----------------------------------------------------------------------------
(* security_policy and git_commit *)

SecurityPolicy ==
  /\ node = "security_policy"
  /\ \E blocked \in BOOLEAN : s' = [s EXCEPT !.blocked = blocked, !.modified = dirty]
  /\ Goto(after_policy(s'))
  /\ UNCHANGED <<config, tests, tree, poll, hosted, rows, prs, crashes, past>>

NoFileChanges ==
  /\ node = "git_commit" /\ ~s.modified
  /\ s' = [s EXCEPT !.blocked = TRUE]
  /\ Goto(after_commit(s))
  /\ UNCHANGED <<config, tests, tree, poll, hosted, rows, prs, crashes, past>>

(* git commit, which may fail and does when nothing is staged. *)
commit_all ==
  /\ node = "git_commit" /\ s.modified
  /\ \/ /\ dirty /\ head' = head + 1 /\ dirty' = FALSE
        /\ node' = "committed" /\ UNCHANGED steps
     \/ /\ Goto(after_commit(s)) /\ UNCHANGED <<dirty, head>>
  /\ UNCHANGED <<config, tests, s, poll, hosted, rows, prs, crashes, past>>

(* git rev-parse and the checkpoint; a failed rev-parse prints no sha. *)
Committed ==
  /\ node = "committed"
  /\ \E sha \in {head, None} : s' = [s EXCEPT !.commit_sha = sha] /\ lost' = (sha = None)
  /\ Goto(after_commit(s'))
  /\ UNCHANGED <<config, tests, tree, poll, hosted, rows, prs, crashes, green, validated>>

-----------------------------------------------------------------------------
(* ci_validation *)

(* git push HEAD: a branch that moves starts the workflows. The local       *)
(* provider has no remote.                                                  *)
push_branch ==
  IF scm = "local" \/ remote = head THEN UNCHANGED <<remote, unregistered>>
  ELSE /\ remote' = head
       /\ unregistered' = [c \in 1 .. head |->
                             IF c = head THEN Workflows
                             ELSE IF c \in DOMAIN unregistered THEN unregistered[c] ELSE 0]

CIPush ==
  /\ node = "ci_push" /\ node' = "ci_trigger"
  /\ IF ci = "none" THEN UNCHANGED <<remote, unregistered>> ELSE push_branch
  /\ NoLocals
  /\ UNCHANGED <<config, steps, tests, s, tree, server, rows, prs, crashes, past>>

NoopTrigger ==
  /\ node = "ci_trigger" /\ ci = "none"
  /\ result' = [id |-> None, status |-> "SKIPPED"] /\ node' = "ci_record"
  /\ UNCHANGED <<config, steps, tests, s, tree, attempt, clock, hosted, rows, prs, crashes, past>>

(* The first match of a list that starts with the newest run. *)
TriggerFinds ==
  /\ node = "ci_trigger" /\ ci = "github_actions"
  /\ \E newest \in RunsFor(s.commit_sha) :
       /\ \A other \in RunsFor(s.commit_sha) : other <= newest
       /\ result' = _to_result(newest)
  /\ node' = IF finished(result') THEN "ci_record" ELSE "ci_wait"
  /\ UNCHANGED <<config, steps, tests, s, tree, attempt, clock, hosted, rows, prs, crashes, past>>

TriggerMisses ==
  /\ node = "ci_trigger" /\ ci = "github_actions" /\ RunsFor(s.commit_sha) = {}
  /\ attempt' = attempt + 1
  /\ IF attempt' < TriggerAttempts THEN UNCHANGED <<node, result>>
     ELSE node' = "ci_record" /\ result' = [id |-> None, status |-> "SKIPPED"]
  /\ UNCHANGED <<config, steps, tests, s, tree, clock, hosted, rows, prs, crashes, past>>

wait_deadline_first ==                           \* variant: the clock is read before the run
  /\ node = "ci_wait"
  /\ IF clock >= Deadline
     THEN result' = [result EXCEPT !.status = "TIMED_OUT"] /\ node' = "ci_record" /\ UNCHANGED clock
     ELSE IF finished(get_status(result.id))
     THEN result' = get_status(result.id) /\ node' = "ci_record" /\ UNCHANGED clock
     ELSE clock' = clock + 1 /\ UNCHANGED <<node, result>>
  /\ UNCHANGED <<config, steps, tests, s, tree, attempt, hosted, rows, prs, crashes, past>>

(* One round of wait: get_status, the deadline, a sleep. *)
wait ==
  /\ node = "ci_wait"
  /\ IF finished(get_status(result.id))
     THEN result' = get_status(result.id) /\ node' = "ci_record" /\ UNCHANGED clock
     ELSE IF clock >= Deadline
     THEN result' = [result EXCEPT !.status = "TIMED_OUT"] /\ node' = "ci_record" /\ UNCHANGED clock
     ELSE clock' = clock + 1 /\ UNCHANGED <<node, result>>
  /\ UNCHANGED <<config, steps, tests, s, tree, attempt, hosted, rows, prs, crashes, past>>

Row(r, n) == [external_id |-> r.id, status |-> r.status, iteration |-> n]

record_ci_run ==
  /\ node = "ci_record" /\ node' = "ci_recorded"
  /\ rows' = rows \cup {Row(result, s.ci_iteration)}
  /\ UNCHANGED <<config, steps, tests, s, tree, poll, hosted, prs, crashes, past>>

LeaveCI ==
  /\ node = "ci_recorded"
  /\ s' = [s EXCEPT !.ci_status = result.status, !.ci_run_id = result.id]
  /\ Goto(after_ci(s'))
  /\ validated' = TRUE
  /\ NoLocals
  /\ UNCHANGED <<config, tests, tree, hosted, rows, prs, crashes, green, lost>>

CIDebug ==
  /\ node = "ci_debugging" /\ Goto("run_tests")
  /\ AgentWrites
  /\ \E h \in BOOLEAN :
       s' = [s EXCEPT !.ci_iteration = @ + 1, !.ci_requires_human = h, !.modified = dirty']
  /\ UNCHANGED <<config, tests, head, poll, hosted, rows, prs, crashes, past>>

-----------------------------------------------------------------------------
(* create_pr *)

PRPush ==
  /\ node = "pr_push" /\ node' = "pr_open"
  /\ push_branch
  /\ UNCHANGED <<config, steps, tests, s, tree, poll, server, rows, prs, crashes, past>>

(* The service refuses a second pull request for a branch with 422: the node
   raises, and the review starts all the same. *)
create_pull_request ==
  /\ node = "pr_open"
  /\ IF scm = "github" /\ prs # <<>>
     THEN Goto("human_review") /\ UNCHANGED prs
     ELSE /\ node' = "pr_opened" /\ UNCHANGED steps
          /\ prs' = Append(prs, [shows |-> head, ci |-> s.ci_status, run |-> s.ci_run_id,
                                 iteration |-> s.ci_iteration,
                                 validated |-> validated, lost |-> lost])
  /\ UNCHANGED <<config, tests, s, tree, poll, hosted, rows, crashes, past>>

LeavePR ==
  /\ node = "pr_opened" /\ Goto("human_review")
  /\ UNCHANGED <<config, tests, s, tree, poll, hosted, rows, prs, crashes, past>>

-----------------------------------------------------------------------------
(* Faults *)

(* A node raises: a failed push, a 5xx or 4xx answer, a refused command, a failed
   insert or event. Its update is lost, what it did is not; a violation in an
   agent's session leaves BLOCK behind. *)
NodeFails ==
  /\ node \in Nodes \ {"implementation"}
  /\ \E n \in Edges(node, s) : Goto(n)
  /\ \E blocked \in (IF node \in AgentNodes THEN {s.blocked, TRUE} ELSE {s.blocked}) :
       s' = [s EXCEPT !.blocked = blocked]
  /\ IF node \in AgentNodes THEN AgentWrites ELSE UNCHANGED dirty
  /\ NoLocals /\ printed' = <<>>
  /\ validated' = (validated /\ node \notin CINodes)
  /\ lost' = (lost \/ node = "committed")
  /\ UNCHANGED <<config, iteration, head, hosted, rows, prs, crashes, green>>

(* The supervisor's own calls, outside its try and in its except branches, raise
   out of the graph: the task is FAILED. *)
SupervisorFails ==
  /\ node \in Nodes /\ node' = "FAILED"
  /\ NoLocals /\ printed' = <<>>
  /\ UNCHANGED <<config, steps, iteration, s, tree, hosted, rows, prs, crashes, past>>

(* The worker dies; another one runs the graph from its start. *)
Crash ==
  /\ node \in Nodes /\ crashes < MaxCrashes
  /\ crashes' = crashes + 1
  /\ node' = "implementation" /\ steps' = 5
  /\ NoLocals /\ printed' = <<>>
  /\ lost' = (lost \/ node = "committed")
  /\ UNCHANGED <<config, iteration, s, tree, hosted, rows, prs, green, validated>>

-----------------------------------------------------------------------------
(* The hosting service *)

RegisterRun(c) ==
  /\ c \in DOMAIN unregistered /\ unregistered[c] > 0
  /\ unregistered' = [unregistered EXCEPT ![c] = @ - 1]
  /\ server' = Append(server, [sha |-> c, state |-> "in_progress", gone |-> FALSE])
  /\ UNCHANGED <<config, node, steps, tests, s, tree, poll, remote, rows, prs, crashes, past>>

RunEnds(i, c) ==
  /\ server[i].state = "in_progress"
  /\ server' = [server EXCEPT ![i].state = c]
  /\ UNCHANGED <<config, node, steps, tests, s, tree, poll, remote, unregistered, rows, prs,
                 crashes, past>>

(* Only a completed run can be deleted. *)
RunDeleted(i) ==
  /\ ~server[i].gone /\ server[i].state # "in_progress"
  /\ server' = [server EXCEPT ![i].gone = TRUE]
  /\ UNCHANGED <<config, node, steps, tests, s, tree, poll, remote, unregistered, rows, prs,
                 crashes, past>>

-----------------------------------------------------------------------------
WorkerStep ==
  \/ Implement \/ NoTestProject \/ TestsEnd \/ TestsTimeOut \/ Debug
  \/ \E r \in Reports : PrintReport(r)
  \/ \E e \in {0, 1} : CollectKilled(e)
  \/ SecurityPolicy \/ NoFileChanges \/ commit_all \/ Committed
  \/ CIPush \/ NoopTrigger \/ TriggerFinds \/ TriggerMisses \/ wait
  \/ record_ci_run \/ LeaveCI \/ CIDebug
  \/ PRPush \/ create_pull_request \/ LeavePR

(* Nothing else looks at the service, so its steps wait for the next look. *)
Service ==
  /\ node \in {"ci_trigger", "ci_wait"}
  /\ \/ \E c \in DOMAIN unregistered : RegisterRun(c)
     \/ \E i \in DOMAIN server :
          RunDeleted(i) \/ \E c \in Conclusions : RunEnds(i, c)

Next == WorkerStep \/ NodeFails \/ SupervisorFails \/ Crash \/ Service

(* The worker goes on; nothing is assumed of the hosting service. *)
Spec == Init /\ [][Next]_vars /\ WF_vars(WorkerStep)

-----------------------------------------------------------------------------
(* Properties *)

(* The variables have their types, within the budgets and the bounds. *)
TypeOK ==
  /\ scm \in {"local", "github"} /\ ci \in {"none", "github_actions"}
  /\ node \in Nodes \cup Ended /\ steps \in 5 .. RecursionLimit
  /\ printed \in Seq(Reports) /\ Len(printed) <= Projects
  /\ iteration \in 0 .. MaxIterations
  /\ s \in [tests_ok : BOOLEAN, modified : BOOLEAN,
            commit_sha : (1 .. head) \cup {None}, blocked : BOOLEAN,
            ci_status : {"unset", "PASSED", "FAILED", "SKIPPED", "TIMED_OUT"},
            ci_run_id : DOMAIN server \cup {None},
            ci_iteration : 0 .. MaxCIIterations, ci_requires_human : BOOLEAN]
  /\ dirty \in BOOLEAN /\ head \in Nat
  /\ result \in [id : DOMAIN server \cup {None}, status : CIStatuses \cup {"none"}]
  /\ attempt \in 0 .. TriggerAttempts /\ clock \in 0 .. Deadline
  /\ remote \in 0 .. head /\ unregistered \in Seq(0 .. Workflows)
  /\ \A i \in DOMAIN server : server[i].sha \in 1 .. head
  /\ crashes \in 0 .. MaxCrashes
  /\ green \in BOOLEAN /\ validated \in BOOLEAN /\ lost \in BOOLEAN

(* Past run_tests the newest test run of a solution that the platform has    *)
(* taken the result of ran every project, and every one passed: reading only *)
(* the first totals of the output, and a killed command's, hides no red      *)
(* project, and neither a raising node nor a crash brings an older verdict   *)
(* back. (When run_tests itself raises there is no new run, and the code     *)
(* goes on with the last one, of a tree that agents may have changed since.) *)
GreenMeansGreen ==
  /\ kind = "dotnet"
  /\ node \in {"security_policy", "git_commit", "committed", "pr_push", "pr_open", "pr_opened",
               "human_review"} \cup CINodes
  => green

(* The verdict in a pull request is a row of ci_runs, or there is none      *)
(* because ci_validation raised; and one that says CI passed is of a run    *)
(* that concluded without failure, and shows the very commit that run was   *)
(* started for, whatever other runs the branch has and however late they    *)
(* come. The code does not keep the last part when the last ci_validation   *)
(* raised, so that the verdict is an older one, or when the sha of the last *)
(* commit was lost.                                                         *)
PullRequestVerified ==
  \A k \in DOMAIN prs :
     /\ \/ prs[k].ci = "unset" /\ ~prs[k].validated
        \/ Row([id |-> prs[k].run, status |-> prs[k].ci], prs[k].iteration) \in rows
     /\ prs[k].ci = "PASSED" =>
          /\ prs[k].run \in DOMAIN server
          /\ server[prs[k].run].state \in {"success", "neutral"}
          /\ prs[k].validated /\ ~prs[k].lost => server[prs[k].run].sha = prs[k].shows

(* wait reports TIMED_OUT only for a run that has not come to an end: one   *)
(* that finished before the last poll keeps its verdict.                    *)
LateVerdictCounts ==
  [][node = "ci_wait" /\ node' = "ci_record" /\ result'.status = "TIMED_OUT" =>
       server[result.id].state \in {"in_progress", "timed_out"}]_vars

(* Every task leaves this part of the graph, though CI runs may hang, never *)
(* register, or vanish, and nodes may raise without end: a raising node     *)
(* pays for no iteration, and then the recursion limit ends the loops.      *)
DeliveryEnds == <>(node \in Ended)

=============================================================================
