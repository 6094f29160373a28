-------------------------- MODULE DeliveryProofs ----------------------------
(***************************************************************************)
(* Proofs about Delivery, for any number of projects, workflows, runs,     *)
(* polls, raising nodes and crashes, any recursion limit and any set of    *)
(* conclusions.                                                            *)
(***************************************************************************)
EXTENDS Delivery, SequenceTheorems, TLAPS

-----------------------------------------------------------------------------
(* Where the graph goes *)

Fine == {"PASSED", "SKIPPED", "unset"}
PRNodes == {"pr_push", "pr_open", "pr_opened"}
PastTests == {"security_policy", "git_commit", "committed", "human_review"} \cup CINodes \cup PRNodes
Validating == CINodes \cup PRNodes

(* A superstep is the next node or the recursion limit. *)
LEMMA GotoMoves ==
  ASSUME NEW n, Goto(n)
  PROVE  /\ node' = n \/ node' = "recursion_limit"
         /\ steps \in 5 .. RecursionLimit => steps' \in 5 .. RecursionLimit
  BY DeliveryAssumption DEF Goto

(* The tests lead to the policy when they passed, to another round within the
   budget, and to a human. *)
LEMMA AfterTests ==
  ASSUME NEW t, NEW n \in after_tests(t)
  PROVE  \/ n = "security_policy" /\ t.tests_ok
         \/ n = "debugging" /\ ~(iteration >= MaxIterations)
         \/ n = "halt"
  BY DEF after_tests

(* CI leads to the pull request, to a human or to another round. *)
LEMMA AfterCI ==
  ASSUME NEW t
  PROVE  \/ after_ci(t) = "pr_push" /\ t.ci_status \in Fine
         \/ after_ci(t) = "ci_debugging" /\ t.ci_status \notin Fine /\ ~(t.ci_iteration >= MaxCIIterations)
         \/ after_ci(t) = "halt"
  BY DEF after_ci, Fine

(* A commit leads to CI only if there is one. *)
LEMMA AfterCommit ==
  ASSUME NEW t
  PROVE  \/ after_commit(t) = "ci_push" /\ t.commit_sha # None
         \/ after_commit(t) = "halt"
  BY DEF after_commit

(* What lies behind the edges of a node that raises. *)
LEMMA EdgesOf ==
  ASSUME node \in Nodes \ {"implementation"}, NEW n \in Edges(node, s)
  PROVE  \/ node \in {"run_tests", "test_killed"} /\ n \in after_tests(s)
         \/ node \in AgentNodes /\ n = "run_tests"
         \/ node = "security_policy" /\ n \in {"git_commit", "halt"}
         \/ node \in {"git_commit", "committed"} /\ n = after_commit(s)
         \/ node \in CINodes /\ n = after_ci(s)
         \/ node \in PRNodes /\ n = "human_review"
  <1>1. CASE node \in {"run_tests", "test_killed"}
    BY <1>1 DEF Edges
  <1>2. CASE node \in AgentNodes
    BY <1>2 DEF Edges, AgentNodes
  <1>3. CASE node = "security_policy"
    BY <1>3 DEF Edges, AgentNodes, after_policy
  <1>4. CASE node \in {"git_commit", "committed"}
    BY <1>4 DEF Edges, AgentNodes
  <1>5. CASE node \in CINodes
    BY <1>5 DEF Edges, AgentNodes, CINodes
  <1>6. CASE node \in PRNodes
    BY <1>6 DEF Edges, AgentNodes, CINodes, PRNodes
  <1> QED BY <1>1, <1>2, <1>3, <1>4, <1>5, <1>6 DEF Nodes, AgentNodes, CINodes, PRNodes

-----------------------------------------------------------------------------
(* What the steps do to AgentState *)

SType == [tests_ok : BOOLEAN, modified : BOOLEAN,
          commit_sha : Nat \cup {None}, blocked : BOOLEAN,
          ci_status : {"unset", "PASSED", "FAILED", "SKIPPED", "TIMED_OUT"},
          ci_run_id : Nat \cup {None}, ci_iteration : Nat, ci_requires_human : BOOLEAN]

(* Only the test run sets its verdict, only git_commit the commit, only
   ci_validation its result, and only ci_debugging spends a round. *)
Frame ==
  /\ s' \in SType
  /\ s'.tests_ok = s.tests_ok \/ NoTestProject \/ TestsEnd \/ \E e \in {0, 1} : CollectKilled(e)
  /\ s'.commit_sha = s.commit_sha \/ Committed
  /\ (s'.ci_status = s.ci_status /\ s'.ci_run_id = s.ci_run_id) \/ LeaveCI
  /\ s'.ci_iteration = s.ci_iteration \/ CIDebug

(* Updates of the list of files and of the block. *)
LEMMA FrameBlock ==
  ASSUME s \in SType, NEW m \in BOOLEAN, NEW b \in BOOLEAN,
         s' = [s EXCEPT !.modified = m, !.blocked = b]
  PROVE  /\ s' \in SType /\ s'.tests_ok = s.tests_ok /\ s'.commit_sha = s.commit_sha
         /\ s'.ci_status = s.ci_status /\ s'.ci_run_id = s.ci_run_id /\ s'.ci_iteration = s.ci_iteration
  BY DEF SType

(* Updates by the test run. *)
LEMMA FrameTests ==
  ASSUME s \in SType, NEW m \in BOOLEAN, NEW ok \in BOOLEAN,
         s' = [s EXCEPT !.tests_ok = ok, !.modified = m]
  PROVE  /\ s' \in SType /\ s'.tests_ok = ok /\ s'.commit_sha = s.commit_sha
         /\ s'.ci_status = s.ci_status /\ s'.ci_run_id = s.ci_run_id /\ s'.ci_iteration = s.ci_iteration
  BY DEF SType

(* What the end of a test run leaves. *)
LEMMA TestsLeave ==
  ASSUME s \in SType, dirty \in BOOLEAN, NEW outcome, TestsDone(outcome)
  PROVE  /\ s' \in SType /\ s'.commit_sha = s.commit_sha
         /\ s'.ci_status = s.ci_status /\ s'.ci_run_id = s.ci_run_id /\ s'.ci_iteration = s.ci_iteration
         /\ s'.tests_ok => outcome.ok
         /\ green' = AllGreen
  <1> DEFINE ok == outcome.ok /\ outcome.failed = 0
  <1>1. s' = [s EXCEPT !.tests_ok = ok, !.modified = dirty] /\ green' = AllGreen
    BY DEF TestsDone
  <1>2. ok \in BOOLEAN /\ (ok => outcome.ok)
    OBVIOUS
  <1> HIDE DEF ok
  <1>3. /\ s' \in SType /\ s'.commit_sha = s.commit_sha /\ s'.tests_ok = ok
        /\ s'.ci_status = s.ci_status /\ s'.ci_run_id = s.ci_run_id /\ s'.ci_iteration = s.ci_iteration
    BY <1>1, <1>2, FrameTests
  <1> QED BY <1>1, <1>2, <1>3

(* Every step is one of these. *)
LEMMA NextFrame ==
  ASSUME s \in SType, dirty \in BOOLEAN, head \in Nat,
         node = "ci_recorded" => /\ result.status \in {"PASSED", "FAILED", "SKIPPED", "TIMED_OUT"}
                                 /\ result.id \in Nat \cup {None},
         [Next]_vars
  PROVE  Frame
  <1>1. ASSUME s' = s PROVE Frame
    BY <1>1 DEF Frame
  <1>2. ASSUME NEW m \in BOOLEAN, NEW b \in BOOLEAN, s' = [s EXCEPT !.modified = m, !.blocked = b]
        PROVE  Frame
    BY <1>2, FrameBlock DEF Frame
  <1>s. s.modified \in BOOLEAN /\ s.blocked \in BOOLEAN
    BY DEF SType
  <1>3. CASE Implement
    <2>1. CASE \E modified \in {s.modified, dirty'}, blocked \in BOOLEAN :
                  s' = [s EXCEPT !.modified = modified, !.blocked = blocked]
      <3>1. dirty' \in BOOLEAN
        BY <1>3 DEF Implement
      <3> QED BY <1>2, <1>s, <2>1, <3>1
    <2>2. CASE s' = [s EXCEPT !.blocked = TRUE]
      <3>1. s' = [s EXCEPT !.modified = s.modified, !.blocked = TRUE]
        BY <2>2 DEF SType
      <3> QED BY <1>2, <1>s, <3>1
    <2> QED BY <1>3, <2>1, <2>2 DEF Implement
  <1>4. CASE NoTestProject
    <2>1. s' = [s EXCEPT !.tests_ok = TRUE]
      BY <1>4 DEF NoTestProject
    <2>2. s' = [s EXCEPT !.tests_ok = TRUE, !.modified = s.modified]
      BY <2>1 DEF SType
    <2> QED BY <1>4, <1>s, <2>2, FrameTests DEF Frame
  <1>5. CASE TestsEnd
    <2>1. PICK outcome : TestsDone(outcome)
      BY <1>5, Zenon DEF TestsEnd
    <2> QED BY <1>5, <2>1, TestsLeave DEF Frame
  <1>6. CASE \E e \in {0, 1} : CollectKilled(e)
    <2>1. PICK outcome : TestsDone(outcome)
      BY <1>6, Zenon DEF CollectKilled
    <2> QED BY <1>6, <2>1, TestsLeave DEF Frame
  <1>7. CASE Debug
    <2>1. s' = [s EXCEPT !.modified = dirty'] /\ dirty' \in BOOLEAN
      BY <1>7 DEF Debug, AgentWrites
    <2>2. s' = [s EXCEPT !.modified = dirty', !.blocked = s.blocked]
      BY <2>1 DEF SType
    <2> QED BY <1>2, <1>s, <2>1, <2>2
  <1>8. CASE SecurityPolicy
    <2>1. PICK b \in BOOLEAN : s' = [s EXCEPT !.blocked = b, !.modified = dirty]
      BY <1>8 DEF SecurityPolicy
    <2>2. s' = [s EXCEPT !.modified = dirty, !.blocked = b]
      BY <2>1 DEF SType
    <2> QED BY <1>2, <2>2
  <1>9. CASE NoFileChanges
    <2>1. s' = [s EXCEPT !.blocked = TRUE]
      BY <1>9 DEF NoFileChanges
    <2>2. s' = [s EXCEPT !.modified = s.modified, !.blocked = TRUE]
      BY <2>1 DEF SType
    <2> QED BY <1>2, <1>s, <2>2
  <1>10. CASE Committed
    <2>1. PICK sha \in {head, None} : s' = [s EXCEPT !.commit_sha = sha]
      BY <1>10 DEF Committed
    <2>2. /\ s' \in SType /\ s'.tests_ok = s.tests_ok
          /\ s'.ci_status = s.ci_status /\ s'.ci_run_id = s.ci_run_id /\ s'.ci_iteration = s.ci_iteration
      BY <2>1 DEF SType
    <2> QED BY <1>10, <2>2 DEF Frame
  <1>11. CASE LeaveCI
    <2>1. node = "ci_recorded" /\ s' = [s EXCEPT !.ci_status = result.status, !.ci_run_id = result.id]
      BY <1>11 DEF LeaveCI
    <2>2. /\ s' \in SType /\ s'.tests_ok = s.tests_ok
          /\ s'.commit_sha = s.commit_sha /\ s'.ci_iteration = s.ci_iteration
      BY <2>1 DEF SType
    <2> QED BY <1>11, <2>2 DEF Frame
  <1>12. CASE CIDebug
    <2> DEFINE n == s.ci_iteration + 1
               m == dirty'
    <2>1. PICK h \in BOOLEAN : s' = [s EXCEPT !.ci_iteration = n, !.ci_requires_human = h, !.modified = m]
      BY <1>12 DEF CIDebug
    <2>2. n \in Nat /\ m \in BOOLEAN
      <3>1. n \in Nat
        BY DEF SType
      <3>2. m \in BOOLEAN
        BY <1>12 DEF CIDebug, AgentWrites
      <3> QED BY <3>1, <3>2
    <2> HIDE DEF n, m
    <2>3. /\ s' \in SType /\ s'.tests_ok = s.tests_ok /\ s'.commit_sha = s.commit_sha
          /\ s'.ci_status = s.ci_status /\ s'.ci_run_id = s.ci_run_id
      BY <2>1, <2>2 DEF SType
    <2> QED BY <1>12, <2>3 DEF Frame
  <1>13. CASE NodeFails
    <2>0. PICK b \in (IF node \in AgentNodes THEN {s.blocked, TRUE} ELSE {s.blocked}) :
                s' = [s EXCEPT !.blocked = b]
      BY <1>13, Zenon DEF NodeFails
    <2>1. b \in {s.blocked, TRUE} /\ s' = [s EXCEPT !.blocked = b]
      BY <2>0
    <2>2. s' = [s EXCEPT !.modified = s.modified, !.blocked = b] /\ b \in BOOLEAN
      BY <1>s, <2>1 DEF SType
    <2> QED BY <1>2, <1>s, <2>2
  <1>14. CASE TestsTimeOut \/ (\E r \in Reports : PrintReport(r)) \/ commit_all
    BY <1>1, <1>14 DEF TestsTimeOut, PrintReport, commit_all
  <1>15. CASE CIPush \/ NoopTrigger \/ TriggerFinds \/ TriggerMisses \/ wait \/ record_ci_run
    BY <1>1, <1>15 DEF CIPush, NoopTrigger, TriggerFinds, TriggerMisses, wait, record_ci_run
  <1>16. CASE PRPush \/ create_pull_request \/ LeavePR \/ SupervisorFails \/ Crash
    BY <1>1, <1>16 DEF PRPush, create_pull_request, LeavePR, SupervisorFails, Crash
  <1>17. CASE Service
    BY <1>1, <1>17 DEF Service, RegisterRun, RunEnds, RunDeleted
  <1>18. CASE UNCHANGED vars
    BY <1>1, <1>18 DEF vars
  <1> QED BY <1>3, <1>4, <1>5, <1>6, <1>7, <1>8, <1>9, <1>10, <1>11, <1>12, <1>13, <1>14, <1>15,
             <1>16, <1>17, <1>18 DEF Next, WorkerStep

-----------------------------------------------------------------------------
(* Where the steps lead *)

(* The ways into each node, with what is known there of AgentState. *)
Moves ==
  \/ node' = node /\ UNCHANGED <<s, iteration, validated>>
  \/ node' \in {"run_tests", "test_killed", "implementation", "halt", "FAILED", "recursion_limit"}
  \/ node' = "debugging" /\ ~(iteration >= MaxIterations) /\ iteration' = iteration
  \/ node' = "security_policy" /\ s'.tests_ok
  \/ node' = "git_commit" /\ node = "security_policy"
  \/ node' = "committed" /\ node = "git_commit" /\ head' = head + 1
  \/ node' = "ci_push" /\ node \in {"git_commit", "committed"} /\ s'.commit_sha # None
  \/ node' \in CINodes \ {"ci_push"} /\ node \in CINodes /\ s' = s
  \/ node' = "ci_debugging" /\ node \in CINodes /\ s'.ci_status \notin Fine
       /\ ~(s'.ci_iteration >= MaxCIIterations)
  \/ node' = "pr_push" /\ node \in CINodes /\ s'.ci_status \in Fine /\ (LeaveCI \/ ~validated')
  \/ node' \in {"pr_open", "pr_opened"} /\ node \in PRNodes /\ s' = s /\ validated' = validated
  \/ node' = "human_review" /\ node \in PRNodes

(* Every step moves this way. *)
LEMMA NextMoves ==
  ASSUME s \in SType, Frame, [Next]_vars
  PROVE  Moves
  <1>1. CASE Implement \/ Debug \/ CIDebug
    <2>1. node' \in {"run_tests", "halt", "recursion_limit"}
      BY <1>1, GotoMoves DEF Implement, Debug, CIDebug
    <2> QED BY <2>1 DEF Moves
  <1>2. CASE TestsTimeOut \/ SupervisorFails \/ Crash
    BY <1>2 DEF TestsTimeOut, SupervisorFails, Crash, Moves
  <1>3. ASSUME NEW n \in after_tests(s'), Goto(n), iteration' = iteration
        PROVE  Moves
    <2>1. \/ n = "security_policy" /\ s'.tests_ok
          \/ n = "debugging" /\ ~(iteration >= MaxIterations)
          \/ n = "halt"
      BY AfterTests
    <2>2. node' = n \/ node' = "recursion_limit"
      BY <1>3, GotoMoves
    <2> QED BY <1>3, <2>1, <2>2 DEF Moves
  <1>4. CASE NoTestProject
    BY <1>3, <1>4 DEF NoTestProject, tests
  <1>5. ASSUME NEW outcome, TestsDone(outcome) PROVE Moves
    BY <1>3, <1>5 DEF TestsDone
  <1>6. CASE TestsEnd
    <2>1. PICK outcome : TestsDone(outcome)
      BY <1>6, Zenon DEF TestsEnd
    <2> QED BY <1>5, <2>1
  <1>7. CASE \E e \in {0, 1} : CollectKilled(e)
    <2>1. PICK outcome : TestsDone(outcome)
      BY <1>7, Zenon DEF CollectKilled
    <2> QED BY <1>5, <2>1
  <1>8. CASE SecurityPolicy
    <2>1. node = "security_policy" /\ Goto(after_policy(s'))
      BY <1>8 DEF SecurityPolicy
    <2>2. node' = after_policy(s') \/ node' = "recursion_limit"
      BY <2>1, GotoMoves
    <2>3. after_policy(s') \in {"halt", "git_commit"}
      BY DEF after_policy
    <2> QED BY <2>1, <2>2, <2>3 DEF Moves
  <1>9. ASSUME NEW t, Goto(after_commit(t)), t.commit_sha = s'.commit_sha,
               node \in {"git_commit", "committed"}
        PROVE  Moves
    <2>1. node' = after_commit(t) \/ node' = "recursion_limit"
      BY <1>9, GotoMoves
    <2> QED BY <1>9, <2>1, AfterCommit DEF Moves
  <1>10. CASE NoFileChanges \/ Committed
    <2>1. CASE NoFileChanges
      <3>1. s' = [s EXCEPT !.blocked = TRUE] /\ node = "git_commit" /\ Goto(after_commit(s))
        BY <2>1 DEF NoFileChanges
      <3>2. s'.commit_sha = s.commit_sha
        BY <3>1 DEF SType
      <3> QED BY <1>9, <3>1, <3>2
    <2>2. CASE Committed
      BY <1>9, <2>2 DEF Committed
    <2> QED BY <1>10, <2>1, <2>2
  <1>11. CASE commit_all
    <2>1. CASE Goto(after_commit(s))
      BY <1>9, <1>11, <2>1 DEF commit_all
    <2>2. CASE head' = head + 1 /\ node' = "committed"
      BY <1>11, <2>2 DEF commit_all, Moves
    <2> QED BY <1>11, <2>1, <2>2 DEF commit_all
  <1>12. CASE CIPush \/ NoopTrigger \/ record_ci_run
    BY <1>12 DEF CIPush, NoopTrigger, record_ci_run, Moves, CINodes
  <1>13. CASE TriggerFinds \/ TriggerMisses \/ wait
    <2>1. node \in CINodes /\ s' = s /\ node' \in CINodes \ {"ci_push"}
      BY <1>13 DEF TriggerFinds, TriggerMisses, wait, CINodes
    <2> QED BY <2>1 DEF Moves
  <1>14. ASSUME NEW t, Goto(after_ci(t)), t.ci_status = s'.ci_status, t.ci_iteration = s'.ci_iteration,
                node \in CINodes, LeaveCI \/ ~validated'
         PROVE  Moves
    <2>1. node' = after_ci(t) \/ node' = "recursion_limit"
      BY <1>14, GotoMoves
    <2> QED BY <1>14, <2>1, AfterCI DEF Moves
  <1>15. CASE LeaveCI
    BY <1>14, <1>15 DEF LeaveCI, CINodes
  <1>16. CASE PRPush
    BY <1>16 DEF PRPush, Moves, PRNodes, past
  <1>17. CASE create_pull_request
    <2>1. CASE Goto("human_review")
      BY <1>17, <2>1, GotoMoves DEF create_pull_request, Moves, PRNodes
    <2>2. CASE node' = "pr_opened"
      BY <1>17, <2>2 DEF create_pull_request, Moves, PRNodes, past
    <2> QED BY <1>17, <2>1, <2>2 DEF create_pull_request
  <1>18. CASE LeavePR
    BY <1>18, GotoMoves DEF LeavePR, Moves, PRNodes
  <1>19. CASE NodeFails
    <2>1. PICK n \in Edges(node, s) : Goto(n)
      BY <1>19 DEF NodeFails
    <2>2. node \in Nodes \ {"implementation"} /\ iteration' = iteration
      BY <1>19 DEF NodeFails
    <2>3. PICK b : s' = [s EXCEPT !.blocked = b]
      BY <1>19 DEF NodeFails
    <2>4. /\ s'.tests_ok = s.tests_ok /\ s'.commit_sha = s.commit_sha /\ s'.ci_status = s.ci_status
          /\ s'.ci_iteration = s.ci_iteration
      BY <2>3 DEF SType
    <2>5. CASE n \in after_tests(s)
      <3>1. \/ n = "security_policy" /\ s.tests_ok
            \/ n = "debugging" /\ ~(iteration >= MaxIterations)
            \/ n = "halt"
        BY <2>5, AfterTests
      <3>2. node' = n \/ node' = "recursion_limit"
        BY <2>1, GotoMoves
      <3> QED BY <2>2, <2>4, <3>1, <3>2 DEF Moves
    <2>6. CASE n = "run_tests" \/ (node = "security_policy" /\ n \in {"git_commit", "halt"})
               \/ (node \in PRNodes /\ n = "human_review")
      <3>1. node' = n \/ node' = "recursion_limit"
        BY <2>1, GotoMoves
      <3> QED BY <2>6, <3>1 DEF Moves
    <2>7. CASE node \in {"git_commit", "committed"} /\ n = after_commit(s)
      BY <1>9, <2>1, <2>4, <2>7
    <2>8. CASE node \in CINodes /\ n = after_ci(s)
      <3>1. ~validated'
        BY <1>19, <2>8 DEF NodeFails
      <3> QED BY <1>14, <2>1, <2>4, <2>8, <3>1
    <2> QED BY <2>2, <2>5, <2>6, <2>7, <2>8, EdgesOf
  <1>20. CASE \E r \in Reports : PrintReport(r)
    BY <1>20 DEF PrintReport, Moves, past
  <1>21. CASE Service
    BY <1>21 DEF Service, RegisterRun, RunEnds, RunDeleted, Moves, past, tests
  <1>22. CASE UNCHANGED vars
    BY <1>22 DEF vars, Moves
  <1> QED BY <1>1, <1>2, <1>4, <1>6, <1>7, <1>8, <1>10, <1>11, <1>12, <1>13, <1>15, <1>16, <1>17,
             <1>18, <1>19, <1>20, <1>21, <1>22 DEF Next, WorkerStep

-----------------------------------------------------------------------------
(* The wait *)

(* What get_status says of a run. *)
LEMMA StatusOfRun ==
  ASSUME NEW i
  PROVE  /\ get_status(i).id = i /\ _to_result(i).id = i
         /\ get_status(i).status \in CIStatuses /\ _to_result(i).status \in CIStatuses
         /\ get_status(i).status = "TIMED_OUT" => server[i].state = "timed_out"
         /\ get_status(i).status = "PASSED" => server[i].state \in {"success", "neutral"}
         /\ _to_result(i).status = "PASSED" => server[i].state \in {"success", "neutral"}
         /\ ~finished(get_status(i)) => server[i].state = "in_progress"
         /\ ~finished(_to_result(i)) => _to_result(i).status = "RUNNING"
  <1>1. /\ _to_result(i).id = i
        /\ \/ server[i].state = "in_progress" /\ _to_result(i).status = "RUNNING"
           \/ server[i].state \in {"success", "neutral"} /\ _to_result(i).status = "PASSED"
           \/ server[i].state = "timed_out" /\ _to_result(i).status = "TIMED_OUT"
           \/ server[i].state = "skipped" /\ _to_result(i).status = "SKIPPED"
           \/ _to_result(i).status = "FAILED"
    BY DEF _to_result
  <1>2. CASE server[i].gone
    BY <1>1, <1>2 DEF get_status, finished, CIStatuses
  <1>3. CASE ~server[i].gone
    BY <1>1, <1>3 DEF get_status, finished, CIStatuses
  <1> QED BY <1>2, <1>3

(* Only wait goes from ci_wait to ci_record. *)
LEMMA WaitReports ==
  ASSUME [Next]_vars, node = "ci_wait", node' = "ci_record"
  PROVE  wait
  <1>1. ASSUME NEW e \in {0, 1}, CollectKilled(e) PROVE FALSE
    BY <1>1 DEF CollectKilled
  <1>2. ASSUME NEW r \in Reports, PrintReport(r) PROVE FALSE
    BY <1>2 DEF PrintReport
  <1>3. ~Service
    BY DEF Service, RegisterRun, RunEnds, RunDeleted
  <1>4. ~SupervisorFails /\ ~Crash /\ ~UNCHANGED vars
    BY DEF SupervisorFails, Crash, vars
  <1>n. ASSUME NodeFails PROVE FALSE
    <2>1. PICK n \in Edges(node, s) : Goto(n)
      BY <1>n DEF NodeFails
    <2>2. n = after_ci(s)
      BY EdgesOf DEF Nodes, AgentNodes, PRNodes
    <2>3. node' = n \/ node' = "recursion_limit"
      BY <2>1, GotoMoves
    <2> QED BY <2>2, <2>3, AfterCI
  <1>5. WorkerStep
    BY <1>3, <1>4, <1>n DEF Next
  <1>6. /\ ~Implement /\ ~NoTestProject /\ ~TestsEnd /\ ~TestsTimeOut /\ ~Debug
        /\ ~SecurityPolicy /\ ~NoFileChanges /\ ~commit_all /\ ~Committed
        /\ ~CIPush /\ ~NoopTrigger /\ ~TriggerFinds /\ ~TriggerMisses
        /\ ~record_ci_run /\ ~LeaveCI /\ ~CIDebug
        /\ ~PRPush /\ ~create_pull_request /\ ~LeavePR
    BY DEF Implement, NoTestProject, TestsEnd, TestsTimeOut, Debug, SecurityPolicy, NoFileChanges,
       commit_all, Committed, CIPush, NoopTrigger, TriggerFinds, TriggerMisses, record_ci_run,
       LeaveCI, CIDebug, PRPush, create_pull_request, LeavePR
  <1> QED BY <1>1, <1>2, <1>5, <1>6 DEF WorkerStep

(* wait gives up only on a run that has not come to an end, for any deadline:
   the last poll comes before the clock is read. *)
THEOREM LateVerdict == Spec => LateVerdictCounts
  <1>1. ASSUME [Next]_vars
        PROVE  node = "ci_wait" /\ node' = "ci_record" /\ result'.status = "TIMED_OUT" =>
                 server[result.id].state \in {"in_progress", "timed_out"}
    <2> SUFFICES ASSUME node = "ci_wait", node' = "ci_record", result'.status = "TIMED_OUT"
                 PROVE  server[result.id].state \in {"in_progress", "timed_out"}
      OBVIOUS
    <2>1. wait
      BY <1>1, WaitReports
    <2>2. CASE finished(get_status(result.id))
      BY <2>1, <2>2, StatusOfRun DEF wait
    <2>3. CASE ~finished(get_status(result.id))
      BY <2>3, StatusOfRun
    <2> QED BY <2>2, <2>3
  <1> QED BY <1>1, PTL DEF Spec, LateVerdictCounts

-----------------------------------------------------------------------------
(* The hosting service *)

RunType == [sha : Nat, state : {"in_progress"} \cup Conclusions, gone : BOOLEAN]

(* The service knows commits of the branch only. *)
HostInv ==
  /\ head \in Nat
  /\ remote \in 0 .. head
  /\ unregistered \in Seq(0 .. Workflows) /\ Len(unregistered) <= head
  /\ server \in Seq(RunType)
  /\ \A i \in DOMAIN server : server[i].sha \in 1 .. head

(* Runs are added, their commit is fixed and an end is the end. *)
ServerGrows ==
  /\ DOMAIN server \subseteq DOMAIN server'
  /\ \A i \in DOMAIN server :
       /\ server'[i].sha = server[i].sha
       /\ server[i].state # "in_progress" => server'[i].state = server[i].state

(* A push announces runs for the commit it shows. *)
LEMMA PushTyped ==
  ASSUME HostInv, push_branch
  PROVE  /\ remote' \in 0 .. head
         /\ unregistered' \in Seq(0 .. Workflows) /\ Len(unregistered') <= head
  <1>1. CASE scm = "local" \/ remote = head
    BY <1>1 DEF push_branch, HostInv
  <1>2. CASE ~(scm = "local" \/ remote = head)
    <2> DEFINE f == [c \in 1 .. head |->
                       IF c = head THEN Workflows
                       ELSE IF c \in DOMAIN unregistered THEN unregistered[c] ELSE 0]
    <2>1. remote' = head /\ unregistered' = f
      BY <1>2 DEF push_branch
    <2>2. DOMAIN unregistered = 1 .. Len(unregistered) /\ head \in Nat
          /\ \A c \in 1 .. Len(unregistered) : unregistered[c] \in 0 .. Workflows
      BY LenProperties, ElementOfSeq DEF HostInv
    <2>3. f \in [1 .. head -> 0 .. Workflows]
      BY <2>2, DeliveryAssumption
    <2> HIDE DEF f
    <2>4. f \in Seq(0 .. Workflows)
      BY <2>2, <2>3, SeqDef, Zenon
    <2>5. Len(f) = head
      <3>1. 1 .. Len(f) = 1 .. head /\ Len(f) \in Nat
        BY <2>3, <2>4, LenProperties
      <3> QED BY <2>2, <3>1
    <2> QED BY <2>1, <2>2, <2>4, <2>5
  <1> QED BY <1>1, <1>2

(* A step of the service. *)
LEMMA ServiceHost ==
  ASSUME HostInv, Service
  PROVE  HostInv' /\ ServerGrows
  <1>0. /\ DOMAIN server = 1 .. Len(server) /\ Len(server) \in Nat
        /\ \A i \in 1 .. Len(server) : server[i] \in RunType
        /\ DOMAIN unregistered = 1 .. Len(unregistered) /\ Len(unregistered) \in Nat
        /\ \A i \in 1 .. Len(unregistered) : unregistered[i] \in 0 .. Workflows
    BY LenProperties, ElementOfSeq DEF HostInv
  <1>1. ASSUME NEW c \in DOMAIN unregistered, RegisterRun(c) PROVE HostInv' /\ ServerGrows
    <2> DEFINE run == [sha |-> c, state |-> "in_progress", gone |-> FALSE]
               u == unregistered[c] - 1
    <2>1. c \in 1 .. Len(unregistered) /\ c \in 1 .. head /\ c \in Nat /\ u \in 0 .. Workflows
      <3>1. c \in 1 .. Len(unregistered) /\ Len(unregistered) <= head /\ head \in Nat
        BY <1>0, <1>1 DEF HostInv
      <3>2. unregistered[c] \in 0 .. Workflows /\ unregistered[c] > 0
        BY <1>0, <1>1, <3>1 DEF RegisterRun
      <3>3. u \in 0 .. Workflows
        BY <3>2, DeliveryAssumption
      <3> QED BY <1>0, <3>1, <3>3
    <2>2. run \in RunType /\ run.sha = c
      BY <2>1 DEF RunType
    <2>3. /\ unregistered' = [unregistered EXCEPT ![c] = u]
          /\ server' = Append(server, run) /\ head' = head /\ remote' = remote
      BY <1>1 DEF RegisterRun, tree
    <2> HIDE DEF run, u
    <2>4. unregistered' \in Seq(0 .. Workflows) /\ Len(unregistered') = Len(unregistered)
      BY <2>1, <2>3, ExceptSeq DEF HostInv
    <2>5. /\ server' \in Seq(RunType) /\ DOMAIN server' = 1 .. Len(server) + 1
          /\ \A i \in 1 .. Len(server) : server'[i] = server[i]
          /\ server'[Len(server) + 1] = run
      BY <2>2, <2>3, AppendProperties, LenProperties DEF HostInv
    <2>6. \A i \in DOMAIN server' : server'[i].sha \in 1 .. head
      <3> TAKE i \in DOMAIN server'
      <3>1. CASE i \in 1 .. Len(server)
        BY <1>0, <2>5, <3>1 DEF HostInv
      <3>2. CASE i = Len(server) + 1
        BY <2>1, <2>2, <2>5, <3>2
      <3>3. i \in 1 .. Len(server) \/ i = Len(server) + 1
        BY <1>0, <2>5
      <3> QED BY <3>1, <3>2, <3>3
    <2>7. ServerGrows
      BY <1>0, <2>5 DEF ServerGrows
    <2> QED BY <2>3, <2>4, <2>5, <2>6, <2>7 DEF HostInv
  <1>2. ASSUME NEW i \in DOMAIN server, NEW run \in RunType,
               server' = [server EXCEPT ![i] = run],
               run.sha = server[i].sha,
               server[i].state # "in_progress" => run.state = server[i].state,
               UNCHANGED <<head, remote, unregistered>>
        PROVE  HostInv' /\ ServerGrows
    <2>1. /\ server' \in Seq(RunType) /\ DOMAIN server' = DOMAIN server
          /\ \A j \in DOMAIN server : server'[j] = IF j = i THEN run ELSE server[j]
      BY <1>0, <1>2, ExceptSeq DEF HostInv
    <2>2. ServerGrows
      BY <1>2, <2>1 DEF ServerGrows
    <2> QED BY <1>2, <2>1, <2>2 DEF HostInv
  <1>3. ASSUME NEW i \in DOMAIN server, NEW c \in Conclusions, RunEnds(i, c)
        PROVE  HostInv' /\ ServerGrows
    <2> DEFINE run == [server[i] EXCEPT !.state = c]
    <2>1. server[i] \in RunType /\ server[i].state = "in_progress"
      BY <1>0, <1>3 DEF RunEnds
    <2>2. run \in RunType /\ run.sha = server[i].sha
      BY <2>1 DEF RunType
    <2>3. server' = [server EXCEPT ![i] = run] /\ UNCHANGED <<head, remote, unregistered>>
      BY <1>3 DEF RunEnds, tree
    <2> HIDE DEF run
    <2> QED BY <1>2, <2>1, <2>2, <2>3
  <1>4. ASSUME NEW i \in DOMAIN server, RunDeleted(i) PROVE HostInv' /\ ServerGrows
    <2> DEFINE run == [server[i] EXCEPT !.gone = TRUE]
    <2>1. server[i] \in RunType
      BY <1>0
    <2>2. run \in RunType /\ run.sha = server[i].sha /\ run.state = server[i].state
      BY <2>1 DEF RunType
    <2>3. server' = [server EXCEPT ![i] = run] /\ UNCHANGED <<head, remote, unregistered>>
      BY <1>4 DEF RunDeleted, tree
    <2> HIDE DEF run
    <2> QED BY <1>2, <2>2, <2>3
  <1> QED BY <1>1, <1>3, <1>4 DEF Service

(* Every step keeps the service in order; the worker only pushes. *)
LEMMA NextHost ==
  ASSUME HostInv, [Next]_vars
  PROVE  HostInv' /\ ServerGrows /\ (head' = head \/ head' = head + 1)
  <1>1. CASE Service
    BY <1>1, ServiceHost DEF Service, RegisterRun, RunEnds, RunDeleted, tree
  <1>2. ASSUME server' = server, head' = head \/ head' = head + 1,
               \/ UNCHANGED <<remote, unregistered>>
               \/ push_branch
        PROVE  HostInv' /\ ServerGrows /\ (head' = head \/ head' = head + 1)
    <2>1. /\ remote' \in 0 .. head
          /\ unregistered' \in Seq(0 .. Workflows) /\ Len(unregistered') <= head
      BY <1>2, PushTyped DEF HostInv
    <2>2. Len(unregistered') \in Nat
      BY <2>1, LenProperties
    <2>3. head' \in Nat /\ 0 .. head \subseteq 0 .. head' /\ 1 .. head \subseteq 1 .. head'
          /\ Len(unregistered') <= head'
      BY <1>2, <2>1, <2>2 DEF HostInv
    <2> QED BY <1>2, <2>1, <2>3 DEF HostInv, ServerGrows
  <1>3. CASE commit_all
    BY <1>2, <1>3 DEF commit_all, hosted
  <1>4. CASE CIPush \/ PRPush
    BY <1>2, <1>4 DEF CIPush, PRPush, tree
  <1>5. CASE \/ Implement \/ NoTestProject \/ TestsEnd \/ TestsTimeOut \/ Debug
             \/ \E r \in Reports : PrintReport(r)
             \/ \E e \in {0, 1} : CollectKilled(e)
             \/ SecurityPolicy \/ NoFileChanges \/ Committed
    BY <1>2, <1>5 DEF Implement, NoTestProject, TestsEnd, TestsTimeOut, Debug, PrintReport,
       CollectKilled, TestsDone, SecurityPolicy, NoFileChanges, Committed, tree, hosted
  <1>6. CASE \/ NoopTrigger \/ TriggerFinds \/ TriggerMisses \/ wait \/ record_ci_run \/ LeaveCI
             \/ CIDebug \/ create_pull_request \/ LeavePR \/ NodeFails \/ SupervisorFails \/ Crash
    BY <1>2, <1>6 DEF NoopTrigger, TriggerFinds, TriggerMisses, wait, record_ci_run, LeaveCI,
       CIDebug, create_pull_request, LeavePR, NodeFails, SupervisorFails, Crash, tree, hosted
  <1>7. CASE UNCHANGED vars
    BY <1>2, <1>7 DEF vars
  <1> QED BY <1>1, <1>3, <1>4, <1>5, <1>6, <1>7 DEF Next, WorkerStep

-----------------------------------------------------------------------------
(* Control: the counters stay within their budgets *)

(* A budget is checked on the edge into the node that spends it. *)
ControlInv ==
  /\ scm \in {"local", "github"} /\ ci \in {"none", "github_actions"}
  /\ node \in Nodes \cup Ended /\ steps \in 5 .. RecursionLimit
  /\ printed \in Seq(Reports) /\ Len(printed) <= Projects
  /\ iteration \in 0 .. MaxIterations
  /\ node = "debugging" => iteration < MaxIterations
  /\ dirty \in BOOLEAN
  /\ attempt \in 0 .. TriggerAttempts /\ clock \in 0 .. Deadline
  /\ node = "ci_trigger" => attempt < TriggerAttempts
  /\ crashes \in 0 .. MaxCrashes
  /\ green \in BOOLEAN /\ validated \in BOOLEAN /\ lost \in BOOLEAN

(* The settings do not change, and a superstep counts within the limit. *)
LEMMA StepsCount ==
  ASSUME steps \in 5 .. RecursionLimit, [Next]_vars
  PROVE  UNCHANGED <<scm, ci, kind>> /\ steps' \in 5 .. RecursionLimit
  <1> USE DeliveryAssumption
  <1>1. CASE Implement \/ NoTestProject \/ Debug \/ SecurityPolicy \/ NoFileChanges \/ commit_all
    BY <1>1, GotoMoves DEF Implement, NoTestProject, Debug, SecurityPolicy, NoFileChanges, commit_all, config
  <1>2. ASSUME NEW outcome, TestsDone(outcome)
        PROVE  UNCHANGED <<scm, ci, kind>> /\ steps' \in 5 .. RecursionLimit
    BY <1>2, GotoMoves DEF TestsDone, config
  <1>3. CASE TestsEnd
    <2>1. PICK outcome : TestsDone(outcome)
      BY <1>3, Zenon DEF TestsEnd
    <2> QED BY <1>2, <2>1
  <1>4. CASE \E e \in {0, 1} : CollectKilled(e)
    <2>1. PICK outcome : TestsDone(outcome)
      BY <1>4, Zenon DEF CollectKilled
    <2> QED BY <1>2, <2>1
  <1>5. CASE Committed \/ LeaveCI \/ CIDebug \/ create_pull_request \/ LeavePR \/ NodeFails
    BY <1>5, GotoMoves DEF Committed, LeaveCI, CIDebug, create_pull_request, LeavePR, NodeFails, config
  <1>6. CASE \/ TestsTimeOut \/ (\E r \in Reports : PrintReport(r)) \/ PRPush
             \/ CIPush \/ NoopTrigger \/ TriggerFinds \/ TriggerMisses \/ wait \/ record_ci_run
    BY <1>6 DEF TestsTimeOut, PrintReport, PRPush, CIPush, NoopTrigger, TriggerFinds, TriggerMisses, wait,
       record_ci_run, config
  <1>7. CASE SupervisorFails \/ Crash
    BY <1>7 DEF SupervisorFails, Crash, config
  <1>8. CASE Service
    BY <1>8 DEF Service, RegisterRun, RunEnds, RunDeleted, config
  <1>9. CASE UNCHANGED vars
    BY <1>9 DEF vars
  <1> QED BY <1>1, <1>3, <1>4, <1>5, <1>6, <1>7, <1>8, <1>9 DEF Next, WorkerStep

(* Boolean variables stay Boolean. *)
LEMMA Flags ==
  ASSUME dirty \in BOOLEAN, green \in BOOLEAN, validated \in BOOLEAN, lost \in BOOLEAN, [Next]_vars
  PROVE  dirty' \in BOOLEAN /\ green' \in BOOLEAN /\ validated' \in BOOLEAN /\ lost' \in BOOLEAN
  <1>1. ASSUME dirty' \in {dirty, TRUE}, UNCHANGED past
        PROVE  dirty' \in BOOLEAN /\ green' \in BOOLEAN /\ validated' \in BOOLEAN /\ lost' \in BOOLEAN
    BY <1>1 DEF past
  <1>2. CASE Implement \/ Debug \/ CIDebug
    BY <1>1, <1>2 DEF Implement, Debug, CIDebug, AgentWrites
  <1>3. CASE NoTestProject \/ TestsTimeOut \/ (\E r \in Reports : PrintReport(r)) \/ SecurityPolicy \/ NoFileChanges
    BY <1>1, <1>3 DEF NoTestProject, TestsTimeOut, PrintReport, SecurityPolicy, NoFileChanges, tree
  <1>4. ASSUME NEW outcome, TestsDone(outcome)
        PROVE  dirty' \in BOOLEAN /\ green' \in BOOLEAN /\ validated' \in BOOLEAN /\ lost' \in BOOLEAN
    <2>1. AllGreen \in BOOLEAN
      BY DEF AllGreen
    <2> QED BY <1>4, <2>1 DEF TestsDone, tree
  <1>5. CASE TestsEnd
    <2>1. PICK outcome : TestsDone(outcome)
      BY <1>5, Zenon DEF TestsEnd
    <2> QED BY <1>4, <2>1
  <1>6. CASE \E e \in {0, 1} : CollectKilled(e)
    <2>1. PICK outcome : TestsDone(outcome)
      BY <1>6, Zenon DEF CollectKilled
    <2> QED BY <1>4, <2>1
  <1>7. CASE commit_all
    BY <1>7 DEF commit_all, past
  <1>8. CASE Committed
    <2>1. PICK sha : lost' = (sha = None)
      BY <1>8 DEF Committed
    <2>2. lost' \in BOOLEAN
      BY <2>1, Zenon
    <2> QED BY <1>8, <2>2 DEF Committed, tree
  <1>9. CASE CIPush \/ NoopTrigger \/ TriggerFinds \/ TriggerMisses \/ wait \/ record_ci_run
    BY <1>1, <1>9 DEF CIPush, NoopTrigger, TriggerFinds, TriggerMisses, wait, record_ci_run, tree
  <1>10. CASE LeaveCI
    BY <1>10 DEF LeaveCI, tree
  <1>11. CASE PRPush \/ create_pull_request \/ LeavePR \/ SupervisorFails
    BY <1>1, <1>11 DEF PRPush, create_pull_request, LeavePR, SupervisorFails, tree
  <1>12. CASE NodeFails
    <2>1. dirty' \in BOOLEAN /\ green' = green
      BY <1>12 DEF NodeFails, AgentWrites
    <2>2. validated' = (validated /\ node \notin CINodes) /\ lost' = (lost \/ node = "committed")
      BY <1>12, Zenon DEF NodeFails
    <2>3. validated' \in BOOLEAN /\ lost' \in BOOLEAN
      BY <2>2, Zenon
    <2> QED BY <2>1, <2>3
  <1>13. CASE Crash
    <2>1. lost' = (lost \/ node = "committed")
      BY <1>13, Zenon DEF Crash
    <2>2. lost' \in BOOLEAN
      BY <2>1, Zenon
    <2> QED BY <1>13, <2>2 DEF Crash, tree
  <1>14. CASE Service
    BY <1>1, <1>14 DEF Service, RegisterRun, RunEnds, RunDeleted, tree
  <1>15. CASE UNCHANGED vars
    BY <1>1, <1>15 DEF vars, past
  <1> QED BY <1>2, <1>3, <1>5, <1>6, <1>7, <1>8, <1>9, <1>10, <1>11, <1>12, <1>13, <1>14, <1>15
       DEF Next, WorkerStep

(* Every step keeps the counters in their budgets. *)
LEMMA NextControl ==
  ASSUME ControlInv, Moves, [Next]_vars
  PROVE  ControlInv'
  <1> USE DeliveryAssumption
  <1>0. <<>> \in Seq(Reports) /\ Len(<<>>) = 0
    BY EmptySeq
  <1>f. dirty' \in BOOLEAN /\ green' \in BOOLEAN /\ validated' \in BOOLEAN /\ lost' \in BOOLEAN
    BY Flags DEF ControlInv
  <1>c. UNCHANGED <<scm, ci>> /\ steps' \in 5 .. RecursionLimit
    BY StepsCount DEF ControlInv
  <1>m. node' \in Nodes \cup Ended
    BY DEF Moves, Nodes, Ended, ControlInv, CINodes
  <1>d. node' = "debugging" =>
          iteration' = iteration /\ (node = "debugging" \/ ~(iteration >= MaxIterations))
    BY DEF Moves, CINodes
  <1>d1. node' = "debugging" => iteration' < MaxIterations
    BY <1>d DEF ControlInv
  <1>1. ASSUME iteration' \in 0 .. MaxIterations, printed' \in Seq(Reports), Len(printed') <= Projects,
               attempt' \in 0 .. TriggerAttempts, clock' \in 0 .. Deadline, crashes' \in 0 .. MaxCrashes,
               node' = "ci_trigger" => attempt' < TriggerAttempts
        PROVE  ControlInv'
    BY <1>1, <1>f, <1>c, <1>m, <1>d1 DEF ControlInv
  <1>p. ASSUME printed' = printed \/ printed' = <<>>
        PROVE  printed' \in Seq(Reports) /\ Len(printed') <= Projects
    <2>1. CASE printed' = printed
      BY <2>1 DEF ControlInv
    <2>2. CASE printed' = <<>>
      BY <1>0, <2>2
    <2> QED BY <1>p, <2>1, <2>2
  <1>2. ASSUME UNCHANGED <<iteration, attempt, clock, crashes>>, printed' = printed \/ printed' = <<>>,
               node' # "ci_trigger" \/ node' = node
        PROVE  ControlInv'
    <2>1. printed' \in Seq(Reports) /\ Len(printed') <= Projects
      BY <1>2, <1>p
    <2>2. /\ iteration' \in 0 .. MaxIterations /\ attempt' \in 0 .. TriggerAttempts
          /\ clock' \in 0 .. Deadline /\ crashes' \in 0 .. MaxCrashes
          /\ node' = "ci_trigger" => attempt' < TriggerAttempts
      BY <1>2 DEF ControlInv
    <2> QED BY <1>1, <2>1, <2>2
  <1>3. ASSUME NoLocals, printed' = printed \/ printed' = <<>>, iteration' = iteration,
               crashes' \in 0 .. MaxCrashes
        PROVE  ControlInv'
    <2>1. printed' \in Seq(Reports) /\ Len(printed') <= Projects
      BY <1>3, <1>p
    <2>2. /\ iteration' \in 0 .. MaxIterations /\ attempt' \in 0 .. TriggerAttempts
          /\ clock' \in 0 .. Deadline /\ attempt' < TriggerAttempts
      BY <1>3 DEF ControlInv, NoLocals
    <2> QED BY <1>1, <1>3, <2>1, <2>2
  <1>t. \/ Implement \/ NoTestProject \/ SecurityPolicy \/ NoFileChanges \/ commit_all \/ Committed
           \/ CIDebug
        => node' # "ci_trigger"
    BY DEF Moves, Implement, NoTestProject, SecurityPolicy, NoFileChanges, commit_all, Committed, CIDebug,
       CINodes
  <1>4. CASE Implement \/ NoTestProject \/ SecurityPolicy \/ NoFileChanges \/ commit_all \/ Committed
             \/ CIDebug
    <2>1. UNCHANGED <<iteration, attempt, clock, crashes>> /\ printed' = printed
      BY <1>4 DEF Implement, NoTestProject, SecurityPolicy, NoFileChanges, commit_all, Committed,
         CIDebug, tests, poll
    <2> QED BY <1>2, <1>4, <1>t, <2>1
  <1>5. CASE Debug
    <2>1. iteration' \in 0 .. MaxIterations
      <3>1. iteration' = iteration + 1 /\ node = "debugging"
        BY <1>5 DEF Debug
      <3>2. iteration \in 0 .. MaxIterations /\ iteration < MaxIterations
        BY <3>1 DEF ControlInv
      <3> QED BY <3>1, <3>2, DeliveryAssumption
    <2>2. UNCHANGED <<printed, attempt, clock, crashes>> /\ node' # "ci_trigger"
      BY <1>5, GotoMoves DEF Debug, poll
    <2>3. /\ printed' \in Seq(Reports) /\ Len(printed') <= Projects
          /\ attempt' \in 0 .. TriggerAttempts /\ clock' \in 0 .. Deadline /\ crashes' \in 0 .. MaxCrashes
      BY <2>2 DEF ControlInv
    <2> QED BY <1>1, <2>1, <2>2, <2>3
  <1>6. ASSUME NEW outcome, TestsDone(outcome), node \in {"run_tests", "test_killed"} PROVE ControlInv'
    <2>1. node' # "ci_trigger"
      BY <1>6 DEF Moves, CINodes
    <2> QED BY <1>2, <1>6, <2>1 DEF TestsDone, poll
  <1>7. CASE TestsEnd
    <2>1. PICK outcome : TestsDone(outcome)
      BY <1>7, Zenon DEF TestsEnd
    <2> QED BY <1>6, <1>7, <2>1 DEF TestsEnd
  <1>8. CASE \E e \in {0, 1} : CollectKilled(e)
    <2>1. PICK outcome : TestsDone(outcome)
      BY <1>8, Zenon DEF CollectKilled
    <2> QED BY <1>6, <1>8, <2>1 DEF CollectKilled
  <1>9. ASSUME NEW r \in Reports, PrintReport(r) PROVE ControlInv'
    <2>1. printed' \in Seq(Reports) /\ Len(printed') = Len(printed) + 1 /\ Len(printed) \in Nat
      BY <1>9, AppendProperties, LenProperties DEF PrintReport, ControlInv
    <2>2. Len(printed') <= Projects
      BY <1>9, <2>1 DEF PrintReport
    <2>3. node' = "run_tests" /\ UNCHANGED <<iteration, attempt, clock, crashes>>
      BY <1>9 DEF PrintReport, poll
    <2>4. /\ iteration' \in 0 .. MaxIterations /\ attempt' \in 0 .. TriggerAttempts
          /\ clock' \in 0 .. Deadline /\ crashes' \in 0 .. MaxCrashes
      BY <2>3 DEF ControlInv
    <2> QED BY <1>1, <2>1, <2>2, <2>3, <2>4
  <1>10. CASE TestsTimeOut \/ NoopTrigger \/ TriggerFinds \/ record_ci_run
    BY <1>2, <1>10 DEF TestsTimeOut, NoopTrigger, TriggerFinds, record_ci_run, tests, poll
  <1>11. CASE CIPush
    BY <1>3, <1>11 DEF CIPush, tests, ControlInv
  <1>12. CASE LeaveCI
    BY <1>3, <1>12 DEF LeaveCI, tests, ControlInv
  <1>13. CASE NodeFails \/ SupervisorFails
    BY <1>3, <1>13 DEF NodeFails, SupervisorFails, ControlInv
  <1>14. CASE Crash
    <2>1. crashes' \in 0 .. MaxCrashes
      BY <1>14 DEF Crash, ControlInv
    <2> QED BY <1>3, <1>14, <2>1 DEF Crash
  <1>15. CASE TriggerMisses
    <2>1. /\ attempt' = attempt + 1 /\ node = "ci_trigger"
          /\ \/ attempt' < TriggerAttempts /\ node' = node
             \/ ~(attempt' < TriggerAttempts) /\ node' = "ci_record"
          /\ UNCHANGED <<printed, iteration, clock, crashes>>
      BY <1>15 DEF TriggerMisses, tests
    <2>2. /\ attempt' \in 0 .. TriggerAttempts /\ (node' = "ci_trigger" => attempt' < TriggerAttempts)
      BY <2>1 DEF ControlInv
    <2>3. /\ iteration' \in 0 .. MaxIterations /\ printed' \in Seq(Reports) /\ Len(printed') <= Projects
          /\ clock' \in 0 .. Deadline /\ crashes' \in 0 .. MaxCrashes
      BY <2>1 DEF ControlInv
    <2> QED BY <1>1, <2>2, <2>3
  <1>16. CASE wait
    <2>1. /\ \/ clock' = clock /\ node' = "ci_record"
             \/ ~(clock >= Deadline) /\ clock' = clock + 1 /\ node' = "ci_wait"
          /\ UNCHANGED <<printed, iteration, attempt, crashes>>
      BY <1>16 DEF wait, tests
    <2>2. clock' \in 0 .. Deadline /\ node' # "ci_trigger"
      BY <2>1 DEF ControlInv
    <2>3. /\ iteration' \in 0 .. MaxIterations /\ printed' \in Seq(Reports) /\ Len(printed') <= Projects
          /\ attempt' \in 0 .. TriggerAttempts /\ crashes' \in 0 .. MaxCrashes
      BY <2>1 DEF ControlInv
    <2> QED BY <1>1, <2>2, <2>3
  <1>17. CASE PRPush \/ create_pull_request \/ LeavePR
    <2>1. node' # "ci_trigger"
      BY <1>17, GotoMoves DEF PRPush, create_pull_request, LeavePR
    <2> QED BY <1>2, <1>17, <2>1 DEF PRPush, create_pull_request, LeavePR, tests, poll
  <1>18. CASE Service
    BY <1>2, <1>18 DEF Service, RegisterRun, RunEnds, RunDeleted, tests, poll
  <1>19. CASE UNCHANGED vars
    BY <1>2, <1>19 DEF vars
  <1> QED BY <1>4, <1>5, <1>7, <1>8, <1>9, <1>10, <1>11, <1>12, <1>13, <1>14, <1>15, <1>16, <1>17, <1>18,
             <1>19 DEF Next, WorkerStep

-----------------------------------------------------------------------------
(* The state of the agents *)

ResultType == [id : Nat \cup {None}, status : CIStatuses \cup {"none"}]

(* AgentState names a commit of the branch and a run of the service, a CI
   round is spent only within the budget and on a red verdict, and there is
   something to validate. *)
StateInv ==
  /\ s \in SType
  /\ s.commit_sha \in (1 .. head) \cup {None}
  /\ s.ci_run_id \in DOMAIN server \cup {None}
  /\ s.ci_iteration \in 0 .. MaxCIIterations
  /\ node = "ci_debugging" => s.ci_iteration < MaxCIIterations /\ s.ci_status \notin Fine
  /\ node = "committed" => head >= 1
  /\ node \in Validating => s.commit_sha # None
  /\ node \in PRNodes => s.ci_status \in Fine

Passed(i) == i \in DOMAIN server /\ server[i].state \in {"success", "neutral"}

Good(i, sha) == Passed(i) /\ server[i].sha = sha

(* The run that is awaited was started for the commit; a result that is
   recorded is final, and one that passed is of a run for the commit. *)
ResultInv ==
  /\ result \in ResultType
  /\ result.id \in DOMAIN server \cup {None}
  /\ node = "ci_wait" => result.id \in DOMAIN server /\ server[result.id].sha = s.commit_sha
  /\ node \in {"ci_record", "ci_recorded"} =>
       finished(result) /\ (result.status = "PASSED" => Good(result.id, s.commit_sha))

(* Every step keeps AgentState in order. *)
LEMMA NextState ==
  ASSUME StateInv, HostInv, ResultInv, Frame, Moves, [Next]_vars
  PROVE  StateInv'
  <1> USE DeliveryAssumption
  <1>0. ServerGrows /\ HostInv' /\ (head' = head \/ head' = head + 1)
    BY NextHost
  <1>1. head \in Nat /\ (1 .. head) \subseteq (1 .. head') /\ (head >= 1 => head' >= 1)
    BY <1>0 DEF HostInv
  <1>2. s' \in SType
    BY DEF Frame
  <1>3. s'.commit_sha \in (1 .. head') \cup {None}
    <2>1. CASE s'.commit_sha = s.commit_sha
      BY <1>1, <2>1 DEF StateInv
    <2>2. CASE Committed
      <3>1. PICK sha \in {head, None} : s' = [s EXCEPT !.commit_sha = sha]
        BY <2>2 DEF Committed
      <3>2. s'.commit_sha \in {head, None}
        BY <3>1 DEF StateInv, SType
      <3>3. node = "committed" /\ head' = head
        BY <2>2 DEF Committed, tree
      <3> QED BY <1>1, <3>2, <3>3 DEF StateInv
    <2> QED BY <2>1, <2>2 DEF Frame
  <1>4. s'.ci_run_id \in DOMAIN server' \cup {None}
    <2>1. CASE s'.ci_run_id = s.ci_run_id
      BY <1>0, <2>1 DEF StateInv, ServerGrows
    <2>2. CASE LeaveCI
      <3>1. s' = [s EXCEPT !.ci_status = result.status, !.ci_run_id = result.id] /\ server' = server
        BY <2>2 DEF LeaveCI, hosted
      <3>2. s'.ci_run_id = result.id
        BY <3>1 DEF StateInv, SType
      <3> QED BY <3>1, <3>2 DEF ResultInv
    <2> QED BY <2>1, <2>2 DEF Frame
  <1>5. s'.ci_iteration \in 0 .. MaxCIIterations
    <2>1. CASE s'.ci_iteration = s.ci_iteration
      BY <2>1 DEF StateInv
    <2>2. CASE CIDebug
      <3> DEFINE n == s.ci_iteration + 1
                 m == dirty'
      <3>1. PICK h : s' = [s EXCEPT !.ci_iteration = n, !.ci_requires_human = h, !.modified = m]
        BY <2>2 DEF CIDebug
      <3>2. s.ci_iteration \in 0 .. MaxCIIterations /\ s.ci_iteration < MaxCIIterations
        BY <2>2 DEF CIDebug, StateInv
      <3>3. n \in 0 .. MaxCIIterations
        BY <3>2
      <3> HIDE DEF n, m
      <3>4. s'.ci_iteration = n
        BY <3>1 DEF StateInv, SType
      <3> QED BY <3>3, <3>4
    <2> QED BY <2>1, <2>2 DEF Frame
  <1>6. node' = "ci_debugging" => s'.ci_iteration < MaxCIIterations /\ s'.ci_status \notin Fine
    <2> SUFFICES ASSUME node' = "ci_debugging"
                 PROVE  s'.ci_iteration < MaxCIIterations /\ s'.ci_status \notin Fine
      OBVIOUS
    <2>1. \/ node = "ci_debugging" /\ s' = s
          \/ s'.ci_status \notin Fine /\ ~(s'.ci_iteration >= MaxCIIterations)
      BY DEF Moves, CINodes
    <2> QED BY <1>5, <2>1 DEF StateInv
  <1>7. node' = "committed" => head' >= 1
    <2> SUFFICES ASSUME node' = "committed" PROVE head' >= 1
      OBVIOUS
    <2>1. node = "committed" \/ head' = head + 1
      BY DEF Moves, CINodes
    <2> QED BY <1>1, <2>1 DEF StateInv
  <1>8. node' \in Validating => s'.commit_sha # None
    <2> SUFFICES ASSUME node' \in Validating PROVE s'.commit_sha # None
      OBVIOUS
    <2>1. s'.commit_sha # None \/ node \in Validating
      BY DEF Moves, CINodes, PRNodes, Validating, StateInv
    <2>2. node \in Validating => ~Committed
      BY DEF Committed, Validating, CINodes, PRNodes
    <2> QED BY <2>1, <2>2 DEF Frame, StateInv
  <1>9. node' \in PRNodes => s'.ci_status \in Fine
    <2> SUFFICES ASSUME node' \in PRNodes PROVE s'.ci_status \in Fine
      OBVIOUS
    <2>1. s'.ci_status \in Fine \/ (node \in PRNodes /\ s' = s)
      BY DEF Moves, CINodes, PRNodes
    <2> QED BY <2>1 DEF StateInv
  <1> QED BY <1>2, <1>3, <1>4, <1>5, <1>6, <1>7, <1>8, <1>9 DEF StateInv

-----------------------------------------------------------------------------
(* The result of the CI round *)

(* Results that are read from a run have their type. *)
LEMMA ResultTyped ==
  ASSUME NEW i \in Nat
  PROVE  _to_result(i) \in ResultType /\ get_status(i) \in ResultType
  <1> DEFINE st == _to_result(i).status
  <1>1. _to_result(i) = [id |-> i, status |-> st]
    BY DEF _to_result
  <1>2. st \in CIStatuses
    BY StatusOfRun
  <1> HIDE DEF st
  <1>3. _to_result(i) \in ResultType
    BY <1>1, <1>2 DEF ResultType
  <1>4. CASE server[i].gone
    BY <1>3, <1>4 DEF get_status, ResultType, CIStatuses
  <1>5. CASE ~server[i].gone
    BY <1>3, <1>5 DEF get_status
  <1> QED BY <1>3, <1>4, <1>5

(* Steps outside the CI round leave a result of some type behind. *)
LEMMA ResultAside ==
  ASSUME ResultInv, ServerGrows, result' = result \/ result' = NoResult,
         node' \notin {"ci_wait", "ci_record", "ci_recorded"}
  PROVE  ResultInv'
  <1>1. NoResult \in ResultType /\ NoResult.id = None
    BY DEF NoResult, ResultType
  <1>2. result' \in ResultType /\ result'.id \in DOMAIN server' \cup {None}
    BY <1>1 DEF ResultInv, ServerGrows
  <1> QED BY <1>2 DEF ResultInv

(* Steps in it that leave the result alone. *)
LEMMA ResultKept ==
  ASSUME ResultInv, ServerGrows, result' = result, s' = s,
         \/ node' = node
         \/ node' = "ci_recorded" /\ node = "ci_record"
  PROVE  ResultInv'
  <1>1. result' \in ResultType /\ result'.id \in DOMAIN server' \cup {None}
    BY DEF ResultInv, ServerGrows
  <1>2. node' = "ci_wait" => result'.id \in DOMAIN server' /\ server'[result'.id].sha = s'.commit_sha
    BY DEF ResultInv, ServerGrows
  <1>3. ASSUME node' \in {"ci_record", "ci_recorded"}
        PROVE  /\ finished(result)'
               /\ result'.status = "PASSED" => Good(result.id, s.commit_sha)'
    <2>1. finished(result) /\ (result.status = "PASSED" => Good(result.id, s.commit_sha))
      BY <1>3 DEF ResultInv
    <2>2. finished(result)'
      BY <2>1 DEF finished
    <2>3. Good(result.id, s.commit_sha) => Good(result.id, s.commit_sha)'
      BY DEF ServerGrows, Good, Passed
    <2> QED BY <2>1, <2>2, <2>3
  <1> QED BY <1>1, <1>2, <1>3 DEF ResultInv

(* Every step keeps the result about a run for the commit. *)
LEMMA NextResult ==
  ASSUME ResultInv, HostInv, Moves, [Next]_vars
  PROVE  ResultInv'
  <1> USE DeliveryAssumption
  <1>0. ServerGrows /\ HostInv' /\ DOMAIN server \subseteq Nat
    BY NextHost, LenProperties DEF HostInv
  <1>n. node' \in {"ci_wait", "ci_record", "ci_recorded"} => node \in CINodes
    BY DEF Moves, CINodes
  <1>1. CASE \/ Implement \/ NoTestProject \/ TestsTimeOut \/ Debug \/ (\E r \in Reports : PrintReport(r))
             \/ SecurityPolicy \/ NoFileChanges \/ commit_all \/ Committed
    <2>1. result' = result /\ node \notin CINodes
      BY <1>1 DEF Implement, NoTestProject, TestsTimeOut, Debug, PrintReport, SecurityPolicy, NoFileChanges,
         commit_all, Committed, poll, CINodes
    <2> QED BY <1>0, <1>n, <2>1, ResultAside
  <1>2. CASE TestsEnd
    <2>1. PICK outcome : TestsDone(outcome)
      BY <1>2, Zenon DEF TestsEnd
    <2>2. result' = result /\ node \notin CINodes
      BY <1>2, <2>1 DEF TestsEnd, TestsDone, poll, CINodes
    <2> QED BY <1>0, <1>n, <2>2, ResultAside
  <1>3. CASE \E e \in {0, 1} : CollectKilled(e)
    <2>1. PICK outcome : TestsDone(outcome)
      BY <1>3, Zenon DEF CollectKilled
    <2>2. result' = result /\ node \notin CINodes
      BY <1>3, <2>1 DEF CollectKilled, TestsDone, poll, CINodes
    <2> QED BY <1>0, <1>n, <2>2, ResultAside
  <1>4. CASE CIPush
    BY <1>0, <1>4, ResultAside DEF CIPush, NoLocals
  <1>5. ASSUME result' = [id |-> None, status |-> "SKIPPED"], node' = "ci_record"
        PROVE  ResultInv'
    BY <1>5 DEF ResultInv, ResultType, finished, CIStatuses
  <1>6. CASE NoopTrigger
    BY <1>5, <1>6 DEF NoopTrigger
  <1>7. CASE TriggerFinds
    <2>1. PICK i \in RunsFor(s.commit_sha) : result' = _to_result(i)
      BY <1>7 DEF TriggerFinds
    <2>2. /\ i \in DOMAIN server /\ server[i].sha = s.commit_sha /\ i \in Nat
          /\ s' = s /\ server' = server
          /\ node' = IF finished(result') THEN "ci_record" ELSE "ci_wait"
      BY <1>0, <1>7, <2>1 DEF TriggerFinds, RunsFor, _list_runs, hosted
    <2>3. result' \in ResultType /\ result'.id = i
      BY <2>1, <2>2, ResultTyped, StatusOfRun
    <2>4. result'.status = "PASSED" => server[i].state \in {"success", "neutral"}
      BY <2>1, StatusOfRun
    <2>5. node' \in {"ci_record", "ci_wait"} /\ (node' = "ci_record" => finished(result'))
      BY <2>2
    <2>6. finished(result') => finished(result)'
      BY DEF finished
    <2> QED BY <2>2, <2>3, <2>4, <2>5, <2>6 DEF ResultInv, Good, Passed
  <1>8. CASE TriggerMisses
    <2>1. CASE attempt' < TriggerAttempts
      BY <1>0, <1>8, <2>1, ResultAside DEF TriggerMisses
    <2>2. CASE ~(attempt' < TriggerAttempts)
      BY <1>5, <1>8, <2>2 DEF TriggerMisses
    <2> QED BY <2>1, <2>2
  <1>9. CASE wait
    <2>1. /\ result.id \in DOMAIN server /\ result.id \in Nat /\ server[result.id].sha = s.commit_sha
          /\ result \in ResultType
      BY <1>0, <1>9 DEF wait, ResultInv
    <2>2. s' = s /\ server' = server /\ node = "ci_wait"
      BY <1>9 DEF wait, hosted
    <2>3. CASE finished(get_status(result.id))
      <3>1. result' = get_status(result.id) /\ node' = "ci_record"
        BY <1>9, <2>3 DEF wait
      <3>2. result' \in ResultType /\ result'.id = result.id
        BY <2>1, <3>1, ResultTyped, StatusOfRun
      <3>3. finished(result)' /\ (result'.status = "PASSED" => server[result.id].state \in {"success", "neutral"})
        BY <2>3, <3>1, StatusOfRun DEF finished
      <3> QED BY <2>1, <2>2, <3>1, <3>2, <3>3 DEF ResultInv, Good, Passed
    <2>4. CASE ~finished(get_status(result.id)) /\ clock >= Deadline
      <3>1. result' = [result EXCEPT !.status = "TIMED_OUT"] /\ node' = "ci_record"
        BY <1>9, <2>4 DEF wait
      <3>2. result' \in ResultType /\ result'.id = result.id /\ result'.status = "TIMED_OUT"
        BY <2>1, <3>1 DEF ResultType, CIStatuses
      <3> QED BY <2>1, <2>2, <3>1, <3>2 DEF ResultInv, finished
    <2>5. CASE ~finished(get_status(result.id)) /\ ~(clock >= Deadline)
      BY <1>0, <1>9, <2>2, <2>5, ResultKept DEF wait
    <2> QED BY <2>3, <2>4, <2>5
  <1>10. CASE record_ci_run
    BY <1>0, <1>10, ResultKept DEF record_ci_run, poll
  <1>11. CASE LeaveCI
    <2>1. node' = after_ci(s') \/ node' = "recursion_limit"
      BY <1>11, GotoMoves DEF LeaveCI
    <2> QED BY <1>0, <1>11, <2>1, ResultAside, AfterCI DEF LeaveCI, NoLocals
  <1>12. CASE CIDebug \/ PRPush \/ create_pull_request \/ LeavePR
    <2>1. result' = result /\ node \notin CINodes
      BY <1>12 DEF CIDebug, PRPush, create_pull_request, LeavePR, poll, CINodes
    <2> QED BY <1>0, <1>n, <2>1, ResultAside
  <1>13. CASE NodeFails
    <2>1. PICK n \in Edges(node, s) : Goto(n)
      BY <1>13 DEF NodeFails
    <2>2. node \in Nodes \ {"implementation"} /\ NoLocals
      BY <1>13 DEF NodeFails
    <2>3. node' = n \/ node' = "recursion_limit"
      BY <2>1, GotoMoves
    <2>4. CASE node \notin CINodes
      BY <1>0, <1>n, <2>2, <2>4, ResultAside DEF NoLocals
    <2>5. CASE node \in CINodes
      <3>1. n = after_ci(s)
        BY <2>2, <2>5, EdgesOf DEF CINodes, AgentNodes, PRNodes
      <3> QED BY <1>0, <2>2, <2>3, <3>1, ResultAside, AfterCI DEF NoLocals
    <2> QED BY <2>4, <2>5
  <1>16. CASE SupervisorFails \/ Crash
    BY <1>0, <1>16, ResultAside DEF SupervisorFails, Crash, NoLocals
  <1>14. CASE Service
    BY <1>0, <1>14, ResultKept DEF Service, RegisterRun, RunEnds, RunDeleted, poll
  <1>15. CASE UNCHANGED vars
    BY <1>0, <1>15, ResultKept DEF vars
  <1> QED BY <1>1, <1>2, <1>3, <1>4, <1>6, <1>7, <1>8, <1>9, <1>10, <1>11, <1>12, <1>13, <1>14, <1>15,
             <1>16
       DEF Next, WorkerStep

-----------------------------------------------------------------------------
(* The inductive invariant *)

Inv == ControlInv /\ HostInv /\ StateInv /\ ResultInv

(* What every step does, once the invariant holds. *)
LEMMA Steps ==
  ASSUME Inv, [Next]_vars
  PROVE  Frame /\ Moves
  <1>1. s \in SType /\ dirty \in BOOLEAN /\ head \in Nat
    BY DEF Inv, ControlInv, HostInv, StateInv
  <1>2. ASSUME node = "ci_recorded"
        PROVE  /\ result.status \in {"PASSED", "FAILED", "SKIPPED", "TIMED_OUT"}
               /\ result.id \in Nat \cup {None}
    BY <1>2 DEF Inv, ResultInv, ResultType, finished
  <1>3. Frame
    BY <1>1, <1>2, NextFrame
  <1> QED BY <1>1, <1>3, NextMoves

(* Every step keeps it. *)
LEMMA NextInv == Inv /\ [Next]_vars => Inv'
  <1> SUFFICES ASSUME Inv, [Next]_vars PROVE Inv'
    OBVIOUS
  <1>1. Frame /\ Moves
    BY Steps
  <1>2. ControlInv' /\ HostInv'
    BY <1>1, NextControl, NextHost DEF Inv
  <1>3. StateInv' /\ ResultInv'
    BY <1>1, NextState, NextResult DEF Inv
  <1> QED BY <1>2, <1>3 DEF Inv

(* It holds from the start. *)
LEMMA Always == Spec => []Inv
  <1> USE DeliveryAssumption
  <1>0. <<>> \in Seq(Reports) /\ <<>> \in Seq(0 .. Workflows) /\ <<>> \in Seq(RunType) /\ Len(<<>>) = 0
        /\ DOMAIN <<>> = {}
    BY EmptySeq
  <1>1. Init => ControlInv
    <2> SUFFICES ASSUME Init PROVE ControlInv
      OBVIOUS
    <2>1. dirty \in BOOLEAN /\ green \in BOOLEAN /\ validated \in BOOLEAN /\ lost \in BOOLEAN
      BY DEF Init
    <2>2. printed \in Seq(Reports) /\ Len(printed) <= Projects
      BY <1>0 DEF Init
    <2>3. /\ iteration = 0 /\ attempt = 0 /\ clock = 0 /\ crashes = 0 /\ node = "implementation"
          /\ steps = 5
          /\ scm \in {"local", "github"} /\ ci \in {"none", "github_actions"}
      BY DEF Init
    <2> QED BY <2>1, <2>2, <2>3 DEF ControlInv, Nodes
  <1>2. Init => HostInv
    BY <1>0 DEF Init, HostInv
  <1>3. Init => StateInv
    <2> SUFFICES ASSUME Init PROVE StateInv
      OBVIOUS
    <2>1. s \in SType /\ s.commit_sha = None /\ s.ci_run_id = None /\ s.ci_iteration = 0
      BY DEF Init, SType
    <2> QED BY <2>1 DEF Init, StateInv, Validating, CINodes, PRNodes
  <1>4. Init => ResultInv
    BY DEF Init, ResultInv, ResultType, NoResult
  <1>5. Init => Inv
    BY <1>1, <1>2, <1>3, <1>4 DEF Inv
  <1> QED BY <1>5, NextInv, PTL DEF Spec

(* The variables have their types: the budgets of tests, polls, CI rounds and
   supersteps are kept, and AgentState and the result name commits and runs
   that exist, whichever nodes raise and through any crashes. *)
THEOREM TypeCorrect == Spec => []TypeOK
  <1>1. Inv => TypeOK
    <2> SUFFICES ASSUME ControlInv, HostInv, StateInv, ResultInv PROVE TypeOK
      BY DEF Inv
    <2>1. s \in [tests_ok : BOOLEAN, modified : BOOLEAN,
            commit_sha : (1 .. head) \cup {None}, blocked : BOOLEAN,
            ci_status : {"unset", "PASSED", "FAILED", "SKIPPED", "TIMED_OUT"},
            ci_run_id : DOMAIN server \cup {None},
            ci_iteration : 0 .. MaxCIIterations, ci_requires_human : BOOLEAN]
      BY DEF StateInv, SType
    <2>2. result \in [id : DOMAIN server \cup {None}, status : CIStatuses \cup {"none"}]
      BY DEF ResultInv, ResultType
    <2> QED BY <2>1, <2>2 DEF ControlInv, HostInv, TypeOK
  <1> QED BY <1>1, Always, PTL

-----------------------------------------------------------------------------
(* The tests *)

(* The verdict in AgentState is that of the newest test run, and nothing goes
   past the tests without it. *)
GreenInv ==
  /\ kind = "dotnet" /\ s.tests_ok => green
  /\ node \in PastTests => s.tests_ok

(* A verdict is good only when the command exited with 0 in time, whatever is
   read from its output. *)
LEMMA GoodOutcome ==
  ASSUME NEW text, NEW exit_code, NEW timed_out
  PROVE  /\ parse_dotnet_output(text, exit_code, timed_out).ok => exit_code = 0
         /\ parse_dotnet_output(text, exit_code, timed_out).ok => ~timed_out
  <1> DEFINE outcome == parse_dotnet_output(text, exit_code, timed_out)
  <1>1. \E total : outcome.ok = TestOutcome_ok(exit_code, total, timed_out)
    BY Zenon DEF parse_dotnet_output
  <1> QED BY <1>1, Zenon DEF TestOutcome_ok

(* Only a test run that returns changes what is known of the projects. *)
LEMMA GreenKept ==
  ASSUME [Next]_vars
  PROVE  green' = green \/ TestsEnd \/ \E e \in {0, 1} : CollectKilled(e)
  <1>1. CASE \/ Implement \/ NoTestProject \/ TestsTimeOut \/ Debug
             \/ (\E r \in Reports : PrintReport(r))
             \/ SecurityPolicy \/ NoFileChanges \/ commit_all \/ Committed
    BY <1>1 DEF Implement, NoTestProject, TestsTimeOut, Debug, PrintReport,
       SecurityPolicy, NoFileChanges, commit_all, Committed, past
  <1>2. CASE CIPush \/ NoopTrigger \/ TriggerFinds \/ TriggerMisses \/ wait \/ record_ci_run
             \/ LeaveCI \/ CIDebug
    BY <1>2 DEF CIPush, NoopTrigger, TriggerFinds, TriggerMisses, wait, record_ci_run, LeaveCI, CIDebug, past
  <1>3. CASE PRPush \/ create_pull_request \/ LeavePR \/ NodeFails \/ SupervisorFails \/ Crash
    BY <1>3 DEF PRPush, create_pull_request, LeavePR, NodeFails, SupervisorFails, Crash, past
  <1>4. CASE Service
    BY <1>4 DEF Service, RegisterRun, RunEnds, RunDeleted, past
  <1>5. CASE UNCHANGED vars
    BY <1>5 DEF vars
  <1> QED BY <1>1, <1>2, <1>3, <1>4, <1>5 DEF Next, WorkerStep

(* Each step that leaves a good verdict has seen every project pass. *)
LEMMA NextGreen ==
  ASSUME Inv, GreenInv, [Next]_vars
  PROVE  GreenInv'
  <1>0. Frame /\ Moves /\ kind' = kind
    BY Steps, StepsCount DEF Inv, ControlInv
  <1>t. s \in SType /\ dirty \in BOOLEAN
    BY DEF Inv, ControlInv, StateInv
  <1>1. kind' = "dotnet" /\ s'.tests_ok => green'
    <2> SUFFICES ASSUME kind = "dotnet", s'.tests_ok PROVE green'
      BY <1>0
    <2>1. CASE TestsEnd
      <3> DEFINE exit_code == IF AllGreen THEN 0 ELSE 1
                 outcome == parse_dotnet_output(printed, exit_code, FALSE)
      <3>1. TestsDone(outcome)
        BY <2>1 DEF TestsEnd
      <3>2. exit_code = 0 => AllGreen
        OBVIOUS
      <3> HIDE DEF exit_code
      <3>3. outcome.ok => exit_code = 0
        BY GoodOutcome
      <3> HIDE DEF outcome
      <3>4. outcome.ok /\ green' = AllGreen
        BY <1>t, <3>1, TestsLeave
      <3> QED BY <3>2, <3>3, <3>4
    <2>2. ASSUME NEW e \in {0, 1}, CollectKilled(e) PROVE FALSE
      <3> DEFINE outcome == parse_dotnet_output(printed, e, TRUE)
      <3>1. TestsDone(outcome)
        BY <2>2 DEF CollectKilled
      <3>2. ~outcome.ok
        BY GoodOutcome
      <3> HIDE DEF outcome
      <3>3. outcome.ok
        BY <1>t, <3>1, TestsLeave
      <3> QED BY <3>2, <3>3
    <2>3. CASE NoTestProject
      BY <2>3 DEF NoTestProject
    <2>4. CASE s'.tests_ok = s.tests_ok /\ green' = green
      BY <2>4 DEF GreenInv
    <2> QED BY <1>0, <2>1, <2>2, <2>3, <2>4, GreenKept DEF Frame
  <1>2. ASSUME node' \in PastTests PROVE s'.tests_ok
    <2>1. s'.tests_ok \/ node \in PastTests
      BY <1>0, <1>2 DEF Moves, PastTests, CINodes, PRNodes
    <2>2. node \in PastTests => s'.tests_ok = s.tests_ok
      BY <1>0 DEF Frame, NoTestProject, TestsEnd, CollectKilled, PastTests, CINodes, PRNodes
    <2> QED BY <2>1, <2>2 DEF GreenInv
  <1> QED BY <1>1, <1>2 DEF GreenInv

(* Past run_tests the newest test run that returned ran every test project of
   the solution and every one passed, for any number of projects, whatever the
   first totals of the output say, whenever the command is killed, and
   whichever nodes raise on the way. *)
THEOREM GreenIsGreen == Spec => []GreenMeansGreen
  <1>1. Init => GreenInv
    BY DEF Init, GreenInv, PastTests, CINodes, PRNodes
  <1>2. Inv /\ GreenInv /\ [Next]_vars => GreenInv'
    BY NextGreen
  <1>3. GreenInv => GreenMeansGreen
    BY DEF GreenInv, GreenMeansGreen, PastTests, PRNodes
  <1> QED BY <1>1, <1>2, <1>3, Always, PTL DEF Spec

-----------------------------------------------------------------------------
(* What a pull request says *)

(* Unless the sha of the last commit was lost, AgentState names the head of the
   branch between the return of git_commit and the next commit. *)
ShaInv == node \notin {"committed", "FAILED"} /\ ~lost => s.commit_sha = head \/ head = 0

(* The head moves only by a commit, and git_commit ends next. *)
LEMMA NextSha ==
  ASSUME Inv, ShaInv, [Next]_vars
  PROVE  ShaInv'
  <1>0. Frame /\ Moves /\ s \in SType
    BY Steps DEF Inv, StateInv
  <1>1. CASE Committed
    <2>1. PICK sha \in {head, None} : s' = [s EXCEPT !.commit_sha = sha] /\ lost' = (sha = None)
      BY <1>1, Zenon DEF Committed
    <2>2. s'.commit_sha = sha /\ head' = head
      BY <1>0, <1>1, <2>1 DEF SType, Committed, tree
    <2> QED BY <2>1, <2>2 DEF ShaInv
  <1>2. CASE commit_all
    <2>1. CASE node' = "committed"
      BY <2>1 DEF ShaInv
    <2>2. CASE UNCHANGED head
      BY <1>2, <2>2 DEF commit_all, ShaInv, past
    <2> QED BY <1>2, <2>1, <2>2 DEF commit_all
  <1>3. ASSUME UNCHANGED head, s'.commit_sha = s.commit_sha, lost' \/ lost' = lost,
               node \in {"committed", "FAILED"} => node' = node \/ node' = "FAILED" \/ lost'
        PROVE  ShaInv'
    BY <1>3 DEF ShaInv
  <1>5. CASE \/ Implement \/ NoTestProject \/ TestsTimeOut \/ Debug \/ (\E r \in Reports : PrintReport(r))
             \/ SecurityPolicy \/ NoFileChanges
    <2>1. UNCHANGED <<head, lost>> /\ node \notin {"committed", "FAILED"}
      BY <1>5 DEF Implement, NoTestProject, TestsTimeOut, Debug, PrintReport, SecurityPolicy, NoFileChanges,
         tree, past
    <2> QED BY <1>0, <1>1, <1>2, <1>3, <2>1 DEF Frame
  <1>6. ASSUME NEW outcome, TestsDone(outcome), node \in {"run_tests", "test_killed"} PROVE ShaInv'
    <2>1. UNCHANGED <<head, lost>>
      BY <1>6 DEF TestsDone, tree
    <2> QED BY <1>0, <1>1, <1>3, <1>6, <2>1 DEF Frame
  <1>7. CASE TestsEnd
    <2>1. PICK outcome : TestsDone(outcome)
      BY <1>7, Zenon DEF TestsEnd
    <2> QED BY <1>6, <1>7, <2>1 DEF TestsEnd
  <1>8. CASE \E e \in {0, 1} : CollectKilled(e)
    <2>1. PICK outcome : TestsDone(outcome)
      BY <1>8, Zenon DEF CollectKilled
    <2> QED BY <1>6, <1>8, <2>1 DEF CollectKilled
  <1>9. CASE CIPush \/ NoopTrigger \/ TriggerFinds \/ TriggerMisses \/ wait \/ record_ci_run \/ CIDebug
    <2>1. UNCHANGED <<head, lost>> /\ node \notin {"committed", "FAILED"}
      BY <1>9 DEF CIPush, NoopTrigger, TriggerFinds, TriggerMisses, wait, record_ci_run, CIDebug, tree, past
    <2> QED BY <1>0, <1>1, <1>2, <1>3, <2>1 DEF Frame
  <1>10. CASE LeaveCI \/ PRPush \/ create_pull_request \/ LeavePR
    <2>1. UNCHANGED <<head, lost>> /\ node \notin {"committed", "FAILED"}
      BY <1>10 DEF LeaveCI, PRPush, create_pull_request, LeavePR, tree, past
    <2> QED BY <1>0, <1>1, <1>2, <1>3, <2>1 DEF Frame
  <1>11. CASE NodeFails \/ Crash
    <2>1. head' = head /\ node # "FAILED"
      BY <1>11 DEF NodeFails, Crash, tree, Nodes
    <2>2. lost' = (lost \/ node = "committed")
      BY <1>11, Zenon DEF NodeFails, Crash
    <2>3. (lost' \/ lost' = lost) /\ (node = "committed" => lost')
      BY <2>2, Flags, Zenon DEF Inv, ControlInv
    <2> QED BY <1>0, <1>1, <1>3, <2>1, <2>3 DEF Frame
  <1>12. CASE SupervisorFails
    BY <1>12 DEF SupervisorFails, ShaInv
  <1>13. CASE Service
    <2>1. UNCHANGED <<head, lost, node, s>>
      BY <1>13 DEF Service, RegisterRun, RunEnds, RunDeleted, tree, past
    <2> QED BY <2>1 DEF ShaInv
  <1>14. CASE UNCHANGED vars
    BY <1>14 DEF vars, ShaInv
  <1> QED BY <1>1, <1>2, <1>5, <1>7, <1>8, <1>9, <1>10, <1>11, <1>12, <1>13, <1>14 DEF Next, WorkerStep

(* A verdict that the graph goes on with was recorded in ci_runs, in the round
   it is of; one that passed is of a run that concluded without failure, and of
   one for the commit when the last ci_validation returned. *)
VerdictInv ==
  /\ node = "ci_recorded" => Row(result, s.ci_iteration) \in rows
  /\ s.ci_status \in {"PASSED", "SKIPPED"} =>
       Row([id |-> s.ci_run_id, status |-> s.ci_status], s.ci_iteration) \in rows
  /\ s.ci_status = "PASSED" => Passed(s.ci_run_id)
  /\ s.ci_status = "unset" => ~validated
  /\ node \in PRNodes /\ validated /\ s.ci_status = "PASSED" => server[s.ci_run_id].sha = s.commit_sha

(* ci_runs only grows, the result that ci_validation ends with is in it, and
   only ci_validation counts as a validation. *)
LEMMA RowsGrow ==
  ASSUME Moves, [Next]_vars
  PROVE  /\ rows \subseteq rows'
         /\ node' = "ci_recorded" =>
              \/ node = "ci_recorded" /\ UNCHANGED <<s, result>>
              \/ s' = s /\ result' = result /\ Row(result, s.ci_iteration) \in rows'
         /\ validated' = validated \/ ~validated' \/ LeaveCI
  <1> DEFINE Grow == /\ rows \subseteq rows'
                     /\ node' = "ci_recorded" =>
                          \/ node = "ci_recorded" /\ UNCHANGED <<s, result>>
                          \/ s' = s /\ result' = result /\ Row(result, s.ci_iteration) \in rows'
                     /\ validated' = validated \/ ~validated' \/ LeaveCI
  <1>1. ASSUME rows' = rows, validated' = validated \/ ~validated', node' # "ci_recorded" PROVE Grow
    BY <1>1
  <1>2. node' = "ci_recorded" => node \in CINodes
    BY DEF Moves, CINodes
  <1>3. CASE \/ Implement \/ NoTestProject \/ TestsTimeOut \/ Debug \/ (\E r \in Reports : PrintReport(r))
             \/ SecurityPolicy \/ NoFileChanges \/ commit_all \/ Committed \/ CIDebug
    <2>1. rows' = rows /\ validated' = validated /\ node \notin CINodes
      BY <1>3 DEF Implement, NoTestProject, TestsTimeOut, Debug, PrintReport, SecurityPolicy, NoFileChanges,
         commit_all, Committed, CIDebug, past, CINodes
    <2> QED BY <1>1, <1>2, <2>1
  <1>4. CASE TestsEnd
    <2>1. PICK outcome : TestsDone(outcome)
      BY <1>4, Zenon DEF TestsEnd
    <2>2. rows' = rows /\ validated' = validated /\ node \notin CINodes
      BY <1>4, <2>1 DEF TestsEnd, TestsDone, CINodes
    <2> QED BY <1>1, <1>2, <2>2
  <1>5. CASE \E e \in {0, 1} : CollectKilled(e)
    <2>1. PICK outcome : TestsDone(outcome)
      BY <1>5, Zenon DEF CollectKilled
    <2>2. rows' = rows /\ validated' = validated /\ node \notin CINodes
      BY <1>5, <2>1 DEF CollectKilled, TestsDone, CINodes
    <2> QED BY <1>1, <1>2, <2>2
  <1>6. CASE CIPush \/ NoopTrigger \/ TriggerFinds \/ TriggerMisses \/ wait
    <2>1. rows' = rows /\ validated' = validated /\ node' # "ci_recorded"
      BY <1>6 DEF CIPush, NoopTrigger, TriggerFinds, TriggerMisses, wait, past
    <2> QED BY <1>1, <2>1
  <1>7. CASE record_ci_run
    <2>1. /\ rows' = rows \cup {Row(result, s.ci_iteration)} /\ s' = s /\ result' = result
          /\ validated' = validated
      BY <1>7 DEF record_ci_run, poll, past
    <2> QED BY <2>1
  <1>8. CASE LeaveCI
    <2>1. node' = after_ci(s') \/ node' = "recursion_limit"
      BY <1>8, GotoMoves DEF LeaveCI
    <2>2. node' # "ci_recorded"
      BY <2>1, AfterCI
    <2> QED BY <1>8, <2>2 DEF LeaveCI
  <1>9. CASE PRPush \/ create_pull_request \/ LeavePR
    <2>1. rows' = rows /\ validated' = validated /\ node \notin CINodes
      BY <1>9 DEF PRPush, create_pull_request, LeavePR, past, CINodes
    <2> QED BY <1>1, <1>2, <2>1
  <1>10. CASE NodeFails
    <2>1. PICK n \in Edges(node, s) : Goto(n)
      BY <1>10 DEF NodeFails
    <2>2. node \in Nodes \ {"implementation"} /\ rows' = rows
      BY <1>10 DEF NodeFails
    <2>3. validated' = (validated /\ node \notin CINodes)
      BY <1>10, Zenon DEF NodeFails
    <2>4. node' = n \/ node' = "recursion_limit"
      BY <2>1, GotoMoves
    <2>5. CASE node \notin CINodes
      <3>1. validated' = validated \/ ~validated'
        BY <2>3, <2>5, Zenon
      <3> QED BY <1>1, <1>2, <2>2, <2>5, <3>1
    <2>6. CASE node \in CINodes
      <3>1. n = after_ci(s)
        BY <2>2, <2>6, EdgesOf DEF CINodes, AgentNodes, PRNodes
      <3>2. ~validated'
        BY <2>3, <2>6, Zenon
      <3> QED BY <1>1, <2>2, <2>4, <3>1, <3>2, AfterCI
    <2> QED BY <2>5, <2>6
  <1>11. CASE SupervisorFails \/ Crash
    BY <1>1, <1>11 DEF SupervisorFails, Crash, past
  <1>12. CASE Service
    <2>1. UNCHANGED <<rows, s, result, node, validated>>
      BY <1>12 DEF Service, RegisterRun, RunEnds, RunDeleted, poll, past
    <2> QED BY <2>1
  <1>13. CASE UNCHANGED vars
    BY <1>13 DEF vars
  <1> QED BY <1>3, <1>4, <1>5, <1>6, <1>7, <1>8, <1>9, <1>10, <1>11, <1>12, <1>13 DEF Next, WorkerStep

(* Runs that passed stay so. *)
LEMMA PassedStays ==
  ASSUME ServerGrows, NEW i, Passed(i)
  PROVE  Passed(i)' /\ server'[i].sha = server[i].sha
  BY DEF ServerGrows, Passed

(* The verdict is recorded before it is put into AgentState, and a red one is
   the only one that another round follows. *)
LEMMA NextVerdict ==
  ASSUME Inv, VerdictInv, [Next]_vars
  PROVE  VerdictInv'
  <1>0. Frame /\ Moves /\ s \in SType
    BY Steps DEF Inv, StateInv
  <1>g. ServerGrows
    BY NextHost DEF Inv
  <1>r. /\ rows \subseteq rows'
        /\ node' = "ci_recorded" =>
              \/ node = "ci_recorded" /\ UNCHANGED <<s, result>>
              \/ s' = s /\ result' = result /\ Row(result, s.ci_iteration) \in rows'
        /\ validated' = validated \/ ~validated' \/ LeaveCI
    BY <1>0, RowsGrow
  <1>1. node' = "ci_recorded" => Row(result', s'.ci_iteration) \in rows'
    BY <1>r DEF VerdictInv
  <1>2. ASSUME LeaveCI
        PROVE  /\ s'.ci_status = result.status /\ s'.ci_run_id = result.id
               /\ s'.commit_sha = s.commit_sha /\ s'.ci_iteration = s.ci_iteration
               /\ Row(result, s.ci_iteration) \in rows
               /\ finished(result)
               /\ result.status = "PASSED" => Good(result.id, s.commit_sha)
    <2>1. node = "ci_recorded" /\ s' = [s EXCEPT !.ci_status = result.status, !.ci_run_id = result.id]
      BY <1>2 DEF LeaveCI
    <2>2. /\ s'.ci_status = result.status /\ s'.ci_run_id = result.id
          /\ s'.commit_sha = s.commit_sha /\ s'.ci_iteration = s.ci_iteration
      BY <1>0, <2>1 DEF SType
    <2> QED BY <2>1, <2>2 DEF VerdictInv, Inv, ResultInv
  <1>3. ASSUME s'.ci_status \in {"PASSED", "SKIPPED"}
        PROVE  Row([id |-> s'.ci_run_id, status |-> s'.ci_status], s'.ci_iteration) \in rows'
    <2>1. CASE LeaveCI
      BY <1>2, <1>r, <2>1 DEF Row
    <2>2. CASE s'.ci_status = s.ci_status /\ s'.ci_run_id = s.ci_run_id /\ s'.ci_iteration = s.ci_iteration
      BY <1>3, <1>r, <2>2 DEF VerdictInv, Row
    <2>3. CASE s'.ci_status = s.ci_status /\ CIDebug
      <3>1. s.ci_status \notin Fine
        BY <2>3 DEF CIDebug, Inv, StateInv
      <3> QED BY <1>3, <2>3, <3>1 DEF Fine
    <2> QED BY <1>0, <2>1, <2>2, <2>3 DEF Frame
  <1>4. ASSUME s'.ci_status = "PASSED"
        PROVE  Passed(s.ci_run_id)'
    <2>1. Passed(s'.ci_run_id)
      <3>1. CASE LeaveCI
        BY <1>2, <1>4, <3>1 DEF Good
      <3>2. CASE s'.ci_status = s.ci_status /\ s'.ci_run_id = s.ci_run_id
        BY <1>4, <3>2 DEF VerdictInv
      <3> QED BY <1>0, <3>1, <3>2 DEF Frame
    <2> QED BY <1>g, <2>1 DEF ServerGrows, Passed
  <1>5. s'.ci_status = "unset" => ~validated'
    <2> SUFFICES ASSUME s'.ci_status = "unset" PROVE ~validated'
      OBVIOUS
    <2>1. ~LeaveCI
      BY <1>2 DEF finished
    <2>2. s.ci_status = "unset"
      BY <1>0, <2>1 DEF Frame
    <2> QED BY <1>r, <2>1, <2>2 DEF VerdictInv
  <1>6. ASSUME node' \in PRNodes, validated', s'.ci_status = "PASSED"
        PROVE  server'[s'.ci_run_id].sha = s'.commit_sha
    <2>1. LeaveCI \/ (node \in PRNodes /\ s' = s /\ validated' = validated)
      BY <1>0, <1>6 DEF Moves, PRNodes, CINodes
    <2>2. CASE LeaveCI
      <3>1. Passed(s'.ci_run_id) /\ server[s'.ci_run_id].sha = s'.commit_sha
        BY <1>2, <1>6, <2>2 DEF Good
      <3> QED BY <1>g, <3>1, PassedStays
    <2>3. CASE node \in PRNodes /\ s' = s /\ validated' = validated
      <3>1. Passed(s.ci_run_id) /\ server[s.ci_run_id].sha = s.commit_sha
        BY <1>6, <2>3 DEF VerdictInv
      <3> QED BY <1>g, <2>3, <3>1, PassedStays
    <2> QED BY <2>1, <2>2, <2>3
  <1> QED BY <1>1, <1>3, <1>4, <1>5, <1>6 DEF VerdictInv, Row

PRType == [shows : Nat, ci : {"unset", "PASSED", "FAILED", "SKIPPED", "TIMED_OUT"},
           run : Nat \cup {None}, iteration : Nat, validated : BOOLEAN, lost : BOOLEAN]

(* What PullRequestVerified says of one pull request. *)
Verified(pr) ==
  /\ \/ pr.ci = "unset" /\ ~pr.validated
     \/ Row([id |-> pr.run, status |-> pr.ci], pr.iteration) \in rows
  /\ pr.ci = "PASSED" =>
       Passed(pr.run) /\ (pr.validated /\ ~pr.lost => server[pr.run].sha = pr.shows)

PRInv == prs \in Seq(PRType) /\ \A k \in DOMAIN prs : Verified(prs[k])

(* Only create_pull_request opens one. *)
LEMMA OnlyOpening ==
  ASSUME [Next]_vars, ~create_pull_request
  PROVE  prs' = prs
  <1>1. CASE \/ Implement \/ NoTestProject \/ TestsEnd \/ TestsTimeOut \/ Debug
             \/ \E r \in Reports : PrintReport(r)
             \/ \E e \in {0, 1} : CollectKilled(e)
             \/ SecurityPolicy \/ NoFileChanges \/ commit_all \/ Committed
    BY <1>1 DEF Implement, NoTestProject, TestsEnd, TestsTimeOut, Debug, PrintReport, CollectKilled,
       TestsDone, SecurityPolicy, NoFileChanges, commit_all, Committed
  <1>2. CASE CIPush \/ NoopTrigger \/ TriggerFinds \/ TriggerMisses \/ wait \/ record_ci_run
             \/ LeaveCI \/ CIDebug \/ PRPush \/ LeavePR \/ NodeFails \/ SupervisorFails \/ Crash
    BY <1>2 DEF CIPush, NoopTrigger, TriggerFinds, TriggerMisses, wait, record_ci_run, LeaveCI,
       CIDebug, PRPush, LeavePR, NodeFails, SupervisorFails, Crash
  <1>3. CASE Service
    BY <1>3 DEF Service, RegisterRun, RunEnds, RunDeleted
  <1>4. CASE UNCHANGED vars
    BY <1>4 DEF vars
  <1> QED BY <1>1, <1>2, <1>3, <1>4 DEF Next, WorkerStep

(* A pull request shows the head of the branch, which is the commit whose run
   was awaited. *)
LEMMA NextPR ==
  ASSUME Inv, ShaInv, VerdictInv, PRInv, [Next]_vars
  PROVE  PRInv'
  <1>0. ServerGrows /\ rows \subseteq rows'
    BY NextHost, Steps, RowsGrow DEF Inv
  <1>1. ASSUME prs' = prs PROVE PRInv'
    <2>1. \A k \in DOMAIN prs : Verified(prs[k])'
      <3> TAKE k \in DOMAIN prs
      <3>1. Verified(prs[k])
        BY DEF PRInv
      <3> DEFINE pr == prs[k]
      <3>2. pr' = pr
        BY <1>1
      <3>3. Passed(pr.run) => Passed(pr.run)' /\ server'[pr.run].sha = server[pr.run].sha
        BY <1>0, <3>2 DEF ServerGrows, Passed
      <3> QED BY <1>0, <1>1, <3>1, <3>3 DEF Verified, Row
    <2> QED BY <1>1, <2>1 DEF PRInv
  <1>2. ASSUME create_pull_request, prs' # prs PROVE PRInv'
    <2> DEFINE pr == [shows |-> head, ci |-> s.ci_status, run |-> s.ci_run_id,
                      iteration |-> s.ci_iteration, validated |-> validated, lost |-> lost]
    <2>1. node = "pr_open" /\ prs' = Append(prs, pr) /\ rows' = rows /\ server' = server
      BY <1>2 DEF create_pull_request, hosted
    <2>2. /\ s \in SType /\ s.commit_sha # None /\ s.commit_sha \in 1 .. head /\ head \in Nat
          /\ s.ci_status \in Fine
      BY <2>1 DEF Inv, StateInv, Validating, PRNodes, HostInv
    <2>3. ~lost => s.commit_sha = head
      <3>1. head # 0
        BY <2>2
      <3> QED BY <2>1, <3>1 DEF ShaInv
    <2>b. validated \in BOOLEAN /\ lost \in BOOLEAN
      BY DEF Inv, ControlInv
    <2>4. /\ pr \in PRType /\ pr.validated = validated /\ pr.lost = lost
          /\ pr.shows = head /\ pr.ci = s.ci_status /\ pr.run = s.ci_run_id /\ pr.iteration = s.ci_iteration
      BY <2>2, <2>b DEF SType, PRType
    <2> HIDE DEF pr
    <2>5. \/ pr.ci = "unset" /\ ~pr.validated
          \/ Row([id |-> pr.run, status |-> pr.ci], pr.iteration) \in rows
      <3>1. CASE s.ci_status = "unset"
        BY <2>4, <3>1 DEF VerdictInv
      <3>2. CASE s.ci_status \in {"PASSED", "SKIPPED"}
        BY <2>4, <3>2 DEF VerdictInv
      <3> QED BY <2>2, <3>1, <3>2 DEF Fine
    <2>6. ASSUME pr.ci = "PASSED"
          PROVE  Passed(pr.run) /\ (pr.validated /\ ~pr.lost => server[pr.run].sha = pr.shows)
      <3>1. Passed(pr.run)
        BY <2>4, <2>6 DEF VerdictInv
      <3>2. validated /\ ~lost => server[s.ci_run_id].sha = head
        BY <2>1, <2>3, <2>4, <2>6 DEF VerdictInv, PRNodes
      <3> QED BY <2>4, <3>1, <3>2
    <2>7. /\ prs' \in Seq(PRType) /\ DOMAIN prs' = 1 .. Len(prs) + 1 /\ DOMAIN prs = 1 .. Len(prs)
          /\ \A k \in 1 .. Len(prs) : prs'[k] = prs[k]
          /\ prs'[Len(prs) + 1] = pr /\ Len(prs) \in Nat
      BY <2>1, <2>4, AppendProperties, LenProperties DEF PRInv
    <2>8. ASSUME NEW k \in DOMAIN prs'
          PROVE  Verified(prs'[k])
      <3>1. k \in 1 .. Len(prs) \/ k = Len(prs) + 1
        BY <2>7
      <3>2. CASE k \in 1 .. Len(prs)
        BY <2>7, <3>2 DEF PRInv
      <3>3. CASE k = Len(prs) + 1
        BY <2>5, <2>6, <2>7, <3>3 DEF Verified
      <3> QED BY <3>1, <3>2, <3>3
    <2>9. \A k \in DOMAIN prs' : Verified(prs[k])'
      BY <2>1, <2>8 DEF Verified, Passed, Row
    <2> QED BY <2>7, <2>9 DEF PRInv
  <1> QED BY <1>1, <1>2, OnlyOpening

(* A pull request tells a verdict that ci_runs holds, or none when ci_validation
   raised; one that says CI passed is of a run that concluded without failure
   and shows its commit, unless the last ci_validation raised or the sha of the
   last commit was lost: for any number of runs, workflows, polls, raising nodes
   and crashes. *)
THEOREM VerifiedPullRequest == Spec => []PullRequestVerified
  <1>1. Init => ShaInv /\ VerdictInv /\ PRInv
    <2> SUFFICES ASSUME Init PROVE ShaInv /\ VerdictInv /\ PRInv
      OBVIOUS
    <2>1. <<>> \in Seq(PRType) /\ DOMAIN <<>> = {}
      BY EmptySeq
    <2>2. s.ci_status = "unset" /\ ~validated
      BY DEF Init
    <2>3. VerdictInv
      BY <2>2 DEF Init, VerdictInv, PRNodes
    <2>4. ShaInv /\ PRInv
      BY <2>1 DEF Init, ShaInv, PRInv
    <2> QED BY <2>3, <2>4
  <1>2. Inv /\ ShaInv /\ VerdictInv /\ PRInv /\ [Next]_vars => ShaInv' /\ VerdictInv' /\ PRInv'
    BY NextSha, NextVerdict, NextPR
  <1>3. PRInv => PullRequestVerified
    BY DEF PRInv, Verified, Passed, PullRequestVerified
  <1> QED BY <1>1, <1>2, <1>3, Always, PTL DEF Spec

=============================================================================
