--------------------------- MODULE WorkflowProofs ---------------------------
(***************************************************************************)
(* Proofs about Workflow, for every value of its constants: every budget,  *)
(* every recursion limit, every set of nodes that may raise and any number *)
(* of crashes and redeliveries.                                            *)
(***************************************************************************)
EXTENDS Workflow, TLAPS

-----------------------------------------------------------------------------
(* What the model is built from *)

(* The counters of an AgentState. *)
LEMMA Counters ==
  ASSUME NEW s \in AgentState
  PROVE  /\ s.iteration \in Nat /\ s.ci_iteration \in Nat
         /\ s.commit_sha \in Nat /\ s.modified_files \in Nat
  BY DEF AgentState

(* Counting an iteration, or recording a commit, keeps the type. *)
LEMMA CountersType ==
  ASSUME NEW s \in AgentState, NEW k \in Nat, NEW h \in BOOLEAN
  PROVE  /\ [s EXCEPT !.iteration = k] \in AgentState
         /\ [s EXCEPT !.ci_iteration = k, !.ci_requires_human = h] \in AgentState
         /\ [s EXCEPT !.commit_sha = k] \in AgentState
  BY DEF AgentState

(* Each routing function sends a state to a node of the graph. *)
LEMMA RoutingType ==
  ASSUME NEW n \in NodeNames, NEW s
  PROVE  NextNode(n, s) \in NodeNames \cup {"END"}
  BY DEF NextNode, after_risk, after_tests, after_policy, after_commit, after_ci, NodeNames

(* Only run_tests leads to debugging, only ci_validation to ci_debugging, and
   only while the budget is not used up. *)
LEMMA RoutingPays ==
  ASSUME NEW n \in NodeNames, NEW s \in AgentState
  PROVE  /\ NextNode(n, s) = "debugging" => n = "run_tests" /\ s.iteration < MaxIterations
         /\ NextNode(n, s) = "ci_debugging"
              => n = "ci_validation" /\ s.ci_iteration < MaxCIIterations
  <1>1. after_tests(s) = "debugging" => s.iteration < MaxIterations
    BY Counters, ConstantsAssumption DEF after_tests
  <1>2. after_ci(s) = "ci_debugging"
          => s.ci_status \in {"FAILED", "TIMED_OUT"} /\ ~(s.ci_iteration >= MaxCIIterations)
    <2>1. s.ci_status \in {"unset", "PASSED", "SKIPPED", "FAILED", "TIMED_OUT"}
      BY DEF AgentState, CIOutcomes
    <2> QED BY <2>1 DEF after_ci
  <1>3. after_ci(s) = "ci_debugging" => s.ci_iteration < MaxCIIterations
    BY <1>2, Counters, ConstantsAssumption
  <1>4. /\ NextNode(n, s) = "debugging" => n = "run_tests"
        /\ NextNode(n, s) = "ci_debugging" => n = "ci_validation"
    BY DEF NextNode, after_risk, after_tests, after_policy, after_commit, after_ci, NodeNames
  <1>5. NextNode("run_tests", s) = after_tests(s) /\ NextNode("ci_validation", s) = after_ci(s)
    BY DEF NextNode
  <1> QED BY <1>1, <1>3, <1>4, <1>5

(* The status a node writes is a status. *)
LEMMA StatusType == \A n \in NodeNames : NODE_STATUS[n] \in Statuses
  BY DEF NODE_STATUS, NodeNames, Statuses, TerminalStatuses

(* The status a finished run writes is a status. *)
LEMMA FinalStatusType == \A s : FinalStatus(s) \in Statuses
  BY DEF FinalStatus, Statuses, TerminalStatuses

(* The file counts an agent may leave behind are numbers. *)
LEMMA FilesType == Files \subseteq Nat
  BY ConstantsAssumption DEF Files

(* What an agent writes leaves a worktree. *)
LEMMA AgentWritesType ==
  ASSUME NEW w \in WorkTree, checkout \in BOOLEAN, AgentWrites(w)
  PROVE  wt' \in WorkTree /\ checkout' \in BOOLEAN
  BY FilesType DEF AgentWrites, WorkTree

(* Refreshing the diff changes modified_files only. *)
LEMMA RefreshDiffType ==
  ASSUME NEW s \in AgentState, NEW w \in WorkTree
  PROVE  /\ RefreshDiff(s, w) \in AgentState
         /\ RefreshDiff(s, w).iteration = s.iteration
         /\ RefreshDiff(s, w).ci_iteration = s.ci_iteration
         /\ RefreshDiff(s, w).commit_sha = s.commit_sha
         /\ RefreshDiff(s, w).workspace_path = s.workspace_path
         /\ RefreshDiff(s, w).policy_action = s.policy_action
         /\ RefreshDiff(s, w).test_run_ok = s.test_run_ok
  BY DEF RefreshDiff, AgentState, WorkTree

(* The worktree an implementation run starts from. *)
LEMMA CreateWorkspaceType ==
  ASSUME NEW w, wt \in WorkTree, head \in Branch, CreateWorkspace(w)
  PROVE  w \in WorkTree /\ w.active /\ head' \in Branch
  <1>1. FreshWorkTree \in WorkTree /\ FreshWorkTree.active
    BY DEF FreshWorkTree, WorkTree
  <1>2. FreshBranch \in Branch
    BY DEF FreshBranch, Branch
  <1>3. CASE wt.active
    BY <1>3 DEF CreateWorkspace
  <1>4. CASE ~wt.active
    BY <1>1, <1>2, <1>4 DEF CreateWorkspace
  <1> QED BY <1>3, <1>4

(* A commit extends the branch. *)
LEMMA CommitAllType ==
  ASSUME wt \in WorkTree, head \in Branch, CommitAll
  PROVE  wt' \in WorkTree /\ head' \in Branch /\ head'.n = head.n + 1
  <1>1. wt' \in WorkTree
    BY DEF CommitAll, WorkTree
  <1> DEFINE tested == head.tested /\ wt.tested
             gated == head.gated /\ wt.gated
  <1>2. head.n \in Nat
    BY DEF Branch
  <1>3. head' \in Branch
    <2>1. head' = [n |-> head.n + 1, tested |-> tested, gated |-> gated, ci |-> "unset"]
      BY DEF CommitAll
    <2>2. head.n + 1 \in Nat
      BY <1>2
    <2>3. tested \in BOOLEAN /\ gated \in BOOLEAN
      OBVIOUS
    <2>4. "unset" \in {"unset"} \cup CIOutcomes
      OBVIOUS
    <2> HIDE DEF tested, gated
    <2> QED BY <2>1, <2>2, <2>3, <2>4 DEF Branch
  <1>4. head'.n = head.n + 1
    BY DEF CommitAll
  <1> QED BY <1>1, <1>3, <1>4

-----------------------------------------------------------------------------
(* Type correctness *)

(* A node that runs or saves is a node of the graph. *)
AtNode == phase \in {"run", "save"} => node \in NodeNames

TypeInv == TypeOK /\ AtNode

(* Whatever an exception leaves behind is well typed. *)
LEMMA PartialEffectsType ==
  ASSUME TypeOK, NEW n \in NodeNames, PartialEffects(n)
  PROVE  /\ wt' \in WorkTree /\ head' \in Branch /\ pr' \in Nat \cup {NoPR}
         /\ approval' \in BOOLEAN /\ checkout' \in BOOLEAN
  <1> USE DEF TypeOK
  <1>1. CASE n = "implementation"
    <2>1. PICK w : \/ UNCHANGED <<wt, head, checkout>>
                   \/ CreateWorkspace(w) /\ AgentWrites(w)
      BY <1>1 DEF PartialEffects
    <2>2. UNCHANGED <<pr, approval>>
      BY <1>1 DEF PartialEffects
    <2>3. CASE UNCHANGED <<wt, head, checkout>>
      BY <2>2, <2>3
    <2>4. CASE CreateWorkspace(w) /\ AgentWrites(w)
      BY <2>2, <2>4, CreateWorkspaceType, AgentWritesType
    <2> QED BY <2>1, <2>3, <2>4
  <1>2. CASE n \in {"test_generation", "debugging", "ci_debugging"}
    BY <1>2, AgentWritesType DEF PartialEffects
  <1>3. CASE n = "git_commit"
    <2>1. UNCHANGED <<wt, head>> \/ CommitAll
      BY <1>3 DEF PartialEffects
    <2>2. UNCHANGED <<pr, approval, checkout>>
      BY <1>3 DEF PartialEffects
    <2> QED BY <2>1, <2>2, CommitAllType
  <1>4. CASE n = "create_pr"
    <2>1. head.n \in Nat
      BY DEF Branch
    <2> QED BY <1>4, <2>1 DEF PartialEffects
  <1>5. CASE n = "human_review"
    BY <1>5 DEF PartialEffects
  <1>6. CASE n \notin {"implementation", "test_generation", "debugging", "ci_debugging",
                       "git_commit", "create_pr", "human_review"}
    <2>1. UNCHANGED <<wt, head, pr, approval, checkout>>
      BY <1>6 DEF PartialEffects
    <2> QED BY <2>1
  <1> QED BY <1>1, <1>2, <1>3, <1>4, <1>5, <1>6

(* The state a run starts from is an AgentState. *)
LEMMA InitialStateType == initial_state \in AgentState
  BY DEF initial_state, AgentState, Sigs

(* Ending a run keeps every type but the row's, which the caller writes. *)
LEMMA EndRunType ==
  ASSUME TypeInv, NEW alive \in BOOLEAN, EndRun(alive), row' \in [status : Statuses, state : AgentState]
  PROVE  TypeInv'
  <1>1. wt' \in WorkTree
    BY DEF EndRun, TypeInv, TypeOK, WorkTree
  <1> QED BY <1>1, InitialStateType DEF EndRun, TypeInv, TypeOK, AtNode, NodeNames

(* The type invariant is inductive. *)
LEMMA TypeInvariance == Spec => []TypeInv
  <1>1. Init => TypeInv
    <2> SUFFICES ASSUME Init PROVE TypeInv
      OBVIOUS
    <2>1. wt \in WorkTree
      BY DEF Init, WorkTree, NoWorkTree
    <2>2. head \in Branch
      BY DEF Init, Branch, FreshBranch
    <2>3. row \in [status : Statuses, state : AgentState]
      BY InitialStateType DEF Init, Statuses
    <2> QED BY <2>1, <2>2, <2>3, InitialStateType
            DEF Init, TypeInv, TypeOK, AtNode, NodeNames, NoPR
  <1>2. TypeInv /\ [Next]_vars => TypeInv'
    <2> SUFFICES ASSUME TypeInv, [Next]_vars PROVE TypeInv'
      OBVIOUS
    <2> USE DEF TypeInv, TypeOK, AtNode
    <2>r. row.state \in AgentState /\ row.status \in Statuses
      OBVIOUS
    <2>a. CASE Begin
      <3>1. wt' \in WorkTree
        <4>1. PICK a \in BOOLEAN : wt' = [wt EXCEPT !.active = a]
          BY <2>a DEF Begin, AdoptWorkspace
        <4> QED BY <4>1 DEF WorkTree
      <3>2. runs' \in Nat /\ steps' \in Nat
        BY <2>a DEF Begin
      <3>3. node' \in NodeNames /\ phase' = "enter"
        BY <2>a DEF Begin, NodeNames
      <3>4. st' \in AgentState /\ input' \in AgentState
        BY <2>a, <2>r DEF Begin
      <3>5. UNCHANGED <<row, head, pr, approval, checkout>>
        BY <2>a DEF Begin
      <3> QED BY <3>1, <3>2, <3>3, <3>4, <3>5
    <2>b. CASE BadRepositoryPath
      BY <2>b DEF BadRepositoryPath, Statuses, TerminalStatuses
    <2>c. CASE EnterNode
      <3>1. node \in NodeNames
        BY <2>c DEF EnterNode
      <3> QED BY <2>c, <3>1, StatusType DEF EnterNode
    <2>d. CASE SaveNode
      <3>1. node \in NodeNames
        BY <2>d DEF SaveNode
      <3>2. NextNode(node, st) \in NodeNames \cup {"END"}
        BY <3>1, RoutingType
      <3> QED BY <2>d, <3>1, <3>2, StatusType DEF SaveNode
    <2>e. CASE Finalize
      BY <2>e, FinalStatusType, EndRunType DEF Finalize
    <2>f. CASE RecursionLimitReached
      <3>1. [input EXCEPT !.outcome = "HUMAN_REVIEW_REQUIRED", !.halt_reason = TRUE] \in AgentState
        BY DEF AgentState
      <3> QED BY <2>f, <3>1, EndRunType DEF RecursionLimitReached, Statuses, TerminalStatuses
    <2>g. CASE CheckpointFails
      BY <2>g, EndRunType DEF CheckpointFails, Statuses, TerminalStatuses
    <2>h. CASE Crash
      BY <2>h, EndRunType DEF Crash
    <2>i. CASE Terminated \/ UNCHANGED vars
      BY <2>i DEF Terminated, vars
    <2>j. CASE NodeStep
      <3>r. ASSUME NEW s \in AgentState, Returns(s), phase = "run",
                   wt' \in WorkTree, head' \in Branch, pr' \in Nat \cup {NoPR},
                   approval' \in BOOLEAN, checkout' \in BOOLEAN
            PROVE  TypeInv'
        BY <3>r DEF Returns
      <3>1. CASE plan \/ repository_analysis \/ halt
        <4>1. [st EXCEPT !.outcome = "HUMAN_REVIEW_REQUIRED", !.halt_reason = TRUE] \in AgentState
          BY DEF AgentState
        <4> QED BY <3>1, <3>r, <4>1 DEF plan, repository_analysis, halt, Runs
      <3>2. CASE risk_assessment
        <4>1. PICK a \in {"ALLOW", "BLOCK"} :
                Returns([st EXCEPT !.policy_action = a, !.halt_reason = @ \/ a = "BLOCK"])
          BY <3>2 DEF risk_assessment
        <4>2. [st EXCEPT !.policy_action = a, !.halt_reason = @ \/ a = "BLOCK"] \in AgentState
          BY DEF AgentState
        <4> QED BY <3>2, <3>r, <4>1, <4>2 DEF risk_assessment, Runs
      <3>3. CASE implementation
        <4>1. PICK w : CreateWorkspace(w) /\ AgentWrites(w)
          BY <3>3 DEF implementation
        <4>2. wt' \in WorkTree /\ checkout' \in BOOLEAN /\ head' \in Branch
          BY <4>1, CreateWorkspaceType, AgentWritesType
        <4>3. RefreshDiff(st, wt') \in AgentState
          BY <4>2, RefreshDiffType
        <4>4. [RefreshDiff(st, wt') EXCEPT !.workspace_path = TRUE] \in AgentState
          BY <4>3 DEF AgentState
        <4> QED BY <3>3, <3>r, <4>2, <4>4 DEF implementation, Runs
      <3>4. CASE test_generation
        <4>1. wt' \in WorkTree /\ checkout' \in BOOLEAN
          BY <3>4, AgentWritesType DEF test_generation
        <4>2. RefreshDiff(st, wt') \in AgentState
          BY <4>1, RefreshDiffType
        <4> QED BY <3>4, <3>r, <4>1, <4>2 DEF test_generation, Runs
      <3>5. CASE run_tests
        <4>1. wt' \in WorkTree
          BY <3>5 DEF run_tests, WorkTree
        <4>2. CASE Returns([st EXCEPT !.test_run_ok = TRUE])
          <5>1. [st EXCEPT !.test_run_ok = TRUE] \in AgentState
            BY DEF AgentState
          <5> QED BY <3>5, <3>r, <4>1, <4>2, <5>1 DEF run_tests, Runs
        <4>3. CASE \E ok \in BOOLEAN, sig \in Sigs :
                     Returns(RefreshDiff([st EXCEPT !.test_run_ok = ok,
                                                    !.prev_signatures = st.last_signatures,
                                                    !.last_signatures = sig], wt))
          <5>1. PICK ok \in BOOLEAN, sig \in Sigs :
                     Returns(RefreshDiff([st EXCEPT !.test_run_ok = ok,
                                                    !.prev_signatures = st.last_signatures,
                                                    !.last_signatures = sig], wt))
            BY <4>3
          <5>2. [st EXCEPT !.test_run_ok = ok, !.prev_signatures = st.last_signatures,
                           !.last_signatures = sig] \in AgentState
            BY DEF AgentState
          <5>3. RefreshDiff([st EXCEPT !.test_run_ok = ok,
                                       !.prev_signatures = st.last_signatures,
                                       !.last_signatures = sig], wt) \in AgentState
            BY <5>2, RefreshDiffType
          <5> QED BY <3>5, <3>r, <4>1, <5>1, <5>3 DEF run_tests, Runs
        <4> QED BY <3>5, <4>2, <4>3 DEF run_tests
      <3>6. CASE debugging
        <4>1. wt' \in WorkTree /\ checkout' \in BOOLEAN
          BY <3>6, AgentWritesType DEF debugging
        <4>2. [st EXCEPT !.iteration = @ + 1] \in AgentState
          <5>1. st.iteration + 1 \in Nat
            BY Counters
          <5> QED BY <5>1, CountersType
        <4>3. RefreshDiff([st EXCEPT !.iteration = @ + 1], wt') \in AgentState
          BY <4>1, <4>2, RefreshDiffType
        <4> QED BY <3>6, <3>r, <4>1, <4>3 DEF debugging, Runs
      <3>7. CASE security_policy
        <4>1. PICK a \in {"ALLOW", "BLOCK"} :
                /\ Returns([RefreshDiff(st, wt) EXCEPT !.policy_action = a,
                                                       !.halt_reason = @ \/ a = "BLOCK"])
                /\ wt' = [wt EXCEPT !.gated = wt.active /\ a = "ALLOW"]
          BY <3>7 DEF security_policy
        <4>2. wt' \in WorkTree
          BY <4>1 DEF WorkTree
        <4>3. RefreshDiff(st, wt) \in AgentState
          BY RefreshDiffType
        <4>4. [RefreshDiff(st, wt) EXCEPT !.policy_action = a,
                                          !.halt_reason = @ \/ a = "BLOCK"] \in AgentState
          BY <4>3, ZenonT(40) DEF AgentState
        <4> QED BY <3>7, <3>r, <4>1, <4>2, <4>4 DEF security_policy, Runs
      <3>8. CASE git_commit
        <4>1. [st EXCEPT !.halt_reason = TRUE, !.policy_action = "BLOCK"] \in AgentState
          BY DEF AgentState
        <4>2. [st EXCEPT !.halt_reason = TRUE] \in AgentState
          BY DEF AgentState
        <4>3. CASE /\ UNCHANGED <<wt, head>>
                   /\ \/ Returns([st EXCEPT !.halt_reason = TRUE, !.policy_action = "BLOCK"])
                      \/ Returns([st EXCEPT !.halt_reason = TRUE])
          <5>1. UNCHANGED <<pr, approval, checkout>> /\ phase = "run"
            BY <3>8 DEF git_commit, Runs
          <5> QED BY <3>r, <4>1, <4>2, <4>3, <5>1
        <4>4. CASE CommitAll /\ Returns([st EXCEPT !.commit_sha = head'.n])
          <5>1. wt' \in WorkTree /\ head' \in Branch
            BY <4>4, CommitAllType
          <5>2. head'.n \in Nat
            BY <5>1 DEF Branch
          <5>3. [st EXCEPT !.commit_sha = head'.n] \in AgentState
            BY <5>2, CountersType
          <5> QED BY <3>8, <3>r, <4>4, <5>1, <5>3 DEF git_commit, Runs
        <4> QED BY <3>8, <4>3, <4>4 DEF git_commit
      <3>9. CASE ci_validation
        <4>1. PICK c \in CIOutcomes :
                /\ Returns([st EXCEPT !.ci_status = c])
                /\ head' = IF st.commit_sha = head.n THEN [head EXCEPT !.ci = c] ELSE head
          BY <3>9 DEF ci_validation
        <4>2. [st EXCEPT !.ci_status = c] \in AgentState
          BY DEF AgentState
        <4>3. head' \in Branch
          BY <4>1 DEF Branch
        <4> QED BY <3>9, <3>r, <4>1, <4>2, <4>3 DEF ci_validation, Runs
      <3>10. CASE ci_debugging
        <4>1. wt' \in WorkTree /\ checkout' \in BOOLEAN
          BY <3>10, AgentWritesType DEF ci_debugging
        <4>2. PICK h \in BOOLEAN :
                Returns(RefreshDiff([st EXCEPT !.ci_iteration = @ + 1,
                                               !.ci_requires_human = h], wt'))
          BY <3>10 DEF ci_debugging
        <4>3. [st EXCEPT !.ci_iteration = @ + 1, !.ci_requires_human = h] \in AgentState
          <5>1. st.ci_iteration + 1 \in Nat
            BY Counters
          <5> QED BY <5>1, CountersType
        <4>4. RefreshDiff([st EXCEPT !.ci_iteration = @ + 1,
                                     !.ci_requires_human = h], wt') \in AgentState
          BY <4>1, <4>3, RefreshDiffType
        <4> QED BY <3>10, <3>r, <4>1, <4>2, <4>4 DEF ci_debugging, Runs
      <3>11. CASE create_pr
        <4>1. head.n \in Nat
          BY DEF Branch
        <4> QED BY <3>11, <3>r, <4>1 DEF create_pr, Runs
      <3>12. CASE human_review
        <4>1. [st EXCEPT !.outcome = "READY_FOR_REVIEW"] \in AgentState
          BY DEF AgentState
        <4> QED BY <3>12, <3>r, <4>1 DEF human_review, Runs
      <3>13. CASE NodeViolates
        <4>1. /\ wt' \in WorkTree /\ head' \in Branch /\ pr' \in Nat \cup {NoPR}
              /\ approval' \in BOOLEAN /\ checkout' \in BOOLEAN
          BY <3>13, PartialEffectsType DEF NodeViolates
        <4>2. [st EXCEPT !.policy_action = "BLOCK", !.halt_reason = TRUE] \in AgentState
          BY DEF AgentState
        <4> QED BY <3>13, <3>r, <4>1, <4>2 DEF NodeViolates
      <3>14. CASE NodeFails
        <4>1. /\ wt' \in WorkTree /\ head' \in Branch /\ pr' \in Nat \cup {NoPR}
              /\ approval' \in BOOLEAN /\ checkout' \in BOOLEAN
          BY <3>14, PartialEffectsType DEF NodeFails
        <4>2. [st EXCEPT !.halt_reason = TRUE] \in AgentState
          BY DEF AgentState
        <4> QED BY <3>14, <3>r, <4>1, <4>2 DEF NodeFails
      <3> QED BY <2>j, <3>1, <3>2, <3>3, <3>4, <3>5, <3>6, <3>7, <3>8, <3>9, <3>10,
                 <3>11, <3>12, <3>13, <3>14 DEF NodeStep
    <2> QED BY <2>a, <2>b, <2>c, <2>d, <2>e, <2>f, <2>g, <2>h, <2>i, <2>j DEF Next, WorkerStep
  <1> QED BY <1>1, <1>2, PTL DEF Spec

(* Type correctness of the workflow; in particular ci_status only ever holds
   the verdict of a finished CI run. *)
THEOREM TypeCorrect == Spec => []TypeOK
  <1>1. TypeInv => TypeOK
    BY DEF TypeInv
  <1> QED BY <1>1, TypeInvariance, PTL

-----------------------------------------------------------------------------
(* The budgets and the length of a run *)

(* The nodes that pay are entered with budget left. *)
BudgetInv ==
  /\ BudgetsRespected
  /\ phase \in {"enter", "run"} /\ node = "debugging" => st.iteration < MaxIterations
  /\ phase \in {"enter", "run"} /\ node = "ci_debugging" => st.ci_iteration < MaxCIIterations

(* Supersteps on the way to node n in a run that never looped. *)
Distance(n) ==
  CASE n = "plan" -> 0 [] n = "repository_analysis" -> 1 [] n = "risk_assessment" -> 2
    [] n = "implementation" -> 3 [] n = "test_generation" -> 4 [] n = "run_tests" -> 5
    [] n = "debugging" -> 6 [] n = "security_policy" -> 6 [] n = "git_commit" -> 7
    [] n = "ci_validation" -> 8 [] n = "ci_debugging" -> 9 [] n = "create_pr" -> 9
    [] n = "human_review" -> 10 [] n = "halt" -> 9 [] OTHER -> 11

(* The same once node n has run: the looping nodes have paid for the loop. *)
Covered(n) ==
  CASE n = "debugging" -> 5 [] n = "ci_debugging" -> 5 [] OTHER -> Distance(n) + 1

LoopsPay == ~Unreliable("debugging") /\ ~Unreliable("ci_debugging")

(* A debugging loop costs two supersteps, a CI loop five. *)
StepInv ==
  LoopsPay =>
    /\ phase = "idle" => steps = 0
    /\ phase = "enter" => steps <= Distance(node) + 2 * st.iteration + 5 * st.ci_iteration
    /\ phase = "run" => steps <= Distance(node) + 1 + 2 * st.iteration + 5 * st.ci_iteration
    /\ phase = "save" => steps <= Covered(node) + 2 * st.iteration + 5 * st.ci_iteration

(* A node function touches the counters only where it pays for a loop, and the
   two paying nodes pay unless they raise. *)
LEMMA NodeStepCounters ==
  ASSUME TypeInv, NodeStep
  PROVE  /\ phase = "run" /\ phase' = "save" /\ UNCHANGED <<node, steps, input, row, runs>>
         /\ \/ st'.iteration = st.iteration /\ (node = "debugging" => Unreliable("debugging"))
            \/ st'.iteration = st.iteration + 1 /\ node = "debugging"
         /\ \/ /\ st'.ci_iteration = st.ci_iteration
               /\ node = "ci_debugging" => Unreliable("ci_debugging")
            \/ st'.ci_iteration = st.ci_iteration + 1 /\ node = "ci_debugging"
  <1> DEFINE Same(s) == s.iteration = st.iteration /\ s.ci_iteration = st.ci_iteration
  <1>0. /\ st \in AgentState /\ wt \in WorkTree /\ head \in Branch
        /\ checkout \in BOOLEAN /\ node \in NodeNames \cup {"END"}
    BY DEF TypeInv, TypeOK
  <1>s. ASSUME NEW s, Returns(s), phase = "run", Same(s),
               node \in {"debugging", "ci_debugging"} => Unreliable(node)
        PROVE  /\ phase = "run" /\ phase' = "save" /\ UNCHANGED <<node, steps, input, row, runs>>
               /\ st'.iteration = st.iteration /\ st'.ci_iteration = st.ci_iteration
               /\ node = "debugging" => Unreliable("debugging")
               /\ node = "ci_debugging" => Unreliable("ci_debugging")
    BY <1>s DEF Returns
  <1>1. CASE plan \/ repository_analysis \/ halt \/ create_pr \/ human_review
    <2>1. /\ Same(st)
          /\ Same([st EXCEPT !.outcome = "HUMAN_REVIEW_REQUIRED", !.halt_reason = TRUE])
          /\ Same([st EXCEPT !.outcome = "READY_FOR_REVIEW"])
      BY <1>0 DEF AgentState
    <2> HIDE DEF Same
    <2> QED BY <1>1, <1>s, <2>1
            DEF plan, repository_analysis, halt, create_pr, human_review, Runs
  <1>2. CASE risk_assessment
    <2>1. \A a, b : Same([st EXCEPT !.policy_action = a, !.halt_reason = b])
      BY <1>0 DEF AgentState
    <2> HIDE DEF Same
    <2> QED BY <1>2, <1>s, <2>1 DEF risk_assessment, Runs
  <1>3. CASE implementation
    <2>1. wt' \in WorkTree
      BY <1>3, <1>0, CreateWorkspaceType, AgentWritesType DEF implementation
    <2>2. RefreshDiff(st, wt') \in AgentState /\ Same(RefreshDiff(st, wt'))
      BY <1>0, <2>1, RefreshDiffType
    <2>3. Same([RefreshDiff(st, wt') EXCEPT !.workspace_path = TRUE])
      BY <2>2 DEF AgentState
    <2> HIDE DEF Same
    <2> QED BY <1>3, <1>s, <2>3 DEF implementation, Runs
  <1>4. CASE test_generation
    <2>1. wt' \in WorkTree
      BY <1>4, <1>0, AgentWritesType DEF test_generation
    <2>2. Same(RefreshDiff(st, wt'))
      BY <1>0, <2>1, RefreshDiffType
    <2> HIDE DEF Same
    <2> QED BY <1>4, <1>s, <2>2 DEF test_generation, Runs
  <1>5. CASE run_tests
    <2>1. Same([st EXCEPT !.test_run_ok = TRUE])
      BY <1>0 DEF AgentState
    <2>2. ASSUME NEW ok \in BOOLEAN, NEW sig \in Sigs
          PROVE  Same(RefreshDiff([st EXCEPT !.test_run_ok = ok,
                                             !.prev_signatures = st.last_signatures,
                                             !.last_signatures = sig], wt))
      <3> DEFINE u == [st EXCEPT !.test_run_ok = ok, !.prev_signatures = st.last_signatures,
                                 !.last_signatures = sig]
      <3>1. u \in AgentState /\ Same(u)
        BY <1>0 DEF AgentState
      <3> HIDE DEF u
      <3>2. Same(RefreshDiff(u, wt))
        BY <1>0, <3>1, RefreshDiffType
      <3> QED BY <3>2 DEF u
    <2> HIDE DEF Same
    <2> QED BY <1>5, <1>s, <2>1, <2>2 DEF run_tests, Runs
  <1>6. CASE debugging
    <2> DEFINE u == [st EXCEPT !.iteration = @ + 1]
    <2>1. wt' \in WorkTree
      BY <1>6, <1>0, AgentWritesType DEF debugging
    <2>2. st.iteration + 1 \in Nat
      BY <1>0, Counters
    <2>3. u \in AgentState
      BY <1>0, <2>2, CountersType
    <2>4. u.iteration = st.iteration + 1 /\ u.ci_iteration = st.ci_iteration
      BY <1>0 DEF AgentState
    <2> HIDE DEF u
    <2>5. /\ RefreshDiff(u, wt').iteration = st.iteration + 1
          /\ RefreshDiff(u, wt').ci_iteration = st.ci_iteration
      BY <2>1, <2>3, <2>4, RefreshDiffType
    <2>6. Returns(RefreshDiff(u, wt')) /\ Runs("debugging")
      BY <1>6 DEF debugging, u
    <2> QED BY <2>5, <2>6 DEF Returns, Runs
  <1>7. CASE security_policy
    <2>1. RefreshDiff(st, wt) \in AgentState /\ Same(RefreshDiff(st, wt))
      BY <1>0, RefreshDiffType
    <2>2. \A a, b : Same([RefreshDiff(st, wt) EXCEPT !.policy_action = a, !.halt_reason = b])
      BY <2>1 DEF AgentState
    <2> HIDE DEF Same
    <2> QED BY <1>7, <1>s, <2>2 DEF security_policy, Runs
  <1>8. CASE git_commit
    <2>1. /\ Same([st EXCEPT !.halt_reason = TRUE, !.policy_action = "BLOCK"])
          /\ Same([st EXCEPT !.halt_reason = TRUE])
          /\ Same([st EXCEPT !.commit_sha = head'.n])
      BY <1>0 DEF AgentState
    <2> HIDE DEF Same
    <2> QED BY <1>8, <1>s, <2>1 DEF git_commit, Runs
  <1>9. CASE ci_validation
    <2>1. \A c : Same([st EXCEPT !.ci_status = c])
      BY <1>0 DEF AgentState
    <2> HIDE DEF Same
    <2> QED BY <1>9, <1>s, <2>1 DEF ci_validation, Runs
  <1>10. CASE ci_debugging
    <2>1. wt' \in WorkTree
      BY <1>10, <1>0, AgentWritesType DEF ci_debugging
    <2>2. PICK h \in BOOLEAN :
            Returns(RefreshDiff([st EXCEPT !.ci_iteration = @ + 1,
                                           !.ci_requires_human = h], wt'))
      BY <1>10 DEF ci_debugging
    <2> DEFINE u == [st EXCEPT !.ci_iteration = @ + 1, !.ci_requires_human = h]
    <2>3. st.ci_iteration + 1 \in Nat
      BY <1>0, Counters
    <2>4. u \in AgentState
      BY <1>0, <2>3, CountersType
    <2>5. u.ci_iteration = st.ci_iteration + 1 /\ u.iteration = st.iteration
      BY <1>0 DEF AgentState
    <2>6. Returns(RefreshDiff(u, wt')) /\ Runs("ci_debugging")
      BY <1>10, <2>2 DEF ci_debugging
    <2> HIDE DEF u
    <2>7. /\ RefreshDiff(u, wt').ci_iteration = st.ci_iteration + 1
          /\ RefreshDiff(u, wt').iteration = st.iteration
      BY <2>1, <2>4, <2>5, RefreshDiffType
    <2> QED BY <2>6, <2>7 DEF Returns, Runs
  <1>11. CASE NodeViolates
    <2>1. Same([st EXCEPT !.policy_action = "BLOCK", !.halt_reason = TRUE])
      BY <1>0 DEF AgentState
    <2>2. node \in {"debugging", "ci_debugging"} => Unreliable(node)
      BY <1>11 DEF NodeViolates, NeedsWorkspace, Unreliable
    <2> HIDE DEF Same
    <2> QED BY <1>11, <1>s, <2>1, <2>2 DEF NodeViolates
  <1>12. CASE NodeFails
    <2>1. Same([st EXCEPT !.halt_reason = TRUE])
      BY <1>0 DEF AgentState
    <2>2. node \in {"debugging", "ci_debugging"} => Unreliable(node)
      BY <1>12 DEF NodeFails, Unreliable
    <2> HIDE DEF Same
    <2> QED BY <1>12, <1>s, <2>1, <2>2 DEF NodeFails
  <1> QED BY <1>1, <1>2, <1>3, <1>4, <1>5, <1>6, <1>7, <1>8, <1>9, <1>10, <1>11, <1>12
          DEF NodeStep

(* The distances, one by one. *)
LEMMA Distances ==
  /\ Distance("plan") = 0 /\ Distance("repository_analysis") = 1
  /\ Distance("risk_assessment") = 2 /\ Distance("implementation") = 3
  /\ Distance("test_generation") = 4 /\ Distance("run_tests") = 5
  /\ Distance("debugging") = 6 /\ Distance("security_policy") = 6
  /\ Distance("git_commit") = 7 /\ Distance("ci_validation") = 8
  /\ Distance("ci_debugging") = 9 /\ Distance("create_pr") = 9
  /\ Distance("human_review") = 10 /\ Distance("halt") = 9 /\ Distance("END") = 11
  BY DEF Distance

(* Running a node takes one superstep, which a looping node has paid for. *)
LEMMA Covering ==
  /\ Covered("debugging") = 5 /\ Covered("ci_debugging") = 5
  /\ \A n \in NodeNames \ {"debugging", "ci_debugging"} : Covered(n) = Distance(n) + 1
  BY DEF Covered

(* No edge of the graph leads to a node that is nearer than one superstep. *)
LEMMA RoutingDistance ==
  ASSUME NEW n \in NodeNames, NEW s
  PROVE  Covered(n) <= Distance(NextNode(n, s))
  <1>1. \/ n = "plan" /\ NextNode(n, s) = "repository_analysis"
        \/ n = "repository_analysis" /\ NextNode(n, s) = "risk_assessment"
        \/ n = "risk_assessment" /\ NextNode(n, s) \in {"halt", "implementation"}
        \/ n = "implementation" /\ NextNode(n, s) = "test_generation"
        \/ n = "test_generation" /\ NextNode(n, s) = "run_tests"
        \/ n = "run_tests" /\ NextNode(n, s) \in {"security_policy", "halt", "debugging"}
        \/ n = "debugging" /\ NextNode(n, s) = "run_tests"
        \/ n = "security_policy" /\ NextNode(n, s) \in {"halt", "git_commit"}
        \/ n = "git_commit" /\ NextNode(n, s) \in {"halt", "ci_validation"}
        \/ n = "ci_validation" /\ NextNode(n, s) \in {"create_pr", "halt", "ci_debugging"}
        \/ n = "ci_debugging" /\ NextNode(n, s) = "run_tests"
        \/ n = "create_pr" /\ NextNode(n, s) = "human_review"
        \/ n = "human_review" /\ NextNode(n, s) = "END"
        \/ n = "halt" /\ NextNode(n, s) = "END"
    BY DEF NextNode, after_risk, after_tests, after_policy, after_commit, after_ci, NodeNames
  <1>2. /\ Covered("plan") = 1 /\ Covered("repository_analysis") = 2
        /\ Covered("risk_assessment") = 3 /\ Covered("implementation") = 4
        /\ Covered("test_generation") = 5 /\ Covered("run_tests") = 6
        /\ Covered("security_policy") = 7 /\ Covered("git_commit") = 8
        /\ Covered("ci_validation") = 9 /\ Covered("create_pr") = 10
        /\ Covered("human_review") = 11 /\ Covered("halt") = 10
    BY Distances, Covering DEF NodeNames
  <1> QED BY <1>1, <1>2, Distances, Covering

(* A run never takes longer than the way to END. *)
LEMMA DistanceBound ==
  ASSUME NEW n \in NodeNames \cup {"END"}
  PROVE  /\ Distance(n) \in Nat /\ Distance(n) <= 11
         /\ n # "END" => Distance(n) <= 10 /\ Covered(n) \in Nat /\ Covered(n) <= 11
  BY Distances, Covering DEF NodeNames

(* The budget invariant is inductive. *)
LEMMA BudgetInvariance == Spec => []BudgetInv
  <1>1. Init => BudgetInv
    BY ConstantsAssumption DEF Init, BudgetInv, BudgetsRespected, initial_state
  <1>2. TypeInv /\ BudgetInv /\ [Next]_vars => BudgetInv'
    <2> SUFFICES ASSUME TypeInv, BudgetInv, [Next]_vars PROVE BudgetInv'
      OBVIOUS
    <2> DEFINE Paid(s) == s.iteration <= MaxIterations /\ s.ci_iteration <= MaxCIIterations
    <2>t. /\ st \in AgentState /\ input \in AgentState /\ row.state \in AgentState
          /\ node \in NodeNames \cup {"END"} /\ (phase = "save" => node \in NodeNames)
      BY DEF TypeInv, TypeOK, AtNode
    <2>p. Paid(st) /\ Paid(input) /\ Paid(row.state)
      BY DEF BudgetInv, BudgetsRespected
    <2>q. BudgetsRespected' <=> Paid(st') /\ Paid(input') /\ Paid(row'.state)
      BY DEF BudgetsRespected
    <2>0. Paid(initial_state)
      BY ConstantsAssumption DEF initial_state
    <2>r. [row EXCEPT !.status = "FAILED"].state = row.state
      BY DEF TypeInv, TypeOK
    <2>a. CASE Begin
      BY <2>a, <2>p, <2>q DEF Begin, BudgetInv
    <2>g. CASE BadRepositoryPath
      <3>1. row'.state = row.state /\ UNCHANGED <<phase, node, st, input>>
        BY <2>g, <2>r DEF BadRepositoryPath
      <3> QED BY <2>p, <2>q, <3>1 DEF BudgetInv
    <2>b. CASE EnterNode
      BY <2>b, <2>p, <2>q DEF EnterNode, BudgetInv
    <2>c. CASE SaveNode
      <3>1. /\ node' = "debugging" => st.iteration < MaxIterations
            /\ node' = "ci_debugging" => st.ci_iteration < MaxCIIterations
        BY <2>c, <2>t, RoutingPays DEF SaveNode
      <3> QED BY <2>c, <2>p, <2>q, <3>1 DEF SaveNode, BudgetInv
    <2>d. CASE Finalize \/ RecursionLimitReached \/ CheckpointFails \/ Crash
      <3>1. Paid([input EXCEPT !.outcome = "HUMAN_REVIEW_REQUIRED", !.halt_reason = TRUE])
        BY <2>t, <2>p DEF AgentState
      <3> HIDE DEF Paid
      <3>3. Paid(row'.state)
        <4>1. CASE Finalize
          BY <2>p, <4>1 DEF Finalize
        <4>2. CASE RecursionLimitReached
          BY <3>1, <4>2 DEF RecursionLimitReached
        <4>3. CASE CheckpointFails \/ Crash
          BY <2>p, <2>r, <4>3 DEF CheckpointFails, Crash
        <4> QED BY <2>d, <4>1, <4>2, <4>3
      <3>4. phase' = "idle" /\ st' = initial_state /\ input' = initial_state
        BY <2>d DEF Finalize, RecursionLimitReached, CheckpointFails, Crash, EndRun
      <3> QED BY <2>q, <2>0, <3>3, <3>4 DEF BudgetInv
    <2>e. CASE NodeStep
      <3>1. Paid(st')
        BY <2>e, <2>t, <2>p, NodeStepCounters, Counters, ConstantsAssumption DEF BudgetInv
      <3> QED BY <2>e, <2>p, <2>q, <3>1, NodeStepCounters DEF BudgetInv
    <2>f. CASE Terminated \/ UNCHANGED vars
      BY <2>f DEF Terminated, vars, BudgetInv, BudgetsRespected
    <2> QED BY <2>a, <2>b, <2>c, <2>d, <2>e, <2>f, <2>g DEF Next, WorkerStep
  <1> QED BY <1>1, <1>2, TypeInvariance, PTL DEF Spec

(* No node, exception, crash or resume takes a task past its debugging or CI
   budget, in memory or in the checkpoint. *)
THEOREM BudgetsHold == Spec => []BudgetsRespected
  <1>1. BudgetInv => BudgetsRespected
    BY DEF BudgetInv
  <1> QED BY <1>1, BudgetInvariance, PTL

(* The step count is inductive, given the types. *)
LEMMA StepInvariance == Spec => []StepInv
  <1>1. Init => StepInv
    BY DEF Init, StepInv
  <1>2. TypeInv /\ StepInv /\ [Next]_vars => StepInv'
    <2> SUFFICES ASSUME TypeInv, StepInv, [Next]_vars, LoopsPay PROVE StepInv'
      BY DEF StepInv
    <2>t. /\ st \in AgentState /\ steps \in Nat /\ row.state \in AgentState
          /\ node \in NodeNames \cup {"END"} /\ (phase = "save" => node \in NodeNames)
          /\ (phase = "run" => node \in NodeNames)
      BY DEF TypeInv, TypeOK, AtNode
    <2>n. st.iteration \in Nat /\ st.ci_iteration \in Nat
      BY <2>t, Counters
    <2>a. CASE Begin
      <3>1. phase' = "enter" /\ steps' = 0 /\ Distance(node') = 0
        BY <2>a, Distances DEF Begin
      <3>2. st'.iteration \in Nat /\ st'.ci_iteration \in Nat
        BY <2>a, <2>t, Counters DEF Begin
      <3> QED BY <3>1, <3>2 DEF StepInv
    <2>b. CASE BadRepositoryPath
      BY <2>b DEF BadRepositoryPath, StepInv
    <2>c. CASE EnterNode
      <3>1. /\ phase = "enter" /\ phase' = "run" /\ steps' = steps + 1
            /\ UNCHANGED <<node, st>>
        BY <2>c DEF EnterNode
      <3>2. Distance(node) \in Nat
        BY <2>t, DistanceBound
      <3> QED BY <2>t, <2>n, <3>1, <3>2 DEF StepInv
    <2>d. CASE SaveNode
      <3>1. /\ phase = "save" /\ phase' = "enter" /\ UNCHANGED <<steps, st>>
            /\ node' = NextNode(node, st)
        BY <2>d DEF SaveNode
      <3>2. node \in NodeNames /\ node' \in NodeNames \cup {"END"}
        BY <2>t, <3>1, RoutingType
      <3>3. Covered(node) <= Distance(node') /\ Covered(node) \in Nat /\ Distance(node') \in Nat
        <4>1. Covered(node) <= Distance(node')
          BY <3>1, <3>2, RoutingDistance
        <4>2. Distance(node') \in Nat
          BY <3>2, DistanceBound
        <4>3. "END" \notin NodeNames
          BY DEF NodeNames
        <4>4. Covered(node) \in Nat
          BY <3>2, <4>3, DistanceBound
        <4> QED BY <4>1, <4>2, <4>4
      <3> QED BY <2>t, <2>n, <3>1, <3>3 DEF StepInv
    <2>e. CASE Finalize \/ RecursionLimitReached \/ CheckpointFails \/ Crash
      BY <2>e DEF Finalize, RecursionLimitReached, CheckpointFails, Crash, EndRun, StepInv
    <2>f. CASE NodeStep
      <3>1. /\ phase = "run" /\ phase' = "save" /\ UNCHANGED <<node, steps>>
            /\ \/ st'.iteration = st.iteration /\ node # "debugging"
               \/ st'.iteration = st.iteration + 1 /\ node = "debugging"
            /\ \/ st'.ci_iteration = st.ci_iteration /\ node # "ci_debugging"
               \/ st'.ci_iteration = st.ci_iteration + 1 /\ node = "ci_debugging"
        BY <2>f, NodeStepCounters DEF LoopsPay
      <3>2. steps <= Distance(node) + 1 + 2 * st.iteration + 5 * st.ci_iteration
        BY <3>1 DEF StepInv
      <3>3. node \in NodeNames /\ Distance(node) \in Nat
        BY <2>t, <3>1, DistanceBound
      <3>4. steps <= Covered(node) + 2 * st'.iteration + 5 * st'.ci_iteration
        <4>1. CASE node = "debugging"
          BY <2>t, <2>n, <3>1, <3>2, <4>1, Distances, Covering
        <4>2. CASE node = "ci_debugging"
          BY <2>t, <2>n, <3>1, <3>2, <4>2, Distances, Covering
        <4>3. CASE node \notin {"debugging", "ci_debugging"}
          <5>1. Covered(node) = Distance(node) + 1
            BY <3>3, <4>3, Covering
          <5> QED BY <2>t, <2>n, <3>1, <3>2, <3>3, <4>3, <5>1
        <4> QED BY <4>1, <4>2, <4>3
      <3> QED BY <3>1, <3>4 DEF StepInv
    <2>g. CASE Terminated \/ UNCHANGED vars
      BY <2>g DEF Terminated, vars, StepInv
    <2> QED BY <2>a, <2>b, <2>c, <2>d, <2>e, <2>f, <2>g DEF Next, WorkerStep
  <1> QED BY <1>1, <1>2, TypeInvariance, PTL DEF Spec

(* The loops end by the counters that routing reads: a run takes at most
   11 + 2 * MaxIterations + 5 * MaxCIIterations supersteps, whatever the
   recursion limit, when debugging and ci_debugging return their updates. *)
THEOREM LoopsBounded == Spec => []LoopsBoundedByState
  <1>1. TypeInv /\ BudgetInv /\ StepInv => LoopsBoundedByState
    <2> SUFFICES ASSUME TypeInv, BudgetInv, StepInv, LoopsPay
                 PROVE  steps <= 11 + 2 * MaxIterations + 5 * MaxCIIterations
      BY DEF LoopsBoundedByState, LoopsPay
    <2>1. /\ steps \in Nat /\ st.iteration \in Nat /\ st.ci_iteration \in Nat
          /\ st.iteration <= MaxIterations /\ st.ci_iteration <= MaxCIIterations
      BY Counters DEF TypeInv, TypeOK, BudgetInv, BudgetsRespected
    <2>2. /\ Distance(node) \in Nat /\ Distance(node) <= 11
          /\ phase = "run" => Distance(node) <= 10
          /\ phase = "save" => Covered(node) \in Nat /\ Covered(node) <= 11
      BY DistanceBound DEF TypeInv, TypeOK, AtNode, NodeNames
    <2>3. phase \in {"idle", "enter", "run", "save"}
      BY DEF TypeInv, TypeOK
    <2> QED BY <2>1, <2>2, <2>3, ConstantsAssumption DEF StepInv
  <1> QED BY <1>1, TypeInvariance, BudgetInvariance, StepInvariance, PTL

-----------------------------------------------------------------------------
(* What is committed *)

(* From a passing run_tests to the commit, the tree stays the tested one. *)
TestedInv ==
  ~Unreliable("run_tests") =>
    /\ head.tested
    /\ wt.active /\ phase # "idle" /\ \/ node = "run_tests" /\ phase = "save" /\ st.test_run_ok
                                      \/ node = "security_policy"
                                      \/ node = "git_commit" /\ phase # "save"
         => wt.tested

(* From an allowing security_policy to the commit, the tree stays the gated one. *)
GatedInv ==
  ~Unreliable("security_policy") =>
    /\ head.gated
    /\ wt.active /\ phase # "idle"
       /\ \/ node = "security_policy" /\ phase = "save" /\ st.policy_action # "BLOCK"
          \/ node = "git_commit" /\ phase # "save"
         => wt.gated

(* Nodes other than implementation and git_commit leave the branch's record of
   tested and gated commits alone, also when they raise. *)
LEMMA BranchHistory ==
  ASSUME TypeInv, NodeStep
  PROVE  \/ head'.tested = head.tested /\ head'.gated = head.gated
         \/ head' = FreshBranch
         \/ node = "git_commit" /\ wt.active /\ CommitAll
  <1>0. wt \in WorkTree /\ head \in Branch
    BY DEF TypeInv, TypeOK
  <1>c. ASSUME NEW w, CreateWorkspace(w)
        PROVE  head' = head \/ head' = FreshBranch
    BY <1>c DEF CreateWorkspace
  <1>p. ASSUME PartialEffects(node), phase = "run"
        PROVE  head' = head \/ head' = FreshBranch \/ (node = "git_commit" /\ wt.active /\ CommitAll)
    <2>1. CASE node = "implementation"
      BY <1>p, <1>c, <2>1 DEF PartialEffects
    <2>2. CASE node = "git_commit"
      BY <1>p, <2>2 DEF PartialEffects
    <2>3. CASE node \notin {"implementation", "git_commit"}
      <3>1. CASE node \in {"test_generation", "debugging", "ci_debugging"}
        BY <1>p, <3>1 DEF PartialEffects
      <3>2. CASE node = "create_pr"
        BY <1>p, <3>2 DEF PartialEffects
      <3>3. CASE node = "human_review"
        BY <1>p, <3>3 DEF PartialEffects
      <3>4. CASE node \notin {"implementation", "git_commit", "test_generation", "debugging",
                              "ci_debugging", "create_pr", "human_review"}
        BY <1>p, <3>4 DEF PartialEffects
      <3> QED BY <2>3, <3>1, <3>2, <3>3, <3>4
    <2> QED BY <2>1, <2>2, <2>3
  <1>1. CASE implementation
    BY <1>1, <1>c DEF implementation
  <1>2. CASE git_commit
    BY <1>2 DEF git_commit, Runs
  <1>3. CASE ci_validation
    BY <1>3, <1>0 DEF ci_validation, Branch
  <1>4. CASE NodeViolates
    BY <1>4, <1>p DEF NodeViolates
  <1>5. CASE NodeFails
    BY <1>5, <1>p DEF NodeFails
  <1>6. CASE plan \/ repository_analysis \/ risk_assessment \/ test_generation \/ run_tests
    BY <1>6 DEF plan, repository_analysis, risk_assessment, test_generation, run_tests
  <1>7. CASE debugging \/ security_policy \/ ci_debugging \/ create_pr \/ human_review \/ halt
    BY <1>7 DEF debugging, security_policy, ci_debugging, create_pr, human_review, halt
  <1> QED BY <1>1, <1>2, <1>3, <1>4, <1>5, <1>6, <1>7 DEF NodeStep

(* Tested content stays tested until it is committed. *)
LEMMA TestedInvariance == Spec => []TestedInv
  <1>1. Init => TestedInv
    BY DEF Init, TestedInv, FreshBranch
  <1>2. TypeInv /\ TestedInv /\ [Next]_vars => TestedInv'
    <2> SUFFICES ASSUME TypeInv, TestedInv, [Next]_vars, ~Unreliable("run_tests")
                 PROVE  TestedInv'
      BY DEF TestedInv
    <2>t. /\ wt \in WorkTree /\ head \in Branch /\ st \in AgentState
          /\ (phase = "save" => node \in NodeNames)
      BY DEF TypeInv, TypeOK, AtNode
    <2>h. head.tested
      BY DEF TestedInv
    <2>a. CASE Begin
      BY <2>a DEF Begin, TestedInv
    <2>b. CASE BadRepositoryPath \/ EnterNode
      BY <2>b DEF BadRepositoryPath, EnterNode, TestedInv
    <2>c. CASE SaveNode
      <3>1. /\ NextNode(node, st) = "security_policy" => node = "run_tests" /\ st.test_run_ok
            /\ NextNode(node, st) = "git_commit" => node = "security_policy"
        BY <2>c, <2>t DEF SaveNode, NextNode, after_risk, after_tests, after_policy,
                          after_commit, after_ci, NodeNames
      <3> QED BY <2>c, <3>1 DEF SaveNode, TestedInv
    <2>d. CASE Finalize \/ RecursionLimitReached \/ CheckpointFails \/ Crash
      BY <2>d DEF Finalize, RecursionLimitReached, CheckpointFails, Crash, EndRun, TestedInv
    <2>e. CASE NodeStep
      <3>1. /\ phase = "run" /\ phase' = "save" /\ node' = node
        BY <2>e, NodeStepCounters
      <3>2. head'.tested
        <4>1. CASE node = "git_commit" /\ wt.active /\ CommitAll
          BY <2>h, <3>1, <4>1 DEF CommitAll, TestedInv
        <4>2. FreshBranch.tested
          BY DEF FreshBranch
        <4> QED BY <2>e, <2>h, <4>1, <4>2, BranchHistory
      <3>3. ASSUME wt'.active, node = "run_tests", st'.test_run_ok
            PROVE  wt'.tested
        <4>1. run_tests \/ (NodeViolates /\ ~wt.active /\ wt' = wt)
          BY <2>e, <3>1, <3>3 DEF NodeStep, plan, repository_analysis, risk_assessment,
             implementation, test_generation, debugging, security_policy, git_commit,
             ci_validation, ci_debugging, create_pr, human_review, halt, Runs,
             NodeViolates, NodeFails, Unreliable
        <4>2. CASE run_tests
          <5>1. CASE /\ Returns([st EXCEPT !.test_run_ok = TRUE])
                     /\ wt' = [wt EXCEPT !.tested = TRUE]
            BY <2>t, <5>1 DEF WorkTree
          <5>2. ASSUME NEW ok \in BOOLEAN, NEW sig \in Sigs,
                  Returns(RefreshDiff([st EXCEPT !.test_run_ok = ok,
                                                 !.prev_signatures = st.last_signatures,
                                                 !.last_signatures = sig], wt)),
                  wt' = [wt EXCEPT !.tested = ok]
                PROVE wt'.tested
            <6> DEFINE u == [st EXCEPT !.test_run_ok = ok,
                                       !.prev_signatures = st.last_signatures,
                                       !.last_signatures = sig]
            <6>1. u \in AgentState /\ u.test_run_ok = ok
              BY <2>t DEF AgentState
            <6> HIDE DEF u
            <6>2. RefreshDiff(u, wt).test_run_ok = ok
              BY <2>t, <6>1, RefreshDiffType
            <6>3. st' = RefreshDiff(u, wt)
              BY <5>2 DEF Returns, u
            <6> QED BY <2>t, <3>3, <5>2, <6>2, <6>3 DEF WorkTree
          <5> QED BY <4>2, <5>1, <5>2 DEF run_tests
        <4> QED BY <3>3, <4>1, <4>2
      <3>4. ASSUME wt'.active, node = "security_policy"
            PROVE  wt'.tested
        <4>1. \/ wt' = wt
              \/ \E g \in BOOLEAN : wt' = [wt EXCEPT !.gated = g]
          BY <2>e, <3>1, <3>4 DEF NodeStep, plan, repository_analysis, risk_assessment,
             implementation, test_generation, run_tests, debugging, security_policy, git_commit,
             ci_validation, ci_debugging, create_pr, human_review, halt, Runs,
             NodeViolates, NodeFails, PartialEffects, NeedsWorkspace
        <4> QED BY <2>t, <3>1, <3>4, <4>1 DEF WorkTree, TestedInv
      <3> QED BY <3>1, <3>2, <3>3, <3>4 DEF TestedInv
    <2>f. CASE Terminated \/ UNCHANGED vars
      BY <2>f DEF Terminated, vars, TestedInv
    <2> QED BY <2>a, <2>b, <2>c, <2>d, <2>e, <2>f DEF Next, WorkerStep
  <1> QED BY <1>1, <1>2, TypeInvariance, PTL DEF Spec

(* Whatever was committed had passed run_tests, through every loop, crash and
   resume, as long as run_tests itself does not raise. *)
THEOREM OnlyTestedCommits == Spec => []CommitsTested
  <1>1. TestedInv => CommitsTested
    BY DEF TestedInv, CommitsTested
  <1> QED BY <1>1, TestedInvariance, PTL

(* Gated content stays gated until it is committed. *)
LEMMA GatedInvariance == Spec => []GatedInv
  <1>1. Init => GatedInv
    BY DEF Init, GatedInv, FreshBranch
  <1>2. TypeInv /\ GatedInv /\ [Next]_vars => GatedInv'
    <2> SUFFICES ASSUME TypeInv, GatedInv, [Next]_vars, ~Unreliable("security_policy")
                 PROVE  GatedInv'
      BY DEF GatedInv
    <2>t. /\ wt \in WorkTree /\ head \in Branch /\ st \in AgentState
          /\ (phase = "save" => node \in NodeNames)
      BY DEF TypeInv, TypeOK, AtNode
    <2>h. head.gated
      BY DEF GatedInv
    <2>a. CASE Begin
      BY <2>a DEF Begin, GatedInv
    <2>b. CASE BadRepositoryPath \/ EnterNode
      BY <2>b DEF BadRepositoryPath, EnterNode, GatedInv
    <2>c. CASE SaveNode
      <3>1. /\ NextNode(node, st) = "git_commit"
                 => node = "security_policy" /\ st.policy_action # "BLOCK"
            /\ NextNode(node, st) = "security_policy" => node = "run_tests"
        BY <2>c, <2>t DEF SaveNode, NextNode, after_risk, after_tests, after_policy,
                          after_commit, after_ci, NodeNames
      <3> QED BY <2>c, <3>1 DEF SaveNode, GatedInv
    <2>d. CASE Finalize \/ RecursionLimitReached \/ CheckpointFails \/ Crash
      BY <2>d DEF Finalize, RecursionLimitReached, CheckpointFails, Crash, EndRun, GatedInv
    <2>e. CASE NodeStep
      <3>1. /\ phase = "run" /\ phase' = "save" /\ node' = node
        BY <2>e, NodeStepCounters
      <3>2. head'.gated
        <4>1. CASE node = "git_commit" /\ wt.active /\ CommitAll
          BY <2>h, <3>1, <4>1 DEF CommitAll, GatedInv
        <4>2. FreshBranch.gated
          BY DEF FreshBranch
        <4> QED BY <2>e, <2>h, <4>1, <4>2, BranchHistory
      <3>3. ASSUME wt'.active, node = "security_policy", st'.policy_action # "BLOCK"
            PROVE  wt'.gated
        <4>1. security_policy
          BY <2>e, <3>1, <3>3 DEF NodeStep, plan, repository_analysis, risk_assessment,
             implementation, test_generation, run_tests, debugging, git_commit,
             ci_validation, ci_debugging, create_pr, human_review, halt, Runs,
             NodeViolates, NodeFails, NeedsWorkspace, Unreliable
        <4>2. PICK a \in {"ALLOW", "BLOCK"} :
                /\ Returns([RefreshDiff(st, wt) EXCEPT !.policy_action = a,
                                                       !.halt_reason = @ \/ a = "BLOCK"])
                /\ wt' = [wt EXCEPT !.gated = wt.active /\ a = "ALLOW"]
          BY <4>1 DEF security_policy
        <4>3. RefreshDiff(st, wt) \in AgentState
          BY <2>t, RefreshDiffType
        <4>4. st'.policy_action = a
          BY <4>2, <4>3 DEF Returns, AgentState
        <4> QED BY <2>t, <3>3, <4>2, <4>4 DEF WorkTree
      <3> QED BY <3>1, <3>2, <3>3 DEF GatedInv
    <2>f. CASE Terminated \/ UNCHANGED vars
      BY <2>f DEF Terminated, vars, GatedInv
    <2> QED BY <2>a, <2>b, <2>c, <2>d, <2>e, <2>f DEF Next, WorkerStep
  <1> QED BY <1>1, <1>2, TypeInvariance, PTL DEF Spec

(* Whatever was committed had passed the policy gate, as long as
   security_policy itself does not raise. *)
THEOREM OnlyGatedCommits == Spec => []CommitsGated
  <1>1. GatedInv => CommitsGated
    BY DEF GatedInv, CommitsGated
  <1> QED BY <1>1, GatedInvariance, PTL

-----------------------------------------------------------------------------
(* Where tools write *)

(* Where a worktree is expected, there is one or writes are blocked. *)
Rooted == \/ node \in {"test_generation", "run_tests", "debugging", "ci_validation", "ci_debugging"}
          \/ node \in {"implementation", "git_commit"} /\ phase = "save"

CheckoutInv ==
  "implementation" \notin Errors =>
    /\ ~checkout
    /\ phase # "idle" /\ Rooted => wt.active \/ st.policy_action = "BLOCK"

(* An agent that starts in a worktree, or without write tools, leaves the
   developer's checkout alone and the worktree registered. *)
LEMMA AgentWritesRooted ==
  ASSUME NEW w \in WorkTree, AgentWrites(w), w.active \/ st.policy_action = "BLOCK"
  PROVE  checkout' = checkout /\ wt'.active = w.active
  BY FilesType DEF AgentWrites, WriteAllowed, WorkTree

(* Writes stay rooted in a worktree. *)
LEMMA CheckoutInvariance == Spec => []CheckoutInv
  <1>1. Init => CheckoutInv
    BY DEF Init, CheckoutInv
  <1>2. TypeInv /\ CheckoutInv /\ [Next]_vars => CheckoutInv'
    <2> SUFFICES ASSUME TypeInv, CheckoutInv, [Next]_vars, "implementation" \notin Errors
                 PROVE  CheckoutInv'
      BY DEF CheckoutInv
    <2>t. /\ wt \in WorkTree /\ head \in Branch /\ st \in AgentState
          /\ (phase = "save" => node \in NodeNames)
      BY DEF TypeInv, TypeOK, AtNode
    <2>h. ~checkout
      BY DEF CheckoutInv
    <2>a. CASE Begin
      BY <2>a DEF Begin, CheckoutInv, Rooted
    <2>b. CASE BadRepositoryPath \/ EnterNode
      BY <2>b DEF BadRepositoryPath, EnterNode, CheckoutInv, Rooted
    <2>c. CASE SaveNode
      <3>1. NextNode(node, st) \in {"test_generation", "run_tests", "debugging",
                                    "ci_validation", "ci_debugging"} => Rooted
        BY <2>c, <2>t DEF SaveNode, NextNode, after_risk, after_tests, after_policy,
                          after_commit, after_ci, NodeNames, Rooted
      <3> QED BY <2>c, <3>1 DEF SaveNode, CheckoutInv, Rooted
    <2>d. CASE Finalize \/ RecursionLimitReached \/ CheckpointFails \/ Crash
      BY <2>d DEF Finalize, RecursionLimitReached, CheckpointFails, Crash, EndRun, CheckoutInv
    <2>e. CASE NodeStep
      <3>1. /\ phase = "run" /\ phase' = "save" /\ node' = node
        BY <2>e, NodeStepCounters
      <3>r. Rooted' <=> node \in {"test_generation", "run_tests", "debugging", "ci_validation",
                                 "ci_debugging", "implementation", "git_commit"}
        BY <3>1 DEF Rooted
      <3>s. node \in {"test_generation", "run_tests", "debugging", "ci_validation",
                      "ci_debugging"} => wt.active \/ st.policy_action = "BLOCK"
        BY <3>1 DEF CheckoutInv, Rooted
      <3>2. CASE implementation
        <4>1. PICK w : CreateWorkspace(w) /\ AgentWrites(w)
          BY <3>2 DEF implementation
        <4>2. checkout' = checkout /\ wt'.active
          BY <2>t, <4>1, CreateWorkspaceType, AgentWritesRooted
        <4> QED BY <2>h, <4>2 DEF CheckoutInv
      <3>3. CASE test_generation \/ debugging \/ ci_debugging
        <4>1. AgentWrites(wt) /\ node \in {"test_generation", "debugging", "ci_debugging"}
          BY <3>3 DEF test_generation, debugging, ci_debugging, Runs
        <4>2. checkout' = checkout /\ wt'.active = wt.active
          BY <2>t, <3>s, <4>1, AgentWritesRooted
        <4>3. wt' \in WorkTree
          BY <2>t, <4>1, AgentWritesType DEF TypeInv, TypeOK
        <4>4. st'.policy_action = st.policy_action
          <5>1. st.iteration + 1 \in Nat /\ st.ci_iteration + 1 \in Nat
            BY <2>t, Counters
          <5>2. CASE test_generation
            BY <2>t, <4>3, <5>2, RefreshDiffType DEF test_generation, Returns
          <5>3. CASE debugging
            <6> DEFINE u == [st EXCEPT !.iteration = @ + 1]
            <6>1. u \in AgentState
              BY <2>t, <5>1, CountersType
            <6>2. u.policy_action = st.policy_action
              BY <2>t DEF AgentState
            <6>3. st' = RefreshDiff(u, wt')
              BY <5>3 DEF debugging, Returns
            <6> HIDE DEF u
            <6> QED BY <4>3, <6>1, <6>2, <6>3, RefreshDiffType
          <5>4. CASE ci_debugging
            <6>1. PICK h \in BOOLEAN :
                    st' = RefreshDiff([st EXCEPT !.ci_iteration = @ + 1,
                                                 !.ci_requires_human = h], wt')
              BY <5>4 DEF ci_debugging, Returns
            <6> DEFINE u == [st EXCEPT !.ci_iteration = @ + 1, !.ci_requires_human = h]
            <6>2. u \in AgentState
              BY <2>t, <5>1, CountersType
            <6>3. u.policy_action = st.policy_action
              BY <2>t DEF AgentState
            <6>4. st' = RefreshDiff(u, wt')
              BY <6>1
            <6> HIDE DEF u
            <6> QED BY <4>3, <6>2, <6>3, <6>4, RefreshDiffType
          <5> QED BY <3>3, <5>2, <5>3, <5>4
        <4> QED BY <2>h, <3>s, <4>1, <4>2, <4>4 DEF CheckoutInv
      <3>4. CASE run_tests \/ ci_validation
        <4>1. wt'.active /\ UNCHANGED checkout
          BY <2>t, <3>4 DEF run_tests, ci_validation, WorkTree
        <4> QED BY <2>h, <4>1 DEF CheckoutInv
      <3>5. CASE git_commit
        <4>1. wt'.active /\ UNCHANGED checkout
          BY <2>t, <3>5 DEF git_commit, WorkTree, CommitAll
        <4> QED BY <2>h, <4>1 DEF CheckoutInv
      <3>6. CASE plan \/ repository_analysis \/ risk_assessment \/ security_policy
                 \/ create_pr \/ human_review \/ halt
        <4>1. UNCHANGED checkout /\ ~Rooted'
          BY <3>6, <3>r DEF plan, repository_analysis, risk_assessment, security_policy,
             create_pr, human_review, halt, Runs
        <4> QED BY <2>h, <4>1 DEF CheckoutInv
      <3>p. ASSUME PartialEffects(node), node # "implementation"
            PROVE  UNCHANGED checkout /\ (Rooted' => wt'.active = wt.active)
        <4>1. CASE node \in {"test_generation", "debugging", "ci_debugging"}
          <5>1. AgentWrites(wt)
            BY <3>p, <4>1 DEF PartialEffects
          <5> QED BY <2>t, <3>s, <4>1, <5>1, AgentWritesRooted
        <4>2. CASE node = "git_commit"
          <5>1. checkout' = checkout /\ (wt' = wt \/ wt' = [wt EXCEPT !.files = 0])
            BY <3>p, <4>2 DEF PartialEffects, CommitAll
          <5> QED BY <2>t, <5>1 DEF WorkTree
        <4>3. CASE node \in {"create_pr", "human_review"}
          BY <3>p, <3>r, <4>3 DEF PartialEffects
        <4>4. CASE node \notin {"test_generation", "debugging", "ci_debugging", "git_commit",
                                "create_pr", "human_review"}
          BY <3>p, <4>4 DEF PartialEffects
        <4> QED BY <4>1, <4>2, <4>3, <4>4
      <3>7. CASE NodeViolates
        <4>1. st'.policy_action = "BLOCK"
          BY <2>t, <3>7 DEF NodeViolates, Returns, AgentState
        <4>2. checkout' = checkout
          <5>1. CASE node = "implementation" /\ PartialEffects(node)
            <6>1. PICK w : UNCHANGED checkout \/ (CreateWorkspace(w) /\ AgentWrites(w))
              BY <5>1 DEF PartialEffects
            <6> QED BY <2>t, <6>1, CreateWorkspaceType, AgentWritesRooted
          <5> QED BY <3>7, <3>p, <5>1 DEF NodeViolates
        <4> QED BY <2>h, <4>1, <4>2 DEF CheckoutInv
      <3>8. CASE NodeFails
        <4>1. st'.policy_action = st.policy_action
          BY <2>t, <3>8 DEF NodeFails, Returns, AgentState
        <4>2. node # "implementation" /\ PartialEffects(node)
          BY <3>8 DEF NodeFails
        <4>3. node = "git_commit" => wt.active
          BY <3>8 DEF NodeFails, NeedsWorkspace
        <4> QED BY <2>h, <3>p, <3>r, <3>s, <4>1, <4>2, <4>3 DEF CheckoutInv
      <3> QED BY <2>e, <3>2, <3>3, <3>4, <3>5, <3>6, <3>7, <3>8 DEF NodeStep
    <2>f. CASE Terminated \/ UNCHANGED vars
      BY <2>f DEF Terminated, vars, CheckoutInv, Rooted
    <2> QED BY <2>a, <2>b, <2>c, <2>d, <2>e, <2>f DEF Next, WorkerStep
  <1> QED BY <1>1, <1>2, TypeInvariance, PTL DEF Spec

(* No agent tool ever writes into the developer's own checkout, unless
   implementation leaves with a plain exception before a worktree exists. *)
THEOREM CheckoutSafe == Spec => []CheckoutUntouched
  <1>1. CheckoutInv => CheckoutUntouched
    BY DEF CheckoutInv, CheckoutUntouched
  <1> QED BY <1>1, CheckoutInvariance, PTL

-----------------------------------------------------------------------------
(* Budgets and checkpoints *)

(* The state of a run has spent what its last checkpoint has. *)
SpentInv == phase # "idle" => /\ st.iteration >= row.state.iteration
                              /\ st.ci_iteration >= row.state.ci_iteration

Refunds == ~(/\ row'.state.iteration >= row.state.iteration
             /\ row'.state.ci_iteration >= row.state.ci_iteration)

(* Spending is inductive, given the types, and only the recursion limit
   writes an older state back. *)
LEMMA SpentStep ==
  ASSUME TypeInv, SpentInv, [Next]_vars
  PROVE  SpentInv' /\ (Refunds => RecursionLimitReached)
  <1>0. /\ st.iteration \in Nat /\ st.ci_iteration \in Nat
        /\ row.state.iteration \in Nat /\ row.state.ci_iteration \in Nat
    BY Counters DEF TypeInv, TypeOK
  <1>1. CASE Begin
    BY <1>0, <1>1 DEF Begin, SpentInv, Refunds
  <1>2. CASE BadRepositoryPath
    <2>1. row'.state = row.state /\ phase' = phase /\ st' = st
      BY <1>2 DEF BadRepositoryPath, TypeInv, TypeOK
    <2> QED BY <1>0, <2>1 DEF SpentInv, Refunds
  <1>3. CASE EnterNode \/ SaveNode
    <2>1. row'.state = st /\ st' = st /\ phase # "idle"
      BY <1>3 DEF EnterNode, SaveNode
    <2> QED BY <1>0, <2>1 DEF SpentInv, Refunds
  <1>4. CASE NodeStep
    <2>1. /\ row' = row /\ phase = "run"
          /\ st'.iteration \in {st.iteration, st.iteration + 1}
          /\ st'.ci_iteration \in {st.ci_iteration, st.ci_iteration + 1}
      BY <1>4, NodeStepCounters
    <2> QED BY <1>0, <2>1 DEF SpentInv, Refunds
  <1>5. CASE Finalize
    <2>1. row'.state = st /\ phase' = "idle" /\ phase # "idle"
      BY <1>5 DEF Finalize, EndRun
    <2> QED BY <2>1 DEF SpentInv, Refunds
  <1>6. CASE RecursionLimitReached
    BY <1>6 DEF RecursionLimitReached, EndRun, SpentInv
  <1>7. CASE CheckpointFails \/ Crash
    <2>1. row'.state = row.state /\ phase' = "idle"
      BY <1>7 DEF CheckpointFails, Crash, EndRun, TypeInv, TypeOK
    <2> QED BY <1>0, <2>1 DEF SpentInv, Refunds
  <1>8. CASE Terminated \/ UNCHANGED vars
    <2>1. UNCHANGED <<row, phase, st>>
      BY <1>8 DEF Terminated, vars
    <2> QED BY <1>0, <2>1 DEF SpentInv, Refunds
  <1> QED BY <1>1, <1>2, <1>3, <1>4, <1>5, <1>6, <1>7, <1>8 DEF Next, WorkerStep

(* No crash and no resume gives an iteration back, when the recursion limit is
   above the length of a run (60 against 31 in the default settings) and the
   two nodes that pay return their update. *)
THEOREM BudgetsStaySpent ==
  ASSUME RecursionLimit > 11 + 2 * MaxIterations + 5 * MaxCIIterations,
         ~Unreliable("debugging"), ~Unreliable("ci_debugging")
  PROVE  Spec => BudgetsNeverRefunded
  <1>1. Init => SpentInv
    BY DEF Init, SpentInv
  <1>2. TypeInv /\ SpentInv /\ [Next]_vars => SpentInv'
    BY SpentStep
  <1>3. TypeInv /\ SpentInv /\ LoopsBoundedByState /\ [Next]_vars
          => [/\ row'.state.iteration >= row.state.iteration
              /\ row'.state.ci_iteration >= row.state.ci_iteration]_row
    <2> SUFFICES ASSUME TypeInv, SpentInv, LoopsBoundedByState, [Next]_vars
                 PROVE  ~Refunds
      BY DEF Refunds
    <2>1. steps <= 11 + 2 * MaxIterations + 5 * MaxCIIterations /\ steps \in Nat
      BY DEF LoopsBoundedByState, TypeInv, TypeOK
    <2>2. steps # RecursionLimit
      BY <2>1, ConstantsAssumption
    <2>3. ~RecursionLimitReached
      BY <2>2 DEF RecursionLimitReached
    <2> QED BY <2>3, SpentStep
  <1> QED BY <1>1, <1>2, <1>3, TypeInvariance, LoopsBounded, PTL DEF Spec, BudgetsNeverRefunded

-----------------------------------------------------------------------------
(* The commit behind a pull request *)

(* The branch moves only by a commit, or is created anew by implementation
   where no worktree is registered. *)
BranchKept == \/ head'.n = head.n
              \/ node = "implementation" /\ ~wt.active /\ head' = FreshBranch
              \/ node = "git_commit" /\ wt.active /\ CommitAll

(* What exceptions leave of branch, worktree and pull request. *)
LEMMA PartialEffectsCommit ==
  ASSUME TypeInv, PartialEffects(node)
  PROVE  /\ wt.active => wt'.active
         /\ BranchKept
         /\ pr' = pr \/ (node = "create_pr" /\ wt.active /\ pr' = head.n)
  <1>0. wt \in WorkTree /\ head \in Branch
    BY DEF TypeInv, TypeOK
  <1>1. CASE node = "implementation"
    <2>1. PICK w : UNCHANGED <<wt, head, checkout>> \/ (CreateWorkspace(w) /\ AgentWrites(w))
      BY <1>1 DEF PartialEffects
    <2>2. pr' = pr
      BY <1>1 DEF PartialEffects
    <2>3. CASE UNCHANGED <<wt, head, checkout>>
      BY <2>2, <2>3 DEF BranchKept
    <2>4. CASE CreateWorkspace(w) /\ AgentWrites(w)
      <3>1. wt'.active
        BY <1>0, <2>4, CreateWorkspaceType DEF AgentWrites, WorkTree
      <3>2. head' = head \/ (~wt.active /\ head' = FreshBranch)
        BY <2>4 DEF CreateWorkspace
      <3> QED BY <1>1, <2>2, <3>1, <3>2 DEF BranchKept
    <2> QED BY <2>1, <2>3, <2>4
  <1>2. CASE node \in {"test_generation", "debugging", "ci_debugging"}
    <2>1. AgentWrites(wt) /\ UNCHANGED <<head, pr>>
      BY <1>2 DEF PartialEffects
    <2> QED BY <1>0, <2>1 DEF AgentWrites, WorkTree, BranchKept
  <1>3. CASE node = "git_commit"
    <2>1. pr' = pr /\ (UNCHANGED <<wt, head>> \/ (wt.active /\ CommitAll))
      BY <1>3 DEF PartialEffects
    <2>2. CommitAll => wt'.active = wt.active
      BY <1>0 DEF CommitAll, WorkTree
    <2> QED BY <1>3, <2>1, <2>2 DEF BranchKept
  <1>4. CASE node = "create_pr"
    BY <1>4 DEF PartialEffects, BranchKept
  <1>5. CASE node = "human_review"
    BY <1>5 DEF PartialEffects, BranchKept
  <1>6. CASE node \notin {"implementation", "test_generation", "debugging", "ci_debugging",
                          "git_commit", "create_pr", "human_review"}
    BY <1>6 DEF PartialEffects, BranchKept
  <1> QED BY <1>1, <1>2, <1>3, <1>4, <1>5, <1>6

(* The same for every way a node may end, with what it returns. *)
LEMMA NodeStepCommit ==
  ASSUME TypeInv, NodeStep
  PROVE  /\ wt.active => wt'.active
         /\ BranchKept
         /\ pr' = pr \/ (node = "create_pr" /\ wt.active /\ pr' = head.n)
         /\ \/ st'.commit_sha = st.commit_sha
            \/ node = "git_commit" /\ CommitAll /\ st'.commit_sha = head'.n
         /\ node = "git_commit" /\ head'.n # head.n /\ ~Unreliable("git_commit")
              => st'.commit_sha = head'.n
         /\ \/ st'.workspace_path = st.workspace_path
            \/ node = "implementation" /\ st'.workspace_path
         /\ node = "implementation" /\ ~Unreliable("implementation")
              => st'.workspace_path /\ wt'.active
  <1> DEFINE Same(s) == s.commit_sha = st.commit_sha /\ s.workspace_path = st.workspace_path
  <1>0. wt \in WorkTree /\ head \in Branch /\ st \in AgentState
    BY DEF TypeInv, TypeOK
  <1>a. ASSUME NEW w \in WorkTree, AgentWrites(w)
        PROVE  wt' \in WorkTree /\ wt'.active = w.active
    <2>1. wt' \in WorkTree
      BY <1>a, FilesType DEF AgentWrites, WorkTree
    <2>2. wt'.active = w.active
      BY <1>a DEF AgentWrites, WorkTree
    <2> QED BY <2>1, <2>2
  <1>n. st.iteration + 1 \in Nat /\ st.ci_iteration + 1 \in Nat
    BY <1>0, Counters
  <1>1. CASE plan \/ repository_analysis \/ risk_assessment \/ human_review \/ halt
    <2>1. UNCHANGED <<wt, head, pr>> /\ node \notin {"implementation", "git_commit"}
      BY <1>1 DEF plan, repository_analysis, risk_assessment, human_review, halt, Runs
    <2>2. Same(st')
      <3>1. CASE plan \/ repository_analysis \/ human_review \/ halt
        BY <1>0, <3>1 DEF plan, repository_analysis, human_review, halt, Returns, AgentState
      <3>2. CASE risk_assessment
        <4>1. PICK a, b : st' = [st EXCEPT !.policy_action = a, !.halt_reason = b]
          BY <3>2 DEF risk_assessment, Returns
        <4> QED BY <1>0, <4>1 DEF AgentState
      <3> QED BY <1>1, <3>1, <3>2
    <2> QED BY <2>1, <2>2 DEF BranchKept
  <1>2. CASE implementation
    <2>1. PICK w : CreateWorkspace(w) /\ AgentWrites(w)
      BY <1>2 DEF implementation
    <2>2. wt' \in WorkTree /\ wt'.active
      BY <1>0, <1>a, <2>1, CreateWorkspaceType
    <2>3. head' = head \/ (~wt.active /\ head' = FreshBranch)
      BY <2>1 DEF CreateWorkspace
    <2> DEFINE u == RefreshDiff(st, wt')
    <2>4. u \in AgentState /\ u.commit_sha = st.commit_sha
      BY <1>0, <2>2, RefreshDiffType
    <2>5. st' = [u EXCEPT !.workspace_path = TRUE]
      BY <1>2 DEF implementation, Returns
    <2> HIDE DEF u
    <2>6. st'.commit_sha = st.commit_sha /\ st'.workspace_path
      BY <2>4, <2>5 DEF AgentState
    <2>7. node = "implementation" /\ pr' = pr
      BY <1>2 DEF implementation, Runs
    <2> QED BY <2>2, <2>3, <2>6, <2>7 DEF BranchKept
  <1>3. CASE test_generation \/ debugging \/ ci_debugging
    <2>1. AgentWrites(wt) /\ UNCHANGED <<head, pr>> /\ node \notin {"implementation", "git_commit"}
      BY <1>3 DEF test_generation, debugging, ci_debugging, Runs
    <2>2. wt' \in WorkTree /\ wt'.active = wt.active
      BY <1>0, <1>a, <2>1
    <2>3. ASSUME NEW u \in AgentState, Same(u), st' = RefreshDiff(u, wt')
          PROVE  Same(st')
      BY <2>2, <2>3, RefreshDiffType
    <2>4. CASE test_generation
      BY <1>0, <2>1, <2>2, <2>3, <2>4 DEF test_generation, Returns, BranchKept
    <2>5. CASE debugging
      <3> DEFINE u == [st EXCEPT !.iteration = @ + 1]
      <3>1. u \in AgentState /\ st' = RefreshDiff(u, wt')
        BY <1>0, <1>n, <2>5, CountersType DEF debugging, Returns
      <3>2. Same(u)
        BY <1>0 DEF AgentState
      <3> HIDE DEF u
      <3> QED BY <2>1, <2>2, <2>3, <3>1, <3>2 DEF BranchKept
    <2>6. CASE ci_debugging
      <3>1. PICK h \in BOOLEAN :
              st' = RefreshDiff([st EXCEPT !.ci_iteration = @ + 1, !.ci_requires_human = h], wt')
        BY <2>6 DEF ci_debugging, Returns
      <3> DEFINE u == [st EXCEPT !.ci_iteration = @ + 1, !.ci_requires_human = h]
      <3>2. u \in AgentState /\ st' = RefreshDiff(u, wt')
        BY <1>0, <1>n, <3>1, CountersType
      <3>3. Same(u)
        BY <1>0 DEF AgentState
      <3> HIDE DEF u
      <3> QED BY <2>1, <2>2, <2>3, <3>2, <3>3 DEF BranchKept
    <2> QED BY <1>3, <2>4, <2>5, <2>6
  <1>4. CASE run_tests
    <2>1. /\ \E b \in BOOLEAN : wt' = [wt EXCEPT !.tested = b]
          /\ UNCHANGED <<head, pr>> /\ node \notin {"implementation", "git_commit"}
      BY <1>4 DEF run_tests, Runs
    <2>2. wt'.active = wt.active
      BY <1>0, <2>1 DEF WorkTree
    <2>3. CASE Returns([st EXCEPT !.test_run_ok = TRUE])
      <3>1. Same(st')
        BY <1>0, <2>3 DEF Returns, AgentState
      <3> QED BY <2>1, <2>2, <3>1 DEF BranchKept
    <2>4. ASSUME NEW ok \in BOOLEAN, NEW sig \in Sigs,
                 Returns(RefreshDiff([st EXCEPT !.test_run_ok = ok,
                                                !.prev_signatures = st.last_signatures,
                                                !.last_signatures = sig], wt))
          PROVE  Same(st')
      <3> DEFINE u == [st EXCEPT !.test_run_ok = ok, !.prev_signatures = st.last_signatures,
                                 !.last_signatures = sig]
      <3>1. u \in AgentState /\ Same(u)
        BY <1>0 DEF AgentState
      <3>2. st' = RefreshDiff(u, wt)
        BY <2>4 DEF Returns
      <3> HIDE DEF u
      <3> QED BY <1>0, <3>1, <3>2, RefreshDiffType
    <2>5. CASE \E ok \in BOOLEAN, sig \in Sigs :
                 Returns(RefreshDiff([st EXCEPT !.test_run_ok = ok,
                                                !.prev_signatures = st.last_signatures,
                                                !.last_signatures = sig], wt))
      BY <2>1, <2>2, <2>4, <2>5 DEF BranchKept
    <2> QED BY <1>4, <2>3, <2>5 DEF run_tests
  <1>5. CASE security_policy
    <2>0. PICK a : /\ Returns([RefreshDiff(st, wt) EXCEPT !.policy_action = a,
                                                          !.halt_reason = @ \/ a = "BLOCK"])
                   /\ wt' = [wt EXCEPT !.gated = wt.active /\ a = "ALLOW"]
      BY <1>5 DEF security_policy
    <2> DEFINE b == RefreshDiff(st, wt).halt_reason \/ a = "BLOCK"
               g == wt.active /\ a = "ALLOW"
    <2>1. /\ st' = [RefreshDiff(st, wt) EXCEPT !.policy_action = a, !.halt_reason = b]
          /\ wt' = [wt EXCEPT !.gated = g]
      BY <2>0 DEF Returns
    <2> HIDE DEF b, g
    <2>2. UNCHANGED <<head, pr>> /\ node \notin {"implementation", "git_commit"}
      BY <1>5 DEF security_policy, Runs
    <2>3. wt'.active = wt.active
      BY <1>0, <2>1 DEF WorkTree
    <2> DEFINE u == RefreshDiff(st, wt)
    <2>4. u \in AgentState /\ Same(u)
      BY <1>0, RefreshDiffType
    <2>5. st' = [u EXCEPT !.policy_action = a, !.halt_reason = b]
      BY <2>1
    <2> HIDE DEF u
    <2>6. Same(st')
      BY <2>4, <2>5 DEF AgentState
    <2> QED BY <2>2, <2>3, <2>6 DEF BranchKept
  <1>6. CASE git_commit
    <2>1. node = "git_commit" /\ wt.active /\ pr' = pr
      BY <1>6 DEF git_commit, Runs
    <2>2. CASE /\ UNCHANGED <<wt, head>>
               /\ \/ Returns([st EXCEPT !.halt_reason = TRUE, !.policy_action = "BLOCK"])
                  \/ Returns([st EXCEPT !.halt_reason = TRUE])
      <3>1. Same(st')
        BY <1>0, <2>2 DEF Returns, AgentState
      <3> QED BY <2>1, <2>2, <3>1 DEF BranchKept
    <2>3. CASE CommitAll /\ Returns([st EXCEPT !.commit_sha = head'.n])
      <3>1. wt'.active
        BY <1>0, <2>1, <2>3 DEF CommitAll, WorkTree
      <3>2. st'.commit_sha = head'.n /\ st'.workspace_path = st.workspace_path
        BY <1>0, <2>3 DEF Returns, AgentState
      <3> QED BY <2>1, <2>3, <3>1, <3>2 DEF BranchKept
    <2> QED BY <1>6, <2>2, <2>3 DEF git_commit
  <1>7. CASE ci_validation
    <2>1. PICK c \in CIOutcomes : /\ st' = [st EXCEPT !.ci_status = c]
                                  /\ head' = head \/ head' = [head EXCEPT !.ci = c]
      BY <1>7 DEF ci_validation, Returns
    <2>2. Same(st') /\ head'.n = head.n
      BY <1>0, <2>1 DEF AgentState, Branch
    <2> QED BY <1>7, <2>2 DEF ci_validation, Runs, BranchKept
  <1>8. CASE create_pr
    BY <1>8 DEF create_pr, Returns, Runs, BranchKept
  <1>9. CASE NodeViolates \/ NodeFails
    <2>1. Same(st')
      BY <1>0, <1>9 DEF NodeViolates, NodeFails, Returns, AgentState
    <2>2. \/ PartialEffects(node)
          \/ UNCHANGED <<wt, head, pr>>
      BY <1>9 DEF NodeViolates, NodeFails
    <2>3. /\ wt.active => wt'.active
          /\ BranchKept
          /\ pr' = pr \/ (node = "create_pr" /\ wt.active /\ pr' = head.n)
      BY <2>2, PartialEffectsCommit DEF BranchKept
    <2>4. node = "implementation" => Unreliable("implementation")
      BY <1>9 DEF NodeViolates, NodeFails, NeedsWorkspace, Unreliable
    <2>5. node = "git_commit" => Unreliable("git_commit") \/ UNCHANGED head
      BY <1>9 DEF NodeViolates, NodeFails, Unreliable
    <2> QED BY <2>1, <2>3, <2>4, <2>5
  <1> QED BY <1>1, <1>2, <1>3, <1>4, <1>5, <1>6, <1>7, <1>8, <1>9 DEF NodeStep

(* The nodes after implementation. *)
InTree == \/ node \in {"test_generation", "run_tests", "debugging", "security_policy", "git_commit",
                       "ci_validation", "ci_debugging", "create_pr"}
          \/ node = "implementation" /\ phase = "save"

(* A state that names a commit names its worktree too, and the commit is on
   the branch; a worktree that is named is registered while a run goes on, so
   that implementation does not create the branch anew. *)
Anchored(s) == /\ s.commit_sha # 0 => s.workspace_path /\ head.n # 0
               /\ phase # "idle" /\ s.workspace_path => wt.active

CommitInv ==
  ~Unreliable("implementation") /\ ~LostWorkspaces =>
    /\ pr # 0
    /\ Anchored(st) /\ Anchored(input) /\ Anchored(row.state)
    /\ phase # "idle" /\ InTree => st.workspace_path
    /\ phase # "idle" /\ node \in {"ci_validation", "create_pr"} => st.commit_sha # 0

(* A run that ends keeps the commit of the row it leaves. *)
LEMMA EndRunCommit ==
  ASSUME TypeInv, CommitInv, ~Unreliable("implementation"), ~LostWorkspaces,
         NEW alive \in BOOLEAN, EndRun(alive),
         row'.state.commit_sha # 0 => row'.state.workspace_path /\ head.n # 0
  PROVE  CommitInv'
  <1>1. initial_state.commit_sha = 0
    BY DEF initial_state
  <1>2. /\ phase' = "idle" /\ st' = initial_state /\ input' = initial_state
        /\ pr' = pr /\ head' = head
    BY DEF EndRun
  <1> QED BY <1>1, <1>2 DEF CommitInv, Anchored

(* The commit of every state stays on the branch. *)
LEMMA CommitInvariance == Spec => []CommitInv
  <1>1. Init => CommitInv
    BY DEF Init, CommitInv, Anchored, initial_state, NoPR
  <1>2. TypeInv /\ CommitInv /\ [Next]_vars => CommitInv'
    <2> SUFFICES ASSUME TypeInv, CommitInv, [Next]_vars,
                        ~Unreliable("implementation"), ~LostWorkspaces
                 PROVE  CommitInv'
      BY DEF CommitInv
    <2>t. /\ wt \in WorkTree /\ head \in Branch /\ st \in AgentState /\ row.state \in AgentState
          /\ input \in AgentState /\ head.n \in Nat /\ (phase = "save" => node \in NodeNames)
      BY DEF TypeInv, TypeOK, AtNode, Branch
    <2>a. CASE Begin
      <3>1. PICK a \in BOOLEAN : (row.state.workspace_path => a) /\ wt' = [wt EXCEPT !.active = a]
        BY <2>a DEF Begin, AdoptWorkspace
      <3>2. row.state.workspace_path => wt'.active
        BY <2>t, <3>1 DEF WorkTree
      <3>3. /\ st' = row.state /\ input' = row.state /\ row' = row /\ pr' = pr /\ head' = head
            /\ node' = "plan" /\ phase' = "enter"
        BY <2>a DEF Begin
      <3> QED BY <3>2, <3>3 DEF CommitInv, Anchored, InTree
    <2>b. CASE BadRepositoryPath
      <3>1. row'.state = row.state /\ UNCHANGED <<st, input, phase, node, wt, head, pr>>
        BY <2>b DEF BadRepositoryPath, TypeInv, TypeOK
      <3> QED BY <3>1 DEF CommitInv, Anchored, InTree
    <2>c. CASE EnterNode
      <3>1. /\ row'.state = st /\ UNCHANGED <<st, input, node, wt, head, pr>>
            /\ phase = "enter" /\ phase' = "run"
        BY <2>c DEF EnterNode
      <3> QED BY <3>1 DEF CommitInv, Anchored, InTree
    <2>d. CASE SaveNode
      <3>1. /\ row'.state = st /\ UNCHANGED <<st, input, wt, head, pr>>
            /\ phase = "save" /\ phase' = "enter" /\ node' = NextNode(node, st)
        BY <2>d DEF SaveNode
      <3>2. InTree' => InTree
        BY <2>t, <3>1 DEF InTree, NextNode, after_risk, after_tests, after_policy, after_commit,
           after_ci, NodeNames
      <3>3. /\ node' = "ci_validation" => st.commit_sha # 0
            /\ node' = "create_pr" => node = "ci_validation"
        BY <2>t, <3>1 DEF NextNode, after_risk, after_tests, after_policy, after_commit,
           after_ci, NodeNames
      <3> QED BY <3>1, <3>2, <3>3 DEF CommitInv, Anchored
    <2>e. CASE NodeStep
      <3>1. phase = "run" /\ phase' = "save" /\ UNCHANGED <<node, input, row>>
        BY <2>e, NodeStepCounters
      <3>2. CASE BranchKept /\ (head'.n # head.n => head'.n # 0)
        <4>1. ASSUME NEW s, Anchored(s)
              PROVE  /\ s.commit_sha # 0 => s.workspace_path /\ head'.n # 0
                     /\ s.workspace_path => wt'.active
          BY <2>e, <3>1, <3>2, <4>1, NodeStepCommit DEF Anchored
        <4>2. Anchored(st)' /\ (InTree' => st'.workspace_path)
          <5>1. Anchored(st) /\ (InTree => st.workspace_path)
            BY <3>1 DEF CommitInv
          <5>2. InTree' => InTree \/ node = "implementation"
            BY <3>1 DEF InTree
          <5>3. st'.workspace_path => wt'.active
            BY <2>e, <4>1, <5>1, NodeStepCommit
          <5>4. InTree' => st'.workspace_path
            BY <2>e, <5>1, <5>2, NodeStepCommit
          <5>5. CASE st'.commit_sha = st.commit_sha
            BY <2>e, <3>1, <4>1, <5>1, <5>3, <5>4, <5>5, NodeStepCommit DEF Anchored
          <5>6. CASE node = "git_commit" /\ CommitAll /\ st'.commit_sha = head'.n
            <6>1. InTree' /\ head'.n # 0
              BY <2>t, <3>1, <5>6, CommitAllType DEF InTree
            <6> QED BY <5>3, <5>4, <6>1 DEF Anchored
          <5> QED BY <2>e, <5>4, <5>5, <5>6, NodeStepCommit
        <4>3. Anchored(input)' /\ Anchored(row.state)'
          BY <3>1, <4>1 DEF CommitInv, Anchored
        <4>4. node \in {"ci_validation", "create_pr"} => st'.commit_sha # 0 /\ head.n # 0
          BY <2>e, <3>1, NodeStepCommit DEF CommitInv, Anchored
        <4>5. pr' # 0
          BY <2>e, <4>4, NodeStepCommit DEF CommitInv
        <4> QED BY <3>1, <4>2, <4>3, <4>4, <4>5 DEF CommitInv
      <3>3. CASE node = "implementation" /\ ~wt.active /\ head' = FreshBranch
        <4>1. /\ ~st.workspace_path /\ ~input.workspace_path /\ ~row.state.workspace_path
              /\ st.commit_sha = 0 /\ input.commit_sha = 0 /\ row.state.commit_sha = 0
          BY <3>1, <3>3 DEF CommitInv, Anchored
        <4>2. st'.commit_sha = 0 /\ st'.workspace_path /\ wt'.active /\ pr' = pr
          BY <2>e, <3>3, <4>1, NodeStepCommit
        <4> QED BY <3>1, <3>3, <4>1, <4>2 DEF CommitInv, Anchored
      <3>4. CommitAll => head'.n # 0
        BY <2>t, CommitAllType
      <3> QED BY <2>e, <3>2, <3>3, <3>4, NodeStepCommit DEF BranchKept
    <2>f. CASE Finalize
      BY <2>f, EndRunCommit DEF Finalize, CommitInv, Anchored
    <2>g. CASE RecursionLimitReached
      <3>1. row'.state = [input EXCEPT !.outcome = "HUMAN_REVIEW_REQUIRED", !.halt_reason = TRUE]
        BY <2>g DEF RecursionLimitReached
      <3>2. row'.state.commit_sha = input.commit_sha /\ row'.state.workspace_path = input.workspace_path
        BY <2>t, <3>1 DEF AgentState
      <3>3. input.commit_sha # 0 => input.workspace_path /\ head.n # 0
        BY DEF CommitInv, Anchored
      <3> QED BY <2>g, <3>2, <3>3, EndRunCommit DEF RecursionLimitReached
    <2>h. CASE CheckpointFails \/ Crash
      <3>1. row'.state = row.state /\ (EndRun(TRUE) \/ EndRun(FALSE))
        BY <2>h DEF CheckpointFails, Crash, TypeInv, TypeOK
      <3>2. row.state.commit_sha # 0 => row.state.workspace_path /\ head.n # 0
        BY DEF CommitInv, Anchored
      <3> QED BY <3>1, <3>2, EndRunCommit
    <2>i. CASE Terminated \/ UNCHANGED vars
      <3>1. UNCHANGED vars
        BY <2>i DEF Terminated
      <3> QED BY <3>1 DEF vars, CommitInv, Anchored, InTree
    <2> QED BY <2>a, <2>b, <2>c, <2>d, <2>e, <2>f, <2>g, <2>h, <2>i DEF Next, WorkerStep
  <1> QED BY <1>1, <1>2, TypeInvariance, PTL DEF Spec

(* No pull request is opened on a branch without a commit, through any crashes
   and resumes, as long as the worktree outlives the worker and implementation
   does not raise. *)
THEOREM PullRequestBacked == Spec => []PullRequestHasCommit
  <1>1. CommitInv => PullRequestHasCommit
    BY DEF CommitInv, PullRequestHasCommit
  <1> QED BY <1>1, CommitInvariance, PTL

-----------------------------------------------------------------------------
(* What a reviewer is shown after one uninterrupted run *)

Backed == pr = head.n /\ head.n # 0 /\ head.ci \in {"PASSED", "SKIPPED"}

(* While the run goes on, AgentState names the newest commit of the branch, and
   each node past CI finds what its predecessor established. *)
RunInv ==
  /\ runs = 1
  /\ st.commit_sha = head.n
  /\ node \in {"plan", "repository_analysis", "risk_assessment", "implementation"} => head.n = 0
  /\ head.n # 0 => wt.active
  /\ node \in {"ci_validation", "create_pr"} => head.n # 0
  /\ node = "ci_validation" /\ phase = "save" => head.ci = st.ci_status /\ head.ci # "unset"
  /\ node = "create_pr" => head.ci \in {"PASSED", "SKIPPED"} /\ (phase = "save" => Backed)
  /\ node = "human_review" => Backed /\ (phase = "save" => approval)
  /\ st.outcome = "READY_FOR_REVIEW" =>
       /\ \/ node = "human_review" /\ phase = "save"
          \/ node = "END"
       /\ Backed /\ approval

BackedInv ==
  IF phase = "idle"
  THEN \/ runs = 0 /\ row.status = "QUEUED" /\ row.state = initial_state /\ head.n = 0
       \/ /\ runs = 1
          /\ row.status = "READY_FOR_REVIEW" => Backed /\ approval
  ELSE RunInv

(* The nodes between a commit and its review. *)
ReviewNodes == {"git_commit", "ci_validation", "create_pr", "human_review"}

(* What the nodes do that a review rests on. *)
LEMMA NodeStepReview ==
  ASSUME TypeInv, NodeStep, \A n \in ReviewNodes : ~Unreliable(n),
         node \in {"ci_validation", "create_pr"} => wt.active
  PROVE  /\ node \notin {"implementation", "git_commit", "ci_validation"} => head' = head
         /\ node = "ci_validation" =>
              /\ st'.ci_status \in CIOutcomes
              /\ head' = IF st.commit_sha = head.n THEN [head EXCEPT !.ci = st'.ci_status] ELSE head
         /\ node = "create_pr" => pr' = head.n
         /\ node = "human_review" => approval' /\ st'.outcome = "READY_FOR_REVIEW"
         /\ node # "human_review" => approval' = approval
         /\ node \notin {"human_review", "halt"} => st'.outcome = st.outcome
         /\ node = "halt" => st'.outcome \in {"HUMAN_REVIEW_REQUIRED", st.outcome}
  <1>0. wt \in WorkTree /\ head \in Branch /\ st \in AgentState
    BY DEF TypeInv, TypeOK
  <1>n. st.iteration + 1 \in Nat /\ st.ci_iteration + 1 \in Nat
    BY <1>0, Counters
  <1>r. ASSUME NEW s \in AgentState, NEW w \in WorkTree
        PROVE  RefreshDiff(s, w).outcome = s.outcome
    BY DEF RefreshDiff, AgentState
  <1>1. CASE plan \/ repository_analysis
    BY <1>1 DEF plan, repository_analysis, Runs, Returns
  <1>2. CASE risk_assessment
    <2>1. PICK a, b : st' = [st EXCEPT !.policy_action = a, !.halt_reason = b]
      BY <1>2 DEF risk_assessment, Returns
    <2>2. st'.outcome = st.outcome
      BY <1>0, <2>1 DEF AgentState
    <2> QED BY <1>2, <2>2 DEF risk_assessment, Runs
  <1>3. CASE implementation
    <2>1. PICK w : CreateWorkspace(w) /\ AgentWrites(w)
      BY <1>3 DEF implementation
    <2>2. wt' \in WorkTree
      BY <1>0, <2>1, CreateWorkspaceType, AgentWritesType DEF TypeInv, TypeOK
    <2> DEFINE u == RefreshDiff(st, wt')
    <2>3. u \in AgentState /\ u.outcome = st.outcome
      BY <1>0, <1>r, <2>2, RefreshDiffType
    <2>4. st' = [u EXCEPT !.workspace_path = TRUE]
      BY <1>3 DEF implementation, Returns
    <2> HIDE DEF u
    <2>5. st'.outcome = st.outcome
      BY <2>3, <2>4 DEF AgentState
    <2> QED BY <1>3, <2>5 DEF implementation, Runs
  <1>4. CASE test_generation \/ debugging \/ ci_debugging
    <2>1. /\ AgentWrites(wt) /\ UNCHANGED <<head, pr, approval>>
          /\ node \in {"test_generation", "debugging", "ci_debugging"}
      BY <1>4 DEF test_generation, debugging, ci_debugging, Runs
    <2>2. wt' \in WorkTree
      BY <1>0, <2>1, AgentWritesType DEF TypeInv, TypeOK
    <2>3. st'.outcome = st.outcome
      <3>1. CASE test_generation
        BY <1>0, <1>r, <2>2, <3>1 DEF test_generation, Returns
      <3>2. CASE debugging
        <4> DEFINE u == [st EXCEPT !.iteration = @ + 1]
        <4>1. u \in AgentState /\ st' = RefreshDiff(u, wt')
          BY <1>0, <1>n, <3>2, CountersType DEF debugging, Returns
        <4>2. u.outcome = st.outcome
          BY <1>0 DEF AgentState
        <4> HIDE DEF u
        <4> QED BY <1>r, <2>2, <4>1, <4>2
      <3>3. CASE ci_debugging
        <4>1. PICK h \in BOOLEAN :
                st' = RefreshDiff([st EXCEPT !.ci_iteration = @ + 1, !.ci_requires_human = h], wt')
          BY <3>3 DEF ci_debugging, Returns
        <4> DEFINE u == [st EXCEPT !.ci_iteration = @ + 1, !.ci_requires_human = h]
        <4>2. u \in AgentState /\ st' = RefreshDiff(u, wt')
          BY <1>0, <1>n, <4>1, CountersType
        <4>3. u.outcome = st.outcome
          BY <1>0 DEF AgentState
        <4> HIDE DEF u
        <4> QED BY <1>r, <2>2, <4>2, <4>3
      <3> QED BY <1>4, <3>1, <3>2, <3>3
    <2> QED BY <2>1, <2>3
  <1>5. CASE run_tests
    <2>1. UNCHANGED <<head, pr, approval>> /\ node = "run_tests"
      BY <1>5 DEF run_tests, Runs
    <2>2. CASE Returns([st EXCEPT !.test_run_ok = TRUE])
      <3>1. st'.outcome = st.outcome
        BY <1>0, <2>2 DEF Returns, AgentState
      <3> QED BY <2>1, <3>1
    <2>3. ASSUME NEW ok \in BOOLEAN, NEW sig \in Sigs,
                 Returns(RefreshDiff([st EXCEPT !.test_run_ok = ok,
                                                !.prev_signatures = st.last_signatures,
                                                !.last_signatures = sig], wt))
          PROVE  st'.outcome = st.outcome
      <3> DEFINE u == [st EXCEPT !.test_run_ok = ok, !.prev_signatures = st.last_signatures,
                                 !.last_signatures = sig]
      <3>1. u \in AgentState /\ u.outcome = st.outcome
        BY <1>0 DEF AgentState
      <3>2. st' = RefreshDiff(u, wt)
        BY <2>3 DEF Returns
      <3> HIDE DEF u
      <3> QED BY <1>0, <1>r, <3>1, <3>2
    <2> QED BY <1>5, <2>1, <2>2, <2>3 DEF run_tests
  <1>6. CASE security_policy
    <2>0. PICK a : Returns([RefreshDiff(st, wt) EXCEPT !.policy_action = a,
                                                       !.halt_reason = @ \/ a = "BLOCK"])
      BY <1>6 DEF security_policy
    <2> DEFINE u == RefreshDiff(st, wt)
               b == u.halt_reason \/ a = "BLOCK"
    <2>1. st' = [u EXCEPT !.policy_action = a, !.halt_reason = b]
      BY <2>0 DEF Returns
    <2>2. u \in AgentState /\ u.outcome = st.outcome
      BY <1>0, <1>r, RefreshDiffType
    <2> HIDE DEF b, u
    <2>3. st'.outcome = st.outcome
      BY <2>1, <2>2 DEF AgentState
    <2> QED BY <1>6, <2>3 DEF security_policy, Runs
  <1>7. CASE git_commit
    <2>1. UNCHANGED <<pr, approval>> /\ node = "git_commit"
      BY <1>7 DEF git_commit, Runs
    <2>2. st'.outcome = st.outcome
      BY <1>0, <1>7 DEF git_commit, Returns, AgentState
    <2> QED BY <2>1, <2>2
  <1>8. CASE ci_validation
    <2>1. PICK c \in CIOutcomes :
            /\ st' = [st EXCEPT !.ci_status = c]
            /\ head' = IF st.commit_sha = head.n THEN [head EXCEPT !.ci = c] ELSE head
      BY <1>8 DEF ci_validation, Returns
    <2>2. st'.ci_status = c /\ st'.outcome = st.outcome
      BY <1>0, <2>1 DEF AgentState
    <2> QED BY <1>8, <2>1, <2>2 DEF ci_validation, Runs
  <1>9. CASE create_pr
    BY <1>9 DEF create_pr, Returns, Runs
  <1>10. CASE human_review
    <2>1. st'.outcome = "READY_FOR_REVIEW"
      BY <1>0, <1>10 DEF human_review, Returns, AgentState
    <2> QED BY <1>10, <2>1 DEF human_review, Runs
  <1>11. CASE halt
    <2>1. st'.outcome = "HUMAN_REVIEW_REQUIRED"
      BY <1>0, <1>11 DEF halt, Returns, AgentState
    <2> QED BY <1>11, <2>1 DEF halt, Runs
  <1>12. CASE NodeViolates \/ NodeFails
    <2>1. st'.outcome = st.outcome
      BY <1>0, <1>12 DEF NodeViolates, NodeFails, Returns, AgentState
    <2>2. node \notin {"ci_validation", "create_pr", "human_review"}
      BY <1>12 DEF NodeViolates, NodeFails, NeedsWorkspace, Unreliable, ReviewNodes
    <2>3. PartialEffects(node) \/ UNCHANGED <<head, approval>>
      BY <1>12 DEF NodeViolates, NodeFails
    <2>4. approval' = approval /\ (node \notin {"implementation", "git_commit"} => head' = head)
      <3>1. CASE UNCHANGED <<head, approval>>
        BY <3>1
      <3>2. CASE PartialEffects(node)
        BY <2>2, <3>2 DEF PartialEffects
      <3> QED BY <2>3, <3>1, <3>2
    <2> QED BY <2>1, <2>2, <2>4
  <1> QED BY <1>1, <1>2, <1>3, <1>4, <1>5, <1>6, <1>7, <1>8, <1>9, <1>10, <1>11, <1>12 DEF NodeStep

(* A node leaves to the next one what the review rests on. *)
LEMMA NodeStepRun ==
  ASSUME TypeInv, RunInv, NodeStep, \A n \in ReviewNodes : ~Unreliable(n)
  PROVE  RunInv'
  <1>0. wt \in WorkTree /\ head \in Branch /\ head.n \in Nat /\ FreshBranch.n = 0
    BY DEF TypeInv, TypeOK, Branch, FreshBranch
  <1>1. phase = "run" /\ phase' = "save" /\ UNCHANGED <<node, runs>> /\ node \in NodeNames
    BY NodeStepCounters DEF TypeInv, AtNode
  <1>2. node # "END" /\ st.outcome # "READY_FOR_REVIEW"
    BY <1>1 DEF NodeNames, RunInv
  <1>3. node \in {"ci_validation", "create_pr"} => wt.active
    BY DEF RunInv
  <1>4. ~Unreliable("git_commit") /\ (CommitAll => head'.n = head.n + 1)
    BY <1>0, CommitAllType DEF ReviewNodes
  <1>5. /\ \/ head'.n = head.n
           \/ node = "implementation" /\ head'.n = 0
           \/ node = "git_commit" /\ wt.active /\ head'.n # head.n
        /\ st'.commit_sha = head'.n
    <2>1. CASE head'.n = head.n
      BY <2>1, NodeStepCommit DEF RunInv
    <2>2. CASE node = "implementation" /\ head' = FreshBranch
      BY <1>0, <2>2, NodeStepCommit DEF RunInv
    <2>3. CASE node = "git_commit" /\ wt.active /\ CommitAll
      BY <1>0, <1>4, <2>3, NodeStepCommit DEF RunInv
    <2> QED BY <2>1, <2>2, <2>3, NodeStepCommit DEF BranchKept
  <1>6. node \in {"plan", "repository_analysis", "risk_assessment", "implementation"} => head'.n = 0
    BY <1>5 DEF RunInv
  <1>7. head'.n # 0 => wt'.active
    BY <1>5, NodeStepCommit DEF RunInv
  <1>8. node = "ci_validation" => head'.n # 0 /\ head'.ci = st'.ci_status /\ head'.ci # "unset"
    <2> SUFFICES ASSUME node = "ci_validation"
                 PROVE  head'.n # 0 /\ head'.ci = st'.ci_status /\ head'.ci # "unset"
      OBVIOUS
    <2>1. head' = [head EXCEPT !.ci = st'.ci_status] /\ st'.ci_status \in CIOutcomes /\ head.n # 0
      BY <1>3, NodeStepReview DEF RunInv
    <2> QED BY <1>0, <2>1 DEF Branch, CIOutcomes
  <1>9. node = "create_pr" => head'.n # 0 /\ Backed'
    BY <1>3, NodeStepReview DEF RunInv, Backed
  <1>10. node = "human_review" => Backed' /\ approval'
    BY <1>3, NodeStepReview, NodeStepCommit DEF RunInv, Backed
  <1>11. st'.outcome = "READY_FOR_REVIEW" => node = "human_review"
    BY <1>2, <1>3, NodeStepReview
  <1>12. node = "create_pr" => head'.ci \in {"PASSED", "SKIPPED"}
    BY <1>9 DEF Backed
  <1> QED BY <1>1, <1>2, <1>5, <1>6, <1>7, <1>8, <1>9, <1>10, <1>11, <1>12 DEF RunInv

(* One run that is not interrupted keeps its books. *)
LEMMA BackedInvariance ==
  ASSUME MaxRuns = 1, \A n \in ReviewNodes : ~Unreliable(n)
  PROVE  Spec => []BackedInv
  <1>1. Init => BackedInv
    BY DEF Init, BackedInv, FreshBranch
  <1>2. TypeInv /\ BackedInv /\ [Next]_vars => BackedInv'
    <2> SUFFICES ASSUME TypeInv, BackedInv, [Next]_vars PROVE BackedInv'
      OBVIOUS
    <2>t. /\ wt \in WorkTree /\ head \in Branch /\ st \in AgentState
          /\ (phase = "save" => node \in NodeNames) /\ phase \in {"idle", "enter", "run", "save"}
      BY DEF TypeInv, TypeOK, AtNode
    <2>i. initial_state.commit_sha = 0 /\ initial_state.outcome = "unset"
      BY DEF initial_state
    <2>a. CASE Begin
      <3>1. /\ runs < 1 /\ phase = "idle" /\ runs' = runs + 1 /\ st' = row.state
            /\ node' = "plan" /\ phase' = "enter" /\ head' = head
        BY <2>a DEF Begin
      <3>2. runs = 0 /\ row.state = initial_state /\ head.n = 0
        BY <3>1 DEF BackedInv
      <3> QED BY <2>i, <3>1, <3>2 DEF BackedInv, RunInv
    <2>b. CASE BadRepositoryPath
      <3>1. runs < 1 /\ phase = "idle" /\ phase' = "idle" /\ runs' = runs + 1 /\ row'.status = "FAILED"
        BY <2>b DEF BadRepositoryPath, TypeInv, TypeOK
      <3>2. runs = 0
        BY <3>1 DEF BackedInv
      <3> QED BY <3>1, <3>2 DEF BackedInv
    <2>c. CASE EnterNode
      <3>1. /\ phase = "enter" /\ phase' = "run" /\ node # "END"
            /\ UNCHANGED <<node, st, wt, head, pr, approval, runs>>
        BY <2>c DEF EnterNode
      <3> QED BY <3>1 DEF BackedInv, RunInv, Backed
    <2>d. CASE SaveNode
      <3>1. /\ phase = "save" /\ phase' = "enter" /\ node' = NextNode(node, st)
            /\ UNCHANGED <<st, wt, head, pr, approval, runs>> /\ RunInv /\ node \in NodeNames
        BY <2>d, <2>t DEF SaveNode, BackedInv
      <3>2. /\ node' \in {"plan", "repository_analysis", "risk_assessment", "implementation"}
                 => node \in {"plan", "repository_analysis", "risk_assessment"}
            /\ node' = "ci_validation" => st.commit_sha # 0
            /\ node' = "create_pr" =>
                 node = "ci_validation" /\ st.ci_status \in {"PASSED", "SKIPPED", "unset"}
            /\ node' = "human_review" => node = "create_pr"
            /\ node = "human_review" => node' = "END"
        <4>1. after_ci(st) = "create_pr" => st.ci_status \in {"PASSED", "SKIPPED", "unset"}
          BY DEF after_ci
        <4>2. NextNode("ci_validation", st) = after_ci(st)
          BY DEF NextNode
        <4>3. /\ node' \in {"plan", "repository_analysis", "risk_assessment", "implementation"}
                   => node \in {"plan", "repository_analysis", "risk_assessment"}
              /\ node' = "ci_validation" => st.commit_sha # 0
              /\ node' = "create_pr" => node = "ci_validation"
              /\ node' = "human_review" => node = "create_pr"
              /\ node = "human_review" => node' = "END"
          BY <3>1 DEF NextNode, after_risk, after_tests, after_policy, after_commit,
             after_ci, NodeNames
        <4> QED BY <3>1, <4>1, <4>2, <4>3
      <3>3. /\ node' = "ci_validation" => head.n # 0
            /\ node' = "create_pr" => head.n # 0 /\ head.ci \in {"PASSED", "SKIPPED"}
            /\ node' = "human_review" => Backed
            /\ st.outcome = "READY_FOR_REVIEW" => node' = "END" /\ Backed /\ approval
        BY <3>1, <3>2 DEF RunInv, NodeNames
      <3>4. Backed => Backed'
        BY <3>1 DEF Backed
      <3> QED BY <3>1, <3>2, <3>3, <3>4 DEF BackedInv, RunInv
    <2>e. CASE NodeStep
      <3>1. phase = "run" /\ phase' = "save"
        BY <2>e, NodeStepCounters
      <3> QED BY <2>e, <3>1, NodeStepRun DEF BackedInv
    <2>f. CASE Finalize
      <3>1. /\ phase = "enter" /\ phase' = "idle" /\ row'.status = FinalStatus(st)
            /\ UNCHANGED <<head, pr, approval, runs>>
        BY <2>f DEF Finalize, EndRun
      <3>2. FinalStatus(st) = "READY_FOR_REVIEW" => st.outcome = "READY_FOR_REVIEW"
        BY DEF FinalStatus
      <3> QED BY <3>1, <3>2 DEF BackedInv, RunInv, Backed
    <2>g. CASE RecursionLimitReached \/ CheckpointFails
      <3>1. /\ phase # "idle" /\ phase' = "idle" /\ row'.status # "READY_FOR_REVIEW" /\ runs' = runs
        BY <2>g DEF RecursionLimitReached, CheckpointFails, EndRun, TypeInv, TypeOK
      <3> QED BY <3>1 DEF BackedInv, RunInv
    <2>h. ~Crash
      <3>1. phase # "idle" => runs = 1
        BY DEF BackedInv, RunInv
      <3>2. Crash => phase # "idle" /\ runs < MaxRuns
        BY Zenon DEF Crash
      <3> QED BY <3>1, <3>2
    <2>j. CASE Terminated \/ UNCHANGED vars
      <3>1. UNCHANGED vars
        BY <2>j DEF Terminated
      <3> QED BY <3>1 DEF vars, BackedInv, RunInv, Backed
    <2> QED BY <2>a, <2>b, <2>c, <2>d, <2>e, <2>f, <2>g, <2>h, <2>j DEF Next, WorkerStep
  <1> QED BY <1>1, <1>2, TypeInvariance, PTL DEF Spec

(* After one uninterrupted run in which git_commit, ci_validation, create_pr
   and human_review do not raise, whatever the other nodes do, a task that is
   ready for review has a pull request on the newest commit, for which CI did
   not fail, and an approval row. *)
THEOREM ReviewBacked ==
  ASSUME MaxRuns = 1, \A n \in ReviewNodes : ~Unreliable(n)
  PROVE  Spec => []ReviewIsBacked
  <1>1. TypeInv /\ BackedInv => ReviewIsBacked
    <2> SUFFICES ASSUME TypeInv, BackedInv, row.status = "READY_FOR_REVIEW", phase = "idle"
                 PROVE  pr = head.n /\ pr > 0 /\ head.ci \in {"PASSED", "SKIPPED"} /\ approval
      BY DEF ReviewIsBacked
    <2>1. Backed /\ approval
      BY DEF BackedInv
    <2>2. head.n \in Nat
      BY DEF TypeInv, TypeOK, Branch
    <2> QED BY <2>1, <2>2 DEF Backed
  <1> QED BY <1>1, BackedInvariance, TypeInvariance, PTL

=============================================================================
