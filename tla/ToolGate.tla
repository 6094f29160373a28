------------------------------ MODULE ToolGate ------------------------------
(***************************************************************************)
(* What an agent may do to the files of a task: the tool loop with its     *)
(* turn limit and three gates, the write tools, the audit rows, and the    *)
(* policy gate in front of a commit.                                       *)
(*                                                                         *)
(*   agents/base.py, agents/*_agent.py, tools/registry.py, tools/base.py,  *)
(*   tools/filesystem/*.py, tools/workspace.py, graph/context.py,          *)
(*   persistence/repositories/audit.py                                     *)
(*                                                                         *)
(* The model is free to ask for any tool with any path, and to stop. Which *)
(* agent runs when is module Workflow; here the analysing agents run       *)
(* first, then implementation, then the other changing ones in any order,  *)
(* at most MaxSessions of them. A crash or a second delivery of the task   *)
(* starts again from the analysis with the state of the checkpoint. A node *)
(* that raises leaves its part of the state as it was, and the graph goes  *)
(* on (supervisor.py).                                                     *)
(* A path argument is a spelling; it stands for a file of the root, or for *)
(* a place outside it. Reads, searches and builds change no source file.   *)
(***************************************************************************)
EXTENDS Policy

CONSTANTS
  Files,        \* files a root may hold
  Outside,      \* where a path leads that escapes the root
  Target,       \* the place a spelling resolves to
  Name,         \* the repository-relative spelling of a file, as git prints it
  InitialFiles, \* files of the repository
  Tools,        \* tools the model may ask for
  MaxTurns,     \* max_tool_turns
  MaxCalls,     \* tool calls in one response
  MaxSessions,  \* agent sessions in a behaviour
  MaxErrors,    \* failing database, event, git and model calls, and crashes
  NoAgent, NoCall

READ == {"read_file", "search_code", "list_directory", "find_symbol", "find_references",
         "get_dependencies", "git_diff", "git_status", "run_build", "run_tests"}
WRITE == {"apply_patch", "create_file"}

Analysts == {"repository", "risk"}
Changers == {"implementation", "testing", "debugging", "ci"}

ASSUME ToolGateAssumption ==
  /\ Outside \notin Files
  /\ Target \in [Spellings -> Files \cup {Outside}]
  /\ Name \in [Files -> Spellings] /\ \A f \in Files : Target[Name[f]] = f
  /\ InitialFiles \subseteq Files
  /\ MaxTurns \in Nat \ {0} /\ MaxCalls \in Nat \ {0} /\ MaxSessions \in Nat /\ MaxErrors \in Nat
  /\ Tools \subseteq READ \cup WRITE /\ "same" \notin Contents
  /\ NoAgent \notin Analysts \cup Changers

VARIABLES
  stage,      \* analysis, implement, change, commit (after_policy), review or halted
  agent,      \* the agent whose session runs
  pc,         \* where its loop stands
  turn,       \* its turn
  calls,      \* tool calls of the response that are still to be executed
  call,       \* the call being executed: tool, path and whether its result is ok
  exists,     \* per root: the files there
  changed,    \* per root: what each file gained since HEAD, or "same"
  registered, \* has the WorkspaceManager a worktree for the task?
  raised,     \* did creating it ever raise something other than a violation?
  policy_action, risk_level,   \* AgentState
  gated,      \* did the last security_policy return, with a verdict on the diff?
  history,    \* what was committed after such a verdict: files with their content
  recent,     \* the part of it committed since the last risk assessment
  unaudited,  \* tool calls asked for minus rows in tool_calls
  unrecorded, \* writes to files minus rows in file_changes
  sessions, errors    \* so far

vars == <<stage, agent, pc, turn, calls, call, exists, changed, registered, raised,
          policy_action, risk_level, gated, history, recent, unaudited, unrecorded,
          sessions, errors>>

loopVars == <<agent, pc, turn, calls, call>>
treeVars == <<exists, changed, registered, raised>>
auditVars == <<unaudited, unrecorded>>
verdictVars == <<policy_action, risk_level, gated, history, recent>>
gateVars == <<stage, verdictVars>>

Roots == {"checkout", "worktree"}

AGENT_TOOL_ALLOWLIST(a) ==
  CASE a = "repository" -> {"search_code", "read_file", "list_directory", "find_symbol",
                            "find_references", "get_dependencies"}
    [] a = "implementation" -> {"read_file", "search_code", "find_symbol", "list_directory",
                                "git_diff"} \cup WRITE
    [] a = "testing" -> {"read_file", "search_code", "find_symbol", "list_directory",
                         "run_build"} \cup WRITE
    [] a = "debugging" -> {"read_file", "search_code", "find_symbol", "find_references",
                           "git_diff"} \cup WRITE
    [] a = "ci" -> {"read_file", "search_code", "apply_patch", "git_diff"}
    [] a = "risk" -> {"read_file", "git_diff", "list_directory"}

Changes == Contents \cup {"same"}

Init ==
  /\ stage = "analysis" /\ agent = NoAgent /\ pc = "idle"
  /\ turn = 0 /\ calls = 0 /\ call = NoCall
  /\ exists = [r \in Roots |-> InitialFiles]
  /\ changed = [r \in Roots |-> [f \in Files |-> "same"]]
  /\ registered = FALSE /\ raised = FALSE
  /\ policy_action = "ALLOW" /\ risk_level = "LOW" /\ gated = FALSE
  /\ history = {} /\ recent = {}
  /\ unaudited = 0 /\ unrecorded = 0
  /\ sessions = 0 /\ errors = 0

-----------------------------------------------------------------------------
(* ToolContext *)

(* _tool_context(in_workspace) and ToolContext.root: the analysing agents read
   the repository, and so does, and writes, a changing agent without a worktree. *)
Root == IF agent \in Changers /\ registered THEN "worktree" ELSE "checkout"

write_allowed_worktree ==         \* variant: a worktree is always writable
  registered \/ policy_action # "BLOCK"

write_allowed == policy_action # "BLOCK"

(* resolve_inside *)
Escapes(path) == Target[path] = Outside

-----------------------------------------------------------------------------
(* The loop of Agent.run *)

EndSession ==
  /\ agent' = NoAgent /\ pc' = "idle" /\ turn' = 0 /\ calls' = 0 /\ call' = NoCall

StartLoop(a) ==
  /\ pc = "idle" /\ sessions < MaxSessions
  /\ sessions' = sessions + 1
  /\ agent' = a /\ pc' = "generate" /\ turn' = 1
  /\ UNCHANGED <<calls, call>>

StartSession(a) ==
  /\ a \in (IF stage = "analysis" THEN Analysts
           ELSE IF stage = "change" THEN Changers \ {"implementation"} ELSE {})
  /\ StartLoop(a)
  /\ UNCHANGED <<treeVars, gateVars, auditVars, errors>>

(* llm.generate returns tool calls. *)
WantsTools ==
  /\ pc = "generate"
  /\ \E n \in 1 .. MaxCalls : calls' = n
  /\ pc' = "invoke"
  /\ UNCHANGED <<agent, turn, call, treeVars, gateVars, auditVars, sessions, errors>>

(* llm.generate returns an answer. *)
EndTurn ==
  /\ pc = "generate" /\ agent # "risk"
  /\ EndSession
  /\ UNCHANGED <<treeVars, gateVars, auditVars, sessions, errors>>

(* What follows a risk assessment: RiskAgent.assess, risk_assessment and
   after_risk, on the candidate files the analysis has named. A resumed
   execution assesses again, and its verdict replaces the risk of the commits
   made before. *)
Assess(files, level) ==
  LET decision == evaluate_candidates(files)
  IN /\ policy_action' = decision.action
     /\ risk_level' = max_risk({level, decision.risk})
     /\ recent' = {}
     /\ stage' = IF decision.action = "BLOCK" THEN "halted" ELSE "implement"

RiskAssessed ==
  /\ pc = "generate" /\ agent = "risk"
  /\ EndSession
  /\ \E files \in SUBSET Spellings, level \in Risks : Assess(files, level)
  /\ UNCHANGED <<gated, history, treeVars, auditVars, sessions, errors>>

NextCall_one_more ==              \* variant: range(1, max_tool_turns + 2)
  \/ /\ calls > 1
     /\ pc' = "invoke" /\ calls' = calls - 1 /\ call' = NoCall
     /\ UNCHANGED <<agent, turn, gateVars>>
  \/ /\ calls = 1 /\ turn <= MaxTurns
     /\ pc' = "generate" /\ turn' = turn + 1 /\ calls' = 0 /\ call' = NoCall
     /\ UNCHANGED <<agent, gateVars>>
  \/ /\ calls = 1 /\ turn > MaxTurns
     /\ EndSession /\ UNCHANGED gateVars

(* The next call of the response, the next turn, or max_tool_turns. A session
   of the risk agent that ran out of turns is assessed like any other. *)
NextCall ==
  \/ /\ calls > 1
     /\ pc' = "invoke" /\ calls' = calls - 1 /\ call' = NoCall
     /\ UNCHANGED <<agent, turn, gateVars>>
  \/ /\ calls = 1 /\ turn < MaxTurns
     /\ pc' = "generate" /\ turn' = turn + 1 /\ calls' = 0 /\ call' = NoCall
     /\ UNCHANGED <<agent, gateVars>>
  \/ /\ calls = 1 /\ turn = MaxTurns /\ agent # "risk"
     /\ EndSession /\ UNCHANGED gateVars
  \/ /\ calls = 1 /\ turn = MaxTurns /\ agent = "risk"
     /\ EndSession /\ UNCHANGED <<gated, history>>
     /\ \E files \in SUBSET Spellings, level \in Risks : Assess(files, level)

-----------------------------------------------------------------------------
(* _execute_tool *)

Blocked(tool, path) == tool \in WRITE /\ check_path_writable(path).action = "BLOCK"

(* Gates 1 and 2. A refusal goes to the audit at once; a block also ends the
   session once it is audited. *)
Invoke(tool, path) ==
  LET allowed == tool \in AGENT_TOOL_ALLOWLIST(agent)
  IN /\ pc = "invoke"
     /\ unaudited' = unaudited + 1
     /\ call' = [tool |-> tool, path |-> path, ok |-> FALSE]
     /\ pc' = CASE ~allowed -> "audit"
                [] allowed /\ Blocked(tool, path) -> "blocked"
                [] allowed /\ ~Blocked(tool, path) -> "run"
     /\ UNCHANGED <<agent, turn, calls, treeVars, gateVars, unrecorded, sessions, errors>>

(* A file is written, whatever becomes of the call afterwards. *)
Written(f) ==
  /\ exists' = [exists EXCEPT ![Root] = @ \cup {f}]
  /\ \E c \in Contents : changed' = [changed EXCEPT ![Root][f] = c]
  /\ unrecorded' = unrecorded + 1
  /\ UNCHANGED <<registered, raised>>

(* Is the file there that the tool needs, or absent that it creates? *)
Applicable(tool, f) ==
  IF tool = "apply_patch" THEN f \in exists[Root] ELSE f \notin exists[Root]

RunWrite ==
  /\ pc = "run" /\ call.tool \in WRITE
  /\ write_allowed /\ ~Escapes(call.path) /\ Applicable(call.tool, Target[call.path])
  /\ Written(Target[call.path])
  /\ pc' = "audit"
  /\ call' = [call EXCEPT !.ok = TRUE]
  /\ UNCHANGED <<agent, turn, calls, gateVars, unaudited, sessions, errors>>

(* No permission, a path that escapes, a file that is missing or exists, an
   anchor that is absent or ambiguous: an error result. *)
RunRefused ==
  /\ pc = "run"
  /\ pc' = "audit"
  /\ UNCHANGED <<agent, turn, calls, call, treeVars, gateVars, auditVars, sessions, errors>>

(* A reading tool succeeds; read_file and list_directory resolve their path. *)
RunRead ==
  /\ pc = "run" /\ call.tool \in READ
  /\ ~(call.tool \in {"read_file", "list_directory"} /\ Escapes(call.path))
  /\ pc' = "audit"
  /\ call' = [call EXCEPT !.ok = TRUE]
  /\ UNCHANGED <<agent, turn, calls, treeVars, gateVars, auditVars, sessions, errors>>

(* _audit of a call that returns; a write goes on to record_file_change. *)
Audit ==
  /\ pc = "audit"
  /\ unaudited' = unaudited - 1
  /\ \/ /\ call.ok /\ call.tool \in WRITE
        /\ pc' = "record" /\ UNCHANGED <<agent, turn, calls, call, gateVars>>
     \/ /\ ~(call.ok /\ call.tool \in WRITE)
        /\ NextCall
  /\ UNCHANGED <<treeVars, unrecorded, sessions, errors>>

RecordFileChange_skipped ==       \* variant: only new files are recorded
  /\ pc = "record"
  /\ unrecorded' = IF call.tool = "create_file" THEN unrecorded - 1 ELSE unrecorded
  /\ NextCall
  /\ UNCHANGED <<treeVars, unaudited, sessions, errors>>

RecordFileChange ==
  /\ pc = "record"
  /\ unrecorded' = unrecorded - 1
  /\ NextCall
  /\ UNCHANGED <<treeVars, unaudited, sessions, errors>>

(* The end of a session by an exception. The risk node goes on to after_risk. *)
Aborted ==
  /\ EndSession
  /\ stage' = CASE agent # "risk" -> stage
                [] agent = "risk" /\ policy_action' = "BLOCK" -> "halted"
                [] agent = "risk" /\ policy_action' # "BLOCK" -> "implement"
  /\ UNCHANGED <<risk_level, gated, history, recent>>

(* PolicyViolationError, after POLICY_BLOCKED and the audit; the supervisor
   leaves BLOCK in the state. *)
ViolationRaised ==
  /\ pc = "blocked"
  /\ unaudited' = unaudited - 1
  /\ policy_action' = "BLOCK"
  /\ Aborted
  /\ UNCHANGED <<treeVars, unrecorded, sessions, errors>>

(* A database, event or model call raises, at any await of the loop. *)
CallRaises ==
  /\ pc \in {"generate", "run", "audit", "blocked", "record"} /\ errors < MaxErrors
  /\ errors' = errors + 1
  /\ UNCHANGED <<policy_action, treeVars, auditVars, sessions>>
  /\ Aborted

(* A write fails half way (no space, an encoding error): the file is changed,
   and the result is an error. *)
WriteRaises ==
  /\ pc = "run" /\ call.tool \in WRITE /\ errors < MaxErrors
  /\ write_allowed /\ ~Escapes(call.path) /\ Applicable(call.tool, Target[call.path])
  /\ errors' = errors + 1
  /\ Written(Target[call.path])
  /\ pc' = "audit"
  /\ UNCHANGED <<agent, turn, calls, call, gateVars, unaudited, sessions>>

-----------------------------------------------------------------------------
(* implementation: the worktree, and the agent in it *)

(* A branch of the repository's HEAD in a new directory. *)
FreshWorktree ==
  /\ registered' = TRUE
  /\ exists' = [exists EXCEPT !["worktree"] = InitialFiles]
  /\ changed' = [changed EXCEPT !["worktree"] = [f \in Files |-> "same"]]
  /\ UNCHANGED raised

implementation ==
  /\ stage = "implement" /\ stage' = "change"
  /\ StartLoop("implementation")
  /\ \/ registered /\ UNCHANGED treeVars
     \/ ~registered /\ FreshWorktree
  /\ UNCHANGED <<verdictVars, auditVars, errors>>

CreateRefused_goes_on ==          \* variant: the supervisor does not set BLOCK
  /\ stage = "implement" /\ pc = "idle" /\ ~registered
  /\ stage' = "change"
  /\ UNCHANGED <<loopVars, treeVars, verdictVars, auditVars, sessions, errors>>

(* create raises WorkspaceViolationError: not a repository, or git refused. *)
CreateRefused ==
  /\ stage = "implement" /\ pc = "idle" /\ ~registered
  /\ stage' = "change" /\ policy_action' = "BLOCK"
  /\ UNCHANGED <<loopVars, treeVars, risk_level, gated, history, recent, auditVars,
                 sessions, errors>>

(* create raises anything else, and the graph goes on without a worktree; or the
   worktree is there and WORKSPACE_CREATED is not published. *)
CreateRaises ==
  /\ stage = "implement" /\ pc = "idle" /\ ~registered /\ errors < MaxErrors
  /\ errors' = errors + 1 /\ stage' = "change"
  /\ \/ raised' = TRUE /\ UNCHANGED <<exists, changed, registered>>
     \/ FreshWorktree
  /\ UNCHANGED <<loopVars, verdictVars, auditVars, sessions>>

-----------------------------------------------------------------------------
(* security_policy and git_commit *)

Diff == {f \in Files : changed["worktree"][f] # "same"}
Added == {changed["worktree"][f] : f \in Diff}

after_policy == IF policy_action' = "BLOCK" THEN "halted" ELSE "commit"

security_policy_forgets ==        \* variant: the risk of an earlier round is dropped
  /\ pc = "idle" /\ stage = "change"
  /\ \E lines \in 0 .. max_lines_changed + 1 :
       LET decision == evaluate({Name[f] : f \in Diff}, Added, lines)
       IN /\ policy_action' = decision.action
          /\ risk_level' = decision.risk
  /\ stage' = after_policy /\ gated' = TRUE
  /\ UNCHANGED <<loopVars, history, recent, treeVars, auditVars, sessions, errors>>

(* The gate over the whole diff, and after_policy. Without a worktree there is
   no diff, and the files are those an earlier node left in the state. *)
security_policy ==
  /\ pc = "idle" /\ stage = "change"
  /\ \E lines \in 0 .. max_lines_changed + 1, stale \in SUBSET Spellings :
       LET decision == IF registered THEN evaluate({Name[f] : f \in Diff}, Added, lines)
                                     ELSE evaluate(stale, {}, 0)
       IN /\ policy_action' = decision.action
          /\ risk_level' = max_risk({risk_level, decision.risk})
  /\ stage' = after_policy /\ gated' = registered
  /\ UNCHANGED <<loopVars, history, recent, treeVars, auditVars, sessions, errors>>

(* git, or one of its events, raises: the verdict, BLOCK too, is lost, and
   after_policy reads the older policy_action. *)
PolicyRaises ==
  /\ pc = "idle" /\ stage = "change" /\ errors < MaxErrors
  /\ errors' = errors + 1
  /\ policy_action' = policy_action /\ stage' = after_policy /\ gated' = FALSE
  /\ UNCHANGED <<loopVars, risk_level, history, recent, treeVars, auditVars, sessions>>

(* after_commit, and what follows it: CI may send the change back to the agents,
   or the execution ends, READY_FOR_REVIEW or halted. *)
AfterCommit == stage' \in {"change", "review", "halted"}

(* A commit of the whole worktree. *)
git_commit ==
  /\ stage = "commit" /\ registered /\ Diff # {}
  /\ LET new == {<<f, changed["worktree"][f]>> : f \in Diff}
     IN IF gated THEN history' = history \cup new /\ recent' = recent \cup new
                 ELSE UNCHANGED <<history, recent>>
  /\ changed' = [changed EXCEPT !["worktree"] = [f \in Files |-> "same"]]
  /\ AfterCommit
  /\ UNCHANGED <<loopVars, exists, registered, raised, policy_action, risk_level, gated,
                 auditVars, sessions, errors>>

(* No worktree is a violation, and no modified_files a request for a halt. After
   a security_policy that raised, modified_files need not be those of the diff. *)
NothingToCommit ==
  /\ stage = "commit" /\ (registered /\ gated => Diff = {})
  /\ policy_action' = "BLOCK" /\ AfterCommit
  /\ UNCHANGED <<loopVars, risk_level, gated, history, recent, treeVars, auditVars,
                 sessions, errors>>

(* git commit fails, or has nothing to commit. *)
CommitFails ==
  /\ stage = "commit" /\ registered /\ errors < MaxErrors
  /\ errors' = errors + 1 /\ AfterCommit
  /\ UNCHANGED <<loopVars, verdictVars, treeVars, auditVars, sessions>>

-----------------------------------------------------------------------------
(* A second execution of the task, from the checkpoint *)

(* The worktree is registered still, or adopted where the checkpoint names it and
   its directory is there. *)
Resumed ==
  /\ stage' = "analysis"
  /\ \/ UNCHANGED registered
     \/ registered' = FALSE
  /\ UNCHANGED <<exists, changed, raised, verdictVars, auditVars, sessions>>

(* The worker dies in the middle of anything. *)
Crash ==
  /\ stage \notin {"review", "halted"} /\ errors < MaxErrors
  /\ errors' = errors + 1
  /\ EndSession /\ Resumed

(* READY_FOR_REVIEW is no terminal status: another delivery claims the task. *)
Redelivered ==
  /\ stage = "review"
  /\ Resumed
  /\ UNCHANGED <<loopVars, errors>>

-----------------------------------------------------------------------------
LoopStep ==
  \/ WantsTools \/ EndTurn \/ RiskAssessed
  \/ \E tool \in Tools, path \in Spellings : Invoke(tool, path)
  \/ RunWrite \/ RunRefused \/ RunRead
  \/ Audit \/ RecordFileChange \/ ViolationRaised

Next ==
  \/ \E a \in Analysts \cup Changers : StartSession(a)
  \/ implementation \/ CreateRefused \/ CreateRaises
  \/ LoopStep \/ CallRaises \/ WriteRaises
  \/ security_policy \/ PolicyRaises
  \/ git_commit \/ NothingToCommit \/ CommitFails
  \/ Crash \/ Redelivered

Spec == Init /\ [][Next]_vars

-----------------------------------------------------------------------------
(* Properties *)

(* Type invariant: in particular a session never takes a turn beyond
   max_tool_turns, whatever the model keeps asking for. *)
TypeOK ==
  /\ stage \in {"analysis", "implement", "change", "commit", "review", "halted"}
  /\ agent \in Analysts \cup Changers \cup {NoAgent}
  /\ pc \in {"idle", "generate", "invoke", "run", "audit", "blocked", "record"}
  /\ turn \in 0 .. MaxTurns /\ calls \in 0 .. MaxCalls
  /\ call \in [tool : Tools, path : Spellings, ok : BOOLEAN] \cup {NoCall}
  /\ exists \in [Roots -> SUBSET Files] /\ changed \in [Roots -> [Files -> Changes]]
  /\ registered \in BOOLEAN /\ raised \in BOOLEAN /\ gated \in BOOLEAN
  /\ policy_action \in Actions /\ risk_level \in Risks
  /\ history \subseteq Files \X Contents /\ recent \subseteq history
  /\ unaudited \in Int /\ unrecorded \in Int
  /\ sessions \in 0 .. MaxSessions /\ errors \in 0 .. MaxErrors

(* Every tool call the model asked for has exactly one row, refused and failed
   ones included, and every write one row in file_changes: between two calls
   the only ones missing are those whose recording failed or was cut short by a
   crash. *)
AuditComplete ==
  pc \in {"idle", "generate", "invoke"} =>
    /\ unaudited \in 0 .. errors
    /\ unrecorded \in 0 .. errors

(* Nothing a BLOCK rule matches is committed, by its repository-relative name
   or by its added content, however the agent spelled the path, whichever calls
   of its session failed and however often the task was resumed: the gate over
   the diff decides, not the gate over arguments. This is about the commits that
   follow a security_policy which returned; where that node itself raises, the
   code commits on the older verdict. *)
BlockedNeverCommitted ==
  \A r \in Rules, c \in history :
    r.action = "BLOCK" => Name[c[1]] \notin r.paths /\ c[2] \notin r.content

(* The risk a reviewer is shown covers every gated commit made since the last
   risk assessment, the files of earlier rounds included, which later diffs no
   longer show. A resumed execution assesses again and may lower the risk that
   earlier executions had reached. *)
RiskCovers ==
  \A r \in Rules, c \in recent :
    Name[c[1]] \in r.paths => RISK_ORDER(r.risk) <= RISK_ORDER(risk_level)

(* The developer's checkout, which the analysing agents have as their root and
   the changing agents too when there is no worktree, is not written: who works
   there has no write tool or, after a refused worktree, no permission to write.
   The exception is a worktree whose creation raised something other than a
   violation: then the code does let the agents write the checkout. *)
CheckoutReadOnly == ~raised => changed["checkout"] = [f \in Files |-> "same"]

(* Once BLOCK stands in the state, by an assessment or a violation, agents may
   go on but no file changes until a gate has decided again. *)
BlockedMeansReadOnly == [][policy_action = "BLOCK" => changed' = changed]_vars

=============================================================================
