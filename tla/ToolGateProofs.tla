--------------------------- MODULE ToolGateProofs ---------------------------
(***************************************************************************)
(* Proofs about ToolGate for every rule set, every set of files, spellings *)
(* and contents, and every bound: the developer's checkout is not written  *)
(* unless creating the worktree raised, no gated commit holds what a BLOCK *)
(* rule matches, and the risk shown covers the gated commits since the     *)
(* last assessment.                                                        *)
(*                                                                         *)
(* None of these is inductive. What is missing is where a session may run  *)
(* (Session), that an agent without a worktree finds BLOCK in the state    *)
(* (Placed), and that between a security_policy that returned and          *)
(* git_commit the verdict is about the very diff that is committed (Gate). *)
(***************************************************************************)
EXTENDS ToolGate, TLAPS

-----------------------------------------------------------------------------
(* The policy engine *)

(* The resolved action is one of the three, and no finding's is stronger.  *)
LEMMA StrongestActionBounds ==
  ASSUME NEW A \in SUBSET Actions
  PROVE  /\ StrongestAction(A) \in Actions
         /\ \A b \in A : ACTION_STRENGTH(b) <= ACTION_STRENGTH(StrongestAction(A))
<1> DEFINE P(a) == \A b \in A : ACTION_STRENGTH(b) <= ACTION_STRENGTH(a)
<1>1. \E a \in A \cup {"ALLOW"} : P(a)
  <2>1. CASE "BLOCK" \in A
    BY <2>1 DEF ACTION_STRENGTH, Actions
  <2>2. CASE "BLOCK" \notin A /\ "HUMAN_APPROVAL" \in A
    BY <2>2 DEF ACTION_STRENGTH, Actions
  <2>3. CASE "BLOCK" \notin A /\ "HUMAN_APPROVAL" \notin A
    BY <2>3 DEF ACTION_STRENGTH, Actions
  <2> QED BY <2>1, <2>2, <2>3
<1>2. StrongestAction(A) \in A \cup {"ALLOW"} /\ P(StrongestAction(A))
  BY <1>1 DEF StrongestAction
<1> QED BY <1>2 DEF Actions

(* Likewise for the risk. *)
LEMMA MaxRiskBounds ==
  ASSUME NEW R \in SUBSET Risks
  PROVE  /\ max_risk(R) \in Risks
         /\ \A q \in R : RISK_ORDER(q) <= RISK_ORDER(max_risk(R))
<1> DEFINE P(r) == \A q \in R : RISK_ORDER(q) <= RISK_ORDER(r)
<1>1. \E r \in R \cup {"LOW"} : P(r)
  <2>1. CASE "HIGH" \in R
    BY <2>1 DEF RISK_ORDER, Risks
  <2>2. CASE "HIGH" \notin R /\ "MEDIUM" \in R
    BY <2>2 DEF RISK_ORDER, Risks
  <2>3. CASE "HIGH" \notin R /\ "MEDIUM" \notin R
    BY <2>3 DEF RISK_ORDER, Risks
  <2> QED BY <2>1, <2>2, <2>3
<1>2. max_risk(R) \in R \cup {"LOW"} /\ P(max_risk(R))
  BY <1>1 DEF max_risk
<1> QED BY <1>2 DEF Risks

(* _resolve never loses a finding. *)
LEMMA ResolveBounds ==
  ASSUME NEW F \in SUBSET [action : Actions, risk : Risks]
  PROVE  /\ Resolve(F).action \in Actions /\ Resolve(F).risk \in Risks
         /\ \A f \in F : f.action = "BLOCK" => Resolve(F).action = "BLOCK"
         /\ \A f \in F : RISK_ORDER(f.risk) <= RISK_ORDER(Resolve(F).risk)
<1> DEFINE A == {f.action : f \in F}
           R == {f.risk : f \in F}
<1>1. A \in SUBSET Actions /\ R \in SUBSET Risks
  OBVIOUS
<1>2. Resolve(F).action = StrongestAction(A) /\ Resolve(F).risk = max_risk(R)
  BY DEF Resolve
<1>3. StrongestAction(A) \in Actions
      /\ \A b \in A : ACTION_STRENGTH(b) <= ACTION_STRENGTH(StrongestAction(A))
  BY <1>1, StrongestActionBounds
<1>4. max_risk(R) \in Risks /\ \A q \in R : RISK_ORDER(q) <= RISK_ORDER(max_risk(R))
  BY <1>1, MaxRiskBounds
<1>5. ASSUME NEW f \in F, f.action = "BLOCK" PROVE StrongestAction(A) = "BLOCK"
  <2>1. "BLOCK" \in A
    BY <1>5
  <2>2. ACTION_STRENGTH("BLOCK") <= ACTION_STRENGTH(StrongestAction(A))
    BY <2>1, <1>3
  <2> QED BY <2>2, <1>3 DEF ACTION_STRENGTH, Actions
<1>6. ASSUME NEW f \in F PROVE RISK_ORDER(f.risk) <= RISK_ORDER(max_risk(R))
  <2>1. f.risk \in R
    OBVIOUS
  <2> QED BY <2>1, <1>4
<1> QED BY <1>2, <1>3, <1>4, <1>5, <1>6

(* What the rules and the limits on the scope find is an action and a risk each. *)
LEMMA FindingsTyped ==
  ASSUME NEW files, NEW added, NEW n, NEW lines
  PROVE  RuleFindings(files, added) \cup ScopeFindings(n, lines)
           \in SUBSET [action : Actions, risk : Risks]
<1>1. RuleFindings(files, added) \in SUBSET [action : Actions, risk : Risks]
  BY PolicyAssumption DEF RuleFindings, Finding
<1>2. ScopeFindings(n, lines) \in SUBSET [action : Actions, risk : Risks]
  BY DEF ScopeFindings, Finding, Actions, Risks
<1> QED BY <1>1, <1>2

(* The gate over a change: a BLOCK rule that a file or an added line hits   *)
(* makes the decision BLOCK, and the risk of every rule hit is covered,     *)
(* whatever the size of the change.                                         *)
LEMMA EvaluateSound ==
  ASSUME NEW files, NEW added, NEW lines
  PROVE  LET d == evaluate(files, added, lines)
         IN  /\ d.action \in Actions /\ d.risk \in Risks
             /\ \A r \in Rules : r.paths \cap files # {} \/ r.content \cap added # {} =>
                  /\ r.action = "BLOCK" => d.action = "BLOCK"
                  /\ RISK_ORDER(r.risk) <= RISK_ORDER(d.risk)
<1> DEFINE F == RuleFindings(files, added) \cup ScopeFindings(Cardinality(files), lines)
           d == evaluate(files, added, lines)
<1>1. F \in SUBSET [action : Actions, risk : Risks]
  BY FindingsTyped
<1>2. d = Resolve(F)
  BY DEF evaluate
<1>3. /\ Resolve(F).action \in Actions /\ Resolve(F).risk \in Risks
      /\ \A f \in F : f.action = "BLOCK" => Resolve(F).action = "BLOCK"
      /\ \A f \in F : RISK_ORDER(f.risk) <= RISK_ORDER(Resolve(F).risk)
  BY <1>1, ResolveBounds
<1>4. ASSUME NEW r \in Rules, r.paths \cap files # {} \/ r.content \cap added # {}
      PROVE  (r.action = "BLOCK" => d.action = "BLOCK") /\ RISK_ORDER(r.risk) <= RISK_ORDER(d.risk)
  <2>1. Finding(r.action, r.risk) \in RuleFindings(files, added)
    BY <1>4 DEF RuleFindings
  <2>2. Finding(r.action, r.risk) \in F
    BY <2>1
  <2>3. Finding(r.action, r.risk).action = r.action /\ Finding(r.action, r.risk).risk = r.risk
    BY DEF Finding
  <2> HIDE DEF F
  <2> QED BY <2>2, <2>3, <1>3, <1>2
<1> HIDE DEF F
<1> QED BY <1>2, <1>3, <1>4

(* The verdict over candidate files is an action and a risk. *)
LEMMA CandidatesTyped ==
  ASSUME NEW files
  PROVE  evaluate_candidates(files).action \in Actions /\ evaluate_candidates(files).risk \in Risks
<1>1. RuleFindings(files, {}) \in SUBSET [action : Actions, risk : Risks]
  BY PolicyAssumption DEF RuleFindings, Finding
<1> QED BY <1>1, ResolveBounds DEF evaluate_candidates

-----------------------------------------------------------------------------
(* The inductive invariant *)

Executing == {"run", "audit", "blocked", "record"}

(* Who runs where, and that a call which runs has passed the allowlist. *)
Session ==
  /\ (pc = "idle") <=> (agent = NoAgent)
  /\ agent \in Analysts => stage = "analysis"
  /\ agent \in Changers => stage = "change"
  /\ pc \in Executing => call \in [tool : Tools, path : Spellings, ok : BOOLEAN]
  /\ pc = "run" => call.tool \in AGENT_TOOL_ALLOWLIST(agent)
  /\ pc \in Executing \cup {"invoke"} => calls >= 1

(* implementation is not reached with BLOCK in the state, and leaves either a
   worktree or BLOCK behind, unless creating the worktree raised. *)
Placed ==
  /\ stage \in {"implement", "commit"} => policy_action # "BLOCK"
  /\ stage = "change" => registered \/ raised \/ policy_action = "BLOCK"

(* Between a security_policy that returned and git_commit the verdict is about
   this diff, and no agent runs. *)
Gate ==
  stage = "commit" =>
    /\ pc = "idle"
    /\ gated => \A r \in Rules, f \in Diff :
         /\ r.action = "BLOCK" => Name[f] \notin r.paths /\ changed["worktree"][f] \notin r.content
         /\ Name[f] \in r.paths => RISK_ORDER(r.risk) <= RISK_ORDER(risk_level)

Inv ==
  /\ TypeOK /\ Session /\ Placed /\ Gate
  /\ CheckoutReadOnly /\ BlockedNeverCommitted /\ RiskCovers

(* Before the first session nothing is changed or committed. *)
LEMMA InitInv == Init => Inv
<1> SUFFICES ASSUME Init PROVE Inv
  OBVIOUS
<1>1. TypeOK
  <2>1. exists \in [Roots -> SUBSET Files] /\ changed \in [Roots -> [Files -> Changes]]
    BY ToolGateAssumption DEF Init, Changes
  <2>2. registered \in BOOLEAN /\ raised \in BOOLEAN /\ gated \in BOOLEAN
    BY DEF Init
  <2> QED BY <2>1, <2>2, ToolGateAssumption DEF Init, TypeOK, Actions, Risks
<1>2. Session
  BY ToolGateAssumption DEF Init, Session, Executing, Analysts, Changers
<1>3. Gate /\ Placed
  BY DEF Init, Gate, Placed
<1>4. CheckoutReadOnly
  BY DEF Init, CheckoutReadOnly, Roots
<1>5. BlockedNeverCommitted /\ RiskCovers
  BY DEF Init, BlockedNeverCommitted, RiskCovers
<1> QED BY <1>1, <1>2, <1>3, <1>4, <1>5 DEF Inv

(* No agent works between the gate and the commit. *)
LEMMA NotInCommit ==
  ASSUME Inv, pc # "idle"
  PROVE  stage # "commit"
BY DEF Inv, Gate

(* A step that touches neither files nor the state of the gate keeps all   *)
(* but the loop's own part of the invariant.                               *)
LEMMA LoopKeeps ==
  ASSUME Inv, stage # "commit", TypeOK', Session', UNCHANGED <<treeVars, gateVars>>
  PROVE  Inv'
<1>1. Gate' /\ Placed'
  BY DEF Inv, Gate, Placed, gateVars, verdictVars, treeVars
<1>2. CheckoutReadOnly'
  BY DEF Inv, CheckoutReadOnly, treeVars
<1>3. BlockedNeverCommitted'
  BY DEF Inv, BlockedNeverCommitted, gateVars, verdictVars
<1>4. RiskCovers'
  BY DEF Inv, RiskCovers, gateVars, verdictVars
<1> QED BY <1>1, <1>2, <1>3, <1>4 DEF Inv

(* A session ends; where the stage stays, so does everything the gate saw. *)
LEMMA EndKeeps ==
  ASSUME Inv, pc # "idle", EndSession, UNCHANGED <<treeVars, gateVars>>,
         unaudited' \in Int, unrecorded' \in Int,
         sessions' \in 0 .. MaxSessions, errors' \in 0 .. MaxErrors
  PROVE  Inv'
<1>1. TypeOK'
  BY ToolGateAssumption DEF Inv, TypeOK, EndSession, treeVars, gateVars, verdictVars
<1>2. Session'
  BY ToolGateAssumption DEF Inv, Session, EndSession, Executing, gateVars, Analysts, Changers
<1> QED BY <1>1, <1>2, NotInCommit, LoopKeeps

(* A session of the risk agent ends, and with it the analysis: either nothing *)
(* has been committed since this assessment, or the risk is still the older   *)
(* one.                                                                       *)
LEMMA RiskEndKeeps ==
  ASSUME Inv, agent = "risk", EndSession, UNCHANGED <<treeVars, gated, history>>,
         stage' \in {"halted", "implement"}, policy_action' \in Actions, risk_level' \in Risks,
         stage' = "implement" => policy_action' # "BLOCK",
         recent' = {} \/ UNCHANGED <<risk_level, recent>>,
         unaudited' \in Int, unrecorded' \in Int,
         sessions' \in 0 .. MaxSessions, errors' \in 0 .. MaxErrors
  PROVE  Inv'
<1>1. recent' \subseteq history'
  BY DEF Inv, TypeOK
<1>2. TypeOK'
  BY <1>1, ToolGateAssumption DEF Inv, TypeOK, EndSession, treeVars
<1>3. Session'
  BY ToolGateAssumption DEF Inv, Session, EndSession, Executing, Analysts, Changers
<1>4. Gate' /\ Placed'
  BY DEF Gate, Placed
<1>5. CheckoutReadOnly'
  BY DEF Inv, CheckoutReadOnly, treeVars
<1>6. BlockedNeverCommitted'
  BY DEF Inv, BlockedNeverCommitted
<1>7. RiskCovers'
  BY DEF Inv, RiskCovers
<1> QED BY <1>2, <1>3, <1>4, <1>5, <1>6, <1>7 DEF Inv

(* An assessment ends the analysis with a typed verdict. *)
LEMMA AssessTyped ==
  ASSUME NEW files, NEW level \in Risks, Assess(files, level)
  PROVE  /\ stage' \in {"halted", "implement"} /\ policy_action' \in Actions /\ risk_level' \in Risks
         /\ stage' = "implement" => policy_action' # "BLOCK"
         /\ recent' = {}
<1> DEFINE d == evaluate_candidates(files)
<1>1. d.action \in Actions /\ d.risk \in Risks
  BY CandidatesTyped
<1> HIDE DEF d
<1>2. max_risk({level, d.risk}) \in Risks
  BY <1>1, MaxRiskBounds
<1>3. /\ policy_action' = d.action /\ risk_level' = max_risk({level, d.risk})
      /\ stage' = IF d.action = "BLOCK" THEN "halted" ELSE "implement"
      /\ recent' = {}
  BY DEF Assess, d
<1> QED BY <1>1, <1>2, <1>3

(* Going on to the next call, turn or stage keeps the invariant. *)
LEMMA NextCallKeeps ==
  ASSUME Inv, pc \in Executing, NextCall, UNCHANGED <<treeVars, sessions, errors>>,
         unaudited' \in Int, unrecorded' \in Int
  PROVE  Inv'
<1> DEFINE more == /\ calls > 1
                   /\ pc' = "invoke" /\ calls' = calls - 1 /\ call' = NoCall
                   /\ UNCHANGED <<agent, turn, gateVars>>
           again == /\ calls = 1 /\ turn < MaxTurns
                    /\ pc' = "generate" /\ turn' = turn + 1 /\ calls' = 0 /\ call' = NoCall
                    /\ UNCHANGED <<agent, gateVars>>
           over == agent # "risk" /\ EndSession /\ UNCHANGED gateVars
           assessed == /\ agent = "risk" /\ EndSession /\ UNCHANGED <<gated, history>>
                       /\ \E files \in SUBSET Spellings, level \in Risks : Assess(files, level)
<1>1. more \/ again \/ over \/ assessed
  BY DEF NextCall
<1>2. pc # "idle" /\ stage # "commit"
  BY NotInCommit DEF Executing
<1>3. sessions' \in 0 .. MaxSessions /\ errors' \in 0 .. MaxErrors
  BY DEF Inv, TypeOK
<1>4. CASE more
  <2>1. TypeOK'
    BY <1>4, <1>3, ToolGateAssumption DEF Inv, TypeOK, treeVars, gateVars, verdictVars
  <2>2. Session'
    BY <1>4, <1>2 DEF Inv, TypeOK, Session, Executing, gateVars, verdictVars
  <2> QED BY <1>4, <1>2, <2>1, <2>2, LoopKeeps
<1>5. CASE again
  <2>1. TypeOK'
    BY <1>5, <1>3, ToolGateAssumption DEF Inv, TypeOK, treeVars, gateVars, verdictVars
  <2>2. Session'
    BY <1>5, <1>2 DEF Inv, TypeOK, Session, Executing, gateVars, verdictVars
  <2> QED BY <1>5, <1>2, <2>1, <2>2, LoopKeeps
<1>6. CASE over
  BY <1>6, <1>2, <1>3, EndKeeps
<1>7. CASE assessed
  <2>1. PICK files \in SUBSET Spellings, level \in Risks : Assess(files, level)
    BY <1>7
  <2>2. /\ stage' \in {"halted", "implement"} /\ policy_action' \in Actions /\ risk_level' \in Risks
        /\ (stage' = "implement" => policy_action' # "BLOCK") /\ recent' = {}
    BY <2>1, AssessTyped
  <2> QED BY <1>7, <1>3, <2>2, RiskEndKeeps
<1> QED BY <1>1, <1>4, <1>5, <1>6, <1>7

(* A write lands in the worktree, or creating that one raised: an agent that *)
(* may write works nowhere else while BLOCK does not stand.                  *)
LEMMA WriteKeeps ==
  ASSUME Inv, pc = "run", call.tool \in WRITE, write_allowed, NEW f \in Files, Written(f),
         pc' = "audit", call' \in [tool : Tools, path : Spellings, ok : BOOLEAN],
         UNCHANGED <<agent, turn, calls, gateVars, unaudited, sessions>>,
         errors' \in 0 .. MaxErrors
  PROVE  Inv'
<1>1. agent \in Changers
  BY DEF Inv, Session, TypeOK, AGENT_TOOL_ALLOWLIST, WRITE, Analysts, Changers
<1>2. Root \in Roots /\ (Root = "worktree" \/ raised)
  BY <1>1 DEF Root, Roots, Inv, Session, Placed, write_allowed
<1>3. PICK c \in Contents : changed' = [changed EXCEPT ![Root][f] = c]
  BY DEF Written
<1>4. changed' \in [Roots -> [Files -> Changes]]
  BY <1>2, <1>3 DEF Inv, TypeOK, Changes
<1>5. exists' \in [Roots -> SUBSET Files]
  BY <1>2 DEF Inv, TypeOK, Written
<1>6. unrecorded' \in Int /\ UNCHANGED <<registered, raised>>
  BY DEF Inv, TypeOK, Written
<1>7. TypeOK'
  BY <1>4, <1>5, <1>6 DEF Inv, TypeOK, gateVars, verdictVars
<1>8. Session'
  BY DEF Inv, Session, Executing, gateVars
<1>9. Gate' /\ Placed'
  BY <1>6, NotInCommit DEF Inv, Gate, Placed, gateVars, verdictVars
<1>10. CheckoutReadOnly'
  BY <1>2, <1>3, <1>6 DEF Inv, TypeOK, CheckoutReadOnly, Roots
<1>11. BlockedNeverCommitted' /\ RiskCovers'
  BY DEF Inv, BlockedNeverCommitted, RiskCovers, gateVars, verdictVars
<1> QED BY <1>7, <1>8, <1>9, <1>10, <1>11 DEF Inv

(* A session ends by an exception. *)
LEMMA AbortKeeps ==
  ASSUME Inv, pc # "idle", Aborted, policy_action' \in {policy_action, "BLOCK"}, UNCHANGED treeVars,
         unaudited' \in Int, unrecorded' \in Int,
         sessions' \in 0 .. MaxSessions, errors' \in 0 .. MaxErrors
  PROVE  Inv'
<1>0. policy_action' \in Actions
  BY DEF Inv, TypeOK, Actions
<1>1. CASE agent = "risk"
  <2>1. /\ stage' \in {"halted", "implement"} /\ EndSession
        /\ stage' = "implement" => policy_action' # "BLOCK"
        /\ UNCHANGED <<risk_level, gated, history, recent>>
    BY <1>1 DEF Aborted
  <2>2. risk_level' \in Risks
    BY <2>1 DEF Inv, TypeOK
  <2> QED BY <1>0, <1>1, <2>1, <2>2, RiskEndKeeps
<1>2. CASE agent # "risk"
  <2>1. /\ EndSession /\ stage' = stage /\ UNCHANGED <<risk_level, gated, history, recent>>
    BY <1>2 DEF Aborted
  <2>2. TypeOK'
    BY <1>0, <2>1, ToolGateAssumption DEF Inv, TypeOK, EndSession, treeVars
  <2>3. Session'
    BY <2>1, ToolGateAssumption DEF Inv, Session, EndSession, Executing, Analysts, Changers
  <2>4. stage \in {"analysis", "change"}
    BY ToolGateAssumption DEF Inv, TypeOK, Session
  <2>5. Gate' /\ Placed'
    BY <2>1, <2>4 DEF Inv, Gate, Placed, treeVars
  <2>6. CheckoutReadOnly'
    BY DEF Inv, CheckoutReadOnly, treeVars
  <2>7. BlockedNeverCommitted' /\ RiskCovers'
    BY <2>1 DEF Inv, BlockedNeverCommitted, RiskCovers
  <2> QED BY <2>2, <2>3, <2>5, <2>6, <2>7 DEF Inv
<1> QED BY <1>1, <1>2

(* An idle step that leaves the commits and the risk, the gate's memory and the
   files alone may move the execution to any stage but the commit, if it leaves
   BLOCK or a worktree where it must. *)
LEMMA IdleKeeps ==
  ASSUME Inv, UNCHANGED <<exists, changed, risk_level, gated, history, recent, auditVars, sessions>>,
         EndSession \/ (pc = "idle" /\ UNCHANGED loopVars),
         stage' \in {"analysis", "implement", "change", "review", "halted"},
         policy_action' \in Actions, registered' \in BOOLEAN, raised' \in BOOLEAN, raised => raised',
         errors' \in 0 .. MaxErrors, Placed'
  PROVE  Inv'
<1>1. /\ agent' = NoAgent /\ pc' = "idle" /\ turn' \in 0 .. MaxTurns /\ calls' \in 0 .. MaxCalls
      /\ call' \in [tool : Tools, path : Spellings, ok : BOOLEAN] \cup {NoCall}
  BY ToolGateAssumption DEF Inv, TypeOK, Session, EndSession, loopVars
<1>2. TypeOK'
  BY <1>1 DEF Inv, TypeOK, auditVars
<1>3. Session'
  BY <1>1, ToolGateAssumption DEF Session, Executing, Analysts, Changers
<1>4. Gate'
  BY DEF Gate
<1>5. CheckoutReadOnly' /\ BlockedNeverCommitted' /\ RiskCovers'
  BY DEF Inv, CheckoutReadOnly, BlockedNeverCommitted, RiskCovers
<1> QED BY <1>2, <1>3, <1>4, <1>5 DEF Inv

(* A new worktree shows no change, and the checkout stays as it is. *)
LEMMA FreshWorktreeKeeps ==
  ASSUME TypeOK, CheckoutReadOnly, FreshWorktree
  PROVE  /\ exists' \in [Roots -> SUBSET Files] /\ changed' \in [Roots -> [Files -> Changes]]
         /\ registered' = TRUE /\ raised' = raised /\ CheckoutReadOnly'
<1>1. [f \in Files |-> "same"] \in [Files -> Changes]
  BY DEF Changes
<1>2. changed' \in [Roots -> [Files -> Changes]] /\ changed'["checkout"] = changed["checkout"]
  BY <1>1 DEF TypeOK, FreshWorktree, Roots
<1> QED BY <1>2, ToolGateAssumption DEF TypeOK, CheckoutReadOnly, FreshWorktree, Roots

(* The gate: its verdict is about the files and the lines of this diff.    *)
LEMMA PolicyKeeps == Inv /\ security_policy => Inv'
<1> SUFFICES ASSUME Inv, security_policy PROVE Inv'
  OBVIOUS
<1>1. PICK lines \in 0 .. max_lines_changed + 1, stale \in SUBSET Spellings :
        LET decision == IF registered THEN evaluate({Name[f] : f \in Diff}, Added, lines)
                                      ELSE evaluate(stale, {}, 0)
        IN /\ policy_action' = decision.action
           /\ risk_level' = max_risk({risk_level, decision.risk})
  BY DEF security_policy
<1> DEFINE names == {Name[f] : f \in Diff}
           d == IF registered THEN evaluate(names, Added, lines) ELSE evaluate(stale, {}, 0)
<1>2. /\ policy_action' = d.action /\ risk_level' = max_risk({risk_level, d.risk})
      /\ stage' = IF d.action = "BLOCK" THEN "halted" ELSE "commit"
  BY <1>1 DEF security_policy, after_policy
<1>3. /\ d.action \in Actions /\ d.risk \in Risks
      /\ registered => \A r \in Rules : r.paths \cap names # {} \/ r.content \cap Added # {} =>
           /\ r.action = "BLOCK" => d.action = "BLOCK"
           /\ RISK_ORDER(r.risk) <= RISK_ORDER(d.risk)
  <2>1. CASE registered
    <3>1. d = evaluate(names, Added, lines)
      BY <2>1
    <3> HIDE DEF d
    <3> QED BY <2>1, <3>1, EvaluateSound
  <2>2. CASE ~registered
    <3>1. d = evaluate(stale, {}, 0)
      BY <2>2
    <3> HIDE DEF d
    <3> QED BY <2>2, <3>1, EvaluateSound
  <2> QED BY <2>1, <2>2
<1> HIDE DEF d
<1>4. /\ risk_level' \in Risks
      /\ RISK_ORDER(risk_level) <= RISK_ORDER(risk_level')
      /\ RISK_ORDER(d.risk) <= RISK_ORDER(risk_level')
  BY <1>2, <1>3, MaxRiskBounds DEF Inv, TypeOK
<1>5. /\ pc = "idle" /\ stage = "change" /\ gated' = registered
      /\ UNCHANGED <<loopVars, history, recent, treeVars, auditVars, sessions, errors>>
  BY DEF security_policy
<1>6. \A r \in Rules : RISK_ORDER(r.risk) \in Int
  BY PolicyAssumption DEF RISK_ORDER, Risks
<1>7. RISK_ORDER(risk_level) \in Int /\ RISK_ORDER(risk_level') \in Int /\ RISK_ORDER(d.risk) \in Int
  BY <1>3, <1>4 DEF RISK_ORDER, Risks, Inv, TypeOK
<1>8. TypeOK'
  BY <1>2, <1>3, <1>4, <1>5 DEF Inv, TypeOK, loopVars, treeVars, auditVars
<1>9. Session'
  BY <1>2, <1>5, ToolGateAssumption DEF Inv, Session, Executing, loopVars, Analysts, Changers
<1>10. Gate'
  <2>0. pc' = "idle"
    BY <1>5 DEF loopVars
  <2> SUFFICES ASSUME stage' = "commit", gated'
               PROVE  /\ \A r \in Rules, f \in Diff' :
                           /\ r.action = "BLOCK" => /\ Name[f] \notin r.paths
                                                    /\ changed'["worktree"][f] \notin r.content
                           /\ Name[f] \in r.paths => RISK_ORDER(r.risk) <= RISK_ORDER(risk_level')
    BY <2>0 DEF Gate
  <2>1. d.action # "BLOCK" /\ registered
    BY <1>2, <1>5
  <2>2. changed' = changed /\ Diff' = Diff
    BY <1>5 DEF treeVars, Diff
  <2>3. ASSUME NEW r \in Rules, NEW f \in Diff
        PROVE  /\ r.action = "BLOCK" => Name[f] \notin r.paths /\ changed["worktree"][f] \notin r.content
               /\ Name[f] \in r.paths => RISK_ORDER(r.risk) <= RISK_ORDER(risk_level')
    <3>1. Name[f] \in names /\ changed["worktree"][f] \in Added
      BY DEF Added
    <3>5. r.paths \cap names # {} \/ r.content \cap Added # {} =>
            /\ r.action # "BLOCK"
            /\ RISK_ORDER(r.risk) <= RISK_ORDER(d.risk)
      BY <2>1, <1>3
    <3> HIDE DEF names
    <3>2. r.action = "BLOCK" => Name[f] \notin r.paths /\ changed["worktree"][f] \notin r.content
      BY <3>1, <3>5
    <3>3. Name[f] \in r.paths => RISK_ORDER(r.risk) <= RISK_ORDER(d.risk)
      BY <3>1, <3>5
    <3>4. RISK_ORDER(r.risk) \in Int
      BY <1>6
    <3> QED BY <3>2, <3>3, <3>4, <1>4, <1>7
  <2> QED BY <2>2, <2>3
<1>11. CheckoutReadOnly'
  BY <1>5 DEF Inv, CheckoutReadOnly, treeVars
<1>14. Placed'
  BY <1>2 DEF Placed
<1>12. BlockedNeverCommitted'
  BY <1>5 DEF Inv, BlockedNeverCommitted
<1>13. RiskCovers'
  BY <1>4, <1>5, <1>6, <1>7 DEF Inv, RiskCovers
<1> QED BY <1>8, <1>9, <1>10, <1>11, <1>12, <1>13, <1>14 DEF Inv

(* A commit takes the diff the gate allowed. *)
LEMMA CommitKeeps == Inv /\ git_commit => Inv'
<1> SUFFICES ASSUME Inv, git_commit PROVE Inv'
  OBVIOUS
<1> DEFINE new == {<<f, changed["worktree"][f]>> : f \in Diff}
<1>1. /\ stage = "commit" /\ registered /\ stage' \in {"change", "review", "halted"}
      /\ IF gated THEN history' = history \cup new /\ recent' = recent \cup new
                  ELSE UNCHANGED <<history, recent>>
      /\ changed' = [changed EXCEPT !["worktree"] = [f \in Files |-> "same"]]
      /\ UNCHANGED <<loopVars, exists, registered, raised, policy_action, risk_level, gated,
                     auditVars, sessions, errors>>
  BY DEF git_commit, AfterCommit
<1>2. \A f \in Diff : f \in Files /\ changed["worktree"][f] \in Contents
  BY DEF Inv, TypeOK, Diff, Changes, Roots
<1>3. new \subseteq Files \X Contents
  BY <1>2
<1>4. \A c \in new : \E f \in Diff : c[1] = f /\ c[2] = changed["worktree"][f]
  OBVIOUS
<1> HIDE DEF new
<1>5. changed' \in [Roots -> [Files -> Changes]] /\ changed'["checkout"] = changed["checkout"]
  BY <1>1 DEF Inv, TypeOK, Changes, Roots
<1>6. TypeOK'
  BY <1>1, <1>3, <1>5 DEF Inv, TypeOK, loopVars, auditVars
<1>7. Session'
  BY <1>1, ToolGateAssumption DEF Inv, Session, Gate, Executing, loopVars, Analysts, Changers
<1>8. Gate' /\ Placed'
  BY <1>1 DEF Gate, Placed
<1>9. CheckoutReadOnly'
  BY <1>1, <1>5 DEF Inv, CheckoutReadOnly
<1>10. gated => \A r \in Rules, f \in Diff :
         /\ r.action = "BLOCK" => Name[f] \notin r.paths /\ changed["worktree"][f] \notin r.content
         /\ Name[f] \in r.paths => RISK_ORDER(r.risk) <= RISK_ORDER(risk_level)
  BY <1>1 DEF Inv, Gate
<1>11. BlockedNeverCommitted'
  BY <1>1, <1>4, <1>10 DEF Inv, BlockedNeverCommitted
<1>12. RiskCovers'
  BY <1>1, <1>4, <1>10 DEF Inv, RiskCovers
<1> QED BY <1>6, <1>7, <1>8, <1>9, <1>11, <1>12 DEF Inv

(* Every step of the tool loop keeps the invariant. *)
LEMMA LoopStepKeeps == Inv /\ LoopStep => Inv'
<1> SUFFICES ASSUME Inv, LoopStep PROVE Inv'
  OBVIOUS
<1>0. /\ sessions \in 0 .. MaxSessions /\ errors \in 0 .. MaxErrors
      /\ unaudited \in Int /\ unrecorded \in Int
  BY DEF Inv, TypeOK
<1>1. CASE WantsTools
  <2>1. TypeOK' /\ Session'
    BY <1>1, ToolGateAssumption
    DEF WantsTools, Inv, TypeOK, Session, Executing, treeVars, gateVars, verdictVars, auditVars
  <2> QED BY <1>1, <2>1, NotInCommit, LoopKeeps DEF WantsTools
<1>2. CASE EndTurn
  BY <1>2, <1>0, EndKeeps DEF EndTurn, auditVars
<1>3. CASE RiskAssessed
  <2>1. PICK files \in SUBSET Spellings, level \in Risks : Assess(files, level)
    BY <1>3 DEF RiskAssessed
  <2>2. /\ stage' \in {"halted", "implement"} /\ policy_action' \in Actions /\ risk_level' \in Risks
        /\ (stage' = "implement" => policy_action' # "BLOCK") /\ recent' = {}
    BY <2>1, AssessTyped
  <2> QED BY <1>3, <1>0, <2>2, RiskEndKeeps DEF RiskAssessed, auditVars
<1>4. ASSUME NEW tool \in Tools, NEW path \in Spellings, Invoke(tool, path) PROVE Inv'
  <2>1. /\ pc = "invoke" /\ unaudited' = unaudited + 1
        /\ call' = [tool |-> tool, path |-> path, ok |-> FALSE]
        /\ UNCHANGED <<agent, turn, calls, treeVars, gateVars, unrecorded, sessions, errors>>
    BY <1>4 DEF Invoke
  <2>2. /\ pc' \in {"audit", "blocked", "run"}
        /\ pc' = "run" => tool \in AGENT_TOOL_ALLOWLIST(agent)
    BY <1>4 DEF Invoke
  <2>3. TypeOK'
    BY <2>1, <2>2 DEF Inv, TypeOK, treeVars, gateVars, verdictVars
  <2>4. Session'
    BY <2>1, <2>2 DEF Inv, Session, Executing, gateVars
  <2> QED BY <2>1, <2>3, <2>4, NotInCommit, LoopKeeps
<1>5. CASE RunWrite
  <2>1. call \in [tool : Tools, path : Spellings, ok : BOOLEAN]
    BY <1>5 DEF RunWrite, Inv, Session, Executing
  <2>2. Target[call.path] \in Files
    BY <1>5, <2>1, ToolGateAssumption DEF RunWrite, Escapes
  <2>3. call' \in [tool : Tools, path : Spellings, ok : BOOLEAN]
    BY <1>5, <2>1 DEF RunWrite
  <2> QED BY <1>5, <1>0, <2>2, <2>3, WriteKeeps DEF RunWrite
<1>6. CASE RunRefused
  <2>1. TypeOK' /\ Session'
    BY <1>6 DEF RunRefused, Inv, TypeOK, Session, Executing, treeVars, gateVars, verdictVars, auditVars
  <2> QED BY <1>6, <2>1, NotInCommit, LoopKeeps DEF RunRefused
<1>7. CASE RunRead
  <2>1. call \in [tool : Tools, path : Spellings, ok : BOOLEAN]
    BY <1>7 DEF RunRead, Inv, Session, Executing
  <2>2. call' \in [tool : Tools, path : Spellings, ok : BOOLEAN]
    BY <1>7, <2>1 DEF RunRead
  <2>3. TypeOK' /\ Session'
    BY <1>7, <2>2 DEF RunRead, Inv, TypeOK, Session, Executing, treeVars, gateVars, verdictVars, auditVars
  <2> QED BY <1>7, <2>3, NotInCommit, LoopKeeps DEF RunRead
<1>8. CASE Audit
  <2>1. unaudited' \in Int /\ unrecorded' \in Int
    BY <1>8, <1>0 DEF Audit
  <2>2. CASE pc' = "record" /\ UNCHANGED <<agent, turn, calls, call, gateVars>>
    <3>1. TypeOK' /\ Session'
      BY <1>8, <2>1, <2>2 DEF Audit, Inv, TypeOK, Session, Executing, treeVars, gateVars, verdictVars
    <3> QED BY <1>8, <2>2, <3>1, NotInCommit, LoopKeeps DEF Audit
  <2>3. CASE NextCall
    BY <1>8, <2>1, <2>3, NextCallKeeps DEF Audit, Executing
  <2> QED BY <1>8, <2>2, <2>3 DEF Audit
<1>9. CASE RecordFileChange
  BY <1>9, <1>0, NextCallKeeps DEF RecordFileChange, Executing
<1>10. CASE ViolationRaised
  BY <1>10, <1>0, AbortKeeps DEF ViolationRaised, Actions
<1> QED BY <1>1, <1>2, <1>3, <1>4, <1>5, <1>6, <1>7, <1>8, <1>9, <1>10 DEF LoopStep

(* So does every step of the specification. *)
LEMMA NextInv == Inv /\ [Next]_vars => Inv'
<1> SUFFICES ASSUME Inv, [Next]_vars PROVE Inv'
  OBVIOUS
<1>1. ASSUME NEW a \in Analysts \cup Changers, StartSession(a) PROVE Inv'
  <2>1. /\ pc = "idle" /\ sessions < MaxSessions /\ sessions' = sessions + 1
        /\ agent' = a /\ pc' = "generate" /\ turn' = 1
        /\ UNCHANGED <<calls, call, treeVars, gateVars, auditVars, errors>>
    BY <1>1 DEF StartSession, StartLoop
  <2>2. (a \in Analysts /\ stage = "analysis") \/ (a \in Changers /\ stage = "change")
    BY <1>1 DEF StartSession
  <2>3. a \notin Analysts \cap Changers /\ a # NoAgent
    BY ToolGateAssumption DEF Analysts, Changers
  <2>4. TypeOK'
    BY <2>1, ToolGateAssumption DEF Inv, TypeOK, treeVars, gateVars, verdictVars, auditVars
  <2>5. Session'
    BY <2>1, <2>2, <2>3 DEF Inv, Session, Executing, gateVars
  <2> QED BY <2>1, <2>2, <2>4, <2>5, LoopKeeps
<1>2. CASE LoopStep
  BY <1>2, LoopStepKeeps
<1>3. CASE CallRaises
  <2>1. errors' \in 0 .. MaxErrors /\ sessions' \in 0 .. MaxSessions /\ unaudited' \in Int
        /\ unrecorded' \in Int /\ policy_action' = policy_action /\ UNCHANGED treeVars
    BY <1>3, ToolGateAssumption DEF CallRaises, Inv, TypeOK, auditVars
  <2>2. pc # "idle" /\ Aborted
    BY <1>3 DEF CallRaises
  <2> QED BY <2>1, <2>2, AbortKeeps
<1>4. CASE WriteRaises
  <2>1. call \in [tool : Tools, path : Spellings, ok : BOOLEAN]
    BY <1>4 DEF WriteRaises, Inv, Session, Executing
  <2>2. Target[call.path] \in Files
    BY <1>4, <2>1, ToolGateAssumption DEF WriteRaises, Escapes
  <2>3. errors' \in 0 .. MaxErrors
    BY <1>4, ToolGateAssumption DEF WriteRaises, Inv, TypeOK
  <2> QED BY <1>4, <2>1, <2>2, <2>3, WriteKeeps DEF WriteRaises
<1>5. CASE security_policy
  BY <1>5, PolicyKeeps
<1>6. CASE git_commit
  BY <1>6, CommitKeeps
<1>7. CASE NothingToCommit
  <2>1. /\ stage' \in {"change", "review", "halted"} /\ policy_action' = "BLOCK"
        /\ UNCHANGED <<loopVars, risk_level, gated, history, recent, treeVars, auditVars,
                       sessions, errors>>
    BY <1>7 DEF NothingToCommit, AfterCommit
  <2>2. Placed' /\ pc = "idle" /\ policy_action' \in Actions
    BY <2>1, <1>7 DEF Placed, Actions, NothingToCommit, Inv, Gate
  <2>3. /\ registered' \in BOOLEAN /\ raised' \in BOOLEAN /\ (raised => raised')
        /\ errors' \in 0 .. MaxErrors
    BY <2>1 DEF Inv, TypeOK, treeVars
  <2> QED BY <2>1, <2>2, <2>3, IdleKeeps DEF treeVars
<1>8. CASE UNCHANGED vars
  <2>1. TypeOK' /\ Session'
    BY <1>8 DEF vars, Inv, TypeOK, Session
  <2>2. Gate' /\ Placed'
    BY <1>8 DEF vars, Inv, Gate, Placed, Diff
  <2>3. CheckoutReadOnly' /\ BlockedNeverCommitted' /\ RiskCovers'
    BY <1>8 DEF vars, Inv, CheckoutReadOnly, BlockedNeverCommitted, RiskCovers
  <2> QED BY <2>1, <2>2, <2>3 DEF Inv
<1>9. CASE implementation
  <2>1. /\ pc = "idle" /\ sessions < MaxSessions /\ sessions' = sessions + 1
        /\ agent' = "implementation" /\ pc' = "generate" /\ turn' = 1
        /\ stage' = "change" /\ UNCHANGED <<calls, call, verdictVars, auditVars, errors>>
    BY <1>9 DEF implementation, StartLoop
  <2>2. /\ exists' \in [Roots -> SUBSET Files] /\ changed' \in [Roots -> [Files -> Changes]]
        /\ registered' = TRUE /\ raised' = raised /\ CheckoutReadOnly'
    <3>1. CASE registered /\ UNCHANGED treeVars
      BY <3>1 DEF Inv, TypeOK, CheckoutReadOnly, treeVars
    <3>2. CASE FreshWorktree
      BY <3>2, FreshWorktreeKeeps DEF Inv
    <3> QED BY <1>9, <3>1, <3>2 DEF implementation
  <2>3. TypeOK'
    BY <2>1, <2>2, ToolGateAssumption DEF Inv, TypeOK, verdictVars, auditVars, Changers
  <2>4. Session'
    BY <2>1, ToolGateAssumption DEF Inv, Session, Executing, Analysts, Changers
  <2>5. Gate' /\ Placed'
    BY <2>1, <2>2 DEF Gate, Placed
  <2>6. BlockedNeverCommitted' /\ RiskCovers'
    BY <2>1 DEF Inv, BlockedNeverCommitted, RiskCovers, verdictVars
  <2> QED BY <2>2, <2>3, <2>4, <2>5, <2>6 DEF Inv
<1>10. CASE CreateRefused
  <2>1. /\ pc = "idle" /\ stage' = "change" /\ policy_action' = "BLOCK"
        /\ UNCHANGED <<loopVars, treeVars, risk_level, gated, history, recent, auditVars,
                       sessions, errors>>
    BY <1>10 DEF CreateRefused
  <2>2. Placed' /\ policy_action' \in Actions
    BY <2>1 DEF Placed, Actions
  <2>3. /\ registered' \in BOOLEAN /\ raised' \in BOOLEAN /\ (raised => raised')
        /\ errors' \in 0 .. MaxErrors
    BY <2>1 DEF Inv, TypeOK, treeVars
  <2> QED BY <2>1, <2>2, <2>3, IdleKeeps DEF treeVars
<1>11. CASE CreateRaises
  <2>1. /\ pc = "idle" /\ stage' = "change" /\ errors' \in 0 .. MaxErrors
        /\ UNCHANGED <<loopVars, verdictVars, auditVars, sessions>>
    BY <1>11, ToolGateAssumption DEF CreateRaises, Inv, TypeOK
  <2>2. CASE raised' = TRUE /\ UNCHANGED <<exists, changed, registered>>
    <3>1. Placed'
      BY <2>1, <2>2 DEF Placed
    <3>2. /\ registered' \in BOOLEAN /\ raised' \in BOOLEAN /\ (raised => raised')
          /\ policy_action' \in Actions
      BY <2>1, <2>2 DEF Inv, TypeOK, verdictVars
    <3> QED BY <2>1, <2>2, <3>1, <3>2, IdleKeeps DEF verdictVars
  <2>3. CASE FreshWorktree
    <3>1. /\ exists' \in [Roots -> SUBSET Files] /\ changed' \in [Roots -> [Files -> Changes]]
          /\ registered' = TRUE /\ raised' = raised /\ CheckoutReadOnly'
      BY <2>3, FreshWorktreeKeeps DEF Inv
    <3>2. TypeOK'
      BY <2>1, <3>1 DEF Inv, TypeOK, loopVars, verdictVars, auditVars
    <3>3. Session'
      BY <2>1, ToolGateAssumption DEF Inv, Session, Executing, loopVars, Analysts, Changers
    <3>4. Gate' /\ Placed'
      BY <2>1, <3>1 DEF Gate, Placed
    <3>5. BlockedNeverCommitted' /\ RiskCovers'
      BY <2>1 DEF Inv, BlockedNeverCommitted, RiskCovers, verdictVars
    <3> QED BY <3>1, <3>2, <3>3, <3>4, <3>5 DEF Inv
  <2> QED BY <1>11, <2>2, <2>3 DEF CreateRaises
<1>12. CASE PolicyRaises
  <2>1. /\ pc = "idle" /\ stage = "change" /\ errors' \in 0 .. MaxErrors
        /\ policy_action' = policy_action /\ gated' = FALSE
        /\ stage' = IF policy_action' = "BLOCK" THEN "halted" ELSE "commit"
        /\ UNCHANGED <<loopVars, risk_level, history, recent, treeVars, auditVars, sessions>>
    BY <1>12, ToolGateAssumption DEF PolicyRaises, after_policy, Inv, TypeOK
  <2>2. TypeOK'
    BY <2>1 DEF Inv, TypeOK, loopVars, treeVars, auditVars
  <2>3. Session'
    BY <2>1, ToolGateAssumption DEF Inv, Session, Executing, loopVars, Analysts, Changers
  <2>4. Gate' /\ Placed'
    BY <2>1 DEF Gate, Placed, loopVars
  <2>5. CheckoutReadOnly' /\ BlockedNeverCommitted' /\ RiskCovers'
    BY <2>1 DEF Inv, CheckoutReadOnly, BlockedNeverCommitted, RiskCovers, treeVars
  <2> QED BY <2>2, <2>3, <2>4, <2>5 DEF Inv
<1>13. CASE CommitFails
  <2>1. /\ stage = "commit" /\ registered /\ stage' \in {"change", "review", "halted"}
        /\ errors' \in 0 .. MaxErrors /\ UNCHANGED <<loopVars, verdictVars, treeVars, auditVars, sessions>>
    BY <1>13, ToolGateAssumption DEF CommitFails, AfterCommit, Inv, TypeOK
  <2>2. Placed' /\ pc = "idle"
    BY <2>1 DEF Placed, Inv, Gate, treeVars
  <2>3. /\ registered' \in BOOLEAN /\ raised' \in BOOLEAN /\ (raised => raised')
        /\ policy_action' \in Actions
    BY <2>1 DEF Inv, TypeOK, treeVars, verdictVars
  <2> QED BY <2>1, <2>2, <2>3, IdleKeeps DEF treeVars, verdictVars
<1>14. CASE Crash \/ Redelivered
  <2>1. /\ EndSession \/ (pc = "idle" /\ UNCHANGED loopVars)
        /\ stage' = "analysis" /\ registered' \in {registered, FALSE} /\ errors' \in 0 .. MaxErrors
        /\ UNCHANGED <<exists, changed, raised, verdictVars, auditVars, sessions>>
    <3>1. Resumed /\ errors' \in 0 .. MaxErrors
      BY <1>14, ToolGateAssumption DEF Crash, Redelivered, Inv, TypeOK
    <3>2. CASE Crash
      BY <3>1, <3>2 DEF Crash, Resumed
    <3>3. CASE Redelivered
      <4>1. pc = "idle"
        BY <3>3, ToolGateAssumption DEF Redelivered, Inv, TypeOK, Session
      <4> QED BY <3>1, <3>3, <4>1 DEF Redelivered, Resumed
    <3> QED BY <1>14, <3>2, <3>3
  <2>2. Placed'
    BY <2>1 DEF Placed
  <2>3. /\ registered' \in BOOLEAN /\ raised' \in BOOLEAN /\ (raised => raised')
        /\ policy_action' \in Actions
    BY <2>1 DEF Inv, TypeOK, verdictVars
  <2> QED BY <2>1, <2>2, <2>3, IdleKeeps DEF verdictVars
<1> QED BY <1>1, <1>2, <1>3, <1>4, <1>5, <1>6, <1>7, <1>8, <1>9, <1>10, <1>11, <1>12, <1>13,
           <1>14 DEF Next

-----------------------------------------------------------------------------
(* The theorems *)

LEMMA Invariance == Spec => []Inv
BY InitInv, NextInv, PTL DEF Spec

(* The state of the tool loop and the gate is typed; turns, calls and      *)
(* sessions keep their limits.                                             *)
THEOREM TypeCorrect == Spec => []TypeOK
<1>1. Inv => TypeOK
  BY DEF Inv
<1> QED BY <1>1, Invariance, PTL

(* No agent writes the developer's checkout, for any set of tools the model *)
(* asks for, any crashes and any refused worktree; only a worktree whose    *)
(* creation raised something other than a violation is excepted.            *)
THEOREM CheckoutIsReadOnly == Spec => []CheckoutReadOnly
<1>1. Inv => CheckoutReadOnly
  BY DEF Inv
<1> QED BY <1>1, Invariance, PTL

(* For every rules.yaml, nothing a BLOCK rule matches is committed after a *)
(* security_policy that returned, over any resumes and any other failures. *)
THEOREM BlockedIsNeverCommitted == Spec => []BlockedNeverCommitted
<1>1. Inv => BlockedNeverCommitted
  BY DEF Inv
<1> QED BY <1>1, Invariance, PTL

(* For every rules.yaml, the risk shown covers every file committed, after *)
(* a security_policy that returned, since the last risk assessment.        *)
THEOREM RiskIsCovered == Spec => []RiskCovers
<1>1. Inv => RiskCovers
  BY DEF Inv
<1> QED BY <1>1, Invariance, PTL

(* While BLOCK stands no step changes a file: writes consult the state, and *)
(* a commit only follows a verdict other than BLOCK.                        *)
THEOREM BlockedIsReadOnly == Spec => BlockedMeansReadOnly
<1>1. ASSUME Inv, [Next]_vars, policy_action = "BLOCK" PROVE changed' = changed
  <2>1. ASSUME NEW a \in Analysts \cup Changers, StartSession(a) PROVE changed' = changed
    BY <2>1 DEF StartSession, treeVars
  <2>9. stage \notin {"implement", "commit"}
    BY <1>1 DEF Inv, Placed
  <2>2. CASE LoopStep
    BY <2>2, <1>1 DEF LoopStep, WantsTools, EndTurn, RiskAssessed, Invoke, RunWrite, write_allowed,
         RunRefused, RunRead, Audit, RecordFileChange, ViolationRaised, treeVars
  <2>3. CASE CallRaises
    BY <2>3 DEF CallRaises, treeVars
  <2>4. CASE WriteRaises
    BY <2>4, <1>1 DEF WriteRaises, write_allowed
  <2>5. CASE security_policy
    BY <2>5 DEF security_policy, treeVars
  <2>6. CASE implementation \/ CreateRefused \/ CreateRaises \/ git_commit \/ CommitFails
    BY <2>6, <2>9 DEF implementation, CreateRefused, CreateRaises, git_commit, CommitFails
  <2>7. CASE NothingToCommit
    BY <2>7 DEF NothingToCommit, treeVars
  <2>10. CASE PolicyRaises \/ Crash \/ Redelivered
    BY <2>10 DEF PolicyRaises, Crash, Redelivered, Resumed, treeVars
  <2>8. CASE UNCHANGED vars
    BY <2>8 DEF vars
  <2> QED BY <1>1, <2>1, <2>2, <2>3, <2>4, <2>5, <2>6, <2>7, <2>8, <2>10 DEF Next
<1>2. Inv /\ [Next]_vars => [policy_action = "BLOCK" => changed' = changed]_vars
  BY <1>1
<1> QED BY <1>2, Invariance, PTL DEF Spec, BlockedMeansReadOnly

-----------------------------------------------------------------------------
(* The audit *)

(* A call in execution owes its row in tool_calls, a write that succeeded its
   row in file_changes. *)
AuditOwed == IF pc \in {"run", "audit", "blocked"} THEN 1 ELSE 0
Wrote == call.ok /\ call.tool \in WRITE
RecordOwed == IF pc = "record" \/ (pc = "audit" /\ Wrote) THEN 1 ELSE 0

(* The rows missing are the ones owed and, beyond those, at most one for each
   failure; and no call succeeds before it has run. *)
AuditInv ==
  /\ pc = "run" => ~call.ok
  /\ unaudited - AuditOwed \in 0 .. errors
  /\ unrecorded - RecordOwed \in 0 .. errors

(* A step that owes nothing before or after, and records nothing. *)
LEMMA AuditFrame ==
  ASSUME Inv, AuditInv, UNCHANGED <<auditVars, errors>>,
         pc \in {"idle", "generate", "invoke"}, pc' \in {"idle", "generate", "invoke"}
  PROVE  AuditInv'
<1>1. unaudited' = unaudited /\ unrecorded' = unrecorded /\ errors' = errors
  BY DEF auditVars
<1>2. AuditOwed = 0 /\ AuditOwed' = 0 /\ RecordOwed = 0 /\ RecordOwed' = 0
  BY DEF AuditOwed, RecordOwed
<1> QED BY <1>1, <1>2 DEF AuditInv

(* The call ends: what it owes is written or, after a failure, stays missing. *)
LEMMA CallEnds ==
  ASSUME Inv, AuditInv, pc' \in {"idle", "generate", "invoke"},
         errors' \in Int,
         unaudited' \in 0 .. errors', unrecorded' \in 0 .. errors'
  PROVE  AuditInv'
<1>1. AuditOwed' = 0 /\ RecordOwed' = 0
  BY DEF AuditOwed, RecordOwed
<1>2. unaudited' - AuditOwed' \in 0 .. errors' /\ unrecorded' - RecordOwed' \in 0 .. errors'
  <2>1. \A e \in Int : \A x \in 0 .. e : x - 0 = x
    OBVIOUS
  <2>2. unaudited' - 0 = unaudited' /\ unrecorded' - 0 = unrecorded'
    BY <2>1
  <2> QED BY <1>1, <2>2
<1>3. pc' # "run"
  OBVIOUS
<1> QED BY <1>1, <1>2, <1>3 DEF AuditInv

(* NextCall leaves the call, for the next one, the next turn or the end. *)
LEMMA NextCallLeaves == NextCall => pc' \in {"idle", "generate", "invoke"}
BY DEF NextCall, EndSession

(* The invariant holds at the start, and every step of the loop keeps it. *)
LEMMA AuditStep == Inv /\ AuditInv /\ [Next]_vars => AuditInv'
<1> SUFFICES ASSUME Inv, AuditInv, [Next]_vars PROVE AuditInv'
  OBVIOUS
<1>0. /\ errors \in Nat /\ unaudited \in Int /\ unrecorded \in Int
      /\ AuditOwed \in {0, 1} /\ RecordOwed \in {0, 1}
  BY ToolGateAssumption DEF Inv, TypeOK, AuditOwed, RecordOwed
<1>1. ASSUME NEW a \in Analysts \cup Changers, StartSession(a) PROVE AuditInv'
  BY <1>1, AuditFrame DEF StartSession, StartLoop
<1>2. CASE WantsTools
  BY <1>2, AuditFrame DEF WantsTools
<1>3. CASE EndTurn
  BY <1>3, AuditFrame DEF EndTurn, EndSession
<1>4. CASE RiskAssessed
  BY <1>4, AuditFrame DEF RiskAssessed, EndSession
<1>5. ASSUME NEW tool \in Tools, NEW path \in Spellings, Invoke(tool, path) PROVE AuditInv'
  <2>1. /\ pc = "invoke" /\ pc' \in {"run", "audit", "blocked"} /\ unaudited' = unaudited + 1
        /\ unrecorded' = unrecorded /\ errors' = errors
        /\ call' = [tool |-> tool, path |-> path, ok |-> FALSE]
    BY <1>5 DEF Invoke
  <2>2. ~call'.ok
    BY <2>1
  <2>3. AuditOwed = 0 /\ AuditOwed' = 1 /\ RecordOwed = 0 /\ RecordOwed' = 0
    BY <2>1, <2>2 DEF AuditOwed, RecordOwed, Wrote
  <2> QED BY <2>1, <2>2, <2>3, <1>0 DEF AuditInv
<1>6. CASE RunWrite
  <2>1. /\ pc = "run" /\ pc' = "audit" /\ unaudited' = unaudited
        /\ unrecorded' = unrecorded + 1 /\ errors' = errors
        /\ call.tool \in WRITE /\ call' = [call EXCEPT !.ok = TRUE]
    BY <1>6 DEF RunWrite, Written
  <2>2. call \in [tool : Tools, path : Spellings, ok : BOOLEAN]
    BY <2>1 DEF Inv, Session, Executing
  <2>3. Wrote'
    BY <2>1, <2>2 DEF Wrote
  <2>4. AuditOwed = 1 /\ AuditOwed' = 1 /\ RecordOwed = 0 /\ RecordOwed' = 1
    BY <2>1, <2>3 DEF AuditOwed, RecordOwed
  <2> QED BY <2>1, <2>4, <1>0 DEF AuditInv
<1>7. CASE RunRefused
  <2>1. /\ pc = "run" /\ pc' = "audit" /\ unaudited' = unaudited
        /\ unrecorded' = unrecorded /\ errors' = errors /\ call' = call
    BY <1>7 DEF RunRefused, auditVars
  <2>2. ~Wrote'
    BY <2>1 DEF AuditInv, Wrote
  <2>3. AuditOwed = 1 /\ AuditOwed' = 1 /\ RecordOwed = 0 /\ RecordOwed' = 0
    BY <2>1, <2>2 DEF AuditOwed, RecordOwed
  <2> QED BY <2>1, <2>3, <1>0 DEF AuditInv
<1>8. CASE RunRead
  <2>1. /\ pc = "run" /\ pc' = "audit" /\ unaudited' = unaudited
        /\ unrecorded' = unrecorded /\ errors' = errors
        /\ call.tool \in READ /\ call' = [call EXCEPT !.ok = TRUE]
    BY <1>8 DEF RunRead, auditVars
  <2>2. call \in [tool : Tools, path : Spellings, ok : BOOLEAN]
    BY <2>1 DEF Inv, Session, Executing
  <2>3. call'.tool \in READ
    BY <2>1, <2>2
  <2>4. ~Wrote'
    BY <2>3 DEF Wrote, READ, WRITE
  <2>5. AuditOwed = 1 /\ AuditOwed' = 1 /\ RecordOwed = 0 /\ RecordOwed' = 0
    BY <2>1, <2>4 DEF AuditOwed, RecordOwed
  <2> QED BY <2>1, <2>5, <1>0 DEF AuditInv
<1>9. CASE Audit
  <2>1. /\ pc = "audit" /\ unaudited' = unaudited - 1
        /\ unrecorded' = unrecorded /\ errors' = errors
    BY <1>9 DEF Audit
  <2>2. AuditOwed = 1
    BY <2>1 DEF AuditOwed
  <2>3. CASE Wrote /\ pc' = "record"
    <3>1. AuditOwed' = 0 /\ RecordOwed = 1 /\ RecordOwed' = 1
      BY <2>1, <2>3 DEF AuditOwed, RecordOwed
    <3> QED BY <2>1, <2>2, <2>3, <3>1, <1>0 DEF AuditInv
  <2>4. CASE ~Wrote /\ NextCall
    <3>1. RecordOwed = 0
      BY <2>1, <2>4 DEF RecordOwed
    <3>2. unaudited' \in 0 .. errors' /\ unrecorded' \in 0 .. errors'
      BY <2>1, <2>2, <3>1, <1>0 DEF AuditInv
    <3> QED BY <2>1, <2>4, <3>2, <1>0, NextCallLeaves, CallEnds
  <2> QED BY <1>9, <2>3, <2>4 DEF Audit, Wrote
<1>10. CASE RecordFileChange
  <2>1. /\ pc = "record" /\ unrecorded' = unrecorded - 1 /\ NextCall
        /\ unaudited' = unaudited /\ errors' = errors
    BY <1>10 DEF RecordFileChange
  <2>2. AuditOwed = 0 /\ RecordOwed = 1
    BY <2>1 DEF AuditOwed, RecordOwed
  <2>3. unaudited' \in 0 .. errors' /\ unrecorded' \in 0 .. errors'
    BY <2>1, <2>2, <1>0 DEF AuditInv
  <2> QED BY <2>1, <2>3, <1>0, NextCallLeaves, CallEnds
<1>11. CASE ViolationRaised
  <2>1. /\ pc = "blocked" /\ unaudited' = unaudited - 1 /\ pc' = "idle"
        /\ unrecorded' = unrecorded /\ errors' = errors
    BY <1>11 DEF ViolationRaised, Aborted, EndSession
  <2>2. AuditOwed = 1 /\ RecordOwed = 0
    BY <2>1 DEF AuditOwed, RecordOwed
  <2>3. unaudited' \in 0 .. errors' /\ unrecorded' \in 0 .. errors'
    BY <2>1, <2>2, <1>0 DEF AuditInv
  <2> QED BY <2>1, <2>3, <1>0, CallEnds
<1>12. CASE CallRaises
  <2>1. /\ pc' = "idle" /\ unaudited' = unaudited /\ unrecorded' = unrecorded
        /\ errors' = errors + 1
    BY <1>12 DEF CallRaises, Aborted, EndSession, auditVars
  <2>2. unaudited' \in 0 .. errors' /\ unrecorded' \in 0 .. errors'
    BY <2>1, <1>0 DEF AuditInv
  <2> QED BY <2>1, <2>2, <1>0, CallEnds
<1>13. CASE WriteRaises
  <2>1. /\ pc = "run" /\ pc' = "audit" /\ unaudited' = unaudited
        /\ unrecorded' = unrecorded + 1 /\ errors' = errors + 1 /\ call' = call
    BY <1>13 DEF WriteRaises, Written
  <2>2. ~Wrote'
    BY <2>1 DEF AuditInv, Wrote
  <2>3. AuditOwed = 1 /\ AuditOwed' = 1 /\ RecordOwed = 0 /\ RecordOwed' = 0
    BY <2>1, <2>2 DEF AuditOwed, RecordOwed
  <2> QED BY <2>1, <2>3, <1>0 DEF AuditInv
<1>14. CASE security_policy
  BY <1>14, AuditFrame DEF security_policy, loopVars
<1>15. CASE git_commit
  BY <1>15, AuditFrame DEF git_commit, loopVars, Inv, Gate
<1>16. CASE NothingToCommit
  BY <1>16, AuditFrame DEF NothingToCommit, loopVars, Inv, Gate
<1>18. CASE implementation
  BY <1>18, AuditFrame DEF implementation, StartLoop
<1>19. CASE CreateRefused
  BY <1>19, AuditFrame DEF CreateRefused, loopVars
<1>20. CASE CreateRaises \/ PolicyRaises \/ CommitFails
  <2>1. /\ pc = "idle" /\ pc' = "idle" /\ errors' = errors + 1
        /\ unaudited' = unaudited /\ unrecorded' = unrecorded
    BY <1>20 DEF CreateRaises, PolicyRaises, CommitFails, loopVars, auditVars, Inv, Gate
  <2>2. AuditOwed = 0 /\ RecordOwed = 0
    BY <2>1 DEF AuditOwed, RecordOwed
  <2>3. unaudited' \in 0 .. errors' /\ unrecorded' \in 0 .. errors'
    BY <2>1, <2>2, <1>0 DEF AuditInv
  <2> QED BY <2>1, <2>3, <1>0, CallEnds
<1>21. CASE Crash
  <2>1. /\ pc' = "idle" /\ unaudited' = unaudited /\ unrecorded' = unrecorded
        /\ errors' = errors + 1
    BY <1>21 DEF Crash, Resumed, EndSession, auditVars
  <2>2. unaudited' \in 0 .. errors' /\ unrecorded' \in 0 .. errors'
    BY <2>1, <1>0 DEF AuditInv
  <2> QED BY <2>1, <2>2, <1>0, CallEnds
<1>22. CASE Redelivered
  <2>1. pc = "idle"
    BY <1>22, ToolGateAssumption DEF Redelivered, Inv, TypeOK, Session
  <2> QED BY <1>22, <2>1, AuditFrame DEF Redelivered, Resumed, loopVars
<1>17. CASE UNCHANGED vars
  BY <1>17 DEF vars, AuditInv, AuditOwed, RecordOwed, Wrote
<1> QED BY <1>1, <1>2, <1>3, <1>4, <1>5, <1>6, <1>7, <1>8, <1>9, <1>10, <1>11, <1>12, <1>13,
           <1>14, <1>15, <1>16, <1>17, <1>18, <1>19, <1>20, <1>21, <1>22 DEF Next, LoopStep

(* Every tool call has one row in tool_calls and every write one row in
   file_changes, except for at most one of each per crash and per failed
   database, event or file operation, for every policy, every tool and every limit on the loop. *)
THEOREM AuditIsComplete == Spec => []AuditComplete
<1>1. Init => AuditInv
  <2> SUFFICES ASSUME Init PROVE AuditInv
    OBVIOUS
  <2>1. pc = "idle" /\ unaudited = 0 /\ unrecorded = 0 /\ errors = 0
    BY DEF Init
  <2>2. AuditOwed = 0 /\ RecordOwed = 0
    BY <2>1 DEF AuditOwed, RecordOwed
  <2> QED BY <2>1, <2>2 DEF AuditInv
<1>2. Inv /\ AuditInv => AuditComplete
  BY DEF AuditInv, AuditOwed, RecordOwed, AuditComplete, Inv, TypeOK
<1> QED BY <1>1, <1>2, AuditStep, Invariance, PTL DEF Spec

=============================================================================
