------------------------------- MODULE Policy -------------------------------
(***************************************************************************)
(* The policy engine (policies/evaluator.py): rules over the paths and the *)
(* added lines of a change, thresholds over its size, and the resolution   *)
(* of all findings into one action and one risk.                           *)
(*                                                                         *)
(* A rule is the set of path spellings its patterns and fragments match,   *)
(* and the set of kinds of added content its expressions match. What       *)
(* matches is data; which findings follow, and what they add up to, is     *)
(* here.                                                                   *)
(***************************************************************************)
EXTENDS Integers, FiniteSets

CONSTANTS
  Spellings,          \* what a path may look like to a rule
  Contents,           \* kinds of added lines
  Rules,              \* rules.yaml
  max_files_changed,  \* thresholds
  max_lines_changed,
  medium_risk_files

Actions == {"ALLOW", "HUMAN_APPROVAL", "BLOCK"}
Risks == {"LOW", "MEDIUM", "HIGH"}

ASSUME PolicyAssumption ==
  /\ Rules \subseteq [action : Actions, risk : Risks,
                      paths : SUBSET Spellings, content : SUBSET Contents]
  /\ max_files_changed \in Nat /\ max_lines_changed \in Nat /\ medium_risk_files \in Nat

ACTION_STRENGTH(a) == CASE a = "ALLOW" -> 0 [] a = "HUMAN_APPROVAL" -> 1 [] a = "BLOCK" -> 2
RISK_ORDER(r) == CASE r = "LOW" -> 0 [] r = "MEDIUM" -> 1 [] r = "HIGH" -> 2

max_risk(levels) ==
  CHOOSE r \in levels \cup {"LOW"} : \A s \in levels : RISK_ORDER(s) <= RISK_ORDER(r)

StrongestAction(actions) ==
  CHOOSE a \in actions \cup {"ALLOW"} : \A b \in actions : ACTION_STRENGTH(b) <= ACTION_STRENGTH(a)

(* _resolve: the strongest action wins; the risk is the highest reported. *)
Resolve(findings) ==
  [action |-> StrongestAction({f.action : f \in findings}),
   risk   |-> max_risk({f.risk : f \in findings})]

Finding(action, risk) == [action |-> action, risk |-> risk]

(* A rule is hit by a path, or else by the added lines. *)
RuleFindings(files, added) ==
  {Finding(r.action, r.risk) :
     r \in {q \in Rules : q.paths \cap files # {} \/ q.content \cap added # {}}}

ScopeFindings(n, lines) ==
  (IF n > max_files_changed THEN {Finding("HUMAN_APPROVAL", "HIGH")} ELSE {})
    \cup (IF lines > max_lines_changed THEN {Finding("HUMAN_APPROVAL", "MEDIUM")} ELSE {})
    \cup (IF n >= medium_risk_files THEN {Finding("ALLOW", "MEDIUM")} ELSE {})

evaluate_paths(files, added, lines) ==  \* variant: added lines are not looked at
  Resolve(RuleFindings(files, {}) \cup ScopeFindings(Cardinality(files), lines))

(* The evaluation of a change, with the scope thresholds. *)
evaluate(files, added, lines) ==
  Resolve(RuleFindings(files, added) \cup ScopeFindings(Cardinality(files), lines))

(* The same with apply_scope_thresholds = False, before there is a change. *)
evaluate_candidates(files) == Resolve(RuleFindings(files, {}))

(* The gate in front of a write. *)
check_path_writable(path) == evaluate_candidates({path})

=============================================================================
