----------------------------- MODULE MCWorkflow -----------------------------
(***************************************************************************)
(* Fault sets of the model-checking runs of Workflow.                      *)
(***************************************************************************)
EXTENDS Workflow

(* Nodes whose agent holds write tools: Gate 2 raises PolicyViolationError.
   Nodes that spawn processes: run_command raises WorkspaceViolationError. *)
BoundaryNodes == {"implementation", "test_generation", "debugging",
                  "ci_debugging", "ci_validation", "create_pr"}

(* Every node but the three whose exceptions lead to the findings. *)
FailingNodes == NodeNames \ {"implementation", "run_tests", "security_policy"}

=============================================================================
