----------------------------- MODULE MCToolGate -----------------------------
(***************************************************************************)
(* Rules, files and path spellings for the model-checking run of ToolGate. *)
(***************************************************************************)
EXTENDS ToolGate

MCFiles == {"auth", "env"}
MCSpellings == {"auth", "env", "./env", "../x"}
MCTarget == [p \in MCSpellings |->
               CASE p = "./env" -> "env" [] p = "../x" -> Outside [] OTHER -> p]
MCName == [f \in MCFiles |-> f]
MCInitialFiles == {"auth"}

(* One rule of each kind in rules.yaml. *)
MCRules == {
  [action |-> "BLOCK", risk |-> "HIGH", paths |-> {"env"}, content |-> {}],
  [action |-> "BLOCK", risk |-> "HIGH", paths |-> {}, content |-> {"secret"}],
  [action |-> "HUMAN_APPROVAL", risk |-> "MEDIUM", paths |-> {"auth"}, content |-> {}]}

=============================================================================
