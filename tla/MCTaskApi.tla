----------------------------- MODULE MCTaskApi ------------------------------
(***************************************************************************)
(* Constants of the model-checking runs of TaskApi.                        *)
(***************************************************************************)
EXTENDS TaskApi

CONSTANTS c1, c2

(* Two requests with one key, for the same issue or for two. *)
SameIssue == [c \in Creates |-> "issue 1"]
TwoIssues == [c \in Creates |-> IF c = c2 THEN "issue 2" ELSE "issue 1"]
MCFingerprints == {SameIssue, TwoIssues}

=============================================================================
