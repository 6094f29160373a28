--------------------------- MODULE MCCoordination ---------------------------
(***************************************************************************)
(* Constants of the model-checking runs of Coordination.                   *)
(***************************************************************************)
EXTENDS Coordination, TLC

(* Workers, and the slots of a consumer loop, are interchangeable. *)
Symmetry == Permutations(Workers) \cup Permutations(Slots)

=============================================================================
