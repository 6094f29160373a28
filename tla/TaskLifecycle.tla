---------------------------- MODULE TaskLifecycle ----------------------------
(***************************************************************************)
(* What the coordination of the workers promises about a task, with queue, *)
(* lock, lease, sweep and processes left out.                              *)
(*                                                                         *)
(* A task is moved by three things only: its submission, the one execution *)
(* it has at a time, and a decision of a user. An execution begins only on *)
(* a task that is open or parked. Nobody else moves a task, so that a      *)
(* closed task without an execution stays closed.                          *)
(***************************************************************************)
CONSTANTS Tasks, Runners

VARIABLES
  phase,    \* per task: absent, open, parked (for review) or closed
  running   \* per task: the handlers that execute it

vars == <<phase, running>>

Init ==
  /\ phase = [t \in Tasks |-> "absent"]
  /\ running = [t \in Tasks |-> {}]

Submit(t) ==
  /\ phase[t] = "absent"
  /\ phase' = [phase EXCEPT ![t] = "open"]
  /\ UNCHANGED running

Begin(t, r) ==
  /\ running[t] = {} /\ phase[t] \in {"open", "parked"}
  /\ running' = [running EXCEPT ![t] = {r}]
  /\ UNCHANGED phase

(* An execution records how far it is, over whatever a decision wrote. *)
Save(t) ==
  /\ running[t] # {}
  /\ \E p \in {"open", "parked"} : phase' = [phase EXCEPT ![t] = p]
  /\ UNCHANGED running

Finish(t) ==
  /\ running[t] # {}
  /\ \E p \in {"parked", "closed"} : phase' = [phase EXCEPT ![t] = p]
  /\ running' = [running EXCEPT ![t] = {}]

(* Executions end without a word: one that raised, or all those of a worker
   that died. *)
Abandon ==
  /\ \A t \in Tasks : running'[t] \in {{}, running[t]}
  /\ UNCHANGED phase

Decide(t) ==
  /\ phase[t] # "absent"
  /\ phase' = [phase EXCEPT ![t] = "closed"]
  /\ UNCHANGED running

Next ==
  \/ Abandon
  \/ \E t \in Tasks : Submit(t) \/ Save(t) \/ Finish(t) \/ Decide(t)
  \/ \E t \in Tasks, r \in Runners : Begin(t, r)

Spec == Init /\ [][Next]_vars

=============================================================================
