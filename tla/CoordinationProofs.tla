------------------------- MODULE CoordinationProofs -------------------------
(***************************************************************************)
(* Proofs about Coordination, for any number of tasks, workers, handlers,  *)
(* copies of a message, crashes and failing calls.                         *)
(***************************************************************************)
EXTENDS Coordination, TLAPS

(* A message names a task. *)
LEMMA MessageTask == \A m \in Messages : m[1] \in Tasks
  BY DEF Messages

(* A handler belongs to a worker. *)
LEMMA HandlerWorker == \A h \in Handlers : h[1] \in Workers
  BY DEF Handlers

(* The handlers of a worker. *)
LEMMA WorkerHandlers ==
  ASSUME NEW w \in Workers
  PROVE  /\ <<w, Sweeper>> \in Handlers
         /\ \A s \in Slots : <<w, s>> \in Handlers
  BY DEF Handlers

RowType == [status : Statuses, locked_by : Workers \cup {NoOne, Ghost}, expired : BOOLEAN]

JobType == [pc : {"idle", "start", "locked", "running", "unlock", "unlease", "settle"},
            m : Messages \cup {NoMsg}, ok : BOOLEAN]

SweepType == [pc : {"idle", "publish", "handle"}, todo : SUBSET Tasks, claimed : SUBSET Messages]

(* The part of TypeOK that says that a handler at work has a message. *)
JobInv == \A h \in Handlers : job[h].pc # "idle" => job[h].m \in Messages

(* set_status leaves a row. *)
LEMMA WithStatusType ==
  ASSUME NEW r \in RowType, NEW s \in Statuses
  PROVE  WithStatus(r, s) \in RowType
  BY DEF WithStatus, RowType

(* The statuses a decision writes. *)
LEMMA DecisionStatusType ==
  ASSUME NEW d \in Decisions
  PROVE  DecisionStatus(d) \in Statuses
  BY CoordinationAssumption DEF DecisionStatus, Statuses, TerminalStatuses

(* Publishing keeps the messages well typed. *)
LEMMA PublishType ==
  ASSUME msg \in [Messages -> {"none", "new", "pending"}], NEW t, Publish(t)
  PROVE  msg' \in [Messages -> {"none", "new", "pending"}]
  BY DEF Publish

(* A handler at work is at work on a task. *)
LEMMA TaskOfType ==
  ASSUME TypeOK, NEW h \in Handlers, job[h].pc # "idle"
  PROVE  TaskOf(h) \in Tasks
  BY MessageTask DEF TypeOK, TaskOf

(* Moving a handler on keeps its message. *)
LEMMA GotoType ==
  ASSUME TypeOK, NEW h \in Handlers, job[h].pc # "idle",
         NEW pc \in {"locked", "running", "unlock", "unlease", "settle"}, Goto(h, pc)
  PROVE  job' \in [Handlers -> JobType] /\ JobInv'
  <1>1. job \in [Handlers -> JobType]
    BY DEF TypeOK, JobType
  <1>2. job' \in [Handlers -> JobType]
    BY <1>1 DEF Goto, JobType
  <1>3. \A g \in Handlers : job'[g].m = job[g].m /\ (g # h => job'[g].pc = job[g].pc)
    BY <1>1 DEF Goto, JobType
  <1> QED BY <1>2, <1>3 DEF TypeOK, JobInv

(* The rows, locks, messages, semaphores and handlers keep their types: no
   semaphore of a consumer loop goes below zero, and no handler works without a
   message. TypeOK is inductive. *)
THEOREM TypeCorrect == Spec => []TypeOK
  <1>1. Init => TypeOK
    BY CoordinationAssumption
    DEF Init, TypeOK, JobInv, Idle, NoSweep, Statuses
  <1>2. TypeOK /\ [Next]_vars => TypeOK'
    <2> SUFFICES ASSUME TypeOK, [Next]_vars PROVE TypeOK'
      OBVIOUS
    <2>t. /\ row \in [Tasks -> RowType]
          /\ lock \in [Tasks -> Handlers \cup {NoOne, Ghost}]
          /\ msg \in [Messages -> {"none", "new", "pending"}]
          /\ loop \in [Workers -> Messages \cup {NoMsg}]
          /\ sem \in [Workers -> Nat]
          /\ job \in [Handlers -> JobType]
          /\ sweep \in [Workers -> SweepType]
          /\ unsent \subseteq Tasks
          /\ deciding \in [Tasks -> SUBSET Decisions]
          /\ crashes \in Nat /\ errors \in Nat /\ JobInv
      BY DEF TypeOK, JobInv, RowType, JobType, SweepType
    <2>s. ASSUME row' \in [Tasks -> RowType],
                 lock' \in [Tasks -> Handlers \cup {NoOne, Ghost}],
                 msg' \in [Messages -> {"none", "new", "pending"}],
                 loop' \in [Workers -> Messages \cup {NoMsg}],
                 sem' \in [Workers -> Nat],
                 job' \in [Handlers -> JobType],
                 sweep' \in [Workers -> SweepType],
                 unsent' \subseteq Tasks,
                 deciding' \in [Tasks -> SUBSET Decisions],
                 crashes' \in Nat /\ errors' \in Nat, JobInv'
          PROVE  TypeOK'
      BY <2>s DEF TypeOK, JobInv, RowType, JobType, SweepType
    <2>j. job' = job => JobInv'
      BY <2>t DEF JobInv
    <2>1. ASSUME NEW t \in Tasks, CreateTask(t) PROVE TypeOK'
      <3>1. row' \in [Tasks -> RowType]
        BY <2>t, <2>1, SMTT(30) DEF CreateTask, RowType, Statuses
      <3> QED BY <2>t, <2>s, <2>j, <2>1, <3>1 DEF CreateTask
    <2>2. ASSUME NEW t \in Tasks, Enqueue(t) PROVE TypeOK'
      BY <2>t, <2>s, <2>j, <2>2, PublishType DEF Enqueue
    <2>3. ASSUME NEW t \in Tasks, EnqueueLost(t) PROVE TypeOK'
      BY <2>t, <2>s, <2>j, <2>3 DEF EnqueueLost
    <2>4. ASSUME NEW t \in Tasks, LockExpires(t) PROVE TypeOK'
      BY <2>t, <2>s, <2>j, <2>4 DEF LockExpires
    <2>5. ASSUME NEW t \in Tasks, LeaseExpires(t) PROVE TypeOK'
      <3>1. row' \in [Tasks -> RowType]
        BY <2>t, <2>5 DEF LeaseExpires, RowType
      <3> QED BY <2>t, <2>s, <2>j, <2>5, <3>1 DEF LeaseExpires
    <2>6. ASSUME NEW t \in Tasks, NEW d \in Decisions, Decide(t, d) PROVE TypeOK'
      BY <2>t, <2>s, <2>j, <2>6 DEF Decide
    <2>7. ASSUME NEW t \in Tasks, NEW d \in Decisions, DecisionWrites(t, d) PROVE TypeOK'
      <3>1. WithStatus(row[t], DecisionStatus(d)) \in RowType
        BY <2>t, DecisionStatusType, WithStatusType
      <3>2. row' \in [Tasks -> RowType] /\ deciding' \in [Tasks -> SUBSET Decisions]
        BY <2>t, <2>7, <3>1 DEF DecisionWrites
      <3> QED BY <2>t, <2>s, <2>j, <2>7, <3>2 DEF DecisionWrites
    <2>8. ASSUME NEW w \in Workers, Receive(w) PROVE TypeOK'
      <3>1. PICK m \in Messages : msg' = [msg EXCEPT ![m] = "pending"] /\ loop' = [loop EXCEPT ![w] = m]
        BY <2>8 DEF Receive
      <3>2. msg' \in [Messages -> {"none", "new", "pending"}] /\ loop' \in [Workers -> Messages \cup {NoMsg}]
        BY <2>t, <3>1
      <3> QED BY <2>t, <2>s, <2>j, <2>8, <3>2 DEF Receive
    <2>9. ASSUME NEW w \in Workers, Dispatch(w) PROVE TypeOK'
      <3>1. PICK s \in Slots :
              job' = [job EXCEPT ![<<w, s>>] = [pc |-> "start", m |-> loop[w], ok |-> TRUE]]
        BY <2>9 DEF Dispatch
      <3>2. loop[w] \in Messages
        BY <2>t, <2>9 DEF Dispatch
      <3>3. job' \in [Handlers -> JobType] /\ JobInv'
        BY <2>t, <3>1, <3>2, WorkerHandlers DEF JobType, JobInv
      <3>4. sem' \in [Workers -> Nat]
        BY <2>t, <2>9 DEF Dispatch
      <3>5. loop' \in [Workers -> Messages \cup {NoMsg}]
        BY <2>t, <2>9 DEF Dispatch
      <3> QED BY <2>t, <2>s, <2>9, <3>3, <3>4, <3>5 DEF Dispatch
    <2>10. ASSUME NEW w \in Workers, SweepStep(w) PROVE TypeOK'
      <3>1. CASE SweepFinds(w)
        <4>1. sweep' \in [Workers -> SweepType]
          BY <2>t, <3>1 DEF SweepFinds, SweepType
        <4> QED BY <2>t, <2>s, <2>j, <3>1, <4>1 DEF SweepFinds
      <3>2. CASE SweepPublishes(w)
        <4>1. PICK t \in sweep[w].todo : Publish(t) /\ sweep' = [sweep EXCEPT ![w].todo = @ \ {t}]
          BY <3>2 DEF SweepPublishes
        <4>2. sweep' \in [Workers -> SweepType]
          BY <2>t, <4>1, ZenonT(40) DEF SweepType
        <4>3. msg' \in [Messages -> {"none", "new", "pending"}]
          BY <2>t, <4>1, PublishType
        <4> QED BY <2>t, <2>s, <2>j, <3>2, <4>2, <4>3 DEF SweepPublishes
      <3>3. CASE SweepReclaims(w)
        <4>1. PICK c \in SUBSET Messages :
                sweep' = [sweep EXCEPT ![w].pc = "handle", ![w].claimed = c]
          BY <3>3 DEF SweepReclaims
        <4>a. [sweep[w] EXCEPT !.pc = "handle", !.claimed = c] \in SweepType
          BY <2>t, ZenonT(40) DEF SweepType
        <4>b. sweep' = [sweep EXCEPT ![w] = [sweep[w] EXCEPT !.pc = "handle", !.claimed = c]]
          BY <2>t, <4>1
        <4>2. sweep' \in [Workers -> SweepType]
          BY <2>t, <4>a, <4>b
        <4> QED BY <2>t, <2>s, <2>j, <3>3, <4>2 DEF SweepReclaims
      <3>4. CASE SweepHandles(w)
        <4>1. PICK m \in sweep[w].claimed :
                /\ job' = [job EXCEPT ![<<w, Sweeper>>] = [pc |-> "start", m |-> m, ok |-> TRUE]]
                /\ sweep' = [sweep EXCEPT ![w].claimed = @ \ {m}]
          BY <3>4 DEF SweepHandles
        <4>2. sweep' \in [Workers -> SweepType]
          BY <2>t, <4>1, ZenonT(40) DEF SweepType
        <4>3. m \in Messages
          BY <2>t, <4>1 DEF SweepType
        <4>4. job' \in [Handlers -> JobType] /\ JobInv'
          BY <2>t, <4>1, <4>3, WorkerHandlers DEF JobType, JobInv
        <4> QED BY <2>t, <2>s, <3>4, <4>2, <4>4 DEF SweepHandles
      <3>5. CASE SweepEnds(w)
        <4>1. sweep' \in [Workers -> SweepType]
          BY <2>t, <3>5 DEF SweepEnds, SweepType, NoSweep
        <4> QED BY <2>t, <2>s, <2>j, <3>5, <4>1 DEF SweepEnds
      <3> QED BY <2>10, <3>1, <3>2, <3>3, <3>4, <3>5 DEF SweepStep
    <2>11. ASSUME NEW w \in Workers, WorkerCrash(w) PROVE TypeOK'
      <3>1. job' \in [Handlers -> JobType] /\ JobInv'
        BY <2>t, <2>11 DEF WorkerCrash, JobType, JobInv, Idle
      <3>2. row' \in [Tasks -> RowType]
        BY <2>t, <2>11 DEF WorkerCrash, RowType
      <3>3. sweep' \in [Workers -> SweepType]
        BY <2>t, <2>11 DEF WorkerCrash, SweepType, NoSweep
      <3>4. sem' \in [Workers -> Nat] /\ loop' \in [Workers -> Messages \cup {NoMsg}]
        BY <2>t, <2>11, CoordinationAssumption DEF WorkerCrash
      <3>5. lock' \in [Tasks -> Handlers \cup {NoOne, Ghost}]
        BY <2>t, <2>11 DEF WorkerCrash
      <3>6. crashes' \in Nat
        BY <2>t, <2>11 DEF WorkerCrash
      <3> QED BY <2>t, <2>s, <2>11, <3>1, <3>2, <3>3, <3>4, <3>5, <3>6 DEF WorkerCrash
    <2>12. ASSUME NEW h \in Handlers, HandlerStep(h) PROVE TypeOK'
      <3>1. CASE AcquireLock(h)
        <4>1. job[h].pc = "start" /\ (Goto(h, "locked") \/ Goto(h, "settle"))
          BY <3>1 DEF AcquireLock, At
        <4>2. job' \in [Handlers -> JobType] /\ JobInv'
          BY <4>1, GotoType
        <4>3. lock' \in [Tasks -> Handlers \cup {NoOne, Ghost}]
          BY <2>t, <3>1 DEF AcquireLock
        <4> QED BY <2>t, <2>s, <3>1, <4>2, <4>3 DEF AcquireLock
      <3>2. CASE Claim(h)
        <4>1. job[h].pc = "locked" /\ (Goto(h, "running") \/ Goto(h, "unlock"))
          BY <3>2 DEF Claim, At
        <4>2. job' \in [Handlers -> JobType] /\ JobInv'
          BY <4>1, GotoType
        <4>3. row' \in [Tasks -> RowType]
          BY <2>t, <3>2, HandlerWorker DEF Claim, RowType
        <4> QED BY <2>t, <2>s, <3>2, <4>2, <4>3 DEF Claim
      <3>3. CASE Finish(h)
        <4>1. job[h].pc = "running" /\ Goto(h, "unlock")
          BY <3>3 DEF Finish, At
        <4>2. job' \in [Handlers -> JobType] /\ JobInv'
          BY <4>1, GotoType
        <4>3. PICK s \in {"READY_FOR_REVIEW", "HUMAN_REVIEW_REQUIRED", "FAILED"} :
                row' = [row EXCEPT ![TaskOf(h)] = WithStatus(@, s)]
          BY <3>3 DEF Finish
        <4>4. TaskOf(h) \in Tasks /\ s \in Statuses
          BY <4>1, TaskOfType DEF Statuses, TerminalStatuses
        <4>5. row' \in [Tasks -> RowType]
          BY <2>t, <4>3, <4>4, WithStatusType
        <4> QED BY <2>t, <2>s, <3>3, <4>2, <4>5 DEF Finish
      <3>4. CASE ReleaseLock(h)
        <4>1. job[h].pc = "unlock" /\ Goto(h, "unlease")
          BY <3>4 DEF ReleaseLock, At
        <4>2. job' \in [Handlers -> JobType] /\ JobInv'
          BY <4>1, GotoType
        <4>3. lock' \in [Tasks -> Handlers \cup {NoOne, Ghost}]
          BY <2>t, <3>4 DEF ReleaseLock
        <4> QED BY <2>t, <2>s, <3>4, <4>2, <4>3 DEF ReleaseLock
      <3>5. CASE ReleaseLease(h)
        <4>1. job[h].pc = "unlease" /\ Goto(h, "settle")
          BY <3>5 DEF ReleaseLease, At
        <4>2. job' \in [Handlers -> JobType] /\ JobInv'
          BY <4>1, GotoType
        <4>3. row' \in [Tasks -> RowType]
          <5>1. CASE row[TaskOf(h)].locked_by = h[1]
            <6>1. row' = [row EXCEPT ![TaskOf(h)].locked_by = NoOne, ![TaskOf(h)].expired = FALSE]
              BY <3>5, <5>1 DEF ReleaseLease
            <6> QED BY <2>t, <6>1, ZenonT(40) DEF RowType
          <5>2. CASE row[TaskOf(h)].locked_by # h[1]
            BY <2>t, <3>5, <5>2 DEF ReleaseLease
          <5> QED BY <5>1, <5>2
        <4> QED BY <2>t, <2>s, <3>5, <4>2, <4>3 DEF ReleaseLease
      <3>6. CASE Settle(h)
        <4>1. job' \in [Handlers -> JobType] /\ JobInv'
          BY <2>t, <3>6 DEF Settle, JobType, JobInv, Idle
        <4>2. msg' \in [Messages -> {"none", "new", "pending"}]
          BY <2>t, <3>6 DEF Settle
        <4>3. sem' \in [Workers -> Nat]
          BY <2>t, <3>6, HandlerWorker DEF Settle, SemRelease
        <4> QED BY <2>t, <2>s, <3>6, <4>1, <4>2, <4>3 DEF Settle
      <3> QED BY <2>12, <3>1, <3>2, <3>3, <3>4, <3>5, <3>6 DEF HandlerStep
    <2>13. ASSUME NEW h \in Handlers, Checkpoint(h) PROVE TypeOK'
      <3>1. PICK s \in {"RUNNING", "READY_FOR_REVIEW"} : row' = [row EXCEPT ![TaskOf(h)].status = s]
        BY <2>13 DEF Checkpoint
      <3>2. s \in Statuses
        BY DEF Statuses
      <3>3. row' \in [Tasks -> RowType]
        BY <2>t, <3>1, <3>2 DEF RowType
      <3> QED BY <2>t, <2>s, <2>j, <2>13, <3>3 DEF Checkpoint
    <2>14. ASSUME NEW h \in Handlers, CallRaises(h) PROVE TypeOK'
      <3>1. job' \in [Handlers -> JobType] /\ JobInv'
        BY <2>t, <2>14, ZenonT(40) DEF CallRaises, JobType, JobInv
      <3>2. errors' \in Nat
        BY <2>t, <2>14 DEF CallRaises
      <3> QED BY <2>t, <2>s, <2>14, <3>1, <3>2 DEF CallRaises
    <2>15. ASSUME NEW w \in Workers, SweepRaises(w) PROVE TypeOK'
      <3>1. sweep' \in [Workers -> SweepType]
        BY <2>t, <2>15 DEF SweepRaises, SweepType, NoSweep
      <3>2. errors' \in Nat
        BY <2>t, <2>15 DEF SweepRaises
      <3> QED BY <2>t, <2>s, <2>j, <2>15, <3>1, <3>2 DEF SweepRaises
    <2>16. CASE UNCHANGED vars
      BY <2>t, <2>s, <2>j, <2>16 DEF vars
    <2> QED BY <2>1, <2>2, <2>3, <2>4, <2>5, <2>6, <2>7, <2>8, <2>9, <2>10, <2>11, <2>12,
               <2>13, <2>14, <2>15, <2>16 DEF Next
  <1> QED BY <1>1, <1>2, PTL DEF Spec

-----------------------------------------------------------------------------
(* Mutual exclusion *)

(* What the exclusion rests on. The lease alone does not give it: the handlers
   of one worker share its identity, and release each other's leases. *)
LockInv ==
  ~SlowRuns /\ ~LocksVanish =>
    \A h \in Handlers : Holding(h) => lock[TaskOf(h)] = h

(* A step that moves no handler into the locked part of execute, and takes no
   lock from a handler that is in it, preserves LockInv. *)
LEMMA LockFrame ==
  ASSUME LockInv,
         \A h \in Handlers : Holding(h)' =>
           /\ Holding(h) /\ TaskOf(h)' = TaskOf(h)
           /\ lock[TaskOf(h)] = h => lock'[TaskOf(h)] = h
  PROVE  LockInv'
  BY DEF LockInv

(* Moving handler h to pc moves no other, and none to another task. *)
LEMMA GotoMoves ==
  ASSUME TypeOK, NEW h \in Handlers, NEW pc, Goto(h, pc)
  PROVE  /\ job'[h].pc = pc
         /\ \A g \in Handlers : TaskOf(g)' = TaskOf(g)
         /\ \A g \in Handlers : g # h => job'[g].pc = job[g].pc
  <1>1. job \in [Handlers -> JobType]
    BY DEF TypeOK, JobType
  <1> QED BY <1>1 DEF Goto, TaskOf, JobType

(* LockInv is inductive, given the types. *)
LEMMA LockInvariance == Spec => []LockInv
  <1>1. Init => LockInv
    BY DEF Init, LockInv, Holding, Idle
  <1>2. TypeOK /\ LockInv /\ [Next]_vars => LockInv'
    <2> SUFFICES ASSUME TypeOK, LockInv, [Next]_vars PROVE LockInv'
      OBVIOUS
    <2>t. /\ lock \in [Tasks -> Handlers \cup {NoOne, Ghost}]
          /\ job \in [Handlers -> JobType]
      BY DEF TypeOK, JobType
    <2>j. job' = job => \A h \in Handlers : (Holding(h)' <=> Holding(h)) /\ TaskOf(h)' = TaskOf(h)
      BY DEF Holding, TaskOf
    <2>k. \A h \in Handlers : Holding(h) => TaskOf(h) \in Tasks
      BY TaskOfType DEF Holding
    <2>f. job' = job /\ lock' = lock => LockInv'
      BY <2>j, LockFrame
    <2>1. ASSUME NEW t \in Tasks,
                 \/ CreateTask(t) \/ Enqueue(t) \/ EnqueueLost(t) \/ LeaseExpires(t)
                 \/ \E d \in Decisions : Decide(t, d) \/ DecisionWrites(t, d)
          PROVE  LockInv'
      BY <2>f, <2>1 DEF CreateTask, Enqueue, EnqueueLost, LeaseExpires, Decide, DecisionWrites
    <2>2. ASSUME NEW t \in Tasks, LockExpires(t) PROVE LockInv'
      <3> SUFFICES ASSUME ~SlowRuns, ~LocksVanish PROVE LockInv'
        BY DEF LockInv
      <3>1. ~LockInUse(t) /\ lock' = [lock EXCEPT ![t] = NoOne] /\ job' = job
        BY <2>2 DEF LockExpires
      <3>2. ASSUME NEW h \in Handlers, Holding(h) PROVE lock'[TaskOf(h)] = lock[TaskOf(h)]
        <4>1. lock[TaskOf(h)] = h
          BY <3>2 DEF LockInv
        <4>2. TaskOf(h) # t
          BY <3>1, <3>2, <4>1 DEF LockInUse
        <4> QED BY <2>t, <2>k, <3>1, <3>2, <4>2
      <3> QED BY <2>j, <3>1, <3>2, LockFrame
    <2>3. ASSUME NEW w \in Workers, Receive(w) \/ SweepRaises(w) PROVE LockInv'
      BY <2>f, <2>3 DEF Receive, SweepRaises
    <2>4. ASSUME NEW w \in Workers, Dispatch(w) PROVE LockInv'
      <3>1. PICK s \in Slots :
              job' = [job EXCEPT ![<<w, s>>] = [pc |-> "start", m |-> loop[w], ok |-> TRUE]]
        BY <2>4 DEF Dispatch
      <3>2. \A h \in Handlers : Holding(h)' => Holding(h) /\ TaskOf(h)' = TaskOf(h)
        BY <2>t, <3>1, WorkerHandlers DEF Holding, TaskOf
      <3>3. lock' = lock
        BY <2>4 DEF Dispatch
      <3> QED BY <3>2, <3>3, LockFrame
    <2>5. ASSUME NEW w \in Workers, SweepStep(w) PROVE LockInv'
      <3>1. CASE SweepHandles(w)
        <4>1. PICK m \in sweep[w].claimed :
                job' = [job EXCEPT ![<<w, Sweeper>>] = [pc |-> "start", m |-> m, ok |-> TRUE]]
          BY <3>1 DEF SweepHandles
        <4>2. \A h \in Handlers : Holding(h)' => Holding(h) /\ TaskOf(h)' = TaskOf(h)
          BY <2>t, <4>1, WorkerHandlers DEF Holding, TaskOf
        <4>3. lock' = lock
          BY <3>1 DEF SweepHandles
        <4> QED BY <4>2, <4>3, LockFrame
      <3>2. CASE SweepFinds(w) \/ SweepPublishes(w) \/ SweepReclaims(w) \/ SweepEnds(w)
        BY <2>f, <3>2 DEF SweepFinds, SweepPublishes, SweepReclaims, SweepEnds
      <3> QED BY <2>5, <3>1, <3>2 DEF SweepStep
    <2>6. ASSUME NEW w \in Workers, WorkerCrash(w) PROVE LockInv'
      <3>1. job' = [h \in Handlers |-> IF h[1] = w THEN Idle ELSE job[h]]
        BY <2>6 DEF WorkerCrash
      <3>2. lock' = [t \in Tasks |-> IF lock[t] \in {w} \X (Slots \cup {Sweeper})
                                     THEN Ghost ELSE lock[t]]
        BY <2>6 DEF WorkerCrash
      <3>3. ASSUME NEW h \in Handlers, Holding(h)'
            PROVE  h[1] # w /\ Holding(h) /\ TaskOf(h)' = TaskOf(h)
        BY <3>1, <3>3 DEF Holding, TaskOf, Idle
      <3>4. ASSUME NEW h \in Handlers, Holding(h)', lock[TaskOf(h)] = h
            PROVE  lock'[TaskOf(h)] = h
        <4>1. TaskOf(h) \in Tasks /\ h[1] # w
          BY <2>k, <3>3, <3>4
        <4>2. lock[TaskOf(h)] \notin {w} \X (Slots \cup {Sweeper})
          BY <3>4, <4>1
        <4> QED BY <3>2, <3>4, <4>1, <4>2
      <3> QED BY <3>3, <3>4, LockFrame
    <2>7. ASSUME NEW h \in Handlers, AcquireLock(h) PROVE LockInv'
      <3>1. CASE Goto(h, "settle") /\ UNCHANGED lock
        <4>1. \A g \in Handlers : Holding(g)' => Holding(g) /\ TaskOf(g)' = TaskOf(g)
          BY <3>1, GotoMoves DEF Holding
        <4> QED BY <3>1, <4>1, LockFrame
      <3>2. CASE /\ lock[TaskOf(h)] = NoOne /\ Goto(h, "locked")
                 /\ lock' = [lock EXCEPT ![TaskOf(h)] = h]
        <4>1. TaskOf(h) \in Tasks
          BY <2>7, TaskOfType DEF AcquireLock, At
        <4>2. lock'[TaskOf(h)'] = h
          BY <2>t, <3>2, <4>1, GotoMoves
        <4>3. ASSUME NEW g \in Handlers, g # h, Holding(g)', ~SlowRuns, ~LocksVanish
              PROVE  lock'[TaskOf(g)'] = g
          <5>1. Holding(g) /\ TaskOf(g)' = TaskOf(g)
            BY <3>2, <4>3, GotoMoves DEF Holding
          <5>2. lock[TaskOf(g)] = g /\ TaskOf(g) \in Tasks
            BY <2>k, <4>3, <5>1 DEF LockInv
          <5>3. TaskOf(g) # TaskOf(h)
            BY <3>2, <5>2, NoHandlerAssumption
          <5> QED BY <2>t, <3>2, <5>1, <5>2, <5>3
        <4> QED BY <4>2, <4>3 DEF LockInv
      <3> QED BY <2>7, <3>1, <3>2 DEF AcquireLock
    <2>8. ASSUME NEW h \in Handlers, Claim(h) \/ Finish(h) \/ ReleaseLease(h) PROVE LockInv'
      <3>1. /\ lock' = lock
            /\ \/ job[h].pc = "locked" /\ Goto(h, "running")
               \/ job[h].pc = "locked" /\ Goto(h, "unlock")
               \/ job[h].pc = "running" /\ Goto(h, "unlock")
               \/ job[h].pc = "unlease" /\ Goto(h, "settle")
        BY <2>8 DEF Claim, Finish, ReleaseLease, At
      <3>2. \A g \in Handlers : Holding(g)' => Holding(g) /\ TaskOf(g)' = TaskOf(g)
        BY <3>1, GotoMoves DEF Holding
      <3> QED BY <3>1, <3>2, LockFrame
    <2>9. ASSUME NEW h \in Handlers, ReleaseLock(h) PROVE LockInv'
      <3> SUFFICES ASSUME ~SlowRuns, ~LocksVanish PROVE LockInv'
        BY DEF LockInv
      <3>1. job[h].pc = "unlock" /\ Goto(h, "unlease")
        BY <2>9 DEF ReleaseLock, At
      <3>2. Holding(h) /\ lock[TaskOf(h)] = h
        BY <3>1 DEF Holding, LockInv
      <3>3. ASSUME NEW g \in Handlers, Holding(g)'
            PROVE  Holding(g) /\ TaskOf(g)' = TaskOf(g) /\ g # h
        BY <3>1, <3>3, GotoMoves DEF Holding
      <3>4. ASSUME NEW g \in Handlers, Holding(g)', lock[TaskOf(g)] = g
            PROVE  lock'[TaskOf(g)] = g
        <4>1. TaskOf(g) # TaskOf(h) /\ TaskOf(g) \in Tasks
          BY <2>k, <3>2, <3>3, <3>4
        <4> QED BY <2>t, <2>9, <3>4, <4>1 DEF ReleaseLock
      <3> QED BY <3>3, <3>4, LockFrame
    <2>10. ASSUME NEW h \in Handlers, Settle(h) PROVE LockInv'
      <3>1. job' = [job EXCEPT ![h] = Idle] /\ lock' = lock
        BY <2>10 DEF Settle
      <3>2. \A g \in Handlers : Holding(g)' => Holding(g) /\ TaskOf(g)' = TaskOf(g)
        BY <2>t, <3>1 DEF Holding, TaskOf, Idle
      <3> QED BY <3>1, <3>2, LockFrame
    <2>11. ASSUME NEW h \in Handlers, CallRaises(h) PROVE LockInv'
      <3>1. lock' = lock
        BY <2>11 DEF CallRaises
      <3>2. \A g \in Handlers : Holding(g)' => Holding(g) /\ TaskOf(g)' = TaskOf(g)
        BY <2>t, <2>11 DEF CallRaises, Holding, TaskOf, JobType
      <3> QED BY <3>1, <3>2, LockFrame
    <2>12. ASSUME NEW h \in Handlers, Checkpoint(h) PROVE LockInv'
      BY <2>f, <2>12 DEF Checkpoint
    <2>13. CASE UNCHANGED vars
      BY <2>f, <2>13 DEF vars
    <2> QED BY <2>1, <2>2, <2>3, <2>4, <2>5, <2>6, <2>7, <2>8, <2>9, <2>10, <2>11, <2>12,
               <2>13 DEF Next, HandlerStep
  <1> QED BY <1>1, <1>2, TypeCorrect, PTL DEF Spec

(* Two handlers never execute the same task at the same time, for any number of
   workers, messages, crashes and failing calls, when runs end within
   task_lease_seconds and Redis keeps its locks. *)
THEOREM ExclusiveExecution == Spec => []MutualExclusion
  <1>1. LockInv => MutualExclusion
    BY DEF LockInv, MutualExclusion, Holding, At
  <1> QED BY <1>1, LockInvariance, PTL

-----------------------------------------------------------------------------
(* Locks and leases are given back *)

Faultless == crashes = 0 /\ errors = 0 /\ ~SlowRuns /\ ~LocksVanish

(* Handler h holds the lease from a successful claim to its release. *)
Leasing(h) == job[h].pc \in {"running", "unlock", "unlease"}

(* A step in which a handler that lets go of a lock or a lease leaves it free. *)
LEMMA LeakFrame ==
  ASSUME NoLeakWithoutFault, Faultless' => Faultless,
         \A t \in Tasks : lock'[t] # NoOne => lock'[t] = lock[t],
         \A h \in Handlers : Holding(h) =>
           lock'[TaskOf(h)] # h \/ (Holding(h)' /\ TaskOf(h)' = TaskOf(h)),
         \A t \in Tasks : row'[t].locked_by # NoOne => row'[t].locked_by = row[t].locked_by,
         \A h \in Handlers : Leasing(h) =>
           row'[TaskOf(h)].locked_by # h[1] \/ (Leasing(h)' /\ TaskOf(h)' = TaskOf(h))
  PROVE  NoLeakWithoutFault'
  <1> SUFFICES ASSUME Faultless', NEW t \in Tasks
               PROVE  /\ lock'[t] # NoOne => LockInUse(t)'
                      /\ row'[t].locked_by # NoOne => LeaseInUse(t)'
    BY DEF NoLeakWithoutFault, Faultless
  <1>1. ASSUME lock'[t] # NoOne PROVE LockInUse(t)'
    BY <1>1 DEF NoLeakWithoutFault, Faultless, LockInUse
  <1>2. ASSUME row'[t].locked_by # NoOne PROVE LeaseInUse(t)'
    <2>1. row'[t].locked_by = row[t].locked_by /\ LeaseInUse(t)
      BY <1>2 DEF NoLeakWithoutFault, Faultless
    <2>2. PICK h \in Handlers : h[1] = row[t].locked_by /\ Leasing(h) /\ TaskOf(h) = t
      BY <2>1 DEF LeaseInUse, Leasing
    <2>3. Leasing(h)' /\ TaskOf(h)' = t
      BY <2>1, <2>2
    <2> QED BY <2>1, <2>2, <2>3 DEF LeaseInUse, Leasing
  <1> QED BY <1>1, <1>2

(* Without a fault every lock and every lease that is held is held by a
   handler at work on that task, for any number of tasks, workers and
   messages: skipped, refused, cancelled and finished executions give back all
   they took. *)
THEOREM NothingLeaks == Spec => []NoLeakWithoutFault
  <1>1. Init => NoLeakWithoutFault
    BY DEF Init, NoLeakWithoutFault
  <1>2. TypeOK /\ LockInv /\ NoLeakWithoutFault /\ [Next]_vars => NoLeakWithoutFault'
    <2> SUFFICES ASSUME TypeOK, LockInv, NoLeakWithoutFault, [Next]_vars
                 PROVE  NoLeakWithoutFault'
      OBVIOUS
    <2>t. /\ row \in [Tasks -> RowType]
          /\ lock \in [Tasks -> Handlers \cup {NoOne, Ghost}]
          /\ job \in [Handlers -> JobType]
          /\ crashes \in Nat /\ errors \in Nat
      BY DEF TypeOK, JobType, RowType
    <2>k. \A h \in Handlers : Holding(h) \/ Leasing(h) => TaskOf(h) \in Tasks
      BY TaskOfType DEF Holding, Leasing
    <2>f. ASSUME Faultless' => Faultless, job' = job, lock' = lock,
                 \A t \in Tasks : row'[t].locked_by # NoOne => row'[t].locked_by = row[t].locked_by
          PROVE  NoLeakWithoutFault'
      BY <2>f, LeakFrame DEF Holding, Leasing, TaskOf
    <2>1. ASSUME NEW t \in Tasks, CreateTask(t) \/ LeaseExpires(t)
                   \/ \E d \in Decisions : DecisionWrites(t, d)
          PROVE  NoLeakWithoutFault'
      <3>1. CASE CreateTask(t)
        BY <2>t, <2>f, <3>1 DEF CreateTask, Faultless, RowType
      <3>2. CASE LeaseExpires(t)
        BY <2>t, <2>f, <3>2 DEF LeaseExpires, Faultless, RowType
      <3>3. ASSUME NEW d \in Decisions, DecisionWrites(t, d) PROVE NoLeakWithoutFault'
        <4>1. row' = [row EXCEPT ![t] = WithStatus(@, DecisionStatus(d))]
          BY <3>3 DEF DecisionWrites
        <4>2. WithStatus(row[t], DecisionStatus(d)).locked_by \in {NoOne, row[t].locked_by}
          BY <2>t DEF WithStatus, RowType
        <4>3. \A u \in Tasks : row'[u].locked_by # NoOne => row'[u].locked_by = row[u].locked_by
          BY <2>t, <4>1, <4>2
        <4> QED BY <2>f, <3>3, <4>3 DEF DecisionWrites, Faultless
      <3> QED BY <2>1, <3>1, <3>2, <3>3
    <2>2. ASSUME NEW t \in Tasks, Enqueue(t) \/ \E d \in Decisions : Decide(t, d)
          PROVE  NoLeakWithoutFault'
      BY <2>f, <2>2 DEF Enqueue, Decide, Faultless
    <2>3. ASSUME NEW t \in Tasks, LockExpires(t) PROVE NoLeakWithoutFault'
      <3>1. lock' = [lock EXCEPT ![t] = NoOne] /\ UNCHANGED <<job, row, crashes, errors>>
        BY <2>3 DEF LockExpires
      <3>2. \A u \in Tasks : lock'[u] # NoOne => lock'[u] = lock[u]
        BY <2>t, <3>1
      <3> QED BY <3>1, <3>2, LeakFrame DEF Faultless, Holding, Leasing, TaskOf
    <2>4. ASSUME crashes' = crashes + 1 \/ errors' = errors + 1 PROVE NoLeakWithoutFault'
      BY <2>t, <2>4 DEF NoLeakWithoutFault
    <2>5. ASSUME NEW t \in Tasks, EnqueueLost(t) PROVE NoLeakWithoutFault'
      BY <2>4, <2>5 DEF EnqueueLost
    <2>6. ASSUME NEW w \in Workers, WorkerCrash(w) \/ SweepRaises(w) PROVE NoLeakWithoutFault'
      BY <2>4, <2>6 DEF WorkerCrash, SweepRaises
    <2>7. ASSUME NEW h \in Handlers, CallRaises(h) PROVE NoLeakWithoutFault'
      BY <2>4, <2>7 DEF CallRaises
    <2>8. ASSUME NEW w \in Workers,
                 \/ Receive(w) \/ SweepFinds(w) \/ SweepPublishes(w) \/ SweepReclaims(w)
                 \/ SweepEnds(w)
          PROVE  NoLeakWithoutFault'
      BY <2>f, <2>8 DEF Receive, SweepFinds, SweepPublishes, SweepReclaims, SweepEnds, Faultless
    <2>9. ASSUME NEW h \in Handlers, NEW j, ~Holding(h), ~Leasing(h),
                 job' = [job EXCEPT ![h] = j], UNCHANGED <<lock, row, crashes, errors>>
          PROVE  NoLeakWithoutFault'
      <3>1. \A g \in Handlers : g # h => job'[g] = job[g]
        BY <2>t, <2>9
      <3>2. \A g \in Handlers : Holding(g) => Holding(g)' /\ TaskOf(g)' = TaskOf(g)
        BY <2>9, <3>1 DEF Holding, TaskOf
      <3>3. \A g \in Handlers : Leasing(g) => Leasing(g)' /\ TaskOf(g)' = TaskOf(g)
        BY <2>9, <3>1 DEF Leasing, TaskOf
      <3> QED BY <2>9, <3>2, <3>3, LeakFrame DEF Faultless
    <2>10. ASSUME NEW w \in Workers, Dispatch(w) PROVE NoLeakWithoutFault'
      <3>1. PICK s \in Slots :
              /\ job[<<w, s>>].pc = "idle"
              /\ job' = [job EXCEPT ![<<w, s>>] = [pc |-> "start", m |-> loop[w], ok |-> TRUE]]
        BY <2>10 DEF Dispatch, At
      <3>2. <<w, s>> \in Handlers /\ ~Holding(<<w, s>>) /\ ~Leasing(<<w, s>>)
        BY <3>1, WorkerHandlers DEF Holding, Leasing
      <3>3. UNCHANGED <<lock, row, crashes, errors>>
        BY <2>10 DEF Dispatch
      <3> QED BY <2>9, <3>1, <3>2, <3>3
    <2>11. ASSUME NEW w \in Workers, SweepHandles(w) PROVE NoLeakWithoutFault'
      <3>1. PICK m \in sweep[w].claimed :
              job' = [job EXCEPT ![<<w, Sweeper>>] = [pc |-> "start", m |-> m, ok |-> TRUE]]
        BY <2>11 DEF SweepHandles
      <3>2. <<w, Sweeper>> \in Handlers /\ ~Holding(<<w, Sweeper>>) /\ ~Leasing(<<w, Sweeper>>)
        BY <2>11, WorkerHandlers DEF SweepHandles, At, Holding, Leasing
      <3>3. UNCHANGED <<lock, row, crashes, errors>>
        BY <2>11 DEF SweepHandles
      <3> QED BY <2>9, <3>1, <3>2, <3>3
    <2>12. ASSUME NEW h \in Handlers, Settle(h) PROVE NoLeakWithoutFault'
      <3>1. /\ ~Holding(h) /\ ~Leasing(h) /\ job' = [job EXCEPT ![h] = Idle]
            /\ UNCHANGED <<lock, row, crashes, errors>>
        BY <2>12 DEF Settle, At, Holding, Leasing
      <3> QED BY <2>9, <3>1
    <2>13. ASSUME NEW h \in Handlers, Checkpoint(h) PROVE NoLeakWithoutFault'
      <3>1. PICK s : row' = [row EXCEPT ![TaskOf(h)].status = s]
        BY <2>13 DEF Checkpoint
      <3>2. \A t \in Tasks : row'[t].locked_by = row[t].locked_by
        BY <2>t, <3>1 DEF RowType
      <3> QED BY <2>f, <2>13, <3>2 DEF Checkpoint, Faultless
    <2>14. ASSUME NEW h \in Handlers, AcquireLock(h) PROVE NoLeakWithoutFault'
      <3>1. ~Holding(h) /\ ~Leasing(h) /\ UNCHANGED <<row, crashes, errors>> /\ TaskOf(h) \in Tasks
        BY <2>14, TaskOfType DEF AcquireLock, At, Holding, Leasing
      <3>2. CASE Goto(h, "settle") /\ UNCHANGED lock
        <4>1. job' = [job EXCEPT ![h] = [job[h] EXCEPT !.pc = "settle"]]
          BY <2>t, <3>2 DEF Goto
        <4> QED BY <2>9, <3>1, <3>2, <4>1
      <3>3. CASE /\ lock[TaskOf(h)] = NoOne /\ Goto(h, "locked")
                 /\ lock' = [lock EXCEPT ![TaskOf(h)] = h]
        <4> SUFFICES ASSUME Faultless, NEW t \in Tasks
                     PROVE  /\ lock'[t] # NoOne => LockInUse(t)'
                            /\ row'[t].locked_by # NoOne => LeaseInUse(t)'
          BY <3>1 DEF NoLeakWithoutFault, Faultless
        <4>1. /\ lock[t] # NoOne => LockInUse(t)
              /\ row[t].locked_by # NoOne => LeaseInUse(t)
          BY DEF NoLeakWithoutFault, Faultless
        <4>2. CASE t = TaskOf(h)
          <5>1. lock'[t] = h /\ Holding(h)' /\ TaskOf(h)' = t
            BY <2>t, <3>1, <3>3, <4>2, GotoMoves DEF Holding
          <5> QED BY <3>1, <4>1, <5>1, <3>3, GotoMoves DEF LockInUse, LeaseInUse, Leasing
        <4>3. CASE t # TaskOf(h)
          <5>1. lock'[t] = lock[t]
            BY <2>t, <3>1, <3>3, <4>3
          <5>2. ASSUME NEW g \in Handlers, TaskOf(g) = t
                PROVE  job'[g].pc = job[g].pc /\ TaskOf(g)' = t
            BY <3>3, <4>3, <5>2, GotoMoves
          <5>3. LockInUse(t) => LockInUse(t)'
            BY <5>1, <5>2 DEF LockInUse, Holding
          <5>4. LeaseInUse(t) => LeaseInUse(t)'
            BY <3>1, <5>2 DEF LeaseInUse
          <5> QED BY <3>1, <4>1, <5>1, <5>3, <5>4
        <4> QED BY <4>2, <4>3
      <3> QED BY <2>14, <3>2, <3>3 DEF AcquireLock
    <2>15. ASSUME NEW h \in Handlers, Claim(h) PROVE NoLeakWithoutFault'
      <3>1. /\ job[h].pc = "locked" /\ TaskOf(h) \in Tasks /\ UNCHANGED <<lock, crashes, errors>>
            /\ Goto(h, "running") \/ Goto(h, "unlock")
        BY <2>15, TaskOfType DEF Claim, At
      <3>2. \A g \in Handlers :
              /\ TaskOf(g)' = TaskOf(g) /\ (Holding(g) => Holding(g)') /\ (Leasing(g) => Leasing(g)')
        BY <3>1, GotoMoves DEF Holding, Leasing
      <3>3. CASE row' = row
        BY <3>1, <3>2, <3>3, LeakFrame DEF Faultless
      <3>4. CASE row' = [row EXCEPT ![TaskOf(h)].locked_by = h[1], ![TaskOf(h)].expired = FALSE]
        <4> SUFFICES ASSUME Faultless, NEW t \in Tasks
                     PROVE  /\ lock'[t] # NoOne => LockInUse(t)'
                            /\ row'[t].locked_by # NoOne => LeaseInUse(t)'
          BY <3>1 DEF NoLeakWithoutFault, Faultless
        <4>1. /\ lock[t] # NoOne => LockInUse(t)
              /\ row[t].locked_by # NoOne => LeaseInUse(t)
          BY DEF NoLeakWithoutFault, Faultless
        <4>2. lock'[t] # NoOne => LockInUse(t)'
          BY <3>1, <3>2, <4>1 DEF LockInUse
        <4>3. CASE t = TaskOf(h)
          <5>1. row'[t].locked_by = h[1]
            BY <2>t, <3>1, <3>4, <4>3 DEF RowType
          <5>2. Leasing(h)' /\ TaskOf(h)' = t
            BY <3>1, <3>2, <4>3, GotoMoves DEF Leasing
          <5> QED BY <4>2, <5>1, <5>2 DEF LeaseInUse, Leasing
        <4>4. CASE t # TaskOf(h)
          <5>1. row'[t] = row[t]
            BY <2>t, <3>1, <3>4, <4>4
          <5>2. LeaseInUse(t) => LeaseInUse(t)'
            BY <3>2, <5>1 DEF LeaseInUse, Leasing
          <5> QED BY <4>1, <4>2, <5>1, <5>2
        <4> QED BY <4>3, <4>4
      <3> QED BY <2>15, <3>3, <3>4 DEF Claim
    <2>16. ASSUME NEW h \in Handlers, Finish(h) PROVE NoLeakWithoutFault'
      <3>1. job[h].pc = "running" /\ Goto(h, "unlock") /\ UNCHANGED <<lock, crashes, errors>>
        BY <2>16 DEF Finish, At
      <3>2. \A g \in Handlers :
              /\ TaskOf(g)' = TaskOf(g) /\ (Holding(g) => Holding(g)') /\ (Leasing(g) => Leasing(g)')
        BY <3>1, GotoMoves DEF Holding, Leasing
      <3>3. PICK s : row' = [row EXCEPT ![TaskOf(h)] = WithStatus(@, s)]
        BY <2>16 DEF Finish
      <3>4. TaskOf(h) \in Tasks
        BY <3>1, TaskOfType
      <3>5. WithStatus(row[TaskOf(h)], s).locked_by \in {NoOne, row[TaskOf(h)].locked_by}
        BY <2>t, <3>4 DEF WithStatus, RowType
      <3>6. \A t \in Tasks : row'[t].locked_by # NoOne => row'[t].locked_by = row[t].locked_by
        BY <2>t, <3>3, <3>4, <3>5
      <3> QED BY <3>1, <3>2, <3>6, LeakFrame DEF Faultless
    <2>17. ASSUME NEW h \in Handlers, ReleaseLock(h) PROVE NoLeakWithoutFault'
      <3> SUFFICES ASSUME Faultless PROVE NoLeakWithoutFault'
        BY <2>17 DEF ReleaseLock, NoLeakWithoutFault, Faultless
      <3>1. job[h].pc = "unlock" /\ Goto(h, "unlease") /\ UNCHANGED <<row, crashes, errors>>
        BY <2>17 DEF ReleaseLock, At
      <3>2. TaskOf(h) \in Tasks /\ lock[TaskOf(h)] = h
        BY <3>1, TaskOfType DEF LockInv, Faultless, Holding
      <3>3. lock' = [lock EXCEPT ![TaskOf(h)] = NoOne]
        <4>1. h \in {h[1]} \X (Slots \cup {Sweeper})
          BY DEF Handlers
        <4> QED BY <2>t, <2>17, <3>2, <4>1 DEF ReleaseLock
      <3>4. \A t \in Tasks : lock'[t] # NoOne => lock'[t] = lock[t]
        BY <2>t, <3>3
      <3>5. \A g \in Handlers : Holding(g) =>
              lock'[TaskOf(g)] # g \/ (Holding(g)' /\ TaskOf(g)' = TaskOf(g))
        <4> SUFFICES ASSUME NEW g \in Handlers, Holding(g)
                     PROVE  lock'[TaskOf(g)] # g \/ (Holding(g)' /\ TaskOf(g)' = TaskOf(g))
          OBVIOUS
        <4>1. CASE g = h
          BY <2>t, <3>2, <3>3, <4>1, NoHandlerAssumption
        <4>2. CASE g # h
          BY <3>1, <4>2, GotoMoves DEF Holding
        <4> QED BY <4>1, <4>2
      <3>6. \A g \in Handlers : Leasing(g) => Leasing(g)' /\ TaskOf(g)' = TaskOf(g)
        BY <3>1, GotoMoves DEF Leasing
      <3> QED BY <3>1, <3>4, <3>5, <3>6, LeakFrame DEF Faultless
    <2>18. ASSUME NEW h \in Handlers, ReleaseLease(h) PROVE NoLeakWithoutFault'
      <3>1. /\ job[h].pc = "unlease" /\ Goto(h, "settle") /\ UNCHANGED <<lock, crashes, errors>>
            /\ TaskOf(h) \in Tasks
        BY <2>18, TaskOfType DEF ReleaseLease, At
      <3>2. \A g \in Handlers : Holding(g) => Holding(g)' /\ TaskOf(g)' = TaskOf(g)
        BY <3>1, GotoMoves DEF Holding
      <3>3. /\ \A t \in Tasks : row'[t].locked_by # NoOne => row'[t].locked_by = row[t].locked_by
            /\ row'[TaskOf(h)].locked_by # h[1]
        <4>1. CASE row[TaskOf(h)].locked_by = h[1]
          <5>1. row' = [row EXCEPT ![TaskOf(h)].locked_by = NoOne, ![TaskOf(h)].expired = FALSE]
            BY <2>18, <4>1 DEF ReleaseLease
          <5>2. h[1] # NoOne
            BY HandlerWorker, CoordinationAssumption
          <5> QED BY <2>t, <3>1, <5>1, <5>2 DEF RowType
        <4>2. CASE row[TaskOf(h)].locked_by # h[1]
          BY <2>18, <4>2 DEF ReleaseLease
        <4> QED BY <4>1, <4>2
      <3>4. \A g \in Handlers : Leasing(g) =>
              row'[TaskOf(g)].locked_by # g[1] \/ (Leasing(g)' /\ TaskOf(g)' = TaskOf(g))
        BY <3>1, <3>3, GotoMoves DEF Leasing
      <3> QED BY <3>1, <3>2, <3>3, <3>4, LeakFrame DEF Faultless
    <2>19. CASE UNCHANGED vars
      BY <2>f, <2>19 DEF vars, Faultless
    <2> QED BY <2>1, <2>2, <2>3, <2>5, <2>6, <2>7, <2>8, <2>10, <2>11, <2>12, <2>13, <2>14,
               <2>15, <2>16, <2>17, <2>18, <2>19 DEF Next, HandlerStep, SweepStep
  <1> QED BY <1>1, <1>2, TypeCorrect, LockInvariance, PTL DEF Spec

=============================================================================
