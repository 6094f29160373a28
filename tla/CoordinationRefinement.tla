----------------------- MODULE CoordinationRefinement -----------------------
(***************************************************************************)
(* Coordination implements TaskLifecycle, for any number of tasks,         *)
(* workers, handlers, copies of a message, crashes and failing calls.      *)
(***************************************************************************)
EXTENDS CoordinationProofs

-----------------------------------------------------------------------------
(* Whatever waits, travels or works belongs to a task that was submitted. *)

Known(t) == row[t].status # "ABSENT"

ApiKnown == /\ \A t \in unsent : Known(t)
            /\ \A t \in Tasks : deciding[t] # {} => Known(t)
MsgKnown == \A m \in Messages : msg[m] # "none" => Known(m[1])
LoopKnown == \A w \in Workers : loop[w] # NoMsg => Known(loop[w][1])
SweepKnown == \A w \in Workers :
                /\ \A t \in sweep[w].todo : Known(t)
                /\ \A m \in sweep[w].claimed : Known(m[1])
JobKnown == \A h \in Handlers : job[h].pc # "idle" => Known(TaskOf(h))

KnownInv == ApiKnown /\ MsgKnown /\ LoopKnown /\ SweepKnown /\ JobKnown

(* set_status never writes ABSENT. *)
LEMMA WithStatusKnown ==
  ASSUME NEW r, NEW s, s # "ABSENT"
  PROVE  WithStatus(r, s).status # "ABSENT" \/ r \notin RowType
  BY DEF WithStatus, RowType

(* A task that was submitted stays submitted. *)
LEMMA KnownStays ==
  ASSUME TypeOK, Next
  PROVE  \A t \in Tasks : Known(t) => Known(t)'
  <1> SUFFICES ASSUME NEW t \in Tasks, Known(t) PROVE Known(t)'
    OBVIOUS
  <1>t. row \in [Tasks -> RowType] /\ job \in [Handlers -> JobType]
    BY DEF TypeOK, RowType, JobType
  <1>u. row' = row => Known(t)'
    BY DEF Known
  <1>1. ASSUME NEW u \in Tasks, CreateTask(u) \/ LeaseExpires(u) PROVE Known(t)'
    BY <1>t, <1>1 DEF CreateTask, LeaseExpires, Known, RowType
  <1>2. ASSUME NEW u \in Tasks, NEW d \in Decisions, DecisionWrites(u, d) PROVE Known(t)'
    <2>1. DecisionStatus(d) # "ABSENT"
      BY CoordinationAssumption DEF DecisionStatus
    <2>2. row' = [row EXCEPT ![u] = WithStatus(row[u], DecisionStatus(d))]
      BY <1>2 DEF DecisionWrites
    <2> QED BY <1>t, <2>1, <2>2, WithStatusKnown DEF Known
  <1>3. ASSUME NEW u \in Tasks, \/ Enqueue(u) \/ EnqueueLost(u) \/ LockExpires(u)
                                \/ \E d \in Decisions : Decide(u, d)
        PROVE  Known(t)'
    BY <1>u, <1>3 DEF Enqueue, EnqueueLost, LockExpires, Decide
  <1>4. ASSUME NEW w \in Workers, Receive(w) \/ Dispatch(w) \/ SweepStep(w) \/ SweepRaises(w)
        PROVE  Known(t)'
    BY <1>u, <1>4 DEF Receive, Dispatch, SweepStep, SweepFinds, SweepPublishes,
                      SweepReclaims, SweepHandles, SweepEnds, SweepRaises
  <1>5. ASSUME NEW w \in Workers, WorkerCrash(w) PROVE Known(t)'
    BY <1>t, <1>5 DEF WorkerCrash, Known, RowType
  <1>6. ASSUME NEW h \in Handlers, \/ AcquireLock(h) \/ ReleaseLock(h) \/ Settle(h) \/ CallRaises(h)
        PROVE  Known(t)'
    BY <1>u, <1>6 DEF AcquireLock, ReleaseLock, Settle, CallRaises
  <1>7. ASSUME NEW h \in Handlers, Claim(h) PROVE Known(t)'
    BY <1>t, <1>7 DEF Claim, Known, RowType
  <1>8. ASSUME NEW h \in Handlers, Finish(h) PROVE Known(t)'
    <2>1. PICK s \in {"READY_FOR_REVIEW", "HUMAN_REVIEW_REQUIRED", "FAILED"} :
            row' = [row EXCEPT ![TaskOf(h)] = WithStatus(row[TaskOf(h)], s)]
      BY <1>8 DEF Finish
    <2> QED BY <1>t, <2>1, WithStatusKnown DEF Known
  <1>9. ASSUME NEW h \in Handlers, ReleaseLease(h) PROVE Known(t)'
    BY <1>t, <1>9 DEF ReleaseLease, Known, RowType
  <1>10. ASSUME NEW h \in Handlers, Checkpoint(h) PROVE Known(t)'
    <2>1. PICK s \in {"RUNNING", "READY_FOR_REVIEW"} : row' = [row EXCEPT ![TaskOf(h)].status = s]
      BY <1>10 DEF Checkpoint
    <2> QED BY <1>t, <2>1 DEF Known, RowType
  <1> QED BY <1>1, <1>2, <1>3, <1>4, <1>5, <1>6, <1>7, <1>8, <1>9, <1>10 DEF Next, HandlerStep

(* Publishing a submitted task. *)
LEMMA PublishKnown ==
  ASSUME TypeOK, MsgKnown, NEW t \in Tasks, Known(t)', Publish(t),
         \A u \in Tasks : Known(u) => Known(u)'
  PROVE  MsgKnown'
  <1>1. msg \in [Messages -> {"none", "new", "pending"}]
    BY DEF TypeOK
  <1>2. CASE msg' = msg
    BY <1>2, MessageTask DEF MsgKnown
  <1>3. CASE \E m \in Messages : m[1] = t /\ msg' = [msg EXCEPT ![m] = "new"]
    BY <1>1, <1>3, MessageTask DEF MsgKnown
  <1> QED BY <1>2, <1>3 DEF Publish

(* KnownInv is inductive, given the types. *)
LEMMA KnownInvariance == Spec => []KnownInv
  <1>1. Init => KnownInv
    BY DEF Init, KnownInv, ApiKnown, MsgKnown, LoopKnown, SweepKnown, JobKnown, Idle, NoSweep
  <1>2. TypeOK /\ KnownInv /\ [Next]_vars => KnownInv'
    <2> SUFFICES ASSUME TypeOK, KnownInv, Next PROVE KnownInv'
      BY DEF vars, KnownInv, ApiKnown, MsgKnown, LoopKnown, SweepKnown, JobKnown, Known, TaskOf
    <2>t. /\ row \in [Tasks -> RowType] /\ msg \in [Messages -> {"none", "new", "pending"}]
          /\ loop \in [Workers -> Messages \cup {NoMsg}] /\ job \in [Handlers -> JobType]
          /\ sweep \in [Workers -> SweepType] /\ unsent \subseteq Tasks
          /\ deciding \in [Tasks -> SUBSET Decisions] /\ JobInv
      BY DEF TypeOK, RowType, JobType, SweepType, JobInv
    <2>k. \A t \in Tasks : Known(t) => Known(t)'
      BY KnownStays
    <2>i. ApiKnown /\ MsgKnown /\ LoopKnown /\ SweepKnown /\ JobKnown
      BY DEF KnownInv
    <2>a. unsent' \subseteq unsent /\ deciding' = deciding => ApiKnown'
      BY <2>t, <2>k, <2>i DEF ApiKnown
    <2>m. msg' = msg => MsgKnown'
      BY <2>k, <2>i, MessageTask DEF MsgKnown
    <2>l. loop' = loop => LoopKnown'
      BY <2>t, <2>k, <2>i, MessageTask DEF LoopKnown
    <2>s. sweep' = sweep => SweepKnown'
      BY <2>t, <2>k, <2>i, MessageTask DEF SweepKnown, SweepType
    <2>j. (\A h \in Handlers : job'[h].pc # "idle" => job[h].pc # "idle" /\ job'[h].m = job[h].m)
            => JobKnown'
      <3> SUFFICES ASSUME \A h \in Handlers : job'[h].pc # "idle" => job[h].pc # "idle" /\ job'[h].m = job[h].m,
                          NEW h \in Handlers, job'[h].pc # "idle"
                   PROVE  Known(TaskOf(h))'
        BY DEF JobKnown
      <3>1. TaskOf(h)' = TaskOf(h) /\ TaskOf(h) \in Tasks /\ Known(TaskOf(h))
        BY <2>i, TaskOfType DEF JobKnown, TaskOf
      <3>2. Known(TaskOf(h))' = (row'[TaskOf(h)'].status # "ABSENT")
        BY DEF Known
      <3>3. row'[TaskOf(h)].status # "ABSENT"
        BY <2>k, <3>1 DEF Known
      <3> QED BY <3>1, <3>2, <3>3
    <2>u. job' = job => JobKnown'
      BY <2>j
    <2>1. ASSUME NEW t \in Tasks, CreateTask(t) PROVE KnownInv'
      <3>1. Known(t)'
        BY <2>t, <2>1 DEF CreateTask, Known, RowType
      <3>2. ApiKnown'
        BY <2>t, <2>k, <2>i, <2>1, <3>1 DEF CreateTask, ApiKnown
      <3> QED BY <2>m, <2>l, <2>s, <2>u, <2>1, <3>2 DEF CreateTask, KnownInv
    <2>2. ASSUME NEW t \in Tasks, Enqueue(t) PROVE KnownInv'
      <3>1. Known(t)'
        BY <2>t, <2>k, <2>i, <2>2 DEF Enqueue, ApiKnown
      <3>2. MsgKnown'
        BY <2>i, <2>k, <2>2, <3>1, PublishKnown DEF Enqueue
      <3> QED BY <2>a, <2>l, <2>s, <2>u, <2>2, <3>2 DEF Enqueue, KnownInv
    <2>3. ASSUME NEW t \in Tasks, EnqueueLost(t) \/ LockExpires(t) \/ LeaseExpires(t) PROVE KnownInv'
      BY <2>a, <2>m, <2>l, <2>s, <2>u, <2>3 DEF EnqueueLost, LockExpires, LeaseExpires, KnownInv
    <2>4. ASSUME NEW t \in Tasks, NEW d \in Decisions, Decide(t, d) \/ DecisionWrites(t, d)
          PROVE  KnownInv'
      <3>1. /\ Known(t)
            /\ unsent' = unsent /\ \A u \in Tasks : u # t => deciding'[u] = deciding[u]
        BY <2>t, <2>i, <2>4 DEF Decide, DecisionWrites, ApiKnown, Known
      <3>2. ApiKnown'
        BY <2>t, <2>k, <2>i, <3>1 DEF ApiKnown
      <3> QED BY <2>m, <2>l, <2>s, <2>u, <2>4, <3>2 DEF Decide, DecisionWrites, KnownInv
    <2>5. ASSUME NEW w \in Workers, Receive(w) PROVE KnownInv'
      <3>1. PICK m \in Messages : /\ msg[m] = "new" /\ msg' = [msg EXCEPT ![m] = "pending"]
                                  /\ loop' = [loop EXCEPT ![w] = m]
        BY <2>5 DEF Receive
      <3>2. Known(m[1])'
        BY <2>k, <2>i, <3>1, MessageTask DEF MsgKnown
      <3>3. MsgKnown'
        BY <2>t, <2>k, <2>i, <3>1, <3>2, MessageTask DEF MsgKnown
      <3>4. LoopKnown'
        <4> SUFFICES ASSUME NEW v \in Workers, loop'[v] # NoMsg PROVE Known(loop[v][1])'
          BY DEF LoopKnown
        <4>1. CASE v = w
          BY <2>t, <3>1, <3>2, <4>1
        <4>2. CASE v # w
          <5>1. loop'[v] = loop[v] /\ loop[v] \in Messages
            BY <2>t, <3>1, <4>2
          <5> QED BY <2>k, <2>i, <5>1, MessageTask DEF LoopKnown
        <4> QED BY <4>1, <4>2
      <3> QED BY <2>a, <2>s, <2>u, <2>5, <3>3, <3>4 DEF Receive, KnownInv
    <2>6. ASSUME NEW w \in Workers, Dispatch(w) PROVE KnownInv'
      <3>1. PICK s \in Slots :
              job' = [job EXCEPT ![<<w, s>>] = [pc |-> "start", m |-> loop[w], ok |-> TRUE]]
        BY <2>6 DEF Dispatch
      <3>2. loop[w] \in Messages /\ loop' = [loop EXCEPT ![w] = NoMsg]
        BY <2>t, <2>6 DEF Dispatch
      <3>3. Known(loop[w][1]) /\ loop[w][1] \in Tasks
        BY <2>i, <2>6, <3>2, MessageTask DEF LoopKnown, Dispatch
      <3>4. JobKnown'
        <4> SUFFICES ASSUME NEW h \in Handlers, job'[h].pc # "idle" PROVE Known(TaskOf(h))'
          BY DEF JobKnown
        <4>1. CASE h = <<w, s>>
          <5>1. TaskOf(h)' = loop[w][1]
            BY <2>t, <3>1, <4>1 DEF TaskOf
          <5> QED BY <2>k, <3>3, <5>1 DEF Known
        <4>2. CASE h # <<w, s>>
          <5>1. TaskOf(h)' = TaskOf(h) /\ job[h].pc # "idle"
            BY <2>t, <3>1, <4>2 DEF TaskOf
          <5>2. TaskOf(h) \in Tasks /\ Known(TaskOf(h))
            BY <2>i, <5>1, TaskOfType DEF JobKnown
          <5> QED BY <2>k, <5>1, <5>2 DEF Known
        <4> QED BY <4>1, <4>2
      <3>5. LoopKnown'
        BY <2>t, <2>k, <2>i, <3>2, MessageTask DEF LoopKnown
      <3> QED BY <2>a, <2>m, <2>s, <2>6, <3>4, <3>5 DEF Dispatch, KnownInv
    <2>7. ASSUME NEW w \in Workers, SweepStep(w) \/ SweepRaises(w) PROVE KnownInv'
      <3>1. CASE SweepFinds(w)
        <4>1. \A t \in {u \in Tasks : Unclaimed(u) \/ Recoverable(u)} : Known(t)'
          BY <2>k DEF Unclaimed, Recoverable, Known
        <4>a. \A v \in Workers :
                /\ sweep'[v].todo \subseteq sweep[v].todo \cup {u \in Tasks : Unclaimed(u) \/ Recoverable(u)}
                /\ sweep'[v].claimed \subseteq sweep[v].claimed
          BY <2>t, <3>1 DEF SweepFinds
        <4>2. SweepKnown'
          BY <2>t, <2>k, <2>i, <4>1, <4>a, MessageTask DEF SweepKnown, SweepType
        <4> QED BY <2>a, <2>m, <2>l, <2>u, <3>1, <4>2 DEF SweepFinds, KnownInv
      <3>2. CASE SweepPublishes(w)
        <4>1. PICK t \in sweep[w].todo : Publish(t) /\ sweep' = [sweep EXCEPT ![w].todo = @ \ {t}]
          BY <3>2 DEF SweepPublishes
        <4>2. t \in Tasks /\ Known(t)'
          BY <2>t, <2>k, <2>i DEF SweepKnown, SweepType
        <4>3. MsgKnown'
          BY <2>i, <2>k, <4>1, <4>2, PublishKnown
        <4>4. \A v \in Workers : /\ sweep'[v].todo \subseteq sweep[v].todo
                                 /\ sweep'[v].claimed = sweep[v].claimed
          BY <2>t, <4>1 DEF SweepType
        <4>5. SweepKnown'
          BY <2>t, <2>k, <2>i, <4>4, MessageTask DEF SweepKnown, SweepType
        <4> QED BY <2>a, <2>l, <2>u, <3>2, <4>3, <4>5 DEF SweepPublishes, KnownInv
      <3>3. CASE SweepReclaims(w)
        <4>1. PICK c \in SUBSET {m \in Messages : Stale(m)} :
                sweep' = [sweep EXCEPT ![w].pc = "handle", ![w].claimed = c]
          BY <3>3 DEF SweepReclaims
        <4>2. \A v \in Workers : /\ sweep'[v].todo = sweep[v].todo
                                 /\ sweep'[v].claimed = sweep[v].claimed \/ sweep'[v].claimed = c
          BY <2>t, <4>1 DEF SweepType
        <4>3. \A m \in c : Known(m[1])' 
          BY <2>k, <2>i, <4>1, MessageTask DEF Stale, MsgKnown
        <4>4. SweepKnown'
          BY <2>t, <2>k, <2>i, <4>2, <4>3, MessageTask DEF SweepKnown, SweepType
        <4> QED BY <2>a, <2>m, <2>l, <2>u, <3>3, <4>4 DEF SweepReclaims, KnownInv
      <3>4. CASE SweepHandles(w)
        <4>1. PICK m \in sweep[w].claimed :
                /\ job' = [job EXCEPT ![<<w, Sweeper>>] = [pc |-> "start", m |-> m, ok |-> TRUE]]
                /\ sweep' = [sweep EXCEPT ![w].claimed = @ \ {m}]
          BY <3>4 DEF SweepHandles
        <4>2. m \in Messages /\ m[1] \in Tasks /\ Known(m[1])
          BY <2>t, <2>i, <4>1, MessageTask DEF SweepKnown, SweepType
        <4>3. JobKnown'
          <5> SUFFICES ASSUME NEW h \in Handlers, job'[h].pc # "idle" PROVE Known(TaskOf(h))'
            BY DEF JobKnown
          <5>1. CASE h = <<w, Sweeper>>
            <6>1. TaskOf(h)' = m[1]
              BY <2>t, <4>1, <5>1 DEF TaskOf
            <6> QED BY <2>k, <4>2, <6>1 DEF Known
          <5>2. CASE h # <<w, Sweeper>>
            <6>1. TaskOf(h)' = TaskOf(h) /\ job[h].pc # "idle"
              BY <2>t, <4>1, <5>2 DEF TaskOf
            <6>2. TaskOf(h) \in Tasks /\ Known(TaskOf(h))
              BY <2>i, <6>1, TaskOfType DEF JobKnown
            <6> QED BY <2>k, <6>1, <6>2 DEF Known
          <5> QED BY <5>1, <5>2
        <4>4. \A v \in Workers : /\ sweep'[v].todo = sweep[v].todo
                                 /\ sweep'[v].claimed \subseteq sweep[v].claimed
          BY <2>t, <4>1 DEF SweepType
        <4>5. SweepKnown'
          BY <2>t, <2>k, <2>i, <4>4, MessageTask DEF SweepKnown, SweepType
        <4> QED BY <2>a, <2>m, <2>l, <3>4, <4>3, <4>5 DEF SweepHandles, KnownInv
      <3>5. CASE SweepEnds(w) \/ SweepRaises(w)
        <4>a. \A v \in Workers : /\ sweep'[v].todo \subseteq sweep[v].todo
                                 /\ sweep'[v].claimed \subseteq sweep[v].claimed
          BY <2>t, <3>5 DEF SweepEnds, SweepRaises, NoSweep
        <4>1. SweepKnown'
          BY <2>t, <2>k, <2>i, <4>a, MessageTask DEF SweepKnown, SweepType
        <4> QED BY <2>a, <2>m, <2>l, <2>u, <3>5, <4>1 DEF SweepEnds, SweepRaises, KnownInv
      <3> QED BY <2>7, <3>1, <3>2, <3>3, <3>4, <3>5 DEF SweepStep
    <2>8. ASSUME NEW w \in Workers, WorkerCrash(w) PROVE KnownInv'
      <3>1. JobKnown'
        BY <2>t, <2>j, <2>8 DEF WorkerCrash, Idle
      <3>2. LoopKnown'
        BY <2>t, <2>k, <2>i, <2>8, MessageTask DEF WorkerCrash, LoopKnown
      <3>3. SweepKnown'
        <4>1. \A v \in Workers : /\ sweep'[v].todo \subseteq sweep[v].todo
                                 /\ sweep'[v].claimed \subseteq sweep[v].claimed
          BY <2>t, <2>8 DEF WorkerCrash, NoSweep
        <4> QED BY <2>t, <2>k, <2>i, <4>1, MessageTask DEF SweepKnown, SweepType
      <3> QED BY <2>a, <2>m, <2>8, <3>1, <3>2, <3>3 DEF WorkerCrash, KnownInv
    <2>9. ASSUME NEW h \in Handlers, \/ AcquireLock(h) \/ Claim(h) \/ Finish(h) \/ ReleaseLock(h)
                                     \/ ReleaseLease(h) \/ Checkpoint(h)
          PROVE  KnownInv'
      <3>1. /\ job[h].pc # "idle"
            /\ job' = job \/ \E pc : Goto(h, pc)
        BY <2>9 DEF AcquireLock, Claim, Finish, ReleaseLock, ReleaseLease, Checkpoint, At
      <3>2. \A g \in Handlers : job'[g].pc # "idle" => job[g].pc # "idle" /\ job'[g].m = job[g].m
        BY <2>t, <3>1 DEF Goto, JobType
      <3>3. JobKnown'
        BY <2>j, <3>2
      <3> QED BY <2>a, <2>m, <2>l, <2>s, <2>9, <3>3
              DEF AcquireLock, Claim, Finish, ReleaseLock, ReleaseLease, Checkpoint, KnownInv
    <2>10. ASSUME NEW h \in Handlers, Settle(h) PROVE KnownInv'
      <3>1. \A g \in Handlers : job'[g].pc # "idle" => job[g].pc # "idle" /\ job'[g].m = job[g].m
        BY <2>t, <2>10 DEF Settle, Idle
      <3>2. MsgKnown'
        BY <2>t, <2>k, <2>i, <2>10, MessageTask DEF Settle, MsgKnown
      <3> QED BY <2>a, <2>j, <2>l, <2>s, <2>10, <3>1, <3>2 DEF Settle, KnownInv
    <2>11. ASSUME NEW h \in Handlers, CallRaises(h) PROVE KnownInv'
      <3>1. \A g \in Handlers : job'[g].pc # "idle" => job[g].pc # "idle" /\ job'[g].m = job[g].m
        BY <2>t, <2>11 DEF CallRaises, JobType
      <3> QED BY <2>a, <2>j, <2>m, <2>l, <2>s, <2>11, <3>1 DEF CallRaises, KnownInv
    <2> QED BY <2>1, <2>2, <2>3, <2>4, <2>5, <2>6, <2>7, <2>8, <2>9, <2>10, <2>11
            DEF Next, HandlerStep
  <1> QED BY <1>1, <1>2, TypeCorrect, PTL DEF Spec

-----------------------------------------------------------------------------
(* The refinement *)

(* A step that writes the status of one task only. *)
LEMMA PhaseMoves ==
  ASSUME NEW u \in Tasks, NEW p, Phase(u)' = p,
         \A t \in Tasks : t # u => row'[t].status = row[t].status
  PROVE  [t \in Tasks |-> Phase(t)]' = [[t \in Tasks |-> Phase(t)] EXCEPT ![u] = p]
  <1>1. \A t \in Tasks : t # u => Phase(t)' = Phase(t)
    BY DEF Phase
  <1> QED BY <1>1

(* A step that writes no status. *)
LEMMA PhaseStays ==
  ASSUME \A t \in Tasks : row'[t].status = row[t].status
  PROVE  [t \in Tasks |-> Phase(t)]' = [t \in Tasks |-> Phase(t)]
  <1>1. \A t \in Tasks : Phase(t)' = Phase(t)
    BY DEF Phase
  <1> QED BY <1>1

(* A step by which nobody begins or ends to execute. *)
LEMMA ExecutorsStay ==
  ASSUME job' = job
  PROVE  [t \in Tasks |-> ExecutorsOf(t)]' = [t \in Tasks |-> ExecutorsOf(t)]
  <1>1. \A t \in Tasks : ExecutorsOf(t)' = ExecutorsOf(t)
    BY DEF ExecutorsOf, At, TaskOf
  <1> QED BY <1>1

(* With locks that last, a task has at most one executor. *)
LEMMA OneExecutor ==
  ASSUME LockInv, ~SlowRuns, ~LocksVanish, NEW t \in Tasks, NEW g \in ExecutorsOf(t)
  PROVE  ExecutorsOf(t) = {g}
  BY DEF LockInv, ExecutorsOf, Holding, At

(* A step by which executions can only end. *)
LEMMA ExecutorsEnd ==
  ASSUME LockInv, ~SlowRuns, ~LocksVanish,
         \A h \in Handlers : At(h, "running")' => At(h, "running") /\ TaskOf(h)' = TaskOf(h),
         NEW t \in Tasks
  PROVE  ExecutorsOf(t)' \in {{}, ExecutorsOf(t)}
  <1>1. ExecutorsOf(t)' \subseteq ExecutorsOf(t)
    BY DEF ExecutorsOf
  <1>2. CASE ExecutorsOf(t) = {}
    BY <1>1, <1>2
  <1>3. CASE \E g \in ExecutorsOf(t) : TRUE
    <2>1. PICK g \in ExecutorsOf(t) : ExecutorsOf(t) = {g}
      BY <1>3, OneExecutor
    <2> QED BY <1>1, <2>1
  <1> QED BY <1>2, <1>3

(* Every step of Coordination is a step of TaskLifecycle or leaves it alone. *)
LEMMA LifecycleStep ==
  ASSUME TypeOK, LockInv, KnownInv, ~SlowRuns, ~LocksVanish, [Next]_vars
  PROVE  [Lifecycle!Next]_(Lifecycle!vars)
  <1>t. row \in [Tasks -> RowType] /\ job \in [Handlers -> JobType]
    BY DEF TypeOK, RowType, JobType
  <1>a. ASSUME row' = row,
               \A h \in Handlers : At(h, "running")' => At(h, "running") /\ TaskOf(h)' = TaskOf(h)
        PROVE  Lifecycle!Next
    <2>1. \A t \in Tasks : ExecutorsOf(t)' \in {{}, ExecutorsOf(t)}
      BY <1>a, ExecutorsEnd
    <2>2. Lifecycle!Abandon
      BY <1>a, <2>1, PhaseStays DEF Lifecycle!Abandon
    <2> QED BY <2>2 DEF Lifecycle!Next
  <1>u. row' = row /\ job' = job => Lifecycle!Next
    BY <1>a DEF At, TaskOf
  <1>1. ASSUME NEW t \in Tasks, CreateTask(t) PROVE Lifecycle!Next
    <2>1. Phase(t) = "absent" /\ Phase(t)' = "open" /\ \A u \in Tasks : u # t => row'[u].status = row[u].status
      <3>1. /\ row[t].status = "ABSENT" /\ row'[t].status = "QUEUED"
            /\ \A u \in Tasks : u # t => row'[u].status = row[u].status
        BY <1>t, <1>1 DEF CreateTask, RowType
      <3> QED BY <3>1 DEF Phase, TerminalStatuses
    <2>2. Lifecycle!Submit(t)
      BY <1>1, <2>1, PhaseMoves, ExecutorsStay DEF CreateTask, Lifecycle!Submit
    <2> QED BY <2>2 DEF Lifecycle!Next
  <1>2. ASSUME NEW t \in Tasks, NEW d \in Decisions, DecisionWrites(t, d) PROVE Lifecycle!Next
    <2>1. DecisionStatus(d) \in TerminalStatuses
      BY CoordinationAssumption DEF DecisionStatus, TerminalStatuses
    <2>2. row' = [row EXCEPT ![t] = WithStatus(row[t], DecisionStatus(d))]
      BY <1>2 DEF DecisionWrites
    <2>3. row'[t].status = DecisionStatus(d) /\ \A u \in Tasks : u # t => row'[u].status = row[u].status
      <3>1. WithStatus(row[t], DecisionStatus(d)).status = DecisionStatus(d)
        BY <2>1 DEF WithStatus
      <3> QED BY <1>t, <2>2, <3>1
    <2>4. Phase(t)' = "closed"
      BY <2>1, <2>3 DEF Phase, TerminalStatuses
    <2>5. Phase(t) # "absent"
      <3>1. Known(t)
        BY <1>2 DEF KnownInv, ApiKnown, DecisionWrites
      <3>2. row[t].status \in Statuses
        BY <1>t DEF RowType
      <3> QED BY <3>1, <3>2 DEF Phase, Known, Statuses, TerminalStatuses
    <2>6. Lifecycle!Decide(t)
      BY <1>2, <2>3, <2>4, <2>5, PhaseMoves, ExecutorsStay DEF DecisionWrites, Lifecycle!Decide
    <2> QED BY <2>6 DEF Lifecycle!Next
  <1>3. ASSUME NEW t \in Tasks, LeaseExpires(t) PROVE Lifecycle!Next
    <2>1. \A u \in Tasks : row'[u].status = row[u].status
      BY <1>t, <1>3 DEF LeaseExpires, RowType
    <2>2. Lifecycle!Abandon
      BY <1>3, <2>1, PhaseStays, ExecutorsStay DEF LeaseExpires, Lifecycle!Abandon
    <2> QED BY <2>2 DEF Lifecycle!Next
  <1>4. ASSUME NEW t \in Tasks, \/ Enqueue(t) \/ EnqueueLost(t) \/ LockExpires(t)
                                \/ \E d \in Decisions : Decide(t, d)
        PROVE  Lifecycle!Next
    BY <1>u, <1>4 DEF Enqueue, EnqueueLost, LockExpires, Decide
  <1>5. ASSUME NEW w \in Workers, Dispatch(w) PROVE Lifecycle!Next
    <2>1. PICK s \in Slots :
            job' = [job EXCEPT ![<<w, s>>] = [pc |-> "start", m |-> loop[w], ok |-> TRUE]]
      BY <1>5 DEF Dispatch
    <2>2. \A h \in Handlers : At(h, "running")' => At(h, "running") /\ TaskOf(h)' = TaskOf(h)
      BY <1>t, <2>1 DEF At, TaskOf
    <2> QED BY <1>a, <1>5, <2>2 DEF Dispatch
  <1>6. ASSUME NEW w \in Workers, SweepHandles(w) PROVE Lifecycle!Next
    <2>1. PICK m \in sweep[w].claimed :
            job' = [job EXCEPT ![<<w, Sweeper>>] = [pc |-> "start", m |-> m, ok |-> TRUE]]
      BY <1>6 DEF SweepHandles
    <2>2. \A h \in Handlers : At(h, "running")' => At(h, "running") /\ TaskOf(h)' = TaskOf(h)
      BY <1>t, <2>1 DEF At, TaskOf
    <2> QED BY <1>a, <1>6, <2>2 DEF SweepHandles
  <1>7. ASSUME NEW w \in Workers, \/ Receive(w) \/ SweepFinds(w) \/ SweepPublishes(w)
                                  \/ SweepReclaims(w) \/ SweepEnds(w) \/ SweepRaises(w)
        PROVE  Lifecycle!Next
    BY <1>u, <1>7 DEF Receive, SweepFinds, SweepPublishes, SweepReclaims, SweepEnds, SweepRaises
  <1>8. ASSUME NEW w \in Workers, WorkerCrash(w) PROVE Lifecycle!Next
    <2>1. \A h \in Handlers : At(h, "running")' => At(h, "running") /\ TaskOf(h)' = TaskOf(h)
      BY <1>t, <1>8 DEF WorkerCrash, At, TaskOf, Idle
    <2>2. \A t \in Tasks : row'[t].status = row[t].status
      BY <1>t, <1>8 DEF WorkerCrash, RowType
    <2>3. \A t \in Tasks : ExecutorsOf(t)' \in {{}, ExecutorsOf(t)}
      BY <2>1, ExecutorsEnd
    <2>4. Lifecycle!Abandon
      BY <2>2, <2>3, PhaseStays DEF Lifecycle!Abandon
    <2> QED BY <2>4 DEF Lifecycle!Next
  <1>9. ASSUME NEW h \in Handlers, AcquireLock(h) \/ ReleaseLock(h) PROVE Lifecycle!Next
    <2>1. row' = row /\ \E pc : pc # "running" /\ Goto(h, pc)
      BY <1>9 DEF AcquireLock, ReleaseLock
    <2>2. \A g \in Handlers : At(g, "running")' => At(g, "running") /\ TaskOf(g)' = TaskOf(g)
      BY <2>1, GotoMoves DEF At
    <2> QED BY <1>a, <2>1, <2>2
  <1>10. ASSUME NEW h \in Handlers, ReleaseLease(h) PROVE Lifecycle!Next
    <2>1. At(h, "unlease") /\ Goto(h, "settle")
      BY <1>10 DEF ReleaseLease
    <2>2. \A g \in Handlers : At(g, "running")' => At(g, "running") /\ TaskOf(g)' = TaskOf(g)
      BY <2>1, GotoMoves DEF At
    <2>3. \A t \in Tasks : row'[t].status = row[t].status
      BY <1>t, <1>10 DEF ReleaseLease, RowType
    <2>4. \A t \in Tasks : ExecutorsOf(t)' \in {{}, ExecutorsOf(t)}
      BY <2>2, ExecutorsEnd
    <2>5. Lifecycle!Abandon
      BY <2>3, <2>4, PhaseStays DEF Lifecycle!Abandon
    <2> QED BY <2>5 DEF Lifecycle!Next
  <1>11. ASSUME NEW h \in Handlers, Settle(h) \/ CallRaises(h) PROVE Lifecycle!Next
    <2>1. \A g \in Handlers : At(g, "running")' => At(g, "running") /\ TaskOf(g)' = TaskOf(g)
      BY <1>t, <1>11 DEF Settle, CallRaises, At, TaskOf, Idle, JobType
    <2> QED BY <1>a, <1>11, <2>1 DEF Settle, CallRaises
  <1>12. ASSUME NEW h \in Handlers, Claim(h) PROVE Lifecycle!Next
    <2>0. job[h].pc = "locked" /\ TaskOf(h) \in Tasks
      BY <1>12, TaskOfType DEF Claim, At
    <2>1. CASE Goto(h, "unlock") /\ UNCHANGED row
      <3>1. \A g \in Handlers : At(g, "running")' => At(g, "running") /\ TaskOf(g)' = TaskOf(g)
        BY <2>1, GotoMoves DEF At
      <3> QED BY <1>a, <2>1, <3>1
    <2>2. CASE Goto(h, "running") /\ Claimable(row[TaskOf(h)])
      <3>1. \A t \in Tasks : row'[t].status = row[t].status
        BY <1>t, <1>12 DEF Claim, RowType
      <3>2. ExecutorsOf(TaskOf(h)) = {}
        <4>1. lock[TaskOf(h)] = h
          BY <2>0 DEF LockInv, Holding
        <4>2. \A g \in ExecutorsOf(TaskOf(h)) : g = h
          BY <4>1 DEF ExecutorsOf, LockInv, Holding, At
        <4>3. h \notin ExecutorsOf(TaskOf(h))
          BY <2>0 DEF ExecutorsOf, At
        <4> QED BY <4>2, <4>3
      <3>3. /\ At(h, "running")' /\ \A g \in Handlers : TaskOf(g)' = TaskOf(g)
            /\ \A g \in Handlers : g # h => (At(g, "running")' <=> At(g, "running"))
        BY <2>2, GotoMoves DEF At
      <3>4. ASSUME NEW t \in Tasks, t = TaskOf(h) PROVE ExecutorsOf(t)' = {h}
        <4>1. \A g \in Handlers : g # h => ~(At(g, "running")' /\ TaskOf(g)' = t)
          BY <3>2, <3>3, <3>4 DEF ExecutorsOf
        <4>2. \A g : g \in ExecutorsOf(t)' <=> g \in Handlers /\ At(g, "running")' /\ TaskOf(g)' = t
          BY DEF ExecutorsOf
        <4> QED BY <3>3, <3>4, <4>1, <4>2
      <3>5. \A t \in Tasks : t # TaskOf(h) => ExecutorsOf(t)' = ExecutorsOf(t)
        BY <3>3 DEF ExecutorsOf
      <3>6. Phase(TaskOf(h)) \in {"open", "parked"}
        <4>1. row[TaskOf(h)].status \in Statuses \ TerminalStatuses
          BY <1>t, <2>0, <2>2 DEF Claimable, RowType
        <4>2. row[TaskOf(h)].status # "ABSENT"
          BY <2>0 DEF KnownInv, JobKnown, Known
        <4> QED BY <4>1, <4>2 DEF Phase, Statuses, TerminalStatuses
      <3>7. [t \in Tasks |-> ExecutorsOf(t)]' =
              [[t \in Tasks |-> ExecutorsOf(t)] EXCEPT ![TaskOf(h)] = {h}]
        <4>1. [t \in Tasks |-> ExecutorsOf(t)]' = [t \in Tasks |-> ExecutorsOf(t)']
          OBVIOUS
        <4>2. \A t \in Tasks : ExecutorsOf(t)' = IF t = TaskOf(h) THEN {h} ELSE ExecutorsOf(t)
          BY <3>4, <3>5
        <4> QED BY <2>0, <4>1, <4>2
      <3>8. Lifecycle!Begin(TaskOf(h), h)
        BY <2>0, <3>1, <3>2, <3>6, <3>7, PhaseStays DEF Lifecycle!Begin
      <3> QED BY <2>0, <3>8 DEF Lifecycle!Next
    <2> QED BY <1>12, <2>1, <2>2 DEF Claim
  <1>13. ASSUME NEW h \in Handlers, Checkpoint(h) PROVE Lifecycle!Next
    <2>0. job[h].pc = "running" /\ TaskOf(h) \in Tasks
      BY <1>13, TaskOfType DEF Checkpoint, At
    <2>1. PICK s \in {"RUNNING", "READY_FOR_REVIEW"} : row' = [row EXCEPT ![TaskOf(h)].status = s]
      BY <1>13 DEF Checkpoint
    <2>2. row'[TaskOf(h)].status = s /\ \A u \in Tasks : u # TaskOf(h) => row'[u].status = row[u].status
      BY <1>t, <2>0, <2>1 DEF RowType
    <2>3. h \in ExecutorsOf(TaskOf(h))
      BY <2>0 DEF ExecutorsOf, At
    <2>4. PICK p \in {"open", "parked"} :
            [t \in Tasks |-> Phase(t)]' = [[t \in Tasks |-> Phase(t)] EXCEPT ![TaskOf(h)] = p]
      <3>1. PICK p \in {"open", "parked"} :
              p = CASE row'[TaskOf(h)].status = "ABSENT" -> "absent"
                    [] row'[TaskOf(h)].status \in {"QUEUED", "RUNNING"} -> "open"
                    [] row'[TaskOf(h)].status = "READY_FOR_REVIEW" -> "parked"
                    [] row'[TaskOf(h)].status \in TerminalStatuses -> "closed"
        <4>1. CASE s = "RUNNING"
          BY <2>2, <4>1 DEF TerminalStatuses
        <4>2. CASE s = "READY_FOR_REVIEW"
          BY <2>2, <4>2 DEF TerminalStatuses
        <4> QED BY <4>1, <4>2
      <3>2. \A t \in Tasks : t = TaskOf(h) => Phase(t)' = p
        BY <3>1 DEF Phase
      <3> QED BY <2>0, <2>2, <3>2, PhaseMoves
    <2>5. Lifecycle!Save(TaskOf(h))
      BY <1>13, <2>0, <2>3, <2>4, ExecutorsStay DEF Checkpoint, Lifecycle!Save
    <2> QED BY <2>0, <2>5 DEF Lifecycle!Next
  <1>14. ASSUME NEW h \in Handlers, Finish(h) PROVE Lifecycle!Next
    <2>0. job[h].pc = "running" /\ TaskOf(h) \in Tasks /\ Goto(h, "unlock")
      BY <1>14, TaskOfType DEF Finish, At
    <2>1. PICK s \in {"READY_FOR_REVIEW", "HUMAN_REVIEW_REQUIRED", "FAILED"} :
            row' = [row EXCEPT ![TaskOf(h)] = WithStatus(row[TaskOf(h)], s)]
      BY <1>14 DEF Finish
    <2>2. row'[TaskOf(h)].status = s /\ \A u \in Tasks : u # TaskOf(h) => row'[u].status = row[u].status
      <3>1. WithStatus(row[TaskOf(h)], s).status = s
        BY <1>t, <2>0 DEF WithStatus, RowType
      <3> QED BY <1>t, <2>0, <2>1, <3>1
    <2>3. ExecutorsOf(TaskOf(h)) = {h}
      <3>1. h \in ExecutorsOf(TaskOf(h))
        BY <2>0 DEF ExecutorsOf, At
      <3> QED BY <2>0, <3>1, OneExecutor
    <2>4. PICK p \in {"parked", "closed"} :
            [t \in Tasks |-> Phase(t)]' = [[t \in Tasks |-> Phase(t)] EXCEPT ![TaskOf(h)] = p]
      <3>1. PICK p \in {"parked", "closed"} :
              p = CASE row'[TaskOf(h)].status = "ABSENT" -> "absent"
                    [] row'[TaskOf(h)].status \in {"QUEUED", "RUNNING"} -> "open"
                    [] row'[TaskOf(h)].status = "READY_FOR_REVIEW" -> "parked"
                    [] row'[TaskOf(h)].status \in TerminalStatuses -> "closed"
        <4>1. CASE s = "READY_FOR_REVIEW"
          BY <2>2, <4>1 DEF TerminalStatuses
        <4>2. CASE s = "HUMAN_REVIEW_REQUIRED" \/ s = "FAILED"
          BY <2>2, <4>2 DEF TerminalStatuses
        <4> QED BY <4>1, <4>2
      <3>2. \A t \in Tasks : t = TaskOf(h) => Phase(t)' = p
        BY <3>1 DEF Phase
      <3> QED BY <2>0, <2>2, <3>2, PhaseMoves
    <2>5. /\ ~At(h, "running")' /\ \A g \in Handlers : TaskOf(g)' = TaskOf(g)
          /\ \A g \in Handlers : g # h => (At(g, "running")' <=> At(g, "running"))
      BY <2>0, GotoMoves DEF At
    <2>6. \A t \in Tasks : ExecutorsOf(t)' = IF t = TaskOf(h) THEN {} ELSE ExecutorsOf(t)
      BY <2>3, <2>5 DEF ExecutorsOf
    <2>7. [t \in Tasks |-> ExecutorsOf(t)]' = [[t \in Tasks |-> ExecutorsOf(t)] EXCEPT ![TaskOf(h)] = {}]
      <3>1. [t \in Tasks |-> ExecutorsOf(t)]' = [t \in Tasks |-> ExecutorsOf(t)']
        OBVIOUS
      <3> QED BY <2>0, <2>6, <3>1
    <2>8. Lifecycle!Finish(TaskOf(h))
      BY <2>0, <2>3, <2>4, <2>7 DEF Lifecycle!Finish
    <2> QED BY <2>0, <2>8 DEF Lifecycle!Next
  <1>15. CASE UNCHANGED vars
    BY <1>u, <1>15 DEF vars
  <1> QED BY <1>1, <1>2, <1>3, <1>4, <1>5, <1>6, <1>7, <1>8, <1>9, <1>10, <1>11, <1>12, <1>13,
             <1>14, <1>15 DEF Next, HandlerStep, SweepStep

(* Coordination implements the abstract life of a task, when runs end within
   task_lease_seconds and Redis keeps its locks: queue, lock, lease, sweep,
   duplicates and crashes add nothing a caller could see but stuttering. *)
THEOREM RefinesLifecycle ==
  ASSUME ~SlowRuns, ~LocksVanish
  PROVE  Spec => ImplementsLifecycle
  <1>1. Init => Lifecycle!Init
    <2> SUFFICES ASSUME Init PROVE Lifecycle!Init
      OBVIOUS
    <2>1. \A t \in Tasks : Phase(t) = "absent"
      BY DEF Init, Phase, TerminalStatuses
    <2>2. \A t \in Tasks : ExecutorsOf(t) = {}
      BY DEF Init, ExecutorsOf, At, Idle
    <2> QED BY <2>1, <2>2 DEF Lifecycle!Init
  <1>2. TypeOK /\ LockInv /\ KnownInv /\ [Next]_vars => [Lifecycle!Next]_(Lifecycle!vars)
    BY LifecycleStep
  <1> QED BY <1>1, <1>2, TypeCorrect, LockInvariance, KnownInvariance, PTL
          DEF Spec, ImplementsLifecycle, Lifecycle!Spec

=============================================================================
