---------------------------- MODULE Coordination ----------------------------
(***************************************************************************)
(* How workers share tasks: the Redis stream and its pending entries, the  *)
(* fast lock with a TTL, the lease in the task row, the consumer loop with *)
(* its semaphore, the recovery sweep, and the API requests that submit,    *)
(* cancel, approve and reject a task while a worker may be running it.     *)
(*                                                                         *)
(*   apps/worker/consumer.py, apps/worker/execution.py,                    *)
(*   infrastructure/queue/redis_queue.py, infrastructure/locks/*.py,       *)
(*   persistence/repositories/tasks.py, apps/api/services.py               *)
(*                                                                         *)
(* Abstractions:                                                           *)
(*   - the statuses a running workflow writes (PLANNING .. PR_CREATED) are *)
(*     one status, RUNNING; what the workflow does is module Workflow;     *)
(*   - time is an expiry that may happen. The lock, the lease and the idle *)
(*     time of a message all use task_lease_seconds: none of them is       *)
(*     renewed, so under SlowRuns they may run out under a live execution, *)
(*     and otherwise only when nobody uses them any more;                  *)
(*   - a restarted worker has a new identity (worker_identity): what the   *)
(*     old one held belongs to Ghost, who never comes back;                *)
(*   - the stream holds at most MaxCopies entries of one task, in no       *)
(*     particular order.                                                   *)
(***************************************************************************)
EXTENDS Integers, FiniteSets

CONSTANTS
  Tasks,
  Workers,
  Slots,        \* handler tasks a consumer loop may have in flight
  Sweeper,      \* the handler the recovery sweep awaits inline
  Concurrency,  \* settings.worker_concurrency
  MaxCopies,    \* entries of one task in the stream
  MaxCrashes,   \* crashes of a worker, or of the API before it has published
  MaxErrors,    \* failing Redis and database calls
  Decisions,    \* the API requests that may arrive
  SlowRuns,     \* may an execution outlive task_lease_seconds?
  LocksVanish,  \* may Redis lose a lock that is held?
  NoOne, Ghost, NoMsg

ASSUME CoordinationAssumption ==
  /\ Sweeper \notin Slots
  /\ Concurrency \in Nat \ {0}
  /\ MaxCopies \in Nat \ {0} /\ MaxCrashes \in Nat /\ MaxErrors \in Nat
  /\ Decisions \subseteq {"approve", "reject", "cancel"}
  /\ SlowRuns \in BOOLEAN /\ LocksVanish \in BOOLEAN
  /\ NoOne # Ghost /\ NoOne \notin Workers /\ Ghost \notin Workers

Messages == Tasks \X (1 .. MaxCopies)
Handlers == Workers \X (Slots \cup {Sweeper})

ASSUME NoMsgAssumption == NoMsg \notin Messages
ASSUME NoHandlerAssumption == NoOne \notin Handlers /\ Ghost \notin Handlers

VARIABLES
  row,       \* per task: status, locked_by, and whether the lease has expired
  lock,      \* per task: the handler that acquired the Redis lock
  msg,       \* per message: none, new (in the stream) or pending (delivered)
  loop,      \* per worker: the message that waits for the semaphore
  sem,       \* per worker: the semaphore
  job,       \* per handler: what _handle is doing
  sweep,     \* per worker: the recovery sweep
  unsent,    \* tasks whose background enqueue has not run yet
  deciding,  \* per task: API requests that passed their status check
  crashes,   \* so far
  errors     \* so far

vars == <<row, lock, msg, loop, sem, job, sweep, unsent, deciding, crashes, errors>>

TerminalStatuses ==
  {"COMPLETED", "FAILED", "CANCELLED", "REJECTED", "HUMAN_REVIEW_REQUIRED"}

Statuses == TerminalStatuses \cup {"ABSENT", "QUEUED", "RUNNING", "READY_FOR_REVIEW"}

Idle == [pc |-> "idle", m |-> NoMsg, ok |-> TRUE]
NoSweep == [pc |-> "idle", todo |-> {}, claimed |-> {}]

Init ==
  /\ row = [t \in Tasks |-> [status |-> "ABSENT", locked_by |-> NoOne, expired |-> FALSE]]
  /\ lock = [t \in Tasks |-> NoOne]
  /\ msg = [m \in Messages |-> "none"]
  /\ loop = [w \in Workers |-> NoMsg]
  /\ sem = [w \in Workers |-> Concurrency]
  /\ job = [h \in Handlers |-> Idle]
  /\ sweep = [w \in Workers |-> NoSweep]
  /\ unsent = {} /\ deciding = [t \in Tasks |-> {}]
  /\ crashes = 0 /\ errors = 0

-----------------------------------------------------------------------------
(* Shared resources *)

TaskOf(h) == job[h].m[1]
At(h, pc) == job[h].pc = pc
Goto(h, pc) == job' = [job EXCEPT ![h].pc = pc]

(* Does a live consumer still hold message m? *)
InHand(m) == \/ \E w \in Workers : loop[w] = m \/ m \in sweep[w].claimed
             \/ \E h \in Handlers : job[h].m = m

(* XADD. With MaxCopies entries in the stream another copy changes nothing. *)
Publish(t) ==
  LET free == {m \in Messages : m[1] = t /\ msg[m] = "none" /\ ~InHand(m)}
  IN IF free = {} THEN UNCHANGED msg
     ELSE \E m \in free : msg' = [msg EXCEPT ![m] = "new"]

(* Handler h holds the lock from a successful acquire to its release. *)
Holding(h) == job[h].pc \in {"locked", "running", "unlock"}

LockInUse(t) == lock[t] \in Handlers /\ Holding(lock[t]) /\ TaskOf(lock[t]) = t

LeaseInUse(t) == \E h \in Handlers :
  /\ h[1] = row[t].locked_by
  /\ job[h].pc \in {"running", "unlock", "unlease"} /\ TaskOf(h) = t

(* The TTL of the lock key runs out. *)
LockExpires(t) ==
  /\ lock[t] # NoOne
  /\ SlowRuns \/ LocksVanish \/ ~LockInUse(t)
  /\ lock' = [lock EXCEPT ![t] = NoOne]
  /\ UNCHANGED <<row, msg, loop, sem, job, sweep, unsent, deciding, crashes, errors>>

(* lease_expires_at passes. *)
LeaseExpires(t) ==
  /\ row[t].locked_by # NoOne /\ ~row[t].expired
  /\ SlowRuns \/ ~LeaseInUse(t)
  /\ row' = [row EXCEPT ![t].expired = TRUE]
  /\ UNCHANGED <<lock, msg, loop, sem, job, sweep, unsent, deciding, crashes, errors>>

(* set_status: a terminal status also gives up the lease. *)
WithStatus(r, s) ==
  IF s \in TerminalStatuses THEN [status |-> s, locked_by |-> NoOne, expired |-> FALSE]
  ELSE [r EXCEPT !.status = s]

-----------------------------------------------------------------------------
(* API *)

(* POST /tasks: the row is committed, the publication follows in background. *)
CreateTask(t) ==
  /\ row[t].status = "ABSENT"
  /\ row' = [row EXCEPT ![t].status = "QUEUED"]
  /\ unsent' = unsent \cup {t}
  /\ UNCHANGED <<lock, msg, loop, sem, job, sweep, deciding, crashes, errors>>

Enqueue(t) ==
  /\ t \in unsent
  /\ unsent' = unsent \ {t}
  /\ Publish(t)
  /\ UNCHANGED <<row, lock, loop, sem, job, sweep, deciding, crashes, errors>>

(* The API process dies, or Redis is unreachable, before the publication. *)
EnqueueLost(t) ==
  /\ t \in unsent /\ crashes < MaxCrashes
  /\ unsent' = unsent \ {t} /\ crashes' = crashes + 1
  /\ UNCHANGED <<row, lock, msg, loop, sem, job, sweep, deciding, errors>>

(* The status check of approve, reject and cancel. *)
Admits(t, d) ==
  CASE d = "approve" -> row[t].status = "READY_FOR_REVIEW"
    [] d = "reject"  -> row[t].status \notin TerminalStatuses \ {"HUMAN_REVIEW_REQUIRED"}
    [] d = "cancel"  -> row[t].status \notin TerminalStatuses

Decide(t, d) ==
  /\ row[t].status # "ABSENT" /\ d \notin deciding[t] /\ Admits(t, d)
  /\ deciding' = [deciding EXCEPT ![t] = @ \cup {d}]
  /\ UNCHANGED <<row, lock, msg, loop, sem, job, sweep, unsent, crashes, errors>>

DecisionStatus(d) ==
  CASE d = "approve" -> "COMPLETED" [] d = "reject" -> "REJECTED" [] d = "cancel" -> "CANCELLED"

(* The UPDATE that follows the check has no condition on the status. *)
DecisionWrites(t, d) ==
  /\ d \in deciding[t]
  /\ deciding' = [deciding EXCEPT ![t] = @ \ {d}]
  /\ row' = [row EXCEPT ![t] = WithStatus(@, DecisionStatus(d))]
  /\ UNCHANGED <<lock, msg, loop, sem, job, sweep, unsent, crashes, errors>>

-----------------------------------------------------------------------------
(* The consumer loop *)

(* XREADGROUP ">": a new entry becomes pending for this consumer. *)
Receive(w) ==
  /\ loop[w] = NoMsg
  /\ \E m \in Messages :
       /\ msg[m] = "new"
       /\ msg' = [msg EXCEPT ![m] = "pending"]
       /\ loop' = [loop EXCEPT ![w] = m]
  /\ UNCHANGED <<row, lock, sem, job, sweep, unsent, deciding, crashes, errors>>

Dispatch_none(w) ==               \* variant: an empty receive is dispatched too
  /\ sem[w] > 0
  /\ \E s \in Slots :
       /\ At(<<w, s>>, "idle")
       /\ job' = [job EXCEPT ![<<w, s>>] = [pc |-> "start", m |-> loop[w], ok |-> TRUE]]
  /\ loop' = [loop EXCEPT ![w] = NoMsg]
  /\ sem' = [sem EXCEPT ![w] = @ - 1]
  /\ UNCHANGED <<row, lock, msg, sweep, unsent, deciding, crashes, errors>>

(* semaphore.acquire, then create_task(_handle). *)
Dispatch(w) ==
  /\ loop[w] # NoMsg /\ sem[w] > 0
  /\ \E s \in Slots :
       /\ At(<<w, s>>, "idle")
       /\ job' = [job EXCEPT ![<<w, s>>] = [pc |-> "start", m |-> loop[w], ok |-> TRUE]]
  /\ loop' = [loop EXCEPT ![w] = NoMsg]
  /\ sem' = [sem EXCEPT ![w] = @ - 1]
  /\ UNCHANGED <<row, lock, msg, sweep, unsent, deciding, crashes, errors>>

-----------------------------------------------------------------------------
(* _handle and execute *)

AcquireLock_blind(h) ==           \* variant: SET without NX
  /\ At(h, "start")
  /\ lock' = [lock EXCEPT ![TaskOf(h)] = h] /\ Goto(h, "locked")
  /\ UNCHANGED <<row, msg, loop, sem, sweep, unsent, deciding, crashes, errors>>

(* SET NX PX. A task that is locked is skipped, and its message acknowledged. *)
AcquireLock(h) ==
  /\ At(h, "start")
  /\ \/ /\ lock[TaskOf(h)] = NoOne
        /\ lock' = [lock EXCEPT ![TaskOf(h)] = h] /\ Goto(h, "locked")
     \/ /\ lock[TaskOf(h)] # NoOne
        /\ Goto(h, "settle") /\ UNCHANGED lock
  /\ UNCHANGED <<row, msg, loop, sem, sweep, unsent, deciding, crashes, errors>>

Claimable_leased(r) ==            \* variant: only the lease is looked at
  r.locked_by = NoOne \/ r.expired

Claimable(r) ==
  /\ r.status \notin TerminalStatuses
  /\ r.locked_by = NoOne \/ r.expired

(* The conditional UPDATE of TaskRepository.claim. *)
Claim(h) ==
  LET t == TaskOf(h)
  IN /\ At(h, "locked")
     /\ \/ /\ Claimable(row[t])
           /\ row' = [row EXCEPT ![t].locked_by = h[1], ![t].expired = FALSE]
           /\ Goto(h, "running")
        \/ ~Claimable(row[t]) /\ Goto(h, "unlock") /\ UNCHANGED row
     /\ UNCHANGED <<lock, msg, loop, sem, sweep, unsent, deciding, crashes, errors>>

(* A node's checkpoint: an unconditional UPDATE of the status. *)
Checkpoint(h) ==
  /\ At(h, "running")
  /\ \E s \in {"RUNNING", "READY_FOR_REVIEW"} : row' = [row EXCEPT ![TaskOf(h)].status = s]
  /\ UNCHANGED <<lock, msg, loop, sem, job, sweep, unsent, deciding, crashes, errors>>

(* _finalize or _finalize_failure. *)
Finish(h) ==
  /\ At(h, "running")
  /\ \E s \in {"READY_FOR_REVIEW", "HUMAN_REVIEW_REQUIRED", "FAILED"} :
       row' = [row EXCEPT ![TaskOf(h)] = WithStatus(@, s)]
  /\ Goto(h, "unlock")
  /\ UNCHANGED <<lock, msg, loop, sem, sweep, unsent, deciding, crashes, errors>>

(* locks.release: the owner is the worker, not the handler. *)
ReleaseLock(h) ==
  LET t == TaskOf(h)
  IN /\ At(h, "unlock")
     /\ lock' = [lock EXCEPT ![t] =
                   IF @ \in Handlers /\ @ \in {h[1]} \X (Slots \cup {Sweeper})
                   THEN NoOne ELSE @]
     /\ Goto(h, "unlease")
     /\ UNCHANGED <<row, msg, loop, sem, sweep, unsent, deciding, crashes, errors>>

ReleaseLease_kept(h) ==           \* variant: the lease is left to expire
  /\ At(h, "unlease") /\ Goto(h, "settle")
  /\ UNCHANGED <<row, lock, msg, loop, sem, sweep, unsent, deciding, crashes, errors>>

(* TaskRepository.release: WHERE locked_by = worker_id. *)
ReleaseLease(h) ==
  LET t == TaskOf(h)
  IN /\ At(h, "unlease")
     /\ row' = IF row[t].locked_by = h[1]
               THEN [row EXCEPT ![t].locked_by = NoOne, ![t].expired = FALSE] ELSE row
     /\ Goto(h, "settle")
     /\ UNCHANGED <<lock, msg, loop, sem, sweep, unsent, deciding, crashes, errors>>

(* Every _handle releases the semaphore, also the one the sweep awaits. Past
   the number of handlers the model has, a larger value makes no difference. *)
SemRelease(w) == sem' = [sem EXCEPT ![w] = IF @ < Cardinality(Slots) THEN @ + 1 ELSE @]

(* XACK; a nack leaves the entry pending. *)
Settle(h) ==
  /\ At(h, "settle")
  /\ msg' = IF job[h].ok THEN [msg EXCEPT ![job[h].m] = "none"] ELSE msg
  /\ SemRelease(h[1])
  /\ job' = [job EXCEPT ![h] = Idle]
  /\ UNCHANGED <<row, lock, loop, sweep, unsent, deciding, crashes, errors>>

(* A Redis or database call raises, or the handler is cancelled at shutdown.
   An exception in front of the try, or in its finally block, skips what is
   left of the releases; in any case the message is not acknowledged. *)
CallRaises(h) ==
  /\ errors < MaxErrors /\ job[h].pc # "idle" /\ job[h].ok
  /\ errors' = errors + 1
  /\ job' = [job EXCEPT ![h].ok = FALSE,
                        ![h].pc = IF @ \in {"locked", "running"} THEN "unlock" ELSE "settle"]
  /\ UNCHANGED <<row, lock, msg, loop, sem, sweep, unsent, deciding, crashes>>

-----------------------------------------------------------------------------
(* The recovery sweep *)

Unclaimed(t) == row[t].status = "QUEUED" /\ row[t].locked_by = NoOne

Recoverable_none(t) == FALSE      \* variant: a dead worker's task is not found

Recoverable(t) ==
  /\ row[t].status \in {"QUEUED", "RUNNING"}
  /\ row[t].locked_by # NoOne /\ row[t].expired

SweepFinds(w) ==
  /\ sweep[w].pc = "idle"
  /\ sweep' = [sweep EXCEPT ![w] = [pc |-> "publish", claimed |-> {},
                 todo |-> {t \in Tasks : Unclaimed(t) \/ Recoverable(t)}]]
  /\ UNCHANGED <<row, lock, msg, loop, sem, job, unsent, deciding, crashes, errors>>

SweepPublishes(w) ==
  /\ sweep[w].pc = "publish"
  /\ \E t \in sweep[w].todo :
       /\ Publish(t)
       /\ sweep' = [sweep EXCEPT ![w].todo = @ \ {t}]
  /\ UNCHANGED <<row, lock, loop, sem, job, unsent, deciding, crashes, errors>>

(* Messages that were idle for task_lease_seconds. *)
Stale(m) == msg[m] = "pending" /\ (SlowRuns \/ ~InHand(m))

(* XAUTOCLAIM, once everything has been published. *)
SweepReclaims(w) ==
  /\ sweep[w].pc = "publish" /\ sweep[w].todo = {}
  /\ \E c \in {{m \in Messages : Stale(m)}, {m \in Messages : Stale(m) /\ ~InHand(m)}} :
       sweep' = [sweep EXCEPT ![w].pc = "handle", ![w].claimed = c]
  /\ UNCHANGED <<row, lock, msg, loop, sem, job, unsent, deciding, crashes, errors>>

(* The sweep awaits _handle for each reclaimed message in turn. *)
SweepHandles(w) ==
  /\ sweep[w].pc = "handle" /\ At(<<w, Sweeper>>, "idle")
  /\ \E m \in sweep[w].claimed :
       /\ job' = [job EXCEPT ![<<w, Sweeper>>] = [pc |-> "start", m |-> m, ok |-> TRUE]]
       /\ sweep' = [sweep EXCEPT ![w].claimed = @ \ {m}]
  /\ UNCHANGED <<row, lock, msg, loop, sem, unsent, deciding, crashes, errors>>

SweepEnds(w) ==
  /\ sweep[w].pc = "handle" /\ sweep[w].claimed = {} /\ At(<<w, Sweeper>>, "idle")
  /\ sweep' = [sweep EXCEPT ![w] = NoSweep]
  /\ UNCHANGED <<row, lock, msg, loop, sem, job, unsent, deciding, crashes, errors>>

(* A database or Redis call of the sweep raises: the next pass starts over. *)
SweepRaises(w) ==
  /\ errors < MaxErrors /\ sweep[w].pc = "publish"
  /\ errors' = errors + 1
  /\ sweep' = [sweep EXCEPT ![w] = NoSweep]
  /\ UNCHANGED <<row, lock, msg, loop, sem, job, unsent, deciding, crashes>>

-----------------------------------------------------------------------------
(* A worker process dies and another one takes its place. *)
WorkerCrash(w) ==
  /\ crashes < MaxCrashes
  /\ crashes' = crashes + 1
  /\ loop' = [loop EXCEPT ![w] = NoMsg]
  /\ sem' = [sem EXCEPT ![w] = Concurrency]
  /\ job' = [h \in Handlers |-> IF h[1] = w THEN Idle ELSE job[h]]
  /\ sweep' = [sweep EXCEPT ![w] = NoSweep]
  /\ lock' = [t \in Tasks |-> IF lock[t] \in {w} \X (Slots \cup {Sweeper})
                              THEN Ghost ELSE lock[t]]
  /\ row' = [t \in Tasks |-> IF row[t].locked_by = w
                             THEN [row[t] EXCEPT !.locked_by = Ghost] ELSE row[t]]
  /\ UNCHANGED <<msg, unsent, deciding, errors>>

HandlerStep(h) ==
  \/ AcquireLock(h) \/ Claim(h) \/ Finish(h)
  \/ ReleaseLock(h) \/ ReleaseLease(h) \/ Settle(h)

SweepStep(w) ==
  SweepFinds(w) \/ SweepPublishes(w) \/ SweepReclaims(w) \/ SweepHandles(w) \/ SweepEnds(w)

Next ==
  \/ \E t \in Tasks :
       \/ CreateTask(t) \/ Enqueue(t) \/ EnqueueLost(t)
       \/ LockExpires(t) \/ LeaseExpires(t)
       \/ \E d \in Decisions : Decide(t, d) \/ DecisionWrites(t, d)
  \/ \E w \in Workers : \/ Receive(w) \/ Dispatch(w) \/ SweepStep(w)
                      \/ SweepRaises(w) \/ WorkerCrash(w)
  \/ \E h \in Handlers : HandlerStep(h) \/ Checkpoint(h) \/ CallRaises(h)

(* Every worker keeps consuming and sweeping, every execution ends (module
   Workflow bounds its supersteps), and what nobody renews expires. *)
Fairness ==
  /\ \A t \in Tasks : WF_vars(LockExpires(t)) /\ WF_vars(LeaseExpires(t))
  /\ \A w \in Workers : WF_vars(Receive(w)) /\ WF_vars(Dispatch(w)) /\ WF_vars(SweepStep(w))
  /\ \A h \in Handlers : WF_vars(HandlerStep(h))

Spec == Init /\ [][Next]_vars /\ Fairness

-----------------------------------------------------------------------------
(* Properties *)

(* Type invariant: in particular a handler at work always has a message, whose
   task it locks, claims and acknowledges. *)
TypeOK ==
  /\ row \in [Tasks -> [status : Statuses, locked_by : Workers \cup {NoOne, Ghost},
                        expired : BOOLEAN]]
  /\ lock \in [Tasks -> Handlers \cup {NoOne, Ghost}]
  /\ msg \in [Messages -> {"none", "new", "pending"}]
  /\ loop \in [Workers -> Messages \cup {NoMsg}]
  /\ sem \in [Workers -> Nat]
  /\ job \in [Handlers -> [pc : {"idle", "start", "locked", "running", "unlock",
                                 "unlease", "settle"},
                           m : Messages \cup {NoMsg}, ok : BOOLEAN]]
  /\ \A h \in Handlers : job[h].pc # "idle" => job[h].m \in Messages
  /\ sweep \in [Workers -> [pc : {"idle", "publish", "handle"}, todo : SUBSET Tasks,
                            claimed : SUBSET Messages]]
  /\ unsent \subseteq Tasks
  /\ deciding \in [Tasks -> SUBSET Decisions]
  /\ crashes \in Nat /\ errors \in Nat

(* No two handlers, of one worker or of two, execute the same task at the same
   time, whatever is redelivered, cancelled, swept or crashed, as long as runs
   end within task_lease_seconds and Redis keeps its locks. *)
MutualExclusion ==
  ~SlowRuns /\ ~LocksVanish =>
    \A g, h \in Handlers :
      At(g, "running") /\ At(h, "running") /\ TaskOf(g) = TaskOf(h) => g = h

(* The life of a task, as module TaskLifecycle states it. *)
Phase(t) ==
  CASE row[t].status = "ABSENT" -> "absent"
    [] row[t].status \in {"QUEUED", "RUNNING"} -> "open"
    [] row[t].status = "READY_FOR_REVIEW" -> "parked"
    [] row[t].status \in TerminalStatuses -> "closed"

ExecutorsOf(t) == {h \in Handlers : At(h, "running") /\ TaskOf(h) = t}

Lifecycle == INSTANCE TaskLifecycle WITH
  Runners <- Handlers,
  phase   <- [t \in Tasks |-> Phase(t)],
  running <- [t \in Tasks |-> ExecutorsOf(t)]

(* Queue, lock, lease, sweep and crashes together implement the abstract life
   of a task: executions of a task follow one another, begin only while it is
   not closed, and nothing but a submission, its execution or a decision moves
   it. This holds as long as runs end within task_lease_seconds and Redis keeps
   its locks. *)
ImplementsLifecycle == Lifecycle!Spec

(* Locks and leases are left behind by faults only: without one, whatever is
   held is held by a handler at work on that task. *)
NoLeakWithoutFault ==
  crashes = 0 /\ errors = 0 /\ ~SlowRuns /\ ~LocksVanish => \A t \in Tasks :
    /\ lock[t] # NoOne => LockInUse(t)
    /\ row[t].locked_by # NoOne => LeaseInUse(t)

(* Every submitted task is eventually taken up, also when its publication was
   lost or its worker died before the first checkpoint: the sweep finds it. *)
TasksStart == \A t \in Tasks : row[t].status = "QUEUED" ~> row[t].status # "QUEUED"

(* "Two workers must never execute the same task" (locks/base.py:3). *)
OneExecution == \A g, h \in Handlers :
  At(g, "running") /\ At(h, "running") /\ TaskOf(g) = TaskOf(h) => g = h

=============================================================================
