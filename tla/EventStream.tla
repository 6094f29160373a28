---------------------------- MODULE EventStream -----------------------------
(***************************************************************************)
(* The timeline of one task: the rows of task_events, which the worker and *)
(* the API write, their copy on the event bus, and the Server-Sent-Events  *)
(* handler that replays the rows to a browser and then follows the bus.    *)
(*                                                                         *)
(*   persistence/repositories/audit.py (EventRepository),                  *)
(*   graph/context.py (emit), apps/api/services.py (_publish),             *)
(*   apps/api/routes/events.py, infrastructure/events/*.py                 *)
(*                                                                         *)
(* An event is its sequence number, its type and its writer; payloads, ids *)
(* and timestamps are left out.  The database is PostgreSQL at READ        *)
(* COMMITTED: a statement sees the committed rows and those of its own     *)
(* transaction.  The bus has no memory: what is published while nobody     *)
(* subscribes is gone.  There is one browser; it reconnects with ?after=   *)
(* the highest number it has seen.  A heartbeat changes nothing and is     *)
(* left out.  The status of the task is "ACTIVE" while it is not settled.  *)
(***************************************************************************)
EXTENDS Integers, Sequences, FiniteSetsExt, Decisions

CONSTANTS
  Worker,        \* the worker, as a writer of events
  Creator,       \* the request that created the task, as a writer
  Requests,      \* decision requests
  MaxDrops,      \* bound on dropped connections
  MaxRollbacks   \* bound on transactions that fail before their commit

ASSUME WritersDiffer ==
  Worker \notin Requests /\ Creator \notin Requests /\ Worker # Creator

ASSUME BoundsAssumption == MaxDrops \in Nat /\ MaxRollbacks \in Nat

VARIABLES
  task_events,  \* committed rows, in commit order
  status,       \* the status column of the task
  plan,         \* what the worker has still to emit and to write
  emitting,     \* the worker's emit in progress
  tx,           \* the decision requests and their transactions
  rollbacks,
  stream,       \* the SSE handler of the browser
  got           \* history: the events the browser received, in order

vars == <<task_events, status, plan, emitting, tx, rollbacks, stream, got>>

Event(n, type, writer) == [sequence |-> n, type |-> type, writer |-> writer]

(* The types on which stream_events looks at the task again. *)
EndingTypes == {"TASK_COMPLETED", "TASK_FAILED", "TASK_CANCELLED",
                "APPROVAL_REQUESTED", "NO_PROGRESS_DETECTED"}

Rows(s) == {s[i] : i \in DOMAIN s}
Numbers(s) == {s[i].sequence : i \in DOMAIN s}

(* Variant: the maximum is not looked up again within a transaction. *)
next_sequence_stale(own) ==
  IF task_events = <<>> THEN 1 ELSE Max(Numbers(task_events)) + 1

(* select coalesce(max(sequence), 0) + 1 *)
next_sequence(own) ==
  LET seen == Numbers(task_events) \cup Numbers(own)
  IN  IF seen = {} THEN 1 ELSE Max(seen) + 1

(* Fan-out to the subscribers. *)
Publish(event) ==
  stream' = IF stream.pc = "live"
              THEN [stream EXCEPT !.inbox = Append(@, event)]
              ELSE stream

-----------------------------------------------------------------------------
(* The worker *)

emit(type) == <<[op |-> "emit", arg |-> type]>>
set_status(s) == <<[op |-> "status", arg |-> s]>>

(* Supervisor.instrument around the last node of an execution. *)
instrument(s, type) ==
  emit("NODE_STARTED") \o set_status(s) \o emit(type) \o set_status(s)
  \o emit("NODE_COMPLETED")

(* How an execution goes on from its first event to its last: a review, an
   escalation by halt or by the recursion limit, an exception that leaves the
   graph, a bad repository path.  (halt has no entry in NODE_STATUS.) *)
Plans ==
  {emit("TASK_CLAIMED") \o p : p \in
     {instrument("READY_FOR_REVIEW", "APPROVAL_REQUESTED")
        \o set_status("READY_FOR_REVIEW"),
      instrument("ACTIVE", "NO_PROGRESS_DETECTED") \o set_status("HUMAN_REVIEW_REQUIRED"),
      instrument("ACTIVE", "POLICY_BLOCKED") \o set_status("HUMAN_REVIEW_REQUIRED"),
      emit("NO_PROGRESS_DETECTED") \o set_status("HUMAN_REVIEW_REQUIRED"),
      set_status("FAILED") \o emit("TASK_FAILED")}}
  \cup {set_status("FAILED")}

Idle == [phase |-> "idle", event |-> Event(0, "none", Worker)]

Does(op) == plan # <<>> /\ Head(plan).op = op

(* EventRepository.append reads the maximum ... *)
EmitSelect ==
  /\ Does("emit") /\ emitting.phase = "idle"
  /\ emitting' = [phase |-> "writing",
                  event |-> Event(next_sequence(<<>>), Head(plan).arg, Worker)]
  /\ UNCHANGED <<task_events, status, plan, tx, rollbacks, stream, got>>

(* ... session_scope commits the row ... *)
EmitCommit ==
  /\ emitting.phase = "writing"
  /\ task_events' = Append(task_events, emitting.event)
  /\ emitting' = [emitting EXCEPT !.phase = "publishing"]
  /\ UNCHANGED <<status, plan, tx, rollbacks, stream, got>>

(* ... and then the event is published. *)
EmitPublish ==
  /\ emitting.phase = "publishing"
  /\ Publish(emitting.event)
  /\ emitting' = Idle
  /\ plan' = Tail(plan)
  /\ UNCHANGED <<task_events, status, tx, rollbacks, got>>

(* A transaction that has written the task row holds its lock. *)
Locked == \E r \in Requests : tx[r].pc = "open"

(* save_checkpoint, _finalize, _finalize_failure: an unconditional UPDATE. *)
SetStatus ==
  /\ Does("status") /\ ~Locked
  /\ status' = Head(plan).arg
  /\ plan' = Tail(plan)
  /\ UNCHANGED <<task_events, emitting, tx, rollbacks, stream, got>>

-----------------------------------------------------------------------------
(* approve, reject, cancel *)

NoTx == [pc |-> "start", kind |-> "cancel", todo |-> <<>>, own |-> <<>>,
         unpublished |-> FALSE]

(* The check of a decision. *)
Check(r, kind) ==
  /\ tx[r].pc = "start"
  /\ Admits(kind, status)
  /\ tx' = [tx EXCEPT ![r] = [NoTx EXCEPT !.pc = "checked", !.kind = kind,
                                          !.todo = Announces(kind)]]
  /\ UNCHANGED <<task_events, status, plan, emitting, rollbacks, stream, got>>

(* set_status takes the row lock. *)
Write(r) ==
  /\ tx[r].pc = "checked"
  /\ ~Locked
  /\ tx' = [tx EXCEPT ![r].pc = "open"]
  /\ UNCHANGED <<task_events, status, plan, emitting, rollbacks, stream, got>>

(* _publish: append in the request's transaction ... *)
AppendEvent(r) ==
  /\ tx[r].pc = "open"
  /\ ~tx[r].unpublished
  /\ tx[r].todo # <<>>
  /\ tx' = [tx EXCEPT ![r] = [tx[r] EXCEPT
       !.own = Append(@, Event(next_sequence(tx[r].own), Head(tx[r].todo), r)),
       !.todo = Tail(@),
       !.unpublished = TRUE]]
  /\ UNCHANGED <<task_events, status, plan, emitting, rollbacks, stream, got>>

(* ... and publish, before the commit. *)
PublishEvent(r) ==
  /\ tx[r].pc = "open"
  /\ tx[r].unpublished
  /\ Publish(tx[r].own[Len(tx[r].own)])
  /\ tx' = [tx EXCEPT ![r].unpublished = FALSE]
  /\ UNCHANGED <<task_events, status, plan, emitting, rollbacks, got>>

(* Variant: the last event is published and never flushed. *)
Commit_unflushed(r) ==
  /\ tx[r].pc = "open"
  /\ tx[r].todo = <<>> /\ ~tx[r].unpublished
  /\ task_events' = task_events \o SubSeq(tx[r].own, 1, Len(tx[r].own) - 1)
  /\ status' = Outcome(tx[r].kind)
  /\ tx' = [tx EXCEPT ![r] = [NoTx EXCEPT !.pc = "done"]]
  /\ UNCHANGED <<plan, emitting, rollbacks, stream, got>>

(* The request-scoped session commits after the handler returned. *)
Commit(r) ==
  /\ tx[r].pc = "open"
  /\ tx[r].todo = <<>> /\ ~tx[r].unpublished
  /\ task_events' = task_events \o tx[r].own
  /\ status' = Outcome(tx[r].kind)
  /\ tx' = [tx EXCEPT ![r] = [NoTx EXCEPT !.pc = "done"]]
  /\ UNCHANGED <<plan, emitting, rollbacks, stream, got>>

(* A failing publish or commit: the session rolls back, the bus does not. *)
Rollback(r) ==
  /\ tx[r].pc = "open"
  /\ rollbacks < MaxRollbacks
  /\ tx' = [tx EXCEPT ![r] = [NoTx EXCEPT !.pc = "done"]]
  /\ rollbacks' = rollbacks + 1
  /\ UNCHANGED <<task_events, status, plan, emitting, stream, got>>

-----------------------------------------------------------------------------
(* stream_events *)

(* Variant: a reconnecting browser is sent everything again. *)
Connect_afresh ==
  /\ stream.pc = "off"
  /\ stream' = [stream EXCEPT !.pc = "rows", !.replay = Rows(task_events)]
  /\ UNCHANGED <<task_events, status, plan, emitting, tx, rollbacks, got>>

(* events_since: the rows above the browser's ?after. *)
Connect ==
  /\ stream.pc = "off"
  /\ stream' = [stream EXCEPT !.pc = "rows",
       !.replay = {e \in Rows(task_events) : e.sequence > stream.highest}]
  /\ UNCHANGED <<task_events, status, plan, emitting, tx, rollbacks, got>>

(* Variant: only a terminal status counts as finished. *)
ReadStatus_terminal ==
  /\ stream.pc = "rows"
  /\ stream' = [stream EXCEPT !.pc = "replay",
                              !.finished = status \in TERMINAL_STATUSES]
  /\ UNCHANGED <<task_events, status, plan, emitting, tx, rollbacks, got>>

(* already_finished: the status is read after the rows. *)
ReadStatus ==
  /\ stream.pc = "rows"
  /\ stream' = [stream EXCEPT !.pc = "replay",
                              !.finished = status \in SETTLED_STATUSES]
  /\ UNCHANGED <<task_events, status, plan, emitting, tx, rollbacks, got>>

(* The generator yields the rows in sequence order, ties in any order. *)
YieldRow ==
  /\ stream.pc = "replay"
  /\ \E row \in stream.replay :
       /\ \A other \in stream.replay : row.sequence <= other.sequence
       /\ got' = Append(got, row)
       /\ stream' = [stream EXCEPT !.replay = @ \ {row},
                                   !.highest = row.sequence]
  /\ UNCHANGED <<task_events, status, plan, emitting, tx, rollbacks>>

(* STREAM_END if the status was settled, else the pump task is started. *)
ReplayEnds ==
  /\ stream.pc = "replay"
  /\ stream.replay = {}
  /\ stream' = [stream EXCEPT !.pc = IF stream.finished THEN "ended" ELSE "replayed"]
  /\ UNCHANGED <<task_events, status, plan, emitting, tx, rollbacks, got>>

(* The pump task reaches events.subscribe. *)
Subscribe ==
  /\ stream.pc = "replayed"
  /\ stream' = [stream EXCEPT !.pc = "live"]
  /\ UNCHANGED <<task_events, status, plan, emitting, tx, rollbacks, got>>

(* One turn of the loop: skip an event that is not above highest, else
   deliver it, and end on an ending type that finds the task settled. The
   session answers a second look from its identity map, since `current` still
   refers to the row of the first one. *)
Deliver ==
  /\ stream.pc = "live"
  /\ stream.inbox # <<>>
  /\ LET event == Head(stream.inbox)
         fresh == event.sequence > stream.highest
         looks == fresh /\ event.type \in EndingTypes
         current == IF stream.current = "unread" THEN status ELSE stream.current
         ends == looks /\ current \in SETTLED_STATUSES
     IN  /\ got' = IF fresh THEN Append(got, event) ELSE got
         /\ stream' = [stream EXCEPT
              !.inbox = IF ends THEN <<>> ELSE Tail(@),
              !.highest = IF fresh THEN event.sequence ELSE @,
              !.current = IF ends THEN "unread" ELSE IF looks THEN current ELSE @,
              !.pc = IF ends THEN "ended" ELSE @]
  /\ UNCHANGED <<task_events, status, plan, emitting, tx, rollbacks>>

(* The connection drops, or the subscription fails and the handler returns. *)
Disconnect ==
  /\ stream.pc \in {"rows", "replay", "replayed", "live"}
  /\ stream.drops < MaxDrops
  /\ stream' = [stream EXCEPT !.pc = "off", !.replay = {}, !.inbox = <<>>,
                              !.finished = FALSE, !.current = "unread", !.drops = @ + 1]
  /\ UNCHANGED <<task_events, status, plan, emitting, tx, rollbacks, got>>

-----------------------------------------------------------------------------
(* Specification *)

Init ==
  /\ task_events = <<Event(1, "TASK_CREATED", Creator)>>
  /\ status = "ACTIVE"
  /\ plan \in Plans
  /\ emitting = Idle
  /\ tx = [r \in Requests |-> NoTx]
  /\ rollbacks = 0
  /\ stream = [pc |-> "off", replay |-> {}, finished |-> FALSE,
               highest |-> 0, current |-> "unread", inbox |-> <<>>, drops |-> 0]
  /\ got = <<>>

WorkerStep == EmitSelect \/ EmitCommit \/ EmitPublish \/ SetStatus

RequestStep(r) == Write(r) \/ AppendEvent(r) \/ PublishEvent(r) \/ Commit(r)

Handler == Connect \/ ReadStatus \/ YieldRow \/ ReplayEnds \/ Subscribe \/ Deliver

Next ==
  \/ WorkerStep
  \/ \E r \in Requests : RequestStep(r) \/ Rollback(r)
  \/ \E r \in Requests, kind \in DecisionKinds : Check(r, kind)
  \/ Handler
  \/ Disconnect

(* The worker, the requests in flight and the handler keep running; a dropped
   connection, a rollback and the arrival of a request are not owed. *)
Fairness ==
  /\ WF_vars(WorkerStep)
  /\ \A r \in Requests : WF_vars(RequestStep(r))
  /\ WF_vars(Handler)

Spec == Init /\ [][Next]_vars /\ Fairness

-----------------------------------------------------------------------------
(* Properties *)

EventTypes == EndingTypes \cup {"TASK_CREATED", "TASK_CLAIMED", "NODE_STARTED",
  "NODE_COMPLETED", "POLICY_BLOCKED", "APPROVAL_GRANTED", "APPROVAL_REJECTED"}
Events == [sequence : Nat \ {0}, type : EventTypes,
           writer : Requests \cup {Worker, Creator}]

(* The variables have their types. *)
TypeOK ==
  /\ task_events \in Seq(Events)
  /\ status \in SETTLED_STATUSES \cup {"ACTIVE"}
  /\ emitting.phase \in {"idle", "writing", "publishing"}
  /\ emitting.phase # "idle" => emitting.event \in Events
  /\ \A r \in Requests :
       /\ tx[r].pc \in {"start", "checked", "open", "done"}
       /\ tx[r].own \in Seq(Events)
  /\ stream.replay \subseteq Events
  /\ stream.inbox \in Seq(Events)
  /\ stream.highest \in Nat
  /\ stream.current \in SETTLED_STATUSES \cup {"ACTIVE", "unread"}
  /\ got \in Seq(Events)

(* The numbers of a timeline have no hole, whatever the API and the worker
   write at the same time and whichever transaction rolls back, so that a
   reader never waits for a number that will not come; and the events of one
   writer are committed in the order of their numbers, none shared: only
   different writers can clash (EventRepository.append). *)
LogIsOrdered ==
  /\ \A n \in Numbers(task_events) : 1 .. n \subseteq Numbers(task_events)
  /\ \A i, j \in DOMAIN task_events :
       (i < j /\ task_events[i].writer = task_events[j].writer) =>
         task_events[i].sequence < task_events[j].sequence

(* Over all its connections a browser receives no event twice, and none with
   a lower number after a higher one (stream_events: replay, ?after, highest). *)
NoDuplicateDelivery ==
  \A i, j \in DOMAIN got :
    i < j => got[i] # got[j] /\ got[i].sequence <= got[j].sequence

(* What the browser shows did happen or is about to: every event it received
   is a committed row, or its transaction is still open, unless one rolled
   back (services._publish publishes before the commit). *)
ShownIsDurable ==
  rollbacks = 0 =>
    Rows(got) \subseteq Rows(task_events) \cup UNION {Rows(tx[r].own) : r \in Requests}

(* A browser that connects to a task that stays settled is told that the
   stream ends, also when the connection drops (stream_events:
   already_finished). *)
SettledStreamsEnd ==
  (stream.pc = "off" /\ [](status \in SETTLED_STATUSES)) ~> (stream.pc = "ended")

=============================================================================
