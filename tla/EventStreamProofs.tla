------------------------- MODULE EventStreamProofs --------------------------
(***************************************************************************)
(* Proofs about EventStream, for any number of decision requests, dropped  *)
(* connections and rollbacks.                                              *)
(***************************************************************************)
EXTENDS EventStream, SequenceTheorems, TLAPS

(* Rows and numbers of a longer log. *)
LEMMA RowsAppend ==
  ASSUME NEW s \in Seq(Events), NEW e \in Events
  PROVE  /\ Rows(Append(s, e)) = Rows(s) \cup {e}
         /\ Numbers(Append(s, e)) = Numbers(s) \cup {e.sequence}
  <1>1. /\ DOMAIN Append(s, e) = 1 .. Len(s) + 1 /\ DOMAIN s = 1 .. Len(s)
        /\ Len(s) \in Nat
        /\ \A i \in 1 .. Len(s) : Append(s, e)[i] = s[i]
        /\ Append(s, e)[Len(s) + 1] = e
    BY AppendProperties, LenProperties
  <1>2. Rows(Append(s, e)) = Rows(s) \cup {e}
    BY <1>1 DEF Rows
  <1>3. Numbers(Append(s, e)) = Numbers(s) \cup {e.sequence}
    BY <1>1 DEF Numbers
  <1> QED BY <1>2, <1>3

(* Concatenation joins the rows and the numbers of two logs. *)
LEMMA RowsConcat ==
  ASSUME NEW s \in Seq(Events), NEW t \in Seq(Events)
  PROVE  /\ Rows(s \o t) = Rows(s) \cup Rows(t)
         /\ Numbers(s \o t) = Numbers(s) \cup Numbers(t)
  <1>1. /\ DOMAIN (s \o t) = 1 .. Len(s) + Len(t)
        /\ DOMAIN s = 1 .. Len(s) /\ DOMAIN t = 1 .. Len(t)
        /\ Len(s) \in Nat /\ Len(t) \in Nat
        /\ \A i \in 1 .. Len(s) : (s \o t)[i] = s[i]
        /\ \A i \in 1 .. Len(t) : (s \o t)[Len(s) + i] = t[i]
    BY ConcatProperties, LenProperties
  <1>2. \A k \in DOMAIN (s \o t) : \/ k \in DOMAIN s /\ (s \o t)[k] = s[k]
                                   \/ \E i \in DOMAIN t : (s \o t)[k] = t[i]
    <2> TAKE k \in DOMAIN (s \o t)
    <2>1. CASE k <= Len(s)
      BY <1>1, <2>1
    <2>2. CASE k > Len(s)
      <3>1. k - Len(s) \in DOMAIN t /\ k = Len(s) + (k - Len(s))
        BY <1>1, <2>2
      <3> QED BY <1>1, <3>1
    <2> QED BY <1>1, <2>1, <2>2
  <1>3. /\ \A i \in DOMAIN s : i \in DOMAIN (s \o t) /\ (s \o t)[i] = s[i]
        /\ \A i \in DOMAIN t : Len(s) + i \in DOMAIN (s \o t) /\ (s \o t)[Len(s) + i] = t[i]
    BY <1>1
  <1>4. Rows(s \o t) = Rows(s) \cup Rows(t)
    <2>1. ASSUME NEW e \in Rows(s \o t) PROVE e \in Rows(s) \cup Rows(t)
      BY <1>2, <2>1 DEF Rows
    <2>2. ASSUME NEW e \in Rows(s) PROVE e \in Rows(s \o t)
      BY <1>3, <2>2 DEF Rows
    <2>3. ASSUME NEW e \in Rows(t) PROVE e \in Rows(s \o t)
      BY <1>3, <2>3 DEF Rows
    <2> QED BY <2>1, <2>2, <2>3
  <1>5. Numbers(s \o t) = Numbers(s) \cup Numbers(t)
    <2>1. ASSUME NEW e \in Numbers(s \o t) PROVE e \in Numbers(s) \cup Numbers(t)
      BY <1>2, <2>1 DEF Numbers
    <2>2. ASSUME NEW e \in Numbers(s) PROVE e \in Numbers(s \o t)
      BY <1>3, <2>2 DEF Numbers
    <2>3. ASSUME NEW e \in Numbers(t) PROVE e \in Numbers(s \o t)
      BY <1>3, <2>3 DEF Numbers
    <2> QED BY <2>1, <2>2, <2>3
  <1> QED BY <1>4, <1>5

-----------------------------------------------------------------------------
(* Sets of numbers without a hole *)

Dense(S) == \E n \in Nat : S = 1 .. n

(* Two writers that each continue the same log leave no hole together. *)
LEMMA DenseUnion ==
  ASSUME NEW A, NEW B, NEW C, Dense(A \cup B), Dense(A \cup C)
  PROVE  Dense((A \cup B) \cup C)
  <1>1. PICK m \in Nat : A \cup B = 1 .. m
    BY DEF Dense
  <1>2. PICK n \in Nat : A \cup C = 1 .. n
    BY DEF Dense
  <1>3. (A \cup B) \cup C = (1 .. m) \cup (1 .. n)
    BY <1>1, <1>2
  <1>4. CASE m <= n
    <2>1. (1 .. m) \cup (1 .. n) = 1 .. n
      BY <1>4
    <2> QED BY <1>3, <2>1 DEF Dense
  <1>5. CASE n <= m
    <2>1. (1 .. m) \cup (1 .. n) = 1 .. m
      BY <1>5
    <2> QED BY <1>3, <2>1 DEF Dense
  <1> QED BY <1>4, <1>5

(* The events of a sequence are numbered. *)
LEMMA ElementsNumbered ==
  ASSUME NEW s \in Seq(Events)
  PROVE  \A i \in DOMAIN s : s[i] \in Events /\ s[i].sequence \in Nat
  <1>1. DOMAIN s = 1 .. Len(s) /\ Len(s) \in Nat
    BY LenProperties
  <1>2. \A i \in 1 .. Len(s) : s[i] \in Events
    BY ElementOfSeq
  <1>3. \A e \in Events : e.sequence \in Nat
    BY DEF Events
  <1> QED BY <1>1, <1>2, <1>3

(* The number append takes is the one after the last number it sees. *)
LEMMA NextSequence ==
  ASSUME NEW own, Dense(Numbers(task_events) \cup Numbers(own))
  PROVE  /\ next_sequence(own) \in Nat \ {0}
         /\ Dense((Numbers(task_events) \cup Numbers(own)) \cup {next_sequence(own)})
         /\ \A k \in Numbers(task_events) \cup Numbers(own) : k < next_sequence(own)
  <1> DEFINE seen == Numbers(task_events) \cup Numbers(own)
  <1>1. PICK n \in Nat : seen = 1 .. n
    BY DEF Dense
  <1>2. next_sequence(own) = n + 1
    <2>1. CASE n = 0
      BY <1>1, <2>1 DEF next_sequence
    <2>2. CASE n > 0
      <3>1. n \in seen /\ \A y \in seen : n >= y
        BY <1>1, <2>2
      <3>2. \A x \in seen : (\A y \in seen : x >= y) => x = n
        BY <1>1, <3>1
      <3>3. Max(seen) = n
        BY <3>1, <3>2 DEF Max
      <3> QED BY <3>1, <3>3 DEF next_sequence
    <2> QED BY <2>1, <2>2
  <1>3. seen \cup {n + 1} = 1 .. (n + 1)
    BY <1>1
  <1>4. Dense(seen \cup {n + 1})
    BY <1>3 DEF Dense
  <1> QED BY <1>1, <1>2, <1>4

-----------------------------------------------------------------------------
(* Types *)

AllStatuses == SETTLED_STATUSES \cup {"ACTIVE"}

Ops == [op : {"emit"}, arg : EventTypes] \cup [op : {"status"}, arg : AllStatuses]

EmitType == [phase : {"idle", "writing", "publishing"},
             event : Events \cup {Event(0, "none", Worker)}]

TxType == [pc : {"start", "checked", "open", "done"}, kind : DecisionKinds,
           todo : Seq(EventTypes), own : Seq(Events), unpublished : BOOLEAN]

StreamType == [pc : {"off", "rows", "replay", "replayed", "live", "ended"},
               replay : SUBSET Events, finished : BOOLEAN, highest : Nat,
               current : AllStatuses \cup {"unread"}, inbox : Seq(Events), drops : Nat]

(* The worker emits what its plan says next, under its own name. *)
EmitInv ==
  emitting.phase # "idle" =>
    emitting.event \in Events /\ emitting.event.writer = Worker /\ Does("emit")

(* Only an open transaction has rows of its own, and it has the one that it is
   about to publish. *)
TxInv ==
  \A r \in Requests : /\ tx[r].pc # "open" => tx[r].own = <<>> /\ ~tx[r].unpublished
                      /\ tx[r].unpublished => tx[r].own # <<>>

TypeInv ==
  /\ task_events \in Seq(Events)
  /\ status \in AllStatuses
  /\ plan \in Seq(Ops)
  /\ emitting \in EmitType
  /\ tx \in [Requests -> TxType]
  /\ rollbacks \in Nat
  /\ stream \in StreamType
  /\ got \in Seq(Events)
  /\ EmitInv /\ TxInv

(* A plan is a sequence of events to emit and statuses to write. *)
LEMMA PlansTyped == Plans \subseteq Seq(Ops)
  <1>1. \A t \in EventTypes : emit(t) \in Seq(Ops)
    BY DEF emit, Ops
  <1>2. \A x \in AllStatuses : set_status(x) \in Seq(Ops)
    BY DEF set_status, Ops
  <1>3. \A u, v \in Seq(Ops) : u \o v \in Seq(Ops)
    BY ConcatProperties
  <1>4. ASSUME NEW x \in AllStatuses, NEW t \in EventTypes
        PROVE  instrument(x, t) \in Seq(Ops)
    <2>1. /\ emit("NODE_STARTED") \in Seq(Ops) /\ emit("NODE_COMPLETED") \in Seq(Ops)
          /\ emit(t) \in Seq(Ops) /\ set_status(x) \in Seq(Ops)
      BY <1>1, <1>2 DEF EventTypes
    <2> QED BY <1>3, <2>1 DEF instrument
  <1>5. /\ {"READY_FOR_REVIEW", "ACTIVE", "HUMAN_REVIEW_REQUIRED", "FAILED"} \subseteq AllStatuses
        /\ {"TASK_CLAIMED", "APPROVAL_REQUESTED", "NO_PROGRESS_DETECTED", "POLICY_BLOCKED",
            "TASK_FAILED"} \subseteq EventTypes
    BY DEF AllStatuses, SETTLED_STATUSES, TERMINAL_STATUSES, EventTypes, EndingTypes
  <1>6. /\ instrument("READY_FOR_REVIEW", "APPROVAL_REQUESTED") \in Seq(Ops)
        /\ instrument("ACTIVE", "NO_PROGRESS_DETECTED") \in Seq(Ops)
        /\ instrument("ACTIVE", "POLICY_BLOCKED") \in Seq(Ops)
        /\ emit("TASK_CLAIMED") \in Seq(Ops) /\ emit("NO_PROGRESS_DETECTED") \in Seq(Ops)
        /\ emit("TASK_FAILED") \in Seq(Ops)
        /\ set_status("READY_FOR_REVIEW") \in Seq(Ops) /\ set_status("FAILED") \in Seq(Ops)
        /\ set_status("HUMAN_REVIEW_REQUIRED") \in Seq(Ops)
    BY <1>1, <1>2, <1>4, <1>5
  <1> DEFINE Rest == {instrument("READY_FOR_REVIEW", "APPROVAL_REQUESTED")
                        \o set_status("READY_FOR_REVIEW"),
                      instrument("ACTIVE", "NO_PROGRESS_DETECTED") \o set_status("HUMAN_REVIEW_REQUIRED"),
                      instrument("ACTIVE", "POLICY_BLOCKED") \o set_status("HUMAN_REVIEW_REQUIRED"),
                      emit("NO_PROGRESS_DETECTED") \o set_status("HUMAN_REVIEW_REQUIRED"),
                      set_status("FAILED") \o emit("TASK_FAILED")}
  <1>7. Rest \subseteq Seq(Ops)
    BY <1>3, <1>6
  <1>8. Plans = {emit("TASK_CLAIMED") \o p : p \in Rest} \cup {set_status("FAILED")}
    BY DEF Plans
  <1> HIDE DEF Rest
  <1>9. \A p \in Rest : emit("TASK_CLAIMED") \o p \in Seq(Ops)
    BY <1>3, <1>6, <1>7
  <1> QED BY <1>6, <1>8, <1>9

(* Published events stay events. *)
LEMMA PublishTyped ==
  ASSUME stream \in StreamType, NEW e \in Events, Publish(e)
  PROVE  /\ stream' \in StreamType
         /\ stream'.pc = stream.pc /\ stream'.replay = stream.replay
         /\ stream'.highest = stream.highest
         /\ Rows(stream'.inbox) \subseteq Rows(stream.inbox) \cup {e}
  <1>1. CASE stream.pc = "live"
    <2>1. Append(stream.inbox, e) \in Seq(Events)
      BY AppendProperties DEF StreamType
    <2>2. stream' = [stream EXCEPT !.inbox = Append(@, e)]
      BY <1>1 DEF Publish
    <2>3. Rows(Append(stream.inbox, e)) = Rows(stream.inbox) \cup {e}
      BY RowsAppend DEF StreamType
    <2> QED BY <2>1, <2>2, <2>3 DEF StreamType
  <1>2. CASE stream.pc # "live"
    BY <1>2 DEF Publish
  <1> QED BY <1>1, <1>2

(* A decision announces its events. *)
LEMMA AnnouncesTyped ==
  ASSUME NEW kind \in DecisionKinds
  PROVE  Announces(kind) \in Seq(EventTypes) /\ Outcome(kind) \in AllStatuses
  <1>1. {"APPROVAL_GRANTED", "TASK_COMPLETED", "APPROVAL_REJECTED", "TASK_CANCELLED"} \subseteq EventTypes
    BY DEF EventTypes, EndingTypes
  <1>2. /\ <<"APPROVAL_GRANTED", "TASK_COMPLETED">> \in Seq(EventTypes)
        /\ <<"APPROVAL_REJECTED">> \in Seq(EventTypes) /\ <<"TASK_CANCELLED">> \in Seq(EventTypes)
    BY <1>1
  <1> QED BY <1>2 DEF DecisionKinds, Announces, Outcome, AllStatuses, SETTLED_STATUSES, TERMINAL_STATUSES

(* The event of a given number, type and writer. *)
LEMMA EventTyped ==
  ASSUME NEW n \in Nat \ {0}, NEW t \in EventTypes, NEW w \in Requests \cup {Worker, Creator}
  PROVE  /\ Event(n, t, w) \in Events
         /\ Event(n, t, w).sequence = n /\ Event(n, t, w).writer = w
  BY DEF Event, Events

-----------------------------------------------------------------------------
(* The numbering *)

(* What is committed has no hole, neither alone, nor with the rows of one open
   transaction, nor with the row that the worker is about to commit. *)
DenseInv ==
  /\ Dense(Numbers(task_events))
  /\ \A r \in Requests : Dense(Numbers(task_events) \cup Numbers(tx[r].own))
  /\ emitting.phase = "writing" =>
       Dense(Numbers(task_events) \cup {emitting.event.sequence})

(* The empty log has neither rows nor numbers. *)
LEMMA NoNumbers == Numbers(<<>>) = {} /\ Rows(<<>>) = {}
  BY DEF Numbers, Rows

(* A new task has one event, number 1, and nothing in flight. *)
LEMMA InitBase == Init => TypeInv /\ DenseInv
  <1> SUFFICES ASSUME Init PROVE TypeInv /\ DenseInv
    OBVIOUS
  <1>1. Event(1, "TASK_CREATED", Creator) \in Events
    BY EventTyped DEF EventTypes
  <1>2. <<Event(1, "TASK_CREATED", Creator)>> \in Seq(Events)
    BY <1>1
  <1>3. Numbers(<<Event(1, "TASK_CREATED", Creator)>>) = 1 .. 1
    BY DEF Numbers, Event
  <1>4. TypeInv
    <2>1. tx \in [Requests -> TxType]
      BY DEF Init, TxType, NoTx, DecisionKinds
    <2>2. stream \in StreamType
      BY DEF Init, StreamType
    <2>3. emitting \in EmitType /\ EmitInv
      BY DEF Init, Idle, EmitType, EmitInv
    <2>4. TxInv
      BY DEF Init, TxInv, NoTx
    <2> QED BY <1>2, <2>1, <2>2, <2>3, <2>4, PlansTyped DEF Init, TypeInv, AllStatuses
  <1>5. DenseInv
    <2>1. Dense(Numbers(task_events))
      BY <1>3 DEF Init, Dense
    <2>2. \A r \in Requests : Numbers(tx[r].own) = {}
      BY NoNumbers DEF Init, NoTx
    <2> QED BY <2>1, <2>2 DEF DenseInv, Init, Idle
  <1> QED BY <1>4, <1>5

(* The worker reads the next number: it continues the committed ones. *)
LEMMA EmitSelectBase ==
  ASSUME TypeInv, DenseInv, EmitSelect
  PROVE  TypeInv' /\ DenseInv'
  <1>1. /\ next_sequence(<<>>) \in Nat \ {0}
        /\ Dense(Numbers(task_events) \cup {next_sequence(<<>>)})
    BY NextSequence, NoNumbers DEF DenseInv
  <1>2. Head(plan).arg \in EventTypes
    <2>1. Head(plan) \in Ops
      BY HeadTailProperties DEF EmitSelect, Does, TypeInv
    <2> QED BY <2>1 DEF EmitSelect, Does, Ops
  <1> DEFINE e == Event(next_sequence(<<>>), Head(plan).arg, Worker)
  <1>3. e \in Events /\ e.writer = Worker /\ e.sequence = next_sequence(<<>>)
    BY <1>1, <1>2, EventTyped
  <1>4. emitting' = [phase |-> "writing", event |-> e]
    BY DEF EmitSelect
  <1> HIDE DEF e
  <1>5. emitting' \in EmitType /\ EmitInv'
    BY <1>3, <1>4 DEF EmitType, EmitInv, EmitSelect, Does
  <1>6. TypeInv'
    BY <1>5 DEF TypeInv, EmitSelect, TxInv
  <1>7. emitting'.event.sequence = next_sequence(<<>>) /\ task_events' = task_events /\ tx' = tx
    BY <1>3, <1>4 DEF EmitSelect
  <1>8. Dense(Numbers(task_events') \cup {emitting'.event.sequence})
    BY <1>1, <1>7
  <1>9. DenseInv'
    BY <1>7, <1>8 DEF DenseInv
  <1> QED BY <1>6, <1>9

(* The worker commits its row: the log grows by the number it read. *)
LEMMA EmitCommitBase ==
  ASSUME TypeInv, DenseInv, EmitCommit
  PROVE  TypeInv' /\ DenseInv'
  <1>1. emitting.event \in Events /\ emitting' \in EmitType /\ EmitInv' /\ emitting'.phase = "publishing"
    BY DEF TypeInv, EmitInv, EmitCommit, EmitType, Does
  <1>2. task_events' \in Seq(Events)
        /\ Numbers(task_events') = Numbers(task_events) \cup {emitting.event.sequence}
    BY <1>1, AppendProperties, RowsAppend DEF TypeInv, EmitCommit
  <1>3. TypeInv'
    BY <1>1, <1>2 DEF TypeInv, EmitCommit, TxInv
  <1>4. Dense(Numbers(task_events'))
    BY <1>2 DEF DenseInv, EmitCommit
  <1>5. ASSUME NEW r \in Requests
        PROVE  Dense(Numbers(task_events') \cup Numbers(tx'[r].own))
    <2>1. Dense(Numbers(task_events) \cup {emitting.event.sequence})
          /\ Dense(Numbers(task_events) \cup Numbers(tx[r].own))
      BY <1>5 DEF DenseInv, EmitCommit
    <2> QED BY <1>2, <2>1, DenseUnion DEF EmitCommit
  <1> QED BY <1>1, <1>3, <1>4, <1>5 DEF DenseInv

(* Publishing writes no row. *)
LEMMA EmitPublishBase ==
  ASSUME TypeInv, DenseInv, EmitPublish
  PROVE  TypeInv' /\ DenseInv'
  <1>1. emitting.event \in Events /\ plan # <<>>
    BY DEF TypeInv, EmitInv, EmitPublish, Does
  <1>2. stream' \in StreamType
    BY <1>1, PublishTyped DEF TypeInv, EmitPublish
  <1>3. plan' \in Seq(Ops)
    BY <1>1, HeadTailProperties DEF TypeInv, EmitPublish
  <1>4. emitting' \in EmitType /\ EmitInv' /\ emitting'.phase = "idle"
    BY DEF EmitPublish, Idle, EmitType, EmitInv
  <1>5. TypeInv'
    BY <1>2, <1>3, <1>4 DEF TypeInv, EmitPublish, TxInv
  <1> QED BY <1>4, <1>5 DEF DenseInv, EmitPublish

(* The worker's status steps write no event. *)
LEMMA SetStatusBase ==
  ASSUME TypeInv, DenseInv, SetStatus
  PROVE  TypeInv' /\ DenseInv'
  <1>1. Head(plan) \in Ops /\ plan' \in Seq(Ops)
    BY HeadTailProperties DEF TypeInv, SetStatus, Does
  <1>2. status' \in AllStatuses
    BY <1>1 DEF SetStatus, Does, Ops
  <1>3. emitting.phase = "idle"
    BY DEF TypeInv, EmitInv, SetStatus, Does
  <1> QED BY <1>1, <1>2, <1>3 DEF TypeInv, DenseInv, SetStatus, EmitInv, TxInv

(* A fresh transaction, and one that has ended. *)
LEMMA NoTxTyped ==
  /\ NoTx \in TxType /\ NoTx.own = <<>> /\ NoTx.unpublished = FALSE
  /\ [NoTx EXCEPT !.pc = "done"] \in TxType
  /\ [NoTx EXCEPT !.pc = "done"].pc = "done" /\ [NoTx EXCEPT !.pc = "done"].own = <<>>
  /\ [NoTx EXCEPT !.pc = "done"].unpublished = FALSE
  <1>1. <<>> \in Seq(EventTypes) /\ <<>> \in Seq(Events)
    BY EmptySeq
  <1>2. NoTx \in TxType /\ NoTx.own = <<>> /\ NoTx.unpublished = FALSE
    BY <1>1 DEF NoTx, TxType, DecisionKinds
  <1> QED BY <1>2 DEF TxType

(* A request opens its transaction with no event of its own. *)
LEMMA CheckBase ==
  ASSUME TypeInv, DenseInv, NEW r \in Requests, NEW kind \in DecisionKinds, Check(r, kind)
  PROVE  TypeInv' /\ DenseInv'
  <1> DEFINE t == [NoTx EXCEPT !.pc = "checked", !.kind = kind, !.todo = Announces(kind)]
  <1>1. t \in TxType /\ t.own = <<>> /\ ~t.unpublished /\ t.pc = "checked"
    BY AnnouncesTyped, NoTxTyped DEF TxType
  <1>2. tx' = [tx EXCEPT ![r] = t]
    BY DEF Check
  <1> HIDE DEF t
  <1>3. tx' \in [Requests -> TxType] /\ TxInv'
    BY <1>1, <1>2 DEF TypeInv, TxInv
  <1>4. TypeInv'
    BY <1>3 DEF TypeInv, Check, EmitInv, Does
  <1>5. \A q \in Requests : Numbers(tx'[q].own) = Numbers(tx[q].own) \/ Numbers(tx'[q].own) = {}
    BY <1>1, <1>2, NoNumbers DEF TypeInv
  <1>6. DenseInv'
    BY <1>5 DEF DenseInv, Check
  <1> QED BY <1>4, <1>6

(* set_status takes the row lock; no event is written yet. *)
LEMMA WriteBase ==
  ASSUME TypeInv, DenseInv, NEW r \in Requests, Write(r)
  PROVE  TypeInv' /\ DenseInv'
  <1>1. tx' \in [Requests -> TxType] /\ TxInv' /\ \A q \in Requests : tx'[q].own = tx[q].own
    BY DEF TypeInv, TxInv, Write, TxType
  <1>2. TypeInv'
    BY <1>1 DEF TypeInv, Write, EmitInv, Does
  <1> QED BY <1>1, <1>2 DEF DenseInv, Write

(* A transaction that appends sees its own rows. *)
LEMMA AppendEventMoves ==
  ASSUME TypeInv, DenseInv, NEW r \in Requests, AppendEvent(r)
  PROVE  \E e \in Events :
           /\ e.writer = r /\ e.sequence = next_sequence(tx[r].own)
           /\ tx' = [tx EXCEPT ![r] =
                 [tx[r] EXCEPT !.own = Append(@, e), !.todo = Tail(@), !.unpublished = TRUE]]
  <1> DEFINE e == Event(next_sequence(tx[r].own), Head(tx[r].todo), r)
  <1>1. next_sequence(tx[r].own) \in Nat \ {0}
    BY NextSequence DEF DenseInv
  <1>2. Head(tx[r].todo) \in EventTypes
    BY HeadTailProperties DEF TypeInv, TxType, AppendEvent
  <1>3. e \in Events /\ e.writer = r /\ e.sequence = next_sequence(tx[r].own)
    BY <1>1, <1>2, EventTyped
  <1>4. tx' = [tx EXCEPT ![r] =
                 [tx[r] EXCEPT !.own = Append(@, e), !.todo = Tail(@), !.unpublished = TRUE]]
    BY DEF AppendEvent
  <1> HIDE DEF e
  <1> QED BY <1>3, <1>4

(* A request adds an event: its number continues the committed ones and its own. *)
LEMMA AppendEventBase ==
  ASSUME TypeInv, DenseInv, NEW r \in Requests, AppendEvent(r)
  PROVE  TypeInv' /\ DenseInv'
  <1>1. PICK e \in Events :
           /\ e.writer = r /\ e.sequence = next_sequence(tx[r].own)
           /\ tx' = [tx EXCEPT ![r] =
                 [tx[r] EXCEPT !.own = Append(@, e), !.todo = Tail(@), !.unpublished = TRUE]]
    BY AppendEventMoves
  <1>2. tx[r] \in TxType /\ tx[r].pc = "open" /\ tx[r].todo # <<>>
    BY DEF TypeInv, AppendEvent
  <1>3. /\ Append(tx[r].own, e) \in Seq(Events) /\ Append(tx[r].own, e) # <<>>
        /\ Tail(tx[r].todo) \in Seq(EventTypes)
        /\ Numbers(Append(tx[r].own, e)) = Numbers(tx[r].own) \cup {e.sequence}
    BY <1>2, AppendProperties, HeadTailProperties, RowsAppend DEF TxType
  <1> DEFINE t == [tx[r] EXCEPT !.own = Append(@, e), !.todo = Tail(@), !.unpublished = TRUE]
  <1>t. t \in TxType /\ t.own = Append(tx[r].own, e) /\ t.pc = "open"
    BY <1>2, <1>3 DEF TxType
  <1>u. tx' = [tx EXCEPT ![r] = t]
    BY <1>1
  <1> HIDE DEF t
  <1>4. /\ tx' \in [Requests -> TxType] /\ TxInv'
        /\ tx'[r].own = Append(tx[r].own, e)
        /\ \A q \in Requests \ {r} : tx'[q] = tx[q]
    BY <1>3, <1>t, <1>u DEF TypeInv, TxInv
  <1>5. TypeInv'
    BY <1>4 DEF TypeInv, AppendEvent, EmitInv, Does
  <1>6. Dense((Numbers(task_events) \cup Numbers(tx[r].own)) \cup {e.sequence})
    BY <1>1, NextSequence DEF DenseInv
  <1>7. Numbers(task_events) \cup Numbers(tx'[r].own)
          = (Numbers(task_events) \cup Numbers(tx[r].own)) \cup {e.sequence}
    BY <1>3, <1>4
  <1>8. \A q \in Requests : Dense(Numbers(task_events) \cup Numbers(tx'[q].own))
    BY <1>4, <1>6, <1>7 DEF DenseInv
  <1>9. DenseInv'
    BY <1>8 DEF DenseInv, AppendEvent
  <1> QED BY <1>5, <1>9

(* A request publishes an event before it has committed it: no row changes. *)
LEMMA PublishEventBase ==
  ASSUME TypeInv, DenseInv, NEW r \in Requests, PublishEvent(r)
  PROVE  /\ TypeInv' /\ DenseInv'
         /\ tx[r].own[Len(tx[r].own)] \in Events \cap Rows(tx[r].own)
  <1>1. tx[r].own \in Seq(Events) /\ tx[r].own # <<>>
    BY DEF TypeInv, TxInv, TxType, PublishEvent
  <1>2. Len(tx[r].own) \in 1 .. Len(tx[r].own) /\ DOMAIN tx[r].own = 1 .. Len(tx[r].own)
    BY <1>1, EmptySeq, LenProperties
  <1>3. tx[r].own[Len(tx[r].own)] \in Events \cap Rows(tx[r].own)
    BY <1>1, <1>2, ElementOfSeq DEF Rows
  <1>4. stream' \in StreamType
    BY <1>3, PublishTyped DEF TypeInv, PublishEvent
  <1>5. tx' \in [Requests -> TxType] /\ TxInv' /\ \A q \in Requests : tx'[q].own = tx[q].own
    BY DEF TypeInv, TxInv, PublishEvent, TxType
  <1>6. TypeInv'
    BY <1>4, <1>5 DEF TypeInv, PublishEvent, EmitInv, Does
  <1>7. DenseInv'
    BY <1>5 DEF DenseInv, PublishEvent
  <1> QED BY <1>3, <1>6, <1>7

(* The end of a transaction, by commit or rollback. *)
LEMMA TxEnds ==
  ASSUME TypeInv, NEW r \in Requests, tx' = [tx EXCEPT ![r] = [NoTx EXCEPT !.pc = "done"]]
  PROVE  /\ tx' \in [Requests -> TxType] /\ TxInv'
         /\ tx'[r].own = <<>> /\ tx'[r].pc = "done"
         /\ \A q \in Requests \ {r} : tx'[q] = tx[q]
  <1>1. \A q \in Requests \ {r} : tx'[q] = tx[q]
    BY DEF TypeInv
  <1>2. tx'[r] = [NoTx EXCEPT !.pc = "done"]
    BY DEF TypeInv
  <1>3. tx' \in [Requests -> TxType]
    BY NoTxTyped DEF TypeInv
  <1>4. TxInv'
    BY <1>1, <1>2, NoTxTyped DEF TypeInv, TxInv
  <1> QED BY <1>1, <1>2, <1>3, <1>4, NoTxTyped

(* A request commits: its rows join the log. *)
LEMMA CommitBase ==
  ASSUME TypeInv, DenseInv, NEW r \in Requests, Commit(r)
  PROVE  TypeInv' /\ DenseInv'
  <1>1. tx[r].own \in Seq(Events) /\ tx[r].kind \in DecisionKinds
    BY DEF TypeInv, TxType
  <1>2. task_events' \in Seq(Events)
        /\ Numbers(task_events') = Numbers(task_events) \cup Numbers(tx[r].own)
    BY <1>1, ConcatProperties, RowsConcat DEF TypeInv, Commit
  <1>3. /\ tx' \in [Requests -> TxType] /\ TxInv' /\ tx'[r].own = <<>>
        /\ \A q \in Requests \ {r} : tx'[q] = tx[q]
    BY TxEnds DEF Commit
  <1>4. TypeInv'
    BY <1>1, <1>2, <1>3, AnnouncesTyped DEF TypeInv, Commit, EmitInv, Does
  <1>5. Dense(Numbers(task_events'))
    BY <1>2 DEF DenseInv
  <1>6. ASSUME NEW q \in Requests
        PROVE  Dense(Numbers(task_events') \cup Numbers(tx'[q].own))
    <2>1. CASE q = r
      BY <1>3, <1>5, <2>1, NoNumbers
    <2>2. CASE q # r
      BY <1>2, <1>3, <2>2, DenseUnion DEF DenseInv
    <2> QED BY <2>1, <2>2
  <1>7. ASSUME emitting.phase = "writing"
        PROVE  Dense(Numbers(task_events') \cup {emitting.event.sequence})
    BY <1>2, <1>7, DenseUnion DEF DenseInv
  <1> QED BY <1>4, <1>5, <1>6, <1>7 DEF DenseInv, Commit

(* A request rolls back: its rows are gone and the log stands. *)
LEMMA RollbackBase ==
  ASSUME TypeInv, DenseInv, NEW r \in Requests, Rollback(r)
  PROVE  TypeInv' /\ DenseInv'
  <1>1. /\ tx' \in [Requests -> TxType] /\ TxInv' /\ tx'[r].own = <<>>
        /\ \A q \in Requests \ {r} : tx'[q] = tx[q]
    BY TxEnds DEF Rollback
  <1>2. TypeInv'
    BY <1>1 DEF TypeInv, Rollback, EmitInv, Does
  <1>3. \A q \in Requests : Numbers(tx'[q].own) = Numbers(tx[q].own) \/ Numbers(tx'[q].own) = {}
    BY <1>1, NoNumbers
  <1>4. DenseInv'
    BY <1>3 DEF DenseInv, Rollback
  <1> QED BY <1>2, <1>4

-----------------------------------------------------------------------------
(* The handler of the browser *)

(* What a step of the handler leaves alone. *)
AsideFromStream == <<task_events, status, plan, emitting, tx, rollbacks>>

(* The handler writes no row, so it disturbs neither the log nor its numbers. *)
LEMMA HandlerBase ==
  ASSUME TypeInv, DenseInv, UNCHANGED AsideFromStream,
         stream' \in StreamType, got' \in Seq(Events)
  PROVE  TypeInv' /\ DenseInv'
  <1>1. TypeInv'
    BY DEF TypeInv, AsideFromStream, EmitInv, Does, TxInv
  <1>2. DenseInv'
    BY DEF DenseInv, AsideFromStream
  <1> QED BY <1>1, <1>2

(* events_since selects committed rows above ?after. *)
LEMMA ConnectMoves ==
  ASSUME TypeInv, Connect
  PROVE  /\ UNCHANGED AsideFromStream /\ got' = got /\ stream' \in StreamType
         /\ stream'.pc = "rows" /\ stream'.highest = stream.highest
         /\ stream'.inbox = stream.inbox
         /\ stream'.replay = {e \in Rows(task_events) : e.sequence > stream.highest}
  <1> DEFINE new == {e \in Rows(task_events) : e.sequence > stream.highest}
  <1>1. Rows(task_events) \subseteq Events
    BY ElementOfSeq, LenProperties DEF Rows, TypeInv
  <1>2. new \in SUBSET Events
    BY <1>1
  <1>3. stream' = [stream EXCEPT !.pc = "rows", !.replay = new]
    BY DEF Connect
  <1> HIDE DEF new
  <1>4. /\ stream' \in StreamType /\ stream'.pc = "rows" /\ stream'.replay = new
        /\ stream'.highest = stream.highest /\ stream'.inbox = stream.inbox
    BY <1>2, <1>3 DEF TypeInv, StreamType
  <1> QED BY <1>4 DEF Connect, AsideFromStream, new

(* Reading the status, the end of the replay and the subscription deliver
   nothing. *)
LEMMA QuietMoves ==
  ASSUME TypeInv, ReadStatus \/ ReplayEnds \/ Subscribe
  PROVE  /\ UNCHANGED AsideFromStream /\ got' = got /\ stream' \in StreamType
         /\ stream'.highest = stream.highest /\ stream'.inbox = stream.inbox
         /\ stream'.replay = stream.replay
         /\ stream'.pc = "replay" \/ stream'.replay = {} \/ stream.pc = "replayed"
  <1>1. CASE ReadStatus
    <2> DEFINE f == status \in SETTLED_STATUSES
    <2>1. f \in BOOLEAN
      OBVIOUS
    <2>2. stream' = [stream EXCEPT !.pc = "replay", !.finished = f]
      BY <1>1 DEF ReadStatus
    <2> HIDE DEF f
    <2> QED BY <1>1, <2>1, <2>2 DEF ReadStatus, TypeInv, StreamType, AsideFromStream
  <1>2. CASE ReplayEnds
    BY <1>2 DEF ReplayEnds, TypeInv, StreamType, AsideFromStream
  <1>3. CASE Subscribe
    BY <1>3 DEF Subscribe, TypeInv, StreamType, AsideFromStream
  <1> QED BY <1>1, <1>2, <1>3

(* The replay delivers a row of the lowest number that is left. *)
LEMMA YieldRowMoves ==
  ASSUME TypeInv, YieldRow
  PROVE  /\ UNCHANGED AsideFromStream /\ stream' \in StreamType
         /\ stream.pc = "replay" /\ stream'.pc = "replay" /\ stream'.inbox = stream.inbox
         /\ \E row \in stream.replay :
              /\ row \in Events /\ got' = Append(got, row)
              /\ \A other \in stream.replay : row.sequence <= other.sequence
              /\ stream'.replay = stream.replay \ {row}
              /\ stream'.highest = row.sequence
  <1>1. PICK row \in stream.replay :
              /\ \A other \in stream.replay : row.sequence <= other.sequence
              /\ got' = Append(got, row)
              /\ stream' = [stream EXCEPT !.replay = @ \ {row}, !.highest = row.sequence]
    BY DEF YieldRow
  <1>2. row \in Events /\ row.sequence \in Nat /\ stream.replay \in SUBSET Events
    BY DEF TypeInv, StreamType, Events
  <1>3. /\ stream' \in StreamType /\ stream'.replay = stream.replay \ {row}
        /\ stream'.highest = row.sequence /\ stream'.pc = stream.pc /\ stream'.inbox = stream.inbox
    BY <1>1, <1>2 DEF TypeInv, StreamType
  <1> QED BY <1>1, <1>2, <1>3 DEF YieldRow, AsideFromStream

(* A turn of the loop delivers the head of the inbox if it is above highest,
   and otherwise drops it. *)
LEMMA DeliverMoves ==
  ASSUME TypeInv, Deliver
  PROVE  /\ UNCHANGED AsideFromStream /\ stream' \in StreamType
         /\ stream.pc = "live" /\ stream'.replay = stream.replay
         /\ stream'.pc \in {"live", "ended"}
         /\ Rows(stream'.inbox) \subseteq Rows(stream.inbox)
         /\ \/ got' = got /\ stream'.highest = stream.highest
            \/ \E event \in Rows(stream.inbox) :
                 /\ event \in Events /\ event.sequence > stream.highest
                 /\ got' = Append(got, event) /\ stream'.highest = event.sequence
  <1> DEFINE event == Head(stream.inbox)
             fresh == event.sequence > stream.highest
             looks == fresh /\ event.type \in EndingTypes
             current == IF stream.current = "unread" THEN status ELSE stream.current
             ends == looks /\ current \in SETTLED_STATUSES
             inbox == IF ends THEN <<>> ELSE Tail(stream.inbox)
             highest == IF fresh THEN event.sequence ELSE stream.highest
             seen == IF ends THEN "unread" ELSE IF looks THEN current ELSE stream.current
             pc == IF ends THEN "ended" ELSE stream.pc
  <1>1. stream.inbox \in Seq(Events) /\ stream.inbox # <<>> /\ stream \in StreamType
    BY DEF TypeInv, StreamType, Deliver
  <1>2. /\ event = stream.inbox[1] /\ Tail(stream.inbox) \in Seq(Events)
        /\ 1 \in DOMAIN stream.inbox /\ DOMAIN stream.inbox = 1 .. Len(stream.inbox)
        /\ Len(stream.inbox) \in Nat /\ Len(Tail(stream.inbox)) = Len(stream.inbox) - 1
        /\ \A i \in 1 .. Len(Tail(stream.inbox)) : Tail(stream.inbox)[i] = stream.inbox[i + 1]
        /\ DOMAIN Tail(stream.inbox) = 1 .. Len(Tail(stream.inbox))
    BY <1>1, HeadTailProperties, EmptySeq, LenProperties
  <1>3. event \in Rows(stream.inbox) /\ event \in Events /\ event.sequence \in Nat
    <2>1. event \in Rows(stream.inbox)
      BY <1>2 DEF Rows
    <2>2. event \in Events
      BY <1>1, <1>2, ElementOfSeq
    <2> QED BY <2>1, <2>2 DEF Events
  <1>4. Rows(Tail(stream.inbox)) \subseteq Rows(stream.inbox)
    BY <1>2 DEF Rows
  <1>5. /\ inbox \in Seq(Events) /\ Rows(inbox) \subseteq Rows(stream.inbox)
    BY <1>2, <1>4, EmptySeq, NoNumbers
  <1>6. highest \in Nat /\ seen \in AllStatuses \cup {"unread"} /\ pc \in {"live", "ended"}
    BY <1>1, <1>3 DEF StreamType, TypeInv, Deliver
  <1>7. stream' = [stream EXCEPT !.inbox = inbox, !.highest = highest, !.current = seen, !.pc = pc]
    BY DEF Deliver
  <1>8. got' = IF fresh THEN Append(got, event) ELSE got
    BY DEF Deliver
  <1>9. \/ got' = got /\ highest = stream.highest
        \/ event.sequence > stream.highest /\ got' = Append(got, event) /\ highest = event.sequence
    BY <1>8
  <1>10. UNCHANGED AsideFromStream /\ stream.pc = "live"
    BY DEF Deliver, AsideFromStream
  <1> HIDE DEF inbox, highest, seen, pc, event
  <1>11. /\ stream' \in StreamType /\ stream'.inbox = inbox /\ stream'.highest = highest
         /\ stream'.pc = pc /\ stream'.replay = stream.replay
    BY <1>1, <1>5, <1>6, <1>7 DEF StreamType
  <1> QED BY <1>3, <1>5, <1>6, <1>9, <1>10, <1>11

(* A dropped connection leaves the browser what it has received. *)
LEMMA DisconnectMoves ==
  ASSUME TypeInv, Disconnect
  PROVE  /\ UNCHANGED AsideFromStream /\ got' = got /\ stream' \in StreamType
         /\ stream'.highest = stream.highest /\ stream'.inbox = <<>> /\ stream'.replay = {}
  <1>1. <<>> \in Seq(Events)
    BY EmptySeq
  <1>2. /\ stream' \in StreamType /\ stream'.highest = stream.highest
        /\ stream'.inbox = <<>> /\ stream'.replay = {}
    <2> DEFINE f == FALSE
               u == "unread"
               d == stream.drops + 1
    <2>1. f \in BOOLEAN /\ u \in AllStatuses \cup {"unread"} /\ d \in Nat
      BY DEF TypeInv, StreamType
    <2>2. stream' = [stream EXCEPT !.pc = "off", !.replay = {}, !.inbox = <<>>,
                                   !.finished = f, !.current = u, !.drops = d]
      BY DEF Disconnect
    <2> HIDE DEF f, u, d
    <2> QED BY <1>1, <2>1, <2>2 DEF TypeInv, StreamType
  <1> QED BY <1>2 DEF Disconnect, AsideFromStream

(* Every step keeps the types and the numbering. *)
LEMMA NextBase == TypeInv /\ DenseInv /\ [Next]_vars => TypeInv' /\ DenseInv'
  <1> SUFFICES ASSUME TypeInv, DenseInv, [Next]_vars PROVE TypeInv' /\ DenseInv'
    OBVIOUS
  <1>1. CASE WorkerStep
    BY <1>1, EmitSelectBase, EmitCommitBase, EmitPublishBase, SetStatusBase DEF WorkerStep
  <1>2. ASSUME NEW r \in Requests, RequestStep(r) \/ Rollback(r) PROVE TypeInv' /\ DenseInv'
    BY <1>2, WriteBase, AppendEventBase, PublishEventBase, CommitBase, RollbackBase DEF RequestStep
  <1>3. ASSUME NEW r \in Requests, NEW kind \in DecisionKinds, Check(r, kind)
        PROVE  TypeInv' /\ DenseInv'
    BY <1>3, CheckBase
  <1>4. CASE Handler
    <2>1. CASE Connect
      BY <2>1, ConnectMoves, HandlerBase DEF TypeInv
    <2>2. CASE ReadStatus \/ ReplayEnds \/ Subscribe
      BY <2>2, QuietMoves, HandlerBase DEF TypeInv
    <2>3. CASE YieldRow
      <3>1. PICK row \in Events : got' = Append(got, row)
        BY <2>3, YieldRowMoves
      <3>2. got' \in Seq(Events)
        BY <3>1, AppendProperties DEF TypeInv
      <3> QED BY <2>3, <3>2, YieldRowMoves, HandlerBase
    <2>4. CASE Deliver
      <3>1. got' = got \/ \E event \in Events : got' = Append(got, event)
        BY <2>4, DeliverMoves
      <3>2. got' \in Seq(Events)
        BY <3>1, AppendProperties DEF TypeInv
      <3> QED BY <2>4, <3>2, DeliverMoves, HandlerBase
    <2> QED BY <1>4, <2>1, <2>2, <2>3, <2>4 DEF Handler
  <1>5. CASE Disconnect
    BY <1>5, DisconnectMoves, HandlerBase DEF TypeInv
  <1>6. CASE UNCHANGED vars
    <2>1. TypeInv'
      BY <1>6 DEF TypeInv, vars, EmitInv, Does, TxInv
    <2>2. DenseInv'
      BY <1>6 DEF DenseInv, vars
    <2> QED BY <2>1, <2>2
  <1> QED BY <1>1, <1>2, <1>3, <1>4, <1>5, <1>6 DEF Next

(* The types and the numbering hold throughout. *)
LEMMA BaseAlways == Spec => [](TypeInv /\ DenseInv)
  BY InitBase, NextBase, PTL DEF Spec

(* The variables keep their types, whatever the worker, the requests and the
   browser interleave. *)
THEOREM TypeCorrect == Spec => []TypeOK
  <1>1. TypeInv => TypeOK
    BY DEF TypeInv, TypeOK, EmitInv, EmitType, TxType, StreamType, AllStatuses
  <1> QED BY <1>1, BaseAlways, PTL

-----------------------------------------------------------------------------
(* What the browser receives *)

(* The browser has received nothing above highest, and nothing of what the
   replay has still to give, which lies above all it has received. *)
DeliveryInv ==
  /\ NoDuplicateDelivery
  /\ \A i \in DOMAIN got : got[i].sequence <= stream.highest
  /\ \A e \in stream.replay : \A i \in DOMAIN got :
       got[i] # e /\ got[i].sequence <= e.sequence
  /\ stream.pc \notin {"rows", "replay"} => stream.replay = {}

(* One more event, not below the others, keeps the order. *)
LEMMA OneMore ==
  ASSUME TypeInv, DeliveryInv, NEW e \in Events, got' = Append(got, e),
         \A i \in DOMAIN got : got[i] # e /\ got[i].sequence <= e.sequence
  PROVE  /\ NoDuplicateDelivery'
         /\ \A i \in DOMAIN got' : got'[i].sequence <= e.sequence
         /\ \A i \in DOMAIN got' : got'[i] = e \/ \E k \in DOMAIN got : got'[i] = got[k]
  <1>1. /\ DOMAIN got = 1 .. Len(got) /\ Len(got) \in Nat
        /\ DOMAIN got' = 1 .. Len(got) + 1
        /\ \A i \in 1 .. Len(got) : got'[i] = got[i]
        /\ got'[Len(got) + 1] = e
    BY AppendProperties, LenProperties DEF TypeInv
  <1>2. e.sequence \in Nat
    BY DEF Events
  <1> QED BY <1>1, <1>2 DEF DeliveryInv, NoDuplicateDelivery

(* Steps that neither deliver nor touch the replay. *)
LEMMA DeliveryAside ==
  ASSUME DeliveryInv, got' = got, stream'.highest = stream.highest,
         stream'.replay = stream.replay,
         stream'.pc \notin {"rows", "replay"} => stream.replay = {}
  PROVE  DeliveryInv'
  BY DEF DeliveryInv, NoDuplicateDelivery

(* Each delivery is above what came before it. *)
LEMMA NextDelivery == TypeInv /\ DeliveryInv /\ DenseInv /\ [Next]_vars => DeliveryInv'
  <1> SUFFICES ASSUME TypeInv, DenseInv, DeliveryInv, [Next]_vars PROVE DeliveryInv'
    OBVIOUS
  <1>1. ASSUME NEW e \in Events, Publish(e), got' = got PROVE DeliveryInv'
    <2>1. /\ stream'.pc = stream.pc /\ stream'.replay = stream.replay
          /\ stream'.highest = stream.highest
      BY <1>1, PublishTyped DEF TypeInv
    <2> QED BY <1>1, <2>1, DeliveryAside DEF DeliveryInv
  <1>2. ASSUME stream' = stream, got' = got PROVE DeliveryInv'
    BY <1>2, DeliveryAside DEF DeliveryInv
  <1>3. CASE WorkerStep
    <2>1. CASE EmitPublish
      <3>1. emitting.event \in Events
        BY <2>1 DEF EmitPublish, TypeInv, EmitInv
      <3> QED BY <1>1, <2>1, <3>1 DEF EmitPublish
    <2> QED BY <1>2, <1>3, <2>1 DEF WorkerStep, EmitSelect, EmitCommit, SetStatus
  <1>4. ASSUME NEW r \in Requests, RequestStep(r) \/ Rollback(r) PROVE DeliveryInv'
    <2>1. CASE PublishEvent(r)
      BY <1>1, <2>1, PublishEventBase DEF PublishEvent
    <2> QED BY <1>2, <1>4, <2>1 DEF RequestStep, Write, AppendEvent, Commit, Rollback
  <1>5. ASSUME NEW r \in Requests, NEW kind \in DecisionKinds, Check(r, kind)
        PROVE  DeliveryInv'
    BY <1>2, <1>5 DEF Check
  <1>6. CASE Connect
    <2>1. \A i \in DOMAIN got : got[i].sequence \in Nat
      BY ElementsNumbered DEF TypeInv
    <2>2. \A e \in stream'.replay : e.sequence > stream.highest /\ e.sequence \in Nat
      <3>1. stream'.replay \subseteq Events
        BY <1>6, ConnectMoves DEF StreamType
      <3> QED BY <1>6, <3>1, ConnectMoves DEF Events
    <2>3. stream.highest \in Nat
      BY DEF TypeInv, StreamType
    <2>4. \A e \in stream'.replay : \A i \in DOMAIN got :
            got[i].sequence < e.sequence /\ got[i] # e
      BY <2>1, <2>2, <2>3 DEF DeliveryInv
    <2>5. \A e \in stream'.replay : \A i \in DOMAIN got :
            got[i].sequence <= e.sequence /\ got[i] # e
      BY <2>1, <2>2, <2>4
    <2> QED BY <1>6, <2>5, ConnectMoves DEF DeliveryInv, NoDuplicateDelivery
  <1>7. CASE ReadStatus \/ ReplayEnds \/ Subscribe
    BY <1>7, QuietMoves, DeliveryAside DEF DeliveryInv
  <1>8. CASE YieldRow
    <2>1. PICK row \in stream.replay :
              /\ row \in Events /\ got' = Append(got, row)
              /\ \A other \in stream.replay : row.sequence <= other.sequence
              /\ stream'.replay = stream.replay \ {row}
              /\ stream'.highest = row.sequence
      BY <1>8, YieldRowMoves
    <2>2. \A i \in DOMAIN got : got[i] # row /\ got[i].sequence <= row.sequence
      BY <2>1 DEF DeliveryInv
    <2>3. /\ NoDuplicateDelivery'
          /\ \A i \in DOMAIN got' : got'[i].sequence <= row.sequence
          /\ \A i \in DOMAIN got' : got'[i] = row \/ \E k \in DOMAIN got : got'[i] = got[k]
      BY <2>1, <2>2, OneMore
    <2>4. \A e \in stream'.replay : \A i \in DOMAIN got' :
            got'[i] # e /\ got'[i].sequence <= e.sequence
      BY <2>1, <2>3 DEF DeliveryInv
    <2>5. stream'.pc = "replay"
      BY <1>8, YieldRowMoves
    <2> QED BY <2>1, <2>3, <2>4, <2>5 DEF DeliveryInv
  <1>9. CASE Deliver
    <2>1. /\ stream'.replay = {} /\ stream.replay = {}
      BY <1>9, DeliverMoves DEF DeliveryInv
    <2>2. CASE got' = got /\ stream'.highest = stream.highest
      BY <2>1, <2>2, DeliveryAside
    <2>3. ASSUME NEW event \in Events, event.sequence > stream.highest,
                 got' = Append(got, event), stream'.highest = event.sequence
          PROVE  DeliveryInv'
      <3>1. \A i \in DOMAIN got : got[i].sequence \in Nat
        BY ElementsNumbered DEF TypeInv
      <3>2. event.sequence \in Nat /\ stream.highest \in Nat
        BY DEF TypeInv, StreamType, Events
      <3>3. \A i \in DOMAIN got : got[i].sequence < event.sequence
        BY <2>3, <3>1, <3>2 DEF DeliveryInv
      <3>4. \A i \in DOMAIN got : got[i] # event /\ got[i].sequence <= event.sequence
        BY <3>1, <3>2, <3>3
      <3>5. /\ NoDuplicateDelivery'
            /\ \A i \in DOMAIN got' : got'[i].sequence <= event.sequence
        BY <2>3, <3>4, OneMore
      <3> QED BY <2>1, <2>3, <3>5 DEF DeliveryInv
    <2> QED BY <1>9, <2>2, <2>3, DeliverMoves
  <1>10. CASE Disconnect
    BY <1>10, DisconnectMoves DEF DeliveryInv, NoDuplicateDelivery
  <1>11. CASE UNCHANGED vars
    BY <1>2, <1>11 DEF vars
  <1> QED BY <1>3, <1>4, <1>5, <1>6, <1>7, <1>8, <1>9, <1>10, <1>11 DEF Next, Handler

(* Over all its connections a browser receives no event twice and none out of
   order, however the log, the bus and the drops interleave. *)
THEOREM DeliveryOnce == Spec => []NoDuplicateDelivery
  <1>1. Init => DeliveryInv
    BY DEF Init, DeliveryInv, NoDuplicateDelivery
  <1>2. DeliveryInv => NoDuplicateDelivery
    BY DEF DeliveryInv
  <1> QED BY <1>1, <1>2, NextDelivery, BaseAlways, PTL DEF Spec

-----------------------------------------------------------------------------
(* What the browser shows *)

Durable == Rows(task_events) \cup UNION {Rows(tx[r].own) : r \in Requests}

(* Unless a transaction rolled back, what was received, what the replay will
   give and what waits in the inbox is durable; the worker publishes what it
   has committed. *)
DurableInv ==
  /\ rollbacks = 0 => Rows(got) \cup stream.replay \cup Rows(stream.inbox) \subseteq Durable
  /\ emitting.phase = "publishing" => emitting.event \in Rows(task_events)

(* Durable rows stay durable: only a rollback loses any. *)
LEMMA DurableGrows ==
  ASSUME TypeInv, DenseInv, [Next]_vars
  PROVE  /\ rollbacks' = rollbacks => Durable \subseteq Durable'
         /\ Rows(task_events) \subseteq Rows(task_events')
         /\ rollbacks' # 0 \/ rollbacks' = rollbacks
  <1>1. ASSUME task_events' = task_events, tx' = tx PROVE Durable' = Durable
    BY <1>1 DEF Durable
  <1>2. ASSUME task_events' = task_events,
               \A r \in Requests : Rows(tx[r].own) \subseteq Rows(tx'[r].own)
        PROVE  Durable \subseteq Durable'
    BY <1>2 DEF Durable
  <1>3. CASE EmitCommit
    <2>1. Rows(task_events) \subseteq Rows(task_events')
      BY <1>3, RowsAppend DEF TypeInv, EmitCommit, EmitInv
    <2> QED BY <1>3, <2>1 DEF Durable, EmitCommit
  <1>4. CASE EmitSelect \/ EmitPublish \/ SetStatus \/ Handler \/ Disconnect \/ UNCHANGED vars
    BY <1>1, <1>4 DEF EmitSelect, EmitPublish, SetStatus, Handler, Connect, ReadStatus, YieldRow,
       ReplayEnds, Subscribe, Deliver, Disconnect, vars
  <1>5. ASSUME NEW r \in Requests, Write(r) \/ PublishEvent(r)
        PROVE  /\ Durable \subseteq Durable' /\ rollbacks' = rollbacks /\ task_events' = task_events
    <2>1. \A q \in Requests : tx'[q].own = tx[q].own
      <3>1. CASE Write(r)
        BY <3>1 DEF Write, TypeInv, TxType
      <3>2. CASE PublishEvent(r)
        BY <3>2 DEF PublishEvent, TypeInv, TxType
      <3> QED BY <1>5, <3>1, <3>2
    <2>2. \A q \in Requests : Rows(tx[q].own) \subseteq Rows(tx'[q].own)
      BY <2>1
    <2>3. task_events' = task_events /\ rollbacks' = rollbacks
      BY <1>5 DEF Write, PublishEvent
    <2> QED BY <1>2, <2>2, <2>3
  <1>6. ASSUME NEW r \in Requests, AppendEvent(r)
        PROVE  /\ Durable \subseteq Durable' /\ rollbacks' = rollbacks /\ task_events' = task_events
    <2>1. PICK e \in Events : tx' = [tx EXCEPT ![r] =
                 [tx[r] EXCEPT !.own = Append(@, e), !.todo = Tail(@), !.unpublished = TRUE]]
      BY <1>6, AppendEventMoves
    <2>2. tx'[r].own = Append(tx[r].own, e) /\ \A q \in Requests \ {r} : tx'[q] = tx[q]
      BY <2>1 DEF TypeInv, TxType
    <2>3. Rows(tx[r].own) \subseteq Rows(tx'[r].own)
      BY <2>2, RowsAppend DEF TypeInv, TxType
    <2>4. \A q \in Requests : Rows(tx[q].own) \subseteq Rows(tx'[q].own)
      BY <2>2, <2>3
    <2>5. task_events' = task_events /\ rollbacks' = rollbacks
      BY <1>6 DEF AppendEvent
    <2> QED BY <1>2, <2>4, <2>5
  <1>7. ASSUME NEW r \in Requests, Commit(r)
        PROVE  /\ Durable \subseteq Durable' /\ rollbacks' = rollbacks
               /\ Rows(task_events) \subseteq Rows(task_events')
    <2>1. \A q \in Requests \ {r} : tx'[q] = tx[q]
      BY <1>7, TxEnds DEF Commit
    <2>2. Rows(task_events') = Rows(task_events) \cup Rows(tx[r].own)
      BY <1>7, RowsConcat DEF TypeInv, TxType, Commit
    <2>3. ASSUME NEW e \in Durable PROVE e \in Durable'
      <3>1. CASE e \in Rows(task_events)
        BY <2>2, <3>1 DEF Durable
      <3>2. ASSUME NEW q \in Requests, e \in Rows(tx[q].own) PROVE e \in Durable'
        BY <2>1, <2>2, <3>2 DEF Durable
      <3> QED BY <2>3, <3>1, <3>2 DEF Durable
    <2> QED BY <1>7, <2>2, <2>3 DEF Commit
  <1>8. ASSUME NEW r \in Requests, Rollback(r)
        PROVE  /\ rollbacks' # 0 /\ rollbacks' # rollbacks /\ task_events' = task_events
    BY <1>8 DEF Rollback, TypeInv
  <1>9. ASSUME NEW r \in Requests, NEW kind \in DecisionKinds, Check(r, kind)
        PROVE  /\ Durable \subseteq Durable' /\ rollbacks' = rollbacks /\ task_events' = task_events
    <2>1. tx[r].own = <<>>
      BY <1>9 DEF Check, TypeInv, TxInv
    <2>2. \A q \in Requests \ {r} : tx'[q] = tx[q]
      BY <1>9 DEF Check, TypeInv
    <2>3. \A q \in Requests : Rows(tx[q].own) \subseteq Rows(tx'[q].own)
      BY <2>1, <2>2, NoNumbers
    <2>4. task_events' = task_events /\ rollbacks' = rollbacks
      BY <1>9 DEF Check
    <2> QED BY <1>2, <2>3, <2>4
  <1> QED BY <1>3, <1>4, <1>5, <1>6, <1>7, <1>8, <1>9 DEF Next, WorkerStep, RequestStep

(* What comes to the browser comes from the log, from an open transaction, or
   was already on its way. *)
LEMMA ArrivalsAreDurable ==
  ASSUME TypeInv, DenseInv, DurableInv, [Next]_vars
  PROVE  Rows(got') \cup stream'.replay \cup Rows(stream'.inbox)
           \subseteq Rows(got) \cup stream.replay \cup Rows(stream.inbox) \cup Durable
  <1> DEFINE Coming == Rows(got) \cup stream.replay \cup Rows(stream.inbox)
             ComingNext == Rows(got') \cup stream'.replay \cup Rows(stream'.inbox)
  <1> SUFFICES ComingNext \subseteq Coming \cup Durable
    OBVIOUS
  <1>1. ASSUME NEW e \in Events \cap Durable, Publish(e), got' = got
        PROVE  ComingNext \subseteq Coming \cup Durable
    <2>1. stream'.replay = stream.replay /\ Rows(stream'.inbox) \subseteq Rows(stream.inbox) \cup {e}
      BY <1>1, PublishTyped DEF TypeInv
    <2> QED BY <1>1, <2>1
  <1>2. ASSUME stream' = stream, got' = got PROVE ComingNext \subseteq Coming \cup Durable
    BY <1>2
  <1>3. CASE WorkerStep
    <2>1. CASE EmitPublish
      <3>1. emitting.event \in Events /\ emitting.event \in Rows(task_events)
        BY <2>1 DEF EmitPublish, TypeInv, EmitInv, DurableInv
      <3>2. emitting.event \in Events \cap Durable
        BY <3>1 DEF Durable
      <3> QED BY <1>1, <2>1, <3>2 DEF EmitPublish
    <2> QED BY <1>2, <1>3, <2>1 DEF WorkerStep, EmitSelect, EmitCommit, SetStatus
  <1>4. ASSUME NEW r \in Requests, RequestStep(r) \/ Rollback(r)
        PROVE  ComingNext \subseteq Coming \cup Durable
    <2>1. CASE PublishEvent(r)
      <3>1. tx[r].own[Len(tx[r].own)] \in Events \cap Durable
        BY <2>1, PublishEventBase DEF Durable
      <3> QED BY <1>1, <2>1, <3>1 DEF PublishEvent
    <2> QED BY <1>2, <1>4, <2>1 DEF RequestStep, Write, AppendEvent, Commit, Rollback
  <1>5. ASSUME NEW r \in Requests, NEW kind \in DecisionKinds, Check(r, kind)
        PROVE  ComingNext \subseteq Coming \cup Durable
    BY <1>2, <1>5 DEF Check
  <1>6. CASE Connect
    BY <1>6, ConnectMoves DEF Durable
  <1>7. CASE ReadStatus \/ ReplayEnds \/ Subscribe
    BY <1>7, QuietMoves
  <1>8. CASE YieldRow
    <2>1. PICK row \in stream.replay :
              /\ row \in Events /\ got' = Append(got, row)
              /\ stream'.replay = stream.replay \ {row}
      BY <1>8, YieldRowMoves
    <2>2. Rows(got') = Rows(got) \cup {row}
      BY <2>1, RowsAppend DEF TypeInv
    <2> QED BY <1>8, <2>1, <2>2, YieldRowMoves
  <1>9. CASE Deliver
    <2>1. Rows(got') \subseteq Rows(got) \cup Rows(stream.inbox)
      <3>1. CASE got' = got
        BY <3>1
      <3>2. ASSUME NEW event \in Rows(stream.inbox), event \in Events, got' = Append(got, event)
            PROVE  Rows(got') \subseteq Rows(got) \cup Rows(stream.inbox)
        BY <3>2, RowsAppend DEF TypeInv
      <3> QED BY <1>9, <3>1, <3>2, DeliverMoves
    <2> QED BY <1>9, <2>1, DeliverMoves
  <1>10. CASE Disconnect
    BY <1>10, DisconnectMoves, NoNumbers
  <1>11. CASE UNCHANGED vars
    BY <1>2, <1>11 DEF vars
  <1> QED BY <1>3, <1>4, <1>5, <1>6, <1>7, <1>8, <1>9, <1>10, <1>11 DEF Next, Handler

(* The worker commits before it publishes. *)
LEMMA PublishesCommitted ==
  ASSUME TypeInv, DenseInv, DurableInv, [Next]_vars
  PROVE  emitting'.phase = "publishing" => emitting'.event \in Rows(task_events')
  <1>1. CASE EmitCommit
    <2>1. emitting'.event = emitting.event /\ emitting.event \in Events
      BY <1>1 DEF EmitCommit, TypeInv, EmitInv, EmitType
    <2> QED BY <1>1, <2>1, RowsAppend DEF EmitCommit, TypeInv
  <1>2. CASE EmitSelect \/ EmitPublish
    BY <1>2 DEF EmitSelect, EmitPublish, Idle
  <1>3. ASSUME emitting' = emitting
        PROVE  emitting'.phase = "publishing" => emitting'.event \in Rows(task_events')
    BY <1>3, DurableGrows DEF DurableInv
  <1> QED BY <1>1, <1>2, <1>3 DEF Next, WorkerStep, SetStatus, RequestStep, Write, AppendEvent,
       PublishEvent, Commit, Rollback, Check, Handler, Connect, ReadStatus, YieldRow, ReplayEnds,
       Subscribe, Deliver, Disconnect, vars

(* What the browser shows is a committed row or one of a transaction still
   open, as long as no transaction rolled back, although the requests publish
   before they commit. *)
THEOREM ShownDurable == Spec => []ShownIsDurable
  <1>1. Init => DurableInv
    <2> SUFFICES ASSUME Init PROVE DurableInv
      OBVIOUS
    <2> QED BY NoNumbers DEF Init, DurableInv, Idle
  <1>2. TypeInv /\ DenseInv /\ DurableInv /\ [Next]_vars => DurableInv'
    <2> SUFFICES ASSUME TypeInv, DenseInv, DurableInv, [Next]_vars PROVE DurableInv'
      OBVIOUS
    <2>1. ASSUME rollbacks' = 0
          PROVE  Rows(got') \cup stream'.replay \cup Rows(stream'.inbox) \subseteq Durable'
      <3>1. rollbacks = 0 /\ Durable \subseteq Durable'
        BY <2>1, DurableGrows
      <3> QED BY <3>1, ArrivalsAreDurable DEF DurableInv
    <2> QED BY <2>1, PublishesCommitted DEF DurableInv
  <1>3. DurableInv => ShownIsDurable
    BY DEF DurableInv, ShownIsDurable, Durable
  <1> QED BY <1>1, <1>2, <1>3, BaseAlways, PTL DEF Spec

-----------------------------------------------------------------------------
(* The order of the log *)

(* The rows of one writer rise; the row that the worker is about to commit is
   above its earlier ones; a request has rows in the log only when it is done,
   and its open transaction holds rising rows of its own. *)
WriterInv ==
  /\ \A i, j \in DOMAIN task_events :
       (i < j /\ task_events[i].writer = task_events[j].writer) =>
         task_events[i].sequence < task_events[j].sequence
  /\ emitting.phase = "writing" =>
       \A i \in DOMAIN task_events :
         task_events[i].writer = Worker => task_events[i].sequence < emitting.event.sequence
  /\ \A r \in Requests :
       tx[r].pc # "done" => \A i \in DOMAIN task_events : task_events[i].writer # r
  /\ \A r \in Requests : \A i \in DOMAIN tx[r].own : tx[r].own[i].writer = r
  /\ \A r \in Requests : \A i, j \in DOMAIN tx[r].own :
       i < j => tx[r].own[i].sequence < tx[r].own[j].sequence

(* Steps that leave the log, the worker's row and the transactions alone. *)
LEMMA WriterAside ==
  ASSUME WriterInv, task_events' = task_events, tx' = tx,
         emitting' = emitting \/ emitting'.phase # "writing"
  PROVE  WriterInv'
  BY DEF WriterInv

(* The worker reads a number above all that is committed. *)
LEMMA EmitSelectWriter ==
  ASSUME TypeInv, DenseInv, WriterInv, EmitSelect
  PROVE  WriterInv'
  <1>1. \A k \in Numbers(task_events) : k < next_sequence(<<>>)
    BY NextSequence, NoNumbers DEF DenseInv
  <1>2. \A i \in DOMAIN task_events : task_events[i].sequence < next_sequence(<<>>)
    BY <1>1 DEF Numbers
  <1>3. emitting'.event.sequence = next_sequence(<<>>) /\ task_events' = task_events /\ tx' = tx
    BY DEF EmitSelect, Event
  <1> QED BY <1>2, <1>3 DEF WriterInv

(* The worker appends above its own rows. *)
LEMMA EmitCommitWriter ==
  ASSUME TypeInv, DenseInv, WriterInv, EmitCommit
  PROVE  WriterInv'
  <1> DEFINE e == emitting.event
  <1>1. e \in Events /\ e.writer = Worker /\ emitting.phase = "writing"
    BY DEF TypeInv, EmitInv, EmitCommit
  <1>2. /\ DOMAIN task_events = 1 .. Len(task_events) /\ Len(task_events) \in Nat
        /\ DOMAIN task_events' = 1 .. Len(task_events) + 1
        /\ \A i \in 1 .. Len(task_events) : task_events'[i] = task_events[i]
        /\ task_events'[Len(task_events) + 1] = e
    BY <1>1, AppendProperties, LenProperties DEF TypeInv, EmitCommit
  <1>3. tx' = tx /\ emitting'.phase = "publishing"
    BY DEF EmitCommit, TypeInv, EmitType
  <1> HIDE DEF e
  <1>4. \A i, j \in DOMAIN task_events' :
          (i < j /\ task_events'[i].writer = task_events'[j].writer) =>
            task_events'[i].sequence < task_events'[j].sequence
    <2>1. \A i \in DOMAIN task_events :
            task_events[i].writer = Worker => task_events[i].sequence < e.sequence
      BY <1>1 DEF WriterInv, e
    <2> QED BY <1>1, <1>2, <2>1 DEF WriterInv
  <1>5. \A r \in Requests : tx[r].pc # "done" =>
          \A i \in DOMAIN task_events' : task_events'[i].writer # r
    BY <1>1, <1>2, WritersDiffer DEF WriterInv
  <1> QED BY <1>3, <1>4, <1>5 DEF WriterInv

(* A transaction appends above the rows it already has. *)
LEMMA AppendEventWriter ==
  ASSUME TypeInv, DenseInv, WriterInv, NEW r \in Requests, AppendEvent(r)
  PROVE  WriterInv'
  <1>1. PICK e \in Events :
           /\ e.writer = r /\ e.sequence = next_sequence(tx[r].own)
           /\ tx' = [tx EXCEPT ![r] =
                 [tx[r] EXCEPT !.own = Append(@, e), !.todo = Tail(@), !.unpublished = TRUE]]
    BY AppendEventMoves
  <1>2. /\ tx'[r].own = Append(tx[r].own, e) /\ tx'[r].pc = tx[r].pc
        /\ \A q \in Requests \ {r} : tx'[q] = tx[q]
    BY <1>1 DEF TypeInv, TxType
  <1>3. \A i \in DOMAIN tx[r].own : tx[r].own[i].sequence < e.sequence
    <2>1. \A k \in Numbers(tx[r].own) : k < e.sequence
      BY <1>1, NextSequence DEF DenseInv
    <2> QED BY <2>1 DEF Numbers
  <1>4. /\ DOMAIN tx[r].own = 1 .. Len(tx[r].own) /\ Len(tx[r].own) \in Nat
        /\ DOMAIN tx'[r].own = 1 .. Len(tx[r].own) + 1
        /\ \A i \in 1 .. Len(tx[r].own) : tx'[r].own[i] = tx[r].own[i]
        /\ tx'[r].own[Len(tx[r].own) + 1] = e
    BY <1>2, AppendProperties, LenProperties DEF TypeInv, TxType
  <1>5. /\ \A i \in DOMAIN tx'[r].own : tx'[r].own[i].writer = r
        /\ \A i, j \in DOMAIN tx'[r].own :
             i < j => tx'[r].own[i].sequence < tx'[r].own[j].sequence
    BY <1>1, <1>3, <1>4 DEF WriterInv
  <1>6. task_events' = task_events /\ emitting' = emitting
    BY DEF AppendEvent
  <1> QED BY <1>2, <1>5, <1>6 DEF WriterInv

(* A commit adds the rows of a writer that had none. *)
LEMMA CommitWriter ==
  ASSUME TypeInv, DenseInv, WriterInv, NEW r \in Requests, Commit(r)
  PROVE  WriterInv'
  <1> DEFINE own == tx[r].own
             n == Len(task_events)
  <1>1. own \in Seq(Events) /\ task_events \in Seq(Events) /\ task_events' = task_events \o own
    BY DEF TypeInv, TxType, Commit
  <1>2. /\ DOMAIN task_events = 1 .. n /\ DOMAIN own = 1 .. Len(own)
        /\ n \in Nat /\ Len(own) \in Nat
        /\ DOMAIN task_events' = 1 .. n + Len(own)
        /\ \A i \in 1 .. n : task_events'[i] = task_events[i]
        /\ \A i \in 1 .. Len(own) : task_events'[n + i] = own[i]
    BY <1>1, ConcatProperties, LenProperties
  <1>3. /\ \A i \in DOMAIN own : own[i].writer = r
        /\ \A i, j \in DOMAIN own : i < j => own[i].sequence < own[j].sequence
        /\ \A i \in DOMAIN task_events : task_events[i].writer # r
    BY DEF WriterInv, Commit
  <1> HIDE DEF own, n
  <1>4. \A k \in DOMAIN task_events' :
          \/ k \in DOMAIN task_events /\ task_events'[k] = task_events[k]
          \/ k > n /\ k - n \in DOMAIN own /\ task_events'[k] = own[k - n]
    <2> TAKE k \in DOMAIN task_events'
    <2>1. CASE k <= n
      BY <1>2, <2>1
    <2>2. CASE k > n
      <3>1. k - n \in DOMAIN own /\ k = n + (k - n)
        BY <1>2, <2>2
      <3> QED BY <1>2, <2>2, <3>1
    <2> QED BY <1>2, <2>1, <2>2
  <1>5. ASSUME NEW i \in DOMAIN task_events', NEW j \in DOMAIN task_events', i < j,
               task_events'[i].writer = task_events'[j].writer
        PROVE  task_events'[i].sequence < task_events'[j].sequence
    <2>1. CASE i \in DOMAIN task_events /\ task_events'[i] = task_events[i]
      <3>1. CASE j \in DOMAIN task_events /\ task_events'[j] = task_events[j]
        BY <1>5, <2>1, <3>1 DEF WriterInv
      <3>2. CASE j - n \in DOMAIN own /\ task_events'[j] = own[j - n]
        BY <1>3, <1>5, <2>1, <3>2
      <3> QED BY <1>4, <3>1, <3>2
    <2>2. CASE i > n /\ i - n \in DOMAIN own /\ task_events'[i] = own[i - n]
      <3>1. j > n /\ j \notin DOMAIN task_events
        BY <1>2, <1>5, <2>2
      <3>2. j - n \in DOMAIN own /\ task_events'[j] = own[j - n]
        BY <1>4, <3>1
      <3>3. i - n < j - n
        BY <1>2, <1>5
      <3> QED BY <1>3, <2>2, <3>2, <3>3
    <2> QED BY <1>4, <2>1, <2>2
  <1>6. \A k \in DOMAIN task_events' :
          \/ k \in DOMAIN task_events /\ task_events'[k] = task_events[k]
          \/ task_events'[k].writer = r
    BY <1>3, <1>4
  <1>7. /\ tx'[r].own = <<>> /\ tx'[r].pc = "done"
        /\ \A q \in Requests \ {r} : tx'[q] = tx[q]
    BY TxEnds DEF Commit
  <1>8. emitting' = emitting
    BY DEF Commit
  <1>9. emitting.phase = "writing" =>
          \A i \in DOMAIN task_events' :
            task_events'[i].writer = Worker => task_events'[i].sequence < emitting.event.sequence
    BY <1>6, WritersDiffer DEF WriterInv
  <1>10. \A q \in Requests :
           tx'[q].pc # "done" => \A i \in DOMAIN task_events' : task_events'[i].writer # q
    BY <1>6, <1>7 DEF WriterInv
  <1>11. \A q \in Requests :
           /\ \A i \in DOMAIN tx'[q].own : tx'[q].own[i].writer = q
           /\ \A i, j \in DOMAIN tx'[q].own : i < j => tx'[q].own[i].sequence < tx'[q].own[j].sequence
    BY <1>7 DEF WriterInv
  <1> QED BY <1>5, <1>8, <1>9, <1>10, <1>11 DEF WriterInv

(* A transaction that gains no row and is not done for the first time, or that
   loses its rows. *)
LEMMA TxWriter ==
  ASSUME WriterInv, task_events' = task_events, emitting' = emitting,
         \A q \in Requests : tx'[q].own = tx[q].own \/ tx'[q].own = <<>>,
         \A q \in Requests : tx[q].pc = "done" => tx'[q].pc = "done"
  PROVE  WriterInv'
  <1>1. \A q \in Requests :
           /\ \A i \in DOMAIN tx'[q].own : tx'[q].own[i].writer = q
           /\ \A i, j \in DOMAIN tx'[q].own : i < j => tx'[q].own[i].sequence < tx'[q].own[j].sequence
    BY DEF WriterInv
  <1> QED BY <1>1 DEF WriterInv

(* Every step keeps the order. *)
LEMMA NextWriter == TypeInv /\ DenseInv /\ WriterInv /\ [Next]_vars => WriterInv'
  <1> SUFFICES ASSUME TypeInv, DenseInv, WriterInv, [Next]_vars PROVE WriterInv'
    OBVIOUS
  <1>1. CASE EmitPublish \/ SetStatus \/ Handler \/ Disconnect \/ UNCHANGED vars
    <2>1. /\ task_events' = task_events /\ tx' = tx
          /\ emitting' = emitting \/ emitting' = Idle
      BY <1>1 DEF EmitPublish, SetStatus, Handler, Connect, ReadStatus, YieldRow,
         ReplayEnds, Subscribe, Deliver, Disconnect, vars
    <2>2. Idle.phase # "writing"
      BY DEF Idle
    <2> QED BY <2>1, <2>2, WriterAside
  <1>2. CASE EmitSelect \/ EmitCommit
    BY <1>2, EmitSelectWriter, EmitCommitWriter
  <1>3. ASSUME NEW r \in Requests, AppendEvent(r) \/ Commit(r) PROVE WriterInv'
    BY <1>3, AppendEventWriter, CommitWriter
  <1>4. ASSUME NEW r \in Requests, Write(r) PROVE WriterInv'
    <2>1. \A q \in Requests : tx'[q].own = tx[q].own /\ (tx[q].pc = "done" => tx'[q].pc = "done")
      BY <1>4 DEF Write, TypeInv, TxType
    <2> QED BY <1>4, <2>1, TxWriter DEF Write
  <1>5. ASSUME NEW r \in Requests, PublishEvent(r) PROVE WriterInv'
    <2>1. \A q \in Requests : tx'[q].own = tx[q].own /\ (tx[q].pc = "done" => tx'[q].pc = "done")
      BY <1>5 DEF PublishEvent, TypeInv, TxType
    <2> QED BY <1>5, <2>1, TxWriter DEF PublishEvent
  <1>6. ASSUME NEW r \in Requests, Rollback(r) PROVE WriterInv'
    <2>1. /\ tx'[r].own = <<>> /\ tx'[r].pc = "done"
          /\ \A q \in Requests \ {r} : tx'[q] = tx[q]
      BY <1>6, TxEnds DEF Rollback
    <2>2. task_events' = task_events /\ emitting' = emitting
      BY <1>6 DEF Rollback
    <2> QED BY <2>1, <2>2, TxWriter
  <1>7. ASSUME NEW r \in Requests, NEW kind \in DecisionKinds, Check(r, kind) PROVE WriterInv'
    <2>1. \A q \in Requests \ {r} : tx'[q] = tx[q]
      BY <1>7 DEF Check, TypeInv
    <2>2. tx'[r].own = <<>> /\ tx[r].pc = "start"
      BY <1>7, NoTxTyped DEF Check, TypeInv, NoTx
    <2>3. task_events' = task_events /\ emitting' = emitting
      BY <1>7 DEF Check
    <2> QED BY <2>1, <2>2, <2>3, TxWriter
  <1> QED BY <1>1, <1>2, <1>3, <1>4, <1>5, <1>6, <1>7 DEF Next, WorkerStep, RequestStep

(* The numbers of the log have no hole and the rows of one writer rise, for any
   number of requests deciding at once and however many of them roll back. *)
THEOREM LogOrdered == Spec => []LogIsOrdered
  <1>1. Init => WriterInv
    <2> SUFFICES ASSUME Init PROVE WriterInv
      OBVIOUS
    <2>1. DOMAIN task_events = {1} /\ task_events[1].writer = Creator
      BY DEF Init, Event
    <2>2. \A r \in Requests : tx[r].own = <<>>
      BY DEF Init, NoTx
    <2>3. emitting.phase = "idle"
      BY DEF Init, Idle
    <2>4. \A i, j \in DOMAIN task_events : ~(i < j)
      BY <2>1
    <2>5. \A r \in Requests : DOMAIN tx[r].own = {}
      BY <2>2
    <2> QED BY <2>1, <2>3, <2>4, <2>5, WritersDiffer DEF WriterInv
  <1>2. DenseInv /\ WriterInv => LogIsOrdered
    <2> SUFFICES ASSUME DenseInv, WriterInv PROVE LogIsOrdered
      OBVIOUS
    <2>1. PICK n \in Nat : Numbers(task_events) = 1 .. n
      BY DEF DenseInv, Dense
    <2>2. \A k \in Numbers(task_events) : 1 .. k \subseteq Numbers(task_events)
      BY <2>1
    <2> QED BY <2>2 DEF LogIsOrdered, WriterInv
  <1> QED BY <1>1, <1>2, NextWriter, BaseAlways, PTL DEF Spec

=============================================================================
