--------------------------- MODULE TaskApiProofs ----------------------------
(***************************************************************************)
(* Proofs about TaskApi, for any number of creating requests, decision     *)
(* requests, nodes, executions, crashes, exceptions and rollbacks.         *)
(***************************************************************************)
EXTENDS TaskApi, SequenceTheorems, FiniteSetTheorems, TLAPS

-----------------------------------------------------------------------------
(* Idempotent creation *)

CreateStates == {"start", "creating", "inserted", "created", "replayed", "conflict", "error"}

(* A request holds the uncommitted key only while no record is committed; the
   record is the fingerprint of the one request that created the task and of
   all that were replayed to it. *)
KeyInv ==
  /\ create \in [Creates -> CreateStates]
  /\ fingerprint \in Fingerprints
  /\ key \in {NoRecord} \cup {fingerprint[c] : c \in Creates}
  /\ \A c, d \in Creates : create[c] = "inserted" /\ create[d] = "inserted" => c = d
  /\ \A c \in Creates : create[c] = "inserted" => key = NoRecord
  /\ \A c \in Creates : create[c] \in {"created", "replayed"} => key = fingerprint[c]
  /\ \A c, d \in Creates : create[c] = "created" /\ create[d] = "created" => c = d

(* No other step touches the requests, the record or the fingerprints. *)
LEMMA KeyAside ==
  ASSUME KeyInv, UNCHANGED <<create, fingerprint, key>>
  PROVE  KeyInv'
  BY DEF KeyInv

(* The primary key and the fingerprint check keep it so. *)
LEMMA CreateStepKey ==
  ASSUME KeyInv, NEW c \in Creates, CreateStep(c) \/ RollbackCreate(c)
  PROVE  KeyInv'
  <1>0. fingerprint' = fingerprint /\ \A d \in Creates : fingerprint[d] # NoRecord
    BY TaskApiAssumption DEF KeyInv, CreateStep, Lookup, Insert, CommitCreate, Retry, RollbackCreate
  <1>1. CASE Lookup(c)
    <2>1. PICK v \in {"creating", "replayed", "conflict"} :
            /\ create' = [create EXCEPT ![c] = v]
            /\ v = "replayed" => key = fingerprint[c]
      <3>1. CASE key = NoRecord
        BY <1>0, <1>1, <3>1 DEF Lookup
      <3>2. CASE key # NoRecord /\ key = fingerprint[c]
        BY <1>1, <3>2 DEF Lookup
      <3>3. CASE key # NoRecord /\ key # fingerprint[c]
        BY <1>1, <3>3 DEF Lookup
      <3> QED BY <3>1, <3>2, <3>3
    <2>2. key' = key
      BY <1>1 DEF Lookup
    <2> QED BY <1>0, <2>1, <2>2 DEF KeyInv, CreateStates
  <1>2. CASE Insert(c)
    <2>1. PICK v \in {"inserted", "error"} :
            /\ create' = [create EXCEPT ![c] = v]
            /\ v = "inserted" => key = NoRecord
      BY <1>2 DEF Insert
    <2>2. key' = key /\ \A d \in Creates : create[d] # "inserted"
      BY <1>2 DEF Insert
    <2> QED BY <1>0, <2>1, <2>2 DEF KeyInv, CreateStates
  <1>3. CASE CommitCreate(c)
    <2>1. \A d \in Creates : create[d] \notin {"created", "replayed"}
      BY <1>0, <1>3 DEF CommitCreate, KeyInv
    <2>2. \A d \in Creates : create[d] = "inserted" => d = c
      BY <1>3 DEF CommitCreate, KeyInv
    <2> QED BY <1>0, <1>3, <2>1, <2>2 DEF CommitCreate, KeyInv, CreateStates
  <1>4. CASE RollbackCreate(c)
    BY <1>0, <1>4 DEF RollbackCreate, KeyInv, CreateStates
  <1>5. CASE Retry(c)
    BY <1>0, <1>5 DEF Retry, KeyInv, CreateStates
  <1> QED BY <1>1, <1>2, <1>3, <1>4, <1>5 DEF CreateStep

(* Only a creating request writes the record. *)
LEMMA NextKey == KeyInv /\ [Next]_vars => KeyInv'
  <1> SUFFICES ASSUME KeyInv, [Next]_vars PROVE KeyInv'
    OBVIOUS
  <1>1. ASSUME NEW c \in Creates, CreateStep(c) \/ RollbackCreate(c) PROVE KeyInv'
    BY <1>1, CreateStepKey
  <1>2. ASSUME NEW r \in Requests, DecisionStep(r) \/ Rollback(r) PROVE KeyInv'
    BY <1>2, KeyAside DEF DecisionStep, PendingFor, Write, Commit, Rollback
  <1>3. ASSUME NEW r \in Requests, NEW kind \in DecisionKinds, Check(r, kind) PROVE KeyInv'
    BY <1>3, KeyAside DEF Check
  <1>4. CASE Start \/ WorkerStep \/ WrapperRaises \/ Crash
    BY <1>4, KeyAside DEF Start, WorkerStep, WrapperRaises, Crash, NextNode, Checkpoint, Finalize, RequestApproval,
       StartAgentRun, FinishAgentRun, apiVars
  <1>5. CASE UNCHANGED vars
    BY <1>5, KeyAside DEF vars, apiVars
  <1> QED BY <1>1, <1>2, <1>3, <1>4, <1>5 DEF Next

(* The record is consistent throughout. *)
LEMMA KeyAlways == Spec => []KeyInv
  <1>1. Init => KeyInv
    BY DEF Init, KeyInv, CreateStates
  <1> QED BY <1>1, NextKey, PTL DEF Spec

(* However many requests carry one Idempotency-Key, and however they race,
   fail and retry, at most one of them creates a task, and every one that is
   answered with that task asked for the same. *)
THEOREM CreatedOnce == Spec => []OneTaskPerKey
  <1>1. KeyInv => OneTaskPerKey
    BY DEF KeyInv, OneTaskPerKey
  <1> QED BY <1>1, KeyAlways, PTL

-----------------------------------------------------------------------------
(* The programs of the worker *)

WorkerStatuses == SETTLED_STATUSES \cup {"ACTIVE"}

Ops == [op : {"status", "start", "finish", "approval", "finalize"}, arg : WorkerStatuses]

Has(p, op) == \E i \in DOMAIN p : p[i].op = op

(* Will the program park the task for review? *)
Parks(p) == \E i \in DOMAIN p : p[i].op = "finalize" /\ p[i].arg = "READY_FOR_REVIEW"

(* An agent run is started first, finished once, and the task is finalized
   last. *)
Sound(p) ==
  /\ p \in Seq(Ops)
  /\ \A i \in DOMAIN p : p[i].op = "start" => i = 1 /\ Has(p, "finish")
  /\ \A i, j \in DOMAIN p : p[i].op = "finish" /\ p[j].op = "finish" => i = j
  /\ \A i \in DOMAIN p : p[i].op = "finalize" => i = Len(p)

(* The program has an agent run to finish that it has already started. *)
Open(p) == Has(p, "finish") /\ ~Has(p, "start")

(* The empty program. *)
LEMMA NoProgram == /\ Sound(<<>>) /\ ~Open(<<>>) /\ ~Parks(<<>>)
                   /\ \A op : ~Has(<<>>, op)
  <1>1. <<>> \in Seq(Ops) /\ DOMAIN <<>> = {}
    BY EmptySeq
  <1> QED BY <1>1 DEF Sound, Open, Parks, Has

(* One more operation at the end of a program. *)
Then(p, o) == p \o <<o>>

Longer(q, p, o) ==
  /\ q \in Seq(Ops) /\ Len(q) = Len(p) + 1 /\ DOMAIN q = 1 .. Len(p) + 1
  /\ \A i \in 1 .. Len(p) : q[i] = p[i]
  /\ q[Len(p) + 1] = o

(* Then adds exactly one operation, at the end. *)
LEMMA OneLonger ==
  ASSUME NEW p \in Seq(Ops), NEW o \in Ops
  PROVE  Longer(Then(p, o), p, o)
  <1>1. <<o>> \in Seq(Ops) /\ Len(<<o>>) = 1 /\ <<o>>[1] = o
    OBVIOUS
  <1>2. 1 \in 1 .. Len(<<o>>) /\ Len(p) \in Nat
    BY <1>1, LenProperties
  <1>3. (p \o <<o>>)[Len(p) + 1] = <<o>>[1]
    BY <1>1, <1>2, ConcatProperties
  <1> QED BY <1>1, <1>2, <1>3, ConcatProperties, LenProperties DEF Then, Longer

(* The operations of a program, by their place. *)
LEMMA OpsTyped ==
  ASSUME NEW x \in WorkerStatuses
  PROVE  /\ [op |-> "status", arg |-> x] \in Ops /\ [op |-> "finalize", arg |-> x] \in Ops
         /\ [op |-> "start", arg |-> "ACTIVE"] \in Ops /\ [op |-> "finish", arg |-> "ACTIVE"] \in Ops
         /\ [op |-> "approval", arg |-> "READY_FOR_REVIEW"] \in Ops
  BY DEF Ops, WorkerStatuses, SETTLED_STATUSES

(* A node that writes nothing but its agent run and its checkpoints. *)
LEMMA InstrumentShape ==
  ASSUME NEW x \in WorkerStatuses, NEW ok
  PROVE  LET p == instrument(x, <<>>, ok)
         IN  /\ p \in Seq(Ops) /\ Len(p) = 4
             /\ p[1].op = "start" /\ p[2].op = "status" /\ p[3].op = "finish" /\ p[4].op = "status"
  <1> DEFINE o1 == [op |-> "start", arg |-> "ACTIVE"]
             o2 == [op |-> "status", arg |-> x]
             o3 == [op |-> "finish", arg |-> "ACTIVE"]
             p1 == <<o1>>
             p2 == Then(p1, o2)
             p3 == Then(p2, o3)
             p4 == Then(p3, o2)
  <1>1. o1 \in Ops /\ o2 \in Ops /\ o3 \in Ops
    BY OpsTyped
  <1>2. o1.op = "start" /\ o2.op = "status" /\ o3.op = "finish"
    OBVIOUS
  <1>3. instrument(x, <<>>, ok) = Then(Then(p2 \o <<>>, o3), o2)
    BY DEF instrument, agent_run, save_checkpoint, Then
  <1> HIDE DEF o1, o2, o3
  <1>4. p1 \in Seq(Ops) /\ Len(p1) = 1 /\ p1[1] = o1
    BY <1>1
  <1> HIDE DEF p1
  <1>5. p2 \in Seq(Ops) /\ Len(p2) = 2
        /\ p2[1] = o1 /\ p2[2] = o2
    <2>1. Len(p1) + 1 = 2 /\ 1 \in 1 .. Len(p1)
      BY <1>4
    <2>2. Longer(p2, p1, o2)
      BY <1>1, <1>4, OneLonger
    <2> HIDE DEF p2
    <2> QED BY <1>4, <2>1, <2>2 DEF Longer
  <1> HIDE DEF p2
  <1>6. p2 \o <<>> = p2
    BY <1>5, ConcatEmptySeq
  <1>7. instrument(x, <<>>, ok) = p4
    BY <1>3, <1>6
  <1>8. p3 \in Seq(Ops) /\ Len(p3) = 3
        /\ p3[1] = o1 /\ p3[2] = o2 /\ p3[3] = o3
    <2>1. Len(p2) + 1 = 3 /\ 1 \in 1 .. Len(p2) /\ 2 \in 1 .. Len(p2)
      BY <1>5
    <2>2. Longer(p3, p2, o3)
      BY <1>1, <1>5, OneLonger
    <2> HIDE DEF p3
    <2> QED BY <1>5, <2>1, <2>2 DEF Longer
  <1> HIDE DEF p3
  <1>9. p4 \in Seq(Ops) /\ Len(p4) = 4
        /\ p4[1] = o1 /\ p4[2] = o2 /\ p4[3] = o3 /\ p4[4] = o2
    <2>1. Len(p3) + 1 = 4 /\ 1 \in 1 .. Len(p3) /\ 2 \in 1 .. Len(p3) /\ 3 \in 1 .. Len(p3)
      BY <1>8
    <2>2. Longer(p4, p3, o2)
      BY <1>1, <1>8, OneLonger
    <2> HIDE DEF p4
    <2> QED BY <1>8, <2>1, <2>2 DEF Longer
  <1> HIDE DEF p4
  <1> QED BY <1>2, <1>7, <1>9

(* The review node asks its question within its agent run. *)
LEMMA HumanReviewShape ==
  LET p == human_review
  IN  /\ p \in Seq(Ops) /\ Len(p) = 5
      /\ p[1].op = "start" /\ p[2].op = "status" /\ p[3].op = "approval"
      /\ p[4].op = "finish" /\ p[5].op = "status"
  <1> DEFINE o1 == [op |-> "start", arg |-> "ACTIVE"]
             o2 == [op |-> "status", arg |-> "READY_FOR_REVIEW"]
             o3 == [op |-> "approval", arg |-> "READY_FOR_REVIEW"]
             o4 == [op |-> "finish", arg |-> "ACTIVE"]
             p1 == <<o1>>
             p2 == Then(p1, o2)
             p3 == Then(p2, o3)
             p4 == Then(p3, o4)
             p5 == Then(p4, o2)
  <1>1. o1 \in Ops /\ o2 \in Ops /\ o3 \in Ops /\ o4 \in Ops
    BY OpsTyped DEF WorkerStatuses, SETTLED_STATUSES
  <1>2. o1.op = "start" /\ o2.op = "status" /\ o3.op = "approval" /\ o4.op = "finish"
    OBVIOUS
  <1>3. human_review = p5
    BY DEF human_review, instrument, agent_run, save_checkpoint, request_approval, Then
  <1> HIDE DEF o1, o2, o3, o4
  <1>4. p1 \in Seq(Ops) /\ Len(p1) = 1 /\ p1[1] = o1
    BY <1>1
  <1> HIDE DEF p1
  <1>5. p2 \in Seq(Ops) /\ Len(p2) = 2
        /\ p2[1] = o1 /\ p2[2] = o2
    <2>1. Len(p1) + 1 = 2 /\ 1 \in 1 .. Len(p1)
      BY <1>4
    <2>2. Longer(p2, p1, o2)
      BY <1>1, <1>4, OneLonger
    <2> HIDE DEF p2
    <2> QED BY <1>4, <2>1, <2>2 DEF Longer
  <1> HIDE DEF p2
  <1>6. p3 \in Seq(Ops) /\ Len(p3) = 3
        /\ p3[1] = o1 /\ p3[2] = o2 /\ p3[3] = o3
    <2>1. Len(p2) + 1 = 3 /\ 1 \in 1 .. Len(p2) /\ 2 \in 1 .. Len(p2)
      BY <1>5
    <2>2. Longer(p3, p2, o3)
      BY <1>1, <1>5, OneLonger
    <2> HIDE DEF p3
    <2> QED BY <1>5, <2>1, <2>2 DEF Longer
  <1> HIDE DEF p3
  <1>7. p4 \in Seq(Ops) /\ Len(p4) = 4
        /\ p4[1] = o1 /\ p4[2] = o2 /\ p4[3] = o3 /\ p4[4] = o4
    <2>1. Len(p3) + 1 = 4 /\ 1 \in 1 .. Len(p3) /\ 2 \in 1 .. Len(p3) /\ 3 \in 1 .. Len(p3)
      BY <1>6
    <2>2. Longer(p4, p3, o4)
      BY <1>1, <1>6, OneLonger
    <2> HIDE DEF p4
    <2> QED BY <1>6, <2>1, <2>2 DEF Longer
  <1> HIDE DEF p4
  <1>8. p5 \in Seq(Ops) /\ Len(p5) = 5
        /\ p5[1] = o1 /\ p5[2] = o2 /\ p5[3] = o3 /\ p5[4] = o4 /\ p5[5] = o2
    <2>1. Len(p4) + 1 = 5 /\ 1 \in 1 .. Len(p4) /\ 2 \in 1 .. Len(p4) /\ 3 \in 1 .. Len(p4) /\ 4 \in 1 .. Len(p4)
      BY <1>7
    <2>2. Longer(p5, p4, o2)
      BY <1>1, <1>7, OneLonger
    <2> HIDE DEF p5
    <2> QED BY <1>7, <2>1, <2>2 DEF Longer
  <1> HIDE DEF p5
  <1> QED BY <1>2, <1>3, <1>8

(* A node and then the end of the execution. *)
LEMMA FinalizeShape ==
  ASSUME NEW p \in Seq(Ops), NEW x \in WorkerStatuses
  PROVE  Longer(p \o finalize(x), p, [op |-> "finalize", arg |-> x])
  <1>1. [op |-> "finalize", arg |-> x] \in Ops
    BY OpsTyped
  <1>2. p \o finalize(x) = Then(p, [op |-> "finalize", arg |-> x])
    BY DEF finalize, Then
  <1> QED BY <1>1, <1>2, OneLonger

(* The end of an execution alone. *)
LEMMA EndShape ==
  ASSUME NEW x \in WorkerStatuses
  PROVE  /\ Sound(finalize(x)) /\ ~Open(finalize(x)) /\ finalize(x) # <<>>
         /\ x # "READY_FOR_REVIEW" => ~Parks(finalize(x))
  <1> DEFINE o == [op |-> "finalize", arg |-> x]
             p == finalize(x)
  <1>1. o \in Ops /\ o.op = "finalize" /\ o.arg = x
    BY OpsTyped
  <1>2. p = <<o>>
    BY DEF finalize
  <1> HIDE DEF o, p
  <1>3. p \in Seq(Ops) /\ Len(p) = 1 /\ p[1] = o /\ DOMAIN p = {1} /\ p # <<>>
    BY <1>1, <1>2
  <1>4. Sound(p) /\ ~Open(p) /\ (x # "READY_FOR_REVIEW" => ~Parks(p))
    BY <1>1, <1>3 DEF Sound, Open, Parks, Has
  <1> QED BY <1>3, <1>4 DEF p

(* What every program of an execution is like: nothing of it is under way, and
   it asks its question before it parks the task, unless the outcome is that of
   an execution that has asked. *)
Fresh(p) == /\ Sound(p) /\ ~Open(p) /\ p # <<>>
            /\ Parks(p) => Has(p, "approval") \/ approvals # <<>>

(* The next node of an execution is such a program. *)
LEMMA NextNodeFresh ==
  ASSUME NextNode
  PROVE  Fresh(prog')
  <1>0. {"ACTIVE", "READY_FOR_REVIEW", "FAILED", "HUMAN_REVIEW_REQUIRED"} \subseteq WorkerStatuses
    BY DEF WorkerStatuses, SETTLED_STATUSES, TERMINAL_STATUSES
  <1>1. ASSUME NEW ok, prog' = instrument("ACTIVE", <<>>, ok) PROVE Fresh(prog')
    <2>1. /\ prog' \in Seq(Ops) /\ Len(prog') = 4
          /\ prog'[1].op = "start" /\ prog'[2].op = "status"
          /\ prog'[3].op = "finish" /\ prog'[4].op = "status"
      BY <1>0, <1>1, InstrumentShape
    <2>2. DOMAIN prog' = 1 .. 4 /\ prog' # <<>>
      <3>1. DOMAIN prog' = 1 .. Len(prog')
        BY <2>1, LenProperties
      <3>2. 1 \in DOMAIN prog' /\ DOMAIN <<>> = {}
        BY <2>1, <3>1
      <3>3. prog' # <<>>
        BY <3>2
      <3> QED BY <2>1, <3>1, <3>3
    <2>3. \A i \in DOMAIN prog' : i = 1 \/ i = 2 \/ i = 3 \/ i = 4
      BY <2>2
    <2> QED BY <2>1, <2>2, <2>3 DEF Fresh, Sound, Open, Parks, Has
  <1>2. ASSUME NEW x \in WorkerStatuses, NEW y \in WorkerStatuses, NEW ok,
               x = "READY_FOR_REVIEW" => approvals # <<>>,
               prog' = instrument(y, <<>>, ok) \o finalize(x)
        PROVE  Fresh(prog')
    <2> DEFINE p == instrument(y, <<>>, ok)
    <2>1. /\ p \in Seq(Ops) /\ Len(p) = 4
          /\ p[1].op = "start" /\ p[2].op = "status" /\ p[3].op = "finish" /\ p[4].op = "status"
      BY InstrumentShape
    <2> HIDE DEF p
    <2>2. /\ prog' \in Seq(Ops) /\ Len(prog') = 5
          /\ prog'[1].op = "start" /\ prog'[2].op = "status"
          /\ prog'[3].op = "finish" /\ prog'[4].op = "status"
          /\ prog'[5].op = "finalize" /\ prog'[5].arg = x
      <3>1. Longer(prog', p, [op |-> "finalize", arg |-> x])
        BY <1>0, <1>2, <2>1, FinalizeShape DEF p
      <3>2. Len(p) + 1 = 5 /\ 1 \in 1 .. Len(p) /\ 2 \in 1 .. Len(p) /\ 3 \in 1 .. Len(p)
            /\ 4 \in 1 .. Len(p)
        BY <2>1
      <3> QED BY <2>1, <3>1, <3>2 DEF Longer
    <2>3. DOMAIN prog' = 1 .. 5 /\ prog' # <<>>
      <3>1. DOMAIN prog' = 1 .. Len(prog')
        BY <2>2, LenProperties
      <3>2. 1 \in DOMAIN prog' /\ DOMAIN <<>> = {}
        BY <2>2, <3>1
      <3>3. prog' # <<>>
        BY <3>2
      <3> QED BY <2>2, <3>1, <3>3
    <2>4. \A i \in DOMAIN prog' : i = 1 \/ i = 2 \/ i = 3 \/ i = 4 \/ i = 5
      BY <2>3
    <2>5. Parks(prog') => approvals # <<>>
      <3>1. ASSUME Parks(prog') PROVE x = "READY_FOR_REVIEW"
        BY <2>2, <2>3, <2>4, <3>1 DEF Parks
      <3> QED BY <1>2, <3>1
    <2>6. Sound(prog') /\ ~Open(prog')
      BY <2>2, <2>3, <2>4 DEF Sound, Open, Has
    <2> QED BY <2>3, <2>5, <2>6 DEF Fresh
  <1>3. ASSUME NEW x \in WorkerStatuses, prog' = human_review \o finalize(x) PROVE Fresh(prog')
    <2> DEFINE p == human_review
    <2>1. /\ p \in Seq(Ops) /\ Len(p) = 5
          /\ p[1].op = "start" /\ p[2].op = "status" /\ p[3].op = "approval"
          /\ p[4].op = "finish" /\ p[5].op = "status"
      BY HumanReviewShape
    <2> HIDE DEF p
    <2>2. /\ prog' \in Seq(Ops) /\ Len(prog') = 6
          /\ prog'[1].op = "start" /\ prog'[2].op = "status" /\ prog'[3].op = "approval"
          /\ prog'[4].op = "finish" /\ prog'[5].op = "status" /\ prog'[6].op = "finalize"
      <3>1. Longer(prog', p, [op |-> "finalize", arg |-> x])
        BY <1>0, <1>3, <2>1, FinalizeShape DEF p
      <3>2. Len(p) + 1 = 6 /\ 1 \in 1 .. Len(p) /\ 2 \in 1 .. Len(p) /\ 3 \in 1 .. Len(p)
            /\ 4 \in 1 .. Len(p) /\ 5 \in 1 .. Len(p)
        BY <2>1
      <3> QED BY <2>1, <3>1, <3>2 DEF Longer
    <2>3. DOMAIN prog' = 1 .. 6 /\ prog' # <<>>
      <3>1. DOMAIN prog' = 1 .. Len(prog')
        BY <2>2, LenProperties
      <3>2. 1 \in DOMAIN prog' /\ DOMAIN <<>> = {}
        BY <2>2, <3>1
      <3>3. prog' # <<>>
        BY <3>2
      <3> QED BY <2>2, <3>1, <3>3
    <2>4. \A i \in DOMAIN prog' : i = 1 \/ i = 2 \/ i = 3 \/ i = 4 \/ i = 5 \/ i = 6
      BY <2>3
    <2> QED BY <2>2, <2>3, <2>4 DEF Fresh, Sound, Open, Parks, Has
  <1>4. ASSUME NEW x \in {"FAILED", "HUMAN_REVIEW_REQUIRED"}, prog' = finalize(x)
        PROVE  Fresh(prog')
    BY <1>0, <1>4, EndShape DEF Fresh
  <1>5. ASSUME NEW o \in OldOutcomes, NEW body \in {<<>>, request_approval},
               prog' = instrument("READY_FOR_REVIEW", body, FALSE) \o finalize(o)
        PROVE  Fresh(prog')
    <2>1. o \in WorkerStatuses /\ (o = "READY_FOR_REVIEW" => approvals # <<>>)
      BY <1>0 DEF OldOutcomes
    <2>2. CASE body = <<>>
      BY <1>0, <1>2, <1>5, <2>1, <2>2
    <2>3. CASE body = request_approval
      <3>1. instrument("READY_FOR_REVIEW", request_approval, FALSE) = human_review
        BY DEF human_review, instrument
      <3> QED BY <1>3, <1>5, <2>1, <2>3, <3>1
    <2> QED BY <2>2, <2>3
  <1> QED BY <1>0, <1>1, <1>2, <1>3, <1>4, <1>5 DEF NextNode

(* What is left of a program after its first operation. *)
LEMMA TailShape ==
  ASSUME NEW p, Sound(p), p # <<>>
  PROVE  /\ Sound(Tail(p)) /\ ~Has(Tail(p), "start") /\ Head(p) \in Ops
         /\ \A op : op # "start" /\ op # Head(p).op => (Has(Tail(p), op) <=> Has(p, op))
         /\ Head(p).op = "start" => Has(Tail(p), "finish") /\ ~Open(p)
         /\ Head(p).op = "finish" => ~Has(Tail(p), "finish") /\ Open(p)
         /\ Head(p).op \notin {"start", "finish"} => (Open(Tail(p)) <=> Open(p))
         /\ Head(p).op # "finalize" => (Parks(Tail(p)) <=> Parks(p))
         /\ Head(p).op = "finalize" => Tail(p) = <<>>
         /\ Head(p).op = "finalize" /\ Head(p).arg = "READY_FOR_REVIEW" =>
              Parks(p) /\ ~Has(p, "approval")
  <1> DEFINE t == Tail(p)
  <1>1. /\ p \in Seq(Ops) /\ DOMAIN p = 1 .. Len(p) /\ Len(p) \in Nat /\ Len(p) >= 1
        /\ t \in Seq(Ops) /\ Len(t) = Len(p) - 1 /\ DOMAIN t = 1 .. Len(t)
        /\ \A i \in 1 .. Len(t) : t[i] = p[i + 1]
        /\ Head(p) = p[1] /\ Head(p) \in Ops
    BY HeadTailProperties, LenProperties, EmptySeq DEF Sound
  <1> HIDE DEF t
  <1>2. \A i \in DOMAIN t : i \in Nat /\ i + 1 \in DOMAIN p /\ i + 1 # 1 /\ t[i] = p[i + 1]
    BY <1>1
  <1>3. \A k \in DOMAIN p : k = 1 \/ (k - 1 \in DOMAIN t /\ t[k - 1] = p[k])
    <2> TAKE k \in DOMAIN p
    <2>1. CASE k # 1
      <3>1. k - 1 \in 1 .. Len(t) /\ (k - 1) + 1 = k
        BY <1>1, <2>1
      <3> QED BY <1>1, <3>1
    <2> QED BY <2>1
  <1>4. ~Has(t, "start")
    BY <1>2 DEF Has, Sound
  <1>5. ASSUME NEW op, op # Head(p).op PROVE Has(t, op) <=> Has(p, op)
    <2>1. ASSUME Has(t, op) PROVE Has(p, op)
      BY <1>2, <2>1 DEF Has
    <2>2. ASSUME Has(p, op) PROVE Has(t, op)
      BY <1>1, <1>3, <1>5, <2>2 DEF Has
    <2> QED BY <2>1, <2>2
  <1>6. 1 \in DOMAIN p /\ p[1] = Head(p)
    BY <1>1
  <1>7. Sound(t)
    <2>1. \A i, j \in DOMAIN t : t[i].op = "finish" /\ t[j].op = "finish" => i = j
      <3> SUFFICES ASSUME NEW i \in DOMAIN t, NEW j \in DOMAIN t, t[i].op = "finish", t[j].op = "finish"
                   PROVE  i = j
        OBVIOUS
      <3>1. i + 1 = j + 1
        BY <1>2 DEF Sound
      <3> QED BY <1>1, <3>1
    <2>2. \A i \in DOMAIN t : t[i].op = "finalize" => i = Len(t)
      <3> SUFFICES ASSUME NEW i \in DOMAIN t, t[i].op = "finalize" PROVE i = Len(t)
        OBVIOUS
      <3>1. i + 1 = Len(p)
        BY <1>2 DEF Sound
      <3> QED BY <1>1, <1>2, <3>1
    <2>3. \A i \in DOMAIN t : t[i].op # "start"
      BY <1>4 DEF Has
    <2> QED BY <1>1, <2>1, <2>2, <2>3 DEF Sound
  <1>8. ASSUME Head(p).op = "start" PROVE Has(t, "finish") /\ ~Open(p)
    <2>1. Has(p, "finish") /\ Has(p, "start")
      BY <1>6, <1>8 DEF Sound, Has
    <2> QED BY <1>5, <1>8, <2>1 DEF Open
  <1>9. ASSUME Head(p).op = "finish" PROVE ~Has(t, "finish") /\ Open(p)
    <2>1. ~Has(t, "finish")
      BY <1>2, <1>6, <1>9 DEF Sound, Has
    <2>2. Has(p, "finish") /\ ~Has(p, "start")
      BY <1>4, <1>5, <1>6, <1>9 DEF Has
    <2> QED BY <2>1, <2>2 DEF Open
  <1>10. ASSUME Head(p).op \notin {"start", "finish"} PROVE Open(t) <=> Open(p)
    BY <1>5, <1>10 DEF Open
  <1>11. ASSUME Head(p).op # "finalize" PROVE Parks(t) <=> Parks(p)
    <2>1. ASSUME Parks(t) PROVE Parks(p)
      BY <1>2, <2>1 DEF Parks
    <2>2. ASSUME Parks(p) PROVE Parks(t)
      BY <1>3, <1>6, <1>11, <2>2 DEF Parks
    <2> QED BY <2>1, <2>2
  <1>12. ASSUME Head(p).op = "finalize" PROVE Len(p) = 1 /\ t = <<>>
    <2>1. Len(p) = 1
      BY <1>6, <1>12 DEF Sound
    <2> QED BY <1>1, <2>1, EmptySeq
  <1>13. ASSUME Head(p).op = "finalize", Head(p).arg = "READY_FOR_REVIEW"
         PROVE  Parks(p) /\ ~Has(p, "approval")
    <2>1. DOMAIN p = {1}
      BY <1>1, <1>12, <1>13
    <2> QED BY <1>6, <1>13, <2>1 DEF Parks, Has
  <1> QED BY <1>1, <1>4, <1>5, <1>7, <1>8, <1>9, <1>10, <1>11, <1>12, <1>13 DEF t

-----------------------------------------------------------------------------
(* The worker *)

(* Only an execution has a program, and every agent run that says RUNNING is
   the one that the program has to finish, or was left by a crash or by an
   exception of the wrapper. *)
WorkInv ==
  /\ executing \in BOOLEAN
  /\ nodes \in Nat /\ running \in Nat /\ executions \in Nat /\ crashes \in Nat
  /\ escapes \in Nat
  /\ Sound(prog)
  /\ ~executing => prog = <<>>
  /\ Open(prog) => running >= 1 /\ running <= crashes + escapes + 1
  /\ ~Open(prog) => running <= crashes + escapes

(* The steps of the requests leave the worker alone. *)
LEMMA WorkAside ==
  ASSUME WorkInv, UNCHANGED workerVars
  PROVE  WorkInv'
  BY DEF WorkInv, workerVars

(* Each operation of a program is a step of the worker. *)
LEMMA WorkerWork ==
  ASSUME WorkInv, Start \/ WorkerStep \/ WrapperRaises \/ Crash
  PROVE  WorkInv'
  <1>1. CASE Start
    <2>1. /\ executing' = TRUE /\ executions' = executions + 1
          /\ prog' = prog /\ nodes' = nodes /\ running' = running /\ crashes' = crashes
          /\ escapes' = escapes
      BY <1>1 DEF Start
    <2> QED BY <2>1 DEF WorkInv
  <1>2. CASE NextNode
    <2>1. Sound(prog') /\ ~Open(prog') /\ prog = <<>> /\ executing /\ executing' = executing
      BY <1>2, NextNodeFresh DEF NextNode, Fresh
    <2>2. nodes' \in Nat /\ UNCHANGED <<running, executions, crashes, escapes>>
      BY <1>2 DEF NextNode, WorkInv
    <2>3. ~Open(prog)
      BY <2>1, NoProgram
    <2> QED BY <2>1, <2>2, <2>3 DEF WorkInv
  <1>3. CASE Checkpoint \/ RequestApproval
    <2>1. /\ prog # <<>> /\ Head(prog).op \notin {"start", "finish"} /\ prog' = Tail(prog)
          /\ UNCHANGED <<executing, nodes, running, executions, crashes, escapes>>
      BY <1>3 DEF Checkpoint, RequestApproval, Does
    <2>2. Sound(prog') /\ (Open(prog') <=> Open(prog))
      BY <2>1, TailShape DEF WorkInv
    <2>3. executing
      BY <2>1 DEF WorkInv
    <2> QED BY <2>1, <2>2, <2>3 DEF WorkInv
  <1>4. CASE Finalize
    <2>1. /\ prog # <<>> /\ Head(prog).op = "finalize" /\ prog' = Tail(prog)
          /\ executing' = FALSE /\ nodes' = 0 /\ UNCHANGED <<running, executions, crashes, escapes>>
      BY <1>4 DEF Finalize, Does
    <2>2. Sound(prog') /\ prog' = <<>> /\ (Open(prog') <=> Open(prog))
      BY <2>1, TailShape DEF WorkInv
    <2> QED BY <2>1, <2>2 DEF WorkInv
  <1>5. CASE StartAgentRun
    <2>1. /\ prog # <<>> /\ Head(prog).op = "start" /\ prog' = Tail(prog)
          /\ running' = running + 1 /\ UNCHANGED <<executing, nodes, executions, crashes, escapes>>
      BY <1>5 DEF StartAgentRun, Does
    <2>2. Sound(prog') /\ Open(prog') /\ ~Open(prog)
      BY <2>1, TailShape DEF WorkInv, Open
    <2>3. executing
      BY <2>1 DEF WorkInv
    <2> QED BY <2>1, <2>2, <2>3 DEF WorkInv
  <1>6. CASE FinishAgentRun
    <2>1. /\ prog # <<>> /\ Head(prog).op = "finish" /\ prog' = Tail(prog)
          /\ running' = running - 1 /\ UNCHANGED <<executing, nodes, executions, crashes, escapes>>
      BY <1>6 DEF FinishAgentRun, Does
    <2>2. Sound(prog') /\ ~Open(prog') /\ Open(prog)
      BY <2>1, TailShape DEF WorkInv, Open
    <2>3. executing
      BY <2>1 DEF WorkInv
    <2> QED BY <2>1, <2>2, <2>3 DEF WorkInv
  <1>7. CASE Crash
    <2>1. /\ crashes' = crashes + 1 /\ executing' = FALSE /\ prog' = <<>> /\ nodes' = 0
          /\ UNCHANGED <<running, executions, escapes>>
      BY <1>7 DEF Crash
    <2>2. Sound(prog') /\ ~Open(prog')
      BY <2>1, NoProgram
    <2>3. running <= crashes + escapes + 1 /\ running \in Nat /\ crashes + 1 \in Nat
          /\ executions \in Nat /\ escapes \in Nat /\ crashes \in Nat
      BY DEF WorkInv
    <2>4. running' <= crashes' + escapes'
      BY <2>1, <2>3
    <2> QED BY <2>1, <2>2, <2>3, <2>4 DEF WorkInv
  <1>8. CASE WrapperRaises
    <2>1. /\ executing /\ escapes' = escapes + 1 /\ prog' = finalize("FAILED")
          /\ UNCHANGED <<executing, nodes, running, executions, crashes>>
      BY <1>8 DEF WrapperRaises
    <2>2. Sound(prog') /\ ~Open(prog')
      BY <2>1, EndShape DEF WorkerStatuses, SETTLED_STATUSES, TERMINAL_STATUSES
    <2>3. running <= crashes + escapes + 1 /\ running \in Nat /\ crashes \in Nat /\ escapes \in Nat
      BY DEF WorkInv
    <2>4. running' <= crashes' + escapes' /\ escapes' \in Nat
      BY <2>1, <2>3
    <2> QED BY <2>1, <2>2, <2>4 DEF WorkInv
  <1> QED BY <1>1, <1>2, <1>3, <1>4, <1>5, <1>6, <1>7, <1>8 DEF WorkerStep

-----------------------------------------------------------------------------
(* The task row and the decisions *)

AllStatuses == SETTLED_STATUSES \cup {"none", "QUEUED", "ACTIVE"}
ApprovalStatuses == {"PENDING", "APPROVED", "REJECTED"}
TxType == [pc : {"start", "checked", "ready", "open", "done", "failed"},
           kind : DecisionKinds, row : Nat]

(* The columns have their types; before the task exists no worker and no
   decision knows it; and it exists once the record is committed.  There is at
   most one open question. *)
TaskInv ==
  /\ status \in AllStatuses
  /\ approvals \in Seq(ApprovalStatuses)
  /\ tx \in [Requests -> TxType]
  /\ rollbacks \in Nat
  /\ status = "none" => ~executing /\ \A r \in Requests : tx[r].pc = "start"
  /\ key = NoRecord => status = "none"
  /\ \A i, j \in Pending : i = j

Inv == KeyInv /\ WorkInv /\ TaskInv

(* A decision that has ended. *)
LEMMA NoTxTyped ==
  /\ NoTx \in TxType
  /\ \A v \in {"done", "failed"} : [NoTx EXCEPT !.pc = v] \in TxType /\ [NoTx EXCEPT !.pc = v].pc = v
  BY DEF NoTx, TxType, DecisionKinds

(* Where a decision stands after a step of its own. *)
LEMMA TxMoves ==
  ASSUME TaskInv, NEW r \in Requests,
         \/ PendingFor(r) \/ Write(r) \/ Commit(r) \/ Rollback(r)
         \/ \E kind \in DecisionKinds : Check(r, kind)
  PROVE  /\ tx' \in [Requests -> TxType]
         /\ \A q \in Requests \ {r} : tx'[q] = tx[q]
         /\ tx'[r].pc # "start" /\ tx[r].pc \notin {"done", "failed"}
         /\ tx'[r].pc = "done" <=> Commit(r)
         /\ status # "none"
  <1>1. ASSUME NEW kind \in DecisionKinds, Check(r, kind)
        PROVE  /\ tx' \in [Requests -> TxType] /\ tx[r].pc = "start" /\ tx'[r].pc = "checked"
               /\ \A q \in Requests \ {r} : tx'[q] = tx[q]
               /\ status # "none"
    <2> DEFINE t == [NoTx EXCEPT !.pc = "checked", !.kind = kind]
    <2>1. t \in TxType /\ t.pc = "checked"
      BY NoTxTyped DEF TxType, NoTx
    <2>2. tx' = [tx EXCEPT ![r] = t]
      BY <1>1 DEF Check
    <2> HIDE DEF t
    <2> QED BY <1>1, <2>1, <2>2 DEF Check, TaskInv
  <1>2. CASE PendingFor(r)
    <2> DEFINE row == IF tx[r].kind = "cancel" \/ Pending = {} THEN 0 ELSE Max(Pending)
               t == [tx[r] EXCEPT !.pc = "ready", !.row = row]
    <2>1. row \in Nat
      <3>1. CASE Pending = {}
        BY <3>1
      <3>2. CASE Pending # {}
        <4>1. PICK i \in Pending : TRUE
          BY <3>2
        <4>2. Pending = {i} /\ i \in Nat
          <5>1. DOMAIN approvals = 1 .. Len(approvals)
            BY LenProperties DEF TaskInv
          <5> QED BY <4>1, <5>1 DEF TaskInv, Pending
        <4>3. Max(Pending) = i
          BY <4>2 DEF Max
        <4> QED BY <4>2, <4>3
      <3> QED BY <3>1, <3>2
    <2>2. tx' = [tx EXCEPT ![r] = t]
      BY <1>2 DEF PendingFor
    <2> HIDE DEF row
    <2>3. tx[r] \in TxType /\ tx[r].pc = "checked" /\ status # "none"
      BY <1>2 DEF PendingFor, TaskInv
    <2>4. t \in TxType /\ t.pc = "ready"
      BY <2>1, <2>3 DEF TxType
    <2> HIDE DEF t
    <2> QED BY <1>2, <2>2, <2>3, <2>4 DEF PendingFor, Write, Commit, Rollback, Check, TaskInv
  <1>3. CASE Write(r)
    <2>1. tx[r] \in TxType /\ tx[r].pc = "ready" /\ status # "none"
      BY <1>3 DEF Write, TaskInv
    <2>2. /\ tx' \in [Requests -> TxType] /\ tx'[r].pc = "open"
          /\ \A q \in Requests \ {r} : tx'[q] = tx[q]
      BY <1>3, <2>1 DEF Write, TaskInv, TxType
    <2> QED BY <2>1, <2>2 DEF Commit
  <1>4. CASE Commit(r) \/ Rollback(r)
    <2>1. PICK v \in {"done", "failed"} :
            tx' = [tx EXCEPT ![r] = [NoTx EXCEPT !.pc = v]] /\ (v = "done" <=> Commit(r))
      <3>1. CASE Commit(r)
        BY <3>1 DEF Commit
      <3>2. CASE Rollback(r)
        <4>1. tx' = [tx EXCEPT ![r] = [NoTx EXCEPT !.pc = "failed"]]
          BY <3>2 DEF Rollback
        <4>2. tx'[r].pc = "failed"
          BY <4>1, NoTxTyped DEF TaskInv
        <4>3. ~Commit(r)
          <5>1. ASSUME Commit(r) PROVE tx'[r].pc = "done"
            BY <5>1, NoTxTyped DEF Commit, TaskInv
          <5> QED BY <4>2, <5>1
        <4> QED BY <4>1, <4>3
      <3> QED BY <1>4, <3>1, <3>2
    <2>2. [NoTx EXCEPT !.pc = v] \in TxType /\ [NoTx EXCEPT !.pc = v].pc = v
      BY NoTxTyped
    <2>3. tx[r].pc = "open" /\ status # "none"
      BY <1>4 DEF Commit, Rollback, TaskInv
    <2>4. /\ tx' \in [Requests -> TxType] /\ tx'[r].pc = v
          /\ \A q \in Requests \ {r} : tx'[q] = tx[q]
      BY <2>1, <2>2 DEF TaskInv
    <2> QED BY <2>1, <2>3, <2>4
  <1>5. ASSUME NEW kind \in DecisionKinds, Check(r, kind) PROVE ~Commit(r)
    BY <1>5 DEF Check, Commit
  <1> QED BY <1>1, <1>2, <1>3, <1>4, <1>5

(* A verdict closes an open question and opens none. *)
LEMMA CommitCloses ==
  ASSUME TaskInv, NEW r \in Requests, Commit(r)
  PROVE  approvals' \in Seq(ApprovalStatuses) /\ Pending' \subseteq Pending
  <1>1. CASE tx[r].row \notin DOMAIN approvals \/ tx[r].row = 0
    <2>1. approvals' = approvals
      <3>1. [approvals EXCEPT ![tx[r].row] = Verdict(tx[r].kind)] = approvals \/ tx[r].row = 0
        BY <1>1 DEF TaskInv
      <3> QED BY <3>1 DEF Commit
    <2> QED BY <2>1 DEF TaskInv, Pending
  <1>2. CASE tx[r].row \in DOMAIN approvals /\ tx[r].row # 0
    <2> DEFINE v == Verdict(tx[r].kind)
               i == tx[r].row
    <2>1. v \in ApprovalStatuses /\ v # "PENDING"
      BY DEF Verdict, ApprovalStatuses
    <2>2. approvals' = [approvals EXCEPT ![i] = v]
      BY <1>2 DEF Commit
    <2>3. DOMAIN approvals = 1 .. Len(approvals) /\ approvals \in Seq(ApprovalStatuses)
      BY LenProperties DEF TaskInv
    <2> HIDE DEF v, i
    <2>4. i \in 1 .. Len(approvals)
      BY <1>2, <2>3 DEF i
    <2>5. approvals' \in Seq(ApprovalStatuses)
      BY <2>1, <2>2, <2>3, <2>4, ExceptSeq
    <2>6. DOMAIN approvals' = DOMAIN approvals
      BY <2>2
    <2>7. \A j \in DOMAIN approvals : approvals'[j] = IF j = i THEN v ELSE approvals[j]
      BY <2>2
    <2> QED BY <2>1, <2>5, <2>6, <2>7 DEF Pending
  <1> QED BY <1>1, <1>2

(* A question is asked only when none is open; afterwards one is. *)
LEMMA RequestAsksOnce ==
  ASSUME TaskInv, RequestApproval
  PROVE  /\ approvals' \in Seq(ApprovalStatuses) /\ Pending' # {}
         /\ \A i, j \in Pending' : i = j
  <1>1. CASE Pending # {}
    <2>1. approvals' = approvals
      BY <1>1 DEF RequestApproval
    <2> QED BY <1>1, <2>1 DEF TaskInv, Pending
  <1>2. CASE Pending = {}
    <2>1. approvals' = Append(approvals, "PENDING")
      BY <1>2 DEF RequestApproval
    <2>2. /\ DOMAIN approvals = 1 .. Len(approvals) /\ Len(approvals) \in Nat
          /\ approvals' \in Seq(ApprovalStatuses)
          /\ DOMAIN approvals' = 1 .. Len(approvals) + 1
          /\ \A i \in 1 .. Len(approvals) : approvals'[i] = approvals[i]
          /\ approvals'[Len(approvals) + 1] = "PENDING"
      BY <2>1, AppendProperties, LenProperties DEF TaskInv, ApprovalStatuses
    <2>3. \A i \in DOMAIN approvals : approvals[i] # "PENDING"
      BY <1>2 DEF Pending
    <2>4. Pending' = {Len(approvals) + 1}
      BY <2>2, <2>3 DEF Pending
    <2> QED BY <2>2, <2>4
  <1> QED BY <1>1, <1>2

(* The status that a worker writes. *)
LEMMA WrittenStatus ==
  ASSUME WorkInv, prog # <<>>
  PROVE  Head(prog).arg \in WorkerStatuses /\ executing
  <1>1. Head(prog) \in Ops
    BY TailShape DEF WorkInv
  <1> QED BY <1>1 DEF Ops, WorkInv

(* Every step keeps the task row, the decisions and the questions in order. *)
LEMMA NextTask == Inv /\ [Next]_vars => TaskInv'
  <1> SUFFICES ASSUME Inv, [Next]_vars PROVE TaskInv'
    OBVIOUS
  <1> USE DEF Inv
  <1>0. WorkerStatuses \subseteq AllStatuses \ {"none"}
    BY DEF WorkerStatuses, AllStatuses, SETTLED_STATUSES, TERMINAL_STATUSES
  <1>1. ASSUME NEW c \in Creates, CreateStep(c) \/ RollbackCreate(c) PROVE TaskInv'
    <2>1. CASE CommitCreate(c)
      <3>1. key' # NoRecord /\ status' = "QUEUED"
        BY <2>1, TaskApiAssumption DEF CommitCreate, KeyInv
      <3> QED BY <2>1, <3>1 DEF CommitCreate, TaskInv, AllStatuses, Pending
    <2>2. CASE RollbackCreate(c)
      BY <2>2 DEF RollbackCreate, TaskInv, Pending, workerVars
    <2>3. CASE Lookup(c) \/ Insert(c) \/ Retry(c)
      BY <2>3 DEF Lookup, Insert, Retry, TaskInv, Pending, workerVars
    <2> QED BY <1>1, <2>1, <2>2, <2>3 DEF CreateStep
  <1>2. ASSUME NEW r \in Requests, PendingFor(r) \/ Write(r) \/ Rollback(r) PROVE TaskInv'
    <2>1. tx' \in [Requests -> TxType] /\ status # "none"
      BY <1>2, TxMoves
    <2>2. /\ status' = status /\ approvals' = approvals /\ key' = key /\ executing' = executing
          /\ rollbacks' \in Nat
      BY <1>2 DEF PendingFor, Write, Rollback, workerVars, TaskInv
    <2> QED BY <2>1, <2>2 DEF TaskInv, Pending
  <1>3. ASSUME NEW r \in Requests, Commit(r) PROVE TaskInv'
    <2>1. tx' \in [Requests -> TxType] /\ status # "none"
      BY <1>3, TxMoves
    <2>2. tx[r].kind \in DecisionKinds
      BY DEF TaskInv, TxType
    <2>3. status' \in AllStatuses \ {"none"}
      BY <1>3, <2>2 DEF Commit, Outcome, DecisionKinds, AllStatuses, SETTLED_STATUSES, TERMINAL_STATUSES
    <2>4. key' = key /\ rollbacks' = rollbacks
      BY <1>3 DEF Commit
    <2> QED BY <1>3, <2>1, <2>3, <2>4, CommitCloses DEF TaskInv
  <1>4. ASSUME NEW r \in Requests, NEW kind \in DecisionKinds, Check(r, kind) PROVE TaskInv'
    <2>1. tx' \in [Requests -> TxType] /\ status # "none"
      BY <1>4, TxMoves
    <2>2. UNCHANGED <<status, approvals, key, executing, rollbacks>>
      BY <1>4 DEF Check, workerVars
    <2> QED BY <2>1, <2>2 DEF TaskInv, Pending
  <1>5. CASE Start
    BY <1>5 DEF Start, TaskInv, Pending, apiVars
  <1>6. CASE Checkpoint \/ Finalize
    <2>1. status' \in AllStatuses \ {"none"} /\ status # "none"
      BY <1>0, <1>6, WrittenStatus DEF Checkpoint, Finalize, Does, TaskInv
    <2>2. UNCHANGED <<tx, approvals, key, rollbacks>>
      BY <1>6 DEF Checkpoint, Finalize, apiVars
    <2> QED BY <2>1, <2>2 DEF TaskInv, Pending
  <1>7. CASE RequestApproval
    <2>1. UNCHANGED <<tx, status, key, rollbacks, executing>>
      BY <1>7 DEF RequestApproval, apiVars
    <2> QED BY <1>7, <2>1, RequestAsksOnce DEF TaskInv
  <1>8. CASE NextNode \/ StartAgentRun \/ FinishAgentRun \/ WrapperRaises \/ Crash
    <2>1. /\ UNCHANGED <<tx, status, key, rollbacks, approvals>>
          /\ executing' = executing \/ executing' = FALSE
      BY <1>8 DEF NextNode, StartAgentRun, FinishAgentRun, WrapperRaises, Crash, apiVars
    <2> QED BY <2>1 DEF TaskInv, Pending
  <1>9. CASE UNCHANGED vars
    BY <1>9 DEF vars, apiVars, workerVars, TaskInv, Pending
  <1> QED BY <1>1, <1>2, <1>3, <1>4, <1>5, <1>6, <1>7, <1>8, <1>9
       DEF Next, DecisionStep, WorkerStep

(* The worker's programs stay in order too. *)
LEMMA NextWork == Inv /\ [Next]_vars => WorkInv'
  <1> SUFFICES ASSUME Inv, [Next]_vars PROVE WorkInv'
    OBVIOUS
  <1>1. CASE Start \/ WorkerStep \/ WrapperRaises \/ Crash
    BY <1>1, WorkerWork DEF Inv
  <1>2. ASSUME UNCHANGED workerVars PROVE WorkInv'
    BY <1>2, WorkAside DEF Inv
  <1>3. CASE UNCHANGED vars
    BY <1>2, <1>3 DEF vars
  <1>4. ASSUME NEW c \in Creates, CreateStep(c) \/ RollbackCreate(c) PROVE WorkInv'
    BY <1>2, <1>4 DEF CreateStep, RollbackCreate, Lookup, Insert, CommitCreate, Retry
  <1>5. ASSUME NEW r \in Requests, DecisionStep(r) \/ Rollback(r) PROVE WorkInv'
    BY <1>2, <1>5 DEF DecisionStep, PendingFor, Write, Commit, Rollback
  <1>6. ASSUME NEW r \in Requests, NEW kind \in DecisionKinds, Check(r, kind) PROVE WorkInv'
    BY <1>2, <1>6 DEF Check
  <1> QED BY <1>1, <1>3, <1>4, <1>5, <1>6 DEF Next

(* The inductive invariant holds throughout. *)
LEMMA InvAlways == Spec => []Inv
  <1>1. Init => Inv
    <2> SUFFICES ASSUME Init PROVE Inv
      OBVIOUS
    <2>1. KeyInv
      BY DEF Init, KeyInv, CreateStates
    <2>2. WorkInv
      <3>1. Sound(prog) /\ ~Open(prog) /\ prog = <<>>
        BY NoProgram DEF Init
      <3>2. executing \in BOOLEAN
        BY DEF Init
      <3>3. running <= crashes + escapes
        BY DEF Init
      <3> QED BY <3>1, <3>2, <3>3 DEF Init, WorkInv
    <2>3. Pending = {} /\ approvals \in Seq(ApprovalStatuses)
      BY EmptySeq DEF Init, Pending
    <2>4. tx \in [Requests -> TxType] /\ \A r \in Requests : tx[r].pc = "start"
      BY DEF Init, NoTx, TxType, DecisionKinds
    <2>5. TaskInv
      BY <2>3, <2>4 DEF Init, TaskInv, AllStatuses
    <2> QED BY <2>1, <2>2, <2>5 DEF Inv
  <1>2. Inv /\ [Next]_vars => Inv'
    BY NextKey, NextWork, NextTask DEF Inv
  <1> QED BY <1>1, <1>2, PTL DEF Spec

(* The variables keep their types, and an agent run that stays RUNNING behind
   its node was left by a crash or by an exception of the wrapper, which leave
   at most one each: a node that raises finishes its run. *)
THEOREM TypeCorrect == Spec => []TypeOK
  <1>1. Inv => TypeOK
    <2> SUFFICES ASSUME Inv PROVE TypeOK
      OBVIOUS
    <2>1. prog = <<>> => ~Open(prog)
      BY NoProgram
    <2>2. running <= crashes + escapes + (IF prog = <<>> THEN 0 ELSE 1)
      <3>1. CASE prog = <<>>
        BY <2>1, <3>1 DEF Inv, WorkInv
      <3>2. CASE prog # <<>>
        <4>1. running <= crashes + escapes + 1
          BY DEF Inv, WorkInv
        <4> QED BY <3>2, <4>1
      <3> QED BY <3>1, <3>2
    <2>3. /\ nodes \in Nat /\ running \in Nat /\ executions \in Nat /\ crashes \in Nat
          /\ escapes \in Nat /\ executing \in BOOLEAN /\ prog \in Seq(Ops)
      BY DEF Inv, WorkInv, Sound
    <2> QED BY <2>2, <2>3
         DEF Inv, KeyInv, TaskInv, TypeOK, CreateStates, AllStatuses, ApprovalStatuses, TxType,
             Ops, WorkerStatuses
  <1> QED BY <1>1, InvAlways, PTL

-----------------------------------------------------------------------------
(* Open questions *)

Undisturbed == crashes = 0 /\ \A r \in Requests : tx[r].pc # "done"

(* As long as no worker died and no decision was taken, a question that was
   asked is open, and a task that is parked for review, and a program that will
   park it and has nothing left to ask, has one. *)
QuestionInv ==
  Undisturbed =>
    /\ approvals # <<>> => Pending # {}
    /\ status = "READY_FOR_REVIEW" /\ ~executing => Pending # {}
    /\ Parks(prog) /\ ~Has(prog, "approval") => Pending # {}

(* Steps that leave the worker and the questions alone and take no decision. *)
LEMMA QuestionAside ==
  ASSUME QuestionInv, UNCHANGED <<status, executing, prog, crashes, approvals>>,
         \A r \in Requests : tx[r].pc = "done" => tx'[r].pc = "done"
  PROVE  QuestionInv'
  BY DEF QuestionInv, Undisturbed, Pending

(* A question stays open until a decision is taken, and the worker parks the
   task only behind its question. *)
LEMMA NextQuestion == Inv /\ QuestionInv /\ [Next]_vars => QuestionInv'
  <1> SUFFICES ASSUME Inv, QuestionInv, [Next]_vars PROVE QuestionInv'
    OBVIOUS
  <1>1. ASSUME NEW c \in Creates, CreateStep(c) \/ RollbackCreate(c) PROVE QuestionInv'
    <2>1. CASE CommitCreate(c)
      BY <2>1 DEF CommitCreate, workerVars, QuestionInv, Undisturbed, Pending
    <2> QED BY <1>1, <2>1, QuestionAside
         DEF CreateStep, RollbackCreate, Lookup, Insert, Retry, workerVars
  <1>2. ASSUME NEW r \in Requests,
               \/ PendingFor(r) \/ Write(r) \/ Rollback(r)
               \/ \E kind \in DecisionKinds : Check(r, kind)
        PROVE  QuestionInv'
    <2>1. \A q \in Requests : tx[q].pc = "done" => tx'[q].pc = "done"
      BY <1>2, TxMoves DEF Inv
    <2>2. UNCHANGED <<status, executing, prog, crashes, approvals>>
      BY <1>2 DEF PendingFor, Write, Rollback, Check, workerVars
    <2> QED BY <2>1, <2>2, QuestionAside
  <1>3. ASSUME NEW r \in Requests, Commit(r) PROVE QuestionInv'
    <2>1. tx'[r].pc = "done"
      BY <1>3, TxMoves DEF Inv
    <2> QED BY <2>1 DEF QuestionInv, Undisturbed
  <1>4. CASE Start
    BY <1>4 DEF Start, apiVars, QuestionInv, Undisturbed, Pending
  <1>5. CASE NextNode
    <2>1. /\ executing' = executing /\ executing
          /\ Parks(prog') => Has(prog', "approval") \/ approvals # <<>>
          /\ UNCHANGED <<approvals, tx, crashes>>
      BY <1>5, NextNodeFresh DEF NextNode, Fresh, apiVars
    <2> QED BY <2>1 DEF QuestionInv, Undisturbed, Pending
  <1>6. CASE Checkpoint \/ StartAgentRun \/ FinishAgentRun
    <2>1. /\ prog # <<>> /\ prog' = Tail(prog)
          /\ Head(prog).op \in {"status", "start", "finish"}
          /\ UNCHANGED <<approvals, tx, executing, crashes>>
      BY <1>6 DEF Checkpoint, StartAgentRun, FinishAgentRun, Does, apiVars
    <2>2. /\ Parks(prog') <=> Parks(prog)
          /\ Has(prog', "approval") <=> Has(prog, "approval")
      BY <2>1, TailShape DEF Inv, WorkInv
    <2>3. executing
      BY <2>1 DEF Inv, WorkInv
    <2> QED BY <2>1, <2>2, <2>3 DEF QuestionInv, Undisturbed, Pending
  <1>7. CASE Finalize
    <2>1. /\ prog # <<>> /\ prog' = Tail(prog) /\ Head(prog).op = "finalize"
          /\ status' = Head(prog).arg /\ UNCHANGED <<approvals, tx, crashes>>
      BY <1>7 DEF Finalize, Does, apiVars
    <2>2. /\ prog' = <<>>
          /\ status' = "READY_FOR_REVIEW" => Parks(prog) /\ ~Has(prog, "approval")
      BY <2>1, TailShape DEF Inv, WorkInv
    <2>3. ~Parks(prog')
      BY <2>2, NoProgram
    <2> QED BY <2>1, <2>2, <2>3 DEF QuestionInv, Undisturbed, Pending
  <1>8. CASE RequestApproval
    BY <1>8, RequestAsksOnce DEF Inv, QuestionInv
  <1>9. CASE Crash
    <2>1. crashes' # 0
      BY <1>9 DEF Crash, Inv, WorkInv
    <2> QED BY <2>1 DEF QuestionInv, Undisturbed
  <1>10. CASE WrapperRaises
    <2>1. /\ executing /\ prog' = finalize("FAILED")
          /\ UNCHANGED <<approvals, tx, crashes, executing>>
      BY <1>10 DEF WrapperRaises, apiVars
    <2>2. ~Parks(prog')
      BY <2>1, EndShape DEF WorkerStatuses, SETTLED_STATUSES, TERMINAL_STATUSES
    <2> QED BY <2>1, <2>2 DEF QuestionInv, Undisturbed, Pending
  <1>11. CASE UNCHANGED vars
    BY <1>11, QuestionAside DEF vars, apiVars, workerVars
  <1> QED BY <1>1, <1>2, <1>3, <1>4, <1>5, <1>6, <1>7, <1>8, <1>9, <1>10, <1>11
       DEF Next, DecisionStep, WorkerStep

(* A human is never asked twice at once, and a task parked for review is always
   waiting for an answer to a question that exists, unless a worker died or a
   decision was taken. *)
THEOREM QuestionOpen == Spec => []OneOpenQuestion
  <1>1. Init => QuestionInv
    BY NoProgram DEF Init, QuestionInv
  <1>2. Inv /\ QuestionInv => OneOpenQuestion
    <2> SUFFICES ASSUME Inv, QuestionInv PROVE OneOpenQuestion
      OBVIOUS
    <2>1. Cardinality(Pending) <= 1
      <3>1. CASE Pending = {}
        BY <3>1, FS_EmptySet
      <3>2. CASE Pending # {}
        <4>1. PICK i \in Pending : TRUE
          BY <3>2
        <4>2. Pending = {i}
          BY <4>1 DEF Inv, TaskInv
        <4>3. Cardinality({i}) = 1
          BY FS_Singleton
        <4> QED BY <4>2, <4>3
      <3> QED BY <3>1, <3>2
    <2> QED BY <2>1 DEF OneOpenQuestion, QuestionInv, Undisturbed
  <1> QED BY <1>1, <1>2, NextQuestion, InvAlways, PTL DEF Spec

-----------------------------------------------------------------------------
(* Decisions *)

(* Nothing in flight can move a task that was decided: the worker has no
   program, no transaction is open, and a new one is not admitted. *)
LEMMA FinalSticks == Inv /\ [Next]_vars => (Final => Final' /\ status' = status)
  <1> SUFFICES ASSUME Inv, [Next]_vars, Final PROVE Final' /\ status' = status
    OBVIOUS
  <1>1. status \in TERMINAL_STATUSES /\ status # "none" /\ prog = <<>> /\ key # NoRecord
    BY DEF Final, Inv, WorkInv, TaskInv, TERMINAL_STATUSES
  <1>2. ASSUME UNCHANGED <<status, executing, tx>> PROVE Final' /\ status' = status
    BY <1>2 DEF Final
  <1>3. ASSUME NEW c \in Creates, CreateStep(c) \/ RollbackCreate(c)
        PROVE  Final' /\ status' = status
    <2>1. ~CommitCreate(c)
      BY <1>1 DEF CommitCreate, Inv, KeyInv
    <2> QED BY <1>2, <1>3, <2>1
         DEF CreateStep, RollbackCreate, Lookup, Insert, Retry, workerVars
  <1>4. ASSUME NEW r \in Requests PROVE ~DecisionStep(r) /\ ~Rollback(r)
    BY DEF Final, DecisionStep, PendingFor, Write, Commit, Rollback
  <1>5. ASSUME NEW r \in Requests, NEW kind \in DecisionKinds PROVE ~Check(r, kind)
    <2>1. status \in TERMINAL_STATUSES \ {"HUMAN_REVIEW_REQUIRED"} /\ status # "READY_FOR_REVIEW"
      BY DEF Final, TERMINAL_STATUSES
    <2>2. CASE kind = "approve"
      BY <2>1, <2>2 DEF Check, Admits
    <2>3. CASE kind = "reject"
      BY <2>1, <2>3 DEF Check, Admits
    <2>4. CASE kind = "cancel"
      BY <2>1, <2>4 DEF Check, Admits
    <2> QED BY <2>2, <2>3, <2>4 DEF DecisionKinds
  <1>6. ~Start /\ ~WorkerStep /\ ~WrapperRaises /\ ~Crash
    BY <1>1 DEF Final, Start, WorkerStep, WrapperRaises, Crash, NextNode, Checkpoint, Finalize, RequestApproval,
       StartAgentRun, FinishAgentRun, Does
  <1>7. CASE UNCHANGED vars
    BY <1>2, <1>7 DEF vars, apiVars, workerVars
  <1> QED BY <1>3, <1>4, <1>5, <1>6, <1>7 DEF Next

(* A decision is final once no execution and no request that was admitted
   earlier is left: no message, sweep, retry or later request undoes it. *)
THEOREM DecisionFinal == Spec => DecisionsStick
  BY FinalSticks, InvAlways, PTL DEF Spec, DecisionsStick

=============================================================================
