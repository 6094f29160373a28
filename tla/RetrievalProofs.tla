-------------------------- MODULE RetrievalProofs --------------------------
(***************************************************************************)
(* Proofs about Retrieval: for any number of overlapping index requests,   *)
(* a request replaces the rows it saw and the first index of a repository  *)
(* has one winner; for every text, windows cover it and overlap, and its   *)
(* symbols nest.                                                           *)
(*                                                                         *)
(* Texts have any length. The facts about all lines of a text come from    *)
(* the least line at which one of them would fail (LeastIs, Climb), and    *)
(* those about all windows from the least set closed under the loop.       *)
(***************************************************************************)
EXTENDS Retrieval, FiniteSetTheorems, SequenceTheorems, WellFoundedInduction, TLAPS

-----------------------------------------------------------------------------
(* The inductive invariant *)

(* The repositories row stands before a request takes the path of an        *)
(* existing repository; without it there are no chunks.                     *)
RepoInv ==
  /\ pc \in [Indexers -> {"start", "upsert", "insert_repo", "delete", "wait", "commit",
                          "done", "failed"} \cup HoldsKey]
  /\ repo \in BOOLEAN
  /\ ~repo => table = {}
  /\ \A i \in Indexers : pc[i] \in {"delete", "wait", "commit"} => repo
  /\ \A i \in Indexers : pc[i] \in HoldsKey => ~repo
  /\ \A i, j \in Indexers : pc[i] \in HoldsKey /\ pc[j] \in HoldsKey => i = j

(* Rows bear the request that made them, and only those of a request that   *)
(* has committed are stored or seen by another.                             *)
RowsInv ==
  /\ DOMAIN chunks = Indexers /\ DOMAIN snap = Indexers /\ DOMAIN deleted = Indexers
  /\ \A i \in Indexers : \A r \in chunks[i] : r.by = i
  /\ \A r \in table : r.by \in Indexers => pc[r.by] = "done"
  /\ \A i \in Indexers : \A r \in snap[i] : r.by \in Indexers => pc[r.by] = "done"

(* Between a request's DELETE and its commit, all that is left of the rows  *)
(* it saw is what it will delete.                                           *)
SeenInv ==
  /\ latest # NoOne => latest \in Indexers /\ pc[latest] = "done"
  /\ \A i \in Indexers : pc[i] \in {"commit", "new_repo_commit"} =>
       snap[i] \cap table \subseteq deleted[i]
  /\ SeenRowsReplaced

ReplaceInv == RepoInv /\ RowsInv /\ SeenInv

(* Whatever the parsers make of a file, the rows of a request bear it. *)
LEMMA ChunksBear ==
  ASSUME NEW i, NEW files PROVE \A r \in Chunks(i, files) : r.by = i
BY DEF Chunks

(* Before the first request the rows, if any, belong to no request. *)
LEMMA InitReplace == Init => ReplaceInv
<1> SUFFICES ASSUME Init PROVE ReplaceInv
  OBVIOUS
<1>1. \A r \in table : r.by = NoOne
  BY ChunksBear DEF Init
<1>2. RepoInv
  BY DEF Init, RepoInv, HoldsKey
<1>3. RowsInv
  BY <1>1, RetrievalAssumption DEF Init, RowsInv
<1>4. SeenInv
  BY DEF Init, SeenInv, SeenRowsReplaced
<1> QED BY <1>2, <1>3, <1>4 DEF ReplaceInv

(* A step of one request that stores nothing and neither starts nor ends    *)
(* the span between its DELETE and its commit: the rows stand as they did.  *)
LEMMA RowsStand ==
  ASSUME ReplaceInv, NEW i \in Indexers, pc[i] # "done", NEW s,
         s \notin {"done", "commit", "new_repo_commit"},
         pc' = [pc EXCEPT ![i] = s],
         UNCHANGED <<chunks, snap, table, latest>>,
         DOMAIN deleted' = Indexers, \A j \in Indexers \ {i} : deleted'[j] = deleted[j]
  PROVE  RowsInv' /\ SeenInv'
<1>1. \A j \in Indexers : pc'[j] = IF j = i THEN s ELSE pc[j]
  BY DEF ReplaceInv, RepoInv
<1>2. RowsInv'
  BY <1>1 DEF ReplaceInv, RowsInv
<1>3. SeenInv'
  BY <1>1 DEF ReplaceInv, SeenInv, SeenRowsReplaced
<1> QED BY <1>2, <1>3

(* Scanning and cutting make rows that nobody else sees yet. *)
LEMMA ScanReplace ==
  ASSUME ReplaceInv, NEW i \in Indexers, NEW u, scan_repository(i, u) PROVE ReplaceInv'
<1>1. \A j \in Indexers : pc'[j] = IF j = i THEN "upsert" ELSE pc[j]
  BY DEF scan_repository, ReplaceInv, RepoInv
<1> DEFINE new == Chunks(i, (Files \ Skipped) \ u)
<1>2. \A r \in new : r.by = i
  BY ChunksBear
<1>3. chunks' = [chunks EXCEPT ![i] = new]
  BY DEF scan_repository
<1> HIDE DEF new
<1>4. pc[i] = "start" /\ pc' = [pc EXCEPT ![i] = "upsert"]
      /\ UNCHANGED <<disk, snap, deleted, table, repo, chunk_count, latest>>
  BY DEF scan_repository
<1>5. RepoInv'
  BY <1>1, <1>4 DEF ReplaceInv, RepoInv, HoldsKey
<1>6. RowsInv'
  BY <1>1, <1>2, <1>3, <1>4 DEF ReplaceInv, RowsInv
<1>7. SeenInv'
  BY <1>1, <1>4 DEF ReplaceInv, SeenInv, SeenRowsReplaced
<1> QED BY <1>5, <1>6, <1>7 DEF ReplaceInv

(* A request that finds the repositories row goes on to the DELETE. *)
LEMMA UpsertReplace ==
  ASSUME ReplaceInv, NEW i \in Indexers, upsert(i) PROVE ReplaceInv'
<1> DEFINE s == IF repo THEN "delete" ELSE "insert_repo"
<1>1. pc[i] = "upsert" /\ pc' = [pc EXCEPT ![i] = s]
      /\ UNCHANGED <<disk, chunks, snap, deleted, table, repo, chunk_count, latest>>
  BY DEF upsert
<1>2. s \in {"delete", "insert_repo"} /\ (s = "delete" => repo)
  OBVIOUS
<1> HIDE DEF s
<1>3. RepoInv'
  BY <1>1, <1>2 DEF ReplaceInv, RepoInv, HoldsKey
<1>4. RowsInv' /\ SeenInv'
  BY <1>1, <1>2, RowsStand DEF ReplaceInv, RowsInv
<1> QED BY <1>3, <1>4 DEF ReplaceInv

(* One request at a time holds the key of a new repositories row. *)
LEMMA InsertRepoReplace ==
  ASSUME ReplaceInv, NEW i \in Indexers, InsertRepo(i) PROVE ReplaceInv'
<1> DEFINE s == IF repo THEN "failed" ELSE "new_repo_delete"
<1>1. pc[i] = "insert_repo" /\ pc' = [pc EXCEPT ![i] = s]
      /\ UNCHANGED <<disk, chunks, snap, deleted, table, repo, chunk_count, latest>>
  BY DEF InsertRepo
<1>2. s \in {"failed", "new_repo_delete"} /\ (s = "new_repo_delete" => ~repo)
  OBVIOUS
<1>3. \A j \in Indexers : pc[j] \notin HoldsKey
  BY DEF InsertRepo
<1> HIDE DEF s
<1>4. RepoInv'
  BY <1>1, <1>2, <1>3 DEF ReplaceInv, RepoInv, HoldsKey
<1>5. RowsInv' /\ SeenInv'
  BY <1>1, <1>2, RowsStand DEF ReplaceInv, RowsInv
<1> QED BY <1>4, <1>5 DEF ReplaceInv

(* The DELETE sees committed rows only. *)
LEMMA DeleteSeesReplace ==
  ASSUME ReplaceInv, NEW i \in Indexers, DeleteSees(i) PROVE ReplaceInv'
<1> DEFINE s == IF pc[i] = "delete" THEN "wait" ELSE "new_repo_wait"
<1>1. pc[i] \in {"delete", "new_repo_delete"} /\ pc' = [pc EXCEPT ![i] = s]
      /\ snap' = [snap EXCEPT ![i] = table]
      /\ UNCHANGED <<disk, chunks, deleted, table, repo, chunk_count, latest>>
  BY DEF DeleteSees
<1>2. (s = "wait" /\ pc[i] = "delete") \/ (s = "new_repo_wait" /\ pc[i] = "new_repo_delete")
  BY <1>1
<1> HIDE DEF s
<1>3. \A j \in Indexers : pc'[j] = IF j = i THEN s ELSE pc[j]
  BY <1>1 DEF ReplaceInv, RepoInv
<1>4. \A j \in Indexers : snap'[j] = IF j = i THEN table ELSE snap[j]
  BY <1>1 DEF ReplaceInv, RowsInv
<1>5. RepoInv'
  BY <1>1, <1>2, <1>3 DEF ReplaceInv, RepoInv, HoldsKey
<1>6. RowsInv'
  BY <1>1, <1>2, <1>3, <1>4 DEF ReplaceInv, RowsInv
<1>7. SeenInv'
  BY <1>1, <1>2, <1>3, <1>4 DEF ReplaceInv, SeenInv, SeenRowsReplaced
<1> QED BY <1>5, <1>6, <1>7 DEF ReplaceInv

(* The DELETE takes all that is left of the rows it saw. *)
LEMMA DeleteRowsReplace ==
  ASSUME ReplaceInv, NEW i \in Indexers, DeleteRows(i) PROVE ReplaceInv'
<1> DEFINE s == IF pc[i] = "wait" THEN "commit" ELSE "new_repo_commit"
<1>1. pc[i] \in {"wait", "new_repo_wait"} /\ pc' = [pc EXCEPT ![i] = s]
      /\ deleted' = [deleted EXCEPT ![i] = snap[i] \cap table]
      /\ UNCHANGED <<disk, chunks, snap, table, repo, chunk_count, latest>>
  BY DEF DeleteRows
<1>2. (s = "commit" /\ pc[i] = "wait") \/ (s = "new_repo_commit" /\ pc[i] = "new_repo_wait")
  BY <1>1
<1> HIDE DEF s
<1>3. \A j \in Indexers : pc'[j] = IF j = i THEN s ELSE pc[j]
  BY <1>1 DEF ReplaceInv, RepoInv
<1>4. \A j \in Indexers : deleted'[j] = IF j = i THEN snap[i] \cap table ELSE deleted[j]
  BY <1>1 DEF ReplaceInv, RowsInv
<1>5. RepoInv'
  BY <1>1, <1>2, <1>3 DEF ReplaceInv, RepoInv, HoldsKey
<1>6. RowsInv'
  BY <1>1, <1>2, <1>3 DEF ReplaceInv, RowsInv
<1>7. SeenInv'
  BY <1>1, <1>2, <1>3, <1>4 DEF ReplaceInv, SeenInv, SeenRowsReplaced
<1> QED BY <1>5, <1>6, <1>7 DEF ReplaceInv

(* The commit: what it leaves of the rows it saw is nothing, and its own    *)
(* rows were seen by nobody.                                                *)
LEMMA CommitReplace ==
  ASSUME ReplaceInv, NEW i \in Indexers, Commit(i) PROVE ReplaceInv'
<1>1. /\ pc[i] \in {"commit", "new_repo_commit"} /\ pc' = [pc EXCEPT ![i] = "done"]
      /\ table' = (table \ deleted[i]) \cup chunks[i] /\ repo' = TRUE /\ latest' = i
      /\ deleted' = [deleted EXCEPT ![i] = {}] /\ UNCHANGED <<disk, chunks, snap>>
  BY DEF Commit
<1>2. \A j \in Indexers : pc'[j] = IF j = i THEN "done" ELSE pc[j]
  BY <1>1 DEF ReplaceInv, RepoInv
<1>3. \A j \in Indexers : deleted'[j] = IF j = i THEN {} ELSE deleted[j]
  BY <1>1 DEF ReplaceInv, RowsInv
<1>4. RepoInv'
  BY <1>1, <1>2 DEF ReplaceInv, RepoInv, HoldsKey
<1>5. RowsInv'
  <2>1. \A r \in table' : r.by \in Indexers => pc'[r.by] = "done"
    BY <1>1, <1>2 DEF ReplaceInv, RowsInv
  <2> QED BY <1>1, <1>2, <2>1 DEF ReplaceInv, RowsInv
<1>6. SeenInv'
  <2>1. \A r \in table' : r.by = i \/ r \notin snap[i]
    BY <1>1 DEF ReplaceInv, SeenInv, RowsInv
  <2>2. ASSUME NEW j \in Indexers, pc'[j] \in {"commit", "new_repo_commit"}
        PROVE  snap'[j] \cap table' \subseteq deleted'[j]
    <3>1. j # i /\ pc[j] = pc'[j] /\ deleted'[j] = deleted[j] /\ snap'[j] = snap[j]
      BY <1>1, <1>2, <1>3, <2>2
    <3>2. snap[j] \cap chunks[i] = {}
      BY <1>1 DEF ReplaceInv, RowsInv
    <3>3. snap[j] \cap table \subseteq deleted[j]
      BY <2>2, <3>1 DEF ReplaceInv, SeenInv
    <3> QED BY <1>1, <3>1, <3>2, <3>3
  <2> QED BY <1>1, <1>2, <2>1, <2>2 DEF SeenInv, SeenRowsReplaced
<1> QED BY <1>4, <1>5, <1>6 DEF ReplaceInv

(* A request that fails leaves the rows as they were. *)
LEMMA RollbackReplace ==
  ASSUME ReplaceInv, NEW i \in Indexers, Rollback(i) PROVE ReplaceInv'
<1>1. pc[i] \notin {"start", "done", "failed"} /\ pc' = [pc EXCEPT ![i] = "failed"]
      /\ deleted' = [deleted EXCEPT ![i] = {}]
      /\ UNCHANGED <<disk, chunks, snap, table, repo, chunk_count, latest>>
  BY DEF Rollback
<1>2. RepoInv'
  BY <1>1 DEF ReplaceInv, RepoInv, HoldsKey
<1>3. RowsInv' /\ SeenInv'
  BY <1>1, RowsStand DEF ReplaceInv, RowsInv
<1> QED BY <1>2, <1>3 DEF ReplaceInv

(* Every step keeps the invariant. *)
LEMMA NextReplace == ReplaceInv /\ [Next]_vars => ReplaceInv'
<1> SUFFICES ASSUME ReplaceInv, [Next]_vars PROVE ReplaceInv'
  OBVIOUS
<1>1. ASSUME NEW i \in Indexers, Step(i) PROVE ReplaceInv'
  <2>1. CASE \E u \in SUBSET Unreadable : scan_repository(i, u)
    BY <2>1, ScanReplace
  <2> QED BY <1>1, <2>1, UpsertReplace, InsertRepoReplace, DeleteSeesReplace, DeleteRowsReplace,
             CommitReplace DEF Step
<1>2. ASSUME NEW i \in Indexers, Rollback(i) PROVE ReplaceInv'
  BY <1>2, RollbackReplace
<1>3. ASSUME NEW f \in Files, Edit(f) PROVE ReplaceInv'
  BY <1>3 DEF Edit, ReplaceInv, RepoInv, RowsInv, SeenInv, SeenRowsReplaced
<1>4. CASE UNCHANGED vars
  BY <1>4 DEF vars, ReplaceInv, RepoInv, RowsInv, SeenInv, SeenRowsReplaced
<1> QED BY <1>1, <1>2, <1>3, <1>4 DEF Next

(* Hence it holds all along. *)
LEMMA ReplaceInvariance == Spec => []ReplaceInv
BY InitReplace, NextReplace, PTL DEF Spec

(* However many index requests overlap, fail or roll back, and whatever the *)
(* repository holds: of the rows the latest request saw none is left, and   *)
(* requests that index a repository for the first time do not mix.          *)
THEOREM IndexIsReplaced == Spec => []IndexReplaced
<1>1. ReplaceInv => IndexReplaced
  BY DEF ReplaceInv, RepoInv, SeenInv, IndexReplaced, FirstIndexIsOne
<1> QED BY <1>1, ReplaceInvariance, PTL

-----------------------------------------------------------------------------
(* Texts *)

(* Least is the least element of a set of naturals. *)
LEMMA LeastIs ==
  ASSUME NEW T \in SUBSET Nat, T # {}
  PROVE  Least(T) \in T /\ \A k \in T : Least(T) <= k
<1>1. \E m \in T : \A k \in T : ~ (<<k, m>> \in OpToRel(<, Nat))
  BY NatLessThanWellFounded, WFMin
<1>2. PICK m \in T : \A k \in T : ~ (<<k, m>> \in OpToRel(<, Nat))
  BY <1>1
<1>3. OpToRel(<, Nat) = {ss \in Nat \X Nat : ss[1] < ss[2]}
  BY Zenon DEF OpToRel
<1>4. \A k \in T : k < m => <<k, m>> \in {ss \in Nat \X Nat : ss[1] < ss[2]}
  OBVIOUS
<1>5. \A k \in T : ~(k < m)
  BY <1>2, <1>3, <1>4
<1>6. \A k \in T : m <= k
  BY <1>5
<1> QED BY <1>6 DEF Least

(* Induction along the lines of a text: what holds of line a and passes     *)
(* from each line to the next holds up to line b.                           *)
LEMMA Climb ==
  ASSUME NEW a \in Nat, NEW b \in Nat, NEW S, a <= b => a \in S,
         \A n \in (a + 1) .. b : n - 1 \in S => n \in S
  PROVE  \A n \in a .. b : n \in S
<1> DEFINE T == {n \in a .. b : n \notin S}
<1>1. T \in SUBSET Nat
  OBVIOUS
<1>2. ASSUME T # {} PROVE FALSE
  <2> DEFINE m == Least(T)
  <2>1. m \in T /\ \A k \in T : m <= k
    <3> HIDE DEF T
    <3> QED BY <1>1, <1>2, LeastIs
  <2>2. m \in a .. b /\ m \notin S
    BY <2>1
  <2> HIDE DEF m
  <2>3. m \in (a + 1) .. b /\ m - 1 \in a .. b
    BY <2>2
  <2>4. m - 1 \notin T
    <3>1. \A k \in T : ~(k < m)
      BY <1>1, <2>1, <2>2
    <3> QED BY <2>3, <3>1
  <2>5. m - 1 \in S
    BY <2>3, <2>4
  <2> QED BY <2>2, <2>3, <2>5
<1> QED BY <1>2

(* A text is indexed from 1 and its lines are lines. *)
LEMMA TextIs ==
  ASSUME NEW lines \in Seq(Line)
  PROVE  /\ Len(lines) \in Nat /\ DOMAIN lines = 1 .. Len(lines)
         /\ \A n \in 1 .. Len(lines) :
              /\ lines[n] \in Line /\ lines[n].indent \in Nat /\ (lines[n].def => ~lines[n].blank)
<1>1. /\ Len(lines) \in Nat /\ DOMAIN lines = 1 .. Len(lines)
      /\ \A n \in 1 .. Len(lines) : lines[n] \in Line
  BY LenProperties, ElementOfSeq
<1> QED BY <1>1 DEF Line

(* The lines of a text are lines, and its braces come in the order of their *)
(* lines.                                                                   *)
LEMMA BracesAre ==
  ASSUME NEW text \in Text
  PROVE  /\ text.lines \in Seq(Line) /\ text.braces \in Seq(Brace)
         /\ \A p, q \in DOMAIN text.braces : p <= q => text.braces[p].line <= text.braces[q].line
         /\ Len(text.lines) \in Nat
         /\ \A p \in DOMAIN text.braces : text.braces[p].line \in 1 .. Len(text.lines)
<1>1. /\ text.lines \in Seq(Line) /\ text.braces \in Seq(Brace)
      /\ \A p \in DOMAIN text.braces :
           /\ text.braces[p].line <= Len(text.lines)
           /\ \A q \in DOMAIN text.braces : p <= q => text.braces[p].line <= text.braces[q].line
  BY DEF Text
<1>2. Len(text.lines) \in Nat
  BY <1>1, TextIs
<1>3. \A p \in DOMAIN text.braces : text.braces[p] \in Brace
  BY <1>1, LenProperties, ElementOfSeq
<1>4. \A x \in Brace : x.line \in Nat \ {0}
  BY DEF Brace
<1>5. \A p \in DOMAIN text.braces : text.braces[p].line \in 1 .. Len(text.lines)
  BY <1>1, <1>2, <1>3, <1>4
<1> QED BY <1>1, <1>2, <1>5

(* Braces are numbered from 1, and each opens or closes. *)
LEMMA BraceSeqIs ==
  ASSUME NEW braces \in Seq(Brace)
  PROVE  /\ Len(braces) \in Nat /\ DOMAIN braces = 1 .. Len(braces)
         /\ \A n \in 1 .. Len(braces) : ~Opens(braces[n]) <=> Closes(braces[n])
<1>1. /\ Len(braces) \in Nat /\ DOMAIN braces = 1 .. Len(braces)
      /\ \A n \in 1 .. Len(braces) : braces[n] \in Brace
  BY LenProperties, ElementOfSeq
<1>2. \A b \in Brace : b.brace \in {"{", "}"}
  BY Zenon DEF Brace
<1>3. \A b \in Brace : ~Opens(b) <=> Closes(b)
  BY <1>2, Zenon DEF Opens, Closes
<1> QED BY <1>1, <1>3

(* The end _parse_python gives a definition is a line of the text before    *)
(* the first filled line that is indented no deeper, if there is one.       *)
LEMMA PythonEndIs ==
  ASSUME NEW lines \in Seq(Line), NEW n \in 1 .. Len(lines)
  PROVE  /\ PythonEnd(lines, n) \in n .. Len(lines)
         /\ \A k \in (n + 1) .. PythonEnd(lines, n) :
              lines[k].blank \/ lines[k].indent > lines[n].indent
         /\ PythonEnd(lines, n) < Len(lines) =>
              /\ ~lines[PythonEnd(lines, n) + 1].blank
              /\ lines[PythonEnd(lines, n) + 1].indent <= lines[n].indent
<1> DEFINE ends == {k \in (n + 1) .. Len(lines) : ~lines[k].blank /\ lines[k].indent <= lines[n].indent}
<1>1. /\ Len(lines) \in Nat
      /\ \A k \in 1 .. Len(lines) : lines[k].indent \in Nat
  BY TextIs
<1>2. PythonEnd(lines, n) = IF ends = {} THEN Len(lines) ELSE Least(ends) - 1
  BY DEF PythonEnd
<1>3. ends \in SUBSET Nat /\ ends \subseteq (n + 1) .. Len(lines)
  BY <1>1
<1>4. \A k \in (n + 1) .. Len(lines) : k \notin ends => lines[k].blank \/ lines[k].indent > lines[n].indent
  BY <1>1
<1>5. CASE ends = {}
  BY <1>1, <1>2, <1>4, <1>5
<1>6. CASE ends # {}
  <2>1. Least(ends) \in ends /\ \A k \in ends : Least(ends) <= k
    BY <1>3, <1>6, LeastIs
  <2>2. /\ Least(ends) \in (n + 1) .. Len(lines) /\ ~lines[Least(ends)].blank
        /\ lines[Least(ends)].indent <= lines[n].indent
    BY <2>1
  <2> DEFINE m == Least(ends)
  <2>3. PythonEnd(lines, n) = m - 1
    BY <1>2, <1>6
  <2>4. \A k \in (n + 1) .. (m - 1) : k \notin ends /\ k \in (n + 1) .. Len(lines)
    BY <1>1, <2>1, <2>2
  <2> HIDE DEF m, ends
  <2>5. m - 1 \in n .. Len(lines) /\ (m - 1) + 1 = m
    BY <1>1, <2>2 DEF m
  <2> QED BY <1>4, <2>2, <2>3, <2>4, <2>5 DEF m
<1> QED BY <1>5, <1>6

(* The braces from a line on are those from the first of them on. *)
LEMMA FirstIs ==
  ASSUME NEW text \in Text, NEW from \in Int, Below(text, from) # {}
  PROVE  /\ FirstBrace(text, from) \in 1 .. Len(text.braces)
         /\ FirstBrace(text, from) \in Below(text, from)
         /\ \A n : n \in Below(text, from) <=> n \in FirstBrace(text, from) .. Len(text.braces)
<1> DEFINE o == FirstBrace(text, from)
<1>1. Len(text.braces) \in Nat /\ DOMAIN text.braces = 1 .. Len(text.braces)
  BY BracesAre, BraceSeqIs
<1>2. Below(text, from) \in SUBSET Nat /\ Below(text, from) \subseteq 1 .. Len(text.braces)
  BY <1>1 DEF Below
<1>3. o \in Below(text, from) /\ \A k \in Below(text, from) : o <= k
  BY <1>2, LeastIs DEF FirstBrace
<1> HIDE DEF o
<1>4. o \in 1 .. Len(text.braces) /\ text.braces[o].line >= from
  BY <1>2, <1>3 DEF Below
<1>5. ASSUME NEW n \in o .. Len(text.braces) PROVE n \in Below(text, from)
  <2>1. n \in DOMAIN text.braces /\ o \in DOMAIN text.braces /\ o <= n
    BY <1>1, <1>4
  <2>2. text.braces[o].line <= text.braces[n].line
    BY <2>1, BracesAre
  <2>3. text.braces[o].line \in Int /\ text.braces[n].line \in Int
    <3>1. text.braces[o].line \in 1 .. Len(text.lines) /\ text.braces[n].line \in 1 .. Len(text.lines)
      BY <2>1, BracesAre
    <3> QED BY <3>1
  <2> QED BY <1>4, <2>1, <2>2, <2>3 DEF Below
<1>6. ASSUME NEW n \in Below(text, from) PROVE n \in o .. Len(text.braces)
  BY <1>1, <1>2, <1>3, <1>4, <1>6
<1> QED BY <1>3, <1>4, <1>5, <1>6 DEF o

(* The end of a brace block is the line of the first brace that ends it, or *)
(* the last line of the text.                                               *)
LEMMA BlockEndIs ==
  ASSUME NEW text \in Text, NEW from \in 1 .. Len(text.lines)
  PROVE  /\ _block_end(text, from) \in from .. Len(text.lines)
         /\ Below(text, from) # {} =>
              LET o == FirstBrace(text, from)
                  ends == Ends(text.braces, o)
              IN  /\ ends = {} => _block_end(text, from) = Len(text.lines)
                  /\ ends # {} =>
                       /\ Least(ends) \in ends /\ \A k \in ends : Least(ends) <= k
                       /\ _block_end(text, from) = text.braces[Least(ends)].line
<1> DEFINE o == FirstBrace(text, from)
           ends == Ends(text.braces, o)
<1>1. Len(text.lines) \in Nat
  BY BracesAre
<1>2. from \in Int /\ Len(text.lines) \in from .. Len(text.lines)
  BY <1>1
<1>3. CASE Below(text, from) = {}
  BY <1>2, <1>3 DEF _block_end
<1>4. CASE Below(text, from) # {}
  <2>1. o \in 1 .. Len(text.braces) /\ \A n : n \in Below(text, from) <=> n \in o .. Len(text.braces)
    BY <1>2, <1>4, FirstIs
  <2>2. Len(text.braces) \in Nat
    BY BracesAre, BraceSeqIs
  <2>3. _block_end(text, from) = IF ends = {} THEN Len(text.lines) ELSE text.braces[Least(ends)].line
    BY <1>4 DEF _block_end
  <2> HIDE DEF o
  <2>4. ends \subseteq o .. Len(text.braces) /\ ends \in SUBSET Nat
    BY <2>1, <2>2 DEF Ends
  <2> HIDE DEF ends
  <2>5. CASE ends = {}
    BY <1>2, <2>3, <2>5 DEF o, ends
  <2>6. CASE ends # {}
    <3>1. Least(ends) \in ends /\ \A k \in ends : Least(ends) <= k
      BY <2>4, <2>6, LeastIs
    <3>2. Least(ends) \in Below(text, from)
      BY <2>1, <2>4, <3>1
    <3>3. text.braces[Least(ends)].line >= from /\ Least(ends) \in DOMAIN text.braces
      BY <3>2 DEF Below
    <3>4. text.braces[Least(ends)].line \in 1 .. Len(text.lines)
      BY <3>3, BracesAre
    <3>5. text.braces[Least(ends)].line \in from .. Len(text.lines)
      BY <1>1, <1>2, <3>3, <3>4
    <3> QED BY <2>3, <2>6, <3>1, <3>5 DEF o, ends
  <2> QED BY <2>5, <2>6
<1> QED BY <1>3, <1>4

-----------------------------------------------------------------------------
(* Windows *)

(* A window begins in the text and ends in it, at most WINDOW_LINES long,   *)
(* and the next one, if any, begins WINDOW_LINES - WINDOW_OVERLAP later.    *)
LEMMA WindowEndIs ==
  ASSUME NEW lines \in Seq(Line), NEW s \in 1 .. Len(lines)
  PROVE  /\ WindowEnd(lines, s) \in s .. Len(lines)
         /\ WindowEnd(lines, s) - s <= WINDOW_LINES - 1
         /\ WindowEnd(lines, s) < Len(lines) =>
              /\ WindowEnd(lines, s) = s + WINDOW_LINES - 1
              /\ NextWindow(WindowEnd(lines, s)) = s + (WINDOW_LINES - WINDOW_OVERLAP)
              /\ NextWindow(WindowEnd(lines, s)) \in (s + 1) .. Len(lines)
<1>1. Len(lines) \in Nat
  BY TextIs
<1> QED BY <1>1, RetrievalAssumption DEF WindowEnd, NextWindow

(* The loop starts windows at line 1 and wherever it goes on to. *)
LEMMA StartsClosed ==
  ASSUME NEW lines \in Seq(Line), lines # <<>>
  PROVE  /\ WindowStarts(lines) \subseteq 1 .. Len(lines) /\ 1 \in WindowStarts(lines)
         /\ \A s \in WindowStarts(lines) : WindowEnd(lines, s) < Len(lines) =>
              s + (WINDOW_LINES - WINDOW_OVERLAP) \in WindowStarts(lines)
<1>1. Len(lines) \in Nat /\ DOMAIN lines = 1 .. Len(lines)
  BY TextIs
<1>2. 1 \in 1 .. Len(lines)
  BY <1>1, EmptySeq
<1>3. 1 \in WindowStarts(lines)
  BY <1>1, <1>2 DEF WindowStarts, LoopClosed
<1>4. ASSUME NEW s \in WindowStarts(lines), WindowEnd(lines, s) < Len(lines)
      PROVE  s + (WINDOW_LINES - WINDOW_OVERLAP) \in WindowStarts(lines)
  <2> DEFINE next == NextWindow(WindowEnd(lines, s))
  <2>1. s \in 1 .. Len(lines)
    BY <1>1 DEF WindowStarts
  <2>2. next = s + (WINDOW_LINES - WINDOW_OVERLAP) /\ next \in 1 .. Len(lines) /\ next <= Len(lines)
    BY <1>1, <1>4, <2>1, WindowEndIs
  <2>3. ASSUME NEW S \in SUBSET DOMAIN lines, LoopClosed(lines, S) PROVE next \in S
    <3>1. s \in S
      BY <2>3 DEF WindowStarts
    <3> QED BY <1>4, <2>2, <2>3, <3>1 DEF LoopClosed
  <2> QED BY <1>1, <2>2, <2>3 DEF WindowStarts
<1> QED BY <1>1, <1>3, <1>4 DEF WindowStarts

(* It starts none anywhere else: every later window follows another. *)
LEMMA StartsFollow ==
  ASSUME NEW lines \in Seq(Line), lines # <<>>, NEW d \in WindowStarts(lines), d # 1
  PROVE  \E p \in WindowStarts(lines) :
           WindowEnd(lines, p) < Len(lines) /\ d = p + (WINDOW_LINES - WINDOW_OVERLAP)
<1> SUFFICES ASSUME \A p \in WindowStarts(lines) : WindowEnd(lines, p) < Len(lines) =>
                      d # p + (WINDOW_LINES - WINDOW_OVERLAP)
             PROVE  FALSE
  OBVIOUS
<1> DEFINE S == WindowStarts(lines) \ {d}
<1>1. WindowStarts(lines) \subseteq 1 .. Len(lines) /\ DOMAIN lines = 1 .. Len(lines)
  BY StartsClosed, TextIs
<1>2. ASSUME NEW s \in S, WindowEnd(lines, s) < Len(lines)
      PROVE  NextWindow(WindowEnd(lines, s)) \in S
  <2>1. NextWindow(WindowEnd(lines, s)) = s + (WINDOW_LINES - WINDOW_OVERLAP)
    BY <1>1, <1>2, WindowEndIs
  <2> QED BY <1>2, <2>1, StartsClosed
<1>3. 1 \in S
  BY StartsClosed
<1>4. LoopClosed(lines, S)
  BY <1>2, <1>3 DEF LoopClosed
<1>5. S \in SUBSET DOMAIN lines
  BY <1>1
<1>6. d \in S
  BY <1>4, <1>5 DEF WindowStarts
<1> QED BY <1>6

(* No window starts between a window and the one after it. *)
LEMMA StartsApart ==
  ASSUME NEW lines \in Seq(Line), lines # <<>>,
         NEW p \in WindowStarts(lines), NEW c \in WindowStarts(lines), p < c
  PROVE  c >= p + (WINDOW_LINES - WINDOW_OVERLAP)
<1> DEFINE step == WINDOW_LINES - WINDOW_OVERLAP
           T == {x \in WindowStarts(lines) : \E y \in WindowStarts(lines) : y < x /\ x < y + step}
<1>1. step \in Nat
  BY RetrievalAssumption
<1>2. \A x \in WindowStarts(lines) : x \in Nat /\ x >= 1
  <2>1. WindowStarts(lines) \subseteq 1 .. Len(lines)
    BY StartsClosed
  <2>2. Len(lines) \in Nat
    BY TextIs
  <2> QED BY <2>1, <2>2
<1>3. T \in SUBSET Nat
  BY <1>2
<1>4. ASSUME T # {} PROVE FALSE
  <2> DEFINE x == Least(T)
  <2>1. x \in T /\ \A k \in T : x <= k
    BY <1>3, <1>4, LeastIs
  <2> HIDE DEF x
  <2>2. PICK y \in WindowStarts(lines) : y < x /\ x < y + step
    BY <2>1
  <2>3. x \in WindowStarts(lines) /\ x # 1
    BY <1>2, <2>1, <2>2
  <2>4. PICK q \in WindowStarts(lines) : x = q + step
    BY <2>3, StartsFollow
  <2> HIDE DEF step
  <2>5. q < y /\ y < q + step
    BY <1>1, <1>2, <2>2, <2>3, <2>4
  <2>6. y \in T
    BY <2>5
  <2> QED BY <1>2, <2>1, <2>2, <2>3, <2>6
<1> QED BY <1>1, <1>2, <1>4

(* Every line is in a window. *)
LEMMA WindowsReach ==
  ASSUME NEW lines \in Seq(Line), NEW n \in 1 .. Len(lines)
  PROVE  \E s \in WindowStarts(lines) : s <= n /\ n <= WindowEnd(lines, s)
<1> DEFINE Reached(k) == \E s \in WindowStarts(lines) : s <= k /\ k <= WindowEnd(lines, s)
           T == {k \in 1 .. Len(lines) : ~Reached(k)}
<1>1. Len(lines) \in Nat /\ lines # <<>>
  <2>1. Len(lines) \in Nat
    BY TextIs
  <2>2. Len(lines) # 0
    BY <2>1
  <2> QED BY <2>1, <2>2, EmptySeq
<1>2. \A s \in WindowStarts(lines) : s \in 1 .. Len(lines) /\ WindowEnd(lines, s) \in s .. Len(lines)
  BY <1>1, StartsClosed, WindowEndIs
<1>3. ASSUME T # {} PROVE FALSE
  <2> DEFINE m == Least(T)
  <2>0. T \in SUBSET Nat
    BY <1>1
  <2>1. m \in T /\ \A k \in T : m <= k
    <3> HIDE DEF T
    <3> QED BY <2>0, <1>3, LeastIs
  <2> HIDE DEF m
  <2>2. m \in 1 .. Len(lines) /\ m # 1
    <3>1. Reached(1)
      BY <1>1, <1>2, StartsClosed
    <3> QED BY <2>1, <3>1
  <2>3. Reached(m - 1)
    BY <1>1, <2>1, <2>2
  <2>4. PICK s \in WindowStarts(lines) : s <= m - 1 /\ m - 1 <= WindowEnd(lines, s)
    BY <2>3
  <2>5. WindowEnd(lines, s) = m - 1 /\ WindowEnd(lines, s) < Len(lines)
    BY <1>1, <1>2, <2>1, <2>2, <2>4
  <2> DEFINE t == s + (WINDOW_LINES - WINDOW_OVERLAP)
  <2>6. t \in WindowStarts(lines)
    BY <1>1, <2>5, StartsClosed
  <2>7. s + WINDOW_LINES - 1 = m - 1
    BY <1>2, <2>5, WindowEndIs
  <2>8. t <= m /\ m <= WindowEnd(lines, t)
    BY <1>1, <1>2, <2>2, <2>6, <2>7, RetrievalAssumption DEF WindowEnd
  <2> QED BY <2>1, <2>6, <2>8
<1> QED BY <1>3

-----------------------------------------------------------------------------
(* Chunks *)

(* A symbol of any parser is a range of lines of the text. *)
LEMMA SymbolsLie ==
  ASSUME NEW language, NEW text \in Text, NEW y \in parse_symbols(language, text)
  PROVE  /\ y.start_line \in 1 .. Len(text.lines) /\ y.end_line \in y.start_line .. Len(text.lines)
         /\ y.symbol = TRUE
<1>1. DOMAIN text.lines = 1 .. Len(text.lines) /\ text.lines \in Seq(Line)
  BY BracesAre, TextIs
<1>2. CASE language = "csharp"
  <2>1. PICK n \in 1 .. Len(text.lines) : y = Symbol(n, _block_end(text, n))
    BY <1>1, <1>2 DEF parse_symbols, _parse_braced
  <2>2. _block_end(text, n) \in n .. Len(text.lines)
    BY BlockEndIs
  <2> QED BY <2>1, <2>2 DEF Symbol
<1>3. CASE language = "python"
  <2>1. PICK n \in 1 .. Len(text.lines) : y = Symbol(n, PythonEnd(text.lines, n))
    BY <1>1, <1>3 DEF parse_symbols, _parse_python
  <2>2. PythonEnd(text.lines, n) \in n .. Len(text.lines)
    BY <1>1, PythonEndIs
  <2> QED BY <2>1, <2>2 DEF Symbol
<1> QED BY <1>2, <1>3 DEF parse_symbols

(* A chunk is a range of lines of the text within the limits. *)
LEMMA ChunksLie ==
  ASSUME NEW language, NEW text \in Text, NEW c \in chunk_file(language, text)
  PROVE  /\ c.start_line \in 1 .. Len(text.lines) /\ c.end_line \in c.start_line .. Len(text.lines)
         /\ c.end_line - c.start_line <= (IF c.symbol THEN MAX_CHUNK_LINES ELSE WINDOW_LINES - 1)
<1>0. text.lines \in Seq(Line)
  BY BracesAre
<1>1. CASE c \in Usable(parse_symbols(language, text))
  <2>1. c \in parse_symbols(language, text) /\ c.end_line - c.start_line <= MAX_CHUNK_LINES
    BY <1>1 DEF Usable
  <2> QED BY <2>1, SymbolsLie
<1>2. CASE text.lines # <<>> /\ c \in _window_chunks(text.lines)
  <2>1. PICK n \in WindowStarts(text.lines) :
          c = [start_line |-> n, end_line |-> WindowEnd(text.lines, n), symbol |-> FALSE]
    BY <1>2 DEF _window_chunks
  <2>2. n \in 1 .. Len(text.lines)
    BY <1>0, <1>2, StartsClosed
  <2>3. c.start_line = n /\ c.end_line = WindowEnd(text.lines, n) /\ c.symbol = FALSE
    BY <2>1
  <2> QED BY <1>0, <2>2, <2>3, WindowEndIs
<1> QED BY <1>1, <1>2 DEF chunk_file

(* Where no symbol is usable, the windows hold every filled line, and where *)
(* no line is blank, neighbours share WINDOW_OVERLAP lines.                 *)
LEMMA WindowsHold ==
  ASSUME NEW language, NEW text, NEW lines \in Seq(Line), lines = text.lines,
         Usable(parse_symbols(language, text)) = {}
  PROVE  LET windows == chunk_file(language, text)
         IN  /\ \A n \in DOMAIN lines : lines[n].blank \/
                  \E c \in windows : n \in c.start_line .. c.end_line
             /\ (\A n \in DOMAIN lines : ~lines[n].blank) =>
                  \A c, d \in windows : Neighbours(windows, c, d) =>
                    c.end_line - d.start_line + 1 = WINDOW_OVERLAP
<1> DEFINE windows == chunk_file(language, text)
           Window(n) == [start_line |-> n, end_line |-> WindowEnd(lines, n), symbol |-> FALSE]
<1>1. CASE lines = <<>>
  BY <1>1, EmptySeq DEF chunk_file
<1>2. CASE lines # <<>>
  <2>1. windows = _window_chunks(lines)
    BY <1>2 DEF chunk_file
  <2>2. /\ Len(lines) \in Nat /\ DOMAIN lines = 1 .. Len(lines)
        /\ WindowStarts(lines) \subseteq 1 .. Len(lines)
    BY <1>2, TextIs, StartsClosed
  <2>3. \A s \in WindowStarts(lines) : HasText(lines, s, WindowEnd(lines, s)) => Window(s) \in windows
    BY <2>1 DEF _window_chunks
  <2>4. \A c \in windows : \E s \in WindowStarts(lines) : c = Window(s)
    BY <2>1 DEF _window_chunks
  <2>5. \A s : Window(s).start_line = s /\ Window(s).end_line = WindowEnd(lines, s)
    OBVIOUS
  <2> HIDE DEF Window, windows
  <2>6. ASSUME NEW n \in DOMAIN lines, ~lines[n].blank
        PROVE  \E c \in windows : n \in c.start_line .. c.end_line
    <3>1. PICK s \in WindowStarts(lines) : s <= n /\ n <= WindowEnd(lines, s)
      BY <2>2, WindowsReach
    <3>2. n \in s .. WindowEnd(lines, s)
      BY <2>2, <3>1, WindowEndIs
    <3>3. HasText(lines, s, WindowEnd(lines, s))
      BY <2>6, <3>2 DEF HasText
    <3> QED BY <2>3, <2>5, <3>2, <3>3
  <2>7. ASSUME \A n \in DOMAIN lines : ~lines[n].blank, NEW c \in windows, NEW d \in windows,
               Neighbours(windows, c, d)
        PROVE  c.end_line - d.start_line + 1 = WINDOW_OVERLAP
    <3>1. PICK s \in WindowStarts(lines) : c = Window(s)
      BY <2>4
    <3>2. PICK t \in WindowStarts(lines) : d = Window(t)
      BY <2>4
    <3>3. s < t /\ \A e \in windows : ~(s < e.start_line /\ e.start_line < t)
      BY <2>5, <2>7, <3>1, <3>2 DEF Neighbours
    <3>4. s \in 1 .. Len(lines) /\ t \in 1 .. Len(lines)
      BY <2>2
    <3>5. \A r \in WindowStarts(lines) : ~(s < r /\ r < t)
      <4> SUFFICES ASSUME NEW r \in WindowStarts(lines), s < r, r < t PROVE FALSE
        OBVIOUS
      <4>1. r \in 1 .. Len(lines) /\ WindowEnd(lines, r) \in r .. Len(lines)
        BY <2>2, WindowEndIs
      <4>2. r \in r .. WindowEnd(lines, r) /\ ~lines[r].blank
        BY <2>2, <2>7, <4>1
      <4>3. Window(r) \in windows
        BY <2>3, <4>2 DEF HasText
      <4> QED BY <2>5, <3>3, <4>3
    <3>6. t # 1
      BY <2>2, <3>3, <3>4
    <3>7. PICK p \in WindowStarts(lines) :
            WindowEnd(lines, p) < Len(lines) /\ t = p + (WINDOW_LINES - WINDOW_OVERLAP)
      BY <1>2, <3>6, StartsFollow
    <3>8. p \in 1 .. Len(lines) /\ WINDOW_LINES \in Nat /\ WINDOW_OVERLAP \in Nat /\ p < t
      BY <2>2, <3>7, RetrievalAssumption
    <3>9. p = s
      <4>1. CASE p < s
        <5>1. s >= p + (WINDOW_LINES - WINDOW_OVERLAP)
          BY <1>2, <4>1, StartsApart
        <5> QED BY <2>2, <3>3, <3>4, <3>7, <3>8, <5>1
      <4>2. CASE s < p
        BY <3>5, <3>8, <4>2
      <4> QED BY <2>2, <3>4, <3>8, <4>1, <4>2
    <3>10. WindowEnd(lines, s) = s + WINDOW_LINES - 1
      BY <3>4, <3>7, <3>9, WindowEndIs
    <3>11. c.end_line = WindowEnd(lines, s) /\ d.start_line = t
      BY <2>5, <3>1, <3>2
    <3> QED BY <2>2, <3>4, <3>7, <3>8, <3>9, <3>10, <3>11
  <2> QED BY <2>6, <2>7 DEF windows
<1> QED BY <1>1, <1>2

-----------------------------------------------------------------------------
(* Python definitions *)

(* Definitions nest by indentation, and own the deeper lines below them. *)
LEMMA PythonDefsNest ==
  ASSUME NEW text, NEW lines \in Seq(Line), lines = text.lines
  PROVE  LET symbols == parse_symbols("python", text)
         IN  /\ \A y, z \in symbols : y.start_line < z.start_line =>
                  z.start_line > y.end_line \/ z.end_line <= y.end_line
             /\ \A y \in symbols : \A n \in y.start_line .. Len(lines) :
                  (\A k \in (y.start_line + 1) .. n :
                     lines[k].blank \/ lines[k].indent > lines[y.start_line].indent)
                    => n <= y.end_line
<1> DEFINE symbols == parse_symbols("python", text)
           E(n) == PythonEnd(lines, n)
<1>1. /\ Len(lines) \in Nat /\ DOMAIN lines = 1 .. Len(lines)
      /\ \A n \in 1 .. Len(lines) : lines[n].indent \in Nat /\ (lines[n].def => ~lines[n].blank)
  BY TextIs
<1>2. \A y \in symbols : \E n \in 1 .. Len(lines) :
        lines[n].def /\ y.start_line = n /\ y.end_line = E(n)
  <2> TAKE y \in symbols
  <2>1. PICK n \in 1 .. Len(lines) : lines[n].def /\ y = Symbol(n, PythonEnd(lines, n))
    BY <1>1 DEF parse_symbols, _parse_python
  <2> QED BY <2>1 DEF Symbol
<1>3. \A n \in 1 .. Len(lines) :
        /\ E(n) \in n .. Len(lines)
        /\ \A k \in (n + 1) .. E(n) : lines[k].blank \/ lines[k].indent > lines[n].indent
        /\ E(n) < Len(lines) => ~lines[E(n) + 1].blank /\ lines[E(n) + 1].indent <= lines[n].indent
  BY PythonEndIs
<1> HIDE DEF symbols, E
<1>4. ASSUME NEW y \in symbols, NEW z \in symbols, y.start_line < z.start_line
      PROVE  z.start_line > y.end_line \/ z.end_line <= y.end_line
  <2>1. PICK a \in 1 .. Len(lines) : lines[a].def /\ y.start_line = a /\ y.end_line = E(a)
    BY <1>2
  <2>2. PICK b \in 1 .. Len(lines) : lines[b].def /\ z.start_line = b /\ z.end_line = E(b)
    BY <1>2
  <2>3. ASSUME b <= E(a), E(b) > E(a) PROVE FALSE
    <3>1. a < b /\ E(a) \in Nat /\ E(b) \in Nat /\ E(a) < Len(lines) /\ E(b) <= Len(lines)
      BY <1>1, <1>3, <1>4, <2>1, <2>2, <2>3
    <3>2. lines[b].indent > lines[a].indent
      <4>1. b \in (a + 1) .. E(a) /\ ~lines[b].blank
        BY <1>1, <2>2, <2>3, <3>1
      <4> QED BY <1>3, <4>1
    <3>3. E(a) + 1 \in (b + 1) .. E(b) /\ E(a) + 1 \in 1 .. Len(lines)
      BY <1>1, <2>3, <3>1
    <3>4. ~lines[E(a) + 1].blank /\ lines[E(a) + 1].indent <= lines[a].indent
      BY <1>3, <3>1
    <3>5. lines[E(a) + 1].indent > lines[b].indent
      BY <1>3, <3>3, <3>4
    <3>6. /\ lines[a].indent \in Nat /\ lines[b].indent \in Nat
          /\ lines[E(a) + 1].indent \in Nat
      BY <1>1, <3>3
    <3> QED BY <3>2, <3>4, <3>5, <3>6
  <2>4. E(a) \in Int /\ E(b) \in Int
    BY <1>1, <1>3
  <2> QED BY <2>1, <2>2, <2>3, <2>4
<1>5. ASSUME NEW y \in symbols, NEW n \in y.start_line .. Len(lines),
             \A k \in (y.start_line + 1) .. n :
               lines[k].blank \/ lines[k].indent > lines[y.start_line].indent
      PROVE  n <= y.end_line
  <2>1. PICK a \in 1 .. Len(lines) : y.start_line = a /\ y.end_line = E(a)
    BY <1>2
  <2>2. ASSUME n > E(a) PROVE FALSE
    <3>1. E(a) \in a .. Len(lines) /\ n \in a .. Len(lines)
      BY <1>3, <1>5, <2>1
    <3>2. E(a) + 1 \in (a + 1) .. n /\ E(a) < Len(lines) /\ E(a) + 1 \in 1 .. Len(lines)
      BY <1>1, <2>2, <3>1
    <3>3. ~lines[E(a) + 1].blank /\ lines[E(a) + 1].indent <= lines[a].indent
      BY <1>3, <3>2
    <3>4. lines[E(a) + 1].indent > lines[a].indent
      BY <1>5, <2>1, <3>2, <3>3
    <3> QED BY <1>1, <3>2, <3>3, <3>4
  <2>3. E(a) \in Int /\ n \in Int
    BY <1>1, <1>3, <1>5, <2>1
  <2> QED BY <2>1, <2>2, <2>3
<1> QED BY <1>4, <1>5 DEF symbols

-----------------------------------------------------------------------------
(* Brace blocks *)

(* What a brace adds to the depth. *)
Turn(b) == IF Opens(b) THEN 1 ELSE -1

(* The depth is 0 before the first brace, and every brace counts. *)
LEMMA DepthIs ==
  ASSUME NEW braces \in Seq(Brace), NEW from \in 1 .. Len(braces)
  PROVE  /\ \A n \in (from - 1) .. Len(braces) : Depth(braces, from)[n] \in Int
         /\ Depth(braces, from)[from - 1] = 0
         /\ \A n \in from .. Len(braces) :
              Depth(braces, from)[n] = Depth(braces, from)[n - 1] + Turn(braces[n])
<1> DEFINE Body(f, n) == IF n < from THEN 0 ELSE f[n - 1] + Turn(braces[n])
           Known(m) == \E f \in [(from - 1) .. m -> Int] :
                         \A n \in (from - 1) .. m : f[n] = Body(f, n)
           T == {m \in (from - 1) .. Len(braces) : Known(m)}
<1>0. Len(braces) \in Nat
  BY BraceSeqIs
<1>1. Len(braces) \in Nat /\ from \in Nat /\ from >= 1 /\ from <= Len(braces)
  BY <1>0
<1>2. \A b : Turn(b) \in Int
  BY DEF Turn
<1>3. from - 1 \in T
  <2> DEFINE f == [n \in (from - 1) .. (from - 1) |-> 0]
  <2>1. f \in [(from - 1) .. (from - 1) -> Int]
    OBVIOUS
  <2>2. \A n \in (from - 1) .. (from - 1) : n < from /\ f[n] = 0
    BY <1>1
  <2> HIDE DEF f
  <2>3. \A n \in (from - 1) .. (from - 1) : f[n] = Body(f, n)
    BY <2>2
  <2>4. Known(from - 1)
    BY <2>1, <2>3
  <2>5. from - 1 \in (from - 1) .. Len(braces)
    BY <1>1
  <2> QED BY <2>4, <2>5
<1>4. ASSUME NEW m \in ((from - 1) + 1) .. Len(braces), m - 1 \in T PROVE m \in T
  <2>0. m - 1 \in (from - 1) .. Len(braces) /\ Known(m - 1)
    BY <1>4
  <2>1. m \in from .. Len(braces) /\ Known(m - 1)
    <3> HIDE DEF Known
    <3> QED BY <1>1, <1>4, <2>0
  <2>2. PICK f \in [(from - 1) .. (m - 1) -> Int] : \A n \in (from - 1) .. (m - 1) : f[n] = Body(f, n)
    BY <2>1
  <2> DEFINE g == [n \in (from - 1) .. m |-> IF n < m THEN f[n] ELSE f[m - 1] + Turn(braces[m])]
  <2>3. f[m - 1] \in Int /\ m \in Int
    BY <1>1, <2>1
  <2>4. g \in [(from - 1) .. m -> Int]
    BY <1>1, <1>2, <2>1, <2>3
  <2>5. ASSUME NEW n \in (from - 1) .. m PROVE g[n] = Body(g, n)
    <3>1. n < m => n \in (from - 1) .. (m - 1) /\ g[n] = f[n]
      BY <1>1, <2>1
    <3>2. n >= from => n - 1 \in (from - 1) .. (m - 1) /\ n - 1 \in (from - 1) .. m /\ g[n - 1] = f[n - 1]
      BY <1>1, <2>1
    <3>3. n < m \/ (n = m /\ n >= from)
      BY <1>1, <2>1
    <3>4. CASE n < m
      <4>1. f[n] = Body(f, n)
        BY <2>2, <3>1, <3>4
      <4> QED BY <1>1, <2>1, <3>1, <3>2, <3>4, <4>1
    <3>5. CASE n = m /\ n >= from
      <4>1. g[n] = f[m - 1] + Turn(braces[m]) /\ ~(n < from)
        BY <1>1, <2>1, <3>5
      <4> QED BY <3>2, <3>5, <4>1
    <3> QED BY <3>3, <3>4, <3>5
  <2>6. Known(m)
    BY <2>4, <2>5
  <2>7. m \in (from - 1) .. Len(braces)
    BY <1>1, <2>1
  <2> QED BY <2>6, <2>7
<1>5. Known(Len(braces))
  <2>1. from - 1 \in Nat /\ Len(braces) \in (from - 1) .. Len(braces)
    BY <1>1
  <2>2. Len(braces) \in T
    <3> HIDE DEF T
    <3> QED BY <1>1, <1>3, <1>4, <2>1, Climb
  <2> QED BY <2>2
<1>6. PICK f \in [(from - 1) .. Len(braces) -> Int] :
        \A n \in (from - 1) .. Len(braces) : f[n] = Body(f, n)
  BY <1>5
<1> DEFINE CodeBody(h, n) ==
      IF n < from THEN 0
      ELSE h[n - 1] + (IF Opens(braces[n]) THEN 1 ELSE -1)
<1>7. \A n : Turn(braces[n]) = IF Opens(braces[n]) THEN 1 ELSE -1
  BY DEF Turn
<1>8. f = [n \in (from - 1) .. Len(braces) |-> CodeBody(f, n)]
  BY <1>6, <1>7
<1>9. Depth(braces, from) = CHOOSE h : h = [n \in (from - 1) .. Len(braces) |-> CodeBody(h, n)]
  BY DEF Depth
<1> DEFINE D == Depth(braces, from)
<1>10. D = [n \in (from - 1) .. Len(braces) |-> CodeBody(D, n)]
  BY <1>8, <1>9
<1> HIDE DEF D
<1>11. \A n \in (from - 1) .. Len(braces) : D[n] = Body(D, n)
  BY <1>7, <1>10
<1>12. D[from - 1] = 0
  BY <1>1, <1>11
<1>13. \A n \in from .. Len(braces) : D[n] = D[n - 1] + Turn(braces[n])
  BY <1>1, <1>11
<1> DEFINE U == {n \in (from - 1) .. Len(braces) : D[n] \in Int}
<1>14. \A n \in (from - 1) .. Len(braces) : n \in U
  <2>1. from - 1 \in U
    BY <1>1, <1>12
  <2>2. ASSUME NEW n \in ((from - 1) + 1) .. Len(braces), n - 1 \in U PROVE n \in U
    BY <1>1, <1>2, <1>13, <2>2
  <2> HIDE DEF U
  <2>3. from - 1 \in Nat
    BY <1>1
  <2> QED BY <1>1, <2>1, <2>2, <2>3, Climb
<1> QED BY <1>12, <1>13, <1>14 DEF D

Openings(braces, from, n) == Cardinality({k \in from .. n : Opens(braces[k])})
Closings(braces, from, n) == Cardinality({k \in from .. n : Closes(braces[k])})

(* Counting the members of a set of naturals one after the other. *)
LEMMA CountIs ==
  ASSUME NEW S, NEW from \in Nat, NEW n \in Nat, n >= from
  PROVE  /\ Cardinality((from .. (n - 1)) \cap S) \in Nat
         /\ Cardinality((from .. n) \cap S)
              = Cardinality((from .. (n - 1)) \cap S) + (IF n \in S THEN 1 ELSE 0)
<1> DEFINE C(m) == ((from .. m) \cap S)
<1>1. IsFiniteSet(C(n - 1)) /\ Cardinality(C(n - 1)) \in Nat
  <2>1. IsFiniteSet(from .. (n - 1))
    BY FS_Interval
  <2>2. C(n - 1) \in SUBSET (from .. (n - 1))
    OBVIOUS
  <2> QED BY <2>1, <2>2, FS_Subset, FS_CardinalityType
<1>2. n \notin C(n - 1)
  OBVIOUS
<1>3. \A k : k \in from .. n <=> k \in from .. (n - 1) \/ k = n
  OBVIOUS
<1>4. C(n) = IF n \in S THEN C(n - 1) \cup {n} ELSE C(n - 1)
  BY <1>3
<1> HIDE DEF C
<1>5. Cardinality(C(n - 1) \cup {n}) = Cardinality(C(n - 1)) + 1
  BY <1>1, <1>2, FS_AddElement
<1>6. Cardinality(C(n)) = Cardinality(C(n - 1)) + (IF n \in S THEN 1 ELSE 0)
  BY <1>1, <1>4, <1>5
<1> QED BY <1>1, <1>6 DEF C

(* Openings and closings, brace by brace. *)
LEMMA OpeningsAre ==
  ASSUME NEW braces \in Seq(Brace), NEW from \in 1 .. Len(braces), NEW n \in from .. Len(braces)
  PROVE  /\ Openings(braces, from, n - 1) \in Nat /\ Closings(braces, from, n - 1) \in Nat
         /\ Openings(braces, from, n) - Closings(braces, from, n)
              = Openings(braces, from, n - 1) - Closings(braces, from, n - 1) + Turn(braces[n])
         /\ Openings(braces, from, n) \in Nat /\ Closings(braces, from, n) \in Nat
<1> DEFINE O == {k \in 1 .. Len(braces) : Opens(braces[k])}
           C == {k \in 1 .. Len(braces) : Closes(braces[k])}
<1>0. Len(braces) \in Nat /\ \A k \in 1 .. Len(braces) : ~Opens(braces[k]) <=> Closes(braces[k])
  BY BraceSeqIs
<1>1. from \in Nat /\ n \in Nat /\ n >= from /\ n \in 1 .. Len(braces)
  BY <1>0
<1>2. \A k \in from .. n : k \in 1 .. Len(braces)
  BY <1>0, <1>1
<1>3. \A k \in from .. (n - 1) : k \in from .. n
  BY <1>1
<1>4. /\ {k \in from .. n : Opens(braces[k])} = ((from .. n) \cap O)
      /\ {k \in from .. n : Closes(braces[k])} = ((from .. n) \cap C)
      /\ {k \in from .. (n - 1) : Opens(braces[k])} = ((from .. (n - 1)) \cap O)
      /\ {k \in from .. (n - 1) : Closes(braces[k])} = ((from .. (n - 1)) \cap C)
  BY <1>2, <1>3
<1>5. (n \in O <=> Opens(braces[n])) /\ (n \in C <=> ~Opens(braces[n]))
  BY <1>0, <1>1
<1> HIDE DEF O, C
<1>6. /\ Openings(braces, from, n - 1) \in Nat
      /\ Openings(braces, from, n) = Openings(braces, from, n - 1) + (IF n \in O THEN 1 ELSE 0)
  <2>1. /\ Cardinality((from .. (n - 1)) \cap O) \in Nat
        /\ Cardinality((from .. n) \cap O)
             = Cardinality((from .. (n - 1)) \cap O) + (IF n \in O THEN 1 ELSE 0)
    BY <1>1, CountIs
  <2> QED BY <1>4, <2>1 DEF Openings
<1>7. /\ Closings(braces, from, n - 1) \in Nat
      /\ Closings(braces, from, n) = Closings(braces, from, n - 1) + (IF n \in C THEN 1 ELSE 0)
  <2>1. /\ Cardinality((from .. (n - 1)) \cap C) \in Nat
        /\ Cardinality((from .. n) \cap C)
             = Cardinality((from .. (n - 1)) \cap C) + (IF n \in C THEN 1 ELSE 0)
    BY <1>1, CountIs
  <2> QED BY <1>4, <2>1 DEF Closings
<1> QED BY <1>5, <1>6, <1>7 DEF Turn

(* The depth is what is opened less what is closed. *)
LEMMA DepthCounts ==
  ASSUME NEW braces \in Seq(Brace), NEW from \in 1 .. Len(braces), NEW n \in from .. Len(braces)
  PROVE  /\ Openings(braces, from, n) \in Nat /\ Closings(braces, from, n) \in Nat
         /\ Depth(braces, from)[n] = Openings(braces, from, n) - Closings(braces, from, n)
<1> DEFINE S == {k \in (from - 1) .. Len(braces) :
                   Depth(braces, from)[k] = Openings(braces, from, k) - Closings(braces, from, k)}
<1>0. Len(braces) \in Nat
  BY BraceSeqIs
<1>1. from - 1 \in Nat /\ from - 1 <= Len(braces) /\ from - 1 \in (from - 1) .. Len(braces)
  BY <1>0
<1>2. from - 1 \in S
  <2>1. from .. (from - 1) = {}
    BY <1>1
  <2>2. Openings(braces, from, from - 1) = 0 /\ Closings(braces, from, from - 1) = 0
    BY <2>1, FS_EmptySet DEF Openings, Closings
  <2>3. Depth(braces, from)[from - 1] = 0
    BY DepthIs
  <2> QED BY <1>1, <2>2, <2>3
<1>3. ASSUME NEW k \in ((from - 1) + 1) .. Len(braces), k - 1 \in S PROVE k \in S
  <2>1. k \in from .. Len(braces) /\ k - 1 \in (from - 1) .. Len(braces) /\ k \in (from - 1) .. Len(braces)
    BY <1>0, <1>1
  <2>2. Depth(braces, from)[k] = Depth(braces, from)[k - 1] + Turn(braces[k])
    BY <2>1, DepthIs
  <2>3. Depth(braces, from)[k - 1] = Openings(braces, from, k - 1) - Closings(braces, from, k - 1)
    BY <1>3
  <2>4. Openings(braces, from, k) - Closings(braces, from, k)
          = Openings(braces, from, k - 1) - Closings(braces, from, k - 1) + Turn(braces[k])
    BY <2>1, OpeningsAre
  <2>5. Depth(braces, from)[k] = Openings(braces, from, k) - Closings(braces, from, k)
    BY <2>2, <2>3, <2>4
  <2> QED BY <2>1, <2>5
<1> HIDE DEF S
<1>4. n \in (from - 1) .. Len(braces)
  BY <1>0, <1>1
<1>5. n \in S
  BY <1>0, <1>1, <1>2, <1>3, <1>4, Climb
<1>6. Depth(braces, from)[n] = Openings(braces, from, n) - Closings(braces, from, n)
  BY <1>5 DEF S
<1> QED BY <1>6, OpeningsAre

(* A depth above 0 falls to 0, at a closing brace, before it falls below. *)
LEMMA Crossing ==
  ASSUME NEW braces \in Seq(Brace), NEW from \in 1 .. Len(braces),
         NEW p \in from .. Len(braces), NEW q \in p .. Len(braces),
         Depth(braces, from)[p] > 0, Depth(braces, from)[q] <= 0
  PROVE  \E n \in p .. q : Depth(braces, from)[n] = 0 /\ Closes(braces[n])
<1> DEFINE D == Depth(braces, from)
           T == {n \in p .. q : D[n] <= 0}
           m == Least(T)
<1>0. Len(braces) \in Nat /\ p \in Nat /\ q \in Nat /\ p <= q /\ from >= 1 /\ from <= p /\ q <= Len(braces)
  <2>1. Len(braces) \in Nat
    BY BraceSeqIs
  <2> QED BY <2>1
<1>1. T \in SUBSET Nat /\ q \in T
  BY <1>0
<1>2. m \in T /\ \A k \in T : m <= k
  <2> HIDE DEF T
  <2> QED BY <1>1, LeastIs
<1>3. m \in p .. q /\ D[m] <= 0
  BY <1>2
<1> HIDE DEF m, D
<1>4. m # p
  <2>1. D[p] \in Int /\ D[p] > 0
    BY <1>0, DepthIs DEF D
  <2> QED BY <1>3, <2>1
<1>5. m - 1 \in p .. q /\ m \in from .. Len(braces) /\ m - 1 \in (from - 1) .. Len(braces)
      /\ m \in 1 .. Len(braces)
  BY <1>0, <1>3, <1>4
<1>6. ~(D[m - 1] <= 0)
  <2>1. \A k \in T : ~(k < m)
    BY <1>0, <1>2, <1>3
  <2> QED BY <1>0, <1>3, <1>5, <2>1
<1>7. D[m] = D[m - 1] + Turn(braces[m]) /\ D[m - 1] \in Int
  BY <1>5, DepthIs DEF D
<1>8. D[m] = 0 /\ ~Opens(braces[m])
  BY <1>3, <1>6, <1>7 DEF Turn
<1>9. Closes(braces[m])
  BY <1>5, <1>8, BraceSeqIs
<1> QED BY <1>3, <1>8, <1>9 DEF D

(* The depth from a later brace is the depth from an earlier one, less the  *)
(* depth at which it starts.                                                *)
LEMMA DepthShifts ==
  ASSUME NEW braces \in Seq(Brace), NEW a \in 1 .. Len(braces), NEW b \in a .. Len(braces)
  PROVE  \A n \in (b - 1) .. Len(braces) :
           Depth(braces, b)[n] = Depth(braces, a)[n] - Depth(braces, a)[b - 1]
<1> DEFINE S == {n \in (b - 1) .. Len(braces) :
                   Depth(braces, b)[n] = Depth(braces, a)[n] - Depth(braces, a)[b - 1]}
<1>0. Len(braces) \in Nat
  BY BraceSeqIs
<1>1. /\ b \in 1 .. Len(braces) /\ b - 1 \in Nat /\ b - 1 <= Len(braces)
      /\ b - 1 \in (b - 1) .. Len(braces) /\ b - 1 \in (a - 1) .. Len(braces)
  BY <1>0
<1>2. b - 1 \in S
  <2>1. Depth(braces, b)[b - 1] = 0 /\ Depth(braces, a)[b - 1] \in Int
    BY <1>1, DepthIs
  <2> QED BY <1>1, <2>1
<1>3. ASSUME NEW k \in ((b - 1) + 1) .. Len(braces), k - 1 \in S PROVE k \in S
  <2>1. /\ k \in b .. Len(braces) /\ k \in a .. Len(braces) /\ k \in (b - 1) .. Len(braces)
        /\ k - 1 \in (a - 1) .. Len(braces) /\ k - 1 \in (b - 1) .. Len(braces)
    BY <1>0, <1>1
  <2>2. Depth(braces, a)[k] = Depth(braces, a)[k - 1] + Turn(braces[k])
    BY <2>1, DepthIs
  <2>3. Depth(braces, b)[k] = Depth(braces, b)[k - 1] + Turn(braces[k])
    BY <1>1, <2>1, DepthIs
  <2>4. Depth(braces, a)[k - 1] \in Int /\ Depth(braces, b)[k - 1] \in Int /\ Depth(braces, a)[b - 1] \in Int
    BY <1>1, <2>1, DepthIs
  <2>5. Depth(braces, b)[k - 1] = Depth(braces, a)[k - 1] - Depth(braces, a)[b - 1]
    BY <1>3
  <2>6. Turn(braces[k]) \in Int
    BY DEF Turn
  <2> QED BY <2>1, <2>2, <2>3, <2>4, <2>5, <2>6
<1> HIDE DEF S
<1>4. \A n \in (b - 1) .. Len(braces) : n \in S
  BY <1>0, <1>1, <1>2, <1>3, Climb
<1> QED BY <1>4 DEF S

(* A block that opens with its first brace is open there, and up to the     *)
(* first brace that ends it.                                                *)
LEMMA BlockIsOpen ==
  ASSUME NEW braces \in Seq(Brace), NEW o \in 1 .. Len(braces), Opens(braces[o])
  PROVE  /\ Depth(braces, o)[o] = 1
         /\ \A n \in o .. Len(braces) : Opened(braces, o, n)
         /\ \A n \in o .. Len(braces) :
              (\A k \in Ends(braces, o) : n < k) => Depth(braces, o)[n] > 0
<1>0. Len(braces) \in Nat
  BY BraceSeqIs
<1>1. o \in Nat /\ o >= 1 /\ o \in o .. Len(braces)
  BY <1>0
<1>2. Depth(braces, o)[o] = 1
  <2>1. Depth(braces, o)[o - 1] = 0 /\ Depth(braces, o)[o] = Depth(braces, o)[o - 1] + Turn(braces[o])
    BY <1>1, DepthIs
  <2>2. Turn(braces[o]) = 1
    BY DEF Turn
  <2> QED BY <2>1, <2>2
<1>3. \A n \in o .. Len(braces) : Opened(braces, o, n)
  <2> TAKE n \in o .. Len(braces)
  <2>1. o \in o .. n
    BY <1>0, <1>1
  <2> QED BY <2>1 DEF Opened
<1>4. ASSUME NEW n \in o .. Len(braces), \A k \in Ends(braces, o) : n < k,
             Depth(braces, o)[n] <= 0
      PROVE  FALSE
  <2>1. PICK m \in o .. n : Depth(braces, o)[m] = 0 /\ Closes(braces[m])
    BY <1>1, <1>2, <1>4, Crossing
  <2>2. m \in o .. Len(braces) /\ ~(n < m)
    BY <1>0, <1>1
  <2>3. m \in Ends(braces, o)
    BY <1>3, <2>1, <2>2 DEF Ends
  <2> QED BY <1>4, <2>2, <2>3
<1>5. ASSUME NEW n \in o .. Len(braces), \A k \in Ends(braces, o) : n < k
      PROVE  Depth(braces, o)[n] > 0
  <2>1. n \in (o - 1) .. Len(braces)
    BY <1>0, <1>1
  <2>2. Depth(braces, o)[n] \in Int
    BY <2>1, DepthIs
  <2> QED BY <1>4, <1>5, <2>2
<1> QED BY <1>2, <1>3, <1>5

(* The block of a definition that starts inside another block ends there. *)
LEMMA BlocksNest ==
  ASSUME NEW braces \in Seq(Brace), NEW a \in 1 .. Len(braces), NEW b \in a .. Len(braces),
         Opens(braces[a]), Opens(braces[b]),
         NEW e \in Ends(braces, a), \A k \in Ends(braces, a) : e <= k, b <= e
  PROVE  \E n \in Ends(braces, b) : n <= e
<1>0. Len(braces) \in Nat
  BY BraceSeqIs
<1>1. e \in a .. Len(braces) /\ Depth(braces, a)[e] = 0
  BY DEF Ends
<1>2. /\ a \in Nat /\ b \in Nat /\ e \in Nat /\ a >= 1 /\ a <= b /\ e <= Len(braces)
      /\ b \in 1 .. Len(braces) /\ e \in b .. Len(braces)
  BY <1>0, <1>1
<1>3. CASE a = b
  BY <1>2, <1>3
<1>4. CASE a < b
  <2>1. /\ b - 1 \in a .. Len(braces) /\ b - 1 \in (a - 1) .. Len(braces) /\ e \in (b - 1) .. Len(braces)
        /\ b - 1 < e
    BY <1>0, <1>2, <1>4
  <2>2. \A k \in Ends(braces, a) : b - 1 < k
    <3>1. \A k \in Ends(braces, a) : k \in Nat
      BY <1>0, <1>2 DEF Ends
    <3> QED BY <1>2, <2>1, <3>1
  <2>3. Depth(braces, a)[b - 1] > 0 /\ Depth(braces, a)[b - 1] \in Int
    BY <2>1, <2>2, BlockIsOpen, DepthIs
  <2>4. Depth(braces, b)[e] = Depth(braces, a)[e] - Depth(braces, a)[b - 1]
    BY <1>2, <2>1, DepthShifts
  <2>5. Depth(braces, b)[e] <= 0
    BY <1>1, <2>3, <2>4
  <2>6. Depth(braces, b)[b] > 0 /\ b \in b .. Len(braces)
    BY <1>0, <1>2, BlockIsOpen
  <2>7. PICK n \in b .. e : Depth(braces, b)[n] = 0 /\ Closes(braces[n])
    BY <1>2, <2>5, <2>6, Crossing
  <2>8. n \in b .. Len(braces) /\ n <= e
    BY <1>0, <1>2
  <2>9. n \in Ends(braces, b)
    BY <1>2, <2>7, <2>8, BlockIsOpen DEF Ends
  <2> QED BY <2>8, <2>9
<1> QED BY <1>2, <1>3, <1>4

(* Brace blocks end where they first balance, or run to the end of the      *)
(* text, and they nest.                                                     *)
LEMMA BracesBalance ==
  ASSUME NEW text \in Text
  PROVE  LET symbols == {y \in parse_symbols("csharp", text) : OpensFirst(text, y)}
         IN  /\ \A y \in symbols :
                  /\ \/ y.end_line = Len(text.lines)
                     \/ \E n \in Below(text, y.start_line) :
                          text.braces[n].line = y.end_line /\ Balanced(text, y, n)
                  /\ \A n \in Below(text, y.start_line) :
                       text.braces[n].line < y.end_line => ~Balanced(text, y, n)
             /\ \A y, z \in symbols : y.start_line < z.start_line =>
                  z.start_line >= y.end_line \/ z.end_line <= y.end_line
<1> DEFINE symbols == {y \in parse_symbols("csharp", text) : OpensFirst(text, y)}
           braces == text.braces
           First(y) == FirstBrace(text, y.start_line)
<1>0. /\ Len(text.lines) \in Nat /\ DOMAIN text.lines = 1 .. Len(text.lines)
      /\ braces \in Seq(Brace) /\ Len(braces) \in Nat /\ DOMAIN braces = 1 .. Len(braces)
      /\ \A p, q \in 1 .. Len(braces) : p <= q => braces[p].line <= braces[q].line
      /\ \A p \in 1 .. Len(braces) : braces[p].line \in Nat /\ braces[p].line <= Len(text.lines)
  <2>1. Len(text.lines) \in Nat /\ text.lines \in Seq(Line) /\ braces \in Seq(Brace)
    BY BracesAre
  <2>2. DOMAIN text.lines = 1 .. Len(text.lines) /\ Len(braces) \in Nat /\ DOMAIN braces = 1 .. Len(braces)
    BY <2>1, TextIs, BraceSeqIs
  <2>3. \A p \in 1 .. Len(braces) : braces[p].line \in 1 .. Len(text.lines)
    BY <2>2, BracesAre
  <2>4. \A p \in 1 .. Len(braces) : braces[p].line \in Nat /\ braces[p].line <= Len(text.lines)
    BY <2>1, <2>3
  <2> QED BY <2>1, <2>2, <2>4, BracesAre
<1>1. ASSUME NEW y \in symbols
      PROVE  /\ y.start_line \in 1 .. Len(text.lines) /\ y.end_line = _block_end(text, y.start_line)
             /\ First(y) \in 1 .. Len(braces) /\ Opens(braces[First(y)])
             /\ Below(text, y.start_line) # {}
             /\ \A n : n \in Below(text, y.start_line) <=> n \in First(y) .. Len(braces)
  <2>1. PICK a \in 1 .. Len(text.lines) : y = Symbol(a, _block_end(text, a))
    BY <1>0 DEF parse_symbols, _parse_braced
  <2>2. y.start_line = a /\ y.end_line = _block_end(text, a)
    BY <2>1 DEF Symbol
  <2>3. Below(text, y.start_line) # {} /\ Opens(braces[First(y)])
    BY DEF OpensFirst
  <2>4. y.start_line \in Int
    BY <2>2
  <2> QED BY <2>2, <2>3, <2>4, FirstIs
<1> HIDE DEF symbols
<1>2. ASSUME NEW y \in symbols
      PROVE  LET ends == Ends(braces, First(y))
             IN  /\ ends \subseteq First(y) .. Len(braces)
                 /\ ends = {} => y.end_line = Len(text.lines)
                 /\ ends # {} =>
                      /\ Least(ends) \in ends /\ \A k \in ends : Least(ends) <= k
                      /\ y.end_line = braces[Least(ends)].line
                 /\ y.end_line \in Nat /\ y.end_line <= Len(text.lines)
  <2>1. _block_end(text, y.start_line) \in y.start_line .. Len(text.lines) /\ y.start_line \in Nat
    BY <1>1, BlockEndIs
  <2>2. y.end_line \in Nat /\ y.end_line <= Len(text.lines)
    BY <1>0, <1>1, <2>1
  <2>3. Ends(braces, First(y)) \subseteq First(y) .. Len(braces)
    BY DEF Ends
  <2> QED BY <1>1, <2>2, <2>3, BlockEndIs
<1>3. ASSUME NEW y \in symbols, NEW n \in First(y) .. Len(braces)
      PROVE  Balanced(text, y, n) <=> Depth(braces, First(y))[n] = 0
  <2>1. /\ Openings(braces, First(y), n) \in Nat /\ Closings(braces, First(y), n) \in Nat
        /\ Depth(braces, First(y))[n] = Openings(braces, First(y), n) - Closings(braces, First(y), n)
    BY <1>0, <1>1, DepthCounts
  <2>2. Balanced(text, y, n) <=> Openings(braces, First(y), n) = Closings(braces, First(y), n)
    BY DEF Balanced, Openings, Closings
  <2> QED BY <2>1, <2>2
<1> HIDE DEF First, braces
<1>4. ASSUME NEW y \in symbols, y.end_line # Len(text.lines)
      PROVE  \E n \in Below(text, y.start_line) : braces[n].line = y.end_line /\ Balanced(text, y, n)
  <2> DEFINE e == Least(Ends(braces, First(y)))
  <2>1. e \in Ends(braces, First(y)) /\ y.end_line = braces[e].line /\ e \in First(y) .. Len(braces)
    BY <1>2, <1>4
  <2>2. Depth(braces, First(y))[e] = 0
    BY <2>1 DEF Ends
  <2> HIDE DEF e
  <2> QED BY <1>1, <1>3, <2>1, <2>2
<1>5. ASSUME NEW y \in symbols, NEW n \in Below(text, y.start_line), braces[n].line < y.end_line
      PROVE  ~Balanced(text, y, n)
  <2>0. n \in First(y) .. Len(braces) /\ First(y) \in 1 .. Len(braces)
    BY <1>1
  <2>1. n \in First(y) .. Len(braces) /\ First(y) \in 1 .. Len(braces) /\ n \in 1 .. Len(braces)
    BY <1>0, <2>0
  <2>2. ASSUME NEW k \in Ends(braces, First(y)) PROVE n < k
    <3> DEFINE e == Least(Ends(braces, First(y)))
    <3>1. e <= k /\ y.end_line = braces[e].line /\ e \in First(y) .. Len(braces) /\ k \in First(y) .. Len(braces)
      BY <1>2, <2>2
    <3> HIDE DEF e
    <3>2. e \in 1 .. Len(braces) /\ k \in 1 .. Len(braces)
      BY <1>0, <2>1, <3>1
    <3>3. braces[e].line <= braces[k].line
      BY <1>0, <3>1, <3>2
    <3>4. ASSUME k <= n PROVE FALSE
      <4>1. braces[k].line <= braces[n].line
        BY <1>0, <2>1, <3>2, <3>4
      <4>2. braces[e].line \in Nat /\ braces[k].line \in Nat /\ braces[n].line \in Nat
        BY <1>0, <2>1, <3>2
      <4>3. ~(braces[n].line < braces[e].line)
        BY <3>3, <4>1, <4>2
      <4> QED BY <1>5, <3>1, <4>3
    <3> QED BY <1>0, <2>1, <3>2, <3>4
  <2>3. Depth(braces, First(y))[n] > 0
    BY <1>0, <1>1, <2>1, <2>2, BlockIsOpen
  <2>4. Depth(braces, First(y))[n] # 0
    BY <2>3
  <2> QED BY <1>3, <2>1, <2>4
<1>6. ASSUME NEW y \in symbols, NEW z \in symbols, y.start_line < z.start_line
      PROVE  z.start_line >= y.end_line \/ z.end_line <= y.end_line
  <2>1. /\ y.end_line \in Nat /\ z.end_line \in Nat /\ z.end_line <= Len(text.lines)
        /\ y.start_line \in 1 .. Len(text.lines) /\ z.start_line \in 1 .. Len(text.lines)
        /\ First(y) \in 1 .. Len(braces) /\ First(z) \in 1 .. Len(braces)
    BY <1>1, <1>2
  <2>2. CASE Ends(braces, First(y)) = {}
    BY <1>2, <2>1, <2>2
  <2>3. CASE Ends(braces, First(y)) # {} /\ z.start_line < y.end_line
    <3> DEFINE e == Least(Ends(braces, First(y)))
    <3>1. /\ e \in Ends(braces, First(y)) /\ \A k \in Ends(braces, First(y)) : e <= k
          /\ y.end_line = braces[e].line /\ e \in First(y) .. Len(braces)
      BY <1>2, <2>3
    <3> HIDE DEF e
    <3>2. e \in 1 .. Len(braces)
      BY <1>0, <2>1, <3>1
    <3>3. e \in Below(text, z.start_line)
      <4>1. braces[e].line >= z.start_line
        BY <2>1, <2>3, <3>1
      <4> QED BY <1>0, <3>2, <4>1 DEF Below, braces
    <3>4. First(z) \in Below(text, y.start_line)
      <4>1. First(z) \in First(z) .. Len(braces)
        BY <1>0, <2>1
      <4>2. First(z) \in Below(text, z.start_line)
        BY <1>1, <4>1
      <4>3. braces[First(z)].line >= z.start_line /\ First(z) \in DOMAIN braces
        BY <4>2 DEF Below, braces
      <4>4. braces[First(z)].line \in Nat
        BY <1>0, <2>1
      <4>5. braces[First(z)].line >= y.start_line
        BY <1>0, <1>6, <2>1, <4>3, <4>4
      <4> QED BY <4>3, <4>5 DEF Below, braces
    <3>5. First(z) \in First(y) .. Len(braces) /\ First(z) <= e
      BY <1>0, <1>1, <2>1, <3>2, <3>3, <3>4
    <3>6. PICK n \in Ends(braces, First(z)) : n <= e
      BY <1>0, <1>1, <2>1, <3>1, <3>5, BlocksNest
    <3> DEFINE d == Least(Ends(braces, First(z)))
    <3>7. d <= n /\ z.end_line = braces[d].line /\ d \in First(z) .. Len(braces) /\ n \in First(z) .. Len(braces)
      BY <1>2, <3>6
    <3> HIDE DEF d
    <3>8. d \in 1 .. Len(braces) /\ d <= e
      BY <1>0, <2>1, <3>2, <3>6, <3>7
    <3>9. braces[d].line <= braces[e].line
      BY <1>0, <3>2, <3>8
    <3> QED BY <3>1, <3>7, <3>9
  <2> QED BY <2>1, <2>2, <2>3
<1> QED BY <1>4, <1>5, <1>6 DEF symbols, braces

-----------------------------------------------------------------------------
(* The stored chunks *)

(* Texts stay texts: nothing but an edit changes a file. *)
DiskInv == disk \in [Files -> Text]

(* The repository starts as one of the given ones. *)
LEMMA InitDisk == Init => DiskInv
BY RetrievalAssumption DEF Init, DiskInv

(* Every step leaves the files as texts. *)
LEMMA NextDisk == DiskInv /\ [Next]_vars => DiskInv'
<1> SUFFICES ASSUME DiskInv, [Next]_vars PROVE DiskInv'
  OBVIOUS
<1>1. ASSUME NEW f \in Files, Edit(f) PROVE DiskInv'
  <2>1. PICK t \in Edits[f] : disk' = [disk EXCEPT ![f] = t]
    BY <1>1 DEF Edit
  <2>2. t \in Text
    BY RetrievalAssumption
  <2> QED BY <2>1, <2>2 DEF DiskInv
<1>2. ASSUME NEW i \in Indexers, Step(i) \/ Rollback(i) PROVE disk' = disk
  BY <1>2 DEF Step, scan_repository, upsert, InsertRepo, DeleteSees, DeleteRows, Commit, Rollback
<1> QED BY <1>1, <1>2 DEF Next, vars, DiskInv

(* Hence every file is a text all along. *)
LEMMA DiskInvariance == Spec => []DiskInv
BY InitDisk, NextDisk, PTL DEF Spec

(* For every text, every language and all limits with an overlap shorter    *)
(* than a window: chunks lie in the text and keep the limits, and windows   *)
(* lose no filled line.                                                     *)
THEOREM ChunksCoverTexts == Spec => []ChunksCover
<1>1. ASSUME DiskInv, NEW f \in Inputs PROVE disk[f] \in Text /\ disk[f].lines \in Seq(Line)
  BY <1>1, BracesAre DEF DiskInv, Inputs
<1>2. DiskInv => ChunksFit
  <2> SUFFICES ASSUME DiskInv, NEW f \in Inputs, NEW c \in chunk_file(Language[f], disk[f])
               PROVE  /\ 1 <= c.start_line /\ c.start_line <= c.end_line /\ c.end_line <= Len(disk[f].lines)
                      /\ c.end_line - c.start_line
                           <= (IF c.symbol THEN MAX_CHUNK_LINES ELSE WINDOW_LINES - 1)
    BY DEF ChunksFit
  <2>1. disk[f] \in Text /\ disk[f].lines \in Seq(Line)
    BY <1>1
  <2>2. Len(disk[f].lines) \in Nat
    BY <2>1, TextIs
  <2>3. /\ c.start_line \in 1 .. Len(disk[f].lines) /\ c.end_line \in c.start_line .. Len(disk[f].lines)
        /\ c.end_line - c.start_line <= (IF c.symbol THEN MAX_CHUNK_LINES ELSE WINDOW_LINES - 1)
    BY <2>1, ChunksLie
  <2> QED BY <2>2, <2>3
<1>3. DiskInv => WindowsCover
  BY <1>1, WindowsHold DEF WindowsCover
<1> QED BY <1>2, <1>3, DiskInvariance, PTL DEF ChunksCover

(* For every text, with any number of braces on a line: Python definitions  *)
(* nest by indentation, and a brace block ends on the line where it is      *)
(* balanced for the first time, or with the text, and blocks nest.          *)
THEOREM SymbolsAreNested == Spec => []SymbolsNest
<1>1. ASSUME DiskInv, NEW f \in Inputs PROVE disk[f] \in Text /\ disk[f].lines \in Seq(Line)
  BY <1>1, BracesAre DEF DiskInv, Inputs
<1>2. DiskInv => PythonNests
  BY <1>1, PythonDefsNest DEF PythonNests
<1>3. DiskInv => BracesMatch
  BY <1>1, BracesBalance DEF BracesMatch
<1> QED BY <1>2, <1>3, DiskInvariance, PTL DEF SymbolsNest


(* The image of a finite set is finite. *)
LEMMA FiniteImage ==
  ASSUME NEW S, IsFiniteSet(S), NEW f, DOMAIN f = S, f = [x \in S |-> f[x]]
  PROVE  IsFiniteSet({f[x] : x \in S})
<1>1. f \in Surjection(S, {f[x] : x \in S})
  BY DEF Surjection
<1> QED BY <1>1, FS_Surjection

(* A text has finitely many symbols, windows and chunks. *)
LEMMA ChunksFinite ==
  ASSUME NEW language, NEW text \in Text PROVE IsFiniteSet(chunk_file(language, text))
<1>0. text.lines \in Seq(Line)
  BY BracesAre
<1>1. IsFiniteSet(DOMAIN text.lines)
  <2>1. Len(text.lines) \in Nat /\ DOMAIN text.lines = 1 .. Len(text.lines)
    BY <1>0, TextIs
  <2> QED BY <2>1, FS_Interval
<1> DEFINE braced == [n \in DOMAIN text.lines |-> Symbol(n, _block_end(text, n))]
           python == [n \in DOMAIN text.lines |-> Symbol(n, PythonEnd(text.lines, n))]
           window == [n \in DOMAIN text.lines |->
                        [start_line |-> n, end_line |-> WindowEnd(text.lines, n), symbol |-> FALSE]]
           B == {braced[n] : n \in DOMAIN text.lines}
           P == {python[n] : n \in DOMAIN text.lines}
           W == {window[n] : n \in DOMAIN text.lines}
<1>2. IsFiniteSet(B) /\ IsFiniteSet(P) /\ IsFiniteSet(W)
  <2>1. IsFiniteSet(B)
    <3>1. DOMAIN braced = DOMAIN text.lines /\ braced = [n \in DOMAIN text.lines |-> braced[n]]
      OBVIOUS
    <3> HIDE DEF braced
    <3> QED BY <1>1, <3>1, FiniteImage
  <2>2. IsFiniteSet(P)
    <3>1. DOMAIN python = DOMAIN text.lines /\ python = [n \in DOMAIN text.lines |-> python[n]]
      OBVIOUS
    <3> HIDE DEF python
    <3> QED BY <1>1, <3>1, FiniteImage
  <2>3. IsFiniteSet(W)
    <3>1. DOMAIN window = DOMAIN text.lines /\ window = [n \in DOMAIN text.lines |-> window[n]]
      OBVIOUS
    <3> HIDE DEF window
    <3> QED BY <1>1, <3>1, FiniteImage
  <2> QED BY <2>1, <2>2, <2>3
<1>3. _parse_braced(text) \subseteq B
  BY DEF _parse_braced
<1>4. _parse_python(text.lines) \subseteq P
  BY DEF _parse_python
<1>5. _window_chunks(text.lines) \subseteq W
  BY DEF _window_chunks, WindowStarts
<1> HIDE DEF B, P, W
<1>6. parse_symbols(language, text) \subseteq B \cup P
  BY <1>3, <1>4 DEF parse_symbols
<1>7. chunk_file(language, text) \in SUBSET ((B \cup P) \cup W)
  BY <1>5, <1>6 DEF chunk_file, Usable
<1>8. IsFiniteSet((B \cup P) \cup W)
  BY <1>2, FS_Union
<1> QED BY <1>7, <1>8, FS_Subset

(* A row: a file that is indexed and a non-empty range of its lines. *)
IsRow(r) ==
  /\ r.by \in Indexers \cup {NoOne} /\ r.file \in Files \ Skipped
  /\ r.chunk.start_line \in Nat \ {0} /\ r.chunk.end_line >= r.chunk.start_line

(* The rows a request makes of the files it reads are such rows, and        *)
(* finitely many.                                                           *)
LEMMA ChunksTyped ==
  ASSUME DiskInv, NEW i \in Indexers \cup {NoOne}, NEW files \in SUBSET (Files \ Skipped)
  PROVE  IsFiniteSet(Chunks(i, files)) /\ \A r \in Chunks(i, files) : IsRow(r)
<1> DEFINE Of(f) == chunk_file(Language[f], disk[f])
           rows == [f \in files |-> {[by |-> i, file |-> f, chunk |-> c] : c \in Of(f)}]
<1>1. \A f \in files : f \in Files \ Skipped /\ disk[f] \in Text
  BY DEF DiskInv
<1>2. ASSUME NEW f \in files PROVE IsFiniteSet(rows[f])
  <2> DEFINE g == [c \in Of(f) |-> [by |-> i, file |-> f, chunk |-> c]]
  <2>1. IsFiniteSet(Of(f))
    BY <1>1, ChunksFinite
  <2>2. DOMAIN g = Of(f) /\ g = [c \in Of(f) |-> g[c]] /\ rows[f] = {g[c] : c \in Of(f)}
    OBVIOUS
  <2> HIDE DEF g, rows, Of
  <2> QED BY <2>1, <2>2, FiniteImage
<1>3. IsFiniteSet(files)
  BY RetrievalAssumption, FS_Subset
<1>4. DOMAIN rows = files /\ rows = [f \in files |-> rows[f]]
  OBVIOUS
<1>5. Chunks(i, files) = UNION {rows[f] : f \in files}
  BY DEF Chunks
<1>6. IsFiniteSet(Chunks(i, files))
  <2> HIDE DEF rows
  <2>1. IsFiniteSet({rows[f] : f \in files})
    BY <1>3, <1>4, FiniteImage
  <2>2. \A T \in {rows[f] : f \in files} : IsFiniteSet(T)
    BY <1>2
  <2> QED BY <1>5, <2>1, <2>2, FS_UNION
<1>7. ASSUME NEW r \in Chunks(i, files) PROVE IsRow(r)
  <2>0. PICK f \in files : \E c \in Of(f) : r = [by |-> i, file |-> f, chunk |-> c]
    BY DEF Chunks
  <2>1. PICK c \in Of(f) : r = [by |-> i, file |-> f, chunk |-> c]
    BY <2>0
  <2>2. c.start_line \in 1 .. Len(disk[f].lines) /\ c.end_line \in c.start_line .. Len(disk[f].lines)
    BY <1>1, ChunksLie
  <2>3. Len(disk[f].lines) \in Nat
    BY <1>1, BracesAre
  <2>4. c.start_line \in Nat \ {0} /\ c.end_line >= c.start_line
    BY <2>2, <2>3
  <2>5. r.by = i /\ r.file = f /\ r.chunk = c
    BY <2>1
  <2> QED BY <1>1, <2>4, <2>5 DEF IsRow
<1> QED BY <1>6, <1>7

(* What is stored and what a request holds are rows; nothing is deleted     *)
(* outside the span between a request's DELETE and its commit.              *)
StoreInv ==
  /\ chunk_count \in Nat /\ \A r \in table : IsRow(r)
  /\ \A i \in Indexers : IsFiniteSet(chunks[i]) /\ \A r \in chunks[i] : IsRow(r)
  /\ \A i \in Indexers : deleted[i] \subseteq snap[i]
  /\ \A i \in Indexers : pc[i] \notin {"commit", "new_repo_commit"} => deleted[i] = {}

(* The index starts empty or with the rows of an earlier request. *)
LEMMA InitStore == Init => StoreInv
<1> SUFFICES ASSUME Init PROVE StoreInv
  OBVIOUS
<1>1. DiskInv
  BY InitDisk
<1>2. IsFiniteSet(table) /\ \A r \in table : IsRow(r)
  <2>1. CASE repo
    BY <1>1, <2>1, ChunksTyped DEF Init
  <2>2. CASE ~repo
    BY <2>2, FS_EmptySet DEF Init
  <2> QED BY <2>1, <2>2
<1>3. chunk_count \in Nat
  BY <1>2, FS_CardinalityType DEF Init
<1> QED BY <1>2, <1>3, FS_EmptySet DEF Init, StoreInv

(* Every step keeps the rows well formed. *)
LEMMA NextStore == DiskInv /\ ReplaceInv /\ StoreInv /\ [Next]_vars => StoreInv'
<1> SUFFICES ASSUME DiskInv, ReplaceInv, StoreInv, [Next]_vars PROVE StoreInv'
  OBVIOUS
<1>0. /\ DOMAIN pc = Indexers /\ DOMAIN chunks = Indexers /\ DOMAIN snap = Indexers
      /\ DOMAIN deleted = Indexers
  BY DEF ReplaceInv, RepoInv, RowsInv
<1>1. ASSUME NEW i \in Indexers, NEW u \in SUBSET Unreadable, scan_repository(i, u) PROVE StoreInv'
  <2> DEFINE new == Chunks(i, (Files \ Skipped) \ u)
  <2>1. IsFiniteSet(new) /\ \A r \in new : IsRow(r)
    BY ChunksTyped
  <2>2. /\ chunks' = [chunks EXCEPT ![i] = new] /\ pc[i] = "start" /\ pc' = [pc EXCEPT ![i] = "upsert"]
        /\ UNCHANGED <<disk, snap, deleted, table, repo, chunk_count, latest>>
    BY <1>1 DEF scan_repository
  <2> HIDE DEF new
  <2>3. \A j \in Indexers : chunks'[j] = IF j = i THEN new ELSE chunks[j]
    BY <1>0, <2>2
  <2>4. \A j \in Indexers : pc'[j] = IF j = i THEN "upsert" ELSE pc[j]
    BY <1>0, <2>2
  <2>5. \A j \in Indexers : IsFiniteSet(chunks'[j]) /\ \A r \in chunks'[j] : IsRow(r)
    BY <2>1, <2>3 DEF StoreInv
  <2>6. \A j \in Indexers : pc'[j] \notin {"commit", "new_repo_commit"} => deleted'[j] = {}
    BY <2>2, <2>4 DEF StoreInv
  <2> QED BY <2>2, <2>5, <2>6 DEF StoreInv, IsRow
<1>2. ASSUME NEW i \in Indexers, upsert(i) \/ InsertRepo(i) PROVE StoreInv'
  <2>1. pc[i] \in {"upsert", "insert_repo"}
        /\ UNCHANGED <<disk, chunks, snap, deleted, table, repo, chunk_count, latest>>
        /\ \A j \in Indexers \ {i} : pc'[j] = pc[j]
    BY <1>0, <1>2 DEF upsert, InsertRepo
  <2>2. deleted[i] = {}
    BY <2>1 DEF StoreInv
  <2>3. \A j \in Indexers : pc'[j] \notin {"commit", "new_repo_commit"} => deleted'[j] = {}
    BY <2>1, <2>2 DEF StoreInv
  <2> QED BY <2>1, <2>3 DEF StoreInv, IsRow
<1>3. ASSUME NEW i \in Indexers, DeleteSees(i) PROVE StoreInv'
  <2>1. /\ pc[i] \in {"delete", "new_repo_delete"} /\ \A j \in Indexers \ {i} : pc'[j] = pc[j]
        /\ UNCHANGED <<disk, chunks, deleted, table, repo, chunk_count, latest>>
        /\ \A j \in Indexers \ {i} : snap'[j] = snap[j]
    BY <1>0, <1>3 DEF DeleteSees
  <2>2. deleted[i] = {}
    BY <2>1 DEF StoreInv
  <2>3. \A j \in Indexers : /\ deleted'[j] \subseteq snap'[j]
                            /\ pc'[j] \notin {"commit", "new_repo_commit"} => deleted'[j] = {}
    BY <2>1, <2>2 DEF StoreInv
  <2> QED BY <2>1, <2>3 DEF StoreInv, IsRow
<1>4. ASSUME NEW i \in Indexers, DeleteRows(i) PROVE StoreInv'
  <2>1. /\ pc[i] \in {"wait", "new_repo_wait"} /\ \A j \in Indexers \ {i} : pc'[j] = pc[j]
        /\ pc'[i] \in {"commit", "new_repo_commit"}
        /\ UNCHANGED <<disk, chunks, snap, table, repo, chunk_count, latest>>
        /\ \A j \in Indexers : deleted'[j] = IF j = i THEN snap[i] \cap table ELSE deleted[j]
    BY <1>0, <1>4 DEF DeleteRows
  <2>2. \A j \in Indexers : /\ deleted'[j] \subseteq snap'[j]
                            /\ pc'[j] \notin {"commit", "new_repo_commit"} => deleted'[j] = {}
    BY <2>1 DEF StoreInv
  <2> QED BY <2>1, <2>2 DEF StoreInv, IsRow
<1>5. ASSUME NEW i \in Indexers, Commit(i) PROVE StoreInv'
  <2>1. /\ \A j \in Indexers \ {i} : pc'[j] = pc[j]
        /\ table' = (table \ deleted[i]) \cup chunks[i] /\ chunk_count' = Cardinality(chunks[i])
        /\ \A j \in Indexers : deleted'[j] = IF j = i THEN {} ELSE deleted[j]
        /\ UNCHANGED <<disk, chunks, snap>>
    BY <1>0, <1>5 DEF Commit
  <2>2. chunk_count' \in Nat
    BY <2>1, FS_CardinalityType DEF StoreInv
  <2>3. \A r \in table' : IsRow(r)
    BY <2>1 DEF StoreInv
  <2>4. \A j \in Indexers : /\ deleted'[j] \subseteq snap'[j]
                            /\ pc'[j] \notin {"commit", "new_repo_commit"} => deleted'[j] = {}
    BY <2>1 DEF StoreInv
  <2> QED BY <2>1, <2>2, <2>3, <2>4 DEF StoreInv, IsRow
<1>6. ASSUME NEW i \in Indexers, Rollback(i) PROVE StoreInv'
  <2>1. /\ \A j \in Indexers \ {i} : pc'[j] = pc[j]
        /\ \A j \in Indexers : deleted'[j] = IF j = i THEN {} ELSE deleted[j]
        /\ UNCHANGED <<disk, chunks, snap, table, repo, chunk_count, latest>>
    BY <1>0, <1>6 DEF Rollback
  <2>2. \A j \in Indexers : /\ deleted'[j] \subseteq snap'[j]
                            /\ pc'[j] \notin {"commit", "new_repo_commit"} => deleted'[j] = {}
    BY <2>1 DEF StoreInv
  <2> QED BY <2>1, <2>2 DEF StoreInv, IsRow
<1>7. ASSUME NEW f \in Files, Edit(f) PROVE StoreInv'
  BY <1>7 DEF Edit, StoreInv, IsRow
<1>8. CASE UNCHANGED vars
  BY <1>8 DEF vars, StoreInv, IsRow
<1> QED BY <1>1, <1>2, <1>3, <1>4, <1>5, <1>6, <1>7, <1>8 DEF Next, Step

(* The state is typed, for every parser input and any number of requests:   *)
(* every stored chunk names an indexed file and a non-empty range of lines. *)
THEOREM TypeCorrect == Spec => []TypeOK
<1>1. DiskInv /\ ReplaceInv /\ StoreInv => TypeOK
  BY DEF DiskInv, ReplaceInv, RepoInv, StoreInv, IsRow, TypeOK
<1> QED BY <1>1, InitStore, NextStore, DiskInvariance, ReplaceInvariance, PTL DEF Spec

=============================================================================
