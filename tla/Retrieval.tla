----------------------------- MODULE Retrieval -----------------------------
(***************************************************************************)
(* The code index: scanning a repository, cutting its files into chunks    *)
(* along symbols or windows, and replacing the stored chunks of the        *)
(* repository in one transaction, by several requests at once.             *)
(*                                                                         *)
(*   retrieval/ingestion/*.py, persistence/repositories/code.py,           *)
(*   apps/api/routes/repositories.py                                       *)
(*                                                                         *)
(* A text is what the parsers see of it: its lines, of each whether a      *)
(* definition starts there, its indentation and whether it is blank; and   *)
(* its braces in the order they are read, each with its line.              *)
(* The requests run at PostgreSQL's READ COMMITTED: a statement sees the   *)
(* rows committed when it starts, and waits for rows a running transaction *)
(* has deleted or is inserting under the same key.                         *)
(***************************************************************************)
EXTENDS Integers, Sequences, FiniteSets

CONSTANTS
  Indexers,        \* requests to POST /repositories/index
  Files,           \* files below the root
  Language,        \* language_of each file
  Skipped,         \* files the scanner leaves out: directory, suffix or size
  Unreadable,      \* files whose reading may raise OSError
  Repositories,    \* the texts the files may start with
  Edits,           \* per file: texts it may be edited to
  NoOne,           \* no request has committed yet
  MAX_CHUNK_LINES, WINDOW_LINES, WINDOW_OVERLAP

(* No definition starts on a blank line. *)
Line == {l \in [def : BOOLEAN, indent : Nat, blank : BOOLEAN] : l.def => ~l.blank}

Brace == [line : Nat \ {0}, brace : {"{", "}"}]

(* A line may have any number of braces. *)
Text ==
  {t \in [lines : Seq(Line), braces : Seq(Brace)] :
     \A p \in DOMAIN t.braces :
       /\ t.braces[p].line <= Len(t.lines)
       /\ \A q \in DOMAIN t.braces : p <= q => t.braces[p].line <= t.braces[q].line}

ASSUME RetrievalAssumption ==
  /\ IsFiniteSet(Files) /\ Repositories \subseteq [Files -> Text]
  /\ DOMAIN Edits = Files /\ \A f \in Files : Edits[f] \subseteq Text
  /\ Language \in [Files -> {"python", "csharp", "markdown"}] /\ Skipped \subseteq Files
  /\ Unreadable \subseteq Files \ Skipped /\ NoOne \notin Indexers
  /\ MAX_CHUNK_LINES \in Nat /\ WINDOW_OVERLAP \in Nat /\ WINDOW_LINES \in Nat
  /\ WINDOW_OVERLAP < WINDOW_LINES

VARIABLES
  disk,       \* text of each file
  pc,         \* where each request stands
  chunks,     \* the rows it made of what it read
  snap,       \* rows its DELETE saw
  deleted,    \* rows it has deleted
  table,      \* committed rows of code_chunks for the repository
  repo,       \* committed: does the repositories row exist?
  chunk_count,
  latest      \* the request that committed last

vars == <<disk, pc, chunks, snap, deleted, table, repo, chunk_count, latest>>

-----------------------------------------------------------------------------
(* parser.py *)

Symbol(a, b) == [start_line |-> a, end_line |-> b, symbol |-> TRUE]

Least(S) == CHOOSE n \in S : \A k \in S : n <= k

Opens(b) == b.brace = "{"
Closes(b) == b.brace = "}"

(* Braces opened and not closed, from a brace on. *)
Depth(braces, from) ==
  LET depth[n \in (from - 1) .. Len(braces)] ==
        IF n < from THEN 0 ELSE depth[n - 1] + (IF Opens(braces[n]) THEN 1 ELSE -1)
  IN  depth

Opened(braces, from, n) == \E k \in from .. n : Opens(braces[k])

LastOfLine(braces, n) == \A k \in DOMAIN braces : k > n => braces[k].line > braces[n].line

(* The braces from a line on. *)
Below(text, from) == {n \in DOMAIN text.braces : text.braces[n].line >= from}

FirstBrace(text, from) == Least(Below(text, from))

_block_end_first(text, from) ==                  \* variant: the first closing brace ends the block
  LET ends == {n \in Below(text, from) : Closes(text.braces[n])}
  IN  IF ends = {} THEN Len(text.lines) ELSE text.braces[Least(ends)].line

(* Where the depth is 0 again: it is looked at behind every closing brace   *)
(* and at the end of every line.                                            *)
Ends(braces, from) ==
  {n \in from .. Len(braces) : /\ Opened(braces, from, n) /\ Depth(braces, from)[n] = 0
                               /\ Closes(braces[n]) \/ LastOfLine(braces, n)}

(* The line of the first such brace, also in the middle of the line. *)
_block_end(text, from) ==
  IF Below(text, from) = {} \/ Ends(text.braces, FirstBrace(text, from)) = {}
  THEN Len(text.lines)
  ELSE text.braces[Least(Ends(text.braces, FirstBrace(text, from)))].line

(* The symbols of a text, at most one to a line: a set, ordered by its lines. *)
_parse_braced(text) ==
  {Symbol(n, _block_end(text, n)) :
     n \in {k \in DOMAIN text.lines : text.lines[k].def /\ ~text.lines[k].blank}}

PythonEnd(lines, n) ==
  LET ends == {k \in (n + 1) .. Len(lines) : ~lines[k].blank /\ lines[k].indent <= lines[n].indent}
  IN  IF ends = {} THEN Len(lines) ELSE Least(ends) - 1

_parse_python(lines) ==
  {Symbol(n, PythonEnd(lines, n)) : n \in {k \in DOMAIN lines : lines[k].def}}

parse_symbols(language, text) ==
  CASE language = "csharp" -> _parse_braced(text)
    [] language = "python" -> _parse_python(text.lines)
    [] OTHER -> {}

-----------------------------------------------------------------------------
(* chunker.py *)

HasText(lines, a, b) == \E n \in a .. b : ~lines[n].blank

NextWindow_gap(end) == end + WINDOW_OVERLAP      \* variant: windows apart instead of overlapping

NextWindow(end) == end - WINDOW_OVERLAP + 1

WindowEnd(lines, start) ==
  IF start + WINDOW_LINES - 1 < Len(lines) THEN start + WINDOW_LINES - 1 ELSE Len(lines)

(* S holds the first line and, with a window that does not end the text,    *)
(* the start of the next one.                                               *)
LoopClosed(lines, S) ==
  /\ 1 \in S
  /\ \A start \in S :
       LET next == NextWindow(WindowEnd(lines, start))
       IN  WindowEnd(lines, start) < Len(lines) /\ next <= Len(lines) => next \in S

(* The lines the while loop starts a window at: the least such set. *)
WindowStarts(lines) ==
  {n \in DOMAIN lines : \A S \in SUBSET DOMAIN lines : LoopClosed(lines, S) => n \in S}

_window_chunks(lines) ==
  {[start_line |-> n, end_line |-> WindowEnd(lines, n), symbol |-> FALSE] :
     n \in {k \in WindowStarts(lines) : HasText(lines, k, WindowEnd(lines, k))}}

Usable(symbols) ==
  {y \in symbols : y.end_line >= y.start_line /\ y.end_line - y.start_line <= MAX_CHUNK_LINES}

chunk_file(language, text) ==
  LET usable == Usable(parse_symbols(language, text))
  IN  IF text.lines = <<>> THEN {}
      ELSE IF usable = {} THEN _window_chunks(text.lines)
      ELSE {y \in usable : HasText(text.lines, y.start_line, y.end_line)}

(* Rows of one request: its chunks, each with a fresh id. *)
Chunks(i, files) ==
  UNION {{[by |-> i, file |-> f, chunk |-> c] : c \in chunk_file(Language[f], disk[f])} :
           f \in files}

-----------------------------------------------------------------------------
(* index_repository *)

Init ==
  /\ disk \in Repositories
  /\ pc = [i \in Indexers |-> "start"]
  /\ chunks = [i \in Indexers |-> {}]
  /\ snap = [i \in Indexers |-> {}] /\ deleted = [i \in Indexers |-> {}]
  /\ repo \in BOOLEAN /\ latest = NoOne           \* never indexed, or before these requests
  /\ table = IF repo THEN Chunks(NoOne, Files \ Skipped) ELSE {}
  /\ chunk_count = Cardinality(table)

scan_repository_all(i, unreadable) ==            \* variant: SKIP_DIRECTORIES is not looked at
  /\ pc[i] = "start" /\ pc' = [pc EXCEPT ![i] = "upsert"]
  /\ chunks' = [chunks EXCEPT ![i] = Chunks(i, Files \ unreadable)]
  /\ UNCHANGED <<disk, snap, deleted, table, repo, chunk_count, latest>>

(* An OSError on a file leaves it out. *)
scan_repository(i, unreadable) ==
  /\ pc[i] = "start" /\ pc' = [pc EXCEPT ![i] = "upsert"]
  /\ chunks' = [chunks EXCEPT ![i] = Chunks(i, (Files \ Skipped) \ unreadable)]
  /\ UNCHANGED <<disk, snap, deleted, table, repo, chunk_count, latest>>

(* session.get, then INSERT when there is no row: a second INSERT of the    *)
(* key waits for the first and fails when that one commits.                 *)
upsert(i) ==
  /\ pc[i] = "upsert"
  /\ pc' = [pc EXCEPT ![i] = IF repo THEN "delete" ELSE "insert_repo"]
  /\ UNCHANGED <<disk, chunks, snap, deleted, table, repo, chunk_count, latest>>

HoldsKey == {"new_repo_delete", "new_repo_wait", "new_repo_commit"}

InsertRepo(i) ==
  /\ pc[i] = "insert_repo"
  /\ \A j \in Indexers : pc[j] \notin HoldsKey
  /\ pc' = [pc EXCEPT ![i] = IF repo THEN "failed" ELSE "new_repo_delete"]
  /\ UNCHANGED <<disk, chunks, snap, deleted, table, repo, chunk_count, latest>>

(* replace_all: the DELETE picks the rows it sees, *)
DeleteSees(i) ==
  /\ pc[i] \in {"delete", "new_repo_delete"}
  /\ snap' = [snap EXCEPT ![i] = table]
  /\ pc' = [pc EXCEPT ![i] = IF @ = "delete" THEN "wait" ELSE "new_repo_wait"]
  /\ UNCHANGED <<disk, chunks, deleted, table, repo, chunk_count, latest>>

(* waits for those another transaction has deleted, and takes what is left. *)
DeleteRows_skips(i) ==                           \* variant: skips rows locked by others
  /\ pc[i] \in {"wait", "new_repo_wait"}
  /\ deleted' = [deleted EXCEPT ![i] = (snap[i] \cap table) \ UNION {deleted[j] : j \in Indexers \ {i}}]
  /\ pc' = [pc EXCEPT ![i] = IF @ = "wait" THEN "commit" ELSE "new_repo_commit"]
  /\ UNCHANGED <<disk, chunks, snap, table, repo, chunk_count, latest>>

DeleteRows(i) ==
  /\ pc[i] \in {"wait", "new_repo_wait"}
  /\ \A j \in Indexers \ {i} : deleted[j] \cap snap[i] = {}
  /\ deleted' = [deleted EXCEPT ![i] = snap[i] \cap table]
  /\ pc' = [pc EXCEPT ![i] = IF @ = "wait" THEN "commit" ELSE "new_repo_commit"]
  /\ UNCHANGED <<disk, chunks, snap, table, repo, chunk_count, latest>>

(* The inserts, mark_indexed and the commit of the request's session. *)
Commit(i) ==
  /\ pc[i] \in {"commit", "new_repo_commit"}
  /\ table' = (table \ deleted[i]) \cup chunks[i]
  /\ chunk_count' = Cardinality(chunks[i])
  /\ repo' = TRUE /\ latest' = i
  /\ pc' = [pc EXCEPT ![i] = "done"] /\ deleted' = [deleted EXCEPT ![i] = {}]
  /\ UNCHANGED <<disk, chunks, snap>>

(* An exception, or the death of the process: the session rolls back. *)
Rollback(i) ==
  /\ pc[i] \notin {"start", "done", "failed"}
  /\ pc' = [pc EXCEPT ![i] = "failed"] /\ deleted' = [deleted EXCEPT ![i] = {}]
  /\ UNCHANGED <<disk, chunks, snap, table, repo, chunk_count, latest>>

Edit(f) ==
  /\ \E t \in Edits[f] \ {disk[f]} : disk' = [disk EXCEPT ![f] = t]
  /\ UNCHANGED <<pc, chunks, snap, deleted, table, repo, chunk_count, latest>>

Step(i) ==
  \/ \E u \in SUBSET Unreadable : scan_repository(i, u)
  \/ upsert(i) \/ InsertRepo(i) \/ DeleteSees(i) \/ DeleteRows(i) \/ Commit(i)

Next == (\E i \in Indexers : Step(i) \/ Rollback(i)) \/ \E f \in Files : Edit(f)

Spec == Init /\ [][Next]_vars

-----------------------------------------------------------------------------
(* Properties *)

(* States have their types; every stored chunk is a non-empty range of lines. *)
TypeOK ==
  /\ disk \in [Files -> Text] /\ chunk_count \in Nat /\ repo \in BOOLEAN
  /\ \A r \in table : r.by \in Indexers \cup {NoOne} /\ r.file \in Files \ Skipped
                      /\ r.chunk.start_line \in Nat \ {0} /\ r.chunk.end_line >= r.chunk.start_line
  /\ \A i \in Indexers : deleted[i] \subseteq snap[i]

(* The texts to be cut: what chunk_file makes of a text depends on nothing  *)
(* else, so that it is enough to look before the first request.             *)
Inputs == {f \in Files \ Skipped : \A i \in Indexers : pc[i] = "start"}

(* A chunk lies inside the text its request read and is no longer than the  *)
(* limits allow; _window_chunks and _block_end overrun no file.             *)
ChunksFit ==
  \A f \in Inputs :
    \A c \in chunk_file(Language[f], disk[f]) :
      /\ 1 <= c.start_line /\ c.start_line <= c.end_line /\ c.end_line <= Len(disk[f].lines)
      /\ c.end_line - c.start_line <= (IF c.symbol THEN MAX_CHUNK_LINES ELSE WINDOW_LINES - 1)

Neighbours(windows, c, d) ==
  /\ c.start_line < d.start_line
  /\ \A e \in windows : ~(c.start_line < e.start_line /\ e.start_line < d.start_line)

(* A file without usable symbols loses no line: windows cover all its text, *)
(* and neighbours share WINDOW_OVERLAP lines.                               *)
WindowsCover ==
  \A f \in Inputs :
    LET lines == disk[f].lines
        windows == chunk_file(Language[f], disk[f])
    IN  Usable(parse_symbols(Language[f], disk[f])) = {} =>
          /\ \A n \in DOMAIN lines : lines[n].blank \/
               \E c \in windows : n \in c.start_line .. c.end_line
          /\ (\A n \in DOMAIN lines : ~lines[n].blank) =>
               \A c, d \in windows : Neighbours(windows, c, d) =>
                 c.end_line - d.start_line + 1 = WINDOW_OVERLAP

(* chunk_file overruns nothing, and loses nothing of a file without usable  *)
(* symbols, at every length around the size of a window and of a chunk.     *)
ChunksCover == ChunksFit /\ WindowsCover

(* Python definitions nest: of two, one contains the other or they share no *)
(* line, and a definition's deeper lines belong to it.                      *)
PythonNests ==
  \A f \in Inputs :
    LET lines == disk[f].lines
        symbols == parse_symbols("python", disk[f])
    IN  Language[f] = "python" =>
          /\ \A y, z \in symbols : y.start_line < z.start_line =>
               z.start_line > y.end_line \/ z.end_line <= y.end_line
          /\ \A y \in symbols : \A n \in y.start_line .. Len(lines) :
               (\A k \in (y.start_line + 1) .. n : lines[k].blank \/ lines[k].indent > lines[y.start_line].indent)
                  => n <= y.end_line

OpensFirst(text, y) ==
  Below(text, y.start_line) # {} /\ Opens(text.braces[FirstBrace(text, y.start_line)])

(* From the line of a definition up to a brace as many are opened as closed. *)
Balanced(text, y, n) ==
  LET read == FirstBrace(text, y.start_line) .. n
  IN  Cardinality({k \in read : Opens(text.braces[k])})
        = Cardinality({k \in read : Closes(text.braces[k])})

(* Brace blocks (_block_end): a definition whose first brace opens a block  *)
(* ends on the line where as many blocks are closed as opened, for the      *)
(* first time, or else with the file; and one that starts above the last    *)
(* line of another, with a block of its own, ends no later than that.       *)
BracesMatch ==
  \A f \in Inputs :
    LET text == disk[f]
        symbols == {y \in parse_symbols("csharp", text) : OpensFirst(text, y)}
    IN  Language[f] = "csharp" =>
          /\ \A y \in symbols :
               /\ \/ y.end_line = Len(text.lines)
                  \/ \E n \in Below(text, y.start_line) :
                       text.braces[n].line = y.end_line /\ Balanced(text, y, n)
               /\ \A n \in Below(text, y.start_line) :
                    text.braces[n].line < y.end_line => ~Balanced(text, y, n)
          /\ \A y, z \in symbols : y.start_line < z.start_line =>
               z.start_line >= y.end_line \/ z.end_line <= y.end_line

(* The symbols parse_symbols finds are the blocks of the text, however it   *)
(* mixes nesting, blank lines, several braces on a line and unclosed ones.  *)
SymbolsNest == PythonNests /\ BracesMatch

(* However index requests overlap, fail or roll back: of the rows the       *)
(* latest request's DELETE saw none is left. A row of another request is    *)
(* one that committed while the latest one ran.                             *)
SeenRowsReplaced ==
  latest # NoOne => \A r \in table : r.by = latest \/ r \notin snap[latest]

(* The first index of a repository, made by several requests at once, has   *)
(* one winner: the rows of the others never mix with its rows.              *)
FirstIndexIsOne ==
  \A i \in Indexers : pc[i] \in HoldsKey => table = {} /\ ~repo

(* index_repository replaces: neither overlapping requests, nor two that    *)
(* both create the repository, leave rows that the latest one had seen.     *)
IndexReplaced == SeenRowsReplaced /\ FirstIndexIsOne

=============================================================================
