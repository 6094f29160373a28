---------------------------- MODULE MCRetrieval ----------------------------
(***************************************************************************)
(* Texts for the model-checking run of Retrieval: every Python text of up  *)
(* to 3 lines, every text of up to 4 lines of six kinds, some with several *)
(* braces, every text of up to 6 blank or filled lines, each in the one    *)
(* indexed file.                                                           *)
(***************************************************************************)
EXTENDS Retrieval, SequencesExt

L(d, n, b) == [def |-> d, indent |-> n, blank |-> b]
Filled == L(FALSE, 0, FALSE)
Blank == L(FALSE, 0, TRUE)

PythonLines == {Filled, Blank, L(FALSE, 1, FALSE), L(TRUE, 0, FALSE), L(TRUE, 1, FALSE)}

(* What a line of a brace text holds: a definition or not, and its braces. *)
BraceLines == {<<TRUE, <<>>>>, <<TRUE, <<"{">>>>, <<TRUE, <<"{", "}", "{">>>>,
               <<FALSE, <<"{">>>>, <<FALSE, <<"}">>>>, <<FALSE, <<"}", "{">>>>}

Plain(lines) == [lines |-> lines, braces |-> <<>>]
Braced(t) ==
  [lines |-> [n \in DOMAIN t |-> L(t[n][1], 0, FALSE)],
   braces |-> FlattenSeq([n \in DOMAIN t |->
                [k \in DOMAIN t[n][2] |-> [line |-> n, brace |-> t[n][2][k]]]])]

UpTo(n, S) == UNION {[1 .. k -> S] : k \in 0 .. n}

MCFiles == {"py", "cs", "md", "dep"}
MCLanguage == [f \in MCFiles |->
  CASE f = "py" -> "python" [] f = "md" -> "markdown" [] OTHER -> "csharp"]
MCSkipped == {"dep"}
MCUnreadable == {"md"}

OneFile(f, S) == {[g \in MCFiles |-> IF g = f THEN t ELSE Plain(<<>>)] : t \in S}
MCRepositories ==
  OneFile("py", {Plain(t) : t \in UpTo(3, PythonLines)})
  \cup OneFile("cs", {Braced(t) : t \in UpTo(4, BraceLines)})
  \cup OneFile("md", {Plain(t) : t \in UpTo(6, {Filled, Blank})})
  \cup OneFile("dep", {Plain(<<Filled>>)})
MCEdits == [f \in MCFiles |-> IF f = "md" THEN {Plain(<<Filled>>)} ELSE {}]

=============================================================================
