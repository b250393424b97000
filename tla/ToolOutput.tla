------------------------------ MODULE ToolOutput ------------------------------
(***************************************************************************)
(* What internal/tool makes of the text a tool has written: the limits of  *)
(* output.go and the row limit of find and grep.                           *)
(*                                                                         *)
(* A text is a sequence over two symbols: a byte of a line and a newline.  *)
(***************************************************************************)
EXTENDS Naturals, Sequences, FiniteSets

Symbols == {"byte", "newline"}

Newlines(text) == {i \in DOMAIN text : text[i] = "newline"}

\* Mutant: one line too many.
FirstLinesAndOne(text, n) ==
    IF Cardinality(Newlines(text)) <= n THEN text
    ELSE LET cut == CHOOSE i \in Newlines(text) :
                        Cardinality({j \in Newlines(text) : j < i}) = n
         IN  SubSeq(text, 1, cut - 1)

\* strings.Split gives one line more than there are newlines; the first n are
\* joined again, so the cut falls before the n-th newline.
FirstLines(text, n) ==
    IF Cardinality(Newlines(text)) < n THEN text
    ELSE LET cut == CHOOSE i \in Newlines(text) :
                        Cardinality({j \in Newlines(text) : j <= i}) = n
         IN  SubSeq(text, 1, cut - 1)

FirstBytes(text, n) == IF Len(text) > n THEN SubSeq(text, 1, n) ELSE text

\* Lines first, then bytes, each with its flag.
ApplyOutputLimits(text, maxLines, maxBytes) ==
    LET cut == FirstLines(text, maxLines)
        out == FirstBytes(cut, maxBytes)
    IN  [out |-> out, truncatedLines |-> cut # text, truncatedBytes |-> out # cut]

\* The first max lines that are not empty, each with a newline; a blank text
\* stays as it is.
limitLines(text, max) ==
    LET bytes == DOMAIN text \ Newlines(text)
        \* A line ends at a newline after a byte.
        ends  == {i \in Newlines(text) : i - 1 \in bytes}
        kept  == {i \in bytes \cup ends : Cardinality({j \in ends : j < i}) < max}
        lines == [k \in 1..Cardinality(kept) |->
                     text[CHOOSE i \in kept : Cardinality({j \in kept : j <= i}) = k]]
    IN  IF max = 0 \/ bytes = {} THEN text
        ELSE IF lines[Len(lines)] = "newline" THEN lines
        ELSE Append(lines, "newline")

==============================================================================
