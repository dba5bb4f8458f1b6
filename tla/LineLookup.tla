------------------------------ MODULE LineLookup ------------------------------
(***************************************************************************)
(* lineIndex and lineOf of internal/engine/engine.go: Scan builds a table  *)
(* of line starts once and finds the line of every match by a binary       *)
(* search in it.  The sidecar's findings get theirs by counting newlines   *)
(* (ner.go:142).  EngineScan extends this module with the rest of Scan.    *)
(***************************************************************************)
EXTENDS Naturals, Sequences, FiniteSets

VARIABLES
    content,   \* the bytes that are scanned
    offset,    \* the zero-based offset whose line is asked for
    pc,        \* index, search or done
    i,         \* lineIndex: bytes looked at
    starts,    \* the offset at which each line begins
    lo, hi,    \* lineOf: zero-based bounds of the search
    line       \* its result

lookupVars == <<content, offset, pc, i, starts, lo, hi, line>>

Byte == {"newline", "nul", "other"}

LookupInit ==
    /\ content \in Seq(Byte) /\ offset = 0
    /\ pc = "index" /\ i = 0 /\ starts = <<0>>
    /\ lo = 0 /\ hi = 0 /\ line = 0

\* Mutant: a line begins at its predecessor's newline.
IndexAtNewline ==
    /\ pc = "index" /\ i < Len(content)
    /\ starts' = IF content[i + 1] = "newline" THEN Append(starts, i) ELSE starts
    /\ i' = i + 1
    /\ UNCHANGED <<content, offset, pc, lo, hi, line>>

\* One pass of lineIndex's loop.
Index ==
    /\ pc = "index" /\ i < Len(content)
    /\ starts' = IF content[i + 1] = "newline" THEN Append(starts, i + 1) ELSE starts
    /\ i' = i + 1
    /\ UNCHANGED <<content, offset, pc, lo, hi, line>>

\* lineOf is called for a match that begins at o.
StartSearch(o) ==
    /\ pc \in {"index", "done"} /\ i = Len(content)
    /\ pc' = "search" /\ offset' = o
    /\ lo' = 0 /\ hi' = Len(starts) - 1
    /\ UNCHANGED <<content, i, starts, line>>

\* Mutant: mid is rounded down.
MidDown == (lo + hi) \div 2

Mid == (lo + hi + 1) \div 2

\* One pass of lineOf's loop: the last start at or before the offset.
Search ==
    /\ pc = "search" /\ lo < hi
    /\ IF starts[Mid + 1] <= offset
       THEN lo' = Mid /\ UNCHANGED hi
       ELSE hi' = Mid - 1 /\ UNCHANGED lo
    /\ UNCHANGED <<content, offset, pc, i, starts, line>>

Finish ==
    /\ pc = "search" /\ lo >= hi
    /\ line' = lo + 1 /\ pc' = "done"
    /\ UNCHANGED <<content, offset, i, starts, lo, hi>>

LookupNext ==
    \/ Index
    \/ \E o \in 0..Len(content) : StartSearch(o)
    \/ Search
    \/ Finish

LookupSpec == LookupInit /\ [][LookupNext]_lookupVars

-----------------------------------------------------------------------------
(* Properties.                                                              *)

LookupTypeOK ==
    /\ content \in Seq(Byte) /\ offset \in 0..Len(content)
    /\ pc \in {"index", "search", "done"} /\ i \in 0..Len(content)
    /\ starts \in Seq(0..Len(content)) /\ starts # <<>>
    /\ lo \in 0..(Len(starts) - 1) /\ hi \in 0..(Len(starts) - 1)
    /\ line \in 0..Len(starts)

\* The newlines among the first n bytes.
Newlines(n) == {j \in 1..n : content[j] = "newline"}

\* The line of a regex finding is the one an NER finding at the same offset gets:
\* 1 + strings.Count(text[:offset], "\n").
LineIsExact == pc = "done" => line = 1 + Cardinality(Newlines(offset))

=============================================================================
