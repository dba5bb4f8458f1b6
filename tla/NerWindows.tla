------------------------------ MODULE NerWindows ------------------------------
(***************************************************************************)
(* The windows over long texts of privyscope-ner-server/server.py: _windows *)
(* cuts a text into overlapping windows that the model does not truncate,  *)
(* analyze runs the engine on each and shifts the spans it finds back to   *)
(* the text.  The text holds one entity, since spans are handled one by    *)
(* one; a text without tokens, a single window, has none.                  *)
(***************************************************************************)
EXTENDS Naturals, Integers, Sequences, FiniteSets

CONSTANTS
    Texts,        \* [len, tokens]: characters, and the tokens' [start, end)
    MaxLengths,   \* the runtime's max_length
    OverlapSizes      \* NER_WINDOW_OVERLAP_TOKENS

\* Tokens are in order, none is empty, and there may be blanks around them.
IsText(t) ==
    /\ t.len \in Nat /\ t.tokens \in Seq(Nat \X Nat)
    /\ \A k \in 1..Len(t.tokens) : t.tokens[k][1] < t.tokens[k][2] /\ t.tokens[k][2] <= t.len
    /\ \A j, k \in 1..Len(t.tokens) : j < k => t.tokens[j][2] <= t.tokens[k][1]

ASSUME TextAssumption    == \A t \in Texts : IsText(t)
ASSUME LengthAssumption  == MaxLengths \subseteq Nat \ 0..2   \* two are special tokens
ASSUME OverlapAssumption == OverlapSizes \subseteq Nat

VARIABLES
    text, maxLength, overlap,
    entity,    \* the tokens of the entity, [first, last]
    runtime,   \* is there an NER model?
    pc,        \* start, window, analyze or done
    i,         \* _windows: the first token of the next window, from zero
    windows,   \* its result: [start, end) of characters
    seen       \* analyze: the spans so far

windowsVars == <<text, maxLength, overlap, entity, runtime, pc, i, windows, seen>>
given == <<text, maxLength, overlap, entity, runtime>>

Tokens == text.tokens
n      == Len(Tokens)

From(t) == Tokens[t][1]
To(t)   == Tokens[t][2]

EntitySpan == <<From(entity[1]), To(entity[2])>>

Larger(a, b)  == IF a > b THEN a ELSE b
Smaller(a, b) == IF a < b THEN a ELSE b

\* Mutants: the special tokens are forgotten; the stride may become zero.
WinNoSpecials == maxLength
StrideZero    == Larger(0, Larger(1, maxLength - 2) - overlap)

Win    == Larger(1, maxLength - 2)
Stride == Larger(1, Win - overlap)

-----------------------------------------------------------------------------
WindowsInit ==
    /\ text \in Texts /\ maxLength \in MaxLengths /\ overlap \in OverlapSizes
    /\ entity \in {e \in (1..n) \X (1..n) : e[1] <= e[2]} /\ runtime \in BOOLEAN
    /\ pc = "start" /\ i = 0 /\ windows = <<>> /\ seen = {}

\* _windows begins; without a model the whole text is one window.
Start ==
    /\ pc = "start"
    /\ IF runtime THEN pc' = "window" /\ UNCHANGED windows
                  ELSE pc' = "analyze" /\ windows' = <<<<0, text.len>>>>
    /\ UNCHANGED <<given, i, seen>>

\* One pass of its loop, which ends with the window that reaches the last token.
Window ==
    /\ pc = "window"
    /\ LET j == Smaller(i + Win, n)
       IN  /\ windows' = Append(windows, <<From(i + 1), To(j)>>)
           /\ IF j >= n THEN pc' = "analyze" /\ UNCHANGED i
                        ELSE i' = i + Stride /\ UNCHANGED pc
    /\ UNCHANGED <<given, seen>>

\* The tokens of a window that the engine looks at: the model's input is truncated
\* to max_length, special tokens included.
Attended(w) ==
    LET in == {t \in 1..n : w[1] <= From(t) /\ To(t) <= w[2]}
    IN  IF runtime THEN {t \in in : Cardinality({u \in in : u < t}) < maxLength - 2} ELSE in

\* What the engine may find in a window, which it splits into the same tokens,
\* relative to it: the entity, if it sees all of it, or else the part it sees, as an
\* entity of its own or not at all.
Redact(w) ==
    LET part == {t \in Attended(w) : entity[1] <= t /\ t <= entity[2]}
        span == {<<From(a) - w[1], To(b) - w[1]>> :
                     a \in {t \in part : \A u \in part : t <= u},
                     b \in {t \in part : \A u \in part : u <= t}}
    IN  IF part = entity[1]..entity[2] THEN {span} ELSE {span, {}}

\* Mutant: spans are left relative to the window.
ShiftMissing(w, s) == s
Shift(w, s) == <<s[1] + w[1], s[2] + w[1]>>

\* analyze's loop: seen is a dictionary with the span in its key.
AnalyzeWindow ==
    /\ pc = "analyze" /\ windows # <<>>
    /\ \E found \in Redact(Head(windows)) :
         seen' = seen \cup {Shift(Head(windows), s) : s \in found}
    /\ windows' = Tail(windows)
    /\ UNCHANGED <<given, pc, i>>

Return ==
    /\ pc = "analyze" /\ windows = <<>>
    /\ pc' = "done"
    /\ UNCHANGED <<given, i, windows, seen>>

WindowsNext == Start \/ Window \/ AnalyzeWindow \/ Return

WindowsSpec == WindowsInit /\ [][WindowsNext]_windowsVars

-----------------------------------------------------------------------------
(* Properties.                                                              *)

Spans == (0..text.len) \X (0..text.len)

WindowsTypeOK ==
    /\ IsText(text) /\ maxLength \in MaxLengths /\ overlap \in OverlapSizes
    /\ entity \in (1..n) \X (1..n) /\ runtime \in BOOLEAN
    /\ pc \in {"start", "window", "analyze", "done"} /\ i \in 0..n
    /\ windows \in Seq(Spans) /\ seen \subseteq Spans

\* An entity is found whole, wherever in a long text it is, if it has at most one
\* token more than the windows overlap by, or fits a window when the overlap is as
\* long as that (README:8 "so long inputs are fully covered").
EntityIsFound ==
    pc = "done" /\ (\/ ~runtime
                    \/ entity[2] - entity[1] <= overlap /\ entity[2] - entity[1] < Win)
        => EntitySpan \in seen

\* Whatever is found is the entity or a part of it, at its place in the text.
OffsetsAbsolute ==
    \A s \in seen : EntitySpan[1] <= s[1] /\ s[1] < s[2] /\ s[2] <= EntitySpan[2]

\* Each window begins and ends behind the one before, for every overlap: the loop
\* ends, after no more windows than there are tokens.
WindowsAdvance ==
    \A k \in 1..(Len(windows) - 1) :
        windows[k][1] < windows[k + 1][1] /\ windows[k][2] < windows[k + 1][2]

-----------------------------------------------------------------------------
(* A statement of the documentation that the code does not keep.            *)

\* README:11 "de-duplicates across the overlaps": an entity that was found whole is
\* reported once.
Deduplicated == pc = "done" /\ EntitySpan \in seen => seen = {EntitySpan}

=============================================================================
