------------------------------ MODULE ObjectScan ------------------------------
(***************************************************************************)
(* scanOne for one object: peek and read within the limits, extraction of  *)
(* documents, the check for binary content, the regex findings, and the    *)
(* NER stage: the text is capped and sent to the sidecar, whose spans      *)
(* count code points of what it received; ner.go turns them into bytes and *)
(* lines, and engine.Merge drops those that overlap a regex finding.       *)
(***************************************************************************)
EXTENDS Integers, FiniteSets, OfficeText

CONSTANTS
    Inputs,     \* pairs of an object and the options, see Object and Options
    PeekBytes   \* looksBinary looks at so many bytes

\* form is plain, pdf or zip.  bytes are those stored; a document cut short cannot be
\* parsed.  text is what the PDF parser recovers, parts are the members of the archive.
Object(form, bytes, text, parts) ==
    [form |-> form, bytes |-> bytes, text |-> text, parts |-> parts]

\* MaxObjectBytes, ScanBytesCap and NERMaxBytes: 0, or less, is no limit.
Options(extract, skipBinary, maxObject, scanCap, ner, nerMax) ==
    [extract |-> extract, skipBinary |-> skipBinary, maxObject |-> maxObject,
     scanCap |-> scanCap, ner |-> ner, nerMax |-> nerMax]

IsObject(o) ==
    /\ o.form \in {"plain", "pdf", "zip"}
    /\ o.bytes \in Seq(Byte) /\ o.text \in Seq(Byte) /\ o.parts \in Seq(OfficePart)
    /\ o.form # "zip" => o.parts = <<>>

IsOptions(o) ==
    /\ {o.extract, o.skipBinary, o.ner} \subseteq BOOLEAN
    /\ {o.maxObject, o.scanCap, o.nerMax} \subseteq Int

ASSUME InputsAssumption ==
    \A i \in Inputs : i = <<i[1], i[2]>> /\ IsObject(i[1]) /\ IsOptions(i[2])
ASSUME PeekAssumption == PeekBytes \in Nat

VARIABLES
    stage,   \* open, read, decoded, searched, capped, sent; or failed, skipped, scanned
    object, opts,
    data,    \* the bytes that are searched
    kind,    \* of the document that data was extracted from, or ""
    regex,   \* the regex findings
    sent,    \* the bytes of data that the sidecar received, by position
    spans,   \* its answer
    result   \* the findings of the object

vars == <<stage, object, opts, data, kind, regex, sent, spans, result>>

\* A finding's line and [ByteOffset, EndOffset); of an NER finding also its span.
Finding(src, line, from, to, span) ==
    [src |-> src, line |-> line, from |-> from, to |-> to, span |-> span]

Intervals(n) == {p \in (0..n) \X (0..n) : p[1] < p[2]}

\* Does a rune of two bytes begin at byte p of s?
Pair(s, p) == p < Len(s) /\ s[p] = "head" /\ s[p + 1] = "tail"

\* Is byte p of s part of valid UTF-8?
Valid(s, p) == s[p] \notin {"head", "tail"} \/ Pair(s, p) \/ (p > 1 /\ Pair(s, p - 1))

\* The zero-based offsets at which Go's range over s finds a rune; the sidecar
\* counts the same, an invalid byte reaches it as one replacement character.
Starts(s) == {p \in 0..(Len(s) - 1) : ~(p > 0 /\ Pair(s, p))}

\* Mutant: rune indices are taken for byte offsets.
RuneByteOffsetsSame(s, k) == k

\* runeByteOffsets(s)[k]: the byte at which rune k begins, the length for the last.
RuneByteOffsets(s, k) ==
    CHOOSE p \in Starts(s) \cup {Len(s)} : Cardinality({q \in Starts(s) : q < p}) = k

Runes(s) == Cardinality(Starts(s))

\* One plus the newlines before byte p.
LineAt(s, p) == 1 + Cardinality({q \in 1..p : s[q] = "newline"})

\* The positions of a set of bytes, in order.
InOrder(S) ==
    [k \in 1..Cardinality(S) |-> CHOOSE p \in S : Cardinality({q \in S : q <= p}) = k]

Text == [k \in 1..Len(sent) |-> data[sent[k]]]

-----------------------------------------------------------------------------
Init ==
    /\ stage = "open"
    /\ \E i \in Inputs : object = i[1] /\ opts = i[2]
    /\ data = <<>> /\ kind = "" /\ regex = {}
    /\ sent = <<>> /\ spans = {} /\ result = {}

\* GetObject or the read of the body fails.
ReadFails ==
    /\ stage = "open" /\ stage' = "failed"
    /\ UNCHANGED <<object, opts, data, kind, regex, sent, spans, result>>

IsDoc == opts.extract /\ object.form # "plain"

\* Mutant: the cap applies to documents too.
LimitForAll == IF opts.scanCap > 0 THEN opts.scanCap ELSE Len(object.bytes)

\* The LimitReader, or the whole object.
Limit ==
    IF IsDoc /\ opts.maxObject > 0 THEN opts.maxObject
    ELSE IF ~IsDoc /\ opts.scanCap > 0 THEN opts.scanCap
    ELSE Len(object.bytes)

Read ==
    /\ stage = "open" /\ stage' = "read"
    /\ LET all == Len(object.bytes)
       IN  data' = SubSeq(object.bytes, 1, IF Limit < all THEN Limit ELSE all)
    /\ UNCHANGED <<object, opts, kind, regex, sent, spans, result>>

\* extract.Text: a document that was cut short gives nothing.
ExtractText ==
    IF data # object.bytes THEN [text |-> <<>>, kind |-> ""]
    ELSE IF object.form = "pdf" THEN [text |-> object.text, kind |-> "pdf"]
    ELSE [text |-> OoxmlText(object.parts), kind |-> Kind(object.parts)]

\* A document without text stays what it was.
Decode ==
    /\ stage = "read" /\ stage' = "decoded"
    /\ IF IsDoc /\ ExtractText.kind # "" /\ Visible(ExtractText.text)
       THEN data' = ExtractText.text /\ kind' = ExtractText.kind
       ELSE UNCHANGED <<data, kind>>
    /\ UNCHANGED <<object, opts, regex, sent, spans, result>>

LooksBinary(s) == \E k \in 1..Len(s) : k <= PeekBytes /\ s[k] = "nul"

SkipBinary ==
    /\ stage = "decoded" /\ kind = "" /\ opts.skipBinary /\ LooksBinary(data)
    /\ stage' = "skipped"
    /\ UNCHANGED <<object, opts, data, kind, regex, sent, spans, result>>

\* engine.Scan finds any interval of the text, or nothing.
Search ==
    /\ stage = "decoded" /\ ~(kind = "" /\ opts.skipBinary /\ LooksBinary(data))
    /\ stage' = IF opts.ner THEN "searched" ELSE "scanned"
    /\ \E I \in Intervals(Len(data)) \cup {<<0, 0>>} :
         regex' = IF I = <<0, 0>> THEN {}
                  ELSE {Finding("regex", LineAt(data, I[1]), I[1], I[2], <<0, 0>>)}
    /\ result' = IF opts.ner THEN {} ELSE regex'
    /\ UNCHANGED <<object, opts, data, kind, sent, spans>>

\* text[:cap], then strings.ToValidUTF8: it drops every invalid byte, the head of a
\* rune that the cap split as well as those the text had before.
Trim ==
    /\ stage = "searched" /\ stage' = "capped"
    /\ LET cap  == opts.nerMax
           head == SubSeq(data, 1, cap)
       IN  sent' = IF cap > 0 /\ Len(data) > cap
                   THEN InOrder({p \in 1..cap : Valid(head, p)})
                   ELSE InOrder(1..Len(data))
    /\ UNCHANGED <<object, opts, data, kind, regex, spans, result>>

\* The sidecar answers; the client checks the offsets it gets, so they are any.
\* Spans are converted and merged one by one: one stands for all.
Analyze ==
    /\ stage = "capped" /\ stage' = "sent"
    /\ \E from, to \in -1..(Runes(Text) + 1) : spans' = {<<from, to>>}
    /\ UNCHANGED <<object, opts, data, kind, regex, sent, result>>

\* NER fails: the regex findings stand.
AnalyzeFails ==
    /\ stage = "capped" /\ stage' = "scanned"
    /\ result' = regex
    /\ UNCHANGED <<object, opts, data, kind, regex, sent, spans>>

\* spansToFindings ignores malformed offsets.
WellFormed(sp) == sp[1] >= 0 /\ sp[2] >= sp[1] /\ sp[2] <= Runes(Text)

SpanFinding(sp) ==
    LET from == RuneByteOffsets(Text, sp[1])
        to   == RuneByteOffsets(Text, sp[2])
    IN  Finding("ner", LineAt(Text, from), from, to, sp)

\* Mutant: findings that touch are taken to overlap.
OverlapsClosed(f, o) == f.from <= o.to /\ o.from <= f.to

Overlaps(f, o) == f.from < o.to /\ o.from < f.to

\* engine.Merge.
Merge ==
    /\ stage = "sent" /\ stage' = "scanned"
    /\ LET ner == {SpanFinding(sp) : sp \in {x \in spans : WellFormed(x)}}
       IN  result' = regex \cup {f \in ner : ~\E o \in regex : Overlaps(f, o)}
    /\ UNCHANGED <<object, opts, data, kind, regex, sent, spans>>

Next ==
    \/ ReadFails \/ Read \/ Decode \/ SkipBinary \/ Search
    \/ Trim \/ Analyze \/ AnalyzeFails \/ Merge

Spec == Init /\ [][Next]_vars

-----------------------------------------------------------------------------
(* Properties.                                                              *)

TypeOK ==
    /\ <<object, opts>> \in Inputs
    /\ stage \in {"open", "read", "decoded", "searched", "capped", "sent",
                  "failed", "skipped", "scanned"}
    /\ data \in Seq(Byte) /\ kind \in {"", "pdf", "docx", "xlsx", "pptx"}
    /\ sent \in Seq(1..Len(data)) /\ spans \subseteq Int \X Int
    /\ \A f \in regex \cup result :
         f.src \in {"regex", "ner"} /\ {f.line, f.from, f.to} \subseteq Nat

Ner == {f \in result : f.src = "ner"}

\* The number, from zero, of the rune that byte k of the text belongs to.
RuneOf(k) == Cardinality({q \in Starts(Text) : q < k}) - 1

\* The searched bytes that a span of the sidecar covers.
Covered(sp) ==
    {sent[k] : k \in {j \in 1..Len(sent) : RuneOf(j) \in sp[1]..(sp[2] - 1)}}

\* Nothing but a split rune is dropped when the text is capped.
Clean ==
    \/ opts.nerMax <= 0 \/ Len(data) <= opts.nerMax
    \/ \A p \in 1..Len(data) : Valid(data, p)

\* In valid UTF-8, and in a text below the cap, an NER finding's offsets are those
\* of the bytes that the sidecar's span covers, and its line is the line they are on.
OffsetsExact ==
    Clean => \A f \in Ner :
        /\ (f.from + 1)..f.to = Covered(f.span)
        /\ f.line = LineAt(data, f.from)

\* In such a text no entity is lost that lies clear of every regex finding,
\* and none is kept that shares a byte with one (merge.go:3-8).
MergeIsExact ==
    stage = "scanned" /\ spans # {} /\ Clean =>
        \A sp \in {x \in spans : WellFormed(x) /\ x[1] < x[2]} :
            (\E f \in Ner : f.span = sp) <=>
                \A o \in regex : Covered(sp) \cap ((o.from + 1)..o.to) = {}

\* Does a readable content part of the document show anything?
HasText ==
    \/ object.form = "pdf" /\ Visible(object.text)
    \/ \E i \in 1..Len(object.parts) :
         LET p == object.parts[i]
         IN  /\ IsContentPart(p.name) /\ p.opens
             /\ \E k \in Walked(p.tokens) : Visible(p.tokens[k].text)

\* A document with text, not larger than the size limit, is searched as text,
\* whatever the byte cap, damaged parts and NULs in the container (scanner.go:151-180).
DocumentIsRead ==
    /\ IsDoc /\ HasText
    /\ opts.maxObject <= 0 \/ Len(object.bytes) <= opts.maxObject
    /\ stage \notin {"open", "failed", "read"}
    => kind # "" /\ stage # "skipped"

\* The words of a text, as the bytes between two pieces of white space.
Words(s) ==
    LET starts == {k \in 1..Len(s) : s[k] \notin Blank /\ (k = 1 \/ s[k - 1] \in Blank)}
        end(k) == CHOOSE e \in k..Len(s) :
                    /\ \A j \in k..e : s[j] \notin Blank
                    /\ e = Len(s) \/ s[e + 1] \in Blank
    IN  [n \in 1..Cardinality(starts) |->
            LET k == InOrder(starts)[n] IN SubSeq(s, k, end(k))]

\* The searched text of an office document has the words of every run of every readable
\* content part in order: none is lost to a damaged neighbour and no two of them fuse
\* (extract.go:142-146).
RunsStayApart ==
    kind \in {"docx", "xlsx", "pptx"} =>
        Words(data) = FlattenSeq([i \in 1..Len(object.parts) |->
            LET p == object.parts[i]
            IN  IF ~(IsContentPart(p.name) /\ p.opens) THEN <<>>
                ELSE FlattenSeq([k \in 1..Len(p.tokens) |->
                    IF k \in Walked(p.tokens) THEN Words(p.tokens[k].text) ELSE <<>>])])

-----------------------------------------------------------------------------
(* Statements of the sources that the code does not keep.                   *)

\* scanner.go:191 "drop a possibly-split trailing rune": trimming to the cap costs
\* the end of the text only, so the offsets stay those of the text.
TrimKeepsOffsets == \A f \in Ner : (f.from + 1)..f.to = Covered(f.span)

=============================================================================
