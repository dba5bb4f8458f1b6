------------------------------ MODULE OfficeText ------------------------------
(***************************************************************************)
(* internal/extract/extract.go for office documents: the text of a ZIP     *)
(* archive of XML parts.  The decoders of encoding/xml and archive/zip are *)
(* external; a part is the list of tokens that they deliver.               *)
(***************************************************************************)
EXTENDS Naturals, Sequences, SequencesExt

\* A byte is a character of its own, white space among them, or the head or the tail of
\* a character of two bytes.
Blank == {"blank", "newline"}
Byte  == Blank \cup {"ascii", "head", "tail", "nul"}

\* Character data, the end of an element, and the error that ends a malformed part.
CharData(text)   == [token |-> "CharData", text |-> text, name |-> ""]
EndElement(name) == [token |-> "EndElement", text |-> <<>>, name |-> name]
Malformed        == [token |-> "error", text |-> <<>>, name |-> ""]

Token ==
    {t \in [token : {"CharData", "EndElement", "error"}, text : Seq(Byte), name : STRING] :
        t.token # "CharData" => t.text = <<>>}

\* A member of the archive, by the directory it belongs to: the tokens before the end
\* or the first error count.
Part(name, opens, tokens) == [name |-> name, opens |-> opens, tokens |-> tokens]

OfficePart == [name : STRING, opens : BOOLEAN, tokens : Seq(Token)]

Visible(text) == \E k \in 1..Len(text) : text[k] \notin Blank

IsContentPart(name) == name \in {"word", "xl", "ppt"}

Classify == [word |-> "docx", xl |-> "xlsx", ppt |-> "pptx"]

\* The tokens that the walk over a part sees.
Walked(tokens) ==
    LET bad == {k \in 1..Len(tokens) : tokens[k] = Malformed}
    IN  {k \in 1..Len(tokens) : \A b \in bad : k < b}

\* Mutant: no space between two runs.
EmitBare(t) ==
    IF t.token = "CharData" THEN t.text
    ELSE IF t.name \in {"p", "tr", "row"} THEN <<"newline">> ELSE <<>>

\* What one token adds to the text.
Emit(t) ==
    IF t.token = "CharData" /\ t.text # <<>> THEN Append(t.text, "blank")
    ELSE IF t.name \in {"p", "tr", "row"} THEN <<"newline">> ELSE <<>>

XmlText(tokens) ==
    FlattenSeq([k \in 1..Len(tokens) |-> IF k \in Walked(tokens) THEN Emit(tokens[k]) ELSE <<>>])

\* ooxmlText: a part that cannot be opened is passed over.
OoxmlText(parts) ==
    FlattenSeq([i \in 1..Len(parts) |->
        IF IsContentPart(parts[i].name) /\ parts[i].opens
        THEN XmlText(parts[i].tokens) ELSE <<>>])

\* The kind of the first content part, readable or not.
Kind(parts) ==
    LET content == {i \in 1..Len(parts) : IsContentPart(parts[i].name)}
    IN  IF content = {} THEN ""
        ELSE Classify[parts[CHOOSE i \in content : \A j \in content : i <= j].name]

=============================================================================
