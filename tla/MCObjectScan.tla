----------------------------- MODULE MCObjectScan -----------------------------
(* Instance of ObjectScan for TLC: short plain objects through the NER stage, and *)
(* documents of up to two parts.                                                  *)
EXTENDS ObjectScan

CONSTANTS
    MaxLen,     \* bound: the length of a plain object
    MaxTokens   \* bound: the tokens of a document's first part

Contents(B, n) == UNION {[1..k -> B] : k \in 0..n}

PlainObjects ==
    {Object("plain", s, <<>>, <<>>) :
        s \in Contents({"ascii", "head", "tail"}, MaxLen)
              \cup Contents({"newline", "head", "tail"}, MaxLen - 1)
              \cup Contents({"ascii", "nul"}, MaxLen - 1)}

PlainInputs ==
    PlainObjects \X {Options(TRUE, skip, 0, cap, TRUE, ner) :
                        skip \in BOOLEAN, cap \in {0, 3}, ner \in {0, 2}}

Runs == {<<"ascii">>, <<"head", "tail">>, <<"blank", "ascii">>, <<"newline">>}

Tokens == {CharData(w) : w \in Runs} \cup {EndElement("p"), EndElement("r"), Malformed}

FirstParts ==
    {Part(name, TRUE, t) : name \in {"word", "xl"}, t \in Contents(Tokens, MaxTokens)}
    \cup {Part("word", FALSE, <<CharData(<<"ascii">>)>>)}
    \cup {Part("theme", TRUE, <<CharData(<<"ascii">>)>>)}

SecondParts == {Part("word", TRUE, t) : t \in Contents(Tokens, 1)}

Archives ==
    {<<>>} \cup {<<p>> : p \in FirstParts}
    \cup {<<p, q>> : p \in FirstParts, q \in SecondParts}
    \cup {<<q, p>> : p \in {x \in FirstParts : ~x.opens \/ x.name = "theme"}, q \in SecondParts}

\* What the container looks like as bytes; the limits of 2 cut it.
Container == <<"ascii", "nul", "ascii">>

Documents ==
    {Object("zip", Container, <<>>, a) : a \in Archives}
    \cup {Object("pdf", Container, t, <<>>) : t \in {<<>>, <<"blank">>, <<"ascii">>}}

DocumentInputs ==
    Documents \X {Options(extract, TRUE, max, 2, FALSE, 0) :
                    extract \in BOOLEAN, max \in {0, 2, 3}}

\* Documents whose text goes through the NER stage.
MixedInputs ==
    {Object("zip", Container, <<>>, <<Part("word", TRUE, <<t, EndElement("tr"), u>>)>>) :
        t, u \in {CharData(w) : w \in Runs}}
    \X {Options(TRUE, TRUE, 3, 2, TRUE, ner) : ner \in {0, 4}}

AllInputs == PlainInputs \cup DocumentInputs \cup MixedInputs
=============================================================================
