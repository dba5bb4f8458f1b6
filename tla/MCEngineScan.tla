----------------------------- MODULE MCEngineScan -----------------------------
(* Instance of EngineScan for TLC.  Three families of inputs: every order   *)
(* of pattern files under every filter; every set of hits of a rule in a    *)
(* short object; every single hit in a longer one.                          *)
EXTENDS EngineScan

CONSTANTS
    MaxFiles,   \* bound: the files of a pattern directory
    MaxHits,    \* bound: the length of an object with every set of hits
    MaxLine     \* bound: the length of an object with one hit

Rule(id, compiles, loc, cat, sev, ver) ==
    [id |-> id, compiles |-> compiles, location |-> loc, category |-> cat,
     severity |-> sev, verifier |-> ver]

A == Rule("a", TRUE, "kr", "card", "low", "known")
B == Rule("b", TRUE, "us", "card", "critical", "none")
C == Rule("c", TRUE, "kr", "mail", "low", "unknown")
D == Rule("d", TRUE, "kr", "card", "high", "none")
Broken == Rule("e", FALSE, "kr", "card", "critical", "none")
Unread == Rule("f", TRUE, "kr", "card", "high", "none")

YamlOf(parses, rules) == [parses |-> parses, rules |-> rules]

Files == {YamlOf(TRUE, <<A, B>>), YamlOf(TRUE, <<Broken, C, D>>),
          YamlOf(FALSE, <<Unread>>), YamlOf(TRUE, <<>>)}

FileLists == UNION {{s \in [1..n -> Files] : \A j, k \in 1..n : s[j] = s[k] => j = k}
                      : n \in 0..MaxFiles}

Hit(rule, from, to, valid) == [rule |-> rule, from |-> from, to |-> to, valid |-> valid]

LoadInputs ==
    [files : FileLists, locations : {{}, {"kr"}, {"us"}}, categories : {{}, {"mail"}},
     content : {<<"other">>}, hits : {{Hit(r, 0, 1, TRUE) : r \in {"a", "c"}}}]

Strings(bytes, n) == UNION {[1..m -> bytes] : m \in 0..n}

Scanned(s, hits) ==
    [files |-> <<YamlOf(TRUE, <<A, B>>)>>, locations |-> {}, categories |-> {},
     content |-> s, hits |-> hits]

\* Every choice of at most one hit at each offset.
HitSets(rule, n) ==
    LET all == {Hit(rule, h[1], h[2], v) :
                  h \in {x \in (0..n) \X (0..n) : x[1] < x[2]}, v \in BOOLEAN}
    IN  {S \in SUBSET all : \A g, h \in S : g.from = h.from => g = h}

HitInputs ==
    UNION {{Scanned(s, S \cup T) :
              S \in HitSets("a", TextLen(s)),
              T \in {{}, {Hit("b", k, TextLen(s), FALSE) : k \in 0..(TextLen(s) - 1)}}}
            : s \in Strings(Byte, MaxHits)}

LineInputs ==
    UNION {{Scanned(s, {Hit("a", k, k + 1, TRUE)}) : k \in 0..(Len(s) - 1)}
            : s \in Strings({"newline", "other"}, MaxLine)}

SomeInputs == LoadInputs \cup HitInputs \cup LineInputs
=============================================================================
