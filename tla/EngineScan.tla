------------------------------ MODULE EngineScan ------------------------------
(***************************************************************************)
(* internal/engine/engine.go: Load reads the pattern files, keeps the      *)
(* rules that compile and are asked for, and sorts them by severity; Scan  *)
(* runs each rule over an object, drops the matches whose checksum fails,  *)
(* and looks up the line of every other one (LineLookup).                  *)
(*                                                                         *)
(* Regular expressions and checksum functions are external: a hit says     *)
(* where a rule matches when the search gets there, and whether its        *)
(* checksum holds.  FindAllStringIndex takes hits from left to right, the  *)
(* next one where the last one ended or later.                             *)
(***************************************************************************)
EXTENDS LineLookup

CONSTANT Inputs   \* what Load and Scan are called with, see InputsAssumption

Severities == {"critical", "high", "medium", "low", "other"}

\* A rule's verifier is absent, registered, or named but not registered.
Verifiers == {"none", "known", "unknown"}

\* The offset behind the last byte that is not NUL: Scan matches on the text before it.
TextLen(s) == CHOOSE n \in 0..Len(s) :
                 /\ n > 0 => s[n] # "nul"
                 /\ \A k \in (n + 1)..Len(s) : s[k] = "nul"

\* A rule as its file has it; id tells the rules apart.
YamlPattern ==
    [id : STRING, compiles : BOOLEAN, location : STRING, category : STRING,
     severity : Severities, verifier : Verifiers]

YamlFile == [parses : BOOLEAN, rules : Seq(YamlPattern)]

Match == [rule : STRING, from : Nat, to : Nat, valid : BOOLEAN]

\* A rule's place in the files: the file, and the place in it.
PlacesIn(files) == UNION {{<<k, n>> : n \in 1..Len(files[k].rules)} : k \in 1..Len(files)}

RuleIn(files, pl) == files[pl[1]].rules[pl[2]]

\* Ids are unique over all files; a rule has one hit at most at an offset, and matches
\* no empty string.
WellFormed(inp) ==
    /\ inp.content \in Seq(Byte) /\ inp.files \in Seq(YamlFile)
    /\ \A pl, ql \in PlacesIn(inp.files) :
         RuleIn(inp.files, pl).id = RuleIn(inp.files, ql).id => pl = ql
    /\ \A h \in inp.hits :
         /\ h \in Match /\ h.from \in 0..Len(inp.content)
         /\ h.from < h.to /\ h.to <= TextLen(inp.content)
         /\ \A g \in inp.hits : g.rule = h.rule /\ g.from = h.from => g = h

ASSUME InputsAssumption == \A inp \in Inputs : WellFormed(inp)

VARIABLES
    input,      \* the pattern files, the options, the object's hits
    stage,      \* load, index, scan, done; failed: the walk broke off; empty: no rule
    f, seen,    \* files read, and rules of the next one looked at
    patterns,   \* Engine.patterns
    p, at,      \* the pattern in use, and where its search goes on
    hit,        \* the match whose line is looked up
    findings

engineVars == <<input, stage, f, seen, patterns, p, at, hit, findings>>
vars == <<lookupVars, engineVars>>

NoHit == [rule |-> "none", from |-> 0, to |-> 0, valid |-> FALSE]

Init ==
    /\ input \in Inputs /\ stage = "load" /\ f = 0 /\ seen = 0 /\ patterns = <<>>
    /\ p = 1 /\ at = 0 /\ hit = NoHit /\ findings = <<>>
    /\ content = input.content /\ LookupInit

-----------------------------------------------------------------------------
(* Load.                                                                    *)

\* An empty filter admits everything.
Wanted(rule) ==
    /\ input.locations = {} \/ rule.location \in input.locations
    /\ input.categories = {} \/ rule.category \in input.categories

\* The file that is being read; one that is no YAML is noted and skipped.
File == input.files[f + 1]

HasMoreRules == File.parses /\ seen < Len(File.rules)

\* Mutant: the first rule that does not compile ends the file.
GoesOnUpToError == HasMoreRules /\ \A k \in 1..seen : File.rules[k].compiles

\* Is there another rule to look at?
GoesOn == HasMoreRules

\* One rule of the file; one that does not compile is noted and skipped.
LoadRule ==
    /\ stage = "load" /\ f < Len(input.files) /\ GoesOn
    /\ seen' = seen + 1
    /\ patterns' = IF File.rules[seen + 1].compiles /\ Wanted(File.rules[seen + 1])
                   THEN Append(patterns, File.rules[seen + 1]) ELSE patterns
    /\ UNCHANGED <<lookupVars, input, stage, f, p, at, hit, findings>>

\* The walk goes on to the next file.
FileEnds ==
    /\ stage = "load" /\ f < Len(input.files) /\ ~GoesOn
    /\ f' = f + 1 /\ seen' = 0
    /\ UNCHANGED <<lookupVars, input, stage, patterns, p, at, hit, findings>>

\* The next file cannot be read, or a directory, which may lie behind the last file.
WalkFails ==
    /\ stage = "load" /\ seen = 0
    /\ stage' = "failed"
    /\ UNCHANGED <<lookupVars, input, f, seen, patterns, p, at, hit, findings>>

SeverityRank(s) ==
    [critical |-> 4, high |-> 3, medium |-> 2, low |-> 1, other |-> 0][s]

\* Does rule j of ps stand before rule k when they are sorted?
StandsBefore(ps, j, k) ==
    LET Rank(n) == SeverityRank(ps[n].severity)
    IN  Rank(j) > Rank(k) \/ (Rank(j) = Rank(k) /\ j < k)

Leaders(ps, k) == {j \in 1..Len(ps) : StandsBefore(ps, j, k)}

\* sort.SliceStable: entry n is the rule that n - 1 others stand before.
Sorted(ps) ==
    [n \in 1..Len(ps) |->
        ps[CHOOSE k \in 1..Len(ps) : Cardinality(Leaders(ps, k)) = n - 1]]

\* An engine without patterns is an error; what was noted is not, otherwise.
LoadEnds ==
    /\ stage = "load" /\ f = Len(input.files)
    /\ IF patterns = <<>>
       THEN stage' = "empty" /\ UNCHANGED patterns
       ELSE stage' = "index" /\ patterns' = Sorted(patterns)
    /\ UNCHANGED <<lookupVars, input, f, seen, p, at, hit, findings>>

-----------------------------------------------------------------------------
(* Scan.                                                                    *)

IndexLines == stage = "index" /\ Index /\ UNCHANGED engineVars

LinesIndexed ==
    /\ stage = "index" /\ i = Len(content)
    /\ stage' = "scan"
    /\ UNCHANGED <<lookupVars, input, f, seen, patterns, p, at, hit, findings>>

\* The hits that the search of the pattern in use can still find.
Ahead == {h \in input.hits : h.rule = patterns[p].id /\ h.from >= at}

\* The match that FindAllStringIndex takes next.
IsNext(h) == h \in Ahead /\ \A g \in Ahead : h.from <= g.from

\* Mutants: the search goes on one byte behind the match; one behind its beginning.
NextAtPast(h) == h.to + 1
NextAtOverlapping(h) == h.from + 1

\* Where the search goes on after h.
NextAt(h) == h.to

Verifiable(rule) == rule.verifier = "known"

\* Between two matches of the pattern in use.
Matching == stage = "scan" /\ pc # "search" /\ p <= Len(patterns)

\* The checksum says no: the match is dropped.
Drop(h) ==
    /\ Matching /\ IsNext(h)
    /\ Verifiable(patterns[p]) /\ ~h.valid
    /\ at' = NextAt(h)
    /\ UNCHANGED <<lookupVars, input, stage, f, seen, patterns, p, hit, findings>>

Accept(h) ==
    /\ Matching /\ IsNext(h)
    /\ Verifiable(patterns[p]) => h.valid
    /\ hit' = h /\ at' = NextAt(h)
    /\ StartSearch(h.from)
    /\ UNCHANGED <<input, stage, f, seen, patterns, p, findings>>

SearchLine == stage = "scan" /\ Search /\ UNCHANGED engineVars

Score(severity, verified) ==
    [critical |-> 70, high |-> 60, medium |-> 50, low |-> 40, other |-> 50][severity]
    + (IF verified THEN 25 ELSE 0)

Report ==
    /\ stage = "scan" /\ Finish
    /\ findings' = Append(findings,
         [rule |-> patterns[p].id, from |-> hit.from, to |-> hit.to, line |-> line',
          severity |-> patterns[p].severity, verified |-> Verifiable(patterns[p]),
          confidence |-> Score(patterns[p].severity, Verifiable(patterns[p]))])
    /\ UNCHANGED <<input, stage, f, seen, patterns, p, at, hit>>

NextPattern ==
    /\ Matching /\ Ahead = {}
    /\ p' = p + 1 /\ at' = 0
    /\ UNCHANGED <<lookupVars, input, stage, f, seen, patterns, hit, findings>>

Return ==
    /\ stage = "scan" /\ pc # "search" /\ p > Len(patterns)
    /\ stage' = "done"
    /\ UNCHANGED <<lookupVars, input, f, seen, patterns, p, at, hit, findings>>

Next ==
    \/ LoadRule \/ FileEnds \/ WalkFails \/ LoadEnds
    \/ IndexLines \/ LinesIndexed
    \/ \E h \in input.hits : Drop(h) \/ Accept(h)
    \/ SearchLine \/ Report \/ NextPattern \/ Return

\* Load and Scan are functions; one that runs goes on running.
Spec == Init /\ [][Next]_vars /\ WF_vars(Next)

-----------------------------------------------------------------------------
(* Properties.                                                              *)

TypeOK ==
    /\ input \in Inputs /\ LookupTypeOK
    /\ stage \in {"load", "index", "scan", "done", "failed", "empty"}
    /\ f \in 0..Len(input.files) /\ seen \in Nat
    /\ f < Len(input.files) => seen <= Len(File.rules)
    /\ patterns \in Seq(YamlPattern)
    /\ p \in 1..(Len(patterns) + 1) /\ at \in Nat /\ hit \in input.hits \cup {NoHit}
    /\ findings \in Seq([rule : STRING, from : Nat, to : Nat, line : Nat,
                         severity : Severities, verified : BOOLEAN, confidence : Nat])

Places == PlacesIn(input.files)

RuleAt(pl) == RuleIn(input.files, pl)

Before(pl, ql) == pl[1] < ql[1] \/ (pl[1] = ql[1] /\ pl[2] < ql[2])

Loadable == {pl \in Places : /\ input.files[pl[1]].parses
                             /\ RuleAt(pl).compiles /\ Wanted(RuleAt(pl))}

Rules == {patterns[k] : k \in 1..Len(patterns)}

\* A broken file or rule costs itself only: every other rule that is asked for is
\* loaded, once, and the rules stand by severity, then in the order of the files.
\* A walk that ends without a rule is an error, and only that.
LoadIsComplete ==
    /\ stage \in {"index", "scan", "done"} =>
         /\ Rules = {RuleAt(pl) : pl \in Loadable} /\ patterns # <<>>
         /\ Len(patterns) = Cardinality(Loadable)
         /\ \A k, l \in 1..Len(patterns) : k < l =>
              \E pl, ql \in Loadable :
                 /\ patterns[k] = RuleAt(pl) /\ patterns[l] = RuleAt(ql)
                 /\ LET Rank(place) == SeverityRank(RuleAt(place).severity)
                    IN  Rank(pl) > Rank(ql) \/ (Rank(pl) = Rank(ql) /\ Before(pl, ql))
    /\ stage = "empty" => Loadable = {}

Reported(h) ==
    \E k \in 1..Len(findings) : /\ findings[k].rule = h.rule
                                /\ findings[k].from = h.from /\ findings[k].to = h.to

\* A match that is valid, or of a rule without a registered verifier, is reported
\* unless it begins inside an earlier match of the same rule.
ValidIsReported ==
    stage = "done" =>
        \A rule \in Rules : \A h \in input.hits :
            /\ h.rule = rule.id
            /\ rule.verifier = "known" => h.valid
            /\ \A g \in input.hits : ~(g.rule = h.rule /\ g.from < h.from /\ h.from < g.to)
            => Reported(h)

\* What is reported is a match, validated where the rule has a registered verifier;
\* the most severe rules come first, and the findings of a rule do not overlap.
FindingsSound ==
    /\ \A k \in 1..Len(findings) :
         \E h \in input.hits, rule \in Rules :
            /\ h.rule = rule.id /\ findings[k].rule = rule.id
            /\ findings[k].from = h.from /\ findings[k].to = h.to
            /\ findings[k].verified <=> rule.verifier = "known"
            /\ rule.verifier = "known" => h.valid
    /\ \A k, l \in 1..Len(findings) : k < l =>
         /\ SeverityRank(findings[k].severity) >= SeverityRank(findings[l].severity)
         /\ findings[k].rule = findings[l].rule => findings[k].to <= findings[l].from

\* The line of every finding is one more than the newlines before its first byte.
LinesAreExact ==
    \A k \in 1..Len(findings) :
        findings[k].line = 1 + Cardinality(Newlines(findings[k].from))

\* Whatever the files and the object, the call returns.
Terminates == <>(stage \in {"done", "failed", "empty"})

-----------------------------------------------------------------------------
(* Statements of the sources that the code does not keep.                   *)

\* engine.go:150 "finds all PII matches in content": a match that begins inside one
\* whose checksum failed is never looked at.
EveryValidMatchReported ==
    stage = "done" =>
        \A rule \in Rules : \A h \in input.hits :
            h.rule = rule.id /\ h.valid
            /\ (\A g \in input.hits :
                  g.rule = h.rule /\ g.from < h.from /\ h.from < g.to => ~g.valid)
            => Reported(h)

\* ner.go:19 places the confidence 75 of an NER finding "below a checksum-verified
\* regex hit": one of medium severity has 75, one of low severity 65.
VerifiedOutranksNer ==
    \A k \in 1..Len(findings) : findings[k].verified => findings[k].confidence > 75

=============================================================================
