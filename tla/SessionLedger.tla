---------------------------- MODULE SessionLedger ----------------------------
(***************************************************************************)
(* The durable scan session of internal/session/session.go: an append-only *)
(* ledger results.jsonl with one record per processed object, a manifest   *)
(* that ties the directory to one scan target, and a summary.  A process   *)
(* opens the directory, replays the ledger, records the objects it has     *)
(* still to scan and closes; it may die at every step, and the next        *)
(* process starts from what the files hold.  grep-cloud-storage and        *)
(* dark-data-storage carry the same file.                                  *)
(***************************************************************************)
EXTENDS Naturals, Sequences, FiniteSets

CONSTANTS
    Keys,        \* object keys
    Metas,       \* scan targets, one for each Meta.Fingerprint()
    Stamps,      \* the one-second time stamps of archiveExisting
    None,        \* no key, no target, no manifest
    Corrupt,     \* a manifest.json that does not parse
    TornWrites,  \* can a failed or killed write leave part of a line?
    ReadFaults,  \* can reading the ledger back stop early on an I/O error?
    MaxRuns      \* bound: processes started on this directory

ASSUME KeysAssumption   == IsFiniteSet(Keys) /\ None \notin Keys
ASSUME MetasAssumption  == None \notin Metas /\ Corrupt \notin Metas
ASSUME MarksAssumption  == None # Corrupt
ASSUME FaultsAssumption == TornWrites \in BOOLEAN /\ ReadFaults \in BOOLEAN
ASSUME RunsAssumption   == MaxRuns \in Nat

VARIABLES
    \* the session directory
    ledger,      \* the lines of results.jsonl
    haveLedger,  \* does results.jsonl exist?
    tornTail,    \* does its last line lack the newline?
    manifest,    \* the target in manifest.json, or None (no file) or Corrupt
    summary,     \* summary.json
    archive,     \* results.jsonl.<stamp>.bak, <<>> when there is none
    \* the process
    phase,       \* where it is
    step,        \* next file of archiveExisting's loop
    meta,        \* its target
    pending,     \* the objects it has still to record
    resumed,     \* Open's result: prior progress was loaded
    done,        \* Session.done
    rep,         \* the counters of Session.rep
    encErr,      \* json.Encoder's sticky error
    \* history
    fused,       \* this process wrote onto a line without newline
    runs         \* processes started so far

disk    == <<ledger, haveLedger, tornTail, manifest, summary, archive>>
memory  == <<meta, pending, resumed, done, rep, encErr, fused>>
vars    == <<ledger, haveLedger, tornTail, manifest, summary, archive, phase,
             step, meta, pending, resumed, done, rep, encErr, fused, runs>>

\* The three counters that AddRecord's switch chooses from.
Outcomes == {"scanned", "skipped", "error"}

Phases == {"down", "archive", "load", "manifest", "open"}

\* A line is a Record: its key, the counter it belongs to and (ghost) the
\* target of the process that wrote it.  A line that does not parse has no key.
Line == [key : Keys \cup {None}, out : Outcomes, by : Metas]

Garbled == [key |-> None, out |-> "error", by |-> meta]

ZeroRep == [c \in Outcomes |-> 0]

\* The objects a replay of the whole ledger would find.
DurableKeys == {ledger[i].key : i \in 1..Len(ledger)} \ {None}

Parsed(c) == {i \in 1..Len(ledger) : ledger[i].key # None /\ ledger[i].out = c}

-----------------------------------------------------------------------------
Init ==
    /\ ledger = <<>> /\ haveLedger = FALSE /\ tornTail = FALSE
    /\ manifest = None /\ summary = "absent"
    /\ archive = [s \in Stamps |-> <<>>]
    /\ phase = "down" /\ step = 1
    /\ meta = None /\ pending = {} /\ resumed = FALSE
    /\ done = {} /\ rep = ZeroRep /\ encErr = FALSE
    /\ fused = FALSE /\ runs = 0

\* The process ends: what it held in memory is gone.
Down ==
    /\ phase' = "down" /\ step' = 1
    /\ meta' = None /\ pending' = {} /\ resumed' = FALSE
    /\ done' = {} /\ rep' = ZeroRep /\ encErr' = FALSE /\ fused' = FALSE
    /\ UNCHANGED runs

\* A process with target m and the listing L reaches session.Open.
Start(m, fresh, L) ==
    /\ phase = "down" /\ runs < MaxRuns
    /\ phase' = IF fresh THEN "archive" ELSE "load"
    /\ meta' = m /\ pending' = L /\ runs' = runs + 1
    /\ UNCHANGED <<disk, step, resumed, done, rep, encErr, fused>>

\* Mutant: the manifest is moved aside before the ledger.
ArchiveOrderManifestFirst == <<"manifest", "results", "summary">>

\* The order in which archiveExisting renames the files aside.
ArchiveOrder == <<"results", "manifest", "summary">>

\* One pass of that loop.  Rename replaces a file that has the target name.
Archive ==
    /\ phase = "archive"
    /\ CASE ArchiveOrder[step] = "results" ->
              /\ \/ ~haveLedger /\ UNCHANGED archive
                 \/ /\ haveLedger
                    /\ \E s \in Stamps : archive' = [archive EXCEPT ![s] = ledger]
              /\ ledger' = <<>> /\ haveLedger' = FALSE /\ tornTail' = FALSE
              /\ UNCHANGED <<manifest, summary>>
         [] ArchiveOrder[step] = "manifest" ->
              /\ manifest' = None
              /\ UNCHANGED <<ledger, haveLedger, tornTail, summary, archive>>
         [] OTHER ->
              /\ summary' = "absent"
              /\ UNCHANGED <<ledger, haveLedger, tornTail, manifest, archive>>
    /\ IF step < 3 THEN step' = step + 1 /\ UNCHANGED phase
                   ELSE step' = 1 /\ phase' = "load"
    /\ UNCHANGED <<memory, runs>>

\* The fingerprint check of Open.
SameTarget(m) == manifest = m

\* How many lines replay gets through: an I/O error ends it like the end of file.
Readable == IF ReadFaults THEN 0..Len(ledger) ELSE {Len(ledger)}

\* Mutant: objects that ended in an error are not taken for done.
ReplayDoneRetryErrors(n) ==
    {ledger[i].key : i \in {j \in 1..n : ledger[j].out # "error"}} \ {None}

\* Mutant: the counters are not re-seeded.
ReplayRepZero(n) == ZeroRep

\* What replay rebuilds from the first n lines.
ReplayDone(n) == {ledger[i].key : i \in 1..n} \ {None}
ReplayRep(n)  == [c \in Outcomes |-> Cardinality({i \in Parsed(c) : i <= n})]

\* Mutant: Open creates the ledger anew, O_TRUNC instead of O_APPEND.
LoadTruncating ==
    /\ phase = "load" /\ manifest \in {None, meta}
    /\ done' = DurableKeys /\ rep' = ReplayRep(Len(ledger)) /\ resumed' = (done' # {})
    /\ phase' = "manifest" /\ haveLedger' = TRUE
    /\ ledger' = <<>> /\ tornTail' = FALSE
    /\ UNCHANGED <<manifest, summary, archive, step, meta, pending, encErr, fused, runs>>

\* Open, up to the creation of the ledger: no manifest, or one of this target.
Load ==
    /\ phase = "load"
    /\ \/ /\ manifest = None
          /\ UNCHANGED <<done, rep, resumed>>
       \/ /\ SameTarget(meta) /\ manifest \notin {None, Corrupt}
          /\ \E n \in Readable :
               /\ done' = ReplayDone(n)
               /\ rep' = ReplayRep(n)
          /\ resumed' = (done' # {})
    /\ phase' = "manifest" /\ haveLedger' = TRUE
    /\ UNCHANGED <<ledger, tornTail, manifest, summary, archive, step, meta,
                   pending, encErr, fused, runs>>

\* Open returns an error: another target's manifest, or one that is corrupt.
Refuse ==
    /\ phase = "load" /\ manifest # None
    /\ ~SameTarget(meta) \/ manifest = Corrupt
    /\ Down /\ UNCHANGED disk

\* Mutant: the caller starts over with everything it listed.
RemainingAll == pending

\* The caller's resume step: the listed objects that are not in the ledger.
Remaining == {k \in pending : ~(resumed /\ k \in done)}

\* Open rewrites the manifest and returns; the caller works out what remains.
WriteManifest ==
    /\ phase = "manifest"
    /\ manifest' = meta /\ phase' = "open" /\ pending' = Remaining
    /\ UNCHANGED <<ledger, haveLedger, tornTail, summary, archive, step, meta,
                   resumed, done, rep, encErr, fused, runs>>

\* Mutant: without O_APPEND the first write lands on the first line.
AppendedAtStart(line) ==
    IF ledger # <<>> /\ done = ReplayDone(Len(ledger))
    THEN [ledger EXCEPT ![1] = line] ELSE Append(ledger, line)

\* The file after a line was appended: O_APPEND continues an unfinished line.
Appended(line) ==
    IF tornTail THEN [ledger EXCEPT ![Len(ledger)] = Garbled]
                ELSE Append(ledger, line)

\* Record succeeds for object k.
Record(k, o) ==
    /\ phase = "open" /\ k \in pending /\ ~encErr
    /\ ledger' = Appended([key |-> k, out |-> o, by |-> meta])
    /\ tornTail' = FALSE /\ fused' = (fused \/ tornTail)
    /\ done' = done \cup {k} /\ rep' = [rep EXCEPT ![o] = @ + 1]
    /\ pending' = pending \ {k}
    /\ UNCHANGED <<haveLedger, manifest, summary, archive, phase, step, meta,
                   resumed, encErr, runs>>

\* A write that fails or is cut short: all of the line but its newline is in
\* the file, or only a part of it, or nothing.
CutShort(k, o) ==
    \/ UNCHANGED <<ledger, tornTail>>
    \/ /\ TornWrites
       /\ \E line \in {[key |-> k, out |-> o, by |-> meta], Garbled} :
            ledger' = Appended(line)
       /\ tornTail' = TRUE

\* Mutant: done is updated although the write failed.
RecordFailsMarked(k, o) ==
    /\ phase = "open" /\ k \in pending
    /\ IF encErr THEN UNCHANGED <<ledger, tornTail>> ELSE CutShort(k, o)
    /\ fused' = (fused \/ (tornTail /\ ledger' # ledger))
    /\ encErr' = TRUE /\ pending' = pending \ {k} /\ done' = done \cup {k}
    /\ UNCHANGED <<haveLedger, manifest, summary, archive, phase, step, meta,
                   resumed, rep, runs>>

\* Record returns an error, the first one or the encoder's sticky one: the
\* caller prints a warning and goes on with the next object.
RecordFails(k, o) ==
    /\ phase = "open" /\ k \in pending
    /\ IF encErr THEN UNCHANGED <<ledger, tornTail>> ELSE CutShort(k, o)
    /\ fused' = (fused \/ (tornTail /\ ledger' # ledger))
    /\ encErr' = TRUE /\ pending' = pending \ {k}
    /\ UNCHANGED <<haveLedger, manifest, summary, archive, phase, step, meta,
                   resumed, done, rep, runs>>

\* WriteSummary; os.WriteFile may fail after truncating the file.
WriteSummary(complete) ==
    /\ phase = "open"
    /\ summary' = IF complete THEN "complete" ELSE "incomplete"
    /\ UNCHANGED <<ledger, haveLedger, tornTail, manifest, archive, phase, step,
                   memory, runs>>

\* The caller closes the session and exits.
Close ==
    /\ phase = "open"
    /\ Down /\ UNCHANGED disk

\* The process dies, or a file operation of Open or WriteSummary fails and the
\* run ends with its error: whatever it was writing may be cut short.
Crash ==
    /\ phase # "down"
    /\ Down
    /\ \/ UNCHANGED disk
       \/ /\ phase = "manifest" /\ manifest' = Corrupt
          /\ UNCHANGED <<ledger, haveLedger, tornTail, summary, archive>>
       \/ /\ phase = "open" /\ summary' = "corrupt"
          /\ UNCHANGED <<ledger, haveLedger, tornTail, manifest, archive>>
       \/ /\ phase = "open" /\ ~encErr
          /\ \E k \in pending, o \in Outcomes : CutShort(k, o)
          /\ UNCHANGED <<haveLedger, manifest, summary, archive>>

Next ==
    \/ \E m \in Metas, fresh \in BOOLEAN, L \in SUBSET Keys : Start(m, fresh, L)
    \/ Archive
    \/ Load
    \/ Refuse
    \/ WriteManifest
    \/ \E k \in Keys, o \in Outcomes : Record(k, o)
    \/ \E k \in Keys, o \in Outcomes : RecordFails(k, o)
    \/ \E complete \in BOOLEAN : WriteSummary(complete)
    \/ Close
    \/ Crash

Spec == Init /\ [][Next]_vars

-----------------------------------------------------------------------------
(* Properties.                                                              *)

\* Every variable keeps its type, and the files and the phase agree.
DiskTypeOK ==
    /\ ledger \in Seq(Line) /\ haveLedger \in BOOLEAN /\ tornTail \in BOOLEAN
    /\ manifest \in Metas \cup {None, Corrupt}
    /\ summary \in {"absent", "corrupt", "incomplete", "complete"}
    /\ archive \in [Stamps -> Seq(Line)]
    /\ tornTail => ledger # <<>>

ProcessTypeOK ==
    /\ phase \in Phases /\ step \in 1..3
    /\ meta \in Metas \cup {None} /\ (meta = None <=> phase = "down")
    /\ pending \in SUBSET Keys /\ resumed \in BOOLEAN
    /\ done \in SUBSET Keys /\ rep \in [Outcomes -> Nat]
    /\ encErr \in BOOLEAN /\ fused \in BOOLEAN /\ runs \in 0..MaxRuns

TypeOK ==
    /\ DiskTypeOK
    /\ ProcessTypeOK
    /\ phase \in {"manifest", "open"} => haveLedger

\* Over all runs, crashes and resumes an object has at most one line in the
\* ledger (report.go:18 "Every processed object produces exactly one Record").
OneRecordPerObject ==
    \A i, j \in 1..Len(ledger) :
        ledger[i].key = ledger[j].key /\ ledger[i].key # None => i = j

\* Whatever step a process dies at, a ledger with lines never stands without a
\* manifest: Open would take it for new and append to it without a replay.
ManifestGuardsLedger == ledger # <<>> => manifest # None

\* The records of two scan targets never meet in one ledger, and a manifest
\* that parses names the target of every line (the mismatch check of Open).
SingleTarget ==
    \A i \in 1..Len(ledger) : manifest # Corrupt => ledger[i].by = manifest

\* A scan that resumes never downloads an object again whose record a replay
\* of the ledger would find (README "Nothing already written is ... re-scanned").
NoRescan == phase = "open" => pending \cap DurableKeys = {}

\* The counters of the summary add up to the number of objects done, through any
\* number of replays (Report.AddRecord, session.replay); and while no write failed
\* or landed on an unfinished line, each is the number of the ledger's lines of
\* its kind: the summary agrees with the ledger.
AggregateMatchesLedger ==
    /\ rep["scanned"] + rep["skipped"] + rep["error"] = Cardinality(done)
    /\ phase = "open" /\ ~encErr /\ ~fused =>
            \A c \in Outcomes : rep[c] = Cardinality(Parsed(c))

\* What Record accepted is in the ledger for the next replay, unless the write
\* landed on an unfinished line; that costs at most the line there and the new one.
LossBounded ==
    phase = "open" => /\ ~fused => done \subseteq DurableKeys
                      /\ Cardinality(done \ DurableKeys) <= 2

\* A step other than --fresh's rename costs the ledger no record but the one on
\* an unfinished last line.
LossIsConfined ==
    [][phase # "archive" =>
        \A k \in DurableKeys \ DurableKeys' :
            tornTail /\ ledger[Len(ledger)].key = k]_vars

\* The session directory keeps the contract of a resumable scan (README "How it
\* works"): read as the number of lines a replay finds for each object, the ledger only
\* gains objects that have no line yet, loses none but the one on an unfinished last
\* line, and is emptied by a process with --fresh before it replays, by no other.
Recorded ==
    [m \in Metas |-> [k \in Keys |->
        Cardinality({i \in 1..Len(ledger) : ledger[i].key = k /\ ledger[i].by = m})]]

AtRisk ==
    IF tornTail /\ ledger[Len(ledger)].key # None
    THEN {<<ledger[Len(ledger)].by, ledger[Len(ledger)].key>>} ELSE {}

Contract == INSTANCE ResumeContract
            WITH times <- Recorded, fresh <- (phase = "archive"), atRisk <- AtRisk,
                 Lossy <- TornWrites

KeepsContract == Contract!Spec

-----------------------------------------------------------------------------
(* Statements of the documentation that the code does not keep.             *)

\* session.go:213 "flushing so it survives an interrupt": what Record accepted
\* in this process or an earlier one is in the ledger.
AcceptedSurvives == phase = "open" => done \subseteq DurableKeys

\* README:34 "re-running the same command resumes": between runs, a directory
\* that holds records has a manifest that Open accepts.
Resumable == phase = "down" /\ ledger # <<>> => manifest \in Metas

\* session.go:290 "--fresh does not destroy earlier results": a ledger that was
\* set aside stays as it is.
ArchivesKept ==
    [][\A s \in Stamps : archive[s] # <<>> => archive'[s] = archive[s]]_vars

=============================================================================
