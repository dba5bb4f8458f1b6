# pii-utils in TLA+

This directory holds TLA+ models of the two scanners of this repository,
`grep-cloud-storage` and `dark-data-storage`, the TLC configurations that check
them and the proofs that TLAPS checks. `src/...` stands for the repository.

Contents: 1 the system, 2 the modules, 3 what the runs show, 4 what is proved,
5 statements the code does not keep, 6 bounds and fairness, 7 what is left out,
8 plan.

## 1. The system

Both tools read objects of S3 buckets, search them for personal data and write a
report. They are separate programs with copies of the same internal packages
(`session`, `report`, `scanner`, `engine`, `ner`, `extract`, `cost`, `provider`
differ in import paths at most). Where a definition models a package of both,
PROJECT.json maps some definitions to one copy and some to the other.

| Component | State | Operations | Works with |
|---|---|---|---|
| session (`internal/session`) | `results.jsonl`, `manifest.json`, `summary.json`, archives; in memory `done`, the encoder, the report | Open (archiveExisting, load manifest, replay, write manifest), Record, WriteSummary, Close | both `run()`; report |
| report (`internal/report`) | aggregate counters | AddRecord, WriteJSON, Summary | session |
| scanner (`internal/scanner`) | job channel, wait group, mutex around the callback | Inventory, Scan, scanOne | provider, engine, extract, ner; calls back into `run()` |
| grep run (`grep-cloud-storage/main.go`) | the stage it has reached, the context, the listing | preflight, ownership gate, listing, session, cost gate, scan, summary | everything |
| dark run (`dark-data-storage/main.go`) | the same over many buckets, one ledger | discovery, session, inventory of each bucket, cost gate, a Scan per bucket, summary | everything |
| awsx, dark (`internal/awsx`) | facts of the buckets | DiscoverBuckets and its seven calls per bucket | S3; discovery |
| awsx, grep (`internal/awsx`) | none | WhoAmI, CheckBucketOwnership | S3; grep run |
| discovery (`internal/discovery`) | none | Assess, AssessAll, Select, report | dark run |
| engine (`internal/engine`) | compiled patterns | Load, Scan, lineIndex/lineOf, Merge, maskValue | scanner |
| ner client (`internal/ner`) | HTTP client | Ping, Analyze, spansToFindings | sidecar |
| provider (`internal/provider`) | token bucket | List, Open | S3 |
| extract (`internal/extract`) | none | IsDoc, Text: the text of office documents and PDF | scanner |
| cost (`internal/cost`) | none | price of a scan and its thresholds | runs |
| sidecar (`privyscope-ner-server`) | the model, one per process | /health, /analyze (windows over long texts) | ner client |

How they interact: `run()` calls everything in sequence. Concurrency exists inside
`Scanner.Scan` only: a feeder, `--concurrency` workers, and the callback
`onResult`, which runs under the pool's mutex and writes the ledger. Ctrl-C
cancels one context that all calls share, at any moment. The session directory
carries state from a process to the next one, whatever made the first one stop.
The owner of a bucket may change its settings while it is audited.

What makes each component correct, and what is hard about it:

* **session** - resume is exact: nothing recorded is scanned again, nothing not
  recorded is skipped, targets never mix, the counters agree with the ledger. A
  process may die between two file operations or inside a write, over any
  number of runs, and `--fresh` renames three files one by one.
* **scanner** - every object gets one result or, after a cancellation, none; no
  result arrives after `Scan` returned; `Scan` always returns; the callback needs no
  lock of its own. All interleavings of feeder, workers and cancellation.
* **runs** - no download before every gate was passed; `--estimate-only` is free;
  `complete` in the summary means what it says; every run ends.
* **audit and discovery** - a bucket with a gap is flagged and selected, whichever calls
  were refused; nothing is held against a bucket that was not seen.
* **engine, extract, ner client** - a broken pattern file, rule or part of a document costs
  itself only; no valid match is lost behind another; lines and byte offsets are those
  of the text that is searched; the merge drops exactly the NER findings that share a byte
  with a regex finding.
* **provider** - however many goroutines wait and however their requests bunch up, the requests of any
  stretch of time are bounded, and nobody waits for ever.

PROJECT.json lists the hazards one by one at their lines.

## 2. The modules

| Module | Models | Used by |
|---|---|---|
| `SessionLedger`, `ResumeContract` | the session directory; what it promises | GrepRun |
| `LedgerSync` | what of the ledger survives a power failure | |
| `ScanPool`, `ScanContract` | Scanner.Scan and its goroutines; what it promises | ScanContract's promise: GrepRun, DarkRun |
| `ObjectScan`, `OfficeText` | scanOne for one object; the text of office documents | |
| `EngineScan`, `LineLookup` | Load and Scan; the line of a match | |
| `RateLimiter` | the token bucket in front of S3 | |
| `GrepRun` | run() of grep-cloud-storage | |
| `DarkRun` | run() of dark-data-storage, with Inventory | |
| `BucketAudit` | DiscoverBuckets, Assess, Select | |
| `NerWindows` | the sidecar's windows over long texts | |

`MC*` modules give the instances their sets, `*Proofs` modules hold the theorems.

### SessionLedger (core)

The directory and the process in front of it. `ledger` is a sequence of lines, each
with its key, the counter it belongs to and, as history, the target that wrote it; a
line that does not parse has the key `None`. `tornTail` says that the last
line has no newline. `manifest` names a target or is absent or `Corrupt`.

| Action | Code |
|---|---|
| `Start` | the caller reaches `session.Open` with a target, `--fresh` or not, and a listing |
| `Archive` | one pass of archiveExisting's loop: results, manifest, summary, in this order; `Rename` replaces a file of that name |
| `Load`, `Refuse` | the manifest is absent, matches (replay rebuilds `done` and the counters) or is refused |
| `WriteManifest` | the manifest is rewritten, `Open` returns, the caller drops what is done |
| `Record`, `RecordFails` | one line is appended, or the write fails (part of it may be in the file; json.Encoder's error is sticky) |
| `WriteSummary`, `Close` | as named |
| `Crash` | the process dies, or an operation of Open or WriteSummary fails; the write under way may be cut short |

`Appended` is where the operating system comes in: a file opened with `O_APPEND`
continues an unfinished last line, and the two halves make one line that does not
parse. `TornWrites` and `ReadFaults` switch those faults on. `fused` is history: this
process wrote onto an unfinished line. `ResumeContract` is the abstract
specification: for every target the number of records of every object. An object is recorded once, for
one target at a time (`Finish`); the records go when a process with `--fresh` starts over and in no other step
(`BeginFresh`, `StartOver`, `EndFresh`), except that the object recorded last may be forgotten if the end of its
line was never written (`atRisk`, `Forget`). `SessionLedger!KeepsContract` is the refinement: `times` is
the count of a key's lines, `fresh` the archive phase, `atRisk` a last line that parses and has no newline. A process that
truncated the ledger when it opens it breaks the contract, and is the mutant of this property.

### LedgerSync

The same ledger under power failures, as the sequence of the writes to it. A `Write` has a text that parses or
not, and a newline or not; `Found` are the writes that a replay finds as records: a write that is a line of its own and parses, where
the last line needs no newline. So a write cut just before its newline is found, counted and synced, and the next write
destroys it. `Record` syncs every `SyncEvery` (64) records, `Close` once more; both ignore the error (`SyncFaults`).
`RecordFails` and `Kill` may leave any part of a line. `Kill` leaves the page cache alone; `PowerFails` takes the unsynced writes
behind some point and may damage those before it. `accepted` and `closed` are history; `claimed` says that the last process has
written its summary.

### ScanPool and ScanContract

`Scanner.Scan` with each goroutine's steps: the unbuffered channel is a rendezvous
(`Handoff`), the select may choose either ready branch (`Handoff`, `StopFeeding`),
scanOne is `Open`, `Read`, `Detect`, the callback reads and writes the caller's
counter in two steps (`Callback`, `Unlock`) so that a missing mutex would
lose an update. `ScanContract` is what the callers rely on; it is all that GrepRun and
DarkRun assume of a scan.

### ObjectScan and OfficeText

scanOne for one object, from its bytes to its findings: `Read` applies the byte cap or the size limit, `Decode` is
extract.Text, `SkipBinary` the check for NUL bytes, `Search` any regex finding, then the NER stage: cap and
`ToValidUTF8` (`Trim`), any answer of the sidecar (`Analyze`) or its failure, spansToFindings and engine.Merge (`Merge`).
A byte is ASCII, blank, a newline, NUL, or the head or the tail of a two-byte rune, which stands for all
longer ones; a byte out of place is invalid UTF-8. `sent` remembers which bytes of the text the sidecar
received. Spans are converted and merged independently of each other, so one is enough. `OfficeText` is ooxmlText: the
parts of an archive in order, each a sequence of the tokens that encoding/xml delivers, up to the first malformed one.

### EngineScan and LineLookup

`LoadRule`, `FileEnds`, `WalkFails` and `LoadEnds` are Load, one rule after the other: files that do not parse and rules
that do not compile are noted and skipped, a file or directory that cannot be read ends the walk (`failed`, behind the last pattern
file too), a walk without a rule is an error (`empty`), filters are applied, the rest sorted by severity (`Sorted` gives the stable order
by counting who stands before whom). `IndexLines`, `Drop`, `Accept`, `SearchLine`, `Report` and
`NextPattern` are Scan: the next match of a rule begins where the last one ended, whether its checksum held or not. Where a
rule matches and whether the checksum holds is an input (`hits`), since regular expressions and checksum functions
are external. LineLookup has lineIndex and lineOf, one pass of a loop per action; EngineScan takes its steps.

### RateLimiter

The token bucket of golang.org/x/time/rate as provider/s3.go uses it: `Reserve` takes the token at once, on credit if there is
none, `Request` follows when the credit is paid, `GiveUp` when the context is cancelled. Time passes in ticks, `Price` of them
bring a token. `NewScanner` replaces the limiter, as dark-data-storage does for every inventory and scan. An observer counts
the requests of one window that begins at any moment (`Observe`).

### GrepRun

`run()` of grep-cloud-storage, command after command on one directory. It takes the
steps of SessionLedger one by one (`S == INSTANCE SessionLedger`; the variables are
shared), and those of a scan by ScanContract's promise: results in any order,
`canceled` only after Ctrl-C, return when drained or cancelled. `Ownership` holds the
verdict of CheckBucketOwnership; `foreign` is S3's truth. `Exceeds` is the object threshold of the
cost gate; bytes and dollars may exceed theirs at any number of objects. `consent` is true once
the user or `--yes` agreed. `--fresh`, `--yes` and the bucket's owner are chosen at the step that
looks at them first. `Interrupt` and `Die` may come at every stage; `Idle` is the end
of a process.

### DarkRun

`run()` of dark-data-storage on several buckets with equal object names. The session
is that of ResumeContract: the keys on record (`recorded`), whether the last line is unfinished (`torn`), and the record on that
line (`atRisk`). `Accept` is Record behind such a line too, where both records are lost (`merged`); `CutShort` a write that fails or is
killed. `LedgerKey` is the pair of bucket and name that the code joins with a slash (bucket names contain none, so the joined
string determines the pair). `StartInventory`, `Page`, `Inventory` and `InventoryFails` are Scanner.Inventory over
S3Store.List: pages in the order of the keys, cut anywhere, the size filter, the sample that ends
the listing in the middle of a page, and a failure that drops what was listed. `contents` is S3's truth and
stays as it is. `NextBucket`, `OnResult`, `BucketDone`, `LoopEnds` are the loop of scans.

### BucketAudit

DiscoverBuckets, Assess and Select. Every audit call is an action that is answered or fails;
after Ctrl-C it fails. `config` is S3's truth and `Reconfigure` changes one setting
between two calls, up to `MaxChanges` times for each bucket. History: the gaps that
stood all through a bucket's audit (`always`) and at some moment (`ever`). `Score`,
`Tier`, `Flagged`, `Chosen` are Assess and Select.

### NerWindows

_windows and analyze of the sidecar: one pass of the loop per `Window`, one window per `AnalyzeWindow`. The engine is
external: `Attended` truncates a window to the model's length, `Redact` finds the entity where it sees
all of it and may report the part it sees elsewhere. It is assumed to split a window into the same tokens as
the text, which the code relies on too.

## 3. What the runs show

| Run | Question and answer |
|---|---|
| `session_ledger` | Three processes on one directory, two targets, two objects, torn writes, write errors, `--fresh`, a crash at each step. No object gets two records (`OneRecordPerObject`) or is scanned again when it has one (`NoRescan`); a ledger holds one target (`SingleTarget`, which also says that it never stands without a manifest, in whatever order a crash leaves the archive); counters and `done` agree through replays (`AggregateMatchesLedger`); a loss is confined to an unfinished line and the line written onto it (`LossIsConfined`, `LossBounded`); the directory implements ResumeContract, so nothing but `--fresh` empties it (`KeepsContract`). |
| `ledger_sync` | Any number of processes, kills, failed and cut writes and power failures over one ledger: a power failure costs a process at most one batch of the records it accepted (`LossPerRun`); what was in the ledger when it was closed stays, but for one record on a last line without newline (`ClosedSurvives`). |
| `scan_pool` | Three objects, two workers, cancellation at any step, NER on: `Accounted`, `CounterExact`, `NilMeansDrained`, no deadlock, and the refinement `KeepsContract` with termination. |
| `grep_run` | Two runs, two objects, torn writes: downloads only after all gates (`ScanIsAuthorized`, `LargeScanIsAgreed`), `--estimate-only` never changes the directory (`EstimateIsFree`), a complete summary is backed by the ledger (`CompleteIsOnRecord`), every run ends, after Ctrl-C at any stage too (`Ends`). |
| `dark_run` | Two runs, two buckets with every choice of three names, a sample of two, one object too large: a complete summary covers the sample of each bucket that could be listed, but for objects whose write failed and at most two that went on an unfinished line the run found (`CompleteCoversSample`), resumed runs never go beyond it (`SampleIsStable`), `NoRescan` across buckets, `Ends`. |
| `bucket_audit` | One bucket in every configuration, every subset of refused calls, Ctrl-C, two changes: `DarkIsFlagged`, `NoBlindPenalty`, `UnknownIsFlagged`, `ExposedIsSelected`. |
| `engine_scan` | Every order of four pattern files, sound and broken, under several filters; every set of hits of a rule in short objects; every hit in longer ones: nothing that is asked for is lost to a broken neighbour (`LoadIsComplete`), what matches and validates is reported (`ValidIsReported`) and nothing else (`FindingsSound`), `LinesAreExact`, the call returns (`Terminates`). |
| `object_scan` | Plain objects in every content, valid UTF-8 or not, and documents of up to two parts, some damaged, under caps and limits around their sizes: documents are searched as text whatever the byte cap (`DocumentIsRead`), the words of two runs stay apart and none is lost (`RunsStayApart`); NER offsets, lines and the merge are exact for valid text or text below the cap (`OffsetsExact`, `MergeIsExact`). |
| `ner_windows` | Every text of up to six tokens with and without blanks, three model lengths, four overlaps (also longer than a window): `EntityIsFound`, `OffsetsAbsolute`, `WindowsAdvance` (the loop ends). |
| `rate_limiter` | Two goroutines, three limiters in a row, a window that begins anywhere: `CallsBounded` (a burst for each limiter, the rate, one late request of each goroutine), `WaitBounded`. |
| `session_torn_tail`, `grep_interrupted` | Statements that the code does not keep, section 5. |

Each property is also checked against a mutant: an operator next to the definition it
replaces, named in a comment "Mutant", which breaks it as a likely mistake would. Type invariants are
part of the proofs below. The runs list neither them nor
the inductive invariants; those that TLC can evaluate hold in the configurations above (LossInv, CreditInv and the
invariants of EngineScan quantify over unbounded sets, which a check has to bound).

## 4. What is proved

The theorems hold for all values of the constants; the assumptions are those of the
component modules (keys and names finite, marks distinct from real values, workers
finite, the inputs of EngineScan, ObjectScan and NerWindows well-formed) and those named here. Every safety property
of section 3 is stated by one of them. The induction theorems of the library take an operator as parameter, which the
provers cannot instantiate; where a lemma needs an induction over numbers it looks at the least counterexample instead.

* **SessionLedgerProofs.** `TypeCorrect`. `LossConfined`: a step outside the archive leaves
  the ledger alone, appends a line or merges one into an unfinished last line
  (`LedgerStep`); a record disappears in the last case only. `LedgerGuarded`, `ResumeExact` and
  `NothingRescanned` (the last two assume `~ReadFaults`): the invariant is `IInv` = TypeOK, `PhaseInv`, ManifestGuardsLedger,
  SingleTarget and, without read faults, OneRecordPerObject and NoRescan. It is needed because
  none of these is inductive alone: that a record is unique rests on NoRescan at the moment it is
  written, which rests on `done` holding every key of the ledger when Open
  returns, which rests on the manifest having been there to trigger the replay, which rests on
  the order of the archive; `PhaseInv` carries what each phase of Open knows.
  `LossIsBounded`: `LossInv` says that nothing accepted is missing before a line was fused, and at most two
  keys afterwards, since no other line is unfinished while the encoder works. `CountersAgree` (`~ReadFaults`): `AggInv` adds that the
  counters sum to the number of done objects, each kind being the number of its lines until a write fails or is fused; the
  replay re-establishes it because the lines' keys are distinct. `DirectoryKeepsContract` (`~ReadFaults`): every step is a step of
  ResumeContract or a stutter, by the same case split on how the ledger grows; `DirSteps`: outside the archive phase
  no step empties the ledger; `TornWriteKeepsContract`: a write onto an unfinished line destroys only what the contract has at risk; `TornInv`:
  there are unfinished lines only where writes tear.
* **LedgerSyncProofs** (`~SyncFaults`). A write is `Kept` when it is synced, whole and a line of its own; nothing can take it any more, since
  no step touches the synced part of the file (`SyncedStays`). `BatchInv`: every record that the last process accepted is kept, or among the fewer than `SyncEvery` that
  `writes` counts since the last sync, or is its first one, which may have gone onto an unfinished line. `ClosedInv`: what was closed is synced,
  and only the last of it may lack its newline. From them `PowerLossBounded` and `ClosedIsSafe`.
* **ScannerProofs**, the pool. `IInv` = TypeOK, `JobInv` (an object below `next` is with one worker or has its
  result), `MutexInv` (who is in the callback holds the mutex and has read the
  current counter), `FeederInv` and CounterExact. From it `PoolAccounts`, `CounterKept`, `NilIsDrained` and
  `PoolKeepsContract`, the safety part of the refinement of ScanContract for any number of
  objects and workers.
* **ScannerProofs**, the limiter. `DueInv`: the requests that can still come within t ticks are paid for by then. `CreditInv`: tokens
  are owed only while somebody waits for each of them. `BudgetInv`: what was requested, what is reserved and what is left in the bucket
  stay within what was granted. From them (`LimiterInv`) `RequestsBounded` and `WaitsBounded`, for
  any number of goroutines, limiters, burst and rate.
* **EngineScanProofs**, the lookup. `TableInv`: `starts` is increasing, begins with 0 and lists what follows each
  newline so far, so the entries up to a bound are one more than the newlines
  before it. `SearchInv`: the entry at `lo` is at or before the offset, the one
  past `hi` is behind it. `LineCorrect` follows when they meet.
* **EngineScanProofs**, Load. `ReadingInv`: what is loaded is what was read so far and passes, each rule once, in the order of the files.
  `LoadedInv`: after the sort it is all there is to load, by severity and otherwise as read; the sort loses no rule because the number
  of those before a rule tells rules apart. From it `EveryRuleIsLoaded` and, with the types of the rules, `TypeCorrect`.
* **EngineScanProofs**, Scan. `HitInv`: the hit whose line is looked up is the one that was accepted last, so `FindingLines` follows from the
  lookup's invariant. `FoundInv`: a finding is a hit of a rule that had its turn, and ends before the search goes on; `OrderInv`: the
  findings of a rule lie one behind the other. They give `FindingsAreMatches`. `PassedInv`: a valid hit that begins in none of its rule and
  that the search has passed is reported. It gives `NoMatchIsLost`, and is needed because a hit is passed over in `Drop` too, where nothing is reported.
* **ObjectProofs**, scanOne. `ObjectInv` = TypeOK, `SentInv` (what the sidecar receives of a clean text is a prefix of it), `RegexInv`,
  `ResultInv` (the result is the regex findings and those of the answer that overlap none), `DocInv` (a document within the limit is read whole;
  the searched data is the text of its parts). `DocumentsAreRead` follows. `NerOffsets` and `NothingIsMergedAway` rest on a count: the offset
  of rune k is the place before which k runes begin, so the bytes between two offsets are those of the runes between them, in the text and in its capped prefix alike
  (`CappedIsPrefix`). `RunsKeptApart` rests on lemmas about the text of a document: joining sequences keeps every element in its order, and
  the words of two texts are those of their concatenation if the first ends in white space, which the text of every run does.
* **ObjectProofs**, the sidecar's windows. `WindowsInv`: a window begins with a token and holds no more tokens than the model takes, so nothing of it is truncated
  (`NothingTruncated`). `EntityInv`: an entity that the overlap can hold is ahead of the loop, whole in a window, or found: the stride leaves it
  ahead of the next window unless it ends in this one. `LoopAdvances`, `EntitiesAreFound`, `SpansAreInPlace`, for texts and overlaps of any length.
* **BucketAuditProofs.** `TypeCorrect`, then for any buckets and number of changes `GapsAreFlagged`, `NothingIsHeldBlind`,
  `UnknownsAreFlagged`, `ExposedAreSelected`. The invariant follows the audit call by call: what a call has read so far agrees with the
  settings, or the bucket was reconfigured since (`GapInv`, `ExposureInv`), and what it left in `facts` keeps that (`FactsOK`, `Seen`).
* **GrepRunProofs.** For any objects, targets and number of runs: `ScansAreAuthorized`, `LargeScansAreAgreed`, `EstimatesAreFree`, and `CompleteIsBacked`.
  `IInv` ties the stage of run() to the phase of the session (`PhaseInv`), the options and the verdict to the stage (`GateInv`), what is on record to `done`
  (`DoneInv`) and `done` to the listing (`ListedInv`). `CompleteIsBacked` needs no assumption on read faults: an object that a short replay misses is
  scanned again, not lost.

* **DarkRunProofs.** For any buckets, names, sample size and number of runs `TypeCorrect`, `SampleNeverGrows`, `NothingTwice` and `CompleteIsCovered`.
  `ListInv`: what was taken of a bucket is the sample of what it was listed up to; a page keeps that because the first `Sample` of a set
  are final once they are complete, and their number only grows before. `WorkInv`: what is left to scan is of the sample and
  has no record, which is NoRescan one step ahead. `CoverInv`: an object of a listed bucket's sample has a record, is still to be scanned, or its
  record was refused or lost on an unfinished line; `RiskInv` and `MergedInv`: one record at most is at risk, and only
  the first write of a run can meet an unfinished line, which costs two records; `EndInv`: a run that was not cancelled ends its loop with nothing to scan; together they make a complete summary true. `RecordInv`:
  what is on record is of the sample, whose first run fixed it.

Checked by TLC only: liveness (`Ends` of GrepRun and DarkRun, `Terminates` of EngineScan, and the termination in ScanContract
that the run `scan_pool` includes), which is out of the prover's reach.

## 5. Statements the code does not keep

Each is a property under the heading "Statements ... that the code does not keep" of its
module. Those with a run have a counterexample there:

* `AcceptedSurvives` (`session_torn_tail`). session.go:213 says a record is flushed "so it
  survives an interrupt". After a crash in the middle of a line the next process appends right
  behind it; a record that `Record` accepted becomes part of a line that replay skips. The
  object is scanned again by the run after it.
* `CompleteMeansScanned` (`grep_interrupted`). session.go:240 says complete tells "whether the whole scan
  finished". Objects in flight at Ctrl-C fail with context.Canceled and are recorded as errors; the next
  run takes them for done and writes a complete summary.

Those without a run; TLC refutes each when it is added to the configuration named with it:

* `Resumable` (SessionLedger; `session_ledger`): grep-cloud-storage/README.md:34 promises that re-running the same
  command resumes after a crash. Each Open truncates and rewrites manifest.json; a crash there leaves
  a file that Open refuses until somebody removes it.
* `ArchivesKept` (SessionLedger; `session_ledger`): archive names have a resolution of one second and
  `Rename` replaces; session.go:290 says `--fresh` does not destroy earlier results.
* `NoRescan` with `ReadFaults = TRUE` (SessionLedger; `session_ledger`): replay takes an I/O error for the end of the file
  (session.go:192) and recorded objects are scanned and recorded again.
* `LossBounded` (LedgerSync; `ledger_sync`): grep-cloud-storage/README.md:36 says that nothing written is lost. The count of writes starts
  anew with each process; unsynced records of killed ones pile up, and a power failure takes them all.
* `ClosedIsKept` (LedgerSync; `ledger_sync`): the same sentence. A write that failed just before its newline is counted by the replay and
  synced by Close; the first record of the next process continues that line, and both are lost without any power failure.
* `SummaryIsBacked` (LedgerSync; `ledger_sync`): the summary is written before the ledger is synced, and a power failure in
  between leaves a summary of records that are gone (report.go:18).
* `LossPerRun` and `ClosedSurvives` with `SyncFaults = TRUE` (LedgerSync; `ledger_sync`): the error of a sync is dropped.
* `CompleteMeansRecorded` (GrepRun; `grep_run`): a failed ledger write is only a warning and the summary is
  complete all the same; report.go:18 says every processed object has a record.
* `CompleteMeansListed` (DarkRun; `dark_run`): session.go:240 again. A bucket whose inventory fails is left out with a warning and
  the summary is complete all the same; after Ctrl-C during the inventory too, when no listed bucket has anything left.
* `PublicIsReachable` (BucketAudit; `bucket_audit`): dark-data-storage/README.md:75 says public "unless a Public Access Block
  neutralizes it". Only a block with both settings counts; a bucket exposed by its policy alone, with
  RestrictPublicBuckets set, is scored as public (likewise ACL and IgnorePublicAcls).
* `EveryValidMatchReported` (EngineScan; `engine_scan`): engine.go:150 says Scan finds all matches. A match that begins inside one whose
  checksum failed is never looked at.
* `VerifiedOutranksNer` (EngineScan; `engine_scan`): ner.go:19 puts an NER finding's confidence of 75 below a checksum-verified hit; one of
  medium severity has 75 and one of low severity 65.
* `SharedBurst` (RateLimiter; `rate_limiter`): s3.go:14 speaks of a shared bucket; every scanner of dark-data-storage has one of its own with a full
  burst. Its audit calls and the SDK's retries pass no limiter at all, though dark-data-storage/README.md:37 says every S3 call does.
* `TrimKeepsOffsets` (ObjectScan; `object_scan`): `ToValidUTF8` drops every invalid byte of a capped text, not only the
  split rune that scanner.go:191 speaks of, and shifts the offsets behind it.
* `Deduplicated` (NerWindows; `ner_windows`): server README.md:11 says the sidecar de-duplicates across the overlaps; it drops
  equal spans only, so a part of an entity that one window cuts stays next to the whole one of the next window.

Behaviour worth knowing that contradicts no statement: a word that an office document splits into two runs comes out with a
space in it (extract.go:142) and may escape a pattern; an object whose NER stage failed is recorded like any other and not repeated;
an object that Ctrl-C cuts short is recorded as an error and taken for done by dark-data-storage too; a run that is declined or killed leaves the summary of an earlier one in place; a resume under other scan options skips what was
scanned under the old ones.

## 6. Bounds and fairness

| Bound | Value | Why it is enough |
|---|---|---|
| SessionLedger `MaxRuns` | 3 | one run that leaves a damaged file, one that writes onto it, one that reads the result |
| SessionLedger keys, targets, stamps | 2, 2, 1 | a lost and a later record; a mismatch; an archive that is overwritten |
| LedgerSync `SyncEvery`, `MaxWrites` | 2, 6 | three full batches, or unfinished lines before, between and behind batches, over any number of processes; the theorems cover all values |
| ScanPool `N`, `Workers` | 3, 2 | more objects than workers, so a worker takes a second job while the other is in each state; the theorems cover all sizes |
| GrepRun `MaxRuns`, keys, `WarnObjects` | 2, 2, 2 (0 for `grep_interrupted`) | a run and its resume; the first run is at the threshold, a resumed one below it |
| DarkRun `MaxRuns`, buckets, names, `Sample` | 2, 2, 3, 2 | a run and its resume; the same names in both buckets; a sample that ends on the first, on a later page or in the middle of one, or is never complete |
| BucketAudit buckets, `MaxChanges` | 1, 2 | buckets are audited independently; two changes are what it takes to move an exposure past the audit |
| EngineScan `MaxFiles`, `MaxHits`, `MaxLine` | 3, 3, 6 | a broken file before, between and behind sound ones; hits that nest, overlap and touch; up to seven lines, three halvings |
| ObjectScan `MaxLen`, `MaxTokens`, `PeekBytes` | 4, 2, 2 | a cap inside and at the edge of a rune with invalid bytes before and behind it; two runs with and without an end of paragraph, a malformed token before and behind one; a NUL inside and behind the peek. Caps and limits lie below, at and above the sizes |
| NerWindows `MaxTokens`, `MaxLengths`, `OverlapSizes` | 6, 3 to 5, {0, 1, 2, 4} | windows of one to three tokens: up to six windows, overlaps below, at and above a window's length |
| RateLimiter `Callers`, `BurstFlag`, `Price`, `Scanners`, `Horizon` | 2, 2, 2, 3, 5 | credit for both goroutines at once, a window over two changes of limiter, more ticks than a token takes |

Deadlock is checked for ScanPool, where a hang is what could go wrong. Elsewhere a run may really
stop: no more commands are typed, the audit is over, a function has returned.

Fairness. ScanPool: weak fairness of the feeder and of every worker, which is the Go scheduler and the
assumption that S3 and NER calls return (the SDK retries a bounded number of times, the NER client has a timeout);
cancellation is never forced. GrepRun and DarkRun: weak fairness of the program's own steps, not of commands, Ctrl-C or kills; it
includes that the user answers the prompt, since Ctrl-C does not wake the read from stdin (main.go:257). EngineScan: a function that runs
goes on. The other modules have safety only.

Power failures are in LedgerSync; in the other modules the storage keeps every write that returned. One process at a time uses
a directory; the code has no lock.

## 7. What is left out

* report: findings by severity and category, the files' layout. Counters of objects are in SessionLedger.
* engine: regular expressions and checksum functions are inputs; masking and the list of unresolved verifiers change no state.
* extract: the decoders of ZIP, XML and PDF, third-party or of the standard library, are inputs.
* cost: floating-point prices; bytes and dollars are a choice of the gate, in DarkRun the objects too.
* sidecar: loading of models, HTTP, threads. In ObjectScan its answer is any span. ner client: HTTP, the table of severities.
* discovery.json, flags, names of directories, the order of the discovery report, rendering; tests and MemStore.

## 8. Plan

Done, in this order: SessionLedger with ResumeContract; ScanContract and ScanPool; GrepRun; DarkRun; BucketAudit; LineLookup and EngineScan;
OfficeText and ObjectScan; NerWindows; LedgerSync; RateLimiter; the proofs of section 4.

Next:

1. `SharedSession`: two processes on one directory.
2. Composition: GrepRun with ScanPool in place of its contract on a small instance, and the proof that the composition keeps the
   properties of GrepRun; discovery.json across runs in DarkRun; contents of a bucket that change between two runs.
