------------------------------- MODULE DarkRun -------------------------------
(***************************************************************************)
(* run() of dark-data-storage/main.go, run after run on one session        *)
(* directory: discovery, session, inventory of the selected buckets, cost  *)
(* gate, one Scan after the other, summary.  An inventory lists a bucket   *)
(* page by page and stops at --sample objects.  The session is taken in    *)
(* the terms of ResumeContract, which SessionLedger keeps: the objects on  *)
(* record, and the one that an unfinished last line puts at risk; a Scan   *)
(* by its contract, ScanContract.                                          *)
(***************************************************************************)
EXTENDS FiniteSets, Naturals

CONSTANTS
    Buckets,
    Names,      \* object names, numbers in the order S3 lists them in; the same
                \* name may occur in several buckets
    Large,      \* the objects above --max-object-mb
    Sample,     \* --sample: objects taken of a bucket; 0 means all
    NoBucket,   \* no bucket is being listed or scanned
    MaxRuns     \* bound: commands typed

ASSUME BucketAssumption == NoBucket \notin Buckets
ASSUME NameAssumption   == Names \subseteq Nat \ {0} /\ IsFiniteSet(Names)
ASSUME LargeAssumption  == Large \subseteq Buckets \X Names
ASSUME BoundAssumption  == Sample \in Nat /\ MaxRuns \in Nat

VARIABLES
    contents,   \* S3: the objects there are; they neither come nor go
    recorded,   \* the ledger: the keys that a replay finds a record of
    torn,       \* does its last line lack the newline?
    atRisk,     \* the key on that line, if the line is a record
    summary,    \* summary.json
    runs,
    stage,      \* how far run() is; idle between two runs
    resumed,    \* session.Open's result
    cancelled,  \* signal.NotifyContext's context is done
    unlisted,   \* selected buckets still to inventory
    counted,    \* history: selected buckets whose inventory succeeded
    failed,     \* history: those whose inventory failed
    current,    \* the bucket being listed or scanned
    pos,        \* the last key its pages went up to, 0 before the first
    objs,       \* the objects its inventory has taken
    work,       \* what remains to be scanned, bucket by bucket
    unwritten,  \* objects whose ledger write failed; json.Encoder's error is sticky
    merged      \* history: objects this run lost on an unfinished line

ledger == <<recorded, torn, atRisk>>
disk == <<ledger, summary>>
plan == <<resumed, unlisted, counted, failed>>
list == <<pos, objs>>
scan == <<plan, list, current, work, unwritten, merged>>
vars == <<contents, disk, runs, stage, cancelled, scan>>

Objects == Buckets \X Names

\* The key of an object in the shared ledger.
LedgerKey(b, n) == <<b, n>>

NoWork == [b \in Buckets |-> {}]

Init ==
    /\ contents \in SUBSET Objects
    /\ recorded = {} /\ torn = FALSE /\ atRisk = {} /\ summary = "absent" /\ runs = 0
    /\ stage = "idle" /\ resumed = FALSE /\ cancelled = FALSE
    /\ unlisted = {} /\ counted = {} /\ failed = {}
    /\ current = NoBucket /\ pos = 0 /\ objs = {}
    /\ work = NoWork /\ unwritten = {} /\ merged = {}

Idle ==
    /\ stage' = "idle" /\ resumed' = FALSE /\ cancelled' = FALSE
    /\ unlisted' = {} /\ counted' = {} /\ failed' = {}
    /\ current' = NoBucket /\ pos' = 0 /\ objs' = {}
    /\ work' = NoWork /\ unwritten' = {} /\ merged' = {}
    /\ UNCHANGED contents

Launch ==
    /\ stage = "idle" /\ runs < MaxRuns
    /\ stage' = "discover" /\ runs' = runs + 1
    /\ UNCHANGED <<contents, disk, scan, cancelled>>

\* Preflight, caller identity and the audit of every bucket; a bucket whose
\* audit calls fail (all of them, after a cancellation) is flagged like an
\* ungoverned one.  Without a bucket run() returns; so it does on an error.
Discover ==
    /\ stage = "discover"
    /\ \/ Idle
       \/ /\ \E selected \in SUBSET Buckets : unlisted' = selected
          /\ stage' = "session"
          /\ UNCHANGED <<contents, cancelled, resumed, counted, failed, list, current, work,
                         unwritten, merged>>
    /\ UNCHANGED <<disk, runs>>

\* session.Open and discovery.json; under --discover-only, or with no bucket
\* selected, run() returns here.
OpenSession(fresh) ==
    /\ stage = "session"
    /\ IF fresh THEN /\ recorded' = {} /\ torn' = FALSE /\ atRisk' = {}
                     /\ summary' = "absent"
                ELSE UNCHANGED disk
    /\ \/ /\ unlisted # {} /\ stage' = "inventory" /\ resumed' = (recorded' # {})
          /\ UNCHANGED <<contents, cancelled, unlisted, counted, failed, list, current, work,
                         unwritten, merged>>
       \/ Idle
    /\ UNCHANGED runs

\* The first k of a set of names, all of them if there are fewer.
First(ns, k) == {n \in ns : Cardinality({m \in ns : m < n}) < k}

\* newScanner, and Inventory begins to list a bucket.
StartInventory(b) ==
    /\ stage = "inventory" /\ current = NoBucket /\ b \in unlisted
    /\ current' = b /\ unlisted' = unlisted \ {b}
    /\ UNCHANGED <<contents, disk, runs, stage, cancelled, resumed, counted, failed, list,
                   work, unwritten, merged>>

\* Mutant: the sample is counted anew on every page.
TakenOfPage(ns) == IF Sample = 0 THEN ns ELSE First(ns, Sample)

\* What Inventory takes of a page's objects that are not too large: it stops
\* in the middle of the page when the sample is complete.
Taken(ns) == IF Sample = 0 THEN ns ELSE First(ns, Sample - Cardinality(objs))

\* Is the sample incomplete (or unlimited), so that emit does not return ErrStop?
WantsMore == Sample = 0 \/ Cardinality(objs) < Sample

\* One page of ListObjectsV2, up to key q.
Page(q) ==
    /\ stage = "inventory" /\ current # NoBucket /\ ~cancelled /\ WantsMore
    /\ q > pos /\ <<current, q>> \in contents
    /\ pos' = q
    /\ LET page == {n \in Names : pos < n /\ n <= q /\ <<current, n>> \in contents \ Large}
       IN  objs' = objs \cup Taken(page)
    /\ UNCHANGED <<contents, disk, runs, stage, cancelled, plan, current, work, unwritten,
                   merged>>

\* Is there another page to ask for?  The first one always, an empty bucket has it too.
HasMorePages == pos = 0 \/ \E n \in Names : n > pos /\ <<current, n>> \in contents

\* The listing is over: no page is left, the only one was empty, or ErrStop.
Listed ==
    \/ ~(WantsMore /\ HasMorePages)
    \/ ~cancelled /\ ~\E n \in Names : <<current, n>> \in contents

\* Mutants: nothing is left out; an object is taken for done when another bucket
\* has one of its name on record.
RemainingAll(b, ns) == ns
RemainingByName(b, ns) == {n \in ns : ~\E c \in Buckets : LedgerKey(c, n) \in recorded}

\* The objects of a bucket that the ledger does not have yet.
Remaining(b, ns) == {n \in ns : ~(resumed /\ LedgerKey(b, n) \in recorded)}

\* Inventory returns, and run() works out what remains.
Inventory ==
    /\ stage = "inventory" /\ current # NoBucket /\ Listed
    /\ work' = [work EXCEPT ![current] = Remaining(current, objs)]
    /\ counted' = counted \cup {current}
    /\ current' = NoBucket /\ pos' = 0 /\ objs' = {}
    /\ UNCHANGED <<contents, disk, runs, stage, resumed, cancelled, unlisted, failed,
                   unwritten, merged>>

\* Mutant: the inventory is tried again until it succeeds.
InventoryRetried ==
    /\ stage = "inventory" /\ current # NoBucket /\ WantsMore /\ HasMorePages
    /\ unlisted' = unlisted \cup {current}
    /\ current' = NoBucket /\ pos' = 0 /\ objs' = {}
    /\ UNCHANGED <<contents, disk, runs, stage, resumed, cancelled, counted, failed, work,
                   unwritten, merged>>

\* A page cannot be had, certainly not on a cancelled context: what was listed is
\* dropped, and the bucket is left out with a warning.
InventoryFails ==
    /\ stage = "inventory" /\ current # NoBucket /\ WantsMore /\ HasMorePages
    /\ failed' = failed \cup {current}
    /\ current' = NoBucket /\ pos' = 0 /\ objs' = {}
    /\ UNCHANGED <<contents, disk, runs, stage, resumed, cancelled, unlisted, counted, work,
                   unwritten, merged>>

AllListed == stage = "inventory" /\ current = NoBucket /\ unlisted = {}

\* Nothing remains: a complete summary, without a scan.
NothingToDo ==
    /\ AllListed /\ work = NoWork
    /\ summary' = "complete" /\ stage' = "close"
    /\ UNCHANGED <<contents, ledger, runs, scan, cancelled>>

\* The cost gate: below the thresholds, --yes, or the user agrees - or declines.
Gate ==
    /\ AllListed /\ work # NoWork
    /\ \/ stage' = "buckets" /\ UNCHANGED <<contents, scan, cancelled>>
       \/ Idle
    /\ UNCHANGED <<disk, runs>>

\* The loop takes up the next bucket.
NextBucket(b) ==
    /\ stage = "buckets" /\ current = NoBucket /\ work[b] # {} /\ ~cancelled
    /\ current' = b
    /\ UNCHANGED <<contents, disk, runs, stage, cancelled, plan, list, work, unwritten,
                   merged>>

\* Record accepts object o.  Behind an unfinished line its record is lost, with the
\* one that may be on that line.
Accept(o) ==
    /\ unwritten = {}
    /\ torn' = FALSE /\ atRisk' = {}
    /\ recorded' = IF torn THEN recorded \ atRisk ELSE recorded \cup {o}
    /\ merged' = IF torn THEN merged \cup atRisk \cup {o} ELSE merged

\* A write that fails or is killed leaves nothing, a part of the line, or all of it but
\* the newline: a record, unless it is on an unfinished line.
CutShort(o) ==
    \/ UNCHANGED ledger
    \/ /\ unwritten = {} /\ torn' = TRUE
       /\ \/ recorded' = recorded \ atRisk /\ atRisk' = {}
          \/ ~torn /\ recorded' = recorded \cup {o} /\ atRisk' = {o}

\* Scan calls onResult; a failed ledger write is a warning.
OnResult(n) ==
    /\ stage = "buckets" /\ current # NoBucket /\ n \in work[current]
    /\ work' = [work EXCEPT ![current] = @ \ {n}]
    /\ \/ Accept(LedgerKey(current, n)) /\ UNCHANGED unwritten
       \/ /\ CutShort(LedgerKey(current, n))
          /\ unwritten' = unwritten \cup {LedgerKey(current, n)}
          /\ merged' = merged \cup (recorded \ recorded')
    /\ UNCHANGED <<contents, summary, runs, stage, cancelled, plan, list, current>>

\* Scan of this bucket returns.
BucketDone ==
    /\ stage = "buckets" /\ current # NoBucket
    /\ cancelled \/ work[current] = {}
    /\ current' = NoBucket
    /\ UNCHANGED <<contents, disk, runs, stage, cancelled, plan, list, work, unwritten,
                   merged>>

\* The loop ends, at its end or because ctx.Err() is set.
LoopEnds ==
    /\ stage = "buckets" /\ current = NoBucket
    /\ cancelled \/ work = NoWork
    /\ stage' = "finalize"
    /\ UNCHANGED <<contents, disk, runs, scan, cancelled>>

\* complete := ctx.Err() == nil.
Finalize ==
    /\ stage = "finalize"
    /\ summary' = IF cancelled THEN "incomplete" ELSE "complete"
    /\ stage' = "close"
    /\ UNCHANGED <<contents, ledger, runs, scan, cancelled>>

Return == stage = "close" /\ Idle /\ UNCHANGED <<disk, runs>>

Interrupt ==
    /\ stage # "idle" /\ ~cancelled
    /\ cancelled' = TRUE
    /\ UNCHANGED <<contents, disk, runs, stage, scan>>

\* The process is killed, in the middle of a ledger write perhaps, or a file operation
\* of the session fails.
Die ==
    /\ stage # "idle" /\ Idle
    /\ \/ UNCHANGED ledger
       \/ /\ stage = "buckets" /\ current # NoBucket
          /\ \E n \in work[current] : CutShort(LedgerKey(current, n))
    /\ UNCHANGED <<summary, runs>>

Run ==
    \/ Discover
    \/ \E fresh \in BOOLEAN : OpenSession(fresh)
    \/ \E b \in Buckets : StartInventory(b) \/ NextBucket(b)
    \/ \E q \in Names : Page(q)
    \/ Inventory \/ InventoryFails \/ NothingToDo \/ Gate
    \/ \E n \in Names : OnResult(n)
    \/ BucketDone \/ LoopEnds \/ Finalize \/ Return

Next == Run \/ Launch \/ Interrupt \/ Die

\* The program runs on, the user answers the prompt, remote calls return.
Spec == Init /\ [][Next]_vars /\ WF_vars(Run)

-----------------------------------------------------------------------------
(* Properties.                                                              *)

TypeOK ==
    /\ contents \in SUBSET Objects
    /\ recorded \in SUBSET Objects /\ torn \in BOOLEAN /\ atRisk \in SUBSET recorded
    /\ summary \in {"absent", "incomplete", "complete"} /\ runs \in 0..MaxRuns
    /\ stage \in {"idle", "discover", "session", "inventory", "buckets", "finalize",
                  "close"}
    /\ resumed \in BOOLEAN /\ cancelled \in BOOLEAN
    /\ unlisted \in SUBSET Buckets /\ counted \in SUBSET Buckets
    /\ failed \in SUBSET Buckets /\ current \in Buckets \cup {NoBucket}
    /\ pos \in Names \cup {0} /\ objs \in SUBSET Names
    /\ work \in [Buckets -> SUBSET Names] /\ unwritten \in SUBSET Objects
    /\ merged \in SUBSET Objects

\* What a scan of the bucket is to cover: its first Sample objects of admissible
\* size, however S3 cuts the listing into pages.
SampleOf(b) ==
    LET small == {n \in Names : <<b, n>> \in contents \ Large}
    IN  {b} \X (IF Sample = 0 THEN small ELSE First(small, Sample))

\* A complete summary covers the sample of every bucket that could be listed,
\* whatever equal names the buckets share and whatever the runs before recorded.
\* Left out are only the objects whose ledger write failed, and at most two that went
\* on an unfinished line that the run found.
CompleteCoversSample ==
    stage = "close" /\ summary = "complete" =>
        /\ \A b \in counted : SampleOf(b) \ (unwritten \cup merged) \subseteq recorded
        /\ Cardinality(merged) <= 2

\* Interrupted and resumed runs together take no more than --sample objects of a
\* bucket, and always the same (README:35 "capped at --sample objects per bucket").
SampleIsStable == recorded \subseteq UNION {SampleOf(b) : b \in Buckets}

\* No object that has a record is downloaded again, whichever bucket it is in.
NoRescan ==
    stage = "buckets" => \A b \in Buckets : ({b} \X work[b]) \cap recorded = {}

\* Every run ends, an interrupted one too.
Ends == stage # "idle" ~> stage = "idle"

-----------------------------------------------------------------------------
(* Statements of the sources that the code does not keep.                   *)

\* session.go:240 "complete indicates whether the whole scan finished": every
\* bucket selected for scanning was at least listed.
CompleteMeansListed == stage = "close" /\ summary = "complete" => failed = {}

=============================================================================
