------------------------------- MODULE GrepRun -------------------------------
(***************************************************************************)
(* run() of grep-cloud-storage/main.go, run after run on one session       *)
(* directory: preflight, ownership check, listing, session, cost gate,     *)
(* scan and summary.  It composes SessionLedger, whose steps it takes one  *)
(* by one, with the contract of Scanner.Scan (ScanContract, kept by        *)
(* ScanPool).  Ctrl-C cancels the context; a kill may come at every step.  *)
(***************************************************************************)
EXTENDS Naturals, Sequences, FiniteSets

CONSTANTS
    Keys, Metas, Stamps, None, Corrupt, TornWrites, ReadFaults, MaxRuns,  \* SessionLedger
    WarnObjects   \* --warn-objects; 0 means off

ASSUME KeysAssumption == IsFiniteSet(Keys) /\ None \notin Keys
ASSUME WarnAssumption == WarnObjects \in Nat

VARIABLES
    ledger, haveLedger, tornTail, manifest, summary, archive,   \* the directory
    phase, step, meta, pending, resumed, done, rep, encErr,     \* session.Session
    fused, runs,
    stage,      \* how far run() is; idle between two runs
    opts,       \* the command line; --fresh and --yes are chosen where they matter
    callerID,   \* WhoAmI found the caller's canonical ID
    own,        \* what CheckBucketOwnership found
    foreign,    \* S3: the bucket belongs to another account
    cancelled,  \* signal.NotifyContext's context is done
    consent,    \* the user or --yes agreed to a large scan
    listed,     \* the inventory
    cut         \* history: objects whose record is an error of the cancelled context

session == <<ledger, haveLedger, tornTail, manifest, summary, archive, phase, step,
             meta, pending, resumed, done, rep, encErr, fused, runs>>
vars == <<session, stage, opts, callerID, own, foreign, cancelled, consent, listed, cut>>
account == <<callerID, own, foreign>>

S == INSTANCE SessionLedger
\* What Scan delivers for an object (ScanContract!Outcomes).
Results == {"scanned", "regexOnly", "skipped", "error", "canceled"}

Options   == [requireSame : BOOLEAN, estimateOnly : BOOLEAN]
NoOptions == [requireSame |-> FALSE, estimateOnly |-> FALSE]

Init ==
    /\ S!Init
    /\ stage = "idle" /\ opts = NoOptions
    /\ callerID = FALSE /\ own = "unknown" /\ foreign = FALSE
    /\ cancelled = FALSE /\ consent = FALSE /\ listed = {} /\ cut = {}

\* run() returns or the process dies: the next command starts from the files.
Idle ==
    /\ stage' = "idle" /\ opts' = NoOptions
    /\ callerID' = FALSE /\ own' = "unknown" /\ foreign' = FALSE
    /\ cancelled' = FALSE /\ consent' = FALSE /\ listed' = {}

\* A command is typed.
Launch ==
    /\ stage = "idle"
    /\ stage' = "preflight" /\ opts' \in Options
    /\ UNCHANGED <<session, account, cancelled, consent, listed, cut>>

\* ListBuckets, which tells the caller's canonical ID, may fail silently.
WhoAmI == ~cancelled /\ callerID' \in BOOLEAN

\* Patterns, the NER health check, AWS configuration, GetCallerIdentity: each
\* may fail, the remote ones certainly on a cancelled context.
Preflight ==
    /\ stage = "preflight"
    /\ \/ WhoAmI /\ stage' = "ownership"
          /\ UNCHANGED <<opts, own, foreign, cancelled, consent, listed>>
       \/ Idle
    /\ UNCHANGED <<session, cut>>

\* Mutant: missing IDs are compared like any others.
VerdictUnchecked(owner) ==
    CASE owner = "refused" -> "unknown"
      [] (callerID /\ owner = "self") \/ (~callerID /\ owner = "missing") -> "same"
      [] OTHER -> "cross"

\* CheckBucketOwnership never fails: a refused call or a missing ID on either
\* side makes it indeterminate.
Verdict(owner) ==
    IF ~callerID \/ owner \in {"refused", "missing"} THEN "unknown"
    ELSE IF owner = "self" THEN "same" ELSE "cross"

\* The ACL of the bucket, the caller's or another account's, is read for its owner;
\* the gate of --require-same-account.
Ownership ==
    /\ stage = "ownership"
    /\ \E f \in BOOLEAN : \E owner \in {"refused", "missing", IF f THEN "other" ELSE "self"} :
         /\ cancelled => owner = "refused"
         /\ IF Verdict(owner) # "same" /\ opts.requireSame
            THEN Idle
            ELSE /\ own' = Verdict(owner) /\ foreign' = f /\ stage' = "list"
                 /\ callerID' = FALSE
                 /\ UNCHANGED <<opts, cancelled, consent, listed>>
    /\ UNCHANGED <<session, cut>>

\* Inventory fails, finds nothing or is all that was asked for: run() returns.
ListOnly ==
    /\ stage = "list" /\ Idle
    /\ UNCHANGED <<session, cut>>

\* Mutant: the estimate is printed after the session is opened.
ListAndOpen(m, fresh, L) ==
    /\ stage = "list" /\ ~cancelled /\ L # {}
    /\ S!Start(m, fresh, L)
    /\ listed' = L /\ stage' = "session"
    /\ UNCHANGED <<opts, account, cancelled, consent, cut>>

\* The inventory is done and session.Open is called.
List(m, fresh, L) ==
    /\ stage = "list" /\ ~cancelled /\ ~opts.estimateOnly /\ L # {}
    /\ S!Start(m, fresh, L)
    /\ listed' = L /\ stage' = "session"
    /\ UNCHANGED <<opts, account, cancelled, consent, cut>>

\* session.Open, file by file; --fresh takes the history aside.
OpenSession ==
    /\ stage = "session"
    /\ \/ /\ S!Archive
          /\ cut' = IF ledger' = <<>> THEN {} ELSE cut
          /\ UNCHANGED stage
       \/ S!Load /\ UNCHANGED <<stage, cut>>
       \/ S!WriteManifest /\ stage' = "gate" /\ UNCHANGED cut
    /\ UNCHANGED <<opts, account, cancelled, consent, listed>>

OpenRefused == stage = "session" /\ S!Refuse /\ Idle /\ UNCHANGED cut

\* Nothing remains: a complete summary, without a scan.
NothingToDo ==
    /\ stage = "gate" /\ pending = {}
    /\ S!WriteSummary(TRUE)
    /\ stage' = "close"
    /\ UNCHANGED <<opts, account, cancelled, consent, listed, cut>>

\* Mutant: the threshold itself is let through.
ExceedsAbove(n) == WarnObjects > 0 /\ n > WarnObjects

\* ComputeAWS and ExceedsAny for n objects to download.  Gigabytes and dollars
\* follow from sizes, which are left out: they may exceed their thresholds or not.
Exceeds(n) == WarnObjects > 0 /\ n >= WarnObjects

\* The estimate for what remains is below every threshold, or --yes is set or the
\* user agrees.  A cancelled context stops nothing here.
Agree ==
    /\ stage = "gate" /\ pending # {}
    /\ \/ ~Exceeds(Cardinality(pending)) /\ UNCHANGED consent
       \/ consent' = TRUE
    /\ stage' = "scan"
    /\ UNCHANGED <<session, opts, account, cancelled, listed, cut>>

\* There is a warning without --yes, and the user says no or stdin fails.
Decline ==
    /\ stage = "gate" /\ pending # {}
    /\ S!Close /\ Idle /\ UNCHANGED cut

\* The Record that onResult makes of a result: an error of the cancelled context
\* is an error, NER failures leave no trace in it.
RecordOf(r) ==
    CASE r = "canceled"  -> "error"
      [] r = "regexOnly" -> "scanned"
      [] OTHER           -> r

\* Scan calls onResult with a result of one object; its record is written, or
\* the write fails and only a warning is printed.
OnResult(k, r) ==
    /\ stage = "scan" /\ k \in pending
    /\ r = "canceled" => cancelled
    /\ \/ /\ S!Record(k, RecordOf(r))
          /\ cut' = IF r = "canceled" THEN cut \cup {k} ELSE cut
       \/ S!RecordFails(k, RecordOf(r)) /\ UNCHANGED cut
    /\ UNCHANGED <<stage, opts, account, cancelled, consent, listed>>

\* Mutant: run() waits for every result although the pool was cancelled.
ScanReturnsWhenDrained ==
    /\ stage = "scan" /\ ~cancelled /\ pending = {}
    /\ stage' = "finalize"
    /\ UNCHANGED <<session, opts, account, cancelled, consent, listed, cut>>

\* Scan returns, when everything is delivered or the context is cancelled.
ScanReturns ==
    /\ stage = "scan" /\ (cancelled \/ pending = {})
    /\ stage' = "finalize"
    /\ UNCHANGED <<session, opts, account, cancelled, consent, listed, cut>>

\* Mutant: Scan's return is taken for the end of the work.
CompleteAlways == TRUE

\* complete := ctx.Err() == nil.
Complete == ~cancelled

Finalize ==
    /\ stage = "finalize"
    /\ S!WriteSummary(Complete)
    /\ stage' = "close"
    /\ UNCHANGED <<opts, account, cancelled, consent, listed, cut>>

\* The deferred Close, and the end of run().
Return ==
    /\ stage = "close"
    /\ S!Close /\ Idle /\ UNCHANGED cut

\* Ctrl-C or SIGTERM.
Interrupt ==
    /\ stage # "idle" /\ ~cancelled
    /\ cancelled' = TRUE
    /\ UNCHANGED <<session, stage, opts, account, consent, listed, cut>>

\* The process is killed, or a file operation of the session fails.
Die ==
    /\ stage # "idle" /\ Idle
    /\ IF phase = "down" THEN UNCHANGED session ELSE S!Crash
    /\ UNCHANGED cut

Run ==
    \/ Preflight \/ Ownership \/ ListOnly
    \/ \E m \in Metas, fresh \in BOOLEAN, L \in SUBSET Keys : List(m, fresh, L)
    \/ OpenSession \/ OpenRefused \/ NothingToDo \/ Agree \/ Decline
    \/ \E k \in Keys, r \in Results : OnResult(k, r)
    \/ ScanReturns \/ Finalize \/ Return

Next == Run \/ Launch \/ Interrupt \/ Die

\* The program runs on; the user answers the prompt and remote calls return.
\* Nobody has to type a command, interrupt or kill it.
Spec == Init /\ [][Next]_vars /\ WF_vars(Run)

-----------------------------------------------------------------------------
(* Properties.                                                              *)

TypeOK ==
    /\ S!TypeOK
    /\ stage \in {"idle", "preflight", "ownership", "list", "session", "gate", "scan",
                  "finalize", "close"}
    /\ opts \in Options /\ callerID \in BOOLEAN /\ foreign \in BOOLEAN
    /\ own \in {"same", "cross", "unknown"}
    /\ cancelled \in BOOLEAN /\ consent \in BOOLEAN
    /\ listed \in SUBSET Keys /\ cut \in SUBSET Keys

\* Objects are downloaded only after every gate the command line asks for: never
\* under --estimate-only, only from a bucket that is the caller's own under
\* --require-same-account; and the estimate leaves out the cost of the transfer
\* only for a bucket of the caller's account.
ScanIsAuthorized ==
    stage = "scan" => /\ ~opts.estimateOnly
                      /\ opts.requireSame \/ own = "same" => ~foreign

\* As many objects as --warn-objects are downloaded only with consent, however
\* many of those listed the runs before had done (README:92
\* "the cost warning applies to the remaining objects").
LargeScanIsAgreed ==
    stage = "scan" /\ WarnObjects > 0 /\ Cardinality(pending) >= WarnObjects => consent

\* --estimate-only leaves no trace on disk, whatever the directory holds.
EstimateIsFree == [][opts.estimateOnly => UNCHANGED S!disk]_vars

\* When run() ends with a complete summary and no ledger write failed or landed
\* on an unfinished line, every object it listed is in the ledger, whatever
\* happened in the runs before.
CompleteIsOnRecord ==
    stage = "close" /\ summary = "complete" /\ ~encErr /\ ~fused =>
        listed \subseteq S!DurableKeys

\* Every run ends, an interrupted one too: no cancellation leaves it waiting for
\* results that never come.
Ends == stage # "idle" ~> stage = "idle"

-----------------------------------------------------------------------------
(* Statements of the sources that the code does not keep.                   *)

\* session.go:240 "complete indicates whether the whole scan finished": no object
\* that Ctrl-C cut short is missing from a scan that a summary calls complete.
CompleteMeansScanned == stage = "close" /\ summary = "complete" => listed \cap cut = {}

\* report.go:18 "Every processed object produces exactly one Record": a complete
\* summary covers a record of every object the run processed.
CompleteMeansRecorded ==
    stage = "close" /\ summary = "complete" => listed \subseteq S!DurableKeys

=============================================================================
