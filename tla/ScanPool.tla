------------------------------- MODULE ScanPool -------------------------------
(***************************************************************************)
(* Scanner.Scan of internal/scanner/scanner.go: a feeder hands the objects *)
(* over an unbuffered channel to a pool of workers; each worker runs       *)
(* scanOne on its object and calls onResult under a mutex.  The context    *)
(* may be cancelled (Ctrl-C) between any two steps.                        *)
(***************************************************************************)
EXTENDS Naturals, FiniteSets

CONSTANTS
    N,         \* objects to scan, numbered in the order of the slice
    Workers,   \* cfg.Concurrency goroutines
    NoWorker,  \* the mutex is free
    UseNER     \* is cfg.NER set?

ASSUME SizeAssumption   == N \in Nat
ASSUME WorkerAssumption == IsFiniteSet(Workers) /\ Workers # {} /\ NoWorker \notin Workers
ASSUME NERAssumption    == UseNER \in BOOLEAN

Objects == 1..N

VARIABLES
    feeder,     \* feeding, closed (jobs is closed, in wg.Wait) or returned
    next,       \* the object the feeder offers next
    feedErr,    \* the feeder saw ctx.Done
    pc,         \* where each worker is
    job,        \* its object
    res,        \* what scanOne made of it
    holder,     \* who holds mu
    seen,       \* the value of processed a worker's onResult has read
    processed,  \* the caller's unsynchronized counter
    results,    \* what onResult was given for an object
    cancelled   \* the caller's context is done

worker == <<pc, job, res, holder, seen, processed, results>>
vars   == <<feeder, next, feedErr, pc, job, res, holder, seen, processed,
            results, cancelled>>

Contract == INSTANCE ScanContract WITH returned <- (feeder = "returned")

Outcomes == Contract!Outcomes

Init ==
    /\ feeder = "feeding" /\ next = 1 /\ feedErr = FALSE
    /\ pc = [w \in Workers |-> "idle"] /\ job = [w \in Workers |-> 0]
    /\ res = [w \in Workers |-> "none"]
    /\ holder = NoWorker /\ seen = [w \in Workers |-> 0] /\ processed = 0
    /\ results = [o \in Objects |-> "none"]
    /\ cancelled \in BOOLEAN

Goto(w, label) == pc' = [pc EXCEPT ![w] = label]

\* Mutant: the feeder does not advance (a loop variable taken by mistake).
HandoffAgain(w) ==
    /\ feeder = "feeding" /\ next <= N /\ pc[w] = "idle"
    /\ job' = [job EXCEPT ![w] = next]
    /\ \E n \in {next, next + 1} : next' = n
    /\ Goto(w, "open")
    /\ UNCHANGED <<feeder, feedErr, res, holder, seen, processed, results, cancelled>>

\* The select sends: it may, even when ctx.Done is ready as well.
Handoff(w) ==
    /\ feeder = "feeding" /\ next <= N /\ pc[w] = "idle"
    /\ job' = [job EXCEPT ![w] = next] /\ next' = next + 1
    /\ Goto(w, "open")
    /\ UNCHANGED <<feeder, feedErr, res, holder, seen, processed, results, cancelled>>

\* Mutant: ctx.Err() is not kept.
StopFeedingSilently ==
    /\ feeder = "feeding" /\ next <= N /\ cancelled
    /\ feeder' = "closed"
    /\ UNCHANGED <<next, feedErr, worker, cancelled>>

\* The select takes ctx.Done while an object is left to hand over.
StopFeeding ==
    /\ feeder = "feeding" /\ next <= N /\ cancelled
    /\ feeder' = "closed" /\ feedErr' = TRUE
    /\ UNCHANGED <<next, worker, cancelled>>

\* The slice is exhausted.
CloseJobs ==
    /\ feeder = "feeding" /\ next > N
    /\ feeder' = "closed"
    /\ UNCHANGED <<next, feedErr, worker, cancelled>>

\* Mutant: Scan returns without wg.Wait.
ReturnAtOnce ==
    /\ feeder = "closed"
    /\ feeder' = "returned"
    /\ UNCHANGED <<next, feedErr, worker, cancelled>>

\* wg.Wait ends and Scan returns.
Return ==
    /\ feeder = "closed" /\ \A w \in Workers : pc[w] = "exited"
    /\ feeder' = "returned"
    /\ UNCHANGED <<next, feedErr, worker, cancelled>>

\* The range over the closed channel ends.
Exit(w) ==
    /\ pc[w] = "idle" /\ feeder = "closed"
    /\ Goto(w, "exited")
    /\ UNCHANGED <<feeder, next, feedErr, job, res, holder, seen, processed,
                   results, cancelled>>

\* scanOne has its result and the worker goes on to mu.Lock.
Finish(w, r) ==
    /\ res' = [res EXCEPT ![w] = r] /\ Goto(w, "lock")

\* store.Open: the limiter and the request both fail on a done context.
Open(w) ==
    /\ pc[w] = "open"
    /\ \/ ~cancelled /\ Goto(w, "read") /\ UNCHANGED res
       \/ ~cancelled /\ Finish(w, "error")
       \/ cancelled /\ Finish(w, "canceled")
    /\ UNCHANGED <<feeder, next, feedErr, job, holder, seen, processed, results,
                   cancelled>>

\* The peek and ReadAll: what was received before a cancellation may be the
\* whole body, otherwise the read fails.
Read(w) ==
    /\ pc[w] = "read"
    /\ \/ Goto(w, "detect") /\ UNCHANGED res
       \/ ~cancelled /\ Finish(w, "error")
       \/ cancelled /\ Finish(w, "canceled")
    /\ UNCHANGED <<feeder, next, feedErr, job, holder, seen, processed, results,
                   cancelled>>

\* Binary content is skipped; text goes through the engine and, when set, NER.
\* A NER error, certain on a done context, leaves the regex findings standing.
Detect(w) ==
    /\ pc[w] = "detect"
    /\ \/ Finish(w, "skipped")
       \/ ~(UseNER /\ cancelled) /\ Finish(w, "scanned")
       \/ UseNER /\ Finish(w, "regexOnly")
    /\ UNCHANGED <<feeder, next, feedErr, job, holder, seen, processed, results,
                   cancelled>>

\* Mutant: onResult runs outside the mutex.
LockAlways(w) ==
    /\ pc[w] = "lock"
    /\ holder' = w /\ Goto(w, "callback")
    /\ UNCHANGED <<feeder, next, feedErr, job, res, seen, processed, results,
                   cancelled>>

\* mu.Lock.
Lock(w) ==
    /\ pc[w] = "lock" /\ holder = NoWorker
    /\ holder' = w /\ Goto(w, "callback")
    /\ UNCHANGED <<feeder, next, feedErr, job, res, seen, processed, results,
                   cancelled>>

\* onResult begins: it reads the caller's counter ...
Callback(w) ==
    /\ pc[w] = "callback"
    /\ seen' = [seen EXCEPT ![w] = processed] /\ Goto(w, "update")
    /\ UNCHANGED <<feeder, next, feedErr, job, res, holder, processed, results,
                   cancelled>>

\* ... writes it back incremented, and the worker unlocks.
Unlock(w) ==
    /\ pc[w] = "update"
    /\ processed' = seen[w] + 1
    /\ results' = [results EXCEPT ![job[w]] = res[w]]
    /\ holder' = NoWorker /\ Goto(w, "idle")
    /\ job' = [job EXCEPT ![w] = 0] /\ res' = [res EXCEPT ![w] = "none"]
    /\ seen' = [seen EXCEPT ![w] = 0]
    /\ UNCHANGED <<feeder, next, feedErr, cancelled>>

Cancel ==
    /\ ~cancelled /\ feeder # "returned"
    /\ cancelled' = TRUE
    /\ UNCHANGED <<feeder, next, feedErr, worker>>

Feeder == (\E w \in Workers : Handoff(w)) \/ StopFeeding \/ CloseJobs \/ Return

Worker(w) ==
    Exit(w) \/ Open(w) \/ Read(w) \/ Detect(w) \/ Lock(w) \/ Callback(w) \/ Unlock(w)

\* Scan has returned; nothing happens any more.
Terminated == feeder = "returned" /\ UNCHANGED vars

Next ==
    \/ Feeder
    \/ \E w \in Workers : Worker(w)
    \/ Cancel
    \/ Terminated

\* The Go scheduler runs every goroutine that can run; S3 requests and NER
\* calls return.  Nothing makes the user press Ctrl-C.
Fairness == WF_vars(Feeder) /\ \A w \in Workers : WF_vars(Worker(w))

Spec == Init /\ [][Next]_vars /\ Fairness

-----------------------------------------------------------------------------
(* Properties.                                                              *)

Busy(w) == pc[w] \notin {"idle", "exited"}

TypeOK ==
    /\ feeder \in {"feeding", "closed", "returned"} /\ next \in 1..(N + 1)
    /\ feedErr \in BOOLEAN /\ cancelled \in BOOLEAN
    /\ pc \in [Workers -> {"idle", "open", "read", "detect", "lock", "callback",
                           "update", "exited"}]
    /\ job \in [Workers -> 0..N] /\ res \in [Workers -> Outcomes \cup {"none"}]
    /\ holder \in Workers \cup {NoWorker}
    /\ seen \in [Workers -> Nat] /\ processed \in Nat
    /\ results \in [Objects -> Outcomes \cup {"none"}]

\* No object is lost or done twice on its way through the channel, scanOne and
\* the callback: one that was handed over has its result or is the job of
\* exactly one worker, and no other object is anywhere.
Accounted ==
    \A o \in Objects :
        LET holders == {w \in Workers : Busy(w) /\ job[w] = o}
        IN  /\ o < next => \/ results[o] # "none" /\ holders = {}
                           \/ results[o] = "none" /\ \E w \in Workers : holders = {w}
            /\ o >= next => results[o] = "none" /\ holders = {}

\* main.go's onResult increments plain integers from every worker: because the
\* pool serializes it no increment is lost (scanner.go:108 "serializes onResult").
CounterExact == processed = Cardinality({o \in Objects : results[o] # "none"})

\* When Scan returns nil every object has had its result, even if the context
\* was cancelled meanwhile; an error is returned only after a cancellation.
NilMeansDrained ==
    feeder = "returned" =>
        IF feedErr THEN cancelled ELSE \A o \in Objects : results[o] # "none"

\* Scan keeps its contract: one result for each object, one at a time, none
\* after it returned; it always returns, after a cancellation too.
KeepsContract == Contract!Spec
=============================================================================
