----------------------------- MODULE RateLimiter -----------------------------
(***************************************************************************)
(* internal/provider/s3.go: every page of a listing and every download     *)
(* waits for a token first.  grep-cloud-storage lists and scans with one   *)
(* limiter; dark-data-storage creates one with every scanner, one for the  *)
(* inventory and one for the scan of each bucket (main.go:363).            *)
(*                                                                         *)
(* The token bucket is that of golang.org/x/time/rate: a wait takes its    *)
(* token at once, on credit if there is none, and returns when the credit  *)
(* is paid.  Time passes in ticks; Price of them bring one token.  An      *)
(* observer counts the requests of one window of time.                     *)
(***************************************************************************)
EXTENDS Integers, FiniteSets

CONSTANTS
    Callers,     \* the goroutines that list and download
    BurstFlag,   \* --burst
    Price,       \* ticks for one token, the inverse of --rps; --rps 0 has no limiter
    Scanners,    \* scanners created one after the other: 1, or 2 for each bucket
    Horizon      \* bound: the length of the observed window

ASSUME CallersAssumption == IsFiniteSet(Callers)
ASSUME NumbersAssumption ==
    /\ BurstFlag \in Nat /\ Price \in Nat \ {0}
    /\ Scanners \in Nat \ {0} /\ Horizon \in Nat

VARIABLES
    level,      \* the bucket, in ticks; negative while tokens are owed
    scanner,    \* the number of the scanner at work
    waiting,    \* the goroutines that took a token and wait for it
    left,       \* for how many ticks
    canceled,   \* the context
    window,     \* before, on or over
    elapsed,    \* ticks of the window
    used,       \* limiters in use in the window
    spent       \* requests of the window, in ticks of their price

limiter  == <<level, scanner, waiting, left>>
observer == <<window, elapsed, used, spent>>
limiterVars == <<limiter, canceled, observer>>

\* NewS3Store: a burst of zero would let nothing pass.
Burst == IF BurstFlag < 1 THEN 1 ELSE BurstFlag

Full == Price * Burst

LimiterInit ==
    /\ level = Full /\ scanner = 1 /\ waiting = {} /\ left = [w \in Callers |-> 0]
    /\ canceled = FALSE
    /\ window = "before" /\ elapsed = 0 /\ used = 0 /\ spent = 0

\* newScanner: the next inventory or scan begins with a new limiter.  After Ctrl-C
\* no scanner makes a request.
NewScanner ==
    /\ scanner < Scanners /\ waiting = {} /\ ~canceled
    /\ scanner' = scanner + 1 /\ level' = Full
    /\ used' = IF window = "on" THEN used + 1 ELSE used
    /\ UNCHANGED <<waiting, left, canceled, window, elapsed, spent>>

\* Mutant: Open waits twice.
FeeTwice == 2 * Price

Fee == Price

\* S3Store.wait: the token is taken and the time to wait for it is known.
Reserve(w) ==
    /\ w \in Callers \ waiting /\ ~canceled
    /\ level' = level - Fee
    /\ left' = [left EXCEPT ![w] = IF level' < 0 THEN -level' ELSE 0]
    /\ waiting' = waiting \cup {w}
    /\ UNCHANGED <<scanner, canceled, observer>>

\* Mutant: List waits before its loop and not for every page.
RequestsUnpaced == 2

\* The requests that one wait stands for.
Requests == 1

\* The wait is over: the page or the object is requested.
Request(w) ==
    /\ w \in waiting /\ left[w] = 0
    /\ waiting' = waiting \ {w}
    /\ spent' = IF window = "on" THEN spent + Requests * Price ELSE spent
    /\ UNCHANGED <<level, scanner, left, canceled, window, elapsed, used>>

\* Ctrl-C ends a wait.  The limiter takes the token back; nobody asks for it again.
GiveUp(w) ==
    /\ w \in waiting /\ canceled
    /\ waiting' = waiting \ {w}
    /\ UNCHANGED <<level, scanner, left, canceled, observer>>

Interrupt ==
    /\ ~canceled /\ canceled' = TRUE
    /\ UNCHANGED <<limiter, observer>>

\* The bucket fills up to its burst; the window ends at its horizon.
Tick ==
    /\ level' = IF level < Full THEN level + 1 ELSE level
    /\ left' = [w \in Callers |-> IF left[w] > 0 THEN left[w] - 1 ELSE 0]
    /\ IF window = "on" /\ elapsed < Horizon
       THEN elapsed' = elapsed + 1 /\ UNCHANGED window
       ELSE /\ window' = IF window = "on" THEN "over" ELSE window
            /\ UNCHANGED elapsed
    /\ UNCHANGED <<scanner, waiting, canceled, used, spent>>

\* The window may begin at any moment.
Observe ==
    /\ window = "before" /\ window' = "on"
    /\ elapsed' = 0 /\ used' = 1 /\ spent' = 0
    /\ UNCHANGED <<limiter, canceled>>

LimiterNext ==
    \/ NewScanner \/ Interrupt \/ Tick \/ Observe
    \/ \E w \in Callers : Reserve(w) \/ Request(w) \/ GiveUp(w)

LimiterSpec == LimiterInit /\ [][LimiterNext]_limiterVars

-----------------------------------------------------------------------------
(* Properties.                                                              *)

LimiterTypeOK ==
    /\ level \in Int /\ level <= Full /\ scanner \in 1..Scanners
    /\ waiting \subseteq Callers /\ left \in [Callers -> Nat] /\ canceled \in BOOLEAN
    /\ window \in {"before", "on", "over"}
    /\ elapsed \in Nat /\ used \in Nat /\ spent \in Nat

Weight(W) == Price * Cardinality(W)

\* The requests of any window are no more than a burst for each limiter in use, what
\* the elapsed time pays for, and one late request of each goroutine.
CallsBounded ==
    window # "before" => spent <= Full * used + elapsed + Weight(Callers)

\* Nobody waits longer than for a token of each goroutine.
WaitBounded == \A w \in waiting : left[w] <= Weight(Callers)

-----------------------------------------------------------------------------
(* A statement of the sources that the code does not keep.                  *)

\* s3.go:14 "Every underlying API call passes through a shared token-bucket": one
\* burst for all scanners.
SharedBurst ==
    window # "before" => spent <= Full + elapsed + Weight(Callers)

=============================================================================
