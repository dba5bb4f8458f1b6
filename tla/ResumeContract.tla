---------------------------- MODULE ResumeContract ----------------------------
(***************************************************************************)
(* What the README promises of a session directory, without files: for     *)
(* each scan target a set of recorded objects that only grows, an object   *)
(* is recorded at most once, the directory serves one target at a time,    *)
(* and only a process with --fresh starts over.  A storage that can lose   *)
(* the end of a write (Lossy) may forget the object recorded last, before  *)
(* anything else is recorded; it never duplicates one.                     *)
(***************************************************************************)
EXTENDS Naturals

CONSTANTS Keys, Metas, Lossy

VARIABLES
    times,     \* how often an object is on record for a target
    fresh,     \* is a process with --fresh clearing the directory?
    atRisk     \* the target and object recorded last, if that may be forgotten

vars == <<times, fresh, atRisk>>

Nothing == [m \in Metas |-> [k \in Keys |-> 0]]

\* No other target has a record.
Serves(m) == \A n \in Metas \ {m}, k \in Keys : times[n][k] = 0

Init == times = Nothing /\ fresh = FALSE /\ atRisk = {}

\* Object k is recorded for target m, for good or with its end not written.
Finish(m, k) ==
    /\ ~fresh /\ atRisk = {}
    /\ Serves(m) /\ times[m][k] = 0
    /\ times' = [times EXCEPT ![m][k] = 1]
    /\ atRisk' = {} \/ (Lossy /\ atRisk' = {<<m, k>>})
    /\ UNCHANGED fresh

\* The next write costs the object whose end is not written.
Forget(m, k) ==
    /\ ~fresh /\ atRisk = {<<m, k>>}
    /\ times' = [times EXCEPT ![m][k] = 0] /\ atRisk' = {}
    /\ UNCHANGED fresh

\* A process with --fresh comes, clears the directory unless it dies before that, and
\* is through with it.
BeginFresh == ~fresh /\ fresh' = TRUE /\ UNCHANGED <<times, atRisk>>
StartOver  == fresh /\ times' = Nothing /\ atRisk' = {} /\ UNCHANGED fresh
EndFresh   == fresh /\ fresh' = FALSE /\ UNCHANGED <<times, atRisk>>

Next ==
    \/ \E m \in Metas, k \in Keys : Finish(m, k) \/ Forget(m, k)
    \/ BeginFresh \/ StartOver \/ EndFresh

Spec == Init /\ [][Next]_vars
=============================================================================
