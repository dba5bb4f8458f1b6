----------------------------- MODULE ScanContract -----------------------------
(***************************************************************************)
(* What Scanner.Scan promises its caller: one result for every object, one *)
(* at a time, none after it returns; it returns, and unless the context    *)
(* was cancelled it has then delivered a result for every object.          *)
(***************************************************************************)
EXTENDS Naturals

CONSTANT Objects

VARIABLES results,    \* what onResult was given for an object
          cancelled,  \* the caller's context is done
          returned    \* Scan has returned

Outcomes == {"scanned", "regexOnly", "skipped", "error", "canceled"}

Init ==
    /\ results = [o \in Objects |-> "none"]
    /\ cancelled \in BOOLEAN /\ returned = FALSE

Deliver(o, r) ==
    /\ ~returned /\ results[o] = "none"
    /\ r = "canceled" => cancelled
    /\ results' = [results EXCEPT ![o] = r]
    /\ UNCHANGED <<cancelled, returned>>

Cancel == cancelled' = TRUE /\ UNCHANGED <<results, returned>>

Return ==
    /\ cancelled \/ \A o \in Objects : results[o] # "none"
    /\ returned' = TRUE
    /\ UNCHANGED <<results, cancelled>>

Next ==
    \/ \E o \in Objects, r \in Outcomes : Deliver(o, r)
    \/ Cancel
    \/ Return

SafeSpec == Init /\ [][Next]_<<results, cancelled, returned>>

Spec == SafeSpec /\ <>returned
=============================================================================
