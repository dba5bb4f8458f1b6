------------------------------ MODULE LedgerSync ------------------------------
(***************************************************************************)
(* What the ledger of internal/session keeps when the power fails.  Record *)
(* writes its line at once and syncs the file every SyncEvery records;     *)
(* Close syncs it too.  A killed process leaves its unsynced writes in the *)
(* page cache, a power failure may take or damage any of them.  The file   *)
(* is the sequence of the writes to it: SessionLedger has the keys, here   *)
(* it matters which writes a replay still finds as records.                *)
(***************************************************************************)
EXTENDS FiniteSets, Naturals, Sequences

CONSTANTS
    SyncEvery,    \* syncEvery
    SyncFaults,   \* can a sync fail?  Record and Close ignore its error
    MaxWrites     \* bound: writes to the ledger

ASSUME SyncEveryAssumption == SyncEvery \in Nat \ {0}
ASSUME FaultsAssumption    == SyncFaults \in BOOLEAN
ASSUME WritesAssumption    == MaxWrites \in Nat

VARIABLES
    ledger,    \* results.jsonl, write by write
    synced,    \* how many of the writes are synced
    open,      \* is a process between Open and Close?
    writes,    \* Session.writes, modulo syncEvery
    stuck,     \* has Encode failed?  json.Encoder's error is sticky
    accepted,  \* history: the writes that the last process accepted as records
    closed,    \* history: the records in the ledger when a process last closed it
    claimed    \* has the last process written summary.json, its records behind it?

file == <<ledger, synced>>
vars == <<ledger, synced, open, writes, stuck, accepted, closed, claimed>>

\* What a write leaves: is its text a record, and is the newline behind it?
Write == [parses : BOOLEAN, ends : BOOLEAN]
Whole == [parses |-> TRUE, ends |-> TRUE]

\* What a write that fails or is killed leaves, when it leaves something: all of the
\* line but its newline, or a part of it.
Cut == [parses : BOOLEAN, ends : {FALSE}]

\* O_APPEND continues an unfinished line.
Begins(k) == k = 1 \/ ledger[k - 1].ends

\* The records that a replay finds: a line that is one write and parses.  The last
\* line needs no newline.
Found == {k \in 1..Len(ledger) :
            ledger[k].parses /\ Begins(k) /\ (ledger[k].ends \/ k = Len(ledger))}

Init ==
    /\ ledger = <<>> /\ synced = 0 /\ open = FALSE
    /\ writes = 0 /\ stuck = FALSE
    /\ accepted = {} /\ closed = {} /\ claimed = FALSE

\* What a sync leaves durable when the ledger has n writes.
AfterSync(n) == IF SyncFaults THEN {synced, n} ELSE {n}

\* Open replays the ledger; the counter of writes starts anew.
Open ==
    /\ ~open /\ open' = TRUE
    /\ writes' = 0 /\ stuck' = FALSE /\ accepted' = {} /\ claimed' = FALSE
    /\ UNCHANGED <<file, closed>>

\* Mutant: the record that completes a batch does not count for the sync.
DueLate(n) == n = SyncEvery + 1

Due(n) == n = SyncEvery

Room == Len(ledger) < MaxWrites

\* Record of an object that the replay did not find.
Record ==
    /\ open /\ ~claimed /\ ~stuck /\ Room
    /\ ledger' = Append(ledger, Whole)
    /\ accepted' = accepted \cup {Len(ledger')}
    /\ IF Due(writes + 1)
       THEN writes' = 0 /\ synced' \in AfterSync(Len(ledger'))
       ELSE writes' = writes + 1 /\ UNCHANGED synced
    /\ UNCHANGED <<open, stuck, closed, claimed>>

\* The write fails, on a full disk for example; the encoder refuses every later one.
RecordFails ==
    /\ open /\ ~claimed /\ ~stuck /\ stuck' = TRUE
    /\ \/ UNCHANGED ledger
       \/ Room /\ \E w \in Cut : ledger' = Append(ledger, w)
    /\ UNCHANGED <<synced, open, writes, accepted, closed, claimed>>

\* summary.json is written behind the last record, while the ledger is still open.
WriteSummary ==
    /\ open /\ ~claimed /\ claimed' = TRUE
    /\ UNCHANGED <<file, open, writes, stuck, accepted, closed>>

\* Mutant: Close leaves the syncing to the operating system.
CloseUnsynced ==
    /\ open /\ open' = FALSE
    /\ closed' = Found
    /\ UNCHANGED <<file, writes, stuck, accepted, claimed>>

Close ==
    /\ open /\ open' = FALSE
    /\ synced' \in AfterSync(Len(ledger)) /\ closed' = Found
    /\ UNCHANGED <<ledger, writes, stuck, accepted, claimed>>

\* The process is killed, in the middle of a write or behind it perhaps.
Kill ==
    /\ open /\ open' = FALSE
    /\ \/ UNCHANGED ledger
       \/ ~stuck /\ ~claimed /\ Room /\ \E w \in Cut \cup {Whole} : ledger' = Append(ledger, w)
    /\ UNCHANGED <<synced, writes, stuck, accepted, closed, claimed>>

\* The machine goes down.  Of the unsynced writes the first ones are kept, each may have
\* lost its text or its newline; what is read back then is on disk.
PowerFails ==
    /\ open' = FALSE
    /\ \E n \in synced..Len(ledger) :
         \E noText, noEnd \in SUBSET ((synced + 1)..n) :
            /\ ledger' = [k \in 1..n |-> [parses |-> ledger[k].parses /\ k \notin noText,
                                          ends   |-> ledger[k].ends /\ k \notin noEnd]]
            /\ synced' = n
    /\ UNCHANGED <<writes, stuck, accepted, closed, claimed>>

Next ==
    \/ Open \/ Record \/ RecordFails \/ WriteSummary \/ Close
    \/ Kill \/ PowerFails

Spec == Init /\ [][Next]_vars

-----------------------------------------------------------------------------
(* Properties.                                                              *)

TypeOK ==
    /\ ledger \in Seq(Write) /\ synced \in 0..Len(ledger)
    /\ open \in BOOLEAN /\ stuck \in BOOLEAN
    /\ writes \in 0..(SyncEvery - 1)
    /\ accepted \in SUBSET Nat /\ closed \in SUBSET Nat /\ claimed \in BOOLEAN

\* However a process ends and whatever the power failures after it take, at most
\* SyncEvery of the records it accepted are lost: fewer than SyncEvery that were not
\* synced, and one that went onto an unfinished line.
LossPerRun == Cardinality(accepted \ Found) <= SyncEvery

\* What the ledger held when a process closed it survives every later kill and power
\* failure; a later write may cost it one record, on a last line without newline.
ClosedSurvives ==
    \A k \in closed \ Found : ~ledger[k].ends /\ closed \ Found = {k}

-----------------------------------------------------------------------------
(* Statements of the sources that the code does not keep.                   *)

\* session.go:213 "flushing so it survives an interrupt" and README.md:36 "Nothing
\* already written is lost": records of killed processes pile up unsynced, and a
\* power failure takes them all.
LossBounded == Cardinality({k \in Found : k > synced}) <= SyncEvery

\* README.md:36 "Nothing already written is lost": a record on a closed and synced
\* ledger's last line, without newline, goes when the next process appends to it.
ClosedIsKept == closed \subseteq Found

\* report.go:18 has a ledger record for every object that the summary counts: the
\* summary is written before the ledger is synced.
SummaryIsBacked == claimed => accepted \subseteq Found

=============================================================================
