----------------------------- MODULE GrepRunProofs -----------------------------
(***************************************************************************)
(* Safety of run() of grep-cloud-storage, for any objects, targets and     *)
(* number of runs: the gates hold, an estimate leaves no trace on disk,    *)
(* and a complete summary is backed by the ledger.                         *)
(***************************************************************************)
EXTENDS GrepRun, FiniteSetTheorems, TLAPS

Early == {"idle", "preflight", "ownership", "list"}       \* before session.Open
Opened == {"gate", "scan", "finalize", "close"}           \* after it

-----------------------------------------------------------------------------
(* The inductive invariant.                                                 *)

\* How far run() is and where the session is go together.
PhaseInv ==
    /\ stage \in Early \cup {"session"} \cup Opened
    /\ stage \in Early => phase = "down"
    /\ stage = "session" => phase \in {"archive", "load", "manifest"}
    /\ stage \in Opened => phase = "open"

\* What the options and the verdict on the bucket's owner allow.
GateInv ==
    /\ opts \in Options
    /\ opts.estimateOnly => stage \in Early
    /\ stage \in {"list", "session"} \cup Opened =>
         (own = "same" => ~foreign) /\ (opts.requireSame => own = "same")

\* A scan at or above the threshold has consent, which the scan takes from no object.
ConsentInv ==
    /\ pending \in SUBSET Keys
    /\ stage = "scan" /\ Exceeds(Cardinality(pending)) => consent

LedgerInv ==
    /\ ledger \in Seq(S!Line) /\ tornTail \in BOOLEAN /\ (tornTail => ledger # <<>>)
    /\ phase # "down" => meta \in Metas

\* What the session believes to be done is in the ledger, unless a line was damaged.
DoneInv ==
    /\ phase \in {"down", "archive", "load"} => done = {}
    /\ phase # "open" => ~fused /\ ~encErr
    /\ phase \in {"manifest", "open"} /\ ~fused => done \subseteq S!DurableKeys

\* What was listed is done or still to do; a summary is complete when nothing is left.
ListedInv ==
    /\ stage = "session" => listed \subseteq pending
    /\ stage \in Opened /\ ~encErr => listed \subseteq pending \cup done
    /\ stage = "finalize" /\ ~cancelled => pending = {}
    /\ stage = "close" /\ summary = "complete" => pending = {}

IInv == PhaseInv /\ GateInv /\ ConsentInv /\ LedgerInv /\ DoneInv /\ ListedInv

LEMMA IInvInit == Init => IInv
<1> SUFFICES ASSUME Init PROVE IInv
  OBVIOUS
<1>1. /\ stage = "idle" /\ phase = "down" /\ opts = NoOptions /\ pending = {} /\ ledger = <<>>
      /\ tornTail = FALSE /\ done = {} /\ fused = FALSE /\ encErr = FALSE
  BY DEF Init, S!Init
<1>2. PhaseInv /\ DoneInv /\ ListedInv
  BY <1>1 DEF PhaseInv, DoneInv, ListedInv, Early, Opened
<1>4. ConsentInv
  BY <1>1 DEF ConsentInv
<1>5. LedgerInv
  <2>1. <<>> \in Seq(S!Line)
    OBVIOUS
  <2>2. tornTail \in BOOLEAN /\ ~tornTail
    BY <1>1
  <2> QED
    BY <1>1, <2>1, <2>2 DEF LedgerInv
<1>3. GateInv
  BY <1>1 DEF GateInv, NoOptions, Options, Early, Opened
<1> QED
  BY <1>2, <1>3, <1>4, <1>5 DEF IInv

-----------------------------------------------------------------------------
(* Stages, options and consent.                                             *)

LEMMA DownFacts ==
    ASSUME S!Down
    PROVE  /\ phase' = "down" /\ pending' = {} /\ done' = {} /\ fused' = FALSE
           /\ encErr' = FALSE
BY DEF S!Down

LEMMA IdleFacts ==
    ASSUME Idle PROVE stage' = "idle" /\ opts' = NoOptions
BY DEF Idle

LEMMA PhaseStep == IInv /\ [Next]_vars => PhaseInv'
<1> SUFFICES ASSUME IInv, [Next]_vars PROVE PhaseInv'
  OBVIOUS
<1> USE DEF IInv, PhaseInv, Early, Opened
<1>1. CASE UNCHANGED vars
  BY <1>1 DEF vars, session
<1>2. CASE Preflight \/ Ownership \/ ListOnly \/ Launch \/ Interrupt
  BY <1>2 DEF Preflight, Ownership, ListOnly, Launch, Interrupt, Idle, session
<1>3. CASE \E m \in Metas, fresh \in BOOLEAN, L \in SUBSET Keys : List(m, fresh, L)
  BY <1>3 DEF List, S!Start
<1>4. CASE OpenSession
  BY <1>4 DEF OpenSession, S!Archive, S!Load, S!WriteManifest
<1>5. CASE OpenRefused \/ Decline \/ Return
  BY <1>5, DownFacts DEF OpenRefused, Decline, Return, Idle, S!Refuse, S!Close
<1>6. CASE NothingToDo \/ Finalize
  BY <1>6 DEF NothingToDo, Finalize, S!WriteSummary
<1>7. CASE Agree \/ ScanReturns
  BY <1>7 DEF Agree, ScanReturns, session
<1>8. CASE \E k \in Keys, r \in Results : OnResult(k, r)
  BY <1>8 DEF OnResult, S!Record, S!RecordFails
<1>9. CASE Die
  BY <1>9, DownFacts DEF Die, Idle, S!Crash, session
<1> QED
  BY <1>1, <1>2, <1>3, <1>4, <1>5, <1>6, <1>7, <1>8, <1>9 DEF Next, Run

LEMMA GateStep == IInv /\ [Next]_vars => GateInv'
<1> SUFFICES ASSUME IInv, [Next]_vars PROVE GateInv'
  OBVIOUS
<1> USE DEF IInv, GateInv, Early, Opened
<1>0. CASE Idle
  BY <1>0 DEF Idle, NoOptions, Options
<1>1. CASE UNCHANGED vars
  BY <1>1 DEF vars, account
<1>2. CASE Launch \/ Interrupt
  BY <1>2 DEF Launch, Interrupt, account
<1>8. CASE Preflight
  BY <1>0, <1>8 DEF Preflight
<1>3. CASE Ownership /\ ~Idle
  BY <1>3 DEF Ownership, Verdict
<1>4. CASE \E m \in Metas, fresh \in BOOLEAN, L \in SUBSET Keys : List(m, fresh, L)
  BY <1>4 DEF List, account
<1>5. CASE OpenSession \/ NothingToDo \/ Finalize \/ Agree \/ ScanReturns
  <2>1. UNCHANGED <<opts, own, foreign>> /\ stage \notin Early /\ stage \in {"session"} \cup Opened
    BY <1>5 DEF OpenSession, NothingToDo, Finalize, Agree, ScanReturns, account
  <2> QED
    BY <2>1
<1>6. CASE \E k \in Keys, r \in Results : OnResult(k, r)
  BY <1>6 DEF OnResult, account
<1>7. CASE ListOnly \/ OpenRefused \/ Decline \/ Return \/ Die
  BY <1>0, <1>7 DEF ListOnly, OpenRefused, Decline, Return, Die
<1> QED
  BY <1>0, <1>1, <1>2, <1>3, <1>4, <1>5, <1>6, <1>7, <1>8 DEF Next, Run

\* What is pending only shrinks while it is scanned, and so does its number.
LEMMA ConsentKept ==
    ASSUME IInv, stage = "scan", stage' = "scan", consent' = consent, pending' \subseteq pending
    PROVE  ConsentInv'
<1>1. IsFiniteSet(pending) /\ Cardinality(pending) \in Nat
  BY KeysAssumption, FS_Subset, FS_CardinalityType DEF IInv, ConsentInv
<1>2. Cardinality(pending') \in Nat /\ Cardinality(pending') <= Cardinality(pending)
  BY <1>1, FS_Subset, FS_CardinalityType
<1>3. Exceeds(Cardinality(pending')) => Exceeds(Cardinality(pending))
  BY <1>1, <1>2, WarnAssumption DEF Exceeds
<1>4. Exceeds(Cardinality(pending))' = Exceeds(Cardinality(pending'))
  BY DEF Exceeds
<1> QED
  BY <1>3, <1>4 DEF IInv, ConsentInv

LEMMA ConsentStep == IInv /\ [Next]_vars => ConsentInv'
<1> SUFFICES ASSUME IInv, [Next]_vars PROVE ConsentInv'
  OBVIOUS
<1>1. pending \in SUBSET Keys
  BY DEF IInv, ConsentInv
<1>2. pending' \in SUBSET Keys
  BY <1>1 DEF Next, Run, vars, session, Preflight, Ownership, ListOnly, Launch, Interrupt,
     List, S!Start, OpenSession, S!Archive, S!memory, S!Load, S!WriteManifest, S!Remaining,
     OpenRefused, S!Refuse, S!Down, Decline, Return, S!Close, NothingToDo, Finalize,
     S!WriteSummary, Agree, ScanReturns, OnResult, S!Record, S!RecordFails, Die, S!Crash
<1>3. CASE stage' # "scan"
  BY <1>2, <1>3 DEF ConsentInv
<1>4. CASE stage = "scan" /\ stage' = "scan"
  <2>1. consent' = consent /\ pending' \subseteq pending
    BY <1>4 DEF Next, Run, vars, session, Preflight, Ownership, ListOnly, Launch, Interrupt,
       Idle, List, OpenSession, OpenRefused, Decline, Return, NothingToDo, Finalize,
       Agree, ScanReturns, OnResult, S!Record, S!RecordFails, Die
  <2> QED
    BY <1>4, <2>1, ConsentKept
<1>5. CASE stage # "scan" /\ stage' = "scan"
  <2>1. Agree
    BY <1>5 DEF Next, Run, vars, session, Preflight, Ownership, ListOnly, Launch, Interrupt,
       Idle, List, OpenSession, OpenRefused, Decline, Return, NothingToDo, Finalize,
       ScanReturns, OnResult, Die
  <2>2. pending' = pending /\ (consent' = TRUE \/ ~Exceeds(Cardinality(pending)))
    BY <2>1 DEF Agree, session
  <2> QED
    BY <1>2, <2>2 DEF ConsentInv, Exceeds
<1> QED
  BY <1>3, <1>4, <1>5

-----------------------------------------------------------------------------
(* The ledger.                                                              *)

\* What appending a line makes of the ledger.
LEMMA AppendedFacts ==
    ASSUME LedgerInv, phase # "down", NEW line \in S!Line
    PROVE  /\ S!Appended(line) \in Seq(S!Line) /\ S!Appended(line) # <<>>
           /\ ~tornTail => S!Appended(line) = Append(ledger, line)
<1>1. ledger \in Seq(S!Line) /\ meta \in Metas
  BY DEF LedgerInv
<1>2. S!Garbled \in S!Line
  BY <1>1 DEF S!Garbled, S!Line, S!Outcomes
<1>3. CASE tornTail
  <2>1. Len(ledger) \in 1..Len(ledger)
    BY <1>1, <1>3 DEF LedgerInv
  <2> QED
    BY <1>1, <1>2, <1>3, <2>1 DEF S!Appended
<1>4. CASE ~tornTail
  BY <1>1, <1>4 DEF S!Appended
<1> QED
  BY <1>3, <1>4

\* A new line behind a whole one keeps the keys on record and adds its own.
LEMMA AppendKeeps ==
    ASSUME LedgerInv, NEW line \in S!Line, ledger' = Append(ledger, line)
    PROVE  /\ S!DurableKeys \subseteq S!DurableKeys'
           /\ line.key # None => line.key \in S!DurableKeys'
<1>1. /\ Len(ledger) \in Nat /\ Len(ledger') = Len(ledger) + 1
      /\ \A n \in 1..Len(ledger) : ledger'[n] = ledger[n]
      /\ ledger'[Len(ledger) + 1] = line
  BY DEF LedgerInv
<1>2. ASSUME NEW k \in S!DurableKeys PROVE k \in S!DurableKeys'
  <2>1. PICK n \in 1..Len(ledger) : ledger[n].key = k /\ k # None
    BY <1>2 DEF S!DurableKeys
  <2>2. n \in 1..Len(ledger') /\ ledger'[n].key = k
    BY <1>1, <2>1
  <2> QED
    BY <2>1, <2>2 DEF S!DurableKeys
<1>3. Len(ledger) + 1 \in 1..Len(ledger')
  BY <1>1
<1> QED
  BY <1>1, <1>2, <1>3 DEF S!DurableKeys

LEMMA LineOf ==
    ASSUME LedgerInv, phase # "down", NEW k \in Keys, NEW o \in S!Outcomes
    PROVE  [key |-> k, out |-> o, by |-> meta] \in S!Line /\ S!Garbled \in S!Line
BY DEF LedgerInv, S!Line, S!Garbled, S!Outcomes

\* A write that fails or is cut short.
LEMMA CutShortFacts ==
    ASSUME LedgerInv, phase # "down", NEW k \in Keys, NEW o \in S!Outcomes, S!CutShort(k, o)
    PROVE  /\ ledger' \in Seq(S!Line) /\ tornTail' \in BOOLEAN /\ (tornTail' => ledger' # <<>>)
           /\ ~tornTail \/ ledger' = ledger => S!DurableKeys \subseteq S!DurableKeys'
<1>1. CASE UNCHANGED <<ledger, tornTail>>
  BY <1>1 DEF LedgerInv, S!DurableKeys
<1>2. CASE tornTail' = TRUE /\ \E line \in {[key |-> k, out |-> o, by |-> meta], S!Garbled} :
                                  ledger' = S!Appended(line)
  <2>1. PICK line \in S!Line : ledger' = S!Appended(line)
    BY <1>2, LineOf
  <2>2. ~tornTail => ledger' = Append(ledger, line)
    BY <2>1, AppendedFacts
  <2>3. CASE ledger' = ledger
    BY <1>2, <2>1, <2>3, AppendedFacts DEF S!DurableKeys
  <2> QED
    BY <1>2, <2>1, <2>2, <2>3, AppendedFacts, AppendKeeps
<1> QED
  BY <1>1, <1>2 DEF S!CutShort

LEMMA RecordOfFacts == ASSUME NEW r \in Results PROVE RecordOf(r) \in S!Outcomes
BY DEF Results, RecordOf, S!Outcomes

\* One step of the session, as it is seen from outside.
LEMMA SessionStep ==
    ASSUME IInv, [Next]_vars
    PROVE  /\ LedgerInv'
           /\ DoneInv'
<1>1. LedgerInv /\ DoneInv /\ PhaseInv /\ pending \in SUBSET Keys
  BY DEF IInv, ConsentInv
<1>2. CASE UNCHANGED session
  <2>1. LedgerInv'
    BY <1>1, <1>2 DEF session, LedgerInv
  <2>2. S!DurableKeys' = S!DurableKeys
    BY <1>2 DEF session, S!DurableKeys
  <2> QED
    BY <1>1, <1>2, <2>1, <2>2 DEF session, DoneInv
<1>3. ASSUME NEW m \in Metas, NEW fresh \in BOOLEAN, NEW L \in SUBSET Keys, S!Start(m, fresh, L)
      PROVE  LedgerInv' /\ DoneInv'
  <2>1. /\ UNCHANGED <<ledger, tornTail, done, fused, encErr>> /\ meta' = m
        /\ phase = "down" /\ phase' \in {"archive", "load"}
    BY <1>3 DEF S!Start, S!disk
  <2>2. LedgerInv'
    BY <1>1, <2>1 DEF LedgerInv
  <2>3. DoneInv'
    BY <1>1, <2>1 DEF DoneInv
  <2> QED
    BY <2>2, <2>3
<1>4. CASE S!Archive
  <2>1. /\ UNCHANGED <<done, fused, encErr, meta>> /\ phase = "archive"
        /\ phase' \in {"archive", "load"}
        /\ \/ UNCHANGED <<ledger, tornTail>>
           \/ ledger' = <<>> /\ tornTail' \in BOOLEAN /\ ~tornTail'
    BY <1>4 DEF S!Archive, S!memory
  <2>2. LedgerInv'
    <3>1. <<>> \in Seq(S!Line)
      OBVIOUS
    <3>2. meta' \in Metas
      BY <1>1, <2>1 DEF LedgerInv
    <3>3. CASE UNCHANGED <<ledger, tornTail>>
      BY <1>1, <3>2, <3>3 DEF LedgerInv
    <3>4. CASE ledger' = <<>> /\ tornTail' \in BOOLEAN /\ ~tornTail'
      BY <3>1, <3>2, <3>4 DEF LedgerInv
    <3> QED
      BY <2>1, <3>3, <3>4
  <2>3. DoneInv'
    BY <1>1, <2>1 DEF DoneInv
  <2> QED
    BY <2>2, <2>3
<1>5. CASE S!Load
  <2>1. \A n \in 0..Len(ledger) : S!ReplayDone(n) \subseteq S!DurableKeys
    BY <1>1 DEF S!ReplayDone, S!DurableKeys, LedgerInv
  <2>2. S!Readable \subseteq 0..Len(ledger)
    BY <1>1 DEF S!Readable, LedgerInv
  <2>3. done' \subseteq S!DurableKeys
    BY <1>1, <1>5, <2>1, <2>2 DEF S!Load, DoneInv
  <2>4. /\ phase = "load" /\ phase' = "manifest" /\ UNCHANGED <<ledger, tornTail, meta, fused, encErr>>
    BY <1>5 DEF S!Load
  <2> QED
    BY <1>1, <2>3, <2>4 DEF LedgerInv, DoneInv, S!DurableKeys
<1>6. CASE S!WriteManifest
  BY <1>1, <1>6 DEF S!WriteManifest, LedgerInv, DoneInv, S!DurableKeys
<1>7. CASE S!WriteSummary(TRUE) \/ S!WriteSummary(Complete)
  BY <1>1, <1>7 DEF S!WriteSummary, S!memory, LedgerInv, DoneInv, S!DurableKeys
<1>8. CASE S!Down /\ UNCHANGED <<ledger, tornTail>>
  BY <1>1, <1>8 DEF S!Down, LedgerInv, DoneInv
<1>9. CASE phase # "down" /\ S!Crash
  <2>1. CASE UNCHANGED <<ledger, tornTail>>
    BY <1>8, <1>9, <2>1 DEF S!Crash
  <2>2. ASSUME NEW k \in Keys, NEW o \in S!Outcomes, S!CutShort(k, o)
        PROVE  LedgerInv' /\ DoneInv'
    BY <1>1, <1>9, <2>2, CutShortFacts DEF S!Crash, S!Down, LedgerInv, DoneInv
  <2> QED
    BY <1>1, <1>9, <2>1, <2>2 DEF S!Crash, S!disk
<1>10. ASSUME NEW k \in Keys, NEW o \in S!Outcomes, S!Record(k, o)
       PROVE  LedgerInv' /\ DoneInv'
  <2> DEFINE line == [key |-> k, out |-> o, by |-> meta]
  <2>1. /\ phase = "open" /\ phase' = "open" /\ ledger' = S!Appended(line) /\ tornTail' = FALSE
        /\ fused' = (fused \/ tornTail) /\ done' = done \cup {k} /\ meta' = meta
    BY <1>10 DEF S!Record
  <2>2. line \in S!Line /\ line.key = k /\ k # None
    BY <1>1, <2>1, LineOf, KeysAssumption
  <2> HIDE DEF line
  <2>3. ~tornTail => ledger' = Append(ledger, line)
    BY <1>1, <2>1, <2>2, AppendedFacts
  <2>4. ~fused' => done' \subseteq S!DurableKeys'
    BY <1>1, <2>1, <2>2, <2>3, AppendKeeps DEF DoneInv
  <2> QED
    BY <1>1, <2>1, <2>2, <2>4, AppendedFacts DEF LedgerInv, DoneInv
<1>11. ASSUME NEW k \in Keys, NEW o \in S!Outcomes, S!RecordFails(k, o)
       PROVE  LedgerInv' /\ DoneInv'
  <2>1. /\ phase = "open" /\ phase' = "open" /\ done' = done /\ meta' = meta
        /\ fused' = (fused \/ (tornTail /\ ledger' # ledger))
        /\ UNCHANGED <<ledger, tornTail>> \/ S!CutShort(k, o)
    BY <1>11 DEF S!RecordFails
  <2>2. /\ ledger' \in Seq(S!Line) /\ tornTail' \in BOOLEAN /\ (tornTail' => ledger' # <<>>)
        /\ ~tornTail \/ ledger' = ledger => S!DurableKeys \subseteq S!DurableKeys'
    BY <1>1, <2>1, CutShortFacts DEF LedgerInv, S!DurableKeys
  <2> QED
    BY <1>1, <2>1, <2>2 DEF LedgerInv, DoneInv
<1>13. CASE Preflight \/ Ownership \/ ListOnly \/ Launch \/ Interrupt \/ Agree \/ ScanReturns
            \/ UNCHANGED vars
  BY <1>2, <1>13 DEF Preflight, Ownership, ListOnly, Launch, Interrupt, Agree, ScanReturns, vars
<1>14. CASE \E m \in Metas, fresh \in BOOLEAN, L \in SUBSET Keys : List(m, fresh, L)
  BY <1>3, <1>14 DEF List
<1>15. CASE OpenSession \/ NothingToDo \/ Finalize
  BY <1>4, <1>5, <1>6, <1>7, <1>15 DEF OpenSession, NothingToDo, Finalize
<1>16. CASE OpenRefused \/ Decline \/ Return
  BY <1>8, <1>16 DEF OpenRefused, Decline, Return, S!Refuse, S!Close, S!disk
<1>17. CASE \E k \in Keys, r \in Results : OnResult(k, r)
  BY <1>10, <1>11, <1>17, RecordOfFacts DEF OnResult
<1>18. CASE Die
  BY <1>2, <1>9, <1>18 DEF Die
<1> QED
  BY <1>13, <1>14, <1>15, <1>16, <1>17, <1>18 DEF Next, Run

LEMMA ListedStep == IInv /\ [Next]_vars => ListedInv'
<1> SUFFICES ASSUME IInv, [Next]_vars PROVE ListedInv'
  OBVIOUS
<1> USE DEF ListedInv, Opened
<1>0. ListedInv /\ PhaseInv /\ DoneInv
  BY DEF IInv
<1>1. CASE UNCHANGED vars
  BY <1>0, <1>1 DEF vars, session
<1>2. CASE stage' = "idle"
  BY <1>2
<1>3. CASE Preflight \/ Ownership \/ ListOnly \/ Launch
  BY <1>3 DEF Preflight, Ownership, ListOnly, Launch, Idle
<1>4. CASE Interrupt
  BY <1>0, <1>4 DEF Interrupt, session
<1>5. CASE \E m \in Metas, fresh \in BOOLEAN, L \in SUBSET Keys : List(m, fresh, L)
  BY <1>5 DEF List, S!Start
<1>6. CASE stage = "session" /\ stage' = "session" /\ (S!Archive \/ S!Load) /\ listed' = listed
  BY <1>0, <1>6 DEF S!Archive, S!memory, S!Load
<1>7. CASE stage = "session" /\ stage' = "gate" /\ S!WriteManifest /\ listed' = listed
  BY <1>0, <1>7 DEF S!WriteManifest, S!Remaining
<1>8. CASE NothingToDo
  BY <1>0, <1>8 DEF NothingToDo, S!WriteSummary, S!memory
<1>9. CASE Finalize
  BY <1>0, <1>9 DEF Finalize, S!WriteSummary, S!memory, Complete
<1>10. CASE Agree \/ ScanReturns
  BY <1>0, <1>10 DEF Agree, ScanReturns, session
<1>11. CASE \E k \in Keys, r \in Results : OnResult(k, r)
  <2>1. PICK k \in Keys, r \in Results : OnResult(k, r)
    BY <1>11
  <2>2. /\ stage = "scan" /\ stage' = "scan" /\ listed' = listed
        /\ \/ pending' = pending \ {k} /\ done' = done \cup {k} /\ encErr' = encErr
           \/ encErr' = TRUE
    BY <2>1 DEF OnResult, S!Record, S!RecordFails
  <2> QED
    BY <1>0, <2>2
<1>12. CASE OpenRefused \/ Decline \/ Return \/ Die
  BY <1>2, <1>12 DEF OpenRefused, Decline, Return, Die, Idle
<1>13. CASE OpenSession
  BY <1>6, <1>7, <1>13 DEF OpenSession
<1> QED
  BY <1>1, <1>3, <1>4, <1>5, <1>8, <1>9, <1>10, <1>11, <1>12, <1>13 DEF Next, Run

THEOREM Invariance == Spec => []IInv
<1>1. IInv /\ [Next]_vars => IInv'
  BY PhaseStep, GateStep, ConsentStep, SessionStep, ListedStep DEF IInv
<1> QED
  BY <1>1, IInvInit, PTL DEF Spec

-----------------------------------------------------------------------------

\* Whatever fails, is refused or is interrupted on the way, objects are downloaded only
\* after the gates of the command line.
THEOREM ScansAreAuthorized == Spec => []ScanIsAuthorized
<1>1. IInv => ScanIsAuthorized
  BY DEF IInv, GateInv, ScanIsAuthorized, Early, Opened
<1> QED
  BY <1>1, Invariance, PTL

\* A large scan has consent, after any number of resumed runs.
THEOREM LargeScansAreAgreed == Spec => []LargeScanIsAgreed
<1>1. IInv => LargeScanIsAgreed
  BY DEF IInv, ConsentInv, LargeScanIsAgreed, Exceeds
<1> QED
  BY <1>1, Invariance, PTL

\* A complete summary is backed by the ledger, through any crashes and resumed runs.
THEOREM CompleteIsBacked == Spec => []CompleteIsOnRecord
<1>1. IInv => CompleteIsOnRecord
  BY DEF IInv, PhaseInv, DoneInv, ListedInv, CompleteIsOnRecord, Opened
<1> QED
  BY <1>1, Invariance, PTL

\* --estimate-only never changes the session directory.
THEOREM EstimatesAreFree == Spec => EstimateIsFree
<1>1. IInv /\ [Next]_vars => [opts.estimateOnly => UNCHANGED S!disk]_vars
  <2> SUFFICES ASSUME IInv, Next, opts.estimateOnly PROVE UNCHANGED S!disk
    BY DEF vars
  <2>1. stage \in Early /\ phase = "down"
    BY DEF IInv, GateInv, PhaseInv
  <2>2. UNCHANGED session
    BY <2>1 DEF Early, Next, Run, Preflight, Ownership, ListOnly, Launch, Interrupt, List,
       OpenSession, OpenRefused, NothingToDo, Agree, Decline, OnResult, ScanReturns,
       Finalize, Return, Die
  <2> QED
    BY <2>2 DEF session, S!disk
<1> QED
  BY <1>1, Invariance, PTL DEF Spec, EstimateIsFree

=============================================================================
