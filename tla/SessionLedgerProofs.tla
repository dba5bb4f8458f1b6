------------------------- MODULE SessionLedgerProofs -------------------------
(***************************************************************************)
(* Theorems about SessionLedger, for every set of objects, targets and     *)
(* stamps, every number of runs and both kinds of storage.                 *)
(***************************************************************************)
EXTENDS SessionLedger, FiniteSetTheorems, FunctionTheorems, TLAPS

USE DEF Outcomes, Phases

\* The counters a replay computes are natural numbers.
LEMMA ReplayRepType ==
    ASSUME TypeOK, NEW n \in 0..Len(ledger)
    PROVE  ReplayRep(n) \in [Outcomes -> Nat]
<1>1. ASSUME NEW c \in Outcomes
      PROVE  Cardinality({i \in Parsed(c) : i <= n}) \in Nat
  <2>1. {i \in Parsed(c) : i <= n} \subseteq 1..Len(ledger)
    BY DEF Parsed
  <2>2. IsFiniteSet(1..Len(ledger))
    BY FS_Interval DEF TypeOK, DiskTypeOK
  <2> QED BY <2>1, <2>2, FS_Subset, FS_CardinalityType
<1> QED BY <1>1 DEF ReplayRep

\* A replay finds only keys of objects.
LEMMA ReplayDoneType ==
    ASSUME TypeOK, NEW n \in 0..Len(ledger)
    PROVE  ReplayDone(n) \in SUBSET Keys
<1>1. ASSUME NEW i \in 1..n PROVE ledger[i].key \in Keys \cup {None}
  <2>1. i \in 1..Len(ledger) /\ ledger \in Seq(Line)
    BY DEF TypeOK, DiskTypeOK
  <2>2. ledger[i] \in Line
    BY <2>1
  <2> QED BY <2>2 DEF Line
<1> QED BY <1>1 DEF ReplayDone

\* Appending keeps the ledger a sequence of lines, and leaves it nonempty.
LEMMA AppendedType ==
    ASSUME TypeOK, NEW line \in Line, meta \in Metas
    PROVE  Appended(line) \in Seq(Line) /\ Appended(line) # <<>>
<1>1. Garbled \in Line
  BY DEF Garbled, Line
<1>2. CASE tornTail
  <2>1. Len(ledger) \in 1..Len(ledger)
    BY <1>2 DEF TypeOK, DiskTypeOK
  <2> QED BY <1>1, <1>2, <2>1 DEF Appended, TypeOK, DiskTypeOK
<1>3. CASE ~tornTail
  BY <1>3 DEF Appended, TypeOK, DiskTypeOK
<1> QED BY <1>2, <1>3

\* A write that is cut short leaves a sequence of lines.
LEMMA CutShortType ==
    ASSUME TypeOK, meta \in Metas, NEW k \in Keys, NEW o \in Outcomes,
           CutShort(k, o)
    PROVE  ledger' \in Seq(Line) /\ tornTail' \in BOOLEAN
           /\ (tornTail' => ledger' # <<>>)
<1>1. CASE UNCHANGED <<ledger, tornTail>>
  BY <1>1 DEF TypeOK, DiskTypeOK
<1>2. CASE \E line \in {[key |-> k, out |-> o, by |-> meta], Garbled} :
               ledger' = Appended(line) /\ tornTail' = TRUE
  <2>1. PICK line \in {[key |-> k, out |-> o, by |-> meta], Garbled} :
            ledger' = Appended(line) /\ tornTail' = TRUE
    BY <1>2
  <2>2. line \in Line
    BY <2>1 DEF Garbled, Line
  <2> QED BY <2>1, <2>2, AppendedType
<1> QED BY <1>1, <1>2 DEF CutShort

LEMMA TypeInit == Init => TypeOK
<1> SUFFICES ASSUME Init PROVE TypeOK
  OBVIOUS
<1>1. DiskTypeOK
  <2>1. ledger \in Seq(Line) /\ archive \in [Stamps -> Seq(Line)]
    BY DEF Init
  <2> QED BY <2>1 DEF Init, DiskTypeOK
<1>2. ProcessTypeOK
  <2>1. rep \in [Outcomes -> Nat]
    BY DEF Init, ZeroRep
  <2>2. resumed \in BOOLEAN /\ encErr \in BOOLEAN /\ fused \in BOOLEAN
    BY DEF Init
  <2>3. /\ phase \in Phases /\ step \in 1..3 /\ runs \in 0..MaxRuns
        /\ meta = None /\ phase = "down"
        /\ pending \in SUBSET Keys /\ done \in SUBSET Keys
    BY RunsAssumption DEF Init
  <2> QED BY <2>1, <2>2, <2>3 DEF ProcessTypeOK
<1>3. phase = "down"
  BY DEF Init
<1> QED BY <1>1, <1>2, <1>3 DEF TypeOK

\* A process that ends leaves its variables in their initial state.
LEMMA DownType == TypeOK /\ Down => ProcessTypeOK'
<1> SUFFICES ASSUME TypeOK, Down PROVE ProcessTypeOK'
  OBVIOUS
<1>1. rep' \in [Outcomes -> Nat]
  BY DEF Down, ZeroRep
<1>2. resumed' \in BOOLEAN /\ encErr' \in BOOLEAN /\ fused' \in BOOLEAN
  BY DEF Down
<1>3. /\ phase' \in Phases /\ step' \in 1..3 /\ runs' \in 0..MaxRuns
      /\ meta' = None /\ phase' = "down"
      /\ pending' \in SUBSET Keys /\ done' \in SUBSET Keys
  BY DEF Down, TypeOK, ProcessTypeOK
<1> QED BY <1>1, <1>2, <1>3 DEF ProcessTypeOK

LEMMA DiskUnchangedType == TypeOK /\ UNCHANGED disk => DiskTypeOK'
BY DEF TypeOK, DiskTypeOK, disk

LEMMA TypeStep == TypeOK /\ [Next]_vars => TypeOK'
<1> SUFFICES ASSUME TypeOK, [Next]_vars PROVE TypeOK'
  OBVIOUS
<1>1. ASSUME NEW m \in Metas, NEW fresh \in BOOLEAN, NEW L \in SUBSET Keys,
             Start(m, fresh, L)
      PROVE  TypeOK'
  <2>1. DiskTypeOK'
    BY <1>1, DiskUnchangedType DEF Start, disk
  <2>2. UNCHANGED <<step, resumed, done, rep, encErr, fused>>
    BY <1>1 DEF Start
  <2>3. phase' \in {"archive", "load"} /\ meta' \in Metas /\ pending' \in SUBSET Keys
    BY <1>1 DEF Start
  <2>4. runs' \in 0..MaxRuns
    BY <1>1, RunsAssumption DEF Start, TypeOK, ProcessTypeOK
  <2>5. ProcessTypeOK'
    BY <2>2, <2>3, <2>4, MetasAssumption DEF TypeOK, ProcessTypeOK
  <2> QED BY <2>1, <2>3, <2>5 DEF TypeOK
<1>2. CASE Archive
  <2>1. ProcessTypeOK' /\ phase' \in {"archive", "load"}
    BY <1>2 DEF Archive, TypeOK, ProcessTypeOK, memory
  <2>2. archive' \in [Stamps -> Seq(Line)]
    BY <1>2 DEF Archive, ArchiveOrder, TypeOK, DiskTypeOK, ProcessTypeOK
  <2>3. \/ /\ ledger' = <<>> /\ tornTail' = FALSE /\ haveLedger' = FALSE
           /\ UNCHANGED <<manifest, summary>>
        \/ manifest' = None /\ UNCHANGED <<ledger, haveLedger, tornTail, summary>>
        \/ summary' = "absent" /\ UNCHANGED <<ledger, haveLedger, tornTail, manifest>>
    BY <1>2 DEF Archive, ArchiveOrder
  <2>4. /\ ledger' \in Seq(Line) /\ haveLedger' \in BOOLEAN /\ tornTail' \in BOOLEAN
        /\ (tornTail' => ledger' # <<>>)
    <3>1. CASE ledger' = <<>> /\ tornTail' = FALSE /\ haveLedger' = FALSE
      <4>1. ledger' \in Seq(Line)
        BY <3>1
      <4>2. haveLedger' \in BOOLEAN /\ tornTail' \in BOOLEAN /\ ~tornTail'
        BY <3>1
      <4> QED BY <4>1, <4>2
    <3>2. CASE UNCHANGED <<ledger, haveLedger, tornTail>>
      BY <3>2 DEF TypeOK, DiskTypeOK
    <3> QED BY <2>3, <3>1, <3>2
  <2>5. /\ manifest' \in Metas \cup {None, Corrupt}
        /\ summary' \in {"absent", "corrupt", "incomplete", "complete"}
    BY <2>3 DEF TypeOK, DiskTypeOK
  <2>6. DiskTypeOK'
    BY <2>2, <2>4, <2>5 DEF DiskTypeOK
  <2> QED BY <2>1, <2>6 DEF TypeOK
<1>3. CASE Load
  <2>1. /\ phase = "load" /\ phase' = "manifest" /\ haveLedger' = TRUE
        /\ UNCHANGED <<ledger, tornTail, manifest, summary, archive, step, meta,
                       pending, encErr, fused, runs>>
    BY <1>3 DEF Load
  <2>2. done' \in SUBSET Keys /\ rep' \in [Outcomes -> Nat] /\ resumed' \in BOOLEAN
    <3>1. CASE UNCHANGED <<done, rep, resumed>>
      BY <3>1 DEF TypeOK, ProcessTypeOK
    <3>2. CASE /\ \E n \in Readable : done' = ReplayDone(n) /\ rep' = ReplayRep(n)
               /\ resumed' = (done' # {})
      <4>1. Readable \subseteq 0..Len(ledger)
        BY DEF Readable, TypeOK, DiskTypeOK
      <4> QED BY <3>2, <4>1, ReplayDoneType, ReplayRepType
    <3> QED BY <1>3, <3>1, <3>2 DEF Load
  <2>3. DiskTypeOK'
    BY <2>1 DEF TypeOK, DiskTypeOK
  <2>4. ProcessTypeOK'
    BY <2>1, <2>2 DEF TypeOK, ProcessTypeOK
  <2> QED BY <2>1, <2>3, <2>4 DEF TypeOK
<1>4. CASE Refuse
  BY <1>4, DownType, DiskUnchangedType DEF Refuse, Down, TypeOK
<1>5. CASE WriteManifest
  <2>1. /\ phase = "manifest" /\ phase' = "open" /\ manifest' = meta
        /\ pending' = Remaining
        /\ UNCHANGED <<ledger, haveLedger, tornTail, summary, archive, step, meta,
                       resumed, done, rep, encErr, fused, runs>>
    BY <1>5 DEF WriteManifest
  <2>2. DiskTypeOK'
    BY <2>1 DEF TypeOK, DiskTypeOK, ProcessTypeOK
  <2>3. ProcessTypeOK'
    BY <2>1 DEF TypeOK, ProcessTypeOK, Remaining
  <2> QED BY <2>1, <2>2, <2>3 DEF TypeOK
<1>6. ASSUME NEW k \in Keys, NEW o \in Outcomes, Record(k, o)
      PROVE  TypeOK'
  <2>1. meta \in Metas /\ [key |-> k, out |-> o, by |-> meta] \in Line
    BY <1>6 DEF Record, TypeOK, ProcessTypeOK, Line
  <2>2. ledger' \in Seq(Line)
    BY <1>6, <2>1, AppendedType DEF Record
  <2>3. DiskTypeOK'
    BY <1>6, <2>2 DEF Record, TypeOK, DiskTypeOK
  <2>4. ProcessTypeOK'
    BY <1>6 DEF Record, TypeOK, ProcessTypeOK
  <2> QED BY <1>6, <2>3, <2>4 DEF Record, TypeOK
<1>7. ASSUME NEW k \in Keys, NEW o \in Outcomes, RecordFails(k, o)
      PROVE  TypeOK'
  <2>1. meta \in Metas
    BY <1>7 DEF RecordFails, TypeOK, ProcessTypeOK
  <2>2. ledger' \in Seq(Line) /\ tornTail' \in BOOLEAN /\ (tornTail' => ledger' # <<>>)
    <3>1. CASE encErr
      BY <1>7, <3>1 DEF RecordFails, TypeOK, DiskTypeOK
    <3>2. CASE ~encErr
      BY <1>7, <2>1, <3>2, CutShortType DEF RecordFails
    <3> QED BY <3>1, <3>2
  <2>3. DiskTypeOK'
    BY <1>7, <2>2 DEF RecordFails, TypeOK, DiskTypeOK
  <2>4. ProcessTypeOK'
    BY <1>7 DEF RecordFails, TypeOK, ProcessTypeOK
  <2> QED BY <1>7, <2>3, <2>4 DEF RecordFails, TypeOK
<1>8. ASSUME NEW complete \in BOOLEAN, WriteSummary(complete)
      PROVE  TypeOK'
  <2>1. DiskTypeOK'
    BY <1>8 DEF WriteSummary, TypeOK, DiskTypeOK
  <2>2. ProcessTypeOK'
    BY <1>8 DEF WriteSummary, memory, TypeOK, ProcessTypeOK
  <2> QED BY <1>8, <2>1, <2>2 DEF WriteSummary, TypeOK
<1>9. CASE Close
  BY <1>9, DownType, DiskUnchangedType DEF Close, Down, TypeOK
<1>10. CASE Crash
  <2>1. ledger' \in Seq(Line) /\ tornTail' \in BOOLEAN /\ (tornTail' => ledger' # <<>>)
    <3>1. CASE UNCHANGED <<ledger, tornTail>>
      BY <3>1 DEF TypeOK, DiskTypeOK
    <3>2. CASE phase = "open" /\ \E k \in pending, o \in Outcomes : CutShort(k, o)
      <4>1. meta \in Metas /\ pending \subseteq Keys
        BY <3>2 DEF TypeOK, ProcessTypeOK
      <4> QED BY <3>2, <4>1, CutShortType
    <3> QED BY <1>10, <3>1, <3>2 DEF Crash, disk
  <2>2. /\ haveLedger' \in BOOLEAN /\ manifest' \in Metas \cup {None, Corrupt}
        /\ summary' \in {"absent", "corrupt", "incomplete", "complete"}
        /\ archive' \in [Stamps -> Seq(Line)]
    BY <1>10 DEF Crash, disk, TypeOK, DiskTypeOK
  <2>3. DiskTypeOK'
    BY <2>1, <2>2 DEF DiskTypeOK
  <2>4. ProcessTypeOK' /\ phase' = "down"
    BY <1>10, DownType DEF Crash, Down
  <2> QED BY <2>3, <2>4 DEF TypeOK
<1>11. CASE UNCHANGED vars
  BY <1>11 DEF vars, TypeOK, DiskTypeOK, ProcessTypeOK
<1> QED BY <1>1, <1>2, <1>3, <1>4, <1>5, <1>6, <1>7, <1>8, <1>9, <1>10, <1>11
        DEF Next

\* Every reachable state has the types TypeOK gives.
THEOREM TypeCorrect == Spec => []TypeOK
BY TypeInit, TypeStep, PTL DEF Spec

-----------------------------------------------------------------------------
(* How one step may change the ledger.                                      *)

\* At most a record of object k, or a part of one, comes at the end.
GrowsBy(k) ==
    \/ ledger' = ledger
    \/ \E o \in Outcomes :
         \E line \in {[key |-> k, out |-> o, by |-> meta], Garbled} :
            ledger' = Appended(line)

LedgerStep ==
    \/ ledger' = ledger
    \/ phase = "open" /\ \E k \in pending : GrowsBy(k)

LEMMA RecordGrows ==
    ASSUME NEW k, NEW o \in Outcomes, Record(k, o)
    PROVE  GrowsBy(k)
BY DEF Record, GrowsBy

LEMMA CutShortGrows ==
    ASSUME NEW k, NEW o \in Outcomes, CutShort(k, o)
    PROVE  GrowsBy(k)
BY DEF CutShort, GrowsBy

LEMMA RecordFailsGrows ==
    ASSUME NEW k, NEW o \in Outcomes, RecordFails(k, o)
    PROVE  GrowsBy(k)
<1>1. UNCHANGED <<ledger, tornTail>> \/ CutShort(k, o)
  BY DEF RecordFails
<1> QED BY <1>1, CutShortGrows DEF GrowsBy

\* Only --fresh's rename changes the ledger otherwise.
LEMMA StepOfLedger == [Next]_vars /\ phase # "archive" => LedgerStep
<1> SUFFICES ASSUME [Next]_vars, phase # "archive" PROVE LedgerStep
  OBVIOUS
<1>1. ASSUME NEW m, NEW fresh, NEW L, Start(m, fresh, L) PROVE LedgerStep
  BY <1>1 DEF Start, disk, LedgerStep
<1>2. CASE Load
  BY <1>2 DEF Load, LedgerStep
<1>3. CASE Refuse
  BY <1>3 DEF Refuse, disk, LedgerStep
<1>4. CASE WriteManifest
  BY <1>4 DEF WriteManifest, LedgerStep
<1>5. ASSUME NEW k \in Keys, NEW o \in Outcomes, Record(k, o) PROVE LedgerStep
  BY <1>5, RecordGrows DEF Record, LedgerStep
<1>6. ASSUME NEW k \in Keys, NEW o \in Outcomes, RecordFails(k, o) PROVE LedgerStep
  BY <1>6, RecordFailsGrows DEF RecordFails, LedgerStep
<1>7. ASSUME NEW complete, WriteSummary(complete) PROVE LedgerStep
  BY <1>7 DEF WriteSummary, LedgerStep
<1>8. CASE Close
  BY <1>8 DEF Close, disk, LedgerStep
<1>9. CASE Crash
  <2>1. CASE ledger' = ledger
    BY <2>1 DEF LedgerStep
  <2>2. CASE phase = "open" /\ \E k \in pending, o \in Outcomes : CutShort(k, o)
    BY <2>2, CutShortGrows DEF LedgerStep
  <2> QED BY <1>9, <2>1, <2>2 DEF Crash, disk
<1>10. CASE UNCHANGED vars
  BY <1>10 DEF vars, LedgerStep
<1>11. ~Archive
  BY DEF Archive
<1> QED BY <1>1, <1>2, <1>3, <1>4, <1>5, <1>6, <1>7, <1>8, <1>9, <1>10, <1>11
        DEF Next

\* Line by line: every line but the last, and the last one if it is finished,
\* stays; the new last line is of this target and of no object but k.
LEMMA GrowsByLine ==
    ASSUME TypeOK, meta \in Metas, NEW k \in Keys, GrowsBy(k)
    PROVE  /\ \A i \in 1..Len(ledger) :
                 /\ i \in 1..Len(ledger')
                 /\ ledger'[i] = ledger[i] \/ (tornTail /\ i = Len(ledger))
           /\ \A i \in 1..Len(ledger') :
                 \/ i \in 1..Len(ledger) /\ ledger'[i] = ledger[i]
                 \/ /\ i = Len(ledger') /\ ledger'[i].by = meta
                    /\ ledger'[i].key \in {k, None}
           /\ Len(ledger') \in Nat
<1> DEFINE Goal ==
           /\ \A i \in 1..Len(ledger) :
                 /\ i \in 1..Len(ledger')
                 /\ ledger'[i] = ledger[i] \/ (tornTail /\ i = Len(ledger))
           /\ \A i \in 1..Len(ledger') :
                 \/ i \in 1..Len(ledger) /\ ledger'[i] = ledger[i]
                 \/ /\ i = Len(ledger') /\ ledger'[i].by = meta
                    /\ ledger'[i].key \in {k, None}
           /\ Len(ledger') \in Nat
<1>1. ledger \in Seq(Line) /\ Len(ledger) \in Nat /\ (tornTail => Len(ledger) # 0)
  BY DEF TypeOK, DiskTypeOK
<1>2. CASE ledger' = ledger
  BY <1>1, <1>2
<1>3. ASSUME NEW o \in Outcomes,
             NEW line \in {[key |-> k, out |-> o, by |-> meta], Garbled},
             ledger' = Appended(line)
      PROVE  Goal
  <2>1. /\ line \in Line /\ line.by = meta /\ line.key \in {k, None}
        /\ Garbled \in Line /\ Garbled.by = meta /\ Garbled.key = None
    BY DEF Garbled, Line
  <2> HIDE DEF Garbled
  <2>2. CASE tornTail
    <3>1. ledger' = [ledger EXCEPT ![Len(ledger)] = Garbled] /\ Len(ledger') = Len(ledger)
      BY <1>1, <1>3, <2>2 DEF Appended
    <3>2. Len(ledger) \in 1..Len(ledger)
      BY <1>1, <2>2
    <3>3. ledger'[Len(ledger)] = Garbled
      BY <1>1, <3>1, <3>2
    <3>4. \A i \in 1..Len(ledger) : i # Len(ledger) => ledger'[i] = ledger[i]
      <4>1. DOMAIN ledger = 1..Len(ledger)
        BY <1>1
      <4> QED BY <3>1, <4>1
    <3> QED BY <1>1, <2>1, <2>2, <3>1, <3>2, <3>3, <3>4
  <2>3. CASE ~tornTail
    <3>1. ledger' = Append(ledger, line) /\ Len(ledger') = Len(ledger) + 1
      BY <1>1, <1>3, <2>1, <2>3 DEF Appended
    <3> QED BY <1>1, <2>1, <3>1
  <2> QED BY <2>2, <2>3
<1> QED BY <1>2, <1>3 DEF GrowsBy

\* A step other than --fresh's rename costs the ledger no record but the one on
\* an unfinished last line.
THEOREM LossConfined == Spec => LossIsConfined
<1> DEFINE A == phase # "archive" =>
                  \A k \in DurableKeys \ DurableKeys' :
                      tornTail /\ ledger[Len(ledger)].key = k
<1>1. TypeOK /\ [Next]_vars => A
  <2> SUFFICES ASSUME TypeOK, [Next]_vars, phase # "archive",
                      NEW k \in DurableKeys \ DurableKeys'
               PROVE  tornTail /\ ledger[Len(ledger)].key = k
    OBVIOUS
  <2>1. PICK i \in 1..Len(ledger) : ledger[i].key = k /\ k # None
    BY DEF DurableKeys
  <2>2. ~(i \in 1..Len(ledger') /\ ledger'[i] = ledger[i])
    BY <2>1 DEF DurableKeys
  <2>3. PICK q \in pending : phase = "open" /\ GrowsBy(q)
    BY <2>1, <2>2, StepOfLedger DEF LedgerStep
  <2>4. meta \in Metas /\ q \in Keys
    BY <2>3 DEF TypeOK, ProcessTypeOK
  <2>5. tornTail /\ i = Len(ledger)
    BY <2>2, <2>3, <2>4, GrowsByLine
  <2> QED BY <2>1, <2>5
<1>2. TypeOK /\ [Next]_vars => [A]_vars
  BY <1>1
<1> QED BY <1>2, TypeCorrect, PTL DEF Spec, LossIsConfined

-----------------------------------------------------------------------------
(* The inductive invariant.                                                 *)

\* Where the process is, what it has read and what it has put in place.
PhaseInv ==
    /\ phase # "archive" => step = 1
    /\ phase = "archive" => /\ step \in {2, 3} => ledger = <<>>
                            /\ step = 3 => manifest = None
    /\ phase \in {"down", "archive", "load"} => done = {} /\ ~resumed
    /\ phase = "manifest" => \/ manifest = meta
                             \/ manifest = None /\ ledger = <<>>
    /\ phase = "manifest" /\ done # {} => resumed
    /\ phase = "manifest" /\ ~ReadFaults => DurableKeys \subseteq done
    /\ phase = "open" => manifest = meta

IInv == /\ TypeOK
        /\ PhaseInv
        /\ ManifestGuardsLedger
        /\ SingleTarget
        /\ ~ReadFaults => OneRecordPerObject /\ NoRescan

LEMMA IInvInit == Init => IInv
<1> SUFFICES ASSUME Init PROVE IInv
  OBVIOUS
<1>1. TypeOK
  BY TypeInit
<1>2. ledger = <<>> /\ phase = "down" /\ step = 1 /\ done = {} /\ ~resumed
  BY DEF Init
<1>3. PhaseInv
  BY <1>2 DEF PhaseInv
<1>4. ManifestGuardsLedger /\ SingleTarget /\ OneRecordPerObject /\ NoRescan
  BY <1>2 DEF ManifestGuardsLedger, SingleTarget, OneRecordPerObject, NoRescan
<1> QED BY <1>1, <1>3, <1>4 DEF IInv

LEMMA PhaseStep == IInv /\ [Next]_vars => PhaseInv'
<1> SUFFICES ASSUME IInv, [Next]_vars PROVE PhaseInv'
  OBVIOUS
<1> USE DEF IInv
<1>1. ASSUME NEW m \in Metas, NEW fresh \in BOOLEAN, NEW L \in SUBSET Keys,
             Start(m, fresh, L)
      PROVE  PhaseInv'
  BY <1>1 DEF Start, disk, PhaseInv
<1>2. CASE Archive
  <2>1. phase = "archive" /\ done' = done /\ resumed' = resumed
    BY <1>2 DEF Archive, memory
  <2>2. CASE step = 1
    <3>1. step' = 2 /\ phase' = "archive" /\ ledger' = <<>>
      BY <1>2, <2>2 DEF Archive, ArchiveOrder
    <3> QED BY <2>1, <3>1 DEF PhaseInv
  <2>3. CASE step = 2
    <3>1. step' = 3 /\ phase' = "archive" /\ ledger' = ledger /\ manifest' = None
      BY <1>2, <2>3 DEF Archive, ArchiveOrder
    <3> QED BY <2>1, <2>3, <3>1 DEF PhaseInv
  <2>4. CASE step = 3
    <3>1. step' = 1 /\ phase' = "load"
      BY <1>2, <2>4 DEF Archive, ArchiveOrder
    <3> QED BY <2>1, <3>1 DEF PhaseInv
  <2> QED BY <2>2, <2>3, <2>4 DEF TypeOK, ProcessTypeOK
<1>3. CASE Load
  <2>1. /\ phase = "load" /\ phase' = "manifest" /\ step' = step
        /\ ledger' = ledger /\ manifest' = manifest /\ meta' = meta
    BY <1>3 DEF Load
  <2>2. DurableKeys' = DurableKeys
    BY <2>1 DEF DurableKeys
  <2>3. CASE manifest = None /\ UNCHANGED <<done, rep, resumed>>
    <3>1. ledger = <<>> /\ done' = {} /\ DurableKeys = {}
      BY <2>1, <2>3 DEF ManifestGuardsLedger, PhaseInv, DurableKeys
    <3> QED BY <2>1, <2>2, <2>3, <3>1 DEF PhaseInv
  <2>4. CASE /\ SameTarget(meta)
             /\ \E n \in Readable : done' = ReplayDone(n) /\ rep' = ReplayRep(n)
             /\ resumed' = (done' # {})
    <3>1. ~ReadFaults => DurableKeys \subseteq done'
      BY <2>4 DEF Readable, ReplayDone, DurableKeys
    <3>2. done' # {} => resumed'
      BY <2>4
    <3> QED BY <2>1, <2>2, <2>4, <3>1, <3>2 DEF PhaseInv, SameTarget
  <2> QED BY <1>3, <2>3, <2>4 DEF Load
<1>4. CASE Refuse
  BY <1>4 DEF Refuse, Down, PhaseInv
<1>5. CASE WriteManifest
  BY <1>5 DEF WriteManifest, PhaseInv
<1>6. ASSUME NEW k \in Keys, NEW o \in Outcomes, Record(k, o) PROVE PhaseInv'
  BY <1>6 DEF Record, PhaseInv
<1>7. ASSUME NEW k \in Keys, NEW o \in Outcomes, RecordFails(k, o) PROVE PhaseInv'
  BY <1>7 DEF RecordFails, PhaseInv
<1>8. ASSUME NEW complete \in BOOLEAN, WriteSummary(complete) PROVE PhaseInv'
  BY <1>8 DEF WriteSummary, memory, PhaseInv
<1>9. CASE Close
  BY <1>9 DEF Close, Down, PhaseInv
<1>10. CASE Crash
  BY <1>10 DEF Crash, Down, PhaseInv
<1>11. CASE UNCHANGED vars
  BY <1>11 DEF vars, PhaseInv, DurableKeys
<1> QED BY <1>1, <1>2, <1>3, <1>4, <1>5, <1>6, <1>7, <1>8, <1>9, <1>10, <1>11
        DEF Next

\* archiveExisting keeps the ledger or takes all of it away.
LEMMA ArchiveLedger == Archive => ledger' = ledger \/ ledger' = <<>>
BY DEF Archive

\* The manifest changes while the ledger is empty, or when Open rewrites it.
LEMMA ManifestStep ==
    IInv /\ [Next]_vars =>
        \/ manifest' = manifest
        \/ ledger' = <<>>
        \/ /\ phase = "manifest" /\ manifest' \in {meta, Corrupt} /\ meta # None
           /\ ledger' = ledger
<1> SUFFICES ASSUME IInv, [Next]_vars, manifest' # manifest
             PROVE  \/ ledger' = <<>>
                    \/ /\ phase = "manifest" /\ manifest' \in {meta, Corrupt}
                       /\ meta # None /\ ledger' = ledger
  OBVIOUS
<1>1. CASE Archive
  <2>1. phase = "archive" /\ step = 2 /\ ledger' = ledger
    BY <1>1 DEF Archive, ArchiveOrder, IInv, TypeOK, ProcessTypeOK
  <2> QED BY <2>1 DEF IInv, PhaseInv
<1>2. CASE WriteManifest
  BY <1>2 DEF WriteManifest, IInv, TypeOK, ProcessTypeOK
<1>3. CASE Crash
  BY <1>3 DEF Crash, disk, IInv, TypeOK, ProcessTypeOK
<1>4. Archive \/ WriteManifest \/ Crash
  BY DEF Next, Start, Load, Refuse, Record, RecordFails, WriteSummary, Close,
         disk, vars
<1> QED BY <1>1, <1>2, <1>3, <1>4

LEMMA ManifestGuardsStep == IInv /\ [Next]_vars => ManifestGuardsLedger'
<1> SUFFICES ASSUME IInv, [Next]_vars, ledger' # <<>> PROVE manifest' # None
  BY DEF ManifestGuardsLedger
<1>1. CASE manifest' = manifest
  <2>1. CASE ledger' = ledger
    BY <1>1, <2>1 DEF IInv, ManifestGuardsLedger
  <2>2. CASE phase = "open"
    BY <1>1, <2>2 DEF IInv, PhaseInv, TypeOK, ProcessTypeOK
  <2>3. ledger' = ledger \/ phase = "open"
    BY ArchiveLedger, StepOfLedger DEF LedgerStep, Next, vars, Start, Load, Refuse,
       Record, RecordFails, WriteManifest, WriteSummary, Close, Crash, disk
  <2> QED BY <1>1, <2>1, <2>2, <2>3
<1>2. CASE phase = "manifest" /\ manifest' \in {meta, Corrupt} /\ meta # None
  BY <1>2, MarksAssumption
<1> QED BY <1>1, <1>2, ManifestStep

LEMMA SingleTargetStep == IInv /\ [Next]_vars => SingleTarget'
<1> SUFFICES ASSUME IInv, [Next]_vars, NEW i \in 1..Len(ledger'), manifest' # Corrupt
             PROVE  ledger'[i].by = manifest'
  BY DEF SingleTarget
<1>1. ledger' # <<>>
  OBVIOUS
<1>2. CASE ledger' = ledger
  <2>1. CASE manifest' = manifest
    BY <1>2, <2>1 DEF IInv, SingleTarget
  <2>2. CASE phase = "manifest" /\ manifest' = meta
    <3>1. manifest = meta /\ meta # Corrupt
      BY <1>1, <1>2, <2>2, MetasAssumption, MarksAssumption
      DEF IInv, PhaseInv, TypeOK, ProcessTypeOK
    <3> QED BY <1>2, <2>2, <3>1 DEF IInv, SingleTarget
  <2> QED BY <1>1, <2>1, <2>2, ManifestStep
<1>3. CASE phase = "open" /\ \E k \in pending : GrowsBy(k)
  <2>1. PICK k \in pending : GrowsBy(k)
    BY <1>3
  <2>2. meta \in Metas /\ k \in Keys /\ manifest = meta /\ TypeOK
    BY <1>3, <2>1 DEF IInv, PhaseInv, TypeOK, ProcessTypeOK
  <2>3. manifest' = meta
    BY <1>1, <1>3, <2>2, ManifestStep
  <2>4. \/ i \in 1..Len(ledger) /\ ledger'[i] = ledger[i]
        \/ ledger'[i].by = meta
    BY <2>1, <2>2, GrowsByLine
  <2>5. meta # Corrupt
    BY <2>2, MetasAssumption
  <2> QED BY <2>2, <2>3, <2>4, <2>5 DEF IInv, SingleTarget
<1>4. CASE phase = "archive"
  <2>1. ledger' = ledger
    BY <1>1, <1>4, ArchiveLedger DEF Next, vars, Start, Load, Refuse, Record,
       RecordFails, WriteManifest, WriteSummary, Close, Crash, disk
  <2> QED BY <1>2, <2>1
<1> QED BY <1>2, <1>3, <1>4, StepOfLedger DEF LedgerStep

\* While lines have at most one for each object and nothing pending has one, a
\* line of a pending object keeps it so.
LEMMA OneRecordStep ==
    IInv /\ ~ReadFaults /\ [Next]_vars => OneRecordPerObject'
<1> SUFFICES ASSUME IInv, ~ReadFaults, [Next]_vars PROVE OneRecordPerObject'
  OBVIOUS
<1>1. CASE ledger' = ledger \/ ledger' = <<>>
  BY <1>1 DEF IInv, OneRecordPerObject
<1>2. CASE phase = "open" /\ \E k \in pending : GrowsBy(k)
  <2>1. PICK k \in pending : GrowsBy(k)
    BY <1>2
  <2>2. meta \in Metas /\ k \in Keys /\ k # None /\ TypeOK
    BY <1>2, <2>1, KeysAssumption DEF IInv, TypeOK, ProcessTypeOK
  <2>3. k \notin DurableKeys
    BY <1>2, <2>1 DEF IInv, NoRescan
  <2>4. \A i \in 1..Len(ledger) : ledger[i].key # k
    BY <2>2, <2>3 DEF DurableKeys
  <2>5. \A i \in 1..Len(ledger') :
           \/ i \in 1..Len(ledger) /\ ledger'[i] = ledger[i]
           \/ i = Len(ledger') /\ ledger'[i].key \in {k, None}
    BY <2>1, <2>2, GrowsByLine
  <2>6. OneRecordPerObject
    BY DEF IInv
  <2> QED BY <2>4, <2>5, <2>6 DEF OneRecordPerObject
<1>3. CASE phase = "archive"
  <2>1. ledger' = ledger \/ ledger' = <<>>
    BY <1>3, ArchiveLedger DEF Next, vars, Start, Load, Refuse, Record,
       RecordFails, WriteManifest, WriteSummary, Close, Crash, disk
  <2> QED BY <1>1, <2>1
<1> QED BY <1>1, <1>2, <1>3, StepOfLedger DEF LedgerStep

LEMMA NoRescanStep == IInv /\ ~ReadFaults /\ [Next]_vars => NoRescan'
<1> SUFFICES ASSUME IInv, ~ReadFaults, [Next]_vars, phase' = "open",
                    NEW q \in pending', q \in DurableKeys'
             PROVE  FALSE
  BY DEF NoRescan
<1>1. CASE WriteManifest
  <2>1. q \in Remaining /\ q \in DurableKeys
    BY <1>1 DEF WriteManifest, DurableKeys
  <2>2. DurableKeys \subseteq done /\ (done # {} => resumed)
    BY <1>1 DEF WriteManifest, IInv, PhaseInv
  <2> QED BY <2>1, <2>2 DEF Remaining
<1>2. ASSUME NEW k \in Keys, phase = "open", pending' = pending \ {k}, GrowsBy(k)
      PROVE  FALSE
  <2>1. meta \in Metas /\ TypeOK
    BY <1>2 DEF IInv, TypeOK, ProcessTypeOK
  <2>2. q \in pending /\ q # k /\ q # None /\ q \notin DurableKeys
    BY <1>2 DEF IInv, NoRescan, DurableKeys
  <2>3. PICK i \in 1..Len(ledger') : ledger'[i].key = q
    BY DEF DurableKeys
  <2>4. \/ i \in 1..Len(ledger) /\ ledger'[i] = ledger[i]
        \/ ledger'[i].key \in {k, None}
    BY <1>2, <2>1, GrowsByLine
  <2> QED BY <2>2, <2>3, <2>4 DEF DurableKeys
<1>3. ASSUME NEW k \in Keys, NEW o \in Outcomes, Record(k, o) PROVE FALSE
  BY <1>2, <1>3, RecordGrows DEF Record
<1>4. ASSUME NEW k \in Keys, NEW o \in Outcomes, RecordFails(k, o) PROVE FALSE
  BY <1>2, <1>4, RecordFailsGrows DEF RecordFails
<1>5. CASE UNCHANGED <<phase, pending, ledger>>
  BY <1>5 DEF IInv, NoRescan, DurableKeys
<1>6. ASSUME NEW complete \in BOOLEAN, WriteSummary(complete) PROVE FALSE
  BY <1>5, <1>6 DEF WriteSummary, memory
<1>7. CASE UNCHANGED vars
  BY <1>5, <1>7 DEF vars
<1>8. ~Archive /\ ~Load /\ ~Refuse /\ ~Close /\ ~Crash
  BY DEF Archive, Load, Refuse, Close, Crash, Down
<1>9. ASSUME NEW m \in Metas, NEW fresh \in BOOLEAN, NEW L \in SUBSET Keys,
             Start(m, fresh, L)
      PROVE  FALSE
  BY <1>9 DEF Start
<1> QED BY <1>1, <1>3, <1>4, <1>6, <1>7, <1>8, <1>9 DEF Next

LEMMA IInvStep == IInv /\ [Next]_vars => IInv'
<1> SUFFICES ASSUME IInv, [Next]_vars PROVE IInv'
  OBVIOUS
<1>1. TypeOK'
  BY TypeStep DEF IInv
<1>2. PhaseInv' /\ ManifestGuardsLedger' /\ SingleTarget'
  BY PhaseStep, ManifestGuardsStep, SingleTargetStep
<1>3. ~ReadFaults => OneRecordPerObject' /\ NoRescan'
  BY OneRecordStep, NoRescanStep
<1> QED BY <1>1, <1>2, <1>3 DEF IInv

THEOREM Invariance == Spec => []IInv
BY IInvInit, IInvStep, PTL DEF Spec

\* Whatever step processes die at and whatever their writes leave behind, a
\* ledger with lines never stands without a manifest, and the records of two
\* targets never meet in one ledger.
THEOREM LedgerGuarded == Spec => [](ManifestGuardsLedger /\ SingleTarget)
<1>1. IInv => ManifestGuardsLedger /\ SingleTarget
  BY DEF IInv
<1> QED BY <1>1, Invariance, PTL

\* On storage that reads back what it holds, through any crashes and torn
\* writes an object never gets a second record.
THEOREM ResumeExact == ASSUME ~ReadFaults PROVE Spec => []OneRecordPerObject
<1>1. IInv => OneRecordPerObject
  BY DEF IInv
<1> QED BY <1>1, Invariance, PTL

\* There an object that has a record is never scanned again.
THEOREM NothingRescanned == ASSUME ~ReadFaults PROVE Spec => []NoRescan
<1>1. IInv => NoRescan
  BY DEF IInv
<1> QED BY <1>1, Invariance, PTL

-----------------------------------------------------------------------------
(* What a torn write can cost.                                              *)

\* The records that were accepted and that a replay would not find.
Lost == done \ DurableKeys

\* Nothing is lost before a line was written onto an unfinished one, the one there and
\* the new one afterwards; no other line is unfinished while records are accepted.
LossInv ==
    /\ phase # "open" => ~fused /\ ~encErr
    /\ phase = "manifest" => Lost = {}
    /\ phase = "open" => /\ ~fused => Lost = {}
                         /\ \E a, b : Lost \subseteq {a, b}
                         /\ fused /\ tornTail => encErr

\* A write costs the record on the unfinished line and no other.
LEMMA GrowsCost ==
    ASSUME TypeOK, meta \in Metas, NEW k \in Keys, GrowsBy(k)
    PROVE  /\ ~tornTail => DurableKeys \subseteq DurableKeys'
           /\ \E a : DurableKeys \ {a} \subseteq DurableKeys'
<1>1. ASSUME NEW q \in DurableKeys, q \notin DurableKeys'
      PROVE  tornTail /\ q = ledger[Len(ledger)].key
  <2>1. PICK i \in 1..Len(ledger) : ledger[i].key = q /\ q # None
    BY <1>1 DEF DurableKeys
  <2>2. ~(i \in 1..Len(ledger') /\ ledger'[i] = ledger[i])
    BY <1>1, <2>1 DEF DurableKeys
  <2> QED
    BY <2>1, <2>2, GrowsByLine
<1> QED
  BY <1>1

LEMMA LossInit == Init => LossInv
BY DEF Init, LossInv

LEMMA LossStep == IInv /\ LossInv /\ [Next]_vars => LossInv'
<1> SUFFICES ASSUME IInv, LossInv, [Next]_vars PROVE LossInv'
  OBVIOUS
<1> USE DEF LossInv
<1>1. ASSUME phase' \in {"down", "archive", "load"}, ~fused', ~encErr' PROVE LossInv'
  BY <1>1
<1>2. ASSUME NEW m, NEW fresh \in BOOLEAN, NEW L, Start(m, fresh, L) PROVE LossInv'
  BY <1>1, <1>2 DEF Start
<1>3. CASE Archive
  <2>1. phase' \in {"archive", "load"} /\ phase = "archive" /\ UNCHANGED <<fused, encErr>>
    BY <1>3 DEF Archive, memory
  <2> QED
    BY <1>1, <2>1
<1>4. CASE Load
  <2>1. /\ phase = "load" /\ phase' = "manifest" /\ UNCHANGED <<ledger, fused, encErr>>
        /\ DurableKeys' = DurableKeys
    BY <1>4 DEF Load, DurableKeys
  <2>2. done' \subseteq DurableKeys
    <3>1. CASE done' = done
      BY <2>1, <3>1 DEF IInv, PhaseInv
    <3>2. ASSUME NEW n \in Readable, done' = ReplayDone(n) PROVE done' \subseteq DurableKeys
      <4>1. n \in 0..Len(ledger) /\ Len(ledger) \in Nat
        BY <3>2 DEF Readable, IInv, TypeOK, DiskTypeOK
      <4> QED
        BY <3>2, <4>1 DEF ReplayDone, DurableKeys
    <3> QED
      BY <1>4, <3>1, <3>2 DEF Load
  <2> QED
    BY <2>1, <2>2 DEF Lost
<1>5. CASE Refuse \/ Close \/ Crash
  BY <1>1, <1>5 DEF Refuse, Close, Crash, Down
<1>6. CASE WriteManifest
  <2>1. /\ phase = "manifest" /\ phase' = "open"
        /\ UNCHANGED <<ledger, done, fused, encErr, tornTail>> /\ Lost' = Lost
    BY <1>6 DEF WriteManifest, Lost, DurableKeys
  <2> QED
    BY <2>1
<1>7. ASSUME NEW k \in Keys, NEW o \in Outcomes, Record(k, o) PROVE LossInv'
  <2>1. /\ phase = "open" /\ phase' = "open" /\ ~encErr /\ ~tornTail'
        /\ done' = done \cup {k} /\ fused' = (fused \/ tornTail)
    BY <1>7 DEF Record
  <2>2. TypeOK /\ meta \in Metas /\ GrowsBy(k)
    BY <1>7, <2>1, RecordGrows DEF IInv, TypeOK, ProcessTypeOK
  <2>3. CASE tornTail
    <3>1. Lost = {}
      BY <2>1, <2>3
    <3>2. PICK a : DurableKeys \ {a} \subseteq DurableKeys'
      BY <2>2, GrowsCost
    <3>3. Lost' \subseteq {a, k}
      BY <2>1, <3>1, <3>2 DEF Lost
    <3> QED
      BY <2>1, <2>3, <3>3
  <2>4. CASE ~tornTail
    <3>1. DurableKeys \subseteq DurableKeys'
      BY <2>2, <2>4, GrowsCost
    <3>2. k \in DurableKeys'
      <4> DEFINE line == [key |-> k, out |-> o, by |-> meta]
      <4>1. line \in Line /\ k # None /\ ledger \in Seq(Line)
        BY <2>2, KeysAssumption DEF Line, TypeOK, DiskTypeOK
      <4>2. ledger' = Append(ledger, line)
        BY <1>7, <2>4 DEF Record, Appended
      <4> HIDE DEF line
      <4>3. Len(ledger') \in 1..Len(ledger') /\ ledger'[Len(ledger')] = line
        BY <4>1, <4>2
      <4>4. line.key = k
        BY DEF line
      <4> QED
        BY <4>1, <4>3, <4>4 DEF DurableKeys
    <3>3. Lost' \subseteq Lost
      BY <2>1, <3>1, <3>2 DEF Lost
    <3> QED
      BY <2>1, <2>4, <3>3
  <2> QED
    BY <2>3, <2>4
<1>8. ASSUME NEW k \in Keys, NEW o \in Outcomes, RecordFails(k, o) PROVE LossInv'
  <2>1. /\ phase = "open" /\ phase' = "open" /\ encErr' /\ done' = done
        /\ fused' = (fused \/ (tornTail /\ ledger' # ledger))
    BY <1>8 DEF RecordFails
  <2>2. TypeOK /\ meta \in Metas /\ GrowsBy(k)
    BY <1>8, <2>1, RecordFailsGrows DEF IInv, TypeOK, ProcessTypeOK
  <2>3. CASE ledger' = ledger
    <3>1. Lost' = Lost
      BY <2>1, <2>3 DEF Lost, DurableKeys
    <3> QED
      BY <2>1, <2>3, <3>1
  <2>4. CASE ledger' # ledger /\ tornTail
    <3>1. Lost = {}
      BY <1>8, <2>1, <2>4 DEF RecordFails
    <3>2. PICK a : DurableKeys \ {a} \subseteq DurableKeys'
      BY <2>2, GrowsCost
    <3>3. Lost' \subseteq {a, a}
      BY <2>1, <3>1, <3>2 DEF Lost
    <3> QED
      BY <2>1, <2>4, <3>3
  <2>5. CASE ~tornTail
    <3>1. Lost' \subseteq Lost
      BY <2>1, <2>2, <2>5, GrowsCost DEF Lost
    <3> QED
      BY <2>1, <2>5, <3>1
  <2> QED
    BY <2>3, <2>4, <2>5
<1>9. ASSUME NEW complete, WriteSummary(complete) PROVE LossInv'
  <2>1. UNCHANGED <<phase, fused, tornTail, encErr>> /\ Lost' = Lost
    BY <1>9 DEF WriteSummary, memory, Lost, DurableKeys
  <2> QED
    BY <2>1
<1>10. CASE UNCHANGED vars
  <2>1. UNCHANGED <<phase, fused, tornTail, encErr>> /\ Lost' = Lost
    BY <1>10 DEF vars, Lost, DurableKeys
  <2> QED
    BY <2>1
<1> QED
  BY <1>2, <1>3, <1>4, <1>5, <1>6, <1>7, <1>8, <1>9, <1>10 DEF Next

\* What Record accepted a replay finds again, unless the write landed on an unfinished
\* line; that costs two records at most, however many writes fail.
THEOREM LossIsBounded == Spec => []LossBounded
<1>1. IInv /\ LossInv => LossBounded
  <2> SUFFICES ASSUME LossInv, phase = "open"
               PROVE  /\ ~fused => done \subseteq DurableKeys
                      /\ Cardinality(Lost) <= 2
    BY DEF LossBounded, Lost
  <2>1. PICK a, b : Lost \subseteq {a, b}
    BY DEF LossInv
  <2>2. IsFiniteSet({a}) /\ Cardinality({a}) = 1
    BY FS_Singleton
  <2>3. /\ IsFiniteSet({a} \cup {b}) /\ Cardinality({a} \cup {b}) \in Nat
        /\ Cardinality({a} \cup {b}) <= 2
    BY <2>2, FS_AddElement
  <2>4. {a, b} = {a} \cup {b}
    OBVIOUS
  <2>5. Cardinality(Lost) <= Cardinality({a} \cup {b}) /\ Cardinality(Lost) \in Nat
    BY <2>1, <2>3, <2>4, FS_Subset, FS_CardinalityType
  <2>6. Cardinality(Lost) <= 2
    BY <2>3, <2>5
  <2> QED
    BY <2>6 DEF LossInv, Lost
<1>2. Init => LossInv
  BY LossInit
<1>3. IInv /\ LossInv /\ [Next]_vars => LossInv'
  BY LossStep
<1> QED
  BY <1>1, <1>2, <1>3, Invariance, PTL DEF Spec

-----------------------------------------------------------------------------
(* The session directory implements ResumeContract.                         *)

\* Object k has a line of target m.
OnRecord(m, k) == \E i \in 1..Len(ledger) : ledger[i].key = k /\ ledger[i].by = m

Times(m, k) == IF OnRecord(m, k) THEN 1 ELSE 0

LEMMA TimesOf ==
    ASSUME TypeOK, OneRecordPerObject, NEW m \in Metas, NEW k \in Keys
    PROVE  Recorded[m][k] = Times(m, k)
<1> DEFINE S == {i \in 1..Len(ledger) : ledger[i].key = k /\ ledger[i].by = m}
<1>1. Recorded[m][k] = Cardinality(S)
  BY DEF Recorded
<1>2. CASE OnRecord(m, k)
  <2>1. PICK i \in 1..Len(ledger) : ledger[i].key = k /\ ledger[i].by = m
    BY <1>2 DEF OnRecord
  <2>2. S = {i}
    BY <2>1, KeysAssumption DEF OneRecordPerObject
  <2>3. Cardinality(S) = 1
    BY <2>2, FS_Singleton
  <2> QED
    BY <1>1, <1>2, <2>3 DEF Times
<1>3. CASE ~OnRecord(m, k)
  <2>1. S = {}
    BY <1>3 DEF OnRecord
  <2> QED
    BY <1>1, <1>3, <2>1, FS_EmptySet DEF Times
<1> QED
  BY <1>2, <1>3

RecordedTimes == Recorded = [m \in Metas |-> [k \in Keys |-> Times(m, k)]]

LEMMA RecordedIs == TypeOK /\ OneRecordPerObject => RecordedTimes
BY TimesOf DEF Recorded, RecordedTimes

LEMMA RecordedIsNext == TypeOK' /\ OneRecordPerObject' => RecordedTimes'
BY RecordedIs, PTL

\* Lines are left unfinished only by a storage that tears writes.
TornInv == tornTail => TornWrites

\* A process writes a line for object k, all of it, or without newline.
Writes(k) ==
    /\ phase = "open" /\ phase' # "archive"
    /\ \E o \in Outcomes :
         \E line \in {[key |-> k, out |-> o, by |-> meta], Garbled} :
            ledger' = Appended(line)
    /\ tornTail' => TornWrites

\* What a step does to the ledger and its end.
DirStep ==
    \/ UNCHANGED <<ledger, tornTail>>
    \/ \E k \in pending : Writes(k)
    \/ phase = "archive" /\ phase' = "archive" /\ ledger' = <<>> /\ ~tornTail'

LEMMA CutShortWrites ==
    ASSUME phase = "open", phase' # "archive", NEW k, NEW o \in Outcomes, CutShort(k, o)
    PROVE  UNCHANGED <<ledger, tornTail>> \/ Writes(k)
BY DEF CutShort, Writes

LEMMA DirSteps == TypeOK /\ [Next]_vars => DirStep
<1> SUFFICES ASSUME TypeOK, [Next]_vars PROVE DirStep
  OBVIOUS
<1>1. CASE UNCHANGED <<ledger, tornTail>>
  BY <1>1 DEF DirStep
<1>2. CASE Archive
  <2>1. step \in 1..3
    BY DEF TypeOK, ProcessTypeOK
  <2>2. CASE step = 1
    BY <1>2, <2>2 DEF Archive, ArchiveOrder, DirStep
  <2>3. CASE step = 2 \/ step = 3
    BY <1>1, <1>2, <2>3 DEF Archive, ArchiveOrder
  <2> QED
    BY <2>1, <2>2, <2>3
<1>3. ASSUME NEW k \in Keys, NEW o \in Outcomes, Record(k, o) PROVE DirStep
  BY <1>3 DEF Record, Writes, DirStep
<1>4. ASSUME NEW k \in Keys, NEW o \in Outcomes, RecordFails(k, o) PROVE DirStep
  <2>1. phase = "open" /\ phase' # "archive" /\ k \in pending
    BY <1>4 DEF RecordFails
  <2>2. UNCHANGED <<ledger, tornTail>> \/ CutShort(k, o)
    BY <1>4 DEF RecordFails
  <2> QED
    BY <2>1, <2>2, CutShortWrites DEF DirStep
<1>5. CASE Crash
  <2>1. \/ UNCHANGED <<ledger, tornTail>>
        \/ phase = "open" /\ \E k \in pending, o \in Outcomes : CutShort(k, o)
    BY <1>5 DEF Crash, disk
  <2>2. phase' # "archive"
    BY <1>5 DEF Crash, Down
  <2> QED
    BY <2>1, <2>2, CutShortWrites DEF DirStep
<1> QED
  BY <1>1, <1>2, <1>3, <1>4, <1>5
  DEF Next, vars, disk, Start, Load, Refuse, WriteManifest, WriteSummary, Close

LEMMA TornStep == TypeOK /\ TornInv /\ [Next]_vars => TornInv'
BY DirSteps DEF TornInv, DirStep, Writes

\* A step of the contract.
ContractStep == [Contract!Next]_<<Recorded, phase = "archive", AtRisk>>

\* On an unfinished line, the write costs the object there, if there is one.
LEMMA TornWriteKeepsContract ==
    ASSUME IInv, ~ReadFaults, OneRecordPerObject', TypeOK', tornTail,
           NEW k \in pending, Writes(k)
    PROVE  ContractStep
<1>p. PICK last, q, t : last = Len(ledger) /\ q = ledger[last].key /\ t = meta
  OBVIOUS
<1>1. /\ TypeOK /\ t \in Metas /\ OneRecordPerObject /\ phase = "open"
      /\ phase' # "archive"
  BY <1>p DEF IInv, TypeOK, ProcessTypeOK, Writes
<1>2. \A i \in 1..last : ledger[i].by = t
  BY <1>p, <1>1, MetasAssumption DEF IInv, PhaseInv, SingleTarget
<1>3. /\ Recorded = [m \in Metas |-> [j \in Keys |-> Times(m, j)]]
      /\ Recorded' = [m \in Metas |-> [j \in Keys |-> Times(m, j)']]
  BY <1>1, RecordedIs, RecordedIsNext DEF RecordedTimes
<1>4. ledger \in Seq(Line) /\ last \in 1..last /\ q \in Keys \cup {None}
  <2>1. ledger \in Seq(Line) /\ ledger # <<>>
    BY <1>1 DEF TypeOK, DiskTypeOK
  <2>2. last \in 1..last /\ ledger[last] \in Line
    BY <1>p, <2>1
  <2> QED
    BY <1>p, <2>1, <2>2 DEF Line
<1>5. /\ Len(ledger') = last /\ ledger'[last].key = None
      /\ \A i \in 1..last : i # last => ledger'[i] = ledger[i]
  <2>1. ledger' = [ledger EXCEPT ![last] = Garbled]
    BY <1>p DEF Writes, Appended
  <2> QED
    BY <1>p, <1>4, <2>1 DEF Garbled
<1>6. AtRisk' = {}
  BY <1>p, <1>5 DEF AtRisk
<1>7. \A m \in Metas, j \in Keys : ~(m = t /\ j = q) => Times(m, j)' = Times(m, j)
  <2> SUFFICES ASSUME NEW m \in Metas, NEW j \in Keys, ~(m = t /\ j = q)
               PROVE  OnRecord(m, j)' <=> OnRecord(m, j)
    BY DEF Times
  <2>1. ASSUME NEW i \in 1..last PROVE (ledger'[i].key = j /\ ledger'[i].by = m)
                                         <=> (ledger[i].key = j /\ ledger[i].by = m)
    BY <1>p, <1>2, <1>4, <1>5, KeysAssumption
  <2> QED
    BY <1>p, <1>5, <2>1 DEF OnRecord
<1>8. CASE q = None
  <2>1. AtRisk = {}
    BY <1>p, <1>8 DEF AtRisk
  <2>2. Recorded' = Recorded
    BY <1>3, <1>7, <1>8, KeysAssumption
  <2> QED
    BY <1>1, <1>6, <2>1, <2>2 DEF ContractStep
<1>9. CASE q \in Keys
  <2>1. AtRisk = {<<t, q>>}
    BY <1>p, <1>2, <1>4, <1>9, KeysAssumption DEF AtRisk
  <2>2. ~OnRecord(t, q)'
    <3> SUFFICES ASSUME NEW i \in 1..last, ledger'[i].key = q PROVE FALSE
      BY <1>5 DEF OnRecord
    <3>1. i # last /\ ledger[i].key = q
      BY <1>5, <1>9, KeysAssumption
    <3> QED
      BY <1>p, <1>1, <1>4, <1>9, <3>1, KeysAssumption DEF OneRecordPerObject
  <2>3. Recorded' = [Recorded EXCEPT ![t][q] = 0]
    <3>1. Times(t, q)' = 0
      BY <2>2 DEF Times
    <3> QED
      BY <1>1, <1>3, <1>7, <1>9, <3>1
  <2>4. Contract!Forget(t, q)
    BY <1>1, <1>6, <2>1, <2>3 DEF Contract!Forget
  <2> QED
    BY <1>1, <1>9, <2>4 DEF ContractStep, Contract!Next
<1> QED
  BY <1>4, <1>8, <1>9

\* Behind a finished line, the write takes an object on record that has no line yet.
LEMMA WriteKeepsContract ==
    ASSUME IInv, ~ReadFaults, OneRecordPerObject', TypeOK', ~tornTail,
           NEW k \in pending, Writes(k)
    PROVE  ContractStep
<1>p. PICK t : t = meta
  OBVIOUS
<1>1. /\ TypeOK /\ t \in Metas /\ k \in Keys /\ k # None /\ OneRecordPerObject
      /\ phase = "open" /\ phase' # "archive" /\ k \notin DurableKeys
  BY <1>p, KeysAssumption DEF IInv, TypeOK, ProcessTypeOK, NoRescan, Writes
<1>2. \A i \in 1..Len(ledger) : ledger[i].by = t /\ ledger[i].key # k
  BY <1>p, <1>1, MetasAssumption DEF IInv, PhaseInv, SingleTarget, DurableKeys
<1>3. /\ Recorded = [m \in Metas |-> [j \in Keys |-> Times(m, j)]]
      /\ Recorded' = [m \in Metas |-> [j \in Keys |-> Times(m, j)']]
  BY <1>1, RecordedIs, RecordedIsNext DEF RecordedTimes
<1>o. PICK o \in Outcomes :
        \E line \in {[key |-> k, out |-> o, by |-> t], Garbled} :
            ledger' = Append(ledger, line)
  BY <1>p DEF Writes, Appended
<1>4. PICK line \in {[key |-> k, out |-> o, by |-> t], Garbled} :
        ledger' = Append(ledger, line)
  BY <1>o
<1>5. /\ ledger \in Seq(Line) /\ Len(ledger) \in Nat
      /\ Len(ledger') = Len(ledger) + 1 /\ ledger'[Len(ledger) + 1] = line
      /\ \A i \in 1..Len(ledger) : ledger'[i] = ledger[i]
  BY <1>1, <1>4 DEF TypeOK, DiskTypeOK
<1>6. AtRisk = {}
  BY DEF AtRisk
<1>7. \A m \in Metas, j \in Keys :
        OnRecord(m, j)' <=> OnRecord(m, j) \/ (line.key = j /\ line.by = m)
  <2> SUFFICES ASSUME NEW m \in Metas, NEW j \in Keys
               PROVE  OnRecord(m, j)' <=> OnRecord(m, j) \/ (line.key = j /\ line.by = m)
    OBVIOUS
  <2>1. 1..Len(ledger') = 1..Len(ledger) \cup {Len(ledger) + 1}
    BY <1>5
  <2> QED
    BY <1>5, <2>1 DEF OnRecord
<1>8. CASE line = Garbled
  <2>1. line.key = None
    BY <1>8 DEF Garbled
  <2>2. AtRisk' = {}
    BY <1>5, <2>1 DEF AtRisk
  <2>3. Recorded' = Recorded
    BY <1>3, <1>7, <2>1, KeysAssumption DEF Times
  <2> QED
    BY <1>1, <1>6, <2>2, <2>3 DEF ContractStep
<1>9. CASE line = [key |-> k, out |-> o, by |-> t]
  <2>1. line.key = k /\ line.by = t
    BY <1>9
  <2>2. ~OnRecord(t, k)
    BY <1>2 DEF OnRecord
  <2>3. Recorded[t][k] = 0
    BY <1>1, <1>3, <2>2 DEF Times
  <2>4. Recorded' = [Recorded EXCEPT ![t][k] = 1]
    <3>1. Times(t, k)' = 1
      BY <1>1, <1>7, <2>1 DEF Times
    <3>2. \A m \in Metas, j \in Keys : ~(m = t /\ j = k) => Times(m, j)' = Times(m, j)
      BY <1>7, <2>1 DEF Times
    <3> QED
      BY <1>1, <1>3, <3>1, <3>2
  <2>5. \A n \in Metas \ {t}, j \in Keys : Recorded[n][j] = 0
    BY <1>2, <1>3 DEF Times, OnRecord
  <2>6. AtRisk' = {} \/ (TornWrites /\ AtRisk' = {<<t, k>>})
    BY <1>1, <1>5, <2>1 DEF AtRisk, Writes
  <2>7. Contract!Finish(t, k)
    BY <1>1, <1>6, <2>3, <2>4, <2>5, <2>6 DEF Contract!Finish, Contract!Serves
  <2> QED
    BY <1>1, <2>7 DEF ContractStep, Contract!Next
<1> QED
  BY <1>4, <1>8, <1>9

\* On storage that reads back what it holds, every run of the processes on a directory
\* is a run of the contract: a resumed scan adds objects that have no record, loses at
\* most the one on an unfinished last line, and only --fresh starts over.
THEOREM DirectoryKeepsContract == ASSUME ~ReadFaults PROVE Spec => KeepsContract
<1>1. Init => Contract!Init /\ TornInv
  <2> SUFFICES ASSUME Init PROVE Contract!Init /\ TornInv
    OBVIOUS
  <2>1. /\ ledger = <<>> /\ ~tornTail /\ phase = "down" /\ TypeOK
        /\ OneRecordPerObject
    BY TypeInit DEF Init, OneRecordPerObject
  <2>2. \A m \in Metas, k \in Keys : Times(m, k) = 0
    BY <2>1 DEF Times, OnRecord
  <2>3. Recorded = [m \in Metas |-> [k \in Keys |-> 0]]
    BY <2>1, <2>2, RecordedIs DEF RecordedTimes
  <2> QED
    BY <2>1, <2>3 DEF Contract!Init, Contract!Nothing, AtRisk, TornInv
<1>2. IInv /\ IInv' /\ TornInv /\ [Next]_vars => ContractStep
  <2> SUFFICES ASSUME IInv, IInv', TornInv, [Next]_vars PROVE ContractStep
    OBVIOUS
  <2>1. TypeOK /\ TypeOK' /\ OneRecordPerObject'
    BY DEF IInv
  <2>2. CASE UNCHANGED <<ledger, tornTail>>
    <3>1. Recorded' = Recorded /\ AtRisk' = AtRisk
      BY <2>2 DEF Recorded, AtRisk
    <3>2. CASE (phase = "archive")' = (phase = "archive")
      BY <3>1, <3>2 DEF ContractStep
    <3>3. CASE (phase = "archive")' # (phase = "archive")
      <4>1. Contract!BeginFresh \/ Contract!EndFresh
        BY <3>1, <3>3 DEF Contract!BeginFresh, Contract!EndFresh
      <4> QED
        BY <4>1 DEF ContractStep, Contract!Next
    <3> QED
      BY <3>2, <3>3
  <2>3. CASE \E k \in pending : Writes(k)
    BY <2>1, <2>3, TornWriteKeepsContract, WriteKeepsContract
  <2>4. CASE phase = "archive" /\ phase' = "archive" /\ ledger' = <<>> /\ ~tornTail'
    <3>1. \A m \in Metas, k \in Keys : Times(m, k)' = 0
      BY <2>4 DEF Times, OnRecord
    <3>2. Recorded' = [m \in Metas |-> [k \in Keys |-> 0]]
      BY <2>1, <3>1, RecordedIsNext DEF RecordedTimes
    <3>3. AtRisk' = {}
      BY <2>4 DEF AtRisk
    <3>4. Contract!StartOver
      BY <2>4, <3>2, <3>3 DEF Contract!StartOver, Contract!Nothing
    <3> QED
      BY <3>4 DEF ContractStep, Contract!Next
  <2> QED
    BY <2>1, <2>2, <2>3, <2>4, DirSteps DEF DirStep
<1>3. IInv /\ TornInv /\ [Next]_vars => TornInv'
  BY TornStep DEF IInv
<1>4. IInv /\ [Next]_vars => IInv'
  BY IInvStep
<1> QED
  BY <1>1, <1>2, <1>3, <1>4, IInvInit, PTL
  DEF Spec, KeepsContract, Contract!Spec, Contract!vars, ContractStep

-----------------------------------------------------------------------------
(* The counters.                                                            *)

Total == rep["scanned"] + rep["skipped"] + rep["error"]

AggInv ==
    /\ phase \in {"down", "archive", "load"} => rep = ZeroRep
    /\ phase = "open" => pending \cap done = {}
    /\ Total = Cardinality(done)
    /\ phase \in {"manifest", "open"} /\ ~encErr /\ ~fused =>
            \A c \in Outcomes : rep[c] = Cardinality(Parsed(c))

LEMMA ParsedFinite ==
    ASSUME TypeOK, NEW c PROVE IsFiniteSet(Parsed(c)) /\ Cardinality(Parsed(c)) \in Nat
<1>1. IsFiniteSet(1..Len(ledger)) /\ Parsed(c) \subseteq 1..Len(ledger)
  BY FS_Interval DEF Parsed, TypeOK, DiskTypeOK
<1> QED
  BY <1>1, FS_Subset, FS_CardinalityType

LEMMA DoneFinite == ASSUME TypeOK PROVE IsFiniteSet(done) /\ Cardinality(done) \in Nat
<1>1. done \in SUBSET Keys /\ IsFiniteSet(Keys)
  BY KeysAssumption DEF TypeOK, ProcessTypeOK
<1> QED
  BY <1>1, FS_Subset, FS_CardinalityType

LEMMA DisjointUnion ==
    ASSUME NEW S, NEW T, IsFiniteSet(S), IsFiniteSet(T), S \cap T = {}
    PROVE  /\ IsFiniteSet(S \cup T)
           /\ Cardinality(S \cup T) = Cardinality(S) + Cardinality(T)
<1>1. Cardinality(S \cap T) = 0
  BY FS_EmptySet
<1> QED
  BY <1>1, FS_Union, FS_CardinalityType

\* A replay of the whole ledger counts each object once: a line that parses has a counter
\* of its own and an object of its own.
LEMMA ReplayCounts ==
    ASSUME TypeOK, OneRecordPerObject
    PROVE  /\ \A c \in Outcomes : ReplayRep(Len(ledger))[c] = Cardinality(Parsed(c))
           /\ Cardinality(Parsed("scanned")) + Cardinality(Parsed("skipped"))
              + Cardinality(Parsed("error")) = Cardinality(ReplayDone(Len(ledger)))
<1> DEFINE P == {i \in 1..Len(ledger) : ledger[i].key # None}
<1> DEFINE D == ReplayDone(Len(ledger))
<1>1. ledger \in Seq(Line) /\ Len(ledger) \in Nat
  BY DEF TypeOK, DiskTypeOK
<1>2. \A c \in Outcomes : {i \in Parsed(c) : i <= Len(ledger)} = Parsed(c)
  BY <1>1 DEF Parsed
<1>3. \A c \in Outcomes : ReplayRep(Len(ledger))[c] = Cardinality(Parsed(c))
  BY <1>2 DEF ReplayRep
<1>4. /\ P = (Parsed("scanned") \cup Parsed("skipped")) \cup Parsed("error")
      /\ Parsed("scanned") \cap Parsed("skipped") = {}
      /\ (Parsed("scanned") \cup Parsed("skipped")) \cap Parsed("error") = {}
  <2>1. ASSUME NEW i \in 1..Len(ledger) PROVE ledger[i].out \in Outcomes
    <3>1. ledger[i] \in Line
      BY <1>1
    <3> QED
      BY <3>1 DEF Line
  <2> QED
    BY <2>1 DEF Parsed
<1>5. IsFiniteSet(P) /\ Cardinality(P) = Cardinality(Parsed("scanned"))
          + Cardinality(Parsed("skipped")) + Cardinality(Parsed("error"))
  <2>1. /\ IsFiniteSet(Parsed("scanned") \cup Parsed("skipped"))
        /\ Cardinality(Parsed("scanned") \cup Parsed("skipped"))
              = Cardinality(Parsed("scanned")) + Cardinality(Parsed("skipped"))
    BY <1>4, ParsedFinite, DisjointUnion
  <2> DEFINE U == Parsed("scanned") \cup Parsed("skipped")
  <2>2. P = U \cup Parsed("error") /\ U \cap Parsed("error") = {}
    BY <1>4
  <2>3. IsFiniteSet(Parsed("error")) /\ IsFiniteSet(U)
    BY <2>1, ParsedFinite
  <2> HIDE DEF U, P
  <2>4. /\ IsFiniteSet(U \cup Parsed("error"))
        /\ Cardinality(U \cup Parsed("error")) = Cardinality(U) + Cardinality(Parsed("error"))
    BY <2>2, <2>3, DisjointUnion
  <2> QED
    BY <2>1, <2>2, <2>4 DEF U
<1>6. Cardinality(D) = Cardinality(P)
  <2> DEFINE key == [i \in P |-> ledger[i].key]
  <2>1. D = {ledger[i].key : i \in P}
    BY <1>1 DEF ReplayDone
  <2>2. \A i, j \in P : key[i] = key[j] => i = j
    BY DEF OneRecordPerObject
  <2>3. key \in [P -> D] /\ \A d \in D : \E i \in P : key[i] = d
    BY <2>1
  <2> HIDE DEF P, D, key
  <2>4. key \in Bijection(P, D)
    BY <2>2, <2>3, Fun_IsBij
  <2>5. ExistsBijection(P, D)
    BY <2>4 DEF ExistsBijection
  <2> QED
    BY <1>5, <2>5, FS_Bijection
<1> QED
  BY <1>3, <1>5, <1>6

LEMMA AggInit == Init => AggInv
<1> SUFFICES ASSUME Init PROVE AggInv
  OBVIOUS
<1>1. done = {} /\ rep = ZeroRep /\ phase = "down"
  BY DEF Init
<1>2. Total = 0
  BY <1>1 DEF Total, ZeroRep
<1> QED
  BY <1>1, <1>2, FS_EmptySet DEF AggInv

LEMMA AggStep == ~ReadFaults /\ IInv /\ LossInv /\ AggInv /\ [Next]_vars => AggInv'
<1> SUFFICES ASSUME ~ReadFaults, IInv, LossInv, AggInv, [Next]_vars PROVE AggInv'
  OBVIOUS
<1> TypeOK
  BY DEF IInv
\* The process holds nothing.
<1>1. ASSUME phase' \in {"down", "archive", "load"}, done' = {}, rep' = ZeroRep PROVE AggInv'
  <2>1. Total' = 0
    BY <1>1 DEF Total, ZeroRep
  <2> QED
    BY <1>1, <2>1, FS_EmptySet DEF AggInv
\* The memory stays, and so do the lines.
<1>2. ASSUME UNCHANGED <<ledger, done, rep, fused>>, encErr => encErr',
             phase' \in {"manifest", "open"} => phase \in {"manifest", "open"},
             phase' \in {"down", "archive", "load"} => rep' = ZeroRep,
             phase' = "open" => pending' \cap done = {}
      PROVE  AggInv'
  <2>1. Total' = Total /\ \A c \in Outcomes : Parsed(c)' = Parsed(c)
    BY <1>2 DEF Total, Parsed
  <2> QED
    BY <1>2, <2>1 DEF AggInv
<1>3. ASSUME NEW m, NEW fresh \in BOOLEAN, NEW L, Start(m, fresh, L) PROVE AggInv'
  BY <1>1, <1>3 DEF Start, IInv, PhaseInv, AggInv
<1>4. CASE Archive
  <2>1. /\ phase = "archive" /\ phase' \in {"archive", "load"} /\ UNCHANGED <<done, rep>>
    BY <1>4 DEF Archive, memory
  <2> QED
    BY <1>1, <2>1 DEF IInv, PhaseInv, AggInv
<1>5. CASE Load
  <2>1. /\ phase = "load" /\ phase' = "manifest" /\ UNCHANGED <<ledger, encErr, fused>>
    BY <1>5 DEF Load
  <2>2. \A c \in Outcomes : Parsed(c)' = Parsed(c)
    BY <2>1 DEF Parsed
  <2>3. CASE manifest = None /\ UNCHANGED <<done, rep, resumed>>
    <3>1. ledger = <<>> /\ done' = {} /\ rep' = ZeroRep
      BY <2>1, <2>3 DEF IInv, ManifestGuardsLedger, PhaseInv, AggInv
    <3>2. \A c \in Outcomes : Parsed(c) = {}
      BY <3>1 DEF Parsed
    <3>3. Total' = 0 /\ \A c \in Outcomes : rep'[c] = 0
      BY <3>1 DEF Total, ZeroRep
    <3> QED
      BY <2>1, <2>2, <3>1, <3>2, <3>3, FS_EmptySet DEF AggInv
  <2>4. CASE \E n \in Readable : done' = ReplayDone(n) /\ rep' = ReplayRep(n)
    <3>1. done' = ReplayDone(Len(ledger)) /\ rep' = ReplayRep(Len(ledger))
      BY <2>4 DEF Readable
    <3>2. OneRecordPerObject
      BY DEF IInv
    <3>3. /\ \A c \in Outcomes : rep'[c] = Cardinality(Parsed(c))
          /\ Total' = Cardinality(done')
      BY <3>1, <3>2, ReplayCounts DEF Total
    <3> QED
      BY <2>1, <2>2, <3>3 DEF AggInv
  <2> QED
    BY <1>5, <2>3, <2>4 DEF Load
<1>6. CASE Refuse \/ Close \/ Crash
  BY <1>1, <1>6 DEF Refuse, Close, Crash, Down
<1>7. CASE WriteManifest
  <2>1. pending' \cap done = {}
    BY <1>7 DEF WriteManifest, Remaining, IInv, PhaseInv
  <2> QED
    BY <1>2, <1>7, <2>1 DEF WriteManifest
<1>8. ASSUME NEW k \in Keys, NEW o \in Outcomes, Record(k, o) PROVE AggInv'
  <2>1. /\ phase = "open" /\ phase' = "open" /\ k \in pending /\ ~encErr
        /\ done' = done \cup {k} /\ rep' = [rep EXCEPT ![o] = @ + 1]
        /\ pending' = pending \ {k} /\ fused' = (fused \/ tornTail)
    BY <1>8 DEF Record
  <2>2. k \notin done /\ pending' \cap done' = {}
    BY <2>1 DEF AggInv
  <2>3. rep \in [Outcomes -> Nat]
    BY DEF TypeOK, ProcessTypeOK
  <2>4. Total' = Total + 1
    BY <2>1, <2>3 DEF Total
  <2>5. Total' = Cardinality(done')
    BY <2>1, <2>2, <2>4, DoneFinite, FS_AddElement DEF AggInv
  <2>6. ASSUME ~fused', NEW c \in Outcomes PROVE rep'[c] = Cardinality(Parsed(c)')
    <3> DEFINE line == [key |-> k, out |-> o, by |-> meta]
    <3>1. line \in Line /\ k # None /\ ledger \in Seq(Line) /\ Len(ledger) \in Nat
      BY <2>1, KeysAssumption DEF Line, TypeOK, DiskTypeOK, ProcessTypeOK
    <3>2. ledger' = Append(ledger, line)
      BY <1>8, <2>1, <2>6 DEF Record, Appended
    <3>3. line.key = k /\ line.out = o
      OBVIOUS
    <3> HIDE DEF line
    <3>4. /\ Len(ledger') = Len(ledger) + 1 /\ ledger'[Len(ledger) + 1] = line
          /\ \A i \in 1..Len(ledger) : ledger'[i] = ledger[i]
      BY <3>1, <3>2
    <3>5. Parsed(c)' = IF c = o THEN Parsed(c) \cup {Len(ledger) + 1} ELSE Parsed(c)
      BY <3>1, <3>3, <3>4 DEF Parsed
    <3>6. Len(ledger) + 1 \notin Parsed(c)
      BY <3>1 DEF Parsed
    <3>7. Cardinality(Parsed(c)') = IF c = o THEN Cardinality(Parsed(c)) + 1
                                    ELSE Cardinality(Parsed(c))
      BY <3>5, <3>6, ParsedFinite, FS_AddElement
    <3>8. rep[c] = Cardinality(Parsed(c))
      BY <2>1, <2>6 DEF AggInv
    <3> QED
      BY <2>1, <2>3, <3>7, <3>8
  <2> QED
    BY <2>1, <2>2, <2>5, <2>6 DEF AggInv
<1>9. ASSUME NEW k \in Keys, NEW o \in Outcomes, RecordFails(k, o) PROVE AggInv'
  <2>1. /\ phase = "open" /\ phase' = "open" /\ encErr' /\ UNCHANGED <<done, rep>>
        /\ pending' = pending \ {k}
    BY <1>9 DEF RecordFails
  <2>2. Total' = Total
    BY <2>1 DEF Total
  <2> QED
    BY <2>1, <2>2 DEF AggInv
<1>10. ASSUME NEW complete, WriteSummary(complete) PROVE AggInv'
  BY <1>2, <1>10 DEF WriteSummary, memory, AggInv
<1>11. CASE UNCHANGED vars
  BY <1>2, <1>11 DEF vars, AggInv
<1> QED
  BY <1>3, <1>4, <1>5, <1>6, <1>7, <1>8, <1>9, <1>10, <1>11 DEF Next

\* On storage that reads back what it holds, the counters of the summary add up to the
\* objects done over any number of crashes and resumes, and agree with the ledger line
\* for line until a write fails or lands on an unfinished line.
THEOREM CountersAgree == ASSUME ~ReadFaults PROVE Spec => []AggregateMatchesLedger
<1>1. AggInv => AggregateMatchesLedger
  BY DEF AggInv, AggregateMatchesLedger, Total
<1>2. Init => AggInv /\ LossInv
  BY AggInit, LossInit
<1>3. IInv /\ LossInv /\ AggInv /\ [Next]_vars => LossInv' /\ AggInv'
  BY LossStep, AggStep
<1> QED
  BY <1>1, <1>2, <1>3, Invariance, PTL DEF Spec

=============================================================================
