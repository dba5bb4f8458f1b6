--------------------------- MODULE LedgerSyncProofs ---------------------------
(***************************************************************************)
(* What a power failure takes from the ledger, for every batch size and    *)
(* any number of writes, processes, kills and power failures, where syncs  *)
(* work.                                                                   *)
(***************************************************************************)
EXTENDS LedgerSync, FiniteSetTheorems, TLAPS

\* A record that nothing can take any more: synced, with its newline, behind one.
Kept(k) == k \in 1..synced /\ ledger[k] = Whole /\ Begins(k)

\* The records of the last process that may go: those behind the latest sync, which
\* writes counts, and x, its first record if that went onto an unfinished line.
Batch(l, x) == \A k \in accepted : Kept(k) \/ k \in (l + 1)..(l + writes) \/ k = x

Written(x) ==
    open => \A k \in accepted :
              k \in 1..Len(ledger) /\ ledger[k] = Whole /\ (Begins(k) \/ k = x)

AtEnd(l) ==
    open /\ ~stuck => /\ l + writes = Len(ledger)
                      /\ accepted # {} => Begins(Len(ledger) + 1)

BatchInv == \E l, x \in Nat : Batch(l, x) /\ Written(x) /\ AtEnd(l)

\* The records of a closed ledger are synced; only the last of them may lack its newline.
ClosedInv ==
    \A k \in closed :
        /\ k \in 1..synced /\ ledger[k].parses /\ Begins(k)
        /\ ~ledger[k].ends => \A j \in closed : j <= k

IInv == TypeOK /\ BatchInv /\ ClosedInv

\* What every step does to the file: the synced part of it stays as it is.
SyncedStays ==
    /\ synced' \in 0..Len(ledger') /\ synced <= synced'
    /\ \A k \in 1..synced : ledger'[k] = ledger[k]

-----------------------------------------------------------------------------
(* The steps on the file.                                                   *)

LEMMA CutIsWrite == Cut \subseteq Write /\ Whole \in Write
BY DEF Cut, Write, Whole

\* Appending a write leaves the ones before it.
LEMMA AppendStays ==
    ASSUME TypeOK, NEW w \in Write, ledger' = Append(ledger, w)
    PROVE  /\ ledger' \in Seq(Write) /\ Len(ledger') = Len(ledger) + 1
           /\ ledger'[Len(ledger) + 1] = w
           /\ \A k \in 1..Len(ledger) : ledger'[k] = ledger[k]
BY DEF TypeOK

\* A power failure keeps the synced writes.
LEMMA PowerStays == TypeOK /\ PowerFails => SyncedStays /\ ledger' \in Seq(Write)
<1> SUFFICES ASSUME TypeOK, PowerFails PROVE SyncedStays /\ ledger' \in Seq(Write)
  OBVIOUS
<1>1. PICK n \in synced..Len(ledger) :
        \E noText, noEnd \in SUBSET ((synced + 1)..n) :
            /\ ledger' = [k \in 1..n |-> [parses |-> ledger[k].parses /\ k \notin noText,
                                          ends   |-> ledger[k].ends /\ k \notin noEnd]]
            /\ synced' = n
  BY DEF PowerFails
<1>2. PICK noText, noEnd \in SUBSET ((synced + 1)..n) :
            /\ ledger' = [k \in 1..n |-> [parses |-> ledger[k].parses /\ k \notin noText,
                                          ends   |-> ledger[k].ends /\ k \notin noEnd]]
            /\ synced' = n
  BY <1>1
<1>3. /\ n \in Nat /\ synced \in 0..Len(ledger) /\ Len(ledger) \in Nat
      /\ \A k \in 1..Len(ledger) : ledger[k] \in Write
  BY DEF TypeOK
<1>4. ledger' \in [1..n -> Write]
  BY <1>2 DEF Write
<1>5. ledger' \in Seq(Write) /\ Len(ledger') = n
  BY <1>3, <1>4
<1>6. ASSUME NEW k \in 1..synced PROVE ledger'[k] = ledger[k]
  <2>1. k \in 1..n /\ k \in 1..Len(ledger) /\ k \notin noText /\ k \notin noEnd
    BY <1>1, <1>2, <1>3
  <2>2. ledger'[k] = [parses |-> ledger[k].parses, ends |-> ledger[k].ends]
    BY <1>2, <2>1, <1>3 DEF Write
  <2> QED
    BY <1>3, <2>1, <2>2 DEF Write
<1>7. synced' = n /\ synced <= n
  BY <1>2, <1>3
<1> QED
  BY <1>3, <1>5, <1>6, <1>7 DEF SyncedStays

\* So does every other step.
LEMMA FileStep ==
    ASSUME ~SyncFaults, TypeOK, [Next]_vars
    PROVE  SyncedStays /\ ledger' \in Seq(Write)
<1>1. /\ synced \in 0..Len(ledger) /\ Len(ledger) \in Nat /\ ledger \in Seq(Write)
  BY DEF TypeOK
<1>2. CASE UNCHANGED ledger /\ UNCHANGED synced
  BY <1>1, <1>2 DEF SyncedStays
<1>3. CASE UNCHANGED synced /\ \E w \in Write : ledger' = Append(ledger, w)
  BY <1>1, <1>3, AppendStays DEF SyncedStays
<1>4. CASE Record
  <2>1. ledger' = Append(ledger, Whole)
    BY <1>4 DEF Record
  <2>2. synced' = synced \/ synced' = Len(ledger')
    BY <1>4 DEF Record, AfterSync
  <2> QED
    BY <1>1, <2>1, <2>2, AppendStays, CutIsWrite DEF SyncedStays
<1>5. CASE Close
  BY <1>1, <1>5 DEF Close, AfterSync, SyncedStays
<1>6. CASE Open \/ WriteSummary \/ UNCHANGED vars
  BY <1>2, <1>6 DEF Open, WriteSummary, vars, file
<1>7. CASE RecordFails
  BY <1>2, <1>3, <1>7, CutIsWrite DEF RecordFails
<1>8. CASE Kill
  BY <1>2, <1>3, <1>8, CutIsWrite DEF Kill
<1>9. CASE PowerFails
  BY <1>9, PowerStays
<1> QED
  BY <1>4, <1>5, <1>6, <1>7, <1>8, <1>9 DEF Next

\* What is kept stays kept.
LEMMA KeptStep ==
    ASSUME TypeOK, SyncedStays, NEW k, Kept(k)
    PROVE  Kept(k)'
BY DEF TypeOK, SyncedStays, Kept, Begins

-----------------------------------------------------------------------------
(* The invariant.                                                           *)

LEMMA TypeStep ==
    ASSUME ~SyncFaults, TypeOK, [Next]_vars PROVE TypeOK'
<1>1. ledger' \in Seq(Write) /\ synced' \in 0..Len(ledger')
  BY FileStep DEF SyncedStays
<1>2. SyncEvery \in Nat \ {0}
  BY SyncEveryAssumption
<1>3. writes' \in 0..(SyncEvery - 1)
  <2>1. CASE Record
    BY <1>2, <2>1 DEF TypeOK, Record, Due
  <2>2. CASE Open
    BY <1>2, <2>2 DEF TypeOK, Open
  <2> QED
    BY <2>1, <2>2 DEF TypeOK, Next, vars, RecordFails, WriteSummary, Close, Kill, PowerFails
<1>4. accepted' \in SUBSET Nat
  <2>1. CASE Record
    <3>1. accepted' = accepted \cup {Len(ledger')} /\ Len(ledger') \in Nat
      BY <1>1, <2>1 DEF Record
    <3> QED
      BY <3>1 DEF TypeOK
  <2> QED
    BY <2>1 DEF TypeOK, Next, vars, Open, RecordFails, WriteSummary, Close, Kill, PowerFails
<1>5. closed' \in SUBSET Nat
  <2>1. CASE Close
    BY <2>1 DEF TypeOK, Close, Found
  <2> QED
    BY <2>1 DEF TypeOK, Next, vars, Open, Record, RecordFails, WriteSummary, Kill, PowerFails
<1>6. open' \in BOOLEAN /\ stuck' \in BOOLEAN /\ claimed' \in BOOLEAN
  BY Zenon DEF TypeOK, Next, vars, Open, Record, RecordFails, WriteSummary, Close, Kill,
     PowerFails
<1> QED
  BY <1>1, <1>3, <1>4, <1>5, <1>6 DEF TypeOK

\* A record adds one to the batch, or a sync leaves nothing of it.
LEMMA RecordBatch ==
    ASSUME ~SyncFaults, TypeOK, BatchInv, Record PROVE BatchInv'
<1>1. PICK l, x \in Nat : Batch(l, x) /\ Written(x) /\ AtEnd(l)
  BY DEF BatchInv
<1>new. PICK new : new = Len(ledger) + 1
  OBVIOUS
<1>y. PICK y : y = IF Begins(new) THEN x ELSE new
  OBVIOUS
<1>2. /\ new \in Nat /\ new > Len(ledger) /\ new # 0
      /\ Len(ledger) \in Nat /\ synced \in 0..Len(ledger) /\ writes \in Nat
      /\ SyncEvery \in Nat
  BY <1>new, SyncEveryAssumption DEF TypeOK
<1>3. /\ ledger' = Append(ledger, Whole) /\ open' /\ open /\ ~stuck
      /\ accepted' = accepted \cup {Len(ledger')}
  BY DEF Record
<1>4. /\ Len(ledger') = new /\ ledger'[new] = Whole
      /\ \A k \in 1..Len(ledger) : ledger'[k] = ledger[k]
  BY <1>new, <1>3, AppendStays, CutIsWrite
<1>5. /\ l + writes = Len(ledger)
      /\ accepted # {} => Begins(new)
      /\ y \in Nat
  BY <1>1, <1>2, <1>3, <1>new, <1>y DEF AtEnd
<1>6. Begins(new)' = Begins(new)
  BY <1>2, <1>4, <1>new DEF Begins
<1>7. Written(y)'
  <2> SUFFICES ASSUME NEW k \in accepted'
               PROVE  (k \in 1..Len(ledger) /\ ledger[k] = Whole /\ (Begins(k) \/ k = y))'
    BY DEF Written
  <2>1. CASE k = new
    BY <1>2, <1>4, <1>6, <1>new, <1>y, <2>1
  <2>2. CASE k \in accepted
    <3>1. k \in 1..Len(ledger) /\ ledger[k] = Whole /\ (Begins(k) \/ k = x) /\ y = x
      BY <1>1, <1>3, <1>5, <1>y, <2>2 DEF Written
    <3> QED
      BY <1>2, <1>4, <1>new, <3>1 DEF Begins
  <2> QED
    BY <1>3, <1>4, <2>1, <2>2
<1>8. Begins(Len(ledger) + 1)'
  BY <1>2, <1>4, <1>new DEF Begins, Whole
<1>9. CASE Due(writes + 1)
  <2>1. writes' = 0 /\ synced' = new
    BY <1>4, <1>9 DEF Record, AfterSync
  <2>2. AtEnd(new)'
    BY <1>2, <1>4, <1>8, <2>1 DEF AtEnd
  <2>3. Batch(new, y)'
    BY <1>2, <1>3, <1>4, <1>7, <2>1 DEF Batch, Written, Kept
  <2> QED
    BY <1>2, <1>5, <1>7, <2>2, <2>3 DEF BatchInv
<1>10. CASE ~Due(writes + 1)
  <2>1. writes' = writes + 1 /\ synced' = synced
    BY <1>10 DEF Record
  <2>2. AtEnd(l)'
    BY <1>2, <1>4, <1>5, <1>8, <1>new, <2>1 DEF AtEnd
  <2>3. Batch(l, y)'
    <3> SUFFICES ASSUME NEW k \in accepted'
                 PROVE  Kept(k)' \/ k \in (l + 1)..(l + writes') \/ k = y
      BY DEF Batch
    <3>1. CASE k = new
      BY <1>1, <1>2, <1>5, <1>new, <2>1, <3>1
    <3>2. CASE k \in accepted
      <4>1. y = x
        BY <1>5, <1>y, <3>2
      <4>2. SyncedStays
        BY FileStep DEF Next
      <4> QED
        BY <1>1, <1>2, <2>1, <3>2, <4>1, <4>2, KeptStep DEF Batch
    <3> QED
      BY <1>3, <1>4, <3>1, <3>2
  <2> QED
    BY <1>1, <1>5, <1>7, <2>2, <2>3 DEF BatchInv
<1> QED
  BY <1>9, <1>10

LEMMA BatchStep ==
    ASSUME ~SyncFaults, TypeOK, BatchInv, [Next]_vars PROVE BatchInv'
<1>1. PICK l, x \in Nat : Batch(l, x) /\ Written(x) /\ AtEnd(l)
  BY DEF BatchInv
<1>2. /\ Len(ledger) \in Nat /\ synced \in 0..Len(ledger) /\ writes \in Nat
  BY DEF TypeOK
<1>3. SyncedStays
  BY FileStep
<1>4. CASE Open
  <2>1. accepted' = {} /\ writes' = 0 /\ ledger' = ledger
    BY <1>4 DEF Open, file
  <2>2. Batch(Len(ledger), 0)' /\ Written(0)' /\ AtEnd(Len(ledger))'
    BY <1>2, <2>1 DEF Batch, Written, AtEnd
  <2> QED
    BY <1>2, <2>1, <2>2 DEF BatchInv
<1>5. CASE Record
  BY <1>5, RecordBatch
<1>6. CASE /\ accepted' = accepted /\ writes' = writes
           /\ Written(x)' /\ AtEnd(l)'
  <2>1. Batch(l, x)'
    BY <1>1, <1>3, <1>6, KeptStep DEF Batch
  <2> QED
    BY <1>6, <2>1 DEF BatchInv
<1>7. CASE RecordFails
  <2>1. Written(x)'
    <3>1. CASE ledger' = ledger
      BY <1>1, <1>7, <3>1 DEF RecordFails, Written, Begins
    <3>2. CASE \E w \in Cut : ledger' = Append(ledger, w)
      <4>1. /\ Len(ledger') = Len(ledger) + 1
            /\ \A k \in 1..Len(ledger) : ledger'[k] = ledger[k]
        BY <3>2, AppendStays, CutIsWrite
      <4> QED
        BY <1>1, <1>2, <1>7, <4>1 DEF RecordFails, Written, Begins
    <3> QED
      BY <1>7, <3>1, <3>2 DEF RecordFails
  <2> QED
    BY <1>6, <1>7, <2>1 DEF RecordFails, AtEnd
<1>8. CASE WriteSummary \/ UNCHANGED vars
  BY <1>1, <1>6, <1>8 DEF WriteSummary, vars, file, Written, AtEnd, Begins
<1>9. CASE Close \/ Kill \/ PowerFails
  BY <1>6, <1>9 DEF Close, Kill, PowerFails, Written, AtEnd
<1> QED
  BY <1>4, <1>5, <1>7, <1>8, <1>9 DEF Next

\* Close syncs what the replay would find, and only the last line may lack a newline.
LEMMA ClosedStep ==
    ASSUME ~SyncFaults, TypeOK, ClosedInv, [Next]_vars PROVE ClosedInv'
<1>1. SyncedStays /\ synced \in 0..Len(ledger) /\ Len(ledger) \in Nat
  BY FileStep DEF TypeOK
<1>2. CASE Close
  <2>1. closed' = Found /\ synced' = Len(ledger) /\ ledger' = ledger
    BY <1>2 DEF Close, AfterSync
  <2> QED
    BY <1>1, <2>1 DEF ClosedInv, Found, Begins
<1>3. CASE closed' = closed
  BY <1>1, <1>3 DEF ClosedInv, SyncedStays, Begins
<1> QED
  BY <1>2, <1>3 DEF Next, vars, Open, Record, RecordFails, WriteSummary, Kill, PowerFails

\* The strengthened invariant holds in every reachable state.
THEOREM Invariance == ASSUME ~SyncFaults PROVE Spec => []IInv
<1>1. Init => IInv
  <2> SUFFICES ASSUME Init PROVE IInv
    OBVIOUS
  <2>1. TypeOK
    <3>1. ledger \in Seq(Write) /\ synced \in 0..Len(ledger)
      BY DEF Init
    <3>2. writes \in 0..(SyncEvery - 1)
      BY SyncEveryAssumption DEF Init
    <3> QED
      BY <3>1, <3>2 DEF Init, TypeOK
  <2>2. Batch(0, 0) /\ Written(0) /\ AtEnd(0)
    BY DEF Init, Batch, Written, AtEnd
  <2> QED
    BY <2>1, <2>2 DEF IInv, Init, BatchInv, ClosedInv
<1>2. IInv /\ [Next]_vars => IInv'
  BY TypeStep, BatchStep, ClosedStep DEF IInv
<1> QED
  BY <1>1, <1>2, PTL DEF Spec

-----------------------------------------------------------------------------
(* The two properties.                                                      *)

\* What is not kept is in the batch, or is the one record on the unfinished line.
LEMMA BatchBounds == TypeOK /\ BatchInv => LossPerRun
<1> SUFFICES ASSUME TypeOK, BatchInv PROVE LossPerRun
  OBVIOUS
<1>1. PICK l, x \in Nat : Batch(l, x)
  BY DEF BatchInv
<1> DEFINE batch == (l + 1)..(l + writes)
<1>2. writes \in Nat /\ writes + 1 <= SyncEvery /\ SyncEvery \in Nat
  BY SyncEveryAssumption DEF TypeOK
<1>3. accepted \ Found \subseteq batch \cup {x}
  <2>1. ASSUME NEW k, Kept(k) PROVE k \in Found
    BY <2>1 DEF Kept, Found, Whole, TypeOK
  <2> QED
    BY <1>1, <2>1 DEF Batch
<1>4. IsFiniteSet(batch) /\ Cardinality(batch) = writes
  <2>1. IsFiniteSet(batch) /\ Cardinality(batch) =
          (IF l + 1 > l + writes THEN 0 ELSE (l + writes) - (l + 1) + 1)
    BY <1>1, <1>2, FS_Interval
  <2> QED
    BY <1>1, <1>2, <2>1
<1>5. /\ IsFiniteSet(batch \cup {x})
      /\ Cardinality(batch \cup {x}) \in Nat
      /\ Cardinality(batch \cup {x}) <= writes + 1
  <2> HIDE DEF batch
  <2>1. /\ IsFiniteSet(batch \cup {x})
        /\ \/ Cardinality(batch \cup {x}) = Cardinality(batch)
           \/ Cardinality(batch \cup {x}) = Cardinality(batch) + 1
    BY <1>4, FS_AddElement
  <2> QED
    BY <1>2, <1>4, <2>1
<1>6. /\ IsFiniteSet(accepted \ Found)
      /\ Cardinality(accepted \ Found) <= Cardinality(batch \cup {x})
  BY <1>3, <1>5, FS_Subset
<1>7. Cardinality(accepted \ Found) \in Nat
  BY <1>6, FS_CardinalityType
<1> QED
  BY <1>2, <1>5, <1>6, <1>7 DEF LossPerRun

LEMMA ClosedAreFound == TypeOK /\ ClosedInv => ClosedSurvives
<1> SUFFICES ASSUME TypeOK, ClosedInv, NEW k \in closed \ Found
             PROVE  ~ledger[k].ends /\ closed \ Found = {k}
  BY DEF ClosedSurvives
<1>1. ASSUME NEW j \in closed \ Found PROVE ~ledger[j].ends
  BY DEF TypeOK, ClosedInv, Found
<1>2. ASSUME NEW j \in closed \ Found PROVE j = k
  <2>1. j <= k /\ k <= j
    BY <1>1 DEF ClosedInv
  <2> QED
    BY <2>1 DEF TypeOK
<1> QED
  BY <1>1, <1>2

\* However a process ends and whatever the power failures after it take, at most
\* SyncEvery of the records it accepted are lost, whatever SyncEvery is.
THEOREM PowerLossBounded == ASSUME ~SyncFaults PROVE Spec => []LossPerRun
<1>1. Spec => []IInv
  BY Invariance
<1>2. IInv => LossPerRun
  BY BatchBounds DEF IInv
<1> QED
  BY <1>1, <1>2, PTL

\* What a closed ledger holds stays, but for one record on a last line without newline.
THEOREM ClosedIsSafe == ASSUME ~SyncFaults PROVE Spec => []ClosedSurvives
<1>1. Spec => []IInv
  BY Invariance
<1>2. IInv => ClosedSurvives
  BY ClosedAreFound DEF IInv
<1> QED
  BY <1>1, <1>2, PTL

=============================================================================
