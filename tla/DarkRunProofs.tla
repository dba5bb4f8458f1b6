---------------------------- MODULE DarkRunProofs ----------------------------
(***************************************************************************)
(* The safety of dark-data-storage's runs for any buckets, names, sample   *)
(* size and number of runs.  The heart is the listing: however S3 cuts it  *)
(* into pages, what has been taken is the sample of what was seen, and     *)
(* when the listing ends it is the sample of the whole bucket.             *)
(***************************************************************************)
EXTENDS DarkRun, FiniteSetTheorems, WellFoundedInduction, TLAPS

-----------------------------------------------------------------------------
(* The first k of a set of names.                                           *)

Below(S, n) == {m \in S : m < n}

LEMMA NamesFinite ==
    ASSUME NEW S \in SUBSET Names
    PROVE  /\ S \subseteq Nat \ {0} /\ IsFiniteSet(S) /\ Cardinality(S) \in Nat
           /\ \A T \in SUBSET S : /\ IsFiniteSet(T) /\ Cardinality(T) \in Nat
                                  /\ Cardinality(T) <= Cardinality(S)
<1>1. S \subseteq Nat \ {0} /\ IsFiniteSet(S)
  BY NameAssumption, FS_Subset
<1> QED
  BY <1>1, FS_Subset, FS_CardinalityType

\* A set of naturals that is not empty has a least element.
LEMMA LeastElement ==
    ASSUME NEW S \in SUBSET Nat, S # {} PROVE \E n \in S : \A m \in S : n <= m
<1>1. PICK n \in S : \A m \in S : <<m, n>> \notin OpToRel(<, Nat)
  BY WFMin, NatLessThanWellFounded, Zenon
<1>2. \A m \in S : ~(m < n)
  BY <1>1, Zenon DEF OpToRel
<1> QED
  BY <1>2

\* Fewer than k are taken only when there are no more.
LEMMA FirstIsAll ==
    ASSUME NEW S \in SUBSET Names, NEW k \in Nat, Cardinality(First(S, k)) < k
    PROVE  First(S, k) = S
<1> SUFFICES ASSUME S \ First(S, k) # {} PROVE FALSE
  BY DEF First
<1>1. S \ First(S, k) \in SUBSET Nat
  BY NamesFinite
<1>2. PICK n \in S \ First(S, k) : \A m \in S \ First(S, k) : n <= m
  BY <1>1, LeastElement
<1>3. Below(S, n) \subseteq First(S, k)
  <2> SUFFICES ASSUME NEW m \in S, m < n, m \notin First(S, k) PROVE FALSE
    BY DEF Below
  <2>1. m \in Nat /\ n \in Nat /\ n <= m
    BY <1>1, <1>2
  <2> QED
    BY <2>1
<1>4. First(S, k) \in SUBSET Names /\ Below(S, n) \in SUBSET First(S, k)
  BY <1>3 DEF First
<1>5. Cardinality(Below(S, n)) <= Cardinality(First(S, k))
      /\ Cardinality(Below(S, n)) \in Nat /\ Cardinality(First(S, k)) \in Nat
  BY <1>4, NamesFinite
<1>6. ~(Cardinality(Below(S, n)) < k)
  BY <1>2 DEF First, Below
<1> QED
  BY <1>5, <1>6

\* What is below a name, when all of T comes behind all of S.
LEMMA BelowBoth ==
    ASSUME NEW S \in SUBSET Names, NEW T \in SUBSET Names, \A m \in S, n \in T : m < n
    PROVE  /\ \A n \in S : Below(S \cup T, n) = Below(S, n)
           /\ \A n \in T : Below(S \cup T, n) = S \cup Below(T, n)
           /\ S \cap T = {}
<1>1. \A n \in S \cup T : n \in Nat
  BY NamesFinite
<1>2. \A m \in S, n \in T : ~(n < m) /\ m # n
  BY <1>1
<1> QED
  BY <1>2 DEF Below

\* A listing goes on with T behind S: the first k of both are S, as long as S does not
\* have k, and the first of T that are still missing.
LEMMA FirstOfBoth ==
    ASSUME NEW S \in SUBSET Names, NEW T \in SUBSET Names, NEW k \in Nat,
           \A m \in S, n \in T : m < n, Cardinality(S) < k
    PROVE  First(S \cup T, k) = S \cup First(T, k - Cardinality(S))
<1>0. /\ \A n \in S : Below(S \cup T, n) = Below(S, n)
      /\ \A n \in T : Below(S \cup T, n) = S \cup Below(T, n)
      /\ S \cap T = {}
  BY BelowBoth, Zenon
<1>1. Cardinality(S) \in Nat /\ IsFiniteSet(S)
  BY NamesFinite
<1>2. ASSUME NEW n \in S PROVE n \in First(S \cup T, k)
  <2>1. Below(S \cup T, n) = Below(S, n) /\ Below(S, n) \in SUBSET S
    BY <1>0 DEF Below
  <2>2. Cardinality(Below(S, n)) <= Cardinality(S) /\ Cardinality(Below(S, n)) \in Nat
    BY <2>1, NamesFinite
  <2>3. Cardinality(Below(S \cup T, n)) < k
    BY <2>1, <2>2, <1>1
  <2> QED
    BY <2>3 DEF Below, First
<1>3. ASSUME NEW n \in T
      PROVE  n \in First(S \cup T, k) <=> n \in First(T, k - Cardinality(S))
  <2>1. Below(S \cup T, n) = S \cup Below(T, n) /\ S \cap Below(T, n) = {}
    BY <1>0 DEF Below
  <2>2. Below(T, n) \in SUBSET T
    BY DEF Below
  <2>3. IsFiniteSet(Below(T, n)) /\ Cardinality(Below(T, n)) \in Nat
    BY <2>2, NamesFinite
  <2>4. Cardinality(Below(S \cup T, n)) = Cardinality(S) + Cardinality(Below(T, n))
    <3> DEFINE B == Below(T, n)
    <3>1. Cardinality(S \cup B) = Cardinality(S) + Cardinality(B) - Cardinality(S \cap B)
      BY <2>3, <1>1, FS_Union
    <3>2. Cardinality(S \cap B) = 0
      BY <2>1, FS_EmptySet
    <3>3. Cardinality(Below(S \cup T, n)) = Cardinality(S \cup B)
      BY <2>1
    <3>4. Cardinality(B) \in Nat
      BY <2>3
    <3> HIDE DEF B
    <3>5. Cardinality(Below(S \cup T, n)) = Cardinality(S) + Cardinality(B)
      BY <3>1, <3>2, <3>3, <3>4, <1>1
    <3> QED
      BY <3>5 DEF B
  <2>5. Cardinality(Below(S \cup T, n)) < k <=> Cardinality(Below(T, n)) < k - Cardinality(S)
    BY <2>3, <2>4, <1>1
  <2> QED
    BY <2>5 DEF Below, First
<1> QED
  BY <1>2, <1>3 DEF First

\* What follows the first k, when these are complete, does not change them.
LEMMA FirstIsFinal ==
    ASSUME NEW S \in SUBSET Names, NEW T \in SUBSET Names, NEW k \in Nat,
           \A m \in S, n \in T : m < n, ~(Cardinality(First(S, k)) < k)
    PROVE  First(S \cup T, k) = First(S, k)
<1>0. /\ \A n \in S : Below(S \cup T, n) = Below(S, n)
      /\ \A n \in T : Below(S \cup T, n) = S \cup Below(T, n)
      /\ S \cap T = {}
  BY BelowBoth, Zenon
<1>1. ASSUME NEW n \in S PROVE n \in First(S \cup T, k) <=> n \in First(S, k)
  <2>1. Below(S \cup T, n) = Below(S, n)
    BY <1>0
  <2> QED
    BY <2>1 DEF Below, First
<1>2. ASSUME NEW n \in T PROVE n \notin First(S \cup T, k) /\ n \notin First(S, k)
  <2>1. First(S, k) \in SUBSET Below(S \cup T, n) /\ Below(S \cup T, n) \in SUBSET Names
    BY <1>0 DEF Below, First
  <2>2. Cardinality(First(S, k)) <= Cardinality(Below(S \cup T, n))
        /\ Cardinality(First(S, k)) \in Nat /\ Cardinality(Below(S \cup T, n)) \in Nat
    BY <2>1, NamesFinite
  <2>3. ~(Cardinality(Below(S \cup T, n)) < k)
    BY <2>2
  <2> QED
    BY <2>3, <1>0 DEF Below, First
<1> QED
  BY <1>1, <1>2 DEF First

-----------------------------------------------------------------------------
(* The invariant.                                                           *)

\* The admissible names of a bucket, and those up to a key.
Small(b)   == {n \in Names : <<b, n>> \in contents \ Large}
UpTo(b, q) == {n \in Small(b) : n <= q}

SampleFrom(ns) == IF Sample = 0 THEN ns ELSE First(ns, Sample)

Planning == stage \in {"inventory", "buckets"}

\* A run begins with nothing; without a record there is nothing to resume.
StartInv ==
    /\ stage \in {"idle", "discover", "session"} =>
         /\ counted = {} /\ current = NoBucket /\ pos = 0 /\ objs = {} /\ work = NoWork
         /\ merged = {}
    /\ stage = "inventory" /\ ~resumed => recorded = {}

\* What was taken of a bucket is the sample of the keys it was listed up to.
ListInv ==
    stage = "inventory" =>
        IF current = NoBucket THEN pos = 0 /\ objs = {}
        ELSE objs = SampleFrom(UpTo(current, pos))

\* What remains to be scanned belongs to the sample and has no record.
WorkInv ==
    Planning => \A b \in Buckets :
        /\ work[b] \subseteq SampleFrom(Small(b))
        /\ \A n \in work[b] : <<b, n>> \notin recorded

\* An object of the sample that was listed has a record, is still to be scanned, or
\* its record could not be written or was lost on an unfinished line.
CoverInv ==
    Planning \/ stage \in {"finalize", "close"} =>
        \A b \in counted : \A n \in SampleFrom(Small(b)) :
            \/ <<b, n>> \in recorded \/ n \in work[b]
            \/ <<b, n>> \in unwritten \/ <<b, n>> \in merged

\* Without a cancellation the loop ends when nothing is left.
EndInv ==
    (stage = "finalize" /\ ~cancelled) \/ (stage = "close" /\ summary = "complete")
        => work = NoWork

\* What is on record belongs to the sample of its bucket.
RecordInv == \A o \in recorded : o[2] \in SampleFrom(Small(o[1]))

\* At most one record is at risk, that on an unfinished line.
RiskInv == (\E o : atRisk \subseteq {o}) /\ (atRisk # {} => torn)

\* A run loses records on the unfinished line that it finds, not before its first write,
\* and not on one that it left itself: after that it writes no more.
MergedInv ==
    /\ \E o, p : merged \subseteq {o, p}
    /\ unwritten = {} /\ torn => merged = {}

IInv ==
    /\ TypeOK /\ StartInv /\ ListInv /\ WorkInv /\ CoverInv /\ EndInv /\ RecordInv
    /\ RiskInv /\ MergedInv

LEMMA SampleOfSmall == \A b : SampleOf(b) = {b} \X SampleFrom(Small(b))
BY DEF SampleOf, Small, SampleFrom

\* The sample of a bucket is what its contents make it.
LEMMA SampleKept ==
    ASSUME contents' = contents
    PROVE  /\ \A b : Small(b)' = Small(b)
           /\ \A b : SampleFrom(Small(b))' = SampleFrom(Small(b))
           /\ \A b, q : SampleFrom(UpTo(b, q))' = SampleFrom(UpTo(b, q))
<1>1. \A b : Small(b)' = Small(b)
  BY DEF Small
<1>2. \A b, q : UpTo(b, q)' = UpTo(b, q)
  BY <1>1 DEF UpTo
<1> QED
  BY <1>1, <1>2 DEF SampleFrom, First

LEMMA SampleIsNames == \A b : SampleFrom(Small(b)) \subseteq Names
BY DEF SampleFrom, Small, First

-----------------------------------------------------------------------------
(* Types.                                                                   *)

LEMMA IdleType ==
    ASSUME TypeOK, Idle, UNCHANGED runs, summary' \in {summary, "absent"},
           recorded' \in SUBSET Objects, torn' \in BOOLEAN, atRisk' \in SUBSET recorded'
    PROVE  TypeOK'
BY DEF TypeOK, Idle, NoWork

\* A write that is cut short keeps the types of the ledger, takes at most the object at
\* risk from it and brings at most the one that is written.
LEMMA CutShortLedger ==
    ASSUME TypeOK, NEW o \in Objects, CutShort(o)
    PROVE  /\ recorded' \in SUBSET Objects /\ torn' \in BOOLEAN
           /\ atRisk' \in SUBSET recorded'
           /\ recorded' \subseteq recorded \cup {o} /\ recorded \ recorded' \subseteq atRisk
<1>1. CASE UNCHANGED ledger
  BY <1>1 DEF ledger, TypeOK
<1>2. CASE recorded' = recorded \ atRisk /\ atRisk' = {} /\ torn' = TRUE
  BY <1>2 DEF TypeOK
<1>3. CASE recorded' = recorded \cup {o} /\ atRisk' = {o} /\ torn' = TRUE
  BY <1>3 DEF TypeOK
<1> QED
  BY <1>1, <1>2, <1>3 DEF CutShort

LEMMA AcceptLedger ==
    ASSUME TypeOK, NEW o \in Objects, Accept(o)
    PROVE  /\ recorded' \in SUBSET Objects /\ torn' \in BOOLEAN
           /\ atRisk' \in SUBSET recorded' /\ merged' \in SUBSET Objects
BY DEF TypeOK, Accept

LEMMA TypeStep == TypeOK /\ [Next]_vars => TypeOK'
<1> SUFFICES ASSUME TypeOK, [Next]_vars PROVE TypeOK'
  OBVIOUS
<1> USE DEF ledger, disk, plan, list, scan, vars
<1>1. CASE Discover
  <2>1. CASE Idle /\ UNCHANGED <<disk, runs>>
    BY <2>1, IdleType DEF TypeOK
  <2>2. CASE ~Idle
    BY <1>1, <2>2 DEF Discover, TypeOK
  <2> QED
    BY <1>1, <2>1, <2>2 DEF Discover
<1>2. ASSUME NEW fresh \in BOOLEAN, OpenSession(fresh) PROVE TypeOK'
  <2>0. /\ recorded' \in SUBSET Objects /\ torn' \in BOOLEAN
        /\ atRisk' \in SUBSET recorded' /\ summary' \in {summary, "absent"}
    BY <1>2 DEF OpenSession, TypeOK
  <2>1. CASE Idle
    BY <1>2, <2>0, <2>1, IdleType DEF OpenSession
  <2>2. CASE ~Idle
    BY <1>2, <2>0, <2>2 DEF OpenSession, TypeOK
  <2> QED
    BY <2>1, <2>2
<1>3. ASSUME NEW b \in Buckets, StartInventory(b) PROVE TypeOK'
  BY <1>3 DEF StartInventory, TypeOK
<1>4. ASSUME NEW b \in Buckets, NextBucket(b) PROVE TypeOK'
  BY <1>4 DEF NextBucket, TypeOK
<1>5. ASSUME NEW q \in Names, Page(q) PROVE TypeOK'
  BY <1>5 DEF Page, Taken, First, TypeOK
<1>6. CASE Inventory
  <2>1. Remaining(current, objs) \in SUBSET Names /\ current \in Buckets
    BY <1>6 DEF Inventory, Remaining, TypeOK
  <2> QED
    BY <1>6, <2>1 DEF Inventory, TypeOK
<1>7. CASE InventoryFails
  BY <1>7 DEF InventoryFails, TypeOK
<1>8. CASE NothingToDo
  BY <1>8 DEF NothingToDo, TypeOK
<1>9. CASE Gate
  <2>1. CASE Idle
    BY <1>9, <2>1, IdleType DEF Gate, TypeOK
  <2>2. CASE ~Idle
    BY <1>9, <2>2 DEF Gate, TypeOK
  <2> QED
    BY <2>1, <2>2
<1>10. ASSUME NEW n \in Names, OnResult(n) PROVE TypeOK'
  <2>1. current \in Buckets /\ <<current, n>> \in Objects
    BY <1>10 DEF OnResult, TypeOK, Objects
  <2>2. work' \in [Buckets -> SUBSET Names]
    BY <1>10, <2>1 DEF OnResult, TypeOK
  <2>3. /\ recorded' \in SUBSET Objects /\ torn' \in BOOLEAN /\ atRisk' \in SUBSET recorded'
        /\ unwritten' \in SUBSET Objects /\ merged' \in SUBSET Objects
    <3>1. CASE Accept(<<current, n>>) /\ UNCHANGED unwritten
      BY <2>1, <3>1, AcceptLedger DEF TypeOK
    <3>2. CASE /\ CutShort(<<current, n>>)
               /\ unwritten' = unwritten \cup {<<current, n>>}
               /\ merged' = merged \cup (recorded \ recorded')
      BY <2>1, <3>2, CutShortLedger DEF TypeOK
    <3> QED
      BY <1>10, <3>1, <3>2 DEF OnResult, LedgerKey
  <2> QED
    BY <1>10, <2>2, <2>3 DEF OnResult, TypeOK
<1>11. CASE BucketDone \/ LoopEnds \/ Finalize
  BY <1>11 DEF BucketDone, LoopEnds, Finalize, TypeOK
<1>12. CASE Return \/ Die
  <2>1. CASE Idle /\ UNCHANGED <<ledger, summary, runs>>
    BY <2>1, IdleType DEF TypeOK
  <2>2. CASE /\ Idle /\ UNCHANGED <<summary, runs>>
             /\ current # NoBucket /\ \E n \in work[current] : CutShort(LedgerKey(current, n))
    <3>1. PICK n \in work[current] : CutShort(<<current, n>>)
      BY <2>2 DEF LedgerKey
    <3>2. <<current, n>> \in Objects
      BY <2>2 DEF TypeOK, Objects
    <3> QED
      BY <2>2, <3>1, <3>2, CutShortLedger, IdleType
  <2> QED
    BY <1>12, <2>1, <2>2 DEF Return, Die
<1>13. CASE Launch
  BY <1>13, BoundAssumption DEF Launch, TypeOK
<1>14. CASE Interrupt
  BY <1>14 DEF Interrupt, TypeOK
<1>15. CASE UNCHANGED vars
  BY <1>15 DEF TypeOK
<1> QED
  BY <1>1, <1>2, <1>3, <1>4, <1>5, <1>6, <1>7, <1>8, <1>9, <1>10, <1>11, <1>12, <1>13,
     <1>14, <1>15 DEF Next, Run

-----------------------------------------------------------------------------
(* Each step keeps the rest of the invariant.                               *)

Rest ==
    /\ StartInv /\ ListInv /\ WorkInv /\ CoverInv /\ EndInv /\ RecordInv
    /\ RiskInv /\ MergedInv

LEMMA IdleRest ==
    ASSUME IInv, Idle, recorded' \in {recorded, {}} \/ RecordInv', RiskInv'
    PROVE  Rest'
<1>1. contents' = contents /\ stage' = "idle" /\ work' = NoWork /\ counted' = {}
      /\ current' = NoBucket /\ pos' = 0 /\ objs' = {} /\ merged' = {}
  BY DEF Idle
<1>2. NoWork' = NoWork
  BY DEF NoWork
<1>3. RecordInv' /\ RiskInv'
  BY <1>1, SampleKept DEF IInv, RecordInv
<1> QED
  BY <1>1, <1>2, <1>3
     DEF Rest, StartInv, ListInv, WorkInv, CoverInv, EndInv, Planning, MergedInv

\* An unchanged ledger has the same object at risk.
LEMMA RiskKept == IInv /\ UNCHANGED ledger => RiskInv'
BY DEF IInv, RiskInv, ledger

\* A write cut short adds at most an object of the sample.
LEMMA CutShortRest ==
    ASSUME IInv, stage = "buckets", current \in Buckets, NEW n \in work[current],
           CutShort(<<current, n>>), contents' = contents
    PROVE  RecordInv' /\ RiskInv' /\ <<current, n>> \in Objects
<1>1. <<current, n>> \in Objects
  BY DEF IInv, TypeOK, Objects
<1>2. n \in SampleFrom(Small(current))
  BY DEF IInv, WorkInv, Planning
<1>3. recorded' \subseteq recorded \cup {<<current, n>>}
  BY <1>1, CutShortLedger DEF IInv
<1>4. RecordInv'
  <2> SUFFICES ASSUME NEW o \in recorded' PROVE o[2] \in SampleFrom(Small(o[1]))
    BY SampleKept DEF RecordInv
  <2>1. o \in recorded \/ o = <<current, n>>
    BY <1>3
  <2> QED
    BY <2>1, <1>2 DEF IInv, RecordInv
<1>5. RiskInv'
  BY DEF IInv, RiskInv, CutShort, ledger
<1> QED
  BY <1>1, <1>4, <1>5

\* Steps that leave the plan, the listing, the work and the disk alone, and do not reach a
\* stage that promises more.
LEMMA QuietRest ==
    ASSUME IInv, UNCHANGED <<contents, recorded, counted, current, pos, objs, work, unwritten>>,
           UNCHANGED <<torn, atRisk, merged>>,
           \/ stage' = stage /\ resumed' = resumed /\ summary' = summary
              /\ (cancelled' = cancelled \/ cancelled')
           \/ stage' \in {"discover", "session"} /\ stage \in {"idle", "discover"}
    PROVE  Rest'
<1>1. /\ \A b : SampleFrom(Small(b))' = SampleFrom(Small(b))
      /\ \A b : Small(b)' = Small(b) /\ NoWork' = NoWork
  BY SampleKept DEF NoWork
<1>2. RecordInv' /\ RiskInv' /\ MergedInv'
  BY <1>1 DEF IInv, RecordInv, RiskInv, MergedInv
<1>3. CASE stage' = stage /\ resumed' = resumed /\ summary' = summary
           /\ (cancelled' = cancelled \/ cancelled')
  <2>1. StartInv' /\ WorkInv' /\ CoverInv' /\ EndInv'
    BY <1>1, <1>3 DEF IInv, StartInv, WorkInv, CoverInv, EndInv, Planning
  <2>2. ListInv'
    <3>1. \A b, q : SampleFrom(UpTo(b, q))' = SampleFrom(UpTo(b, q))
      BY SampleKept
    <3> QED
      BY <1>3, <3>1 DEF IInv, ListInv
  <2> QED
    BY <1>2, <2>1, <2>2 DEF Rest
<1>4. CASE stage' \in {"discover", "session"} /\ stage \in {"idle", "discover"}
  BY <1>1, <1>2, <1>4
     DEF IInv, Rest, StartInv, ListInv, WorkInv, CoverInv, EndInv, Planning
<1> QED
  BY <1>3, <1>4

LEMMA OpenSessionRest ==
    ASSUME NEW fresh \in BOOLEAN PROVE IInv /\ OpenSession(fresh) => Rest'
<1> SUFFICES ASSUME IInv, OpenSession(fresh) PROVE Rest'
  OBVIOUS
<1>1. recorded' = recorded \/ recorded' = {}
  BY DEF OpenSession, disk, ledger
<1>r. RiskInv'
  BY RiskKept DEF OpenSession, disk, RiskInv
<1>2. CASE Idle
  BY <1>1, <1>r, <1>2, IdleRest
<1>3. CASE ~Idle
  <2>1. /\ contents' = contents /\ counted' = counted /\ current' = current /\ pos' = pos
        /\ objs' = objs /\ work' = work /\ unwritten' = unwritten /\ merged' = merged
        /\ stage = "session" /\ stage' = "inventory" /\ resumed' = (recorded' # {})
    BY <1>3 DEF OpenSession, list
  <2>2. /\ counted = {} /\ current = NoBucket /\ pos = 0 /\ objs = {} /\ work = NoWork
        /\ merged = {}
    BY <2>1 DEF IInv, StartInv
  <2>3. \A b \in Buckets : work'[b] = {}
    BY <2>1, <2>2 DEF NoWork
  <2>4. StartInv' /\ ListInv' /\ CoverInv' /\ EndInv'
    BY <2>1, <2>2 DEF StartInv, ListInv, CoverInv, EndInv
  <2>5. WorkInv'
    BY <2>3 DEF WorkInv
  <2>6. RecordInv'
    BY <1>1, <2>1, SampleKept DEF IInv, RecordInv
  <2>7. MergedInv'
    BY <2>1, <2>2 DEF MergedInv
  <2> QED
    BY <1>r, <2>4, <2>5, <2>6, <2>7 DEF Rest
<1> QED
  BY <1>2, <1>3

LEMMA StartInventoryRest ==
    ASSUME NEW b \in Buckets PROVE IInv /\ StartInventory(b) => Rest'
<1> SUFFICES ASSUME IInv, StartInventory(b) PROVE Rest'
  OBVIOUS
<1>1. /\ UNCHANGED <<contents, recorded, stage, resumed, counted, pos, objs, work, unwritten>>
      /\ UNCHANGED <<torn, atRisk, merged>>
      /\ cancelled' = cancelled /\ summary' = summary
      /\ stage = "inventory" /\ current = NoBucket /\ current' = b /\ b # NoBucket
  BY BucketAssumption DEF StartInventory, disk, ledger, list
<1>2. /\ \A c : SampleFrom(Small(c))' = SampleFrom(Small(c)) /\ NoWork' = NoWork
  BY <1>1, SampleKept DEF NoWork
<1>3. StartInv' /\ WorkInv' /\ CoverInv' /\ EndInv' /\ RecordInv' /\ RiskInv' /\ MergedInv'
  BY <1>1, <1>2 DEF IInv, StartInv, WorkInv, CoverInv, EndInv, RecordInv, RiskInv, MergedInv,
     Planning
<1>4. pos = 0 /\ objs = {}
  BY <1>1 DEF IInv, ListInv
<1>5. UpTo(b, 0)' = {}
  BY NamesFinite DEF UpTo, Small
<1>6. SampleFrom(UpTo(b, 0))' = {}
  BY <1>5 DEF SampleFrom, First
<1>7. ListInv'
  BY <1>1, <1>4, <1>6 DEF ListInv
<1> QED
  BY <1>3, <1>7 DEF Rest

\* A page continues the sample of what was listed.
LEMMA PageRest == ASSUME NEW q \in Names PROVE IInv /\ Page(q) => Rest'
<1> SUFFICES ASSUME IInv, Page(q) PROVE Rest'
  OBVIOUS
<1> DEFINE old  == UpTo(current, pos)
           page == {n \in Names : pos < n /\ n <= q /\ <<current, n>> \in contents \ Large}
<1>1. /\ UNCHANGED <<contents, recorded, stage, resumed, cancelled, counted, current, work,
                     unwritten, summary, torn, atRisk, merged>>
      /\ stage = "inventory" /\ current # NoBucket /\ q > pos /\ WantsMore
      /\ pos' = q /\ objs' = objs \cup Taken(page)
  BY DEF Page, disk, ledger, plan
<1>2. /\ \A c : SampleFrom(Small(c))' = SampleFrom(Small(c)) /\ NoWork' = NoWork
  BY <1>1, SampleKept DEF NoWork
<1>3. StartInv' /\ WorkInv' /\ CoverInv' /\ EndInv' /\ RecordInv' /\ RiskInv' /\ MergedInv'
  BY <1>1, <1>2 DEF IInv, StartInv, WorkInv, CoverInv, EndInv, RecordInv, RiskInv, MergedInv,
     Planning
<1>4. old \in SUBSET Names /\ page \in SUBSET Names
  BY DEF UpTo, Small
<1>5. pos \in Nat /\ q \in Nat
  BY NamesFinite DEF IInv, TypeOK
<1>6. UpTo(current, q) = old \cup page /\ \A m \in old, n \in page : m < n
  <2>1. \A n \in Names : n \in Nat
    BY NamesFinite
  <2>2. \A n \in Names : n <= q <=> n <= pos \/ (pos < n /\ n <= q)
    BY <2>1, <1>1, <1>5
  <2>3. UpTo(current, q) = old \cup page
    BY <2>2 DEF UpTo, Small
  <2>4. \A m \in old : m <= pos /\ m \in Nat
    BY <2>1 DEF UpTo, Small
  <2>5. \A n \in page : pos < n /\ n \in Nat
    BY <2>1
  <2> QED
    BY <2>3, <2>4, <2>5, <1>5
<1>7. \A b, k : SampleFrom(UpTo(b, k))' = SampleFrom(UpTo(b, k))
  BY <1>1, SampleKept
<1>8. objs = SampleFrom(old)
  BY <1>1 DEF IInv, ListInv
<1>9. objs' = SampleFrom(old \cup page)
  <2> HIDE DEF old, page
  <2>1. CASE Sample = 0
    BY <2>1, <1>1, <1>8 DEF SampleFrom, Taken
  <2>2. CASE Sample # 0
    <3>1. objs = First(old, Sample) /\ Cardinality(objs) < Sample /\ Sample \in Nat
      BY <2>2, <1>1, <1>8, BoundAssumption DEF SampleFrom, WantsMore
    <3>2. objs = old
      BY <3>1, <1>4, FirstIsAll
    <3>3. First(old \cup page, Sample) = old \cup First(page, Sample - Cardinality(old))
      BY <3>1, <3>2, <1>4, <1>6, FirstOfBoth
    <3> QED
      BY <2>2, <3>2, <3>3, <1>1 DEF SampleFrom, Taken
  <2> QED
    BY <2>1, <2>2
<1>10. ListInv'
  BY <1>1, <1>6, <1>7, <1>9 DEF ListInv
<1> QED
  BY <1>3, <1>10 DEF Rest

\* When the listing of a bucket ends, what it took is the sample of the bucket.
LEMMA ListedIsSample ==
    ASSUME IInv, stage = "inventory", current # NoBucket, Listed
    PROVE  objs = SampleFrom(Small(current))
<1> DEFINE old  == UpTo(current, pos)
           rest == {n \in Small(current) : n > pos}
<1>1. objs = SampleFrom(old)
  BY DEF IInv, ListInv
<1>2. old \in SUBSET Names /\ rest \in SUBSET Names /\ Small(current) \in SUBSET Names
  BY DEF UpTo, Small
<1>3. /\ Small(current) = old \cup rest /\ \A m \in old, n \in rest : m < n
  <2>1. pos \in Nat /\ \A n \in Names : n \in Nat
    BY NamesFinite DEF IInv, TypeOK
  <2> QED
    BY <2>1, <1>2 DEF UpTo, Small
<1>4. CASE ~WantsMore
  <2> HIDE DEF old, rest
  <2>1. Sample # 0 /\ Sample \in Nat /\ ~(Cardinality(First(old, Sample)) < Sample)
    BY <1>1, <1>4, BoundAssumption DEF WantsMore, SampleFrom
  <2>2. First(old \cup rest, Sample) = First(old, Sample)
    BY <2>1, <1>2, <1>3, FirstIsFinal
  <2> QED
    BY <2>1, <2>2, <1>1, <1>3 DEF SampleFrom
<1>5. CASE rest = {}
  BY <1>5, <1>1, <1>3
<1>6. CASE ~HasMorePages
  BY <1>6, <1>5 DEF HasMorePages, Small
<1>7. CASE ~\E n \in Names : <<current, n>> \in contents
  BY <1>7, <1>5 DEF Small
<1> QED
  BY <1>4, <1>6, <1>7 DEF Listed

LEMMA InventoryRest == IInv /\ Inventory => Rest'
<1> SUFFICES ASSUME IInv, Inventory PROVE Rest'
  OBVIOUS
<1>1. /\ UNCHANGED <<contents, recorded, stage, resumed, cancelled, unwritten, summary>>
      /\ UNCHANGED <<torn, atRisk, merged>>
      /\ stage = "inventory" /\ current \in Buckets /\ current # NoBucket /\ Listed
      /\ work' = [work EXCEPT ![current] = Remaining(current, objs)]
      /\ counted' = counted \cup {current}
      /\ current' = NoBucket /\ pos' = 0 /\ objs' = {}
  BY DEF IInv, TypeOK, Inventory, disk, ledger
<1>2. /\ \A c : SampleFrom(Small(c))' = SampleFrom(Small(c)) /\ NoWork' = NoWork
  BY <1>1, SampleKept DEF NoWork
<1>3. objs = SampleFrom(Small(current))
  BY <1>1, ListedIsSample
<1>4. /\ work'[current] = Remaining(current, objs)
      /\ \A b \in Buckets : b # current => work'[b] = work[b]
  BY <1>1 DEF IInv, TypeOK
<1>5. StartInv' /\ ListInv' /\ EndInv' /\ RecordInv' /\ RiskInv' /\ MergedInv'
  BY <1>1, <1>2 DEF IInv, StartInv, ListInv, EndInv, RecordInv, RiskInv, MergedInv
<1>6. WorkInv'
  <2>1. ASSUME NEW n \in Remaining(current, objs)
        PROVE  n \in SampleFrom(Small(current)) /\ <<current, n>> \notin recorded
    BY <1>1, <1>3 DEF Remaining, LedgerKey, IInv, StartInv
  <2> SUFFICES ASSUME NEW b \in Buckets
               PROVE  /\ work'[b] \subseteq SampleFrom(Small(b))
                      /\ \A n \in work'[b] : <<b, n>> \notin recorded
    BY <1>1, <1>2 DEF WorkInv
  <2> QED
    BY <2>1, <1>1, <1>4 DEF IInv, WorkInv, Planning
<1>7. CoverInv'
  <2> SUFFICES ASSUME NEW b \in counted \cup {current}, NEW n \in SampleFrom(Small(b))
               PROVE  \/ <<b, n>> \in recorded \/ n \in work'[b]
                      \/ <<b, n>> \in unwritten \/ <<b, n>> \in merged
    BY <1>1, <1>2 DEF CoverInv
  <2>1. CASE b = current
    BY <2>1, <1>3, <1>4 DEF Remaining, LedgerKey
  <2>2. CASE b # current
    <3>1. b \in counted /\ b \in Buckets
      BY <2>2 DEF IInv, TypeOK
    <3> QED
      BY <2>2, <3>1, <1>1, <1>4 DEF IInv, CoverInv, Planning
  <2> QED
    BY <2>1, <2>2
<1> QED
  BY <1>5, <1>6, <1>7 DEF Rest

LEMMA InventoryFailsRest == IInv /\ InventoryFails => Rest'
<1> SUFFICES ASSUME IInv, InventoryFails PROVE Rest'
  OBVIOUS
<1>1. /\ UNCHANGED <<contents, recorded, stage, resumed, cancelled, counted, work, unwritten,
                     summary, torn, atRisk, merged>>
      /\ stage = "inventory" /\ current' = NoBucket /\ pos' = 0 /\ objs' = {}
  BY DEF InventoryFails, disk, ledger
<1>2. /\ \A c : SampleFrom(Small(c))' = SampleFrom(Small(c)) /\ NoWork' = NoWork
  BY <1>1, SampleKept DEF NoWork
<1> QED
  BY <1>1, <1>2 DEF IInv, Rest, StartInv, ListInv, WorkInv, CoverInv, EndInv, RecordInv,
     RiskInv, MergedInv, Planning

\* Steps that end a stage after the listing; the work stays as it is.
LEMMA StageRest ==
    ASSUME IInv, UNCHANGED <<contents, recorded, cancelled, counted, work, unwritten>>,
           UNCHANGED <<torn, atRisk, merged>>,
           \/ stage = "inventory" /\ stage' = "buckets" /\ summary' = summary
           \/ stage = "inventory" /\ stage' = "close" /\ work = NoWork
           \/ stage = "buckets" /\ stage' = "buckets" /\ summary' = summary
           \/ /\ stage = "buckets" /\ stage' = "finalize" /\ summary' = summary
              /\ cancelled \/ work = NoWork
           \/ /\ stage = "finalize" /\ stage' = "close"
              /\ summary' = IF cancelled THEN "incomplete" ELSE "complete"
    PROVE  Rest'
<1>1. /\ \A c : SampleFrom(Small(c))' = SampleFrom(Small(c)) /\ NoWork' = NoWork
  BY SampleKept DEF NoWork
<1>2. CoverInv' /\ RecordInv' /\ RiskInv' /\ MergedInv'
  BY <1>1 DEF IInv, CoverInv, RecordInv, RiskInv, MergedInv, Planning
<1>3. StartInv' /\ ListInv'
  BY DEF StartInv, ListInv
<1>4. WorkInv'
  BY <1>1 DEF IInv, WorkInv, Planning
<1>5. EndInv'
  BY <1>1 DEF IInv, EndInv
<1> QED
  BY <1>2, <1>3, <1>4, <1>5 DEF Rest

\* What the result of an object does to the ledger: its record is on it, or the write
\* failed, or it was lost on the unfinished line together with the one there.
LEMMA OnResultLedger ==
    ASSUME IInv, NEW n \in Names, OnResult(n)
    PROVE  /\ RecordInv' /\ RiskInv' /\ MergedInv'
           /\ recorded' \subseteq recorded \cup {<<current, n>>}
           /\ recorded \ recorded' \subseteq merged'
           /\ <<current, n>> \in recorded' \cup unwritten' \cup merged'
           /\ unwritten \subseteq unwritten' /\ merged \subseteq merged'
<1>1. /\ stage = "buckets" /\ current \in Buckets /\ n \in work[current]
      /\ contents' = contents
  BY DEF IInv, TypeOK, OnResult
<1>o. PICK o : o = <<current, n>>
  OBVIOUS
<1>2. o \in Objects
  BY <1>1, <1>o DEF Objects
<1>3. o[1] = current /\ o[2] = n /\ n \in SampleFrom(Small(current))
  BY <1>1, <1>o DEF IInv, WorkInv, Planning
<1>4. CASE Accept(o) /\ UNCHANGED unwritten
  <2>1. MergedInv'
    <3>1. CASE torn
      <4>1. merged = {} /\ \E p : atRisk \subseteq {p}
        BY <1>4, <3>1 DEF IInv, MergedInv, RiskInv, Accept
      <4> QED
        BY <1>4, <3>1, <4>1 DEF MergedInv, Accept
    <3>2. CASE ~torn
      BY <1>4, <3>2 DEF IInv, MergedInv, Accept
    <3> QED
      BY <3>1, <3>2
  <2>2. RiskInv'
    BY <1>4 DEF RiskInv, Accept
  <2>3. /\ recorded' \subseteq recorded \cup {o} /\ recorded \ recorded' \subseteq merged'
        /\ o \in recorded' \cup merged' /\ merged \subseteq merged'
    BY <1>4 DEF Accept
  <2>4. RecordInv'
    <3> SUFFICES ASSUME NEW x \in recorded' PROVE x[2] \in SampleFrom(Small(x[1]))
      BY <1>1, SampleKept DEF RecordInv
    <3> QED
      BY <1>3, <2>3 DEF IInv, RecordInv
  <2> QED
    BY <1>4, <1>o, <2>1, <2>2, <2>3, <2>4
<1>5. CASE /\ CutShort(o) /\ unwritten' = unwritten \cup {o}
           /\ merged' = merged \cup (recorded \ recorded')
  <2>1. RecordInv' /\ RiskInv'
    BY <1>1, <1>5, <1>o, CutShortRest
  <2>2. recorded' \subseteq recorded \cup {o} /\ recorded \ recorded' \subseteq atRisk
    BY <1>2, <1>5, CutShortLedger DEF IInv
  <2>3. MergedInv'
    <3>1. CASE recorded \subseteq recorded'
      BY <1>5, <3>1 DEF IInv, MergedInv
    <3>2. CASE ~(recorded \subseteq recorded')
      <4>1. unwritten = {} /\ torn
        BY <1>5, <2>2, <3>2 DEF IInv, RiskInv, CutShort, ledger
      <4>2. merged = {} /\ \E p : atRisk \subseteq {p}
        BY <4>1 DEF IInv, MergedInv, RiskInv
      <4> QED
        BY <1>5, <2>2, <4>2 DEF MergedInv
    <3> QED
      BY <3>1, <3>2
  <2> QED
    BY <1>5, <1>o, <2>1, <2>2, <2>3
<1> QED
  BY <1>4, <1>5, <1>o DEF OnResult, LedgerKey

\* The result of an object moves it from the work to the ledger, or to what the ledger
\* could not take or keep.
LEMMA OnResultRest ==
    ASSUME NEW n \in Names PROVE IInv /\ OnResult(n) => Rest'
<1> SUFFICES ASSUME IInv, OnResult(n) PROVE Rest'
  OBVIOUS
<1>0. /\ RecordInv' /\ RiskInv' /\ MergedInv'
      /\ recorded' \subseteq recorded \cup {<<current, n>>}
      /\ recorded \ recorded' \subseteq merged'
      /\ <<current, n>> \in recorded' \cup unwritten' \cup merged'
      /\ unwritten \subseteq unwritten' /\ merged \subseteq merged'
  BY OnResultLedger
<1>1. /\ UNCHANGED <<contents, stage, cancelled, counted, current, summary>>
      /\ stage = "buckets" /\ current \in Buckets /\ n \in work[current]
      /\ work' = [work EXCEPT ![current] = @ \ {n}]
  BY DEF IInv, TypeOK, OnResult, plan
<1>2. /\ \A c : SampleFrom(Small(c))' = SampleFrom(Small(c)) /\ NoWork' = NoWork
  BY <1>1, SampleKept DEF NoWork
<1>3. /\ work'[current] = work[current] \ {n}
      /\ \A b \in Buckets : b # current => work'[b] = work[b]
  BY <1>1 DEF IInv, TypeOK
<1>4. StartInv' /\ ListInv' /\ EndInv'
  BY <1>1 DEF StartInv, ListInv, EndInv
<1>5. WorkInv'
  <2> SUFFICES ASSUME NEW b \in Buckets
               PROVE  /\ work'[b] \subseteq SampleFrom(Small(b))
                      /\ \A m \in work'[b] : <<b, m>> \notin recorded'
    BY <1>2 DEF WorkInv
  <2>1. /\ work[b] \subseteq SampleFrom(Small(b)) /\ \A m \in work[b] : <<b, m>> \notin recorded
    BY <1>1 DEF IInv, WorkInv, Planning
  <2>2. work'[b] \subseteq work[b]
    BY <1>3
  <2>3. \A m \in work'[b] : <<b, m>> # <<current, n>>
    BY <1>3
  <2> QED
    BY <2>1, <2>2, <2>3, <1>0
<1>6. CoverInv'
  <2> SUFFICES ASSUME NEW b \in counted, NEW m \in SampleFrom(Small(b))
               PROVE  \/ <<b, m>> \in recorded' \/ m \in work'[b]
                      \/ <<b, m>> \in unwritten' \/ <<b, m>> \in merged'
    BY <1>1, <1>2 DEF CoverInv
  <2>1. \/ <<b, m>> \in recorded \/ m \in work[b]
        \/ <<b, m>> \in unwritten \/ <<b, m>> \in merged
    BY <1>1 DEF IInv, CoverInv, Planning
  <2>2. b \in Buckets
    BY DEF IInv, TypeOK
  <2>3. m \in work[b] => m \in work'[b] \/ <<b, m>> = <<current, n>>
    BY <2>2, <1>3
  <2> QED
    BY <2>1, <2>3, <1>0
<1> QED
  BY <1>0, <1>4, <1>5, <1>6 DEF Rest

LEMMA RestStep == IInv /\ [Next]_vars => Rest'
<1> SUFFICES ASSUME IInv, [Next]_vars PROVE Rest'
  OBVIOUS
<1> USE DEF ledger, disk, plan, list, scan, vars
<1>1. CASE Discover
  <2>1. CASE Idle
    BY <1>1, <2>1, IdleRest, RiskKept DEF Discover
  <2>2. CASE ~Idle
    BY <1>1, <2>2, QuietRest DEF Discover
  <2> QED
    BY <2>1, <2>2
<1>2. ASSUME NEW fresh \in BOOLEAN, OpenSession(fresh) PROVE Rest'
  BY <1>2, OpenSessionRest
<1>3. ASSUME NEW b \in Buckets, StartInventory(b) PROVE Rest'
  BY <1>3, StartInventoryRest
<1>4. ASSUME NEW b \in Buckets, NextBucket(b) PROVE Rest'
  BY <1>4, StageRest DEF NextBucket
<1>5. ASSUME NEW q \in Names, Page(q) PROVE Rest'
  BY <1>5, PageRest
<1>6. CASE Inventory
  BY <1>6, InventoryRest
<1>7. CASE InventoryFails
  BY <1>7, InventoryFailsRest
<1>8. CASE NothingToDo
  BY <1>8, StageRest DEF NothingToDo, AllListed
<1>9. CASE Gate
  <2>1. CASE Idle
    BY <1>9, <2>1, IdleRest, RiskKept DEF Gate
  <2>2. CASE ~Idle
    BY <1>9, <2>2, StageRest DEF Gate, AllListed
  <2> QED
    BY <2>1, <2>2
<1>10. ASSUME NEW n \in Names, OnResult(n) PROVE Rest'
  BY <1>10, OnResultRest
<1>11. CASE BucketDone
  BY <1>11, StageRest DEF BucketDone
<1>12. CASE LoopEnds
  BY <1>12, StageRest DEF LoopEnds
<1>13. CASE Finalize
  BY <1>13, StageRest DEF Finalize
<1>14. CASE Return \/ Die
  <2>1. CASE Idle /\ UNCHANGED ledger
    BY <2>1, IdleRest, RiskKept
  <2>2. CASE /\ Idle /\ stage = "buckets" /\ current # NoBucket
             /\ \E n \in work[current] : CutShort(LedgerKey(current, n))
    <3>1. current \in Buckets /\ contents' = contents
      BY <2>2 DEF IInv, TypeOK, Idle
    <3>2. RecordInv' /\ RiskInv'
      BY <2>2, <3>1, CutShortRest DEF LedgerKey
    <3> QED
      BY <2>2, <3>2, IdleRest
  <2> QED
    BY <1>14, <2>1, <2>2 DEF Return, Die
<1>15. CASE Launch
  BY <1>15, QuietRest DEF Launch
<1>16. CASE Interrupt
  BY <1>16, QuietRest DEF Interrupt
<1>17. CASE UNCHANGED vars
  BY <1>17, QuietRest
<1> QED
  BY <1>1, <1>2, <1>3, <1>4, <1>5, <1>6, <1>7, <1>8, <1>9, <1>10, <1>11, <1>12, <1>13,
     <1>14, <1>15, <1>16, <1>17 DEF Next, Run

-----------------------------------------------------------------------------
(* The theorems.                                                            *)

\* The strengthened invariant holds in every reachable state.
THEOREM Invariance == Spec => []IInv
<1>1. Init => IInv
  <2> SUFFICES ASSUME Init PROVE IInv
    OBVIOUS
  <2>1. TypeOK
    <3>1. NoWork \in [Buckets -> SUBSET Names]
      BY DEF NoWork
    <3>2. work \in [Buckets -> SUBSET Names]
      BY <3>1 DEF Init
    <3>3. runs \in 0..MaxRuns
      BY BoundAssumption DEF Init
    <3> QED
      BY <3>2, <3>3 DEF Init, TypeOK
  <2>2. Rest
    BY DEF Init, Rest, StartInv, ListInv, WorkInv, CoverInv, EndInv, RecordInv, RiskInv,
       MergedInv, Planning
  <2> QED
    BY <2>1, <2>2 DEF IInv, Rest
<1>2. IInv /\ [Next]_vars => IInv'
  BY TypeStep, RestStep DEF IInv, Rest
<1> QED
  BY <1>1, <1>2, PTL DEF Spec

\* Every variable of a run keeps its type, whatever run() does and wherever it is killed.
THEOREM TypeCorrect == Spec => []TypeOK
<1>1. IInv => TypeOK
  BY DEF IInv
<1> QED
  BY <1>1, Invariance, PTL

\* Interrupted and resumed runs together record no more than --sample objects of a bucket
\* and always the same ones, however S3 cuts its listings into pages.
THEOREM SampleNeverGrows == Spec => []SampleIsStable
<1>1. IInv => SampleIsStable
  <2> SUFFICES ASSUME IInv, NEW o \in recorded PROVE \E b \in Buckets : o \in SampleOf(b)
    BY DEF SampleIsStable
  <2>1. o \in Objects /\ o[2] \in SampleFrom(Small(o[1]))
    BY DEF IInv, TypeOK, RecordInv
  <2>2. o[1] \in Buckets /\ o = <<o[1], o[2]>>
    BY <2>1 DEF Objects
  <2> QED
    BY <2>1, <2>2, SampleOfSmall
<1> QED
  BY <1>1, Invariance, PTL

\* What run() is about to scan has no record, whichever bucket it is in.
THEOREM NothingTwice == Spec => []NoRescan
<1>1. IInv => NoRescan
  BY DEF IInv, WorkInv, Planning, NoRescan
<1> QED
  BY <1>1, Invariance, PTL

\* A summary that says complete covers the sample of every bucket that was listed, but
\* for objects whose record could not be written, and at most two that were lost on the
\* unfinished line that the run found.
THEOREM CompleteIsCovered == Spec => []CompleteCoversSample
<1>1. IInv => CompleteCoversSample
  <2> SUFFICES ASSUME IInv, stage = "close", summary = "complete"
               PROVE  /\ \A b \in counted : SampleOf(b) \ (unwritten \cup merged) \subseteq recorded
                      /\ Cardinality(merged) <= 2
    BY DEF CompleteCoversSample
  <2>1. ASSUME NEW b \in counted, NEW o \in SampleOf(b) \ (unwritten \cup merged)
        PROVE  o \in recorded
    <3>1. PICK n \in SampleFrom(Small(b)) : o = <<b, n>>
      BY SampleOfSmall
    <3>2. <<b, n>> \in recorded \/ n \in work[b]
      BY <3>1 DEF IInv, CoverInv
    <3>3. work[b] = {}
      BY DEF IInv, TypeOK, EndInv, NoWork
    <3> QED
      BY <3>1, <3>2, <3>3
  <2>2. Cardinality(merged) <= 2
    <3>1. PICK o, p : merged \subseteq {o} \cup {p}
      BY DEF IInv, MergedInv
    <3>2. IsFiniteSet({o}) /\ Cardinality({o}) = 1
      BY FS_Singleton
    <3>3. /\ IsFiniteSet({o} \cup {p}) /\ Cardinality({o} \cup {p}) \in Nat
          /\ Cardinality({o} \cup {p}) <= 2
      BY <3>2, FS_AddElement
    <3>4. Cardinality(merged) <= Cardinality({o} \cup {p}) /\ Cardinality(merged) \in Nat
      BY <3>1, <3>3, FS_Subset, FS_CardinalityType
    <3> QED
      BY <3>3, <3>4
  <2> QED
    BY <2>1, <2>2
<1> QED
  BY <1>1, Invariance, PTL

=============================================================================
