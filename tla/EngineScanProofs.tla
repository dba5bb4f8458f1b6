--------------------------- MODULE EngineScanProofs ---------------------------
(***************************************************************************)
(* What Load and Scan promise, for every set of pattern files, every       *)
(* object and every set of hits.  The lookup comes first: the table of     *)
(* line starts is sorted, complete and counts the newlines, and the search *)
(* keeps the answer between its bounds; a scan touches the lookup by its   *)
(* own steps only.  Then the sorting: ranking the rules is a bijection, so *)
(* the sorted list is a permutation.  While the files are read, the list   *)
(* enumerates the places read so far; afterwards all that is to be loaded. *)
(* The scan relates each search to what it has passed: every finding is a  *)
(* hit of a pattern that had its turn, and every hit passed, valid and     *)
(* clear, is a finding.                                                    *)
(***************************************************************************)
EXTENDS EngineScan, FiniteSetTheorems, FunctionTheorems, SequenceTheorems, TLAPS

-----------------------------------------------------------------------------
(* The lookup.                                                              *)

\* What lineIndex knows after i bytes.
TableInv ==
    /\ starts[1] = 0
    /\ \A k, l \in 1..Len(starts) : k < l => starts[k] < starts[l]
    /\ \A k \in 1..Len(starts) :
         starts[k] <= i /\ Cardinality(Newlines(starts[k])) = k - 1
    /\ \A j \in 1..i : content[j] = "newline" => \E k \in 1..Len(starts) : starts[k] = j
    /\ Cardinality(Newlines(i)) = Len(starts) - 1

\* What lineOf knows between two passes.
SearchInv ==
    pc = "search" =>
        /\ lo <= hi /\ starts[lo + 1] <= offset
        /\ \A k \in 1..Len(starts) : k > hi + 1 => starts[k] > offset

LookupInv ==
    /\ LookupTypeOK /\ TableInv /\ SearchInv
    /\ pc # "index" => i = Len(content)
    /\ LineIsExact

\* The newlines of a prefix are finitely many.
LEMMA NewlinesFinite == ASSUME NEW n \in Nat PROVE IsFiniteSet(Newlines(n))
<1>1. IsFiniteSet(1..n)
  BY FS_Interval
<1>2. Newlines(n) \in SUBSET (1..n)
  BY DEF Newlines
<1> QED
  BY <1>1, <1>2, FS_Subset

LEMMA InitInv == LookupInit => LookupInv
<1> SUFFICES ASSUME LookupInit PROVE LookupInv
  OBVIOUS
<1>1. content \in Seq(Byte) /\ Len(content) \in Nat
  BY DEF LookupInit
<1>2. Newlines(0) = {}
  BY DEF Newlines
<1>3. Cardinality(Newlines(0)) = 0
  BY <1>2, FS_EmptySet
<1>4. LookupTypeOK
  BY <1>1 DEF LookupInit, LookupTypeOK
<1>5. starts = <<0>> /\ i = 0 /\ Len(starts) = 1 /\ starts[1] = 0
  BY DEF LookupInit
<1>6. TableInv
  BY <1>3, <1>5 DEF TableInv
<1> QED
  BY <1>4, <1>6 DEF LookupInit, LookupInv, SearchInv, LineIsExact

\* One more byte: a newline adds one line start and one newline to count.
LEMMA IndexInv == LookupInv /\ Index => LookupInv'
<1> SUFFICES ASSUME LookupInv, Index PROVE LookupInv'
  OBVIOUS
<1> USE DEF LookupInv, Index
<1>1. /\ content \in Seq(Byte) /\ Len(content) \in Nat /\ i \in Nat /\ i < Len(content)
      /\ content' = content /\ offset' = offset /\ pc' = pc /\ pc = "index"
      /\ i' = i + 1 /\ lo' = lo /\ hi' = hi /\ line' = line
      /\ starts \in Seq(0..Len(content)) /\ Len(starts) \in Nat /\ Len(starts) > 0
  BY DEF LookupTypeOK
<1>2. \A n : Newlines(n)' = Newlines(n)
  BY <1>1 DEF Newlines
<1>3. CASE content[i + 1] = "newline"
  <2>1. starts' = Append(starts, i + 1)
    BY <1>3
  <2>2. /\ Len(starts') = Len(starts) + 1 /\ starts' \in Seq(0..Len(content))
        /\ starts' # <<>>
        /\ \A k \in 1..Len(starts) : starts'[k] = starts[k]
        /\ starts'[Len(starts) + 1] = i + 1
    <3> DEFINE T == 0..Len(content)
               e == i + 1
    <3>1. e \in T /\ starts \in Seq(T)
      BY <1>1
    <3> HIDE DEF T, e
    <3>2. /\ Append(starts, e) \in Seq(T) /\ Append(starts, e) # <<>>
          /\ Len(Append(starts, e)) = Len(starts) + 1
          /\ \A k \in 1..Len(starts) : Append(starts, e)[k] = starts[k]
          /\ Append(starts, e)[Len(starts) + 1] = e
      BY <3>1, AppendProperties
    <3> USE DEF T, e
    <3> QED
      BY <2>1, <3>2, Zenon
  <2>3. Newlines(i + 1) = Newlines(i) \cup {i + 1} /\ i + 1 \notin Newlines(i)
    BY <1>1, <1>3 DEF Newlines
  <2>4. Cardinality(Newlines(i + 1)) = Len(starts)
    BY <2>3, <1>1, NewlinesFinite, FS_AddElement DEF TableInv
  <2>5. TableInv'
    <3>1. starts'[1] = 0
      BY <2>2, <1>1 DEF TableInv
    <3>2. \A k, l \in 1..Len(starts') : k < l => starts'[k] < starts'[l]
      BY <2>2, <1>1 DEF TableInv
    <3>3. \A k \in 1..Len(starts') :
            starts'[k] <= i' /\ Cardinality(Newlines(starts'[k])) = k - 1
      BY <2>2, <2>4, <1>1 DEF TableInv
    <3>4. \A j \in 1..i' : content'[j] = "newline" => \E k \in 1..Len(starts') : starts'[k] = j
      <4> SUFFICES ASSUME NEW j \in 1..(i + 1), content[j] = "newline"
                   PROVE  \E k \in 1..Len(starts') : starts'[k] = j
        BY <1>1
      <4>1. CASE j = i + 1
        BY <4>1, <2>2, <1>1
      <4>2. CASE j # i + 1
        <5>1. PICK k \in 1..Len(starts) : starts[k] = j
          BY <4>2, <1>1 DEF TableInv
        <5> QED
          BY <5>1, <2>2, <1>1
      <4> QED
        BY <4>1, <4>2
    <3>5. Cardinality(Newlines(i')) = Len(starts') - 1
      BY <2>4, <2>2, <1>1
    <3>6. \A n : Cardinality(Newlines(n))' = Cardinality(Newlines(n))
      BY <1>2
    <3> QED
      BY <3>1, <3>2, <3>3, <3>4, <3>5, <1>2 DEF TableInv
  <2>6. LookupTypeOK'
    <3>1. lo' \in 0..(Len(starts') - 1) /\ hi' \in 0..(Len(starts') - 1)
          /\ line' \in 0..Len(starts')
      BY <2>2, <1>1 DEF LookupTypeOK
    <3>2. starts' # <<>> /\ starts' \in Seq(0..Len(content'))
      BY <2>2, <1>1, Zenon
    <3>3. i' \in 0..Len(content') /\ content' \in Seq(Byte) /\ offset' \in 0..Len(content')
          /\ pc' \in {"index", "search", "done"}
      BY <1>1 DEF LookupTypeOK
    <3> QED
      BY <3>1, <3>2, <3>3 DEF LookupTypeOK
  <2> QED
    BY <2>5, <2>6, <1>1 DEF SearchInv, LineIsExact
<1>4. CASE content[i + 1] # "newline"
  <2>1. starts' = starts
    BY <1>4
  <2>2. Newlines(i + 1) = Newlines(i)
    BY <1>1, <1>4 DEF Newlines
  <2>3. \A j \in 1..(i + 1) : content[j] = "newline" => j \in 1..i
    BY <1>1, <1>4
  <2>4. TableInv'
    BY <1>1, <1>2, <2>1, <2>2, <2>3 DEF TableInv
  <2>5. LookupTypeOK'
    BY <2>1, <1>1 DEF LookupTypeOK
  <2> QED
    BY <2>4, <2>5, <1>1 DEF SearchInv, LineIsExact
<1> QED
  BY <1>3, <1>4

\* The answer stays between the bounds.
LEMMA SearchStepInv == LookupInv /\ Search => LookupInv'
<1> SUFFICES ASSUME LookupInv, Search PROVE LookupInv'
  OBVIOUS
<1> USE DEF LookupInv, Search
<1>1. /\ content' = content /\ offset' = offset /\ pc' = pc /\ pc = "search"
      /\ i' = i /\ starts' = starts /\ line' = line /\ lo < hi
      /\ Len(starts) \in Nat /\ lo \in 0..(Len(starts) - 1) /\ hi \in 0..(Len(starts) - 1)
      /\ offset \in Nat
      /\ \A k \in 1..Len(starts) : starts[k] \in Nat
  <2>1. /\ content' = content /\ offset' = offset /\ pc' = pc /\ pc = "search"
        /\ i' = i /\ starts' = starts /\ line' = line /\ lo < hi
    OBVIOUS
  <2>2. /\ starts \in Seq(0..Len(content)) /\ content \in Seq(Byte)
        /\ offset \in 0..Len(content)
        /\ lo \in 0..(Len(starts) - 1) /\ hi \in 0..(Len(starts) - 1)
    BY DEF LookupTypeOK
  <2>3. Len(starts) \in Nat /\ Len(content) \in Nat
    BY <2>2, LenProperties
  <2>4. \A k \in 1..Len(starts) : starts[k] \in 0..Len(content)
    BY <2>2, ElementOfSeq
  <2> QED
    BY <2>1, <2>2, <2>3, <2>4
<1>2. Mid \in Nat /\ lo < Mid /\ Mid <= hi
  BY <1>1 DEF Mid
<1>3. TableInv' /\ LineIsExact'
  BY <1>1 DEF TableInv, LineIsExact, Newlines
<1>4. CASE starts[Mid + 1] <= offset
  <2>1. lo' = Mid /\ hi' = hi
    BY <1>4
  <2>2. LookupTypeOK'
    BY <2>1, <1>1, <1>2 DEF LookupTypeOK
  <2>3. SearchInv'
    BY <2>1, <1>1, <1>2, <1>4 DEF SearchInv
  <2> QED
    BY <2>2, <2>3, <1>1, <1>3
<1>5. CASE ~(starts[Mid + 1] <= offset)
  <2>1. lo' = lo /\ hi' = Mid - 1
    BY <1>5
  <2>2. LookupTypeOK'
    BY <2>1, <1>1, <1>2 DEF LookupTypeOK
  <2>3. Mid + 1 \in 1..Len(starts) /\ starts[Mid + 1] > offset
    BY <1>1, <1>2, <1>5
  <2>4. \A k \in 1..Len(starts) : k > Mid => starts[k] > offset
    <3> SUFFICES ASSUME NEW k \in 1..Len(starts), k > Mid PROVE starts[k] > offset
      OBVIOUS
    <3>1. CASE k = Mid + 1
      BY <3>1, <2>3
    <3>2. CASE k # Mid + 1
      <4>1. Mid + 1 < k
        BY <3>2, <1>2
      <4>2. starts[Mid + 1] < starts[k]
        BY <4>1, <2>3 DEF TableInv
      <4> QED
        BY <4>2, <2>3, <1>1
    <3> QED
      BY <3>1, <3>2
  <2>5. SearchInv'
    BY <2>1, <2>4, <1>1, <1>2 DEF SearchInv
  <2> QED
    BY <2>2, <2>5, <1>1, <1>3
<1> QED
  BY <1>4, <1>5

\* When the bounds meet, the newlines before the offset are those before the
\* start of the line.
LEMMA FinishInv == LookupInv /\ Finish => LookupInv'
<1> SUFFICES ASSUME LookupInv, Finish PROVE LookupInv'
  OBVIOUS
<1> USE DEF LookupInv, Finish
<1>1. /\ content' = content /\ offset' = offset /\ pc' = "done" /\ pc = "search"
      /\ i' = i /\ starts' = starts /\ lo' = lo /\ hi' = hi /\ line' = lo + 1
      /\ Len(starts) \in Nat /\ lo \in 0..(Len(starts) - 1) /\ lo = hi
      /\ offset \in 0..Len(content) /\ Len(content) \in Nat /\ i = Len(content)
      /\ \A k \in 1..Len(starts) : starts[k] \in Nat
  BY DEF LookupTypeOK, SearchInv
<1>2. starts[lo + 1] <= offset /\ lo + 1 \in 1..Len(starts)
  BY <1>1 DEF SearchInv
<1>3. Newlines(offset) = Newlines(starts[lo + 1])
  <2>1. ASSUME NEW j \in Newlines(offset) PROVE j \in Newlines(starts[lo + 1])
    <3>1. j \in 1..i /\ content[j] = "newline" /\ j <= offset
      BY <2>1, <1>1 DEF Newlines
    <3>2. PICK k \in 1..Len(starts) : starts[k] = j
      BY <3>1 DEF TableInv
    <3>3. k <= lo + 1
      BY <3>1, <3>2, <1>1 DEF SearchInv
    <3>4. starts[k] <= starts[lo + 1]
      BY <3>3, <1>1, <1>2 DEF TableInv
    <3> QED
      BY <3>1, <3>2, <3>4, <1>1, <1>2 DEF Newlines
  <2>2. ASSUME NEW j \in Newlines(starts[lo + 1]) PROVE j \in Newlines(offset)
    BY <2>2, <1>1, <1>2 DEF Newlines
  <2> QED
    BY <2>1, <2>2
<1>4. Cardinality(Newlines(offset)) = lo
  BY <1>1, <1>2, <1>3 DEF TableInv
<1>5. LineIsExact'
  BY <1>1, <1>4 DEF LineIsExact, Newlines
<1>6. LookupTypeOK' /\ TableInv'
  BY <1>1 DEF LookupTypeOK, TableInv, Newlines
<1> QED
  BY <1>1, <1>5, <1>6 DEF SearchInv

LEMMA StartSearchInv ==
    ASSUME NEW o \in 0..Len(content) PROVE LookupInv /\ StartSearch(o) => LookupInv'
<1> SUFFICES ASSUME LookupInv, StartSearch(o) PROVE LookupInv'
  OBVIOUS
<1> USE DEF LookupInv, StartSearch
<1>1. /\ content' = content /\ offset' = o /\ pc' = "search" /\ i' = i
      /\ starts' = starts /\ line' = line /\ lo' = 0 /\ hi' = Len(starts) - 1
      /\ Len(starts) \in Nat /\ Len(starts) > 0 /\ i = Len(content) /\ o \in Nat
  BY DEF LookupTypeOK
<1>2. LookupTypeOK'
  BY <1>1 DEF LookupTypeOK
<1>3. TableInv'
  BY <1>1 DEF TableInv, Newlines
<1>4. SearchInv'
  BY <1>1 DEF SearchInv, TableInv
<1> QED
  BY <1>1, <1>2, <1>3, <1>4 DEF LineIsExact

\* The strengthened invariant holds in every reachable state.
THEOREM LookupInvariance == LookupSpec => []LookupInv
<1>1. LookupInit => LookupInv
  BY InitInv
<1>2. LookupInv /\ [LookupNext]_lookupVars => LookupInv'
  <2>1. LookupInv /\ UNCHANGED lookupVars => LookupInv'
    BY DEF lookupVars, LookupInv, LookupTypeOK, TableInv, SearchInv, LineIsExact, Newlines
  <2> QED
    BY <2>1, IndexInv, StartSearchInv, SearchStepInv, FinishInv DEF LookupNext
<1> QED
  BY <1>1, <1>2, PTL DEF LookupSpec

\* Whatever the content, lineOf returns one plus the number of newlines before the
\* offset, the line that an NER finding at this offset carries.
THEOREM LineCorrect == LookupSpec => [](LookupTypeOK /\ LineIsExact)
<1>1. LookupInv => LookupTypeOK /\ LineIsExact
  BY DEF LookupInv
<1> QED
  BY <1>1, LookupInvariance, PTL

-----------------------------------------------------------------------------
(* Sorting.                                                                 *)

Rank(ps, k) == SeverityRank(ps[k].severity)

LEMMA RankType ==
    ASSUME NEW ps \in Seq(YamlPattern), NEW k \in 1..Len(ps) PROVE Rank(ps, k) \in 0..4
<1>1. ps[k] \in YamlPattern
  BY ElementOfSeq
<1>2. ps[k].severity \in Severities
  BY <1>1 DEF YamlPattern
<1> QED
  BY <1>2 DEF Rank, SeverityRank, Severities

\* StandsBefore is a strict total order.
LEMMA TotalOrder ==
    ASSUME NEW ps \in Seq(YamlPattern), NEW j \in 1..Len(ps), NEW k \in 1..Len(ps)
    PROVE  /\ j = k <=> ~StandsBefore(ps, j, k) /\ ~StandsBefore(ps, k, j)
           /\ ~(StandsBefore(ps, j, k) /\ StandsBefore(ps, k, j))
           /\ StandsBefore(ps, j, k) <=>
                 Rank(ps, j) > Rank(ps, k) \/ (Rank(ps, j) = Rank(ps, k) /\ j < k)
           /\ \A l \in 1..Len(ps) :
                 StandsBefore(ps, l, j) /\ StandsBefore(ps, j, k) => StandsBefore(ps, l, k)
<1>1. \A n \in 1..Len(ps) : Rank(ps, n) \in Int
  BY RankType
<1>2. \A m, n : StandsBefore(ps, m, n) <=>
                 Rank(ps, m) > Rank(ps, n) \/ (Rank(ps, m) = Rank(ps, n) /\ m < n)
  BY DEF StandsBefore, Rank
<1>3. \A n \in 1..Len(ps) : n \in Int
  OBVIOUS
<1> QED
  BY <1>1, <1>2, <1>3

LEMMA Intervals ==
    ASSUME NEW n \in Nat
    PROVE  /\ IsFiniteSet(1..n) /\ Cardinality(1..n) = n
           /\ IsFiniteSet(0..(n - 1)) /\ Cardinality(0..(n - 1)) = n
<1>1. IsFiniteSet(1..n) /\ Cardinality(1..n) = IF 1 > n THEN 0 ELSE n - 1 + 1
  BY FS_Interval
<1>2. n - 1 \in Int
  OBVIOUS
<1>3. /\ IsFiniteSet(0..(n - 1))
      /\ Cardinality(0..(n - 1)) = IF 0 > n - 1 THEN 0 ELSE (n - 1) - 0 + 1
  BY <1>2, FS_Interval
<1> QED
  BY <1>1, <1>3

LEMMA LeadersCount ==
    ASSUME NEW ps \in Seq(YamlPattern), NEW k \in 1..Len(ps)
    PROVE  /\ Cardinality(Leaders(ps, k)) \in 0..(Len(ps) - 1) /\ IsFiniteSet(Leaders(ps, k))
           /\ \A j \in Leaders(ps, k) :
                 Cardinality(Leaders(ps, j)) < Cardinality(Leaders(ps, k))
<1>1. Len(ps) \in Nat /\ Len(ps) >= 1
  BY LenProperties
<1>2. \A n \in 1..Len(ps) : /\ Leaders(ps, n) \in SUBSET (1..Len(ps)) /\ n \notin Leaders(ps, n)
                            /\ IsFiniteSet(Leaders(ps, n)) /\ Cardinality(Leaders(ps, n)) \in Nat
  <2> TAKE n \in 1..Len(ps)
  <2>1. Leaders(ps, n) \in SUBSET (1..Len(ps)) /\ n \notin Leaders(ps, n)
    BY TotalOrder DEF Leaders
  <2>2. IsFiniteSet(1..Len(ps))
    BY <1>1, Intervals
  <2>3. IsFiniteSet(Leaders(ps, n))
    BY <2>1, <2>2, FS_Subset
  <2> QED
    BY <2>1, <2>3, FS_CardinalityType
<1>3. Cardinality(Leaders(ps, k)) <= Len(ps) - 1
  <2>1. Leaders(ps, k) \in SUBSET ((1..Len(ps)) \ {k})
    BY <1>2
  <2>2. IsFiniteSet((1..Len(ps)) \ {k}) /\ Cardinality((1..Len(ps)) \ {k}) = Len(ps) - 1
    <3>1. IsFiniteSet(1..Len(ps)) /\ Cardinality(1..Len(ps)) = Len(ps)
      BY <1>1, Intervals
    <3> QED
      BY <3>1, FS_RemoveElement
  <2> QED
    BY <2>1, <2>2, FS_Subset
<1>4. ASSUME NEW j \in Leaders(ps, k)
      PROVE  Cardinality(Leaders(ps, j)) < Cardinality(Leaders(ps, k))
  <2>1. j \in 1..Len(ps) /\ StandsBefore(ps, j, k)
    BY DEF Leaders
  <2>2. Leaders(ps, j) \cup {j} \in SUBSET Leaders(ps, k)
    BY <2>1, TotalOrder DEF Leaders
  <2>3. Cardinality(Leaders(ps, j) \cup {j}) = Cardinality(Leaders(ps, j)) + 1
    BY <2>1, <1>2, FS_AddElement
  <2>4. Cardinality(Leaders(ps, j) \cup {j}) <= Cardinality(Leaders(ps, k))
    BY <2>2, <1>2, FS_Subset
  <2> QED
    BY <2>1, <2>3, <2>4, <1>2
<1> QED
  BY <1>1, <1>2, <1>3, <1>4

\* What a sorted list is: a permutation of the rules in which each stands before the next.
IsSorting(ps, w) ==
    /\ w \in [1..Len(ps) -> 1..Len(ps)]
    /\ \A k \in 1..Len(ps) : Sorted(ps)[k] = ps[w[k]]
    /\ \A j \in 1..Len(ps) : \E k \in 1..Len(ps) : w[k] = j
    /\ \A k, l \in 1..Len(ps) : k < l => StandsBefore(ps, w[k], w[l])

LEMMA SortedRules ==
    ASSUME NEW ps \in Seq(YamlPattern)
    PROVE  /\ Sorted(ps) \in Seq(YamlPattern) /\ Len(Sorted(ps)) = Len(ps)
           /\ \E w : IsSorting(ps, w)
<1> DEFINE n == Len(ps)
           count == [k \in 1..n |-> Cardinality(Leaders(ps, k))]
           w == [k \in 1..n |-> CHOOSE j \in 1..n : Cardinality(Leaders(ps, j)) = k - 1]
<1>1. n \in Nat
  BY LenProperties
<1>2. count \in Injection(1..n, 0..(n - 1))
  <2>1. count \in [1..n -> 0..(n - 1)]
    BY LeadersCount
  <2>2. ASSUME NEW j \in 1..n, NEW k \in 1..n, count[j] = count[k] PROVE j = k
    <3>1. j \notin Leaders(ps, k) /\ k \notin Leaders(ps, j)
      BY <2>2, LeadersCount
    <3> QED
      BY <3>1, TotalOrder DEF Leaders
  <2> QED
    BY <2>1, <2>2, Fun_IsInj
<1>3. ASSUME NEW m \in 0..(n - 1)
      PROVE  \E k \in 1..n : Cardinality(Leaders(ps, k)) = m
  <2>1. IsFiniteSet(0..(n - 1)) /\ Cardinality(0..(n - 1)) = n /\ Cardinality(1..n) = n
    BY <1>1, Intervals
  <2>2. count \in Surjection(1..n, 0..(n - 1))
    <3> HIDE DEF count
    <3> QED
      BY <1>2, <2>1, FS_Injection
  <2>3. \A t \in 0..(n - 1) : \E k \in 1..n : count[k] = t
    <3> HIDE DEF count
    <3> QED
      BY <2>2, Zenon DEF Surjection
  <2> QED
    BY <2>3
<1>4. \A k \in 1..n : w[k] \in 1..n /\ Cardinality(Leaders(ps, w[k])) = k - 1
  <2> TAKE k \in 1..n
  <2>1. k - 1 \in 0..(n - 1)
    BY <1>1
  <2> QED
    BY <2>1, <1>3
<1>5. w \in [1..n -> 1..n]
  BY <1>4
<1>6. Sorted(ps) = [k \in 1..n |-> ps[w[k]]]
  BY DEF Sorted
<1>7. \A k \in 1..n : ps[w[k]] \in YamlPattern
  BY <1>4, ElementOfSeq
<1>8. Sorted(ps) \in Seq(YamlPattern) /\ Len(Sorted(ps)) = n
  <2> HIDE DEF w
  <2> QED
    BY <1>1, <1>6, <1>7
<1>9. ASSUME NEW j \in 1..n PROVE \E k \in 1..n : w[k] = j
  <2> DEFINE k == Cardinality(Leaders(ps, j)) + 1
  <2>1. k \in 1..n /\ k - 1 = Cardinality(Leaders(ps, j))
    BY LeadersCount, <1>1
  <2>2. Cardinality(Leaders(ps, w[k])) = Cardinality(Leaders(ps, j)) /\ w[k] \in 1..n
    BY <2>1, <1>4
  <2>3. count[w[k]] = count[j]
    BY <2>2
  <2>4. w[k] = j
    BY <2>2, <2>3, <1>2, Fun_InjectionProperties
  <2> QED
    BY <2>1, <2>4
<1>10. ASSUME NEW k \in 1..n, NEW l \in 1..n, k < l PROVE StandsBefore(ps, w[k], w[l])
  <2> DEFINE a == w[k]
             b == w[l]
  <2>1. /\ a \in 1..n /\ b \in 1..n
        /\ Cardinality(Leaders(ps, a)) = k - 1 /\ Cardinality(Leaders(ps, b)) = l - 1
    BY <1>4
  <2> HIDE DEF a, b
  <2>2. b \notin Leaders(ps, a) /\ a # b
    BY <2>1, <1>10, LeadersCount
  <2>3. ~StandsBefore(ps, b, a)
    BY <2>1, <2>2 DEF Leaders
  <2>4. StandsBefore(ps, a, b)
    BY <2>1, <2>2, <2>3, TotalOrder
  <2> QED
    BY <2>4 DEF a, b
<1>11. IsSorting(ps, w)
  <2> HIDE DEF w
  <2> QED
    BY <1>1, <1>5, <1>6, <1>9, <1>10 DEF IsSorting
<1> QED
  BY <1>8, <1>11

-----------------------------------------------------------------------------
(* The invariant.                                                           *)

\* The rules of the files and parts of files that were read.
SoFar == {pl \in Loadable : pl[1] <= f \/ (pl[1] = f + 1 /\ pl[2] <= seen)}

\* Entry k of the patterns is the rule at o[k], and every rule of S is at some entry.
Lists(o, S) ==
    /\ o \in [1..Len(patterns) -> S]
    /\ \A k \in 1..Len(patterns) : patterns[k] = RuleAt(o[k])
    /\ \A pl \in S : \E k \in 1..Len(patterns) : o[k] = pl

RankAt(pl) == SeverityRank(RuleAt(pl).severity)

\* The order in which the rules are used.
Precedes(pl, ql) ==
    RankAt(pl) > RankAt(ql) \/ (RankAt(pl) = RankAt(ql) /\ Before(pl, ql))

\* While the files are read: what is loaded is what was read, in the order of the files.
ReadingInv ==
    stage = "load" =>
        \E o : /\ Lists(o, SoFar)
              /\ \A k, l \in 1..Len(patterns) : k < l => Before(o[k], o[l])

\* Afterwards: all there is to load, by severity.
LoadedInv ==
    stage \in {"index", "scan", "done"} =>
        /\ patterns # <<>>
        /\ \E o : /\ Lists(o, Loadable)
                 /\ \A k, l \in 1..Len(patterns) : k < l => Precedes(o[k], o[l])

EmptyInv == stage = "empty" => Loadable = {}

\* Nothing is scanned before the lines are indexed.
BeforeScan ==
    /\ stage \in {"load", "index", "failed", "empty"} =>
         pc = "index" /\ findings = <<>> /\ p = 1 /\ at = 0
    /\ pc = "search" => stage = "scan" /\ p <= Len(patterns)
    /\ stage = "done" => p > Len(patterns)

\* A hit that may be reported, of pattern q.
IsFound(h, q) ==
    /\ h \in input.hits /\ q \in 1..Len(patterns) /\ h.rule = patterns[q].id
    /\ patterns[q].verifier = "known" => h.valid

\* While lineOf runs, it looks up the match that was accepted, the last one so far.
HitInv ==
    /\ pc # "index" => offset = hit.from
    /\ pc = "search" => IsFound(hit, p) /\ at = hit.to

\* Finding k is hit h of pattern q.
IsAbout(k, h, q) ==
    LET g == findings[k]
    IN  /\ g.rule = h.rule /\ g.from = h.from /\ g.to = h.to
        /\ g.severity = patterns[q].severity
        /\ g.verified = Verifiable(patterns[q])

\* Every finding is a hit of a pattern that has had its turn; those of the pattern
\* in use end where its search goes on, or where the match begins that is looked up.
FoundInv ==
    \A k \in 1..Len(findings) :
        \E h \in input.hits, q \in 1..p :
           /\ IsFound(h, q) /\ IsAbout(k, h, q)
           /\ q = p => h.to <= at /\ (pc = "search" => h.to <= hit.from)

\* The findings stand in the order of the patterns, and one behind the other.
Follows(d, e) ==
    \E q, s \in 1..Len(patterns) :
        /\ d.rule = patterns[q].id /\ d.severity = patterns[q].severity
        /\ e.rule = patterns[s].id /\ e.severity = patterns[s].severity
        /\ q <= s /\ (q = s => d.to <= e.from)

OrderInv ==
    \A k, l \in 1..Len(findings) : k < l => Follows(findings[k], findings[l])

\* A hit that begins inside none of its rule.
Clear(h) == \A g \in input.hits : ~(g.rule = h.rule /\ g.from < h.from /\ h.from < g.to)

\* What the searches have passed is reported, if it is valid and clear.
PassedInv ==
    stage \in {"scan", "done"} =>
        \A q \in 1..Len(patterns) : \A h \in input.hits :
            /\ IsFound(h, q) /\ Clear(h)
            /\ q < p \/ (q = p /\ h.from < at)
            => Reported(h) \/ (pc = "search" /\ h = hit)

IInv ==
    /\ TypeOK /\ LookupInv /\ content = input.content
    /\ ReadingInv /\ LoadedInv /\ EmptyInv
    /\ BeforeScan /\ HitInv /\ FoundInv /\ OrderInv /\ PassedInv
    /\ LinesAreExact

-----------------------------------------------------------------------------
(* The steps of the lookup and the types.                                   *)

LEMMA PlacesAre ==
    ASSUME NEW files, NEW pl
    PROVE  pl \in PlacesIn(files) <=>
              \E k \in 1..Len(files) : \E n \in 1..Len(files[k].rules) : pl = <<k, n>>
<1> DEFINE Row(k) == {<<k, n>> : n \in 1..Len(files[k].rules)}
<1>1. PlacesIn(files) = UNION {Row(k) : k \in 1..Len(files)}
  BY DEF PlacesIn
<1>2. \A k : pl \in Row(k) <=> \E n \in 1..Len(files[k].rules) : pl = <<k, n>>
  OBVIOUS
<1>3. pl \in PlacesIn(files) <=> \E k \in 1..Len(files) : pl \in Row(k)
  <2> HIDE DEF Row
  <2> QED
    BY <1>1
<1> QED
  BY <1>2, <1>3, Zenon

\* What InputsAssumption says of the input in use.
LEMMA InputFacts ==
    ASSUME input \in Inputs
    PROVE  /\ input.content \in Seq(Byte)
           /\ input.files \in Seq(YamlFile) /\ Len(input.files) \in Nat
           /\ \A k \in 1..Len(input.files) :
                /\ input.files[k].parses \in BOOLEAN
                /\ input.files[k].rules \in Seq(YamlPattern)
                /\ Len(input.files[k].rules) \in Nat
           /\ \A pl \in Places :
                /\ pl = <<pl[1], pl[2]>> /\ pl[1] \in 1..Len(input.files)
                /\ pl[2] \in 1..Len(input.files[pl[1]].rules)
                /\ RuleAt(pl) \in YamlPattern
           /\ \A pl, ql \in Places : RuleAt(pl).id = RuleAt(ql).id => pl = ql
           /\ \A h \in input.hits :
                /\ h \in Match /\ h.from \in 0..Len(input.content) /\ h.from < h.to
                /\ \A g \in input.hits : g.rule = h.rule /\ g.from = h.from => g = h
<1>1. WellFormed(input)
  BY InputsAssumption
<1>2. input.content \in Seq(Byte) /\ input.files \in Seq(YamlFile) /\ Len(input.files) \in Nat
  BY <1>1, LenProperties DEF WellFormed
<1>3. ASSUME NEW k \in 1..Len(input.files)
      PROVE  /\ input.files[k].parses \in BOOLEAN
             /\ input.files[k].rules \in Seq(YamlPattern)
             /\ Len(input.files[k].rules) \in Nat
  <2>1. input.files[k] \in YamlFile
    BY <1>2, ElementOfSeq
  <2>2. input.files[k].parses \in BOOLEAN /\ input.files[k].rules \in Seq(YamlPattern)
    BY <2>1 DEF YamlFile
  <2> QED
    BY <2>2, LenProperties
<1>4. ASSUME NEW pl \in Places
      PROVE  /\ pl = <<pl[1], pl[2]>> /\ pl[1] \in 1..Len(input.files)
             /\ pl[2] \in 1..Len(input.files[pl[1]].rules)
             /\ RuleAt(pl) \in YamlPattern
  <2>1. PICK k \in 1..Len(input.files) : \E n \in 1..Len(input.files[k].rules) : pl = <<k, n>>
    BY PlacesAre DEF Places
  <2>2. PICK n \in 1..Len(input.files[k].rules) : pl = <<k, n>>
    BY <2>1
  <2>3. pl[1] = k /\ pl[2] = n /\ pl = <<pl[1], pl[2]>>
    BY <2>2
  <2>4. input.files[k].rules[n] \in YamlPattern
    BY <1>3, ElementOfSeq
  <2> QED
    BY <2>3, <2>4 DEF RuleAt, RuleIn
<1>5. \A pl, ql \in Places : RuleAt(pl).id = RuleAt(ql).id => pl = ql
  BY <1>1, Zenon DEF WellFormed, Places, RuleAt
<1>6. \A h \in input.hits :
        /\ h \in Match /\ h.from \in 0..Len(input.content) /\ h.from < h.to
        /\ \A g \in input.hits : g.rule = h.rule /\ g.from = h.from => g = h
  BY <1>1, Zenon DEF WellFormed
<1> QED
  BY <1>2, <1>3, <1>4, <1>5, <1>6

LEMMA MatchType ==
    ASSUME NEW h \in Match
    PROVE  h.rule \in STRING /\ h.from \in Nat /\ h.to \in Nat /\ h.valid \in BOOLEAN
BY DEF Match

\* A scan touches the lookup by its own steps only.
LEMMA LookupStep ==
    IInv /\ [Next]_vars => LookupInv' /\ content' = content /\ input' = input
<1> SUFFICES ASSUME IInv, [Next]_vars
             PROVE  LookupInv' /\ content' = content /\ input' = input
  OBVIOUS
<1>1. LookupInv /\ input \in Inputs /\ content = input.content
  BY DEF IInv, TypeOK
<1>2. ASSUME UNCHANGED <<lookupVars, input>>
      PROVE  LookupInv' /\ content' = content /\ input' = input
  BY <1>1, <1>2 DEF lookupVars, LookupInv, LookupTypeOK, TableInv, SearchInv, LineIsExact,
     Newlines
<1>3. CASE LoadRule \/ FileEnds \/ WalkFails \/ LoadEnds \/ LinesIndexed \/ NextPattern
           \/ Return \/ \E h \in input.hits : Drop(h)
  BY <1>2, <1>3 DEF LoadRule, FileEnds, WalkFails, LoadEnds, LinesIndexed, NextPattern,
     Return, Drop
<1>4. CASE IndexLines
  BY <1>1, <1>4, IndexInv DEF IndexLines, Index, engineVars
<1>5. ASSUME NEW h \in input.hits, Accept(h)
      PROVE  LookupInv' /\ content' = content /\ input' = input
  <2>1. h.from \in 0..Len(content)
    BY <1>1, InputFacts
  <2> QED
    BY <1>1, <1>5, <2>1, StartSearchInv DEF Accept, StartSearch
<1>6. CASE SearchLine
  BY <1>1, <1>6, SearchStepInv DEF SearchLine, Search, engineVars
<1>7. CASE Report
  BY <1>1, <1>7, FinishInv DEF Report, Finish
<1>8. CASE UNCHANGED vars
  BY <1>2, <1>8 DEF vars, engineVars
<1> QED
  BY <1>3, <1>4, <1>5, <1>6, <1>7, <1>8 DEF Next

LEMMA InitTypes == Init => TypeOK
<1> SUFFICES ASSUME Init PROVE TypeOK
  OBVIOUS
<1>1. LookupTypeOK
  BY InitInv DEF Init, LookupInv
<1>2. /\ input \in Inputs /\ stage = "load" /\ f = 0 /\ seen = 0 /\ patterns = <<>>
      /\ p = 1 /\ at = 0 /\ hit = NoHit /\ findings = <<>>
  BY DEF Init
<1>3. Len(input.files) \in Nat /\ \A k \in 1..Len(input.files) : Len(input.files[k].rules) \in Nat
  BY <1>2, InputFacts
<1>4. f \in 0..Len(input.files) /\ seen \in Nat
  BY <1>2, <1>3
<1>5. f < Len(input.files) => seen <= Len(File.rules)
  BY <1>2, <1>3 DEF File
<1>6. /\ patterns \in Seq(YamlPattern)
      /\ findings \in Seq([rule : STRING, from : Nat, to : Nat, line : Nat,
                           severity : Severities, verified : BOOLEAN, confidence : Nat])
  BY <1>2
<1>7. p \in 1..(Len(patterns) + 1) /\ at \in Nat
  BY <1>2
<1> QED
  BY <1>1, <1>2, <1>4, <1>5, <1>6, <1>7 DEF TypeOK

\* The record of a finding.
Finding == [rule : STRING, from : Nat, to : Nat, line : Nat,
            severity : Severities, verified : BOOLEAN, confidence : Nat]

\* The finding that Report makes.
New == [rule |-> patterns[p].id, from |-> hit.from, to |-> hit.to, line |-> line',
        severity |-> patterns[p].severity, verified |-> Verifiable(patterns[p]),
        confidence |-> Score(patterns[p].severity, Verifiable(patterns[p]))]

LEMMA ReportType == IInv /\ Report => New \in Finding /\ p \in 1..Len(patterns)
<1> SUFFICES ASSUME IInv, Report PROVE New \in Finding /\ p \in 1..Len(patterns)
  OBVIOUS
<1>1. pc = "search" /\ line' = lo + 1 /\ lo \in Nat
  BY DEF Report, Finish, IInv, TypeOK, LookupTypeOK
<1>2. p \in 1..Len(patterns) /\ hit \in input.hits /\ input \in Inputs
      /\ patterns \in Seq(YamlPattern)
  BY <1>1 DEF IInv, HitInv, IsFound, TypeOK
<1>3. patterns[p] \in YamlPattern
  BY <1>2, ElementOfSeq
<1>4. patterns[p].id \in STRING /\ patterns[p].severity \in Severities
  BY <1>3 DEF YamlPattern
<1>5. hit.from \in Nat /\ hit.to \in Nat
  BY <1>2, InputFacts, MatchType
<1>6. Verifiable(patterns[p]) \in BOOLEAN
  BY DEF Verifiable
<1>7. Score(patterns[p].severity, Verifiable(patterns[p])) \in Nat
  <2> DEFINE s == patterns[p].severity
             v == Verifiable(patterns[p])
  <2>1. s \in Severities
    BY <1>4
  <2> HIDE DEF s, v
  <2>2. Score(s, v) \in Nat
    BY <2>1 DEF Score, Severities
  <2> QED
    BY <2>2 DEF s, v
<1>8. line' \in Nat
  BY <1>1
<1> QED
  BY <1>2, <1>4, <1>5, <1>6, <1>7, <1>8 DEF New, Finding

\* Every step keeps the types.
LEMMA TypeStep == IInv /\ [Next]_vars => TypeOK'
<1> SUFFICES ASSUME IInv, [Next]_vars PROVE TypeOK'
  OBVIOUS
<1>1. LookupTypeOK' /\ input' = input
  BY LookupStep DEF LookupInv
<1>2. /\ TypeOK /\ input \in Inputs /\ f \in 0..Len(input.files) /\ seen \in Nat
      /\ patterns \in Seq(YamlPattern) /\ Len(patterns) \in Nat
      /\ p \in 1..(Len(patterns) + 1) /\ at \in Nat /\ hit \in input.hits \cup {NoHit}
      /\ findings \in Seq(Finding)
      /\ stage \in {"load", "index", "scan", "done", "failed", "empty"}
  BY LenProperties DEF IInv, TypeOK, Finding
<1>3. /\ Len(input.files) \in Nat
      /\ \A k \in 1..Len(input.files) : /\ input.files[k].rules \in Seq(YamlPattern)
                                        /\ Len(input.files[k].rules) \in Nat
      /\ \A h \in input.hits : h.from \in Nat /\ h.to \in Nat
  BY <1>2, InputFacts, MatchType
<1>4. ASSUME UNCHANGED <<f, seen, patterns>>,
             stage' \in {"load", "index", "scan", "done", "failed", "empty"},
             p' \in 1..(Len(patterns) + 1), at' \in Nat,
             hit' \in input.hits \cup {NoHit}, findings' \in Seq(Finding)
      PROVE  TypeOK'
  <2>1. f' < Len(input'.files) => seen' <= Len(File'.rules)
    BY <1>1, <1>2, <1>4 DEF TypeOK, File
  <2> QED
    BY <1>1, <1>2, <1>4, <2>1 DEF TypeOK, Finding
<1>5. CASE LoadRule
  <2>1. f + 1 \in 1..Len(input.files) /\ File.rules \in Seq(YamlPattern) /\ Len(File.rules) \in Nat
    BY <1>2, <1>3, <1>5 DEF LoadRule, File
  <2>2. seen + 1 \in 1..Len(File.rules)
    BY <1>2, <1>5, <2>1 DEF LoadRule, GoesOn, HasMoreRules
  <2>3. File.rules[seen + 1] \in YamlPattern
    BY <2>1, <2>2, ElementOfSeq
  <2>4. patterns' \in Seq(YamlPattern) /\ Len(patterns) <= Len(patterns')
        /\ Len(patterns') \in Nat
    <3>1. CASE patterns' = patterns
      BY <1>2, <3>1
    <3>2. CASE patterns' = Append(patterns, File.rules[seen + 1])
      <4> DEFINE e == File.rules[seen + 1]
      <4> HIDE DEF e
      <4>1. Append(patterns, e) \in Seq(YamlPattern) /\ Len(Append(patterns, e)) = Len(patterns) + 1
        BY <1>2, <2>3, AppendProperties DEF e
      <4> QED
        BY <1>2, <3>2, <4>1 DEF e
    <3> QED
      BY <1>5, <3>1, <3>2 DEF LoadRule
  <2>5. /\ seen' = seen + 1 /\ UNCHANGED <<stage, f, p, at, hit, findings>>
    BY <1>5 DEF LoadRule
  <2>6. File' = File
    BY <1>1, <2>5 DEF File
  <2>7. p' \in 1..(Len(patterns') + 1)
    BY <1>2, <2>4, <2>5
  <2> QED
    BY <1>1, <1>2, <2>1, <2>2, <2>4, <2>5, <2>6, <2>7 DEF TypeOK, Finding
<1>6. CASE FileEnds
  <2>1. f' = f + 1 /\ seen' = 0 /\ f < Len(input.files)
        /\ UNCHANGED <<stage, patterns, p, at, hit, findings>>
    BY <1>6 DEF FileEnds
  <2>2. f' < Len(input'.files) => seen' <= Len(File'.rules)
    <3> SUFFICES ASSUME f + 1 < Len(input.files) PROVE 0 <= Len(input.files[(f + 1) + 1].rules)
      BY <1>1, <2>1 DEF File
    <3>1. (f + 1) + 1 \in 1..Len(input.files)
      BY <1>2, <1>3
    <3> QED
      BY <1>3, <3>1
  <2> QED
    BY <1>1, <1>2, <1>3, <2>1, <2>2 DEF TypeOK, Finding
<1>7. CASE LoadEnds
  <2>1. /\ stage' \in {"index", "empty"} /\ UNCHANGED <<f, seen, p, at, hit, findings>>
        /\ patterns' = patterns \/ patterns' = Sorted(patterns)
    BY <1>7 DEF LoadEnds
  <2>2. patterns' \in Seq(YamlPattern) /\ Len(patterns') = Len(patterns)
    BY <1>2, <2>1, SortedRules
  <2>3. p' \in 1..(Len(patterns') + 1)
    BY <1>2, <2>1, <2>2
  <2>4. f' < Len(input'.files) => seen' <= Len(File'.rules)
    BY <1>1, <1>2, <2>1 DEF TypeOK, File
  <2> QED
    BY <1>1, <1>2, <2>1, <2>2, <2>3, <2>4 DEF TypeOK, Finding
<1>8. CASE WalkFails \/ LinesIndexed \/ Return \/ IndexLines \/ SearchLine \/ UNCHANGED vars
  BY <1>2, <1>4, <1>8 DEF WalkFails, LinesIndexed, Return, IndexLines, SearchLine, vars,
     engineVars
<1>9. ASSUME NEW h \in input.hits, Drop(h) \/ Accept(h) PROVE TypeOK'
  BY <1>2, <1>3, <1>4, <1>9 DEF Drop, Accept, NextAt
<1>10. CASE Report
  <2>1. New \in Finding
    BY <1>10, ReportType
  <2>2. findings' = Append(findings, New)
    BY <1>10 DEF Report, New
  <2>3. findings' \in Seq(Finding)
    BY <1>2, <2>1, <2>2, AppendProperties
  <2> QED
    BY <1>2, <1>4, <1>10, <2>3 DEF Report
<1>11. CASE NextPattern
  BY <1>2, <1>4, <1>11 DEF NextPattern, Matching
<1> QED
  BY <1>5, <1>6, <1>7, <1>8, <1>9, <1>10, <1>11 DEF Next

-----------------------------------------------------------------------------
(* Loading.                                                                 *)

LEMMA Rigid ==
    ASSUME input' = input
    PROVE  /\ Loadable' = Loadable /\ Places' = Places
           /\ \A pl : RuleAt(pl)' = RuleAt(pl)
           /\ \A pl, ql : Precedes(pl, ql)' = Precedes(pl, ql)
           /\ \A h : Clear(h)' = Clear(h)
BY DEF Loadable, Places, RuleAt, Wanted, Precedes, RankAt, Clear

LEMMA FilesKept ==
    ASSUME IInv, UNCHANGED <<input, f, seen, patterns>>,
           stage' = stage \/ (stage' \in {"scan", "done"} /\ stage \in {"index", "scan"})
    PROVE  ReadingInv' /\ LoadedInv' /\ EmptyInv'
<1>1. /\ Loadable' = Loadable /\ \A pl : RuleAt(pl)' = RuleAt(pl)
      /\ \A pl, ql : Precedes(pl, ql)' = Precedes(pl, ql)
  BY Rigid
<1>2. SoFar' = SoFar
  BY <1>1 DEF SoFar
<1>3. \A o, S : Lists(o, S)' = Lists(o, S)
  BY <1>1 DEF Lists
<1>4. ReadingInv'
  BY <1>2, <1>3 DEF IInv, ReadingInv
<1>5. LoadedInv'
  BY <1>1, <1>3 DEF IInv, LoadedInv
<1> QED
  BY <1>1, <1>4, <1>5 DEF IInv, EmptyInv

\* The rule that LoadRule looks at is the one place that SoFar gains, if it is to be loaded.
LEMMA SoFarGrows ==
    ASSUME IInv, LoadRule
    PROVE  LET new == <<f + 1, seen + 1>>
           IN  /\ new \in Places /\ new \notin SoFar
               /\ RuleAt(new) = File.rules[seen + 1]
               /\ new \in Loadable <=> RuleAt(new).compiles /\ Wanted(RuleAt(new))
               /\ SoFar' = SoFar \cup ({new} \cap Loadable)
               /\ \A pl \in SoFar : Before(pl, new)
<1> DEFINE new == <<f + 1, seen + 1>>
<1>1. /\ input \in Inputs /\ f \in Nat /\ seen \in Nat /\ f < Len(input.files) /\ GoesOn
      /\ seen' = seen + 1 /\ f' = f /\ input' = input
  BY DEF IInv, TypeOK, LoadRule
<1>2. Len(input.files) \in Nat /\ f + 1 \in 1..Len(input.files)
  BY <1>1, InputFacts
<1>3. File.parses /\ seen < Len(File.rules) /\ Len(File.rules) \in Nat
  BY <1>1, <1>2, InputFacts DEF GoesOn, HasMoreRules, File
<1>4. new \in Places
  <2>1. seen + 1 \in 1..Len(input.files[f + 1].rules)
    BY <1>1, <1>3 DEF File
  <2> QED
    BY <1>2, <2>1, PlacesAre DEF Places
<1>5. RuleAt(new) = File.rules[seen + 1] /\ new[1] = f + 1 /\ new[2] = seen + 1
  BY DEF RuleAt, RuleIn, File
<1>6. new \in Loadable <=> RuleAt(new).compiles /\ Wanted(RuleAt(new))
  BY <1>3, <1>4, <1>5 DEF Loadable, File
<1>7. \A pl \in Loadable : pl = <<pl[1], pl[2]>> /\ pl[1] \in Nat /\ pl[2] \in Nat
  <2>1. \A pl \in Places : /\ pl = <<pl[1], pl[2]>> /\ pl[1] \in 1..Len(input.files)
                           /\ pl[2] \in 1..Len(input.files[pl[1]].rules)
    BY <1>1, InputFacts
  <2>2. \A k \in 1..Len(input.files) : Len(input.files[k].rules) \in Nat
    BY <1>1, InputFacts
  <2> QED
    BY <1>2, <2>1, <2>2 DEF Loadable
<1>8. SoFar' = {pl \in Loadable : pl[1] <= f \/ (pl[1] = f + 1 /\ pl[2] <= seen + 1)}
  BY <1>1, Rigid DEF SoFar
<1>9. new \notin SoFar /\ \A pl \in SoFar : Before(pl, new)
  BY <1>1, <1>5, <1>7 DEF SoFar, Before
<1>10. SoFar' = SoFar \cup ({new} \cap Loadable)
  <2>1. ASSUME NEW pl \in Loadable
        PROVE  (pl[1] <= f \/ (pl[1] = f + 1 /\ pl[2] <= seen + 1))
                  <=> (pl[1] <= f \/ (pl[1] = f + 1 /\ pl[2] <= seen)) \/ pl = new
    <3>1. pl = new <=> pl[1] = f + 1 /\ pl[2] = seen + 1
      BY <1>5, <1>7
    <3> HIDE DEF new
    <3> QED
      BY <1>1, <1>7, <3>1
  <2> HIDE DEF new
  <2> QED
    BY <1>8, <2>1 DEF SoFar
<1> HIDE DEF new
<1> QED
  BY <1>4, <1>5, <1>6, <1>9, <1>10 DEF new

LEMMA LoadRuleInv == IInv /\ LoadRule => ReadingInv' /\ LoadedInv' /\ EmptyInv'
<1> SUFFICES ASSUME IInv, LoadRule PROVE ReadingInv' /\ LoadedInv' /\ EmptyInv'
  OBVIOUS
<1> DEFINE new == <<f + 1, seen + 1>>
           e == File.rules[seen + 1]
           n == Len(patterns)
<1>1. /\ stage = "load" /\ stage' = "load" /\ input' = input
      /\ patterns \in Seq(YamlPattern) /\ n \in Nat
      /\ patterns' = IF e.compiles /\ Wanted(e) THEN Append(patterns, e) ELSE patterns
  BY LenProperties DEF IInv, TypeOK, LoadRule
<1>2. /\ RuleAt(new) = e /\ new \in Places
      /\ new \in Loadable <=> e.compiles /\ Wanted(e)
      /\ SoFar' = SoFar \cup ({new} \cap Loadable)
      /\ \A pl \in SoFar : Before(pl, new)
  BY SoFarGrows
<1>3. \A pl : RuleAt(pl)' = RuleAt(pl)
  BY <1>1, Rigid
<1>4. \A pl, ql : Before(pl, ql)' = Before(pl, ql)
  BY DEF Before
<1>5. PICK o : Lists(o, SoFar) /\ \A k, l \in 1..n : k < l => Before(o[k], o[l])
  BY <1>1 DEF IInv, ReadingInv
<1>6. e \in YamlPattern
  BY <1>1, <1>2, InputFacts DEF IInv, TypeOK
<1> HIDE DEF new, e
<1>7. CASE new \notin Loadable
  <2>1. patterns' = patterns /\ SoFar' = SoFar
    BY <1>1, <1>2, <1>7
  <2>2. Lists(o, SoFar)'
    BY <1>3, <1>5, <2>1 DEF Lists
  <2>3. ReadingInv'
    BY <1>4, <1>5, <2>1, <2>2 DEF ReadingInv
  <2> QED
    BY <1>1, <2>3 DEF LoadedInv, EmptyInv
<1>8. CASE new \in Loadable
  <2>0. PICK r : r = [k \in 1..(n + 1) |-> IF k = n + 1 THEN new ELSE o[k]]
    OBVIOUS
  <2>1. patterns' = Append(patterns, e) /\ SoFar' = SoFar \cup {new}
    BY <1>1, <1>2, <1>8
  <2>2. /\ Len(patterns') = n + 1 /\ patterns'[n + 1] = e
        /\ \A k \in 1..n : patterns'[k] = patterns[k]
    BY <1>1, <1>6, <2>1, AppendProperties
  <2>3. /\ o \in [1..n -> SoFar] /\ \A k \in 1..n : patterns[k] = RuleAt(o[k])
        /\ \A pl \in SoFar : \E k \in 1..n : o[k] = pl
    BY <1>5 DEF Lists
  <2> HIDE DEF n
  <2>4. r \in [1..(n + 1) -> SoFar \cup {new}]
    BY <1>1, <2>0, <2>3
  <2>5. r[n + 1] = new /\ \A k \in 1..n : r[k] = o[k]
    BY <1>1, <2>0
  <2>6. \A k \in 1..(n + 1) : patterns'[k] = RuleAt(r[k])
    BY <1>1, <1>2, <2>2, <2>3, <2>5
  <2>7. \A pl \in SoFar \cup {new} : \E k \in 1..(n + 1) : r[k] = pl
    BY <1>1, <2>3, <2>5
  <2>8. \A k, l \in 1..(n + 1) : k < l => Before(r[k], r[l])
    <3> SUFFICES ASSUME NEW k \in 1..(n + 1), NEW l \in 1..(n + 1), k < l
                 PROVE  Before(r[k], r[l])
      OBVIOUS
    <3>1. k \in 1..n /\ r[k] = o[k] /\ o[k] \in SoFar
      BY <1>1, <2>3, <2>5
    <3>2. CASE l = n + 1
      BY <1>2, <2>5, <3>1, <3>2
    <3>3. CASE l \in 1..n
      BY <1>5, <2>5, <3>1, <3>3 DEF n
    <3> QED
      BY <1>1, <3>2, <3>3
  <2>9. Lists(r, SoFar)'
    BY <1>3, <2>1, <2>2, <2>4, <2>6, <2>7 DEF Lists
  <2>10. ReadingInv'
    BY <1>4, <2>2, <2>8, <2>9 DEF ReadingInv
  <2> QED
    BY <1>1, <2>10 DEF LoadedInv, EmptyInv
<1> QED
  BY <1>7, <1>8

\* The rest of a file that is left has nothing to load.
LEMMA FileEndsInv == IInv /\ FileEnds => ReadingInv' /\ LoadedInv' /\ EmptyInv'
<1> SUFFICES ASSUME IInv, FileEnds PROVE ReadingInv' /\ LoadedInv' /\ EmptyInv'
  OBVIOUS
<1>1. /\ stage = "load" /\ stage' = "load" /\ input' = input /\ patterns' = patterns
      /\ input \in Inputs /\ f \in Nat /\ seen \in Nat /\ f < Len(input.files)
      /\ f' = f + 1 /\ seen' = 0 /\ ~GoesOn
  BY DEF IInv, TypeOK, FileEnds
<1>2. \A pl : RuleAt(pl)' = RuleAt(pl)
  BY <1>1, Rigid
<1>3. Len(input.files) \in Nat
  BY <1>1, InputFacts
<1>4. ASSUME NEW pl \in Loadable
      PROVE  pl[1] <= f + 1 \/ (pl[1] = (f + 1) + 1 /\ pl[2] <= 0)
                <=> pl[1] <= f \/ (pl[1] = f + 1 /\ pl[2] <= seen)
  <2>1. pl \in Places /\ input.files[pl[1]].parses
    BY DEF Loadable
  <2>2. pl[1] \in 1..Len(input.files) /\ pl[2] \in 1..Len(input.files[pl[1]].rules)
        /\ Len(input.files[pl[1]].rules) \in Nat
    BY <1>1, <2>1, InputFacts
  <2>3. pl[1] \in Nat /\ pl[2] \in Nat /\ pl[2] > 0
    BY <1>3, <2>2
  <2>4. pl[1] = f + 1 => pl[2] <= seen
    BY <1>1, <2>1, <2>2 DEF GoesOn, HasMoreRules, File
  <2> QED
    BY <1>1, <2>3, <2>4
<1>5. SoFar' = SoFar
  <2>1. SoFar' = {pl \in Loadable : pl[1] <= f + 1 \/ (pl[1] = (f + 1) + 1 /\ pl[2] <= 0)}
    BY <1>1, Rigid DEF SoFar
  <2> QED
    BY <1>4, <2>1 DEF SoFar
<1>6. \A o, S : Lists(o, S)' = Lists(o, S)
  BY <1>1, <1>2 DEF Lists
<1>7. \A pl, ql : Before(pl, ql)' = Before(pl, ql)
  BY DEF Before
<1>8. ReadingInv'
  BY <1>1, <1>5, <1>6, <1>7 DEF IInv, ReadingInv
<1> QED
  BY <1>1, <1>8 DEF LoadedInv, EmptyInv

\* Sorting what was read puts all that is to be loaded in its order.
LEMMA LoadEndsInv == IInv /\ LoadEnds => ReadingInv' /\ LoadedInv' /\ EmptyInv'
<1> SUFFICES ASSUME IInv, LoadEnds PROVE ReadingInv' /\ LoadedInv' /\ EmptyInv'
  OBVIOUS
<1> DEFINE n == Len(patterns)
<1>1. /\ stage = "load" /\ input' = input /\ input \in Inputs /\ f = Len(input.files)
      /\ patterns \in Seq(YamlPattern) /\ n \in Nat /\ f' = f
      /\ \/ stage' = "empty" /\ patterns = <<>>
         \/ stage' = "index" /\ patterns # <<>> /\ patterns' = Sorted(patterns)
  BY LenProperties DEF IInv, TypeOK, LoadEnds
<1>2. SoFar = Loadable
  <2>1. \A pl \in Loadable : pl[1] <= f
    BY <1>1, InputFacts DEF Loadable
  <2> QED
    BY <2>1 DEF SoFar
<1>3. PICK o : Lists(o, Loadable) /\ \A k, l \in 1..n : k < l => Before(o[k], o[l])
  BY <1>1, <1>2 DEF IInv, ReadingInv
<1>4. /\ o \in [1..n -> Loadable] /\ \A k \in 1..n : patterns[k] = RuleAt(o[k])
      /\ \A pl \in Loadable : \E k \in 1..n : o[k] = pl
  BY <1>3 DEF Lists
<1>5. CASE stage' = "empty" /\ patterns = <<>>
  <2>1. n = 0
    BY <1>5
  <2>2. Loadable = {}
    BY <1>4, <2>1
  <2>3. Loadable' = {}
    BY <1>1, <2>2, Rigid
  <2> QED
    BY <1>5, <2>3 DEF ReadingInv, LoadedInv, EmptyInv
<1>6. CASE stage' = "index" /\ patterns # <<>> /\ patterns' = Sorted(patterns)
  <2>1. PICK w : IsSorting(patterns, w)
    BY <1>1, SortedRules
  <2>2. Len(patterns') = n /\ patterns' # <<>>
    BY <1>1, <1>6, SortedRules
  <2>3. /\ w \in [1..n -> 1..n] /\ \A k \in 1..n : patterns'[k] = patterns[w[k]]
        /\ \A j \in 1..n : \E k \in 1..n : w[k] = j
        /\ \A k, l \in 1..n : k < l => StandsBefore(patterns, w[k], w[l])
    BY <1>6, <2>1 DEF IsSorting
  <2>4. PICK r : r = [k \in 1..n |-> o[w[k]]]
    OBVIOUS
  <2> HIDE DEF n
  <2>5. r \in [1..n -> Loadable] /\ \A k \in 1..n : r[k] = o[w[k]]
    BY <1>4, <2>3, <2>4
  <2>6. \A k \in 1..n : patterns'[k] = RuleAt(r[k])
    BY <1>4, <2>3, <2>5
  <2>7. \A pl \in Loadable : \E k \in 1..n : r[k] = pl
    <3> SUFFICES ASSUME NEW pl \in Loadable PROVE \E k \in 1..n : r[k] = pl
      OBVIOUS
    <3>1. PICK j \in 1..n : o[j] = pl
      BY <1>4
    <3>2. PICK k \in 1..n : w[k] = j
      BY <2>3
    <3> QED
      BY <2>5, <3>1, <3>2
  <2>8. ASSUME NEW k \in 1..n, NEW l \in 1..n, k < l PROVE Precedes(r[k], r[l])
    <3> DEFINE a == w[k]
               b == w[l]
    <3>1. a \in 1..n /\ b \in 1..n /\ StandsBefore(patterns, a, b)
      BY <2>3, <2>8
    <3>2. r[k] = o[a] /\ r[l] = o[b]
      BY <2>5
    <3> HIDE DEF a, b
    <3>3. RankAt(o[a]) = Rank(patterns, a) /\ RankAt(o[b]) = Rank(patterns, b)
      BY <1>4, <3>1 DEF RankAt, Rank
    <3>4. Rank(patterns, a) > Rank(patterns, b)
          \/ (Rank(patterns, a) = Rank(patterns, b) /\ a < b)
      BY <1>1, <3>1, TotalOrder DEF n
    <3>5. a < b => Before(o[a], o[b])
      BY <1>3, <3>1 DEF n
    <3> QED
      BY <3>2, <3>3, <3>4, <3>5 DEF Precedes
  <2>9. \A pl : RuleAt(pl)' = RuleAt(pl)
    BY <1>1, Rigid
  <2>10. \A pl, ql : Precedes(pl, ql)' = Precedes(pl, ql)
    BY <1>1, Rigid
  <2>11. Loadable' = Loadable
    BY <1>1, Rigid
  <2>12. Lists(r, Loadable)'
    BY <2>2, <2>5, <2>6, <2>7, <2>9, <2>11 DEF Lists
  <2>13. LoadedInv'
    BY <2>2, <2>8, <2>10, <2>12 DEF LoadedInv
  <2> QED
    BY <1>6, <2>13 DEF ReadingInv, EmptyInv
<1> QED
  BY <1>1, <1>5, <1>6

LEMMA WalkFailsInv == IInv /\ WalkFails => ReadingInv' /\ LoadedInv' /\ EmptyInv'
BY DEF WalkFails, ReadingInv, LoadedInv, EmptyInv

\* What the order of the patterns and the unique ids give: no two of them share an id,
\* and none is more severe than one before it.
LEMMA PatternOrder ==
    ASSUME IInv, stage \in {"index", "scan", "done"}
    PROVE  /\ \A k, l \in 1..Len(patterns) : patterns[k].id = patterns[l].id => k = l
           /\ \A k, l \in 1..Len(patterns) : k <= l =>
                SeverityRank(patterns[k].severity) >= SeverityRank(patterns[l].severity)
<1> DEFINE n == Len(patterns)
<1>1. patterns \in Seq(YamlPattern) /\ n \in Nat /\ input \in Inputs
  BY LenProperties DEF IInv, TypeOK
<1>2. PICK o : Lists(o, Loadable) /\ \A k, l \in 1..n : k < l => Precedes(o[k], o[l])
  BY DEF IInv, LoadedInv
<1>3. \A k \in 1..n : o[k] \in Places /\ patterns[k] = RuleAt(o[k])
  BY <1>2 DEF Lists, Loadable
<1>4. \A k \in 1..n : RankAt(o[k]) \in Nat /\ RankAt(o[k]) = SeverityRank(patterns[k].severity)
  BY <1>1, <1>3, RankType DEF RankAt, Rank
<1>5. \A pl \in Places : pl[1] \in Nat /\ pl[2] \in Nat
  <2>1. Len(input.files) \in Nat /\ \A k \in 1..Len(input.files) : Len(input.files[k].rules) \in Nat
    BY <1>1, InputFacts
  <2>2. \A pl \in Places : pl[1] \in 1..Len(input.files)
                           /\ pl[2] \in 1..Len(input.files[pl[1]].rules)
    BY <1>1, InputFacts
  <2> QED
    BY <2>1, <2>2
<1>6. \A k \in 1..n : ~Precedes(o[k], o[k])
  BY <1>3, <1>4, <1>5 DEF Precedes, Before
<1>7. ASSUME NEW k \in 1..n, NEW l \in 1..n, patterns[k].id = patterns[l].id PROVE k = l
  <2>1. o[k] = o[l]
    BY <1>1, <1>3, <1>7, InputFacts
  <2>2. ~(k < l) /\ ~(l < k)
    BY <1>2, <1>6, <2>1
  <2> QED
    BY <2>2, <1>1
<1>8. ASSUME NEW k \in 1..n, NEW l \in 1..n, k <= l
      PROVE  SeverityRank(patterns[k].severity) >= SeverityRank(patterns[l].severity)
  <2>1. CASE k = l
    BY <1>4, <2>1
  <2>2. CASE k < l
    BY <1>2, <1>4, <2>2 DEF Precedes
  <2> QED
    BY <1>1, <1>8, <2>1, <2>2
<1> QED
  BY <1>7, <1>8

-----------------------------------------------------------------------------
(* Scanning.                                                                *)

ScanInv == BeforeScan /\ HitInv /\ FoundInv /\ OrderInv /\ PassedInv /\ LinesAreExact

\* Up to the beginning of the scan there is nothing to find.
LEMMA EarlyInv ==
    ASSUME IInv, stage \in {"load", "index"}, stage' \in {"load", "index", "failed", "empty", "scan"},
           pc' = "index", UNCHANGED <<input, p, at, findings>>
    PROVE  ScanInv'
<1>1. pc = "index" /\ findings = <<>> /\ p = 1 /\ at = 0
  BY DEF IInv, BeforeScan
<1>2. Len(findings') = 0 /\ findings' = <<>> /\ p' = 1 /\ at' = 0
  BY <1>1
<1>3. BeforeScan' /\ HitInv'
  BY <1>2 DEF BeforeScan, HitInv
<1>4. FoundInv' /\ OrderInv' /\ LinesAreExact'
  BY <1>2 DEF FoundInv, OrderInv, LinesAreExact
<1>5. PassedInv'
  <2>1. \A h \in input'.hits : h.from \in Nat
    BY InputFacts, MatchType DEF IInv, TypeOK
  <2> QED
    BY <1>2, <2>1 DEF PassedInv
<1> QED
  BY <1>3, <1>4, <1>5 DEF ScanInv

LEMMA RigidScan ==
    ASSUME input' = input, patterns' = patterns
    PROVE  /\ \A h, q : IsFound(h, q)' <=> IsFound(h, q)
           /\ \A h : Clear(h)' <=> Clear(h)
           /\ \A q : Verifiable(patterns[q])' = Verifiable(patterns[q])
BY DEF IsFound, Clear, Verifiable

LEMMA RigidFindings ==
    ASSUME patterns' = patterns, findings' = findings, content' = content
    PROVE  /\ \A k, h, q : IsAbout(k, h, q)' <=> IsAbout(k, h, q)
           /\ \A h : Reported(h)' <=> Reported(h)
           /\ OrderInv' <=> OrderInv
           /\ LinesAreExact' <=> LinesAreExact
<1>1. \A k, h, q : IsAbout(k, h, q)' <=> IsAbout(k, h, q)
  BY DEF IsAbout, Verifiable
<1>2. \A h : Reported(h)' <=> Reported(h)
  BY DEF Reported
<1>3. OrderInv' <=> OrderInv
  <2>1. \A d, e : Follows(d, e)' <=> Follows(d, e)
    BY DEF Follows
  <2> QED
    BY <2>1 DEF OrderInv
<1>4. LinesAreExact' <=> LinesAreExact
  BY DEF LinesAreExact, Newlines
<1> QED
  BY <1>1, <1>2, <1>3, <1>4

\* Steps that leave the scan where it is.
LEMMA ScanKept ==
    ASSUME IInv, UNCHANGED <<input, content, patterns, p, at, hit, findings, pc, offset>>,
           stage' = stage \/ (stage = "scan" /\ stage' = "done" /\ pc # "search"
                              /\ p > Len(patterns))
    PROVE  ScanInv'
<1>1. /\ \A h, q : IsFound(h, q)' <=> IsFound(h, q)
      /\ \A h : Clear(h)' <=> Clear(h)
  BY RigidScan
<1>2. /\ \A k, h, q : IsAbout(k, h, q)' <=> IsAbout(k, h, q)
      /\ \A h : Reported(h)' <=> Reported(h)
      /\ OrderInv' /\ LinesAreExact'
  BY RigidFindings DEF IInv
<1>3. BeforeScan'
  BY DEF IInv, BeforeScan
<1>4. HitInv'
  BY <1>1 DEF IInv, HitInv
<1>5. FoundInv'
  BY <1>1, <1>2 DEF IInv, FoundInv
<1>6. PassedInv'
  BY <1>1, <1>2 DEF IInv, PassedInv
<1> QED
  BY <1>2, <1>3, <1>4, <1>5, <1>6 DEF ScanInv

\* Between two matches of the pattern in use, the search moves behind h.
LEMMA Advance ==
    ASSUME IInv, Matching, NEW g \in input.hits, IsNext(g), at' = g.to,
           UNCHANGED <<input, content, stage, patterns, p, findings>>,
           pc' \in {pc, "search"}, pc' = "search" => hit' = g,
           pc' # "search" => ~IsFound(g, p)
    PROVE  FoundInv' /\ PassedInv' /\ OrderInv' /\ LinesAreExact'
<1>1. /\ \A h, q : IsFound(h, q)' <=> IsFound(h, q)
      /\ \A h : Clear(h)' <=> Clear(h)
  BY RigidScan
<1>2. /\ \A k, h, q : IsAbout(k, h, q)' <=> IsAbout(k, h, q)
      /\ \A h : Reported(h)' <=> Reported(h)
      /\ OrderInv' /\ LinesAreExact'
  BY RigidFindings DEF IInv
<1>3. /\ input \in Inputs /\ at \in Nat /\ pc # "search" /\ stage = "scan"
      /\ p \in Int /\ \A q \in 1..Len(patterns) : q \in Int
  BY DEF IInv, TypeOK, Matching
<1>4. \A h \in input.hits : h.from \in Nat /\ h.to \in Nat /\ h.from < h.to
  BY <1>3, InputFacts, MatchType
<1>5. /\ g.rule = patterns[p].id /\ g.from >= at
      /\ \A h \in input.hits : h.rule = patterns[p].id /\ h.from >= at => g.from <= h.from
  BY DEF IsNext, Ahead
<1>6. FoundInv'
  <2>1. ASSUME NEW k \in 1..Len(findings)
        PROVE  \E h \in input.hits, q \in 1..p :
                  /\ IsFound(h, q) /\ IsAbout(k, h, q)
                  /\ q = p => h.to <= g.to /\ h.to <= g.from
    <3>1. PICK h \in input.hits, q \in 1..p :
             IsFound(h, q) /\ IsAbout(k, h, q) /\ (q = p => h.to <= at)
      BY DEF IInv, FoundInv
    <3>2. q = p => h.to <= g.to /\ h.to <= g.from
      BY <1>3, <1>4, <1>5, <3>1
    <3> QED
      BY <3>1, <3>2
  <2>2. \A k \in 1..Len(findings) :
           \E h \in input.hits, q \in 1..p :
              /\ IsFound(h, q)' /\ IsAbout(k, h, q)'
              /\ q = p => h.to <= at' /\ (pc' = "search" => h.to <= hit'.from)
    BY <1>1, <1>2, <2>1
  <2> QED
    BY <2>2 DEF FoundInv
<1>7. PassedInv'
  <2>1. ASSUME NEW q \in 1..Len(patterns), NEW h \in input.hits,
               IsFound(h, q), Clear(h), q < p \/ (q = p /\ h.from < g.to)
        PROVE  Reported(h) \/ (pc' = "search" /\ h = hit')
    <3>1. CASE q < p \/ (q = p /\ h.from < at)
      BY <1>3, <2>1, <3>1 DEF IInv, PassedInv
    <3>2. CASE q = p /\ ~(h.from < at)
      <4>1. h.rule = patterns[p].id /\ h.from >= at /\ h.from < g.to
        BY <1>3, <1>4, <2>1, <3>2 DEF IsFound
      <4>2. g.from <= h.from
        BY <1>5, <4>1
      <4>3. ~(g.from < h.from)
        BY <1>5, <2>1, <4>1 DEF Clear
      <4>4. g.from = h.from
        BY <1>4, <4>2, <4>3
      <4>5. g = h
        BY <1>3, <1>5, <4>1, <4>4, InputFacts
      <4> QED
        BY <2>1, <3>2, <4>5
    <3> QED
      BY <2>1, <3>1, <3>2
  <2>2. \A q \in 1..Len(patterns) : \A h \in input.hits :
           /\ IsFound(h, q)' /\ Clear(h)'
           /\ q < p \/ (q = p /\ h.from < at')
           => Reported(h)' \/ (pc' = "search" /\ h = hit')
    BY <1>1, <1>2, <2>1
  <2> QED
    BY <2>2 DEF PassedInv
<1> QED
  BY <1>2, <1>6, <1>7

LEMMA DropInv == ASSUME IInv, NEW g \in input.hits, Drop(g) PROVE ScanInv'
<1>1. /\ Matching /\ IsNext(g) /\ at' = g.to /\ Verifiable(patterns[p]) /\ ~g.valid
      /\ UNCHANGED <<input, stage, patterns, p, hit, findings, content, pc, offset>>
  BY DEF Drop, NextAt, lookupVars
<1>2. ~IsFound(g, p)
  BY <1>1 DEF IsFound, Verifiable
<1>3. pc # "search"
  BY <1>1 DEF Matching
<1>4. FoundInv' /\ PassedInv' /\ OrderInv' /\ LinesAreExact'
  BY <1>1, <1>2, <1>3, Advance
<1>5. BeforeScan' /\ HitInv'
  BY <1>1, <1>3 DEF IInv, BeforeScan, HitInv, Matching
<1> QED
  BY <1>4, <1>5 DEF ScanInv

LEMMA AcceptInv == ASSUME IInv, NEW g \in input.hits, Accept(g) PROVE ScanInv'
<1>1. /\ Matching /\ IsNext(g) /\ at' = g.to /\ hit' = g /\ pc' = "search" /\ offset' = g.from
      /\ Verifiable(patterns[p]) => g.valid
      /\ UNCHANGED <<input, stage, patterns, p, findings, content>>
  BY DEF Accept, NextAt, StartSearch
<1>2. FoundInv' /\ PassedInv' /\ OrderInv' /\ LinesAreExact'
  BY <1>1, Advance
<1>3. p \in 1..Len(patterns) /\ stage = "scan" /\ g.rule = patterns[p].id
  BY <1>1 DEF IInv, TypeOK, Matching, IsNext, Ahead
<1>4. IsFound(g, p)
  BY <1>1, <1>3 DEF IsFound, Verifiable
<1>5. BeforeScan'
  BY <1>1, <1>3 DEF BeforeScan
<1>6. HitInv'
  BY <1>1, <1>4, RigidScan DEF HitInv
<1> QED
  BY <1>2, <1>5, <1>6 DEF ScanInv

LEMMA ReportInv == ASSUME IInv, Report, LookupInv', content' = content PROVE ScanInv'
<1> DEFINE n == Len(findings)
<1>1. /\ stage = "scan" /\ pc = "search" /\ pc' = "done" /\ findings' = Append(findings, New)
      /\ UNCHANGED <<input, stage, patterns, p, at, hit, content, offset>>
  BY DEF Report, Finish, New
<1>2. IsFound(hit, p) /\ at = hit.to /\ offset = hit.from
  BY <1>1 DEF IInv, HitInv
<1>3. findings \in Seq(Finding) /\ n \in Nat /\ New \in Finding /\ p \in 1..Len(patterns)
  BY ReportType, LenProperties DEF IInv, TypeOK, Finding
<1>4. Len(findings') = n + 1 /\ findings'[n + 1] = New
      /\ \A k \in 1..n : findings'[k] = findings[k]
  BY <1>1, <1>3, AppendProperties
<1>5. /\ New.rule = patterns[p].id /\ New.from = hit.from /\ New.to = hit.to /\ New.line = line'
      /\ New.severity = patterns[p].severity /\ New.verified = Verifiable(patterns[p])
  BY DEF New
<1>6. \A h, q : IsFound(h, q)' <=> IsFound(h, q)
  BY <1>1, RigidScan
<1>7. input \in Inputs /\ \A h \in input.hits : h.from \in Nat /\ h.to \in Nat /\ h.from < h.to
  BY InputFacts, MatchType DEF IInv, TypeOK
<1>8. hit \in input.hits /\ hit.rule = patterns[p].id
  BY <1>2 DEF IsFound
<1> HIDE DEF n
<1>9. \A k \in 1..n : \A h, q : IsAbout(k, h, q)' <=> IsAbout(k, h, q)
  BY <1>1, <1>4 DEF IsAbout, Verifiable
<1>10. \A m, h, q : m = n + 1 /\ h = hit /\ q = p => IsAbout(m, h, q)'
  BY <1>1, <1>4, <1>5, <1>8 DEF IsAbout, Verifiable
<1>11. BeforeScan' /\ HitInv'
  BY <1>1, <1>2 DEF IInv, BeforeScan, HitInv
<1>12. FoundInv'
  <2>1. ASSUME NEW k \in 1..(n + 1)
        PROVE  \E h \in input.hits, q \in 1..p :
                  IsFound(h, q) /\ IsAbout(k, h, q)' /\ (q = p => h.to <= at)
    <3>1. CASE k \in 1..n
      <4>1. PICK h \in input.hits, q \in 1..p :
               IsFound(h, q) /\ IsAbout(k, h, q) /\ (q = p => h.to <= at)
        BY <3>1 DEF IInv, FoundInv, n
      <4>2. IsAbout(k, h, q)'
        BY <1>9, <3>1, <4>1
      <4> QED
        BY <4>1, <4>2
    <3>2. CASE k = n + 1
      <4>1. PICK h, q : h = hit /\ q = p
        OBVIOUS
      <4>2. h \in input.hits /\ h.to <= at /\ q \in 1..p /\ IsFound(h, q)
        BY <1>2, <1>3, <1>7, <1>8, <4>1
      <4>3. IsAbout(k, h, q)'
        BY <1>10, <3>2, <4>1
      <4> QED
        BY <4>2, <4>3
    <3> QED
      BY <1>3, <3>1, <3>2
  <2> QED
    BY <1>1, <1>4, <1>6, <2>1 DEF FoundInv
<1>13. OrderInv'
  <2>0. \A d, e : Follows(d, e)' <=> Follows(d, e)
    BY <1>1 DEF Follows
  <2> SUFFICES ASSUME NEW k \in 1..(n + 1), NEW l \in 1..(n + 1), k < l
               PROVE  Follows(findings'[k], findings'[l])
    BY <1>4, <2>0 DEF OrderInv
  <2>1. k \in 1..n /\ findings'[k] = findings[k]
    BY <1>3, <1>4
  <2>2. CASE l \in 1..n
    BY <1>4, <2>1, <2>2 DEF IInv, OrderInv, n
  <2>3. CASE l = n + 1
    <3>1. PICK h \in input.hits, q \in 1..p :
             IsFound(h, q) /\ IsAbout(k, h, q) /\ (q = p => h.to <= hit.from)
      BY <1>1, <2>1 DEF IInv, FoundInv, n
    <3>2. q \in 1..Len(patterns) /\ h.rule = patterns[q].id /\ q <= p
      BY <1>3, <3>1 DEF IsFound
    <3>3. findings'[k].rule = patterns[q].id /\ findings'[k].severity = patterns[q].severity
          /\ findings'[k].to = h.to
      BY <2>1, <3>1, <3>2 DEF IsAbout
    <3>4. findings'[l] = New
      BY <1>4, <2>3
    <3>5. Follows(findings'[k], New)
      BY <1>3, <1>5, <3>1, <3>2, <3>3 DEF Follows
    <3> QED
      BY <3>4, <3>5
  <2> QED
    BY <1>3, <2>2, <2>3
<1>14. PassedInv'
  <2>1. \A h : Reported(h) => Reported(h)'
    BY <1>3, <1>4 DEF Reported, n
  <2>2. Reported(hit)'
    <3>1. n + 1 \in 1..Len(findings')
      BY <1>3, <1>4
    <3>2. hit' = hit
      BY <1>1
    <3> QED
      BY <1>4, <1>5, <1>8, <3>1, <3>2 DEF Reported
  <2>3. \A h : Clear(h)' <=> Clear(h)
    BY <1>1, RigidScan
  <2>4. \A h : h = hit => Reported(h)'
    BY <1>1, <2>2 DEF Reported
  <2> QED
    BY <1>1, <1>6, <2>1, <2>3, <2>4 DEF IInv, PassedInv
<1>15. LinesAreExact'
  <2>1. line' = 1 + Cardinality(Newlines(offset))
    BY <1>1 DEF LookupInv, LineIsExact, Newlines
  <2>2. \A m : Cardinality(Newlines(m))' = Cardinality(Newlines(m))
    BY DEF Newlines
  <2>3. New.line = 1 + Cardinality(Newlines(New.from))
    BY <1>2, <1>5, <2>1
  <2>4. \A k \in 1..Len(findings') :
           findings'[k].line = 1 + Cardinality(Newlines(findings'[k].from))
    BY <1>3, <1>4, <2>3 DEF IInv, LinesAreExact, n
  <2> QED
    BY <2>2, <2>4 DEF LinesAreExact, Newlines
<1> QED
  BY <1>11, <1>12, <1>13, <1>14, <1>15 DEF ScanInv

LEMMA NextPatternInv == ASSUME IInv, NextPattern PROVE ScanInv'
<1>1. /\ Matching /\ Ahead = {} /\ p' = p + 1 /\ at' = 0
      /\ UNCHANGED <<input, stage, patterns, hit, findings, content, pc, offset>>
  BY DEF NextPattern, lookupVars
<1>2. pc # "search" /\ p \in 1..Len(patterns) /\ stage = "scan" /\ Len(patterns) \in Nat
  BY <1>1, LenProperties DEF IInv, TypeOK, Matching
<1>3. /\ \A h, q : IsFound(h, q)' <=> IsFound(h, q)
      /\ \A h : Clear(h)' <=> Clear(h)
  BY <1>1, RigidScan
<1>4. /\ \A k, h, q : IsAbout(k, h, q)' <=> IsAbout(k, h, q)
      /\ \A h : Reported(h)' <=> Reported(h)
      /\ OrderInv' /\ LinesAreExact'
  BY <1>1, RigidFindings DEF IInv
<1>5. input \in Inputs /\ at \in Nat /\ \A h \in input.hits : h.from \in Nat
  BY InputFacts, MatchType DEF IInv, TypeOK
<1>6. BeforeScan' /\ HitInv'
  BY <1>1, <1>2 DEF IInv, BeforeScan, HitInv
<1>7. FoundInv'
  <2>1. \A k \in 1..Len(findings) :
           \E h \in input.hits, q \in 1..(p + 1) :
              IsFound(h, q) /\ IsAbout(k, h, q) /\ q # p + 1
    <3> TAKE k \in 1..Len(findings)
    <3>1. PICK h \in input.hits, q \in 1..p : IsFound(h, q) /\ IsAbout(k, h, q)
      BY DEF IInv, FoundInv
    <3>2. q \in 1..(p + 1) /\ q # p + 1
      BY <1>2
    <3> QED
      BY <3>1, <3>2
  <2> QED
    BY <1>1, <1>3, <1>4, <2>1 DEF FoundInv
<1>8. PassedInv'
  <2>1. ASSUME NEW q \in 1..Len(patterns), NEW h \in input.hits,
               IsFound(h, q), Clear(h), q < p + 1 \/ (q = p + 1 /\ h.from < 0)
        PROVE  Reported(h)
    <3>1. q < p \/ q = p
      BY <1>2, <1>5, <2>1
    <3>2. q = p => h.from < at
      BY <1>1, <1>5, <2>1 DEF Ahead, IsFound
    <3> QED
      BY <1>2, <2>1, <3>1, <3>2 DEF IInv, PassedInv
  <2>2. \A q \in 1..Len(patterns) : \A h \in input.hits :
           /\ IsFound(h, q)' /\ Clear(h)'
           /\ q < p' \/ (q = p' /\ h.from < at')
           => Reported(h)'
    BY <1>1, <1>3, <1>4, <2>1
  <2> QED
    BY <1>1, <2>2 DEF PassedInv
<1> QED
  BY <1>4, <1>6, <1>7, <1>8 DEF ScanInv

-----------------------------------------------------------------------------
(* The theorems.                                                            *)

LEMMA EngineInit == Init => IInv
<1> SUFFICES ASSUME Init PROVE IInv
  OBVIOUS
<1>1. TypeOK /\ LookupInv
  BY InitTypes, InitInv DEF Init
<1>2. /\ content = input.content /\ stage = "load" /\ f = 0 /\ seen = 0 /\ patterns = <<>>
      /\ p = 1 /\ at = 0 /\ hit = NoHit /\ findings = <<>> /\ pc = "index"
  BY DEF Init, LookupInit
<1>3. Len(patterns) = 0 /\ Len(findings) = 0 /\ 1..0 = {}
  BY <1>2
<1>4. SoFar = {}
  <2>1. ASSUME NEW pl \in Loadable
        PROVE  ~(pl[1] <= f \/ (pl[1] = f + 1 /\ pl[2] <= seen))
    <3>1. Len(input.files) \in Nat
          /\ \A k \in 1..Len(input.files) : Len(input.files[k].rules) \in Nat
      BY <1>1, InputFacts DEF TypeOK
    <3>2. pl[1] \in 1..Len(input.files) /\ pl[2] \in 1..Len(input.files[pl[1]].rules)
      BY <1>1, InputFacts DEF TypeOK, Loadable
    <3> QED
      BY <1>2, <3>1, <3>2
  <2> QED
    BY <2>1 DEF SoFar
<1>5. ReadingInv
  <2>1. PICK o : o = [k \in {} |-> k]
    OBVIOUS
  <2>2. Lists(o, SoFar)
    BY <1>3, <1>4, <2>1 DEF Lists
  <2> QED
    BY <1>3, <2>2 DEF ReadingInv
<1>6. LoadedInv /\ EmptyInv /\ BeforeScan /\ HitInv /\ PassedInv
  BY <1>2 DEF LoadedInv, EmptyInv, BeforeScan, HitInv, PassedInv
<1>7. FoundInv /\ OrderInv /\ LinesAreExact
  BY <1>3 DEF FoundInv, OrderInv, LinesAreExact
<1> QED
  BY <1>1, <1>2, <1>5, <1>6, <1>7 DEF IInv

LEMMA FilesStep == IInv /\ [Next]_vars => ReadingInv' /\ LoadedInv' /\ EmptyInv'
<1> SUFFICES ASSUME IInv, [Next]_vars PROVE ReadingInv' /\ LoadedInv' /\ EmptyInv'
  OBVIOUS
<1>1. CASE LoadRule
  BY <1>1, LoadRuleInv
<1>2. CASE FileEnds
  BY <1>2, FileEndsInv
<1>3. CASE WalkFails
  BY <1>3, WalkFailsInv
<1>4. CASE LoadEnds
  BY <1>4, LoadEndsInv
<1>5. CASE IndexLines \/ SearchLine \/ Report \/ NextPattern \/ UNCHANGED vars
  <2>1. UNCHANGED <<input, f, seen, patterns>> /\ stage' = stage
    BY <1>5 DEF IndexLines, SearchLine, Report, NextPattern, vars, engineVars
  <2> QED
    BY <2>1, FilesKept
<1>6. ASSUME NEW h \in input.hits, Drop(h) \/ Accept(h)
      PROVE  ReadingInv' /\ LoadedInv' /\ EmptyInv'
  <2>1. UNCHANGED <<input, f, seen, patterns>> /\ stage' = stage
    BY <1>6 DEF Drop, Accept
  <2> QED
    BY <2>1, FilesKept
<1>7. CASE LinesIndexed \/ Return
  <2>1. /\ UNCHANGED <<input, f, seen, patterns>>
        /\ stage' \in {"scan", "done"} /\ stage \in {"index", "scan"}
    BY <1>7 DEF LinesIndexed, Return
  <2> QED
    BY <2>1, FilesKept
<1> QED
  BY <1>1, <1>2, <1>3, <1>4, <1>5, <1>6, <1>7 DEF Next

LEMMA ScanStep == IInv /\ [Next]_vars => ScanInv'
<1> SUFFICES ASSUME IInv, [Next]_vars PROVE ScanInv'
  OBVIOUS
<1>1. LookupInv' /\ content' = content /\ input' = input
  BY LookupStep
<1>2. stage \in {"load", "index"} => pc = "index"
  BY DEF IInv, BeforeScan
<1>3. CASE LoadRule \/ FileEnds \/ WalkFails \/ LoadEnds \/ LinesIndexed
  BY <1>1, <1>2, <1>3, EarlyInv
     DEF LoadRule, FileEnds, WalkFails, LoadEnds, LinesIndexed, lookupVars
<1>4. CASE IndexLines
  BY <1>1, <1>2, <1>4, EarlyInv DEF IndexLines, Index, engineVars
<1>5. CASE SearchLine
  BY <1>1, <1>5, ScanKept DEF SearchLine, Search, engineVars
<1>6. CASE Return
  BY <1>1, <1>6, ScanKept DEF Return, lookupVars
<1>7. CASE UNCHANGED vars
  BY <1>1, <1>7, ScanKept DEF vars, lookupVars, engineVars
<1>8. ASSUME NEW h \in input.hits, Drop(h) \/ Accept(h) PROVE ScanInv'
  BY <1>8, DropInv, AcceptInv
<1>9. CASE Report
  BY <1>1, <1>9, ReportInv
<1>10. CASE NextPattern
  BY <1>10, NextPatternInv
<1> QED
  BY <1>3, <1>4, <1>5, <1>6, <1>7, <1>8, <1>9, <1>10 DEF Next

\* The strengthened invariant holds in every reachable state.
THEOREM EngineInvariance == Spec => []IInv
<1>1. Init => IInv
  BY EngineInit
<1>2. IInv /\ [Next]_vars => IInv'
  <2> SUFFICES ASSUME IInv, [Next]_vars PROVE IInv'
    OBVIOUS
  <2>1. TypeOK' /\ LookupInv' /\ content' = content /\ input' = input
    BY TypeStep, LookupStep
  <2>2. content' = input'.content
    BY <2>1 DEF IInv
  <2>3. (ReadingInv' /\ LoadedInv' /\ EmptyInv') /\ ScanInv'
    BY FilesStep, ScanStep
  <2> QED
    BY <2>1, <2>2, <2>3 DEF IInv, ScanInv
<1> QED
  BY <1>1, <1>2, PTL DEF Spec

\* Every reachable state of the engine has its types.
THEOREM TypeCorrect == Spec => []TypeOK
<1>1. IInv => TypeOK
  BY DEF IInv
<1> QED
  BY <1>1, EngineInvariance, PTL

\* The line of every finding is one more than the newlines before its first byte,
\* for every set of pattern files, every object and every hit.
THEOREM FindingLines == Spec => []LinesAreExact
<1>1. IInv => LinesAreExact
  BY DEF IInv
<1> QED
  BY <1>1, EngineInvariance, PTL

\* Load keeps every rule that compiles and is asked for, once, by severity and then in
\* the order of the files, whatever is broken beside it, and fails for want of one only.
THEOREM EveryRuleIsLoaded == Spec => []LoadIsComplete
<1>1. IInv => LoadIsComplete
  <2> SUFFICES ASSUME IInv PROVE LoadIsComplete
    OBVIOUS
  <2>1. ASSUME stage \in {"index", "scan", "done"}
        PROVE  /\ Rules = {RuleAt(pl) : pl \in Loadable} /\ patterns # <<>>
               /\ Len(patterns) = Cardinality(Loadable)
               /\ \A k, l \in 1..Len(patterns) : k < l =>
                    \E pl, ql \in Loadable :
                       /\ patterns[k] = RuleAt(pl) /\ patterns[l] = RuleAt(ql)
                       /\ Precedes(pl, ql)
    <3>1. PICK o : Lists(o, Loadable)
                   /\ \A k, l \in 1..Len(patterns) : k < l => Precedes(o[k], o[l])
      BY <2>1 DEF IInv, LoadedInv
    <3>2. /\ o \in [1..Len(patterns) -> Loadable]
          /\ \A k \in 1..Len(patterns) : patterns[k] = RuleAt(o[k])
          /\ \A pl \in Loadable : \E k \in 1..Len(patterns) : o[k] = pl
      BY <3>1 DEF Lists
    <3>3. ASSUME NEW k \in 1..Len(patterns), NEW l \in 1..Len(patterns), o[k] = o[l]
          PROVE  k = l
      <4>1. patterns[k].id = patterns[l].id
        BY <3>2, <3>3
      <4> QED
        BY <2>1, <4>1, PatternOrder
    <3>4. o \in Bijection(1..Len(patterns), Loadable)
      BY <3>2, <3>3, Fun_IsBij
    <3>5. ExistsBijection(1..Len(patterns), Loadable)
      BY <3>4, Zenon DEF ExistsBijection
    <3>6. Len(patterns) \in Nat /\ patterns # <<>>
      BY <2>1, LenProperties DEF IInv, TypeOK, LoadedInv
    <3>7. IsFiniteSet(1..Len(patterns)) /\ Cardinality(1..Len(patterns)) = Len(patterns)
      BY <3>6, Intervals
    <3>8. Cardinality(Loadable) = Len(patterns)
      BY <3>5, <3>7, FS_Bijection
    <3>9. Rules = {RuleAt(pl) : pl \in Loadable}
      BY <3>2 DEF Rules
    <3> QED
      BY <3>1, <3>2, <3>6, <3>8, <3>9
  <2>2. stage = "empty" => Loadable = {}
    BY DEF IInv, EmptyInv
  <2> QED
    BY <2>1, <2>2 DEF LoadIsComplete, Precedes, RankAt
<1> QED
  BY <1>1, EngineInvariance, PTL

\* A match that is valid, or of a rule without a registered verifier, is reported
\* unless it begins inside an earlier match of its rule.
THEOREM NoMatchIsLost == Spec => []ValidIsReported
<1>1. IInv => ValidIsReported
  <2> SUFFICES ASSUME IInv, stage = "done", NEW rule \in Rules, NEW h \in input.hits,
                      h.rule = rule.id, rule.verifier = "known" => h.valid, Clear(h)
               PROVE  Reported(h)
    BY DEF ValidIsReported, Clear
  <2>1. PICK q \in 1..Len(patterns) : rule = patterns[q]
    BY DEF Rules
  <2>2. IsFound(h, q)
    BY <2>1 DEF IsFound
  <2>3. p > Len(patterns) /\ pc # "search" /\ p \in Nat /\ Len(patterns) \in Nat
    BY LenProperties DEF IInv, TypeOK, BeforeScan
  <2>4. q < p
    BY <2>3
  <2> QED
    BY <2>2, <2>3, <2>4 DEF IInv, PassedInv
<1> QED
  BY <1>1, EngineInvariance, PTL

\* What is reported is a match, validated where its rule can be; the most severe rules
\* come first, and the findings of a rule do not overlap.
THEOREM FindingsAreMatches == Spec => []FindingsSound
<1>1. IInv => FindingsSound
  <2> SUFFICES ASSUME IInv PROVE FindingsSound
    OBVIOUS
  <2>1. ASSUME NEW k \in 1..Len(findings)
        PROVE  /\ stage \in {"scan", "done"}
               /\ \E h \in input.hits, rule \in Rules :
                    /\ h.rule = rule.id /\ findings[k].rule = rule.id
                    /\ findings[k].from = h.from /\ findings[k].to = h.to
                    /\ findings[k].verified <=> rule.verifier = "known"
                    /\ rule.verifier = "known" => h.valid
    <3>1. PICK h \in input.hits, q \in 1..p : IsFound(h, q) /\ IsAbout(k, h, q)
      BY DEF IInv, FoundInv
    <3>2. q \in 1..Len(patterns) /\ patterns[q] \in Rules
      BY <3>1 DEF IsFound, Rules
    <3>3. stage \in {"scan", "done"}
      BY DEF IInv, TypeOK, BeforeScan
    <3> QED
      BY <3>1, <3>2, <3>3 DEF IsFound, IsAbout, Verifiable
  <2>2. ASSUME NEW k \in 1..Len(findings), NEW l \in 1..Len(findings), k < l
        PROVE  /\ SeverityRank(findings[k].severity) >= SeverityRank(findings[l].severity)
               /\ findings[k].rule = findings[l].rule => findings[k].to <= findings[l].from
    <3>1. stage \in {"index", "scan", "done"}
      BY <2>1
    <3>2. Follows(findings[k], findings[l])
      BY <2>2 DEF IInv, OrderInv
    <3>3. PICK q, s \in 1..Len(patterns) :
             /\ findings[k].rule = patterns[q].id /\ findings[k].severity = patterns[q].severity
             /\ findings[l].rule = patterns[s].id /\ findings[l].severity = patterns[s].severity
             /\ q <= s /\ (q = s => findings[k].to <= findings[l].from)
      BY <3>2 DEF Follows
    <3> QED
      BY <3>1, <3>3, PatternOrder
  <2> QED
    BY <2>1, <2>2 DEF FindingsSound
<1> QED
  BY <1>1, EngineInvariance, PTL

=============================================================================
