----------------------------- MODULE ObjectProofs -----------------------------
(***************************************************************************)
(* Theorems about what happens to one object: its text, the findings of    *)
(* the sidecar in bytes and lines of it, and their merge with those of the *)
(* patterns (ObjectScan), for every object and every option; and, at the   *)
(* other end of the call, the windows of the sidecar (NerWindows), for     *)
(* every text, model length and overlap.                                   *)
(***************************************************************************)
EXTENDS ObjectScan, NerWindows, FiniteSetTheorems, FunctionTheorems, SequenceTheorems,
        WellFoundedInduction, TLAPS

-----------------------------------------------------------------------------
(* Counting in a finite set of numbers.                                     *)

Below(S, k) == {q \in S : q < k}

LEMMA BelowCount ==
    ASSUME NEW S \in SUBSET Nat, IsFiniteSet(S), NEW k \in Nat
    PROVE  /\ Cardinality(Below(S, k)) \in 0..Cardinality(S) /\ IsFiniteSet(Below(S, k))
           /\ Cardinality(S) \in Nat
           /\ \A j \in Nat : j <= k => Cardinality(Below(S, j)) <= Cardinality(Below(S, k))
           /\ \A j \in S : j < k => Cardinality(Below(S, j)) < Cardinality(Below(S, k))
<1>1. \A j \in Nat : IsFiniteSet(Below(S, j)) /\ Cardinality(Below(S, j)) \in Nat
                     /\ Cardinality(Below(S, j)) <= Cardinality(S)
  <2> TAKE j \in Nat
  <2>1. Below(S, j) \in SUBSET S
    BY DEF Below
  <2>2. IsFiniteSet(Below(S, j)) /\ Cardinality(Below(S, j)) <= Cardinality(S)
    BY <2>1, FS_Subset
  <2> QED
    BY <2>2, FS_CardinalityType
<1>2. Cardinality(S) \in Nat
  BY FS_CardinalityType
<1> IsFiniteSet(Below(S, k)) /\ Cardinality(Below(S, k)) \in Nat
  BY <1>1
<1>3. ASSUME NEW j \in Nat, j <= k
      PROVE  Cardinality(Below(S, j)) <= Cardinality(Below(S, k))
  <2>1. \A q \in S : q \in Nat /\ (q < j => q < k)
    BY <1>3
  <2>2. Below(S, j) \in SUBSET Below(S, k)
    BY <2>1 DEF Below
  <2> QED
    BY <2>2, FS_Subset
<1>4. ASSUME NEW j \in S, j < k
      PROVE  Cardinality(Below(S, j)) < Cardinality(Below(S, k))
  <2>0. \A q \in S : q \in Nat /\ (q < j => q < k) /\ ~(j < j) /\ j \in Nat
    BY <1>4
  <2>1. Below(S, j) \cup {j} \in SUBSET Below(S, k) /\ j \notin Below(S, j) /\ j \in Nat
    BY <1>4, <2>0 DEF Below
  <2>2. Cardinality(Below(S, j) \cup {j}) = Cardinality(Below(S, j)) + 1
    BY <1>1, <2>1, FS_AddElement
  <2>3. Cardinality(Below(S, j) \cup {j}) <= Cardinality(Below(S, k))
    BY <2>1, FS_Subset
  <2>4. Cardinality(Below(S, j)) \in Nat
    BY <1>1, <2>1
  <2> QED
    BY <2>2, <2>3, <2>4
<1>5. Cardinality(Below(S, k)) \in 0..Cardinality(S)
  BY <1>1, <1>2
<1> QED
  BY <1>2, <1>3, <1>4, <1>5

LEMMA CountUpTo ==
    ASSUME NEW m \in Nat PROVE IsFiniteSet(1..m) /\ Cardinality(1..m) = m
<1>1. IsFiniteSet(1..m) /\ Cardinality(1..m) = IF 1 > m THEN 0 ELSE m - 1 + 1
  BY FS_Interval
<1> QED
  BY <1>1

LEMMA CountFromZero ==
    ASSUME NEW m \in Nat PROVE IsFiniteSet(0..(m - 1)) /\ Cardinality(0..(m - 1)) = m
<1>1. m - 1 \in Int
  OBVIOUS
<1>2. /\ IsFiniteSet(0..(m - 1))
      /\ Cardinality(0..(m - 1)) = IF 0 > m - 1 THEN 0 ELSE (m - 1) - 0 + 1
  BY <1>1, FS_Interval
<1> QED
  BY <1>2

\* Every element of a finite set of numbers has its rank, and every rank its element.
LEMMA RankedElement ==
    ASSUME NEW S \in SUBSET Nat, IsFiniteSet(S), NEW k \in 0..(Cardinality(S) - 1)
    PROVE  \E q \in S : Cardinality(Below(S, q)) = k
<1> DEFINE c == Cardinality(S)
           rank == [q \in S |-> Cardinality(Below(S, q))]
<1>1. c \in Nat
  BY FS_CardinalityType
<1>2. rank \in [S -> 0..(c - 1)]
  <2>1. ASSUME NEW q \in S PROVE Cardinality(Below(S, q)) \in 0..(c - 1)
    <3>1. q \in Nat /\ q + 1 \in Nat /\ q < q + 1
      OBVIOUS
    <3>2. Cardinality(Below(S, q)) < Cardinality(Below(S, q + 1))
      BY <3>1, BelowCount
    <3>3. Cardinality(Below(S, q)) \in Nat /\ Cardinality(Below(S, q + 1)) \in 0..c
      BY <3>1, BelowCount
    <3> QED
      BY <1>1, <3>2, <3>3
  <2> QED
    BY <2>1
<1>3. ASSUME NEW q \in S, NEW r \in S, rank[q] = rank[r] PROVE q = r
  <2>1. q \in Nat /\ r \in Nat /\ Cardinality(Below(S, q)) = Cardinality(Below(S, r))
    BY <1>3
  <2>2. Cardinality(Below(S, q)) \in Nat
    BY <2>1, BelowCount
  <2>3. ~(q < r) /\ ~(r < q)
    BY <2>1, <2>2, BelowCount
  <2> QED
    BY <2>1, <2>3
<1> HIDE DEF rank, c
<1>4. rank \in Injection(S, 0..(c - 1))
  BY <1>2, <1>3, Fun_IsInj
<1>5. IsFiniteSet(0..(c - 1)) /\ Cardinality(0..(c - 1)) = c
  BY <1>1, CountFromZero
<1>6. rank \in Surjection(S, 0..(c - 1))
  BY <1>4, <1>5, FS_Injection DEF c
<1>7. \A t \in 0..(c - 1) : \E q \in S : rank[q] = t
  BY <1>6, Zenon DEF Surjection
<1> QED
  BY <1>7 DEF rank, c

-----------------------------------------------------------------------------
(* Runes and bytes.                                                         *)

LEMMA StartsAre ==
    ASSUME NEW s \in Seq(Byte)
    PROVE  /\ Len(s) \in Nat /\ Starts(s) \in SUBSET Nat /\ IsFiniteSet(Starts(s))
           /\ Runes(s) \in Nat /\ \A q \in Starts(s) : q < Len(s)
<1>1. Len(s) \in Nat
  BY LenProperties
<1>2. Starts(s) \in SUBSET (0..(Len(s) - 1))
  BY DEF Starts
<1>3. IsFiniteSet(Starts(s))
  BY <1>1, <1>2, CountFromZero, FS_Subset
<1> QED
  BY <1>1, <1>2, <1>3, FS_CardinalityType DEF Runes

\* runeByteOffsets is defined from zero to the number of runes.
LEMMA OffsetOfRune ==
    ASSUME NEW s \in Seq(Byte), NEW k \in 0..Runes(s)
    PROVE  /\ RuneByteOffsets(s, k) \in Starts(s) \cup {Len(s)}
           /\ RuneByteOffsets(s, k) \in 0..Len(s)
           /\ Cardinality(Below(Starts(s), RuneByteOffsets(s, k))) = k
<1>1. /\ Len(s) \in Nat /\ Starts(s) \in SUBSET Nat /\ IsFiniteSet(Starts(s))
      /\ Runes(s) \in Nat /\ \A q \in Starts(s) : q < Len(s)
  BY StartsAre
<1>2. \E q \in Starts(s) \cup {Len(s)} : Cardinality(Below(Starts(s), q)) = k
  <2>1. CASE k = Runes(s)
    <3>1. Below(Starts(s), Len(s)) = Starts(s)
      BY <1>1 DEF Below
    <3> QED
      BY <2>1, <3>1 DEF Runes
  <2>2. CASE k # Runes(s)
    <3>1. k \in 0..(Cardinality(Starts(s)) - 1)
      BY <1>1, <2>2 DEF Runes
    <3> QED
      BY <1>1, <3>1, RankedElement
  <2> QED
    BY <2>1, <2>2
<1>3. RuneByteOffsets(s, k) =
        CHOOSE q \in Starts(s) \cup {Len(s)} : Cardinality(Below(Starts(s), q)) = k
  BY DEF RuneByteOffsets, Below
<1>4. /\ RuneByteOffsets(s, k) \in Starts(s) \cup {Len(s)}
      /\ Cardinality(Below(Starts(s), RuneByteOffsets(s, k))) = k
  BY <1>2, <1>3
<1> QED
  BY <1>1, <1>4

\* The bytes whose runes are in a span are those between the offsets of its ends.
LEMMA BytesOfSpan ==
    ASSUME NEW s \in Seq(Byte), NEW a \in 0..Runes(s), NEW b \in 0..Runes(s)
    PROVE  {j \in 1..Len(s) : Cardinality(Below(Starts(s), j)) - 1 \in a..(b - 1)} =
              (RuneByteOffsets(s, a) + 1)..RuneByteOffsets(s, b)
<1> DEFINE from == RuneByteOffsets(s, a)
           to   == RuneByteOffsets(s, b)
           C(j) == Cardinality(Below(Starts(s), j))
<1>1. /\ Len(s) \in Nat /\ Starts(s) \in SUBSET Nat /\ IsFiniteSet(Starts(s))
      /\ Runes(s) \in Nat
  BY StartsAre
<1>2. from \in Starts(s) \cup {Len(s)} /\ from \in 0..Len(s) /\ C(from) = a
  BY OffsetOfRune
<1>3. to \in Starts(s) \cup {Len(s)} /\ to \in 0..Len(s) /\ C(to) = b
  BY OffsetOfRune
<1>4. ASSUME NEW o \in Starts(s) \cup {Len(s)}, NEW j \in 1..Len(s), o \in 0..Len(s)
      PROVE  C(j) \in Nat /\ C(o) \in Nat /\ (j <= o <=> C(j) <= C(o))
  <2>1. j \in Nat /\ o \in Nat
    BY <1>1, <1>4
  <2>2. C(j) \in Nat /\ C(o) \in Nat
    BY <1>1, <2>1, BelowCount
  <2>3. j <= o => C(j) <= C(o)
    BY <1>1, <2>1, BelowCount
  <2>4. o < j => C(o) < C(j)
    <3>1. o < j => o \in Starts(s)
      BY <1>1, <1>4
    <3> QED
      BY <1>1, <2>1, <3>1, BelowCount
  <2> HIDE DEF C
  <2> QED
    BY <2>1, <2>2, <2>3, <2>4
<1> HIDE DEF from, to, C
<1>5. \A j \in 1..Len(s) : C(j) - 1 \in a..(b - 1) <=> j \in (from + 1)..to
  <2> TAKE j \in 1..Len(s)
  <2>1. C(j) \in Nat /\ (j <= from <=> C(j) <= a) /\ (j <= to <=> C(j) <= b)
    BY <1>2, <1>3, <1>4
  <2> QED
    BY <1>1, <1>2, <1>3, <2>1
<1>6. (from + 1)..to \in SUBSET (1..Len(s))
  BY <1>1, <1>2, <1>3
<1>7. {j \in 1..Len(s) : C(j) - 1 \in a..(b - 1)} = (from + 1)..to
  BY <1>5, <1>6
<1> QED
  BY <1>7 DEF from, to, C

\* A set of naturals that is not empty has a least element.
LEMMA LeastElement ==
    ASSUME NEW S \in SUBSET Nat, S # {} PROVE \E q \in S : \A m \in S : q <= m
<1>1. PICK q \in S : \A m \in S : <<m, q>> \notin OpToRel(<, Nat)
  BY WFMin, NatLessThanWellFounded, Zenon
<1>2. \A m \in S : ~(m < q)
  BY <1>1, Zenon DEF OpToRel
<1> QED
  BY <1>2

-----------------------------------------------------------------------------
(* FlattenSeq: what it joins, and that it loses nothing.                    *)

\* The function that FlattenSeq computes, up to m.
Joins(seqs, m, f) ==
    f = [k \in 1..m |-> IF k = 1 THEN seqs[k] ELSE f[k - 1] \o seqs[k]]

LEMMA JoinsExist == \A seqs : \A m \in Nat : \E f : Joins(seqs, m, f)
<1> TAKE seqs
<1> DEFINE Bad == {m \in Nat : ~\E f : Joins(seqs, m, f)}
<1>1. SUFFICES ASSUME Bad # {} PROVE FALSE
  OBVIOUS
<1>2. PICK m \in Bad : \A b \in Bad : m <= b
  BY <1>1, LeastElement
<1>3. m \in Nat /\ ~\E f : Joins(seqs, m, f)
  BY <1>2
<1>4. CASE m = 0
  <2>1. Joins(seqs, 0, [k \in 1..0 |-> 0])
    BY DEF Joins
  <2> QED
    BY <1>3, <1>4, <2>1
<1>5. CASE m # 0
  <2>1. m - 1 \in Nat /\ m - 1 \notin Bad
    BY <1>2, <1>3, <1>5
  <2>2. PICK f : Joins(seqs, m - 1, f)
    BY <2>1
  <2> DEFINE g == [k \in 1..m |-> IF k <= m - 1 THEN f[k]
                                  ELSE IF k = 1 THEN seqs[k] ELSE f[m - 1] \o seqs[k]]
             h == [k \in 1..m |-> IF k = 1 THEN seqs[k] ELSE g[k - 1] \o seqs[k]]
  <2>3. ASSUME NEW k \in 1..m PROVE g[k] = h[k]
    <3>1. k \in Nat /\ (k <= m - 1 => k \in 1..(m - 1)) /\ (k # 1 => k - 1 \in 1..(m - 1))
          /\ (~(k <= m - 1) => k = m)
      BY <1>3, <2>1
    <3>2. k \in 1..(m - 1) => f[k] = IF k = 1 THEN seqs[k] ELSE f[k - 1] \o seqs[k]
      BY <2>2 DEF Joins
    <3>3. k # 1 => g[k - 1] = f[k - 1]
      BY <1>3, <3>1
    <3>4. CASE k <= m - 1
      BY <3>1, <3>2, <3>3, <3>4
    <3>5. CASE ~(k <= m - 1)
      BY <3>1, <3>3, <3>5
    <3> QED
      BY <3>4, <3>5
  <2>4. g = h
    BY <2>3
  <2>5. Joins(seqs, m, g)
    BY <2>4 DEF Joins
  <2> QED
    BY <1>3, <2>5
<1> QED
  BY <1>4, <1>5

LEMMA FlattenKeeps ==
    ASSUME NEW T, NEW seqs \in Seq(Seq(T))
    PROVE  /\ FlattenSeq(seqs) \in Seq(T)
           /\ \A k \in 1..Len(seqs) : \A e \in 1..Len(seqs[k]) :
                \E q \in 1..Len(FlattenSeq(seqs)) : FlattenSeq(seqs)[q] = seqs[k][e]
<1> DEFINE m == Len(seqs)
           f == CHOOSE f : Joins(seqs, m, f)
<1>1. m \in Nat /\ \A k \in 1..m : seqs[k] \in Seq(T)
  OBVIOUS
<1>2. Joins(seqs, m, f)
  BY <1>1, JoinsExist
<1>3. FlattenSeq(seqs) = IF m = 0 THEN seqs ELSE f[m]
  BY DEF FlattenSeq, Joins
<1> HIDE DEF f
<1>4. \A k \in 1..m : f[k] = IF k = 1 THEN seqs[k] ELSE f[k - 1] \o seqs[k]
  BY <1>2 DEF Joins
<1> DEFINE Has(k) ==
      /\ f[k] \in Seq(T)
      /\ \A p \in 1..k : \A e \in 1..Len(seqs[p]) : \E q \in 1..Len(f[k]) : f[k][q] = seqs[p][e]
    Bad == {k \in 1..m : ~Has(k)}
<1> HIDE DEF Has
<1>5. ASSUME Bad # {} PROVE FALSE
  <2>1. Bad \in SUBSET Nat
    BY <1>1
  <2>2. PICK k \in Bad : \A b \in Bad : k <= b
    BY <1>5, <2>1, LeastElement
  <2>3. k \in 1..m /\ k \in Nat /\ ~Has(k)
    BY <1>1, <2>2
  <2>4. CASE k = 1
    <3>1. f[k] = seqs[k] /\ seqs[k] \in Seq(T) /\ \A p \in 1..k : p = k
      BY <1>1, <1>4, <2>3, <2>4
    <3> QED
      BY <2>3, <3>1 DEF Has
  <2>5. CASE k # 1
    <3>1. k - 1 \in 1..m /\ k - 1 \in Nat /\ ~(k <= k - 1)
      BY <1>1, <2>3, <2>5
    <3>2. Has(k - 1)
      BY <2>2, <3>1
    <3> DEFINE s == f[k - 1]
               t == seqs[k]
    <3>3. s \in Seq(T) /\ t \in Seq(T) /\ f[k] = s \o t
      BY <1>1, <1>4, <2>3, <2>5, <3>2 DEF Has
    <3>4. \A p \in 1..(k - 1) : \A e \in 1..Len(seqs[p]) :
            \E q \in 1..Len(s) : s[q] = seqs[p][e]
      BY <3>2 DEF Has
    <3> HIDE DEF s, t
    <3>5. /\ s \o t \in Seq(T) /\ Len(s) \in Nat /\ Len(t) \in Nat
          /\ Len(s \o t) = Len(s) + Len(t)
          /\ \A q \in 1..Len(s) : (s \o t)[q] = s[q]
          /\ \A q \in 1..Len(t) : (s \o t)[Len(s) + q] = t[q]
      BY <3>3
    <3>6. ASSUME NEW p \in 1..k, NEW e \in 1..Len(seqs[p])
          PROVE  \E q \in 1..Len(f[k]) : f[k][q] = seqs[p][e]
      <4>1. CASE p = k
        <5>1. e \in 1..Len(t) /\ Len(s) + e \in 1..(Len(s) + Len(t))
          BY <3>5, <4>1 DEF t
        <5>2. (s \o t)[Len(s) + e] = t[e] /\ t[e] = seqs[p][e]
          BY <3>5, <4>1, <5>1 DEF t
        <5>3. Len(s) + e \in 1..Len(f[k]) /\ f[k][Len(s) + e] = seqs[p][e]
          BY <3>3, <3>5, <5>1, <5>2
        <5> QED
          BY <5>3
      <4>2. CASE p # k
        <5>1. p \in 1..(k - 1)
          BY <2>3, <4>2
        <5>2. PICK q \in 1..Len(s) : s[q] = seqs[p][e]
          BY <3>4, <5>1
        <5>3. q \in 1..(Len(s) + Len(t)) /\ (s \o t)[q] = s[q]
          BY <3>5, <5>2
        <5>4. q \in 1..Len(f[k]) /\ f[k][q] = seqs[p][e]
          BY <3>3, <3>5, <5>2, <5>3
        <5> QED
          BY <5>4
      <4> QED
        BY <4>1, <4>2
    <3>7. f[k] \in Seq(T)
      BY <3>3, <3>5
    <3> QED
      BY <2>3, <3>6, <3>7 DEF Has
  <2> QED
    BY <2>4, <2>5
<1>6. CASE m = 0
  <2>1. seqs = << >>
    BY <1>6
  <2> QED
    BY <1>3, <1>6, <2>1
<1>7. CASE m # 0
  <2>1. m \in 1..m
    BY <1>1, <1>7
  <2>2. Has(m)
    BY <1>5, <2>1
  <2>3. FlattenSeq(seqs) = f[m]
    BY <1>3, <1>7
  <2>4. /\ f[m] \in Seq(T)
        /\ \A p \in 1..m : \A e \in 1..Len(seqs[p]) :
              \E q \in 1..Len(f[m]) : f[m][q] = seqs[p][e]
    BY <2>2 DEF Has
  <2> QED
    BY <2>3, <2>4
<1> QED
  BY <1>6, <1>7

-----------------------------------------------------------------------------
(* The text of a document.                                                  *)

LEMMA EmitKeeps ==
    ASSUME NEW t \in Token
    PROVE  Emit(t) \in Seq(Byte) /\ (Visible(t.text) => Visible(Emit(t)))
<1>1. t.text \in Seq(Byte) /\ (t.token # "CharData" => t.text = <<>>) /\ "newline" \in Byte
      /\ "blank" \in Byte
  BY DEF Token, Byte, Blank
<1>2. CASE t.token = "CharData" /\ t.text # <<>>
  <2>1. Emit(t) = Append(t.text, "blank")
    BY <1>2 DEF Emit
  <2>2. /\ Append(t.text, "blank") \in Seq(Byte)
        /\ Len(t.text) \in Nat /\ Len(Append(t.text, "blank")) = Len(t.text) + 1
        /\ \A k \in 1..Len(t.text) : Append(t.text, "blank")[k] = t.text[k]
    BY <1>1
  <2> QED
    BY <2>1, <2>2 DEF Visible
<1>3. CASE ~(t.token = "CharData" /\ t.text # <<>>)
  <2>1. t.text = <<>>
    BY <1>1, <1>3
  <2>2. Emit(t) \in Seq(Byte)
    BY <1>1, <1>3 DEF Emit
  <2> QED
    BY <2>1, <2>2 DEF Visible
<1> QED
  BY <1>2, <1>3

LEMMA XmlTextKeeps ==
    ASSUME NEW tokens \in Seq(Token)
    PROVE  /\ XmlText(tokens) \in Seq(Byte)
           /\ (\E k \in Walked(tokens) : Visible(tokens[k].text)) => Visible(XmlText(tokens))
<1> DEFINE part == [k \in 1..Len(tokens) |->
                       IF k \in Walked(tokens) THEN Emit(tokens[k]) ELSE <<>>]
<1>1. Len(tokens) \in Nat /\ \A k \in 1..Len(tokens) : tokens[k] \in Token
  OBVIOUS
<1>2. \A k \in 1..Len(tokens) : part[k] \in Seq(Byte)
  BY <1>1, EmitKeeps
<1>3. part \in Seq(Seq(Byte)) /\ Len(part) = Len(tokens)
  BY <1>1, <1>2
<1>4. XmlText(tokens) = FlattenSeq(part)
  BY DEF XmlText
<1>5. ASSUME NEW k \in Walked(tokens), Visible(tokens[k].text) PROVE Visible(FlattenSeq(part))
  <2>1. k \in 1..Len(tokens)
    BY DEF Walked
  <2>2. part[k] = Emit(tokens[k]) /\ Visible(Emit(tokens[k]))
    BY <1>1, <1>5, <2>1, EmitKeeps
  <2> HIDE DEF part
  <2>3. PICK e \in 1..Len(part[k]) : part[k][e] \notin Blank
    BY <2>2 DEF Visible
  <2>4. \E q \in 1..Len(FlattenSeq(part)) : FlattenSeq(part)[q] = part[k][e]
    BY <1>3, <2>1, FlattenKeeps
  <2> QED
    BY <2>3, <2>4 DEF Visible
<1> HIDE DEF part
<1> QED
  BY <1>3, <1>4, <1>5, FlattenKeeps

LEMMA OoxmlTextKeeps ==
    ASSUME NEW parts \in Seq(OfficePart)
    PROVE  /\ OoxmlText(parts) \in Seq(Byte)
           /\ (\E p \in 1..Len(parts) :
                 /\ IsContentPart(parts[p].name) /\ parts[p].opens
                 /\ \E k \in Walked(parts[p].tokens) : Visible(parts[p].tokens[k].text))
              => Visible(OoxmlText(parts))
<1> DEFINE all == [p \in 1..Len(parts) |-> IF IsContentPart(parts[p].name) /\ parts[p].opens
                                           THEN XmlText(parts[p].tokens) ELSE <<>>]
<1>1. Len(parts) \in Nat /\ \A p \in 1..Len(parts) : parts[p].tokens \in Seq(Token)
  <2>1. Len(parts) \in Nat /\ \A p \in 1..Len(parts) : parts[p] \in OfficePart
    OBVIOUS
  <2>2. \A p \in OfficePart : p.tokens \in Seq(Token)
    BY DEF OfficePart
  <2> QED
    BY <2>1, <2>2
<1>2. \A p \in 1..Len(parts) : all[p] \in Seq(Byte)
  BY <1>1, XmlTextKeeps
<1>3. all \in Seq(Seq(Byte)) /\ Len(all) = Len(parts)
  BY <1>1, <1>2
<1>4. OoxmlText(parts) = FlattenSeq(all)
  BY DEF OoxmlText
<1>5. ASSUME NEW p \in 1..Len(parts), IsContentPart(parts[p].name), parts[p].opens,
             \E k \in Walked(parts[p].tokens) : Visible(parts[p].tokens[k].text)
      PROVE  Visible(FlattenSeq(all))
  <2>1. all[p] = XmlText(parts[p].tokens) /\ Visible(all[p])
    BY <1>1, <1>5, XmlTextKeeps
  <2> HIDE DEF all
  <2>2. PICK e \in 1..Len(all[p]) : all[p][e] \notin Blank
    BY <2>1 DEF Visible
  <2>3. \E q \in 1..Len(FlattenSeq(all)) : FlattenSeq(all)[q] = all[p][e]
    BY <1>3, FlattenKeeps
  <2> QED
    BY <2>2, <2>3 DEF Visible
<1> HIDE DEF all
<1> QED
  BY <1>3, <1>4, <1>5, FlattenKeeps

LEMMA KindOfParts ==
    ASSUME NEW parts \in Seq(OfficePart)
    PROVE  /\ Kind(parts) \in {"", "docx", "xlsx", "pptx"}
           /\ (\E p \in 1..Len(parts) : IsContentPart(parts[p].name)) => Kind(parts) # ""
<1> DEFINE content == {p \in 1..Len(parts) : IsContentPart(parts[p].name)}
<1>1. CASE content = {}
  BY <1>1 DEF Kind
<1>2. CASE content # {}
  <2>1. content \in SUBSET Nat
    OBVIOUS
  <2>2. \E p \in content : \A j \in content : p <= j
    BY <1>2, <2>1, LeastElement
  <2> DEFINE p == CHOOSE p \in content : \A j \in content : p <= j
  <2>3. p \in content
    BY <2>2
  <2>4. parts[p].name \in {"word", "xl", "ppt"}
    BY <2>3 DEF IsContentPart
  <2>5. Kind(parts) = Classify[parts[p].name]
    BY <1>2 DEF Kind
  <2> HIDE DEF p
  <2>6. Classify[parts[p].name] \in {"docx", "xlsx", "pptx"}
    BY <2>4 DEF Classify
  <2> QED
    BY <2>5, <2>6
<1> QED
  BY <1>1, <1>2

-----------------------------------------------------------------------------
(* Positions in order.                                                      *)

LEMMA CountTo ==
    ASSUME NEW S \in SUBSET Nat, IsFiniteSet(S), NEW q \in S
    PROVE  /\ Cardinality({r \in S : r <= q}) = Cardinality(Below(S, q)) + 1
           /\ Cardinality(Below(S, q)) \in Nat
<1>1. q \in Nat /\ q \notin Below(S, q)
  BY DEF Below
<1>2. {r \in S : r <= q} = Below(S, q) \cup {q}
  <2>1. \A r \in S : r <= q <=> r < q \/ r = q
    BY <1>1
  <2> QED
    BY <2>1 DEF Below
<1>3. IsFiniteSet(Below(S, q)) /\ Cardinality(Below(S, q)) \in 0..Cardinality(S)
      /\ Cardinality(S) \in Nat
  BY <1>1, BelowCount
<1>4. Cardinality(Below(S, q) \cup {q}) = Cardinality(Below(S, q)) + 1
  BY <1>1, <1>3, FS_AddElement
<1> QED
  BY <1>2, <1>3, <1>4

LEMMA InOrderLists ==
    ASSUME NEW S \in SUBSET Nat, IsFiniteSet(S) PROVE InOrder(S) \in Seq(S)
<1>1. Cardinality(S) \in Nat
  BY FS_CardinalityType
<1>2. ASSUME NEW k \in 1..Cardinality(S)
      PROVE  (CHOOSE p \in S : Cardinality({q \in S : q <= p}) = k) \in S
  <2>1. k - 1 \in 0..(Cardinality(S) - 1)
    BY <1>1
  <2>2. PICK p \in S : Cardinality(Below(S, p)) = k - 1
    BY <2>1, RankedElement
  <2>3. Cardinality({q \in S : q <= p}) = k
    BY <1>1, <2>2, CountTo
  <2> QED
    BY <2>3
<1>3. \A k \in 1..Cardinality(S) : InOrder(S)[k] \in S
  BY <1>2 DEF InOrder
<1>4. InOrder(S) = [k \in 1..Cardinality(S) |-> InOrder(S)[k]]
  BY DEF InOrder
<1> QED
  BY <1>1, <1>3, <1>4

LEMMA InOrderUpTo ==
    ASSUME NEW m \in Nat PROVE InOrder(1..m) = [k \in 1..m |-> k]
<1>1. IsFiniteSet(1..m) /\ Cardinality(1..m) = m
  BY CountUpTo
<1>2. ASSUME NEW k \in 1..m
      PROVE  (CHOOSE p \in 1..m : Cardinality({q \in 1..m : q <= p}) = k) = k
  <2>1. ASSUME NEW p \in 1..m PROVE Cardinality({q \in 1..m : q <= p}) = p
    <3>1. {q \in 1..m : q <= p} = 1..p /\ p \in Nat
      OBVIOUS
    <3> QED
      BY <3>1, CountUpTo
  <2>2. \A p \in 1..m : Cardinality({q \in 1..m : q <= p}) = k <=> p = k
    BY <2>1
  <2> QED
    BY <2>2
<1> QED
  BY <1>1, <1>2 DEF InOrder

-----------------------------------------------------------------------------
(* The inductive invariant of scanOne.                                      *)

\* Nothing is sent before the text is capped, and what is sent of a clean text is a
\* prefix of it.
SentInv ==
    /\ stage \notin {"capped", "sent", "scanned"} => sent = <<>>
    /\ Clean => \A k \in 1..Len(sent) : sent[k] = k

\* A regex finding is an interval of the searched bytes.
RegexInv ==
    /\ stage \notin {"searched", "capped", "sent", "scanned"} => regex = {}
    /\ \A f \in regex : f.src = "regex" /\ <<f.from, f.to>> \in Intervals(Len(data))

NerFindings == {SpanFinding(sp) : sp \in {x \in spans : WellFormed(x)}}

\* The result is the merge of the regex findings with those of the answer, if one came.
ResultInv ==
    /\ stage \notin {"sent", "scanned"} => spans = {}
    /\ result = IF stage # "scanned" THEN {}
                ELSE regex \cup {f \in NerFindings : ~\E o \in regex : Overlaps(f, o)}

\* A document within the limit is read as a whole, before its text is taken; and the text
\* of an office document is that of its parts.
DocInv ==
    /\ stage \in {"open", "read"} => kind = ""
    /\ kind \in {"docx", "xlsx", "pptx"} => data = OoxmlText(object.parts)
    /\ stage = "read" /\ IsDoc /\ (opts.maxObject <= 0 \/ Len(object.bytes) <= opts.maxObject)
         => data = object.bytes
    /\ DocumentIsRead

ObjectInv == TypeOK /\ SentInv /\ RegexInv /\ ResultInv /\ DocInv

LEMMA InputsOK ==
    TypeOK => /\ IsObject(object) /\ IsOptions(opts)
              /\ object.bytes \in Seq(Byte) /\ object.text \in Seq(Byte)
              /\ object.parts \in Seq(OfficePart) /\ Len(object.bytes) \in Nat
              /\ opts.maxObject \in Int /\ opts.scanCap \in Int /\ opts.nerMax \in Int
<1> SUFFICES ASSUME TypeOK PROVE IsObject(object) /\ IsOptions(opts)
  BY DEF IsObject, IsOptions
<1>1. <<object, opts>> \in Inputs
  BY DEF TypeOK
<1> QED
  BY <1>1, InputsAssumption

LEMMA NothingSent ==
    /\ \A S : <<>> \in Seq(S)
    /\ \A s : s = <<>> => \A k \in 1..Len(s) : s[k] = k
<1>1. \A S : <<>> \in Seq(S)
  BY EmptySeq
<1>2. Len(<<>>) = 0
  OBVIOUS
<1>3. 1..0 = {}
  OBVIOUS
<1>4. ASSUME NEW s, s = <<>> PROVE \A k \in 1..Len(s) : s[k] = k
  <2>1. Len(s) = 0
    BY <1>2, <1>4
  <2> QED
    BY <1>3, <2>1
<1> QED
  BY <1>1, <1>4

LEMMA LineIsNat == ASSUME NEW s, NEW p \in Nat PROVE LineAt(s, p) \in Nat
<1>1. {q \in 1..p : s[q] = "newline"} \in SUBSET (1..p)
  OBVIOUS
<1>2. IsFiniteSet({q \in 1..p : s[q] = "newline"})
  BY <1>1, CountUpTo, FS_Subset
<1>3. Cardinality({q \in 1..p : s[q] = "newline"}) \in Nat
  BY <1>2, FS_CardinalityType
<1> QED
  BY <1>3 DEF LineAt

LEMMA SentText ==
    TypeOK => /\ Text \in Seq(Byte) /\ Len(Text) = Len(sent) /\ Len(sent) \in Nat
              /\ \A k \in 1..Len(sent) : Text[k] = data[sent[k]] /\ sent[k] \in 1..Len(data)
<1> SUFFICES ASSUME TypeOK
             PROVE  /\ Text \in Seq(Byte) /\ Len(Text) = Len(sent) /\ Len(sent) \in Nat
                    /\ \A k \in 1..Len(sent) : Text[k] = data[sent[k]] /\ sent[k] \in 1..Len(data)
  OBVIOUS
<1>1. data \in Seq(Byte) /\ sent \in Seq(1..Len(data))
  BY DEF TypeOK
<1>2. Len(sent) \in Nat /\ \A k \in 1..Len(sent) : sent[k] \in 1..Len(data)
  BY <1>1
<1>3. \A k \in 1..Len(sent) : data[sent[k]] \in Byte
  BY <1>1, <1>2
<1> QED
  BY <1>2, <1>3 DEF Text

\* The findings of an answer, and where they lie.
LEMMA SpanFindingIs ==
    ASSUME TypeOK, NEW sp \in spans, WellFormed(sp)
    PROVE  /\ sp[1] \in 0..Runes(Text) /\ sp[2] \in 0..Runes(Text)
           /\ SpanFinding(sp).src = "ner" /\ SpanFinding(sp).span = sp
           /\ SpanFinding(sp).from = RuneByteOffsets(Text, sp[1])
           /\ SpanFinding(sp).to = RuneByteOffsets(Text, sp[2])
           /\ SpanFinding(sp).from \in 0..Len(sent) /\ SpanFinding(sp).to \in 0..Len(sent)
           /\ SpanFinding(sp).line = LineAt(Text, SpanFinding(sp).from)
           /\ SpanFinding(sp).line \in Nat
<1>1. /\ Text \in Seq(Byte) /\ Len(Text) = Len(sent) /\ Len(sent) \in Nat
      /\ Runes(Text) \in Nat
  BY SentText, StartsAre
<1>2. sp \in Int \X Int
  BY DEF TypeOK
<1>3. sp[1] \in 0..Runes(Text) /\ sp[2] \in 0..Runes(Text)
  BY <1>1, <1>2 DEF WellFormed
<1>4. RuneByteOffsets(Text, sp[1]) \in 0..Len(sent) /\ RuneByteOffsets(Text, sp[2]) \in 0..Len(sent)
  BY <1>1, <1>3, OffsetOfRune
<1>5. RuneByteOffsets(Text, sp[1]) \in Nat
  BY <1>1, <1>4
<1>6. LineAt(Text, RuneByteOffsets(Text, sp[1])) \in Nat
  BY <1>5, LineIsNat
<1> QED
  BY <1>3, <1>4, <1>6 DEF SpanFinding, Finding

-----------------------------------------------------------------------------
(* It holds at first, and every step keeps it.                              *)

LEMMA ObjectStart == Init => ObjectInv
<1> SUFFICES ASSUME Init PROVE ObjectInv
  OBVIOUS
<1>1. PICK inp \in Inputs : object = inp[1] /\ opts = inp[2]
  BY DEF Init
<1>2. <<object, opts>> \in Inputs
  BY <1>1, InputsAssumption
<1>3. stage = "open" /\ data = <<>> /\ kind = "" /\ regex = {} /\ sent = <<>> /\ spans = {}
      /\ result = {}
  BY DEF Init
<1>4. TypeOK
  <2>1. data \in Seq(Byte) /\ sent \in Seq(1..Len(data))
    BY <1>3, NothingSent
  <2> QED
    BY <1>2, <1>3, <2>1 DEF TypeOK
<1>5. SentInv
  BY <1>3, NothingSent DEF SentInv
<1>6. RegexInv /\ ResultInv
  BY <1>3 DEF RegexInv, ResultInv
<1>7. DocInv
  BY <1>3 DEF DocInv, DocumentIsRead
<1> QED
  BY <1>4, <1>5, <1>6, <1>7 DEF ObjectInv

LEMMA ReadFailsStep == ObjectInv /\ ReadFails => ObjectInv'
<1> SUFFICES ASSUME ObjectInv, ReadFails PROVE ObjectInv'
  OBVIOUS
<1> USE DEF ReadFails, ObjectInv
<1>1. TypeOK'
  BY DEF TypeOK
<1>2. SentInv'
  BY DEF SentInv, Clean
<1>3. RegexInv' /\ ResultInv'
  BY DEF RegexInv, ResultInv
<1>4. DocInv'
  BY DEF DocInv, DocumentIsRead
<1> QED
  BY <1>1, <1>2, <1>3, <1>4

LEMMA ReadStep == ObjectInv /\ Read => ObjectInv'
<1> SUFFICES ASSUME ObjectInv, Read PROVE ObjectInv'
  OBVIOUS
<1> DEFINE len == IF Limit < Len(object.bytes) THEN Limit ELSE Len(object.bytes)
<1>1. /\ stage = "open" /\ stage' = "read" /\ data' = SubSeq(object.bytes, 1, len)
      /\ UNCHANGED <<object, opts, kind, regex, sent, spans, result>>
  BY DEF Read
<1>2. /\ TypeOK /\ object.bytes \in Seq(Byte) /\ Len(object.bytes) \in Nat
      /\ opts.maxObject \in Int /\ opts.scanCap \in Int
  BY InputsOK DEF ObjectInv
<1>3. len \in Nat /\ len <= Len(object.bytes)
  BY <1>2 DEF Limit
<1>4. data' \in Seq(Byte)
  BY <1>1, <1>2, <1>3
<1>5. IsDoc /\ (opts.maxObject <= 0 \/ Len(object.bytes) <= opts.maxObject)
        => data' = object.bytes
  <2> SUFFICES ASSUME IsDoc, opts.maxObject <= 0 \/ Len(object.bytes) <= opts.maxObject
               PROVE  data' = object.bytes
    OBVIOUS
  <2>1. len = Len(object.bytes)
    BY <1>2 DEF Limit
  <2> HIDE DEF len
  <2>2. SubSeq(object.bytes, 1, Len(object.bytes)) = object.bytes
    BY <1>2
  <2> QED
    BY <1>1, <2>1, <2>2
<1> HIDE DEF len
<1>6. sent = <<>> /\ regex = {} /\ spans = {} /\ result = {} /\ kind = ""
  BY <1>1 DEF ObjectInv, SentInv, RegexInv, ResultInv, DocInv
<1>7. TypeOK'
  <2>1. sent' = <<>> /\ sent' \in Seq(1..Len(data'))
    BY <1>1, <1>6, NothingSent
  <2> QED
    BY <1>1, <1>2, <1>4, <1>6, <2>1 DEF TypeOK
<1>8. SentInv'
  BY <1>1, <1>6, NothingSent DEF SentInv
<1>9. RegexInv' /\ ResultInv'
  BY <1>1, <1>6 DEF RegexInv, ResultInv
<1>10. DocInv'
  BY <1>1, <1>5, <1>6 DEF DocInv, DocumentIsRead, IsDoc
<1> QED
  BY <1>7, <1>8, <1>9, <1>10 DEF ObjectInv

\* The text of a document whose container is whole.
LEMMA ExtractTextKeeps ==
    TypeOK => /\ ExtractText.text \in Seq(Byte)
              /\ ExtractText.kind \in {"", "pdf", "docx", "xlsx", "pptx"}
              /\ data = object.bytes /\ IsDoc /\ HasText
                   => ExtractText.kind # "" /\ Visible(ExtractText.text)
<1> SUFFICES ASSUME TypeOK
             PROVE  /\ ExtractText.text \in Seq(Byte)
                    /\ ExtractText.kind \in {"", "pdf", "docx", "xlsx", "pptx"}
                    /\ data = object.bytes /\ IsDoc /\ HasText
                         => ExtractText.kind # "" /\ Visible(ExtractText.text)
  OBVIOUS
<1>1. /\ object.form \in {"plain", "pdf", "zip"} /\ object.text \in Seq(Byte)
      /\ object.parts \in Seq(OfficePart) /\ (object.form # "zip" => object.parts = <<>>)
  BY InputsOK DEF IsObject
<1>2. CASE data # object.bytes
  <2>1. ExtractText.text = <<>> /\ ExtractText.kind = ""
    BY <1>2 DEF ExtractText
  <2> QED
    BY <1>2, <2>1, NothingSent
<1>3. CASE data = object.bytes /\ object.form = "pdf"
  <2>1. ExtractText.text = object.text /\ ExtractText.kind = "pdf"
    BY <1>3 DEF ExtractText
  <2>2. object.parts = <<>> /\ Len(object.parts) = 0 /\ 1..0 = {}
    BY <1>1, <1>3
  <2>3. HasText => Visible(object.text)
    BY <2>2 DEF HasText
  <2> QED
    BY <1>1, <2>1, <2>3
<1>4. CASE data = object.bytes /\ object.form # "pdf"
  <2>1. ExtractText.text = OoxmlText(object.parts) /\ ExtractText.kind = Kind(object.parts)
    BY <1>4 DEF ExtractText
  <2>2. OoxmlText(object.parts) \in Seq(Byte) /\ Kind(object.parts) \in {"", "docx", "xlsx", "pptx"}
    BY <1>1, OoxmlTextKeeps, KindOfParts
  <2>3. ASSUME HasText PROVE Visible(OoxmlText(object.parts)) /\ Kind(object.parts) # ""
    <3>1. PICK p \in 1..Len(object.parts) :
             /\ IsContentPart(object.parts[p].name) /\ object.parts[p].opens
             /\ \E k \in Walked(object.parts[p].tokens) :
                  Visible(object.parts[p].tokens[k].text)
      BY <1>4, <2>3 DEF HasText
    <3> QED
      BY <1>1, <3>1, OoxmlTextKeeps, KindOfParts
  <2> QED
    BY <2>1, <2>2, <2>3
<1> QED
  BY <1>2, <1>3, <1>4

LEMMA DecodeStep == ObjectInv /\ Decode => ObjectInv'
<1> SUFFICES ASSUME ObjectInv, Decode PROVE ObjectInv'
  OBVIOUS
<1>1. /\ stage = "read" /\ stage' = "decoded"
      /\ UNCHANGED <<object, opts, regex, sent, spans, result>>
  BY DEF Decode
<1>2. \/ data' = ExtractText.text /\ kind' = ExtractText.kind /\ kind' # ""
      \/ /\ ~(IsDoc /\ ExtractText.kind # "" /\ Visible(ExtractText.text))
         /\ data' = data /\ kind' = kind
  BY DEF Decode
<1>3. TypeOK /\ DocInv /\ sent = <<>> /\ regex = {} /\ spans = {} /\ result = {}
  BY <1>1 DEF ObjectInv, SentInv, RegexInv, ResultInv
<1>4. data' \in Seq(Byte) /\ kind' \in {"", "pdf", "docx", "xlsx", "pptx"}
  BY <1>2, <1>3, ExtractTextKeeps DEF TypeOK
<1>5. TypeOK'
  <2>1. sent' = <<>> /\ sent' \in Seq(1..Len(data'))
    BY <1>1, <1>3, NothingSent
  <2> QED
    BY <1>1, <1>3, <1>4, <2>1 DEF TypeOK
<1>6. SentInv'
  BY <1>1, <1>3, NothingSent DEF SentInv
<1>7. RegexInv' /\ ResultInv'
  BY <1>1, <1>3 DEF RegexInv, ResultInv
<1>8. DocInv'
  <2>1. ASSUME IsDoc, HasText, opts.maxObject <= 0 \/ Len(object.bytes) <= opts.maxObject
        PROVE  kind' # ""
    <3>1. data = object.bytes
      BY <1>1, <1>3, <2>1 DEF DocInv
    <3>2. ExtractText.kind # "" /\ Visible(ExtractText.text)
      BY <1>3, <2>1, <3>1, ExtractTextKeeps
    <3> QED
      BY <1>2, <2>1, <3>2
  <2>2. (IsDoc' <=> IsDoc) /\ (HasText' <=> HasText)
    BY <1>1 DEF IsDoc, HasText
  <2>3. DocumentIsRead'
    BY <1>1, <2>1, <2>2 DEF DocumentIsRead
  <2>4. kind' \in {"docx", "xlsx", "pptx"} => data' = OoxmlText(object.parts)
    <3>1. kind = ""
      BY <1>1, <1>3 DEF DocInv
    <3> QED
      BY <1>2, <3>1 DEF ExtractText
  <2> QED
    BY <1>1, <2>3, <2>4 DEF DocInv
<1> QED
  BY <1>5, <1>6, <1>7, <1>8 DEF ObjectInv

LEMMA SkipBinaryStep == ObjectInv /\ SkipBinary => ObjectInv'
<1> SUFFICES ASSUME ObjectInv, SkipBinary PROVE ObjectInv'
  OBVIOUS
<1>1. /\ stage = "decoded" /\ kind = "" /\ stage' = "skipped"
      /\ UNCHANGED <<object, opts, data, kind, regex, sent, spans, result>>
  BY DEF SkipBinary
<1>2. TypeOK'
  BY <1>1 DEF ObjectInv, TypeOK
<1>3. SentInv'
  BY <1>1 DEF ObjectInv, SentInv, Clean
<1>4. RegexInv' /\ ResultInv'
  BY <1>1 DEF ObjectInv, RegexInv, ResultInv
<1>5. DocInv'
  BY <1>1 DEF ObjectInv, DocInv, DocumentIsRead, IsDoc, HasText
<1> QED
  BY <1>2, <1>3, <1>4, <1>5 DEF ObjectInv

\* Nothing changes in the documents once they are decoded.
LEMMA DocKept ==
    /\ ObjectInv /\ stage \notin {"open", "failed", "read", "skipped"}
    /\ stage' \notin {"open", "failed", "read", "skipped"}
    /\ UNCHANGED <<object, opts, data, kind>>
    => DocInv'
BY DEF ObjectInv, DocInv, DocumentIsRead, IsDoc, HasText

LEMMA SearchStep == ObjectInv /\ Search => ObjectInv'
<1> SUFFICES ASSUME ObjectInv, Search PROVE ObjectInv'
  OBVIOUS
<1>1. /\ stage = "decoded" /\ stage' \in {"searched", "scanned"}
      /\ (stage' = "scanned" <=> ~opts.ner)
      /\ UNCHANGED <<object, opts, data, kind, sent, spans>>
      /\ result' = IF opts.ner THEN {} ELSE regex'
  BY DEF Search
<1>2. TypeOK /\ sent = <<>> /\ spans = {}
  BY <1>1 DEF ObjectInv, SentInv, ResultInv
<1>3. PICK I \in Intervals(Len(data)) \cup {<<0, 0>>} :
        regex' = IF I = <<0, 0>> THEN {}
                 ELSE {Finding("regex", LineAt(data, I[1]), I[1], I[2], <<0, 0>>)}
  BY DEF Search
<1>4. Len(data) \in Nat
  <2>1. data \in Seq(Byte)
    BY <1>2 DEF TypeOK
  <2> QED
    BY <2>1
<1>5. \A f \in regex' : /\ f.src = "regex" /\ <<f.from, f.to>> \in Intervals(Len(data))
                        /\ {f.line, f.from, f.to} \subseteq Nat
  <2>1. CASE I = <<0, 0>>
    BY <1>3, <2>1
  <2>2. CASE I # <<0, 0>>
    <3>1. I \in Intervals(Len(data)) /\ I = <<I[1], I[2]>> /\ I[1] \in Nat /\ I[2] \in Nat
      BY <1>3, <1>4, <2>2 DEF Intervals
    <3>2. LineAt(data, I[1]) \in Nat
      BY <3>1, LineIsNat
    <3>3. regex' = {Finding("regex", LineAt(data, I[1]), I[1], I[2], <<0, 0>>)}
      BY <1>3, <2>2
    <3> QED
      BY <3>1, <3>2, <3>3 DEF Finding
  <2> QED
    BY <2>1, <2>2
<1>6. TypeOK'
  BY <1>1, <1>2, <1>5 DEF TypeOK
<1>7. SentInv'
  BY <1>1, <1>2, NothingSent DEF SentInv
<1>8. RegexInv'
  BY <1>1, <1>5 DEF RegexInv
<1>9. ResultInv'
  <2>1. NerFindings' = {}
    BY <1>1, <1>2 DEF NerFindings
  <2>2. opts.ner \in BOOLEAN
    BY <1>2, InputsOK DEF IsOptions
  <2>3. result' = IF stage' # "scanned" THEN {} ELSE regex'
    BY <1>1, <2>2
  <2> QED
    BY <1>1, <1>2, <2>1, <2>3 DEF ResultInv
<1>10. DocInv'
  BY <1>1, DocKept
<1> QED
  BY <1>6, <1>7, <1>8, <1>9, <1>10 DEF ObjectInv

\* Cutting valid text costs at most the rune that is cut.
LEMMA CappedIsPrefix ==
    ASSUME NEW s \in Seq(Byte), NEW cap \in Nat, cap > 0, Len(s) > cap,
           \A p \in 1..Len(s) : Valid(s, p)
    PROVE  \E m \in Nat : {p \in 1..cap : Valid(SubSeq(s, 1, cap), p)} = 1..m
<1> DEFINE head == SubSeq(s, 1, cap)
           kept == {p \in 1..cap : Valid(head, p)}
<1>1. Len(s) \in Nat /\ Len(head) = cap /\ \A p \in 1..cap : head[p] = s[p]
  OBVIOUS
<1> HIDE DEF head
<1>2. ASSUME NEW p \in 1..(cap - 1) PROVE Valid(head, p)
  <2>1. /\ p \in Nat /\ p \in 1..cap /\ p + 1 \in 1..cap /\ p < cap /\ p < Len(s)
        /\ p \in 1..Len(s) /\ (p > 1 => p - 1 \in 1..cap /\ p - 1 < cap /\ p - 1 + 1 = p)
    BY <1>1
  <2>2. head[p] = s[p] /\ head[p + 1] = s[p + 1]
    BY <1>1, <2>1
  <2>3. Pair(s, p) => Pair(head, p)
    BY <1>1, <2>1, <2>2 DEF Pair
  <2>4. p > 1 /\ Pair(s, p - 1) => Pair(head, p - 1)
    BY <1>1, <2>1, <2>2 DEF Pair
  <2>5. Valid(s, p)
    BY <2>1
  <2> QED
    BY <2>2, <2>3, <2>4, <2>5 DEF Valid
<1>3. CASE Valid(head, cap)
  <2>1. \A p \in 1..cap : p \in 1..(cap - 1) \/ p = cap
    OBVIOUS
  <2>2. kept = 1..cap
    BY <1>2, <1>3, <2>1
  <2> QED
    BY <2>2 DEF head
<1>4. CASE ~Valid(head, cap)
  <2>1. /\ \A p \in 1..cap : p \in 1..(cap - 1) \/ p = cap
        /\ \A p \in 1..(cap - 1) : p \in 1..cap /\ p # cap
        /\ cap - 1 \in Nat
    OBVIOUS
  <2>2. kept = 1..(cap - 1)
    BY <1>2, <1>4, <2>1
  <2> QED
    BY <2>1, <2>2 DEF head
<1> QED
  BY <1>3, <1>4

LEMMA TrimStep == ObjectInv /\ Trim => ObjectInv'
<1> SUFFICES ASSUME ObjectInv, Trim PROVE ObjectInv'
  OBVIOUS
<1> DEFINE head == SubSeq(data, 1, opts.nerMax)
           cut  == opts.nerMax > 0 /\ Len(data) > opts.nerMax
           kept == IF cut THEN {p \in 1..opts.nerMax : Valid(head, p)} ELSE 1..Len(data)
<1>1. /\ stage = "searched" /\ stage' = "capped" /\ sent' = InOrder(kept)
      /\ UNCHANGED <<object, opts, data, kind, regex, spans, result>>
  BY DEF Trim
<1>2. TypeOK /\ spans = {} /\ result = {}
  BY <1>1 DEF ObjectInv, ResultInv
<1>3. data \in Seq(Byte) /\ opts.nerMax \in Int
  BY <1>2, InputsOK DEF TypeOK
<1>4. Len(data) \in Nat
  BY <1>3
<1>5. kept \in SUBSET (1..Len(data))
  BY <1>3, <1>4
<1>6. Clean => \E m \in Nat : kept = 1..m
  <2> SUFFICES ASSUME Clean PROVE \E m \in Nat : kept = 1..m
    OBVIOUS
  <2>1. CASE ~cut
    BY <1>4, <2>1
  <2>2. CASE cut
    <3>1. opts.nerMax \in Nat /\ \A p \in 1..Len(data) : Valid(data, p)
      BY <1>3, <1>4, <2>2 DEF Clean
    <3>2. \E m \in Nat : {p \in 1..opts.nerMax : Valid(head, p)} = 1..m
      BY <1>3, <2>2, <3>1, CappedIsPrefix
    <3> QED
      BY <2>2, <3>2
  <2> QED
    BY <2>1, <2>2
<1> HIDE DEF kept
<1>7. kept \in SUBSET Nat /\ IsFiniteSet(kept)
  <2>1. IsFiniteSet(1..Len(data)) /\ 1..Len(data) \in SUBSET Nat
    BY <1>4, CountUpTo
  <2>2. IsFiniteSet(kept)
    BY <1>5, <2>1, FS_Subset
  <2> QED
    BY <1>5, <2>1, <2>2
<1>8. sent' \in Seq(1..Len(data))
  <2>1. InOrder(kept) \in Seq(kept)
    BY <1>7, InOrderLists
  <2>2. \A S, T : S \in SUBSET T => \A q \in Seq(S) : q \in Seq(T)
    OBVIOUS
  <2>3. InOrder(kept) \in Seq(1..Len(data))
    BY <1>5, <2>1, <2>2, Zenon
  <2> QED
    BY <1>1, <2>3
<1>9. Clean => \A k \in 1..Len(sent') : sent'[k] = k
  <2> SUFFICES ASSUME Clean PROVE \A k \in 1..Len(sent') : sent'[k] = k
    OBVIOUS
  <2>1. PICK m \in Nat : kept = 1..m
    BY <1>6
  <2>2. sent' = [k \in 1..m |-> k]
    BY <1>1, <2>1, InOrderUpTo
  <2> QED
    BY <2>2
<1>10. TypeOK'
  BY <1>1, <1>2, <1>8 DEF TypeOK
<1>11. SentInv'
  <2>1. Clean' <=> Clean
    BY <1>1 DEF Clean
  <2> QED
    BY <1>1, <1>9, <2>1 DEF SentInv
<1>12. RegexInv'
  BY <1>1 DEF ObjectInv, RegexInv
<1>13. ResultInv'
  BY <1>1, <1>2 DEF ResultInv
<1>14. DocInv'
  BY <1>1, DocKept
<1> QED
  BY <1>10, <1>11, <1>12, <1>13, <1>14 DEF ObjectInv

\* The call and the merge touch neither what was sent nor the regex findings.
LEMMA SentAndRegexKept ==
    /\ ObjectInv /\ stage \in {"capped", "sent"} /\ stage' \in {"sent", "scanned"}
    /\ UNCHANGED <<object, opts, data, kind, regex, sent>>
    => SentInv' /\ RegexInv' /\ DocInv'
<1> SUFFICES ASSUME ObjectInv, stage \in {"capped", "sent"}, stage' \in {"sent", "scanned"},
                    UNCHANGED <<object, opts, data, kind, regex, sent>>
             PROVE  SentInv' /\ RegexInv' /\ DocInv'
  OBVIOUS
<1>1. SentInv'
  BY DEF ObjectInv, SentInv, Clean
<1>2. RegexInv'
  BY DEF ObjectInv, RegexInv
<1>3. DocInv'
  BY DocKept
<1> QED
  BY <1>1, <1>2, <1>3

LEMMA AnalyzeStep == ObjectInv /\ Analyze => ObjectInv'
<1> SUFFICES ASSUME ObjectInv, Analyze PROVE ObjectInv'
  OBVIOUS
<1>1. /\ stage = "capped" /\ stage' = "sent"
      /\ UNCHANGED <<object, opts, data, kind, regex, sent, result>>
  BY DEF Analyze
<1>2. TypeOK /\ result = {}
  BY <1>1 DEF ObjectInv, ResultInv
<1>3. Runes(Text) \in Nat
  BY <1>2, SentText, StartsAre
<1>4. spans' \subseteq Int \X Int
  <2>1. PICK from \in -1..(Runes(Text) + 1), to \in -1..(Runes(Text) + 1) :
          spans' = {<<from, to>>}
    BY DEF Analyze
  <2> QED
    BY <1>3, <2>1
<1>5. TypeOK'
  BY <1>1, <1>2, <1>4 DEF TypeOK
<1>6. ResultInv'
  BY <1>1, <1>2 DEF ResultInv
<1> QED
  BY <1>1, <1>5, <1>6, SentAndRegexKept DEF ObjectInv

LEMMA AnalyzeFailsStep == ObjectInv /\ AnalyzeFails => ObjectInv'
<1> SUFFICES ASSUME ObjectInv, AnalyzeFails PROVE ObjectInv'
  OBVIOUS
<1>1. /\ stage = "capped" /\ stage' = "scanned" /\ result' = regex
      /\ UNCHANGED <<object, opts, data, kind, regex, sent, spans>>
  BY DEF AnalyzeFails
<1>2. TypeOK /\ spans = {}
  BY <1>1 DEF ObjectInv, ResultInv
<1>3. TypeOK'
  BY <1>1, <1>2 DEF TypeOK
<1>4. ResultInv'
  <2>1. NerFindings' = {}
    BY <1>1, <1>2 DEF NerFindings
  <2> QED
    BY <1>1, <2>1 DEF ResultInv
<1> QED
  BY <1>1, <1>3, <1>4, SentAndRegexKept DEF ObjectInv

LEMMA MergeStep == ObjectInv /\ Merge => ObjectInv'
<1> SUFFICES ASSUME ObjectInv, Merge PROVE ObjectInv'
  OBVIOUS
<1>1. /\ stage = "sent" /\ stage' = "scanned"
      /\ result' = regex \cup {f \in NerFindings : ~\E o \in regex : Overlaps(f, o)}
      /\ UNCHANGED <<object, opts, data, kind, regex, sent, spans>>
  BY DEF Merge, NerFindings
<1>2. TypeOK
  BY DEF ObjectInv
<1>3. \A f \in NerFindings : f.src = "ner" /\ {f.line, f.from, f.to} \subseteq Nat
  <2> SUFFICES ASSUME NEW sp \in spans, WellFormed(sp)
               PROVE  /\ SpanFinding(sp).src = "ner"
                      /\ {SpanFinding(sp).line, SpanFinding(sp).from, SpanFinding(sp).to}
                            \subseteq Nat
    BY DEF NerFindings
  <2>1. Len(sent) \in Nat
    BY <1>2, SentText
  <2> QED
    BY <1>2, <2>1, SpanFindingIs
<1>4. TypeOK'
  <2>1. \A f \in result' : f.src \in {"regex", "ner"} /\ {f.line, f.from, f.to} \subseteq Nat
    BY <1>1, <1>2, <1>3 DEF TypeOK
  <2> QED
    BY <1>1, <1>2, <2>1 DEF TypeOK
<1>5. ResultInv'
  <2>1. NerFindings' = NerFindings
    BY <1>1 DEF NerFindings, SpanFinding, WellFormed, Text
  <2> QED
    BY <1>1, <2>1 DEF ResultInv
<1> QED
  BY <1>1, <1>4, <1>5, SentAndRegexKept DEF ObjectInv

\* The invariant holds of every object, whatever its options.
THEOREM ObjectInvariance == Spec => []ObjectInv
<1>1. Init => ObjectInv
  BY ObjectStart
<1>2. ObjectInv /\ [Next]_vars => ObjectInv'
  <2> SUFFICES ASSUME ObjectInv, [Next]_vars PROVE ObjectInv'
    OBVIOUS
  <2>1. CASE ReadFails
    BY <2>1, ReadFailsStep
  <2>2. CASE Read
    BY <2>2, ReadStep
  <2>3. CASE Decode
    BY <2>3, DecodeStep
  <2>4. CASE SkipBinary
    BY <2>4, SkipBinaryStep
  <2>5. CASE Search
    BY <2>5, SearchStep
  <2>6. CASE Trim
    BY <2>6, TrimStep
  <2>7. CASE Analyze
    BY <2>7, AnalyzeStep
  <2>8. CASE AnalyzeFails
    BY <2>8, AnalyzeFailsStep
  <2>9. CASE Merge
    BY <2>9, MergeStep
  <2>10. CASE UNCHANGED vars
    <3>1. TypeOK' /\ RegexInv'
      BY <2>10 DEF ObjectInv, vars, TypeOK, RegexInv
    <3>2. SentInv'
      BY <2>10 DEF ObjectInv, vars, SentInv, Clean
    <3>3. NerFindings' = NerFindings
      BY <2>10 DEF vars, NerFindings, SpanFinding, WellFormed, Text
    <3>4. ResultInv'
      BY <2>10, <3>3 DEF ObjectInv, vars, ResultInv
    <3>5. DocInv'
      BY <2>10 DEF ObjectInv, vars, DocInv, DocumentIsRead, IsDoc, HasText
    <3> QED
      BY <3>1, <3>2, <3>4, <3>5 DEF ObjectInv
  <2> QED
    BY <2>1, <2>2, <2>3, <2>4, <2>5, <2>6, <2>7, <2>8, <2>9, <2>10 DEF Next
<1> QED
  BY <1>1, <1>2, PTL DEF Spec

\* Every object's stage, text, positions and findings keep their types.
THEOREM ObjectTypeCorrect == Spec => []TypeOK
<1>1. ObjectInv => TypeOK
  BY DEF ObjectInv
<1> QED
  BY <1>1, ObjectInvariance, PTL

\* A document with text, within the size limit, is searched as text, whatever its
\* container looks like and however damaged its other parts are.
THEOREM DocumentsAreRead == Spec => []DocumentIsRead
<1>1. ObjectInv => DocumentIsRead
  BY DEF ObjectInv, DocInv
<1> QED
  BY <1>1, ObjectInvariance, PTL

\* In a clean text the bytes that a span covers are those between its offsets.
LEMMA CoveredIs ==
    ASSUME ObjectInv, Clean, NEW sp \in spans, WellFormed(sp)
    PROVE  Covered(sp) = (SpanFinding(sp).from + 1)..SpanFinding(sp).to
<1>1. TypeOK /\ \A k \in 1..Len(sent) : sent[k] = k
  BY DEF ObjectInv, SentInv
<1>2. Text \in Seq(Byte) /\ Len(Text) = Len(sent)
  BY <1>1, SentText
<1>3. /\ sp[1] \in 0..Runes(Text) /\ sp[2] \in 0..Runes(Text)
      /\ SpanFinding(sp).from = RuneByteOffsets(Text, sp[1])
      /\ SpanFinding(sp).to = RuneByteOffsets(Text, sp[2])
  BY <1>1, SpanFindingIs
<1>4. {j \in 1..Len(Text) : Cardinality(Below(Starts(Text), j)) - 1 \in sp[1]..(sp[2] - 1)}
        = (SpanFinding(sp).from + 1)..SpanFinding(sp).to
  BY <1>2, <1>3, BytesOfSpan
<1>5. {j \in 1..Len(sent) : RuneOf(j) \in sp[1]..(sp[2] - 1)}
        = (SpanFinding(sp).from + 1)..SpanFinding(sp).to
  BY <1>2, <1>4 DEF RuneOf, Below
<1> DEFINE ks == {j \in 1..Len(sent) : RuneOf(j) \in sp[1]..(sp[2] - 1)}
<1>6. Covered(sp) = {sent[k] : k \in ks}
  BY DEF Covered
<1>7. \A k \in ks : sent[k] = k
  BY <1>1
<1> HIDE DEF ks
<1>8. {sent[k] : k \in ks} = ks
  BY <1>7
<1> QED
  BY <1>5, <1>6, <1>8 DEF ks

\* An NER finding of the result is that of a span of the answer, clear of the regex
\* findings, and every such finding is there.
LEMMA NerIs ==
    ASSUME ObjectInv, stage = "scanned"
    PROVE  Ner = {f \in NerFindings : ~\E o \in regex : Overlaps(f, o)}
<1>1. /\ TypeOK /\ \A f \in regex : f.src = "regex"
      /\ result = regex \cup {f \in NerFindings : ~\E o \in regex : Overlaps(f, o)}
  BY DEF ObjectInv, RegexInv, ResultInv
<1>2. ASSUME NEW f \in NerFindings PROVE f.src = "ner"
  BY <1>1, SpanFindingIs DEF NerFindings
<1> QED
  BY <1>1, <1>2 DEF Ner

\* In a clean text the offsets of an NER finding are those of the bytes that the
\* sidecar's span covers, and its line is the one they are on.
THEOREM NerOffsets == Spec => []OffsetsExact
<1>1. ASSUME ObjectInv PROVE OffsetsExact
  <2> SUFFICES ASSUME Clean, NEW f \in Ner
               PROVE  (f.from + 1)..f.to = Covered(f.span) /\ f.line = LineAt(data, f.from)
    BY DEF OffsetsExact
  <2>1. TypeOK /\ \A k \in 1..Len(sent) : sent[k] = k
    BY <1>1 DEF ObjectInv, SentInv
  <2>2. stage = "scanned"
    BY <1>1 DEF ObjectInv, ResultInv, Ner
  <2>3. f \in NerFindings
    BY <1>1, <2>2, NerIs
  <2>4. PICK sp \in spans : WellFormed(sp) /\ f = SpanFinding(sp)
    BY <2>3 DEF NerFindings
  <2>5. f.span = sp /\ f.line = LineAt(Text, f.from) /\ f.from \in 0..Len(sent)
    BY <2>1, <2>4, SpanFindingIs
  <2>6. (f.from + 1)..f.to = Covered(f.span)
    BY <1>1, <2>4, <2>5, CoveredIs
  <2>7. \A q \in 1..f.from : Text[q] = data[q]
    <3>1. Len(sent) \in Nat /\ \A k \in 1..Len(sent) : Text[k] = data[sent[k]]
      BY <2>1, SentText
    <3>2. \A q \in 1..f.from : q \in 1..Len(sent)
      BY <2>5, <3>1
    <3> QED
      BY <2>1, <3>1, <3>2
  <2>8. {q \in 1..f.from : Text[q] = "newline"} = {q \in 1..f.from : data[q] = "newline"}
    BY <2>7
  <2>9. f.line = LineAt(data, f.from)
    BY <2>5, <2>8 DEF LineAt
  <2> QED
    BY <2>6, <2>9
<1> QED
  BY <1>1, ObjectInvariance, PTL

\* Two intervals share a byte exactly when each begins before the other ends.
LEMMA OverlapIs ==
    ASSUME NEW a \in Nat, NEW b \in Nat, NEW c \in Nat, NEW d \in Nat, a < b, c < d
    PROVE  (a < d /\ c < b) <=> ((a + 1)..b) \cap ((c + 1)..d) # {}
<1>1. ASSUME a < d, c < b PROVE ((a + 1)..b) \cap ((c + 1)..d) # {}
  <2> DEFINE q == IF a < c THEN c + 1 ELSE a + 1
  <2>1. q \in (a + 1)..b /\ q \in (c + 1)..d
    BY <1>1
  <2> QED
    BY <2>1
<1>2. ASSUME NEW q \in ((a + 1)..b) \cap ((c + 1)..d) PROVE a < d /\ c < b
  OBVIOUS
<1> QED
  BY <1>1, <1>2

\* In a clean text exactly those spans of the answer survive that share no byte with a
\* regex finding.
THEOREM NothingIsMergedAway == Spec => []MergeIsExact
<1>1. ASSUME ObjectInv PROVE MergeIsExact
  <2> SUFFICES ASSUME stage = "scanned", Clean, NEW sp \in spans, WellFormed(sp), sp[1] < sp[2]
               PROVE  (\E f \in Ner : f.span = sp) <=>
                        \A o \in regex : Covered(sp) \cap ((o.from + 1)..o.to) = {}
    BY DEF MergeIsExact
  <2> DEFINE g == SpanFinding(sp)
  <2>1. TypeOK
    BY <1>1 DEF ObjectInv
  <2>2. /\ Text \in Seq(Byte) /\ Len(sent) \in Nat /\ Len(Text) = Len(sent)
        /\ Len(data) \in Nat /\ Runes(Text) \in Nat
    <3>1. data \in Seq(Byte)
      BY <2>1 DEF TypeOK
    <3> QED
      BY <2>1, <3>1, SentText, StartsAre
  <2>3. /\ sp[1] \in 0..Runes(Text) /\ sp[2] \in 0..Runes(Text)
        /\ g.from = RuneByteOffsets(Text, sp[1]) /\ g.to = RuneByteOffsets(Text, sp[2])
        /\ g.from \in 0..Len(sent) /\ g.to \in 0..Len(sent)
    BY <2>1, SpanFindingIs
  <2>4. g.from \in Nat /\ g.to \in Nat /\ g.from < g.to
    <3>1. /\ Cardinality(Below(Starts(Text), g.from)) = sp[1]
          /\ Cardinality(Below(Starts(Text), g.to)) = sp[2]
      BY <2>2, <2>3, OffsetOfRune
    <3>2. g.from \in Nat /\ g.to \in Nat
      BY <2>2, <2>3
    <3>3. Starts(Text) \in SUBSET Nat /\ IsFiniteSet(Starts(Text))
      BY <2>2, StartsAre
    <3>4. g.to <= g.from => Cardinality(Below(Starts(Text), g.to))
                              <= Cardinality(Below(Starts(Text), g.from))
      BY <3>2, <3>3, BelowCount
    <3> HIDE DEF g
    <3>5. sp[1] \in Nat /\ sp[2] \in Nat
      BY <2>2, <2>3
    <3> QED
      BY <3>1, <3>2, <3>4, <3>5
  <2>5. Covered(sp) = (g.from + 1)..g.to
    BY <1>1, CoveredIs
  <2>6. ASSUME NEW o \in regex
        PROVE  Overlaps(g, o) <=> Covered(sp) \cap ((o.from + 1)..o.to) # {}
    <3>1. <<o.from, o.to>> \in Intervals(Len(data))
      BY <1>1 DEF ObjectInv, RegexInv
    <3>2. o.from \in Nat /\ o.to \in Nat /\ o.from < o.to
      BY <2>2, <3>1 DEF Intervals
    <3> HIDE DEF g
    <3> QED
      BY <2>4, <2>5, <3>2, OverlapIs DEF Overlaps
  <2>7. (\E f \in Ner : f.span = sp) <=> g \in Ner
    <3>1. ASSUME NEW f \in Ner, f.span = sp PROVE f = g
      <4>1. f \in NerFindings
        BY <1>1, NerIs
      <4>2. PICK x \in spans : WellFormed(x) /\ f = SpanFinding(x)
        BY <4>1 DEF NerFindings
      <4>3. f.span = x
        BY <2>1, <4>2, SpanFindingIs
      <4> QED
        BY <3>1, <4>2, <4>3
    <3>2. g.span = sp
      BY <2>1, SpanFindingIs
    <3> HIDE DEF g
    <3> QED
      BY <3>1, <3>2
  <2>8. g \in NerFindings
    BY DEF NerFindings
  <2>9. g \in Ner <=> ~\E o \in regex : Overlaps(g, o)
    BY <1>1, <2>8, NerIs
  <2> HIDE DEF g
  <2> QED
    BY <2>6, <2>7, <2>9
<1> QED
  BY <1>1, ObjectInvariance, PTL

-----------------------------------------------------------------------------
(* The words of a text.                                                     *)

WordStarts(s) == {k \in 1..Len(s) : s[k] \notin Blank /\ (k = 1 \/ s[k - 1] \in Blank)}

IsWordEnd(s, k, e) ==
    /\ \A j \in k..e : s[j] \notin Blank
    /\ e = Len(s) \/ s[e + 1] \in Blank

WordEnd(s, k) == CHOOSE e \in k..Len(s) : IsWordEnd(s, k, e)

LEMMA WordsAre ==
    ASSUME NEW s
    PROVE  Words(s) = [k \in 1..Cardinality(WordStarts(s)) |->
                         SubSeq(s, InOrder(WordStarts(s))[k], WordEnd(s, InOrder(WordStarts(s))[k]))]
BY DEF Words, WordStarts, WordEnd, IsWordEnd

LEMMA StartsOfWords ==
    ASSUME NEW s \in Seq(Byte)
    PROVE  /\ Len(s) \in Nat /\ WordStarts(s) \in SUBSET (1..Len(s))
           /\ WordStarts(s) \in SUBSET Nat /\ IsFiniteSet(WordStarts(s))
           /\ Cardinality(WordStarts(s)) \in Nat
<1>1. Len(s) \in Nat /\ WordStarts(s) \in SUBSET (1..Len(s))
  BY DEF WordStarts
<1>2. IsFiniteSet(1..Len(s))
  BY <1>1, CountUpTo
<1>3. IsFiniteSet(WordStarts(s))
  BY <1>1, <1>2, FS_Subset
<1> QED
  BY <1>1, <1>3, FS_CardinalityType

\* A word that begins ends, and at one place.
LEMMA WordEndIs ==
    ASSUME NEW s \in Seq(Byte), NEW k \in WordStarts(s)
    PROVE  /\ WordEnd(s, k) \in k..Len(s) /\ IsWordEnd(s, k, WordEnd(s, k))
           /\ \A e \in k..Len(s) : IsWordEnd(s, k, e) => e = WordEnd(s, k)
<1>1. Len(s) \in Nat /\ k \in 1..Len(s) /\ s[k] \notin Blank
  BY DEF WordStarts
<1> DEFINE ends == {e \in k..Len(s) : e = Len(s) \/ s[e + 1] \in Blank}
<1>2. ends \in SUBSET Nat /\ Len(s) \in ends
  BY <1>1
<1>3. PICK e \in ends : \A d \in ends : e <= d
  BY <1>2, LeastElement
<1>4. \A j \in k..e : s[j] \notin Blank
  <2> SUFFICES ASSUME NEW j \in k..e, j # k PROVE s[j] \notin Blank
    BY <1>1
  <2>1. j - 1 \in k..Len(s) /\ j - 1 # Len(s) /\ j - 1 < e /\ j - 1 + 1 = j
        /\ j - 1 \in Nat /\ e \in Nat
    BY <1>1, <1>3
  <2>2. j - 1 \notin ends
    BY <1>3, <2>1
  <2> QED
    BY <2>1, <2>2
<1>5. e \in k..Len(s) /\ IsWordEnd(s, k, e)
  BY <1>3, <1>4 DEF IsWordEnd
<1>6. WordEnd(s, k) \in k..Len(s) /\ IsWordEnd(s, k, WordEnd(s, k))
  BY <1>5 DEF WordEnd
<1>7. ASSUME NEW d \in k..Len(s), NEW c \in k..Len(s), IsWordEnd(s, k, c), IsWordEnd(s, k, d),
             c < d
      PROVE  FALSE
  <2>1. c + 1 \in k..d /\ c # Len(s)
    BY <1>1, <1>7
  <2> QED
    BY <1>7, <2>1 DEF IsWordEnd
<1>8. ASSUME NEW d \in k..Len(s), IsWordEnd(s, k, d) PROVE d = WordEnd(s, k)
  <2>1. ~(d < WordEnd(s, k)) /\ ~(WordEnd(s, k) < d)
    BY <1>6, <1>7, <1>8
  <2>2. d \in Int /\ WordEnd(s, k) \in Int
    BY <1>1, <1>6
  <2> QED
    BY <2>1, <2>2
<1> QED
  BY <1>6, <1>8

\* InOrder(S)[k] is the element of S that has k - 1 others below it.
LEMMA InOrderIs ==
    ASSUME NEW S \in SUBSET Nat, IsFiniteSet(S), NEW k \in 1..Cardinality(S)
    PROVE  /\ InOrder(S)[k] \in S /\ Cardinality(Below(S, InOrder(S)[k])) = k - 1
           /\ \A p \in S : Cardinality(Below(S, p)) = k - 1 => p = InOrder(S)[k]
<1>1. Cardinality(S) \in Nat
  BY FS_CardinalityType
<1>2. PICK p \in S : Cardinality(Below(S, p)) = k - 1
  <2>1. k - 1 \in 0..(Cardinality(S) - 1)
    BY <1>1
  <2> QED
    BY <2>1, RankedElement
<1>3. \A q \in S : Cardinality({r \in S : r <= q}) = k <=> Cardinality(Below(S, q)) = k - 1
  <2> TAKE q \in S
  <2>1. Cardinality({r \in S : r <= q}) = Cardinality(Below(S, q)) + 1
        /\ Cardinality(Below(S, q)) \in Nat
    BY CountTo
  <2> QED
    BY <1>1, <2>1
<1> DEFINE c == CHOOSE q \in S : Cardinality({r \in S : r <= q}) = k
<1>4. c \in S /\ Cardinality({r \in S : r <= c}) = k
  BY <1>2, <1>3
<1>5. InOrder(S)[k] = c
  BY DEF InOrder
<1> HIDE DEF c
<1>6. Cardinality(Below(S, c)) = k - 1
  BY <1>3, <1>4
<1>7. ASSUME NEW q \in S, Cardinality(Below(S, q)) = k - 1 PROVE q = c
  <2>1. q \in Nat /\ c \in Nat /\ k - 1 \in Nat
    BY <1>1, <1>4
  <2>2. ~(q < c) /\ ~(c < q)
    BY <1>4, <1>6, <1>7, <2>1, BelowCount
  <2> QED
    BY <2>1, <2>2
<1> QED
  BY <1>4, <1>5, <1>6, <1>7

\* Moving a set of numbers changes neither its size nor its order.
LEMMA ShiftCount ==
    ASSUME NEW T \in SUBSET Nat, IsFiniteSet(T), NEW m \in Nat
    PROVE  /\ IsFiniteSet({m + k : k \in T})
           /\ Cardinality({m + k : k \in T}) = Cardinality(T)
<1> DEFINE M == {m + k : k \in T}
           move == [k \in T |-> m + k]
<1>1. move \in [T -> M]
  OBVIOUS
<1>2. ASSUME NEW j \in T, NEW k \in T, move[j] = move[k] PROVE j = k
  <2>1. j \in Nat /\ k \in Nat /\ m + j = m + k
    BY <1>2
  <2> QED
    BY <2>1
<1>3. \A r \in M : \E k \in T : move[k] = r
  OBVIOUS
<1> HIDE DEF move, M
<1>4. move \in Injection(T, M)
  BY <1>1, <1>2, Fun_IsInj
<1>5. move \in Surjection(T, M)
  BY <1>1, <1>3, Zenon DEF Surjection
<1>6. ExistsBijection(T, M)
  BY <1>4, <1>5, Zenon DEF ExistsBijection, Bijection
<1> QED
  BY <1>6, FS_Bijection DEF M

\* Two texts that join without fusing their words.
Apart(s, t) ==
    s = <<>> \/ t = <<>> \/ s[Len(s)] \in Blank \/ t[1] \in Blank

\* The sum of two finite sets of numbers, one above the other.
LEMMA StackCount ==
    ASSUME NEW S \in SUBSET Nat, IsFiniteSet(S), NEW T \in SUBSET Nat, IsFiniteSet(T),
           NEW m \in Nat, \A q \in S : q <= m, \A k \in T : k >= 1
    PROVE  Cardinality(S \cup {m + k : k \in T}) = Cardinality(S) + Cardinality(T)
<1> DEFINE M == {m + k : k \in T}
<1>1. IsFiniteSet(M) /\ Cardinality(M) = Cardinality(T)
  BY ShiftCount
<1>2. S \cap M = {}
  <2> SUFFICES ASSUME NEW q \in S, NEW k \in T, q = m + k PROVE FALSE
    OBVIOUS
  <2> QED
    OBVIOUS
<1> HIDE DEF M
<1>3. Cardinality(S \cap M) = 0
  BY <1>2, FS_EmptySet
<1>4. Cardinality(S \cup M) = Cardinality(S) + Cardinality(M) - Cardinality(S \cap M)
  BY <1>1, FS_Union
<1>5. Cardinality(S) \in Nat /\ Cardinality(M) \in Nat
  BY <1>1, FS_CardinalityType
<1> QED
  BY <1>1, <1>3, <1>4, <1>5 DEF M

LEMMA WordsApart ==
    ASSUME NEW s \in Seq(Byte), NEW t \in Seq(Byte), Apart(s, t)
    PROVE  Words(s \o t) = Words(s) \o Words(t)
<1> DEFINE st == s \o t
           m == Len(s)
           S == WordStarts(s)
           T == WordStarts(t)
           U == WordStarts(st)
<1>1. /\ m \in Nat /\ Len(t) \in Nat /\ st \in Seq(Byte) /\ Len(st) = m + Len(t)
      /\ \A j \in 1..m : st[j] = s[j]
      /\ \A j \in 1..Len(t) : st[m + j] = t[j]
  OBVIOUS
<1>2. (s = <<>> => m = 0) /\ (t = <<>> => Len(t) = 0)
  OBVIOUS
<1>a. m > 0 /\ Len(t) > 0 => s[m] \in Blank \/ t[1] \in Blank
  BY <1>1, <1>2 DEF Apart
<1>3. /\ S \in SUBSET (1..m) /\ S \in SUBSET Nat /\ IsFiniteSet(S) /\ Cardinality(S) \in Nat
      /\ T \in SUBSET (1..Len(t)) /\ T \in SUBSET Nat /\ IsFiniteSet(T)
      /\ Cardinality(T) \in Nat
      /\ U \in SUBSET (1..Len(st)) /\ U \in SUBSET Nat /\ IsFiniteSet(U)
      /\ Cardinality(U) \in Nat
  BY <1>1, StartsOfWords
<1> HIDE DEF st, m, S, T, U
<1>4. \A j \in 1..m : j \in U <=> j \in S
  <2> TAKE j \in 1..m
  <2>1. j \in 1..Len(st) /\ st[j] = s[j] /\ (j # 1 => j - 1 \in 1..m /\ st[j - 1] = s[j - 1])
    BY <1>1
  <2>2. j \in U <=> st[j] \notin Blank /\ (j = 1 \/ st[j - 1] \in Blank)
    BY <2>1 DEF U, WordStarts
  <2>3. j \in S <=> s[j] \notin Blank /\ (j = 1 \/ s[j - 1] \in Blank)
    BY DEF S, WordStarts, m
  <2> QED
    BY <2>1, <2>2, <2>3
<1>5. \A j \in 1..Len(t) : m + j \in U <=> j \in T
  <2> TAKE j \in 1..Len(t)
  <2>1. m + j \in 1..Len(st) /\ st[m + j] = t[j]
    BY <1>1
  <2>2. m + j \in U <=> st[m + j] \notin Blank /\ (m + j = 1 \/ st[m + j - 1] \in Blank)
    <3>1. \A q \in 1..Len(st) : q \in U <=> st[q] \notin Blank /\ (q = 1 \/ st[q - 1] \in Blank)
      BY DEF U, WordStarts
    <3>2. PICK q \in 1..Len(st) : q = m + j
      BY <2>1
    <3>3. q \in U <=> st[q] \notin Blank /\ (q = 1 \/ st[q - 1] \in Blank)
      BY <3>1
    <3>4. q - 1 = m + j - 1
      BY <1>1, <3>2
    <3> QED
      BY <3>2, <3>3, <3>4, Zenon
  <2>3. j \in T <=> t[j] \notin Blank /\ (j = 1 \/ t[j - 1] \in Blank)
    BY DEF T, WordStarts
  <2>4. CASE j = 1
    <3>1. m > 0 => m \in 1..m /\ st[m] = s[m] /\ m + j - 1 = m
      BY <1>1, <2>4
    <3>2. Len(t) > 0 /\ (m + j = 1 <=> m = 0) /\ (m > 0 \/ m = 0)
      BY <1>1, <2>4
    <3>3. m > 0 => s[m] \in Blank \/ t[j] \in Blank
      BY <1>a, <2>4, <3>2
    <3> QED
      BY <2>1, <2>2, <2>3, <2>4, <3>1, <3>2, <3>3
  <2>5. CASE j # 1
    <3>1. j - 1 \in 1..Len(t) /\ m + j - 1 = m + (j - 1) /\ m + j # 1
      BY <1>1, <2>5
    <3>2. st[m + (j - 1)] = t[j - 1]
      BY <1>1, <3>1
    <3> QED
      BY <2>1, <2>2, <2>3, <2>5, <3>1, <3>2
  <2> QED
    BY <2>4, <2>5
<1>6. U = S \cup {m + k : k \in T}
  <2>1. ASSUME NEW q \in U PROVE q \in S \cup {m + k : k \in T}
    <3>1. CASE q \in 1..m
      BY <1>4, <3>1
    <3>2. CASE q \notin 1..m
      <4>1. q - m \in 1..Len(t) /\ q = m + (q - m)
        BY <1>1, <1>3, <3>2
      <4>2. q - m \in T
        BY <1>5, <4>1
      <4> QED
        BY <4>1, <4>2
    <3> QED
      BY <3>1, <3>2
  <2>2. S \in SUBSET U /\ \A k \in T : m + k \in U
    BY <1>3, <1>4, <1>5
  <2> QED
    BY <2>1, <2>2
<1>7. Cardinality(U) = Cardinality(S) + Cardinality(T)
  <2>1. (\A q \in S : q <= m) /\ (\A k \in T : k >= 1)
    BY <1>1, <1>3
  <2>2. Cardinality(S \cup {m + k : k \in T}) = Cardinality(S) + Cardinality(T)
    BY <1>1, <1>3, <2>1, StackCount
  <2> QED
    BY <1>6, <2>2
<1>8. ASSUME NEW p \in S PROVE Below(U, p) = Below(S, p)
  <2>1. \A k \in T : ~(m + k < p)
    BY <1>1, <1>3
  <2> QED
    BY <1>6, <2>1 DEF Below
<1>9. ASSUME NEW p \in T
      PROVE  Cardinality(Below(U, m + p)) = Cardinality(S) + Cardinality(Below(T, p))
  <2>1. p \in Nat /\ Below(T, p) \in SUBSET T /\ Below(T, p) \in SUBSET Nat
    BY <1>3 DEF Below
  <2>2. IsFiniteSet(Below(T, p))
    BY <1>3, <2>1, FS_Subset
  <2>3. \A q \in S : q < m + p
    BY <1>1, <1>3
  <2>4. \A k \in T : m + k < m + p <=> k < p
    BY <1>1, <1>3, <2>1
  <2>5. Below(U, m + p) = S \cup {m + k : k \in Below(T, p)}
    BY <1>6, <2>3, <2>4 DEF Below
  <2>6. (\A q \in S : q <= m) /\ (\A k \in Below(T, p) : k >= 1)
    BY <1>1, <1>3, <2>1
  <2> DEFINE R == Below(T, p)
  <2>7. R \in SUBSET Nat /\ IsFiniteSet(R) /\ \A k \in R : k >= 1
    BY <2>1, <2>2, <2>6
  <2> HIDE DEF R
  <2>8. Cardinality(S \cup {m + k : k \in R}) = Cardinality(S) + Cardinality(R)
    BY <1>1, <1>3, <2>6, <2>7, StackCount
  <2> QED
    BY <2>5, <2>8 DEF R
<1>10. ASSUME NEW p \in S
       PROVE  SubSeq(st, p, WordEnd(st, p)) = SubSeq(s, p, WordEnd(s, p))
  <2>1. p \in 1..m /\ p \in U
    BY <1>3, <1>6
  <2>2. PICK e \in p..m : e = WordEnd(s, p) /\ IsWordEnd(s, p, e)
    BY WordEndIs DEF S, m
  <2>3. e \in p..Len(st) /\ e \in 1..m /\ p \in Nat /\ e \in Nat
    BY <1>1, <2>1
  <2>4. \A j \in p..e : j \in 1..m /\ st[j] = s[j] /\ s[j] \notin Blank
    BY <1>1, <2>1, <2>2, <2>3 DEF IsWordEnd
  <2>5. e = Len(st) \/ st[e + 1] \in Blank
    <3>1. CASE e # m
      <4>1. e + 1 \in 1..m
        BY <1>1, <2>3, <3>1
      <4>2. s[e + 1] \in Blank
        BY <2>2, <3>1 DEF IsWordEnd, m
      <4> QED
        BY <1>1, <4>1, <4>2
    <3>2. CASE e = m /\ Len(t) = 0
      BY <1>1, <3>2
    <3>3. CASE e = m /\ Len(t) # 0
      <4>1. m > 0 /\ Len(t) > 0 /\ 1 \in 1..Len(t) /\ e \in p..e
        BY <1>1, <2>3, <3>3
      <4>2. s[m] \notin Blank
        BY <2>4, <3>3, <4>1
      <4>3. st[m + 1] = t[1] /\ t[1] \in Blank
        BY <1>1, <1>a, <4>1, <4>2
      <4> QED
        BY <3>3, <4>3
    <3> QED
      BY <3>1, <3>2, <3>3
  <2>6. IsWordEnd(st, p, e)
    BY <2>4, <2>5 DEF IsWordEnd
  <2>7. WordEnd(st, p) = e
    BY <1>1, <2>1, <2>3, <2>6, WordEndIs DEF U
  <2>8. SubSeq(st, p, e) = SubSeq(s, p, e)
    BY <2>3, <2>4
  <2> QED
    BY <2>2, <2>7, <2>8
<1>11. ASSUME NEW p \in T
       PROVE  SubSeq(st, m + p, WordEnd(st, m + p)) = SubSeq(t, p, WordEnd(t, p))
  <2>1. p \in 1..Len(t) /\ m + p \in U
    BY <1>3, <1>6
  <2>2. PICK e \in p..Len(t) : e = WordEnd(t, p) /\ IsWordEnd(t, p, e)
    BY WordEndIs DEF T
  <2>3. m + e \in (m + p)..Len(st) /\ e \in 1..Len(t) /\ p \in Nat /\ e \in Nat
    BY <1>1, <2>1
  <2>4. \A j \in p..e : j \in 1..Len(t) /\ st[m + j] = t[j] /\ t[j] \notin Blank
    BY <1>1, <2>1, <2>2, <2>3 DEF IsWordEnd
  <2>5. \A j \in (m + p)..(m + e) : j - m \in p..e /\ m + (j - m) = j
    BY <1>1, <2>3
  <2>6. \A j \in (m + p)..(m + e) : st[j] \notin Blank
    BY <2>4, <2>5
  <2>7. m + e = Len(st) \/ st[m + e + 1] \in Blank
    <3>1. CASE e = Len(t)
      BY <1>1, <3>1
    <3>2. CASE e # Len(t)
      <4>1. e + 1 \in 1..Len(t) /\ m + e + 1 = m + (e + 1)
        BY <1>1, <2>3, <3>2
      <4>2. t[e + 1] \in Blank
        BY <2>2, <3>2 DEF IsWordEnd
      <4>3. st[m + (e + 1)] = t[e + 1]
        BY <1>1, <4>1
      <4> QED
        BY <4>1, <4>2, <4>3
    <3> QED
      BY <3>1, <3>2
  <2>8. IsWordEnd(st, m + p, m + e)
    BY <2>6, <2>7 DEF IsWordEnd
  <2>9. WordEnd(st, m + p) = m + e
    BY <1>1, <2>1, <2>3, <2>8, WordEndIs DEF U
  <2>10. SubSeq(st, m + p, m + e) = SubSeq(t, p, e)
    <3>1. SubSeq(st, m + p, m + e) = [k \in 1..(m + e - (m + p) + 1) |-> st[m + p + k - 1]]
      BY <1>1, <2>3
    <3>2. SubSeq(t, p, e) = [k \in 1..(e - p + 1) |-> t[p + k - 1]]
      BY <2>3
    <3>3. m + e - (m + p) + 1 = e - p + 1
      BY <1>1, <2>3
    <3>4. \A k \in 1..(e - p + 1) : st[m + p + k - 1] = t[p + k - 1]
      <4> TAKE k \in 1..(e - p + 1)
      <4>1. p + k - 1 \in p..e /\ m + p + k - 1 = m + (p + k - 1)
        BY <1>1, <2>3
      <4> QED
        BY <2>4, <4>1
    <3> QED
      BY <3>1, <3>2, <3>3, <3>4
  <2> QED
    BY <2>2, <2>9, <2>10
<1>12. ASSUME NEW k \in 1..Cardinality(S) PROVE Words(st)[k] = Words(s)[k]
  <2> DEFINE p == InOrder(S)[k]
  <2>1. p \in S /\ Cardinality(Below(S, p)) = k - 1
    BY <1>3, InOrderIs
  <2>2. k \in 1..Cardinality(U) /\ p \in U /\ Cardinality(Below(U, p)) = k - 1
    BY <1>3, <1>6, <1>7, <1>8, <2>1
  <2>3. InOrder(U)[k] = p
    BY <1>3, <2>2, InOrderIs
  <2>4. Words(s)[k] = SubSeq(s, p, WordEnd(s, p))
    BY WordsAre DEF S
  <2>5. Words(st)[k] = SubSeq(st, p, WordEnd(st, p))
    BY <2>2, <2>3, WordsAre DEF U
  <2> QED
    BY <1>10, <2>1, <2>4, <2>5
<1>13. ASSUME NEW k \in 1..Cardinality(T)
       PROVE  Words(st)[Cardinality(S) + k] = Words(t)[k]
  <2> DEFINE p == InOrder(T)[k]
             r == Cardinality(S) + k
  <2>1. p \in T /\ Cardinality(Below(T, p)) = k - 1
    BY <1>3, InOrderIs
  <2>2. r \in 1..Cardinality(U) /\ m + p \in U /\ Cardinality(Below(U, m + p)) = r - 1
    <3>1. Cardinality(Below(U, m + p)) = Cardinality(S) + Cardinality(Below(T, p))
      BY <1>9, <2>1
    <3>2. m + p \in U
      BY <1>6, <2>1
    <3>3. k \in Nat /\ r \in 1..Cardinality(U) /\ Cardinality(S) + (k - 1) = r - 1
      BY <1>3, <1>7
    <3> QED
      BY <2>1, <3>1, <3>2, <3>3
  <2> HIDE DEF p, r
  <2>3. InOrder(U)[r] = m + p
    <3>1. \A q \in U : Cardinality(Below(U, q)) = r - 1 => q = InOrder(U)[r]
      BY <1>3, <2>2, InOrderIs
    <3> QED
      BY <2>2, <3>1, Zenon
  <2> USE DEF p, r
  <2>4. Words(t)[k] = SubSeq(t, p, WordEnd(t, p))
    BY WordsAre DEF T
  <2>5. Words(st)[r] = SubSeq(st, m + p, WordEnd(st, m + p))
    BY <2>2, <2>3, WordsAre DEF U
  <2> QED
    BY <1>11, <2>1, <2>4, <2>5
<1>14. /\ Words(s) = [k \in 1..Cardinality(S) |-> Words(s)[k]]
       /\ Words(t) = [k \in 1..Cardinality(T) |-> Words(t)[k]]
       /\ Words(st) = [k \in 1..Cardinality(U) |-> Words(st)[k]]
  BY WordsAre DEF S, T, U
<1> DEFINE a == Words(s)
           b == Words(t)
           c == Words(st)
           x == Cardinality(S)
           y == Cardinality(T)
<1>15. /\ x \in Nat /\ y \in Nat
       /\ a = [k \in 1..x |-> a[k]] /\ b = [k \in 1..y |-> b[k]]
       /\ c = [k \in 1..(x + y) |-> c[k]]
       /\ \A k \in 1..x : c[k] = a[k]
       /\ \A k \in 1..y : c[x + k] = b[k]
  BY <1>3, <1>7, <1>12, <1>13, <1>14
<1> HIDE DEF a, b, c, x, y
<1>16. Len(a) = x /\ Len(b) = y
  BY <1>15
<1>17. a \o b = [k \in 1..(x + y) |-> IF k <= x THEN a[k] ELSE b[k - x]]
  BY <1>15, <1>16
<1>18. \A k \in 1..(x + y) : c[k] = IF k <= x THEN a[k] ELSE b[k - x]
  <2> TAKE k \in 1..(x + y)
  <2>1. CASE k <= x
    <3>1. k \in 1..x
      BY <1>15, <2>1
    <3> QED
      BY <1>15, <2>1, <3>1
  <2>2. CASE ~(k <= x)
    <3>1. k - x \in 1..y /\ x + (k - x) = k
      BY <1>15, <2>2
    <3> QED
      BY <1>15, <2>2, <3>1
  <2> QED
    BY <2>1, <2>2
<1>19. c = a \o b
  BY <1>15, <1>17, <1>18
<1> QED
  BY <1>19 DEF a, b, c, st

\* A text of white space has no words.
LEMMA NoWords == ASSUME NEW s \in Seq(Byte), ~Visible(s) PROVE Words(s) = <<>>
<1>1. WordStarts(s) = {}
  BY DEF WordStarts, Visible
<1>2. Cardinality(WordStarts(s)) = 0 /\ 1..0 = {}
  BY <1>1, FS_EmptySet
<1>3. Words(s) = [k \in 1..0 |-> SubSeq(s, InOrder(WordStarts(s))[k],
                                         WordEnd(s, InOrder(WordStarts(s))[k]))]
  BY <1>2, WordsAre
<1> QED
  BY <1>3

EndsBlank(s) == s = <<>> \/ s[Len(s)] \in Blank

LEMMA BlankJoin ==
    ASSUME NEW s \in Seq(Byte), NEW t \in Seq(Byte), EndsBlank(s), EndsBlank(t)
    PROVE  s \o t \in Seq(Byte) /\ EndsBlank(s \o t) /\ Words(s \o t) = Words(s) \o Words(t)
<1>1. s \o t \in Seq(Byte) /\ Len(s) \in Nat /\ Len(t) \in Nat
  OBVIOUS
<1>2. Words(s \o t) = Words(s) \o Words(t)
  BY WordsApart DEF Apart, EndsBlank
<1>3. CASE t = <<>>
  <2>1. s \o t = s
    BY <1>3
  <2> QED
    BY <1>1, <1>2, <2>1
<1>4. CASE t # <<>>
  <2>1. Len(t) \in 1..Len(t) /\ Len(s \o t) = Len(s) + Len(t)
    BY <1>4
  <2>2. (s \o t)[Len(s) + Len(t)] = t[Len(t)]
    BY <1>1, <2>1
  <2>3. t[Len(t)] \in Blank
    BY <1>4 DEF EndsBlank
  <2> QED
    BY <1>1, <1>2, <2>1, <2>2, <2>3 DEF EndsBlank
<1> QED
  BY <1>3, <1>4

LEMMA FlattenIs ==
    ASSUME NEW seqs, Len(seqs) \in Nat
    PROVE  \E f : /\ Joins(seqs, Len(seqs), f)
                  /\ FlattenSeq(seqs) = IF Len(seqs) = 0 THEN seqs ELSE f[Len(seqs)]
<1> DEFINE f == CHOOSE f : Joins(seqs, Len(seqs), f)
<1>1. Joins(seqs, Len(seqs), f)
  BY JoinsExist
<1>2. FlattenSeq(seqs) = IF Len(seqs) = 0 THEN seqs ELSE f[Len(seqs)]
  BY DEF FlattenSeq, Joins
<1> HIDE DEF f
<1> QED
  BY <1>1, <1>2

\* The words of joined texts, each of which ends in white space, are their words joined.
LEMMA WordsJoin ==
    ASSUME NEW seqs \in Seq(Seq(Byte)), \A k \in 1..Len(seqs) : EndsBlank(seqs[k]),
           NEW ws, ws = [k \in 1..Len(seqs) |-> Words(seqs[k])]
    PROVE  EndsBlank(FlattenSeq(seqs)) /\ Words(FlattenSeq(seqs)) = FlattenSeq(ws)
<1> DEFINE m == Len(seqs)
<1>1. m \in Nat /\ Len(ws) = m /\ \A k \in 1..m : seqs[k] \in Seq(Byte) /\ ws[k] = Words(seqs[k])
  OBVIOUS
<1>2. PICK f : Joins(seqs, m, f) /\ FlattenSeq(seqs) = IF m = 0 THEN seqs ELSE f[m]
  BY <1>1, FlattenIs
<1>3. PICK g : Joins(ws, m, g) /\ FlattenSeq(ws) = IF m = 0 THEN ws ELSE g[m]
  BY <1>1, FlattenIs
<1>4. \A k \in 1..m : /\ f[k] = IF k = 1 THEN seqs[k] ELSE f[k - 1] \o seqs[k]
                      /\ g[k] = IF k = 1 THEN ws[k] ELSE g[k - 1] \o ws[k]
  BY <1>2, <1>3 DEF Joins
<1> DEFINE Good(k) == f[k] \in Seq(Byte) /\ EndsBlank(f[k]) /\ Words(f[k]) = g[k]
           Bad == {k \in 1..m : ~Good(k)}
<1> HIDE DEF Good
<1>5. ASSUME Bad # {} PROVE FALSE
  <2>1. Bad \in SUBSET Nat
    BY <1>1
  <2>2. PICK k \in Bad : \A b \in Bad : k <= b
    BY <1>5, <2>1, LeastElement
  <2>3. k \in 1..m /\ k \in Nat /\ ~Good(k)
    BY <1>1, <2>2
  <2>4. seqs[k] \in Seq(Byte) /\ EndsBlank(seqs[k]) /\ ws[k] = Words(seqs[k])
    BY <1>1, <2>3
  <2>5. CASE k = 1
    BY <1>4, <2>3, <2>4, <2>5 DEF Good
  <2>6. CASE k # 1
    <3>1. k - 1 \in 1..m /\ ~(k <= k - 1)
      BY <1>1, <2>3, <2>6
    <3>2. Good(k - 1)
      BY <2>2, <3>1
    <3>3. f[k] = f[k - 1] \o seqs[k] /\ g[k] = g[k - 1] \o ws[k]
      BY <1>4, <2>3, <2>6
    <3>4. /\ f[k - 1] \o seqs[k] \in Seq(Byte) /\ EndsBlank(f[k - 1] \o seqs[k])
          /\ Words(f[k - 1] \o seqs[k]) = Words(f[k - 1]) \o Words(seqs[k])
      BY <2>4, <3>2, BlankJoin DEF Good
    <3> QED
      BY <2>3, <2>4, <3>2, <3>3, <3>4 DEF Good
  <2> QED
    BY <2>5, <2>6
<1>6. CASE m = 0
  <2>1. seqs = <<>> /\ ws = <<>> /\ <<>> \in Seq(Byte) /\ 1..Len(<<>>) = {}
    BY <1>1, <1>6
  <2>2. ~Visible(<<>>)
    BY <2>1 DEF Visible
  <2> QED
    BY <1>2, <1>3, <1>6, <2>1, <2>2, NoWords DEF EndsBlank
<1>7. CASE m # 0
  <2>1. m \in 1..m
    BY <1>1, <1>7
  <2>2. Good(m)
    BY <1>5, <2>1
  <2> QED
    BY <1>2, <1>3, <1>7, <2>2 DEF Good
<1> QED
  BY <1>6, <1>7

LEMMA EmitWords ==
    ASSUME NEW t \in Token
    PROVE  Emit(t) \in Seq(Byte) /\ EndsBlank(Emit(t)) /\ Words(Emit(t)) = Words(t.text)
<1>1. t.text \in Seq(Byte) /\ (t.token # "CharData" => t.text = <<>>) /\ "newline" \in Blank
      /\ "blank" \in Blank /\ Blank \in SUBSET Byte /\ Emit(t) \in Seq(Byte)
  BY EmitKeeps DEF Token, Byte, Blank
<1>2. CASE t.token = "CharData" /\ t.text # <<>>
  <2> DEFINE b == <<"blank">>
  <2>1. Emit(t) = t.text \o b
    BY <1>1, <1>2 DEF Emit
  <2>2. b \in Seq(Byte) /\ Len(b) = 1 /\ b[1] = "blank"
    BY <1>1
  <2>3. Words(t.text \o b) = Words(t.text) \o Words(b)
    BY <1>1, <2>2, WordsApart DEF Apart
  <2>4. Words(b) = <<>>
    <3>1. ~Visible(b)
      BY <1>1, <2>2 DEF Visible
    <3> QED
      BY <2>2, <3>1, NoWords
  <2>5. Words(t.text) \o <<>> = Words(t.text)
    <3>1. Words(t.text) = [k \in 1..Cardinality(WordStarts(t.text)) |-> Words(t.text)[k]]
      BY WordsAre
    <3>2. Cardinality(WordStarts(t.text)) \in Nat
      BY <1>1, StartsOfWords
    <3> DEFINE a == Words(t.text)
               c == Cardinality(WordStarts(t.text))
    <3> HIDE DEF a, c
    <3>3. a = [k \in 1..c |-> a[k]] /\ c \in Nat
      BY <3>1, <3>2 DEF a, c
    <3>4. a \o <<>> = a
      BY <3>3
    <3> QED
      BY <3>4 DEF a
  <2>6. Len(t.text \o b) = Len(t.text) + 1 /\ (t.text \o b)[Len(t.text) + 1] = "blank"
    BY <1>1, <2>2
  <2> HIDE DEF b
  <2> QED
    BY <1>1, <2>1, <2>3, <2>4, <2>5, <2>6 DEF EndsBlank
<1>3. CASE ~(t.token = "CharData" /\ t.text # <<>>)
  <2>1. t.text = <<>> /\ <<>> \in Seq(Byte) /\ ~Visible(t.text)
    BY <1>1, <1>3 DEF Visible
  <2>2. Emit(t) = <<"newline">> \/ Emit(t) = <<>>
    BY <1>3 DEF Emit
  <2>3. EndsBlank(Emit(t)) /\ ~Visible(Emit(t))
    <3>1. CASE Emit(t) = <<>>
      BY <2>1, <3>1 DEF EndsBlank, Visible
    <3>2. CASE Emit(t) = <<"newline">>
      BY <1>1, <3>2 DEF EndsBlank, Visible
    <3> QED
      BY <2>2, <3>1, <3>2
  <2> QED
    BY <1>1, <2>1, <2>3, NoWords
<1> QED
  BY <1>2, <1>3

LEMMA XmlTextWords ==
    ASSUME NEW tokens \in Seq(Token)
    PROVE  /\ EndsBlank(XmlText(tokens))
           /\ Words(XmlText(tokens)) = FlattenSeq([k \in 1..Len(tokens) |->
                  IF k \in Walked(tokens) THEN Words(tokens[k].text) ELSE <<>>])
<1> DEFINE part == [k \in 1..Len(tokens) |->
                       IF k \in Walked(tokens) THEN Emit(tokens[k]) ELSE <<>>]
           ws == [k \in 1..Len(tokens) |->
                       IF k \in Walked(tokens) THEN Words(tokens[k].text) ELSE <<>>]
<1>1. Len(tokens) \in Nat /\ \A k \in 1..Len(tokens) : tokens[k] \in Token
  OBVIOUS
<1>2. <<>> \in Seq(Byte) /\ EndsBlank(<<>>) /\ Words(<<>>) = <<>>
  <2>1. <<>> \in Seq(Byte) /\ ~Visible(<<>>)
    BY DEF Visible
  <2> QED
    BY <2>1, NoWords DEF EndsBlank
<1>3. \A k \in 1..Len(tokens) :
        part[k] \in Seq(Byte) /\ EndsBlank(part[k]) /\ ws[k] = Words(part[k])
  BY <1>1, <1>2, EmitWords
<1>4. Len(part) = Len(tokens) /\ part \in Seq(Seq(Byte))
  BY <1>1, <1>3
<1>5. ws = [k \in 1..Len(part) |-> Words(part[k])]
  BY <1>3, <1>4
<1>6. XmlText(tokens) = FlattenSeq(part)
  BY DEF XmlText
<1> HIDE DEF part, ws
<1>7. EndsBlank(FlattenSeq(part)) /\ Words(FlattenSeq(part)) = FlattenSeq(ws)
  BY <1>3, <1>4, <1>5, WordsJoin
<1> QED
  BY <1>6, <1>7 DEF ws

LEMMA OoxmlTextWords ==
    ASSUME NEW parts \in Seq(OfficePart)
    PROVE  Words(OoxmlText(parts)) = FlattenSeq([q \in 1..Len(parts) |->
               LET p == parts[q]
               IN  IF ~(IsContentPart(p.name) /\ p.opens) THEN <<>>
                   ELSE FlattenSeq([k \in 1..Len(p.tokens) |->
                       IF k \in Walked(p.tokens) THEN Words(p.tokens[k].text) ELSE <<>>])])
<1> DEFINE all == [p \in 1..Len(parts) |-> IF IsContentPart(parts[p].name) /\ parts[p].opens
                                           THEN XmlText(parts[p].tokens) ELSE <<>>]
           Of(tokens) == FlattenSeq([k \in 1..Len(tokens) |->
                             IF k \in Walked(tokens) THEN Words(tokens[k].text) ELSE <<>>])
           ws == [q \in 1..Len(parts) |-> IF ~(IsContentPart(parts[q].name) /\ parts[q].opens)
                                          THEN <<>> ELSE Of(parts[q].tokens)]
<1>1. Len(parts) \in Nat /\ \A p \in 1..Len(parts) : parts[p].tokens \in Seq(Token)
  <2>1. Len(parts) \in Nat /\ \A p \in 1..Len(parts) : parts[p] \in OfficePart
    OBVIOUS
  <2>2. \A p \in OfficePart : p.tokens \in Seq(Token)
    BY DEF OfficePart
  <2> QED
    BY <2>1, <2>2
<1>2. <<>> \in Seq(Byte) /\ EndsBlank(<<>>) /\ Words(<<>>) = <<>>
  <2>1. <<>> \in Seq(Byte) /\ ~Visible(<<>>)
    BY DEF Visible
  <2> QED
    BY <2>1, NoWords DEF EndsBlank
<1>3. \A tokens \in Seq(Token) : /\ XmlText(tokens) \in Seq(Byte) /\ EndsBlank(XmlText(tokens))
                                 /\ Of(tokens) = Words(XmlText(tokens))
  BY XmlTextKeeps, XmlTextWords
<1> HIDE DEF Of
<1>4. \A p \in 1..Len(parts) :
        all[p] \in Seq(Byte) /\ EndsBlank(all[p]) /\ ws[p] = Words(all[p])
  BY <1>1, <1>2, <1>3
<1>5. Len(all) = Len(parts) /\ all \in Seq(Seq(Byte))
  BY <1>1, <1>4
<1>6. ws = [p \in 1..Len(all) |-> Words(all[p])]
  BY <1>4, <1>5
<1>7. OoxmlText(parts) = FlattenSeq(all)
  BY DEF OoxmlText
<1> HIDE DEF all, ws
<1>8. Words(FlattenSeq(all)) = FlattenSeq(ws)
  BY <1>4, <1>5, <1>6, WordsJoin
<1> QED
  BY <1>7, <1>8 DEF ws, Of

\* The words of an office document's searched text are those of the runs of its content
\* parts, in order: no two of them fuse, and a damaged part costs its own rest only.
THEOREM RunsKeptApart == Spec => []RunsStayApart
<1>1. ASSUME ObjectInv, kind \in {"docx", "xlsx", "pptx"}
      PROVE  Words(data) = FlattenSeq([q \in 1..Len(object.parts) |->
                 LET p == object.parts[q]
                 IN  IF ~(IsContentPart(p.name) /\ p.opens) THEN <<>>
                     ELSE FlattenSeq([k \in 1..Len(p.tokens) |->
                         IF k \in Walked(p.tokens) THEN Words(p.tokens[k].text) ELSE <<>>])])
  <2>1. object.parts \in Seq(OfficePart) /\ data = OoxmlText(object.parts)
    BY <1>1, InputsOK DEF ObjectInv, DocInv
  <2> QED
    BY <2>1, OoxmlTextWords
<1>2. ObjectInv => RunsStayApart
  BY <1>1 DEF RunsStayApart
<1> QED
  BY <1>2, ObjectInvariance, PTL

-----------------------------------------------------------------------------
(* The windows of the sidecar.                                              *)

USE DEF Larger, Smaller

-----------------------------------------------------------------------------
(* The input, and the tokens of the text.                                   *)

GivenOK ==
    /\ IsText(text) /\ maxLength \in Nat /\ maxLength >= 3 /\ overlap \in Nat
    /\ entity \in (1..n) \X (1..n) /\ entity[1] <= entity[2]
    /\ runtime \in BOOLEAN

LEMMA GivenInit == WindowsInit => GivenOK
BY TextAssumption, LengthAssumption, OverlapAssumption DEF WindowsInit, GivenOK

LEMMA GivenStep == GivenOK /\ [WindowsNext]_windowsVars => GivenOK' /\ UNCHANGED given
BY DEF WindowsNext, windowsVars, given, Start, Window, AnalyzeWindow, Return, GivenOK, n, Tokens

LEMMA Numbers ==
    ASSUME GivenOK
    PROVE  /\ n \in Nat /\ Win \in Nat /\ Win >= 1 /\ Win = maxLength - 2
           /\ Stride \in Nat /\ Stride >= 1 /\ Stride <= Win
           /\ entity[1] \in 1..n /\ entity[2] \in 1..n
BY DEF GivenOK, IsText, n, Tokens, Win, Stride

LEMMA TokensInOrder ==
    ASSUME GivenOK
    PROVE  /\ \A k \in 1..n : /\ From(k) \in Nat /\ To(k) \in Nat
                              /\ From(k) < To(k) /\ To(k) <= text.len
           /\ \A j, k \in 1..n : j < k => /\ To(j) <= From(k)
                                          /\ From(j) < From(k) /\ To(j) < To(k)
           /\ text.len \in Nat
<1>1. \A k \in 1..n : From(k) \in Nat /\ To(k) \in Nat
  <2> TAKE k \in 1..n
  <2>1. Tokens[k] \in Nat \X Nat
    BY DEF GivenOK, IsText, n, Tokens
  <2> QED
    BY <2>1 DEF From, To
<1>2. /\ \A k \in 1..n : From(k) < To(k) /\ To(k) <= text.len
      /\ \A j, k \in 1..n : j < k => To(j) <= From(k)
      /\ text.len \in Nat
  BY DEF GivenOK, IsText, n, Tokens, From, To
<1> QED
  BY <1>1, <1>2

-----------------------------------------------------------------------------
(* What the engine sees of a window.                                        *)

\* The tokens inside a window.
Inside(w) == {t \in 1..n : w[1] <= From(t) /\ To(t) <= w[2]}

\* With a model, a window holds no more tokens than the model takes.
Cut(w) ==
    IF runtime
    THEN \E a, b \in 1..n : a <= b /\ b < a + Win /\ w = <<From(a), To(b)>>
    ELSE w = <<0, text.len>>

Holds(w) == w[1] <= From(entity[1]) /\ To(entity[2]) <= w[2]

\* Nothing of a window that _windows cut is truncated.
LEMMA NothingTruncated ==
    ASSUME GivenOK, NEW w, Cut(w) PROVE Attended(w) = Inside(w)
<1>1. CASE ~runtime
  BY <1>1 DEF Attended, Inside
<1>2. CASE runtime
  <2>1. PICK a, b \in 1..n : a <= b /\ b < a + Win /\ w = <<From(a), To(b)>>
    BY <1>2 DEF Cut
  <2>2. Inside(w) \subseteq a..b
    BY <2>1, TokensInOrder, Numbers DEF Inside
  <2>3. ASSUME NEW t \in Inside(w) PROVE Cardinality({u \in Inside(w) : u < t}) < maxLength - 2
    <3>1. t \in a..b /\ a \in Int /\ b \in Int /\ t \in Int /\ t - 1 \in Int
      BY <2>2, <2>3, Numbers
    <3>2. {u \in Inside(w) : u < t} \subseteq a..(t - 1)
      BY <2>2, <3>1
    <3>3. IsFiniteSet(a..(t - 1)) /\ Cardinality(a..(t - 1)) = t - a
      <4>1. /\ IsFiniteSet(a..(t - 1))
            /\ Cardinality(a..(t - 1)) = IF a > t - 1 THEN 0 ELSE (t - 1) - a + 1
        BY <3>1, FS_Interval
      <4>2. a <= t
        BY <3>1
      <4> QED
        BY <3>1, <4>1, <4>2
    <3>4. /\ Cardinality({u \in Inside(w) : u < t}) <= t - a
          /\ Cardinality({u \in Inside(w) : u < t}) \in Nat
      BY <3>2, <3>3, FS_Subset, FS_CardinalityType
    <3>5. t - a < maxLength - 2
      BY <2>1, <3>1, Numbers
    <3> QED
      BY <3>1, <3>4, <3>5, Numbers
  <2> QED
    BY <1>2, <2>3 DEF Attended, Inside
<1> QED
  BY <1>1, <1>2 DEF GivenOK

\* What is found is the entity or a part of it, at its place.
Within(s) ==
    /\ s \in Nat \X Nat
    /\ EntitySpan[1] <= s[1] /\ s[1] < s[2] /\ s[2] <= EntitySpan[2]

LEMMA RedactSound ==
    ASSUME GivenOK, NEW w \in Nat \X Nat, NEW found \in Redact(w), NEW s \in found
    PROVE  Within(Shift(w, s))
<1> DEFINE part == {t \in Attended(w) : entity[1] <= t /\ t <= entity[2]}
<1>1. PICK a \in part, b \in part :
          (\A u \in part : a <= u) /\ s = <<From(a) - w[1], To(b) - w[1]>>
  BY DEF Redact
<1>2. a \in 1..n /\ b \in 1..n /\ entity[1] <= a /\ a <= b /\ b <= entity[2]
  BY <1>1 DEF Attended
<1>3. w[1] \in Nat /\ From(a) \in Nat /\ To(b) \in Nat
  BY <1>2, TokensInOrder
<1>4. Shift(w, s) = <<From(a), To(b)>>
  BY <1>1, <1>3 DEF Shift
<1>5. From(entity[1]) <= From(a) /\ From(a) < To(b) /\ To(b) <= To(entity[2])
  BY <1>2, TokensInOrder, Numbers
<1> QED
  BY <1>3, <1>4, <1>5 DEF Within, EntitySpan

LEMMA RedactFinds ==
    ASSUME GivenOK, NEW w \in Nat \X Nat, Cut(w), Holds(w), NEW found \in Redact(w)
    PROVE  EntitySpan \in {Shift(w, s) : s \in found}
<1> DEFINE part == {t \in Attended(w) : entity[1] <= t /\ t <= entity[2]}
<1> DEFINE whole == <<From(entity[1]) - w[1], To(entity[2]) - w[1]>>
<1>1. part = entity[1]..entity[2]
  <2>1. part \subseteq entity[1]..entity[2]
    BY Numbers DEF Attended
  <2>2. ASSUME NEW t \in entity[1]..entity[2] PROVE t \in Inside(w)
    <3>1. /\ t \in 1..n /\ t \in Nat /\ entity[1] <= t /\ t <= entity[2]
          /\ entity[1] \in 1..n /\ entity[2] \in 1..n
      BY Numbers
    <3>2. From(entity[1]) <= From(t) /\ To(t) <= To(entity[2])
      BY <3>1, TokensInOrder
    <3>3. /\ From(entity[1]) \in Nat /\ From(t) \in Nat /\ To(entity[2]) \in Nat
          /\ To(t) \in Nat /\ w[1] \in Nat /\ w[2] \in Nat
      BY <3>1, TokensInOrder
    <3> QED
      BY <3>1, <3>2, <3>3 DEF Holds, Inside
  <2> QED
    BY <2>1, <2>2, NothingTruncated, Numbers
<1>2. whole \in found
  <2>1. /\ entity[1] \in part /\ entity[2] \in part
        /\ (\A u \in part : entity[1] <= u) /\ (\A u \in part : u <= entity[2])
    BY <1>1, Numbers DEF GivenOK
  <2>2. found = {<<From(a) - w[1], To(b) - w[1]>> :
                     a \in {t \in part : \A u \in part : t <= u},
                     b \in {t \in part : \A u \in part : u <= t}}
    BY <1>1 DEF Redact
  <2> HIDE DEF part
  <2> QED
    BY <2>1, <2>2
<1>3. Shift(w, whole) = EntitySpan
  <2>1. w[1] \in Nat /\ From(entity[1]) \in Nat /\ To(entity[2]) \in Nat
    BY TokensInOrder, Numbers
  <2> QED
    BY <2>1 DEF Shift, EntitySpan
<1> QED
  BY <1>2, <1>3

-----------------------------------------------------------------------------
(* The inductive invariant.                                                 *)

LastWindow == windows[Len(windows)]

\* The windows are those of the text, one behind the other.
WindowsInv ==
    /\ windows \in Seq(Nat \X Nat)
    /\ \A k \in 1..Len(windows) : Cut(windows[k])
    /\ WindowsAdvance

\* In the loop the next window begins behind the last one and ends behind it.
LoopInv ==
    /\ pc = "start" => i = 0 /\ windows = <<>>
    /\ pc = "window" =>
         /\ runtime /\ i \in 0..(n - 1)
         /\ windows # <<>> =>
              LastWindow[1] < From(i + 1) /\ LastWindow[2] < To(Smaller(i + Win, n))
    /\ pc = "done" => windows = <<>>

\* An entity that the overlap can hold, or any one that is not cut.
Findable == \/ ~runtime
            \/ entity[2] - entity[1] <= overlap /\ entity[2] - entity[1] < Win

\* It is ahead of the loop, or whole in a window, or found.
EntityInv ==
    Findable /\ pc # "start" =>
        \/ pc = "window" /\ i < entity[1]
        \/ \E k \in 1..Len(windows) : Holds(windows[k])
        \/ EntitySpan \in seen

SeenInv == \A s \in seen : Within(s)

IInv == GivenOK /\ WindowsInv /\ LoopInv /\ EntityInv /\ SeenInv

LEMMA IInvInit == WindowsInit => IInv
<1> SUFFICES ASSUME WindowsInit PROVE IInv
  OBVIOUS
<1>1. pc = "start" /\ i = 0 /\ windows = <<>> /\ seen = {}
  BY DEF WindowsInit
<1>2. WindowsInv /\ LoopInv /\ EntityInv /\ SeenInv
  BY <1>1 DEF WindowsInv, WindowsAdvance, LoopInv, EntityInv, SeenInv
<1> QED
  BY <1>2, GivenInit DEF IInv

\* The operators of the input stay as they are.
LEMMA GivenFrame ==
    ASSUME UNCHANGED given
    PROVE  /\ n' = n /\ Win' = Win /\ Stride' = Stride
           /\ \A k : From(k)' = From(k) /\ To(k)' = To(k)
           /\ \A w : Cut(w)' = Cut(w) /\ Holds(w)' = Holds(w)
           /\ Findable' = Findable /\ EntitySpan' = EntitySpan
           /\ \A s : Within(s)' = Within(s)
BY DEF given, n, Tokens, Win, Stride, From, To, Cut, Holds, Findable, EntitySpan, Within

LEMMA StartInv == IInv /\ Start => IInv'
<1> SUFFICES ASSUME IInv, Start PROVE IInv'
  OBVIOUS
<1> USE DEF IInv
<1>1. GivenOK' /\ UNCHANGED given
  BY GivenStep DEF WindowsNext
<1>2. pc = "start" /\ windows = <<>> /\ i' = i /\ i = 0 /\ seen' = seen /\ SeenInv'
  BY <1>1, GivenFrame DEF Start, LoopInv, SeenInv
<1>3. CASE runtime
  <2>1. pc' = "window" /\ windows' = <<>>
    BY <1>2, <1>3 DEF Start
  <2>2. i' \in 0..(n' - 1) /\ runtime' /\ i' < entity'[1]
    BY <1>1, <1>2, <1>3, Numbers, GivenFrame DEF given
  <2>3. LoopInv' /\ EntityInv'
    BY <2>1, <2>2 DEF LoopInv, EntityInv
  <2>4. WindowsInv'
    BY <2>1 DEF WindowsInv, WindowsAdvance
  <2> QED
    BY <1>1, <1>2, <2>3, <2>4
<1>4. CASE ~runtime
  <2>1. pc' = "analyze" /\ windows' = <<<<0, text.len>>>>
    BY <1>2, <1>4 DEF Start
  <2>2. /\ Len(windows') = 1 /\ windows'[1] = <<0, text.len>>
        /\ windows' \in Seq(Nat \X Nat)
    BY <2>1, TokensInOrder
  <2>3. Cut(windows'[1]) /\ Holds(windows'[1])
    <3>1. Cut(<<0, text.len>>)
      BY <1>4 DEF Cut
    <3>2. /\ From(entity[1]) \in Nat /\ To(entity[2]) <= text.len
      BY TokensInOrder, Numbers
    <3>3. Holds(<<0, text.len>>)
      BY <3>2 DEF Holds
    <3> QED
      BY <2>2, <3>1, <3>3
  <2>4. WindowsInv'
    <3>1. \A k \in 1..Len(windows') : Cut(windows'[k])
      <4> TAKE k \in 1..Len(windows')
      <4>1. k = 1
        BY <2>2
      <4> QED
        BY <2>3, <4>1
    <3>2. WindowsAdvance'
      BY <2>2 DEF WindowsAdvance
    <3> QED
      BY <1>1, <2>2, <3>1, <3>2, GivenFrame DEF WindowsInv
  <2>5. LoopInv'
    BY <2>1 DEF LoopInv
  <2>6. EntityInv'
    BY <1>1, <2>2, <2>3, GivenFrame DEF EntityInv
  <2> QED
    BY <1>1, <1>2, <2>4, <2>5, <2>6
<1> QED
  BY <1>3, <1>4 DEF GivenOK

\* An entity ahead of the window fits it, or begins in what the next one repeats.
LEMMA WindowInv == IInv /\ Window => IInv'
<1> SUFFICES ASSUME IInv, Window PROVE IInv'
  OBVIOUS
<1> USE DEF IInv
<1> DEFINE j == Smaller(i + Win, n)
<1> DEFINE w == <<From(i + 1), To(j)>>
<1>1. GivenOK' /\ UNCHANGED given
  BY GivenStep DEF WindowsNext
<1>2. /\ pc = "window" /\ windows' = Append(windows, w) /\ seen' = seen
      /\ \/ j >= n /\ pc' = "analyze" /\ i' = i
         \/ ~(j >= n) /\ i' = i + Stride /\ pc' = pc
  BY DEF Window
<1>3. /\ runtime /\ i \in 0..(n - 1) /\ windows \in Seq(Nat \X Nat)
      /\ n \in Nat /\ Win \in Nat /\ Win >= 1
      /\ Stride \in Nat /\ Stride >= 1 /\ Stride <= Win
  BY <1>2, Numbers DEF LoopInv, WindowsInv
<1>4. j \in 1..n /\ i + 1 \in 1..n /\ i + 1 <= j /\ j < i + 1 + Win
  BY <1>3
<1>5. w \in Nat \X Nat
  BY <1>4, TokensInOrder
<1>6. Cut(w)
  BY <1>3, <1>4 DEF Cut
<1>7. windows # <<>> => LastWindow[1] < w[1] /\ LastWindow[2] < w[2]
  BY <1>2 DEF LoopInv
<1> HIDE DEF w
<1>8. /\ Len(windows') = Len(windows) + 1 /\ Len(windows) \in Nat
      /\ windows' \in Seq(Nat \X Nat)
      /\ windows'[Len(windows) + 1] = w
      /\ \A k \in 1..Len(windows) : windows'[k] = windows[k]
  BY <1>2, <1>3, <1>5
<1>9. WindowsInv'
  <2>1. \A k \in 1..Len(windows') : Cut(windows'[k])
    <3> TAKE k \in 1..Len(windows')
    <3>1. CASE k \in 1..Len(windows)
      <4>1. windows'[k] = windows[k] /\ Cut(windows[k])
        BY <1>8, <3>1 DEF WindowsInv
      <4> QED
        BY <4>1
    <3>2. CASE k = Len(windows) + 1
      <4>1. windows'[k] = w
        BY <1>8, <3>2
      <4> QED
        BY <1>6, <4>1
    <3> QED
      BY <1>8, <3>1, <3>2
  <2>2. \A k \in 1..(Len(windows') - 1) :
            windows'[k][1] < windows'[k + 1][1] /\ windows'[k][2] < windows'[k + 1][2]
    <3> TAKE k \in 1..(Len(windows') - 1)
    <3>1. CASE k < Len(windows)
      <4>1. k \in 1..Len(windows) /\ k + 1 \in 1..Len(windows) /\ k \in 1..(Len(windows) - 1)
        BY <1>8, <3>1
      <4>2. windows'[k] = windows[k] /\ windows'[k + 1] = windows[k + 1]
        BY <1>8, <4>1
      <4>3. windows[k][1] < windows[k + 1][1] /\ windows[k][2] < windows[k + 1][2]
        BY <4>1 DEF WindowsInv, WindowsAdvance
      <4> QED
        BY <4>2, <4>3
    <3>2. CASE k = Len(windows)
      BY <1>7, <1>8, <3>2 DEF LastWindow
    <3> QED
      BY <1>8, <3>1, <3>2
  <2> QED
    BY <1>1, <1>8, <2>1, <2>2, GivenFrame DEF WindowsInv, WindowsAdvance
<1>10. LoopInv'
  <2>1. CASE pc' = "analyze"
    BY <2>1 DEF LoopInv
  <2>2. CASE j < n /\ i' = i + Stride /\ pc' = "window"
    <3> DEFINE q == Smaller(i' + Win, n)
    <3>1. /\ i' \in 0..(n - 1) /\ i + 1 < i' + 1 /\ i' + 1 \in 1..n
          /\ j < q /\ q \in 1..n
      BY <1>3, <1>4, <2>2
    <3>2. w[1] = From(i + 1) /\ w[2] = To(j)
      BY DEF w
    <3> HIDE DEF q, j
    <3>3. w[1] < From(i' + 1) /\ w[2] < To(q)
      BY <1>4, <3>1, <3>2, TokensInOrder
    <3>4. LastWindow' = w
      BY <1>8 DEF LastWindow
    <3>5. From(i' + 1) = From(i + 1)' /\ To(q) = To(Smaller(i + Win, n))'
      BY <1>1, GivenFrame DEF q, given, From, To, Tokens
    <3> QED
      BY <1>1, <1>3, <2>2, <3>1, <3>3, <3>4, <3>5, GivenFrame DEF LoopInv, given
  <2> QED
    BY <1>2, <1>3, <1>4, <2>1, <2>2
<1>11. EntityInv'
  <2> SUFFICES ASSUME Findable
               PROVE  \/ pc' = "window" /\ i' < entity[1]
                      \/ \E k \in 1..Len(windows') : Holds(windows'[k])
                      \/ EntitySpan \in seen
    BY <1>1, <1>2, GivenFrame DEF EntityInv, given
  <2>1. CASE EntitySpan \in seen
    BY <2>1
  <2>2. CASE \E k \in 1..Len(windows) : Holds(windows[k])
    BY <1>8, <2>2
  <2>3. CASE i < entity[1] /\ entity[2] <= j
    <3>1. From(i + 1) <= From(entity[1]) /\ To(entity[2]) <= To(j)
      <4>1. i + 1 <= entity[1] /\ entity[1] \in 1..n /\ entity[2] \in 1..n
        BY <1>3, <2>3, Numbers
      <4> HIDE DEF j
      <4>2. CASE i + 1 < entity[1]
        BY <1>4, <2>3, <4>1, <4>2, TokensInOrder
      <4>3. CASE i + 1 = entity[1]
        BY <1>4, <2>3, <4>1, <4>3, TokensInOrder
      <4> QED
        BY <1>3, <4>1, <4>2, <4>3
    <3>2. Holds(w)
      BY <3>1 DEF w, Holds
    <3> QED
      BY <1>8, <3>2
  <2>4. CASE i < entity[1] /\ entity[2] > j
    <3>1. /\ j = i + Win /\ j < n /\ pc' = "window" /\ i' = i + Stride
          /\ entity[1] \in 1..n /\ entity[2] \in 1..n
      BY <1>2, <1>3, <2>4, Numbers
    <3>2. entity[2] - entity[1] <= overlap /\ entity[2] - entity[1] < Win
      BY <1>3 DEF Findable
    <3>3. i' < entity[1]
      BY <1>3, <2>4, <3>1, <3>2 DEF Stride, GivenOK
    <3> QED
      BY <3>1, <3>3
  <2>5. \/ i < entity[1]
        \/ \E k \in 1..Len(windows) : Holds(windows[k])
        \/ EntitySpan \in seen
    BY <1>2 DEF EntityInv
  <2>6. entity[2] <= j \/ entity[2] > j
    BY <1>4, Numbers
  <2> HIDE DEF j
  <2> QED
    BY <2>1, <2>2, <2>3, <2>4, <2>5, <2>6
<1>12. SeenInv'
  BY <1>1, <1>2, GivenFrame DEF SeenInv
<1> QED
  BY <1>1, <1>9, <1>10, <1>11, <1>12

LEMMA AnalyzeInv == IInv /\ AnalyzeWindow => IInv'
<1> SUFFICES ASSUME IInv, AnalyzeWindow PROVE IInv'
  OBVIOUS
<1> USE DEF IInv
<1>1. GivenOK' /\ UNCHANGED given
  BY GivenStep DEF WindowsNext
<1>2. PICK found \in Redact(Head(windows)) :
          seen' = seen \cup {Shift(Head(windows), s) : s \in found}
  BY DEF AnalyzeWindow
<1>3. /\ pc = "analyze" /\ pc' = "analyze" /\ windows # <<>> /\ windows' = Tail(windows)
      /\ windows \in Seq(Nat \X Nat)
  BY DEF AnalyzeWindow, WindowsInv
<1>4. /\ Len(windows) \in Nat /\ Len(windows) >= 1 /\ Len(windows') = Len(windows) - 1
      /\ windows' \in Seq(Nat \X Nat) /\ Head(windows) = windows[1]
      /\ Head(windows) \in Nat \X Nat
      /\ \A k \in 1..Len(windows') : windows'[k] = windows[k + 1]
  BY <1>3
<1>5. WindowsInv'
  <2>1. \A k \in 1..Len(windows') : Cut(windows'[k])
    <3> TAKE k \in 1..Len(windows')
    <3>1. k + 1 \in 1..Len(windows) /\ windows'[k] = windows[k + 1]
      BY <1>4
    <3>2. Cut(windows[k + 1])
      BY <3>1 DEF WindowsInv
    <3> QED
      BY <3>1, <3>2
  <2>2. WindowsAdvance'
    <3> SUFFICES ASSUME NEW k \in 1..(Len(windows') - 1)
                 PROVE  /\ windows'[k][1] < windows'[k + 1][1]
                        /\ windows'[k][2] < windows'[k + 1][2]
      BY DEF WindowsAdvance
    <3>1. /\ k + 1 \in 1..(Len(windows) - 1)
          /\ k \in 1..Len(windows') /\ k + 1 \in 1..Len(windows')
      BY <1>4
    <3>2. windows'[k] = windows[k + 1] /\ windows'[k + 1] = windows[(k + 1) + 1]
      BY <1>4, <3>1
    <3>3. /\ windows[k + 1][1] < windows[(k + 1) + 1][1]
          /\ windows[k + 1][2] < windows[(k + 1) + 1][2]
      BY <3>1 DEF WindowsInv, WindowsAdvance
    <3> QED
      BY <3>2, <3>3
  <2> QED
    BY <1>1, <1>4, <2>1, <2>2, GivenFrame DEF WindowsInv
<1>6. LoopInv'
  BY <1>3 DEF LoopInv
<1>7. SeenInv'
  BY <1>1, <1>2, <1>4, RedactSound, GivenFrame DEF SeenInv
<1>8. EntityInv'
  <2> SUFFICES ASSUME Findable
               PROVE  \/ \E k \in 1..Len(windows') : Holds(windows'[k])
                      \/ EntitySpan \in seen'
    BY <1>1, <1>3, GivenFrame DEF EntityInv
  <2>1. CASE EntitySpan \in seen
    BY <1>2, <2>1
  <2>2. ASSUME NEW k \in 1..Len(windows), Holds(windows[k])
        PROVE  \/ \E l \in 1..Len(windows') : Holds(windows'[l])
               \/ EntitySpan \in seen'
    <3>1. CASE k = 1
      <4>1. Cut(Head(windows)) /\ Holds(Head(windows))
        BY <1>4, <2>2, <3>1 DEF WindowsInv
      <4>2. EntitySpan \in {Shift(Head(windows), s) : s \in found}
        BY <1>4, <4>1, RedactFinds
      <4> QED
        BY <1>2, <4>2
    <3>2. CASE k # 1
      <4>1. k - 1 \in 1..Len(windows') /\ windows'[k - 1] = windows[k]
        BY <1>4, <3>2
      <4> QED
        BY <2>2, <4>1
    <3> QED
      BY <3>1, <3>2
  <2> QED
    BY <1>3, <2>1, <2>2 DEF EntityInv
<1> QED
  BY <1>1, <1>5, <1>6, <1>7, <1>8

LEMMA ReturnInv == IInv /\ (Return \/ UNCHANGED windowsVars) => IInv'
<1> SUFFICES ASSUME IInv, Return \/ UNCHANGED windowsVars PROVE IInv'
  OBVIOUS
<1> USE DEF IInv
<1>1. GivenOK' /\ UNCHANGED <<given, i, windows, seen>>
  BY GivenStep DEF WindowsNext, Return, windowsVars, given
<1>2. \/ pc' = pc
      \/ pc = "analyze" /\ pc' = "done" /\ windows = <<>>
  BY DEF Return, windowsVars
<1>3. WindowsInv' /\ SeenInv'
  BY <1>1, GivenFrame DEF WindowsInv, WindowsAdvance, SeenInv
<1>4. LoopInv' /\ EntityInv'
  <2>1. LastWindow' = LastWindow /\ runtime' = runtime /\ entity' = entity
        /\ From(i + 1)' = From(i + 1) /\ To(Smaller(i + Win, n))' = To(Smaller(i + Win, n))
    BY <1>1 DEF LastWindow, given, From, To, Tokens, n, Win
  <2> QED
    BY <1>1, <1>2, <2>1, GivenFrame DEF LoopInv, EntityInv
<1> QED
  BY <1>1, <1>3, <1>4

THEOREM Invariance == WindowsSpec => []IInv
<1>1. IInv /\ [WindowsNext]_windowsVars => IInv'
  BY StartInv, WindowInv, AnalyzeInv, ReturnInv DEF WindowsNext
<1> QED
  BY <1>1, IInvInit, PTL DEF WindowsSpec

-----------------------------------------------------------------------------

\* For every overlap, as long as a window or longer too, the loop of _windows moves on:
\* each window begins and ends behind the one before.
THEOREM LoopAdvances == WindowsSpec => []WindowsAdvance
<1>1. IInv => WindowsAdvance
  BY DEF IInv, WindowsInv
<1> QED
  BY <1>1, Invariance, PTL

\* In a text of any length the sidecar finds an entity whole if the overlap can hold it.
THEOREM EntitiesAreFound == WindowsSpec => []EntityIsFound
<1>1. IInv => EntityIsFound
  BY DEF IInv, EntityIsFound, EntityInv, LoopInv, Findable
<1> QED
  BY <1>1, Invariance, PTL

\* Whatever it reports is the entity or a part of it, at its place in the text.
THEOREM SpansAreInPlace == WindowsSpec => []OffsetsAbsolute
<1>1. IInv => OffsetsAbsolute
  BY DEF IInv, OffsetsAbsolute, SeenInv, Within
<1> QED
  BY <1>1, Invariance, PTL

=============================================================================
