----------------------------- MODULE ScannerProofs -----------------------------
(***************************************************************************)
(* Theorems about the scanner's machinery: the rate limiter that its       *)
(* requests wait for, for any number of goroutines, any burst and rate,    *)
(* and any number of limiters; and the pool of workers (ScanPool), for any *)
(* number of objects and workers.                                          *)
(***************************************************************************)
EXTENDS ScanPool, RateLimiter, FiniteSetTheorems, TLAPS

-----------------------------------------------------------------------------
(* The rate limiter.                                                        *)

Numbers ==
    /\ level \in Int /\ level <= Full /\ scanner \in 1..Scanners
    /\ waiting \subseteq Callers /\ left \in [Callers -> Nat]
    /\ window \in {"before", "on", "over"}
    /\ elapsed \in Nat /\ used \in Nat /\ spent \in Nat

\* The waits that end within t ticks, and the others.
Due(t)   == {w \in waiting : left[w] <= t}
Later(t) == {w \in waiting : left[w] > t}

Allowed == Full * used + elapsed + Weight(Callers)

\* The requests that can still come within t ticks are paid for by then.
DueInv ==
    /\ window = "on" => \A t \in Nat : spent + Weight(Due(t)) <= Allowed + t
    /\ window = "over" => spent <= Allowed

\* Tokens are owed only while somebody waits for each of them.
CreditInv == ~canceled => \A t \in Nat : level + t + Weight(Later(t)) >= 0

\* What was requested, what is reserved and what is left in the bucket.
BudgetInv ==
    ~canceled /\ window = "on" => spent + Weight(waiting) + level <= Allowed

LimiterInv ==
    /\ Numbers /\ canceled \in BOOLEAN
    /\ DueInv /\ CreditInv /\ BudgetInv /\ WaitBounded

-----------------------------------------------------------------------------
(* Weights.                                                                 *)

LEMMA FullNat == Full \in Nat /\ Price \in Nat
BY NumbersAssumption DEF Full, Burst

LEMMA WeightNat == ASSUME NEW S \in SUBSET Callers PROVE Weight(S) \in Nat
<1>1. IsFiniteSet(S)
  BY CallersAssumption, FS_Subset
<1>2. Cardinality(S) \in Nat
  BY <1>1, FS_CardinalityType
<1> QED
  BY <1>2, FullNat DEF Weight

LEMMA WeightMono ==
    ASSUME NEW T \in SUBSET Callers, NEW S \in SUBSET T PROVE Weight(S) <= Weight(T)
<1>1. IsFiniteSet(T) /\ IsFiniteSet(S)
  BY CallersAssumption, FS_Subset
<1>2. Cardinality(S) \in Nat /\ Cardinality(T) \in Nat /\ Cardinality(S) <= Cardinality(T)
  BY <1>1, FS_Subset, FS_CardinalityType
<1>3. \A a, b, c \in Nat : a <= b => c * a <= c * b
  OBVIOUS
<1> QED
  BY <1>2, <1>3, FullNat DEF Weight

LEMMA WeightAdd ==
    ASSUME NEW S \in SUBSET Callers, NEW w \in Callers \ S
    PROVE  Weight(S \cup {w}) = Weight(S) + Price
<1>1. IsFiniteSet(S)
  BY CallersAssumption, FS_Subset
<1>2. Cardinality(S) \in Nat /\ Cardinality(S \cup {w}) = Cardinality(S) + 1
  BY <1>1, FS_AddElement, FS_CardinalityType
<1>3. \A a, c \in Nat : c * (a + 1) = c * a + c
  OBVIOUS
<1> QED
  BY <1>2, <1>3, FullNat DEF Weight

LEMMA WeightDrop ==
    ASSUME NEW S \in SUBSET Callers, NEW w \in S
    PROVE  Weight(S) = Weight(S \ {w}) + Price
<1>1. S \ {w} \in SUBSET Callers /\ w \in Callers \ (S \ {w}) /\ (S \ {w}) \cup {w} = S
  OBVIOUS
<1> QED
  BY <1>1, WeightAdd

LEMMA WeightEmpty == Weight({}) = 0
<1>1. Cardinality({}) = 0
  BY FS_EmptySet
<1> QED
  BY <1>1, FullNat DEF Weight

\* The bound grows by a burst with each limiter and by one with each tick.
LEMMA AllowedNat ==
    ASSUME used \in Nat, elapsed \in Nat PROVE Allowed \in Nat
<1>1. Weight(Callers) \in Nat
  BY WeightNat
<1>2. \A a, b \in Nat : a * b \in Nat
  OBVIOUS
<1> QED
  BY <1>1, <1>2, FullNat DEF Allowed

LEMMA AllowedGrows ==
    ASSUME used \in Nat, elapsed \in Nat
    PROVE  /\ used' = used + 1 /\ elapsed' = elapsed => Allowed' = Allowed + Full
           /\ used' = used /\ elapsed' = elapsed + 1 => Allowed' = Allowed + 1
           /\ used' = used /\ elapsed' = elapsed => Allowed' = Allowed
           /\ used' = 1 /\ elapsed' = 0 => Allowed' = Full + Weight(Callers)
<1>1. Weight(Callers) \in Nat
  BY WeightNat
<1>2. \A a, b \in Nat : a * b \in Nat /\ a * (b + 1) = a * b + a /\ a * 1 = a
  OBVIOUS
<1>3. Full * used \in Nat /\ Full * (used + 1) = Full * used + Full /\ Full * 1 = Full
  BY <1>2, FullNat
<1> QED
  BY <1>1, <1>3, FullNat DEF Allowed

LEMMA Facts ==
    ASSUME LimiterInv
    PROVE  /\ level \in Int /\ level <= Full /\ waiting \subseteq Callers
           /\ left \in [Callers -> Nat] /\ spent \in Nat
           /\ used \in Nat /\ elapsed \in Nat /\ Allowed \in Nat
           /\ Full \in Nat /\ Price \in Nat /\ Weight(waiting) \in Nat
           /\ Weight(Callers) \in Nat /\ Weight(waiting) <= Weight(Callers)
           /\ \A t \in Nat : /\ Weight(Due(t)) \in Nat /\ Weight(Later(t)) \in Nat
                             /\ Weight(Due(t)) <= Weight(waiting)
                             /\ Weight(Later(t)) <= Weight(waiting)
<1>1. Numbers
  BY DEF LimiterInv
<1>2. \A t \in Nat : Due(t) \in SUBSET waiting /\ Later(t) \in SUBSET waiting
  BY DEF Due, Later
<1>3. \A t \in Nat : Due(t) \in SUBSET Callers /\ Later(t) \in SUBSET Callers
  BY <1>1, <1>2 DEF Numbers
<1>4. \A t \in Nat : /\ Weight(Due(t)) \in Nat /\ Weight(Later(t)) \in Nat
                     /\ Weight(Due(t)) <= Weight(waiting)
                     /\ Weight(Later(t)) <= Weight(waiting)
  BY <1>1, <1>2, <1>3, WeightNat, WeightMono DEF Numbers
<1>5. /\ Weight(waiting) \in Nat /\ Weight(Callers) \in Nat
      /\ Weight(waiting) <= Weight(Callers)
  BY <1>1, WeightNat, WeightMono DEF Numbers
<1> QED
  BY <1>1, <1>4, <1>5, FullNat, AllowedNat DEF Numbers

-----------------------------------------------------------------------------
(* The steps.                                                               *)

LEMMA LimiterStart == LimiterInit => LimiterInv
<1> SUFFICES ASSUME LimiterInit PROVE LimiterInv
  OBVIOUS
<1>1. Numbers
  BY FullNat, NumbersAssumption DEF LimiterInit, Numbers
<1>2. canceled \in BOOLEAN
  BY Zenon DEF LimiterInit
<1>3. \A t \in Nat : Weight(Later(t)) = 0
  <2>1. \A t : Later(t) = {}
    BY DEF LimiterInit, Later
  <2> QED
    BY <2>1, WeightEmpty
<1>4. CreditInv
  BY <1>3, FullNat DEF CreditInv, LimiterInit
<1> QED
  BY <1>1, <1>2, <1>4 DEF LimiterInit, LimiterInv, DueInv, BudgetInv, WaitBounded

\* A new limiter comes with a new burst; nothing is owed when it comes.
LEMMA NewScannerInv == LimiterInv /\ NewScanner => LimiterInv'
<1> SUFFICES ASSUME LimiterInv, NewScanner PROVE LimiterInv'
  OBVIOUS
<1>1. /\ scanner < Scanners /\ waiting = {} /\ ~canceled
      /\ scanner' = scanner + 1 /\ level' = Full
      /\ used' = IF window = "on" THEN used + 1 ELSE used
      /\ waiting' = waiting /\ left' = left /\ canceled' = canceled /\ window' = window
      /\ elapsed' = elapsed /\ spent' = spent
  BY DEF NewScanner
<1>2. \A t : Due(t)' = {} /\ Later(t)' = {}
  BY <1>1 DEF Due, Later
<1>3. Weight(Due(0)) \in Nat /\ Weight(waiting) = 0 /\ spent \in Nat /\ Full \in Nat
  BY <1>1, Facts, WeightEmpty
<1>4. Numbers'
  BY <1>1, Facts, NumbersAssumption DEF LimiterInv, Numbers
<1>5. level >= 0
  BY <1>1, <1>3, WeightEmpty DEF LimiterInv, CreditInv, Later, Numbers
<1>6. window = "on" => spent <= Allowed
  BY <1>1, <1>3, <1>5, Facts DEF LimiterInv, BudgetInv
<1>7. window = "on" => Allowed' = Allowed + Full
  BY <1>1, Facts, AllowedGrows
<1>8. window # "on" => Allowed' = Allowed
  BY <1>1, Facts, AllowedGrows
<1>9. DueInv'
  <2>1. CASE window = "on"
    <3>1. \A t \in Nat : spent + 0 <= Allowed' + t
      BY <1>3, <1>6, <1>7, <2>1, Facts
    <3> QED
      BY <1>1, <1>2, <2>1, <3>1, WeightEmpty DEF DueInv
  <2>2. CASE window # "on"
    BY <1>1, <1>8, <2>2 DEF LimiterInv, DueInv
  <2> QED
    BY <2>1, <2>2
<1>10. CreditInv' /\ BudgetInv'
  BY <1>1, <1>2, <1>3, <1>6, <1>7, Facts, WeightEmpty DEF CreditInv, BudgetInv
<1>11. canceled' \in BOOLEAN /\ WaitBounded'
  BY <1>1, Zenon DEF LimiterInv, WaitBounded
<1> QED
  BY <1>4, <1>9, <1>10, <1>11 DEF LimiterInv

\* A token is taken: one more waits, for no longer than the tokens that are owed.
LEMMA ReserveInv == ASSUME NEW v \in Callers PROVE LimiterInv /\ Reserve(v) => LimiterInv'
<1> SUFFICES ASSUME LimiterInv, Reserve(v) PROVE LimiterInv'
  OBVIOUS
<1> DEFINE L == level - Price
           wait == IF L < 0 THEN -L ELSE 0
<1>1. /\ v \in Callers \ waiting /\ ~canceled /\ level' = L
      /\ left' = [left EXCEPT ![v] = wait] /\ waiting' = waiting \cup {v}
      /\ scanner' = scanner /\ canceled' = canceled /\ window' = window
      /\ elapsed' = elapsed /\ used' = used /\ spent' = spent
  BY DEF Reserve, Fee, observer
<1>2. L \in Int /\ wait \in Nat /\ L + wait >= 0 /\ (wait = 0 \/ wait = -L) /\ L <= Full
  BY Facts
<1>3. /\ left' \in [Callers -> Nat] /\ left'[v] = wait
      /\ \A w \in waiting : left'[w] = left[w] /\ w # v
  BY <1>1, <1>2, Facts
<1> HIDE DEF L, wait
<1>4. Weight(waiting') = Weight(waiting) + Price
  BY <1>1, WeightAdd, Facts
<1>5. Weight(waiting') <= Weight(Callers)
  BY <1>1, WeightMono, Facts
<1>6. level >= 0 - Weight(waiting)
  <2>1. level + 0 + Weight(Later(0)) >= 0
    BY <1>1 DEF LimiterInv, CreditInv
  <2> QED
    BY <2>1, Facts
<1>7. wait <= Weight(Callers)
  BY <1>2, <1>4, <1>5, <1>6, Facts DEF L
<1>8. Allowed' = Allowed
  BY <1>1, Facts, AllowedGrows
<1>9. Numbers'
  BY <1>1, <1>2, <1>3, Facts DEF LimiterInv, Numbers
<1>10. WaitBounded'
  BY <1>1, <1>3, <1>7 DEF LimiterInv, WaitBounded
<1>11. CreditInv'
  <2> SUFFICES ASSUME NEW t \in Nat PROVE level' + t + Weight(Later(t)') >= 0
    BY DEF CreditInv
  <2>1. level + t + Weight(Later(t)) >= 0
    BY <1>1 DEF LimiterInv, CreditInv
  <2>2. CASE wait > t
    <3>1. Later(t)' = Later(t) \cup {v} /\ v \notin Later(t) /\ Later(t) \subseteq Callers
      BY <1>1, <1>3, <2>2, Facts DEF Later
    <3>2. Weight(Later(t)') = Weight(Later(t)) + Price
      BY <3>1, WeightAdd
    <3> QED
      BY <1>1, <2>1, <3>2, Facts DEF L
  <2>3. CASE wait <= t
    <3>1. Later(t)' \in SUBSET Callers
      BY <1>1, Facts DEF Later
    <3>2. Weight(Later(t)') \in Nat
      BY <3>1, WeightNat
    <3> QED
      BY <1>1, <1>2, <2>3, <3>2
  <2> QED
    BY <2>2, <2>3, <1>2
<1>12. BudgetInv'
  BY <1>1, <1>4, <1>8, Facts DEF LimiterInv, BudgetInv, L
<1>13. DueInv'
  <2>1. CASE window = "on"
    <3> SUFFICES ASSUME NEW t \in Nat PROVE spent + Weight(Due(t)') <= Allowed + t
      BY <1>1, <1>8, <2>1 DEF DueInv
    <3>1. CASE wait <= t
      <4>1. Due(t)' \in SUBSET (waiting') /\ waiting' \in SUBSET Callers
        BY <1>1, Facts DEF Due
      <4>2. Weight(Due(t)') <= Weight(waiting') /\ Weight(Due(t)') \in Nat
        BY <4>1, WeightMono, WeightNat
      <4>3. spent + Weight(waiting) + level <= Allowed
        BY <1>1, <2>1 DEF LimiterInv, BudgetInv
      <4> QED
        BY <1>2, <1>4, <3>1, <4>2, <4>3, Facts DEF L
    <3>2. CASE wait > t
      <4>1. Due(t)' = Due(t)
        BY <1>1, <1>3, <3>2, <1>2 DEF Due
      <4> QED
        BY <4>1, <2>1 DEF LimiterInv, DueInv
    <3> QED
      BY <3>1, <3>2, <1>2
  <2>2. CASE window # "on"
    BY <1>1, <1>8, <2>2 DEF LimiterInv, DueInv
  <2> QED
    BY <2>1, <2>2
<1>14. canceled' \in BOOLEAN
  BY <1>1, Zenon DEF LimiterInv
<1> QED
  BY <1>9, <1>10, <1>11, <1>12, <1>13, <1>14 DEF LimiterInv

\* A request moves its price from the waits that are over to the spent.
LEMMA RequestInv == ASSUME NEW v \in Callers PROVE LimiterInv /\ Request(v) => LimiterInv'
<1> SUFFICES ASSUME LimiterInv, Request(v) PROVE LimiterInv'
  OBVIOUS
<1>1. /\ v \in waiting /\ left[v] = 0 /\ waiting' = waiting \ {v}
      /\ spent' = IF window = "on" THEN spent + 1 * Price ELSE spent
      /\ level' = level /\ scanner' = scanner /\ left' = left /\ canceled' = canceled
      /\ window' = window /\ elapsed' = elapsed /\ used' = used
  BY DEF Request, Requests
<1>2. spent' = IF window = "on" THEN spent + Price ELSE spent
  BY <1>1, Facts
<1>3. Allowed' = Allowed
  BY <1>1, Facts, AllowedGrows
<1>4. Weight(waiting) = Weight(waiting') + Price
  BY <1>1, WeightDrop, Facts
<1>5. \A t \in Nat : Later(t)' = Later(t)
  BY <1>1, Facts DEF Later
<1>6. \A t \in Nat : Weight(Due(t)) = Weight(Due(t)') + Price
  <2> SUFFICES ASSUME NEW t \in Nat PROVE Weight(Due(t)) = Weight(Due(t)') + Price
    OBVIOUS
  <2>1. Due(t)' = Due(t) \ {v} /\ v \in Due(t) /\ Due(t) \in SUBSET Callers
    BY <1>1, Facts DEF Due
  <2> QED
    BY <2>1, WeightDrop
<1>7. \A t \in Nat : Weight(Due(t)') \in Nat
  <2>1. \A t \in Nat : Due(t)' \in SUBSET Callers
    BY <1>1, Facts DEF Due
  <2> QED
    BY <2>1, WeightNat
<1>8. Weight(waiting') \in Nat
  BY <1>1, WeightNat, Facts
<1>9. Numbers'
  BY <1>1, <1>2, Facts DEF LimiterInv, Numbers
<1>10. DueInv'
  <2>1. CASE window = "on"
    <3> SUFFICES ASSUME NEW t \in Nat PROVE spent' + Weight(Due(t)') <= Allowed + t
      BY <1>1, <1>3, <2>1 DEF DueInv
    <3>1. spent + Weight(Due(t)) <= Allowed + t
      BY <2>1 DEF LimiterInv, DueInv
    <3> QED
      BY <1>2, <1>6, <1>7, <2>1, <3>1, Facts
  <2>2. CASE window # "on"
    BY <1>1, <1>3, <2>2 DEF LimiterInv, DueInv
  <2> QED
    BY <2>1, <2>2
<1>11. CreditInv'
  BY <1>1, <1>5 DEF LimiterInv, CreditInv
<1>12. BudgetInv'
  BY <1>1, <1>2, <1>3, <1>4, <1>8, Facts DEF LimiterInv, BudgetInv
<1>13. canceled' \in BOOLEAN /\ WaitBounded'
  BY <1>1, Zenon DEF LimiterInv, WaitBounded
<1> QED
  BY <1>9, <1>10, <1>11, <1>12, <1>13 DEF LimiterInv

\* A wait that is given up is one request less to come.
LEMMA GiveUpInv == ASSUME NEW v \in Callers PROVE LimiterInv /\ GiveUp(v) => LimiterInv'
<1> SUFFICES ASSUME LimiterInv, GiveUp(v) PROVE LimiterInv'
  OBVIOUS
<1>1. /\ v \in waiting /\ canceled /\ waiting' = waiting \ {v}
      /\ level' = level /\ scanner' = scanner /\ left' = left /\ canceled' = canceled
      /\ window' = window /\ elapsed' = elapsed /\ used' = used /\ spent' = spent
  BY DEF GiveUp, observer
<1>2. Allowed' = Allowed
  BY <1>1, Facts, AllowedGrows
<1>3. \A t \in Nat : Weight(Due(t)') \in Nat /\ Weight(Due(t)') <= Weight(Due(t))
  <2>1. \A t \in Nat : Due(t)' \in SUBSET Due(t) /\ Due(t) \in SUBSET Callers
                       /\ Due(t)' \in SUBSET Callers
    BY <1>1, Facts DEF Due
  <2> QED
    BY <2>1, WeightNat, WeightMono
<1>4. Numbers'
  BY <1>1, Facts DEF LimiterInv, Numbers
<1>5. DueInv'
  <2>1. CASE window = "on"
    <3> SUFFICES ASSUME NEW t \in Nat PROVE spent + Weight(Due(t)') <= Allowed + t
      BY <1>1, <1>2, <2>1 DEF DueInv
    <3>1. spent + Weight(Due(t)) <= Allowed + t
      BY <2>1 DEF LimiterInv, DueInv
    <3> QED
      BY <1>3, <3>1, Facts
  <2>2. CASE window # "on"
    BY <1>1, <1>2, <2>2 DEF LimiterInv, DueInv
  <2> QED
    BY <2>1, <2>2
<1>6. canceled' \in BOOLEAN /\ WaitBounded' /\ CreditInv' /\ BudgetInv'
  BY <1>1, Zenon DEF LimiterInv, WaitBounded, CreditInv, BudgetInv
<1> QED
  BY <1>4, <1>5, <1>6 DEF LimiterInv

\* A tick pays for one of the ticks that were still to wait.
LEMMA TickInv == LimiterInv /\ Tick => LimiterInv'
<1> SUFFICES ASSUME LimiterInv, Tick PROVE LimiterInv'
  OBVIOUS
<1>1. /\ level' = IF level < Full THEN level + 1 ELSE level
      /\ left' = [w \in Callers |-> IF left[w] > 0 THEN left[w] - 1 ELSE 0]
      /\ scanner' = scanner /\ waiting' = waiting /\ canceled' = canceled
      /\ used' = used /\ spent' = spent
  BY DEF Tick
<1>2. \/ window = "on" /\ window' = "on" /\ elapsed' = elapsed + 1
      \/ window = "on" /\ window' = "over" /\ elapsed' = elapsed
      \/ window # "on" /\ window' = window /\ elapsed' = elapsed
  BY DEF Tick
<1>3. \A w \in Callers : /\ left'[w] \in Nat /\ left'[w] <= left[w]
                         /\ \A t \in Nat : left'[w] <= t <=> left[w] <= t + 1
  BY <1>1, Facts
<1>4. \A t \in Nat : Due(t)' = Due(t + 1) /\ Later(t)' = Later(t + 1)
  BY <1>1, <1>3, Facts DEF Due, Later
<1>5. Numbers'
  BY <1>1, <1>2, Facts DEF LimiterInv, Numbers
<1>6. DueInv'
  <2>1. CASE window = "on" /\ window' = "on" /\ elapsed' = elapsed + 1
    <3>1. Allowed' = Allowed + 1
      BY <1>1, <2>1, Facts, AllowedGrows
    <3> SUFFICES ASSUME NEW t \in Nat PROVE spent + Weight(Due(t + 1)) <= Allowed + 1 + t
      BY <1>1, <1>4, <2>1, <3>1 DEF DueInv
    <3>2. spent + Weight(Due(t + 1)) <= Allowed + (t + 1)
      BY <2>1 DEF LimiterInv, DueInv
    <3> QED
      BY <3>2, Facts
  <2>2. CASE window = "on" /\ window' = "over" /\ elapsed' = elapsed
    <3>1. Allowed' = Allowed
      BY <1>1, <2>2, Facts, AllowedGrows
    <3>2. spent + Weight(Due(0)) <= Allowed + 0
      BY <2>2 DEF LimiterInv, DueInv
    <3>3. spent <= Allowed
      BY <3>2, Facts
    <3> QED
      BY <1>1, <2>2, <3>1, <3>3 DEF DueInv
  <2>3. CASE window # "on" /\ window' = window /\ elapsed' = elapsed
    <3>1. Allowed' = Allowed
      BY <1>1, <2>3, Facts, AllowedGrows
    <3> QED
      BY <1>1, <2>3, <3>1 DEF LimiterInv, DueInv
  <2> QED
    BY <1>2, <2>1, <2>2, <2>3
<1>7. CreditInv'
  <2> SUFFICES ASSUME ~canceled, NEW t \in Nat PROVE level' + t + Weight(Later(t + 1)) >= 0
    BY <1>1, <1>4 DEF CreditInv
  <2>1. level + (t + 1) + Weight(Later(t + 1)) >= 0
    BY DEF LimiterInv, CreditInv
  <2>2. Weight(Later(t + 1)) \in Nat
    BY Facts
  <2> QED
    BY <1>1, <2>1, <2>2, Facts
<1>8. BudgetInv'
  <2>1. CASE window = "on" /\ window' = "on" /\ elapsed' = elapsed + 1
    <3>1. Allowed' = Allowed + 1
      BY <1>1, <2>1, Facts, AllowedGrows
    <3> QED
      BY <1>1, <2>1, <3>1, Facts DEF LimiterInv, BudgetInv
  <2> QED
    BY <1>2, <2>1 DEF BudgetInv
<1>9. WaitBounded'
  <2> SUFFICES ASSUME NEW w \in waiting PROVE left'[w] <= Weight(Callers)
    BY <1>1 DEF WaitBounded
  <2>1. left[w] <= Weight(Callers) /\ w \in Callers
    BY Facts DEF LimiterInv, WaitBounded
  <2> QED
    BY <1>3, <2>1, Facts
<1>10. canceled' \in BOOLEAN
  BY <1>1, Zenon DEF LimiterInv
<1> QED
  BY <1>5, <1>6, <1>7, <1>8, <1>9, <1>10 DEF LimiterInv

\* When the window begins, the waits of before it are the late requests.
LEMMA ObserveInv == LimiterInv /\ Observe => LimiterInv'
<1> SUFFICES ASSUME LimiterInv, Observe PROVE LimiterInv'
  OBVIOUS
<1>1. /\ window' = "on" /\ elapsed' = 0 /\ used' = 1 /\ spent' = 0
      /\ level' = level /\ scanner' = scanner /\ waiting' = waiting /\ left' = left
      /\ canceled' = canceled
  BY DEF Observe, limiter
<1>2. Allowed' = Full + Weight(Callers)
  BY <1>1, Facts, AllowedGrows
<1>3. \A t : Due(t)' = Due(t)
  BY <1>1 DEF Due
<1>4. Numbers'
  BY <1>1, Facts DEF LimiterInv, Numbers
<1>5. DueInv'
  <2> SUFFICES ASSUME NEW t \in Nat PROVE 0 + Weight(Due(t)) <= Allowed' + t
    BY <1>1, <1>3 DEF DueInv
  <2>1. Weight(Due(t)) \in Nat /\ Weight(Due(t)) <= Weight(waiting)
    BY Facts
  <2> QED
    BY <1>2, <2>1, Facts
<1>6. BudgetInv'
  BY <1>1, <1>2, Facts DEF BudgetInv
<1>7. canceled' \in BOOLEAN /\ WaitBounded' /\ CreditInv'
  BY <1>1, Zenon DEF LimiterInv, WaitBounded, CreditInv, Later
<1> QED
  BY <1>4, <1>5, <1>6, <1>7 DEF LimiterInv

LEMMA InterruptInv == LimiterInv /\ Interrupt => LimiterInv'
<1> SUFFICES ASSUME LimiterInv, Interrupt PROVE LimiterInv'
  OBVIOUS
<1>1. canceled' = TRUE /\ UNCHANGED <<level, scanner, waiting, left, window, elapsed, used, spent>>
  BY Zenon DEF Interrupt, limiter, observer
<1>2. Numbers' /\ DueInv' /\ WaitBounded'
  BY <1>1, Zenon DEF LimiterInv, Numbers, DueInv, WaitBounded, Due, Allowed
<1>3. CreditInv' /\ BudgetInv' /\ canceled' \in BOOLEAN
  BY <1>1, Zenon DEF CreditInv, BudgetInv
<1> QED
  BY <1>2, <1>3 DEF LimiterInv

\* The strengthened invariant holds in every reachable state.
THEOREM LimiterInvariance == LimiterSpec => []LimiterInv
<1>1. LimiterInit => LimiterInv
  BY LimiterStart
<1>2. LimiterInv /\ [LimiterNext]_limiterVars => LimiterInv'
  <2>1. ASSUME LimiterInv, UNCHANGED limiterVars PROVE LimiterInv'
    <3>1. UNCHANGED <<level, scanner, waiting, left, canceled, window, elapsed, used, spent>>
      BY <2>1, Zenon DEF limiterVars, limiter, observer
    <3>2. Numbers' /\ DueInv' /\ WaitBounded'
      BY <2>1, <3>1, Zenon DEF LimiterInv, Numbers, DueInv, WaitBounded, Due, Allowed
    <3>3. CreditInv' /\ BudgetInv'
      BY <2>1, <3>1, Zenon DEF LimiterInv, CreditInv, BudgetInv, Later, Allowed
    <3>4. canceled' \in BOOLEAN
      BY <2>1, <3>1, Zenon DEF LimiterInv
    <3> QED
      BY <3>2, <3>3, <3>4 DEF LimiterInv
  <2> QED
    BY <2>1, NewScannerInv, InterruptInv, TickInv, ObserveInv, ReserveInv, RequestInv,
       GiveUpInv DEF LimiterNext
<1> QED
  BY <1>1, <1>2, PTL DEF LimiterSpec

LEMMA InvImplies == LimiterInv => LimiterTypeOK /\ CallsBounded /\ WaitBounded
<1> SUFFICES ASSUME LimiterInv PROVE LimiterTypeOK /\ CallsBounded /\ WaitBounded
  OBVIOUS
<1>1. LimiterTypeOK
  BY Zenon DEF LimiterInv, Numbers, LimiterTypeOK
<1>2. CASE window = "on"
  <2>1. spent + Weight(Due(0)) <= Allowed + 0
    BY <1>2 DEF LimiterInv, DueInv
  <2>2. spent <= Allowed
    BY <2>1, Facts
  <2> QED
    BY <1>1, <2>2 DEF LimiterInv, CallsBounded, Allowed
<1>3. CASE window # "on"
  BY <1>1, <1>3 DEF LimiterInv, DueInv, LimiterTypeOK, CallsBounded, Allowed
<1> QED
  BY <1>2, <1>3

\* Whatever the goroutines, the burst, the rate and the number of limiters, the
\* requests of a window are bounded.
THEOREM RequestsBounded == LimiterSpec => [](LimiterTypeOK /\ CallsBounded)
<1>1. LimiterInv => LimiterTypeOK /\ CallsBounded
  BY InvImplies
<1> QED
  BY <1>1, LimiterInvariance, PTL

\* No goroutine waits longer than for one token of each.
THEOREM WaitsBounded == LimiterSpec => []WaitBounded
<1>1. LimiterInv => WaitBounded
  BY InvImplies
<1> QED
  BY <1>1, LimiterInvariance, PTL

-----------------------------------------------------------------------------
(* The pool.                                                                *)

USE SizeAssumption, WorkerAssumption DEF Objects, Outcomes, Contract!Outcomes

\* Busy workers have different objects, already handed over and without result;
\* an object handed over without result is somebody's job.
JobInv ==
    /\ \A w \in Workers : Busy(w) => /\ job[w] \in 1..N /\ job[w] < next
                                     /\ results[job[w]] = "none"
    /\ \A v, w \in Workers : Busy(v) /\ Busy(w) /\ job[v] = job[w] => v = w
    /\ \A o \in Objects : results[o] = "none" =>
           o >= next \/ \E w \in Workers : Busy(w) /\ job[w] = o
    /\ \A o \in Objects : o >= next => results[o] = "none"

\* onResult runs under the mutex, on a result of scanOne.
MutexInv ==
    /\ \A w \in Workers : (pc[w] \in {"callback", "update"}) <=> (holder = w)
    /\ \A w \in Workers : pc[w] = "update" => seen[w] = processed
    /\ \A w \in Workers : pc[w] \in {"lock", "callback", "update"} => res[w] \in Outcomes
    /\ \A w \in Workers : res[w] = "canceled" => cancelled

\* Why the feeder stopped, and who may have left.
FeederInv ==
    /\ feeder = "feeding" => ~feedErr
    /\ feeder # "feeding" => (IF feedErr THEN cancelled ELSE next = N + 1)
    /\ \A w \in Workers : pc[w] = "exited" => feeder # "feeding"
    /\ feeder = "returned" => \A w \in Workers : pc[w] = "exited"

IInv == TypeOK /\ JobInv /\ MutexInv /\ FeederInv /\ CounterExact

LEMMA InitIInv == Init => IInv
<1> SUFFICES ASSUME Init PROVE IInv
  OBVIOUS
<1>1. TypeOK
  <2>1. feedErr \in BOOLEAN /\ cancelled \in BOOLEAN
    BY DEF Init
  <2>2. feeder \in {"feeding", "closed", "returned"} /\ next \in 1..(N + 1)
    BY DEF Init
  <2>3. /\ pc \in [Workers -> {"idle", "open", "read", "detect", "lock", "callback",
                               "update", "exited"}]
        /\ job \in [Workers -> 0..N] /\ res \in [Workers -> Outcomes \cup {"none"}]
        /\ holder \in Workers \cup {NoWorker}
    BY DEF Init
  <2>4. /\ seen \in [Workers -> Nat] /\ processed \in Nat
        /\ results \in [Objects -> Outcomes \cup {"none"}]
    BY DEF Init
  <2> QED BY <2>1, <2>2, <2>3, <2>4 DEF TypeOK
<1>2. JobInv
  BY DEF Init, JobInv, Busy
<1>3. MutexInv
  BY DEF Init, MutexInv
<1>4. FeederInv
  BY DEF Init, FeederInv
<1>5. CounterExact
  <2>1. {o \in Objects : results[o] # "none"} = {}
    BY DEF Init
  <2> QED BY <2>1, FS_EmptySet DEF Init, CounterExact
<1> QED BY <1>1, <1>2, <1>3, <1>4, <1>5 DEF IInv

LEMMA StepType == IInv /\ [Next]_vars => TypeOK'
<1> SUFFICES ASSUME IInv, [Next]_vars PROVE TypeOK'
  OBVIOUS
<1> USE DEF IInv, TypeOK
<1>1. ASSUME NEW w \in Workers, Handoff(w) PROVE TypeOK'
  BY <1>1 DEF Handoff, Goto
<1>2. CASE StopFeeding
  BY <1>2 DEF StopFeeding, worker
<1>3. CASE CloseJobs
  BY <1>3 DEF CloseJobs, worker
<1>4. CASE Return
  BY <1>4 DEF Return, worker
<1>5. ASSUME NEW w \in Workers, Exit(w) PROVE TypeOK'
  BY <1>5 DEF Exit, Goto
<1>6. ASSUME NEW w \in Workers, Open(w) PROVE TypeOK'
  BY <1>6 DEF Open, Goto, Finish
<1>7. ASSUME NEW w \in Workers, Read(w) PROVE TypeOK'
  BY <1>7 DEF Read, Goto, Finish
<1>8. ASSUME NEW w \in Workers, Detect(w) PROVE TypeOK'
  BY <1>8 DEF Detect, Goto, Finish
<1>9. ASSUME NEW w \in Workers, Lock(w) PROVE TypeOK'
  BY <1>9 DEF Lock, Goto
<1>10. ASSUME NEW w \in Workers, Callback(w) PROVE TypeOK'
  BY <1>10 DEF Callback, Goto
<1>11. ASSUME NEW w \in Workers, Unlock(w) PROVE TypeOK'
  <2>1. res[w] \in Outcomes
    BY <1>11 DEF Unlock, MutexInv
  <2>2. results' \in [Objects -> Outcomes \cup {"none"}]
    BY <1>11, <2>1 DEF Unlock
  <2>3. processed' \in Nat /\ seen' \in [Workers -> Nat]
    BY <1>11 DEF Unlock
  <2>4. job' \in [Workers -> 0..N] /\ res' \in [Workers -> Outcomes \cup {"none"}]
    BY <1>11 DEF Unlock
  <2>5. pc' \in [Workers -> {"idle", "open", "read", "detect", "lock", "callback",
                            "update", "exited"}]
    BY <1>11 DEF Unlock, Goto
  <2>6. UNCHANGED <<feeder, next, feedErr, cancelled>> /\ holder' = NoWorker
    BY <1>11 DEF Unlock
  <2> QED BY <2>2, <2>3, <2>4, <2>5, <2>6
<1>12. CASE Cancel
  BY <1>12 DEF Cancel, worker
<1>13. CASE UNCHANGED vars
  BY <1>13 DEF vars
<1> QED BY <1>1, <1>2, <1>3, <1>4, <1>5, <1>6, <1>7, <1>8, <1>9, <1>10, <1>11,
           <1>12, <1>13 DEF Next, Feeder, Worker, Terminated

\* scanOne's steps change nothing but the worker's place and its result.
LEMMA ScanOneStep ==
    ASSUME NEW w \in Workers, Open(w) \/ Read(w) \/ Detect(w)
    PROVE  /\ pc[w] \in {"open", "read", "detect"}
           /\ \/ \E l \in {"read", "detect"} : pc' = [pc EXCEPT ![w] = l] /\ res' = res
              \/ /\ pc' = [pc EXCEPT ![w] = "lock"]
                 /\ \E r \in Outcomes : /\ r = "canceled" => cancelled
                                        /\ res' = [res EXCEPT ![w] = r]
           /\ UNCHANGED <<feeder, next, feedErr, job, holder, seen, processed, results,
                          cancelled>>
<1>1. CASE Open(w)
  BY <1>1 DEF Open, Goto, Finish
<1>2. CASE Read(w)
  BY <1>2 DEF Read, Goto, Finish
<1>3. CASE Detect(w)
  BY <1>3 DEF Detect, Goto, Finish
<1> QED BY <1>1, <1>2, <1>3

\* The moves of a worker between two calls of onResult keep its job.
LEMMA StepJob == IInv /\ [Next]_vars => JobInv'
<1> SUFFICES ASSUME IInv, [Next]_vars PROVE JobInv'
  OBVIOUS
<1> USE DEF IInv, TypeOK, JobInv, Busy
<1>1. ASSUME NEW w \in Workers, Handoff(w) PROVE JobInv'
  <2>1. /\ pc' = [pc EXCEPT ![w] = "open"] /\ job' = [job EXCEPT ![w] = next]
        /\ next' = next + 1 /\ results' = results /\ next \in 1..N /\ pc[w] = "idle"
    BY <1>1 DEF Handoff, Goto
  <2>2. \A v \in Workers : Busy(v)' => /\ job'[v] \in 1..N /\ job'[v] < next'
                                      /\ results'[job'[v]] = "none"
    BY <2>1
  <2>3. \A v, u \in Workers : Busy(v)' /\ Busy(u)' /\ job'[v] = job'[u] => v = u
    BY <2>1
  <2>4. ASSUME NEW o \in Objects, results'[o] = "none", ~(o >= next')
        PROVE  \E v \in Workers : Busy(v)' /\ job'[v] = o
    <3>1. CASE o = next
      BY <2>1, <3>1
    <3>2. CASE o < next
      <4>1. PICK v \in Workers : Busy(v) /\ job[v] = o
        BY <2>1, <2>4, <3>2
      <4>2. v # w
        BY <2>1, <4>1
      <4> QED BY <2>1, <4>1, <4>2
    <3> QED BY <2>1, <2>4, <3>1, <3>2
  <2>5. \A o \in Objects : o >= next' => results'[o] = "none"
    BY <2>1
  <2> QED BY <2>2, <2>3, <2>4, <2>5
<1>2. ASSUME UNCHANGED <<pc, job, next, results>> PROVE JobInv'
  BY <1>2
<1>3. ASSUME NEW w \in Workers, NEW l, pc' = [pc EXCEPT ![w] = l], Busy(w),
             l \in {"read", "detect", "lock", "callback", "update"},
             UNCHANGED <<job, next, results>>
      PROVE  JobInv'
  <2>1. \A v \in Workers : Busy(v)' <=> Busy(v)
    BY <1>3
  <2> QED BY <1>3, <2>1
<1>4. ASSUME NEW w \in Workers, Exit(w) PROVE JobInv'
  <2>1. \A v \in Workers : Busy(v)' <=> Busy(v)
    BY <1>4 DEF Exit, Goto
  <2> QED BY <1>4, <2>1 DEF Exit
<1>5. ASSUME NEW w \in Workers, Unlock(w) PROVE JobInv'
  <2>1. /\ pc' = [pc EXCEPT ![w] = "idle"] /\ job' = [job EXCEPT ![w] = 0]
        /\ results' = [results EXCEPT ![job[w]] = res[w]] /\ next' = next
        /\ Busy(w) /\ res[w] # "none"
    BY <1>5 DEF Unlock, Goto, MutexInv
  <2>2. \A v \in Workers : Busy(v)' <=> v # w /\ Busy(v)
    BY <2>1
  <2>3. \A o \in Objects : results'[o] = "none" <=> o # job[w] /\ results[o] = "none"
    BY <2>1
  <2>4. \A v \in Workers : Busy(v)' => /\ job'[v] \in 1..N /\ job'[v] < next'
                                      /\ results'[job'[v]] = "none"
    BY <2>1, <2>2, <2>3
  <2>5. \A v, u \in Workers : Busy(v)' /\ Busy(u)' /\ job'[v] = job'[u] => v = u
    BY <2>1, <2>2
  <2>6. ASSUME NEW o \in Objects, results'[o] = "none", ~(o >= next')
        PROVE  \E v \in Workers : Busy(v)' /\ job'[v] = o
    <3>1. PICK v \in Workers : Busy(v) /\ job[v] = o
      BY <2>1, <2>3, <2>6
    <3>2. v # w
      BY <2>3, <2>6, <3>1
    <3> QED BY <2>1, <2>2, <3>1, <3>2
  <2>7. \A o \in Objects : o >= next' => results'[o] = "none"
    BY <2>1, <2>3
  <2> QED BY <2>4, <2>5, <2>6, <2>7
<1>6. CASE \E w \in Workers : Open(w) \/ Read(w) \/ Detect(w) \/ Lock(w) \/ Callback(w)
  <2>1. ASSUME NEW w \in Workers, Open(w) \/ Read(w) \/ Detect(w) PROVE JobInv'
    <3>1. PICK l \in {"read", "detect", "lock"} : pc' = [pc EXCEPT ![w] = l]
      BY <2>1, ScanOneStep
    <3> QED BY <1>3, <2>1, <3>1, ScanOneStep
  <2>2. ASSUME NEW w \in Workers, Lock(w) \/ Callback(w) PROVE JobInv'
    BY <1>3, <2>2 DEF Lock, Callback, Goto
  <2> QED BY <1>6, <2>1, <2>2
<1>7. CASE StopFeeding \/ CloseJobs \/ Return \/ Cancel \/ UNCHANGED vars
  BY <1>2, <1>7 DEF StopFeeding, CloseJobs, Return, Cancel, worker, vars
<1> QED BY <1>1, <1>4, <1>5, <1>6, <1>7 DEF Next, Feeder, Worker, Terminated

LEMMA StepMutex == IInv /\ [Next]_vars => MutexInv'
<1> SUFFICES ASSUME IInv, [Next]_vars PROVE MutexInv'
  OBVIOUS
<1> USE DEF IInv, TypeOK, MutexInv
<1>1. ASSUME NEW w \in Workers, Handoff(w) PROVE MutexInv'
  BY <1>1 DEF Handoff, Goto
<1>2. ASSUME NEW w \in Workers, Exit(w) PROVE MutexInv'
  BY <1>2 DEF Exit, Goto
<1>3. ASSUME NEW w \in Workers, Open(w) \/ Read(w) \/ Detect(w) PROVE MutexInv'
  <2>1. CASE \E l \in {"read", "detect"} : pc' = [pc EXCEPT ![w] = l] /\ res' = res
    <3>1. PICK l \in {"read", "detect"} : pc' = [pc EXCEPT ![w] = l] /\ res' = res
      BY <2>1
    <3>2. pc[w] \in {"open", "read", "detect"} /\ UNCHANGED <<holder, seen, processed, cancelled>>
      BY <1>3, ScanOneStep
    <3>3. pc'[w] = l /\ \A v \in Workers : v # w => pc'[v] = pc[v]
      BY <3>1
    <3> QED BY <3>1, <3>2, <3>3
  <2>2. CASE /\ pc' = [pc EXCEPT ![w] = "lock"]
             /\ \E r \in Outcomes : /\ r = "canceled" => cancelled
                                    /\ res' = [res EXCEPT ![w] = r]
    <3>1. pc[w] \in {"open", "read", "detect"} /\ UNCHANGED <<holder, seen, processed, cancelled>>
      BY <1>3, ScanOneStep
    <3>2. /\ res'[w] \in Outcomes /\ (res'[w] = "canceled" => cancelled)
          /\ \A v \in Workers : v # w => res'[v] = res[v]
      BY <2>2
    <3>3. pc'[w] = "lock" /\ \A v \in Workers : v # w => pc'[v] = pc[v]
      BY <2>2
    <3> QED BY <3>1, <3>2, <3>3
  <2> QED BY <1>3, <2>1, <2>2, ScanOneStep
<1>4. ASSUME NEW w \in Workers, Lock(w) PROVE MutexInv'
  BY <1>4 DEF Lock, Goto
<1>5. ASSUME NEW w \in Workers, Callback(w) PROVE MutexInv'
  BY <1>5 DEF Callback, Goto
<1>6. ASSUME NEW w \in Workers, Unlock(w) PROVE MutexInv'
  <2>1. holder = w
    BY <1>6 DEF Unlock
  <2>2. \A v \in Workers : v # w => pc[v] \notin {"callback", "update"}
    BY <2>1
  <2> QED BY <1>6, <2>1, <2>2 DEF Unlock, Goto
<1>7. CASE StopFeeding \/ CloseJobs \/ Return \/ Cancel \/ UNCHANGED vars
  BY <1>7 DEF StopFeeding, CloseJobs, Return, Cancel, worker, vars
<1> QED BY <1>1, <1>2, <1>3, <1>4, <1>5, <1>6, <1>7
        DEF Next, Feeder, Worker, Terminated

LEMMA StepFeeder == IInv /\ [Next]_vars => FeederInv'
<1> SUFFICES ASSUME IInv, [Next]_vars PROVE FeederInv'
  OBVIOUS
<1> USE DEF IInv, TypeOK, FeederInv
<1>1. ASSUME NEW w \in Workers, Handoff(w) PROVE FeederInv'
  BY <1>1 DEF Handoff, Goto
<1>2. CASE StopFeeding
  BY <1>2 DEF StopFeeding, worker
<1>3. CASE CloseJobs
  BY <1>3 DEF CloseJobs, worker
<1>4. CASE Return
  BY <1>4 DEF Return, worker
<1>5. ASSUME NEW w \in Workers, NEW l, pc[w] # "exited", pc' = [pc EXCEPT ![w] = l],
             l = "exited" => feeder # "feeding",
             UNCHANGED <<feeder, next, feedErr, cancelled>>
      PROVE  FeederInv'
  BY <1>5
<1>6. CASE \E w \in Workers : Worker(w)
  <2>1. ASSUME NEW w \in Workers, Open(w) \/ Read(w) \/ Detect(w) PROVE FeederInv'
    <3>1. PICK l \in {"read", "detect", "lock"} : pc' = [pc EXCEPT ![w] = l]
      BY <2>1, ScanOneStep
    <3> QED BY <1>5, <2>1, <3>1, ScanOneStep
  <2>2. ASSUME NEW w \in Workers, Lock(w) \/ Callback(w) \/ Unlock(w) PROVE FeederInv'
    BY <1>5, <2>2 DEF Lock, Callback, Unlock, Goto
  <2>3. ASSUME NEW w \in Workers, Exit(w) PROVE FeederInv'
    BY <2>3 DEF Exit, Goto
  <2> QED BY <1>6, <2>1, <2>2, <2>3 DEF Worker
<1>7. CASE Cancel
  BY <1>7 DEF Cancel, worker
<1>8. CASE UNCHANGED vars
  BY <1>8 DEF vars
<1> QED BY <1>1, <1>2, <1>3, <1>4, <1>6, <1>7, <1>8 DEF Next, Feeder, Terminated

LEMMA StepCounter == IInv /\ [Next]_vars => CounterExact'
<1> SUFFICES ASSUME IInv, [Next]_vars PROVE CounterExact'
  OBVIOUS
<1> DEFINE Given == {o \in Objects : results[o] # "none"}
<1>1. ASSUME NEW w \in Workers, Unlock(w) PROVE CounterExact'
  <2>1. /\ job[w] \in Objects /\ job[w] \notin Given
        /\ res[w] \in Outcomes /\ seen[w] = processed
    BY <1>1 DEF Unlock, IInv, JobInv, MutexInv, Busy
  <2>2. Given' = Given \cup {job[w]}
    BY <1>1, <2>1 DEF Unlock, IInv, TypeOK
  <2>3. IsFiniteSet(Given)
    <3>1. IsFiniteSet(1..N)
      BY FS_Interval
    <3> QED BY <3>1, FS_Subset
  <2>4. Cardinality(Given') = Cardinality(Given) + 1
    BY <2>1, <2>2, <2>3, FS_AddElement
  <2>5. processed' = processed + 1
    BY <1>1, <2>1 DEF Unlock
  <2> QED BY <2>4, <2>5 DEF IInv, CounterExact
<1>2. CASE UNCHANGED <<results, processed>>
  BY <1>2 DEF IInv, CounterExact
<1>3. CASE \E w \in Workers : Handoff(w) \/ Exit(w) \/ Open(w) \/ Read(w) \/ Detect(w)
                             \/ Lock(w) \/ Callback(w)
  BY <1>2, <1>3, ScanOneStep DEF Handoff, Exit, Lock, Callback
<1>4. CASE StopFeeding \/ CloseJobs \/ Return \/ Cancel \/ UNCHANGED vars
  BY <1>2, <1>4 DEF StopFeeding, CloseJobs, Return, Cancel, worker, vars
<1> QED BY <1>1, <1>3, <1>4 DEF Next, Feeder, Worker, Terminated

THEOREM Invariance == Spec => []IInv
<1>1. IInv /\ [Next]_vars => IInv'
  BY StepType, StepJob, StepMutex, StepFeeder, StepCounter DEF IInv
<1> QED BY <1>1, InitIInv, PTL DEF Spec

\* For any number of workers no object is lost or done twice on its way through
\* the channel, scanOne and the callback, and no increment of the caller's
\* plain counter is lost.
THEOREM PoolAccounts == Spec => []Accounted
<1>1. IInv => Accounted
  <2> SUFFICES ASSUME IInv, NEW o \in Objects
               PROVE  LET holders == {w \in Workers : Busy(w) /\ job[w] = o}
                      IN  /\ o < next =>
                               \/ results[o] # "none" /\ holders = {}
                               \/ results[o] = "none" /\ \E w \in Workers : holders = {w}
                          /\ o >= next => results[o] = "none" /\ holders = {}
    BY DEF Accounted, IInv
  <2> DEFINE holders == {w \in Workers : Busy(w) /\ job[w] = o}
  <2>1. CASE results[o] # "none"
    BY <2>1 DEF IInv, JobInv, TypeOK
  <2>2. CASE results[o] = "none" /\ o < next
    <3>1. PICK w \in Workers : Busy(w) /\ job[w] = o
      BY <2>2 DEF IInv, JobInv, TypeOK
    <3>2. holders = {w}
      BY <3>1 DEF IInv, JobInv
    <3> QED BY <2>2, <3>1, <3>2 DEF IInv, TypeOK
  <2>3. CASE results[o] = "none" /\ o >= next
    BY <2>3 DEF IInv, JobInv, TypeOK
  <2> QED BY <2>1, <2>2, <2>3 DEF IInv, TypeOK
<1> QED BY <1>1, Invariance, PTL

\* No update of the caller's counter is lost, though the callback takes no lock.
THEOREM CounterKept == Spec => []CounterExact
<1>1. IInv => CounterExact
  BY DEF IInv
<1> QED BY <1>1, Invariance, PTL

\* When Scan returns nil, every object has had its result.
THEOREM NilIsDrained == Spec => []NilMeansDrained
<1>1. IInv => NilMeansDrained
  <2> SUFFICES ASSUME IInv, feeder = "returned"
               PROVE  IF feedErr THEN cancelled ELSE \A o \in Objects : results[o] # "none"
    BY DEF NilMeansDrained
  <2>1. \A w \in Workers : ~Busy(w)
    BY DEF IInv, FeederInv, Busy
  <2>2. CASE feedErr
    BY <2>2 DEF IInv, FeederInv
  <2>3. CASE ~feedErr
    BY <2>1, <2>3 DEF IInv, FeederInv, JobInv, TypeOK
  <2> QED BY <2>2, <2>3
<1> QED BY <1>1, Invariance, PTL

\* Every run of the pool is a run of the contract (its safety part): one result
\* for each object, one at a time, none after Scan returned.
THEOREM PoolKeepsContract == Spec => Contract!SafeSpec
<1>1. Init => Contract!Init
  BY DEF Init, Contract!Init
<1>2. IInv /\ [Next]_vars =>
          [Contract!Next]_<<results, cancelled, feeder = "returned">>
  <2> SUFFICES ASSUME IInv, [Next]_vars
               PROVE  Contract!Next \/ UNCHANGED <<results, cancelled, feeder = "returned">>
    OBVIOUS
  <2>1. ASSUME NEW w \in Workers, Unlock(w) PROVE Contract!Next
    <3>1. job[w] \in Objects /\ results[job[w]] = "none" /\ feeder # "returned"
      BY <2>1 DEF Unlock, IInv, JobInv, FeederInv, Busy
    <3>2. res[w] \in Outcomes /\ (res[w] = "canceled" => cancelled)
      BY <2>1 DEF Unlock, IInv, MutexInv
    <3>3. Contract!Deliver(job[w], res[w])
      BY <2>1, <3>1, <3>2 DEF Unlock, Contract!Deliver
    <3> QED BY <3>1, <3>2, <3>3 DEF Contract!Next
  <2>2. CASE Cancel
    BY <2>2 DEF Cancel, worker, Contract!Cancel, Contract!Next
  <2>3. CASE Return
    <3>1. \A w \in Workers : ~Busy(w)
      BY <2>3 DEF Return, Busy
    <3>2. cancelled \/ \A o \in Objects : results[o] # "none"
      BY <2>3, <3>1 DEF Return, IInv, FeederInv, JobInv, TypeOK
    <3> QED BY <2>3, <3>2 DEF Return, worker, Contract!Return, Contract!Next
  <2>4. CASE UNCHANGED <<results, cancelled>> /\ feeder # "returned" /\ feeder' # "returned"
    BY <2>4
  <2>5. CASE StopFeeding \/ CloseJobs
    BY <2>4, <2>5 DEF StopFeeding, CloseJobs, worker
  <2>6. CASE \E w \in Workers : Handoff(w) \/ Exit(w)
    BY <2>4, <2>6 DEF Handoff, Exit
  <2>7. CASE \E w \in Workers : Open(w) \/ Read(w) \/ Detect(w) \/ Lock(w) \/ Callback(w)
    <3>1. PICK w \in Workers : Open(w) \/ Read(w) \/ Detect(w) \/ Lock(w) \/ Callback(w)
      BY <2>7
    <3>2. pc[w] # "exited" /\ UNCHANGED <<results, cancelled, feeder>>
      BY <3>1, ScanOneStep DEF Lock, Callback
    <3>3. feeder # "returned"
      BY <3>2 DEF IInv, FeederInv
    <3> QED BY <2>4, <3>2, <3>3
  <2>8. CASE UNCHANGED vars
    BY <2>8 DEF vars
  <2> QED BY <2>1, <2>2, <2>3, <2>5, <2>6, <2>7, <2>8 DEF Next, Feeder, Worker, Terminated
<1> QED BY <1>1, <1>2, Invariance, PTL DEF Spec, Contract!SafeSpec

=============================================================================
