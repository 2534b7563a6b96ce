---------------------------- MODULE ClickLemmas ----------------------------
(***************************************************************************)
(* Facts about sixteen-bit words and Click vectors that the proofs of      *)
(* several components use.                                                 *)
(***************************************************************************)
EXTENDS ByteOrder, ClickVector, FiniteSetTheorems, TLAPS

-----------------------------------------------------------------------------
\* The two digits of a word, and the words two digits make.
LEMMA Digits ==
  \A w \in Word : w % Byte \in 0 .. (Byte - 1) /\ w \div Byte \in 0 .. (Byte - 1)
<1> TAKE w \in Word
<1>1. w \in Nat /\ Byte \in Nat /\ Byte > 1 /\ w < Byte * Byte
  BY ByteAssumption DEF Word
<1>2. w % Byte \in 0 .. (Byte - 1) /\ w = Byte * (w \div Byte) + (w % Byte) /\ w \div Byte \in Int
  BY <1>1
<1> DEFINE d == w \div Byte
           r == w % Byte
<1>3. d \in Int /\ r \in Int /\ 0 <= r /\ r < Byte /\ Byte * d + r >= 0 /\ Byte * d + r < Byte * Byte
  BY <1>1, <1>2
<1> HIDE DEF d, r
<1>4. d >= 0
  <2>1. ASSUME d <= -1 PROVE FALSE
    <3>1. Byte * d <= Byte * (-1)
      BY <1>1, <1>3, <2>1
    <3> QED
      BY <1>1, <1>3, <3>1
  <2> QED
    BY <1>3, <2>1
<1>5. d < Byte
  <2>1. ASSUME d >= Byte PROVE FALSE
    <3>1. Byte * d >= Byte * Byte
      BY <1>1, <1>3, <2>1
    <3> QED
      BY <1>1, <1>3, <3>1
  <2> QED
    BY <1>1, <1>3, <2>1
<1> QED
  BY <1>1, <1>2, <1>3, <1>4, <1>5 DEF d

\* htons and ntohs turn words into words.
LEMMA SwapType == \A w \in Word : htons(w) \in Word /\ ntohs(w) \in Word
<1> TAKE w \in Word
<1> DEFINE d == w \div Byte
           r == w % Byte
<1>1. Byte \in Nat /\ d \in 0 .. (Byte - 1) /\ r \in 0 .. (Byte - 1)
  BY Digits, ByteAssumption
<1>2. htons(w) = r * Byte + d
  BY DEF htons
<1> HIDE DEF d, r
<1>3. r * Byte >= 0 /\ r * Byte <= (Byte - 1) * Byte
  BY <1>1
<1>4. (Byte - 1) * Byte = Byte * Byte - Byte
  BY <1>1
<1>5. r * Byte \in Int /\ Byte * Byte \in Int
  BY <1>1
<1>6. r * Byte + d \in 0 .. (Byte * Byte - 1)
  BY <1>1, <1>3, <1>4, <1>5
<1> QED
  BY <1>2, <1>6 DEF Word, ntohs

\* Two digits are the digits of the number they make.
LEMMA DigitsUnique ==
  ASSUME NEW d \in 0 .. (Byte - 1), NEW r \in 0 .. (Byte - 1)
  PROVE  (r * Byte + d) % Byte = d /\ (r * Byte + d) \div Byte = r
<1>1. /\ Byte \in Nat /\ Byte > 1 /\ d \in Nat /\ r \in Nat /\ d < Byte
  BY ByteAssumption
<1>2. PICK w \in Int : w = r * Byte + d
  BY <1>1
<1>3. PICK m \in Int : m = w % Byte
  BY <1>1
<1>4. PICK q \in Int : q = w \div Byte
  BY <1>1
<1>5. 0 <= m /\ m < Byte /\ w = Byte * q + m
  BY <1>1, <1>3, <1>4
<1>6. PICK k \in Int : k = q - r
  OBVIOUS
<1>7. Byte * k = d - m
  BY <1>1, <1>2, <1>5, <1>6
<1>8. k = 0
  <2>1. ASSUME k >= 1 PROVE FALSE
    <3>1. Byte * k >= Byte
      BY <1>1, <2>1
    <3> QED
      BY <1>1, <1>5, <1>7, <3>1
  <2>2. ASSUME k <= -1 PROVE FALSE
    <3>1. Byte * k <= Byte * (-1)
      BY <1>1, <2>2
    <3> QED
      BY <1>1, <1>5, <1>7, <3>1
  <2> QED
    BY <2>1, <2>2
<1>9. d = m
  BY <1>1, <1>7, <1>8
<1> QED
  BY <1>2, <1>3, <1>4, <1>6, <1>8, <1>9

\* ntohs undoes htons.
LEMMA SwapTwice == \A w \in Word : ntohs(htons(w)) = w
<1> TAKE w \in Word
<1>1. Byte \in Nat /\ Byte > 1 /\ w \in Nat
  BY ByteAssumption DEF Word
<1>2. PICK d \in 0 .. (Byte - 1), r \in 0 .. (Byte - 1) : d = w \div Byte /\ r = w % Byte
  BY Digits
<1>3. w = Byte * d + r
  BY <1>1, <1>2
<1>4. htons(w) = r * Byte + d
  BY <1>2 DEF htons
<1>5. ntohs(htons(w)) = d * Byte + r
  BY <1>4, DigitsUnique DEF ntohs, htons
<1> QED
  BY <1>1, <1>3, <1>5

\* Sixteen-bit subtraction stays in sixteen bits.
LEMMA MinusWord == \A w, x \in Word : Minus(w, x) \in Word
<1> TAKE w, x \in Word
<1>1. w \in Int /\ x \in Int
  BY DEF Word
<1>2. Byte * Byte \in Nat /\ Byte * Byte > 0
  BY ByteAssumption
<1> DEFINE b == Byte * Byte
<1> HIDE DEF b
<1>3. b \in Nat /\ b > 0
  BY <1>2 DEF b
<1>4. (w - x) % b \in 0 .. (b - 1)
  BY <1>1, <1>3
<1> QED
  BY <1>4 DEF Minus, Word, b

\* A word less one, as the timers compute it.
LEMMA MinusType == \A w \in Word : Minus(w, 1) \in Word
<1>1. 1 \in Word
  <2>1. Byte * Byte \in Nat /\ Byte * Byte >= 2
    BY ByteAssumption
  <2> QED
    BY <2>1 DEF Word
<1> QED
  BY <1>1, MinusWord

\* The word whose value is a digit.
LEMMA TruncateWord == \A w \in Word : Truncate(w) \in Word
<1> TAKE w \in Word
<1>1. w % Byte \in 0 .. (Byte - 1)
  BY Digits
<1>2. Byte \in Nat /\ Byte > 1 /\ Byte * Byte >= Byte /\ Byte * Byte \in Nat
  BY ByteAssumption
<1> QED
  BY <1>1, <1>2 DEF Truncate, Word

\* Zero is a word.
LEMMA ZeroWord == 0 \in Word
<1>1. Byte * Byte \in Nat /\ Byte * Byte > 0
  BY ByteAssumption
<1> QED
  BY <1>1 DEF Word

-----------------------------------------------------------------------------
\* The positions a loop keeps can be counted.
LEMMA KeptCount ==
  ASSUME NEW S, NEW v \in Seq(S), NEW K \in SUBSET (1 .. Len(v))
  PROVE  Cardinality(K) \in Nat
<1>1. Len(v) \in Int /\ 1 \in Int
  OBVIOUS
<1>2. IsFiniteSet(1 .. Len(v))
  BY <1>1, FS_Interval
<1>3. IsFiniteSet(K)
  BY <1>2, FS_Subset
<1> QED
  BY <1>3, FS_CardinalityType

\* Erasing while walking keeps the type of a vector.
LEMMA KeptType ==
  ASSUME NEW S, NEW v \in Seq(S), NEW K \in SUBSET (1 .. Len(v)), NEW x \in Kept(v, K)
  PROVE  x \in Seq(S)
<1>1. Cardinality(K) \in Nat
  BY KeptCount
<1>2. PICK f \in Enumeration(K) : x = [j \in 1 .. Cardinality(K) |-> v[f[j]]]
  BY DEF Kept
<1>3. ASSUME NEW j \in 1 .. Cardinality(K) PROVE v[f[j]] \in S
  <2>1. f[j] \in 1 .. Len(v)
    BY <1>2 DEF Enumeration
  <2> QED
    BY <2>1
<1> QED
  BY <1>1, <1>2, <1>3

\* f tells from where in v each element of x comes.
Selects(f, x, v, K) ==
  /\ f \in [1 .. Len(x) -> 1 .. Len(v)]
  /\ \A j \in 1 .. Len(x) : x[j] = v[f[j]] /\ f[j] \in K
  /\ \A i, j \in 1 .. Len(x) : i # j => f[i] # f[j]

\* Different positions of what is kept were different positions before.
LEMMA KeptPositions ==
  ASSUME NEW S, NEW v \in Seq(S), NEW K \in SUBSET (1 .. Len(v)), NEW x \in Kept(v, K)
  PROVE  \E f : Selects(f, x, v, K)
<1>1. Cardinality(K) \in Nat
  BY KeptCount
<1>2. PICK f \in Enumeration(K) : x = [j \in 1 .. Cardinality(K) |-> v[f[j]]]
  BY DEF Kept
<1>3. Len(x) = Cardinality(K)
  BY <1>1, <1>2
<1>4. f \in [1 .. Len(x) -> 1 .. Len(v)]
  BY <1>2, <1>3 DEF Enumeration
<1>5. \A j \in 1 .. Len(x) : x[j] = v[f[j]] /\ f[j] \in K
  BY <1>2, <1>3 DEF Enumeration
<1>6. \A i, j \in 1 .. Len(x) : i # j => f[i] # f[j]
  BY <1>1, <1>2, <1>3, <1>4 DEF Enumeration
<1> QED
  BY <1>4, <1>5, <1>6 DEF Selects

\* Every position that is kept is one that something comes from.
LEMMA KeptSurjection ==
  ASSUME NEW S, NEW v \in Seq(S), NEW K \in SUBSET (1 .. Len(v)), NEW x \in Kept(v, K)
  PROVE  \E f : Selects(f, x, v, K) /\ \A k \in K : \E j \in 1 .. Len(x) : f[j] = k
<1>1. Cardinality(K) \in Nat /\ Len(v) \in Int
  BY KeptCount
<1>2. IsFiniteSet(K)
  <2>1. IsFiniteSet(1 .. Len(v))
    BY <1>1, FS_Interval
  <2> QED
    BY <2>1, FS_Subset
<1>3. PICK f : Selects(f, x, v, K)
  BY KeptPositions
<1>4. Len(x) = Cardinality(K)
  BY <1>1 DEF Kept
<1>5. f \in Injection(1 .. Cardinality(K), K)
  BY <1>3, <1>4 DEF Selects, Injection, IsInjective
<1>6. Cardinality(1 .. Cardinality(K)) = Cardinality(K)
  BY <1>1, FS_Interval
<1>7. f \in Surjection(1 .. Cardinality(K), K)
  BY <1>2, <1>5, <1>6, FS_Injection
<1> QED
  BY <1>3, <1>4, <1>7 DEF Surjection

\* Everything in a position that is kept is still there.
LEMMA KeptAll ==
  ASSUME NEW S, NEW v \in Seq(S), NEW K \in SUBSET (1 .. Len(v)), NEW x \in Kept(v, K),
         NEW k \in K
  PROVE  \E j \in 1 .. Len(x) : x[j] = v[k]
BY KeptSurjection DEF Selects

\* A loop that only erases leaves the vector no longer than it was.
LEMMA KeptShorter ==
  ASSUME NEW S, NEW v \in Seq(S), NEW K \in SUBSET (1 .. Len(v)), NEW x \in Kept(v, K)
  PROVE  Len(x) \in Nat /\ Len(x) <= Len(v)
<1>1. Len(v) \in Nat /\ Cardinality(K) \in Nat
  BY KeptCount
<1>2. IsFiniteSet(1 .. Len(v)) /\ Cardinality(1 .. Len(v)) = Len(v)
  <2>1. Len(v) \in Int /\ 1 \in Int
    BY <1>1
  <2>2. /\ IsFiniteSet(1 .. Len(v))
        /\ Cardinality(1 .. Len(v)) = IF 1 > Len(v) THEN 0 ELSE Len(v) - 1 + 1
    BY <2>1, FS_Interval
  <2> QED
    BY <1>1, <2>2
<1>3. Cardinality(K) <= Cardinality(1 .. Len(v))
  BY <1>2, FS_Subset
<1>4. PICK f \in Enumeration(K) : x = [j \in 1 .. Cardinality(K) |-> v[f[j]]]
  BY DEF Kept
<1>5. Len(x) = Cardinality(K)
  BY <1>1, <1>4
<1> QED
  BY <1>1, <1>2, <1>3, <1>5

\* Erasing one element keeps the type of a vector.
LEMMA EraseType ==
  ASSUME NEW S, NEW v \in Seq(S), NEW i \in Nat
  PROVE  erase(v, i) \in Seq(S)
  BY DEF erase

-----------------------------------------------------------------------------
\* The positions of vector v that hold an element of S.
Holding(v, S) == {i \in 1 .. Len(v) : v[i] \in S}

\* They can be counted.
LEMMA HoldingFinite ==
  ASSUME NEW T, NEW v \in Seq(T), NEW S
  PROVE  IsFiniteSet(Holding(v, S)) /\ Cardinality(Holding(v, S)) \in Nat
<1>1. Len(v) \in Int /\ 1 \in Int
  OBVIOUS
<1>2. IsFiniteSet(1 .. Len(v))
  BY <1>1, FS_Interval
<1>3. Holding(v, S) \in SUBSET (1 .. Len(v))
  BY DEF Holding
<1> QED
  BY <1>2, <1>3, FS_Subset, FS_CardinalityType

\* A loop that erases while it walks leaves as many elements of S as there
\* are in the positions that it keeps.
LEMMA KeptCounts ==
  ASSUME NEW T, NEW v \in Seq(T), NEW K \in SUBSET (1 .. Len(v)), NEW x \in Kept(v, K), NEW S
  PROVE  Cardinality(Holding(x, S)) = Cardinality(Holding(v, S) \cap K)
<1>1. PICK f : Selects(f, x, v, K) /\ \A k \in K : \E j \in 1 .. Len(x) : f[j] = k
  BY KeptSurjection
<1> DEFINE g == [j \in Holding(x, S) |-> f[j]]
<1>2. g \in [Holding(x, S) -> Holding(v, S) \cap K]
  BY <1>1 DEF Selects, Holding
<1>3. \A i, j \in Holding(x, S) : g[i] = g[j] => i = j
  BY <1>1 DEF Selects, Holding
<1>4. ASSUME NEW k \in Holding(v, S) \cap K PROVE \E j \in Holding(x, S) : g[j] = k
  <2>1. PICK j \in 1 .. Len(x) : f[j] = k
    BY <1>1
  <2>2. j \in Holding(x, S)
    BY <1>1, <2>1 DEF Selects, Holding
  <2> QED
    BY <2>1, <2>2
<1> HIDE DEF g
<1>5. g \in Bijection(Holding(x, S), Holding(v, S) \cap K)
  BY <1>2, <1>3, <1>4 DEF Bijection, Injection, IsInjective, Surjection
<1>6. ExistsBijection(Holding(x, S), Holding(v, S) \cap K)
  BY <1>5 DEF ExistsBijection
<1>7. x \in Seq(T)
  BY KeptType
<1>8. IsFiniteSet(Holding(x, S))
  BY <1>7, HoldingFinite
<1> QED
  BY <1>6, <1>8, FS_Bijection

\* Erasing one element leaves the others.
LEMMA EraseCounts ==
  ASSUME NEW T, NEW v \in Seq(T), NEW i \in 1 .. Len(v), NEW x, x = erase(v, i), NEW S
  PROVE  Cardinality(Holding(x, S)) = Cardinality(Holding(v, S) \ {i})
<1> DEFINE g == [j \in Holding(x, S) |-> IF j < i THEN j ELSE j + 1]
<1>1. /\ Len(v) \in Nat /\ Len(x) = Len(v) - 1 /\ i \in Nat
      /\ \A j \in 1 .. Len(x) : x[j] = IF j < i THEN v[j] ELSE v[j + 1]
  BY DEF erase
<1>2. ASSUME NEW j \in Holding(x, S)
      PROVE  g[j] \in Holding(v, S) \ {i}
  BY <1>1 DEF Holding
<1>3. g \in [Holding(x, S) -> Holding(v, S) \ {i}]
  BY <1>2
<1>4. \A j, k \in Holding(x, S) : g[j] = g[k] => j = k
  BY <1>1 DEF Holding
<1>5. ASSUME NEW k \in Holding(v, S) \ {i} PROVE \E j \in Holding(x, S) : g[j] = k
  <2>1. k \in 1 .. Len(v) /\ v[k] \in S /\ k # i
    BY DEF Holding
  <2>2. PICK j : j = IF k < i THEN k ELSE k - 1
    OBVIOUS
  <2>3. j \in Holding(x, S) /\ (IF j < i THEN j ELSE j + 1) = k
    BY <1>1, <2>1, <2>2 DEF Holding
  <2> QED
    BY <2>3
<1> HIDE DEF g
<1>6. g \in Bijection(Holding(x, S), Holding(v, S) \ {i})
  BY <1>3, <1>4, <1>5 DEF Bijection, Injection, IsInjective, Surjection
<1>7. ExistsBijection(Holding(x, S), Holding(v, S) \ {i})
  BY <1>6 DEF ExistsBijection
<1>8. x \in Seq(T)
  BY <1>1, EraseType
<1>9. IsFiniteSet(Holding(x, S))
  BY <1>8, HoldingFinite
<1> QED
  BY <1>7, <1>9, FS_Bijection
=============================================================================
