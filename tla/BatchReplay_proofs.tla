------------------------- MODULE BatchReplay_proofs -------------------------
(***************************************************************************)
(* Proofs about BatchReplay, for any dataset, window, sizes, executions    *)
(* and retries: type correctness, that objects of the sink never change,   *)
(* that no row is in two of them while the cron step divides the hour, and *)
(* that an execution that succeeds has replayed its files.                 *)
(***************************************************************************)
EXTENDS BatchReplay, FiniteSetTheorems, WellFoundedInduction, TLAPS

(***************************************************************************)
(* Arithmetic.                                                             *)
(***************************************************************************)

\* What SMT knows of division, stated once so that nothing else needs it.
LEMMA DivMod ==
    ASSUME NEW a \in Int, NEW b \in Nat \ {0}
    PROVE  /\ a \div b \in Int /\ a % b \in 0 .. b - 1
           /\ a = b * (a \div b) + (a % b)
OBVIOUS

\* A product grows with its first factor.
LEMMA ProductMonotone ==
    ASSUME NEW a \in Int, NEW b \in Int, NEW c \in Nat, a <= b
    PROVE  a * c <= b * c
OBVIOUS

\* Multiplication is distributive over addition, and commutative.
LEMMA Distributes ==
    ASSUME NEW a \in Int, NEW b \in Int, NEW c \in Int
    PROVE  a * (b + c) = a * b + a * c /\ (a + b) * c = a * c + b * c /\ a * b = b * a
OBVIOUS

\* What is positive after a division by n was so before.
LEMMA DivPositive ==
    ASSUME NEW a \in Nat, NEW b \in Nat \ {0}, b <= a
    PROVE  a \div b \in Nat \ {0}
PROOF
<1> DEFINE q == a \div b
<1>1. q \in Int /\ a % b < b /\ a % b \in Nat /\ a = b * q + (a % b)
  BY DivMod
<1>2. CASE q <= 0
  <2>1. q * b <= 0 * b
    BY <1>1, <1>2, ProductMonotone
  <2>2. q * b = b * q /\ 0 * b = 0
    BY <1>1, Distributes
  <2> QED BY <1>1, <2>1, <2>2
<1> QED BY <1>1, <1>2

\* A finite set of naturals that is not empty has a least element.
LEMMA LeastExists ==
    ASSUME NEW R \in SUBSET Nat, IsFiniteSet(R), R # {}
    PROVE  \E r \in R : \A s \in R : r <= s
PROOF
<1> DEFINE Below(r) == {s \in R : s < r}
           Belows == {Below(r) : r \in R}
<1>1. Belows \subseteq FiniteSubsetsOf(R) /\ Belows # {}
  <2>1. \A r \in R : Below(r) \subseteq R /\ IsFiniteSet(Below(r))
    <3> SUFFICES ASSUME NEW r \in R PROVE Below(r) \subseteq R /\ IsFiniteSet(Below(r))
      OBVIOUS
    <3>1. Below(r) \subseteq R
      OBVIOUS
    <3> HIDE DEF Below
    <3> QED BY <3>1, FS_Subset
  <2> HIDE DEF Below
  <2> QED BY <2>1 DEF FiniteSubsetsOf
<1>2. \E n \in Belows : \A m \in Belows : ~(<<m, n>> \in StrictSubsetOrdering(R))
  <2> HIDE DEF Belows
  <2> QED BY <1>1, FS_StrictSubsetOrderingWellFounded, WFMin
<1>3. PICK r \in R : \A m \in Belows : ~(<<m, Below(r)>> \in StrictSubsetOrdering(R))
  BY <1>2
<1>4. ASSUME NEW s \in R, ~(r <= s)
      PROVE  FALSE
  <2>1. s \in Below(r) /\ s \notin Below(s) /\ Below(s) \subseteq Below(r)
    <3>1. r \in Nat /\ s \in Nat /\ s < r /\ ~(s < s)
      BY <1>4
    <3>2. \A q \in R : q < s => q < r
      BY <3>1
    <3> QED BY <3>1, <3>2
  <2>2. Below(s) \in Belows
    OBVIOUS
  <2>3. <<Below(s), Below(r)>> \in StrictSubsetOrdering(R)
    <3>1. Below(s) \subseteq R /\ Below(r) \subseteq R
      OBVIOUS
    <3> HIDE DEF Below
    <3> QED BY <2>1, <3>1 DEF StrictSubsetOrdering
  <2> QED BY <2>2, <2>3, <1>3
<1> QED BY <1>3, <1>4

(***************************************************************************)
(* The manifest: files of one window have indexes of their own.            *)
(***************************************************************************)

\* A file that is listed has a natural index.
LEMMA IndexIsNatural ==
    ASSUME NEW t, NEW f
    PROVE  OutputFileIndex(t, f) \in Nat
PROOF
<1> DEFINE G == {g \in RetrieveDfManifest(t) : Precedes(g, f)}
<1>1. G \subseteq Files /\ IsFiniteSet(Files)
  BY BatchAssumption DEF RetrieveDfManifest
<1>2. IsFiniteSet(G)
  <2> HIDE DEF G
  <2> QED BY <1>1, FS_Subset
<1> QED BY <1>2, FS_CardinalityType DEF OutputFileIndex

\* The file that comes later has the greater index.
LEMMA IndexOrdered ==
    ASSUME NEW t, NEW f \in RetrieveDfManifest(t), NEW g \in RetrieveDfManifest(t),
           Precedes(f, g)
    PROVE  OutputFileIndex(t, f) < OutputFileIndex(t, g)
PROOF
<1> DEFINE F == {h \in RetrieveDfManifest(t) : Precedes(h, f)}
           G == {h \in RetrieveDfManifest(t) : Precedes(h, g)}
<1>1. /\ RetrieveDfManifest(t) \subseteq Files /\ IsFiniteSet(Files)
      /\ Files \subseteq Nat /\ FileStart \in [Files -> Nat]
  BY BatchAssumption DEF RetrieveDfManifest
<1>2. IsFiniteSet(G)
  <2>1. G \subseteq Files
    BY <1>1
  <2> HIDE DEF G
  <2> QED BY <1>1, <2>1, FS_Subset
<1>3. F \subseteq G /\ f \in G /\ f \notin F
  <2>1. ~Precedes(f, f)
    <3>1. f \in Nat /\ FileStart[f] \in Nat
      BY <1>1
    <3> QED BY <3>1 DEF Precedes
  <2>2. ASSUME NEW h \in Files, Precedes(h, f)
        PROVE  Precedes(h, g)
    <3>1. /\ FileStart[h] \in Nat /\ FileStart[f] \in Nat /\ FileStart[g] \in Nat
          /\ h \in Nat /\ f \in Nat /\ g \in Nat
      BY <1>1
    <3> QED BY <2>2, <3>1 DEF Precedes
  <2> QED BY <1>1, <2>1, <2>2
<1>4. Cardinality(F) < Cardinality(G)
  <2> HIDE DEF F, G
  <2>1. IsFiniteSet(F) /\ Cardinality(F) <= Cardinality(G) /\ Cardinality(G) # Cardinality(F)
    BY <1>2, <1>3, FS_Subset
  <2>2. Cardinality(F) \in Nat /\ Cardinality(G) \in Nat
    BY <1>2, <2>1, FS_CardinalityType
  <2> QED BY <2>1, <2>2
<1> QED BY <1>4 DEF OutputFileIndex

\* Two files of one execution never have the same index, so not the same path.
LEMMA IndexInjective ==
    ASSUME NEW t, NEW f \in RetrieveDfManifest(t), NEW g \in RetrieveDfManifest(t),
           OutputFileIndex(t, f) = OutputFileIndex(t, g)
    PROVE  f = g
PROOF
<1>1. f = g \/ Precedes(f, g) \/ Precedes(g, f)
  BY BatchAssumption DEF RetrieveDfManifest, Precedes
<1>2. OutputFileIndex(t, f) \in Nat /\ OutputFileIndex(t, g) \in Nat
  BY IndexIsNatural
<1> QED BY <1>1, <1>2, IndexOrdered

(***************************************************************************)
(* The windows: those of two triggers are apart.                           *)
(***************************************************************************)

\* A trigger is a whole number of cron steps, if the steps divide the hour.
LEMMA TriggerIsStep ==
    ASSUME NEW t \in Nat, CronFires(t), 60 % CronStep = 0
    PROVE  \E a \in Int : t = 60 * (a * CronStep)
PROOF
<1>1. CronStep \in Nat \ {0}
  BY BatchAssumption DEF CronStep
<1>2. PICK C \in Nat \ {0} : C = CronStep
  BY <1>1
<1> DEFINE m == t \div 60
           h == m \div 60
           x == m % 60
           y == x \div C
           d == 60 \div C
<1>3. m \in Int /\ h \in Int /\ x \in Nat /\ t = 60 * m /\ m = 60 * h + x
  BY DEF CronFires
<1>4. y \in Int /\ d \in Int /\ x = C * y /\ 60 = C * d
  <2>1. x % C = 0 /\ 60 % C = 0
    BY <1>2 DEF CronFires
  <2> HIDE DEF x
  <2> QED BY <1>2, <1>3, <2>1, DivMod
<1>5. 60 * h + x = (d * h + y) * C
  <2> HIDE DEF h, x, y, d
  <2>1. (d * h + y) * C = (d * h) * C + y * C
    BY <1>2, <1>3, <1>4, Distributes
  <2>2. (d * h) * C = (C * d) * h
    BY <1>2, <1>3, <1>4
  <2>3. y * C = C * y
    BY <1>2, <1>4
  <2> QED BY <2>1, <2>2, <2>3, <1>4
<1>6. d * h + y \in Int
  BY <1>3, <1>4
<1> QED BY <1>2, <1>3, <1>5, <1>6

\* Two firings of a rule whose step divides the hour have no instant of
\* their windows in common.
LEMMA WindowsDisjoint ==
    ASSUME NEW t \in Nat, NEW u \in Nat, CronFires(t), CronFires(u), 60 % CronStep = 0,
           NEW x \in Nat, Between(t, x), Between(u, x)
    PROVE  t = u
PROOF
<1>1. PICK C \in Nat \ {0} : C = CronStep /\ Frequency <= 60 * C
  BY BatchAssumption DEF CronStep
<1>2. PICK a \in Int : t = 60 * (a * C)
  BY <1>1, TriggerIsStep
<1>3. PICK b \in Int : u = 60 * (b * C)
  BY <1>1, TriggerIsStep
<1>4. t < u + Frequency /\ u < t + Frequency
  BY BatchAssumption DEF Between, StartTime, EndTime
<1>5. a + 1 <= b => a * C + C <= b * C
  BY ProductMonotone, Distributes
<1>6. b + 1 <= a => b * C + C <= a * C
  BY ProductMonotone, Distributes
<1>7. a * C \in Int /\ b * C \in Int
  OBVIOUS
<1>8. a = b
  BY <1>1, <1>2, <1>3, <1>4, <1>5, <1>6, <1>7, BatchAssumption
<1> QED BY <1>2, <1>3, <1>8

(***************************************************************************)
(* The parts: each row kept is in exactly one of them.                     *)
(***************************************************************************)

\* The position of a row in a batch is less than the length of the batch.
LEMMA PositionInRange ==
    ASSUME NEW R \in SUBSET Rows, NEW r \in R
    PROVE  /\ Cardinality(R) \in Nat \ {0}
           /\ Position(R, r) \in 0 .. Cardinality(R) - 1
PROOF
<1> DEFINE B == {s \in R : s < r}
<1>1. IsFiniteSet(R) /\ r \in Nat
  BY BatchAssumption, FS_Subset
<1>2. B \subseteq R /\ r \notin B
  BY <1>1
<1>3. Cardinality(B) <= Cardinality(R) /\ Cardinality(B) # Cardinality(R)
      /\ Cardinality(B) \in Nat /\ Cardinality(R) \in Nat
  <2> HIDE DEF B
  <2> QED BY <1>1, <1>2, FS_Subset, FS_CardinalityType
<1> QED BY <1>3 DEF Position

\* array_split: parts start in the order of their numbers.
LEMMA PartStartMonotone ==
    ASSUME NEW len \in Nat, NEW n \in Nat \ {0}, NEW j \in Nat, NEW k \in Nat, j <= k
    PROVE  PartStart(len, n, j) \in Nat /\ PartStart(len, n, j) <= PartStart(len, n, k)
PROOF
<1>1. len \div n \in Nat /\ len % n \in Nat
  OBVIOUS
<1>2. j * (len \div n) <= k * (len \div n) /\ j * (len \div n) \in Nat /\ k * (len \div n) \in Nat
  BY <1>1, ProductMonotone
<1> QED BY <1>1, <1>2 DEF PartStart

\* Every position is in one part.
LEMMA PartExists ==
    ASSUME NEW len \in Nat, NEW n \in Nat \ {0}, NEW pos \in 0 .. len - 1
    PROVE  \E k \in 0 .. n - 1 :
              PartStart(len, n, k) <= pos /\ pos < PartStart(len, n, k + 1)
PROOF
<1>1. PICK q \in Nat, x \in 0 .. n - 1 :
         q = len \div n /\ x = len % n /\ len = n * q + x
  BY DivMod
<1>2. CASE pos < x * (q + 1)
  <2>1. PICK k \in Int, y \in 0 .. q : pos = (q + 1) * k + y
    <3>1. PICK w \in Nat \ {0} : w = q + 1
      OBVIOUS
    <3>2. PICK k \in Int, y \in 0 .. w - 1 : pos = w * k + y
      <4>1. /\ pos \div w \in Int /\ pos % w \in 0 .. w - 1
            /\ pos = w * (pos \div w) + (pos % w)
        BY DivMod
      <4> QED BY <4>1
    <3>3. w * k = (q + 1) * k /\ y \in 0 .. q
      BY <3>1
    <3> QED BY <3>2, <3>3
  <2>2. 0 <= k
    <3>1. k + 1 <= 0 => (k + 1) * (q + 1) <= 0 * (q + 1)
      BY ProductMonotone
    <3>2. (k + 1) * (q + 1) = (q + 1) * k + (q + 1) /\ 0 * (q + 1) = 0
      OBVIOUS
    <3> QED BY <2>1, <3>1, <3>2
  <2>3. k < x
    <3>1. x <= k => x * (q + 1) <= k * (q + 1)
      BY ProductMonotone
    <3>2. k * (q + 1) = (q + 1) * k
      OBVIOUS
    <3>3. x * (q + 1) \in Int /\ k * (q + 1) \in Int
      BY <1>1
    <3> QED BY <1>2, <2>1, <3>1, <3>2, <3>3
  <2>4. PartStart(len, n, k) = k * q + k
    BY <1>1, <2>3 DEF PartStart
  <2>5. PartStart(len, n, k + 1) = (k + 1) * q + (k + 1)
    BY <1>1, <2>3 DEF PartStart
  <2>6. k * q + k = (q + 1) * k /\ (k + 1) * q + (k + 1) = (q + 1) * k + (q + 1)
    OBVIOUS
  <2> QED BY <1>1, <2>1, <2>2, <2>3, <2>4, <2>5, <2>6
<1>3. CASE ~(pos < x * (q + 1))
  <2>1. x * (q + 1) = x * q + x /\ x * q \in Nat /\ n * q \in Nat
    BY <1>1
  <2>2. q # 0
    BY <1>1, <1>3, <2>1
  <2>3. PICK j \in Int, y \in 0 .. q - 1 : pos - x * (q + 1) = q * j + y
    <3>1. q \in Nat \ {0} /\ pos - x * (q + 1) \in Int
      BY <2>1, <2>2
    <3> QED BY <3>1, DivMod
  <2>4. 0 <= j
    <3>1. j + 1 <= 0 => (j + 1) * q <= 0 * q
      BY ProductMonotone
    <3>2. (j + 1) * q = q * j + q /\ 0 * q = 0
      OBVIOUS
    <3> QED BY <1>3, <2>1, <2>3, <3>1, <3>2
  <2>5. (x + j) * q = x * q + q * j /\ (x + j) * q \in Int /\ q * j \in Int
    OBVIOUS
  <2>6. x + j < n
    <3>1. n <= x + j => n * q <= (x + j) * q
      BY ProductMonotone
    <3> QED BY <1>1, <2>1, <2>3, <2>5, <3>1
  <2>7. PartStart(len, n, x + j) = (x + j) * q + x
    BY <1>1, <2>4 DEF PartStart
  <2>8. PartStart(len, n, x + j + 1) = (x + j + 1) * q + x
    BY <1>1, <2>4 DEF PartStart
  <2>9. (x + j + 1) * q = (x + j) * q + q
    OBVIOUS
  <2>10. x + j \in 0 .. n - 1
    BY <1>1, <2>4, <2>6
  <2> QED BY <2>1, <2>3, <2>5, <2>7, <2>8, <2>9, <2>10
<1> QED BY <1>2, <1>3

\* array_split brings each row of the batch into a part ...
LEMMA PartsCover ==
    ASSUME NEW R \in SUBSET Rows, NEW n \in Nat \ {0}, NEW r \in R
    PROVE  \E k \in 0 .. n - 1 : r \in PartRows(R, n, k)
PROOF
<1>1. Cardinality(R) \in Nat /\ Position(R, r) \in 0 .. Cardinality(R) - 1
  BY PositionInRange
<1>2. PICK k \in 0 .. n - 1 : /\ PartStart(Cardinality(R), n, k) <= Position(R, r)
                              /\ Position(R, r) < PartStart(Cardinality(R), n, k + 1)
  BY <1>1, PartExists
<1> QED BY <1>2 DEF PartRows

\* ... and into no other.
LEMMA PartsDisjoint ==
    ASSUME NEW R \in SUBSET Rows, NEW n \in Nat \ {0}, NEW j \in Nat, NEW k \in Nat,
           NEW r, r \in PartRows(R, n, j), r \in PartRows(R, n, k)
    PROVE  j = k
PROOF
<1>1. r \in R
  BY DEF PartRows
<1>2. PICK len \in Nat, pos \in Nat : len = Cardinality(R) /\ pos = Position(R, r)
  BY <1>1, PositionInRange
<1>3. /\ PartStart(len, n, j) <= pos /\ pos < PartStart(len, n, j + 1)
      /\ PartStart(len, n, k) <= pos /\ pos < PartStart(len, n, k + 1)
  BY <1>2 DEF PartRows
<1>4. /\ PartStart(len, n, j) \in Nat /\ PartStart(len, n, j + 1) \in Nat
      /\ PartStart(len, n, k) \in Nat /\ PartStart(len, n, k + 1) \in Nat
  <2>1. \A m \in Nat : m <= m
    OBVIOUS
  <2>2. j + 1 \in Nat /\ k + 1 \in Nat
    OBVIOUS
  <2> QED BY <2>1, <2>2, PartStartMonotone
<1>5. j + 1 <= k => PartStart(len, n, j + 1) <= PartStart(len, n, k)
  BY PartStartMonotone
<1>6. k + 1 <= j => PartStart(len, n, k + 1) <= PartStart(len, n, j)
  BY PartStartMonotone
<1> QED BY <1>3, <1>4, <1>5, <1>6

\* The row that comes later has the greater position.
LEMMA PositionInjective ==
    ASSUME NEW R \in SUBSET Rows, NEW r \in R, NEW s \in R, r # s
    PROVE  Position(R, r) # Position(R, s)
PROOF
<1>1. R \subseteq Nat /\ IsFiniteSet(R)
  BY BatchAssumption, FS_Subset
<1>2. ASSUME NEW x \in R, NEW y \in R, x < y
      PROVE  Position(R, x) # Position(R, y)
  <2> DEFINE B == {z \in R : z < x}
             C == {z \in R : z < y}
  <2>1. x \in Nat /\ y \in Nat /\ \A z \in R : z \in Nat
    BY <1>1
  <2>2. B \subseteq C /\ x \in C /\ x \notin B
    <3>1. ~(x < x) /\ \A z \in R : z < x => z < y
      BY <1>2, <2>1
    <3> QED BY <1>2, <3>1
  <2>3. IsFiniteSet(C)
    <3>1. C \subseteq R
      OBVIOUS
    <3> HIDE DEF C
    <3> QED BY <1>1, <3>1, FS_Subset
  <2>4. Cardinality(B) # Cardinality(C)
    <3> HIDE DEF B, C
    <3> QED BY <2>2, <2>3, FS_Subset
  <2> QED BY <2>4 DEF Position
<1>3. r < s \/ s < r
  <2>1. r \in Nat /\ s \in Nat
    BY <1>1
  <2> QED BY <2>1
<1> QED BY <1>2, <1>3

\* A part has as many rows as there are positions from its start to the next.
LEMMA PartLength ==
    ASSUME NEW R \in SUBSET Rows, NEW n \in Nat \ {0}, NEW k \in Nat, NEW p \in Nat,
           PartStart(Cardinality(R), n, k + 1) <= PartStart(Cardinality(R), n, k) + p
    PROVE  Cardinality(PartRows(R, n, k)) \in 0 .. p
PROOF
<1> DEFINE P == PartRows(R, n, k)
           positions == [r \in P |-> Position(R, r)]
<1>1. IsFiniteSet(R) /\ P \subseteq R
  BY BatchAssumption, FS_Subset DEF PartRows
<1>2. Cardinality(R) \in Nat
  BY <1>1, FS_CardinalityType
<1>3. PICK a \in Nat, b \in Nat :
         /\ a = PartStart(Cardinality(R), n, k) /\ b = PartStart(Cardinality(R), n, k + 1)
         /\ b <= a + p
  <2>1. PICK c \in Nat : c = Cardinality(R)
    BY <1>2
  <2>2. /\ PartStart(c, n, k) \in Nat /\ PartStart(c, n, k + 1) \in Nat
    <3>1. PICK j \in Nat : j = k + 1 /\ k <= k /\ j <= j
      OBVIOUS
    <3> QED BY <3>1, PartStartMonotone
  <2> QED BY <2>1, <2>2
<1>4. \A r \in P : Position(R, r) \in a .. b - 1
  <2> SUFFICES ASSUME NEW r \in P PROVE Position(R, r) \in a .. b - 1
    OBVIOUS
  <2>1. Position(R, r) \in Nat
    BY <1>1, PositionInRange
  <2> QED BY <1>3, <2>1 DEF PartRows
<1>5. positions \in Injection(P, a .. b - 1)
  <2>1. positions \in [P -> a .. b - 1]
    BY <1>4
  <2>2. \A r, s \in P : positions[r] = positions[s] => r = s
    BY <1>1, PositionInjective
  <2> HIDE DEF P, positions
  <2> QED BY <2>1, <2>2 DEF Injection, IsInjective
<1>6. IsFiniteSet(a .. b - 1) /\ Cardinality(a .. b - 1) <= p /\ Cardinality(a .. b - 1) \in Nat
  <2>1. Cardinality(a .. b - 1) = IF a > b - 1 THEN 0 ELSE (b - 1) - a + 1
    BY FS_Interval
  <2>2. IsFiniteSet(a .. b - 1)
    BY FS_Interval
  <2> QED BY <1>3, <2>1, <2>2
<1>7. Cardinality(P) <= Cardinality(a .. b - 1) /\ IsFiniteSet(P)
  <2> HIDE DEF P, positions
  <2> QED BY <1>5, <1>6, FS_Injection
<1>8. Cardinality(P) \in Nat
  <2> HIDE DEF P
  <2> QED BY <1>7, FS_CardinalityType
<1> QED BY <1>6, <1>7, <1>8

\* Rounding up gives enough files, and array_split shares the rows out evenly:
\* no part is longer than what fits in a file.
LEMMA PartFits ==
    ASSUME NEW len \in Nat, NEW p \in Nat \ {0}, NEW n \in Nat \ {0},
           n = (len + p - 1) \div p, NEW k \in Nat
    PROVE  PartStart(len, n, k + 1) <= PartStart(len, n, k) + p
PROOF
<1>1. PICK y \in 0 .. p - 1 : len + p - 1 = p * n + y
  <2>1. PICK a \in Nat : a = len + p - 1
    OBVIOUS
  <2>2. a % p \in 0 .. p - 1 /\ a = p * (a \div p) + (a % p)
    BY DivMod
  <2> QED BY <2>1, <2>2
<1>2. len <= p * n
  <2>1. p * n \in Nat
    OBVIOUS
  <2> QED BY <1>1, <2>1
<1>3. PICK q \in Nat, x \in 0 .. n - 1 : q = len \div n /\ x = len % n /\ len = n * q + x
  <2>1. len \div n \in Nat /\ len % n \in 0 .. n - 1 /\ len = n * (len \div n) + (len % n)
    <3>1. len \div n \in Nat /\ len \in Int
      OBVIOUS
    <3>2. len % n \in 0 .. n - 1 /\ len = n * (len \div n) + (len % n)
      BY <3>1, DivMod
    <3> QED BY <3>1, <3>2
  <2> QED BY <2>1
<1>4. n * q + x <= n * p
  BY <1>2, <1>3, Distributes
<1>5. q <= p
  <2> SUFFICES ASSUME p + 1 <= q PROVE FALSE
    OBVIOUS
  <2>1. (p + 1) * n <= q * n
    BY ProductMonotone
  <2>2. (p + 1) * n = p * n + n /\ q * n = n * q /\ p * n = n * p
    BY Distributes
  <2>3. n * q \in Nat /\ n * p \in Nat
    OBVIOUS
  <2> QED BY <1>4, <2>1, <2>2, <2>3
<1>6. ASSUME 0 < x
      PROVE  q + 1 <= p
  <2> SUFFICES ASSUME p <= q PROVE FALSE
    OBVIOUS
  <2>1. p * n <= q * n
    BY ProductMonotone
  <2>2. q * n = n * q /\ p * n = n * p
    BY Distributes
  <2>3. n * q \in Nat /\ n * p \in Nat
    OBVIOUS
  <2> QED BY <1>4, <1>6, <2>1, <2>2, <2>3
<1>7. (k + 1) * q = k * q + q /\ k * q \in Nat
  BY Distributes
<1>8. /\ PartStart(len, n, k) = k * q + (IF k < x THEN k ELSE x)
      /\ PartStart(len, n, k + 1) = (k + 1) * q + (IF k + 1 < x THEN k + 1 ELSE x)
  BY <1>3 DEF PartStart
<1>9. CASE k < x
  <2>1. q + 1 <= p
    BY <1>6, <1>9
  <2>2. (IF k + 1 < x THEN k + 1 ELSE x) = k + 1
    BY <1>9
  <2> QED BY <1>7, <1>8, <1>9, <2>1, <2>2
<1>10. CASE ~(k < x)
  BY <1>5, <1>7, <1>8, <1>10
<1> QED BY <1>9, <1>10

\* A batch that is not empty and can be split has at least one part.
LEMMA NoOfFilesPositive ==
    ASSUME NEW R \in SUBSET Rows, R # {}, ~CannotSplit(R)
    PROVE  CalculateNoOfFiles(R) \in Nat \ {0}
PROOF
<1> DEFINE first == CHOOSE r \in R : \A s \in R : r <= s
<1>1. R \in SUBSET Nat /\ IsFiniteSet(R)
  BY BatchAssumption, FS_Subset
<1>2. \E r \in R : \A s \in R : r <= s
  BY <1>1, LeastExists
<1>3. first \in R
  BY <1>2
<1>4. RowSize[first] \in Nat \ {0} /\ FileMaxSize - HeaderSize \in Int
  <2> HIDE DEF first
  <2> QED BY <1>3, BatchAssumption
<1>5. RowPerFile(R) = (FileMaxSize - HeaderSize) \div RowSize[first]
  BY DEF RowPerFile
<1>6. RowPerFile(R) \in Nat \ {0}
  <2>1. RowPerFile(R) \in Int
    <3> HIDE DEF first
    <3> QED BY <1>4, <1>5, DivMod
  <2> QED BY <2>1 DEF CannotSplit
<1>7. PICK r \in R : TRUE
  OBVIOUS
<1>8. Cardinality(R) \in Nat \ {0}
  BY <1>7, PositionInRange
<1>9. PICK c \in Nat \ {0}, p \in Nat \ {0} : c = Cardinality(R) /\ p = RowPerFile(R)
  BY <1>6, <1>8
<1>10. (c + p - 1) \div p \in Nat \ {0}
  <2>1. c + p - 1 \in Nat /\ p <= c + p - 1
    OBVIOUS
  <2> QED BY <2>1, DivPositive
<1> QED BY <1>9, <1>10 DEF CalculateNoOfFiles
-----------------------------------------------------------------------------
(***************************************************************************)
(* The inductive invariant: an object of the sink is determined by its     *)
(* path, since the path tells the window, the file and the part, and these *)
(* the rows; what an invocation has written, and all parts of an item that *)
(* has returned, are there.                                                *)
(***************************************************************************)

\* The object that holds part k of item i.
Object(i, k) == [path |-> OutputPath(i, k), rows |-> Parts[i][k]]

\* The parts of item i before the k-th are in the sink.
Written(i, k) == \A j \in 0 .. k - 1 : Object(i, j) \in sink

\* Only files of the window are worked on.
ItemInv ==
    \A e \in Executions, f \in Files, a \in Attempts :
        /\ attempt[<<e, f>>] > 0 => f \in Listed[e]
        /\ <<e, f, a>> \in running => attempt[<<e, f>>] > 0

SinkInv ==
    \A o \in sink :
        \E e \in Executions : \E f \in Listed[e] : \E k \in 0 .. NoOfParts[<<e, f>>] - 1 :
            o = Object(<<e, f>>, k)

WroteInv ==
    \A e \in Executions, f \in Files, a \in Attempts :
        Written(<<e, f>>, wrote[<<e, f, a>>])

ReturnedInv ==
    /\ \A i \in returned : ~CannotSplit(Batch[i]) /\ Written(i, NoOfParts[i])
    /\ \A e \in Executions : phase[e] = "succeeded" =>
          \A f \in Listed[e] : <<e, f>> \in returned

IInv == TypeOK /\ ItemInv /\ SinkInv /\ WroteInv /\ ReturnedInv

\* What the batch of an item and the number of its parts are.
LEMMA ItemType ==
    ASSUME NEW e \in Executions, NEW f \in Files
    PROVE  /\ Batch[<<e, f>>] = FilterRowsByDatetime(TriggerTime[e], f)
           /\ Batch[<<e, f>>] \in SUBSET Rows
           /\ NoOfParts[<<e, f>>] \in Nat
           /\ NoOfParts[<<e, f>>] = 0 <=> Batch[<<e, f>>] = {} \/ CannotSplit(Batch[<<e, f>>])
PROOF
<1>1. <<e, f>> \in Items /\ <<e, f>>[1] = e /\ <<e, f>>[2] = f
  BY DEF Items
<1>2. /\ Batch[<<e, f>>] = FilterRowsByDatetime(TriggerTime[e], f)
      /\ Batch[<<e, f>>] \in SUBSET Rows
  BY <1>1 DEF Batch, FilterRowsByDatetime
<1>3. PICK R \in SUBSET Rows : R = Batch[<<e, f>>]
  BY <1>2
<1>4. NoOfParts[<<e, f>>] = IF R = {} \/ CannotSplit(R) THEN 0 ELSE CalculateNoOfFiles(R)
  BY <1>1, <1>3 DEF NoOfParts
<1>5. CASE R = {} \/ CannotSplit(R)
  BY <1>2, <1>3, <1>4, <1>5
<1>6. CASE ~(R = {} \/ CannotSplit(R))
  <2>1. CalculateNoOfFiles(R) \in Nat \ {0}
    BY <1>6, NoOfFilesPositive
  <2> QED BY <1>2, <1>3, <1>4, <1>6, <2>1
<1> QED BY <1>5, <1>6

\* What a part of an item is.
LEMMA PartOf ==
    ASSUME NEW e \in Executions, NEW f \in Files, NEW k \in 0 .. NoOfParts[<<e, f>>] - 1
    PROVE  Parts[<<e, f>>][k] = PartRows(Batch[<<e, f>>], NoOfParts[<<e, f>>], k)
BY DEF Parts, Items

\* What the path of a part is.
LEMMA PathOf ==
    ASSUME NEW e \in Executions, NEW f \in Files, NEW k
    PROVE  OutputPath(<<e, f>>, k) =
              [ingestion_start |-> TriggerTime[e],
               index |-> OutputFileIndex(TriggerTime[e], f), part |-> k]
BY DEF OutputPath, Index, Items

\* A part that is written makes an object.
LEMMA ObjectType ==
    ASSUME NEW e \in Executions, NEW f \in Files, NEW k \in 0 .. NoOfParts[<<e, f>>] - 1
    PROVE  Object(<<e, f>>, k) \in [path : Paths, rows : SUBSET Rows]
PROOF
<1>1. k \in Nat
  BY ItemType
<1>2. OutputPath(<<e, f>>, k) \in Paths
  <2>1. TriggerTime[e] \in Nat /\ OutputFileIndex(TriggerTime[e], f) \in Nat
    BY BatchAssumption, IndexIsNatural
  <2>2. PICK t \in Nat, i \in Nat : t = TriggerTime[e] /\ i = OutputFileIndex(TriggerTime[e], f)
    BY <2>1
  <2>3. OutputPath(<<e, f>>, k) = [ingestion_start |-> t, index |-> i, part |-> k]
    BY <2>2, PathOf
  <2> QED BY <1>1, <2>3 DEF Paths
<1>3. Parts[<<e, f>>][k] \in SUBSET Rows
  <2>1. Parts[<<e, f>>][k] \subseteq Batch[<<e, f>>]
    BY PartOf DEF PartRows
  <2> QED BY <2>1, ItemType
<1> QED BY <1>2, <1>3 DEF Object

\* find-file-paths lists files of the manifest.
LEMMA ListedFiles ==
    ASSUME NEW e \in Executions
    PROVE  Listed[e] = RetrieveDfManifest(TriggerTime[e]) /\ Listed[e] \subseteq Files
BY DEF Listed, RetrieveDfManifest

\* Every invocation that writes to a path writes the same rows to it.
LEMMA PathDeterminesObject ==
    ASSUME NEW e \in Executions, NEW f \in Listed[e], NEW k \in 0 .. NoOfParts[<<e, f>>] - 1,
           NEW d \in Executions, NEW g \in Listed[d], NEW j \in 0 .. NoOfParts[<<d, g>>] - 1,
           OutputPath(<<e, f>>, k) = OutputPath(<<d, g>>, j)
    PROVE  Object(<<e, f>>, k) = Object(<<d, g>>, j)
PROOF
<1>1. f \in Files /\ g \in Files
  BY ListedFiles
<1>2. /\ TriggerTime[e] = TriggerTime[d] /\ k = j
      /\ OutputFileIndex(TriggerTime[e], f) = OutputFileIndex(TriggerTime[d], g)
  <2>1. OutputPath(<<e, f>>, k) =
           [ingestion_start |-> TriggerTime[e],
            index |-> OutputFileIndex(TriggerTime[e], f), part |-> k]
    BY <1>1, PathOf
  <2>2. OutputPath(<<d, g>>, j) =
           [ingestion_start |-> TriggerTime[d],
            index |-> OutputFileIndex(TriggerTime[d], g), part |-> j]
    BY <1>1, PathOf
  <2>3. /\ OutputPath(<<e, f>>, k).ingestion_start = TriggerTime[e]
        /\ OutputPath(<<e, f>>, k).index = OutputFileIndex(TriggerTime[e], f)
        /\ OutputPath(<<e, f>>, k).part = k
    BY <2>1
  <2>4. /\ OutputPath(<<d, g>>, j).ingestion_start = TriggerTime[d]
        /\ OutputPath(<<d, g>>, j).index = OutputFileIndex(TriggerTime[d], g)
        /\ OutputPath(<<d, g>>, j).part = j
    BY <2>2
  <2> QED BY <2>3, <2>4
<1>3. f = g
  BY <1>2, ListedFiles, IndexInjective
<1>4. Batch[<<e, f>>] = Batch[<<d, g>>]
  BY <1>1, <1>2, <1>3, ItemType
<1>5. NoOfParts[<<e, f>>] = NoOfParts[<<d, g>>]
  BY <1>1, <1>4 DEF NoOfParts, Items
<1>6. Parts[<<e, f>>][k] = Parts[<<d, g>>][j]
  BY <1>1, <1>2, <1>4, <1>5, PartOf
<1> QED BY <1>6 DEF Object

\* Putting an object again changes nothing.
LEMMA PutAgain ==
    ASSUME SinkInv, NEW e \in Executions, NEW f \in Listed[e],
           NEW k \in 0 .. NoOfParts[<<e, f>>] - 1
    PROVE  PutObject(OutputPath(<<e, f>>, k), Parts[<<e, f>>][k])
              = sink \cup {Object(<<e, f>>, k)}
PROOF
<1>1. ASSUME NEW o \in sink, o.path = OutputPath(<<e, f>>, k)
      PROVE  o = Object(<<e, f>>, k)
  <2>1. PICK d \in Executions : \E g \in Listed[d] :
             \E j \in 0 .. NoOfParts[<<d, g>>] - 1 : o = Object(<<d, g>>, j)
    BY DEF SinkInv
  <2>2. PICK g \in Listed[d] : \E j \in 0 .. NoOfParts[<<d, g>>] - 1 : o = Object(<<d, g>>, j)
    BY <2>1
  <2>3. PICK j \in 0 .. NoOfParts[<<d, g>>] - 1 : o = Object(<<d, g>>, j)
    BY <2>2
  <2>4. o.path = OutputPath(<<d, g>>, j)
    BY <2>3 DEF Object
  <2>5. OutputPath(<<e, f>>, k) = OutputPath(<<d, g>>, j)
    BY <1>1, <2>4
  <2>6. Object(<<e, f>>, k) = Object(<<d, g>>, j)
    BY <2>5, PathDeterminesObject
  <2> QED BY <2>3, <2>6
<1> QED BY <1>1 DEF PutObject, Object
-----------------------------------------------------------------------------
(***************************************************************************)
(* It is inductive.                                                        *)
(***************************************************************************)

\* The invariant holds at first.
LEMMA InitIInv == Init => IInv
PROOF
<1> SUFFICES ASSUME Init PROVE IInv
  OBVIOUS
<1>1. TypeOK
  <2>1. MaxAttempts \in Nat
    BY BatchAssumption
  <2> QED BY <2>1 DEF Init, TypeOK, Phases, Items, Invocations
<1>2. ItemInv
  BY DEF Init, ItemInv, Items
<1>3. SinkInv
  BY DEF Init, SinkInv
<1>4. WroteInv
  BY DEF Init, WroteInv, Written, Invocations, Attempts
<1>5. ReturnedInv
  BY DEF Init, ReturnedInv
<1> QED BY <1>1, <1>2, <1>3, <1>4, <1>5 DEF IInv

\* What is written stays written, as long as the sink only grows.
LEMMA WrittenKept ==
    ASSUME NEW i, NEW k, sink \subseteq sink', Written(i, k)
    PROVE  Written(i, k)'
BY DEF Written, Object, Parts, OutputPath, Index

\* No part is required of an invocation that has put none.
LEMMA WrittenNone ==
    ASSUME NEW i
    PROVE  Written(i, 0) /\ Written(i, 0)'
BY DEF Written

\* Steps that leave the objects and the invocations alone.
LEMMA StatesStep ==
    ASSUME IInv, UNCHANGED <<attempt, running, wrote, sink>>,
           phase' \in [Executions -> Phases], returned' = returned,
           \A e \in Executions : phase'[e] = "succeeded" =>
               phase[e] = "succeeded" \/ \A f \in Listed[e] : <<e, f>> \in returned
    PROVE  IInv'
PROOF
<1>1. TypeOK'
  BY DEF IInv, TypeOK
<1>2. ItemInv'
  BY DEF IInv, ItemInv
<1>3. SinkInv'
  BY DEF IInv, SinkInv, Object, OutputPath
<1>4. WroteInv'
  BY DEF IInv, WroteInv, Written, Object, OutputPath
<1>5. ReturnedInv'
  BY DEF IInv, ReturnedInv, Written, Object, OutputPath
<1> QED BY <1>1, <1>2, <1>3, <1>4, <1>5 DEF IInv

\* An invocation starts, for the first time or as a retry, and the one it
\* replaces may be gone.
LEMMA InvokeStep ==
    ASSUME IInv, NEW e \in Executions, NEW f \in Listed[e], NEW a \in Attempts,
           attempt' = [attempt EXCEPT ![<<e, f>>] = a],
           running' \subseteq running \cup {<<e, f, a>>},
           wrote' \in [Invocations -> Nat],
           \A v \in Invocations : wrote'[v] = wrote[v] \/ wrote'[v] = 0,
           UNCHANGED <<phase, returned, sink>>
    PROVE  IInv'
PROOF
<1>1. f \in Files /\ a \in 1 .. MaxAttempts /\ MaxAttempts \in Nat
  BY ListedFiles, BatchAssumption DEF Attempts
<1>2. TypeOK'
  <2>1. attempt' \in [Items -> 0 .. MaxAttempts]
    <3>1. a \in 0 .. MaxAttempts
      BY <1>1
    <3>2. attempt \in [Items -> 0 .. MaxAttempts]
      BY DEF IInv, TypeOK
    <3> QED BY <3>1, <3>2
  <2>2. <<e, f, a>> \in Invocations
    BY <1>1 DEF Invocations
  <2> QED BY <2>1, <2>2 DEF IInv, TypeOK
<1>3. ItemInv'
  <2> SUFFICES ASSUME NEW d \in Executions, NEW g \in Files, NEW b \in Attempts
               PROVE  /\ attempt'[<<d, g>>] > 0 => g \in Listed[d]
                      /\ <<d, g, b>> \in running' => attempt'[<<d, g>>] > 0
    BY DEF ItemInv
  <2>1. <<d, g>> \in Items
    BY DEF Items
  <2>2. CASE d = e /\ g = f
    BY <1>1, <2>1, <2>2 DEF IInv, TypeOK
  <2>3. CASE ~(d = e /\ g = f)
    <3>1. attempt'[<<d, g>>] = attempt[<<d, g>>]
      BY <2>1, <2>3 DEF IInv, TypeOK
    <3>2. <<d, g, b>> \in running' => <<d, g, b>> \in running
      BY <2>3
    <3> QED BY <3>1, <3>2 DEF IInv, ItemInv
  <2> QED BY <2>2, <2>3
<1>4. SinkInv'
  BY DEF IInv, SinkInv, Object, OutputPath
<1>5. WroteInv'
  <2> SUFFICES ASSUME NEW d \in Executions, NEW g \in Files, NEW b \in Attempts
               PROVE  Written(<<d, g>>, wrote[<<d, g, b>>])'
    BY DEF WroteInv
  <2>1. PICK w : w = wrote'[<<d, g, b>>]
    OBVIOUS
  <2>2. Written(<<d, g>>, w)
    <3>1. <<d, g, b>> \in Invocations
      BY DEF Invocations
    <3> QED BY <2>1, <3>1, WrittenNone DEF IInv, WroteInv
  <2>3. Written(<<d, g>>, w)'
    BY <2>2, WrittenKept
  <2> QED BY <2>1, <2>3 DEF Written
<1>6. ReturnedInv'
  BY DEF IInv, ReturnedInv, Written, Object, OutputPath
<1> QED BY <1>2, <1>3, <1>4, <1>5, <1>6 DEF IInv

\* An invocation is over: it has returned, with all its parts written, or not.
LEMMA EndStep ==
    ASSUME IInv, NEW e \in Executions, NEW f \in Files, NEW a \in Attempts,
           running' = running \ {<<e, f, a>>},
           wrote' = [wrote EXCEPT ![<<e, f, a>>] = 0],
           phase' = phase \/ phase' = [phase EXCEPT ![e] = "failed"],
           \/ returned' = returned
           \/ /\ returned' = returned \cup {<<e, f>>}
              /\ ~CannotSplit(Batch[<<e, f>>])
              /\ wrote[<<e, f, a>>] = NoOfParts[<<e, f>>],
           UNCHANGED <<attempt, sink>>
    PROVE  IInv'
PROOF
<1>1. TypeOK'
  <2>1. phase' \in [Executions -> Phases]
    BY DEF IInv, TypeOK, Phases
  <2>2. wrote' \in [Invocations -> Nat]
    BY DEF IInv, TypeOK
  <2>3. <<e, f>> \in Items
    BY DEF Items
  <2> QED BY <2>1, <2>2, <2>3 DEF IInv, TypeOK
<1>2. ItemInv'
  BY DEF IInv, ItemInv
<1>3. SinkInv'
  BY DEF IInv, SinkInv, Object, OutputPath
<1>4. WroteInv'
  <2> SUFFICES ASSUME NEW d \in Executions, NEW g \in Files, NEW b \in Attempts
               PROVE  Written(<<d, g>>, wrote[<<d, g, b>>])'
    BY DEF WroteInv
  <2>1. PICK w : w = wrote'[<<d, g, b>>]
    OBVIOUS
  <2>2. Written(<<d, g>>, w)
    <3>1. <<d, g, b>> \in Invocations
      BY DEF Invocations
    <3>2. w = 0 \/ w = wrote[<<d, g, b>>]
      BY <2>1, <3>1 DEF IInv, TypeOK
    <3> QED BY <3>2, WrittenNone DEF IInv, WroteInv
  <2>3. Written(<<d, g>>, w)'
    BY <2>2, WrittenKept
  <2> QED BY <2>1, <2>3 DEF Written
<1>5. ReturnedInv'
  <2>1. ASSUME NEW i \in returned'
        PROVE  ~CannotSplit(Batch[i]) /\ Written(i, NoOfParts[i])
    <3>1. CASE i \in returned
      BY <3>1 DEF IInv, ReturnedInv
    <3>2. CASE i \notin returned
      <4>1. /\ i = <<e, f>> /\ ~CannotSplit(Batch[i])
            /\ wrote[<<e, f, a>>] = NoOfParts[i]
        BY <3>2
      <4> QED BY <4>1 DEF IInv, WroteInv
    <3> QED BY <3>1, <3>2
  <2>2. \A i \in returned' : Written(i, NoOfParts[i])'
    BY <2>1, WrittenKept
  <2>3. ASSUME NEW d \in Executions, phase'[d] = "succeeded"
        PROVE  phase[d] = "succeeded"
    BY <2>3 DEF IInv, TypeOK
  <2>4. returned \subseteq returned'
    OBVIOUS
  <2>5. \A d \in Executions : phase'[d] = "succeeded" =>
            \A g \in Listed[d] : <<d, g>> \in returned'
    BY <2>3, <2>4 DEF IInv, ReturnedInv
  <2>6. \A i \in returned' : ~CannotSplit(Batch[i])
    BY <2>1
  <2> QED BY <2>2, <2>5, <2>6 DEF ReturnedInv
<1> QED BY <1>1, <1>2, <1>3, <1>4, <1>5 DEF IInv

\* A part is put.
LEMMA WriteStep ==
    ASSUME IInv, NEW e \in Executions, NEW f \in Files, NEW a \in Attempts,
           WritePart(e, f, a)
    PROVE  IInv' /\ sink \subseteq sink'
PROOF
<1> DEFINE i == <<e, f>>
           v == <<e, f, a>>
<1>1. v \in Invocations /\ i \in Items
  BY DEF Invocations, Items
<1>2. PICK k \in Nat : k = wrote[v]
  BY <1>1 DEF IInv, TypeOK
<1>3. f \in Listed[e]
  BY DEF WritePart, IInv, ItemInv
<1>4. k \in 0 .. NoOfParts[i] - 1
  BY <1>2, ItemType DEF WritePart
<1>5. sink' = sink \cup {Object(i, k)}
  <2>1. sink' = PutObject(OutputPath(i, k), Parts[i][k])
    BY <1>2 DEF WritePart
  <2> QED BY <1>3, <1>4, <2>1, PutAgain DEF IInv
<1>6. /\ wrote' = [wrote EXCEPT ![v] = k + 1]
      /\ UNCHANGED <<phase, attempt, returned, running>>
  BY <1>2 DEF WritePart
<1>7. TypeOK'
  <2>1. Object(i, k) \in [path : Paths, rows : SUBSET Rows]
    BY <1>4, ObjectType
  <2>2. sink' \subseteq [path : Paths, rows : SUBSET Rows]
    BY <1>5, <2>1 DEF IInv, TypeOK
  <2>3. wrote' \in [Invocations -> Nat]
    <3>1. k + 1 \in Nat
      BY <1>2
    <3>2. wrote \in [Invocations -> Nat]
      BY DEF IInv, TypeOK
    <3> QED BY <1>6, <3>1, <3>2
  <2> QED BY <1>6, <2>2, <2>3 DEF IInv, TypeOK
<1>8. ItemInv'
  BY <1>6 DEF IInv, ItemInv
<1>9. SinkInv'
  <2>1. \A o \in sink' : o \in sink \/ o = Object(i, k)
    BY <1>5
  <2>2. \A o \in sink' :
           \E d \in Executions : \E g \in Listed[d] : \E j \in 0 .. NoOfParts[<<d, g>>] - 1 :
               o = Object(<<d, g>>, j)
    BY <1>3, <1>4, <2>1 DEF IInv, SinkInv
  <2> QED BY <2>2 DEF SinkInv, Object, OutputPath
<1>10. WroteInv'
  <2> SUFFICES ASSUME NEW d \in Executions, NEW g \in Files, NEW b \in Attempts
               PROVE  Written(<<d, g>>, wrote[<<d, g, b>>])'
    BY DEF WroteInv
  <2>1. <<d, g, b>> \in Invocations
    BY DEF Invocations
  <2>2. PICK w : w = wrote'[<<d, g, b>>]
    OBVIOUS
  <2>3. CASE <<d, g, b>> = v
    <3>1. d = e /\ g = f /\ w = k + 1
      BY <1>1, <1>6, <2>2, <2>3 DEF IInv, TypeOK
    <3>2. Written(i, k)
      BY <1>2 DEF IInv, WroteInv
    <3>3. \A j \in 0 .. k : Object(i, j) \in sink'
      <4>1. \A j \in 0 .. k : j \in 0 .. k - 1 \/ j = k
        OBVIOUS
      <4> QED BY <1>5, <3>2, <4>1 DEF Written
    <3>4. \A j \in 0 .. wrote'[<<d, g, b>>] - 1 : Object(<<d, g>>, j) \in sink'
      BY <2>2, <3>1, <3>3
    <3> QED BY <3>4 DEF Written, Object, OutputPath
  <2>4. CASE <<d, g, b>> # v
    <3>1. w = wrote[<<d, g, b>>]
      BY <1>6, <2>1, <2>2, <2>4 DEF IInv, TypeOK
    <3>2. Written(<<d, g>>, w)
      BY <3>1 DEF IInv, WroteInv
    <3>3. Written(<<d, g>>, w)'
      BY <1>5, <3>2, WrittenKept
    <3> QED BY <2>2, <3>3 DEF Written
  <2> QED BY <2>3, <2>4
<1>11. ReturnedInv'
  <2>1. \A j \in returned : Written(j, NoOfParts[j])'
    BY <1>5, WrittenKept DEF IInv, ReturnedInv
  <2> QED BY <1>6, <2>1 DEF IInv, ReturnedInv
<1> QED BY <1>5, <1>7, <1>8, <1>9, <1>10, <1>11 DEF IInv

\* Every step keeps the invariant, and no step takes an object away.
LEMMA NextIInv == IInv /\ [Next]_vars => IInv' /\ sink \subseteq sink'
PROOF
<1> SUFFICES ASSUME IInv, [Next]_vars
             PROVE  IInv' /\ sink \subseteq sink'
  OBVIOUS
<1>1. ASSUME NEW e \in Executions, StartExecution(e) \/ FindFilePaths(e) \/ FailExecution(e)
      PROVE  IInv' /\ sink \subseteq sink'
  <2>1. phase' \in [Executions -> Phases]
    BY <1>1 DEF StartExecution, FindFilePaths, FailExecution, IInv, TypeOK, Phases
  <2>2. \A d \in Executions : phase'[d] = "succeeded" => phase[d] = "succeeded"
    BY <1>1 DEF StartExecution, FindFilePaths, FailExecution, IInv, TypeOK
  <2>3. UNCHANGED <<attempt, running, wrote, sink, returned>>
    BY <1>1 DEF StartExecution, FindFilePaths, FailExecution
  <2> QED BY <2>1, <2>2, <2>3, StatesStep
<1>2. ASSUME NEW e \in Executions, CompleteMap(e)
      PROVE  IInv' /\ sink \subseteq sink'
  <2>1. phase' \in [Executions -> Phases]
    BY <1>2 DEF CompleteMap, IInv, TypeOK, Phases
  <2>2. \A d \in Executions : phase'[d] = "succeeded" =>
            phase[d] = "succeeded" \/ \A f \in Listed[d] : <<d, f>> \in returned
    BY <1>2 DEF CompleteMap, IInv, TypeOK
  <2>3. UNCHANGED <<attempt, running, wrote, sink, returned>>
    BY <1>2 DEF CompleteMap
  <2> QED BY <2>1, <2>2, <2>3, StatesStep
<1>3. ASSUME NEW e \in Executions, NEW f \in Files, InvokeWriteInBatch(e, f)
      PROVE  IInv' /\ sink \subseteq sink'
  <2>1. 1 \in Attempts
    BY BatchAssumption DEF Attempts
  <2>2. wrote' \in [Invocations -> Nat]
    BY <1>3 DEF InvokeWriteInBatch, IInv, TypeOK
  <2> QED BY <1>3, <2>1, <2>2, InvokeStep DEF InvokeWriteInBatch
<1>4. ASSUME NEW e \in Executions, NEW f \in Files, RetryOnServiceException(e, f)
      PROVE  IInv' /\ sink \subseteq sink'
  <2>1. PICK a \in 1 .. MaxAttempts - 1 : a = attempt[<<e, f>>]
    BY <1>4 DEF RetryOnServiceException
  <2>2. a + 1 \in Attempts /\ f \in Listed[e]
    <3>1. a + 1 \in Attempts
      BY BatchAssumption DEF Attempts
    <3>2. attempt[<<e, f>>] > 0 => f \in Listed[e]
      BY <3>1 DEF IInv, ItemInv
    <3> QED BY <2>1, <3>1, <3>2
  <2>3. /\ attempt' = [attempt EXCEPT ![<<e, f>>] = a + 1]
        /\ running' \subseteq running \cup {<<e, f, a + 1>>}
        /\ UNCHANGED <<phase, returned, sink>>
        /\ wrote' = wrote \/ wrote' = [wrote EXCEPT ![<<e, f, a>>] = 0]
    BY <1>4, <2>1 DEF RetryOnServiceException
  <2>4. /\ wrote' \in [Invocations -> Nat]
        /\ \A v \in Invocations : wrote'[v] = wrote[v] \/ wrote'[v] = 0
    BY <2>3 DEF IInv, TypeOK
  <2> QED BY <2>2, <2>3, <2>4, InvokeStep
<1>5. ASSUME NEW e \in Executions, NEW f \in Files, NEW a \in Attempts,
             ReturnFromWriteInBatch(e, f, a)
      PROVE  IInv' /\ sink \subseteq sink'
  BY <1>5, EndStep DEF ReturnFromWriteInBatch
<1>6. ASSUME NEW e \in Executions, NEW f \in Files, NEW a \in Attempts,
             RaiseInWriteInBatch(e, f, a)
      PROVE  IInv' /\ sink \subseteq sink'
  BY <1>6, EndStep DEF RaiseInWriteInBatch
<1>7. CASE UNCHANGED vars
  <2>1. phase' \in [Executions -> Phases]
    BY <1>7 DEF vars, IInv, TypeOK
  <2> QED BY <1>7, <2>1, StatesStep DEF vars
<1> QED BY <1>1, <1>2, <1>3, <1>4, <1>5, <1>6, <1>7, WriteStep DEF Next

\* The invariant holds in every state of every behaviour.
THEOREM Invariance == Spec => []IInv
PROOF
<1>1. Init => IInv
  BY InitIInv
<1>2. IInv /\ [Next]_vars => IInv'
  BY NextIInv
<1> QED BY <1>1, <1>2, PTL DEF Spec
-----------------------------------------------------------------------------
(***************************************************************************)
(* What follows from it.                                                   *)
(***************************************************************************)

\* Every variable keeps to the values the code can give it.
THEOREM TypeCorrect == Spec => []TypeOK
PROOF
<1>1. IInv => TypeOK
  BY DEF IInv
<1> QED BY <1>1, Invariance, PTL

\* An object of the sink stays as it is, whatever invocations write it again.
THEOREM ObjectsAreStable == Spec => StableObjects
PROOF
<1>1. IInv /\ [Next]_vars => [sink \subseteq sink']_sink
  BY NextIInv
<1> QED BY <1>1, Invariance, PTL DEF Spec, StableObjects

\* No row is in two objects, if the cron steps divide the hour.
THEOREM RowsOnce == ASSUME 60 % CronStep = 0 PROVE Spec => []NoDuplicateRow
PROOF
<1>1. ASSUME IInv, NEW o1 \in sink, NEW o2 \in sink, NEW r \in o1.rows \cap o2.rows
      PROVE  o1 = o2
  <2>1. PICK e \in Executions : \E f \in Listed[e] : \E k \in 0 .. NoOfParts[<<e, f>>] - 1 :
             o1 = Object(<<e, f>>, k)
    BY <1>1 DEF IInv, SinkInv
  <2>2. PICK f \in Listed[e] : \E k \in 0 .. NoOfParts[<<e, f>>] - 1 : o1 = Object(<<e, f>>, k)
    BY <2>1
  <2>3. PICK k \in 0 .. NoOfParts[<<e, f>>] - 1 : o1 = Object(<<e, f>>, k)
    BY <2>2
  <2>4. PICK d \in Executions : \E g \in Listed[d] : \E j \in 0 .. NoOfParts[<<d, g>>] - 1 :
             o2 = Object(<<d, g>>, j)
    BY <1>1 DEF IInv, SinkInv
  <2>5. PICK g \in Listed[d] : \E j \in 0 .. NoOfParts[<<d, g>>] - 1 : o2 = Object(<<d, g>>, j)
    BY <2>4
  <2>6. PICK j \in 0 .. NoOfParts[<<d, g>>] - 1 : o2 = Object(<<d, g>>, j)
    BY <2>5
  <2>7. f \in Files /\ g \in Files
    BY ListedFiles
  <2>8. /\ r \in PartRows(Batch[<<e, f>>], NoOfParts[<<e, f>>], k)
        /\ r \in PartRows(Batch[<<d, g>>], NoOfParts[<<d, g>>], j)
    BY <1>1, <2>3, <2>6, <2>7, PartOf DEF Object
  <2>9. /\ r \in FilterRowsByDatetime(TriggerTime[e], f)
        /\ r \in FilterRowsByDatetime(TriggerTime[d], g)
    BY <2>7, <2>8, ItemType DEF PartRows
  <2>10. /\ r \in Rows /\ f = g
         /\ Between(TriggerTime[e], RowTime[r]) /\ Between(TriggerTime[d], RowTime[r])
    BY <2>9 DEF FilterRowsByDatetime
  <2>11. TriggerTime[e] = TriggerTime[d]
    <3>1. /\ TriggerTime[e] \in Nat /\ TriggerTime[d] \in Nat /\ RowTime[r] \in Nat
          /\ CronFires(TriggerTime[e]) /\ CronFires(TriggerTime[d])
      BY <2>10, BatchAssumption
    <3> QED BY <2>10, <3>1, WindowsDisjoint
  <2>12. Batch[<<e, f>>] = Batch[<<d, g>>]
    BY <2>7, <2>10, <2>11, ItemType
  <2>13. NoOfParts[<<e, f>>] = NoOfParts[<<d, g>>]
    BY <2>7, <2>12 DEF NoOfParts, Items
  <2>14. k = j
    <3>1. PICK R \in SUBSET Rows, n \in Nat : R = Batch[<<e, f>>] /\ n = NoOfParts[<<e, f>>]
      BY <2>7, ItemType
    <3>2. r \in PartRows(R, n, k) /\ r \in PartRows(R, n, j) /\ k \in 0 .. n - 1 /\ j \in 0 .. n - 1
      BY <2>8, <2>12, <2>13, <3>1
    <3>3. n \in Nat \ {0} /\ k \in Nat /\ j \in Nat
      BY <3>2
    <3> QED BY <3>2, <3>3, PartsDisjoint
  <2>15. OutputPath(<<e, f>>, k) = OutputPath(<<d, g>>, j)
    <3>1. OutputPath(<<e, f>>, k) =
             [ingestion_start |-> TriggerTime[e],
              index |-> OutputFileIndex(TriggerTime[e], f), part |-> k]
      BY <2>7, PathOf
    <3>2. OutputPath(<<d, g>>, j) =
             [ingestion_start |-> TriggerTime[d],
              index |-> OutputFileIndex(TriggerTime[d], g), part |-> j]
      BY <2>7, PathOf
    <3> QED BY <3>1, <3>2, <2>10, <2>11, <2>14
  <2> QED BY <2>3, <2>6, <2>15, PathDeterminesObject
<1>2. IInv => NoDuplicateRow
  BY <1>1 DEF NoDuplicateRow
<1> QED BY <1>2, Invariance, PTL

\* An execution that succeeds has replayed what it has listed.
THEOREM SuccessReplays == Spec => []SucceededReplaysItsFiles
PROOF
<1>1. ASSUME IInv, NEW e \in Executions, phase[e] = "succeeded",
             NEW f \in Listed[e], NEW r \in Batch[<<e, f>>]
      PROVE  \E o \in sink : o.path.ingestion_start = TriggerTime[e] /\ r \in o.rows
  <2>1. f \in Files
    BY ListedFiles
  <2>2. ~CannotSplit(Batch[<<e, f>>]) /\ Written(<<e, f>>, NoOfParts[<<e, f>>])
    BY <1>1 DEF IInv, ReturnedInv
  <2>3. PICK R \in SUBSET Rows, n \in Nat \ {0} : R = Batch[<<e, f>>] /\ n = NoOfParts[<<e, f>>]
    BY <1>1, <2>1, <2>2, ItemType
  <2>4. PICK k \in 0 .. n - 1 : r \in PartRows(R, n, k)
    BY <1>1, <2>3, PartsCover
  <2>5. Object(<<e, f>>, k) \in sink
    BY <2>2, <2>3, <2>4 DEF Written
  <2>6. r \in Object(<<e, f>>, k).rows
    BY <2>1, <2>3, <2>4, PartOf DEF Object
  <2>7. Object(<<e, f>>, k).path.ingestion_start = TriggerTime[e]
    <3>1. Object(<<e, f>>, k).path = OutputPath(<<e, f>>, k)
      BY DEF Object
    <3>2. OutputPath(<<e, f>>, k) =
             [ingestion_start |-> TriggerTime[e],
              index |-> OutputFileIndex(TriggerTime[e], f), part |-> k]
      BY <2>1, PathOf
    <3> QED BY <3>1, <3>2
  <2> QED BY <2>5, <2>6, <2>7
<1>2. IInv => SucceededReplaysItsFiles
  BY <1>1 DEF SucceededReplaysItsFiles
<1> QED BY <1>2, Invariance, PTL

\* No object is larger than outputFileMaxSizeInBytes, if no row is larger than
\* the first of its batch.
THEOREM ObjectsFit == Spec => []ObjectSizeBounded
PROOF
<1>1. ASSUME IInv, NEW e \in Executions, NEW f \in Listed[e],
             NEW first \in Batch[<<e, f>>],
             \A r \in Batch[<<e, f>>] : first <= r /\ RowSize[r] <= RowSize[first],
             NEW o \in sink, o.path = OutputPath(<<e, f>>, o.path.part), NEW r \in o.rows
      PROVE  HeaderSize + Cardinality(o.rows) * RowSize[r] <= FileMaxSize
  <2>1. f \in Files
    BY ListedFiles
  <2>2. PICK d \in Executions : \E g \in Listed[d] : \E j \in 0 .. NoOfParts[<<d, g>>] - 1 :
             o = Object(<<d, g>>, j)
    BY <1>1 DEF IInv, SinkInv
  <2>3. PICK g \in Listed[d] : \E j \in 0 .. NoOfParts[<<d, g>>] - 1 : o = Object(<<d, g>>, j)
    BY <2>2
  <2>4. PICK k \in 0 .. NoOfParts[<<d, g>>] - 1 : o = Object(<<d, g>>, k)
    BY <2>3
  <2>5. g \in Files
    BY ListedFiles
  <2>6. o.path = OutputPath(<<d, g>>, k) /\ o.rows = Parts[<<d, g>>][k]
    BY <2>4 DEF Object
  <2>7. /\ TriggerTime[e] = TriggerTime[d]
        /\ OutputFileIndex(TriggerTime[e], f) = OutputFileIndex(TriggerTime[d], g)
    <3>1. OutputPath(<<e, f>>, o.path.part) =
             [ingestion_start |-> TriggerTime[e],
              index |-> OutputFileIndex(TriggerTime[e], f), part |-> o.path.part]
      BY <2>1, PathOf
    <3>2. OutputPath(<<d, g>>, k) =
             [ingestion_start |-> TriggerTime[d],
              index |-> OutputFileIndex(TriggerTime[d], g), part |-> k]
      BY <2>5, PathOf
    <3>3. o.path.ingestion_start = TriggerTime[e] /\ o.path.index = OutputFileIndex(TriggerTime[e], f)
      BY <1>1, <3>1
    <3>4. o.path.ingestion_start = TriggerTime[d] /\ o.path.index = OutputFileIndex(TriggerTime[d], g)
      BY <2>6, <3>2
    <3> QED BY <3>3, <3>4
  <2>8. f = g
    BY <2>7, ListedFiles, IndexInjective
  <2>9. PICK R \in SUBSET Rows, n \in Nat : R = Batch[<<e, f>>] /\ n = NoOfParts[<<d, g>>]
    BY <2>1, <2>5, ItemType
  <2>10. R = Batch[<<d, g>>]
    BY <2>1, <2>7, <2>8, <2>9, ItemType
  <2>11. k \in 0 .. n - 1 /\ n \in Nat \ {0} /\ k \in Nat
    BY <2>4, <2>9
  <2>12. o.rows = PartRows(R, n, k)
    BY <2>4, <2>5, <2>6, <2>9, <2>10, PartOf
  <2>13. R # {} /\ ~CannotSplit(R) /\ n = CalculateNoOfFiles(R)
    <3>1. <<d, g>> \in Items
      BY <2>5 DEF Items
    <3>2. NoOfParts[<<d, g>>] = IF R = {} \/ CannotSplit(R) THEN 0 ELSE CalculateNoOfFiles(R)
      BY <2>10, <3>1 DEF NoOfParts
    <3> QED BY <2>9, <2>11, <3>2
  <2>14. \A s \in R : RowSize[s] \in Nat \ {0}
    BY BatchAssumption
  <2>15. first \in R /\ RowPerFile(R) = (FileMaxSize - HeaderSize) \div RowSize[first]
    <3>1. first \in R /\ \A s \in R : first <= s
      BY <1>1, <2>9
    <3>2. R \subseteq Nat
      BY BatchAssumption
    <3>3. \A x \in R : (\A s \in R : x <= s) => x = first
      <4> SUFFICES ASSUME NEW x \in R, \A s \in R : x <= s PROVE x = first
        OBVIOUS
      <4>1. x <= first /\ first <= x /\ x \in Nat /\ first \in Nat
        BY <3>1, <3>2
      <4> QED BY <4>1
    <3>4. (CHOOSE x \in R : \A s \in R : x <= s) = first
      BY <3>1, <3>3
    <3> QED BY <3>1, <3>4 DEF RowPerFile
  <2>16. PICK size \in Nat \ {0}, space \in Int :
            size = RowSize[first] /\ space = FileMaxSize - HeaderSize
    BY <2>14, <2>15, BatchAssumption
  <2>17. PICK p \in Nat \ {0} : p = RowPerFile(R) /\ p * size <= space
    <3>1. PICK p \in Int : p = space \div size /\ space % size \in 0 .. size - 1
                              /\ space = size * p + (space % size)
      BY DivMod
    <3>2. p = RowPerFile(R)
      BY <2>15, <2>16, <3>1
    <3>3. p \in Nat \ {0}
      BY <2>13, <3>2 DEF CannotSplit
    <3>4. p * size = size * p /\ size * p \in Int
      BY Distributes
    <3> QED BY <3>1, <3>2, <3>3, <3>4
  <2>18. PICK len \in Nat : len = Cardinality(R)
    BY BatchAssumption, FS_Subset, FS_CardinalityType
  <2>19. n = (len + p - 1) \div p
    BY <2>13, <2>17, <2>18 DEF CalculateNoOfFiles
  <2>20. PICK c \in Nat : c = Cardinality(o.rows) /\ c <= p
    <3>1. PartStart(len, n, k + 1) <= PartStart(len, n, k) + p
      BY <2>11, <2>19, PartFits
    <3>2. Cardinality(PartRows(R, n, k)) \in 0 .. p
      BY <2>11, <2>18, <3>1, PartLength
    <3> QED BY <2>12, <3>2
  <2>21. PICK w \in Nat : w = RowSize[r] /\ w <= size
    <3>1. r \in R
      BY <1>1, <2>12 DEF PartRows
    <3> QED BY <1>1, <2>9, <2>14, <2>16, <3>1
  <2>22. c * w <= p * size
    <3>1. c * w <= p * w
      BY <2>20, ProductMonotone
    <3>2. w * p <= size * p
      BY <2>21, ProductMonotone
    <3>3. w * p = p * w /\ size * p = p * size /\ c * w \in Nat /\ p * w \in Nat /\ p * size \in Nat
      BY Distributes
    <3> QED BY <3>1, <3>2, <3>3
  <2>23. HeaderSize \in Nat /\ FileMaxSize \in Nat /\ c * w \in Nat /\ p * size \in Nat
    BY BatchAssumption
  <2>24. HeaderSize + c * w <= FileMaxSize
    BY <2>16, <2>17, <2>22, <2>23
  <2> QED BY <2>20, <2>21, <2>24
<1>2. IInv => ObjectSizeBounded
  BY <1>1 DEF ObjectSizeBounded
<1> QED BY <1>2, Invariance, PTL
=============================================================================
