--------------------------- MODULE ChecksumProofs ---------------------------
(***************************************************************************)
(* Proofs about Checksum, for every number of byte values and buffers of   *)
(* every length.  Whole multiples of R - 1 do not matter to the result, so *)
(* that the facts about % and \div that the proofs need come first.        *)
(***************************************************************************)
EXTENDS Checksum, TLAPS

LEMMA Division ==
  ASSUME NEW a \in Int, NEW m \in Nat, m > 0
  PROVE  /\ a \div m \in Int /\ a % m \in Int /\ 0 <= a % m /\ a % m < m
         /\ a = m * (a \div m) + (a % m)
<1>1. a \div m \in Int /\ a % m \in Int /\ 0 <= a % m /\ a % m < m
  OBVIOUS
<1>2. a = m * (a \div m) + (a % m)
  OBVIOUS
<1> QED BY <1>1, <1>2

LEMMA Shifted ==
  ASSUME NEW a \in Int, NEW m \in Nat, m > 0, NEW w \in Int
  PROVE  (a + m * w) % m = a % m /\ (a + m * w) \div m = (a \div m) + w
OBVIOUS

LEMMA SumModulo ==
  ASSUME NEW a \in Int, NEW m \in Nat, m > 0, NEW w \in Int
  PROVE  ((a % m) + w) % m = (a + w) % m
<1> DEFINE q == a \div m  r == a % m
<1>1. q \in Int /\ r \in Int /\ a = m * q + r
  BY Division
<1> HIDE DEF q, r
<1>2. r + w + m * q = a + w /\ r + w \in Int
  BY <1>1
<1>3. (r + w + m * q) % m = (r + w) % m
  BY <1>1, <1>2, Shifted
<1> QED BY <1>2, <1>3 DEF r

LEMMA SmallModulo ==
  ASSUME NEW m \in Nat, NEW a \in 0..(m - 1)
  PROVE  a % m = a /\ a \div m = 0
OBVIOUS

LEMMA Parameters == R \in Nat /\ R >= 4 /\ W \in Nat /\ W <= R /\ R * R \in Nat /\ R * R > 0
<1>1. W \in Nat /\ W >= 2
  BY ChecksumAssumption DEF ChecksumAssumption
<1>2. W * W \in Nat /\ W * W >= 2 * W
  BY <1>1
<1>3. R \in Nat /\ R >= 4 /\ W <= R
  BY <1>1, <1>2 DEF R
<1>4. \A r \in Nat : r >= 4 => r * r \in Nat /\ r * r > 0
  OBVIOUS
<1> QED BY <1>1, <1>3, <1>4

(* Numbers are congruent if they differ by a multiple of R - 1.            *)
LEMMA CongruentIff ==
  ASSUME NEW a \in Int, NEW b \in Int
  PROVE  Congruent(a, b) <=> \E k \in Int : a - b = (R - 1) * k
<1> DEFINE m == R - 1  d == a - b
<1>1. m \in Nat /\ m > 0 /\ d \in Int
  BY Parameters
<1> HIDE DEF m, d
<1>2. ASSUME d % m = 0 PROVE \E k \in Int : d = m * k
  <2>1. d \div m \in Int /\ d = m * (d \div m) + 0
    BY <1>1, <1>2, Division
  <2>2. m * (d \div m) \in Int
    BY <1>1, <2>1
  <2> QED BY <2>1, <2>2
<1>3. ASSUME NEW k \in Int, d = m * k PROVE d % m = 0
  <2>1. (0 + m * k) % m = 0 % m
    BY <1>1, Shifted
  <2>2. 0 % m = 0 /\ 0 + m * k = m * k
    BY <1>1, SmallModulo
  <2> QED BY <1>3, <2>1, <2>2
<1> QED BY <1>2, <1>3 DEF Congruent, m, d

LEMMA CongruentSame ==
  ASSUME NEW a \in Int
  PROVE  Congruent(a, a)
<1>1. a - a = (R - 1) * 0
  BY Parameters
<1> QED BY <1>1, CongruentIff

LEMMA CongruentShift ==
  ASSUME NEW a \in Int, NEW b \in Int, Congruent(a, b), NEW w \in Int, NEW k \in Int
  PROVE  Congruent(a + w + (R - 1) * k, b + w)
<1>1. PICK j \in Int : a - b = (R - 1) * j
  BY CongruentIff
<1>2. (R - 1) * k \in Int /\ (R - 1) * (j + k) = (R - 1) * j + (R - 1) * k
  BY Parameters
<1>3. (a + w + (R - 1) * k) - (b + w) = (R - 1) * (j + k)
  BY <1>1, <1>2
<1> QED BY <1>2, <1>3, CongruentIff

LEMMA CongruentTransitive ==
  ASSUME NEW a \in Int, NEW b \in Int, NEW c \in Int, Congruent(a, b)
  PROVE  Congruent(c, b) => Congruent(a, c) /\ Congruent(c, a)
<1> SUFFICES ASSUME Congruent(c, b) PROVE Congruent(a, c) /\ Congruent(c, a)
  OBVIOUS
<1>1. PICK j \in Int : a - b = (R - 1) * j
  BY CongruentIff
<1>2. PICK k \in Int : c - b = (R - 1) * k
  BY CongruentIff
<1>3. (R - 1) * (j - k) = (R - 1) * j - (R - 1) * k /\ (R - 1) * (k - j) = (R - 1) * k - (R - 1) * j
  BY Parameters
<1>4. a - c = (R - 1) * (j - k) /\ c - a = (R - 1) * (k - j)
  BY <1>1, <1>2, <1>3
<1> QED BY <1>4, CongruentIff

(* Of congruent words only 0 and R - 1 can differ.                         *)
LEMMA CongruentEqual ==
  ASSUME NEW a \in 0..(R - 1), NEW b \in 0..(R - 1), Congruent(a, b), a = 0 <=> b = 0
  PROVE  a = b
<1>0. a \in Int /\ b \in Int
  BY Parameters
<1>1. PICK k \in Int : a - b = (R - 1) * k
  BY <1>0, CongruentIff
<1> DEFINE m == R - 1
<1>2. m \in Nat /\ m > 0 /\ a \in Nat /\ b \in Nat /\ a <= m /\ b <= m
  BY Parameters
<1> HIDE DEF m
<1>3. a - b = m * k /\ a - b < m /\ b - a < m
  BY <1>1, <1>2 DEF m
<1>4. /\ \A x \in Int : x >= 1 => m * x >= m
      /\ \A x \in Int : x <= -1 => m * x <= -m
  BY <1>2
<1>5. k = 0
  BY <1>2, <1>3, <1>4
<1>6. m * 0 = 0
  BY <1>2
<1> QED BY <1>2, <1>3, <1>5, <1>6

(***************************************************************************)
(* The invariant: beside IInv and the result, the range of what the second *)
(* fold gets, which the remainder depends on, and that this is zero for    *)
(* nothing but zeros as long as the int has not overflowed.                *)
(***************************************************************************)
Folded ==
  pc = "again" =>
    /\ fn = "calculate" /\ sum >= -(R - 1)
    /\ Lost = 0 => sum >= 0 /\ (sum = 0 <=> total = 0)

Inductive == IInv /\ sum \in Int /\ Folded /\ Rfc1071

(* What an int keeps of a sum.                                             *)
LEMMA HalfFacts == Half \in Nat /\ Half <= R * (R - 1)
<1>1. \A p \in Nat : p \div 2 \in Nat /\ 2 * (p \div 2) <= p
  OBVIOUS
<1>2. R * R \in Nat /\ R * (R - 1) = R * R - R /\ 2 * R <= R * R
  BY Parameters
<1> QED BY <1>1, <1>2, Parameters DEF Half

LEMMA WrapFacts ==
  ASSUME NEW s \in Int
  PROVE  /\ Wrap(s) \in Int /\ -(R * (R - 1)) <= Wrap(s) /\ Wrap(s) < R * R
         /\ \E q \in Int : s = Wrap(s) + (R * R) * q
<1> DEFINE m == R * R  a == s + Half
<1>1. m \in Nat /\ m > 0 /\ a \in Int /\ Half \in Nat
  BY Parameters, HalfFacts
<1> HIDE DEF m, a
<1>2. a \div m \in Int /\ a % m \in Int /\ 0 <= a % m /\ a % m < m /\ a = m * (a \div m) + (a % m)
  BY <1>1, Division
<1>3. Wrap(s) = (a % m) - Half
  BY DEF Wrap, m, a
<1>4. m * (a \div m) \in Int
  BY <1>1, <1>2
<1>5. s = Wrap(s) + m * (a \div m)
  BY <1>1, <1>2, <1>3, <1>4 DEF a
<1>6. R * (R - 1) \in Int /\ Half <= R * (R - 1)
  BY Parameters, HalfFacts
<1>7. Wrap(s) \in Int /\ -(R * (R - 1)) <= Wrap(s) /\ Wrap(s) < m
  BY <1>1, <1>2, <1>3, <1>6
<1> QED BY <1>2, <1>5, <1>7 DEF m

LEMMA WrapSum ==
  ASSUME NEW s \in Int, NEW w \in Int
  PROVE  Wrap(Wrap(s) + w) = Wrap(s + w)
<1> DEFINE m == R * R  a == s + Half
<1>1. m \in Nat /\ m > 0 /\ a \in Int /\ Half \in Int
  BY Parameters, HalfFacts
<1>2. a % m \in Int
  BY <1>1, Division
<1>3. Wrap(s) = (a % m) - Half
  BY DEF Wrap
<1> HIDE DEF m, a
<1>4. Wrap(s) + w + Half = (a % m) + w /\ s + w + Half = a + w
  BY <1>1, <1>2, <1>3 DEF a
<1>5. ((a % m) + w) % m = (a + w) % m
  BY <1>1, SumModulo
<1> QED BY <1>4, <1>5 DEF Wrap, m

(* An int and what is seen of it when it is shifted have the same low word.*)
LEMMA LowWord ==
  ASSUME NEW s \in Int
  PROVE  (s % (R * R)) % R = s % R
<1> DEFINE m == R * R  q == s \div m  r == s % m
<1>1. m \in Nat /\ m > 0 /\ R \in Nat /\ R > 0
  BY Parameters
<1>2. \A x \in Int : m * x = R * (R * x) /\ R * x \in Int
  BY Parameters
<1>3. q \in Int /\ r \in Int /\ s = m * q + r
  BY <1>1, Division
<1> HIDE DEF q, r, m
<1>4. s = r + R * (R * q) /\ R * q \in Int
  <2>1. m * q = R * (R * q) /\ R * q \in Int
    BY <1>2, <1>3
  <2>2. R * (R * q) \in Int
    BY <1>1, <2>1
  <2> QED BY <1>3, <2>1, <2>2
<1>5. (r + R * (R * q)) % R = r % R
  BY <1>1, <1>3, <1>4, Shifted
<1> QED BY <1>4, <1>5 DEF r, m

LEMMA TakenFacts ==
  ASSUME total \in Nat
  PROVE  /\ Taken \in Int /\ -(R * (R - 1)) <= Taken /\ Taken < R * R
         /\ Lost \in Int /\ (fn # "compute" => total = Taken + (R * R) * Lost)
         /\ High(Wrap(total)) = Taken \div R /\ Wrap(total) % R = Taken % R
<1> DEFINE s == Wrap(total)  m == R * R
<1>1. /\ s \in Int /\ -(R * (R - 1)) <= s /\ s < m
      /\ \E q \in Int : total = s + m * q
  BY WrapFacts
<1>2. /\ m \in Nat /\ m > 0 /\ 0 <= R * (R - 1) /\ R * (R - 1) \in Int /\ total \in Int
      /\ \A x, y \in Int : m * x \in Int /\ m * y \in Int /\ m * (x + y) = m * x + m * y
  BY Parameters
<1> HIDE DEF s, m
<1>3. /\ Taken = IF shift = "logical" THEN s % m ELSE s
      /\ High(s) = Taken \div R
  BY DEF Taken, High, s, m
<1>4. /\ Taken \in Int /\ -(R * (R - 1)) <= Taken /\ Taken < m /\ s % R = Taken % R
      /\ \E q \in Int : s = Taken + m * q
  <2>1. CASE shift = "logical"
    <3>1. s \div m \in Int /\ s % m \in Int /\ 0 <= s % m /\ s % m < m /\ s = m * (s \div m) + (s % m)
      BY <1>1, <1>2, Division
    <3>2. (s % m) % R = s % R
      BY <1>1, LowWord DEF m
    <3>3. m * (s \div m) \in Int
      BY <1>2, <3>1
    <3>4. s = (s % m) + m * (s \div m)
      BY <3>1, <3>3
    <3>5. Taken = s % m
      BY <1>3, <2>1
    <3>6. \E q \in Int : s = (s % m) + m * q
      BY <3>1, <3>4
    <3>7. \A t, b \in Int : 0 <= t /\ 0 <= b => -b <= t
      OBVIOUS
    <3>8. -(R * (R - 1)) <= s % m
      BY <1>2, <3>1, <3>7
    <3> QED BY <3>1, <3>2, <3>5, <3>6, <3>8
  <2>2. CASE shift # "logical"
    <3>1. s = s + m * 0
      BY <1>1, <1>2
    <3>2. Taken = s
      BY <1>3, <2>2
    <3> QED BY <1>1, <3>1, <3>2
  <2> QED BY <2>1, <2>2
<1>5. PICK q \in Int : total = s + m * q
  BY <1>1
<1>6. PICK p \in Int : s = Taken + m * p
  BY <1>4
<1>7. total = Taken + m * (p + q) /\ p + q \in Int
  <2>1. m * p \in Int /\ m * q \in Int /\ m * (p + q) = m * p + m * q /\ p + q \in Int
    BY <1>2
  <2> QED BY <1>4, <1>5, <1>6, <2>1
<1>8. CASE fn = "compute"
  <2>1. Lost = 0
    BY <1>8 DEF Lost
  <2> QED BY <1>3, <1>4, <1>8, <2>1 DEF s, m
<1>9. CASE fn # "compute"
  <2>1. total - Taken = 0 + m * (p + q)
    BY <1>2, <1>4, <1>7
  <2>2. (0 + m * (p + q)) \div m = (0 \div m) + (p + q)
    BY <1>2, <1>7, Shifted
  <2>3. 0 \div m = 0
    BY <1>2, SmallModulo
  <2>4. Lost = p + q
    BY <1>7, <1>9, <2>1, <2>2, <2>3 DEF Lost, m
  <2> QED BY <1>3, <1>4, <1>7, <2>4 DEF s, m
<1> QED BY <1>8, <1>9

(***************************************************************************)
(* The actions.                                                            *)
(***************************************************************************)
LEMMA InitInductive == Init => Inductive
<1> SUFFICES ASSUME Init PROVE Inductive
  OBVIOUS
<1>1. fn \in {"calculate", "compute"} /\ shift \in {"arithmetic", "logical"}
      /\ left \in 0..MaxLen /\ sum = 0 /\ pc = "add" /\ answer = 0 /\ total = 0 /\ ones = 0
  BY DEF Init
<1>2. Half \in 0..(R * R - 1)
  <2>1. R * (R - 1) = R * R - R /\ R * (R - 1) \in Int
    BY Parameters
  <2> QED BY <2>1, HalfFacts, Parameters
<1>3. Half % (R * R) = Half
  BY <1>2, SmallModulo, Parameters
<1>4. Wrap(0) = 0
  BY <1>2, <1>3, HalfFacts DEF Wrap
<1>5. Congruent(0, 0) /\ 0 \in 0..(R - 1)
  BY CongruentSame, Parameters
<1>6. TypeOK
  BY <1>1, <1>5 DEF TypeOK
<1>7. IInv
  BY <1>1, <1>4, <1>5, <1>6 DEF IInv
<1> QED BY <1>1, <1>7 DEF Inductive, Folded, Rfc1071

LEMMA OnesAddFacts ==
  ASSUME NEW a \in 0..(R - 1), NEW t \in Nat, NEW w \in 0..(R - 1), Congruent(a, t), a = 0 <=> t = 0
  PROVE  /\ OnesAdd(a, w) \in 0..(R - 1) /\ Congruent(OnesAdd(a, w), t + w)
         /\ OnesAdd(a, w) = 0 <=> t + w = 0
<1>1. a \in Nat /\ w \in Nat /\ a < R /\ w < R /\ R \in Nat /\ R >= 4
  BY Parameters
<1>2. \A k \in Int : Congruent(a + w + (R - 1) * k, t + w)
  <2>1. a \in Int /\ t \in Int /\ w \in Int
    BY <1>1
  <2> QED BY <2>1, CongruentShift
<1>3. (R - 1) * 0 = 0 /\ (R - 1) * (-1) = 1 - R
  BY <1>1
<1>4. a + w + (R - 1) * 0 = a + w /\ a + w + (R - 1) * (-1) = a + w - R + 1
  BY <1>1, <1>3
<1>5. Congruent(a + w, t + w) /\ Congruent(a + w - R + 1, t + w)
  BY <1>2, <1>4
<1>6. CASE a + w >= R
  <2>1. OnesAdd(a, w) = a + w - R + 1
    BY <1>6 DEF OnesAdd
  <2> QED BY <1>1, <1>5, <1>6, <2>1
<1>7. CASE ~(a + w >= R)
  <2>1. OnesAdd(a, w) = a + w
    BY <1>7 DEF OnesAdd
  <2> QED BY <1>1, <1>5, <1>7, <2>1
<1> QED BY <1>6, <1>7

LEMMA AddStep ==
  ASSUME Inductive, pc = "add", NEW w \in 0..(R - 1), Add(w),
         left' \in 0..MaxLen, UNCHANGED <<fn, shift, pc, answer>>
  PROVE  Inductive'
<1>1. TypeOK /\ Congruent(ones, total) /\ (ones = 0 <=> total = 0) /\ sum \in Int
      /\ sum = IF fn = "calculate" THEN Wrap(total) ELSE total
  BY DEF Inductive, IInv
<1>2. total \in Nat /\ ones \in 0..(R - 1) /\ total \in Int /\ w \in Int /\ w \in Nat
  BY <1>1, Parameters DEF TypeOK
<1>3. total' = total + w /\ ones' = OnesAdd(ones, w)
      /\ sum' = IF fn = "calculate" THEN Wrap(sum + w) ELSE sum + w
  BY DEF Add
<1>4. ones' \in 0..(R - 1) /\ Congruent(ones', total') /\ (ones' = 0 <=> total' = 0)
  BY <1>1, <1>2, <1>3, OnesAddFacts
<1>5. total' \in Nat /\ total + w \in Int
  BY <1>2, <1>3
<1>6. sum' = (IF fn = "calculate" THEN Wrap(total') ELSE total') /\ sum' \in Int
  <2>1. CASE fn = "calculate"
    BY <1>1, <1>2, <1>3, <1>5, <2>1, WrapSum, WrapFacts
  <2>2. CASE fn # "calculate"
    BY <1>1, <1>2, <1>3, <1>5, <2>2
  <2> QED BY <2>1, <2>2
<1>7. TypeOK'
  BY <1>1, <1>4, <1>5 DEF TypeOK
<1>8. IInv'
  BY <1>4, <1>6, <1>7 DEF IInv, Congruent
<1> QED BY <1>6, <1>8 DEF Inductive, Folded, Rfc1071

LEMMA EndAddStep == Inductive /\ EndAdd => Inductive'
<1> SUFFICES ASSUME Inductive, EndAdd PROVE Inductive'
  OBVIOUS
<1>1. pc = "add" /\ pc' = "fold" /\ UNCHANGED <<fn, shift, left, sum, answer, total, ones>>
  BY DEF EndAdd
<1>2. TypeOK /\ Congruent(ones, total) /\ (ones = 0 <=> total = 0) /\ sum \in Int
      /\ sum = IF fn = "calculate" THEN Wrap(total) ELSE total
  BY <1>1 DEF Inductive, IInv
<1>3. total \in Nat /\ Congruent(total, total)
  BY <1>2, CongruentSame DEF TypeOK
<1>4. TypeOK'
  BY <1>1, <1>2 DEF TypeOK
<1>5. (fn = "calculate" => sum = Wrap(total)) /\ (fn = "compute" => sum = total)
  BY <1>2
<1>6. IInv'
  <2>1. Congruent(ones', total') /\ (ones' = 0 <=> total' = 0)
    BY <1>1, <1>2
  <2>2. fn' = "calculate" => sum' = IF fn' = "calculate" THEN Wrap(total') ELSE total'
    BY <1>1, <1>5
  <2>3. fn' = "compute" => sum' \in Nat /\ Congruent(sum', total') /\ (sum' = 0 <=> total' = 0)
    BY <1>1, <1>3, <1>5
  <2> QED BY <1>1, <1>4, <2>1, <2>2, <2>3 DEF IInv, Congruent
<1> QED BY <1>1, <1>2, <1>6 DEF Inductive, Folded, Rfc1071

(* The first fold takes away R - 1 for each R in the high half, and never  *)
(* makes more of the sum than the second can fold.                         *)
LEMMA FirstFold ==
  ASSUME NEW t \in Int, -(R * (R - 1)) <= t, t < R * R
  PROVE  /\ (t \div R) + (t % R) \in -(R - 1)..(2 * R - 2)
         /\ t >= 0 => t \div R >= 0
         /\ t = R * (t \div R) + (t % R) /\ t \div R \in Int /\ t % R \in 0..(R - 1)
<1> DEFINE d == t \div R  r == t % R
<1>1. R \in Nat /\ R >= 4
  BY Parameters
<1>2. d \in Int /\ r \in Int /\ 0 <= r /\ r < R /\ t = R * d + r
  BY <1>1, Division
<1> HIDE DEF d, r
<1>3. /\ \A x \in Int : x >= R => R * x >= R * R
      /\ \A x \in Int : x <= -R => R * x <= -(R * R)
      /\ \A x \in Int : x <= -1 => R * x <= -R
      /\ R * (R - 1) = R * R - R /\ R * R \in Int
  BY <1>1
<1>4. R * d \in Int
  BY <1>1, <1>2
<1>5. d < R
  BY <1>1, <1>2, <1>3, <1>4
<1>6. d > -R
  BY <1>1, <1>2, <1>3, <1>4
<1>7. t >= 0 => d >= 0
  BY <1>1, <1>2, <1>3, <1>4
<1>8. d + r \in -(R - 1)..(2 * R - 2) /\ r \in 0..(R - 1)
  BY <1>1, <1>2, <1>5, <1>6
<1> QED BY <1>2, <1>7, <1>8 DEF d, r

LEMMA FoldStep == Inductive /\ Fold => Inductive'
<1> SUFFICES ASSUME Inductive, Fold PROVE Inductive'
  OBVIOUS
<1> DEFINE d == Taken \div R  r == Taken % R
<1>1. /\ pc = "fold" /\ fn = "calculate" /\ pc' = "again" /\ sum' = High(sum) + (sum % R)
      /\ UNCHANGED <<fn, shift, left, answer, total, ones>>
  BY DEF Fold
<1>2. TypeOK /\ Congruent(ones, total) /\ (ones = 0 <=> total = 0) /\ sum = Wrap(total)
  BY <1>1 DEF Inductive, IInv
<1>3. total \in Nat /\ R \in Nat /\ R >= 4
  BY <1>2, Parameters DEF TypeOK
<1>4. /\ Taken \in Int /\ -(R * (R - 1)) <= Taken /\ Taken < R * R
      /\ Lost \in Int /\ total = Taken + (R * R) * Lost
      /\ sum' = d + r
  <2>1. /\ Taken \in Int /\ -(R * (R - 1)) <= Taken /\ Taken < R * R
        /\ Lost \in Int /\ (fn # "compute" => total = Taken + (R * R) * Lost)
        /\ High(Wrap(total)) = d /\ Wrap(total) % R = r
    BY <1>3, TakenFacts
  <2>2. sum' = High(Wrap(total)) + (Wrap(total) % R) /\ fn # "compute"
    BY <1>1, <1>2
  <2> QED BY <2>1, <2>2
<1>5. /\ d + r \in -(R - 1)..(2 * R - 2) /\ (Taken >= 0 => d >= 0)
      /\ Taken = R * d + r /\ d \in Int /\ r \in 0..(R - 1)
  BY <1>4, FirstFold
<1> HIDE DEF d, r
<1>6. Taken' = Taken /\ Lost' = Lost
  BY <1>1 DEF Taken, Lost, Wrap, Half
<1>7. Congruent(d + r, total - Lost)
  <2>1. \A m \in Nat, x, y, z \in Int :
          (x + y) - ((m * x + y) + (m * m) * z - z) = (m - 1) * (-x - (m + 1) * z)
    OBVIOUS
  <2>2. r \in Int /\ -d - (R + 1) * Lost \in Int
    BY <1>3, <1>4, <1>5
  <2>3. (d + r) - (total - Lost) = (R - 1) * (-d - (R + 1) * Lost)
    BY <1>3, <1>4, <1>5, <2>1, <2>2
  <2>4. d + r \in Int /\ total - Lost \in Int
    BY <1>3, <1>4, <1>5
  <2> QED BY <2>2, <2>3, <2>4, CongruentIff
<1>8. ASSUME Lost = 0 PROVE sum' >= 0 /\ (sum' = 0 <=> total = 0)
  <2>1. (R * R) * 0 = 0
    BY <1>3
  <2>2. Taken = total
    BY <1>3, <1>4, <1>8, <2>1
  <2>3. d \in Nat /\ r \in Nat /\ total = R * d + r
    BY <1>3, <1>5, <2>2
  <2>4. \A x \in Nat : R * x \in Nat /\ (R * x = 0 <=> x = 0)
    BY <1>3
  <2>5. R * d \in Nat /\ (R * d = 0 <=> d = 0)
    BY <2>3, <2>4
  <2> QED BY <1>4, <2>3, <2>5
<1>9. TypeOK'
  BY <1>1, <1>2 DEF TypeOK
<1>10. sum' \in -R..(2 * R - 2) /\ sum' \in Int /\ sum' >= -(R - 1)
  BY <1>3, <1>4, <1>5
<1>11. R' = R /\ Congruent(ones', total') /\ (ones' = 0 <=> total' = 0)
       /\ Congruent(sum', (total - Lost)')
  BY <1>1, <1>2, <1>4, <1>6, <1>7 DEF R
<1>12. IInv'
  BY <1>1, <1>9, <1>10, <1>11 DEF IInv, Congruent
<1>13. Folded'
  BY <1>1, <1>6, <1>8, <1>10 DEF Folded
<1> QED BY <1>1, <1>10, <1>12, <1>13 DEF Inductive, Rfc1071

(* The second fold and the complement: a word that stands for the sum.     *)
LEMMA SecondFold ==
  ASSUME NEW s \in -(R - 1)..(2 * R - 2)
  PROVE  LET x == R - 1 - ((R - 1 - (s + High(s))) % R)
         IN  /\ x \in 0..(R - 1) /\ \E k \in Int : x = s + (R - 1) * k
             /\ s >= 0 => (x = 0 <=> s = 0)
<1> DEFINE h == High(s)  y == R - 1 - (s + h)  x == R - 1 - (y % R)
<1>1. R \in Nat /\ R >= 4 /\ R > 0 /\ s \in Int /\ -R < s /\ s <= 2 * R - 2
      /\ R * R \in Nat /\ R * R > 0
  BY Parameters
<1>2. /\ \A z \in 0..(R - 1) : z % R = z /\ z \div R = 0
      /\ \A z, w \in Int : (z + R * w) % R = z % R /\ (z + R * w) \div R = (z \div R) + w
      /\ R * 1 = R /\ R * (-1) = -R /\ R * (-2) = -2 * R
  BY <1>1, SmallModulo, Shifted
<1>3. (R - 1) * 0 = 0 /\ (R - 1) * 1 = R - 1 /\ (R - 1) * (-1) = 1 - R
  BY <1>1
<1>4. CASE s < 0
  <2>1. s + R \in 0..(R - 1) /\ s = (s + R) + R * (-1)
    BY <1>1, <1>2, <1>4
  <2>2. s \div R = -1
    <3>1. s \div R = ((s + R) \div R) + (-1)
      BY <1>1, <1>2, <2>1
    <3> QED BY <1>2, <2>1, <3>1
  <2>3. CASE shift = "logical"
    <3>1. R * R >= R /\ s + R * R \in 0..(R * R - 1)
      <4>1. R * R >= R
        BY <1>1
      <4> QED BY <1>1, <1>4, <4>1
    <3>2. s % (R * R) = s + R * R
      <4>1. (s + (R * R) * 1) % (R * R) = s % (R * R)
        BY <1>1, Shifted
      <4>2. (R * R) * 1 = R * R
        BY <1>1
      <4> QED BY <1>1, <3>1, <4>1, <4>2, SmallModulo
    <3>3. h = R - 1
      <4>1. h = (s + R * R) \div R
        BY <2>3, <3>2 DEF High
      <4>2. (s + R * R) \div R = (s \div R) + R
        BY <1>1, <1>2
      <4> QED BY <1>1, <2>2, <4>1, <4>2
    <3> HIDE DEF h
    <3>4. y = -s /\ -s \in 0..(R - 1)
      BY <1>1, <1>4, <3>3
    <3>5. x = s + (R - 1) * 1 /\ x \in 0..(R - 1)
      BY <1>1, <1>2, <1>3, <3>4
    <3> QED BY <1>4, <3>5, <1>1 DEF h
  <2>4. CASE shift # "logical"
    <3>1. h = -1
      BY <2>2, <2>4 DEF High
    <3> HIDE DEF h
    <3>2. y = -s + R * 1 /\ -s \in 0..(R - 1) /\ -s \in Int
      BY <1>1, <1>2, <1>4, <3>1
    <3>3. y % R = -s
      BY <1>1, <1>2, <3>2
    <3>4. x = s + (R - 1) * 1 /\ x \in 0..(R - 1)
      BY <1>1, <1>3, <3>2, <3>3
    <3> QED BY <1>4, <3>4, <1>1 DEF h
  <2> QED BY <2>3, <2>4
<1>5. ASSUME s >= 0 PROVE h = s \div R
  <2>1. 2 * R <= R * R
    BY <1>1
  <2>2. s \in 0..(R * R - 1)
    BY <1>1, <1>5, <2>1
  <2> QED BY <1>1, <2>2, SmallModulo DEF High
<1>6. CASE s >= 0 /\ s < R
  <2>1. h = 0 /\ s \in 0..(R - 1)
    BY <1>1, <1>2, <1>5, <1>6
  <2> HIDE DEF h
  <2>2. y = R - 1 - s /\ y \in 0..(R - 1)
    BY <1>1, <2>1
  <2>3. x = s + (R - 1) * 0 /\ x = s
    BY <1>1, <1>2, <1>3, <2>2
  <2> QED BY <2>1, <2>3 DEF h
<1>7. CASE s >= R
  <2>1. s - R \in 0..(R - 1) /\ s - R \in Int /\ s = (s - R) + R * 1
    BY <1>1, <1>2, <1>7
  <2>2. s \div R = 1
    <3>1. s \div R = ((s - R) \div R) + 1
      BY <1>1, <1>2, <2>1
    <3> QED BY <1>2, <2>1, <3>1
  <2>3. h = 1
    BY <1>1, <1>5, <1>7, <2>2
  <2> HIDE DEF h
  <2>4. y = (2 * R - 2 - s) + R * (-1) /\ 2 * R - 2 - s \in 0..(R - 1) /\ 2 * R - 2 - s \in Int
    BY <1>1, <1>2, <1>7, <2>3
  <2>5. y % R = 2 * R - 2 - s
    <3> DEFINE z == 2 * R - 2 - s
    <3>1. z \in 0..(R - 1) /\ z \in Int /\ y = z + R * (-1)
      BY <2>4
    <3> HIDE DEF z
    <3>2. (z + R * (-1)) % R = z % R /\ z % R = z
      BY <1>2, <3>1
    <3>3. y % R = z
      BY <3>1, <3>2
    <3> QED BY <3>3 DEF z
  <2>6. x = s + (R - 1) * (-1) /\ x \in 0..(R - 1) /\ x > 0
    BY <1>1, <1>3, <1>7, <2>4, <2>5
  <2> QED BY <1>1, <1>7, <2>6 DEF h
<1> QED BY <1>1, <1>4, <1>6, <1>7

LEMMA FoldAgainStep == Inductive /\ FoldAgain => Inductive'
<1> SUFFICES ASSUME Inductive, FoldAgain PROVE Inductive'
  OBVIOUS
<1> DEFINE x == R - 1 - answer'
<1>1. /\ pc = "again" /\ pc' = "done" /\ sum' = sum + High(sum) /\ answer' = (R - 1 - sum') % R
      /\ UNCHANGED <<fn, shift, left, total, ones>>
  BY DEF FoldAgain
<1>2. /\ TypeOK /\ Congruent(ones, total) /\ (ones = 0 <=> total = 0)
      /\ fn = "calculate" /\ sum \in -(R - 1)..(2 * R - 2) /\ Congruent(sum, total - Lost)
      /\ Lost = 0 => sum >= 0 /\ (sum = 0 <=> total = 0)
  <2>1. R \in Nat /\ sum \in -R..(2 * R - 2) /\ sum >= -(R - 1)
    BY <1>1, Parameters DEF Inductive, IInv, Folded
  <2>2. sum \in -(R - 1)..(2 * R - 2)
    BY <2>1
  <2> QED BY <1>1, <2>2 DEF Inductive, IInv, Folded
<1>3. /\ total \in Nat /\ total \in Int /\ ones \in 0..(R - 1) /\ ones \in Int /\ Lost \in Int
      /\ R \in Nat /\ R >= 4 /\ sum \in Int
  <2>1. total \in Nat /\ ones \in 0..(R - 1)
    BY <1>2 DEF TypeOK
  <2>2. Lost \in Int
    BY <2>1, TakenFacts
  <2> QED BY <1>2, <2>1, <2>2, Parameters
<1>4. /\ x \in 0..(R - 1) /\ \E k \in Int : x = sum + (R - 1) * k
      /\ sum >= 0 => (x = 0 <=> sum = 0)
  BY <1>1, <1>2, SecondFold
<1>5. answer' \in 0..(R - 1) /\ answer' = R - 1 - x /\ x \in Int
  <2>1. High(sum) \in Int
    <3>1. \A n \in Int : n \div R \in Int
      BY <1>3
    <3>2. sum % (R * R) \in Int
      BY <1>3, Parameters
    <3> QED BY <1>3, <3>1, <3>2 DEF High
  <2>2. R - 1 - sum' \in Int
    BY <1>1, <1>3, <2>1
  <2>3. answer' \in Int /\ 0 <= answer' /\ answer' < R
    BY <1>1, <1>3, <2>2, Division
  <2>4. answer' \in 0..(R - 1)
    BY <1>3, <2>3
  <2>5. \A z \in Int : z = R - 1 - (R - 1 - z) /\ R - 1 - z \in Int
    BY <1>3
  <2> QED BY <2>3, <2>4, <2>5
<1> HIDE DEF x
<1>6. Congruent(x, ones - Lost)
  <2>1. PICK k \in Int : x = sum + (R - 1) * k
    BY <1>4
  <2>0. total - Lost \in Int /\ -Lost \in Int /\ 0 \in Int
    BY <1>3
  <2>2. Congruent(sum + 0 + (R - 1) * k, total - Lost + 0)
    BY <1>2, <1>3, <2>0, CongruentShift
  <2>3. (R - 1) * k \in Int /\ sum + 0 + (R - 1) * k = x /\ total - Lost + 0 = total - Lost
    BY <1>3, <2>1
  <2>4. Congruent(x, total - Lost)
    BY <2>2, <2>3
  <2>5. Congruent(ones + (-Lost) + (R - 1) * 0, total + (-Lost))
    BY <1>2, <1>3, <2>0, CongruentShift
  <2>6. ones + (-Lost) + (R - 1) * 0 = ones - Lost /\ total + (-Lost) = total - Lost
    BY <1>3
  <2>7. Congruent(ones - Lost, total - Lost)
    BY <2>5, <2>6
  <2> QED BY <1>3, <1>5, <2>4, <2>7, CongruentTransitive
<1>7. ASSUME Lost = 0 PROVE answer' = R - 1 - ones
  <2>1. x = 0 <=> ones = 0
    BY <1>2, <1>4, <1>7
  <2>2. Congruent(x, ones)
    BY <1>3, <1>6, <1>7
  <2>3. x = ones
    BY <1>3, <1>4, <2>1, <2>2, CongruentEqual
  <2> QED BY <1>5, <2>3
<1>8. R' = R /\ Lost' = Lost
  BY <1>1 DEF Lost, Taken, Wrap, Half, R
<1>9. TypeOK'
  BY <1>1, <1>2, <1>5 DEF TypeOK
<1>10. IInv'
  BY <1>1, <1>2, <1>9 DEF IInv, Congruent
<1>11. Rfc1071'
  BY <1>1, <1>6, <1>7, <1>8 DEF Rfc1071, Congruent, x
<1>12. sum' \in Int
  <2>1. \A n \in Int : n \div R \in Int
    BY <1>3
  <2>2. sum % (R * R) \in Int
    BY <1>3, Parameters
  <2> QED BY <1>1, <1>3, <2>1, <2>2 DEF High
<1> QED BY <1>1, <1>10, <1>11, <1>12 DEF Inductive, Folded

LEMMA FoldAllStep == Inductive /\ FoldAll => Inductive'
<1> SUFFICES ASSUME Inductive, FoldAll PROVE Inductive'
  OBVIOUS
<1>1. pc = "fold" /\ fn = "compute" /\ UNCHANGED <<fn, shift, left, total, ones>>
  BY DEF FoldAll
<1>2. /\ TypeOK /\ Congruent(ones, total) /\ (ones = 0 <=> total = 0)
      /\ sum \in Nat /\ Congruent(sum, total) /\ (sum = 0 <=> total = 0)
  BY <1>1 DEF Inductive, IInv
<1>3. total \in Int /\ ones \in 0..(R - 1) /\ ones \in Int /\ R \in Nat /\ R >= 4
  BY <1>2, Parameters DEF TypeOK
<1>4. CASE sum >= R
  <2> DEFINE d == sum \div R  r == sum % R
  <2>1. sum' = r + d /\ UNCHANGED <<pc, answer>>
    BY <1>4 DEF FoldAll
  <2>2. d \in Int /\ r \in Int /\ 0 <= r /\ r < R /\ sum = R * d + r
    BY <1>2, <1>3, Division
  <2> HIDE DEF d, r
  <2>3. \A z \in Int : z <= 0 => R * z <= 0
    BY <1>3
  <2>4. R * d \in Int /\ (R - 1) * (-d) = d - R * d
    BY <1>3, <2>2
  <2>5. d > 0
    BY <1>3, <1>4, <2>2, <2>3, <2>4
  <2>6. sum' \in Nat /\ sum' # 0 /\ sum # 0
    BY <1>3, <1>4, <2>1, <2>2, <2>5
  <2>7. Congruent(sum + 0 + (R - 1) * (-d), total + 0)
    <3>1. sum \in Int /\ -d \in Int /\ 0 \in Int
      BY <1>2, <2>2
    <3> QED BY <1>2, <1>3, <3>1, CongruentShift
  <2>8. sum + 0 + (R - 1) * (-d) = sum' /\ total + 0 = total
    BY <1>2, <1>3, <2>1, <2>2, <2>4
  <2>9. Congruent(sum', total)
    BY <2>7, <2>8
  <2>10. TypeOK'
    BY <1>1, <1>2, <2>1 DEF TypeOK
  <2>11. IInv'
    BY <1>1, <1>2, <2>1, <2>6, <2>9, <2>10 DEF IInv, Congruent
  <2> QED BY <1>1, <2>1, <2>6, <2>11 DEF Inductive, Folded, Rfc1071
<1>5. CASE ~(sum >= R)
  <2>1. answer' = R - 1 - sum /\ pc' = "done" /\ sum' = sum
    BY <1>5 DEF FoldAll
  <2>2. sum \in 0..(R - 1) /\ sum \in Int /\ answer' \in 0..(R - 1) /\ R - 1 - answer' = sum
    BY <1>2, <1>3, <1>5, <2>1
  <2>3. Congruent(sum, ones) /\ (sum = 0 <=> ones = 0)
    BY <1>2, <1>3, <2>2, CongruentTransitive
  <2>4. sum = ones
    BY <1>3, <2>2, <2>3, CongruentEqual
  <2>5. Lost' = 0
    BY <1>1 DEF Lost
  <2>6. Congruent(R - 1 - answer', ones - 0)
    <3>1. ones - 0 = ones
      BY <1>3
    <3> QED BY <2>2, <2>3, <3>1
  <2>7. TypeOK'
    BY <1>1, <1>2, <2>1, <2>2 DEF TypeOK
  <2>8. IInv'
    BY <1>1, <1>2, <2>1, <2>7 DEF IInv, Congruent
  <2>9. Rfc1071'
    <3>1. R' = R /\ ones' = ones
      BY <1>1 DEF R
    <3> QED BY <2>1, <2>4, <2>5, <2>6, <3>1 DEF Rfc1071, Congruent
  <2> QED BY <2>1, <2>2, <2>8, <2>9 DEF Inductive, Folded
<1> QED BY <1>4, <1>5

LEMMA NextInductive == Inductive /\ [Next]_vars => Inductive'
<1> SUFFICES ASSUME Inductive, [Next]_vars PROVE Inductive'
  OBVIOUS
<1>1. left \in 0..MaxLen /\ MaxLen \in Nat
  BY ChecksumAssumption DEF Inductive, IInv, TypeOK, ChecksumAssumption
<1>2. CASE AddWord
  <2>1. PICK w \in 0..(R - 1) : Add(w)
    BY <1>2 DEF AddWord
  <2>2. pc = "add" /\ left' \in 0..MaxLen /\ UNCHANGED <<fn, shift, pc, answer>>
    BY <1>1, <1>2 DEF AddWord
  <2> QED BY <2>1, <2>2, AddStep
<1>3. CASE AddOdd
  <2>1. PICK b \in Byte : Add(b)
    BY <1>3 DEF AddOdd
  <2>2. b \in 0..(R - 1)
    BY Parameters DEF Byte
  <2>3. pc = "add" /\ left' \in 0..MaxLen /\ UNCHANGED <<fn, shift, pc, answer>>
    BY <1>1, <1>3 DEF AddOdd
  <2> QED BY <2>1, <2>2, <2>3, AddStep
<1>4. CASE UNCHANGED vars
  <2>1. IInv'
    BY <1>4 DEF Inductive, IInv, vars, TypeOK, Congruent, Lost, Taken, Wrap, Half, R
  <2>2. Folded' /\ Rfc1071'
    BY <1>4 DEF Inductive, Folded, Rfc1071, vars, Congruent, Lost, Taken, Wrap, Half, R
  <2> QED BY <1>4, <2>1, <2>2 DEF Inductive, vars
<1> QED BY <1>2, <1>3, <1>4, EndAddStep, FoldStep, FoldAgainStep, FoldAllStep
        DEF Next, calculate_checksum, compute_checksum

(***************************************************************************)
(* The loops of both functions keep what they are there to keep, whatever  *)
(* the size of a byte and the length of the buffer: the sum stands for the *)
(* bytes added so far, and folding it takes away multiples of R - 1 only   *)
(* (prartb_2.c:24-49, server.c:36-50).                                     *)
(***************************************************************************)
THEOREM SumInvariance == Spec => []IInv
<1>1. Inductive => IInv
  BY DEF Inductive
<1> QED BY <1>1, InitInductive, NextInductive, PTL DEF Spec

(***************************************************************************)
(* compute_checksum gives the checksum of RFC 1071, and calculate_checksum *)
(* does as long as its int does not overflow, when its second fold is the  *)
(* last one that is needed; each overflow costs one (prartb_2.c:33, 44-46, *)
(* server.c:46-49).                                                        *)
(***************************************************************************)
THEOREM ChecksumOfRfc1071 == Spec => []Rfc1071
<1>1. Inductive => Rfc1071
  BY DEF Inductive
<1> QED BY <1>1, InitInductive, NextInductive, PTL DEF Spec
=============================================================================
