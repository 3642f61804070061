--------------------------- MODULE FailureProofs ---------------------------
(***************************************************************************)
(* Theorems about Format and Failure, for an int of any size, any number   *)
(* of processes and any texts they print that fit into the buffers.        *)
(***************************************************************************)
EXTENDS Failure, SequenceTheorems, FiniteSetTheorems, WellFoundedInduction, TLAPS

-----------------------------------------------------------------------------
(* Induction and recursion over numbers                                    *)

LEMMA LeastNumber ==
  ASSUME NEW T \in SUBSET Nat, T # {}
  PROVE  \E x \in T : \A y \in T : x <= y
<1>1. PICK x \in T : \A y \in T : ~(<<y, x>> \in OpToRel(<, Nat))
  BY NatLessThanWellFounded, WFMin
<1>2. \A y \in T : ~(y < x)
  BY <1>1 DEF OpToRel
<1> QED
  BY <1>2

(* A set that contains each number when it contains those below contains   *)
(* them all.                                                               *)
LEMMA InductionBelow ==
  ASSUME NEW G, \A n \in Nat : (\A k \in 0 .. n - 1 : k \in G) => n \in G
  PROVE  Nat \subseteq G
<1> SUFFICES ASSUME Nat \ G # {} PROVE FALSE
  OBVIOUS
<1>1. PICK x \in Nat \ G : \A y \in Nat \ G : x <= y
  BY LeastNumber
<1>2. \A k \in 0 .. x - 1 : k \in G
  BY <1>1
<1> QED
  BY <1>1, <1>2

LEMMA InductionUpTo ==
  ASSUME NEW m \in Nat, NEW G, 0 \in G, \A k \in 0 .. m - 1 : k \in G => k + 1 \in G
  PROVE  0 .. m \subseteq G
<1> SUFFICES ASSUME (0 .. m) \ G # {} PROVE FALSE
  OBVIOUS
<1>1. (0 .. m) \ G \in SUBSET Nat
  OBVIOUS
<1>2. PICK x \in (0 .. m) \ G : \A y \in (0 .. m) \ G : x <= y
  BY <1>1, LeastNumber
<1>3. x # 0 /\ x - 1 \in 0 .. m - 1
  BY <1>2
<1>4. x - 1 \in G
  BY <1>2, <1>3
<1> QED
  BY <1>2, <1>3, <1>4

(* f begins with a and goes on with F as far as m.                         *)
Follows(m, V, a, F, f) ==
  f \in [0 .. m -> V] /\ f[0] = a /\ \A k \in 1 .. m : f[k] = F[k][f[k - 1]]

LEMMA RecursionUpTo ==
  ASSUME NEW V, NEW a \in V, NEW F \in [Nat -> [V -> V]], NEW m \in Nat
  PROVE  \E f : Follows(m, V, a, F, f)
<1> DEFINE G == {l \in Nat : \E f : Follows(l, V, a, F, f)}
<1>1. 0 \in G
  <2> DEFINE f == [k \in 0 .. 0 |-> a]
  <2>1. Follows(0, V, a, F, f)
    BY DEF Follows
  <2> QED
    BY <2>1
<1>2. ASSUME NEW l \in 0 .. m - 1, l \in G
      PROVE  l + 1 \in G
  <2>1. PICK f : Follows(l, V, a, F, f)
    BY <1>2
  <2> DEFINE g == [k \in 0 .. l + 1 |-> IF k = l + 1 THEN F[l + 1][f[l]] ELSE f[k]]
  <2>2. f \in [0 .. l -> V] /\ f[0] = a /\ (\A k \in 1 .. l : f[k] = F[k][f[k - 1]])
    BY <2>1 DEF Follows
  <2>3. f[l] \in V /\ F[l + 1][f[l]] \in V
    <3>1. l \in 0 .. l /\ l + 1 \in Nat
      OBVIOUS
    <3>2. f[l] \in V
      BY <2>2, <3>1
    <3> QED
      BY <3>1, <3>2
  <2>4. g \in [0 .. l + 1 -> V]
    BY <2>2, <2>3
  <2>5. g[0] = a
    BY <2>2
  <2>6. ASSUME NEW k \in 1 .. l + 1
        PROVE  g[k] = F[k][g[k - 1]]
    <3>1. CASE k = l + 1
      <4>1. g[k] = F[l + 1][f[l]] /\ g[l] = f[l] /\ k - 1 = l
        BY <3>1
      <4> QED
        BY <3>1, <4>1
    <3>2. CASE k # l + 1
      <4>1. k \in 1 .. l /\ g[k] = f[k] /\ g[k - 1] = f[k - 1]
        BY <3>2
      <4> QED
        BY <2>2, <4>1
    <3> QED
      BY <3>1, <3>2
  <2>7. Follows(l + 1, V, a, F, g)
    BY <2>4, <2>5, <2>6 DEF Follows
  <2> QED
    BY <2>7
<1>3. 0 .. m \subseteq G
  BY <1>1, <1>2, InductionUpTo
<1> QED
  BY <1>3

(* There is a function on all numbers that begins with a and goes on with  *)
(* F.                                                                      *)
GoesOn(V, a, F, f) ==
  f \in [Nat -> V] /\ f[0] = a /\ \A k \in Nat : f[k + 1] = F[k + 1][f[k]]

LEMMA Recursion ==
  ASSUME NEW V, NEW a \in V, NEW F \in [Nat -> [V -> V]]
  PROVE  \E f : GoesOn(V, a, F, f)
<1> DEFINE part(m) == CHOOSE f : Follows(m, V, a, F, f)
           f == [m \in Nat |-> part(m)[m]]
<1>1. \A m \in Nat : Follows(m, V, a, F, part(m))
  BY RecursionUpTo
<1>2. ASSUME NEW m \in Nat
      PROVE  part(m + 1)[m] = part(m)[m]
  <2> DEFINE p == part(m)
             q == part(m + 1)
             G == {k \in Nat : p[k] = q[k]}
  <2>1. Follows(m, V, a, F, p) /\ Follows(m + 1, V, a, F, q)
    BY <1>1
  <2> HIDE DEF p, q
  <2>2. 0 \in G
    BY <2>1 DEF Follows
  <2>3. ASSUME NEW k \in 0 .. m - 1, k \in G
        PROVE  k + 1 \in G
    <3>1. k + 1 \in 1 .. m /\ k + 1 \in 1 .. m + 1 /\ (k + 1) - 1 = k /\ p[k] = q[k]
      BY <2>3
    <3>2. p[k + 1] = F[k + 1][p[k]] /\ q[k + 1] = F[k + 1][q[k]]
      BY <2>1, <3>1 DEF Follows
    <3> QED
      BY <3>1, <3>2
  <2>4. 0 .. m \subseteq G
    BY <2>2, <2>3, InductionUpTo
  <2>5. p[m] = q[m]
    BY <2>4
  <2> QED
    BY <2>5 DEF p, q
<1>3. ASSUME NEW m \in Nat
      PROVE  f[m] \in V
  <2>1. m \in 0 .. m /\ part(m) \in [0 .. m -> V]
    BY <1>1 DEF Follows
  <2> QED
    BY <2>1
<1>4. f[0] = a
  BY <1>1 DEF Follows
<1>5. ASSUME NEW k \in Nat
      PROVE  f[k + 1] = F[k + 1][f[k]]
  <2>1. k + 1 \in 1 .. k + 1 /\ (k + 1) - 1 = k /\ k + 1 \in Nat
    OBVIOUS
  <2>2. part(k + 1)[k + 1] = F[k + 1][part(k + 1)[k]]
    BY <1>1, <2>1 DEF Follows
  <2>3. f[k + 1] = part(k + 1)[k + 1] /\ f[k] = part(k)[k]
    BY <2>1
  <2> QED
    BY <2>2, <2>3, <1>2
<1> QED
  <2>1. f \in [Nat -> V]
    BY <1>3
  <2> HIDE DEF f
  <2>2. GoesOn(V, a, F, f)
    BY <2>1, <1>4, <1>5 DEF GoesOn
  <2> QED
    BY <2>2

-----------------------------------------------------------------------------
(* Sequences                                                               *)

LEMMA OneMore ==
  ASSUME NEW S, NEW b \in Seq(S), NEW x \in S
  PROVE  /\ b \o <<x>> \in Seq(S)
         /\ Len(b \o <<x>>) = Len(b) + 1
         /\ \A i \in 1 .. Len(b) : (b \o <<x>>)[i] = b[i]
         /\ (b \o <<x>>)[Len(b) + 1] = x
OBVIOUS

-----------------------------------------------------------------------------
(* Division                                                                *)

LEMMA DivFact ==
  ASSUME NEW n \in Nat, NEW d \in Nat \ {0}
  PROVE  /\ n \div d \in Nat /\ n % d \in 0 .. d - 1
         /\ n = (d * (n \div d)) + (n % d)
OBVIOUS

LEMMA TimesMonotone ==
  ASSUME NEW a \in Nat, NEW b \in Nat, NEW d \in Nat, a <= b
  PROVE  d * a <= d * b
OBVIOUS

LEMMA DivUnique ==
  ASSUME NEW n \in Nat, NEW d \in Nat \ {0}, NEW r \in Nat, d * r <= n, n < d * (r + 1)
  PROVE  n \div d = r
OBVIOUS

(* Dividing by base and then by w is dividing by their product.            *)
LEMMA DivDiv ==
  ASSUME NEW n \in Nat, NEW b \in Nat \ {0}, NEW w \in Nat \ {0}
  PROVE  n \div (b * w) = (n \div b) \div w
<1>1. PICK q \in Nat, t \in 0 .. b - 1 : q = n \div b /\ n = (b * q) + t
  BY DivFact
<1>2. PICK r \in Nat, s \in 0 .. w - 1 : r = q \div w /\ q = (w * r) + s
  BY DivFact
<1>3. n = (b * (w * r)) + (b * s) + t
  <2>1. PICK x \in Nat : x = w * r
    OBVIOUS
  <2>2. b * q = (b * x) + (b * s)
    BY <1>2, <2>1
  <2>3. PICK y \in Nat, z \in Nat : y = b * x /\ z = b * s
    BY <1>2
  <2>4. n = y + z + t
    BY <1>1, <2>2, <2>3
  <2> QED
    BY <2>1, <2>3, <2>4
<1>4. b * s <= b * (w - 1)
  BY <1>2, TimesMonotone
<1>5. b * (w - 1) = (b * w) - b
  OBVIOUS
<1>6. b * (w * r) = (b * w) * r /\ (b * w) * (r + 1) = ((b * w) * r) + (b * w)
  OBVIOUS
<1>7. b * w \in Nat \ {0} /\ b * s \in Nat
  OBVIOUS
<1>8. (b * w) * r <= n /\ n < (b * w) * (r + 1)
  <2> DEFINE bw == b * w
             bs == b * s
             bwr == bw * r
  <2>1. bw \in Nat /\ bs \in Nat /\ bwr \in Nat
    BY <1>7
  <2>2. n = bwr + bs + t /\ bs <= bw - b /\ bw * (r + 1) = bwr + bw
    BY <1>3, <1>4, <1>5, <1>6
  <2> HIDE DEF bw, bs, bwr
  <2>3. bwr <= n /\ n < bwr + bw
    BY <2>1, <2>2
  <2> QED
    BY <2>2, <2>3 DEF bw, bwr
<1>9. n \div (b * w) = r
  BY <1>7, <1>8, DivUnique
<1> QED
  BY <1>1, <1>2, <1>9

-----------------------------------------------------------------------------
(* The weights of the digits, and how many there are                       *)

Bases == {10, 16}

Weight(base) == CHOOSE w : w = [k \in Nat |-> IF k = 0 THEN 1 ELSE base * w[k - 1]]

LEMMA WeightFact ==
  ASSUME NEW base \in Bases
  PROVE  /\ Weight(base) \in [Nat -> Nat]
         /\ Weight(base)[0] = 1
         /\ \A k \in Nat : Weight(base)[k + 1] = base * Weight(base)[k]
<1> DEFINE F == [k \in Nat |-> [x \in Nat |-> base * x]]
           IsWeight(w) == w = [k \in Nat |-> IF k = 0 THEN 1 ELSE base * w[k - 1]]
<1>a. PICK a \in Nat : a = 1
  OBVIOUS
<1>b. F \in [Nat -> [Nat -> Nat]]
  BY DEF Bases
<1>1. \A k \in Nat : \A x \in Nat : F[k + 1][x] = base * x
  OBVIOUS
<1> HIDE DEF F
<1>2. PICK f \in [Nat -> Nat] : f[0] = a /\ \A k \in Nat : f[k + 1] = F[k + 1][f[k]]
  <2>1. \E f : GoesOn(Nat, a, F, f)
    BY <1>b, Recursion
  <2> QED
    BY <2>1 DEF GoesOn
<1>3. ASSUME NEW k \in Nat
      PROVE  f[k] = IF k = 0 THEN 1 ELSE base * f[k - 1]
  <2>1. CASE k # 0
    <3>1. PICK l \in Nat : k = l + 1 /\ l = k - 1
      BY <2>1
    <3>2. f[l + 1] = base * f[l]
      BY <1>1, <1>2
    <3> QED
      BY <2>1, <3>1, <3>2
  <2> QED
    BY <2>1, <1>a, <1>2
<1>4. IsWeight(f)
  BY <1>2, <1>3
<1>5. IsWeight(Weight(base))
  BY <1>4 DEF Weight
<1> DEFINE w == Weight(base)
<1> HIDE DEF w
<1>6. \A k \in Nat : w[k] = IF k = 0 THEN 1 ELSE base * w[k - 1]
  BY <1>5 DEF w
<1>7. w[0] = 1 /\ \A k \in Nat : w[k + 1] = base * w[k]
  <2>1. \A k \in Nat : k + 1 \in Nat /\ k + 1 # 0 /\ (k + 1) - 1 = k
    OBVIOUS
  <2> QED
    BY <1>6, <2>1
<1>8. DOMAIN w = Nat
  BY <1>5 DEF w
<1>9. ASSUME NEW m \in Nat
      PROVE  w[m] \in Nat
  <2> DEFINE G == {k \in Nat : w[k] \in Nat}
  <2>1. 0 \in G
    BY <1>7
  <2>2. \A k \in 0 .. m - 1 : k \in G => k + 1 \in G
    BY <1>7 DEF Bases
  <2>3. 0 .. m \subseteq G
    BY <2>1, <2>2, InductionUpTo
  <2> QED
    BY <2>3
<1>10. w \in [Nat -> Nat]
  <2>1. w = [k \in Nat |-> w[k]]
    <3>1. w = [k \in Nat |-> IF k = 0 THEN 1 ELSE base * w[k - 1]]
      BY <1>5 DEF w
    <3> QED
      BY <3>1
  <2> QED
    BY <2>1, <1>9
<1> QED
  BY <1>7, <1>10 DEF w

LEMMA WeightsGrow ==
  ASSUME NEW base \in Bases
  PROVE  /\ \A k \in Nat : Weight(base)[k] > k
         /\ \A k, l \in Nat : k <= l => Weight(base)[k] <= Weight(base)[l]
<1> DEFINE w == Weight(base)
<1>1. w \in [Nat -> Nat] /\ w[0] = 1 /\ \A k \in Nat : w[k + 1] = base * w[k]
  BY WeightFact
<1> HIDE DEF w
<1>2. ASSUME NEW m \in Nat
      PROVE  w[m] > m
  <2> DEFINE G == {k \in Nat : w[k] > k}
  <2>1. 0 \in G
    BY <1>1
  <2>2. ASSUME NEW k \in 0 .. m - 1, k \in G
        PROVE  k + 1 \in G
    <3>1. PICK x \in Nat : x = w[k] /\ x > k
      BY <1>1, <2>2
    <3>2. w[k + 1] = base * x /\ base * x >= 10 * x
      BY <1>1, <3>1 DEF Bases
    <3> QED
      BY <3>1, <3>2 DEF Bases
  <2>3. 0 .. m \subseteq G
    BY <2>1, <2>2, InductionUpTo
  <2> QED
    BY <2>3
<1>3. ASSUME NEW k \in Nat, NEW l \in Nat, k <= l
      PROVE  w[k] <= w[l]
  <2> DEFINE G == {j \in Nat : k <= j => w[k] <= w[j]}
  <2>1. 0 \in G
    BY <1>1
  <2>2. ASSUME NEW j \in 0 .. l - 1, j \in G
        PROVE  j + 1 \in G
    <3>0. j \in Nat /\ j + 1 \in Nat
      OBVIOUS
    <3>1. PICK x \in Nat, y \in Nat, z \in Nat : x = w[k] /\ y = w[j] /\ z = w[j + 1]
      BY <1>1, <3>0
    <3>2. z = base * y
      BY <1>1, <3>1
    <3>3. z >= y
      BY <3>2 DEF Bases
    <3>4. k <= j => x <= y
      BY <2>2, <3>1
    <3>5. k = j + 1 => x = z
      BY <3>1
    <3>6. k <= j + 1 => x <= z
      BY <3>3, <3>4, <3>5
    <3> QED
      BY <3>1, <3>6
  <2>3. 0 .. l \subseteq G
    BY <2>1, <2>2, InductionUpTo
  <2>4. l \in G
    BY <2>3
  <2> QED
    BY <1>3, <2>4
<1> QED
  BY <1>2, <1>3 DEF w

SizeOf(n, base, k) ==
  k \in 1 .. n + 1 /\ n < Weight(base)[k] /\ (k > 1 => n >= Weight(base)[k - 1])

(* Any n has one number of digits.                                         *)
LEMMA SizeExists ==
  ASSUME NEW n \in Nat, NEW base \in Bases
  PROVE  \E k : SizeOf(n, base, k)
<1> DEFINE w == Weight(base)
           T == {k \in 1 .. n + 1 : n < w[k]}
<1>1. w \in [Nat -> Nat] /\ w[n + 1] > n + 1
  BY WeightFact, WeightsGrow
<1> HIDE DEF w
<1>2. n + 1 \in T /\ T \in SUBSET Nat
  BY <1>1
<1>3. PICK k \in T : \A j \in T : k <= j
  BY <1>2, LeastNumber
<1>4. k > 1 => n >= w[k - 1]
  <2> SUFFICES ASSUME k > 1 PROVE n >= w[k - 1]
    OBVIOUS
  <2>1. k - 1 \in 1 .. n + 1 /\ ~(k <= k - 1) /\ k - 1 \in Nat
    BY <1>3
  <2>2. ~(n < w[k - 1])
    BY <1>3, <2>1
  <2>3. PICK x \in Nat : x = w[k - 1]
    BY <1>1, <2>1
  <2> QED
    BY <2>2, <2>3
<1> QED
  BY <1>3, <1>4 DEF SizeOf, w

LEMMA SizeUnique ==
  ASSUME NEW n \in Nat, NEW base \in Bases, NEW k, NEW l, SizeOf(n, base, k), SizeOf(n, base, l)
  PROVE  k = l
<1> DEFINE w == Weight(base)
<1>1. w \in [Nat -> Nat] /\ \A i, j \in Nat : i <= j => w[i] <= w[j]
  BY WeightFact, WeightsGrow
<1>2. /\ k \in 1 .. n + 1 /\ n < w[k] /\ (k > 1 => n >= w[k - 1])
      /\ l \in 1 .. n + 1 /\ n < w[l] /\ (l > 1 => n >= w[l - 1])
  BY DEF SizeOf
<1> HIDE DEF w
<1>3. ASSUME NEW i \in 1 .. n + 1, NEW j \in 1 .. n + 1, i < j, n < w[i], j > 1 => n >= w[j - 1]
      PROVE  FALSE
  <2>1. i \in Nat /\ j - 1 \in Nat /\ i <= j - 1 /\ j > 1
    BY <1>3
  <2>2. PICK x \in Nat, y \in Nat : x = w[i] /\ y = w[j - 1]
    BY <1>1, <2>1
  <2>3. x <= y
    BY <1>1, <2>1, <2>2
  <2> QED
    BY <1>3, <2>1, <2>2, <2>3
<1>4. ~(k < l) /\ ~(l < k)
  BY <1>2, <1>3
<1> QED
  BY <1>2, <1>4

LEMMA SizeOfOne ==
  ASSUME NEW n \in Nat, NEW base \in Bases, n < base
  PROVE  SizeOf(n, base, 1)
<1>1. Weight(base)[0 + 1] = base * Weight(base)[0] /\ Weight(base)[0] = 1
  BY WeightFact
<1>2. Weight(base)[1] = base
  BY <1>1 DEF Bases
<1> QED
  BY <1>2 DEF SizeOf

LEMMA SizeOfMore ==
  ASSUME NEW n \in Nat, NEW base \in Bases, n >= base,
         NEW s, SizeOf(n \div base, base, s)
  PROVE  SizeOf(n, base, s + 1)
<1> DEFINE w == Weight(base)
<1>1. w \in [Nat -> Nat] /\ w[0] = 1 /\ \A k \in Nat : w[k + 1] = base * w[k]
  BY WeightFact
<1> HIDE DEF w
<1>2. PICK q \in Nat, t \in 0 .. base - 1 : q = n \div base /\ n = (base * q) + t
  <2>1. base \in Nat \ {0}
    BY DEF Bases
  <2> QED
    BY <2>1, DivFact
<1>3. s \in 1 .. q + 1 /\ q < w[s] /\ (s > 1 => q >= w[s - 1])
  BY <1>2 DEF SizeOf, w
<1>4. PICK x \in Nat, y \in Nat, z \in Nat : x = w[s] /\ y = w[s + 1] /\ z = w[s - 1]
  <2>1. s \in Nat /\ s + 1 \in Nat /\ s - 1 \in Nat
    BY <1>3
  <2> QED
    BY <1>1, <2>1
<1>5. y = base * x /\ x = base * z
  <2>1. s \in Nat /\ s - 1 \in Nat /\ (s - 1) + 1 = s
    BY <1>3
  <2>2. w[s + 1] = base * w[s] /\ w[(s - 1) + 1] = base * w[s - 1]
    BY <1>1, <2>1
  <2> QED
    BY <1>4, <2>1, <2>2
<1>6. q + 1 <= x /\ (s > 1 => z <= q)
  BY <1>3, <1>4
<1>7. n < y
  <2>1. base * (q + 1) <= base * x
    BY <1>6, TimesMonotone DEF Bases
  <2>2. base * (q + 1) = (base * q) + base
    BY DEF Bases
  <2> QED
    BY <1>2, <1>5, <2>1, <2>2 DEF Bases
<1>8. n >= x
  <2>1. CASE s > 1
    <3>1. base * z <= base * q
      BY <1>6, <2>1, TimesMonotone DEF Bases
    <3> QED
      BY <1>2, <1>5, <3>1 DEF Bases
  <2>2. CASE s = 1
    <3>1. x = base
      BY <1>1, <1>4, <1>5, <2>2 DEF Bases
    <3> QED
      BY <3>1
  <2> QED
    BY <1>3, <2>1, <2>2
<1>9. s + 1 \in 1 .. n + 1
  BY <1>2, <1>3 DEF Bases
<1>10. n < w[s + 1] /\ ((s + 1) > 1 => n >= w[(s + 1) - 1])
  <2>1. (s + 1) - 1 = s
    BY <1>3
  <2> QED
    BY <1>4, <1>7, <1>8, <2>1
<1> QED
  BY <1>9, <1>10 DEF SizeOf, w

-----------------------------------------------------------------------------
(* The digits of a number, or of its negative: what i2a() writes           *)

Size(n, base) == CHOOSE k : SizeOf(n, base, k)

Digits(n, base, sign) ==
  [i \in 1 .. Size(n, base) |->
     Digit(sign * ((n \div Weight(base)[Size(n, base) - i]) % base))]

LEMMA SizeFact ==
  ASSUME NEW n \in Nat, NEW base \in Bases
  PROVE  /\ SizeOf(n, base, Size(n, base))
         /\ Size(n, base) \in 1 .. n + 1
         /\ n < base => Size(n, base) = 1
         /\ n >= base => Size(n, base) = Size(n \div base, base) + 1
<1>1. SizeOf(n, base, Size(n, base))
  BY SizeExists DEF Size
<1>2. ASSUME n < base PROVE Size(n, base) = 1
  BY <1>1, <1>2, SizeOfOne, SizeUnique
<1>3. ASSUME n >= base PROVE Size(n, base) = Size(n \div base, base) + 1
  <2>1. PICK q \in Nat : q = n \div base
    BY DivFact DEF Bases
  <2>2. SizeOf(q, base, Size(q, base))
    BY SizeExists DEF Size
  <2>3. SizeOf(n, base, Size(q, base) + 1)
    BY <1>3, <2>1, <2>2, SizeOfMore
  <2>4. Size(n, base) = Size(q, base) + 1
    BY <1>1, <2>3, SizeUnique
  <2> QED
    BY <2>1, <2>4
<1> QED
  BY <1>1, <1>2, <1>3 DEF SizeOf

LEMMA DigitType ==
  ASSUME NEW d \in Int, -16 < d, d < 16
  PROVE  Digit(d) \in Nat \ {0}
BY DEF Digit

LEMMA DigitsType ==
  ASSUME NEW n \in Nat, NEW base \in Bases, NEW sign \in {1, -1}
  PROVE  /\ Digits(n, base, sign) \in Seq(Nat \ {0})
         /\ Len(Digits(n, base, sign)) = Size(n, base)
         /\ Digits(n, base, sign) # <<>>
<1> DEFINE s == Size(n, base)
           w == Weight(base)
<1>1. s \in Nat /\ s >= 1
  BY SizeFact
<1>2. w \in [Nat -> Nat] /\ \A k \in Nat : w[k] > k
  BY WeightFact, WeightsGrow
<1> HIDE DEF s, w
<1>3. ASSUME NEW i \in 1 .. s
      PROVE  Digit(sign * ((n \div w[s - i]) % base)) \in Nat \ {0}
  <2>1. s - i \in Nat
    BY <1>1
  <2>2. PICK x \in Nat \ {0} : x = w[s - i]
    BY <1>2, <2>1
  <2>3. PICK q \in Nat : q = n \div x
    BY DivFact
  <2>4. PICK d \in Nat : d = q % base /\ d < 16
    BY DEF Bases
  <2>5. sign * d \in Int /\ -16 < sign * d /\ sign * d < 16
    BY <2>4
  <2> QED
    BY <2>2, <2>3, <2>4, <2>5, DigitType
<1>4. Digits(n, base, sign) = [i \in 1 .. s |-> Digit(sign * ((n \div w[s - i]) % base))]
  BY DEF Digits, s, w
<1>5. Digits(n, base, sign) \in [1 .. s -> Nat \ {0}]
  BY <1>3, <1>4
<1> QED
  BY <1>1, <1>5 DEF s

(* Its first digits are those of the quotient by base, its last is the     *)
(* remainder.                                                              *)
LEMMA DigitsStep ==
  ASSUME NEW n \in Nat, NEW base \in Bases, NEW sign \in {1, -1}
  PROVE  /\ n < base => Digits(n, base, sign) = <<Digit(sign * n)>>
         /\ n >= base => Digits(n, base, sign) =
                           Digits(n \div base, base, sign) \o <<Digit(sign * (n % base))>>
<1> DEFINE w == Weight(base)
<1>1. w \in [Nat -> Nat] /\ w[0] = 1 /\ \A k \in Nat : w[k + 1] = base * w[k]
  BY WeightFact
<1>2. \A k \in Nat : w[k] > k
  BY WeightsGrow
<1> HIDE DEF w
<1>3. \A m \in Nat : Digits(m, base, sign) =
        [i \in 1 .. Size(m, base) |-> Digit(sign * ((m \div w[Size(m, base) - i]) % base))]
  BY DEF Digits, w
<1>4. ASSUME n < base
      PROVE  Digits(n, base, sign) = <<Digit(sign * n)>>
  <2>1. Size(n, base) = 1
    BY <1>4, SizeFact
  <2>2. Digits(n, base, sign) = [i \in 1 .. 1 |-> Digit(sign * ((n \div w[1 - i]) % base))]
    BY <1>3, <2>1
  <2>3. \A i \in 1 .. 1 : Digit(sign * ((n \div w[1 - i]) % base)) = Digit(sign * n)
    <3>1. n \div 1 = n /\ n % base = n
      BY <1>4 DEF Bases
    <3> QED
      BY <1>1, <3>1
  <2> QED
    BY <2>2, <2>3
<1>5. ASSUME n >= base
      PROVE  Digits(n, base, sign) = Digits(n \div base, base, sign) \o <<Digit(sign * (n % base))>>
  <2>1. PICK q \in Nat : q = n \div base
    BY DivFact DEF Bases
  <2>2. PICK s \in Nat : s = Size(q, base) /\ s >= 1
    BY SizeFact
  <2>3. Size(n, base) = s + 1
    BY <1>5, <2>1, <2>2, SizeFact
  <2>4. PICK a, b, x : a = Digits(n, base, sign) /\ b = Digits(q, base, sign) /\ x = Digit(sign * (n % base))
    OBVIOUS
  <2>5. /\ a \in Seq(Nat \ {0}) /\ Len(a) = s + 1
        /\ b \in Seq(Nat \ {0}) /\ Len(b) = s
    BY <2>2, <2>3, <2>4, DigitsType
  <2>6. ASSUME NEW i \in 1 .. s
        PROVE  a[i] = b[i]
    <3>1. PICK k \in Nat : k = s - i
      BY <2>2
    <3>2. (s + 1) - i = k + 1 /\ i \in 1 .. s + 1
      BY <3>1
    <3>3. PICK y \in Nat \ {0} : y = w[k]
      BY <1>1, <1>2
    <3>4. w[k + 1] = base * y
      BY <1>1, <3>3
    <3>5. n \div (base * y) = q \div y
      <4>1. base \in Nat \ {0}
        BY DEF Bases
      <4> QED
        BY <2>1, <4>1, DivDiv
    <3>6. a[i] = Digit(sign * ((n \div w[(s + 1) - i]) % base))
      BY <1>3, <2>3, <2>4, <3>2
    <3>7. b[i] = Digit(sign * ((q \div w[s - i]) % base))
      BY <1>3, <2>2, <2>4
    <3> QED
      BY <3>1, <3>2, <3>3, <3>4, <3>5, <3>6, <3>7
  <2>7. a[s + 1] = x
    <3>1. s + 1 \in 1 .. s + 1 /\ (s + 1) - (s + 1) = 0
      OBVIOUS
    <3>2. a[s + 1] = Digit(sign * ((n \div w[(s + 1) - (s + 1)]) % base))
      BY <1>3, <2>3, <2>4, <3>1
    <3>3. n \div 1 = n
      OBVIOUS
    <3> QED
      BY <1>1, <2>4, <3>1, <3>2, <3>3
  <2>8. x \in Nat \ {0}
    BY <2>5, <2>7
  <2>9. PICK c : c = b \o <<x>>
    OBVIOUS
  <2>a. PICK S : S = Nat \ {0}
    OBVIOUS
  <2>b. b \in Seq(S) /\ x \in S
    BY <2>5, <2>8, <2>a
  <2>c. c \in Seq(S) /\ Len(c) = Len(b) + 1 /\ (\A i \in 1 .. Len(b) : c[i] = b[i]) /\ c[Len(b) + 1] = x
    BY <2>9, <2>b, OneMore
  <2>10. c \in Seq(Nat \ {0}) /\ Len(c) = s + 1 /\ (\A i \in 1 .. s : c[i] = b[i]) /\ c[s + 1] = x
    BY <2>5, <2>a, <2>c
  <2>11. \A i \in 1 .. Len(a) : a[i] = c[i]
    BY <2>5, <2>6, <2>7, <2>10
  <2>12. Len(a) = Len(c)
    BY <2>5, <2>10
  <2>13. a = c
    BY <2>5, <2>10, <2>11, <2>12, SeqEqual
  <2> QED
    BY <2>1, <2>4, <2>9, <2>13
<1> QED
  BY <1>4, <1>5

(* The digits that the definition of a numeral gives by their weights.     *)
LEMMA NumeralFact ==
  ASSUME NEW n \in Nat, NEW base \in Bases
  PROVE  Numeral(n, base) = Digits(n, base, 1)
<1> DEFINE w == Weight(base)
           size == CHOOSE k \in 1 .. n + 1 : n < w[k] /\ (k > 1 => n >= w[k - 1])
<1>1. Numeral(n, base) = [i \in 1 .. size |-> Digit((n \div w[size - i]) % base)]
  BY DEF Numeral, Weight
<1>2. SizeOf(n, base, size)
  <2>1. \E k \in 1 .. n + 1 : n < w[k] /\ (k > 1 => n >= w[k - 1])
    BY SizeExists DEF SizeOf
  <2> QED
    BY <2>1 DEF SizeOf
<1>3. size = Size(n, base)
  BY <1>2, SizeFact, SizeUnique
<1> HIDE DEF size
<1>4. \A i \in 1 .. size : Digit((n \div w[size - i]) % base) = Digit(1 * ((n \div w[size - i]) % base))
  <2> SUFFICES ASSUME NEW i \in 1 .. size
               PROVE  Digit((n \div w[size - i]) % base) = Digit(1 * ((n \div w[size - i]) % base))
    OBVIOUS
  <2>1. w \in [Nat -> Nat] /\ (\A k \in Nat : w[k] > k) /\ size \in Nat
    <3>1. Size(n, base) \in 1 .. n + 1
      BY SizeFact
    <3> QED
      BY <1>3, <3>1, WeightFact, WeightsGrow
  <2> HIDE DEF w
  <2>2. size - i \in Nat
    BY <2>1
  <2>3. PICK y \in Nat \ {0} : y = w[size - i]
    BY <2>1, <2>2
  <2>4. PICK q \in Nat : q = n \div y
    BY DivFact
  <2>5. PICK d \in Nat : d = q % base
    BY DEF Bases
  <2>6. 1 * d = d
    OBVIOUS
  <2> QED
    BY <2>3, <2>4, <2>5, <2>6
<1> QED
  BY <1>1, <1>3, <1>4 DEF Digits

-----------------------------------------------------------------------------
(* i2a()                                                                   *)

Abs(m)  == IF m < 0 THEN -m ELSE m
Sign(m) == IF m < 0 THEN -1 ELSE 1

LEMMA QuotFact ==
  ASSUME NEW m \in Ints, NEW base \in Bases
  PROVE  /\ Abs(m) \in Nat /\ Sign(m) \in {1, -1}
         /\ Quot(m, base) \in Ints
         /\ Abs(Quot(m, base)) = Abs(m) \div base
         /\ Quot(m, base) # 0 => Sign(Quot(m, base)) = Sign(m) /\ Abs(m) >= base
         /\ Quot(m, base) = 0 => Abs(m) < base /\ Rem(m, base) = Sign(m) * Abs(m)
         /\ Rem(m, base) = Sign(m) * (Abs(m) % base)
         /\ Abs(m) > 0 => Abs(Quot(m, base)) < Abs(m)
<1>1. m \in Int /\ Abs(m) \in Nat /\ Sign(m) \in {1, -1}
  BY FormatAssumption DEF FormatAssumption, Ints, Abs, Sign
<1>2. PICK a \in Nat : a = Abs(m)
  BY <1>1
<1>3. base \in Nat \ {0} /\ base >= 10
  BY DEF Bases
<1>4. PICK q \in Nat, t \in 0 .. base - 1 : q = a \div base /\ t = a % base /\ a = (base * q) + t
  BY <1>3, DivFact
<1>5. base * q >= 10 * q
  BY DEF Bases
<1>6. Quot(m, base) = Sign(m) * q
  <2>1. CASE m < 0
    <3>1. a = -m /\ Sign(m) = -1 /\ Quot(m, base) = -((-m) \div base)
      BY <1>2, <2>1 DEF Abs, Sign, Quot
    <3>2. Quot(m, base) = -q
      BY <1>4, <3>1
    <3> QED
      BY <3>1, <3>2
  <2>2. CASE ~(m < 0)
    <3>1. a = m /\ Sign(m) = 1 /\ Quot(m, base) = m \div base
      BY <1>2, <2>2 DEF Abs, Sign, Quot
    <3>2. Quot(m, base) = q
      BY <1>4, <3>1
    <3> QED
      BY <3>1, <3>2
  <2> QED
    BY <2>1, <2>2
<1>7. Rem(m, base) = Sign(m) * t
  <2>1. PICK r \in Nat : r = base * q
    BY DEF Bases
  <2>2. CASE m < 0
    <3>1. a = -m /\ Sign(m) = -1
      BY <1>2, <2>2 DEF Abs, Sign
    <3>2. Quot(m, base) = -q
      BY <1>6, <3>1
    <3>3. base * Quot(m, base) = -r
      BY <2>1, <3>2 DEF Bases
    <3>4. Rem(m, base) = m - (-r)
      BY <3>3 DEF Rem
    <3>5. a = r + t
      BY <1>4, <2>1
    <3>6. Rem(m, base) = -t
      BY <1>1, <3>1, <3>4, <3>5
    <3> QED
      BY <3>1, <3>6
  <2>3. CASE ~(m < 0)
    <3>1. a = m /\ Sign(m) = 1
      BY <1>2, <2>3 DEF Abs, Sign
    <3>2. Quot(m, base) = q
      BY <1>6, <3>1
    <3>4. Rem(m, base) = m - r
      BY <2>1, <3>2 DEF Rem
    <3>5. a = r + t
      BY <1>4, <2>1
    <3>6. Rem(m, base) = t
      BY <1>1, <3>1, <3>4, <3>5
    <3> QED
      BY <3>1, <3>6
  <2> QED
    BY <2>2, <2>3
<1>8. q <= a /\ (q = 0 => a = t) /\ (q # 0 => a >= base) /\ (a > 0 => q < a)
  <2>1. q # 0 => base * q >= base
    BY DEF Bases
  <2>2. q = 0 => base * q = 0
    BY DEF Bases
  <2>3. PICK r \in Nat : r = base * q
    BY DEF Bases
  <2> QED
    BY <1>3, <1>4, <1>5, <2>1, <2>2, <2>3
<1>9. PICK v \in Int : v = Quot(m, base) /\ v = Sign(m) * q
  BY <1>1, <1>6
<1>10. v \in Ints /\ Abs(v) = q /\ (v # 0 => Sign(v) = Sign(m)) /\ (v = 0 <=> q = 0)
  <2>1. CASE m < 0
    <3>1. Sign(m) = -1 /\ v = -q /\ a = -m
      BY <1>2, <1>9, <2>1 DEF Sign, Abs
    <3>2. v \in Ints
      BY <1>8, <3>1, FormatAssumption DEF FormatAssumption, Ints
    <3> QED
      BY <3>1, <3>2 DEF Sign, Abs
  <2>2. CASE ~(m < 0)
    <3>1. Sign(m) = 1 /\ v = q /\ a = m
      BY <1>2, <1>9, <2>2 DEF Sign, Abs
    <3>2. v \in Ints
      BY <1>8, <3>1, FormatAssumption DEF FormatAssumption, Ints
    <3> QED
      BY <3>1, <3>2 DEF Sign, Abs
  <2> QED
    BY <2>1, <2>2
<1>11. /\ Quot(m, base) \in Ints
       /\ Abs(Quot(m, base)) = q
       /\ Quot(m, base) # 0 => Sign(Quot(m, base)) = Sign(m)
       /\ Quot(m, base) = 0 <=> q = 0
  BY <1>9, <1>10
<1>12. /\ q = Abs(m) \div base /\ t = Abs(m) % base
       /\ q = 0 => Abs(m) = t /\ Abs(m) < base
       /\ q # 0 => Abs(m) >= base
       /\ Abs(m) > 0 => q < Abs(m)
  BY <1>2, <1>3, <1>4, <1>8
<1> QED
  BY <1>1, <1>7, <1>11, <1>12

Writes(base, f) ==
  f = [m \in Ints |->
         (IF Quot(m, base) # 0 THEN f[Quot(m, base)] ELSE <<>>) \o <<Digit(Rem(m, base))>>]

LEMMA WritesDigits ==
  ASSUME NEW base \in Bases
  PROVE  Writes(base, [m \in Ints |-> Digits(Abs(m), base, Sign(m))])
<1> DEFINE f == [m \in Ints |-> Digits(Abs(m), base, Sign(m))]
<1>1. ASSUME NEW m \in Ints
      PROVE  f[m] = (IF Quot(m, base) # 0 THEN f[Quot(m, base)] ELSE <<>>) \o <<Digit(Rem(m, base))>>
  <2>1. PICK a \in Nat, g \in {1, -1} : a = Abs(m) /\ g = Sign(m)
    BY QuotFact
  <2>2. PICK q \in Ints : q = Quot(m, base)
    BY QuotFact
  <2>3. CASE q = 0
    <3>1. a < base /\ Rem(m, base) = g * a
      BY <2>1, <2>2, <2>3, QuotFact
    <3>2. f[m] = <<Digit(g * a)>>
      BY <2>1, <3>1, DigitsStep
    <3>3. <<>> \o <<Digit(g * a)>> = <<Digit(g * a)>>
      <4>1. PICK S, b : S = {Digit(g * a)} /\ b = <<Digit(g * a)>>
        OBVIOUS
      <4>2. b \in Seq(S)
        BY <4>1
      <4> QED
        BY <4>1, <4>2, ConcatEmptySeq
    <3> QED
      BY <2>2, <2>3, <3>1, <3>2, <3>3
  <2>4. CASE q # 0
    <3>1. a >= base /\ Rem(m, base) = g * (a % base) /\ Abs(q) = a \div base /\ Sign(q) = g
      BY <2>1, <2>2, <2>4, QuotFact
    <3>2. f[m] = Digits(a \div base, base, g) \o <<Digit(g * (a % base))>>
      BY <2>1, <3>1, DigitsStep
    <3>3. f[q] = Digits(a \div base, base, g)
      BY <3>1
    <3> QED
      BY <2>2, <2>4, <3>1, <3>2, <3>3
  <2> QED
    BY <2>3, <2>4
<1>2. f = [m \in Ints |-> f[m]]
  OBVIOUS
<1> HIDE DEF f
<1>3. Writes(base, f)
  BY <1>1, <1>2 DEF Writes
<1> QED
  BY <1>3 DEF f

(* i2a() writes the digits of any int, down to the smallest, in base 10    *)
(* and 16: of a negative number those of its absolute value, each negated. *)
LEMMA I2aFact ==
  ASSUME NEW val \in Ints, NEW base \in Bases
  PROVE  i2a(val, base) = Digits(Abs(val), base, Sign(val))
<1> DEFINE written == CHOOSE f : Writes(base, f)
<1>1. i2a(val, base) = written[val]
  BY DEF i2a, Writes
<1>2. Writes(base, written)
  BY WritesDigits
<1> HIDE DEF written
<1>3. \A m \in Ints : written[m] =
        (IF Quot(m, base) # 0 THEN written[Quot(m, base)] ELSE <<>>) \o <<Digit(Rem(m, base))>>
  BY <1>2 DEF Writes
<1> DEFINE f == [m \in Ints |-> Digits(Abs(m), base, Sign(m))]
<1>4. \A m \in Ints : f[m] =
        (IF Quot(m, base) # 0 THEN f[Quot(m, base)] ELSE <<>>) \o <<Digit(Rem(m, base))>>
  BY WritesDigits DEF Writes
<1>5. f[val] = Digits(Abs(val), base, Sign(val))
  OBVIOUS
<1> HIDE DEF f
<1> DEFINE G == {n \in Nat : \A m \in Ints : Abs(m) = n => written[m] = f[m]}
<1>6. ASSUME NEW n \in Nat, \A k \in 0 .. n - 1 : k \in G
      PROVE  n \in G
  <2> SUFFICES ASSUME NEW m \in Ints, Abs(m) = n
               PROVE  written[m] = f[m]
    OBVIOUS
  <2>1. PICK q \in Ints : q = Quot(m, base)
    BY QuotFact
  <2>2. ASSUME q # 0 PROVE written[q] = f[q]
    <3>1. Abs(q) \in 0 .. n - 1
      <4>1. Abs(q) \in Nat
        BY QuotFact
      <4>2. n >= base /\ (n > 0 => Abs(q) < n)
        BY <2>1, <2>2, QuotFact
      <4> QED
        BY <4>1, <4>2 DEF Bases
    <3>2. Abs(q) \in G
      BY <1>6, <3>1
    <3> QED
      BY <3>2
  <2> QED
    BY <1>3, <1>4, <2>1, <2>2
<1>7. Nat \subseteq G
  BY <1>6, InductionBelow
<1>8. Abs(val) \in G
  BY <1>7, QuotFact
<1> QED
  BY <1>1, <1>5, <1>8

(* So a number that is not negative comes out as its numeral.              *)
LEMMA I2aNumeral ==
  ASSUME NEW n \in Nat, n <= IntMax, NEW base \in Bases
  PROVE  /\ i2a(n, base) = Numeral(n, base)
         /\ Numeral(n, base) \in Seq(Nat \ {0})
<1>1. n \in Ints /\ Abs(n) = n /\ Sign(n) = 1
  BY FormatAssumption DEF FormatAssumption, Ints, Abs, Sign
<1>2. i2a(n, base) = Digits(n, base, 1)
  BY <1>1, I2aFact
<1>3. Numeral(n, base) = Digits(n, base, 1)
  BY NumeralFact
<1>4. PICK g \in {1, -1} : g = 1
  OBVIOUS
<1>5. Digits(n, base, g) \in Seq(Nat \ {0})
  BY DigitsType
<1> QED
  BY <1>2, <1>3, <1>4, <1>5

-----------------------------------------------------------------------------
(* One part of a format                                                    *)

Char == Nat \ {0}

Filled(part, s) ==
  LET size == IF part.width > Len(s) THEN part.width ELSE Len(s)
  IN  [i \in 1 .. size |->
         IF i > size - Len(s) THEN s[i - (size - Len(s))] ELSE IF part.zero THEN 48 ELSE 32]

(* Padding up to the width is filling the field from the left.             *)
LEMMA PaddedFact ==
  ASSUME NEW part, part.width \in Nat, NEW s \in Seq(Char)
  PROVE  Padded(part, s) = Filled(part, s) /\ Filled(part, s) \in Seq(Char)
<1> DEFINE fill == IF part.zero THEN 48 ELSE 32
<1>1. PICK width \in Nat, len \in Nat : width = part.width /\ len = Len(s)
  BY LenProperties
<1>2. PICK size \in Nat : size = IF width > len THEN width ELSE len
  OBVIOUS
<1>3. PICK f : f = Filled(part, s)
  OBVIOUS
<1>4. fill \in Char
  BY DEF Char
<1>5. f = [i \in 1 .. size |-> IF i > size - len THEN s[i - (size - len)] ELSE fill]
  BY <1>1, <1>2, <1>3 DEF Filled
<1> HIDE DEF fill
<1>6. ASSUME NEW i \in 1 .. size, i > size - len
      PROVE  s[i - (size - len)] \in Char
  <2>1. i - (size - len) \in 1 .. Len(s)
    BY <1>1, <1>2, <1>6
  <2> QED
    BY <2>1, ElementOfSeq
<1>7. f \in [1 .. size -> Char]
  BY <1>4, <1>5, <1>6
<1>8. f \in Seq(Char) /\ Len(f) = size
  BY <1>7
<1>9. PICK pad : pad = [k \in 1 .. width - len |-> fill]
  OBVIOUS
<1>10. pad \in Seq(Char) /\ Len(pad) = size - len /\ \A i \in 1 .. size - len : pad[i] = fill
  <2>1. PICK m \in Nat : m = size - len
    BY <1>2
  <2>2. 1 .. width - len = 1 .. m
    BY <1>2, <2>1
  <2>3. pad = [k \in 1 .. m |-> fill]
    BY <1>9, <2>2
  <2>4. pad \in [1 .. m -> Char]
    BY <1>4, <2>3
  <2>5. pad \in Seq(Char) /\ Len(pad) = m
    BY <2>4
  <2> QED
    BY <2>1, <2>3, <2>5
<1>11. PICK g : g = pad \o s
  OBVIOUS
<1>12. /\ g \in Seq(Char) /\ Len(g) = size
       /\ \A i \in 1 .. size : g[i] = IF i <= size - len THEN pad[i] ELSE s[i - (size - len)]
  <2>1. /\ g \in Seq(Char)
        /\ Len(g) = Len(pad) + Len(s)
        /\ \A i \in 1 .. Len(pad) + Len(s) : g[i] = IF i <= Len(pad) THEN pad[i] ELSE s[i - Len(pad)]
    BY <1>10, <1>11, ConcatProperties
  <2>2. Len(pad) + Len(s) = size
    BY <1>1, <1>2, <1>10
  <2> QED
    BY <2>1, <2>2, <1>10
<1>13. \A i \in 1 .. Len(g) : g[i] = f[i]
  BY <1>5, <1>10, <1>12
<1>14. Len(g) = Len(f)
  BY <1>8, <1>12
<1>15. g = f
  BY <1>8, <1>12, <1>13, <1>14, SeqEqual
<1>16. Padded(part, s) = g
  BY <1>1, <1>9, <1>11 DEF Padded, fill
<1> QED
  BY <1>3, <1>8, <1>15, <1>16

Known(part, arg) ==
  /\ part.conv = "c" => arg \in Byte \cup {0}
  /\ part.conv = "x" => arg \in Ints /\ arg >= 0
  /\ part.conv = "d" => arg \in Ints /\ arg # -IntMax - 1
  /\ part.conv = "s" => arg \in Seq(Byte)

LEMMA ByteSeq ==
  ASSUME NEW s \in Seq(Byte)
  PROVE  s \in Seq(Char)
<1>1. \A x \in Byte : x \in Char
  BY DEF Byte, Char
<1>2. PICK n \in Nat : n = Len(s)
  BY LenProperties
<1>3. \A i \in 1 .. n : s[i] \in Char
  BY <1>1, <1>2, ElementOfSeq
<1>4. s = [i \in 1 .. n |-> s[i]]
  BY <1>2
<1>5. s \in [1 .. n -> Char]
  BY <1>3, <1>4
<1> QED
  BY <1>5

(* What the switch of vsprintf() puts into inner_buf is the argument as it *)
(* should be written.                                                      *)
LEMMA InnerFact ==
  ASSUME NEW part, TakesArg(part), NEW arg, Known(part, arg)
  PROVE  Inner(part, arg) = Plain(part, arg) /\ Plain(part, arg) \in Seq(Char)
<1>1. IntMax \in Nat
  BY FormatAssumption DEF FormatAssumption
<1>2. 10 \in Bases /\ 16 \in Bases
  BY DEF Bases
<1>3. CASE part.conv = "c"
  <2>1. Inner(part, arg) = Plain(part, arg) /\ Plain(part, arg) = IF arg = 0 THEN <<>> ELSE <<arg>>
    BY <1>3 DEF Inner, Plain
  <2>2. arg \in Nat
    BY <1>3 DEF Known, Byte
  <2>3. <<>> \in Seq(Char)
    BY EmptySeq
  <2>4. ASSUME arg # 0 PROVE <<arg>> \in Seq(Char)
    <3>1. arg \in Char
      BY <2>2, <2>4 DEF Char
    <3> QED
      BY <3>1
  <2>5. Plain(part, arg) \in Seq(Char)
    <3>1. CASE arg = 0
      BY <2>1, <2>3, <3>1
    <3>2. CASE arg # 0
      BY <2>1, <2>4, <3>2
    <3> QED
      BY <3>1, <3>2
  <2> QED
    BY <2>1, <2>5
<1>4. CASE part.conv = "x"
  <2>1. Inner(part, arg) = i2a(arg, 16) /\ Plain(part, arg) = Numeral(arg, 16)
    BY <1>4 DEF Inner, Plain
  <2>2. PICK n \in Nat : n = arg /\ n <= IntMax
    BY <1>1, <1>4 DEF Known, Ints
  <2>3. PICK base \in Bases : base = 16
    BY <1>2
  <2>4. i2a(n, base) = Numeral(n, base) /\ Numeral(n, base) \in Seq(Char)
    BY <2>2, I2aNumeral DEF Char
  <2>5. Inner(part, arg) = i2a(n, base)
    BY <2>1, <2>2, <2>3
  <2>6. Plain(part, arg) = Numeral(n, base)
    BY <2>1, <2>2, <2>3
  <2> QED
    BY <2>4, <2>5, <2>6
<1>5. CASE part.conv = "d"
  <2>1. /\ Inner(part, arg) = IF arg < 0 THEN <<45>> \o i2a(Negated(arg), 10) ELSE i2a(arg, 10)
        /\ Plain(part, arg) = (IF arg < 0 THEN <<45>> ELSE <<>>) \o Numeral(IF arg < 0 THEN -arg ELSE arg, 10)
    BY <1>5 DEF Inner, Plain
  <2>2. arg \in Int /\ arg <= IntMax /\ -arg <= IntMax
    BY <1>1, <1>5 DEF Known, Ints
  <2>3. PICK base \in Bases : base = 10
    BY <1>2
  <2>4. CASE arg < 0
    <3>1. PICK n \in Nat : n = -arg /\ n <= IntMax
      BY <2>2, <2>4
    <3>2. Negated(arg) = n
      BY <1>1, <3>1 DEF Negated, Ints
    <3>3. i2a(n, base) = Numeral(n, base) /\ Numeral(n, base) \in Seq(Char)
      BY <3>1, I2aNumeral DEF Char
    <3>4. Inner(part, arg) = <<45>> \o i2a(n, base) /\ Plain(part, arg) = <<45>> \o Numeral(n, base)
      BY <2>1, <2>3, <2>4, <3>1, <3>2
    <3>5. <<45>> \in Seq(Char)
      BY DEF Char
    <3>6. <<45>> \o Numeral(n, base) \in Seq(Char)
      BY <3>3, <3>5, ConcatProperties
    <3> QED
      BY <3>3, <3>4, <3>6
  <2>5. CASE ~(arg < 0)
    <3>1. PICK n \in Nat : n = arg /\ n <= IntMax
      BY <2>2, <2>5
    <3>3. i2a(n, base) = Numeral(n, base) /\ Numeral(n, base) \in Seq(Char)
      BY <3>1, I2aNumeral DEF Char
    <3>4. Inner(part, arg) = i2a(n, base) /\ Plain(part, arg) = <<>> \o Numeral(n, base)
      BY <2>1, <2>3, <2>5, <3>1
    <3>5. <<>> \o Numeral(n, base) = Numeral(n, base)
      BY <3>3, ConcatEmptySeq
    <3> QED
      BY <3>3, <3>4, <3>5
  <2> QED
    BY <2>4, <2>5
<1>6. CASE part.conv = "s"
  <2>1. Inner(part, arg) = arg /\ Plain(part, arg) = arg
    BY <1>6 DEF Inner, Plain
  <2>2. arg \in Seq(Byte)
    BY <1>6 DEF Known
  <2> QED
    BY <2>1, <2>2, ByteSeq
<1> QED
  BY <1>3, <1>4, <1>5, <1>6 DEF TakesArg

-----------------------------------------------------------------------------
(* vsprintf()                                                              *)

LEMMA ArgOfFact ==
  ASSUME NEW fmt
  PROVE  /\ ArgOf(fmt, 0) = 0
         /\ \A i \in Nat : ArgOf(fmt, i) \in Nat
         /\ \A i \in Nat : ArgOf(fmt, i + 1) =
              IF TakesArg(fmt[i + 1]) THEN ArgOf(fmt, i) + 1 ELSE ArgOf(fmt, i)
<1> DEFINE taking(i) == {j \in 1 .. i : TakesArg(fmt[j])}
<1>1. ArgOf(fmt, 0) = 0
  <2>1. taking(0) = {}
    OBVIOUS
  <2> QED
    BY <2>1, FS_EmptySet DEF ArgOf
<1>2. ASSUME NEW i \in Nat
      PROVE  IsFiniteSet(taking(i)) /\ ArgOf(fmt, i) \in Nat
  <2>1. IsFiniteSet(1 .. i)
    BY FS_Interval
  <2>2. taking(i) \subseteq 1 .. i
    OBVIOUS
  <2>3. IsFiniteSet(taking(i))
    BY <2>1, <2>2, FS_Subset
  <2> QED
    BY <2>3, FS_CardinalityType DEF ArgOf
<1>3. ASSUME NEW i \in Nat
      PROVE  ArgOf(fmt, i + 1) = IF TakesArg(fmt[i + 1]) THEN ArgOf(fmt, i) + 1 ELSE ArgOf(fmt, i)
  <2>1. CASE TakesArg(fmt[i + 1])
    <3>1. taking(i + 1) = taking(i) \cup {i + 1} /\ i + 1 \notin taking(i)
      BY <2>1
    <3>2. Cardinality(taking(i) \cup {i + 1}) = Cardinality(taking(i)) + 1
      BY <1>2, <3>1, FS_AddElement
    <3> QED
      BY <2>1, <3>1, <3>2 DEF ArgOf
  <2>2. CASE ~TakesArg(fmt[i + 1])
    <3>1. taking(i + 1) = taking(i)
      BY <2>2
    <3> QED
      BY <2>2, <3>1 DEF ArgOf
  <2> QED
    BY <2>1, <2>2
<1> QED
  BY <1>1, <1>2, <1>3

Printable(fmt, args) == fmt \in Seq(Parts) /\ Fits(fmt, args) /\ Representable(fmt, args)

(* A turn of the loop of vsprintf() adds what its part means.              *)
LEMMA TurnFact ==
  ASSUME NEW fmt, NEW args, Printable(fmt, args), NEW i \in 1 .. Len(fmt),
         NEW p \in Seq(Char)
  PROVE  /\ Meaning(fmt, args, i) \in Seq(Char)
         /\ Formatted(args, [p |-> p, next |-> ArgOf(fmt, i - 1) + 1], fmt[i])
              = [p |-> p \o Meaning(fmt, args, i), next |-> ArgOf(fmt, i) + 1]
<1>1. fmt[i] \in Parts /\ i - 1 \in Nat /\ (i - 1) + 1 = i
  BY ElementOfSeq DEF Printable
<1>2. ArgOf(fmt, i) = IF TakesArg(fmt[i]) THEN ArgOf(fmt, i - 1) + 1 ELSE ArgOf(fmt, i - 1)
  BY <1>1, ArgOfFact
<1>3. PICK n \in Nat : n = ArgOf(fmt, i - 1)
  BY <1>1, ArgOfFact
<1>4. PICK part : part = fmt[i]
  OBVIOUS
<1>5. CASE part.conv = "copy"
  <2>1. part.char \in Char
    <3>1. part.char \in Byte
      BY <1>1, <1>4, <1>5 DEF Parts, Conversions
    <3>2. \A x \in Byte : x \in Char
      BY DEF Byte, Char
    <3> QED
      BY <3>1, <3>2
  <2>2. Meaning(fmt, args, i) = <<part.char>>
    BY <1>4, <1>5 DEF Meaning
  <2>3. ~TakesArg(part)
    BY <1>5 DEF TakesArg
  <2>4. Formatted(args, [p |-> p, next |-> n + 1], part) = [p |-> Append(p, part.char), next |-> n + 1]
    BY <1>5 DEF Formatted
  <2>5. Append(p, part.char) = p \o <<part.char>>
    BY <2>1, AppendIsConcat
  <2> QED
    BY <1>2, <1>3, <1>4, <2>1, <2>2, <2>3, <2>4, <2>5
<1>6. CASE part.conv # "copy"
  <2>1. part.width \in Nat
    <3>1. part.width \in 0 .. IntMax
      BY <1>1, <1>4, <1>6 DEF Parts
    <3> QED
      BY <3>1, FormatAssumption DEF FormatAssumption
  <2>2. CASE TakesArg(part)
    <3>1. PICK arg : arg = args[n + 1]
      OBVIOUS
    <3>2. ArgOf(fmt, i) = n + 1
      BY <1>2, <1>3, <1>4, <2>2
    <3>3. Known(part, arg)
      BY <1>4, <3>1, <3>2 DEF Known, Printable, Fits, Representable
    <3>4. Inner(part, arg) = Plain(part, arg) /\ Plain(part, arg) \in Seq(Char)
      BY <2>2, <3>3, InnerFact
    <3>5. PICK s \in Seq(Char) : s = Plain(part, arg)
      BY <3>4
    <3>6. Padded(part, s) = Filled(part, s) /\ Filled(part, s) \in Seq(Char)
      BY <2>1, PaddedFact
    <3>7. Field(part, arg) = Filled(part, s)
      BY <3>5 DEF Field, Filled
    <3>8. Meaning(fmt, args, i) = Filled(part, s)
      BY <1>4, <1>6, <2>2, <3>1, <3>2, <3>7 DEF Meaning
    <3>9. Formatted(args, [p |-> p, next |-> n + 1], part) = [p |-> p \o Padded(part, s), next |-> n + 1 + 1]
      BY <1>6, <2>2, <3>1, <3>4, <3>5 DEF Formatted
    <3> QED
      BY <1>3, <1>4, <3>2, <3>6, <3>8, <3>9
  <2>3. CASE ~TakesArg(part)
    <3>1. PICK s \in Seq(Char) : s = <<>>
      BY EmptySeq
    <3>2. Inner(part, 0) = s
      BY <2>3, <3>1 DEF Inner, TakesArg
    <3>3. Padded(part, s) = Filled(part, s) /\ Filled(part, s) \in Seq(Char)
      BY <2>1, PaddedFact
    <3>4. PICK part2 : part2 = [part EXCEPT !.conv = "s"]
      OBVIOUS
    <3>5. part2.conv = "s" /\ part2.width = part.width /\ part2.zero = part.zero
      BY <1>1, <1>4, <1>6, <3>4 DEF Parts
    <3>6. Plain(part2, <<>>) = s
      BY <3>1, <3>5 DEF Plain
    <3>7. Field(part2, <<>>) = Filled(part2, s)
      BY <3>6 DEF Field, Filled
    <3>8. Filled(part2, s) = Filled(part, s)
      BY <3>5 DEF Filled
    <3>9. Meaning(fmt, args, i) = Filled(part, s)
      BY <1>4, <1>6, <2>3, <3>4, <3>7, <3>8 DEF Meaning
    <3>10. Formatted(args, [p |-> p, next |-> n + 1], part) = [p |-> p \o Padded(part, s), next |-> n + 1]
      BY <1>6, <2>3, <3>2 DEF Formatted
    <3>11. ArgOf(fmt, i) = n
      BY <1>2, <1>3, <1>4, <2>3
    <3> QED
      BY <1>3, <1>4, <3>3, <3>9, <3>10, <3>11
  <2> QED
    BY <2>2, <2>3
<1> QED
  BY <1>5, <1>6

(* upTo of Reference, turns of vsprintf, kept of Visible.                  *)
IsUpTo(fmt, args, f) ==
  f = [i \in 0 .. Len(fmt) |-> IF i = 0 THEN <<>> ELSE f[i - 1] \o Meaning(fmt, args, i)]

UpTo(fmt, args) == CHOOSE f : IsUpTo(fmt, args, f)

LEMMA UpToFact ==
  ASSUME NEW fmt, NEW args, Printable(fmt, args)
  PROVE  /\ Reference(fmt, args) = UpTo(fmt, args)[Len(fmt)]
         /\ UpTo(fmt, args)[0] = <<>>
         /\ \A i \in 1 .. Len(fmt) :
              UpTo(fmt, args)[i] = UpTo(fmt, args)[i - 1] \o Meaning(fmt, args, i)
         /\ \A i \in 0 .. Len(fmt) : UpTo(fmt, args)[i] \in Seq(Char)
<1>1. PICK m \in Nat : m = Len(fmt)
  BY LenProperties DEF Printable
<1> DEFINE V == Seq(Char)
           F == [i \in Nat |-> [x \in V |-> IF i \in 1 .. m THEN x \o Meaning(fmt, args, i) ELSE x]]
<1>2. ASSUME NEW i \in 1 .. m, NEW x \in V
      PROVE  x \o Meaning(fmt, args, i) \in V
  <2>1. Meaning(fmt, args, i) \in V
    BY <1>1, TurnFact
  <2> QED
    BY <2>1, ConcatProperties
<1>3. F \in [Nat -> [V -> V]]
  BY <1>2
<1>4. \A i \in 1 .. m : \A x \in V : F[i][x] = x \o Meaning(fmt, args, i)
  OBVIOUS
<1>5. PICK a \in V : a = <<>>
  BY EmptySeq
<1> HIDE DEF F
<1>6. PICK f : Follows(m, V, a, F, f)
  BY <1>3, RecursionUpTo
<1>7. ASSUME NEW i \in 0 .. m
      PROVE  f[i] = IF i = 0 THEN <<>> ELSE f[i - 1] \o Meaning(fmt, args, i)
  <2>1. CASE i # 0
    <3>1. i \in 1 .. m /\ i - 1 \in 0 .. m
      BY <2>1
    <3>2. f[i] = F[i][f[i - 1]] /\ f[i - 1] \in V
      BY <1>6, <3>1 DEF Follows
    <3> QED
      BY <1>4, <2>1, <3>1, <3>2
  <2> QED
    BY <2>1, <1>5, <1>6 DEF Follows
<1>8. IsUpTo(fmt, args, f)
  BY <1>1, <1>6, <1>7 DEF IsUpTo, Follows
<1>9. IsUpTo(fmt, args, UpTo(fmt, args))
  BY <1>8 DEF UpTo
<1>10. PICK u : u = UpTo(fmt, args)
  OBVIOUS
<1>11. \A i \in 0 .. m : u[i] = IF i = 0 THEN <<>> ELSE u[i - 1] \o Meaning(fmt, args, i)
  BY <1>1, <1>9, <1>10 DEF IsUpTo
<1> DEFINE G == {i \in 0 .. m : u[i] \in V}
<1>12. 0 .. m \subseteq G
  <2>1. 0 \in G
    <3>1. 0 \in 0 .. m
      OBVIOUS
    <3>2. u[0] = <<>>
      BY <1>11, <3>1
    <3>3. u[0] \in V
      BY <1>5, <3>2
    <3> QED
      BY <3>1, <3>3
  <2>2. ASSUME NEW i \in 0 .. m - 1, i \in G
        PROVE  i + 1 \in G
    <3>1. i + 1 \in 1 .. m /\ i + 1 \in 0 .. m /\ i + 1 # 0 /\ (i + 1) - 1 = i
      OBVIOUS
    <3>2. u[i + 1] = u[i] \o Meaning(fmt, args, i + 1)
      BY <1>11, <3>1
    <3>3. u[i] \in V
      BY <2>2
    <3>4. u[i + 1] \in V
      BY <1>2, <3>1, <3>2, <3>3
    <3> QED
      BY <3>1, <3>4
  <2> QED
    BY <2>1, <2>2, InductionUpTo
<1>13. Reference(fmt, args) = u[m]
  BY <1>1, <1>10 DEF Reference, UpTo, IsUpTo
<1>14. ASSUME NEW i \in 1 .. m
       PROVE  u[i] = u[i - 1] \o Meaning(fmt, args, i)
  <2>1. i \in 0 .. m /\ i # 0
    OBVIOUS
  <2> QED
    BY <1>11, <2>1
<1>15. u[0] = <<>>
  <2>1. 0 \in 0 .. m
    OBVIOUS
  <2> QED
    BY <1>11, <2>1
<1>16. \A i \in 0 .. m : u[i] \in Seq(Char)
  BY <1>12
<1> QED
  BY <1>1, <1>10, <1>13, <1>14, <1>15, <1>16

IsTurns(fmt, args, f) ==
  f = [i \in 0 .. Len(fmt) |->
         IF i = 0 THEN [p |-> <<>>, next |-> 1] ELSE Formatted(args, f[i - 1], fmt[i])]

(* vsprintf as an operator, which knows no bounds.                         *)
LEMMA TextFact ==
  ASSUME NEW fmt \in Seq(Parts), NEW args, Fits(fmt, args), Representable(fmt, args)
  PROVE  /\ vsprintf(fmt, args) = Reference(fmt, args)
         /\ vsprintf(fmt, args) \in Seq(Nat \ {0})
<1>1. Printable(fmt, args)
  BY DEF Printable
<1>2. PICK m \in Nat : m = Len(fmt)
  BY LenProperties
<1>3. PICK u : u = UpTo(fmt, args)
  OBVIOUS
<1>4. /\ Reference(fmt, args) = u[m]
      /\ u[0] = <<>>
      /\ \A i \in 1 .. m : u[i] = u[i - 1] \o Meaning(fmt, args, i)
      /\ \A i \in 0 .. m : u[i] \in Seq(Char)
  BY <1>1, <1>2, <1>3, UpToFact
<1> DEFINE turn(i) == [p |-> u[i], next |-> ArgOf(fmt, i) + 1]
           turns == CHOOSE f : IsTurns(fmt, args, f)
<1>5. turn(0) = [p |-> <<>>, next |-> 1]
  BY <1>4, ArgOfFact
<1>6. ASSUME NEW i \in 1 .. m
      PROVE  turn(i) = Formatted(args, turn(i - 1), fmt[i])
  <2>1. i - 1 \in 0 .. m
    OBVIOUS
  <2>2. u[i - 1] \in Seq(Char)
    BY <1>4, <2>1
  <2>3. Formatted(args, turn(i - 1), fmt[i]) = [p |-> u[i - 1] \o Meaning(fmt, args, i), next |-> ArgOf(fmt, i) + 1]
    BY <1>1, <1>2, <2>2, TurnFact
  <2> QED
    BY <1>4, <2>3
<1>7. vsprintf(fmt, args) = turns[m].p
  BY <1>2 DEF vsprintf, IsTurns
<1> HIDE DEF turn, turns
<1>8. IsTurns(fmt, args, turns)
  <2> DEFINE f == [i \in 0 .. m |-> turn(i)]
  <2>1. ASSUME NEW i \in 0 .. m
        PROVE  f[i] = IF i = 0 THEN [p |-> <<>>, next |-> 1] ELSE Formatted(args, f[i - 1], fmt[i])
    <3>1. CASE i # 0
      <4>1. i \in 1 .. m /\ i - 1 \in 0 .. m
        BY <3>1
      <4>2. f[i] = turn(i) /\ f[i - 1] = turn(i - 1)
        BY <4>1
      <4> QED
        BY <1>6, <3>1, <4>1, <4>2
    <3> QED
      BY <1>5, <3>1
  <2>2. f = [i \in 0 .. m |-> f[i]]
    OBVIOUS
  <2> HIDE DEF f
  <2>3. IsTurns(fmt, args, f)
    BY <1>2, <2>1, <2>2 DEF IsTurns
  <2> QED
    BY <2>3 DEF turns
<1>9. \A i \in 0 .. m :
        turns[i] = IF i = 0 THEN [p |-> <<>>, next |-> 1] ELSE Formatted(args, turns[i - 1], fmt[i])
  BY <1>2, <1>8 DEF IsTurns
<1> DEFINE G == {i \in 0 .. m : turns[i] = turn(i)}
<1>10. 0 .. m \subseteq G
  <2>1. 0 \in G
    BY <1>5, <1>9
  <2>2. ASSUME NEW i \in 0 .. m - 1, i \in G
        PROVE  i + 1 \in G
    <3>1. i + 1 \in 1 .. m /\ i + 1 \in 0 .. m /\ i + 1 # 0 /\ (i + 1) - 1 = i
      OBVIOUS
    <3>2. turns[i + 1] = Formatted(args, turns[i], fmt[i + 1])
      BY <1>9, <3>1
    <3>3. turn(i + 1) = Formatted(args, turn(i), fmt[i + 1])
      BY <1>6, <3>1
    <3>4. turns[i] = turn(i)
      BY <2>2
    <3> QED
      BY <3>1, <3>2, <3>3, <3>4
  <2> QED
    BY <2>1, <2>2, InductionUpTo
<1>11. turns[m] = turn(m)
  BY <1>10
<1>12. turn(m).p = u[m]
  BY DEF turn
<1> QED
  BY <1>4, <1>7, <1>11, <1>12 DEF Char

(* vsprintf() writes what the format and the arguments stand for, in the   *)
(* order of the format, every number as its numeral and every field filled *)
(* up to its width, and does not write over the end of its buffer, for any *)
(* size of the buffers and of an int, and every format and arguments that  *)
(* are within bounds, but for the two kinds of number that i2a() cannot    *)
(* write.  Of a text out of bounds nothing is said: the code does not      *)
(* look.                                                                   *)
THEOREM VsprintfExact ==
  ASSUME NEW fmt \in Seq(Parts), NEW args, NEW size \in Nat,
         Fits(fmt, args), Representable(fmt, args), InBounds(fmt, args, size)
  PROVE  /\ vsprintf(fmt, args) = Reference(fmt, args)
         /\ Len(Reference(fmt, args)) <= size
<1>1. vsprintf(fmt, args) = Reference(fmt, args)
  BY TextFact
<1>2. Len(vsprintf(fmt, args)) <= size
  BY DEF InBounds
<1> QED
  BY <1>1, <1>2, Zenon

IsKept(text, f) ==
  f = [i \in 0 .. Len(text) |->
         IF i = 0 THEN <<>>
         ELSE IF text[i] \in Magic THEN f[i - 1] ELSE Append(f[i - 1], text[i])]

Kept(text) == CHOOSE f : IsKept(text, f)

LEMMA KeptFact ==
  ASSUME NEW text \in Seq(Char)
  PROVE  /\ Visible(text) = Kept(text)[Len(text)]
         /\ Kept(text)[0] = <<>>
         /\ \A i \in 1 .. Len(text) :
              Kept(text)[i] = IF text[i] \in Magic THEN Kept(text)[i - 1]
                              ELSE Append(Kept(text)[i - 1], text[i])
         /\ \A i \in 0 .. Len(text) : Kept(text)[i] \in Seq(Char)
<1>1. PICK m \in Nat : m = Len(text)
  BY LenProperties
<1> DEFINE V == Seq(Char)
           add(x, i) == IF text[i] \in Magic THEN x ELSE Append(x, text[i])
           F == [i \in Nat |-> [x \in V |-> IF i \in 1 .. m THEN add(x, i) ELSE x]]
<1>2. ASSUME NEW i \in 1 .. m, NEW x \in V
      PROVE  add(x, i) \in V
  <2>1. text[i] \in Char
    BY <1>1, ElementOfSeq
  <2> QED
    BY <2>1, AppendProperties
<1> HIDE DEF add
<1>3. F \in [Nat -> [V -> V]]
  BY <1>2
<1>4. \A i \in 1 .. m : \A x \in V : F[i][x] = add(x, i)
  OBVIOUS
<1>5. PICK a \in V : a = <<>>
  BY EmptySeq
<1> HIDE DEF F
<1>6. PICK f : Follows(m, V, a, F, f)
  BY <1>3, RecursionUpTo
<1>7. ASSUME NEW i \in 0 .. m
      PROVE  f[i] = IF i = 0 THEN <<>> ELSE add(f[i - 1], i)
  <2>1. CASE i # 0
    <3>1. i \in 1 .. m /\ i - 1 \in 0 .. m
      BY <2>1
    <3>2. f[i] = F[i][f[i - 1]] /\ f[i - 1] \in V
      BY <1>6, <3>1 DEF Follows
    <3> QED
      BY <1>4, <2>1, <3>1, <3>2
  <2> QED
    BY <2>1, <1>5, <1>6 DEF Follows
<1>8. IsKept(text, f)
  BY <1>1, <1>6, <1>7 DEF IsKept, Follows, add
<1>9. IsKept(text, Kept(text))
  BY <1>8 DEF Kept
<1>10. PICK u : u = Kept(text)
  OBVIOUS
<1>11. \A i \in 0 .. m : u[i] = IF i = 0 THEN <<>> ELSE add(u[i - 1], i)
  BY <1>1, <1>9, <1>10 DEF IsKept, add
<1> DEFINE G == {i \in 0 .. m : u[i] \in V}
<1>12. 0 .. m \subseteq G
  <2>1. 0 \in G
    <3>1. 0 \in 0 .. m
      OBVIOUS
    <3>2. u[0] = <<>>
      BY <1>11, <3>1
    <3>3. u[0] \in V
      BY <1>5, <3>2
    <3> QED
      BY <3>1, <3>3
  <2>2. ASSUME NEW i \in 0 .. m - 1, i \in G
        PROVE  i + 1 \in G
    <3>1. i + 1 \in 1 .. m /\ i + 1 \in 0 .. m /\ i + 1 # 0 /\ (i + 1) - 1 = i
      OBVIOUS
    <3>2. u[i + 1] = add(u[i], i + 1)
      BY <1>11, <3>1
    <3>3. u[i] \in V
      BY <2>2
    <3>4. u[i + 1] \in V
      BY <1>2, <3>1, <3>2, <3>3
    <3> QED
      BY <3>1, <3>4
  <2> QED
    BY <2>1, <2>2, InductionUpTo
<1>13. Visible(text) = u[m]
  BY <1>1, <1>10 DEF Visible, Kept, IsKept
<1>14. \A i \in 1 .. m : u[i] = IF text[i] \in Magic THEN u[i - 1] ELSE Append(u[i - 1], text[i])
  BY <1>11 DEF add
<1>15. u[0] = <<>>
  <2>1. 0 \in 0 .. m
    OBVIOUS
  <2> QED
    BY <1>11, <2>1
<1>16. \A i \in 0 .. m : u[i] \in Seq(Char)
  BY <1>12
<1> QED
  BY <1>1, <1>10, <1>13, <1>14, <1>15, <1>16

-----------------------------------------------------------------------------
(* The invariant of Failure                                                *)

Places == {"code", "spin()", "spin", "ud2"}

(* Only panic() is followed by ud2.                                        *)
Printing(c) ==
  /\ c.pc = "print"
  /\ c.fmt \in Seq(Parts) /\ Fits(c.fmt, c.args)
  /\ c.after \in Places
  /\ c.after = "ud2" => \E tail \in Tails : c = Panicking(tail)

Sound(c) == (\E pc \in Places : c = At(pc)) \/ Printing(c)

Tagged(t, s) == [i \in 1 .. Len(s) |-> <<t, s[i]>>]

(* What the loop of sys_printx() has shown of a text before it is at pos.  *)
ShownUpTo(f) ==
  /\ f.pos <= Len(f.text) + 1
  /\ out = Tagged(TtyOf[p_proc_ready], Kept(f.text)[f.pos - 1])

InSendrec(f) == f = [kind |-> "sendrec", code |-> f.code] /\ Sound(f.code)

(* The loop is not reached with the text of a panic, and the caller does   *)
(* not change while its text is shown.                                     *)
InPrintx(f) ==
  /\ f = [kind |-> "printx", pc |-> f.pc, code |-> f.code, pcb |-> p_proc_ready,
          text |-> vsprintf(f.code.fmt, f.code.args), pos |-> f.pos]
  /\ f.pc \in {"test", "loop"}
  /\ Printing(f.code) /\ Prepared(f.code)
  /\ f.pos \in Nat \ {0}
  /\ f.pc = "test" => f.pos = 1
  /\ f.pc = "loop" =>
       /\ f.code.after # "ud2"
       /\ Representable(f.code.fmt, f.code.args) => ShownUpTo(f)

(* A frame for each entry of the kernel: k_reenter is their number less 1. *)
Stack ==
  \/ /\ frames = <<>> /\ k_reenter = -1
  \/ /\ frames = <<frames[1]>> /\ k_reenter = 0
     /\ \/ InSendrec(frames[1]) /\ frames[1].code.pc # "ud2"
        \/ InPrintx(frames[1])
  \/ /\ frames = <<frames[1], frames[2]>> /\ k_reenter = 1
     /\ InSendrec(frames[1]) /\ InPrintx(frames[2])
     /\ frames[1].code = At(frames[2].code.after)

(* A process that is about to execute ud2 is still in the printx of its    *)
(* panic().                                                                *)
Doomed ==
  \A p \in Procs : proc[p].pc = "ud2" =>
    /\ p = p_proc_ready
    /\ frames # <<>> /\ frames = <<frames[1]>>
    /\ frames[1].kind = "printx" /\ frames[1].code.after = "ud2"

FInv ==
  /\ p_proc_ready \in Procs
  /\ DOMAIN proc = Procs
  /\ \A p \in Procs : Sound(proc[p])
  /\ Stack
  /\ Doomed
  /\ FaultReported

LEMMA OneFrame ==
  ASSUME NEW f, NEW s, s = <<f>>
  PROVE  /\ s # <<>> /\ Len(s) = 1 /\ s[1] = f
         /\ Last(s) = f /\ Front(s) = <<>>
         /\ \A g, h : s # <<g, h>>
         /\ \A x : Front(s) \o <<x>> = <<x>>
<1>1. s # <<>> /\ Len(s) = 1 /\ s[1] = f /\ \A g, h : s # <<g, h>>
  OBVIOUS
<1>2. Last(s) = f
  BY <1>1 DEF Last
<1>3. Front(s) = <<>>
  <2>1. Front(s) = SubSeq(s, 1, 0)
    BY <1>1 DEF Front
  <2> QED
    BY <2>1
<1>4. ASSUME NEW x PROVE Front(s) \o <<x>> = <<x>>
  <2>1. PICK G, b : G = {x} /\ b = <<x>>
    OBVIOUS
  <2>2. b \in Seq(G)
    BY <2>1
  <2> QED
    BY <1>3, <2>1, <2>2, ConcatEmptySeq
<1> QED
  BY <1>1, <1>2, <1>3, <1>4

LEMMA TwoFrames ==
  ASSUME NEW f, NEW g, NEW s, s = <<f, g>>
  PROVE  /\ s # <<>> /\ s[1] = f /\ s[2] = g
         /\ Last(s) = g /\ Front(s) = <<f>>
         /\ \A h : s # <<h>>
         /\ \A x : Front(s) \o <<x>> = <<f, x>>
<1>1. s # <<>> /\ Len(s) = 2 /\ s[1] = f /\ s[2] = g /\ \A h : s # <<h>>
  OBVIOUS
<1>2. Last(s) = g
  BY <1>1 DEF Last
<1>3. Front(s) = <<f>>
  <2>1. Front(s) = SubSeq(s, 1, 1)
    BY <1>1 DEF Front
  <2> QED
    BY <1>1, <2>1
<1>4. ASSUME NEW x PROVE Front(s) \o <<x>> = <<f, x>>
  <2>1. PICK G, a, b, c : G = {f, x} /\ a = <<f>> /\ b = <<x>> /\ c = <<f, x>>
    OBVIOUS
  <2>2. a \in Seq(G) /\ b \in Seq(G) /\ c \in Seq(G) /\ Len(a) = 1 /\ Len(b) = 1 /\ Len(c) = 2
    BY <2>1
  <2>3. PICK d : d = a \o b
    OBVIOUS
  <2>4. d \in Seq(G) /\ Len(d) = 2 /\ d[1] = a[1] /\ d[2] = b[1]
    <3>1. /\ d \in Seq(G) /\ Len(d) = 2
          /\ \A i \in 1 .. 2 : d[i] = IF i <= 1 THEN a[i] ELSE b[i - 1]
      <4>1. /\ d \in Seq(G) /\ Len(d) = Len(a) + Len(b)
            /\ \A i \in 1 .. Len(a) + Len(b) : d[i] = IF i <= Len(a) THEN a[i] ELSE b[i - Len(a)]
        BY <2>2, <2>3, ConcatProperties
      <4>2. Len(a) + Len(b) = 2 /\ Len(a) = 1
        BY <2>2
      <4> QED
        BY <4>1, <4>2
    <3>2. 1 \in 1 .. 2 /\ 2 \in 1 .. 2 /\ 2 - 1 = 1 /\ ~(2 <= 1) /\ 1 <= 1
      OBVIOUS
    <3> QED
      BY <3>1, <3>2
  <2>5. \A i \in 1 .. Len(d) : d[i] = c[i]
    BY <2>1, <2>4
  <2>6. d = c
    BY <2>2, <2>4, <2>5, SeqEqual
  <2> QED
    BY <1>3, <2>1, <2>3, <2>6
<1> QED
  BY <1>1, <1>2, <1>3, <1>4

LEMMA FitsFact ==
  /\ Printing(AssertionFailure)
  /\ \A tail \in Tails : Printing(Panicking(tail))
  /\ Printing(Spinning)
<1>1. Lit(10) \in Parts /\ ~TakesArg(Lit(10)) /\ Lit(10).conv = "copy"
  <2>1. 10 \in Byte
    BY DEF Byte
  <2> QED
    BY <2>1 DEF Lit, Parts, TakesArg
<1>2. ASSUME NEW conv \in {"c", "s"}
      PROVE  Directive(conv) \in Parts /\ TakesArg(Directive(conv)) /\ Directive(conv).conv = conv
  <2>1. conv \in Conversions
    BY DEF Conversions
  <2>2. Directive(conv) \in Parts
    BY <2>1, FormatAssumption DEF Directive, Parts, FormatAssumption
  <2>3. Directive(conv).conv = conv
    BY DEF Directive
  <2>4. TakesArg(Directive(conv))
    BY <2>3 DEF TakesArg
  <2> QED
    BY <2>2, <2>3, <2>4
<1>3. Printing(AssertionFailure)
  <2> DEFINE fmt == <<Lit(10), Directive("c"), Directive("s")>>
             args == <<MAG_CH_ASSERT, <<65>> >>
  <2>1. fmt \in Seq(Parts) /\ Len(fmt) = 3
    BY <1>1, <1>2
  <2>2. fmt[1] = Lit(10) /\ fmt[2] = Directive("c") /\ fmt[3] = Directive("s")
    OBVIOUS
  <2> HIDE DEF fmt
  <2>3. ArgOf(fmt, 0) = 0 /\ ArgOf(fmt, 1) = 0 /\ ArgOf(fmt, 2) = 1 /\ ArgOf(fmt, 3) = 2
    <3>1. ArgOf(fmt, 0) = 0
      BY ArgOfFact
    <3>2. ArgOf(fmt, 0 + 1) = 0
      BY <1>1, <2>2, <3>1, ArgOfFact
    <3>3. ArgOf(fmt, 1 + 1) = 1
      BY <1>2, <2>2, <3>2, ArgOfFact
    <3>4. ArgOf(fmt, 2 + 1) = 2
      BY <1>2, <2>2, <3>3, ArgOfFact
    <3> QED
      BY <3>1, <3>2, <3>3, <3>4
  <2>4. args[1] \in Byte /\ args[2] \in Seq(Byte)
    BY DEF MAG_CH_ASSERT, Byte
  <2> HIDE DEF args
  <2>5. ASSUME NEW i \in 1 .. Len(fmt)
        PROVE  LET arg == args[ArgOf(fmt, i)] IN
                 /\ fmt[i].conv = "c" => arg \in Byte \cup {0}
                 /\ fmt[i].conv \in {"x", "d"} => arg \in Ints
                 /\ fmt[i].conv = "s" => arg \in Seq(Byte)
    <3>1. i = 1 \/ i = 2 \/ i = 3
      BY <2>1
    <3> QED
      BY <1>1, <1>2, <2>2, <2>3, <2>4, <3>1
  <2>6. Fits(fmt, args)
    BY <2>5 DEF Fits
  <2>7. AssertionFailure = Prints(fmt, args, "spin()")
    BY DEF AssertionFailure, fmt, args
  <2> QED
    BY <2>1, <2>6, <2>7 DEF Printing, Prints, Places
<1>4. ASSUME NEW tail \in Tails PROVE Printing(Panicking(tail))
  <2> DEFINE fmt == <<Directive("c"), Directive("s")>>
             args == <<MAG_CH_PANIC, <<80>> \o tail>>
  <2>1. fmt \in Seq(Parts) /\ Len(fmt) = 2
    BY <1>2
  <2>2. fmt[1] = Directive("c") /\ fmt[2] = Directive("s")
    OBVIOUS
  <2> HIDE DEF fmt
  <2>3. ArgOf(fmt, 1) = 1 /\ ArgOf(fmt, 2) = 2
    <3>1. ArgOf(fmt, 0) = 0
      BY ArgOfFact
    <3>2. ArgOf(fmt, 0 + 1) = 1
      BY <1>2, <2>2, <3>1, ArgOfFact
    <3>3. ArgOf(fmt, 1 + 1) = 2
      BY <1>2, <2>2, <3>2, ArgOfFact
    <3> QED
      BY <3>2, <3>3
  <2>4. args[1] \in Byte /\ args[2] \in Seq(Byte)
    <3>1. tail \in Seq(Byte)
      BY FailureAssumption DEF FailureAssumption
    <3>2. <<80>> \in Seq(Byte)
      BY DEF Byte
    <3>3. <<80>> \o tail \in Seq(Byte)
      BY <3>1, <3>2, ConcatProperties
    <3> QED
      BY <3>3 DEF MAG_CH_PANIC, Byte
  <2>5. Panicking(tail) = Prints(fmt, args, "ud2")
    BY DEF Panicking, fmt, args
  <2> HIDE DEF args
  <2>6. ASSUME NEW i \in 1 .. Len(fmt)
        PROVE  LET arg == args[ArgOf(fmt, i)] IN
                 /\ fmt[i].conv = "c" => arg \in Byte \cup {0}
                 /\ fmt[i].conv \in {"x", "d"} => arg \in Ints
                 /\ fmt[i].conv = "s" => arg \in Seq(Byte)
    <3>1. i = 1 \/ i = 2
      BY <2>1
    <3> QED
      BY <1>2, <2>2, <2>3, <2>4, <3>1
  <2>7. Fits(fmt, args)
    BY <2>6 DEF Fits
  <2> QED
    BY <2>1, <2>5, <2>7 DEF Printing, Prints, Places
<1>5. Printing(Spinning)
  <2> DEFINE fmt == <<Lit(10), Directive("s")>>
             args == << <<83>> >>
  <2>1. fmt \in Seq(Parts) /\ Len(fmt) = 2
    BY <1>1, <1>2
  <2>2. fmt[1] = Lit(10) /\ fmt[2] = Directive("s")
    OBVIOUS
  <2> HIDE DEF fmt
  <2>3. ArgOf(fmt, 1) = 0 /\ ArgOf(fmt, 2) = 1
    <3>1. ArgOf(fmt, 0) = 0
      BY ArgOfFact
    <3>2. ArgOf(fmt, 0 + 1) = 0
      BY <1>1, <2>2, <3>1, ArgOfFact
    <3>3. ArgOf(fmt, 1 + 1) = 1
      BY <1>2, <2>2, <3>2, ArgOfFact
    <3> QED
      BY <3>2, <3>3
  <2>4. args[1] \in Seq(Byte)
    BY DEF Byte
  <2>5. Spinning = Prints(fmt, args, "spin")
    BY DEF Spinning, fmt, args
  <2> HIDE DEF args
  <2>6. ASSUME NEW i \in 1 .. Len(fmt)
        PROVE  LET arg == args[ArgOf(fmt, i)] IN
                 /\ fmt[i].conv = "c" => arg \in Byte \cup {0}
                 /\ fmt[i].conv \in {"x", "d"} => arg \in Ints
                 /\ fmt[i].conv = "s" => arg \in Seq(Byte)
    <3>1. i = 1 \/ i = 2
      BY <2>1
    <3> QED
      BY <1>1, <1>2, <2>2, <2>3, <2>4, <3>1
  <2>7. Fits(fmt, args)
    BY <2>6 DEF Fits
  <2> QED
    BY <2>1, <2>5, <2>7 DEF Printing, Prints, Places
<1> QED
  BY <1>3, <1>4, <1>5

(* The text of a panic begins with its magic character.                    *)
LEMMA PanicText ==
  ASSUME NEW c, Printing(c), c.after = "ud2"
  PROVE  Halts(vsprintf(c.fmt, c.args))
<1>1. PICK tail \in Tails : c = Panicking(tail)
  BY DEF Printing
<1>2. PICK fmt, args : fmt = c.fmt /\ args = c.args
  OBVIOUS
<1>3. /\ fmt = <<Directive("c"), Directive("s")>>
      /\ args[1] = MAG_CH_PANIC
  BY <1>1, <1>2 DEF Panicking, Prints
<1>4. /\ Len(fmt) = 2 /\ fmt[1] = Directive("c") /\ fmt[2] = Directive("s")
      /\ fmt[1].conv = "c" /\ fmt[2].conv = "s" /\ fmt[1].width = 0
  BY <1>3 DEF Directive
<1>5. fmt \in Seq(Parts) /\ Fits(fmt, args)
  BY <1>2 DEF Printing
<1>6. \A i \in 1 .. Len(fmt) : fmt[i].conv # "x" /\ fmt[i].conv # "d"
  BY <1>4
<1>7. Representable(fmt, args)
  BY <1>6 DEF Representable
<1>8. Printable(fmt, args)
  BY <1>5, <1>7 DEF Printable
<1>9. ArgOf(fmt, 1) = 1
  <2>1. TakesArg(fmt[0 + 1])
    BY <1>4 DEF TakesArg
  <2>2. ArgOf(fmt, 0) = 0 /\ ArgOf(fmt, 0 + 1) = ArgOf(fmt, 0) + 1
    BY <2>1, ArgOfFact
  <2> QED
    BY <2>2
<1>10. PICK a, b, s : a = Meaning(fmt, args, 1) /\ b = Meaning(fmt, args, 2) /\ s = <<MAG_CH_PANIC>>
  OBVIOUS
<1>11. a \in Seq(Char) /\ Len(a) = 1 /\ a[1] = MAG_CH_PANIC
  <2>1. a = Field(fmt[1], MAG_CH_PANIC)
    BY <1>3, <1>4, <1>9, <1>10 DEF Meaning, TakesArg
  <2>2. Plain(fmt[1], MAG_CH_PANIC) = s
    BY <1>4, <1>10 DEF Plain, MAG_CH_PANIC
  <2>3. Len(s) = 1 /\ s[1] = MAG_CH_PANIC
    BY <1>10
  <2>4. a = [i \in 1 .. 1 |-> s[i]]
    <3>1. PICK width, zero : width = fmt[1].width /\ zero = fmt[1].zero
      OBVIOUS
    <3>2. a = [i \in 1 .. (IF width > Len(s) THEN width ELSE Len(s)) |->
                 IF i > (IF width > Len(s) THEN width ELSE Len(s)) - Len(s)
                 THEN s[i - ((IF width > Len(s) THEN width ELSE Len(s)) - Len(s))]
                 ELSE IF zero THEN 48 ELSE 32]
      BY <2>1, <2>2, <3>1 DEF Field
    <3>3. (IF width > Len(s) THEN width ELSE Len(s)) = 1 /\ 1 - Len(s) = 0
      BY <1>4, <2>3, <3>1
    <3>4. a = [i \in 1 .. 1 |-> IF i > 0 THEN s[i - 0] ELSE IF zero THEN 48 ELSE 32]
      BY <2>3, <3>2, <3>3
    <3> QED
      BY <3>4
  <2>5. MAG_CH_PANIC \in Char
    BY DEF MAG_CH_PANIC, Char
  <2>6. a \in [1 .. 1 -> Char]
    BY <2>3, <2>4, <2>5
  <2> QED
    BY <2>3, <2>4, <2>6
<1>12. b \in Seq(Char)
  <2>1. PICK e \in Seq(Char) : e = <<>>
    BY EmptySeq
  <2>2. 2 \in 1 .. Len(fmt)
    BY <1>4
  <2> QED
    BY <1>8, <1>10, <2>1, <2>2, TurnFact
<1>13. PICK u : u = UpTo(fmt, args)
  OBVIOUS
<1>14. u[2] = a \o b
  <2>1. u[0] = <<>> /\ u[2] = vsprintf(fmt, args)
    BY <1>4, <1>5, <1>7, <1>8, <1>13, UpToFact, TextFact
  <2>2. 1 \in 1 .. Len(fmt) /\ 2 \in 1 .. Len(fmt) /\ 1 - 1 = 0 /\ 2 - 1 = 1
    BY <1>4
  <2>3. u[1] = u[1 - 1] \o a /\ u[2] = u[2 - 1] \o b
    BY <1>8, <1>10, <1>13, <2>2, UpToFact
  <2>4. <<>> \o a = a
    BY <1>11, ConcatEmptySeq
  <2> QED
    BY <2>1, <2>2, <2>3, <2>4
<1>15. vsprintf(fmt, args) = a \o b
  BY <1>4, <1>5, <1>7, <1>8, <1>13, <1>14, UpToFact, TextFact
<1>16. PICK t : t = a \o b
  OBVIOUS
<1>17. t # <<>> /\ t[1] = MAG_CH_PANIC
  <2>1. /\ t \in Seq(Char) /\ Len(t) = Len(a) + Len(b)
        /\ \A i \in 1 .. Len(a) + Len(b) : t[i] = IF i <= Len(a) THEN a[i] ELSE b[i - Len(a)]
    BY <1>11, <1>12, <1>16, ConcatProperties
  <2>2. Len(b) \in Nat
    BY <1>12, LenProperties
  <2>3. 1 \in 1 .. Len(a) + Len(b)
    BY <1>11, <2>2
  <2>4. t[1] = a[1]
    BY <1>11, <2>1, <2>3
  <2>5. Len(t) > 0
    BY <1>11, <2>1, <2>2
  <2>6. t # <<>>
    BY <2>1, <2>5, EmptySeq
  <2> QED
    BY <1>11, <2>4, <2>6
<1> QED
  BY <1>2, <1>15, <1>16, <1>17 DEF Halts

LEMMA TaggedFact ==
  ASSUME NEW t, NEW s \in Seq(Char)
  PROVE  /\ \A ch \in Char : Append(Tagged(t, s), <<t, ch>>) = Tagged(t, Append(s, ch))
         /\ Tagged(t, <<>>) = <<>>
<1>1. ASSUME NEW ch \in Char
      PROVE  Append(Tagged(t, s), <<t, ch>>) = Tagged(t, Append(s, ch))
  <2> DEFINE G == {<<t, x>> : x \in Char}
  <2>1. PICK n \in Nat : n = Len(s)
    BY LenProperties
  <2>2. \A i \in 1 .. n : s[i] \in Char
    BY <2>1, ElementOfSeq
  <2>3. PICK a : a = Tagged(t, s)
    OBVIOUS
  <2>4. a = [i \in 1 .. n |-> <<t, s[i]>>]
    BY <2>1, <2>3 DEF Tagged
  <2>5. a \in [1 .. n -> G]
    BY <2>2, <2>4
  <2>6. a \in Seq(G) /\ Len(a) = n
    BY <2>5
  <2>7. PICK x \in G : x = <<t, ch>>
    OBVIOUS
  <2>8. PICK b : b = Append(a, x)
    OBVIOUS
  <2>9. b \in Seq(G) /\ Len(b) = n + 1 /\ (\A i \in 1 .. n : b[i] = a[i]) /\ b[n + 1] = x
    BY <2>6, <2>8, AppendProperties
  <2>10. PICK r : r = Append(s, ch)
    OBVIOUS
  <2>11. r \in Seq(Char) /\ Len(r) = n + 1 /\ (\A i \in 1 .. n : r[i] = s[i]) /\ r[n + 1] = ch
    BY <2>1, <2>10, AppendProperties
  <2>12. PICK c : c = Tagged(t, r)
    OBVIOUS
  <2>13. c = [i \in 1 .. n + 1 |-> <<t, r[i]>>]
    BY <2>11, <2>12 DEF Tagged
  <2>14. \A i \in 1 .. n + 1 : r[i] \in Char
    BY <2>11, ElementOfSeq
  <2>15. c \in [1 .. n + 1 -> G]
    BY <2>13, <2>14
  <2>16. c \in Seq(G) /\ Len(c) = n + 1
    BY <2>15
  <2>17. ASSUME NEW i \in 1 .. Len(b) PROVE b[i] = c[i]
    <3>1. i \in 1 .. n + 1
      BY <2>9
    <3>2. CASE i \in 1 .. n
      <4>1. b[i] = <<t, s[i]>>
        BY <2>4, <2>9, <3>2
      <4>2. c[i] = <<t, s[i]>>
        BY <2>11, <2>13, <3>1, <3>2
      <4> QED
        BY <4>1, <4>2
    <3>3. CASE i = n + 1
      BY <2>7, <2>9, <2>11, <2>13, <3>1, <3>3
    <3> QED
      BY <3>1, <3>2, <3>3
  <2>18. b = c
    BY <2>9, <2>16, <2>17, SeqEqual
  <2> QED
    BY <2>3, <2>7, <2>8, <2>10, <2>12, <2>18
<1>2. Tagged(t, <<>>) = <<>>
  BY DEF Tagged
<1> QED
  BY <1>1, <1>2

-----------------------------------------------------------------------------
(* FInv is inductive                                                       *)

LEMMA Starts == Init => FInv
<1> SUFFICES ASSUME Init PROVE FInv
  OBVIOUS
<1>1. p_proc_ready \in Procs
  BY FailureAssumption DEF Init, FailureAssumption, Procs
<1>2. DOMAIN proc = Procs /\ \A p \in Procs : proc[p] = At("code")
  BY DEF Init
<1>3. \A p \in Procs : Sound(proc[p])
  BY <1>2 DEF Sound, Places
<1>4. Stack
  BY DEF Init, Stack
<1>5. Doomed
  BY <1>2 DEF Doomed, At
<1>6. FaultReported
  BY DEF Init, FaultReported
<1> QED
  BY <1>1, <1>2, <1>3, <1>4, <1>5, <1>6 DEF FInv

LEMMA PlacesFact ==
  /\ \A pc : At(pc).pc = pc
  /\ \A c : Printing(c) => c.pc = "print"
  /\ \A c : Sound(c) /\ c.pc = "print" => Printing(c)
  /\ \A pc \in Places : Sound(At(pc)) /\ pc # "print"
<1>1. \A pc : At(pc).pc = pc
  BY DEF At
<1>2. \A pc \in Places : pc # "print"
  BY DEF Places
<1> QED
  BY <1>1, <1>2 DEF Sound, Printing

(* A step that leaves the calls alone.                                     *)
LEMMA Unmoved ==
  ASSUME FInv, UNCHANGED <<proc, frames, p_proc_ready, k_reenter, out>>, FaultReported'
  PROVE  FInv'
<1>1. \A f : InPrintx(f) => InPrintx(f)'
  BY DEF InPrintx, ShownUpTo
<1>2. Stack'
  BY <1>1 DEF FInv, Stack, InSendrec
<1>3. Doomed'
  BY DEF FInv, Doomed
<1> QED
  BY <1>2, <1>3 DEF FInv

(* In user mode no frame is left, and nobody is about to execute ud2.      *)
LEMMA NoFrame ==
  ASSUME FInv, frames = <<>>
  PROVE  k_reenter = -1 /\ \A p \in Procs : proc[p].pc # "ud2"
<1>1. \A f, g : frames # <<f>> /\ frames # <<f, g>>
  <2>1. \A f, g : <<>> # <<f>> /\ <<>> # <<f, g>>
    BY OneFrame, TwoFrames
  <2> QED
    BY <2>1
<1> QED
  BY <1>1 DEF FInv, Stack, Doomed

LEMMA SendrecFrame ==
  ASSUME FInv, InKernel("sendrec")
  PROVE  /\ \E f : frames = <<f>> /\ Top = f /\ InSendrec(f) /\ f.code.pc # "ud2"
         /\ k_reenter = 0
         /\ \A p \in Procs : proc[p].pc # "ud2"
<1>1. frames # <<>> /\ Top.kind = "sendrec"
  BY DEF InKernel
<1>2. CASE frames = <<frames[1], frames[2]>> /\ InPrintx(frames[2])
  <2>1. Top = frames[2]
    BY <1>2, TwoFrames DEF Top
  <2> QED
    BY <1>1, <1>2, <2>1 DEF InPrintx
<1>3. CASE frames = <<frames[1]>>
  <2>1. Top = frames[1]
    BY <1>3, OneFrame DEF Top
  <2>2. ~InPrintx(frames[1])
    BY <1>1, <2>1 DEF InPrintx
  <2>3. InSendrec(frames[1]) /\ frames[1].code.pc # "ud2" /\ k_reenter = 0
    <3>1. \A f, g : frames # <<f, g>>
      BY <1>3, OneFrame
    <3> QED
      BY <1>1, <2>2, <3>1 DEF FInv, Stack
  <2>4. \A p \in Procs : proc[p].pc # "ud2"
    BY <1>1, <2>1 DEF FInv, Doomed
  <2> QED
    BY <1>3, <2>1, <2>3, <2>4
<1> QED
  BY <1>1, <1>2, <1>3 DEF FInv, Stack

LEMMA PrintxFrames ==
  ASSUME FInv, InKernel("printx")
  PROVE  \E g : /\ Top = g /\ g.kind = "printx" /\ InPrintx(g)
                /\ \/ frames = <<g>> /\ k_reenter = 0
                   \/ \E f : /\ frames = <<f, g>> /\ k_reenter = 1
                             /\ InSendrec(f) /\ f.code = At(g.code.after)
<1>1. frames # <<>> /\ Top.kind = "printx"
  BY DEF InKernel
<1>2. CASE frames = <<frames[1], frames[2]>>
  <2>1. Top = frames[2] /\ \A h : frames # <<h>>
    BY <1>2, TwoFrames DEF Top
  <2>2. InSendrec(frames[1]) /\ InPrintx(frames[2]) /\ k_reenter = 1
        /\ frames[1].code = At(frames[2].code.after)
    BY <1>1, <2>1 DEF FInv, Stack
  <2> QED
    BY <1>1, <1>2, <2>1, <2>2
<1>3. CASE frames = <<frames[1]>>
  <2>1. Top = frames[1] /\ \A f, g : frames # <<f, g>>
    BY <1>3, OneFrame DEF Top
  <2>2. ~InSendrec(frames[1])
    BY <1>1, <2>1 DEF InSendrec
  <2>3. InPrintx(frames[1]) /\ k_reenter = 0
    BY <1>1, <2>1, <2>2 DEF FInv, Stack
  <2> QED
    BY <1>1, <1>3, <2>1, <2>3
<1> QED
  BY <1>1, <1>2, <1>3 DEF FInv, Stack

LEMMA Quiet ==
  ASSUME machine' # "exception"
  PROVE  FaultReported'
BY DEF FaultReported

LEMMA ProcessWorksKeeps ==
  ASSUME FInv, NEW p \in Procs, ProcessWorks(p)
  PROVE  FInv'
<1>1. frames = <<>> /\ machine = "running" /\ p_proc_ready = p
      /\ UNCHANGED <<frames, p_proc_ready, k_reenter, out, machine, report>>
  BY DEF ProcessWorks, UserMode, Running
<1>2. \E d : proc' = [proc EXCEPT ![p] = d] /\ Printing(d)
  <2>1. ASSUME NEW call \in Calls[p], proc' = [proc EXCEPT ![p] = Prints(call.fmt, call.args, "code")]
        PROVE  \E d : proc' = [proc EXCEPT ![p] = d] /\ Printing(d)
    <3>1. call.fmt \in Seq(Parts) /\ Fits(call.fmt, call.args)
      BY FailureAssumption DEF FailureAssumption
    <3>2. Printing(Prints(call.fmt, call.args, "code"))
      BY <3>1 DEF Printing, Prints, Places
    <3> QED
      BY <2>1, <3>2
  <2>2. \A d \in {AssertionFailure, Spinning} \cup {Panicking(tail) : tail \in Tails} : Printing(d)
    BY FitsFact
  <2> QED
    BY <2>1, <2>2 DEF ProcessWorks
<1>3. PICK d : proc' = [proc EXCEPT ![p] = d] /\ Printing(d)
  BY <1>2
<1>4. DOMAIN proc' = Procs /\ proc'[p] = d /\ \A q \in Procs \ {p} : proc'[q] = proc[q]
  BY <1>3 DEF FInv
<1>5. \A q \in Procs : Sound(proc'[q])
  BY <1>3, <1>4 DEF FInv, Sound
<1>6. Stack'
  BY <1>1, NoFrame DEF Stack
<1>7. \A q \in Procs : proc'[q].pc # "ud2"
  BY <1>1, <1>3, <1>4, NoFrame DEF Printing
<1>8. FaultReported'
  BY <1>1, Quiet
<1> QED
  BY <1>1, <1>4, <1>5, <1>6, <1>7, <1>8 DEF FInv, Doomed, Sound, Printing

(* A new frame for printx.                                                 *)
LEMMA PrintxBegins ==
  ASSUME FInv, NEW c, Printing(c), Prepared(c), NEW g, g = PrintxFrame(c), p_proc_ready' = p_proc_ready
  PROVE  InPrintx(g)' /\ g.kind = "printx" /\ g.code = c
<1>1. g = [kind |-> "printx", pc |-> "test", code |-> c, pcb |-> p_proc_ready,
           text |-> vsprintf(c.fmt, c.args), pos |-> 1]
  BY DEF PrintxFrame
<1>2. g.pc = "test" /\ g.pos = 1 /\ g.code = c /\ g.kind = "printx"
  BY <1>1
<1>3. g = [kind |-> "printx", pc |-> g.pc, code |-> g.code, pcb |-> p_proc_ready',
           text |-> vsprintf(g.code.fmt, g.code.args), pos |-> g.pos]
  BY <1>1, <1>2
<1> QED
  BY <1>2, <1>3 DEF InPrintx

LEMMA ProcessTrapsKeeps ==
  ASSUME FInv, NEW p \in Procs, ProcessTraps(p)
  PROVE  FInv'
<1>1. frames = <<>> /\ machine = "running" /\ p_proc_ready = p /\ proc[p].pc = "print"
      /\ UNCHANGED <<p_proc_ready, out, machine, report>>
  BY DEF ProcessTraps, UserMode, Running
<1>2. PICK c, g : c = proc[p] /\ g = PrintxFrame(c)
  OBVIOUS
<1>3. Printing(c) /\ Prepared(c)
  BY <1>1, <1>2, PlacesFact DEF FInv, ProcessTraps
<1>4. InPrintx(g)' /\ g.kind = "printx" /\ g.code = c
  BY <1>1, <1>2, <1>3, PrintxBegins
<1>5. frames' = <<g>> /\ k_reenter' = 0
  BY <1>1, <1>2, NoFrame DEF ProcessTraps
<1>6. frames'[1] = g /\ frames' # <<>>
  BY <1>5, OneFrame
<1>7. Stack'
  BY <1>4, <1>5, <1>6 DEF Stack
<1>8. proc' = [proc EXCEPT ![p] = At(c.after)]
  BY <1>2 DEF ProcessTraps
<1>9. DOMAIN proc' = Procs /\ proc'[p] = At(c.after) /\ \A q \in Procs \ {p} : proc'[q] = proc[q]
  BY <1>8 DEF FInv
<1>10. ASSUME NEW q \in Procs PROVE Sound(proc'[q])
  <2>1. Sound(At(c.after))
    BY <1>3, PlacesFact DEF Printing
  <2> QED
    BY <1>9, <2>1 DEF FInv
<1>11. ASSUME NEW q \in Procs, proc'[q].pc = "ud2"
       PROVE  /\ q = p_proc_ready'
              /\ frames' # <<>> /\ frames' = <<frames'[1]>>
              /\ frames'[1].kind = "printx" /\ frames'[1].code.after = "ud2"
  <2>1. q = p
    BY <1>1, <1>9, <1>11, NoFrame
  <2>2. c.after = "ud2"
    BY <1>9, <1>11, <2>1, PlacesFact
  <2> QED
    BY <1>1, <1>4, <1>5, <1>6, <2>1, <2>2
<1>12. FaultReported'
  BY <1>1, Quiet
<1> QED
  BY <1>1, <1>7, <1>9, <1>10, <1>11, <1>12 DEF FInv, Doomed, Sound, Printing

LEMMA OverrunKeeps ==
  ASSUME FInv, (\E p \in Procs : ProcessOverruns(p)) \/ KernelOverruns
  PROVE  FInv'
<1>1. machine' = "overrun" /\ UNCHANGED <<proc, frames, p_proc_ready, k_reenter, out, report>>
  BY DEF ProcessOverruns, KernelOverruns
<1>2. FaultReported'
  BY <1>1, Quiet
<1> QED
  BY <1>1, <1>2, Unmoved

LEMMA SendrecKeeps ==
  ASSUME FInv, NEW p \in Procs, Sendrec(p)
  PROVE  FInv'
<1>1. frames = <<>> /\ machine = "running" /\ UNCHANGED <<proc, p_proc_ready, out, machine, report>>
  BY DEF Sendrec, UserMode, Running
<1>2. PICK g : g = [kind |-> "sendrec", code |-> At("code")]
  OBVIOUS
<1>3. frames' = <<g>> /\ k_reenter' = 0
  BY <1>1, <1>2, NoFrame DEF Sendrec
<1>4. InSendrec(g) /\ g.code.pc # "ud2"
  BY <1>2, PlacesFact DEF InSendrec, Places
<1>5. frames'[1] = g
  BY <1>3, OneFrame
<1>6. Stack'
  BY <1>3, <1>4, <1>5 DEF Stack, InSendrec, Sound, Printing
<1>7. \A q \in Procs : proc'[q].pc # "ud2"
  BY <1>1, NoFrame
<1>8. FaultReported'
  BY <1>1, Quiet
<1> QED
  BY <1>1, <1>6, <1>7, <1>8 DEF FInv, Doomed, Sound, Printing

LEMMA KernelWorksKeeps ==
  ASSUME FInv, KernelWorks
  PROVE  FInv'
<1>1. InKernel("sendrec") /\ machine = "running"
      /\ UNCHANGED <<proc, p_proc_ready, k_reenter, out, machine, report>>
  BY DEF KernelWorks, InKernel, Running
<1>2. PICK f : frames = <<f>> /\ Top = f /\ InSendrec(f)
  BY <1>1, SendrecFrame
<1>3. PICK d \in {AssertionFailure, Spinning} \cup {Panicking(tail) : tail \in Tails} :
        frames' = <<[f EXCEPT !.code = d]>>
  BY <1>2 DEF KernelWorks
<1>4. Printing(d)
  BY FitsFact
<1>5. PICK g : g = [f EXCEPT !.code = d]
  OBVIOUS
<1>6. g = [kind |-> "sendrec", code |-> d]
  BY <1>2, <1>5 DEF InSendrec
<1>7. InSendrec(g) /\ g.code.pc # "ud2"
  <2>1. g.code = d
    BY <1>6
  <2> QED
    BY <1>4, <1>6, <2>1, PlacesFact DEF InSendrec, Sound
<1>8. frames' = <<g>> /\ frames'[1] = g
  BY <1>3, <1>5, OneFrame
<1>9. Stack'
  <2>1. k_reenter' = 0
    BY <1>1, SendrecFrame
  <2> QED
    BY <1>7, <1>8, <2>1 DEF Stack, InSendrec, Sound, Printing
<1>10. \A q \in Procs : proc'[q].pc # "ud2"
  BY <1>1, SendrecFrame
<1>11. FaultReported'
  BY <1>1, Quiet
<1> QED
  BY <1>1, <1>9, <1>10, <1>11 DEF FInv, Doomed, Sound, Printing

LEMMA KernelTrapsKeeps ==
  ASSUME FInv, KernelTraps
  PROVE  FInv'
<1>1. InKernel("sendrec") /\ machine = "running" /\ Top.code.pc = "print"
      /\ UNCHANGED <<proc, p_proc_ready, out, machine, report>>
  BY DEF KernelTraps, InKernel, Running
<1>2. PICK f : frames = <<f>> /\ Top = f /\ InSendrec(f)
  BY <1>1, SendrecFrame
<1>3. PICK c : c = f.code
  OBVIOUS
<1>4. Printing(c) /\ Prepared(c)
  BY <1>1, <1>2, <1>3, PlacesFact DEF InSendrec, KernelTraps
<1>5. PICK g, h : g = PrintxFrame(c) /\ h = [f EXCEPT !.code = At(c.after)]
  OBVIOUS
<1>6. frames' = <<h, g>> /\ k_reenter' = 1
  <2>1. k_reenter = 0
    BY <1>1, SendrecFrame
  <2> QED
    BY <1>2, <1>3, <1>5, <2>1 DEF KernelTraps
<1>7. InPrintx(g)' /\ g.code = c
  BY <1>1, <1>4, <1>5, PrintxBegins
<1>8. h = [kind |-> "sendrec", code |-> At(c.after)]
  BY <1>2, <1>5 DEF InSendrec
<1>9. InSendrec(h) /\ h.code = At(g.code.after)
  <2>1. h.code = At(c.after)
    BY <1>8
  <2>2. Sound(At(c.after))
    BY <1>4, PlacesFact DEF Printing
  <2> QED
    BY <1>7, <1>8, <2>1, <2>2 DEF InSendrec
<1>10. frames'[1] = h /\ frames'[2] = g
  BY <1>6, TwoFrames
<1>11. Stack'
  BY <1>6, <1>7, <1>9, <1>10 DEF Stack, InSendrec, Sound, Printing
<1>12. \A q \in Procs : proc'[q].pc # "ud2"
  BY <1>1, SendrecFrame
<1>13. FaultReported'
  BY <1>1, Quiet
<1> QED
  BY <1>1, <1>11, <1>12, <1>13 DEF FInv, Doomed, Sound, Printing

LEMMA SendrecReturnsKeeps ==
  ASSUME FInv, SendrecReturns
  PROVE  FInv'
<1>1. InKernel("sendrec") /\ machine = "running" /\ frames' = <<>> /\ k_reenter' = k_reenter - 1
      /\ UNCHANGED <<proc, p_proc_ready, out, machine, report>>
  BY DEF SendrecReturns, InKernel, Running
<1>2. k_reenter' = -1 /\ \A q \in Procs : proc'[q].pc # "ud2"
  BY <1>1, SendrecFrame
<1>3. Stack'
  BY <1>1, <1>2 DEF Stack
<1>4. FaultReported'
  BY <1>1, Quiet
<1> QED
  BY <1>1, <1>2, <1>3, <1>4 DEF FInv, Doomed, Sound, Printing

(* A step of the printx that runs.                                         *)
LEMMA TopChanges ==
  ASSUME FInv, InKernel("printx"), NEW h,
         frames' = Front(frames) \o <<h>>, InPrintx(h)', h.code = Top.code,
         UNCHANGED <<proc, p_proc_ready, k_reenter>>, machine' # "exception"
  PROVE  FInv'
<1>1. PICK g : /\ Top = g /\ g.kind = "printx" /\ InPrintx(g)
               /\ \/ frames = <<g>> /\ k_reenter = 0
                  \/ \E f : /\ frames = <<f, g>> /\ k_reenter = 1
                            /\ InSendrec(f) /\ f.code = At(g.code.after)
  BY PrintxFrames
<1>2. h.kind = "printx" /\ h.code = g.code
  BY <1>1 DEF InPrintx
<1>3. FaultReported'
  BY Quiet
<1>4. CASE frames = <<g>> /\ k_reenter = 0
  <2>1. frames' = <<h>> /\ frames'[1] = h /\ frames' # <<>> /\ frames[1] = g
    BY <1>4, OneFrame
  <2>2. Stack'
    BY <1>4, <2>1 DEF Stack
  <2>3. Doomed'
    BY <1>2, <1>4, <2>1 DEF FInv, Doomed
  <2> QED
    BY <1>3, <2>2, <2>3 DEF FInv, Sound, Printing
<1>5. ASSUME NEW f, frames = <<f, g>>, k_reenter = 1, InSendrec(f), f.code = At(g.code.after)
      PROVE  FInv'
  <2>1. frames' = <<f, h>> /\ frames'[1] = f /\ frames'[2] = h
    BY <1>5, TwoFrames
  <2>2. Stack'
    BY <1>2, <1>5, <2>1 DEF Stack, InSendrec, Sound, Printing
  <2>3. \A e : frames # <<e>>
    BY <1>5, TwoFrames
  <2>4. Doomed'
    BY <2>3 DEF FInv, Doomed
  <2> QED
    BY <1>3, <2>2, <2>4 DEF FInv, Sound, Printing
<1> QED
  BY <1>1, <1>4, <1>5

LEMMA TestKeeps ==
  ASSUME FInv, Test
  PROVE  FInv'
<1>1. InKernel("printx") /\ machine = "running" /\ Top.pc = "test"
      /\ UNCHANGED <<proc, p_proc_ready, k_reenter, report>>
  BY DEF Test, InKernel, Running
<1>2. CASE Halts(Top.text)
  <2>1. machine' = "printx" /\ UNCHANGED <<frames, out>>
    BY <1>2 DEF Test
  <2> QED
    BY <1>1, <2>1, Quiet, Unmoved
<1>3. CASE ~Halts(Top.text)
  <2>1. PICK g : Top = g /\ InPrintx(g)
    BY <1>1, PrintxFrames
  <2>2. PICK h : h = [g EXCEPT !.pc = "loop"]
    OBVIOUS
  <2>3. frames' = Front(frames) \o <<h>> /\ out' = <<>> /\ machine' = machine
    BY <1>3, <2>1, <2>2 DEF Test
  <2>4. g = [kind |-> "printx", pc |-> g.pc, code |-> g.code, pcb |-> p_proc_ready,
             text |-> vsprintf(g.code.fmt, g.code.args), pos |-> g.pos]
    BY <2>1 DEF InPrintx
  <2>5. h = [kind |-> "printx", pc |-> "loop", code |-> g.code, pcb |-> p_proc_ready,
             text |-> vsprintf(g.code.fmt, g.code.args), pos |-> g.pos]
    BY <2>2, <2>4
  <2>6. PICK c, text : c = g.code /\ text = vsprintf(c.fmt, c.args)
    OBVIOUS
  <2>7. g.text = text /\ h.text = text /\ h.code = c /\ h.pc = "loop" /\ h.pos = g.pos
    BY <2>4, <2>5, <2>6
  <2>8. Printing(c) /\ Prepared(c) /\ g.pos = 1
    BY <1>1, <2>1, <2>6 DEF InPrintx
  <2>9. c.after # "ud2"
    BY <1>3, <2>1, <2>6, <2>7, <2>8, PanicText
  <2>10. ASSUME Representable(c.fmt, c.args) PROVE ShownUpTo(h)'
    <3>1. text \in Seq(Char)
      BY <2>6, <2>8, <2>10, TextFact DEF Printing, Char
    <3>2. Len(text) \in Nat
      BY <3>1, LenProperties
    <3>3. Kept(text)[0] = <<>>
      BY <3>1, KeptFact
    <3>4. PICK e \in Seq(Char) : e = <<>>
      BY EmptySeq
    <3>5. Tagged(TtyOf[p_proc_ready], Kept(text)[0]) = <<>>
      BY <3>3, <3>4, TaggedFact
    <3>6. h.pos <= Len(text) + 1 /\ h.pos - 1 = 0
      BY <2>7, <2>8, <3>2
    <3> QED
      BY <1>1, <2>3, <2>7, <3>5, <3>6 DEF ShownUpTo
  <2>11. h.pos = 1
    BY <2>7, <2>8
  <2>12. h = [kind |-> "printx", pc |-> h.pc, code |-> h.code, pcb |-> p_proc_ready',
              text |-> vsprintf(h.code.fmt, h.code.args), pos |-> h.pos]
    BY <1>1, <2>5, <2>6, <2>7
  <2>13. InPrintx(h)'
    BY <2>7, <2>8, <2>9, <2>10, <2>11, <2>12 DEF InPrintx
  <2> QED
    BY <1>1, <2>1, <2>3, <2>6, <2>7, <2>13, TopChanges
<1> QED
  BY <1>2, <1>3

LEMMA PrintCharKeeps ==
  ASSUME FInv, PrintChar
  PROVE  FInv'
<1>1. InKernel("printx") /\ machine = "running" /\ Top.pc = "loop" /\ Top.pos <= Len(Top.text)
      /\ UNCHANGED <<proc, p_proc_ready, k_reenter, machine, report>>
  BY DEF PrintChar, InKernel, Running
<1>2. PICK g : Top = g /\ InPrintx(g)
  BY <1>1, PrintxFrames
<1>3. PICK h : h = [g EXCEPT !.pos = g.pos + 1]
  OBVIOUS
<1>4. frames' = Front(frames) \o <<h>>
  BY <1>2, <1>3 DEF PrintChar
<1>5. g = [kind |-> "printx", pc |-> g.pc, code |-> g.code, pcb |-> p_proc_ready,
           text |-> vsprintf(g.code.fmt, g.code.args), pos |-> g.pos]
  BY <1>2 DEF InPrintx
<1>6. PICK c, text, n : c = g.code /\ text = vsprintf(c.fmt, c.args) /\ n = g.pos
  OBVIOUS
<1>7. h = [kind |-> "printx", pc |-> g.pc, code |-> c, pcb |-> p_proc_ready, text |-> text, pos |-> n + 1]
  BY <1>3, <1>5, <1>6
<1>8. g.text = text /\ g.pcb = p_proc_ready
  BY <1>5, <1>6
<1>9. h.text = text /\ h.code = c /\ h.pc = "loop" /\ h.pos = n + 1
  BY <1>1, <1>2, <1>7
<1>10. Printing(c) /\ Prepared(c) /\ n \in Nat \ {0} /\ c.after # "ud2" /\ n <= Len(text)
  BY <1>1, <1>2, <1>6, <1>8 DEF InPrintx
<1>11. ASSUME Representable(c.fmt, c.args) PROVE ShownUpTo(h)'
  <2>1. text \in Seq(Char)
    BY <1>6, <1>10, <1>11, TextFact DEF Printing, Char
  <2>2. PICK m \in Nat : m = Len(text)
    BY <2>1, LenProperties
  <2>3. n \in 1 .. m /\ n - 1 \in 0 .. m /\ (n + 1) - 1 = n /\ n + 1 <= m + 1
    BY <1>10, <2>2
  <2>4. PICK s, r, t, ch : s = Kept(text)[n - 1] /\ r = Kept(text)[n] /\ t = TtyOf[p_proc_ready] /\ ch = text[n]
    OBVIOUS
  <2>5. s \in Seq(Char) /\ ch \in Char
    BY <2>1, <2>2, <2>3, <2>4, KeptFact, ElementOfSeq
  <2>6. r = IF ch \in Magic THEN s ELSE Append(s, ch)
    BY <2>1, <2>2, <2>3, <2>4, KeptFact
  <2>7. out = Tagged(t, s)
    BY <1>1, <1>2, <1>6, <1>8, <1>11, <2>4 DEF InPrintx, ShownUpTo
  <2>8. out' = IF ch \in Magic THEN out ELSE Append(out, <<t, ch>>)
    BY <1>2, <1>6, <1>8, <2>4 DEF PrintChar, IsSkipped
  <2>9. out' = Tagged(t, r)
    BY <2>5, <2>6, <2>7, <2>8, TaggedFact
  <2>10. h.pos <= Len(h.text) + 1 /\ h.pos - 1 = n /\ h.text = text
    BY <1>9, <2>2, <2>3
  <2>11. out' = Tagged(TtyOf[p_proc_ready'], Kept(h.text)[h.pos - 1])
    BY <1>1, <2>4, <2>9, <2>10
  <2> QED
    BY <2>10, <2>11 DEF ShownUpTo
<1>12. h.pos \in Nat \ {0}
  BY <1>9, <1>10
<1>13. h = [kind |-> "printx", pc |-> h.pc, code |-> h.code, pcb |-> p_proc_ready',
            text |-> vsprintf(h.code.fmt, h.code.args), pos |-> h.pos]
  BY <1>1, <1>2, <1>6, <1>7, <1>9
<1>14. InPrintx(h)'
  BY <1>9, <1>10, <1>11, <1>12, <1>13 DEF InPrintx
<1> QED
  BY <1>1, <1>2, <1>4, <1>6, <1>9, <1>14, TopChanges

LEMMA PrintxReturnsKeeps ==
  ASSUME FInv, PrintxReturns
  PROVE  FInv'
<1>1. InKernel("printx") /\ machine = "running" /\ Top.pc = "loop"
      /\ frames' = Front(frames) /\ k_reenter' = k_reenter - 1
      /\ UNCHANGED <<proc, p_proc_ready, machine, report>>
  BY DEF PrintxReturns, InKernel, Running
<1>2. PICK g : /\ Top = g /\ g.kind = "printx" /\ InPrintx(g)
               /\ \/ frames = <<g>> /\ k_reenter = 0
                  \/ \E f : /\ frames = <<f, g>> /\ k_reenter = 1
                            /\ InSendrec(f) /\ f.code = At(g.code.after)
  BY <1>1, PrintxFrames
<1>3. g.code.after # "ud2"
  BY <1>1, <1>2 DEF InPrintx
<1>4. FaultReported'
  BY <1>1, Quiet
<1>5. CASE frames = <<g>> /\ k_reenter = 0
  <2>1. frames' = <<>> /\ frames[1] = g
    BY <1>1, <1>5, OneFrame
  <2>2. k_reenter' = -1
    BY <1>1, <1>5
  <2>3. \A q \in Procs : proc[q].pc # "ud2"
    BY <1>3, <2>1 DEF FInv, Doomed
  <2>4. Stack'
    BY <2>1, <2>2 DEF Stack
  <2> QED
    BY <1>1, <1>4, <2>3, <2>4 DEF FInv, Doomed, Sound, Printing
<1>6. ASSUME NEW f, frames = <<f, g>>, k_reenter = 1, InSendrec(f), f.code = At(g.code.after)
      PROVE  FInv'
  <2>1. frames' = <<f>> /\ \A e : frames # <<e>>
    BY <1>1, <1>6, TwoFrames
  <2>2. frames'[1] = f
    BY <2>1, OneFrame
  <2>3. f.code.pc # "ud2"
    BY <1>3, <1>6, PlacesFact
  <2>4. k_reenter' = 0
    BY <1>1, <1>6
  <2>5. Stack'
    BY <1>6, <2>1, <2>2, <2>3, <2>4 DEF Stack, InSendrec, Sound, Printing
  <2>6. \A q \in Procs : proc[q].pc # "ud2"
    BY <2>1 DEF FInv, Doomed
  <2> QED
    BY <1>1, <1>4, <2>5, <2>6 DEF FInv, Doomed, Sound, Printing
<1> QED
  BY <1>2, <1>5, <1>6

LEMMA TickKeeps ==
  ASSUME FInv, NEW q \in Procs, Tick(q)
  PROVE  FInv'
<1>1. machine = "running" /\ k_reenter + 1 = 0 /\ p_proc_ready' = q
      /\ UNCHANGED <<proc, frames, k_reenter, out, machine, report>>
  BY DEF Tick, Running, Preempts
<1>2. frames = <<>>
  BY <1>1 DEF FInv, Stack
<1>3. k_reenter = -1 /\ \A p \in Procs : proc[p].pc # "ud2"
  BY <1>2, NoFrame
<1>4. Stack'
  BY <1>1, <1>2, <1>3 DEF Stack
<1>5. FaultReported'
  BY <1>1, Quiet
<1> QED
  BY <1>1, <1>3, <1>4, <1>5 DEF FInv, Doomed, Sound, Printing

(* The stub makes one stack of both kinds of exception.                    *)
LEMMA ExceptionKeeps ==
  ASSUME FInv, NEW vec \in Vectors, Exception(vec)
  PROVE  FInv'
<1>1. UNCHANGED <<proc, frames, p_proc_ready, k_reenter, out>>
  BY DEF Exception
<1>2. PICK code \in (IF vec \in WithCode THEN Codes ELSE {NoCode}) :
        LET stack == <<"eflags", "cs", "eip">>
                     \o (IF vec \in WithCode THEN <<code>> ELSE <<>>) \o Stub(vec)
        IN report' = [vec_no   |-> stack[Len(stack)],
                      err_code |-> stack[Len(stack) - 1],
                      eip      |-> stack[Len(stack) - 2],
                      cause    |-> <<vec, code>>]
  BY DEF Exception
<1>3. PICK stack :
        /\ stack = <<"eflags", "cs", "eip">>
                     \o (IF vec \in WithCode THEN <<code>> ELSE <<>>) \o Stub(vec)
        /\ report' = [vec_no   |-> stack[Len(stack)],
                      err_code |-> stack[Len(stack) - 1],
                      eip      |-> stack[Len(stack) - 2],
                      cause    |-> <<vec, code>>]
  BY <1>2
<1>4. PICK G, x, y, z :
        /\ G = {"eflags", "cs", "eip", code, vec}
        /\ x = <<"eflags", "cs", "eip">>
        /\ y = (IF vec \in WithCode THEN <<code>> ELSE <<>>)
        /\ z = Stub(vec)
  OBVIOUS
<1>5. Len(stack) = 5 /\ stack[5] = vec /\ stack[4] = code /\ stack[3] = "eip"
  <2>1. x \in Seq(G) /\ Len(x) = 3 /\ x[3] = "eip"
    BY <1>4
  <2>2. stack = (x \o y) \o z
    BY <1>3, <1>4
  <2>3. CASE vec \in WithCode
    <3>1. y = <<code>> /\ z = <<vec>>
      BY <1>4, <2>3 DEF Stub
    <3>2. y \in Seq(G) /\ z \in Seq(G) /\ Len(y) = 1 /\ Len(z) = 1 /\ y[1] = code /\ z[1] = vec
      <4>1. code \in G /\ vec \in G
        BY <1>4
      <4>2. y \in Seq(G) /\ Len(y) = 1 /\ y[1] = code
        BY <3>1, <4>1
      <4>3. z \in Seq(G) /\ Len(z) = 1 /\ z[1] = vec
        BY <3>1, <4>1
      <4> QED
        BY <4>2, <4>3
    <3>3. PICK r : r = x \o y
      OBVIOUS
    <3>4. r \in Seq(G) /\ Len(r) = 4 /\ \A i \in 1 .. 4 : r[i] = IF i <= 3 THEN x[i] ELSE y[i - 3]
      <4>1. /\ r \in Seq(G) /\ Len(r) = Len(x) + Len(y)
            /\ \A i \in 1 .. Len(x) + Len(y) : r[i] = IF i <= Len(x) THEN x[i] ELSE y[i - Len(x)]
        BY <2>1, <3>2, <3>3, ConcatProperties
      <4>2. Len(x) + Len(y) = 4 /\ Len(x) = 3
        BY <2>1, <3>2
      <4> QED
        BY <4>1, <4>2
    <3>5. /\ Len(stack) = 5
          /\ \A i \in 1 .. 5 : stack[i] = IF i <= 4 THEN r[i] ELSE z[i - 4]
      <4>1. /\ Len(r \o z) = Len(r) + Len(z)
            /\ \A i \in 1 .. Len(r) + Len(z) : (r \o z)[i] = IF i <= Len(r) THEN r[i] ELSE z[i - Len(r)]
        BY <3>2, <3>4, ConcatProperties
      <4>2. Len(r) + Len(z) = 5 /\ Len(r) = 4
        BY <3>2, <3>4
      <4> QED
        BY <2>2, <3>3, <4>1, <4>2
    <3> QED
      BY <2>1, <3>2, <3>4, <3>5
  <2>4. CASE vec \notin WithCode
    <3>1. y = <<>> /\ z = <<code, vec>>
      BY <1>2, <1>4, <2>4 DEF Stub
    <3>2. z \in Seq(G) /\ Len(z) = 2 /\ z[1] = code /\ z[2] = vec
      BY <1>4, <3>1
    <3>3. (x \o y) \o z = x \o z
      BY <2>1, <3>1, ConcatEmptySeq
    <3>4. /\ Len(x \o z) = Len(x) + Len(z)
          /\ \A i \in 1 .. Len(x) + Len(z) : (x \o z)[i] = IF i <= Len(x) THEN x[i] ELSE z[i - Len(x)]
      BY <2>1, <3>2, ConcatProperties
    <3>5. /\ Len(stack) = 5
          /\ \A i \in 1 .. 5 : stack[i] = IF i <= 3 THEN x[i] ELSE z[i - 3]
      <4>1. Len(x) + Len(z) = 5 /\ Len(x) = 3
        BY <2>1, <3>2
      <4> QED
        BY <2>2, <3>3, <3>4, <4>1
    <3> QED
      BY <2>1, <3>2, <3>5
  <2> QED
    BY <2>3, <2>4
<1>6. stack[Len(stack)] = vec /\ stack[Len(stack) - 1] = code /\ stack[Len(stack) - 2] = "eip"
  BY <1>5
<1>7. FaultReported'
  BY <1>3, <1>6 DEF FaultReported
<1> QED
  BY <1>1, <1>7, Unmoved

LEMMA Inductive == FInv /\ [Next]_vars => FInv'
<1> SUFFICES ASSUME FInv, [Next]_vars PROVE FInv'
  OBVIOUS
<1>1. ASSUME NEW p \in Procs, ProcessStep(p) PROVE FInv'
  BY <1>1, ProcessWorksKeeps, ProcessTrapsKeeps, OverrunKeeps, SendrecKeeps DEF ProcessStep, ProcessPrints
<1>2. ASSUME KernelStep PROVE FInv'
  BY <1>2, KernelWorksKeeps, KernelTrapsKeeps, OverrunKeeps, SendrecReturnsKeeps, TestKeeps,
     PrintCharKeeps, PrintxReturnsKeeps DEF KernelStep
<1>3. ASSUME NEW q \in Procs, Tick(q) PROVE FInv'
  BY <1>3, TickKeeps
<1>4. ASSUME NEW vec \in Vectors, Exception(vec) PROVE FInv'
  BY <1>4, ExceptionKeeps
<1>5. ASSUME UNCHANGED vars PROVE FInv'
  <2>1. FaultReported'
    BY <1>5 DEF FInv, FaultReported, vars
  <2> QED
    BY <1>5, <2>1, Unmoved DEF vars
<1> QED
  BY <1>1, <1>2, <1>3, <1>4, <1>5 DEF Next

(* The kernel stack and what every piece of code in it and in the          *)
(* processes is doing (sys_Call, sys_printx, panic).                       *)
THEOREM AlwaysFInv == Spec => []FInv
<1> QED
  BY Starts, Inductive, PTL DEF Spec

-----------------------------------------------------------------------------
(* Theorems                                                                *)

(* exception_handler() names the exception that happened, and the error    *)
(* code and the place the CPU has pushed, for every vector with or without *)
(* an error code.                                                          *)
THEOREM AlwaysFaultReported == Spec => []FaultReported
<1>1. FInv => FaultReported
  BY DEF FInv
<1> QED
  BY <1>1, AlwaysFInv, PTL

(* The ud2 behind panic() is never reached, by any process or in the       *)
(* kernel, whatever the others are doing and whatever follows the message. *)
THEOREM AlwaysPanicFinal == Spec => []PanicFinal
<1>1. ASSUME FInv PROVE PanicFinal
  <2>1. ASSUME UserMode PROVE \A p \in Procs : proc[p].pc # "ud2"
    BY <1>1, <2>1, NoFrame DEF UserMode
  <2>2. ASSUME InKernel("sendrec") PROVE Top.code.pc # "ud2"
    BY <1>1, <2>2, SendrecFrame
  <2> QED
    BY <2>1, <2>2 DEF PanicFinal
<1> QED
  BY <1>1, AlwaysFInv, PTL

(* What sys_printx() has given to the terminal of its caller when it       *)
(* returns is what the format and the arguments stand for, without the     *)
(* magic characters, and has not run over the buffer of printf(), for      *)
(* every int, every size of the buffers, all texts that fit into them and  *)
(* every number of processes that run meanwhile, as long as none has       *)
(* printed a text that does not fit, which ends the model.                 *)
THEOREM AlwaysTextExact == Spec => []TextExact
<1>1. ASSUME FInv PROVE TextExact
  <2> SUFFICES ASSUME InKernel("printx"), Top.pc = "loop", Top.pos > Len(Top.text),
                      Representable(Top.code.fmt, Top.code.args)
               PROVE  LET text  == Reference(Top.code.fmt, Top.code.args)
                          shown == Visible(text)
                      IN  /\ out = [i \in 1 .. Len(shown) |-> <<TtyOf[p_proc_ready], shown[i]>>]
                          /\ Len(text) < BufLen
    BY DEF TextExact
  <2>1. PICK g : Top = g /\ InPrintx(g)
    BY <1>1, PrintxFrames
  <2>2. PICK c, text, n : c = g.code /\ text = g.text /\ n = g.pos
    OBVIOUS
  <2>3. text = vsprintf(c.fmt, c.args) /\ Printing(c) /\ Prepared(c) /\ n \in Nat \ {0}
    <3>1. g.text = vsprintf(g.code.fmt, g.code.args)
      BY <2>1 DEF InPrintx
    <3> QED
      BY <2>1, <2>2, <3>1 DEF InPrintx
  <2>4. text = Reference(c.fmt, c.args) /\ text \in Seq(Char)
    BY <2>1, <2>2, <2>3, TextFact DEF Printing, Char
  <2>5. ShownUpTo(g)
    BY <2>1 DEF InPrintx
  <2>6. PICK m \in Nat : m = Len(text)
    BY <2>4, LenProperties
  <2>7. n - 1 = m
    BY <2>1, <2>2, <2>3, <2>5, <2>6 DEF ShownUpTo
  <2>8. out = Tagged(TtyOf[p_proc_ready], Kept(text)[m])
    BY <2>2, <2>5, <2>7 DEF ShownUpTo
  <2>9. Kept(text)[m] = Visible(text)
    BY <2>4, <2>6, KeptFact
  <2>10. Len(text) < BufLen
    <3>1. PICK size \in Nat : size = BufLen - 1
      BY FailureAssumption DEF FailureAssumption
    <3>2. Len(Reference(c.fmt, c.args)) <= size
      <4>1. InBounds(c.fmt, c.args, size)
        BY <2>3, <3>1 DEF Prepared
      <4>2. c.fmt \in Seq(Parts) /\ Fits(c.fmt, c.args) /\ Representable(c.fmt, c.args)
        BY <2>1, <2>2, <2>3 DEF Printing
      <4> QED
        BY <4>1, <4>2, VsprintfExact
    <3> QED
      BY <2>4, <2>6, <3>1, <3>2, FailureAssumption DEF FailureAssumption
  <2>11. out = [i \in 1 .. Len(Visible(text)) |-> <<TtyOf[p_proc_ready], Visible(text)[i]>>]
    BY <2>8, <2>9 DEF Tagged
  <2> QED
    BY <2>1, <2>2, <2>4, <2>10, <2>11, Zenon
<1> QED
  BY <1>1, AlwaysFInv, PTL

=============================================================================
