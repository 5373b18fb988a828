-------------------------- MODULE ParamSpace_proofs --------------------------
(***************************************************************************)
(* Proofs about the parameter space of a request, for any number of        *)
(* properties and of values.  The configurations are numbered and take of  *)
(* each property the remainder of their number, so that the pairs of two   *)
(* properties are complete by the Chinese remainder theorem.               *)
(***************************************************************************)
EXTENDS ParamSpace, Folding

-----------------------------------------------------------------------------
(* Remainders.                                                             *)

\* Quotient and remainder, and that no other numbers are.
LEMMA Remainder ==
  ASSUME NEW z \in Int, NEW n \in Nat \ {0}
  PROVE  /\ z % n \in 0 .. n - 1 /\ z \div n \in Int
         /\ z = n * (z \div n) + (z % n)
OBVIOUS

LEMMA RemainderOf ==
  ASSUME NEW n \in Nat \ {0}, NEW k \in Int, NEW r \in 0 .. n - 1, NEW z, z = n * k + r
  PROVE  z % n = r
<1>1. PICK x, s : x = z \div n /\ s = z % n
  OBVIOUS
<1>2. z \in Int
  OBVIOUS
<1>3. x \in Int /\ s \in 0 .. n - 1 /\ z = n * x + s
  BY <1>1, <1>2, Remainder
<1>4. PICK d : d = k - x
  OBVIOUS
<1>5. d \in Int /\ n * d = n * k - n * x /\ n * k \in Int /\ n * x \in Int
  BY <1>3, <1>4
<1>6. n * d = s - r
  BY <1>3, <1>5
<1>7. d = 0
  <2>1. ASSUME d >= 1 PROVE FALSE
    <3>1. PICK e : e = d - 1
      OBVIOUS
    <3>2. e \in Nat /\ d = e + 1
      BY <1>5, <2>1, <3>1
    <3>3. n * d = n * e + n /\ n * e \in Nat
      BY <3>2
    <3> QED
      BY <1>3, <1>6, <3>3
  <2>2. ASSUME d <= -1 PROVE FALSE
    <3>1. PICK e : e = -d - 1
      OBVIOUS
    <3>2. e \in Nat /\ d = -e - 1
      BY <1>5, <2>2, <3>1
    <3>3. n * d = -(n * e) - n /\ n * e \in Nat
      BY <3>2
    <3> QED
      BY <1>3, <1>6, <3>3
  <2> QED
    BY <1>5, <2>1, <2>2
<1>8. n * d = 0
  BY <1>7
<1> QED
  BY <1>1, <1>3, <1>6, <1>8

\* The numbers of the form u * a + v * b, and the least of them above 0.
IsCombination(z, a, b) == \E u \in Int, v \in Int : z = u * a + v * b

LEMMA CombinationLess ==
  ASSUME NEW a \in Int, NEW b \in Int, NEW g \in Int, NEW k \in Int, NEW z \in Int,
         IsCombination(g, a, b), IsCombination(z, a, b)
  PROVE  IsCombination(z - g * k, a, b)
<1>1. PICK u \in Int, v \in Int : g = u * a + v * b
  BY DEF IsCombination
<1>2. PICK w \in Int, x \in Int : z = w * a + x * b
  BY DEF IsCombination
<1>3. PICK ua, vb, wa, xb : ua = u * a /\ vb = v * b /\ wa = w * a /\ xb = x * b
  OBVIOUS
<1>4. ua \in Int /\ vb \in Int /\ wa \in Int /\ xb \in Int
  BY <1>3
<1>5. g * k = ua * k + vb * k
  BY <1>1, <1>3, <1>4
<1>6. ua * k = (u * k) * a /\ vb * k = (v * k) * b
  BY <1>3
<1>7. (w - u * k) * a = wa - (u * k) * a /\ (x - v * k) * b = xb - (v * k) * b
  <2>1. PICK p, q : p = u * k /\ q = v * k
    OBVIOUS
  <2>2. p \in Int /\ q \in Int
    BY <2>1
  <2>3. (w - p) * a = w * a - p * a /\ (x - q) * b = x * b - q * b
    BY <2>2
  <2> QED
    BY <1>3, <2>1, <2>3
<1>8. PICK p, q : p = w - u * k /\ q = x - v * k
  OBVIOUS
<1>9. p \in Int /\ q \in Int
  BY <1>8
<1>10. z - g * k = p * a + q * b
  BY <1>2, <1>3, <1>4, <1>5, <1>6, <1>7, <1>8
<1> QED
  BY <1>9, <1>10 DEF IsCombination

\* Two numbers without a common divisor combine to 1: the least positive combination
\* divides both.
LEMMA CombinationOfOne ==
  ASSUME NEW a \in Nat \ {0}, NEW b \in Nat \ {0}, Coprime(a, b)
  PROVE  IsCombination(1, a, b)
<1>1. PICK S : S = {z \in Nat \ {0} : IsCombination(z, a, b)}
  OBVIOUS
<1>2. IsCombination(a, a, b) /\ IsCombination(b, a, b)
  <2>1. 1 \in Int /\ 0 \in Int /\ a = 1 * a + 0 * b /\ b = 0 * a + 1 * b
    OBVIOUS
  <2> QED
    BY <2>1 DEF IsCombination
<1>3. PICK g \in S : \A y \in S : ~(<<y, g>> \in OpToRel(<, Nat))
  <2>1. S \in SUBSET Nat /\ a \in S
    BY <1>1, <1>2
  <2> QED
    BY <2>1, NatLessThanWellFounded, WFMin
<1>4. g \in Nat \ {0} /\ IsCombination(g, a, b)
  BY <1>1, <1>3
<1>5. ASSUME NEW z \in Nat \ {0}, IsCombination(z, a, b) PROVE z % g = 0
  <2>1. PICK k, r : k = z \div g /\ r = z % g
    OBVIOUS
  <2>2. r \in 0 .. g - 1 /\ k \in Int /\ z = g * k + r
    BY <1>4, <1>5, <2>1, Remainder
  <2>3. r = z - g * k
    <3>1. g * k \in Int
      BY <1>4, <2>2
    <3> QED
      BY <2>2, <3>1
  <2>4. IsCombination(r, a, b)
    <3>1. a \in Int /\ b \in Int /\ g \in Int /\ z \in Int /\ k \in Int
      BY <1>4, <2>2
    <3>2. IsCombination(z - g * k, a, b)
      BY <1>4, <1>5, <3>1, CombinationLess
    <3> QED
      BY <2>3, <3>2
  <2>5. ASSUME r # 0 PROVE FALSE
    <3>1. r \in S /\ r \in Nat /\ g \in Nat /\ r < g
      BY <1>1, <1>4, <2>2, <2>4, <2>5
    <3> QED
      BY <1>3, <3>1 DEF OpToRel
  <2> QED
    BY <2>1, <2>5
<1>6. a % g = 0 /\ b % g = 0
  BY <1>2, <1>5
<1>7. g <= a
  <2>1. PICK k : k = a \div g
    OBVIOUS
  <2>2. k \in Int /\ a = g * k + 0
    BY <1>4, <1>6, <2>1, Remainder
  <2>3. k >= 1
    <3>1. ASSUME k <= 0 PROVE FALSE
      <4>1. PICK j : j = -k
        OBVIOUS
      <4>2. j \in Nat /\ g * k = -(g * j) /\ g * j \in Nat
        BY <1>4, <2>2, <3>1, <4>1
      <4> QED
        BY <2>2, <4>2
    <3> QED
      BY <2>2, <3>1
  <2>4. PICK j : j = k - 1
    OBVIOUS
  <2>5. j \in Nat /\ k = j + 1
    BY <2>2, <2>3, <2>4
  <2>6. g * k = g * j + g /\ g * j \in Nat
    BY <1>4, <2>5
  <2> QED
    BY <1>4, <2>2, <2>6
<1>8. g = 1
  <2>1. ASSUME g # 1 PROVE FALSE
    <3>1. g \in 2 .. a
      BY <1>4, <1>7, <2>1
    <3> QED
      BY <1>6, <3>1 DEF Coprime
  <2> QED
    BY <2>1
<1> QED
  BY <1>4, <1>8

HasRemainders(a, b, x, y) == \E i \in 0 .. a * b - 1 : i % a = x /\ i % b = y

\* A number with these two remainders, below the product (the Chinese remainder).
LEMMA ChineseRemainder ==
  ASSUME NEW a \in Nat \ {0}, NEW b \in Nat \ {0}, Coprime(a, b),
         NEW x \in 0 .. a - 1, NEW y \in 0 .. b - 1
  PROVE  HasRemainders(a, b, x, y)
<1>1. PICK u \in Int, v \in Int : 1 = u * a + v * b
  BY CombinationOfOne DEF IsCombination
<1>2. PICK c, d, n : c = u * a /\ d = v * b /\ n = a * b
  OBVIOUS
<1>3. c \in Int /\ d \in Int /\ 1 = c + d /\ n \in Nat \ {0}
  <2>1. n \in Nat /\ n # 0
    BY <1>2
  <2> QED
    BY <1>1, <1>2, <2>1
<1>4. PICK xd, yc, z : xd = x * d /\ yc = y * c /\ z = xd + yc
  OBVIOUS
<1>5. x \in Int /\ y \in Int /\ xd \in Int /\ yc \in Int /\ z \in Int
  BY <1>3, <1>4
\* z is x and a multiple of a, and y and a multiple of b.
<1>6. PICK s, t : s = (y - x) * u /\ t = (x - y) * v
  OBVIOUS
<1>7. s \in Int /\ t \in Int
  BY <1>5, <1>6
<1>8. z = x + s * a
  <2>1. xd = x - x * c
    BY <1>3, <1>4, <1>5
  <2>2. PICK p : p = y - x
    OBVIOUS
  <2>3. p \in Int /\ p * c = y * c - x * c /\ x * c \in Int
    BY <1>3, <1>5, <2>2
  <2>4. p * c = (p * u) * a
    BY <1>2, <2>3
  <2> QED
    BY <1>4, <1>5, <1>6, <2>1, <2>2, <2>3, <2>4
<1>9. z = y + t * b
  <2>1. yc = y - y * d
    BY <1>3, <1>4, <1>5
  <2>2. PICK p : p = x - y
    OBVIOUS
  <2>3. p \in Int /\ p * d = x * d - y * d /\ y * d \in Int
    BY <1>3, <1>5, <2>2
  <2>4. p * d = (p * v) * b
    BY <1>2, <2>3
  <2> QED
    BY <1>4, <1>5, <1>6, <2>1, <2>2, <2>3, <2>4
<1>10. PICK i, m : i = z % n /\ m = z \div n
  OBVIOUS
<1>11. i \in 0 .. n - 1 /\ m \in Int /\ z = n * m + i
  BY <1>3, <1>5, <1>10, Remainder
<1>12. i % a = x
  <2>1. PICK k, bm : bm = b * m /\ k = s - bm
    OBVIOUS
  <2>2. k \in Int /\ bm \in Int
    BY <1>7, <1>11, <2>1
  <2>3. n * m = a * bm
    BY <1>2, <1>11, <2>1
  <2>4. a * k = s * a - a * bm /\ s * a \in Int /\ a * bm \in Int
    BY <1>7, <2>1, <2>2
  <2>5. i = a * k + x
    BY <1>5, <1>8, <1>11, <2>3, <2>4
  <2> QED
    BY <2>2, <2>5, RemainderOf
<1>13. i % b = y
  <2>1. PICK k, am : am = a * m /\ k = t - am
    OBVIOUS
  <2>2. k \in Int /\ am \in Int
    BY <1>7, <1>11, <2>1
  <2>3. n * m = b * am
    BY <1>2, <1>11, <2>1
  <2>4. b * k = t * b - b * am /\ t * b \in Int /\ b * am \in Int
    BY <1>7, <2>1, <2>2
  <2>5. i = b * k + y
    BY <1>5, <1>9, <1>11, <2>3, <2>4
  <2> QED
    BY <2>2, <2>5, RemainderOf
<1> QED
  BY <1>2, <1>11, <1>12, <1>13 DEF HasRemainders

-----------------------------------------------------------------------------
(* The number of configurations.                                           *)

Sizes == Seq(Nat \ {0})

\* run[k] is the product of the first k sizes.
IsProduct(run, n, sizes, total) ==
  /\ run[0] = 1
  /\ \A k \in 1 .. n : run[k] = run[k - 1] * sizes[k]
  /\ run[n] = total

LEMMA SizesAre ==
  ASSUME NEW sizes \in Sizes
  PROVE  /\ Len(sizes) \in Nat /\ DOMAIN sizes = 1 .. Len(sizes)
         /\ \A k \in 1 .. Len(sizes) : sizes[k] \in Nat \ {0}
BY DEF Sizes

LEMMA TotalIsProduct ==
  ASSUME NEW sizes \in Sizes
  PROVE  \E run \in [0 .. Len(sizes) -> Nat \ {0}] :
           IsProduct(run, Len(sizes), sizes, totalSpace(sizes))
<1>1. PICK n, V : n = Len(sizes) /\ V = Nat \ {0}
  OBVIOUS
<1>2. n \in Nat /\ DOMAIN sizes = 1 .. n /\ \A k \in 1 .. n : sizes[k] \in V
  BY <1>1, SizesAre
<1>3. 1 \in V /\ \A x \in V, y \in V : x * y \in V
  <2>1. \A x \in Nat \ {0}, y \in Nat \ {0} : x * y \in Nat /\ x * y # 0
    OBVIOUS
  <2> QED
    BY <1>1, <2>1
<1>4. PICK g : g = [k \in 1 .. n |-> [x \in V |-> x * sizes[k]]]
  OBVIOUS
<1>5. /\ g \in [1 .. n -> [V -> V]]
      /\ \A k \in 1 .. n, x \in V : g[k][x] = x * sizes[k]
  BY <1>2, <1>3, <1>4
<1> DEFINE Defines(f) == f = [s \in SUBSET DOMAIN sizes |->
                                IF s = {} THEN 1 ELSE f[s \ {Max(s)}] * sizes[Max(s)]]
           f == CHOOSE h : Defines(h)
<1>6. totalSpace(sizes) = f[1 .. n]
  BY <1>2 DEF totalSpace, FoldLeft, MapThenFoldSet
<1>7. \A s \in SUBSET (1 .. n) : s # {} => Max(s) \in 1 .. n /\ s \ {Max(s)} \in SUBSET (1 .. n)
  BY <1>2, LargestOf
<1>8. Defines(f)
  <2>1. PICK h \in [SUBSET (1 .. n) -> V] : IsFold(h, n, 1, g)
    BY <1>2, <1>3, <1>5, FoldExists
  <2>2. \A s \in SUBSET (1 .. n) :
          h[s] = IF s = {} THEN 1 ELSE h[s \ {Max(s)}] * sizes[Max(s)]
    <3> SUFFICES ASSUME NEW s \in SUBSET (1 .. n)
                 PROVE  h[s] = IF s = {} THEN 1 ELSE h[s \ {Max(s)}] * sizes[Max(s)]
      OBVIOUS
    <3>1. h[s] = IF s = {} THEN 1 ELSE g[Max(s)][h[s \ {Max(s)}]]
      BY <2>1 DEF IsFold
    <3>2. s # {} => h[s \ {Max(s)}] \in V /\ Max(s) \in 1 .. n
      BY <1>7, <2>1
    <3> QED
      BY <1>5, <3>1, <3>2
  <2>3. Defines(h)
    BY <1>2, <2>1, <2>2
  <2> HIDE DEF Defines
  <2> QED
    BY <2>3
<1>9. FoldsIn(V, f, n, 1, g)
  <2> HIDE DEF f
  <2>1. \A s \in SUBSET (1 .. n) :
          f[s] = IF s = {} THEN 1 ELSE f[s \ {Max(s)}] * sizes[Max(s)]
    BY <1>2, <1>8
  <2>2. f[{}] = 1
    <3>1. {} \in SUBSET (1 .. n)
      OBVIOUS
    <3> QED
      BY <2>1, <3>1
  <2>3. ASSUME NEW s \in SUBSET (1 .. n), s # {}, f[s \ {Max(s)}] \in V
        PROVE  f[s] = g[Max(s)][f[s \ {Max(s)}]]
    BY <1>5, <1>7, <2>1, <2>3
  <2> QED
    BY <2>2, <2>3 DEF FoldsIn
<1> HIDE DEF f
<1>10. PICK run \in [0 .. n -> V] : IsRun(run, n, 1, g, f[1 .. n])
  BY <1>2, <1>3, <1>5, <1>9, FoldRun
<1>11. \A k \in 1 .. n : run[k] = run[k - 1] * sizes[k]
  <2>1. \A k \in 1 .. n : k - 1 \in 0 .. n
    BY <1>2
  <2>2. \A k \in 1 .. n : run[k - 1] \in V
    BY <1>10, <2>1
  <2> QED
    BY <1>5, <1>10, <2>2 DEF IsRun
<1>12. IsProduct(run, n, sizes, totalSpace(sizes))
  BY <1>6, <1>10, <1>11 DEF IsRun, IsProduct
<1> QED
  BY <1>1, <1>10, <1>12

LEMMA TimesMore ==
  ASSUME NEW x \in Nat, NEW y \in Nat, x <= y, NEW z \in Nat
  PROVE  x * z <= y * z
<1>1. PICK d : d = y - x
  OBVIOUS
<1>2. d \in Nat /\ y = x + d
  BY <1>1
<1>3. y * z = x * z + d * z /\ d * z \in Nat /\ x * z \in Nat
  BY <1>2
<1> QED
  BY <1>3

LEMMA TimesAtLeast ==
  ASSUME NEW x \in Nat \ {0}, NEW y \in Nat \ {0}
  PROVE  x <= x * y /\ y <= x * y
<1>1. 1 * y <= x * y
  BY TimesMore
<1>2. 1 * x <= y * x
  BY TimesMore
<1>3. 1 * y = y /\ 1 * x = x /\ y * x = x * y
  OBVIOUS
<1> QED
  BY <1>1, <1>2, <1>3

\* There are as many configurations as any two properties have pairs of values.
LEMMA RoomForPairs ==
  ASSUME NEW sizes \in Sizes, NEW p \in 1 .. Len(sizes), NEW q \in 1 .. Len(sizes), p < q
  PROVE  sizes[p] * sizes[q] <= totalSpace(sizes)
<1>1. PICK n : n = Len(sizes)
  OBVIOUS
<1>2. n \in Nat /\ \A k \in 1 .. n : sizes[k] \in Nat \ {0}
  BY <1>1, SizesAre
<1>3. PICK run \in [0 .. n -> Nat \ {0}] : IsProduct(run, n, sizes, totalSpace(sizes))
  BY <1>1, TotalIsProduct
<1> DEFINE One(k) == \A i \in 1 .. k : sizes[i] <= run[k]
           Two(k) == \A i \in 1 .. k, j \in 1 .. k : i < j => sizes[i] * sizes[j] <= run[k]
           ok     == {k \in 0 .. n : One(k) /\ Two(k)}
<1>4. 0 \in ok
  BY <1>2
<1>5. ASSUME NEW k \in 0 .. n - 1, k \in ok PROVE k + 1 \in ok
  <2>1. PICK m, r, s, t : m = k + 1 /\ r = run[k] /\ s = sizes[m] /\ t = run[m]
    OBVIOUS
  <2>2. m \in 1 .. n /\ k = m - 1 /\ k \in 0 .. n
    BY <1>2, <2>1
  <2>3. r \in Nat \ {0} /\ s \in Nat \ {0} /\ t = r * s /\ t \in Nat
    BY <1>2, <1>3, <2>1, <2>2 DEF IsProduct
  <2>4. r <= t /\ s <= t
    BY <2>3, TimesAtLeast
  <2>5. One(k) /\ Two(k)
    BY <1>5
  <2>6. ASSUME NEW i \in 1 .. k PROVE sizes[i] \in Nat \ {0} /\ sizes[i] <= r
    BY <1>2, <2>1, <2>2, <2>5
  <2>7. One(m)
    <3> SUFFICES ASSUME NEW i \in 1 .. m PROVE sizes[i] <= run[m]
      OBVIOUS
    <3>1. CASE i = m
      BY <2>1, <2>4, <3>1
    <3>2. CASE i # m
      <4>1. i \in 1 .. k
        BY <2>2, <3>2
      <4>2. sizes[i] \in Nat /\ sizes[i] <= r
        BY <2>6, <4>1
      <4> QED
        BY <2>1, <2>3, <2>4, <4>2
    <3> QED
      BY <3>1, <3>2
  <2>8. Two(m)
    <3> SUFFICES ASSUME NEW i \in 1 .. m, NEW j \in 1 .. m, i < j
                 PROVE  sizes[i] * sizes[j] <= run[m]
      OBVIOUS
    <3>1. i \in 1 .. k
      BY <2>2
    <3>2. PICK x : x = sizes[i]
      OBVIOUS
    <3>3. x \in Nat /\ x <= r
      BY <2>6, <3>1, <3>2
    <3>4. CASE j = m
      <4>1. x * s <= r * s
        BY <2>3, <3>3, TimesMore
      <4> QED
        BY <2>1, <2>3, <3>2, <3>4, <4>1
    <3>5. CASE j # m
      <4>1. j \in 1 .. k
        BY <2>2, <3>5
      <4>2. PICK z : z = sizes[i] * sizes[j]
        OBVIOUS
      <4>3. z \in Nat /\ z <= r
        <5>1. z <= run[k]
          BY <2>5, <3>1, <4>1, <4>2
        <5> QED
          BY <2>1, <2>6, <3>1, <4>1, <4>2, <5>1
      <4> QED
        BY <2>1, <2>3, <2>4, <4>2, <4>3
    <3> QED
      BY <3>4, <3>5
  <2> HIDE DEF One, Two
  <2>9. m \in 0 .. n /\ One(m) /\ Two(m)
    BY <2>2, <2>7, <2>8
  <2> QED
    BY <2>1, <2>9
<1>6. n \in ok
  <2> HIDE DEF ok
  <2>1. n \in 0 .. n
    BY <1>2
  <2>2. \A k \in 0 .. n : k \in ok
    BY <1>2, <1>4, <1>5, UpTo
  <2> QED
    BY <2>1, <2>2
<1>7. sizes[p] * sizes[q] <= run[n]
  BY <1>1, <1>6
<1> QED
  BY <1>3, <1>7 DEF IsProduct

-----------------------------------------------------------------------------
(* The list of the configurations.                                         *)

\* Configuration i has the remainder of its number for each property written so far.
WrittenRow(row, i) ==
  /\ row \in Seq(Int) /\ Len(row) = props
  /\ \A p \in 1 .. props : row[p] = (i - 1) % space[p]

WrittenInv ==
  /\ space \in Sizes
  /\ ret \in [1 .. totalSpace(space) -> Seq(Int)]
  /\ props \in 0 .. Len(space)
  /\ \A i \in 1 .. totalSpace(space) : WrittenRow(ret[i], i)

LEMMA InitWritten == Init => WrittenInv
<1> SUFFICES ASSUME Init PROVE WrittenInv
  OBVIOUS
<1>1. space \in Sizes
  <2>1. PICK k \in 0 .. MaxProps : space \in [1 .. k -> 1 .. MaxValues]
    BY DEF Init
  <2>2. k \in Nat /\ 1 .. MaxValues \in SUBSET (Nat \ {0})
    BY BoundsAssumption
  <2>3. space \in [1 .. k -> Nat \ {0}]
    BY <2>1, <2>2
  <2> QED
    BY <2>2, <2>3 DEF Sizes
<1>2. Len(space) \in Nat
  BY <1>1, SizesAre
<1>3. props = 0 /\ ret = [i \in 1 .. totalSpace(space) |-> <<>>]
  BY DEF Init
<1>4. ret \in [1 .. totalSpace(space) -> Seq(Int)] /\ \A i \in 1 .. totalSpace(space) : ret[i] = <<>>
  BY <1>3
<1>5. ASSUME NEW i \in 1 .. totalSpace(space) PROVE WrittenRow(ret[i], i)
  <2>1. ret[i] = <<>> /\ 1 .. props = {}
    BY <1>3, <1>4
  <2> QED
    BY <1>3, <2>1 DEF WrittenRow
<1> QED
  BY <1>1, <1>2, <1>3, <1>4, <1>5 DEF WrittenInv

LEMMA RowAppended ==
  ASSUME NEW row \in Seq(Int), NEW v \in Int
  PROVE  /\ Append(row, v) \in Seq(Int) /\ Len(Append(row, v)) = Len(row) + 1
         /\ Append(row, v)[Len(row) + 1] = v
         /\ \A p \in 1 .. Len(row) : Append(row, v)[p] = row[p]
OBVIOUS

LEMMA WritePropKeepsWritten ==
  ASSUME WrittenInv, WriteProp
  PROVE  WrittenInv'
<1>1. PICK n, k, m, size : n = totalSpace(space) /\ k = props /\ m = props + 1 /\ size = space[m]
  OBVIOUS
<1>2. space' = space /\ props' = m /\ totalSpace(space') = n
  BY <1>1 DEF WriteProp
<1>3. n \in Nat \ {0}
  <2>1. space \in Sizes
    BY DEF WrittenInv
  <2>2. PICK run \in [0 .. Len(space) -> Nat \ {0}] : IsProduct(run, Len(space), space, n)
    BY <1>1, <2>1, TotalIsProduct
  <2> QED
    BY <2>1, <2>2, SizesAre DEF IsProduct
<1>4. k \in Nat /\ m \in 0 .. Len(space) /\ size \in Nat \ {0}
  <2>1. space \in Sizes /\ k \in 0 .. Len(space) /\ k < Len(space)
    BY <1>1 DEF WrittenInv, WriteProp
  <2> QED
    BY <1>1, <2>1, SizesAre
<1>5. ret \in [1 .. n -> Seq(Int)] /\ \A i \in 1 .. n : WrittenRow(ret[i], i)
  BY <1>1 DEF WrittenInv
<1>6. ret' = [i \in 1 .. n |-> Append(ret[i], (i - 1) % size)]
  BY <1>1, <1>5 DEF WriteProp, ValueOf
<1>7. \A i \in 1 .. n : (i - 1) % size \in Int
  <2> SUFFICES ASSUME NEW i \in 1 .. n PROVE (i - 1) % size \in Int
    OBVIOUS
  <2>1. i - 1 \in Int
    OBVIOUS
  <2> QED
    BY <1>4, <2>1, Remainder
<1>8. ret' \in [1 .. n -> Seq(Int)]
  BY <1>5, <1>6, <1>7
<1>9. ASSUME NEW i \in 1 .. n PROVE WrittenRow(ret[i], i)'
  <2>1. PICK row, v : row = ret[i] /\ v = (i - 1) % size
    OBVIOUS
  <2>2. row \in Seq(Int) /\ Len(row) = k /\ \A p \in 1 .. k : row[p] = (i - 1) % space[p]
    BY <1>1, <1>5, <2>1 DEF WrittenRow
  <2>3. v \in Int /\ ret'[i] = Append(row, v)
    BY <1>6, <1>7, <2>1
  <2>4. /\ ret'[i] \in Seq(Int) /\ Len(ret'[i]) = m /\ ret'[i][m] = v
        /\ \A p \in 1 .. k : ret'[i][p] = row[p]
    BY <1>1, <2>2, <2>3, RowAppended
  <2>5. \A p \in 1 .. m : ret'[i][p] = (i - 1) % space[p]
    <3>1. \A p \in 1 .. m : p = m \/ p \in 1 .. k
      BY <1>1, <1>4
    <3> QED
      BY <1>1, <2>1, <2>2, <2>4, <3>1
  <2> QED
    BY <1>2, <2>4, <2>5 DEF WrittenRow
<1> QED
  BY <1>2, <1>4, <1>8, <1>9 DEF WrittenInv

\* What the list has is the remainder of the configuration's number for every
\* property written so far.
THEOREM ParamSpaceInvariant == Spec => []WrittenInv
<1>1. WrittenInv /\ [Next]_vars => WrittenInv'
  <2> SUFFICES ASSUME WrittenInv, [Next]_vars PROVE WrittenInv'
    OBVIOUS
  <2>1. CASE WriteProp
    BY <2>1, WritePropKeepsWritten
  <2>2. CASE UNCHANGED vars
    <3>1. space' = space /\ ret' = ret /\ props' = props
      BY <2>2 DEF vars
    <3>2. \A i \in 1 .. totalSpace(space) : WrittenRow(ret[i], i)'
      BY <3>1 DEF WrittenInv, WrittenRow
    <3> QED
      BY <3>1, <3>2 DEF WrittenInv
  <2> QED
    BY <2>1, <2>2 DEF Next
<1> QED
  BY <1>1, InitWritten, PTL DEF Spec

-----------------------------------------------------------------------------
(* Every pair of values.                                                   *)

LEMMA PairOfProperties ==
  ASSUME WrittenInv, Finished,
         NEW p \in 1 .. Len(space), NEW q \in 1 .. Len(space), p # q,
         Coprime(space[p], space[q])
  PROVE  {<<ret[i][p], ret[i][q]>> : i \in DOMAIN ret}
           = (0 .. space[p] - 1) \X (0 .. space[q] - 1)
<1>1. PICK n, a, b : n = totalSpace(space) /\ a = space[p] /\ b = space[q]
  OBVIOUS
<1>2. space \in Sizes /\ Len(space) \in Nat
  BY SizesAre DEF WrittenInv
<1>3. a \in Nat \ {0} /\ b \in Nat \ {0} /\ Coprime(a, b)
  BY <1>1, <1>2, SizesAre
<1>4. n \in Nat /\ a * b \in Nat /\ a * b <= n
  <2>1. n \in Nat
    <3>1. PICK run \in [0 .. Len(space) -> Nat \ {0}] : IsProduct(run, Len(space), space, n)
      BY <1>1, <1>2, TotalIsProduct
    <3> QED
      BY <1>2, <3>1 DEF IsProduct
  <2>2. a * b \in Nat /\ a * b = b * a
    BY <1>3
  <2>3. CASE p < q
    BY <1>1, <1>2, <2>1, <2>2, <2>3, RoomForPairs
  <2>4. CASE q < p
    <3>1. b * a <= n
      BY <1>1, <1>2, <2>4, RoomForPairs
    <3> QED
      BY <2>1, <2>2, <3>1
  <2> QED
    BY <1>2, <2>3, <2>4
<1>5. DOMAIN ret = 1 .. n
  BY <1>1 DEF WrittenInv
<1>6. \A i \in 1 .. n : ret[i][p] = (i - 1) % a /\ ret[i][q] = (i - 1) % b
  BY <1>1, <1>2 DEF WrittenInv, WrittenRow, Finished
<1>7. ASSUME NEW i \in 1 .. n
      PROVE  <<ret[i][p], ret[i][q]>> \in (0 .. a - 1) \X (0 .. b - 1)
  <2>1. PICK z : z = i - 1
    OBVIOUS
  <2>2. z \in Int
    BY <2>1
  <2>3. z % a \in 0 .. a - 1 /\ z % b \in 0 .. b - 1
    BY <1>3, <2>2, Remainder
  <2> QED
    BY <1>6, <2>1, <2>3
<1>8. ASSUME NEW x \in 0 .. a - 1, NEW y \in 0 .. b - 1
      PROVE  \E i \in 1 .. n : <<x, y>> = <<ret[i][p], ret[i][q]>>
  <2>1. PICK z \in 0 .. a * b - 1 : z % a = x /\ z % b = y
    <3>1. HasRemainders(a, b, x, y)
      BY <1>3, ChineseRemainder
    <3> QED
      BY <3>1 DEF HasRemainders
  <2>2. PICK i : i = z + 1
    OBVIOUS
  <2>3. i \in 1 .. n /\ i - 1 = z
    BY <1>4, <2>1, <2>2
  <2>4. ret[i][p] = x /\ ret[i][q] = y
    BY <1>6, <2>1, <2>3
  <2> QED
    BY <2>3, <2>4
<1>9. {<<ret[i][p], ret[i][q]>> : i \in 1 .. n} = (0 .. a - 1) \X (0 .. b - 1)
  <2> DEFINE pair(i) == <<ret[i][p], ret[i][q]>>
  <2>1. \A i \in 1 .. n : pair(i) \in (0 .. a - 1) \X (0 .. b - 1)
    BY <1>7
  <2>2. \A c \in (0 .. a - 1) \X (0 .. b - 1) : \E i \in 1 .. n : c = pair(i)
    BY <1>8
  <2> HIDE DEF pair
  <2>3. {pair(i) : i \in 1 .. n} = (0 .. a - 1) \X (0 .. b - 1)
    BY <2>1, <2>2
  <2> QED
    BY <2>3 DEF pair
<1> QED
  BY <1>1, <1>5, <1>9

\* Two properties whose numbers of values have no common divisor are tested in every
\* combination, however many properties there are and however many values they have.
THEOREM PairsComplete == Spec => []CoprimePairsComplete
<1>1. WrittenInv => CoprimePairsComplete
  <2> SUFFICES ASSUME WrittenInv, Finished,
                      NEW p \in 1 .. Len(space), NEW q \in 1 .. Len(space), p # q,
                      Coprime(space[p], space[q])
               PROVE  {<<ret[i][p], ret[i][q]>> : i \in DOMAIN ret}
                        = (0 .. space[p] - 1) \X (0 .. space[q] - 1)
    BY DEF CoprimePairsComplete
  <2> QED
    BY PairOfProperties
<1> QED
  BY <1>1, ParamSpaceInvariant, PTL
=============================================================================
