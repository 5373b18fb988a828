------------------------------- MODULE Folding -------------------------------
(***************************************************************************)
(* Facts about the folds that the models are built from.                   *)
(*                                                                         *)
(* Induction is over sets of numbers, and the function that is folded is a *)
(* function of functions: nothing here has an operator for a parameter, so *)
(* that it can be cited for any of the folds.                              *)
(***************************************************************************)
EXTENDS Integers, SequencesExt, SequenceTheorems, FiniteSetTheorems, WellFoundedInduction, TLAPS

-----------------------------------------------------------------------------
(* Induction.                                                              *)

\* A set that has 0 and, with a number below n, the next has every number up to n.
LEMMA UpTo ==
  ASSUME NEW n \in Nat, NEW S, 0 \in S, \A m \in 0 .. n - 1 : m \in S => m + 1 \in S
  PROVE  \A m \in 0 .. n : m \in S
<1> SUFFICES ASSUME NEW missed, missed = {m \in 0 .. n : m \notin S}, missed # {}
             PROVE  FALSE
  OBVIOUS
<1>1. PICK x \in missed : \A y \in missed : ~(<<y, x>> \in OpToRel(<, Nat))
  <2>1. missed \in SUBSET Nat
    OBVIOUS
  <2> QED
    BY <2>1, NatLessThanWellFounded, WFMin
<1>2. \A y \in missed : ~(y < x)
  <2>1. \A y \in missed : y \in Nat
    OBVIOUS
  <2> QED
    BY <1>1, <2>1 DEF OpToRel
<1>3. x \in 1 .. n /\ x \notin S
  OBVIOUS
<1>4. x - 1 \in 0 .. n - 1 /\ x - 1 \notin missed /\ x - 1 + 1 = x
  BY <1>2, <1>3
<1> QED
  BY <1>3, <1>4

\* The same with no end.
LEMMA AllNaturals ==
  ASSUME NEW S, 0 \in S, \A m \in Nat : m \in S => m + 1 \in S
  PROVE  \A m \in Nat : m \in S
<1> SUFFICES ASSUME NEW n \in Nat PROVE n \in S
  OBVIOUS
<1>1. \A m \in 0 .. n : m \in S
  <2>1. \A m \in 0 .. n - 1 : m \in S => m + 1 \in S
    OBVIOUS
  <2> QED
    BY <2>1, UpTo
<1> QED
  BY <1>1

-----------------------------------------------------------------------------
(* Folds over 1 .. n from the right.                                       *)

LEMMA LargestOf ==
  ASSUME NEW n \in Nat, NEW s \in SUBSET (1 .. n), s # {}
  PROVE  Max(s) \in s /\ \A x \in s : x <= Max(s)
<1>1. \E x \in s : \A y \in s : x >= y
  <2> DEFINE gap == {n - x : x \in s}
  <2>1. gap \in SUBSET Nat /\ gap # {}
    <3>1. \A x \in s : n - x \in Nat
      OBVIOUS
    <3> QED
      BY <3>1
  <2>2. PICK x \in gap : \A y \in gap : ~(<<y, x>> \in OpToRel(<, Nat))
    <3> HIDE DEF gap
    <3> QED
      BY <2>1, NatLessThanWellFounded, WFMin
  <2>3. \A y \in gap : ~(y < x)
    BY <2>1, <2>2 DEF OpToRel
  <2>4. PICK z \in s : x = n - z
    BY <2>2
  <2>5. \A y \in s : n - y \in gap
    OBVIOUS
  <2>6. \A y \in s : z >= y
    <3> SUFFICES ASSUME NEW y \in s PROVE z >= y
      OBVIOUS
    <3>1. ~(n - y < n - z)
      BY <2>3, <2>4, <2>5
    <3> QED
      BY <3>1
  <2> QED
    BY <2>6
<1>2. Max(s) \in s /\ \A x \in s : Max(s) >= x
  BY <1>1 DEF Max
<1> QED
  BY <1>2

LEMMA LargestUpTo ==
  ASSUME NEW n \in Nat \ {0}
  PROVE  Max(1 .. n) = n /\ (1 .. n) \ {n} = 1 .. n - 1
<1>1. 1 .. n \in SUBSET (1 .. n) /\ 1 .. n # {} /\ n \in 1 .. n
  OBVIOUS
<1>2. Max(1 .. n) \in 1 .. n /\ n <= Max(1 .. n)
  BY <1>1, LargestOf
<1> QED
  BY <1>2

\* iter is what a fold over 1 .. n is defined by: its step at k is the function g[k].
IsFold(iter, n, base, g) ==
  \A s \in SUBSET (1 .. n) :
    iter[s] = IF s = {} THEN base ELSE g[Max(s)][iter[s \ {Max(s)}]]

\* run goes from base to last through 1 .. n in order, by a step g[k] at each k.
IsRun(run, n, base, g, last) ==
  /\ run[0] = base
  /\ \A k \in 1 .. n : run[k] = g[k][run[k - 1]]
  /\ run[n] = last

\* iter is such a fold as far as its values are known to be in V.
FoldsIn(V, iter, n, base, g) ==
  /\ iter[{}] = base
  /\ \A s \in SUBSET (1 .. n) :
       s # {} /\ iter[s \ {Max(s)}] \in V => iter[s] = g[Max(s)][iter[s \ {Max(s)}]]

LEMMA FoldExists ==
  ASSUME NEW n \in Nat, NEW V, NEW base \in V, NEW g \in [1 .. n -> [V -> V]]
  PROVE  \E iter \in [SUBSET (1 .. n) -> V] : IsFold(iter, n, base, g)
<1> DEFINE Iter(m) ==
      \E iter \in [SUBSET (1 .. m) -> V] :
         \A s \in SUBSET (1 .. m) :
           iter[s] = IF s = {} THEN base ELSE g[Max(s)][iter[s \ {Max(s)}]]
           ok == {m \in 0 .. n : Iter(m)}
<1>1. 0 \in ok
  <2> DEFINE i0 == [s \in SUBSET (1 .. 0) |-> base]
  <2>1. i0 \in [SUBSET (1 .. 0) -> V]
    OBVIOUS
  <2>2. \A s \in SUBSET (1 .. 0) : s = {} /\ i0[s] = base
    OBVIOUS
  <2>3. Iter(0)
    <3> HIDE DEF i0
    <3> QED
      BY <2>1, <2>2
  <2>4. 0 \in 0 .. n
    OBVIOUS
  <2> HIDE DEF Iter
  <2> QED
    BY <2>3, <2>4
<1>2. ASSUME NEW m \in 0 .. n - 1, m \in ok
      PROVE  m + 1 \in ok
  <2>1. PICK iter \in [SUBSET (1 .. m) -> V] :
          \A s \in SUBSET (1 .. m) :
            iter[s] = IF s = {} THEN base ELSE g[Max(s)][iter[s \ {Max(s)}]]
    BY <1>2
  <2> DEFINE next == [s \in SUBSET (1 .. m + 1) |->
                        IF m + 1 \in s THEN g[m + 1][iter[s \ {m + 1}]] ELSE iter[s]]
  <2>2. \A s \in SUBSET (1 .. m + 1) : s \ {m + 1} \in SUBSET (1 .. m)
    BY <1>2
  <2>3. next \in [SUBSET (1 .. m + 1) -> V]
    <3> SUFFICES ASSUME NEW s \in SUBSET (1 .. m + 1) PROVE next[s] \in V
      OBVIOUS
    <3>1. CASE m + 1 \in s
      BY <1>2, <2>2, <3>1
    <3>2. CASE m + 1 \notin s
      BY <2>2, <3>2
    <3> QED
      BY <3>1, <3>2
  <2>4. ASSUME NEW s \in SUBSET (1 .. m + 1)
        PROVE  next[s] = IF s = {} THEN base ELSE g[Max(s)][next[s \ {Max(s)}]]
    <3>1. CASE m + 1 \in s
      <4>1. Max(s) = m + 1
        <5>1. m + 1 \in Nat /\ s # {} /\ \A x \in s : x <= m + 1
          BY <1>2, <3>1
        <5>2. s \in SUBSET (1 .. m + 1)
          OBVIOUS
        <5>3. Max(s) \in s /\ m + 1 <= Max(s)
          BY <3>1, <5>1, <5>2, LargestOf
        <5>4. Max(s) \in 1 .. m + 1
          BY <5>2, <5>3
        <5> QED
          BY <1>2, <5>3, <5>4
      <4>2. next[s \ {m + 1}] = iter[s \ {m + 1}]
        BY <2>2
      <4>3. next[s] = g[m + 1][iter[s \ {m + 1}]]
        BY <3>1
      <4> QED
        BY <3>1, <4>1, <4>2, <4>3
    <3>2. CASE m + 1 \notin s
      <4>1. s \in SUBSET (1 .. m) /\ next[s] = iter[s]
        BY <2>2, <3>2
      <4>2. next[s \ {Max(s)}] = iter[s \ {Max(s)}]
        BY <3>2
      <4> QED
        BY <2>1, <4>1, <4>2
    <3> QED
      BY <3>1, <3>2
  <2>5. Iter(m + 1)
    <3> HIDE DEF next
    <3> QED
      BY <2>3, <2>4
  <2>6. m + 1 \in 0 .. n
    BY <1>2
  <2> QED
    BY <2>5, <2>6
<1>3. n \in ok
  <2> HIDE DEF ok
  <2>1. n \in 0 .. n
    OBVIOUS
  <2>2. \A m \in 0 .. n : m \in ok
    BY <1>1, <1>2, UpTo
  <2> QED
    BY <2>1, <2>2
<1> QED
  BY <1>3 DEF IsFold

\* A fold visits 1 .. n in order.
LEMMA FoldRun ==
  ASSUME NEW n \in Nat, NEW V, NEW base \in V, NEW g \in [1 .. n -> [V -> V]], NEW iter,
         FoldsIn(V, iter, n, base, g)
  PROVE  \E run \in [0 .. n -> V] : IsRun(run, n, base, g, iter[1 .. n])
<1> DEFINE run == [m \in 0 .. n |-> iter[1 .. m]]
           ok  == {m \in 0 .. n : iter[1 .. m] \in V}
<1>1. run[0] = base
  <2>1. 1 .. 0 = {}
    OBVIOUS
  <2> QED
    BY <2>1 DEF FoldsIn
<1>2. ASSUME NEW m \in 1 .. n, iter[1 .. m - 1] \in V
      PROVE  iter[1 .. m] = g[m][iter[1 .. m - 1]]
  <2>1. Max(1 .. m) = m /\ (1 .. m) \ {m} = 1 .. m - 1
    BY LargestUpTo
  <2>2. 1 .. m \in SUBSET (1 .. n) /\ 1 .. m # {}
    <3>1. m \in 1 .. m /\ \A k \in 1 .. m : k \in 1 .. n
      OBVIOUS
    <3> QED
      BY <3>1
  <2> QED
    BY <1>2, <2>1, <2>2 DEF FoldsIn
<1>3. 0 \in ok
  BY <1>1
<1>4. ASSUME NEW m \in 0 .. n - 1, m \in ok PROVE m + 1 \in ok
  <2>1. m + 1 \in 1 .. n /\ m + 1 - 1 = m
    BY <1>4
  <2>2. iter[1 .. m + 1] = g[m + 1][iter[1 .. m]]
    BY <1>2, <1>4, <2>1
  <2> QED
    BY <1>4, <2>1, <2>2
<1>5. \A m \in 0 .. n : m \in ok
  <2> HIDE DEF ok
  <2> QED
    BY <1>3, <1>4, UpTo
<1>6. run \in [0 .. n -> V]
  BY <1>5
<1>7. \A m \in 1 .. n : m - 1 \in 0 .. n /\ run[m] = g[m][run[m - 1]]
  BY <1>2, <1>5
<1>8. run[n] = iter[1 .. n]
  OBVIOUS
<1> HIDE DEF run
<1>9. IsRun(run, n, base, g, iter[1 .. n])
  BY <1>1, <1>7, <1>8 DEF IsRun
<1> QED
  BY <1>6, <1>9

-----------------------------------------------------------------------------
(* Sums along a sequence.                                                  *)

\* f is what a sum of w over 1 .. n, folded from the left, is defined by.
IsSumFold(f, n, w) ==
  f = [s \in SUBSET (1 .. n) |-> IF s = {} THEN 0 ELSE f[s \ {Max(s)}] + w[Max(s)]]

\* run[k] is the sum of the first k of w.
IsSum(run, n, w, total) ==
  /\ run[0] = 0
  /\ \A k \in 1 .. n : run[k] = run[k - 1] + w[k]
  /\ run[n] = total

LEMMA SumFoldExists ==
  ASSUME NEW n \in Nat, NEW w \in [1 .. n -> Int]
  PROVE  \E f \in [SUBSET (1 .. n) -> Int] : IsSumFold(f, n, w)
<1>1. PICK g : g = [k \in 1 .. n |-> [x \in Int |-> x + w[k]]]
  OBVIOUS
<1>2. g \in [1 .. n -> [Int -> Int]] /\ \A k \in 1 .. n, x \in Int : g[k][x] = x + w[k]
  BY <1>1
<1>3. PICK f \in [SUBSET (1 .. n) -> Int] : IsFold(f, n, 0, g)
  <2>1. 0 \in Int
    OBVIOUS
  <2> QED
    BY <1>2, <2>1, FoldExists
<1>4. \A s \in SUBSET (1 .. n) :
        f[s] = IF s = {} THEN 0 ELSE f[s \ {Max(s)}] + w[Max(s)]
  <2> SUFFICES ASSUME NEW s \in SUBSET (1 .. n), s # {}
               PROVE  f[s] = f[s \ {Max(s)}] + w[Max(s)]
    BY <1>3 DEF IsFold
  <2>1. Max(s) \in 1 .. n /\ f[s \ {Max(s)}] \in Int
    BY <1>3, LargestOf
  <2>2. f[s] = g[Max(s)][f[s \ {Max(s)}]]
    BY <1>3 DEF IsFold
  <2> QED
    BY <1>2, <2>1, <2>2
<1>5. IsSumFold(f, n, w)
  BY <1>3, <1>4 DEF IsSumFold
<1> QED
  BY <1>3, <1>5

LEMMA SumFoldRun ==
  ASSUME NEW n \in Nat, NEW w \in [1 .. n -> Int], NEW f, IsSumFold(f, n, w)
  PROVE  \E run \in [0 .. n -> Int] : IsSum(run, n, w, f[1 .. n])
<1>1. PICK g : g = [k \in 1 .. n |-> [x \in Int |-> x + w[k]]]
  OBVIOUS
<1>2. g \in [1 .. n -> [Int -> Int]] /\ \A k \in 1 .. n, x \in Int : g[k][x] = x + w[k]
  BY <1>1
<1>3. FoldsIn(Int, f, n, 0, g)
  <2>1. f[{}] = 0 /\ \A s \in SUBSET (1 .. n) : s # {} => f[s] = f[s \ {Max(s)}] + w[Max(s)]
    BY DEF IsSumFold
  <2>2. \A s \in SUBSET (1 .. n) : s # {} => Max(s) \in 1 .. n
    BY LargestOf
  <2> QED
    BY <1>2, <2>1, <2>2 DEF FoldsIn
<1>4. PICK run \in [0 .. n -> Int] : IsRun(run, n, 0, g, f[1 .. n])
  <2>1. 0 \in Int
    OBVIOUS
  <2> QED
    BY <1>2, <1>3, <2>1, FoldRun
<1>5. \A k \in 1 .. n : run[k] = run[k - 1] + w[k]
  <2>1. \A k \in 1 .. n : k - 1 \in 0 .. n
    OBVIOUS
  <2>2. \A k \in 1 .. n : run[k - 1] \in Int
    BY <1>4, <2>1
  <2> QED
    BY <1>2, <1>4, <2>2 DEF IsRun
<1>6. IsSum(run, n, w, f[1 .. n])
  BY <1>4, <1>5 DEF IsRun, IsSum
<1> QED
  BY <1>4, <1>6

\* Sums of sequences that begin alike begin alike.
LEMMA SumsAgree ==
  ASSUME NEW n \in Nat, NEW v, NEW w, \A k \in 1 .. n : v[k] = w[k],
         NEW a, NEW x, IsSum(a, n, v, x), NEW b, NEW y, IsSum(b, n, w, y)
  PROVE  x = y
<1> DEFINE same == {k \in 0 .. n : a[k] = b[k]}
<1>1. 0 \in same
  BY DEF IsSum
<1>2. ASSUME NEW k \in 0 .. n - 1, k \in same PROVE k + 1 \in same
  <2>1. k + 1 \in 1 .. n /\ k + 1 - 1 = k
    OBVIOUS
  <2>2. a[k + 1] = b[k + 1]
    BY <1>2, <2>1 DEF IsSum
  <2> QED
    BY <2>1, <2>2
<1>3. \A k \in 0 .. n : k \in same
  <2> HIDE DEF same
  <2> QED
    BY <1>1, <1>2, UpTo
<1> QED
  BY <1>3 DEF IsSum

\* The sum of a sequence of numbers.
Total(w) == CHOOSE x \in Int : \E run \in [0 .. Len(w) -> Int] : IsSum(run, Len(w), w, x)

LEMMA TotalRun ==
  ASSUME NEW w \in Seq(Int)
  PROVE  /\ Total(w) \in Int
         /\ \E run \in [0 .. Len(w) -> Int] : IsSum(run, Len(w), w, Total(w))
<1>1. PICK n : n = Len(w)
  OBVIOUS
<1>2. n \in Nat /\ w \in [1 .. n -> Int]
  BY <1>1
<1>3. PICK f \in [SUBSET (1 .. n) -> Int] : IsSumFold(f, n, w)
  BY <1>2, SumFoldExists
<1>4. PICK run \in [0 .. n -> Int] : IsSum(run, n, w, f[1 .. n])
  BY <1>2, <1>3, SumFoldRun
<1>5. f[1 .. n] \in Int
  BY <1>3
<1> QED
  BY <1>1, <1>4, <1>5 DEF Total

LEMMA TotalOf ==
  ASSUME NEW w \in Seq(Int), NEW x, NEW run, IsSum(run, Len(w), w, x)
  PROVE  Total(w) = x
<1>1. PICK n : n = Len(w)
  OBVIOUS
<1>2. n \in Nat /\ \A k \in 1 .. n : w[k] = w[k]
  BY <1>1
<1>3. PICK other : IsSum(other, n, w, Total(w))
  BY <1>1, TotalRun
<1>4. IsSum(run, n, w, x)
  BY <1>1
<1> QED
  BY <1>2, <1>3, <1>4, SumsAgree

LEMMA TotalEmpty == Total(<<>>) = 0
<1>1. PICK w : w = <<>>
  OBVIOUS
<1>2. w \in Seq(Int) /\ Len(w) = 0
  BY <1>1
<1>3. PICK run : IsSum(run, 0, w, Total(w))
  BY <1>2, TotalRun
<1> QED
  BY <1>1, <1>3 DEF IsSum

LEMMA TotalAppend ==
  ASSUME NEW w \in Seq(Int), NEW x \in Int
  PROVE  Total(Append(w, x)) = Total(w) + x
<1>1. PICK n, v : n = Len(w) /\ v = Append(w, x)
  OBVIOUS
<1>2. /\ n \in Nat /\ v \in Seq(Int) /\ Len(v) = n + 1 /\ v[n + 1] = x
      /\ \A k \in 1 .. n : v[k] = w[k]
  BY <1>1
<1>3. PICK a \in [0 .. n + 1 -> Int] : IsSum(a, n + 1, v, Total(v))
  BY <1>2, TotalRun
<1>4. PICK b \in [0 .. n -> Int] : IsSum(b, n, w, Total(w))
  BY <1>1, TotalRun
<1>5. IsSum(a, n, v, a[n])
  <2>1. \A k \in 1 .. n : k \in 1 .. n + 1
    BY <1>2
  <2> QED
    BY <1>3, <2>1 DEF IsSum
<1>6. a[n] = Total(w)
  BY <1>2, <1>4, <1>5, SumsAgree
<1>7. Total(v) = a[n + 1] /\ a[n + 1] = a[n] + v[n + 1]
  <2>1. PICK m : m = n + 1
    OBVIOUS
  <2>2. m \in 1 .. m /\ m - 1 = n
    BY <1>2, <2>1
  <2>3. IsSum(a, m, v, Total(v))
    BY <1>3, <2>1
  <2>4. a[m] = a[m - 1] + v[m] /\ Total(v) = a[m]
    BY <2>2, <2>3 DEF IsSum
  <2> QED
    BY <2>1, <2>2, <2>4
<1> QED
  BY <1>1, <1>2, <1>6, <1>7

LEMMA TotalConcat ==
  ASSUME NEW v \in Seq(Int), NEW w \in Seq(Int)
  PROVE  Total(v \o w) = Total(v) + Total(w)
<1>1. PICK n : n = Len(w)
  OBVIOUS
<1> DEFINE ok == {k \in 0 .. n : Total(v \o SubSeq(w, 1, k)) = Total(v) + Total(SubSeq(w, 1, k))}
<1>2. n \in Nat
  BY <1>1
<1>3. 0 \in ok
  <2>1. SubSeq(w, 1, 0) = <<>> /\ v \o <<>> = v
    OBVIOUS
  <2>2. Total(v) \in Int
    BY TotalRun
  <2>3. Total(v \o SubSeq(w, 1, 0)) = Total(v) + Total(SubSeq(w, 1, 0))
    <3>1. Total(v) = Total(v) + Total(<<>>)
      BY <2>2, TotalEmpty
    <3>2. \A y : y = <<>> /\ v \o y = v => Total(v \o y) = Total(v) + Total(y)
      BY <3>1
    <3> HIDE DEF ok
    <3> QED
      BY <2>1, <3>2
  <2>4. 0 \in 0 .. n
    BY <1>2
  <2> QED
    BY <2>3, <2>4
<1>4. ASSUME NEW k \in 0 .. n - 1, k \in ok PROVE k + 1 \in ok
  <2>1. PICK p, q, x : p = SubSeq(w, 1, k) /\ q = SubSeq(w, 1, k + 1) /\ x = w[k + 1]
    OBVIOUS
  <2>2. p \in Seq(Int) /\ q \in Seq(Int) /\ x \in Int /\ q = Append(p, x)
    BY <1>1, <1>2, <2>1
  <2>3. v \o q = Append(v \o p, x) /\ v \o p \in Seq(Int)
    BY <2>2
  <2>4. Total(q) = Total(p) + x
    BY <2>2, TotalAppend
  <2>5. Total(v \o q) = Total(v \o p) + x
    BY <2>2, <2>3, TotalAppend
  <2>6. Total(v) \in Int /\ Total(p) \in Int
    BY <2>2, TotalRun
  <2>7. Total(v \o p) = Total(v) + Total(p)
    BY <1>4, <2>1
  <2>8. Total(v \o q) = Total(v) + Total(q)
    BY <2>2, <2>4, <2>5, <2>6, <2>7
  <2>9. k + 1 \in 0 .. n
    BY <1>2
  <2> QED
    BY <2>1, <2>8, <2>9
<1>5. n \in ok
  <2> HIDE DEF ok
  <2>1. n \in 0 .. n
    BY <1>2
  <2>2. \A k \in 0 .. n : k \in ok
    BY <1>2, <1>3, <1>4, UpTo
  <2> QED
    BY <2>1, <2>2
<1>6. SubSeq(w, 1, n) = w
  BY <1>1
<1> QED
  BY <1>5, <1>6

LEMMA TotalOne ==
  ASSUME NEW x \in Int
  PROVE  Total(<<x>>) = x
<1>1. PICK e : e = <<>>
  OBVIOUS
<1>2. e \in Seq(Int) /\ Append(e, x) = <<x>>
  BY <1>1
<1>3. Total(Append(e, x)) = Total(e) + x
  BY <1>2, TotalAppend
<1> QED
  BY <1>1, <1>2, <1>3, TotalEmpty

\* A total of multiples.
LEMMA TotalScaled ==
  ASSUME NEW v \in Seq(Int), NEW w \in Seq(Int), NEW c \in Int, Len(w) = Len(v),
         \A k \in 1 .. Len(v) : w[k] = c * v[k]
  PROVE  Total(w) = c * Total(v)
<1>1. PICK n : n = Len(v)
  OBVIOUS
<1>2. n \in Nat /\ Len(w) = n /\ \A k \in 1 .. n : v[k] \in Int /\ w[k] = c * v[k]
  BY <1>1
<1>3. PICK a \in [0 .. n -> Int] : IsSum(a, n, v, Total(v))
  BY <1>1, TotalRun
<1>4. PICK b \in [0 .. n -> Int] : IsSum(b, n, w, Total(w))
  BY <1>2, TotalRun
<1> DEFINE ok == {k \in 0 .. n : b[k] = c * a[k]}
<1>5. 0 \in ok
  <2>1. 0 \in 0 .. n /\ a[0] = 0 /\ b[0] = 0 /\ c * 0 = 0
    BY <1>2, <1>3, <1>4 DEF IsSum
  <2> QED
    BY <2>1
<1>6. ASSUME NEW m \in 0 .. n - 1, m \in ok
      PROVE  m + 1 \in ok
  <2>1. PICK k : k = m + 1
    OBVIOUS
  <2>2. k \in 1 .. n /\ k \in 0 .. n /\ m \in 0 .. n /\ k - 1 = m
    BY <1>2, <2>1
  <2>3. a[k] = a[m] + v[k] /\ b[k] = b[m] + w[k]
    BY <1>3, <1>4, <2>2 DEF IsSum
  <2>4. PICK x, y : x = a[m] /\ y = v[k]
    OBVIOUS
  <2>5. x \in Int /\ y \in Int /\ b[m] = c * x /\ w[k] = c * y
    BY <1>2, <1>3, <1>6, <2>2, <2>4
  <2>6. c * (x + y) = c * x + c * y
    BY <2>5
  <2>7. b[k] = c * a[k]
    BY <2>3, <2>4, <2>5, <2>6
  <2> QED
    BY <2>1, <2>2, <2>7
<1>7. n \in ok
  <2> HIDE DEF ok
  <2>1. \A m \in 0 .. n : m \in ok
    BY <1>2, <1>5, <1>6, UpTo
  <2> QED
    BY <1>2, <2>1
<1> QED
  BY <1>3, <1>4, <1>7 DEF IsSum

\* The sum of what is not negative is not less than any part of it.
LEMMA TotalOfNats ==
  ASSUME NEW w \in Seq(Nat)
  PROVE  /\ Total(w) \in Nat
         /\ \A k \in 1 .. Len(w) : w[k] <= Total(w)
<1>1. PICK n : n = Len(w)
  OBVIOUS
<1>2. n \in Nat /\ w \in Seq(Int) /\ \A k \in 1 .. n : w[k] \in Nat
  BY <1>1
<1>3. PICK run \in [0 .. n -> Int] : IsSum(run, n, w, Total(w))
  BY <1>1, <1>2, TotalRun
<1> DEFINE ok == {k \in 0 .. n : run[k] \in Nat /\ \A l \in 1 .. k : w[l] <= run[k]}
<1>4. 0 \in ok
  BY <1>2, <1>3 DEF IsSum
<1>5. ASSUME NEW k \in 0 .. n - 1, k \in ok PROVE k + 1 \in ok
  <2>1. k + 1 \in 1 .. n /\ k + 1 - 1 = k /\ k + 1 \in 0 .. n
    BY <1>2
  <2>2. run[k + 1] = run[k] + w[k + 1] /\ w[k + 1] \in Nat /\ run[k] \in Nat
    BY <1>2, <1>3, <1>5, <2>1 DEF IsSum
  <2>3. ASSUME NEW l \in 1 .. k + 1 PROVE w[l] <= run[k + 1]
    <3>1. CASE l = k + 1
      BY <2>2, <3>1
    <3>2. CASE l # k + 1
      <4>1. l \in 1 .. k /\ l \in 1 .. n
        BY <1>2, <3>2
      <4>2. w[l] \in Nat /\ w[l] <= run[k]
        BY <1>2, <1>5, <4>1
      <4> QED
        BY <2>2, <4>2
    <3> QED
      BY <3>1, <3>2
  <2> QED
    BY <2>1, <2>2, <2>3
<1>6. n \in ok
  <2> HIDE DEF ok
  <2>1. n \in 0 .. n
    BY <1>2
  <2>2. \A k \in 0 .. n : k \in ok
    BY <1>2, <1>4, <1>5, UpTo
  <2> QED
    BY <2>1, <2>2
<1> QED
  BY <1>1, <1>3, <1>6 DEF IsSum

-----------------------------------------------------------------------------
(* Sums over a finite set, in whatever order.                              *)

Chosen(s) == CHOOSE x \in s : TRUE

\* f is what the sum of w over D is defined by.
IsSetSum(f, D, w) ==
  f = [s \in SUBSET D |-> IF s = {} THEN 0 ELSE w[Chosen(s)] + f[s \ {Chosen(s)}]]

LEMMA SubsetSizes ==
  ASSUME NEW D, IsFiniteSet(D)
  PROVE  /\ Cardinality(D) \in Nat
         /\ \A s \in SUBSET D :
              /\ IsFiniteSet(s) /\ Cardinality(s) \in 0 .. Cardinality(D)
              /\ Cardinality(s) = 0 <=> s = {}
              /\ \A x \in s : Cardinality(s \ {x}) = Cardinality(s) - 1
<1>1. Cardinality(D) \in Nat
  BY FS_CardinalityType
<1>2. ASSUME NEW s \in SUBSET D
      PROVE  /\ IsFiniteSet(s) /\ Cardinality(s) \in 0 .. Cardinality(D)
             /\ Cardinality(s) = 0 <=> s = {}
             /\ \A x \in s : Cardinality(s \ {x}) = Cardinality(s) - 1
  <2>1. IsFiniteSet(s) /\ Cardinality(s) <= Cardinality(D)
    BY FS_Subset
  <2>2. Cardinality(s) \in Nat
    BY <2>1, FS_CardinalityType
  <2>3. Cardinality(s) = 0 <=> s = {}
    BY <2>1, FS_EmptySet
  <2>4. \A x \in s : Cardinality(s \ {x}) = Cardinality(s) - 1
    BY <2>1, FS_RemoveElement
  <2> QED
    BY <1>1, <2>1, <2>2, <2>3, <2>4
<1> QED
  BY <1>1, <1>2

\* A set of subsets that has {} and, with a set, those of one element more has all.
LEMMA AllSubsets ==
  ASSUME NEW D, IsFiniteSet(D), NEW C, {} \in C,
         \A s \in SUBSET D, x \in D : x \notin s /\ s \in C => s \cup {x} \in C
  PROVE  \A s \in SUBSET D : s \in C
<1>1. PICK n : n = Cardinality(D)
  OBVIOUS
<1>2. n \in Nat
  BY <1>1, SubsetSizes
<1>3. \A s \in SUBSET D :
        /\ IsFiniteSet(s) /\ Cardinality(s) \in 0 .. n
        /\ Cardinality(s) = 0 <=> s = {}
        /\ \A x \in s : Cardinality(s \ {x}) = Cardinality(s) - 1
  BY <1>1, SubsetSizes
<1> DEFINE ok == {m \in 0 .. n : \A s \in SUBSET D : Cardinality(s) = m => s \in C}
<1>4. 0 \in ok
  <2>1. \A s \in SUBSET D : Cardinality(s) = 0 => s = {}
    BY <1>3
  <2>2. 0 \in 0 .. n
    BY <1>2
  <2> QED
    BY <2>1, <2>2
<1>5. ASSUME NEW m \in 0 .. n - 1, m \in ok PROVE m + 1 \in ok
  <2>1. ASSUME NEW s \in SUBSET D, Cardinality(s) = m + 1 PROVE s \in C
    <3>1. s # {}
      <4>1. m + 1 # 0
        BY <1>2
      <4> QED
        BY <1>3, <2>1, <4>1
    <3>2. PICK x \in s : TRUE
      BY <3>1
    <3>3. PICK r : r = s \ {x}
      OBVIOUS
    <3>4. Cardinality(r) = m
      <4>1. Cardinality(r) = Cardinality(s) - 1
        BY <1>3, <3>2, <3>3
      <4> QED
        BY <2>1, <4>1
    <3>5. r \in SUBSET D /\ x \in D /\ x \notin r /\ s = r \cup {x}
      BY <3>2, <3>3
    <3>6. r \in C
      BY <1>5, <3>4, <3>5
    <3>7. r \cup {x} \in C
      BY <3>5, <3>6
    <3> QED
      BY <3>5, <3>7
  <2>2. m + 1 \in 0 .. n
    BY <1>2
  <2> QED
    BY <2>1, <2>2
<1>6. \A m \in 0 .. n : m \in ok
  <2> HIDE DEF ok
  <2> QED
    BY <1>2, <1>4, <1>5, UpTo
<1> QED
  BY <1>3, <1>6

LEMMA SetSumExists ==
  ASSUME NEW D, IsFiniteSet(D), NEW w \in [D -> Int]
  PROVE  \E f : IsSetSum(f, D, w)
<1>1. PICK n : n = Cardinality(D)
  OBVIOUS
<1>2. n \in Nat
  BY <1>1, SubsetSizes
<1>3. \A s \in SUBSET D :
        /\ IsFiniteSet(s) /\ Cardinality(s) \in 0 .. n
        /\ Cardinality(s) = 0 <=> s = {}
        /\ \A x \in s : Cardinality(s \ {x}) = Cardinality(s) - 1
  BY <1>1, SubsetSizes
<1> DEFINE Small(m) == {s \in SUBSET D : Cardinality(s) <= m}
           Sums(f, m) == \A s \in Small(m) :
                           f[s] = IF s = {} THEN 0 ELSE w[Chosen(s)] + f[s \ {Chosen(s)}]
           ok == {m \in 0 .. n : \E f : Sums(f, m)}
<1>4. 0 \in ok
  <2>1. PICK f : f = [s \in {{}} |-> 0]
    OBVIOUS
  <2>2. \A s \in Small(0) : s = {}
    <3> SUFFICES ASSUME NEW s \in SUBSET D, Cardinality(s) <= 0 PROVE s = {}
      OBVIOUS
    <3>1. Cardinality(s) = 0
      BY <1>2, <1>3
    <3> QED
      BY <1>3, <3>1
  <2>3. f[{}] = 0
    BY <2>1
  <2>4. Sums(f, 0)
    BY <2>2, <2>3
  <2>5. 0 \in 0 .. n
    BY <1>2
  <2> HIDE DEF Sums
  <2> QED
    BY <2>4, <2>5
<1>5. ASSUME NEW m \in 0 .. n - 1, m \in ok PROVE m + 1 \in ok
  <2>1. PICK f : Sums(f, m)
    BY <1>5
  <2>2. PICK g : g = [s \in Small(m + 1) |->
                        IF s = {} THEN 0 ELSE w[Chosen(s)] + f[s \ {Chosen(s)}]]
    OBVIOUS
  <2>3. \A s \in Small(m) : s \in Small(m + 1) /\ g[s] = f[s]
    <3>1. \A s \in Small(m) : s \in Small(m + 1)
      <4> SUFFICES ASSUME NEW s \in Small(m) PROVE Cardinality(s) <= m + 1
        OBVIOUS
      <4>1. Cardinality(s) \in 0 .. n /\ Cardinality(s) <= m
        BY <1>3
      <4> QED
        BY <1>2, <4>1
    <3> HIDE DEF Small
    <3> QED
      BY <2>1, <2>2, <3>1
  <2>4. ASSUME NEW s \in Small(m + 1), s # {} PROVE s \ {Chosen(s)} \in Small(m)
    <3>1. Chosen(s) \in s
      BY <2>4 DEF Chosen
    <3>2. Cardinality(s \ {Chosen(s)}) = Cardinality(s) - 1
      BY <1>3, <3>1
    <3>3. Cardinality(s) \in 0 .. n /\ Cardinality(s) <= m + 1
      BY <1>3
    <3>4. Cardinality(s \ {Chosen(s)}) <= m
      BY <1>2, <3>2, <3>3
    <3> QED
      BY <3>4
  <2>5. Sums(g, m + 1)
    <3> HIDE DEF Small
    <3>1. ASSUME NEW s \in Small(m + 1)
          PROVE  g[s] = IF s = {} THEN 0 ELSE w[Chosen(s)] + g[s \ {Chosen(s)}]
      <4>1. CASE s = {}
        BY <2>2, <4>1
      <4>2. CASE s # {}
        <5>1. g[s \ {Chosen(s)}] = f[s \ {Chosen(s)}]
          BY <2>3, <2>4, <4>2
        <5> QED
          BY <2>2, <4>2, <5>1
      <4> QED
        BY <4>1, <4>2
    <3> QED
      BY <3>1
  <2>6. m + 1 \in 0 .. n
    BY <1>2
  <2> HIDE DEF Sums
  <2> QED
    BY <2>5, <2>6
<1>6. n \in ok
  <2> HIDE DEF ok
  <2>1. n \in 0 .. n
    BY <1>2
  <2>2. \A m \in 0 .. n : m \in ok
    BY <1>2, <1>4, <1>5, UpTo
  <2> QED
    BY <2>1, <2>2
<1>7. PICK f : Sums(f, n)
  BY <1>6
<1>8. PICK g : g = [s \in SUBSET D |-> f[s]]
  OBVIOUS
<1>9. \A s \in SUBSET D : g[s] = IF s = {} THEN 0 ELSE w[Chosen(s)] + g[s \ {Chosen(s)}]
  <2>1. \A s \in SUBSET D : s \in Small(n)
    BY <1>2, <1>3
  <2>2. \A s \in SUBSET D : f[s] = IF s = {} THEN 0 ELSE w[Chosen(s)] + f[s \ {Chosen(s)}]
    <3> HIDE DEF Small
    <3> QED
      BY <1>7, <2>1
  <2>3. \A s \in SUBSET D : g[s] = f[s] /\ g[s \ {Chosen(s)}] = f[s \ {Chosen(s)}]
    BY <1>8
  <2> HIDE DEF Small, Sums
  <2> QED
    BY <2>2, <2>3
<1>10. IsSetSum(g, D, w)
  BY <1>8, <1>9 DEF IsSetSum
<1> QED
  BY <1>10

LEMMA SetSumType ==
  ASSUME NEW D, IsFiniteSet(D), NEW w \in [D -> Int], NEW f, IsSetSum(f, D, w)
  PROVE  \A s \in SUBSET D : f[s] \in Int
<1>1. PICK n : n = Cardinality(D)
  OBVIOUS
<1>2. n \in Nat
  BY <1>1, SubsetSizes
<1>3. \A s \in SUBSET D :
        /\ IsFiniteSet(s) /\ Cardinality(s) \in 0 .. n
        /\ Cardinality(s) = 0 <=> s = {}
        /\ \A x \in s : Cardinality(s \ {x}) = Cardinality(s) - 1
  BY <1>1, SubsetSizes
<1>4. \A s \in SUBSET D : f[s] = IF s = {} THEN 0 ELSE w[Chosen(s)] + f[s \ {Chosen(s)}]
  BY DEF IsSetSum
<1> DEFINE ok == {m \in 0 .. n : \A s \in SUBSET D : Cardinality(s) = m => f[s] \in Int}
<1>5. 0 \in ok
  <2>1. \A s \in SUBSET D : Cardinality(s) = 0 => s = {}
    BY <1>3
  <2>2. 0 \in 0 .. n /\ 0 \in Int
    BY <1>2
  <2> QED
    BY <1>4, <2>1, <2>2
<1>6. ASSUME NEW m \in 0 .. n - 1, m \in ok PROVE m + 1 \in ok
  <2>1. ASSUME NEW s \in SUBSET D, Cardinality(s) = m + 1 PROVE f[s] \in Int
    <3>1. s # {}
      <4>1. m + 1 # 0
        BY <1>2
      <4> QED
        BY <1>3, <2>1, <4>1
    <3>2. PICK c : c = Chosen(s)
      OBVIOUS
    <3>3. c \in s /\ w[c] \in Int
      BY <3>1, <3>2 DEF Chosen
    <3>4. Cardinality(s \ {c}) = m /\ s \ {c} \in SUBSET D
      <4>1. Cardinality(s \ {c}) = Cardinality(s) - 1
        BY <1>3, <3>3
      <4> QED
        BY <2>1, <4>1
    <3>5. f[s \ {c}] \in Int
      BY <1>6, <3>4
    <3>6. f[s] = w[c] + f[s \ {c}]
      BY <1>4, <3>1, <3>2
    <3> QED
      BY <3>3, <3>5, <3>6
  <2>2. m + 1 \in 0 .. n
    BY <1>2
  <2> QED
    BY <2>1, <2>2
<1>7. \A m \in 0 .. n : m \in ok
  <2> HIDE DEF ok
  <2> QED
    BY <1>2, <1>5, <1>6, UpTo
<1> QED
  BY <1>3, <1>7

\* Any element of a set may be the first that is counted.
CountsAny(f, D, w) == f[{}] = 0 /\ \A s \in SUBSET D : \A x \in s : f[s] = w[x] + f[s \ {x}]

LEMMA SetSumAny ==
  ASSUME NEW D, IsFiniteSet(D), NEW w \in [D -> Int], NEW f, IsSetSum(f, D, w)
  PROVE  CountsAny(f, D, w)
<1>1. PICK n : n = Cardinality(D)
  OBVIOUS
<1>2. n \in Nat
  BY <1>1, SubsetSizes
<1>3. \A s \in SUBSET D :
        /\ IsFiniteSet(s) /\ Cardinality(s) \in 0 .. n
        /\ Cardinality(s) = 0 <=> s = {}
        /\ \A x \in s : Cardinality(s \ {x}) = Cardinality(s) - 1
  BY <1>1, SubsetSizes
<1>4. \A s \in SUBSET D : f[s] = IF s = {} THEN 0 ELSE w[Chosen(s)] + f[s \ {Chosen(s)}]
  BY DEF IsSetSum
<1>5. \A s \in SUBSET D : f[s] \in Int
  BY SetSumType
<1> DEFINE ok == {m \in 0 .. n : \A s \in SUBSET D : Cardinality(s) = m =>
                                    \A x \in s : f[s] = w[x] + f[s \ {x}]}
<1>6. 0 \in ok
  <2>1. \A s \in SUBSET D : Cardinality(s) = 0 => s = {}
    BY <1>3
  <2>2. 0 \in 0 .. n
    BY <1>2
  <2> QED
    BY <2>1, <2>2
<1>7. ASSUME NEW m \in 0 .. n - 1, m \in ok PROVE m + 1 \in ok
  <2>1. ASSUME NEW s \in SUBSET D, Cardinality(s) = m + 1, NEW x \in s
        PROVE  f[s] = w[x] + f[s \ {x}]
    <3>1. PICK c : c = Chosen(s)
      OBVIOUS
    <3>2. c \in s
      BY <3>1 DEF Chosen
    <3>3. f[s] = w[c] + f[s \ {c}]
      BY <1>4, <3>1, <3>2
    <3>4. CASE x = c
      BY <3>3, <3>4
    <3>5. CASE x # c
      <4>1. PICK p, q, r : p = s \ {c} /\ q = s \ {x} /\ r = s \ {c, x}
        OBVIOUS
      <4>2. /\ p \in SUBSET D /\ x \in p /\ r = p \ {x}
            /\ q \in SUBSET D /\ c \in q /\ r = q \ {c}
            /\ r \in SUBSET D
        BY <3>2, <3>5, <4>1
      <4>3. Cardinality(p) = m /\ Cardinality(q) = m
        <5>1. Cardinality(p) = Cardinality(s) - 1 /\ Cardinality(q) = Cardinality(s) - 1
          BY <1>3, <3>2, <4>1
        <5> QED
          BY <2>1, <5>1
      <4>4. f[p] = w[x] + f[r]
        BY <1>7, <4>2, <4>3
      <4>5. f[q] = w[c] + f[r]
        BY <1>7, <4>2, <4>3
      <4>6. f[r] \in Int /\ w[x] \in Int /\ w[c] \in Int /\ f[s] = w[c] + f[p]
        BY <1>5, <3>2, <3>3, <4>1, <4>2
      <4>7. f[s] = w[x] + f[q]
        BY <4>4, <4>5, <4>6
      <4> QED
        BY <4>1, <4>7
    <3> QED
      BY <3>4, <3>5
  <2>2. m + 1 \in 0 .. n
    BY <1>2
  <2> QED
    BY <2>1, <2>2
<1>8. \A m \in 0 .. n : m \in ok
  <2> HIDE DEF ok
  <2> QED
    BY <1>2, <1>6, <1>7, UpTo
<1>9. f[{}] = 0
  BY <1>4
<1> QED
  BY <1>3, <1>8, <1>9 DEF CountsAny

\* Sums that count the same are the same.
LEMMA SetSumsAgree ==
  ASSUME NEW D, IsFiniteSet(D), NEW v \in [D -> Int], NEW f, IsSetSum(f, D, v),
         NEW E, IsFiniteSet(E), NEW w \in [E -> Int], NEW g, IsSetSum(g, E, w),
         NEW S, S \subseteq D, S \subseteq E, \A x \in S : v[x] = w[x]
  PROVE  f[S] = g[S]
<1>1. f[{}] = 0 /\ \A s \in SUBSET D : \A x \in s : f[s] = v[x] + f[s \ {x}]
  <2>1. CountsAny(f, D, v)
    BY SetSumAny
  <2> QED
    BY <2>1 DEF CountsAny
<1>2. g[{}] = 0 /\ \A s \in SUBSET E : \A x \in s : g[s] = w[x] + g[s \ {x}]
  <2>1. CountsAny(g, E, w)
    BY SetSumAny
  <2> QED
    BY <2>1 DEF CountsAny
<1> DEFINE C == {s \in SUBSET S : f[s] = g[s]}
<1>3. {} \in C
  BY <1>1, <1>2
<1>4. ASSUME NEW s \in SUBSET S, NEW x \in S, x \notin s, s \in C
      PROVE  s \cup {x} \in C
  <2>1. PICK t : t = s \cup {x}
    OBVIOUS
  <2>2. t \in SUBSET S /\ t \in SUBSET D /\ t \in SUBSET E /\ x \in t /\ t \ {x} = s
    BY <1>4, <2>1
  <2>3. f[t] = v[x] + f[s] /\ g[t] = w[x] + g[s]
    BY <1>1, <1>2, <2>2
  <2>4. f[t] = g[t]
    BY <1>4, <2>3
  <2> QED
    BY <2>1, <2>2, <2>4
<1>5. IsFiniteSet(S)
  BY FS_Subset
<1>6. \A s \in SUBSET S : s \in C
  <2> HIDE DEF C
  <2> QED
    BY <1>3, <1>4, <1>5, AllSubsets
<1> QED
  BY <1>6

\* The sum of what a function has.
SumOf(w) == FoldFunction(+, 0, w)

LEMMA SumOfSet ==
  ASSUME NEW D, IsFiniteSet(D), NEW w \in [D -> Int]
  PROVE  \E f : IsSetSum(f, D, w) /\ SumOf(w) = f[D]
<1> DEFINE Defines(f) == f = [s \in SUBSET D |-> IF s = {} THEN 0
                                 ELSE w[CHOOSE x \in s : TRUE] + f[s \ {CHOOSE x \in s : TRUE}]]
           f == CHOOSE g : Defines(g)
<1>1. SumOf(w) = f[D]
  BY DEF SumOf, FoldFunction, FoldFunctionOnSet, MapThenFoldSet
<1>2. PICK g : IsSetSum(g, D, w)
  BY SetSumExists
<1>3. Defines(g)
  BY <1>2 DEF IsSetSum, Chosen
<1>4. Defines(f)
  <2> HIDE DEF Defines
  <2> QED
    BY <1>3
<1>5. IsSetSum(f, D, w)
  <2> PICK h : h = f
    OBVIOUS
  <2>1. Defines(h)
    BY <1>4
  <2> HIDE DEF f
  <2>2. IsSetSum(h, D, w)
    BY <2>1 DEF IsSetSum, Chosen
  <2> QED
    BY <2>2
<1> HIDE DEF f
<1> QED
  BY <1>1, <1>5

LEMMA SumOfNone ==
  ASSUME NEW w, DOMAIN w = {}, w = [x \in {} |-> w[x]]
  PROVE  SumOf(w) = 0
<1>1. IsFiniteSet({}) /\ w \in [{} -> Int]
  BY FS_EmptySet
<1>2. PICK f : IsSetSum(f, {}, w) /\ SumOf(w) = f[{}]
  BY <1>1, SumOfSet
<1>3. f[{}] = 0
  <2>1. CountsAny(f, {}, w)
    BY <1>1, <1>2, SetSumAny
  <2> QED
    BY <2>1 DEF CountsAny
<1> QED
  BY <1>2, <1>3

LEMMA SumOfType ==
  ASSUME NEW D, IsFiniteSet(D), NEW w \in [D -> Int]
  PROVE  SumOf(w) \in Int
<1>1. PICK f : IsSetSum(f, D, w) /\ SumOf(w) = f[D]
  BY SumOfSet
<1> QED
  BY <1>1, SetSumType

\* One more summand.
LEMMA SumOfOneMore ==
  ASSUME NEW D, IsFiniteSet(D), NEW x, x \notin D, NEW E, E = D \cup {x},
         NEW v \in [D -> Int], NEW w \in [E -> Int], \A y \in D : w[y] = v[y]
  PROVE  SumOf(w) = SumOf(v) + w[x]
<1>1. E = D \cup {x}
  OBVIOUS
<1>2. IsFiniteSet(E) /\ x \in E /\ E \ {x} = D /\ D \subseteq E
  BY <1>1, FS_AddElement
<1>3. PICK f : IsSetSum(f, D, v) /\ SumOf(v) = f[D]
  BY SumOfSet
<1>4. PICK g : IsSetSum(g, E, w) /\ SumOf(w) = g[E]
  BY <1>1, <1>2, SumOfSet
<1>5. g[E] = w[x] + g[D]
  <2>1. CountsAny(g, E, w)
    BY <1>1, <1>2, <1>4, SetSumAny
  <2> QED
    BY <2>1, <1>2 DEF CountsAny
<1>6. f[D] = g[D]
  BY <1>1, <1>2, <1>3, <1>4, SetSumsAgree
<1>7. w[x] \in Int /\ SumOf(v) \in Int
  BY <1>1, <1>2, SumOfType
<1> QED
  BY <1>3, <1>4, <1>5, <1>6, <1>7

\* One summand changed.
LEMMA SumOfChange ==
  ASSUME NEW D, IsFiniteSet(D), NEW x \in D, NEW v \in [D -> Int], NEW w \in [D -> Int],
         \A y \in D : y # x => w[y] = v[y]
  PROVE  SumOf(w) = SumOf(v) - v[x] + w[x]
<1>1. PICK f : IsSetSum(f, D, v) /\ SumOf(v) = f[D]
  BY SumOfSet
<1>2. PICK g : IsSetSum(g, D, w) /\ SumOf(w) = g[D]
  BY SumOfSet
<1>3. PICK E : E = D \ {x}
  OBVIOUS
<1>4. E \subseteq D /\ D \in SUBSET D /\ \A y \in E : v[y] = w[y]
  BY <1>3
<1>5. f[D] = v[x] + f[E]
  <2>1. CountsAny(f, D, v)
    BY <1>1, SetSumAny
  <2> QED
    BY <2>1, <1>3, <1>4 DEF CountsAny
<1>6. g[D] = w[x] + g[E]
  <2>1. CountsAny(g, D, w)
    BY <1>2, SetSumAny
  <2> QED
    BY <2>1, <1>3, <1>4 DEF CountsAny
<1>7. f[E] = g[E]
  BY <1>1, <1>2, <1>4, SetSumsAgree
<1>8. f[E] \in Int /\ v[x] \in Int /\ w[x] \in Int
  BY <1>1, <1>4, SetSumType
<1> QED
  BY <1>1, <1>2, <1>5, <1>6, <1>7, <1>8

\* The sum of the sums of two functions.
LEMMA SumOfSums ==
  ASSUME NEW D, IsFiniteSet(D), NEW u \in [D -> Int], NEW v \in [D -> Int], NEW w \in [D -> Int],
         \A y \in D : w[y] = u[y] + v[y]
  PROVE  SumOf(w) = SumOf(u) + SumOf(v)
<1>1. PICK f : IsSetSum(f, D, u) /\ SumOf(u) = f[D]
  BY SumOfSet
<1>2. PICK g : IsSetSum(g, D, v) /\ SumOf(v) = g[D]
  BY SumOfSet
<1>3. PICK h : IsSetSum(h, D, w) /\ SumOf(w) = h[D]
  BY SumOfSet
<1>4. f[{}] = 0 /\ \A s \in SUBSET D : \A x \in s : f[s] = u[x] + f[s \ {x}]
  <2>1. CountsAny(f, D, u)
    BY <1>1, SetSumAny
  <2> QED
    BY <2>1 DEF CountsAny
<1>5. g[{}] = 0 /\ \A s \in SUBSET D : \A x \in s : g[s] = v[x] + g[s \ {x}]
  <2>1. CountsAny(g, D, v)
    BY <1>2, SetSumAny
  <2> QED
    BY <2>1 DEF CountsAny
<1>6. h[{}] = 0 /\ \A s \in SUBSET D : \A x \in s : h[s] = w[x] + h[s \ {x}]
  <2>1. CountsAny(h, D, w)
    BY <1>3, SetSumAny
  <2> QED
    BY <2>1 DEF CountsAny
<1>7. \A s \in SUBSET D : f[s] \in Int
  BY <1>1, SetSumType
<1>8. \A s \in SUBSET D : g[s] \in Int
  BY <1>2, SetSumType
<1> DEFINE C == {s \in SUBSET D : h[s] = f[s] + g[s]}
<1>9. {} \in C
  BY <1>4, <1>5, <1>6
<1>10. ASSUME NEW s \in SUBSET D, NEW x \in D, x \notin s, s \in C
       PROVE  s \cup {x} \in C
  <2>1. PICK t : t = s \cup {x}
    OBVIOUS
  <2>2. t \in SUBSET D /\ x \in t /\ t \ {x} = s
    BY <1>10, <2>1
  <2>3. f[t] = u[x] + f[s] /\ g[t] = v[x] + g[s] /\ h[t] = w[x] + h[s]
    BY <1>4, <1>5, <1>6, <2>2
  <2>4. h[s] = f[s] + g[s] /\ f[s] \in Int /\ g[s] \in Int /\ u[x] \in Int /\ v[x] \in Int
        /\ w[x] = u[x] + v[x]
    BY <1>7, <1>8, <1>10
  <2>5. h[t] = f[t] + g[t]
    BY <2>3, <2>4
  <2> QED
    BY <2>1, <2>2, <2>5
<1>11. \A s \in SUBSET D : s \in C
  <2> HIDE DEF C
  <2> QED
    BY <1>9, <1>10, AllSubsets
<1> QED
  BY <1>1, <1>2, <1>3, <1>11
\* Summands of 0 change nothing.
LEMMA SumOfZeros ==
  ASSUME NEW D, NEW E, IsFiniteSet(E), D \subseteq E,
         NEW v \in [D -> Int], NEW w \in [E -> Int],
         \A x \in D : w[x] = v[x], \A x \in E : x \notin D => w[x] = 0
  PROVE  SumOf(w) = SumOf(v)
<1>0. IsFiniteSet(D)
  BY FS_Subset
<1>1. PICK f : IsSetSum(f, D, v) /\ SumOf(v) = f[D]
  BY <1>0, SumOfSet
<1>2. PICK g : IsSetSum(g, E, w) /\ SumOf(w) = g[E]
  BY SumOfSet
<1>3. f[D] = g[D]
  BY <1>0, <1>1, <1>2, SetSumsAgree
<1>4. \A s \in SUBSET E : \A x \in s : g[s] = w[x] + g[s \ {x}]
  <2>1. CountsAny(g, E, w)
    BY <1>2, SetSumAny
  <2> QED
    BY <2>1 DEF CountsAny
<1>5. \A s \in SUBSET E : g[s] \in Int
  BY <1>2, SetSumType
<1> DEFINE C == {s \in SUBSET E : g[D \cup s] = g[D]}
<1>6. {} \in C
  <2>1. D \cup {} = D
    OBVIOUS
  <2> QED
    BY <2>1
<1>7. ASSUME NEW s \in SUBSET E, NEW x \in E, x \notin s, s \in C
      PROVE  s \cup {x} \in C
  <2>1. PICK p, q : p = D \cup s /\ q = D \cup (s \cup {x})
    OBVIOUS
  <2>2. p \in SUBSET E /\ q \in SUBSET E /\ g[p] = g[D] /\ g[p] \in Int
    BY <1>5, <1>7, <2>1
  <2>3. CASE x \in D
    <3>1. q = p
      BY <2>1, <2>3
    <3> QED
      BY <2>1, <2>2, <3>1
  <2>4. CASE x \notin D
    <3>1. x \in q /\ q \ {x} = p /\ w[x] = 0
      BY <1>7, <2>1, <2>4
    <3>2. g[q] = 0 + g[p]
      BY <1>4, <2>2, <3>1
    <3>3. g[q] = g[D]
      BY <2>2, <3>2
    <3> QED
      BY <2>1, <3>3
  <2> QED
    BY <2>3, <2>4
<1>8. \A s \in SUBSET E : s \in C
  <2> HIDE DEF C
  <2> QED
    BY <1>6, <1>7, AllSubsets
<1>9. E \in SUBSET E /\ D \cup E = E
  OBVIOUS
<1>10. g[E] = g[D]
  BY <1>8, <1>9
<1> QED
  BY <1>1, <1>2, <1>3, <1>10

-----------------------------------------------------------------------------
(* Sequences end to end.                                                   *)

\* f is what putting n sequences end to end is defined by.
IsFlattening(f, n, seqs) ==
  f = [i \in 1 .. n |-> IF i = 1 THEN seqs[i] ELSE f[i - 1] \o seqs[i]]

LEMMA FlatteningAt ==
  ASSUME NEW n \in Nat, NEW seqs, NEW f, IsFlattening(f, n, seqs), NEW i \in 1 .. n
  PROVE  f[i] = IF i = 1 THEN seqs[i] ELSE f[i - 1] \o seqs[i]
<1>1. PICK h : h = [j \in 1 .. n |-> IF j = 1 THEN seqs[j] ELSE f[j - 1] \o seqs[j]]
  OBVIOUS
<1>2. f = h
  BY <1>1 DEF IsFlattening
<1>3. h[i] = IF i = 1 THEN seqs[i] ELSE f[i - 1] \o seqs[i]
  BY <1>1
<1> QED
  BY <1>2, <1>3

LEMMA FlatteningExists ==
  ASSUME NEW S, NEW n \in Nat, NEW seqs \in [1 .. n -> Seq(S)]
  PROVE  \E f \in [1 .. n -> Seq(S)] : IsFlattening(f, n, seqs)
<1>1. PICK V, base : V = Seq(S) /\ base = <<>>
  OBVIOUS
<1>2. PICK g : g = [k \in 1 .. n |-> [x \in V |-> IF k = 1 THEN seqs[k] ELSE x \o seqs[k]]]
  OBVIOUS
<1>3. /\ base \in V
      /\ \A k \in 1 .. n, x \in V : seqs[k] \in V /\ x \o seqs[k] \in V
  BY <1>1
<1>4. /\ g \in [1 .. n -> [V -> V]]
      /\ \A k \in 1 .. n, x \in V : g[k][x] = IF k = 1 THEN seqs[k] ELSE x \o seqs[k]
  BY <1>2, <1>3
<1>5. PICK iter \in [SUBSET (1 .. n) -> V] : IsFold(iter, n, base, g)
  BY <1>3, <1>4, FoldExists
<1>6. FoldsIn(V, iter, n, base, g)
  BY <1>5 DEF IsFold, FoldsIn
<1>7. PICK run \in [0 .. n -> V] : IsRun(run, n, base, g, iter[1 .. n])
  BY <1>3, <1>4, <1>6, FoldRun
<1>8. PICK f : f = [i \in 1 .. n |-> run[i]]
  OBVIOUS
<1>9. f \in [1 .. n -> Seq(S)]
  BY <1>1, <1>7, <1>8
<1>10. \A i \in 1 .. n : f[i] = IF i = 1 THEN seqs[i] ELSE f[i - 1] \o seqs[i]
  <2> SUFFICES ASSUME NEW i \in 1 .. n
               PROVE  f[i] = IF i = 1 THEN seqs[i] ELSE f[i - 1] \o seqs[i]
    OBVIOUS
  <2>1. i - 1 \in 0 .. n /\ (i # 1 => i - 1 \in 1 .. n)
    OBVIOUS
  <2>2. f[i] = run[i] /\ (i # 1 => f[i - 1] = run[i - 1])
    BY <1>8, <2>1
  <2>3. run[i] = g[i][run[i - 1]] /\ run[i - 1] \in V
    BY <1>7, <2>1 DEF IsRun
  <2> QED
    BY <1>4, <2>2, <2>3
<1>11. IsFlattening(f, n, seqs)
  BY <1>9, <1>10 DEF IsFlattening
<1> QED
  BY <1>9, <1>11

Alike(l, r, s) == \A k \in 1 .. l : r[k] = s[k]

\* Two such functions agree as far as the sequences do.
LEMMA FlatteningsAgree ==
  ASSUME NEW m \in Nat, NEW n \in Nat, NEW l \in Nat, l <= m, l <= n,
         NEW r, NEW s, Alike(l, r, s),
         NEW f, IsFlattening(f, m, r), NEW g, IsFlattening(g, n, s)
  PROVE  Alike(l, f, g)
<1> DEFINE same == {k \in 0 .. l : k = 0 \/ f[k] = g[k]}
<1>1. 0 \in same
  OBVIOUS
<1>2. ASSUME NEW k \in 0 .. l - 1, k \in same PROVE k + 1 \in same
  <2> PICK j : j = k + 1
    OBVIOUS
  <2>1. j \in 1 .. m /\ j \in 1 .. n /\ j \in 1 .. l /\ j - 1 = k /\ (j # 1 => k \in 1 .. l)
    OBVIOUS
  <2>2. j # 1 => f[k] = g[k]
    BY <1>2, <2>1
  <2>3. f[j] = IF j = 1 THEN r[j] ELSE f[j - 1] \o r[j]
    BY <2>1, FlatteningAt
  <2>4. g[j] = IF j = 1 THEN s[j] ELSE g[j - 1] \o s[j]
    BY <2>1, FlatteningAt
  <2>5. f[j] = g[j]
    BY <2>1, <2>2, <2>3, <2>4 DEF Alike
  <2> QED
    BY <2>1, <2>5
<1>3. \A k \in 0 .. l : k \in same
  <2> HIDE DEF same
  <2> QED
    BY <1>1, <1>2, UpTo
<1> QED
  BY <1>3 DEF Alike

LEMMA FlatteningOf ==
  ASSUME NEW S, NEW n \in Nat \ {0}, NEW seqs \in Seq(Seq(S)), Len(seqs) = n
  PROVE  \E f \in [1 .. n -> Seq(S)] : IsFlattening(f, n, seqs) /\ FlattenSeq(seqs) = f[n]
<1>1. PICK e \in [1 .. n -> Seq(S)] : IsFlattening(e, n, seqs)
  <2>1. seqs \in [1 .. n -> Seq(S)]
    OBVIOUS
  <2> QED
    BY <2>1, FlatteningExists
<1> DEFINE Defines(f) == f = [i \in 1 .. Len(seqs) |-> IF i = 1 THEN seqs[i] ELSE f[i - 1] \o seqs[i]]
           f == CHOOSE h : Defines(h)
<1>2. Defines(f)
  <2>1. Defines(e)
    BY <1>1 DEF IsFlattening
  <2> HIDE DEF Defines
  <2> QED
    BY <2>1
<1>3. FlattenSeq(seqs) = f[n]
  BY DEF FlattenSeq
<1> HIDE DEF f
<1>4. IsFlattening(f, n, seqs)
  BY <1>2 DEF IsFlattening
<1>5. Alike(n, f, e)
  <2>1. n \in Nat /\ n <= n /\ Alike(n, seqs, seqs)
    BY DEF Alike
  <2> QED
    BY <1>1, <1>4, <2>1, FlatteningsAgree
<1>6. f \in [1 .. n -> Seq(S)]
  BY <1>4, <1>5 DEF IsFlattening, Alike
<1> QED
  BY <1>3, <1>4, <1>6

LEMMA FlattenNone == FlattenSeq(<<>>) = <<>>
  BY DEF FlattenSeq

LEMMA FlattenAppend ==
  ASSUME NEW S, NEW seqs \in Seq(Seq(S)), NEW s \in Seq(S)
  PROVE  /\ FlattenSeq(seqs) \in Seq(S)
         /\ FlattenSeq(Append(seqs, s)) = FlattenSeq(seqs) \o s
<1>1. PICK n, more : n = Len(seqs) /\ more = Append(seqs, s)
  OBVIOUS
<1>2. /\ n \in Nat /\ n + 1 \in Nat \ {0}
      /\ more \in Seq(Seq(S)) /\ Len(more) = n + 1 /\ more[n + 1] = s
      /\ \A k \in 1 .. n : more[k] = seqs[k]
  BY <1>1
<1>3. PICK g \in [1 .. n + 1 -> Seq(S)] :
        IsFlattening(g, n + 1, more) /\ FlattenSeq(more) = g[n + 1]
  BY <1>2, FlatteningOf
<1>4. g[n + 1] = IF n + 1 = 1 THEN s ELSE g[n] \o s
  <2>1. PICK m : m = n + 1
    OBVIOUS
  <2>2. m \in 1 .. m /\ m - 1 = n /\ more[m] = s
    BY <1>2, <2>1
  <2>3. IsFlattening(g, m, more)
    BY <1>3, <2>1
  <2>4. g[m] = IF m = 1 THEN more[m] ELSE g[m - 1] \o more[m]
    BY <2>2, <2>3 DEF IsFlattening
  <2> QED
    BY <2>1, <2>2, <2>4
<1>5. CASE n = 0
  <2>1. seqs = <<>>
    <3>1. Len(seqs) = 0
      BY <1>1, <1>5
    <3> QED
      BY <3>1, EmptySeq
  <2>2. FlattenSeq(seqs) = <<>> /\ <<>> \in Seq(S) /\ <<>> \o s = s
    BY <2>1, FlattenNone
  <2> QED
    BY <1>1, <1>3, <1>4, <1>5, <2>2
<1>6. CASE n # 0
  <2>1. n \in Nat \ {0} /\ n <= n + 1 /\ n <= n /\ n \in 1 .. n /\ n + 1 # 1
    BY <1>2, <1>6
  <2>2. PICK f \in [1 .. n -> Seq(S)] : IsFlattening(f, n, seqs) /\ FlattenSeq(seqs) = f[n]
    BY <1>1, <2>1, FlatteningOf
  <2>3. Alike(n, seqs, more)
    BY <1>2 DEF Alike
  <2>4. Alike(n, f, g)
    <3>1. PICK m : m = n + 1
      OBVIOUS
    <3>2. m \in Nat /\ n <= m /\ n <= n /\ IsFlattening(g, m, more)
      BY <1>2, <1>3, <2>1, <3>1
    <3> QED
      BY <2>1, <2>2, <2>3, <3>2, FlatteningsAgree
  <2>5. f[n] = g[n] /\ f[n] \in Seq(S)
    BY <2>1, <2>2, <2>4 DEF Alike
  <2> QED
    BY <1>1, <1>3, <1>4, <2>1, <2>2, <2>5
<1> QED
  BY <1>5, <1>6
=============================================================================
