------------------------ MODULE FakeOrderManager_proofs ------------------------
(***************************************************************************)
(* Proofs about CPosition and FakeOrderManager, for any number of          *)
(* instruments, orders and days, any nesting of the calls and queues of    *)
(* any length.                                                             *)
(***************************************************************************)
EXTENDS FakeOrderManager, Folding

-----------------------------------------------------------------------------
(* The sums over a queue.                                                  *)

Qtys(q)   == [k \in 1 .. Len(q) |-> q[k].qty]
Values(q) == [k \in 1 .. Len(q) |-> q[k].price * q[k].qty]

LEMMA QueueNumbers ==
  ASSUME NEW q \in Queues
  PROVE  /\ Len(q) \in Nat /\ DOMAIN q = 1 .. Len(q)
         /\ Qtys(q) \in Seq(Nat) /\ Len(Qtys(q)) = Len(q)
         /\ Values(q) \in Seq(Int) /\ Len(Values(q)) = Len(q)
         /\ \A k \in 1 .. Len(q) : /\ q[k] \in Items /\ q[k].qty \in Nat \ {0} /\ q[k].price \in Int
                                   /\ q[k].price * q[k].qty \in Int
<1>1. PICK n : n = Len(q)
  OBVIOUS
<1>2. n \in Nat /\ DOMAIN q = 1 .. n /\ \A k \in 1 .. n : q[k] \in Items
  BY <1>1 DEF Queues
<1>3. \A k \in 1 .. n : q[k].qty \in Nat \ {0} /\ q[k].price \in Int
  BY <1>2 DEF Items
<1>4. \A k \in 1 .. n : q[k].price * q[k].qty \in Int
  <2> SUFFICES ASSUME NEW k \in 1 .. n PROVE q[k].price * q[k].qty \in Int
    OBVIOUS
  <2>1. PICK a, b : a = q[k].price /\ b = q[k].qty
    OBVIOUS
  <2>2. a \in Int /\ b \in Int
    BY <1>3, <2>1
  <2> QED
    BY <2>1, <2>2
<1>5. PICK u, v : u = Qtys(q) /\ v = Values(q)
  OBVIOUS
<1>6. u \in [1 .. n -> Nat] /\ v \in [1 .. n -> Int]
  BY <1>1, <1>3, <1>4, <1>5 DEF Qtys, Values
<1>7. u \in Seq(Nat) /\ Len(u) = n /\ v \in Seq(Int) /\ Len(v) = n
  BY <1>2, <1>6
<1> QED
  BY <1>1, <1>2, <1>3, <1>4, <1>5, <1>7

\* SumQty and SumValue are the totals of the items' numbers.
LEMMA SumQtyIsTotal ==
  ASSUME NEW q \in Queues
  PROVE  SumQty(q) = Total(Qtys(q))
<1>1. PICK n, w : n = Len(q) /\ w = Qtys(q)
  OBVIOUS
<1>2. /\ n \in Nat /\ DOMAIN q = 1 .. n /\ w \in Seq(Int) /\ Len(w) = n
      /\ w \in [1 .. n -> Int] /\ \A k \in 1 .. n : w[k] = q[k].qty
  BY <1>1, QueueNumbers DEF Qtys
<1> DEFINE Defines(f) == f = [s \in SUBSET DOMAIN q |->
                                IF s = {} THEN 0 ELSE f[s \ {Max(s)}] + q[Max(s)].qty]
           f == CHOOSE g : Defines(g)
<1>3. SumQty(q) = f[1 .. n]
  BY <1>2 DEF SumQty, FoldLeft, MapThenFoldSet
<1>4. ASSUME NEW g
      PROVE  Defines(g) <=> IsSumFold(g, n, w)
  <2>1. \A s \in SUBSET (1 .. n) : s # {} => Max(s) \in 1 .. n
    BY <1>2, LargestOf
  <2>2. \A s \in SUBSET (1 .. n) : s # {} => w[Max(s)] = q[Max(s)].qty
    BY <1>2, <2>1
  <2>3. [s \in SUBSET (1 .. n) |-> IF s = {} THEN 0 ELSE g[s \ {Max(s)}] + q[Max(s)].qty]
          = [s \in SUBSET (1 .. n) |-> IF s = {} THEN 0 ELSE g[s \ {Max(s)}] + w[Max(s)]]
    BY <2>2
  <2> QED
    BY <1>2, <2>3 DEF IsSumFold
<1>5. PICK g : IsSumFold(g, n, w)
  BY <1>2, SumFoldExists
<1>6. Defines(f)
  <2>1. Defines(g)
    BY <1>4, <1>5
  <2> HIDE DEF Defines
  <2> QED
    BY <2>1
<1>7. IsSumFold(f, n, w)
  BY <1>4, <1>6
<1> HIDE DEF f
<1>8. PICK run : IsSum(run, n, w, f[1 .. n])
  BY <1>2, <1>7, SumFoldRun
<1>9. Total(w) = f[1 .. n]
  BY <1>2, <1>8, TotalOf
<1> QED
  BY <1>1, <1>3, <1>9

LEMMA SumValueIsTotal ==
  ASSUME NEW q \in Queues
  PROVE  SumValue(q) = Total(Values(q))
<1>1. PICK n, w : n = Len(q) /\ w = Values(q)
  OBVIOUS
<1>2. /\ n \in Nat /\ DOMAIN q = 1 .. n /\ w \in Seq(Int) /\ Len(w) = n
      /\ w \in [1 .. n -> Int] /\ \A k \in 1 .. n : w[k] = q[k].price * q[k].qty
  BY <1>1, QueueNumbers DEF Values
<1> DEFINE Defines(f) == f = [s \in SUBSET DOMAIN q |->
                                IF s = {} THEN 0
                                ELSE f[s \ {Max(s)}] + q[Max(s)].price * q[Max(s)].qty]
           f == CHOOSE g : Defines(g)
<1>3. SumValue(q) = f[1 .. n]
  BY <1>2 DEF SumValue, FoldLeft, MapThenFoldSet
<1>4. ASSUME NEW g
      PROVE  Defines(g) <=> IsSumFold(g, n, w)
  <2>1. \A s \in SUBSET (1 .. n) : s # {} => Max(s) \in 1 .. n
    BY <1>2, LargestOf
  <2>2. \A s \in SUBSET (1 .. n) : s # {} => w[Max(s)] = q[Max(s)].price * q[Max(s)].qty
    BY <1>2, <2>1
  <2>3. [s \in SUBSET (1 .. n) |->
           IF s = {} THEN 0 ELSE g[s \ {Max(s)}] + q[Max(s)].price * q[Max(s)].qty]
          = [s \in SUBSET (1 .. n) |-> IF s = {} THEN 0 ELSE g[s \ {Max(s)}] + w[Max(s)]]
    BY <2>2
  <2> QED
    BY <1>2, <2>3 DEF IsSumFold
<1>5. PICK g : IsSumFold(g, n, w)
  BY <1>2, SumFoldExists
<1>6. Defines(f)
  <2>1. Defines(g)
    BY <1>4, <1>5
  <2> HIDE DEF Defines
  <2> QED
    BY <2>1
<1>7. IsSumFold(f, n, w)
  BY <1>4, <1>6
<1> HIDE DEF f
<1>8. PICK run : IsSum(run, n, w, f[1 .. n])
  BY <1>2, <1>7, SumFoldRun
<1>9. Total(w) = f[1 .. n]
  BY <1>2, <1>8, TotalOf
<1> QED
  BY <1>1, <1>3, <1>9

\* What the sums of a queue are, of nothing, of one item and of two queues.
LEMMA QueueSums ==
  ASSUME NEW q \in Queues
  PROVE  SumQty(q) \in Nat /\ SumValue(q) \in Int
<1>1. Qtys(q) \in Seq(Nat) /\ Values(q) \in Seq(Int)
  BY QueueNumbers
<1>2. Total(Qtys(q)) \in Nat
  BY <1>1, TotalOfNats
<1>3. Total(Values(q)) \in Int
  BY <1>1, TotalRun
<1> QED
  BY <1>2, <1>3, SumQtyIsTotal, SumValueIsTotal

LEMMA EmptyQueueSums == <<>> \in Queues /\ SumQty(<<>>) = 0 /\ SumValue(<<>>) = 0
<1>1. PICK q : q = <<>>
  OBVIOUS
<1>2. q \in Queues /\ Len(q) = 0
  BY <1>1 DEF Queues
<1>3. Qtys(q) = <<>> /\ Values(q) = <<>>
  BY <1>2 DEF Qtys, Values
<1>4. SumQty(q) = 0 /\ SumValue(q) = 0
  BY <1>2, <1>3, TotalEmpty, SumQtyIsTotal, SumValueIsTotal
<1> QED
  BY <1>1, <1>2, <1>4

\* What is worked out item by item, by a function of the items.
IsMapped(u, p, f) == Len(u) = Len(p) /\ \A k \in 1 .. Len(p) : u[k] = f[p[k]]

IsConcat(r, p, q, a, b) ==
  /\ Len(r) = a + b
  /\ \A k \in 1 .. a : r[k] = p[k]
  /\ \A k \in a + 1 .. a + b : r[k] = q[k - a]

LEMMA ConcatElements ==
  ASSUME NEW S, NEW p \in Seq(S), NEW q \in Seq(S), NEW a \in Nat, NEW b \in Nat,
         Len(p) = a, Len(q) = b
  PROVE  p \o q \in Seq(S) /\ IsConcat(p \o q, p, q, a, b)
<1>1. Len(p \o q) = a + b
  OBVIOUS
<1>2. \A k \in 1 .. a : (p \o q)[k] = p[k]
  OBVIOUS
<1>3. \A k \in a + 1 .. a + b : (p \o q)[k] = q[k - a]
  OBVIOUS
<1> QED
  BY <1>1, <1>2, <1>3 DEF IsConcat

LEMMA MappedConcat ==
  ASSUME NEW S, NEW T, NEW p \in Seq(S), NEW q \in Seq(S),
         NEW u \in Seq(T), NEW v \in Seq(T), NEW w \in Seq(T), NEW f,
         IsMapped(u, p, f), IsMapped(v, q, f), IsMapped(w, p \o q, f)
  PROVE  w = u \o v
<1>1. PICK a, b, r, x : a = Len(p) /\ b = Len(q) /\ r = p \o q /\ x = u \o v
  OBVIOUS
<1>2. a \in Nat /\ b \in Nat
  BY <1>1
<1>3. /\ Len(u) = a /\ \A k \in 1 .. a : u[k] = f[p[k]]
      /\ Len(v) = b /\ \A k \in 1 .. b : v[k] = f[q[k]]
  BY <1>1 DEF IsMapped
<1>4. Len(p) = a /\ Len(q) = b /\ Len(u) = a /\ Len(v) = b
  BY <1>1, <1>3
<1>5. IsConcat(r, p, q, a, b) /\ IsConcat(x, u, v, a, b)
  BY <1>1, <1>2, <1>4, ConcatElements
<1>6. Len(w) = a + b /\ \A k \in 1 .. a + b : w[k] = f[r[k]]
  BY <1>1, <1>5 DEF IsMapped, IsConcat
<1>7. ASSUME NEW k \in 1 .. a + b
      PROVE  w[k] = x[k]
  <2>1. CASE k \in 1 .. a
    <3>1. w[k] = f[p[k]] /\ x[k] = f[p[k]]
      BY <1>3, <1>5, <1>6, <2>1 DEF IsConcat
    <3> QED
      BY <3>1
  <2>2. CASE k \in a + 1 .. a + b
    <3>1. PICK m : m = k - a
      OBVIOUS
    <3>2. m \in 1 .. b
      BY <1>2, <2>2, <3>1
    <3>3. r[k] = q[m] /\ x[k] = v[m] /\ w[k] = f[r[k]] /\ v[m] = f[q[m]]
      BY <1>3, <1>5, <1>6, <2>2, <3>1, <3>2 DEF IsConcat
    <3> QED
      BY <3>3
  <2> QED
    BY <1>2, <2>1, <2>2
<1>8. w = x
  <2>1. x \in Seq(T) /\ Len(x) = a + b
    BY <1>1, <1>5 DEF IsConcat
  <2> QED
    BY <1>6, <1>7, <2>1, SeqEqual
<1> QED
  BY <1>1, <1>8

LEMMA ConcatQueueSums ==
  ASSUME NEW p \in Queues, NEW q \in Queues
  PROVE  /\ p \o q \in Queues
         /\ SumQty(p \o q) = SumQty(p) + SumQty(q)
         /\ SumValue(p \o q) = SumValue(p) + SumValue(q)
<1>1. PICK r, f, g : /\ r = p \o q
                     /\ f = [x \in Items |-> x.qty]
                     /\ g = [x \in Items |-> x.price * x.qty]
  OBVIOUS
<1>2. p \in Seq(Items) /\ q \in Seq(Items) /\ r \in Queues
  BY <1>1 DEF Queues
<1>3. ASSUME NEW s \in Queues
      PROVE  IsMapped(Qtys(s), s, f) /\ IsMapped(Values(s), s, g)
  <2>1. PICK n, u, v : n = Len(s) /\ u = Qtys(s) /\ v = Values(s)
    OBVIOUS
  <2>2. Len(u) = n /\ Len(v) = n /\ \A k \in 1 .. n : s[k] \in Items
    BY <2>1, QueueNumbers
  <2>3. \A k \in 1 .. n : u[k] = f[s[k]] /\ v[k] = g[s[k]]
    BY <1>1, <2>1, <2>2 DEF Qtys, Values
  <2> QED
    BY <2>1, <2>2, <2>3 DEF IsMapped
<1>4. /\ Qtys(p) \in Seq(Int) /\ Qtys(q) \in Seq(Int) /\ Qtys(r) \in Seq(Int)
      /\ Values(p) \in Seq(Int) /\ Values(q) \in Seq(Int) /\ Values(r) \in Seq(Int)
  BY <1>2, QueueNumbers
<1>5. IsMapped(Qtys(p), p, f) /\ IsMapped(Qtys(q), q, f) /\ IsMapped(Qtys(r), p \o q, f)
  BY <1>1, <1>2, <1>3
<1>6. Qtys(r) = Qtys(p) \o Qtys(q)
  BY <1>2, <1>4, <1>5, MappedConcat
<1>7. IsMapped(Values(p), p, g) /\ IsMapped(Values(q), q, g) /\ IsMapped(Values(r), p \o q, g)
  BY <1>1, <1>2, <1>3
<1>8. Values(r) = Values(p) \o Values(q)
  <2>1. PICK u, v, w : u = Values(p) /\ v = Values(q) /\ w = Values(r)
    OBVIOUS
  <2>2. /\ u \in Seq(Int) /\ v \in Seq(Int) /\ w \in Seq(Int)
        /\ IsMapped(u, p, g) /\ IsMapped(v, q, g) /\ IsMapped(w, p \o q, g)
    BY <1>4, <1>7, <2>1
  <2>3. w = u \o v
    BY <1>2, <2>2, MappedConcat
  <2> QED
    BY <2>1, <2>3
<1>9. Total(Qtys(r)) = Total(Qtys(p)) + Total(Qtys(q))
  BY <1>4, <1>6, TotalConcat
<1>10. Total(Values(r)) = Total(Values(p)) + Total(Values(q))
  BY <1>4, <1>8, TotalConcat
<1> QED
  BY <1>1, <1>2, <1>9, <1>10, SumQtyIsTotal, SumValueIsTotal

LEMMA OneItemSums ==
  ASSUME NEW x \in Items
  PROVE  <<x>> \in Queues /\ SumQty(<<x>>) = x.qty /\ SumValue(<<x>>) = x.price * x.qty
<1>1. PICK q, a, b : q = <<x>> /\ a = x.qty /\ b = x.price
  OBVIOUS
<1>2. q \in Queues /\ Len(q) = 1 /\ q[1] = x /\ a \in Int /\ b \in Int
  BY <1>1 DEF Queues, Items
<1>3. b * a \in Int
  BY <1>2
<1>4. Qtys(q) = <<a>> /\ Values(q) = <<b * a>>
  BY <1>1, <1>2 DEF Qtys, Values
<1>5. SumQty(q) = a /\ SumValue(q) = b * a
  BY <1>2, <1>3, <1>4, TotalOne, SumQtyIsTotal, SumValueIsTotal
<1> QED
  BY <1>1, <1>2, <1>5

LEMMA AppendQueueSums ==
  ASSUME NEW q \in Queues, NEW x \in Items
  PROVE  /\ Append(q, x) \in Queues
         /\ SumQty(Append(q, x)) = SumQty(q) + x.qty
         /\ SumValue(Append(q, x)) = SumValue(q) + x.price * x.qty
<1>1. PICK y : y = <<x>>
  OBVIOUS
<1>2. y \in Queues /\ SumQty(y) = x.qty /\ SumValue(y) = x.price * x.qty
  BY <1>1, OneItemSums
<1>3. Append(q, x) = q \o y
  BY <1>1 DEF Queues
<1> QED
  BY <1>2, <1>3, ConcatQueueSums

-----------------------------------------------------------------------------
(* What closing a trade takes from a queue.                                *)

Matches == [left : Nat, kept : Queues, realized : Int]

\* The trades that are booked.
TradeInfos == [open : BOOLEAN, long : BOOLEAN, today : BOOLEAN, price : Int, qty : Nat \ {0}]

MatchStart(trade) == [left |-> trade.qty, kept |-> <<>>, realized |-> 0]

MatchOne(trade, item, acc) ==
  IF acc.left = 0
    THEN [acc EXCEPT !.kept = Append(@, item)]
    ELSE [left     |-> acc.left - Lesser(item.qty, acc.left),
          kept     |-> acc.kept \o Remainder(item.price, item.qty - Lesser(item.qty, acc.left)),
          realized |-> acc.realized + Lesser(item.qty, acc.left) * CalcDiff(trade, item)]

MatchSteps(trade, q) == [k \in 1 .. Len(q) |-> [acc \in Matches |-> MatchOne(trade, q[k], acc)]]

LEMMA MatchOneType ==
  ASSUME NEW trade \in TradeInfos, NEW item \in Items, NEW acc \in Matches
  PROVE  MatchOne(trade, item, acc) \in Matches
<1>1. PICK a, l, r, d, x, y, c : /\ a = acc.left /\ l = acc.kept /\ r = acc.realized
                                 /\ d = CalcDiff(trade, item) /\ x = item.qty /\ y = item.price
                                 /\ c = Lesser(x, a)
  OBVIOUS
<1>2. /\ a \in Nat /\ l \in Queues /\ r \in Int /\ x \in Nat /\ x # 0 /\ y \in Int
      /\ acc = [left |-> a, kept |-> l, realized |-> r]
  BY <1>1 DEF Matches, Items
<1>3. d \in Int
  BY <1>1 DEF CalcDiff, Items, TradeInfos
<1>4. c \in Nat /\ a - c \in Nat /\ x - c \in Nat
  BY <1>1, <1>2 DEF Lesser
<1>5. CASE a = 0
  <2>1. PICK t : t = Append(l, item)
    OBVIOUS
  <2>2. MatchOne(trade, item, acc) = [left |-> a, kept |-> t, realized |-> r]
    BY <1>1, <1>2, <1>5, <2>1 DEF MatchOne
  <2>3. t \in Queues
    BY <1>2, <2>1, AppendQueueSums
  <2> QED
    BY <1>2, <2>2, <2>3 DEF Matches
<1>6. CASE a # 0
  <2>1. PICK t : t = Remainder(y, x - c)
    OBVIOUS
  <2>2. MatchOne(trade, item, acc) = [left |-> a - c, kept |-> l \o t, realized |-> r + c * d]
    BY <1>1, <1>2, <1>6, <2>1 DEF MatchOne
  <2>3. t \in Queues
    <3>1. CASE x - c = 0
      BY <2>1, <3>1, EmptyQueueSums DEF Remainder
    <3>2. CASE x - c # 0
      <4>1. Item(y, x - c) \in Items
        BY <1>2, <1>4, <3>2 DEF Item, Items
      <4>2. t = <<Item(y, x - c)>>
        BY <2>1, <3>2 DEF Remainder
      <4> QED
        BY <4>1, <4>2, OneItemSums
    <3> QED
      BY <3>1, <3>2
  <2>4. l \o t \in Queues
    BY <1>2, <2>3, ConcatQueueSums
  <2>5. r + c * d \in Int
    <3>1. c * d \in Int
      BY <1>3, <1>4
    <3> QED
      BY <1>2, <3>1
  <2>6. PICK u, v, w : u = a - c /\ v = l \o t /\ w = r + c * d
    OBVIOUS
  <2>7. u \in Nat /\ v \in Queues /\ w \in Int
    BY <1>4, <2>4, <2>5, <2>6
  <2>8. MatchOne(trade, item, acc) = [left |-> u, kept |-> v, realized |-> w]
    BY <2>2, <2>6
  <2> QED
    BY <2>7, <2>8 DEF Matches
<1> QED
  BY <1>5, <1>6

\* The match visits the queue from its oldest item to its newest.
LEMMA MatchRun ==
  ASSUME NEW trade \in TradeInfos, NEW q \in Queues
  PROVE  \E run \in [0 .. Len(q) -> Matches] :
           IsRun(run, Len(q), MatchStart(trade), MatchSteps(trade, q), tradeMatchPos(trade, q))
<1>1. PICK n, base, g : n = Len(q) /\ base = MatchStart(trade) /\ g = MatchSteps(trade, q)
  OBVIOUS
<1>2. n \in Nat /\ DOMAIN q = 1 .. n /\ \A k \in 1 .. n : q[k] \in Items
  BY <1>1, QueueNumbers
<1>3. base \in Matches
  BY <1>1, EmptyQueueSums DEF MatchStart, Matches, TradeInfos
<1>4. /\ g \in [1 .. n -> [Matches -> Matches]]
      /\ \A k \in 1 .. n : \A acc \in Matches : g[k][acc] = MatchOne(trade, q[k], acc)
  BY <1>1, <1>2, MatchOneType DEF MatchSteps
<1> DEFINE Defines(f) == f = [s \in SUBSET DOMAIN q |->
                                IF s = {} THEN base ELSE MatchOne(trade, q[Max(s)], f[s \ {Max(s)}])]
           f == CHOOSE h : Defines(h)
<1>5. tradeMatchPos(trade, q) = f[1 .. n]
  BY <1>1, <1>2 DEF tradeMatchPos, FoldLeft, MapThenFoldSet, MatchOne, MatchStart
<1>6. \A s \in SUBSET (1 .. n) : s # {} => Max(s) \in 1 .. n /\ s \ {Max(s)} \in SUBSET (1 .. n)
  BY <1>2, LargestOf
<1>7. Defines(f)
  <2>1. PICK h \in [SUBSET (1 .. n) -> Matches] : IsFold(h, n, base, g)
    BY <1>2, <1>3, <1>4, FoldExists
  <2>2. \A s \in SUBSET (1 .. n) :
          h[s] = IF s = {} THEN base ELSE MatchOne(trade, q[Max(s)], h[s \ {Max(s)}])
    <3> SUFFICES ASSUME NEW s \in SUBSET (1 .. n)
                 PROVE  h[s] = IF s = {} THEN base ELSE MatchOne(trade, q[Max(s)], h[s \ {Max(s)}])
      OBVIOUS
    <3>1. h[s] = IF s = {} THEN base ELSE g[Max(s)][h[s \ {Max(s)}]]
      BY <2>1 DEF IsFold
    <3>2. s # {} => h[s \ {Max(s)}] \in Matches /\ Max(s) \in 1 .. n
      BY <1>6, <2>1
    <3> QED
      BY <1>4, <3>1, <3>2
  <2>3. Defines(h)
    BY <1>2, <2>1, <2>2
  <2> HIDE DEF Defines
  <2> QED
    BY <2>3
<1>8. FoldsIn(Matches, f, n, base, g)
  <2> HIDE DEF f
  <2>1. \A s \in SUBSET (1 .. n) :
          f[s] = IF s = {} THEN base ELSE MatchOne(trade, q[Max(s)], f[s \ {Max(s)}])
    BY <1>2, <1>7
  <2>2. f[{}] = base
    <3>1. {} \in SUBSET (1 .. n)
      OBVIOUS
    <3> QED
      BY <2>1, <3>1
  <2>3. ASSUME NEW s \in SUBSET (1 .. n), s # {}, f[s \ {Max(s)}] \in Matches
        PROVE  f[s] = g[Max(s)][f[s \ {Max(s)}]]
    BY <1>4, <1>6, <2>1, <2>3
  <2> QED
    BY <2>2, <2>3 DEF FoldsIn
<1> HIDE DEF f
<1>9. \E run \in [0 .. n -> Matches] : IsRun(run, n, base, g, f[1 .. n])
  BY <1>2, <1>3, <1>4, <1>8, FoldRun
<1> QED
  BY <1>1, <1>5, <1>9

\* Where a match stands after items of this quantity and value: what the trade has
\* taken left the queue, at a gain or a loss against its price, and nothing stays
\* of those items while some of the trade is left.
MatchedSoFar(trade, acc, qtys, value) ==
  /\ acc.left <= trade.qty
  /\ acc.left # 0 => acc.kept = <<>>
  /\ SumQty(acc.kept) = qtys - (trade.qty - acc.left)
  /\ acc.realized = IF trade.long
                      THEN (value - SumValue(acc.kept)) - trade.price * (trade.qty - acc.left)
                      ELSE trade.price * (trade.qty - acc.left) - (value - SumValue(acc.kept))

LEMMA TimesDifference ==
  ASSUME NEW a \in Int, NEW b \in Int, NEW c \in Int
  PROVE  /\ a * b \in Int /\ a * c \in Int /\ a * (b - c) = a * b - a * c
         /\ a * (b + c) = a * b + a * c /\ a * b = b * a
OBVIOUS

LEMMA MatchedOneMore ==
  ASSUME NEW trade \in TradeInfos, NEW item \in Items, NEW acc \in Matches,
         NEW qtys \in Int, NEW value \in Int, MatchedSoFar(trade, acc, qtys, value)
  PROVE  MatchedSoFar(trade, MatchOne(trade, item, acc),
                      qtys + item.qty, value + item.price * item.qty)
<1>1. PICK a, l, r, x, y, d, P, Q, next :
        /\ a = acc.left /\ l = acc.kept /\ r = acc.realized /\ x = item.qty /\ y = item.price
        /\ d = CalcDiff(trade, item) /\ P = trade.price /\ Q = trade.qty
        /\ next = MatchOne(trade, item, acc)
  OBVIOUS
<1>2. /\ a \in Nat /\ l \in Queues /\ r \in Int /\ x \in Nat /\ x # 0 /\ y \in Int
      /\ P \in Int /\ Q \in Nat /\ item = Item(y, x)
      /\ acc = [left |-> a, kept |-> l, realized |-> r]
  BY <1>1 DEF Matches, Items, TradeInfos, Item
<1>3. PICK K, S : K = SumQty(l) /\ S = SumValue(l)
  OBVIOUS
<1>4. K \in Int /\ S \in Int
  BY <1>2, <1>3, QueueSums
<1>5. /\ a <= Q /\ (a # 0 => l = <<>>) /\ K = qtys - (Q - a)
      /\ r = IF trade.long THEN (value - S) - P * (Q - a) ELSE P * (Q - a) - (value - S)
  BY <1>1, <1>3 DEF MatchedSoFar
<1>6. d = IF trade.long THEN y - P ELSE P - y
  BY <1>1 DEF CalcDiff
<1>7. CASE a = 0
  <2>1. PICK t : t = Append(l, item)
    OBVIOUS
  <2>2. next = [left |-> a, kept |-> t, realized |-> r]
    BY <1>1, <1>2, <1>7, <2>1 DEF MatchOne
  <2>3. SumQty(t) = K + x /\ SumValue(t) = S + y * x
    BY <1>1, <1>2, <1>3, <2>1, AppendQueueSums
  <2>4. y * x \in Int /\ P * (Q - a) \in Int
    BY <1>2
  <2>5. K + x = (qtys + x) - (Q - a)
    BY <1>2, <1>4, <1>5
  <2>6. r = IF trade.long THEN ((value + y * x) - (S + y * x)) - P * (Q - a)
                          ELSE P * (Q - a) - ((value + y * x) - (S + y * x))
    BY <1>2, <1>4, <1>5, <2>4
  <2>7. MatchedSoFar(trade, next, qtys + x, value + y * x)
    BY <1>1, <1>5, <1>7, <2>2, <2>3, <2>5, <2>6 DEF MatchedSoFar
  <2> QED
    BY <1>1, <2>7
<1>8. CASE a # 0 /\ x <= a
  <2>1. next = [left |-> a - x, kept |-> l, realized |-> r + x * d]
    <3>1. Lesser(x, a) = x /\ x - x = 0
      BY <1>2, <1>8 DEF Lesser
    <3>2. next = [left |-> a - x, kept |-> l \o <<>>, realized |-> r + x * d]
      BY <1>1, <1>2, <1>8, <3>1 DEF MatchOne, Remainder
    <3>3. l \o <<>> = l
      BY <1>5, <1>8
    <3> QED
      BY <3>2, <3>3
  <2>2. /\ P * (Q - a) \in Int /\ P * x \in Int /\ y * x \in Int
        /\ P * (Q - (a - x)) = P * (Q - a) + P * x
        /\ x * (y - P) = y * x - P * x /\ x * (P - y) = P * x - y * x
    BY <1>2, TimesDifference
  <2>3. r + x * d = IF trade.long THEN ((value + y * x) - S) - P * (Q - (a - x))
                                  ELSE P * (Q - (a - x)) - ((value + y * x) - S)
    BY <1>2, <1>4, <1>5, <1>6, <2>2
  <2>4. a - x <= Q /\ K = (qtys + x) - (Q - (a - x)) /\ l = <<>>
    BY <1>2, <1>4, <1>5, <1>8
  <2>5. MatchedSoFar(trade, next, qtys + x, value + y * x)
    BY <1>1, <1>3, <2>1, <2>3, <2>4 DEF MatchedSoFar
  <2> QED
    BY <1>1, <2>5
<1>9. CASE a # 0 /\ ~(x <= a)
  <2>1. PICK t : t = <<Item(y, x - a)>>
    OBVIOUS
  <2>2. Item(y, x - a) \in Items
    BY <1>2, <1>9 DEF Item, Items
  <2>3. t \in Queues /\ SumQty(t) = x - a /\ SumValue(t) = y * (x - a)
    BY <2>1, <2>2, OneItemSums DEF Item
  <2>4. next = [left |-> 0, kept |-> t, realized |-> r + a * d]
    <3>1. Lesser(x, a) = a /\ x - a # 0 /\ a - a = 0
      BY <1>2, <1>9 DEF Lesser
    <3>2. next = [left |-> 0, kept |-> l \o t, realized |-> r + a * d]
      BY <1>1, <1>2, <1>9, <2>1, <3>1 DEF MatchOne, Remainder
    <3>3. l \o t = t
      BY <1>5, <1>9, <2>3 DEF Queues
    <3> QED
      BY <3>2, <3>3
  <2>5. /\ P * (Q - a) \in Int /\ P * a \in Int /\ y * x \in Int /\ y * a \in Int
        /\ P * (Q - a) = P * Q - P * a /\ P * Q \in Int /\ P * (Q - 0) = P * Q
        /\ y * (x - a) = y * x - y * a
        /\ a * (y - P) = y * a - P * a /\ a * (P - y) = P * a - y * a
    BY <1>2, TimesDifference
  <2>6. S = 0 /\ K = 0
    BY <1>3, <1>5, <1>9, EmptyQueueSums
  <2>7. r + a * d = IF trade.long THEN ((value + y * x) - y * (x - a)) - P * (Q - 0)
                                  ELSE P * (Q - 0) - ((value + y * x) - y * (x - a))
    BY <1>2, <1>5, <1>6, <2>5, <2>6
  <2>8. x - a = (qtys + x) - (Q - 0) /\ 0 <= Q
    BY <1>2, <1>5, <2>6
  <2>9. MatchedSoFar(trade, next, qtys + x, value + y * x)
    BY <1>1, <2>3, <2>4, <2>7, <2>8 DEF MatchedSoFar
  <2> QED
    BY <1>1, <2>9
<1> QED
  BY <1>7, <1>8, <1>9

\* The match of a whole queue.
LEMMA MatchSpec ==
  ASSUME NEW trade \in TradeInfos, NEW q \in Queues
  PROVE  /\ tradeMatchPos(trade, q) \in Matches
         /\ MatchedSoFar(trade, tradeMatchPos(trade, q), SumQty(q), SumValue(q))
<1>1. PICK n, v, w, last : /\ n = Len(q) /\ v = Qtys(q) /\ w = Values(q)
                           /\ last = tradeMatchPos(trade, q)
  OBVIOUS
<1>2. /\ n \in Nat /\ v \in Seq(Int) /\ w \in Seq(Int) /\ Len(v) = n /\ Len(w) = n
      /\ \A k \in 1 .. n : /\ q[k] \in Items /\ v[k] = q[k].qty /\ w[k] = q[k].price * q[k].qty
                           /\ q[k].qty \in Int /\ q[k].price * q[k].qty \in Int
  BY <1>1, QueueNumbers DEF Qtys, Values
<1>3. PICK run \in [0 .. n -> Matches] : IsRun(run, n, MatchStart(trade), MatchSteps(trade, q), last)
  BY <1>1, MatchRun
<1>4. PICK a \in [0 .. n -> Int] : IsSum(a, n, v, SumQty(q))
  BY <1>1, <1>2, TotalRun, SumQtyIsTotal
<1>5. PICK b \in [0 .. n -> Int] : IsSum(b, n, w, SumValue(q))
  BY <1>1, <1>2, TotalRun, SumValueIsTotal
<1> DEFINE ok == {k \in 0 .. n : MatchedSoFar(trade, run[k], a[k], b[k])}
<1>6. 0 \in ok
  <2>1. 0 \in 0 .. n /\ a[0] = 0 /\ b[0] = 0 /\ run[0] = MatchStart(trade)
    BY <1>2, <1>3, <1>4, <1>5 DEF IsRun, IsSum
  <2>2. trade.qty \in Nat /\ trade.price \in Int /\ trade.price * (trade.qty - trade.qty) = 0
    BY DEF TradeInfos
  <2>3. MatchedSoFar(trade, MatchStart(trade), 0, 0)
    BY <2>2, EmptyQueueSums DEF MatchedSoFar, MatchStart
  <2> QED
    BY <2>1, <2>3
<1>7. ASSUME NEW m \in 0 .. n - 1, m \in ok
      PROVE  m + 1 \in ok
  <2>1. PICK k : k = m + 1
    OBVIOUS
  <2>2. k \in 1 .. n /\ k \in 0 .. n /\ m \in 0 .. n /\ k - 1 = m
    BY <1>2, <2>1
  <2>3. a[k] = a[m] + q[k].qty /\ b[k] = b[m] + q[k].price * q[k].qty
    BY <1>2, <1>4, <1>5, <2>2 DEF IsSum
  <2>4. run[k] = MatchOne(trade, q[k], run[m])
    <3>1. run[k] = MatchSteps(trade, q)[k][run[m]]
      BY <1>3, <2>2 DEF IsRun
    <3>2. run[m] \in Matches
      BY <1>3, <2>2
    <3> QED
      BY <1>1, <2>2, <3>1, <3>2 DEF MatchSteps
  <2>5. /\ a[m] \in Int /\ b[m] \in Int /\ run[m] \in Matches /\ q[k] \in Items
        /\ MatchedSoFar(trade, run[m], a[m], b[m])
    BY <1>2, <1>3, <1>4, <1>5, <1>7, <2>2
  <2>6. MatchedSoFar(trade, run[k], a[k], b[k])
    BY <2>3, <2>4, <2>5, MatchedOneMore
  <2> QED
    BY <2>1, <2>2, <2>6
<1>8. n \in ok
  <2> HIDE DEF ok
  <2>1. \A m \in 0 .. n : m \in ok
    BY <1>2, <1>6, <1>7, UpTo
  <2> QED
    BY <1>2, <2>1
<1>9. run[n] = last /\ a[n] = SumQty(q) /\ b[n] = SumValue(q) /\ run[n] \in Matches
  BY <1>2, <1>3, <1>4, <1>5 DEF IsRun, IsSum
<1> QED
  BY <1>1, <1>8, <1>9

-----------------------------------------------------------------------------
(* A position, and a trade added to it.                                    *)

LEMMA PositionParts ==
  ASSUME NEW pos
  PROVE  pos \in CPositions <=>
           /\ pos = [LongToday |-> pos.LongToday, LongYst |-> pos.LongYst,
                     ShortToday |-> pos.ShortToday, ShortYst |-> pos.ShortYst,
                     lastPrice |-> pos.lastPrice, realizedPnL |-> pos.realizedPnL,
                     tradeCount |-> pos.tradeCount]
           /\ pos.LongToday \in Queues /\ pos.LongYst \in Queues
           /\ pos.ShortToday \in Queues /\ pos.ShortYst \in Queues
           /\ pos.lastPrice \in Int /\ pos.realizedPnL \in Int /\ pos.tradeCount \in Int
BY DEF CPositions

LEMMA QueueOfType ==
  ASSUME NEW pos \in CPositions, NEW type \in PositionTypes
  PROVE  pos[type] \in Queues
BY PositionParts DEF PositionTypes

LEMMA TradeQueues ==
  ASSUME NEW trade \in TradeInfos
  PROVE  /\ OpenQueue(trade) \in PositionTypes /\ CloseQueue(trade) \in PositionTypes
         /\ OpenQueue(trade) # CloseQueue(trade)
BY DEF OpenQueue, CloseQueue, PositionTypes, TradeInfos

\* new is pos with one of its queues and its realized P&L replaced.
IsReplaced(new, pos, type, q, r) ==
  /\ new[type] = q /\ new.realizedPnL = r /\ new.lastPrice = pos.lastPrice
  /\ \A other \in PositionTypes \ {type} : new[other] = pos[other]

LEMMA OneQueueReplaced ==
  ASSUME NEW pos \in CPositions, NEW type \in PositionTypes, NEW q \in Queues,
         NEW r \in Int, NEW t \in Int, NEW new,
         new = [pos EXCEPT ![type] = q, !.realizedPnL = r, !.tradeCount = t]
  PROVE  new \in CPositions /\ IsReplaced(new, pos, type, q, r)
<1>1. CASE type = "LongToday"
  BY <1>1, PositionParts DEF PositionTypes, CPositions, IsReplaced
<1>2. CASE type = "LongYst"
  BY <1>2, PositionParts DEF PositionTypes, CPositions, IsReplaced
<1>3. CASE type = "ShortToday"
  BY <1>3, PositionParts DEF PositionTypes, CPositions, IsReplaced
<1>4. CASE type = "ShortYst"
  BY <1>4, PositionParts DEF PositionTypes, CPositions, IsReplaced
<1> QED
  BY <1>1, <1>2, <1>3, <1>4 DEF PositionTypes

LEMMA OpenSpec ==
  ASSUME NEW pos \in CPositions, NEW trade \in TradeInfos, trade.open, NEW mult \in Int
  PROVE  /\ addTrade(pos, trade, mult) \in CPositions
         /\ IsReplaced(addTrade(pos, trade, mult), pos, OpenQueue(trade),
                       Append(pos[OpenQueue(trade)], Item(trade.price, trade.qty)),
                       pos.realizedPnL)
<1>1. PICK type, item, q, new : /\ type = OpenQueue(trade)
                                /\ item = Item(trade.price, trade.qty)
                                /\ q = Append(pos[type], item)
                                /\ new = addTrade(pos, trade, mult)
  OBVIOUS
<1>2. type \in PositionTypes
  BY <1>1, TradeQueues
<1>3. q \in Queues
  <2>1. pos[type] \in Queues
    BY <1>2, QueueOfType
  <2>2. item \in Items
    BY <1>1 DEF Item, Items, TradeInfos
  <2> QED
    BY <1>1, <2>1, <2>2, AppendQueueSums
<1>4. pos.realizedPnL \in Int /\ pos.tradeCount + trade.qty \in Int
  BY DEF CPositions, TradeInfos
<1>5. new = [pos EXCEPT ![type] = q, !.realizedPnL = pos.realizedPnL,
                        !.tradeCount = pos.tradeCount + trade.qty]
  <2>1. new = [pos EXCEPT ![type] = Append(@, item), !.tradeCount = @ + trade.qty]
    BY <1>1 DEF addTrade
  <2> QED
    BY <1>1, <1>2, <2>1, PositionParts DEF PositionTypes, CPositions
<1> QED
  BY <1>1, <1>2, <1>3, <1>4, <1>5, OneQueueReplaced

LEMMA CloseSpec ==
  ASSUME NEW pos \in CPositions, NEW trade \in TradeInfos, ~trade.open, NEW mult \in Int
  PROVE  /\ addTrade(pos, trade, mult) \in CPositions
         /\ IsReplaced(addTrade(pos, trade, mult), pos, CloseQueue(trade),
                       tradeMatchPos(trade, pos[CloseQueue(trade)]).kept,
                       pos.realizedPnL
                         + mult * tradeMatchPos(trade, pos[CloseQueue(trade)]).realized)
<1>1. PICK type, match, new, r : /\ type = CloseQueue(trade)
                                 /\ match = tradeMatchPos(trade, pos[type])
                                 /\ new = addTrade(pos, trade, mult)
                                 /\ r = pos.realizedPnL + mult * match.realized
  OBVIOUS
<1>2. type \in PositionTypes
  BY <1>1, TradeQueues
<1>3. match \in Matches
  BY <1>1, <1>2, QueueOfType, MatchSpec
<1>4. match.kept \in Queues /\ match.realized \in Int /\ pos.realizedPnL \in Int
      /\ pos.tradeCount \in Int
  BY <1>3 DEF Matches, CPositions
<1>5. r \in Int
  BY <1>1, <1>4
<1>6. new = [pos EXCEPT ![type] = match.kept, !.realizedPnL = r, !.tradeCount = pos.tradeCount]
  <2>1. new = [pos EXCEPT ![type] = match.kept, !.realizedPnL = @ + mult * match.realized]
    BY <1>1 DEF addTrade
  <2> QED
    BY <1>1, <1>2, <2>1, PositionParts DEF PositionTypes, CPositions
<1> QED
  BY <1>1, <1>2, <1>4, <1>5, <1>6, OneQueueReplaced

\* The book of a position: what it realized and what its open items cost, and what
\* is open.
Book(pos, mult) ==
  pos.realizedPnL
  + mult * (  SumValue(pos.ShortToday \o pos.ShortYst)
            - SumValue(pos.LongToday \o pos.LongYst))

Net(pos) == SumQty(pos.LongToday \o pos.LongYst) - SumQty(pos.ShortToday \o pos.ShortYst)

LongQueues  == {"LongToday", "LongYst"}
ShortQueues == {"ShortToday", "ShortYst"}

LEMMA BookParts ==
  ASSUME NEW pos \in CPositions, NEW mult \in Int
  PROVE  /\ \A type \in PositionTypes : SumQty(pos[type]) \in Nat /\ SumValue(pos[type]) \in Int
         /\ Book(pos, mult) = pos.realizedPnL
              + mult * (  (SumValue(pos["ShortToday"]) + SumValue(pos["ShortYst"]))
                        - (SumValue(pos["LongToday"]) + SumValue(pos["LongYst"])))
         /\ Net(pos) = (SumQty(pos["LongToday"]) + SumQty(pos["LongYst"]))
                       - (SumQty(pos["ShortToday"]) + SumQty(pos["ShortYst"]))
         /\ Book(pos, mult) \in Int /\ Net(pos) \in Int /\ pos.realizedPnL \in Int
<1>1. \A type \in PositionTypes : SumQty(pos[type]) \in Nat /\ SumValue(pos[type]) \in Int
  BY QueueOfType, QueueSums
<1>2. /\ pos.LongToday \in Queues /\ pos.LongYst \in Queues
      /\ pos.ShortToday \in Queues /\ pos.ShortYst \in Queues /\ pos.realizedPnL \in Int
  BY DEF CPositions
<1>3. Book(pos, mult) = pos.realizedPnL
        + mult * (  (SumValue(pos.ShortToday) + SumValue(pos.ShortYst))
                  - (SumValue(pos.LongToday) + SumValue(pos.LongYst)))
  BY <1>2, ConcatQueueSums DEF Book
<1>4. Net(pos) = (SumQty(pos.LongToday) + SumQty(pos.LongYst))
                 - (SumQty(pos.ShortToday) + SumQty(pos.ShortYst))
  BY <1>2, ConcatQueueSums DEF Net
<1>5. PICK a, b, c, d : /\ a = SumValue(pos.ShortToday) /\ b = SumValue(pos.ShortYst)
                        /\ c = SumValue(pos.LongToday) /\ d = SumValue(pos.LongYst)
  OBVIOUS
<1>6. a \in Int /\ b \in Int /\ c \in Int /\ d \in Int
  BY <1>2, <1>5, QueueSums
<1>7. (a + b) - (c + d) \in Int /\ mult * ((a + b) - (c + d)) \in Int
  BY <1>6
<1>8. Book(pos, mult) \in Int
  <2>1. PICK r, x : r = pos.realizedPnL /\ x = mult * ((a + b) - (c + d))
    OBVIOUS
  <2>2. r \in Int /\ x \in Int /\ Book(pos, mult) = r + x
    BY <1>2, <1>3, <1>5, <1>7, <2>1
  <2> QED
    BY <2>2
<1>9. Net(pos) \in Int
  <2>1. /\ SumQty(pos.ShortToday) \in Int /\ SumQty(pos.ShortYst) \in Int
        /\ SumQty(pos.LongToday) \in Int /\ SumQty(pos.LongYst) \in Int
    BY <1>2, QueueSums
  <2> QED
    BY <1>4, <2>1
<1> QED
  BY <1>1, <1>2, <1>3, <1>4, <1>8, <1>9

\* What replacing a queue does to the book.
LEMMA BookOfReplaced ==
  ASSUME NEW pos \in CPositions, NEW new \in CPositions, NEW mult \in Int,
         NEW type \in PositionTypes, NEW q \in Queues, NEW r, IsReplaced(new, pos, type, q, r),
         NEW dv \in Int, SumValue(q) = SumValue(pos[type]) + dv,
         NEW dq \in Int, SumQty(q) = SumQty(pos[type]) + dq,
         NEW dr \in Int, r = pos.realizedPnL + dr
  PROVE  /\ Book(new, mult) = Book(pos, mult) + dr
                              + (IF type \in LongQueues THEN -(mult * dv) ELSE mult * dv)
         /\ Net(new) = Net(pos) + (IF type \in LongQueues THEN dq ELSE -dq)
<1>1. PICK a, b, c, d, a1, b1, c1, d1 :
        /\ a = SumValue(pos["ShortToday"]) /\ b = SumValue(pos["ShortYst"])
        /\ c = SumValue(pos["LongToday"]) /\ d = SumValue(pos["LongYst"])
        /\ a1 = SumValue(new["ShortToday"]) /\ b1 = SumValue(new["ShortYst"])
        /\ c1 = SumValue(new["LongToday"]) /\ d1 = SumValue(new["LongYst"])
  OBVIOUS
<1>2. PICK e, f, g, h, e1, f1, g1, h1 :
        /\ e = SumQty(pos["ShortToday"]) /\ f = SumQty(pos["ShortYst"])
        /\ g = SumQty(pos["LongToday"]) /\ h = SumQty(pos["LongYst"])
        /\ e1 = SumQty(new["ShortToday"]) /\ f1 = SumQty(new["ShortYst"])
        /\ g1 = SumQty(new["LongToday"]) /\ h1 = SumQty(new["LongYst"])
  OBVIOUS
<1>3. /\ a \in Int /\ b \in Int /\ c \in Int /\ d \in Int
      /\ e \in Int /\ f \in Int /\ g \in Int /\ h \in Int
  BY <1>1, <1>2, BookParts DEF PositionTypes
<1>4. PICK s, x, y : s = pos.realizedPnL /\ x = (a + b) - (c + d) /\ y = (a1 + b1) - (c1 + d1)
  OBVIOUS
<1>5. /\ Book(pos, mult) = s + mult * x /\ Book(new, mult) = (s + dr) + mult * y
      /\ s \in Int /\ x \in Int
  <2>1. new.realizedPnL = s + dr
    BY <1>4 DEF IsReplaced
  <2>2. Book(pos, mult) = s + mult * x /\ Book(new, mult) = (s + dr) + mult * y /\ s \in Int
    BY <1>1, <1>4, <2>1, BookParts
  <2> QED
    BY <1>3, <1>4, <2>2
<1>6. Net(pos) = (g + h) - (e + f) /\ Net(new) = (g1 + h1) - (e1 + f1)
  BY <1>2, BookParts
<1>7. \A other \in PositionTypes \ {type} : new[other] = pos[other]
  BY DEF IsReplaced
<1>8. SumValue(new[type]) = SumValue(pos[type]) + dv /\ SumQty(new[type]) = SumQty(pos[type]) + dq
  BY DEF IsReplaced
<1>9. y = (IF type \in LongQueues THEN x - dv ELSE x + dv)
  <2>1. CASE type = "LongToday"
    <3>1. c1 = c + dv /\ d1 = d /\ a1 = a /\ b1 = b
      BY <1>1, <1>7, <1>8, <2>1 DEF PositionTypes
    <3> QED
      BY <1>3, <1>4, <2>1, <3>1 DEF LongQueues
  <2>2. CASE type = "LongYst"
    <3>1. c1 = c /\ d1 = d + dv /\ a1 = a /\ b1 = b
      BY <1>1, <1>7, <1>8, <2>2 DEF PositionTypes
    <3> QED
      BY <1>3, <1>4, <2>2, <3>1 DEF LongQueues
  <2>3. CASE type = "ShortToday"
    <3>1. c1 = c /\ d1 = d /\ a1 = a + dv /\ b1 = b
      BY <1>1, <1>7, <1>8, <2>3 DEF PositionTypes
    <3> QED
      BY <1>3, <1>4, <2>3, <3>1 DEF LongQueues
  <2>4. CASE type = "ShortYst"
    <3>1. c1 = c /\ d1 = d /\ a1 = a /\ b1 = b + dv
      BY <1>1, <1>7, <1>8, <2>4 DEF PositionTypes
    <3> QED
      BY <1>3, <1>4, <2>4, <3>1 DEF LongQueues
  <2> QED
    BY <2>1, <2>2, <2>3, <2>4 DEF PositionTypes
<1>10. Net(new) = Net(pos) + (IF type \in LongQueues THEN dq ELSE -dq)
  <2>1. CASE type = "LongToday"
    <3>1. g1 = g + dq /\ h1 = h /\ e1 = e /\ f1 = f
      BY <1>2, <1>7, <1>8, <2>1 DEF PositionTypes
    <3> QED
      BY <1>3, <1>6, <2>1, <3>1 DEF LongQueues
  <2>2. CASE type = "LongYst"
    <3>1. g1 = g /\ h1 = h + dq /\ e1 = e /\ f1 = f
      BY <1>2, <1>7, <1>8, <2>2 DEF PositionTypes
    <3> QED
      BY <1>3, <1>6, <2>2, <3>1 DEF LongQueues
  <2>3. CASE type = "ShortToday"
    <3>1. g1 = g /\ h1 = h /\ e1 = e + dq /\ f1 = f
      BY <1>2, <1>7, <1>8, <2>3 DEF PositionTypes
    <3> QED
      BY <1>3, <1>6, <2>3, <3>1 DEF LongQueues
  <2>4. CASE type = "ShortYst"
    <3>1. g1 = g /\ h1 = h /\ e1 = e /\ f1 = f + dq
      BY <1>2, <1>7, <1>8, <2>4 DEF PositionTypes
    <3> QED
      BY <1>3, <1>6, <2>4, <3>1 DEF LongQueues
  <2> QED
    BY <2>1, <2>2, <2>3, <2>4 DEF PositionTypes
<1>11. Book(new, mult) = Book(pos, mult) + dr
                         + (IF type \in LongQueues THEN -(mult * dv) ELSE mult * dv)
  <2>1. mult * (x - dv) = mult * x - mult * dv /\ mult * (x + dv) = mult * x + mult * dv
        /\ mult * x \in Int /\ mult * dv \in Int
    BY <1>5, TimesDifference
  <2>2. mult * y = IF type \in LongQueues THEN mult * x - mult * dv ELSE mult * x + mult * dv
    BY <1>9, <2>1
  <2> HIDE <1>9
  <2> QED
    BY <1>5, <2>1, <2>2
<1> QED
  BY <1>10, <1>11

\* The money and the quantity a trade moves.
Paid(trade)   == (IF trade.long THEN -1 ELSE 1) * (trade.qty * trade.price)
Bought(trade) == (IF trade.long THEN 1 ELSE -1) * trade.qty

\* A trade that finds what it closes keeps the book: what it pays is what the book
\* loses, whatever it matches and however little of an item it takes.
LEMMA AddTradeBooks ==
  ASSUME NEW pos \in CPositions, NEW trade \in TradeInfos, NEW mult \in Int, Unmatched(pos, trade) = 0
  PROVE  /\ Book(addTrade(pos, trade, mult), mult) = Book(pos, mult) + mult * Paid(trade)
         /\ Net(addTrade(pos, trade, mult)) = Net(pos) + Bought(trade)
<1>1. PICK new, Q, P, z : /\ new = addTrade(pos, trade, mult) /\ Q = trade.qty /\ P = trade.price
                          /\ z = Q * P
  OBVIOUS
<1>2. Q \in Nat /\ P \in Int /\ trade.long \in BOOLEAN /\ trade.today \in BOOLEAN
  BY <1>1 DEF TradeInfos
<1>3. z \in Int /\ P * Q = z /\ mult * z \in Int /\ mult * (0 - z) = -(mult * z)
  BY <1>1, <1>2, TimesDifference
<1>4. Paid(trade) = (IF trade.long THEN 0 - z ELSE z) /\ Bought(trade) = (IF trade.long THEN Q ELSE -Q)
  BY <1>1, <1>2, <1>3 DEF Paid, Bought
<1>5. Book(pos, mult) \in Int /\ Net(pos) \in Int /\ pos.realizedPnL \in Int
  BY BookParts
<1>6. CASE trade.open
  <2>1. PICK type, q : type = OpenQueue(trade) /\ q = Append(pos[type], Item(P, Q))
    OBVIOUS
  <2>2. type \in PositionTypes /\ (type \in LongQueues <=> trade.long)
    BY <2>1, <1>2 DEF OpenQueue, PositionTypes, LongQueues
  <2>3. pos[type] \in Queues /\ Item(P, Q) \in Items
    BY <1>1, <2>2, QueueOfType DEF Item, Items, TradeInfos
  <2>4. q \in Queues /\ SumQty(q) = SumQty(pos[type]) + Q /\ SumValue(q) = SumValue(pos[type]) + z
    BY <1>3, <2>1, <2>3, AppendQueueSums DEF Item
  <2>5. new \in CPositions /\ IsReplaced(new, pos, type, q, pos.realizedPnL)
    BY <1>1, <1>6, <2>1, OpenSpec
  <2>6. pos.realizedPnL = pos.realizedPnL + 0 /\ 0 \in Int
    BY <1>5
  <2>7. /\ Book(new, mult) = Book(pos, mult) + 0
                             + (IF type \in LongQueues THEN -(mult * z) ELSE mult * z)
        /\ Net(new) = Net(pos) + (IF type \in LongQueues THEN Q ELSE -Q)
    BY <1>2, <1>3, <2>2, <2>4, <2>5, <2>6, BookOfReplaced
  <2> QED
    BY <1>1, <1>3, <1>4, <1>5, <2>2, <2>7
<1>7. CASE ~trade.open
  <2>1. PICK type, match, q, r : /\ type = CloseQueue(trade) /\ match = tradeMatchPos(trade, pos[type])
                                 /\ q = match.kept /\ r = pos.realizedPnL + mult * match.realized
    OBVIOUS
  <2>2. type \in PositionTypes /\ (type \in LongQueues <=> ~trade.long)
    BY <2>1, <1>2 DEF CloseQueue, PositionTypes, LongQueues
  <2>3. PICK w, v1, v2, k1, k2 : /\ w = match.realized /\ v1 = SumValue(pos[type]) /\ v2 = SumValue(q)
                                 /\ k1 = SumQty(pos[type]) /\ k2 = SumQty(q)
    OBVIOUS
  <2>4. pos[type] \in Queues /\ match \in Matches /\ MatchedSoFar(trade, match, k1, v1)
    BY <2>1, <2>2, <2>3, QueueOfType, MatchSpec
  <2>5. q \in Queues /\ w \in Int
    BY <2>1, <2>3, <2>4 DEF Matches
  <2>6. v1 \in Int /\ v2 \in Int /\ k1 \in Int /\ k2 \in Int
    BY <2>3, <2>4, <2>5, QueueSums
  <2>7. match.left = 0
    BY <1>7, <2>1 DEF Unmatched
  <2>8. k2 = k1 - Q /\ w = IF trade.long THEN (v1 - v2) - z ELSE z - (v1 - v2)
    <3>1. Q - 0 = Q
      BY <1>2
    <3>2. k2 = k1 - (Q - 0) /\ w = IF trade.long THEN (v1 - v2) - P * (Q - 0) ELSE P * (Q - 0) - (v1 - v2)
      BY <1>1, <2>1, <2>3, <2>4, <2>7 DEF MatchedSoFar
    <3> QED
      BY <1>3, <3>1, <3>2
  <2>9. new \in CPositions /\ IsReplaced(new, pos, type, q, r)
    BY <1>1, <1>7, <2>1, CloseSpec
  <2>10. PICK dv, dq, dr : dv = v2 - v1 /\ dq = -Q /\ dr = mult * w
    OBVIOUS
  <2>11. dv \in Int /\ dq \in Int /\ dr \in Int /\ v2 = v1 + dv /\ k2 = k1 + dq
         /\ r = pos.realizedPnL + dr
    BY <1>2, <2>1, <2>3, <2>5, <2>6, <2>8, <2>10
  <2>12. /\ Book(new, mult) = Book(pos, mult) + dr
                              + (IF type \in LongQueues THEN -(mult * dv) ELSE mult * dv)
         /\ Net(new) = Net(pos) + (IF type \in LongQueues THEN dq ELSE -dq)
    <3>1. SumValue(q) = SumValue(pos[type]) + dv /\ SumQty(q) = SumQty(pos[type]) + dq
      BY <2>3, <2>11
    <3> QED
      BY <2>2, <2>5, <2>9, <2>11, <3>1, BookOfReplaced
  <2>13. dr = IF trade.long THEN -(mult * dv) - mult * z ELSE mult * dv + mult * z
    <3>1. w = IF trade.long THEN (0 - dv) - z ELSE dv + z
      BY <1>3, <2>6, <2>8, <2>10
    <3>2. /\ mult * ((0 - dv) - z) = -(mult * dv) - mult * z
          /\ mult * (dv + z) = mult * dv + mult * z
      BY <1>3, <2>11
    <3> QED
      BY <2>10, <3>1, <3>2
  <2>14. mult * dv \in Int
    BY <2>11
  <2>15. Book(new, mult) = Book(pos, mult) + (IF trade.long THEN -(mult * z) ELSE mult * z)
    BY <1>2, <1>3, <1>5, <2>2, <2>12, <2>13, <2>14
  <2>16. Net(new) = Net(pos) + (IF trade.long THEN Q ELSE -Q)
    BY <1>2, <1>5, <2>2, <2>10, <2>12
  <2> QED
    BY <1>1, <1>3, <1>4, <2>15, <2>16
<1> QED
  BY <1>6, <1>7

\* A trade finds what it closes if there is enough of it.
LEMMA UnmatchedSpec ==
  ASSUME NEW pos \in CPositions, NEW trade \in TradeInfos
  PROVE  /\ Unmatched(pos, trade) \in Nat
         /\ trade.open => Unmatched(pos, trade) = 0
         /\ ~trade.open /\ trade.qty <= SumQty(pos[CloseQueue(trade)]) => Unmatched(pos, trade) = 0
<1>1. CASE trade.open
  BY <1>1 DEF Unmatched
<1>2. CASE ~trade.open
  <2>1. PICK q, match : q = pos[CloseQueue(trade)] /\ match = tradeMatchPos(trade, q)
    OBVIOUS
  <2>2. q \in Queues
    BY <2>1, TradeQueues, QueueOfType
  <2>3. match \in Matches /\ MatchedSoFar(trade, match, SumQty(q), SumValue(q))
    BY <2>1, <2>2, MatchSpec
  <2>4. Unmatched(pos, trade) = match.left /\ match.left \in Nat
    BY <1>2, <2>1, <2>3 DEF Unmatched, Matches
  <2>5. ASSUME trade.qty <= SumQty(q), match.left # 0
        PROVE  FALSE
    <3>1. SumQty(q) \in Nat /\ trade.qty \in Nat
      BY <2>2, QueueSums DEF TradeInfos
    <3>2. 0 = SumQty(q) - (trade.qty - match.left)
      BY <2>3, <2>5, EmptyQueueSums DEF MatchedSoFar
    <3> QED
      BY <2>4, <2>5, <3>1, <3>2
  <2> QED
    BY <1>2, <2>1, <2>4, <2>5
<1> QED
  BY <1>1, <1>2

-----------------------------------------------------------------------------
(* The roll at the start of a day.                                         *)

\* A trade of as much as the oldest item takes that item and no other.
LEMMA MatchHead ==
  ASSUME NEW trade \in TradeInfos, NEW q \in Queues, q # <<>>, trade.qty = q[1].qty
  PROVE  tradeMatchPos(trade, q).kept = Tail(q)
<1>1. PICK n, last : n = Len(q) /\ last = tradeMatchPos(trade, q)
  OBVIOUS
<1>2. n \in Nat /\ n # 0 /\ \A k \in 1 .. n : q[k] \in Items /\ q[k].qty \in Nat
  <2>1. n \in Nat /\ \A k \in 1 .. n : q[k] \in Items /\ q[k].qty \in Nat
    BY <1>1, QueueNumbers
  <2>2. n # 0
    BY <1>1 DEF Queues
  <2> QED
    BY <2>1, <2>2
<1>3. PICK run \in [0 .. n -> Matches] : IsRun(run, n, MatchStart(trade), MatchSteps(trade, q), last)
  BY <1>1, MatchRun
<1>4. ASSUME NEW k \in 1 .. n, NEW m \in 0 .. n, m = k - 1
      PROVE  run[k] = MatchOne(trade, q[k], run[m])
  <2>1. run[k] = MatchSteps(trade, q)[k][run[m]]
    BY <1>3, <1>4 DEF IsRun
  <2>2. run[m] \in Matches
    BY <1>3
  <2> QED
    BY <1>1, <2>1, <2>2 DEF MatchSteps
<1> DEFINE Kept(m) == /\ run[m].left = 0 /\ Len(run[m].kept) = m - 1
                      /\ \A j \in 1 .. m - 1 : run[m].kept[j] = q[j + 1]
           ok == {m \in 0 .. n : m # 0 => Kept(m)}
<1>5. 0 \in ok
  <2>1. 0 \in 0 .. n
    BY <1>2
  <2> QED
    BY <2>1
<1>6. ASSUME NEW m \in 0 .. n - 1, m \in ok
      PROVE  m + 1 \in ok
  <2>1. PICK k : k = m + 1
    OBVIOUS
  <2>2. k \in 1 .. n /\ k \in 0 .. n /\ m \in 0 .. n /\ m = k - 1
    BY <1>2, <2>1
  <2>3. run[k] = MatchOne(trade, q[k], run[m])
    BY <1>4, <2>2
  <2>4. CASE m = 0
    <3>1. run[m] = MatchStart(trade) /\ k = 1
      BY <1>3, <2>1, <2>4 DEF IsRun
    <3>2. trade.qty \in Nat /\ trade.qty # 0
      BY DEF TradeInfos
    <3>3. Lesser(trade.qty, trade.qty) = trade.qty /\ trade.qty - trade.qty = 0
      BY <3>2 DEF Lesser
    <3>4. run[k].left = 0 /\ run[k].kept = <<>> \o <<>>
      BY <2>3, <3>1, <3>2, <3>3 DEF MatchOne, MatchStart, Remainder
    <3>5. Kept(k)
      BY <3>1, <3>4
    <3> HIDE DEF Kept
    <3> QED
      BY <2>1, <2>2, <3>5
  <2>5. CASE m # 0
    <3>1. PICK l : l = run[m].kept
      OBVIOUS
    <3>2. /\ run[m].left = 0 /\ l \in Queues /\ Len(l) = m - 1 /\ run[m] \in Matches
          /\ \A j \in 1 .. m - 1 : l[j] = q[j + 1]
      BY <1>3, <1>6, <2>2, <2>5, <3>1 DEF Matches
    <3>3. run[k] = [run[m] EXCEPT !.kept = Append(l, q[k])]
      BY <2>3, <3>1, <3>2 DEF MatchOne
    <3>4. PICK l1 : l1 = Append(l, q[k])
      OBVIOUS
    <3>5. run[k].left = 0 /\ run[k].kept = l1
      BY <3>2, <3>3, <3>4 DEF Matches
    <3>6. Len(l1) = m /\ l1[m] = q[k] /\ \A j \in 1 .. m - 1 : l1[j] = l[j]
      BY <2>2, <2>5, <3>2, <3>4 DEF Queues
    <3>7. \A j \in 1 .. m : l1[j] = q[j + 1]
      <4> SUFFICES ASSUME NEW j \in 1 .. m PROVE l1[j] = q[j + 1]
        OBVIOUS
      <4>1. CASE j = m
        BY <2>1, <3>6, <4>1
      <4>2. CASE j # m
        <5>1. j \in 1 .. m - 1
          BY <2>2, <4>2
        <5> QED
          BY <3>2, <3>6, <5>1
      <4> QED
        BY <4>1, <4>2
    <3>8. Kept(k)
      BY <2>2, <3>5, <3>6, <3>7
    <3> HIDE DEF Kept
    <3> QED
      BY <2>1, <2>2, <3>8
  <2> QED
    BY <2>4, <2>5
<1>7. n \in ok
  <2> HIDE DEF ok
  <2>1. \A m \in 0 .. n : m \in ok
    BY <1>2, <1>5, <1>6, UpTo
  <2>2. n \in 0 .. n
    BY <1>2
  <2> QED
    BY <2>1, <2>2
<1>8. PICK l, t : l = last.kept /\ t = Tail(q)
  OBVIOUS
<1>9. run[n] = last /\ last \in Matches
  BY <1>2, <1>3 DEF IsRun
<1>10. l \in Seq(Items) /\ Len(l) = n - 1 /\ \A j \in 1 .. n - 1 : l[j] = q[j + 1]
  BY <1>2, <1>7, <1>8, <1>9 DEF Matches, Queues
<1>11. t \in Seq(Items) /\ Len(t) = n - 1 /\ \A j \in 1 .. n - 1 : t[j] = q[j + 1]
  BY <1>1, <1>2, <1>8 DEF Queues
<1>12. l = t
  BY <1>10, <1>11, SeqEqual
<1> QED
  BY <1>1, <1>8, <1>12

\* The queue after k of its items were closed and opened again at price.
RolledUp(q, k, price) ==
  [j \in 1 .. Len(q) |-> IF j <= Len(q) - k THEN q[j + k] ELSE Item(price, q[j + k - Len(q)].qty)]

LEMMA RolledUpStep ==
  ASSUME NEW q \in Queues, NEW k \in 1 .. Len(q), NEW price \in Int
  PROVE  /\ RolledUp(q, k - 1, price) \in Queues
         /\ RolledUp(q, k - 1, price) # <<>>
         /\ RolledUp(q, k - 1, price)[1] = q[k]
         /\ RolledUp(q, k, price)
              = Append(Tail(RolledUp(q, k - 1, price)), Item(price, q[k].qty))
<1>1. PICK n, m, u, v, t, x : /\ n = Len(q) /\ m = k - 1 /\ u = RolledUp(q, m, price)
                              /\ v = RolledUp(q, k, price) /\ t = Tail(u) /\ x = Item(price, q[k].qty)
  OBVIOUS
<1>2. /\ n \in Nat /\ k \in 1 .. n /\ m \in 0 .. n - 1 /\ k = m + 1
      /\ \A j \in 1 .. n : q[j] \in Items /\ q[j].qty \in Nat \ {0}
  BY <1>1, QueueNumbers
<1>3. \A j \in 1 .. n : Item(price, q[j].qty) \in Items
  BY <1>2 DEF Item, Items
<1>4. ASSUME NEW i \in 0 .. n, NEW j \in 1 .. n
      PROVE  (IF j <= n - i THEN q[j + i] ELSE Item(price, q[j + i - n].qty)) \in Items
  <2>1. CASE j <= n - i
    <3>1. j + i \in 1 .. n
      BY <1>2, <2>1
    <3> QED
      BY <1>2, <2>1, <3>1
  <2>2. CASE ~(j <= n - i)
    <3>1. j + i - n \in 1 .. n
      BY <1>2, <2>2
    <3> QED
      BY <1>3, <2>2, <3>1
  <2> QED
    BY <2>1, <2>2
<1>5. /\ u \in Seq(Items) /\ Len(u) = n
      /\ \A j \in 1 .. n : u[j] = IF j <= n - m THEN q[j + m] ELSE Item(price, q[j + m - n].qty)
  <2>1. u = [j \in 1 .. n |-> IF j <= n - m THEN q[j + m] ELSE Item(price, q[j + m - n].qty)]
    BY <1>1 DEF RolledUp
  <2>2. m \in 0 .. n
    BY <1>2
  <2>3. u \in [1 .. n -> Items]
    BY <1>4, <2>1, <2>2
  <2>4. u \in Seq(Items) /\ Len(u) = n
    BY <1>2, <2>3
  <2> QED
    BY <2>1, <2>4
<1>6. /\ v \in Seq(Items) /\ Len(v) = n
      /\ \A j \in 1 .. n : v[j] = IF j <= n - k THEN q[j + k] ELSE Item(price, q[j + k - n].qty)
  <2>1. v = [j \in 1 .. n |-> IF j <= n - k THEN q[j + k] ELSE Item(price, q[j + k - n].qty)]
    BY <1>1 DEF RolledUp
  <2>2. k \in 0 .. n
    BY <1>2
  <2>3. v \in [1 .. n -> Items]
    BY <1>4, <2>1, <2>2
  <2>4. v \in Seq(Items) /\ Len(v) = n
    BY <1>2, <2>3
  <2> QED
    BY <2>1, <2>4
<1>7. u # <<>> /\ u[1] = q[k]
  <2>1. 1 \in 1 .. n /\ 1 <= n - m /\ 1 + m = k
    BY <1>2
  <2>2. u # <<>>
    BY <1>2, <1>5
  <2> QED
    BY <1>5, <2>1, <2>2
<1>8. t \in Seq(Items) /\ Len(t) = n - 1 /\ \A j \in 1 .. n - 1 : t[j] = u[j + 1]
  BY <1>1, <1>2, <1>5, <1>7
<1>9. PICK w : w = Append(t, x)
  OBVIOUS
<1>10. /\ w \in Seq(Items) /\ Len(w) = n /\ w[n] = x
       /\ \A j \in 1 .. n - 1 : w[j] = t[j]
  <2>1. x \in Items
    BY <1>1, <1>2, <1>3
  <2>2. PICK l : l = Len(t)
    OBVIOUS
  <2>3. /\ w \in Seq(Items) /\ Len(w) = l + 1 /\ w[l + 1] = x
        /\ \A j \in 1 .. l : w[j] = t[j]
    BY <1>8, <1>9, <2>1, <2>2
  <2>4. l = n - 1 /\ l + 1 = n
    BY <1>2, <1>8, <2>2
  <2> QED
    BY <2>3, <2>4
<1>11. ASSUME NEW j \in 1 .. n
       PROVE  v[j] = w[j]
  <2>1. CASE j = n
    <3>1. ~(j <= n - k) /\ j + k - n = k
      BY <1>2, <2>1
    <3> QED
      BY <1>1, <1>6, <1>10, <2>1, <3>1
  <2>2. CASE j # n
    <3>1. PICK i : i = j + 1
      OBVIOUS
    <3>2. /\ j \in 1 .. n - 1 /\ i \in 1 .. n /\ i + m = j + k /\ i + m - n = j + k - n
          /\ (i <= n - m <=> j <= n - k)
      BY <1>2, <2>2, <3>1
    <3>3. w[j] = u[i]
      BY <1>8, <1>10, <3>1, <3>2
    <3> QED
      BY <1>5, <1>6, <3>2, <3>3
  <2> QED
    BY <2>1, <2>2
<1>12. v = w
  BY <1>6, <1>10, <1>11, SeqEqual
<1> QED
  BY <1>1, <1>5, <1>7, <1>9, <1>12 DEF Queues

LEMMA RolledUpNone ==
  ASSUME NEW q \in Queues, NEW price
  PROVE  RolledUp(q, 0, price) = q
<1>1. PICK n : n = Len(q)
  OBVIOUS
<1>2. n \in Nat /\ q = [j \in 1 .. n |-> q[j]]
  BY <1>1 DEF Queues
<1>3. \A j \in 1 .. n : j <= n - 0 /\ j + 0 = j
  BY <1>2
<1>4. RolledUp(q, 0, price) = [j \in 1 .. n |-> q[j]]
  BY <1>1, <1>3 DEF RolledUp
<1> QED
  BY <1>2, <1>4

\* Rolled to the end, a queue is as long as before, all of it at one price.
LEMMA RolledUpAll ==
  ASSUME NEW q \in Queues, NEW price \in Int
  PROVE  /\ RolledUp(q, Len(q), price) \in Queues
         /\ SumQty(RolledUp(q, Len(q), price)) = SumQty(q)
         /\ SumValue(RolledUp(q, Len(q), price)) = price * SumQty(q)
<1>1. PICK n, u, a, b : /\ n = Len(q) /\ u = RolledUp(q, n, price)
                        /\ a = Qtys(q) /\ b = Values(u)
  OBVIOUS
<1>2. n \in Nat /\ \A j \in 1 .. n : q[j] \in Items /\ q[j].qty \in Nat \ {0}
  BY <1>1, QueueNumbers
<1>3. u = [j \in 1 .. n |-> Item(price, q[j].qty)]
  <2>1. \A j \in 1 .. n : ~(j <= n - n) /\ j + n - n = j
    BY <1>2
  <2> QED
    BY <1>1, <2>1 DEF RolledUp
<1>4. \A j \in 1 .. n : Item(price, q[j].qty) \in Items
  BY <1>2 DEF Item, Items
<1>5. u \in Queues /\ Len(u) = n
  BY <1>2, <1>3, <1>4 DEF Queues
<1>6. Qtys(u) = a
  <2>1. \A j \in 1 .. n : u[j].qty = q[j].qty
    BY <1>3 DEF Item
  <2> QED
    BY <1>1, <1>5, <2>1 DEF Qtys
<1>7. /\ a \in Seq(Int) /\ b \in Seq(Int) /\ Len(a) = n /\ Len(b) = n
      /\ \A j \in 1 .. n : b[j] = price * a[j]
  <2>1. a \in Seq(Int) /\ b \in Seq(Int) /\ Len(a) = n /\ Len(b) = n
    BY <1>1, <1>5, QueueNumbers
  <2>2. \A j \in 1 .. n : u[j].price = price /\ u[j].qty = q[j].qty
    BY <1>3 DEF Item
  <2>3. \A j \in 1 .. n : a[j] = q[j].qty
    BY <1>1 DEF Qtys
  <2>4. \A j \in 1 .. n : b[j] = u[j].price * u[j].qty
    BY <1>1, <1>5 DEF Values
  <2> QED
    BY <2>1, <2>2, <2>3, <2>4
<1>8. Total(b) = price * Total(a)
  BY <1>7, TotalScaled
<1>9. SumQty(u) = Total(a) /\ SumQty(q) = Total(a) /\ SumValue(u) = Total(b)
  BY <1>1, <1>5, <1>6, SumQtyIsTotal, SumValueIsTotal
<1> QED
  BY <1>1, <1>5, <1>8, <1>9

\* resetPnl's step: an item's quantity is closed and opened again at price.
RollOne(p, type, price, qty, mult) ==
  LET long  == type \in {"LongToday", "LongYst"}
      today == type \in {"LongToday", "ShortToday"}
      closed == addTrade(p, Trade(FALSE, ~long, today, price, qty), mult)
  IN  addTrade(closed, Trade(TRUE, long, today, price, qty), mult)

\* new is p with its oldest item of that type, if it has this quantity, closed and
\* opened again as the newest.
IsRolledOne(new, p, type, price, qty) ==
  /\ new.lastPrice = p.lastPrice
  /\ \A other \in PositionTypes \ {type} : new[other] = p[other]
  /\ p[type] # <<>> /\ p[type][1].qty = qty =>
       new[type] = Append(Tail(p[type]), Item(price, qty))

LEMMA RollOneSpec ==
  ASSUME NEW p \in CPositions, NEW type \in PositionTypes, NEW price \in Int,
         NEW qty \in Nat \ {0}, NEW mult \in Int
  PROVE  /\ RollOne(p, type, price, qty, mult) \in CPositions
         /\ IsRolledOne(RollOne(p, type, price, qty, mult), p, type, price, qty)
<1>1. PICK close, open, closed, new :
        /\ close = Trade(FALSE, ~(type \in {"LongToday", "LongYst"}),
                         type \in {"LongToday", "ShortToday"}, price, qty)
        /\ open = Trade(TRUE, type \in {"LongToday", "LongYst"},
                        type \in {"LongToday", "ShortToday"}, price, qty)
        /\ closed = addTrade(p, close, mult) /\ new = addTrade(closed, open, mult)
  OBVIOUS
<1>2. new = RollOne(p, type, price, qty, mult)
  BY <1>1 DEF RollOne
<1>3. close \in TradeInfos /\ ~close.open /\ close.qty = qty /\ open \in TradeInfos /\ open.open
      /\ open.qty = qty /\ open.price = price
  BY <1>1 DEF Trade, TradeInfos
<1>4. CloseQueue(close) = type
  BY <1>1 DEF Trade, CloseQueue, PositionTypes
<1>5. OpenQueue(open) = type
  BY <1>1 DEF Trade, OpenQueue, PositionTypes
<1>6. PICK q, kept, r : /\ q = p[type] /\ kept = tradeMatchPos(close, q).kept
                        /\ r = p.realizedPnL + mult * tradeMatchPos(close, q).realized
  OBVIOUS
<1>7. closed \in CPositions /\ IsReplaced(closed, p, type, kept, r)
  <2>1. /\ addTrade(p, close, mult) \in CPositions
        /\ IsReplaced(addTrade(p, close, mult), p, CloseQueue(close),
                      tradeMatchPos(close, p[CloseQueue(close)]).kept,
                      p.realizedPnL + mult * tradeMatchPos(close, p[CloseQueue(close)]).realized)
    BY <1>3, CloseSpec
  <2> QED
    BY <1>1, <1>4, <1>6, <2>1
<1>8. new \in CPositions
      /\ IsReplaced(new, closed, type, Append(closed[type], Item(price, qty)), closed.realizedPnL)
  <2>1. addTrade(closed, open, mult) \in CPositions
        /\ IsReplaced(addTrade(closed, open, mult), closed, OpenQueue(open),
                      Append(closed[OpenQueue(open)], Item(open.price, open.qty)),
                      closed.realizedPnL)
    BY <1>3, <1>7, OpenSpec
  <2>2. Item(open.price, open.qty) = Item(price, qty) /\ new = addTrade(closed, open, mult)
    BY <1>1, <1>3
  <2> QED
    BY <1>5, <2>1, <2>2
<1>9. closed[type] = kept /\ new[type] = Append(kept, Item(price, qty))
      /\ new.lastPrice = p.lastPrice
      /\ \A other \in PositionTypes \ {type} : new[other] = p[other]
  BY <1>7, <1>8 DEF IsReplaced
<1>10. ASSUME q # <<>>, q[1].qty = qty
       PROVE  kept = Tail(q)
  BY <1>3, <1>6, <1>10, QueueOfType, MatchHead
<1> QED
  BY <1>2, <1>6, <1>8, <1>9, <1>10 DEF IsRolledOne

\* A queue is rolled: the same quantity, all of it at the last price.
IsRolled(new, pos, type) ==
  /\ new.lastPrice = pos.lastPrice
  /\ \A other \in PositionTypes \ {type} : new[other] = pos[other]
  /\ SumQty(new[type]) = SumQty(pos[type])
  /\ SumValue(new[type]) = pos.lastPrice * SumQty(pos[type])

RollSteps(pos, type, mult) ==
  [k \in 1 .. Len(pos[type]) |->
     [p \in CPositions |-> RollOne(p, type, pos.lastPrice, pos[type][k].qty, mult)]]

LEMMA RollRun ==
  ASSUME NEW pos \in CPositions, NEW type \in PositionTypes, NEW mult \in Int
  PROVE  \E run \in [0 .. Len(pos[type]) -> CPositions] :
           IsRun(run, Len(pos[type]), pos, RollSteps(pos, type, mult), RollQueue(pos, type, mult))
<1>1. PICK q, n, g, price : /\ q = pos[type] /\ n = Len(q) /\ g = RollSteps(pos, type, mult)
                            /\ price = pos.lastPrice
  OBVIOUS
<1>2. q \in Queues /\ price \in Int
  BY <1>1, QueueOfType DEF CPositions
<1>3. n \in Nat /\ DOMAIN q = 1 .. n /\ \A k \in 1 .. n : q[k].qty \in Nat \ {0}
  BY <1>1, <1>2, QueueNumbers
<1>4. /\ g \in [1 .. n -> [CPositions -> CPositions]]
      /\ \A k \in 1 .. n : \A p \in CPositions :
           g[k][p] = RollOne(p, type, price, q[k].qty, mult)
  BY <1>1, <1>2, <1>3, RollOneSpec DEF RollSteps
<1> DEFINE Defines(f) == f = [s \in SUBSET DOMAIN q |->
                                IF s = {} THEN pos
                                ELSE RollOne(f[s \ {Max(s)}], type, price, q[Max(s)].qty, mult)]
           f == CHOOSE h : Defines(h)
<1>5. RollQueue(pos, type, mult) = f[1 .. n]
  BY <1>1, <1>3 DEF RollQueue, FoldLeft, MapThenFoldSet, RollOne
<1>6. \A s \in SUBSET (1 .. n) : s # {} => Max(s) \in 1 .. n /\ s \ {Max(s)} \in SUBSET (1 .. n)
  BY <1>3, LargestOf
<1>7. Defines(f)
  <2>1. PICK h \in [SUBSET (1 .. n) -> CPositions] : IsFold(h, n, pos, g)
    BY <1>3, <1>4, FoldExists
  <2>2. \A s \in SUBSET (1 .. n) :
          h[s] = IF s = {} THEN pos
                 ELSE RollOne(h[s \ {Max(s)}], type, price, q[Max(s)].qty, mult)
    <3> SUFFICES ASSUME NEW s \in SUBSET (1 .. n)
                 PROVE  h[s] = IF s = {} THEN pos
                               ELSE RollOne(h[s \ {Max(s)}], type, price, q[Max(s)].qty, mult)
      OBVIOUS
    <3>1. h[s] = IF s = {} THEN pos ELSE g[Max(s)][h[s \ {Max(s)}]]
      BY <2>1 DEF IsFold
    <3>2. s # {} => h[s \ {Max(s)}] \in CPositions /\ Max(s) \in 1 .. n
      BY <1>6, <2>1
    <3> QED
      BY <1>4, <3>1, <3>2
  <2>3. Defines(h)
    BY <1>3, <2>1, <2>2
  <2> HIDE DEF Defines
  <2> QED
    BY <2>3
<1>8. FoldsIn(CPositions, f, n, pos, g)
  <2> HIDE DEF f
  <2>1. \A s \in SUBSET (1 .. n) :
          f[s] = IF s = {} THEN pos
                 ELSE RollOne(f[s \ {Max(s)}], type, price, q[Max(s)].qty, mult)
    BY <1>3, <1>7
  <2>2. f[{}] = pos
    <3>1. {} \in SUBSET (1 .. n)
      OBVIOUS
    <3> QED
      BY <2>1, <3>1
  <2>3. ASSUME NEW s \in SUBSET (1 .. n), s # {}, f[s \ {Max(s)}] \in CPositions
        PROVE  f[s] = g[Max(s)][f[s \ {Max(s)}]]
    BY <1>4, <1>6, <2>1, <2>3
  <2> QED
    BY <2>2, <2>3 DEF FoldsIn
<1> HIDE DEF f
<1>9. \E run \in [0 .. n -> CPositions] : IsRun(run, n, pos, g, f[1 .. n])
  BY <1>3, <1>4, <1>8, FoldRun
<1> QED
  BY <1>1, <1>5, <1>9

LEMMA RollQueueSpec ==
  ASSUME NEW pos \in CPositions, NEW type \in PositionTypes, NEW mult \in Int
  PROVE  /\ RollQueue(pos, type, mult) \in CPositions
         /\ IsRolled(RollQueue(pos, type, mult), pos, type)
<1>1. PICK q, n, price, new : /\ q = pos[type] /\ n = Len(q) /\ price = pos.lastPrice
                              /\ new = RollQueue(pos, type, mult)
  OBVIOUS
<1>2. q \in Queues /\ price \in Int
  BY <1>1, QueueOfType DEF CPositions
<1>3. n \in Nat /\ \A k \in 1 .. n : q[k].qty \in Nat \ {0}
  BY <1>1, <1>2, QueueNumbers
<1>4. PICK run \in [0 .. n -> CPositions] : IsRun(run, n, pos, RollSteps(pos, type, mult), new)
  BY <1>1, RollRun
<1> DEFINE Rolled(p, k) == /\ p[type] = RolledUp(q, k, price) /\ p.lastPrice = price
                           /\ \A other \in PositionTypes \ {type} : p[other] = pos[other]
           ok == {k \in 0 .. n : Rolled(run[k], k)}
<1>5. 0 \in ok
  <2>1. 0 \in 0 .. n /\ run[0] = pos /\ RolledUp(q, 0, price) = q
    BY <1>2, <1>3, <1>4, RolledUpNone DEF IsRun
  <2> QED
    BY <1>1, <2>1
<1>6. ASSUME NEW m \in 0 .. n - 1, m \in ok
      PROVE  m + 1 \in ok
  <2>1. PICK k : k = m + 1
    OBVIOUS
  <2>2. k \in 1 .. n /\ k \in 0 .. n /\ m \in 0 .. n /\ m = k - 1
    BY <1>3, <2>1
  <2>3. run[k] = RollOne(run[m], type, price, q[k].qty, mult)
    <3>1. run[k] = RollSteps(pos, type, mult)[k][run[m]] /\ run[m] \in CPositions
      BY <1>4, <2>2 DEF IsRun
    <3> QED
      BY <1>1, <2>2, <3>1 DEF RollSteps
  <2>4. PICK p, new1, u : p = run[m] /\ new1 = run[k] /\ u = RolledUp(q, m, price)
    OBVIOUS
  <2>5. p \in CPositions /\ p[type] = u /\ p.lastPrice = price
        /\ \A other \in PositionTypes \ {type} : p[other] = pos[other]
    BY <1>4, <1>6, <2>2, <2>4
  <2>6. u # <<>> /\ u[1] = q[k] /\ RolledUp(q, k, price) = Append(Tail(u), Item(price, q[k].qty))
    <3>1. k \in 1 .. Len(q)
      BY <1>1, <2>2
    <3>2. /\ RolledUp(q, k - 1, price) # <<>> /\ RolledUp(q, k - 1, price)[1] = q[k]
          /\ RolledUp(q, k, price) = Append(Tail(RolledUp(q, k - 1, price)), Item(price, q[k].qty))
      BY <1>2, <3>1, RolledUpStep
    <3>3. u = RolledUp(q, k - 1, price)
      BY <2>2, <2>4
    <3> QED
      BY <3>2, <3>3
  <2>7. q[k].qty \in Nat \ {0}
    BY <1>3, <2>2
  <2>8. /\ new1.lastPrice = price
        /\ \A other \in PositionTypes \ {type} : new1[other] = p[other]
        /\ new1[type] = Append(Tail(u), Item(price, q[k].qty))
    <3>1. PICK qty : qty = q[k].qty
      OBVIOUS
    <3>2. new1 = RollOne(p, type, price, qty, mult) /\ qty \in Nat \ {0}
      BY <2>3, <2>4, <2>7, <3>1
    <3>3. p[type] # <<>> /\ p[type][1].qty = qty
      BY <2>5, <2>6, <3>1
    <3>4. IsRolledOne(new1, p, type, price, qty)
      BY <1>2, <2>5, <3>2, RollOneSpec
    <3> QED
      BY <2>5, <3>1, <3>3, <3>4 DEF IsRolledOne
  <2>9. Rolled(new1, k)
    BY <2>5, <2>6, <2>8
  <2> HIDE DEF Rolled
  <2> QED
    BY <2>1, <2>2, <2>4, <2>9
<1>7. Rolled(new, n)
  <2>1. n \in ok
    <3> HIDE DEF ok
    <3>1. \A m \in 0 .. n : m \in ok
      BY <1>3, <1>5, <1>6, UpTo
    <3> QED
      BY <1>3, <3>1
  <2>2. run[n] = new
    BY <1>4 DEF IsRun
  <2> QED
    BY <2>1, <2>2
<1>8. new \in CPositions
  <2>1. n \in 0 .. n /\ run[n] = new
    BY <1>3, <1>4 DEF IsRun
  <2> QED
    BY <1>4, <2>1
<1>9. SumQty(new[type]) = SumQty(q) /\ SumValue(new[type]) = price * SumQty(q)
  BY <1>1, <1>2, <1>7, RolledUpAll
<1>10. IsRolled(new, pos, type)
  BY <1>1, <1>7, <1>9 DEF IsRolled
<1> QED
  BY <1>1, <1>8, <1>10

\* A position at the start of a day: the same quantities at the last price, and
\* nothing realized yet.
IsReset(new, pos) ==
  /\ new.lastPrice = pos.lastPrice /\ new.realizedPnL = 0
  /\ \A type \in PositionTypes : /\ SumQty(new[type]) = SumQty(pos[type])
                                 /\ SumValue(new[type]) = pos.lastPrice * SumQty(pos[type])

RollAllSteps(mult) ==
  [k \in 1 .. 4 |-> [p \in CPositions |-> RollQueue(p, RolledQueues[k], mult)]]

RollAll(pos, mult) == FoldLeft(LAMBDA p, type : RollQueue(p, type, mult), pos, RolledQueues)

LEMMA RollAllRun ==
  ASSUME NEW pos \in CPositions, NEW mult \in Int
  PROVE  \E run \in [0 .. 4 -> CPositions] :
           IsRun(run, 4, pos, RollAllSteps(mult), RollAll(pos, mult))
<1>1. PICK n, g, types : n = 4 /\ g = RollAllSteps(mult) /\ types = RolledQueues
  OBVIOUS
<1>2. n \in Nat /\ DOMAIN types = 1 .. n /\ \A k \in 1 .. n : types[k] \in PositionTypes
  BY <1>1 DEF RolledQueues, PositionTypes
<1>3. /\ g \in [1 .. n -> [CPositions -> CPositions]]
      /\ \A k \in 1 .. n : \A p \in CPositions : g[k][p] = RollQueue(p, types[k], mult)
  BY <1>1, <1>2, RollQueueSpec DEF RollAllSteps
<1> DEFINE Defines(f) == f = [s \in SUBSET DOMAIN types |->
                                IF s = {} THEN pos
                                ELSE RollQueue(f[s \ {Max(s)}], types[Max(s)], mult)]
           f == CHOOSE h : Defines(h)
<1>4. RollAll(pos, mult) = f[1 .. n]
  BY <1>1, <1>2 DEF RollAll, FoldLeft, MapThenFoldSet
<1>5. \A s \in SUBSET (1 .. n) : s # {} => Max(s) \in 1 .. n /\ s \ {Max(s)} \in SUBSET (1 .. n)
  BY <1>2, LargestOf
<1>6. Defines(f)
  <2>1. PICK h \in [SUBSET (1 .. n) -> CPositions] : IsFold(h, n, pos, g)
    BY <1>2, <1>3, FoldExists
  <2>2. \A s \in SUBSET (1 .. n) :
          h[s] = IF s = {} THEN pos ELSE RollQueue(h[s \ {Max(s)}], types[Max(s)], mult)
    <3> SUFFICES ASSUME NEW s \in SUBSET (1 .. n)
                 PROVE  h[s] = IF s = {} THEN pos
                               ELSE RollQueue(h[s \ {Max(s)}], types[Max(s)], mult)
      OBVIOUS
    <3>1. h[s] = IF s = {} THEN pos ELSE g[Max(s)][h[s \ {Max(s)}]]
      BY <2>1 DEF IsFold
    <3>2. s # {} => h[s \ {Max(s)}] \in CPositions /\ Max(s) \in 1 .. n
      BY <1>5, <2>1
    <3> QED
      BY <1>3, <3>1, <3>2
  <2>3. Defines(h)
    BY <1>2, <2>1, <2>2
  <2> HIDE DEF Defines
  <2> QED
    BY <2>3
<1>7. FoldsIn(CPositions, f, n, pos, g)
  <2> HIDE DEF f
  <2>1. \A s \in SUBSET (1 .. n) :
          f[s] = IF s = {} THEN pos ELSE RollQueue(f[s \ {Max(s)}], types[Max(s)], mult)
    BY <1>2, <1>6
  <2>2. f[{}] = pos
    <3>1. {} \in SUBSET (1 .. n)
      OBVIOUS
    <3> QED
      BY <2>1, <3>1
  <2>3. ASSUME NEW s \in SUBSET (1 .. n), s # {}, f[s \ {Max(s)}] \in CPositions
        PROVE  f[s] = g[Max(s)][f[s \ {Max(s)}]]
    BY <1>3, <1>5, <2>1, <2>3
  <2> QED
    BY <2>2, <2>3 DEF FoldsIn
<1> HIDE DEF f
<1>8. \E run \in [0 .. n -> CPositions] : IsRun(run, n, pos, g, f[1 .. n])
  BY <1>2, <1>3, <1>7, FoldRun
<1> QED
  BY <1>1, <1>4, <1>8

\* resetPnl rolls every queue.
LEMMA ResetSpec ==
  ASSUME NEW pos \in CPositions, NEW mult \in Int, NEW new,
         new = [resetPnl(pos, mult) EXCEPT !.tradeCount = 0]
  PROVE  new \in CPositions /\ IsReset(new, pos)
<1>1. PICK last : last = RollAll(pos, mult)
  OBVIOUS
<1>2. PICK run \in [0 .. 4 -> CPositions] : IsRun(run, 4, pos, RollAllSteps(mult), last)
  BY <1>1, RollAllRun
<1>3. ASSUME NEW k \in 1 .. 4, NEW m \in 0 .. 4, m = k - 1
      PROVE  IsRolled(run[k], run[m], RolledQueues[k])
  <2>1. RolledQueues[k] \in PositionTypes
    BY DEF RolledQueues, PositionTypes
  <2>2. run[k] = RollAllSteps(mult)[k][run[m]] /\ run[m] \in CPositions
    BY <1>2, <1>3 DEF IsRun
  <2>3. run[k] = RollQueue(run[m], RolledQueues[k], mult)
    BY <2>2 DEF RollAllSteps
  <2> QED
    BY <2>1, <2>2, <2>3, RollQueueSpec
<1>4. PICK a, b, c, price : a = run[1] /\ b = run[2] /\ c = run[3] /\ price = pos.lastPrice
  OBVIOUS
<1>5. run[0] = pos /\ run[4] = last
  BY <1>2 DEF IsRun
<1>6. IsRolled(a, pos, "ShortToday")
  <2>1. 1 \in 1 .. 4 /\ 0 \in 0 .. 4 /\ 0 = 1 - 1 /\ RolledQueues[1] = "ShortToday"
    BY DEF RolledQueues
  <2> QED
    BY <1>3, <1>4, <1>5, <2>1
<1>7. IsRolled(b, a, "ShortYst")
  <2>1. 2 \in 1 .. 4 /\ 1 \in 0 .. 4 /\ 1 = 2 - 1 /\ RolledQueues[2] = "ShortYst"
    BY DEF RolledQueues
  <2> QED
    BY <1>3, <1>4, <1>5, <2>1
<1>8. IsRolled(c, b, "LongToday")
  <2>1. 3 \in 1 .. 4 /\ 2 \in 0 .. 4 /\ 2 = 3 - 1 /\ RolledQueues[3] = "LongToday"
    BY DEF RolledQueues
  <2> QED
    BY <1>3, <1>4, <1>5, <2>1
<1>9. IsRolled(last, c, "LongYst")
  <2>1. 4 \in 1 .. 4 /\ 3 \in 0 .. 4 /\ 3 = 4 - 1 /\ RolledQueues[4] = "LongYst"
    BY DEF RolledQueues
  <2> QED
    BY <1>3, <1>4, <1>5, <2>1
<1>10. a.lastPrice = price /\ b.lastPrice = price /\ c.lastPrice = price /\ last.lastPrice = price
  BY <1>4, <1>6, <1>7, <1>8, <1>9 DEF IsRolled
<1>11. SumQty(last["ShortToday"]) = SumQty(pos["ShortToday"])
       /\ SumValue(last["ShortToday"]) = price * SumQty(pos["ShortToday"])
  BY <1>4, <1>6, <1>7, <1>8, <1>9 DEF IsRolled, PositionTypes
<1>12. SumQty(last["ShortYst"]) = SumQty(pos["ShortYst"])
       /\ SumValue(last["ShortYst"]) = price * SumQty(pos["ShortYst"])
  BY <1>6, <1>7, <1>8, <1>9, <1>10 DEF IsRolled, PositionTypes
<1>13. SumQty(last["LongToday"]) = SumQty(pos["LongToday"])
       /\ SumValue(last["LongToday"]) = price * SumQty(pos["LongToday"])
  BY <1>6, <1>7, <1>8, <1>9, <1>10 DEF IsRolled, PositionTypes
<1>14. SumQty(last["LongYst"]) = SumQty(pos["LongYst"])
       /\ SumValue(last["LongYst"]) = price * SumQty(pos["LongYst"])
  BY <1>6, <1>7, <1>8, <1>9, <1>10 DEF IsRolled, PositionTypes
<1>15. last \in CPositions
  <2>1. 4 \in 0 .. 4
    OBVIOUS
  <2> QED
    BY <1>2, <1>5, <2>1
<1>16. new = [last EXCEPT !.realizedPnL = 0, !.tradeCount = 0]
  <2>1. resetPnl(pos, mult) = [last EXCEPT !.realizedPnL = 0]
    BY <1>1 DEF resetPnl, RollAll
  <2> QED
    BY <1>15, <2>1 DEF CPositions
<1>17. /\ new \in CPositions /\ new.realizedPnL = 0 /\ new.lastPrice = last.lastPrice
       /\ \A type \in PositionTypes : new[type] = last[type]
  <2>1. new = [LongToday |-> last.LongToday, LongYst |-> last.LongYst,
               ShortToday |-> last.ShortToday, ShortYst |-> last.ShortYst,
               lastPrice |-> last.lastPrice, realizedPnL |-> 0, tradeCount |-> 0]
    BY <1>15, <1>16 DEF CPositions
  <2>2. /\ last.LongToday \in Queues /\ last.LongYst \in Queues
        /\ last.ShortToday \in Queues /\ last.ShortYst \in Queues /\ last.lastPrice \in Int
    BY <1>15 DEF CPositions
  <2>3. new \in CPositions /\ new.realizedPnL = 0 /\ new.lastPrice = last.lastPrice
    <3>1. PICK a1, b1, c1, d1, x : /\ a1 = last.LongToday /\ b1 = last.LongYst
                                   /\ c1 = last.ShortToday /\ d1 = last.ShortYst
                                   /\ x = last.lastPrice
      OBVIOUS
    <3>0. PICK z : z = 0
      OBVIOUS
    <3>2. new = [LongToday |-> a1, LongYst |-> b1, ShortToday |-> c1, ShortYst |-> d1,
                 lastPrice |-> x, realizedPnL |-> z, tradeCount |-> z]
      BY <2>1, <3>0, <3>1
    <3>3. a1 \in Queues /\ b1 \in Queues /\ c1 \in Queues /\ d1 \in Queues /\ x \in Int
            /\ z \in Int
      BY <2>2, <3>0, <3>1
    <3>4. [LongToday |-> a1, LongYst |-> b1, ShortToday |-> c1, ShortYst |-> d1,
           lastPrice |-> x, realizedPnL |-> z, tradeCount |-> z] \in CPositions
      BY <3>3 DEF CPositions
    <3>5. new \in CPositions
      BY <3>2, <3>4, Zenon
    <3>6. new.realizedPnL = z /\ new.lastPrice = x
      BY <3>2
    <3> QED
      BY <3>0, <3>1, <3>5, <3>6
  <2>4. /\ new["LongToday"] = last["LongToday"] /\ new["LongYst"] = last["LongYst"]
        /\ new["ShortToday"] = last["ShortToday"] /\ new["ShortYst"] = last["ShortYst"]
    BY <2>1
  <2> QED
    BY <2>3, <2>4 DEF PositionTypes
<1>18. \A type \in PositionTypes : /\ SumQty(new[type]) = SumQty(pos[type])
                                   /\ SumValue(new[type]) = price * SumQty(pos[type])
  BY <1>11, <1>12, <1>13, <1>14, <1>17 DEF PositionTypes
<1> QED
  BY <1>4, <1>10, <1>17, <1>18 DEF IsReset

\* Nothing is lost or banked twice at the start of a day: the book before it is what
\* is banked and the book after it, which holds no P&L.
LEMMA ResetBooks ==
  ASSUME NEW pos \in CPositions, NEW mult \in Int, NEW new \in CPositions, IsReset(new, pos)
  PROVE  /\ getPositionPnl(new, mult) = 0
         /\ getPositionPnl(pos, mult) \in Int
         /\ Book(pos, mult) = getPositionPnl(pos, mult) + Book(new, mult)
         /\ Net(new) = Net(pos)
<1>1. PICK price, r : price = pos.lastPrice /\ r = pos.realizedPnL
  OBVIOUS
<1>2. PICK a, b, c, d, e, f, g, h :
        /\ a = SumValue(pos["ShortToday"]) /\ b = SumValue(pos["ShortYst"])
        /\ c = SumValue(pos["LongToday"]) /\ d = SumValue(pos["LongYst"])
        /\ e = SumQty(pos["ShortToday"]) /\ f = SumQty(pos["ShortYst"])
        /\ g = SumQty(pos["LongToday"]) /\ h = SumQty(pos["LongYst"])
  OBVIOUS
<1>3. /\ a \in Int /\ b \in Int /\ c \in Int /\ d \in Int
      /\ e \in Int /\ f \in Int /\ g \in Int /\ h \in Int /\ price \in Int /\ r \in Int
  BY <1>1, <1>2, BookParts DEF PositionTypes, CPositions
<1>4. PICK V, W, K, L : V = a + b /\ W = c + d /\ K = e + f /\ L = g + h
  OBVIOUS
<1>5. V \in Int /\ W \in Int /\ K \in Int /\ L \in Int
  BY <1>3, <1>4
<1>6. Book(pos, mult) = r + mult * (V - W) /\ Net(pos) = L - K
  BY <1>1, <1>2, <1>4, BookParts
<1>7. /\ SumValue(new["ShortToday"]) = price * e /\ SumValue(new["ShortYst"]) = price * f
      /\ SumValue(new["LongToday"]) = price * g /\ SumValue(new["LongYst"]) = price * h
      /\ SumQty(new["ShortToday"]) = e /\ SumQty(new["ShortYst"]) = f
      /\ SumQty(new["LongToday"]) = g /\ SumQty(new["LongYst"]) = h
      /\ new.realizedPnL = 0 /\ new.lastPrice = price
  BY <1>1, <1>2 DEF IsReset, PositionTypes
<1>8. /\ price * K = price * e + price * f /\ price * L = price * g + price * h
      /\ price * K \in Int /\ price * L \in Int
  BY <1>3, <1>4, <1>5, TimesDifference
<1>9. Book(new, mult) = mult * (price * K - price * L) /\ Net(new) = L - K
  <2>1. Book(new, mult) = 0 + mult * ((price * e + price * f) - (price * g + price * h))
        /\ Net(new) = (g + h) - (e + f)
    BY <1>7, BookParts
  <2>2. mult * (price * K - price * L) \in Int
    BY <1>8
  <2> QED
    BY <1>4, <1>8, <2>1, <2>2
<1>10. getPositionPnl(pos, mult) = r + mult * ((price * L - W) + (V - price * K))
  <2>1. /\ pos.LongToday \in Queues /\ pos.LongYst \in Queues
        /\ pos.ShortToday \in Queues /\ pos.ShortYst \in Queues
    BY DEF CPositions
  <2>2. /\ SumQty(pos.LongToday \o pos.LongYst) = L /\ SumValue(pos.LongToday \o pos.LongYst) = W
        /\ SumQty(pos.ShortToday \o pos.ShortYst) = K /\ SumValue(pos.ShortToday \o pos.ShortYst) = V
    BY <1>2, <1>4, <2>1, ConcatQueueSums
  <2> QED
    BY <1>1, <2>2 DEF getPositionPnl, OpenPnl
<1>11. getPositionPnl(new, mult) = mult * ((price * L - price * L) + (price * K - price * K))
  <2>1. /\ new.LongToday \in Queues /\ new.LongYst \in Queues
        /\ new.ShortToday \in Queues /\ new.ShortYst \in Queues
    BY DEF CPositions
  <2>2. /\ SumQty(new.LongToday \o new.LongYst) = L
        /\ SumValue(new.LongToday \o new.LongYst) = price * L
        /\ SumQty(new.ShortToday \o new.ShortYst) = K
        /\ SumValue(new.ShortToday \o new.ShortYst) = price * K
    BY <1>4, <1>7, <1>8, <2>1, ConcatQueueSums
  <2>3. getPositionPnl(new, mult) = 0 + mult * ((price * L - price * L) + (price * K - price * K))
    BY <1>7, <2>2 DEF getPositionPnl, OpenPnl
  <2>4. mult * ((price * L - price * L) + (price * K - price * K)) \in Int
    BY <1>8
  <2> QED
    BY <2>3, <2>4
<1>12. getPositionPnl(new, mult) = 0
  <2>1. (price * L - price * L) + (price * K - price * K) = 0
    BY <1>8
  <2> QED
    BY <1>11, <2>1
<1>13. PICK x, y : x = price * K /\ y = price * L
  OBVIOUS
<1>14. x \in Int /\ y \in Int
  BY <1>8, <1>13
<1>15. mult * (V - W) = mult * ((y - W) + (V - x)) + mult * (x - y)
       /\ mult * ((y - W) + (V - x)) \in Int /\ mult * (x - y) \in Int
  BY <1>5, <1>14
<1>16. Book(pos, mult) = getPositionPnl(pos, mult) + Book(new, mult)
       /\ getPositionPnl(pos, mult) \in Int
  BY <1>3, <1>6, <1>9, <1>10, <1>13, <1>15
<1> QED
  BY <1>6, <1>9, <1>12, <1>16

-----------------------------------------------------------------------------
(* The inductive invariant of the broker.                                  *)

OrderRecords ==
  [id : OrderIds, request : RequestIds, flag : {"Open", "CloseToday", "CloseYst", "None"},
   qty : Nat \ {0}, filled : Nat, status : {"New", "Filled", "Rejected"}]

CallRecords == [request : Requests, orders : Seq(OrderRecords)]

BooksOK ==
  /\ DOMAIN positions \subseteq Instruments /\ IsFiniteSet(DOMAIN positions)
  /\ \A i \in DOMAIN positions : positions[i] \in CPositions
  /\ cash \in Int /\ flow \in Int /\ net \in [Instruments -> Int]
  /\ unmatched \in Nat /\ days \in 0 .. MaxDays /\ reentered \in BOOLEAN

\* Requests are numbered upwards.
Numbered ==
  /\ requestID_ \in {2 * k : k \in 0 .. MaxRequests}
  /\ \A r \in DOMAIN requests_ : /\ r \in RequestIds /\ r[1] < requestID_
                                 /\ requests_[r] \in Requests

\* An order is the first or the second of its request; a refused one is alone.
OrderOf(o) ==
  LET order == orders_[o]
  IN  /\ order \in OrderRecords
      /\ order.id = o
      /\ order.request \in DOMAIN requests_ /\ requests_[order.request].type # "other"
      /\ o = order.request \/ o = SecondOrderId(order.request)
      /\ order.filled = IF order.status = "Filled" THEN order.qty ELSE 0
      /\ order.status = "Rejected" => o = order.request /\ SecondOrderId(o) \notin DOMAIN orders_

ToldOf(o) ==
  told[o] = CASE orders_[o].status = "New"      -> <<"New">>
              [] orders_[o].status = "Filled"   -> <<"New", "Filled">>
              [] orders_[o].status = "Rejected" -> <<"Rejected">>

\* The order call k shows, and its request.
HeadOf(k)    == calls[k].orders[1]
RequestOf(k) == HeadOf(k).request

FilledOf(o) == IF o \in DOMAIN orders_ THEN orders_[o].filled ELSE 0

FilledOfRequest(r) == FilledOf(r) + FilledOf(SecondOrderId(r))

\* What call k has still to fill.
Remaining(k) ==
  (IF orders_[HeadOf(k).id].status = "New" THEN HeadOf(k).qty ELSE 0)
  + (IF Len(calls[k].orders) = 2 THEN calls[k].orders[2].qty ELSE 0)

\* What a call under way keeps: it shows an order it made of its request, the second
\* order of a split close is not made yet, and what is filled and what remains is
\* what was asked for.
CallOf(k) ==
  LET s == calls[k].orders
      h == s[1]
      r == h.request
  IN  /\ Len(s) \in {1, 2}
      /\ r \in DOMAIN requests_ /\ requests_[r] = calls[k].request /\ calls[k].request.type # "other"
      /\ h.id \in DOMAIN orders_ /\ orders_[h.id].request = r
      /\ orders_[h.id].flag = h.flag /\ orders_[h.id].qty = h.qty
      /\ h.status = "Rejected" => orders_[h.id].status = "Rejected"
      /\ h.status = "New" => /\ orders_[h.id].status \in {"New", "Filled"}
                             /\ FilledOfRequest(r) + Remaining(k) = requests_[r].qty
      /\ h.status \in {"New", "Rejected"}
      /\ Len(s) = 2 => /\ h.id = r /\ h.status = "New" /\ h.flag = "CloseToday"
                       /\ calls[k].request.type = "future"
                       /\ SecondOrderId(r) \notin DOMAIN orders_
                       /\ s[2] = Order(SecondOrderId(r), r, "CloseYst", s[2].qty, "New")

\* A request that is no longer under way.
Concluded(r) ==
  \/ r \in DOMAIN orders_ /\ orders_[r].status = "Rejected"
  \/ /\ \A o \in DOMAIN orders_ : orders_[o].request = r => orders_[o].status = "Filled"
     /\ FilledOfRequest(r) = requests_[r].qty

\* The positions cover an order of a request.
CoveredOrder(order, request) ==
  LET trade == TradeOf(order, request)
  IN  trade.open \/ order.qty <= SumQty(PositionOf(request.inst)[CloseQueue(trade)])

\* As long as no call was made from inside another, what is to be closed is there.
CoveredCall(k) ==
  HeadOf(k).status = "New" =>
    /\ orders_[HeadOf(k).id].status = "New" => CoveredOrder(HeadOf(k), calls[k].request)
    /\ Len(calls[k].orders) = 2 => CoveredOrder(calls[k].orders[2], calls[k].request)

OrdersOK ==
  /\ DOMAIN told = DOMAIN orders_
  /\ \A o \in DOMAIN orders_ :
       /\ OrderOf(o) /\ ToldOf(o)
       /\ orders_[o].status = "New" => \E k \in 1 .. Len(calls) : HeadOf(k).id = o

CallsOK ==
  /\ calls \in Seq(CallRecords) /\ Len(calls) <= MaxDepth
  /\ \A k \in 1 .. Len(calls) : CallOf(k)
  /\ \A j, k \in 1 .. Len(calls) : RequestOf(j) = RequestOf(k) => j = k

ConcludedOK ==
  \A r \in DOMAIN requests_ :
    \/ requests_[r].type = "other"
    \/ \E k \in 1 .. Len(calls) : RequestOf(k) = r
    \/ Concluded(r)

CoveredOK ==
  ~reentered => unmatched = 0 /\ Len(calls) <= 1 /\ \A k \in 1 .. Len(calls) : CoveredCall(k)

IInv == /\ BooksOK /\ Numbered /\ OrdersOK /\ CallsOK /\ ConcludedOK /\ CoveredOK
        /\ Ledger

-----------------------------------------------------------------------------
(* Requests, their orders and the trades of those.                         *)

\* new is the map with x set to v.
IsUpdated(new, map, x, v) ==
  /\ DOMAIN new = DOMAIN map \cup {x} /\ new[x] = v
  /\ \A y \in DOMAIN map : y # x => new[y] = map[y]

LEMMA Updated ==
  ASSUME NEW map, NEW x, NEW v
  PROVE  IsUpdated(Put(map, x, v), map, x, v)
BY DEF IsUpdated, Put

LEMMA EmptyMap == DOMAIN NoMap = {}
BY DEF NoMap

LEMMA SetInMap ==
  ASSUME NEW map, NEW x \in DOMAIN map, NEW v, NEW new, new = [map EXCEPT ![x] = v]
  PROVE  IsUpdated(new, map, x, v)
BY DEF IsUpdated

LEMMA Ids ==
  ASSUME NEW r \in RequestIds
  PROVE  /\ r \in OrderIds /\ SecondOrderId(r) \in OrderIds /\ SecondOrderId(r) # r
         /\ SecondOrderId(r) \notin RequestIds /\ r[1] \in Int
         /\ \A s \in RequestIds : /\ SecondOrderId(s) = SecondOrderId(r) => s = r
                                  /\ s[1] = r[1] => s = r
<1>1. PICK k \in 0 .. MaxRequests - 1 : r = <<2 * k, 0>>
  BY DEF RequestIds, RequestId
<1>2. SecondOrderId(r) = <<2 * k, 1>> /\ 2 * k \in Int
  BY <1>1, BoundAssumption DEF SecondOrderId
<1>3. r \in OrderIds /\ SecondOrderId(r) \in OrderIds
  BY DEF OrderIds
<1>4. SecondOrderId(r) # r
  BY <1>1, <1>2
<1>5. ASSUME NEW s \in RequestIds
      PROVE  /\ s # SecondOrderId(r)
             /\ SecondOrderId(s) = SecondOrderId(r) => s = r
             /\ s[1] = r[1] => s = r
  <2>1. PICK j \in 0 .. MaxRequests - 1 : s = <<2 * j, 0>>
    BY DEF RequestIds, RequestId
  <2>2. SecondOrderId(s) = <<2 * j, 1>> /\ 2 * j \in Int
    BY <2>1, BoundAssumption DEF SecondOrderId
  <2> QED
    BY <1>1, <1>2, <2>1, <2>2
<1> QED
  BY <1>1, <1>2, <1>3, <1>4, <1>5

LEMMA RequestParts ==
  ASSUME NEW q \in Requests, q.type # "other"
  PROVE  /\ q.type \in {"security", "future"} /\ q.inst \in Instruments
         /\ q.long \in BOOLEAN /\ q.open \in BOOLEAN
         /\ q.price \in Nat /\ q.qty \in Nat \ {0}
         /\ q.type = "security" => q.open = q.long
<1>1. q \in SecurityRequests \/ q \in FutureRequests
  BY DEF Requests, OtherRequests
<1>2. CASE q \in SecurityRequests
  BY <1>2, QuantityAssumption DEF SecurityRequests
<1>3. CASE q \in FutureRequests
  BY <1>3, QuantityAssumption DEF FutureRequests
<1> QED
  BY <1>1, <1>2, <1>3

LEMMA TradeParts ==
  ASSUME NEW q \in Requests, q.type # "other", NEW order, order.qty \in Nat \ {0}
  PROVE  /\ TradeOf(order, q) \in TradeInfos
         /\ TradeOf(order, q).long = q.long /\ TradeOf(order, q).price = q.price
         /\ TradeOf(order, q).qty = order.qty
         /\ TradeOf(order, q).open = (IF q.type = "security" THEN q.open ELSE order.flag = "Open")
         /\ TradeOf(order, q).today = (IF q.type = "security" THEN q.open
                                       ELSE order.flag \in {"Open", "CloseToday"})
<1>1. PICK x : x = order.qty
  OBVIOUS
<1>2. x \in Nat \ {0}
  BY <1>1
<1>3. /\ q.type \in {"security", "future"} /\ q.long \in BOOLEAN /\ q.open \in BOOLEAN
      /\ q.price \in Int
  BY RequestParts
<1>4. CASE q.type = "security"
  <2>1. TradeOf(order, q) = [open |-> q.open, long |-> q.long, today |-> q.open,
                             price |-> q.price, qty |-> x]
    BY <1>1, <1>4 DEF TradeOf, Trade
  <2> QED
    BY <1>1, <1>2, <1>3, <1>4, <2>1 DEF TradeInfos
<1>5. CASE q.type = "future"
  <2>1. TradeOf(order, q) = [open |-> order.flag = "Open", long |-> q.long,
                             today |-> order.flag \in {"Open", "CloseToday"},
                             price |-> q.price, qty |-> x]
    BY <1>1, <1>5 DEF TradeOf, Trade
  <2>2. (order.flag = "Open") \in BOOLEAN /\ (order.flag \in {"Open", "CloseToday"}) \in BOOLEAN
    OBVIOUS
  <2> QED
    BY <1>1, <1>2, <1>3, <1>5, <2>1, <2>2 DEF TradeInfos
<1> QED
  BY <1>3, <1>4, <1>5

LEMMA EmptyPositionParts ==
  /\ EmptyPosition \in CPositions
  /\ \A mult \in Int : Book(EmptyPosition, mult) = 0
  /\ Net(EmptyPosition) = 0
<1>1. EmptyPosition \in CPositions
  <2>1. 0 \in Int /\ <<>> \in Queues
    BY EmptyQueueSums
  <2> QED
    BY <2>1 DEF EmptyPosition, CPositions
<1>2. /\ EmptyPosition["ShortToday"] = <<>> /\ EmptyPosition["ShortYst"] = <<>>
      /\ EmptyPosition["LongToday"] = <<>> /\ EmptyPosition["LongYst"] = <<>>
      /\ EmptyPosition.realizedPnL = 0
  BY DEF EmptyPosition
<1>3. ASSUME NEW mult \in Int
      PROVE  Book(EmptyPosition, mult) = 0
  <2>1. Book(EmptyPosition, mult) = 0 + mult * ((0 + 0) - (0 + 0))
    BY <1>1, <1>2, BookParts, EmptyQueueSums
  <2>2. mult * ((0 + 0) - (0 + 0)) = 0
    OBVIOUS
  <2> QED
    BY <2>1, <2>2
<1>4. Net(EmptyPosition) = 0
  <2>1. 0 \in Int
    OBVIOUS
  <2>2. Net(EmptyPosition) = (0 + 0) - (0 + 0)
    BY <1>1, <1>2, <2>1, BookParts, EmptyQueueSums
  <2> QED
    BY <2>2
<1> QED
  BY <1>1, <1>3, <1>4

LEMMA PositionOfType ==
  ASSUME BooksOK, NEW inst
  PROVE  PositionOf(inst) \in CPositions
BY EmptyPositionParts DEF BooksOK, PositionOf

LEMMA PositionQueues ==
  ASSUME BooksOK, NEW inst, NEW type \in PositionTypes
  PROVE  SumQty(PositionOf(inst)[type]) \in Nat
BY PositionOfType, QueueOfType, QueueSums

-----------------------------------------------------------------------------
(* The innermost call, and what each action keeps.                         *)

LEMMA CallParts ==
  ASSUME CallsOK, NEW k \in 1 .. Len(calls)
  PROVE  /\ calls[k] \in CallRecords /\ calls[k].request \in Requests
         /\ calls[k].orders \in Seq(OrderRecords) /\ Len(calls[k].orders) \in {1, 2}
         /\ HeadOf(k) \in OrderRecords /\ HeadOf(k) = Head(calls[k].orders)
         /\ RequestOf(k) \in DOMAIN requests_ /\ requests_[RequestOf(k)] = calls[k].request
         /\ calls[k].request.type # "other"
         /\ HeadOf(k).id \in DOMAIN orders_ /\ orders_[HeadOf(k).id].request = RequestOf(k)
<1>1. calls[k] \in CallRecords /\ CallOf(k)
  BY DEF CallsOK
<1>2. PICK s : s = calls[k].orders
  OBVIOUS
<1>3. calls[k].request \in Requests /\ s \in Seq(OrderRecords)
  BY <1>1, <1>2 DEF CallRecords
<1>4. Len(s) \in {1, 2}
  BY <1>1, <1>2 DEF CallOf
<1>5. s # <<>> /\ s[1] \in OrderRecords /\ Head(s) = s[1]
  BY <1>3, <1>4
<1>6. HeadOf(k) = s[1]
  BY <1>2 DEF HeadOf
<1>7. /\ RequestOf(k) \in DOMAIN requests_ /\ requests_[RequestOf(k)] = calls[k].request
      /\ calls[k].request.type # "other"
      /\ HeadOf(k).id \in DOMAIN orders_ /\ orders_[HeadOf(k).id].request = RequestOf(k)
  BY <1>1 DEF CallOf, RequestOf, HeadOf
<1> QED
  BY <1>1, <1>2, <1>3, <1>4, <1>5, <1>6, <1>7

LEMMA CurrentParts ==
  ASSUME CallsOK, OrdersOK, calls # <<>>
  PROVE  /\ Len(calls) \in Nat \ {0} /\ Len(calls) \in 1 .. Len(calls)
         /\ Call = calls[Len(calls)] /\ Current = HeadOf(Len(calls)).id
         /\ Current \in DOMAIN orders_ /\ OrderOf(Current)
         /\ orders_[Current] \in OrderRecords /\ orders_[Current].qty \in Nat \ {0}
         /\ orders_[Current].id = Current
<1>1. Len(calls) \in Nat \ {0}
  BY DEF CallsOK
<1>2. Len(calls) \in 1 .. Len(calls)
  BY <1>1
<1>3. Call = calls[Len(calls)] /\ Current = HeadOf(Len(calls)).id
  BY <1>2, CallParts DEF Call, Current
<1>4. Current \in DOMAIN orders_
  BY <1>2, <1>3, CallParts
<1>5. OrderOf(Current)
  BY <1>4 DEF OrdersOK
<1>6. orders_[Current] \in OrderRecords /\ orders_[Current].id = Current
  BY <1>5 DEF OrderOf
<1>7. orders_[Current].qty \in Nat \ {0}
  BY <1>6 DEF OrderRecords
<1> QED
  BY <1>1, <1>2, <1>3, <1>4, <1>5, <1>6, <1>7

\* The fill of the order the innermost call shows.
FilledOrder == [orders_[Current] EXCEPT !.filled = orders_[Current].qty, !.status = "Filled"]
FillTrade   == TradeOf(FilledOrder, Call.request)
FillPos     == PositionOf(Call.request.inst)

LEMMA FillParts ==
  ASSUME BooksOK, CallsOK, OrdersOK, calls # <<>>
  PROVE  /\ FilledOrder \in OrderRecords
         /\ FilledOrder = [id |-> Current, request |-> orders_[Current].request,
                           flag |-> orders_[Current].flag, qty |-> orders_[Current].qty,
                           filled |-> orders_[Current].qty, status |-> "Filled"]
         /\ FillTrade \in TradeInfos /\ FillTrade.long = Call.request.long
         /\ FillTrade.price = Call.request.price /\ FillTrade.qty = orders_[Current].qty
         /\ FillPos \in CPositions /\ Call.request.inst \in Instruments
         /\ Call.request.price \in Int /\ multiplier[Call.request.inst] \in Int
         /\ Call.request \in Requests /\ Call.request.type # "other"
<1>1. PICK o : o = orders_[Current]
  OBVIOUS
<1>2. o \in OrderRecords /\ o.id = Current /\ o.qty \in Nat \ {0}
  BY <1>1, CurrentParts
<1>3. FilledOrder = [id |-> Current, request |-> o.request, flag |-> o.flag, qty |-> o.qty,
                     filled |-> o.qty, status |-> "Filled"]
  <2>1. o = [id |-> o.id, request |-> o.request, flag |-> o.flag, qty |-> o.qty,
             filled |-> o.filled, status |-> o.status]
    BY <1>2 DEF OrderRecords
  <2>2. FilledOrder = [o EXCEPT !.filled = o.qty, !.status = "Filled"]
    BY <1>1 DEF FilledOrder
  <2>3. FilledOrder = [id |-> o.id, request |-> o.request, flag |-> o.flag, qty |-> o.qty,
                       filled |-> o.qty, status |-> "Filled"]
    BY <2>1, <2>2
  <2> QED
    BY <1>2, <2>3
<1>4. FilledOrder \in OrderRecords /\ FilledOrder.qty = o.qty
  BY <1>2, <1>3 DEF OrderRecords
<1>5. Call.request \in Requests /\ Call.request.type # "other"
  BY CurrentParts, CallParts
<1>6. Call.request.inst \in Instruments /\ Call.request.price \in Int
  BY <1>5, RequestParts
<1>7. /\ FillTrade \in TradeInfos /\ FillTrade.long = Call.request.long
      /\ FillTrade.price = Call.request.price /\ FillTrade.qty = o.qty
  BY <1>2, <1>4, <1>5, TradeParts DEF FillTrade
<1>8. FillPos \in CPositions
  BY PositionOfType DEF FillPos
<1>9. multiplier[Call.request.inst] \in Int
  BY <1>6, MoneyAssumption
<1> QED
  BY <1>1, <1>3, <1>4, <1>5, <1>6, <1>7, <1>8, <1>9

\* FillOrder, by its parts.
LEMMA FillStep ==
  ASSUME FillOrder
  PROVE  /\ calls # <<>> /\ orders_[Current].status = "New"
         /\ orders_' = [orders_ EXCEPT ![Current] = FilledOrder]
         /\ positions' = Put(positions, Call.request.inst,
                             addTrade(FillPos, FillTrade, multiplier[Call.request.inst]))
         /\ Tell(FilledOrder, "Filled")
         /\ flow' = flow + FlowOf(Call.request, FilledOrder.qty)
         /\ net' = [net EXCEPT ![Call.request.inst] = @ + NetOf(Call.request, FilledOrder.qty)]
         /\ unmatched' = unmatched + Unmatched(FillPos, FillTrade)
         /\ UNCHANGED <<requestID_, requests_, cash, calls, days, reentered>>
BY DEF FillOrder, FilledOrder, FillTrade, FillPos

LEMMA AddTradeType ==
  ASSUME NEW pos \in CPositions, NEW trade \in TradeInfos, NEW mult \in Int
  PROVE  addTrade(pos, trade, mult) \in CPositions
<1>1. CASE trade.open
  BY <1>1, OpenSpec
<1>2. CASE ~trade.open
  BY <1>2, CloseSpec
<1> QED
  BY <1>1, <1>2

LEMMA FlowParts ==
  ASSUME NEW q \in Requests, q.type # "other", NEW qty \in Nat, NEW trade \in TradeInfos,
         trade.long = q.long, trade.price = q.price, trade.qty = qty
  PROVE  /\ FlowOf(q, qty) \in Int /\ NetOf(q, qty) \in Int
         /\ FlowOf(q, qty) = multiplier[q.inst] * Paid(trade)
         /\ NetOf(q, qty) = Bought(trade)
<1>1. PICK m, p : m = multiplier[q.inst] /\ p = q.price
  OBVIOUS
<1>2. m \in Int /\ p \in Int /\ q.long \in BOOLEAN
  BY <1>1, RequestParts, MoneyAssumption
<1>3. FlowOf(q, qty) = (IF q.long THEN -1 ELSE 1) * qty * p * m
      /\ NetOf(q, qty) = (IF q.long THEN 1 ELSE -1) * qty
  BY <1>1 DEF FlowOf, NetOf
<1>4. Paid(trade) = (IF q.long THEN -1 ELSE 1) * (qty * p)
      /\ Bought(trade) = (IF q.long THEN 1 ELSE -1) * qty
  BY <1>1 DEF Paid, Bought
<1>5. PICK z : z = qty * p
  OBVIOUS
<1>6. z \in Int /\ m * z \in Int /\ z * m = m * z
  BY <1>2, <1>5, TimesDifference
<1>7. CASE q.long
  <2>1. (-1) * qty * p = -z /\ (-1) * qty * p * m = (-z) * m /\ (-z) * m = m * (-z)
        /\ (-1) * z = -z
    BY <1>2, <1>5, <1>6
  <2>2. m * (-z) \in Int /\ 1 * qty \in Int
    BY <1>2, <1>6
  <2> QED
    BY <1>1, <1>3, <1>4, <1>5, <1>7, <2>1, <2>2
<1>8. CASE ~q.long
  <2>1. 1 * qty * p = z /\ 1 * qty * p * m = z * m /\ 1 * z = z /\ (-1) * qty \in Int
    BY <1>2, <1>5, <1>6
  <2> QED
    BY <1>1, <1>3, <1>4, <1>5, <1>6, <1>8, <2>1
<1> QED
  BY <1>7, <1>8

-----------------------------------------------------------------------------
(* The books.                                                              *)

PositionsOK(ps) ==
  DOMAIN ps \subseteq Instruments /\ IsFiniteSet(DOMAIN ps) /\ \A i \in DOMAIN ps : ps[i] \in CPositions

BookIn(ps, i) == IF i \in DOMAIN ps THEN ps[i] ELSE EmptyPosition

BooksIn(ps) == [i \in DOMAIN ps |-> Book(ps[i], multiplier[i])]

\* Ledger, of any positions, cash, flow and net.
LedgerOf(ps, c, f, nt) ==
  /\ c + SumOf(BooksIn(ps)) = f
  /\ \A i \in Instruments : Net(BookIn(ps, i)) = nt[i]

LEMMA LedgerIs ==
  /\ Ledger <=> (unmatched = 0 => LedgerOf(positions, cash, flow, net))
  /\ Ledger' <=> (unmatched' = 0 => LedgerOf(positions', cash', flow', net'))
<1>1. SumOver([i \in DOMAIN positions |-> BookValue(i)]) = SumOf(BooksIn(positions))
  BY DEF SumOver, SumOf, BooksIn, BookValue, Book
<1>2. SumOver([i \in DOMAIN positions' |-> BookValue(i)']) = SumOf(BooksIn(positions'))
  BY DEF SumOver, SumOf, BooksIn, BookValue, Book
<1>3. \A i \in Instruments : BookNet(i) = Net(BookIn(positions, i))
  BY DEF BookNet, Net, PositionOf, BookIn
<1>4. \A i \in Instruments : BookNet(i)' = Net(BookIn(positions', i))
  BY DEF BookNet, Net, PositionOf, BookIn
<1>5. Ledger <=> (unmatched = 0 => LedgerOf(positions, cash, flow, net))
  BY <1>1, <1>3 DEF Ledger, LedgerOf
<1>6. Ledger' <=> (unmatched' = 0 => LedgerOf(positions', cash', flow', net'))
  BY <1>2, <1>4 DEF Ledger, LedgerOf
<1> QED
  BY <1>5, <1>6

LEMMA PositionsPut ==
  ASSUME NEW ps, PositionsOK(ps), NEW inst \in Instruments, NEW new \in CPositions,
         NEW qs, IsUpdated(qs, ps, inst, new)
  PROVE  PositionsOK(qs)
<1>1. DOMAIN qs = DOMAIN ps \cup {inst}
  BY DEF IsUpdated
<1>2. DOMAIN qs \subseteq Instruments
  BY <1>1 DEF PositionsOK
<1>3. IsFiniteSet(DOMAIN qs)
  BY <1>1, FS_AddElement DEF PositionsOK
<1>4. \A i \in DOMAIN qs : qs[i] \in CPositions
  BY <1>1 DEF IsUpdated, PositionsOK
<1> QED
  BY <1>2, <1>3, <1>4 DEF PositionsOK

LEMMA BooksInType ==
  ASSUME NEW ps, PositionsOK(ps)
  PROVE  /\ BooksIn(ps) \in [DOMAIN ps -> Int] /\ SumOf(BooksIn(ps)) \in Int
         /\ \A i \in DOMAIN ps : multiplier[i] \in Int /\ BooksIn(ps)[i] = Book(ps[i], multiplier[i])
<1>1. \A i \in DOMAIN ps : multiplier[i] \in Int /\ ps[i] \in CPositions
  BY MoneyAssumption DEF PositionsOK
<1>2. \A i \in DOMAIN ps : Book(ps[i], multiplier[i]) \in Int
  BY <1>1, BookParts
<1>3. BooksIn(ps) \in [DOMAIN ps -> Int]
  BY <1>2 DEF BooksIn
<1>4. SumOf(BooksIn(ps)) \in Int
  BY <1>3, SumOfType DEF PositionsOK
<1>5. \A i \in DOMAIN ps : BooksIn(ps)[i] = Book(ps[i], multiplier[i])
  BY DEF BooksIn
<1> QED
  BY <1>1, <1>3, <1>4, <1>5

\* One position changes, and its book and its net by as much as the flow and the net.
LEMMA LedgerPut ==
  ASSUME NEW ps, PositionsOK(ps), NEW inst \in Instruments, NEW new \in CPositions,
         NEW qs, IsUpdated(qs, ps, inst, new), NEW c \in Int, NEW f \in Int, NEW nt,
         LedgerOf(ps, c, f, nt), NEW x \in Int, NEW mt,
         Book(new, multiplier[inst]) = Book(BookIn(ps, inst), multiplier[inst]) + x,
         mt[inst] = Net(new), \A i \in Instruments : i # inst => mt[i] = nt[i]
  PROVE  LedgerOf(qs, c, f + x, mt)
<1>1. PICK D, E, v, w : D = DOMAIN ps /\ E = DOMAIN qs /\ v = BooksIn(ps) /\ w = BooksIn(qs)
  OBVIOUS
<1>2. /\ E = D \cup {inst} /\ qs[inst] = new /\ \A i \in D : i # inst => qs[i] = ps[i]
  BY <1>1 DEF IsUpdated
<1>3. PositionsOK(qs)
  BY PositionsPut
<1>4. /\ IsFiniteSet(D) /\ v \in [D -> Int] /\ w \in [E -> Int] /\ SumOf(v) \in Int
      /\ \A i \in D : v[i] = Book(ps[i], multiplier[i])
      /\ \A i \in E : w[i] = Book(qs[i], multiplier[i])
  BY <1>1, <1>3, BooksInType DEF PositionsOK
<1>5. \A i \in D : i # inst => w[i] = v[i]
  BY <1>2, <1>4
<1>6. w[inst] = Book(new, multiplier[inst]) /\ w[inst] \in Int
  BY <1>2, <1>4
<1>7. SumOf(w) = SumOf(v) + x
  <2>1. CASE inst \in D
    <3>1. w[inst] = v[inst] + x /\ v[inst] \in Int
      BY <1>1, <1>4, <1>6, <2>1 DEF BookIn
    <3>2. E = D
      BY <1>2, <2>1
    <3>3. SumOf(w) = SumOf(v) - v[inst] + w[inst]
      BY <1>4, <1>5, <2>1, <3>2, SumOfChange
    <3> QED
      BY <1>4, <3>1, <3>3
  <2>2. CASE inst \notin D
    <3>1. Book(BookIn(ps, inst), multiplier[inst]) = 0
      BY <1>1, <2>2, EmptyPositionParts, MoneyAssumption DEF BookIn
    <3>2. w[inst] = x
      BY <1>6, <3>1
    <3>3. IsFiniteSet(D) /\ v \in [D -> Int] /\ w \in [E -> Int] /\ E = D \cup {inst}
      BY <1>2, <1>4
    <3>4. \A i \in D : w[i] = v[i]
      BY <1>5, <2>2
    <3>5. SumOf(w) = SumOf(v) + w[inst]
      BY <2>2, <3>3, <3>4, SumOfOneMore
    <3> QED
      BY <3>2, <3>5
  <2> QED
    BY <2>1, <2>2
<1>8. c + SumOf(w) = f + x
  <2>1. c + SumOf(v) = f
    BY <1>1 DEF LedgerOf
  <2> QED
    BY <1>4, <1>7, <2>1
<1>9. ASSUME NEW i \in Instruments
      PROVE  Net(BookIn(qs, i)) = mt[i]
  <2>1. CASE i = inst
    BY <1>1, <1>2, <2>1 DEF BookIn
  <2>2. CASE i # inst
    <3>1. BookIn(qs, i) = BookIn(ps, i)
      BY <1>1, <1>2, <2>2 DEF BookIn
    <3>2. Net(BookIn(ps, i)) = nt[i]
      BY DEF LedgerOf
    <3> QED
      BY <2>2, <3>1, <3>2
  <2> QED
    BY <2>1, <2>2
<1> QED
  BY <1>1, <1>8, <1>9 DEF LedgerOf

\* The start of a day.
LEMMA DayPositions ==
  ASSUME NEW ps, PositionsOK(ps), NEW qs,
         qs = [i \in DOMAIN ps |-> [resetPnl(ps[i], multiplier[i]) EXCEPT !.tradeCount = 0]]
  PROVE  /\ PositionsOK(qs) /\ DOMAIN qs = DOMAIN ps
         /\ \A i \in DOMAIN ps : /\ multiplier[i] \in Int /\ ps[i] \in CPositions
                                 /\ qs[i] \in CPositions /\ IsReset(qs[i], ps[i])
         /\ \A i \in DOMAIN ps : /\ getPositionPnl(ps[i], multiplier[i]) \in Int
                                 /\ getPositionPnl(qs[i], multiplier[i]) = 0
         /\ DaysPnl(ps) = SumOf([i \in DOMAIN ps |-> getPositionPnl(ps[i], multiplier[i])])
         /\ DaysPnl(ps) \in Int
<1>1. PICK D, u : D = DOMAIN ps /\ u = [i \in D |-> getPositionPnl(ps[i], multiplier[i])]
  OBVIOUS
<1>2. DOMAIN qs = D
  BY <1>1
<1>3. ASSUME NEW i \in D
      PROVE  /\ multiplier[i] \in Int /\ ps[i] \in CPositions /\ qs[i] \in CPositions
             /\ IsReset(qs[i], ps[i])
  <2>1. multiplier[i] \in Int /\ ps[i] \in CPositions
    BY <1>1, MoneyAssumption DEF PositionsOK
  <2>2. qs[i] = [resetPnl(ps[i], multiplier[i]) EXCEPT !.tradeCount = 0]
    BY <1>1
  <2> QED
    BY <2>1, <2>2, ResetSpec
<1>4. PositionsOK(qs)
  BY <1>1, <1>2, <1>3 DEF PositionsOK
<1>5. ASSUME NEW i \in D
      PROVE  /\ getPositionPnl(ps[i], multiplier[i]) \in Int
             /\ getPositionPnl(qs[i], multiplier[i]) = 0
  BY <1>3, ResetBooks
<1>6. IsFiniteSet(D) /\ u \in [D -> Int]
  BY <1>1, <1>5 DEF PositionsOK
<1>7. SumOf(u) \in Int
  BY <1>6, SumOfType
<1>8. DaysPnl(ps) = SumOf(u)
  BY <1>1 DEF DaysPnl, SumOver, SumOf
<1> QED
  BY <1>1, <1>2, <1>3, <1>4, <1>5, <1>7, <1>8

LEMMA LedgerDay ==
  ASSUME NEW ps, PositionsOK(ps), NEW qs, NEW c \in Int, NEW f \in Int, NEW nt,
         LedgerOf(ps, c, f, nt),
         qs = [i \in DOMAIN ps |-> [resetPnl(ps[i], multiplier[i]) EXCEPT !.tradeCount = 0]]
  PROVE  LedgerOf(qs, c + DaysPnl(ps), f, nt)
<1>1. PICK D, v, w, u : /\ D = DOMAIN ps /\ v = BooksIn(ps) /\ w = BooksIn(qs)
                        /\ u = [i \in D |-> getPositionPnl(ps[i], multiplier[i])]
  OBVIOUS
<1>2. DOMAIN qs = D /\ PositionsOK(qs)
  BY <1>1, DayPositions
<1>3. \A i \in D : /\ multiplier[i] \in Int /\ ps[i] \in CPositions /\ qs[i] \in CPositions
                   /\ IsReset(qs[i], ps[i])
  BY <1>1, DayPositions
<1>4. DaysPnl(ps) = SumOf(u)
  BY <1>1, DayPositions
<1>5. /\ IsFiniteSet(D) /\ v \in [D -> Int] /\ w \in [D -> Int]
      /\ \A i \in D : v[i] = Book(ps[i], multiplier[i])
      /\ \A i \in D : w[i] = Book(qs[i], multiplier[i])
  BY <1>1, <1>2, BooksInType DEF PositionsOK
<1>6. ASSUME NEW i \in D
      PROVE  u[i] \in Int /\ v[i] = u[i] + w[i]
  <2>1. u[i] = getPositionPnl(ps[i], multiplier[i])
    BY <1>1
  <2>2. /\ getPositionPnl(ps[i], multiplier[i]) \in Int
        /\ Book(ps[i], multiplier[i])
             = getPositionPnl(ps[i], multiplier[i]) + Book(qs[i], multiplier[i])
    BY <1>3, ResetBooks
  <2> QED
    BY <1>5, <2>1, <2>2
<1>7. u \in [D -> Int]
  BY <1>1, <1>6
<1>8. SumOf(v) = SumOf(u) + SumOf(w)
  BY <1>5, <1>6, <1>7, SumOfSums
<1>9. SumOf(u) \in Int /\ SumOf(v) \in Int /\ SumOf(w) \in Int
  BY <1>5, <1>7, SumOfType
<1>10. (c + SumOf(u)) + SumOf(w) = f
  <2>1. c + SumOf(v) = f
    BY <1>1 DEF LedgerOf
  <2> QED
    BY <1>8, <1>9, <2>1
<1>11. ASSUME NEW i \in Instruments
       PROVE  Net(BookIn(qs, i)) = nt[i]
  <2>1. Net(BookIn(ps, i)) = nt[i]
    BY DEF LedgerOf
  <2>2. CASE i \in D
    <3>1. Net(qs[i]) = Net(ps[i])
      BY <1>3, <2>2, ResetBooks
    <3> QED
      BY <1>1, <1>2, <2>1, <2>2, <3>1 DEF BookIn
  <2>3. CASE i \notin D
    BY <1>1, <1>2, <2>1, <2>3 DEF BookIn
  <2> QED
    BY <2>2, <2>3
<1> QED
  BY <1>1, <1>4, <1>9, <1>10, <1>11 DEF LedgerOf

LEMMA BooksParts ==
  ASSUME BooksOK
  PROVE  PositionsOK(positions) /\ cash \in Int /\ flow \in Int
BY DEF BooksOK, PositionsOK

\* Looking a position up changes no book.
LEMMA TouchBooks ==
  ASSUME BooksOK, NEW inst \in Instruments, NEW ps, ps = Touched(inst)
  PROVE  /\ PositionsOK(ps)
         /\ \A i : BookIn(ps, i) = PositionOf(i)
         /\ LedgerOf(positions, cash, flow, net) => LedgerOf(ps, cash, flow, net)
<1>1. PICK p : p = PositionOf(inst)
  OBVIOUS
<1>2. p \in CPositions /\ IsUpdated(ps, positions, inst, p) /\ p = BookIn(positions, inst)
  BY <1>1, PositionOfType, Updated DEF Touched, PositionOf, BookIn
<1>3. PositionsOK(ps)
  BY <1>2, BooksParts, PositionsPut
<1>4. \A i : BookIn(ps, i) = PositionOf(i)
  BY <1>1, <1>2 DEF IsUpdated, BookIn, PositionOf
<1>5. ASSUME LedgerOf(positions, cash, flow, net)
      PROVE  LedgerOf(ps, cash, flow, net)
  <2>1. PICK m : m = multiplier[inst]
    OBVIOUS
  <2>2. Book(p, m) \in Int
    BY <1>2, <2>1, BookParts, MoneyAssumption
  <2>3. Book(p, m) = Book(BookIn(positions, inst), m) + 0
    BY <1>2, <2>2
  <2>4. net[inst] = Net(p)
    BY <1>2, <1>5 DEF LedgerOf
  <2>5. 0 \in Int /\ flow + 0 = flow
    BY BooksParts
  <2>6. LedgerOf(ps, cash, flow + 0, net)
    BY <1>2, <1>5, <2>1, <2>3, <2>4, <2>5, BooksParts, LedgerPut
  <2> QED
    BY <2>5, <2>6
<1> QED
  BY <1>3, <1>4, <1>5

LEMMA SubmitBooks ==
  ASSUME BooksOK, Ledger, NEW q \in Requests, submitRequest(q)
  PROVE  BooksOK' /\ Ledger'
<1>1. UNCHANGED <<cash, days, flow, net, unmatched>> /\ reentered' \in BOOLEAN
  BY DEF submitRequest, BooksOK
<1>2. positions' = positions \/ \E inst \in Instruments : positions' = Touched(inst)
  <2>1. CASE q.type = "other"
    BY <2>1 DEF submitRequest
  <2>2. CASE q.type # "other"
    BY <2>2, RequestParts DEF submitRequest
  <2> QED
    BY <2>1, <2>2
<1>3. PositionsOK(positions')
      /\ (LedgerOf(positions, cash, flow, net) => LedgerOf(positions', cash, flow, net))
  <2>1. CASE positions' = positions
    BY <2>1, BooksParts
  <2>2. CASE \E inst \in Instruments : positions' = Touched(inst)
    BY <2>2, TouchBooks
  <2> QED
    BY <1>2, <2>1, <2>2
<1>4. BooksOK'
  BY <1>1, <1>3 DEF BooksOK, PositionsOK
<1>5. Ledger'
  BY <1>1, <1>3, LedgerIs
<1> QED
  BY <1>4, <1>5

LEMMA FillBooks ==
  ASSUME BooksOK, OrdersOK, CallsOK, Ledger, FillOrder
  PROVE  BooksOK' /\ Ledger'
<1>1. PICK inst, m, new, x, y : /\ inst = Call.request.inst /\ m = multiplier[inst]
                                /\ new = addTrade(FillPos, FillTrade, m)
                                /\ x = FlowOf(Call.request, FilledOrder.qty)
                                /\ y = NetOf(Call.request, FilledOrder.qty)
  OBVIOUS
<1>2. calls # <<>>
  BY FillStep
<1>3. /\ FillTrade \in TradeInfos /\ FillPos \in CPositions /\ inst \in Instruments /\ m \in Int
      /\ FillTrade.long = Call.request.long /\ FillTrade.price = Call.request.price
      /\ FillTrade.qty = FilledOrder.qty /\ FilledOrder.qty \in Nat
      /\ Call.request \in Requests /\ Call.request.type # "other"
  BY <1>1, <1>2, FillParts, CurrentParts
<1>4. new \in CPositions /\ FillPos = BookIn(positions, inst)
  BY <1>1, <1>3, AddTradeType DEF FillPos, PositionOf, BookIn
<1>5. x \in Int /\ y \in Int /\ x = m * Paid(FillTrade) /\ y = Bought(FillTrade)
  BY <1>1, <1>3, FlowParts
<1>6. /\ IsUpdated(positions', positions, inst, new)
      /\ flow' = flow + x /\ net' = [net EXCEPT ![inst] = @ + y]
      /\ unmatched' = unmatched + Unmatched(FillPos, FillTrade)
      /\ UNCHANGED <<cash, days, reentered>>
  BY <1>1, FillStep, Updated
<1>7. Unmatched(FillPos, FillTrade) \in Nat
  BY <1>3, UnmatchedSpec
<1>8. PositionsOK(positions')
  BY <1>3, <1>4, <1>6, BooksParts, PositionsPut
<1>9. BooksOK'
  <2>1. flow' \in Int /\ unmatched' \in Nat
    BY <1>5, <1>6, <1>7 DEF BooksOK
  <2>2. net' \in [Instruments -> Int]
    BY <1>3, <1>5, <1>6 DEF BooksOK
  <2> QED
    BY <1>6, <1>8, <2>1, <2>2 DEF BooksOK, PositionsOK
<1>10. ASSUME unmatched' = 0
       PROVE  LedgerOf(positions', cash', flow', net')
  <2>1. unmatched = 0 /\ Unmatched(FillPos, FillTrade) = 0
    BY <1>6, <1>7, <1>10 DEF BooksOK
  <2>2. LedgerOf(positions, cash, flow, net)
    BY <2>1, LedgerIs
  <2>3. /\ Book(new, m) = Book(BookIn(positions, inst), m) + x
        /\ Net(new) = Net(BookIn(positions, inst)) + y
    BY <1>1, <1>3, <1>4, <1>5, <2>1, AddTradeBooks
  <2>4. net[inst] = Net(BookIn(positions, inst))
    BY <1>3, <2>2 DEF LedgerOf
  <2>5. net'[inst] = Net(new) /\ \A i \in Instruments : i # inst => net'[i] = net[i]
    BY <1>3, <1>6, <2>3, <2>4 DEF BooksOK
  <2>6. LedgerOf(positions', cash, flow + x, net')
    <3>1. PICK nt : nt = net'
      OBVIOUS
    <3>2. /\ Book(new, multiplier[inst]) = Book(BookIn(positions, inst), multiplier[inst]) + x
          /\ nt[inst] = Net(new) /\ \A i \in Instruments : i # inst => nt[i] = net[i]
          /\ x \in Int /\ inst \in Instruments /\ new \in CPositions
      BY <1>1, <1>3, <1>4, <1>5, <2>3, <2>5, <3>1
    <3>3. LedgerOf(positions', cash, flow + x, nt)
      BY <1>6, <2>2, <3>2, BooksParts, LedgerPut
    <3> QED
      BY <3>1, <3>3
  <2> QED
    BY <1>6, <2>6
<1>11. Ledger'
  BY <1>10, LedgerIs
<1> QED
  BY <1>9, <1>11

LEMMA TickBooks ==
  ASSUME BooksOK, Ledger, NEW inst \in Instruments, NEW price \in Prices, onMarketData(inst, price)
  PROVE  BooksOK' /\ Ledger'
<1>1. PICK old, new : old = positions[inst] /\ new = [old EXCEPT !.lastPrice = price]
  OBVIOUS
<1>2. inst \in DOMAIN positions /\ UNCHANGED <<cash, days, flow, net, unmatched, reentered>>
      /\ positions' = [positions EXCEPT ![inst] = new]
  BY <1>1 DEF onMarketData, ghostVars
<1>3. old \in CPositions
  BY <1>1, <1>2 DEF BooksOK
<1>4. price \in Int
  BY QuantityAssumption
<1>5. new = [LongToday |-> old.LongToday, LongYst |-> old.LongYst,
             ShortToday |-> old.ShortToday, ShortYst |-> old.ShortYst,
             lastPrice |-> price, realizedPnL |-> old.realizedPnL, tradeCount |-> old.tradeCount]
  BY <1>1, <1>3, PositionParts
<1>6. /\ new.lastPrice = price /\ new.realizedPnL = old.realizedPnL
      /\ new.tradeCount = old.tradeCount /\ new.LongToday = old.LongToday
      /\ new.LongYst = old.LongYst /\ new.ShortToday = old.ShortToday
      /\ new.ShortYst = old.ShortYst
  BY <1>5
<1>7. new \in CPositions
  BY <1>3, <1>4, <1>5, <1>6, PositionParts
<1>8. IsUpdated(positions', positions, inst, new)
  BY <1>2, SetInMap
<1>9. PositionsOK(positions')
  BY <1>7, <1>8, BooksParts, PositionsPut
<1>10. BooksOK'
  BY <1>2, <1>9 DEF BooksOK, PositionsOK
<1>11. ASSUME LedgerOf(positions, cash, flow, net)
       PROVE  LedgerOf(positions', cash, flow, net)
  <2>1. PICK m : m = multiplier[inst]
    OBVIOUS
  <2>2. old = BookIn(positions, inst) /\ Book(new, m) = Book(old, m) /\ Net(new) = Net(old)
    BY <1>1, <1>2, <1>6 DEF BookIn, Book, Net
  <2>3. Book(old, m) \in Int
    BY <1>3, <2>1, BookParts, MoneyAssumption
  <2>4. Book(new, m) = Book(BookIn(positions, inst), m) + 0 /\ net[inst] = Net(new)
    BY <1>11, <2>2, <2>3 DEF LedgerOf
  <2>5. 0 \in Int /\ flow + 0 = flow
    BY BooksParts
  <2>6. LedgerOf(positions', cash, flow + 0, net)
    BY <1>7, <1>8, <1>11, <2>1, <2>4, <2>5, BooksParts, LedgerPut
  <2> QED
    BY <2>5, <2>6
<1>12. Ledger'
  BY <1>2, <1>11, LedgerIs
<1> QED
  BY <1>10, <1>12

LEMMA DayBooks ==
  ASSUME BooksOK, Ledger, onStartDay
  PROVE  BooksOK' /\ Ledger'
<1>1. /\ cash' = cash + DaysPnl(positions) /\ UNCHANGED <<flow, net, unmatched, reentered>>
      /\ positions' = [i \in DOMAIN positions |->
                         [resetPnl(positions[i], multiplier[i]) EXCEPT !.tradeCount = 0]]
      /\ days < MaxDays /\ days' = days + 1
  BY DEF onStartDay, resetPositionTodayToYst, ghostVars
<1>2. PositionsOK(positions) /\ cash \in Int /\ flow \in Int
  BY BooksParts
<1>3. ASSUME LedgerOf(positions, cash, flow, net)
      PROVE  LedgerOf(positions', cash', flow', net')
  BY <1>1, <1>2, <1>3, LedgerDay
<1>4. PositionsOK(positions') /\ DaysPnl(positions) \in Int
  BY <1>1, <1>2, DayPositions
<1>5. BooksOK'
  <2>1. cash' \in Int /\ days' \in 0 .. MaxDays
    BY <1>1, <1>2, <1>4, BoundAssumption DEF BooksOK
  <2> QED
    BY <1>1, <1>4, <2>1 DEF BooksOK, PositionsOK
<1>6. Ledger'
  BY <1>1, <1>3, LedgerIs
<1> QED
  BY <1>5, <1>6

-----------------------------------------------------------------------------
(* The orders made of a request.                                           *)

\* s are the orders of request q, numbered r: a refusal, or one or two orders that
\* together ask for what the request asks for, and that the positions cover.
IsMade(s, r, q) ==
  /\ s \in Seq(OrderRecords) /\ Len(s) \in {1, 2}
  /\ s[1].request = r /\ s[1].id \in {r, SecondOrderId(r)}
  /\ s[1].status \in {"New", "Rejected"} /\ s[1].filled = 0
  /\ s[1].status = "Rejected" => Len(s) = 1 /\ s[1].id = r
  /\ s[1].status = "New" => s[1].qty + (IF Len(s) = 2 THEN s[2].qty ELSE 0) = q.qty
  /\ s[1].status = "New" => CoveredOrder(s[1], q)
  /\ Len(s) = 2 => /\ s[1].id = r /\ s[1].status = "New" /\ s[1].flag = "CloseToday"
                   /\ q.type = "future"
                   /\ s[2] = Order(SecondOrderId(r), r, "CloseYst", s[2].qty, "New")
                   /\ CoveredOrder(s[2], q)

Flags == {"Open", "CloseToday", "CloseYst", "None"}

LEMMA OrderParts ==
  ASSUME NEW r \in RequestIds, NEW id \in {r, SecondOrderId(r)}, NEW flag \in Flags,
         NEW qty \in Nat \ {0}, NEW status \in {"New", "Rejected"}, NEW order,
         order = Order(id, r, flag, qty, status)
  PROVE  /\ order \in OrderRecords /\ order.id = id /\ order.request = r /\ order.flag = flag
         /\ order.qty = qty /\ order.filled = 0 /\ order.status = status
<1>1. id \in OrderIds
  BY Ids
<1>2. order = [id |-> id, request |-> r, flag |-> flag, qty |-> qty, filled |-> 0, status |-> status]
  BY DEF Order
<1>3. 0 \in Nat
  OBVIOUS
<1> QED
  BY <1>1, <1>2, <1>3 DEF OrderRecords, Flags

LEMMA OneMade ==
  ASSUME NEW r \in RequestIds, NEW q, NEW id \in {r, SecondOrderId(r)}, NEW flag \in Flags,
         NEW qty \in Nat \ {0}, NEW status \in {"New", "Rejected"}, NEW s,
         s = <<Order(id, r, flag, qty, status)>>,
         status = "Rejected" => id = r,
         status = "New" => qty = q.qty /\ CoveredOrder(Order(id, r, flag, qty, status), q)
  PROVE  IsMade(s, r, q)
<1>1. PICK h : h = Order(id, r, flag, qty, status)
  OBVIOUS
<1>2. /\ h \in OrderRecords /\ h.id = id /\ h.request = r /\ h.qty = qty /\ h.filled = 0
      /\ h.status = status
  BY <1>1, OrderParts
<1>3. s = <<h>>
  BY <1>1
<1>4. s \in Seq(OrderRecords) /\ Len(s) = 1 /\ s[1] = h
  BY <1>2, <1>3
<1>5. Len(s) \in {1, 2} /\ Len(s) # 2
  BY <1>4
<1>6. h.status = "New" => h.qty + 0 = q.qty /\ CoveredOrder(h, q)
  BY <1>1, <1>2
<1> QED
  BY <1>2, <1>4, <1>5, <1>6 DEF IsMade

LEMMA TwoMade ==
  ASSUME NEW r \in RequestIds, NEW q, NEW a \in Nat \ {0}, NEW b \in Nat \ {0}, a + b = q.qty,
         q.type = "future",
         CoveredOrder(Order(r, r, "CloseToday", a, "New"), q),
         CoveredOrder(Order(SecondOrderId(r), r, "CloseYst", b, "New"), q),
         NEW s, s = <<Order(r, r, "CloseToday", a, "New")>>
                    \o <<Order(SecondOrderId(r), r, "CloseYst", b, "New")>>
  PROVE  IsMade(s, r, q)
<1>1. PICK h, t : /\ h = Order(r, r, "CloseToday", a, "New")
                  /\ t = Order(SecondOrderId(r), r, "CloseYst", b, "New")
  OBVIOUS
<1>2. /\ h \in OrderRecords /\ h.id = r /\ h.request = r /\ h.qty = a /\ h.filled = 0
      /\ h.status = "New" /\ h.flag = "CloseToday"
  BY <1>1, OrderParts DEF Flags
<1>3. t \in OrderRecords /\ t.qty = b
  BY <1>1, OrderParts DEF Flags
<1>4. s = <<h>> \o <<t>>
  BY <1>1
<1>5. s \in Seq(OrderRecords) /\ Len(s) = 2 /\ s[1] = h /\ s[2] = t
  <2>1. PICK hs, ts : hs = <<h>> /\ ts = <<t>>
    OBVIOUS
  <2>2. /\ hs \in Seq(OrderRecords) /\ Len(hs) = 1 /\ hs[1] = h
        /\ ts \in Seq(OrderRecords) /\ Len(ts) = 1 /\ ts[1] = t
    BY <1>2, <1>3, <2>1
  <2>3. s = hs \o ts
    BY <1>4, <2>1
  <2>4. PICK a1 \in Nat : a1 = 1
    OBVIOUS
  <2>5. s \in Seq(OrderRecords) /\ IsConcat(s, hs, ts, a1, a1)
    BY <2>2, <2>3, <2>4, ConcatElements
  <2>6. Len(s) = 2 /\ s[1] = hs[1] /\ s[2] = ts[1]
    BY <2>4, <2>5 DEF IsConcat
  <2> QED
    BY <2>2, <2>5, <2>6
<1>6. Len(s) \in {1, 2}
  BY <1>5
<1> QED
  BY <1>1, <1>2, <1>3, <1>5, <1>6 DEF IsMade

\* The position after the request is the one the check looked at.
LEMMA OrdersForSpec ==
  ASSUME BooksOK, NEW r \in RequestIds, NEW q \in Requests, q.type # "other"
  PROVE  IsMade(OrdersFor(r, q), r, q)
<1>1. /\ q.type \in {"security", "future"} /\ q.inst \in Instruments
      /\ q.long \in BOOLEAN /\ q.open \in BOOLEAN
      /\ q.price \in Nat /\ q.qty \in Nat \ {0}
      /\ q.type = "security" => q.open = q.long
  BY RequestParts
<1>2. PICK pos, s : pos = PositionOf(q.inst) /\ s = OrdersFor(r, q)
  OBVIOUS
<1>3. \A type \in PositionTypes : SumQty(pos[type]) \in Nat
  BY <1>2, PositionQueues
<1>4. CASE ~Valid(q)
  <2>1. s = <<Order(r, r, "None", q.qty, "Rejected")>>
    BY <1>2, <1>4 DEF OrdersFor
  <2>2. "None" \in Flags /\ "Rejected" \in {"New", "Rejected"} /\ "Rejected" # "New"
        /\ r \in {r, SecondOrderId(r)}
    BY DEF Flags
  <2> QED
    BY <1>1, <1>2, <2>1, <2>2, OneMade
<1>5. CASE Valid(q) /\ ~(q.type = "future" /\ ~q.open)
  <2>1. s = <<Order(r, r, "Open", q.qty, "New")>>
    BY <1>2, <1>5 DEF OrdersFor
  <2>2. PICK order, trade : /\ order = Order(r, r, "Open", q.qty, "New")
                            /\ trade = TradeOf(order, q)
    OBVIOUS
  <2>3. "Open" \in Flags /\ "New" \in {"New", "Rejected"} /\ r \in {r, SecondOrderId(r)}
        /\ "New" # "Rejected"
    BY DEF Flags
  <2>4. order.qty = q.qty /\ order.flag = "Open"
    BY <1>1, <2>2, <2>3, OrderParts
  <2>5. /\ trade.open = q.open /\ trade.long = q.long
        /\ trade.today = IF q.type = "security" THEN q.open ELSE TRUE
    <3>1. order.qty \in Nat \ {0}
      BY <1>1, <2>4
    <3>2. /\ trade.long = q.long
          /\ trade.open = (IF q.type = "security" THEN q.open ELSE order.flag = "Open")
          /\ trade.today = (IF q.type = "security" THEN q.open ELSE order.flag \in {"Open", "CloseToday"})
      BY <2>2, <3>1, TradeParts
    <3>3. CASE q.type = "security"
      BY <3>2, <3>3
    <3>4. CASE q.type # "security"
      <4>1. q.open = TRUE
        BY <1>1, <1>5, <3>4
      <4>2. order.flag = "Open" /\ order.flag \in {"Open", "CloseToday"}
        BY <2>4
      <4> QED
        BY <3>2, <3>4, <4>1, <4>2
    <3> QED
      BY <3>3, <3>4
  <2>6. CoveredOrder(order, q)
    <3>1. CASE q.open
      BY <2>2, <2>5, <3>1 DEF CoveredOrder
    <3>2. CASE ~q.open
      <4>1. q.type = "security" /\ ~q.long
        BY <1>1, <1>5, <3>2
      <4>2. CloseQueue(trade) = "LongYst"
        BY <2>5, <3>2, <4>1 DEF CloseQueue
      <4>3. q.qty <= SumQty(pos["LongYst"])
        BY <1>2, <1>5, <4>1 DEF Valid, TotalQty
      <4> QED
        BY <1>2, <2>2, <2>4, <4>2, <4>3 DEF CoveredOrder
    <3> QED
      BY <3>1, <3>2
  <2> QED
    BY <1>1, <1>2, <2>1, <2>2, <2>3, <2>6, OneMade
<1>6. CASE Valid(q) /\ q.type = "future" /\ ~q.open
  <2>1. PICK tq, yq : /\ tq = IF q.long THEN "ShortToday" ELSE "LongToday"
                      /\ yq = IF q.long THEN "ShortYst" ELSE "LongYst"
    OBVIOUS
  <2>2. PICK today, yst, a, b : /\ today = SumQty(pos[tq]) /\ yst = SumQty(pos[yq])
                                /\ a = Lesser(today, q.qty) /\ b = q.qty - a
    OBVIOUS
  <2>3. today \in Nat /\ yst \in Nat
    BY <1>1, <1>3, <2>1, <2>2 DEF PositionTypes
  <2>4. q.qty <= yst + today
    BY <1>2, <1>6, <2>1, <2>2 DEF Valid, Covered, TotalQty
  <2>5. a \in Nat /\ b \in Nat /\ a <= today /\ b <= yst /\ a + b = q.qty
        /\ (today > 0 <=> a # 0) /\ (b > 0 <=> b # 0) /\ (today > 0 \/ b = q.qty)
    BY <1>1, <2>2, <2>3, <2>4 DEF Lesser
  <2>6. s = (IF today > 0 THEN <<Order(r, r, "CloseToday", a, "New")>> ELSE <<>>)
            \o (IF b > 0 THEN <<Order(SecondOrderId(r), r, "CloseYst", b, "New")>> ELSE <<>>)
    <3>1. s = CloseOrders(r, q)
      BY <1>2, <1>6 DEF OrdersFor
    <3>2. TotalQty(PositionOf(q.inst), IF q.long THEN "ShortToday" ELSE "LongToday") = today
      BY <1>2, <2>1, <2>2 DEF TotalQty
    <3> QED
      BY <2>2, <3>1, <3>2 DEF CloseOrders, RestToClose
  <2>7. r \in {r, SecondOrderId(r)} /\ SecondOrderId(r) \in {r, SecondOrderId(r)}
        /\ "CloseToday" \in Flags /\ "CloseYst" \in Flags /\ "New" \in {"New", "Rejected"}
        /\ "New" # "Rejected"
    BY DEF Flags
  <2>8. ASSUME a # 0
        PROVE  CoveredOrder(Order(r, r, "CloseToday", a, "New"), q)
    <3>1. PICK order, trade : order = Order(r, r, "CloseToday", a, "New") /\ trade = TradeOf(order, q)
      OBVIOUS
    <3>2. order.qty = a /\ order.flag = "CloseToday" /\ a \in Nat \ {0}
      BY <2>5, <2>7, <2>8, <3>1, OrderParts
    <3>3. trade.long = q.long /\ trade.today
      BY <1>6, <3>1, <3>2, TradeParts
    <3>4. CloseQueue(trade) = tq
      BY <2>1, <3>3 DEF CloseQueue
    <3> QED
      BY <1>2, <2>2, <2>5, <3>1, <3>2, <3>4 DEF CoveredOrder
  <2>9. ASSUME b # 0
        PROVE  CoveredOrder(Order(SecondOrderId(r), r, "CloseYst", b, "New"), q)
    <3>1. PICK order, trade : /\ order = Order(SecondOrderId(r), r, "CloseYst", b, "New")
                              /\ trade = TradeOf(order, q)
      OBVIOUS
    <3>2. order.qty = b /\ order.flag = "CloseYst" /\ b \in Nat \ {0}
      BY <2>5, <2>7, <2>9, <3>1, OrderParts
    <3>3. trade.long = q.long /\ ~trade.today
      BY <1>6, <3>1, <3>2, TradeParts
    <3>4. CloseQueue(trade) = yq
      BY <2>1, <3>3 DEF CloseQueue
    <3> QED
      BY <1>2, <2>2, <2>5, <3>1, <3>2, <3>4 DEF CoveredOrder
  <2>10. CASE a # 0 /\ b # 0
    <3>1. s = <<Order(r, r, "CloseToday", a, "New")>>
              \o <<Order(SecondOrderId(r), r, "CloseYst", b, "New")>>
      BY <2>5, <2>6, <2>10
    <3> QED
      BY <1>2, <1>6, <2>5, <2>8, <2>9, <2>10, <3>1, TwoMade
  <2>11. CASE a # 0 /\ b = 0
    <3>1. s = <<Order(r, r, "CloseToday", a, "New")>>
      BY <2>5, <2>6, <2>11
    <3>2. a = q.qty /\ a \in Nat \ {0}
      BY <2>5, <2>11
    <3> QED
      BY <1>2, <2>7, <2>8, <2>11, <3>1, <3>2, OneMade
  <2>12. CASE a = 0
    <3>1. b = q.qty /\ b \in Nat \ {0}
      BY <1>1, <2>5, <2>12
    <3>2. s = <<Order(SecondOrderId(r), r, "CloseYst", b, "New")>>
      BY <2>5, <2>6, <2>12, <3>1
    <3> QED
      BY <1>2, <2>7, <2>9, <3>1, <3>2, OneMade
  <2> QED
    BY <2>10, <2>11, <2>12
<1> QED
  BY <1>4, <1>5, <1>6

-----------------------------------------------------------------------------
(* What a step keeps of the requests and of the orders it does not touch.  *)

SameRequest(r) ==
  \A o \in {r, SecondOrderId(r)} :
    /\ o \in DOMAIN orders_' <=> o \in DOMAIN orders_
    /\ o \in DOMAIN orders_ => orders_'[o] = orders_[o]

KeptRequests ==
  \A r \in DOMAIN requests_ : r \in DOMAIN requests_' /\ requests_'[r] = requests_[r]

LEMMA FilledKept ==
  ASSUME NEW r, SameRequest(r)
  PROVE  FilledOfRequest(r)' = FilledOfRequest(r)
<1>1. FilledOf(r)' = FilledOf(r)
  BY DEF FilledOf, SameRequest
<1>2. FilledOf(SecondOrderId(r))' = FilledOf(SecondOrderId(r))
  BY DEF FilledOf, SameRequest, SecondOrderId
<1> QED
  BY <1>1, <1>2 DEF FilledOfRequest, SecondOrderId

LEMMA OrderKept ==
  ASSUME NEW o \in DOMAIN orders_, OrderOf(o), ToldOf(o), KeptRequests,
         orders_'[o] = orders_[o], told'[o] = told[o],
         orders_[o].status = "Rejected" => SecondOrderId(o) \notin DOMAIN orders_'
  PROVE  OrderOf(o)' /\ ToldOf(o)'
<1>1. PICK order : order = orders_[o]
  OBVIOUS
<1>2. /\ order \in OrderRecords /\ order.id = o /\ order.request \in DOMAIN requests_
      /\ requests_[order.request].type # "other"
      /\ o = order.request \/ o = SecondOrderId(order.request)
      /\ order.filled = IF order.status = "Filled" THEN order.qty ELSE 0
      /\ order.status = "Rejected" => o = order.request
  BY <1>1 DEF OrderOf
<1>3. order.request \in DOMAIN requests_' /\ requests_'[order.request].type # "other"
  BY <1>2 DEF KeptRequests
<1>4. OrderOf(o)'
  BY <1>1, <1>2, <1>3 DEF OrderOf, SecondOrderId
<1>5. ToldOf(o)'
  BY DEF ToldOf
<1> QED
  BY <1>4, <1>5

\* An order of a request is its first or its second.
LEMMA OrderIdOf ==
  ASSUME OrdersOK, NEW o \in DOMAIN orders_, NEW r, orders_[o].request = r
  PROVE  o \in {r, SecondOrderId(r)} /\ r \in DOMAIN requests_
BY DEF OrdersOK, OrderOf

LEMMA CallKept ==
  ASSUME OrdersOK, KeptRequests, NEW k, CallOf(k), calls'[k] = calls[k],
         SameRequest(RequestOf(k))
  PROVE  CallOf(k)'
<1>1. PICK s, q, h, r : s = calls[k].orders /\ q = calls[k].request /\ h = s[1] /\ r = h.request
  OBVIOUS
<1>2. SameRequest(r) /\ h = HeadOf(k) /\ r = RequestOf(k)
  BY <1>1 DEF HeadOf, RequestOf
<1>3. /\ Len(s) \in {1, 2} /\ r \in DOMAIN requests_ /\ requests_[r] = q /\ q.type # "other"
      /\ h.id \in DOMAIN orders_ /\ orders_[h.id].request = r
      /\ orders_[h.id].flag = h.flag /\ orders_[h.id].qty = h.qty
      /\ h.status = "Rejected" => orders_[h.id].status = "Rejected"
      /\ h.status = "New" => /\ orders_[h.id].status \in {"New", "Filled"}
                             /\ FilledOfRequest(r) + Remaining(k) = requests_[r].qty
      /\ h.status \in {"New", "Rejected"}
      /\ Len(s) = 2 => /\ h.id = r /\ h.status = "New" /\ h.flag = "CloseToday" /\ q.type = "future"
                       /\ SecondOrderId(r) \notin DOMAIN orders_
                       /\ s[2] = Order(SecondOrderId(r), r, "CloseYst", s[2].qty, "New")
  BY <1>1 DEF CallOf
<1>4. r \in DOMAIN requests_' /\ requests_'[r] = requests_[r]
  BY <1>3 DEF KeptRequests
<1>5. h.id \in DOMAIN orders_' /\ orders_'[h.id] = orders_[h.id]
  <2>1. h.id \in {r, SecondOrderId(r)}
    BY <1>3, OrderIdOf
  <2> QED
    BY <1>2, <1>3, <2>1 DEF SameRequest
<1>6. SecondOrderId(r) \in DOMAIN orders_' <=> SecondOrderId(r) \in DOMAIN orders_
  BY <1>2 DEF SameRequest
<1>7. FilledOfRequest(r)' = FilledOfRequest(r)
  BY <1>2, FilledKept
<1>8. Remaining(k)' = Remaining(k)
  BY <1>1, <1>2, <1>5 DEF Remaining, HeadOf
<1>9. calls'[k].orders = s /\ calls'[k].request = q
  BY <1>1
<1>10. /\ h.id \in DOMAIN orders_' /\ orders_'[h.id].request = r
       /\ orders_'[h.id].flag = h.flag /\ orders_'[h.id].qty = h.qty
       /\ h.status = "Rejected" => orders_'[h.id].status = "Rejected"
  BY <1>3, <1>5
<1>11. h.status = "New" => /\ orders_'[h.id].status \in {"New", "Filled"}
                           /\ FilledOfRequest(r)' + Remaining(k)' = requests_'[r].qty
  BY <1>3, <1>4, <1>5, <1>7, <1>8
<1>12. Len(s) = 2 => /\ h.id = r /\ h.status = "New" /\ h.flag = "CloseToday" /\ q.type = "future"
                     /\ SecondOrderId(r) \notin DOMAIN orders_'
                     /\ s[2] = Order(SecondOrderId(r), r, "CloseYst", s[2].qty, "New")
  BY <1>3, <1>6
<1> QED
  BY <1>1, <1>3, <1>4, <1>9, <1>10, <1>11, <1>12 DEF CallOf

LEMMA ConcludedKept ==
  ASSUME OrdersOK, KeptRequests, NEW r \in DOMAIN requests_, Concluded(r), SameRequest(r),
         \A o \in DOMAIN orders_' : orders_'[o].request = r => o \in {r, SecondOrderId(r)}
  PROVE  Concluded(r)'
<1>1. requests_'[r] = requests_[r] /\ FilledOfRequest(r)' = FilledOfRequest(r)
  BY FilledKept DEF KeptRequests
<1>2. CASE r \in DOMAIN orders_ /\ orders_[r].status = "Rejected"
  BY <1>2 DEF SameRequest, Concluded
<1>3. CASE /\ \A o \in DOMAIN orders_ : orders_[o].request = r => orders_[o].status = "Filled"
           /\ FilledOfRequest(r) = requests_[r].qty
  <2>1. ASSUME NEW o \in DOMAIN orders_', orders_'[o].request = r
        PROVE  orders_'[o].status = "Filled"
    BY <1>3, <2>1 DEF SameRequest
  <2> QED
    BY <1>1, <1>3, <2>1 DEF Concluded
<1> QED
  BY <1>2, <1>3 DEF Concluded

\* A step that changes one order touches no other request.
LEMMA OthersSame ==
  ASSUME NEW r \in RequestIds, NEW x \in {r, SecondOrderId(r)}, NEW order,
         IsUpdated(orders_', orders_, x, order), NEW s \in RequestIds, s # r
  PROVE  SameRequest(s)
<1>1. x \notin {s, SecondOrderId(s)}
  BY Ids
<1> QED
  BY <1>1 DEF IsUpdated, SameRequest

LEMMA OrdersUpdated ==
  ASSUME OrdersOK, KeptRequests, NEW x, NEW order, IsUpdated(orders_', orders_, x, order),
         NEW seen, IsUpdated(told', told, x, seen), OrderOf(x)', ToldOf(x)',
         \A y \in DOMAIN orders_ : y # x /\ orders_[y].status = "Rejected" => SecondOrderId(y) # x,
         \A y \in DOMAIN orders_' : orders_'[y].status = "New" =>
           \E k \in 1 .. Len(calls') : calls'[k].orders[1].id = y
  PROVE  OrdersOK'
<1>1. /\ DOMAIN orders_' = DOMAIN orders_ \cup {x} /\ orders_'[x] = order
      /\ \A y \in DOMAIN orders_ : y # x => orders_'[y] = orders_[y]
  BY DEF IsUpdated
<1>2. /\ DOMAIN told' = DOMAIN told \cup {x}
      /\ \A y \in DOMAIN told : y # x => told'[y] = told[y]
  BY DEF IsUpdated
<1>3. DOMAIN told = DOMAIN orders_ /\ \A y \in DOMAIN orders_ : OrderOf(y) /\ ToldOf(y)
  BY DEF OrdersOK
<1>4. ASSUME NEW y \in DOMAIN orders_, y # x
      PROVE  OrderOf(y)' /\ ToldOf(y)'
  <2>1. OrderOf(y) /\ ToldOf(y) /\ orders_'[y] = orders_[y] /\ told'[y] = told[y]
    BY <1>1, <1>2, <1>3, <1>4
  <2>2. orders_[y].status = "Rejected" => SecondOrderId(y) \notin DOMAIN orders_'
    BY <1>1, <1>4, <2>1 DEF OrderOf
  <2> QED
    BY <2>1, <2>2, OrderKept
<1>5. \A y \in DOMAIN orders_' : OrderOf(y)' /\ ToldOf(y)'
  BY <1>1, <1>4
<1>6. DOMAIN told' = DOMAIN orders_'
  BY <1>1, <1>2, <1>3
<1>7. \A y \in DOMAIN orders_' : orders_'[y].status = "New" =>
           \E k \in 1 .. Len(calls') : HeadOf(k)'.id = y
  BY DEF HeadOf
<1> QED
  BY <1>5, <1>6, <1>7 DEF OrdersOK

-----------------------------------------------------------------------------
(* submitRequest.                                                          *)

LEMMA FreshRequest ==
  ASSUME Numbered, requestID_ < 2 * MaxRequests, NEW r, r = RequestId(requestID_)
  PROVE  /\ r \in RequestIds /\ r \notin DOMAIN requests_ /\ r[1] = requestID_
         /\ requestID_ \in Nat
         /\ NextRequestNumber(requestID_) \in {2 * k : k \in 0 .. MaxRequests}
<1>1. PICK k \in 0 .. MaxRequests : requestID_ = 2 * k
  BY DEF Numbered
<1>2. k \in 0 .. MaxRequests - 1 /\ k + 1 \in 0 .. MaxRequests /\ requestID_ \in Nat
  BY <1>1, BoundAssumption
<1>3. r = <<requestID_, 0>> /\ r[1] = requestID_
  BY DEF RequestId
<1>4. r \in RequestIds
  BY <1>1, <1>2 DEF RequestIds
<1>5. r \notin DOMAIN requests_
  BY <1>2, <1>3 DEF Numbered
<1>6. NextRequestNumber(requestID_) = 2 * (k + 1)
  BY <1>1, <1>2 DEF NextRequestNumber
<1> QED
  BY <1>2, <1>3, <1>4, <1>5, <1>6

LEMMA SubmitNumbered ==
  ASSUME Numbered, NEW q \in Requests, submitRequest(q)
  PROVE  Numbered' /\ KeptRequests
<1>1. PICK r : r = RequestId(requestID_)
  OBVIOUS
<1>2. requestID_ < 2 * MaxRequests /\ requestID_' = NextRequestNumber(requestID_)
      /\ requests_' = Put(requests_, r, q)
  BY <1>1 DEF submitRequest
<1>3. /\ r \in RequestIds /\ r \notin DOMAIN requests_ /\ r[1] = requestID_
      /\ requestID_ \in Nat /\ requestID_' \in {2 * k : k \in 0 .. MaxRequests}
  BY <1>1, <1>2, FreshRequest
<1>4. IsUpdated(requests_', requests_, r, q)
  BY <1>2, Updated
<1>5. requestID_' = requestID_ + 2
  BY <1>2 DEF NextRequestNumber
<1>6. ASSUME NEW s \in DOMAIN requests_'
      PROVE  s \in RequestIds /\ s[1] < requestID_' /\ requests_'[s] \in Requests
  <2>1. CASE s = r
    BY <1>3, <1>4, <1>5, <2>1 DEF IsUpdated
  <2>2. CASE s # r
    <3>1. s \in RequestIds /\ s[1] < requestID_ /\ requests_'[s] \in Requests
      BY <1>4, <2>2 DEF IsUpdated, Numbered
    <3>2. s[1] \in Int
      BY <3>1, Ids
    <3> QED
      BY <1>3, <1>5, <3>1, <3>2
  <2> QED
    BY <2>1, <2>2
<1>7. KeptRequests
  BY <1>3, <1>4 DEF IsUpdated, KeptRequests
<1> QED
  BY <1>3, <1>6, <1>7 DEF Numbered

\* No order of a request that is not made.
LEMMA FreshOrders ==
  ASSUME Numbered, OrdersOK, NEW r \in RequestIds, r \notin DOMAIN requests_
  PROVE  /\ r \notin DOMAIN orders_ /\ SecondOrderId(r) \notin DOMAIN orders_
         /\ \A y \in DOMAIN orders_ : orders_[y].request \in RequestIds /\ orders_[y].request # r
<1>1. ASSUME NEW y \in DOMAIN orders_
      PROVE  y # r /\ y # SecondOrderId(r) /\ orders_[y].request \in RequestIds /\ orders_[y].request # r
  <2>1. PICK s : s = orders_[y].request
    OBVIOUS
  <2>2. s \in DOMAIN requests_ /\ y \in {s, SecondOrderId(s)}
    BY <2>1, OrderIdOf
  <2>3. s \in RequestIds /\ s # r
    BY <2>2 DEF Numbered
  <2>4. s # SecondOrderId(r) /\ SecondOrderId(s) # SecondOrderId(r) /\ SecondOrderId(s) # r
    BY <2>3, Ids
  <2> QED
    BY <2>1, <2>2, <2>3, <2>4
<1> QED
  BY <1>1

\* What submitRequest does of a request it makes orders of.
Submits(q, r, s, h) ==
  /\ r \in RequestIds /\ r \notin DOMAIN requests_ /\ IsUpdated(requests_', requests_, r, q)
  /\ IsMade(s, r, q) /\ h = s[1]
  /\ r \notin DOMAIN orders_ /\ SecondOrderId(r) \notin DOMAIN orders_
  /\ IsUpdated(orders_', orders_, h.id, h) /\ IsUpdated(told', told, h.id, <<h.status>>)
  /\ calls' = Append(calls, [request |-> q, orders |-> s])
  /\ Len(calls) < MaxDepth

LEMMA SubmitStep ==
  ASSUME BooksOK, Numbered, OrdersOK, NEW q \in Requests, q.type # "other", submitRequest(q)
  PROVE  \E r, s, h : Submits(q, r, s, h)
<1>1. PICK r, s, h : r = RequestId(requestID_) /\ s = OrdersFor(r, q) /\ h = s[1]
  OBVIOUS
<1>2. /\ requestID_ < 2 * MaxRequests /\ Len(calls) < MaxDepth /\ requests_' = Put(requests_, r, q)
      /\ Publish(Head(s)) /\ calls' = Append(calls, [request |-> q, orders |-> s])
  BY <1>1 DEF submitRequest
<1>3. r \in RequestIds /\ r \notin DOMAIN requests_
  BY <1>1, <1>2, FreshRequest
<1>4. r \notin DOMAIN orders_ /\ SecondOrderId(r) \notin DOMAIN orders_
  BY <1>3, FreshOrders
<1>5. IsMade(s, r, q)
  BY <1>1, <1>3, OrdersForSpec
<1>6. Head(s) = h /\ h.id \in {r, SecondOrderId(r)}
  BY <1>1, <1>5 DEF IsMade
<1>7. h.id \notin DOMAIN told
  BY <1>4, <1>6 DEF OrdersOK
<1>8. orders_' = Put(orders_, h.id, h) /\ told' = Put(told, h.id, Append(<<>>, h.status))
  BY <1>2, <1>6, <1>7 DEF Publish, Tell
<1>9. Append(<<>>, h.status) = <<h.status>>
  OBVIOUS
<1>10. /\ IsUpdated(requests_', requests_, r, q)
       /\ IsUpdated(orders_', orders_, h.id, h) /\ IsUpdated(told', told, h.id, <<h.status>>)
  BY <1>2, <1>8, <1>9, Updated
<1>11. Submits(q, r, s, h)
  BY <1>1, <1>2, <1>3, <1>4, <1>5, <1>10 DEF Submits
<1> QED
  BY <1>11

LEMMA SubmitCalls ==
  ASSUME CallsOK, NEW q \in Requests, NEW r, NEW s, NEW h, Submits(q, r, s, h)
  PROVE  /\ calls' \in Seq(CallRecords) /\ Len(calls') = Len(calls) + 1 /\ Len(calls) \in Nat
         /\ \A k \in 1 .. Len(calls) : calls'[k] = calls[k]
         /\ calls'[Len(calls) + 1].request = q /\ calls'[Len(calls) + 1].orders = s
<1>1. PICK c : c = [request |-> q, orders |-> s]
  OBVIOUS
<1>2. c \in CallRecords /\ c.request = q /\ c.orders = s
  <2>1. s \in Seq(OrderRecords)
    BY DEF Submits, IsMade
  <2> QED
    BY <1>1, <2>1 DEF CallRecords
<1>3. calls' = Append(calls, c) /\ calls \in Seq(CallRecords)
  BY <1>1 DEF Submits, CallsOK
<1> QED
  BY <1>2, <1>3

\* The new call shows an order of the new request, of which nothing is filled yet.
LEMMA SubmitNewCall ==
  ASSUME CallsOK, NEW q \in Requests, q.type # "other", NEW r, NEW s, NEW h, Submits(q, r, s, h),
         NEW n, n = Len(calls) + 1
  PROVE  CallOf(n)' /\ RequestOf(n)' = r /\ HeadOf(n)' = h /\ OrderOf(h.id)' /\ ToldOf(h.id)'
<1>1. calls'[n].request = q /\ calls'[n].orders = s
  BY SubmitCalls
<1>2. /\ r \in RequestIds /\ IsUpdated(requests_', requests_, r, q) /\ IsMade(s, r, q) /\ h = s[1]
      /\ r \notin DOMAIN orders_ /\ SecondOrderId(r) \notin DOMAIN orders_
      /\ IsUpdated(orders_', orders_, h.id, h) /\ IsUpdated(told', told, h.id, <<h.status>>)
  BY DEF Submits
<1>3. r \in DOMAIN requests_' /\ requests_'[r] = q
  BY <1>2 DEF IsUpdated
<1>4. h.id \in DOMAIN orders_' /\ orders_'[h.id] = h /\ DOMAIN orders_' = DOMAIN orders_ \cup {h.id}
      /\ told'[h.id] = <<h.status>>
  BY <1>2 DEF IsUpdated
<1>5. PICK t : t = IF Len(s) = 2 THEN s[2].qty ELSE 0
  OBVIOUS
<1>6. /\ h \in OrderRecords /\ Len(s) \in {1, 2}
      /\ h.request = r /\ h.id \in {r, SecondOrderId(r)}
      /\ h.status \in {"New", "Rejected"} /\ h.filled = 0
      /\ h.status = "Rejected" => h.id = r
      /\ h.status = "New" => h.qty + t = q.qty
      /\ Len(s) = 2 => /\ h.id = r /\ h.status = "New" /\ h.flag = "CloseToday" /\ q.type = "future"
                       /\ s[2] = Order(SecondOrderId(r), r, "CloseYst", s[2].qty, "New")
  BY <1>2, <1>5 DEF IsMade
<1>7. SecondOrderId(r) # r /\ SecondOrderId(r)' = SecondOrderId(r)
  BY <1>2, Ids DEF SecondOrderId
<1>8. FilledOf(r)' = 0 /\ FilledOf(SecondOrderId(r))' = 0
  <2>1. FilledOf(r)' = 0
    BY <1>2, <1>4, <1>6 DEF FilledOf
  <2>2. PICK o : o = SecondOrderId(r)
    OBVIOUS
  <2>3. FilledOf(o)' = 0
    BY <1>2, <1>4, <1>6, <2>2 DEF FilledOf
  <2> QED
    BY <1>7, <2>1, <2>2, <2>3 DEF FilledOf
<1>9. FilledOfRequest(r)' = 0
  BY <1>7, <1>8 DEF FilledOfRequest
<1>10. HeadOf(n)' = h /\ RequestOf(n)' = r
  BY <1>1, <1>2, <1>6 DEF HeadOf, RequestOf
<1>11. h.status = "New" => Remaining(n)' = q.qty
  <2>1. Remaining(n)' = (IF orders_'[h.id].status = "New" THEN h.qty ELSE 0) + t
    BY <1>1, <1>5, <1>10 DEF Remaining
  <2> QED
    BY <1>4, <1>6, <2>1
<1>12. h.status = "New" => FilledOfRequest(r)' + Remaining(n)' = requests_'[r].qty
  <2>1. q.qty \in Nat
    BY RequestParts
  <2> QED
    BY <1>3, <1>9, <1>11, <2>1
<1>13. Len(s) = 2 => SecondOrderId(r) \notin DOMAIN orders_'
  BY <1>2, <1>4, <1>6, <1>7
<1>14. CallOf(n)'
  BY <1>1, <1>2, <1>3, <1>4, <1>6, <1>7, <1>12, <1>13 DEF CallOf, Order
<1>15. OrderOf(h.id)'
  <2>1. h.status = "Rejected" => SecondOrderId(h.id) \notin DOMAIN orders_'
    BY <1>2, <1>4, <1>6, <1>7
  <2> QED
    BY <1>3, <1>4, <1>6, <2>1 DEF OrderOf, SecondOrderId
<1>16. ToldOf(h.id)'
  BY <1>4, <1>6 DEF ToldOf
<1> QED
  BY <1>10, <1>14, <1>15, <1>16

\* The calls under way before a step, as the step leaves them.
LEMMA OldCall ==
  ASSUME NEW k, calls'[k] = calls[k]
  PROVE  HeadOf(k)' = HeadOf(k) /\ RequestOf(k)' = RequestOf(k)
BY DEF HeadOf, RequestOf

\* Requests other than the one a call is for are as they were.
LEMMA SubmitOthers ==
  ASSUME Numbered, NEW q, NEW r, NEW s, NEW h, Submits(q, r, s, h)
  PROVE  \A p \in DOMAIN requests_ : p # r /\ SameRequest(p)
<1>1. r \in RequestIds /\ h.id \in {r, SecondOrderId(r)} /\ IsUpdated(orders_', orders_, h.id, h)
      /\ r \notin DOMAIN requests_
  BY DEF Submits, IsMade
<1>2. \A p \in DOMAIN requests_ : p \in RequestIds /\ p # r
  BY <1>1 DEF Numbered
<1> QED
  BY <1>1, <1>2, OthersSame

LEMMA SubmitOrders ==
  ASSUME BooksOK, Numbered, OrdersOK, CallsOK, ConcludedOK,
         NEW q \in Requests, q.type # "other", submitRequest(q)
  PROVE  OrdersOK' /\ CallsOK' /\ ConcludedOK'
<1>1. PICK r, s, h : Submits(q, r, s, h)
  BY SubmitStep
<1>2. PICK n, m : n = Len(calls) /\ m = n + 1
  OBVIOUS
<1>3. /\ calls' \in Seq(CallRecords) /\ Len(calls') = m /\ n \in Nat /\ m \in 1 .. m
      /\ \A k \in 1 .. n : calls'[k] = calls[k] /\ k \in 1 .. m
      /\ \A k \in 1 .. m : k \in 1 .. n \/ k = m
  BY <1>1, <1>2, SubmitCalls
<1>4. CallOf(m)' /\ RequestOf(m)' = r /\ HeadOf(m)' = h /\ OrderOf(h.id)' /\ ToldOf(h.id)'
  BY <1>1, <1>2, SubmitNewCall
<1>5. KeptRequests
  BY SubmitNumbered
<1>6. \A p \in DOMAIN requests_ : p # r /\ SameRequest(p)
  BY <1>1, SubmitOthers
<1>7. /\ r \in RequestIds /\ r \notin DOMAIN requests_ /\ h.id \in {r, SecondOrderId(r)}
      /\ r \notin DOMAIN orders_ /\ SecondOrderId(r) \notin DOMAIN orders_
      /\ IsUpdated(requests_', requests_, r, q)
      /\ IsUpdated(orders_', orders_, h.id, h) /\ IsUpdated(told', told, h.id, <<h.status>>)
      /\ Len(calls) < MaxDepth
  BY <1>1 DEF Submits, IsMade
<1>8. \A k \in 1 .. n : CallOf(k) /\ RequestOf(k) \in DOMAIN requests_
  BY <1>2, CallParts DEF CallsOK
<1>9. \A k \in 1 .. n : HeadOf(k)' = HeadOf(k) /\ RequestOf(k)' = RequestOf(k)
  BY <1>3, OldCall
<1>10. OrdersOK'
  <2>1. ASSUME NEW y \in DOMAIN orders_, orders_[y].status = "Rejected"
        PROVE  SecondOrderId(y) # h.id
    <3>1. y \in DOMAIN requests_ /\ y \in RequestIds
      BY <2>1 DEF OrdersOK, OrderOf, Numbered
    <3>2. y # r
      BY <1>7
    <3> QED
      BY <1>7, <3>1, <3>2, Ids
  <2>2. ASSUME NEW y \in DOMAIN orders_', orders_'[y].status = "New"
        PROVE  \E k \in 1 .. Len(calls') : calls'[k].orders[1].id = y
    <3>1. CASE y = h.id
      BY <1>3, <1>4, <3>1 DEF HeadOf
    <3>2. CASE y # h.id
      <4>1. y \in DOMAIN orders_ /\ orders_[y].status = "New"
        BY <1>7, <2>2, <3>2 DEF IsUpdated
      <4>2. PICK k \in 1 .. n : HeadOf(k).id = y
        BY <1>2, <4>1 DEF OrdersOK
      <4> QED
        BY <1>3, <4>2 DEF HeadOf
    <3> QED
      BY <3>1, <3>2
  <2> QED
    BY <1>4, <1>5, <1>7, <2>1, <2>2, OrdersUpdated
<1>11. CallsOK'
  <2>1. ASSUME NEW k \in 1 .. m
        PROVE  CallOf(k)'
    <3>1. CASE k \in 1 .. n
      BY <1>3, <1>5, <1>6, <1>8, <3>1, CallKept
    <3> QED
      BY <1>3, <1>4, <3>1
  <2>2. ASSUME NEW j \in 1 .. m, NEW k \in 1 .. m, RequestOf(j)' = RequestOf(k)'
        PROVE  j = k
    <3>1. CASE j \in 1 .. n /\ k \in 1 .. n
      BY <1>2, <1>9, <2>2, <3>1 DEF CallsOK
    <3>2. CASE j \in 1 .. n /\ k = m
      BY <1>4, <1>7, <1>8, <1>9, <2>2, <3>2
    <3>3. CASE j = m /\ k \in 1 .. n
      BY <1>4, <1>7, <1>8, <1>9, <2>2, <3>3
    <3> QED
      BY <1>3, <3>1, <3>2, <3>3
  <2>3. Len(calls') <= MaxDepth
    BY <1>2, <1>3, <1>7, BoundAssumption
  <2> QED
    BY <1>3, <2>1, <2>2, <2>3 DEF CallsOK
<1>12. ConcludedOK'
  <2>1. ASSUME NEW p \in DOMAIN requests_'
        PROVE  \/ requests_'[p].type = "other"
               \/ \E k \in 1 .. Len(calls') : RequestOf(k)' = p
               \/ Concluded(p)'
    <3>1. CASE p = r
      BY <1>3, <1>4, <3>1
    <3>2. CASE p # r
      <4>1. p \in DOMAIN requests_ /\ requests_'[p] = requests_[p]
        BY <1>7, <3>2 DEF IsUpdated
      <4>2. CASE requests_[p].type = "other"
        BY <4>1, <4>2
      <4>3. CASE \E k \in 1 .. Len(calls) : RequestOf(k) = p
        <5>1. PICK k \in 1 .. n : RequestOf(k) = p
          BY <1>2, <4>3
        <5> QED
          BY <1>3, <1>9, <5>1
      <4>4. CASE Concluded(p)
        <5>1. ASSUME NEW o \in DOMAIN orders_', orders_'[o].request = p
              PROVE  o \in {p, SecondOrderId(p)}
          <6>1. o # h.id
            <7>1. orders_'[h.id].request = r
              BY <1>1, <1>7 DEF IsUpdated, Submits, IsMade
            <7> QED
              BY <3>2, <5>1, <7>1
          <6> QED
            BY <1>7, <5>1, <6>1, OrderIdOf DEF IsUpdated
        <5> QED
          BY <1>5, <1>6, <4>1, <4>4, <5>1, ConcludedKept
      <4> QED
        BY <4>1, <4>2, <4>3, <4>4 DEF ConcludedOK
    <3> QED
      BY <3>1, <3>2
  <2> QED
    BY <2>1 DEF ConcludedOK
<1> QED
  BY <1>10, <1>11, <1>12

LEMMA SubmitCovered ==
  ASSUME BooksOK, Numbered, OrdersOK, CallsOK, CoveredOK,
         NEW q \in Requests, q.type # "other", submitRequest(q)
  PROVE  CoveredOK'
<1>1. SUFFICES ASSUME ~reentered'
               PROVE  /\ unmatched' = 0 /\ Len(calls') <= 1
                      /\ \A k \in 1 .. Len(calls') : CoveredCall(k)'
  BY DEF CoveredOK
<1>2. ~reentered /\ calls = <<>> /\ unmatched' = unmatched
      /\ positions' = (IF q.open THEN positions ELSE Touched(q.inst))
  BY <1>1 DEF submitRequest
<1>3. unmatched' = 0 /\ Len(calls) = 0
  BY <1>2 DEF CoveredOK
<1>4. PICK r, s, h : Submits(q, r, s, h)
  BY SubmitStep
<1>5. PICK n : n = Len(calls) + 1
  OBVIOUS
<1>6. Len(calls') = n /\ calls'[n].request = q /\ calls'[n].orders = s /\ HeadOf(n)' = h
      /\ n = 1
  BY <1>3, <1>4, <1>5, SubmitCalls, SubmitNewCall
<1>7. \A i : PositionOf(i)' = PositionOf(i)
  <2>1. CASE q.open
    BY <1>2, <2>1 DEF PositionOf
  <2>2. CASE ~q.open
    <3>1. positions' = Touched(q.inst) /\ q.inst \in Instruments
      BY <1>2, <2>2, RequestParts
    <3>2. \A i : BookIn(positions', i) = PositionOf(i)
      BY <3>1, TouchBooks
    <3> QED
      BY <3>2 DEF PositionOf, BookIn
  <2> QED
    BY <2>1, <2>2
<1>8. ASSUME NEW order, CoveredOrder(order, q)
      PROVE  CoveredOrder(order, q)'
  <2>1. PICK trade : trade = TradeOf(order, q)
    OBVIOUS
  <2>2. TradeOf(order, q)' = trade
    BY <2>1 DEF TradeOf
  <2>3. PositionOf(q.inst)' = PositionOf(q.inst)
    BY <1>7
  <2>4. CloseQueue(trade)' = CloseQueue(trade)
    BY DEF CloseQueue
  <2> QED
    BY <1>8, <2>1, <2>2, <2>3, <2>4 DEF CoveredOrder
<1>9. /\ h.status = "New" => CoveredOrder(h, q)
      /\ Len(s) = 2 => CoveredOrder(s[2], q)
  BY <1>4 DEF Submits, IsMade
<1>10. CoveredCall(n)'
  BY <1>6, <1>8, <1>9 DEF CoveredCall
<1> QED
  BY <1>3, <1>6, <1>10

\* A step that leaves the orders and the calls alone.
LEMMA NoOrderStep ==
  ASSUME Numbered, OrdersOK, CallsOK, ConcludedOK, KeptRequests,
         UNCHANGED <<orders_, calls, told>>,
         \A r \in DOMAIN requests_' : r \in DOMAIN requests_ \/ requests_'[r].type = "other"
  PROVE  OrdersOK' /\ CallsOK' /\ ConcludedOK'
<1>1. \A r : SameRequest(r)
  BY DEF SameRequest
<1>2. \A k \in 1 .. Len(calls) : HeadOf(k)' = HeadOf(k) /\ RequestOf(k)' = RequestOf(k)
  BY OldCall
<1>3. OrdersOK'
  <2>1. ASSUME NEW o \in DOMAIN orders_
        PROVE  OrderOf(o)' /\ ToldOf(o)'
    <3>1. OrderOf(o) /\ ToldOf(o)
      BY DEF OrdersOK
    <3>2. orders_[o].status = "Rejected" => SecondOrderId(o) \notin DOMAIN orders_'
      BY <3>1 DEF OrderOf
    <3>3. orders_'[o] = orders_[o] /\ told'[o] = told[o]
      OBVIOUS
    <3> QED
      BY <3>1, <3>2, <3>3, OrderKept
  <2>2. ASSUME NEW o \in DOMAIN orders_, orders_[o].status = "New"
        PROVE  \E k \in 1 .. Len(calls) : HeadOf(k)'.id = o
    BY <1>2, <2>2 DEF OrdersOK
  <2> QED
    BY <2>1, <2>2 DEF OrdersOK
<1>4. CallsOK'
  <2>1. ASSUME NEW k \in 1 .. Len(calls)
        PROVE  CallOf(k)'
    <3>1. CallOf(k) /\ calls'[k] = calls[k] /\ SameRequest(RequestOf(k))
      BY <1>1 DEF CallsOK
    <3> QED
      BY <3>1, CallKept
  <2> QED
    BY <1>2, <2>1 DEF CallsOK
<1>5. ConcludedOK'
  <2>1. ASSUME NEW r \in DOMAIN requests_', r \in DOMAIN requests_, Concluded(r)
        PROVE  Concluded(r)'
    <3>1. \A o \in DOMAIN orders_' : orders_'[o].request = r => o \in {r, SecondOrderId(r)}
      BY OrderIdOf
    <3> QED
      BY <1>1, <2>1, <3>1, ConcludedKept
  <2>2. ASSUME NEW r \in DOMAIN requests_', r \in DOMAIN requests_
        PROVE  \/ requests_'[r].type = "other"
               \/ \E k \in 1 .. Len(calls) : RequestOf(k)' = r
               \/ Concluded(r)'
    <3>1. requests_'[r] = requests_[r]
      BY <2>2 DEF KeptRequests
    <3> QED
      BY <1>2, <2>1, <2>2, <3>1 DEF ConcludedOK
  <2> QED
    BY <2>2 DEF ConcludedOK
<1> QED
  BY <1>3, <1>4, <1>5

LEMMA SubmitOther ==
  ASSUME Numbered, OrdersOK, CallsOK, ConcludedOK, CoveredOK,
         NEW q \in Requests, q.type = "other", submitRequest(q)
  PROVE  OrdersOK' /\ CallsOK' /\ ConcludedOK' /\ CoveredOK'
<1>1. /\ UNCHANGED <<orders_, calls, told, positions, unmatched>>
      /\ requests_' = Put(requests_, RequestId(requestID_), q)
      /\ reentered' = (reentered \/ calls # <<>>)
  BY DEF submitRequest
<1>2. \A r \in DOMAIN requests_' : r \in DOMAIN requests_ \/ requests_'[r].type = "other"
  <2>1. PICK p : p = RequestId(requestID_)
    OBVIOUS
  <2>2. IsUpdated(requests_', requests_, p, q)
    BY <1>1, <2>1, Updated
  <2> QED
    BY <2>2 DEF IsUpdated
<1>3. KeptRequests
  BY SubmitNumbered
<1>4. CoveredOK'
  <2>1. CASE reentered'
    BY <2>1 DEF CoveredOK
  <2>2. CASE ~reentered'
    <3>1. ~reentered /\ calls = <<>> /\ calls' = <<>>
      BY <1>1, <2>2
    <3>2. Len(calls') = 0 /\ unmatched' = 0
      BY <1>1, <3>1 DEF CoveredOK
    <3> QED
      BY <3>2 DEF CoveredOK
  <2> QED
    BY <2>1, <2>2
<1> QED
  BY <1>1, <1>2, <1>3, <1>4, NoOrderStep

-----------------------------------------------------------------------------
(* FillOrder.                                                              *)

\* The innermost call n shows h, an order of r, which becomes f.
Fills(n, h, r, f) ==
  /\ n = Len(calls) /\ n \in 1 .. Len(calls) /\ h = HeadOf(n) /\ r = RequestOf(n)
  /\ r \in RequestIds /\ r \in DOMAIN requests_ /\ h.id \in {r, SecondOrderId(r)}
  /\ h \in OrderRecords /\ h.status = "New"
  /\ h.id \in DOMAIN orders_ /\ OrderOf(h.id) /\ orders_[h.id].status = "New"
  /\ orders_[h.id].filled = 0
  /\ f = [id |-> h.id, request |-> r, flag |-> h.flag, qty |-> h.qty,
          filled |-> h.qty, status |-> "Filled"]
  /\ f \in OrderRecords
  /\ IsUpdated(orders_', orders_, h.id, f) /\ IsUpdated(told', told, h.id, <<"New", "Filled">>)
  /\ UNCHANGED <<requestID_, requests_, calls>>

LEMMA TwoSeen ==
  ASSUME NEW S, NEW a \in S, NEW b \in S
  PROVE  Append(<<a>>, b) = <<a, b>>
<1>1. PICK p, u, v : p = <<a>> /\ u = Append(p, b) /\ v = <<a, b>>
  OBVIOUS
<1>2. p \in Seq(S) /\ Len(p) = 1 /\ p[1] = a
  BY <1>1
<1>3. u \in Seq(S) /\ Len(u) = 2 /\ u[1] = a /\ u[2] = b
  BY <1>1, <1>2
<1>4. v \in Seq(S) /\ Len(v) = 2 /\ v[1] = a /\ v[2] = b
  BY <1>1
<1>5. \A k \in 1 .. Len(u) : u[k] = v[k]
  BY <1>3, <1>4
<1>6. u = v
  BY <1>3, <1>4, <1>5, SeqEqual
<1> QED
  BY <1>1, <1>6

LEMMA FillView ==
  ASSUME BooksOK, Numbered, OrdersOK, CallsOK, FillOrder
  PROVE  \E n, h, r, f : Fills(n, h, r, f) /\ f = FilledOrder /\ h.id = Current
<1>1. PICK n, h, r, f : n = Len(calls) /\ h = HeadOf(n) /\ r = RequestOf(n) /\ f = FilledOrder
  OBVIOUS
<1>2. /\ calls # <<>> /\ orders_[Current].status = "New"
      /\ orders_' = [orders_ EXCEPT ![Current] = f]
      /\ Tell(f, "Filled") /\ UNCHANGED <<requestID_, requests_, calls>>
  BY <1>1, FillStep
<1>3. PICK c : c = Current
  OBVIOUS
<1>4. n \in 1 .. Len(calls) /\ c = h.id /\ c \in DOMAIN orders_ /\ OrderOf(c)
  BY <1>1, <1>2, <1>3, CurrentParts
<1>5. CallOf(n) /\ h \in OrderRecords
  BY <1>1, <1>4, CallParts DEF CallsOK
<1>6. /\ r \in DOMAIN requests_ /\ orders_[c].request = r
      /\ orders_[c].flag = h.flag /\ orders_[c].qty = h.qty
      /\ h.status = "Rejected" => orders_[c].status = "Rejected"
      /\ h.status \in {"New", "Rejected"}
  BY <1>1, <1>4, <1>5 DEF CallOf, HeadOf, RequestOf
<1>7. h.status = "New" /\ orders_[c].status = "New"
  BY <1>2, <1>3, <1>6
<1>8. c \in {r, SecondOrderId(r)} /\ r \in RequestIds
  BY <1>4, <1>6, OrderIdOf DEF Numbered
<1>9. orders_[c].filled = 0
  BY <1>4, <1>7 DEF OrderOf
<1>10. /\ f = [id |-> c, request |-> r, flag |-> h.flag, qty |-> h.qty,
               filled |-> h.qty, status |-> "Filled"]
       /\ f \in OrderRecords
  BY <1>1, <1>2, <1>3, <1>6, FillParts
<1>11. IsUpdated(orders_', orders_, c, f)
  BY <1>2, <1>3, <1>4, SetInMap
<1>12. IsUpdated(told', told, c, <<"New", "Filled">>)
  <2>1. c \in DOMAIN told /\ told[c] = <<"New">>
    BY <1>4, <1>7 DEF OrdersOK, ToldOf
  <2>2. f.id = c
    BY <1>10
  <2>3. told' = Put(told, c, Append(<<"New">>, "Filled"))
    BY <1>2, <2>1, <2>2 DEF Tell
  <2>4. Append(<<"New">>, "Filled") = <<"New", "Filled">>
    <3>1. PICK x, y, S : x = "New" /\ y = "Filled" /\ S = {x, y}
      OBVIOUS
    <3>2. Append(<<x>>, y) = <<x, y>>
      BY <3>1, TwoSeen
    <3> QED
      BY <3>1, <3>2
  <2> QED
    BY <2>3, <2>4, Updated
<1>13. /\ r \in RequestIds /\ r \in DOMAIN requests_ /\ h.id \in {r, SecondOrderId(r)}
       /\ h.id \in DOMAIN orders_ /\ OrderOf(h.id) /\ orders_[h.id].status = "New"
       /\ orders_[h.id].filled = 0
       /\ f = [id |-> h.id, request |-> r, flag |-> h.flag, qty |-> h.qty,
               filled |-> h.qty, status |-> "Filled"]
       /\ IsUpdated(orders_', orders_, h.id, f) /\ IsUpdated(told', told, h.id, <<"New", "Filled">>)
  BY <1>4, <1>6, <1>7, <1>8, <1>9, <1>10, <1>11, <1>12
<1>14. Fills(n, h, r, f)
  BY <1>1, <1>2, <1>4, <1>5, <1>7, <1>10, <1>13 DEF Fills
<1> QED
  BY <1>1, <1>3, <1>4, <1>14

\* What is filled of the request grows by what its call had left of the order.
LEMMA FillCall ==
  ASSUME BooksOK, Numbered, OrdersOK, CallsOK, NEW n, NEW h, NEW r, NEW f, Fills(n, h, r, f)
  PROVE  CallOf(n)'
<1>1. PICK s, q, a, b, t, x :
        /\ s = calls[n].orders /\ q = calls[n].request /\ a = FilledOf(r)
        /\ b = FilledOf(SecondOrderId(r)) /\ t = (IF Len(s) = 2 THEN s[2].qty ELSE 0)
        /\ x = h.qty
  OBVIOUS
<1>2. /\ n \in 1 .. Len(calls) /\ h = HeadOf(n) /\ r = RequestOf(n)
      /\ r \in RequestIds /\ h.id \in {r, SecondOrderId(r)} /\ h.status = "New"
      /\ h.id \in DOMAIN orders_ /\ orders_[h.id].status = "New" /\ orders_[h.id].filled = 0
      /\ f.request = r /\ f.flag = h.flag /\ f.qty = x /\ f.filled = x /\ f.status = "Filled"
      /\ UNCHANGED <<requestID_, requests_, calls>> /\ x \in Nat
  BY <1>1 DEF Fills, OrderRecords
<1>3. /\ Len(s) \in {1, 2} /\ s \in Seq(OrderRecords) /\ h = s[1] /\ r = h.request
      /\ r \in DOMAIN requests_ /\ requests_[r] = q /\ q.type # "other"
      /\ FilledOfRequest(r) + Remaining(n) = requests_[r].qty
      /\ Len(s) = 2 => /\ h.id = r /\ h.status = "New" /\ h.flag = "CloseToday" /\ q.type = "future"
                       /\ SecondOrderId(r) \notin DOMAIN orders_
                       /\ s[2] = Order(SecondOrderId(r), r, "CloseYst", s[2].qty, "New")
  <2>1. CallOf(n) /\ s \in Seq(OrderRecords) /\ h = s[1] /\ r = h.request
    BY <1>1, <1>2, CallParts DEF CallsOK, HeadOf, RequestOf
  <2>2. Len(s) \in {1, 2} /\ r \in DOMAIN requests_ /\ requests_[r] = q /\ q.type # "other"
    BY <1>1, <2>1 DEF CallOf
  <2>3. FilledOfRequest(r) + Remaining(n) = requests_[r].qty
    <3>1. s[1].status = "New" =>
            FilledOfRequest(s[1].request) + Remaining(n) = requests_[s[1].request].qty
      BY <1>1, <2>1 DEF CallOf
    <3>2. s[1].status = "New" /\ s[1].request = r
      BY <1>2, <2>1
    <3> QED
      BY <3>1, <3>2
  <2>4. Len(s) = 2 => /\ h.id = r /\ h.status = "New" /\ h.flag = "CloseToday" /\ q.type = "future"
                      /\ SecondOrderId(r) \notin DOMAIN orders_
                      /\ s[2] = Order(SecondOrderId(r), r, "CloseYst", s[2].qty, "New")
    BY <1>1, <2>1 DEF CallOf
  <2> QED
    BY <2>1, <2>2, <2>3, <2>4
<1>4. /\ DOMAIN orders_' = DOMAIN orders_ /\ orders_'[h.id] = f
      /\ \A y \in DOMAIN orders_ : y # h.id => orders_'[y] = orders_[y]
  BY <1>2 DEF Fills, IsUpdated
<1>5. t \in Nat
  <2>1. ASSUME Len(s) = 2
        PROVE  s[2] \in OrderRecords
    <3>1. s \in Seq(OrderRecords) /\ 2 \in 1 .. Len(s)
      BY <1>3, <2>1
    <3> QED
      BY <3>1
  <2> QED
    BY <1>1, <2>1 DEF OrderRecords
<1>6. \A y : FilledOf(y) \in Nat
  BY DEF FilledOf, OrdersOK, OrderOf, OrderRecords
<1>7. a \in Nat /\ b \in Nat /\ a + b + (x + t) = requests_[r].qty
  <2>1. Remaining(n) = x + t
    BY <1>1, <1>2 DEF Remaining
  <2> QED
    BY <1>1, <1>3, <1>6, <2>1 DEF FilledOfRequest
<1>8. Remaining(n)' = 0 + t
  <2>1. HeadOf(n)' = h /\ calls'[n].orders = s
    BY <1>1, <1>2 DEF HeadOf
  <2>2. orders_'[h.id].status # "New"
    BY <1>2, <1>4
  <2> QED
    BY <1>1, <2>1, <2>2 DEF Remaining
<1>9. SecondOrderId(r)' = SecondOrderId(r) /\ SecondOrderId(r) # r
  BY <1>2, Ids DEF SecondOrderId
<1>10. FilledOfRequest(r)' = a + b + x
  <2>1. PICK z : z = SecondOrderId(r)
    OBVIOUS
  <2>2. FilledOfRequest(r)' = FilledOf(r)' + FilledOf(z)'
    BY <1>9, <2>1 DEF FilledOfRequest
  <2>3. CASE h.id = r
    <3>1. a = 0 /\ FilledOf(r)' = x
      BY <1>1, <1>2, <1>4, <2>3 DEF FilledOf
    <3>2. FilledOf(z)' = b
      BY <1>1, <1>4, <1>9, <2>1, <2>3 DEF FilledOf
    <3> QED
      BY <1>2, <1>7, <2>2, <3>1, <3>2
  <2>4. CASE h.id = z
    <3>1. b = 0 /\ FilledOf(z)' = x
      BY <1>1, <1>2, <1>4, <2>1, <2>4 DEF FilledOf
    <3>2. FilledOf(r)' = a
      BY <1>1, <1>4, <1>9, <2>1, <2>4 DEF FilledOf
    <3> QED
      BY <1>2, <1>7, <2>2, <3>1, <3>2
  <2> QED
    BY <1>2, <2>1, <2>3, <2>4
<1>11. FilledOfRequest(r)' + Remaining(n)' = requests_'[r].qty
  BY <1>2, <1>5, <1>7, <1>8, <1>10
<1>12. calls'[n].orders = s /\ calls'[n].request = q
  BY <1>1, <1>2
<1>13. /\ h.id \in DOMAIN orders_' /\ orders_'[h.id].request = r
       /\ orders_'[h.id].flag = h.flag /\ orders_'[h.id].qty = h.qty
       /\ orders_'[h.id].status = "Filled"
  BY <1>1, <1>2, <1>4
<1> QED
  BY <1>2, <1>3, <1>4, <1>9, <1>11, <1>12, <1>13 DEF CallOf, Order

\* A step of the innermost call, which is for r, as the others see it.
LEMMA InnermostOthers ==
  ASSUME Numbered, OrdersOK, CallsOK, NEW n \in 1 .. Len(calls), NEW r, r = RequestOf(n),
         r \in RequestIds, NEW x \in {r, SecondOrderId(r)}, NEW order,
         IsUpdated(orders_', orders_, x, order)
  PROVE  /\ \A p \in DOMAIN requests_ : p # r => SameRequest(p)
         /\ \A k \in 1 .. Len(calls) : k # n => /\ CallOf(k) /\ RequestOf(k) # r
                                                /\ SameRequest(RequestOf(k))
<1>1. \A p \in DOMAIN requests_ : p # r => SameRequest(p)
  BY OthersSame DEF Numbered
<1>2. ASSUME NEW k \in 1 .. Len(calls), k # n
      PROVE  CallOf(k) /\ RequestOf(k) # r /\ RequestOf(k) \in DOMAIN requests_
  BY <1>2, CallParts DEF CallsOK
<1> QED
  BY <1>1, <1>2

LEMMA InnermostConcluded ==
  ASSUME Numbered, OrdersOK, ConcludedOK, KeptRequests, requests_' = requests_,
         NEW r, NEW x, NEW order, order.request = r,
         IsUpdated(orders_', orders_, x, order),
         NEW p \in DOMAIN requests_, p # r, SameRequest(p), Concluded(p)
  PROVE  Concluded(p)'
<1>1. ASSUME NEW o \in DOMAIN orders_', orders_'[o].request = p
      PROVE  o \in {p, SecondOrderId(p)}
  <2>1. o # x
    BY <1>1 DEF IsUpdated
  <2> QED
    BY <1>1, <2>1, OrderIdOf DEF IsUpdated
<1> QED
  BY <1>1, ConcludedKept

LEMMA FillOrders ==
  ASSUME BooksOK, Numbered, OrdersOK, CallsOK, ConcludedOK, FillOrder
  PROVE  Numbered' /\ OrdersOK' /\ CallsOK' /\ ConcludedOK'
<1>1. PICK n, h, r, f : Fills(n, h, r, f)
  BY FillView
<1>2. /\ n = Len(calls) /\ n \in 1 .. Len(calls) /\ h = HeadOf(n) /\ r = RequestOf(n)
      /\ r \in RequestIds /\ r \in DOMAIN requests_ /\ h.id \in {r, SecondOrderId(r)}
      /\ h.id \in DOMAIN orders_ /\ OrderOf(h.id) /\ orders_[h.id].status = "New"
      /\ f = [id |-> h.id, request |-> r, flag |-> h.flag, qty |-> h.qty,
              filled |-> h.qty, status |-> "Filled"]
      /\ f \in OrderRecords
      /\ IsUpdated(orders_', orders_, h.id, f) /\ IsUpdated(told', told, h.id, <<"New", "Filled">>)
      /\ requestID_' = requestID_ /\ requests_' = requests_ /\ calls' = calls
  BY <1>1 DEF Fills
<1>3. Numbered' /\ KeptRequests
  BY <1>2 DEF Numbered, KeptRequests
<1>4. /\ \A p \in DOMAIN requests_ : p # r => SameRequest(p)
      /\ \A k \in 1 .. Len(calls) : k # n => /\ CallOf(k) /\ RequestOf(k) # r
                                             /\ SameRequest(RequestOf(k))
  BY <1>2, InnermostOthers
<1>5. f.request = r /\ f.qty = f.filled /\ f.status = "Filled" /\ f.id = h.id
  BY <1>2
<1>6. orders_'[h.id] = f /\ DOMAIN orders_' = DOMAIN orders_ /\ told'[h.id] = <<"New", "Filled">>
  BY <1>2 DEF IsUpdated
<1>7. \A k \in 1 .. Len(calls) : HeadOf(k)' = HeadOf(k) /\ RequestOf(k)' = RequestOf(k)
  BY <1>2, OldCall
<1>8. OrdersOK'
  <2>1. OrderOf(h.id)'
    <3>1. r \in DOMAIN requests_' /\ requests_'[r].type # "other"
      BY <1>1, <1>2, CallParts
    <3> QED
      BY <1>2, <1>5, <1>6, <3>1 DEF OrderOf, SecondOrderId
  <2>2. ToldOf(h.id)'
    BY <1>5, <1>6 DEF ToldOf
  <2>3. \A y \in DOMAIN orders_ : orders_[y].status = "Rejected" => SecondOrderId(y) # h.id
    BY <1>2 DEF OrdersOK, OrderOf
  <2>4. ASSUME NEW y \in DOMAIN orders_', orders_'[y].status = "New"
        PROVE  \E k \in 1 .. Len(calls') : calls'[k].orders[1].id = y
    <3>1. y # h.id /\ y \in DOMAIN orders_ /\ orders_[y].status = "New"
      BY <1>2, <1>5, <1>6, <2>4 DEF IsUpdated
    <3>2. PICK k \in 1 .. Len(calls) : HeadOf(k).id = y
      BY <3>1 DEF OrdersOK
    <3> QED
      BY <1>2, <3>2 DEF HeadOf
  <2> QED
    BY <1>2, <1>3, <2>1, <2>2, <2>3, <2>4, OrdersUpdated
<1>9. CallsOK'
  <2>1. ASSUME NEW k \in 1 .. Len(calls)
        PROVE  CallOf(k)'
    <3>1. CASE k = n
      BY <1>1, <3>1, FillCall
    <3>2. CASE k # n
      <4>1. calls'[k] = calls[k]
        BY <1>2
      <4> QED
        BY <1>3, <1>4, <3>2, <4>1, CallKept
    <3> QED
      BY <3>1, <3>2
  <2>2. \A j, k \in 1 .. Len(calls) : RequestOf(j)' = RequestOf(k)' => j = k
    BY <1>7 DEF CallsOK
  <2> QED
    BY <1>2, <2>1, <2>2 DEF CallsOK
<1>10. ConcludedOK'
  <2>1. ASSUME NEW p \in DOMAIN requests_
        PROVE  \/ requests_[p].type = "other"
               \/ \E k \in 1 .. Len(calls) : RequestOf(k)' = p
               \/ Concluded(p)'
    <3>1. CASE p = r
      BY <1>2, <1>7, <3>1
    <3>2. CASE p # r
      <4>1. Concluded(p) => Concluded(p)'
        BY <1>2, <1>3, <1>4, <1>5, <3>2, InnermostConcluded
      <4> QED
        BY <1>7, <4>1 DEF ConcludedOK
    <3> QED
      BY <3>1, <3>2
  <2> QED
    BY <1>2, <2>1 DEF ConcludedOK
<1> QED
  BY <1>3, <1>8, <1>9, <1>10

LEMMA FillCovered ==
  ASSUME BooksOK, Numbered, OrdersOK, CallsOK, CoveredOK, FillOrder
  PROVE  CoveredOK'
<1>1. SUFFICES ASSUME ~reentered'
               PROVE  /\ unmatched' = 0 /\ Len(calls') <= 1
                      /\ \A k \in 1 .. Len(calls') : CoveredCall(k)'
  BY DEF CoveredOK
<1>2. PICK n, h, r, f : Fills(n, h, r, f) /\ f = FilledOrder /\ h.id = Current
  BY FillView
<1>3. PICK q, s, pos, trade, new : /\ q = Call.request /\ s = calls[n].orders /\ pos = FillPos
                                   /\ trade = FillTrade
                                   /\ new = addTrade(pos, trade, multiplier[q.inst])
  OBVIOUS
<1>4. /\ n = Len(calls) /\ n \in 1 .. Len(calls) /\ h = HeadOf(n) /\ r = RequestOf(n)
      /\ h \in OrderRecords /\ h.status = "New" /\ orders_[h.id].status = "New"
      /\ f = [id |-> h.id, request |-> r, flag |-> h.flag, qty |-> h.qty,
              filled |-> h.qty, status |-> "Filled"]
      /\ IsUpdated(orders_', orders_, h.id, f) /\ calls' = calls
  BY <1>2 DEF Fills
<1>5. /\ calls # <<>> /\ IsUpdated(positions', positions, q.inst, new)
      /\ unmatched' = unmatched + Unmatched(pos, trade) /\ reentered' = reentered
  BY <1>3, FillStep, Updated
<1>6. /\ unmatched = 0 /\ Len(calls) <= 1 /\ CoveredCall(n) /\ n = 1
  BY <1>1, <1>4, <1>5 DEF CoveredOK, CallsOK
<1>7. /\ trade \in TradeInfos /\ pos \in CPositions /\ q \in Requests /\ q.type # "other"
      /\ multiplier[q.inst] \in Int /\ pos = PositionOf(q.inst) /\ q = calls[n].request
  BY <1>3, <1>4, <1>5, FillParts, CurrentParts DEF FillPos
<1>8. trade = TradeOf(h, q)
  <2>1. f.flag = h.flag /\ f.qty = h.qty
    BY <1>4
  <2>2. trade = TradeOf(f, q)
    BY <1>2, <1>3 DEF FillTrade
  <2> QED
    BY <2>1, <2>2 DEF TradeOf
<1>9. CoveredOrder(h, q)
  BY <1>4, <1>6, <1>7 DEF CoveredCall
<1>10. trade.open \/ trade.qty <= SumQty(pos[CloseQueue(trade)])
  <2>1. h.qty \in Nat \ {0}
    BY <1>4 DEF OrderRecords
  <2>2. trade.qty = h.qty
    BY <1>7, <1>8, <2>1, TradeParts
  <2> QED
    BY <1>7, <1>8, <1>9, <2>2 DEF CoveredOrder
<1>11. Unmatched(pos, trade) = 0
  BY <1>7, <1>10, UnmatchedSpec
<1>12. CoveredCall(n)'
  <2>1. HeadOf(n)' = h /\ calls'[n].orders = s /\ calls'[n].request = q
    BY <1>3, <1>4, <1>7 DEF HeadOf
  <2>2. orders_'[h.id].status # "New"
    BY <1>4 DEF IsUpdated
  <2>3. ASSUME Len(s) = 2
        PROVE  CoveredOrder(s[2], q)'
    <3>1. PICK g, t : g = s[2] /\ t = TradeOf(g, q)
      OBVIOUS
    <3>2. CallOf(n) /\ s \in Seq(OrderRecords) /\ h = s[1]
      BY <1>3, <1>4, CallParts DEF CallsOK, HeadOf
    <3>3. /\ h.flag = "CloseToday" /\ q.type = "future"
          /\ g = Order(SecondOrderId(h.request), h.request, "CloseYst", g.qty, "New")
      BY <1>3, <1>7, <2>3, <3>1, <3>2 DEF CallOf
    <3>4. g.flag = "CloseYst" /\ g.qty \in Nat \ {0} /\ h.qty \in Nat \ {0}
      <4>1. g \in OrderRecords
        <5>1. 2 \in 1 .. Len(s)
          BY <2>3
        <5> QED
          BY <3>1, <3>2, <5>1
      <4>2. g.flag = "CloseYst"
        BY <3>3 DEF Order
      <4> QED
        BY <1>4, <4>1, <4>2 DEF OrderRecords
    <3>5. /\ trade \in TradeInfos /\ t \in TradeInfos /\ trade.long = q.long /\ t.long = q.long
          /\ ~trade.open /\ ~t.open /\ trade.today /\ ~t.today
      <4>1. trade.long = q.long /\ trade.open = FALSE /\ trade.today = TRUE
        <5>1. q.type # "other" /\ q.type # "security" /\ h.flag \in {"Open", "CloseToday"} /\ h.flag # "Open"
          BY <3>3
        <5>2. /\ TradeOf(h, q).long = q.long
              /\ TradeOf(h, q).open = (IF q.type = "security" THEN q.open ELSE h.flag = "Open")
              /\ TradeOf(h, q).today = (IF q.type = "security" THEN q.open
                                         ELSE h.flag \in {"Open", "CloseToday"})
          BY <1>7, <3>4, <5>1, TradeParts
        <5> QED
          BY <1>8, <5>1, <5>2
      <4>2. t \in TradeInfos /\ t.long = q.long /\ ~t.open /\ ~t.today
        <5>1. /\ t \in TradeInfos /\ t.long = q.long
              /\ t.open = (IF q.type = "security" THEN q.open ELSE g.flag = "Open")
              /\ t.today = (IF q.type = "security" THEN q.open
                            ELSE g.flag \in {"Open", "CloseToday"})
          BY <1>7, <3>1, <3>4, TradeParts
        <5>2. q.type # "security" /\ g.flag # "Open" /\ g.flag \notin {"Open", "CloseToday"}
          BY <3>3, <3>4
        <5>3. t.open = (g.flag = "Open") /\ t.today = (g.flag \in {"Open", "CloseToday"})
          BY <5>1, <5>2
        <5> QED
          BY <5>1, <5>2, <5>3, Zenon
      <4> QED
        BY <1>7, <4>1, <4>2
    <3>6. CloseQueue(t) # CloseQueue(trade) /\ CloseQueue(t) \in PositionTypes
      BY <3>5 DEF CloseQueue, PositionTypes
    <3>7. new[CloseQueue(t)] = pos[CloseQueue(t)]
      <4>1. PICK type, kept, realized :
              IsReplaced(new, pos, type, kept, realized) /\ type = CloseQueue(trade)
        BY <1>3, <1>7, <3>5, CloseSpec
      <4> QED
        BY <3>6, <4>1 DEF IsReplaced
    <3>8. CoveredOrder(g, q)
      BY <1>4, <1>6, <1>7, <1>3, <2>3, <3>1 DEF CoveredCall
    <3>9. g.qty <= SumQty(pos[CloseQueue(t)])
      BY <1>7, <3>1, <3>5, <3>8 DEF CoveredOrder
    <3>10. PositionOf(q.inst)' = new
      BY <1>5 DEF PositionOf, IsUpdated
    <3>11. CoveredOrder(g, q)'
      <4>1. TradeOf(g, q)' = t
        BY <3>1 DEF TradeOf
      <4>2. CloseQueue(t)' = CloseQueue(t)
        BY DEF CloseQueue
      <4> QED
        BY <3>7, <3>9, <3>10, <4>1, <4>2 DEF CoveredOrder
    <3> QED
      BY <3>1, <3>11
  <2> QED
    BY <2>1, <2>2, <2>3 DEF CoveredCall
<1> QED
  BY <1>4, <1>5, <1>6, <1>11, <1>12

-----------------------------------------------------------------------------
(* NextOrder.                                                              *)

\* The innermost call n, for r, goes from the first order h to the second, g.
Advances(n, r, q, h, g) ==
  /\ n = Len(calls) /\ n \in 1 .. Len(calls) /\ h = HeadOf(n) /\ r = RequestOf(n)
  /\ r \in RequestIds /\ r \in DOMAIN requests_ /\ requests_[r] = q /\ q = calls[n].request
  /\ q.type # "other"
  /\ h.id = r /\ r \in DOMAIN orders_ /\ orders_[r].status = "Filled"
  /\ SecondOrderId(r) \notin DOMAIN orders_
  /\ g = calls[n].orders[2] /\ Len(calls[n].orders) = 2
  /\ g \in OrderRecords /\ g = Order(SecondOrderId(r), r, "CloseYst", g.qty, "New")
  /\ FilledOfRequest(r) + g.qty = q.qty
  /\ IsUpdated(orders_', orders_, SecondOrderId(r), g)
  /\ IsUpdated(told', told, SecondOrderId(r), <<"New">>)
  /\ calls' \in Seq(CallRecords) /\ Len(calls') = Len(calls)
  /\ calls'[n].request = q /\ Len(calls'[n].orders) = 1 /\ calls'[n].orders[1] = g
  /\ \A k \in 1 .. Len(calls) : k # n => calls'[k] = calls[k]
  /\ requests_' = requests_ /\ requestID_' = requestID_

LEMMA NextOrderView ==
  ASSUME Numbered, OrdersOK, CallsOK, NextOrder
  PROVE  \E n, r, q, h, g : Advances(n, r, q, h, g)
<1>1. PICK n, h, r, q, s, g : /\ n = Len(calls) /\ h = HeadOf(n) /\ r = RequestOf(n)
                              /\ q = calls[n].request /\ s = calls[n].orders /\ g = s[2]
  OBVIOUS
<1>2. /\ calls # <<>> /\ orders_[Current].status # "New" /\ Len(Call.orders) > 1
      /\ Publish(Call.orders[2])
      /\ calls' = [calls EXCEPT ![n].orders = Tail(calls[n].orders)]
      /\ requestID_' = requestID_ /\ requests_' = requests_
  BY <1>1 DEF NextOrder
<1>3. n \in 1 .. Len(calls) /\ Current = h.id /\ Call = calls[n]
  BY <1>1, <1>2, CurrentParts
<1>4. CallOf(n) /\ s \in Seq(OrderRecords) /\ h = s[1] /\ r = h.request /\ q \in Requests
      /\ calls[n] \in CallRecords
  BY <1>1, <1>3, CallParts DEF CallsOK, HeadOf, RequestOf
<1>5. Len(s) = 2
  <2>1. Len(s) \in {1, 2}
    BY <1>1, <1>4 DEF CallOf
  <2>2. Len(s) > 1
    BY <1>1, <1>2, <1>3
  <2>3. PICK z \in {1, 2} : z = Len(s)
    BY <2>1
  <2>4. z > 1 /\ z \in Nat
    BY <2>2, <2>3
  <2> QED
    BY <2>3, <2>4
<1>6. /\ r \in DOMAIN requests_ /\ requests_[r] = q /\ q.type # "other"
      /\ h.id \in DOMAIN orders_
      /\ h.status = "New" => /\ orders_[h.id].status \in {"New", "Filled"}
                             /\ FilledOfRequest(r) + Remaining(n) = requests_[r].qty
      /\ h.id = r /\ h.status = "New"
      /\ SecondOrderId(r) \notin DOMAIN orders_
      /\ g = Order(SecondOrderId(r), r, "CloseYst", g.qty, "New")
  BY <1>1, <1>4, <1>5 DEF CallOf
<1>7. r \in RequestIds
  BY <1>6 DEF Numbered
<1>8. orders_[r].status = "Filled"
  BY <1>2, <1>3, <1>6
<1>9. g \in OrderRecords /\ g.qty \in Nat
  <2>1. 2 \in 1 .. Len(s)
    BY <1>5
  <2>2. g \in OrderRecords
    BY <1>1, <1>4, <2>1
  <2> QED
    BY <2>2 DEF OrderRecords
<1>10. FilledOfRequest(r) + g.qty = q.qty
  <2>1. Remaining(n) = 0 + g.qty
    BY <1>1, <1>5, <1>6, <1>8 DEF Remaining
  <2>2. 0 + g.qty = g.qty
    BY <1>9
  <2> QED
    BY <1>6, <2>1, <2>2
<1>11. g.id = SecondOrderId(r) /\ g.status = "New"
  BY <1>6 DEF Order
<1>12. orders_' = Put(orders_, SecondOrderId(r), g)
       /\ told' = Put(told, SecondOrderId(r), <<"New">>)
  <2>1. SecondOrderId(r) \notin DOMAIN told
    BY <1>6 DEF OrdersOK
  <2>2. Publish(g)
    BY <1>1, <1>2, <1>3
  <2>3. orders_' = Put(orders_, SecondOrderId(r), g)
        /\ told' = Put(told, SecondOrderId(r), Append(<<>>, "New"))
    BY <1>11, <2>1, <2>2 DEF Publish, Tell
  <2>4. Append(<<>>, "New") = <<"New">>
    OBVIOUS
  <2> QED
    BY <2>3, <2>4
<1>13. IsUpdated(orders_', orders_, SecondOrderId(r), g)
       /\ IsUpdated(told', told, SecondOrderId(r), <<"New">>)
  BY <1>12, Updated
<1>14. PICK c, t : t = Tail(s) /\ c = [request |-> q, orders |-> t]
  OBVIOUS
<1>15. t \in Seq(OrderRecords) /\ Len(t) = 1 /\ t[1] = g
  BY <1>1, <1>4, <1>5, <1>14
<1>16. c \in CallRecords /\ c.request = q /\ c.orders = t
  BY <1>4, <1>14, <1>15 DEF CallRecords
<1>17. calls' = [calls EXCEPT ![n] = c]
  <2>1. PICK old : old = calls[n]
    OBVIOUS
  <2>2. old = [request |-> q, orders |-> s]
    BY <1>1, <1>4, <2>1 DEF CallRecords
  <2>3. [old EXCEPT !.orders = t] = [request |-> q, orders |-> t]
    BY <2>2
  <2>4. calls' = [calls EXCEPT ![n] = [old EXCEPT !.orders = t]]
    BY <1>1, <1>2, <1>14, <2>1
  <2> QED
    BY <1>14, <2>3, <2>4
<1>18. /\ calls' \in Seq(CallRecords) /\ Len(calls') = Len(calls) /\ calls'[n] = c
       /\ \A k \in 1 .. Len(calls) : k # n => calls'[k] = calls[k]
  <2>1. calls \in Seq(CallRecords)
    BY DEF CallsOK
  <2> QED
    BY <1>3, <1>16, <1>17, <2>1
<1>19. calls'[n].request = q /\ Len(calls'[n].orders) = 1 /\ calls'[n].orders[1] = g
  BY <1>15, <1>16, <1>18
<1>20. Advances(n, r, q, h, g)
  BY <1>1, <1>2, <1>3, <1>5, <1>6, <1>7, <1>8, <1>9, <1>10, <1>13, <1>18, <1>19 DEF Advances
<1> QED
  BY <1>20

LEMMA NextOrderOrders ==
  ASSUME Numbered, OrdersOK, CallsOK, ConcludedOK, NextOrder
  PROVE  Numbered' /\ OrdersOK' /\ CallsOK' /\ ConcludedOK'
<1>1. PICK n, r, q, h, g : Advances(n, r, q, h, g)
  BY NextOrderView
<1>2. PICK o : o = SecondOrderId(r)
  OBVIOUS
<1>3. /\ n = Len(calls) /\ n \in 1 .. Len(calls) /\ h = HeadOf(n) /\ r = RequestOf(n)
      /\ r \in RequestIds /\ r \in DOMAIN requests_ /\ requests_[r] = q /\ q.type # "other"
      /\ h.id = r /\ r \in DOMAIN orders_ /\ orders_[r].status = "Filled"
      /\ o \notin DOMAIN orders_
      /\ g \in OrderRecords /\ g = Order(o, r, "CloseYst", g.qty, "New")
      /\ FilledOfRequest(r) + g.qty = q.qty
      /\ IsUpdated(orders_', orders_, o, g) /\ IsUpdated(told', told, o, <<"New">>)
      /\ calls' \in Seq(CallRecords) /\ Len(calls') = Len(calls)
      /\ calls'[n].request = q /\ Len(calls'[n].orders) = 1 /\ calls'[n].orders[1] = g
      /\ \A k \in 1 .. Len(calls) : k # n => calls'[k] = calls[k]
      /\ requests_' = requests_ /\ requestID_' = requestID_
  BY <1>1, <1>2 DEF Advances
<1>4. g.id = o /\ g.request = r /\ g.filled = 0 /\ g.status = "New" /\ g.qty \in Nat
  BY <1>3 DEF Order, OrderRecords
<1>5. o \in {r, SecondOrderId(r)} /\ o # r /\ o = SecondOrderId(r)
  BY <1>2, <1>3, Ids
<1>6. Numbered' /\ KeptRequests
  BY <1>3 DEF Numbered, KeptRequests
<1>7. /\ \A p \in DOMAIN requests_ : p # r => SameRequest(p)
      /\ \A k \in 1 .. Len(calls) : k # n => /\ CallOf(k) /\ RequestOf(k) # r
                                             /\ SameRequest(RequestOf(k))
  BY <1>3, <1>5, InnermostOthers
<1>8. /\ DOMAIN orders_' = DOMAIN orders_ \cup {o} /\ orders_'[o] = g /\ told'[o] = <<"New">>
      /\ \A y \in DOMAIN orders_ : y # o => orders_'[y] = orders_[y]
  BY <1>3 DEF IsUpdated
<1>9. HeadOf(n)' = g /\ RequestOf(n)' = r
  BY <1>3, <1>4 DEF HeadOf, RequestOf
<1>10. \A k \in 1 .. Len(calls) : /\ RequestOf(k)' = RequestOf(k)
                                  /\ k # n => HeadOf(k)' = HeadOf(k)
  BY <1>3, <1>9, OldCall
<1>11. OrdersOK'
  <2>1. OrderOf(o)'
    BY <1>3, <1>4, <1>5, <1>8 DEF OrderOf, SecondOrderId
  <2>2. ToldOf(o)'
    BY <1>4, <1>8 DEF ToldOf
  <2>3. ASSUME NEW y \in DOMAIN orders_, orders_[y].status = "Rejected"
        PROVE  SecondOrderId(y) # o
    <3>1. y \in RequestIds
      BY <2>3 DEF OrdersOK, OrderOf, Numbered
    <3>2. y # r
      BY <1>3, <2>3
    <3> QED
      BY <1>3, <1>5, <3>1, <3>2, Ids
  <2>4. ASSUME NEW y \in DOMAIN orders_', orders_'[y].status = "New"
        PROVE  \E k \in 1 .. Len(calls') : calls'[k].orders[1].id = y
    <3>1. CASE y = o
      BY <1>3, <1>4, <3>1
    <3>2. CASE y # o
      <4>1. y \in DOMAIN orders_ /\ orders_[y].status = "New"
        BY <1>8, <2>4, <3>2
      <4>2. PICK k \in 1 .. Len(calls) : HeadOf(k).id = y
        BY <4>1 DEF OrdersOK
      <4>3. k # n
        BY <1>3, <4>1, <4>2
      <4> QED
        BY <1>3, <4>2, <4>3 DEF HeadOf
    <3> QED
      BY <3>1, <3>2
  <2> QED
    BY <1>3, <1>6, <2>1, <2>2, <2>3, <2>4, OrdersUpdated
<1>12. CallOf(n)'
  <2>1. PICK a : a = FilledOf(r)
    OBVIOUS
  <2>2. SecondOrderId(r)' = o
    BY <1>5 DEF SecondOrderId
  <2>3. FilledOf(r)' = a /\ FilledOf(o)' = 0
    BY <1>3, <1>4, <1>5, <1>8, <2>1 DEF FilledOf
  <2>4. FilledOf(o) = 0
    BY <1>3 DEF FilledOf
  <2>5. a \in Nat
    BY <1>3, <2>1 DEF FilledOf, OrdersOK, OrderOf, OrderRecords
  <2>6. FilledOfRequest(r) = a + 0
    BY <1>5, <2>1, <2>4 DEF FilledOfRequest
  <2>7. FilledOfRequest(r)' = a + 0
    <3>1. FilledOfRequest(r)' = FilledOf(r)' + FilledOf(o)'
      BY <2>2 DEF FilledOfRequest
    <3> QED
      BY <2>3, <3>1
  <2>8. Remaining(n)' = g.qty + 0
    BY <1>3, <1>4, <1>8, <1>9 DEF Remaining
  <2>9. FilledOfRequest(r)' + Remaining(n)' = requests_'[r].qty
    BY <1>3, <1>4, <2>5, <2>6, <2>7, <2>8
  <2>10. o \in DOMAIN orders_'
    BY <1>8
  <2> QED
    BY <1>3, <1>4, <1>8, <2>9, <2>10 DEF CallOf
<1>13. CallsOK'
  <2>1. ASSUME NEW k \in 1 .. Len(calls)
        PROVE  CallOf(k)'
    <3>1. CASE k = n
      BY <1>12, <3>1
    <3>2. CASE k # n
      BY <1>3, <1>6, <1>7, <3>2, CallKept
    <3> QED
      BY <3>1, <3>2
  <2>2. \A j, k \in 1 .. Len(calls) : RequestOf(j)' = RequestOf(k)' => j = k
    BY <1>10 DEF CallsOK
  <2> QED
    BY <1>3, <2>1, <2>2 DEF CallsOK
<1>14. ConcludedOK'
  <2>1. ASSUME NEW p \in DOMAIN requests_
        PROVE  \/ requests_[p].type = "other"
               \/ \E k \in 1 .. Len(calls) : RequestOf(k)' = p
               \/ Concluded(p)'
    <3>1. CASE p = r
      BY <1>3, <1>9, <3>1
    <3>2. CASE p # r
      <4>1. Concluded(p) => Concluded(p)'
        BY <1>3, <1>4, <1>6, <1>7, <3>2, InnermostConcluded
      <4> QED
        BY <1>10, <4>1 DEF ConcludedOK
    <3> QED
      BY <3>1, <3>2
  <2> QED
    BY <1>3, <2>1 DEF ConcludedOK
<1> QED
  BY <1>6, <1>11, <1>13, <1>14

LEMMA NextOrderCovered ==
  ASSUME Numbered, OrdersOK, CallsOK, CoveredOK, NextOrder
  PROVE  CoveredOK'
<1>1. SUFFICES ASSUME ~reentered'
               PROVE  /\ unmatched' = 0 /\ Len(calls') <= 1
                      /\ \A k \in 1 .. Len(calls') : CoveredCall(k)'
  BY DEF CoveredOK
<1>2. PICK n, r, q, h, g : Advances(n, r, q, h, g)
  BY NextOrderView
<1>3. UNCHANGED <<positions, unmatched, reentered>>
  BY DEF NextOrder, booksVars
<1>4. /\ n = Len(calls) /\ n \in 1 .. Len(calls) /\ h = HeadOf(n) /\ q = calls[n].request
      /\ r \in DOMAIN requests_ /\ requests_[r] = q
      /\ g = calls[n].orders[2] /\ Len(calls[n].orders) = 2
      /\ Len(calls') = Len(calls) /\ calls'[n].request = q /\ Len(calls'[n].orders) = 1
      /\ HeadOf(n)' = g
  BY <1>2 DEF Advances, HeadOf
<1>5. unmatched = 0 /\ Len(calls) <= 1 /\ CoveredCall(n) /\ n = 1
  BY <1>1, <1>3, <1>4 DEF CoveredOK, CallsOK
<1>6. h.status = "New"
  BY <1>4 DEF CallsOK, CallOf, HeadOf
<1>7. CoveredOrder(g, q)
  BY <1>4, <1>5, <1>6 DEF CoveredCall
<1>8. CoveredOrder(g, q)'
  BY <1>3, <1>7 DEF CoveredOrder, PositionOf, TradeOf, CloseQueue, Trade
<1>9. CoveredCall(n)'
  BY <1>4, <1>8 DEF CoveredCall
<1> QED
  BY <1>3, <1>4, <1>5, <1>9

-----------------------------------------------------------------------------
(* Return.                                                                 *)

LEMMA ReturnCalls ==
  ASSUME CallsOK, calls # <<>>, calls' = Front(calls), NEW n, n = Len(calls)
  PROVE  /\ n \in 1 .. Len(calls) /\ calls' \in Seq(CallRecords) /\ Len(calls') = n - 1
         /\ \A k \in 1 .. n - 1 : k \in 1 .. n /\ k # n /\ calls'[k] = calls[k]
         /\ \A k \in 1 .. n : k # n => k \in 1 .. n - 1
<1>1. calls \in Seq(CallRecords) /\ n \in Nat \ {0}
  BY DEF CallsOK
<1>2. calls' = SubSeq(calls, 1, n - 1)
  BY DEF Front
<1> QED
  BY <1>1, <1>2

\* The request of a call that returns is concluded.
LEMMA ReturnConcludes ==
  ASSUME BooksOK, Numbered, OrdersOK, CallsOK, Return, NEW n, n = Len(calls), NEW r, r = RequestOf(n)
  PROVE  Concluded(r)
<1>1. PICK h, s : h = HeadOf(n) /\ s = calls[n].orders
  OBVIOUS
<1>2. calls # <<>> /\ orders_[Current].status # "New" /\ Len(Call.orders) = 1
  BY DEF Return
<1>3. n \in 1 .. Len(calls) /\ Current = h.id /\ Call = calls[n]
  BY <1>1, <1>2, CurrentParts
<1>4. CallOf(n) /\ h = s[1] /\ r = h.request /\ h \in OrderRecords
  BY <1>1, <1>3, CallParts DEF CallsOK, HeadOf, RequestOf
<1>5. /\ r \in DOMAIN requests_ /\ h.id \in DOMAIN orders_ /\ orders_[h.id].request = r
      /\ h.status = "Rejected" => orders_[h.id].status = "Rejected"
      /\ h.status = "New" => /\ orders_[h.id].status \in {"New", "Filled"}
                             /\ FilledOfRequest(r) + Remaining(n) = requests_[r].qty
      /\ h.status \in {"New", "Rejected"}
  BY <1>1, <1>4 DEF CallOf
<1>6. CASE h.status = "Rejected"
  <2>1. h.id = r
    BY <1>5, <1>6 DEF OrdersOK, OrderOf
  <2> QED
    BY <1>5, <1>6, <2>1 DEF Concluded
<1>7. CASE h.status = "New"
  <2>1. orders_[h.id].status = "Filled"
    BY <1>2, <1>3, <1>5, <1>7
  <2>2. FilledOfRequest(r) = requests_[r].qty
    <3>1. Remaining(n) = 0 + 0
      BY <1>1, <1>2, <1>3, <2>1 DEF Remaining
    <3>2. \A o : FilledOf(o) \in Nat
      BY DEF FilledOf, OrdersOK, OrderOf, OrderRecords
    <3>3. FilledOfRequest(r) \in Nat
      BY <3>2 DEF FilledOfRequest
    <3>4. FilledOfRequest(r) + 0 = requests_[r].qty
      BY <1>5, <1>7, <3>1
    <3> QED
      BY <3>3, <3>4
  <2>3. ASSUME NEW o \in DOMAIN orders_, orders_[o].request = r
        PROVE  orders_[o].status = "Filled"
    <3>1. /\ OrderOf(o) /\ o \in {r, SecondOrderId(r)} /\ h.id \in {r, SecondOrderId(r)}
          /\ orders_[o].status \in {"New", "Filled", "Rejected"}
      BY <1>5, <2>3, OrderIdOf DEF OrdersOK, OrderOf, OrderRecords
    <3>2. ASSUME orders_[o].status = "New"
          PROVE  FALSE
      <4>1. PICK k \in 1 .. Len(calls) : HeadOf(k).id = o
        BY <3>2 DEF OrdersOK
      <4>2. RequestOf(k) = r
        BY <2>3, <4>1, CallParts
      <4>3. k = n
        BY <1>3, <4>2 DEF CallsOK
      <4> QED
        BY <1>1, <2>1, <3>2, <4>1, <4>3
    <3>3. ASSUME orders_[o].status = "Rejected"
          PROVE  FALSE
      <4>1. o = r /\ SecondOrderId(r) \notin DOMAIN orders_
        BY <2>3, <3>1, <3>3 DEF OrderOf
      <4>2. h.id = r
        BY <1>5, <3>1, <4>1
      <4> QED
        BY <2>1, <3>3, <4>1, <4>2
    <3> QED
      BY <3>1, <3>2, <3>3
  <2> QED
    BY <2>2, <2>3 DEF Concluded
<1> QED
  BY <1>5, <1>6, <1>7

LEMMA ReturnOrders ==
  ASSUME BooksOK, Numbered, OrdersOK, CallsOK, ConcludedOK, CoveredOK, Return
  PROVE  Numbered' /\ OrdersOK' /\ CallsOK' /\ ConcludedOK' /\ CoveredOK'
<1>1. PICK n : n = Len(calls)
  OBVIOUS
<1>2. /\ calls # <<>> /\ orders_[Current].status # "New" /\ calls' = Front(calls)
      /\ requestID_' = requestID_ /\ requests_' = requests_ /\ orders_' = orders_
      /\ positions' = positions /\ told' = told
      /\ unmatched' = unmatched /\ reentered' = reentered
  BY DEF Return, booksVars, ghostVars
<1>3. /\ n \in 1 .. Len(calls) /\ calls' \in Seq(CallRecords) /\ Len(calls') = n - 1
      /\ \A k \in 1 .. n - 1 : k \in 1 .. n /\ k # n /\ calls'[k] = calls[k]
      /\ \A k \in 1 .. n : k # n => k \in 1 .. n - 1
  BY <1>1, <1>2, ReturnCalls
<1>4. Numbered' /\ KeptRequests
  BY <1>2 DEF Numbered, KeptRequests
<1>5. \A r : SameRequest(r)
  BY <1>2 DEF SameRequest
<1>6. \A k \in 1 .. n - 1 : HeadOf(k)' = HeadOf(k) /\ RequestOf(k)' = RequestOf(k)
  BY <1>3, OldCall
<1>7. OrdersOK'
  <2>1. ASSUME NEW o \in DOMAIN orders_
        PROVE  OrderOf(o)' /\ ToldOf(o)'
    BY <1>2, <2>1 DEF OrdersOK, OrderOf, ToldOf, SecondOrderId
  <2>2. ASSUME NEW o \in DOMAIN orders_, orders_[o].status = "New"
        PROVE  \E k \in 1 .. Len(calls') : HeadOf(k)'.id = o
    <3>1. PICK k \in 1 .. n : HeadOf(k).id = o
      BY <1>1, <2>2 DEF OrdersOK
    <3>2. k # n
      BY <1>1, <1>2, <2>2, <3>1, CurrentParts
    <3> QED
      BY <1>3, <1>6, <3>1, <3>2
  <2> QED
    BY <1>2, <2>1, <2>2 DEF OrdersOK
<1>8. CallsOK'
  <2>1. ASSUME NEW k \in 1 .. n - 1
        PROVE  CallOf(k)'
    <3>1. CallOf(k) /\ calls'[k] = calls[k]
      BY <1>1, <1>3 DEF CallsOK
    <3> QED
      BY <1>4, <1>5, <3>1, CallKept
  <2>2. \A j, k \in 1 .. n - 1 : RequestOf(j)' = RequestOf(k)' => j = k
    BY <1>1, <1>3, <1>6 DEF CallsOK
  <2>3. Len(calls') <= MaxDepth
    BY <1>1, <1>3, BoundAssumption DEF CallsOK
  <2> QED
    BY <1>3, <2>1, <2>2, <2>3 DEF CallsOK
<1>9. ConcludedOK'
  <2>1. ASSUME NEW p \in DOMAIN requests_
        PROVE  \/ requests_[p].type = "other"
               \/ \E k \in 1 .. n - 1 : RequestOf(k)' = p
               \/ Concluded(p)
    <3>1. CASE \E k \in 1 .. n : RequestOf(k) = p
      <4>1. PICK k \in 1 .. n : RequestOf(k) = p
        BY <3>1
      <4>2. CASE k = n
        BY <1>1, <4>1, <4>2, ReturnConcludes
      <4>3. CASE k # n
        BY <1>3, <1>6, <4>1, <4>3
      <4> QED
        BY <4>2, <4>3
    <3>2. CASE ~\E k \in 1 .. n : RequestOf(k) = p
      BY <1>1, <3>2 DEF ConcludedOK
    <3> QED
      BY <3>1, <3>2
  <2>2. ASSUME NEW p \in DOMAIN requests_, Concluded(p)
        PROVE  Concluded(p)'
    <3>1. \A o \in DOMAIN orders_' : orders_'[o].request = p => o \in {p, SecondOrderId(p)}
      BY <1>2, OrderIdOf
    <3> QED
      BY <1>4, <1>5, <2>2, <3>1, ConcludedKept
  <2> QED
    BY <1>2, <1>3, <2>1, <2>2 DEF ConcludedOK
<1>10. CoveredOK'
  <2>1. ASSUME ~reentered
        PROVE  unmatched = 0 /\ Len(calls') <= 1 /\ \A k \in 1 .. Len(calls') : CoveredCall(k)'
    <3>1. unmatched = 0 /\ n <= 1
      BY <1>1, <2>1 DEF CoveredOK
    <3>2. Len(calls') = 0
      BY <1>1, <1>3, <3>1 DEF CallsOK
    <3> QED
      BY <3>1, <3>2
  <2> QED
    BY <1>2, <2>1 DEF CoveredOK
<1> QED
  BY <1>4, <1>7, <1>8, <1>9, <1>10

-----------------------------------------------------------------------------
(* The initial states.                                                     *)

\* A carried position is worth what it cost, and is what was bought.
LEMMA CarriedBooks ==
  ASSUME NEW pos \in Carried, NEW mult \in Int
  PROVE  /\ pos \in CPositions /\ Book(pos, mult) = CarriedFlow(pos, mult)
         /\ Net(pos) = CarriedNet(pos) /\ Book(pos, mult) \in Int /\ Net(pos) \in Int
<1>1. /\ pos \in CPositions /\ pos["LongToday"] = <<>> /\ pos["ShortToday"] = <<>>
      /\ pos.realizedPnL = 0
  BY CarriedAssumption
<1>2. PICK a, b, c, d : /\ a = SumValue(pos["ShortYst"]) /\ b = SumValue(pos["LongYst"])
                        /\ c = SumQty(pos["LongYst"]) /\ d = SumQty(pos["ShortYst"])
  OBVIOUS
<1>3. /\ a \in Int /\ b \in Int /\ c \in Int /\ d \in Int
      /\ Book(pos, mult) \in Int /\ Net(pos) \in Int
  BY <1>1, <1>2, BookParts DEF PositionTypes
<1>4. Book(pos, mult) = 0 + mult * ((0 + a) - (0 + b)) /\ Net(pos) = (0 + c) - (0 + d)
  BY <1>1, <1>2, BookParts, EmptyQueueSums
<1>5. (0 + a) - (0 + b) = a - b /\ (0 + c) - (0 + d) = c - d
  BY <1>3
<1>6. PICK z : z = a - b
  OBVIOUS
<1>7. z \in Int /\ mult * z \in Int /\ 0 + mult * z = mult * z
  BY <1>3, <1>6
<1>8. CarriedFlow(pos, mult) = mult * z /\ CarriedNet(pos) = c - d
  BY <1>2, <1>6 DEF CarriedFlow, CarriedNet
<1> QED
  BY <1>1, <1>3, <1>4, <1>5, <1>6, <1>7, <1>8

LEMMA NoPositions ==
  ASSUME NEW c \in Int, NEW nt, \A i \in Instruments : nt[i] = 0
  PROVE  PositionsOK(NoMap) /\ LedgerOf(NoMap, c, c, nt)
<1>1. DOMAIN NoMap = {} /\ IsFiniteSet({})
  BY EmptyMap, FS_EmptySet
<1>2. PositionsOK(NoMap)
  BY <1>1 DEF PositionsOK
<1>3. PICK w : w = BooksIn(NoMap)
  OBVIOUS
<1>4. DOMAIN w = {} /\ w = [x \in {} |-> w[x]]
  BY <1>1, <1>3 DEF BooksIn
<1>5. SumOf(w) = 0
  BY <1>4, SumOfNone
<1>6. ASSUME NEW i \in Instruments
      PROVE  Net(BookIn(NoMap, i)) = 0
  BY <1>1, EmptyPositionParts DEF BookIn
<1>7. c + SumOf(w) = c
  BY <1>5
<1> QED
  BY <1>2, <1>3, <1>6, <1>7 DEF LedgerOf

LEMMA InitBooks ==
  ASSUME Init
  PROVE  BooksOK /\ Ledger
<1>1. PICK inst \in Instruments, pos \in Carried :
        /\ positions = (IF pos = EmptyPosition THEN NoMap ELSE Put(NoMap, inst, pos))
        /\ net = [i \in Instruments |-> IF i = inst THEN CarriedNet(pos) ELSE 0]
        /\ flow = cash + CarriedFlow(pos, multiplier[inst])
  BY DEF Init
<1>2. cash \in Int /\ unmatched = 0 /\ days = 0 /\ reentered = FALSE
  BY MoneyAssumption DEF Init
<1>3. PICK m, x, y : m = multiplier[inst] /\ x = CarriedFlow(pos, m) /\ y = CarriedNet(pos)
  OBVIOUS
<1>4. m \in Int
  BY <1>3, MoneyAssumption
<1>5. /\ pos \in CPositions /\ Book(pos, m) = x /\ Net(pos) = y /\ x \in Int /\ y \in Int
  BY <1>3, <1>4, CarriedBooks
<1>6. net = [i \in Instruments |-> IF i = inst THEN y ELSE 0]
  BY <1>1, <1>3
<1>7. flow = cash + x
  BY <1>1, <1>3
<1>8. net \in [Instruments -> Int] /\ flow \in Int
  BY <1>2, <1>5, <1>6, <1>7
<1>9. PositionsOK(positions) /\ LedgerOf(positions, cash, flow, net)
  <2>1. PICK zero : zero = [i \in Instruments |-> 0]
    OBVIOUS
  <2>2. PositionsOK(NoMap) /\ LedgerOf(NoMap, cash, cash, zero)
    BY <1>2, <2>1, NoPositions
  <2>3. CASE pos = EmptyPosition
    <3>1. x = 0 /\ y = 0
      BY <1>4, <1>5, <2>3, EmptyPositionParts
    <3>2. flow = cash /\ \A i \in Instruments : net[i] = 0
      BY <1>2, <1>6, <1>7, <3>1
    <3> QED
      BY <1>1, <1>2, <2>3, <3>2, NoPositions
  <2>4. CASE pos # EmptyPosition
    <3>1. IsUpdated(positions, NoMap, inst, pos)
      BY <1>1, <2>4, Updated
    <3>2. BookIn(NoMap, inst) = EmptyPosition
      BY EmptyMap DEF BookIn
    <3>3. Book(BookIn(NoMap, inst), multiplier[inst]) = 0
      BY <1>3, <1>4, <3>2, EmptyPositionParts
    <3>4. Book(pos, multiplier[inst]) = Book(BookIn(NoMap, inst), multiplier[inst]) + x
      BY <1>3, <1>5, <3>3
    <3>5. net[inst] = Net(pos) /\ \A i \in Instruments : i # inst => net[i] = zero[i]
      BY <1>5, <1>6, <2>1
    <3>6. PICK ps, nt : ps = positions /\ nt = net
      OBVIOUS
    <3>7. LedgerOf(ps, cash, cash + x, nt)
      BY <1>2, <1>5, <2>2, <3>1, <3>4, <3>5, <3>6, LedgerPut
    <3>8. PositionsOK(ps)
      BY <1>5, <2>2, <3>1, <3>6, PositionsPut
    <3> QED
      BY <1>7, <3>6, <3>7, <3>8
  <2> QED
    BY <2>3, <2>4
<1>10. Ledger
  BY <1>9, LedgerIs
<1>11. days \in 0 .. MaxDays /\ unmatched \in Nat /\ reentered \in BOOLEAN
  <2>1. 0 \in 0 .. MaxDays /\ 0 \in Nat /\ FALSE \in BOOLEAN
    BY BoundAssumption
  <2> QED
    BY <1>2, <2>1
<1> QED
  BY <1>2, <1>8, <1>9, <1>10, <1>11 DEF BooksOK, PositionsOK

LEMMA InitInvariant ==
  ASSUME Init
  PROVE  IInv
<1>1. /\ requestID_ = 0 /\ requests_ = NoMap /\ orders_ = NoMap /\ calls = <<>> /\ told = NoMap
      /\ unmatched = 0 /\ reentered = FALSE
  BY DEF Init
<1>2. DOMAIN requests_ = {} /\ DOMAIN orders_ = {} /\ DOMAIN told = {}
  BY <1>1, EmptyMap
<1>3. calls \in Seq(CallRecords) /\ Len(calls) = 0 /\ 1 .. Len(calls) = {}
  BY <1>1
<1>4. Numbered
  <2>1. 0 \in 0 .. MaxRequests /\ 0 = 2 * 0
    BY BoundAssumption
  <2> QED
    BY <1>1, <1>2, <2>1 DEF Numbered
<1>5. OrdersOK /\ ConcludedOK
  BY <1>2 DEF OrdersOK, ConcludedOK
<1>6. CallsOK
  BY <1>3, BoundAssumption DEF CallsOK
<1>7. CoveredOK
  BY <1>1, <1>3 DEF CoveredOK
<1> QED
  BY <1>4, <1>5, <1>6, <1>7, InitBooks DEF IInv

-----------------------------------------------------------------------------
(* Every step keeps the invariant.                                         *)

LEMMA NoCallStep ==
  ASSUME IInv, calls = <<>>,
         UNCHANGED <<requestID_, requests_, orders_, calls, told, unmatched, reentered>>
  PROVE  Numbered' /\ OrdersOK' /\ CallsOK' /\ ConcludedOK' /\ CoveredOK'
<1>1. KeptRequests /\ \A r \in DOMAIN requests_' : r \in DOMAIN requests_
  BY DEF KeptRequests
<1>2. OrdersOK' /\ CallsOK' /\ ConcludedOK'
  BY <1>1, NoOrderStep DEF IInv
<1>3. Numbered'
  BY DEF IInv, Numbered
<1>4. Len(calls') = 0
  OBVIOUS
<1>5. CoveredOK'
  BY <1>4 DEF IInv, CoveredOK
<1> QED
  BY <1>2, <1>3, <1>5

LEMMA StutterStep ==
  ASSUME IInv, UNCHANGED vars
  PROVE  IInv'
<1>1. BooksOK /\ Numbered /\ OrdersOK /\ CallsOK /\ ConcludedOK /\ CoveredOK /\ Ledger
  BY DEF IInv
<1>2. UNCHANGED <<requestID_, requests_, orders_, positions, cash, calls, days,
                  told, flow, net, unmatched, reentered>>
  BY DEF vars
<1>3. KeptRequests /\ \A r \in DOMAIN requests_' : r \in DOMAIN requests_
  BY <1>2 DEF KeptRequests
<1>4. OrdersOK' /\ CallsOK' /\ ConcludedOK'
  BY <1>1, <1>2, <1>3, NoOrderStep
<1>5. BooksOK' /\ Numbered'
  BY <1>1, <1>2 DEF BooksOK, Numbered
<1>6. Ledger'
  BY <1>1, <1>2, LedgerIs
<1>7. CoveredOK'
  <2>1. ASSUME NEW k, CoveredCall(k)
        PROVE  CoveredCall(k)'
    BY <1>2, <2>1 DEF CoveredCall, CoveredOrder, HeadOf, PositionOf, TradeOf, CloseQueue, Trade
  <2> QED
    BY <1>1, <1>2, <2>1 DEF CoveredOK
<1> QED
  BY <1>4, <1>5, <1>6, <1>7 DEF IInv

\* Whatever the request is, and whoever submits it.
LEMMA SubmitInvariant ==
  ASSUME IInv, NEW q \in Requests, submitRequest(q)
  PROVE  IInv'
<1>1. BooksOK /\ Numbered /\ OrdersOK /\ CallsOK /\ ConcludedOK /\ CoveredOK /\ Ledger
  BY DEF IInv
<1>2. BooksOK' /\ Ledger'
  BY <1>1, SubmitBooks
<1>3. Numbered'
  BY <1>1, SubmitNumbered
<1>4. OrdersOK' /\ CallsOK' /\ ConcludedOK' /\ CoveredOK'
  <2>1. CASE q.type = "other"
    BY <1>1, <2>1, SubmitOther
  <2>2. CASE q.type # "other"
    BY <1>1, <2>2, SubmitOrders, SubmitCovered
  <2> QED
    BY <2>1, <2>2
<1> QED
  BY <1>2, <1>3, <1>4 DEF IInv

LEMMA InvariantStep == IInv /\ [Next]_vars => IInv'
<1> SUFFICES ASSUME IInv, [Next]_vars PROVE IInv'
  OBVIOUS
<1>1. BooksOK /\ Numbered /\ OrdersOK /\ CallsOK /\ ConcludedOK /\ CoveredOK /\ Ledger
  BY DEF IInv
<1>2. ASSUME NEW q \in Submitted, submitRequest(q)
      PROVE  IInv'
  BY <1>2, SubmittedAssumption, SubmitInvariant
<1>3. CASE FillOrder
  BY <1>1, <1>3, FillBooks, FillOrders, FillCovered DEF IInv
<1>4. CASE NextOrder
  <2>1. UNCHANGED <<booksVars, days, flow, net, unmatched, reentered>>
    BY <1>4 DEF NextOrder
  <2>2. BooksOK'
    BY <1>1, <2>1 DEF BooksOK, booksVars
  <2>3. Ledger'
    BY <1>1, <2>1, LedgerIs DEF booksVars
  <2> QED
    BY <1>1, <1>4, <2>2, <2>3, NextOrderOrders, NextOrderCovered DEF IInv
<1>5. CASE Return
  <2>1. UNCHANGED <<booksVars, days, ghostVars>>
    BY <1>5 DEF Return
  <2>2. BooksOK'
    BY <1>1, <2>1 DEF BooksOK, booksVars, ghostVars
  <2>3. Ledger'
    BY <1>1, <2>1, LedgerIs DEF booksVars, ghostVars
  <2> QED
    BY <1>1, <1>5, <2>2, <2>3, ReturnOrders DEF IInv
<1>6. ASSUME NEW inst \in Instruments, NEW price \in Prices, onMarketData(inst, price)
      PROVE  IInv'
  <2>1. calls = <<>> /\ UNCHANGED <<requestID_, requests_, orders_, calls, told, unmatched, reentered>>
    BY <1>6 DEF onMarketData, ghostVars
  <2> QED
    BY <1>1, <1>6, <2>1, NoCallStep, TickBooks DEF IInv
<1>7. CASE onStartDay
  <2>1. calls = <<>> /\ UNCHANGED <<requestID_, requests_, orders_, calls, told, unmatched, reentered>>
    BY <1>7 DEF onStartDay, ghostVars
  <2> QED
    BY <1>1, <1>7, <2>1, NoCallStep, DayBooks DEF IInv
<1>8. CASE UNCHANGED vars
  BY <1>8, StutterStep
<1> QED
  BY <1>2, <1>3, <1>4, <1>5, <1>6, <1>7, <1>8 DEF Next, Submit, Tick

-----------------------------------------------------------------------------
(* Theorems.                                                               *)

\* The inductive invariant of the broker: its books, its request numbers, what is known
\* of each order, of each submitRequest under way and of each request that is done.
THEOREM BrokerInvariant == Spec => []IInv
<1>1. Init => IInv
  BY InitInvariant
<1> QED
  BY <1>1, InvariantStep, PTL DEF Spec

LEMMA InvariantTyped == IInv => TypeOK
<1> SUFFICES ASSUME IInv PROVE TypeOK
  OBVIOUS
<1>1. BooksOK /\ Numbered /\ OrdersOK /\ CallsOK
  BY DEF IInv
<1>2. ASSUME NEW o \in DOMAIN orders_
      PROVE  /\ o \in OrderIds /\ orders_[o].id = o
             /\ orders_[o].status \in {"New", "Filled", "Rejected"}
             /\ orders_[o].qty \in Nat /\ orders_[o].filled \in Nat
  <2>1. PICK order : order = orders_[o]
    OBVIOUS
  <2>2. order \in OrderRecords /\ order.id = o
    BY <1>1, <2>1 DEF OrdersOK, OrderOf
  <2> QED
    BY <2>1, <2>2 DEF OrderRecords
<1>3. \A r \in DOMAIN requests_ : r \in RequestIds /\ requests_[r] \in Requests
  BY <1>1 DEF Numbered
<1>4. requestID_ \in {2 * k : k \in 0 .. MaxRequests}
  BY <1>1 DEF Numbered
<1>5. /\ DOMAIN positions \subseteq Instruments
      /\ \A i \in DOMAIN positions : positions[i] \in CPositions
      /\ cash \in Int /\ days \in 0 .. MaxDays
  BY <1>1 DEF BooksOK
<1>6. Len(calls) <= MaxDepth
  BY <1>1 DEF CallsOK
<1> QED
  BY <1>2, <1>3, <1>4, <1>5, <1>6 DEF TypeOK

\* The state of the broker keeps its types: the requests and the orders are numbered
\* as submitRequest numbers them, every position has its four queues, and no more
\* submitRequests are nested than are allowed to.
THEOREM TypeCorrect == Spec => []TypeOK
<1> QED
  BY BrokerInvariant, InvariantTyped, PTL

\* Cash, realized P&L and the cost of what is open are the money the fills moved, and
\* the open quantities what was bought less what was sold, after any number of
\* partial matches, split closes, nested submitRequests and starts of a day.
THEOREM BooksBalance == Spec => []Ledger
<1>1. IInv => Ledger
  BY DEF IInv
<1> QED
  BY <1>1, BrokerInvariant, PTL

\* A close that passed checkNewOrderRequestValid finds its positions, unless some
\* submitRequest ran inside another.
THEOREM ChecksSuffice == Spec => []UnmatchedOnlyReentrant
<1>1. IInv => UnmatchedOnlyReentrant
  BY DEF IInv, CoveredOK, UnmatchedOnlyReentrant
<1> QED
  BY <1>1, BrokerInvariant, PTL

LEMMA InvariantConcluded == IInv => EveryOrderConcluded
<1> SUFFICES ASSUME IInv, NEW o \in DOMAIN orders_
             PROVE  /\ o \in DOMAIN told
                    /\ told[o] \in {<<"New">>, <<"New", "Filled">>, <<"Rejected">>}
                    /\ Last(told[o]) = orders_[o].status
                    /\ told[o] = <<"New">> =>
                         \E k \in 1 .. Len(calls) : Head(calls[k].orders).id = o
  BY DEF EveryOrderConcluded
<1>1. /\ OrdersOK /\ CallsOK /\ o \in DOMAIN told /\ ToldOf(o)
      /\ orders_[o].status \in {"New", "Filled", "Rejected"}
  BY DEF IInv, OrdersOK, OrderOf, OrderRecords
<1>2. CASE orders_[o].status = "New"
  <2>1. told[o] = <<"New">>
    BY <1>1, <1>2 DEF ToldOf
  <2>2. Last(<<"New">>) = "New"
    BY DEF Last
  <2>3. PICK k \in 1 .. Len(calls) : HeadOf(k).id = o
    BY <1>1, <1>2 DEF OrdersOK
  <2>4. Head(calls[k].orders).id = o
    BY <1>1, <2>3, CallParts
  <2> QED
    BY <1>1, <1>2, <2>1, <2>2, <2>4
<1>3. CASE orders_[o].status = "Filled"
  <2>1. told[o] = <<"New", "Filled">>
    BY <1>1, <1>3 DEF ToldOf
  <2>2. Last(<<"New", "Filled">>) = "Filled" /\ Len(<<"New", "Filled">>) = 2 /\ Len(<<"New">>) = 1
    BY DEF Last
  <2>3. told[o] # <<"New">>
    BY <2>1, <2>2
  <2> QED
    BY <1>1, <1>3, <2>1, <2>2, <2>3
<1>4. CASE orders_[o].status = "Rejected"
  <2>1. told[o] = <<"Rejected">>
    BY <1>1, <1>4 DEF ToldOf
  <2>2. Last(<<"Rejected">>) = "Rejected" /\ <<"Rejected">>[1] = "Rejected" /\ <<"New">>[1] = "New"
    BY DEF Last
  <2>3. told[o] # <<"New">>
    BY <2>1, <2>2
  <2> QED
    BY <1>1, <1>4, <2>1, <2>2, <2>3
<1> QED
  BY <1>1, <1>2, <1>3, <1>4

\* The subscriber sees each order as new and then as filled, or as rejected, and an
\* order stays new only as long as its submitRequest runs.
THEOREM OrdersConclude == Spec => []EveryOrderConcluded
<1> QED
  BY BrokerInvariant, InvariantConcluded, PTL

-----------------------------------------------------------------------------
(* What is filled of a request.                                            *)

\* The sum of a function over at most two numbers.
LEMMA SumOfTwo ==
  ASSUME NEW a, NEW b, a # b, NEW D, D \subseteq {a, b}, NEW w \in [D -> Int]
  PROVE  SumOf(w) = (IF a \in D THEN w[a] ELSE 0) + (IF b \in D THEN w[b] ELSE 0)
<1>1. PICK A, none, u : A = D \cap {a} /\ none = [x \in {} |-> 0] /\ u = [x \in A |-> w[x]]
  OBVIOUS
<1>2. none \in [{} -> Int] /\ DOMAIN none = {} /\ SumOf(none) = 0
  <2>1. DOMAIN none = {} /\ none = [x \in {} |-> none[x]] /\ none \in [{} -> Int]
    BY <1>1
  <2> QED
    BY <2>1, SumOfNone
<1>3. IsFiniteSet({}) /\ IsFiniteSet(A) /\ u \in [A -> Int]
  <2>1. A = {} \/ A = {a}
    BY <1>1
  <2>2. IsFiniteSet({}) /\ IsFiniteSet(A)
    BY <2>1, FS_EmptySet, FS_Singleton
  <2>3. \A x \in A : w[x] \in Int
    BY <1>1
  <2>4. u \in [A -> Int]
    BY <1>1, <2>3
  <2> QED
    BY <2>2, <2>4
<1>4. SumOf(u) = (IF a \in D THEN w[a] ELSE 0)
  <2>1. CASE a \in D
    <3>1. PICK E : E = {}
      OBVIOUS
    <3>2. /\ A = E \cup {a} /\ a \notin E /\ \A y \in E : u[y] = none[y]
          /\ IsFiniteSet(E) /\ none \in [E -> Int]
      BY <1>1, <1>2, <1>3, <2>1, <3>1
    <3>3. SumOf(u) = 0 + u[a]
      <4>1. u \in [A -> Int]
        BY <1>3
      <4>2. SumOf(u) = SumOf(none) + u[a]
        BY <3>2, <4>1, SumOfOneMore
      <4> QED
        BY <1>2, <4>2
    <3>4. u[a] = w[a] /\ w[a] \in Int
      BY <1>1, <2>1
    <3> QED
      BY <2>1, <3>3, <3>4
  <2>2. CASE a \notin D
    <3>1. DOMAIN u = {} /\ u = [x \in {} |-> u[x]]
      BY <1>1, <2>2
    <3> QED
      BY <2>2, <3>1, SumOfNone
  <2> QED
    BY <2>1, <2>2
<1>5. CASE b \in D
  <2>1. D = A \cup {b} /\ b \notin A /\ \A y \in A : w[y] = u[y]
    BY <1>1, <1>5
  <2>2. SumOf(w) = SumOf(u) + w[b]
    BY <1>3, <2>1, SumOfOneMore
  <2> QED
    BY <1>4, <1>5, <2>2
<1>6. CASE b \notin D
  <2>1. D = A /\ w = u
    BY <1>1, <1>6
  <2>2. SumOf(u) \in Int
    BY <1>3, SumOfType
  <2> QED
    BY <1>4, <1>6, <2>1, <2>2
<1> QED
  BY <1>5, <1>6

\* The orders of a request are those of its two numbers that exist.
LEMMA OrdersOfIs ==
  ASSUME Numbered, OrdersOK, NEW r \in DOMAIN requests_, NEW z, z = SecondOrderId(r)
  PROVE  OrdersOf(r) = {r, z} \cap DOMAIN orders_ /\ r # z /\ r \in RequestIds
<1>1. r \in RequestIds /\ r # z
  BY Ids DEF Numbered
<1>2. ASSUME NEW o \in DOMAIN orders_
      PROVE  orders_[o].request = r <=> o \in {r, z}
  <2>1. PICK s : s = orders_[o].request
    OBVIOUS
  <2>2. o \in {s, SecondOrderId(s)} /\ s \in RequestIds
    BY <2>1, OrderIdOf DEF Numbered
  <2>3. CASE s = r
    BY <2>1, <2>2, <2>3
  <2>4. CASE s # r
    <3>1. s \notin {r, z} /\ SecondOrderId(s) # z /\ SecondOrderId(s) # r
      BY <1>1, <2>2, <2>4, Ids
    <3> QED
      BY <2>1, <2>2, <2>4, <3>1
  <2> QED
    BY <2>3, <2>4
<1> QED
  BY <1>1, <1>2 DEF OrdersOf

LEMMA InvariantFilled == IInv => FilledAsRequested
<1> SUFFICES ASSUME IInv, NEW r \in DOMAIN requests_, requests_[r].type # "other", ~UnderWay(r)
             PROVE
    \/ \E o \in OrderIds : /\ OrdersOf(r) = {o}
                           /\ orders_[o].status = "Rejected" /\ orders_[o].filled = 0
    \/ /\ \A o \in OrdersOf(r) : orders_[o].status = "Filled"
       /\ SumOver([o \in OrdersOf(r) |-> orders_[o].filled]) = requests_[r].qty
  BY DEF FilledAsRequested
<1>1. Numbered /\ OrdersOK /\ CallsOK /\ ConcludedOK
  BY DEF IInv
<1>2. PICK z : z = SecondOrderId(r)
  OBVIOUS
<1>3. OrdersOf(r) = {r, z} \cap DOMAIN orders_ /\ r # z /\ r \in RequestIds
  BY <1>1, <1>2, OrdersOfIs
<1>4. Concluded(r)
  <2>1. \A k \in 1 .. Len(calls) : RequestOf(k) # r
    <3>1. \A k \in 1 .. Len(calls) : HeadOf(k) = Head(calls[k].orders)
      BY <1>1, CallParts
    <3> QED
      BY <3>1 DEF UnderWay, RequestOf
  <2> QED
    BY <1>1, <2>1 DEF ConcludedOK
<1>5. CASE r \in DOMAIN orders_ /\ orders_[r].status = "Rejected"
  <2>1. z \notin DOMAIN orders_ /\ orders_[r].filled = 0
    BY <1>1, <1>2, <1>5 DEF OrdersOK, OrderOf
  <2>2. OrdersOf(r) = {r} /\ r \in OrderIds
    BY <1>3, <1>5, <2>1, Ids
  <2> QED
    BY <1>5, <2>1, <2>2
<1>6. CASE /\ \A o \in DOMAIN orders_ : orders_[o].request = r => orders_[o].status = "Filled"
           /\ FilledOfRequest(r) = requests_[r].qty
  <2>1. \A o \in OrdersOf(r) : orders_[o].status = "Filled"
    BY <1>6 DEF OrdersOf
  <2>2. PICK D, w : D = OrdersOf(r) /\ w = [o \in D |-> orders_[o].filled]
    OBVIOUS
  <2>3. D \subseteq {r, z} /\ D \subseteq DOMAIN orders_
        /\ (r \in D <=> r \in DOMAIN orders_) /\ (z \in D <=> z \in DOMAIN orders_)
    BY <1>3, <2>2
  <2>4. w \in [D -> Int]
    <3>1. ASSUME NEW o \in D
          PROVE  orders_[o].filled \in Int
      <4>1. orders_[o] \in OrderRecords
        BY <1>1, <2>3 DEF OrdersOK, OrderOf
      <4> QED
        BY <4>1 DEF OrderRecords
    <3> QED
      BY <2>2, <3>1
  <2>5. SumOf(w) = (IF r \in D THEN w[r] ELSE 0) + (IF z \in D THEN w[z] ELSE 0)
    BY <1>3, <2>3, <2>4, SumOfTwo
  <2>6. FilledOf(r) = (IF r \in D THEN w[r] ELSE 0) /\ FilledOf(z) = (IF z \in D THEN w[z] ELSE 0)
    BY <2>2, <2>3 DEF FilledOf
  <2>7. SumOf(w) = FilledOfRequest(r)
    BY <1>2, <2>5, <2>6 DEF FilledOfRequest
  <2>8. SumOver([o \in OrdersOf(r) |-> orders_[o].filled]) = requests_[r].qty
    BY <1>6, <2>2, <2>7 DEF SumOver, SumOf
  <2> QED
    BY <2>1, <2>8
<1> QED
  BY <1>4, <1>5, <1>6 DEF Concluded

\* A request that is done was refused as one order that fills nothing, or its one or two
\* orders together filled exactly the quantity it asked for.
THEOREM RequestsFilled == Spec => []FilledAsRequested
<1> QED
  BY BrokerInvariant, InvariantFilled, PTL

-----------------------------------------------------------------------------
(* The start of a day.                                                     *)

NothingLeft(ps) == \A i \in DOMAIN ps : getPositionPnl(ps[i], multiplier[i]) = 0

LEMMA DayNothingLeft ==
  ASSUME NEW ps, PositionsOK(ps), NEW qs,
         qs = [i \in DOMAIN ps |-> [resetPnl(ps[i], multiplier[i]) EXCEPT !.tradeCount = 0]]
  PROVE  NothingLeft(qs)
<1>1. PICK D : D = DOMAIN ps
  OBVIOUS
<1>2. DOMAIN qs = D
  BY <1>1
<1>3. \A i \in D : /\ multiplier[i] \in Int /\ ps[i] \in CPositions /\ qs[i] \in CPositions
                   /\ IsReset(qs[i], ps[i])
  BY <1>1, DayPositions
<1>4. ASSUME NEW i \in D
      PROVE  getPositionPnl(qs[i], multiplier[i]) = 0
  BY <1>3, ResetBooks
<1> QED
  BY <1>2, <1>4 DEF NothingLeft

LEMMA DayBanked ==
  ASSUME IInv, [Next]_vars, days' # days
  PROVE  \A i \in DOMAIN positions' : getPositionPnl(positions'[i], multiplier[i]) = 0
<1>1. onStartDay
  <2>1. \A q \in Submitted : ~submitRequest(q)
    BY DEF submitRequest
  <2>2. ~FillOrder /\ ~NextOrder /\ ~Return /\ ~UNCHANGED vars
    BY DEF FillOrder, NextOrder, Return, vars
  <2>3. \A inst \in Instruments, price \in Prices : ~onMarketData(inst, price)
    BY DEF onMarketData
  <2> QED
    BY <2>1, <2>2, <2>3 DEF Next, Submit, Tick
<1>2. positions' = [i \in DOMAIN positions |->
                      [resetPnl(positions[i], multiplier[i]) EXCEPT !.tradeCount = 0]]
  BY <1>1 DEF onStartDay, resetPositionTodayToYst
<1>3. PositionsOK(positions)
  BY BooksParts DEF IInv
<1>4. NothingLeft(positions')
  BY <1>2, <1>3, DayNothingLeft
<1> QED
  BY <1>4 DEF NothingLeft

\* onStartDay leaves no P&L in any position: what it put into cash is not counted again.
THEOREM BankedOnce == Spec => NothingBankedTwice
<1>1. IInv /\ [Next]_vars =>
        (days' # days =>
           \A i \in DOMAIN positions' : getPositionPnl(positions'[i], multiplier[i]) = 0)
  BY DayBanked
<1>2. IInv /\ [Next]_vars =>
        [days' # days =>
           \A i \in DOMAIN positions' : getPositionPnl(positions'[i], multiplier[i]) = 0]_vars
  BY <1>1
<1> QED
  BY <1>2, BrokerInvariant, PTL DEF Spec, NothingBankedTwice
=============================================================================
