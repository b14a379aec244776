---------------------- MODULE DispatchStrategiesProofs ----------------------
(***************************************************************************)
(* Proofs about DispatchStrategies, for any number of lanes that is a      *)
(* power of two, any capabilities and any scores: the bit mask and its     *)
(* binary search, and what the three cells have to do with each other.     *)
(***************************************************************************)
EXTENDS DispatchStrategies, DataTheorems

(* The lowest bit of the mask is bit r.                                    *)
LowBit(mask, r) == \E q \in Nat : mask = Bit[r] * (2 * q + 1)

(* Setting a higher bit leaves the lowest.                                 *)
LEMMA LowBitAdd ==
  ASSUME NEW mask, NEW r \in Nat, LowBit(mask, r), NEW k \in Nat, r < k
  PROVE  LowBit(mask + Bit[k], r)
<1>1. PICK q \in Nat : mask = Bit[r] * (2 * q + 1)
  BY DEF LowBit
<1> DEFINE d == k - r - 1
<1>2. d \in Nat /\ k = r + (d + 1)
  OBVIOUS
<1> HIDE DEF d
<1>3. Bit[k] = Bit[r] * (2 * Bit[d])
  <2>1. Bit[k] = Bit[r] * Bit[d + 1]
    BY <1>2, BitSum
  <2> QED BY <1>2, <2>1, BitFacts
<1>4. \A x, y, z \in Nat : x * (2 * y + 1) + x * (2 * z) = x * (2 * (y + z) + 1)
  OBVIOUS
<1>5. Bit[r] \in Nat /\ Bit[d] \in Nat
  BY <1>2, BitFacts
<1>6. mask + Bit[k] = Bit[r] * (2 * (q + Bit[d]) + 1)
  BY <1>1, <1>3, <1>4, <1>5
<1>7. q + Bit[d] \in Nat
  BY <1>5
<1> QED BY <1>6, <1>7 DEF LowBit

(* The low half of a mask is 0 exactly if the lowest bit is in the other.  *)
LEMMA LowBitHalf ==
  ASSUME NEW mask, NEW r \in Nat, LowBit(mask, r), NEW h \in Nat
  PROVE  /\ mask % Bit[h] = 0 <=> h <= r
         /\ h <= r => LowBit(mask \div Bit[h], r - h)
<1>1. PICK q \in Nat : mask = Bit[r] * (2 * q + 1)
  BY DEF LowBit
<1>2. Bit[h] \in Nat \ {0} /\ Bit[r] \in Nat \ {0}
  BY BitFacts
<1>3. CASE h <= r
  <2> DEFINE d == r - h
  <2>1. d \in Nat /\ r = h + d
    BY <1>3
  <2> HIDE DEF d
  <2>2. Bit[r] = Bit[h] * Bit[d] /\ Bit[d] \in Nat
    BY <2>1, BitSum, BitFacts
  <2>3. \A x, y, z \in Nat : (x * y) * z = x * (y * z)
    OBVIOUS
  <2> DEFINE t == Bit[d] * (2 * q + 1)
  <2>4. t \in Nat
    BY <2>2
  <2>5. mask = Bit[h] * t
    BY <1>1, <1>2, <2>2, <2>3
  <2> HIDE DEF t
  <2>6. \A x \in Nat \ {0}, y \in Nat : (x * y) % x = 0 /\ (x * y) \div x = y
    OBVIOUS
  <2>7. mask % Bit[h] = 0 /\ mask \div Bit[h] = t
    BY <1>2, <2>4, <2>5, <2>6
  <2>8. LowBit(t, d)
    BY DEF LowBit, t
  <2> QED BY <1>3, <2>7, <2>8 DEF d
<1>4. CASE r < h
  <2> DEFINE d == h - r - 1
  <2>1. d \in Nat /\ h = r + (d + 1)
    BY <1>4
  <2> HIDE DEF d
  <2>2. Bit[h] = Bit[r] * (2 * Bit[d]) /\ Bit[d] \in Nat
    <3>1. Bit[h] = Bit[r] * Bit[d + 1]
      BY <2>1, BitSum
    <3> QED BY <2>1, <3>1, BitFacts
  <2>3. mask % Bit[h] # 0
    <3> SUFFICES ASSUME mask % Bit[h] = 0 PROVE FALSE
      OBVIOUS
    <3>1. mask \in Nat
      BY <1>1, <1>2
    <3> DEFINE t == mask \div Bit[h]
    <3>2. t \in Nat /\ mask = Bit[h] * t
      BY <1>2, <3>1
    <3> HIDE DEF t
    <3>3. Bit[r] * (2 * q + 1) = (Bit[r] * (2 * Bit[d])) * t
      BY <1>1, <2>2, <3>2
    <3>4. \A x, y, z \in Nat : (x * (2 * y)) * z = x * (2 * (y * z))
      OBVIOUS
    <3> DEFINE u == Bit[d] * t
    <3>5. u \in Nat /\ Bit[r] * (2 * q + 1) = Bit[r] * (2 * u)
      BY <1>2, <2>2, <3>2, <3>3, <3>4
    <3> HIDE DEF u
    <3>6. \A x \in Nat \ {0}, y, z \in Nat : x * y = x * z => y = z
      OBVIOUS
    <3>7. 2 * q + 1 = 2 * u
      BY <1>2, <3>5, <3>6
    <3> QED BY <3>5, <3>7
  <2> QED BY <1>4, <2>3
<1> QED BY <1>3, <1>4


-----------------------------------------------------------------------------
(* The mask is set lane by lane.                                           *)
LEMMA MaskSteps ==
  ASSUME NEW cell, cell.count \in Nat, NEW holds
  PROVE  \E v \in [0 .. cell.count -> Nat] :
           /\ v[0] = 0 /\ v[cell.count] = ValidMask(cell, holds)
           /\ \A k \in 1 .. cell.count :
                v[k] = v[k - 1] + IF cell.conditions[k - 1] \in holds THEN Bit[k - 1] ELSE 0
<1> DEFINE n == cell.count
           ids == [k \in 1 .. n |-> k - 1]
           op(mask, l) == mask + IF cell.conditions[l] \in holds THEN Bit[l] ELSE 0
           Rec(g) == g = [s \in SUBSET DOMAIN ids |->
                            IF s = {} THEN 0 ELSE op(g[s \ {Max(s)}], ids[Max(s)])]
           iter == CHOOSE g : Rec(g)
           f == [x \in Nat \X (1 .. n) |-> op(x[1], x[2] - 1)]
<1>1. ValidMask(cell, holds) = iter[DOMAIN ids]
  BY Zenon DEF ValidMask, FoldLeft, MapThenFoldSet
<1>2. n \in Nat /\ DOMAIN ids = 1 .. n /\ \A k \in 1 .. n : ids[k] = k - 1 /\ ids[k] \in Nat
  OBVIOUS
<1> HIDE DEF n, ids
<1>3. \A x \in Nat, l \in Nat : op(x, l) \in Nat
  BY BitFacts
<1>4. f \in [Nat \X (1 .. n) -> Nat]
  <2>1. \A x \in Nat, k \in 1 .. n : op(x, k - 1) \in Nat
    <3>1. \A k \in 1 .. n : k - 1 \in Nat
      BY <1>2
    <3> HIDE DEF op
    <3> QED BY <1>3, <3>1
  <2> HIDE DEF op
  <2> QED BY <2>1
<1>5. PICK g \in [SUBSET (1 .. n) -> Nat] : Folds(g, f, 0, n)
  <2> HIDE DEF f
  <2> QED BY <1>2, <1>4, FoldExists
<1>6. ASSUME NEW s \in SUBSET (1 .. n)
      PROVE  g[s] = IF s = {} THEN 0 ELSE op(g[s \ {Max(s)}], ids[Max(s)])
  <2>1. s # {} => Max(s) \in 1 .. n /\ g[s \ {Max(s)}] \in Nat
    BY <1>2, GreatestExists
  <2> HIDE DEF op
  <2> QED BY <1>2, <1>5, <2>1 DEF Folds
<1>7. Rec(g)
  <2> HIDE DEF op
  <2> QED BY <1>2, <1>6
<1>8. Rec(iter)
  <2> HIDE DEF Rec
  <2> QED BY <1>7
<1>9. \A s \in SUBSET (1 .. n) :
        iter[s] = IF s = {} THEN 0 ELSE op(iter[s \ {Max(s)}], ids[Max(s)])
  <2> HIDE DEF op, iter
  <2> QED BY <1>2, <1>8
<1> HIDE DEF Rec, iter, op
<1> DEFINE v == [k \in 0 .. n |-> iter[1 .. k]]
<1>10. v[0] = 0 /\ v[n] = iter[DOMAIN ids]
  <2>1. 1 .. 0 = {} /\ 1 .. 0 \in SUBSET (1 .. n) /\ 0 \in 0 .. n /\ n \in 0 .. n
    BY <1>2
  <2> QED BY <1>2, <1>9, <2>1
<1>11. ASSUME NEW k \in 1 .. n
       PROVE  v[k] = op(v[k - 1], k - 1)
  <2>1. k \in Nat \ {0} /\ 1 .. k \in SUBSET (1 .. n) /\ k \in 0 .. n /\ k - 1 \in 0 .. n
    BY <1>2
  <2>2. 1 .. k # {} /\ Max(1 .. k) = k /\ (1 .. k) \ {k} = 1 .. k - 1
    BY <2>1, IntervalRest
  <2>3. iter[1 .. k] = op(iter[1 .. k - 1], k - 1)
    BY <1>2, <1>9, <2>1, <2>2
  <2> QED BY <2>1, <2>3
<1>12. DOMAIN v = 0 .. n /\ v = [k \in DOMAIN v |-> v[k]]
  OBVIOUS
<1> HIDE DEF v
<1> DEFINE S == {k \in Nat : k <= n => v[k] \in Nat}
<1>13. 0 \in S
  BY <1>10
<1>14. ASSUME NEW k \in Nat, k \in S PROVE k + 1 \in S
  <2> SUFFICES ASSUME k + 1 <= n PROVE v[k + 1] \in Nat
    OBVIOUS
  <2>1. k + 1 \in 1 .. n /\ (k + 1) - 1 = k /\ v[k] \in Nat
    BY <1>2, <1>14
  <2>2. v[k + 1] = op(v[k], k)
    BY <1>11, <2>1
  <2> QED BY <1>3, <2>1, <2>2
<1>15. Nat \subseteq S
  <2> HIDE DEF S
  <2> QED BY <1>13, <1>14, NatSetInduction
<1>16. v \in [0 .. n -> Nat]
  <2>1. \A k \in 0 .. n : v[k] \in Nat
    BY <1>2, <1>15
  <2> QED BY <1>12, <2>1
<1> QED BY <1>1, <1>10, <1>11, <1>16 DEF op, n

(* The mask is 0 if no condition holds; else its lowest bit is the first   *)
(* lane's whose condition does.                                            *)
LEMMA MaskFacts ==
  ASSUME NEW cell, cell.count \in Nat, NEW holds,
         NEW mask, mask = ValidMask(cell, holds)
  PROVE  \/ mask = 0 /\ \A l \in 0 .. cell.count - 1 : cell.conditions[l] \notin holds
         \/ \E r \in 0 .. cell.count - 1 :
              /\ mask # 0 /\ LowBit(mask, r) /\ cell.conditions[r] \in holds
              /\ \A l \in 0 .. r - 1 : cell.conditions[l] \notin holds
<1> DEFINE n == cell.count
           None(k) == \A l \in 0 .. k - 1 : cell.conditions[l] \notin holds
<1>1. PICK v \in [0 .. n -> Nat] :
        /\ v[0] = 0 /\ v[n] = mask
        /\ \A k \in 1 .. n :
             v[k] = v[k - 1] + IF cell.conditions[k - 1] \in holds THEN Bit[k - 1] ELSE 0
  BY MaskSteps
<1> DEFINE Good(k) == \/ v[k] = 0 /\ None(k)
                      \/ \E r \in 0 .. k - 1 : /\ v[k] # 0 /\ LowBit(v[k], r)
                                               /\ cell.conditions[r] \in holds /\ None(r)
           S == {k \in Nat : k <= n => Good(k)}
<1>2. 0 \in S
  <2>1. None(0)
    OBVIOUS
  <2> HIDE DEF None
  <2> QED BY <1>1, <2>1
<1>3. ASSUME NEW k \in Nat, k \in S PROVE k + 1 \in S
  <2> SUFFICES ASSUME k + 1 <= n PROVE Good(k + 1)
    <3> HIDE DEF Good
    <3> QED OBVIOUS
  <2>1. k + 1 \in 1 .. n /\ (k + 1) - 1 = k /\ k \in 0 .. n /\ v[k] \in Nat
        /\ Bit[k] \in Nat \ {0}
    <3>1. n \in Nat
      OBVIOUS
    <3> HIDE DEF n
    <3>2. k + 1 \in 1 .. n /\ (k + 1) - 1 = k /\ k \in 0 .. n
      BY <3>1
    <3> QED BY <1>1, <3>2, BitFacts
  <2>2. Good(k)
    <3> HIDE DEF Good
    <3> QED BY <1>3, <2>1
  <2>3. v[k + 1] = v[k] + IF cell.conditions[k] \in holds THEN Bit[k] ELSE 0
    BY <1>1, <2>1
  <2>4. CASE v[k] = 0 /\ None(k)
    <3>1. CASE cell.conditions[k] \in holds
      <4>1. v[k + 1] = Bit[k] * (2 * 0 + 1) /\ v[k + 1] # 0
        BY <2>1, <2>3, <2>4, <3>1
      <4>2. LowBit(v[k + 1], k) /\ k \in 0 .. (k + 1) - 1
        BY <4>1 DEF LowBit
      <4> HIDE DEF None
      <4> QED BY <2>4, <3>1, <4>1, <4>2
    <3>2. CASE cell.conditions[k] \notin holds
      <4>1. v[k + 1] = 0
        BY <2>3, <2>4, <3>2
      <4>2. \A l \in 0 .. (k + 1) - 1 : l \in 0 .. k - 1 \/ l = k
        OBVIOUS
      <4>3. None(k + 1)
        BY <2>4, <3>2, <4>2
      <4> HIDE DEF None
      <4> QED BY <4>1, <4>3
    <3> QED BY <3>1, <3>2
  <2>5. ASSUME NEW r \in 0 .. k - 1, v[k] # 0, LowBit(v[k], r),
               cell.conditions[r] \in holds, None(r)
        PROVE  Good(k + 1)
    <3>1. LowBit(v[k + 1], r)
      <4>1. r \in Nat /\ r < k
        OBVIOUS
      <4>2. LowBit(v[k] + Bit[k], r)
        BY <2>5, <4>1, LowBitAdd
      <4> QED BY <2>1, <2>3, <2>5, <4>2
    <3>2. v[k + 1] # 0 /\ r \in 0 .. (k + 1) - 1
      BY <2>1, <2>3, <2>5
    <3> HIDE DEF None
    <3> QED BY <2>5, <3>1, <3>2
  <2> HIDE DEF None
  <2> QED BY <2>2, <2>4, <2>5
<1>4. n \in S
  <2> HIDE DEF S
  <2> QED BY <1>2, <1>3, NatSetInduction
<1>5. Good(n)
  BY <1>4
<1> QED BY <1>1, <1>5


-----------------------------------------------------------------------------
(* Where the binary search is: bits to shift out, and what is left.        *)
Search == [n : Nat, mask : Nat]

(* A halving of the search.                                                *)
Halve(s, half) ==
  IF s.mask % Bit[half] = 0
  THEN [n |-> s.n + half, mask |-> s.mask \div Bit[half]] ELSE s

(* The search is a halving after the other.                                *)
LEMMA SearchSteps ==
  ASSUME NEW mask \in Nat
  PROVE  \E v \in [0 .. LogLanes -> Search] :
           /\ v[0] = [n |-> 0, mask |-> mask]
           /\ v[LogLanes].n = CountTrailingZeros(mask)
           /\ \A k \in 1 .. LogLanes : v[k] = Halve(v[k - 1], Bit[LogLanes - k])
<1> DEFINE n == LogLanes
           base == [n |-> 0, mask |-> mask]
           op(s, half) == Halve(s, half)
           Rec(g) == g = [s \in SUBSET DOMAIN Halves |->
                            IF s = {} THEN base ELSE op(g[s \ {Max(s)}], Halves[Max(s)])]
           iter == CHOOSE g : Rec(g)
           f == [x \in Search \X (1 .. n) |-> op(x[1], Halves[x[2]])]
<1>1. CountTrailingZeros(mask) = iter[DOMAIN Halves].n
  BY Zenon DEF CountTrailingZeros, FoldLeft, MapThenFoldSet, Halve
<1>2. n \in Nat /\ DOMAIN Halves = 1 .. n
      /\ \A k \in 1 .. n : Halves[k] = Bit[n - k] /\ Halves[k] \in Nat
  <2>1. n \in Nat /\ \A k \in 1 .. n : n - k \in Nat
    BY StrategiesAssumption
  <2> QED BY <2>1, BitFacts DEF Halves
<1>3. base \in Search
  BY DEF Search
<1> HIDE DEF n, base
<1>4. ASSUME NEW s \in Search, NEW half \in Nat PROVE op(s, half) \in Search
  <2>1. s.n \in Nat /\ s.mask \in Nat /\ Bit[half] \in Nat \ {0}
    BY BitFacts DEF Search
  <2>2. s.mask \div Bit[half] \in Nat /\ s.n + half \in Nat
    BY <2>1
  <2> QED BY <2>2 DEF Search, Halve
<1>5. f \in [Search \X (1 .. n) -> Search]
  <2> HIDE DEF op
  <2> QED BY <1>2, <1>4
<1>6. PICK g \in [SUBSET (1 .. n) -> Search] : Folds(g, f, base, n)
  <2> HIDE DEF f
  <2> QED BY <1>2, <1>3, <1>5, FoldExists
<1>7. ASSUME NEW s \in SUBSET (1 .. n)
      PROVE  g[s] = IF s = {} THEN base ELSE op(g[s \ {Max(s)}], Halves[Max(s)])
  <2>1. s # {} => Max(s) \in 1 .. n /\ g[s \ {Max(s)}] \in Search
    BY <1>2, GreatestExists
  <2> HIDE DEF op
  <2> QED BY <1>2, <1>6, <2>1 DEF Folds
<1>8. Rec(g)
  <2> HIDE DEF op
  <2> QED BY <1>2, <1>7
<1>9. Rec(iter)
  <2> HIDE DEF Rec
  <2> QED BY <1>8
<1>10. \A s \in SUBSET (1 .. n) :
        iter[s] = IF s = {} THEN base ELSE op(iter[s \ {Max(s)}], Halves[Max(s)])
  <2> HIDE DEF op, iter
  <2> QED BY <1>2, <1>9
<1> HIDE DEF Rec, iter, op
<1> DEFINE v == [k \in 0 .. n |-> iter[1 .. k]]
<1>11. v[0] = base /\ v[n] = iter[DOMAIN Halves]
  <2>1. 1 .. 0 = {} /\ 1 .. 0 \in SUBSET (1 .. n) /\ 0 \in 0 .. n /\ n \in 0 .. n
    BY <1>2
  <2> QED BY <1>2, <1>10, <2>1
<1>12. ASSUME NEW k \in 1 .. n
       PROVE  v[k] = op(v[k - 1], Halves[k])
  <2>1. k \in Nat \ {0} /\ 1 .. k \in SUBSET (1 .. n) /\ k \in 0 .. n /\ k - 1 \in 0 .. n
    BY <1>2
  <2>2. 1 .. k # {} /\ Max(1 .. k) = k /\ (1 .. k) \ {k} = 1 .. k - 1
    BY <2>1, IntervalRest
  <2>3. iter[1 .. k] = op(iter[1 .. k - 1], Halves[k])
    BY <1>2, <1>10, <2>1, <2>2
  <2> QED BY <2>1, <2>3
<1>13. DOMAIN v = 0 .. n /\ v = [k \in DOMAIN v |-> v[k]]
  OBVIOUS
<1> HIDE DEF v
<1> DEFINE S == {k \in Nat : k <= n => v[k] \in Search}
<1>14. 0 \in S
  BY <1>3, <1>11
<1>15. ASSUME NEW k \in Nat, k \in S PROVE k + 1 \in S
  <2> SUFFICES ASSUME k + 1 <= n PROVE v[k + 1] \in Search
    OBVIOUS
  <2>1. k + 1 \in 1 .. n /\ (k + 1) - 1 = k /\ v[k] \in Search
    BY <1>2, <1>15
  <2>2. v[k + 1] = op(v[k], Halves[k + 1])
    BY <1>12, <2>1
  <2> QED BY <1>2, <1>4, <2>1, <2>2
<1>16. Nat \subseteq S
  <2> HIDE DEF S
  <2> QED BY <1>14, <1>15, NatSetInduction
<1>17. v \in [0 .. n -> Search]
  <2>1. \A k \in 0 .. n : v[k] \in Search
    BY <1>2, <1>16
  <2> QED BY <1>13, <2>1
<1>18. \A k \in 1 .. n : v[k] = Halve(v[k - 1], Bit[n - k])
  BY <1>2, <1>12 DEF op
<1> QED BY <1>1, <1>11, <1>17, <1>18 DEF n, base

(* What CountTrailingZeros64 is for: the place of the lowest bit.  After k *)
(* halvings what is left of it is below the width of the next two.         *)
LEMMA TrailingZeros ==
  ASSUME NEW mask \in Nat, NEW r \in Nat, r < Bit[LogLanes], LowBit(mask, r)
  PROVE  CountTrailingZeros(mask) = r
<1> DEFINE n == LogLanes
<1>1. PICK v \in [0 .. n -> Search] :
        /\ v[0] = [n |-> 0, mask |-> mask]
        /\ v[n].n = CountTrailingZeros(mask)
        /\ \A k \in 1 .. n : v[k] = Halve(v[k - 1], Bit[n - k])
  BY SearchSteps
<1>2. n \in Nat
  BY StrategiesAssumption
<1> HIDE DEF n
<1> DEFINE Left(k) == r - v[k].n
           Good(k) == /\ Left(k) \in Nat /\ Left(k) < Bit[n - k]
                      /\ LowBit(v[k].mask, Left(k))
           S == {k \in Nat : k <= n => Good(k)}
<1>3. 0 \in S
  <2>1. v[0].n = 0 /\ v[0].mask = mask /\ n - 0 = n /\ r - 0 = r
    BY <1>1, <1>2
  <2> QED BY <2>1 DEF n
<1>4. ASSUME NEW k \in Nat, k \in S PROVE k + 1 \in S
  <2> SUFFICES ASSUME k + 1 <= n PROVE Good(k + 1)
    <3> HIDE DEF Good
    <3> QED OBVIOUS
  <2> DEFINE half == Bit[n - (k + 1)]
  <2>1. k + 1 \in 1 .. n /\ (k + 1) - 1 = k /\ k \in 0 .. n /\ k + 1 \in 0 .. n
        /\ n - (k + 1) \in Nat /\ (n - (k + 1)) + 1 = n - k
    BY <1>2
  <2>2. v[k + 1] = Halve(v[k], half) /\ v[k] \in Search
    BY <1>1, <2>1
  <2>3. half \in Nat \ {0} /\ Bit[n - k] = 2 * half
    BY <2>1, BitFacts
  <2>4. Good(k)
    <3> HIDE DEF Good
    <3> QED BY <1>4, <2>1, <1>2
  <2>5. v[k].n \in Nat /\ v[k].mask \in Nat
    BY <2>2 DEF Search
  <2> HIDE DEF half
  <2> DEFINE m == v[k].mask
             l == r - v[k].n
  <2>6. l \in Nat /\ l < 2 * half /\ LowBit(m, l)
    BY <2>3, <2>4
  <2>7. /\ m % Bit[half] = 0 <=> half <= l
        /\ half <= l => LowBit(m \div Bit[half], l - half)
    <3> HIDE DEF m, l
    <3> QED BY <2>3, <2>6, LowBitHalf
  <2>8. CASE half <= l
    <3>1. v[k + 1].n = v[k].n + half /\ v[k + 1].mask = m \div Bit[half]
      BY <2>2, <2>7, <2>8 DEF Halve
    <3>2. r - v[k + 1].n = l - half
      BY <2>3, <2>5, <3>1
    <3>3. l - half \in Nat /\ l - half < half
      BY <2>3, <2>6, <2>8
    <3> QED BY <2>7, <2>8, <3>1, <3>2, <3>3 DEF half
  <2>9. CASE l < half
    <3>1. v[k + 1] = v[k]
      BY <2>2, <2>3, <2>6, <2>7, <2>9 DEF Halve
    <3> QED BY <2>6, <2>9, <3>1 DEF half
  <2> QED BY <2>3, <2>6, <2>8, <2>9
<1>5. n \in S
  <2> HIDE DEF S
  <2> QED BY <1>2, <1>3, <1>4, NatSetInduction
<1>6. Good(n)
  BY <1>2, <1>5
<1>7. Bit[n - n] = 1
  <2>1. n - n = 0
    BY <1>2
  <2> QED BY <2>1, BitFacts
<1>8. v[n].n \in Nat /\ r - v[n].n \in Nat /\ r - v[n].n < 1
  <2>1. n \in 0 .. n
    BY <1>2
  <2> QED BY <1>1, <1>6, <1>7, <2>1 DEF Search
<1>9. v[n].n = r
  BY <1>8
<1> QED BY <1>1, <1>9


-----------------------------------------------------------------------------
(* The increasing sequence s lists the elements of S.                      *)
Lists(s, S) ==
  /\ Range(s) = S
  /\ \A i, j \in 1 .. Len(s) : i < j => s[i] < s[j]

(* What the three cells hold of the capabilities bound: the same rules in  *)
(* the same order, as many as have lanes, and each its own fallback.       *)
CellsInv ==
  /\ bound \in Seq(Bindable) /\ Len(bound) <= MaxBinds
  /\ early = [rules |-> early.rules, fallback |-> LastOr(Fallbacks)]
  /\ early.rules \in Seq(1 .. Len(bound)) /\ Lists(early.rules, Rules)
  /\ scoring = [options |-> early.rules, fallback |-> early.fallback]
  /\ lanes = [count |-> lanes.count, fallback |-> LastOr(DOMAIN bound \ Rules),
              conditions |-> lanes.conditions, executes |-> lanes.conditions]
  /\ lanes.conditions \in [0 .. MaxRules - 1 -> Capability \cup {Null}]
  /\ lanes.count = IF Len(early.rules) < MaxRules THEN Len(early.rules) ELSE MaxRules
  /\ \A l \in 0 .. lanes.count - 1 : lanes.conditions[l] = early.rules[l + 1]


(* The last of some places, if there is one, is one of them.               *)
LEMMA LastOrType ==
  ASSUME NEW n \in Nat, NEW ts \in SUBSET (1 .. n)
  PROVE  LastOr(ts) \in (1 .. n) \cup {Null}
BY GreatestExists DEF LastOr

(* A later place takes over.                                               *)
LEMMA LastOrNext ==
  ASSUME NEW n \in Nat, NEW ts \in SUBSET (1 .. n)
  PROVE  LastOr(ts \cup {n + 1}) = n + 1
<1>1. n + 1 \in Nat /\ ts \cup {n + 1} \in SUBSET (1 .. n + 1) /\ ts \cup {n + 1} # {}
  OBVIOUS
<1>2. Max(ts \cup {n + 1}) = n + 1
  BY <1>1, GreatestOf
<1> QED BY <1>1, <1>2 DEF LastOr

(* The numbers of lanes.                                                   *)
LEMMA LanesFacts ==
  MaxRules \in Nat \ {0} /\ Null \notin Nat
BY BitFacts, StrategiesAssumption DEF MaxRules

(* A list is longer by its next element.                                   *)
LEMMA ListsNext ==
  ASSUME NEW n \in Nat, NEW s \in Seq(1 .. n), NEW S, Lists(s, S)
  PROVE  /\ Append(s, n + 1) \in Seq(1 .. n + 1)
         /\ Lists(Append(s, n + 1), S \cup {n + 1})
<1> DEFINE u == Append(s, n + 1)
<1>1. s \in Seq(1 .. n + 1) /\ n + 1 \in 1 .. n + 1
  <2>1. 1 .. n \subseteq 1 .. n + 1
    OBVIOUS
  <2> QED BY <2>1
<1>2. u \in Seq(1 .. n + 1) /\ Range(u) = S \cup {n + 1}
  BY <1>1, AppendRange DEF Lists
<1>3. /\ Len(s) \in Nat /\ Len(u) = Len(s) + 1 /\ u[Len(s) + 1] = n + 1
      /\ \A i \in 1 .. Len(s) : u[i] = s[i] /\ s[i] \in 1 .. n
  BY <1>1
<1> HIDE DEF u
<1>4. ASSUME NEW i \in 1 .. Len(u), NEW j \in 1 .. Len(u), i < j PROVE u[i] < u[j]
  <2>1. i \in 1 .. Len(s) /\ (j \in 1 .. Len(s) \/ j = Len(s) + 1)
    BY <1>3, <1>4
  <2>2. CASE j \in 1 .. Len(s)
    BY <1>3, <1>4, <2>1, <2>2 DEF Lists
  <2>3. CASE j = Len(s) + 1
    BY <1>3, <2>1, <2>3
  <2> QED BY <2>1, <2>2, <2>3
<1> QED BY <1>2, <1>4 DEF u, Lists

(* The capabilities bound after one more.                                  *)
LEMMA BindSets ==
  ASSUME bound \in Seq(Bindable), NEW kind \in Bindable, bound' = Append(bound, kind)
  PROVE  /\ Len(bound) \in Nat /\ Len(bound)' = Len(bound) + 1
         /\ bound' \in Seq(Bindable) /\ kind \in Kind
         /\ Rules \in SUBSET (1 .. Len(bound)) /\ Fallbacks \in SUBSET (1 .. Len(bound))
         /\ DOMAIN bound \ Rules \in SUBSET (1 .. Len(bound))
         /\ Rules' = IF kind = "rule" THEN Rules \cup {Len(bound) + 1} ELSE Rules
         /\ Fallbacks' = IF kind = "fallback" THEN Fallbacks \cup {Len(bound) + 1}
                                              ELSE Fallbacks
         /\ (DOMAIN bound \ Rules)' = IF kind = "rule" THEN DOMAIN bound \ Rules
                                      ELSE (DOMAIN bound \ Rules) \cup {Len(bound) + 1}
<1> SUFFICES ASSUME NEW n, n = Len(bound), NEW b, b = bound'
             PROVE  /\ n \in Nat /\ Len(b) = n + 1
                    /\ b \in Seq(Bindable) /\ kind \in Kind
                    /\ Rules \in SUBSET (1 .. n) /\ Fallbacks \in SUBSET (1 .. n)
                    /\ DOMAIN bound \ Rules \in SUBSET (1 .. n)
                    /\ Rules' = IF kind = "rule" THEN Rules \cup {n + 1} ELSE Rules
                    /\ Fallbacks' = IF kind = "fallback" THEN Fallbacks \cup {n + 1}
                                                         ELSE Fallbacks
                    /\ (DOMAIN bound \ Rules)' =
                         IF kind = "rule" THEN DOMAIN bound \ Rules
                         ELSE (DOMAIN bound \ Rules) \cup {n + 1}
  OBVIOUS
<1>1. /\ n \in Nat /\ Len(b) = n + 1 /\ b \in Seq(Bindable) /\ kind \in Kind
      /\ DOMAIN bound = 1 .. n /\ DOMAIN b = 1 .. n + 1
      /\ b[n + 1] = kind /\ \A t \in 1 .. n : b[t] = bound[t]
  BY StrategiesAssumption
<1>2. \A t : t \in 1 .. n + 1 <=> t \in 1 .. n \/ t = n + 1
  BY <1>1
<1>3. n + 1 \notin 1 .. n
  BY <1>1
<1>4. /\ Rules = {t \in 1 .. n : bound[t] = "rule"}
      /\ Fallbacks = {t \in 1 .. n : bound[t] = "fallback"}
      /\ Rules' = {t \in 1 .. n + 1 : b[t] = "rule"}
      /\ Fallbacks' = {t \in 1 .. n + 1 : b[t] = "fallback"}
      /\ (DOMAIN bound \ Rules)' = (1 .. n + 1) \ Rules'
  BY <1>1 DEF Rules, Fallbacks
<1>5. /\ Rules' = IF kind = "rule" THEN Rules \cup {n + 1} ELSE Rules
      /\ Fallbacks' = IF kind = "fallback" THEN Fallbacks \cup {n + 1} ELSE Fallbacks
  BY <1>1, <1>2, <1>4
<1>6. (DOMAIN bound \ Rules)' = IF kind = "rule" THEN DOMAIN bound \ Rules
                                ELSE (DOMAIN bound \ Rules) \cup {n + 1}
  <2>1. (n + 1) \notin Rules
    BY <1>3, <1>4
  <2>2. CASE kind = "rule"
    BY <1>1, <1>2, <1>3, <1>4, <1>5, <2>2
  <2>3. CASE kind # "rule"
    BY <1>1, <1>2, <1>4, <1>5, <2>1, <2>3
  <2> QED BY <2>2, <2>3
<1> QED BY <1>1, <1>4, <1>5, <1>6


(* A sequence over a set is one over a greater set.                        *)
LEMMA SeqWider ==
  ASSUME NEW S, NEW T, S \subseteq T, NEW s \in Seq(S)
  PROVE  s \in Seq(T)
OBVIOUS

(* A sequence is one over any set that its elements are in.                *)
LEMMA SeqInto ==
  ASSUME NEW S, NEW s \in Seq(S), NEW T, \A i \in 1 .. Len(s) : s[i] \in T
  PROVE  s \in Seq(T)
OBVIOUS

(* The default cell and the scoring cell after one more capability.        *)
LEMMA BindKeepsQueues ==
  ASSUME CellsInv, NEW kind \in Bindable, BindNext(kind)
  PROVE  /\ early' = [rules |-> early'.rules, fallback |-> LastOr(Fallbacks)']
         /\ early'.rules = IF kind = "rule" THEN Append(early.rules, Len(bound) + 1)
                                            ELSE early.rules
         /\ early'.rules \in Seq(1 .. Len(bound) + 1)
         /\ Lists(early'.rules, Rules')
         /\ scoring' = [options |-> early'.rules, fallback |-> early'.fallback]
<1> DEFINE n == Len(bound)
           rs == early.rules
           fb == LastOr(Fallbacks)
<1>1. /\ bound \in Seq(Bindable) /\ bound' = Append(bound, kind)
      /\ early' = Bind(early, kind, n + 1) /\ scoring' = BindScoring(scoring, kind, n + 1)
  BY DEF BindNext, CellsInv
<1>2. /\ n \in Nat /\ kind \in Kind /\ Fallbacks \in SUBSET (1 .. n)
      /\ Rules' = IF kind = "rule" THEN Rules \cup {n + 1} ELSE Rules
      /\ Fallbacks' = IF kind = "fallback" THEN Fallbacks \cup {n + 1} ELSE Fallbacks
  BY <1>1, BindSets
<1>3. /\ early = [rules |-> rs, fallback |-> fb]
      /\ scoring = [options |-> rs, fallback |-> fb]
      /\ rs \in Seq(1 .. n) /\ Lists(rs, Rules)
  <2>1. /\ early = [rules |-> early.rules, fallback |-> LastOr(Fallbacks)]
        /\ scoring = [options |-> early.rules, fallback |-> early.fallback]
        /\ early.rules \in Seq(1 .. n) /\ Lists(early.rules, Rules)
    BY DEF CellsInv
  <2>2. early.fallback = LastOr(Fallbacks)
    BY <2>1
  <2> QED BY <2>1, <2>2
<1>4. LastOr(Fallbacks)' = IF kind = "fallback" THEN n + 1 ELSE fb
  <2>1. LastOr(Fallbacks)' = LastOr(Fallbacks')
    BY DEF LastOr
  <2> HIDE DEF n
  <2> QED BY <1>2, <2>1, LastOrNext
<1> HIDE DEF n, rs, fb
<1>5. CASE kind = "rule"
  <2>1. /\ early' = [early EXCEPT !.rules = Append(@, n + 1)]
        /\ scoring' = [scoring EXCEPT !.options = Append(@, n + 1)]
    BY <1>1, <1>5, Zenon DEF Bind, BindScoring
  <2>2. /\ early' = [rules |-> Append(rs, n + 1), fallback |-> fb]
        /\ scoring' = [options |-> Append(rs, n + 1), fallback |-> fb]
    BY <1>3, <2>1
  <2>3. /\ Append(rs, n + 1) \in Seq(1 .. n + 1)
        /\ Lists(Append(rs, n + 1), Rules \cup {n + 1})
    BY <1>2, <1>3, ListsNext
  <2> DEFINE u == Append(rs, n + 1)
  <2> HIDE DEF u
  <2>4. /\ early'.rules = u /\ early'.fallback = fb
        /\ early' = [rules |-> u, fallback |-> fb]
        /\ scoring' = [options |-> u, fallback |-> fb]
    BY <2>2 DEF u
  <2>5. Rules' = Rules \cup {n + 1} /\ LastOr(Fallbacks)' = fb
    BY <1>2, <1>4, <1>5
  <2> QED BY <1>5, <2>3, <2>4, <2>5 DEF u, n, rs
<1>6. CASE kind = "fallback"
  <2>1. /\ early' = [early EXCEPT !.fallback = n + 1]
        /\ scoring' = [scoring EXCEPT !.fallback = n + 1]
    BY <1>1, <1>6, Zenon DEF Bind, BindScoring
  <2>2. /\ early' = [rules |-> rs, fallback |-> n + 1]
        /\ scoring' = [options |-> rs, fallback |-> n + 1]
    BY <1>3, <2>1
  <2>3. rs \in Seq(1 .. n + 1)
    <3>1. 1 .. n \subseteq 1 .. n + 1
      BY <1>2
    <3> QED BY <1>3, <3>1, SeqWider
  <2> QED BY <1>2, <1>3, <1>4, <1>6, <2>2, <2>3 DEF n, rs
<1>7. CASE kind = "none"
  <2>1. early' = early /\ scoring' = scoring
    BY <1>1, <1>7, Zenon DEF Bind, BindScoring
  <2>2. rs \in Seq(1 .. n + 1)
    <3>1. 1 .. n \subseteq 1 .. n + 1
      BY <1>2
    <3> QED BY <1>3, <3>1, SeqWider
  <2> QED BY <1>2, <1>3, <1>4, <1>7, <2>1, <2>2 DEF n, rs
<1> QED BY <1>2, <1>5, <1>6, <1>7 DEF Kind

(* The lanes after one more capability.                                    *)
LEMMA BindKeepsLanes ==
  ASSUME CellsInv, NEW kind \in Bindable, BindNext(kind), NEW u,
         u = IF kind = "rule" THEN Append(early.rules, Len(bound) + 1) ELSE early.rules
  PROVE  /\ lanes' = [count |-> lanes'.count, fallback |-> LastOr(DOMAIN bound \ Rules)',
                      conditions |-> lanes'.conditions, executes |-> lanes'.conditions]
         /\ lanes'.conditions \in [0 .. MaxRules - 1 -> Capability \cup {Null}]
         /\ lanes'.count = IF Len(u) < MaxRules THEN Len(u) ELSE MaxRules
         /\ \A l \in 0 .. lanes'.count - 1 : lanes'.conditions[l] = u[l + 1]
<1> DEFINE n == Len(bound)
           k == lanes.count
           cs == lanes.conditions
           fb == LastOr(DOMAIN bound \ Rules)
<1>1. /\ bound \in Seq(Bindable) /\ bound' = Append(bound, kind)
      /\ lanes' = BindLanes(lanes, kind, n + 1) /\ n + 1 \in Capability
  BY StrategiesAssumption DEF BindNext, CellsInv, Capability
<1>2. /\ n \in Nat /\ kind \in Kind /\ DOMAIN bound \ Rules \in SUBSET (1 .. n)
      /\ (DOMAIN bound \ Rules)' = IF kind = "rule" THEN DOMAIN bound \ Rules
                                   ELSE (DOMAIN bound \ Rules) \cup {n + 1}
  BY <1>1, BindSets
<1>3. LastOr(DOMAIN bound \ Rules)' = IF kind = "rule" THEN fb ELSE n + 1
  <2>1. LastOr(DOMAIN bound \ Rules)' = LastOr((DOMAIN bound \ Rules)')
    BY DEF LastOr
  <2> DEFINE D == DOMAIN bound \ Rules
  <2>2. LastOr(D \cup {n + 1}) = n + 1
    <3>1. n \in Nat /\ D \in SUBSET (1 .. n)
      BY <1>2
    <3> HIDE DEF n, D
    <3> QED BY <3>1, LastOrNext
  <2> QED BY <1>2, <2>1, <2>2
<1>4. /\ lanes = [count |-> k, fallback |-> fb, conditions |-> cs, executes |-> cs]
      /\ cs \in [0 .. MaxRules - 1 -> Capability \cup {Null}]
      /\ k = IF Len(early.rules) < MaxRules THEN Len(early.rules) ELSE MaxRules
      /\ \A l \in 0 .. k - 1 : cs[l] = early.rules[l + 1]
      /\ early.rules \in Seq(1 .. n)
  BY DEF CellsInv
<1>5. MaxRules \in Nat \ {0} /\ k \in Nat /\ k <= MaxRules /\ Len(early.rules) \in Nat
  BY <1>4, LanesFacts
<1> HIDE DEF n, k, cs, fb
<1>6. CASE kind # "rule"
  <2>1. lanes' = [lanes EXCEPT !.fallback = n + 1]
    BY <1>1, <1>6 DEF BindLanes
  <2>2. lanes' = [count |-> k, fallback |-> n + 1, conditions |-> cs, executes |-> cs]
    BY <1>4, <2>1
  <2> QED BY <1>3, <1>4, <1>6, <2>2
<1>7. CASE kind = "rule"
  <2> DEFINE m == Len(early.rules)
  <2>1. /\ m \in Nat /\ Len(u) = m + 1 /\ u[m + 1] = n + 1
        /\ \A i \in 1 .. m : u[i] = early.rules[i]
    BY <1>4, <1>7 DEF n
  <2>2. k = IF m < MaxRules THEN m ELSE MaxRules
    BY <1>4
  <2> HIDE DEF m
  <2>3. CASE m < MaxRules
    <3>1. lanes' = [lanes EXCEPT !.executes[k] = n + 1, !.conditions[k] = n + 1,
                                 !.count = @ + 1]
      BY <1>1, <1>7, <2>2, <2>3 DEF BindLanes, k
    <3> DEFINE d == [cs EXCEPT ![k] = n + 1]
    <3>2. lanes' = [count |-> k + 1, fallback |-> fb, conditions |-> d, executes |-> d]
      BY <1>4, <3>1
    <3>3. k = m /\ k \in 0 .. MaxRules - 1
      BY <1>5, <2>1, <2>2, <2>3
    <3>4. d \in [0 .. MaxRules - 1 -> Capability \cup {Null}]
      BY <1>1, <1>4
    <3>5. ASSUME NEW l \in 0 .. k PROVE d[l] = u[l + 1]
      <4>1. CASE l = k
        BY <1>4, <2>1, <3>3, <4>1
      <4>2. CASE l # k
        <5>1. l \in 0 .. k - 1 /\ l + 1 \in 1 .. m
          BY <2>1, <3>3, <4>2
        <5>2. d[l] = cs[l]
          BY <1>4, <4>2
        <5> QED BY <1>4, <2>1, <5>1, <5>2
      <4> QED BY <4>1, <4>2
    <3>6. k + 1 = IF Len(u) < MaxRules THEN Len(u) ELSE MaxRules
      BY <1>5, <2>1, <3>3
    <3>7. (k + 1) - 1 = k
      BY <1>5
    <3> HIDE DEF d
    <3> QED BY <1>3, <1>7, <3>2, <3>4, <3>5, <3>6, <3>7
  <2>4. CASE ~(m < MaxRules)
    <3>1. lanes' = lanes
      BY <1>1, <1>7, <1>5, <2>2, <2>4 DEF BindLanes, k
    <3>2. k = MaxRules /\ ~(Len(u) < MaxRules)
      BY <1>5, <2>1, <2>2, <2>4
    <3>3. \A l \in 0 .. k - 1 : cs[l] = u[l + 1]
      <4>1. ASSUME NEW l \in 0 .. k - 1 PROVE l + 1 \in 1 .. m
        BY <1>5, <2>1, <2>4, <3>2
      <4> QED BY <1>4, <2>1, <4>1
    <3> QED BY <1>3, <1>4, <1>7, <3>1, <3>2, <3>3
  <2> QED BY <2>3, <2>4
<1> QED BY <1>6, <1>7


(* Cells without a capability.                                             *)
LEMMA EmptyCells ==
  ASSUME NEW b, b = << >>, NEW e, e = EmptyCell, NEW s, s = EmptyScoring, NEW l, l = EmptyLanes
  PROVE  /\ b \in Seq(Bindable) /\ Len(b) <= MaxBinds /\ DOMAIN b = {}
         /\ e = [rules |-> << >>, fallback |-> Null]
         /\ s = [options |-> << >>, fallback |-> Null]
         /\ l = [count |-> 0, fallback |-> Null, conditions |-> l.conditions,
                 executes |-> l.conditions]
         /\ l.conditions \in [0 .. MaxRules - 1 -> Capability \cup {Null}]
         /\ << >> \in Seq(1 .. Len(b)) /\ Lists(<< >>, {})
         /\ 0 = IF Len(<< >>) < MaxRules THEN Len(<< >>) ELSE MaxRules
<1>1. MaxRules \in Nat \ {0} /\ MaxBinds \in Nat
  BY LanesFacts, StrategiesAssumption
<1>2. /\ l = [count |-> 0, fallback |-> Null, conditions |-> l.conditions,
              executes |-> l.conditions]
      /\ l.conditions \in [0 .. MaxRules - 1 -> Capability \cup {Null}]
  BY DEF EmptyLanes
<1>3. Lists(<< >>, {})
  BY DEF Lists, Range
<1> QED BY <1>1, <1>2, <1>3 DEF EmptyCell, EmptyScoring

(* The cells before the first capability of a refresh.                     *)
Cleared ==
  bound = << >> /\ early = EmptyCell /\ scoring = EmptyScoring /\ lanes = EmptyLanes

LEMMA CellsCleared == Cleared => CellsInv
<1> SUFFICES ASSUME Cleared PROVE CellsInv
  OBVIOUS
<1>1. /\ bound \in Seq(Bindable) /\ Len(bound) <= MaxBinds /\ DOMAIN bound = {}
      /\ early = [rules |-> << >>, fallback |-> Null]
      /\ scoring = [options |-> << >>, fallback |-> Null]
      /\ lanes = [count |-> 0, fallback |-> Null, conditions |-> lanes.conditions,
                  executes |-> lanes.conditions]
      /\ lanes.conditions \in [0 .. MaxRules - 1 -> Capability \cup {Null}]
      /\ << >> \in Seq(1 .. Len(bound)) /\ Lists(<< >>, {})
      /\ 0 = IF Len(<< >>) < MaxRules THEN Len(<< >>) ELSE MaxRules
  BY EmptyCells DEF Cleared
<1>2. Rules = {} /\ Fallbacks = {} /\ DOMAIN bound \ Rules = {} /\ LastOr({}) = Null
  BY <1>1 DEF Rules, Fallbacks, LastOr
<1>3. early.rules = << >> /\ early.fallback = Null /\ lanes.count = 0
  BY <1>1
<1>4. 0 .. 0 - 1 = {}
  OBVIOUS
<1> QED BY <1>1, <1>2, <1>3, <1>4 DEF CellsInv

(* CellsInv is an invariant: the four cells are bound to alike.            *)
THEOREM StrategiesInvariant == Spec => []CellsInv
<1>1. Init => CellsInv
  BY CellsCleared DEF Init, Cleared
<1>2. CellsInv /\ [Next]_vars => CellsInv'
  <2> SUFFICES ASSUME CellsInv, [Next]_vars PROVE CellsInv'
    OBVIOUS
  <2>1. ASSUME NEW kind \in Bindable, BindNext(kind) PROVE CellsInv'
    <3> DEFINE u == early'.rules
    <3>1. /\ early' = [rules |-> u, fallback |-> LastOr(Fallbacks)']
          /\ u = IF kind = "rule" THEN Append(early.rules, Len(bound) + 1) ELSE early.rules
          /\ u \in Seq(1 .. Len(bound) + 1) /\ Lists(u, Rules')
          /\ scoring' = [options |-> u, fallback |-> early'.fallback]
      BY <2>1, BindKeepsQueues
    <3> HIDE DEF u
    <3>2. /\ lanes' = [count |-> lanes'.count, fallback |-> LastOr(DOMAIN bound \ Rules)',
                       conditions |-> lanes'.conditions, executes |-> lanes'.conditions]
          /\ lanes'.conditions \in [0 .. MaxRules - 1 -> Capability \cup {Null}]
          /\ lanes'.count = IF Len(u) < MaxRules THEN Len(u) ELSE MaxRules
          /\ \A l \in 0 .. lanes'.count - 1 : lanes'.conditions[l] = u[l + 1]
      BY <2>1, <3>1, BindKeepsLanes
    <3>3. /\ bound' \in Seq(Bindable) /\ Len(bound)' = Len(bound) + 1
          /\ Len(bound)' <= MaxBinds
      <4>1. Len(bound) < MaxBinds /\ bound' = Append(bound, kind) /\ bound \in Seq(Bindable)
        BY <2>1 DEF BindNext, CellsInv
      <4> QED BY <4>1, StrategiesAssumption
    <3>4. MaxRules' = MaxRules /\ Capability' = Capability
      BY DEF MaxRules, Capability
    <3>5. early'.rules = u
      BY DEF u
    <3> QED BY <3>1, <3>2, <3>3, <3>4, <3>5, ZenonT(30) DEF CellsInv
  <2>2. CASE ClearArena
    <3>1. Cleared'
      BY <2>2 DEF ClearArena, Cleared
    <3> QED BY <3>1, CellsCleared, PTL
  <2>3. CASE UNCHANGED vars
    BY <2>3 DEF vars, CellsInv, Rules, Fallbacks, Lists, LastOr
  <2> QED BY <2>1, <2>2, <2>3 DEF Next
<1> QED BY <1>1, <1>2, PTL DEF Spec


-----------------------------------------------------------------------------
(* The place of an element of a list says how many are below it.           *)
LEMMA ListRank ==
  ASSUME NEW n \in Nat, NEW s \in Seq(1 .. n), NEW S, Lists(s, S), NEW i \in 1 .. Len(s)
  PROVE  Cardinality({x \in S : x < s[i]}) = i - 1
<1> DEFINE B == {x \in S : x < s[i]}
           m == i - 1
           f == [j \in 1 .. m |-> s[j]]
<1>1. /\ m \in Nat /\ Len(s) \in Nat /\ \A j \in 1 .. Len(s) : s[j] \in 1 .. n
      /\ S = {s[j] : j \in 1 .. Len(s)}
      /\ \A j, k \in 1 .. Len(s) : j < k => s[j] < s[k]
  BY DEF Lists, Range
<1>2. ASSUME NEW j \in 1 .. m PROVE j \in 1 .. Len(s) /\ s[j] \in B
  <2>1. j \in 1 .. Len(s) /\ j < i
    BY <1>1
  <2> QED BY <1>1, <2>1
<1>3. ASSUME NEW x \in B PROVE \E j \in 1 .. m : s[j] = x
  <2>1. PICK j \in 1 .. Len(s) : x = s[j]
    BY <1>1
  <2>2. ~(i < j) /\ j # i
    <3>1. s[j] < s[i] /\ s[j] \in Nat /\ s[i] \in Nat
      BY <1>1, <2>1
    <3>2. i < j => s[i] < s[j]
      BY <1>1
    <3> QED BY <3>1, <3>2
  <2> QED BY <1>1, <2>1, <2>2
<1>4. ASSUME NEW j \in 1 .. m, NEW k \in 1 .. m, s[j] = s[k] PROVE j = k
  <2>1. j \in 1 .. Len(s) /\ k \in 1 .. Len(s) /\ s[j] \in Nat
    BY <1>1, <1>2
  <2>2. ~(j < k) /\ ~(k < j)
    BY <1>1, <1>4, <2>1
  <2> QED BY <2>1, <2>2
<1>5. f \in Bijection(1 .. m, B)
  <2>1. f \in [1 .. m -> B]
    BY <1>2
  <2>2. \A j, k \in 1 .. m : f[j] = f[k] => j = k
    BY <1>4
  <2>3. \A x \in B : \E j \in 1 .. m : f[j] = x
    BY <1>3
  <2> HIDE DEF f, B, m
  <2> QED BY <2>1, <2>2, <2>3 DEF Bijection, Injection, Surjection, IsInjective
<1>6. ExistsBijection(1 .. m, B)
  BY <1>5 DEF ExistsBijection
<1> HIDE DEF m, B
<1>7. Cardinality(B) = m
  BY <1>1, <1>6, FS_CountingElements
<1> QED BY <1>7 DEF m, B

(* The seated rules are the first of the list.                             *)
LEMMA SeatedFirst ==
  ASSUME CellsInv
  PROVE  /\ Len(early.rules) \in Nat /\ lanes.count \in Nat
         /\ lanes.count <= Len(early.rules) /\ lanes.count <= MaxRules
         /\ \A t : t \in Rules <=> \E x \in 1 .. Len(early.rules) : early.rules[x] = t
         /\ \A x \in 1 .. Len(early.rules) : early.rules[x] \in Seated <=> x <= lanes.count
<1> DEFINE rs == early.rules
           k == lanes.count
<1>1. /\ Len(bound) \in Nat /\ rs \in Seq(1 .. Len(bound)) /\ Lists(rs, Rules)
      /\ k = IF Len(rs) < MaxRules THEN Len(rs) ELSE MaxRules
  BY DEF CellsInv
<1>2. Len(rs) \in Nat /\ k \in Nat /\ k <= Len(rs) /\ k <= MaxRules /\ MaxRules \in Nat
  BY <1>1, LanesFacts
<1>3. \A t : t \in Rules <=> \E x \in 1 .. Len(rs) : rs[x] = t
  BY <1>1 DEF Lists, Range
<1>4. ASSUME NEW x \in 1 .. Len(rs) PROVE rs[x] \in Seated <=> x <= k
  <2> HIDE DEF rs, k
  <2>1. Cardinality({r \in Rules : r < rs[x]}) = x - 1
    BY <1>1, ListRank
  <2>2. rs[x] \in Seated <=> x - 1 < MaxRules
    BY <1>3, <2>1 DEF Seated
  <2> QED BY <1>1, <1>2, <2>2
<1> QED BY <1>2, <1>3, <1>4

(* The answer is that of the x-th rule, the first that holds.              *)
FirstRule(x, holds, answer) ==
  /\ x \in 1 .. lanes.count
  /\ early.rules[x] \in holds /\ answer = early.rules[x]
  /\ \A y \in 1 .. x - 1 : early.rules[y] \notin holds

(* What the mask and the search for its lowest bit give.                   *)
LEMMA LanesAnswer ==
  ASSUME CellsInv, NEW holds \in SUBSET Rules
  PROVE  \/ /\ ResolveLanes(lanes, holds) = LastOr(DOMAIN bound \ Rules)
            /\ \A y \in 1 .. lanes.count : early.rules[y] \notin holds
         \/ \E x : FirstRule(x, holds, ResolveLanes(lanes, holds))
<1> DEFINE k == lanes.count
           mask == ValidMask(lanes, holds)
           answer == ResolveLanes(lanes, holds)
<1>1. /\ k \in Nat /\ k <= MaxRules /\ MaxRules = Bit[LogLanes]
  BY SeatedFirst DEF MaxRules
<1>2. /\ lanes.fallback = LastOr(DOMAIN bound \ Rules)
      /\ lanes.executes = lanes.conditions
      /\ \A l \in 0 .. k - 1 : lanes.conditions[l] = early.rules[l + 1]
  <2>1. lanes = [count |-> lanes.count, fallback |-> LastOr(DOMAIN bound \ Rules),
                 conditions |-> lanes.conditions, executes |-> lanes.conditions]
    BY DEF CellsInv
  <2>2. /\ lanes.fallback = LastOr(DOMAIN bound \ Rules)
        /\ lanes.executes = lanes.conditions
    BY <2>1
  <2> QED BY <2>2 DEF CellsInv
<1>3. answer = IF mask # 0 THEN lanes.conditions[CountTrailingZeros(mask)]
               ELSE LastOr(DOMAIN bound \ Rules)
  BY <1>2 DEF ResolveLanes
<1>4. ASSUME NEW y \in 1 .. k
      PROVE  y - 1 \in 0 .. k - 1 /\ early.rules[y] = lanes.conditions[y - 1]
  <2>1. y - 1 \in 0 .. k - 1 /\ (y - 1) + 1 = y
    BY <1>1
  <2> QED BY <1>2, <2>1
<1> HIDE DEF k, mask, answer
<1>5. \/ mask = 0 /\ \A l \in 0 .. k - 1 : lanes.conditions[l] \notin holds
      \/ \E r \in 0 .. k - 1 :
           /\ mask # 0 /\ LowBit(mask, r) /\ lanes.conditions[r] \in holds
           /\ \A l \in 0 .. r - 1 : lanes.conditions[l] \notin holds
  BY <1>1, MaskFacts DEF k, mask
<1>6. CASE mask = 0 /\ \A l \in 0 .. k - 1 : lanes.conditions[l] \notin holds
  BY <1>3, <1>4, <1>6 DEF k, answer
<1>7. CASE \E r \in 0 .. k - 1 :
             /\ mask # 0 /\ LowBit(mask, r) /\ lanes.conditions[r] \in holds
             /\ \A l \in 0 .. r - 1 : lanes.conditions[l] \notin holds
  <2>1. PICK r \in 0 .. k - 1 :
          /\ mask # 0 /\ LowBit(mask, r) /\ lanes.conditions[r] \in holds
          /\ \A l \in 0 .. r - 1 : lanes.conditions[l] \notin holds
    BY <1>7
  <2>2. r \in Nat /\ r < Bit[LogLanes] /\ r + 1 \in 1 .. k /\ (r + 1) - 1 = r
    BY <1>1, LanesFacts
  <2>3. mask \in Nat
    <3>1. PICK q \in Nat : mask = Bit[r] * (2 * q + 1)
      BY <2>1 DEF LowBit
    <3>2. Bit[r] \in Nat
      BY <2>2, BitFacts
    <3> QED BY <3>1, <3>2
  <2>4. CountTrailingZeros(mask) = r
    BY <2>1, <2>2, <2>3, TrailingZeros
  <2>5. answer = early.rules[r + 1] /\ early.rules[r + 1] \in holds
    BY <1>2, <1>3, <2>1, <2>4
  <2>6. ASSUME NEW y \in 1 .. r PROVE early.rules[y] \notin holds
    <3>1. y \in 1 .. k /\ y - 1 \in 0 .. r - 1
      BY <1>1, <2>2
    <3> QED BY <1>4, <2>1, <3>1
  <2> QED BY <2>2, <2>5, <2>6 DEF FirstRule, k, answer
<1> QED BY <1>5, <1>6, <1>7


(* The first rule that holds is the least of those that hold.              *)
LEMMA FirstIsLeast ==
  ASSUME CellsInv, NEW holds \in SUBSET Rules, NEW x, NEW answer,
         FirstRule(x, holds, answer)
  PROVE  holds \cap Seated # {} /\ answer = Min(holds \cap Seated)
<1> DEFINE rs == early.rules
           k == lanes.count
           H == holds \cap Seated
<1>1. /\ Len(rs) \in Nat /\ k \in Nat /\ k <= Len(rs)
      /\ \A t : t \in Rules <=> \E y \in 1 .. Len(rs) : rs[y] = t
      /\ \A y \in 1 .. Len(rs) : rs[y] \in Seated <=> y <= k
  BY SeatedFirst
<1>2. /\ \A y \in 1 .. Len(rs) : rs[y] \in Nat
      /\ \A y, z \in 1 .. Len(rs) : y < z => rs[y] < rs[z]
  BY DEF CellsInv, Lists
<1>3. x \in 1 .. Len(rs) /\ x <= k /\ answer = rs[x] /\ answer \in H
  BY <1>1 DEF FirstRule
<1>4. ASSUME NEW t \in H PROVE answer <= t
  <2>1. PICK y \in 1 .. Len(rs) : rs[y] = t
    BY <1>1
  <2>2. y \notin 1 .. x - 1
    BY <2>1 DEF FirstRule
  <2>3. y = x \/ x < y
    BY <1>3, <2>2
  <2> QED BY <1>2, <1>3, <2>1, <2>3
<1>5. H \in SUBSET Nat /\ H # {}
  BY <1>1, <1>2, <1>3
<1> HIDE DEF H, rs, k
<1>6. Min(H) \in Nat /\ answer \in Nat /\ Min(H) <= answer /\ answer <= Min(H)
  BY <1>3, <1>4, <1>5, LeastOf
<1>7. Min(H) = answer
  BY <1>6
<1> QED BY <1>5, <1>7 DEF H

(* TypeOK follows.                                                         *)
LEMMA CellsTypes ==
  ASSUME CellsInv
  PROVE  TypeOK
<1> DEFINE n == Len(bound)
<1>1. /\ bound \in Seq(Bindable) /\ n \in Nat /\ n <= MaxBinds /\ MaxBinds \in Nat
      /\ DOMAIN bound = 1 .. n
  BY StrategiesAssumption DEF CellsInv
<1>2. 1 .. n \subseteq Capability
  BY <1>1 DEF Capability
<1>3. early.rules \in Seq(Capability)
  <2>1. early.rules \in Seq(1 .. n)
    BY DEF CellsInv
  <2> HIDE DEF n
  <2> QED BY <1>2, <2>1, SeqWider
<1>4. /\ LastOr(Fallbacks) \in Capability \cup {Null}
      /\ LastOr(DOMAIN bound \ Rules) \in Capability \cup {Null}
  <2>1. Fallbacks \in SUBSET (1 .. n) /\ DOMAIN bound \ Rules \in SUBSET (1 .. n)
    BY <1>1 DEF Fallbacks
  <2> HIDE DEF n
  <2> QED BY <1>1, <1>2, <2>1, LastOrType
<1>5. /\ early = [rules |-> early.rules, fallback |-> LastOr(Fallbacks)]
      /\ scoring = [options |-> early.rules, fallback |-> early.fallback]
      /\ lanes = [count |-> lanes.count, fallback |-> LastOr(DOMAIN bound \ Rules),
                  conditions |-> lanes.conditions, executes |-> lanes.conditions]
      /\ lanes.conditions \in [0 .. MaxRules - 1 -> Capability \cup {Null}]
  BY DEF CellsInv
<1>6. early.fallback = LastOr(Fallbacks)
  BY <1>5
<1>7. /\ lanes.fallback = LastOr(DOMAIN bound \ Rules)
      /\ lanes.executes = lanes.conditions
  BY <1>5
<1>8. scoring.options = early.rules /\ scoring.fallback = early.fallback
  BY <1>5
<1>9. lanes.count \in 0 .. MaxRules
  BY SeatedFirst, LanesFacts
<1> QED BY <1>1, <1>3, <1>4, <1>5, <1>6, <1>7, <1>8, <1>9 DEF TypeOK

(* TypeOK: what the cells hold are capabilities that were bound, and a     *)
(* rule never gets a lane behind the last.                                 *)
THEOREM StrategiesTypes == Spec => []TypeOK
<1>1. CellsInv => TypeOK
  BY CellsTypes
<1> QED BY <1>1, StrategiesInvariant, PTL

(* LowestLaneWins, for any number of lanes: BranchlessDispatchCell::Resolve*)
(* answers with the first seated rule that matches, its search of the mask *)
(* included, and with the last other capability if none does.              *)
THEOREM LowestLane == Spec => []LowestLaneWins
<1>1. CellsInv => LowestLaneWins
  <2> SUFFICES ASSUME CellsInv, NEW holds \in SUBSET Rules, NEW answer,
                      answer = ResolveLanes(lanes, holds)
               PROVE  IF holds \cap Seated # {} THEN answer = Min(holds \cap Seated)
                      ELSE answer = LastOr(DOMAIN bound \ Rules)
    BY DEF LowestLaneWins
  <2>1. CASE \E x : FirstRule(x, holds, answer)
    BY <2>1, FirstIsLeast
  <2>2. CASE /\ answer = LastOr(DOMAIN bound \ Rules)
             /\ \A y \in 1 .. lanes.count : early.rules[y] \notin holds
    <3>1. holds \cap Seated = {}
      <4> SUFFICES ASSUME NEW t \in holds, t \in Seated PROVE FALSE
        OBVIOUS
      <4>1. PICK x \in 1 .. Len(early.rules) : early.rules[x] = t
        BY SeatedFirst
      <4>2. x \in 1 .. lanes.count
        BY <4>1, SeatedFirst
      <4> QED BY <2>2, <4>1, <4>2
    <3> QED BY <2>2, <3>1
  <2> QED BY <2>1, <2>2, LanesAnswer
<1> QED BY <1>1, StrategiesInvariant, PTL

(* The early exit takes the first of its rules that holds.                 *)
LEMMA EarlyAnswer ==
  ASSUME CellsInv, NEW holds \in SUBSET Rules
  PROVE  \/ /\ Resolve(early, holds) = early.fallback
            /\ \A y \in 1 .. Len(early.rules) : early.rules[y] \notin holds
         \/ \E x \in 1 .. Len(early.rules) :
              /\ Resolve(early, holds) = early.rules[x] /\ early.rules[x] \in holds
              /\ \A y \in 1 .. Len(early.rules) : early.rules[y] \in holds => x <= y
<1> DEFINE first == PlaceIn(early.rules, holds)
<1>1. Resolve(early, holds) = IF first # 0 THEN early.rules[first] ELSE early.fallback
  BY Zenon DEF Resolve, PlaceIn
<1>2. early.rules \in Seq(1 .. Len(bound))
  BY DEF CellsInv
<1> HIDE DEF first
<1>3. \/ first = 0 /\ \A y \in 1 .. Len(early.rules) : early.rules[y] \notin holds
      \/ /\ first \in 1 .. Len(early.rules) /\ early.rules[first] \in holds
         /\ \A y \in 1 .. Len(early.rules) : early.rules[y] \in holds => first <= y
  BY <1>2, FirstFacts DEF first
<1> QED BY <1>1, <1>3

(* StrategiesExchangeable: with stateless configurations the branchless    *)
(* cell, which evaluates default-constructed ones, answers as the default  *)
(* cell, which evaluates the capabilities' own, under every context that a *)
(* seated rule matches in, and under every other that no rule does while   *)
(* all that is bound derives from the contract.                            *)
THEOREM Exchangeable == Spec => []StrategiesExchangeable
<1>1. CellsInv => StrategiesExchangeable
  <2> SUFFICES ASSUME CellsInv, NEW holds \in SUBSET Rules,
                      ~(holds # {} /\ holds \cap Seated = {}),
                      ~(holds = {} /\ "none" \in Range(bound))
               PROVE  ResolveLanes(lanes, holds) = Resolve(early, holds)
    BY DEF StrategiesExchangeable, Trampolines, Defaulted
  <2>1. /\ Len(early.rules) \in Nat /\ lanes.count \in Nat
        /\ lanes.count <= Len(early.rules)
        /\ \A t : t \in Rules <=> \E y \in 1 .. Len(early.rules) : early.rules[y] = t
        /\ \A y \in 1 .. Len(early.rules) : early.rules[y] \in Seated <=> y <= lanes.count
    BY SeatedFirst
  <2>2. ASSUME NEW x, FirstRule(x, holds, ResolveLanes(lanes, holds))
        PROVE  ResolveLanes(lanes, holds) = Resolve(early, holds)
    <3>1. /\ x \in 1 .. Len(early.rules) /\ early.rules[x] \in holds
          /\ ResolveLanes(lanes, holds) = early.rules[x]
          /\ \A y \in 1 .. x - 1 : early.rules[y] \notin holds
      BY <2>1, <2>2 DEF FirstRule
    <3>2. PICK y \in 1 .. Len(early.rules) :
            /\ Resolve(early, holds) = early.rules[y] /\ early.rules[y] \in holds
            /\ \A z \in 1 .. Len(early.rules) : early.rules[z] \in holds => y <= z
      BY <3>1, EarlyAnswer
    <3>3. y <= x /\ y \notin 1 .. x - 1 /\ x \in Nat /\ y \in Nat \ {0}
      BY <2>1, <3>1, <3>2
    <3>4. y = x
      BY <3>3
    <3> QED BY <3>1, <3>2, <3>4
  <2>3. CASE /\ ResolveLanes(lanes, holds) = LastOr(DOMAIN bound \ Rules)
             /\ \A y \in 1 .. lanes.count : early.rules[y] \notin holds
    <3>1. holds \cap Seated = {}
      <4> SUFFICES ASSUME NEW t \in holds, t \in Seated PROVE FALSE
        OBVIOUS
      <4>1. PICK y \in 1 .. Len(early.rules) : early.rules[y] = t
        BY <2>1
      <4>2. y \in 1 .. lanes.count
        BY <2>1, <4>1
      <4> QED BY <2>3, <4>1, <4>2
    <3>2. holds = {} /\ "none" \notin Range(bound)
      BY <3>1
    <3>3. Resolve(early, holds) = early.fallback
      BY <3>2, EarlyAnswer
    <3>4. early.fallback = LastOr(Fallbacks)
      <4>1. early = [rules |-> early.rules, fallback |-> LastOr(Fallbacks)]
        BY DEF CellsInv
      <4> QED BY <4>1
    <3>5. DOMAIN bound \ Rules = Fallbacks
      <4>1. \A t \in DOMAIN bound : bound[t] \in {"rule", "fallback"}
        <5>1. \A t \in DOMAIN bound : bound[t] \in Kind /\ bound[t] \in Range(bound)
          BY StrategiesAssumption DEF CellsInv, Range
        <5> QED BY <3>2, <5>1 DEF Kind
      <4> QED BY <4>1 DEF Rules, Fallbacks
    <3> QED BY <2>3, <3>3, <3>4, <3>5
  <2> QED BY <2>2, <2>3, LanesAnswer
<1> QED BY <1>1, StrategiesInvariant, PTL


-----------------------------------------------------------------------------
(* The better of the best option so far and option t.                      *)
Better(best, t, score) ==
  IF Exceeds(score[t], best.max) THEN [best |-> t, max |-> score[t]] ELSE best

(* The scores of a context are read option by option.                      *)
ScoreRun(v, cell, S, score) ==
  /\ v \in [0 .. Len(cell.options) -> [best : S \cup {cell.fallback}, max : Nat]]
  /\ v[0] = [best |-> cell.fallback, max |-> 0]
  /\ v[Len(cell.options)].best = ResolveScoring(cell, score)
  /\ \A k \in 1 .. Len(cell.options) :
       v[k] = Better(v[k - 1], cell.options[k], score)
LEMMA ScoreSteps ==
  ASSUME NEW cell, NEW S, cell.options \in Seq(S), NEW score \in [S -> Score]
  PROVE  \E v : ScoreRun(v, cell, S, score)
<1> DEFINE opts == cell.options
           n == Len(opts)
           X == [best : S \cup {cell.fallback}, max : Nat]
           base == [best |-> cell.fallback, max |-> 0]
           op(s, t) == Better(s, t, score)
           Rec(g) == g = [s \in SUBSET DOMAIN opts |->
                            IF s = {} THEN base ELSE op(g[s \ {Max(s)}], opts[Max(s)])]
           iter == CHOOSE g : Rec(g)
           f == [x \in X \X (1 .. n) |-> op(x[1], opts[x[2]])]
<1>1. ResolveScoring(cell, score) = iter[DOMAIN opts].best
  BY Zenon DEF ResolveScoring, FoldLeft, MapThenFoldSet, Better
<1>2. n \in Nat /\ DOMAIN opts = 1 .. n /\ \A k \in 1 .. n : opts[k] \in S
  OBVIOUS
<1>3. base \in X
  OBVIOUS
<1> HIDE DEF n, base, opts
<1>4. ASSUME NEW s \in X, NEW t \in S PROVE op(s, t) \in X
  <2>1. score[t] \in Score /\ s.max \in Nat
    OBVIOUS
  <2>2. Exceeds(score[t], s.max) => score[t] \in Nat
    BY <2>1, StrategiesAssumption DEF Exceeds, Score
  <2> QED BY <2>2 DEF Better
<1> HIDE DEF X
<1>5. f \in [X \X (1 .. n) -> X]
  <2> HIDE DEF op
  <2> QED BY <1>2, <1>4
<1>6. PICK g \in [SUBSET (1 .. n) -> X] : Folds(g, f, base, n)
  <2> HIDE DEF f
  <2> QED BY <1>2, <1>3, <1>5, FoldExists
<1>7. ASSUME NEW s \in SUBSET (1 .. n)
      PROVE  g[s] = IF s = {} THEN base ELSE op(g[s \ {Max(s)}], opts[Max(s)])
  <2>1. s # {} => Max(s) \in 1 .. n /\ g[s \ {Max(s)}] \in X
    BY <1>2, GreatestExists
  <2> HIDE DEF op
  <2> QED BY <1>2, <1>6, <2>1 DEF Folds
<1>8. Rec(g)
  <2> HIDE DEF op
  <2> QED BY <1>2, <1>7
<1>9. Rec(iter)
  <2> HIDE DEF Rec
  <2> QED BY <1>8
<1>10. \A s \in SUBSET (1 .. n) :
        iter[s] = IF s = {} THEN base ELSE op(iter[s \ {Max(s)}], opts[Max(s)])
  <2> HIDE DEF op, iter
  <2> QED BY <1>2, <1>9
<1> HIDE DEF Rec, iter, op
<1> DEFINE v == [k \in 0 .. n |-> iter[1 .. k]]
<1>11. v[0] = base /\ v[n] = iter[DOMAIN opts]
  <2>1. 1 .. 0 = {} /\ 1 .. 0 \in SUBSET (1 .. n) /\ 0 \in 0 .. n /\ n \in 0 .. n
    BY <1>2
  <2> QED BY <1>2, <1>10, <2>1
<1>12. ASSUME NEW k \in 1 .. n
       PROVE  v[k] = op(v[k - 1], opts[k])
  <2>1. k \in Nat \ {0} /\ 1 .. k \in SUBSET (1 .. n) /\ k \in 0 .. n /\ k - 1 \in 0 .. n
    BY <1>2
  <2>2. 1 .. k # {} /\ Max(1 .. k) = k /\ (1 .. k) \ {k} = 1 .. k - 1
    BY <2>1, IntervalRest
  <2>3. iter[1 .. k] = op(iter[1 .. k - 1], opts[k])
    BY <1>10, <2>1, <2>2
  <2> QED BY <2>1, <2>3
<1>13. DOMAIN v = 0 .. n /\ v = [k \in DOMAIN v |-> v[k]]
  OBVIOUS
<1> HIDE DEF v
<1> DEFINE G == {k \in Nat : k <= n => v[k] \in X}
<1>14. 0 \in G
  BY <1>3, <1>11
<1>15. ASSUME NEW k \in Nat, k \in G PROVE k + 1 \in G
  <2> SUFFICES ASSUME k + 1 <= n PROVE v[k + 1] \in X
    OBVIOUS
  <2>1. k + 1 \in 1 .. n /\ (k + 1) - 1 = k /\ v[k] \in X
    BY <1>2, <1>15
  <2>2. v[k + 1] = op(v[k], opts[k + 1])
    BY <1>12, <2>1
  <2> QED BY <1>2, <1>4, <2>1, <2>2
<1>16. Nat \subseteq G
  <2> HIDE DEF G
  <2> QED BY <1>14, <1>15, NatSetInduction
<1>17. v \in [0 .. n -> X]
  <2>1. \A k \in 0 .. n : v[k] \in X
    BY <1>2, <1>16
  <2> QED BY <1>13, <2>1
<1>18. \A k \in 1 .. n : v[k] = Better(v[k - 1], opts[k], score)
  BY <1>2, <1>12 DEF op
<1>19. ScoreRun(v, cell, S, score)
  BY <1>1, <1>11, <1>17, <1>18 DEF n, base, X, opts, ScoreRun
<1> QED BY <1>19

(* The best of some scored capabilities, the earliest of equals.           *)
IsBest(t, scored, score) ==
  /\ t \in scored
  /\ \A u \in scored : score[u] <= score[t] /\ (score[u] = score[t] => t <= u)

(* Among the options read so far the best is kept.                         *)
LEMMA ScoreAnswer ==
  ASSUME NEW N \in Nat, NEW cell, NEW S, S \subseteq 1 .. N,
         cell.options \in Seq(S), Lists(cell.options, S), NEW score \in [S -> Score],
         NEW scored, scored = {t \in S : score[t] \notin {NaN, 0}}
  PROVE  \/ scored = {} /\ ResolveScoring(cell, score) = cell.fallback
         \/ IsBest(ResolveScoring(cell, score), scored, score)
<1> DEFINE s == cell.options
           n == Len(s)
           X == [best : S \cup {cell.fallback}, max : Nat]
           Read(k) == {s[i] : i \in 1 .. k} \cap scored
<1>1. PICK v \in [0 .. n -> X] :
        /\ v[0] = [best |-> cell.fallback, max |-> 0]
        /\ v[n].best = ResolveScoring(cell, score)
        /\ \A k \in 1 .. n : v[k] = Better(v[k - 1], s[k], score)
  <2>1. PICK v : ScoreRun(v, cell, S, score)
    BY ScoreSteps
  <2> QED BY <2>1, Zenon DEF ScoreRun
<1>2. /\ n \in Nat /\ S = {s[i] : i \in 1 .. n}
      /\ \A i \in 1 .. n : s[i] \in S /\ s[i] \in Nat
      /\ \A i, j \in 1 .. n : i < j => s[i] < s[j]
  <2>1. s \in Seq(S) /\ Lists(s, S)
    OBVIOUS
  <2> HIDE DEF s
  <2>2. n \in Nat /\ \A i \in 1 .. n : s[i] \in S
    BY <2>1
  <2>4. \A t \in S : t \in Nat
    OBVIOUS
  <2>3. S = {s[i] : i \in 1 .. n} /\ \A i, j \in 1 .. n : i < j => s[i] < s[j]
    BY <2>1 DEF Lists, Range
  <2> QED BY <2>2, <2>3, <2>4
<1> HIDE DEF s
<1>3. ASSUME NEW t \in S
      PROVE  /\ score[t] \in Nat \/ score[t] = NaN
             /\ t \in scored <=> score[t] \in Nat \ {0}
  <2>1. score[t] \in Score
    OBVIOUS
  <2> QED BY <2>1, StrategiesAssumption DEF Score
<1> DEFINE Good(k) == \/ v[k].max = 0 /\ v[k].best = cell.fallback /\ Read(k) = {}
                      \/ /\ IsBest(v[k].best, Read(k), score)
                         /\ v[k].max = score[v[k].best]
           G == {k \in Nat : k <= n => Good(k)}
<1>4. 0 \in G
  <2>1. Read(0) = {}
    OBVIOUS
  <2> QED BY <1>1, <2>1
<1>5. ASSUME NEW k \in Nat, k \in G PROVE k + 1 \in G
  <2> SUFFICES ASSUME k + 1 <= n PROVE Good(k + 1)
    <3> HIDE DEF Good
    <3> QED OBVIOUS
  <2> DEFINE t == s[k + 1]
             old == v[k]
             new == v[k + 1]
  <2>1. k + 1 \in 1 .. n /\ (k + 1) - 1 = k /\ k \in 0 .. n /\ t \in S /\ t \in Nat
    BY <1>2
  <2>2. new = Better(old, t, score) /\ old.max \in Nat
    BY <1>1, <2>1
  <2>3. Good(k)
    <3> HIDE DEF Good
    <3> QED BY <1>5, <2>1
  <2>4. Read(k + 1) = IF t \in scored THEN Read(k) \cup {t} ELSE Read(k)
    <3>1. \A i : i \in 1 .. k + 1 <=> i \in 1 .. k \/ i = k + 1
      OBVIOUS
    <3> QED BY <3>1
  <2>5. ASSUME NEW u \in Read(k) PROVE u \in S /\ u \in Nat /\ u < t /\ score[u] \in Nat \ {0}
    <3>1. PICK i \in 1 .. k : u = s[i]
      OBVIOUS
    <3>2. i \in 1 .. n /\ i < k + 1
      BY <2>1
    <3> QED BY <1>2, <1>3, <2>1, <3>1, <3>2
  <2> HIDE DEF Read, t, old, new
  <2>6. CASE Exceeds(score[t], old.max)
    <3>1. new = [best |-> t, max |-> score[t]] /\ score[t] \in Nat /\ score[t] > old.max
      BY <1>3, <2>1, <2>2, <2>6 DEF Better, Exceeds
    <3>2. t \in scored
      BY <1>3, <2>1, <2>2, <3>1
    <3>3. ASSUME NEW u \in Read(k) PROVE score[u] < score[t]
      <4>1. score[u] <= score[old.best] /\ old.max = score[old.best]
        BY <2>3 DEF IsBest, old
      <4> QED BY <2>2, <2>5, <3>1, <4>1
    <3>4. IsBest(t, Read(k) \cup {t}, score)
      BY <2>5, <3>1, <3>3, <2>1 DEF IsBest
    <3>5. new.best = t /\ new.max = score[t]
      BY <3>1
    <3> QED BY <2>4, <3>2, <3>4, <3>5 DEF new
  <2>7. CASE ~Exceeds(score[t], old.max)
    <3>1. new = old
      BY <2>2, <2>7 DEF Better
    <3>2. CASE t \notin scored
      BY <2>3, <2>4, <3>1, <3>2 DEF new, old
    <3>3. CASE t \in scored
      <4>1. score[t] \in Nat \ {0} /\ score[t] <= old.max
        BY <1>3, <2>1, <2>2, <2>7, <3>3, StrategiesAssumption DEF Exceeds
      <4>2. old.max # 0
        BY <2>2, <4>1
      <4>3. IsBest(old.best, Read(k), score) /\ old.max = score[old.best]
        BY <2>3, <4>2 DEF old
      <4>4. old.best \in Nat /\ old.best < t
        BY <2>5, <4>3 DEF IsBest
      <4>5. IsBest(old.best, Read(k) \cup {t}, score)
        BY <2>1, <4>1, <4>3, <4>4 DEF IsBest
      <4> QED BY <2>4, <3>1, <3>3, <4>3, <4>5 DEF new, old
    <3> QED BY <3>2, <3>3
  <2> QED BY <2>6, <2>7
<1>6. n \in G
  <2> HIDE DEF G
  <2> QED BY <1>2, <1>4, <1>5, NatSetInduction
<1>7. Good(n)
  <2> HIDE DEF Good
  <2> QED BY <1>2, <1>6
<1>8. Read(n) = scored
  BY <1>2
<1> QED BY <1>1, <1>7, <1>8

(* BestScoreWins, for any scores: UtilityScoringCell::Resolve answers with *)
(* the best score above minus infinity, the earliest bound of equals, and  *)
(* with the last fallback if there is none; a NaN is never the best and    *)
(* hides no other.                                                         *)
THEOREM BestScore == Spec => []BestScoreWins
<1>1. CellsInv => BestScoreWins
  <2> SUFFICES ASSUME CellsInv, NEW score \in [Rules -> Score],
                      NEW answer, answer = ResolveScoring(scoring, score),
                      NEW scored, scored = {t \in Rules : score[t] \notin {NaN, 0}}
               PROVE  IF scored = {} THEN answer = LastOr(Fallbacks)
                      ELSE /\ answer \in scored
                           /\ \A t \in scored : score[t] <= score[answer]
                           /\ \A t \in scored : score[t] = score[answer] => answer <= t
    BY DEF BestScoreWins, Trampolines
  <2>1. /\ scoring = [options |-> early.rules, fallback |-> early.fallback]
        /\ early = [rules |-> early.rules, fallback |-> LastOr(Fallbacks)]
        /\ early.rules \in Seq(1 .. Len(bound)) /\ Lists(early.rules, Rules)
        /\ Len(bound) \in Nat /\ Rules \subseteq 1 .. Len(bound)
    BY DEF CellsInv, Rules
  <2>2. scoring.options = early.rules /\ scoring.fallback = LastOr(Fallbacks)
    <3>1. early.fallback = LastOr(Fallbacks)
      BY <2>1
    <3> QED BY <2>1, <3>1
  <2>3. early.rules \in Seq(Rules)
    <3>1. \A i \in 1 .. Len(early.rules) : early.rules[i] \in Rules
      BY <2>1 DEF Lists, Range
    <3> QED BY <2>1, <3>1, SeqInto
  <2>4. \/ scored = {} /\ answer = scoring.fallback
        \/ IsBest(answer, scored, score)
    BY <2>1, <2>2, <2>3, ScoreAnswer
  <2> QED BY <2>2, <2>4 DEF IsBest
<1> QED BY <1>1, StrategiesInvariant, PTL
=============================================================================
