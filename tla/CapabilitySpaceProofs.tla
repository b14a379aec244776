----------------------- MODULE CapabilitySpaceProofs -----------------------
(***************************************************************************)
(* Proofs about CapabilitySpace, for any number of axes of any enums and   *)
(* any rows filled in any order: Horner's index numbers the coordinates    *)
(* densely, GetCoordAtIndex gives the digits of an index, and the two are  *)
(* inverse to each other.                                                  *)
(***************************************************************************)
EXTENDS CapabilitySpace, DataTheorems

(* A space that compiles.                                                  *)
Compiles(sp) == sp \in Seq(Axes) /\ \A d \in DOMAIN sp : AxisDensityCheck(sp[d])

(* What a cell of the arena is for: the slot and the index in its row.     *)
CellsInv ==
  \A j \in DOMAIN arena :
    LET slot == (j - 1) \div Volume(space)
    IN arena[j] = IF slot \in filled
                  THEN [slot |-> slot, at |-> MakeAt(space, (j - 1) % Volume(space))]
                  ELSE Null

(* The arena ends with its last row that is filled.                        *)
SizeInv ==
  /\ filled \subseteq Slots
  /\ filled # {} => Max(filled) \in filled /\ \A slot \in filled : slot <= Max(filled)
  /\ DOMAIN arena = 1 .. Len(arena)
  /\ Len(arena) = IF filled = {} THEN 0 ELSE (Max(filled) + 1) * Volume(space)

(* The inductive invariant.                                                *)
Inv == Compiles(space) /\ SizeInv /\ CellsInv

(* The axes of a space that compiles.                                      *)
LEMMA SpaceFacts ==
  ASSUME NEW sp, Compiles(sp)
  PROVE  /\ Len(sp) \in Nat /\ DOMAIN sp = 1 .. Len(sp) /\ sp \in Seq(Axes)
         /\ \A k \in 1 .. Len(sp) : sp[k] \in Axes /\ Count(sp[k]) \in Nat \ {0}
<1>1. Len(sp) \in Nat /\ DOMAIN sp = 1 .. Len(sp) /\ sp \in Seq(Axes)
  BY DEF Compiles
<1>2. ASSUME NEW k \in 1 .. Len(sp)
      PROVE  sp[k] \in Axes /\ Count(sp[k]) \in Nat \ {0}
  <2>1. sp[k] \in Axes
    BY <1>1
  <2>2. AxisDensityCheck(sp[k]) /\ sp[k].count \in Nat
    BY <1>1, <2>1, SpaceAssumption DEF Compiles
  <2> QED BY <2>1, <2>2 DEF AxisDensityCheck, Count
<1> QED BY <1>1, <1>2

(* What the static_assert looks at is the contract, for an axis that lists *)
(* all its enumerators.                                                    *)
LEMMA ListedContiguous ==
  ASSUME NEW axis \in Axes, AxisDensityCheck(axis), Listed(axis)
  PROVE  Contiguous(axis)
<1> DEFINE n == Count(axis)
           f == [v \in axis.enumerators |-> AxisToDense(axis, v)]
<1>1. /\ n \in Nat \ {0} /\ axis.values \in Seq(axis.enumerators)
      /\ Len(axis.values) = n /\ Range(axis.values) = axis.enumerators
  BY SpaceAssumption DEF AxisDensityCheck, Listed, Count
<1>2. DOMAIN axis.values = 1 .. n /\ axis.values # << >>
  BY <1>1
<1>3. \A i \in 1 .. n : AxisToDense(axis, axis.values[i]) = i - 1
  BY <1>2 DEF AxisDensityCheck
<1>4. \A v \in axis.enumerators : \E i \in 1 .. n : axis.values[i] = v
  BY <1>1, <1>2 DEF Range
<1>5. \A i \in 1 .. n : axis.values[i] \in axis.enumerators
  BY <1>1, <1>2
<1> HIDE DEF n
<1>6. ASSUME NEW v \in axis.enumerators
      PROVE  /\ f[v] \in 0 .. n - 1
             /\ axis.values[f[v] + 1] = v
  <2>1. PICK i \in 1 .. n : axis.values[i] = v
    BY <1>4
  <2>2. f[v] = i - 1 /\ i \in Nat /\ (i - 1) + 1 = i /\ i - 1 \in 0 .. n - 1
    BY <1>1, <1>3, <2>1
  <2> QED BY <2>1, <2>2
<1>7. ASSUME NEW i \in 0 .. n - 1
      PROVE  \E v \in axis.enumerators : f[v] = i
  <2>1. i + 1 \in 1 .. n /\ (i + 1) - 1 = i
    BY <1>1
  <2>2. axis.values[i + 1] \in axis.enumerators /\ f[axis.values[i + 1]] = i
    BY <1>3, <1>5, <2>1
  <2> QED BY <2>2
<1>8. f \in [axis.enumerators -> 0 .. n - 1]
  BY <1>6
<1>9. \A v, w \in axis.enumerators : f[v] = f[w] => v = w
  BY <1>6
<1>10. DOMAIN f = axis.enumerators
  OBVIOUS
<1>11. f \in Bijection(axis.enumerators, 0 .. n - 1)
  <2> HIDE DEF f
  <2> QED BY <1>7, <1>8, <1>9, <1>10 DEF Bijection, Injection, Surjection, IsInjective
<1> QED BY <1>11 DEF Contiguous, n

-----------------------------------------------------------------------------
(* The volume is multiplied up axis by axis.                               *)
LEMMA VolumeSteps ==
  ASSUME NEW sp, Compiles(sp)
  PROVE  \E v \in [0 .. Len(sp) -> Nat \ {0}] :
           /\ v[0] = 1 /\ v[Len(sp)] = Volume(sp)
           /\ \A k \in 1 .. Len(sp) : v[k] = v[k - 1] * Count(sp[k])
<1> DEFINE n == Len(sp)
           ids == sp
           op(a, e) == a * Count(e)
           Rec(g) == g = [s \in SUBSET DOMAIN ids |->
                            IF s = {} THEN 1 ELSE op(g[s \ {Max(s)}], ids[Max(s)])]
           iter == CHOOSE g : Rec(g)
           f == [x \in (Nat \ {0}) \X (1 .. n) |-> op(x[1], ids[x[2]])]
<1>1. Volume(sp) = iter[DOMAIN ids]
  BY Zenon DEF Volume, FoldLeft, MapThenFoldSet
<1>2. n \in Nat /\ DOMAIN ids = 1 .. n /\ \A k \in 1 .. n : ids[k] = sp[k]
  BY SpaceFacts
<1>3. \A a \in Nat \ {0}, k \in 1 .. n : op(a, ids[k]) \in Nat \ {0}
  BY <1>2, SpaceFacts
<1>4. f \in [(Nat \ {0}) \X (1 .. n) -> Nat \ {0}]
  <2> HIDE DEF op, ids, n
  <2> QED BY <1>3
<1> HIDE DEF n, ids
<1>5. PICK g \in [SUBSET (1 .. n) -> Nat \ {0}] : Folds(g, f, 1, n)
  <2>1. 1 \in Nat \ {0}
    OBVIOUS
  <2> HIDE DEF f
  <2> QED BY <1>2, <1>4, <2>1, FoldExists
<1>6. ASSUME NEW s \in SUBSET (1 .. n)
      PROVE  g[s] = IF s = {} THEN 1 ELSE op(g[s \ {Max(s)}], ids[Max(s)])
  <2>1. s # {} => Max(s) \in 1 .. n /\ g[s \ {Max(s)}] \in Nat \ {0}
    BY <1>2, <1>5, GreatestExists
  <2> HIDE DEF op
  <2> QED BY <1>2, <1>5, <2>1 DEF Folds
<1>7. Rec(g)
  <2> HIDE DEF op
  <2> QED BY <1>2, <1>6
<1>8. Rec(iter)
  <2> HIDE DEF Rec
  <2> QED BY <1>7
<1>9. \A s \in SUBSET (1 .. n) :
        iter[s] = IF s = {} THEN 1 ELSE op(iter[s \ {Max(s)}], ids[Max(s)])
  <2> HIDE DEF op, iter
  <2> QED BY <1>2, <1>8
<1> HIDE DEF Rec, iter, op
<1> DEFINE v == [k \in 0 .. n |-> iter[1 .. k]]
<1>10. v[0] = 1
  <2>1. 1 .. 0 = {} /\ 1 .. 0 \in SUBSET (1 .. n) /\ 0 \in 0 .. n
    BY <1>2
  <2> QED BY <1>9, <2>1
<1>11. ASSUME NEW k \in 1 .. n
       PROVE  v[k] = op(v[k - 1], ids[k])
  <2>1. k \in Nat \ {0} /\ 1 .. k \in SUBSET (1 .. n) /\ k \in 0 .. n /\ k - 1 \in 0 .. n
    BY <1>2
  <2>2. 1 .. k # {} /\ Max(1 .. k) = k /\ (1 .. k) \ {k} = 1 .. k - 1
    BY <2>1, IntervalRest
  <2>3. iter[1 .. k] = op(iter[(1 .. k) \ {k}], ids[k])
    BY <1>9, <2>1, <2>2
  <2>4. iter[1 .. k] = op(iter[1 .. k - 1], ids[k])
    BY <2>2, <2>3
  <2> QED BY <2>1, <2>4
<1>12. v[n] = Volume(sp)
  <2>1. n \in 0 .. n
    BY <1>2
  <2> QED BY <1>1, <1>2, <2>1
<1>13. DOMAIN v = 0 .. n /\ v = [k \in DOMAIN v |-> v[k]]
  OBVIOUS
<1> HIDE DEF v
<1> DEFINE S == {k \in Nat : k <= n => v[k] \in Nat \ {0}}
<1>14. 0 \in S
  BY <1>10
<1>15. ASSUME NEW k \in Nat, k \in S PROVE k + 1 \in S
  <2> SUFFICES ASSUME k + 1 <= n PROVE v[k + 1] \in Nat \ {0}
    OBVIOUS
  <2>1. k + 1 \in 1 .. n /\ (k + 1) - 1 = k /\ v[k] \in Nat \ {0}
    BY <1>2, <1>15
  <2>2. v[k + 1] = op(v[k], ids[k + 1])
    BY <1>11, <2>1
  <2> QED BY <1>3, <2>1, <2>2
<1>16. Nat \subseteq S
  <2> HIDE DEF S
  <2> QED BY <1>14, <1>15, NatSetInduction
<1>17. v \in [0 .. n -> Nat \ {0}]
  <2>1. \A k \in 0 .. n : k \in Nat /\ k <= n
    BY <1>2
  <2> QED BY <1>13, <1>16, <2>1
<1>18. \A k \in 1 .. n : v[k] = v[k - 1] * Count(sp[k])
  <2>1. \A k \in 1 .. n : ids[k] = sp[k] /\ v[k] = op(v[k - 1], ids[k])
    BY <1>2, <1>11
  <2> QED BY <2>1 DEF op
<1> QED BY <1>10, <1>12, <1>17, <1>18 DEF n

(* So is the stride, from the axis after d.                                *)
LEMMA StrideSteps ==
  ASSUME NEW sp, Compiles(sp), NEW d \in Nat
  PROVE  \E v \in [0 .. Len(sp) -> Nat \ {0}] :
           /\ v[0] = 1 /\ v[Len(sp)] = GetStride(sp, d)
           /\ \A k \in 1 .. Len(sp) : v[k] = IF k > d THEN v[k - 1] * Count(sp[k]) ELSE v[k - 1]
<1> DEFINE n == Len(sp)
           ids == [k \in DOMAIN sp |-> k]
           op(a, e) == IF e > d THEN a * Count(sp[e]) ELSE a
           Rec(g) == g = [s \in SUBSET DOMAIN ids |->
                            IF s = {} THEN 1 ELSE op(g[s \ {Max(s)}], ids[Max(s)])]
           iter == CHOOSE g : Rec(g)
           f == [x \in (Nat \ {0}) \X (1 .. n) |-> op(x[1], ids[x[2]])]
<1>1. GetStride(sp, d) = iter[DOMAIN ids]
  BY Zenon DEF GetStride, FoldLeftDomain, FoldLeft, MapThenFoldSet
<1>2. n \in Nat /\ DOMAIN ids = 1 .. n /\ \A k \in 1 .. n : ids[k] = k
  BY SpaceFacts
<1>3. \A a \in Nat \ {0}, k \in 1 .. n : op(a, ids[k]) \in Nat \ {0}
  BY <1>2, SpaceFacts
<1>4. f \in [(Nat \ {0}) \X (1 .. n) -> Nat \ {0}]
  <2> HIDE DEF op, ids, n
  <2> QED BY <1>3
<1> HIDE DEF n, ids
<1>5. PICK g \in [SUBSET (1 .. n) -> Nat \ {0}] : Folds(g, f, 1, n)
  <2>1. 1 \in Nat \ {0}
    OBVIOUS
  <2> HIDE DEF f
  <2> QED BY <1>2, <1>4, <2>1, FoldExists
<1>6. ASSUME NEW s \in SUBSET (1 .. n)
      PROVE  g[s] = IF s = {} THEN 1 ELSE op(g[s \ {Max(s)}], ids[Max(s)])
  <2>1. s # {} => Max(s) \in 1 .. n /\ g[s \ {Max(s)}] \in Nat \ {0}
    BY <1>2, <1>5, GreatestExists
  <2> HIDE DEF op
  <2> QED BY <1>2, <1>5, <2>1 DEF Folds
<1>7. Rec(g)
  <2> HIDE DEF op
  <2> QED BY <1>2, <1>6
<1>8. Rec(iter)
  <2> HIDE DEF Rec
  <2> QED BY <1>7
<1>9. \A s \in SUBSET (1 .. n) :
        iter[s] = IF s = {} THEN 1 ELSE op(iter[s \ {Max(s)}], ids[Max(s)])
  <2> HIDE DEF op, iter
  <2> QED BY <1>2, <1>8
<1> HIDE DEF Rec, iter, op
<1> DEFINE v == [k \in 0 .. n |-> iter[1 .. k]]
<1>10. v[0] = 1
  <2>1. 1 .. 0 = {} /\ 1 .. 0 \in SUBSET (1 .. n) /\ 0 \in 0 .. n
    BY <1>2
  <2> QED BY <1>9, <2>1
<1>11. ASSUME NEW k \in 1 .. n
       PROVE  v[k] = op(v[k - 1], ids[k])
  <2>1. k \in Nat \ {0} /\ 1 .. k \in SUBSET (1 .. n) /\ k \in 0 .. n /\ k - 1 \in 0 .. n
    BY <1>2
  <2>2. 1 .. k # {} /\ Max(1 .. k) = k /\ (1 .. k) \ {k} = 1 .. k - 1
    BY <2>1, IntervalRest
  <2>3. iter[1 .. k] = op(iter[(1 .. k) \ {k}], ids[k])
    BY <1>9, <2>1, <2>2
  <2>4. iter[1 .. k] = op(iter[1 .. k - 1], ids[k])
    BY <2>2, <2>3
  <2> QED BY <2>1, <2>4
<1>12. v[n] = GetStride(sp, d)
  <2>1. n \in 0 .. n
    BY <1>2
  <2> QED BY <1>1, <1>2, <2>1
<1>13. DOMAIN v = 0 .. n /\ v = [k \in DOMAIN v |-> v[k]]
  OBVIOUS
<1> HIDE DEF v
<1> DEFINE S == {k \in Nat : k <= n => v[k] \in Nat \ {0}}
<1>14. 0 \in S
  BY <1>10
<1>15. ASSUME NEW k \in Nat, k \in S PROVE k + 1 \in S
  <2> SUFFICES ASSUME k + 1 <= n PROVE v[k + 1] \in Nat \ {0}
    OBVIOUS
  <2>1. k + 1 \in 1 .. n /\ (k + 1) - 1 = k /\ v[k] \in Nat \ {0}
    BY <1>2, <1>15
  <2>2. v[k + 1] = op(v[k], ids[k + 1])
    BY <1>11, <2>1
  <2> QED BY <1>3, <2>1, <2>2
<1>16. Nat \subseteq S
  <2> HIDE DEF S
  <2> QED BY <1>14, <1>15, NatSetInduction
<1>17. v \in [0 .. n -> Nat \ {0}]
  <2>1. \A k \in 0 .. n : k \in Nat /\ k <= n
    BY <1>2
  <2> QED BY <1>13, <1>16, <2>1
<1>18. \A k \in 1 .. n : v[k] = IF k > d THEN v[k - 1] * Count(sp[k]) ELSE v[k - 1]
  <2>1. \A k \in 1 .. n : ids[k] = k /\ v[k] = op(v[k - 1], ids[k])
    BY <1>2, <1>11
  <2> QED BY <2>1 DEF op
<1> QED BY <1>10, <1>12, <1>17, <1>18 DEF n

(* The dense coordinate on axis k.                                         *)
Digit(sp, coords, k) == AxisToDense(sp[k], coords[k])

(* Every axis has a dense coordinate of its own.                           *)
HasDigits(sp, coords) ==
  \A k \in 1 .. Len(sp) : Digit(sp, coords, k) \in 0 .. Count(sp[k]) - 1

(* Horner's index, digit by digit.                                         *)
LEMMA HornerPath ==
  ASSUME NEW sp, Compiles(sp), NEW coords, HasDigits(sp, coords)
  PROVE  \E v \in [0 .. Len(sp) -> Nat] :
           /\ v[0] = 0 /\ v[Len(sp)] = Horner(sp, coords)
           /\ \A k \in 1 .. Len(sp) : v[k] = v[k - 1] * Count(sp[k]) + Digit(sp, coords, k)
<1> DEFINE n == Len(sp)
           ids == [k \in DOMAIN sp |-> k]
           op(a, e) == a * Count(sp[e]) + Digit(sp, coords, e)
           Rec(g) == g = [s \in SUBSET DOMAIN ids |->
                            IF s = {} THEN 0 ELSE op(g[s \ {Max(s)}], ids[Max(s)])]
           iter == CHOOSE g : Rec(g)
           f == [x \in (Nat) \X (1 .. n) |-> op(x[1], ids[x[2]])]
<1>1. Horner(sp, coords) = iter[DOMAIN ids]
  BY Zenon DEF Horner, Digit, FoldLeftDomain, FoldLeft, MapThenFoldSet
<1>2. n \in Nat /\ DOMAIN ids = 1 .. n /\ \A k \in 1 .. n : ids[k] = k
  BY SpaceFacts
<1>3. \A a \in Nat, k \in 1 .. n : op(a, ids[k]) \in Nat
  <2>1. \A k \in 1 .. n : Count(sp[k]) \in Nat /\ Digit(sp, coords, k) \in Nat
    BY SpaceFacts DEF HasDigits
  <2> HIDE DEF n, ids
  <2> SUFFICES ASSUME NEW a \in Nat, NEW k \in 1 .. n
               PROVE  a * Count(sp[k]) + Digit(sp, coords, k) \in Nat
    BY <1>2
  <2> QED BY <2>1
<1>4. f \in [(Nat) \X (1 .. n) -> Nat]
  <2> HIDE DEF op, ids, n
  <2> QED BY <1>3
<1> HIDE DEF n, ids
<1>5. PICK g \in [SUBSET (1 .. n) -> Nat] : Folds(g, f, 0, n)
  <2>1. 0 \in Nat
    OBVIOUS
  <2> HIDE DEF f
  <2> QED BY <1>2, <1>4, <2>1, FoldExists
<1>6. ASSUME NEW s \in SUBSET (1 .. n)
      PROVE  g[s] = IF s = {} THEN 0 ELSE op(g[s \ {Max(s)}], ids[Max(s)])
  <2>1. s # {} => Max(s) \in 1 .. n /\ g[s \ {Max(s)}] \in Nat
    BY <1>2, <1>5, GreatestExists
  <2> HIDE DEF op
  <2> QED BY <1>2, <1>5, <2>1 DEF Folds
<1>7. Rec(g)
  <2> HIDE DEF op
  <2> QED BY <1>2, <1>6
<1>8. Rec(iter)
  <2> HIDE DEF Rec
  <2> QED BY <1>7
<1>9. \A s \in SUBSET (1 .. n) :
        iter[s] = IF s = {} THEN 0 ELSE op(iter[s \ {Max(s)}], ids[Max(s)])
  <2> HIDE DEF op, iter
  <2> QED BY <1>2, <1>8
<1> HIDE DEF Rec, iter, op
<1> DEFINE v == [k \in 0 .. n |-> iter[1 .. k]]
<1>10. v[0] = 0
  <2>1. 1 .. 0 = {} /\ 1 .. 0 \in SUBSET (1 .. n) /\ 0 \in 0 .. n
    BY <1>2
  <2> QED BY <1>9, <2>1
<1>11. ASSUME NEW k \in 1 .. n
       PROVE  v[k] = op(v[k - 1], ids[k])
  <2>1. k \in Nat \ {0} /\ 1 .. k \in SUBSET (1 .. n) /\ k \in 0 .. n /\ k - 1 \in 0 .. n
    BY <1>2
  <2>2. 1 .. k # {} /\ Max(1 .. k) = k /\ (1 .. k) \ {k} = 1 .. k - 1
    BY <2>1, IntervalRest
  <2>3. iter[1 .. k] = op(iter[(1 .. k) \ {k}], ids[k])
    BY <1>9, <2>1, <2>2
  <2>4. iter[1 .. k] = op(iter[1 .. k - 1], ids[k])
    BY <2>2, <2>3
  <2> QED BY <2>1, <2>4
<1>12. v[n] = Horner(sp, coords)
  <2>1. n \in 0 .. n
    BY <1>2
  <2> QED BY <1>1, <1>2, <2>1
<1>13. DOMAIN v = 0 .. n /\ v = [k \in DOMAIN v |-> v[k]]
  OBVIOUS
<1> HIDE DEF v
<1> DEFINE S == {k \in Nat : k <= n => v[k] \in Nat}
<1>14. 0 \in S
  BY <1>10
<1>15. ASSUME NEW k \in Nat, k \in S PROVE k + 1 \in S
  <2> SUFFICES ASSUME k + 1 <= n PROVE v[k + 1] \in Nat
    OBVIOUS
  <2>1. k + 1 \in 1 .. n /\ (k + 1) - 1 = k /\ v[k] \in Nat
    BY <1>2, <1>15
  <2>2. v[k + 1] = op(v[k], ids[k + 1])
    BY <1>11, <2>1
  <2> QED BY <1>3, <2>1, <2>2
<1>16. Nat \subseteq S
  <2> HIDE DEF S
  <2> QED BY <1>14, <1>15, NatSetInduction
<1>17. v \in [0 .. n -> Nat]
  <2>1. \A k \in 0 .. n : k \in Nat /\ k <= n
    BY <1>2
  <2> QED BY <1>13, <1>16, <2>1
<1>18. \A k \in 1 .. n : v[k] = v[k - 1] * Count(sp[k]) + Digit(sp, coords, k)
  <2>1. \A k \in 1 .. n : ids[k] = k /\ v[k] = op(v[k - 1], ids[k])
    BY <1>2, <1>11
  <2> QED BY <2>1 DEF op
<1> QED BY <1>10, <1>12, <1>17, <1>18 DEF n

-----------------------------------------------------------------------------
(* Numbers.                                                                *)

(* Dividing by a product is dividing by one factor after the other.        *)
LEMMA DivideTwice ==
  ASSUME NEW m \in Nat, NEW s \in Nat \ {0}, NEW c \in Nat \ {0}
  PROVE  m \div (c * s) = (m \div s) \div c
<1> DEFINE q == m \div s
           r == m % s
           p == q \div c
           t == q % c
<1>1. q \in Nat /\ r \in 0 .. s - 1 /\ m = s * q + r
  BY Quotient
<1>2. p \in Nat /\ t \in 0 .. c - 1 /\ q = c * p + t
  <2> HIDE DEF q
  <2> QED BY <1>1, Quotient
<1> HIDE DEF q, r, p, t
<1>3. c * s \in Nat \ {0}
  OBVIOUS
<1>4. s * t + r \in 0 .. c * s - 1
  <2>1. t \in Nat /\ r \in Nat /\ s * t \in Nat /\ t <= c - 1 /\ r < s
    BY <1>1, <1>2
  <2>2. s * t <= s * (c - 1) /\ s * (c - 1) = c * s - s
    BY <2>1
  <2> QED BY <1>3, <2>1, <2>2
<1>5. m = (c * s) * p + (s * t + r)
  <2>1. s * (c * p + t) = (c * s) * p + s * t
    BY <1>2
  <2> QED BY <1>1, <1>2, <2>1
<1>6. m \div (c * s) = p
  BY <1>2, <1>3, <1>4, <1>5, Division
<1> QED BY <1>6 DEF p, q

-----------------------------------------------------------------------------
(* The strides.                                                            *)

(* A stride is the next one times its axis; the last is 1, and the one     *)
(* before the first axis would be the volume.                              *)
LEMMA Strides ==
  ASSUME NEW sp, Compiles(sp)
  PROVE  /\ \A d \in 0 .. Len(sp) : GetStride(sp, d) \in Nat \ {0}
         /\ \A d \in 1 .. Len(sp) : GetStride(sp, d - 1) = Count(sp[d]) * GetStride(sp, d)
         /\ GetStride(sp, Len(sp)) = 1
         /\ GetStride(sp, 0) = Volume(sp)
<1> DEFINE n == Len(sp)
           c(k) == Count(sp[k])
<1>1. n \in Nat /\ \A k \in 1 .. n : c(k) \in Nat \ {0}
  BY SpaceFacts
<1> HIDE DEF n, c
<1>2. ASSUME NEW d \in 0 .. n
      PROVE  \E v \in [0 .. n -> Nat \ {0}] :
               /\ v[0] = 1 /\ v[n] = GetStride(sp, d)
               /\ \A k \in 1 .. n : v[k] = IF k > d THEN v[k - 1] * c(k) ELSE v[k - 1]
  <2>1. d \in Nat
    BY <1>1
  <2> QED BY <2>1, StrideSteps DEF n, c
<1>3. \A d \in 0 .. n : GetStride(sp, d) \in Nat \ {0}
  <2>1. n \in 0 .. n
    BY <1>1
  <2> QED BY <1>2, <2>1
<1>4. ASSUME NEW d \in 1 .. n PROVE GetStride(sp, d - 1) = c(d) * GetStride(sp, d)
  <2>1. d \in Nat /\ d - 1 \in 0 .. n /\ d \in 0 .. n /\ d >= 1 /\ d <= n
    BY <1>1
  <2>2. PICK u \in [0 .. n -> Nat \ {0}] :
          /\ u[0] = 1 /\ u[n] = GetStride(sp, d - 1)
          /\ \A k \in 1 .. n : u[k] = IF k > d - 1 THEN u[k - 1] * c(k) ELSE u[k - 1]
    BY <1>2, <2>1
  <2>3. PICK w \in [0 .. n -> Nat \ {0}] :
          /\ w[0] = 1 /\ w[n] = GetStride(sp, d)
          /\ \A k \in 1 .. n : w[k] = IF k > d THEN w[k - 1] * c(k) ELSE w[k - 1]
    BY <1>2, <2>1
  <2> DEFINE S == {k \in Nat : k <= n => IF k < d THEN u[k] = 1 /\ w[k] = 1
                                         ELSE u[k] = c(d) * w[k] /\ (k = d => w[k] = 1)}
  <2>4. 0 \in S
    BY <2>1, <2>2, <2>3
  <2>5. ASSUME NEW k \in Nat, k \in S PROVE k + 1 \in S
    <3> SUFFICES ASSUME k + 1 <= n
                 PROVE  IF k + 1 < d THEN u[k + 1] = 1 /\ w[k + 1] = 1
                        ELSE u[k + 1] = c(d) * w[k + 1] /\ (k + 1 = d => w[k + 1] = 1)
      OBVIOUS
    <3>1. k + 1 \in 1 .. n /\ (k + 1) - 1 = k /\ k \in 0 .. n /\ k <= n
      BY <1>1
    <3>2. /\ u[k + 1] = IF k + 1 > d - 1 THEN u[k] * c(k + 1) ELSE u[k]
          /\ w[k + 1] = IF k + 1 > d THEN w[k] * c(k + 1) ELSE w[k]
      BY <2>2, <2>3, <3>1
    <3>3. u[k] \in Nat /\ w[k] \in Nat /\ c(k + 1) \in Nat /\ c(d) \in Nat
      BY <1>1, <2>2, <2>3, <3>1
    <3>4. CASE k + 1 < d
      BY <2>1, <2>5, <3>1, <3>2, <3>4
    <3>5. CASE k + 1 = d
      <4>1. u[k] = 1 /\ w[k] = 1 /\ u[k + 1] = u[k] * c(d) /\ w[k + 1] = w[k]
        BY <2>1, <2>5, <3>1, <3>2, <3>5
      <4> QED BY <3>3, <3>5, <4>1
    <3>6. CASE k + 1 > d
      <4>1. u[k] = c(d) * w[k] /\ u[k + 1] = u[k] * c(k + 1) /\ w[k + 1] = w[k] * c(k + 1)
        BY <2>1, <2>5, <3>1, <3>2, <3>6
      <4>2. \A x, y, z \in Nat : (x * y) * z = x * (y * z)
        OBVIOUS
      <4>3. u[k + 1] = c(d) * w[k + 1]
        BY <3>3, <4>1, <4>2
      <4> QED BY <2>1, <3>6, <4>3
    <3> QED BY <2>1, <3>4, <3>5, <3>6
  <2>6. n \in S
    <3> HIDE DEF S
    <3> QED BY <1>1, <2>4, <2>5, NatSetInduction
  <2> QED BY <1>1, <2>1, <2>2, <2>3, <2>6
<1>5. GetStride(sp, n) = 1
  <2>1. n \in 0 .. n
    BY <1>1
  <2>2. PICK w \in [0 .. n -> Nat \ {0}] :
          /\ w[0] = 1 /\ w[n] = GetStride(sp, n)
          /\ \A k \in 1 .. n : w[k] = IF k > n THEN w[k - 1] * c(k) ELSE w[k - 1]
    BY <1>2, <2>1
  <2> DEFINE S == {k \in Nat : k <= n => w[k] = 1}
  <2>3. 0 \in S
    BY <2>2
  <2>4. ASSUME NEW k \in Nat, k \in S PROVE k + 1 \in S
    <3> SUFFICES ASSUME k + 1 <= n PROVE w[k + 1] = 1
      OBVIOUS
    <3>1. k + 1 \in 1 .. n /\ (k + 1) - 1 = k /\ w[k] = 1 /\ ~(k + 1 > n)
      BY <1>1, <2>4
    <3> QED BY <2>2, <3>1
  <2>5. n \in S
    <3> HIDE DEF S
    <3> QED BY <1>1, <2>3, <2>4, NatSetInduction
  <2> QED BY <2>2, <2>5
<1>6. GetStride(sp, 0) = Volume(sp)
  <2>1. 0 \in 0 .. n
    BY <1>1
  <2>2. PICK w \in [0 .. n -> Nat \ {0}] :
          /\ w[0] = 1 /\ w[n] = GetStride(sp, 0)
          /\ \A k \in 1 .. n : w[k] = IF k > 0 THEN w[k - 1] * c(k) ELSE w[k - 1]
    BY <1>2, <2>1
  <2>3. PICK v \in [0 .. n -> Nat \ {0}] :
          /\ v[0] = 1 /\ v[n] = Volume(sp)
          /\ \A k \in 1 .. n : v[k] = v[k - 1] * c(k)
    BY VolumeSteps DEF n, c
  <2> DEFINE S == {k \in Nat : k <= n => w[k] = v[k]}
  <2>4. 0 \in S
    BY <2>2, <2>3
  <2>5. ASSUME NEW k \in Nat, k \in S PROVE k + 1 \in S
    <3> SUFFICES ASSUME k + 1 <= n PROVE w[k + 1] = v[k + 1]
      OBVIOUS
    <3>1. k + 1 \in 1 .. n /\ (k + 1) - 1 = k /\ w[k] = v[k] /\ k + 1 > 0
      BY <1>1, <2>5
    <3> QED BY <2>2, <2>3, <3>1
  <2>6. n \in S
    <3> HIDE DEF S
    <3> QED BY <1>1, <2>4, <2>5, NatSetInduction
  <2> QED BY <2>2, <2>3, <2>6
<1> QED BY <1>3, <1>4, <1>5, <1>6 DEF n, c

(* GetCoordAtIndex gives a digit; the quotients by the strides are what    *)
(* Horner's method goes through to get back to the index.                  *)
LEMMA IndexDigits ==
  ASSUME NEW sp, Compiles(sp), NEW m \in 0 .. Volume(sp) - 1
  PROVE  /\ m \div GetStride(sp, 0) = 0
         /\ m \div GetStride(sp, Len(sp)) = m
         /\ \A d \in 1 .. Len(sp) :
              /\ GetCoordAtIndex(sp, d, m) \in 0 .. Count(sp[d]) - 1
              /\ m \div GetStride(sp, d) =
                   (m \div GetStride(sp, d - 1)) * Count(sp[d]) + GetCoordAtIndex(sp, d, m)
<1>1. /\ \A d \in 0 .. Len(sp) : GetStride(sp, d) \in Nat \ {0}
      /\ \A d \in 1 .. Len(sp) : GetStride(sp, d - 1) = Count(sp[d]) * GetStride(sp, d)
      /\ GetStride(sp, Len(sp)) = 1
      /\ GetStride(sp, 0) = Volume(sp)
  BY Strides
<1>2. Len(sp) \in Nat /\ \A k \in 1 .. Len(sp) : Count(sp[k]) \in Nat \ {0}
  BY SpaceFacts
<1>3. Volume(sp) \in Nat \ {0} /\ m \in Nat /\ m < Volume(sp)
  <2>1. 0 \in 0 .. Len(sp)
    BY <1>2
  <2> QED BY <1>1, <2>1
<1>4. m \div GetStride(sp, 0) = 0
  <2>1. m = Volume(sp) * 0 + m /\ m \in 0 .. Volume(sp) - 1 /\ 0 \in Nat
    BY <1>3
  <2>2. (Volume(sp) * 0 + m) \div Volume(sp) = 0
    BY <1>3, <2>1, Division
  <2> QED BY <1>1, <2>1, <2>2
<1>5. m \div GetStride(sp, Len(sp)) = m
  <2>1. m \div 1 = m
    BY <1>3
  <2> QED BY <1>1, <2>1
<1>6. ASSUME NEW d \in 1 .. Len(sp)
      PROVE  /\ GetCoordAtIndex(sp, d, m) \in 0 .. Count(sp[d]) - 1
             /\ m \div GetStride(sp, d) =
                  (m \div GetStride(sp, d - 1)) * Count(sp[d]) + GetCoordAtIndex(sp, d, m)
  <2> DEFINE s == GetStride(sp, d)
             c == Count(sp[d])
             q == m \div s
  <2>1. s \in Nat \ {0} /\ c \in Nat \ {0} /\ GetStride(sp, d - 1) = c * s
    <3>1. d \in 0 .. Len(sp)
      BY <1>2
    <3> QED BY <1>1, <1>2, <3>1
  <2>2. GetCoordAtIndex(sp, d, m) = q % c
    BY DEF GetCoordAtIndex
  <2> HIDE DEF s, c
  <2>3. q \in Nat
    BY <1>3, <2>1, Quotient
  <2>4. m \div (c * s) = q \div c
    BY <1>3, <2>1, DivideTwice
  <2> HIDE DEF q
  <2>5. q \div c \in Nat /\ q % c \in 0 .. c - 1 /\ q = c * (q \div c) + (q % c)
    BY <2>1, <2>3, Quotient
  <2>6. c * (q \div c) = (q \div c) * c
    BY <2>1, <2>5
  <2>7. q = (m \div GetStride(sp, d - 1)) * c + GetCoordAtIndex(sp, d, m)
    BY <2>1, <2>2, <2>4, <2>5, <2>6
  <2> QED BY <2>2, <2>5, <2>7 DEF q, c, s
<1> QED BY <1>4, <1>5, <1>6

-----------------------------------------------------------------------------
(* Horner's index.                                                         *)

(* The index is a cell of the row.                                         *)
LEMMA HornerBound ==
  ASSUME NEW sp, Compiles(sp), NEW coords, HasDigits(sp, coords)
  PROVE  Horner(sp, coords) \in 0 .. Volume(sp) - 1
<1> DEFINE n == Len(sp)
           c(k) == Count(sp[k])
           x(k) == Digit(sp, coords, k)
<1>1. n \in Nat /\ \A k \in 1 .. n : c(k) \in Nat \ {0} /\ x(k) \in 0 .. c(k) - 1
  BY SpaceFacts DEF HasDigits
<1>2. PICK v \in [0 .. n -> Nat \ {0}] :
        /\ v[0] = 1 /\ v[n] = Volume(sp)
        /\ \A k \in 1 .. n : v[k] = v[k - 1] * c(k)
  BY VolumeSteps
<1>3. PICK h \in [0 .. n -> Nat] :
        /\ h[0] = 0 /\ h[n] = Horner(sp, coords)
        /\ \A k \in 1 .. n : h[k] = h[k - 1] * c(k) + x(k)
  BY HornerPath
<1> HIDE DEF n, c, x
<1> DEFINE S == {k \in Nat : k <= n => h[k] <= v[k] - 1}
<1>4. 0 \in S
  BY <1>2, <1>3
<1>5. ASSUME NEW k \in Nat, k \in S PROVE k + 1 \in S
  <2> SUFFICES ASSUME k + 1 <= n PROVE h[k + 1] <= v[k + 1] - 1
    OBVIOUS
  <2>1. k + 1 \in 1 .. n /\ (k + 1) - 1 = k /\ k \in 0 .. n /\ h[k] <= v[k] - 1
    BY <1>1, <1>5
  <2>2. h[k + 1] = h[k] * c(k + 1) + x(k + 1) /\ v[k + 1] = v[k] * c(k + 1)
    BY <1>2, <1>3, <2>1
  <2>3. /\ h[k] \in Nat /\ v[k] \in Nat \ {0} /\ c(k + 1) \in Nat \ {0}
        /\ x(k + 1) \in Nat /\ x(k + 1) <= c(k + 1) - 1
    <3>1. h[k] \in Nat /\ v[k] \in Nat \ {0}
      BY <1>2, <1>3, <2>1
    <3>2. c(k + 1) \in Nat \ {0} /\ x(k + 1) \in 0 .. c(k + 1) - 1
      BY <1>1, <2>1
    <3> QED BY <3>1, <3>2
  <2>4. \A a, b, e \in Nat : a <= b - 1 => a * e <= b * e - e
    <3> SUFFICES ASSUME NEW a \in Nat, NEW b \in Nat, NEW e \in Nat, a <= b - 1
                 PROVE  a * e <= b * e - e
      OBVIOUS
    <3>1. PICK f \in Nat : b = a + 1 + f
      <4>1. b - a - 1 \in Nat /\ b = a + 1 + (b - a - 1)
        OBVIOUS
      <4> QED BY <4>1
    <3>2. b * e = a * e + e + f * e /\ f * e \in Nat /\ a * e \in Nat
      BY <3>1
    <3> QED BY <3>2
  <2>5. h[k] * c(k + 1) <= v[k] * c(k + 1) - c(k + 1)
    BY <2>1, <2>3, <2>4
  <2>6. h[k] * c(k + 1) \in Nat /\ v[k] * c(k + 1) \in Nat
    BY <2>3
  <2> QED BY <2>2, <2>3, <2>5, <2>6
<1>6. n \in S
  <2> HIDE DEF S
  <2> QED BY <1>1, <1>4, <1>5, NatSetInduction
<1>7. n \in 0 .. n
  BY <1>1
<1> QED BY <1>1, <1>2, <1>3, <1>6, <1>7

(* Different dense coordinates have different indices.                     *)
LEMMA HornerInjective ==
  ASSUME NEW sp, Compiles(sp),
         NEW left, HasDigits(sp, left), NEW right, HasDigits(sp, right),
         Horner(sp, left) = Horner(sp, right), NEW d \in 1 .. Len(sp)
  PROVE  Digit(sp, left, d) = Digit(sp, right, d)
<1> DEFINE n == Len(sp)
           c(k) == Count(sp[k])
           x(k) == Digit(sp, left, k)
           y(k) == Digit(sp, right, k)
<1>1. n \in Nat /\ \A k \in 1 .. n : /\ c(k) \in Nat \ {0}
                                     /\ x(k) \in 0 .. c(k) - 1 /\ y(k) \in 0 .. c(k) - 1
  BY SpaceFacts DEF HasDigits
<1>2. PICK h \in [0 .. n -> Nat] :
        /\ h[0] = 0 /\ h[n] = Horner(sp, left)
        /\ \A k \in 1 .. n : h[k] = h[k - 1] * c(k) + x(k)
  BY HornerPath
<1>3. PICK g \in [0 .. n -> Nat] :
        /\ g[0] = 0 /\ g[n] = Horner(sp, right)
        /\ \A k \in 1 .. n : g[k] = g[k - 1] * c(k) + y(k)
  BY HornerPath
<1>4. d \in 1 .. n
  OBVIOUS
<1> HIDE DEF n, c, x, y
<1>5. ASSUME NEW k \in 1 .. n, h[k] = g[k] PROVE h[k - 1] = g[k - 1] /\ x(k) = y(k)
  <2>1. k - 1 \in 0 .. n /\ c(k) \in Nat \ {0} /\ x(k) \in 0 .. c(k) - 1 /\ y(k) \in 0 .. c(k) - 1
    BY <1>1
  <2>2. h[k - 1] \in Nat /\ g[k - 1] \in Nat
    BY <1>2, <1>3, <2>1
  <2>3. c(k) * h[k - 1] + x(k) = c(k) * g[k - 1] + y(k)
    <3>1. h[k - 1] * c(k) = c(k) * h[k - 1] /\ g[k - 1] * c(k) = c(k) * g[k - 1]
      BY <2>1, <2>2
    <3> QED BY <1>2, <1>3, <1>5, <3>1
  <2>4. /\ (c(k) * h[k - 1] + x(k)) \div c(k) = h[k - 1]
        /\ (c(k) * h[k - 1] + x(k)) % c(k) = x(k)
    BY <2>1, <2>2, Division
  <2>5. /\ (c(k) * g[k - 1] + y(k)) \div c(k) = g[k - 1]
        /\ (c(k) * g[k - 1] + y(k)) % c(k) = y(k)
    BY <2>1, <2>2, Division
  <2> QED BY <2>3, <2>4, <2>5
<1> DEFINE S == {j \in Nat : j <= n => h[n - j] = g[n - j]}
<1>6. 0 \in S
  BY <1>1, <1>2, <1>3 DEF n
<1>7. ASSUME NEW j \in Nat, j \in S PROVE j + 1 \in S
  <2> SUFFICES ASSUME j + 1 <= n PROVE h[n - (j + 1)] = g[n - (j + 1)]
    OBVIOUS
  <2>1. n - j \in 1 .. n /\ (n - j) - 1 = n - (j + 1) /\ h[n - j] = g[n - j]
    BY <1>1, <1>7
  <2> QED BY <1>5, <2>1
<1>8. n - d \in S
  <2>1. n - d \in Nat
    BY <1>1, <1>4
  <2> HIDE DEF S
  <2> QED BY <1>6, <1>7, <2>1, NatSetInduction
<1>9. h[d] = g[d]
  <2>1. n - (n - d) = d /\ n - d <= n
    BY <1>1, <1>4
  <2> QED BY <1>8, <2>1
<1>10. x(d) = y(d)
  BY <1>4, <1>5, <1>9
<1> QED BY <1>10 DEF x, y

(* Horner's method takes the digits of an index back to the index.         *)
LEMMA HornerOfDigits ==
  ASSUME NEW sp, Compiles(sp), NEW m \in 0 .. Volume(sp) - 1, NEW coords,
         \A k \in 1 .. Len(sp) : Digit(sp, coords, k) = GetCoordAtIndex(sp, k, m)
  PROVE  HasDigits(sp, coords) /\ Horner(sp, coords) = m
<1> DEFINE n == Len(sp)
           c(k) == Count(sp[k])
           x(k) == Digit(sp, coords, k)
           q(k) == m \div GetStride(sp, k)
<1>1. n \in Nat /\ \A k \in 1 .. n : c(k) \in Nat \ {0}
  BY SpaceFacts
<1>2. /\ q(0) = 0 /\ q(n) = m
      /\ \A k \in 1 .. n : x(k) \in 0 .. c(k) - 1 /\ q(k) = q(k - 1) * c(k) + x(k)
  BY IndexDigits
<1>3. HasDigits(sp, coords)
  BY <1>2 DEF HasDigits
<1>4. PICK h \in [0 .. n -> Nat] :
        /\ h[0] = 0 /\ h[n] = Horner(sp, coords)
        /\ \A k \in 1 .. n : h[k] = h[k - 1] * c(k) + x(k)
  BY <1>3, HornerPath
<1> HIDE DEF n, c, x, q
<1> DEFINE S == {k \in Nat : k <= n => h[k] = q(k)}
<1>5. 0 \in S
  BY <1>2, <1>4
<1>6. ASSUME NEW k \in Nat, k \in S PROVE k + 1 \in S
  <2> SUFFICES ASSUME k + 1 <= n PROVE h[k + 1] = q(k + 1)
    OBVIOUS
  <2>1. k + 1 \in 1 .. n /\ (k + 1) - 1 = k /\ h[k] = q(k)
    BY <1>1, <1>6
  <2>2. h[k + 1] = h[k] * c(k + 1) + x(k + 1) /\ q(k + 1) = q(k) * c(k + 1) + x(k + 1)
    BY <1>2, <1>4, <2>1
  <2> QED BY <2>1, <2>2
<1>7. n \in S
  <2> HIDE DEF S
  <2> QED BY <1>1, <1>5, <1>6, NatSetInduction
<1> QED BY <1>1, <1>2, <1>3, <1>4, <1>7

-----------------------------------------------------------------------------
(* Coordinates.                                                            *)

(* A space whose axes keep their contract.                                 *)
Kept(sp) == Compiles(sp) /\ \A d \in DOMAIN sp : Contiguous(sp[d])

(* The enumerator that ToDense maps to i.                                  *)
EnumAt(axis, i) == CHOOSE v \in axis.enumerators : AxisToDense(axis, v) = i

(* There is one for each index below Count, and no enumerator is left out. *)
LEMMA EnumFacts ==
  ASSUME NEW axis, Contiguous(axis)
  PROVE  /\ \A v \in axis.enumerators :
              /\ AxisToDense(axis, v) \in 0 .. Count(axis) - 1
              /\ EnumAt(axis, AxisToDense(axis, v)) = v
         /\ \A i \in 0 .. Count(axis) - 1 :
              EnumAt(axis, i) \in axis.enumerators /\ AxisToDense(axis, EnumAt(axis, i)) = i
<1> DEFINE f == [v \in axis.enumerators |-> AxisToDense(axis, v)]
           dense == 0 .. Count(axis) - 1
<1>1. f \in Bijection(axis.enumerators, dense)
  BY DEF Contiguous
<1>2. DOMAIN f = axis.enumerators /\ \A v \in axis.enumerators : f[v] = AxisToDense(axis, v)
  OBVIOUS
<1> HIDE DEF f, dense
<1>3. /\ \A v \in axis.enumerators : f[v] \in dense
      /\ \A v, w \in axis.enumerators : f[v] = f[w] => v = w
      /\ \A i \in dense : \E v \in axis.enumerators : f[v] = i
  BY <1>1, <1>2 DEF Bijection, Injection, Surjection, IsInjective
<1>4. ASSUME NEW i \in dense
      PROVE  EnumAt(axis, i) \in axis.enumerators /\ AxisToDense(axis, EnumAt(axis, i)) = i
  <2>1. \E v \in axis.enumerators : AxisToDense(axis, v) = i
    BY <1>2, <1>3
  <2> QED BY <2>1 DEF EnumAt
<1>5. ASSUME NEW v \in axis.enumerators
      PROVE  AxisToDense(axis, v) \in dense /\ EnumAt(axis, AxisToDense(axis, v)) = v
  <2>1. AxisToDense(axis, v) \in dense
    BY <1>2, <1>3
  <2>2. /\ EnumAt(axis, AxisToDense(axis, v)) \in axis.enumerators
        /\ AxisToDense(axis, EnumAt(axis, AxisToDense(axis, v))) = AxisToDense(axis, v)
    BY <1>4, <2>1
  <2> QED BY <1>2, <1>3, <2>1, <2>2
<1> QED BY <1>4, <1>5 DEF dense

(* The coordinates with the digits of an index: what GetCoordAtIndex is    *)
(* to recover.                                                             *)
AtIndex(sp, m) == [d \in DOMAIN sp |-> EnumAt(sp[d], GetCoordAtIndex(sp, d, m))]

(* An enumerator on each axis.                                             *)
LEMMA CoordsAre ==
  ASSUME NEW sp, Compiles(sp)
  PROVE  /\ \A coords \in Coords(sp) :
              /\ DOMAIN coords = 1 .. Len(sp) /\ coords = [d \in DOMAIN coords |-> coords[d]]
              /\ \A d \in 1 .. Len(sp) : coords[d] \in sp[d].enumerators
         /\ \A coords : (/\ DOMAIN coords = 1 .. Len(sp)
                         /\ coords = [d \in DOMAIN coords |-> coords[d]]
                         /\ \A d \in 1 .. Len(sp) : coords[d] \in sp[d].enumerators)
                        => coords \in Coords(sp)
<1> DEFINE n == Len(sp)
           E == UNION {axis.enumerators : axis \in Range(sp)}
<1>1. DOMAIN sp = 1 .. n
  BY SpaceFacts
<1>2. Coords(sp) = {coords \in [1 .. n -> E] : \A d \in 1 .. n : coords[d] \in sp[d].enumerators}
  BY <1>1, Zenon DEF Coords
<1>3. ASSUME NEW d \in 1 .. n PROVE sp[d].enumerators \subseteq E
  BY <1>1 DEF Range
<1>4. ASSUME NEW coords, DOMAIN coords = 1 .. n, coords = [d \in DOMAIN coords |-> coords[d]],
             \A d \in 1 .. n : coords[d] \in sp[d].enumerators
      PROVE  coords \in Coords(sp)
  <2>1. \A d \in 1 .. n : coords[d] \in E
    BY <1>3, <1>4
  <2> HIDE DEF E, n
  <2>2. coords \in [1 .. n -> E]
    BY <1>4, <2>1
  <2> QED BY <1>2, <1>4, <2>2
<1>5. ASSUME NEW coords \in Coords(sp)
      PROVE  /\ DOMAIN coords = 1 .. n /\ coords = [d \in DOMAIN coords |-> coords[d]]
             /\ \A d \in 1 .. n : coords[d] \in sp[d].enumerators
  <2> HIDE DEF E, n
  <2> QED BY <1>2
<1> QED BY <1>4, <1>5

(* They have digits, and are told apart by them.                           *)
LEMMA CoordsFacts ==
  ASSUME NEW sp, Kept(sp)
  PROVE  /\ \A coords \in Coords(sp) :
              /\ DOMAIN coords = 1 .. Len(sp) /\ coords = [d \in DOMAIN coords |-> coords[d]]
              /\ HasDigits(sp, coords)
              /\ \A d \in 1 .. Len(sp) :
                   coords[d] = EnumAt(sp[d], Digit(sp, coords, d))
         /\ \A i \in [1 .. Len(sp) -> Nat] :
              (\A d \in 1 .. Len(sp) : i[d] \in 0 .. Count(sp[d]) - 1) =>
                [d \in 1 .. Len(sp) |-> EnumAt(sp[d], i[d])] \in Coords(sp)
<1> DEFINE n == Len(sp)
<1>1. DOMAIN sp = 1 .. n /\ \A d \in 1 .. n : Contiguous(sp[d])
  BY SpaceFacts DEF Kept
<1>2. ASSUME NEW coords \in Coords(sp)
      PROVE  /\ DOMAIN coords = 1 .. n /\ coords = [d \in DOMAIN coords |-> coords[d]]
             /\ HasDigits(sp, coords)
             /\ \A d \in 1 .. n : coords[d] = EnumAt(sp[d], Digit(sp, coords, d))
  <2>1. /\ DOMAIN coords = 1 .. n /\ coords = [d \in DOMAIN coords |-> coords[d]]
        /\ \A d \in 1 .. n : coords[d] \in sp[d].enumerators
    BY CoordsAre DEF Kept
  <2> QED BY <1>1, <2>1, EnumFacts DEF HasDigits, Digit
<1>3. ASSUME NEW i \in [1 .. n -> Nat], \A d \in 1 .. n : i[d] \in 0 .. Count(sp[d]) - 1
      PROVE  [d \in 1 .. n |-> EnumAt(sp[d], i[d])] \in Coords(sp)
  <2> DEFINE coords == [d \in 1 .. n |-> EnumAt(sp[d], i[d])]
  <2>1. \A d \in 1 .. n : EnumAt(sp[d], i[d]) \in sp[d].enumerators
    BY <1>1, <1>3, EnumFacts
  <2>2. /\ DOMAIN coords = 1 .. n /\ coords = [d \in DOMAIN coords |-> coords[d]]
        /\ \A d \in 1 .. n : coords[d] \in sp[d].enumerators
    BY <2>1
  <2> HIDE DEF coords
  <2>3. coords \in Coords(sp)
    BY <2>2, CoordsAre DEF Kept
  <2> QED BY <2>3 DEF coords
<1> QED BY <1>2, <1>3

(* Horner's method and the digits of an index are inverse to each other:   *)
(* a bijection between the coordinates and the cells of a row.             *)
LEMMA Numbering ==
  ASSUME NEW sp, Kept(sp)
  PROVE  /\ \A m \in 0 .. Volume(sp) - 1 :
              AtIndex(sp, m) \in Coords(sp) /\ Horner(sp, AtIndex(sp, m)) = m
         /\ \A coords \in Coords(sp) :
              /\ Horner(sp, coords) \in 0 .. Volume(sp) - 1
              /\ AtIndex(sp, Horner(sp, coords)) = coords
<1> DEFINE n == Len(sp)
<1>1. DOMAIN sp = 1 .. n /\ n \in Nat /\ Compiles(sp)
  BY SpaceFacts DEF Kept
<1>2. ASSUME NEW m \in 0 .. Volume(sp) - 1
      PROVE  /\ AtIndex(sp, m) \in Coords(sp) /\ Horner(sp, AtIndex(sp, m)) = m
             /\ \A d \in 1 .. n : Digit(sp, AtIndex(sp, m), d) = GetCoordAtIndex(sp, d, m)
  <2> DEFINE i == [d \in 1 .. n |-> GetCoordAtIndex(sp, d, m)]
  <2>1. \A d \in 1 .. n : /\ GetCoordAtIndex(sp, d, m) \in 0 .. Count(sp[d]) - 1
                          /\ Contiguous(sp[d])
    BY <1>1, IndexDigits DEF Kept
  <2>2. i \in [1 .. n -> Nat] /\ \A d \in 1 .. n : i[d] \in 0 .. Count(sp[d]) - 1
    BY <2>1
  <2>3. AtIndex(sp, m) = [d \in 1 .. n |-> EnumAt(sp[d], i[d])]
    BY <1>1 DEF AtIndex
  <2>4. AtIndex(sp, m) \in Coords(sp)
    <3> HIDE DEF i
    <3> QED BY <2>2, <2>3, CoordsFacts
  <2>5. ASSUME NEW d \in 1 .. n
        PROVE  Digit(sp, AtIndex(sp, m), d) = GetCoordAtIndex(sp, d, m)
    <3>1. AtIndex(sp, m)[d] = EnumAt(sp[d], GetCoordAtIndex(sp, d, m))
      BY <1>1 DEF AtIndex
    <3>2. AxisToDense(sp[d], EnumAt(sp[d], GetCoordAtIndex(sp, d, m))) = GetCoordAtIndex(sp, d, m)
      BY <2>1, EnumFacts
    <3> QED BY <3>1, <3>2 DEF Digit
  <2>6. Horner(sp, AtIndex(sp, m)) = m
    BY <1>1, <2>5, HornerOfDigits
  <2> QED BY <2>4, <2>5, <2>6
<1>3. ASSUME NEW coords \in Coords(sp)
      PROVE  /\ Horner(sp, coords) \in 0 .. Volume(sp) - 1
             /\ AtIndex(sp, Horner(sp, coords)) = coords
  <2> DEFINE m == Horner(sp, coords)
             other == AtIndex(sp, m)
  <2>1. HasDigits(sp, coords)
    BY CoordsFacts
  <2>2. m \in 0 .. Volume(sp) - 1
    BY <1>1, <2>1, HornerBound
  <2> HIDE DEF m
  <2>3. other \in Coords(sp) /\ Horner(sp, other) = m
    BY <1>2, <2>2
  <2> HIDE DEF other
  <2>4. HasDigits(sp, other)
    BY <2>3, CoordsFacts
  <2>5. \A d \in 1 .. n : Digit(sp, other, d) = Digit(sp, coords, d)
    BY <1>1, <2>1, <2>3, <2>4, HornerInjective DEF m
  <2>6. \A d \in 1 .. n : other[d] = coords[d]
    BY <2>3, <2>5, CoordsFacts
  <2>7. /\ DOMAIN coords = 1 .. n /\ coords = [d \in DOMAIN coords |-> coords[d]]
        /\ DOMAIN other = 1 .. n /\ other = [d \in DOMAIN other |-> other[d]]
    BY <2>3, CoordsFacts
  <2>8. other = coords
    BY <2>6, <2>7
  <2> QED BY <2>2, <2>8 DEF m, other
<1> QED BY <1>2, <1>3

(* There are as many coordinates as cells in a row.                        *)
LEMMA CoordsCounted ==
  ASSUME NEW sp, Kept(sp)
  PROVE  /\ {Horner(sp, coords) : coords \in Coords(sp)} = 0 .. Volume(sp) - 1
         /\ Cardinality(Coords(sp)) = Volume(sp)
<1> DEFINE row == 0 .. Volume(sp) - 1
           f == [m \in row |-> AtIndex(sp, m)]
<1>1. Volume(sp) \in Nat \ {0}
  <2>1. 0 \in 0 .. Len(sp)
    BY SpaceFacts DEF Kept
  <2> QED BY <2>1, Strides DEF Kept
<1>2. {Horner(sp, coords) : coords \in Coords(sp)} = row
  BY Numbering
<1>3. f \in Bijection(row, Coords(sp))
  <2>1. f \in [row -> Coords(sp)] /\ \A m \in row : Horner(sp, f[m]) = m
    BY Numbering
  <2>2. \A coords \in Coords(sp) : \E m \in row : f[m] = coords
    BY Numbering
  <2> HIDE DEF f, row
  <2> QED BY <2>1, <2>2 DEF Bijection, Injection, Surjection, IsInjective
<1>4. IsFiniteSet(row) /\ Cardinality(row) = Volume(sp)
  <2>1. 0 \in Int /\ Volume(sp) - 1 \in Int
    BY <1>1
  <2>2. /\ IsFiniteSet(0 .. Volume(sp) - 1)
        /\ Cardinality(0 .. Volume(sp) - 1)
             = IF 0 > Volume(sp) - 1 THEN 0 ELSE (Volume(sp) - 1) - 0 + 1
    BY <2>1, FS_Interval
  <2> QED BY <1>1, <2>2
<1>5. ExistsBijection(row, Coords(sp))
  BY <1>3, Zenon DEF ExistsBijection
<1>6. Cardinality(Coords(sp)) = Cardinality(row)
  <2> HIDE DEF row
  <2> QED BY <1>4, <1>5, FS_Bijection
<1> QED BY <1>2, <1>4, <1>6

-----------------------------------------------------------------------------
(* The invariant.                                                          *)

(* A row of an arena: where cells lie in it.                               *)
LEMMA RowFacts ==
  ASSUME NEW V \in Nat \ {0}
  PROVE  /\ \A j \in Nat \ {0} : /\ (j - 1) \div V \in Nat /\ (j - 1) % V \in 0 .. V - 1
                                 /\ j - 1 = V * ((j - 1) \div V) + ((j - 1) % V)
         /\ \A slot \in Nat, j \in Nat \ {0} :
              (j - 1) \div V = slot <=> j \in slot * V + 1 .. slot * V + V
         /\ \A slot \in Nat, i \in 0 .. V - 1 :
              (slot * V + i) \div V = slot /\ (slot * V + i) % V = i
<1>1. ASSUME NEW j \in Nat \ {0}
      PROVE  /\ (j - 1) \div V \in Nat /\ (j - 1) % V \in 0 .. V - 1
             /\ j - 1 = V * ((j - 1) \div V) + ((j - 1) % V)
  <2>1. j - 1 \in Nat
    OBVIOUS
  <2> QED BY <2>1, Quotient
<1>2. ASSUME NEW slot \in Nat, NEW i \in 0 .. V - 1
      PROVE  (slot * V + i) \div V = slot /\ (slot * V + i) % V = i
  <2>1. slot * V = V * slot
    OBVIOUS
  <2> QED BY <2>1, Division
<1>3. ASSUME NEW slot \in Nat, NEW j \in Nat \ {0}
      PROVE  (j - 1) \div V = slot <=> j \in slot * V + 1 .. slot * V + V
  <2>1. ASSUME (j - 1) \div V = slot PROVE j \in slot * V + 1 .. slot * V + V
    <3>1. /\ j - 1 = V * slot + ((j - 1) % V) /\ (j - 1) % V \in 0 .. V - 1
          /\ V * slot = slot * V /\ slot * V \in Nat
      BY <1>1, <2>1
    <3> QED BY <3>1
  <2>2. ASSUME j \in slot * V + 1 .. slot * V + V PROVE (j - 1) \div V = slot
    <3> DEFINE i == j - 1 - slot * V
    <3>1. i \in 0 .. V - 1 /\ j - 1 = slot * V + i
      BY <2>2
    <3> HIDE DEF i
    <3> QED BY <1>2, <3>1
  <2> QED BY <2>1, <2>2
<1> QED BY <1>1, <1>2, <1>3

(* The greatest of a set of numbers.                                       *)
LEMMA MaxIs ==
  ASSUME NEW S \in SUBSET Nat, NEW m \in S, \A x \in S : x <= m
  PROVE  Max(S) = m
<1>1. \A y \in S : m >= y
  OBVIOUS
<1>2. \A z \in S : (\A y \in S : z >= y) => z = m
  <2> SUFFICES ASSUME NEW z \in S, z >= m PROVE z = m
    OBVIOUS
  <2> QED OBVIOUS
<1> QED BY <1>1, <1>2, Zenon DEF Max

(* Rows lie one after the other.                                           *)
LEMMA RowsOrdered ==
  ASSUME NEW V \in Nat, NEW x \in Nat, NEW y \in Nat, x <= y
  PROVE  /\ x * V \in Nat /\ (x + 1) * V = x * V + V
         /\ (x + 1) * V \in Nat /\ (y + 1) * V \in Nat
         /\ (x + 1) * V <= (y + 1) * V
<1>1. PICK d \in Nat : y = x + d
  <2>1. y - x \in Nat /\ y = x + (y - x)
    OBVIOUS
  <2> QED BY <2>1
<1>2. (y + 1) * V = (x + 1) * V + d * V /\ d * V \in Nat
  BY <1>1
<1>3. x * V \in Nat /\ (x + 1) * V \in Nat /\ (x + 1) * V = x * V + V
  OBVIOUS
<1> QED BY <1>2, <1>3

(* FillArena specialises the cells of one row and leaves the others.       *)
LEMMA FillKeeps ==
  ASSUME Inv, NEW slot \in Slots, FillArena(slot)
  PROVE  Inv'
<1> DEFINE V == Volume(space)
           base == slot * V
           size == Max({Len(arena), base + V})
<1>1. /\ V \in Nat \ {0} /\ slot \in Nat /\ base \in Nat
      /\ Slots \subseteq Nat /\ filled \subseteq Slots /\ filled \subseteq Nat
  <2>1. 0 \in 0 .. Len(space)
    BY SpaceFacts DEF Inv
  <2>2. Volume(space) \in Nat \ {0}
    BY <2>1, Strides DEF Inv
  <2>3. Slots \subseteq Nat
    BY SpaceAssumption
  <2> QED BY <2>2, <2>3 DEF Inv, SizeInv
<1>2. /\ space' = space /\ filled' = filled \cup {slot}
      /\ arena' = [j \in 1 .. size |->
           IF j \in base + 1 .. base + V THEN [slot |-> slot, at |-> MakeAt(space, j - 1 - base)]
           ELSE IF j <= Len(arena) THEN arena[j] ELSE Null]
  BY DEF FillArena
<1>3. Compiles(space')
  BY <1>2 DEF Inv
<1>4. /\ Len(arena) \in Nat /\ DOMAIN arena = 1 .. Len(arena)
      /\ filled # {} => /\ Max(filled) \in filled /\ \A t \in filled : t <= Max(filled)
                        /\ Len(arena) = (Max(filled) + 1) * V
      /\ filled = {} => Len(arena) = 0
  <2>1. filled # {} => Max(filled) \in Nat
    BY <1>1 DEF Inv, SizeInv
  <2> QED BY <1>1, <2>1 DEF Inv, SizeInv
<1> HIDE DEF V, size, base
<1>5. \A x, y \in Nat : x <= y => Max({x, y}) = y /\ Max({y, x}) = y
  <2> SUFFICES ASSUME NEW x \in Nat, NEW y \in Nat, x <= y
               PROVE  Max({x, y}) = y /\ {x, y} = {y, x}
    OBVIOUS
  <2>1. {x, y} \in SUBSET Nat /\ y \in {x, y} /\ \A z \in {x, y} : z <= y
    OBVIOUS
  <2> QED BY <2>1, MaxIs
<1>6. base + V = (slot + 1) * V
  BY <1>1 DEF base
<1>7. PICK top \in filled' : /\ \A t \in filled' : t <= top
                             /\ size = (top + 1) * V
                             /\ Len(arena) <= size
  <2>1. CASE filled = {}
    <3>1. size = base + V
      BY <1>1, <1>4, <1>5, <2>1 DEF size
    <3> QED BY <1>1, <1>2, <1>4, <1>6, <2>1, <3>1
  <2>2. CASE filled # {} /\ slot <= Max(filled)
    <3>1. Max(filled) \in Nat /\ Len(arena) = (Max(filled) + 1) * V
      BY <1>1, <1>4, <2>2
    <3>2. (slot + 1) * V <= (Max(filled) + 1) * V
      BY <1>1, <2>2, <3>1, RowsOrdered
    <3>3. size = Len(arena)
      BY <1>1, <1>4, <1>5, <1>6, <3>1, <3>2 DEF size
    <3>4. Max(filled) \in filled' /\ \A t \in filled' : t <= Max(filled)
      BY <1>2, <1>4, <2>2
    <3> QED BY <1>4, <3>1, <3>3, <3>4
  <2>3. CASE filled # {} /\ slot > Max(filled)
    <3>1. Max(filled) \in Nat /\ Len(arena) = (Max(filled) + 1) * V
      BY <1>1, <1>4, <2>3
    <3>2. Max(filled) <= slot
      BY <1>1, <2>3, <3>1
    <3>3. (Max(filled) + 1) * V <= (slot + 1) * V /\ (slot + 1) * V \in Nat
      BY <1>1, <3>1, <3>2, RowsOrdered
    <3>4. size = base + V
      <4>1. Len(arena) \in Nat /\ base + V \in Nat /\ Len(arena) <= base + V
        BY <1>4, <1>6, <3>1, <3>3
      <4> QED BY <1>5, <4>1 DEF size
    <3>5. slot \in filled' /\ \A t \in filled' : t <= slot
      BY <1>1, <1>2, <1>4, <2>3, <3>1
    <3> QED BY <1>6, <3>1, <3>3, <3>4, <3>5
  <2>4. filled # {} => Max(filled) \in Nat
    BY <1>1, <1>4
  <2>5. filled = {} \/ (filled # {} /\ slot <= Max(filled)) \/ (filled # {} /\ slot > Max(filled))
    <3> DEFINE m == Max(filled)
    <3>1. m \in Nat => slot <= m \/ slot > m
      BY <1>1
    <3> HIDE DEF m
    <3>2. filled # {} => slot <= m \/ slot > m
      BY <2>4, <3>1 DEF m
    <3> QED BY <3>2 DEF m
  <2> QED BY <2>1, <2>2, <2>3, <2>5
<1>8. /\ DOMAIN arena' = 1 .. size /\ size \in Nat /\ Len(arena') = size
      /\ base + V <= size
  <2>1. top \in Nat /\ slot <= top /\ slot \in filled'
    BY <1>1, <1>2, <1>7
  <2>2. size \in Nat /\ (slot + 1) * V <= (top + 1) * V
    BY <1>1, <1>7, <2>1
  <2>3. arena' = [j \in 1 .. size |-> arena'[j]]
    BY <1>2
  <2> QED BY <1>6, <1>7, <2>2, <2>3
<1>9. SizeInv'
  <2>1. filled' \in SUBSET Nat /\ filled' \subseteq Slots /\ filled' # {}
    BY <1>1, <1>2
  <2>2. Max(filled') = top
    BY <1>7, <2>1, MaxIs
  <2>3. Volume(space') = V
    BY <1>2 DEF V
  <2> QED BY <1>7, <1>8, <2>1, <2>2, <2>3 DEF SizeInv
<1>10. CellsInv'
  <2> SUFFICES ASSUME NEW j \in DOMAIN arena', NEW s, s = (j - 1) \div V
               PROVE  arena'[j] = IF s \in filled'
                                  THEN [slot |-> s, at |-> MakeAt(space, (j - 1) % V)]
                                  ELSE Null
    BY <1>2 DEF CellsInv, V
  <2>1. j \in 1 .. size /\ j \in Nat \ {0}
    BY <1>8
  <2>2. /\ s \in Nat /\ (j - 1) % V \in 0 .. V - 1 /\ j - 1 = V * s + ((j - 1) % V)
        /\ \A t \in Nat : s = t <=> j \in t * V + 1 .. t * V + V
    <3>1. /\ (j - 1) \div V \in Nat /\ (j - 1) % V \in 0 .. V - 1
          /\ j - 1 = V * ((j - 1) \div V) + ((j - 1) % V)
          /\ \A t \in Nat : (j - 1) \div V = t <=> j \in t * V + 1 .. t * V + V
      <4> V \in Nat \ {0} /\ j \in Nat \ {0}
        BY <1>1, <2>1
      <4> HIDE DEF V
      <4> QED BY RowFacts
    <3> QED BY <3>1, Zenon
  <2>3. s \in Nat /\ j \in s * V + 1 .. s * V + V
    BY <2>2
  <2>4. s = slot <=> j \in base + 1 .. base + V
    BY <1>1, <2>2 DEF base
  <2>5. CASE s = slot
    <3>1. V * s = base
      BY <1>1, <2>5 DEF base
    <3>2. j - 1 - base = (j - 1) % V
      BY <1>1, <2>1, <2>2, <3>1
    <3> QED BY <1>2, <2>1, <2>4, <2>5, <3>2
  <2>6. CASE s # slot
    <3>1. arena'[j] = IF j <= Len(arena) THEN arena[j] ELSE Null
      BY <1>2, <2>1, <2>4, <2>6
    <3>2. s \in filled' <=> s \in filled
      BY <1>2, <2>6
    <3>3. CASE j <= Len(arena)
      <4>1. j \in DOMAIN arena
        BY <1>4, <2>1, <3>3
      <4>2. arena[j] = IF s \in filled
                       THEN [slot |-> s, at |-> MakeAt(space, (j - 1) % V)] ELSE Null
        BY <4>1 DEF Inv, CellsInv, V
      <4> QED BY <3>1, <3>2, <3>3, <4>2
    <3>4. CASE ~(j <= Len(arena))
      <4>1. s \notin filled
        <5> SUFFICES ASSUME s \in filled PROVE FALSE
          OBVIOUS
        <5>1. /\ Max(filled) \in Nat /\ s <= Max(filled)
              /\ Len(arena) = (Max(filled) + 1) * V
          BY <1>1, <1>4
        <5> DEFINE m == Max(filled)
        <5>2. (s + 1) * V <= (m + 1) * V /\ (s + 1) * V = s * V + V
          <6>1. m \in Nat /\ s <= m
            BY <5>1
          <6> HIDE DEF m
          <6> QED BY <1>1, <2>3, <6>1, RowsOrdered
        <5>3. j <= s * V + V /\ s * V + V \in Nat
          <6>1. s * V \in Nat
            BY <1>1, <2>3, RowsOrdered
          <6> QED BY <1>1, <2>3, <6>1
        <5> QED BY <1>4, <2>1, <3>4, <5>2, <5>3
      <4> QED BY <3>1, <3>2, <3>4, <4>1
    <3> QED BY <3>3, <3>4
  <2> QED BY <2>5, <2>6
<1> QED BY <1>3, <1>9, <1>10 DEF Inv

(* The cells are those of the rows that were filled, for the model and the *)
(* coordinates of their place, and the arena ends with the last such row.  *)
THEOREM SpaceInvariant == Spec => []Inv
<1>1. Init => Inv
  <2> SUFFICES ASSUME Init PROVE Inv
    OBVIOUS
  <2>1. PICK m \in 0 .. MaxDims : space \in [1 .. m -> {axis \in Axes : AxisDensityCheck(axis)}]
    BY DEF Init, SeqOf
  <2>2. m \in Nat
    BY SpaceAssumption
  <2>3. space \in Seq(Axes) /\ \A d \in DOMAIN space : AxisDensityCheck(space[d])
    <3>1. space \in [1 .. m -> Axes]
      BY <2>1
    <3> QED BY <2>1, <2>2, <3>1
  <2>4. DOMAIN << >> = 1 .. Len(<< >>) /\ Len(<< >>) = 0 /\ \A j : j \notin 1 .. 0
    OBVIOUS
  <2>5. SizeInv
    BY <2>4 DEF Init, SizeInv
  <2>6. CellsInv
    BY <2>4 DEF Init, CellsInv
  <2> QED BY <2>3, <2>5, <2>6 DEF Inv, Compiles
<1>2. Inv /\ [Next]_vars => Inv'
  <2> SUFFICES ASSUME Inv, [Next]_vars PROVE Inv'
    OBVIOUS
  <2>1. CASE ClearArena
    <3>1. /\ DOMAIN << >> = 1 .. Len(<< >>) /\ Len(<< >>) = 0 /\ \A j : j \notin 1 .. 0
          /\ arena' = << >> /\ filled' = {} /\ space' = space
      BY <2>1 DEF ClearArena
    <3> QED BY <3>1 DEF Inv, SizeInv, CellsInv
  <2>2. ASSUME NEW slot \in Slots, FillArena(slot) PROVE Inv'
    BY <2>2, FillKeeps
  <2>3. CASE UNCHANGED vars
    BY <2>3 DEF vars, Inv, SizeInv, CellsInv
  <2> QED BY <2>1, <2>2, <2>3 DEF Next
<1> QED BY <1>1, <1>2, PTL DEF Spec

(* The arena is whole rows up to the last that was filled, and a cell is   *)
(* empty or of a model that was filled.                                    *)
THEOREM SpaceTypes == Spec => []TypeOK
<1>1. Inv => TypeOK
  <2> SUFFICES ASSUME Inv PROVE TypeOK
    OBVIOUS
  <2>1. ASSUME NEW j \in DOMAIN arena PROVE arena[j] = Null \/ arena[j].slot \in filled
    <3> DEFINE slot == (j - 1) \div Volume(space)
    <3>1. arena[j] = IF slot \in filled
                     THEN [slot |-> slot, at |-> MakeAt(space, (j - 1) % Volume(space))]
                     ELSE Null
      BY DEF Inv, CellsInv
    <3> HIDE DEF slot
    <3> QED BY <3>1
  <2> QED BY <2>1 DEF TypeOK, Inv, SizeInv, Compiles
<1> QED BY <1>1, SpaceInvariant, PTL

(* ComputeOffset (capability_space.hpp) numbers models and coordinates     *)
(* densely: a model's row is exactly the offsets of its coordinates, each  *)
(* taken once, in any space that compiles and whose axes list all their    *)
(* enumerators in Values; an axis that lists none is assumed to keep the   *)
(* contract, as the code assumes it.                                       *)
THEOREM RowsDense == Spec => []OffsetsDense
<1>1. Inv => OffsetsDense
  <2> SUFFICES ASSUME Inv, ContractKept, NEW slot \in Slots
               PROVE  /\ {ComputeOffset(space, slot, coords) : coords \in Coords(space)}
                           = slot * Volume(space) .. slot * Volume(space) + Volume(space) - 1
                      /\ Cardinality(Coords(space)) = Volume(space)
    BY DEF OffsetsDense
  <2> DEFINE V == Volume(space)
             R == {Horner(space, coords) : coords \in Coords(space)}
             base == slot * V
  <2>1. Kept(space)
    <3>1. ASSUME NEW d \in DOMAIN space PROVE Contiguous(space[d])
      <4>1. space[d] \in Range(space) /\ space[d] \in Axes /\ AxisDensityCheck(space[d])
        BY DEF Inv, Compiles, Range
      <4>2. Listed(space[d]) \/ Contiguous(space[d])
        BY <4>1 DEF ContractKept
      <4> QED BY <4>1, <4>2, ListedContiguous
    <3> QED BY <3>1 DEF Inv, Kept
  <2>2. R = 0 .. V - 1 /\ Cardinality(Coords(space)) = V
    BY <2>1, CoordsCounted
  <2>3. V \in Nat \ {0} /\ slot \in Nat
    <3>1. 0 \in 0 .. Len(space)
      BY SpaceFacts DEF Inv
    <3> QED BY <3>1, Strides, SpaceAssumption DEF Inv
  <2>4. {ComputeOffset(space, slot, coords) : coords \in Coords(space)} = {base + h : h \in R}
    BY DEF ComputeOffset
  <2>5. {base + h : h \in 0 .. V - 1} = base .. base + V - 1
    <3>1. base \in Nat
      BY <2>3
    <3> HIDE DEF V, base
    <3>2. ASSUME NEW x \in base .. base + V - 1 PROVE x - base \in 0 .. V - 1 /\ x = base + (x - base)
      BY <2>3, <3>1
    <3>3. ASSUME NEW h \in 0 .. V - 1 PROVE base + h \in base .. base + V - 1
      BY <2>3, <3>1
    <3> QED BY <3>2, <3>3
  <2> HIDE DEF R
  <2> QED BY <2>2, <2>4, <2>5
<1> QED BY <1>1, SpaceInvariant, PTL

(* A look-up of coordinates below Count reaches the capability specialised *)
(* for exactly the model and the coordinates it names, in any space of     *)
(* enums without a ToDense that compiles, with or without Values: there    *)
(* FillArena and ComputeOffset are inverse to each other.                  *)
THEOREM LookupsSpecialised == Spec => []PlainSpecialised
<1>1. Inv => PlainSpecialised
  <2> SUFFICES ASSUME Inv, \A axis \in Range(space) : axis.toDense = Null,
                      NEW slot \in Slots, NEW coords \in Coords(space),
                      \A d \in DOMAIN space : coords[d] < Count(space[d]),
                      NEW offset, offset = ComputeOffset(space, slot, coords)
               PROVE  (IF offset < Len(arena) THEN arena[offset + 1] ELSE Null)
                        = IF slot \in filled THEN [slot |-> slot, at |-> coords] ELSE Null
    BY DEF PlainSpecialised, Reached
  <2> DEFINE V == Volume(space)
             m == Horner(space, coords)
             at == MakeAt(space, m)
  <2>1. V \in Nat \ {0} /\ slot \in Nat /\ filled \subseteq Nat
    <3>1. 0 \in 0 .. Len(space)
      BY SpaceFacts DEF Inv
    <3> QED BY <3>1, Strides, SpaceAssumption DEF Inv, SizeInv
  <2>2. /\ DOMAIN space = 1 .. Len(space) /\ DOMAIN coords = 1 .. Len(space)
        /\ coords = [d \in DOMAIN coords |-> coords[d]]
        /\ \A d \in 1 .. Len(space) : /\ coords[d] \in Nat /\ Count(space[d]) \in Nat
                                      /\ coords[d] \in 0 .. Count(space[d]) - 1
    <3>1. /\ DOMAIN space = 1 .. Len(space) /\ DOMAIN coords = 1 .. Len(space)
          /\ coords = [d \in DOMAIN coords |-> coords[d]]
      BY SpaceFacts, CoordsAre DEF Inv
    <3>2. ASSUME NEW d \in 1 .. Len(space)
          PROVE  /\ coords[d] \in Nat /\ Count(space[d]) \in Nat
                 /\ coords[d] \in 0 .. Count(space[d]) - 1
      <4>1. /\ coords[d] \in space[d].enumerators /\ space[d] \in Axes
            /\ Count(space[d]) \in Nat /\ coords[d] < Count(space[d])
        BY <3>1, SpaceFacts, CoordsAre DEF Inv
      <4>2. coords[d] \in Nat
        BY <4>1, SpaceAssumption
      <4> QED BY <4>1, <4>2
    <3> QED BY <3>1, <3>2
  <2>3. \A any : \A d \in 1 .. Len(space) :
          space[d].toDense = Null /\ Digit(space, any, d) = any[d]
    BY <2>2 DEF Range, Digit, AxisToDense
  <2>4. HasDigits(space, coords)
    BY <2>2, <2>3 DEF HasDigits
  <2>5. m \in 0 .. V - 1
    BY <2>4, HornerBound DEF Inv
  <2>6. at = coords
    <3>1. /\ DOMAIN at = 1 .. Len(space) /\ at = [d \in DOMAIN at |-> at[d]]
          /\ \A d \in 1 .. Len(space) : at[d] = GetCoordAtIndex(space, d, m)
      BY <2>2 DEF MakeAt
    <3>2. \A d \in 1 .. Len(space) : Digit(space, at, d) = GetCoordAtIndex(space, d, m)
      BY <2>3, <3>1
    <3> HIDE DEF m, V, at
    <3>3. HasDigits(space, at) /\ Horner(space, at) = m
      BY <2>5, <3>2, HornerOfDigits DEF Inv, V
    <3>4. \A d \in 1 .. Len(space) : Digit(space, at, d) = Digit(space, coords, d)
      BY <2>4, <3>3, HornerInjective DEF Inv, m
    <3>5. \A d \in 1 .. Len(space) : at[d] = coords[d]
      BY <2>3, <3>4
    <3> QED BY <2>2, <3>1, <3>5
  <2>7. offset = slot * V + m
    BY DEF ComputeOffset
  <2> HIDE DEF V, m, at
  <2>8. /\ offset \in Nat /\ offset \div V = slot /\ offset % V = m
        /\ offset < (slot + 1) * V
    <3>1. /\ slot * V \in Nat /\ m \in Nat /\ m < V /\ (slot + 1) * V = slot * V + V
      BY <2>1, <2>5
    <3> QED BY <2>1, <2>5, <2>7, <3>1, RowFacts
  <2>9. CASE offset < Len(arena)
    <3>1. offset + 1 \in DOMAIN arena /\ (offset + 1) - 1 = offset
      <4>1. DOMAIN arena = 1 .. Len(arena) /\ Len(arena) \in Nat
        BY DEF Inv, SizeInv
      <4> QED BY <2>8, <2>9, <4>1
    <3>2. arena[offset + 1] = IF slot \in filled
                              THEN [slot |-> slot, at |-> at] ELSE Null
      BY <2>8, <3>1 DEF Inv, CellsInv, V, at
    <3> QED BY <2>6, <2>9, <3>2
  <2>10. CASE ~(offset < Len(arena))
    <3>1. slot \notin filled
      <4> SUFFICES ASSUME slot \in filled PROVE FALSE
        OBVIOUS
      <4>1. /\ Max(filled) \in Nat /\ slot <= Max(filled)
            /\ Len(arena) = (Max(filled) + 1) * V
        BY <2>1 DEF Inv, SizeInv, V
      <4>2. /\ (slot + 1) * V <= (Max(filled) + 1) * V
            /\ (slot + 1) * V \in Nat /\ (Max(filled) + 1) * V \in Nat
        BY <2>1, <4>1, RowsOrdered
      <4> QED BY <2>8, <2>10, <4>1, <4>2
    <3> QED BY <2>10, <3>1
  <2> QED BY <2>9, <2>10
<1> QED BY <1>1, SpaceInvariant, PTL
=============================================================================
