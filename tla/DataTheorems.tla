---------------------------- MODULE DataTheorems ----------------------------
(***************************************************************************)
(* Facts that the proofs share: induction over the natural numbers,        *)
(* recursion over an interval, recursion over its subsets, the form in     *)
(* which sequences are folded, what appending does to a sequence, powers   *)
(* of two, and walks over intrusive chains.                                *)
(***************************************************************************)
EXTENDS NodeLink, Integers, SequencesExt, FiniteSetTheorems, TLAPS

(* Induction over the natural numbers, for a set: were n not in S, the map *)
(* i to i + 1 would send the numbers of S up to n into themselves without  *)
(* 0, which are fewer.                                                     *)
LEMMA NatSetInduction ==
  ASSUME NEW S, 0 \in S, \A n \in Nat : n \in S => n + 1 \in S
  PROVE  Nat \subseteq S
<1> SUFFICES ASSUME NEW n \in Nat, n \notin S PROVE FALSE
  OBVIOUS
<1> DEFINE A == {i \in 0 .. n : i \in S}
           B == A \ {0}
           f == [i \in A |-> i + 1]
<1>1. A \in SUBSET (0 .. n) /\ 0 \in A
  OBVIOUS
<1>2. IsFiniteSet(0 .. n)
  BY FS_Interval, 0 \in Int, n \in Int
<1>3. f \in [A -> B]
  <2>1. \A i \in A : i + 1 \in B
    OBVIOUS
  <2> QED BY <2>1
<1>4. \A i, j \in A : f[i] = f[j] => i = j
  OBVIOUS
<1>5. f \in Injection(A, B)
  BY <1>3, <1>4, Zenon DEF Injection, IsInjective
<1> HIDE DEF A, f
<1>6. IsFiniteSet(A)
  BY <1>1, <1>2, FS_Subset
<1>7. Cardinality(A) \in Nat
  BY <1>6, FS_CardinalityType
<1>8. IsFiniteSet(B) /\ Cardinality(B) = Cardinality(A) - 1
  BY <1>1, <1>6, FS_RemoveElement
<1> HIDE DEF B
<1>9. Cardinality(A) <= Cardinality(B)
  BY <1>5, <1>8, FS_Injection
<1> QED BY <1>7, <1>8, <1>9

(* Every set of natural numbers that is not empty has a least one.         *)
LEMMA LeastExists ==
  ASSUME NEW S \in SUBSET Nat, S # {}
  PROVE  \E m \in S : \A i \in 0 .. m - 1 : i \notin S
<1> SUFFICES ASSUME \A m \in S : \E i \in 0 .. m - 1 : i \in S PROVE FALSE
  OBVIOUS
<1> DEFINE T == {n \in Nat : \A i \in 0 .. n : i \notin S}
<1>1. 0 \in T
  <2>1. 0 \notin S
    OBVIOUS
  <2> QED BY <2>1
<1>2. ASSUME NEW n \in Nat, n \in T PROVE n + 1 \in T
  <2>1. \A i \in 0 .. n : i \notin S
    BY <1>2
  <2>2. n + 1 \notin S
    BY <2>1
  <2>3. \A i \in 0 .. n + 1 : i \in 0 .. n \/ i = n + 1
    OBVIOUS
  <2> QED BY <2>1, <2>2, <2>3
<1>3. Nat \subseteq T
  <2> HIDE DEF T
  <2> QED BY <1>1, <1>2, NatSetInduction
<1>4. \A n \in Nat : n \in 0 .. n
  OBVIOUS
<1> QED BY <1>3, <1>4

(* There are n numbers from 1 to n.                                        *)
LEMMA IntervalSize ==
  ASSUME NEW n \in Nat
  PROVE  IsFiniteSet(1 .. n) /\ Cardinality(1 .. n) = n
<1>1. 1 \in Int /\ n \in Int
  OBVIOUS
<1>2. /\ IsFiniteSet(1 .. n)
      /\ Cardinality(1 .. n) = IF 1 > n THEN 0 ELSE n - 1 + 1
  BY <1>1, FS_Interval
<1> QED BY <1>2

(* g lists x, f[x], f[f[x]] and so on, as far as bound.                    *)
Iterates(g, f, x, bound) ==
  \A k \in 1 .. bound : g[k] = IF k = 1 THEN x ELSE f[g[k - 1]]

(* A function can be defined by recursion over an interval.                *)
LEMMA RecursionExists ==
  ASSUME NEW X, NEW f \in [X -> X], NEW x \in X, NEW bound \in Nat
  PROVE  \E g \in [1 .. bound -> X] : Iterates(g, f, x, bound)
<1> DEFINE Rec(g, b) == Iterates(g, f, x, b)
           S == {b \in Nat : \E g \in [1 .. b -> X] : Rec(g, b)}
<1>1. 0 \in S
  <2>1. [k \in 1 .. 0 |-> x] \in [1 .. 0 -> X] /\ Rec([k \in 1 .. 0 |-> x], 0)
    BY DEF Iterates
  <2> HIDE DEF Rec
  <2> QED BY <2>1
<1>2. ASSUME NEW b \in Nat, b \in S
      PROVE  b + 1 \in S
  <2>1. PICK g \in [1 .. b -> X] : Rec(g, b)
    BY <1>2
  <2> DEFINE h == [k \in 1 .. b + 1 |-> IF k <= b THEN g[k]
                     ELSE IF k = 1 THEN x ELSE f[g[k - 1]]]
  <2>2. h \in [1 .. b + 1 -> X]
    OBVIOUS
  <2>3. ASSUME NEW k \in 1 .. b + 1
        PROVE  h[k] = IF k = 1 THEN x ELSE f[h[k - 1]]
    BY <2>1 DEF Iterates
  <2> HIDE DEF h
  <2>4. Rec(h, b + 1)
    BY <2>3 DEF Iterates
  <2> HIDE DEF Rec
  <2> QED BY <2>2, <2>4
<1>3. bound \in S
  BY <1>1, <1>2, NatSetInduction
<1> QED BY <1>3

(* Two listings of x, f[x], f[f[x]] and so on agree as far as both go.     *)
LEMMA IteratesOnce ==
  ASSUME NEW X, NEW f \in [X -> X], NEW x \in X, NEW b \in Nat, NEW c \in Nat,
         NEW g, NEW h, Iterates(g, f, x, b), Iterates(h, f, x, c),
         NEW k \in Nat, k + 1 <= b, k + 1 <= c
  PROVE  g[k + 1] = h[k + 1]
<1> DEFINE S == {i \in Nat : i + 1 <= b /\ i + 1 <= c => g[i + 1] = h[i + 1]}
<1>1. 0 \in S
  BY DEF Iterates
<1>2. ASSUME NEW i \in Nat, i \in S PROVE i + 1 \in S
  <2>1. SUFFICES ASSUME i + 2 <= b, i + 2 <= c PROVE g[i + 2] = h[i + 2]
    OBVIOUS
  <2>2. g[i + 1] = h[i + 1]
    BY <1>2, <2>1
  <2>3. i + 2 \in 1 .. b /\ i + 2 \in 1 .. c /\ (i + 2) - 1 = i + 1 /\ i + 2 # 1
    BY <2>1
  <2>4. g[i + 2] = f[g[i + 1]] /\ h[i + 2] = f[h[i + 1]]
    BY <2>3 DEF Iterates
  <2> QED BY <2>2, <2>4
<1>3. Nat \subseteq S
  <2> HIDE DEF S
  <2> QED BY <1>1, <1>2, NatSetInduction
<1> QED BY <1>3

(* o is x, f[x], f[f[x]] and so on, without end.                           *)
Sequel(o, f, x) == o[0] = x /\ \A i \in Nat : o[i + 1] = f[o[i]]

(* A function on the natural numbers can be defined by recursion: the      *)
(* listings of RecursionExists, one for each number, put together.         *)
LEMMA NatRecursion ==
  ASSUME NEW X, NEW f \in [X -> X], NEW x \in X
  PROVE  \E o \in [Nat -> X] : Sequel(o, f, x)
<1> DEFINE Good(g, b) == Iterates(g, f, x, b)
           part(b) == CHOOSE g \in [1 .. b -> X] : Good(g, b)
           o == [i \in Nat |-> part(i + 1)[i + 1]]
<1>1. ASSUME NEW b \in Nat
      PROVE  part(b) \in [1 .. b -> X] /\ Good(part(b), b)
  <2>1. \E g \in [1 .. b -> X] : Good(g, b)
    BY RecursionExists
  <2> HIDE DEF Good
  <2> QED BY <2>1
<1> HIDE DEF part
<1>2. o \in [Nat -> X]
  <2>1. ASSUME NEW i \in Nat PROVE part(i + 1)[i + 1] \in X
    <3>1. i + 1 \in Nat /\ i + 1 \in 1 .. i + 1
      OBVIOUS
    <3>2. part(i + 1) \in [1 .. i + 1 -> X]
      BY <1>1, <3>1
    <3> QED BY <3>1, <3>2
  <2> QED BY <2>1
<1>3. o[0] = x
  <2>1. 1 \in Nat /\ 0 + 1 = 1 /\ 1 \in 1 .. 1
    OBVIOUS
  <2>2. part(1)[1] = x
    BY <1>1, <2>1 DEF Iterates
  <2> QED BY <2>1, <2>2
<1>4. ASSUME NEW i \in Nat PROVE o[i + 1] = f[o[i]]
  <2>1. i + 2 \in Nat /\ i + 1 \in Nat /\ (i + 1) + 1 = i + 2 /\ (i + 2) - 1 = i + 1
        /\ i + 2 \in 1 .. i + 2 /\ i + 2 # 1 /\ i + 1 <= i + 2 /\ i + 1 <= i + 1
    OBVIOUS
  <2>2. Good(part(i + 2), i + 2) /\ Good(part(i + 1), i + 1)
    BY <1>1, <2>1
  <2>3. part(i + 2)[i + 1] = part(i + 1)[i + 1]
    BY <2>1, <2>2, IteratesOnce
  <2>4. part(i + 2)[i + 2] = f[part(i + 2)[i + 1]]
    BY <2>1, <2>2 DEF Iterates
  <2>5. o[i] = part(i + 1)[i + 1] /\ o[i + 1] = part(i + 2)[i + 2]
    BY <2>1
  <2> QED BY <2>3, <2>4, <2>5
<1> HIDE DEF o
<1> QED BY <1>2, <1>3, <1>4 DEF Sequel

-----------------------------------------------------------------------------
(* g folds the subsets of 1 .. n, the greatest element last.               *)
Folds(g, f, base, n) ==
  \A s \in SUBSET (1 .. n) :
    g[s] = IF s = {} THEN base ELSE f[<<g[s \ {Max(s)}], Max(s)>>]

(* The greatest number of an interval, or of a set within it.              *)
LEMMA GreatestOf ==
  ASSUME NEW n \in Nat, NEW s \in SUBSET (1 .. n), n \in s
  PROVE  Max(s) = n
<1>1. n \in s /\ \A y \in s : n >= y
  OBVIOUS
<1>2. \A x \in s : (\A y \in s : x >= y) => x = n
  OBVIOUS
<1> QED BY <1>1, <1>2, Zenon DEF Max

(* What is left of an interval without its greatest number.                *)
LEMMA IntervalRest ==
  ASSUME NEW n \in Nat \ {0}
  PROVE  /\ Max(1 .. n) = n /\ (1 .. n) \ {n} = 1 .. n - 1
         /\ 1 .. n # {} /\ 1 .. n - 1 \in SUBSET (1 .. n)
<1>1. Max(1 .. n) = n
  BY GreatestOf
<1> QED BY <1>1

(* Every set of an interval has a greatest number.                         *)
LEMMA GreatestExists ==
  ASSUME NEW n \in Nat, NEW s \in SUBSET (1 .. n), s # {}
  PROVE  Max(s) \in s
<1> DEFINE S == {k \in Nat : \A t \in SUBSET (1 .. k) : t # {} => Max(t) \in t}
<1>1. 0 \in S
  <2>1. \A t \in SUBSET (1 .. 0) : t = {}
    OBVIOUS
  <2> QED BY <2>1
<1>2. ASSUME NEW k \in Nat, k \in S PROVE k + 1 \in S
  <2>1. ASSUME NEW t \in SUBSET (1 .. k + 1), t # {} PROVE Max(t) \in t
    <3>1. CASE k + 1 \in t
      BY <3>1, GreatestOf
    <3>2. CASE k + 1 \notin t
      <4>1. t \in SUBSET (1 .. k)
        BY <3>2
      <4> QED BY <1>2, <2>1, <4>1
    <3> QED BY <3>1, <3>2
  <2> QED BY <2>1
<1>3. n \in S
  <2> HIDE DEF S
  <2> QED BY <1>1, <1>2, NatSetInduction
<1> QED BY <1>3

(* The fold of a function exists.                                          *)
LEMMA FoldExists ==
  ASSUME NEW X, NEW base \in X, NEW n \in Nat, NEW f \in [X \X (1 .. n) -> X]
  PROVE  \E g \in [SUBSET (1 .. n) -> X] : Folds(g, f, base, n)
<1> DEFINE Has(k) == \E g \in [SUBSET (1 .. k) -> X] : Folds(g, f, base, k)
           S == {k \in Nat : k <= n => Has(k)}
<1>1. 0 \in S
  <2> DEFINE g == [s \in SUBSET (1 .. 0) |-> base]
  <2>1. g \in [SUBSET (1 .. 0) -> X] /\ \A s \in SUBSET (1 .. 0) : s = {}
    OBVIOUS
  <2>2. Folds(g, f, base, 0)
    BY <2>1 DEF Folds
  <2>3. Has(0)
    BY <2>1, <2>2
  <2> HIDE DEF Has
  <2> QED BY <2>3
<1>2. ASSUME NEW k \in Nat, k \in S PROVE k + 1 \in S
  <2> SUFFICES ASSUME k + 1 <= n PROVE Has(k + 1)
    <3> HIDE DEF Has
    <3> QED OBVIOUS
  <2>0. Has(k)
    <3> HIDE DEF Has
    <3> QED BY <1>2
  <2>1. PICK g \in [SUBSET (1 .. k) -> X] : Folds(g, f, base, k)
    BY <2>0
  <2> DEFINE h == [s \in SUBSET (1 .. k + 1) |->
                     IF k + 1 \in s THEN f[<<g[s \ {k + 1}], k + 1>>] ELSE g[s]]
  <2>2. ASSUME NEW s \in SUBSET (1 .. k + 1), k + 1 \in s
        PROVE  /\ Max(s) = k + 1 /\ s \ {k + 1} \in SUBSET (1 .. k)
               /\ h[s] = f[<<g[s \ {k + 1}], k + 1>>] /\ h[s] \in X
               /\ h[s \ {k + 1}] = g[s \ {k + 1}]
    <3>1. Max(s) = k + 1
      BY <2>2, GreatestOf
    <3>2. s \ {k + 1} \in SUBSET (1 .. k) /\ s \ {k + 1} \in SUBSET (1 .. k + 1)
      OBVIOUS
    <3>3. g[s \ {k + 1}] \in X
      BY <3>2
    <3> QED BY <2>2, <3>1, <3>2, <3>3
  <2>3. ASSUME NEW s \in SUBSET (1 .. k + 1), k + 1 \notin s
        PROVE  /\ s \in SUBSET (1 .. k) /\ h[s] = g[s] /\ h[s] \in X
               /\ h[s \ {Max(s)}] = g[s \ {Max(s)}]
    <3>1. s \in SUBSET (1 .. k)
      BY <2>3
    <3>2. /\ s \ {Max(s)} \in SUBSET (1 .. k + 1) /\ k + 1 \notin s \ {Max(s)}
      BY <2>3
    <3> QED BY <2>3, <3>1, <3>2
  <2>4. h \in [SUBSET (1 .. k + 1) -> X]
    BY <2>2, <2>3
  <2>5. ASSUME NEW s \in SUBSET (1 .. k + 1)
        PROVE  h[s] = IF s = {} THEN base ELSE f[<<h[s \ {Max(s)}], Max(s)>>]
    <3>1. CASE k + 1 \in s
      <4> HIDE DEF h
      <4> QED BY <2>2, <3>1
    <3>2. CASE k + 1 \notin s
      <4> HIDE DEF h
      <4> QED BY <2>1, <2>3, <3>2 DEF Folds
    <3> QED BY <3>1, <3>2
  <2> HIDE DEF h
  <2>6. Folds(h, f, base, k + 1)
    BY <2>5 DEF Folds
  <2> QED BY <2>4, <2>6
<1>3. n \in S
  <2> HIDE DEF S
  <2> QED BY <1>1, <1>2, NatSetInduction
<1>4. Has(n)
  <2> HIDE DEF Has
  <2> QED BY <1>3
<1> QED BY <1>4

-----------------------------------------------------------------------------
(* Appending an element adds it to what is in the sequence.                *)
LEMMA AppendRange ==
  ASSUME NEW N, NEW s \in Seq(N), NEW e \in N
  PROVE  Append(s, e) \in Seq(N) /\ Range(Append(s, e)) = Range(s) \cup {e}
<1>1. /\ Append(s, e) \in Seq(N) /\ Len(Append(s, e)) = Len(s) + 1 /\ Len(s) \in Nat
      /\ DOMAIN s = 1 .. Len(s) /\ DOMAIN Append(s, e) = 1 .. Len(s) + 1
      /\ \A i \in 1 .. Len(s) : Append(s, e)[i] = s[i]
      /\ Append(s, e)[Len(s) + 1] = e
  OBVIOUS
<1>2. \A i : i \in 1 .. Len(s) + 1 <=> i \in 1 .. Len(s) \/ i = Len(s) + 1
  BY <1>1
<1> QED BY <1>1, <1>2 DEF Range

(* What appending one sequence to another gives, index by index.           *)
LEMMA ConcatFacts ==
  ASSUME NEW N, NEW s \in Seq(N), NEW t \in Seq(N)
  PROVE  /\ s \o t \in Seq(N)
         /\ Len(s \o t) = Len(s) + Len(t)
         /\ \A i \in 1 .. Len(s) + Len(t) :
              (s \o t)[i] = IF i <= Len(s) THEN s[i] ELSE t[i - Len(s)]
OBVIOUS

(* What appending one sequence to another gives, as a set.                 *)
LEMMA ConcatRange ==
  ASSUME NEW N, NEW s \in Seq(N), NEW t \in Seq(N)
  PROVE  Range(s \o t) = Range(s) \cup Range(t)
<1>1. /\ DOMAIN s = 1 .. Len(s) /\ DOMAIN t = 1 .. Len(t)
      /\ DOMAIN (s \o t) = 1 .. Len(s) + Len(t)
      /\ Len(s) \in Nat /\ Len(t) \in Nat
  BY ConcatFacts
<1>2. \A i \in DOMAIN s : i \in DOMAIN (s \o t) /\ (s \o t)[i] = s[i]
  BY <1>1, ConcatFacts
<1>3. \A i \in DOMAIN t : Len(s) + i \in DOMAIN (s \o t) /\ (s \o t)[Len(s) + i] = t[i]
  BY <1>1, ConcatFacts
<1>4. \A i \in DOMAIN (s \o t) :
        \/ i \in DOMAIN s
        \/ i - Len(s) \in DOMAIN t /\ Len(s) + (i - Len(s)) = i
  BY <1>1
<1>5. Range(s) \subseteq Range(s \o t)
  BY <1>2 DEF Range
<1>6. Range(t) \subseteq Range(s \o t)
  BY <1>3 DEF Range
<1>7. ASSUME NEW i \in DOMAIN (s \o t)
      PROVE  (s \o t)[i] \in Range(s) \cup Range(t)
  <2>1. CASE i \in DOMAIN s
    BY <1>2, <2>1 DEF Range
  <2>2. CASE i - Len(s) \in DOMAIN t /\ Len(s) + (i - Len(s)) = i
    BY <1>3, <2>2 DEF Range
  <2> QED BY <1>4, <2>1, <2>2
<1>8. Range(s \o t) \subseteq Range(s) \cup Range(t)
  BY <1>7 DEF Range
<1> QED BY <1>5, <1>6, <1>8

(* A set of natural numbers that is not empty has its minimum.             *)
LEMMA LeastOf ==
  ASSUME NEW I \in SUBSET Nat, I # {}
  PROVE  Min(I) \in I /\ \A x \in I : Min(I) <= x
<1>1. PICK y \in I : \A x \in 0 .. y - 1 : x \notin I
  BY LeastExists
<1>2. y \in Nat /\ \A x \in I : y <= x
  <2>1. ASSUME NEW x \in I PROVE y <= x
    <3>1. x \in Nat /\ y \in Nat /\ x \notin 0 .. y - 1
      BY <1>1
    <3> QED BY <3>1
  <2> QED BY <2>1
<1>3. \A x \in I : (\A z \in I : x <= z) => x = y
  BY <1>2
<1>4. Min(I) = y
  BY <1>1, <1>2, <1>3, Zenon DEF Min
<1> QED BY <1>2, <1>4

(* The first of the places of a sequence that are in a set.                *)
PlaceIn(s, holds) == SelectInSeq(s, LAMBDA t : t \in holds)

(* SelectInSeq finds the first place, or 0 if there is none.               *)
LEMMA FirstFacts ==
  ASSUME NEW S, NEW s \in Seq(S), NEW holds, NEW first, first = PlaceIn(s, holds)
  PROVE  \/ first = 0 /\ \A x \in 1 .. Len(s) : s[x] \notin holds
         \/ /\ first \in 1 .. Len(s) /\ s[first] \in holds
            /\ \A x \in 1 .. Len(s) : s[x] \in holds => first <= x
<1> DEFINE I == {x \in 1 .. Len(s) : s[x] \in holds}
<1>1. first = IF I # {} THEN Min(I) ELSE 0
  BY Zenon DEF PlaceIn, SelectInSeq
<1>2. CASE I = {}
  BY <1>1, <1>2
<1>3. CASE I # {}
  <2>1. I \in SUBSET Nat
    OBVIOUS
  <2> HIDE DEF I
  <2>2. first \in I /\ \A x \in I : first <= x
    BY <1>1, <1>3, <2>1, LeastOf
  <2> QED BY <2>2 DEF I
<1> QED BY <1>2, <1>3

-----------------------------------------------------------------------------
(* Numbers.                                                                *)

(* A quotient and a remainder are the only ones.                           *)
LEMMA Division ==
  ASSUME NEW b \in Nat \ {0}, NEW q \in Nat, NEW r \in 0 .. b - 1
  PROVE  (b * q + r) \div b = q /\ (b * q + r) % b = r
<1> DEFINE a == b * q + r
           d == a \div b
           m == a % b
<1>1. a \in Nat /\ b \in Nat /\ b > 0 /\ r \in Nat /\ r < b
  OBVIOUS
<1>2. d \in Int /\ m \in 0 .. b - 1 /\ a = b * d + m
  <2> HIDE DEF a
  <2> QED BY <1>1
<1>3. d = q
  <2> HIDE DEF d, m
  <2>1. CASE d < q
    <3>1. q >= d + 1 /\ b * q >= b * (d + 1) /\ b * (d + 1) = b * d + b
      BY <1>1, <1>2, <2>1
    <3> QED BY <1>1, <1>2, <3>1
  <2>2. CASE d > q
    <3>1. d >= q + 1 /\ b * d >= b * (q + 1) /\ b * (q + 1) = b * q + b
      BY <1>1, <1>2, <2>2
    <3> QED BY <1>1, <1>2, <3>1
  <2> QED BY <1>2, <2>1, <2>2
<1>4. m = r
  <2> HIDE DEF d, m
  <2> QED BY <1>1, <1>2, <1>3
<1> QED BY <1>3, <1>4

(* What quotients are made of.                                             *)
LEMMA Quotient ==
  ASSUME NEW a \in Nat, NEW b \in Nat \ {0}
  PROVE  /\ a \div b \in Nat /\ a % b \in 0 .. b - 1
         /\ a = b * (a \div b) + (a % b)
<1>1. a \div b \in Int /\ a % b \in 0 .. b - 1 /\ a = b * (a \div b) + (a % b)
  OBVIOUS
<1> DEFINE d == a \div b
<1>2. d >= 0
  <2>1. CASE d < 0
    <3> HIDE DEF d
    <3>1. d + 1 <= 0 /\ b * (d + 1) <= 0 /\ b * (d + 1) = b * d + b
      BY <1>1, <2>1 DEF d
    <3> QED BY <1>1, <3>1 DEF d
  <2> QED BY <1>1, <2>1
<1> QED BY <1>1, <1>2

-----------------------------------------------------------------------------
(* Powers of two (Platform).                                               *)

(* A bit is twice the bit before.                                          *)
LEMMA BitFacts ==
  /\ Bit[0] = 1
  /\ \A n \in Nat : Bit[n] \in Nat \ {0} /\ Bit[n + 1] = 2 * Bit[n]
<1> DEFINE Rec(g) == g = [n \in Nat |-> IF n = 0 THEN 1 ELSE 2 * g[n - 1]]
           twice == [x \in Nat |-> 2 * x]
<1>1. Bit = CHOOSE g : Rec(g)
  BY Zenon DEF Bit
<1>2. PICK o \in [Nat -> Nat] : Sequel(o, twice, 1)
  <2>1. twice \in [Nat -> Nat] /\ 1 \in Nat
    OBVIOUS
  <2> HIDE DEF twice
  <2> QED BY <2>1, NatRecursion
<1>3. ASSUME NEW n \in Nat PROVE o[n] = IF n = 0 THEN 1 ELSE 2 * o[n - 1]
  <2>1. CASE n = 0
    BY <1>2, <2>1 DEF Sequel
  <2>2. CASE n # 0
    <3>1. n - 1 \in Nat /\ (n - 1) + 1 = n
      BY <2>2
    <3>2. o[n] = twice[o[n - 1]] /\ o[n - 1] \in Nat
      BY <1>2, <3>1 DEF Sequel
    <3> QED BY <2>2, <3>2
  <2> QED BY <2>1, <2>2
<1>4. Rec(o)
  <2>1. o = [n \in Nat |-> o[n]]
    OBVIOUS
  <2> QED BY <1>3, <2>1
<1>5. Rec(Bit)
  <2> HIDE DEF Rec
  <2> QED BY <1>1, <1>4
<1>6. \A n \in Nat : Bit[n] = IF n = 0 THEN 1 ELSE 2 * Bit[n - 1]
  BY <1>5
<1>7. ASSUME NEW n \in Nat PROVE Bit[n + 1] = 2 * Bit[n]
  <2>1. n + 1 \in Nat /\ n + 1 # 0 /\ (n + 1) - 1 = n
    OBVIOUS
  <2> QED BY <1>6, <2>1
<1> DEFINE S == {n \in Nat : Bit[n] \in Nat \ {0}}
<1>8. 0 \in S
  BY <1>6
<1>9. \A n \in Nat : n \in S => n + 1 \in S
  BY <1>7
<1>10. Nat \subseteq S
  <2> HIDE DEF S
  <2> QED BY <1>8, <1>9, NatSetInduction
<1> QED BY <1>6, <1>7, <1>10

(* Shifts add up.                                                          *)
LEMMA BitSum ==
  ASSUME NEW a \in Nat, NEW b \in Nat
  PROVE  Bit[a + b] = Bit[a] * Bit[b]
<1> DEFINE S == {k \in Nat : Bit[a + k] = Bit[a] * Bit[k]}
<1>1. 0 \in S
  <2>1. a + 0 = a /\ Bit[a] \in Nat /\ Bit[0] = 1
    BY BitFacts
  <2> QED BY <2>1
<1>2. ASSUME NEW k \in Nat, k \in S PROVE k + 1 \in S
  <2>1. /\ a + k \in Nat /\ a + (k + 1) = (a + k) + 1
        /\ Bit[a] \in Nat /\ Bit[k] \in Nat
        /\ Bit[k + 1] = 2 * Bit[k] /\ Bit[(a + k) + 1] = 2 * Bit[a + k]
    BY BitFacts
  <2>2. Bit[a + k] = Bit[a] * Bit[k]
    BY <1>2
  <2>3. \A x, y \in Nat : 2 * (x * y) = x * (2 * y)
    OBVIOUS
  <2>4. Bit[a + (k + 1)] = Bit[a] * Bit[k + 1]
    BY <2>1, <2>2, <2>3
  <2> QED BY <2>4
<1>3. Nat \subseteq S
  <2> HIDE DEF S
  <2> QED BY <1>1, <1>2, NatSetInduction
<1> QED BY <1>3

BitDivides(k, x) == \E r \in Nat : x = Bit[k] * r

(* An odd factor takes no power of two away.                               *)
LEMMA OddFactor ==
  ASSUME NEW p \in Nat, p % 2 = 1, NEW k \in Nat, NEW d \in Nat,
         BitDivides(k, p * d)
  PROVE  BitDivides(k, d)
<1> DEFINE S == {i \in Nat : \A x \in Nat : p * d = Bit[i] * x =>
                                            \E r \in Nat : d = Bit[i] * r}
<1>1. 0 \in S
  <2>1. Bit[0] = 1 /\ d = 1 * d
    BY BitFacts
  <2> QED BY <2>1
<1>2. ASSUME NEW i \in Nat, i \in S PROVE i + 1 \in S
  <2> SUFFICES ASSUME NEW x \in Nat, p * d = Bit[i + 1] * x
               PROVE  \E r \in Nat : d = Bit[i + 1] * r
    OBVIOUS
  <2> DEFINE b == Bit[i]
  <2>1. b \in Nat \ {0} /\ Bit[i + 1] = 2 * b
    BY BitFacts
  <2> HIDE DEF b
  <2>2. 2 * x \in Nat /\ p * d = b * (2 * x)
    BY <2>1
  <2>3. PICK r \in Nat : d = b * r
    BY <1>2, <2>2 DEF b
  <2>4. p * r = 2 * x
    <3>1. \A u, v \in Nat : b * u = b * v => u = v
      BY <2>1
    <3>2. p * d = b * (p * r)
      BY <2>1, <2>3
    <3>3. p * r \in Nat
      OBVIOUS
    <3> QED BY <2>2, <3>1, <3>2, <3>3
  <2>5. PICK h \in Nat : r = 2 * h
    <3> DEFINE o == p \div 2
               h == r \div 2
               z == r % 2
    <3>1. o \in Nat /\ p = 2 * o + 1
      OBVIOUS
    <3>2. h \in Nat /\ z \in {0, 1} /\ r = 2 * h + z
      OBVIOUS
    <3> HIDE DEF o, h, z
    <3>3. p * r = 2 * (o * r) + r /\ o * r \in Nat
      BY <3>1
    <3>4. z = 0
      BY <2>4, <3>2, <3>3
    <3> QED BY <3>2, <3>4
  <2>6. d = Bit[i + 1] * h
    BY <2>1, <2>3, <2>5
  <2> QED BY <2>6
<1>3. k \in S
  <2> HIDE DEF S
  <2> QED BY <1>1, <1>2, NatSetInduction
<1> QED BY <1>3 DEF BitDivides

(* So multiplication by an odd number loses nothing of a word.             *)
LEMMA OddInjective ==
  ASSUME NEW p \in Nat, p % 2 = 1, NEW k \in Nat,
         NEW x \in 0 .. Bit[k] - 1, NEW y \in 0 .. Bit[k] - 1,
         (x * p) % Bit[k] = (y * p) % Bit[k]
  PROVE  x = y
<1> DEFINE b == Bit[k]
<1>1. b \in Nat \ {0}
  BY BitFacts
<1>2. ASSUME NEW u \in 0 .. b - 1, NEW v \in 0 .. b - 1, u <= v,
             (u * p) % b = (v * p) % b
      PROVE  u = v
  <2> HIDE DEF b
  <2>1. u \in Nat /\ v \in Nat /\ v - u \in Nat /\ u * p \in Nat /\ v * p \in Nat
    BY <1>1, <1>2
  <2> DEFINE s == (u * p) \div b
             t == (v * p) \div b
             r == (u * p) % b
  <2>2. s \in Nat /\ r \in Nat /\ u * p = b * s + r
    <3>1. s \in Nat /\ r \in 0 .. b - 1 /\ u * p = b * s + r
      BY <1>1, <2>1, Quotient
    <3> HIDE DEF s, r
    <3> QED BY <1>1, <3>1
  <2>3. t \in Nat /\ v * p = b * t + r
    <3>1. t \in Nat /\ v * p = b * t + ((v * p) % b)
      BY <1>1, <2>1, Quotient
    <3>2. (v * p) % b = r
      BY <1>2
    <3> HIDE DEF t, r
    <3> QED BY <3>1, <3>2
  <2> HIDE DEF s, t, r
  <2>4. p * (v - u) = v * p - u * p /\ u * p <= v * p
    BY <1>2, <2>1
  <2>5. s <= t
    <3> SUFFICES ASSUME t < s PROVE FALSE
      BY <2>2, <2>3
    <3>1. t + 1 <= s /\ b * (t + 1) <= b * s /\ b * (t + 1) = b * t + b
      BY <1>1, <2>2, <2>3
    <3> QED BY <1>1, <2>1, <2>2, <2>3, <2>4, <3>1
  <2>6. t - s \in Nat /\ p * (v - u) = b * (t - s)
    BY <1>1, <2>2, <2>3, <2>4, <2>5
  <2>7. PICK m \in Nat : v - u = b * m
    <3> DEFINE d == v - u
    <3>1. d \in Nat /\ BitDivides(k, p * d)
      BY <2>1, <2>6 DEF b, BitDivides
    <3> HIDE DEF d
    <3>2. BitDivides(k, d)
      BY <3>1, OddFactor
    <3> QED BY <3>2 DEF b, d, BitDivides
  <2>8. m = 0
    <3> SUFFICES ASSUME m >= 1 PROVE FALSE
      OBVIOUS
    <3>1. b * m >= b
      BY <1>1
    <3> QED BY <1>1, <1>2, <2>1, <2>7, <3>1
  <2> QED BY <1>1, <2>1, <2>7, <2>8
<1>3. x \in Nat /\ y \in Nat
  BY <1>1
<1>4. CASE x <= y
  BY <1>2, <1>4
<1>5. CASE y <= x
  BY <1>2, <1>5
<1> QED BY <1>3, <1>4, <1>5

-----------------------------------------------------------------------------
(* Walks over intrusive chains (NodeLink), for any set of nodes and any    *)
(* pointers: the cursor of a walk, the path from a head to the null        *)
(* pointer, and what putting a segment in front or taking one out does.    *)

(* The cursor starts at the head and follows m_Next, and stays at the null *)
(* pointer once it is there.                                               *)
LEMMA CursorFacts ==
  ASSUME NEW N, IsFiniteSet(N), Null \notin N,
         NEW next \in [N -> N \cup {Null}], NEW head \in N \cup {Null}
  PROVE  /\ Cursor(next, head) \in [1 .. Cardinality(N) + 1 -> N \cup {Null}]
         /\ Cursor(next, head)[1] = head
         /\ \A k \in 1 .. Cardinality(N) :
              Cursor(next, head)[k + 1] =
                IF Cursor(next, head)[k] = Null THEN Null
                ELSE next[Cursor(next, head)[k]]
<1> DEFINE follow == [n \in DOMAIN next \cup {Null} |-> IF n = Null THEN Null ELSE next[n]]
           bound == Cardinality(DOMAIN next) + 1
           Rec(g) == g = [k \in 1 .. bound |-> IF k = 1 THEN head ELSE follow[g[k - 1]]]
           at == CHOOSE g : Rec(g)
           X == N \cup {Null}
<1>1. Cursor(next, head) = at
  BY Zenon DEF Cursor
<1>2. DOMAIN next = N /\ Cardinality(N) \in Nat
  BY FS_CardinalityType
<1>3. follow \in [X -> X] /\ head \in X /\ bound \in Nat
  BY <1>2
<1>a. \A n \in X : follow[n] = IF n = Null THEN Null ELSE next[n]
  BY <1>2
<1> HIDE DEF follow, bound, X
<1>4. \E g : Rec(g)
  <2>1. PICK g \in [1 .. bound -> X] : Iterates(g, follow, head, bound)
    BY <1>3, RecursionExists
  <2>2. Rec(g)
    BY <2>1 DEF Iterates
  <2> HIDE DEF Rec
  <2> QED BY <2>2
<1>5. Rec(at)
  BY <1>4
<1> HIDE DEF at
<1>6. bound = Cardinality(N) + 1
  BY <1>2 DEF bound
<1>7. at = [k \in 1 .. bound |-> IF k = 1 THEN head ELSE follow[at[k - 1]]]
  BY <1>5
<1>8. at[1] = head /\ DOMAIN at = 1 .. bound
  BY <1>2, <1>6, <1>7
<1>9. \A k \in 1 .. Cardinality(N) : at[k + 1] = follow[at[k]]
  BY <1>2, <1>6, <1>7
<1>10. \A k \in 1 .. bound : at[k] \in X
  <2> DEFINE S == {k \in Nat : k + 1 \in 1 .. bound => at[k + 1] \in X}
  <2>1. 0 \in S
    BY <1>3, <1>8
  <2>2. ASSUME NEW k \in Nat, k \in S PROVE k + 1 \in S
    BY <2>2, <1>2, <1>3, <1>6, <1>9
  <2>3. Nat \subseteq S
    BY <2>1, <2>2, NatSetInduction
  <2>4. ASSUME NEW k \in 1 .. bound PROVE at[k] \in X
    <3>1. k - 1 \in S /\ (k - 1) + 1 = k
      BY <1>2, <1>6, <2>3
    <3> QED BY <3>1
  <2> QED BY <2>4
<1>11. at \in [1 .. bound -> X]
  BY <1>7, <1>8, <1>10
<1>12. \A k \in 1 .. Cardinality(N) :
         at[k + 1] = IF at[k] = Null THEN Null ELSE next[at[k]]
  BY <1>2, <1>6, <1>9, <1>10, <1>a
<1> QED BY <1>1, <1>6, <1>8, <1>11, <1>12 DEF X

(* Where there is a path from the head to the null pointer, the walk goes  *)
(* through that path, node by node, and nothing else.                      *)
LEMMA ChainOfPath ==
  ASSUME NEW N, IsFiniteSet(N), Null \notin N,
         NEW next \in [N -> N \cup {Null}], NEW head, NEW w,
         IsPath(w, N, next, head)
  PROVE  /\ ChainFrom(next, head) = w
         /\ Len(w) \in Nat /\ Len(w) <= Cardinality(N)
<1> DEFINE at == Cursor(next, head)
           L == Len(w)
           C == Cardinality(N)
<1>1. /\ L \in Nat /\ C \in Nat /\ head \in N \cup {Null}
      /\ w \in [1 .. L -> N]
  BY FS_CardinalityType DEF IsPath
<1>2. L <= C
  <2>1. w \in Injection(1 .. L, N)
    BY <1>1 DEF IsPath, Injection, IsInjective
  <2>2. Cardinality(1 .. L) = L
    BY <1>1, IntervalSize
  <2> QED BY <2>1, <2>2, FS_Injection
<1>3. /\ at \in [1 .. C + 1 -> N \cup {Null}]
      /\ at[1] = head
      /\ \A k \in 1 .. C : at[k + 1] = IF at[k] = Null THEN Null ELSE next[at[k]]
  BY <1>1, CursorFacts
<1> HIDE DEF at, C
<1>a. \A i \in 1 .. L : w[i] \in N /\ next[w[i]] = IF i = L THEN Null ELSE w[i + 1]
  BY <1>1 DEF IsPath
<1> HIDE DEF L
<1>4. \A k \in 1 .. C + 1 : at[k] = IF k <= L THEN w[k] ELSE Null
  <2> DEFINE S == {k \in Nat : k + 1 \in 1 .. C + 1 =>
                     at[k + 1] = IF k + 1 <= L THEN w[k + 1] ELSE Null}
  <2>1. 0 \in S
    <3>1. L >= 1 => w # << >>
      BY DEF L
    <3>2. L = 0 => w = << >>
      BY DEF L, IsPath
    <3>3. at[1] = IF 1 <= L THEN w[1] ELSE Null
      BY <1>1, <1>3, <3>1, <3>2 DEF IsPath
    <3> QED BY <3>3
  <2>2. ASSUME NEW k \in Nat, k \in S PROVE k + 1 \in S
    <3>1. SUFFICES ASSUME k + 2 <= C + 1
                   PROVE  at[k + 2] = IF k + 2 <= L THEN w[k + 2] ELSE Null
      OBVIOUS
    <3>2. /\ k + 1 \in 1 .. C /\ (k + 1) + 1 = k + 2
          /\ at[k + 1] = IF k + 1 <= L THEN w[k + 1] ELSE Null
      BY <1>1, <2>2, <3>1
    <3>3. at[k + 2] = IF at[k + 1] = Null THEN Null ELSE next[at[k + 1]]
      BY <1>3, <3>2
    <3>4. k + 1 <= L => /\ k + 1 \in 1 .. L /\ w[k + 1] \in N
                        /\ next[w[k + 1]] = IF k + 1 = L THEN Null ELSE w[k + 2]
      <4>1. k + 1 <= L => k + 1 \in 1 .. L
        BY <1>1
      <4> QED BY <1>a, <3>2, <4>1
    <3> QED BY <1>1, <3>2, <3>3, <3>4
  <2>3. Nat \subseteq S
    BY <2>1, <2>2, NatSetInduction
  <2>4. ASSUME NEW k \in 1 .. C + 1
        PROVE  at[k] = IF k <= L THEN w[k] ELSE Null
    <3>1. k - 1 \in S /\ (k - 1) + 1 = k
      BY <1>1, <2>3
    <3> QED BY <3>1
  <2> QED BY <2>4
<1>5. {k \in DOMAIN at : at[k] # Null} = 1 .. L
  BY <1>1, <1>2, <1>3, <1>4
<1>6. Cardinality({k \in DOMAIN at : at[k] # Null}) = L
  BY <1>1, <1>5, IntervalSize
<1>7. SubSeq(at, 1, L) = w
  <2>1. SubSeq(at, 1, L) = [k \in 1 .. L |-> at[k]]
    BY <1>1, <1>2, <1>3
  <2> QED BY <1>1, <1>2, <1>4, <2>1
<1>8. ChainFrom(next, head) = SubSeq(at, 1, Cardinality({k \in DOMAIN at : at[k] # Null}))
  BY Zenon DEF ChainFrom, at
<1> QED BY <1>1, <1>2, <1>6, <1>7, <1>8 DEF L, C

(* A step that writes no pointer on the path keeps it.                     *)
LEMMA PathKept ==
  ASSUME NEW N, NEW next, NEW next2, NEW head, NEW w,
         IsPath(w, N, next, head),
         \A i \in 1 .. Len(w) : next2[w[i]] = next[w[i]]
  PROVE  IsPath(w, N, next2, head)
BY DEF IsPath

(* A segment whose pointers lead from node to node and then to the head    *)
(* lengthens the path in front.                                            *)
LEMMA PathPrepended ==
  ASSUME NEW N, NEW next, NEW next2, NEW head, NEW w,
         IsPath(w, N, next, head),
         NEW s \in Seq(N), s # << >>,
         \A i, j \in 1 .. Len(s) : s[i] = s[j] => i = j,
         \A i \in 1 .. Len(s), j \in 1 .. Len(w) : s[i] # w[j],
         \A i \in 1 .. Len(s) :
           next2[s[i]] = IF i = Len(s) THEN head ELSE s[i + 1],
         \A i \in 1 .. Len(w) : next2[w[i]] = next[w[i]]
  PROVE  IsPath(s \o w, N, next2, s[1])
<1> DEFINE v == s \o w
           m == Len(s)
           L == Len(w)
<1>1. /\ w \in Seq(N) /\ m \in Nat \ {0} /\ L \in Nat
      /\ v \in Seq(N) /\ Len(v) = m + L
  BY DEF IsPath
<1>2. \A i \in 1 .. Len(v) : v[i] = IF i <= m THEN s[i] ELSE w[i - m]
  BY <1>1
<1>3. \A i \in 1 .. L : next[w[i]] = IF i = L THEN Null ELSE w[i + 1]
  BY DEF IsPath
<1>4. \A i, j \in 1 .. L : w[i] = w[j] => i = j
  BY DEF IsPath
<1>5. head = IF L = 0 THEN Null ELSE w[1]
  BY <1>1 DEF IsPath
<1> HIDE DEF v, m, L
<1>6. ASSUME NEW i \in 1 .. m + L, NEW j \in 1 .. m + L, v[i] = v[j]
      PROVE  i = j
  <2>1. CASE i <= m /\ j <= m
    BY <1>1, <1>2, <1>6, <2>1 DEF m
  <2>2. CASE i > m /\ j > m
    <3>1. i - m \in 1 .. L /\ j - m \in 1 .. L
      BY <1>1, <2>2
    <3>2. w[i - m] = w[j - m]
      BY <1>1, <1>2, <1>6, <2>2
    <3> QED BY <1>1, <1>4, <3>1, <3>2
  <2>3. CASE i <= m /\ j > m
    <3>1. i \in 1 .. m /\ j - m \in 1 .. L
      BY <1>1, <2>3
    <3>2. s[i] = w[j - m]
      BY <1>1, <1>2, <1>6, <2>3
    <3> QED BY <3>1, <3>2 DEF m, L
  <2>4. CASE i > m /\ j <= m
    <3>1. j \in 1 .. m /\ i - m \in 1 .. L
      BY <1>1, <2>4
    <3>2. s[j] = w[i - m]
      BY <1>1, <1>2, <1>6, <2>4
    <3> QED BY <3>1, <3>2 DEF m, L
  <2> QED BY <1>1, <2>1, <2>2, <2>3, <2>4
<1>7. ASSUME NEW i \in 1 .. m + L
      PROVE  next2[v[i]] = IF i = m + L THEN Null ELSE v[i + 1]
  <2>1. CASE i < m
    <3>1. i \in 1 .. m /\ v[i] = s[i] /\ v[i + 1] = s[i + 1] /\ i # m + L
      BY <1>1, <1>2, <2>1
    <3> QED BY <1>1, <2>1, <3>1 DEF m
  <2>2. CASE i = m
    <3>1. v[i] = s[i] /\ i \in 1 .. Len(s)
      BY <1>1, <1>2, <2>2 DEF m
    <3>2. next2[s[i]] = head
      BY <2>2, <3>1 DEF m
    <3>3. L # 0 => m + 1 \in 1 .. m + L /\ ~(m + 1 <= m) /\ (m + 1) - m = 1
      BY <1>1
    <3>4. L # 0 => v[i + 1] = w[1]
      BY <1>1, <1>2, <2>2, <3>3
    <3> QED BY <1>1, <1>5, <2>2, <3>1, <3>2, <3>4
  <2>3. CASE i > m
    <3>1. i - m \in 1 .. L /\ v[i] = w[i - m]
      BY <1>1, <1>2, <2>3
    <3>2. next2[v[i]] = IF i - m = L THEN Null ELSE w[i - m + 1]
      BY <1>3, <3>1 DEF L
    <3>3. i # m + L => i + 1 \in 1 .. m + L /\ i + 1 > m /\ (i + 1) - m = i - m + 1
      BY <1>1, <2>3
    <3>4. i # m + L => v[i + 1] = w[i - m + 1]
      BY <1>1, <1>2, <3>3
    <3> QED BY <1>1, <3>1, <3>2, <3>4
  <2> QED BY <1>1, <2>1, <2>2, <2>3
<1>8. v # << >> /\ v[1] = s[1]
  BY <1>1, <1>2
<1>9. IsPath(v, N, next2, s[1])
  BY <1>1, <1>6, <1>7, <1>8 DEF IsPath
<1> QED BY <1>9 DEF v

(* The segment behind the first k nodes, of m nodes, is taken out.         *)
Without(w, k, m) == SubSeq(w, 1, k) \o SubSeq(w, k + m + 1, Len(w))

(* What is left, index by index.                                           *)
LEMMA WithoutFacts ==
  ASSUME NEW N, NEW w \in Seq(N), NEW k \in Nat, NEW m \in Nat, k + m <= Len(w)
  PROVE  /\ Without(w, k, m) \in Seq(N)
         /\ Len(Without(w, k, m)) = Len(w) - m
         /\ \A i \in 1 .. Len(w) - m :
              Without(w, k, m)[i] = IF i <= k THEN w[i] ELSE w[i + m]
<1> DEFINE a == SubSeq(w, 1, k)
           b == SubSeq(w, k + m + 1, Len(w))
<1>1. a \in Seq(N) /\ Len(a) = k /\ \A i \in 1 .. k : a[i] = w[i]
  OBVIOUS
<1>2. /\ b \in Seq(N) /\ Len(b) = Len(w) - (k + m)
      /\ \A i \in 1 .. Len(w) - (k + m) : b[i] = w[k + m + i]
  OBVIOUS
<1>3. Len(w) \in Nat
  OBVIOUS
<1> HIDE DEF a, b
<1>4. /\ a \o b \in Seq(N) /\ Len(a \o b) = Len(a) + Len(b)
      /\ \A i \in 1 .. Len(a) + Len(b) :
           (a \o b)[i] = IF i <= Len(a) THEN a[i] ELSE b[i - Len(a)]
  BY <1>1, <1>2, ConcatFacts
<1>5. Len(a) + Len(b) = Len(w) - m
  BY <1>1, <1>2, <1>3
<1>6. ASSUME NEW i \in 1 .. Len(w) - m
      PROVE  (a \o b)[i] = IF i <= k THEN w[i] ELSE w[i + m]
  <2>1. (a \o b)[i] = IF i <= k THEN a[i] ELSE b[i - k]
    BY <1>1, <1>4, <1>5
  <2>2. i <= k => a[i] = w[i]
    BY <1>1
  <2>3. ~(i <= k) => i - k \in 1 .. Len(w) - (k + m) /\ k + m + (i - k) = i + m
    BY <1>3
  <2>4. ~(i <= k) => b[i - k] = w[i + m]
    BY <1>2, <2>3
  <2> QED BY <2>1, <2>2, <2>4
<1> QED BY <1>4, <1>5, <1>6 DEF Without, a, b

(* A segment behind the first k nodes, its predecessor (or the head)       *)
(* pointed at what follows it, leaves the path without it.                 *)
LEMMA PathShortened ==
  ASSUME NEW N, NEW next, NEW next2, NEW head, NEW head2, NEW w,
         IsPath(w, N, next, head),
         NEW k \in Nat, NEW m \in Nat \ {0}, k + m <= Len(w),
         head2 = IF k = 0 THEN next[w[m]] ELSE head,
         k > 0 => next2[w[k]] = next[w[k + m]],
         \A i \in 1 .. Len(w) :
           i < k \/ i > k + m => next2[w[i]] = next[w[i]]
  PROVE  IsPath(Without(w, k, m), N, next2, head2)
<1> DEFINE v == Without(w, k, m)
           L == Len(w)
<1>0. w \in Seq(N) /\ L \in Nat
  BY DEF IsPath
<1>1. /\ w \in Seq(N) /\ L \in Nat
      /\ v \in Seq(N) /\ Len(v) = L - m
      /\ \A i \in 1 .. L - m : v[i] = IF i <= k THEN w[i] ELSE w[i + m]
  <2>1. m \in Nat /\ k + m <= Len(w)
    OBVIOUS
  <2>2. Without(w, k, m) \in Seq(N)
    BY <1>0, <2>1, WithoutFacts
  <2>3. Len(Without(w, k, m)) = Len(w) - m
    <3> HIDE DEF v, L
    <3>1. \A u \in Seq(N), x \in Nat, y \in Nat :
            x + y <= Len(u) => Len(Without(u, x, y)) = Len(u) - y
      BY WithoutFacts
    <3> QED BY <1>0, <2>1, <3>1, Zenon
  <2>4. \A i \in 1 .. Len(w) - m :
             Without(w, k, m)[i] = IF i <= k THEN w[i] ELSE w[i + m]
    BY <1>0, <2>1, WithoutFacts
  <2> QED BY <1>0, <2>2, <2>3, <2>4
<1>2. \A i \in 1 .. L : next[w[i]] = IF i = L THEN Null ELSE w[i + 1]
  BY DEF IsPath
<1>3. \A i, j \in 1 .. L : w[i] = w[j] => i = j
  BY DEF IsPath
<1>4. head = IF L = 0 THEN Null ELSE w[1]
  BY <1>1 DEF IsPath
<1>a. \A i \in 1 .. L : i < k \/ i > k + m => next2[w[i]] = next[w[i]]
  OBVIOUS
<1>b. k + m <= L
  OBVIOUS
<1> HIDE DEF v, L
<1>5. ASSUME NEW i \in 1 .. L - m, NEW j \in 1 .. L - m, v[i] = v[j]
      PROVE  i = j
  <2> DEFINE old(x) == IF x <= k THEN x ELSE x + m
  <2>1. \A x \in 1 .. L - m : old(x) \in 1 .. L /\ v[x] = w[old(x)]
    BY <1>1
  <2>2. old(i) = old(j)
    BY <1>3, <1>5, <2>1
  <2> QED BY <1>1, <2>2
<1>6. ASSUME NEW i \in 1 .. L - m
      PROVE  next2[v[i]] = IF i = L - m THEN Null ELSE v[i + 1]
  <2>1. CASE i < k
    <3>1. v[i] = w[i] /\ v[i + 1] = w[i + 1] /\ i # L - m /\ i \in 1 .. L /\ i # L
      BY <1>1, <1>b, <2>1
    <3> QED BY <1>2, <1>a, <2>1, <3>1
  <2>2. CASE i = k
    <3>1. v[i] = w[k] /\ k > 0 /\ k + m \in 1 .. L
      BY <1>1, <1>b, <2>2
    <3>2. next2[v[i]] = IF k + m = L THEN Null ELSE w[k + m + 1]
      BY <1>2, <3>1
    <3>3. i # L - m => v[i + 1] = w[k + m + 1]
      <4>1. i # L - m => i + 1 \in 1 .. L - m /\ ~(i + 1 <= k) /\ (i + 1) + m = k + m + 1
        BY <1>1, <1>b, <2>2
      <4> QED BY <1>1, <4>1
    <3> QED BY <1>1, <2>2, <3>2, <3>3
  <2>3. CASE i > k
    <3>1. v[i] = w[i + m] /\ i + m \in 1 .. L /\ i + m > k + m
      BY <1>1, <1>b, <2>3
    <3>2. next2[v[i]] = IF i + m = L THEN Null ELSE w[i + m + 1]
      BY <1>2, <1>a, <3>1
    <3>3. i # L - m => v[i + 1] = w[i + m + 1]
      <4>1. i # L - m => i + 1 \in 1 .. L - m /\ ~(i + 1 <= k) /\ (i + 1) + m = i + m + 1
        BY <1>1, <1>b, <2>3
      <4> QED BY <1>1, <4>1, SMTT(30)
    <3> QED BY <1>1, <2>3, <3>2, <3>3
  <2> QED BY <1>1, <2>1, <2>2, <2>3
<1>7. head2 = IF v = << >> THEN Null ELSE v[1]
  <2>1. CASE k = 0
    <3>1. m \in 1 .. L /\ next[w[m]] = IF m = L THEN Null ELSE w[m + 1]
      BY <1>1, <1>2, <1>b, <2>1
    <3>2. m # L => v # << >> /\ v[1] = w[m + 1]
      <4>1. m # L => 1 \in 1 .. L - m /\ ~(1 <= k) /\ 1 + m = m + 1
        BY <1>1, <1>b, <2>1
      <4> QED BY <1>1, <4>1
    <3>3. m = L => v = << >>
      BY <1>1
    <3> QED BY <2>1, <3>1, <3>2, <3>3
  <2>2. CASE k # 0
    <3>1. 1 \in 1 .. L - m /\ 1 <= k /\ L # 0
      BY <1>1, <1>b, <2>2
    <3>2. v # << >> /\ v[1] = w[1]
      BY <1>1, <3>1
    <3> QED BY <1>4, <2>2, <3>1, <3>2
  <2> QED BY <2>1, <2>2
<1>8. IsPath(v, N, next2, head2)
  BY <1>1, <1>5, <1>6, <1>7 DEF IsPath
<1> QED BY <1>8 DEF v

(* A path that reaches the first node of a segment goes through all of it. *)
LEMMA SegmentOnPath ==
  ASSUME NEW N, Null \notin N, NEW next, NEW head, NEW w,
         IsPath(w, N, next, head),
         NEW s \in Seq(N), s # << >>,
         \A i \in 1 .. Len(s) - 1 : next[s[i]] = s[i + 1],
         NEW k \in Nat, k + 1 <= Len(w), w[k + 1] = s[1]
  PROVE  /\ k + Len(s) <= Len(w)
         /\ \A i \in 1 .. Len(s) : w[k + i] = s[i]
<1> DEFINE S == {i \in Nat : i + 1 <= Len(s) =>
                    k + i + 1 <= Len(w) /\ w[k + i + 1] = s[i + 1]}
<1>1. Len(s) \in Nat \ {0} /\ w \in Seq(N) /\ Len(w) \in Nat
  BY DEF IsPath
<1>2. 0 \in S
  OBVIOUS
<1>3. ASSUME NEW i \in Nat, i \in S PROVE i + 1 \in S
  <2>1. SUFFICES ASSUME i + 2 <= Len(s)
                 PROVE  k + i + 2 <= Len(w) /\ w[k + i + 2] = s[i + 2]
    OBVIOUS
  <2>2. k + i + 1 \in 1 .. Len(w) /\ w[k + i + 1] = s[i + 1]
    BY <1>1, <1>3, <2>1
  <2>3. i + 1 \in 1 .. Len(s) - 1 /\ (i + 1) + 1 = i + 2
    BY <1>1, <2>1
  <2>4. next[s[i + 1]] = s[i + 2] /\ s[i + 2] \in N
    BY <1>1, <2>1, <2>3
  <2>5. next[w[k + i + 1]] = IF k + i + 1 = Len(w) THEN Null ELSE w[(k + i + 1) + 1]
    BY <2>2 DEF IsPath
  <2>6. k + i + 1 # Len(w)
    BY <2>2, <2>4, <2>5
  <2>7. (k + i + 1) + 1 = k + i + 2
    OBVIOUS
  <2>8. w[k + i + 2] = s[i + 2]
    BY <2>2, <2>4, <2>5, <2>6, <2>7
  <2> QED BY <1>1, <2>2, <2>6, <2>8
<1>4. Nat \subseteq S
  <2> HIDE DEF S
  <2> QED BY <1>2, <1>3, NatSetInduction
<1>5. ASSUME NEW i \in 1 .. Len(s)
      PROVE  k + i <= Len(w) /\ w[k + i] = s[i]
  <2>1. i - 1 \in Nat /\ (i - 1) + 1 = i /\ k + (i - 1) + 1 = k + i /\ i <= Len(s)
    BY <1>1
  <2>2. i - 1 \in S
    BY <1>4, <2>1
  <2> QED BY <2>1, <2>2
<1>6. Len(s) \in 1 .. Len(s)
  BY <1>1
<1> QED BY <1>5, <1>6

(* The rest of a path is the path from where it begins.                    *)
LEMMA PathRest ==
  ASSUME NEW N, NEW next, NEW head, NEW w, IsPath(w, N, next, head),
         NEW k \in Nat, k < Len(w)
  PROVE  IsPath(SubSeq(w, k + 1, Len(w)), N, next, w[k + 1])
<1> DEFINE v == SubSeq(w, k + 1, Len(w))
           L == Len(w)
<1>1. w \in Seq(N) /\ L \in Nat
  BY DEF IsPath
<1>2. v \in Seq(N) /\ Len(v) = L - k /\ \A i \in 1 .. L - k : v[i] = w[k + i]
  BY <1>1
<1>3. \A i \in 1 .. L : next[w[i]] = IF i = L THEN Null ELSE w[i + 1]
  BY DEF IsPath
<1>4. \A i, j \in 1 .. L : w[i] = w[j] => i = j
  BY DEF IsPath
<1>5. k < L
  OBVIOUS
<1> HIDE DEF v, L
<1>6. \A i \in 1 .. L - k : k + i \in 1 .. L
  BY <1>1
<1>7. ASSUME NEW i \in 1 .. L - k, NEW j \in 1 .. L - k, v[i] = v[j]
      PROVE  i = j
  <2>1. k + i = k + j
    BY <1>2, <1>4, <1>6, <1>7
  <2> QED BY <2>1
<1>8. ASSUME NEW i \in 1 .. L - k
      PROVE  next[v[i]] = IF i = L - k THEN Null ELSE v[i + 1]
  <2>1. next[v[i]] = IF k + i = L THEN Null ELSE w[(k + i) + 1]
    BY <1>2, <1>3, <1>6
  <2>2. i # L - k => i + 1 \in 1 .. L - k /\ (k + i) + 1 = k + (i + 1)
    BY <1>1
  <2>3. i # L - k => v[i + 1] = w[(k + i) + 1]
    BY <1>2, <2>2
  <2> QED BY <1>1, <2>1, <2>3
<1>9. v # << >> /\ v[1] = w[k + 1]
  <2>1. 1 \in 1 .. L - k
    BY <1>1, <1>5
  <2> QED BY <1>2, <2>1
<1>10. IsPath(v, N, next, w[k + 1])
  BY <1>2, <1>7, <1>8, <1>9 DEF IsPath
<1> QED BY <1>10 DEF v, L

-----------------------------------------------------------------------------
(* Walks that may not end.                                                 *)

(* o goes through the chain from its head, and stays at the null pointer.  *)
Orbit(o, next, head) ==
  /\ o[0] = head
  /\ \A i \in Nat : o[i + 1] = IF o[i] = Null THEN Null ELSE next[o[i]]

(* A walk has an orbit.                                                    *)
LEMMA OrbitExists ==
  ASSUME NEW N, NEW next \in [N -> N \cup {Null}], NEW head \in N \cup {Null}
  PROVE  \E o \in [Nat -> N \cup {Null}] : Orbit(o, next, head)
<1> DEFINE X == N \cup {Null}
           follow == [n \in X |-> IF n = Null THEN Null ELSE next[n]]
<1>1. follow \in [X -> X] /\ head \in X
  OBVIOUS
<1>2. \A n \in X : follow[n] = IF n = Null THEN Null ELSE next[n]
  OBVIOUS
<1> HIDE DEF follow, X
<1>3. PICK o \in [Nat -> X] : Sequel(o, follow, head)
  BY <1>1, NatRecursion
<1>4. o[0] = head /\ \A i \in Nat : o[i + 1] = IF o[i] = Null THEN Null ELSE next[o[i]]
  BY <1>2, <1>3 DEF Sequel
<1> QED BY <1>3, <1>4 DEF Orbit, X

(* What a walk goes through from some place on depends on that place only; *)
(* from the null pointer on it is the null pointer.                        *)
LEMMA OrbitShift ==
  ASSUME NEW next, NEW head, NEW o, Orbit(o, next, head),
         NEW i \in Nat, NEW j \in Nat, o[i] = o[j]
  PROVE  \A t \in Nat : o[i + t] = o[j + t]
<1> DEFINE S == {t \in Nat : o[i + t] = o[j + t]}
<1>1. 0 \in S
  OBVIOUS
<1>2. ASSUME NEW t \in Nat, t \in S PROVE t + 1 \in S
  <2>1. i + t \in Nat /\ j + t \in Nat /\ i + (t + 1) = (i + t) + 1 /\ j + (t + 1) = (j + t) + 1
    OBVIOUS
  <2> QED BY <1>2, <2>1 DEF Orbit
<1>3. Nat \subseteq S
  <2> HIDE DEF S
  <2> QED BY <1>1, <1>2, NatSetInduction
<1> QED BY <1>3

LEMMA OrbitNull ==
  ASSUME NEW next, NEW head, NEW o, Orbit(o, next, head),
         NEW i \in Nat, o[i] = Null, NEW j \in Nat, i <= j
  PROVE  o[j] = Null
<1> DEFINE S == {t \in Nat : o[i + t] = Null}
<1>1. 0 \in S
  OBVIOUS
<1>2. ASSUME NEW t \in Nat, t \in S PROVE t + 1 \in S
  <2>1. i + t \in Nat /\ i + (t + 1) = (i + t) + 1
    OBVIOUS
  <2> QED BY <1>2, <2>1 DEF Orbit
<1>3. Nat \subseteq S
  <2> HIDE DEF S
  <2> QED BY <1>1, <1>2, NatSetInduction
<1>4. j - i \in Nat /\ i + (j - i) = j
  OBVIOUS
<1> QED BY <1>3, <1>4

(* A walk is trapped when it never meets the null pointer.                 *)
LEMMA TrappedOrbit ==
  ASSUME NEW N, Null \notin N, NEW next \in [N -> N \cup {Null}], NEW head,
         NEW o \in [Nat -> N \cup {Null}], Orbit(o, next, head)
  PROVE  Trapped(next, head) <=> \A i \in Nat : o[i] # Null
<1>1. ASSUME Trapped(next, head) PROVE \A i \in Nat : o[i] # Null
  <2>1. PICK S \in SUBSET N : head \in S /\ \A n \in S : next[n] \in S
    BY <1>1 DEF Trapped
  <2> DEFINE T == {i \in Nat : o[i] \in S}
  <2>2. 0 \in T
    BY <2>1 DEF Orbit
  <2>3. ASSUME NEW i \in Nat, i \in T PROVE i + 1 \in T
    BY <2>1, <2>3 DEF Orbit
  <2>4. Nat \subseteq T
    <3> HIDE DEF T
    <3> QED BY <2>2, <2>3, NatSetInduction
  <2> QED BY <2>1, <2>4
<1>2. ASSUME \A i \in Nat : o[i] # Null PROVE Trapped(next, head)
  <2> DEFINE S == {o[i] : i \in Nat}
  <2>1. S \in SUBSET DOMAIN next
    BY <1>2
  <2>2. head \in S
    BY 0 \in Nat DEF Orbit
  <2>3. ASSUME NEW i \in Nat PROVE next[o[i]] \in S
    <3>1. next[o[i]] = o[i + 1] /\ i + 1 \in Nat
      BY <1>2 DEF Orbit
    <3> QED BY <3>1
  <2>4. \A n \in S : next[n] \in S
    BY <2>3
  <2> HIDE DEF S
  <2> QED BY <2>1, <2>2, <2>4 DEF Trapped
<1> QED BY <1>1, <1>2

(* Two walkers, one twice as fast, meet again only on a cycle.             *)
LEMMA OrbitCycle ==
  ASSUME NEW N, Null \notin N, NEW next \in [N -> N \cup {Null}], NEW head,
         NEW o \in [Nat -> N \cup {Null}], Orbit(o, next, head),
         NEW k \in Nat, o[2 * k + 1] # Null, o[k + 1] = o[2 * k + 2]
  PROVE  Trapped(next, head)
<1> DEFINE S == {o[j] : j \in 0 .. 2 * k + 1}
<1>1. ASSUME NEW j \in 0 .. 2 * k + 1 PROVE o[j] # Null /\ o[j] \in N
  <2>1. j \in Nat /\ j <= 2 * k + 1 /\ 2 * k + 1 \in Nat
    OBVIOUS
  <2> QED BY <2>1, OrbitNull
<1>2. S \in SUBSET DOMAIN next
  BY <1>1
<1>3. head \in S
  <2>1. 0 \in 0 .. 2 * k + 1
    OBVIOUS
  <2> QED BY <2>1 DEF Orbit
<1>4. ASSUME NEW j \in 0 .. 2 * k + 1 PROVE next[o[j]] \in S
  <2>1. next[o[j]] = o[j + 1]
    BY <1>1 DEF Orbit
  <2>2. CASE j = 2 * k + 1
    <3>1. next[o[j]] = o[k + 1] /\ k + 1 \in 0 .. 2 * k + 1
      BY <2>1, <2>2
    <3> QED BY <3>1
  <2>3. CASE j # 2 * k + 1
    <3>1. j + 1 \in 0 .. 2 * k + 1
      BY <2>3
    <3> QED BY <2>1, <3>1
  <2> QED BY <2>2, <2>3
<1>5. \A n \in S : next[n] \in S
  BY <1>4
<1> HIDE DEF S
<1> QED BY <1>2, <1>3, <1>5 DEF Trapped

(* The nodes before the first null pointer are the path.                   *)
LEMMA OrbitPath ==
  ASSUME NEW N, Null \notin N, NEW next \in [N -> N \cup {Null}], NEW head,
         NEW o \in [Nat -> N \cup {Null}], Orbit(o, next, head),
         NEW m \in Nat, o[m] = Null, \A i \in 0 .. m - 1 : o[i] # Null
  PROVE  IsPath([i \in 1 .. m |-> o[i - 1]], N, next, head)
<1> DEFINE w == [i \in 1 .. m |-> o[i - 1]]
<1>1. \A i \in 1 .. m : i - 1 \in 0 .. m - 1 /\ i - 1 \in Nat /\ (i - 1) + 1 = i /\ i \in Nat
  OBVIOUS
<1>2. w \in Seq(N) /\ Len(w) = m /\ \A i \in 1 .. m : w[i] = o[i - 1]
  BY <1>1
<1> HIDE DEF w
<1>3. ASSUME NEW i \in 1 .. m, NEW j \in 1 .. m, i < j PROVE w[i] # w[j]
  <2>1. SUFFICES ASSUME o[i - 1] = o[j - 1] PROVE FALSE
    BY <1>2
  <2> DEFINE t == m - (j - 1)
  <2>2. t \in Nat /\ (j - 1) + t = m /\ (i - 1) + t \in 0 .. m - 1
    BY <1>3
  <2> HIDE DEF t
  <2>3. o[(i - 1) + t] = o[(j - 1) + t]
    BY <1>1, <2>1, <2>2, OrbitShift
  <2> QED BY <2>2, <2>3
<1>4. ASSUME NEW i \in 1 .. m, NEW j \in 1 .. m, w[i] = w[j] PROVE i = j
  <2>1. ~(i < j) /\ ~(j < i)
    BY <1>3, <1>4
  <2> QED BY <2>1
<1>5. ASSUME NEW i \in 1 .. m
      PROVE  next[w[i]] = IF i = m THEN Null ELSE w[i + 1]
  <2>1. o[i] = next[o[i - 1]]
    BY <1>1 DEF Orbit
  <2>2. i # m => i + 1 \in 1 .. m /\ (i + 1) - 1 = i
    OBVIOUS
  <2> QED BY <1>2, <2>1, <2>2
<1>6. head = IF w = << >> THEN Null ELSE w[1]
  <2>1. o[0] = head
    BY DEF Orbit
  <2>2. m # 0 => w # << >> /\ w[1] = o[0]
    BY <1>2
  <2>3. m = 0 => w = << >>
    BY <1>2
  <2> QED BY <2>1, <2>2, <2>3
<1>7. IsPath(w, N, next, head)
  BY <1>2, <1>4, <1>5, <1>6 DEF IsPath
<1> QED BY <1>7 DEF w

(* A walk either is trapped or has a path, within any set of nodes that it *)
(* starts in and that no pointer but the null pointer leaves.              *)
LEMMA PathExists ==
  ASSUME NEW N, Null \notin N, NEW next \in [N -> N \cup {Null}],
         NEW M \in SUBSET N, \A n \in M : next[n] \in M \cup {Null},
         NEW head \in M \cup {Null}, ~Trapped(next, head)
  PROVE  \E w : IsPath(w, M, next, head)
<1>1. PICK o \in [Nat -> N \cup {Null}] : Orbit(o, next, head)
  BY OrbitExists
<1> DEFINE S == {i \in Nat : o[i] = Null}
<1>2. S \in SUBSET Nat /\ S # {}
  BY <1>1, TrappedOrbit
<1>3. PICK m \in S : \A i \in 0 .. m - 1 : i \notin S
  <2> HIDE DEF S
  <2> QED BY <1>2, LeastExists
<1>4. m \in Nat /\ o[m] = Null /\ \A i \in 0 .. m - 1 : o[i] # Null
  BY <1>3
<1> DEFINE w == [i \in 1 .. m |-> o[i - 1]]
<1>5. IsPath(w, N, next, head)
  BY <1>1, <1>4, OrbitPath, SMTT(30)
<1> DEFINE T == {i \in Nat : o[i] \in M \cup {Null}}
<1>6. Nat \subseteq T
  <2>1. 0 \in T
    BY <1>1 DEF Orbit
  <2>2. ASSUME NEW i \in Nat, i \in T PROVE i + 1 \in T
    BY <1>1, <2>2 DEF Orbit
  <2> HIDE DEF T
  <2> QED BY <2>1, <2>2, NatSetInduction
<1>7. \A i \in 1 .. m : w[i] \in M
  <2>1. \A i \in 1 .. m : i - 1 \in Nat /\ i - 1 \in 0 .. m - 1
    BY <1>4
  <2> QED BY <1>4, <1>6, <2>1
<1>8. w \in Seq(M)
  BY <1>4, <1>7
<1> HIDE DEF w
<1>9. IsPath(w, M, next, head)
  BY <1>5, <1>8 DEF IsPath
<1> QED BY <1>9

(* Terminates, which follows the pointers, and Trapped, which does not,    *)
(* agree on which walks end.                                               *)
LEMMA TerminatesOrTrapped ==
  ASSUME NEW N, IsFiniteSet(N), Null \notin N,
         NEW next \in [N -> N \cup {Null}], NEW head \in N \cup {Null}
  PROVE  Terminates(next, head) <=> ~Trapped(next, head)
<1> DEFINE at == Cursor(next, head)
           C == Cardinality(N)
<1>1. C \in Nat /\ DOMAIN next = N
  BY FS_CardinalityType
<1>2. /\ at \in [1 .. C + 1 -> N \cup {Null}]
      /\ at[1] = head
      /\ \A k \in 1 .. C : at[k + 1] = IF at[k] = Null THEN Null ELSE next[at[k]]
  BY CursorFacts
<1>3. ASSUME ~Trapped(next, head) PROVE Terminates(next, head)
  <2>1. PICK w : IsPath(w, N, next, head)
    BY <1>3, PathExists
  <2>2. ChainFrom(next, head) = w /\ Len(w) <= C
    BY <2>1, ChainOfPath
  <2> QED BY <1>1, <2>2 DEF Terminates
<1>4. ASSUME Trapped(next, head) PROVE ~Terminates(next, head)
  <2>1. PICK S \in SUBSET N : head \in S /\ \A n \in S : next[n] \in S
    BY <1>1, <1>4 DEF Trapped
  <2> HIDE DEF at, C
  <2> DEFINE T == {i \in Nat : i + 1 <= C + 1 => at[i + 1] \in S}
  <2>2. 0 \in T
    BY <1>2, <2>1
  <2>3. ASSUME NEW i \in Nat, i \in T PROVE i + 1 \in T
    <3>1. SUFFICES ASSUME i + 2 <= C + 1 PROVE at[i + 2] \in S
      OBVIOUS
    <3>2. i + 1 \in 1 .. C /\ (i + 1) + 1 = i + 2 /\ at[i + 1] \in S
      BY <1>1, <2>3, <3>1
    <3>3. at[i + 2] = IF at[i + 1] = Null THEN Null ELSE next[at[i + 1]]
      BY <1>2, <3>2
    <3> QED BY <2>1, <3>2, <3>3
  <2>4. Nat \subseteq T
    <3> HIDE DEF T
    <3> QED BY <2>2, <2>3, NatSetInduction
  <2>5. ASSUME NEW k \in 1 .. C + 1 PROVE at[k] # Null
    <3>1. k - 1 \in T /\ (k - 1) + 1 = k /\ k <= C + 1
      BY <1>1, <2>4
    <3> QED BY <2>1, <3>1
  <2>6. {k \in DOMAIN at : at[k] # Null} = 1 .. C + 1
    BY <1>2, <2>5
  <2>7. Cardinality({k \in DOMAIN at : at[k] # Null}) = C + 1
    <3>1. C + 1 \in Nat
      BY <1>1
    <3>2. Cardinality(1 .. C + 1) = C + 1
      BY <3>1, IntervalSize
    <3> QED BY <2>6, <3>2
  <2>8. ChainFrom(next, head) = SubSeq(at, 1, C + 1)
    BY <2>7, Zenon DEF ChainFrom, at
  <2>9. Len(SubSeq(at, 1, C + 1)) = C + 1
    BY <1>1, <1>2
  <2> QED BY <1>1, <2>8, <2>9 DEF Terminates, C
<1> QED BY <1>3, <1>4
=============================================================================
