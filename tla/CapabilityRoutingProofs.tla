---------------------- MODULE CapabilityRoutingProofs ----------------------
(***************************************************************************)
(* Proofs about CapabilityRouting, for any binaries, contracts, models and *)
(* bindings: what the tensor holds in every step of a refresh, and what    *)
(* the router answers between refreshes.                                   *)
(***************************************************************************)
EXTENDS CapabilityRouting, DataTheorems

(* The binaries whose populators are on the host's chain.                  *)
Present(b) == b \in Plugins => phase[b] = "attached"

(* Where the redirects and the statics of an image are in each phase.      *)
ImagesInv ==
  /\ ~remote[Host]
  /\ \A p \in Plugins : remote[p] <=> phase[p] \in {"attached", "detached"}
  /\ \A p \in Plugins : ~remote[p] => arena[p] = NoArenas
  /\ \A b \in Binary, c \in Contract : ArenaOf(b, c) # b => arena[b][c] = << >>

(* The host's populators, and those of the plugins that are attached, are  *)
(* on the chain and, once there was a refresh, in its cached walk.         *)
ChainInv ==
  /\ \A p \in Range(chain) \cup Range(cache) : Present(Home[p])
  /\ \A b \in Binary : Present(b) => Range(LocalChain[b]) \subseteq Range(chain)
  /\ \A b \in Plugins : Present(b) => Range(LocalChain[b]) \subseteq Range(cache)
  /\ (caller = Host \/ built[Host] \/ cache # << >>) =>
       Range(LocalChain[Host]) \subseteq Range(cache)

(* The visits that a call has still to make.                               *)
CallInv ==
  /\ caller = Null => passes = << >>
  /\ passes \in {<< >>, <<"populate">>, ClearAndFill, <<"populate", "clear", "populate">>,
                 <<"clear", "populate", "clear", "populate">>}

(* A row belongs to a model with a slot, if one directory numbers the      *)
(* cells of the contract.                                                  *)
RowsInv ==
  \A b \in Binary, c \in OneDirectory : \A j \in DOMAIN arena[b][c] :
    \A t \in Targets(arena[b][c][j]) :
      /\ ((j - 1) \div Volume[c]) + 1 \in DOMAIN index[IndexOf(b)]
      /\ index[IndexOf(b)][((j - 1) \div Volume[c]) + 1] = Bound[t.by]
      /\ t.cell = ((j - 1) % Volume[c]) + 1

(* The visit under way has still to clear the arenas of c.                 *)
Unclear(c) ==
  /\ passes # << >> /\ Head(passes) = "clear" /\ cache # << >>
  /\ \A k \in 1 .. at - 1 : ~(Home[cache[k]] = Host /\ Binds(cache[k], c))

(* A target of an image that has been shut down is left only until the     *)
(* refresh of the shutdown clears the arena.                               *)
TargetsInv ==
  \A c \in HostBound : \A j \in DOMAIN arena[Host][c] :
    \A t \in Targets(arena[Host][c][j]) :
      \/ Present(Home[t.by])
      \/ Unclear(c) /\ phase[Home[t.by]] = "detached"

-----------------------------------------------------------------------------
(* What a cell holds.                                                      *)

(* The bindings before the l-th of the n-th populator of the walk.         *)
Filling(b, c, m, n, l) == {kl \in Bindings(b, c, m) : Lex(kl, <<n, l>>)}

(* The bindings of one kind at the i-th cell.                              *)
OfKind(kls, kind, i) == {kl \in kls : KindAt(kl, i) = kind}

(* The rules of the bindings kls in order, and their last fallback.        *)
ListsRules(seq, kls, i) ==
  \E w \in [1 .. Len(seq) -> OfKind(kls, "rule", i)] :
    /\ \A x \in 1 .. Len(seq) : seq[x] = AtCell(w[x], i)
    /\ \A x, y \in 1 .. Len(seq) : x < y => Lex(w[x], w[y])
    /\ \A kl \in OfKind(kls, "rule", i) : \E x \in 1 .. Len(seq) : w[x] = kl

(* The last fallback among the bindings kls, or Null if there is none.     *)
LastFallback(target, kls, i) ==
  \/ OfKind(kls, "fallback", i) = {} /\ target = Null
  \/ \E kl \in OfKind(kls, "fallback", i) :
       /\ target = AtCell(kl, i)
       /\ \A other \in OfKind(kls, "fallback", i) \ {kl} : Lex(other, kl)

(* A cell that the arena has not grown to yet is empty.                    *)
CellIn(cells, j) == IF j \in DOMAIN cells THEN cells[j] ELSE EmptyCell

(* A cell that the bindings kls, and no others, were written to.           *)
CellHolds(cell, kls, i) ==
  ListsRules(cell.rules, kls, i) /\ LastFallback(cell.fallback, kls, i)

(* The i-th cell of the row of slot s - 1.                                 *)
Place(c, s, i) == (s - 1) * Volume[c] + i

(* b's arena of c holds the bindings before the l-th of the n-th populator *)
(* and nothing else, in the rows of their models.                          *)
Holds(cells, idx, b, c, n, l) ==
  \A m \in Model :
    /\ m \notin Range(idx) => Filling(b, c, m, n, l) = {}
    /\ \A s \in DOMAIN idx : idx[s] = m => \A i \in 1 .. Volume[c] :
         CellHolds(CellIn(cells, Place(c, s, i)), Filling(b, c, m, n, l), i)

(* The arenas that some populator of the walk fills.                       *)
Served(b, c) == ArenaOf(b, c) = b /\ \E k \in DOMAIN cache : Serves(cache[k], b, c)

(* The populators before this one have filled the arenas.                  *)
Due == IF passes = << >> THEN Len(cache) + 1 ELSE at

(* The visit under way clears.                                             *)
Clearing == passes # << >> /\ Head(passes) = "clear"

(* Between the visits that clear, an arena holds what the populators that  *)
(* the fill has been to bind.                                              *)
FillInv ==
  \A b \in Binary, c \in OneDirectory : Served(b, c) =>
    IF Clearing
    THEN \A k \in 1 .. at - 1 : Serves(cache[k], b, c) => arena[b][c] = << >>
    ELSE Holds(arena[b][c], index[IndexOf(b)], b, c, Due, 1)

(* The cached walk is in the order of the ranks.                           *)
SortInv ==
  \A i, j \in DOMAIN cache : i < j => Rank[cache[i]] <= Rank[cache[j]]

(* The inductive invariant.                                                *)
Inv == TypeOK /\ ImagesInv /\ ChainInv /\ CallInv /\ RowsInv /\ TargetsInv /\ FillInv

-----------------------------------------------------------------------------
(* The folds.                                                              *)

(* What is kept of a sequence.                                             *)
LEMMA OnlyFacts ==
  ASSUME NEW ps, NEW links \in Seq(Populator)
  PROVE  /\ Only(ps, links) \in Seq(Populator)
         /\ Range(Only(ps, links)) = Range(links) \cap ps
<1> DEFINE n == Len(links)
           X == Seq(Populator)
           op(s, p) == IF p \in ps THEN Append(s, p) ELSE s
           Rec(g) == g = [s \in SUBSET DOMAIN links |->
                            IF s = {} THEN << >> ELSE op(g[s \ {Max(s)}], links[Max(s)])]
           iter == CHOOSE g : Rec(g)
           f == [x \in X \X (1 .. n) |-> op(x[1], links[x[2]])]
<1>1. Only(ps, links) = iter[DOMAIN links]
  BY Zenon DEF Only, FoldLeft, MapThenFoldSet
<1>2. n \in Nat /\ DOMAIN links = 1 .. n /\ << >> \in X
  OBVIOUS
<1>3. \A i \in 1 .. n : links[i] \in Populator
  OBVIOUS
<1>4. \A s \in X, p \in Populator : op(s, p) \in X
  OBVIOUS
<1>5. f \in [X \X (1 .. n) -> X]
  BY <1>3, <1>4
<1>6. PICK g \in [SUBSET (1 .. n) -> X] : Folds(g, f, << >>, n)
  BY <1>2, <1>5, FoldExists
<1>7. ASSUME NEW s \in SUBSET (1 .. n)
      PROVE  g[s] = IF s = {} THEN << >> ELSE op(g[s \ {Max(s)}], links[Max(s)])
  <2>1. s # {} => Max(s) \in 1 .. n /\ g[s \ {Max(s)}] \in X
    BY <1>2, GreatestExists
  <2> QED BY <1>6, <2>1 DEF Folds
<1>8. Rec(g)
  <2> HIDE DEF op
  <2> QED BY <1>2, <1>7
<1>9. Rec(iter)
  <2> HIDE DEF Rec
  <2> QED BY <1>8
<1>10. \A s \in SUBSET (1 .. n) :
         iter[s] = IF s = {} THEN << >> ELSE op(iter[s \ {Max(s)}], links[Max(s)])
  <2> HIDE DEF op, iter
  <2> QED BY <1>2, <1>9
<1> HIDE DEF Rec, iter
<1>11. iter[1 .. 0] = << >>
  <2>1. 1 .. 0 = {} /\ 1 .. 0 \in SUBSET (1 .. n)
    OBVIOUS
  <2> HIDE DEF op
  <2> QED BY <1>10, <2>1
<1>12. ASSUME NEW k \in 1 .. n
       PROVE  iter[1 .. k] = op(iter[1 .. k - 1], links[k])
  <2>1. k \in Nat \ {0} /\ 1 .. k \in SUBSET (1 .. n)
    BY <1>2
  <2>2. 1 .. k # {} /\ Max(1 .. k) = k /\ (1 .. k) \ {k} = 1 .. k - 1
    BY <2>1, IntervalRest
  <2> HIDE DEF op
  <2> QED BY <1>10, <2>1, <2>2
<1> DEFINE S == {k \in Nat : k <= n =>
                   /\ iter[1 .. k] \in X
                   /\ Range(iter[1 .. k]) = {links[i] : i \in 1 .. k} \cap ps}
<1>13. 0 \in S
  <2>1. Range(<< >>) = {} /\ \A i : i \notin 1 .. 0
    BY DEF Range
  <2> QED BY <1>2, <1>11, <2>1
<1>14. ASSUME NEW k \in Nat, k \in S PROVE k + 1 \in S
  <2> SUFFICES ASSUME k + 1 <= n
               PROVE  /\ iter[1 .. k + 1] \in X
                      /\ Range(iter[1 .. k + 1]) = {links[i] : i \in 1 .. k + 1} \cap ps
    OBVIOUS
  <2>1. iter[1 .. k] \in X /\ Range(iter[1 .. k]) = {links[i] : i \in 1 .. k} \cap ps
    BY <1>14, <1>2
  <2>2. k + 1 \in 1 .. n /\ links[k + 1] \in Populator
    BY <1>2, <1>3
  <2>3. iter[1 .. k + 1] = op(iter[1 .. k], links[k + 1])
    <3> HIDE DEF op
    <3> QED BY <1>12, <2>2
  <2>4. \A i : i \in 1 .. k + 1 <=> i \in 1 .. k \/ i = k + 1
    OBVIOUS
  <2>5. CASE links[k + 1] \in ps
    <3>1. iter[1 .. k + 1] = Append(iter[1 .. k], links[k + 1])
      BY <2>3, <2>5
    <3>2. Range(iter[1 .. k + 1]) = Range(iter[1 .. k]) \cup {links[k + 1]}
      BY <2>1, <2>2, <3>1, AppendRange
    <3> QED BY <2>1, <2>2, <2>4, <2>5, <3>1, <3>2
  <2>6. CASE links[k + 1] \notin ps
    BY <2>1, <2>3, <2>4, <2>6
  <2> QED BY <2>5, <2>6
<1>15. n \in S
  <2> HIDE DEF S
  <2> QED BY <1>2, <1>13, <1>14, NatSetInduction
<1>16. Range(links) = {links[i] : i \in 1 .. n}
  BY <1>2 DEF Range
<1> QED BY <1>1, <1>2, <1>15, <1>16

(* t is a directory that has the models of s in the same slots, and more.  *)
Grown(s, t) ==
  /\ t \in Seq(Model) /\ IsInjective(t)
  /\ Len(s) <= Len(t) /\ \A i \in 1 .. Len(s) : t[i] = s[i]

(* Nothing is entered twice.                                               *)
LEMMA AppendGrown ==
  ASSUME NEW s, NEW t, Grown(s, t), s \in Seq(Model), NEW x \in Model, x \notin Range(t)
  PROVE  Grown(s, Append(t, x))
<1>1. /\ Append(t, x) \in Seq(Model) /\ Len(t) \in Nat /\ Len(s) \in Nat
      /\ Len(Append(t, x)) = Len(t) + 1
      /\ DOMAIN t = 1 .. Len(t) /\ DOMAIN Append(t, x) = 1 .. Len(t) + 1
      /\ \A i \in 1 .. Len(t) : Append(t, x)[i] = t[i]
      /\ Append(t, x)[Len(t) + 1] = x
  BY DEF Grown
<1>2. \A i \in 1 .. Len(t) : t[i] # x
  BY <1>1 DEF Range
<1>3. ASSUME NEW i \in 1 .. Len(t) + 1, NEW j \in 1 .. Len(t) + 1,
             Append(t, x)[i] = Append(t, x)[j]
      PROVE  i = j
  <2>1. \A k \in 1 .. Len(t) + 1 : k \in 1 .. Len(t) \/ k = Len(t) + 1
    BY <1>1
  <2> QED BY <1>1, <1>2, <1>3, <2>1 DEF Grown, IsInjective
<1>4. IsInjective(Append(t, x))
  BY <1>1, <1>3 DEF IsInjective
<1> QED BY <1>1, <1>4 DEF Grown

(* DenseIndexStore::Refresh keeps the slots there are, and gives each of   *)
(* the models one (dense_index.hpp).                                       *)
LEMMA InternFacts ==
  ASSUME NEW idx \in Seq(Model), IsInjective(idx), NEW models \in Seq(Model)
  PROVE  /\ Grown(idx, Intern(idx, models))
         /\ Range(Intern(idx, models)) = Range(idx) \cup Range(models)
<1> DEFINE n == Len(models)
           X == Seq(Model)
           op(s, x) == IF x \in Range(s) THEN s ELSE Append(s, x)
           Rec(g) == g = [s \in SUBSET DOMAIN models |->
                            IF s = {} THEN idx ELSE op(g[s \ {Max(s)}], models[Max(s)])]
           iter == CHOOSE g : Rec(g)
           f == [x \in X \X (1 .. n) |-> op(x[1], models[x[2]])]
<1>1. Intern(idx, models) = iter[DOMAIN models]
  BY Zenon DEF Intern, FoldLeft, MapThenFoldSet
<1>2. n \in Nat /\ DOMAIN models = 1 .. n /\ idx \in X
  OBVIOUS
<1>3. \A i \in 1 .. n : models[i] \in Model
  OBVIOUS
<1>4. \A s \in X, x \in Model : op(s, x) \in X
  OBVIOUS
<1>5. f \in [X \X (1 .. n) -> X]
  <2> HIDE DEF op
  <2> QED BY <1>3, <1>4
<1>6. PICK g \in [SUBSET (1 .. n) -> X] : Folds(g, f, idx, n)
  BY <1>2, <1>5, FoldExists
<1>7. ASSUME NEW s \in SUBSET (1 .. n)
      PROVE  g[s] = IF s = {} THEN idx ELSE op(g[s \ {Max(s)}], models[Max(s)])
  <2>1. s # {} => Max(s) \in 1 .. n /\ g[s \ {Max(s)}] \in X
    BY <1>2, GreatestExists
  <2> HIDE DEF op
  <2> QED BY <1>6, <2>1 DEF Folds
<1>8. Rec(g)
  <2> HIDE DEF op
  <2> QED BY <1>2, <1>7
<1>9. Rec(iter)
  <2> HIDE DEF Rec
  <2> QED BY <1>8
<1>10. \A s \in SUBSET (1 .. n) :
         iter[s] = IF s = {} THEN idx ELSE op(iter[s \ {Max(s)}], models[Max(s)])
  <2> HIDE DEF op, iter
  <2> QED BY <1>2, <1>9
<1> HIDE DEF Rec, iter
<1>11. iter[1 .. 0] = idx
  <2>1. 1 .. 0 = {} /\ 1 .. 0 \in SUBSET (1 .. n)
    OBVIOUS
  <2> HIDE DEF op
  <2> QED BY <1>10, <2>1
<1>12. ASSUME NEW k \in 1 .. n
       PROVE  iter[1 .. k] = op(iter[1 .. k - 1], models[k])
  <2>1. k \in Nat \ {0} /\ 1 .. k \in SUBSET (1 .. n)
    BY <1>2
  <2>2. 1 .. k # {} /\ Max(1 .. k) = k /\ (1 .. k) \ {k} = 1 .. k - 1
    BY <2>1, IntervalRest
  <2> HIDE DEF op
  <2> QED BY <1>10, <2>1, <2>2
<1> DEFINE S == {k \in Nat : k <= n =>
                   /\ Grown(idx, iter[1 .. k])
                   /\ Range(iter[1 .. k]) = Range(idx) \cup {models[i] : i \in 1 .. k}}
<1>13. 0 \in S
  <2>1. \A i : i \notin 1 .. 0
    OBVIOUS
  <2>2. Grown(idx, idx)
    BY DEF Grown
  <2> QED BY <1>2, <1>11, <2>1, <2>2
<1>14. ASSUME NEW k \in Nat, k \in S PROVE k + 1 \in S
  <2> SUFFICES ASSUME k + 1 <= n
               PROVE  /\ Grown(idx, iter[1 .. k + 1])
                      /\ Range(iter[1 .. k + 1]) = Range(idx) \cup {models[i] : i \in 1 .. k + 1}
    OBVIOUS
  <2>1. /\ Grown(idx, iter[1 .. k])
        /\ Range(iter[1 .. k]) = Range(idx) \cup {models[i] : i \in 1 .. k}
    BY <1>14, <1>2
  <2>2. k + 1 \in 1 .. n /\ models[k + 1] \in Model
    BY <1>2, <1>3
  <2>3. iter[1 .. k + 1] = op(iter[1 .. k], models[k + 1])
    <3> HIDE DEF op
    <3> QED BY <1>12, <2>2
  <2>4. \A i : i \in 1 .. k + 1 <=> i \in 1 .. k \/ i = k + 1
    OBVIOUS
  <2>5. CASE models[k + 1] \notin Range(iter[1 .. k])
    <3>1. iter[1 .. k + 1] = Append(iter[1 .. k], models[k + 1])
      BY <2>3, <2>5
    <3>2. iter[1 .. k] \in Seq(Model)
      BY <2>1 DEF Grown
    <3>3. Range(iter[1 .. k + 1]) = Range(iter[1 .. k]) \cup {models[k + 1]}
      BY <2>2, <3>1, <3>2, AppendRange
    <3>4. Grown(idx, iter[1 .. k + 1])
      BY <2>1, <2>2, <2>5, <3>1, AppendGrown
    <3> QED BY <2>1, <2>4, <3>3, <3>4
  <2>6. CASE models[k + 1] \in Range(iter[1 .. k])
    BY <2>1, <2>3, <2>4, <2>6
  <2> QED BY <2>5, <2>6
<1>15. n \in S
  <2> HIDE DEF S
  <2> QED BY <1>2, <1>13, <1>14, NatSetInduction
<1>16. Range(models) = {models[i] : i \in 1 .. n}
  BY <1>2 DEF Range
<1> QED BY <1>1, <1>2, <1>15, <1>16

(* In the order that SortCache gives.                                      *)
Sorted(walk) ==
  \A i, j \in DOMAIN walk : i < j => Rank[walk[i]] <= Rank[walk[j]]

(* Behind walks of ranks below k come those of rank k.                     *)
LEMMA SortedConcat ==
  ASSUME NEW s \in Seq(Populator), NEW t \in Seq(Populator), NEW k \in Nat,
         Sorted(s), \A p \in Range(s) : Rank[p] <= k,
         \A p \in Range(t) : Rank[p] = k + 1
  PROVE  Sorted(s \o t)
<1>1. /\ DOMAIN s = 1 .. Len(s) /\ DOMAIN t = 1 .. Len(t)
      /\ DOMAIN (s \o t) = 1 .. Len(s) + Len(t)
      /\ Len(s) \in Nat /\ Len(t) \in Nat
  OBVIOUS
<1>2. \A i \in 1 .. Len(s) + Len(t) :
        (s \o t)[i] = IF i <= Len(s) THEN s[i] ELSE t[i - Len(s)]
  BY ConcatFacts
<1>3. \A i \in 1 .. Len(s) : Rank[s[i]] <= k /\ Rank[s[i]] \in Nat
  <2>1. \A i \in 1 .. Len(s) : s[i] \in Range(s) /\ s[i] \in Populator
    BY <1>1 DEF Range
  <2>2. \A p \in Populator : Rank[p] \in Nat
    BY RoutingAssumption
  <2> QED BY <2>1, <2>2
<1>4. \A i \in 1 .. Len(t) : Rank[t[i]] = k + 1
  BY <1>1 DEF Range
<1>5. ASSUME NEW i \in 1 .. Len(s) + Len(t), NEW j \in 1 .. Len(s) + Len(t), i < j
      PROVE  Rank[(s \o t)[i]] <= Rank[(s \o t)[j]]
  <2>1. CASE j <= Len(s)
    <3>1. i \in DOMAIN s /\ j \in DOMAIN s
      BY <1>1, <1>5, <2>1
    <3>2. Rank[s[i]] <= Rank[s[j]]
      BY <1>5, <3>1 DEF Sorted
    <3> QED BY <1>2, <1>5, <2>1, <3>2
  <2>2. CASE ~(j <= Len(s))
    <3>1. (s \o t)[j] = t[j - Len(s)] /\ j - Len(s) \in 1 .. Len(t)
      BY <1>1, <1>2, <2>2
    <3>2. Rank[(s \o t)[j]] = k + 1
      BY <1>4, <3>1
    <3>3. CASE i <= Len(s)
      <4>1. i \in 1 .. Len(s) /\ (s \o t)[i] = s[i]
        BY <1>1, <1>2, <3>3
      <4> QED BY <1>3, <3>2, <4>1
    <3>4. CASE ~(i <= Len(s))
      <4>1. (s \o t)[i] = t[i - Len(s)] /\ i - Len(s) \in 1 .. Len(t)
        BY <1>1, <1>2, <3>4
      <4> QED BY <1>4, <3>2, <4>1
    <3> QED BY <3>3, <3>4
  <2> QED BY <2>1, <2>2
<1> QED BY <1>1, <1>5 DEF Sorted

(* SortCache keeps the populators of a walk and brings them into order.    *)
LEMMA WalkFacts ==
  ASSUME NEW b, NEW links \in Seq(Populator)
  PROVE  /\ Walk(b, links) \in Seq(Populator)
         /\ Range(Walk(b, links)) = Range(links)
         /\ b \in Sorting => Sorted(Walk(b, links))
<1>1. CASE b \notin Sorting
  BY <1>1 DEF Walk
<1>2. CASE b \in Sorting
  <2> DEFINE n == Cardinality(Populator)
             X == Seq(Populator)
             seqs == [r \in 1 .. n |-> Only({p \in Populator : Rank[p] = r}, links)]
             Rec(h) == h = [i \in 1 .. Len(seqs) |->
                              IF i = 1 THEN seqs[i] ELSE h[i - 1] \o seqs[i]]
             flatten == CHOOSE h : Rec(h)
             f == [x \in X \X (1 .. n) |->
                     IF x[2] = 1 THEN seqs[1] ELSE x[1] \o seqs[x[2]]]
  <2>1. n \in Nat
    BY RoutingAssumption, FS_CardinalityType
  <2>2. ASSUME NEW r \in 1 .. n
        PROVE  /\ seqs[r] \in X
               /\ Range(seqs[r]) = {p \in Range(links) : Rank[p] = r}
    <3>1. Range(links) \subseteq Populator
      BY DEF Range
    <3> QED BY <3>1, OnlyFacts
  <2>3. seqs \in Seq(X) /\ Len(seqs) = n
    <3> HIDE DEF n, X
    <3>1. \A r \in 1 .. n : seqs[r] \in X
      BY <2>2
    <3> QED BY <2>1, <3>1
  <2>4. Walk(b, links) = FlattenSeq(seqs)
    BY <1>2 DEF Walk
  <2> HIDE DEF seqs
  <2>5. FlattenSeq(seqs) = IF n = 0 THEN seqs ELSE flatten[n]
    <3>1. FlattenSeq(seqs) = IF Len(seqs) = 0 THEN seqs ELSE flatten[Len(seqs)]
      BY Zenon DEF FlattenSeq
    <3> HIDE DEF flatten
    <3> QED BY <2>3, <3>1
  <2>6. f \in [X \X (1 .. n) -> X]
    <3>1. \A s \in X, r \in 1 .. n : s \o seqs[r] \in X
      BY <2>2, ConcatFacts
    <3> QED BY <2>2, <3>1
  <2>7. PICK g \in [SUBSET (1 .. n) -> X] : Folds(g, f, << >>, n)
    <3>1. << >> \in X
      OBVIOUS
    <3> HIDE DEF f, X, n
    <3> QED BY <2>1, <2>6, <3>1, FoldExists
  <2> DEFINE h == [i \in 1 .. n |-> g[1 .. i]]
  <2>8. ASSUME NEW i \in 1 .. n
        PROVE  h[i] = IF i = 1 THEN seqs[i] ELSE h[i - 1] \o seqs[i]
    <3>1. /\ 1 .. i # {} /\ Max(1 .. i) = i /\ (1 .. i) \ {i} = 1 .. i - 1
          /\ 1 .. i \in SUBSET (1 .. n) /\ 1 .. i - 1 \in SUBSET (1 .. n)
      <4>1. i \in Nat \ {0} /\ i <= n
        BY <2>1
      <4> HIDE DEF n, X, f, h
      <4>2. 1 .. i \in SUBSET (1 .. n) /\ 1 .. i - 1 \in SUBSET (1 .. n)
        BY <2>1, <4>1
      <4> QED BY <4>1, <4>2, IntervalRest
    <3>2. g[1 .. i] = f[<<g[1 .. i - 1], i>>]
      <4> HIDE DEF f
      <4> QED BY <2>7, <3>1 DEF Folds
    <3>3. g[1 .. i - 1] \in X
      BY <3>1
    <3>4. g[1 .. i] = IF i = 1 THEN seqs[1] ELSE g[1 .. i - 1] \o seqs[i]
      BY <3>2, <3>3
    <3>5. i # 1 => i - 1 \in 1 .. n
      BY <2>1
    <3> QED BY <3>4, <3>5
  <2> HIDE DEF n
  <2>9. Rec(h)
    <3> HIDE DEF h
    <3>1. DOMAIN h = 1 .. n /\ h = [i \in DOMAIN h |-> h[i]]
      BY DEF h
    <3> QED BY <2>3, <2>8, <3>1
  <2>10. Rec(flatten)
    <3> HIDE DEF Rec
    <3> QED BY <2>9
  <2> HIDE DEF flatten, h, f
  <2>11. \A i \in 1 .. n :
           flatten[i] = IF i = 1 THEN seqs[i] ELSE flatten[i - 1] \o seqs[i]
    BY <2>3, <2>10
  <2> HIDE DEF Rec
  <2> DEFINE Part(k) == /\ flatten[k] \in X
                        /\ Range(flatten[k]) = {p \in Range(links) : Rank[p] <= k}
                        /\ Sorted(flatten[k])
             S == {k \in Nat : k + 1 <= n => Part(k + 1)}
  <2>12. \A p \in Range(links) : p \in Populator /\ Rank[p] \in 1 .. n
    BY RoutingAssumption DEF Range, n
  <2>13. 0 \in S
    <3> SUFFICES ASSUME 1 <= n PROVE Part(1)
      OBVIOUS
    <3>1. flatten[1] = seqs[1] /\ 1 \in 1 .. n
      BY <2>1, <2>11
    <3>2. flatten[1] \in X /\ Range(flatten[1]) = {p \in Range(links) : Rank[p] = 1}
      BY <2>2, <3>1
    <3>3. \A i \in DOMAIN flatten[1] : Rank[flatten[1][i]] = 1
      BY <3>2 DEF Range
    <3>4. Sorted(flatten[1])
      BY <3>3 DEF Sorted
    <3>5. \A p \in Range(links) : Rank[p] = 1 <=> Rank[p] <= 1
      BY <2>1, <2>12
    <3> QED BY <3>2, <3>4, <3>5
  <2>14. ASSUME NEW k \in Nat, k \in S PROVE k + 1 \in S
    <3> SUFFICES ASSUME k + 1 + 1 <= n PROVE Part(k + 1 + 1)
      OBVIOUS
    <3>1. Part(k + 1)
      <4> HIDE DEF Part
      <4> QED BY <2>1, <2>14
    <3> DEFINE j == k + 1
    <3>2. j \in Nat /\ j + 1 \in 1 .. n /\ (j + 1) - 1 = j /\ j + 1 # 1
      BY <2>1
    <3> HIDE DEF j
    <3>3. flatten[j + 1] = flatten[j] \o seqs[j + 1]
      BY <2>11, <3>2
    <3>4. /\ flatten[j] \in X /\ Sorted(flatten[j])
          /\ Range(flatten[j]) = {p \in Range(links) : Rank[p] <= j}
      BY <3>1 DEF j
    <3>5. /\ seqs[j + 1] \in X
          /\ Range(seqs[j + 1]) = {p \in Range(links) : Rank[p] = j + 1}
      BY <2>2, <3>2
    <3>6. flatten[j + 1] \in X
      BY <3>3, <3>4, <3>5, ConcatFacts
    <3>7. Range(flatten[j + 1]) = Range(flatten[j]) \cup Range(seqs[j + 1])
      BY <3>3, <3>4, <3>5, ConcatRange
    <3>8. Sorted(flatten[j + 1])
      BY <3>2, <3>3, <3>4, <3>5, SortedConcat
    <3>9. \A p \in Range(links) : Rank[p] <= j + 1 <=> Rank[p] <= j \/ Rank[p] = j + 1
      BY <2>1, <2>12, <3>2
    <3>10. Part(j + 1)
      BY <3>4, <3>5, <3>6, <3>7, <3>8, <3>9
    <3> QED BY <3>10 DEF j
  <2>15. CASE n = 0
    <3>1. FlattenSeq(seqs) = << >> /\ links = << >>
      <4>1. seqs = << >>
        BY <2>3, <2>5, <2>15
      <4>2. \A i \in DOMAIN links : links[i] \in Range(links)
        BY DEF Range
      <4>3. \A i \in DOMAIN links : FALSE
        BY <2>12, <2>15, <4>2
      <4>4. links = << >>
        <5>1. DOMAIN links = 1 .. Len(links) /\ Len(links) \in Nat
          OBVIOUS
        <5>2. Len(links) = 0
          <6> SUFFICES ASSUME Len(links) # 0 PROVE FALSE
            OBVIOUS
          <6>1. 1 \in 1 .. Len(links)
            BY <5>1
          <6> QED BY <4>3, <5>1, <6>1
        <5> QED BY <5>2
      <4> QED BY <2>5, <2>15, <4>1, <4>4
    <3>2. Sorted(<< >>)
      BY DEF Sorted
    <3> QED BY <2>4, <3>1, <3>2
  <2>16. CASE n # 0
    <3>1. Part(n)
      <4>1. Nat \subseteq S
        <5> HIDE DEF S
        <5> QED BY <2>13, <2>14, NatSetInduction
      <4>2. n - 1 \in Nat /\ (n - 1) + 1 = n
        BY <2>1, <2>16
      <4>3. n - 1 \in S
        BY <4>1, <4>2
      <4>4. Part((n - 1) + 1)
        <5> HIDE DEF Part
        <5> QED BY <2>1, <4>2, <4>3
      <4> HIDE DEF Part
      <4> QED BY <4>2, <4>4
    <3>2. \A p \in Range(links) : Rank[p] <= n
      BY <2>1, <2>12
    <3>3. Walk(b, links) = flatten[n]
      BY <2>4, <2>5, <2>16
    <3> QED BY <3>1, <3>2, <3>3
  <2> QED BY <2>15, <2>16
<1> QED BY <1>1, <1>2

-----------------------------------------------------------------------------
(* Slots, cells and rows.                                                  *)

(* The slot of a model is where the directory has it.                      *)
LEMMA SlotFacts ==
  ASSUME NEW idx \in Seq(Model), IsInjective(idx), NEW s \in DOMAIN idx
  PROVE  Slot(idx, idx[s]) = s - 1
<1> DEFINE I == {i \in 1 .. Len(idx) : idx[i] = idx[s]}
<1>1. DOMAIN idx = 1 .. Len(idx)
  OBVIOUS
<1>2. I = {s}
  BY <1>1 DEF IsInjective
<1>3. s \in Nat
  BY <1>1
<1>4. Min(I) = s
  <2>1. Min({s}) = s
    <3>1. s \in {s} /\ \A y \in {s} : s <= y
      BY <1>3
    <3>2. \A x \in {s} : x = s
      OBVIOUS
    <3> QED BY <3>1, <3>2, Zenon DEF Min
  <2> QED BY <1>2, <2>1
<1>5. SelectInSeq(idx, LAMBDA x : x = idx[s]) = IF I # {} THEN Min(I) ELSE 0
  BY Zenon DEF SelectInSeq
<1>6. SelectInSeq(idx, LAMBDA x : x = idx[s]) = s
  <2> HIDE DEF I
  <2> QED BY <1>2, <1>4, <1>5
<1> QED BY <1>6, Zenon DEF Slot

(* A capability has a kind for every cell of its contract's space.         *)
LEMMA CapsFacts ==
  ASSUME NEW p \in Populator
  PROVE  /\ Home[p] \in Binary /\ Bound[p] \in Model
         /\ Caps[p] \in Seq([contract : Contract, kinds : Seq(Kind)])
         /\ Len(Caps[p]) \in Nat /\ DOMAIN Caps[p] = 1 .. Len(Caps[p])
         /\ \A l \in DOMAIN Caps[p] :
              /\ Caps[p][l].contract \in Contract
              /\ Volume[Caps[p][l].contract] \in Nat \ {0}
              /\ DOMAIN Caps[p][l].kinds = 1 .. Volume[Caps[p][l].contract]
              /\ \A i \in DOMAIN Caps[p][l].kinds : Caps[p][l].kinds[i] \in Kind
<1>1. Caps[p] \in Seq([contract : Contract, kinds : Seq(Kind)])
  BY RoutingAssumption
<1>2. Len(Caps[p]) \in Nat /\ DOMAIN Caps[p] = 1 .. Len(Caps[p])
  BY <1>1
<1>3. ASSUME NEW l \in DOMAIN Caps[p]
      PROVE  /\ Caps[p][l].contract \in Contract
             /\ Volume[Caps[p][l].contract] \in Nat \ {0}
             /\ DOMAIN Caps[p][l].kinds = 1 .. Volume[Caps[p][l].contract]
             /\ \A i \in DOMAIN Caps[p][l].kinds : Caps[p][l].kinds[i] \in Kind
  <2>1. Caps[p][l] \in [contract : Contract, kinds : Seq(Kind)]
    <3> DEFINE R == [contract : Contract, kinds : Seq(Kind)]
               s == Caps[p]
    <3>1. s \in Seq(R) /\ l \in DOMAIN s
      BY <1>1
    <3> HIDE DEF R, s
    <3>2. s[l] \in R
      BY <3>1
    <3> QED BY <3>2 DEF R, s
  <2>2. Len(Caps[p][l].kinds) = Volume[Caps[p][l].contract]
    BY RoutingAssumption
  <2> QED BY <2>1, <2>2, RoutingAssumption
<1> QED BY <1>1, <1>2, <1>3, RoutingAssumption

(* Rows before row s and row s itself are whole rows.                      *)
LEMMA RowsWhole ==
  ASSUME NEW v \in Nat \ {0}, NEW s \in Nat
  PROVE  (s * v + v) % v = 0
<1>1. s * v + v = v * (s + 1) /\ s + 1 \in Nat
  OBVIOUS
<1>2. \A x \in Nat \ {0}, y \in Nat : (x * y) % x = 0
  OBVIOUS
<1> QED BY <1>1, <1>2

(* The cells of row s of an arena, s counting from 0, are those whose      *)
(* index divided by the volume is s.                                       *)
InRow(j, v, s) == (j - 1) \div v = s /\ ((j - 1) % v) + 1 = j - s * v

LEMMA RowOf ==
  ASSUME NEW v \in Nat \ {0}, NEW s \in Nat, NEW j \in Nat \ {0}, j - s * v \in 1 .. v
  PROVE  InRow(j, v, s)
<1>1. \E i \in 1 .. v : j = s * v + i
  OBVIOUS
<1>2. PICK i \in 1 .. v : j = s * v + i
  BY <1>1
<1>3. (s * v + i - 1) \div v = s /\ (s * v + i - 1) % v = i - 1
  BY SMTT(30)
<1> QED BY <1>2, <1>3 DEF InRow

(* A cell that is bound to is a cell.                                      *)
LEMMA BindType ==
  ASSUME NEW cell \in Cell, NEW kind \in Kind, NEW t \in Target
  PROVE  /\ Bind(cell, kind, t) \in Cell
         /\ Targets(Bind(cell, kind, t)) \subseteq Targets(cell) \cup {t}
<1>1. cell.rules \in Seq(Target) /\ cell.fallback \in Target \cup {Null}
  BY DEF Cell
<1>2. CASE kind = "rule"
  <2>1. Bind(cell, kind, t) = [cell EXCEPT !.rules = Append(@, t)]
    BY <1>2, Zenon DEF Bind
  <2>2. Append(cell.rules, t) \in Seq(Target)
        /\ Range(Append(cell.rules, t)) = Range(cell.rules) \cup {t}
    BY <1>1, AppendRange
  <2>3. /\ Bind(cell, kind, t).rules = Append(cell.rules, t)
        /\ Bind(cell, kind, t).fallback = cell.fallback
    BY <2>1 DEF Cell
  <2>4. Bind(cell, kind, t) \in Cell
    BY <2>1, <2>2 DEF Cell
  <2> QED BY <2>2, <2>3, <2>4 DEF Targets
<1>3. CASE kind = "fallback"
  <2>1. Bind(cell, kind, t) = [cell EXCEPT !.fallback = t]
    BY <1>3, Zenon DEF Bind
  <2> QED BY <2>1 DEF Cell, Targets
<1>4. CASE kind = "none"
  <2>1. Bind(cell, kind, t) = cell
    BY <1>4, Zenon DEF Bind
  <2> QED BY <2>1
<1> QED BY <1>2, <1>3, <1>4 DEF Kind

(* The arenas that TypeOK admits: whole rows of cells.                     *)
Arenas ==
  {a \in [Binary -> [Contract -> Seq(Cell)]] :
     \A b \in Binary, c \in Contract : Len(a[b][c]) % Volume[c] = 0}

(* The greater of two numbers.                                             *)
LEMMA GreaterOf ==
  ASSUME NEW x \in Nat, NEW y \in Nat
  PROVE  Max({x, y}) = IF x >= y THEN x ELSE y
<1> DEFINE z == IF x >= y THEN x ELSE y
<1>1. z \in {x, y} /\ \A w \in {x, y} : z >= w
  OBVIOUS
<1>2. \A u \in {x, y} : (\A w \in {x, y} : u >= w) => u = z
  OBVIOUS
<1> HIDE DEF z
<1>3. Max({x, y}) = z
  BY <1>1, <1>2, Zenon DEF Max
<1> QED BY <1>3 DEF z

(* The i-th cell of p's row, and any other, after the l-th capability.     *)
CellFilled(cell, p, l, v, i) ==
  IF i \in 1 .. v THEN Bind(cell, Caps[p][l].kinds[i], TargetOf(p, l, i)) ELSE cell

(* What the fill of a row does to the cells, those behind the arena's end  *)
(* being empty: those of the row get the capability, no others.            *)
RowFilled(filled, cells, slot, p, l, v) ==
  \A j \in Nat \ {0} :
    CellIn(filled, j) = CellFilled(CellIn(cells, j), p, l, v, j - slot * v)

LEMMA FillCellsFacts ==
  ASSUME NEW cells \in Seq(Cell), NEW slot \in Nat, NEW p \in Populator,
         NEW l \in DOMAIN Caps[p], NEW v, v = Volume[Caps[p][l].contract],
         Len(cells) % v = 0
  PROVE  /\ FillCells(cells, slot, p, l) \in Seq(Cell)
         /\ Len(FillCells(cells, slot, p, l)) % v = 0
         /\ RowFilled(FillCells(cells, slot, p, l), cells, slot, p, l, v)
<1> DEFINE base == slot * v
           size == Max({Len(cells), base + v})
           new(j) == LET cell == IF j <= Len(cells) THEN cells[j] ELSE EmptyCell IN
                     IF j - base \in DOMAIN Caps[p][l].kinds
                     THEN Bind(cell, Caps[p][l].kinds[j - base], TargetOf(p, l, j - base))
                     ELSE cell
           r == FillCells(cells, slot, p, l)
<1>1. v \in Nat \ {0} /\ DOMAIN Caps[p][l].kinds = 1 .. v
      /\ \A i \in 1 .. v : Caps[p][l].kinds[i] \in Kind
  BY CapsFacts
<1>2. base \in Nat /\ Len(cells) \in Nat /\ DOMAIN cells = 1 .. Len(cells)
  BY <1>1
<1>3. r = [j \in 1 .. size |-> new(j)]
  BY DEF FillCells
<1>4. size = IF Len(cells) >= base + v THEN Len(cells) ELSE base + v
  <2>1. base + v \in Nat
    BY <1>1, <1>2
  <2> HIDE DEF base
  <2> QED BY <1>2, <2>1, GreaterOf
<1>5. size % v = 0
  <2>1. (slot * v + v) % v = 0
    <3>1. v \in Nat \ {0} /\ slot \in Nat
      BY <1>1
    <3> HIDE DEF base, size, r
    <3> QED BY <3>1, RowsWhole
  <2> HIDE DEF size
  <2> QED BY <1>4, <2>1
<1>6. size \in Nat /\ size >= Len(cells) /\ size >= base + v
  <2> HIDE DEF base, size
  <2> QED BY <1>1, <1>2, <1>4
<1> HIDE DEF size, base, r
<1>7. ASSUME NEW j \in Nat \ {0}
      PROVE  /\ CellIn(cells, j) = IF j <= Len(cells) THEN cells[j] ELSE EmptyCell
             /\ CellIn(cells, j) \in Cell
  <2>1. EmptyCell \in Cell
    BY DEF EmptyCell, Cell
  <2> QED BY <1>2, <2>1 DEF CellIn
<1>8. ASSUME NEW j \in Nat \ {0}
      PROVE  /\ new(j) = IF j - base \in 1 .. v
                         THEN Bind(CellIn(cells, j), Caps[p][l].kinds[j - base],
                                   TargetOf(p, l, j - base))
                         ELSE CellIn(cells, j)
             /\ new(j) \in Cell
  <2>1. new(j) = IF j - base \in 1 .. v
                 THEN Bind(CellIn(cells, j), Caps[p][l].kinds[j - base],
                           TargetOf(p, l, j - base))
                 ELSE CellIn(cells, j)
    BY <1>1, <1>7
  <2>2. CASE j - base \in 1 .. v
    <3>1. TargetOf(p, l, j - base) \in Target
      BY <2>2, CapsFacts DEF TargetOf, Target
    <3>2. Caps[p][l].kinds[j - base] \in Kind
      BY <1>1, <2>2
    <3>3. Bind(CellIn(cells, j), Caps[p][l].kinds[j - base],
               TargetOf(p, l, j - base)) \in Cell
      BY <1>7, <3>1, <3>2, BindType
    <3> QED BY <2>1, <2>2, <3>3
  <2>3. CASE j - base \notin 1 .. v
    BY <1>7, <2>1, <2>3
  <2> QED BY <2>1, <2>2, <2>3
<1> HIDE DEF new
<1>9. r \in Seq(Cell) /\ Len(r) = size /\ DOMAIN r = 1 .. size
  <2>1. \A j \in 1 .. size : new(j) \in Cell
    BY <1>6, <1>8
  <2> QED BY <1>3, <1>6, <2>1
<1>10. ASSUME NEW j \in Nat \ {0}
       PROVE  CellIn(r, j) = new(j)
  <2>1. CASE j \in 1 .. size
    BY <1>3, <1>9, <2>1 DEF CellIn
  <2>2. CASE j \notin 1 .. size
    <3>1. ~(j <= Len(cells)) /\ j - base \notin 1 .. v
      BY <1>1, <1>2, <1>6, <2>2
    <3>2. new(j) = EmptyCell
      BY <1>7, <1>8, <3>1
    <3> QED BY <1>9, <2>2, <3>2 DEF CellIn
  <2> QED BY <2>1, <2>2
<1> QED BY <1>5, <1>8, <1>9, <1>10 DEF r, base, CellFilled, RowFilled

(* One capability is filled in.                                            *)
FillOne(a, p, slot, l) ==
  LET c == Caps[p][l].contract IN
  [a EXCEPT ![ArenaOf(Home[p], c)][c] = FillCells(@, slot, p, l)]

(* An arena is one of some binary, and so is a directory.                  *)
LEMMA ArenaOfBinary ==
  ASSUME NEW b \in Binary, NEW c
  PROVE  ArenaOf(b, c) \in Binary
BY DEF ArenaOf, Binary

(* One capability writes to one arena.                                     *)
LEMMA FillOneFacts ==
  ASSUME NEW a \in Arenas, NEW p \in Populator, NEW slot \in Nat, NEW l \in DOMAIN Caps[p]
  PROVE  /\ FillOne(a, p, slot, l) \in Arenas
         /\ \A b \in Binary, c \in Contract :
              FillOne(a, p, slot, l)[b][c] =
                IF b = ArenaOf(Home[p], c) /\ c = Caps[p][l].contract
                THEN FillCells(a[b][c], slot, p, l) ELSE a[b][c]
<1> DEFINE d == Caps[p][l].contract
           e == ArenaOf(Home[p], d)
<1>1. d \in Contract /\ e \in Binary
  BY CapsFacts, ArenaOfBinary
<1>2. FillOne(a, p, slot, l) = [a EXCEPT ![e][d] = FillCells(@, slot, p, l)]
  BY DEF FillOne
<1>3. a \in [Binary -> [Contract -> Seq(Cell)]] /\ Len(a[e][d]) % Volume[d] = 0
  BY <1>1 DEF Arenas
<1>4. /\ FillCells(a[e][d], slot, p, l) \in Seq(Cell)
      /\ Len(FillCells(a[e][d], slot, p, l)) % Volume[d] = 0
  <2>1. a[e][d] \in Seq(Cell)
    BY <1>1, <1>3
  <2> QED BY <1>3, <2>1, FillCellsFacts
<1>5. \A b \in Binary, c \in Contract :
        FillOne(a, p, slot, l)[b][c] =
          IF b = e /\ c = d THEN FillCells(a[b][c], slot, p, l) ELSE a[b][c]
  <2> HIDE DEF e, d
  <2> QED BY <1>1, <1>2, <1>3
<1>6. FillOne(a, p, slot, l) \in [Binary -> [Contract -> Seq(Cell)]]
  <2> HIDE DEF e, d
  <2> QED BY <1>1, <1>2, <1>3, <1>4
<1>7. \A b \in Binary, c \in Contract : Len(FillOne(a, p, slot, l)[b][c]) % Volume[c] = 0
  <2>1. \A b \in Binary, c \in Contract : Len(a[b][c]) % Volume[c] = 0
    BY DEF Arenas
  <2> HIDE DEF e, d
  <2> QED BY <1>4, <1>5, <2>1
<1>8. FillOne(a, p, slot, l) \in Arenas
  BY <1>6, <1>7 DEF Arenas
<1> QED BY <1>5, <1>8

(* CapabilityBinding::Unit::Fill takes one step per capability.            *)
LEMMA FillSteps ==
  ASSUME arena \in Arenas, NEW p \in Populator, NEW slot \in Nat
  PROVE  \E v \in [0 .. Len(Caps[p]) -> Arenas] :
           /\ v[0] = arena /\ v[Len(Caps[p])] = Filled(p, slot)
           /\ \A l \in 1 .. Len(Caps[p]) : v[l] = FillOne(v[l - 1], p, slot, l)
<1> DEFINE n == Len(Caps[p])
           ids == [i \in DOMAIN Caps[p] |-> i]
           op(a, l) == FillOne(a, p, slot, l)
           Rec(g) == g = [s \in SUBSET DOMAIN ids |->
                            IF s = {} THEN arena ELSE op(g[s \ {Max(s)}], ids[Max(s)])]
           iter == CHOOSE g : Rec(g)
           f == [x \in Arenas \X (1 .. n) |-> op(x[1], x[2])]
<1>1. Filled(p, slot) = iter[DOMAIN ids]
  BY Zenon DEF Filled, FoldLeftDomain, FoldLeft, MapThenFoldSet, FillOne
<1>2. n \in Nat /\ DOMAIN Caps[p] = 1 .. n /\ DOMAIN ids = 1 .. n
      /\ \A i \in 1 .. n : ids[i] = i
  BY CapsFacts
<1>3. f \in [Arenas \X (1 .. n) -> Arenas]
  <2>1. \A a \in Arenas, l \in 1 .. n : op(a, l) \in Arenas
    BY <1>2, FillOneFacts
  <2> HIDE DEF op
  <2> QED BY <2>1
<1>4. PICK g \in [SUBSET (1 .. n) -> Arenas] : Folds(g, f, arena, n)
  <2> HIDE DEF f, n
  <2> QED BY <1>2, <1>3, FoldExists
<1> HIDE DEF n, ids
<1>5. ASSUME NEW s \in SUBSET (1 .. n)
      PROVE  g[s] = IF s = {} THEN arena ELSE op(g[s \ {Max(s)}], ids[Max(s)])
  <2>1. s # {} => Max(s) \in 1 .. n /\ g[s \ {Max(s)}] \in Arenas
    BY <1>2, GreatestExists
  <2> HIDE DEF op
  <2> QED BY <1>2, <1>4, <2>1 DEF Folds
<1>6. Rec(g)
  <2> HIDE DEF op
  <2> QED BY <1>2, <1>5
<1>7. Rec(iter)
  <2> HIDE DEF Rec
  <2> QED BY <1>6
<1>8. \A s \in SUBSET (1 .. n) :
        iter[s] = IF s = {} THEN arena ELSE op(iter[s \ {Max(s)}], ids[Max(s)])
  <2> HIDE DEF op, iter
  <2> QED BY <1>2, <1>7
<1> HIDE DEF Rec, iter, op
<1> DEFINE v == [k \in 0 .. n |-> iter[1 .. k]]
<1>9. v[0] = arena
  <2>1. 1 .. 0 = {} /\ 1 .. 0 \in SUBSET (1 .. n) /\ 0 \in 0 .. n
    BY <1>2
  <2> QED BY <1>8, <2>1
<1>10. ASSUME NEW k \in 1 .. n
       PROVE  v[k] = op(v[k - 1], k)
  <2>1. k \in Nat \ {0} /\ 1 .. k \in SUBSET (1 .. n) /\ k \in 0 .. n /\ k - 1 \in 0 .. n
    BY <1>2
  <2>2. 1 .. k # {} /\ Max(1 .. k) = k /\ (1 .. k) \ {k} = 1 .. k - 1
    BY <2>1, IntervalRest
  <2>3. iter[1 .. k] = op(iter[(1 .. k) \ {k}], ids[k])
    BY <1>8, <2>1, <2>2
  <2>4. iter[1 .. k] = op(iter[1 .. k - 1], k)
    BY <1>2, <2>2, <2>3
  <2> QED BY <2>1, <2>4
<1>11. v[n] = iter[DOMAIN ids]
  <2>1. n \in 0 .. n
    BY <1>2
  <2> QED BY <1>2, <2>1
<1>12. DOMAIN v = 0 .. n /\ v = [k \in DOMAIN v |-> v[k]]
  OBVIOUS
<1> HIDE DEF v
<1> DEFINE S == {k \in Nat : k <= n => v[k] \in Arenas}
<1>13. 0 \in S
  BY <1>9
<1>14. ASSUME NEW k \in Nat, k \in S PROVE k + 1 \in S
  <2> SUFFICES ASSUME k + 1 <= n PROVE v[k + 1] \in Arenas
    OBVIOUS
  <2>1. k + 1 \in 1 .. n /\ (k + 1) - 1 = k /\ v[k] \in Arenas
    BY <1>2, <1>14
  <2>2. v[k + 1] = op(v[k], k + 1)
    BY <1>10, <2>1
  <2> QED BY <1>2, <2>1, <2>2, FillOneFacts DEF op
<1>15. Nat \subseteq S
  <2> HIDE DEF S
  <2> QED BY <1>13, <1>14, NatSetInduction
<1>16. v \in [0 .. n -> Arenas]
  <2>1. \A k \in 0 .. n : v[k] \in Arenas
    BY <1>2, <1>15
  <2> QED BY <1>12, <2>1
<1> QED BY <1>1, <1>9, <1>10, <1>11, <1>16 DEF op, n

-----------------------------------------------------------------------------
(* Types.                                                                  *)

(* The directory a binary reads is one of some binary.                     *)
LEMMA IndexOfBinary ==
  ASSUME NEW b \in Binary
  PROVE  IndexOf(b) \in Binary
BY DEF IndexOf, Binary

(* A refresh of the directory in x with the models of b.                   *)
LEMMA Interned ==
  ASSUME TypeOK, NEW x \in Binary, NEW b \in Binary
  PROVE  /\ Grown(index[x], Intern(index[x], Declared[b]))
         /\ Range(Intern(index[x], Declared[b])) = Range(index[x]) \cup Range(Declared[b])
         /\ Intern(index[x], Declared[b]) \in Seq(Model)
<1>1. index[x] \in Seq(Model) /\ IsInjective(index[x]) /\ Declared[b] \in Seq(Model)
  BY RoutingAssumption DEF TypeOK
<1> QED BY <1>1, InternFacts DEF Grown

(* The directories of all binaries have grown, or are what they were.      *)
Growth == \A b \in Binary : Grown(index[b], index'[b])

(* A refresh of one directory leaves the others, and no model is twice in  *)
(* it.                                                                     *)
LEMMA InternGrowth ==
  ASSUME TypeOK, NEW x \in Binary, NEW b \in Binary,
         index' = [index EXCEPT ![x] = Intern(@, Declared[b])]
  PROVE  /\ index' \in [Binary -> Seq(Model)]
         /\ \A y \in Binary : IsInjective(index'[y])
         /\ Growth
<1>1. index \in [Binary -> Seq(Model)] /\ \A y \in Binary : IsInjective(index[y])
  BY DEF TypeOK
<1>2. \A y \in Binary : index'[y] = IF y = x THEN Intern(index[x], Declared[b]) ELSE index[y]
  BY <1>1
<1>3. \A y \in Binary : Grown(index[y], index[y])
  BY <1>1 DEF Grown
<1>4. \A y \in Binary : Grown(index[y], index'[y])
  BY <1>2, <1>3, Interned
<1>5. index' \in [Binary -> Seq(Model)]
  BY <1>1, Interned
<1> QED BY <1>4, <1>5 DEF Grown, Growth

(* Directories that are what they were count as grown.                     *)
LEMMA UnchangedGrowth ==
  ASSUME TypeOK, UNCHANGED index
  PROVE  Growth
BY DEF TypeOK, Growth, Grown

(* The call of a populator fills the row that its model has.               *)
LEMMA PopulateParts ==
  ASSUME TypeOK, Populate
  PROVE  \E p \in Populator, idx \in Seq(Model) : \E s \in DOMAIN idx :
           /\ at \in DOMAIN cache /\ p = cache[at] /\ p \in Range(cache)
           /\ Grown(index[IndexOf(Home[p])], idx) /\ idx[s] = Bound[p]
           /\ index' = [index EXCEPT ![IndexOf(Home[p])] = Intern(@, Declared[Home[p]])]
           /\ index'[IndexOf(Home[p])] = idx
           /\ s - 1 \in Nat /\ arena' = Filled(p, s - 1)
<1> SUFFICES ASSUME NEW p, p = cache[at]
             PROVE  \E idx \in Seq(Model) : \E s \in DOMAIN idx :
                      /\ at \in DOMAIN cache /\ p \in Populator /\ p \in Range(cache)
                      /\ Grown(index[IndexOf(Home[p])], idx) /\ idx[s] = Bound[p]
                      /\ index' = [index EXCEPT ![IndexOf(Home[p])] =
                                     Intern(@, Declared[Home[p]])]
                      /\ index'[IndexOf(Home[p])] = idx
                      /\ s - 1 \in Nat /\ arena' = Filled(p, s - 1)
  OBVIOUS
<1>1. at \in DOMAIN cache /\ p \in Populator /\ p \in Range(cache)
  <2>1. cache \in Seq(Populator) /\ at \in 1 .. Len(cache)
    BY DEF TypeOK, Populate, Visiting
  <2>2. at \in DOMAIN cache /\ cache[at] \in Populator
    BY <2>1
  <2> QED BY <2>2 DEF Range
<1>2. Home[p] \in Binary /\ IndexOf(Home[p]) \in Binary /\ Bound[p] \in Range(Declared[Home[p]])
  BY <1>1, RoutingAssumption, IndexOfBinary
<1>3. PICK idx : /\ idx = Intern(index[IndexOf(Home[p])], Declared[Home[p]])
                 /\ index' = [index EXCEPT ![IndexOf(Home[p])] = idx]
                 /\ arena' = Filled(p, Slot(idx, Bound[p]))
  BY Zenon DEF Populate
<1>4. /\ Grown(index[IndexOf(Home[p])], idx) /\ idx \in Seq(Model) /\ IsInjective(idx)
      /\ Bound[p] \in Range(idx)
  <2>1. /\ Grown(index[IndexOf(Home[p])], idx) /\ idx \in Seq(Model)
        /\ Range(idx) = Range(index[IndexOf(Home[p])]) \cup Range(Declared[Home[p]])
    BY <1>2, <1>3, Interned
  <2>2. Bound[p] \in Range(idx)
    BY <1>2, <2>1
  <2> QED BY <2>1, <2>2 DEF Grown
<1>5. PICK s \in DOMAIN idx : idx[s] = Bound[p]
  BY <1>4 DEF Range
<1>6. Slot(idx, Bound[p]) = s - 1 /\ s - 1 \in Nat
  BY <1>4, <1>5, SlotFacts
<1>7. index'[IndexOf(Home[p])] = idx
  BY <1>2, <1>3 DEF TypeOK
<1> QED BY <1>1, <1>3, <1>4, <1>5, <1>6, <1>7

(* The arenas, as TypeOK has them.                                         *)
LEMMA ArenasType ==
  TypeOK => arena \in Arenas
BY DEF TypeOK, Arenas

(* A populator's call leaves whole rows.                                   *)
LEMMA FilledType ==
  ASSUME TypeOK, NEW p \in Populator, NEW slot \in Nat
  PROVE  Filled(p, slot) \in Arenas
<1>1. arena \in Arenas /\ Len(Caps[p]) \in Nat
  BY ArenasType, CapsFacts
<1>2. PICK v \in [0 .. Len(Caps[p]) -> Arenas] : v[Len(Caps[p])] = Filled(p, slot)
  BY <1>1, FillSteps
<1> QED BY <1>1, <1>2

(* An arena without cells is a whole number of rows.                       *)
LEMMA VolumeFacts ==
  ASSUME NEW c \in Contract
  PROVE  Volume[c] \in Nat \ {0} /\ 0 % Volume[c] = 0 /\ Len(NoArenas[c]) = 0
<1>1. Volume[c] \in Nat \ {0}
  BY RoutingAssumption
<1>2. NoArenas[c] = << >>
  BY DEF NoArenas
<1> QED BY <1>1, <1>2

(* The initial state has its types.                                        *)
LEMMA InitTypes == Init => TypeOK
<1> SUFFICES ASSUME Init PROVE TypeOK
  OBVIOUS
<1>1. /\ chain \in Seq(Populator) /\ cache \in Seq(Populator)
      /\ index \in [Binary -> Seq(Model)] /\ \A b \in Binary : index[b] = << >>
  BY RoutingAssumption DEF Init, Binary
<1>2. \A b \in Binary : IsInjective(index[b])
  BY <1>1 DEF IsInjective
<1>3. arena \in [Binary -> [Contract -> Seq(Cell)]]
  BY DEF Init, NoArenas
<1>4. \A b \in Binary, c \in Contract : Len(arena[b][c]) % Volume[c] = 0
  <2>1. \A b \in Binary : arena[b] = NoArenas
    BY DEF Init
  <2> QED BY <2>1, VolumeFacts
<1> QED BY <1>1, <1>2, <1>3, <1>4 DEF Init, TypeOK

(* A refresh begins.                                                       *)
LEMMA BeginTypes ==
  ASSUME NEW b \in Binary, Begin(b), cache' \in Seq(Populator)
  PROVE  /\ caller' \in Binary \cup {Null} /\ passes' \in Seq({"clear", "populate"})
         /\ at' \in 1 .. Len(cache') + 1
<1>1. /\ ClearAndFill \in Seq({"clear", "populate"})
      /\ ClearAndFill \o ClearAndFill \in Seq({"clear", "populate"})
  BY DEF ClearAndFill
<1>2. passes' = ClearAndFill \/ passes' = ClearAndFill \o ClearAndFill
  BY DEF Begin
<1>3. at' = 1 /\ caller' = b
  BY DEF Begin
<1>4. Len(cache') \in Nat
  OBVIOUS
<1>5. at' \in 1 .. Len(cache') + 1
  BY <1>3, <1>4
<1> QED BY <1>1, <1>2, <1>3, <1>5

(* A hook runs, or does not.                                               *)
LEMMA HookTypes ==
  ASSUME TypeOK, NEW p \in Binary, Hook(p), IndexOf(p)' \in Binary,
         chain' \in Seq(Populator)
  PROVE  /\ cache' \in Seq(Populator)
         /\ index' \in [Binary -> Seq(Model)]
         /\ \A y \in Binary : IsInjective(index'[y])
         /\ caller' \in Binary \cup {Null} /\ passes' \in Seq({"clear", "populate"})
         /\ at' \in 1 .. Len(cache') + 1
<1>1. CASE LocalChain[p] = << >>
  BY <1>1 DEF Hook, call, TypeOK
<1>2. CASE LocalChain[p] # << >>
  <2>1. /\ Begin(p) /\ cache' = Walk(p, chain')
        /\ index' = [index EXCEPT ![IndexOf(p)'] = Intern(@, Declared[p])]
    BY <1>2 DEF Hook
  <2>2. cache' \in Seq(Populator)
    BY <2>1, WalkFacts
  <2>3. /\ index' \in [Binary -> Seq(Model)]
        /\ \A y \in Binary : IsInjective(index'[y])
    <3> SUFFICES ASSUME NEW x \in Binary, index' = [index EXCEPT ![x] = Intern(@, Declared[p])]
                 PROVE  /\ index' \in [Binary -> Seq(Model)]
                        /\ \A y \in Binary : IsInjective(index'[y])
      BY <2>1
    <3> QED BY InternGrowth
  <2> QED BY <2>1, <2>2, <2>3, BeginTypes
<1> QED BY <1>1, <1>2

(* Every step keeps the types.                                             *)
LEMMA StepTypes ==
  ASSUME TypeOK, [Next]_vars
  PROVE  TypeOK'
<1> USE DEF TypeOK
<1>1. CASE UNCHANGED vars
  BY <1>1 DEF vars, call
<1>2. ASSUME NEW p \in Late, Construct(p) PROVE TypeOK'
  <2>1. p \in Populator /\ chain' \in Seq(Populator)
    BY <1>2, RoutingAssumption DEF Construct
  <2> QED BY <1>2, <2>1 DEF Construct, call
<1>3. ASSUME NEW p \in Plugins, Map(p) PROVE TypeOK'
  BY <1>3 DEF Map, call
<1>4. ASSUME NEW p \in Plugins, Unmap(p) PROVE TypeOK'
  <2>1. /\ index' \in [Binary -> Seq(Model)]
        /\ \A b \in Binary : index'[b] = IF b = p THEN << >> ELSE index[b]
    BY <1>4 DEF Unmap, Binary
  <2>2. \A b \in Binary : IsInjective(index'[b])
    BY <2>1 DEF IsInjective
  <2>3. /\ arena' \in [Binary -> [Contract -> Seq(Cell)]]
        /\ \A b \in Binary : arena'[b] = IF b = p THEN NoArenas ELSE arena[b]
    BY <1>4 DEF Unmap, Binary, NoArenas
  <2>4. \A b \in Binary, c \in Contract : Len(arena'[b][c]) % Volume[c] = 0
    <3> SUFFICES ASSUME NEW b \in Binary, NEW c \in Contract
                 PROVE  Len(arena'[b][c]) % Volume[c] = 0
      OBVIOUS
    <3>1. CASE b = p
      BY <2>3, <3>1, VolumeFacts
    <3>2. CASE b # p
      BY <2>3, <3>2
    <3> QED BY <3>1, <3>2
  <2> QED BY <1>4, <2>1, <2>2, <2>3, <2>4 DEF Unmap, call
<1>5. ASSUME NEW p \in Plugins, Bootstrap(p) PROVE TypeOK'
  <2>1. p \in Binary /\ remote' \in [Binary -> BOOLEAN]
    BY <1>5 DEF Bootstrap, Binary
  <2>2. IndexOf(p)' \in Binary
    BY <2>1 DEF IndexOf, Binary
  <2>3. chain' \in Seq(Populator)
    BY <1>5, <2>1, RoutingAssumption, ConcatFacts DEF Bootstrap
  <2> QED BY <1>5, <2>1, <2>2, <2>3, HookTypes DEF Bootstrap
<1>6. ASSUME NEW p \in Plugins, Shutdown(p) PROVE TypeOK'
  <2>1. p \in Binary
    BY DEF Binary
  <2>2. IndexOf(p)' \in Binary
    BY <2>1 DEF IndexOf, Binary
  <2>3. chain' \in Seq(Populator)
    BY <1>6, OnlyFacts DEF Shutdown
  <2> QED BY <1>6, <2>1, <2>2, <2>3, HookTypes DEF Shutdown
<1>7. ASSUME NEW b \in Binary, ResolveToken(b) PROVE TypeOK'
  <2>1. IndexOf(b) \in Binary
    BY IndexOfBinary
  <2>2. /\ index' \in [Binary -> Seq(Model)]
        /\ \A y \in Binary : IsInjective(index'[y])
    BY <1>7, <2>1, InternGrowth DEF ResolveToken
  <2> QED BY <1>7, <2>2 DEF ResolveToken, call
<1>8. ASSUME NEW b \in Binary, NEW rewalk \in BOOLEAN, Refresh(b, rewalk) PROVE TypeOK'
  <2>1. cache' \in Seq(Populator)
    BY <1>8, WalkFacts DEF Refresh
  <2> QED BY <1>8, <2>1, BeginTypes DEF Refresh
<1>9. CASE FirstFind
  <2>1. cache' \in Seq(Populator)
    BY <1>9, WalkFacts DEF FirstFind
  <2> QED BY <1>9, <2>1 DEF FirstFind, ClearAndFill, Binary
<1>10. CASE Clear
  <2>1. \A b \in Binary, c \in Contract : arena'[b][c] = << >> \/ arena'[b][c] = arena[b][c]
    BY <1>10 DEF Clear
  <2>2. arena' \in [Binary -> [Contract -> Seq(Cell)]]
    <3>1. \A b \in Binary, c \in Contract : arena'[b][c] \in Seq(Cell)
      <4> SUFFICES ASSUME NEW b \in Binary, NEW c \in Contract
                   PROVE  arena'[b][c] \in Seq(Cell)
        OBVIOUS
      <4>1. arena[b][c] \in Seq(Cell) /\ << >> \in Seq(Cell)
        OBVIOUS
      <4> QED BY <2>1, <4>1
    <3>2. arena' = [b \in Binary |-> [c \in Contract |-> arena'[b][c]]]
      BY <1>10 DEF Clear
    <3> QED BY <3>1, <3>2
  <2>3. \A b \in Binary, c \in Contract : Len(arena'[b][c]) % Volume[c] = 0
    <3> SUFFICES ASSUME NEW b \in Binary, NEW c \in Contract
                 PROVE  Len(arena'[b][c]) % Volume[c] = 0
      OBVIOUS
    <3>1. CASE arena'[b][c] = << >>
      BY <3>1, VolumeFacts
    <3>2. CASE arena'[b][c] = arena[b][c]
      BY <3>2
    <3> QED BY <2>1, <3>1, <3>2
  <2>4. at' \in 1 .. Len(cache) + 1
    BY <1>10 DEF Clear, Visiting
  <2> QED BY <1>10, <2>2, <2>3, <2>4 DEF Clear
<1>11. CASE Populate
  <2>1. PICK p \in Populator, slot \in Nat :
           /\ index' = [index EXCEPT ![IndexOf(Home[p])] = Intern(@, Declared[Home[p]])]
           /\ arena' = Filled(p, slot)
    <3> HIDE DEF TypeOK
    <3> QED BY <1>11, PopulateParts
  <2>2. arena' = Filled(p, slot)
    BY <2>1
  <2>3. arena' \in Arenas
    BY <2>2, FilledType
  <2>4. Home[p] \in Binary /\ IndexOf(Home[p]) \in Binary
    BY RoutingAssumption, IndexOfBinary
  <2>5. /\ index' \in [Binary -> Seq(Model)]
        /\ \A y \in Binary : IsInjective(index'[y])
    BY <2>1, <2>4, InternGrowth
  <2>6. at' \in 1 .. Len(cache) + 1
    <3>1. at' = at + 1 /\ at <= Len(cache)
      BY <1>11, Zenon DEF Populate, Visiting
    <3> QED BY <3>1
  <2> QED BY <1>11, <2>3, <2>5, <2>6 DEF Populate, Arenas
<1>12. CASE NextPass
  BY <1>12 DEF NextPass
<1>13. CASE Return
  BY <1>13 DEF Return
<1> QED
  BY <1>1, <1>2, <1>3, <1>4, <1>5, <1>6, <1>7, <1>8, <1>9, <1>10, <1>11, <1>12, <1>13
  DEF Next, Step

-----------------------------------------------------------------------------
(* Images, the chain and the call under way.                               *)

(* A populator's call leaves alone what it does not bind, and the arenas   *)
(* its binary does not write to.                                           *)
LEMMA FilledElsewhere ==
  ASSUME TypeOK, NEW p \in Populator, NEW slot \in Nat, NEW b \in Binary, NEW c \in Contract,
         b # ArenaOf(Home[p], c) \/ ~Binds(p, c)
  PROVE  Filled(p, slot)[b][c] = arena[b][c]
<1> DEFINE n == Len(Caps[p])
<1>1. n \in Nat /\ DOMAIN Caps[p] = 1 .. n
  BY CapsFacts
<1>2. PICK v \in [0 .. n -> Arenas] :
         /\ v[0] = arena /\ v[n] = Filled(p, slot)
         /\ \A l \in 1 .. n : v[l] = FillOne(v[l - 1], p, slot, l)
  BY ArenasType, FillSteps
<1> HIDE DEF n
<1> DEFINE S == {k \in Nat : k <= n => v[k][b][c] = arena[b][c]}
<1>3. 0 \in S
  BY <1>2
<1>4. ASSUME NEW k \in Nat, k \in S PROVE k + 1 \in S
  <2> SUFFICES ASSUME k + 1 <= n PROVE v[k + 1][b][c] = arena[b][c]
    OBVIOUS
  <2>1. k + 1 \in 1 .. n /\ (k + 1) - 1 = k /\ k \in 0 .. n /\ v[k][b][c] = arena[b][c]
    BY <1>1, <1>4
  <2>2. v[k + 1] = FillOne(v[k], p, slot, k + 1)
    BY <1>2, <2>1
  <2>3. v[k] \in Arenas /\ k + 1 \in DOMAIN Caps[p]
    BY <1>1, <2>1
  <2>4. ~(b = ArenaOf(Home[p], c) /\ c = Caps[p][k + 1].contract)
    BY <2>3 DEF Binds
  <2> QED BY <2>1, <2>2, <2>3, <2>4, FillOneFacts
<1>5. Nat \subseteq S
  <2> HIDE DEF S
  <2> QED BY <1>3, <1>4, NatSetInduction
<1> QED BY <1>1, <1>2, <1>5

(* The host's arenas are its own, and the arena that a binary writes is    *)
(* the own one of the binary that has it.                                  *)
LEMMA ArenaOwner ==
  ASSUME NEW b \in Binary, NEW c
  PROVE  ArenaOf(Host, c) = Host /\ ArenaOf(ArenaOf(b, c), c) = ArenaOf(b, c)
BY DEF ArenaOf

(* Every step keeps what is known of redirects and statics: with an image  *)
(* go its arenas, and a redirected binary never wrote to an arena that is  *)
(* anchored.                                                               *)
LEMMA StepImages ==
  ASSUME TypeOK, ImagesInv, ChainInv, [Next]_vars
  PROVE  ImagesInv'
<1> USE DEF ImagesInv
<1>0. Host \notin Plugins /\ Host \in Binary /\ Plugins \subseteq Binary
  BY RoutingAssumption DEF Binary
<1>1. CASE UNCHANGED <<remote, arena>> /\ \A p \in Plugins :
             phase'[p] \in {"attached", "detached"} <=> phase[p] \in {"attached", "detached"}
  BY <1>1 DEF ArenaOf
<1>2. CASE UNCHANGED vars
  BY <1>1, <1>2 DEF vars
<1>3. ASSUME NEW p \in Late, Construct(p) PROVE ImagesInv'
  BY <1>1, <1>3 DEF Construct
<1>4. ASSUME NEW p \in Plugins, Map(p) PROVE ImagesInv'
  BY <1>1, <1>4 DEF Map, TypeOK
<1>5. ASSUME NEW p \in Plugins, Unmap(p) PROVE ImagesInv'
  <2>1. /\ phase' = [phase EXCEPT ![p] = "unmapped"]
        /\ remote' = [remote EXCEPT ![p] = FALSE]
        /\ arena' = [arena EXCEPT ![p] = NoArenas]
    BY <1>5 DEF Unmap
  <2>2. \A b \in Binary : remote'[b] = (IF b = p THEN FALSE ELSE remote[b])
    BY <2>1 DEF TypeOK
  <2>3. \A b \in Binary : arena'[b] = IF b = p THEN NoArenas ELSE arena[b]
    BY <2>1 DEF TypeOK
  <2>4. \A q \in Plugins : phase'[q] = IF q = p THEN "unmapped" ELSE phase[q]
    BY <2>1 DEF TypeOK
  <2>5. ASSUME NEW b \in Binary, NEW c \in Contract, ArenaOf(b, c)' # b
        PROVE  arena'[b][c] = << >>
    <3>1. CASE b = p
      BY <2>3, <3>1 DEF NoArenas
    <3>2. CASE b # p
      <4>1. ArenaOf(b, c) # b
        BY <2>2, <2>5, <3>2 DEF ArenaOf
      <4> QED BY <2>3, <3>2, <4>1
    <3> QED BY <3>1, <3>2
  <2> QED BY <1>0, <2>2, <2>3, <2>4, <2>5
<1>6. ASSUME NEW p \in Plugins, Bootstrap(p) PROVE ImagesInv'
  <2>1. /\ phase' = [phase EXCEPT ![p] = "attached"] /\ phase[p] = "mapped"
        /\ remote' = [remote EXCEPT ![p] = TRUE]
        /\ arena' = arena
    BY <1>6 DEF Bootstrap
  <2>2. \A b \in Binary : remote'[b] = (IF b = p THEN TRUE ELSE remote[b])
    BY <2>1 DEF TypeOK
  <2>3. \A q \in Plugins : phase'[q] = IF q = p THEN "attached" ELSE phase[q]
    BY <2>1 DEF TypeOK
  <2>4. arena[p] = NoArenas
    BY <2>1
  <2>5. ASSUME NEW b \in Binary, NEW c \in Contract, ArenaOf(b, c)' # b
        PROVE  arena'[b][c] = << >>
    <3>1. CASE b = p
      BY <2>1, <2>4, <3>1 DEF NoArenas
    <3>2. CASE b # p
      <4>1. ArenaOf(b, c) # b
        BY <2>2, <2>5, <3>2 DEF ArenaOf
      <4> QED BY <2>1, <4>1
    <3> QED BY <3>1, <3>2
  <2> QED BY <1>0, <2>1, <2>2, <2>3, <2>5
<1>7. ASSUME NEW p \in Plugins, Shutdown(p) PROVE ImagesInv'
  BY <1>1, <1>7 DEF Shutdown, TypeOK
<1>8. ASSUME NEW b \in Binary, ResolveToken(b) PROVE ImagesInv'
  BY <1>1, <1>8 DEF ResolveToken
<1>9. ASSUME NEW b \in Binary, NEW rewalk \in BOOLEAN, Refresh(b, rewalk) PROVE ImagesInv'
  BY <1>1, <1>9 DEF Refresh
<1>10. CASE FirstFind
  BY <1>1, <1>10 DEF FirstFind
<1>11. CASE Clear
  <2>1. UNCHANGED <<phase, remote>>
    BY <1>11 DEF Clear
  <2>2. ASSUME NEW b \in Binary, NEW c \in Contract
        PROVE  arena'[b][c] \in {<< >>, arena[b][c]}
    BY <1>11 DEF Clear
  <2>3. ASSUME NEW b \in Plugins, arena[b] = NoArenas
        PROVE  arena'[b] = NoArenas
    <3>1. \A c \in Contract : arena'[b][c] = << >>
      BY <1>0, <2>2, <2>3 DEF NoArenas
    <3>2. arena'[b] = [c \in Contract |-> arena'[b][c]]
      BY <1>0, <1>11 DEF Clear
    <3> QED BY <3>1, <3>2 DEF NoArenas
  <2>4. \A b \in Binary, c \in Contract : ArenaOf(b, c)' = ArenaOf(b, c)
    BY <2>1 DEF ArenaOf
  <2> QED BY <2>1, <2>2, <2>3, <2>4
<1>12. CASE Populate
  <2>1. UNCHANGED <<phase, remote>>
    BY <1>12 DEF Populate
  <2>2. PICK p \in Populator, slot \in Nat : p \in Range(cache) /\ arena' = Filled(p, slot)
    BY <1>12, PopulateParts
  <2>3. Home[p] \in Binary /\ Present(Home[p])
    BY <2>2, CapsFacts DEF ChainInv
  <2>4. ASSUME NEW b \in Plugins, ~remote[b]
        PROVE  arena'[b] = NoArenas
    <3>1. arena[b] = NoArenas /\ b # Home[p]
      BY <2>3, <2>4 DEF Present
    <3>2. \A c \in Contract : b # ArenaOf(Home[p], c)
      BY <1>0, <3>1 DEF ArenaOf
    <3>3. \A c \in Contract : arena'[b][c] = << >>
      BY <1>0, <2>2, <3>1, <3>2, FilledElsewhere DEF NoArenas
    <3>4. arena'[b] = [c \in Contract |-> arena'[b][c]]
      <4>1. arena' \in Arenas
        BY <2>2, FilledType
      <4> QED BY <1>0, <4>1 DEF Arenas
    <3> QED BY <3>3, <3>4 DEF NoArenas
  <2>5. ASSUME NEW b \in Binary, NEW c \in Contract, ArenaOf(b, c) # b
        PROVE  arena'[b][c] = << >>
    <3>1. b # ArenaOf(Home[p], c)
      BY <2>3, <2>5, ArenaOwner
    <3> QED BY <2>2, <2>5, <3>1, FilledElsewhere
  <2>6. \A b \in Binary, c \in Contract : ArenaOf(b, c)' = ArenaOf(b, c)
    BY <2>1 DEF ArenaOf
  <2> QED BY <2>1, <2>4, <2>5, <2>6
<1>13. CASE NextPass
  BY <1>1, <1>13 DEF NextPass
<1>14. CASE Return
  BY <1>1, <1>14 DEF Return
<1> QED
  BY <1>2, <1>3, <1>4, <1>5, <1>6, <1>7, <1>8, <1>9, <1>10, <1>11, <1>12, <1>13, <1>14
  DEF Next, Step

(* The populators a binary's static initialisers chain are the binary's.   *)
LEMMA LocalHome ==
  ASSUME NEW b \in Binary, NEW p \in Range(LocalChain[b])
  PROVE  p \in Populator /\ Home[p] = b
BY RoutingAssumption DEF Range

(* What a walk of the chain leaves in the cache, if the chain has the      *)
(* populators of the binaries that are present and no others.              *)
ChainOf(links) ==
  /\ \A p \in Range(links) : Present(Home[p])
  /\ \A b \in Binary : Present(b) => Range(LocalChain[b]) \subseteq Range(links)

(* After a walk the cache has what the chain has.                          *)
LEMMA ChainWalked ==
  ASSUME ChainOf(chain)', Range(cache') = Range(chain')
  PROVE  ChainInv'
<1>1. Host \in Binary /\ Plugins \subseteq Binary /\ Host \notin Plugins
  BY RoutingAssumption DEF Binary
<1>2. /\ \A p \in Range(chain') : Present(Home[p])'
      /\ \A b \in Binary : Present(b)' => Range(LocalChain[b]) \subseteq Range(chain')
  BY DEF ChainOf
<1>3. Present(Host)'
  BY <1>1 DEF Present
<1> QED BY <1>1, <1>2, <1>3 DEF ChainInv

(* A plugin without a chain of its own has no populators.                  *)
LEMMA BareHome ==
  ASSUME NEW p \in Plugins, LocalChain[p] = << >>, NEW x \in Populator
  PROVE  Home[x] # p
<1>1. Host \notin Plugins /\ p \in Binary
  BY RoutingAssumption DEF Binary
<1>2. x \in Late => Home[x] = Host
  BY RoutingAssumption
<1>3. x \in Late \/ x \in Range(LocalChain[Home[x]])
  BY RoutingAssumption
<1>4. Range(LocalChain[p]) = {}
  BY DEF Range
<1> QED BY <1>1, <1>2, <1>3, <1>4

(* Every step keeps the present binaries, and no others, on the chain.     *)
LEMMA StepChain ==
  ASSUME TypeOK, ChainInv, [Next]_vars
  PROVE  ChainInv'
<1>0. /\ Host \notin Plugins /\ Host \in Binary /\ Plugins \subseteq Binary
      /\ Null \notin Binary
      /\ chain \in Seq(Populator) /\ cache \in Seq(Populator)
  BY RoutingAssumption DEF Binary, TypeOK
<1>1. ChainOf(chain) /\ \A p \in Range(cache) : Present(Home[p])
  BY DEF ChainInv, ChainOf
<1>2. CASE UNCHANGED vars
  BY <1>2 DEF vars, call, ChainInv, Present
<1>3. ASSUME NEW p \in Late, Construct(p) PROVE ChainInv'
  <2>1. /\ p \in Populator /\ Home[p] = Host /\ chain' = <<p>> \o chain
        /\ UNCHANGED <<phase, cache, built, caller>>
    BY <1>3, RoutingAssumption DEF Construct, call
  <2>2. Range(chain') = {p} \cup Range(chain)
    <3> SUFFICES ASSUME NEW s, s = <<p>>, chain' = s \o chain
                 PROVE  Range(chain') = {p} \cup Range(chain)
      BY <2>1
    <3>1. s \in Seq(Populator) /\ Range(s) = {p}
      BY <2>1 DEF Range
    <3>2. Range(s \o chain) = Range(s) \cup Range(chain)
      BY <1>0, <3>1, ConcatRange, ZenonT(30)
    <3> QED BY <3>1, <3>2
  <2> QED BY <1>0, <2>1, <2>2 DEF ChainInv, Present
<1>4. ASSUME NEW p \in Plugins, Map(p) PROVE ChainInv'
  <2>1. /\ phase[p] = "unmapped" /\ phase' = [phase EXCEPT ![p] = "mapped"]
        /\ UNCHANGED <<chain, cache, built, caller>>
    BY <1>4 DEF Map, call
  <2>2. \A b : Present(b)' <=> Present(b)
    BY <2>1 DEF Present, TypeOK
  <2> QED BY <2>1, <2>2 DEF ChainInv
<1>5. ASSUME NEW p \in Plugins, Unmap(p) PROVE ChainInv'
  <2>1. /\ phase[p] \in {"mapped", "detached"}
        /\ phase' = [phase EXCEPT ![p] = "unmapped"]
        /\ built' = [built EXCEPT ![p] = FALSE]
        /\ UNCHANGED <<chain, cache, caller>>
    BY <1>5 DEF Unmap, call
  <2>2. \A b : Present(b)' <=> Present(b)
    BY <2>1 DEF Present, TypeOK
  <2>3. built'[Host] = built[Host]
    BY <1>0, <2>1 DEF TypeOK
  <2> QED BY <2>1, <2>2, <2>3 DEF ChainInv
<1>6. ASSUME NEW p \in Plugins, Bootstrap(p) PROVE ChainInv'
  <2>1. /\ phase' = [phase EXCEPT ![p] = "attached"]
        /\ chain' = LocalChain[p] \o chain /\ Hook(p) /\ built' = built
    BY <1>6 DEF Bootstrap
  <2>2. LocalChain[p] \in Seq(Populator)
    BY <1>0, RoutingAssumption
  <2>3. chain' \in Seq(Populator) /\ Range(chain') = Range(LocalChain[p]) \cup Range(chain)
    BY <1>0, <2>1, <2>2, ConcatFacts, ConcatRange
  <2>4. LocalChain[p] # << >> => Range(cache') = Range(chain')
    BY <2>1, <2>3, WalkFacts DEF Hook
  <2>5. Present(p)' /\ \A b : Present(b) => Present(b)'
    BY <2>1 DEF Present, TypeOK
  <2>6. \A b : Present(b)' => Present(b) \/ b = p
    BY <2>1 DEF Present, TypeOK
  <2>7. ChainOf(chain)'
    <3>1. \A x \in Range(chain') : Present(Home[x])'
      BY <1>0, <1>1, <2>3, <2>5, LocalHome DEF ChainOf
    <3>2. \A b \in Binary : Present(b)' => Range(LocalChain[b]) \subseteq Range(chain')
      BY <1>1, <2>3, <2>6 DEF ChainOf
    <3> QED BY <3>1, <3>2 DEF ChainOf
  <2>8. CASE LocalChain[p] = << >>
    <3>1. UNCHANGED <<cache, caller>>
      BY <2>1, <2>8 DEF Hook, call
    <3>2. Range(LocalChain[p]) = {}
      BY <2>8 DEF Range
    <3> QED BY <1>1, <2>1, <2>5, <2>6, <2>7, <3>1, <3>2 DEF ChainInv, ChainOf
  <2> QED BY <2>4, <2>7, <2>8, ChainWalked
<1>7. ASSUME NEW p \in Plugins, Shutdown(p) PROVE ChainInv'
  <2>1. /\ phase' = [phase EXCEPT ![p] = "detached"]
        /\ chain' = Only({x \in Populator : Home[x] # p}, chain)
        /\ Hook(p) /\ built' = built
    BY <1>7 DEF Shutdown
  <2>2. chain' \in Seq(Populator)
        /\ Range(chain') = Range(chain) \cap {x \in Populator : Home[x] # p}
    BY <1>0, <2>1, OnlyFacts
  <2>3. LocalChain[p] # << >> => Range(cache') = Range(chain')
    BY <2>1, <2>2, WalkFacts DEF Hook
  <2>4. \A b : Present(b)' <=> Present(b) /\ b # p
    BY <2>1 DEF Present, TypeOK
  <2>5. ChainOf(chain)'
    <3>1. \A x \in Range(chain') : Present(Home[x])'
      BY <1>1, <2>2, <2>4 DEF ChainOf
    <3>2. \A b \in Binary : Present(b)' => Range(LocalChain[b]) \subseteq Range(chain')
      BY <1>1, <2>2, <2>4, LocalHome DEF ChainOf
    <3> QED BY <3>1, <3>2 DEF ChainOf
  <2>6. CASE LocalChain[p] = << >>
    <3>1. UNCHANGED <<cache, caller>>
      BY <2>1, <2>6 DEF Hook, call
    <3>2. \A x \in Range(cache) : Home[x] # p
      BY <1>0, <2>6, BareHome DEF Range
    <3> QED BY <1>1, <2>1, <2>4, <2>5, <3>1, <3>2 DEF ChainInv, ChainOf
  <2> QED BY <2>3, <2>5, <2>6, ChainWalked
<1>8. ASSUME NEW b \in Binary, ResolveToken(b) PROVE ChainInv'
  BY <1>8 DEF ResolveToken, call, ChainInv, Present
<1>9. ASSUME NEW b \in Binary, NEW rewalk \in BOOLEAN, Refresh(b, rewalk) PROVE ChainInv'
  <2>1. /\ b \in Plugins => phase[b] = "attached"
        /\ caller' = b
        /\ cache' = IF rewalk \/ (b = Host /\ ~built[Host]) THEN Walk(b, chain) ELSE cache
        /\ UNCHANGED <<phase, chain, built>>
    BY <1>9 DEF Refresh, Begin
  <2>2. CASE rewalk \/ (b = Host /\ ~built[Host])
    <3>1. cache' = Walk(caller', chain)
      BY <2>1, <2>2
    <3>2. Range(cache') = Range(chain') /\ ChainOf(chain)'
      BY <1>0, <1>1, <2>1, <3>1, WalkFacts DEF ChainOf, Present
    <3> QED BY <3>2, ChainWalked
  <2>3. CASE ~(rewalk \/ (b = Host /\ ~built[Host]))
    <3>1. cache' = cache /\ (b = Host => built[Host])
      BY <2>1, <2>3
    <3> QED BY <2>1, <3>1 DEF ChainInv, Present
  <2> QED BY <2>2, <2>3
<1>10. CASE FirstFind
  <2>1. cache' = Walk(caller', chain) /\ UNCHANGED <<phase, chain, built>>
    BY <1>10 DEF FirstFind
  <2>2. Range(cache') = Range(chain') /\ ChainOf(chain)'
    BY <1>0, <1>1, <2>1, WalkFacts DEF ChainOf, Present
  <2> QED BY <2>2, ChainWalked
<1>11. CASE Clear
  BY <1>11 DEF Clear, ChainInv, Present
<1>12. CASE Populate
  BY <1>12 DEF Populate, ChainInv, Present
<1>13. CASE NextPass
  BY <1>13 DEF NextPass, ChainInv, Present
<1>14. CASE Return
  <2>1. caller' = Null /\ UNCHANGED <<phase, chain, cache>>
        /\ built' = [built EXCEPT ![caller] = TRUE]
    BY <1>14 DEF Return
  <2>2. built'[Host] => built[Host] \/ caller = Host
    BY <1>0, <2>1 DEF TypeOK
  <2> QED BY <1>0, <2>1, <2>2 DEF ChainInv, Present
<1> QED
  BY <1>2, <1>3, <1>4, <1>5, <1>6, <1>7, <1>8, <1>9, <1>10, <1>11, <1>12, <1>13, <1>14
  DEF Next, Step

(* The visits of a first call.                                             *)
LEMMA TwicePasses == ClearAndFill \o ClearAndFill = <<"clear", "populate", "clear", "populate">>
<1> DEFINE s == <<"clear", "populate">> \o <<"clear", "populate">>
           t == <<"clear", "populate", "clear", "populate">>
<1>1. /\ s \in Seq({"clear", "populate"}) /\ DOMAIN s = 1 .. 4
      /\ s[1] = "clear" /\ s[2] = "populate" /\ s[3] = "clear" /\ s[4] = "populate"
  OBVIOUS
<1>2. \A i \in 1 .. 4 : s[i] = t[i]
  BY <1>1
<1> HIDE DEF s
<1>3. s = [i \in 1 .. 4 |-> s[i]] /\ t = [i \in 1 .. 4 |-> t[i]]
  BY <1>1
<1> QED BY <1>2, <1>3 DEF s, ClearAndFill

(* Every step keeps the visits of a call in one of the five forms.         *)
LEMMA StepCall ==
  ASSUME CallInv, [Next]_vars
  PROVE  CallInv'
<1>1. Null \notin Binary /\ Host \in Binary
  BY RoutingAssumption DEF Binary
<1>2. ASSUME NEW b \in Binary, Begin(b) PROVE CallInv'
  BY <1>1, <1>2, TwicePasses DEF Begin, CallInv
<1>3. CASE NextPass
  <2>1. caller # Null /\ passes # << >> /\ passes' = Tail(passes) /\ caller' = caller
    BY <1>3 DEF NextPass
  <2>2. /\ Tail(<<"populate">>) = << >>
        /\ Tail(ClearAndFill) = <<"populate">>
        /\ Tail(<<"populate", "clear", "populate">>) = ClearAndFill
        /\ Tail(<<"clear", "populate", "clear", "populate">>) =
             <<"populate", "clear", "populate">>
    BY DEF ClearAndFill
  <2> QED BY <2>1, <2>2 DEF CallInv
<1>4. CASE FirstFind
  BY <1>1, <1>4 DEF FirstFind, CallInv
<1>5. CASE Return
  BY <1>5 DEF Return, CallInv
<1>6. CASE UNCHANGED <<caller, passes>>
  BY <1>6 DEF CallInv
<1>7. ASSUME NEW p \in Plugins, Bootstrap(p) \/ Shutdown(p) PROVE CallInv'
  BY <1>2, <1>6, <1>7 DEF Bootstrap, Shutdown, Hook, call, Binary
<1>8. ASSUME NEW b \in Binary, NEW rewalk \in BOOLEAN, Refresh(b, rewalk) PROVE CallInv'
  BY <1>2, <1>8 DEF Refresh
<1> QED
  BY <1>3, <1>4, <1>5, <1>6, <1>7, <1>8
  DEF Next, Step, vars, call, Construct, Map, Unmap, ResolveToken, Clear, Populate

-----------------------------------------------------------------------------
(* Rows.                                                                   *)

(* What every capability keeps, the call of the populator keeps.           *)
LEMMA FilledInduction ==
  ASSUME TypeOK, NEW p \in Populator, NEW slot \in Nat,
         NEW A \in SUBSET Arenas, arena \in A,
         \A a \in A, l \in DOMAIN Caps[p] : FillOne(a, p, slot, l) \in A
  PROVE  Filled(p, slot) \in A
<1> DEFINE n == Len(Caps[p])
<1>1. n \in Nat /\ DOMAIN Caps[p] = 1 .. n
  BY CapsFacts
<1>2. PICK v \in [0 .. n -> Arenas] :
         /\ v[0] = arena /\ v[n] = Filled(p, slot)
         /\ \A l \in 1 .. n : v[l] = FillOne(v[l - 1], p, slot, l)
  BY ArenasType, FillSteps
<1> HIDE DEF n
<1> DEFINE S == {k \in Nat : k <= n => v[k] \in A}
<1>3. 0 \in S
  BY <1>2
<1>4. ASSUME NEW k \in Nat, k \in S PROVE k + 1 \in S
  <2> SUFFICES ASSUME k + 1 <= n PROVE v[k + 1] \in A
    OBVIOUS
  <2>1. k + 1 \in 1 .. n /\ (k + 1) - 1 = k /\ v[k] \in A
    BY <1>1, <1>4
  <2> QED BY <1>1, <1>2, <2>1
<1>5. Nat \subseteq S
  <2> HIDE DEF S
  <2> QED BY <1>3, <1>4, NatSetInduction
<1> QED BY <1>1, <1>2, <1>5

(* The only new targets are those of the capability that is filled in.     *)
FromRow(cells, slot, p, l, v, j, t) ==
  \/ j \in DOMAIN cells /\ t \in Targets(cells[j])
  \/ j - slot * v \in 1 .. v /\ t = TargetOf(p, l, j - slot * v)

LEMMA FillTargets ==
  ASSUME NEW cells \in Seq(Cell), NEW slot \in Nat, NEW p \in Populator,
         NEW l \in DOMAIN Caps[p], NEW v, v = Volume[Caps[p][l].contract],
         Len(cells) % v = 0, NEW j \in DOMAIN FillCells(cells, slot, p, l),
         NEW t \in Targets(FillCells(cells, slot, p, l)[j])
  PROVE  FromRow(cells, slot, p, l, v, j, t)
<1> DEFINE r == FillCells(cells, slot, p, l)
           i == j - slot * v
<1>1. r \in Seq(Cell) /\ j \in Nat \ {0} /\ CellIn(r, j) = r[j]
  <2>1. r \in Seq(Cell)
    BY FillCellsFacts
  <2> HIDE DEF r
  <2>2. DOMAIN r = 1 .. Len(r) /\ Len(r) \in Nat
    BY <2>1
  <2>3. j \in DOMAIN r
    BY DEF r
  <2> QED BY <2>1, <2>2, <2>3 DEF CellIn
<1>2. r[j] = IF i \in 1 .. v
             THEN Bind(CellIn(cells, j), Caps[p][l].kinds[i], TargetOf(p, l, i))
             ELSE CellIn(cells, j)
  <2>1. RowFilled(r, cells, slot, p, l, v)
    BY FillCellsFacts
  <2> HIDE DEF r
  <2> QED BY <1>1, <2>1 DEF RowFilled, CellFilled
<1>3. t \in Targets(r[j])
  OBVIOUS
<1>4. CellIn(cells, j) \in Cell
  <2>1. EmptyCell \in Cell
    BY DEF EmptyCell, Cell
  <2> QED BY <2>1 DEF CellIn
<1>5. Targets(CellIn(cells, j)) = IF j \in DOMAIN cells THEN Targets(cells[j]) ELSE {}
  BY DEF CellIn, EmptyCell, Targets, Range
<1> HIDE DEF r
<1>6. CASE i \in 1 .. v
  <2>1. Caps[p][l].kinds[i] \in Kind /\ TargetOf(p, l, i) \in Target
    <3>1. DOMAIN Caps[p][l].kinds = 1 .. v /\ v \in Nat \ {0} /\ l \in Nat
      BY CapsFacts
    <3> HIDE DEF i
    <3>2. i \in Nat /\ i \in DOMAIN Caps[p][l].kinds
      BY <1>6, <3>1
    <3> QED BY <3>1, <3>2, CapsFacts DEF TargetOf, Target
  <2> HIDE DEF i
  <2>2. t \in Targets(CellIn(cells, j)) \cup {TargetOf(p, l, i)}
    BY <1>2, <1>3, <1>4, <1>6, <2>1, BindType
  <2>3. t \in Targets(CellIn(cells, j)) \/ t = TargetOf(p, l, i)
    BY <2>2
  <2> QED BY <1>5, <1>6, <2>3 DEF i, FromRow
<1>7. CASE i \notin 1 .. v
  <2>1. r[j] = CellIn(cells, j)
    BY <1>2, <1>7
  <2> HIDE DEF r
  <2> QED BY <1>3, <1>5, <2>1 DEF FromRow
<1> QED BY <1>6, <1>7

(* The rows of the cells of c belong to the models that idx has.           *)
RowsOk(cells, idx, c) ==
  \A j \in DOMAIN cells : \A t \in Targets(cells[j]) :
    /\ ((j - 1) \div Volume[c]) + 1 \in DOMAIN idx
    /\ idx[((j - 1) \div Volume[c]) + 1] = Bound[t.by]
    /\ t.cell = ((j - 1) % Volume[c]) + 1

(* RowsInv in the terms of RowsOk.                                         *)
LEMMA RowsByArena ==
  RowsInv <=> \A b \in Binary, c \in OneDirectory : RowsOk(arena[b][c], index[IndexOf(b)], c)
BY DEF RowsInv, RowsOk

(* Slots are never given away: rows stay right when the directory grows.   *)
LEMMA RowsGrown ==
  ASSUME NEW cells, NEW s \in Seq(Model), NEW t, NEW c, Grown(s, t), RowsOk(cells, s, c)
  PROVE  RowsOk(cells, t, c)
<1>1. \A k \in DOMAIN s : k \in DOMAIN t /\ t[k] = s[k]
  BY DEF Grown
<1> QED BY <1>1 DEF RowsOk

(* The row that a populator's call writes to is its model's.               *)
LEMMA RowsFilled ==
  ASSUME NEW cells \in Seq(Cell), NEW p \in Populator, NEW l \in DOMAIN Caps[p],
         NEW c, c = Caps[p][l].contract, Len(cells) % Volume[c] = 0,
         NEW idx \in Seq(Model), NEW s \in DOMAIN idx, idx[s] = Bound[p],
         RowsOk(cells, idx, c)
  PROVE  RowsOk(FillCells(cells, s - 1, p, l), idx, c)
<1> DEFINE v == Volume[c]
           r == FillCells(cells, s - 1, p, l)
<1>1. v \in Nat \ {0} /\ s - 1 \in Nat /\ s \in Nat
  BY CapsFacts
<1>2. r \in Seq(Cell)
  BY <1>1, FillCellsFacts
<1>3. ASSUME NEW j \in DOMAIN r, NEW t \in Targets(r[j])
      PROVE  /\ ((j - 1) \div v) + 1 \in DOMAIN idx
             /\ idx[((j - 1) \div v) + 1] = Bound[t.by]
             /\ t.cell = ((j - 1) % v) + 1
  <2>1. \/ j \in DOMAIN cells /\ t \in Targets(cells[j])
        \/ j - (s - 1) * v \in 1 .. v /\ t = TargetOf(p, l, j - (s - 1) * v)
    <3>1. FromRow(cells, s - 1, p, l, v, j, t)
      BY <1>1, FillTargets
    <3> QED BY <3>1 DEF FromRow
  <2>2. CASE j \in DOMAIN cells /\ t \in Targets(cells[j])
    BY <2>2 DEF RowsOk
  <2>3. CASE j - (s - 1) * v \in 1 .. v /\ t = TargetOf(p, l, j - (s - 1) * v)
    <3>1. j \in Nat \ {0}
      <4> HIDE DEF r
      <4> QED BY <1>2
    <3>2. t.by = p /\ t.cell = j - (s - 1) * v
      BY <2>3 DEF TargetOf
    <3> HIDE DEF v, r
    <3> SUFFICES ASSUME NEW z \in Nat, z = s - 1
                 PROVE  /\ ((j - 1) \div v) + 1 \in DOMAIN idx
                        /\ idx[((j - 1) \div v) + 1] = Bound[t.by]
                        /\ t.cell = ((j - 1) % v) + 1
      BY <1>1
    <3>3. j - z * v \in 1 .. v
      BY <2>3
    <3>4. (j - 1) \div v = z /\ ((j - 1) % v) + 1 = j - z * v
      <4>1. InRow(j, v, z)
        BY <1>1, <3>1, <3>3, RowOf
      <4> QED BY <4>1 DEF InRow
    <3>5. z + 1 = s
      BY <1>1
    <3> QED BY <3>2, <3>4, <3>5
  <2> QED BY <2>1, <2>2, <2>3
<1> QED BY <1>3 DEF RowsOk

(* A binary looks its slots up where the binaries do whose calls write to  *)
(* its arena, if the arena is not shared beyond the directory.             *)
LEMMA SameIndex ==
  ASSUME NEW b \in Binary, NEW c \in OneDirectory
  PROVE  IndexOf(ArenaOf(b, c)) = IndexOf(b)
<1>1. CASE ArenaOf(b, c) = b
  BY <1>1
<1>2. CASE ArenaOf(b, c) # b
  <2>1. /\ remote[b] /\ {<<b, c>>, <<Host, c>>} \subseteq Anchored
        /\ ArenaOf(b, c) = Host /\ b \in Plugins
    BY <1>2 DEF ArenaOf, Binary
  <2>2. {b, Host} \subseteq Partitioned
    BY <2>1 DEF OneDirectory
  <2> QED BY <2>1, <2>2 DEF IndexOf
<1> QED BY <1>1, <1>2

(* Nor does a populator's call write to another model's row.               *)
LEMMA FilledRows ==
  ASSUME TypeOK, NEW p \in Populator, NEW idx \in [Binary -> Seq(Model)],
         NEW s \in DOMAIN idx[IndexOf(Home[p])], idx[IndexOf(Home[p])][s] = Bound[p],
         \A b \in Binary, c \in OneDirectory : RowsOk(arena[b][c], idx[IndexOf(b)], c)
  PROVE  \A b \in Binary, c \in OneDirectory :
           RowsOk(Filled(p, s - 1)[b][c], idx[IndexOf(b)], c)
<1> DEFINE A == {a \in Arenas : \A b \in Binary, c \in OneDirectory :
                                  RowsOk(a[b][c], idx[IndexOf(b)], c)}
<1>1. arena \in A
  BY ArenasType
<1>2. Home[p] \in Binary /\ IndexOf(Home[p]) \in Binary
  BY CapsFacts, IndexOfBinary
<1>3. idx[IndexOf(Home[p])] \in Seq(Model) /\ s - 1 \in Nat
  BY <1>2
<1>4. ASSUME NEW a \in A, NEW l \in DOMAIN Caps[p]
      PROVE  FillOne(a, p, s - 1, l) \in A
  <2>1. a \in Arenas /\ OneDirectory \subseteq Contract
    BY DEF OneDirectory
  <2>2. ASSUME NEW b \in Binary, NEW c \in OneDirectory
        PROVE  RowsOk(FillOne(a, p, s - 1, l)[b][c], idx[IndexOf(b)], c)
    <3>1. RowsOk(a[b][c], idx[IndexOf(b)], c)
      OBVIOUS
    <3>2. CASE b = ArenaOf(Home[p], c) /\ c = Caps[p][l].contract
      <4>1. IndexOf(b) = IndexOf(Home[p])
        BY <1>2, <3>2, SameIndex
      <4>2. a[b][c] \in Seq(Cell) /\ Len(a[b][c]) % Volume[c] = 0
        BY <2>1 DEF Arenas
      <4>3. FillOne(a, p, s - 1, l)[b][c] = FillCells(a[b][c], s - 1, p, l)
        BY <1>3, <2>1, <3>2, FillOneFacts
      <4> HIDE DEF A
      <4>4. RowsOk(FillCells(a[b][c], s - 1, p, l), idx[IndexOf(Home[p])], c)
        BY <1>3, <3>1, <3>2, <4>1, <4>2, RowsFilled
      <4> QED BY <4>1, <4>3, <4>4
    <3>3. CASE ~(b = ArenaOf(Home[p], c) /\ c = Caps[p][l].contract)
      <4>1. FillOne(a, p, s - 1, l)[b][c] = a[b][c]
        BY <1>3, <2>1, <3>3, FillOneFacts
      <4> QED BY <3>1, <4>1
    <3> QED BY <3>2, <3>3
  <2>3. FillOne(a, p, s - 1, l) \in Arenas
    BY <1>3, <2>1, FillOneFacts
  <2> QED BY <2>2, <2>3
<1>5. Filled(p, s - 1) \in A
  <2>1. A \in SUBSET Arenas
    OBVIOUS
  <2> HIDE DEF A
  <2> QED BY <1>1, <1>3, <1>4, <2>1, FilledInduction
<1> QED BY <1>5

(* A directory only grows by a hook.                                       *)
LEMMA HookGrowth ==
  ASSUME TypeOK, NEW p \in Binary, Hook(p), IndexOf(p)' \in Binary
  PROVE  Growth
<1>1. CASE LocalChain[p] = << >>
  BY <1>1, UnchangedGrowth DEF Hook
<1>2. CASE LocalChain[p] # << >>
  <2> SUFFICES ASSUME NEW x \in Binary, index' = [index EXCEPT ![x] = Intern(@, Declared[p])]
               PROVE  Growth
    BY <1>2 DEF Hook
  <2> QED BY InternGrowth
<1> QED BY <1>1, <1>2

(* Every step keeps the rows with their models.                            *)
LEMMA StepRows ==
  ASSUME TypeOK, ImagesInv, ChainInv, RowsInv, [Next]_vars
  PROVE  RowsInv'
<1>0. /\ Host \notin Plugins /\ Host \in Binary /\ Plugins \subseteq Binary
      /\ OneDirectory \subseteq Contract
  BY RoutingAssumption DEF Binary, OneDirectory
<1>1. \A b \in Binary, c \in OneDirectory : RowsOk(arena[b][c], index[IndexOf(b)], c)
  BY RowsByArena
<1>2. (\A b \in Binary, c \in OneDirectory : RowsOk(arena[b][c], index[IndexOf(b)], c)') => RowsInv'
  BY DEF RowsInv, RowsOk
<1>3. \A b \in Binary : IndexOf(b) \in Binary /\ index[b] \in Seq(Model)
  BY IndexOfBinary DEF TypeOK
<1>4. \A cells, c : cells = << >> => \A idx : RowsOk(cells, idx, c)
  BY DEF RowsOk
<1>5. ASSUME UNCHANGED remote, Growth,
             \A b \in Binary, c \in OneDirectory : arena'[b][c] \in {<< >>, arena[b][c]}
      PROVE  RowsInv'
  <2> SUFFICES ASSUME NEW b \in Binary, NEW c \in OneDirectory
               PROVE  RowsOk(arena[b][c], index[IndexOf(b)], c)'
    BY <1>2
  <2>1. IndexOf(b)' = IndexOf(b)
    BY <1>5 DEF IndexOf
  <2> SUFFICES ASSUME NEW i \in Binary, i = IndexOf(b)
               PROVE  RowsOk(arena[b][c], index[i], c)'
    BY <1>3, <2>1 DEF RowsOk
  <2>2. Grown(index[i], index'[i]) /\ RowsOk(arena[b][c], index[i], c)
    BY <1>1, <1>5 DEF Growth
  <2>3. RowsOk(arena[b][c], index'[i], c)
    BY <1>3, <2>2, RowsGrown
  <2>4. RowsOk(arena'[b][c], index'[i], c)
    <3>1. CASE arena'[b][c] = << >>
      BY <1>4, <3>1
    <3>2. CASE arena'[b][c] = arena[b][c]
      BY <2>3, <3>2
    <3> QED BY <1>5, <3>1, <3>2
  <2> QED BY <2>4 DEF RowsOk
<1>6. CASE UNCHANGED <<remote, index, arena>>
  <2>1. Growth
    BY <1>6, UnchangedGrowth
  <2> QED BY <1>5, <1>6, <2>1
<1>7. ASSUME NEW p \in Plugins, Unmap(p) PROVE RowsInv'
  <2>1. \A b \in Binary :
          /\ remote'[b] = (IF b = p THEN FALSE ELSE remote[b])
          /\ arena'[b] = (IF b = p THEN NoArenas ELSE arena[b])
          /\ index'[b] = (IF b = p THEN << >> ELSE index[b])
    BY <1>7 DEF Unmap, TypeOK
  <2> SUFFICES ASSUME NEW b \in Binary, NEW c \in OneDirectory
               PROVE  RowsOk(arena[b][c], index[IndexOf(b)], c)'
    BY <1>2
  <2>2. CASE b = p
    <3>1. arena'[b][c] = << >>
      BY <1>0, <2>1, <2>2 DEF NoArenas
    <3> QED BY <3>1 DEF RowsOk
  <2>3. CASE b # p
    <3>1. arena'[b][c] = arena[b][c] /\ IndexOf(b)' = IndexOf(b) /\ IndexOf(b) # p
      BY <1>0, <2>1, <2>3 DEF IndexOf
    <3> SUFFICES ASSUME NEW i \in Binary, i = IndexOf(b)
                 PROVE  RowsOk(arena[b][c], index[i], c)'
      BY <1>3, <3>1 DEF RowsOk
    <3>2. index'[i] = index[i]
      BY <2>1, <3>1
    <3>3. RowsOk(arena'[b][c], index'[i], c)
      BY <1>1, <3>1, <3>2
    <3> QED BY <3>3 DEF RowsOk
  <2> QED BY <2>2, <2>3
<1>8. ASSUME NEW p \in Plugins, Bootstrap(p) PROVE RowsInv'
  <2>1. /\ phase[p] = "mapped" /\ arena' = arena
        /\ \A b \in Binary : remote'[b] = (IF b = p THEN TRUE ELSE remote[b])
        /\ Hook(p)
    BY <1>8 DEF Bootstrap, TypeOK
  <2>2. Growth
    <3>1. IndexOf(p)' \in Binary
      BY <1>0 DEF IndexOf
    <3> QED BY <1>0, <2>1, <3>1, HookGrowth
  <2>3. arena[p] = NoArenas
    BY <2>1 DEF ImagesInv
  <2> SUFFICES ASSUME NEW b \in Binary, NEW c \in OneDirectory
               PROVE  RowsOk(arena[b][c], index[IndexOf(b)], c)'
    BY <1>2
  <2>4. CASE b = p
    <3>1. arena'[b][c] = << >>
      BY <1>0, <2>1, <2>3, <2>4 DEF NoArenas
    <3> QED BY <3>1 DEF RowsOk
  <2>5. CASE b # p
    <3>1. IndexOf(b)' = IndexOf(b)
      BY <2>1, <2>5 DEF IndexOf
    <3> SUFFICES ASSUME NEW i \in Binary, i = IndexOf(b)
                 PROVE  RowsOk(arena[b][c], index[i], c)'
      BY <1>3, <3>1 DEF RowsOk
    <3>2. Grown(index[i], index'[i]) /\ RowsOk(arena[b][c], index[i], c)
      BY <1>1, <2>2 DEF Growth
    <3>3. RowsOk(arena[b][c], index'[i], c)
      BY <1>3, <3>2, RowsGrown
    <3> QED BY <2>1, <3>3 DEF RowsOk
  <2> QED BY <2>4, <2>5
<1>9. ASSUME NEW p \in Plugins, Shutdown(p) PROVE RowsInv'
  <2>1. UNCHANGED <<remote, arena>> /\ Hook(p)
    BY <1>9 DEF Shutdown
  <2>2. Growth
    <3>1. IndexOf(p)' \in Binary
      BY <1>0 DEF IndexOf
    <3> QED BY <1>0, <2>1, <3>1, HookGrowth
  <2> QED BY <1>5, <2>1, <2>2
<1>10. ASSUME NEW b \in Binary, ResolveToken(b) PROVE RowsInv'
  <2>1. /\ UNCHANGED <<remote, arena>>
        /\ index' = [index EXCEPT ![IndexOf(b)] = Intern(@, Declared[b])]
    BY <1>10 DEF ResolveToken
  <2>2. Growth
    BY <1>3, <2>1, InternGrowth
  <2> QED BY <1>5, <2>1, <2>2
<1>11. CASE Clear
  <2>1. UNCHANGED <<remote, index>>
    BY <1>11 DEF Clear
  <2>2. \A b \in Binary, c \in OneDirectory : arena'[b][c] \in {<< >>, arena[b][c]}
    BY <1>0, <1>11 DEF Clear
  <2> QED BY <1>5, <2>1, <2>2, UnchangedGrowth
<1>12. CASE Populate
  <2>1. PICK p \in Populator, idx \in Seq(Model) : \E s \in DOMAIN idx :
           /\ idx[s] = Bound[p]
           /\ index' = [index EXCEPT ![IndexOf(Home[p])] = Intern(@, Declared[Home[p]])]
           /\ index'[IndexOf(Home[p])] = idx
           /\ arena' = Filled(p, s - 1)
    BY <1>12, PopulateParts
  <2>2. PICK s \in DOMAIN idx : idx[s] = Bound[p] /\ arena' = Filled(p, s - 1)
    BY <2>1
  <2>3. Home[p] \in Binary
    BY CapsFacts
  <2>4. Growth /\ index' \in [Binary -> Seq(Model)]
    BY <1>3, <2>1, <2>3, InternGrowth
  <2>5. UNCHANGED remote
    BY <1>12 DEF Populate
  <2> SUFFICES ASSUME NEW new \in [Binary -> Seq(Model)], index' = new
               PROVE  RowsInv'
    BY <2>4
  <2>6. \A b \in Binary, c \in OneDirectory : RowsOk(arena[b][c], new[IndexOf(b)], c)
    <3>1. \A b \in Binary, c \in OneDirectory : Grown(index[IndexOf(b)], new[IndexOf(b)])
      BY <1>3, <2>4 DEF Growth
    <3> QED BY <1>1, <1>3, <3>1, RowsGrown
  <2>7. \A b \in Binary, c \in OneDirectory : RowsOk(Filled(p, s - 1)[b][c], new[IndexOf(b)], c)
    BY <2>1, <2>2, <2>6, FilledRows
  <2>8. \A b \in Binary, c \in OneDirectory : RowsOk(arena'[b][c], new[IndexOf(b)], c)
    BY <2>2, <2>7
  <2> SUFFICES ASSUME NEW b \in Binary, NEW c \in OneDirectory
               PROVE  RowsOk(arena[b][c], index[IndexOf(b)], c)'
    BY <1>2
  <2>9. IndexOf(b)' = IndexOf(b)
    BY <2>5 DEF IndexOf
  <2> SUFFICES ASSUME NEW i \in Binary, i = IndexOf(b)
               PROVE  RowsOk(arena[b][c], index[i], c)'
    BY <1>3, <2>9 DEF RowsOk
  <2>10. RowsOk(arena'[b][c], index'[i], c)
    BY <2>8
  <2> QED BY <2>10 DEF RowsOk
<1> QED
  BY <1>5, <1>6, <1>7, <1>8, <1>9, <1>10, <1>11, <1>12
  DEF Next, Step, vars, call, Construct, Map, Refresh, FirstFind, NextPass, Return

-----------------------------------------------------------------------------
(* Targets.                                                                *)


(* What is in a cell is a capability of a populator.                       *)
LEMMA TargetsTyped ==
  ASSUME TypeOK, NEW b \in Binary, NEW c \in Contract, NEW j \in DOMAIN arena[b][c],
         NEW t \in Targets(arena[b][c][j])
  PROVE  t \in Target /\ t.by \in Populator /\ Home[t.by] \in Binary
<1>1. arena[b][c][j] \in Cell
  <2>1. arena[b][c] \in Seq(Cell)
    BY DEF TypeOK
  <2> SUFFICES ASSUME NEW s \in Seq(Cell), s = arena[b][c] PROVE s[j] \in Cell
    BY <2>1
  <2> QED OBVIOUS
<1>2. t \in Target
  BY <1>1 DEF Targets, Cell, Range
<1>3. t.by \in Populator
  BY <1>2 DEF Target
<1> QED BY <1>2, <1>3, CapsFacts

(* A populator's call puts its own capabilities into the host's arenas, if *)
(* they are of the contract and its binary reaches the arena.              *)
LEMMA FilledTargets ==
  ASSUME TypeOK, NEW p \in Populator, NEW slot \in Nat, NEW C \in SUBSET Contract, NEW T,
         \A c \in C : Binds(p, c) /\ ArenaOf(Home[p], c) = Host =>
           \A l \in DOMAIN Caps[p], i \in Nat : TargetOf(p, l, i) \in T[c],
         \A c \in C : \A j \in DOMAIN arena[Host][c] :
           \A t \in Targets(arena[Host][c][j]) : t \in T[c]
  PROVE  \A c \in C : \A j \in DOMAIN Filled(p, slot)[Host][c] :
           \A t \in Targets(Filled(p, slot)[Host][c][j]) : t \in T[c]
<1> DEFINE Ok(cells, c) == \A j \in DOMAIN cells : \A t \in Targets(cells[j]) : t \in T[c]
           A == {a \in Arenas : \A c \in C : Ok(a[Host][c], c)}
<1>1. arena \in A /\ Host \in Binary
  BY ArenasType DEF Binary
<1>2. ASSUME NEW a \in A, NEW l \in DOMAIN Caps[p]
      PROVE  FillOne(a, p, slot, l) \in A
  <2>1. a \in Arenas
    OBVIOUS
  <2>2. ASSUME NEW c \in C
        PROVE  Ok(FillOne(a, p, slot, l)[Host][c], c)
    <3>1. Ok(a[Host][c], c)
      OBVIOUS
    <3>2. CASE Host = ArenaOf(Home[p], c) /\ c = Caps[p][l].contract
      <4>1. a[Host][c] \in Seq(Cell) /\ Len(a[Host][c]) % Volume[c] = 0
        BY <1>1, <2>1 DEF Arenas
      <4>2. FillOne(a, p, slot, l)[Host][c] = FillCells(a[Host][c], slot, p, l)
        BY <1>1, <2>1, <3>2, FillOneFacts
      <4>3. \A i \in 1 .. Volume[c] : TargetOf(p, l, i) \in T[c]
        <5>1. Binds(p, c)
          BY <3>2 DEF Binds
        <5> QED BY <3>2, <5>1, VolumeFacts
      <4> HIDE DEF A
      <4>4. ASSUME NEW j \in DOMAIN FillCells(a[Host][c], slot, p, l),
                   NEW t \in Targets(FillCells(a[Host][c], slot, p, l)[j])
            PROVE  t \in T[c]
        <5>1. FromRow(a[Host][c], slot, p, l, Volume[c], j, t)
          BY <3>2, <4>1, FillTargets
        <5> QED BY <3>1, <4>3, <5>1 DEF FromRow
      <4> QED BY <4>2, <4>4
    <3>3. CASE ~(Host = ArenaOf(Home[p], c) /\ c = Caps[p][l].contract)
      <4>1. FillOne(a, p, slot, l)[Host][c] = a[Host][c]
        BY <1>1, <2>1, <3>3, FillOneFacts
      <4> QED BY <3>1, <4>1
    <3> QED BY <3>2, <3>3
  <2>3. FillOne(a, p, slot, l) \in Arenas
    BY <2>1, FillOneFacts
  <2> QED BY <2>2, <2>3
<1>3. Filled(p, slot) \in A
  <2>1. A \in SUBSET Arenas
    OBVIOUS
  <2> HIDE DEF A
  <2> QED BY <1>1, <1>2, <2>1, FilledInduction
<1> QED BY <1>3

(* Every step keeps the targets mapped: a shutdown begins the refresh that *)
(* clears the host's arenas of what the plugin bound there.                *)
LEMMA StepTargets ==
  ASSUME TypeOK, ChainInv, CallInv, TargetsInv, [Next]_vars
  PROVE  TargetsInv'
<1> DEFINE Of(c, j, t) ==
      c \in HostBound /\ j \in DOMAIN arena[Host][c] /\ t \in Targets(arena[Host][c][j])
<1>0. /\ Host \notin Plugins /\ Host \in Binary /\ Plugins \subseteq Binary
      /\ HostBound \subseteq Contract
  BY RoutingAssumption DEF Binary, HostBound
<1>1. \A c, j, t : Of(c, j, t) =>
        \/ Present(Home[t.by])
        \/ Unclear(c) /\ phase[Home[t.by]] = "detached"
  BY DEF TargetsInv
<1>2. ASSUME \A b : Present(b) => Present(b)',
             \A c \in HostBound : arena'[Host][c] \in {<< >>, arena[Host][c]},
             UNCHANGED phase,
             \A c \in HostBound : Unclear(c) => Unclear(c)' \/ arena'[Host][c] = << >>
      PROVE  TargetsInv'
  <2> SUFFICES ASSUME NEW c \in HostBound, NEW j \in DOMAIN arena'[Host][c],
                      NEW t \in Targets(arena'[Host][c][j])
               PROVE  Present(Home[t.by])' \/ (Unclear(c)' /\ phase'[Home[t.by]] = "detached")
    BY DEF TargetsInv, Targets
  <2>1. arena'[Host][c] = arena[Host][c] /\ arena'[Host][c] # << >>
    BY <1>2
  <2>2. Of(c, j, t)
    BY <2>1
  <2> QED BY <1>1, <1>2, <2>1, <2>2
<1>3. ASSUME \A c \in HostBound : ~Unclear(c), UNCHANGED arena,
             \A b : Present(b) => \/ Present(b)'
                                  \/ phase'[b] = "detached" /\ \A c \in HostBound : Unclear(c)'
      PROVE  TargetsInv'
  <2> SUFFICES ASSUME NEW c \in HostBound, NEW j \in DOMAIN arena[Host][c],
                      NEW t \in Targets(arena[Host][c][j])
               PROVE  Present(Home[t.by])' \/ (Unclear(c)' /\ phase'[Home[t.by]] = "detached")
    BY <1>3 DEF TargetsInv
  <2> QED BY <1>1, <1>3
<1>4. caller = Null => \A c \in HostBound : ~Unclear(c)
  BY DEF CallInv, Unclear
<1>5. CASE UNCHANGED vars
  <2>1. \A c : Unclear(c)' <=> Unclear(c)
    BY <1>5 DEF vars, call, Unclear
  <2> QED BY <1>2, <1>5, <2>1 DEF vars, Present
<1>6. ASSUME NEW p \in Late, Construct(p) PROVE TargetsInv'
  BY <1>3, <1>4, <1>6 DEF Construct, Present
<1>7. ASSUME NEW p \in Plugins, Map(p) PROVE TargetsInv'
  BY <1>3, <1>4, <1>7 DEF Map, Present, TypeOK
<1>8. ASSUME NEW p \in Plugins, Unmap(p) PROVE TargetsInv'
  <2>1. /\ phase[p] \in {"mapped", "detached"} /\ caller = Null /\ UNCHANGED call
        /\ phase' = [phase EXCEPT ![p] = "unmapped"]
        /\ arena' = [arena EXCEPT ![p] = NoArenas]
    BY <1>8 DEF Unmap
  <2>2. \A b : Present(b) => Present(b)'
    BY <2>1 DEF Present, TypeOK
  <2>3. arena'[Host] = arena[Host]
    BY <1>0, <2>1 DEF TypeOK
  <2> SUFFICES ASSUME NEW c \in HostBound, NEW j \in DOMAIN arena[Host][c],
                      NEW t \in Targets(arena[Host][c][j])
               PROVE  Present(Home[t.by])'
    BY <2>3 DEF TargetsInv
  <2> QED BY <1>1, <1>4, <2>1, <2>2
<1>9. ASSUME NEW p \in Plugins, Bootstrap(p) PROVE TargetsInv'
  <2>1. caller = Null /\ phase' = [phase EXCEPT ![p] = "attached"] /\ UNCHANGED arena
    BY <1>9 DEF Bootstrap, Hook, Begin
  <2>2. \A b : Present(b) => Present(b)'
    BY <2>1 DEF Present, TypeOK
  <2> QED BY <1>3, <1>4, <2>1, <2>2
<1>10. ASSUME NEW p \in Plugins, Shutdown(p) PROVE TargetsInv'
  <2>1. /\ caller = Null /\ phase' = [phase EXCEPT ![p] = "detached"] /\ UNCHANGED arena
        /\ chain' = Only({x \in Populator : Home[x] # p}, chain) /\ Hook(p)
    BY <1>10 DEF Shutdown, Hook, Begin
  <2>2. \A b : Present(b) => Present(b)' \/ b = p
    BY <2>1 DEF Present, TypeOK
  <2>3. CASE LocalChain[p] = << >>
    <3> SUFFICES ASSUME NEW c \in HostBound, NEW j \in DOMAIN arena[Host][c],
                        NEW t \in Targets(arena[Host][c][j])
                 PROVE  Present(Home[t.by])'
      BY <2>1 DEF TargetsInv
    <3>1. Home[t.by] # p
      BY <1>0, <2>3, TargetsTyped, BareHome
    <3> QED BY <1>1, <1>4, <2>1, <2>2, <3>1
  <2>4. CASE LocalChain[p] # << >>
    <3>1. /\ passes' \in {ClearAndFill, ClearAndFill \o ClearAndFill} /\ at' = 1
          /\ cache' = Walk(p, chain')
      BY <2>1, <2>4 DEF Hook, Begin
    <3>2. passes' # << >> /\ Head(passes') = "clear"
      BY <3>1, TwicePasses DEF ClearAndFill
    <3>3. ASSUME NEW c \in HostBound PROVE Unclear(c)'
      <4>1. PICK x \in Range(LocalChain[Host]) : Binds(x, c)
        BY DEF HostBound
      <4>2. x \in Range(chain) /\ Home[x] = Host /\ x \in Populator
        BY <1>0, <4>1, LocalHome DEF ChainInv, Present
      <4>3. x \in Range(cache')
        BY <1>0, <2>1, <3>1, <4>2, OnlyFacts, WalkFacts DEF TypeOK
      <4>4. cache' # << >>
        BY <4>3 DEF Range
      <4>5. \A k : k \notin 1 .. at' - 1
        BY <3>1
      <4> QED BY <3>2, <4>4, <4>5 DEF Unclear
    <3>4. phase'[p] = "detached"
      BY <2>1 DEF TypeOK
    <3> QED BY <1>3, <1>4, <2>1, <2>2, <3>3, <3>4
  <2> QED BY <2>3, <2>4
<1>11. ASSUME NEW b \in Binary, ResolveToken(b) PROVE TargetsInv'
  BY <1>3, <1>4, <1>11 DEF ResolveToken, Present
<1>12. ASSUME NEW b \in Binary, NEW rewalk \in BOOLEAN, Refresh(b, rewalk) PROVE TargetsInv'
  BY <1>3, <1>4, <1>12 DEF Refresh, Begin, Present
<1>13. CASE FirstFind
  BY <1>3, <1>4, <1>13 DEF FirstFind, Present
<1>14. CASE Clear
  <2>1. /\ UNCHANGED <<phase, cache, passes>> /\ at' = at + 1 /\ at \in 1 .. Len(cache)
        /\ passes # << >> /\ Head(passes) = "clear"
    BY <1>14 DEF Clear, Visiting, TypeOK
  <2>2. \A c \in HostBound :
          arena'[Host][c] = IF Binds(cache[at], c) /\ ArenaOf(Home[cache[at]], c) = Host
                            THEN << >> ELSE arena[Host][c]
    BY <1>0, <1>14 DEF Clear
  <2>3. ASSUME NEW c \in HostBound, Unclear(c)
        PROVE  Unclear(c)' \/ arena'[Host][c] = << >>
    <3>1. CASE Home[cache[at]] = Host /\ Binds(cache[at], c)
      <4>1. ArenaOf(Home[cache[at]], c) = Host
        BY <1>0, <3>1, ArenaOwner
      <4> QED BY <2>2, <3>1, <4>1
    <3>2. CASE ~(Home[cache[at]] = Host /\ Binds(cache[at], c))
      <4>1. \A k \in 1 .. at' - 1 : k \in 1 .. at - 1 \/ k = at
        BY <2>1
      <4>2. \A k \in 1 .. at' - 1 : ~(Home[cache[k]] = Host /\ Binds(cache[k], c))
        BY <2>3, <3>2, <4>1 DEF Unclear
      <4> QED BY <2>1, <4>2 DEF Unclear
    <3> QED BY <3>1, <3>2
  <2> QED BY <1>2, <2>1, <2>2, <2>3 DEF Present
<1>15. CASE Populate
  <2>1. PICK p \in Populator, slot \in Nat : p \in Range(cache) /\ arena' = Filled(p, slot)
    BY <1>15, PopulateParts
  <2>2. UNCHANGED phase /\ passes # << >> /\ Head(passes) = "populate"
    BY <1>15 DEF Populate, Visiting
  <2> DEFINE T == [c \in HostBound |-> {t \in Target : Present(Home[t.by])}]
  <2>3. Present(Home[p])
    BY <2>1 DEF ChainInv
  <2>4. ASSUME NEW c \in HostBound, NEW j \in DOMAIN arena[Host][c],
               NEW t \in Targets(arena[Host][c][j])
        PROVE  t \in T[c]
    <3>1. t \in Target
      BY <1>0, TargetsTyped
    <3>2. ~Unclear(c)
      BY <2>2 DEF Unclear
    <3> QED BY <1>1, <3>1, <3>2
  <2>5. \A c \in HostBound : \A l \in DOMAIN Caps[p], i \in Nat : TargetOf(p, l, i) \in T[c]
    <3>1. \A l \in DOMAIN Caps[p] : l \in Nat
      BY CapsFacts
    <3> QED BY <2>3, <3>1 DEF TargetOf, Target
  <2>6. \A c \in HostBound : \A j \in DOMAIN arena'[Host][c] :
          \A t \in Targets(arena'[Host][c][j]) : t \in T[c]
    <3> HIDE DEF T
    <3>1. \A c \in HostBound : \A j \in DOMAIN Filled(p, slot)[Host][c] :
            \A t \in Targets(Filled(p, slot)[Host][c][j]) : t \in T[c]
      BY <1>0, <2>4, <2>5, FilledTargets
    <3> QED BY <2>1, <3>1
  <2>7. \A c \in HostBound : \A t \in T[c] : Present(Home[t.by])'
    BY <2>2 DEF Present
  <2> HIDE DEF T
  <2> QED BY <2>6, <2>7 DEF TargetsInv, Targets
<1>16. CASE NextPass
  <2>1. /\ UNCHANGED <<phase, cache, arena>> /\ at > Len(cache) /\ caller # Null
    BY <1>16 DEF NextPass
  <2>2. ASSUME NEW c \in HostBound, Unclear(c) PROVE FALSE
    <3>1. PICK p \in Range(LocalChain[Host]) : Binds(p, c)
      BY DEF HostBound
    <3>2. p \in Range(cache) /\ Home[p] = Host
      BY <1>0, <2>2, <3>1, LocalHome DEF ChainInv, Unclear
    <3>3. PICK k \in DOMAIN cache : cache[k] = p
      BY <3>2 DEF Range
    <3>4. k \in 1 .. at - 1
      BY <2>1, <3>3 DEF TypeOK
    <3> QED BY <2>2, <3>1, <3>2, <3>3, <3>4 DEF Unclear
  <2> QED BY <1>3, <2>1, <2>2 DEF Present
<1>17. CASE Return
  BY <1>3, <1>17 DEF Return, Unclear, Present
<1> QED
  BY <1>5, <1>6, <1>7, <1>8, <1>9, <1>10, <1>11, <1>12, <1>13, <1>14, <1>15, <1>16, <1>17
  DEF Next, Step

-----------------------------------------------------------------------------
(* What cells hold.                                                        *)

(* A binding in the walk is a populator and one of its capabilities.       *)
LEMMA BindingsFacts ==
  ASSUME TypeOK, NEW b, NEW c, NEW m, NEW kl
  PROVE  kl \in Bindings(b, c, m) <=>
           \E k \in DOMAIN cache : \E l \in DOMAIN Caps[cache[k]] :
             /\ kl = <<k, l>>
             /\ Serves(cache[k], b, c)
             /\ Bound[cache[k]] = m /\ Caps[cache[k]][l].contract = c
BY DEF Bindings

(* The rows of two slots have no cell in common.                           *)
RowApart(c, r, i, s) ==
  /\ r = s => Place(c, r, i) - (s - 1) * Volume[c] = i
  /\ r # s => Place(c, r, i) - (s - 1) * Volume[c] \notin 1 .. Volume[c]
LEMMA PlaceFacts ==
  ASSUME NEW c \in Contract, NEW r \in Nat \ {0}, NEW i \in 1 .. Volume[c]
  PROVE  /\ Place(c, r, i) \in Nat \ {0}
         /\ (Place(c, r, i) - 1) \div Volume[c] = r - 1
         /\ \A s \in Nat \ {0} : RowApart(c, r, i, s)
<1> USE DEF RowApart
<1> SUFFICES ASSUME NEW s \in Nat \ {0}
             PROVE  /\ Place(c, r, i) \in Nat \ {0}
                    /\ (Place(c, r, i) - 1) \div Volume[c] = r - 1
                    /\ r = s => Place(c, r, i) - (s - 1) * Volume[c] = i
                    /\ r # s => Place(c, r, i) - (s - 1) * Volume[c] \notin 1 .. Volume[c]
  <2>1. 1 \in Nat \ {0}
    OBVIOUS
  <2> QED BY <2>1
<1> DEFINE v == Volume[c]
           x == r - 1
           y == s - 1
<1>1. v \in Nat \ {0}
  BY VolumeFacts
<1>2. i \in 1 .. v
  OBVIOUS
<1>8. x \in Nat /\ y \in Nat /\ (r # s => x # y)
  OBVIOUS
<1>9. /\ Place(c, r, i) = x * v + i /\ Place(c, s, i) = y * v + i
      /\ (s - 1) * Volume[c] = y * v
  BY DEF Place
<1> HIDE DEF v, x, y
<1>3. x * v \in Nat /\ y * v \in Nat
  BY <1>1, <1>8
<1>4. ((x * v + i) - 1) \div v = x
  BY <1>1, <1>2, <1>8, SMT
<1>5. x < y => x * v + v <= y * v
  <2> SUFFICES ASSUME x < y PROVE x * v + v <= y * v
    OBVIOUS
  <2>1. PICK d \in Nat : y = x + 1 + d
    <3>1. y - x - 1 \in Nat /\ y = x + 1 + (y - x - 1)
      BY <1>8
    <3> QED BY <3>1
  <2>2. y * v = x * v + v + d * v /\ d * v \in Nat
    BY <1>1, <1>8, <2>1
  <2> QED BY <1>1, <1>3, <2>2
<1>6. y < x => y * v + v <= x * v
  <2> SUFFICES ASSUME y < x PROVE y * v + v <= x * v
    OBVIOUS
  <2>1. PICK d \in Nat : x = y + 1 + d
    <3>1. x - y - 1 \in Nat /\ x = y + 1 + (x - y - 1)
      BY <1>8
    <3> QED BY <3>1
  <2>2. x * v = y * v + v + d * v /\ d * v \in Nat
    BY <1>1, <1>8, <2>1
  <2> QED BY <1>1, <1>3, <2>2
<1>7. /\ x * v + i \in Nat \ {0}
      /\ (y * v + i) - y * v = i
      /\ x # y => (x * v + i) - y * v \notin 1 .. v
  <2> DEFINE xv == x * v
             yv == y * v
  <2>1. (x < y => xv + v <= yv) /\ (y < x => yv + v <= xv)
    BY <1>5, <1>6
  <2>2. xv \in Nat /\ yv \in Nat /\ (x # y => x < y \/ y < x)
    BY <1>3, <1>8
  <2> HIDE DEF xv, yv
  <2>3. /\ xv + i \in Nat \ {0} /\ (yv + i) - yv = i
        /\ x # y => (xv + i) - yv \notin 1 .. v
    BY <1>1, <1>2, <2>1, <2>2
  <2> QED BY <2>3 DEF xv, yv
<1>10. Volume[c] = v /\ r - 1 = x
  BY DEF v, x
<1>11. Place(c, r, i) \in Nat \ {0} /\ (Place(c, r, i) - 1) \div Volume[c] = r - 1
  <2>1. Place(c, r, i) \in Nat \ {0}
    BY <1>7, <1>9
  <2>2. (Place(c, r, i) - 1) \div Volume[c] = r - 1
    BY <1>4, <1>9, <1>10
  <2> QED BY <2>1, <2>2
<1>12. Place(c, s, i) - (s - 1) * Volume[c] = i
  BY <1>7, <1>9
<1>13. r # s => Place(c, r, i) - (s - 1) * Volume[c] \notin 1 .. Volume[c]
  BY <1>7, <1>8, <1>9, <1>10
<1> QED BY <1>11, <1>12, <1>13

(* An empty cell holds no bindings.                                        *)
LEMMA EmptyHolds ==
  ASSUME NEW cell \in Cell, Targets(cell) = {}, NEW i
  PROVE  CellHolds(cell, {}, i)
<1>1. cell.rules \in Seq(Target) /\ Range(cell.rules) = {} /\ cell.fallback = Null
  BY DEF Cell, Targets
<1>2. Len(cell.rules) = 0
  <2> SUFFICES ASSUME NEW s \in Seq(Target), Range(s) = {} PROVE Len(s) = 0
    BY <1>1
  <2>1. DOMAIN s = 1 .. Len(s) /\ Len(s) \in Nat /\ \A x \in DOMAIN s : s[x] \in Range(s)
    BY DEF Range
  <2>2. 1 \notin 1 .. Len(s)
    BY <2>1
  <2> QED BY <2>1, <2>2
<1>3. OfKind({}, "rule", i) = {} /\ OfKind({}, "fallback", i) = {}
  BY DEF OfKind
<1>4. ListsRules(cell.rules, {}, i)
  <2> DEFINE w == [x \in 1 .. 0 |-> x]
  <2>1. 1 .. Len(cell.rules) = 1 .. 0 /\ \A x : x \notin 1 .. 0
    BY <1>2
  <2>2. w \in [1 .. Len(cell.rules) -> OfKind({}, "rule", i)]
    BY <1>3, <2>1
  <2> HIDE DEF w
  <2> QED BY <1>3, <2>1, <2>2 DEF ListsRules
<1> QED BY <1>1, <1>3, <1>4 DEF CellHolds, LastFallback

(* A cell that is bound to holds one binding more, and it is the last.     *)
LEMMA BindHolds ==
  ASSUME NEW cell \in Cell, NEW kls, NEW kl, NEW i, KindAt(kl, i) \in Kind,
         \A other \in kls : Lex(other, kl) /\ other # kl, CellHolds(cell, kls, i)
  PROVE  CellHolds(Bind(cell, KindAt(kl, i), AtCell(kl, i)), kls \cup {kl}, i)
<1> DEFINE kind == KindAt(kl, i)
           t == AtCell(kl, i)
           all == kls \cup {kl}
           new == Bind(cell, kind, t)
<1>1. \A k \in Kind : OfKind(all, k, i) = IF k = kind THEN OfKind(kls, k, i) \cup {kl}
                                                      ELSE OfKind(kls, k, i)
  BY DEF OfKind
<1>2. ListsRules(cell.rules, kls, i) /\ LastFallback(cell.fallback, kls, i)
  BY DEF CellHolds
<1>3. cell.rules \in Seq(Target)
  BY DEF Cell
<1>4. "rule" \in Kind /\ "fallback" \in Kind
  BY DEF Kind
<1>5. CASE kind = "rule"
  <2>1. new = [cell EXCEPT !.rules = Append(@, t)]
    BY <1>5, Zenon DEF Bind
  <2>2. new.rules = Append(cell.rules, t) /\ new.fallback = cell.fallback
    BY <2>1 DEF Cell
  <2>3. /\ OfKind(all, "rule", i) = OfKind(kls, "rule", i) \cup {kl}
        /\ OfKind(all, "fallback", i) = OfKind(kls, "fallback", i)
    BY <1>1, <1>4, <1>5
  <2>4. LastFallback(new.fallback, all, i)
    BY <1>2, <2>2, <2>3 DEF LastFallback
  <2>5. ListsRules(new.rules, all, i)
    <3>1. PICK w \in [1 .. Len(cell.rules) -> OfKind(kls, "rule", i)] :
            /\ \A x \in 1 .. Len(cell.rules) : cell.rules[x] = AtCell(w[x], i)
            /\ \A x, y \in 1 .. Len(cell.rules) : x < y => Lex(w[x], w[y])
            /\ \A o \in OfKind(kls, "rule", i) : \E x \in 1 .. Len(cell.rules) : w[x] = o
      BY <1>2 DEF ListsRules
    <3> DEFINE n == Len(cell.rules)
               u == [x \in 1 .. n + 1 |-> IF x = n + 1 THEN kl ELSE w[x]]
    <3>2. /\ n \in Nat /\ Len(new.rules) = n + 1 /\ new.rules[n + 1] = t
          /\ \A x \in 1 .. n : new.rules[x] = cell.rules[x]
      BY <1>3, <2>2
    <3>3. \A x \in 1 .. n + 1 : x \in 1 .. n \/ x = n + 1
      BY <3>2
    <3>4. \A x \in 1 .. n : w[x] \in kls /\ w[x] \in OfKind(kls, "rule", i)
      BY <3>1 DEF OfKind
    <3> HIDE DEF t, new, all, kind, n
    <3>5. u \in [1 .. n + 1 -> OfKind(all, "rule", i)]
      BY <2>3, <3>3, <3>4
    <3>6. u[n + 1] = kl /\ \A x \in 1 .. n : u[x] = w[x]
      BY <3>2
    <3> HIDE DEF u
    <3>7. \A x \in 1 .. n + 1 : new.rules[x] = AtCell(u[x], i)
      BY <3>1, <3>2, <3>3, <3>6 DEF t, n
    <3>8. \A x, y \in 1 .. n + 1 : x < y => Lex(u[x], u[y])
      <4> SUFFICES ASSUME NEW x \in 1 .. n + 1, NEW y \in 1 .. n + 1, x < y
                   PROVE  Lex(u[x], u[y])
        OBVIOUS
      <4>1. x \in 1 .. n
        BY <3>2
      <4>2. CASE y \in 1 .. n
        BY <3>1, <3>6, <4>1, <4>2 DEF n
      <4>3. CASE y = n + 1
        BY <3>4, <3>6, <4>1, <4>3
      <4> QED BY <3>3, <4>2, <4>3
    <3>9. \A o \in OfKind(all, "rule", i) : \E x \in 1 .. n + 1 : u[x] = o
      <4> SUFFICES ASSUME NEW o \in OfKind(all, "rule", i)
                   PROVE  \E x \in 1 .. n + 1 : u[x] = o
        OBVIOUS
      <4>1. CASE o = kl
        <5>1. n + 1 \in 1 .. n + 1
          BY <3>2
        <5> QED BY <3>6, <4>1, <5>1
      <4>2. CASE o \in OfKind(kls, "rule", i)
        <5>1. PICK x \in 1 .. n : w[x] = o
          BY <3>1, <4>2 DEF n
        <5>2. x \in 1 .. n + 1 /\ u[x] = o
          BY <3>2, <3>6, <5>1
        <5> QED BY <5>2
      <4> QED BY <2>3, <4>1, <4>2
    <3>10. \E v \in [1 .. n + 1 -> OfKind(all, "rule", i)] :
             /\ \A x \in 1 .. n + 1 : new.rules[x] = AtCell(v[x], i)
             /\ \A x, y \in 1 .. n + 1 : x < y => Lex(v[x], v[y])
             /\ \A o \in OfKind(all, "rule", i) : \E x \in 1 .. n + 1 : v[x] = o
      BY <3>5, <3>7, <3>8, <3>9, ZenonT(30)
    <3>11. Len(new.rules) = n + 1
      BY <3>2
    <3> QED BY <3>10, <3>11, Zenon DEF ListsRules
  <2> QED BY <2>4, <2>5 DEF CellHolds
<1>6. CASE kind = "fallback"
  <2>1. new = [cell EXCEPT !.fallback = t]
    BY <1>6, Zenon DEF Bind
  <2>2. new.rules = cell.rules /\ new.fallback = t
    BY <2>1 DEF Cell
  <2>3. /\ OfKind(all, "rule", i) = OfKind(kls, "rule", i)
        /\ OfKind(all, "fallback", i) = OfKind(kls, "fallback", i) \cup {kl}
    BY <1>1, <1>4, <1>6
  <2>4. LastFallback(new.fallback, all, i)
    <3>1. \A o \in OfKind(kls, "fallback", i) : Lex(o, kl)
      BY DEF OfKind
    <3> HIDE DEF new, all
    <3> QED BY <2>2, <2>3, <3>1 DEF LastFallback
  <2> HIDE DEF new, all
  <2>5. ListsRules(new.rules, all, i)
    BY <1>2, <2>2, <2>3 DEF ListsRules
  <2> QED BY <2>4, <2>5 DEF CellHolds, new, all
<1>7. CASE kind = "none"
  <2>1. new = cell
    BY <1>7, Zenon DEF Bind
  <2>2. /\ OfKind(all, "rule", i) = OfKind(kls, "rule", i)
        /\ OfKind(all, "fallback", i) = OfKind(kls, "fallback", i)
    BY <1>1, <1>4, <1>7
  <2> HIDE DEF new, all
  <2>3. ListsRules(new.rules, all, i) /\ LastFallback(new.fallback, all, i)
    BY <1>2, <2>1, <2>2 DEF ListsRules, LastFallback
  <2> QED BY <2>3 DEF CellHolds, new, all
<1> QED BY <1>5, <1>6, <1>7 DEF Kind

(* The new slots of a directory are those of models nothing is bound to.   *)
LEMMA HoldsGrown ==
  ASSUME NEW b, NEW c \in Contract, NEW n, NEW l, NEW cells \in Seq(Cell),
         NEW s \in Seq(Model), NEW t, Grown(s, t), RowsOk(cells, s, c),
         Holds(cells, s, b, c, n, l)
  PROVE  Holds(cells, t, b, c, n, l)
<1>1. /\ t \in Seq(Model) /\ IsInjective(t)
      /\ \A k \in DOMAIN s : k \in DOMAIN t /\ t[k] = s[k]
  BY DEF Grown
<1>2. \A m : m \in Range(s) => m \in Range(t)
  BY <1>1 DEF Range
<1> SUFFICES ASSUME NEW m \in Model
             PROVE  /\ m \notin Range(t) => Filling(b, c, m, n, l) = {}
                    /\ \A r \in DOMAIN t : t[r] = m => \A i \in 1 .. Volume[c] :
                         CellHolds(CellIn(cells, Place(c, r, i)), Filling(b, c, m, n, l), i)
  BY DEF Holds
<1>3. m \notin Range(s) => Filling(b, c, m, n, l) = {}
  BY DEF Holds
<1>4. ASSUME NEW r \in DOMAIN t, t[r] = m, NEW i \in 1 .. Volume[c]
      PROVE  CellHolds(CellIn(cells, Place(c, r, i)), Filling(b, c, m, n, l), i)
  <2>1. CASE r \in DOMAIN s
    <3>1. s[r] = m
      BY <1>1, <1>4, <2>1
    <3> QED BY <2>1, <3>1 DEF Holds
  <2>2. CASE r \notin DOMAIN s
    <3>1. m \notin Range(s)
      <4> SUFFICES ASSUME NEW k \in DOMAIN s, s[k] = m PROVE FALSE
        BY DEF Range
      <4>1. k \in DOMAIN t /\ t[k] = t[r]
        BY <1>1, <1>4
      <4>2. k = r
        BY <1>1, <4>1 DEF IsInjective
      <4> QED BY <2>2, <4>2
    <3>2. r \in Nat \ {0}
      BY <1>1
    <3>3. /\ Place(c, r, i) \in Nat \ {0}
          /\ (Place(c, r, i) - 1) \div Volume[c] = r - 1
      BY <3>2, PlaceFacts
    <3> DEFINE cell == CellIn(cells, Place(c, r, i))
    <3>4. cell \in Cell
      <4>1. EmptyCell \in Cell
        BY DEF EmptyCell, Cell
      <4> QED BY <4>1 DEF CellIn
    <3>5. Targets(cell) = {}
      <4>1. CASE Place(c, r, i) \in DOMAIN cells
        <5>1. ASSUME NEW x \in Targets(cells[Place(c, r, i)])
              PROVE  (r - 1) + 1 \in DOMAIN s
          BY <3>3, <4>1 DEF RowsOk
        <5>2. (r - 1) + 1 = r
          BY <3>2
        <5> QED BY <2>2, <4>1, <5>1, <5>2 DEF CellIn
      <4>2. CASE Place(c, r, i) \notin DOMAIN cells
        BY <4>2 DEF CellIn, EmptyCell, Targets, Range
      <4> QED BY <4>1, <4>2
    <3> QED BY <1>3, <3>1, <3>4, <3>5, EmptyHolds
  <2> QED BY <2>1, <2>2
<1> QED BY <1>2, <1>3, <1>4

(* The bindings before the first are none.                                 *)
LEMMA FillingStart ==
  ASSUME TypeOK, NEW b, NEW c, NEW m
  PROVE  Filling(b, c, m, 1, 1) = {}
<1> SUFFICES ASSUME NEW kl \in Bindings(b, c, m), Lex(kl, <<1, 1>>) PROVE FALSE
  BY DEF Filling
<1>1. PICK k \in DOMAIN cache : \E l \in DOMAIN Caps[cache[k]] : kl = <<k, l>>
  BY BindingsFacts
<1>2. k \in Nat \ {0} /\ cache[k] \in Populator
  BY DEF TypeOK
<1>3. PICK l \in DOMAIN Caps[cache[k]] : kl = <<k, l>>
  BY <1>1
<1>4. l \in Nat \ {0}
  BY <1>2, CapsFacts
<1> QED BY <1>2, <1>3, <1>4 DEF Lex

(* A capability adds its own binding, behind those before it.              *)
BoundNext(b, c, m, n, l, p) ==
  LET own == Serves(p, b, c) /\ Bound[p] = m /\ Caps[p][l].contract = c
  IN /\ Filling(b, c, m, n, l + 1) =
          Filling(b, c, m, n, l) \cup (IF own THEN {<<n, l>>} ELSE {})
     /\ \A kl \in Filling(b, c, m, n, l) : Lex(kl, <<n, l>>) /\ kl # <<n, l>>

(* A capability is the next binding after those that come before it.       *)
LEMMA FillingNext ==
  ASSUME TypeOK, NEW b, NEW c, NEW m, NEW n \in DOMAIN cache, NEW p, p = cache[n],
         NEW l \in DOMAIN Caps[p]
  PROVE  BoundNext(b, c, m, n, l, p)
<1>1. n \in Nat /\ p \in Populator
  BY DEF TypeOK
<1>2. l \in Nat
  BY <1>1, CapsFacts
<1>3. ASSUME NEW kl \in Bindings(b, c, m)
      PROVE  /\ Lex(kl, <<n, l + 1>>) <=> Lex(kl, <<n, l>>) \/ kl = <<n, l>>
             /\ ~Lex(<<n, l>>, <<n, l>>)
  <2>1. PICK k \in DOMAIN cache : \E j \in DOMAIN Caps[cache[k]] : kl = <<k, j>>
    BY BindingsFacts
  <2>2. PICK j \in DOMAIN Caps[cache[k]] : kl = <<k, j>>
    BY <2>1
  <2>3. k \in Nat /\ cache[k] \in Populator
    BY DEF TypeOK
  <2>4. j \in Nat
    BY <2>3, CapsFacts
  <2>5. kl[1] = k /\ kl[2] = j /\ <<n, l>>[1] = n /\ <<n, l>>[2] = l
        /\ <<n, l + 1>>[1] = n /\ <<n, l + 1>>[2] = l + 1
    BY <2>2
  <2>6. (kl = <<n, l>>) <=> (k = n /\ j = l)
    BY <2>2
  <2> QED BY <1>1, <1>2, <2>3, <2>4, <2>5, <2>6 DEF Lex
<1>4. <<n, l>> \in Bindings(b, c, m) <=>
        Serves(p, b, c) /\ Bound[p] = m /\ Caps[p][l].contract = c
  <2>1. \A k, j : <<n, l>> = <<k, j>> <=> k = n /\ j = l
    OBVIOUS
  <2> QED BY <2>1, BindingsFacts
<1> QED BY <1>3, <1>4 DEF Filling, BoundNext

(* Behind a populator's last capability comes the next populator.          *)
LEMMA FillingTurn ==
  ASSUME TypeOK, NEW b, NEW c, NEW m, NEW n \in DOMAIN cache, NEW p, p = cache[n]
  PROVE  Filling(b, c, m, n, Len(Caps[p]) + 1) = Filling(b, c, m, n + 1, 1)
<1>1. n \in Nat /\ p \in Populator
  BY DEF TypeOK
<1>2. Len(Caps[p]) \in Nat /\ DOMAIN Caps[p] = 1 .. Len(Caps[p])
  BY <1>1, CapsFacts
<1>3. ASSUME NEW kl \in Bindings(b, c, m)
      PROVE  Lex(kl, <<n, Len(Caps[p]) + 1>>) <=> Lex(kl, <<n + 1, 1>>)
  <2>1. PICK k \in DOMAIN cache : \E j \in DOMAIN Caps[cache[k]] : kl = <<k, j>>
    BY BindingsFacts
  <2>2. PICK j \in DOMAIN Caps[cache[k]] : kl = <<k, j>>
    BY <2>1
  <2>3. k \in Nat /\ cache[k] \in Populator
    BY DEF TypeOK
  <2>4. j \in Nat \ {0} /\ j <= Len(Caps[cache[k]])
    BY <2>3, CapsFacts
  <2> QED BY <1>1, <1>2, <2>2, <2>3, <2>4 DEF Lex
<1> QED BY <1>3 DEF Filling

(* One capability is bound to the cells of its model's row.                *)
LEMMA FillOneHolds ==
  ASSUME TypeOK, NEW a \in Arenas, NEW b \in Binary, NEW c \in Contract, ArenaOf(b, c) = b,
         NEW n \in DOMAIN cache, NEW p, p = cache[n], NEW l \in DOMAIN Caps[p],
         NEW s, s - 1 \in Nat, NEW idx \in Seq(Model), IsInjective(idx),
         ArenaOf(Home[p], c) = b => s \in DOMAIN idx /\ idx[s] = Bound[p],
         Holds(a[b][c], idx, b, c, n, l)
  PROVE  Holds(FillOne(a, p, s - 1, l)[b][c], idx, b, c, n, l + 1)
<1>1. p \in Populator
  BY DEF TypeOK
<1>2. CASE ~(b = ArenaOf(Home[p], c) /\ c = Caps[p][l].contract)
  <2>1. FillOne(a, p, s - 1, l)[b][c] = a[b][c]
    BY <1>1, <1>2, FillOneFacts
  <2>2. ~(Serves(p, b, c) /\ Caps[p][l].contract = c)
    BY <1>2 DEF Serves
  <2>3. ASSUME NEW m
        PROVE  Filling(b, c, m, n, l + 1) = Filling(b, c, m, n, l)
    <3>1. BoundNext(b, c, m, n, l, p)
      BY FillingNext
    <3> QED BY <2>2, <3>1 DEF BoundNext
  <2> QED BY <2>1, <2>3 DEF Holds
<1>3. CASE b = ArenaOf(Home[p], c) /\ c = Caps[p][l].contract
  <2> DEFINE old == a[b][c]
             cells == FillCells(old, s - 1, p, l)
             v == Volume[c]
  <2>1. FillOne(a, p, s - 1, l)[b][c] = cells
    <3>1. \A c_ \in Contract :
            FillOne(a, p, s - 1, l)[b][c_] =
              IF b = ArenaOf(Home[p], c_) /\ c_ = Caps[p][l].contract
              THEN FillCells(a[b][c_], s - 1, p, l) ELSE a[b][c_]
      BY <1>1, FillOneFacts
    <3> QED BY <1>3, <3>1
  <2>2. old \in Seq(Cell) /\ Len(old) % v = 0
    BY DEF Arenas
  <2>3. s \in DOMAIN idx /\ idx[s] = Bound[p] /\ s \in Nat \ {0}
    BY <1>3
  <2>4. Serves(p, b, c)
    BY <1>3 DEF Serves, Binds
  <2>5. RowFilled(cells, old, s - 1, p, l, v)
    <3>1. v = Volume[Caps[p][l].contract] /\ s - 1 \in Nat
      BY <1>3
    <3> HIDE DEF v, old
    <3> QED BY <1>1, <2>2, <3>1, FillCellsFacts
  <2>6. /\ v \in Nat \ {0} /\ \A i \in 1 .. v : Caps[p][l].kinds[i] \in Kind
    BY <1>1, <1>3, CapsFacts
  <2> HIDE DEF cells, old
  <2> SUFFICES ASSUME NEW m \in Model
               PROVE  /\ m \notin Range(idx) => Filling(b, c, m, n, l + 1) = {}
                      /\ \A r \in DOMAIN idx : idx[r] = m => \A i \in 1 .. v :
                           CellHolds(CellIn(cells, Place(c, r, i)),
                                     Filling(b, c, m, n, l + 1), i)
    BY <2>1 DEF Holds
  <2>7. /\ Filling(b, c, m, n, l + 1) =
             IF Bound[p] = m THEN Filling(b, c, m, n, l) \cup {<<n, l>>}
                             ELSE Filling(b, c, m, n, l)
        /\ \A kl \in Filling(b, c, m, n, l) : Lex(kl, <<n, l>>) /\ kl # <<n, l>>
    <3>1. BoundNext(b, c, m, n, l, p)
      BY FillingNext
    <3> QED BY <1>3, <2>4, <3>1 DEF BoundNext
  <2>8. m \notin Range(idx) => Filling(b, c, m, n, l + 1) = {}
    <3>1. m \notin Range(idx) => m # Bound[p]
      BY <2>3 DEF Range
    <3>2. m \notin Range(idx) => Filling(b, c, m, n, l) = {}
      BY DEF Holds
    <3> QED BY <2>7, <3>1, <3>2
  <2>9. ASSUME NEW r \in DOMAIN idx, idx[r] = m, NEW i \in 1 .. v
        PROVE  CellHolds(CellIn(cells, Place(c, r, i)), Filling(b, c, m, n, l + 1), i)
    <3> DEFINE j == Place(c, r, i)
               cell == CellIn(old, j)
    <3>1. r \in Nat \ {0}
      OBVIOUS
    <3>2. j \in Nat \ {0} /\ (r = s => j - (s - 1) * v = i)
          /\ (r # s => j - (s - 1) * v \notin 1 .. v)
      <4>1. RowApart(c, r, i, s) /\ j \in Nat \ {0}
        <5> HIDE DEF v
        <5>1. i \in 1 .. Volume[c]
          BY DEF v
        <5> QED BY <2>3, <3>1, <5>1, PlaceFacts, ZenonT(30)
      <4> QED BY <4>1 DEF RowApart
    <3> HIDE DEF j
    <3>3. CellHolds(cell, Filling(b, c, m, n, l), i)
      BY <2>9 DEF Holds, old, j
    <3>4. cell \in Cell
      <4>1. EmptyCell \in Cell
        BY DEF EmptyCell, Cell
      <4> QED BY <2>2, <4>1 DEF CellIn
    <3>5. CASE r = s
      <4>1. m = Bound[p]
        BY <2>3, <2>9, <3>5
      <4>2. KindAt(<<n, l>>, i) = Caps[p][l].kinds[i] /\ AtCell(<<n, l>>, i) = TargetOf(p, l, i)
        BY DEF KindAt, AtCell
      <4>3. CellIn(cells, j) = Bind(cell, KindAt(<<n, l>>, i), AtCell(<<n, l>>, i))
        BY <2>5, <3>2, <3>5, <4>2 DEF RowFilled, CellFilled
      <4>4. KindAt(<<n, l>>, i) \in Kind
        BY <2>6, <4>2
      <4> HIDE DEF cell
      <4>5. CellHolds(CellIn(cells, j), Filling(b, c, m, n, l) \cup {<<n, l>>}, i)
        BY <2>7, <3>3, <3>4, <4>3, <4>4, BindHolds
      <4> QED BY <2>7, <4>1, <4>5 DEF j
    <3>6. CASE r # s
      <4>1. m # Bound[p]
        BY <2>3, <2>9, <3>6 DEF IsInjective
      <4>2. CellIn(cells, j) = cell
        BY <2>5, <3>2, <3>6 DEF RowFilled, CellFilled
      <4> QED BY <2>7, <3>3, <4>1, <4>2 DEF j
    <3> QED BY <3>5, <3>6
  <2> QED BY <2>8, <2>9
<1> QED BY <1>2, <1>3

(* A populator's call adds the populator's bindings.                       *)
LEMMA FilledHolds ==
  ASSUME TypeOK, NEW b \in Binary, NEW c \in Contract, ArenaOf(b, c) = b,
         NEW n \in DOMAIN cache, NEW p, p = cache[n],
         NEW s, s - 1 \in Nat, NEW idx \in Seq(Model), IsInjective(idx),
         ArenaOf(Home[p], c) = b => s \in DOMAIN idx /\ idx[s] = Bound[p],
         Holds(arena[b][c], idx, b, c, n, 1)
  PROVE  Holds(Filled(p, s - 1)[b][c], idx, b, c, n + 1, 1)
<1> DEFINE len == Len(Caps[p])
<1>1. p \in Populator
  BY DEF TypeOK
<1>2. len \in Nat /\ DOMAIN Caps[p] = 1 .. len
  BY <1>1, CapsFacts
<1>3. PICK v \in [0 .. len -> Arenas] :
         /\ v[0] = arena /\ v[len] = Filled(p, s - 1)
         /\ \A l \in 1 .. len : v[l] = FillOne(v[l - 1], p, s - 1, l)
  BY <1>1, ArenasType, FillSteps
<1>4. \A m : Filling(b, c, m, n, len + 1) = Filling(b, c, m, n + 1, 1)
  BY FillingTurn
<1> HIDE DEF len
<1> DEFINE S == {k \in Nat : k <= len => Holds(v[k][b][c], idx, b, c, n, k + 1)}
<1>5. 0 \in S
  <2>1. 0 + 1 = 1
    OBVIOUS
  <2> QED BY <1>3, <2>1
<1>6. ASSUME NEW k \in Nat, k \in S PROVE k + 1 \in S
  <2> SUFFICES ASSUME k + 1 <= len PROVE Holds(v[k + 1][b][c], idx, b, c, n, (k + 1) + 1)
    OBVIOUS
  <2>1. /\ k + 1 \in DOMAIN Caps[p] /\ k + 1 \in 1 .. len /\ (k + 1) - 1 = k
        /\ k \in 0 .. len /\ Holds(v[k][b][c], idx, b, c, n, k + 1)
    BY <1>2, <1>6
  <2>2. v[k + 1] = FillOne(v[k], p, s - 1, k + 1) /\ v[k] \in Arenas
    BY <1>3, <2>1
  <2> HIDE DEF S
  <2> QED BY <2>1, <2>2, FillOneHolds
<1>7. Nat \subseteq S
  <2> HIDE DEF S
  <2> QED BY <1>5, <1>6, NatSetInduction
<1>8. Holds(Filled(p, s - 1)[b][c], idx, b, c, n, len + 1)
  BY <1>2, <1>3, <1>7
<1> QED BY <1>4, <1>8 DEF Holds

(* What an arena holds depends on the walk and on who writes to the arena. *)
LEMMA HoldsPrimed ==
  ASSUME UNCHANGED cache, NEW b, NEW c,
         \A k \in DOMAIN cache : Serves(cache[k], b, c)' <=> Serves(cache[k], b, c),
         NEW cells, cells = arena'[b][c], NEW idx, idx = index'[IndexOf(b)'],
         NEW n, n = Due', Holds(cells, idx, b, c, n, 1)
  PROVE  Holds(arena[b][c], index[IndexOf(b)], b, c, Due, 1)'
<1>1. ASSUME NEW m
      PROVE  Bindings(b, c, m)' = Bindings(b, c, m)
  BY DEF Bindings, Serves, ArenaOf
<1>2. ASSUME NEW m
      PROVE  Filling(b, c, m, n, 1)' = Filling(b, c, m, n, 1)
  BY <1>1 DEF Filling, Lex
<1>3. ASSUME NEW cell, NEW kls, NEW i
      PROVE  CellHolds(cell, kls, i)' <=> CellHolds(cell, kls, i)
  BY DEF CellHolds, ListsRules, LastFallback, OfKind, KindAt, AtCell, Lex
<1> QED BY <1>2, <1>3 DEF Holds, CellIn, Place

(* A binary of the walk keeps its anchors.                                 *)
LEMMA ServesKept ==
  ASSUME UNCHANGED <<cache, remote>>, NEW b, NEW c
  PROVE  /\ \A k \in DOMAIN cache : Serves(cache[k], b, c)' <=> Serves(cache[k], b, c)
         /\ Served(b, c)' <=> Served(b, c)
BY DEF Serves, Served, ArenaOf

(* Nothing is left to say of an arena when a refresh begins.               *)
LEMMA FillBegins ==
  ASSUME passes' \in {ClearAndFill, ClearAndFill \o ClearAndFill}, at' = 1
  PROVE  FillInv'
<1>1. Clearing'
  BY TwicePasses DEF Clearing, ClearAndFill
<1>2. \A k : k \notin 1 .. at' - 1
  OBVIOUS
<1> QED BY <1>1, <1>2 DEF FillInv

(* Every step keeps what the arenas hold: the last clearing visit ends     *)
(* with every arena of the walk empty, and each populator of the visit     *)
(* that follows adds its own bindings.                                     *)
LEMMA StepFill ==
  ASSUME TypeOK, ImagesInv, ChainInv, CallInv, RowsInv, FillInv, [Next]_vars
  PROVE  FillInv'
<1>0. /\ Host \notin Plugins /\ Host \in Binary /\ Plugins \subseteq Binary
      /\ OneDirectory \subseteq Contract
      /\ caller = Null => passes = << >>
  BY RoutingAssumption DEF Binary, OneDirectory, CallInv
<1>1. \A b \in Binary : IndexOf(b) \in Binary /\ index[b] \in Seq(Model)
  BY IndexOfBinary DEF TypeOK
<1>2. \A b \in Binary, c \in OneDirectory : RowsOk(arena[b][c], index[IndexOf(b)], c)
  BY RowsByArena
<1>3. \A b \in Binary, c \in OneDirectory : arena[b][c] \in Seq(Cell)
  BY <1>0 DEF TypeOK
<1>4. ASSUME NEW b \in Binary, Begin(b) PROVE FillInv'
  BY <1>4, FillBegins DEF Begin
<1>5. ASSUME NEW b \in Binary, NEW c \in OneDirectory, Served(b, c), ~Clearing
      PROVE  Holds(arena[b][c], index[IndexOf(b)], b, c, Due, 1)
  BY <1>5 DEF FillInv
<1>6. ASSUME UNCHANGED <<cache, remote, arena>>, Growth, Due' = Due, Clearing' <=> Clearing,
             Clearing => at' = at
      PROVE  FillInv'
  <2> SUFFICES ASSUME NEW b \in Binary, NEW c \in OneDirectory, Served(b, c)'
               PROVE  IF Clearing'
                      THEN \A k \in 1 .. at' - 1 :
                             Serves(cache[k], b, c)' => arena'[b][c] = << >>
                      ELSE Holds(arena[b][c], index[IndexOf(b)], b, c, Due, 1)'
    BY DEF FillInv
  <2>1. /\ \A k \in DOMAIN cache : Serves(cache[k], b, c)' <=> Serves(cache[k], b, c)
        /\ Served(b, c)
    BY <1>6, ServesKept
  <2>2. CASE Clearing
    <3>1. \A k \in 1 .. at - 1 : k \in DOMAIN cache
      BY DEF TypeOK
    <3>2. \A k \in 1 .. at - 1 : Serves(cache[k], b, c) => arena[b][c] = << >>
      BY <2>1, <2>2 DEF FillInv
    <3> QED BY <1>6, <2>1, <2>2, <3>1, <3>2
  <2>3. CASE ~Clearing
    <3>1. IndexOf(b)' = IndexOf(b)
      BY <1>6 DEF IndexOf
    <3>2. PICK i \in Binary : i = IndexOf(b)
      BY <1>1
    <3> DEFINE cells == arena[b][c]
    <3>3. Grown(index[i], index'[i]) /\ RowsOk(cells, index[i], c)
      BY <1>2, <1>6, <3>2 DEF Growth
    <3>4. Holds(cells, index[i], b, c, Due, 1)
      BY <1>5, <2>1, <2>3, <3>2
    <3>5. Holds(cells, index'[i], b, c, Due, 1)
      <4> HIDE DEF cells
      <4>1. cells \in Seq(Cell) /\ index[i] \in Seq(Model)
        BY <1>1, <1>3 DEF cells
      <4> SUFFICES ASSUME NEW n, n = Due, NEW t, t = index'[i]
                   PROVE  Holds(cells, t, b, c, n, 1)
        OBVIOUS
      <4> QED BY <1>0, <3>3, <3>4, <4>1, HoldsGrown
    <3>6. Holds(arena[b][c], index[IndexOf(b)], b, c, Due, 1)'
      <4> SUFFICES ASSUME NEW x, x = arena'[b][c], NEW t, t = index'[IndexOf(b)'],
                          NEW n, n = Due'
                   PROVE  Holds(arena[b][c], index[IndexOf(b)], b, c, Due, 1)'
        OBVIOUS
      <4>1. Holds(x, t, b, c, n, 1)
        BY <1>6, <3>1, <3>2, <3>5
      <4> QED BY <1>6, <2>1, <4>1, HoldsPrimed
    <3> QED BY <1>6, <2>3, <3>6
  <2> QED BY <2>2, <2>3
<1>7. CASE UNCHANGED <<cache, remote, arena, index, passes, at>>
  <2>1. Growth
    BY <1>7, UnchangedGrowth
  <2> QED BY <1>6, <1>7, <2>1 DEF Due, Clearing
<1>8. ASSUME NEW p \in Plugins, ~Present(p), passes = << >>,
             UNCHANGED <<cache, passes, at>>,
             \A b \in Binary : b # p => /\ remote'[b] = remote[b] /\ arena'[b] = arena[b]
                                        /\ index'[b] = index[b]
      PROVE  FillInv'
  <2>2. \A k \in DOMAIN cache : Home[cache[k]] \in Binary /\ Home[cache[k]] # p
    <3> SUFFICES ASSUME NEW k \in DOMAIN cache
                 PROVE  Home[cache[k]] \in Binary /\ Home[cache[k]] # p
      OBVIOUS
    <3>1. cache[k] \in Populator /\ cache[k] \in Range(cache)
      BY DEF TypeOK, Range
    <3> QED BY <1>8, <3>1, CapsFacts DEF ChainInv
  <2>3. Due' = Due /\ ~Clearing /\ ~Clearing'
    BY <1>8 DEF Due, Clearing
  <2> SUFFICES ASSUME NEW b \in Binary, NEW c \in OneDirectory, Served(b, c)'
               PROVE  Holds(arena[b][c], index[IndexOf(b)], b, c, Due, 1)'
    BY <2>3 DEF FillInv
  <2>4. \A x \in Binary : x # p => /\ ArenaOf(x, c)' = ArenaOf(x, c) /\ ArenaOf(x, c) # p
                                   /\ IndexOf(x)' = IndexOf(x) /\ IndexOf(x) # p
    BY <1>0, <1>8 DEF ArenaOf, IndexOf
  <2>5. PICK k \in DOMAIN cache : Serves(cache[k], b, c)' /\ ArenaOf(b, c)' = b
    BY <1>8 DEF Served
  <2>6. b # p
    <3>1. PICK q \in Binary : q = Home[cache[k]] /\ q # p
      BY <2>2
    <3>2. ArenaOf(q, c)' = b
      BY <1>8, <2>5, <3>1 DEF Serves
    <3>3. ArenaOf(q, c)' # p
      BY <1>0, <3>1 DEF ArenaOf
    <3> QED BY <3>2, <3>3
  <2>7. \A j \in DOMAIN cache : Serves(cache[j], b, c)' <=> Serves(cache[j], b, c)
    <3> SUFFICES ASSUME NEW j \in DOMAIN cache, NEW q, q = cache[j], q = cache'[j]
                 PROVE  Serves(q, b, c)' <=> Serves(q, b, c)
      BY <1>8 DEF Serves
    <3>1. Home[q] \in Binary /\ Home[q] # p
      BY <2>2
    <3> QED BY <2>4, <2>6, <3>1 DEF Serves
  <2>8. Served(b, c)
    BY <2>4, <2>5, <2>6, <2>7 DEF Served
  <2>9. Holds(arena[b][c], index[IndexOf(b)], b, c, Due, 1)
    BY <1>5, <2>3, <2>8
  <2>10. arena'[b] = arena[b] /\ index'[IndexOf(b)'] = index[IndexOf(b)]
    BY <1>1, <1>8, <2>4, <2>6
  <2> SUFFICES ASSUME NEW x, x = arena'[b][c], NEW t, t = index'[IndexOf(b)'],
                      NEW n, n = Due'
               PROVE  Holds(arena[b][c], index[IndexOf(b)], b, c, Due, 1)'
    OBVIOUS
  <2>11. Holds(x, t, b, c, n, 1)
    BY <2>3, <2>9, <2>10
  <2> QED BY <1>8, <2>7, <2>11, HoldsPrimed
<1>9. ASSUME NEW p \in Plugins, Unmap(p) \/ Bootstrap(p) \/ Shutdown(p) PROVE FillInv'
  <2>1. CASE Unmap(p)
    <3>1. ~Present(p) /\ passes = << >> /\ UNCHANGED <<cache, passes, at>>
      BY <1>0, <2>1 DEF Unmap, Present, call
    <3> QED BY <1>8, <2>1, <3>1 DEF Unmap, TypeOK
  <2>2. CASE Bootstrap(p) /\ LocalChain[p] = << >>
    <3>1. /\ ~Present(p) /\ passes = << >> /\ UNCHANGED <<cache, passes, at>>
          /\ UNCHANGED <<arena, index>> /\ remote' = [remote EXCEPT ![p] = TRUE]
      BY <1>0, <2>2 DEF Bootstrap, Hook, Present, call
    <3> QED BY <1>8, <3>1 DEF TypeOK
  <2>3. CASE Shutdown(p) /\ LocalChain[p] = << >>
    BY <1>7, <2>3 DEF Shutdown, Hook, call
  <2>4. CASE (Bootstrap(p) \/ Shutdown(p)) /\ LocalChain[p] # << >>
    BY <1>0, <1>4, <2>4 DEF Bootstrap, Shutdown, Hook
  <2> QED BY <1>9, <2>1, <2>2, <2>3, <2>4
<1>10. ASSUME NEW b \in Binary, ResolveToken(b) PROVE FillInv'
  <2>1. /\ UNCHANGED <<cache, remote, arena, passes, at>>
        /\ index' = [index EXCEPT ![IndexOf(b)] = Intern(@, Declared[b])]
    BY <1>10 DEF ResolveToken, call
  <2>2. Growth
    BY <1>1, <2>1, InternGrowth
  <2> QED BY <1>6, <2>1, <2>2 DEF Due, Clearing
<1>11. ASSUME NEW b \in Binary, NEW rewalk \in BOOLEAN, Refresh(b, rewalk) PROVE FillInv'
  BY <1>4, <1>11 DEF Refresh
<1>12. CASE FirstFind
  BY <1>12, FillBegins DEF FirstFind
<1>13. CASE Clear
  <2>1. /\ UNCHANGED <<cache, remote, passes>> /\ at' = at + 1 /\ at \in 1 .. Len(cache)
        /\ Clearing
    BY <1>13 DEF Clear, Visiting, TypeOK, Clearing
  <2>2. \A b \in Binary, c \in OneDirectory :
          arena'[b][c] = IF Binds(cache[at], c) /\ ArenaOf(Home[cache[at]], c) = b
                         THEN << >> ELSE arena[b][c]
    BY <1>0, <1>13 DEF Clear
  <2> SUFFICES ASSUME NEW b \in Binary, NEW c \in OneDirectory, Served(b, c)',
                      NEW k \in 1 .. at' - 1, Serves(cache[k], b, c)'
               PROVE  arena'[b][c] = << >>
    BY <2>1 DEF FillInv, Clearing
  <2>3. k \in DOMAIN cache /\ (k \in 1 .. at - 1 \/ k = at)
    BY <2>1 DEF TypeOK
  <2>4. Serves(cache[k], b, c) /\ Served(b, c)
    BY <2>1, <2>3, ServesKept
  <2>5. CASE k \in 1 .. at - 1
    <3>1. arena[b][c] = << >>
      BY <2>1, <2>4, <2>5 DEF FillInv
    <3> QED BY <2>2, <3>1
  <2>6. CASE k = at
    BY <2>2, <2>4, <2>6 DEF Serves, Served
  <2> QED BY <2>3, <2>5, <2>6
<1>14. CASE Populate
  <2>1. PICK p \in Populator, idx \in Seq(Model) : \E s \in DOMAIN idx :
           /\ at \in DOMAIN cache /\ p = cache[at]
           /\ idx[s] = Bound[p]
           /\ index' = [index EXCEPT ![IndexOf(Home[p])] = Intern(@, Declared[Home[p]])]
           /\ index'[IndexOf(Home[p])] = idx
           /\ s - 1 \in Nat /\ arena' = Filled(p, s - 1)
    BY <1>14, PopulateParts
  <2>2. PICK s \in DOMAIN idx : idx[s] = Bound[p] /\ s - 1 \in Nat /\ arena' = Filled(p, s - 1)
    BY <2>1
  <2>3. Home[p] \in Binary
    BY CapsFacts
  <2>4. /\ Growth /\ index' \in [Binary -> Seq(Model)]
        /\ \A b \in Binary : IsInjective(index'[b])
    BY <1>1, <2>1, <2>3, InternGrowth
  <2>5. /\ UNCHANGED <<cache, remote, passes>> /\ at' = at + 1
        /\ passes # << >> /\ Head(passes) = "populate"
    BY <1>14 DEF Populate, Visiting
  <2>6. ~Clearing /\ ~Clearing' /\ Due = at /\ Due' = at + 1
    BY <2>5 DEF Clearing, Due
  <2> SUFFICES ASSUME NEW b \in Binary, NEW c \in OneDirectory, Served(b, c)'
               PROVE  Holds(arena[b][c], index[IndexOf(b)], b, c, Due, 1)'
    BY <2>6 DEF FillInv
  <2>7. /\ \A k \in DOMAIN cache : Serves(cache[k], b, c)' <=> Serves(cache[k], b, c)
        /\ Served(b, c)
    BY <2>5, ServesKept
  <2>8. IndexOf(b)' = IndexOf(b)
    BY <2>5 DEF IndexOf
  <2>9. ArenaOf(b, c) = b
    BY <2>7 DEF Served
  <2>10. Holds(arena[b][c], index[IndexOf(b)], b, c, at, 1)
    BY <1>5, <2>6, <2>7
  <2> SUFFICES ASSUME NEW x, x = arena'[b][c], NEW t, t = index'[IndexOf(b)'],
                      NEW n, n = Due'
               PROVE  Holds(arena[b][c], index[IndexOf(b)], b, c, Due, 1)'
    OBVIOUS
  <2>11. t \in Seq(Model) /\ IsInjective(t) /\ Grown(index[IndexOf(b)], t)
    BY <1>1, <2>4, <2>8 DEF Growth
  <2>12. Holds(arena[b][c], t, b, c, at, 1)
    <3> SUFFICES ASSUME NEW m, m = at PROVE Holds(arena[b][c], t, b, c, m, 1)
      OBVIOUS
    <3> SUFFICES ASSUME NEW old, old = arena[b][c], NEW y, y = index[IndexOf(b)]
                 PROVE  Holds(old, t, b, c, m, 1)
      OBVIOUS
    <3>1. old \in Seq(Cell) /\ y \in Seq(Model) /\ RowsOk(old, y, c) /\ Grown(y, t)
      BY <1>1, <1>2, <1>3, <2>11
    <3>2. Holds(old, y, b, c, m, 1)
      BY <2>10
    <3> QED BY <1>0, <3>1, <3>2, HoldsGrown
  <2>13. ArenaOf(Home[p], c) = b => s \in DOMAIN t /\ t[s] = Bound[p]
    <3>1. ArenaOf(Home[p], c) = b => IndexOf(b) = IndexOf(Home[p])
      BY <2>3, SameIndex
    <3> QED BY <2>1, <2>2, <2>8, <3>1
  <2>14. Holds(x, t, b, c, at + 1, 1)
    <3> SUFFICES ASSUME NEW m \in DOMAIN cache, m = at, p = cache[m]
                 PROVE  Holds(Filled(p, s - 1)[b][c], t, b, c, m + 1, 1)
      BY <2>1, <2>2
    <3>1. Holds(arena[b][c], t, b, c, m, 1)
      BY <2>12
    <3> QED BY <1>0, <2>2, <2>9, <2>11, <2>13, <3>1, FilledHolds
  <2>15. Holds(x, t, b, c, n, 1)
    BY <2>6, <2>14
  <2> QED BY <2>5, <2>7, <2>15, HoldsPrimed
<1>15. CASE NextPass
  <2>1. /\ passes # << >> /\ at > Len(cache) /\ passes' = Tail(passes) /\ at' = 1
        /\ UNCHANGED <<cache, remote, arena, index>>
    BY <1>15 DEF NextPass
  <2>2. /\ Tail(<<"populate">>) = << >>
        /\ Tail(ClearAndFill) = <<"populate">>
        /\ Tail(<<"populate", "clear", "populate">>) = ClearAndFill
        /\ Tail(<<"clear", "populate", "clear", "populate">>) =
             <<"populate", "clear", "populate">>
    BY DEF ClearAndFill
  <2>3. at = Len(cache) + 1
    BY <2>1 DEF TypeOK
  <2>7. \/ passes = <<"populate">> /\ passes' = << >>
        \/ passes = ClearAndFill /\ passes' = <<"populate">>
        \/ passes' = ClearAndFill
        \/ /\ passes = <<"clear", "populate", "clear", "populate">>
           /\ passes' = <<"populate", "clear", "populate">>
    BY <2>1, <2>2 DEF CallInv
  <2>4. CASE passes' = ClearAndFill
    BY <2>1, <2>4, FillBegins
  <2>5. CASE passes' = << >>
    <3>1. ~Clearing /\ ~Clearing' /\ Due = Due'
      <4>1. passes = <<"populate">>
        BY <2>5, <2>7 DEF ClearAndFill
      <4> QED BY <2>1, <2>3, <2>5, <4>1 DEF Clearing, Due
    <3> QED BY <1>6, <2>1, <3>1, UnchangedGrowth
  <2>6. CASE passes' # ClearAndFill /\ passes' # << >>
    <3>1. Clearing /\ ~Clearing' /\ Due' = 1
      BY <2>1, <2>6, <2>7 DEF ClearAndFill, Clearing, Due
    <3> SUFFICES ASSUME NEW b \in Binary, NEW c \in OneDirectory, Served(b, c)'
                 PROVE  Holds(arena[b][c], index[IndexOf(b)], b, c, Due, 1)'
      BY <3>1 DEF FillInv
    <3>2. /\ \A k \in DOMAIN cache : Serves(cache[k], b, c)' <=> Serves(cache[k], b, c)
          /\ Served(b, c)
      BY <2>1, ServesKept
    <3>3. arena[b][c] = << >>
      <4>1. PICK k \in DOMAIN cache : Serves(cache[k], b, c)
        BY <3>2 DEF Served
      <4>2. k \in 1 .. at - 1
        BY <2>3 DEF TypeOK
      <4> QED BY <3>1, <3>2, <4>1, <4>2 DEF FillInv
    <3>4. ASSUME NEW idx PROVE Holds(<< >>, idx, b, c, 1, 1)
      <4>1. EmptyCell \in Cell /\ Targets(EmptyCell) = {}
        BY DEF EmptyCell, Cell, Targets, Range
      <4>2. \A j : CellIn(<< >>, j) = EmptyCell
        BY DEF CellIn
      <4> QED BY <4>1, <4>2, FillingStart, EmptyHolds DEF Holds
    <3> SUFFICES ASSUME NEW x, x = arena'[b][c], NEW t, t = index'[IndexOf(b)'],
                        NEW n, n = Due'
                 PROVE  Holds(arena[b][c], index[IndexOf(b)], b, c, Due, 1)'
      OBVIOUS
    <3>5. Holds(x, t, b, c, n, 1)
      BY <2>1, <3>1, <3>3, <3>4
    <3> QED BY <2>1, <3>2, <3>5, HoldsPrimed
  <2> QED BY <2>4, <2>5, <2>6
<1> QED
  BY <1>7, <1>9, <1>10, <1>11, <1>12, <1>13, <1>14, <1>15
  DEF Next, Step, vars, call, Construct, Map, Return

-----------------------------------------------------------------------------
(* The theorems.                                                           *)

(* The initial state satisfies the invariant: there is no walk, and no     *)
(* arena has a cell.                                                       *)
LEMMA InitInv == Init => Inv
<1> SUFFICES ASSUME Init PROVE Inv
  OBVIOUS
<1>0. /\ Host \notin Plugins /\ Host \in Binary /\ Plugins \subseteq Binary
  BY RoutingAssumption DEF Binary
<1>1. TypeOK
  BY InitTypes
<1>2. \A b \in Binary, c \in Contract : arena[b][c] = << >>
  BY DEF Init, NoArenas
<1>3. ImagesInv
  BY <1>0, <1>2 DEF ImagesInv, Init
<1>4. ChainInv
  <2>1. Range(cache) = {} /\ chain = LocalChain[Host]
    BY DEF Init, Range
  <2>2. \A b \in Plugins : ~Present(b)
    BY DEF Init, Present
  <2>3. \A b \in Binary : Present(b) <=> b = Host
    BY <1>0, <2>2 DEF Present, Binary
  <2>4. caller # Host /\ ~built[Host] /\ cache = << >>
    BY <1>0, RoutingAssumption DEF Init
  <2>5. \A p \in Range(chain) : Home[p] = Host
    BY <1>0, <2>1, LocalHome
  <2> QED BY <1>0, <2>1, <2>2, <2>3, <2>4, <2>5 DEF ChainInv
<1>5. CallInv
  BY DEF Init, CallInv
<1>6. RowsInv
  BY <1>2 DEF RowsInv, OneDirectory
<1>7. TargetsInv
  BY <1>0, <1>2 DEF TargetsInv, HostBound
<1>8. FillInv
  BY DEF FillInv, Served, Init
<1> QED BY <1>1, <1>3, <1>4, <1>5, <1>6, <1>7, <1>8 DEF Inv

(* The inductive invariant of the routing tensor.                          *)
THEOREM RoutingInvariant == Spec => []Inv
<1>1. Inv /\ [Next]_vars => Inv'
  BY StepTypes, StepImages, StepChain, StepCall, StepRows, StepTargets, StepFill DEF Inv
<1> QED BY InitInv, <1>1, PTL DEF Spec

(* The state has its types, arenas are whole rows, and no directory has a  *)
(* model twice.                                                            *)
THEOREM RoutingTypes == Spec => []TypeOK
<1>1. Inv => TypeOK
  BY DEF Inv
<1> QED BY <1>1, RoutingInvariant, PTL

(* A cell never holds the capability of another model or of other          *)
(* coordinates, where every binary that shares the arena by its anchor     *)
(* shares the host's directory as well.                                    *)
THEOREM OwnCells == Spec => []CellsOfOwnModel
<1>1. Inv => CellsOfOwnModel
  BY DEF Inv, RowsInv, CellsOfOwnModel
<1> QED BY <1>1, RoutingInvariant, PTL

(* No look-up reaches into an image that is gone.                          *)
THEOREM NothingUnmapped == Spec => []TargetsMapped
<1>1. Inv => TargetsMapped
  <2> SUFFICES ASSUME Inv, NEW c \in HostBound, NEW j \in DOMAIN arena[Host][c],
                      NEW t \in Targets(arena[Host][c][j]), Home[t.by] # Host
               PROVE  phase[Home[t.by]] # "unmapped"
    BY DEF TargetsMapped
  <2>1. Host \in Binary /\ c \in Contract
    BY DEF Binary, HostBound
  <2>2. Home[t.by] \in Plugins
    BY <2>1, TargetsTyped DEF Inv, Binary
  <2> QED BY <2>2 DEF Inv, TargetsInv, Present
<1> QED BY <1>1, RoutingInvariant, PTL

-----------------------------------------------------------------------------
(* What a look-up answers.                                                 *)

(* All bindings come before the end of the walk.                           *)
LEMMA FillingAll ==
  ASSUME TypeOK, NEW b, NEW c, NEW m
  PROVE  Filling(b, c, m, Len(cache) + 1, 1) = Bindings(b, c, m)
<1>1. ASSUME NEW kl \in Bindings(b, c, m)
      PROVE  Lex(kl, <<Len(cache) + 1, 1>>)
  <2>1. PICK k \in DOMAIN cache : \E l \in DOMAIN Caps[cache[k]] : kl = <<k, l>>
    BY BindingsFacts
  <2>2. k \in 1 .. Len(cache) /\ Len(cache) \in Nat /\ kl[1] = k
    BY <2>1 DEF TypeOK
  <2> QED BY <2>2 DEF Lex
<1> QED BY <1>1 DEF Filling

(* Those who write the arena that b reads are those who serve its owner.   *)
LEMMA OwnerServes ==
  ASSUME NEW b \in Binary, NEW c
  PROVE  /\ \A p : Serves(p, ArenaOf(b, c), c) <=> Serves(p, b, c)
         /\ \A m : Bindings(ArenaOf(b, c), c, m) = Bindings(b, c, m)
<1>1. ArenaOf(ArenaOf(b, c), c) = ArenaOf(b, c)
  BY ArenaOwner
<1>2. \A p : Serves(p, ArenaOf(b, c), c) <=> Serves(p, b, c)
  BY <1>1 DEF Serves
<1> HIDE DEF Serves
<1> QED BY <1>2 DEF Bindings

(* Between refreshes a look-up resolves a cell that holds the bindings of  *)
(* the model.                                                              *)
LEMMA FindHolds ==
  ASSUME Inv, caller = Null, NEW b \in Binary, NEW c \in OneDirectory,
         \E k \in DOMAIN cache : Serves(cache[k], b, c),
         NEW m \in Model, NEW i \in 1 .. Volume[c], NEW holds
  PROVE  \E cell \in Cell : /\ CellHolds(cell, Bindings(b, c, m), i)
                            /\ Find(b, c, m, i, holds) = Resolve(cell, holds)
<1> DEFINE e == ArenaOf(b, c)
           idx == index[IndexOf(b)]
           cells == arena[e][c]
<1>0. TypeOK /\ CallInv /\ FillInv /\ c \in Contract
  BY DEF Inv, OneDirectory
<1>1. e \in Binary /\ IndexOf(b) \in Binary /\ IndexOf(e) = IndexOf(b)
  BY <1>0, ArenaOfBinary, IndexOfBinary, SameIndex
<1>2. cells \in Seq(Cell) /\ idx \in Seq(Model) /\ IsInjective(idx)
  BY <1>0, <1>1 DEF TypeOK
<1>3. Served(e, c)
  BY ArenaOwner, OwnerServes DEF Served
<1>4. ~Clearing /\ Due = Len(cache) + 1
  BY <1>0 DEF CallInv, Clearing, Due
<1>5. Holds(cells, idx, e, c, Len(cache) + 1, 1)
  BY <1>0, <1>1, <1>3, <1>4 DEF FillInv
<1>6. Filling(e, c, m, Len(cache) + 1, 1) = Bindings(b, c, m)
  BY <1>0, FillingAll, OwnerServes
<1>7. EmptyCell \in Cell /\ Targets(EmptyCell) = {}
  BY DEF EmptyCell, Cell, Targets, Range
<1>8. ASSUME NEW x PROVE Resolve(EmptyCell, x) = Null
  <2>1. EmptyCell.rules = << >> /\ EmptyCell.fallback = Null
    BY DEF EmptyCell
  <2>2. PICK first : first = PlaceIn(<< >>, x)
    OBVIOUS
  <2>3. << >> \in Seq(Target) /\ \A z : z \notin 1 .. Len(<< >>)
    OBVIOUS
  <2>4. first = 0
    BY <2>2, <2>3, FirstFacts
  <2> QED BY <2>1, <2>2, <2>4, Zenon DEF Resolve, PlaceIn
<1>9. CASE m \notin Range(idx)
  <2>1. Find(b, c, m, i, holds) = Null
    BY <1>9 DEF Find
  <2>2. Bindings(b, c, m) = {}
    BY <1>5, <1>6, <1>9 DEF Holds
  <2>3. CellHolds(EmptyCell, {}, i)
    BY <1>7, EmptyHolds
  <2> QED BY <1>7, <1>8, <2>1, <2>2, <2>3
<1>10. CASE m \in Range(idx)
  <2>1. PICK s \in DOMAIN idx : idx[s] = m
    BY <1>10 DEF Range
  <2>2. Slot(idx, m) = s - 1 /\ s \in Nat \ {0}
    BY <1>2, <2>1, SlotFacts
  <2> DEFINE cell == CellIn(cells, Place(c, s, i))
             offset == Offset(c, Slot(idx, m), i)
  <2>3. CellHolds(cell, Bindings(b, c, m), i)
    BY <1>5, <1>6, <2>1 DEF Holds
  <2>4. cell \in Cell
    BY <1>2, <1>7 DEF CellIn
  <2>5. Place(c, s, i) \in Nat \ {0}
    BY <1>0, <2>2, PlaceFacts
  <2>6. offset + 1 = Place(c, s, i) /\ offset = Place(c, s, i) - 1
    <3>1. i \in Nat /\ (s - 1) * Volume[c] \in Nat
      BY <1>0, <2>2, VolumeFacts
    <3>2. offset = (s - 1) * Volume[c] + (i - 1)
      BY <2>2 DEF Offset
    <3> DEFINE base == (s - 1) * Volume[c]
    <3>3. base \in Nat /\ offset = base + (i - 1) /\ Place(c, s, i) = base + i
      BY <3>1, <3>2 DEF Place
    <3> HIDE DEF base, offset
    <3> QED BY <3>1, <3>3
  <2>7. Find(b, c, m, i, holds) =
          IF offset >= Len(cells) THEN Null ELSE Resolve(cells[offset + 1], holds)
    BY <1>10 DEF Find
  <2> HIDE DEF offset
  <2>8. Find(b, c, m, i, holds) = Resolve(cell, holds)
    <3>1. CASE Place(c, s, i) \in DOMAIN cells
      <4>1. ~(offset >= Len(cells)) /\ cell = cells[offset + 1]
        BY <1>2, <2>5, <2>6, <3>1 DEF CellIn
      <4> QED BY <2>7, <4>1
    <3>2. CASE Place(c, s, i) \notin DOMAIN cells
      <4>1. offset >= Len(cells) /\ cell = EmptyCell
        BY <1>2, <2>5, <2>6, <3>2 DEF CellIn
      <4> QED BY <1>8, <2>7, <4>1
    <3> QED BY <3>1, <3>2
  <2> QED BY <2>3, <2>4, <2>8
<1> QED BY <1>9, <1>10

(* How a cell resolves: the first rule that matches, else the last         *)
(* fallback.                                                               *)
LEMMA ResolveFacts ==
  ASSUME NEW cell \in Cell, NEW kls, NEW i, CellHolds(cell, kls, i), NEW holds
  PROVE  LET rules == {kl \in OfKind(kls, "rule", i) : AtCell(kl, i) \in holds}
         IN \/ \E kl \in rules : /\ Resolve(cell, holds) = AtCell(kl, i)
                                 /\ \A other \in rules \ {kl} : Lex(kl, other)
            \/ rules = {} /\ LastFallback(Resolve(cell, holds), kls, i)
<1> DEFINE rules == {kl \in OfKind(kls, "rule", i) : AtCell(kl, i) \in holds}
<1>1. cell.rules \in Seq(Target)
  BY DEF Cell
<1>2. PICK first : first = PlaceIn(cell.rules, holds)
  OBVIOUS
<1>3. Resolve(cell, holds) = IF first # 0 THEN cell.rules[first] ELSE cell.fallback
  BY <1>2, Zenon DEF Resolve, PlaceIn
<1>4. \/ first = 0 /\ \A x \in 1 .. Len(cell.rules) : cell.rules[x] \notin holds
      \/ /\ first \in 1 .. Len(cell.rules) /\ cell.rules[first] \in holds
         /\ \A x \in 1 .. Len(cell.rules) : cell.rules[x] \in holds => first <= x
  BY <1>1, <1>2, FirstFacts
<1> DEFINE n == Len(cell.rules)
<1>5. PICK w \in [1 .. n -> OfKind(kls, "rule", i)] :
        /\ \A x \in 1 .. n : cell.rules[x] = AtCell(w[x], i)
        /\ \A x, y \in 1 .. n : x < y => Lex(w[x], w[y])
        /\ \A kl \in OfKind(kls, "rule", i) : \E x \in 1 .. n : w[x] = kl
  BY DEF CellHolds, ListsRules
<1>6. n \in Nat
  BY <1>1
<1> HIDE DEF n
<1>7. CASE first = 0 /\ \A x \in 1 .. n : cell.rules[x] \notin holds
  <2>1. rules = {}
    BY <1>5, <1>7
  <2>2. Resolve(cell, holds) = cell.fallback
    BY <1>3, <1>7
  <2> QED BY <2>1, <2>2 DEF CellHolds
<1>8. CASE /\ first \in 1 .. n /\ cell.rules[first] \in holds
           /\ \A x \in 1 .. n : cell.rules[x] \in holds => first <= x
  <2>1. Resolve(cell, holds) = AtCell(w[first], i) /\ w[first] \in rules
    BY <1>3, <1>5, <1>6, <1>8
  <2>2. ASSUME NEW other \in rules \ {w[first]}
        PROVE  Lex(w[first], other)
    <3>1. PICK x \in 1 .. n : w[x] = other
      BY <1>5
    <3>2. first <= x /\ first # x
      BY <1>5, <1>8, <3>1
    <3>3. first < x
      BY <1>6, <1>8, <3>2
    <3> QED BY <1>5, <1>8, <3>1, <3>3
  <2> QED BY <2>1, <2>2
<1> QED BY <1>4, <1>7, <1>8 DEF n

-----------------------------------------------------------------------------
(* The order of the walk.                                                  *)

(* Either every binary walks with the SortCache specialisation, or there   *)
(* is none that tells populators apart.                                    *)
OneOrder == Sorting = Binary \/ \A p, q \in Populator : Rank[p] = Rank[q]

(* A walk is in the order of the ranks, wherever it is made.               *)
LEMMA WalkOrdered ==
  ASSUME OneOrder, NEW b \in Binary, NEW links \in Seq(Populator)
  PROVE  Sorted(Walk(b, links))
<1>1. Walk(b, links) \in Seq(Populator) /\ (b \in Sorting => Sorted(Walk(b, links)))
  BY WalkFacts
<1>2. CASE Sorting = Binary
  BY <1>1, <1>2
<1>3. CASE \A p, q \in Populator : Rank[p] = Rank[q]
  <2> SUFFICES ASSUME NEW walk \in Seq(Populator) PROVE Sorted(walk)
    BY <1>1
  <2>1. \A i \in DOMAIN walk : walk[i] \in Populator
    OBVIOUS
  <2>2. \A p \in Populator : Rank[p] \in Nat
    BY RoutingAssumption
  <2>3. \A i, j \in DOMAIN walk : Rank[walk[i]] <= Rank[walk[j]]
    <3> SUFFICES ASSUME NEW i \in DOMAIN walk, NEW j \in DOMAIN walk
                 PROVE  Rank[walk[i]] <= Rank[walk[j]]
      OBVIOUS
    <3>1. walk[i] \in Populator /\ walk[j] \in Populator
      BY <2>1
    <3>2. Rank[walk[i]] = Rank[walk[j]] /\ Rank[walk[i]] \in Nat
      BY <1>3, <2>2, <3>1
    <3> QED BY <3>2
  <2> QED BY <2>3 DEF Sorted
<1> QED BY <1>2, <1>3 DEF OneOrder

(* The cached walk is in the order of the ranks.                           *)
LEMMA StepSort ==
  ASSUME OneOrder, TypeOK, SortInv, [Next]_vars
  PROVE  SortInv'
<1>1. (SortInv <=> Sorted(cache)) /\ (Sorted(cache') => SortInv')
  BY DEF SortInv, Sorted
<1>2. CASE UNCHANGED cache
  BY <1>1, <1>2
<1>3. ASSUME NEW b \in Binary, chain' \in Seq(Populator), cache' = Walk(b, chain')
      PROVE  SortInv'
  BY <1>1, <1>3, WalkOrdered
<1>4. chain \in Seq(Populator) /\ Plugins \subseteq Binary /\ Host \in Binary
  BY DEF TypeOK, Binary
<1>5. ASSUME NEW p \in Plugins, Bootstrap(p) \/ Shutdown(p) PROVE SortInv'
  <2>1. cache' = Walk(p, chain') \/ cache' = cache
    BY <1>5 DEF Bootstrap, Shutdown, Hook
  <2>2. chain' \in Seq(Populator)
    <3>1. TypeOK'
      BY <1>5, StepTypes DEF Next
    <3> QED BY <3>1 DEF TypeOK
  <2> QED BY <1>2, <1>3, <1>4, <2>1, <2>2
<1>6. ASSUME NEW b \in Binary, NEW rewalk \in BOOLEAN, Refresh(b, rewalk) PROVE SortInv'
  <2>1. chain' = chain /\ (cache' = Walk(b, chain) \/ cache' = cache)
    BY <1>6 DEF Refresh
  <2> QED BY <1>2, <1>3, <1>4, <2>1
<1>7. CASE FirstFind
  <2>1. chain' = chain /\ cache' = Walk(Host, chain)
    BY <1>7 DEF FirstFind
  <2> QED BY <1>3, <1>4, <2>1
<1> QED
  BY <1>2, <1>5, <1>6, <1>7
  DEF Next, Step, vars, call, Construct, Map, Unmap, ResolveToken, Clear, Populate,
      NextPass, Return

(* The cached walk is in the order of the ranks, whoever has made it.      *)
THEOREM WalkSorted ==
  ASSUME OneOrder
  PROVE  Spec => []SortInv
<1>1. Init => SortInv
  BY DEF Init, SortInv
<1>2. TypeOK /\ SortInv /\ [Next]_vars => SortInv'
  BY StepSort
<1> QED BY <1>1, <1>2, RoutingTypes, PTL DEF Spec

(* Between refreshes every look-up answers what the bindings say.          *)
LEMMA AllRoutes ==
  ASSUME Inv, SortInv, caller = Null, NEW b \in Binary, NEW c \in OneDirectory,
         \E k \in DOMAIN cache : Serves(cache[k], b, c)
  PROVE  RoutesAll(b, c)
<1> SUFFICES ASSUME NEW m \in Model, NEW i \in 1 .. Volume[c], NEW holds
             PROVE  Routed(Bindings(b, c, m), i, holds, Find(b, c, m, i, holds))
  BY DEF RoutesAll
<1> DEFINE all == Bindings(b, c, m)
           rules == {kl \in OfKind(all, "rule", i) : AtCell(kl, i) \in holds}
           fallbacks == OfKind(all, "fallback", i)
<1>0. TypeOK
  BY DEF Inv
<1>1. PICK cell \in Cell : /\ CellHolds(cell, all, i)
                           /\ Find(b, c, m, i, holds) = Resolve(cell, holds)
  BY FindHolds
<1> DEFINE answer == Resolve(cell, holds)
<1>2. \/ \E kl \in rules : /\ answer = AtCell(kl, i)
                           /\ \A other \in rules \ {kl} : Lex(kl, other)
      \/ rules = {} /\ LastFallback(answer, all, i)
  BY <1>1, ResolveFacts
<1>3. ASSUME NEW x \in all, NEW y \in all, Lex(x, y)
      PROVE  Before(x, y)
  <2>1. /\ x[1] \in DOMAIN cache /\ y[1] \in DOMAIN cache
    BY <1>0, BindingsFacts
  <2>2. RankAt(x) \in Nat /\ RankAt(y) \in Nat
    <3>1. cache[x[1]] \in Populator /\ cache[y[1]] \in Populator
      BY <1>0, <2>1 DEF TypeOK
    <3> QED BY <3>1, RoutingAssumption DEF RankAt
  <2>3. CASE x[1] < y[1]
    <3>1. RankAt(x) <= RankAt(y)
      BY <2>1, <2>3 DEF SortInv, RankAt
    <3> QED BY <2>2, <2>3, <3>1 DEF Before
  <2>4. CASE x[1] = y[1] /\ x[2] < y[2]
    BY <2>4 DEF Before, RankAt
  <2> QED BY <1>3, <2>3, <2>4 DEF Lex
<1>4. rules \subseteq all /\ fallbacks \subseteq all
  BY DEF OfKind
<1>5. /\ rules = {kl \in all : KindAt(kl, i) = "rule" /\ AtCell(kl, i) \in holds}
      /\ fallbacks = {kl \in all : KindAt(kl, i) = "fallback"}
  BY DEF OfKind
<1> HIDE DEF all, answer
<1>6. CASE \E kl \in rules : /\ answer = AtCell(kl, i)
                             /\ \A other \in rules \ {kl} : Lex(kl, other)
  <2>1. \E kl \in rules : /\ answer = AtCell(kl, i)
                          /\ \A other \in rules \ {kl} : Before(kl, other)
    BY <1>3, <1>4, <1>6
  <2> HIDE DEF rules
  <2> QED BY <1>1, <1>5, <2>1 DEF Routed, all, answer
<1>7. CASE rules = {} /\ LastFallback(answer, all, i)
  <2>1. \/ fallbacks = {} /\ answer = Null
        \/ \E kl \in fallbacks : /\ answer = AtCell(kl, i)
                                 /\ \A other \in fallbacks \ {kl} : Before(other, kl)
    BY <1>3, <1>4, <1>7 DEF LastFallback
  <2> HIDE DEF rules, fallbacks
  <2> QED BY <1>1, <1>5, <1>7, <2>1 DEF Routed, all, answer
<1> QED BY <1>2, <1>6, <1>7

(* Between refreshes the router answers exactly what the bindings in the   *)
(* cached walk say.                                                        *)
THEOREM RoutesFound ==
  ASSUME OneOrder
  PROVE  Spec => []FindRoutes
<1>1. Inv /\ SortInv => FindRoutes
  BY AllRoutes DEF FindRoutes
<1> QED BY <1>1, RoutingInvariant, WalkSorted, PTL

(* The load of a plugin makes what it binds visible to the host, where     *)
(* both have anchored the arena and share a directory: the host's look-up  *)
(* answers with the plugin's rule when no other rule matches, and with the *)
(* plugin's fallback, or one bound after it, when none does.               *)
THEOREM AnchoredFound == Spec => []AnchoredRouted
<1>1. Inv => AnchoredRouted
  <2> SUFFICES ASSUME Inv, NEW q \in Plugins, Loaded(q), NEW p \in Range(LocalChain[q]),
                      NEW l \in DOMAIN Caps[p], NEW c, c = Caps[p][l].contract,
                      c \in OneDirectory, ArenaOf(q, c) = Host
               PROVE  HostFinds(p, l)
    BY DEF AnchoredRouted
  <2> SUFFICES ASSUME NEW i \in DOMAIN Caps[p][l].kinds, NEW own, own = TargetOf(p, l, i),
                      NEW m, m = Bound[p]
               PROVE  /\ Caps[p][l].kinds[i] = "rule" => Find(Host, c, m, i, {own}) = own
                      /\ Caps[p][l].kinds[i] = "fallback" =>
                           \E x, y \in {kl \in Bindings(Host, c, m) : KindAt(kl, i) = "fallback"} :
                             /\ AtCell(x, i) = own
                             /\ Find(Host, c, m, i, {}) = AtCell(y, i) /\ ~Lex(y, x)
    BY DEF HostFinds
  <2>0. TypeOK /\ ChainInv /\ caller = Null /\ q \in Binary /\ Host \in Binary
    BY DEF Inv, Loaded, Binary
  <2>1. p \in Populator /\ Home[p] = q
    BY <2>0, LocalHome
  <2>2. m \in Model /\ i \in 1 .. Volume[c]
    BY <2>1, CapsFacts
  <2>3. PICK k \in DOMAIN cache : cache[k] = p
    <3>1. p \in Range(cache)
      BY <2>0 DEF ChainInv, Present, Loaded
    <3> QED BY <3>1 DEF Range
  <2>4. Serves(p, Host, c)
    BY <2>0, <2>1, ArenaOwner DEF Serves, Binds
  <2> DEFINE all == Bindings(Host, c, m)
  <2>5. <<k, l>> \in all /\ KindAt(<<k, l>>, i) = Caps[p][l].kinds[i]
        /\ AtCell(<<k, l>>, i) = own
    BY <2>0, <2>3, <2>4, BindingsFacts DEF KindAt, AtCell
  <2>6. ASSUME NEW holds
        PROVE  \E cell \in Cell : /\ CellHolds(cell, all, i)
                                  /\ Find(Host, c, m, i, holds) = Resolve(cell, holds)
    BY <2>0, <2>2, <2>3, <2>4, FindHolds
  <2> HIDE DEF all
  <2>7. ASSUME Caps[p][l].kinds[i] = "rule"
        PROVE  Find(Host, c, m, i, {own}) = own
    <3> DEFINE rules == {kl \in OfKind(all, "rule", i) : AtCell(kl, i) \in {own}}
    <3>1. PICK cell \in Cell : /\ CellHolds(cell, all, i)
                               /\ Find(Host, c, m, i, {own}) = Resolve(cell, {own})
      BY <2>6
    <3>2. <<k, l>> \in rules
      BY <2>5, <2>7 DEF OfKind
    <3>3. \E kl \in rules : Resolve(cell, {own}) = AtCell(kl, i)
      BY <3>1, <3>2, ResolveFacts
    <3> QED BY <3>1, <3>3
  <2>8. ASSUME Caps[p][l].kinds[i] = "fallback"
        PROVE  \E x, y \in {kl \in all : KindAt(kl, i) = "fallback"} :
                 /\ AtCell(x, i) = own
                 /\ Find(Host, c, m, i, {}) = AtCell(y, i) /\ ~Lex(y, x)
    <3>1. PICK cell \in Cell : /\ CellHolds(cell, all, i)
                               /\ Find(Host, c, m, i, {}) = Resolve(cell, {})
      BY <2>6
    <3>2. LastFallback(Resolve(cell, {}), all, i)
      <4>1. {kl \in OfKind(all, "rule", i) : AtCell(kl, i) \in {}} = {}
        OBVIOUS
      <4> QED BY <3>1, <4>1, ResolveFacts
    <3>3. <<k, l>> \in OfKind(all, "fallback", i)
      BY <2>5, <2>8 DEF OfKind
    <3>4. PICK y \in OfKind(all, "fallback", i) :
            /\ Resolve(cell, {}) = AtCell(y, i)
            /\ \A other \in OfKind(all, "fallback", i) \ {y} : Lex(other, y)
      BY <3>2, <3>3 DEF LastFallback
    <3>5. ~Lex(y, <<k, l>>)
      <4>1. ASSUME NEW kl \in all
            PROVE  kl[1] \in Nat /\ kl[2] \in Nat
        <5>1. PICK a \in DOMAIN cache : \E b \in DOMAIN Caps[cache[a]] : kl = <<a, b>>
          BY <2>0, BindingsFacts DEF all
        <5>2. PICK b \in DOMAIN Caps[cache[a]] : kl = <<a, b>>
          BY <5>1
        <5>3. a \in Nat /\ cache[a] \in Populator
          BY <2>0 DEF TypeOK
        <5> QED BY <5>2, <5>3, CapsFacts
      <4>2. y \in all
        BY DEF OfKind
      <4>3. PICK x \in all : x = <<k, l>>
        BY <2>5
      <4>4. /\ x[1] \in Nat /\ x[2] \in Nat
            /\ y[1] \in Nat /\ y[2] \in Nat
        BY <4>1, <4>2
      <4>5. x = y \/ Lex(x, y)
        BY <3>3, <3>4, <4>3
      <4>6. ~Lex(y, x)
        BY <4>4, <4>5 DEF Lex
      <4> QED BY <4>3, <4>6
    <3>6. /\ <<k, l>> \in {kl \in all : KindAt(kl, i) = "fallback"}
          /\ y \in {kl \in all : KindAt(kl, i) = "fallback"}
      BY <3>3 DEF OfKind
    <3> QED BY <2>5, <3>1, <3>4, <3>5, <3>6
  <2> QED BY <2>7, <2>8 DEF all
<1> QED BY <1>1, RoutingInvariant, PTL


-----------------------------------------------------------------------------
(* What is left in the host's arenas when the plugins are gone.            *)

(* A contract that a plugin writes into the host's arenas is one that the  *)
(* host binds as well, so that the host's own refreshes clear its arena.   *)
HostCovers ==
  \A p \in Populator, c \in Contract :
    /\ Home[p] # Host /\ Binds(p, c)
    /\ {<<Home[p], c>>, <<Host, c>>} \subseteq Anchored
    => c \in HostBound

(* The host's populators stay on the chain and in the cached walk.         *)
HostKept == \A p \in Range(cache) : Home[p] = Host => p \in Range(chain)

(* Whose capabilities the host's arenas of c may have, after any refresh.  *)
Writers(c) ==
  {t \in Target :
     /\ Binds(t.by, c)
     /\ IF Home[t.by] = Host THEN t.by \in Range(cache)
        ELSE {<<Home[t.by], c>>, <<Host, c>>} \subseteq Anchored}

(* The host's arenas have capabilities of populators that are still in the *)
(* walk, or of plugins that share the arena.                               *)
WritersInv ==
  \A c \in Contract : \A j \in DOMAIN arena[Host][c] :
    \A t \in Targets(arena[Host][c][j]) : t \in Writers(c)

(* Every step keeps the host's populators.                                 *)
LEMMA StepKept ==
  ASSUME TypeOK, HostKept, [Next]_vars
  PROVE  /\ HostKept'
         /\ \A p \in Range(cache) : Home[p] = Host => p \in Range(cache')
<1>0. /\ Host \notin Plugins /\ Host \in Binary /\ Plugins \subseteq Binary
      /\ chain \in Seq(Populator) /\ cache \in Seq(Populator)
  BY RoutingAssumption DEF Binary, TypeOK
<1> DEFINE Goal == /\ HostKept'
                   /\ \A p \in Range(cache) : Home[p] = Host => p \in Range(cache')
<1>1. CASE UNCHANGED <<chain, cache>>
  BY <1>1 DEF HostKept
<1>2. ASSUME NEW b, chain' \in Seq(Populator), cache' = Walk(b, chain'),
             \A p \in Range(chain) : Home[p] = Host => p \in Range(chain')
      PROVE  Goal
  <2>1. Range(cache') = Range(chain')
    BY <1>2, WalkFacts
  <2> QED BY <1>2, <2>1 DEF HostKept
<1>3. ASSUME NEW p \in Late, Construct(p) PROVE Goal
  <2>1. p \in Populator /\ chain' = <<p>> \o chain /\ cache' = cache
    BY <1>3, RoutingAssumption DEF Construct
  <2>2. Range(chain) \subseteq Range(chain')
    <3> SUFFICES ASSUME NEW s, s = <<p>>, chain' = s \o chain
                 PROVE  Range(chain) \subseteq Range(chain')
      BY <2>1
    <3>1. s \in Seq(Populator)
      BY <2>1
    <3>2. Range(s \o chain) = Range(s) \cup Range(chain)
      BY <1>0, <3>1, ConcatRange, ZenonT(30)
    <3> QED BY <3>2
  <2> QED BY <2>1, <2>2 DEF HostKept
<1>4. ASSUME NEW p \in Plugins, Bootstrap(p) PROVE Goal
  <2>1. chain' = LocalChain[p] \o chain /\ (cache' = Walk(p, chain') \/ cache' = cache)
    BY <1>4 DEF Bootstrap, Hook
  <2>2. LocalChain[p] \in Seq(Populator)
    BY <1>0, RoutingAssumption
  <2>3. chain' \in Seq(Populator) /\ Range(chain) \subseteq Range(chain')
    BY <1>0, <2>1, <2>2, ConcatFacts, ConcatRange
  <2>4. CASE cache' = cache
    BY <2>3, <2>4 DEF HostKept
  <2> QED BY <1>2, <2>1, <2>3, <2>4
<1>5. ASSUME NEW p \in Plugins, Shutdown(p) PROVE Goal
  <2>1. /\ chain' = Only({x \in Populator : Home[x] # p}, chain)
        /\ cache' = Walk(p, chain') \/ cache' = cache
    BY <1>5 DEF Shutdown, Hook
  <2>2. chain' \in Seq(Populator)
        /\ Range(chain') = Range(chain) \cap {x \in Populator : Home[x] # p}
    BY <1>0, <2>1, OnlyFacts
  <2>3. Range(chain) \subseteq Populator
    BY <1>0 DEF Range
  <2>4. CASE cache' = cache
    BY <1>0, <2>2, <2>3, <2>4 DEF HostKept
  <2> QED BY <1>0, <1>2, <2>1, <2>2, <2>3, <2>4
<1>6. ASSUME NEW b \in Binary, NEW rewalk \in BOOLEAN, Refresh(b, rewalk) PROVE Goal
  <2>1. chain' = chain /\ (cache' = Walk(b, chain) \/ cache' = cache)
    BY <1>6 DEF Refresh
  <2> QED BY <1>0, <1>1, <1>2, <2>1
<1>7. CASE FirstFind
  <2>1. chain' = chain /\ cache' = Walk(Host, chain)
    BY <1>7 DEF FirstFind
  <2> QED BY <1>0, <1>2, <2>1
<1> QED
  BY <1>1, <1>3, <1>4, <1>5, <1>6, <1>7
  DEF Next, Step, vars, call, Map, Unmap, ResolveToken, Clear, Populate, NextPass, Return

(* Every step keeps the writers.                                           *)
LEMMA StepWriters ==
  ASSUME TypeOK, ImagesInv, HostKept, WritersInv, [Next]_vars
  PROVE  WritersInv'
<1>0. Host \notin Plugins /\ Host \in Binary /\ Plugins \subseteq Binary
  BY RoutingAssumption DEF Binary
<1>1. \A c \in Contract : Writers(c) \subseteq Writers(c)'
  BY StepKept DEF Writers
<1>2. ASSUME \A c \in Contract : arena'[Host][c] \in {<< >>, arena[Host][c]}
      PROVE  WritersInv'
  <2> SUFFICES ASSUME NEW c \in Contract, NEW j \in DOMAIN arena'[Host][c],
                      NEW t \in Targets(arena'[Host][c][j])
               PROVE  t \in Writers(c)'
    BY DEF WritersInv, Targets
  <2>1. arena'[Host][c] = arena[Host][c] /\ arena'[Host][c] # << >>
    BY <1>2
  <2> QED BY <1>1, <2>1 DEF WritersInv
<1>3. ASSUME NEW p \in Plugins, Unmap(p) PROVE WritersInv'
  <2>1. arena'[Host] = arena[Host]
    BY <1>0, <1>3 DEF Unmap, TypeOK
  <2> QED BY <1>2, <2>1
<1>4. CASE Clear
  <2>1. \A c \in Contract : arena'[Host][c] =
          IF Binds(cache[at], c) /\ ArenaOf(Home[cache[at]], c) = Host
          THEN << >> ELSE arena[Host][c]
    BY <1>0, <1>4 DEF Clear
  <2> QED BY <1>2, <2>1
<1>5. CASE Populate
  <2>1. PICK p \in Populator, slot \in Nat : p \in Range(cache) /\ arena' = Filled(p, slot)
    BY <1>5, PopulateParts
  <2> DEFINE T == [c \in Contract |-> Writers(c)]
  <2>2. ASSUME NEW c \in Contract, Binds(p, c), ArenaOf(Home[p], c) = Host,
               NEW l \in DOMAIN Caps[p], NEW i \in Nat
        PROVE  TargetOf(p, l, i) \in T[c]
    <3>1. TargetOf(p, l, i) \in Target /\ TargetOf(p, l, i).by = p
      <4>1. l \in Nat
        BY CapsFacts
      <4> QED BY <4>1 DEF TargetOf, Target
    <3>2. Home[p] # Host => {<<Home[p], c>>, <<Host, c>>} \subseteq Anchored
      BY <2>2 DEF ArenaOf
    <3> QED BY <2>1, <2>2, <3>1, <3>2 DEF Writers
  <2>3. \A c \in Contract : \A j \in DOMAIN arena[Host][c] :
          \A t \in Targets(arena[Host][c][j]) : t \in T[c]
    BY DEF WritersInv
  <2>4. \A c \in Contract : T[c] \subseteq Writers(c)'
    BY <1>1
  <2> HIDE DEF T
  <2>5. \A c \in Contract : \A j \in DOMAIN Filled(p, slot)[Host][c] :
          \A t \in Targets(Filled(p, slot)[Host][c][j]) : t \in T[c]
    BY <2>2, <2>3, FilledTargets
  <2> QED BY <2>1, <2>4, <2>5 DEF WritersInv, Targets
<1>6. CASE UNCHANGED arena
  BY <1>2, <1>6
<1> QED
  BY <1>3, <1>4, <1>5, <1>6
  DEF Next, Step, vars, call, Construct, Map, Bootstrap, Shutdown, ResolveToken, Refresh,
      FirstFind, NextPass, Return


(* The host's populators stay in the walk, and its arenas have nobody      *)
(* else's capabilities but those of plugins that share them.               *)
THEOREM WritersKept == Spec => [](HostKept /\ WritersInv)
<1>1. Init => HostKept /\ WritersInv
  <2> SUFFICES ASSUME Init PROVE HostKept /\ WritersInv
    OBVIOUS
  <2>1. cache = << >> /\ \A c \in Contract : arena[Host][c] = << >>
    BY DEF Init, Binary, NoArenas
  <2> QED BY <2>1 DEF HostKept, WritersInv, Range
<1>2. /\ Inv /\ HostKept /\ WritersInv /\ [Next]_vars
      => (HostKept /\ WritersInv)'
  BY StepKept, StepWriters DEF Inv
<1> QED BY <1>1, <1>2, RoutingInvariant, PTL DEF Spec

(* Nothing is routed where nothing was written.                            *)
LEMMA EmptyRoutes ==
  ASSUME TypeOK, NEW c \in Contract,
         \A k \in DOMAIN cache : ~Serves(cache[k], Host, c),
         \A j \in DOMAIN arena[Host][c] : Targets(arena[Host][c][j]) = {}
  PROVE  RoutesAll(Host, c)
<1> SUFFICES ASSUME NEW m \in Model, NEW i \in 1 .. Volume[c], NEW holds
             PROVE  Routed(Bindings(Host, c, m), i, holds, Find(Host, c, m, i, holds))
  BY DEF RoutesAll
<1>1. Bindings(Host, c, m) = {}
  BY BindingsFacts
<1>2. ArenaOf(Host, c) = Host /\ Host \in Binary
  BY ArenaOwner DEF Binary
<1>3. IndexOf(Host) = Host /\ index[Host] \in Seq(Model) /\ IsInjective(index[Host])
  BY <1>2 DEF IndexOf, TypeOK
<1>4. ASSUME NEW cell \in Cell, Targets(cell) = {}
      PROVE  Resolve(cell, holds) = Null
  <2>1. cell.rules \in Seq(Target) /\ Range(cell.rules) = {} /\ cell.fallback = Null
    BY <1>4 DEF Cell, Targets
  <2>2. PICK first : first = PlaceIn(cell.rules, holds)
    OBVIOUS
  <2>3. ASSUME NEW x \in 1 .. Len(cell.rules) PROVE FALSE
    <3>1. x \in DOMAIN cell.rules
      BY <2>1
    <3>2. cell.rules[x] \in Range(cell.rules)
      BY <3>1 DEF Range
    <3> QED BY <2>1, <3>2
  <2>4. first = 0
    BY <2>1, <2>2, <2>3, FirstFacts
  <2> QED BY <2>1, <2>2, <2>4, Zenon DEF Resolve, PlaceIn
<1>5. Find(Host, c, m, i, holds) = Null
  <2> DEFINE cells == arena[Host][c]
             offset == Offset(c, Slot(index[Host], m), i)
  <2>1. cells \in Seq(Cell)
    BY <1>2 DEF TypeOK
  <2>2. Find(Host, c, m, i, holds) =
          IF m \notin Range(index[Host]) \/ offset >= Len(cells) THEN Null
          ELSE Resolve(cells[offset + 1], holds)
    BY <1>2, <1>3 DEF Find
  <2>3. ASSUME m \in Range(index[Host]), ~(offset >= Len(cells))
        PROVE  Resolve(cells[offset + 1], holds) = Null
    <3>1. PICK s \in DOMAIN index[Host] : index[Host][s] = m
      BY <2>3 DEF Range
    <3>2. Slot(index[Host], m) = s - 1 /\ s \in Nat \ {0}
      BY <1>3, <3>1, SlotFacts
    <3>3. offset \in Nat
      <4>1. (s - 1) * Volume[c] \in Nat /\ i \in Nat \ {0}
        BY <3>2, VolumeFacts
      <4>2. offset = (s - 1) * Volume[c] + (i - 1)
        BY <3>2 DEF Offset
      <4> DEFINE base == (s - 1) * Volume[c]
      <4>3. base \in Nat /\ offset = base + (i - 1)
        BY <4>1, <4>2
      <4> HIDE DEF base, offset
      <4> QED BY <4>1, <4>3
    <3>4. offset + 1 \in DOMAIN cells
      <4> HIDE DEF offset
      <4> QED BY <2>1, <2>3, <3>3
    <3>5. cells[offset + 1] \in Cell /\ Targets(cells[offset + 1]) = {}
      <4>1. \A j \in DOMAIN cells : Targets(cells[j]) = {}
        OBVIOUS
      <4> HIDE DEF cells, offset
      <4>2. cells[offset + 1] \in Cell
        BY <2>1, <3>4
      <4> QED BY <3>4, <4>1, <4>2
    <3> QED BY <1>4, <3>5
  <2> HIDE DEF cells, offset
  <2> QED BY <2>2, <2>3
<1> QED BY <1>1, <1>5 DEF Routed

(* With every plugin unmapped again, the host's tensor says what it said   *)
(* before the first load, if the host binds what plugins write into the    *)
(* arenas they share with it.                                              *)
THEOREM TensorRestored ==
  ASSUME OneOrder, HostCovers
  PROVE  Spec => []PreloadRestored
<1>1. Inv /\ SortInv /\ WritersInv => PreloadRestored
  <2> SUFFICES ASSUME Inv, SortInv, WritersInv, caller = Null, Router(Host),
                      \A p \in Plugins : phase[p] = "unmapped", NEW c \in OneDirectory
               PROVE  RoutesAll(Host, c)
    BY DEF PreloadRestored
  <2>0. /\ TypeOK /\ ChainInv /\ Host \in Binary /\ c \in Contract
        /\ Range(LocalChain[Host]) \subseteq Range(cache)
    BY DEF Inv, ChainInv, Router, Binary, OneDirectory
  <2>1. CASE \E k \in DOMAIN cache : Serves(cache[k], Host, c)
    BY <2>0, <2>1, AllRoutes
  <2>2. CASE \A k \in DOMAIN cache : ~Serves(cache[k], Host, c)
    <3>1. \A p \in Range(cache) : ~(Home[p] = Host /\ Binds(p, c))
      BY <2>2 DEF Serves, Range
    <3>2. c \notin HostBound
      <4> SUFFICES ASSUME NEW p \in Range(LocalChain[Host]), Binds(p, c) PROVE FALSE
        BY DEF HostBound
      <4> QED BY <2>0, <3>1, LocalHome
    <3>3. ASSUME NEW t \in Writers(c) PROVE FALSE
      <4>1. t.by \in Populator /\ Binds(t.by, c)
        BY DEF Writers, Target
      <4>2. CASE Home[t.by] = Host
        BY <2>0, <3>1, <4>1, <4>2 DEF Writers
      <4>3. CASE Home[t.by] # Host
        BY <2>0, <3>2, <4>1, <4>3 DEF Writers, HostCovers
      <4> QED BY <4>2, <4>3
    <3>4. \A j \in DOMAIN arena[Host][c] : Targets(arena[Host][c][j]) = {}
      BY <2>0, <3>3 DEF WritersInv
    <3> QED BY <2>0, <2>2, <3>4, EmptyRoutes
  <2> QED BY <2>1, <2>2
<1> QED BY <1>1, RoutingInvariant, WalkSorted, WritersKept, PTL
=============================================================================
