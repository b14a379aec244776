------------------------- MODULE ChainSplicerProofs -------------------------
(***************************************************************************)
(* Proofs about ChainSplicer, for any number of plugins with chains of any *)
(* length: the inductive invariant IInv, and from it the type invariant,   *)
(* ChainIsSegments, and then what the walks over the chains go through:    *)
(* the host's Visit and RefreshCache, what the host's cache holds, and the *)
(* refinement of PluginRegistry.                                           *)
(***************************************************************************)
EXTENDS ChainSplicer, DataTheorems

(* Only a plugin with nodes has a first and a last one.                    *)
Nonempty(b) == b \in Plugins => LocalChain[b] # << >>

LEMMA ChainFacts ==
  ASSUME NEW p \in Plugins
  PROVE  /\ LocalChain[p] \in Seq(Node)
         /\ Len(LocalChain[p]) \in Nat
         /\ NodesOf(p) = {LocalChain[p][i] : i \in 1 .. Len(LocalChain[p])}
         /\ NodesOf(p) \subseteq Node
         /\ FirstOf(LocalChain[p]) \in NodeOrNull
         /\ LocalChain[p] # << >> => Len(LocalChain[p]) \in Nat \ {0}
  BY ChainsAssumption DEF NodesOf, Range, FirstOf, NodeOrNull

(* The first and the last node of a block are its own.                     *)
LEMMA EndsInBlock ==
  ASSUME NEW b \in Block, Nonempty(b)
  PROVE  /\ FirstIn(b) \in NodesIn(b)
         /\ LastIn(b) \in NodesIn(b)
         /\ NodesIn(b) \subseteq Node
<1>1. CASE b \in Plugins
  BY <1>1, ChainFacts DEF Nonempty, FirstIn, LastIn, NodesIn
<1>2. CASE b \notin Plugins
  BY <1>2, ChainsAssumption DEF Block, FirstIn, LastIn, NodesIn
<1>3. QED BY <1>1, <1>2

(* Two blocks that share a node are the same.                              *)
LEMMA BlocksDisjoint ==
  ASSUME NEW b \in Block, NEW c \in Block,
         NEW n \in NodesIn(b), n \in NodesIn(c)
  PROVE  b = c
  BY ChainsAssumption DEF Block, NodesIn

(* Within a segment a walk goes from node to node, and to the first node   *)
(* only from outside.                                                      *)
LEMMA WalkInSegment ==
  ASSUME NEW p \in Plugins, Interior(p),
         NEW n \in NodesOf(p), n # LastIn(p)
  PROVE  /\ next[n] \in NodesOf(p)
         /\ next[n] # FirstIn(p)
<1>1. PICK i \in 1 .. Len(LocalChain[p]) : n = LocalChain[p][i]
  BY ChainFacts
<1>2. i < Len(LocalChain[p])
  BY <1>1, ChainFacts DEF LastIn
<1>3. next[n] = LocalChain[p][i + 1] /\ i + 1 \in 1 .. Len(LocalChain[p])
  BY <1>1, <1>2, ChainFacts DEF Interior
<1>4. next[n] # LocalChain[p][1]
  BY <1>3, <1>1, ChainsAssumption, ChainFacts
<1>5. QED BY <1>3, <1>4, ChainFacts DEF FirstIn

(* Map links each node to the one behind it in the local chain.            *)
LEMMA SuccessorInChain ==
  ASSUME NEW p \in Plugins, NEW i \in 1 .. Len(LocalChain[p])
  PROVE  Successor(LocalChain[p], LocalChain[p][i]) =
           IF i = Len(LocalChain[p]) THEN Null ELSE LocalChain[p][i + 1]
<1> DEFINE k == CHOOSE j \in DOMAIN LocalChain[p] :
                  LocalChain[p][j] = LocalChain[p][i]
<1>1. DOMAIN LocalChain[p] = 1 .. Len(LocalChain[p])
  BY ChainFacts
<1>2. k \in 1 .. Len(LocalChain[p]) /\ LocalChain[p][k] = LocalChain[p][i]
  BY <1>1
<1>3. k = i
  BY <1>2, ChainsAssumption
<1>4. Successor(LocalChain[p], LocalChain[p][i]) =
        IF k = Len(LocalChain[p]) THEN Null ELSE LocalChain[p][k + 1]
  BY Zenon DEF Successor
<1>5. QED BY <1>3, <1>4

(* A list of the blocks, each once, is as long as there are blocks.        *)
LEMMA OrderLength ==
  ASSUME NEW S, NEW order \in Seq(S),
         \A i, j \in 1 .. Len(order) : order[i] = order[j] => i = j,
         Range(order) = S
  PROVE  order \in [1 .. Cardinality(S) -> S]
<1>1. DOMAIN order = 1 .. Len(order) /\ Len(order) \in Nat
  OBVIOUS
<1>2. order \in Bijection(1 .. Len(order), S)
  BY <1>1 DEF Bijection, Injection, Surjection, Range, IsInjective
<1>3. Cardinality(S) = Len(order)
  BY <1>1, <1>2, FS_CountingElements DEF ExistsBijection
<1>4. QED BY <1>1, <1>3

-----------------------------------------------------------------------------
(* Types.                                                                  *)

LEMMA TargetType ==
  ASSUME TypeOK, NEW b \in Binary
  PROVE  Target(b) \in Binary
  BY DEF Target, Binary

LEMMA PointersType ==
  ASSUME TypeOK, NEW p \in Plugins
  PROVE  /\ AfterUs(p) \in NodeOrNull
         /\ \A f \in [Node -> NodeOrNull] :
              CutTail(p, f) \in [Node -> NodeOrNull]
  BY DEF AfterUs, CutTail, TypeOK, NodeOrNull

LEMMA RefreshType ==
  ASSUME TypeOK, NEW b \in Binary, NEW heads \in [Binary -> NodeOrNull],
         NEW at \in Steps \ {"tail"}, StartRefresh(b, at, heads)
  PROVE  /\ cache' \in [Binary -> Seq(Node)]
         /\ cur' \in NodeOrNull
         /\ pc' \in Steps \ {"tail"}
         /\ self' \in Binary
<1>1. Target(b) \in Binary
  BY TargetType
<1>2. QED BY <1>1 DEF StartRefresh, TypeOK

LEMMA TypeStep ==
  ASSUME TypeOK, CallKnows, [Next]_vars
  PROVE  TypeOK'
<1> USE DEF TypeOK, saved
<1>1. ASSUME NEW n \in HostNodes, Construct(n) PROVE TypeOK'
  BY <1>1, ChainsAssumption DEF Construct, NodeOrNull, Binary
<1>2. ASSUME NEW p \in Plugins, Map(p) PROVE TypeOK'
  <2>1. \A n \in NodesOf(p) : Successor(LocalChain[p], n) \in NodeOrNull
    <3>1. ASSUME NEW i \in 1 .. Len(LocalChain[p])
          PROVE  Successor(LocalChain[p], LocalChain[p][i]) \in NodeOrNull
      <4>1. LocalChain[p] \in Seq(Node)
        BY ChainFacts
      <4>2. i # Len(LocalChain[p]) => LocalChain[p][i + 1] \in Node
        BY <4>1
      <4>3. QED BY <4>2, SuccessorInChain DEF NodeOrNull
    <3>2. QED
      <4>1. NodesOf(p) = {LocalChain[p][i] : i \in 1 .. Len(LocalChain[p])}
        BY ChainFacts
      <4>2. QED BY <3>1, <4>1
  <2>2. next' \in [Node -> NodeOrNull]
    BY <1>2, <2>1 DEF Map
  <2>3. head' \in [Binary -> NodeOrNull]
    BY <1>2, ChainFacts DEF Map
  <2>4. QED BY <1>2, <2>2, <2>3 DEF Map
<1>3. ASSUME NEW p \in Plugins, Unmap(p) PROVE TypeOK'
  BY <1>3 DEF Unmap, NodeOrNull, Binary
<1>4. ASSUME NEW b \in Binary, Refresh(b) PROVE TypeOK'
  <2>1. StartRefresh(b, "refresh", head) /\ "refresh" \in Steps \ {"tail"}
    BY <1>4 DEF Refresh, Steps
  <2>2. QED BY <1>4, <2>1, RefreshType DEF Refresh
<1>5. ASSUME NEW p \in Plugins, NEW found \in BOOLEAN, Bootstrap(p, found)
      PROVE  TypeOK'
  <2>1. linked' \in [Plugins -> BOOLEAN]
    BY <1>5 DEF Bootstrap
  <2>2. /\ pc' \in Steps /\ self' \in Binary /\ cur' \in NodeOrNull
        /\ pc' = "tail" => cur' # Null
    BY <1>5 DEF Bootstrap, CanSplice, Steps, Binary
  <2>3. QED BY <1>5, <2>1, <2>2 DEF Bootstrap
<1>6. ASSUME NEW p \in Plugins, Shutdown(p) PROVE TypeOK'
  <2>1. /\ next' \in [Node -> NodeOrNull]
        /\ head' \in [Binary -> NodeOrNull]
    BY <1>6, PointersType, ZenonT(30) DEF Shutdown
  <2>2. CASE pc' \in {"close", "pred"}
    <3>1. self' \in Binary /\ cur' \in NodeOrNull /\ cache' = cache
      BY <1>6, <2>2 DEF Shutdown, StartRefresh, Binary
    <3>2. QED BY <1>6, <2>1, <2>2, <3>1 DEF Shutdown, Steps
  <2>3. CASE pc' \notin {"close", "pred"}
    <3>1. StartRefresh(p, "unloadHook", head')
      BY <1>6, <2>3 DEF Shutdown
    <3>2. p \in Binary /\ "unloadHook" \in Steps \ {"tail"}
      BY DEF Binary, Steps
    <3>3. QED BY <1>6, <2>1, <3>1, <3>2, RefreshType DEF Shutdown
  <2>4. QED BY <2>2, <2>3
<1>7. ASSUME PushNode PROVE TypeOK'
  <2>1. Target(self) \in Binary
    BY TargetType
  <2>2. cur \in Node
    BY <1>7 DEF PushNode, NodeOrNull
  <2>3. QED BY <1>7, <2>1, <2>2 DEF PushNode, Refreshing
<1>8. CASE EndRefresh
  BY <1>8 DEF EndRefresh, Steps, Binary
<1>9. CASE WalkToTail
  BY <1>9, ChainFacts DEF WalkToTail, CallKnows
<1>10. CASE LinkSegment
  <2>1. self \in Plugins /\ cur \in Node
    BY <1>10, ChainFacts DEF LinkSegment, CallKnows, Steps
  <2>2. /\ next' \in [Node -> NodeOrNull]
        /\ head' \in [Binary -> NodeOrNull]
        /\ savedRemote' \in [Plugins -> NodeOrNull]
        /\ savedTail' \in [Plugins -> NodeOrNull]
    BY <1>10, <2>1 DEF LinkSegment, Binary, NodeOrNull
  <2>3. StartRefresh(self, "loadHook", head') /\ "loadHook" \in Steps \ {"tail"}
    BY <1>10 DEF LinkSegment, Steps
  <2>4. QED BY <1>10, <2>2, <2>3, RefreshType DEF LinkSegment
<1>11. CASE WalkToPredecessor
  BY <1>11 DEF WalkToPredecessor, AtPredecessor, NodeOrNull
<1>12. CASE CutSegment
  <2>1. self \in Plugins
    BY <1>12 DEF CutSegment, CallKnows, Steps
  <2>2. next' \in [Node -> NodeOrNull]
    BY <1>12, <2>1, PointersType DEF CutSegment
  <2>3. StartRefresh(self, "unloadHook", head) /\ "unloadHook" \in Steps \ {"tail"}
    BY <1>12 DEF CutSegment, Steps
  <2>4. QED BY <1>12, <2>2, <2>3, RefreshType DEF CutSegment
<1>13. CASE ClosePortal
  BY <1>13 DEF ClosePortal, Steps, Binary, NodeOrNull
<1>14. CASE UNCHANGED vars
  BY <1>14 DEF vars, saved
<1>15. QED
  BY <1>1, <1>2, <1>3, <1>4, <1>5, <1>6, <1>7, <1>8, <1>9, <1>10, <1>11,
     <1>12, <1>13, <1>14 DEF Next, Step

-----------------------------------------------------------------------------
(* The order of the blocks.                                                *)

LEMMA OrderFacts ==
  ASSUME TypeOK, PluginKnows, NEW order \in Orders, Lists(order)
  PROVE  /\ Len(order) \in Nat
         /\ order \in Seq(Block)
         /\ \A i \in 1 .. Len(order) : order[i] \in Blocks
         /\ \A b \in Blocks : \E i \in 1 .. Len(order) : b = order[i]
         /\ \A b \in Blocks : b \in Block /\ Nonempty(b)
<1>1. Blocks \subseteq Block
  BY DEF Blocks, Block, TypeOK
<1>2. IsFiniteSet(Block)
  <2>1. IsFiniteSet(HostNodes)
    BY BinariesAssumption, ChainsAssumption, FS_Subset
  <2>2. QED BY <2>1, BinariesAssumption, FS_Union DEF Block
<1>3. Cardinality(Blocks) \in Nat
  BY <1>1, <1>2, FS_Subset, FS_CardinalityType
<1>4. order \in [1 .. Cardinality(Blocks) -> Blocks]
  BY DEF Orders
<1>5. order \in Seq(Blocks) /\ Len(order) = Cardinality(Blocks)
  BY <1>3, <1>4
<1>6. \A b \in Blocks : \E i \in 1 .. Len(order) : b = order[i]
  BY <1>3, <1>4, <1>5 DEF Lists, Range
<1>7. \A b \in Blocks : Nonempty(b)
  BY ChainsAssumption DEF Blocks, Nonempty, Attached, PluginKnows, TypeOK
<1>8. QED BY <1>1, <1>3, <1>4, <1>5, <1>6, <1>7

LEMMA NewOrder ==
  ASSUME NEW order \in Seq(Blocks'),
         \A i, j \in 1 .. Len(order) : order[i] = order[j] => i = j,
         \A b \in Blocks' : \E i \in 1 .. Len(order) : b = order[i]
  PROVE  order \in Orders' /\ Range(order) = Blocks'
<1>1. Range(order) = Blocks'
  BY DEF Range
<1>2. QED BY <1>1, OrderLength DEF Orders

(* A step that touches neither the blocks nor their links keeps the order. *)
LEMMA SameOrder ==
  ASSUME TypeOK, PluginKnows, NEW order \in Orders, Lists(order),
         Blocks' = Blocks, head'[Host] = head[Host],
         \A b \in Blocks : next'[LastIn(b)] = next[LastIn(b)]
  PROVE  order \in Orders' /\ Lists(order)'
  BY OrderFacts DEF Orders, Lists

(* What prepending does to a sequence.                                     *)
LEMMA PrependFacts ==
  ASSUME NEW S, NEW s \in Seq(S), NEW e \in S
  PROVE  /\ <<e>> \o s \in Seq(S)
         /\ Len(s) \in Nat
         /\ Len(<<e>> \o s) = Len(s) + 1
         /\ (<<e>> \o s)[1] = e
         /\ \A i \in 1 .. Len(s) : (<<e>> \o s)[i + 1] = s[i]
<1>1. <<e>> \in Seq(S) /\ Len(<<e>>) = 1 /\ <<e>>[1] = e
  OBVIOUS
<1>2. <<e>> \o s \in Seq(S) /\ Len(s) \in Nat /\ Len(<<e>> \o s) = Len(s) + 1
  BY <1>1
<1>3. (<<e>> \o s)[1] = e
  OBVIOUS
<1>4. ASSUME NEW i \in 1 .. Len(s) PROVE (<<e>> \o s)[i + 1] = s[i]
  BY <1>2
<1>5. QED BY <1>2, <1>3, <1>4

(* A block put in front of the chain is first in the order.                *)
LEMMA PrependOrder ==
  ASSUME TypeOK, PluginKnows, NEW order \in Orders, Lists(order),
         NEW b \in Block, b \notin Blocks,
         Blocks' = Blocks \cup {b},
         head'[Host] = FirstIn(b),
         next'[LastIn(b)] = head[Host],
         \A c \in Blocks : next'[LastIn(c)] = next[LastIn(c)]
  PROVE  \E o \in Orders' : Lists(o)'
<1> DEFINE o == <<b>> \o order
<1> USE OrderFacts
<1>0. order \in Seq(Blocks') /\ b \in Blocks'
  <2>1. order = [i \in 1 .. Len(order) |-> order[i]]
    OBVIOUS
  <2>2. \A i \in 1 .. Len(order) : order[i] \in Blocks'
    OBVIOUS
  <2>3. QED BY <2>1, <2>2
<1>a. /\ o \in Seq(Blocks')
      /\ Len(o) = Len(order) + 1
      /\ o[1] = b
      /\ \A i \in 1 .. Len(order) : o[i + 1] = order[i]
  BY <1>0, PrependFacts
<1> HIDE DEF o
<1>b. ASSUME NEW i \in 2 .. Len(o)
      PROVE  i - 1 \in 1 .. Len(order) /\ o[i] = order[i - 1]
  <2>1. i - 1 \in 1 .. Len(order) /\ (i - 1) + 1 = i
    BY <1>a
  <2>2. QED BY <2>1, <1>a
<1>1. /\ o \in Seq(Blocks')
      /\ Len(o) = Len(order) + 1
      /\ o[1] = b
      /\ \A i \in 1 .. Len(order) : o[i + 1] = order[i]
      /\ \A i \in 2 .. Len(o) : o[i] = order[i - 1] /\ i - 1 \in 1 .. Len(order)
  BY <1>a, <1>b
<1>2. \A i, j \in 1 .. Len(o) : o[i] = o[j] => i = j
  BY <1>1 DEF Lists
<1>3. \A c \in Blocks' : \E i \in 1 .. Len(o) : c = o[i]
  <2>1. b = o[1] /\ 1 \in 1 .. Len(o)
    BY <1>1
  <2>2. ASSUME NEW c \in Blocks PROVE \E i \in 1 .. Len(o) : c = o[i]
    <3>1. PICK i \in 1 .. Len(order) : c = order[i]
      OBVIOUS
    <3>2. i + 1 \in 1 .. Len(o) /\ c = o[i + 1]
      BY <1>1, <3>1
    <3>3. QED BY <3>2
  <2>3. QED BY <2>1, <2>2
<1>4. o \in Orders' /\ Range(o) = Blocks'
  BY <1>1, <1>2, <1>3, NewOrder
<1>5. ASSUME NEW i \in 1 .. Len(o)
      PROVE  next'[LastIn(o[i])] =
               IF i = Len(o) THEN Null ELSE FirstIn(o[i + 1])
  <2>1. CASE i = 1
    BY <2>1, <1>1 DEF Lists
  <2>2. CASE i # 1
    <3>1. i \in 2 .. Len(o) /\ i - 1 \in 1 .. Len(order)
      BY <2>2, <1>1
    <3>2. o[i] = order[i - 1] /\ order[i - 1] \in Blocks
      BY <3>1, <1>1
    <3>3. i # Len(o) => i \in 1 .. Len(order) /\ o[i + 1] = order[i]
      BY <3>1, <1>1
    <3>4. next[LastIn(order[i - 1])] =
            IF i - 1 = Len(order) THEN Null ELSE FirstIn(order[i])
      BY <3>1 DEF Lists
    <3>5. QED BY <3>1, <3>2, <3>3, <3>4, <1>1
  <2>3. QED BY <2>1, <2>2
<1>6. Lists(o)'
  BY <1>1, <1>2, <1>4, <1>5 DEF Lists
<1>7. QED BY <1>4, <1>6

(* A block taken out with its predecessor, or the head, pointed at what    *)
(* followed it leaves the others in their order.                           *)
LEMMA RemoveOrder ==
  ASSUME TypeOK, PluginKnows, NEW order \in Orders, Lists(order),
         NEW k \in 1 .. Len(order),
         Blocks' = Blocks \ {order[k]},
         head'[Host] = IF k = 1 THEN next[LastIn(order[k])] ELSE head[Host],
         k > 1 => next'[LastIn(order[k - 1])] = next[LastIn(order[k])],
         \A i \in 1 .. Len(order) :
           i \notin {k - 1, k} =>
             next'[LastIn(order[i])] = next[LastIn(order[i])]
  PROVE  \E o \in Orders' : Lists(o)'
<1> USE OrderFacts
<1> DEFINE n == Len(order) - 1
           old(i) == IF i < k THEN i ELSE i + 1
           o == [i \in 1 .. n |-> order[old(i)]]
<1>1. /\ n \in Nat
      /\ \A i \in 1 .. n : old(i) \in 1 .. Len(order) /\ old(i) # k
      /\ \A i, j \in 1 .. n : old(i) = old(j) => i = j
  OBVIOUS
<1>2. \A i \in 1 .. n : order[old(i)] \in Blocks'
  BY <1>1 DEF Lists
<1>3. o \in Seq(Blocks') /\ Len(o) = n /\ \A i \in 1 .. n : o[i] = order[old(i)]
  BY <1>1, <1>2
<1> HIDE DEF o
<1>4. \A i, j \in 1 .. Len(o) : o[i] = o[j] => i = j
  <2>1. SUFFICES ASSUME NEW i \in 1 .. n, NEW j \in 1 .. n,
                        order[old(i)] = order[old(j)]
                 PROVE  i = j
    BY <1>3
  <2>2. old(i) = old(j)
    <3>1. old(i) \in 1 .. Len(order) /\ old(j) \in 1 .. Len(order)
      BY <1>1
    <3> HIDE DEF old
    <3>2. QED BY <2>1, <3>1 DEF Lists
  <2>3. QED BY <2>2, <1>1
<1>5. \A c \in Blocks' : \E i \in 1 .. Len(o) : c = o[i]
  <2>1. SUFFICES ASSUME NEW c \in Blocks' PROVE \E i \in 1 .. Len(o) : c = o[i]
    OBVIOUS
  <2>2. PICK j \in 1 .. Len(order) : c = order[j]
    OBVIOUS
  <2>3. j # k
    BY <2>2
  <2>4. CASE j < k
    <3>1. j \in 1 .. n /\ old(j) = j
      BY <2>4
    <3>2. j \in 1 .. Len(o) /\ o[j] = order[j]
      BY <3>1, <1>3
    <3>3. QED BY <3>2, <2>2
  <2>5. CASE j > k
    <3>1. j - 1 \in 1 .. n /\ old(j - 1) = j
      BY <2>5
    <3>2. j - 1 \in 1 .. Len(o) /\ o[j - 1] = order[j]
      BY <3>1, <1>3
    <3>3. QED BY <3>2, <2>2
  <2>6. QED BY <2>3, <2>4, <2>5
<1>6. o \in Orders' /\ Range(o) = Blocks'
  BY <1>3, <1>4, <1>5, NewOrder
<1>7. ASSUME NEW i \in 1 .. Len(o)
      PROVE  next'[LastIn(o[i])] =
               IF i = Len(o) THEN Null ELSE FirstIn(o[i + 1])
  <2>1. i # Len(o) => i + 1 \in 1 .. n /\ o[i + 1] = order[old(i + 1)]
    BY <1>3
  <2>2. CASE old(i) = k - 1
    <3>1. k > 1 /\ i = k - 1 /\ o[i] = order[k - 1]
      BY <2>2, <1>1, <1>3
    <3>2. next[LastIn(order[k])] =
            IF k = Len(order) THEN Null ELSE FirstIn(order[k + 1])
      BY DEF Lists
    <3>3. QED BY <2>1, <3>1, <3>2, <1>3
  <2>3. CASE old(i) # k - 1
    <3>1. next'[LastIn(o[i])] = next[LastIn(order[old(i)])]
      BY <2>3, <1>1, <1>3
    <3>2. next[LastIn(order[old(i)])] =
            IF old(i) = Len(order) THEN Null ELSE FirstIn(order[old(i) + 1])
      BY <1>1, <1>3 DEF Lists
    <3>3. i # Len(o) => old(i + 1) = old(i) + 1
      BY <2>3, <1>3
    <3>4. i = Len(o) => old(i) = Len(order)
      BY <2>3, <1>3
    <3>5. QED BY <2>1, <3>1, <3>2, <3>3, <3>4, <1>1, <1>3, SMTT(30)
  <2>4. QED BY <2>2, <2>3
<1>8. head'[Host] = IF o = << >> THEN Null ELSE FirstIn(o[1])
  <2>1. CASE k > 1
    BY <2>1, <1>3 DEF Lists
  <2>2. CASE k = 1
    <3>1. head'[Host] = IF Len(order) = 1 THEN Null ELSE FirstIn(order[2])
      <4>1. next[LastIn(order[k])] =
              IF k = Len(order) THEN Null ELSE FirstIn(order[k + 1])
        BY DEF Lists
      <4>2. k + 1 = 2
        BY <2>2
      <4>3. QED BY <2>2, <4>1, <4>2
    <3>2. Len(order) # 1 => o[1] = order[2]
      BY <2>2, <1>3
    <3>3. QED BY <3>1, <3>2, <2>2, <1>3
  <2>3. QED BY <2>1, <2>2
<1>9. Lists(o)'
  BY <1>4, <1>6, <1>7, <1>8 DEF Lists
<1>10. QED BY <1>6, <1>9

-----------------------------------------------------------------------------
(* The steps that touch no pointer of a node or of a head.                 *)

Ordered == \E order \in Orders : Lists(order) /\ NotPassed(order)

LEMMA InteriorFrame ==
  ASSUME NEW p \in Plugins, Interior(p),
         \A n \in NodesOf(p) \ {LastIn(p)} : next'[n] = next[n]
  PROVE  Interior(p)'
<1>1. ASSUME NEW i \in 1 .. Len(LocalChain[p]) - 1
      PROVE  LocalChain[p][i] \in NodesOf(p) \ {LastIn(p)}
  BY ChainFacts, ChainsAssumption DEF LastIn
<1>2. QED BY <1>1 DEF Interior

(* No plugin comes or goes: its statics and its part of the chain stay.    *)
LEMMA Quiet ==
  ASSUME IInv,
         UNCHANGED <<built, mapped, booted, next, head, linked, savedTail>>,
         \A q \in Plugins : Attached(q)' <=> Attached(q),
         \A q \in Plugins : self = q /\ pc \in {"pred", "unloadHook", "close"}
           => self' = q /\ pc' \in {"pred", "unloadHook", "close"},
         \A order \in Orders : Lists(order) /\ NotPassed(order)
           => NotPassed(order)'
  PROVE  PluginKnows' /\ Ordered'
<1> USE DEF IInv
<1>1. Blocks' = Blocks
  BY DEF Blocks
<1>2. Ordered'
  <2>1. PICK order \in Orders : Lists(order) /\ NotPassed(order)
    OBVIOUS
  <2>2. order \in Orders' /\ Lists(order)'
    BY <1>1, <2>1, SameOrder
  <2>3. QED BY <2>1, <2>2 DEF Ordered
<1>3. PluginKnows'
  <2>1. mapped \subseteq Plugins
    BY DEF TypeOK
  <2>2. QED BY <2>1 DEF PluginKnows, Interior
<1>4. QED BY <1>2, <1>3

LEMMA RefreshInv ==
  ASSUME IInv, NEW b \in Binary, Refresh(b)
  PROVE  CallKnows' /\ PluginKnows' /\ Ordered'
<1>1. CallKnows'
  BY DEF IInv, CallKnows, Refresh, StartRefresh, saved, Steps
<1>2. \A q \in Plugins : Attached(q)' <=> Attached(q)
  BY DEF Attached, Refresh, StartRefresh, saved
<1>3. PluginKnows' /\ Ordered'
  BY <1>2, Quiet DEF Refresh, StartRefresh, saved, NotPassed
<1>4. QED BY <1>1, <1>3

LEMMA PushNodeInv ==
  ASSUME IInv, PushNode
  PROVE  CallKnows' /\ PluginKnows' /\ Ordered'
<1>1. CallKnows'
  BY DEF IInv, CallKnows, PushNode, saved, Steps, Refreshing
<1>2. \A q \in Plugins : Attached(q)' <=> Attached(q)
  BY DEF Attached, PushNode, saved
<1>3. PluginKnows' /\ Ordered'
  BY <1>2, Quiet DEF PushNode, saved, NotPassed, Refreshing
<1>4. QED BY <1>1, <1>3

LEMMA EndRefreshInv ==
  ASSUME IInv, EndRefresh
  PROVE  CallKnows' /\ PluginKnows' /\ Ordered'
<1>1. CallKnows'
  BY DEF IInv, CallKnows, EndRefresh, saved, Steps, Refreshing
<1>2. \A q \in Plugins : Attached(q)' <=> Attached(q)
  BY DEF Attached, EndRefresh, saved, Refreshing
<1>3. PluginKnows' /\ Ordered'
  BY <1>2, Quiet DEF EndRefresh, saved, NotPassed, Refreshing
<1>4. QED BY <1>1, <1>3

LEMMA WalkToTailInv ==
  ASSUME IInv, WalkToTail
  PROVE  CallKnows' /\ PluginKnows' /\ Ordered'
<1>1. self \in mapped /\ self \in Plugins /\ cur \in NodesOf(self)
  BY DEF IInv, TypeOK, CallKnows, WalkToTail, Steps
<1>2. cur # LastIn(self)
  BY <1>1 DEF IInv, PluginKnows, CallKnows, WalkToTail, Attached
<1>3. cur' \in NodesOf(self)
  BY <1>1, <1>2, WalkInSegment DEF IInv, PluginKnows, WalkToTail
<1>4. CallKnows'
  BY <1>3 DEF IInv, CallKnows, WalkToTail, saved, Steps
<1>5. \A q \in Plugins : Attached(q)' <=> Attached(q)
  BY DEF Attached, WalkToTail, saved
<1>6. PluginKnows' /\ Ordered'
  BY <1>5, Quiet DEF WalkToTail, saved, NotPassed
<1>7. QED BY <1>4, <1>6

(* The walk to the predecessor stays in front of the segment it looks for. *)
LEMMA NotPassedStep ==
  ASSUME IInv, WalkToPredecessor,
         NEW order \in Orders, Lists(order), NotPassed(order)
  PROVE  NotPassed(order)'
<1> USE OrderFacts DEF IInv
<1>1. /\ self \in mapped /\ self \in Plugins
      /\ cur # Null /\ next[cur] # head[self] /\ cur' = next[cur]
      /\ head[self] = FirstIn(self) /\ LocalChain[self] # << >>
  BY DEF WalkToPredecessor, AtPredecessor, CallKnows, TypeOK, Steps, FirstIn
<1>2. PICK i \in 1 .. Len(order) :
        /\ cur \in NodesIn(order[i])
        /\ \A k \in 1 .. Len(order) : order[k] = self => i < k
  BY <1>1 DEF WalkToPredecessor, NotPassed
<1>3. order[i] \in Blocks /\ order[i] \in Block /\ Nonempty(order[i])
  OBVIOUS
<1>4. CASE cur # LastIn(order[i])
  <2>1. order[i] \in mapped /\ order[i] \in Plugins
    BY <1>2, <1>3, <1>4, ChainsAssumption
       DEF NodesIn, LastIn, Blocks, Attached, TypeOK
  <2>2. next[cur] \in NodesIn(order[i])
    BY <1>2, <1>4, <2>1, WalkInSegment DEF NodesIn, PluginKnows
  <2>3. QED BY <1>1, <1>2, <2>2 DEF NotPassed, WalkToPredecessor
<1>5. CASE cur = LastIn(order[i])
  <2>1. next[cur] = IF i = Len(order) THEN Null ELSE FirstIn(order[i + 1])
    BY <1>5 DEF Lists
  <2>2. CASE i = Len(order)
    <3>1. self \notin Blocks
      BY <1>2, <2>2
    <3>2. savedTail[self] = Null
      BY <3>1, <1>1 DEF Blocks, Attached, WalkToPredecessor
    <3>3. QED BY <1>1, <2>1, <2>2, <3>2
             DEF NotPassed, WalkToPredecessor, saved
  <2>3. CASE i # Len(order)
    <3>1. i + 1 \in 1 .. Len(order) /\ order[i + 1] \in Blocks
      BY <2>3
    <3>2. next[cur] \in NodesIn(order[i + 1])
      BY <2>1, <2>3, <3>1, EndsInBlock
    <3>3. order[i + 1] # self
      BY <1>1, <2>1, <2>3
    <3>4. \A k \in 1 .. Len(order) : order[k] = self => i + 1 < k
      BY <1>2, <3>3
    <3>5. QED BY <1>1, <3>1, <3>2, <3>4 DEF NotPassed, WalkToPredecessor
  <2>4. QED BY <2>2, <2>3
<1>6. QED BY <1>4, <1>5

LEMMA WalkToPredecessorInv ==
  ASSUME IInv, WalkToPredecessor
  PROVE  CallKnows' /\ PluginKnows' /\ Ordered'
<1>1. CallKnows'
  BY DEF IInv, CallKnows, WalkToPredecessor, saved, Steps
<1>2. \A q \in Plugins : Attached(q)' <=> Attached(q)
  BY DEF Attached, WalkToPredecessor, saved
<1>3. PluginKnows' /\ Ordered'
  BY <1>2, NotPassedStep, Quiet DEF WalkToPredecessor, saved
<1>4. QED BY <1>1, <1>3

-----------------------------------------------------------------------------
(* The steps that change a chain, a head or a plugin's statics.            *)

LEMMA ConstructInv ==
  ASSUME IInv, NEW n \in HostNodes, Construct(n)
  PROVE  CallKnows' /\ PluginKnows' /\ Ordered'
<1> USE DEF IInv, saved
<1>1. CallKnows'
  BY DEF CallKnows, Construct, Steps
<1>2. \A q \in Plugins : Attached(q)' <=> Attached(q)
  BY DEF Attached, Construct
<1>3. \A p \in Plugins : \A m \in NodesOf(p) : next'[m] = next[m]
  BY ChainsAssumption, ChainFacts DEF Construct, TypeOK
<1>4. PluginKnows'
  <2>1. \A p \in mapped : Interior(p)'
    BY <1>3, InteriorFrame DEF PluginKnows, Construct, TypeOK
  <2>2. ASSUME NEW p \in mapped, LocalChain[p] # << >>, ~Attached(p)'
        PROVE  next'[LastIn(p)] = Null
    <3>1. p \in Plugins /\ p \in Block /\ Nonempty(p)
      BY <2>2 DEF TypeOK, Block, Nonempty
    <3>2. LastIn(p) \in NodesOf(p)
      BY <3>1, EndsInBlock DEF NodesIn
    <3>3. QED BY <1>2, <1>3, <2>2, <3>1, <3>2 DEF PluginKnows
  <2>3. \A p \in Plugins : head'[p] = head[p]
    BY BinariesAssumption DEF Construct, TypeOK, Binary
  <2>4. mapped \subseteq Plugins
    BY DEF TypeOK
  <2>5. QED BY <2>1, <2>2, <2>3, <2>4 DEF PluginKnows, Construct
<1>5. Ordered'
  <2>1. PICK order \in Orders : Lists(order)
    OBVIOUS
  <2>2. Blocks' = Blocks \cup {n} /\ n \in Block /\ n \notin Blocks
    BY <1>2, ChainsAssumption DEF Blocks, Block, Construct
  <2>3. FirstIn(n) = n /\ LastIn(n) = n
    BY ChainsAssumption DEF FirstIn, LastIn
  <2>4. head'[Host] = n /\ next'[n] = head[Host]
    BY ChainsAssumption DEF Construct, TypeOK, Binary
  <2>5. ASSUME NEW c \in Blocks PROVE next'[LastIn(c)] = next[LastIn(c)]
    <3>1. c \in Block /\ Nonempty(c)
      BY <2>1, OrderFacts
    <3>2. LastIn(c) \in NodesIn(c) /\ LastIn(c) \in Node
      BY <3>1, EndsInBlock
    <3>3. LastIn(c) # n
      BY <2>2, <3>1, <3>2, BlocksDisjoint, ChainsAssumption DEF NodesIn
    <3>4. QED BY <3>2, <3>3 DEF Construct, TypeOK
  <2>6. PICK o \in Orders' : Lists(o)'
    BY <2>1, <2>2, <2>3, <2>4, <2>5, PrependOrder
  <2>7. NotPassed(o)'
    BY DEF NotPassed, Construct
  <2>8. QED BY <2>6, <2>7 DEF Ordered
<1>6. QED BY <1>1, <1>4, <1>5

LEMMA LinkSegmentInv ==
  ASSUME IInv, LinkSegment
  PROVE  CallKnows' /\ PluginKnows' /\ Ordered'
<1> USE DEF IInv, saved
<1>1. /\ self \in mapped /\ self \in Plugins /\ self \in booted
      /\ linked[self] /\ LocalChain[self] # << >>
      /\ head[self] = LocalChain[self][1]
      /\ savedTail[self] = Null
      /\ cur \in NodesOf(self) /\ next[cur] = Null
      /\ mapped \subseteq Plugins
      /\ self # Host
  BY BinariesAssumption DEF LinkSegment, CallKnows, TypeOK, Steps
<1>2. self \in Block /\ Nonempty(self) /\ ~Attached(self)
  BY <1>1 DEF Block, Nonempty, Attached
<1>3. cur = LastIn(self) /\ cur \in Node
  <2>1. cur # LastIn(self) => next[cur] \in NodesOf(self)
    BY <1>1, WalkInSegment DEF PluginKnows
  <2>2. QED BY <1>1, <2>1, ChainFacts, BinariesAssumption
<1>4. /\ head' = [head EXCEPT ![Host] = head[self]]
      /\ next' = [next EXCEPT ![cur] = head[Host]]
      /\ savedTail' = [savedTail EXCEPT ![self] = cur]
      /\ pc' = "loadHook" /\ self' = self
      /\ UNCHANGED <<built, mapped, booted, linked>>
  BY DEF LinkSegment, StartRefresh
<1>5. CallKnows'
  BY <1>1, <1>4 DEF CallKnows, Steps
<1>6. \A q \in Plugins : Attached(q)' <=> Attached(q) \/ q = self
  BY <1>1, <1>2, <1>3, <1>4, BinariesAssumption
     DEF Attached, TypeOK, LinkSegment
<1>7. \A b \in Block \ {self} : Nonempty(b) => next'[LastIn(b)] = next[LastIn(b)]
  <2>1. SUFFICES ASSUME NEW b \in Block \ {self}, Nonempty(b)
                 PROVE  next'[LastIn(b)] = next[LastIn(b)]
    OBVIOUS
  <2>2. LastIn(b) \in NodesIn(b) /\ LastIn(b) \in Node
    <3>1. b \in Block /\ Nonempty(b)
      BY <2>1
    <3>2. QED BY <3>1, EndsInBlock
  <2>3. LastIn(b) # cur
    BY <1>1, <1>2, <2>2, BlocksDisjoint DEF NodesIn
  <2>4. QED BY <1>4, <2>2, <2>3 DEF TypeOK
<1>8. PluginKnows'
  <2>1. ASSUME NEW p \in mapped PROVE Interior(p)'
    <3>1. \A n \in NodesOf(p) \ {LastIn(p)} : n # cur /\ n \in Node
      BY <1>1, <1>3, ChainFacts, ChainsAssumption
    <3>2. QED BY <1>1, <1>4, <3>1, InteriorFrame DEF PluginKnows, TypeOK
  <2>2. \A p \in mapped : LocalChain[p] # << >> /\ ~Attached(p)'
          => next'[LastIn(p)] = Null
    BY <1>1, <1>6, <1>7 DEF PluginKnows, Block, Nonempty
  <2>3. \A p \in Plugins : head'[p] = head[p]
    BY <1>4, BinariesAssumption DEF TypeOK, Binary
  <2>4. \A p \in Plugins \ {self} : savedTail'[p] = savedTail[p]
    BY <1>4 DEF TypeOK
  <2>5. savedTail'[self] = LastIn(self)
    BY <1>1, <1>3, <1>4 DEF TypeOK
  <2>6. \A p \in Plugins \ {self} : ~(self = p /\ pc \in {"pred", "unloadHook", "close"})
    OBVIOUS
  <2>7. QED BY <1>1, <1>4, <2>1, <2>2, <2>3, <2>4, <2>5, <2>6 DEF PluginKnows
<1>9. Ordered'
  <2>1. PICK order \in Orders : Lists(order)
    OBVIOUS
  <2>2. Blocks' = Blocks \cup {self} /\ self \notin Blocks
    BY <1>1, <1>2, <1>4, <1>6, ChainsAssumption DEF Blocks, TypeOK
  <2>3. head'[Host] = FirstIn(self) /\ next'[LastIn(self)] = head[Host]
    BY <1>1, <1>3, <1>4 DEF TypeOK, Binary, FirstIn
  <2>4. \A c \in Blocks : next'[LastIn(c)] = next[LastIn(c)]
    BY <1>7, <2>1, <2>2, OrderFacts
  <2>5. PICK o \in Orders' : Lists(o)'
    BY <1>2, <2>1, <2>2, <2>3, <2>4, PrependOrder
  <2>6. NotPassed(o)'
    BY <1>4 DEF NotPassed
  <2>7. QED BY <2>5, <2>6 DEF Ordered
<1>10. QED BY <1>5, <1>8, <1>9

(* Loading or unloading an image touches only the nodes of that image.     *)
LEMMA ImageFrame ==
  ASSUME TypeOK, NEW p \in Plugins, ~Attached(p),
         \A n \in Node \ NodesOf(p) : next'[n] = next[n]
  PROVE  /\ \A b \in Blocks : Nonempty(b) => next'[LastIn(b)] = next[LastIn(b)]
         /\ \A q \in Plugins \ {p} : \A n \in NodesOf(q) : next'[n] = next[n]
<1>1. ASSUME NEW b \in Blocks, Nonempty(b)
      PROVE  next'[LastIn(b)] = next[LastIn(b)]
  <2>1. b \in Block /\ b # p
    BY ChainsAssumption DEF Blocks, Block, TypeOK
  <2>2. LastIn(b) \in NodesIn(b) /\ LastIn(b) \in Node
    BY <1>1, <2>1, EndsInBlock
  <2>3. LastIn(b) \notin NodesOf(p)
    BY <2>1, <2>2, BlocksDisjoint DEF NodesIn, Block
  <2>4. QED BY <2>2, <2>3
<1>2. QED BY <1>1, ChainsAssumption, ChainFacts

LEMMA MapInv ==
  ASSUME IInv, NEW p \in Plugins, Map(p)
  PROVE  CallKnows' /\ PluginKnows' /\ Ordered'
<1> USE DEF IInv, saved
<1>1. /\ mapped \subseteq Plugins /\ p \notin mapped /\ p # Host
      /\ savedTail[p] = Null /\ ~Attached(p)
  BY BinariesAssumption DEF Map, TypeOK, PluginKnows, Attached
<1>2. CallKnows'
  BY DEF CallKnows, Map, Steps
<1>3. \A q \in Plugins : Attached(q)' <=> Attached(q)
  BY <1>1 DEF Attached, Map
<1>4. \A n \in Node \ NodesOf(p) : next'[n] = next[n]
  BY DEF Map
<1>5. \A i \in 1 .. Len(LocalChain[p]) :
        next'[LocalChain[p][i]] =
          IF i = Len(LocalChain[p]) THEN Null ELSE LocalChain[p][i + 1]
  <2>1. SUFFICES ASSUME NEW i \in 1 .. Len(LocalChain[p])
        PROVE next'[LocalChain[p][i]] =
                IF i = Len(LocalChain[p]) THEN Null ELSE LocalChain[p][i + 1]
    OBVIOUS
  <2>2. LocalChain[p][i] \in NodesOf(p) /\ LocalChain[p][i] \in Node
    BY ChainFacts
  <2>3. next'[LocalChain[p][i]] = Successor(LocalChain[p], LocalChain[p][i])
    BY <2>2 DEF Map
  <2>4. QED BY <2>3, SuccessorInChain
<1>6. PluginKnows'
  <2>1. ASSUME NEW q \in mapped' PROVE Interior(q)'
    <3>1. CASE q = p
      BY <3>1, <1>5, ChainFacts DEF Interior
    <3>2. CASE q # p
      BY <3>2, <1>1, <1>4, ImageFrame, InteriorFrame DEF PluginKnows, Map
    <3>3. QED BY <3>1, <3>2
  <2>2. ASSUME NEW q \in mapped', LocalChain[q] # << >>, ~Attached(q)'
        PROVE  next'[LastIn(q)] = Null
    <3>1. CASE q = p
      BY <3>1, <2>2, <1>5, ChainFacts DEF LastIn
    <3>2. CASE q # p
      <4>1. q \in mapped /\ q \in Plugins /\ q \in Block /\ Nonempty(q)
        BY <2>2, <3>2, <1>1 DEF Map, Block, Nonempty
      <4>2. LastIn(q) \in NodesOf(q)
        BY <4>1, EndsInBlock DEF NodesIn
      <4>3. next'[LastIn(q)] = next[LastIn(q)]
        BY <3>2, <4>1, <4>2, <1>1, <1>4, ImageFrame
      <4>4. QED BY <2>2, <4>1, <4>3, <1>3 DEF PluginKnows
    <3>3. QED BY <3>1, <3>2
  <2>3. /\ \A q \in Plugins \ {p} : head'[q] = head[q]
        /\ head'[p] = FirstOf(LocalChain[p])
    BY DEF Map, TypeOK, Binary
  <2>4. mapped' = mapped \cup {p} /\ UNCHANGED <<booted, linked, savedTail, self, pc>>
    BY DEF Map
  <2>5. QED BY <1>1, <2>1, <2>2, <2>3, <2>4 DEF PluginKnows
<1>7. Ordered'
  <2>1. PICK order \in Orders : Lists(order)
    OBVIOUS
  <2>2. Blocks' = Blocks /\ head'[Host] = head[Host]
    BY <1>1, <1>3 DEF Blocks, Map, TypeOK, Binary
  <2>3. \A b \in Blocks : next'[LastIn(b)] = next[LastIn(b)]
    BY <1>1, <1>4, <2>1, ImageFrame, OrderFacts
  <2>4. order \in Orders' /\ Lists(order)'
    BY <2>1, <2>2, <2>3, SameOrder
  <2>5. NotPassed(order)'
    BY DEF NotPassed, Map
  <2>6. QED BY <2>4, <2>5 DEF Ordered
<1>8. QED BY <1>2, <1>6, <1>7

LEMMA UnmapInv ==
  ASSUME IInv, NEW p \in Plugins, Unmap(p)
  PROVE  CallKnows' /\ PluginKnows' /\ Ordered'
<1> USE DEF IInv, saved
<1>1. /\ mapped \subseteq Plugins /\ p \in mapped /\ p \notin booted /\ p # Host
      /\ savedTail[p] = Null /\ ~Attached(p)
  BY BinariesAssumption DEF Unmap, TypeOK, PluginKnows, Attached
<1>2. CallKnows'
  BY DEF CallKnows, Unmap, Steps
<1>3. \A q \in Plugins : Attached(q)' <=> Attached(q)
  BY <1>1 DEF Attached, Unmap, TypeOK
<1>4. \A n \in Node \ NodesOf(p) : next'[n] = next[n]
  BY DEF Unmap
<1>5. PluginKnows'
  <2>1. ASSUME NEW q \in mapped' PROVE Interior(q)'
    BY <1>1, <1>4, ImageFrame, InteriorFrame DEF PluginKnows, Unmap
  <2>2. ASSUME NEW q \in mapped', LocalChain[q] # << >>, ~Attached(q)'
        PROVE  next'[LastIn(q)] = Null
    <3>1. q # p /\ q \in mapped /\ q \in Plugins /\ q \in Block /\ Nonempty(q)
      BY <2>2, <1>1 DEF Unmap, Block, Nonempty
    <3>2. LastIn(q) \in NodesOf(q)
      BY <3>1, EndsInBlock DEF NodesIn
    <3>3. next'[LastIn(q)] = next[LastIn(q)]
      BY <3>1, <3>2, <1>1, <1>4, ImageFrame
    <3>4. QED BY <2>2, <3>1, <3>3, <1>3 DEF PluginKnows
  <2>3. /\ \A q \in Plugins \ {p} : head'[q] = head[q]
        /\ head'[p] = Null
        /\ \A q \in Plugins \ {p} : savedTail'[q] = savedTail[q]
        /\ savedTail'[p] = Null
        /\ \A q \in Plugins \ {p} : linked'[q] = linked[q]
    BY DEF Unmap, TypeOK, Binary
  <2>4. mapped' = mapped \ {p} /\ UNCHANGED <<booted, self, pc>>
    BY DEF Unmap
  <2>5. QED BY <1>1, <2>1, <2>2, <2>3, <2>4 DEF PluginKnows
<1>6. Ordered'
  <2>1. PICK order \in Orders : Lists(order)
    OBVIOUS
  <2>2. Blocks' = Blocks /\ head'[Host] = head[Host]
    BY <1>1, <1>3 DEF Blocks, Unmap, TypeOK, Binary
  <2>3. \A b \in Blocks : next'[LastIn(b)] = next[LastIn(b)]
    BY <1>1, <1>4, <2>1, ImageFrame, OrderFacts
  <2>4. order \in Orders' /\ Lists(order)'
    BY <2>1, <2>2, <2>3, SameOrder
  <2>5. NotPassed(order)'
    BY DEF NotPassed, Unmap
  <2>6. QED BY <2>4, <2>5 DEF Ordered
<1>7. QED BY <1>2, <1>5, <1>6

LEMMA BootstrapInv ==
  ASSUME IInv, NEW p \in Plugins, NEW found \in BOOLEAN, Bootstrap(p, found)
  PROVE  CallKnows' /\ PluginKnows' /\ Ordered'
<1> USE DEF IInv, saved
<1>1. /\ mapped \subseteq Plugins /\ p \in mapped /\ p # Host
      /\ pc = "idle" /\ pc' \in {"idle", "tail"} /\ self = Host
      /\ booted' = booted \cup {p}
      /\ UNCHANGED <<built, mapped, next, head, savedTail>>
      /\ \A q \in Plugins \ {p} : linked'[q] = linked[q]
      /\ found => linked'[p]
  BY BinariesAssumption DEF Bootstrap, TypeOK, CallKnows
<1>2. savedTail[p] # Null => found /\ ~CanSplice(p, found)
  BY <1>1 DEF PluginKnows, Bootstrap, MayBootstrap, CanSplice
<1>3. \A q \in Plugins : Attached(q)' <=> Attached(q)
  BY <1>1 DEF Attached
<1>4. CallKnows'
  <2>1. CASE pc' = "tail"
    <3>1. CanSplice(p, found) /\ self' = p /\ cur' = head[p]
      BY <1>1, <2>1 DEF Bootstrap
    <3>2. savedTail[p] = Null /\ found /\ head[p] # Null
      BY <1>2, <3>1 DEF CanSplice
    <3>3. LocalChain[p] # << >> /\ head[p] = LocalChain[p][1]
      BY <1>1, <3>2 DEF PluginKnows, FirstOf
    <3>4. head[p] \in NodesOf(p)
      BY <3>3, ChainFacts
    <3>5. QED BY <1>1, <2>1, <3>1, <3>2, <3>3, <3>4 DEF CallKnows
  <2>2. CASE pc' = "idle"
    <3>1. self' = self
      BY <1>1, <2>2 DEF Bootstrap
    <3>2. QED BY <1>1, <2>2, <3>1 DEF CallKnows, Steps
  <2>3. QED BY <1>1, <2>1, <2>2
<1>5. PluginKnows'
  <2>1. \A q \in mapped : Interior(q)'
    BY <1>1 DEF PluginKnows, Interior
  <2>2. \A q \in mapped : savedTail[q] # Null => linked'[q] /\ q \in booted'
    BY <1>1, <1>2 DEF PluginKnows
  <2>3. QED BY <1>1, <1>3, <2>1, <2>2 DEF PluginKnows
<1>6. Ordered'
  <2>1. PICK order \in Orders : Lists(order)
    OBVIOUS
  <2>2. Blocks' = Blocks
    BY <1>1, <1>3 DEF Blocks
  <2>3. order \in Orders' /\ Lists(order)'
    BY <1>1, <2>1, <2>2, SameOrder
  <2>4. NotPassed(order)'
    BY <1>1 DEF NotPassed
  <2>5. QED BY <2>3, <2>4 DEF Ordered
<1>7. QED BY <1>4, <1>5, <1>6

LEMMA ClosePortalInv ==
  ASSUME IInv, ClosePortal
  PROVE  CallKnows' /\ PluginKnows' /\ Ordered'
<1> USE DEF IInv, saved
<1>1. /\ mapped \subseteq Plugins /\ self \in mapped /\ self # Host
      /\ pc = "close" /\ pc' = "idle" /\ self' = Host
      /\ ~Attached(self)
      /\ UNCHANGED <<built, mapped, booted, next>>
      /\ \A q \in Plugins \ {self} : /\ linked'[q] = linked[q]
                                    /\ savedTail'[q] = savedTail[q]
      /\ \A b \in Binary \ {self} : head'[b] = head[b]
      /\ head'[self] = Null /\ savedTail'[self] = Null
  BY BinariesAssumption DEF ClosePortal, TypeOK, CallKnows, Attached, Steps, Binary
<1>2. \A q \in Plugins : Attached(q)' <=> Attached(q)
  BY <1>1 DEF Attached
<1>3. CallKnows'
  BY <1>1 DEF CallKnows, Steps
<1>4. PluginKnows'
  <2>1. \A q \in mapped : Interior(q)'
    BY <1>1 DEF PluginKnows, Interior
  <2>2. \A q \in Plugins \ {self} : head'[q] = head[q]
    BY <1>1 DEF Binary
  <2>3. QED BY <1>1, <1>2, <2>1, <2>2 DEF PluginKnows
<1>5. Ordered'
  <2>1. PICK order \in Orders : Lists(order)
    OBVIOUS
  <2>2. Blocks' = Blocks /\ head'[Host] = head[Host]
    BY <1>1, <1>2 DEF Blocks, Binary
  <2>3. order \in Orders' /\ Lists(order)'
    BY <1>1, <2>1, <2>2, SameOrder
  <2>4. NotPassed(order)'
    BY <1>1 DEF NotPassed
  <2>5. QED BY <2>3, <2>4 DEF Ordered
<1>6. QED BY <1>3, <1>4, <1>5

(* A plugin whose segment ends, whether or not it was in the chain: its    *)
(* last node's pointer is null and its other links are as before.          *)
LEMMA Detached ==
  ASSUME IInv, NEW p \in mapped, LocalChain[p] # << >>,
         ~Attached(p)', pc' \in {"unloadHook", "close"}, self' = p, p \notin booted',
         \A q \in Plugins \ {p} : Attached(q)' <=> Attached(q),
         \A q \in booted \ {p} : q \in booted',
         UNCHANGED <<mapped, linked, savedTail>>,
         \A q \in Plugins : head'[q] = head[q],
         next'[LastIn(p)] = Null,
         \A q \in Plugins : \A n \in NodesOf(q) \ {LastIn(q)} : next'[n] = next[n],
         \A q \in mapped \ {p} :
           LocalChain[q] # << >> /\ ~Attached(q) => next'[LastIn(q)] = next[LastIn(q)],
         pc = "idle" \/ self = p
  PROVE  PluginKnows'
<1>1. mapped \subseteq Plugins
  BY DEF IInv, TypeOK
<1>2. \A q \in mapped : Interior(q)'
  BY <1>1, InteriorFrame DEF IInv, PluginKnows
<1>3. \A q \in mapped \ {p} : ~(self = q /\ pc \in {"pred", "unloadHook", "close"})
  OBVIOUS
<1>4. QED BY <1>1, <1>2, <1>3 DEF IInv, PluginKnows

(* What Shutdown finds in the host's chain.                                *)
LEMMA ShutdownSees ==
  ASSUME IInv, NEW p \in mapped, pc = "idle", head[p] # Null, linked[p],
         NEW order \in Orders, Lists(order)
  PROVE  /\ p \in Plugins /\ LocalChain[p] # << >>
         /\ head[p] = FirstIn(p) /\ head[p] = LocalChain[p][1]
         /\ Attached(p) <=> savedTail[p] # Null
         /\ Attached(p) => savedTail[p] = LastIn(p)
         /\ head[Host] = Null => order = << >> /\ ~Attached(p)
         /\ head[Host] # Null =>
              /\ 1 \in 1 .. Len(order)
              /\ head[Host] \in NodesIn(order[1])
              /\ order[1] = p <=> head[Host] = head[p]
<1> USE OrderFacts DEF IInv
<1>1. /\ p \in Plugins /\ LocalChain[p] # << >>
      /\ head[p] = FirstIn(p) /\ head[p] = LocalChain[p][1]
  BY DEF TypeOK, PluginKnows, FirstOf, FirstIn
<1>2. /\ Attached(p) <=> savedTail[p] # Null
      /\ Attached(p) => savedTail[p] = LastIn(p)
  BY DEF Attached, PluginKnows
<1>3. \A i \in 1 .. Len(order) :
        FirstIn(order[i]) \in NodesIn(order[i]) /\ FirstIn(order[i]) \in Node
  BY EndsInBlock
<1>4. head[Host] = Null => order = << >>
  <2>1. order # << >> => 1 \in 1 .. Len(order)
    OBVIOUS
  <2>2. QED BY <1>3, <2>1, BinariesAssumption DEF Lists
<1>5. ~Attached(p) \/ order # << >>
  BY <1>1 DEF Blocks
<1>6. ASSUME head[Host] # Null
      PROVE  /\ 1 \in 1 .. Len(order)
             /\ head[Host] = FirstIn(order[1])
             /\ head[Host] \in NodesIn(order[1])
  <2>1. order # << >> /\ head[Host] = FirstIn(order[1])
    BY <1>6 DEF Lists
  <2>2. QED BY <1>3, <2>1
<1>7. ASSUME head[Host] # Null, head[Host] = head[p] PROVE order[1] = p
  <2>1. p \in Block /\ Nonempty(p)
    BY <1>1 DEF Block, Nonempty
  <2>2. head[p] \in NodesIn(p)
    BY <1>1, <2>1, EndsInBlock
  <2>3. order[1] \in Block /\ head[p] \in NodesIn(order[1])
    BY <1>6, <1>7
  <2>4. QED BY <2>1, <2>2, <2>3, BlocksDisjoint
<1>8. QED BY <1>1, <1>2, <1>4, <1>5, <1>6, <1>7

(* Nulling the tail of p, and pointing one other last node elsewhere,      *)
(* leaves every other link of every plugin alone.                          *)
LEMMA CutFrame ==
  ASSUME TypeOK, NEW p \in Plugins, LocalChain[p] # << >>,
         NEW c \in Block, Nonempty(c), NEW v \in NodeOrNull,
         next' = [[next EXCEPT ![LastIn(c)] = v] EXCEPT ![LastIn(p)] = Null]
  PROVE  /\ next'[LastIn(p)] = Null
         /\ c # p => next'[LastIn(c)] = v
         /\ \A b \in Block \ {p, c} : Nonempty(b) =>
              next'[LastIn(b)] = next[LastIn(b)]
         /\ \A q \in Plugins : \A n \in NodesOf(q) \ {LastIn(q)} :
              next'[n] = next[n]
<1>1. \A b \in Block : Nonempty(b) => LastIn(b) \in NodesIn(b) /\ LastIn(b) \in Node
  BY EndsInBlock
<1>2. p \in Block /\ Nonempty(p)
  BY DEF Block, Nonempty
<1>3. \A b, d \in Block : Nonempty(b) /\ Nonempty(d) /\ b # d => LastIn(b) # LastIn(d)
  BY <1>1, BlocksDisjoint
<1>4. ASSUME NEW q \in Plugins, NEW n \in NodesOf(q) \ {LastIn(q)}
      PROVE  next'[n] = next[n]
  <2>1. n \in NodesIn(q) /\ n \in Node /\ q \in Block
    BY ChainFacts DEF NodesIn, Block
  <2>2. \A b \in Block : Nonempty(b) => n # LastIn(b)
    BY <1>1, <2>1, BlocksDisjoint
  <2>3. QED BY <1>2, <2>1, <2>2 DEF TypeOK
<1>5. QED BY <1>1, <1>2, <1>3, <1>4 DEF TypeOK

LEMMA ShutdownInv ==
  ASSUME IInv, NEW p \in Plugins, Shutdown(p)
  PROVE  CallKnows' /\ PluginKnows' /\ Ordered'
<1> USE DEF IInv, saved
<1>1. /\ mapped \subseteq Plugins /\ p \in mapped /\ p # Host
      /\ pc = "idle" /\ self = Host
      /\ booted' = booted \ {p} /\ self' = p
      /\ UNCHANGED <<built, mapped, linked, savedTail>>
  BY BinariesAssumption DEF Shutdown, StartRefresh, TypeOK, CallKnows
<1>2. PICK order \in Orders : Lists(order)
  OBVIOUS
<1>3. \A q \in Plugins \ {p} : Attached(q)' <=> Attached(q)
  BY <1>1 DEF Attached
<1>4. CASE head[p] = Null \/ ~linked[p]
  <2>1. pc' = "close" /\ UNCHANGED <<next, head>>
    BY <1>4 DEF Shutdown
  <2>2. savedTail[p] = Null
    <3>1. LocalChain[p] # << >> => LocalChain[p][1] # Null
      BY ChainFacts, BinariesAssumption
    <3>2. QED BY <1>1, <1>4, <3>1 DEF PluginKnows
  <2>3. \A q \in Plugins : Attached(q)' <=> Attached(q)
    BY <1>1, <1>3, <2>1, <2>2 DEF Attached
  <2>4. CallKnows'
    BY <1>1, <2>1 DEF CallKnows, Steps
  <2>5. PluginKnows'
    <3>1. \A q \in mapped : Interior(q)'
      BY <2>1 DEF PluginKnows, Interior
    <3>2. QED BY <1>1, <2>1, <2>2, <2>3, <3>1 DEF PluginKnows
  <2>6. Blocks' = Blocks
    BY <1>1, <2>3 DEF Blocks
  <2>7. order \in Orders' /\ Lists(order)'
    BY <1>2, <2>1, <2>6, SameOrder
  <2>8. QED BY <2>1, <2>4, <2>5, <2>7 DEF Ordered, NotPassed
<1>5. CASE head[p] # Null /\ linked[p] /\ head[Host] = head[p]
  <2>1. /\ LocalChain[p] # << >> /\ Attached(p) /\ savedTail[p] = LastIn(p)
        /\ 1 \in 1 .. Len(order) /\ order[1] = p
        /\ p \in Block /\ Nonempty(p)
    <3>1. /\ LocalChain[p] # << >> /\ 1 \in 1 .. Len(order) /\ order[1] = p
          /\ savedTail[p] = LastIn(p) \/ ~Attached(p)
      BY <1>1, <1>2, <1>5, ShutdownSees
    <3>2. p \in Blocks
      BY <1>2, <3>1, OrderFacts
    <3>3. QED BY <3>1, <3>2, ChainsAssumption
             DEF Blocks, Block, Nonempty, TypeOK
  <2>2. LastIn(p) \in Node
    BY <2>1, EndsInBlock
  <2>3. /\ pc' = "unloadHook"
        /\ head' = [head EXCEPT ![Host] = next[LastIn(p)]]
        /\ next' = [next EXCEPT ![LastIn(p)] = Null]
    BY <1>5, <2>1, <2>2, BinariesAssumption
       DEF Shutdown, StartRefresh, AfterUs, CutTail
  <2>4. /\ next'[LastIn(p)] = Null
        /\ \A b \in Block \ {p} : Nonempty(b) =>
             next'[LastIn(b)] = next[LastIn(b)]
        /\ \A q \in Plugins : \A n \in NodesOf(q) \ {LastIn(q)} :
             next'[n] = next[n]
    <3>1. next' = [[next EXCEPT ![LastIn(p)] = Null] EXCEPT ![LastIn(p)] = Null]
      BY <2>2, <2>3 DEF TypeOK
    <3>2. Null \in NodeOrNull
      BY DEF NodeOrNull
    <3> HIDE DEF IInv
    <3>3. TypeOK
      BY DEF IInv
    <3>4. /\ next'[LastIn(p)] = Null
          /\ \A b \in Block \ {p, p} : Nonempty(b) =>
               next'[LastIn(b)] = next[LastIn(b)]
          /\ \A q \in Plugins : \A n \in NodesOf(q) \ {LastIn(q)} :
               next'[n] = next[n]
      BY <2>1, <3>1, <3>2, <3>3, CutFrame
    <3>5. QED BY <3>4
  <2>5. ~Attached(p)'
    BY <1>1, <2>3 DEF Attached
  <2>6. CallKnows'
    BY <1>1, <2>3 DEF CallKnows, Steps
  <2>7. PluginKnows'
    <3>1. \A q \in Plugins : head'[q] = head[q]
      BY <2>3, BinariesAssumption DEF TypeOK
    <3>2. \A q \in mapped \ {p} :
            LocalChain[q] # << >> /\ ~Attached(q) => next'[LastIn(q)] = next[LastIn(q)]
      BY <1>1, <2>4 DEF Block, Nonempty
    <3>3. QED BY <1>1, <1>3, <2>1, <2>3, <2>4, <2>5, <3>1, <3>2, Detached
  <2>8. Blocks' = Blocks \ {order[1]}
    BY <1>1, <1>3, <2>1, <2>5, ChainsAssumption DEF Blocks, TypeOK
  <2>9. \A i \in 1 .. Len(order) : i # 1 =>
          next'[LastIn(order[i])] = next[LastIn(order[i])]
    BY <1>2, <2>1, <2>4, OrderFacts DEF Lists
  <2>10. head'[Host] = next[LastIn(order[1])]
    BY <2>1, <2>3 DEF TypeOK, Binary
  <2>11. PICK o \in Orders' : Lists(o)'
    BY <1>2, <2>1, <2>8, <2>9, <2>10, RemoveOrder
  <2>12. QED BY <2>3, <2>6, <2>7, <2>11 DEF Ordered, NotPassed
<1>6. CASE head[p] # Null /\ linked[p] /\ head[Host] = Null
  <2>1. ~Attached(p) /\ savedTail[p] = Null
    BY <1>1, <1>2, <1>6, ShutdownSees
  <2>2. /\ pc' = "unloadHook" /\ UNCHANGED <<head, next>>
    BY <1>6, <2>1 DEF Shutdown, StartRefresh, CutTail
  <2>3. \A q \in Plugins : Attached(q)' <=> Attached(q)
    BY <1>1, <1>3, <2>1 DEF Attached
  <2>4. CallKnows'
    BY <1>1, <2>2 DEF CallKnows, Steps
  <2>5. PluginKnows'
    <3>1. \A q \in mapped : Interior(q)'
      BY <2>2 DEF PluginKnows, Interior
    <3>2. QED BY <1>1, <2>1, <2>2, <2>3, <3>1 DEF PluginKnows
  <2>6. Blocks' = Blocks
    BY <1>1, <2>3 DEF Blocks
  <2>7. order \in Orders' /\ Lists(order)'
    BY <1>2, <2>2, <2>6, SameOrder
  <2>8. QED BY <2>2, <2>4, <2>5, <2>7 DEF Ordered, NotPassed
<1>7. CASE head[p] # Null /\ linked[p] /\ head[Host] \notin {Null, head[p]}
  <2>1. /\ LocalChain[p] # << >> /\ head[p] = LocalChain[p][1]
        /\ 1 \in 1 .. Len(order) /\ order[1] # p
        /\ head[Host] \in NodesIn(order[1])
    BY <1>1, <1>2, <1>7, ShutdownSees
  <2>2. pc' = "pred" /\ cur' = head[Host] /\ UNCHANGED <<head, next>>
    BY <1>7 DEF Shutdown
  <2>3. \A q \in Plugins : Attached(q)' <=> Attached(q)
    BY <1>1, <1>3, <2>2 DEF Attached
  <2>4. CallKnows'
    BY <1>1, <1>7, <2>1, <2>2 DEF CallKnows, Steps
  <2>5. PluginKnows'
    <3>1. \A q \in mapped : Interior(q)'
      BY <2>2 DEF PluginKnows, Interior
    <3>2. QED BY <1>1, <2>2, <2>3, <3>1 DEF PluginKnows
  <2>6. Blocks' = Blocks
    BY <1>1, <2>3 DEF Blocks
  <2>7. order \in Orders' /\ Lists(order)'
    BY <1>2, <2>2, <2>6, SameOrder
  <2>8. NotPassed(order)'
    <3>1. \A k \in 1 .. Len(order) : order[k] = p => 1 < k
      BY <1>2, <2>1, OrderFacts
    <3>2. QED BY <1>1, <2>1, <2>2, <3>1 DEF NotPassed
  <2>9. QED BY <2>4, <2>5, <2>7, <2>8 DEF Ordered
<1>8. QED BY <1>4, <1>5, <1>6, <1>7

LEMMA CutSegmentInv ==
  ASSUME IInv, CutSegment
  PROVE  CallKnows' /\ PluginKnows' /\ Ordered'
<1> USE DEF IInv, saved
<1>1. /\ mapped \subseteq Plugins /\ self \in mapped /\ self # Host
      /\ self \in Plugins /\ self \notin booted
      /\ pc = "pred" /\ pc' = "unloadHook" /\ self' = self
      /\ LocalChain[self] # << >>
      /\ head[self] = LocalChain[self][1] /\ head[self] = FirstIn(self)
      /\ UNCHANGED <<built, mapped, booted, head, linked, savedTail>>
  BY BinariesAssumption
     DEF CutSegment, StartRefresh, TypeOK, CallKnows, Steps, FirstIn
<1>2. PICK order \in Orders : Lists(order) /\ NotPassed(order)
  OBVIOUS
<1>3. self \in Block /\ Nonempty(self) /\ head[self] \in NodesIn(self)
  BY <1>1, EndsInBlock DEF Block, Nonempty
<1>4. \A q \in Plugins \ {self} : Attached(q)' <=> Attached(q)
  BY <1>1 DEF Attached
<1>5. ~Attached(self)'
  BY <1>1 DEF Attached
<1>6. CallKnows'
  BY <1>1 DEF CallKnows, Steps
<1>7. CASE cur = Null
  <2>1. savedTail[self] = Null
    <3>1. \A i \in 1 .. Len(order) : Null \notin NodesIn(order[i])
      BY <1>2, OrderFacts, EndsInBlock, BinariesAssumption
    <3>2. QED BY <1>1, <1>2, <1>7, <3>1 DEF NotPassed
  <2>2. next' = next
    BY <1>7, <2>1 DEF CutSegment, CutTail
  <2>3. \A q \in Plugins : Attached(q)' <=> Attached(q)
    BY <1>1, <1>4, <1>5, <2>1 DEF Attached
  <2>4. PluginKnows'
    <3>1. \A q \in mapped : Interior(q)'
      BY <2>2 DEF PluginKnows, Interior
    <3>2. QED BY <1>1, <2>1, <2>2, <2>3, <3>1 DEF PluginKnows
  <2>5. Blocks' = Blocks
    BY <1>1, <2>3 DEF Blocks
  <2>6. order \in Orders' /\ Lists(order)'
    BY <1>1, <1>2, <2>2, <2>5, SameOrder
  <2>7. QED BY <1>1, <1>6, <2>4, <2>6 DEF Ordered, NotPassed
<1>8. CASE cur # Null
  <2>1. next[cur] = FirstIn(self)
    BY <1>1, <1>8 DEF CutSegment, AtPredecessor
  <2>2. PICK i \in 1 .. Len(order) :
          /\ cur \in NodesIn(order[i])
          /\ \A k \in 1 .. Len(order) : order[k] = self => i < k
    BY <1>1, <1>2, <1>8 DEF NotPassed
  <2>3. /\ order[i] \in Blocks /\ order[i] \in Block /\ Nonempty(order[i])
        /\ order[i] # self
    BY <1>2, <2>2, OrderFacts
  <2>4. cur = LastIn(order[i])
    <3>1. SUFFICES ASSUME cur # LastIn(order[i]) PROVE FALSE
      OBVIOUS
    <3>2. order[i] \in mapped /\ order[i] \in Plugins
      BY <2>2, <2>3, <3>1, ChainsAssumption
         DEF NodesIn, LastIn, Blocks, Attached, TypeOK
    <3>3. next[cur] \in NodesIn(order[i])
      BY <2>2, <3>1, <3>2, WalkInSegment DEF NodesIn, PluginKnows
    <3>4. QED BY <1>1, <1>3, <2>1, <2>3, <3>3, BlocksDisjoint
  <2>5. /\ i + 1 \in 1 .. Len(order) /\ order[i + 1] = self
        /\ Attached(self) /\ savedTail[self] = LastIn(self)
    <3>1. next[cur] = IF i = Len(order) THEN Null ELSE FirstIn(order[i + 1])
      BY <1>2, <2>4 DEF Lists
    <3>2. next[cur] # Null
      BY <1>1, <1>3, <2>1, EndsInBlock, BinariesAssumption
    <3>3. i + 1 \in 1 .. Len(order) /\ FirstIn(order[i + 1]) = FirstIn(self)
      BY <1>2, <2>1, <3>1, <3>2, OrderFacts
    <3>4. order[i + 1] \in Blocks /\ FirstIn(order[i + 1]) \in NodesIn(order[i + 1])
      BY <1>2, <3>3, OrderFacts, EndsInBlock
    <3>5. order[i + 1] = self
      BY <1>1, <1>2, <1>3, <3>3, <3>4, OrderFacts, BlocksDisjoint
    <3>6. Attached(self)
      BY <1>1, <3>4, <3>5, ChainsAssumption DEF Blocks, TypeOK
    <3>7. QED BY <1>1, <3>3, <3>5, <3>6 DEF Attached, PluginKnows
  <2> DEFINE v == next[LastIn(self)]
  <2>6. LastIn(self) \in Node /\ v \in NodeOrNull
    BY <1>3, EndsInBlock DEF TypeOK
  <2>7. next' = [[next EXCEPT ![LastIn(order[i])] = v] EXCEPT ![LastIn(self)] = Null]
    BY <1>8, <2>4, <2>5, <2>6, BinariesAssumption
       DEF CutSegment, CutTail, AfterUs
  <2> HIDE DEF v
  <2>8. /\ next'[LastIn(self)] = Null
        /\ next'[LastIn(order[i])] = v
        /\ \A b \in Block \ {self, order[i]} : Nonempty(b) =>
             next'[LastIn(b)] = next[LastIn(b)]
        /\ \A q \in Plugins : \A n \in NodesOf(q) \ {LastIn(q)} :
             next'[n] = next[n]
    <3> HIDE DEF IInv
    <3>1. TypeOK
      BY DEF IInv
    <3>2. QED BY <1>1, <2>3, <2>6, <2>7, <3>1, CutFrame, ZenonT(60)
  <2>9. PluginKnows'
    <3>1. \A q \in mapped \ {self} :
            LocalChain[q] # << >> /\ ~Attached(q) => next'[LastIn(q)] = next[LastIn(q)]
      BY <1>1, <2>3, <2>8, ChainsAssumption DEF Block, Nonempty, Blocks, TypeOK
    <3>2. QED BY <1>1, <1>4, <1>5, <2>8, <3>1, Detached
  <2>10. Blocks' = Blocks \ {order[i + 1]}
    BY <1>1, <1>4, <1>5, <2>5, ChainsAssumption DEF Blocks, TypeOK
  <2>11. PICK o \in Orders' : Lists(o)'
    <3> DEFINE k == i + 1
    <3>1. k \in 1 .. Len(order) /\ k # 1 /\ k > 1 /\ k - 1 = i /\ order[k] = self
      BY <2>5
    <3>2. \A j \in 1 .. Len(order) : j \notin {k - 1, k} =>
            next'[LastIn(order[j])] = next[LastIn(order[j])]
      BY <1>2, <2>5, <2>8, OrderFacts DEF Lists
    <3>3. head'[Host] = head[Host] /\ next'[LastIn(order[k - 1])] = next[LastIn(order[k])]
      BY <1>1, <2>8, <3>1 DEF v
    <3>4. Blocks' = Blocks \ {order[k]}
      BY <2>10
    <3> HIDE DEF k
    <3>5. QED BY <1>2, <3>1, <3>2, <3>3, <3>4, RemoveOrder
  <2>12. QED BY <1>1, <1>6, <2>9, <2>11 DEF Ordered, NotPassed
<1>9. QED BY <1>7, <1>8

-----------------------------------------------------------------------------
(* The theorems.                                                           *)

LEMMA InitInv == Init => IInv
<1> SUFFICES ASSUME Init PROVE IInv
  OBVIOUS
<1>1. TypeOK
  BY DEF Init, TypeOK, Steps, Binary, NodeOrNull
<1>2. CallKnows
  BY DEF Init, CallKnows, Steps
<1>3. PluginKnows
  BY DEF Init, PluginKnows, Binary
<1>4. Blocks = {}
  BY DEF Init, Blocks, Attached
<1>5. << >> \in Orders /\ Lists(<< >>) /\ NotPassed(<< >>)
  <2>1. Cardinality(Blocks) = 0
    BY <1>4, FS_EmptySet
  <2>2. << >> \in Orders
    BY <2>1, <1>4 DEF Orders
  <2>3. Lists(<< >>)
    BY <1>4 DEF Lists, Range, Init, Binary
  <2>4. QED BY <2>2, <2>3 DEF NotPassed, Init
<1>6. QED BY <1>1, <1>2, <1>3, <1>5 DEF IInv

LEMMA StepInv == IInv /\ [Next]_vars => IInv'
<1> SUFFICES ASSUME IInv, [Next]_vars PROVE IInv'
  OBVIOUS
<1>1. TypeOK'
  BY TypeStep DEF IInv
<1>2. CallKnows' /\ PluginKnows' /\ Ordered'
  <2>1. CASE UNCHANGED vars
    <3>1. PluginKnows' /\ Ordered'
      BY <2>1, Quiet DEF vars, saved, Attached, NotPassed
    <3>2. QED BY <2>1, <3>1 DEF vars, saved, IInv, CallKnows
  <2>2. CASE Step
    BY <2>2, PushNodeInv, EndRefreshInv, WalkToTailInv, LinkSegmentInv,
       WalkToPredecessorInv, CutSegmentInv, ClosePortalInv DEF Step
  <2>3. CASE Next /\ ~Step
    BY <2>3, ConstructInv, MapInv, UnmapInv, ShutdownInv, BootstrapInv,
       RefreshInv DEF Next
  <2>4. QED BY <2>1, <2>2, <2>3
<1>3. QED BY <1>1, <1>2 DEF IInv, Ordered

(* Every behaviour keeps the inductive invariant.                          *)
THEOREM InvariantHolds == Spec => []IInv
  BY InitInv, StepInv, PTL DEF Spec

(* Every variable stays within its type: the walks follow pointers of      *)
(* nodes only, never the null pointer (the loops of Splice and Unsplice).  *)
THEOREM TypeCorrect == Spec => []TypeOK
<1>1. IInv => TypeOK
  BY DEF IInv
<1>2. QED BY <1>1, InvariantHolds, PTL

(* In every state the host's chain consists of whole segments, one for     *)
(* each attached plugin, and the host's own nodes, each once: no order of  *)
(* loads and unloads loses a segment, closes a cycle, or leaves a node of  *)
(* a plugin that is gone (Splice and Unsplice).                            *)
THEOREM ChainIsWhole == Spec => []ChainIsSegments
<1>1. IInv => ChainIsSegments
  BY DEF IInv, ChainIsSegments, PluginKnows
<1>2. QED BY <1>1, InvariantHolds, PTL

-----------------------------------------------------------------------------
(* The walks over the chains, and the registry.                            *)

(* The nodes of the blocks of the shared chain.                            *)
ChainNodes == UNION {NodesIn(b) : b \in Blocks}

(* The walk goes once through each node of each block, and ends.           *)
PathOK ==
  /\ IsPath(HostChain, Node, next, head[Host])
  /\ Range(HostChain) = ChainNodes

(* A path by the pointers of a state is what the walk goes through.        *)
LEMMA WalkOfPath ==
  ASSUME NEW f \in [Node -> NodeOrNull], NEW h, NEW w, IsPath(w, Node, f, h)
  PROVE  /\ ChainFrom(f, h) = w
         /\ w \in Seq(Node) /\ Len(w) \in Nat /\ Len(w) <= Cardinality(Node)
BY BinariesAssumption, ChainOfPath DEF NodeOrNull, IsPath

(* A plugin's segment, while it ends in null, is the whole walk from its   *)
(* head.                                                                   *)
LEMMA OwnWalk ==
  ASSUME IInv, NEW p \in mapped, head[p] # Null, ~Attached(p)
  PROVE  ChainFrom(next, head[p]) = LocalChain[p]
<1>1. p \in Plugins /\ next \in [Node -> NodeOrNull]
  BY DEF IInv, TypeOK
<1>2. LocalChain[p] # << >> /\ head[p] = LocalChain[p][1]
  BY DEF IInv, PluginKnows, FirstOf
<1>3. ASSUME NEW i \in 1 .. Len(LocalChain[p])
      PROVE  next[LocalChain[p][i]] =
               IF i = Len(LocalChain[p]) THEN Null ELSE LocalChain[p][i + 1]
  <2>1. CASE i = Len(LocalChain[p])
    BY <1>1, <1>2, <2>1 DEF IInv, PluginKnows, LastIn
  <2>2. CASE i # Len(LocalChain[p])
    BY <1>1, <2>2, ChainFacts DEF IInv, PluginKnows, Interior
  <2> QED BY <2>1, <2>2
<1>4. IsPath(LocalChain[p], Node, next, head[p])
  BY <1>1, <1>2, <1>3, ChainsAssumption, ChainFacts DEF IsPath
<1> QED BY <1>1, <1>4, WalkOfPath

(***************************************************************************)
(* Unsplice gives every plugin its own chain back, whole and ended,        *)
(* whatever was loaded or unloaded around it meanwhile.                    *)
(***************************************************************************)
THEOREM AlwaysRestored == Spec => []OwnChainRestored
<1>1. IInv => OwnChainRestored
  BY OwnWalk DEF OwnChainRestored
<1> QED BY <1>1, InvariantHolds, PTL

-----------------------------------------------------------------------------
(* The nodes of the host's chain.                                          *)

(* A block of the chain has a first and a last node.                       *)
LEMMA BlockFacts ==
  ASSUME IInv, NEW b \in Blocks
  PROVE  b \in Block /\ Nonempty(b) /\ NodesIn(b) \subseteq Node
<1>1. PICK order \in Orders : Lists(order)
  BY DEF IInv
<1>2. b \in Block /\ Nonempty(b)
  BY <1>1, OrderFacts DEF IInv
<1> QED BY <1>2, EndsInBlock

(* A node of a block that is not in the chain is not a node of the chain.  *)
LEMMA OutsideChain ==
  ASSUME IInv, NEW b \in Block, b \notin Blocks, NEW n \in NodesIn(b)
  PROVE  n \notin ChainNodes
BY BlockFacts, BlocksDisjoint DEF ChainNodes

(* The host's walk lists the nodes of the chain, each of them, and ends.   *)
LEMMA HostChainFacts ==
  ASSUME IInv, PathOK
  PROVE  /\ HostChain \in Seq(Node) /\ Len(HostChain) \in Nat
         /\ Len(HostChain) <= Cardinality(Node)
         /\ \A i \in 1 .. Len(HostChain) : HostChain[i] \in ChainNodes
         /\ \A n \in ChainNodes : \E i \in 1 .. Len(HostChain) : n = HostChain[i]
<1>1. next \in [Node -> NodeOrNull]
  BY DEF IInv, TypeOK
<1>2. /\ HostChain \in Seq(Node) /\ Len(HostChain) \in Nat
      /\ Len(HostChain) <= Cardinality(Node)
  BY <1>1, WalkOfPath DEF PathOK
<1>3. DOMAIN HostChain = 1 .. Len(HostChain)
  BY <1>2
<1> QED BY <1>2, <1>3 DEF PathOK, Range

(* A step that leaves the pointers of the chain as they are.               *)
LEMMA ChainKept ==
  ASSUME IInv, IInv', PathOK, head'[Host] = head[Host], Blocks' = Blocks,
         \A n \in ChainNodes : next'[n] = next[n]
  PROVE  PathOK' /\ HostChain' = HostChain
<1>1. IsPath(HostChain, Node, next', head'[Host])
  BY HostChainFacts, PathKept DEF PathOK
<1>2. next' \in [Node -> NodeOrNull]
  BY DEF IInv, TypeOK
<1>3. ChainFrom(next', head'[Host]) = HostChain
  BY <1>1, <1>2, WalkOfPath
<1>4. HostChain' = HostChain
  BY <1>3 DEF HostChain
<1>5. ChainNodes' = ChainNodes
  BY DEF ChainNodes
<1> QED BY <1>1, <1>4, <1>5 DEF PathOK

(* What nobody's step but Construct, LinkSegment, Shutdown and CutSegment  *)
(* changes.                                                                *)
Still ==
  /\ head'[Host] = head[Host]
  /\ Blocks' = Blocks
  /\ \A n \in ChainNodes : next'[n] = next[n]

(* The blocks are the same when no plugin is attached or detached.         *)
LEMMA BlocksKept ==
  ASSUME built' = built, \A q \in Plugins : Attached(q)' <=> Attached(q)
  PROVE  Blocks' = Blocks
BY DEF Blocks

(* The images that come and go are not in the chain.                       *)
LEMMA MapStill ==
  ASSUME IInv, NEW p \in Plugins, Map(p)
  PROVE  Still
<1>1. p \notin mapped /\ savedTail[p] = Null /\ p # Host
  BY BinariesAssumption DEF Map, IInv, PluginKnows
<1>2. \A q \in Plugins : Attached(q)' <=> Attached(q)
  BY <1>1 DEF Attached, Map, saved
<1>3. Blocks' = Blocks
  BY <1>2, BlocksKept DEF Map
<1>4. p \in Block /\ p \notin Blocks
  BY <1>1, ChainsAssumption DEF Block, Blocks, Attached, IInv, TypeOK
<1>5. \A n \in ChainNodes : n \in Node /\ n \notin NodesOf(p)
  BY <1>4, OutsideChain, BlockFacts DEF NodesIn, ChainNodes
<1>6. head'[Host] = head[Host]
  BY <1>1 DEF Map, IInv, TypeOK, Binary
<1> QED BY <1>3, <1>5, <1>6 DEF Still, Map

(* Nor are the images that go: they have been shut down.                   *)
LEMMA UnmapStill ==
  ASSUME IInv, NEW p \in Plugins, Unmap(p)
  PROVE  Still
<1>1. p \notin booted /\ savedTail[p] = Null /\ p # Host
  BY BinariesAssumption DEF Unmap, IInv, PluginKnows
<1>2. \A q \in Plugins : Attached(q)' <=> Attached(q)
  BY <1>1 DEF Attached, Unmap, saved, IInv, TypeOK
<1>3. Blocks' = Blocks
  BY <1>2, BlocksKept DEF Unmap
<1>4. p \in Block /\ p \notin Blocks
  BY <1>1, ChainsAssumption DEF Block, Blocks, Attached, IInv, TypeOK
<1>5. \A n \in ChainNodes : n \in Node /\ n \notin NodesOf(p)
  BY <1>4, OutsideChain, BlockFacts DEF NodesIn, ChainNodes
<1>6. head'[Host] = head[Host]
  BY <1>1 DEF Unmap, IInv, TypeOK, Binary
<1> QED BY <1>3, <1>5, <1>6 DEF Still, Unmap

(* The walks, the refreshes and the start of a bootstrap write no pointer. *)
LEMMA WalkersStill ==
  ASSUME IInv,
         \/ PushNode \/ EndRefresh \/ WalkToTail \/ WalkToPredecessor
         \/ \E b \in Binary : Refresh(b)
         \/ \E p \in Plugins : \E found \in BOOLEAN : Bootstrap(p, found)
         \/ UNCHANGED vars
  PROVE  Still
<1>1. UNCHANGED <<built, next, head, mapped, savedTail>>
  BY DEF PushNode, EndRefresh, WalkToTail, WalkToPredecessor, Refresh, Bootstrap,
     vars, saved
<1>2. \A q \in Plugins : Attached(q)' <=> Attached(q)
  <2>1. \A q \in Plugins : (self' = q /\ pc' \in {"unloadHook", "close"})
                             <=> (self = q /\ pc \in {"unloadHook", "close"})
    BY DEF PushNode, EndRefresh, WalkToTail, WalkToPredecessor, Refresh, Bootstrap,
       StartRefresh, vars, saved, Refreshing, Steps
  <2> QED BY <1>1, <2>1 DEF Attached
<1> QED BY <1>1, <1>2, BlocksKept DEF Still

(* ClosePortal resets the statics of a plugin that is out already.         *)
LEMMA ClosePortalStill ==
  ASSUME IInv, ClosePortal
  PROVE  Still
<1>1. self \in Plugins /\ self # Host /\ pc = "close" /\ ~Attached(self)
  BY BinariesAssumption DEF ClosePortal, IInv, TypeOK, CallKnows, Attached, Steps
<1>2. \A q \in Plugins : Attached(q)' <=> Attached(q)
  <2>1. \A q \in Plugins \ {self} : savedTail'[q] = savedTail[q]
    BY DEF ClosePortal, IInv, TypeOK
  <2>2. savedTail'[self] = Null /\ pc' = "idle" /\ mapped' = mapped
    BY <1>1 DEF ClosePortal, IInv, TypeOK
  <2> QED BY <1>1, <2>1, <2>2 DEF Attached
<1> QED BY <1>1, <1>2, BlocksKept DEF Still, ClosePortal, IInv, TypeOK, Binary

-----------------------------------------------------------------------------
(* The steps that change the chain.                                        *)

(* A host node goes in front of the path.                                  *)
LEMMA ConstructPath ==
  ASSUME IInv, IInv', PathOK, NEW n \in HostNodes, Construct(n)
  PROVE  PathOK' /\ HostChain' = <<n>> \o HostChain
<1> DEFINE s == <<n>>
<1>1. n \in Node /\ n \in Block /\ n \notin Blocks /\ NodesIn(n) = {n}
  BY ChainsAssumption DEF Construct, Block, Blocks, NodesIn
<1>2. \A q \in Plugins : Attached(q)' <=> Attached(q)
  BY DEF Attached, Construct, saved
<1>3. Blocks' = Blocks \cup {n}
  BY <1>2 DEF Blocks, Construct
<1>4. n \notin ChainNodes
  BY <1>1, OutsideChain
<1>5. next' = [next EXCEPT ![n] = head[Host]] /\ head'[Host] = n
  BY DEF Construct, IInv, TypeOK, Binary
<1>6. next \in [Node -> NodeOrNull] /\ next' \in [Node -> NodeOrNull]
  BY DEF IInv, TypeOK
<1>7. \A m \in ChainNodes : m \in Node /\ next'[m] = next[m]
  BY <1>4, <1>5, <1>6, BlockFacts DEF ChainNodes
<1>8. IsPath(s \o HostChain, Node, next', s[1])
  <2>1. s \in Seq(Node) /\ s # << >> /\ Len(s) = 1 /\ s[1] = n
    BY <1>1
  <2>2. \A i \in 1 .. Len(s) :
          next'[s[i]] = IF i = Len(s) THEN head[Host] ELSE s[i + 1]
    BY <1>1, <1>5, <1>6, <2>1
  <2>3. \A i \in 1 .. Len(s), j \in 1 .. Len(HostChain) : s[i] # HostChain[j]
    BY <1>4, <2>1, HostChainFacts
  <2>4. \A i, j \in 1 .. Len(s) : s[i] = s[j] => i = j
    BY <2>1
  <2>5. \A i \in 1 .. Len(HostChain) : next'[HostChain[i]] = next[HostChain[i]]
    BY <1>7, HostChainFacts
  <2> HIDE DEF s
  <2> QED BY <2>1, <2>2, <2>3, <2>4, <2>5, PathPrepended DEF PathOK
<1>9. HostChain' = s \o HostChain
  BY <1>5, <1>6, <1>8, WalkOfPath DEF HostChain
<1>10. Range(s \o HostChain) = {n} \cup ChainNodes
  <2>1. s \in Seq(Node) /\ Range(s) = {n}
    BY <1>1 DEF Range
  <2> HIDE DEF s
  <2>2. Range(s \o HostChain) = Range(s) \cup Range(HostChain)
    BY <2>1, HostChainFacts, ConcatRange
  <2> QED BY <2>1, <2>2 DEF PathOK
<1>11. ChainNodes' = {n} \cup ChainNodes
  BY <1>1, <1>3 DEF ChainNodes
<1> QED BY <1>5, <1>8, <1>9, <1>10, <1>11 DEF PathOK

(* LinkSegment puts the plugin's whole segment in front of the path.       *)
LEMMA LinkPath ==
  ASSUME IInv, IInv', PathOK, LinkSegment
  PROVE  /\ PathOK' /\ HostChain' = LocalChain[self] \o HostChain
         /\ self \in Plugins /\ linked[self]
         /\ Range(LocalChain[self]) \cap Range(HostChain) = {}
<1> DEFINE s == LocalChain[self]
<1>1. /\ self \in mapped /\ self \in Plugins /\ linked[self] /\ s # << >>
      /\ head[self] = s[1] /\ savedTail[self] = Null /\ self # Host
      /\ cur \in NodesOf(self) /\ next[cur] = Null /\ pc = "tail"
  BY BinariesAssumption DEF LinkSegment, IInv, CallKnows, TypeOK, Steps
<1>2. self \in Block /\ self \notin Blocks /\ NodesIn(self) = NodesOf(self)
  BY <1>1, ChainsAssumption DEF Block, Blocks, Attached, NodesIn, IInv, TypeOK
<1>3. /\ s \in Seq(Node) /\ Len(s) \in Nat \ {0}
      /\ NodesOf(self) = {s[i] : i \in 1 .. Len(s)}
      /\ \A i, j \in 1 .. Len(s) : s[i] = s[j] => i = j
      /\ \A i \in 1 .. Len(s) - 1 : next[s[i]] = s[i + 1]
  BY <1>1, ChainFacts, ChainsAssumption DEF IInv, PluginKnows, Interior
<1>4. cur = s[Len(s)]
  <2>1. PICK i \in 1 .. Len(s) : cur = s[i]
    BY <1>1, <1>3
  <2>2. i # Len(s) => next[cur] = s[i + 1] /\ s[i + 1] \in Node
    BY <1>3, <2>1
  <2> QED BY <1>1, <2>1, <2>2, BinariesAssumption
<1>5. /\ head' = [head EXCEPT ![Host] = s[1]]
      /\ next' = [next EXCEPT ![cur] = head[Host]]
      /\ savedTail' = [savedTail EXCEPT ![self] = cur]
      /\ pc' = "loadHook" /\ self' = self
      /\ UNCHANGED <<built, mapped>>
  BY <1>1 DEF LinkSegment, StartRefresh
<1>6. next \in [Node -> NodeOrNull] /\ next' \in [Node -> NodeOrNull] /\ head'[Host] = s[1]
  BY <1>5 DEF IInv, TypeOK, Binary
<1>7. \A n \in ChainNodes : n \notin NodesOf(self) /\ n \in Node
  BY <1>2, OutsideChain, BlockFacts DEF ChainNodes
<1>8. Blocks' = Blocks \cup {self}
  <2>1. cur # Null
    BY <1>1, <1>3, BinariesAssumption
  <2>2. \A q \in Plugins : Attached(q)' <=> Attached(q) \/ q = self
    BY <1>1, <1>5, <2>1 DEF Attached, IInv, TypeOK
  <2> QED BY <1>1, <1>5, <2>2 DEF Blocks
<1> HIDE DEF s
<1>9. IsPath(s \o HostChain, Node, next', s[1])
  <2>1. \A i \in 1 .. Len(s) :
          next'[s[i]] = IF i = Len(s) THEN head[Host] ELSE s[i + 1]
    <3>1. \A i \in 1 .. Len(s) : s[i] \in Node /\ (s[i] = cur <=> i = Len(s))
      BY <1>3, <1>4
    <3> QED BY <1>3, <1>5, <1>6, <3>1
  <2>2. ASSUME NEW i \in 1 .. Len(s), NEW j \in 1 .. Len(HostChain)
        PROVE  s[i] # HostChain[j]
    <3>1. s[i] \in NodesOf(self)
      BY <1>3
    <3>2. HostChain[j] \in ChainNodes
      BY HostChainFacts
    <3> QED BY <1>7, <3>1, <3>2
  <2>3. \A i \in 1 .. Len(HostChain) : next'[HostChain[i]] = next[HostChain[i]]
    BY <1>1, <1>5, <1>6, <1>7, HostChainFacts
  <2>4. s \in Seq(Node) /\ s # << >>
    BY <1>3
  <2>5. \A i, j \in 1 .. Len(s) : s[i] = s[j] => i = j
    BY <1>3
  <2>6. IsPath(HostChain, Node, next, head[Host])
    BY DEF PathOK
  <2> HIDE DEF HostChain
  <2> QED BY <2>1, <2>2, <2>3, <2>4, <2>5, <2>6, PathPrepended, SMTT(40)
<1>10. HostChain' = s \o HostChain
  BY <1>6, <1>9, WalkOfPath DEF HostChain
<1>11. Range(s) = NodesOf(self)
  BY DEF s, NodesOf
<1>12. Range(s \o HostChain) = NodesOf(self) \cup ChainNodes
  BY <1>3, <1>11, HostChainFacts, ConcatRange DEF PathOK
<1>13. ChainNodes' = NodesOf(self) \cup ChainNodes
  BY <1>2, <1>8 DEF ChainNodes
<1>14. Range(s) \cap Range(HostChain) = {}
  BY <1>7, <1>11 DEF PathOK
<1> QED BY <1>1, <1>6, <1>9, <1>10, <1>12, <1>13, <1>14 DEF PathOK, s

(* p's segment lies on the path behind its first k nodes.                  *)
At(p, k) ==
  /\ k + Len(LocalChain[p]) <= Len(HostChain)
  /\ \A i \in 1 .. Len(LocalChain[p]) : HostChain[k + i] = LocalChain[p][i]

(* The segment of an attached plugin is somewhere on the path, in one      *)
(* piece.                                                                  *)
LEMMA AttachedSegment ==
  ASSUME IInv, PathOK, NEW p \in Plugins, Attached(p)
  PROVE  /\ LocalChain[p] # << >>
         /\ \E k \in Nat : At(p, k)
<1>1. p \in mapped /\ LocalChain[p] # << >> /\ p \in Blocks
  BY DEF Attached, IInv, PluginKnows, Blocks
<1>2. LocalChain[p] \in Seq(Node) /\ Len(LocalChain[p]) \in Nat \ {0}
  BY <1>1, ChainFacts
<1>3. LocalChain[p][1] \in ChainNodes
  BY <1>1, <1>2, ChainFacts DEF ChainNodes, NodesIn
<1>4. PICK j \in 1 .. Len(HostChain) : LocalChain[p][1] = HostChain[j]
  BY <1>3, HostChainFacts
<1>5. \A i \in 1 .. Len(LocalChain[p]) - 1 : next[LocalChain[p][i]] = LocalChain[p][i + 1]
  BY <1>1 DEF IInv, PluginKnows, Interior
<1> DEFINE k == j - 1
<1>6. k \in Nat /\ k + 1 <= Len(HostChain) /\ HostChain[k + 1] = LocalChain[p][1]
  BY <1>4, HostChainFacts
<1> HIDE DEF k
<1> DEFINE s == LocalChain[p]
<1>7. /\ s \in Seq(Node) /\ s # << >> /\ Null \notin Node
      /\ \A i \in 1 .. Len(s) - 1 : next[s[i]] = s[i + 1]
      /\ HostChain[k + 1] = s[1]
  BY <1>1, <1>2, <1>5, <1>6, BinariesAssumption
<1> HIDE DEF s
<1>8. k + Len(s) <= Len(HostChain)
  BY <1>6, <1>7, SegmentOnPath DEF PathOK
<1>9. \A i \in 1 .. Len(s) : HostChain[k + i] = s[i]
  BY <1>6, <1>7, SegmentOnPath DEF PathOK
<1>10. At(p, k)
  BY <1>8, <1>9 DEF At, s
<1> QED BY <1>1, <1>6, <1>10

(* A segment taken out, with what points at it pointed at what follows it, *)
(* leaves the rest of the path.                                            *)
LEMMA RemovePath ==
  ASSUME IInv, IInv', PathOK, NEW p \in Plugins, Attached(p),
         Blocks' = Blocks \ {p}, NEW k \in Nat, At(p, k),
         head'[Host] = IF k = 0 THEN next[LastIn(p)] ELSE head[Host],
         k > 0 => next'[HostChain[k]] = next[LastIn(p)],
         \A n \in ChainNodes \ NodesOf(p) :
           (k > 0 => n # HostChain[k]) => next'[n] = next[n]
  PROVE  PathOK' /\ HostChain' = Without(HostChain, k, Len(LocalChain[p]))
<1> DEFINE s == LocalChain[p]
           m == Len(s)
           w == HostChain
           v == Without(w, k, m)
<1>1. /\ s \in Seq(Node) /\ m \in Nat \ {0}
      /\ NodesOf(p) = {s[i] : i \in 1 .. m}
      /\ LastIn(p) = s[m]
  BY ChainFacts DEF LastIn, Attached, IInv, PluginKnows
<1>2. k + m <= Len(w) /\ \A i \in 1 .. m : w[k + i] = s[i]
  BY DEF At
<1>3. /\ w \in Seq(Node) /\ Len(w) \in Nat
      /\ \A i \in 1 .. Len(w) : w[i] \in ChainNodes
      /\ \A n \in ChainNodes : \E i \in 1 .. Len(w) : n = w[i]
  BY HostChainFacts
<1>4. /\ IsPath(w, Node, next, head[Host])
      /\ \A i, j \in 1 .. Len(w) : w[i] = w[j] => i = j
  BY DEF PathOK, IsPath
<1> HIDE DEF w
<1>5. LastIn(p) = w[k + m]
  BY <1>1, <1>2
<1>6. \A i \in 1 .. Len(w) : w[i] \in NodesOf(p) <=> i \in k + 1 .. k + m
  <2>1. ASSUME NEW i \in 1 .. Len(w), w[i] \in NodesOf(p)
        PROVE  i \in k + 1 .. k + m
    <3>1. PICK j \in 1 .. m : w[i] = s[j]
      BY <1>1, <2>1
    <3>2. w[i] = w[k + j] /\ k + j \in 1 .. Len(w)
      BY <1>1, <1>2, <1>3, <3>1, SMTT(30)
    <3> QED BY <1>1, <1>4, <3>1, <3>2
  <2>2. ASSUME NEW i \in 1 .. Len(w), i \in k + 1 .. k + m
        PROVE  w[i] \in NodesOf(p)
    <3>1. i - k \in 1 .. m /\ k + (i - k) = i
      BY <1>1, <2>2
    <3>2. w[i] = s[i - k]
      BY <1>2, <3>1
    <3> QED BY <1>1, <3>1, <3>2
  <2> QED BY <2>1, <2>2
<1>7. ASSUME NEW i \in 1 .. Len(w), i < k \/ i > k + m
      PROVE  next'[w[i]] = next[w[i]]
  <2>1. w[i] \in ChainNodes \ NodesOf(p)
    BY <1>1, <1>3, <1>6, <1>7
  <2>2. k > 0 => k \in 1 .. Len(w) /\ i # k
    BY <1>1, <1>2, <1>3, <1>7
  <2>3. k > 0 => w[i] # w[k]
    BY <1>4, <2>2
  <2> QED BY <2>1, <2>3 DEF w
<1>8. /\ k \in Nat /\ m \in Nat \ {0} /\ k + m <= Len(w)
      /\ head'[Host] = IF k = 0 THEN next[w[m]] ELSE head[Host]
      /\ k > 0 => next'[w[k]] = next[w[k + m]]
  BY <1>1, <1>2, <1>5 DEF w
<1> HIDE DEF m, s
<1>9. IsPath(v, Node, next', head'[Host])
  BY <1>4, <1>7, <1>8, PathShortened
<1>10. next' \in [Node -> NodeOrNull]
  BY DEF IInv, TypeOK
<1>11. HostChain' = v
  BY <1>9, <1>10, WalkOfPath DEF HostChain
<1>12. ChainNodes' = ChainNodes \ NodesOf(p)
  <2>1. p \in Blocks /\ p \in Block /\ NodesIn(p) = NodesOf(p)
    BY DEF Blocks, Block, NodesIn
  <2>2. \A b \in Blocks \ {p} : NodesIn(b) \cap NodesOf(p) = {}
    BY <2>1, BlockFacts, BlocksDisjoint
  <2> QED BY <2>1, <2>2 DEF ChainNodes
<1>13. Range(v) = ChainNodes \ NodesOf(p)
  <2>1. v \in Seq(Node)
    BY <1>3, <1>8, WithoutFacts
  <2>2. /\ Len(v) = Len(w) - m
        /\ \A i \in 1 .. Len(w) - m : v[i] = IF i <= k THEN w[i] ELSE w[i + m]
    BY <1>3, <1>8, WithoutFacts
  <2> HIDE DEF v
  <2>3. Range(v) = {v[i] : i \in 1 .. Len(w) - m}
    BY <2>1, <2>2 DEF Range
  <2>4. ASSUME NEW i \in 1 .. Len(w) - m
        PROVE  v[i] \in ChainNodes \ NodesOf(p)
    <3>1. CASE i <= k
      <4>1. i \in 1 .. Len(w) /\ i \notin k + 1 .. k + m
        BY <1>3, <1>8, <3>1
      <4> QED BY <1>3, <1>6, <2>2, <3>1, <4>1
    <3>2. CASE ~(i <= k)
      <4>1. i + m \in 1 .. Len(w) /\ i + m \notin k + 1 .. k + m
        BY <1>3, <1>8, <3>2
      <4> QED BY <1>3, <1>6, <2>2, <3>2, <4>1
    <3> QED BY <3>1, <3>2
  <2>5. ASSUME NEW n \in ChainNodes \ NodesOf(p)
        PROVE  \E i \in 1 .. Len(w) - m : n = v[i]
    <3>1. PICK j \in 1 .. Len(w) : n = w[j] /\ j \notin k + 1 .. k + m
      BY <1>3, <1>6
    <3>2. CASE j <= k
      <4>1. j \in 1 .. Len(w) - m
        BY <1>3, <1>8, <3>2
      <4> QED BY <2>2, <3>1, <3>2, <4>1
    <3>3. CASE j > k + m
      <4>1. j - m \in 1 .. Len(w) - m /\ ~(j - m <= k) /\ (j - m) + m = j
        BY <1>3, <1>8, <3>3
      <4>2. v[j - m] = w[j]
        BY <2>2, <4>1
      <4> QED BY <3>1, <4>1, <4>2
    <3> QED BY <1>3, <1>8, <3>1, <3>2, <3>3
  <2> QED BY <2>3, <2>4, <2>5
<1> QED BY <1>9, <1>11, <1>12, <1>13 DEF PathOK, v, w, m, s

(* Unsplice of the plugin that is first in the chain takes its segment     *)
(* out.                                                                    *)
LEMMA ShutdownPath ==
  ASSUME IInv, IInv', PathOK, NEW p \in Plugins, Shutdown(p),
         head[p] # Null, linked[p], head[Host] = head[p]
  PROVE  /\ Attached(p) /\ At(p, 0)
         /\ PathOK' /\ HostChain' = Without(HostChain, 0, Len(LocalChain[p]))
<1>1. p \in mapped /\ pc = "idle" /\ self' = p /\ pc' = "unloadHook"
      /\ UNCHANGED <<built, mapped, savedTail>>
  BY BinariesAssumption DEF Shutdown, StartRefresh, saved
<1>2. PICK order \in Orders : Lists(order)
  BY DEF IInv
<1>3. /\ LocalChain[p] # << >> /\ head[p] = LocalChain[p][1]
      /\ 1 \in 1 .. Len(order) /\ order[1] = p
      /\ Attached(p) => savedTail[p] = LastIn(p)
  BY <1>1, <1>2, ShutdownSees
<1>4. Attached(p) /\ p \in Block /\ Nonempty(p)
  <2>1. p \in Blocks
    BY <1>2, <1>3, OrderFacts DEF IInv
  <2> QED BY <1>3, <2>1, ChainsAssumption DEF Blocks, Block, Nonempty, IInv, TypeOK
<1>5. LastIn(p) \in Node /\ LastIn(p) \in NodesOf(p)
  BY <1>4, EndsInBlock DEF NodesIn
<1>6. /\ head' = [head EXCEPT ![Host] = next[LastIn(p)]]
      /\ next' = [next EXCEPT ![LastIn(p)] = Null]
  BY <1>3, <1>4, <1>5, BinariesAssumption DEF Shutdown, StartRefresh, AfterUs, CutTail
<1>7. Blocks' = Blocks \ {p}
  <2>1. ~Attached(p)'
    BY <1>1 DEF Attached
  <2>2. \A q \in Plugins \ {p} : Attached(q)' <=> Attached(q)
    BY <1>1 DEF Attached
  <2>3. p \notin built
    BY ChainsAssumption DEF IInv, TypeOK
  <2> QED BY <1>1, <2>1, <2>2, <2>3 DEF Blocks
<1>8. PICK k \in Nat : At(p, k)
  BY <1>4, AttachedSegment
<1>9. k = 0
  <2>1. LocalChain[p] \in Seq(Node) /\ Len(LocalChain[p]) \in Nat \ {0}
    BY <1>3, ChainFacts
  <2>2. k + 1 \in 1 .. Len(HostChain) /\ HostChain[k + 1] = LocalChain[p][1]
    BY <1>8, <2>1, HostChainFacts DEF At
  <2>3. 1 \in 1 .. Len(HostChain) /\ HostChain # << >>
    BY <2>2, HostChainFacts
  <2>4. HostChain[1] = HostChain[k + 1]
    BY <1>3, <2>2, <2>3 DEF PathOK, IsPath
  <2>5. 1 = k + 1
    BY <2>2, <2>3, <2>4 DEF PathOK, IsPath
  <2> QED BY <2>5
<1>10. head'[Host] = next[LastIn(p)] /\ \A n \in Node \ NodesOf(p) : next'[n] = next[n]
  BY <1>5, <1>6 DEF IInv, TypeOK, Binary
<1>11. ChainNodes \subseteq Node
  BY BlockFacts DEF ChainNodes
<1> QED BY <1>4, <1>7, <1>8, <1>9, <1>10, <1>11, RemovePath

(* Unsplice of any other plugin takes its segment out behind the           *)
(* predecessor the walk has found.                                         *)
LEMMA CutPath ==
  ASSUME IInv, IInv', PathOK, CutSegment, cur # Null
  PROVE  /\ self \in Plugins /\ Attached(self) /\ PathOK'
         /\ \E k \in Nat :
              At(self, k) /\ HostChain' = Without(HostChain, k, Len(LocalChain[self]))
<1>1. /\ self \in mapped /\ self \in Plugins /\ LocalChain[self] # << >>
      /\ head[self] = LocalChain[self][1]
      /\ pc = "pred" /\ pc' = "unloadHook" /\ self' = self
      /\ UNCHANGED <<built, mapped, head, savedTail>>
  BY DEF CutSegment, StartRefresh, saved, IInv, TypeOK, CallKnows, Steps
<1>2. PICK order \in Orders : Lists(order) /\ NotPassed(order)
  BY DEF IInv
<1>3. self \in Block /\ Nonempty(self) /\ head[self] \in NodesOf(self)
      /\ LastIn(self) \in NodesOf(self) /\ LastIn(self) \in Node
      /\ head[self] \in Node /\ LocalChain[self] \in Seq(Node)
      /\ Len(LocalChain[self]) \in Nat \ {0}
  <2>1. self \in Block /\ Nonempty(self)
    BY <1>1 DEF Block, Nonempty
  <2>2. LastIn(self) \in NodesOf(self) /\ LastIn(self) \in Node
    BY <1>1, <2>1, EndsInBlock DEF NodesIn
  <2> QED BY <1>1, <2>1, <2>2, ChainFacts
<1>4. next[cur] = head[self]
  BY DEF CutSegment, AtPredecessor
<1>5. cur \in ChainNodes
  <2>1. PICK i \in 1 .. Len(order) : cur \in NodesIn(order[i])
    BY <1>1, <1>2 DEF NotPassed
  <2>2. order[i] \in Blocks
    BY <1>2, <2>1, OrderFacts DEF IInv
  <2> QED BY <2>1, <2>2 DEF ChainNodes
<1>6. PICK j \in 1 .. Len(HostChain) : cur = HostChain[j]
  BY <1>5, HostChainFacts
<1>7. /\ j \in Nat /\ j + 1 \in 1 .. Len(HostChain) /\ HostChain[j + 1] = head[self]
  <2>1. next[cur] = IF j = Len(HostChain) THEN Null ELSE HostChain[j + 1]
    BY <1>6 DEF PathOK, IsPath
  <2>2. j # Len(HostChain)
    BY <1>3, <1>4, <2>1, BinariesAssumption
  <2> QED BY <1>4, <2>1, <2>2, HostChainFacts
<1>8. self \in Blocks /\ Attached(self)
  <2>1. head[self] \in ChainNodes /\ head[self] \in NodesIn(self)
    BY <1>1, <1>3, <1>7, HostChainFacts DEF NodesIn
  <2>2. self \in Blocks
    BY <1>3, <2>1, OutsideChain
  <2> QED BY <1>1, <2>2, ChainsAssumption DEF Blocks, IInv, TypeOK
<1>9. savedTail[self] = LastIn(self)
  BY <1>1, <1>8 DEF Attached, IInv, PluginKnows
<1>10. PICK k \in Nat : At(self, k)
  BY <1>1, <1>8, AttachedSegment
<1>11. k = j
  <2>1. k + 1 \in 1 .. Len(HostChain) /\ HostChain[k + 1] = head[self]
    BY <1>1, <1>3, <1>10, HostChainFacts DEF At
  <2>2. j + 1 = k + 1
    BY <1>7, <2>1 DEF PathOK, IsPath
  <2> QED BY <1>7, <2>2
<1>12. cur \notin NodesOf(self) /\ cur \in Node
  <2>1. cur \in NodesOf(self) => next[cur] # head[self]
    <3>1. ASSUME cur \in NodesOf(self), next[cur] = head[self] PROVE FALSE
      <4>1. PICK i \in 1 .. Len(LocalChain[self]) : cur = LocalChain[self][i]
        BY <1>1, <3>1, ChainFacts
      <4>2. HostChain[k + i] = cur /\ k + i \in 1 .. Len(HostChain)
        BY <1>3, <1>10, <4>1, HostChainFacts DEF At
      <4>3. k + i = j
        BY <1>6, <4>2 DEF PathOK, IsPath
      <4> QED BY <1>11, <4>1, <4>3
    <3> QED BY <3>1
  <2> QED BY <1>4, <1>5, <2>1, BlockFacts DEF ChainNodes
<1>13. next' = [[next EXCEPT ![cur] = next[LastIn(self)]] EXCEPT ![LastIn(self)] = Null]
  BY <1>3, <1>9, BinariesAssumption DEF CutSegment, CutTail, AfterUs
<1>14. Blocks' = Blocks \ {self}
  <2>1. ~Attached(self)'
    BY <1>1 DEF Attached
  <2>2. \A q \in Plugins \ {self} : Attached(q)' <=> Attached(q)
    BY <1>1 DEF Attached
  <2>3. self \notin built
    BY <1>1, ChainsAssumption DEF IInv, TypeOK
  <2> QED BY <1>1, <2>1, <2>2, <2>3 DEF Blocks
<1>15. /\ next'[cur] = next[LastIn(self)]
       /\ \A n \in Node \ NodesOf(self) : n # cur => next'[n] = next[n]
  <2>1. cur # LastIn(self)
    BY <1>3, <1>12
  <2> QED BY <1>3, <1>12, <1>13, <2>1 DEF IInv, TypeOK
<1>16. ChainNodes \subseteq Node
  BY BlockFacts DEF ChainNodes
<1>17. /\ head'[Host] = IF k = 0 THEN next[LastIn(self)] ELSE head[Host]
       /\ k > 0 => next'[HostChain[k]] = next[LastIn(self)]
       /\ \A n \in ChainNodes \ NodesOf(self) :
            (k > 0 => n # HostChain[k]) => next'[n] = next[n]
  BY <1>1, <1>6, <1>11, <1>15, <1>16
<1>18. PathOK' /\ HostChain' = Without(HostChain, k, Len(LocalChain[self]))
  BY <1>1, <1>8, <1>10, <1>14, <1>17, RemovePath
<1> QED BY <1>1, <1>8, <1>10, <1>18

-----------------------------------------------------------------------------
(* The host's cache.                                                       *)

(* What is behind the first k + 1 entries when an entry goes in front.     *)
LEMMA TailShift ==
  ASSUME NEW N, NEW w \in Seq(N), NEW n \in N, NEW k \in 0 .. Len(w)
  PROVE  SubSeq(<<n>> \o w, k + 2, Len(w) + 1) = SubSeq(w, k + 1, Len(w))
<1> DEFINE v == <<n>> \o w
<1>1. /\ v \in Seq(N) /\ Len(w) \in Nat /\ Len(v) = Len(w) + 1
      /\ \A i \in 1 .. Len(w) : v[i + 1] = w[i]
  BY PrependFacts
<1> HIDE DEF v
<1>2. SubSeq(v, k + 2, Len(w) + 1) = [i \in 1 .. Len(w) - k |-> v[i + k + 1]]
  BY <1>1
<1>3. SubSeq(w, k + 1, Len(w)) = [i \in 1 .. Len(w) - k |-> w[i + k]]
  BY <1>1
<1>4. \A i \in 1 .. Len(w) - k : v[i + k + 1] = w[i + k]
  <2>1. \A i \in 1 .. Len(w) - k : i + k \in 1 .. Len(w) /\ (i + k) + 1 = i + k + 1
    BY <1>1
  <2> QED BY <1>1, <2>1
<1> QED BY <1>2, <1>3, <1>4 DEF v

(* The first k entries and the next one are the first k + 1.               *)
LEMMA PrefixGrows ==
  ASSUME NEW N, NEW w \in Seq(N), NEW k \in Nat, k + 1 <= Len(w)
  PROVE  /\ Append(SubSeq(w, 1, k), w[k + 1]) = SubSeq(w, 1, k + 1)
         /\ Len(SubSeq(w, 1, k)) = k
         /\ w[k + 1] \in N
<1>1. Len(w) \in Nat /\ k + 1 \in 1 .. Len(w)
  OBVIOUS
<1>2. SubSeq(w, 1, k) \in Seq(N) /\ Len(SubSeq(w, 1, k)) = k
  BY <1>1
<1>3. \A i \in 1 .. k : SubSeq(w, 1, k)[i] = w[i]
  BY <1>1
<1>4. SubSeq(w, 1, k + 1) = [i \in 1 .. k + 1 |-> w[i]]
  BY <1>1
<1>5. Append(SubSeq(w, 1, k), w[k + 1]) = [i \in 1 .. k + 1 |-> w[i]]
  BY <1>1, <1>2, <1>3
<1> QED BY <1>1, <1>2, <1>4, <1>5

(* A call refreshes the host's cache.                                      *)
Filling == pc \in Refreshing /\ Target(self) = Host

(* The cache part of WalkInv.                                              *)
CacheOK == IF Filling THEN CacheGrows ELSE CacheLags

(* A step that changes neither the chain nor the cache nor its refresh.    *)
LEMMA CacheKept ==
  ASSUME CacheOK, HostChain' = HostChain, cache'[Host] = cache[Host],
         Filling' <=> Filling, Filling => cur' = cur
  PROVE  CacheOK'
BY DEF CacheOK, CacheGrows, CacheLags

(* A refresh that reaches the host's cache clears it and starts at the     *)
(* head.                                                                   *)
LEMMA RefreshStarts ==
  ASSUME IInv, IInv', PathOK', NEW b \in Binary, NEW at \in Refreshing, NEW heads,
         StartRefresh(b, at, heads), linked' = linked,
         heads[Host] = head'[Host], Target(b) = Host
  PROVE  CacheOK'
<1>1. Filling' /\ cur' = head'[Host] /\ cache'[Host] = << >>
  BY DEF Filling, StartRefresh, Target, IInv, TypeOK, Binary
<1>2. HostChain' \in Seq(Node) /\ Len(HostChain') \in Nat
  BY DEF PathOK, IsPath
<1>3. cur' = IF 0 = Len(HostChain') THEN Null ELSE HostChain'[0 + 1]
  BY <1>1, <1>2 DEF PathOK, IsPath
<1>4. cache'[Host] = SubSeq(HostChain', 1, 0) /\ 0 \in 0 .. Len(HostChain')
  BY <1>1, <1>2
<1> QED BY <1>1, <1>3, <1>4 DEF CacheOK, CacheGrows

(* A refresh pushes the node its cursor is at and follows the pointer; a   *)
(* cache with room for every node is never full before the walk ends.      *)
LEMMA PushNodeCache ==
  ASSUME IInv, PathOK, CacheOK, PushNode, HostChain' = HostChain
  PROVE  CacheOK'
<1>1. (Filling' <=> Filling) /\ self \in Binary /\ Target(self) \in Binary
  BY TargetType DEF PushNode, Filling, Target, saved, IInv, TypeOK
<1>2. CASE ~Filling
  <2>1. cache'[Host] = cache[Host]
    BY <1>1, <1>2 DEF PushNode, Filling, IInv, TypeOK
  <2> QED BY <1>1, <1>2, <2>1, CacheKept
<1>3. CASE Filling
  <2>1. PICK k \in 0 .. Len(HostChain) :
          /\ cache[Host] = SubSeq(HostChain, 1, k)
          /\ cur = IF k = Len(HostChain) THEN Null ELSE HostChain[k + 1]
    BY <1>3 DEF CacheOK, CacheGrows
  <2>2. k \in Nat /\ k + 1 <= Len(HostChain) /\ cur = HostChain[k + 1]
    BY <2>1, HostChainFacts DEF PushNode
  <2>3. Cardinality(Node) \in Nat
    BY BinariesAssumption, FS_CardinalityType
  <2>4. Len(cache[Host]) = k
    BY <2>1, <2>2, HostChainFacts, PrefixGrows
  <2>5. k < CacheBound
    BY <2>2, <2>3, HostChainFacts DEF CacheBound
  <2>6. cache'[Host] = Append(cache[Host], cur) /\ cur' = next[cur]
    BY <1>3, <2>4, <2>5 DEF PushNode, Filling, IInv, TypeOK, Binary
  <2>7. Append(SubSeq(HostChain, 1, k), HostChain[k + 1]) = SubSeq(HostChain, 1, k + 1)
    BY <2>2, HostChainFacts, PrefixGrows
  <2>8. k + 1 \in 1 .. Len(HostChain) /\ k + 1 \in 0 .. Len(HostChain)
    BY <2>2, HostChainFacts
  <2>9. cur' = IF k + 1 = Len(HostChain) THEN Null ELSE HostChain[(k + 1) + 1]
    BY <2>2, <2>6, <2>8 DEF PathOK, IsPath
  <2> QED BY <1>1, <1>3, <2>1, <2>2, <2>6, <2>7, <2>8, <2>9 DEF CacheOK, CacheGrows
<1> QED BY <1>2, <1>3

(* A refresh that ends has pushed the whole chain.                         *)
LEMMA EndRefreshCache ==
  ASSUME IInv, PathOK, CacheOK, EndRefresh, HostChain' = HostChain
  PROVE  CacheOK'
<1>1. ~Filling' /\ cache' = cache
  BY DEF EndRefresh, Filling, Refreshing
<1>2. CASE ~Filling
  BY <1>1, <1>2, CacheKept
<1>3. CASE Filling
  <2>1. PICK k \in 0 .. Len(HostChain) :
          /\ cache[Host] = SubSeq(HostChain, 1, k)
          /\ cur = IF k = Len(HostChain) THEN Null ELSE HostChain[k + 1]
    BY <1>3 DEF CacheOK, CacheGrows
  <2>2. k = Len(HostChain)
    <3>1. k # Len(HostChain) => HostChain[k + 1] \in Node
      BY HostChainFacts
    <3> QED BY <2>1, <3>1, BinariesAssumption DEF EndRefresh
  <2>3. cache'[Host] = SubSeq(HostChain', 0 + 1, Len(HostChain'))
    BY <1>1, <2>1, <2>2
  <2>4. 0 \in 0 .. Len(HostChain') /\ \A i \in 1 .. 0 : HostChain'[i] \in HostNodes
    BY HostChainFacts
  <2> QED BY <1>1, <2>3, <2>4 DEF CacheOK, CacheLags
<1> QED BY <1>2, <1>3

(* A host node constructed between refreshes is missing in the cache.      *)
LEMMA ConstructCache ==
  ASSUME IInv, PathOK, CacheOK, NEW n \in HostNodes, Construct(n),
         HostChain' = <<n>> \o HostChain
  PROVE  CacheOK'
<1>1. ~Filling /\ ~Filling' /\ cache' = cache
  BY DEF Construct, Filling, Refreshing
<1>2. PICK k \in 0 .. Len(HostChain) :
        /\ cache[Host] = SubSeq(HostChain, k + 1, Len(HostChain))
        /\ \A i \in 1 .. k : HostChain[i] \in HostNodes
  BY <1>1 DEF CacheOK, CacheLags
<1>3. n \in Node /\ HostChain \in Seq(Node) /\ Len(HostChain) \in Nat
  BY ChainsAssumption, HostChainFacts
<1>4. /\ Len(HostChain') = Len(HostChain) + 1 /\ HostChain'[1] = n
      /\ \A i \in 1 .. Len(HostChain) : HostChain'[i + 1] = HostChain[i]
  BY <1>3, PrependFacts
<1>5. cache'[Host] = SubSeq(HostChain', (k + 1) + 1, Len(HostChain'))
  <2>1. k \in 0 .. Len(HostChain) /\ (k + 1) + 1 = k + 2
    OBVIOUS
  <2>2. SubSeq(<<n>> \o HostChain, k + 2, Len(HostChain) + 1)
          = SubSeq(HostChain, k + 1, Len(HostChain))
    BY <1>3, <2>1, TailShift
  <2> QED BY <1>1, <1>2, <1>4, <2>1, <2>2
<1>6. ASSUME NEW i \in 1 .. k + 1 PROVE HostChain'[i] \in HostNodes
  <2>1. CASE i = 1
    BY <1>4, <2>1
  <2>2. CASE i # 1
    <3>1. i - 1 \in 1 .. k /\ i - 1 \in 1 .. Len(HostChain) /\ (i - 1) + 1 = i
      BY <1>3, <2>2
    <3> QED BY <1>2, <1>4, <3>1
  <2> QED BY <2>1, <2>2
<1>7. k + 1 \in 0 .. Len(HostChain')
  BY <1>3, <1>4
<1> QED BY <1>1, <1>5, <1>6, <1>7 DEF CacheOK, CacheLags

-----------------------------------------------------------------------------
(* Every step, and what it is to the registry.                             *)

(* A step that writes no pointer of the chain and nothing of the cache.    *)
LEMMA StillStep ==
  ASSUME IInv, IInv', PathOK, CacheOK, Still, cache'[Host] = cache[Host],
         Filling' <=> Filling, Filling => cur' = cur
  PROVE  PathOK' /\ CacheOK' /\ HostChain' = HostChain
<1>1. PathOK' /\ HostChain' = HostChain
  BY ChainKept DEF Still
<1> QED BY <1>1, CacheKept

(* A segment taken out in one piece is what the registry calls Detach.     *)
LEMMA DetachStep ==
  ASSUME IInv, PathOK, NEW p \in Plugins, LocalChain[p] # << >>,
         NEW k \in Nat, At(p, k),
         HostChain' = Without(HostChain, k, Len(LocalChain[p]))
  PROVE  Registry!Detach(p)
<1> DEFINE s == LocalChain[p]
           w == HostChain
<1>1. s \in Seq(Node) /\ Len(s) \in Nat \ {0} /\ w \in Seq(Node) /\ Len(w) \in Nat
  BY ChainFacts, HostChainFacts
<1>2. k + Len(s) <= Len(w) /\ \A i \in 1 .. Len(s) : w[k + i] = s[i]
  BY DEF At
<1>3. HostChain' = SubSeq(w, 1, k) \o SubSeq(w, k + Len(s) + 1, Len(w))
  BY DEF Without
<1> HIDE DEF s, w
<1>4. SubSeq(w, k + 1, k + Len(s) + 1 - 1) = s
  <2>1. k + Len(s) + 1 - 1 = k + Len(s)
    BY <1>1
  <2>2. SubSeq(w, k + 1, k + Len(s)) = [i \in 1 .. Len(s) |-> w[i + k]]
    BY <1>1, <1>2
  <2>3. s = [i \in 1 .. Len(s) |-> s[i]]
    BY <1>1
  <2>4. \A i \in 1 .. Len(s) : w[i + k] = s[i]
    BY <1>1, <1>2
  <2> QED BY <2>1, <2>2, <2>3, <2>4
<1>5. k \in 0 .. Len(w) - Len(s)
  BY <1>1, <1>2
<1> DEFINE Taken(i) ==
             /\ SubSeq(w, i + 1, (i + Len(s) + 1) - 1) = s
             /\ HostChain' = SubSeq(w, 1, i) \o SubSeq(w, i + Len(s) + 1, Len(w))
<1>6. Taken(k)
  BY <1>3, <1>4, SMTT(30)
<1> HIDE DEF Taken
<1>7. \E i \in 0 .. Len(w) - Len(s) : Taken(i)
  BY <1>5, <1>6
<1> QED BY <1>7 DEF Registry!Detach, Taken, s, w

(* Every step keeps the path and the cache, and is a step of the registry  *)
(* or leaves the walk as it is.                                            *)
LEMMA WalkStep ==
  ASSUME IInv, IInv', PathOK, CacheOK, [Next]_vars
  PROVE  PathOK' /\ CacheOK' /\ [Registry!Next]_HostChain
<1> USE DEF saved
<1>1. ASSUME NEW n \in HostNodes, Construct(n)
      PROVE  PathOK' /\ CacheOK' /\ Registry!Next
  <2>1. PathOK' /\ HostChain' = <<n>> \o HostChain
    BY <1>1, ConstructPath
  <2>2. CacheOK'
    BY <1>1, <2>1, ConstructCache
  <2>3. n \notin Range(HostChain)
    <3>1. n \in Block /\ n \notin Blocks /\ n \in NodesIn(n)
      BY <1>1, ChainsAssumption DEF Construct, Block, Blocks, NodesIn
    <3> QED BY <3>1, OutsideChain DEF PathOK
  <2> QED BY <2>1, <2>2, <2>3 DEF Registry!Next, Registry!Construct, Registry!Range, Range
<1>2. ASSUME NEW p \in Plugins, Map(p)
      PROVE  PathOK' /\ CacheOK' /\ HostChain' = HostChain
  <2>1. Still
    BY <1>2, MapStill
  <2>2. cache' = cache /\ ~Filling /\ ~Filling'
    BY <1>2 DEF Map, Filling, Refreshing
  <2> QED BY <2>1, <2>2, StillStep
<1>3. ASSUME NEW p \in Plugins, Unmap(p)
      PROVE  PathOK' /\ CacheOK' /\ HostChain' = HostChain
  <2>1. Still
    BY <1>3, UnmapStill
  <2>2. cache'[Host] = cache[Host] /\ ~Filling /\ ~Filling'
    BY <1>3, BinariesAssumption DEF Unmap, Filling, Refreshing, IInv, TypeOK, Binary
  <2> QED BY <2>1, <2>2, StillStep
<1>4. ASSUME NEW b \in Binary, Refresh(b)
      PROVE  PathOK' /\ CacheOK' /\ HostChain' = HostChain
  <2>1. PathOK' /\ HostChain' = HostChain
    BY <1>4, WalkersStill, ChainKept DEF Still
  <2>2. StartRefresh(b, "refresh", head) /\ UNCHANGED <<head, linked>> /\ pc = "idle"
    BY <1>4 DEF Refresh
  <2>3. CASE Target(b) = Host
    BY <2>1, <2>2, <2>3, RefreshStarts DEF Refreshing
  <2>4. CASE Target(b) # Host
    <3>1. ~Filling /\ ~Filling'
      BY <2>2, <2>4 DEF StartRefresh, Filling, Refreshing, Target
    <3>2. cache'[Host] = cache[Host]
      BY <2>2, <2>4, TargetType DEF StartRefresh, IInv, TypeOK, Binary
    <3> QED BY <2>1, <3>1, <3>2, CacheKept
  <2> QED BY <2>1, <2>3, <2>4
<1>5. ASSUME NEW p \in Plugins, NEW found \in BOOLEAN, Bootstrap(p, found)
      PROVE  PathOK' /\ CacheOK' /\ HostChain' = HostChain
  <2>1. Still
    BY <1>5, WalkersStill
  <2>2. cache' = cache /\ ~Filling /\ ~Filling'
    BY <1>5 DEF Bootstrap, Filling, Refreshing
  <2> QED BY <2>1, <2>2, StillStep
<1>6. ASSUME NEW p \in Plugins, Shutdown(p)
      PROVE  PathOK' /\ CacheOK' /\ (HostChain' = HostChain \/ Registry!Next)
  <2>1. /\ p \in mapped /\ pc = "idle" /\ self = Host /\ self' = p
        /\ p \in Binary /\ p # Host
        /\ UNCHANGED <<built, mapped, linked, savedTail>>
    BY <1>6, BinariesAssumption DEF Shutdown, StartRefresh, Binary, IInv, CallKnows
  <2>2. CASE head[p] # Null /\ linked[p] /\ head[Host] = head[p]
    <3>1. /\ Attached(p) /\ At(p, 0)
          /\ PathOK' /\ HostChain' = Without(HostChain, 0, Len(LocalChain[p]))
      BY <1>6, <2>2, ShutdownPath
    <3>2. LocalChain[p] # << >>
      BY <3>1, AttachedSegment
    <3>3. Registry!Detach(p)
      BY <3>1, <3>2, DetachStep
    <3>4. StartRefresh(p, "unloadHook", head') /\ Target(p) = Host
      BY <1>6, <2>1, <2>2 DEF Shutdown, Target
    <3>5. CacheOK'
      BY <2>1, <3>1, <3>4, RefreshStarts DEF Refreshing
    <3> QED BY <3>1, <3>3, <3>5 DEF Registry!Next
  <2>3. CASE head[p] = Null \/ ~linked[p] \/ head[Host] # head[p]
    <3>1. PICK order \in Orders : Lists(order)
      BY DEF IInv
    <3>2. savedTail[p] = Null \/ pc' = "pred"
      <4>1. ASSUME head[p] = Null \/ ~linked[p] PROVE savedTail[p] = Null
        <5>1. LocalChain[p] # << >> => LocalChain[p][1] # Null
          BY ChainFacts, BinariesAssumption
        <5> QED BY <2>1, <4>1, <5>1 DEF IInv, PluginKnows
      <4>2. ASSUME head[p] # Null, linked[p], head[Host] = Null
            PROVE  savedTail[p] = Null
        BY <2>1, <3>1, <4>2, ShutdownSees
      <4> QED BY <1>6, <2>3, <4>1, <4>2 DEF Shutdown
    <3>3. next' = next /\ head' = head
      BY <1>6, <2>3, <3>2 DEF Shutdown, StartRefresh, CutTail
    <3>4. \A q \in Plugins : Attached(q)' <=> Attached(q)
      BY <2>1, <3>2 DEF Attached
    <3>5. Still
      BY <2>1, <3>3, <3>4, BlocksKept DEF Still
    <3>6. PathOK' /\ HostChain' = HostChain
      BY <3>5, ChainKept DEF Still
    <3>7. CASE pc' # "unloadHook"
      <4>1. cache' = cache /\ ~Filling /\ ~Filling'
        BY <1>6, <2>1, <3>7 DEF Shutdown, StartRefresh, Filling, Refreshing
      <4> QED BY <3>6, <4>1, CacheKept
    <3>8. CASE pc' = "unloadHook"
      <4>1. StartRefresh(p, "unloadHook", head) /\ Target(p) = Host
        BY <1>6, <2>1, <2>3, <3>8 DEF Shutdown, Target
      <4> QED BY <2>1, <3>3, <3>6, <4>1, RefreshStarts DEF Refreshing
    <3> QED BY <3>6, <3>7, <3>8
  <2> QED BY <2>2, <2>3
<1>7. CASE PushNode
  <2>1. PathOK' /\ HostChain' = HostChain
    BY <1>7, WalkersStill, ChainKept DEF Still
  <2> QED BY <1>7, <2>1, PushNodeCache
<1>8. CASE EndRefresh
  <2>1. PathOK' /\ HostChain' = HostChain
    BY <1>8, WalkersStill, ChainKept DEF Still
  <2> QED BY <1>8, <2>1, EndRefreshCache
<1>9. CASE WalkToTail \/ WalkToPredecessor
  <2>1. Still
    BY <1>9, WalkersStill
  <2>2. cache' = cache /\ ~Filling /\ ~Filling'
    BY <1>9 DEF WalkToTail, WalkToPredecessor, Filling, Refreshing
  <2> QED BY <2>1, <2>2, StillStep
<1>10. CASE LinkSegment
  <2>1. /\ PathOK' /\ HostChain' = LocalChain[self] \o HostChain
        /\ self \in Plugins /\ linked[self]
        /\ Range(LocalChain[self]) \cap Range(HostChain) = {}
    BY <1>10, LinkPath
  <2>2. /\ StartRefresh(self, "loadHook", head') /\ linked' = linked
        /\ self \in Binary /\ Target(self) = Host
    BY <1>10, <2>1, BinariesAssumption DEF LinkSegment, Target, Binary
  <2>3. CacheOK'
    BY <2>1, <2>2, RefreshStarts DEF Refreshing
  <2>4. Registry!Attach(self)
    BY <2>1 DEF Registry!Attach, Registry!NodesOf, Registry!Range, Range
  <2> QED BY <2>1, <2>3, <2>4 DEF Registry!Next
<1>11. CASE CutSegment
  <2>1. /\ StartRefresh(self, "unloadHook", head) /\ linked' = linked /\ head' = head
        /\ self \in Plugins /\ self \in Binary /\ Target(self) = Host
        /\ pc = "pred" /\ pc' = "unloadHook" /\ self' = self
        /\ UNCHANGED <<built, mapped, savedTail>>
    BY <1>11, BinariesAssumption
       DEF CutSegment, StartRefresh, Target, Binary, IInv, CallKnows, TypeOK, Steps
  <2>2. CASE cur # Null
    <3>1. /\ Attached(self) /\ PathOK'
          /\ \E k \in Nat :
               At(self, k) /\ HostChain' = Without(HostChain, k, Len(LocalChain[self]))
      BY <1>11, <2>2, CutPath
    <3>2. LocalChain[self] # << >>
      BY <2>1, <3>1, AttachedSegment
    <3>3. Registry!Detach(self)
      BY <2>1, <3>1, <3>2, DetachStep
    <3>4. CacheOK'
      BY <2>1, <3>1, RefreshStarts DEF Refreshing
    <3> QED BY <2>1, <3>1, <3>3, <3>4 DEF Registry!Next
  <2>3. CASE cur = Null
    <3>1. PICK order \in Orders : Lists(order) /\ NotPassed(order)
      BY DEF IInv
    <3>2. savedTail[self] = Null
      <4>1. \A i \in 1 .. Len(order) : Null \notin NodesIn(order[i])
        BY <3>1, OrderFacts, EndsInBlock, BinariesAssumption DEF IInv
      <4> QED BY <2>1, <2>3, <3>1, <4>1 DEF NotPassed
    <3>3. next' = next
      BY <1>11, <2>3, <3>2 DEF CutSegment, CutTail
    <3>4. \A q \in Plugins : Attached(q)' <=> Attached(q)
      BY <2>1, <3>2 DEF Attached
    <3>5. Still
      BY <2>1, <3>3, <3>4, BlocksKept DEF Still
    <3>6. PathOK' /\ HostChain' = HostChain
      BY <3>5, ChainKept DEF Still
    <3>7. CacheOK'
      BY <2>1, <3>6, RefreshStarts DEF Refreshing
    <3> QED BY <3>6, <3>7
  <2> QED BY <2>2, <2>3
<1>12. CASE ClosePortal
  <2>1. Still
    BY <1>12, ClosePortalStill
  <2>2. cache' = cache /\ ~Filling /\ ~Filling'
    BY <1>12 DEF ClosePortal, Filling, Refreshing
  <2> QED BY <2>1, <2>2, StillStep
<1>13. CASE UNCHANGED vars
  <2>1. Still
    BY <1>13, WalkersStill
  <2>2. cache' = cache /\ (Filling' <=> Filling) /\ cur' = cur
    BY <1>13 DEF vars, Filling, Target
  <2> QED BY <2>1, <2>2, StillStep
<1> QED BY <1>1, <1>2, <1>3, <1>4, <1>5, <1>6, <1>7, <1>8, <1>9, <1>10, <1>11,
           <1>12, <1>13 DEF Next, Step

(* The first walk meets no node.                                           *)
LEMMA InitWalk == Init => PathOK /\ CacheOK /\ HostChain = << >>
<1> SUFFICES ASSUME Init PROVE PathOK /\ CacheOK /\ HostChain = << >>
  OBVIOUS
<1>1. next \in [Node -> NodeOrNull] /\ head[Host] = Null
  BY DEF Init, NodeOrNull, Binary
<1>2. << >> \in Seq(Node) /\ Len(<< >>) = 0
  OBVIOUS
<1>3. IsPath(<< >>, Node, next, head[Host])
  BY <1>1, <1>2 DEF IsPath
<1>4. HostChain = << >>
  BY <1>1, <1>3, WalkOfPath DEF HostChain
<1>5. Range(HostChain) = {} /\ ChainNodes = {}
  BY <1>4 DEF Range, ChainNodes, Blocks, Attached, Init
<1>6. cache[Host] = << >> /\ ~Filling
  BY DEF Init, Binary, Filling, Refreshing
<1>7. SubSeq(HostChain, 0 + 1, Len(HostChain)) = << >> /\ 0 \in 0 .. Len(HostChain)
  BY <1>4, <1>2
<1>8. CacheLags
  BY <1>4, <1>6, <1>7 DEF CacheLags
<1> QED BY <1>3, <1>4, <1>5, <1>6, <1>8 DEF PathOK, CacheOK

(* WalkInv in the terms of the lemmas.                                     *)
LEMMA WalkInvParts == WalkInv <=> PathOK /\ CacheOK
BY DEF WalkInv, PathOK, CacheOK, ChainNodes, Filling

(***************************************************************************)
(* The host's walk goes once through every node of the attached segments   *)
(* and of the host and ends, and its cache is what is left of the chain    *)
(* when the host nodes constructed since are taken away, or grows towards  *)
(* it (Visit and RefreshCache, whatever plugins come and go between).      *)
(***************************************************************************)
THEOREM WalkInvariant == Spec => []WalkInv
<1>1. Init => WalkInv
  BY InitWalk, WalkInvParts
<1>2. IInv /\ IInv' /\ WalkInv /\ [Next]_vars => WalkInv'
  <2>1. WalkInv' <=> PathOK' /\ CacheOK'
    BY DEF WalkInv, PathOK, CacheOK, ChainNodes, Filling
  <2> QED BY <2>1, WalkInvParts, WalkStep
<1> QED BY <1>1, <1>2, InvariantHolds, PTL DEF Spec

(***************************************************************************)
(* No walk of the host, over the pointers or over the cache, meets a node  *)
(* of an image that is not mapped (dlclose after CRG_Shutdown).            *)
(***************************************************************************)
THEOREM NeverDangling == Spec => []NoDangling
<1>1. ASSUME IInv, WalkInv PROVE NoDangling
  <2>1. PathOK /\ CacheOK
    BY <1>1, WalkInvParts
  <2>2. ChainNodes \subseteq Alive
    BY <1>1, ChainsAssumption DEF ChainNodes, Blocks, Attached, NodesIn, Alive, IInv, TypeOK
  <2>3. /\ HostChain \in Seq(Node) /\ Len(HostChain) \in Nat
        /\ \A i \in 1 .. Len(HostChain) : HostChain[i] \in Alive
    BY <1>1, <2>1, <2>2, HostChainFacts
  <2>4. Range(HostChain) \subseteq Alive
    BY <2>1, <2>2 DEF PathOK
  <2>5. PICK i \in 1 .. Len(HostChain) + 1, j \in 0 .. Len(HostChain) :
          cache[Host] = SubSeq(HostChain, i, j)
    <3>1. CASE CacheGrows
      <4>1. 1 \in 1 .. Len(HostChain) + 1
        BY <2>3
      <4> QED BY <3>1, <4>1 DEF CacheGrows
    <3>2. CASE CacheLags
      <4>1. PICK k \in 0 .. Len(HostChain) :
              cache[Host] = SubSeq(HostChain, k + 1, Len(HostChain))
        BY <3>2 DEF CacheLags
      <4>2. k + 1 \in 1 .. Len(HostChain) + 1 /\ Len(HostChain) \in 0 .. Len(HostChain)
        BY <2>3
      <4> QED BY <4>1, <4>2
    <3> QED BY <2>1, <3>1, <3>2 DEF CacheOK
  <2>6. cache[Host] \in Seq(Alive)
    <3>1. HostChain \in Seq(Alive)
      BY <2>3
    <3> QED BY <2>3, <2>5, <3>1
  <2>7. Range(cache[Host]) \subseteq Alive
    BY <2>6 DEF Range
  <2> QED BY <2>4, <2>7 DEF NoDangling, HostChain
<1> QED BY <1>1, InvariantHolds, WalkInvariant, PTL

(***************************************************************************)
(* Between calls the host's cache lists the chain, but for host nodes      *)
(* constructed since it was filled: every load and unload leaves its       *)
(* refresh in the host's storage (plugin_chain_synchronizer.hpp:30-39).    *)
(***************************************************************************)
THEOREM AlwaysCurrent == Spec => []CacheCurrent
<1>1. WalkInv => CacheCurrent
  BY DEF WalkInv, CacheCurrent, CacheLags, HostChain, Refreshing
<1> QED BY <1>1, WalkInvariant, PTL

(***************************************************************************)
(* The splicer implements the registry: what the host's walk goes through  *)
(* changes only by a host node put in front, by the whole segment of one   *)
(* plugin put in front, and by one whole segment taken out of its place,   *)
(* each in one step; every other step of a load, an unload or a refresh    *)
(* leaves it as it is.                                                     *)
(***************************************************************************)
THEOREM Implements == Spec => ImplementsRegistry
<1>1. Init => Registry!Init
  BY InitWalk DEF Registry!Init
<1>2. IInv /\ IInv' /\ WalkInv /\ [Next]_vars => [Registry!Next]_HostChain
  BY WalkInvParts, WalkStep
<1> QED BY <1>1, <1>2, InvariantHolds, WalkInvariant, PTL
        DEF Spec, ImplementsRegistry, Registry!Spec
=============================================================================
