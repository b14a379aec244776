-------------------------- MODULE DenseIndexProofs --------------------------
(***************************************************************************)
(* Proofs about DenseIndexStore, for any models, binaries, chains and      *)
(* reading threads.  The heart is DirectoriesGrow: whatever happens, the   *)
(* directory of a mapped image only grows at its end.                      *)
(***************************************************************************)
EXTENDS DenseIndexStore, TLAPS

(* t holds s's hashes in s's slots.                                        *)
Extends(s, t) ==
  /\ Len(s) <= Len(t)
  /\ \A i \in DOMAIN s : t[i] = s[i]

LEMMA ExtendsHashes ==
  ASSUME NEW s \in Seq(Hash), NEW t \in Seq(Hash), Extends(s, t)
  PROVE  Range(s) \subseteq Range(t)
BY DEF Extends, Range

LEMMA ExtendsSelf ==
  ASSUME NEW s \in Seq(Hash)
  PROVE  Extends(s, s)
BY DEF Extends

LEMMA AppendExtends ==
  ASSUME NEW s \in Seq(Hash), NEW e \in Hash
  PROVE  /\ Append(s, e) \in Seq(Hash)
         /\ Extends(s, Append(s, e))
         /\ e \in Range(Append(s, e))
BY DEF Extends, Range

LEMMA StoreIsBinary ==
  ASSUME TypeOK, NEW b \in Binary
  PROVE  Store(b) \in Binary /\ Store(Host) = Host
BY DEF TypeOK, Store, Binary

(* No look-up makes a step; the buffer of one may become stale.            *)
FindsRest ==
  \A r \in Readers :
    /\ reader'[r].at = reader[r].at /\ reader'[r].hash = reader[r].hash
    /\ reader'[r].i = reader[r].i /\ reader'[r].size = reader[r].size
    /\ reader[r].stale => reader'[r].stale

(* What look-ups know survives the growth of the host's directory.         *)
LEMMA GrowthKeepsFinds ==
  ASSUME TypeOK, TypeOK', FindKnows, FindRight,
         Extends(entries[Host], entries'[Host]), FindsRest
  PROVE  FindKnows' /\ FindRight'
<1>1. Host \in Binary
  BY DEF Binary
<1>2. Len(entries[Host]) \in Nat /\ DOMAIN entries[Host] = 1 .. Len(entries[Host])
  BY <1>1 DEF TypeOK
<1>3. Len(entries[Host]) <= Len(entries'[Host]) /\ Len(entries'[Host]) \in Nat
  BY <1>1 DEF Extends, TypeOK
<1>4. ASSUME NEW r \in Readers
      PROVE  /\ reader[r].i \in Nat /\ reader[r].size \in Nat
             /\ reader[r].stale \in BOOLEAN /\ reader'[r].stale \in BOOLEAN
             /\ ~reader'[r].stale => ~reader[r].stale
  BY <1>4 DEF FindsRest, TypeOK
<1>5. ASSUME NEW r \in Readers, reader[r].at # "none", NEW j \in 1 .. reader[r].size
      PROVE  entries'[Host][j] = entries[Host][j]
  <2>1. j \in 1 .. Len(entries[Host])
    BY <1>5, <1>4, <1>2 DEF FindKnows
  <2>2. QED BY <2>1, <1>2 DEF Extends
<1>6. FindKnows'
  <2> SUFFICES ASSUME NEW r \in Readers, reader'[r].at # "none"
               PROVE  /\ reader'[r].i >= 1
                      /\ reader'[r].size <= Len(entries'[Host])
                      /\ reader'[r].at = "hit" => reader'[r].i <= reader'[r].size
                      /\ reader'[r].at = "miss" => reader'[r].i > reader'[r].size
                      /\ ~reader'[r].stale => \A j \in 1 .. reader'[r].size :
                           j < reader'[r].i => entries'[Host][j] # reader'[r].hash
    BY DEF FindKnows
  <2>1. reader'[r].size <= Len(entries'[Host])
    BY <1>4, <1>2, <1>3 DEF FindKnows, FindsRest
  <2>2. ~reader'[r].stale => \A j \in 1 .. reader'[r].size :
          j < reader'[r].i => entries'[Host][j] # reader'[r].hash
    BY <1>4, <1>5 DEF FindKnows, FindsRest
  <2>3. QED BY <2>1, <2>2 DEF FindKnows, FindsRest
<1>7. FindRight'
  <2> SUFFICES ASSUME NEW r \in Readers, ~reader'[r].stale
               PROVE  /\ reader'[r].at = "hit" =>
                           entries'[Host][reader'[r].i] = reader'[r].hash
                      /\ reader'[r].at = "miss" => \A i \in 1 .. reader'[r].size :
                           entries'[Host][i] # reader'[r].hash
    BY DEF FindRight
  <2>1. ASSUME reader'[r].at = "hit"
        PROVE  entries'[Host][reader'[r].i] = reader'[r].hash
    <3>1. reader[r].at = "hit" /\ reader[r].i \in 1 .. reader[r].size
      BY <2>1, <1>4 DEF FindsRest, FindKnows
    <3>2. entries[Host][reader[r].i] = reader[r].hash
      BY <3>1, <1>4 DEF FindRight
    <3>3. entries'[Host][reader[r].i] = entries[Host][reader[r].i]
      BY <3>1, <1>5
    <3>4. QED BY <3>2, <3>3 DEF FindsRest
  <2>2. ASSUME reader'[r].at = "miss", NEW i \in 1 .. reader'[r].size
        PROVE  entries'[Host][i] # reader'[r].hash
    <3>1. reader[r].at = "miss" /\ i \in 1 .. reader[r].size /\ ~reader[r].stale
      BY <2>2, <1>4 DEF FindsRest
    <3>2. entries[Host][i] # reader[r].hash
      BY <3>1 DEF FindRight
    <3>3. entries'[Host][i] = entries[Host][i]
      BY <3>1, <1>5
    <3>4. QED BY <3>2, <3>3 DEF FindsRest
  <2>3. QED BY <2>1, <2>2
<1>8. QED BY <1>6, <1>7

(* A directory the look-ups and the call know keeps what they know.        *)
LEMMA GrowthKeepsModels ==
  ASSUME TypeOK, TypeOK', NEW b \in Binary,
         Extends(entries[Store(b)], entries'[Store(b)]), remote'[b] = remote[b]
  PROVE  Range(entries[Store(b)]) \subseteq Range(entries'[Store(b)'])
<1>1. Store(b)' = Store(b) /\ Store(b) \in Binary
  BY StoreIsBinary DEF Store
<1>2. entries[Store(b)] \in Seq(Hash) /\ entries'[Store(b)] \in Seq(Hash)
  BY <1>1 DEF TypeOK
<1>3. QED BY <1>1, <1>2, ExtendsHashes

LEMMA GrowthKeepsResolvable ==
  ASSUME TypeOK, TypeOK', DeclaredResolvable,
         \A b \in Binary : Extends(entries[b], entries'[b]),
         \A b \in Binary : Settled(b)' => Settled(b) /\ remote'[b] = remote[b]
  PROVE  DeclaredResolvable'
<1> SUFFICES ASSUME NEW b \in Binary, Settled(b)'
             PROVE  Range(Declared[b]) \subseteq Range(entries'[Store(b)'])
  BY DEF DeclaredResolvable
<1>1. Range(Declared[b]) \subseteq Range(entries[Store(b)])
  BY DEF DeclaredResolvable
<1>2. QED BY <1>1, StoreIsBinary, GrowthKeepsModels

LEMMA SameExtends ==
  ASSUME TypeOK, UNCHANGED entries
  PROVE  \A b \in Binary : Extends(entries[b], entries'[b])
BY ExtendsSelf DEF TypeOK

LEMMA SameFinds == ASSUME UNCHANGED reader PROVE FindsRest
BY DEF FindsRest

-----------------------------------------------------------------------------
(* One lemma per action: the type invariant.                               *)

LEMMA RegisterType ==
  ASSUME TypeOK, NEW b \in Binary, NEW h \in Hash, Register(b, h)
  PROVE  TypeOK' /\ chain'[b] = <<h>> \o chain[b]
<1>1. <<h>> \o chain[b] \in Seq(Hash) /\ chain'[b] = <<h>> \o chain[b]
  BY DEF TypeOK, Register
<1>2. chain' \in [Binary -> Seq(Hash)]
  BY <1>1 DEF TypeOK, Register
<1>3. QED BY <1>1, <1>2 DEF TypeOK, Register, called

(* dlclose takes the plugin's own directory away, and no other.            *)
LEMMA UnmapEntries ==
  ASSUME TypeOK, NEW p \in Plugins, Unmap(p)
  PROVE  /\ entries' \in [Binary -> Seq(Hash)]
         /\ entries'[p] = << >>
         /\ \A b \in Binary \ {p} : Extends(entries[b], entries'[b])
         /\ \A b \in Binary \ {p} : Len(entries'[b]) = Len(entries[b])
<1>1. p \in Binary /\ << >> \in Seq(Hash)
  BY DEF Binary
<1>2. entries \in [Binary -> Seq(Hash)] /\ entries' = [entries EXCEPT ![p] = << >>]
  BY DEF TypeOK, Unmap
<1>3. \A b \in Binary \ {p} : entries'[b] = entries[b]
  BY <1>2
<1>4. QED BY <1>1, <1>2, <1>3, ExtendsSelf

LEMMA UnmapType ==
  ASSUME TypeOK, NEW p \in Plugins, Unmap(p)
  PROVE  TypeOK'
<1>1. p \in Binary /\ p # Host
  BY IndexAssumption DEF Binary
<1>2. Declared[p] \in Seq(Hash)
  BY <1>1, IndexAssumption
<1>3. chain' \in [Binary -> Seq(Hash)]
  BY <1>1, <1>2 DEF TypeOK, Unmap
<1>4. remote' \in [Binary -> BOOLEAN] /\ ~remote'[Host] /\ booted' \in [Binary -> BOOLEAN]
  BY <1>1 DEF TypeOK, Unmap
<1>5. phase' \in [Plugins -> {"unmapped", "mapped", "attached", "detached"}]
  BY DEF TypeOK, Unmap
<1>6. QED BY <1>3, <1>4, <1>5, UnmapEntries DEF TypeOK, Unmap, called

LEMMA VisitFacts ==
  ASSUME TypeOK, Visiting
  PROVE  /\ caller \in Binary /\ Store(caller) \in Binary
         /\ pos \in 1 .. Len(chain[caller])
         /\ Node \in Hash
<1>1. caller \in Binary
  BY DEF Visiting, TypeOK
<1>2. chain[caller] \in Seq(Hash) /\ Len(chain[caller]) \in Nat
  BY <1>1 DEF TypeOK
<1>3. pos \in 1 .. Len(chain[caller])
  BY <1>2 DEF Visiting, TypeOK
<1>4. QED BY <1>1, <1>2, <1>3, StoreIsBinary DEF Node

(* push_back adds the node's hash behind the others.                       *)
LEMMA AppendEntries ==
  ASSUME TypeOK, AppendNew
  PROVE  /\ entries' \in [Binary -> Seq(Hash)]
         /\ \A b \in Binary : Extends(entries[b], entries'[b])
         /\ \A b \in Binary \ {Store(caller)} : entries'[b] = entries[b]
         /\ entries'[Store(caller)] =
              Append(entries[Store(caller)], Node)
         /\ Node \in Range(entries'[Store(caller)])
<1> DEFINE e == Node
           t == Store(caller)
<1>1. caller \in Binary /\ t \in Binary /\ e \in Hash /\ Visiting
  BY VisitFacts DEF AppendNew
<1>2. entries' = [entries EXCEPT ![t] = Append(entries[t], e)] /\ e = Node
  BY DEF AppendNew
<1>3. entries \in [Binary -> Seq(Hash)]
  BY DEF TypeOK
<1> HIDE DEF e, t
<1>4. /\ Append(entries[t], e) \in Seq(Hash)
      /\ Extends(entries[t], Append(entries[t], e))
      /\ e \in Range(Append(entries[t], e))
  BY <1>1, <1>3, AppendExtends
<1>5. entries'[t] = Append(entries[t], e) /\ \A b \in Binary \ {t} : entries'[b] = entries[b]
  BY <1>1, <1>2, <1>3
<1>6. \A b \in Binary : Extends(entries[b], entries'[b])
  BY <1>3, <1>4, <1>5, ExtendsSelf
<1>7. entries' \in [Binary -> Seq(Hash)]
  BY <1>2, <1>3, <1>4
<1>8. QED BY <1>2, <1>4, <1>5, <1>6, <1>7 DEF e, t

LEMMA MovedType ==
  ASSUME TypeOK, NEW t \in Binary, NEW moves \in BOOLEAN
  PROVE  /\ Moved(t, moves) \in [Readers ->
              [at : {"none", "scan", "hit", "miss"}, hash : Hash \cup {Null},
               i : Nat, size : Nat, stale : BOOLEAN]]
         /\ reader' = Moved(t, moves) => FindsRest
<1> DEFINE F == [at : {"none", "scan", "hit", "miss"}, hash : Hash \cup {Null},
                 i : Nat, size : Nat, stale : BOOLEAN]
<1>1. ASSUME NEW r \in Readers
      PROVE  /\ Moved(t, moves)[r] \in F
             /\ Moved(t, moves)[r].at = reader[r].at
             /\ Moved(t, moves)[r].hash = reader[r].hash
             /\ Moved(t, moves)[r].i = reader[r].i
             /\ Moved(t, moves)[r].size = reader[r].size
             /\ reader[r].stale => Moved(t, moves)[r].stale
  <2>1. reader[r] \in F
    BY DEF TypeOK
  <2>2. CASE Moved(t, moves)[r] = [reader[r] EXCEPT !.stale = TRUE]
    BY <2>1, <2>2
  <2>3. CASE Moved(t, moves)[r] = reader[r]
    BY <2>1, <2>3
  <2>4. QED BY <2>2, <2>3 DEF Moved
<1>2. Moved(t, moves) = [r \in Readers |-> Moved(t, moves)[r]]
  BY DEF Moved
<1>3. Moved(t, moves) \in [Readers -> F]
  BY <1>1, <1>2
<1>4. QED BY <1>1, <1>3 DEF FindsRest

LEMMA AppendType ==
  ASSUME TypeOK, AppendNew
  PROVE  TypeOK' /\ FindsRest
<1>1. Store(caller) \in Binary /\ pos + 1 \in Nat \ {0}
  <2>1. Visiting /\ pos \in Nat \ {0}
    BY DEF AppendNew, TypeOK
  <2>2. QED BY <2>1, VisitFacts
<1>2. PICK moves \in BOOLEAN : reader' = Moved(Store(caller), moves)
  BY DEF AppendNew
<1>3. entries' \in [Binary -> Seq(Hash)]
  BY AppendEntries
<1>4. FindsRest /\ reader' \in [Readers ->
              [at : {"none", "scan", "hit", "miss"}, hash : Hash \cup {Null},
               i : Nat, size : Nat, stale : BOOLEAN]]
  BY <1>1, <1>2, MovedType
<1>5. UNCHANGED <<phase, chain, remote, booted, caller, boots>> /\ pos' = pos + 1
  BY DEF AppendNew
<1>6. QED BY <1>1, <1>3, <1>4, <1>5 DEF TypeOK

LEMMA FindType ==
  ASSUME TypeOK, NEW r \in Readers,
         Compare(r) \/ \E h \in Hash : StartFind(r, h)
  PROVE  TypeOK'
<1> DEFINE F == [at : {"none", "scan", "hit", "miss"}, hash : Hash \cup {Null},
                 i : Nat, size : Nat, stale : BOOLEAN]
<1>1. reader \in [Readers -> F] /\ reader[r] \in F
  BY DEF TypeOK
<1>2. reader' \in [Readers -> F]
  <2>1. CASE Compare(r)
    <3>1. PICK f \in F : reader' = [reader EXCEPT ![r] = f]
      <4>1. [reader[r] EXCEPT !.at = "miss"] \in F /\ [reader[r] EXCEPT !.at = "hit"] \in F
            /\ [reader[r] EXCEPT !.i = @ + 1] \in F
        BY <1>1
      <4>2. QED BY <2>1, <4>1, <1>1 DEF Compare
    <3>2. QED BY <3>1, <1>1
  <2>2. CASE \E h \in Hash : StartFind(r, h)
    <3>1. Len(entries[Host]) \in Nat
      BY DEF TypeOK, Binary
    <3>2. PICK h \in Hash : StartFind(r, h)
      BY <2>2
    <3>3. QED BY <3>1, <3>2, <1>1 DEF StartFind
  <2>3. QED BY <2>1, <2>2
<1>3. UNCHANGED <<phase, chain, entries, remote, booted, caller, pos, boots>>
  BY DEF Compare, StartFind, called
<1>4. QED BY <1>2, <1>3 DEF TypeOK

LEMMA EnterType ==
  ASSUME NEW b \in Binary, NEW first \in BOOLEAN, Enter(b, first)
  PROVE  caller' \in Binary /\ pos' \in Nat \ {0} /\ boots' \in BOOLEAN
<1>1. caller' = b /\ pos' = 1
  BY DEF Enter
<1>2. boots' \in BOOLEAN
  BY Zenon DEF Enter
<1>3. QED BY <1>1, <1>2

LEMMA TypeStep == TypeOK /\ [Next]_vars => TypeOK'
<1> SUFFICES ASSUME TypeOK, [Next]_vars PROVE TypeOK'
  OBVIOUS
<1>1. CASE UNCHANGED vars
  BY <1>1 DEF vars, called, TypeOK
<1>2. ASSUME NEW b \in Binary, NEW h \in Hash, Register(b, h) PROVE TypeOK'
  BY <1>2, RegisterType
<1>3. ASSUME NEW p \in Plugins, Map(p) PROVE TypeOK'
  BY <1>3 DEF TypeOK, Map, called
<1>4. ASSUME NEW p \in Plugins, Unmap(p) PROVE TypeOK'
  BY <1>4, UnmapType
<1>5. ASSUME NEW p \in Plugins, Bootstrap(p) PROVE TypeOK'
  <2>1. p \in Binary /\ p # Host
    BY <1>5, IndexAssumption DEF Binary
  <2>2. remote' \in [Binary -> BOOLEAN] /\ ~remote'[Host]
    BY <1>5, <2>1 DEF TypeOK, Bootstrap
  <2>3. phase' \in [Plugins -> {"unmapped", "mapped", "attached", "detached"}]
    BY <1>5 DEF TypeOK, Bootstrap
  <2>4. UNCHANGED <<chain, entries, booted, reader>>
    BY <1>5 DEF Bootstrap, Enter
  <2>5. caller' \in Binary /\ pos' \in Nat \ {0} /\ boots' \in BOOLEAN
    BY <1>5, <2>1, EnterType DEF Bootstrap
  <2>6. QED BY <2>2, <2>3, <2>4, <2>5 DEF TypeOK
<1>6. ASSUME NEW p \in Plugins, Shutdown(p) PROVE TypeOK'
  <2>1. p \in Binary
    BY <1>6 DEF Binary
  <2>2. phase' \in [Plugins -> {"unmapped", "mapped", "attached", "detached"}]
    BY <1>6 DEF TypeOK, Shutdown
  <2>3. UNCHANGED <<chain, entries, remote, booted, reader>>
    BY <1>6 DEF Shutdown, Enter
  <2>4. caller' \in Binary /\ pos' \in Nat \ {0} /\ boots' \in BOOLEAN
    BY <1>6, <2>1, EnterType DEF Shutdown
  <2>5. QED BY <2>1, <2>2, <2>3, <2>4 DEF TypeOK
<1>7. ASSUME NEW b \in Binary, NEW first \in BOOLEAN, Refresh(b, first) PROVE TypeOK'
  <2>1. UNCHANGED <<phase, chain, entries, remote, booted, reader>>
    BY <1>7 DEF Refresh, Enter
  <2>2. caller' \in Binary /\ pos' \in Nat \ {0} /\ boots' \in BOOLEAN
    BY <1>7, EnterType DEF Refresh
  <2>3. QED BY <1>7, <2>1, <2>2 DEF TypeOK
<1>8. CASE SkipKnown
  <2>1. UNCHANGED <<phase, chain, entries, remote, booted, caller, boots, reader>>
    BY <1>8 DEF SkipKnown
  <2>2. pos' \in Nat \ {0}
    BY <1>8 DEF SkipKnown, TypeOK
  <2>3. QED BY <2>1, <2>2 DEF TypeOK
<1>9. CASE AppendNew
  BY <1>9, AppendType
<1>10. CASE Return
  <2>1. UNCHANGED <<phase, chain, entries, remote, reader>>
    BY <1>10 DEF Return
  <2>2. caller' = Null /\ pos' \in Nat \ {0}
    BY <1>10 DEF Return
  <2>4. boots' \in BOOLEAN
    BY <1>10, Zenon DEF Return
  <2>3. booted' \in [Binary -> BOOLEAN]
    BY <1>10 DEF Return, TypeOK
  <2>5. QED BY <2>1, <2>2, <2>3, <2>4 DEF TypeOK
<1>11. ASSUME NEW r \in Readers, Compare(r) \/ \E h \in Hash : StartFind(r, h)
       PROVE TypeOK'
  BY <1>11, FindType
<1>12. QED BY <1>1, <1>2, <1>3, <1>4, <1>5, <1>6, <1>7, <1>8, <1>9, <1>10, <1>11
  DEF Next, Step

-----------------------------------------------------------------------------
(* One lemma per invariant: what each action does to it.                   *)

(* Only dlclose and push_back change a directory.                          *)
LEMMA EntriesChange ==
  ASSUME TypeOK, [Next]_vars
  PROVE  \/ UNCHANGED entries
         \/ \E p \in Plugins : Unmap(p)
         \/ AppendNew
<1>1. CASE UNCHANGED vars
  BY <1>1 DEF vars
<1>2. ASSUME NEW b \in Binary, NEW h \in Hash, Register(b, h) PROVE UNCHANGED entries
  BY <1>2 DEF Register
<1>3. ASSUME NEW p \in Plugins, Map(p) \/ Bootstrap(p) \/ Shutdown(p) PROVE UNCHANGED entries
  BY <1>3 DEF Map, Bootstrap, Shutdown, Enter
<1>4. ASSUME NEW b \in Binary, NEW first \in BOOLEAN, Refresh(b, first) PROVE UNCHANGED entries
  BY <1>4 DEF Refresh, Enter
<1>5. CASE SkipKnown \/ Return
  BY <1>5 DEF SkipKnown, Return
<1>6. ASSUME NEW r \in Readers, Compare(r) \/ \E h \in Hash : StartFind(r, h)
      PROVE  UNCHANGED entries
  BY <1>6 DEF Compare, StartFind
<1>7. QED BY <1>1, <1>2, <1>3, <1>4, <1>5, <1>6 DEF Next, Step

LEMMA UniqueStep == TypeOK /\ OneSlotPerModel /\ [Next]_vars => OneSlotPerModel'
<1> SUFFICES ASSUME TypeOK, OneSlotPerModel, [Next]_vars PROVE OneSlotPerModel'
  OBVIOUS
<1>1. CASE UNCHANGED entries
  BY <1>1 DEF OneSlotPerModel
<1>2. ASSUME NEW p \in Plugins, Unmap(p) PROVE OneSlotPerModel'
  <2> SUFFICES ASSUME NEW b \in Binary, NEW i \in DOMAIN entries'[b], NEW j \in DOMAIN entries'[b],
                      entries'[b][i] = entries'[b][j]
               PROVE  i = j
    BY DEF OneSlotPerModel
  <2>1. b # p
    BY <1>2, UnmapEntries
  <2>2. entries[b] \in Seq(Hash) /\ entries'[b] \in Seq(Hash)
    BY <1>2, UnmapEntries DEF TypeOK
  <2>3. Extends(entries[b], entries'[b]) /\ Len(entries'[b]) = Len(entries[b])
    BY <1>2, <2>1, UnmapEntries
  <2>4. i \in DOMAIN entries[b] /\ j \in DOMAIN entries[b]
    BY <2>2, <2>3
  <2>5. entries[b][i] = entries[b][j]
    BY <2>3, <2>4 DEF Extends
  <2>6. QED BY <2>4, <2>5 DEF OneSlotPerModel
<1>3. CASE AppendNew
  <2> DEFINE t == Store(caller)
             e == Node
  <2>1. t \in Binary /\ e \in Hash /\ ~Known(entries[t], Node)
    BY <1>3, VisitFacts DEF AppendNew
  <2>2. entries[t] \in Seq(Hash) /\ e \notin Range(entries[t])
    BY <2>1 DEF TypeOK, Known
  <2>3. entries'[t] = Append(entries[t], e)
        /\ \A b \in Binary \ {t} : entries'[b] = entries[b]
    BY <1>3, AppendEntries
  <2> HIDE DEF t, e
  <2>4. \A i \in DOMAIN entries[t] : entries[t][i] # e
    BY <2>2 DEF Range
  <2>5. ASSUME NEW i \in DOMAIN entries'[t], NEW j \in DOMAIN entries'[t],
               entries'[t][i] = entries'[t][j]
        PROVE  i = j
    BY <2>1, <2>2, <2>3, <2>4, <2>5 DEF OneSlotPerModel
  <2>6. QED BY <2>3, <2>5 DEF OneSlotPerModel
<1>4. QED BY <1>1, <1>2, <1>3, EntriesChange

(* The directory of a mapped image only grows at its end.                  *)
LEMMA DirectoriesGrow ==
  ASSUME TypeOK, [Next]_vars, NEW b \in Binary,
         ~(b \in Plugins /\ phase'[b] = "unmapped")
  PROVE  Extends(entries[b], entries'[b])
<1>1. ASSUME NEW p \in Plugins, Unmap(p) PROVE b # p
  BY <1>1 DEF Unmap, TypeOK
<1>2. QED BY <1>1, EntriesChange, UnmapEntries, AppendEntries, SameExtends

(* A declared node never leaves the chain of a mapped image.               *)
LEMMA ChainStep == TypeOK /\ DeclaredOnChain /\ [Next]_vars => DeclaredOnChain'
<1> SUFFICES ASSUME TypeOK, DeclaredOnChain, [Next]_vars PROVE DeclaredOnChain'
  OBVIOUS
<1>1. CASE UNCHANGED chain
  BY <1>1 DEF DeclaredOnChain
<1>2. ASSUME NEW b \in Binary, NEW h \in Hash, Register(b, h) PROVE DeclaredOnChain'
  <2>1. chain'[b] = <<h>> \o chain[b] /\ chain[b] \in Seq(Hash)
    BY <1>2, RegisterType DEF TypeOK
  <2>2. Range(chain[b]) \subseteq Range(chain'[b])
    <3> SUFFICES ASSUME NEW i \in DOMAIN chain[b] PROVE chain[b][i] \in Range(chain'[b])
      BY DEF Range
    <3>1. i + 1 \in DOMAIN chain'[b] /\ chain'[b][i + 1] = chain[b][i]
      BY <2>1
    <3>2. QED BY <3>1 DEF Range
  <2>3. \A d \in Binary \ {b} : chain'[d] = chain[d]
    BY <1>2 DEF Register, TypeOK
  <2>4. QED BY <2>2, <2>3 DEF DeclaredOnChain
<1>3. ASSUME NEW p \in Plugins, Unmap(p) PROVE DeclaredOnChain'
  <2>1. p \in Binary /\ chain' = [chain EXCEPT ![p] = Declared[p]]
    BY <1>3 DEF Unmap, Binary
  <2>2. chain'[p] = Declared[p] /\ \A d \in Binary \ {p} : chain'[d] = chain[d]
    BY <2>1 DEF TypeOK
  <2>3. QED BY <2>2 DEF DeclaredOnChain
<1>4. UNCHANGED chain \/ (\E b \in Binary, h \in Hash : Register(b, h)) \/ \E p \in Plugins : Unmap(p)
  <2>1. Step \/ UNCHANGED vars => UNCHANGED chain
    BY DEF Step, SkipKnown, AppendNew, Return, vars
  <2>2. (\E r \in Readers : Compare(r) \/ \E h \in Hash : StartFind(r, h)) => UNCHANGED chain
    BY DEF Compare, StartFind
  <2>3. (\E b \in Binary, first \in BOOLEAN : Refresh(b, first)) => UNCHANGED chain
    BY DEF Refresh
  <2>4. ASSUME NEW p \in Plugins
        PROVE  Map(p) \/ Bootstrap(p) \/ Shutdown(p) => UNCHANGED chain
    BY DEF Map, Bootstrap, Shutdown
  <2> QED BY <2>1, <2>2, <2>3, <2>4 DEF Next
<1>5. QED BY <1>1, <1>2, <1>3, <1>4

(* Between calls, and when one begins, there is nothing behind the walk.   *)
LEMMA FreshCallKnows ==
  ASSUME TypeOK', caller' = Null \/ pos' = 1
  PROVE  CallKnows'
<1> SUFFICES ASSUME caller' # Null, pos' = 1
             PROVE  /\ pos' <= Len(chain'[caller']) + 1
                    /\ \A i \in 1 .. (pos' - 1) :
                         chain'[caller'][i] \in Range(entries'[Store(caller)'])
  BY DEF CallKnows
<1>1. Len(chain'[caller']) \in Nat
  BY DEF TypeOK
<1>2. QED BY <1>1

LEMMA CallStep == TypeOK /\ CallKnows /\ [Next]_vars => CallKnows'
<1> SUFFICES ASSUME TypeOK, CallKnows, [Next]_vars PROVE CallKnows'
  OBVIOUS
<1>0. TypeOK'
  BY TypeStep
<1>1. CASE caller' = Null \/ pos' = 1
  BY <1>0, <1>1, FreshCallKnows
<1>2. CASE UNCHANGED <<chain, entries, remote, caller, pos>>
  BY <1>2 DEF CallKnows, Store
<1>3. CASE SkipKnown \/ AppendNew
  <2> DEFINE t == Store(caller)
  <2>1. Visiting
    BY <1>3 DEF SkipKnown, AppendNew
  <2>2. caller \in Binary /\ t \in Binary /\ pos \in 1 .. Len(chain[caller])
    BY <2>1, VisitFacts
  <2>3. UNCHANGED <<chain, caller, remote>> /\ pos' = pos + 1
    BY <1>3 DEF SkipKnown, AppendNew
  <2>4. Range(entries[t]) \subseteq Range(entries'[t])
    <3>1. Extends(entries[t], entries'[t])
      <4>1. CASE SkipKnown
        BY <4>1, <2>2, SameExtends DEF SkipKnown
      <4>2. CASE AppendNew
        BY <4>2, <2>2, AppendEntries
      <4>3. QED BY <1>3, <4>1, <4>2
    <3>2. entries[t] \in Seq(Hash) /\ entries'[t] \in Seq(Hash)
      BY <1>0, <2>2 DEF TypeOK
    <3>3. QED BY <3>1, <3>2, ExtendsHashes
  <2>5. chain[caller][pos] \in Range(entries'[t])
    <3>1. CASE SkipKnown
      BY <3>1, <2>4 DEF SkipKnown, Known, Node
    <3>2. CASE AppendNew
      BY <3>2, AppendEntries DEF Node
    <3>3. QED BY <1>3, <3>1, <3>2
  <2>6. t = Store(caller)'
    BY <2>3 DEF Store
  <2>7. \A i \in 1 .. (pos - 1) : chain[caller][i] \in Range(entries[t])
    BY <2>1 DEF CallKnows, Visiting
  <2>8. Len(chain[caller]) \in Nat
    BY <2>2 DEF TypeOK
  <2> HIDE DEF t
  <2>9. ASSUME NEW i \in 1 .. pos PROVE chain[caller][i] \in Range(entries'[t])
    <3>1. CASE i = pos
      BY <3>1, <2>5
    <3>2. CASE i # pos
      BY <3>2, <2>2, <2>4, <2>7
    <3>3. QED BY <3>1, <3>2
  <2>10. QED BY <2>2, <2>3, <2>6, <2>8, <2>9 DEF CallKnows
<1>5. ASSUME NEW p \in Plugins, Map(p) \/ Unmap(p)
      PROVE  caller' = Null
  BY <1>5 DEF Map, Unmap, called
<1>6. ASSUME NEW b \in Binary, NEW h \in Hash, Register(b, h) PROVE caller' = Null
  BY <1>6 DEF Register, called
<1>7. ASSUME NEW p \in Plugins, Bootstrap(p) \/ Shutdown(p) PROVE pos' = 1
  BY <1>7 DEF Bootstrap, Shutdown, Enter
<1>8. ASSUME NEW b \in Binary, NEW first \in BOOLEAN, Refresh(b, first) PROVE pos' = 1
  BY <1>8 DEF Refresh, Enter
<1>9. CASE Return
  BY <1>9, <1>1 DEF Return
<1>10. ASSUME NEW r \in Readers, Compare(r) \/ \E h \in Hash : StartFind(r, h)
       PROVE  UNCHANGED <<chain, entries, remote, caller, pos>>
  BY <1>10 DEF Compare, StartFind, called
<1>11. CASE UNCHANGED vars
  BY <1>11, <1>2 DEF vars, called
<1>12. QED BY <1>1, <1>2, <1>3, <1>5, <1>6, <1>7, <1>8, <1>9, <1>10, <1>11 DEF Next, Step

(* A binary becomes settled when its Refresh returns, and only then.       *)
LEMMA SettledBefore ==
  ASSUME TypeOK, [Next]_vars, ~Return, NEW b \in Binary, Settled(b)'
  PROVE  Settled(b) /\ remote'[b] = remote[b]
         /\ \A p \in Plugins : Unmap(p) => b # p
<1>1. CASE UNCHANGED <<phase, booted, caller, remote>>
  <2>1. Settled(b)
    BY <1>1, Zenon DEF Settled
  <2>2. ASSUME NEW p \in Plugins, Unmap(p) PROVE FALSE
    BY <1>1, <2>2 DEF Unmap, TypeOK
  <2>3. QED BY <1>1, <2>1, <2>2
<1>2. ASSUME NEW p \in Plugins, Map(p)
      PROVE  Settled(b) /\ UNCHANGED remote /\ UNCHANGED entries
  <2>1. UNCHANGED <<booted, remote, entries, caller>>
    BY <1>2 DEF Map, called
  <2>2. b \in Plugins => phase'[b] = phase[b] \/ phase'[b] = "mapped"
    BY <1>2 DEF Map, TypeOK
  <2>3. booted[b] \/ (b \in Plugins /\ phase'[b] \in {"attached", "detached"})
    BY <2>1, Zenon DEF Settled
  <2>4. booted[b] \/ (b \in Plugins /\ phase[b] \in {"attached", "detached"})
    BY <2>2, <2>3
  <2>5. QED BY <2>1, <2>4 DEF Settled
<1>3. ASSUME NEW p \in Plugins, Unmap(p)
      PROVE  b # p /\ Settled(b) /\ remote'[b] = remote[b]
  <2>1. booted' = [booted EXCEPT ![p] = FALSE] /\ phase' = [phase EXCEPT ![p] = "unmapped"]
        /\ remote' = [remote EXCEPT ![p] = FALSE] /\ UNCHANGED caller
    BY <1>3 DEF Unmap, called
  <2>2. p \in Binary
    BY <1>3 DEF Binary
  <2>3. ~booted'[p] /\ phase'[p] = "unmapped"
    BY <2>1, <2>2 DEF TypeOK
  <2>4. b # p
    BY <2>3 DEF Settled
  <2>5. booted'[b] = booted[b] /\ remote'[b] = remote[b] /\ (b \in Plugins => phase'[b] = phase[b])
    BY <2>1, <2>4 DEF TypeOK
  <2>6. QED BY <2>1, <2>4, <2>5 DEF Settled
<1>4. ASSUME NEW p \in Plugins, Bootstrap(p) PROVE Settled(b) /\ remote'[b] = remote[b]
  <2>1. caller' = p /\ caller = Null
        /\ UNCHANGED booted /\ phase' = [phase EXCEPT ![p] = "attached"]
        /\ remote' = [remote EXCEPT ![p] = {p, Host} \subseteq Partitioned]
    BY <1>4 DEF Bootstrap, Enter
  <2>2. b # p
    BY <2>1 DEF Settled
  <2>3. remote'[b] = remote[b] /\ (b \in Plugins => phase'[b] = phase[b])
    BY <2>1, <2>2 DEF TypeOK
  <2>4. QED BY <2>1, <2>3, IndexAssumption DEF Settled
<1>5. ASSUME NEW p \in Plugins, Shutdown(p)
      PROVE  Settled(b) /\ UNCHANGED remote
  <2>1. caller' = p /\ caller = Null
        /\ UNCHANGED <<remote, booted>> /\ phase' = [phase EXCEPT ![p] = "detached"]
    BY <1>5 DEF Shutdown, Enter
  <2>2. b # p
    BY <2>1 DEF Settled
  <2>3. b \in Plugins => phase'[b] = phase[b]
    BY <2>1, <2>2 DEF TypeOK
  <2>4. QED BY <2>1, <2>3, IndexAssumption DEF Settled
<1>6. ASSUME NEW d \in Binary, NEW first \in BOOLEAN, Refresh(d, first)
      PROVE  Settled(b) /\ UNCHANGED remote
  <2>1. caller = Null /\ UNCHANGED <<phase, booted, remote>>
    BY <1>6 DEF Refresh, Enter
  <2>2. booted[b] \/ (b \in Plugins /\ phase[b] \in {"attached", "detached"})
    BY <2>1, Zenon DEF Settled
  <2>3. QED BY <2>1, <2>2, IndexAssumption DEF Settled
<1>7. CASE SkipKnown \/ AppendNew
  <2>1. UNCHANGED <<phase, booted, caller, remote>>
    BY <1>7 DEF SkipKnown, AppendNew
  <2>2. QED BY <1>1, <2>1
<1>8. ASSUME NEW r \in Readers, Compare(r) \/ \E h \in Hash : StartFind(r, h)
      PROVE  UNCHANGED <<phase, booted, caller, remote>>
  BY <1>8 DEF Compare, StartFind, called
<1>9. ASSUME NEW d \in Binary, NEW h \in Hash, Register(d, h)
      PROVE  UNCHANGED <<phase, booted, caller, remote>>
  BY <1>9 DEF Register, called
<1>10. CASE UNCHANGED vars
  BY <1>1, <1>10 DEF vars, called
<1>11. ASSUME NEW p \in Plugins, Map(p) \/ Bootstrap(p) \/ Shutdown(p)
       PROVE  \A d \in Plugins : ~Unmap(d)
  <2>1. CASE Map(p)
    BY <2>1 DEF Map, Unmap, TypeOK
  <2>2. CASE Bootstrap(p) \/ Shutdown(p)
    <3>1. caller' # caller
      BY <2>2, IndexAssumption DEF Bootstrap, Shutdown, Enter, Binary
    <3>2. QED BY <3>1 DEF Unmap, called
  <2>3. QED BY <1>11, <2>1, <2>2
<1>12. ASSUME NEW d \in Binary, NEW first \in BOOLEAN, Refresh(d, first)
       PROVE  \A e \in Plugins : ~Unmap(e)
  <2>1. caller' # caller
    BY <1>12, IndexAssumption DEF Refresh, Enter
  <2>2. QED BY <2>1 DEF Unmap, called
<1>13. QED BY <1>1, <1>2, <1>3, <1>4, <1>5, <1>6, <1>7, <1>8, <1>9, <1>10, <1>11, <1>12
  DEF Next, Step

LEMMA ResolvableStep ==
  TypeOK /\ CallKnows /\ DeclaredOnChain /\ DeclaredResolvable /\ [Next]_vars
    => DeclaredResolvable'
<1> SUFFICES ASSUME TypeOK, CallKnows, DeclaredOnChain, DeclaredResolvable, [Next]_vars
             PROVE  DeclaredResolvable'
  OBVIOUS
<1>0. TypeOK'
  BY TypeStep
<1> SUFFICES ASSUME NEW b \in Binary, Settled(b)'
             PROVE  Range(Declared[b]) \subseteq Range(entries'[Store(b)'])
  BY DEF DeclaredResolvable
<1>1. CASE Return
  <2>1. UNCHANGED <<phase, chain, entries, remote>> /\ caller \in Binary /\ ~Visiting
        /\ booted' = [booted EXCEPT ![caller] = @ \/ boots]
    BY <1>1 DEF Return, TypeOK
  <2>2. Store(b)' = Store(b)
    BY <2>1 DEF Store
  <2>3. CASE b = caller
    <3>1. chain[b] \in Seq(Hash) /\ pos \in Nat /\ Len(chain[b]) \in Nat
      BY DEF TypeOK
    <3>2. pos = Len(chain[b]) + 1
      BY <2>1, <2>3, <3>1, IndexAssumption DEF CallKnows, Visiting
    <3>3. \A i \in 1 .. Len(chain[b]) : chain[b][i] \in Range(entries[Store(b)])
      BY <2>3, <3>1, <3>2, IndexAssumption DEF CallKnows
    <3>4. Range(chain[b]) \subseteq Range(entries[Store(b)])
      BY <3>1, <3>3 DEF Range
    <3>5. QED BY <2>1, <2>2, <3>4 DEF DeclaredOnChain
  <2>4. CASE b # caller
    <3>1. booted'[b] = booted[b]
      BY <2>1, <2>4 DEF TypeOK
    <3>2. Settled(b)
      BY <2>1, <2>4, <3>1, Zenon DEF Settled
    <3>3. QED BY <2>1, <2>2, <3>2 DEF DeclaredResolvable
  <2>5. QED BY <2>3, <2>4
<1>2. CASE ~Return
  <2>1. Settled(b) /\ remote'[b] = remote[b] /\ \A p \in Plugins : Unmap(p) => b # p
    BY <1>2, SettledBefore
  <2>2. ASSUME NEW p \in Plugins, Unmap(p) PROVE Store(b) # p
    BY <2>1, <2>2, IndexAssumption DEF Store
  <2>3. Extends(entries[Store(b)], entries'[Store(b)])
    <3>1. Store(b) \in Binary
      BY StoreIsBinary
    <3>2. QED BY <2>2, <3>1, EntriesChange, UnmapEntries, AppendEntries, SameExtends
  <2>4. Range(entries[Store(b)]) \subseteq Range(entries'[Store(b)'])
    BY <1>0, <2>1, <2>3, GrowthKeepsModels
  <2>5. QED BY <2>1, <2>4 DEF DeclaredResolvable
<1>3. QED BY <1>1, <1>2

LEMMA FindStep ==
  ASSUME TypeOK, FindKnows, FindRight, NEW r \in Readers,
         Compare(r) \/ \E h \in Hash : StartFind(r, h)
  PROVE  FindKnows' /\ FindRight'
<1>1. TypeOK' /\ UNCHANGED entries
  <2>1. UNCHANGED entries
    BY DEF Compare, StartFind
  <2>2. QED BY <2>1, FindType
<1>2. \A q \in Readers \ {r} : reader'[q] = reader[q]
  BY DEF Compare, StartFind, TypeOK
<1>3. /\ reader[r].i \in Nat /\ reader[r].size \in Nat
      /\ Host \in Binary /\ Len(entries[Host]) \in Nat
  BY DEF TypeOK, Binary
<1> DEFINE g == reader'[r]
<1>4. /\ g.at # "none"
      /\ g.i >= 1 /\ g.size <= Len(entries[Host])
      /\ g.at = "hit" => g.i <= g.size
      /\ g.at = "miss" => g.i > g.size
      /\ ~g.stale => \A j \in 1 .. g.size : j < g.i => entries[Host][j] # g.hash
      /\ ~g.stale /\ g.at = "hit" => entries[Host][g.i] = g.hash
  <2>1. ASSUME NEW h \in Hash, StartFind(r, h)
        PROVE  /\ g.at = "scan" /\ g.i = 1 /\ g.size = Len(entries[Host])
    BY <2>1 DEF StartFind, TypeOK
  <2>2. ASSUME Compare(r)
        PROVE  /\ reader[r].at = "scan"
               /\ g.hash = reader[r].hash /\ g.size = reader[r].size
               /\ g.stale = reader[r].stale
               /\ \/ g.at = "miss" /\ g.i = reader[r].i /\ g.i > g.size
                  \/ /\ g.at = "hit" /\ g.i = reader[r].i /\ g.i <= g.size
                     /\ g.stale \/ entries[Host][g.i] = g.hash
                  \/ /\ g.at = "scan" /\ g.i = reader[r].i + 1 /\ reader[r].i <= g.size
                     /\ g.stale \/ entries[Host][reader[r].i] # g.hash
    <3>1. reader[r].at = "scan"
      BY <2>2 DEF Compare
    <3>2. CASE reader[r].i > reader[r].size /\ g = [reader[r] EXCEPT !.at = "miss"]
      BY <3>1, <3>2 DEF TypeOK
    <3>3. CASE /\ reader[r].i <= reader[r].size /\ g = [reader[r] EXCEPT !.at = "hit"]
               /\ reader[r].stale \/ entries[Host][reader[r].i] = reader[r].hash
      BY <3>1, <3>3 DEF TypeOK
    <3>4. CASE /\ reader[r].i <= reader[r].size /\ g = [reader[r] EXCEPT !.i = @ + 1]
               /\ reader[r].stale \/ entries[Host][reader[r].i] # reader[r].hash
      BY <3>1, <3>4 DEF TypeOK
    <3>5. QED BY <2>2, <3>2, <3>3, <3>4 DEF Compare, TypeOK
  <2>3. CASE \E h \in Hash : StartFind(r, h)
    BY <2>1, <2>3, <1>3
  <2>4. CASE Compare(r)
    <3>1. /\ reader[r].i >= 1 /\ reader[r].size <= Len(entries[Host])
          /\ ~reader[r].stale => \A j \in 1 .. reader[r].size :
               j < reader[r].i => entries[Host][j] # reader[r].hash
      BY <2>2, <2>4 DEF FindKnows
    <3> HIDE DEF g
    <3>2. ASSUME ~g.stale, NEW j \in 1 .. g.size, j < g.i
          PROVE  entries[Host][j] # g.hash
      <4>1. CASE j < reader[r].i
        BY <2>2, <2>4, <3>1, <3>2, <4>1
      <4>2. CASE ~(j < reader[r].i)
        <5>1. g.i = reader[r].i + 1 /\ j = reader[r].i
          BY <2>2, <2>4, <3>2, <4>2, <1>3
        <5>2. g.at = "scan"
          BY <2>2, <2>4, <5>1, <1>3
        <5>3. QED BY <2>2, <2>4, <3>2, <5>1, <5>2
      <4>3. QED BY <4>1, <4>2
    <3>3. g.i >= 1 /\ g.size <= Len(entries[Host]) /\ g.at # "none"
      BY <2>2, <2>4, <3>1, <1>3
    <3>4. /\ g.at = "hit" => g.i <= g.size
          /\ g.at = "miss" => g.i > g.size
          /\ ~g.stale /\ g.at = "hit" => entries[Host][g.i] = g.hash
      BY <2>2, <2>4
    <3>5. QED BY <3>2, <3>3, <3>4
  <2>5. QED BY <2>3, <2>4
<1>5. ~g.stale /\ g.at = "miss" => \A i \in 1 .. g.size : entries[Host][i] # g.hash
  <2>1. g.i \in Nat /\ g.size \in Nat
    BY <1>1 DEF TypeOK
  <2> HIDE DEF g
  <2>2. QED BY <1>4, <2>1
<1>6. FindKnows'
  BY <1>1, <1>2, <1>4 DEF FindKnows
<1>7. FindRight'
  BY <1>1, <1>2, <1>4, <1>5 DEF FindRight
<1>8. QED BY <1>6, <1>7

LEMMA LookupStep == TypeOK /\ FindKnows /\ FindRight /\ [Next]_vars => FindKnows' /\ FindRight'
<1> SUFFICES ASSUME TypeOK, FindKnows, FindRight, [Next]_vars
             PROVE  FindKnows' /\ FindRight'
  OBVIOUS
<1>0. TypeOK'
  BY TypeStep
<1>1. ASSUME NEW r \in Readers, Compare(r) \/ \E h \in Hash : StartFind(r, h)
      PROVE  FindKnows' /\ FindRight'
  BY <1>1, FindStep
<1>2. CASE \A r \in Readers : ~(Compare(r) \/ \E h \in Hash : StartFind(r, h))
  <2>1. Extends(entries[Host], entries'[Host])
    <3>1. Host \in Binary /\ ~(Host \in Plugins)
      BY IndexAssumption DEF Binary
    <3>2. QED BY <3>1, DirectoriesGrow
  <2>2. FindsRest
    <3>1. CASE AppendNew
      BY <3>1, AppendType
    <3>2. CASE ~AppendNew
      <4>1. UNCHANGED reader
        <5>1. CASE UNCHANGED vars
          BY <5>1 DEF vars
        <5>2. ASSUME NEW b \in Binary, NEW h \in Hash, Register(b, h) PROVE UNCHANGED reader
          BY <5>2 DEF Register
        <5>3. ASSUME NEW p \in Plugins, Map(p) \/ Unmap(p) \/ Bootstrap(p) \/ Shutdown(p)
              PROVE  UNCHANGED reader
          BY <5>3 DEF Map, Unmap, Bootstrap, Shutdown
        <5>4. ASSUME NEW b \in Binary, NEW first \in BOOLEAN, Refresh(b, first)
              PROVE  UNCHANGED reader
          BY <5>4 DEF Refresh
        <5>5. CASE SkipKnown \/ Return
          BY <5>5 DEF SkipKnown, Return
        <5>6. QED BY <1>2, <3>2, <5>1, <5>2, <5>3, <5>4, <5>5 DEF Next, Step
      <4>2. QED BY <4>1, SameFinds
    <3>3. QED BY <3>1, <3>2
  <2>3. QED BY <1>0, <2>1, <2>2, GrowthKeepsFinds
<1>3. QED BY <1>1, <1>2

LEMMA InitInv == Init => IInv
<1> SUFFICES ASSUME Init PROVE IInv
  OBVIOUS
<1>1. TypeOK
  <2>1. << >> \in Seq(Hash)
    OBVIOUS
  <2>2. NoFind \in [at : {"none", "scan", "hit", "miss"}, hash : Hash \cup {Null},
                    i : Nat, size : Nat, stale : BOOLEAN]
    BY DEF NoFind
  <2>3. Host \in Binary
    BY DEF Binary
  <2>4. chain \in [Binary -> Seq(Hash)] /\ remote \in [Binary -> BOOLEAN] /\ ~remote[Host]
        /\ booted \in [Binary -> BOOLEAN]
    BY <2>3, IndexAssumption DEF Init
  <2>5. entries \in [Binary -> Seq(Hash)]
    BY <2>1 DEF Init
  <2>6. reader \in [Readers -> [at : {"none", "scan", "hit", "miss"},
          hash : Hash \cup {Null}, i : Nat, size : Nat, stale : BOOLEAN]]
    BY <2>2 DEF Init
  <2>7. boots \in BOOLEAN
    BY Zenon DEF Init
  <2>8. phase \in [Plugins -> {"unmapped", "mapped", "attached", "detached"}]
    BY DEF Init
  <2>9. caller = Null /\ pos \in Nat \ {0}
    BY DEF Init
  <2>10. QED BY <2>4, <2>5, <2>6, <2>7, <2>8, <2>9 DEF TypeOK
<1>2. OneSlotPerModel
  BY DEF Init, OneSlotPerModel
<1>3. DeclaredResolvable
  BY DEF Init, DeclaredResolvable, Settled
<1>4. FindRight /\ FindKnows
  BY DEF Init, FindRight, FindKnows, NoFind
<1>5. CallKnows
  BY DEF Init, CallKnows
<1>6. DeclaredOnChain
  BY DEF Init, DeclaredOnChain
<1>7. QED BY <1>1, <1>2, <1>3, <1>4, <1>5, <1>6 DEF IInv

LEMMA StepInv == IInv /\ [Next]_vars => IInv'
<1> SUFFICES ASSUME IInv, [Next]_vars PROVE IInv'
  OBVIOUS
<1>1. /\ TypeOK /\ OneSlotPerModel /\ DeclaredResolvable /\ FindRight
      /\ CallKnows /\ FindKnows /\ DeclaredOnChain
  BY DEF IInv
<1>2. TypeOK' /\ OneSlotPerModel'
  BY <1>1, TypeStep, UniqueStep
<1>3. CallKnows' /\ DeclaredOnChain' /\ DeclaredResolvable'
  BY <1>1, CallStep, ChainStep, ResolvableStep
<1>4. FindKnows' /\ FindRight'
  BY <1>1, LookupStep
<1>5. QED BY <1>2, <1>3, <1>4 DEF IInv

LEMMA StepKeepsSlots == IInv /\ [Next]_vars => [\A b \in Binary : SlotsKept(b)]_vars
<1> SUFFICES ASSUME IInv, [Next]_vars, NEW b \in Binary PROVE SlotsKept(b)
  BY DEF SlotsStable
<1>1. TypeOK
  BY DEF IInv
<1>2. QED BY <1>1, DirectoriesGrow DEF SlotsKept, Extends

-----------------------------------------------------------------------------
(* The inductive invariant holds of every behaviour of DenseIndexState's   *)
(* Refresh and Find, whatever the plugins do.                              *)
THEOREM InvariantHolds == Spec => []IInv
  BY InitInv, StepInv, PTL DEF Spec

(* Every variable stays within its type; Refresh never leaves the chain.   *)
THEOREM TypeCorrect == Spec => []TypeOK
<1>1. IInv => TypeOK
  BY DEF IInv
<1>2. QED BY <1>1, InvariantHolds, PTL

(* No directory ever holds a model twice: the look-up Refresh makes before *)
(* push_back is enough, also for a directory two binaries share.           *)
THEOREM SlotsUnique == Spec => []OneSlotPerModel
<1>1. IInv => OneSlotPerModel
  BY DEF IInv
<1>2. QED BY <1>1, InvariantHolds, PTL

(* What a binary declares it can resolve after its bootstrap, although the *)
(* redirect may have swapped the directory it used (Store, Refresh).       *)
THEOREM ModelsResolvable == Spec => []DeclaredResolvable
<1>1. IInv => DeclaredResolvable
  BY DEF IInv
<1>2. QED BY <1>1, InvariantHolds, PTL

(* A look-up whose buffer was not moved answers right, at any interleaving *)
(* with refreshes on the loading thread (Find).                            *)
THEOREM FindCorrect == Spec => []FindRight
<1>1. IInv => FindRight
  BY DEF IInv
<1>2. QED BY <1>1, InvariantHolds, PTL

(* No step reassigns a slot: directories only grow at their end (Refresh). *)
THEOREM SlotsNeverMove == Spec => SlotsStable
  BY InvariantHolds, StepKeepsSlots, PTL DEF Spec, SlotsStable
=============================================================================
