------------------------- MODULE PluginEntryProofs -------------------------
(***************************************************************************)
(* What holds of a plugin's entry points (module PluginEntry) for any      *)
(* domains, anchors and chains, those of any image that can be mapped.     *)
(***************************************************************************)
EXTENDS PluginEntry, DataTheorems

(* The chain that a visit of the host walks.                               *)
HostChain(d) == ChainFrom(next, hostHead[d])

(* The nodes whose type is that of d's populators.                         *)
DomainNodes(d) ==
  NodesFor[d] \cup {HostNode[d]} \cup {x \in {LateNode.node} : LateNode.of = d}

(* d's segment follows the first j nodes of the host's chain and ends at   *)
(* its node k; the plugin has no other nodes in it.                        *)
SegmentAt(d, j, k) ==
  /\ j < k /\ k <= Len(HostChain(d))
  /\ HostChain(d)[j + 1] = localHead[d]
  /\ HostChain(d)[k] = tail[d]
  /\ \A i \in 1 .. Len(HostChain(d)) :
       HostChain(d)[i] \in PluginNodes <=> j < i /\ i <= k

ChainInv(d) ==
  /\ IsPath(HostChain(d), DomainNodes(d), next, hostHead[d])
  /\ Linked(d) => \E j, k \in 0 .. Len(HostChain(d)) : SegmentAt(d, j, k)
  /\ ~Linked(d) => \A i \in 1 .. Len(HostChain(d)) : HostChain(d)[i] \notin PluginNodes

(* A plugin's pointers stay within the domain, but for the tail's while    *)
(* the segment is linked.                                                  *)
LocalInv(d) ==
  /\ {localHead[d], tail[d]} \subseteq NodesFor[d] \cup {Null}
  /\ \A x \in NodesFor[d] : ~(Linked(d) /\ x = tail[d]) =>
       next[x] \in NodesFor[d] \cup {Null}
  /\ tail[d] # Null => localHead[d] # Null /\ redirect[HeadOf(d)] # Null

(* Only the hook that is due may find the cached walk out of date.         *)
CacheInv(d) ==
  ~(pc \in {"loadHook", "unloadHook"} /\ Domains[at] = d) =>
    Range(walk[d]) \cap PluginNodes = Range(HostChain(d)) \cap PluginNodes

Loading == {"transfer", "load", "inspect", "loadHook"}
Unloading == {"unload", "unloadHook", "close"}

(* The unload has still to come to d.                                      *)
Due(d) == pc \in Unloading /\ \E i \in at .. Len(Domains) : Domains[i] = d

(* The load has come to d.                                                 *)
Handled(d) ==
  /\ booted
  /\ \/ pc = "idle"
     \/ pc \in Loading \ {"transfer"} /\ \E i \in 1 .. at - 1 : Domains[i] = d

Linkable(d) ==
  /\ localHead[d] # Null /\ ~Trapped(next, localHead[d])
  /\ ~global /\ ~ended

ProgressInv(d) ==
  /\ tail[d] # Null => booted \/ Due(d)
  /\ ended => localHead[d] = Null \/ Due(d)
  /\ Handled(d) => (Linked(d) <=> Linkable(d))

PhaseInv ==
  /\ pc \in {"idle"} \cup Loading \cup Unloading
  /\ pc = "idle" => at = 1
  /\ pc # "idle" => mapped
  /\ pc \in Loading => booted /\ MayBootstrap
  /\ pc \in Unloading => ~booted /\ ended
  /\ pc \in {"inspect", "loadHook", "unloadHook", "close"} => at \in 1 .. Len(Domains)
  /\ pc = "loadHook" => Linked(Domains[at])
  /\ pc = "unloadHook" => redirect[HeadOf(Domains[at])] # Null
  /\ ~mapped => /\ ~booted /\ ~ended /\ ~global
                /\ \A d \in Domain : tail[d] = Null
                /\ \A t \in Type : redirect[t] = Null

(* The transfer has come to the plugin's anchor i.                         *)
Transferred(i) ==
  \/ pc = "transfer" /\ i < at
  \/ pc \in Loading \ {"transfer"}

RedirectInv ==
  /\ \A t \in Type : redirect[t] \in {Null, t}
  /\ global => \A d \in Domain : redirect[HeadOf(d)] = Null /\ redirect[CacheOf(d)] = Null
  /\ \A i \in 1 .. Len(PluginAnchors) :
       Transferred(i) /\ Counterpart(PluginAnchors[i]) # Null =>
         redirect[PluginAnchors[i]] # Null
  /\ pc # "transfer" =>
       \A d \in Domain : redirect[HeadOf(d)] = Null <=> redirect[CacheOf(d)] = Null
  /\ booted /\ pc # "transfer" =>
       \A t \in Both : t.kind \in {"directory", "arena"} => redirect[t] # Null
  /\ \A d \in Domain : Linked(d) =>
       \A t \in TypesOf(d) \cap Both : redirect[t] # Null

EntryInv ==
  /\ TypeOK
  /\ PhaseInv
  /\ RedirectInv
  /\ \A d \in Domain : ChainInv(d) /\ LocalInv(d) /\ CacheInv(d) /\ ProgressInv(d)


(***************************************************************************)
(* The scan of the chain that o goes through: both pointers are on it, the *)
(* fast one twice as far as the slow one; if the race is over without them *)
(* meeting, the chain ends.                                                *)
(***************************************************************************)
Racing(o) ==
  /\ verdict = "race" /\ n = Null /\ count = 0
  /\ \E k \in Nat : slow = o[k] /\ fast = o[2 * k]

Counting(o) ==
  /\ verdict = "count" /\ count \in Nat /\ n = o[count]
  /\ \A i \in 0 .. count - 1 : o[i] # Null
  /\ \E m \in Nat : o[m] = Null

Decided ==
  /\ verdict = "done"
  /\ result.hasCycle \in BOOLEAN
  /\ result.hasCycle <=> Trapped(next, localHead[Domains[at]])
  /\ ~result.hasCycle =>
       result.nodeCount = Len(ChainFrom(next, localHead[Domains[at]]))

ScanInv ==
  pc = "inspect" =>
    \E o \in [Nat -> NodeOrNull] :
      /\ Orbit(o, next, localHead[Domains[at]])
      /\ Racing(o) \/ Counting(o) \/ Decided

Inv == EntryInv /\ ScanInv

-----------------------------------------------------------------------------
(* A function on a finite set has finitely many values.                    *)
LEMMA ImageFinite ==
  ASSUME NEW S, IsFiniteSet(S), NEW f, DOMAIN f = S
  PROVE  IsFiniteSet({f[x] : x \in S})
<1> DEFINE T == {f[x] : x \in S}
           g == [x \in S |-> f[x]]
<1>1. g \in Surjection(S, T)
  BY DEF Surjection
<1> QED BY <1>1, FS_Surjection

(* Every domain has its own place in the plugin's list of synchronizers.   *)
LEMMA DomainsFinite ==
  /\ \A d \in Domain : \E i \in 1 .. Len(Domains) : Domains[i] = d
  /\ \A i \in 1 .. Len(Domains) : Domains[i] \in Domain
  /\ \A i, j \in 1 .. Len(Domains) : Domains[i] = Domains[j] => i = j
  /\ Len(Domains) \in Nat
  /\ IsFiniteSet(Domain)
<1>1. DOMAIN Domains = 1 .. Len(Domains) /\ Len(Domains) \in Nat
  BY EntryAssumption
<1>2. IsFiniteSet(1 .. Len(Domains))
  BY <1>1, IntervalSize
<1>3. IsFiniteSet(Domain)
  BY <1>1, <1>2, ImageFinite DEF Domain, Range
<1> QED BY <1>1, <1>3, EntryAssumption DEF Domain, Range, IsInjective

(* There are finitely many populators.                                     *)
LEMMA NodesFinite == IsFiniteSet(Node) /\ Null \notin Node
<1>1. IsFiniteSet(PluginNodes)
  <2> DEFINE f == [d \in Domain |-> NodesFor[d]]
  <2>1. IsFiniteSet({f[d] : d \in Domain})
    <3>1. DOMAIN f = Domain
      OBVIOUS
    <3> HIDE DEF f
    <3> QED BY <3>1, DomainsFinite, ImageFinite
  <2>2. {f[d] : d \in Domain} = {NodesFor[d] : d \in Domain}
    OBVIOUS
  <2> QED BY <2>1, <2>2, NodesAssumption, FS_UNION DEF PluginNodes
<1>2. IsFiniteSet({HostNode[d] : d \in Domain})
  BY NodesAssumption, DomainsFinite, ImageFinite
<1>3. IsFiniteSet(PluginNodes \cup {HostNode[d] : d \in Domain})
  BY <1>1, <1>2, FS_Union
<1> QED BY <1>3, FS_AddElement, NodesAssumption DEF Node

(* The populators of two domains are different, and so are the plugin's    *)
(* and the host's.                                                         *)
LEMMA NodesApart ==
  /\ \A d \in Domain : /\ DomainNodes(d) \subseteq Node
                       /\ NodesFor[d] \subseteq DomainNodes(d) \cap PluginNodes
                       /\ DomainNodes(d) \cap PluginNodes \subseteq NodesFor[d]
                       /\ HostNode[d] \in DomainNodes(d) \ PluginNodes
  /\ \A d, e \in Domain : d # e => DomainNodes(d) \cap DomainNodes(e) = {}
  /\ LateNode.of \in Domain /\ LateNode.node \in DomainNodes(LateNode.of) \ PluginNodes
<1>1. \A d \in Domain : NodesFor[d] \subseteq PluginNodes
  BY DEF PluginNodes
<1>2. \A d \in Domain : HostNode[d] \notin PluginNodes /\ HostNode[d] # LateNode.node
  BY NodesAssumption DEF Range
<1>3. \A x \in PluginNodes : \E d \in Domain : x \in NodesFor[d]
  BY DEF PluginNodes
<1>4. LateNode.of \in Domain /\ LateNode.node \notin PluginNodes
  BY NodesAssumption
<1>5. \A d, e \in Domain : d # e => NodesFor[d] \cap NodesFor[e] = {} /\ HostNode[d] # HostNode[e]
  BY NodesAssumption
<1>6. ASSUME NEW d \in Domain
      PROVE  /\ DomainNodes(d) \subseteq Node
             /\ NodesFor[d] \subseteq DomainNodes(d) \cap PluginNodes
             /\ DomainNodes(d) \cap PluginNodes \subseteq NodesFor[d]
             /\ HostNode[d] \in DomainNodes(d) \ PluginNodes
  <2>1. DomainNodes(d) \subseteq Node
    BY <1>1 DEF DomainNodes, Node
  <2> QED BY <2>1, <1>1, <1>2, <1>4 DEF DomainNodes
<1>7. ASSUME NEW d \in Domain, NEW e \in Domain, d # e
      PROVE  DomainNodes(d) \cap DomainNodes(e) = {}
  BY <1>1, <1>2, <1>4, <1>5, <1>7 DEF DomainNodes
<1> QED BY <1>4, <1>6, <1>7 DEF DomainNodes

(* An anchored type is of one domain and of one kind.                      *)
LEMMA TypesApart ==
  /\ \A d \in Domain : {HeadOf(d), CacheOf(d)} \subseteq TypesOf(d) \cap Both
  /\ \A d \in Domain : TypesOf(d) \subseteq Type
  /\ \A d \in Domain : \A t \in TypesOf(d) : t.of = d
  /\ \A d, e \in Domain : HeadOf(d) # CacheOf(e)
  /\ \A d, e \in Domain : d # e => HeadOf(d) # HeadOf(e) /\ CacheOf(d) # CacheOf(e)
  /\ \A d \in Domain : HeadOf(d).kind = "head" /\ CacheOf(d).kind = "cache"
  /\ \A t \in Type : /\ t.of \in Domain
                     /\ t.kind \in {"head", "cache", "directory", "arena"}
                     /\ t.kind = "head" => t = HeadOf(t.of)
                     /\ t.kind = "cache" => t = CacheOf(t.of)
<1>1. \A d \in Domain : {HeadOf(d), CacheOf(d)} \subseteq Both
  BY EntryAssumption DEF Both
<1>2. \A d \in Domain : TypesOf(d) \subseteq Type
  BY Zenon DEF Type
<1>3. \A d \in Domain : HeadOf(d) \in TypesOf(d) /\ CacheOf(d) \in TypesOf(d)
  BY DEF TypesOf
<1>4. ASSUME NEW d \in Domain, NEW t \in TypesOf(d)
      PROVE  /\ t.of = d /\ t.kind \in {"head", "cache", "directory", "arena"}
             /\ t.kind = "head" => t = HeadOf(d)
             /\ t.kind = "cache" => t = CacheOf(d)
  <2>1. CASE t = HeadOf(d)
    BY <2>1 DEF HeadOf
  <2>2. CASE t = CacheOf(d)
    BY <2>2 DEF CacheOf
  <2>3. CASE t = DirectoryOf(d)
    BY <2>3 DEF DirectoryOf
  <2>4. ASSUME NEW c \in Contract, t = ArenaOf(d, c)
        PROVE  t.of = d /\ t.kind = "arena"
    BY <2>4 DEF ArenaOf
  <2> QED BY <2>1, <2>2, <2>3, <2>4 DEF TypesOf
<1>5. \A t \in Type : \E d \in Domain : t \in TypesOf(d)
  BY Zenon DEF Type
<1>6. \A t \in Type : /\ t.of \in Domain
                      /\ t.kind \in {"head", "cache", "directory", "arena"}
                      /\ t.kind = "head" => t = HeadOf(t.of)
                      /\ t.kind = "cache" => t = CacheOf(t.of)
  <2> SUFFICES ASSUME NEW t \in Type
               PROVE  /\ t.of \in Domain
                      /\ t.kind \in {"head", "cache", "directory", "arena"}
                      /\ t.kind = "head" => t = HeadOf(t.of)
                      /\ t.kind = "cache" => t = CacheOf(t.of)
    OBVIOUS
  <2>1. PICK d \in Domain : t \in TypesOf(d)
    BY <1>5
  <2> QED BY <1>4, <2>1
<1>7. /\ \A d, e \in Domain : HeadOf(d) # CacheOf(e)
      /\ \A d, e \in Domain : d # e => HeadOf(d) # HeadOf(e) /\ CacheOf(d) # CacheOf(e)
      /\ \A d \in Domain : HeadOf(d).kind = "head" /\ CacheOf(d).kind = "cache"
  BY DEF HeadOf, CacheOf
<1>8. \A d \in Domain : \A t \in TypesOf(d) : t.of = d
  BY <1>4
<1> QED BY <1>1, <1>2, <1>3, <1>6, <1>7, <1>8

(* FindAnchorAddressByHash answers with an anchor that has the key it is   *)
(* asked for, and with null only if none has it.                           *)
LEMMA FirstWithKey ==
  ASSUME NEW key
  PROVE  \/ /\ FindAnchorAddressByHash(key) = Null
            /\ \A t \in Range(HostAnchors) : Key[FALSE][t] # key
         \/ /\ FindAnchorAddressByHash(key) \in Range(HostAnchors) \ {Null}
            /\ Key[FALSE][FindAnchorAddressByHash(key)] = key
<1> DEFINE I == {i \in 1 .. Len(HostAnchors) : Key[FALSE][HostAnchors[i]] = key}
           s == SelectInSeq(HostAnchors, LAMBDA t : Key[FALSE][t] = key)
<1>1. /\ DOMAIN HostAnchors = 1 .. Len(HostAnchors) /\ Len(HostAnchors) \in Nat
      /\ \A i \in 1 .. Len(HostAnchors) : HostAnchors[i] # Null
  BY EntryAssumption
<1>2. s = IF I # {} THEN Min(I) ELSE 0
  BY DEF SelectInSeq
<1>3. I # {} => Min(I) \in I
  <2>1. I # {} => \E m \in I : \A i \in 0 .. m - 1 : i \notin I
    <3>1. \A i \in I : i \in Nat
      BY <1>1
    <3> HIDE DEF I
    <3> QED BY <3>1, LeastExists
  <2>2. I # {} => \E m \in I : \A i \in I : m =< i
    <3>1. \A i \in I : i \in Nat
      BY <1>1
    <3>2. ASSUME NEW m \in I, NEW i \in I, ~(m =< i) PROVE i \in 0 .. m - 1
      BY <3>1, <3>2
    <3> HIDE DEF I
    <3> QED BY <2>1, <3>1, <3>2
  <2> HIDE DEF I
  <2> QED BY <2>2 DEF Min
<1>4. FindAnchorAddressByHash(key) = IF s = 0 THEN Null ELSE HostAnchors[s]
  BY DEF FindAnchorAddressByHash
<1>5. ASSUME I = {}
      PROVE  /\ FindAnchorAddressByHash(key) = Null
             /\ \A t \in Range(HostAnchors) : Key[FALSE][t] # key
  <2>1. \A i \in 1 .. Len(HostAnchors) : Key[FALSE][HostAnchors[i]] # key
    BY <1>5
  <2> QED BY <1>1, <1>2, <1>4, <1>5, <2>1 DEF Range
<1>6. ASSUME I # {}
      PROVE  /\ FindAnchorAddressByHash(key) \in Range(HostAnchors) \ {Null}
             /\ Key[FALSE][FindAnchorAddressByHash(key)] = key
  <2>1. s \in 1 .. Len(HostAnchors) /\ Key[FALSE][HostAnchors[s]] = key
    BY <1>2, <1>3, <1>6
  <2>2. s # 0
    BY <1>1, <2>1
  <2> HIDE DEF s
  <2>3. FindAnchorAddressByHash(key) = HostAnchors[s]
    BY <1>4, <2>2
  <2> QED BY <1>1, <2>1, <2>3 DEF Range
<1> QED BY <1>5, <1>6

(* The keys of the directory and the arenas do not depend on whether a     *)
(* domain is spelled with a leading "::".                                  *)
LEMMA SpellingOfShared ==
  ASSUME NEW t \in Type, t.kind \in {"directory", "arena"}
  PROVE  Key[TRUE][t] = Key[FALSE][t]
<1> DEFINE text == Text[t.of]
<1>1. t.of \in Domain /\ text \in Seq(Nat) /\ ~IsPrefix(GlobalNamespace, text)
  BY TypesApart, EntryAssumption
<1>2. Spelled(t.of, TRUE) = GlobalNamespace \o text /\ Spelled(t.of, FALSE) = text
  BY <1>1 DEF Spelled
<1> HIDE DEF text
<1>3. IsPrefix(GlobalNamespace, GlobalNamespace \o text)
  BY <1>1 DEF IsPrefix, GlobalNamespace, Colon
<1>4. SubSeq(GlobalNamespace \o text, 3, Len(GlobalNamespace \o text)) = text
  <2> DEFINE u == SubSeq(GlobalNamespace \o text, 3, Len(GlobalNamespace \o text))
  <2>1. Len(GlobalNamespace \o text) = 2 + Len(text) /\ Len(text) \in Nat
    BY <1>1 DEF GlobalNamespace, Colon
  <2>2. u \in Seq(Nat) /\ Len(u) = Len(text)
    BY <1>1, <2>1 DEF GlobalNamespace, Colon
  <2>3. \A i \in 1 .. Len(text) : u[i] = text[i]
    BY <1>1, <2>1 DEF GlobalNamespace, Colon
  <2> QED BY <1>1, <2>2, <2>3
<1>5. TypeHash(Spelled(t.of, TRUE)) = TypeHash(Spelled(t.of, FALSE))
  BY <1>1, <1>2, <1>3, <1>4, Zenon DEF TypeHash, RemoveLeadingGlobalNamespace
<1>6. KeyOf(t, Spelled(t.of, TRUE)) = KeyOf(t, Spelled(t.of, FALSE))
  <2>1. CASE t.kind = "directory"
    BY <1>5, <2>1, Zenon DEF KeyOf, DirectoryHash
  <2>2. CASE t.kind = "arena"
    BY <1>5, <2>2, Zenon DEF KeyOf, ArenaHash
  <2> QED BY <2>1, <2>2
<1> QED BY <1>6 DEF Key

(* What the host has for an anchor of a plugin: an instance of the same    *)
(* type or none; all that the host has when the plugin spells its domains  *)
(* as the host does; otherwise the directory and the arenas, and never the *)
(* head and the cache.                                                     *)
LEMMA FoundFacts ==
  /\ \A r \in BOOLEAN, t \in Type : /\ Found[r][t] \in {Null, t}
                                    /\ Found[r][t] # Null => t \in Range(HostAnchors)
  /\ \A t \in Range(HostAnchors) : Found[FALSE][t] = t /\ t # Null
  /\ \A t \in Range(HostAnchors) : t.kind \in {"directory", "arena"} => Found[TRUE][t] = t
  /\ \A d \in Domain : Found[TRUE][HeadOf(d)] = Null /\ Found[TRUE][CacheOf(d)] = Null
<1>1. \A r \in BOOLEAN, t \in Type : Found[r][t] = FindAnchorAddressByHash(Key[r][t])
  BY DEF Found
<1>2. \A t \in Range(HostAnchors) : t \in Type /\ t # Null
  BY EntryAssumption DEF Range
<1>3. ASSUME NEW r \in BOOLEAN, NEW t \in Type, Found[r][t] # Null
      PROVE  Found[r][t] = t /\ t \in Range(HostAnchors) /\ Key[FALSE][t] = Key[r][t]
  <2>1. Found[r][t] \in Range(HostAnchors) /\ Key[FALSE][Found[r][t]] = Key[r][t]
    <3> DEFINE key == Key[r][t]
    <3>1. Found[r][t] = FindAnchorAddressByHash(key)
      BY <1>1
    <3> HIDE DEF key
    <3>2. Found[r][t] \in Range(HostAnchors) /\ Key[FALSE][Found[r][t]] = key
      BY <1>3, <3>1, FirstWithKey
    <3> QED BY <3>2 DEF key
  <2>2. Found[r][t] \in Type
    BY <1>2, <2>1
  <2>3. Found[r][t] = t
    <3>1. CASE r = TRUE
      BY <2>1, <2>2, <3>1, NoCoincidence
    <3>2. CASE r = FALSE
      BY <2>1, <2>2, <3>2, NoCoincidence
    <3> QED BY <3>1, <3>2
  <2> QED BY <2>1, <2>3
<1>4. ASSUME NEW r \in BOOLEAN, NEW t \in Range(HostAnchors), Key[FALSE][t] = Key[r][t]
      PROVE  Found[r][t] = t
  <2>1. Found[r][t] # Null
    BY <1>1, <1>2, <1>4, FirstWithKey
  <2> QED BY <1>2, <1>3, <2>1
<1>5. \A t \in Range(HostAnchors) : t.kind \in {"directory", "arena"} => Found[TRUE][t] = t
  BY <1>2, <1>4, SpellingOfShared
<1>6. ASSUME NEW t \in Type, t.kind \in {"head", "cache"} PROVE Found[TRUE][t] = Null
  BY <1>3, <1>6, NoCoincidence
<1>7. \A d \in Domain : Found[TRUE][HeadOf(d)] = Null /\ Found[TRUE][CacheOf(d)] = Null
  <2>1. \A d \in Domain : HeadOf(d) \in Type /\ CacheOf(d) \in Type
    BY TypesApart
  <2> QED BY <1>6, <2>1, TypesApart
<1>8. \A t \in Range(HostAnchors) : Found[FALSE][t] = t
  BY <1>4
<1> QED BY <1>2, <1>3, <1>5, <1>7, <1>8

-----------------------------------------------------------------------------
(* Where there is a path from the head to the null pointer, the walk is    *)
(* that path, and it ends.                                                 *)
LEMMA DomainPath ==
  ASSUME NEW f \in [Node -> NodeOrNull], NEW h, NEW M, M \subseteq Node, NEW w,
         IsPath(w, M, f, h)
  PROVE  /\ ChainFrom(f, h) = w
         /\ w \in Seq(M) /\ w \in Seq(Node)
         /\ Len(w) \in Nat /\ Len(w) <= Cardinality(Node)
         /\ Terminates(f, h) /\ ~Trapped(f, h)
<1>1. IsPath(w, Node, f, h) /\ w \in Seq(M)
  BY DEF IsPath
<1>2. IsFiniteSet(Node) /\ Null \notin Node /\ f \in [Node -> Node \cup {Null}]
  BY NodesFinite DEF NodeOrNull
<1>3. ChainFrom(f, h) = w /\ Len(w) <= Cardinality(Node)
  BY <1>1, <1>2, ChainOfPath
<1>4. h \in Node \cup {Null}
  BY <1>1 DEF IsPath
<1>5. DOMAIN f = Node
  OBVIOUS
<1>6. Terminates(f, h)
  BY <1>3, <1>5 DEF Terminates
<1>7. ~Trapped(f, h)
  BY <1>2, <1>4, <1>6, TerminatesOrTrapped
<1> QED BY <1>1, <1>3, <1>6, <1>7 DEF IsPath

(* While a chain is inspected, the scan is at a domain of the plugin, and  *)
(* somewhere on its chain.                                                 *)
LEMMA InspectedChain ==
  ASSUME Inv, pc = "inspect"
  PROVE  /\ at \in 1 .. Len(Domains) /\ Domains[at] \in Domain
         /\ next \in [Node -> Node \cup {Null}] /\ Null \notin Node
         /\ localHead[Domains[at]] \in Node \cup {Null}
         /\ \E o \in [Nat -> Node \cup {Null}] :
              /\ Orbit(o, next, localHead[Domains[at]])
              /\ Racing(o) \/ Counting(o) \/ Decided
<1>1. at \in 1 .. Len(Domains) /\ Domains[at] \in Domain
  BY DomainsFinite DEF Inv, EntryInv, PhaseInv
<1>2. next \in [Node -> Node \cup {Null}] /\ localHead[Domains[at]] \in Node \cup {Null}
  BY <1>1 DEF Inv, EntryInv, TypeOK, NodeOrNull
<1> QED BY <1>1, <1>2, NodesFinite DEF Inv, ScanInv, NodeOrNull

(* The counting loop passes no more nodes than there are.                  *)
LEMMA CountBounded ==
  ASSUME NEW f \in [Node -> Node \cup {Null}], NEW h,
         NEW o \in [Nat -> Node \cup {Null}], Orbit(o, f, h),
         NEW c \in Nat, \A i \in 0 .. c - 1 : o[i] # Null,
         NEW b \in Nat, o[b] = Null
  PROVE  c \in 0 .. Cardinality(Node)
<1> DEFINE S == {i \in Nat : o[i] = Null}
<1>1. PICK m \in S : \A i \in 0 .. m - 1 : i \notin S
  BY LeastExists
<1>2. m \in Nat /\ o[m] = Null /\ \A i \in 0 .. m - 1 : o[i] # Null
  BY <1>1
<1>3. c <= m
  BY <1>2
<1> DEFINE w == [i \in 1 .. m |-> o[i - 1]]
<1>4. IsPath(w, Node, f, h)
  <2>1. m \in Nat /\ o[m] = Null
    BY <1>2
  <2>2. \A i \in 0 .. m - 1 : o[i] # Null
    BY <1>2
  <2>3. Null \notin Node
    BY NodesFinite
  <2> QED BY <2>1, <2>2, <2>3, OrbitPath, ZenonT(100)
<1>5. Len(w) = m
  BY <1>2
<1> HIDE DEF w
<1>6. Len(w) <= Cardinality(Node)
  BY <1>4, NodesFinite, ChainOfPath
<1>7. Cardinality(Node) \in Nat
  BY NodesFinite, FS_CardinalityType
<1> QED BY <1>2, <1>3, <1>5, <1>6, <1>7

(* Every iteration of Inspect's loops keeps the scan on the chain; if the  *)
(* two pointers meet the chain does not end, and if they do not it is      *)
(* counted right.                                                          *)
LEMMA StepScan ==
  ASSUME Inv, pc = "inspect", Inspect
  PROVE  /\ ScanInv'
         /\ {slow', fast', n'} \subseteq NodeOrNull
         /\ count' \in 0 .. Cardinality(Node)
<1> DEFINE h == localHead[Domains[at]]
<1>1. /\ next \in [Node -> Node \cup {Null}] /\ Null \notin Node /\ h \in Node \cup {Null}
      /\ {slow, fast, n} \subseteq NodeOrNull /\ count \in 0 .. Cardinality(Node)
  BY InspectedChain DEF Inv, EntryInv, TypeOK
<1>2. PICK o \in [Nat -> Node \cup {Null}] :
        /\ Orbit(o, next, h)
        /\ Racing(o) \/ Counting(o) \/ Decided
  BY InspectedChain
<1>3. Cardinality(Node) \in Nat
  BY NodesFinite, FS_CardinalityType
<1>4. next' = next /\ h' = h /\ pc' = "inspect"
  BY DEF Inspect, Coupler!Next, Coupler!Race, Coupler!StartCount, Coupler!Count,
         Coupler!Return, Coupler!chain, local
<1>5. o[0] = h /\ \A i \in Nat : o[i + 1] = IF o[i] = Null THEN Null ELSE next[o[i]]
  BY <1>2 DEF Orbit
<1> HIDE DEF h
<1>6. ASSUME NEW i \in Nat PROVE o[i] \in NodeOrNull
  BY <1>2 DEF NodeOrNull
<1>7. CASE Coupler!Race
  <2>1. Racing(o)
    BY <1>2, <1>7 DEF Coupler!Race, Counting, Decided
  <2>2. PICK k \in Nat : slow = o[k] /\ fast = o[2 * k]
    BY <2>1 DEF Racing
  <2>3. 2 * k \in Nat /\ 2 * k + 1 \in Nat /\ k <= 2 * k /\ k + 1 \in Nat
        /\ 2 * (k + 1) = 2 * k + 2 /\ 2 * k + 2 = (2 * k + 1) + 1
    BY <2>2
  <2>4. o[2 * k] # Null /\ o[2 * k + 1] = next[o[2 * k]] /\ o[2 * k + 1] # Null
    BY <1>5, <1>7, <2>2, <2>3 DEF Coupler!Race, Coupler!Racing
  <2>5. o[k] # Null
    BY <1>2, <2>2, <2>3, <2>4, OrbitNull
  <2>6. slow' = o[k + 1]
    BY <1>5, <1>7, <2>2, <2>5 DEF Coupler!Race
  <2>7. fast' = o[2 * k + 2]
    <3>1. o[2 * k + 2] = next[o[2 * k + 1]]
      BY <1>5, <2>3, <2>4
    <3> QED BY <1>7, <2>2, <2>4, <3>1 DEF Coupler!Race, Coupler!Twice
  <2>8. n' = n /\ count' = count
    BY <1>7 DEF Coupler!Race
  <2>9. CASE slow' = fast'
    <3>1. Trapped(next, h)
      BY <1>1, <1>2, <2>2, <2>4, <2>6, <2>7, <2>9, OrbitCycle
    <3>2. verdict' = "done" /\ result' = [hasCycle |-> TRUE, nodeCount |-> 0]
      BY <1>7, <2>9 DEF Coupler!Race
    <3>3. Decided'
      BY <1>4, <3>1, <3>2 DEF Decided, h
    <3> QED BY <1>1, <1>2, <1>4, <1>6, <2>2, <2>3, <2>6, <2>7, <2>8, <3>3
            DEF ScanInv, NodeOrNull, h
  <2>10. CASE slow' # fast'
    <3>1. verdict' = "race"
      BY <1>7, <2>10 DEF Coupler!Race
    <3>2. Racing(o)'
      BY <2>1, <2>3, <2>6, <2>7, <2>8, <3>1 DEF Racing
    <3> QED BY <1>1, <1>2, <1>4, <1>6, <2>2, <2>3, <2>6, <2>7, <2>8, <3>2
            DEF ScanInv, NodeOrNull, h
  <2> QED BY <2>9, <2>10
<1>8. CASE Coupler!StartCount
  <2>1. Racing(o)
    BY <1>2, <1>8 DEF Coupler!StartCount, Counting, Decided
  <2>2. PICK k \in Nat : slow = o[k] /\ fast = o[2 * k]
    BY <2>1 DEF Racing
  <2>3. o[2 * k] = Null \/ o[2 * k + 1] = Null
    BY <1>5, <1>8, <2>2 DEF Coupler!StartCount, Coupler!Racing
  <2>4. verdict' = "count" /\ n' = h /\ count' = 0 /\ slow' = slow /\ fast' = fast
    BY <1>8, <2>1 DEF Coupler!StartCount, Racing, h
  <2>5. \E m \in Nat : o[m] = Null
    <3>1. 2 * k \in Nat /\ 2 * k + 1 \in Nat
      BY <2>2
    <3> QED BY <2>3, <3>1
  <2>6. Counting(o)'
    BY <1>5, <2>4, <2>5 DEF Counting
  <2> QED BY <1>1, <1>2, <1>3, <1>4, <2>4, <2>6 DEF ScanInv, NodeOrNull, h
<1>9. CASE Coupler!Count
  <2>1. Counting(o)
    BY <1>2, <1>9 DEF Coupler!Count, Racing, Decided
  <2>2. o[count] # Null /\ count \in Nat /\ count' = count + 1 /\ n' = o[count + 1]
        /\ verdict' = "count" /\ slow' = slow /\ fast' = fast
    BY <1>5, <1>9, <2>1 DEF Coupler!Count, Counting
  <2>3. Counting(o)'
    BY <2>1, <2>2 DEF Counting
  <2>4. count' \in 0 .. Cardinality(Node)
    BY <1>1, <1>2, <2>3, CountBounded DEF Counting
  <2>5. n' \in NodeOrNull
    BY <1>6, <2>2
  <2> QED BY <1>1, <1>2, <1>4, <2>2, <2>3, <2>4, <2>5 DEF ScanInv, NodeOrNull, h
<1>10. CASE Coupler!Return
  <2>1. Counting(o)
    BY <1>2, <1>10 DEF Coupler!Return, Racing, Decided
  <2> DEFINE w == [i \in 1 .. count |-> o[i - 1]]
  <2>2. count \in Nat /\ o[count] = Null /\ \A i \in 0 .. count - 1 : o[i] # Null
    BY <1>10, <2>1 DEF Counting, Coupler!Return
  <2>3. IsPath(w, Node, next, h)
    BY <1>1, <1>2, <2>2, OrbitPath, SMTT(30)
  <2>4. Len(w) = count
    BY <2>2
  <2> HIDE DEF w
  <2>5. ChainFrom(next, h) = w /\ ~Trapped(next, h)
    BY <1>1, <2>3, DomainPath DEF NodeOrNull
  <2>6. verdict' = "done" /\ result' = [hasCycle |-> FALSE, nodeCount |-> count]
        /\ UNCHANGED <<slow, fast, n, count>>
    BY <1>10 DEF Coupler!Return
  <2>7. Decided'
    BY <1>4, <2>4, <2>5, <2>6 DEF Decided, h
  <2> QED BY <1>1, <1>2, <1>4, <2>6, <2>7 DEF ScanInv, NodeOrNull, h
<1> QED BY <1>7, <1>8, <1>9, <1>10 DEF Inspect, Coupler!Next

-----------------------------------------------------------------------------
(* FoundFacts for the image that is mapped.                                *)
LEMMA CounterpartFacts ==
  ASSUME Inv
  PROVE  /\ \A t \in Type : /\ Counterpart(t) \in {Null, t}
                            /\ Counterpart(t) # Null => t \in Range(HostAnchors)
         /\ \A t \in Range(HostAnchors) :
              /\ t \in Type /\ t # Null
              /\ ~global \/ t.kind \in {"directory", "arena"} => Counterpart(t) = t
         /\ \A d \in Domain :
              /\ Counterpart(HeadOf(d)) = IF global THEN Null ELSE HeadOf(d)
              /\ Counterpart(CacheOf(d)) = IF global THEN Null ELSE CacheOf(d)
              /\ HeadOf(d) # Null /\ HeadOf(d).of = d /\ HeadOf(d) \in Type
              /\ CacheOf(d) # Null /\ CacheOf(d).of = d /\ CacheOf(d) \in Type
<1>1. global \in BOOLEAN
  BY DEF Inv, EntryInv, TypeOK
<1>2. \A t \in Range(HostAnchors) : t \in Type /\ t # Null
  BY EntryAssumption DEF Range
<1>3. \A d \in Domain : {HeadOf(d), CacheOf(d)} \subseteq Range(HostAnchors)
  BY EntryAssumption
<1>4. \A d \in Domain : HeadOf(d).of = d /\ CacheOf(d).of = d
  BY TypesApart
<1>5. \A t \in Type : Counterpart(t) = Found[global][t]
  BY DEF Counterpart
<1>6. \A t \in Range(HostAnchors) :
        ~global \/ t.kind \in {"directory", "arena"} => Counterpart(t) = t
  <2>1. CASE global = FALSE
    BY <1>2, <1>5, <2>1, FoundFacts
  <2>2. CASE global = TRUE
    BY <1>2, <1>5, <2>2, FoundFacts
  <2> QED BY <1>1, <2>1, <2>2
<1>7. ASSUME NEW d \in Domain
      PROVE  /\ Counterpart(HeadOf(d)) = IF global THEN Null ELSE HeadOf(d)
             /\ Counterpart(CacheOf(d)) = IF global THEN Null ELSE CacheOf(d)
  <2>1. HeadOf(d) \in Type /\ CacheOf(d) \in Type
    BY <1>2, <1>3
  <2>2. CASE global = FALSE
    BY <1>3, <1>6, <2>2
  <2>3. CASE global = TRUE
    BY <1>5, <2>1, <2>3, FoundFacts
  <2> QED BY <1>1, <2>2, <2>3
<1> QED BY <1>1, <1>2, <1>3, <1>4, <1>5, <1>6, <1>7, FoundFacts

(* The host's walk is a path through nodes of its domain.                  *)
LEMMA HostChainFacts ==
  ASSUME Inv, NEW d \in Domain
  PROVE  /\ HostChain(d) \in Seq(DomainNodes(d)) /\ HostChain(d) \in Seq(Node)
         /\ Len(HostChain(d)) \in Nat
         /\ DOMAIN HostChain(d) = 1 .. Len(HostChain(d))
         /\ IsPath(HostChain(d), DomainNodes(d), next, hostHead[d])
         /\ hostHead[d] = IF HostChain(d) = << >> THEN Null ELSE HostChain(d)[1]
         /\ \A i \in 1 .. Len(HostChain(d)) : HostChain(d)[i] \in DomainNodes(d)
<1>1. IsPath(HostChain(d), DomainNodes(d), next, hostHead[d])
  BY DEF Inv, EntryInv, ChainInv
<1>2. next \in [Node -> NodeOrNull] /\ DomainNodes(d) \subseteq Node
  BY NodesApart DEF Inv, EntryInv, TypeOK
<1> QED BY <1>1, <1>2, DomainPath DEF IsPath

(* What the guards of a splice tell.                                       *)
LEMMA SpliceFacts ==
  ASSUME Inv, Splice, NEW d, d = Domains[at], NEW s, s = ChainFrom(next, localHead[d])
  PROVE  /\ at \in 1 .. Len(Domains) /\ d \in Domain
         /\ ~global /\ tail[d] = Null /\ ~Linked(d) /\ pc = "inspect"
         /\ IsPath(s, NodesFor[d], next, localHead[d]) /\ s \in Seq(NodesFor[d]) /\ s # << >>
         /\ Len(s) \in Nat \ {0}
         /\ \A i \in 1 .. Len(s) : s[i] \in NodesFor[d]
         /\ localHead[d] = s[1]
         /\ next' = [next EXCEPT ![s[Len(s)]] = hostHead[d]]
         /\ hostHead' = [hostHead EXCEPT ![d] = s[1]]
         /\ tail' = [tail EXCEPT ![d] = s[Len(s)]]
         /\ redirect' = [redirect EXCEPT ![HeadOf(d)] = HeadOf(d), ![CacheOf(d)] = CacheOf(d)]
         /\ ~Trapped(next, localHead[d])
<1>1. pc = "inspect" /\ verdict = "done" /\ ~result.hasCycle
  BY DEF Splice, Inspected
<1>2. /\ at \in 1 .. Len(Domains) /\ d \in Domain
      /\ next \in [Node -> Node \cup {Null}] /\ Null \notin Node
  BY <1>1, InspectedChain
<1>3. ~Trapped(next, localHead[d])
  BY <1>1, InspectedChain DEF Racing, Counting, Decided
<1>4. /\ Counterpart(HeadOf(d)) # Null /\ localHead[d] # Null
      /\ localHead[d] # hostHead[Counterpart(HeadOf(d)).of]
  BY DEF Splice, Spliceable
<1>5. /\ ~global /\ Counterpart(HeadOf(d)) = HeadOf(d) /\ HeadOf(d).of = d
      /\ Counterpart(CacheOf(d)) = CacheOf(d)
  BY <1>2, <1>4, CounterpartFacts
<1>6. tail[d] = Null
  BY <1>1, <1>2, <1>4, <1>5 DEF Inv, EntryInv, PhaseInv, MayBootstrap, Loading
<1>7. ~Linked(d)
  BY <1>6 DEF Linked
<1>8. /\ NodesFor[d] \subseteq Node
      /\ localHead[d] \in NodesFor[d] \cup {Null}
      /\ \A x \in NodesFor[d] : next[x] \in NodesFor[d] \cup {Null}
  BY <1>2, <1>7, NodesApart DEF Inv, EntryInv, LocalInv
<1>9. PICK w : IsPath(w, NodesFor[d], next, localHead[d])
  BY <1>2, <1>3, <1>8, PathExists
<1>10. s = w
  BY <1>2, <1>8, <1>9, DomainPath DEF NodeOrNull
<1>11. /\ IsPath(s, NodesFor[d], next, localHead[d]) /\ s \in Seq(NodesFor[d])
       /\ s # << >> /\ localHead[d] = s[1]
  BY <1>4, <1>9, <1>10 DEF IsPath
<1>12. Len(s) \in Nat \ {0} /\ \A i \in 1 .. Len(s) : s[i] \in NodesFor[d]
  BY <1>11
<1>13. /\ next' = [next EXCEPT ![s[Len(s)]] = hostHead[d]]
       /\ hostHead' = [hostHead EXCEPT ![d] = s[1]]
       /\ tail' = [tail EXCEPT ![d] = s[Len(s)]]
  BY <1>5, <1>11 DEF Splice, Last
<1>14. redirect' = [redirect EXCEPT ![HeadOf(d)] = HeadOf(d), ![CacheOf(d)] = CacheOf(d)]
  BY <1>5 DEF Splice, OpenPortal
<1> QED BY <1>1, <1>2, <1>3, <1>5, <1>6, <1>7, <1>11, <1>12, <1>13, <1>14

(* The pointers after the segment behind the first j nodes is taken out.   *)
Relinked(d, j) ==
  [x \in Node |-> IF x = tail[d] THEN Null
                  ELSE IF j > 0 /\ x = HostChain(d)[j] THEN next[tail[d]] ELSE next[x]]

(* What Unsplice does: nothing where no segment is linked.                 *)
LEMMA UnspliceFacts ==
  ASSUME Inv, Unsplice, NEW d, d = Domains[at]
  PROVE  /\ at \in 1 .. Len(Domains) /\ d \in Domain /\ pc = "unload"
         /\ redirect[HeadOf(d)] = HeadOf(d) /\ localHead[d] # Null
         /\ \/ tail[d] = Null /\ next' = next /\ hostHead' = hostHead
            \/ /\ Linked(d)
               /\ \E j, k \in 0 .. Len(HostChain(d)) :
                    /\ SegmentAt(d, j, k)
                    /\ next' = Relinked(d, j)
                    /\ hostHead' = IF j = 0 THEN [hostHead EXCEPT ![d] = next[tail[d]]]
                                   ELSE hostHead
<1>1. /\ pc = "unload" /\ at \in 1 .. Len(Domains) /\ d \in Domain
      /\ localHead[d] # Null /\ redirect[HeadOf(d)] # Null
  BY DomainsFinite, EntryAssumption DEF Unsplice
<1>2. redirect[HeadOf(d)] = HeadOf(d) /\ HeadOf(d).of = d
  BY <1>1, CounterpartFacts DEF Inv, EntryInv, RedirectInv
<1>3. /\ next \in [Node -> NodeOrNull] /\ hostHead \in [Domain -> NodeOrNull]
      /\ tail[d] \in NodeOrNull /\ Null \notin Node
  BY <1>1, NodesFinite DEF Inv, EntryInv, TypeOK
<1>4. /\ localHead[d] \in NodesFor[d] /\ NodesFor[d] \subseteq PluginNodes
      /\ tail[d] # Null => tail[d] \in NodesFor[d]
  BY <1>1, NodesApart DEF Inv, EntryInv, LocalInv
<1> DEFINE h == HostChain(d)
           afterUs == IF tail[d] = Null THEN Null ELSE next[tail[d]]
           before == {x \in Range(h) : next[x] = localHead[d]}
<1>5. IF hostHead[d] = localHead[d]
      THEN /\ hostHead' = [hostHead EXCEPT ![d] = afterUs]
           /\ next' = [x \in Node |-> IF x = tail[d] THEN Null ELSE next[x]]
      ELSE /\ next' = [x \in Node |-> IF x = tail[d] THEN Null
                                      ELSE IF x \in before THEN afterUs
                                      ELSE next[x]]
           /\ hostHead' = hostHead
  BY <1>1, <1>2 DEF Unsplice, HostChain
<1>6. /\ h \in Seq(Node) /\ Len(h) \in Nat
      /\ hostHead[d] = IF h = << >> THEN Null ELSE h[1]
      /\ \A i, j \in 1 .. Len(h) : h[i] = h[j] => i = j
      /\ \A i \in 1 .. Len(h) : next[h[i]] = IF i = Len(h) THEN Null ELSE h[i + 1]
      /\ h = << >> <=> Len(h) = 0
  BY <1>1, HostChainFacts DEF IsPath
<1>7. \A x : x \in Range(h) <=> \E i \in 1 .. Len(h) : x = h[i]
  BY <1>6 DEF Range
<1>8. Linked(d) <=> tail[d] # Null
  BY <1>1 DEF Linked
<1>9. CASE tail[d] = Null
  <2>1. \A i \in 1 .. Len(h) : h[i] \notin PluginNodes
    BY <1>1, <1>8, <1>9 DEF Inv, EntryInv, ChainInv
  <2> HIDE DEF h
  <2>2. hostHead[d] # localHead[d]
    BY <1>1, <1>4, <1>6, <2>1
  <2>3. before = {}
    <3>1. ASSUME NEW i \in 1 .. Len(h) PROVE next[h[i]] # localHead[d]
      BY <1>1, <1>4, <1>6, <2>1
    <3> QED BY <1>7, <3>1
  <2>4. next' = [x \in Node |-> next[x]]
    BY <1>3, <1>5, <1>9, <2>2, <2>3
  <2>5. next' = next /\ hostHead' = hostHead
    BY <1>3, <1>5, <2>2, <2>4
  <2> QED BY <1>1, <1>2, <1>9, <2>5
<1>10. CASE tail[d] # Null
  <2>1. PICK j, k \in 0 .. Len(h) : SegmentAt(d, j, k)
    BY <1>1, <1>8, <1>10 DEF Inv, EntryInv, ChainInv
  <2>2. j < k /\ k <= Len(h) /\ h[j + 1] = localHead[d] /\ h[k] = tail[d]
    BY <2>1 DEF SegmentAt
  <2> HIDE DEF h
  <2>3. j \in Nat /\ k \in Nat /\ j + 1 \in 1 .. Len(h) /\ k \in 1 .. Len(h)
    BY <1>6, <2>2
  <2>4. CASE j = 0
    <3>1. hostHead[d] = localHead[d]
      BY <1>6, <2>2, <2>3, <2>4
    <3>2. next' = [x \in Node |-> IF x = tail[d] THEN Null ELSE next[x]]
      BY <1>5, <3>1
    <3>3. next' = Relinked(d, j)
      BY <2>4, <3>2 DEF Relinked
    <3>4. hostHead' = [hostHead EXCEPT ![d] = next[tail[d]]]
      BY <1>5, <1>10, <3>1
    <3> QED BY <1>1, <1>2, <1>8, <1>10, <2>1, <2>4, <3>3, <3>4 DEF h
  <2>5. CASE j # 0
    <3>1. j \in 1 .. Len(h) /\ j > 0
      BY <2>3, <2>5
    <3>2. hostHead[d] # localHead[d]
      BY <1>6, <2>2, <2>3, <2>5
    <3>3. \A i \in 1 .. Len(h) : next[h[i]] = localHead[d] <=> i = j
      <4>1. ASSUME NEW i \in 1 .. Len(h) PROVE next[h[i]] = localHead[d] <=> i = j
        BY <1>1, <1>6, <2>2, <2>3, <3>1
      <4> QED BY <4>1
    <3>4. \A x : x \in before <=> x = h[j]
      BY <1>7, <3>1, <3>3
    <3>5. next' = [x \in Node |-> IF x = tail[d] THEN Null
                                  ELSE IF x = h[j] THEN next[tail[d]] ELSE next[x]]
      BY <1>5, <1>10, <3>2, <3>4
    <3>6. next' = Relinked(d, j) /\ hostHead' = hostHead
      BY <1>5, <3>1, <3>2, <3>5 DEF Relinked, h
    <3> QED BY <1>1, <1>2, <1>8, <1>10, <2>1, <2>5, <3>6 DEF h
  <2> QED BY <2>4, <2>5
<1> QED BY <1>9, <1>10

(* A hook writes the walk of the host's chain of its domain.               *)
LEMMA HookFacts ==
  ASSUME Inv, pc \in {"loadHook", "unloadHook"}, NEW d, d = Domains[at]
  PROVE  /\ at \in 1 .. Len(Domains) /\ d \in Domain
         /\ RefreshCache(d) => walk' = [walk EXCEPT ![d] = HostChain(d)]
<1>1. at \in 1 .. Len(Domains) /\ d \in Domain
  BY DomainsFinite DEF Inv, EntryInv, PhaseInv
<1>2. redirect[HeadOf(d)] # Null
  <2>1. CASE pc = "loadHook"
    <3>1. tail[d] # Null
      BY <2>1 DEF Inv, EntryInv, PhaseInv, Linked
    <3> QED BY <1>1, <3>1 DEF Inv, EntryInv, LocalInv
  <2>2. CASE pc = "unloadHook"
    BY <2>2 DEF Inv, EntryInv, PhaseInv
  <2> QED BY <2>1, <2>2
<1>3. redirect[CacheOf(d)] # Null
  BY <1>1, <1>2 DEF Inv, EntryInv, RedirectInv
<1>4. redirect[HeadOf(d)].of = d /\ redirect[CacheOf(d)].of = d
  BY <1>1, <1>2, <1>3, CounterpartFacts DEF Inv, EntryInv, RedirectInv
<1> QED BY <1>1, <1>2, <1>3, <1>4 DEF RefreshCache, HostChain

-----------------------------------------------------------------------------
(* Every step keeps the types, the count of the nodes among them.          *)
LEMMA StepType ==
  ASSUME Inv, Next
  PROVE  TypeOK'
<1>1. /\ {mapped, global, booted, ended} \subseteq BOOLEAN
      /\ next \in [Node -> NodeOrNull]
      /\ hostHead \in [Domain -> NodeOrNull] /\ localHead \in [Domain -> NodeOrNull]
      /\ tail \in [Domain -> NodeOrNull]
      /\ walk \in [Domain -> Seq(Node)]
      /\ redirect \in [Type -> Range(HostAnchors) \cup {Null}]
      /\ at \in 1 .. Len(IF pc = "transfer" THEN PluginAnchors ELSE Domains) + 1
      /\ {slow, fast, n} \subseteq NodeOrNull
      /\ count \in 0 .. Cardinality(Node)
      /\ pc # "inspect" => NoScan
  BY DEF Inv, EntryInv, TypeOK
<1>2. /\ Len(Domains) \in Nat /\ Len(PluginAnchors) \in Nat
      /\ DOMAIN Domains = 1 .. Len(Domains)
      /\ DOMAIN PluginAnchors = 1 .. Len(PluginAnchors)
      /\ \A i \in 1 .. Len(Domains) : Domains[i] \in Domain
      /\ \A i \in 1 .. Len(PluginAnchors) : PluginAnchors[i] \in Type
  BY EntryAssumption, DomainsFinite
<1>3. \A d \in Domain : NodesFor[d] \subseteq Node
  BY NodesApart
<1>4. 0 \in 0 .. Cardinality(Node)
  BY NodesFinite, FS_CardinalityType
<1>5. \A t \in Type : Counterpart(t) \in Range(HostAnchors) \cup {Null}
  BY CounterpartFacts
<1>6. PluginNodes \subseteq Node
  BY DEF Node
<1>7. /\ pc = "idle" => at = 1
      /\ pc \in {"inspect", "loadHook", "unloadHook", "close"} => at \in 1 .. Len(Domains)
  BY DEF Inv, EntryInv, PhaseInv
<1>8. CASE Map
  <2>1. PICK i \in Images :
          /\ next' = [x \in Node |-> IF x \in PluginNodes THEN i.next[x] ELSE next[x]]
          /\ localHead' = i.head
    BY <1>8 DEF Map
  <2>2. /\ i.next \in [PluginNodes -> PluginNodes \cup {Null}]
        /\ i.head \in [Domain -> PluginNodes \cup {Null}]
    BY NodesAssumption
  <2>3. next' \in [Node -> NodeOrNull] /\ localHead' \in [Domain -> NodeOrNull]
    BY <1>1, <1>6, <2>1, <2>2 DEF NodeOrNull
  <2> QED BY <1>1, <1>8, <2>3 DEF Map, Idle, TypeOK, host, scan, NoScan
<1>9. CASE Unmap
  <2>1. /\ next' \in [Node -> NodeOrNull] /\ localHead' \in [Domain -> NodeOrNull]
        /\ tail' \in [Domain -> NodeOrNull]
        /\ redirect' \in [Type -> Range(HostAnchors) \cup {Null}]
    BY <1>1, <1>9 DEF Unmap, NodeOrNull
  <2> QED BY <1>1, <1>9, <2>1 DEF Unmap, Idle, TypeOK, host, scan, NoScan
<1>10. CASE Construct
  <2>1. LateNode.of \in Domain /\ LateNode.node \in NodeOrNull
    BY NodesApart DEF NodeOrNull
  <2>2. next' \in [Node -> NodeOrNull] /\ hostHead' \in [Domain -> NodeOrNull]
    BY <1>1, <1>10, <2>1 DEF Construct
  <2> QED BY <1>1, <1>10, <2>2 DEF Construct, Idle, TypeOK, image, local, scan, NoScan
<1>11. CASE Bootstrap \/ Shutdown
  <2>1. at' = 1 /\ at' \in 1 .. Len(PluginAnchors) + 1 /\ at' \in 1 .. Len(Domains) + 1
    BY <1>2, <1>11 DEF Bootstrap, Shutdown
  <2> QED BY <1>1, <1>11, <2>1
          DEF Bootstrap, Shutdown, Idle, TypeOK, image, host, local, scan, NoScan
<1>12. CASE Transfer
  <2>1. redirect' \in [Type -> Range(HostAnchors) \cup {Null}]
    BY <1>1, <1>2, <1>5, <1>12 DEF Transfer
  <2>2. at' \in 1 .. Len(PluginAnchors) + 1
    BY <1>2, <1>12 DEF Transfer
  <2> QED BY <1>1, <1>12, <2>1, <2>2 DEF Transfer, TypeOK, image, host, local, scan, NoScan
<1>13. CASE EndTransfer \/ Return
  <2>1. at' = 1 /\ at' \in 1 .. Len(Domains) + 1
    BY <1>2, <1>13 DEF EndTransfer, Return
  <2> QED BY <1>1, <1>13, <2>1
          DEF EndTransfer, Return, TypeOK, image, host, local, scan, NoScan
<1>14. CASE BeginInspect
  <2>1. localHead[Domains[at]] \in NodeOrNull
    BY <1>1, <1>2, <1>14 DEF BeginInspect
  <2> QED BY <1>1, <1>14, <2>1 DEF BeginInspect, TypeOK, image, host, local
<1>15. CASE pc = "inspect" /\ Inspect
  <2>1. next' = next /\ UNCHANGED <<image, booted, ended, host, local, redirect, pc, at>>
    BY <1>15 DEF Inspect, Coupler!Next, Coupler!Race, Coupler!StartCount, Coupler!Count,
             Coupler!Return, Coupler!chain
  <2> QED BY <1>1, <1>15, <2>1, StepScan DEF TypeOK, image, host, local
<1>16. ASSUME Inspected PROVE {slow', fast', n'} \subseteq NodeOrNull /\ count' = 0 /\ NoScan'
  BY <1>16 DEF Inspected, NoScan, NodeOrNull, Coupler!None
<1>17. ASSUME NextDomain, pc \in {"inspect", "loadHook"}
       PROVE  pc' = "load" /\ at' \in 1 .. Len(Domains) + 1
  BY <1>2, <1>7, <1>17 DEF NextDomain
<1>18. CASE Refuse
  <2>1. pc' = "load" /\ at' \in 1 .. Len(Domains) + 1
    BY <1>17, <1>18 DEF Refuse, Inspected
  <2> QED BY <1>1, <1>4, <1>16, <1>18, <2>1 DEF Refuse, TypeOK, image, host, local
<1>19. CASE NotSpliced
  <2>1. pc' = "load" /\ at' \in 1 .. Len(Domains) + 1 /\ pc = "inspect"
    BY <1>17, <1>19 DEF NotSpliced, Inspected
  <2>2. redirect' \in [Type -> Range(HostAnchors) \cup {Null}]
    BY <1>1, <1>2, <1>5, <1>7, <1>19, <2>1, TypesApart DEF NotSpliced, OpenPortal
  <2> QED BY <1>1, <1>4, <1>16, <1>19, <2>1, <2>2 DEF NotSpliced, TypeOK, image, host, local
<1>20. CASE Splice
  <2> DEFINE d == Domains[at]
             s == ChainFrom(next, localHead[d])
  <2>1. /\ at \in 1 .. Len(Domains) /\ d \in Domain
        /\ s[Len(s)] \in NodesFor[d] /\ s[1] \in NodesFor[d]
        /\ next' = [next EXCEPT ![s[Len(s)]] = hostHead[d]]
        /\ hostHead' = [hostHead EXCEPT ![d] = s[1]]
        /\ tail' = [tail EXCEPT ![d] = s[Len(s)]]
        /\ redirect' = [redirect EXCEPT ![HeadOf(d)] = HeadOf(d), ![CacheOf(d)] = CacheOf(d)]
        /\ ~global
    <3> HIDE DEF d, s
    <3>1. d = Domains[at] /\ s = ChainFrom(next, localHead[d])
      BY DEF d, s
    <3>2. 1 \in 1 .. Len(s) /\ Len(s) \in 1 .. Len(s)
      BY <1>20, <3>1, SpliceFacts
    <3> QED BY <1>20, <3>1, <3>2, SpliceFacts
  <2> HIDE DEF d, s
  <2>2. s[1] \in NodeOrNull /\ s[Len(s)] \in NodeOrNull
    BY <1>3, <2>1 DEF NodeOrNull
  <2>3. next' \in [Node -> NodeOrNull] /\ hostHead' \in [Domain -> NodeOrNull]
        /\ tail' \in [Domain -> NodeOrNull]
    BY <1>1, <2>1, <2>2
  <2>4. {HeadOf(d), CacheOf(d)} \subseteq Range(HostAnchors) /\ HeadOf(d) \in Type
    BY <2>1, EntryAssumption, TypesApart
  <2>5. redirect' \in [Type -> Range(HostAnchors) \cup {Null}]
    BY <1>1, <2>1, <2>4
  <2>6. pc' = "loadHook" /\ Inspected
        /\ UNCHANGED <<image, booted, ended, walk, localHead, at>>
    BY <1>20 DEF Splice
  <2> QED BY <1>1, <1>4, <1>16, <2>1, <2>3, <2>5, <2>6 DEF TypeOK, image, Inspected
<1>21. CASE LoadHook \/ UnloadHook
  <2> DEFINE d == Domains[at]
  <2>1. at \in 1 .. Len(Domains) /\ d \in Domain /\ walk' = [walk EXCEPT ![d] = HostChain(d)]
    BY <1>21, HookFacts DEF LoadHook, UnloadHook
  <2> HIDE DEF d
  <2>2. HostChain(d) \in Seq(Node)
    BY <2>1, HostChainFacts
  <2>3. walk' \in [Domain -> Seq(Node)]
    BY <1>1, <2>1, <2>2
  <2>4. /\ at' \in 1 .. Len(Domains) + 1
        /\ pc' \in {"load", "close"} /\ pc \notin {"inspect", "transfer"}
        /\ UNCHANGED <<image, booted, ended, next, hostHead, local, redirect, scan>>
    BY <1>2, <1>21, <2>1 DEF LoadHook, UnloadHook, NextDomain
  <2> QED BY <1>1, <2>3, <2>4 DEF TypeOK, image, local, scan, NoScan
<1>22. CASE NotUnspliced
  BY <1>1, <1>22 DEF NotUnspliced, TypeOK, image, host, local, scan, NoScan
<1>23. CASE Unsplice
  <2> DEFINE d == Domains[at]
  <2>1. d \in Domain
    BY <1>23, UnspliceFacts
  <2>2. next' \in [Node -> NodeOrNull] /\ hostHead' \in [Domain -> NodeOrNull]
    <3>1. CASE next' = next /\ hostHead' = hostHead
      BY <1>1, <3>1
    <3>2. ASSUME NEW j \in 0 .. Len(HostChain(d)),
                 next' = Relinked(d, j), Linked(d),
                 hostHead' = IF j = 0 THEN [hostHead EXCEPT ![d] = next[tail[d]]]
                             ELSE hostHead
          PROVE  next' \in [Node -> NodeOrNull] /\ hostHead' \in [Domain -> NodeOrNull]
      <4>1. tail[d] \in Node
        BY <1>1, <2>1, <3>2 DEF Linked, NodeOrNull
      <4>2. next[tail[d]] \in NodeOrNull /\ Null \in NodeOrNull
        BY <1>1, <4>1 DEF NodeOrNull
      <4> HIDE DEF d
      <4> QED BY <1>1, <2>1, <3>2, <4>2 DEF Relinked
    <3> QED BY <1>23, <3>1, <3>2, UnspliceFacts
  <2>3. /\ pc = "unload" /\ pc' = "unloadHook"
        /\ UNCHANGED <<image, booted, ended, walk, local, redirect, at, scan>>
    BY <1>23 DEF Unsplice
  <2> QED BY <1>1, <2>2, <2>3 DEF TypeOK, image, local, scan, NoScan
<1>24. CASE ClosePortal
  <2>1. /\ pc = "close" /\ pc' = "unload" /\ at' \in 1 .. Len(Domains) + 1
        /\ UNCHANGED <<image, booted, ended, next, host, scan>>
    BY <1>2, <1>7, <1>24 DEF ClosePortal
  <2>2. /\ localHead' \in [Domain -> NodeOrNull] /\ tail' \in [Domain -> NodeOrNull]
        /\ redirect' \in [Type -> Range(HostAnchors) \cup {Null}]
    BY <1>1, <1>24 DEF ClosePortal, NodeOrNull
  <2> QED BY <1>1, <2>1, <2>2 DEF TypeOK, image, host, scan, NoScan
<1> QED BY <1>8, <1>9, <1>10, <1>11, <1>12, <1>13, <1>14, <1>15, <1>18, <1>19, <1>20,
           <1>21, <1>22, <1>23, <1>24
        DEF Next, Step, Inspect

-----------------------------------------------------------------------------
(* An entry point is where its steps say it is.                            *)
LEMMA StepPhase ==
  ASSUME Inv, Next
  PROVE  PhaseInv'
<1> USE DEF Loading, Unloading
<1>1. /\ mapped \in BOOLEAN /\ booted \in BOOLEAN /\ ended \in BOOLEAN /\ global \in BOOLEAN
      /\ tail \in [Domain -> NodeOrNull] /\ hostHead \in [Domain -> NodeOrNull]
      /\ localHead \in [Domain -> NodeOrNull]
      /\ redirect \in [Type -> Range(HostAnchors) \cup {Null}]
  BY DEF Inv, EntryInv, TypeOK
<1>2. PhaseInv
  BY DEF Inv, EntryInv
<1>3. /\ DOMAIN Domains = 1 .. Len(Domains)
      /\ \A i \in 1 .. Len(Domains) : Domains[i] \in Domain
  BY EntryAssumption, DomainsFinite
<1>4. CASE Map
  BY <1>2, <1>4 DEF Map, Idle, PhaseInv
<1>5. CASE Unmap
  BY <1>1, <1>2, <1>5 DEF Unmap, Idle, PhaseInv, host
<1>6. CASE Construct
  BY <1>2, <1>6 DEF Construct, Idle, PhaseInv, image, local
<1>7. CASE Bootstrap
  BY <1>2, <1>7 DEF Bootstrap, Idle, PhaseInv, MayBootstrap, image, host, local
<1>8. CASE Shutdown
  BY <1>2, <1>8 DEF Shutdown, Idle, PhaseInv, image, host, local
<1>9. CASE Transfer
  BY <1>2, <1>9 DEF Transfer, PhaseInv, MayBootstrap, image, host, local
<1>10. CASE EndTransfer \/ Return
  BY <1>2, <1>10 DEF EndTransfer, Return, PhaseInv, MayBootstrap, image, host, local
<1>11. CASE BeginInspect
  BY <1>2, <1>3, <1>11 DEF BeginInspect, PhaseInv, MayBootstrap, image, host, local
<1>12. CASE Inspect
  BY <1>2, <1>12 DEF Inspect, PhaseInv, MayBootstrap, image, host, local
<1>13. CASE Refuse \/ NotSpliced
  BY <1>2, <1>13 DEF Refuse, NotSpliced, Inspected, NextDomain, PhaseInv, MayBootstrap,
                     image, host, local
<1>14. CASE Splice
  <2> DEFINE d == Domains[at]
             s == ChainFrom(next, localHead[d])
  <2>1. d = Domains[at] /\ s = ChainFrom(next, localHead[d])
    OBVIOUS
  <2>2. at' = at /\ pc' = "loadHook" /\ pc = "inspect"
        /\ UNCHANGED <<image, booted, ended, localHead>>
    BY <1>14 DEF Splice, Inspected
  <2> HIDE DEF d, s
  <2>3. /\ at \in 1 .. Len(Domains) /\ d \in Domain
        /\ s[Len(s)] # Null /\ localHead[d] = s[1]
        /\ hostHead' = [hostHead EXCEPT ![d] = s[1]]
        /\ tail' = [tail EXCEPT ![d] = s[Len(s)]]
    <3>1. 1 \in 1 .. Len(s) /\ Len(s) \in 1 .. Len(s) /\ d \in Domain
      BY <1>14, <2>1, SpliceFacts
    <3>2. NodesFor[d] \subseteq Node
      BY <3>1, NodesApart
    <3> QED BY <1>14, <2>1, <3>1, <3>2, SpliceFacts, NodesFinite
  <2>4. MayBootstrap'
    BY <1>1, <1>2, <2>2, <2>3 DEF PhaseInv, MayBootstrap
  <2>5. Linked(Domains[at])'
    BY <1>1, <2>1, <2>2, <2>3 DEF Linked
  <2> QED BY <1>2, <2>2, <2>3, <2>4, <2>5 DEF PhaseInv, image
<1>15. CASE LoadHook
  BY <1>2, <1>15 DEF LoadHook, NextDomain, PhaseInv, MayBootstrap, image, local
<1>16. CASE NotUnspliced
  BY <1>2, <1>3, <1>16 DEF NotUnspliced, PhaseInv, image, host, local
<1>17. CASE Unsplice
  BY <1>2, <1>3, <1>17 DEF Unsplice, PhaseInv, image, local
<1>18. CASE UnloadHook
  BY <1>2, <1>18 DEF UnloadHook, PhaseInv, image, local
<1>19. CASE ClosePortal
  BY <1>2, <1>19 DEF ClosePortal, PhaseInv, image, host
<1> QED BY <1>4, <1>5, <1>6, <1>7, <1>8, <1>9, <1>10, <1>11, <1>12, <1>13, <1>14,
           <1>15, <1>16, <1>17, <1>18, <1>19 DEF Next, Step

(* Nothing is linked when the host may unmap the image.                    *)
LEMMA NothingLeft ==
  ASSUME Inv, pc = "idle", ~booted, NEW d \in Domain
  PROVE  tail[d] = Null /\ ~Linked(d)
<1>1. ~Due(d)
  BY DEF Due, Unloading
<1> QED BY <1>1 DEF Inv, EntryInv, ProgressInv, Linked

(* A domain is linked by its splice and by nothing else, and taken out by  *)
(* its unsplice and by nothing else.                                       *)
LEMMA LinkedStep ==
  ASSUME Inv, Next, NEW d \in Domain
  PROVE  /\ ~Splice /\ ~Unsplice => (Linked(d)' <=> Linked(d))
         /\ Splice => (Linked(d)' <=> Linked(d) \/ d = Domains[at])
         /\ Unsplice => (Linked(d)' <=> Linked(d) /\ d # Domains[at])
<1>1. tail \in [Domain -> NodeOrNull] /\ Null \notin Node
  BY NodesFinite DEF Inv, EntryInv, TypeOK
<1>2. pc \notin {"unloadHook", "close"} => (Linked(d) <=> tail[d] # Null)
  BY DEF Linked
<1>3. pc' \notin {"unloadHook", "close"} => (Linked(d)' <=> tail'[d] # Null)
  BY DEF Linked
<1>4. CASE Map \/ Construct \/ Bootstrap \/ Shutdown
  BY <1>2, <1>3, <1>4
     DEF Map, Construct, Bootstrap, Shutdown, Idle, host, local, Splice, Unsplice, Inspected
<1>5. CASE Unmap
  <2>1. pc = "idle" /\ pc' = "idle" /\ ~booted /\ tail'[d] = Null
    BY <1>5 DEF Unmap, Idle
  <2> QED BY <1>3, <2>1, NothingLeft DEF Splice, Unsplice, Inspected
<1>6. CASE Transfer \/ EndTransfer \/ BeginInspect
  BY <1>2, <1>3, <1>6
     DEF Transfer, EndTransfer, BeginInspect, local, Splice, Unsplice, Inspected
<1>7. CASE pc = "inspect" /\ Inspect
  BY <1>2, <1>3, <1>7 DEF Inspect, local, Splice, Unsplice
<1>8. CASE Refuse \/ NotSpliced
  <2>1. pc = "inspect" /\ pc' = "load" /\ tail' = tail
    BY <1>8 DEF Refuse, NotSpliced, Inspected, NextDomain, local
  <2> QED BY <1>2, <1>3, <2>1 DEF Splice, Unsplice
<1>9. CASE Splice
  <2> DEFINE e == Domains[at]
             s == ChainFrom(next, localHead[e])
  <2>1. e = Domains[at] /\ s = ChainFrom(next, localHead[e])
    OBVIOUS
  <2> HIDE DEF e, s
  <2>2. /\ pc = "inspect" /\ e \in Domain /\ tail' = [tail EXCEPT ![e] = s[Len(s)]]
        /\ s[Len(s)] # Null
    <3>1. Len(s) \in 1 .. Len(s) /\ e \in Domain
      BY <1>9, <2>1, SpliceFacts
    <3>2. NodesFor[e] \subseteq Node
      BY <3>1, NodesApart
    <3> QED BY <1>1, <1>9, <2>1, <3>1, <3>2, SpliceFacts
  <2>3. pc' = "loadHook"
    BY <1>9 DEF Splice
  <2> QED BY <1>1, <1>2, <1>3, <1>9, <2>1, <2>2, <2>3 DEF Unsplice
<1>10. CASE LoadHook
  BY <1>2, <1>3, <1>10 DEF LoadHook, NextDomain, local, Splice, Unsplice, Inspected
<1>11. CASE NotUnspliced
  <2>1. /\ pc = "unload" /\ pc' = "close" /\ tail' = tail /\ at' = at
        /\ Domains[at] = d => tail[d] = Null
    BY <1>11 DEF NotUnspliced, local, Inv, EntryInv, LocalInv
  <2> QED BY <1>2, <2>1 DEF Linked, Splice, Unsplice, Inspected, NotUnspliced
<1>12. CASE Unsplice
  <2>1. pc = "unload" /\ pc' = "unloadHook" /\ tail' = tail /\ at' = at
    BY <1>12 DEF Unsplice, local
  <2> QED BY <1>2, <1>12, <2>1 DEF Linked, Splice, Inspected
<1>13. CASE UnloadHook
  BY <1>13 DEF UnloadHook, local, Linked, Splice, Unsplice, Inspected
<1>14. CASE ClosePortal
  <2>1. /\ pc = "close" /\ pc' = "unload"
        /\ tail' = [tail EXCEPT ![Domains[at]] = Null]
    BY <1>14 DEF ClosePortal
  <2> QED BY <1>1, <1>3, <2>1 DEF Linked, Splice, Unsplice, Inspected
<1>15. CASE Return
  BY <1>2, <1>3, <1>15 DEF Return, local, Splice, Unsplice, Inspected
<1> QED BY <1>4, <1>5, <1>6, <1>7, <1>8, <1>9, <1>10, <1>11, <1>12, <1>13, <1>14, <1>15
        DEF Next, Step, Inspect

(* Every step keeps the anchors paired.                                    *)
LEMMA StepRedirect ==
  ASSUME Inv, Next
  PROVE  RedirectInv'
<1> DEFINE Own(r) == \A t \in Type : r[t] \in {Null, t}
           Shared(r) == \A t \in Both : t.kind \in {"directory", "arena"} => r[t] # Null
           Pair(r, d) == \A t \in TypesOf(d) \cap Both : r[t] # Null
<1>1. /\ redirect \in [Type -> Range(HostAnchors) \cup {Null}]
      /\ booted \in BOOLEAN /\ global \in BOOLEAN /\ mapped \in BOOLEAN
  BY DEF Inv, EntryInv, TypeOK
<1>2. RedirectInv /\ PhaseInv
  BY DEF Inv, EntryInv
<1>3. /\ DOMAIN PluginAnchors = 1 .. Len(PluginAnchors) /\ Len(PluginAnchors) \in Nat
      /\ \A i \in 1 .. Len(PluginAnchors) : PluginAnchors[i] \in Type
      /\ \A t \in Both : /\ t \in Range(HostAnchors) /\ t \in Type /\ t # Null
                         /\ \E i \in 1 .. Len(PluginAnchors) : PluginAnchors[i] = t
  BY EntryAssumption, CounterpartFacts DEF Both, Range
<1>4. ASSUME NEW d \in Domain, ~Splice
      PROVE  Linked(d)' => Linked(d)
  BY <1>4, LinkedStep
<1>5. \A t \in Type : Counterpart(t) \in {Null, t}
  BY CounterpartFacts
<1>6. CASE Map
  <2>1. \A t \in Type : redirect[t] = Null
    BY <1>2, <1>6 DEF Map, PhaseInv
  <2>2. redirect' = redirect /\ pc' = "idle" /\ booted' = FALSE /\ booted = FALSE
        /\ pc = "idle"
    BY <1>1, <1>2, <1>6 DEF Map, Idle, PhaseInv
  <2>3. \A d \in Domain : HeadOf(d) \in Type /\ CacheOf(d) \in Type
    BY CounterpartFacts
  <2>4. \A d \in Domain : ~Linked(d)
    BY <2>2, NothingLeft
  <2> QED BY <1>4, <1>6, <2>1, <2>2, <2>3, <2>4
          DEF RedirectInv, Transferred, Loading, Splice, Inspected, Map
<1>7. CASE Unmap
  <2>1. \A t \in Type : redirect'[t] = Null
    BY <1>7 DEF Unmap
  <2>2. pc' = "idle" /\ booted' = FALSE /\ booted = FALSE /\ pc = "idle"
    BY <1>1, <1>2, <1>7 DEF Unmap, Idle, PhaseInv
  <2>3. \A d \in Domain : HeadOf(d) \in Type /\ CacheOf(d) \in Type
    BY CounterpartFacts
  <2>4. \A d \in Domain : ~Linked(d)
    BY <2>2, NothingLeft
  <2> QED BY <1>4, <1>7, <2>1, <2>2, <2>3, <2>4
          DEF RedirectInv, Transferred, Loading, Splice, Inspected, Unmap
<1>8. CASE /\ UNCHANGED <<redirect, global>> /\ ~Splice
           /\ pc' # "transfer" /\ pc # "transfer"
           /\ booted' => booted
           /\ pc' \in Loading => pc \in Loading
  BY <1>2, <1>4, <1>8 DEF RedirectInv, Transferred, Loading, Counterpart
<1>9. CASE Bootstrap
  <2>1. /\ pc = "idle" /\ pc' = "transfer" /\ at' = 1 /\ UNCHANGED <<redirect, global>>
        /\ ~Splice
    BY <1>9 DEF Bootstrap, Idle, image, Splice, Inspected
  <2> QED BY <1>2, <1>3, <1>4, <2>1 DEF RedirectInv, Transferred, Loading
<1>10. CASE Transfer
  <2> DEFINE u == PluginAnchors[at]
  <2>1. /\ at \in 1 .. Len(PluginAnchors) /\ at' = at + 1 /\ pc = "transfer" /\ pc' = pc
        /\ redirect' = IF Counterpart(u) # Null
                       THEN [redirect EXCEPT ![u] = Counterpart(u)] ELSE redirect
        /\ global' = global
        /\ ~Splice
    BY <1>3, <1>10 DEF Transfer, image, Splice, Inspected
  <2>2. u \in Type
    BY <1>3, <2>1
  <2> HIDE DEF u
  <2>3. \A t \in Type : /\ redirect'[t] = IF t = u /\ Counterpart(t) # Null
                                          THEN t ELSE redirect[t]
                        /\ Counterpart(t)' = Counterpart(t)
    BY <1>1, <1>5, <2>1, <2>2 DEF Counterpart
  <2>4. \A d \in Domain :
          /\ HeadOf(d) \in Type /\ CacheOf(d) \in Type
          /\ global => Counterpart(HeadOf(d)) = Null /\ Counterpart(CacheOf(d)) = Null
    BY CounterpartFacts
  <2>5. \A i \in 1 .. Len(PluginAnchors) : i < at' => i < at \/ PluginAnchors[i] = u
    BY <1>3, <2>1 DEF u
  <2>6. \A i \in 1 .. Len(PluginAnchors) :
          Transferred(i)' /\ Counterpart(PluginAnchors[i])' # Null =>
            redirect'[PluginAnchors[i]] # Null
    <3>1. ASSUME NEW i \in 1 .. Len(PluginAnchors), Transferred(i)',
                 Counterpart(PluginAnchors[i])' # Null
          PROVE  redirect'[PluginAnchors[i]] # Null
      <4>1. i < at \/ PluginAnchors[i] = u
        BY <2>1, <2>5, <3>1 DEF Transferred, Loading
      <4>2. PluginAnchors[i] \in Type /\ Counterpart(PluginAnchors[i]) # Null
        BY <1>3, <2>3, <3>1
      <4>3. PluginAnchors[i] # Null
        BY <4>2, EntryAssumption
      <4> QED BY <1>2, <2>1, <2>3, <4>1, <4>2, <4>3 DEF RedirectInv, Transferred
    <3> QED BY <3>1
  <2>7. \A t \in Type : redirect[t] # Null => redirect'[t] # Null
    BY <2>3, EntryAssumption
  <2>8. \A d \in Domain : Linked(d)' => \A t \in TypesOf(d) \cap Both : redirect'[t] # Null
    BY <1>2, <1>3, <1>4, <2>1, <2>7 DEF RedirectInv
  <2> QED BY <1>2, <2>1, <2>3, <2>4, <2>6, <2>8 DEF RedirectInv
<1>11. CASE EndTransfer
  <2>1. /\ pc = "transfer" /\ pc' = "load" /\ UNCHANGED <<redirect, global>> /\ ~Splice
        /\ \A i \in 1 .. Len(PluginAnchors) : i < at
    BY <1>1, <1>3, <1>11 DEF EndTransfer, image, Splice, Inspected, Inv, EntryInv, TypeOK
  <2>2. ASSUME NEW t \in Both, Counterpart(t) # Null PROVE redirect[t] # Null
    BY <1>2, <1>3, <2>1, <2>2 DEF RedirectInv, Transferred
  <2>3. \A d \in Domain : redirect[HeadOf(d)] = Null <=> redirect[CacheOf(d)] = Null
    <3>1. ASSUME NEW d \in Domain
          PROVE  redirect[HeadOf(d)] = Null <=> redirect[CacheOf(d)] = Null
      <4>1. HeadOf(d) \in Both /\ CacheOf(d) \in Both
        BY TypesApart
      <4>2. CASE global
        BY <1>2, <4>2 DEF RedirectInv
      <4>3. CASE ~global
        BY <2>2, <4>1, <4>3, CounterpartFacts
      <4> QED BY <4>2, <4>3
    <3> QED BY <3>1
  <2>4. \A t \in Both : t.kind \in {"directory", "arena"} => redirect[t] # Null
    BY <1>3, <2>2, CounterpartFacts
  <2>5. \A i \in 1 .. Len(PluginAnchors) :
          Counterpart(PluginAnchors[i])' # Null => redirect'[PluginAnchors[i]] # Null
    BY <1>2, <2>1 DEF RedirectInv, Transferred, Counterpart
  <2> QED BY <1>2, <1>4, <2>1, <2>3, <2>4, <2>5 DEF RedirectInv
<1>12. CASE NotSpliced \/ Splice
  <2> DEFINE d == Domains[at]
             hd == Counterpart(HeadOf(d))
             ca == Counterpart(CacheOf(d))
  <2>1. /\ redirect' = [redirect EXCEPT ![HeadOf(d)] = hd, ![CacheOf(d)] = ca]
        /\ pc = "inspect" /\ pc' \in {"load", "loadHook"}
        /\ UNCHANGED <<global, booted>>
    BY <1>12 DEF NotSpliced, Splice, OpenPortal, Inspected, NextDomain, image
  <2>2. d \in Domain /\ booted
    BY <1>2, <2>1, DomainsFinite DEF PhaseInv, Loading
  <2> HIDE DEF d
  <2>3. /\ HeadOf(d) \in Type /\ CacheOf(d) \in Type /\ HeadOf(d) # CacheOf(d)
        /\ hd = (IF global THEN Null ELSE HeadOf(d)) /\ HeadOf(d) # Null
        /\ ca = (IF global THEN Null ELSE CacheOf(d)) /\ CacheOf(d) # Null
    BY <2>2, CounterpartFacts, TypesApart
  <2> HIDE DEF hd, ca
  <2>4. \A t \in Type : redirect'[t] = IF t \in {HeadOf(d), CacheOf(d)}
                                       THEN (IF global THEN Null ELSE t) ELSE redirect[t]
    BY <1>1, <2>1, <2>3
  <2>5. /\ \A t \in Type : redirect'[t] \in {Null, t}
        /\ \A t \in Type : redirect[t] # Null => redirect'[t] # Null
    BY <1>2, <2>2, <2>4, EntryAssumption DEF RedirectInv
  <2>6. \A e \in Domain : HeadOf(e) \in Type /\ CacheOf(e) \in Type
    BY CounterpartFacts
  <2>7. \A e \in Domain : /\ HeadOf(e) \in {HeadOf(d), CacheOf(d)} <=> e = d
                          /\ CacheOf(e) \in {HeadOf(d), CacheOf(d)} <=> e = d
    BY <2>2, TypesApart
  <2>8. /\ \A e \in Domain : redirect'[HeadOf(e)] = Null <=> redirect'[CacheOf(e)] = Null
        /\ global => \A e \in Domain : redirect'[HeadOf(e)] = Null /\ redirect'[CacheOf(e)] = Null
    BY <1>2, <2>1, <2>3, <2>4, <2>6, <2>7, ZenonT(30) DEF RedirectInv
  <2>9. \A t \in Both : t.kind \in {"directory", "arena"} => redirect'[t] # Null
    BY <1>2, <1>3, <2>1, <2>2, <2>5 DEF RedirectInv
  <2>10. ASSUME NEW i \in 1 .. Len(PluginAnchors), Counterpart(PluginAnchors[i])' # Null
         PROVE  redirect'[PluginAnchors[i]] # Null
    BY <1>2, <1>3, <2>1, <2>5, <2>10 DEF RedirectInv, Transferred, Counterpart, Loading
  <2>11. ASSUME NEW e \in Domain, Linked(e)', NEW t \in TypesOf(e) \cap Both
         PROVE  redirect'[t] # Null
    <3>1. CASE Linked(e)
      BY <1>2, <1>3, <2>5, <2>11, <3>1 DEF RedirectInv
    <3>2. CASE ~Linked(e)
      <4>1. Splice /\ e = d
        BY <2>11, <3>2, LinkedStep DEF d
      <4>2. ~global
        BY <4>1, SpliceFacts
      <4>3. t \in Range(HostAnchors) /\ t \in Type /\ Counterpart(t) = t /\ t # Null
        BY <1>3, <4>2, CounterpartFacts
      <4>4. redirect[t] # Null
        BY <1>2, <1>3, <2>1, <4>3 DEF RedirectInv, Transferred, Loading
      <4> QED BY <2>5, <4>3, <4>4
    <3> QED BY <3>1, <3>2
  <2> QED BY <2>1, <2>5, <2>8, <2>9, <2>10, <2>11 DEF RedirectInv
<1>13. CASE ClosePortal
  <2> DEFINE d == Domains[at]
  <2>1. /\ redirect' = [redirect EXCEPT ![HeadOf(d)] = Null, ![CacheOf(d)] = Null]
        /\ pc = "close" /\ pc' = "unload" /\ UNCHANGED <<global, booted>> /\ ~booted
        /\ d \in Domain
    BY <1>2, <1>13, DomainsFinite DEF ClosePortal, image, PhaseInv, Unloading
  <2>2. ~Linked(d) /\ ~Splice
    BY <2>1 DEF Linked, Splice, Inspected
  <2> HIDE DEF d
  <2>3. \A t \in Type : redirect'[t] = IF t \in {HeadOf(d), CacheOf(d)} THEN Null
                                       ELSE redirect[t]
    BY <1>1, <2>1
  <2>4. \A e \in Domain : /\ HeadOf(e) \in {HeadOf(d), CacheOf(d)} <=> e = d
                          /\ CacheOf(e) \in {HeadOf(d), CacheOf(d)} <=> e = d
                          /\ HeadOf(e) \in Type /\ CacheOf(e) \in Type
    BY <2>1, TypesApart, CounterpartFacts
  <2>5. ASSUME NEW e \in Domain, Linked(e)', NEW t \in TypesOf(e) \cap Both
        PROVE  redirect'[t] # Null
    <3>1. Linked(e) /\ e # d
      BY <1>4, <2>2, <2>5
    <3>2. t.of = e /\ t \in Type /\ HeadOf(d).of = d /\ CacheOf(d).of = d
      BY <1>3, <2>1, <2>5, TypesApart, CounterpartFacts
    <3> QED BY <1>2, <2>3, <2>5, <3>1, <3>2 DEF RedirectInv
  <2> QED BY <1>2, <2>1, <2>3, <2>4, <2>5, ZenonT(100) DEF RedirectInv, Transferred, Loading
<1>14. CASE Shutdown \/ Construct
  <2>1. /\ UNCHANGED <<redirect, global>> /\ ~Splice
        /\ pc' # "transfer" /\ pc # "transfer"
        /\ booted' => booted
        /\ pc' \notin Loading
    BY <1>14 DEF Shutdown, Construct, Idle, image, Splice, Inspected, Loading
  <2> QED BY <1>8, <2>1
<1>15. CASE pc = "inspect" /\ Inspect
  <2>1. /\ UNCHANGED <<redirect, global, booted, pc>>
    BY <1>15 DEF Inspect, image
  <2>2. \A d \in Domain : Linked(d)' => Linked(d)
    BY <1>15 DEF Inspect, Linked, local
  <2> QED BY <1>2, <1>15, <2>1, <2>2 DEF RedirectInv, Transferred, Loading, Counterpart
<1>16. CASE BeginInspect \/ Refuse \/ LoadHook \/ NotUnspliced \/ Unsplice \/ UnloadHook
            \/ Return
  <2>1. /\ UNCHANGED <<redirect, global, booted>>
        /\ pc' # "transfer" /\ pc # "transfer"
        /\ pc' \in Loading => pc \in Loading
    BY <1>16 DEF BeginInspect, Refuse, LoadHook, NotUnspliced, Unsplice, UnloadHook, Return,
                 NextDomain, Inspected, image, Loading
  <2>2. ~Splice
    BY <1>16 DEF BeginInspect, Refuse, LoadHook, NotUnspliced, Unsplice, UnloadHook, Return,
                 NextDomain, Inspected, Splice
  <2> QED BY <1>8, <2>1, <2>2
<1> QED BY <1>6, <1>7, <1>9, <1>10, <1>11, <1>12, <1>13, <1>14, <1>15, <1>16
        DEF Next, Step, Inspect

-----------------------------------------------------------------------------
(* A step that writes none of the pointers of a host's chain keeps it.     *)
LEMMA ChainKept ==
  ASSUME Inv, TypeOK', NEW d \in Domain,
         hostHead'[d] = hostHead[d],
         \A i \in 1 .. Len(HostChain(d)) : next'[HostChain(d)[i]] = next[HostChain(d)[i]],
         Linked(d)' <=> Linked(d),
         Linked(d) => localHead'[d] = localHead[d] /\ tail'[d] = tail[d]
  PROVE  ChainInv(d)' /\ HostChain(d)' = HostChain(d)
<1> DEFINE w == HostChain(d)
           M == DomainNodes(d)
<1>1. IsPath(w, M, next, hostHead[d]) /\ M \subseteq Node
  BY HostChainFacts, NodesApart
<1>2. next' \in [Node -> NodeOrNull]
  BY DEF TypeOK
<1>3. IsPath(w, M, next', hostHead'[d])
  <2> HIDE DEF w, M
  <2>1. \A i \in 1 .. Len(w) : next'[w[i]] = next[w[i]]
    BY DEF w
  <2>2. IsPath(w, M, next', hostHead[d])
    BY <1>1, <2>1, PathKept
  <2> QED BY <2>2
<1>4. ChainFrom(next', hostHead'[d]) = w
  <2> HIDE DEF w, M
  <2> QED BY <1>1, <1>2, <1>3, DomainPath, ZenonT(100)
<1>5. HostChain(d)' = HostChain(d)
  BY <1>4 DEF HostChain
<1>6. ChainInv(d)
  BY DEF Inv, EntryInv
<1>7. \A j, k : Linked(d) => (SegmentAt(d, j, k)' <=> SegmentAt(d, j, k))
  BY <1>5 DEF SegmentAt
<1>8. IsPath(HostChain(d)', DomainNodes(d), next', hostHead'[d])
  BY <1>3, <1>5
<1> QED BY <1>5, <1>6, <1>7, <1>8 DEF ChainInv, DomainNodes

(* A step that writes none of its pointers keeps a plugin's local chain.   *)
LEMMA LocalKept ==
  ASSUME Inv, NEW d \in Domain,
         localHead'[d] = localHead[d], tail'[d] = tail[d],
         \A x \in NodesFor[d] : next'[x] = next[x],
         Linked(d)' <=> Linked(d),
         redirect[HeadOf(d)] # Null => redirect'[HeadOf(d)] # Null
  PROVE  LocalInv(d)'
<1>1. LocalInv(d)
  BY DEF Inv, EntryInv
<1> QED BY <1>1 DEF LocalInv

(* A step that changes neither the chain nor the cached walk keeps the     *)
(* walk current, unless it is the hook that is due.                        *)
LEMMA CacheKept ==
  ASSUME Inv, NEW d \in Domain, walk'[d] = walk[d], HostChain(d)' = HostChain(d),
         ~(pc \in {"loadHook", "unloadHook"} /\ Domains[at] = d)
  PROVE  CacheInv(d)'
<1>1. CacheInv(d)
  BY DEF Inv, EntryInv
<1> QED BY <1>1 DEF CacheInv

(* The pointers' part of EntryInv.                                         *)
SegmentsInv == \A d \in Domain : ChainInv(d) /\ LocalInv(d) /\ CacheInv(d)

(* A step that writes no pointer and opens or closes no portal.            *)
LEMMA QuietSegments ==
  ASSUME Inv, TypeOK', UNCHANGED <<next, host, local>>,
         pc \notin {"loadHook", "unloadHook"},
         \A d \in Domain : Linked(d)' <=> Linked(d),
         \A d \in Domain : redirect[HeadOf(d)] # Null => redirect'[HeadOf(d)] # Null
  PROVE  SegmentsInv'
<1>1. ASSUME NEW d \in Domain PROVE ChainInv(d)' /\ HostChain(d)' = HostChain(d)
  BY ChainKept DEF host, local
<1>2. ASSUME NEW d \in Domain PROVE LocalInv(d)' /\ CacheInv(d)'
  BY <1>1, LocalKept, CacheKept DEF host, local
<1> QED BY <1>1, <1>2 DEF SegmentsInv

(* A hook refreshes the cached walk of its domain, and of no other.        *)
LEMMA HookSegments ==
  ASSUME Inv, TypeOK', Next, LoadHook \/ UnloadHook
  PROVE  SegmentsInv'
<1> DEFINE e == Domains[at]
<1>1. /\ pc \in {"loadHook", "unloadHook"} /\ pc' \in {"load", "close"}
      /\ UNCHANGED <<next, hostHead, local, redirect>>
      /\ e \in Domain /\ walk' = [walk EXCEPT ![e] = HostChain(e)]
  BY HookFacts DEF LoadHook, UnloadHook, NextDomain
<1>2. \A d \in Domain : Linked(d)' <=> Linked(d)
  BY <1>1, LinkedStep DEF Splice, Unsplice, Inspected
<1>3. walk \in [Domain -> Seq(Node)]
  BY DEF Inv, EntryInv, TypeOK
<1>4. ASSUME NEW d \in Domain PROVE ChainInv(d)' /\ HostChain(d)' = HostChain(d)
  BY <1>1, <1>2, ChainKept DEF local
<1>5. ASSUME NEW d \in Domain PROVE LocalInv(d)'
  BY <1>1, <1>2, LocalKept DEF local
<1>6. ASSUME NEW d \in Domain PROVE CacheInv(d)'
  <2>1. CASE d = e
    BY <1>1, <1>3, <1>4, <2>1 DEF CacheInv
  <2>2. CASE d # e
    BY <1>1, <1>3, <1>4, <2>2, CacheKept
  <2> QED BY <2>1, <2>2
<1> QED BY <1>4, <1>5, <1>6 DEF SegmentsInv

(* An image is mapped and unmapped while no node of it is in a chain of    *)
(* the host.                                                               *)
LEMMA ImageSegments ==
  ASSUME Inv, TypeOK', Next, Map \/ Unmap
  PROVE  SegmentsInv'
<1>1. /\ pc = "idle" /\ pc' = "idle" /\ ~booted
      /\ hostHead' = hostHead /\ walk' = walk
      /\ next \in [Node -> NodeOrNull]
      /\ \A d \in Domain : tail'[d] = Null
  <2>1. CASE Map
    BY <2>1 DEF Map, Idle, host, Inv, EntryInv, PhaseInv, TypeOK
  <2>2. CASE Unmap
    BY <2>2 DEF Unmap, Idle, host, Inv, EntryInv, TypeOK
  <2> QED BY <2>1, <2>2
<1>2. \A x \in Node \ PluginNodes : next'[x] = next[x]
  BY <1>1 DEF Map, Unmap
<1>3. \A d \in Domain : /\ localHead'[d] \in NodesFor[d] \cup {Null}
                        /\ \A x \in NodesFor[d] : next'[x] \in NodesFor[d] \cup {Null}
  <2>1. PluginNodes \subseteq Node /\ \A d \in Domain : NodesFor[d] \subseteq PluginNodes
    BY DEF Node, PluginNodes
  <2>2. CASE Map
    <3>1. PICK i \in Images :
            /\ next' = [x \in Node |-> IF x \in PluginNodes THEN i.next[x] ELSE next[x]]
            /\ localHead' = i.head
      BY <2>2 DEF Map
    <3>2. \A d \in Domain : /\ i.head[d] \in NodesFor[d] \cup {Null}
                            /\ \A x \in NodesFor[d] : i.next[x] \in NodesFor[d] \cup {Null}
      BY NodesAssumption
    <3> QED BY <2>1, <3>1, <3>2
  <2>3. CASE Unmap
    BY <2>1, <2>3 DEF Unmap
  <2> QED BY <2>2, <2>3
<1>4. ASSUME NEW d \in Domain PROVE ~Linked(d) /\ ~Linked(d)'
  BY <1>1, NothingLeft DEF Linked
<1>5. ASSUME NEW d \in Domain PROVE ChainInv(d)' /\ HostChain(d)' = HostChain(d)
  <2>1. \A i \in 1 .. Len(HostChain(d)) :
          HostChain(d)[i] \in Node /\ HostChain(d)[i] \notin PluginNodes
    BY <1>4, HostChainFacts, NodesApart DEF Inv, EntryInv, ChainInv
  <2> QED BY <1>1, <1>2, <1>4, <2>1, ChainKept
<1>6. ASSUME NEW d \in Domain PROVE LocalInv(d)'
  BY <1>1, <1>3 DEF LocalInv
<1>7. ASSUME NEW d \in Domain PROVE CacheInv(d)'
  BY <1>1, <1>5, CacheKept
<1> QED BY <1>5, <1>6, <1>7 DEF SegmentsInv

(* ClosePortal resets the statics of a domain whose segment is out.        *)
LEMMA CloseSegments ==
  ASSUME Inv, TypeOK', Next, ClosePortal
  PROVE  SegmentsInv'
<1> DEFINE e == Domains[at]
<1>1. /\ pc = "close" /\ pc' = "unload" /\ e \in Domain
      /\ UNCHANGED <<next, host>>
      /\ redirect' = [redirect EXCEPT ![HeadOf(e)] = Null, ![CacheOf(e)] = Null]
      /\ localHead' = [localHead EXCEPT ![e] = Null]
      /\ tail' = [tail EXCEPT ![e] = Null]
  BY DomainsFinite DEF ClosePortal, Inv, EntryInv, PhaseInv
<1>2. ~Linked(e)
  BY <1>1 DEF Linked
<1>3. \A d \in Domain : Linked(d)' <=> Linked(d)
  BY <1>1, LinkedStep DEF Splice, Unsplice, Inspected
<1> HIDE DEF e
<1>4. /\ localHead \in [Domain -> NodeOrNull] /\ tail \in [Domain -> NodeOrNull]
      /\ redirect \in [Type -> Range(HostAnchors) \cup {Null}]
  BY DEF Inv, EntryInv, TypeOK
<1>5. ASSUME NEW d \in Domain PROVE ChainInv(d)' /\ HostChain(d)' = HostChain(d)
  BY <1>1, <1>2, <1>3, <1>4, ChainKept DEF host
<1>6. ASSUME NEW d \in Domain PROVE LocalInv(d)'
  <2>1. CASE d = e
    <3>1. LocalInv(d)
      BY DEF Inv, EntryInv
    <3> QED BY <1>1, <1>2, <1>3, <1>4, <2>1, <3>1 DEF LocalInv
  <2>2. CASE d # e
    <3>1. HeadOf(d) \in Type /\ HeadOf(d) # HeadOf(e) /\ HeadOf(d) # CacheOf(e)
      BY <1>1, <2>2, TypesApart, CounterpartFacts
    <3>2. redirect'[HeadOf(d)] = redirect[HeadOf(d)]
      BY <1>1, <1>4, <3>1
    <3> QED BY <1>1, <1>3, <1>4, <2>2, <3>2, LocalKept
  <2> QED BY <2>1, <2>2
<1>7. ASSUME NEW d \in Domain PROVE CacheInv(d)'
  BY <1>1, <1>5, CacheKept DEF host
<1> QED BY <1>5, <1>6, <1>7 DEF SegmentsInv

(* The host's late node goes in front of its domain's chain; a segment in  *)
(* it is one node further down.                                            *)
LEMMA ConstructSegments ==
  ASSUME Inv, TypeOK', Next, Construct
  PROVE  SegmentsInv'
<1> DEFINE e == LateNode.of
           l == LateNode.node
<1>1. /\ pc = "idle" /\ UNCHANGED <<walk, local, redirect, pc>>
      /\ l \notin Range(HostChain(e))
      /\ next' = [next EXCEPT ![l] = hostHead[e]]
      /\ hostHead' = [hostHead EXCEPT ![e] = l]
  BY DEF Construct, Idle, HostChain
<1>2. /\ e \in Domain /\ l \in DomainNodes(e) /\ l \notin PluginNodes
      /\ \A d \in Domain : d # e => l \notin DomainNodes(d)
      /\ \A d \in Domain : NodesFor[d] \subseteq PluginNodes
      /\ \A d \in Domain : DomainNodes(d) \subseteq Node
  BY NodesApart
<1> HIDE DEF e, l
<1>3. /\ next \in [Node -> NodeOrNull] /\ next' \in [Node -> NodeOrNull]
      /\ hostHead \in [Domain -> NodeOrNull]
  BY DEF Inv, EntryInv, TypeOK
<1>4. \A d \in Domain : Linked(d)' <=> Linked(d)
  BY <1>1, LinkedStep DEF Splice, Unsplice, Inspected
<1>5. \A x \in Node : x # l => next'[x] = next[x]
  BY <1>1, <1>3
<1>6. ASSUME NEW d \in Domain PROVE LocalInv(d)'
  BY <1>1, <1>2, <1>4, <1>5, LocalKept DEF local
<1>7. ASSUME NEW d \in Domain, d # e PROVE ChainInv(d)' /\ CacheInv(d)'
  <2>1. \A i \in 1 .. Len(HostChain(d)) : HostChain(d)[i] \in Node /\ HostChain(d)[i] # l
    BY <1>2, <1>7, HostChainFacts
  <2>2. ChainInv(d)' /\ HostChain(d)' = HostChain(d)
    BY <1>1, <1>3, <1>4, <1>5, <1>7, <2>1, ChainKept DEF local
  <2> QED BY <1>1, <2>2, CacheKept
<1>8. ChainInv(e)' /\ CacheInv(e)'
  <2> DEFINE w == HostChain(e)
             M == DomainNodes(e)
             s == <<l>>
  <2>1. /\ w \in Seq(M) /\ Len(w) \in Nat /\ IsPath(w, M, next, hostHead[e])
        /\ DOMAIN w = 1 .. Len(w)
        /\ \A i \in 1 .. Len(w) : w[i] \in M
    BY <1>2, HostChainFacts
  <2>2. s \in Seq(M) /\ s # << >> /\ Len(s) = 1 /\ s[1] = l
    BY <1>2
  <2>3. \A i \in 1 .. Len(w) : w[i] # l
    BY <1>1, <2>1 DEF Range
  <2> HIDE DEF w, M, s
  <2>4. IsPath(s \o w, M, next', s[1])
    <3>1. \A i, j \in 1 .. Len(s) : s[i] = s[j] => i = j
      BY <2>2
    <3>2. \A i \in 1 .. Len(s), j \in 1 .. Len(w) : s[i] # w[j]
      BY <2>2, <2>3
    <3>3. \A i \in 1 .. Len(s) : next'[s[i]] = IF i = Len(s) THEN hostHead[e] ELSE s[i + 1]
      <4>1. l \in Node
        BY <1>2
      <4> QED BY <1>1, <1>3, <2>2, <4>1
    <3>4. \A i \in 1 .. Len(w) : next'[w[i]] = next[w[i]]
      BY <1>2, <1>5, <2>1, <2>3 DEF M
    <3>5. IsPath(w, M, next, hostHead[e])
      BY <2>1
    <3>6. s \in Seq(M) /\ s # << >>
      BY <2>2
    <3> QED BY <3>1, <3>2, <3>3, <3>4, <3>5, <3>6, PathPrepended, SMTT(30)
  <2>5. hostHead'[e] = s[1]
    BY <1>1, <1>2, <1>3, <2>2
  <2>6. HostChain(e)' = s \o w
    <3>1. M \subseteq Node
      BY <1>2 DEF M
    <3>2. ChainFrom(next', hostHead'[e]) = s \o w
      BY <1>3, <2>4, <2>5, <3>1, DomainPath
    <3> QED BY <3>2 DEF HostChain
  <2>7. /\ Len(s \o w) = Len(w) + 1
        /\ \A i \in 1 .. Len(w) + 1 : (s \o w)[i] = IF i = 1 THEN l ELSE w[i - 1]
    <3>1. /\ Len(s \o w) = Len(s) + Len(w)
          /\ \A i \in 1 .. Len(s) + Len(w) :
               (s \o w)[i] = IF i <= Len(s) THEN s[i] ELSE w[i - Len(s)]
      BY <2>1, <2>2, ConcatFacts
    <3> QED BY <2>1, <2>2, <3>1
  <2>8. ChainInv(e)
    BY <1>2 DEF Inv, EntryInv
  <2>9. ASSUME Linked(e) PROVE \E j, k \in 0 .. Len(s \o w) : SegmentAt(e, j, k)'
    <3>1. PICK j, k \in 0 .. Len(w) : SegmentAt(e, j, k)
      BY <2>8, <2>9 DEF ChainInv, w
    <3>2. /\ j < k /\ k <= Len(w) /\ w[j + 1] = localHead[e] /\ w[k] = tail[e]
          /\ \A i \in 1 .. Len(w) : w[i] \in PluginNodes <=> j < i /\ i <= k
      BY <3>1 DEF SegmentAt, w
    <3>3. /\ j + 1 \in 0 .. Len(w) + 1 /\ k + 1 \in 0 .. Len(w) + 1
          /\ j + 1 < k + 1 /\ k + 1 <= Len(w) + 1
      BY <2>1, <3>2
    <3>4. (s \o w)[(j + 1) + 1] = localHead[e] /\ (s \o w)[k + 1] = tail[e]
      BY <2>1, <2>7, <3>2
    <3>5. ASSUME NEW i \in 1 .. Len(w) + 1
          PROVE  (s \o w)[i] \in PluginNodes <=> j + 1 < i /\ i <= k + 1
      <4>1. CASE i = 1
        BY <1>2, <2>7, <3>2, <4>1
      <4>2. CASE i # 1
        <5>1. i - 1 \in 1 .. Len(w) /\ (s \o w)[i] = w[i - 1]
          BY <2>1, <2>7, <4>2
        <5>2. w[i - 1] \in PluginNodes <=> j < i - 1 /\ i - 1 <= k
          BY <3>2, <5>1
        <5> QED BY <5>1, <5>2
      <4> QED BY <4>1, <4>2
    <3>6. SegmentAt(e, j + 1, k + 1)'
      BY <1>1, <2>6, <2>7, <3>3, <3>4, <3>5 DEF SegmentAt, local
    <3> QED BY <2>7, <3>3, <3>6
  <2>10. ASSUME ~Linked(e), NEW i \in 1 .. Len(s \o w) PROVE (s \o w)[i] \notin PluginNodes
    <3>1. \A q \in 1 .. Len(w) : w[q] \notin PluginNodes
      BY <2>8, <2>10 DEF ChainInv, w
    <3> QED BY <1>2, <2>1, <2>7, <2>10, <3>1
  <2>11. ChainInv(e)'
    BY <1>2, <1>4, <2>4, <2>5, <2>6, <2>9, <2>10 DEF ChainInv, M, DomainNodes
  <2>12. CacheInv(e)'
    <3>1. CacheInv(e)
      BY <1>2 DEF Inv, EntryInv
    <3>2. Range(walk[e]) \cap PluginNodes = Range(w) \cap PluginNodes
      BY <1>1, <3>1 DEF CacheInv, w
    <3>3. Range(s \o w) = Range(s) \cup Range(w)
      BY <2>1, <2>2, ConcatRange
    <3>4. Range(s) = {l}
      BY DEF s, Range
    <3>5. Range(s \o w) \cap PluginNodes = Range(w) \cap PluginNodes
      BY <1>2, <3>3, <3>4
    <3> QED BY <1>1, <2>6, <3>2, <3>5 DEF CacheInv
  <2> QED BY <2>11, <2>12
<1> QED BY <1>6, <1>7, <1>8 DEF SegmentsInv

(* Splice puts the whole local chain in front of the host's chain, and of  *)
(* that domain's only: the local chain has been inspected, so it ends.     *)
LEMMA SpliceSegments ==
  ASSUME Inv, TypeOK', Next, Splice
  PROVE  SegmentsInv'
<1> SUFFICES ASSUME NEW e, e = Domains[at], NEW s, s = ChainFrom(next, localHead[e]),
                    NEW w, w = HostChain(e), NEW M, M = DomainNodes(e)
             PROVE  SegmentsInv'
  OBVIOUS
<1>1. e = Domains[at] /\ s = ChainFrom(next, localHead[e])
  OBVIOUS
<1>2. /\ pc = "inspect" /\ pc' = "loadHook" /\ at' = at
      /\ UNCHANGED <<walk, localHead>>
  BY DEF Splice, Inspected
<1>3. w = HostChain(e) /\ M = DomainNodes(e)
  OBVIOUS
<1>4. /\ e \in Domain /\ tail[e] = Null /\ ~Linked(e)
      /\ IsPath(s, NodesFor[e], next, localHead[e]) /\ s \in Seq(NodesFor[e]) /\ s # << >>
      /\ Len(s) \in Nat \ {0}
      /\ \A i \in 1 .. Len(s) : s[i] \in NodesFor[e]
      /\ localHead[e] = s[1]
      /\ next' = [next EXCEPT ![s[Len(s)]] = hostHead[e]]
      /\ hostHead' = [hostHead EXCEPT ![e] = s[1]]
      /\ tail' = [tail EXCEPT ![e] = s[Len(s)]]
      /\ redirect' = [redirect EXCEPT ![HeadOf(e)] = HeadOf(e), ![CacheOf(e)] = CacheOf(e)]
  BY <1>1, SpliceFacts
<1>5. /\ 1 \in 1 .. Len(s) /\ Len(s) \in 1 .. Len(s)
      /\ s[1] \in NodesFor[e] /\ s[Len(s)] \in NodesFor[e]
  <2>1. /\ Len(s) \in Nat \ {0}
        /\ \A i \in 1 .. Len(s) : s[i] \in NodesFor[e]
    BY <1>4
  <2> QED BY <2>1
<1>6. /\ NodesFor[e] \subseteq PluginNodes /\ NodesFor[e] \subseteq M /\ M \subseteq Node
      /\ \A d \in Domain : d # e => DomainNodes(d) \cap M = {}
      /\ \A d \in Domain : DomainNodes(d) \subseteq Node
      /\ \A d \in Domain : NodesFor[d] \subseteq DomainNodes(d)
      /\ Null \notin Node
  BY <1>3, <1>4, NodesApart, NodesFinite
<1>7. /\ next \in [Node -> NodeOrNull] /\ next' \in [Node -> NodeOrNull]
      /\ hostHead \in [Domain -> NodeOrNull] /\ tail \in [Domain -> NodeOrNull]
      /\ redirect \in [Type -> Range(HostAnchors) \cup {Null}]
  BY DEF Inv, EntryInv, TypeOK
<1>8. \A d \in Domain : Linked(d)' <=> Linked(d) \/ d = e
  BY <1>1, LinkedStep
<1>9. \A x \in Node : x # s[Len(s)] => next'[x] = next[x]
  BY <1>4, <1>7
<1>10. ASSUME NEW d \in Domain, d # e PROVE ChainInv(d)' /\ LocalInv(d)' /\ CacheInv(d)'
  <2>1. \A x \in DomainNodes(d) : x \in Node /\ x # s[Len(s)]
    BY <1>5, <1>6, <1>10
  <2>2. \A i \in 1 .. Len(HostChain(d)) : HostChain(d)[i] \in DomainNodes(d)
    BY HostChainFacts
  <2>3. /\ hostHead'[d] = hostHead[d] /\ tail'[d] = tail[d] /\ localHead'[d] = localHead[d]
        /\ Linked(d)' <=> Linked(d)
    BY <1>2, <1>4, <1>7, <1>8, <1>10
  <2>4. ChainInv(d)' /\ HostChain(d)' = HostChain(d)
    BY <1>9, <2>1, <2>2, <2>3, ChainKept
  <2>5. redirect'[HeadOf(d)] = redirect[HeadOf(d)]
    <3>1. HeadOf(d) \in Type
      BY CounterpartFacts
    <3>2. e \in Domain
      BY <1>4
    <3>3. HeadOf(d) # HeadOf(e) /\ HeadOf(d) # CacheOf(e)
      BY <1>10, <3>2, TypesApart
    <3> QED BY <1>4, <1>7, <3>1, <3>3
  <2>6. LocalInv(d)'
    BY <1>6, <1>9, <2>1, <2>3, <2>5, LocalKept
  <2> QED BY <1>2, <2>4, <2>6, CacheKept
<1>11. ChainInv(e)'
  <2>1. /\ w \in Seq(M) /\ Len(w) \in Nat /\ IsPath(w, M, next, hostHead[e])
        /\ \A i \in 1 .. Len(w) : w[i] \in M
    BY <1>3, <1>4, HostChainFacts
  <2>2. \A i \in 1 .. Len(w) : w[i] \notin PluginNodes
    BY <1>3, <1>4 DEF Inv, EntryInv, ChainInv
  <2>3. IsPath(s \o w, M, next', s[1])
    <3>1. \A i, j \in 1 .. Len(s) : s[i] = s[j] => i = j
      BY <1>4 DEF IsPath
    <3>2. \A i \in 1 .. Len(s), j \in 1 .. Len(w) : s[i] # w[j]
      BY <1>4, <1>6, <2>2
    <3>3. \A i \in 1 .. Len(s) : next'[s[i]] = IF i = Len(s) THEN hostHead[e] ELSE s[i + 1]
      <4>1. ASSUME NEW i \in 1 .. Len(s), i # Len(s) PROVE next'[s[i]] = s[i + 1]
        <5>1. s[i] # s[Len(s)] /\ s[i] \in Node
          BY <1>4, <1>5, <1>6, <3>1, <4>1
        <5>2. next[s[i]] = s[i + 1]
          BY <1>4, <4>1 DEF IsPath
        <5> QED BY <1>9, <5>1, <5>2
      <4>2. next'[s[Len(s)]] = hostHead[e]
        BY <1>4, <1>5, <1>6, <1>7
      <4> QED BY <4>1, <4>2
    <3>4. \A i \in 1 .. Len(w) : next'[w[i]] = next[w[i]]
      BY <1>5, <1>6, <1>9, <2>1, <2>2
    <3>5. s \in Seq(M) /\ s # << >>
      <4>1. s \in Seq(NodesFor[e]) /\ s # << >> /\ NodesFor[e] \subseteq M
        BY <1>4, <1>6
      <4> QED BY <4>1
    <3>6. IsPath(w, M, next, hostHead[e])
      BY <2>1
    <3>7. \A g, h : /\ \A i \in 1 .. Len(s) : g[s[i]] = IF i = Len(s) THEN h ELSE s[i + 1]
                    /\ \A i \in 1 .. Len(w) : g[w[i]] = next[w[i]]
                    /\ IsPath(w, M, next, h)
                    => IsPath(s \o w, M, g, s[1])
      <4> SUFFICES ASSUME NEW g, NEW h,
                          \A i \in 1 .. Len(s) : g[s[i]] = IF i = Len(s) THEN h ELSE s[i + 1],
                          \A i \in 1 .. Len(w) : g[w[i]] = next[w[i]],
                          IsPath(w, M, next, h)
                   PROVE  IsPath(s \o w, M, g, s[1])
        OBVIOUS
      <4> QED BY <3>1, <3>2, <3>5, PathPrepended, SMTT(30)
    <3> QED BY <3>3, <3>4, <3>6, <3>7, SMTT(30)
  <2>4. hostHead'[e] = s[1]
    BY <1>4, <1>7
  <2>5. HostChain(e)' = s \o w
    <3>1. ChainFrom(next', hostHead'[e]) = s \o w
      BY <1>6, <1>7, <2>3, <2>4, DomainPath, ZenonT(30)
    <3> QED BY <3>1 DEF HostChain
  <2>6. /\ Len(s \o w) = Len(s) + Len(w)
        /\ \A i \in 1 .. Len(s) + Len(w) :
             (s \o w)[i] = IF i <= Len(s) THEN s[i] ELSE w[i - Len(s)]
    <3>1. s \in Seq(M)
      BY <1>4, <1>6
    <3> QED BY <2>1, <3>1, ConcatFacts
  <2>7. SegmentAt(e, 0, Len(s))'
    <3>0. Len(s) \in Nat \ {0} /\ Len(w) \in Nat
      BY <1>4, <2>1
    <3>1. 0 < Len(s) /\ Len(s) <= Len(s \o w)
      BY <2>6, <3>0
    <3>2. (s \o w)[0 + 1] = localHead'[e] /\ (s \o w)[Len(s)] = tail'[e]
      <4>1. 1 \in 1 .. Len(s) + Len(w) /\ Len(s) \in 1 .. Len(s) + Len(w)
        BY <3>0
      <4>2. (s \o w)[1] = s[1] /\ (s \o w)[Len(s)] = s[Len(s)]
        BY <2>6, <3>0, <4>1
      <4>3. localHead'[e] = s[1] /\ tail'[e] = s[Len(s)]
        BY <1>2, <1>4, <1>7
      <4>4. 0 + 1 = 1
        OBVIOUS
      <4> QED BY <4>2, <4>3, <4>4, Zenon
    <3>3. ASSUME NEW i \in 1 .. Len(s \o w)
          PROVE  (s \o w)[i] \in PluginNodes <=> 0 < i /\ i <= Len(s)
      <4>1. i \in 1 .. Len(s) + Len(w)
        BY <2>6
      <4>2. CASE i <= Len(s)
        <5>1. i \in 1 .. Len(s) /\ (s \o w)[i] = s[i]
          BY <2>6, <3>0, <4>1, <4>2
        <5>2. s[i] \in PluginNodes
          BY <1>4, <1>6, <5>1
        <5> QED BY <5>1, <5>2
      <4>3. CASE ~(i <= Len(s))
        <5>1. i - Len(s) \in 1 .. Len(w) /\ (s \o w)[i] = w[i - Len(s)]
          BY <2>6, <3>0, <4>1, <4>3
        <5> QED BY <2>2, <4>3, <5>1
      <4> QED BY <4>2, <4>3
    <3> QED BY <2>5, <3>1, <3>2, <3>3 DEF SegmentAt
  <2>8. 0 \in 0 .. Len(s \o w) /\ Len(s) \in 0 .. Len(s \o w)
    <3>1. Len(s) \in Nat \ {0} /\ Len(w) \in Nat
      BY <1>4, <2>1
    <3> QED BY <2>6, <3>1
  <2>9. Linked(e)'
    BY <1>4, <1>8
  <2>10. IsPath(HostChain(e)', DomainNodes(e), next', hostHead'[e])
    BY <1>3, <2>3, <2>4, <2>5
  <2> QED BY <2>5, <2>7, <2>8, <2>9, <2>10 DEF ChainInv, DomainNodes
<1>12. LocalInv(e)' /\ CacheInv(e)'
  <2>1. LocalInv(e)
    BY <1>4 DEF Inv, EntryInv
  <2>2. tail'[e] = s[Len(s)] /\ localHead'[e] = s[1]
    BY <1>2, <1>4, <1>7
  <2>3. \A x \in NodesFor[e] : x # tail'[e] => next'[x] \in NodesFor[e] \cup {Null}
    BY <1>4, <1>6, <1>9, <2>1, <2>2, ZenonT(30) DEF LocalInv
  <2>4. redirect'[HeadOf(e)] # Null /\ Linked(e)'
    <3>1. HeadOf(e) \in Type /\ HeadOf(e) # CacheOf(e) /\ HeadOf(e) # Null
      BY <1>4, TypesApart, CounterpartFacts
    <3> QED BY <1>4, <1>7, <1>8, <3>1
  <2>5. LocalInv(e)'
    BY <1>5, <1>6, <2>2, <2>3, <2>4 DEF LocalInv
  <2>6. CacheInv(e)'
    BY <1>1, <1>2 DEF CacheInv
  <2> QED BY <2>5, <2>6
<1> QED BY <1>10, <1>11, <1>12 DEF SegmentsInv

(* Unsplice takes the segment, the whole of it, out of the host's chain,   *)
(* whatever has come in front of it, and leaves a chain without a segment  *)
(* as it is.                                                               *)
LEMMA UnspliceSegments ==
  ASSUME Inv, TypeOK', Next, Unsplice
  PROVE  SegmentsInv'
<1> SUFFICES ASSUME NEW e, e = Domains[at], NEW w, w = HostChain(e),
                    NEW M, M = DomainNodes(e)
             PROVE  SegmentsInv'
  OBVIOUS
<1>1. e = Domains[at] /\ w = HostChain(e) /\ M = DomainNodes(e)
  OBVIOUS
<1>2. /\ pc = "unload" /\ pc' = "unloadHook" /\ at' = at
      /\ UNCHANGED <<walk, local, redirect>>
  BY DEF Unsplice
<1>3. e \in Domain
  BY <1>1, UnspliceFacts
<1>4. \A d \in Domain : Linked(d)' <=> Linked(d) /\ d # e
  BY <1>1, LinkedStep
<1>5. CASE tail[e] = Null /\ next' = next /\ hostHead' = hostHead
  <2>1. ~Linked(e)
    BY <1>5 DEF Linked
  <2>2. ASSUME NEW d \in Domain PROVE ChainInv(d)' /\ HostChain(d)' = HostChain(d)
    BY <1>2, <1>4, <1>5, <2>1, ChainKept DEF local
  <2>3. ASSUME NEW d \in Domain PROVE LocalInv(d)' /\ CacheInv(d)'
    BY <1>2, <1>4, <1>5, <2>1, <2>2, LocalKept, CacheKept DEF local
  <2> QED BY <2>2, <2>3 DEF SegmentsInv
<1>6. ASSUME Linked(e), NEW j \in 0 .. Len(w), NEW k \in 0 .. Len(w),
             SegmentAt(e, j, k), next' = Relinked(e, j),
             hostHead' = IF j = 0 THEN [hostHead EXCEPT ![e] = next[tail[e]]] ELSE hostHead
      PROVE  SegmentsInv'
  <2>1. /\ next \in [Node -> NodeOrNull] /\ next' \in [Node -> NodeOrNull]
        /\ hostHead \in [Domain -> NodeOrNull]
    BY DEF Inv, EntryInv, TypeOK
  <2>2. /\ j < k /\ k <= Len(w) /\ w[k] = tail[e]
        /\ \A i \in 1 .. Len(w) : w[i] \in PluginNodes <=> j < i /\ i <= k
    BY <1>1, <1>6 DEF SegmentAt
  <2>3. /\ w \in Seq(M) /\ Len(w) \in Nat /\ IsPath(w, M, next, hostHead[e])
        /\ \A i \in 1 .. Len(w) : w[i] \in M
        /\ \A p, q \in 1 .. Len(w) : w[p] = w[q] => p = q
    BY <1>1, <1>3, HostChainFacts DEF IsPath
  <2>4. /\ M \subseteq Node /\ Null \notin Node
        /\ \A d \in Domain : d # e => DomainNodes(d) \cap M = {}
        /\ \A d \in Domain : NodesFor[d] \subseteq DomainNodes(d) \cap PluginNodes
        /\ \A d \in Domain : DomainNodes(d) \subseteq Node
    BY <1>1, <1>3, NodesApart, NodesFinite
  <2>5. /\ j \in Nat /\ k \in 1 .. Len(w) /\ tail[e] \in M
        /\ j > 0 => j \in 1 .. Len(w) /\ w[j] \in M /\ w[j] # tail[e] /\ w[j] \notin PluginNodes
    BY <2>2, <2>3
  <2>6. \A x \in Node : next'[x] = IF x = tail[e] THEN Null
                                   ELSE IF j > 0 /\ x = w[j] THEN next[tail[e]] ELSE next[x]
    BY <1>1, <1>6 DEF Relinked
  <2>7. ASSUME NEW d \in Domain, d # e PROVE ChainInv(d)' /\ LocalInv(d)' /\ CacheInv(d)'
    <3>1. \A x \in DomainNodes(d) : next'[x] = next[x]
      <4>1. ASSUME NEW x \in DomainNodes(d) PROVE next'[x] = next[x]
        <5>1. x \in Node /\ x \notin M
          BY <2>4, <2>7
        <5>2. x # tail[e] /\ (j > 0 => x # w[j])
          BY <2>5, <5>1
        <5> QED BY <2>6, <5>1, <5>2
      <4> QED BY <4>1
    <3>2. \A i \in 1 .. Len(HostChain(d)) : HostChain(d)[i] \in DomainNodes(d)
      BY HostChainFacts
    <3>3. hostHead'[d] = hostHead[d] /\ (Linked(d)' <=> Linked(d))
      BY <1>4, <1>6, <2>1, <2>7
    <3>4. ChainInv(d)' /\ HostChain(d)' = HostChain(d)
      BY <1>2, <3>1, <3>2, <3>3, ChainKept DEF local
    <3>5. LocalInv(d)'
      BY <1>2, <2>4, <3>1, <3>3, LocalKept DEF local
    <3> QED BY <1>2, <3>4, <3>5, CacheKept
  <2>8. ChainInv(e)'
    <3> DEFINE m == k - j
               v == Without(w, j, m)
    <3>1. m \in Nat \ {0} /\ j + m = k
      BY <2>2, <2>5
    <3> HIDE DEF m
    <3>2. hostHead'[e] = IF j = 0 THEN next[w[m]] ELSE hostHead[e]
      BY <1>3, <1>6, <2>1, <2>2, <3>1
    <3>3. j > 0 => next'[w[j]] = next[w[j + m]]
      BY <2>2, <2>4, <2>5, <2>6, <3>1
    <3>4. \A i \in 1 .. Len(w) : i < j \/ i > j + m => next'[w[i]] = next[w[i]]
      <4>1. ASSUME NEW i \in 1 .. Len(w), i < j \/ i > j + m PROVE next'[w[i]] = next[w[i]]
        <5>1. w[i] \in Node /\ i # k /\ (j > 0 => i # j)
          BY <2>3, <2>4, <2>5, <3>1, <4>1
        <5>2. w[i] # tail[e] /\ (j > 0 => w[i] # w[j])
          BY <2>2, <2>3, <2>5, <5>1
        <5> QED BY <2>6, <5>1, <5>2
      <4> QED BY <4>1
    <3>5. j + m <= Len(w) /\ j \in Nat
      BY <2>2, <2>5, <3>1
    <3>6. IsPath(v, M, next', hostHead'[e])
      <4>1. IsPath(w, M, next, hostHead[e])
        BY <2>3
      <4> QED BY <3>1, <3>2, <3>3, <3>4, <3>5, <4>1, PathShortened, SMTT(30)
    <3>7. /\ v \in Seq(M) /\ Len(v) = Len(w) - m
          /\ \A i \in 1 .. Len(w) - m : v[i] = IF i <= j THEN w[i] ELSE w[i + m]
      BY <2>3, <3>1, <3>5, WithoutFacts
    <3> HIDE DEF v
    <3>8. HostChain(e)' = v
      <4>1. ChainFrom(next', hostHead'[e]) = v
        BY <2>1, <2>4, <3>6, DomainPath
      <4> QED BY <4>1 DEF HostChain
    <3>9. ASSUME NEW i \in 1 .. Len(v) PROVE v[i] \notin PluginNodes
      <4>1. i \in 1 .. Len(w) - m
        BY <3>7
      <4>2. CASE i <= j
        BY <2>2, <2>3, <3>1, <3>7, <4>1, <4>2
      <4>3. CASE ~(i <= j)
        <5>1. i + m \in 1 .. Len(w) /\ ~(i + m <= k)
          BY <2>3, <2>5, <3>1, <4>1, <4>3
        <5> QED BY <2>2, <3>7, <4>1, <4>3, <5>1
      <4> QED BY <4>2, <4>3
    <3>10. ~Linked(e)'
      BY <1>3, <1>4
    <3> QED BY <1>1, <3>6, <3>8, <3>9, <3>10 DEF ChainInv, DomainNodes
  <2>9. LocalInv(e)' /\ CacheInv(e)'
    <3>1. LocalInv(e)
      BY <1>3 DEF Inv, EntryInv
    <3>2. \A x \in NodesFor[e] : next'[x] \in NodesFor[e] \cup {Null}
      <4>1. ASSUME NEW x \in NodesFor[e] PROVE next'[x] \in NodesFor[e] \cup {Null}
        <5>1. x \in Node /\ x \in PluginNodes
          BY <1>3, <2>4
        <5>2. CASE x = tail[e]
          BY <2>6, <5>1, <5>2
        <5>3. CASE x # tail[e]
          <6>1. next'[x] = next[x]
            BY <2>5, <2>6, <5>1, <5>3
          <6> QED BY <3>1, <5>3, <6>1 DEF LocalInv
        <5> QED BY <5>2, <5>3
      <4> QED BY <4>1
    <3>3. LocalInv(e)'
      BY <1>2, <3>1, <3>2 DEF LocalInv, local
    <3>4. CacheInv(e)'
      BY <1>1, <1>2 DEF CacheInv
    <3> QED BY <3>3, <3>4
  <2> QED BY <2>7, <2>8, <2>9 DEF SegmentsInv
<1> QED BY <1>1, <1>5, <1>6, UnspliceFacts


(* Every step keeps the pointers of every domain in order.                 *)
LEMMA StepSegments ==
  ASSUME Inv, TypeOK', Next
  PROVE  SegmentsInv'
<1>1. /\ redirect \in [Type -> Range(HostAnchors) \cup {Null}]
      /\ PhaseInv
  BY DEF Inv, EntryInv, TypeOK
<1>2. ASSUME ~Splice, ~Unsplice, NEW d \in Domain PROVE Linked(d)' <=> Linked(d)
  BY <1>2, LinkedStep
<1>3. \A d \in Domain : HeadOf(d) \in Type
  BY CounterpartFacts
<1>4. CASE Map \/ Unmap
  BY <1>4, ImageSegments
<1>5. CASE Construct
  BY <1>5, ConstructSegments
<1>6. CASE Bootstrap \/ Shutdown
  BY <1>2, <1>6, QuietSegments DEF Bootstrap, Shutdown, Idle, Splice, Unsplice, Inspected
<1>7. CASE EndTransfer \/ BeginInspect \/ Return \/ NotUnspliced
  BY <1>2, <1>7, QuietSegments
     DEF EndTransfer, BeginInspect, Return, NotUnspliced, Splice, Unsplice, Inspected
<1>8. CASE Transfer
  <2>1. pc = "transfer" /\ UNCHANGED <<next, host, local>>
    BY <1>8 DEF Transfer
  <2>2. \A t \in Type : redirect[t] # Null => redirect'[t] # Null
    BY <1>1, <1>8 DEF Transfer
  <2> QED BY <1>2, <1>3, <2>1, <2>2, QuietSegments DEF Splice, Unsplice, Inspected
<1>9. CASE Inspect
  <2>1. pc = "inspect" /\ pc' = "inspect" /\ UNCHANGED <<host, local, redirect>>
    BY <1>9 DEF Inspect
  <2>2. next' = next
    BY <1>9 DEF Inspect, Coupler!Next, Coupler!Race, Coupler!StartCount, Coupler!Count,
                Coupler!Return, Coupler!chain
  <2> QED BY <1>2, <2>1, <2>2, QuietSegments DEF Splice, Unsplice
<1>10. CASE Refuse
  <2>1. pc = "inspect" /\ pc' = "load" /\ UNCHANGED <<next, host, local, redirect>>
    BY <1>10 DEF Refuse, Inspected, NextDomain
  <2> QED BY <1>2, <2>1, QuietSegments DEF Splice, Unsplice
<1>11. CASE NotSpliced
  <2>1. pc = "inspect" /\ pc' = "load" /\ UNCHANGED <<next, host, local>>
    BY <1>11 DEF NotSpliced, Inspected, NextDomain
  <2>2. \A d \in Domain : redirect[HeadOf(d)] # Null => redirect'[HeadOf(d)] # Null
    <3>1. PICK e \in Domain : e = Domains[at]
      BY <2>1, DomainsFinite DEF PhaseInv, Inv, EntryInv
    <3>2. redirect' = [redirect EXCEPT ![HeadOf(e)] = Counterpart(HeadOf(e)),
                                       ![CacheOf(e)] = Counterpart(CacheOf(e))]
      BY <1>11, <3>1 DEF NotSpliced, OpenPortal
    <3>3. ASSUME NEW d \in Domain, redirect[HeadOf(d)] # Null PROVE redirect'[HeadOf(d)] # Null
      <4>1. ~global
        BY <3>3 DEF Inv, EntryInv, RedirectInv
      <4>2. Counterpart(HeadOf(e)) # Null /\ HeadOf(d) # CacheOf(e)
        BY <4>1, CounterpartFacts, TypesApart
      <4> QED BY <1>1, <1>3, <3>2, <3>3, <4>2
    <3> QED BY <3>3
  <2> QED BY <1>2, <2>1, <2>2, QuietSegments DEF Splice, Unsplice
<1>12. CASE Splice
  BY <1>12, SpliceSegments
<1>13. CASE LoadHook \/ UnloadHook
  BY <1>13, HookSegments
<1>14. CASE Unsplice
  BY <1>14, UnspliceSegments
<1>15. CASE ClosePortal
  BY <1>15, CloseSegments
<1> QED BY <1>4, <1>5, <1>6, <1>7, <1>8, <1>9, <1>10, <1>11, <1>12, <1>13, <1>14, <1>15
        DEF Next, Step


-----------------------------------------------------------------------------
(* A walk that stays within a set is decided by the pointers of the set.   *)
LEMMA TrappedKept ==
  ASSUME NEW M, M \subseteq Node,
         NEW f \in [Node -> NodeOrNull], NEW g \in [Node -> NodeOrNull],
         \A x \in M : g[x] = f[x] /\ f[x] \in M \cup {Null},
         NEW h \in M \cup {Null}, Trapped(f, h)
  PROVE  Trapped(g, h)
<1>1. PICK S \in SUBSET Node : h \in S /\ \A x \in S : f[x] \in S
  BY DEF Trapped
<1>2. Null \notin Node
  BY NodesFinite
<1>3. h \in S \cap M /\ \A x \in S \cap M : g[x] \in S \cap M
  BY <1>1, <1>2
<1>4. S \cap M \in SUBSET (DOMAIN g)
  BY <1>1
<1> QED BY <1>3, <1>4 DEF Trapped

(* A walk from a node on a path ends.                                      *)
LEMMA SegmentEnds ==
  ASSUME NEW d \in Domain, NEW f \in [Node -> NodeOrNull], NEW h, NEW w,
         IsPath(w, DomainNodes(d), f, h), NEW j \in Nat, j < Len(w), NEW l, l = w[j + 1]
  PROVE  /\ ~Trapped(f, l) /\ Terminates(f, l)
         /\ ChainFrom(f, l) = SubSeq(w, j + 1, Len(w))
<1>1. IsPath(SubSeq(w, j + 1, Len(w)), DomainNodes(d), f, l)
  BY PathRest
<1>2. DomainNodes(d) \subseteq Node
  BY NodesApart
<1> QED BY <1>1, <1>2, DomainPath

(* A linked local chain ends: it is the rest of the host's chain.          *)
LEMMA LinkedEnds ==
  ASSUME Inv, NEW d \in Domain, Linked(d)
  PROVE  ~Trapped(next, localHead[d])
<1>1. ChainInv(d) /\ TypeOK
  BY DEF Inv, EntryInv
<1>2. PICK j, k \in 0 .. Len(HostChain(d)) : SegmentAt(d, j, k)
  BY <1>1 DEF ChainInv
<1>3. /\ IsPath(HostChain(d), DomainNodes(d), next, hostHead[d])
      /\ next \in [Node -> NodeOrNull] /\ Len(HostChain(d)) \in Nat
  BY <1>1, HostChainFacts DEF TypeOK
<1>4. j \in Nat /\ j < Len(HostChain(d)) /\ localHead[d] = HostChain(d)[j + 1]
  BY <1>2, <1>3 DEF SegmentAt
<1> QED BY <1>3, <1>4, SegmentEnds

(* The same after a step.                                                  *)
LEMMA LinkedEndsNext ==
  ASSUME TypeOK', SegmentsInv', NEW d \in Domain, Linked(d)'
  PROVE  ~Trapped(next', localHead'[d])
<1> SUFFICES ASSUME NEW w, w = HostChain(d)' PROVE ~Trapped(next', localHead'[d])
  OBVIOUS
<1>1. /\ IsPath(w, DomainNodes(d), next', hostHead'[d])
      /\ \E j, k \in 0 .. Len(w) : SegmentAt(d, j, k)'
  BY DEF SegmentsInv, ChainInv, DomainNodes
<1>2. PICK j, k \in 0 .. Len(w) : SegmentAt(d, j, k)'
  BY <1>1
<1>3. next' \in [Node -> NodeOrNull] /\ DomainNodes(d) \subseteq Node
  BY NodesApart DEF TypeOK
<1>4. Len(w) \in Nat
  BY <1>1, <1>3, DomainPath
<1>5. j \in Nat /\ j < Len(w) /\ localHead'[d] = w[j + 1]
  BY <1>2, <1>4 DEF SegmentAt
<1> QED BY <1>1, <1>3, <1>5, SegmentEnds

(* What is linked was fit to be.                                           *)
LEMMA LinkedLinkable ==
  ASSUME Inv, NEW d \in Domain, Linked(d), ~Due(d)
  PROVE  Linkable(d)
<1>1. ~Trapped(next, localHead[d])
  BY LinkedEnds
<1>2. tail[d] # Null
  BY DEF Linked
<1>3. localHead[d] # Null /\ redirect[HeadOf(d)] # Null
  BY <1>2 DEF Inv, EntryInv, LocalInv
<1>4. ~global
  BY <1>3 DEF Inv, EntryInv, RedirectInv
<1>5. ~ended
  BY <1>3 DEF Inv, EntryInv, ProgressInv
<1> QED BY <1>1, <1>3, <1>4, <1>5 DEF Linkable

(* A step that leaves a domain's own pointers alone does not change        *)
(* whether it can be linked.                                               *)
LEMMA LinkableKept ==
  ASSUME Inv, TypeOK', SegmentsInv', NEW d \in Domain,
         Linked(d)' <=> Linked(d), localHead'[d] = localHead[d],
         global' = global, ended' = ended,
         ~Linked(d) => \A x \in NodesFor[d] : next'[x] = next[x],
         Linked(d) <=> Linkable(d)
  PROVE  (Linked(d) <=> Linkable(d))'
<1>1. CASE Linked(d)
  BY <1>1, LinkedEndsNext DEF Linkable
<1>2. CASE ~Linked(d)
  <2>1. /\ localHead[d] \in NodesFor[d] \cup {Null}
        /\ \A x \in NodesFor[d] : next[x] \in NodesFor[d] \cup {Null}
    BY <1>2 DEF Inv, EntryInv, LocalInv
  <2>2. next \in [Node -> NodeOrNull] /\ next' \in [Node -> NodeOrNull]
    BY DEF Inv, EntryInv, TypeOK
  <2>3. NodesFor[d] \subseteq Node
    BY NodesApart
  <2>4. \A x \in NodesFor[d] : next'[x] = next[x]
    BY <1>2
  <2>5. Trapped(next, localHead[d]) => Trapped(next', localHead[d])
    BY <2>1, <2>2, <2>3, <2>4, TrappedKept
  <2> QED BY <1>2, <2>5 DEF Linkable
<1> QED BY <1>1, <1>2

(* A step that writes none of its pointers and does not reach or leave a   *)
(* domain keeps how far its entry point has come with it.                  *)
LEMMA QuietProgress ==
  ASSUME Inv, TypeOK', SegmentsInv', NEW d \in Domain,
         UNCHANGED <<next, global, booted, ended, local>>,
         Linked(d)' <=> Linked(d),
         Due(d) => Due(d)', Handled(d)' => Handled(d)
  PROVE  ProgressInv(d)'
<1>1. ProgressInv(d)
  BY DEF Inv, EntryInv
<1>2. Handled(d)' => (Linked(d) <=> Linkable(d))'
  BY <1>1, LinkableKept DEF ProgressInv, local
<1> QED BY <1>1, <1>2 DEF ProgressInv, local


(* OnPluginLoad of one domain links it if it can be linked, and leaves the *)
(* other domains as they are.                                              *)
LEMMA LoadProgress ==
  ASSUME Inv, TypeOK', SegmentsInv', Next, NEW d \in Domain,
         Refuse \/ NotSpliced \/ Splice \/ LoadHook
  PROVE  ProgressInv(d)'
<1> SUFFICES ASSUME NEW e, e = Domains[at] PROVE ProgressInv(d)'
  OBVIOUS
<1>1. /\ pc \in {"inspect", "loadHook"} /\ pc' \in {"load", "loadHook"}
      /\ UNCHANGED <<global, booted, ended, localHead>>
  BY DEF Refuse, NotSpliced, Splice, LoadHook, Inspected, NextDomain, image, local
<1>2. /\ at \in 1 .. Len(Domains) /\ e \in Domain /\ booted
      /\ \A i \in 1 .. Len(Domains) : Domains[i] = e => i = at
      /\ Len(Domains) \in Nat
  BY <1>1, DomainsFinite DEF Inv, EntryInv, PhaseInv, Loading
<1>3. ProgressInv(d) /\ ~Due(d)
  BY <1>1 DEF Inv, EntryInv, Due, Unloading
<1>4. tail'[d] # Null => booted'
  BY <1>1, <1>2
<1>5. ended' => localHead'[d] = Null
  BY <1>1, <1>3 DEF ProgressInv
<1>6. ASSUME pc = "inspect"
      PROVE  verdict = "done" => (result.hasCycle <=> Trapped(next, localHead[e]))
  BY <1>6, InspectedChain DEF Racing, Counting, Decided
<1>7. CASE Splice
  <2> SUFFICES ASSUME NEW s, s = ChainFrom(next, localHead[e]) PROVE ProgressInv(d)'
    OBVIOUS
  <2>1. /\ Len(s) \in 1 .. Len(s) /\ s[Len(s)] \in NodesFor[e]
        /\ next' = [next EXCEPT ![s[Len(s)]] = hostHead[e]]
    <3>1. Len(s) \in Nat \ {0} /\ \A i \in 1 .. Len(s) : s[i] \in NodesFor[e]
      BY <1>7, SpliceFacts
    <3>2. next' = [next EXCEPT ![s[Len(s)]] = hostHead[e]]
      BY <1>7, SpliceFacts
    <3> QED BY <3>1, <3>2
  <2>2. at' = at /\ pc' = "loadHook" /\ pc = "inspect"
    BY <1>7 DEF Splice, Inspected
  <2>3. Handled(d)' => Handled(d) /\ d # e
    BY <1>1, <1>2, <2>2 DEF Handled, Loading
  <2>4. ASSUME d # e PROVE \A x \in NodesFor[d] : next'[x] = next[x]
    <3>1. \A x \in NodesFor[d] : x \in Node /\ x # s[Len(s)]
      BY <1>2, <2>1, <2>4, NodesApart, NodesAssumption
    <3>2. next \in [Node -> NodeOrNull]
      BY DEF Inv, EntryInv, TypeOK
    <3> QED BY <2>1, <3>1, <3>2
  <2>5. ASSUME d # e PROVE Linked(d)' <=> Linked(d)
    BY <1>7, <2>5, LinkedStep
  <2>6. ASSUME Handled(d)' PROVE (Linked(d) <=> Linkable(d))'
    <3>1. Handled(d) /\ d # e
      BY <2>3, <2>6
    <3>2. Linked(d) <=> Linkable(d)
      BY <1>3, <3>1 DEF ProgressInv
    <3> QED BY <1>1, <2>4, <2>5, <3>1, <3>2, LinkableKept
  <2> QED BY <1>4, <1>5, <2>6 DEF ProgressInv
<1>8. CASE Refuse \/ NotSpliced \/ LoadHook
  <2>1. /\ pc' = "load" /\ at' = at + 1 /\ next' = next /\ tail' = tail
        /\ hostHead' = hostHead
    BY <1>8 DEF Refuse, NotSpliced, LoadHook, NextDomain, host, local
  <2>2. Linked(d)' <=> Linked(d)
    BY <1>1, <2>1 DEF Linked
  <2>3. Handled(d)' => Handled(d) \/ d = e
    <3>1. ASSUME NEW i \in 1 .. at' - 1, Domains[i] = d, d # e PROVE i \in 1 .. at - 1
      BY <1>2, <2>1, <3>1
    <3> QED BY <1>1, <1>2, <3>1 DEF Handled, Loading
  <2>4. ASSUME d = e PROVE Linked(d) <=> Linkable(d)
    <3>1. Linked(d) => Linkable(d)
      BY <1>3, LinkedLinkable
    <3>2. CASE Refuse
      <4>1. Trapped(next, localHead[e])
        BY <1>6, <3>2 DEF Refuse, Inspected
      <4> QED BY <2>4, <3>1, <4>1 DEF Linkable
    <3>3. CASE NotSpliced
      <4>1. ~Spliceable(e, Counterpart(HeadOf(e)))
        BY <3>3 DEF NotSpliced
      <4>2. CASE localHead[e] = Null
        BY <2>4, <3>1, <4>2 DEF Linkable
      <4>3. CASE Counterpart(HeadOf(e)) = Null
        <5>1. global
          BY <1>2, <4>3, CounterpartFacts
        <5> QED BY <3>1, <5>1 DEF Linkable
      <4>4. CASE localHead[e] # Null /\ Counterpart(HeadOf(e)) # Null
        <5>1. Counterpart(HeadOf(e)).of = e
          BY <1>2, <4>4, CounterpartFacts
        <5>2. localHead[e] = hostHead[e]
          BY <4>1, <4>4, <5>1 DEF Spliceable
        <5>3. localHead[e] \in PluginNodes
          <6>1. localHead[e] \in NodesFor[e]
            BY <1>2, <4>4 DEF Inv, EntryInv, LocalInv
          <6> QED BY <1>2, <6>1, NodesApart
        <5>4. 1 \in 1 .. Len(HostChain(e)) /\ HostChain(e)[1] \in PluginNodes
          <6>1. HostChain(e) # << >> /\ HostChain(e)[1] = hostHead[e]
            BY <1>2, <4>4, <5>2, HostChainFacts
          <6>2. Len(HostChain(e)) \in Nat \ {0}
            BY <1>2, <6>1, HostChainFacts
          <6> QED BY <5>2, <5>3, <6>1, <6>2
        <5>5. Linked(e)
          BY <1>2, <5>4 DEF Inv, EntryInv, ChainInv
        <5> QED BY <2>4, <3>1, <5>5
      <4> QED BY <4>2, <4>3, <4>4
    <3>4. CASE LoadHook
      <4>1. Linked(e)
        BY <3>4 DEF LoadHook, Inv, EntryInv, PhaseInv
      <4> QED BY <2>4, <3>1, <4>1
    <3> QED BY <1>8, <3>2, <3>3, <3>4
  <2>5. ASSUME Handled(d)' PROVE (Linked(d) <=> Linkable(d))'
    <3>1. Linked(d) <=> Linkable(d)
      BY <1>3, <2>3, <2>4, <2>5 DEF ProgressInv
    <3> QED BY <1>1, <2>1, <2>2, <3>1, LinkableKept
  <2> QED BY <1>4, <1>5, <2>5 DEF ProgressInv
<1> QED BY <1>7, <1>8

(* Every step keeps how far the entry point has come with each domain.     *)
LEMMA StepProgress ==
  ASSUME Inv, TypeOK', SegmentsInv', Next, NEW d \in Domain
  PROVE  ProgressInv(d)'
<1>1. ProgressInv(d) /\ PhaseInv /\ TypeOK
  BY DEF Inv, EntryInv
<1>2. ~Splice /\ ~Unsplice => (Linked(d)' <=> Linked(d))
  BY LinkedStep
<1>3. /\ \E i \in 1 .. Len(Domains) : Domains[i] = d
      /\ Len(Domains) \in Nat
      /\ \A i, j \in 1 .. Len(Domains) : Domains[i] = Domains[j] => i = j
      /\ DOMAIN Domains = 1 .. Len(Domains)
  BY DomainsFinite, EntryAssumption
<1>4. ASSUME pc = "idle" PROVE ~Due(d) /\ ~Splice /\ ~Unsplice
  BY <1>4 DEF Due, Unloading, Splice, Unsplice, Inspected
<1>5. CASE Map \/ Unmap
  <2>1. tail'[d] = Null /\ ~ended' /\ ~booted'
    <3>1. CASE Map
      BY <1>1, <3>1 DEF Map, PhaseInv
    <3>2. CASE Unmap
      BY <3>2 DEF Unmap
    <3> QED BY <1>5, <3>1, <3>2
  <2> QED BY <2>1 DEF ProgressInv, Handled
<1>6. CASE Construct
  <2>1. /\ pc = "idle" /\ pc' = "idle"
        /\ UNCHANGED <<global, booted, ended, localHead, tail>>
        /\ next' = [next EXCEPT ![LateNode.node] = hostHead[LateNode.of]]
    BY <1>6 DEF Construct, Idle, image, local
  <2>2. \A x \in NodesFor[d] : next'[x] = next[x]
    <3>1. \A x \in NodesFor[d] : x \in Node /\ x # LateNode.node
      BY NodesApart
    <3> QED BY <1>1, <2>1, <3>1 DEF TypeOK
  <2>3. Handled(d)' => (Linked(d) <=> Linkable(d))'
    <3>1. Handled(d)' => (Linked(d) <=> Linkable(d))
      BY <1>1, <2>1 DEF Handled, ProgressInv
    <3> QED BY <1>2, <1>4, <2>1, <2>2, <3>1, LinkableKept
  <2> QED BY <1>1, <1>4, <2>1, <2>3 DEF ProgressInv
<1>7. CASE Bootstrap
  <2>1. pc = "idle" /\ pc' = "transfer" /\ booted' /\ UNCHANGED <<ended, localHead>>
    BY <1>7 DEF Bootstrap, Idle, local
  <2>2. ~Handled(d)'
    BY <2>1 DEF Handled
  <2> QED BY <1>1, <1>4, <2>1, <2>2 DEF ProgressInv
<1>8. CASE Shutdown
  <2>1. ~booted' /\ pc' = "unload" /\ at' = 1
    BY <1>8 DEF Shutdown
  <2>2. Due(d)'
    BY <1>3, <2>1 DEF Due, Unloading
  <2> QED BY <2>1, <2>2 DEF ProgressInv, Handled
<1>9. CASE Transfer \/ EndTransfer \/ BeginInspect \/ Inspect
  <2>1. /\ pc \in Loading /\ pc' \in Loading /\ UNCHANGED <<global, booted, ended, local>>
        /\ next' = next /\ ~Splice /\ ~Unsplice
    <3>1. CASE Inspect
      BY <3>1 DEF Inspect, Coupler!Next, Coupler!Race, Coupler!StartCount, Coupler!Count,
                  Coupler!Return, Coupler!chain, image, Loading, Splice, Unsplice
    <3>2. CASE Transfer \/ EndTransfer \/ BeginInspect
      BY <3>2 DEF Transfer, EndTransfer, BeginInspect, image, Loading, Splice, Unsplice,
                  Inspected
    <3> QED BY <1>9, <3>1, <3>2
  <2>2. ~Due(d)
    BY <2>1 DEF Due, Loading, Unloading
  <2>3. Handled(d)' => Handled(d)
    <3>1. CASE Transfer \/ EndTransfer
      <4>1. pc' = "transfer" \/ (pc' = "load" /\ at' = 1)
        BY <3>1 DEF Transfer, EndTransfer
      <4>2. ~Handled(d)'
        BY <4>1 DEF Handled
      <4> QED BY <4>2
    <3>2. CASE BeginInspect
      BY <3>2 DEF BeginInspect, Handled, Loading
    <3>3. CASE Inspect
      BY <3>3 DEF Inspect, Handled
    <3> QED BY <1>9, <3>1, <3>2, <3>3
  <2> QED BY <1>2, <2>1, <2>2, <2>3, QuietProgress
<1>10. CASE Refuse \/ NotSpliced \/ Splice \/ LoadHook
  BY <1>10, LoadProgress
<1>11. CASE NotUnspliced \/ Unsplice \/ UnloadHook
  <2>1. /\ pc \in Unloading /\ pc' \in Unloading /\ at' = at
        /\ UNCHANGED <<booted, ended, local>>
    BY <1>11 DEF NotUnspliced, Unsplice, UnloadHook, Unloading
  <2>2. ~booted'
    BY <1>1, <2>1 DEF PhaseInv
  <2>3. Due(d)' <=> Due(d)
    BY <2>1 DEF Due
  <2> QED BY <1>1, <2>1, <2>2, <2>3 DEF ProgressInv, Handled, local
<1>12. CASE ClosePortal
  <2> SUFFICES ASSUME NEW e, e = Domains[at] PROVE ProgressInv(d)'
    OBVIOUS
  <2>1. /\ pc = "close" /\ pc' = "unload" /\ at' = at + 1
        /\ localHead' = [localHead EXCEPT ![e] = Null]
        /\ tail' = [tail EXCEPT ![e] = Null]
        /\ UNCHANGED <<booted, ended>>
    BY <1>12 DEF ClosePortal
  <2>2. ~booted' /\ at \in 1 .. Len(Domains)
    BY <1>1, <2>1 DEF PhaseInv, Unloading
  <2>3. localHead \in [Domain -> NodeOrNull] /\ tail \in [Domain -> NodeOrNull]
    BY <1>1 DEF TypeOK
  <2>4. CASE d = e
    BY <2>1, <2>2, <2>3, <2>4 DEF ProgressInv, Handled
  <2>5. CASE d # e
    <3>1. Due(d) => Due(d)'
      <4>1. ASSUME NEW i \in at .. Len(Domains), Domains[i] = d PROVE i \in at' .. Len(Domains)
        BY <1>3, <2>1, <2>2, <2>5, <4>1
      <4> QED BY <2>1, <4>1 DEF Due, Unloading
    <3> QED BY <1>1, <2>1, <2>2, <2>3, <2>5, <3>1 DEF ProgressInv, Handled
  <2> QED BY <2>4, <2>5
<1>13. CASE Return
  <2>1. /\ pc \in {"load", "unload"} /\ pc' = "idle" /\ at = Len(Domains) + 1
        /\ UNCHANGED <<next, global, booted, ended, local>>
    <3>1. /\ pc \in {"load", "unload"} /\ pc' = "idle" /\ at \notin 1 .. Len(Domains)
          /\ UNCHANGED <<next, global, booted, ended, local>>
      BY <1>3, <1>13 DEF Return, image
    <3>2. at \in 1 .. Len(Domains) + 1
      BY <1>1, <3>1 DEF TypeOK
    <3> QED BY <1>3, <3>1, <3>2
  <2>2. ~Due(d)
    BY <1>3, <2>1 DEF Due
  <2>3. ASSUME Handled(d)' PROVE Handled(d)
    <3>1. booted /\ pc = "load"
      BY <1>1, <2>1, <2>3 DEF Handled, PhaseInv, Unloading
    <3>2. \E i \in 1 .. at - 1 : Domains[i] = d
      BY <1>3, <2>1
    <3> QED BY <3>1, <3>2 DEF Handled, Loading
  <2>4. ~Splice /\ ~Unsplice
    BY <1>3, <2>1, <1>13 DEF Splice, Unsplice, Inspected, Return
  <2> QED BY <1>2, <2>1, <2>2, <2>3, <2>4, QuietProgress
<1> QED BY <1>5, <1>6, <1>7, <1>8, <1>9, <1>10, <1>11, <1>12, <1>13 DEF Next, Step


-----------------------------------------------------------------------------
(* The host's chains have one node each, and no image is mapped.           *)
LEMMA InitEntry == Init => Inv
<1> SUFFICES ASSUME Init PROVE Inv
  OBVIOUS
<1>1. /\ \A d \in Domain : HostNode[d] \in Node /\ HostNode[d] \in DomainNodes(d) \ PluginNodes
      /\ Null \notin Node /\ IsFiniteSet(Node)
      /\ HostNode \in [Domain -> Node]
  BY NodesApart, NodesFinite, NodesAssumption
<1>2. Len(Domains) \in Nat /\ Cardinality(Node) \in Nat
  BY <1>1, DomainsFinite, FS_CardinalityType
<1>3. TypeOK
  <2>1. next \in [Node -> NodeOrNull]
    BY DEF Init, NodeOrNull
  <2>2. /\ hostHead \in [Domain -> NodeOrNull] /\ localHead \in [Domain -> NodeOrNull]
        /\ tail \in [Domain -> NodeOrNull]
    BY <1>1 DEF Init, NodeOrNull
  <2>3. walk \in [Domain -> Seq(Node)]
    BY DEF Init
  <2>4. redirect \in [Type -> Range(HostAnchors) \cup {Null}]
    BY DEF Init
  <2>5. at \in 1 .. Len(IF pc = "transfer" THEN PluginAnchors ELSE Domains) + 1
    BY <1>2 DEF Init
  <2>6. /\ {slow, fast, n} \subseteq NodeOrNull /\ count \in 0 .. Cardinality(Node)
        /\ pc # "inspect" => NoScan
    BY <1>2 DEF Init, NoScan, NodeOrNull
  <2>7. {mapped, global, booted, ended} \subseteq BOOLEAN
    BY DEF Init
  <2> QED BY <2>1, <2>2, <2>3, <2>4, <2>5, <2>6, <2>7 DEF TypeOK
<1>4. \A d \in Domain : ~Linked(d)
  BY DEF Init, Linked
<1>5. PhaseInv
  BY DEF Init, PhaseInv, Loading, Unloading
<1>6. RedirectInv
  <2>1. \A t \in Type : redirect[t] = Null
    BY DEF Init
  <2>2. \A d \in Domain : HeadOf(d) \in Type /\ CacheOf(d) \in Type
    BY TypesApart
  <2> QED BY <1>4, <2>1, <2>2 DEF Init, RedirectInv, Transferred, Loading
<1>7. ASSUME NEW d \in Domain PROVE ChainInv(d) /\ LocalInv(d) /\ CacheInv(d) /\ ProgressInv(d)
  <2> SUFFICES ASSUME NEW x, x = HostNode[d]
               PROVE  ChainInv(d) /\ LocalInv(d) /\ CacheInv(d) /\ ProgressInv(d)
    OBVIOUS
  <2>1. IsPath(<<x>>, DomainNodes(d), next, hostHead[d])
    BY <1>1 DEF Init, IsPath
  <2>2. HostChain(d) = <<x>>
    BY <1>1, <1>3, <2>1, NodesApart, DomainPath DEF HostChain, TypeOK
  <2>3. ChainInv(d)
    BY <1>1, <1>4, <2>1, <2>2 DEF ChainInv
  <2>4. LocalInv(d)
    BY NodesApart DEF Init, LocalInv
  <2>5. CacheInv(d)
    <3>1. Range(walk[d]) = {} /\ Range(HostChain(d)) = {x}
      BY <2>2 DEF Init, Range
    <3> QED BY <1>1, <3>1 DEF CacheInv
  <2>6. ProgressInv(d)
    BY DEF Init, ProgressInv, Handled
  <2> QED BY <2>3, <2>4, <2>5, <2>6
<1> QED BY <1>3, <1>5, <1>6, <1>7 DEF Init, Inv, EntryInv, ScanInv

(* An inspection starts with both pointers at the head.                    *)
LEMMA StepInspection ==
  ASSUME Inv, TypeOK', Next
  PROVE  ScanInv'
<1>1. CASE Inspect
  BY <1>1, StepScan DEF Inspect
<1>2. CASE BeginInspect
  <2> SUFFICES ASSUME NEW h, h = localHead[Domains[at]] PROVE ScanInv'
    OBVIOUS
  <2>1. /\ pc = "load" /\ at \in 1 .. Len(Domains) /\ pc' = "inspect"
        /\ slow' = h /\ fast' = h
        /\ UNCHANGED <<next, local, at, n, count, verdict, result>>
    BY <1>2, EntryAssumption DEF BeginInspect
  <2>2. verdict = "race" /\ n = Null /\ count = 0
    BY <2>1 DEF Inv, EntryInv, TypeOK, NoScan
  <2>3. next \in [Node -> Node \cup {Null}] /\ h \in Node \cup {Null}
    BY <2>1, DomainsFinite DEF Inv, EntryInv, TypeOK, NodeOrNull
  <2>4. PICK o \in [Nat -> Node \cup {Null}] : Orbit(o, next, h)
    BY <2>3, OrbitExists
  <2>5. o[0] = h /\ 0 \in Nat /\ 2 * 0 = 0
    BY <2>4 DEF Orbit
  <2>6. Racing(o)'
    BY <2>1, <2>2, <2>5 DEF Racing
  <2>7. h = (localHead[Domains[at]])' /\ next' = next
    BY <2>1 DEF local
  <2> QED BY <2>4, <2>6, <2>7 DEF ScanInv, NodeOrNull
<1>3. CASE ~Inspect /\ ~BeginInspect
  <2>1. pc' # "inspect"
    BY <1>3 DEF Next, Step, Map, Unmap, Construct, Bootstrap, Shutdown, Idle, Transfer,
                EndTransfer, Refuse, NotSpliced, Splice, Inspected, NextDomain, LoadHook,
                NotUnspliced, Unsplice, UnloadHook, ClosePortal, Return
  <2> QED BY <2>1 DEF ScanInv
<1> QED BY <1>1, <1>2, <1>3

(* A step that changes nothing.                                            *)
LEMMA StutterEntry ==
  ASSUME Inv, UNCHANGED vars
  PROVE  Inv'
<1>1. /\ UNCHANGED <<mapped, global, booted, ended, next, hostHead, walk, localHead, tail>>
      /\ UNCHANGED <<redirect, pc, at, slow, fast, n, count, verdict, result>>
  BY DEF vars, image, host, local, scan
<1>2. TypeOK'
  BY <1>1 DEF Inv, EntryInv, TypeOK, NoScan
<1>3. \A d \in Domain : Linked(d)' <=> Linked(d)
  BY <1>1 DEF Linked
<1>4. PhaseInv'
  BY <1>1, <1>3 DEF Inv, EntryInv, PhaseInv, MayBootstrap, Linked
<1>5. RedirectInv'
  BY <1>1, <1>3 DEF Inv, EntryInv, RedirectInv, Transferred, Counterpart
<1>6. \A d \in Domain : HostChain(d)' = HostChain(d)
  BY <1>1 DEF HostChain
<1>7. ASSUME NEW d \in Domain PROVE (ChainInv(d) /\ LocalInv(d) /\ CacheInv(d) /\ ProgressInv(d))'
  <2>1. ChainInv(d) /\ LocalInv(d) /\ CacheInv(d) /\ ProgressInv(d)
    BY DEF Inv, EntryInv
  <2>2. ChainInv(d)'
    BY <1>1, <1>3, <1>6, <2>1 DEF ChainInv, SegmentAt, DomainNodes
  <2>3. LocalInv(d)' /\ CacheInv(d)'
    BY <1>1, <1>3, <1>6, <2>1 DEF LocalInv, CacheInv
  <2>4. ProgressInv(d)'
    BY <1>1, <1>3, <2>1 DEF ProgressInv, Due, Handled, Linkable
  <2> QED BY <2>2, <2>3, <2>4
<1>8. ScanInv'
  BY <1>1 DEF Inv, ScanInv, Racing, Counting, Decided
<1> QED BY <1>2, <1>4, <1>5, <1>7, <1>8 DEF Inv, EntryInv

(* Inv is inductive.                                                       *)
LEMMA StepEntry ==
  ASSUME Inv, [Next]_vars
  PROVE  Inv'
<1>1. CASE Next
  <2>1. TypeOK' /\ PhaseInv' /\ RedirectInv'
    BY <1>1, StepType, StepPhase, StepRedirect
  <2>2. SegmentsInv'
    BY <1>1, <2>1, StepSegments
  <2>3. \A d \in Domain : ProgressInv(d)'
    BY <1>1, <2>1, <2>2, StepProgress
  <2>4. ScanInv'
    BY <1>1, <2>1, StepInspection
  <2> QED BY <2>1, <2>2, <2>3, <2>4 DEF Inv, EntryInv, SegmentsInv
<1>2. CASE UNCHANGED vars
  BY <1>2, StutterEntry
<1> QED BY <1>1, <1>2

(* The inductive invariant: types, the place of the entry point, the       *)
(* redirects, each domain's pointers, cached walk and progress, and the    *)
(* scan of the chain under inspection.                                     *)
THEOREM EntryInvariant == Spec => []Inv
<1>1. Init => Inv
  BY InitEntry
<1>2. Inv /\ [Next]_vars => Inv'
  BY StepEntry
<1> QED BY <1>1, <1>2, PTL DEF Spec


-----------------------------------------------------------------------------
(* Every variable keeps its type, and Inspect (secure_plugin_coupler.hpp)  *)
(* counts no node twice, for any chain in an image's memory.               *)
THEOREM EntryTypes == Spec => []TypeOK
<1>1. Inv => TypeOK
  BY DEF Inv, EntryInv
<1> QED BY <1>1, EntryInvariant, PTL

(* SecurePluginCoupler::Inspect refuses a chain exactly if a walk of it    *)
(* would not end, and counts an accepted one right, whatever pointers the  *)
(* image of a plugin holds.                                                *)
THEOREM InspectionRight == Spec => []VerdictRight
<1>1. Inv => VerdictRight
  <2> SUFFICES ASSUME Inv, pc = "inspect", verdict = "done" PROVE Coupler!VerdictRight
    BY DEF VerdictRight, Coupler!VerdictRight
  <2>1. Decided
    BY InspectedChain DEF Racing, Counting
  <2> SUFFICES ASSUME NEW h, h = localHead[Domains[at]] PROVE Coupler!VerdictRight
    OBVIOUS
  <2>2. Coupler!Trapped(next, h) <=> Trapped(next, h)
    BY Zenon DEF Coupler!Trapped, Trapped
  <2>3. Coupler!ChainFrom(next, h) = ChainFrom(next, h)
    <3>1. \A S : Coupler!Cardinality(S) = Cardinality(S)
      BY Zenon DEF Coupler!Cardinality, Cardinality
    <3>2. Coupler!Cursor(next, h) = Cursor(next, h)
      BY <3>1, Zenon DEF Coupler!Cursor, Cursor
    <3> QED BY <3>1, <3>2, Zenon DEF Coupler!ChainFrom, ChainFrom
  <2> QED BY <2>1, <2>2, <2>3 DEF Decided, Coupler!VerdictRight
<1> QED BY <1>1, EntryInvariant, PTL

(* The plugin's nodes in the host's chain are those that a walk from its   *)
(* local head meets.                                                       *)
LEMMA OwnNodes ==
  ASSUME Inv, NEW d \in Domain, Linked(d)
  PROVE  Range(HostChain(d)) \cap PluginNodes =
           Range(ChainFrom(next, localHead[d])) \cap PluginNodes
<1> SUFFICES ASSUME NEW w, w = HostChain(d), NEW u, u = ChainFrom(next, localHead[d])
             PROVE  Range(w) \cap PluginNodes = Range(u) \cap PluginNodes
  OBVIOUS
<1>1. PICK j, k \in 0 .. Len(w) : SegmentAt(d, j, k)
  BY DEF Inv, EntryInv, ChainInv
<1>2. /\ w \in Seq(Node) /\ Len(w) \in Nat /\ DOMAIN w = 1 .. Len(w)
      /\ IsPath(w, DomainNodes(d), next, hostHead[d])
      /\ next \in [Node -> NodeOrNull]
  BY HostChainFacts DEF Inv, EntryInv, TypeOK
<1>3. /\ j \in Nat /\ k \in Nat /\ j < k /\ k <= Len(w) /\ localHead[d] = w[j + 1]
      /\ \A i \in 1 .. Len(w) : w[i] \in PluginNodes <=> j < i /\ i <= k
  BY <1>1, <1>2 DEF SegmentAt
<1>4. u = SubSeq(w, j + 1, Len(w))
  <2> SUFFICES ASSUME NEW l, l = localHead[d] PROVE u = SubSeq(w, j + 1, Len(w))
    OBVIOUS
  <2>1. u = ChainFrom(next, l) /\ l = w[j + 1] /\ j < Len(w)
    BY <1>2, <1>3
  <2> QED BY <1>2, <1>3, <2>1, SegmentEnds, SMTT(30)
<1>5. /\ DOMAIN u = 1 .. Len(w) - j
      /\ \A i \in 1 .. Len(w) - j : u[i] = w[i + j]
  <2>1. Len(u) = Len(w) - j /\ DOMAIN u = 1 .. Len(u)
    BY <1>2, <1>3, <1>4
  <2>2. ASSUME NEW i \in 1 .. Len(w) - j PROVE u[i] = w[i + j]
    BY <1>2, <1>3, <1>4
  <2> QED BY <2>1, <2>2
<1>6. \A x : x \in Range(w) <=> \E i \in 1 .. Len(w) : x = w[i]
  BY <1>2 DEF Range
<1>7. \A x : x \in Range(u) <=> \E i \in 1 .. Len(w) - j : x = u[i]
  BY <1>5 DEF Range
<1>8. ASSUME NEW i \in 1 .. Len(w), w[i] \in PluginNodes PROVE w[i] \in Range(u)
  <2>1. i - j \in 1 .. Len(w) - j /\ (i - j) + j = i
    BY <1>2, <1>3, <1>8
  <2> QED BY <1>5, <1>7, <2>1
<1>9. ASSUME NEW i \in 1 .. Len(w) - j PROVE u[i] \in Range(w)
  <2>1. i + j \in 1 .. Len(w)
    BY <1>2, <1>3
  <2> QED BY <1>5, <1>6, <2>1
<1> QED BY <1>6, <1>7, <1>8, <1>9

(* The walks that the host's populators are visited by (NodeLink, with     *)
(* Splice and Unsplice of the chain splicer) always end, and meet a        *)
(* plugin's nodes exactly where a domain of it is linked, for any number   *)
(* of domains and any images.                                              *)
THEOREM ChainsSound == Spec => []HostChainsSound
<1>1. Inv => HostChainsSound
  <2> SUFFICES ASSUME Inv, NEW d \in Domain, NEW w, w = HostChain(d), NEW own,
                      own = IF Linked(d) THEN Range(ChainFrom(next, localHead[d])) ELSE {}
               PROVE  /\ Terminates(next, hostHead[d])
                      /\ Range(w) \cap PluginNodes = own \cap PluginNodes
                      /\ pc = "idle" => Range(walk[d]) \cap PluginNodes = own \cap PluginNodes
    BY Zenon DEF HostChainsSound, HostChain
  <2>1. Terminates(next, hostHead[d])
    <3>1. DomainNodes(d) \subseteq Node /\ next \in [Node -> NodeOrNull]
      BY NodesApart DEF Inv, EntryInv, TypeOK
    <3> QED BY <3>1, HostChainFacts, DomainPath
  <2>2. Range(w) \cap PluginNodes = own \cap PluginNodes
    <3>1. CASE Linked(d)
      BY <3>1, OwnNodes
    <3>2. CASE ~Linked(d)
      <4>1. \A i \in 1 .. Len(w) : w[i] \notin PluginNodes
        BY <3>2 DEF Inv, EntryInv, ChainInv
      <4>2. DOMAIN w = 1 .. Len(w)
        BY HostChainFacts
      <4> QED BY <3>2, <4>1, <4>2 DEF Range
    <3> QED BY <3>1, <3>2
  <2>3. pc = "idle" => Range(walk[d]) \cap PluginNodes = Range(w) \cap PluginNodes
    BY DEF Inv, EntryInv, CacheInv
  <2> QED BY <2>1, <2>2, <2>3
<1> QED BY <1>1, EntryInvariant, PTL

(* The mass transfer of CRG_Bootstrap and Splice's own redirects never     *)
(* lead a type to an instance of another, and a linked domain has every    *)
(* anchor redirected that both binaries have.                              *)
THEOREM RedirectsPaired == Spec => []AnchorsPaired
<1>1. Inv => AnchorsPaired
  <2> SUFFICES ASSUME Inv PROVE AnchorsPaired
    OBVIOUS
  <2>1. \A t \in Both : t \in Type
    BY CounterpartFacts DEF Both
  <2>2. RedirectInv
    BY DEF Inv, EntryInv
  <2> QED BY <2>1, <2>2 DEF RedirectInv, AnchorsPaired
<1> QED BY <1>1, EntryInvariant, PTL

(* After CRG_Bootstrap the linked domains are exactly those whose local    *)
(* chain ends, that the plugin spells as the host does, and that have not  *)
(* been shut down since the image was mapped.                              *)
THEOREM LinksWhatEnds == Spec => []BootstrapLinks
<1>1. Inv => BootstrapLinks
  <2> SUFFICES ASSUME Inv, pc = "idle", booted, NEW d \in Domain
               PROVE  Linked(d) <=> /\ localHead[d] # Null /\ Terminates(next, localHead[d])
                                    /\ ~global /\ ~ended
    BY DEF BootstrapLinks
  <2>1. Linked(d) <=> Linkable(d)
    BY DEF Inv, EntryInv, ProgressInv, Handled
  <2>2. Terminates(next, localHead[d]) <=> ~Trapped(next, localHead[d])
    <3>1. /\ next \in [Node -> Node \cup {Null}] /\ localHead[d] \in Node \cup {Null}
          /\ IsFiniteSet(Node) /\ Null \notin Node
      BY NodesFinite DEF Inv, EntryInv, TypeOK, NodeOrNull
    <3> QED BY <3>1, TerminatesOrTrapped
  <2> QED BY <2>1, <2>2 DEF Linkable
<1> QED BY <1>1, EntryInvariant, PTL

-----------------------------------------------------------------------------
(* The keys (TypeKeys), on words of any width: xor bit by bit, and         *)
(* multiplication by a prime that is odd.                                  *)

(* Words, and the bits of a word.                                          *)
LEMMA WordFacts ==
  /\ Width \in Nat /\ Modulus \in Nat \ {0} /\ Modulus = Bit[Width]
  /\ Word = 0 .. Modulus - 1 /\ Word \subseteq Nat
  /\ {Fnv1aBaseline, Fnv1aPrime, DirectorySalt, ArenaSalt} \subseteq Word
  /\ Fnv1aPrime % 2 = 1
<1>1. Width \in Nat
  BY KeysAssumption
<1>2. Modulus \in Nat \ {0} /\ Modulus = Bit[Width]
  BY <1>1, BitFacts DEF Modulus
<1> QED BY <1>1, <1>2, KeysAssumption DEF Word

(* A number is its half and its last bit.                                   *)
LEMMA HalfFacts ==
  ASSUME NEW x \in Nat
  PROVE  /\ x \div 2 \in Nat /\ x % 2 \in {0, 1}
         /\ x = 2 * (x \div 2) + (x % 2)
         /\ x \div 2 <= x
         /\ \A m \in Nat : x < 2 * m => x \div 2 < m
OBVIOUS

(* The last bit of a sum and of one operand give that of the other.         *)
LEMMA ParityCancels ==
  ASSUME NEW a \in Nat, NEW b \in Nat, NEW c \in Nat,
         (a + c) % 2 = (b + c) % 2 \/ (c + a) % 2 = (c + b) % 2
  PROVE  a % 2 = b % 2
OBVIOUS

(* A half has a bit less.                                                   *)
LEMMA HalfWord ==
  ASSUME NEW k \in Nat, NEW x \in 0 .. Bit[k + 1] - 1
  PROVE  x \in Nat /\ x \div 2 \in 0 .. Bit[k] - 1
<1>1. Bit[k] \in Nat \ {0} /\ Bit[k + 1] = 2 * Bit[k]
  BY BitFacts
<1>2. x \in Nat /\ x < 2 * Bit[k]
  BY <1>1
<1> QED BY <1>1, <1>2, HalfFacts

(* Half a word is a word.                                                   *)
LEMMA HalvesInWord ==
  ASSUME NEW x \in Word
  PROVE  x \in Nat /\ x \div 2 \in Word
BY WordFacts, HalfFacts

(* A number with fewer bits than a word is a word.                          *)
LEMMA BelowModulus ==
  ASSUME NEW k \in 0 .. Width
  PROVE  k \in Nat /\ Bit[k] \in Nat \ {0} /\ Bit[k] <= Modulus /\ 0 .. Bit[k] - 1 \subseteq Word
<1>1. k \in Nat /\ Width - k \in Nat /\ k + (Width - k) = Width
  BY WordFacts
<1>2. Bit[k] \in Nat \ {0} /\ Bit[Width - k] \in Nat \ {0}
  BY <1>1, BitFacts
<1>3. Modulus = Bit[k] * Bit[Width - k]
  BY <1>1, BitSum, WordFacts
<1>4. \A a, b \in Nat \ {0} : a <= a * b
  OBVIOUS
<1>5. Bit[k] <= Modulus
  BY <1>2, <1>3, <1>4
<1> QED BY <1>1, <1>2, <1>5, WordFacts

(* xor, bit by bit: a function with this equation exists, for the first    *)
(* operand loses a bit each time.                                          *)
LEMMA XorExists ==
  \A x, y \in Word :
    BitXor[x][y] = IF x = 0 THEN y
                   ELSE ((x + y) % 2) + 2 * BitXor[x \div 2][y \div 2]
<1> DEFINE bit(h, x, y) == IF x = 0 THEN y
                           ELSE ((x + y) % 2) + 2 * h[x \div 2][y \div 2]
           Rec(h) == h = [x \in Word |-> [y \in Word |-> bit(h, x, y)]]
           X == [Word -> [Word -> Nat]]
           f == [h \in X |-> [x \in Word |-> [y \in Word |-> bit(h, x, y)]]]
           zero == [x \in Word |-> [y \in Word |-> 0]]
<1>1. BitXor = CHOOSE h : Rec(h)
  BY Zenon DEF BitXor
<1>2. ASSUME NEW h \in X, NEW x \in Word, NEW y \in Word
      PROVE  bit(h, x, y) \in Nat
  <2>1. x \in Nat /\ y \in Nat /\ x \div 2 \in Word /\ y \div 2 \in Word
    BY HalvesInWord
  <2>2. h[x \div 2][y \div 2] \in Nat
    BY <2>1
  <2>3. (x + y) % 2 \in Nat
    BY <2>1
  <2> QED BY <2>1, <2>2, <2>3
<1> HIDE DEF bit
<1>3. f \in [X -> X] /\ zero \in X
  BY <1>2
<1>4. PICK o \in [Nat -> X] : Sequel(o, f, zero)
  <2> HIDE DEF X, f, zero
  <2> QED BY <1>3, NatRecursion
<1>5. ASSUME NEW k \in Nat, NEW x \in Word, NEW y \in Word
      PROVE  o[k] \in X /\ o[k + 1] \in X /\ o[k + 1][x][y] = bit(o[k], x, y)
  <2>1. o[k] \in X /\ o[k + 1] = f[o[k]] /\ o[k + 1] \in X
    <3>1. k + 1 \in Nat
      OBVIOUS
    <3> HIDE DEF X, f
    <3> QED BY <1>4, <3>1 DEF Sequel
  <2>2. \A h \in X : f[h] = [a \in Word |-> [b \in Word |-> bit(h, a, b)]]
    BY DEF f
  <2> HIDE DEF X, f
  <2>3. o[k + 1] = [a \in Word |-> [b \in Word |-> bit(o[k], a, b)]]
    BY <2>1, <2>2
  <2> QED BY <2>1, <2>3
<1> DEFINE S == {k \in Nat : \A x, y \in Word : x < Bit[k] =>
                                o[k + 1][x][y] = o[(k + 1) + 1][x][y]}
<1>6. 0 \in S
  <2> SUFFICES ASSUME NEW x \in Word, NEW y \in Word, x < Bit[0]
               PROVE  o[0 + 1][x][y] = o[(0 + 1) + 1][x][y]
    OBVIOUS
  <2>1. x = 0
    BY BitFacts, WordFacts
  <2>2. 0 + 1 \in Nat
    OBVIOUS
  <2>3. \A h : bit(h, x, y) = y
    BY <2>1 DEF bit
  <2> QED BY <1>5, <2>2, <2>3
<1>7. ASSUME NEW k \in Nat, k \in S PROVE k + 1 \in S
  <2> SUFFICES ASSUME NEW x \in Word, NEW y \in Word, x < Bit[k + 1]
               PROVE  o[(k + 1) + 1][x][y] = o[((k + 1) + 1) + 1][x][y]
    OBVIOUS
  <2>1. x \div 2 \in Word /\ y \div 2 \in Word /\ x \div 2 < Bit[k]
    <3>1. x \in Nat /\ Bit[k] \in Nat /\ x < 2 * Bit[k]
      BY BitFacts, WordFacts
    <3> QED BY <3>1, HalvesInWord, HalfFacts
  <2>2. o[k + 1][x \div 2][y \div 2] = o[(k + 1) + 1][x \div 2][y \div 2]
    BY <1>7, <2>1
  <2>3. bit(o[k + 1], x, y) = bit(o[(k + 1) + 1], x, y)
    BY <2>2 DEF bit
  <2>4. k + 1 \in Nat /\ (k + 1) + 1 \in Nat
    OBVIOUS
  <2>5. /\ o[(k + 1) + 1][x][y] = bit(o[k + 1], x, y)
        /\ o[((k + 1) + 1) + 1][x][y] = bit(o[(k + 1) + 1], x, y)
    BY <1>5, <2>4
  <2> QED BY <2>3, <2>5
<1>8. Width \in S
  <2> HIDE DEF S
  <2> QED BY <1>6, <1>7, NatSetInduction, WordFacts
<1> DEFINE g == o[Width + 1]
<1>9. g \in X /\ \A x, y \in Word : g[x][y] = bit(g, x, y)
  <2>1. Width \in Nat /\ Width + 1 \in Nat
    <3> HIDE DEF X, S, bit
    <3>1. Width \in Nat
      BY KeysAssumption
    <3> QED BY <3>1
  <2>2. \A x \in Word : x < Bit[Width]
    BY WordFacts
  <2>3. g \in X
    <3> HIDE DEF X
    <3> QED BY <1>4, <2>1
  <2>4. \A x, y \in Word : g[x][y] = o[(Width + 1) + 1][x][y]
    BY <1>8, <2>2
  <2>5. \A x, y \in Word : o[(Width + 1) + 1][x][y] = bit(g, x, y)
    BY <1>5, <2>1
  <2> QED BY <2>3, <2>4, <2>5
<1> HIDE DEF g
<1>10. Rec(g)
  <2>1. [x \in Word |-> [y \in Word |-> g[x][y]]] = g
    BY <1>9
  <2> QED BY <1>9, <2>1
<1>11. Rec(BitXor)
  <2> HIDE DEF Rec
  <2> QED BY <1>1, <1>10
<1>12. \A x, y \in Word : BitXor[x][y] = bit(BitXor, x, y)
  <2> HIDE DEF bit
  <2> QED BY <1>11
<1> QED BY <1>12 DEF bit

(* It is so from the first bit on, also where the first operand is 0.      *)
LEMMA XorBits ==
  ASSUME NEW k \in 0 .. Width - 1,
         NEW x \in 0 .. Bit[k + 1] - 1, NEW y \in 0 .. Bit[k + 1] - 1
  PROVE  /\ x \in Nat /\ y \in Nat
         /\ x \div 2 \in 0 .. Bit[k] - 1 /\ y \div 2 \in 0 .. Bit[k] - 1
         /\ BitXor[x][y] = ((x + y) % 2) + 2 * BitXor[x \div 2][y \div 2]
<1>1. k \in Nat /\ k + 1 \in 0 .. Width /\ k \in 0 .. Width
  BY WordFacts
<1>2. /\ x \in Nat /\ y \in Nat /\ x \in Word /\ y \in Word
      /\ x \div 2 \in 0 .. Bit[k] - 1 /\ y \div 2 \in 0 .. Bit[k] - 1
  BY <1>1, HalfWord, BelowModulus
<1>3. x \div 2 \in Word /\ y \div 2 \in Word
  BY <1>1, <1>2, BelowModulus
<1>4. CASE x = 0
  <2>1. x \div 2 = 0 /\ (x + y) % 2 = y % 2 /\ y = 2 * (y \div 2) + (y % 2)
        /\ y \div 2 \in Nat /\ y % 2 \in Nat
    BY <1>2, <1>4, HalfFacts
  <2>2. BitXor[x][y] = y /\ BitXor[x \div 2][y \div 2] = y \div 2
    BY <1>2, <1>3, <1>4, <2>1, XorExists
  <2> QED BY <1>2, <2>1, <2>2
<1>5. CASE x # 0
  BY <1>2, <1>5, XorExists
<1> QED BY <1>2, <1>4, <1>5

(* It has as many bits as its operands.                                    *)
LEMMA XorBound ==
  ASSUME NEW k \in 0 .. Width,
         NEW x \in 0 .. Bit[k] - 1, NEW y \in 0 .. Bit[k] - 1
  PROVE  BitXor[x][y] \in 0 .. Bit[k] - 1
<1> DEFINE S == {i \in Nat : i <= Width =>
                   \A a, b \in 0 .. Bit[i] - 1 : BitXor[a][b] \in 0 .. Bit[i] - 1}
<1>1. 0 \in S
  <2> SUFFICES ASSUME NEW a \in 0 .. Bit[0] - 1, NEW b \in 0 .. Bit[0] - 1
               PROVE  BitXor[a][b] \in 0 .. Bit[0] - 1
    OBVIOUS
  <2>1. a = 0 /\ b = 0 /\ Bit[0] = 1
    BY BitFacts
  <2>2. 0 \in Word
    BY WordFacts
  <2> QED BY <2>1, <2>2, XorExists
<1>2. ASSUME NEW i \in Nat, i \in S PROVE i + 1 \in S
  <2> SUFFICES ASSUME i + 1 <= Width,
                      NEW a \in 0 .. Bit[i + 1] - 1, NEW b \in 0 .. Bit[i + 1] - 1
               PROVE  BitXor[a][b] \in 0 .. Bit[i + 1] - 1
    OBVIOUS
  <2>1. i \in 0 .. Width - 1
    BY WordFacts
  <2>2. /\ a \in Nat /\ b \in Nat
        /\ a \div 2 \in 0 .. Bit[i] - 1 /\ b \div 2 \in 0 .. Bit[i] - 1
        /\ BitXor[a][b] = ((a + b) % 2) + 2 * BitXor[a \div 2][b \div 2]
    BY <2>1, XorBits
  <2>3. BitXor[a \div 2][b \div 2] \in 0 .. Bit[i] - 1
    <3>1. i <= Width
      BY <2>1, WordFacts
    <3>2. \A u, v \in 0 .. Bit[i] - 1 : BitXor[u][v] \in 0 .. Bit[i] - 1
      BY <1>2, <3>1
    <3> QED BY <2>2, <3>2
  <2>4. (a + b) % 2 \in {0, 1} /\ Bit[i] \in Nat /\ Bit[i + 1] = 2 * Bit[i]
    <3>1. (a + b) % 2 \in {0, 1}
      BY <2>2
    <3> QED BY <3>1, BitFacts
  <2> QED BY <2>2, <2>3, <2>4
<1>3. k \in S
  <2>1. k \in Nat
    BY WordFacts
  <2> HIDE DEF S
  <2> QED BY <1>1, <1>2, <2>1, NatSetInduction
<1>4. k <= Width
  BY WordFacts
<1> QED BY <1>3, <1>4

(* Either operand can be told from the other one and the result.           *)
LEMMA XorInjective ==
  ASSUME NEW x \in Word, NEW y \in Word, NEW z \in Word
  PROVE  /\ BitXor[x][y] \in Word
         /\ BitXor[x][z] = BitXor[y][z] => x = y
         /\ BitXor[z][x] = BitXor[z][y] => x = y
<1> DEFINE S == {i \in Nat : i <= Width =>
                   \A a, b, c \in 0 .. Bit[i] - 1 :
                     /\ BitXor[a][c] = BitXor[b][c] => a = b
                     /\ BitXor[c][a] = BitXor[c][b] => a = b}
<1>1. 0 \in S
  <2>1. \A a, b \in 0 .. Bit[0] - 1 : a = b
    BY BitFacts
  <2> QED BY <2>1
<1>2. ASSUME NEW i \in Nat, i \in S PROVE i + 1 \in S
  <2> SUFFICES ASSUME i + 1 <= Width,
                      NEW a \in 0 .. Bit[i + 1] - 1, NEW b \in 0 .. Bit[i + 1] - 1,
                      NEW c \in 0 .. Bit[i + 1] - 1
               PROVE  /\ BitXor[a][c] = BitXor[b][c] => a = b
                      /\ BitXor[c][a] = BitXor[c][b] => a = b
    OBVIOUS
  <2> DEFINE h(u) == u \div 2
             t(u, v) == BitXor[h(u)][h(v)]
  <2>1. i \in 0 .. Width - 1 /\ i \in 0 .. Width /\ i <= Width
    BY WordFacts
  <2>2. \A u \in {a, b, c} : u \in Nat /\ h(u) \in 0 .. Bit[i] - 1
    BY <2>1, XorBits
  <2>3. \A u, v \in {a, b, c} : /\ BitXor[u][v] = ((u + v) % 2) + 2 * t(u, v)
                                /\ t(u, v) \in Nat
    <3> SUFFICES ASSUME NEW u \in {a, b, c}, NEW v \in {a, b, c}
                 PROVE  /\ BitXor[u][v] = ((u + v) % 2) + 2 * t(u, v)
                        /\ t(u, v) \in Nat
      OBVIOUS
    <3>1. u \in 0 .. Bit[i + 1] - 1 /\ v \in 0 .. Bit[i + 1] - 1
      OBVIOUS
    <3>2. BitXor[u][v] = ((u + v) % 2) + 2 * t(u, v)
      BY <2>1, <3>1, XorBits
    <3>3. t(u, v) \in 0 .. Bit[i] - 1
      BY <2>1, <2>2, XorBound
    <3> QED BY <3>2, <3>3
  <2>4. \A u, v \in Nat : /\ u = 2 * h(u) + (u % 2) /\ u % 2 \in {0, 1}
                          /\ h(u) \in Nat /\ (u + v) % 2 \in {0, 1}
    BY HalfFacts
  <2>5. ASSUME BitXor[a][c] = BitXor[b][c] PROVE a = b
    <3>1. (a + c) % 2 = (b + c) % 2 /\ t(a, c) = t(b, c)
      <4> HIDE DEF t, h
      <4> QED BY <2>2, <2>3, <2>4, <2>5
    <3>2. h(a) = h(b)
      BY <1>2, <2>1, <2>2, <3>1
    <3>3. a % 2 = b % 2
      BY <2>2, <3>1, ParityCancels
    <3> QED BY <2>2, <2>4, <3>2, <3>3
  <2>6. ASSUME BitXor[c][a] = BitXor[c][b] PROVE a = b
    <3>1. (c + a) % 2 = (c + b) % 2 /\ t(c, a) = t(c, b)
      <4> HIDE DEF t, h
      <4> QED BY <2>2, <2>3, <2>4, <2>6
    <3>2. h(a) = h(b)
      BY <1>2, <2>1, <2>2, <3>1
    <3>3. a % 2 = b % 2
      BY <2>2, <3>1, ParityCancels
    <3> QED BY <2>2, <2>4, <3>2, <3>3
  <2> QED BY <2>5, <2>6
<1>3. Width \in S
  <2> HIDE DEF S
  <2> QED BY <1>1, <1>2, NatSetInduction, WordFacts
<1>4. Word = 0 .. Bit[Width] - 1 /\ Width \in 0 .. Width /\ Width <= Width
  BY WordFacts
<1>5. BitXor[x][y] \in Word
  BY <1>4, XorBound
<1> QED BY <1>3, <1>4, <1>5

(* A character changes the hash, and two hashes that differ still differ    *)
(* after the same character.                                               *)
LEMMA Fnv1aFacts ==
  ASSUME NEW x \in Word, NEW y \in Word, NEW c \in Word
  PROVE  /\ Fnv1a(x, c) \in Word
         /\ Fnv1a(x, c) = Fnv1a(y, c) => x = y
         /\ Fnv1a(c, x) = Fnv1a(c, y) => x = y
<1>1. ASSUME NEW u \in Word, NEW v \in Word
      PROVE  /\ BitXor[u][v] \in Word
             /\ Fnv1a(u, v) = (BitXor[u][v] * Fnv1aPrime) % Modulus
             /\ Fnv1a(u, v) \in Word
  <2>1. BitXor[u][v] \in Word
    BY XorInjective
  <2> DEFINE m == BitXor[u][v] * Fnv1aPrime
  <2>2. m \in Nat /\ Modulus \in Nat \ {0}
    <3>1. BitXor[u][v] \in Nat /\ Fnv1aPrime \in Nat /\ Modulus \in Nat \ {0}
      BY <2>1, WordFacts
    <3> QED BY <3>1
  <2>3. Fnv1a(u, v) = m % Modulus
    BY DEF Fnv1a
  <2>4. m % Modulus \in 0 .. Modulus - 1
    <3> HIDE DEF m
    <3> QED BY <2>2, Quotient
  <2> QED BY <2>1, <2>3, <2>4, WordFacts
<1>2. ASSUME NEW u \in Word, NEW v \in Word,
             (u * Fnv1aPrime) % Modulus = (v * Fnv1aPrime) % Modulus
      PROVE  u = v
  BY <1>2, WordFacts, OddInjective
<1>3. ASSUME Fnv1a(x, c) = Fnv1a(y, c) PROVE x = y
  <2>1. /\ BitXor[x][c] \in Word /\ BitXor[y][c] \in Word
        /\ (BitXor[x][c] * Fnv1aPrime) % Modulus = (BitXor[y][c] * Fnv1aPrime) % Modulus
    BY <1>1, <1>3
  <2>2. BitXor[x][c] = BitXor[y][c]
    BY <1>2, <2>1
  <2> QED BY <2>2, XorInjective
<1>4. ASSUME Fnv1a(c, x) = Fnv1a(c, y) PROVE x = y
  <2>1. /\ BitXor[c][x] \in Word /\ BitXor[c][y] \in Word
        /\ (BitXor[c][x] * Fnv1aPrime) % Modulus = (BitXor[c][y] * Fnv1aPrime) % Modulus
    BY <1>1, <1>4
  <2>2. BitXor[c][x] = BitXor[c][y]
    BY <1>2, <2>1
  <2> QED BY <2>2, XorInjective
<1> QED BY <1>1, <1>3, <1>4

(* A hash takes in the text character by character.                        *)
LEMMA HashSteps ==
  ASSUME NEW text \in Seq(Word)
  PROVE  \E v \in [0 .. Len(text) -> Word] :
           /\ v[0] = Fnv1aBaseline /\ v[Len(text)] = HashString(text)
           /\ \A k \in 1 .. Len(text) : v[k] = Fnv1a(v[k - 1], text[k])
<1> DEFINE len == Len(text)
           ids == text
           op(a, e) == Fnv1a(a, e)
           Rec(g) == g = [s \in SUBSET DOMAIN ids |->
                            IF s = {} THEN Fnv1aBaseline ELSE op(g[s \ {Max(s)}], ids[Max(s)])]
           iter == CHOOSE g : Rec(g)
           f == [x \in (Word) \X (1 .. len) |-> op(x[1], ids[x[2]])]
<1>1. HashString(text) = iter[DOMAIN ids]
  BY Zenon DEF HashString, FoldLeft, MapThenFoldSet
<1>2. len \in Nat /\ DOMAIN ids = 1 .. len /\ \A k \in 1 .. len : ids[k] = text[k]
  OBVIOUS
<1>3. \A a \in Word, k \in 1 .. len : op(a, ids[k]) \in Word
  BY <1>2, Fnv1aFacts
<1>4. f \in [(Word) \X (1 .. len) -> Word]
  <2> HIDE DEF op, ids, len
  <2> QED BY <1>3
<1> HIDE DEF len, ids
<1>5. PICK g \in [SUBSET (1 .. len) -> Word] : Folds(g, f, Fnv1aBaseline, len)
  <2>1. Fnv1aBaseline \in Word
    BY WordFacts
  <2> HIDE DEF f
  <2> QED BY <1>2, <1>4, <2>1, FoldExists
<1>6. ASSUME NEW s \in SUBSET (1 .. len)
      PROVE  g[s] = IF s = {} THEN Fnv1aBaseline ELSE op(g[s \ {Max(s)}], ids[Max(s)])
  <2>1. s # {} => Max(s) \in 1 .. len /\ g[s \ {Max(s)}] \in Word
    BY <1>2, <1>5, GreatestExists
  <2> HIDE DEF op
  <2> QED BY <1>2, <1>5, <2>1 DEF Folds
<1>7. Rec(g)
  <2> HIDE DEF op
  <2> QED BY <1>2, <1>6
<1>8. Rec(iter)
  <2> HIDE DEF Rec
  <2> QED BY <1>7
<1>9. \A s \in SUBSET (1 .. len) :
        iter[s] = IF s = {} THEN Fnv1aBaseline ELSE op(iter[s \ {Max(s)}], ids[Max(s)])
  <2> HIDE DEF op, iter
  <2> QED BY <1>2, <1>8
<1> HIDE DEF Rec, iter, op
<1> DEFINE v == [k \in 0 .. len |-> iter[1 .. k]]
<1>10. v[0] = Fnv1aBaseline
  <2>1. 1 .. 0 = {} /\ 1 .. 0 \in SUBSET (1 .. len) /\ 0 \in 0 .. len
    BY <1>2
  <2> QED BY <1>9, <2>1
<1>11. ASSUME NEW k \in 1 .. len
       PROVE  v[k] = op(v[k - 1], ids[k])
  <2>1. k \in Nat \ {0} /\ 1 .. k \in SUBSET (1 .. len) /\ k \in 0 .. len /\ k - 1 \in 0 .. len
    BY <1>2
  <2>2. 1 .. k # {} /\ Max(1 .. k) = k /\ (1 .. k) \ {k} = 1 .. k - 1
    BY <2>1, IntervalRest
  <2>3. iter[1 .. k] = op(iter[(1 .. k) \ {k}], ids[k])
    BY <1>9, <2>1, <2>2
  <2>4. iter[1 .. k] = op(iter[1 .. k - 1], ids[k])
    BY <2>2, <2>3
  <2> QED BY <2>1, <2>4
<1>12. v[len] = HashString(text)
  <2>1. len \in 0 .. len
    BY <1>2
  <2> QED BY <1>1, <1>2, <2>1
<1>13. DOMAIN v = 0 .. len /\ v = [k \in DOMAIN v |-> v[k]]
  OBVIOUS
<1> HIDE DEF v
<1> DEFINE S == {k \in Nat : k <= len => v[k] \in Word}
<1>14. 0 \in S
  BY <1>10, WordFacts
<1>15. ASSUME NEW k \in Nat, k \in S PROVE k + 1 \in S
  <2> SUFFICES ASSUME k + 1 <= len PROVE v[k + 1] \in Word
    OBVIOUS
  <2>1. k + 1 \in 1 .. len /\ (k + 1) - 1 = k /\ v[k] \in Word
    BY <1>2, <1>15
  <2>2. v[k + 1] = op(v[k], ids[k + 1])
    BY <1>11, <2>1
  <2> QED BY <1>3, <2>1, <2>2
<1>16. Nat \subseteq S
  <2> HIDE DEF S
  <2> QED BY <1>14, <1>15, NatSetInduction
<1>17. v \in [0 .. len -> Word]
  <2>1. \A k \in 0 .. len : k \in Nat /\ k <= len
    BY <1>2
  <2> QED BY <1>13, <1>16, <2>1
<1>18. \A k \in 1 .. len : v[k] = Fnv1a(v[k - 1], text[k])
  <2>1. \A k \in 1 .. len : ids[k] = text[k] /\ v[k] = op(v[k - 1], ids[k])
    BY <1>2, <1>11
  <2> QED BY <2>1 DEF op
<1> QED BY <1>10, <1>12, <1>17, <1>18 DEF len

(* Texts of one length that differ in a single character never have the    *)
(* same hash.                                                              *)
THEOREM HashesDiffer ==
  ASSUME NEW text \in Seq(Word), NEW i \in DOMAIN text, NEW c \in Word, c # text[i]
  PROVE  HashString([text EXCEPT ![i] = c]) # HashString(text)
<1> DEFINE other == [text EXCEPT ![i] = c]
           len == Len(text)
<1>1. /\ len \in Nat /\ i \in 1 .. len /\ other \in Seq(Word) /\ Len(other) = len
      /\ other[i] = c /\ text[i] \in Word
      /\ \A k \in 1 .. len : text[k] \in Word /\ (k # i => other[k] = text[k])
  OBVIOUS
<1>2. PICK v \in [0 .. len -> Word] :
        /\ v[0] = Fnv1aBaseline /\ v[len] = HashString(text)
        /\ \A k \in 1 .. len : v[k] = Fnv1a(v[k - 1], text[k])
  BY HashSteps
<1>3. PICK w \in [0 .. len -> Word] :
        /\ w[0] = Fnv1aBaseline /\ w[len] = HashString(other)
        /\ \A k \in 1 .. len : w[k] = Fnv1a(w[k - 1], other[k])
  <2> HIDE DEF other, len
  <2> QED BY <1>1, HashSteps
<1> HIDE DEF other, len
<1> DEFINE S == {k \in Nat : k <= len => IF k < i THEN w[k] = v[k] ELSE w[k] # v[k]}
<1>4. 0 \in S
  BY <1>1, <1>2, <1>3
<1>5. ASSUME NEW k \in Nat, k \in S PROVE k + 1 \in S
  <2> SUFFICES ASSUME k + 1 <= len
               PROVE  IF k + 1 < i THEN w[k + 1] = v[k + 1] ELSE w[k + 1] # v[k + 1]
    OBVIOUS
  <2>1. /\ k + 1 \in 1 .. len /\ (k + 1) - 1 = k /\ k \in 0 .. len
        /\ IF k < i THEN w[k] = v[k] ELSE w[k] # v[k]
    BY <1>1, <1>5
  <2>2. /\ v[k] \in Word /\ w[k] \in Word
        /\ v[k + 1] = Fnv1a(v[k], text[k + 1]) /\ w[k + 1] = Fnv1a(w[k], other[k + 1])
        /\ text[k + 1] \in Word
    BY <1>1, <1>2, <1>3, <2>1
  <2>3. CASE k + 1 < i
    <3>1. w[k] = v[k] /\ other[k + 1] = text[k + 1]
      BY <1>1, <2>1, <2>3
    <3> QED BY <2>2, <2>3, <3>1
  <2>4. CASE k + 1 = i
    <3>1. w[k] = v[k] /\ other[k + 1] = c /\ text[k + 1] # c
      BY <1>1, <2>1, <2>4
    <3>2. w[k + 1] # v[k + 1]
      BY <2>2, <3>1, Fnv1aFacts
    <3> QED BY <2>4, <3>2
  <2>5. CASE k + 1 > i
    <3>1. w[k] # v[k] /\ other[k + 1] = text[k + 1]
      BY <1>1, <2>1, <2>5
    <3> DEFINE a == w[k]
               b == v[k]
               e == text[k + 1]
    <3>2. /\ a \in Word /\ b \in Word /\ e \in Word /\ a # b
          /\ w[k + 1] = Fnv1a(a, e) /\ v[k + 1] = Fnv1a(b, e)
      BY <2>2, <3>1
    <3> HIDE DEF a, b, e
    <3>3. w[k + 1] # v[k + 1]
      BY <3>2, Fnv1aFacts
    <3> QED BY <1>1, <2>5, <3>3
  <2> QED BY <1>1, <2>3, <2>4, <2>5
<1>6. len \in S
  <2> HIDE DEF S
  <2> QED BY <1>1, <1>4, <1>5, NatSetInduction
<1>7. w[len] # v[len]
  BY <1>1, <1>6
<1> QED BY <1>2, <1>3, <1>7 DEF other

(* No two contracts have the same arena key in a domain.                   *)
LEMMA MixInjective ==
  ASSUME NEW d \in Word, NEW b \in Word, NEW c \in Word, Mix(d, b) = Mix(d, c)
  PROVE  b = c
<1> DEFINE salt == ArenaSalt + d * 64 + (d \div 4)
<1>1. salt \in Nat /\ Modulus \in Nat \ {0} /\ b \in 0 .. Modulus - 1 /\ c \in 0 .. Modulus - 1
  <2>1. d \in Nat /\ ArenaSalt \in Nat /\ d \div 4 \in Nat
    BY WordFacts
  <2> QED BY <2>1, WordFacts
<1>2. \A x \in Word : Mix(d, x) = BitXor[d][(x + salt) % Modulus]
  <2>1. d \in Nat /\ ArenaSalt \in Nat /\ d \div 4 \in Nat
    BY WordFacts
  <2>2. \A x \in Word : x + ArenaSalt + d * 64 + (d \div 4) = x + salt
    BY <2>1, WordFacts
  <2> QED BY <2>2 DEF Mix
<1> HIDE DEF salt
<1> DEFINE s == (b + salt) \div Modulus
           t == (c + salt) \div Modulus
           r == (b + salt) % Modulus
           q == (c + salt) % Modulus
<1>3. /\ s \in Nat /\ r \in 0 .. Modulus - 1 /\ b + salt = Modulus * s + r
      /\ t \in Nat /\ q \in 0 .. Modulus - 1 /\ c + salt = Modulus * t + q
  <2>1. b + salt \in Nat /\ c + salt \in Nat
    BY <1>1
  <2> QED BY <1>1, <2>1, Quotient
<1>4. r = q
  <2>1. r \in Word /\ q \in Word
    BY <1>3, WordFacts
  <2>2. BitXor[d][r] = BitXor[d][q]
    BY <1>2
  <2> HIDE DEF r, q
  <2> QED BY <2>1, <2>2, XorInjective
<1> HIDE DEF s, t, r, q
<1>5. s = t
  <2>1. CASE s < t
    <3>1. s + 1 <= t /\ Modulus * (s + 1) <= Modulus * t /\ Modulus * (s + 1) = Modulus * s + Modulus
      BY <1>1, <1>3, <2>1
    <3> QED BY <1>1, <1>3, <1>4, <3>1
  <2>2. CASE t < s
    <3>1. t + 1 <= s /\ Modulus * (t + 1) <= Modulus * s /\ Modulus * (t + 1) = Modulus * t + Modulus
      BY <1>1, <1>3, <2>2
    <3> QED BY <1>1, <1>3, <1>4, <3>1
  <2> QED BY <1>3, <2>1, <2>2
<1> QED BY <1>1, <1>3, <1>4, <1>5

(* As many contracts, as many keys.                                         *)
LEMMA MixCounted ==
  ASSUME NEW d \in Word
  PROVE  Cardinality({Mix(d, c) : c \in Word}) = Modulus
<1> DEFINE M == {Mix(d, c) : c \in Word}
           f == [c \in Word |-> Mix(d, c)]
<1>1. f \in Bijection(Word, M)
  <2>1. f \in [Word -> M] /\ \A y \in M : \E c \in Word : f[c] = y
    OBVIOUS
  <2>2. \A b, c \in Word : f[b] = f[c] => b = c
    BY MixInjective
  <2> HIDE DEF f, M
  <2> QED BY <2>1, <2>2 DEF Bijection, Injection, Surjection, IsInjective
<1>2. IsFiniteSet(Word) /\ Cardinality(Word) = Modulus
  <2>1. 0 \in Int /\ Modulus - 1 \in Int /\ Modulus > 0
    BY WordFacts
  <2> DEFINE top == Modulus - 1
  <2>2. /\ IsFiniteSet(0 .. top)
        /\ Cardinality(0 .. top) = IF 0 > top THEN 0 ELSE top - 0 + 1
    <3> HIDE DEF top
    <3> QED BY <2>1, FS_Interval DEF top
  <2> QED BY <2>1, <2>2, WordFacts
<1>3. ExistsBijection(Word, M)
  BY <1>1 DEF ExistsBijection
<1> QED BY <1>2, <1>3, FS_Bijection

(* The keys tell types apart as far as they can, on words of any width.    *)
THEOREM KeysApart == Spec => []KeysTellApart
<1>1. HashesApart
  <2> SUFFICES ASSUME NEW name \in Names, NEW i \in DOMAIN name,
                      NEW c \in (1 .. 4) \ {name[i]}
               PROVE  HashString([name EXCEPT ![i] = c]) # HashString(name)
    BY DEF HashesApart
  <2>1. 1 .. 4 \subseteq Word
    <3>1. Bit[8] <= Modulus /\ Bit[8] > 4
      <4>1. 8 \in 0 .. Width
        BY KeysAssumption
      <4>2. Bit[8] <= Modulus
        BY <4>1, BelowModulus
      <4>3. /\ Bit[1] = 2 * Bit[0] /\ Bit[2] = 2 * Bit[1] /\ Bit[3] = 2 * Bit[2]
            /\ Bit[8] = 8 * Bit[5] /\ Bit[5] \in Nat \ {0}
        <5>1. 0 + 1 = 1 /\ 1 + 1 = 2 /\ 2 + 1 = 3 /\ 3 + 5 = 8
          OBVIOUS
        <5>2. /\ Bit[1] = 2 * Bit[0] /\ Bit[2] = 2 * Bit[1] /\ Bit[3] = 2 * Bit[2]
              /\ Bit[0] = 1 /\ Bit[5] \in Nat \ {0}
          BY <5>1, BitFacts
        <5>3. Bit[8] = Bit[3] * Bit[5]
          BY <5>1, BitSum
        <5>4. Bit[3] = 8
          BY <5>2
        <5> QED BY <5>2, <5>3, <5>4
      <4> QED BY <4>2, <4>3
    <3>2. Word = 0 .. Modulus - 1 /\ Modulus \in Nat /\ Modulus > 4
      <4>1. Bit[8] \in Nat
        BY BitFacts
      <4> QED BY <3>1, <4>1, WordFacts
    <3> QED BY <3>2
  <2>2. name \in Seq(Word) /\ c \in Word /\ c # name[i]
    <3>1. PICK k \in 1 .. 3 : name \in [1 .. k -> 1 .. 4]
      BY DEF Names
    <3>2. k \in Nat /\ name \in [1 .. k -> Word]
      BY <2>1, <3>1
    <3> QED BY <2>1, <3>2
  <2> QED BY <2>2, HashesDiffer
<1>2. ArenasApart
  BY MixCounted DEF ArenasApart
<1>3. KeysTellApart
  BY <1>1, <1>2 DEF KeysTellApart
<1> QED BY <1>3, PTL
=============================================================================
