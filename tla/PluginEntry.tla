---------------------------- MODULE PluginEntry ----------------------------
(***************************************************************************)
(* A plugin's entry points over all of its domains (plugin/plugin.hpp):    *)
(* CRG_Bootstrap redirects the anchors on the plugin's AnchorLink chain    *)
(* one by one, by key, and then hands each domain's synchronizer the       *)
(* host's descriptor; CRG_Shutdown undoes domain after domain.             *)
(*                                                                         *)
(* A domain may fail on its own: its local chain may be refused, be empty, *)
(* or find no counterpart, while the anchors are redirected already and    *)
(* the other domains go on.  The chain of an image is anything that can be *)
(* in its memory ("untrusted plugin data", secure_plugin_coupler.md:7).    *)
(*                                                                         *)
(* One plugin is loaded at a time; how several share a chain is in         *)
(* ChainSplicer, pointer by pointer, what a hook does to the directory and *)
(* the tensor in DenseIndexStore and CapabilityRouting.  Here a splice, an *)
(* unsplice and a hook are a step each, and the hook's trace is the host's *)
(* cached walk.                                                            *)
(***************************************************************************)
EXTENDS TypeKeys, NodeLink

CONSTANTS
  Domains,        \* the plugin's domains, in the order of its synchronizers
  Contract,
  Text,           \* Text[x]: the name of a domain or contract
  HostAnchors,    \* the AnchorLink chain of the host, as types
  PluginAnchors,  \* that of the plugin
  NodesFor,       \* NodesFor[d]: the plugin's populators of domain d
  HostNode,       \* HostNode[d]: the host's, constructed first
  LateNode,       \* one the host constructs later, and the domain it is for
  Images          \* what a mapped image may hold: [next, head] of its chains

Domain == Range(Domains)
PluginNodes == UNION {NodesFor[d] : d \in Domain}
Node == PluginNodes \cup {HostNode[d] : d \in Domain} \cup {LateNode.node}
NodeOrNull == Node \cup {Null}

(* The types with a universal anchor.                                      *)
HeadOf(d) == [kind |-> "head", of |-> d, contract |-> Null]
CacheOf(d) == [kind |-> "cache", of |-> d, contract |-> Null]
DirectoryOf(d) == [kind |-> "directory", of |-> d, contract |-> Null]
ArenaOf(d, c) == [kind |-> "arena", of |-> d, contract |-> c]

TypesOf(d) == {HeadOf(d), CacheOf(d), DirectoryOf(d)} \cup
              {ArenaOf(d, c) : c \in Contract}
Type == UNION {TypesOf(d) : d \in Domain}

(* GetTypeHash, in a binary that spells domains with a "::" in front, or   *)
(* without, as the host does.                                              *)
Spelled(d, rooted) == (IF rooted THEN GlobalNamespace ELSE << >>) \o Text[d]

KeyOf(t, domain) ==
  CASE t.kind = "head" -> HeadHash(domain)
    [] t.kind = "cache" -> CacheHash(domain)
    [] t.kind = "directory" -> DirectoryHash(domain)
    [] t.kind = "arena" -> ArenaHash(domain, Text[t.contract])

Key == [rooted \in BOOLEAN |-> [t \in Type |-> KeyOf(t, Spelled(t.of, rooted))]]

(* HostDescriptor::FindAnchorAddressByHash: the first anchor with the key. *)
FindAnchorAddressByHash(key) ==
  LET i == SelectInSeq(HostAnchors, LAMBDA t : Key[FALSE][t] = key)
  IN  IF i = 0 THEN Null ELSE HostAnchors[i]

Found ==
  [rooted \in BOOLEAN |-> [t \in Type |-> FindAnchorAddressByHash(Key[rooted][t])]]

(* A domain has one synchronizer.  The host spells no domain with "::".    *)
ASSUME EntryAssumption ==
  /\ Domains \in Seq(Domain) /\ IsInjective(Domains)
  /\ HostAnchors \in Seq(Type) /\ PluginAnchors \in Seq(Type)
  /\ \A d \in Domain : {HeadOf(d), CacheOf(d)} \subseteq
                         Range(HostAnchors) \cap Range(PluginAnchors)
  /\ \A d \in Domain : Text[d] \in Seq(Nat) /\ ~IsPrefix(GlobalNamespace, Text[d])
  /\ Null \notin Type

(* A populator is of one domain, and so are the pointers to it, whatever   *)
(* they hold.                                                              *)
ASSUME NodesAssumption ==
  /\ Null \notin Node
  /\ \A d \in Domain : IsFiniteSet(NodesFor[d])
  /\ \A d, e \in Domain : d # e => /\ NodesFor[d] \cap NodesFor[e] = {}
                                   /\ HostNode[d] # HostNode[e]
  /\ HostNode \in [Domain -> Node \ PluginNodes]
  /\ LateNode.of \in Domain
  /\ LateNode.node \notin PluginNodes \cup Range(HostNode)
  /\ \A i \in Images :
       /\ i.next \in [PluginNodes -> PluginNodes \cup {Null}]
       /\ \A d \in Domain :
            /\ i.head[d] \in NodesFor[d] \cup {Null}
            /\ \A x \in NodesFor[d] : i.next[x] \in NodesFor[d] \cup {Null}
       /\ i.head \in [Domain -> PluginNodes \cup {Null}]

(* Texts do not clash by accident: what the host and the plugin hash from  *)
(* different texts has different keys.                                     *)
ASSUME NoCoincidence ==
  /\ \A s, t \in Type : s # t => /\ Key[FALSE][s] # Key[FALSE][t]
                                 /\ Key[TRUE][s] # Key[FALSE][t]
  /\ \A t \in Type : t.kind \in {"head", "cache"} => Key[TRUE][t] # Key[FALSE][t]

VARIABLES
  mapped,     \* the image is loaded
  global,     \* it spells domains with a leading "::"
  booted,     \* CRG_Bootstrap was called, CRG_Shutdown not since
  ended,      \* CRG_Shutdown was called since the image was mapped
  next,       \* m_Next of every node
  hostHead,   \* the host's head of each domain's chain
  walk,       \* and its cached walk
  localHead,  \* the plugin's local instance of the head
  tail,       \* GetSavedLocalTail()
  redirect,   \* s_RemoteTarget of each type in the plugin: a host's instance
  pc, at,     \* the entry point's place, and the list element it is at
  slow, fast, n, count, verdict, result  \* Inspect's locals

image == <<mapped, global>>
host == <<hostHead, walk>>
local == <<localHead, tail>>
scan == <<slow, fast, n, count, verdict, result>>
vars == <<image, booted, ended, next, host, local, redirect, pc, at, scan>>

NoScan ==
  /\ slow = Null /\ fast = Null /\ n = Null
  /\ count = 0 /\ verdict = "race"
  /\ result = [hasCycle |-> FALSE, nodeCount |-> 0]

Init ==
  /\ mapped = FALSE /\ global = FALSE /\ booted = FALSE /\ ended = FALSE
  /\ next = [x \in Node |-> Null]
  /\ hostHead = HostNode
  /\ walk = [d \in Domain |-> << >>]
  /\ localHead = [d \in Domain |-> Null]
  /\ tail = [d \in Domain |-> Null]
  /\ redirect = [t \in Type |-> Null]
  /\ pc = "idle" /\ at = 1
  /\ NoScan

Idle == pc = "idle" /\ UNCHANGED scan

(* The loader maps the image: its statics are as its initialisers left     *)
(* them.                                                                   *)
Map ==
  /\ Idle /\ ~mapped
  /\ mapped' = TRUE
  /\ global' \in BOOLEAN
  /\ \E i \in Images :
       /\ next' = [x \in Node |-> IF x \in PluginNodes THEN i.next[x] ELSE next[x]]
       /\ localHead' = i.head
  /\ UNCHANGED <<booted, ended, host, tail, redirect, pc, at>>

(* dlclose, after CRG_Shutdown.                                            *)
Unmap ==
  /\ Idle /\ mapped /\ ~booted
  /\ mapped' = FALSE /\ global' = FALSE /\ ended' = FALSE
  /\ next' = [x \in Node |-> IF x \in PluginNodes THEN Null ELSE next[x]]
  /\ localHead' = [d \in Domain |-> Null]
  /\ tail' = [d \in Domain |-> Null]
  /\ redirect' = [t \in Type |-> Null]
  /\ UNCHANGED <<booted, host, pc, at>>

(* A populator of the host constructed late.                               *)
Construct ==
  LET d == LateNode.of IN
  /\ Idle
  /\ LateNode.node \notin Range(ChainFrom(next, hostHead[d]))
  /\ next' = [next EXCEPT ![LateNode.node] = hostHead[d]]
  /\ hostHead' = [hostHead EXCEPT ![d] = LateNode.node]
  /\ UNCHANGED <<image, booted, ended, walk, local, redirect, pc, at>>

-----------------------------------------------------------------------------
(* CRG_Bootstrap.  The host does not call it again while a domain's        *)
(* segment is below other nodes, as in ChainSplicer.                       *)
MayBootstrap == \A d \in Domain : tail[d] # Null => hostHead[d] = localHead[d]

Bootstrap ==
  /\ Idle /\ mapped /\ MayBootstrap
  /\ booted' = TRUE
  /\ pc' = "transfer" /\ at' = 1
  /\ UNCHANGED <<image, ended, next, host, local, redirect>>

Counterpart(t) == Found[global][t]

(* Mutant: the transfer ends at the first anchor the host does not have. *)
TransferUntilMissing ==
  /\ pc = "transfer" /\ at \in DOMAIN PluginAnchors
  /\ LET t == PluginAnchors[at] IN
     IF Counterpart(t) # Null
     THEN redirect' = [redirect EXCEPT ![t] = Counterpart(t)] /\ at' = at + 1
     ELSE at' = Len(PluginAnchors) + 1 /\ UNCHANGED redirect
  /\ UNCHANGED <<image, booted, ended, next, host, local, pc, scan>>

(* One anchor of the mass transfer.                                        *)
Transfer ==
  /\ pc = "transfer" /\ at \in DOMAIN PluginAnchors
  /\ LET t == PluginAnchors[at] IN
     redirect' = IF Counterpart(t) # Null
                 THEN [redirect EXCEPT ![t] = Counterpart(t)] ELSE redirect
  /\ at' = at + 1
  /\ UNCHANGED <<image, booted, ended, next, host, local, pc, scan>>

(* Mutant: the loop over the synchronizers starts where that over the      *)
(* anchors ended.                                                          *)
EndTransferKeepAt ==
  /\ pc = "transfer" /\ at \notin DOMAIN PluginAnchors
  /\ pc' = "load"
  /\ UNCHANGED <<image, booted, ended, next, host, local, redirect, at, scan>>

EndTransfer ==
  /\ pc = "transfer" /\ at \notin DOMAIN PluginAnchors
  /\ pc' = "load" /\ at' = 1
  /\ UNCHANGED <<image, booted, ended, next, host, local, redirect, scan>>

(* OnPluginLoad of the next synchronizer: Splice has the chain inspected.  *)
BeginInspect ==
  /\ pc = "load" /\ at \in DOMAIN Domains
  /\ pc' = "inspect"
  /\ slow' = localHead[Domains[at]] /\ fast' = localHead[Domains[at]]
  /\ UNCHANGED <<image, booted, ended, next, host, local, redirect, at,
                 n, count, verdict, result>>

Coupler == INSTANCE SecurePluginCoupler
  WITH head <- localHead[Domains[at]], pc <- verdict

Inspect ==
  /\ pc = "inspect"
  /\ UNCHANGED <<image, booted, ended, host, local, redirect, pc, at>>
  /\ Coupler!Next

(* The scan is over; its locals are gone.                                  *)
Inspected ==
  /\ pc = "inspect" /\ verdict = "done"
  /\ slow' = Null /\ fast' = Null /\ n' = Null
  /\ count' = 0 /\ verdict' = "race"
  /\ result' = Coupler!None

NextDomain == pc' = "load" /\ at' = at + 1

(* Splice returns false on a cycle, before it sets the targets.            *)
Refuse ==
  /\ Inspected /\ result.hasCycle
  /\ NextDomain
  /\ UNCHANGED <<image, booted, ended, next, host, local, redirect>>

Spliceable(d, shared) ==
  localHead[d] # Null /\ shared # Null /\ localHead[d] # hostHead[shared.of]

OpenPortal(d) ==
  redirect' = [redirect EXCEPT ![HeadOf(d)] = Counterpart(HeadOf(d)),
                               ![CacheOf(d)] = Counterpart(CacheOf(d))]

(* Splice returns false without a chain, without a counterpart in the      *)
(* host, or with the chain in front there already.                         *)
NotSpliced ==
  LET d == Domains[at] IN
  /\ Inspected /\ ~result.hasCycle
  /\ OpenPortal(d)
  /\ ~Spliceable(d, Counterpart(HeadOf(d)))
  /\ NextDomain
  /\ UNCHANGED <<image, booted, ended, next, host, local>>

Splice ==
  LET d == Domains[at]
      shared == Counterpart(HeadOf(d))
      last == Last(ChainFrom(next, localHead[d]))
  IN /\ Inspected /\ ~result.hasCycle
     /\ OpenPortal(d)
     /\ Spliceable(d, shared)
     /\ next' = [next EXCEPT ![last] = hostHead[shared.of]]
     /\ hostHead' = [hostHead EXCEPT ![shared.of] = localHead[d]]
     /\ tail' = [tail EXCEPT ![d] = last]
     /\ pc' = "loadHook"
     /\ UNCHANGED <<image, booted, ended, walk, localHead, at>>

(* DomainArenaPopulator::RefreshCache in a hook, which the plugin runs: it *)
(* walks from the head and fills the cache that its anchors lead to.       *)
RefreshCache(d) ==
  LET head == redirect[HeadOf(d)]
      cache == redirect[CacheOf(d)]
  IN walk' = IF cache = Null THEN walk
             ELSE [walk EXCEPT ![cache.of] =
                     ChainFrom(next, IF head = Null THEN localHead[d]
                                     ELSE hostHead[head.of])]

LoadHook ==
  /\ pc = "loadHook"
  /\ RefreshCache(Domains[at])
  /\ NextDomain
  /\ UNCHANGED <<image, booted, ended, next, hostHead, local, redirect, scan>>

-----------------------------------------------------------------------------
(* CRG_Shutdown, bootstrapped or not.                                      *)
Shutdown ==
  /\ Idle /\ mapped
  /\ booted' = FALSE /\ ended' = TRUE
  /\ pc' = "unload" /\ at' = 1
  /\ UNCHANGED <<image, next, host, local, redirect>>

(* Unsplice returns false.                                                 *)
NotUnspliced ==
  LET d == Domains[at] IN
  /\ pc = "unload" /\ at \in DOMAIN Domains
  /\ localHead[d] = Null \/ redirect[HeadOf(d)] = Null
  /\ pc' = "close"
  /\ UNCHANGED <<image, booted, ended, next, host, local, redirect, at, scan>>

(* It returns true also for a chain that was refused: its head has been    *)
(* redirected by the transfer.                                             *)
Unsplice ==
  LET d == Domains[at]
      shared == redirect[HeadOf(d)]
      afterUs == IF tail[d] = Null THEN Null ELSE next[tail[d]]
      before == {x \in Range(ChainFrom(next, hostHead[shared.of])) :
                   next[x] = localHead[d]}
  IN /\ pc = "unload" /\ at \in DOMAIN Domains
     /\ localHead[d] # Null /\ shared # Null
     /\ IF hostHead[shared.of] = localHead[d]
        THEN /\ hostHead' = [hostHead EXCEPT ![shared.of] = afterUs]
             /\ next' = [x \in Node |-> IF x = tail[d] THEN Null ELSE next[x]]
        ELSE /\ next' = [x \in Node |-> IF x = tail[d] THEN Null
                                        ELSE IF x \in before THEN afterUs
                                        ELSE next[x]]
             /\ UNCHANGED hostHead
     /\ pc' = "unloadHook"
     /\ UNCHANGED <<image, booted, ended, walk, local, redirect, at, scan>>

(* Mutant: the unload hook refreshes nothing. *)
UnloadHookIdle ==
  /\ pc = "unloadHook"
  /\ pc' = "close"
  /\ UNCHANGED <<image, booted, ended, next, host, local, redirect, at, scan>>

UnloadHook ==
  /\ pc = "unloadHook"
  /\ RefreshCache(Domains[at])
  /\ pc' = "close"
  /\ UNCHANGED <<image, booted, ended, next, hostHead, local, redirect, at, scan>>

(* Mutant: the local instance of the head is kept. *)
ClosePortalKeepHead ==
  LET d == Domains[at] IN
  /\ pc = "close"
  /\ redirect' = [redirect EXCEPT ![HeadOf(d)] = Null, ![CacheOf(d)] = Null]
  /\ tail' = [tail EXCEPT ![d] = Null]
  /\ pc' = "unload" /\ at' = at + 1
  /\ UNCHANGED <<image, booted, ended, next, host, localHead, scan>>

(* The redirects of the directory and of the arenas stay.                  *)
ClosePortal ==
  LET d == Domains[at] IN
  /\ pc = "close"
  /\ redirect' = [redirect EXCEPT ![HeadOf(d)] = Null, ![CacheOf(d)] = Null]
  /\ localHead' = [localHead EXCEPT ![d] = Null]
  /\ tail' = [tail EXCEPT ![d] = Null]
  /\ pc' = "unload" /\ at' = at + 1
  /\ UNCHANGED <<image, booted, ended, next, host, scan>>

Return ==
  /\ pc \in {"load", "unload"} /\ at \notin DOMAIN Domains
  /\ pc' = "idle" /\ at' = 1
  /\ UNCHANGED <<image, booted, ended, next, host, local, redirect, scan>>

Step ==
  \/ Transfer \/ EndTransfer
  \/ BeginInspect \/ Inspect \/ Refuse \/ NotSpliced \/ Splice \/ LoadHook
  \/ NotUnspliced \/ Unsplice \/ UnloadHook \/ ClosePortal
  \/ Return

Next == Map \/ Unmap \/ Construct \/ Bootstrap \/ Shutdown \/ Step

Spec == Init /\ [][Next]_vars /\ WF_vars(Step)

-----------------------------------------------------------------------------
(* With the types: Inspect counts no node twice.                           *)
TypeOK ==
  /\ {mapped, global, booted, ended} \subseteq BOOLEAN
  /\ next \in [Node -> NodeOrNull]
  /\ {hostHead, localHead, tail} \subseteq [Domain -> NodeOrNull]
  /\ walk \in [Domain -> Seq(Node)]
  /\ redirect \in [Type -> Range(HostAnchors) \cup {Null}]
  /\ at \in 1 .. Len(IF pc = "transfer" THEN PluginAnchors ELSE Domains) + 1
  /\ {slow, fast, n} \subseteq NodeOrNull
  /\ count \in 0 .. Cardinality(Node)
  /\ pc # "inspect" => NoScan

(***************************************************************************)
(* A chain is refused exactly if a walk of it would not end, and counted   *)
(* right otherwise, whatever is in the image (SecurePluginCoupler).        *)
(***************************************************************************)
VerdictRight == pc = "inspect" => Coupler!VerdictRight

(* d's segment is in the host's chain.                                     *)
Linked(d) ==
  tail[d] # Null /\ ~(pc \in {"unloadHook", "close"} /\ Domains[at] = d)

(***************************************************************************)
(* Whatever chains an image holds, and whichever of its domains fail, the  *)
(* host's chains end, in the middle of an entry point too, and hold no     *)
(* node of the plugin but the whole local chain of a domain that is        *)
(* linked; nor do its cached walks once the entry point has returned.      *)
(***************************************************************************)
HostChainsSound ==
  \A d \in Domain :
    LET chain == ChainFrom(next, hostHead[d])
        own == IF Linked(d) THEN Range(ChainFrom(next, localHead[d])) ELSE {}
    IN /\ Terminates(next, hostHead[d])
       /\ Range(chain) \cap PluginNodes = own \cap PluginNodes
       /\ pc = "idle" => Range(walk[d]) \cap PluginNodes = own \cap PluginNodes

(***************************************************************************)
(* An anchor is never redirected to an instance of another type.  While a  *)
(* domain's segment is linked, every anchor of the domain that both        *)
(* binaries have is redirected: populators that the host visits write the  *)
(* host's arenas by the host's slots.  The directory and the arenas are    *)
(* shared, however the domain is spelled, even if its chain is not.        *)
(***************************************************************************)
Both == Range(HostAnchors) \cap Range(PluginAnchors)

AnchorsPaired ==
  /\ \A t \in Type : redirect[t] \in {Null, t}
  /\ \A d \in Domain : Linked(d) =>
       \A t \in TypesOf(d) \cap Both : redirect[t] = t
  /\ pc = "idle" /\ booted =>
       \A t \in Both : t.kind \in {"directory", "arena"} => redirect[t] = t

(***************************************************************************)
(* A Bootstrap links the domains that have a chain that ends and that the  *)
(* plugin spells as the host does, each whatever becomes of the others.    *)
(* After a Shutdown nothing is left to link until the image is mapped      *)
(* again: Bootstrap and Shutdown are no inverses of each other.            *)
(***************************************************************************)
BootstrapLinks ==
  pc = "idle" /\ booted =>
    \A d \in Domain :
      Linked(d) <=> /\ localHead[d] # Null /\ Terminates(next, localHead[d])
                    /\ ~global /\ ~ended

(* Both entry points return, on every chain.                               *)
CallsReturn == pc # "idle" ~> pc = "idle"

Names == UNION {[1 .. k -> 1 .. 4] : k \in 1 .. 3}
HashesApart ==
  \A name \in Names : \A i \in DOMAIN name : \A c \in (1 .. 4) \ {name[i]} :
    HashString([name EXCEPT ![i] = c]) # HashString(name)
ArenasApart == \A hash \in Word : Cardinality({Mix(hash, c) : c \in Word}) = Modulus

(***************************************************************************)
(* The keys that the transfer compares tell types apart: names of one      *)
(* length that differ in a single character never have the same hash, nor  *)
(* have two contracts ever the same arena in one domain ("two distinct     *)
(* types never collide on a shared leaf name", models/model_key.hpp:21-22, *)
(* as far as it can hold).                                                 *)
(***************************************************************************)
KeysTellApart == pc = "transfer" => HashesApart /\ ArenasApart
=============================================================================
