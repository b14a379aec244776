---------------------------- MODULE ChainSplicer ----------------------------
(***************************************************************************)
(* How plugins join and leave a host's chain of nodes at run time          *)
(* (discovery/chain_splicer.hpp, plugin_chain_synchronizer.hpp, the        *)
(* anchors of universal_anchor_plugins.inl, the entry points of            *)
(* plugin/plugin.hpp), for one node type.                                  *)
(*                                                                         *)
(* Each binary (the host, every plugin image) has its own copy of the      *)
(* static state: a chain head, a cache (the linearised chain) and, in a    *)
(* plugin, the redirect that makes Get() answer with the host's copy.      *)
(* Every entry point runs on the thread that loads plugins, so one call is *)
(* under way at a time; its pointer walks are taken one node per step.     *)
(*                                                                         *)
(* The host's discipline, which the code relies on and does not check:     *)
(*   - Bootstrap of a plugin that is attached already is only repeated     *)
(*     while its segment is in front of the chain (MayBootstrap);          *)
(*   - an image is unmapped only after Shutdown (Unmap).                   *)
(***************************************************************************)
EXTENDS NodeLink, Functions

CONSTANTS
  Node,        \* every node of the node type, in any binary
  Host,        \* the host binary
  Plugins,     \* the plugin binaries
  HostNodes,   \* the nodes the host's code constructs
  LocalChain   \* LocalChain[p]: p's chain after its static initialisers

Binary == {Host} \cup Plugins
NodesOf(p) == Range(LocalChain[p])
NodeOrNull == Node \cup {Null}

ASSUME BinariesAssumption ==
  /\ Host \notin Plugins
  /\ Null \notin Node
  /\ IsFiniteSet(Node)
  /\ IsFiniteSet(Plugins)

ASSUME ChainsAssumption ==
  /\ HostNodes \subseteq Node
  /\ HostNodes \cap Plugins = {}
  /\ LocalChain \in [Plugins -> Seq(Node)]
  /\ \A p \in Plugins : \A i, j \in 1 .. Len(LocalChain[p]) :
       LocalChain[p][i] = LocalChain[p][j] => i = j
  /\ \A p \in Plugins : NodesOf(p) \cap HostNodes = {}
  /\ \A p, q \in Plugins : p # q => NodesOf(p) \cap NodesOf(q) = {}

VARIABLES
  built,      \* the host nodes constructed so far
  mapped,     \* the plugin images that are loaded
  booted,     \* plugins bootstrapped since their last Shutdown (host's view)
  next,       \* m_Next of every node
  head,       \* UniversalAnchor<TNode*>::GetLocalInstance() of each binary
  linked,     \* s_RemoteTarget of each plugin's anchors is the host's
  savedRemote,\* GetSavedRemoteTarget() of each plugin: written, never read
  savedTail,  \* GetSavedLocalTail() of each plugin
  cache,      \* UniversalAnchor<vector<TNode*>>::GetLocalInstance()
  pc,         \* where the call under way is
  self,       \* the binary whose code runs it (Host when there is none)
  cur         \* the pointer its loop advances (Null when there is none)

saved == <<savedRemote, savedTail>>
vars == <<built, mapped, booted, next, head, linked, saved, cache, pc, self, cur>>

Steps == {"idle", "tail", "pred", "refresh", "loadHook", "unloadHook", "close"}
Refreshing == {"refresh", "loadHook", "unloadHook"}

(* A cache never needs more entries than there are nodes; an endless walk  *)
(* is cut one entry later, which bounds the state space.                   *)
CacheBound == Cardinality(Node) + 1

(***************************************************************************)
(* Get(): the binary whose instance an access from binary b reaches.       *)
(***************************************************************************)
Target(b) == IF b # Host /\ linked[b] THEN Host ELSE b

Alive == built \cup UNION {NodesOf(p) : p \in mapped}

Init ==
  /\ built = {}
  /\ mapped = {}
  /\ booted = {}
  /\ next = [n \in Node |-> Null]
  /\ head = [b \in Binary |-> Null]
  /\ linked = [p \in Plugins |-> FALSE]
  /\ savedRemote = [p \in Plugins |-> Null]
  /\ savedTail = [p \in Plugins |-> Null]
  /\ cache = [b \in Binary |-> << >>]
  /\ pc = "idle"
  /\ self = Host
  /\ cur = Null

(***************************************************************************)
(* The NodeLink constructor in the host: the node goes in front.           *)
(***************************************************************************)
Construct(n) ==
  /\ pc = "idle"
  /\ n \in HostNodes \ built
  /\ built' = built \cup {n}
  /\ next' = [next EXCEPT ![n] = head[Host]]
  /\ head' = [head EXCEPT ![Host] = n]
  /\ UNCHANGED <<mapped, booted, linked, saved, cache, pc, self, cur>>

(***************************************************************************)
(* The loader maps a plugin image: fresh statics (every static of an image *)
(* that is not mapped is null or empty here), then the constructors of its *)
(* static nodes, which find the redirect closed and chain up locally.      *)
(***************************************************************************)
Map(p) ==
  /\ pc = "idle"
  /\ p \in Plugins \ mapped
  /\ mapped' = mapped \cup {p}
  /\ next' = [n \in Node |-> IF n \in NodesOf(p)
                             THEN Successor(LocalChain[p], n) ELSE next[n]]
  /\ head' = [head EXCEPT ![p] = FirstOf(LocalChain[p])]
  /\ UNCHANGED <<built, booted, linked, saved, cache, pc, self, cur>>

(* The loader unmaps an image, only after Shutdown: its memory is gone.    *)
Unmap(p) ==
  /\ pc = "idle"
  /\ p \in mapped \ booted
  /\ mapped' = mapped \ {p}
  /\ next' = [n \in Node |-> IF n \in NodesOf(p) THEN Null ELSE next[n]]
  /\ head' = [head EXCEPT ![p] = Null]
  /\ linked' = [linked EXCEPT ![p] = FALSE]
  /\ savedRemote' = [savedRemote EXCEPT ![p] = Null]
  /\ savedTail' = [savedTail EXCEPT ![p] = Null]
  /\ cache' = [cache EXCEPT ![p] = << >>]
  /\ UNCHANGED <<built, booted, pc, self, cur>>

(***************************************************************************)
(* NodeLink::RefreshCache, entered from code of binary b: the cache that   *)
(* b's Get() reaches is cleared and the walk starts at the head it reaches *)
(* (both in the host when the redirect is open).  "heads" are the chain    *)
(* heads the call finds.                                                   *)
(***************************************************************************)
(* Mutant: the old entries stay. *)
StartRefreshKeep(b, at, heads) ==
  /\ cache' = cache
  /\ cur' = heads[Target(b)]
  /\ pc' = at
  /\ self' = b

(* Mutant: the portal is closed before the unload hook runs. *)
StartRefreshClosed(b, at, heads) ==
  LET t == IF at = "unloadHook" THEN b ELSE Target(b)
  IN  /\ cache' = [cache EXCEPT ![t] = << >>]
      /\ cur' = heads[t]
      /\ pc' = at
      /\ self' = b

StartRefresh(b, at, heads) ==
  /\ cache' = [cache EXCEPT ![Target(b)] = << >>]
  /\ cur' = heads[Target(b)]
  /\ pc' = at
  /\ self' = b

PushNode ==
  /\ pc \in Refreshing
  /\ cur # Null
  /\ cache' = IF Len(cache[Target(self)]) < CacheBound
              THEN [cache EXCEPT ![Target(self)] = Append(@, cur)]
              ELSE cache
  /\ cur' = next[cur]
  /\ UNCHANGED <<built, mapped, booted, next, head, linked, saved,
                 pc, self>>

EndRefresh ==
  /\ pc \in Refreshing
  /\ cur = Null
  /\ \/ /\ pc = "unloadHook"
        /\ pc' = "close"
        /\ UNCHANGED self
     \/ /\ pc # "unloadHook"
        /\ pc' = "idle"
        /\ self' = Host
  /\ UNCHANGED <<built, mapped, booted, next, head, linked, saved, cache,
                 cur>>

(* Host or plugin code refreshes, or visits for the first time. *)
Refresh(b) ==
  /\ pc = "idle"
  /\ b \in {Host} \cup mapped
  /\ StartRefresh(b, "refresh", head)
  /\ UNCHANGED <<built, mapped, booted, next, head, linked, saved>>

(***************************************************************************)
(* CRG_Bootstrap up to the tail walk of Splice.  "found": the host         *)
(* descriptor resolves the chain's anchors (the mass transfer opens the    *)
(* redirect only then; Splice then sets it to what the descriptor gives).  *)
(***************************************************************************)
MayBootstrap(p, found) ==
  p \in booted => found /\ head[p] # Null /\ head[Host] = head[p]

(* Mutant: the check against splicing a second time is dropped. *)
CanSpliceTwice(p, found) ==
  /\ Terminates(next, head[p])
  /\ head[p] # Null
  /\ found

CanSplice(p, found) ==
  /\ Terminates(next, head[p])
  /\ head[p] # Null
  /\ found
  /\ head[p] # head[Host]

Bootstrap(p, found) ==
  /\ pc = "idle"
  /\ p \in mapped
  /\ MayBootstrap(p, found)
  /\ booted' = booted \cup {p}
  /\ linked' = [linked EXCEPT ![p] =
                  found \/ (@ /\ ~Terminates(next, head[p]))]
  /\ IF CanSplice(p, found)
     THEN /\ pc' = "tail"
          /\ self' = p
          /\ cur' = head[p]
     ELSE UNCHANGED <<pc, self, cur>>
  /\ UNCHANGED <<built, mapped, next, head, saved, cache>>

(* Mutant: the loop tests its cursor, not the pointer it follows. *)
WalkPastTail ==
  /\ pc = "tail"
  /\ cur # Null
  /\ cur' = next[cur]
  /\ UNCHANGED <<built, mapped, booted, next, head, linked, saved, cache,
                 pc, self>>

WalkToTail ==
  /\ pc = "tail"
  /\ next[cur] # Null
  /\ cur' = next[cur]
  /\ UNCHANGED <<built, mapped, booted, next, head, linked, saved, cache,
                 pc, self>>

(* The end of Splice; it returned true, so the load hook refreshes. *)
LinkSegment ==
  /\ pc = "tail"
  /\ next[cur] = Null
  /\ next' = [next EXCEPT ![cur] = head[Host]]
  /\ head' = [head EXCEPT ![Host] = head[self]]
  /\ savedRemote' = [savedRemote EXCEPT ![self] = head[Host]]
  /\ savedTail' = [savedTail EXCEPT ![self] = cur]
  /\ StartRefresh(self, "loadHook", head')
  /\ UNCHANGED <<built, mapped, booted, linked>>

(***************************************************************************)
(* CRG_Shutdown: Unsplice, the unload hook when it returned true, and      *)
(* ClosePortal in every case.                                              *)
(***************************************************************************)
(* Mutant: what followed the segment when it was spliced, not what does now. *)
AfterUsAtSplice(p) == savedRemote[p]

AfterUs(p) == IF savedTail[p] = Null THEN Null ELSE next[savedTail[p]]

(* Mutant: the plugin's tail keeps pointing into the host's chain. *)
KeepTail(p, ptrs) == ptrs

CutTail(p, ptrs) ==
  IF savedTail[p] = Null THEN ptrs ELSE [ptrs EXCEPT ![savedTail[p]] = Null]

Shutdown(p) ==
  /\ pc = "idle"
  /\ p \in mapped
  /\ booted' = booted \ {p}
  /\ UNCHANGED <<built, mapped, linked, saved>>
  /\ \/ /\ head[p] = Null \/ ~linked[p]
        /\ pc' = "close"
        /\ self' = p
        /\ UNCHANGED <<next, head, cache, cur>>
     \/ /\ head[p] # Null /\ linked[p]
        /\ head[Host] = head[p]
        /\ head' = [head EXCEPT ![Host] = AfterUs(p)]
        /\ next' = CutTail(p, next)
        /\ StartRefresh(p, "unloadHook", head')
     \/ /\ head[p] # Null /\ linked[p]
        /\ head[Host] = Null
        /\ next' = CutTail(p, next)
        /\ StartRefresh(p, "unloadHook", head)
        /\ UNCHANGED head
     \/ /\ head[p] # Null /\ linked[p]
        /\ head[Host] \notin {Null, head[p]}
        /\ pc' = "pred"
        /\ self' = p
        /\ cur' = head[Host]
        /\ UNCHANGED <<next, head, cache>>

AtPredecessor == cur = Null \/ next[cur] = head[self]

WalkToPredecessor ==
  /\ pc = "pred"
  /\ ~AtPredecessor
  /\ cur' = next[cur]
  /\ UNCHANGED <<built, mapped, booted, next, head, linked, saved, cache,
                 pc, self>>

(* Mutant: the chain ends where the segment was. *)
CutRest ==
  /\ pc = "pred"
  /\ AtPredecessor
  /\ next' = CutTail(self, IF cur = Null THEN next
                           ELSE [next EXCEPT ![cur] = Null])
  /\ StartRefresh(self, "unloadHook", head)
  /\ UNCHANGED <<built, mapped, booted, head, linked, saved>>

CutSegment ==
  /\ pc = "pred"
  /\ AtPredecessor
  /\ next' = CutTail(self, IF cur = Null THEN next
                           ELSE [next EXCEPT ![cur] = AfterUs(self)])
  /\ StartRefresh(self, "unloadHook", head)
  /\ UNCHANGED <<built, mapped, booted, head, linked, saved>>

ClosePortal ==
  /\ pc = "close"
  /\ linked' = [linked EXCEPT ![self] = FALSE]
  /\ head' = [head EXCEPT ![self] = Null]
  /\ savedRemote' = [savedRemote EXCEPT ![self] = Null]
  /\ savedTail' = [savedTail EXCEPT ![self] = Null]
  /\ pc' = "idle"
  /\ self' = Host
  /\ UNCHANGED <<built, mapped, booted, next, cache, cur>>

(* One step of the call under way. *)
Step ==
  \/ PushNode
  \/ EndRefresh
  \/ WalkToTail
  \/ LinkSegment
  \/ WalkToPredecessor
  \/ CutSegment
  \/ ClosePortal

Next ==
  \/ \E n \in HostNodes : Construct(n)
  \/ \E p \in Plugins :
       \/ Map(p)
       \/ Unmap(p)
       \/ Shutdown(p)
       \/ \E found \in BOOLEAN : Bootstrap(p, found)
  \/ \E b \in Binary : Refresh(b)
  \/ Step

Spec == Init /\ [][Next]_vars /\ WF_vars(Step)

-----------------------------------------------------------------------------
(***************************************************************************)
(* Properties.                                                             *)
(***************************************************************************)

TypeOK ==
  /\ built \subseteq HostNodes
  /\ mapped \subseteq Plugins
  /\ booted \subseteq mapped
  /\ next \in [Node -> NodeOrNull]
  /\ head \in [Binary -> NodeOrNull]
  /\ linked \in [Plugins -> BOOLEAN]
  /\ savedRemote \in [Plugins -> NodeOrNull]
  /\ savedTail \in [Plugins -> NodeOrNull]
  /\ cache \in [Binary -> Seq(Node)]
  /\ pc \in Steps
  /\ self \in Binary
  /\ cur \in NodeOrNull
  /\ pc = "tail" => cur # Null

(***************************************************************************)
(* The host's chain is a stack of blocks: a host node is a block of its    *)
(* own, an attached plugin's block is its local chain.                     *)
(***************************************************************************)
Block == HostNodes \cup Plugins
FirstIn(b) == IF b \in Plugins THEN LocalChain[b][1] ELSE b
LastIn(b) == IF b \in Plugins THEN LocalChain[b][Len(LocalChain[b])] ELSE b

(* p's segment is in the host's chain: linked in, and not yet taken out.   *)
Attached(p) ==
  /\ p \in mapped
  /\ savedTail[p] # Null
  /\ ~(self = p /\ pc \in {"unloadHook", "close"})

Blocks == built \cup {p \in Plugins : Attached(p)}

(* "order" lists the blocks of the shared chain from its head.             *)
Lists(order) ==
  /\ \A i, j \in 1 .. Len(order) : order[i] = order[j] => i = j
  /\ Range(order) = Blocks
  /\ head[Host] = IF order = << >> THEN Null ELSE FirstIn(order[1])
  /\ \A i \in 1 .. Len(order) :
       next[LastIn(order[i])] =
         IF i = Len(order) THEN Null ELSE FirstIn(order[i + 1])

Orders == [1 .. Cardinality(Blocks) -> Blocks]

Interior(p) ==
  \A i \in 1 .. Len(LocalChain[p]) - 1 :
    next[LocalChain[p][i]] = LocalChain[p][i + 1]

(***************************************************************************)
(* In every state, in the middle of a splice or an unsplice too, the       *)
(* host's chain is made of whole segments: each attached plugin's local    *)
(* chain, unbroken, and the host's nodes, each exactly once, and nothing   *)
(* else.  So no call order leaves a lost segment, a cycle or a node of a   *)
(* plugin that is gone (ChainSplicer::Splice, Unsplice, any unload order). *)
(***************************************************************************)
ChainIsSegments ==
  /\ \E order \in Orders : Lists(order)
  /\ \A p \in mapped : Interior(p)

(***************************************************************************)
(* No walk of the host, over the pointers or over the cache, meets a node  *)
(* of an image that is not mapped (dlclose after CRG_Shutdown).            *)
(***************************************************************************)
NoDangling ==
  /\ Range(ChainFrom(next, head[Host])) \subseteq Alive
  /\ Range(cache[Host]) \subseteq Alive

(***************************************************************************)
(* Between calls the host's cache lists the chain, but for host nodes      *)
(* constructed since it was filled: every load and unload leaves its       *)
(* refresh in the host's storage (the redirect stays open across the       *)
(* hook; plugin_chain_synchronizer.hpp:30-39).                             *)
(***************************************************************************)
CacheCurrent ==
  pc = "idle" =>
    LET chain == ChainFrom(next, head[Host])
    IN  \E k \in 0 .. Len(chain) :
          /\ cache[Host] = SubSeq(chain, k + 1, Len(chain))
          /\ \A i \in 1 .. k : chain[i] \in HostNodes

(***************************************************************************)
(* Unsplice gives the plugin its own chain back, whole and ended, whatever *)
(* was loaded or unloaded around it meanwhile ("rebuild the original two   *)
(* chains", chain_splicer.md).                                             *)
(***************************************************************************)
OwnChainRestored ==
  \A p \in mapped :
    head[p] # Null /\ ~Attached(p) /\ ~(pc = "tail" /\ self = p)
      => ChainFrom(next, head[p]) = LocalChain[p]

(***************************************************************************)
(* Every call returns: the walks over the shared chain end.                *)
(***************************************************************************)
CallsReturn == pc # "idle" ~> pc = "idle"

(***************************************************************************)
(* The inductive invariant behind ChainIsSegments: what the call under way *)
(* knows at each of its steps (CallKnows), what a plugin's statics say     *)
(* about its place in the chain (PluginKnows), and how far the walk to the *)
(* predecessor may have come: it has not passed the segment it looks for.  *)
(***************************************************************************)
NodesIn(b) == IF b \in Plugins THEN NodesOf(b) ELSE {b}

CallKnows ==
  /\ pc = "idle" => self = Host
  /\ pc = "refresh" => self \in {Host} \cup mapped
  /\ pc \in Steps \ {"idle", "refresh"} => self \in mapped
  /\ pc \in {"pred", "unloadHook", "close"} => self \notin booted
  /\ pc \in {"tail", "pred"} =>
       /\ linked[self]
       /\ LocalChain[self] # << >>
       /\ head[self] = LocalChain[self][1]
  /\ pc = "tail" => /\ self \in booted
                    /\ savedTail[self] = Null
                    /\ cur \in NodesOf(self)
  /\ pc = "pred" => head[Host] # Null

PluginKnows ==
  /\ \A p \in Plugins \ mapped : head[p] = Null /\ savedTail[p] = Null
  /\ \A p \in mapped : head[p] \in {Null, FirstOf(LocalChain[p])}
  /\ \A p \in mapped : savedTail[p] # Null =>
       /\ LocalChain[p] # << >>
       /\ savedTail[p] = LastIn(p)
       /\ linked[p]
       /\ head[p] = LocalChain[p][1]
       /\ \/ p \in booted
          \/ self = p /\ pc \in {"pred", "unloadHook", "close"}
  /\ \A p \in mapped :
       LocalChain[p] # << >> /\ ~Attached(p) => next[LastIn(p)] = Null
  /\ \A p \in mapped : Interior(p)

NotPassed(order) ==
  pc = "pred" =>
    \/ cur = Null /\ savedTail[self] = Null
    \/ \E i \in 1 .. Len(order) :
         /\ cur \in NodesIn(order[i])
         /\ \A k \in 1 .. Len(order) : order[k] = self => i < k

IInv ==
  /\ TypeOK
  /\ CallKnows
  /\ PluginKnows
  /\ \E order \in Orders : Lists(order) /\ NotPassed(order)

(***************************************************************************)
(* The inductive invariant behind the walks: what a walk over the host's   *)
(* chain visits, and how far the refresh of the host's cache is behind it. *)
(***************************************************************************)
HostChain == ChainFrom(next, head[Host])

(* Only nodes the host constructed since are missing in the cache.         *)
CacheLags ==
  \E k \in 0 .. Len(HostChain) :
    /\ cache[Host] = SubSeq(HostChain, k + 1, Len(HostChain))
    /\ \A i \in 1 .. k : HostChain[i] \in HostNodes

(* The refresh under way has pushed the first nodes of the chain.          *)
CacheGrows ==
  \E k \in 0 .. Len(HostChain) :
    /\ cache[Host] = SubSeq(HostChain, 1, k)
    /\ cur = IF k = Len(HostChain) THEN Null ELSE HostChain[k + 1]

WalkInv ==
  /\ IsPath(HostChain, Node, next, head[Host])
  /\ Range(HostChain) = UNION {NodesIn(b) : b \in Blocks}
  /\ IF pc \in Refreshing /\ Target(self) = Host THEN CacheGrows ELSE CacheLags

(***************************************************************************)
(* What the splicer promises the host, see PluginRegistry.                 *)
(***************************************************************************)
Registry == INSTANCE PluginRegistry WITH chain <- HostChain
ImplementsRegistry == Registry!Spec
=============================================================================
