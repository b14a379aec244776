------------------------- MODULE CapabilityRouting -------------------------
(***************************************************************************)
(* The routing tensor of one domain: populators on the shared chain write  *)
(* the cells of every contract's arena, the router reads one cell per      *)
(* look-up.  (capability_binding.hpp, capability_router.hpp,               *)
(* tensor_arena.hpp, and the hook of domain_macros.hpp that drives them.)  *)
(*                                                                         *)
(* A refresh first lets every populator clear the arenas it binds, then    *)
(* lets every populator fill them again, one virtual call per step.  The   *)
(* call runs in the populator's own binary: which arena and which model    *)
(* directory it reaches depends on that binary's anchors, not on who       *)
(* refreshes.                                                              *)
(*                                                                         *)
(* What ChainSplicer and DenseIndexStore promise is used here in one step  *)
(* each: a plugin's populators join and leave the chain as a whole, and a  *)
(* directory only grows, a slot per model.                                 *)
(***************************************************************************)
EXTENDS Naturals, SequencesExt, DispatchCell

CONSTANTS
  Host,         \* the host binary
  Plugins,      \* the plugin binaries
  Model,        \* the model types of the domain
  Contract,     \* the contracts of the domain
  Volume,       \* Volume[c]: the cells per model in c's space
  Populator,    \* the capability bindings of all binaries
  Home,         \* Home[p]: the binary p is compiled into
  Bound,        \* Bound[p]: the model p binds capabilities to
  Caps,         \* Caps[p]: what it binds, [contract, kinds] with a kind per cell
  LocalChain,   \* LocalChain[b]: the populators b's static initialisers chain
  Late,         \* populators of the host that are constructed afterwards
  Rank,         \* Rank[p]: what SortCache orders populators by, if anything
  Sorting,      \* the binaries that the SortCache specialisation is compiled into
  Declared,     \* Declared[b]: the models b declares, in the order of its nodes
  Partitioned,  \* the binaries with a CRG_IMPLEMENT_PARTITION
  Anchored      \* <<b, c>>: b defines an anchor for the arena storage of c

Binary == {Host} \cup Plugins

(* A capability in a cell: the l-th that p binds, for the row's i-th cell. *)
Target == [by : Populator, cap : Nat, cell : Nat]
TargetOf(p, l, i) == [by |-> p, cap |-> l, cell |-> i]

ASSUME RoutingAssumption ==
  /\ Host \notin Plugins /\ IsFiniteSet(Populator)
  /\ Volume \in [Contract -> Nat \ {0}]
  /\ Home \in [Populator -> Binary] /\ Bound \in [Populator -> Model]
  /\ Caps \in [Populator -> Seq([contract : Contract, kinds : Seq(Kind)])]
  /\ \A p \in Populator : \A l \in DOMAIN Caps[p] :
       Len(Caps[p][l].kinds) = Volume[Caps[p][l].contract]
  /\ LocalChain \in [Binary -> Seq(Populator)]
  /\ \A b \in Binary : \A k \in DOMAIN LocalChain[b] : Home[LocalChain[b][k]] = b
  /\ Rank \in [Populator -> 1 .. Cardinality(Populator)] /\ Sorting \subseteq Binary
  /\ Late \subseteq Populator
  /\ \A p \in Populator : p \in Late \cup Range(LocalChain[Home[p]])
  /\ \A p \in Late : Home[p] = Host /\ p \notin Range(LocalChain[Host])
  /\ Declared \in [Binary -> Seq(Model)]
  /\ \A p \in Populator : Bound[p] \in Range(Declared[Home[p]])
  /\ Partitioned \subseteq Binary
  /\ Anchored \subseteq Binary \X Contract
  /\ Null \notin Binary \cup Target

(***************************************************************************)
(* The contracts whose cells are numbered by one directory.  A partition   *)
(* (plugin.md:15) and an arena's anchor (universal_anchor.md) are macros   *)
(* of their own: a plugin that shares the host's arena of c without        *)
(* sharing its directory writes the arena by the slots of its own.         *)
(* Nothing in the code rules that out, and what the router answers for     *)
(* such a contract is not claimed here.                                    *)
(***************************************************************************)
OneDirectory ==
  {c \in Contract : \A b \in Plugins :
     {<<b, c>>, <<Host, c>>} \subseteq Anchored => {b, Host} \subseteq Partitioned}

VARIABLES
  phase,    \* of each plugin: "unmapped", "mapped", "attached", "detached"
  chain,    \* the host's chain of populators, as links
  cache,    \* the cached walk of it, sorted, that Visit goes through
  index,    \* each binary's own directory: the models in the order of slots
  arena,    \* each binary's own arenas: the cells of each contract
  remote,   \* the plugin's anchors have been redirected to the host's
  built,    \* the binary's ArenaBuilder static is constructed
  caller,   \* the binary whose Router::RefreshCache is under way, or Null
  passes,   \* the visits of the cache that call has still to make
  at        \* the next populator of the visit

call == <<caller, passes, at>>
vars == <<phase, chain, cache, index, arena, remote, built, call>>

-----------------------------------------------------------------------------
(* Where the code of a binary reads and writes.                            *)

IndexOf(b) == IF remote[b] /\ {b, Host} \subseteq Partitioned THEN Host ELSE b

(* Mutant: a redirected binary has the arenas of the host, anchored or not. *)
ArenaOfRedirected(b, c) == IF remote[b] THEN Host ELSE b

ArenaOf(b, c) ==
  IF remote[b] /\ {<<b, c>>, <<Host, c>>} \subseteq Anchored THEN Host ELSE b

(* Mutant: the new directory begins with the caller's models. *)
InternInFront(idx, models) ==
  models \o SelectSeq(idx, LAMBDA m : m \notin Range(models))

(* DenseIndexStore::Refresh.                                               *)
Intern(idx, models) ==
  FoldLeft(LAMBDA s, m : IF m \in Range(s) THEN s ELSE Append(s, m), idx, models)

(* DenseModelID: slots count from 0.                                       *)
Slot(idx, m) == SelectInSeq(idx, LAMBDA x : x = m) - 1

(* Mutant: the arena grows to the model's first cell only. *)
FillCellsShort(cells, slot, p, l) ==
  LET base == slot * Volume[Caps[p][l].contract]
      size == Max({Len(cells), base + 1})
  IN [j \in 1 .. size |->
        LET cell == IF j <= Len(cells) THEN cells[j] ELSE EmptyCell IN
        IF j - base \in DOMAIN Caps[p][l].kinds
        THEN Bind(cell, Caps[p][l].kinds[j - base], TargetOf(p, l, j - base))
        ELSE cell]

(* CapabilityNode::FillArena: the cells of the model's row.                *)
FillCells(cells, slot, p, l) ==
  LET base == slot * Volume[Caps[p][l].contract]
      size == Max({Len(cells), base + Volume[Caps[p][l].contract]})
  IN [j \in 1 .. size |->
        LET cell == IF j <= Len(cells) THEN cells[j] ELSE EmptyCell IN
        IF j - base \in DOMAIN Caps[p][l].kinds
        THEN Bind(cell, Caps[p][l].kinds[j - base], TargetOf(p, l, j - base))
        ELSE cell]

(* CapabilityBinding::Unit::Fill: capability by capability.                *)
Filled(p, slot) ==
  FoldLeftDomain(
    LAMBDA a, l : LET c == Caps[p][l].contract IN
      [a EXCEPT ![ArenaOf(Home[p], c)][c] = FillCells(@, slot, p, l)],
    arena, Caps[p])

(* Those of the populators ps that are in links, in the order of links.    *)
Only(ps, links) ==
  FoldLeft(LAMBDA s, p : IF p \in ps THEN Append(s, p) ELSE s, << >>, links)

(* NodeLinkTraits::SortCache, a stable sort, in the binary that walks.     *)
Walk(b, links) ==
  IF b \notin Sorting THEN links
  ELSE FlattenSeq([r \in 1 .. Cardinality(Populator) |->
                     Only({p \in Populator : Rank[p] = r}, links)])

Binds(p, c) == \E l \in DOMAIN Caps[p] : Caps[p][l].contract = c

-----------------------------------------------------------------------------
NoArenas == [c \in Contract |-> << >>]

Init ==
  /\ phase = [p \in Plugins |-> "unmapped"]
  /\ chain = LocalChain[Host]
  /\ cache = << >>
  /\ index = [b \in Binary |-> << >>]
  /\ arena = [b \in Binary |-> NoArenas]
  /\ remote = [b \in Binary |-> FALSE]
  /\ built = [b \in Binary |-> FALSE]
  /\ caller = Null /\ passes = << >> /\ at = 1

(* A CapabilityBinding of the host constructed after the static ones.      *)
Construct(p) ==
  /\ caller = Null
  /\ p \in Late \ Range(chain)
  /\ chain' = <<p>> \o chain
  /\ UNCHANGED <<phase, cache, index, arena, remote, built, call>>

Map(p) ==
  /\ caller = Null /\ phase[p] = "unmapped"
  /\ phase' = [phase EXCEPT ![p] = "mapped"]
  /\ UNCHANGED <<chain, cache, index, arena, remote, built, call>>

(* dlclose: with the image go its statics, its own directory and arenas.   *)
Unmap(p) ==
  /\ caller = Null /\ phase[p] \in {"mapped", "detached"}
  /\ phase' = [phase EXCEPT ![p] = "unmapped"]
  /\ index' = [index EXCEPT ![p] = << >>]
  /\ arena' = [arena EXCEPT ![p] = NoArenas]
  /\ remote' = [remote EXCEPT ![p] = FALSE]
  /\ built' = [built EXCEPT ![p] = FALSE]
  /\ UNCHANGED <<chain, cache, call>>

(* The first token resolved in b runs the Bootstrap of its directory.      *)
ResolveToken(b) ==
  /\ caller = Null
  /\ b \in Plugins => phase[b] # "unmapped"
  /\ index' = [index EXCEPT ![IndexOf(b)] = Intern(@, Declared[b])]
  /\ UNCHANGED <<phase, chain, cache, arena, remote, built, call>>

(* ArenaBuilder::RefreshCache.                                             *)
ClearAndFill == <<"clear", "populate">>

(* Router::RefreshCache: a first call constructs the ArenaBuilder as well. *)
Begin(b) ==
  /\ caller = Null
  /\ caller' = b
  /\ passes' = IF built[b] THEN ClearAndFill ELSE ClearAndFill \o ClearAndFill
  /\ at' = 1

(* Mutant: the tensor is rebuilt from the walk cached before the splice. *)
BootstrapUncached(p) ==
  /\ phase[p] = "mapped"
  /\ Begin(p)
  /\ phase' = [phase EXCEPT ![p] = "attached"]
  /\ remote' = [remote EXCEPT ![p] = TRUE]
  /\ chain' = LocalChain[p] \o chain
  /\ index' = [index EXCEPT ![IndexOf(p)'] = Intern(@, Declared[p])]
  /\ UNCHANGED <<cache, arena, built>>

(***************************************************************************)
(* The hook of p, in p's code: it refreshes the directory, the cached walk *)
(* and then the router.  Splice and Unsplice report a link made or cut     *)
(* only for a plugin with a chain of its own; without, no hook runs.       *)
(***************************************************************************)
Hook(p) ==
  \/ /\ LocalChain[p] # << >>
     /\ Begin(p)
     /\ cache' = Walk(p, chain')
     /\ index' = [index EXCEPT ![IndexOf(p)'] = Intern(@, Declared[p])]
  \/ /\ LocalChain[p] = << >> /\ caller = Null
     /\ UNCHANGED <<cache, index, call>>

(* CRG_Bootstrap: the mass transfer, the splice and the load hook.         *)
Bootstrap(p) ==
  /\ phase[p] = "mapped"
  /\ phase' = [phase EXCEPT ![p] = "attached"]
  /\ remote' = [remote EXCEPT ![p] = TRUE]
  /\ chain' = LocalChain[p] \o chain
  /\ Hook(p)
  /\ UNCHANGED <<arena, built>>

(* Mutant: the unload hook leaves the tensor as it is. *)
ShutdownUnrefreshed(p) ==
  /\ caller = Null
  /\ phase[p] = "attached"
  /\ phase' = [phase EXCEPT ![p] = "detached"]
  /\ chain' = Only({x \in Populator : Home[x] # p}, chain)
  /\ cache' = Walk(p, chain')
  /\ UNCHANGED <<index, arena, remote, built, call>>

(* CRG_Shutdown: the splice is undone, then the unload hook.               *)
Shutdown(p) ==
  /\ phase[p] = "attached"
  /\ phase' = [phase EXCEPT ![p] = "detached"]
  /\ chain' = Only({x \in Populator : Home[x] # p}, chain)
  /\ UNCHANGED <<arena, remote, built>>
  /\ Hook(p)

(***************************************************************************)
(* Router::RefreshCache called by the host or an attached plugin, with or  *)
(* without DomainArenaPopulator::RefreshCache before it; the host's first  *)
(* visit walks the chain in any case.                                      *)
(***************************************************************************)
Refresh(b, rewalk) ==
  /\ b \in Plugins => phase[b] = "attached"
  /\ Begin(b)
  /\ cache' = IF rewalk \/ (b = Host /\ ~built[Host]) THEN Walk(b, chain) ELSE cache
  /\ UNCHANGED <<phase, chain, index, arena, remote, built>>

(* The host's first Find constructs its ArenaBuilder.                      *)
FirstFind ==
  /\ caller = Null /\ ~built[Host]
  /\ caller' = Host /\ passes' = ClearAndFill /\ at' = 1
  /\ cache' = Walk(Host, chain)
  /\ UNCHANGED <<phase, chain, index, arena, remote, built>>

Visiting(op) ==
  /\ caller # Null /\ passes # << >>
  /\ Head(passes) = op
  /\ at <= Len(cache)

(* CapabilityBinding::Clear, in the populator's binary.                    *)
Clear ==
  /\ Visiting("clear")
  /\ LET p == cache[at] IN
     arena' = [b \in Binary |-> [c \in Contract |->
       IF Binds(p, c) /\ ArenaOf(Home[p], c) = b THEN << >> ELSE arena[b][c]]]
  /\ at' = at + 1
  /\ UNCHANGED <<phase, chain, cache, index, remote, built, caller, passes>>

(* CapabilityBinding::Populate, in the populator's binary.  The model has  *)
(* a slot after the refresh: the binding declares it, by its m_ModelNode.  *)
Populate ==
  /\ Visiting("populate")
  /\ LET p == cache[at] IN
     \E idx \in {Intern(index[IndexOf(Home[p])], Declared[Home[p]])} :
     \E slot \in {Slot(idx, Bound[p])} :
       /\ index' = [index EXCEPT ![IndexOf(Home[p])] = idx]
       /\ arena' = Filled(p, slot)
  /\ at' = at + 1
  /\ UNCHANGED <<phase, chain, cache, remote, built, caller, passes>>

(* Mutant: a visit starts over where it should end. *)
NextPassAgain ==
  /\ caller # Null /\ passes # << >>
  /\ at > Len(cache)
  /\ at' = 1
  /\ UNCHANGED <<phase, chain, cache, index, arena, remote, built, caller, passes>>

NextPass ==
  /\ caller # Null /\ passes # << >>
  /\ at > Len(cache)
  /\ passes' = Tail(passes) /\ at' = 1
  /\ UNCHANGED <<phase, chain, cache, index, arena, remote, built, caller>>

Return ==
  /\ caller # Null /\ passes = << >>
  /\ caller' = Null
  /\ built' = [built EXCEPT ![caller] = TRUE]
  /\ UNCHANGED <<phase, chain, cache, index, arena, remote, passes, at>>

Step == Clear \/ Populate \/ NextPass \/ Return

Next ==
  \/ \E p \in Late : Construct(p)
  \/ \E p \in Plugins : Map(p) \/ Unmap(p) \/ Bootstrap(p) \/ Shutdown(p)
  \/ \E b \in Binary : ResolveToken(b) \/ \E rewalk \in BOOLEAN : Refresh(b, rewalk)
  \/ FirstFind
  \/ Step

(* A call, once begun, is run to its end by the thread that began it.      *)
Spec == Init /\ [][Next]_vars /\ WF_vars(Step)

-----------------------------------------------------------------------------
(* CapabilitySpace::ComputeOffset: coordinates are numbered within a row.  *)
Offset(c, slot, i) == slot * Volume[c] + (i - 1)

(* Router::Find in binary b, for the token b resolves for model m and the  *)
(* i-th coordinates of c's space, under a context for which the trampolines *)
(* of the rules in holds answer true (DispatchCell!Trampolines).           *)
Find(b, c, m, i, holds) ==
  LET idx == index[IndexOf(b)]
      cells == arena[ArenaOf(b, c)][c]
      offset == Offset(c, Slot(idx, m), i)
  IN IF m \notin Range(idx) \/ offset >= Len(cells) THEN Null
     ELSE Resolve(cells[offset + 1], holds)

-----------------------------------------------------------------------------
Cell == [rules : Seq(Target), fallback : Target \cup {Null}]

(* With the types: arenas are whole rows, a directory has no model twice.  *)
TypeOK ==
  /\ phase \in [Plugins -> {"unmapped", "mapped", "attached", "detached"}]
  /\ chain \in Seq(Populator) /\ cache \in Seq(Populator)
  /\ index \in [Binary -> Seq(Model)]
  /\ \A b \in Binary : IsInjective(index[b])
  /\ arena \in [Binary -> [Contract -> Seq(Cell)]]
  /\ \A b \in Binary, c \in Contract : Len(arena[b][c]) % Volume[c] = 0
  /\ remote \in [Binary -> BOOLEAN] /\ built \in [Binary -> BOOLEAN]
  /\ caller \in Binary \cup {Null}
  /\ passes \in Seq({"clear", "populate"})
  /\ at \in 1 .. Len(cache) + 1

Router(b) == built[b] /\ (b \in Plugins => phase[b] = "attached")

(* The populators that write the arena in which b looks up c.              *)
Serves(p, b, c) == Binds(p, c) /\ ArenaOf(Home[p], c) = ArenaOf(b, c)

(* The bindings of m and c, by their places in the cached walk.            *)
Bindings(b, c, m) ==
  {kl \in UNION {{k} \X DOMAIN Caps[cache[k]] : k \in DOMAIN cache} :
     /\ Serves(cache[kl[1]], b, c)
     /\ Bound[cache[kl[1]]] = m
     /\ Caps[cache[kl[1]]][kl[2]].contract = c}

(* The order in which a fill binds them, and that of the ranks.            *)
Lex(x, y) == x[1] < y[1] \/ (x[1] = y[1] /\ x[2] < y[2])

RankAt(x) == Rank[cache[x[1]]]

Before(x, y) ==
  \/ RankAt(x) < RankAt(y)
  \/ RankAt(x) = RankAt(y) /\ (x[1] < y[1] \/ (x[1] = y[1] /\ x[2] < y[2]))

KindAt(kl, i) == Caps[cache[kl[1]]][kl[2]].kinds[i]
AtCell(kl, i) == TargetOf(cache[kl[1]], kl[2], i)

(***************************************************************************)
(* What a look-up should answer where all are the bindings: the first with *)
(* a matching rule, else the last fallback, else nothing; by rank, whatever*)
(* the order in which binaries came, and newest first among equals.        *)
(***************************************************************************)
Routed(all, i, holds, answer) ==
  LET rules == {kl \in all : KindAt(kl, i) = "rule" /\ AtCell(kl, i) \in holds}
      fallbacks == {kl \in all : KindAt(kl, i) = "fallback"}
  IN \/ \E kl \in rules :
          /\ answer = AtCell(kl, i)
          /\ \A other \in rules \ {kl} : Before(kl, other)
     \/ /\ rules = {}
        /\ \E kl \in fallbacks :
             /\ answer = AtCell(kl, i)
             /\ \A other \in fallbacks \ {kl} : Before(other, kl)
     \/ rules = {} /\ fallbacks = {} /\ answer = Null

RuleTargets(c, i) ==
  {t \in UNION {{TargetOf(p, l, i) : l \in DOMAIN Caps[p]} : p \in Populator} :
     /\ Caps[t.by][t.cap].contract = c
     /\ Caps[t.by][t.cap].kinds[i] = "rule"}

RoutesAll(b, c) ==
  \A m \in Model :
    LET all == Bindings(b, c, m) IN
    \A i \in 1 .. Volume[c] : \A holds \in SUBSET RuleTargets(c, i) :
      Routed(all, i, holds, Find(b, c, m, i, holds))

(***************************************************************************)
(* Between refreshes the router of the host and of every attached plugin   *)
(* answers exactly what the bindings in the cached walk say, for each      *)
(* contract that one of them binds and whose cells one directory numbers:  *)
(* however often the tensor was rebuilt, by whom, and in whatever order    *)
(* binaries came and went, no rule is there twice, none is missing and     *)
(* none is left over.                                                      *)
(***************************************************************************)
FindRoutes ==
  caller = Null => \A b \in Binary, c \in OneDirectory :
    Router(b) /\ (\E k \in DOMAIN cache : Serves(cache[k], b, c)) => RoutesAll(b, c)

Targets(cell) == Range(cell.rules) \cup ({cell.fallback} \ {Null})

(***************************************************************************)
(* A cell never holds the capability of another model, or of other         *)
(* coordinates, not even half-way through a refresh: the row of a slot     *)
(* belongs to the model that has the slot in the directory of the binary   *)
(* that looks it up.  This is for the contracts whose cells one directory  *)
(* numbers, and holds for no other: see OneDirectory.                      *)
(***************************************************************************)
CellsOfOwnModel ==
  \A b \in Binary, c \in OneDirectory : \A j \in DOMAIN arena[b][c] :
    \A t \in Targets(arena[b][c][j]) :
      /\ index[IndexOf(b)][((j - 1) \div Volume[c]) + 1] = Bound[t.by]
      /\ t.cell = ((j - 1) % Volume[c]) + 1

(***************************************************************************)
(* No look-up reaches into an image that is gone, for the contracts the    *)
(* host binds itself: CRG_Shutdown has rebuilt their arenas before dlclose.*)
(***************************************************************************)
HostBound == {c \in Contract : \E p \in Range(LocalChain[Host]) : Binds(p, c)}

TargetsMapped ==
  \A c \in HostBound : \A j \in DOMAIN arena[Host][c] :
    \A t \in Targets(arena[Host][c][j]) :
      Home[t.by] # Host => phase[Home[t.by]] # "unmapped"

(***************************************************************************)
(* The host's look-ups answer with the l-th capability that p binds: at a  *)
(* cell where it is a rule, whenever no other rule of the cell matches; at *)
(* one where it is the fallback, with that, or with one bound after it,    *)
(* when no rule matches.                                                   *)
(***************************************************************************)
HostFinds(p, l) ==
  LET c == Caps[p][l].contract IN
  \A i \in DOMAIN Caps[p][l].kinds :
    LET own == TargetOf(p, l, i)
        all == Bindings(Host, c, Bound[p])
    IN /\ Caps[p][l].kinds[i] = "rule" => Find(Host, c, Bound[p], i, {own}) = own
       /\ Caps[p][l].kinds[i] = "fallback" =>
            \E x, y \in {kl \in all : KindAt(kl, i) = "fallback"} :
              /\ AtCell(x, i) = own
              /\ Find(Host, c, Bound[p], i, {}) = AtCell(y, i) /\ ~Lex(y, x)

Loaded(q) == phase[q] = "attached" /\ caller = Null /\ Router(Host)

(***************************************************************************)
(* The load of a plugin makes what it binds visible to the host, through   *)
(* the host's own look-ups, for the contracts whose arena storage both     *)
(* have anchored (universal_anchor.md:23) and whose cells one directory    *)
(* numbers; without the anchors only the plugin's own arenas are written.  *)
(***************************************************************************)
AnchoredRouted ==
  \A q \in Plugins : Loaded(q) =>
    \A p \in Range(LocalChain[q]) : \A l \in DOMAIN Caps[p] :
      Caps[p][l].contract \in OneDirectory /\ ArenaOf(q, Caps[p][l].contract) = Host
      => HostFinds(p, l)

(* A refresh, once begun, returns.                                         *)
RefreshReturns == caller # Null ~> caller = Null

-----------------------------------------------------------------------------
(***************************************************************************)
(* architecture.md:87: the load of a capability plugin "rebuilds the       *)
(* routing tensor for that domain in the host's storage": the host then    *)
(* finds what the plugin binds.                                            *)
(***************************************************************************)
PluginRouted ==
  \A q \in Plugins : Loaded(q) =>
    \A p \in Range(LocalChain[q]) : \A l \in DOMAIN Caps[p] : HostFinds(p, l)

(***************************************************************************)
(* stage_plugin_loadlibrary.md:16: "After CRG_Shutdown + dlclose, the      *)
(* routing tensor is identical to the pre-load state": with no plugin left *)
(* the host finds its own bindings and nothing else, for the contracts     *)
(* whose cells one directory numbers.                                      *)
(***************************************************************************)
PreloadRestored ==
  /\ caller = Null /\ Router(Host)
  /\ \A p \in Plugins : phase[p] = "unmapped"
  => \A c \in OneDirectory : RoutesAll(Host, c)
=============================================================================
