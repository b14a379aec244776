# Capability Routing Grid: a verification project

TLA+ models, TLC runs and TLAPS proofs for the core library of the Capability
Routing Grid (`src/crg/libs/crg_core/include/crg`, below: `crg/`), a header-only
C++17 library. It routes a call on a model, in a context of enum axes, to the
capability registered for both, and lets plugin images bring and take away
capabilities at run time.

## 1. The system

| Part | State it keeps | Operations | Where in `crg/` |
|---|---|---|---|
| Node chains | per node type and binary: the head of a chain, a cached walk of it | the constructor puts a node in front; `RefreshCache`, `GetCache`, `Visit` | `discovery/node_link.hpp` |
| Universal anchors | per type and binary: an instance, and a redirect to the host's | `Get`, `SetRemoteTarget`, `SetRemoteAddress` | `discovery/universal_anchor_*.inl`, `host/host_descriptor.hpp` |
| Type keys | none | `HashString`, `TypeHash`, the mixes of the anchored types | `core/hash.hpp`, `models/model_key.hpp`, `discovery/universal_anchor.hpp` |
| Plugin entry points | the synchronizers of the plugin | `CRG_Bootstrap`, `CRG_Shutdown`, `CRG_BridgeInit` | `plugin/plugin.hpp`, `discovery/plugin_chain_synchronizer.hpp` |
| Chain splicer | saved tail, saved remote head | `Splice`, `Unsplice`, `ClosePortal` | `discovery/chain_splicer.hpp` |
| Secure plugin coupler | none | `Inspect`, `IsSafe` | `discovery/secure_plugin_coupler.hpp` |
| Dense index | per domain and binary: the model hashes; a slot is a position | `Refresh`, `Find`, `Size` | `core/dense_index.hpp` |
| Bindings, router, arenas | per contract and binary: the cells; per binary: the `ArenaBuilder` | `Clear`, `Populate`, `RefreshCache`, `Find` | `capabilities/capability_binding.hpp`, `routing/capability_router.hpp`, `routing/tensor_arena.hpp` |
| Dispatch cells | rules, a fallback | `Bind`, `Resolve` | `routing/tensor_arena.hpp`, `dispatch_strategies.hpp`, `branchless_dispatch_cell.hpp` |
| Capability spaces | none | `ComputeOffset`, `GetStride`, `GetCoordAtIndex` | `routing/capability_space.hpp`, `core/enum_traits.hpp`, `core/at.hpp` |
| Model shell | a buffer, a pointer that says it is full, a memoised token per type | copy, move, `Set`, `Mutate`, `Invoke`, `TryInvoke` | `type_erasure/model_shell.hpp` |

How they interact. Static initialisers of an image put its nodes (models,
populators, synchronizers, anchors) on the image's own chains. `CRG_Bootstrap`
hands the plugin a descriptor of the host's anchors; the mass transfer redirects
each of the plugin's anchors for which the host has one with the same key (a hash
of the type's text), so that `Get()` in plugin
code answers with the host's instance; then, domain by domain, each chain of populators is
spliced in front of the host's, and the load hook refreshes the dense index, the
cached walk and the router. The router has every populator on the walk clear the
arenas it binds and then fill them; a virtual call runs in the populator's
own binary, so where it writes depends on that binary's anchors. `CRG_Shutdown`
cuts the segment out, runs the same refresh, and closes the redirect of the chain.
A look-up turns a token (a slot of the dense index) and coordinates into an
offset, and asks the cell there. A shell holds a model by value and
looks its capability up with a token memoised per model type.

What makes it hard: two copies of every static, and a redirect that swaps them
under running code; domains of one plugin that fail one by one, after the transfer
has redirected everything; chains in a plugin's memory that may be anything; pointers into images that are about to be unmapped; chains that several
binaries extend and shorten in any order; directories and tensors rebuilt in place,
repeatedly, by different binaries; look-ups on other threads with no
synchronisation; objects built in place with constructors that may throw.

What makes each part correct, in a sentence: a plugin's anchors lead to the host's
instances of the same types, and a domain is linked as a whole or not at all; the chain is a stack of whole segments
and every walk ends in mapped memory; a model has one slot in a directory and
keeps it; a look-up answers what the bindings in the cached walk say and nothing is left
over; the strategies agree with one another; offsets number cells densely, and fill
and look-up agree on them; a shell is a variable. `PROJECT.json` lists the hazards,
each at its line, with the properties that would catch it.

## 2. The modules

| Module | Models | Its state in the code |
|---|---|---|
| `Platform` | the null pointer, and the powers of two of shifts and words (operators only) | |
| `NodeLink` | walks over intrusive chains (operators only) | `next` is `m_Next` of every node |
| `ChainSplicer` | construction, load, splice, unsplice, refresh, unload for one node type, one pointer step per action | `head`, `cache`, `linked` = the statics of each binary's anchors; `savedTail`, `savedRemote` = `GetSavedLocalTail()`, `GetSavedRemoteTarget()`; `pc`, `self`, `cur` = the call under way |
| `PluginRegistry` | what the splicer promises the host (abstract) | `chain` = what the host's `Visit` sees |
| `ChainSplicerProofs` | proofs about `ChainSplicer`: the pointers, the walks, the cache, the refinement | |
| `DataTheorems` | lemmas about data (induction, recursive functions, folds, least and greatest elements, sequences, quotients, powers of two) and about `NodeLink`'s walks (paths, cursors, cycles) | |
| `SecurePluginCoupler` | the two-pointer check, an iteration per action | its locals |
| `TypeKeys` | FNV-1a, the text a macro hashes, the keys of the anchored types (operators only) | |
| `PluginEntry` | `CRG_Bootstrap` and `CRG_Shutdown` over all domains of a plugin: the mass transfer an anchor per action, then each synchronizer's inspection, splice, unsplice, hook and close | `next` = `m_Next`; `hostHead`, `localHead` = the head's instance in the host and in the plugin; `walk` = the host's cache; `redirect` = `s_RemoteTarget` of each type; `tail` = `GetSavedLocalTail()`; `pc`, `at`, `slow`, `fast`, ... = the entry point's and `Inspect`'s locals |
| `PluginEntryProofs` | proofs about `PluginEntry` and about the keys of `TypeKeys` | |
| `DenseIndexStore` | `Refresh` node by node, `Find` comparison by comparison on other threads, loads and unloads | `entries` = `m_Hashes` of each binary; `remote` = its anchor is redirected; `booted` = the `Bootstrap` static |
| `DenseIndexProofs` | proofs about `DenseIndexStore` | |
| `DispatchCell` | the default cell, and what its trampolines find where (operators only) | a rule list and a fallback |
| `CapabilityRouting` | clear and populate, a virtual call per action, loads, unloads, refreshes by any binary, `Find` | `arena` = `m_Cells` of each contract and binary; `cache` = the populator chain's cache; `built` = the `ArenaBuilder` static; `index` as above |
| `CapabilityRoutingProofs` | proofs about `CapabilityRouting` | |
| `DispatchStrategies` | the three cells side by side | `early`, `scoring`, `lanes` = the three classes' members |
| `DispatchStrategiesProofs` | proofs about `DispatchStrategies` | |
| `CapabilitySpace` | enum axes, Horner's index, its inverse, rows filled in any order | `arena` = the `At<>` each cell was specialised for |
| `CapabilitySpaceProofs` | proofs about `CapabilitySpace` | |
| `ModelShell` | every operation on a shell with throwing constructors; calls through it | `concept` = `m_Concept`; `memo` = the static of `GetToken`; `live`, `remains`, `unsafe`, `stray`, `undefined` are what the C++ object model knows and the code does not |
| `ShellValues` | what a shell promises (abstract) | `content` = the value in a shell |
| `ModelShellProofs` | proofs about `ModelShell` | |

`PluginEntry` runs `SecurePluginCoupler`'s steps (INSTANCE) on the chain of the domain
it is at, and pairs anchors by the keys of `TypeKeys`; its splice and unsplice are a
step each, which `ChainSplicer` takes apart, for several plugins and one domain.
`CapabilityRouting` uses the promises of `ChainSplicer` and `DenseIndexStore` in
single steps: a plugin's populators join and leave the chain as a whole, and a
directory gets the models of a chain in order, a slot each. `ChainSplicer` uses the
verdict of `SecurePluginCoupler` as `Terminates`, which `PluginEntry` checks.

The MC modules give the constants of the small instances. A definition whose
comment begins with "Mutant:" is a wrong form of the definition after it, used to
see that a property can fail; no specification uses it.

### Assumptions and abstractions

* **One thread loads plugins.** Every entry point, refresh and unload runs on it, so
  one such call is under way at a time. `Find` of the dense index runs on any
  thread. `Find` of the router is checked between refreshes only: the code has no
  synchronisation that could make more hold.
* **The host's discipline** (`ChainSplicer`): a plugin that is attached is
  bootstrapped again only while its segment is in front (`MayBootstrap`; the check
  `localHead == remoteHead` catches just that case), and an image is unmapped only
  after `CRG_Shutdown`. A plugin constructs no node of its own after its
  bootstrap, as nothing could remove it from the host's chain.
* **Anchors.** `found` says whether the descriptor resolves an anchor. For
  arenas, `Anchored` lists the binaries and contracts with an anchor
  (`CRG_DEFINE_UNIVERSAL_ANCHOR`, `universal_anchor.md:23`). The domain macros
  define none: the empty set is the code as it stands. `Partitioned` lists the
  binaries with a `CRG_IMPLEMENT_PARTITION`, which anchors the dense index.
* **One directory per arena** (`OneDirectory`). The two are macros of their own. A plugin
  with an arena's anchor and without the partition writes the host's arena with the
  slots of its own directory, and the host then finds another model's
  capability. Nothing in the code prevents or detects that. The model has it; the properties about
  what look-ups answer (`FindRoutes`, `CellsOfOwnModel`, `AnchoredRouted`, `PreloadRestored`) are
  about the contracts where it is not so, and their theorems with them.
* **Keys.** A text is a sequence of characters, and a character a number; what the
  macros put around a name is a character. Words have `Width` bits, 64 in the code; all
  that is assumed of them is that a word holds a character (`Width >= 8`) and that the prime
  is odd.
  `NoCoincidence` rules out that texts the two binaries use clash by accident: what
  happens then is the two types' problem, not the protocol's. `KeysTellApart` says
  how far the functions themselves rule it out.
* **Images** (`PluginEntry`). A mapped image holds any chains: they end, or go back to
  a node visited before. `secure_plugin_coupler.md:7` speaks of untrusted
  data, and no static initialiser makes such a chain. One plugin is loaded at a
  time; the host's chains are made by its own constructors. `CRG_Shutdown` may be
  called whether or not the plugin is bootstrapped, `CRG_Bootstrap` again after it.
  Domains may be spelled with a leading `::` in the plugin.
* **Dense index.** Hashes are model values; the names of debug builds are left out.
  Late nodes are bounded by `MaxNodes`. `push_back` moves the vector or not
  (nondeterministic); what a comparison with a stale buffer gives is undefined, so it has
  either outcome.
* **Routing.** A capability's kind is a rule (it has a condition), a fallback, or
  neither (it does not derive from the contract). A context is the set of rules
  whose condition holds. A plugin routes only while it is attached. Models are
  declared in the binary that binds them. `SortCache` is a stable sort by `Rank`, in the
  binaries in `Sorting` (see the disagreements below); by default it does nothing, all
  ranks being one.
* **`IArenaPopulator`** in `discovery/arena_populator.hpp:11-14` lacks
  the `Clear` and `CanPopulate` that `capability_binding.hpp` overrides and
  `capability_router.hpp` calls; those two files are what is modelled.
  A plugin without populators of the domain is redirected like any other, and
  its synchronizer runs no hook (`Hook`). `Find` takes the rules for which the trampolines answer
  true; which these are is a matter of the cell, as follows.
* **Cells.** A capability is named by its place in the order of `Bind` calls.
  A score of 0 stands for minus infinity. `LogLanes` is 6 in the code.
  `own` is what the rules' own configurations say of a context. The trampolines of the default and of the
  scoring cell tell that only if the configuration lies at the start of the
  capability (a contract without data or virtual functions) or reads none of its members
  (`Layout`, `Trampolines`); the branchless cell evaluates a default-constructed
  configuration, and tells it only of stateless ones (`Defaulted`). Anything else gives any
  answer. The properties say for which layouts they hold (see the
  disagreements below for the others).
* **Spaces.** An enum is the set of its enumerators with what its traits say: `Count`, perhaps
  `Values`, perhaps a `ToDense`. `Init` admits the spaces that pass the `static_assert`s,
  and these look at `Values` only: without any, "the contract is
  assumed" (`enum_traits.hpp:13`). `OffsetsDense` and `CellSpecialised` assume it too
  (`ContractKept`): each axis lists all its enumerators, or maps them to `0 .. Count - 1` without
  listing them. `PlainSpecialised` does not.
* **Shells.** The code is a plugin's, so that the redirect happens. After undefined
  behaviour nothing is modelled: the run with faults does not check deadlock for
  that reason alone. A copy, move, `Mutate`, `Invoke` or `TryInvoke` that reads a dead wrapper is such
  (`ReadDead`, `OnDead`). `EarlyUse` and `SelfSet` say whether a program
  calls through shells before its bootstrap, and sets a shell from its own model. The properties of
  shells except those that a throwing or aliasing assignment has hit (`unsafe`).

### Fairness

`WF_vars(Step)`, a step of the call under way: the call runs on a thread of its own
until it returns, nothing in it blocks. `WF_vars(Compare(r))` for a look-up, for
the same reason. No entry point is fair: whether anything is ever
loaded is up to the host. In `PluginEntry`, `Step` holds the inspection too, so that
`CallsReturn` says that the scan ends on every chain.

## 3. The runs

Passing runs:

| Run | Instance | Shows |
|---|---|---|
| `splicer` (160 000 states) | plugins with two, one and no nodes, two late host nodes | `ChainIsSegments`: in every state, half-way through a splice too, the chain is whole segments and host nodes, each once. `OwnChainRestored`: an unspliced plugin has its own chain back. `NoDangling`: no walk or cache meets an unmapped node. `CacheCurrent`: loads and unloads leave the host's cache up to date. `ImplementsRegistry`: the host sees what `PluginRegistry` promises. `CallsReturn`. `IInv` is the proof's invariant |
| `entry` (70 000) | a plugin with two domains, a chain of up to five nodes in one and of one in the other, every end or cycle, spelled either way; a late node of the host; an anchor the host lacks | `VerdictRight`: a chain is refused exactly if no walk of it would end. `HostChainsSound`: whichever domain fails, the host's chains end and hold whole chains of linked domains only. `AnchorsPaired`: the transfer pairs each anchor with its type's, past one that is missing, and a linked domain's arenas and directory are the host's. `BootstrapLinks`: exactly the domains that can be linked are. `KeysTellApart`: what the hashes can promise. `CallsReturn` |
| `dense` (103 000) | a host, a plugin that shares its directory and one that does not, a late node, a reader | `OneSlotPerModel`, `SlotsStable`, `DeclaredResolvable` across the redirect; `FindRight`: an answer is right unless the vector was moved away under the scan; `CallsReturn`; `IInv` |
| `routing` (99 000) | a plugin with its own directory and arenas, one with two bindings that shares the host's directory and one of its arenas, one that shares these and binds nothing, a late binding, two contracts, populators of three ranks | `FindRoutes`: every router answers exactly what the bindings in the cached walk say, in the order of ranks and then of the chain, under every context; `CellsOfOwnModel`: a row belongs to its slot's model, in every state; `TargetsMapped`; `PreloadRestored`; `AnchoredRouted`: the host answers with a loaded plugin's rule where that matches alone, and with its fallback, or one bound later, where none does; `RefreshReturns` |
| `dispatch` (3 300) | up to seven capabilities in any order, four lanes, every layout | `LowestLaneWins`, `StrategiesExchangeable`, `BestScoreWins` |
| `space` (3 200) | all spaces of up to three axes that compile, three slots: plain, listed, custom values, a sentinel, gaps | `OffsetsDense`, `PlainSpecialised` |
| `shell` (2 500) | two shells, a type that throws, self-assignment | `Whole`, `DestroyedOnce`, `CallsOwnCapability`, `ShellsAreVariables` |

Why the bounds are enough: an unsplice has three cases (the segment is first,
below a host node, below another segment), and all occur; with five nodes a cycle of
every length up to five occurs behind a tail of every length that still fits, so that the
fast pointer meets the slow one inside the cycle, at its entry and at the head (which
node is which does not matter, and what lies off the chain is never read); each
of two domains fails while the other does not; words of eight bits let TLC enumerate a
whole mix; a directory meets a model
that is new, one that is known and one that comes twice; a refresh meets rows that are there, that must grow and
that lie between others; seven rules overflow four lanes by up to three, so that
every lane is the lowest; two shells are all an operation ever touches.

Runs that end in a violation. Each states what a document or a comment says, and
TLC finds a behaviour of the code that contradicts it:

| Run | Statement | What the code does |
|---|---|---|
| `dense_race` | `dense_index.md:13`: `Find` is "Safe to call from any thread after bootstrap" | a load appends to the vector a look-up scans |
| `routing_host` | `architecture.md:87`: a load rebuilds the tensor "in the host's storage" | the arena's anchor is a member of a template that nothing instantiates, so the plugin fills its own arena and the host finds nothing |
| `routing_leftover` | `stage_plugin_loadlibrary.md:16`: after the unload the tensor "is identical to the pre-load state" | with anchored arenas, a contract only the plugin binds is cleared by nobody: its cells point into the unmapped image |
| `space_coords` | `capability_space.md:21`: `GetCoordAtIndex` recovers "the enum value" | it casts the dense index; for an enum with custom values that is no enumerator |
| `shell_tokens` | `model_shell.hpp:86`: a token "depends only on the type" | it depends on the directory, which the bootstrap swaps; a token memoised before stays |

Disagreements found on the way that no run shows:

* `models/model_node.md:8`: "The slot of a model equals the position of its first
  ModelNode" on the chain. A model that is declared and bound has two nodes, so that
  the slots behind the second are below their positions.
* Debug builds keep in a shared directory views of names that lie in the image
  that brought the model. When it is unloaded and loaded again the
  dedup (`dense_index.hpp:69`) compares the node's name with one of them.
* `model_shell_traits.md:43` and a test say that `TryInvoke` of a method that returns an
  optional returns the same optional; `model_shell_traits.hpp:35` wraps it again.
* `dense_index.hpp:53-64` and `domain_macros.hpp:16` speak of hashes of truncated
  names; `model_key.hpp:20-33` hashes the text in full.
* `discovery/domain_synchronizer.md:19`: the hook fires "once per chain that actually
  changed topology". The unload hook also runs for a chain that the load refused: `Unsplice` returns true for any local chain whose head anchor
  the mass transfer has redirected (`chain_splicer.hpp:62`).
* `plugin/plugin.md:11`: bootstrap and shutdown are "symmetric", and state is "correctly
  released during shutdown". `ClosePortal` keeps the redirects of the directory and of the arenas, and
  drops the local head, so that a second bootstrap of a mapped image links nothing
  (`BootstrapLinks`).
* `plugin/plugin.md:5-9` names four entry points, two of them `_<Name>` variants; the macro
  emits `CRG_Bootstrap`, `CRG_Shutdown` and `CRG_BridgeInit`.
* A leading `::` of a domain's name is removed from the keys of its directory and arenas
  (`hash.hpp:34-47`), and stays inside those of its head and cache
  (`universal_anchor.hpp:39-44`). A binary that spells it so shares its directory and not its
  chain with one that does not.
* `architecture.md:21` and `node_link.md:20`: specialise `NodeLinkTraits` "in the `.cpp` where your
  static instances live". The walk is sorted by the binary that refreshes it, and a plugin's
  hooks do: when the specialisation is not in the plugin too, its load leaves the host's
  walk in chain order, and `tensor_arena.md:23` (the order of rules "is controlled by"
  `SortCache`) fails. With `Sorting` a proper subset of the binaries, so does `FindRoutes`.
* `stage_05_dynamic_rules.md:45`: `Find` returns the first candidate "whose `Condition(ctx)` is true", of
  contracts that may be virtual (`stage_03_routing_1d.md:23`: "routing doesn't care"). `Bind` stores
  `&instance->m_Config` (`tensor_arena.hpp:65`), and the trampoline takes it for the capability and reads its
  `m_Config` again (`:61`): with a virtual contract, or one with data, the condition is evaluated on what lies
  behind the configuration. The scoring cell does the same. Configurations without members do not notice.
* `CapabilityRouter::ValidateAll` cannot be compiled with asserts enabled: a free function constructs
  `ModelToken`s through a constructor that is private but to the router.

## 4. The proofs

For any number of binaries, nodes, models, bindings, chains, threads and lanes, from the
assumptions named in the modules (binaries and nodes are distinct, chains of
different binaries are disjoint, node and plugin sets of the splicer are finite; what else
a module assumes is in its `ASSUME`s and listed under *Assumptions* above). Each
inductive invariant was an invariant of a TLC run on the small instance before it was
proved. A theorem with a hypothesis on the constants says so below, with the run that
shows what happens without it.

**`ChainSplicerProofs`.** `InvariantHolds`, `TypeCorrect`, `ChainIsWhole`.
`ChainIsSegments` is not inductive: between two steps of an unsplice a plugin is
gone from `booted` while its segment is still linked, and the walk to the predecessor
only ends well if it has not passed the segment. `IInv` adds
what the call under way knows at each of its steps (`CallKnows`), what a
plugin's statics say of its place in the chain (`PluginKnows`), and, with the
order of the blocks that lists the chain, where the walk may be (`NotPassed`).
Each step either leaves the order, puts a block in front of it, or
takes one out; there is a lemma for each of the three and one per action. The
proof uses nothing of the coupler's verdict.

From `IInv` and the lemmas about walks: `AlwaysRestored`
(`OwnChainRestored`); `WalkInvariant` (the host's walk goes once through every node of every
block of the chain and ends, and its cache is the chain without the host nodes
constructed since, or a prefix of it while it is being filled); from that `NeverDangling`,
`AlwaysCurrent`, and `Implements`, the refinement of `PluginRegistry`: of all the steps
of a load and an unload one each changes what `Visit` sees, and it does what
the registry's action does.

**`DataTheorems`.** Walks, merges of chains, sorts and folds are recursive functions, so
what they return is a fact about induction. TLAPS cannot use the library's induction rules,
which take a predicate; `NatSetInduction` states induction for a *set* of numbers, and
is proved from the finiteness of intervals (an injection of a finite set into a proper
subset of it). From it follow that a recursive function exists and obeys its equation
(`NatRecursion`, `RecursionExists`), that a fold over a sequence is such a function
(`FoldExists`), and that a set of numbers has a least and, if bounded, a greatest member;
and about numbers, that quotients and remainders are unique (`Division`), that shifts add up (`BitSum`), and that
multiplication by an odd number loses nothing of a word (`OddInjective`: an odd factor
takes no power of two away).

About walks: `ChainOfPath` (the walk along a path to the null pointer
lists that path), what a segment put in front of a path or cut out of it makes of the walk
(`PathPrepended`, `PathShortened`), and that a walk which returns to a node it has been at
never ends, while one that meets no null in as many steps as there are nodes does return to one
(`OrbitCycle`, `TrappedOrbit`, `TerminatesOrTrapped`).

**`PluginEntryProofs`.** For any domains, anchors, texts and images. `EntryInvariant`:
`Inv` says, domain by domain, what the host's chain is (a path; the plugin's nodes in
it are the one segment from the local head to the saved tail, if the domain is linked: `ChainInv`),
where the plugin's own pointers lead (`LocalInv`), when the cached walk may be behind
(`CacheInv`), which domains have been handled and what for (`ProgressInv`), which redirects there are
(`RedirectInv`), and for the inspection that the two pointers are at `k` and `2k` steps of one walk
(`ScanInv`). From it: `EntryTypes`, `InspectionRight` (`VerdictRight`: if the pointers
meet, the walk is trapped in a cycle; if the fast one meets null, the chain ends and the
count is its length), `ChainsSound`, `RedirectsPaired` and
`LinksWhatEnds`. That the scan ends on every chain is liveness, and stays with `CallsReturn`.
The assumptions are what an image is (`NodesAssumption`: a pointer to a populator of a domain
is on that domain's chain only, as its type says), what the code generates
(`EntryAssumption`), and that texts do not clash by accident (`NoCoincidence`).

The keys: `BitXor` is a recursive function of its first operand, which loses a bit each time
(`XorExists`); by induction on the bits its result is a word and either operand can be told
from the other one and the result (`XorInjective`). With `OddInjective` a character changes the
hash and two hashes that differ still differ after the same character (`Fnv1aFacts`), so that
texts of one length with one different character never have the same hash (`HashesDiffer`, for every text,
length and width); a mix is xor with a word that the second operand shifts around, hence a bijection
(`MixCounted`). `KeysApart` (`KeysTellApart`) is both, at every width, 64 included. More than that
cannot be had: there are more texts than words.

**`DenseIndexProofs`.** `InvariantHolds`, `TypeCorrect`, `SlotsUnique`,
`ModelsResolvable`, `FindCorrect`, `SlotsNeverMove`. The heart is
that the directory of a mapped image only grows at its end: then a refresh's
knowledge that the nodes behind it have slots (`CallKnows`) and a
look-up's knowledge that no slot it has compared holds the hash (`FindKnows`)
survive every step of anyone else. `DeclaredResolvable` needs
both, since the redirect swaps a plugin's directory and only the refresh that
follows fills the gap.

**`ModelShellProofs`.** `ShellInvariant`, from it `AlwaysWhole` and
`AlwaysDestroyedOnce`: a wrapper that `m_Concept` does not own was moved from, and a
shell that is not up has none. `ImplementsValues`: every operation, a constructor
that throws in it included, is a step of `ShellValues` or a stutter. `AlwaysOwnCapability`:
a plugin that calls through no shell before its bootstrap reaches the right
capability in every call. The hypothesis is the constant `EarlyUse = FALSE`, which leaves no
redirect between a memo and its use; the run
`shell_tokens` shows what happens with one.

**`CapabilityRoutingProofs`.** `RoutingInvariant`: which binary's populators are on the
chain and which images may still be in the cached walk (`ImagesInv`, `ChainInv`), which visits
a call has still to make (`CallInv`), that a row belongs to the model in its slot (`RowsInv`),
whose capabilities an arena may have (`TargetsInv`), and, visit by visit, which bindings each
cell holds and in which order (`FillInv`). `FillInv` is the heart: between refreshes a router's
cell is the sequence of what the bindings in the walk bind, in the order of the walk;
while a refresh fills, the part of it that the populators visited so far bind; while it clears, the
arenas of the populators visited so far are empty. From it `RoutingTypes`, `NothingUnmapped` and
`WritersKept`; `OwnCells` and `AnchoredFound` (`AnchoredRouted`: the place of a plugin's binding among
those of its cell gives what the first match and the last fallback are), for the contracts in
`OneDirectory`; and, for these contracts too, two theorems with a further hypothesis:

* `RoutesFound` and `WalkSorted`, where the binaries agree on `SortCache` (`OneOrder`: all
  of them compile it, or it does nothing as all ranks are one). Without it the order of
  rules is not that of the ranks (the disagreement about `NodeLinkTraits` above).
* `TensorRestored`, where besides that the host binds each contract that a plugin writes into an arena
  shared with the host (`HostCovers`). The run `routing_leftover` has a contract that only
  the plugin binds, and its cells stay.

**`DispatchStrategiesProofs`.** `StrategiesInvariant` (`CellsInv`): the cells hold the same rules
in the same order, those without a lane aside, and each the fallback its own `Bind`
keeps. From it `StrategiesTypes`, `LowestLane`, `Exchangeable` and `BestScore`, for the
layouts their properties name (`Exchangeable`: stateless configurations, as
`branchless_dispatch_cell.md:26-31` asks). The mask is a sum of
distinct powers of two; `LowBit` writes it as the power of the lowest lane times an
odd number, and each halving of the binary search divides the power and leaves the odd factor, so that
what is left at the end is lane 0: the search is right for every `LogLanes`, and 6 is one. The
best score is a fold whose value after `k` options is the first best of them.

**`CapabilitySpaceProofs`.** For any enums, number of axes and slots, filled in any order.
`SpaceInvariant`: each cell of the arena belongs to the row `(j - 1) \div Volume`, and is specialised for
the coordinates of its index in the row if that row was filled, and empty otherwise (`CellsInv`); the arena
ends with the last filled row (`SizeInv`). From it `SpaceTypes`. `HornerPath` gives the index digit by digit;
it stays below the volume (`HornerBound`) and is
injective (`HornerInjective`), and the digits that `GetCoordAtIndex` computes are the digits of the
index, as dividing by a stride is dividing by the axes behind it one after the other (`DivideTwice`,
`IndexDigits`, `HornerOfDigits`). So Horner's index is a bijection, which is `RowsDense`
(`OffsetsDense`), for the spaces that compile and whose axes list all enumerators in `Values` or, without,
keep the contract: `ListedContiguous` derives the contract from the `static_assert` and the list.
`LookupsSpecialised` (`PlainSpecialised`) says that the cell at a look-up's offset was specialised for the coordinates named, for
enums without a `ToDense` and coordinates below `Count`. It needs no contract; that it needs the absence of a
`ToDense` is what the run `space_coords` shows.

**Model-checked only.** Every safety invariant and action property of the passing runs is a theorem. What is left:

* `CallsReturn` of `ChainSplicer`, `DenseIndexStore` and `PluginEntry`, and `RefreshReturns`: liveness under
  fairness is out of this prover's reach.
* The five runs that end in a violation: a counterexample is its own proof.

## 5. Not modelled

Compile-time machinery (contract
and routing traits, type lists, the macros over lists of models; accidental clashes of hashes), the monolith build of the anchors (one static per
type), views across the ABI, the allocation guard, and
`topology_changed_node_link.hpp`, which nothing calls. Coordinates that are
no enumerators, a bootstrap of an attached plugin that is not in front, handles kept after an unload, and nodes a plugin constructs after its bootstrap, break
properties at once by what the code does; they are listed as hazards.

## 6. Plan

1. `CapabilityRouting` as an implementation of an abstract routing table, with the chain of
   `ChainSplicer` and the directory of `DenseIndexStore` substituted.
2. Model extensions: tokens that user code holds across a bootstrap; a router `Find` on
   another thread during a refresh (which rows it may see); several plugins in
   `PluginEntry` at once.
