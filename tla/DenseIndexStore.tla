-------------------------- MODULE DenseIndexStore --------------------------
(***************************************************************************)
(* The per-domain directory of models (core/dense_index.hpp): every model  *)
(* hash found on a binary's chain of ModelNodes gets a slot, its position  *)
(* in the vector m_Hashes, and keeps it.                                   *)
(*                                                                         *)
(* Each binary has its own chain, its own vector and its own Bootstrap     *)
(* static.  A plugin whose binary and whose host both instantiate          *)
(* CRG_IMPLEMENT_PARTITION is redirected to the host's vector when it is   *)
(* bootstrapped, for good; its chain of ModelNodes is never spliced.       *)
(* Refresh runs on the thread that loads plugins, one node per step; Find  *)
(* runs on any thread of the host, one comparison per step.                *)
(*                                                                         *)
(* Only plugins that bind a capability are modelled here: they have        *)
(* populators to splice, so that the load hook runs.                       *)
(***************************************************************************)
EXTENDS Naturals, Sequences, FiniteSets, Functions

CONSTANTS
  Hash,         \* the model hashes
  Host,         \* the host binary
  Plugins,      \* the plugin binaries
  Partitioned,  \* the binaries with a CRG_IMPLEMENT_PARTITION
  Declared,     \* Declared[b]: the ModelNode chain b's static initialisers build
  MaxNodes,     \* bound: the longest chain a late node may lead to
  Readers,      \* threads of the host that call Find
  Null

Binary == {Host} \cup Plugins

ASSUME IndexAssumption ==
  /\ Host \notin Plugins
  /\ Null \notin Binary
  /\ Partitioned \subseteq Binary
  /\ Declared \in [Binary -> Seq(Hash)]
  /\ MaxNodes \in Nat

VARIABLES
  phase,    \* of each plugin: "unmapped", "mapped", "attached", "detached"
  chain,    \* hashes of each binary's ModelNodes, in the order of a walk
  entries,  \* m_Hashes of each binary: the hashes, by slot
  remote,   \* the plugin's Anchor is redirected to the host's state
  booted,   \* the binary's Bootstrap static is constructed
  caller,   \* the binary whose Refresh is under way, or Null
  pos,      \* the next node of its chain
  boots,    \* it is run by the constructor of the Bootstrap static
  reader    \* the Find of each reading thread

called == <<caller, pos, boots>>
vars == <<phase, chain, entries, remote, booted, called, reader>>

Present(b) == b \in Plugins => phase[b] # "unmapped"

(* Anchor::Get(): whose vector the code of binary b works on.              *)
Store(b) == IF remote[b] THEN Host ELSE b

(* Mutant: no look-up before a hash is appended. *)
KnownNever(s, h) == FALSE

(* FindIn(state, hash) != InvalidDenseSlot.                                *)
Known(s, h) == h \in Range(s)

NoFind == [at |-> "none", hash |-> Null, i |-> 0, size |-> 0, stale |-> FALSE]

Init ==
  /\ phase = [p \in Plugins |-> "unmapped"]
  /\ chain = Declared
  /\ entries = [b \in Binary |-> << >>]
  /\ remote = [b \in Binary |-> FALSE]
  /\ booted = [b \in Binary |-> FALSE]
  /\ caller = Null
  /\ pos = 1
  /\ boots = FALSE
  /\ reader = [r \in Readers |-> NoFind]

(***************************************************************************)
(* A ModelNode constructed after the static initialisers: in front.        *)
(***************************************************************************)
Register(b, h) ==
  /\ caller = Null /\ Present(b)
  /\ Len(chain[b]) < MaxNodes
  /\ chain' = [chain EXCEPT ![b] = <<h>> \o @]
  /\ UNCHANGED <<phase, entries, remote, booted, called, reader>>

(* The image is loaded; Unmap has left its statics as Map finds them.      *)
Map(p) ==
  /\ caller = Null /\ phase[p] = "unmapped"
  /\ phase' = [phase EXCEPT ![p] = "mapped"]
  /\ UNCHANGED <<chain, entries, remote, booted, called, reader>>

(* dlclose: the image's statics are gone; a shared directory keeps what    *)
(* the image brought.                                                      *)
Unmap(p) ==
  /\ caller = Null /\ phase[p] \in {"mapped", "detached"}
  /\ phase' = [phase EXCEPT ![p] = "unmapped"]
  /\ chain' = [chain EXCEPT ![p] = Declared[p]]
  /\ entries' = [entries EXCEPT ![p] = << >>]
  /\ remote' = [remote EXCEPT ![p] = FALSE]
  /\ booted' = [booted EXCEPT ![p] = FALSE]
  /\ UNCHANGED <<called, reader>>

(* Mutant: Refresh starts from an empty vector, as the arenas do. *)
EnterClearing(b, first) ==
  /\ caller = Null
  /\ caller' = b
  /\ pos' = 1
  /\ boots' = first
  /\ entries' = [entries EXCEPT ![Store(b)] = << >>]

(* Mutant: the walk begins before the first node. *)
EnterAtZero(b, first) ==
  /\ caller = Null
  /\ caller' = b
  /\ pos' = 0
  /\ boots' = first
  /\ UNCHANGED entries

(* Refresh takes the state and re-walks the chain; nodes come one by one.  *)
Enter(b, first) ==
  /\ caller = Null
  /\ caller' = b
  /\ pos' = 1
  /\ boots' = first
  /\ UNCHANGED entries

(***************************************************************************)
(* CRG_Bootstrap: the mass transfer sets the redirect if both sides anchor *)
(* the state; the load hook then refreshes the index first.                *)
(***************************************************************************)
Bootstrap(p) ==
  /\ phase[p] = "mapped"
  /\ Enter(p, FALSE)
  /\ phase' = [phase EXCEPT ![p] = "attached"]
  /\ remote' = [remote EXCEPT ![p] = {p, Host} \subseteq Partitioned]
  /\ UNCHANGED <<chain, booted, reader>>

(* CRG_Shutdown: the unload hook refreshes again; the redirect stays.      *)
Shutdown(p) ==
  /\ phase[p] = "attached"
  /\ Enter(p, FALSE)
  /\ phase' = [phase EXCEPT ![p] = "detached"]
  /\ UNCHANGED <<chain, remote, booted, reader>>

(***************************************************************************)
(* Refresh called by a populator's Populate or by user code (~first), or,  *)
(* the first time Find or Size is called in a binary, by the constructor   *)
(* of its Bootstrap static (first).                                        *)
(***************************************************************************)
Refresh(b, first) ==
  /\ Present(b)
  /\ first => ~booted[b]
  /\ Enter(b, first)
  /\ UNCHANGED <<phase, chain, remote, booted, reader>>

Visiting == caller # Null /\ pos <= Len(chain[caller])
Node == chain[caller][pos]

(* Mutant: a hash that has its slot ends no iteration of the loop. *)
SkipKnownStuck ==
  /\ Visiting
  /\ Known(entries[Store(caller)], Node)
  /\ UNCHANGED vars

SkipKnown ==
  /\ Visiting
  /\ Known(entries[Store(caller)], Node)
  /\ pos' = pos + 1
  /\ UNCHANGED <<phase, chain, entries, remote, booted, caller, boots, reader>>

(* push_back may move the vector: a Find that scans it has a stale buffer. *)
Moved(s, moves) ==
  [r \in Readers |->
     IF moves /\ s = Host /\ reader[r].at = "scan"
     THEN [reader[r] EXCEPT !.stale = TRUE]
     ELSE reader[r]]

(* Mutant: the new hash goes to the binary's own vector. *)
AppendNewLocally ==
  /\ Visiting
  /\ ~Known(entries[Store(caller)], Node)
  /\ entries' = [entries EXCEPT ![caller] = Append(@, Node)]
  /\ \E moves \in BOOLEAN : reader' = Moved(caller, moves)
  /\ pos' = pos + 1
  /\ UNCHANGED <<phase, chain, remote, booted, caller, boots>>

AppendNew ==
  /\ Visiting
  /\ ~Known(entries[Store(caller)], Node)
  /\ entries' = [entries EXCEPT ![Store(caller)] = Append(@, Node)]
  /\ \E moves \in BOOLEAN : reader' = Moved(Store(caller), moves)
  /\ pos' = pos + 1
  /\ UNCHANGED <<phase, chain, remote, booted, caller, boots>>

(* The constructed static is what later Finds of the binary look for.      *)
Return ==
  /\ caller # Null /\ ~Visiting
  /\ caller' = Null
  /\ pos' = 1
  /\ boots' = FALSE
  /\ booted' = [booted EXCEPT ![caller] = @ \/ boots]
  /\ UNCHANGED <<phase, chain, entries, remote, reader>>

(***************************************************************************)
(* Find on a reading thread of the host, once the static is constructed:   *)
(* the size is read once, the elements one after the other.                *)
(***************************************************************************)
StartFind(r, h) ==
  /\ booted[Host]
  /\ reader[r].at # "scan"
  /\ reader' = [reader EXCEPT ![r] =
       [at |-> "scan", hash |-> h, i |-> 1, size |-> Len(entries[Host]), stale |-> FALSE]]
  /\ UNCHANGED <<phase, chain, entries, remote, booted, called>>

(* Mutant: the last slot is never compared. *)
CompareShort(r) ==
  /\ reader[r].at = "scan"
  /\ reader' = [reader EXCEPT ![r] =
       IF @.i >= @.size THEN [@ EXCEPT !.at = "miss"]
       ELSE IF entries[Host][@.i] = @.hash THEN [@ EXCEPT !.at = "hit"]
       ELSE [@ EXCEPT !.i = @ + 1]]
  /\ UNCHANGED <<phase, chain, entries, remote, booted, called>>

(* A comparison with an element of a stale buffer has either outcome.      *)
Compare(r) ==
  LET f == reader[r] IN
  /\ f.at = "scan"
  /\ \/ /\ f.i > f.size
        /\ reader' = [reader EXCEPT ![r].at = "miss"]
     \/ /\ f.i <= f.size
        /\ f.stale \/ entries[Host][f.i] = f.hash
        /\ reader' = [reader EXCEPT ![r].at = "hit"]
     \/ /\ f.i <= f.size
        /\ f.stale \/ entries[Host][f.i] # f.hash
        /\ reader' = [reader EXCEPT ![r].i = @ + 1]
  /\ UNCHANGED <<phase, chain, entries, remote, booted, called>>

Step == SkipKnown \/ AppendNew \/ Return

Next ==
  \/ \E b \in Binary, h \in Hash : Register(b, h)
  \/ \E p \in Plugins : Map(p) \/ Unmap(p) \/ Bootstrap(p) \/ Shutdown(p)
  \/ \E b \in Binary, first \in BOOLEAN : Refresh(b, first)
  \/ Step
  \/ \E r \in Readers : Compare(r) \/ \E h \in Hash : StartFind(r, h)

(* A call, once begun, is run to its end by the thread that began it.      *)
Spec ==
  /\ Init /\ [][Next]_vars
  /\ WF_vars(Step)
  /\ \A r \in Readers : WF_vars(Compare(r))

-----------------------------------------------------------------------------

TypeOK ==
  /\ phase \in [Plugins -> {"unmapped", "mapped", "attached", "detached"}]
  /\ chain \in [Binary -> Seq(Hash)]
  /\ entries \in [Binary -> Seq(Hash)]
  /\ remote \in [Binary -> BOOLEAN] /\ ~remote[Host]
  /\ booted \in [Binary -> BOOLEAN]
  /\ caller \in Binary \cup {Null}
  /\ pos \in Nat \ {0}
  /\ boots \in BOOLEAN
  /\ reader \in [Readers ->
       [at : {"none", "scan", "hit", "miss"}, hash : Hash \cup {Null},
        i : Nat, size : Nat, stale : BOOLEAN]]

(***************************************************************************)
(* A model has one slot per directory, however often its node is on a      *)
(* chain and however many binaries declare it.                             *)
(***************************************************************************)
OneSlotPerModel ==
  \A b \in Binary : \A i, j \in DOMAIN entries[b] :
    entries[b][i] = entries[b][j] => i = j

(***************************************************************************)
(* Every model on the chain a binary was loaded with has a slot in the     *)
(* directory the binary uses, once the binary is bootstrapped or its       *)
(* static constructed -- across the redirect, which swaps the directory    *)
(* under a binary that may have used its own before.                       *)
(***************************************************************************)
Settled(b) ==
  /\ booted[b] \/ (b \in Plugins /\ phase[b] \in {"attached", "detached"})
  /\ caller # b

DeclaredResolvable ==
  \A b \in Binary : Settled(b) =>
    Range(Declared[b]) \subseteq Range(entries[Store(b)])

(***************************************************************************)
(* What a Find answers is right if its buffer was not moved away: a slot   *)
(* it returns holds the hash, still, and "invalid" means that no slot      *)
(* published when it began does.                                           *)
(***************************************************************************)
FindRight ==
  \A r \in Readers : ~reader[r].stale =>
    /\ reader[r].at = "hit" => entries[Host][reader[r].i] = reader[r].hash
    /\ reader[r].at = "miss" =>
         \A i \in 1 .. reader[r].size : entries[Host][i] # reader[r].hash

(***************************************************************************)
(* A slot once assigned is never reassigned: a directory only grows at its *)
(* end, as long as the image it belongs to stays mapped.                   *)
(***************************************************************************)
SlotsKept(b) ==
  \/ b \in Plugins /\ phase'[b] = "unmapped"
  \/ /\ Len(entries[b]) <= Len(entries'[b])
     /\ \A i \in DOMAIN entries[b] : entries'[b][i] = entries[b][i]

SlotsStable == [][\A b \in Binary : SlotsKept(b)]_vars

(* A refresh and a look-up, once begun, return.                            *)
CallsReturn ==
  /\ caller # Null ~> caller = Null
  /\ \A r \in Readers : reader[r].at = "scan" ~> reader[r].at # "scan"

(***************************************************************************)
(* The invariant that carries the others through every step.  A refresh    *)
(* knows: the nodes behind it have their slots.  A look-up knows: no slot  *)
(* it has compared holds the hash.  Nodes are added to a chain, never      *)
(* removed.                                                                *)
(***************************************************************************)
CallKnows ==
  caller # Null =>
    /\ pos <= Len(chain[caller]) + 1
    /\ \A i \in 1 .. (pos - 1) :
         chain[caller][i] \in Range(entries[Store(caller)])

FindKnows ==
  \A r \in Readers : reader[r].at # "none" =>
    /\ reader[r].i >= 1
    /\ reader[r].size <= Len(entries[Host])
    /\ reader[r].at = "hit" => reader[r].i <= reader[r].size
    /\ reader[r].at = "miss" => reader[r].i > reader[r].size
    /\ ~reader[r].stale => \A j \in 1 .. reader[r].size :
         j < reader[r].i => entries[Host][j] # reader[r].hash

DeclaredOnChain == \A b \in Binary : Range(Declared[b]) \subseteq Range(chain[b])

IInv ==
  /\ TypeOK
  /\ OneSlotPerModel /\ DeclaredResolvable /\ FindRight
  /\ CallKnows /\ FindKnows /\ DeclaredOnChain

-----------------------------------------------------------------------------
(***************************************************************************)
(* dense_index.md:13: Find is "Safe to call from any thread after          *)
(* bootstrap": no look-up reads a buffer the vector has left.              *)
(***************************************************************************)
FindSafeFromAnyThread == \A r \in Readers : ~reader[r].stale
=============================================================================
