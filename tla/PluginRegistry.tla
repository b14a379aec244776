--------------------------- MODULE PluginRegistry ---------------------------
(***************************************************************************)
(* What the host may rely on when plugins come and go: the nodes it can    *)
(* visit are those of the plugins attached now, newest plugin first, each  *)
(* plugin's in its own order, among the nodes the host itself constructed; *)
(* a plugin comes and goes as a whole and moves nobody else's nodes.       *)
(***************************************************************************)
EXTENDS Naturals, Sequences, Functions

CONSTANTS Plugins, HostNodes, LocalChain

VARIABLE chain   \* what the host's Visit goes through, in order

NodesOf(p) == Range(LocalChain[p])

Init == chain = << >>

Construct(n) ==
  /\ n \in HostNodes \ Range(chain)
  /\ chain' = <<n>> \o chain

Attach(p) ==
  /\ NodesOf(p) \cap Range(chain) = {}
  /\ chain' = LocalChain[p] \o chain

Detach(p) ==
  \E k \in 0 .. Len(chain) - Len(LocalChain[p]) :
    LET rest == k + Len(LocalChain[p]) + 1 IN
    /\ SubSeq(chain, k + 1, rest - 1) = LocalChain[p]
    /\ chain' = SubSeq(chain, 1, k) \o SubSeq(chain, rest, Len(chain))

Next ==
  \/ \E n \in HostNodes : Construct(n)
  \/ \E p \in Plugins : Attach(p) \/ Detach(p)

Spec == Init /\ [][Next]_chain
=============================================================================
