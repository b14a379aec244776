------------------------ MODULE SecurePluginCoupler ------------------------
(***************************************************************************)
(* SecurePluginCoupler::Inspect (discovery/secure_plugin_coupler.hpp): the *)
(* two-pointer cycle check a plugin's chain has to pass before it is       *)
(* spliced, one loop iteration per step.  PluginEntry runs it on the chain *)
(* of an image.                                                            *)
(***************************************************************************)
EXTENDS NodeLink

CONSTANT Node

NodeOrNull == Node \cup {Null}

VARIABLES
  next,      \* the chain under inspection: m_Next of every node
  head,      \* where it starts
  slow, fast,
  n,         \* the pointer the counting loop advances
  count,
  pc,
  result     \* the Result returned

chain == <<next, head>>

None == [hasCycle |-> FALSE, nodeCount |-> 0]

(* while (fast && fast->m_Next).  A null head ends it at once, with the    *)
(* count of zero that Inspect returns for it.                              *)
Racing == fast # Null /\ next[fast] # Null

Twice(p) == IF next[p] = Null THEN Null ELSE next[next[p]]

(* Mutant: both pointers advance at the same pace. *)
RaceEven ==
  /\ pc = "race" /\ Racing
  /\ slow' = next[slow]
  /\ fast' = next[fast]
  /\ IF slow' = fast'
     THEN pc' = "done" /\ result' = [hasCycle |-> TRUE, nodeCount |-> 0]
     ELSE UNCHANGED <<pc, result>>
  /\ UNCHANGED <<chain, n, count>>

(* Mutant: only reaching the head again counts as a cycle. *)
RaceHead ==
  /\ pc = "race" /\ Racing
  /\ slow' = next[slow]
  /\ fast' = Twice(fast)
  /\ IF slow' = fast' /\ fast' = head
     THEN pc' = "done" /\ result' = [hasCycle |-> TRUE, nodeCount |-> 0]
     ELSE UNCHANGED <<pc, result>>
  /\ UNCHANGED <<chain, n, count>>

Race ==
  /\ pc = "race" /\ Racing
  /\ slow' = next[slow]
  /\ fast' = Twice(fast)
  /\ IF slow' = fast'
     THEN pc' = "done" /\ result' = [hasCycle |-> TRUE, nodeCount |-> 0]
     ELSE UNCHANGED <<pc, result>>
  /\ UNCHANGED <<chain, n, count>>

StartCount ==
  /\ pc = "race" /\ ~Racing
  /\ pc' = "count"
  /\ n' = head
  /\ UNCHANGED <<chain, slow, fast, count, result>>

Count ==
  /\ pc = "count" /\ n # Null
  /\ count' = count + 1
  /\ n' = next[n]
  /\ UNCHANGED <<chain, slow, fast, pc, result>>

Return ==
  /\ pc = "count" /\ n = Null
  /\ pc' = "done"
  /\ result' = [hasCycle |-> FALSE, nodeCount |-> count]
  /\ UNCHANGED <<chain, slow, fast, n, count>>

Next == Race \/ StartCount \/ Count \/ Return

(***************************************************************************)
(* The verdict is right both ways: a chain is refused exactly if a walk of *)
(* it would not end (no false alarm on a chain that merely is long, no     *)
(* cycle let through, wherever on the chain it closes), and the count of   *)
(* an accepted chain is its length.                                        *)
(***************************************************************************)
VerdictRight ==
  pc = "done" =>
    /\ result.hasCycle <=> Trapped(next, head)
    /\ ~result.hasCycle => result.nodeCount = Len(ChainFrom(next, head))
=============================================================================
