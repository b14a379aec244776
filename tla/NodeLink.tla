------------------------------ MODULE NodeLink ------------------------------
(***************************************************************************)
(* Intrusive singly linked chains, as discovery/node_link.hpp keeps them:  *)
(* every node has one m_Next pointer, a binary keeps one head pointer per  *)
(* node type, and a walk follows m_Next until it meets the null pointer.   *)
(* A pointer is a node or Null; "next" is the function node |-> m_Next.    *)
(***************************************************************************)
EXTENDS Platform, Sequences, FiniteSets

(***************************************************************************)
(* Where the cursor of a walk is, step by step.  The walk of a cyclic      *)
(* chain does not end: it is cut after one step more than there are nodes. *)
(***************************************************************************)
Cursor(next, head) ==
  LET follow == [n \in DOMAIN next \cup {Null} |-> IF n = Null THEN Null ELSE next[n]]
      at[k \in 1 .. Cardinality(DOMAIN next) + 1] ==
        IF k = 1 THEN head ELSE follow[at[k - 1]]
  IN  at

(***************************************************************************)
(* The nodes the walk visits, in order.  A sequence longer than the number *)
(* of nodes stands for an endless walk.                                    *)
(***************************************************************************)
ChainFrom(next, head) ==
  LET at == Cursor(next, head)
  IN  SubSeq(at, 1, Cardinality({k \in DOMAIN at : at[k] # Null}))

(***************************************************************************)
(* The walk from head ends.  This is what SecurePluginCoupler::IsSafe      *)
(* decides with two pointers; module SecurePluginCoupler checks that it    *)
(* does.                                                                   *)
(***************************************************************************)
Terminates(next, head) ==
  Len(ChainFrom(next, head)) <= Cardinality(DOMAIN next)

(***************************************************************************)
(* The walk from head does not end, said without walking: head is in a set *)
(* of nodes that no m_Next pointer leaves.                                 *)
(***************************************************************************)
Trapped(next, head) ==
  \E S \in SUBSET DOMAIN next : head \in S /\ \A n \in S : next[n] \in S

(***************************************************************************)
(* w is the way from head to the null pointer.                             *)
(***************************************************************************)
IsPath(w, N, next, head) ==
  /\ w \in Seq(N)
  /\ \A i, j \in 1 .. Len(w) : w[i] = w[j] => i = j
  /\ head = IF w = << >> THEN Null ELSE w[1]
  /\ \A i \in 1 .. Len(w) : next[w[i]] = IF i = Len(w) THEN Null ELSE w[i + 1]

(***************************************************************************)
(* The m_Next pointers once a binary's static initialisers have run: each  *)
(* constructor puts its node in front of the chain, so the chain, given    *)
(* head first, lists the nodes in reverse order of construction.           *)
(***************************************************************************)
Successor(chain, n) ==
  LET i == CHOOSE k \in DOMAIN chain : chain[k] = n
  IN  IF i = Len(chain) THEN Null ELSE chain[i + 1]

FirstOf(chain) == IF chain = << >> THEN Null ELSE chain[1]
=============================================================================
