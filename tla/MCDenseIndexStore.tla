------------------------- MODULE MCDenseIndexStore -------------------------
(***************************************************************************)
(* Small instances of DenseIndexStore: a host and the plugins p and q.     *)
(***************************************************************************)
EXTENDS DenseIndexStore

CONSTANTS a, b, p, q, r1

(* q brings a model the host has not got; the host may get a late node.    *)
MCDeclared ==
  [x \in Binary |-> CASE x = Host -> <<b>> [] x = p -> <<b, a>> [] OTHER -> <<a, b>>]
=============================================================================
