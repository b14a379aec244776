--------------------------- MODULE MCChainSplicer ---------------------------
(***************************************************************************)
(* A plugin with two nodes, one with one, one with none of this type, and  *)
(* two host nodes that may come below, between or above the segments.      *)
(***************************************************************************)
EXTENDS ChainSplicer, TLC

CONSTANTS host, p1, p2, p3, a1, a2, b1, h1, h2

MCPlugins == {p1, p2, p3}
MCHostNodes == {h1, h2}
MCNode == {a1, a2, b1, h1, h2}
MCLocalChain == (p1 :> <<a1, a2>>) @@ (p2 :> <<b1>>) @@ (p3 :> << >>)
=============================================================================
