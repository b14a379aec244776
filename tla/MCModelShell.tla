---------------------------- MODULE MCModelShell ----------------------------
(* A plugin whose model types have other slots in the host's directory.    *)
EXTENDS ModelShell

CONSTANTS m, n

MCLocalIndex == <<n, m>>
MCHostIndex == <<m, n>>
=============================================================================
