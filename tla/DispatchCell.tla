---------------------------- MODULE DispatchCell ----------------------------
(***************************************************************************)
(* The default cell of an arena: DispatchCell of tensor_arena.hpp.  Rules  *)
(* are capabilities with a configuration, each with a predicate on the     *)
(* look-up's context; a capability derived from the contract that has none *)
(* is the fallback; any other is of kind "none".                           *)
(***************************************************************************)
EXTENDS Platform, SequencesExt

Kind == {"rule", "fallback", "none"}

EmptyCell == [rules |-> << >>, fallback |-> Null]

(* Mutant: a rule is put in front of the older ones. *)
BindInFront(cell, kind, target) ==
  CASE kind = "rule" -> [cell EXCEPT !.rules = <<target>> \o @]
    [] kind = "fallback" -> [cell EXCEPT !.fallback = target]
    [] OTHER -> cell

(* DispatchCell::Bind: rules queue up, the last fallback stays.            *)
Bind(cell, kind, target) ==
  CASE kind = "rule" -> [cell EXCEPT !.rules = Append(@, target)]
    [] kind = "fallback" -> [cell EXCEPT !.fallback = target]
    [] OTHER -> cell

(* What decides whether a rule's configuration is found at a look-up: that *)
(* m_Config lies at the start of the capability (its contract is empty and *)
(* has no virtual function), that Condition and Evaluate read nothing of a *)
(* configuration.                                                          *)
Layout == [leads : BOOLEAN, stateless : BOOLEAN]

(* What the trampolines of Bind answer, of all that can be answered, where *)
(* the rules' own configurations answer own: Bind stores the address of a  *)
(* capability's m_Config, the trampoline takes it for the capability's and *)
(* looks for an m_Config there.  Past the start what it reads is undefined.*)
Trampolines(layout, own, all) ==
  IF layout.leads \/ layout.stateless THEN {own} ELSE all

(* DispatchCell::Resolve, where the trampolines of the rules in holds match.*)
Resolve(cell, holds) ==
  LET first == SelectInSeq(cell.rules, LAMBDA t : t \in holds)
  IN IF first # 0 THEN cell.rules[first] ELSE cell.fallback
=============================================================================
