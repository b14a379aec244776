------------------------- MODULE DispatchStrategies -------------------------
(***************************************************************************)
(* The three dispatch strategies of a contract's cells, bound alike: the   *)
(* default early exit (DispatchCell), the utility scoring of               *)
(* dispatch_strategies.hpp and the bit mask of branchless_dispatch_cell.hpp*)
(* with its binary search for the lowest bit.                              *)
(*                                                                         *)
(* A capability is named by its place in the order of the Bind calls.      *)
(* With a look-up's context go the rules whose Condition holds in it, on   *)
(* the configuration of each, and the scores their Evaluate returns; 0     *)
(* stands for minus infinity.  What a cell is told of them depends on how  *)
(* it gets at the configurations (Trampolines, Defaulted).                 *)
(***************************************************************************)
EXTENDS DispatchCell

CONSTANTS
  MaxBinds,   \* bound: how many capabilities are bound to a cell
  Bindable,   \* bound: the kinds of capabilities that are
  LogLanes,   \* the logarithm of MaxRules; 6 in the code
  TopScore,   \* bound: finite scores are 1 .. TopScore
  NaN         \* a score that no comparison holds for

MaxRules == Bit[LogLanes]
Score == (0 .. TopScore) \cup {NaN}

ASSUME StrategiesAssumption ==
  /\ MaxBinds \in Nat /\ LogLanes \in Nat /\ TopScore \in Nat
  /\ Bindable \subseteq Kind
  /\ NaN \notin Nat /\ Null \notin Nat

VARIABLES
  bound,     \* the kinds of the capabilities bound since the cells were cleared
  early,     \* the DispatchCell
  scoring,   \* the UtilityScoringCell: m_Options and m_Fallback
  lanes      \* the BranchlessDispatchCell

vars == <<bound, early, scoring, lanes>>

-----------------------------------------------------------------------------
(* UtilityScoringCell.                                                     *)

EmptyScoring == [options |-> << >>, fallback |-> Null]

BindScoring(cell, kind, target) ==
  CASE kind = "rule" -> [cell EXCEPT !.options = Append(@, target)]
    [] kind = "fallback" -> [cell EXCEPT !.fallback = target]
    [] OTHER -> cell

Exceeds(x, y) == x # NaN /\ x > y

(* Mutant: a later scorer with an equal score displaces an earlier one. *)
ResolveLastBest(cell, score) ==
  FoldLeft(LAMBDA r, t : IF score[t] # NaN /\ score[t] >= r.max
                         THEN [best |-> t, max |-> score[t]] ELSE r,
           [best |-> cell.fallback, max |-> 0], cell.options).best

ResolveScoring(cell, score) ==
  FoldLeft(LAMBDA r, t : IF Exceeds(score[t], r.max)
                         THEN [best |-> t, max |-> score[t]] ELSE r,
           [best |-> cell.fallback, max |-> 0], cell.options).best

-----------------------------------------------------------------------------
(* BranchlessDispatchCell: parallel arrays, a lane per rule.               *)

EmptyLanes ==
  [count |-> 0, fallback |-> Null,
   conditions |-> [l \in 0 .. MaxRules - 1 |-> Null],
   executes |-> [l \in 0 .. MaxRules - 1 |-> Null]]

(* Mutant: a full cell takes the rule in its last lane. *)
BindLanesOverLast(cell, kind, target) ==
  LET lane == Min({cell.count, MaxRules - 1}) IN
  IF kind # "rule" THEN [cell EXCEPT !.fallback = target]
  ELSE [cell EXCEPT !.executes[lane] = target, !.conditions[lane] = target,
                    !.count = lane + 1]

(* Mutant: the number of lanes is not minded. *)
BindLanesUnbounded(cell, kind, target) ==
  IF kind # "rule" THEN [cell EXCEPT !.fallback = target]
  ELSE [cell EXCEPT !.executes[cell.count] = target,
                    !.conditions[cell.count] = target, !.count = @ + 1]

(* Bind: what has no configuration is a fallback, derived or not; a rule   *)
(* that finds no lane left is dropped.                                     *)
BindLanes(cell, kind, target) ==
  IF kind # "rule" THEN [cell EXCEPT !.fallback = target]
  ELSE IF cell.count < MaxRules
  THEN [cell EXCEPT !.executes[cell.count] = target,
                    !.conditions[cell.count] = target,
                    !.count = @ + 1]
  ELSE cell

(* What the conditions of the lanes answer: each evaluates a configuration *)
(* that is default-constructed, not the capability's.                      *)
Defaulted(layout, own, all) == IF layout.stateless THEN {own} ELSE all

ValidMask(cell, holds) ==
  FoldLeft(LAMBDA mask, l : mask + IF cell.conditions[l] \in holds THEN Bit[l] ELSE 0,
           0, [k \in 1 .. cell.count |-> k - 1])

(* Mutant: the search stops before its last halving. *)
HalvesButLast == [k \in 1 .. LogLanes - 1 |-> Bit[LogLanes - k]]

(* The widths of the search's steps: 32, 16, 8, 4, 2, 1.                   *)
Halves == [k \in 1 .. LogLanes |-> Bit[LogLanes - k]]

CountTrailingZeros(mask) ==
  FoldLeft(LAMBDA s, half : IF s.mask % Bit[half] = 0
                            THEN [n |-> s.n + half, mask |-> s.mask \div Bit[half]]
                            ELSE s,
           [n |-> 0, mask |-> mask], Halves).n

ResolveLanes(cell, holds) ==
  LET mask == ValidMask(cell, holds) IN
  IF mask # 0 THEN cell.executes[CountTrailingZeros(mask)] ELSE cell.fallback

-----------------------------------------------------------------------------
Init ==
  /\ bound = << >>
  /\ early = EmptyCell /\ scoring = EmptyScoring /\ lanes = EmptyLanes

(* CapabilityNode::FillArena binds the next capability to its cell.        *)
BindNext(kind) ==
  /\ Len(bound) < MaxBinds
  /\ LET target == Len(bound) + 1 IN
     /\ early' = Bind(early, kind, target)
     /\ scoring' = BindScoring(scoring, kind, target)
     /\ lanes' = BindLanes(lanes, kind, target)
  /\ bound' = Append(bound, kind)

(* CapabilityNode::ClearArena: the next refresh begins with new cells.     *)
ClearArena ==
  /\ bound' = << >>
  /\ early' = EmptyCell /\ scoring' = EmptyScoring /\ lanes' = EmptyLanes

Next == ClearArena \/ \E kind \in Bindable : BindNext(kind)

Spec == Init /\ [][Next]_vars

-----------------------------------------------------------------------------
Capability == 1 .. MaxBinds
Rules == {t \in DOMAIN bound : bound[t] = "rule"}
Fallbacks == {t \in DOMAIN bound : bound[t] = "fallback"}

(* The first Rules get the lanes.                                          *)
Seated == {t \in Rules : Cardinality({r \in Rules : r < t}) < MaxRules}

LastOr(ts) == IF ts = {} THEN Null ELSE Max(ts)

TypeOK ==
  /\ bound \in Seq(Bindable) /\ Len(bound) <= MaxBinds
  /\ early.rules \in Seq(Capability) /\ early.fallback \in Capability \cup {Null}
  /\ scoring.options \in Seq(Capability) /\ scoring.fallback \in Capability \cup {Null}
  /\ lanes.count \in 0 .. MaxRules /\ lanes.fallback \in Capability \cup {Null}
  /\ lanes.executes \in [0 .. MaxRules - 1 -> Capability \cup {Null}]
  /\ lanes.conditions \in [0 .. MaxRules - 1 -> Capability \cup {Null}]

(***************************************************************************)
(* The mask and the search for its lowest bit give, whatever the lanes'    *)
(* conditions answer, the earliest seated rule among those that match      *)
(* (branchless_dispatch_cell.md: "rule index 0 is highest priority"), the  *)
(* last capability without a configuration where none does, and never an   *)
(* empty lane.                                                             *)
(***************************************************************************)
LowestLaneWins ==
  \A holds \in SUBSET Rules :
    LET answer == ResolveLanes(lanes, holds) IN
    IF holds \cap Seated # {} THEN answer = Min(holds \cap Seated)
    ELSE answer = LastOr(DOMAIN bound \ Rules)

(***************************************************************************)
(* A contract whose configurations are stateless, as                       *)
(* branchless_dispatch_cell.md asks, may exchange the default cell for the *)
(* branchless one: as long as the rules have lanes and every capability    *)
(* derives from the contract, both answer alike under every context; past  *)
(* that a context in which a seated rule matches is still answered alike.  *)
(* Of a rule that its constructor configures the lanes know nothing, and   *)
(* nothing is claimed.                                                     *)
(***************************************************************************)
StrategiesExchangeable ==
  \A layout \in Layout, own \in SUBSET Rules : layout.stateless =>
    \A said \in Trampolines(layout, own, SUBSET Rules),
       defaulted \in Defaulted(layout, own, SUBSET Rules) :
      \/ ResolveLanes(lanes, defaulted) = Resolve(early, said)
      \/ own # {} /\ own \cap Seated = {}
      \/ own = {} /\ "none" \in Range(bound)

(***************************************************************************)
(* Whatever the scorers return, NaN and minus infinity included, for any   *)
(* layout in which the trampolines find the configurations: the best score *)
(* wins, the earliest bound of equals, and only where no score exceeds     *)
(* minus infinity the last fallback (dispatch_strategies.md:22).           *)
(***************************************************************************)
BestScoreWins ==
  \A layout \in Layout, own \in [Rules -> Score] : layout.leads \/ layout.stateless =>
    \A score \in Trampolines(layout, own, [Rules -> Score]) :
      LET answer == ResolveScoring(scoring, score)
          scored == {t \in Rules : own[t] \notin {NaN, 0}}
      IN IF scored = {} THEN answer = LastOr(Fallbacks)
         ELSE /\ answer \in scored
              /\ \A t \in scored : own[t] <= own[answer]
              /\ \A t \in scored : own[t] = own[answer] => answer <= t

=============================================================================
