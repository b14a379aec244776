-------------------------- MODULE CapabilitySpace --------------------------
(***************************************************************************)
(* The space of a contract: axes that are enums, the flat index Horner's   *)
(* method gives to coordinates, and its inverse, by which CapabilityNode   *)
(* chooses the specialisation it binds to each cell of a model's row.      *)
(* (capability_space.hpp, at.hpp, enum_traits.hpp, and FillArena of        *)
(* capability_binding.hpp.)                                                *)
(*                                                                         *)
(* An enum is the set of its enumerators' numeric values with what its     *)
(* EnumTraits say of it: Count; Values, << >> where they have none; and    *)
(* ToDense, Null where they have none.                                     *)
(***************************************************************************)
EXTENDS Platform, Integers, SequencesExt

CONSTANTS
  Axes,      \* the enums spaces are made of: [enumerators, count, values, toDense]
  MaxDims,   \* bound: the axes of a space
  Slots      \* bound: the dense slots of models

ASSUME SpaceAssumption ==
  /\ MaxDims \in Nat
  /\ Slots \subseteq Nat
  /\ \A axis \in Axes :
       /\ axis.enumerators \subseteq Nat /\ axis.count \in Nat
       /\ axis.values \in Seq(axis.enumerators)
       /\ axis.toDense = Null \/ axis.toDense \in [axis.enumerators -> Nat]

VARIABLES
  space,    \* the axes of the contract's space
  filled,   \* the slots whose rows have been filled
  arena     \* the cells: Null, or the slot and the At<> it was bound for

vars == <<space, filled, arena>>

-----------------------------------------------------------------------------
Count(axis) == axis.count

AxisToDense(axis, v) == IF axis.toDense = Null THEN v ELSE axis.toDense[v]

(* The static_asserts of CapabilitySpace on each of its axes: the first    *)
(* Count of the Values are looked at; without Values nothing is.           *)
AxisDensityCheck(axis) ==
  /\ Count(axis) > 0
  /\ axis.values = << >>
     \/ /\ Len(axis.values) >= Count(axis)
        /\ \A i \in 1 .. Count(axis) : AxisToDense(axis, axis.values[i]) = i - 1

Volume(sp) == FoldLeft(LAMBDA v, axis : v * Count(axis), 1, sp)

(* Mutant: the stride takes in its own axis. *)
GetStrideInclusive(sp, d) ==
  FoldLeftDomain(LAMBDA s, i : IF i >= d THEN s * Count(sp[i]) ELSE s, 1, sp)

GetStride(sp, d) ==
  FoldLeftDomain(LAMBDA s, i : IF i > d THEN s * Count(sp[i]) ELSE s, 1, sp)

(* The static_cast makes an enumerator of the index as it is.              *)
GetCoordAtIndex(sp, d, index) == (index \div GetStride(sp, d)) % Count(sp[d])

MakeAt(sp, index) == [d \in DOMAIN sp |-> GetCoordAtIndex(sp, d, index)]

(* Mutant: an offset is scaled by the axis before. *)
HornerShifted(sp, coords) ==
  FoldLeftDomain(LAMBDA offset, d :
                   offset * Count(sp[IF d = 1 THEN 1 ELSE d - 1])
                     + AxisToDense(sp[d], coords[d]), 0, sp)

Horner(sp, coords) ==
  FoldLeftDomain(LAMBDA offset, d :
                   offset * Count(sp[d]) + AxisToDense(sp[d], coords[d]), 0, sp)

ComputeOffset(sp, slot, coords) == slot * Volume(sp) + Horner(sp, coords)

(* The coordinates a look-up can name: an enumerator on each axis.         *)
Coords(sp) ==
  {coords \in [DOMAIN sp -> UNION {axis.enumerators : axis \in Range(sp)}] :
     \A d \in DOMAIN sp : coords[d] \in sp[d].enumerators}

-----------------------------------------------------------------------------
(* The spaces that compile.                                                *)
Init ==
  /\ space \in SeqOf({axis \in Axes : AxisDensityCheck(axis)}, MaxDims)
  /\ filled = {} /\ arena = << >>

(* Mutant: a row that lies within the arena makes it end there. *)
FillArenaResized(slot) ==
  LET base == slot * Volume(space)
      size == base + Volume(space)
  IN /\ arena' = [j \in 1 .. size |->
          IF j > base THEN [slot |-> slot, at |-> MakeAt(space, j - 1 - base)]
          ELSE IF j <= Len(arena) THEN arena[j] ELSE Null]
     /\ filled' = filled \cup {slot}
     /\ UNCHANGED space

(* CapabilityNode::FillArena: cell TI of the row gets TCap<., MakeAt<TI>>. *)
FillArena(slot) ==
  LET base == slot * Volume(space)
      size == Max({Len(arena), base + Volume(space)})
  IN /\ arena' = [j \in 1 .. size |->
          IF j \in base + 1 .. base + Volume(space)
          THEN [slot |-> slot, at |-> MakeAt(space, j - 1 - base)]
          ELSE IF j <= Len(arena) THEN arena[j] ELSE Null]
     /\ filled' = filled \cup {slot}
     /\ UNCHANGED space

ClearArena ==
  /\ arena' = << >> /\ filled' = {}
  /\ UNCHANGED space

Next == ClearArena \/ \E slot \in Slots : FillArena(slot)

Spec == Init /\ [][Next]_vars

-----------------------------------------------------------------------------
TypeOK ==
  /\ space \in Seq(Axes)
  /\ filled \subseteq Slots
  /\ Len(arena) = IF filled = {} THEN 0 ELSE (Max(filled) + 1) * Volume(space)
  /\ \A j \in DOMAIN arena : arena[j] = Null \/ arena[j].slot \in filled

(* The contract of an axis (enum_traits.hpp:6): its enumerators are mapped *)
(* to 0 .. Count - 1, each to an index of its own.                         *)
Contiguous(axis) ==
  [v \in axis.enumerators |-> AxisToDense(axis, v)]
    \in Bijection(axis.enumerators, 0 .. Count(axis) - 1)

(* Values list every enumerator, and Count is how many there are: what     *)
(* enum_traits.hpp:10 asks, and what the static_assert needs to be enough. *)
Listed(axis) ==
  Len(axis.values) = Count(axis) /\ Range(axis.values) = axis.enumerators

ContractKept == \A axis \in Range(space) : Listed(axis) \/ Contiguous(axis)

(***************************************************************************)
(* Every model and coordinates have an offset of their own, and a model's  *)
(* are exactly its row: "enums with custom numeric values still produce a  *)
(* valid 0..Count-1 index" (capability_space.hpp:72).  It is so of every   *)
(* space that compiles with all enumerators listed in Values; of an axis   *)
(* without Values the code assumes the contract and so does the property.  *)
(***************************************************************************)
OffsetsDense ==
  ContractKept => \A slot \in Slots :
    /\ {ComputeOffset(space, slot, coords) : coords \in Coords(space)}
         = slot * Volume(space) .. slot * Volume(space) + Volume(space) - 1
    /\ Cardinality(Coords(space)) = Volume(space)

(* The look-up of a model and coordinates finds the capability specialised *)
(* for exactly these, or nothing where the model's row was not filled.     *)
Reached(slot, coords) ==
  LET offset == ComputeOffset(space, slot, coords)
      cell == IF offset < Len(arena) THEN arena[offset + 1] ELSE Null
  IN cell = IF slot \in filled THEN [slot |-> slot, at |-> coords] ELSE Null

(***************************************************************************)
(* The look-up of any coordinates reaches what is specialised for them, in *)
(* whatever order the rows were filled: GetCoordAtIndex "inverts the flat  *)
(* index to recover the enum value" (capability_space.md:21).              *)
(***************************************************************************)
CellSpecialised ==
  ContractKept => \A slot \in Slots, coords \in Coords(space) : Reached(slot, coords)

(***************************************************************************)
(* So it is, in every space of enums without a ToDense that compiles, of   *)
(* the coordinates whose values are below Count: FillArena and             *)
(* ComputeOffset are inverse to each other.  No contract is needed.        *)
(***************************************************************************)
PlainSpecialised ==
  (\A axis \in Range(space) : axis.toDense = Null) =>
    \A slot \in Slots, coords \in Coords(space) :
      (\A d \in DOMAIN space : coords[d] < Count(space[d])) => Reached(slot, coords)
=============================================================================
