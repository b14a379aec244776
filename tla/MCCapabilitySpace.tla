------------------------- MODULE MCCapabilitySpace -------------------------
(* Spaces of up to three axes.  Plain enums of one to three enumerators    *)
(* that have nothing but a Count, as in the tests of the code; one that    *)
(* lists its Values; an enum with custom values and a ToDense; one whose   *)
(* last enumerator is not an axis value; one whose values have a gap: it   *)
(* does not compile if it lists them, and does if it has only a Count.     *)
EXTENDS CapabilitySpace

CountOnly(values, n) ==
  [enumerators |-> values, count |-> n, values |-> << >>, toDense |-> Null]

Plain == {CountOnly(0 .. n - 1, n) : n \in 1 .. 3}

PlainListed == [CountOnly({0, 1}, 2) EXCEPT !.values = <<0, 1>>]

Custom ==
  [enumerators |-> {1, 2, 4}, count |-> 3, values |-> <<1, 4, 2>>,
   toDense |-> [v \in {1, 2, 4} |-> CASE v = 1 -> 0 [] v = 4 -> 1 [] v = 2 -> 2]]

Sentinel == [CountOnly({0, 1, 2}, 2) EXCEPT !.values = <<0, 1>>]

Gapped == CountOnly({1, 2}, 2)

GappedListed == [Gapped EXCEPT !.values = <<1, 2>>]

MCAxes == Plain \cup {PlainListed, Custom, Sentinel, Gapped, GappedListed}
=============================================================================
