---------------------------- MODULE Subsequences ----------------------------
(***************************************************************************)
(* List comprehensions, the entries at some of the positions of a list in  *)
(* their order, and sorting.  By counting, without recursion, so that it   *)
(* can be reasoned about.                                                  *)
(***************************************************************************)
EXTENDS Naturals, Sequences, FiniteSets

\* Whether i comes first, second, ... among the places.
Place(places, i) == Cardinality({j \in places : j <= i})

\* The places, numbers, from the least to the largest.
InOrder(places) ==
  [n \in 1..Cardinality(places) |-> CHOOSE i \in places : Place(places, i) = n]

\* The elements of a finite set in the order whose pairs are in before.
Arranged(elements, before) ==
  [n \in 1..Cardinality(elements) |->
     CHOOSE x \in elements : Cardinality({y \in elements : <<y, x>> \in before}) = n - 1]

\* [entry for entry in list if ...], given the places where the condition holds.
Kept(list, places) == [n \in DOMAIN InOrder(places) |-> list[InOrder(places)[n]]]
=============================================================================
