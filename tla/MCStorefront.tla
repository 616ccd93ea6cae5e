----------------------------- MODULE MCStorefront -----------------------------
(***************************************************************************)
(* Storefront for TLC: one client, two venues of which one fits on a page, *)
(* two items and one category.                                             *)
(***************************************************************************)
EXTENDS Storefront, TLC

CONSTANTS a, b, v1, v2, here, there

Line(i) == [item |-> i, quantity |-> 1]
SomeCarts == {<<>>, <<Line(a)>>, <<Line(b)>>, <<Line(a), Line(b)>>, <<Line(b), Line(a)>>}

\* The items differ in nothing else.
Symmetry == Permutations(Items)

ByName == <<v2, v1>>

\* One venue per city, so that the city decides what is on a page.
Apart == [v \in Venues |-> IF v = v1 THEN here ELSE there]
==============================================================================
