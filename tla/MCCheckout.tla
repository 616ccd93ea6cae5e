------------------------------ MODULE MCCheckout ------------------------------
(***************************************************************************)
(* Checkout for TLC: two venues, two items, and carts that reach every     *)
(* way out of CreateOrder.                                                 *)
(***************************************************************************)
EXTENDS Checkout, TLC

CONSTANTS a, b

Line(i, q) == [item |-> i, quantity |-> q]

\* Two rows (two such carts can wait for each other, and the items can be of
\* different venues); totals that do not fit in a Word of 16 at the higher of
\* the prices 1 and 3, and come out positive and negative; no quantity; a
\* quantity too large; no line.
SomeCarts == {<<Line(a, 1), Line(b, 1)>>, <<Line(b, 3), Line(b, 3)>>,
              <<Line(b, 3)>>, <<Line(a, 0)>>, <<Line(b, 4)>>, <<>>}

\* The cart whose requests can wait for each other.
BusyCarts == {<<Line(a, 1), Line(b, 1)>>}

Symmetry == Permutations(Requests)
==============================================================================
