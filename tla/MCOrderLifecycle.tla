--------------------------- MODULE MCOrderLifecycle ---------------------------
(***************************************************************************)
(* OrderLifecycle for TLC.  Orders and calls are interchangeable.          *)
(***************************************************************************)
EXTENDS OrderLifecycle, TLC

Symmetry == Permutations(Orders) \cup Permutations(Calls)
==============================================================================
