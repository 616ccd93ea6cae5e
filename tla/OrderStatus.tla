----------------------------- MODULE OrderStatus -----------------------------
(***************************************************************************)
(* The order state machine of core/internal/domain/models.go: the seven    *)
(* statuses, the table of allowed transitions and CanTransition.           *)
(*                                                                         *)
(* Rank is not in the code.  It measures how far an order has come, and    *)
(* the invariants use it to say that a status, once left, is never entered *)
(* again: the table has no cycle.                                          *)
(***************************************************************************)
EXTENDS Naturals

OrderStatuses == {"CREATED", "ACCEPTED", "COOKING", "READY",
                  "DELIVERING", "COMPLETED", "CANCELLED"}

\* The status of an order that has no row yet, and the from_status of the
\* first row of its history: AppendStatusHistory turns "" into NULL.
NoStatus == ""

\* A slip, no part of the specification: an order that is being cooked may be
\* cancelled.
allowedTransitionsLax ==
  [CREATED    |-> {"ACCEPTED", "CANCELLED"},
   ACCEPTED   |-> {"COOKING", "CANCELLED"},
   COOKING    |-> {"READY", "CANCELLED"},
   READY      |-> {"DELIVERING"},
   DELIVERING |-> {"COMPLETED"},
   COMPLETED  |-> {},
   CANCELLED  |-> {}]

\* The code's map from a status to the statuses it may be changed to; the
\* map has no entry for the last two.
allowedTransitions ==
  [CREATED    |-> {"ACCEPTED", "CANCELLED"},
   ACCEPTED   |-> {"COOKING", "CANCELLED"},
   COOKING    |-> {"READY"},
   READY      |-> {"DELIVERING"},
   DELIVERING |-> {"COMPLETED"},
   COMPLETED  |-> {},
   CANCELLED  |-> {}]

CanTransition(from, to) == to \in allowedTransitions[from]

Final == {"COMPLETED", "CANCELLED"}

Rank ==
  [s \in OrderStatuses \cup {NoStatus} |->
     IF s = NoStatus THEN 0
     ELSE [CREATED |-> 1, ACCEPTED |-> 2, COOKING |-> 3, READY |-> 4,
           DELIVERING |-> 5, COMPLETED |-> 6, CANCELLED |-> 6][s]]
==============================================================================
