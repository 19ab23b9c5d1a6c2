---------------------------- MODULE OrderStates ----------------------------
(***************************************************************************)
(* The order life cycle of execution/order_state.py and the reading of an  *)
(* exchange row by execution/order_manager.py (_map_state).  Everything    *)
(* here is constant level: the stateful modules extend it.                 *)
(***************************************************************************)
EXTENDS Naturals

\* class OrderState, without EXIT_PARTIALLY_FILLED (a state of managed
\* positions only, listed in MANAGED_POSITION_STATES).
OrderState ==
    {"PLANNED", "APPROVED", "SUBMITTED", "SUBMISSION_UNKNOWN",
     "CANCEL_REQUESTED", "OPEN", "PARTIALLY_FILLED", "FILLED",
     "POSITION_UNPROTECTED", "CANCELLED", "REJECTED", "CLOSED"}

ACTIVE_ORDER_STATES ==
    {"APPROVED", "SUBMITTED", "SUBMISSION_UNKNOWN", "CANCEL_REQUESTED",
     "OPEN", "PARTIALLY_FILLED", "FILLED", "POSITION_UNPROTECTED"}

MANAGED_POSITION_STATES ==
    {"PARTIALLY_FILLED", "FILLED", "POSITION_UNPROTECTED",
     "EXIT_PARTIALLY_FILLED"}

\* ALLOWED_TRANSITIONS.get(state, set()): the targets transition_order accepts.
ALLOWED_TRANSITIONS ==
    [s \in OrderState |->
        CASE s = "PLANNED" -> {}
          [] s = "APPROVED" -> {"SUBMITTED", "REJECTED"}
          [] s \in {"SUBMITTED", "SUBMISSION_UNKNOWN"} ->
                {"SUBMITTED", "SUBMISSION_UNKNOWN", "OPEN", "PARTIALLY_FILLED",
                 "FILLED", "REJECTED", "CANCEL_REQUESTED", "CANCELLED"}
          [] s = "OPEN" ->
                {"OPEN", "PARTIALLY_FILLED", "FILLED", "CANCEL_REQUESTED",
                 "CANCELLED", "REJECTED"}
          [] s = "PARTIALLY_FILLED" ->
                {"PARTIALLY_FILLED", "FILLED", "CANCEL_REQUESTED", "CANCELLED",
                 "POSITION_UNPROTECTED"}
          [] s = "CANCEL_REQUESTED" ->
                {"CANCEL_REQUESTED", "SUBMITTED", "OPEN", "PARTIALLY_FILLED",
                 "FILLED", "POSITION_UNPROTECTED", "CANCELLED", "REJECTED"}
          [] s = "FILLED" -> {"FILLED", "POSITION_UNPROTECTED", "CLOSED"}
          [] s = "POSITION_UNPROTECTED" ->
                {"POSITION_UNPROTECTED", "FILLED", "CLOSED"}
          [] s \in {"CANCELLED", "REJECTED", "CLOSED"} -> {s}]

\* _map_state: the local state an exchange row stands for.  A row is
\* [st, filled] with st one of the exchange's order states; requested is the
\* size the order was placed with.  The comparisons keep the code's order:
\* a cancelled row stays CANCELLED whatever it filled, and a row without a
\* state the code recognises ("other") is SUBMITTED unless its fills decide.
MapState(row, requested) ==
    IF row.st = "canceled" THEN "CANCELLED"
    ELSE IF row.st = "rejected" THEN "REJECTED"
    ELSE IF row.st = "filled" \/ row.filled >= requested THEN "FILLED"
    ELSE IF row.filled > 0 THEN "PARTIALLY_FILLED"
    ELSE IF row.st = "live" THEN "OPEN"
    ELSE "SUBMITTED"
=============================================================================
