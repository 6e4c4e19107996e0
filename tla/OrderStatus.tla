---------------------------- MODULE OrderStatus ----------------------------
(***************************************************************************)
(* The order state machine of internal/domain/order/order.go: the states,  *)
(* the transition table, and the predicates the services consult.  The     *)
(* table is data in the source and data here.  "NONE" is not a state of    *)
(* the source: it stands for an order row that has not been inserted.      *)
(***************************************************************************)

Status ==
  {"DRAFT", "PENDING_PAYMENT", "AWAITING_VERIFICATION", "PAID", "ACCEPTED",
   "IN_KITCHEN", "READY", "PICKED_UP", "OUT_FOR_DELIVERY", "DELIVERED",
   "COMPLETED", "CANCELLED", "REFUNDED"}

\* The states a legal transition may lead to.
Transitions(from) ==
  CASE from = "DRAFT"                 -> {"PENDING_PAYMENT", "CANCELLED"}
    [] from = "PENDING_PAYMENT"       -> {"AWAITING_VERIFICATION", "CANCELLED"}
    [] from = "AWAITING_VERIFICATION" -> {"PAID", "PENDING_PAYMENT", "CANCELLED"}
    [] from = "PAID"                  -> {"ACCEPTED", "CANCELLED", "REFUNDED"}
    [] from = "ACCEPTED"              -> {"IN_KITCHEN", "CANCELLED", "REFUNDED"}
    [] from = "IN_KITCHEN"            -> {"READY", "CANCELLED", "REFUNDED"}
    [] from = "READY"                 -> {"PICKED_UP", "OUT_FOR_DELIVERY",
                                          "CANCELLED", "REFUNDED"}
    [] from = "PICKED_UP"             -> {"COMPLETED", "REFUNDED"}
    [] from = "OUT_FOR_DELIVERY"      -> {"DELIVERED", "CANCELLED", "REFUNDED"}
    [] from = "DELIVERED"             -> {"COMPLETED", "REFUNDED"}
    [] from = "COMPLETED"             -> {"REFUNDED"}
    [] OTHER                          -> {}

CanTransition(from, to) == to \in Transitions(from)

\* Waiting for money: the states the partial index idx_orders_open_unique_code
\* covers and the unpaid cap counts.
Unpaid == {"PENDING_PAYMENT", "AWAITING_VERIFICATION"}

VisibleToKitchen == {"ACCEPTED", "IN_KITCHEN", "READY"}

CustomerCancellable ==
  {"DRAFT", "PENDING_PAYMENT", "AWAITING_VERIFICATION", "PAID", "ACCEPTED"}

\* Mutant: the counter records refunds without the payment.
AdvanceTargetsRefund == {"IN_KITCHEN", "READY", "PICKED_UP", "COMPLETED", "REFUNDED"}

\* The targets of opssvc.Advance: what the kitchen and the counter may set.
AdvanceTargets == {"IN_KITCHEN", "READY", "PICKED_UP", "COMPLETED"}
=============================================================================
