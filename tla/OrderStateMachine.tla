-------------------------- MODULE OrderStateMachine --------------------------
(***************************************************************************)
(* The order life cycle as apps/api/src/orders/order-state-machine.ts      *)
(* declares it: a table of moves, each with the sources allowed to make    *)
(* it.  Constant-level, so that the stateful modules can share it and      *)
(* theorems can be proved about it alone.                                  *)
(***************************************************************************)

OrderStatus ==
    {"DRAFT", "CREATED", "AWAITING_STOCK_CONFIRMATION", "AWAITING_PAYMENT",
     "PAYMENT_VERIFICATION", "PAID", "ASSEMBLING", "READY_FOR_PICKUP",
     "COMPLETED", "RETURN_REQUESTED", "RETURNED", "CANCELLED_BY_CUSTOMER",
     "CANCELLED_BY_STORE", "RESERVATION_EXPIRED"}

StatusSource == {"STOREFRONT", "ADMIN", "ONE_C", "SYSTEM"}

AnyInternalSource == {"ADMIN", "ONE_C", "SYSTEM"}
StoreOrCustomer   == {"ADMIN", "ONE_C", "STOREFRONT"}
StoreStaff        == {"ADMIN", "ONE_C"}

\* The moves out of  from  to  to  for every source in  sources.
Move(from, to, sources) == {<<from, to, source>> : source \in sources}

\* Both statuses in which the customer may still pay leave in the same ways.
PayableMoves(from) ==
    Move(from, "PAID", StoreStaff)
    \cup Move(from, "CANCELLED_BY_CUSTOMER", {"STOREFRONT"})
    \cup Move(from, "CANCELLED_BY_STORE", StoreStaff)
    \cup Move(from, "RESERVATION_EXPIRED", {"ONE_C", "SYSTEM"})

CancelBeforeStock(from) ==
    Move(from, "CANCELLED_BY_CUSTOMER", {"STOREFRONT"})
    \cup Move(from, "CANCELLED_BY_STORE", AnyInternalSource)

OrderTransitions ==
    Move("DRAFT", "CREATED", {"STOREFRONT", "SYSTEM"})
    \cup Move("CREATED", "AWAITING_STOCK_CONFIRMATION", {"STOREFRONT", "SYSTEM"})
    \cup CancelBeforeStock("CREATED")
    \cup Move("AWAITING_STOCK_CONFIRMATION", "AWAITING_PAYMENT", {"ONE_C"})
    \cup CancelBeforeStock("AWAITING_STOCK_CONFIRMATION")
    \cup Move("AWAITING_PAYMENT", "PAYMENT_VERIFICATION", {"STOREFRONT"})
    \cup PayableMoves("AWAITING_PAYMENT")
    \cup Move("PAYMENT_VERIFICATION", "AWAITING_PAYMENT", StoreStaff)
    \cup PayableMoves("PAYMENT_VERIFICATION")
    \cup Move("PAID", "ASSEMBLING", StoreStaff)
    \cup Move("PAID", "RETURN_REQUESTED", StoreOrCustomer)
    \cup Move("ASSEMBLING", "READY_FOR_PICKUP", StoreStaff)
    \cup Move("ASSEMBLING", "RETURN_REQUESTED", StoreStaff)
    \cup Move("READY_FOR_PICKUP", "COMPLETED", StoreStaff)
    \cup Move("READY_FOR_PICKUP", "RETURN_REQUESTED", StoreOrCustomer)
    \cup Move("COMPLETED", "RETURN_REQUESTED", StoreOrCustomer)
    \cup Move("RETURN_REQUESTED", "RETURNED", StoreStaff)

IsOrderTransitionAllowed(from, to, source) ==
    <<from, to, source>> \in OrderTransitions

------------------------------------------------------------------------------
\* Groups of statuses that the policies of the services test for.

PayableStatus   == {"AWAITING_PAYMENT", "PAYMENT_VERIFICATION"}
PaidStatus      == {"PAID", "ASSEMBLING", "READY_FOR_PICKUP", "COMPLETED"}
CancelledStatus == {"CANCELLED_BY_CUSTOMER", "CANCELLED_BY_STORE"}
==============================================================================
