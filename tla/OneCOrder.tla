------------------------------ MODULE OneCOrder ------------------------------
(***************************************************************************)
(* What the site promises 1C about an order, with no inbox, jobs, workers, *)
(* managers' pages, payments, stock or clock: which facts of 1C an order   *)
(* takes, in which state it takes them, and what the site may do to it     *)
(* between two of them.                                                    *)
(*                                                                         *)
(* OrderFulfilment, which has the whole order but lets messages arrive out *)
(* of nowhere, and OneCInbox, which has the way of a message through       *)
(* inbox and workers but of the order only what a message is compared      *)
(* with, both implement this specification: it is where the two meet.      *)
(***************************************************************************)
EXTENDS OrderStateMachine, Integers

CONSTANTS Orders,      \* the orders of the site
          Versions,    \* versions 1C may give to an order
          Deadlines    \* ends of a reservation that 1C may name

VARIABLES exported,    \* 1C knows the order
          status,
          oneCVersion, \* version of the last fact taken, 0: none
          held,        \* the order's goods are reserved
          deadline     \* until when, 0: they never were

sharedVars == <<exported, status, oneCVersion, held, deadline>>

Init == /\ exported = [o \in Orders |-> FALSE]
        /\ status = [o \in Orders |-> "AWAITING_STOCK_CONFIRMATION"]
        /\ oneCVersion = [o \in Orders |-> 0]
        /\ held = [o \in Orders |-> FALSE]
        /\ deadline = [o \in Orders |-> 0]

Becomes(o, to) == status' = [status EXCEPT ![o] = to]

\* 1C is told of an order once.
Export(o) == /\ ~exported[o]
             /\ exported' = [exported EXCEPT ![o] = TRUE]
             /\ UNCHANGED <<status, oneCVersion, held, deadline>>

\* A fact is only taken of an order that 1C knows, and only if it is newer
\* than the last one taken.
Take(o, n) == /\ exported[o]
              /\ n > oneCVersion[o]
              /\ oneCVersion' = [oneCVersion EXCEPT ![o] = n]
              /\ UNCHANGED exported

\* The goods are reserved, once and before anything else is known of them ...
Reserve(o, d) ==
    /\ status[o] = "AWAITING_STOCK_CONFIRMATION"
    /\ oneCVersion[o] = 0 /\ ~held[o] /\ deadline[o] = 0
    /\ Becomes(o, "AWAITING_PAYMENT")
    /\ held' = [held EXCEPT ![o] = TRUE]
    /\ deadline' = [deadline EXCEPT ![o] = d]

\* ... for longer, while they are reserved and not paid for ...
Prolong(o, d) ==
    /\ held[o] /\ status[o] \in PayableStatus
    /\ d > deadline[o]
    /\ deadline' = [deadline EXCEPT ![o] = d]
    /\ UNCHANGED <<status, held>>

\* ... and paid for, while they are reserved, or to the site's knowledge
\* already.
Pay(o) ==
    /\ held[o] /\ status[o] \in PayableStatus \cup {"PAID"}
    /\ Becomes(o, "PAID")
    /\ UNCHANGED <<held, deadline>>

\* Customers and managers move a reserved order along the table, and managers
\* cancel any; neither takes the goods' reservation from it.  These statuses
\* are the only ones the site gives an order by itself.
SiteStatus == PayableStatus \cup PaidStatus \cup {"CANCELLED_BY_STORE"}

SiteMoves(o) ==
    \E to \in SiteStatus :
        /\ Becomes(o, to)
        /\ to # "CANCELLED_BY_STORE" => held[o]
        /\ \E source \in {"ADMIN", "STOREFRONT"} :
              IsOrderTransitionAllowed(status[o], to, source)
        /\ UNCHANGED <<exported, oneCVersion, held, deadline>>

\* The reservation ends, and with it the order.
Expire(o) ==
    /\ held[o] /\ status[o] \in PayableStatus
    /\ Becomes(o, "RESERVATION_EXPIRED")
    /\ held' = [held EXCEPT ![o] = FALSE]
    /\ UNCHANGED <<exported, oneCVersion, deadline>>

OneCStep(o) ==
    \/ Export(o)
    \/ /\ \E n \in Versions : Take(o, n)
       /\ \/ \E d \in Deadlines : Reserve(o, d) \/ Prolong(o, d)
          \/ Pay(o)

Next == \E o \in Orders : OneCStep(o) \/ SiteMoves(o) \/ Expire(o)

Spec == Init /\ [][Next]_sharedVars
==============================================================================
