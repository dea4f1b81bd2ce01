--------------------------- MODULE StockAllocation ---------------------------
(***************************************************************************)
(* What reservations promise, with no 1C messages, versions, clocks,       *)
(* payments or sweepers: stock is taken for a whole order at once, is      *)
(* taken at most once, comes back in full exactly when the hold ends, and  *)
(* is never given back once the order has been sold; a delivery sets anew  *)
(* what is free, and what the orders have stays theirs.  OrderFulfilment   *)
(* implements this specification.                                          *)
(***************************************************************************)
EXTENDS Integers

CONSTANTS Orders,    \* orders competing for the stock
          Variants,  \* product variants
          Qty,       \* Qty[o][v]: units of v that order o takes
          Stock,     \* Stock[v]: units of v free for sale at the start
          Deliveries \* each says of some variants how many are free from then on

VARIABLES free,      \* free[v]: units that no order holds
          alloc      \* alloc[o]: what the order has of the stock

allocVars == <<free, alloc>>

Init == /\ free = Stock
        /\ alloc = [o \in Orders |-> "none"]

\* Every line of the order is taken, or none is.
Hold(o) == /\ alloc[o] = "none"
           /\ \A v \in Variants : Qty[o][v] <= free[v]
           /\ alloc' = [alloc EXCEPT ![o] = "held"]
           /\ free' = [v \in Variants |-> free[v] - Qty[o][v]]

\* Only a hold comes back, and an order that gave it back never holds again.
Release(o) == /\ alloc[o] = "held"
              /\ alloc' = [alloc EXCEPT ![o] = "released"]
              /\ free' = [v \in Variants |-> free[v] + Qty[o][v]]

Sell(o) == /\ alloc[o] = "held"
           /\ alloc' = [alloc EXCEPT ![o] = "sold"]
           /\ UNCHANGED free

Restock(d) == /\ free' = [v \in Variants |-> IF v \in DOMAIN d THEN d[v] ELSE free[v]]
              /\ UNCHANGED alloc

Next == \/ \E o \in Orders : Hold(o) \/ Release(o) \/ Sell(o)
        \/ \E d \in Deliveries : Restock(d)

Spec == Init /\ [][Next]_allocVars
==============================================================================
