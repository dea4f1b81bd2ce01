----------------------------- MODULE MCOneOrder -----------------------------
(***************************************************************************)
(* One order of two lines, enough time, 1C versions and proofs for         *)
(* extensions, re-verification and every race on one order.                *)
(***************************************************************************)
EXTENDS OrderFulfilmentProperties

MCOrders       == {1}
MCQty          == [o \in MCOrders |-> [v \in Variants |-> IF v = CHOOSE w \in Variants : TRUE
                                                          THEN 2 ELSE 1]]
MCAvailable    == [v \in Variants |-> 2]
MCBaseReserved == [v \in Variants |-> 1]
==============================================================================
