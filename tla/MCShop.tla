-------------------------------- MODULE MCShop --------------------------------
(***************************************************************************)
(* One variant, a customer and a guest's cart, one tab whose requests may  *)
(* overtake each other.  The stock may fall short of what is asked for,    *)
(* the price may change, with or without an old price, and the variant may *)
(* be taken off sale.                                                      *)
(***************************************************************************)
EXTENDS ShopProperties, TLC

Of(price, available) == [sold |-> TRUE, price |-> price, old |-> 0, available |-> available,
                         backorder |-> FALSE, minimum |-> 1, multiple |-> 1]

MCOffers == {Of(10, 2), [Of(12, 1) EXCEPT !.old = 15], [Of(10, 2) EXCEPT !.sold = FALSE]}

MCSymmetry == Permutations(Attempts) \cup Permutations(Keys)
===============================================================================
