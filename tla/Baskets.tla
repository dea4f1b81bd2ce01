-------------------------------- MODULE Baskets --------------------------------
(***************************************************************************)
(* What a shop promises of carts: a cart is edited alone, a purchase takes *)
(* everything that is in one cart, a guest's cart goes away only when all  *)
(* it holds has moved to the customer's, and it is not used after that.    *)
(***************************************************************************)
EXTENDS Naturals

CONSTANTS Variants, Carts, Customer, Keys

VARIABLES
    basket,  \* pieces of each variant in each cart
    gone,    \* carts that were merged
    bought   \* purchases: the cart, the key of the request, the goods

NoGoods == [v \in Variants |-> 0]

Init == /\ basket = [c \in Carts |-> NoGoods]
        /\ gone = {}
        /\ bought = {}

Change(c) == /\ c \notin gone
             /\ \A d \in Carts \ {c} : basket'[d] = basket[d]
             /\ UNCHANGED <<gone, bought>>

Buy(c) == \E k \in Keys :
    /\ c \notin gone
    /\ basket[c] # NoGoods
    /\ \A b \in bought : b.cart = c => b.key # k
    /\ bought' = bought \cup {[cart |-> c, key |-> k, goods |-> basket[c]]}
    /\ basket' = [basket EXCEPT ![c] = NoGoods]
    /\ UNCHANGED gone

Merge(c) == /\ c \notin gone \cup {Customer}
            /\ gone' = gone \cup {c}
            /\ basket' = [basket EXCEPT
                            ![c] = NoGoods,
                            ![Customer] = [v \in Variants |-> @[v] + basket[c][v]]]
            /\ UNCHANGED bought

Next == \E c \in Carts : Change(c) \/ Buy(c) \/ Merge(c)

Spec == Init /\ [][Next]_<<basket, gone, bought>>
================================================================================
