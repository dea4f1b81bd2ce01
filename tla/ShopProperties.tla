---------------------------- MODULE ShopProperties ----------------------------
(***************************************************************************)
(* What carts and checkout must get right while tabs, a login, lost        *)
(* answers and the catalogue interfere.                                    *)
(***************************************************************************)
EXTENDS Shop, Functions

\* These lines are those on the screen, but for old prices that are gone.
AsShown(lines, shown) ==
    \A v \in Variants : /\ lines[v].quantity = shown[v].quantity
                        /\ lines[v].price = shown[v].price
                        /\ lines[v].old \in {shown[v].old, 0}

\* An order contains what the customer had on the screen when submitting it, at
\* the prices shown, whatever happened to cart and catalogue since then.  It may
\* lack an old price that was shown (what the discount is counted from): one that
\* had been withdrawn when the cart was validated for that screen.
BuysWhatWasShown == \A o \in orders : AsShown(o.lines, o.shown)

\* No state of a cart is ordered twice, with one key or with two.
RevisionIsOrderedOnce ==
    \A o, p \in orders : o.cart = p.cart /\ o.payload.revision = p.payload.revision => o = p

\* Pieces of v in all carts, and in all orders.
InCarts(v) == SumFunction([c \in Carts |-> carts[c].items[v].quantity])
Ordered(v) == SumFunction([o \in orders |-> o.lines[v].quantity])

\* No merge, repetition, retry or order makes goods out of nothing: what is in
\* carts and orders was asked for.
NothingFromNothing == \A v \in Variants : InCarts(v) + Ordered(v) <= asked[v]

\* A validated cart stays as it is until the catalogue changes: otherwise the
\* answer to a checkout would be a changed cart for ever.
ReviewSettles ==
    \A c \in Carts : ~ \E v \in Variants : /\ InCart(carts[c].items, v)
                                           /\ Material(Validated(carts[c].items)[v], offer[v])

Pieces(lines) == [v \in Variants |-> lines[v].quantity]

Baskets == INSTANCE Baskets WITH
    basket <- [c \in Carts |-> Pieces(carts[c].items)],
    gone   <- {c \in Carts : carts[c].state = "deleted"},
    bought <- {[cart |-> o.cart, key |-> o.key, goods |-> Pieces(o.lines)] : o \in orders}

\* An order takes a whole cart and leaves none of it, a merge moves a whole cart,
\* a merged cart stays empty, and nothing else touches two carts or an order.
ImplementsBaskets == Baskets!Spec
===============================================================================
