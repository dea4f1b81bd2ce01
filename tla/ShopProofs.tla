------------------------------ MODULE ShopProofs ------------------------------
(***************************************************************************)
(* Theorems about Shop for every catalogue, any number of carts, tabs and  *)
(* requests, and every bound.                                              *)
(***************************************************************************)
EXTENDS ShopProperties, SumTheorems

-------------------------------------------------------------------------------
(* Quantities                                                               *)

\* Rounding down gives a number that is not larger.
LEMMA RoundsDown ==
    ASSUME NEW q \in Nat, NEW o \in Offer
    PROVE  RoundDown(q, o) \in Nat /\ RoundDown(q, o) <= q
  <1>1. o.multiple \in Nat \ {0}
    BY DEF Offer
  <1>2. ASSUME NEW m \in Nat \ {0}
        PROVE  (q \div m) * m \in Nat /\ (q \div m) * m <= q
    <2>1. q = m * (q \div m) + (q % m) /\ q \div m \in Nat /\ q % m \in Nat
      BY <1>2
    <2> QED
      BY <2>1
  <1> QED
    BY <1>1, <1>2 DEF RoundDown

\* Rounding up gives a number.
LEMMA RoundsUp == \A q \in Nat, o \in Offer : RoundUp(q, o) \in Nat
  <1> SUFFICES ASSUME NEW q \in Nat, NEW o \in Offer PROVE RoundUp(q, o) \in Nat
    OBVIOUS
  <1>1. o.multiple \in Nat \ {0}
    BY DEF Offer
  <1>2. ASSUME NEW m \in Nat \ {0}
        PROVE  ((q + m - 1) \div m) * m \in Nat
    <2>1. (q + m - 1) \div m \in Nat
      BY <1>2
    <2> QED
      BY <2>1
  <1> QED
    BY <1>1, <1>2 DEF RoundUp

\* What can be sold is a number, at most what is asked and what there is.
LEMMA Sells ==
    ASSUME NEW q \in Nat, NEW o \in Offer
    PROVE  /\ GreatestValid(q, o) \in Nat
           /\ GreatestValid(q, o) <= o.available
           /\ GreatestValid(q, o) <= q
           /\ ResolveStock(q, o) \in Nat
  <1>1. o.available \in Nat /\ o.minimum \in Nat \ {0}
    BY DEF Offer
  <1>2. /\ Lesser(q, o.available) \in Nat
        /\ Lesser(q, o.available) <= o.available /\ Lesser(q, o.available) <= q
    BY <1>1 DEF Lesser
  <1>3. /\ RoundDown(Lesser(q, o.available), o) \in Nat
        /\ RoundDown(Lesser(q, o.available), o) <= Lesser(q, o.available)
    BY <1>2, RoundsDown
  <1> QED
    BY <1>1, <1>2, <1>3 DEF GreatestValid, ResolveStock

\* A repetition brings a line to a number, and to more than it had.
LEMMA Repeats ==
    ASSUME NEW held \in Nat, NEW again \in Nat, NEW o \in Offer
    PROVE  /\ RepeatTotal(held, again, o) \in Nat
           /\ RepeatTotal(held, again, o) > 0 => RepeatTotal(held, again, o) > held
  <1>1. o.available \in Nat /\ o.minimum \in Nat \ {0}
    BY DEF Offer
  <1>2. Greater(held + again, o.minimum) \in Nat
    BY <1>1 DEF Greater
  <1>3. RoundUp(Greater(held + again, o.minimum), o) \in Nat
    BY <1>2, RoundsUp
  <1>4. RoundDown(o.available, o) \in Nat
    BY <1>1, RoundsDown
  <1> QED
    BY <1>1, <1>3, <1>4 DEF RepeatTotal, Lesser

-------------------------------------------------------------------------------
(* Validation                                                               *)

\* A line without pieces holds nothing else.
Clean(items) == \A v \in Variants : ~InCart(items, v) => items[v] = Nothing

\* An inspected line is a line, it needs no second inspection, and it is as
\* it was if nothing about it was material.
LEMMA Inspects ==
    ASSUME NEW i \in Item, NEW o \in Offer
    PROVE  /\ Inspected(i, o) \in Item
           /\ ~Material(Inspected(i, o), o)
           /\ i.quantity > 0 => Inspected(i, o).quantity > 0
           /\ ~Material(i, o) => Inspected(i, o) = i
           /\ Displayed(i, o) \in Item
           /\ Displayed(i, o).quantity = Inspected(i, o).quantity
           /\ Displayed(i, o).price = Inspected(i, o).price
           /\ Inspected(i, o).old \in {Displayed(i, o).old, 0}
           /\ ~Material(i, o) => Displayed(i, o) = i
  <1>1. /\ i.quantity \in Nat /\ i.price \in Nat /\ i.old \in Nat
        /\ i = [quantity |-> i.quantity, price |-> i.price, old |-> i.old]
    BY DEF Item
  <1>2. /\ o.price \in Nat /\ o.old \in Nat /\ o.available \in Nat
        /\ o.backorder \in BOOLEAN
    BY DEF Offer
  <1>3. /\ GreatestValid(i.quantity, o) \in Nat
        /\ GreatestValid(i.quantity, o) <= o.available
    BY <1>1, Sells
  <1>4. Inspected(i, o) \in Item
    BY <1>1, <1>2, <1>3 DEF Inspected, Item
  <1>5. ~Adjusted(Inspected(i, o), o)
    <2>1. CASE Adjusted(i, o)
      BY <2>1, <1>1, <1>2, <1>3 DEF Adjusted, Short, Inspected
    <2>2. CASE ~Adjusted(i, o)
      <3>1. Inspected(i, o).quantity = i.quantity
        BY <2>2 DEF Inspected
      <3> QED
        BY <2>2, <3>1 DEF Adjusted, Short
    <2> QED
      BY <2>1, <2>2
  <1>6. ~Repriced(Inspected(i, o), o)
    BY DEF Repriced, Inspected
  <1>7. i.quantity > 0 => Inspected(i, o).quantity > 0
    BY <1>1 DEF Inspected, Adjusted
  <1>8. ~Material(i, o) => Inspected(i, o) = i
    BY <1>1, <1>2 DEF Inspected, Material, Repriced
  <1>9. /\ Displayed(i, o) \in Item
        /\ Displayed(i, o).quantity = Inspected(i, o).quantity
        /\ Displayed(i, o).price = Inspected(i, o).price
        /\ Displayed(i, o).old = IF o.price > 0 /\ o.old > 0 THEN o.old ELSE i.old
    BY <1>1, <1>2, <1>4 DEF Displayed, Item
  <1>10. Inspected(i, o).old \in {Displayed(i, o).old, 0}
    BY <1>1, <1>2, <1>9 DEF Inspected
  <1>11. ~Material(i, o) => Displayed(i, o) = i
    <2> SUFFICES ASSUME ~Material(i, o) PROVE Displayed(i, o) = i
      OBVIOUS
    <2>1. Displayed(i, o).old = i.old
      BY <1>9 DEF Material, Repriced
    <2>2. Displayed(i, o).quantity = i.quantity /\ Displayed(i, o).price = i.price
      BY <1>8, <1>9
    <2> QED
      BY <1>1, <1>9, <2>1, <2>2 DEF Item
  <1> QED
    BY <1>4, <1>5, <1>6, <1>7, <1>8, <1>9, <1>10, <1>11 DEF Material

\* Validated lines are lines, and the same ones if nothing changed.  They agree
\* with what is displayed.
LEMMA Validates ==
    ASSUME offer \in [Variants -> Offers], NEW items \in Lines, Clean(items)
    PROVE  /\ Validated(items) \in Lines
           /\ Clean(Validated(items))
           /\ ~Changed(items) => Validated(items) = items
           /\ Displays(items) \in Lines
           /\ AsShown(Validated(items), Displays(items))
           /\ ~Changed(items) => Displays(items) = items
  <1>1. \A v \in Variants : offer[v] \in Offer /\ items[v] \in Item
    BY DataAssumption DEF Lines
  <1>2. Nothing \in Item /\ ~(Nothing.quantity > 0)
    BY DEF Nothing, Item
  <1>3. Validated(items) \in Lines
    BY <1>1, <1>2, Inspects DEF Validated, Lines
  <1>4. Clean(Validated(items))
    BY <1>1, <1>2, Inspects DEF Validated, Clean, InCart
  <1>5. ASSUME ~Changed(items) PROVE Validated(items) = items
    <2>1. \A v \in Variants : Validated(items)[v] = items[v]
      BY <1>1, <1>5, Inspects DEF Validated, Changed, Clean, InCart
    <2> QED
      BY <2>1, <1>3 DEF Lines
  <1>6. Displays(items) \in Lines
    BY <1>1, <1>2, Inspects DEF Displays, Lines
  <1>7. AsShown(Validated(items), Displays(items))
    BY <1>1, Inspects DEF Validated, Displays, AsShown
  <1>8. ASSUME ~Changed(items) PROVE Displays(items) = items
    <2>1. \A v \in Variants : Displays(items)[v] = items[v]
      BY <1>1, <1>8, Inspects DEF Displays, Changed, Clean, InCart
    <2> QED
      BY <2>1, <1>6 DEF Lines
  <1> QED
    BY <1>3, <1>4, <1>5, <1>6, <1>7, <1>8

-------------------------------------------------------------------------------
(* The inductive invariant                                                  *)

\* What is on a screen or in a request agrees with every cart of its time.
AgreesWith(rows, time, view, revision) ==
    /\ revision <= time
    /\ \A c \in Carts : rows[c].state = "open" /\ rows[c].revision = revision
                          => AsShown(rows[c].items, view)

Agrees(view, revision) == AgreesWith(carts, clock, view, revision)
Agreed(view, revision) == AgreesWith(carts', clock', view, revision)

\* A time belongs to one state of one cart; time 0 is that of new carts.
CartsInv ==
    /\ \A c \in Carts : carts[c].revision <= clock /\ Clean(carts[c].items)
    /\ \A c \in Carts : carts[c].revision = 0 => carts[c].items = Empty
    /\ \A c, d \in Carts : c # d /\ carts[c].revision = carts[d].revision
                              => carts[c].revision = 0

ViewsInv    == \A t \in Tabs : Agrees(tab[t].view.lines, tab[t].view.revision)
AttemptsInv == \A a \in Attempts : Agrees(attempt[a].shown, attempt[a].payload.revision)

\* The time of an order's cart has passed.
OrdersInv == \A o \in orders : o.payload.revision < carts[o.cart].revision

\* A request that is under way has a key, and a cart once it was opened.
RequestsInv ==
    \A a \in Attempts : /\ attempt[a].state \in {"sent", "opened"} => attempt[a].key \in Keys
                        /\ attempt[a].state = "opened" => attempt[a].cart \in Carts

Inv == /\ TypeOK
       /\ CartsInv
       /\ RequestsInv
       /\ ViewsInv
       /\ AttemptsInv
       /\ OrdersInv
       /\ BuysWhatWasShown
       /\ RevisionIsOrderedOnce

-------------------------------------------------------------------------------
(* How carts evolve                                                         *)

\* A row that was used now.
Touched(row) == row \in Cart /\ row.revision = clock + 1 /\ Clean(row.items)

\* The row of a cart that was merged.
Dropped(c, row) == /\ row \in Cart
                   /\ row.state = "deleted"
                   /\ row.revision = carts[c].revision
                   /\ row.items = Empty

\* One cart at most is used in a step, and takes the time of the step.
Evolves ==
    /\ carts' \in [Carts -> Cart]
    /\ clock' \in 0..MaxClock
    /\ \/ carts' = carts /\ clock' = clock
       \/ /\ clock' = clock + 1
          /\ \E c \in Carts :
                /\ Touched(carts'[c])
                /\ \A d \in Carts \ {c} : carts'[d] = carts[d] \/ Dropped(d, carts'[d])

\* Nothing and the empty cart have their types.
LEMMA EmptyType == Nothing \in Item /\ Empty \in Lines /\ Clean(Empty)
  BY DEF Nothing, Item, Empty, Lines, Clean

\* Evolution keeps what is known of carts.
LEMMA EvolvesCarts ==
    ASSUME TypeOK, CartsInv, Evolves
    PROVE  /\ CartsInv'
           /\ \A c \in Carts : carts'[c].revision >= carts[c].revision
           /\ clock' >= clock
  <1>1. carts \in [Carts -> Cart] /\ clock \in Nat
    BY DataAssumption DEF TypeOK
  <1>2. \A c \in Carts : carts[c].revision \in Nat /\ carts'[c].revision \in Nat
    BY <1>1 DEF Evolves, Cart
  <1>3. CASE carts' = carts /\ clock' = clock
    BY <1>1, <1>2, <1>3 DEF CartsInv, Clean, InCart
  <1>4. ASSUME clock' = clock + 1, NEW c \in Carts, Touched(carts'[c]),
               \A d \in Carts \ {c} : carts'[d] = carts[d] \/ Dropped(d, carts'[d])
        PROVE  /\ CartsInv'
               /\ \A d \in Carts : carts'[d].revision >= carts[d].revision
    <2>1. carts'[c].revision = clock + 1 /\ Clean(carts'[c].items)
      BY <1>4 DEF Touched
    <2>2. \A d \in Carts \ {c} : /\ carts'[d].revision = carts[d].revision
                                 /\ carts'[d].items = carts[d].items \/ carts'[d].items = Empty
      BY <1>4 DEF Dropped
    <2>3. \A d \in Carts : carts[d].revision <= clock /\ Clean(carts[d].items)
      BY DEF CartsInv
    <2>4. \A d \in Carts : carts'[d].revision <= clock' /\ Clean(carts'[d].items)
      BY <1>1, <1>2, <1>4, <2>1, <2>2, <2>3, EmptyType
    <2>5. \A d \in Carts : carts'[d].revision = 0 => carts'[d].items = Empty
      BY <1>1, <2>1, <2>2 DEF CartsInv
    <2>6. \A d, e \in Carts : d # e /\ carts'[d].revision = carts'[e].revision
                                 => carts'[d].revision = 0
      BY <1>1, <1>2, <2>1, <2>2, <2>3 DEF CartsInv
    <2>7. \A d \in Carts : carts'[d].revision >= carts[d].revision
      BY <1>1, <1>2, <2>1, <2>2, <2>3
    <2>8. CartsInv'
      BY <2>4, <2>5, <2>6 DEF CartsInv, Clean, InCart, Empty
    <2> QED
      BY <2>7, <2>8
  <1> QED
    BY <1>1, <1>2, <1>3, <1>4 DEF Evolves

\* What agreed with the carts of its time still does.
LEMMA EvolvesAgrees ==
    ASSUME TypeOK, CartsInv, Evolves, NEW view, NEW revision \in Nat, Agrees(view, revision)
    PROVE  Agreed(view, revision)
  <1>1. carts \in [Carts -> Cart] /\ clock \in Nat /\ revision <= clock
    BY DataAssumption DEF TypeOK, Agrees, AgreesWith
  <1>2. CASE carts' = carts /\ clock' = clock
    BY <1>2 DEF Agrees, Agreed, AgreesWith
  <1>3. ASSUME clock' = clock + 1, NEW c \in Carts, Touched(carts'[c]),
               \A d \in Carts \ {c} : carts'[d] = carts[d] \/ Dropped(d, carts'[d])
        PROVE  Agreed(view, revision)
    <2>1. \A d \in Carts : carts'[d].state = "open" /\ carts'[d].revision = revision
                              => carts'[d] = carts[d]
      BY <1>1, <1>3 DEF Touched, Dropped
    <2> QED
      BY <1>1, <1>3, <2>1 DEF Agrees, Agreed, AgreesWith
  <1> QED
    BY <1>2, <1>3 DEF Evolves

\* What shows nothing agrees at any time.
LEMMA EmptyAgrees == CartsInv /\ clock \in Nat => Agrees(Empty, 0)
  BY DEF CartsInv, Agrees, AgreesWith, AsShown

\* A step that leaves tabs, requests and orders alone keeps the invariant if
\* it keeps the types and carts evolve.
LEMMA EvolvesRest ==
    ASSUME Inv, TypeOK', Evolves
    PROVE  /\ CartsInv'
           /\ (tab' = tab => ViewsInv')
           /\ (attempt' = attempt => AttemptsInv' /\ RequestsInv')
           /\ (orders' = orders => OrdersInv' /\ BuysWhatWasShown' /\ RevisionIsOrderedOnce')
  <1>1. /\ CartsInv'
        /\ \A c \in Carts : carts'[c].revision >= carts[c].revision
    BY EvolvesCarts DEF Inv
  <1>2. tab' = tab => ViewsInv'
    <2>1. \A t \in Tabs : tab[t].view.revision \in Nat
      BY DEF Inv, TypeOK, Tab, View
    <2> QED
      BY <2>1, EvolvesAgrees DEF Inv, ViewsInv, Agrees, Agreed
  <1>3. attempt' = attempt => AttemptsInv'
    <2>1. \A a \in Attempts : attempt[a].payload.revision \in Nat
      BY DEF Inv, TypeOK, Attempt, Payload
    <2> QED
      BY <2>1, EvolvesAgrees DEF Inv, AttemptsInv, Agrees, Agreed
  <1>3a. attempt' = attempt => RequestsInv'
    BY DEF Inv, RequestsInv
  <1>4. orders' = orders => OrdersInv'
    <2>1. \A o \in orders : o.cart \in Carts /\ o.payload.revision \in Nat
      BY DEF Inv, TypeOK, Order, Payload
    <2>2. \A c \in Carts : carts[c].revision \in Nat /\ carts'[c].revision \in Nat
      BY DEF Inv, TypeOK, Evolves, Cart
    <2> QED
      BY <1>1, <2>1, <2>2 DEF Inv, OrdersInv
  <1> QED
    BY <1>1, <1>2, <1>3, <1>3a, <1>4 DEF Inv, BuysWhatWasShown, RevisionIsOrderedOnce

-------------------------------------------------------------------------------
(* Edits                                                                    *)

\* One row is used.
LEMMA OneRow ==
    ASSUME TypeOK, NEW c \in Carts, NEW row, Touched(row), clock < MaxClock,
           clock' = clock + 1, carts' = [carts EXCEPT ![c] = row]
    PROVE  Evolves
  <1>1. carts \in [Carts -> Cart] /\ clock \in Nat /\ MaxClock \in Nat
    BY DataAssumption DEF TypeOK
  <1>2. carts'[c] = row /\ \A d \in Carts \ {c} : carts'[d] = carts[d]
    BY <1>1
  <1>3. carts' \in [Carts -> Cart]
    BY <1>1 DEF Touched
  <1> QED
    BY <1>1, <1>2, <1>3 DEF Evolves

\* An edited row is typed and new.
LEMMA EditedRow ==
    ASSUME TypeOK, NEW c \in Carts, NEW items \in Lines, Clean(items)
    PROVE  Touched(Edited(c, items))
  BY DataAssumption DEF TypeOK, Touched, Edited, Cart

\* The cookie of the bearer's cart names a guest's cart.
LEMMA CookieType ==
    ASSUME TypeOK, NEW w, NEW c \in Carts, Opens(w, c)
    PROVE  Cookie(c) \in Guests \cup {NoCart}
  BY DEF TypeOK, Opens, Cookie

\* What is in an opened cart is typed.
LEMMA OpenedItems ==
    ASSUME TypeOK, CartsInv, NEW c \in Carts
    PROVE  Opened(c).items \in Lines /\ Clean(Opened(c).items)
  BY EmptyType DEF TypeOK, CartsInv, Opened, Cart

\* A request that leaves well-typed items keeps the invariant.
LEMMA RequestStep ==
    ASSUME Inv, NEW c \in Carts, NEW items \in Lines, Clean(items), Request(c, items),
           asked' \in [Variants -> 0..MaxAsked]
    PROVE  Inv'
  <1>1. Evolves
    BY OneRow, EditedRow DEF Inv, Request
  <1>2. TypeOK'
    BY <1>1, CookieType DEF Inv, TypeOK, Request, Evolves
  <1> QED
    BY <1>1, <1>2, EvolvesRest DEF Inv, Request

\* Putting pieces into a cart keeps it well typed.
LEMMA Puts ==
    ASSUME offer \in [Variants -> Offers], NEW items \in Lines, Clean(items),
           NEW v \in Variants, NEW q \in Nat \ {0}
    PROVE  Put(items, v, q) \in Lines /\ Clean(Put(items, v, q))
  <1>1. offer[v] \in Offer
    BY DataAssumption
  <1>2. offer[v].price \in Nat /\ offer[v].old \in Nat
    BY <1>1 DEF Offer
  <1> DEFINE line == IF InCart(items, v) THEN [items[v] EXCEPT !.quantity = q]
                     ELSE [quantity |-> q, price |-> offer[v].price, old |-> offer[v].old]
  <1>3. line \in Item /\ line.quantity = q
    BY <1>2 DEF Lines, Item
  <1>4. Put(items, v, q) = [items EXCEPT ![v] = line]
    BY DEF Put, Lines
  <1> HIDE DEF line
  <1> QED
    BY <1>3, <1>4 DEF Lines, Clean, InCart

\* The count of what was asked for keeps its type.
LEMMA AsksType ==
    ASSUME TypeOK, NEW v \in Variants, NEW before \in Nat, NEW after \in Nat,
           Asks(v, before, after)
    PROVE  asked' \in [Variants -> 0..MaxAsked]
  BY DataAssumption DEF TypeOK, Asks

\* Adding an item keeps the invariant.
LEMMA AddItemStep ==
    ASSUME Inv, NEW c \in Carts, NEW v \in Variants, NEW q \in Quantities, AddItem(c, v, q)
    PROVE  Inv'
  <1> DEFINE items  == Opened(c).items
             wanted == items[v].quantity + q
             sold   == ResolveStock(wanted, offer[v])
  <1>1. items \in Lines /\ Clean(items)
    BY OpenedItems DEF Inv
  <1>2. items[v].quantity \in Nat /\ wanted \in Nat
    BY <1>1, DataAssumption DEF Lines, Item
  <1>3. offer \in [Variants -> Offers] /\ offer[v] \in Offer
    BY DataAssumption DEF Inv, TypeOK
  <1>4. sold \in Nat \ {0}
    <2> HIDE DEF wanted
    <2>1. sold \in Nat
      BY <1>2, <1>3, Sells
    <2> QED
      BY <2>1 DEF AddItem, Sellable, wanted
  <1>5. /\ Request(c, Put(items, v, sold))
        /\ Asks(v, items[v].quantity, sold)
    BY DEF AddItem
  <1> HIDE DEF items, wanted, sold
  <1>6. Put(items, v, sold) \in Lines /\ Clean(Put(items, v, sold))
    BY <1>1, <1>3, <1>4, Puts
  <1>7. asked' \in [Variants -> 0..MaxAsked]
    BY <1>2, <1>4, <1>5, AsksType DEF Inv
  <1> QED
    BY <1>5, <1>6, <1>7, RequestStep

\* Changing a quantity keeps the invariant.
LEMMA UpdateItemStep ==
    ASSUME Inv, NEW c \in Carts, NEW v \in Variants, NEW q \in Quantities, UpdateItem(c, v, q)
    PROVE  Inv'
  <1> DEFINE items == Opened(c).items
             sold  == ResolveStock(q, offer[v])
  <1>1. items \in Lines /\ Clean(items)
    BY OpenedItems DEF Inv
  <1>2. items[v].quantity \in Nat /\ q \in Nat
    BY <1>1, DataAssumption DEF Lines, Item
  <1>3. offer \in [Variants -> Offers] /\ offer[v] \in Offer
    BY DataAssumption DEF Inv, TypeOK
  <1>4. sold \in Nat \ {0}
    <2>1. sold \in Nat
      BY <1>2, <1>3, Sells
    <2> QED
      BY <2>1 DEF UpdateItem, Sellable
  <1>5. /\ Request(c, Put(items, v, sold))
        /\ Asks(v, items[v].quantity, sold)
    BY DEF UpdateItem
  <1> HIDE DEF items, sold
  <1>6. Put(items, v, sold) \in Lines /\ Clean(Put(items, v, sold))
    BY <1>1, <1>3, <1>4, Puts
  <1>7. asked' \in [Variants -> 0..MaxAsked]
    BY <1>2, <1>4, <1>5, AsksType DEF Inv
  <1> QED
    BY <1>5, <1>6, <1>7, RequestStep

\* Removing an item and clearing a cart keep the invariant.
LEMMA RemoveStep ==
    ASSUME Inv, NEW c \in Carts,
           ClearCart(c) \/ \E v \in Variants : RemoveItem(c, v)
    PROVE  Inv'
  <1>1. asked' \in [Variants -> 0..MaxAsked]
    BY DEF Inv, TypeOK, ClearCart, RemoveItem
  <1>2. CASE ClearCart(c)
    BY <1>1, <1>2, RequestStep, EmptyType DEF ClearCart
  <1>3. ASSUME NEW v \in Variants, RemoveItem(c, v) PROVE Inv'
    <2> DEFINE items == [Opened(c).items EXCEPT ![v] = Nothing]
    <2>1. Opened(c).items \in Lines /\ Clean(Opened(c).items)
      BY OpenedItems DEF Inv
    <2>2. items \in Lines /\ Clean(items)
      BY <2>1, EmptyType DEF Lines, Clean, InCart
    <2>3. Request(c, items)
      BY <1>3 DEF RemoveItem
    <2> QED
      BY <1>1, <2>2, <2>3, RequestStep
  <1> QED
    BY <1>2, <1>3

-------------------------------------------------------------------------------
(* Validation, merge, catalogue                                             *)

\* A row with new items and a new time.
LEMMA RowUpdate ==
    ASSUME NEW row \in Cart, NEW time, NEW items
    PROVE  [row EXCEPT !.items = items, !.revision = time]
              = [state |-> row.state, revision |-> time, items |-> items]
  <1> DEFINE half == [row EXCEPT !.items = items]
  <1>1. half = [state |-> row.state, revision |-> row.revision, items |-> items]
    BY DEF Cart
  <1> HIDE DEF half
  <1>2. [half EXCEPT !.revision = time]
           = [state |-> row.state, revision |-> time, items |-> items]
    BY <1>1
  <1> QED
    BY <1>2 DEF half

\* The validation changes no status.
LEMMA RevisedState ==
    ASSUME NEW c \in Carts, carts[c] \in Cart
    PROVE  Revised(c).state = carts[c].state
  <1>1. CASE Changed(carts[c].items)
    <2>1. Revised(c) = [carts[c] EXCEPT !.items = Validated(@), !.revision = clock + 1]
      BY <1>1 DEF Revised
    <2>2. Revised(c) = [state |-> carts[c].state, revision |-> clock + 1,
                        items |-> Validated(carts[c].items)]
      BY <2>1, RowUpdate
    <2> QED
      BY <2>2
  <1>2. CASE ~Changed(carts[c].items)
    BY <1>2 DEF Revised
  <1> QED
    BY <1>1, <1>2

\* What the validation leaves is typed, and what it shows agrees with it.
LEMMA ReviseStep ==
    ASSUME TypeOK, CartsInv, NEW c \in Carts, Exists(c), Ticks(c) <= MaxClock,
           carts' = [carts EXCEPT ![c] = Revised(c)], clock' = Ticks(c)
    PROVE  /\ Evolves
           /\ Shown(c) \in View
           /\ Agreed(Shown(c).lines, Shown(c).revision)
  <1>1. /\ carts \in [Carts -> Cart] /\ clock \in Nat /\ MaxClock \in Nat /\ clock <= MaxClock
        /\ offer \in [Variants -> Offers]
    BY DataAssumption DEF TypeOK
  <1>2. /\ carts[c].items \in Lines /\ Clean(carts[c].items) /\ carts[c].revision \in Nat
        /\ carts[c].revision <= clock
    BY <1>1 DEF Cart, CartsInv
  <1>3. /\ Validated(carts[c].items) \in Lines
        /\ Clean(Validated(carts[c].items))
        /\ ~Changed(carts[c].items) => Validated(carts[c].items) = carts[c].items
        /\ Displays(carts[c].items) \in Lines
        /\ AsShown(Validated(carts[c].items), Displays(carts[c].items))
        /\ ~Changed(carts[c].items) => Displays(carts[c].items) = carts[c].items
    BY <1>1, <1>2, Validates
  <1> DEFINE lines == Validated(carts[c].items)
             shown == Displays(carts[c].items)
  <1>4. CASE Changed(carts[c].items)
    <2>1. Ticks(c) = clock + 1
      BY <1>4 DEF Ticks
    <2>1a. Revised(c) = [state |-> carts[c].state, revision |-> clock + 1, items |-> lines]
      <3>1. Revised(c) = [carts[c] EXCEPT !.items = Validated(@), !.revision = clock + 1]
        BY <1>4 DEF Revised
      <3>2. carts[c] \in Cart
        BY <1>1
      <3> QED
        BY <3>1, <3>2, RowUpdate
    <2>2. Touched(Revised(c)) /\ Revised(c).items = lines /\ Revised(c).revision = clock + 1
      <3>1. carts[c].state \in {"unused", "open", "deleted"} /\ clock + 1 \in Nat
        BY <1>1 DEF Cart
      <3> HIDE DEF lines
      <3> QED
        BY <1>3, <2>1a, <3>1 DEF Touched, Cart, lines
    <2>3. Evolves
      <3>1. clock < MaxClock /\ clock' = clock + 1
        BY <1>1, <2>1
      <3> QED
        BY <2>2, <3>1, OneRow
    <2>4. /\ Shown(c) = [revision |-> clock + 1, lines |-> shown,
                         ready |-> CanCheckout(carts[c].items)]
          /\ CanCheckout(carts[c].items) \in BOOLEAN
      BY <2>2 DEF Shown, CanCheckout
    <2>5. \A d \in Carts \ {c} : carts'[d].revision <= clock
      BY <1>1 DEF CartsInv
    <2>6. carts'[c] = Revised(c) /\ carts'[c].items = lines
      BY <1>1, <2>2
    <2>7. \A d \in Carts : carts'[d].revision = clock + 1 => AsShown(carts'[d].items, shown)
      <3>1. \A d \in Carts : carts'[d].revision \in Nat
        BY <2>3 DEF Evolves, Cart
      <3>2. AsShown(lines, shown)
        BY <1>3
      <3> HIDE DEF lines, shown
      <3> QED
        BY <1>1, <2>5, <2>6, <3>1, <3>2
    <2>8. clock' = clock + 1
      BY <2>1
    <2>9. Agreed(shown, clock + 1)
      <3>1. clock' \in Nat
        BY <1>1, <2>8
      <3> QED
        BY <1>1, <2>7, <2>8, <3>1 DEF Agreed, AgreesWith
    <2> QED
      BY <1>1, <1>3, <2>3, <2>4, <2>9 DEF View
  <1>5. CASE ~Changed(carts[c].items)
    <2>1. Revised(c) = carts[c] /\ Ticks(c) = clock
      BY <1>5 DEF Revised, Ticks
    <2>2. carts' = carts /\ clock' = clock
      BY <1>1, <2>1
    <2>3. Evolves
      BY <1>1, <2>2 DEF Evolves
    <2>4. /\ Shown(c) = [revision |-> carts[c].revision, lines |-> carts[c].items,
                         ready |-> CanCheckout(carts[c].items)]
          /\ CanCheckout(carts[c].items) \in BOOLEAN
      BY <1>3, <1>5, <2>1 DEF Shown, CanCheckout
    <2>5. Agrees(carts[c].items, carts[c].revision)
      <3>1. \A d \in Carts : carts[d].revision = carts[c].revision
                                => AsShown(carts[d].items, carts[c].items)
        BY DEF CartsInv, AsShown
      <3> QED
        BY <1>2, <3>1 DEF Agrees, AgreesWith
    <2> QED
      BY <1>2, <2>2, <2>3, <2>4, <2>5 DEF View, Agrees, Agreed
  <1> QED
    BY <1>4, <1>5

\* Looking at a cart, and being refused before an order, keep the invariant.
LEMMA LookStep ==
    ASSUME Inv, NEW c \in Carts, NEW t \in Tabs,
           (\E f \in Forms : SubmitRefused(t, c, f)) \/ \E arrives \in BOOLEAN : LookAtCart(t, c, arrives)
    PROVE  Inv'
  <1>1. /\ Exists(c) /\ Ticks(c) <= MaxClock
        /\ carts' = [carts EXCEPT ![c] = Revised(c)] /\ clock' = Ticks(c)
        /\ UNCHANGED <<offer, session, cookie, attempt, orders, repeats, asked>>
        /\ tab' = tab \/ tab' = [tab EXCEPT ![t].view = Shown(c)]
    <2>1. CASE \E f \in Forms : SubmitRefused(t, c, f)
      BY <2>1 DEF SubmitRefused
    <2>2. ASSUME NEW arrives \in BOOLEAN, LookAtCart(t, c, arrives)
          PROVE  tab' = tab \/ tab' = [tab EXCEPT ![t].view = Shown(c)]
      <3>1. CASE arrives
        BY <2>2, <3>1 DEF LookAtCart
      <3>2. CASE ~arrives
        <4>1. tab' = [tab EXCEPT ![t].view = tab[t].view]
          BY <2>2, <3>2 DEF LookAtCart
        <4> QED
          BY <4>1 DEF Inv, TypeOK, Tab
      <3> QED
        BY <3>1, <3>2
    <2> QED
      BY <2>1, <2>2 DEF LookAtCart
  <1>2. /\ Evolves
        /\ Shown(c) \in View
        /\ Agreed(Shown(c).lines, Shown(c).revision)
    BY <1>1, ReviseStep DEF Inv
  <1>3. TypeOK'
    BY <1>1, <1>2 DEF Inv, TypeOK, Evolves, Tab
  <1>4. /\ CartsInv' /\ AttemptsInv' /\ RequestsInv'
        /\ OrdersInv' /\ BuysWhatWasShown' /\ RevisionIsOrderedOnce'
        /\ tab' = tab => ViewsInv'
    BY <1>1, <1>2, <1>3, EvolvesRest
  <1>5. ASSUME tab' = [tab EXCEPT ![t].view = Shown(c)], NEW u \in Tabs
        PROVE  Agreed(tab'[u].view.lines, tab'[u].view.revision)
    <2>1. CASE u = t
      <3>1. tab'[u].view = Shown(c)
        BY <1>5, <2>1 DEF Inv, TypeOK, Tab
      <3> QED
        BY <1>2, <3>1
    <2>2. CASE u # t
      <3>1. tab'[u] = tab[u] /\ tab[u].view.revision \in Nat
        BY <1>5, <2>2 DEF Inv, TypeOK, Tab, View
      <3> QED
        BY <1>2, <3>1, EvolvesAgrees DEF Inv, ViewsInv
    <2> QED
      BY <2>1, <2>2
  <1> QED
    BY <1>1, <1>3, <1>4, <1>5 DEF Inv, ViewsInv, Agrees, Agreed

\* The joined lines are lines.
LEMMA Joins ==
    ASSUME NEW mine \in Lines, NEW guests \in Lines, Clean(mine), Clean(guests)
    PROVE  Joined(mine, guests) \in Lines /\ Clean(Joined(mine, guests))
  <1>1. ASSUME NEW v \in Variants
        PROVE  Joined(mine, guests)[v] \in Item
               /\ (~InCart(Joined(mine, guests), v) => Joined(mine, guests)[v] = Nothing)
    <2>1. mine[v] \in Item /\ guests[v] \in Item
      BY DEF Lines
    <2>2. CASE InCart(mine, v)
      <3>1. Joined(mine, guests)[v]
               = [mine[v] EXCEPT !.quantity = mine[v].quantity + guests[v].quantity]
        BY <2>2 DEF Joined
      <3>2. /\ mine[v].quantity + guests[v].quantity \in Nat
            /\ mine[v].quantity + guests[v].quantity > 0
        BY <2>1, <2>2 DEF Item, InCart
      <3> QED
        BY <2>1, <3>1, <3>2 DEF Item, InCart
    <2>3. CASE ~InCart(mine, v)
      BY <2>1, <2>3 DEF Joined, InCart, Clean
    <2> QED
      BY <2>2, <2>3
  <1> QED
    BY <1>1 DEF Joined, Lines, Clean

\* Merging keeps the invariant.
LEMMA MergeStep ==
    ASSUME Inv, NEW arrives \in BOOLEAN, MergeCarts(arrives)
    PROVE  Inv'
  <1> DEFINE mine   == carts[Customer].items
             guests == carts[cookie].items
             row    == Edited(Customer, Joined(mine, guests))
  <1>1. /\ carts \in [Carts -> Cart] /\ clock \in Nat /\ MaxClock \in Nat
        /\ cookie \in Guests /\ cookie \in Carts /\ Customer \in Carts /\ cookie # Customer
    BY DataAssumption, NamesAssumption DEF Inv, TypeOK, MergeCarts, Mergeable, Carts
  <1>2. mine \in Lines /\ guests \in Lines /\ Clean(mine) /\ Clean(guests)
    BY <1>1 DEF Inv, CartsInv, Cart
  <1>3. Touched(row)
    BY <1>1, <1>2, Joins, EditedRow DEF Inv
  <1>4. Dropped(cookie, Deleted(cookie))
    BY <1>1, EmptyType DEF Dropped, Deleted, Cart
  <1>5. carts' = [[carts EXCEPT ![cookie] = Deleted(cookie)] EXCEPT ![Customer] = row]
    BY <1>1 DEF MergeCarts
  <1> HIDE DEF row
  <1>6. /\ carts'[Customer] = row
        /\ carts'[cookie] = Deleted(cookie)
        /\ \A d \in Carts \ {Customer, cookie} : carts'[d] = carts[d]
        /\ carts' \in [Carts -> Cart]
    BY <1>1, <1>3, <1>4, <1>5 DEF Touched, Dropped
  <1>7. Evolves
    BY <1>1, <1>3, <1>4, <1>6 DEF Evolves, MergeCarts
  <1>8. TypeOK'
    BY <1>1, <1>7 DEF Inv, TypeOK, MergeCarts, Evolves
  <1> QED
    BY <1>7, <1>8, EvolvesRest DEF Inv, MergeCarts

\* Nothing happens to carts.
LEMMA CartsStay == TypeOK /\ carts' = carts /\ clock' = clock => Evolves
  BY DEF TypeOK, Evolves

\* A login and a change of the catalogue keep the invariant.
LEMMA OutsideStep ==
    ASSUME Inv, Login \/ \E v \in Variants, o \in Offers : ChangeOffer(v, o)
    PROVE  Inv'
  <1>1. /\ UNCHANGED <<carts, clock, tab, attempt, orders>>
        /\ TypeOK'
    BY DEF Login, ChangeOffer, Inv, TypeOK
  <1>2. Evolves
    BY <1>1, CartsStay DEF Inv
  <1> QED
    BY <1>1, <1>2, EvolvesRest DEF Inv

-------------------------------------------------------------------------------
(* Requests for an order                                                    *)

\* The payload and the request of nothing are typed.
LEMMA UnsentType == NoPayload \in Payload /\ Unsent \in Attempt
  <1>1. AnyForm \in Forms
    BY DataAssumption DEF AnyForm
  <1> QED
    BY <1>1, EmptyType DEF NoPayload, Payload, Unsent, Bare, Attempt

\* A request sent with what a tab shows keeps the invariant.
LEMMA SendStep ==
    ASSUME Inv, NEW t \in Tabs, NEW a \in Attempts, NEW k \in Keys, NEW form \in Forms,
           Send(t, a, k, form),
           UNCHANGED <<offer, carts, clock, session, cookie, orders, repeats, asked>>
    PROVE  Inv'
  <1> DEFINE payload == [revision |-> tab[t].view.revision, form |-> form]
             sent    == [state |-> "sent", key |-> k, payload |-> payload,
                         shown |-> tab[t].view.lines, cart |-> Bearer]
  <1>1. Bearer \in Carts \cup {NoCart}
    BY DEF Inv, TypeOK, Bearer, Carts
  <1>2. tab[t].view \in View /\ payload \in Payload
    BY DEF Inv, TypeOK, Tab, View, Payload
  <1>3. sent \in Attempt
    BY <1>1, <1>2 DEF Attempt, View
  <1> DEFINE row == [view |-> tab[t].view, key |-> k, payload |-> payload, waiting |-> a]
  <1>4. attempt' = [attempt EXCEPT ![a] = sent]
    BY DEF Send
  <1>5. tab' = [tab EXCEPT ![t] = row]
    BY DEF Send
  <1>6. row \in Tab
    BY <1>2 DEF Tab
  <1>7. TypeOK'
    <2> HIDE DEF row, sent
    <2> QED
      BY <1>3, <1>4, <1>5, <1>6 DEF Inv, TypeOK
  <1>8. \A u \in Tabs : tab'[u].view = tab[u].view
    BY <1>5 DEF Inv, TypeOK
  <1>9. Evolves
    BY CartsStay DEF Inv
  <1>10. /\ CartsInv' /\ OrdersInv' /\ BuysWhatWasShown' /\ RevisionIsOrderedOnce'
    BY <1>7, <1>9, EvolvesRest
  <1>11. ViewsInv'
    BY <1>8 DEF Inv, ViewsInv, Agrees, AgreesWith
  <1>12. AttemptsInv'
    <2>1. Agrees(sent.shown, sent.payload.revision)
      BY DEF Inv, ViewsInv
    <2>2. attempt'[a] = sent /\ \A b \in Attempts \ {a} : attempt'[b] = attempt[b]
      BY <1>4 DEF Inv, TypeOK
    <2> HIDE DEF sent
    <2> QED
      BY <2>1, <2>2 DEF Inv, AttemptsInv, Agrees, AgreesWith
  <1>13. RequestsInv'
    <2>1. sent.key \in Keys /\ sent.state = "sent"
      OBVIOUS
    <2>2. attempt'[a] = sent /\ \A b \in Attempts \ {a} : attempt'[b] = attempt[b]
      BY <1>4 DEF Inv, TypeOK
    <2> HIDE DEF sent
    <2> QED
      BY <2>1, <2>2 DEF Inv, RequestsInv
  <1> QED
    BY <1>7, <1>10, <1>11, <1>12, <1>13 DEF Inv

\* Submitting, submitting again and giving up keep the invariant.
LEMMA BrowserStep ==
    ASSUME Inv, NEW t \in Tabs,
           \/ \E c \in Carts, a \in Attempts, k \in Keys, f \in Forms : Submit(t, c, a, k, f)
           \/ \E a \in Attempts, f \in Forms : Resubmit(t, a, f)
           \/ TimeOut(t)
    PROVE  Inv'
  <1>1. ASSUME NEW c \in Carts, NEW a \in Attempts, NEW k \in Keys, NEW f \in Forms,
               Submit(t, c, a, k, f)
        PROVE  Inv'
    BY <1>1, SendStep DEF Submit
  <1>2. ASSUME NEW a \in Attempts, NEW f \in Forms, Resubmit(t, a, f) PROVE Inv'
    <2>1. tab[t].key \in Keys
      BY <1>2 DEF Resubmit, Resends, Inv, TypeOK, Tab
    <2> QED
      BY <1>2, <2>1, SendStep DEF Resubmit
  <1>3. CASE TimeOut(t)
    <2>1. TypeOK' /\ \A u \in Tabs : tab'[u].view = tab[u].view
      BY <1>3 DEF TimeOut, Inv, TypeOK, Tab
    <2>2. Evolves
      BY <1>3, CartsStay DEF TimeOut, Inv
    <2>3. /\ CartsInv' /\ AttemptsInv' /\ RequestsInv'
          /\ OrdersInv' /\ BuysWhatWasShown' /\ RevisionIsOrderedOnce'
      BY <1>3, <2>1, <2>2, EvolvesRest DEF TimeOut
    <2>4. ViewsInv'
      BY <1>3, <2>1 DEF TimeOut, Inv, ViewsInv, Agrees, AgreesWith
    <2> QED
      BY <2>1, <2>3, <2>4 DEF Inv
  <1> QED
    BY <1>1, <1>2, <1>3

\* An answer leaves tabs and requests typed, and changes no view.
LEMMA AnswerStep ==
    ASSUME TypeOK, NEW a \in Attempts, NEW answer, NEW arrives \in BOOLEAN,
           Answer(a, answer, arrives)
    PROVE  /\ tab' \in [Tabs -> Tab]
           /\ \A t \in Tabs : tab'[t].view = tab[t].view
           /\ attempt' \in [Attempts -> Attempt]
           /\ attempt'[a].state = "done" /\ attempt'[a].shown = Empty
           /\ attempt'[a].payload.revision = 0
           /\ \A b \in Attempts \ {a} : attempt'[b] = attempt[b]
  <1> DEFINE row == Bare("done", attempt[a].key)
  <1>2. attempt[a].key \in Keys \cup {NoKey}
    BY DEF TypeOK, Attempt
  <1>3. row \in Attempt
    BY <1>2, UnsentType, EmptyType DEF Attempt, Bare
  <1>4. attempt' = [attempt EXCEPT ![a] = row]
    BY DEF Answer
  <1>5. /\ attempt' \in [Attempts -> Attempt]
        /\ attempt'[a].state = "done" /\ attempt'[a].shown = Empty
        /\ attempt'[a].payload.revision = 0
        /\ \A b \in Attempts \ {a} : attempt'[b] = attempt[b]
    <2>1. row.state = "done" /\ row.shown = Empty /\ row.payload.revision = 0
      BY DEF NoPayload, Bare
    <2> HIDE DEF row
    <2> QED
      BY <1>3, <1>4, <2>1 DEF TypeOK
  <1>6. ASSUME NEW t \in Tabs
        PROVE  Heard(a, answer)[t] \in Tab /\ Heard(a, answer)[t].view = tab[t].view
    <2>1. tab[t] \in Tab
      BY DEF TypeOK
    <2>2. CASE tab[t].waiting # a
      BY <2>1, <2>2 DEF Heard
    <2>3. CASE tab[t].waiting = a /\ answer = "error"
      BY <2>1, <2>3 DEF Heard, Tab
    <2>4. CASE tab[t].waiting = a /\ answer # "error"
      <3>1. Heard(a, answer)[t] = [view |-> tab[t].view, key |-> NoKey,
                                   payload |-> NoPayload, waiting |-> NoAttempt]
        BY <2>4 DEF Heard
      <3> QED
        BY <2>1, <3>1, UnsentType DEF Tab
    <2> QED
      BY <2>2, <2>3, <2>4
  <1>7. tab' \in [Tabs -> Tab] /\ \A t \in Tabs : tab'[t].view = tab[t].view
    <2>1. CASE arrives
      <3>1. tab' = Heard(a, answer)
        BY <2>1 DEF Answer
      <3>2. Heard(a, answer) = [t \in Tabs |-> Heard(a, answer)[t]]
        BY DEF Heard
      <3> QED
        BY <1>6, <3>1, <3>2
    <2>2. CASE ~arrives
      BY <2>2 DEF Answer, TypeOK
    <2> QED
      BY <2>1, <2>2
  <1> QED
    BY <1>5, <1>7

\* A request that ends, while carts evolve, keeps what is known of tabs and
\* requests.
LEMMA EndStep ==
    ASSUME Inv, Evolves, NEW a \in Attempts, NEW answer, NEW arrives \in BOOLEAN,
           Answer(a, answer, arrives)
    PROVE  CartsInv' /\ ViewsInv' /\ AttemptsInv' /\ RequestsInv'
  <1>1. /\ \A t \in Tabs : tab'[t].view = tab[t].view /\ tab[t].view.revision \in Nat
        /\ attempt'[a].state = "done" /\ attempt'[a].shown = Empty
        /\ attempt'[a].payload.revision = 0
        /\ \A b \in Attempts \ {a} : attempt'[b] = attempt[b]
        /\ \A b \in Attempts : attempt[b].payload.revision \in Nat
    BY AnswerStep DEF Inv, TypeOK, Tab, View, Attempt, Payload
  <1>2. CartsInv' /\ clock' \in Nat
    BY EvolvesCarts, DataAssumption DEF Inv, Evolves
  <1>3. ViewsInv'
    <2>1. \A t \in Tabs : Agreed(tab[t].view.lines, tab[t].view.revision)
      BY <1>1, EvolvesAgrees DEF Inv, ViewsInv
    <2> QED
      BY <1>1, <2>1 DEF ViewsInv, Agrees, Agreed
  <1>4. AttemptsInv'
    <2>1. \A b \in Attempts \ {a} : Agreed(attempt'[b].shown, attempt'[b].payload.revision)
      BY <1>1, EvolvesAgrees DEF Inv, AttemptsInv
    <2>2. Agreed(Empty, 0)
      BY <1>2 DEF CartsInv, Agreed, AgreesWith, Empty, AsShown
    <2> QED
      BY <1>1, <2>1, <2>2 DEF AttemptsInv, Agrees, Agreed
  <1>5. RequestsInv'
    BY <1>1 DEF Inv, RequestsInv
  <1> QED
    BY <1>2, <1>3, <1>4, <1>5

\* Opening a cart that may be new is evolution.
LEMMA OpenRow ==
    ASSUME TypeOK, CartsInv, NEW c \in Carts,
           carts[c].state = "unused" => clock < MaxClock,
           clock' = IF carts[c].state = "unused" THEN clock + 1 ELSE clock,
           carts' = [carts EXCEPT ![c] = Opened(c)]
    PROVE  Evolves
  <1>1. CASE carts[c].state = "unused"
    <2>1. Touched(Opened(c))
      BY <1>1, DataAssumption, EmptyType DEF TypeOK, Touched, Opened, Cart
    <2> QED
      BY <1>1, <2>1, OneRow
  <1>2. CASE carts[c].state # "unused"
    <2>1. carts' = carts /\ clock' = clock
      BY <1>2 DEF Opened, TypeOK
    <2> QED
      BY <2>1, CartsStay
  <1> QED
    BY <1>1, <1>2

\* Opening the cart of a request keeps the invariant.
LEMMA OpenCheckoutStep ==
    ASSUME Inv, NEW a \in Attempts, NEW c \in Carts, NEW arrives \in BOOLEAN,
           OpenCheckout(a, c, arrives)
    PROVE  Inv'
  <1>1. Evolves
    BY OpenRow DEF Inv, OpenCheckout
  <1>2. cookie' \in Guests \cup {NoCart}
    BY CookieType DEF Inv, OpenCheckout
  <1>3. ASSUME NEW answer, Answer(a, answer, arrives) PROVE Inv'
    <2>1. TypeOK'
      BY <1>1, <1>2, <1>3, AnswerStep DEF Inv, TypeOK, OpenCheckout, Evolves
    <2>2. OrdersInv' /\ BuysWhatWasShown' /\ RevisionIsOrderedOnce'
      BY <1>1, <2>1, EvolvesRest DEF OpenCheckout
    <2> QED
      BY <1>1, <1>3, <2>1, <2>2, EndStep DEF Inv
  <1>4. CASE tab' = tab
             /\ attempt' = [attempt EXCEPT ![a].state = "opened", ![a].cart = c]
    <2> DEFINE half == [attempt[a] EXCEPT !.state = "opened"]
               row  == [half EXCEPT !.cart = c]
    <2>1. attempt[a] \in Attempt /\ attempt[a].state = "sent"
      BY DEF Inv, TypeOK, OpenCheckout
    <2>2. /\ half \in Attempt /\ half.state = "opened" /\ half.key = attempt[a].key
          /\ half.shown = attempt[a].shown /\ half.payload = attempt[a].payload
      BY <2>1 DEF Attempt
    <2> HIDE DEF half
    <2>3. /\ row \in Attempt /\ row.state = "opened" /\ row.key = half.key
          /\ row.shown = half.shown /\ row.payload = half.payload /\ row.cart = c
      BY <2>2 DEF Attempt
    <2>4. attempt' = [attempt EXCEPT ![a] = row]
      BY <1>4 DEF Inv, TypeOK, half
    <2> HIDE DEF row
    <2>5. /\ attempt'[a] = row
          /\ \A b \in Attempts \ {a} : attempt'[b] = attempt[b]
          /\ attempt' \in [Attempts -> Attempt]
      BY <2>3, <2>4 DEF Inv, TypeOK
    <2>6. TypeOK'
      BY <1>1, <1>2, <1>4, <2>5 DEF Inv, TypeOK, OpenCheckout, Evolves
    <2>7. CartsInv' /\ ViewsInv' /\ OrdersInv' /\ BuysWhatWasShown' /\ RevisionIsOrderedOnce'
      BY <1>1, <1>4, <2>6, EvolvesRest DEF OpenCheckout
    <2>8. AttemptsInv'
      <3>1. \A b \in Attempts : /\ attempt'[b].shown = attempt[b].shown
                                /\ attempt'[b].payload = attempt[b].payload
                                /\ attempt[b].payload.revision \in Nat
        BY <2>2, <2>3, <2>5 DEF Inv, TypeOK, Attempt, Payload
      <3>2. \A b \in Attempts : Agreed(attempt[b].shown, attempt[b].payload.revision)
        BY <1>1, <3>1, EvolvesAgrees DEF Inv, AttemptsInv
      <3> QED
        BY <3>1, <3>2 DEF AttemptsInv, Agrees, Agreed
    <2>9. RequestsInv'
      BY <2>1, <2>2, <2>3, <2>5 DEF Inv, RequestsInv
    <2> QED
      BY <2>6, <2>7, <2>8, <2>9 DEF Inv
  <1> QED
    BY <1>3, <1>4 DEF OpenCheckout

\* A request that finds its order, or no cart, keeps the invariant.
LEMMA ReplayStep ==
    ASSUME Inv, NEW a \in Attempts, NEW arrives \in BOOLEAN, ReplayOrder(a, arrives)
    PROVE  Inv'
  <1>1. PICK answer : Answer(a, answer, arrives)
    BY DEF ReplayOrder
  <1>2. Evolves
    BY CartsStay DEF Inv, ReplayOrder
  <1>3. TypeOK'
    BY <1>1, AnswerStep DEF Inv, TypeOK, ReplayOrder
  <1>4. OrdersInv' /\ BuysWhatWasShown' /\ RevisionIsOrderedOnce'
    BY <1>2, <1>3, EvolvesRest DEF ReplayOrder
  <1> QED
    BY <1>1, <1>2, <1>3, <1>4, EndStep DEF Inv

\* A refused order keeps the invariant.
LEMMA RefuseStep ==
    ASSUME Inv, NEW a \in Attempts, NEW arrives \in BOOLEAN, RefuseOrder(a, arrives)
    PROVE  Inv'
  <1> DEFINE c == attempt[a].cart
  <1>1. c \in Carts
    BY DEF Inv, RequestsInv, RefuseOrder
  <1>2. Evolves
    BY <1>1, ReviseStep DEF Inv, RefuseOrder
  <1>3. Answer(a, "refusal", arrives)
    BY DEF RefuseOrder
  <1>4. TypeOK'
    BY <1>2, <1>3, AnswerStep DEF Inv, TypeOK, RefuseOrder, Evolves
  <1>5. OrdersInv' /\ BuysWhatWasShown' /\ RevisionIsOrderedOnce'
    BY <1>2, <1>4, EvolvesRest DEF RefuseOrder
  <1> QED
    BY <1>2, <1>3, <1>4, <1>5, EndStep DEF Inv

\* An order is created from a cart that is as it was shown.
LEMMA OrdersWhatIsThere ==
    ASSUME Inv, NEW a \in Attempts, NEW arrives \in BOOLEAN, CreateOrder(a, arrives)
    PROVE  /\ attempt[a].cart \in Carts
           /\ Exists(attempt[a].cart)
           /\ Displays(carts[attempt[a].cart].items) = carts[attempt[a].cart].items
           /\ AsShown(carts[attempt[a].cart].items, attempt[a].shown)
           /\ attempt[a].payload.revision = carts[attempt[a].cart].revision
           /\ Emptied(attempt[a].cart)
                = [state |-> "open", revision |-> clock + 1, items |-> Empty]
  <1> DEFINE c == attempt[a].cart
  <1>1. c \in Carts /\ Exists(c) /\ ~Changed(carts[c].items)
    BY DEF Inv, RequestsInv, CreateOrder, Accepts
  <1>2. carts[c] \in Cart /\ carts[c].items \in Lines /\ Clean(carts[c].items)
    BY <1>1 DEF Inv, TypeOK, CartsInv, Cart
  <1>3. Displays(carts[c].items) = carts[c].items
    BY <1>1, <1>2, Validates DEF Inv, TypeOK
  <1>4. attempt[a].payload.revision = carts[c].revision
    BY <1>1 DEF CreateOrder, Accepts, Shown, Revised
  <1>5. AsShown(carts[c].items, attempt[a].shown)
    BY <1>1, <1>4 DEF Inv, AttemptsInv, Agrees, AgreesWith, Exists
  <1>6. Emptied(c) = [state |-> "open", revision |-> clock + 1, items |-> Empty]
    BY <1>1, <1>2, RowUpdate DEF Emptied, Exists
  <1> QED
    BY <1>1, <1>3, <1>4, <1>5, <1>6

\* A created order keeps the invariant: its cart is used, and no order had
\* the time of the cart.
LEMMA CreateStep ==
    ASSUME Inv, NEW a \in Attempts, NEW arrives \in BOOLEAN, CreateOrder(a, arrives)
    PROVE  Inv'
  <1> DEFINE c     == attempt[a].cart
             items == carts[c].items
             new   == [cart |-> c, key |-> attempt[a].key, payload |-> attempt[a].payload,
                       lines |-> Displays(items), shown |-> attempt[a].shown]
  <1>1. /\ c \in Carts /\ Displays(items) = items /\ AsShown(items, attempt[a].shown)
        /\ items \in Lines
        /\ attempt[a].payload.revision = carts[c].revision
        /\ Emptied(c) = [state |-> "open", revision |-> clock + 1, items |-> Empty]
    BY OrdersWhatIsThere DEF Inv, TypeOK, Cart
  <1>2. clock < MaxClock /\ clock' = clock + 1 /\ carts' = [carts EXCEPT ![c] = Emptied(c)]
    BY DEF CreateOrder
  <1>3. Touched(Emptied(c))
    BY <1>1, EmptyType, DataAssumption DEF Inv, TypeOK, Touched, Cart
  <1>4. Evolves
    BY <1>1, <1>2, <1>3, OneRow DEF Inv
  <1>5. Answer(a, "order", arrives)
    BY DEF CreateOrder
  <1>6. /\ new \in Order /\ new.cart = c /\ AsShown(new.lines, new.shown)
        /\ new.payload.revision = carts[c].revision
    <2>1. /\ attempt[a].key \in Keys /\ attempt[a].payload \in Payload
          /\ attempt[a].shown \in Lines
      BY DEF Inv, TypeOK, RequestsInv, Attempt, CreateOrder
    <2> QED
      BY <1>1, <2>1 DEF Order
  <1>7. orders' = orders \cup {new}
    BY DEF CreateOrder
  <1> HIDE DEF new
  <1>8. TypeOK'
    BY <1>4, <1>5, <1>6, <1>7, AnswerStep DEF Inv, TypeOK, CreateOrder, Evolves
  <1>9. CartsInv' /\ ViewsInv' /\ AttemptsInv' /\ RequestsInv'
    BY <1>4, <1>5, EndStep
  <1>10. \A o \in orders' : /\ o.cart \in Carts /\ o.payload.revision \in Nat
                            /\ o.payload.revision <= carts[o.cart].revision
                            /\ o # new /\ o.cart = c => o.payload.revision < carts[c].revision
    <2>1. \A o \in orders' : o.cart \in Carts /\ o.payload.revision \in Nat
      BY <1>8 DEF TypeOK, Order, Payload
    <2>2. \A d \in Carts : carts[d].revision \in Nat
      BY DEF Inv, TypeOK, Cart
    <2> QED
      BY <1>6, <1>7, <2>1, <2>2 DEF Inv, OrdersInv
  <1>11. OrdersInv'
    <2>1. /\ carts'[c].revision = clock + 1 /\ carts[c].revision <= clock
          /\ \A d \in Carts \ {c} : carts'[d] = carts[d]
          /\ clock \in Nat /\ \A d \in Carts : carts[d].revision \in Nat
      BY <1>1, <1>2, DataAssumption DEF Inv, TypeOK, CartsInv, Cart
    <2>2. ASSUME NEW o \in orders'
          PROVE  o.payload.revision < carts'[o.cart].revision
      <3>1. CASE o.cart = c
        BY <1>10, <2>1, <3>1
      <3>2. CASE o.cart # c
        BY <1>6, <1>7, <1>10, <2>1, <3>2 DEF Inv, OrdersInv
      <3> QED
        BY <3>1, <3>2
    <2> QED
      BY <2>2 DEF OrdersInv
  <1>12. BuysWhatWasShown'
    BY <1>6, <1>7 DEF Inv, BuysWhatWasShown
  <1>13. RevisionIsOrderedOnce'
    BY <1>6, <1>7, <1>10 DEF Inv, RevisionIsOrderedOnce
  <1> QED
    BY <1>8, <1>9, <1>11, <1>12, <1>13 DEF Inv

-------------------------------------------------------------------------------
(* Repeated orders                                                          *)

\* What a repetition puts into the cart is typed and not less than it held.
LEMMA AddedType ==
    ASSUME Inv, NEW o \in orders, NEW v \in Variants
    PROVE  /\ Added(o, v) \in Nat
           /\ carts[Customer].items[v] \in Item
           /\ Added(o, v) > 0 => Added(o, v) > carts[Customer].items[v].quantity
  <1>1. carts[Customer].items[v] \in Item /\ o.lines[v] \in Item /\ offer[v] \in Offer
    BY DataAssumption DEF Inv, TypeOK, Carts, Cart, Order, Lines
  <1>2. carts[Customer].items[v].quantity \in Nat /\ o.lines[v].quantity \in Nat
    BY <1>1 DEF Item
  <1>3. CASE InCart(o.lines, v)
    <2>1. Added(o, v) = RepeatTotal(carts[Customer].items[v].quantity, o.lines[v].quantity,
                                    offer[v])
      BY <1>3 DEF Added
    <2> QED
      BY <1>1, <1>2, <2>1, Repeats
  <1>4. CASE ~InCart(o.lines, v)
    BY <1>1, <1>4 DEF Added
  <1> QED
    BY <1>3, <1>4

\* A repeated order keeps the invariant.
LEMMA RepeatStep ==
    ASSUME Inv, NEW o \in orders, NEW k \in Keys, RepeatOrder(o, k)
    PROVE  Inv'
  <1>1. /\ UNCHANGED <<offer, session, cookie, tab, attempt, orders>>
        /\ Customer \in Carts
    BY DEF RepeatOrder, Carts
  <1>2. asked' \in [Variants -> 0..MaxAsked]
    <2>1. CASE asked' = asked
      BY <2>1 DEF Inv, TypeOK
    <2>2. CASE asked' = [v \in Variants |-> IF Added(o, v) > 0
                           THEN asked[v] + Added(o, v) - carts[Customer].items[v].quantity
                           ELSE asked[v]]
      <3>1. ASSUME NEW v \in Variants PROVE asked'[v] \in 0..MaxAsked
        <4>1. /\ asked[v] \in 0..MaxAsked /\ MaxAsked \in Nat
              /\ carts[Customer].items[v].quantity \in Nat
          BY AddedType, DataAssumption DEF Inv, TypeOK, Item
        <4>2. asked'[v] <= MaxAsked
          BY DEF RepeatOrder
        <4> QED
          BY <2>2, <4>1, <4>2, AddedType
      <3> QED
        BY <2>2, <3>1
    <2> QED
      BY <2>1, <2>2 DEF RepeatOrder
  <1>3. repeats' \subseteq [key : Keys, order : Order]
    BY DEF Inv, TypeOK, RepeatOrder
  <1>4. Evolves
    <2>1. CASE carts' = carts /\ clock' = clock
      BY <2>1, CartsStay DEF Inv
    <2>2. CASE /\ clock < MaxClock /\ clock' = clock + 1
               /\ carts' = [carts EXCEPT ![Customer] = Edited(Customer, WithOrder(o))]
      <3>1. ASSUME NEW v \in Variants
            PROVE  /\ WithOrder(o)[v] \in Item
                   /\ ~InCart(WithOrder(o), v) => WithOrder(o)[v] = Nothing
        <4>1. /\ Added(o, v) \in Nat /\ carts[Customer].items[v] \in Item
              /\ offer[v].price \in Nat /\ offer[v].old \in Nat
          BY AddedType, DataAssumption DEF Inv, TypeOK, Offer
        <4>2. Clean(carts[Customer].items)
          BY <1>1 DEF Inv, CartsInv
        <4>3. CASE Added(o, v) > 0
          BY <4>1, <4>3 DEF WithOrder, Item, InCart
        <4>4. CASE ~(Added(o, v) > 0)
          <5>1. WithOrder(o)[v] = carts[Customer].items[v]
            BY <4>4 DEF WithOrder
          <5> QED
            BY <4>1, <4>2, <5>1 DEF Clean, InCart
        <4> QED
          BY <4>3, <4>4
      <3>2. WithOrder(o) \in Lines /\ Clean(WithOrder(o))
        BY <3>1 DEF WithOrder, Lines, Clean
      <3>3. Touched(Edited(Customer, WithOrder(o)))
        BY <1>1, <3>2, EditedRow DEF Inv
      <3> QED
        BY <1>1, <2>2, <3>3, OneRow DEF Inv
    <2> QED
      BY <2>1, <2>2 DEF RepeatOrder
  <1>5. TypeOK'
    BY <1>1, <1>2, <1>3, <1>4 DEF Inv, TypeOK, Evolves
  <1> QED
    BY <1>1, <1>4, <1>5, EvolvesRest DEF Inv

-------------------------------------------------------------------------------
(* The theorems                                                             *)

\* The invariant holds initially.
LEMMA InitInv == Init => Inv
  <1> SUFFICES ASSUME Init PROVE Inv
    OBVIOUS
  <1>1. Blank \in View /\ Blank.lines = Empty /\ Blank.revision = 0
    BY EmptyType DEF Blank, View
  <1>2. TypeOK
    <2>1. carts \in [Carts -> Cart]
      BY EmptyType DEF Init, Cart
    <2>2. tab \in [Tabs -> Tab] /\ attempt \in [Attempts -> Attempt]
      BY <1>1, UnsentType DEF Init, Tab
    <2>3. clock \in 0..MaxClock /\ asked \in [Variants -> 0..MaxAsked]
      BY DataAssumption DEF Init
    <2> QED
      BY <2>1, <2>2, <2>3 DEF Init, TypeOK
  <1>3. CartsInv
    BY EmptyType DEF Init, CartsInv
  <1>4. Agrees(Empty, 0)
    BY DEF Init, Agrees, AgreesWith, AsShown
  <1>5. ViewsInv /\ AttemptsInv /\ RequestsInv
    BY <1>1, <1>4 DEF Init, ViewsInv, AttemptsInv, RequestsInv, Unsent, Bare, NoPayload
  <1> QED
    BY <1>2, <1>3, <1>5 DEF Init, Inv, OrdersInv, BuysWhatWasShown, RevisionIsOrderedOnce

\* Every step keeps the invariant.
LEMMA NextInv == Inv /\ [Next]_vars => Inv'
  <1> SUFFICES ASSUME Inv, [Next]_vars PROVE Inv'
    OBVIOUS
  <1>1. ASSUME NEW c \in Carts, EditCart(c) PROVE Inv'
    BY <1>1, AddItemStep, UpdateItemStep, RemoveStep DEF EditCart
  <1>2. ASSUME NEW t \in Tabs, Browse(t) PROVE Inv'
    BY <1>2, LookStep, BrowserStep DEF Browse
  <1>3. ASSUME NEW a \in Attempts, Serve(a) PROVE Inv'
    BY <1>3, OpenCheckoutStep, ReplayStep, RefuseStep, CreateStep DEF Serve
  <1>4. CASE Others
    BY <1>4, OutsideStep, MergeStep, RepeatStep DEF Others
  <1>5. CASE UNCHANGED vars
    <2>1. TypeOK' /\ UNCHANGED <<carts, clock, tab, attempt, orders>>
      BY <1>5 DEF vars, Inv, TypeOK
    <2>2. Evolves
      BY <2>1, CartsStay DEF Inv
    <2> QED
      BY <2>1, <2>2, EvolvesRest DEF Inv
  <1> QED
    BY <1>1, <1>2, <1>3, <1>4, <1>5 DEF Next

\* The invariant holds in every reachable state.
LEMMA AlwaysInv == Spec => []Inv
  BY InitInv, NextInv, PTL DEF Spec

\* The variables of the shop keep their types (prisma models Cart, CartItem,
\* Order): quantities stay numbers through rounding, merging and repeating.
THEOREM ShopTypeCorrect == Spec => []TypeOK
  <1>1. Inv => TypeOK
    BY DEF Inv
  <1> QED
    BY <1>1, AlwaysInv, PTL

\* CreateOrder orders what the customer saw, at the quantities and prices on the
\* screen: the comparison of the cart's time in createInTransaction is enough,
\* because every edit takes a new time.  Only an old price may be gone, which the
\* screen still showed when the catalogue had withdrawn it.
THEOREM CheckoutSafe == Spec => []BuysWhatWasShown
  <1>1. Inv => BuysWhatWasShown
    BY DEF Inv
  <1> QED
    BY <1>1, AlwaysInv, PTL

\* No state of a cart is ordered twice, whatever keys the requests carry.
THEOREM OrderedOnce == Spec => []RevisionIsOrderedOnce
  <1>1. Inv => RevisionIsOrderedOnce
    BY DEF Inv
  <1> QED
    BY <1>1, AlwaysInv, PTL

\* inspectItem leaves nothing for the next validation to change.
THEOREM ReviewTerminates == Spec => []ReviewSettles
  <1>1. Inv => ReviewSettles
    <2> SUFFICES ASSUME Inv, NEW c \in Carts, NEW v \in Variants, InCart(carts[c].items, v)
                 PROVE  ~Material(Validated(carts[c].items)[v], offer[v])
      BY DEF ReviewSettles
    <2>1. carts[c].items[v] \in Item /\ offer[v] \in Offer
      BY DataAssumption DEF Inv, TypeOK, Cart, Lines
    <2>2. Validated(carts[c].items)[v] = Inspected(carts[c].items[v], offer[v])
      BY DEF Validated
    <2> QED
      BY <2>1, <2>2, Inspects
  <1> QED
    BY <1>1, AlwaysInv, PTL

-------------------------------------------------------------------------------
(* Refinement                                                               *)

Basket == [c \in Carts |-> Pieces(carts[c].items)]
Gone   == {c \in Carts : carts[c].state = "deleted"}
Goods(o) == [cart |-> o.cart, key |-> o.key, goods |-> Pieces(o.lines)]
Bought == {Goods(o) : o \in orders}

\* The mapping of the instance.
LEMMA Mapping ==
    /\ Basket = [c \in Carts |-> Pieces(carts[c].items)]
    /\ Gone = {c \in Carts : carts[c].state = "deleted"}
    /\ Bought = {[cart |-> o.cart, key |-> o.key, goods |-> Pieces(o.lines)] : o \in orders}
  BY DEF Basket, Gone, Bought, Goods

\* The customer's cart is never merged away.
CustomerStays == carts[Customer].state = "open"

\* Every step keeps the customer's cart.
LEMMA CustomerNext == Inv /\ CustomerStays /\ [Next]_vars => CustomerStays'
  <1> SUFFICES ASSUME Inv, CustomerStays, [Next]_vars PROVE CustomerStays'
    OBVIOUS
  <1>1. /\ Customer \in Carts /\ carts \in [Carts -> Cart]
        /\ carts[Customer].state = "open"
    BY DEF Inv, TypeOK, Carts, CustomerStays
  <1>2. ASSUME NEW c \in Carts, NEW row, row.state = "open" \/ row.state = carts[c].state,
               carts' = [carts EXCEPT ![c] = row]
        PROVE  CustomerStays'
    BY <1>1, <1>2 DEF CustomerStays
  <1>3. ASSUME NEW c \in Carts, carts' = [carts EXCEPT ![c] = Revised(c)]
        PROVE  CustomerStays'
    <2>1. Revised(c).state = carts[c].state
      BY <1>1, RevisedState
    <2> QED
      BY <1>2, <1>3, <2>1
  <1>4. ASSUME NEW c \in Carts, EditCart(c) PROVE CustomerStays'
    <2>1. PICK items : carts' = [carts EXCEPT ![c] = Edited(c, items)]
      BY <1>4 DEF EditCart, AddItem, UpdateItem, RemoveItem, ClearCart, Request
    <2>2. Edited(c, items).state = "open"
      BY DEF Edited
    <2> QED
      BY <1>2, <2>1, <2>2
  <1>5. ASSUME NEW t \in Tabs, Browse(t) PROVE CustomerStays'
    BY <1>3, <1>5, <1>1 DEF Browse, LookAtCart, SubmitRefused, Submit, Resubmit, TimeOut,
                            CustomerStays
  <1>6. ASSUME NEW a \in Attempts, NEW c \in Carts, NEW arrives \in BOOLEAN,
               OpenCheckout(a, c, arrives)
        PROVE  CustomerStays'
    <2>1. Opened(c).state = "open" \/ Opened(c).state = carts[c].state
      BY DEF Opened
    <2>2. carts' = [carts EXCEPT ![c] = Opened(c)]
      BY <1>6 DEF OpenCheckout
    <2> QED
      BY <1>2, <2>1, <2>2
  <1>7. ASSUME NEW a \in Attempts, NEW arrives \in BOOLEAN, ReplayOrder(a, arrives)
        PROVE  CustomerStays'
    BY <1>1, <1>7 DEF ReplayOrder, CustomerStays
  <1>8. ASSUME NEW a \in Attempts, NEW arrives \in BOOLEAN, RefuseOrder(a, arrives)
        PROVE  CustomerStays'
    BY <1>3, <1>8 DEF RefuseOrder, Inv, RequestsInv
  <1>9. ASSUME NEW a \in Attempts, NEW arrives \in BOOLEAN, CreateOrder(a, arrives)
        PROVE  CustomerStays'
    <2>1. /\ attempt[a].cart \in Carts
          /\ Emptied(attempt[a].cart)
               = [state |-> "open", revision |-> clock + 1, items |-> Empty]
      BY <1>9, OrdersWhatIsThere
    <2>2. Emptied(attempt[a].cart).state = "open"
      BY <2>1
    <2>3. carts' = [carts EXCEPT ![attempt[a].cart] = Emptied(attempt[a].cart)]
      BY <1>9 DEF CreateOrder
    <2> QED
      BY <1>2, <2>1, <2>2, <2>3
  <1>10. ASSUME NEW arrives \in BOOLEAN, MergeCarts(arrives) PROVE CustomerStays'
    <2>1. /\ cookie # Customer
          /\ \E items : carts' = [[carts EXCEPT ![cookie] = Deleted(cookie)]
                                     EXCEPT ![Customer] = Edited(Customer, items)]
      BY <1>10, NamesAssumption DEF MergeCarts, Mergeable
    <2> QED
      BY <1>1, <2>1 DEF CustomerStays, Edited
  <1>11. ASSUME NEW o \in orders, NEW k \in Keys, RepeatOrder(o, k) PROVE CustomerStays'
    <2>1. Edited(Customer, WithOrder(o)).state = "open"
      BY DEF Edited
    <2>2. carts' = carts \/ carts' = [carts EXCEPT ![Customer] = Edited(Customer, WithOrder(o))]
      BY <1>11 DEF RepeatOrder
    <2> QED
      BY <1>1, <1>2, <2>1, <2>2 DEF CustomerStays
  <1>12. CASE UNCHANGED vars \/ Login \/ \E v \in Variants, o \in Offers : ChangeOffer(v, o)
    BY <1>1, <1>12 DEF vars, Login, ChangeOffer, CustomerStays
  <1> QED
    BY <1>4, <1>5, <1>6, <1>7, <1>8, <1>9, <1>10, <1>11, <1>12 DEF Next, Serve, Others

\* A step that changes one row, which is not and will not be deleted, changes
\* one basket.
LEMMA RowIsChange ==
    ASSUME TypeOK, NEW c \in Carts, NEW row, row.state # "deleted",
           carts[c].state # "deleted", carts' = [carts EXCEPT ![c] = row], orders' = orders
    PROVE  Baskets!Change(c)
  <1>1. /\ \A d \in Carts \ {c} : carts'[d] = carts[d]
        /\ carts'[c] = row
    BY DEF TypeOK
  <1>2. Gone' = Gone
    BY <1>1 DEF Gone
  <1>3. \A d \in Carts \ {c} : Basket'[d] = Basket[d]
    BY <1>1 DEF Basket, Pieces
  <1>4. Bought' = Bought
    BY DEF Bought, Goods, Pieces
  <1>5. c \notin Gone
    BY DEF Gone
  <1> QED
    BY <1>2, <1>3, <1>4, <1>5, Mapping DEF Baskets!Change, Basket, Gone, Bought, Goods

\* What a bearer's request opens has not been deleted.
LEMMA OpensWhatIsThere ==
    ASSUME NEW w, NEW c \in Carts, Opens(w, c)
    PROVE  carts[c].state # "deleted"
  BY DEF Opens

\* An edit changes one basket.
LEMMA RequestIsChange ==
    ASSUME Inv, NEW c \in Carts, NEW items, Request(c, items)
    PROVE  Baskets!Change(c)
  <1>1. Edited(c, items).state # "deleted"
    BY DEF Edited
  <1>2. carts[c].state # "deleted"
    BY OpensWhatIsThere DEF Request
  <1> QED
    BY <1>1, <1>2, RowIsChange DEF Request, Inv

\* A validation changes one basket.
LEMMA ReviseIsChange ==
    ASSUME Inv, NEW c \in Carts, Exists(c), carts' = [carts EXCEPT ![c] = Revised(c)],
           orders' = orders
    PROVE  Baskets!Change(c)
  <1>1. carts[c] \in Cart /\ carts[c].state = "open"
    BY DEF Inv, TypeOK, Exists
  <1>2. Revised(c).state # "deleted"
    BY <1>1, RevisedState
  <1> QED
    BY <1>1, <1>2, RowIsChange DEF Inv

\* A merge moves a whole basket.
LEMMA MergeIsMerge ==
    ASSUME Inv, CustomerStays, NEW arrives \in BOOLEAN, MergeCarts(arrives),
           NEW c \in Carts, c = cookie
    PROVE  Baskets!Merge(c)
  <1> DEFINE mine   == carts[Customer].items
             guests == carts[cookie].items
  <1>1. /\ cookie \in Guests /\ cookie \in Carts /\ Customer \in Carts /\ cookie # Customer
        /\ carts[cookie].state = "open"
    BY NamesAssumption DEF MergeCarts, Mergeable, Carts
  <1>2. mine \in Lines /\ guests \in Lines
    BY <1>1 DEF Inv, TypeOK, Cart
  <1>3. carts' = [[carts EXCEPT ![cookie] = Deleted(cookie)]
                     EXCEPT ![Customer] = Edited(Customer, Joined(mine, guests))]
    BY <1>1 DEF MergeCarts, Inv, TypeOK
  <1>4. /\ carts'[Customer] = Edited(Customer, Joined(mine, guests))
        /\ carts'[cookie] = Deleted(cookie)
        /\ \A d \in Carts \ {Customer, cookie} : carts'[d] = carts[d]
    BY <1>1, <1>3 DEF Inv, TypeOK
  <1>5. Gone' = Gone \cup {cookie} /\ cookie \notin Gone \cup {Customer}
    <2>1. carts'[cookie].state = "deleted" /\ carts'[Customer].state = "open"
      BY <1>4 DEF Deleted, Edited
    <2>2. Customer \notin Gone
      BY DEF CustomerStays, Gone
    <2> QED
      BY <1>1, <1>4, <2>1, <2>2 DEF Gone
  <1>6. \A v \in Variants : Joined(mine, guests)[v].quantity
                               = mine[v].quantity + guests[v].quantity
    <2> SUFFICES ASSUME NEW v \in Variants
                 PROVE  Joined(mine, guests)[v].quantity = mine[v].quantity + guests[v].quantity
      OBVIOUS
    <2>1. mine[v] \in Item /\ guests[v] \in Item
      BY <1>2 DEF Lines
    <2>2. CASE InCart(mine, v)
      BY <2>1, <2>2 DEF Joined, Item
    <2>3. CASE ~InCart(mine, v)
      BY <2>1, <2>3 DEF Joined, Item, InCart
    <2> QED
      BY <2>2, <2>3
  <1>7. Basket' = [Basket EXCEPT ![cookie] = Baskets!NoGoods,
                                 ![Customer] = [v \in Variants |-> @[v] + Basket[cookie][v]]]
    <2> DEFINE new == [[Basket EXCEPT ![cookie] = Baskets!NoGoods] EXCEPT ![Customer] =
                          [v \in Variants |-> Basket[Customer][v] + Basket[cookie][v]]]
    <2>1. new \in [Carts -> [Variants -> Nat]] /\ DOMAIN Basket' = Carts
      <3>1. \A x \in Carts : Basket[x] \in [Variants -> Nat]
        BY DEF Inv, TypeOK, Cart, Lines, Item, Basket, Pieces
      <3>2. Basket \in [Carts -> [Variants -> Nat]]
        BY <3>1 DEF Basket
      <3>3. Baskets!NoGoods \in [Variants -> Nat]
        BY DEF Baskets!NoGoods
      <3>4. [v \in Variants |-> Basket[Customer][v] + Basket[cookie][v]] \in [Variants -> Nat]
        BY <1>1, <3>1
      <3> QED
        BY <3>2, <3>3, <3>4 DEF Basket
    <2>2. ASSUME NEW d \in Carts \ {Customer, cookie} PROVE Basket'[d] = new[d]
      BY <1>4, <2>2 DEF Basket, Pieces
    <2>3. Basket'[cookie] = new[cookie]
      <3>1. Basket'[cookie] = Baskets!NoGoods
        BY <1>1, <1>4 DEF Basket, Pieces, Deleted, Empty, Nothing, Baskets!NoGoods
      <3> QED
        BY <1>1, <3>1 DEF Basket
    <2>4. Basket'[Customer] = new[Customer]
      <3>1. Basket'[Customer] = [v \in Variants |-> mine[v].quantity + guests[v].quantity]
        BY <1>1, <1>4, <1>6 DEF Basket, Pieces, Edited
      <3>2. Basket[Customer] = Pieces(mine) /\ Basket[cookie] = Pieces(guests)
        BY <1>1 DEF Basket
      <3>3. new[Customer] = [v \in Variants |-> Pieces(mine)[v] + Pieces(guests)[v]]
        BY <1>1, <3>2 DEF Basket
      <3>4. \A v \in Variants : /\ Pieces(mine)[v] = mine[v].quantity
                                /\ Pieces(guests)[v] = guests[v].quantity
        BY DEF Pieces
      <3> QED
        BY <3>1, <3>3, <3>4
    <2>5. Basket' = new
      <3> HIDE DEF new
      <3> QED
        BY <2>1, <2>2, <2>3, <2>4 DEF Basket
    <2>6. [Basket EXCEPT ![cookie] = Baskets!NoGoods,
                         ![Customer] = [v \in Variants |-> @[v] + Basket[cookie][v]]] = new
      BY <1>1
    <2> QED
      BY <2>5, <2>6
  <1>8. Bought' = Bought
    BY DEF MergeCarts, Bought, Goods, Pieces
  <1> QED
    BY <1>1, <1>5, <1>7, <1>8 DEF Baskets!Merge, Basket, Gone, Bought, Goods

\* An order takes a whole basket.
LEMMA CreateIsBuy ==
    ASSUME Inv, NEW a \in Attempts, NEW arrives \in BOOLEAN, CreateOrder(a, arrives),
           NEW c \in Carts, c = attempt[a].cart
    PROVE  Baskets!Buy(c)
  <1> DEFINE k   == attempt[a].key
             new == [cart |-> c, key |-> k, payload |-> attempt[a].payload,
                     lines |-> Displays(carts[c].items), shown |-> attempt[a].shown]
  <1>1. /\ c \in Carts /\ carts[c].state = "open" /\ k \in Keys
        /\ Displays(carts[c].items) = carts[c].items
        /\ Emptied(c) = [state |-> "open", revision |-> clock + 1, items |-> Empty]
    BY OrdersWhatIsThere DEF Exists, Inv, RequestsInv, CreateOrder
  <1>2. carts' = [carts EXCEPT ![c] = Emptied(c)] /\ orders' = orders \cup {new}
    BY DEF CreateOrder
  <1>3. c \notin Gone /\ Gone' = Gone
    <2>1. carts'[c].state = "open" /\ \A d \in Carts \ {c} : carts'[d] = carts[d]
      BY <1>1, <1>2 DEF Inv, TypeOK
    <2> QED
      BY <1>1, <2>1 DEF Gone
  <1>4. Basket[c] # Baskets!NoGoods
    <2>1. PICK v \in Variants : carts[c].items[v].quantity > 0
      BY DEF CreateOrder, Accepts, CanCheckout, InCart
    <2> QED
      BY <1>1, <2>1 DEF Basket, Pieces, Baskets!NoGoods
  <1>5. \A b \in Bought : b.cart = c => b.key # k
    BY DEF CreateOrder, Replayed, Bought, Goods
  <1>6. Goods(new) = [cart |-> c, key |-> k, goods |-> Basket[c]]
    BY <1>1 DEF Goods, Basket
  <1>7. Bought' = Bought \cup {[cart |-> c, key |-> k, goods |-> Basket[c]]}
    <2>1. Bought' = {Goods(o) : o \in orders'}
      BY DEF Bought, Goods, Pieces
    <2> HIDE DEF new
    <2> QED
      BY <1>2, <1>6, <2>1 DEF Bought
  <1>8. Basket' = [Basket EXCEPT ![c] = Baskets!NoGoods]
    <2>1. carts'[c].items = Empty /\ \A d \in Carts \ {c} : carts'[d] = carts[d]
      BY <1>1, <1>2 DEF Inv, TypeOK
    <2>2. Pieces(Empty) = Baskets!NoGoods
      BY DEF Pieces, Empty, Nothing, Baskets!NoGoods
    <2> QED
      BY <1>1, <2>1, <2>2 DEF Basket, Pieces
  <1>9. \E key \in Keys :
          /\ c \notin Gone
          /\ Basket[c] # Baskets!NoGoods
          /\ \A b \in Bought : b.cart = c => b.key # key
          /\ Bought' = Bought \cup {[cart |-> c, key |-> key, goods |-> Basket[c]]}
          /\ Basket' = [Basket EXCEPT ![c] = Baskets!NoGoods]
          /\ UNCHANGED Gone
    BY <1>1, <1>3, <1>4, <1>5, <1>7, <1>8
  <1> QED
    BY <1>1, <1>9 DEF Baskets!Buy, Basket, Gone, Bought, Goods

\* A new cart changes no goods.
LEMMA OpenIsChange ==
    ASSUME Inv, NEW a \in Attempts, NEW c \in Carts, NEW arrives \in BOOLEAN,
           OpenCheckout(a, c, arrives)
    PROVE  Baskets!Change(c)
  <1>1. carts[c].state # "deleted"
    BY OpensWhatIsThere DEF OpenCheckout
  <1>2. Opened(c).state # "deleted"
    BY <1>1 DEF Opened
  <1> QED
    BY <1>1, <1>2, RowIsChange DEF OpenCheckout, Inv

\* Every step of the shop is a step of the baskets, or none.
LEMMA StepsMap ==
    Inv /\ CustomerStays /\ [Next]_vars
       => \/ \E c \in Carts : Baskets!Change(c) \/ Baskets!Buy(c) \/ Baskets!Merge(c)
          \/ UNCHANGED <<Basket, Gone, Bought>>
  <1> SUFFICES ASSUME Inv, CustomerStays, [Next]_vars
               PROVE  \/ \E c \in Carts : Baskets!Change(c) \/ Baskets!Buy(c) \/ Baskets!Merge(c)
                      \/ UNCHANGED <<Basket, Gone, Bought>>
    OBVIOUS
  <1>0. carts' = carts /\ orders' = orders => UNCHANGED <<Basket, Gone, Bought>>
    BY DEF Basket, Gone, Bought, Goods, Pieces
  <1>1. ASSUME NEW c \in Carts, EditCart(c) PROVE Baskets!Change(c)
    <2>1. PICK items : Request(c, items)
      BY <1>1 DEF EditCart, AddItem, UpdateItem, RemoveItem, ClearCart
    <2> QED
      BY <2>1, RequestIsChange
  <1>2. ASSUME NEW t \in Tabs, Browse(t)
        PROVE  (\E c \in Carts : Baskets!Change(c)) \/ UNCHANGED <<Basket, Gone, Bought>>
    <2>1. ASSUME NEW c \in Carts,
                 (\E f \in Forms : SubmitRefused(t, c, f)) \/ \E arrives \in BOOLEAN : LookAtCart(t, c, arrives)
          PROVE  Baskets!Change(c)
      BY <2>1, ReviseIsChange DEF SubmitRefused, LookAtCart
    <2> QED
      BY <1>0, <1>2, <2>1 DEF Browse, Submit, Resubmit, TimeOut
  <1>3. ASSUME NEW a \in Attempts, Serve(a)
        PROVE  \/ \E c \in Carts : Baskets!Change(c) \/ Baskets!Buy(c)
               \/ UNCHANGED <<Basket, Gone, Bought>>
    <2>1. ASSUME NEW arrives \in BOOLEAN, RefuseOrder(a, arrives)
          PROVE  \E c \in Carts : Baskets!Change(c)
      <3>1. PICK c \in Carts : c = attempt[a].cart
        BY <2>1 DEF RefuseOrder, Inv, RequestsInv
      <3> QED
        BY <2>1, <3>1, ReviseIsChange DEF RefuseOrder
    <2>2. ASSUME NEW arrives \in BOOLEAN, ReplayOrder(a, arrives)
          PROVE  UNCHANGED <<Basket, Gone, Bought>>
      BY <1>0, <2>2 DEF ReplayOrder
    <2>3. ASSUME NEW c \in Carts, NEW arrives \in BOOLEAN, OpenCheckout(a, c, arrives)
          PROVE  Baskets!Change(c)
      BY <2>3, OpenIsChange
    <2>4. ASSUME NEW arrives \in BOOLEAN, CreateOrder(a, arrives)
          PROVE  \E c \in Carts : Baskets!Buy(c)
      <3>1. PICK c \in Carts : c = attempt[a].cart
        BY <2>4 DEF CreateOrder, Inv, RequestsInv
      <3> QED
        BY <2>4, <3>1, CreateIsBuy
    <2>5. PICK arrives \in BOOLEAN : \/ \E c \in Carts : OpenCheckout(a, c, arrives)
                                    \/ ReplayOrder(a, arrives)
                                    \/ RefuseOrder(a, arrives)
                                    \/ CreateOrder(a, arrives)
      BY <1>3 DEF Serve
    <2> QED
      BY <2>1, <2>2, <2>3, <2>4, <2>5
  <1>4. CASE Others
    <2>1. ASSUME NEW o \in orders, NEW k \in Keys, RepeatOrder(o, k)
          PROVE  Baskets!Change(Customer) \/ UNCHANGED <<Basket, Gone, Bought>>
      <3>1. carts' = carts \/ carts' = [carts EXCEPT ![Customer] = Edited(Customer, WithOrder(o))]
        BY <2>1 DEF RepeatOrder
      <3>2. Edited(Customer, WithOrder(o)).state # "deleted" /\ orders' = orders
            /\ carts[Customer].state # "deleted" /\ Customer \in Carts
        BY <2>1 DEF Edited, RepeatOrder, CustomerStays, Carts
      <3> QED
        BY <1>0, <3>1, <3>2, RowIsChange DEF Inv
    <2>2. Customer \in Carts
      BY DEF Carts
    <2>3. Login \/ (\E v \in Variants, o \in Offers : ChangeOffer(v, o))
             => UNCHANGED <<Basket, Gone, Bought>>
      BY <1>0 DEF Login, ChangeOffer
    <2>4. ASSUME NEW arrives \in BOOLEAN, MergeCarts(arrives)
          PROVE  \E c \in Carts : Baskets!Merge(c)
      <3>1. PICK c \in Carts : c = cookie
        BY <2>4 DEF MergeCarts, Mergeable, Carts
      <3> QED
        BY <2>4, <3>1, MergeIsMerge
    <2>5. CASE \E o \in orders, k \in Keys : RepeatOrder(o, k)
      BY <2>1, <2>2, <2>5
    <2>6. CASE \E arrives \in BOOLEAN : MergeCarts(arrives)
      BY <2>4, <2>6
    <2> QED
      BY <1>4, <2>3, <2>5, <2>6 DEF Others
  <1>5. CASE UNCHANGED vars
    BY <1>0, <1>5 DEF vars
  <1> QED
    BY <1>1, <1>2, <1>3, <1>4, <1>5 DEF Next

\* Shop implements Baskets: however tabs, lost answers, the login and the
\* catalogue interleave, an order takes a whole cart under a key not used
\* before (createInTransaction), and a merge moves a whole cart (merge).
THEOREM ShopImplementsBaskets == Spec => ImplementsBaskets
  <1>1. Init => Baskets!Init
    <2> SUFFICES ASSUME Init PROVE Baskets!Init
      OBVIOUS
    <2>1. Basket = [c \in Carts |-> Baskets!NoGoods]
      BY DEF Init, Basket, Pieces, Empty, Nothing, Baskets!NoGoods
    <2>2. Gone = {} /\ Bought = {}
      BY DEF Init, Gone, Bought
    <2> QED
      BY <2>1, <2>2 DEF Baskets!Init, Basket, Gone, Bought, Goods
  <1>2. Init => CustomerStays
    BY DEF Init, CustomerStays, Carts
  <1>3. Inv /\ CustomerStays /\ [Next]_vars
           => [Baskets!Next]_(<<[c \in Carts |-> Pieces(carts[c].items)],
                                {c \in Carts : carts[c].state = "deleted"},
                                {[cart |-> o.cart, key |-> o.key, goods |-> Pieces(o.lines)] :
                                   o \in orders}>>)
    BY StepsMap DEF Baskets!Next, Basket, Gone, Bought, Goods
  <1> QED
    BY <1>1, <1>2, <1>3, AlwaysInv, CustomerNext, PTL
    DEF Spec, ImplementsBaskets, Baskets!Spec

-------------------------------------------------------------------------------
(* Nothing from nothing                                                     *)

\* Pieces of v in each of the carts, and in each order of a set.
Held(rows, v) == [c \in Carts |-> rows[c].items[v].quantity]
Sold(S, v)    == [o \in S |-> o.lines[v].quantity]

\* There are finitely many orders, and no more goods than were asked for.
GoodsInv == IsFiniteSet(orders) /\ NothingFromNothing

\* Carts are finitely many.
LEMMA FiniteCarts == IsFiniteSet(Carts)
  BY GuestsAssumption, FS_AddElement DEF Carts

\* When one cart changes, the goods in all carts change by as much.
LEMMA OneCartChanges ==
    ASSUME NEW rows \in [Carts -> Cart], NEW later \in [Carts -> Cart], NEW c \in Carts,
           \A d \in Carts \ {c} : later[d].items = rows[d].items, NEW v \in Variants
    PROVE  /\ SumFunction(Held(rows, v)) \in Int /\ SumFunction(Held(later, v)) \in Int
           /\ SumFunction(Held(later, v)) - SumFunction(Held(rows, v))
                 = later[c].items[v].quantity - rows[c].items[v].quantity
  <1>1. Held(rows, v) \in [Carts -> Int] /\ Held(later, v) \in [Carts -> Int]
    BY DEF Held, Cart, Lines, Item
  <1>2. \A d \in Carts \ {c} : Held(later, v)[d] = Held(rows, v)[d]
    BY DEF Held
  <1>3. /\ Held(later, v)[c] = later[c].items[v].quantity
        /\ Held(rows, v)[c] = rows[c].items[v].quantity
    BY DEF Held
  <1>4. /\ SumFunction(Held(rows, v)) = SumFunctionOnSet(Held(rows, v), Carts)
        /\ SumFunction(Held(later, v)) = SumFunctionOnSet(Held(later, v), Carts)
    BY DEF SumFunction, Held
  <1> QED
    BY <1>1, <1>2, <1>3, <1>4, FiniteCarts, SumType, SumOfOneChanged

\* A new order adds what is in its lines.
LEMMA OneOrderMore ==
    ASSUME NEW S, S \subseteq Order, IsFiniteSet(S), NEW o \in Order, NEW v \in Variants
    PROVE  /\ SumFunction(Sold(S, v)) \in Int /\ SumFunction(Sold(S \cup {o}, v)) \in Int
           /\ IsFiniteSet(S \cup {o})
           /\ SumFunction(Sold(S \cup {o}, v)) - SumFunction(Sold(S, v)) <= o.lines[v].quantity
  <1> DEFINE R == S \cup {o}
  <1>1. IsFiniteSet(R) /\ o \in R /\ S \in SUBSET R
    BY FS_AddElement
  <1>2. \A p \in Order : p.lines[v].quantity \in Nat
    BY DEF Order, Lines, Item
  <1>3. Sold(S, v) \in [S -> Int] /\ Sold(R, v) \in [R -> Int]
    BY <1>2 DEF Sold
  <1>4. /\ SumFunction(Sold(S, v)) = SumFunctionOnSet(Sold(S, v), S)
        /\ SumFunction(Sold(R, v)) = SumFunctionOnSet(Sold(R, v), R)
    BY DEF SumFunction, Sold
  <1>5. SumFunctionOnSet(Sold(S, v), S) \in Int /\ SumFunctionOnSet(Sold(R, v), R) \in Int
    BY <1>1, <1>3, SumType
  <1>6. CASE o \in S
    BY <1>2, <1>4, <1>5, <1>6
  <1>7. CASE o \notin S
    <2>1. R \ {o} = S
      BY <1>7
    <2>2. SumFunctionOnSet(Sold(R, v), R)
             = Sold(R, v)[o] + SumFunctionOnSet(Sold(R, v), S)
      <3>1. R \in SUBSET R
        OBVIOUS
      <3> HIDE DEF R
      <3> QED
        BY <1>1, <1>3, <2>1, <3>1, SumOfOneAndRest
    <2>3. \A p \in S : Sold(S, v)[p] = Sold(R, v)[p]
      BY DEF Sold
    <2>4. SumFunctionOnSet(Sold(S, v), S) = SumFunctionOnSet(Sold(R, v), S)
      <3>1. S \in SUBSET S /\ S \in SUBSET R
        OBVIOUS
      <3> HIDE DEF R
      <3> QED
        BY <1>3, <2>3, <3>1, SumOfSame
    <2>5. Sold(R, v)[o] = o.lines[v].quantity
      BY <1>1 DEF Sold
    <2> DEFINE before == SumFunction(Sold(S, v))
               after  == SumFunction(Sold(R, v))
    <2>6. o.lines[v].quantity \in Nat
      BY <1>2
    <2>7. after - before = o.lines[v].quantity /\ after \in Int /\ before \in Int
      <3> HIDE DEF R
      <3> QED
        BY <1>4, <1>5, <2>2, <2>4, <2>5, <2>6
    <2> QED
      BY <1>1, <2>6, <2>7
  <1> QED
    BY <1>1, <1>4, <1>5, <1>6, <1>7

\* The goods in numbers.
LEMMA GoodsAreNumbers ==
    ASSUME Inv
    PROVE  /\ carts \in [Carts -> Cart]
           /\ \A v \in Variants : /\ asked[v] \in Int
                                  /\ \A c \in Carts : carts[c].items[v].quantity \in Nat
           /\ \A v \in Variants : InCarts(v) = SumFunction(Held(carts, v))
           /\ \A v \in Variants : Ordered(v) = SumFunction(Sold(orders, v))
  <1>1. \A v \in Variants : /\ asked[v] \in Int
                            /\ \A c \in Carts : carts[c].items[v].quantity \in Nat
    BY DataAssumption DEF Inv, TypeOK, Cart, Lines, Item
  <1> QED
    BY <1>1 DEF Inv, TypeOK, InCarts, Ordered, Held, Sold

\* What orders hold in all is a number.
LEMMA OrderedType ==
    ASSUME Inv, IsFiniteSet(orders), NEW v \in Variants
    PROVE  SumFunction(Sold(orders, v)) \in Int
  <1>1. \A p \in orders : p.lines[v].quantity \in Nat
    BY DEF Inv, TypeOK, Order, Lines, Item
  <1>2. Sold(orders, v) \in [orders -> Int]
    BY <1>1 DEF Sold
  <1>3. SumFunction(Sold(orders, v)) = SumFunctionOnSet(Sold(orders, v), orders)
    BY DEF SumFunction, Sold
  <1> QED
    BY <1>2, <1>3, SumType

\* A step that adds to one cart no more than it counts as asked for makes nothing.
LEMMA OneCartGrows ==
    ASSUME Inv, GoodsInv, Inv', NEW c \in Carts, orders' = orders,
           \A d \in Carts \ {c} : carts'[d].items = carts[d].items,
           \A v \in Variants : carts'[c].items[v].quantity + asked[v]
                                  <= carts[c].items[v].quantity + asked'[v]
    PROVE  GoodsInv'
  <1>1. /\ carts' \in [Carts -> Cart]
        /\ \A v \in Variants : /\ asked'[v] \in Int
                               /\ \A d \in Carts : carts'[d].items[v].quantity \in Nat
    <2>1. \A v \in Variants : /\ asked'[v] \in Int
                              /\ \A d \in Carts : carts'[d].items[v].quantity \in Nat
      BY DataAssumption DEF Inv, TypeOK, Cart, Lines, Item
    <2> QED
      BY <2>1 DEF Inv, TypeOK
  <1>2. ASSUME NEW v \in Variants
        PROVE  SumFunction([d \in Carts |-> carts'[d].items[v].quantity])
                  + SumFunction([o \in orders |-> o.lines[v].quantity]) <= asked'[v]
    <2> DEFINE was == SumFunction(Held(carts, v))
               is  == SumFunction(Held(carts', v))
               out == SumFunction(Sold(orders, v))
    <2>1. was \in Int /\ is \in Int
          /\ is - was = carts'[c].items[v].quantity - carts[c].items[v].quantity
      BY <1>1, GoodsAreNumbers, OneCartChanges
    <2>2. out \in Int
      BY OrderedType DEF GoodsInv
    <2>3. was + out <= asked[v]
      BY GoodsAreNumbers DEF GoodsInv, NothingFromNothing
    <2>4. /\ is = SumFunction([d \in Carts |-> carts'[d].items[v].quantity])
          /\ out = SumFunction([o \in orders |-> o.lines[v].quantity])
      BY DEF Held, Sold
    <2>5. carts[c].items[v].quantity \in Nat /\ asked[v] \in Int
      BY GoodsAreNumbers
    <2>6. carts'[c].items[v].quantity + asked[v] <= carts[c].items[v].quantity + asked'[v]
      OBVIOUS
    <2> HIDE DEF was, is, out
    <2>7. is + out <= asked'[v]
      BY <1>1, <2>1, <2>2, <2>3, <2>5, <2>6
    <2> QED
      BY <2>4, <2>7
  <1> QED
    BY <1>2 DEF GoodsInv, NothingFromNothing, InCarts, Ordered
\* One row changes, to items that hold no more than what was there and what was
\* asked for in addition.
LEMMA RowGrows ==
    ASSUME Inv, GoodsInv, Inv', NEW c \in Carts, NEW row, orders' = orders,
           carts' = [carts EXCEPT ![c] = row],
           \A v \in Variants : row.items[v].quantity + asked[v]
                                  <= carts[c].items[v].quantity + asked'[v]
    PROVE  GoodsInv'
  <1>1. carts'[c] = row /\ \A d \in Carts \ {c} : carts'[d] = carts[d]
    BY GoodsAreNumbers
  <1> QED
    BY <1>1, OneCartGrows

\* An opened cart holds no more than before.
LEMMA OpenedHolds ==
    ASSUME Inv, NEW c \in Carts, NEW v \in Variants
    PROVE  /\ Opened(c).items[v].quantity \in Nat
           /\ Opened(c).items[v].quantity <= carts[c].items[v].quantity
           /\ asked[v] \in Int /\ carts[c].items[v].quantity \in Nat
  BY GoodsAreNumbers DEF Opened, Empty, Nothing

\* A validated cart holds no more than before.
LEMMA RevisedHolds ==
    ASSUME Inv, NEW c \in Carts, NEW v \in Variants
    PROVE  Revised(c).items[v].quantity <= carts[c].items[v].quantity
  <1>1. carts[c] \in Cart /\ carts[c].items[v] \in Item /\ offer[v] \in Offer
    BY DataAssumption DEF Inv, TypeOK, Cart, Lines
  <1>2. carts[c].items[v].quantity \in Nat
    BY <1>1 DEF Item
  <1>3. Validated(carts[c].items)[v].quantity <= carts[c].items[v].quantity
    BY <1>1, <1>2, Sells DEF Validated, Inspected, Nothing
  <1>4. CASE Changed(carts[c].items)
    <2>1. Revised(c) = [state |-> carts[c].state, revision |-> clock + 1,
                        items |-> Validated(carts[c].items)]
      BY <1>1, <1>4, RowUpdate DEF Revised
    <2> QED
      BY <1>3, <2>1
  <1>5. CASE ~Changed(carts[c].items)
    BY <1>2, <1>5 DEF Revised
  <1> QED
    BY <1>4, <1>5

\* Putting pieces into a cart makes nothing.
LEMMA PutsGoods ==
    ASSUME Inv, GoodsInv, Inv', NEW c \in Carts, NEW v \in Variants, NEW q \in Nat,
           Request(c, Put(Opened(c).items, v, q)), Asks(v, Opened(c).items[v].quantity, q)
    PROVE  GoodsInv'
  <1> DEFINE items == Opened(c).items
             row   == Edited(c, Put(items, v, q))
  <1>1. items \in Lines /\ asked \in [Variants -> 0..MaxAsked]
    BY OpenedItems DEF Inv, TypeOK
  <1>2. row.items = Put(items, v, q)
    BY DEF Edited
  <1>3. /\ Put(items, v, q)[v].quantity = q
        /\ \A w \in Variants \ {v} : Put(items, v, q)[w] = items[w]
    BY <1>1 DEF Put, Lines, Item
  <1>4. ASSUME NEW w \in Variants
        PROVE  row.items[w].quantity + asked[w] <= carts[c].items[w].quantity + asked'[w]
    <2>1. /\ items[w].quantity \in Nat /\ items[w].quantity <= carts[c].items[w].quantity
          /\ asked[w] \in Int /\ carts[c].items[w].quantity \in Nat
      BY OpenedHolds
    <2>2. CASE w = v
      <3>1. asked'[v] = IF q > items[v].quantity THEN asked[v] + q - items[v].quantity
                                                 ELSE asked[v]
        BY <1>1 DEF Asks
      <3> HIDE DEF items, row
      <3>2. row.items[w].quantity = q
        BY <1>2, <1>3, <2>2
      <3> QED
        BY <2>1, <2>2, <3>1, <3>2
    <2>3. CASE w # v
      <3>1. asked'[w] = asked[w]
        BY <1>1, <2>3 DEF Asks
      <3>2. row.items[w].quantity = items[w].quantity
        BY <1>2, <1>3, <2>3
      <3> HIDE DEF items, row
      <3> QED
        BY <2>1, <3>1, <3>2
    <2> QED
      BY <2>2, <2>3
  <1>5. carts' = [carts EXCEPT ![c] = row] /\ orders' = orders
    BY DEF Request
  <1> HIDE DEF row
  <1> QED
    BY <1>4, <1>5, RowGrows

\* An edit of a cart makes nothing.
LEMMA EditGoods ==
    ASSUME Inv, GoodsInv, Inv', NEW c \in Carts, EditCart(c)
    PROVE  GoodsInv'
  <1>1. ASSUME NEW v \in Variants, NEW q \in Quantities, AddItem(c, v, q)
        PROVE  GoodsInv'
    <2> DEFINE wanted == Opened(c).items[v].quantity + q
    <2>1. wanted \in Nat /\ offer[v] \in Offer
      BY OpenedHolds, DataAssumption DEF Inv, TypeOK
    <2>2. ResolveStock(wanted, offer[v]) \in Nat
      <3> HIDE DEF wanted
      <3> QED
        BY <2>1, Sells
    <2>3. /\ Request(c, Put(Opened(c).items, v, ResolveStock(wanted, offer[v])))
          /\ Asks(v, Opened(c).items[v].quantity, ResolveStock(wanted, offer[v]))
      BY <1>1 DEF AddItem
    <2> HIDE DEF wanted
    <2> QED
      BY <2>2, <2>3, PutsGoods
  <1>2. ASSUME NEW v \in Variants, NEW q \in Quantities, UpdateItem(c, v, q)
        PROVE  GoodsInv'
    <2>1. ResolveStock(q, offer[v]) \in Nat
      BY Sells, DataAssumption DEF Inv, TypeOK
    <2> QED
      BY <1>2, <2>1, PutsGoods DEF UpdateItem
  <1>3. ASSUME NEW v \in Variants, RemoveItem(c, v)
        PROVE  GoodsInv'
    <2> DEFINE items == [Opened(c).items EXCEPT ![v] = Nothing]
    <2>1. Opened(c).items \in Lines
      BY OpenedItems DEF Inv
    <2>2. \A w \in Variants : items[w].quantity <= carts[c].items[w].quantity
      BY <2>1, OpenedHolds DEF Lines, Nothing
    <2>3. \A w \in Variants : items[w].quantity \in Nat
      BY <2>1, OpenedHolds DEF Lines, Nothing
    <2>4. /\ carts' = [carts EXCEPT ![c] = Edited(c, items)]
          /\ orders' = orders /\ asked' = asked
      BY <1>3 DEF RemoveItem, Request
    <2> HIDE DEF items
    <2>5. Edited(c, items).items = items
      BY DEF Edited
    <2>6. \A w \in Variants : Edited(c, items).items[w].quantity + asked[w]
                                 <= carts[c].items[w].quantity + asked'[w]
      BY <2>2, <2>3, <2>4, <2>5, OpenedHolds
    <2> QED
      BY <2>4, <2>6, RowGrows
  <1>4. CASE ClearCart(c)
    <2>1. /\ carts' = [carts EXCEPT ![c] = Edited(c, Empty)]
          /\ orders' = orders /\ asked' = asked
      BY <1>4 DEF ClearCart, Request
    <2>2. \A w \in Variants : Edited(c, Empty).items[w].quantity = 0
      BY DEF Edited, Empty, Nothing
    <2>3. \A w \in Variants : Edited(c, Empty).items[w].quantity + asked[w]
                                 <= carts[c].items[w].quantity + asked'[w]
      BY <2>1, <2>2, OpenedHolds
    <2> QED
      BY <2>1, <2>3, RowGrows
  <1> QED
    BY <1>1, <1>2, <1>3, <1>4 DEF EditCart

\* A validation makes nothing.
LEMMA RevisedGoods ==
    ASSUME Inv, GoodsInv, Inv', NEW c \in Carts, carts' = [carts EXCEPT ![c] = Revised(c)],
           orders' = orders, asked' = asked
    PROVE  GoodsInv'
  <1>1. carts'[c] = Revised(c)
    BY GoodsAreNumbers
  <1>2. \A v \in Variants : carts'[c].items[v].quantity \in Nat
    BY DEF Inv, TypeOK, Cart, Lines, Item
  <1>3. ASSUME NEW v \in Variants
        PROVE  Revised(c).items[v].quantity + asked[v] <= carts[c].items[v].quantity + asked'[v]
    BY <1>1, <1>2, RevisedHolds, OpenedHolds
  <1> QED
    BY <1>3, RowGrows

\* Nothing changes hands.
LEMMA GoodsStay ==
    GoodsInv /\ carts' = carts /\ orders' = orders /\ asked' = asked => GoodsInv'
  BY DEF GoodsInv, NothingFromNothing, InCarts, Ordered

\* The requests of a browser make nothing.
LEMMA BrowseGoods ==
    ASSUME Inv, GoodsInv, Inv', NEW t \in Tabs, Browse(t)
    PROVE  GoodsInv'
  <1>1. ASSUME NEW c \in Carts,
               (\E f \in Forms : SubmitRefused(t, c, f)) \/ \E arrives \in BOOLEAN : LookAtCart(t, c, arrives)
        PROVE  GoodsInv'
    BY <1>1, RevisedGoods DEF SubmitRefused, LookAtCart
  <1> QED
    BY <1>1, GoodsStay DEF Browse, Submit, Resubmit, TimeOut

\* A merge moves the guest's goods to the customer.
LEMMA MergeGoods ==
    ASSUME Inv, GoodsInv, Inv', NEW arrives \in BOOLEAN, MergeCarts(arrives)
    PROVE  GoodsInv'
  <1> DEFINE mine   == carts[Customer].items
             guests == carts[cookie].items
             half   == [carts EXCEPT ![cookie] = Deleted(cookie)]
             row    == Edited(Customer, Joined(mine, guests))
  <1>1. /\ carts \in [Carts -> Cart] /\ carts' \in [Carts -> Cart]
        /\ cookie \in Guests /\ cookie \in Carts /\ Customer \in Carts /\ cookie # Customer
        /\ orders' = orders /\ asked' = asked
    BY NamesAssumption DEF Inv, TypeOK, MergeCarts, Mergeable, Carts
  <1>2. carts' = [half EXCEPT ![Customer] = row]
    BY <1>1 DEF MergeCarts
  <1>3. half \in [Carts -> Cart]
    <2>1. Deleted(cookie) \in Cart
      BY <1>1, EmptyType DEF Deleted, Cart
    <2> QED
      BY <1>1, <2>1
  <1>4. /\ half[cookie].items = Empty
        /\ \A d \in Carts \ {cookie} : half[d] = carts[d]
    BY <1>1 DEF Deleted
  <1>5. /\ carts'[Customer].items = Joined(mine, guests)
        /\ \A d \in Carts \ {Customer} : carts'[d] = half[d]
    BY <1>1, <1>2, <1>3 DEF Edited
  <1>6. ASSUME NEW v \in Variants
        PROVE  SumFunction([d \in Carts |-> carts'[d].items[v].quantity])
                  = SumFunction(Held(carts, v))
    <2>1. mine[v] \in Item /\ guests[v] \in Item
      BY <1>1 DEF Cart, Lines
    <2>2. mine[v].quantity \in Nat /\ guests[v].quantity \in Nat
      BY <2>1 DEF Item
    <2>3. Joined(mine, guests)[v].quantity = mine[v].quantity + guests[v].quantity
      <3>1. CASE InCart(mine, v)
        BY <2>1, <3>1 DEF Joined, Item
      <3>2. CASE ~InCart(mine, v)
        BY <2>2, <3>2 DEF Joined, InCart
      <3> QED
        BY <3>1, <3>2
    <2>4. /\ SumFunction(Held(carts, v)) \in Int /\ SumFunction(Held(half, v)) \in Int
          /\ SumFunction(Held(half, v)) - SumFunction(Held(carts, v))
                = half[cookie].items[v].quantity - carts[cookie].items[v].quantity
      <3> HIDE DEF half
      <3> QED
        BY <1>1, <1>3, <1>4, OneCartChanges
    <2>5. /\ SumFunction(Held(carts', v)) \in Int
          /\ SumFunction(Held(carts', v)) - SumFunction(Held(half, v))
                = carts'[Customer].items[v].quantity - half[Customer].items[v].quantity
      <3> HIDE DEF half
      <3> QED
        BY <1>1, <1>3, <1>5, OneCartChanges
    <2>6. /\ half[cookie].items[v].quantity = 0
          /\ half[Customer].items[v].quantity = mine[v].quantity
          /\ carts'[Customer].items[v].quantity = mine[v].quantity + guests[v].quantity
          /\ carts[cookie].items[v].quantity = guests[v].quantity
      BY <1>1, <1>4, <1>5, <2>3 DEF Empty, Nothing
    <2> DEFINE was  == SumFunction(Held(carts, v))
               then == SumFunction(Held(half, v))
               is   == SumFunction(Held(carts', v))
               x    == mine[v].quantity
               y    == guests[v].quantity
    <2>7. is = was
      <3>1. /\ was \in Int /\ then \in Int /\ is \in Int /\ x \in Nat /\ y \in Nat
            /\ then - was = 0 - y /\ is - then = (x + y) - x
        <4> HIDE DEF half
        <4> QED
          BY <2>2, <2>4, <2>5, <2>6
      <3> HIDE DEF was, then, is, x, y
      <3> QED
        BY <3>1
    <2> QED
      BY <2>7 DEF Held
  <1>7. \A v \in Variants : InCarts(v) = SumFunction(Held(carts, v))
    BY GoodsAreNumbers
  <1>8. \A v \in Variants : SumFunction([d \in Carts |-> carts'[d].items[v].quantity])
                               + SumFunction([o \in orders |-> o.lines[v].quantity]) <= asked[v]
    BY <1>6, <1>7 DEF GoodsInv, NothingFromNothing, Ordered
  <1> QED
    BY <1>1, <1>8 DEF GoodsInv, NothingFromNothing, InCarts, Ordered

\* An order takes what it holds out of its cart.
LEMMA CreateGoods ==
    ASSUME Inv, GoodsInv, Inv', NEW a \in Attempts, NEW arrives \in BOOLEAN,
           CreateOrder(a, arrives)
    PROVE  GoodsInv'
  <1> DEFINE c   == attempt[a].cart
             new == [cart |-> c, key |-> attempt[a].key, payload |-> attempt[a].payload,
                     lines |-> Displays(carts[c].items), shown |-> attempt[a].shown]
  <1>1. /\ c \in Carts /\ Displays(carts[c].items) = carts[c].items
        /\ Emptied(c) = [state |-> "open", revision |-> clock + 1, items |-> Empty]
    BY OrdersWhatIsThere
  <1>2. /\ orders' = orders \cup {new} /\ carts' = [carts EXCEPT ![c] = Emptied(c)]
        /\ asked' = asked
    BY DEF CreateOrder
  <1>3. /\ carts \in [Carts -> Cart] /\ carts' \in [Carts -> Cart]
        /\ orders \subseteq Order /\ new \in Order
    BY <1>2 DEF Inv, TypeOK
  <1>4. /\ carts'[c].items = Empty
        /\ \A d \in Carts \ {c} : carts'[d] = carts[d]
    BY <1>1, <1>2, <1>3
  <1>5. new.lines = carts[c].items
    BY <1>1
  <1> HIDE DEF new
  <1>6. IsFiniteSet(orders')
    BY <1>2, <1>3, FS_AddElement DEF GoodsInv
  <1>7. ASSUME NEW v \in Variants
        PROVE  SumFunction([d \in Carts |-> carts'[d].items[v].quantity])
                  + SumFunction([o \in orders' |-> o.lines[v].quantity]) <= asked[v]
    <2>1. /\ SumFunction(Held(carts, v)) \in Int /\ SumFunction(Held(carts', v)) \in Int
          /\ SumFunction(Held(carts', v)) - SumFunction(Held(carts, v))
                = carts'[c].items[v].quantity - carts[c].items[v].quantity
      BY <1>1, <1>3, <1>4, OneCartChanges
    <2>2. /\ SumFunction(Sold(orders, v)) \in Int /\ SumFunction(Sold(orders', v)) \in Int
          /\ SumFunction(Sold(orders', v)) - SumFunction(Sold(orders, v)) <= new.lines[v].quantity
      BY <1>2, <1>3, OneOrderMore DEF GoodsInv
    <2>3. carts'[c].items[v].quantity = 0 /\ new.lines[v].quantity = carts[c].items[v].quantity
      BY <1>4, <1>5 DEF Empty, Nothing
    <2>4. SumFunction(Held(carts, v)) + SumFunction(Sold(orders, v)) <= asked[v]
      BY GoodsAreNumbers DEF GoodsInv, NothingFromNothing
    <2>5. carts[c].items[v].quantity \in Nat /\ asked[v] \in Int
      BY <1>1, GoodsAreNumbers
    <2>6. SumFunction(Held(carts', v)) + SumFunction(Sold(orders', v)) <= asked[v]
      BY <2>1, <2>2, <2>3, <2>4, <2>5
    <2> QED
      BY <2>6 DEF Held, Sold
  <1> QED
    BY <1>2, <1>6, <1>7 DEF GoodsInv, NothingFromNothing, InCarts, Ordered

\* The steps of the server make nothing.
LEMMA ServeGoods ==
    ASSUME Inv, GoodsInv, Inv', NEW a \in Attempts, Serve(a)
    PROVE  GoodsInv'
  <1>1. ASSUME NEW c \in Carts, NEW arrives \in BOOLEAN, OpenCheckout(a, c, arrives)
        PROVE  GoodsInv'
    <2>1. carts' = [carts EXCEPT ![c] = Opened(c)] /\ orders' = orders /\ asked' = asked
      BY <1>1 DEF OpenCheckout
    <2>2. \A v \in Variants : Opened(c).items[v].quantity + asked[v]
                                 <= carts[c].items[v].quantity + asked'[v]
      BY <2>1, OpenedHolds
    <2> QED
      BY <2>1, <2>2, RowGrows
  <1>2. ASSUME NEW arrives \in BOOLEAN, ReplayOrder(a, arrives) PROVE GoodsInv'
    BY <1>2, GoodsStay DEF ReplayOrder
  <1>3. ASSUME NEW arrives \in BOOLEAN, RefuseOrder(a, arrives) PROVE GoodsInv'
    <2>1. attempt[a].cart \in Carts
      BY <1>3 DEF RefuseOrder, Inv, RequestsInv
    <2> QED
      BY <1>3, <2>1, RevisedGoods DEF RefuseOrder
  <1>4. ASSUME NEW arrives \in BOOLEAN, CreateOrder(a, arrives) PROVE GoodsInv'
    BY <1>4, CreateGoods
  <1> QED
    BY <1>1, <1>2, <1>3, <1>4 DEF Serve

\* A repetition adds what it counts as asked for.
LEMMA RepeatGoods ==
    ASSUME Inv, GoodsInv, Inv', NEW o \in orders, NEW k \in Keys, RepeatOrder(o, k)
    PROVE  GoodsInv'
  <1> DEFINE row == Edited(Customer, WithOrder(o))
  <1>1. Customer \in Carts /\ orders' = orders
    BY DEF Carts, RepeatOrder
  <1>2. CASE Repeated(k)
    <2>1. carts' = carts /\ asked' = asked
      BY <1>2 DEF RepeatOrder, Repeated
    <2> QED
      BY <1>1, <2>1, GoodsStay
  <1>3. CASE ~Repeated(k)
    <2>1. ASSUME NEW v \in Variants
          PROVE  /\ Added(o, v) \in Nat /\ carts[Customer].items[v].quantity \in Nat
                 /\ asked[v] \in Int
                 /\ asked'[v] = IF Added(o, v) > 0
                                THEN asked[v] + Added(o, v) - carts[Customer].items[v].quantity
                                ELSE asked[v]
      BY <1>1, <1>3, AddedType, GoodsAreNumbers DEF RepeatOrder, Repeated
    <2>2. ASSUME NEW v \in Variants
          PROVE  WithOrder(o)[v].quantity = IF Added(o, v) > 0 THEN Added(o, v)
                                            ELSE carts[Customer].items[v].quantity
      BY DEF WithOrder
    <2>3. ASSUME NEW v \in Variants
          PROVE  row.items[v].quantity + asked[v]
                    <= carts[Customer].items[v].quantity + asked'[v]
      <3>1. row.items[v].quantity = WithOrder(o)[v].quantity
        BY DEF Edited
      <3> HIDE DEF row
      <3> QED
        BY <2>1, <2>2, <3>1
    <2>4. CASE carts' = [carts EXCEPT ![Customer] = row]
      <3> HIDE DEF row
      <3> QED
        BY <1>1, <2>3, <2>4, RowGrows
    <2>5. CASE carts' = carts /\ ~ \E v \in Variants : Added(o, v) > 0
      <3>1. \A v \in Variants : carts'[Customer].items[v].quantity + asked[v]
                                   <= carts[Customer].items[v].quantity + asked'[v]
        BY <2>1, <2>5
      <3> QED
        BY <1>1, <2>5, <3>1, OneCartGrows
    <2> QED
      BY <1>3, <2>4, <2>5 DEF RepeatOrder
  <1> QED
    BY <1>2, <1>3

\* Every step keeps the count.
LEMMA NextGoods == Inv /\ GoodsInv /\ [Next]_vars => GoodsInv'
  <1> SUFFICES ASSUME Inv, GoodsInv, [Next]_vars PROVE GoodsInv'
    OBVIOUS
  <1>1. Inv'
    BY NextInv
  <1>2. CASE Others
    BY <1>1, <1>2, GoodsStay, MergeGoods, RepeatGoods DEF Others, Login, ChangeOffer
  <1>3. CASE UNCHANGED vars
    BY <1>3, GoodsStay DEF vars
  <1> QED
    BY <1>1, <1>2, <1>3, EditGoods, BrowseGoods, ServeGoods DEF Next

\* There are no goods in the beginning.
LEMMA InitGoods == Init => GoodsInv
  <1> SUFFICES ASSUME Init PROVE GoodsInv
    OBVIOUS
  <1>1. IsFiniteSet(orders)
    BY FS_EmptySet DEF Init
  <1>2. ASSUME NEW v \in Variants PROVE InCarts(v) + Ordered(v) <= asked[v]
    <2>1. Held(carts, v) = [c \in Carts |-> 0]
      BY DEF Init, Held, Empty, Nothing
    <2>2. InCarts(v) = SumFunctionOnSet([c \in Carts |-> 0], Carts)
      BY <2>1 DEF InCarts, Held, SumFunction
    <2>3. SumFunctionOnSet([c \in Carts |-> 0], Carts) = 0
      <3>1. SumFunctionOnSet([c \in Carts |-> 0], Carts) = 0
        BY FiniteCarts, SumOfZeros
      <3> QED
        BY <3>1
    <2>4. Ordered(v) = SumFunctionOnSet(Sold({}, v), {})
      BY DEF Init, Ordered, Sold, SumFunction
    <2>5. Sold({}, v) \in [{} -> Int]
      BY DEF Sold
    <2>6. Ordered(v) = 0
      BY <2>4, <2>5, SumOfNothing
    <2> QED
      BY <2>2, <2>3, <2>6 DEF Init
  <1> QED
    BY <1>1, <1>2 DEF GoodsInv, NothingFromNothing

\* Goods are never made: whatever edits, merges, repetitions, lost answers and
\* retries come together, carts and orders hold no more of a variant than the
\* customer put into carts (mergeGuestCart, repeatOrder, createInTransaction).
THEOREM NothingAppears == Spec => []NothingFromNothing
  <1>1. Inv /\ GoodsInv /\ [Next]_vars => GoodsInv'
    BY NextGoods
  <1>2. Inv /\ GoodsInv => NothingFromNothing
    BY DEF GoodsInv
  <1> QED
    BY <1>1, <1>2, InitGoods, AlwaysInv, PTL DEF Spec

===============================================================================
