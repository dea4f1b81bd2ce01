--------------------------------- MODULE Shop ---------------------------------
(***************************************************************************)
(* Carts, checkout and repeated orders: a browser with several tabs edits  *)
(* a guest's cart, logs in and merges it, and orders; the catalogue        *)
(* changes under it at any time.                                           *)
(*                                                                         *)
(* A transaction is one step (it locks the cart, or is serializable).      *)
(* Between two transactions of a request others come in: the edit of a     *)
(* cart and the validation that answers it, the validation and the order.  *)
(* Answers are lost; a checkout that timed out in the browser may still be *)
(* on its way and is sent again under its key.                             *)
(*                                                                         *)
(* Abstracted: updatedAt of a cart is a clock that ticks with each use, so *)
(* no two states of a cart carry the same time; a variant and its product  *)
(* are one row, an offer; carts do not expire; the cookie of a new guest   *)
(* cart arrives.  A request that is refused and changes nothing is no step.*)
(*                                                                         *)
(* The operators named Slip_ are mistakes, see README, "Mutants".          *)
(***************************************************************************)
EXTENDS Integers, FiniteSets

CONSTANTS
    Variants,    \* product variants
    Offers,      \* what the catalogue may say of a variant
    Customer,    \* the cart of the customer's account
    Guests,      \* guest carts, each found by the token in a cookie
    NoCart,      \* no cart
    Tabs,        \* tabs of the browser
    Attempts,    \* requests that create an order
    NoAttempt,   \* no such request
    Keys,        \* idempotency keys
    NoKey,       \* no key
    Forms,       \* contents of the checkout form
    Dated,       \* those that name a day of pickup
    Quantities,  \* quantities a customer may type
    MaxAsked,    \* bound: pieces of a variant put into carts in all
    MaxClock     \* bound: changes of carts

Carts == Guests \cup {Customer}

\* Price 0: the variant has no price.  Old price 0: it has no old price.
Offer == [sold : BOOLEAN, price : Nat, old : Nat, available : Nat,
          backorder : BOOLEAN, minimum : Nat \ {0}, multiple : Nat \ {0}]

ASSUME NamesAssumption == /\ Customer \notin Guests
                          /\ NoCart \notin Carts
                          /\ NoAttempt \notin Attempts
                          /\ NoKey \notin Keys

\* A database holds finitely many carts.
ASSUME GuestsAssumption == IsFiniteSet(Guests)

ASSUME DataAssumption == /\ Forms # {}
                         /\ Dated \subseteq Forms
                         /\ Offers \subseteq Offer
                         /\ Quantities \subseteq Nat \ {0}
                         /\ MaxAsked \in Nat
                         /\ MaxClock \in Nat

VARIABLES
    offer,    \* what the catalogue says of each variant
    carts,    \* rows of carts with their items
    clock,    \* the last time written into a cart
    session,  \* the browser is logged in
    cookie,   \* the guest cart the browser's cookie names
    tab,      \* what each tab shows and waits for
    attempt,  \* requests for an order
    orders,   \* orders created
    repeats,  \* idempotency records of repeated orders
    asked     \* pieces the customer has put into carts so far (no code)

vars == <<offer, carts, clock, session, cookie, tab, attempt, orders, repeats, asked>>

-------------------------------------------------------------------------------
Item    == [quantity : Nat, price : Nat, old : Nat]
Nothing == [quantity |-> 0, price |-> 0, old |-> 0]
Lines   == [Variants -> Item]
Empty   == [v \in Variants |-> Nothing]

\* A guest cart is unused, open, or deleted by a merge.
Cart == [state : {"unused", "open", "deleted"}, revision : Nat, items : Lines]

\* A cart as the browser knows it.
View == [revision : Nat, lines : Lines, ready : BOOLEAN]
Blank == [revision |-> 0, lines |-> Empty, ready |-> FALSE]

Payload == [revision : Nat, form : Forms]

Tab == [view : View, key : Keys \cup {NoKey}, payload : Payload,
        waiting : Attempts \cup {NoAttempt}]

AnyForm == CHOOSE f \in Forms : TRUE
NoPayload == [revision |-> 0, form |-> AnyForm]

Attempt == [state : {"unused", "sent", "opened", "done"}, key : Keys \cup {NoKey},
            payload : Payload, shown : Lines, cart : Carts \cup {NoCart}]

\* A request of which only its key is known, before it is sent and when it is done.
Bare(state, k) == [state |-> state, key |-> k, payload |-> NoPayload, shown |-> Empty,
                   cart |-> NoCart]
Unsent == Bare("unused", NoKey)

Order == [cart : Carts, key : Keys, payload : Payload, lines : Lines, shown : Lines]

TypeOK ==
    /\ offer \in [Variants -> Offers]
    /\ carts \in [Carts -> Cart]
    /\ clock \in 0..MaxClock
    /\ session \in BOOLEAN
    /\ cookie \in Guests \cup {NoCart}
    /\ tab \in [Tabs -> Tab]
    /\ attempt \in [Attempts -> Attempt]
    /\ orders \subseteq Order
    /\ repeats \subseteq [key : Keys, order : Order]
    /\ asked \in [Variants -> 0..MaxAsked]

Init ==
    /\ offer \in [Variants -> Offers]
    /\ carts = [c \in Carts |-> [state |-> IF c = Customer THEN "open" ELSE "unused",
                                 revision |-> 0, items |-> Empty]]
    /\ clock = 0
    /\ session = FALSE
    /\ cookie = NoCart
    /\ tab = [t \in Tabs |-> [view |-> Blank, key |-> NoKey, payload |-> NoPayload,
                              waiting |-> NoAttempt]]
    /\ attempt = [a \in Attempts |-> Unsent]
    /\ orders = {}
    /\ repeats = {}
    /\ asked = [v \in Variants |-> 0]

-------------------------------------------------------------------------------
(* Quantities and prices, cart-domain.ts                                    *)

ValidQuantity(q, o) == q >= o.minimum /\ q % o.multiple = 0

Lesser(a, b)  == IF a <= b THEN a ELSE b
Greater(a, b) == IF a >= b THEN a ELSE b
RoundDown(q, o) == (q \div o.multiple) * o.multiple
RoundUp(q, o)   == ((q + o.multiple - 1) \div o.multiple) * o.multiple

\* The most that can be sold of what is asked; 0 if nothing can.
GreatestValid(q, o) == LET most == RoundDown(Lesser(q, o.available), o)
                       IN  IF most >= o.minimum THEN most ELSE 0

ResolveStock(q, o) == IF o.backorder THEN q ELSE GreatestValid(q, o)

-------------------------------------------------------------------------------
(* Validation of a cart                                                     *)

InCart(items, v) == items[v].quantity > 0
Short(i, o) == ~o.backorder /\ i.quantity > o.available

\* Part of the line can still be sold.
Adjusted(i, o) == Short(i, o) /\ GreatestValid(i.quantity, o) > 0

Slip_KeepPrice(i, o) ==
    [i EXCEPT !.quantity = IF Adjusted(i, o) THEN GreatestValid(@, o) ELSE @]

\* The line after its inspection: the quantity follows the stock, the price
\* snapshot follows the catalogue.
Inspected(i, o) ==
    [quantity |-> IF Adjusted(i, o) THEN GreatestValid(i.quantity, o) ELSE i.quantity,
     price    |-> IF o.price > 0 THEN o.price ELSE i.price,
     old      |-> IF o.price > 0 THEN o.old ELSE i.old]

\* The line as it is displayed, and ordered: an old price that the catalogue has
\* withdrawn is displayed once more, from the row as it was before its inspection.
Displayed(i, o) ==
    [Inspected(i, o) EXCEPT !.old = IF o.price > 0 /\ o.old > 0 THEN o.old ELSE i.old]

Blocked(i, o) == \/ ~o.sold
                 \/ o.price = 0
                 \/ ~ValidQuantity(i.quantity, o)
                 \/ Short(i, o) /\ ~Adjusted(i, o)

\* The price snapshots differ from the catalogue.
Repriced(i, o) == o.price > 0 /\ (o.price # i.price \/ o.old # i.old)

Material(i, o) == Adjusted(i, o) \/ Repriced(i, o)

Changed(items) == \E v \in Variants : InCart(items, v) /\ Material(items[v], offer[v])

Validated(items) == [v \in Variants |-> IF InCart(items, v) THEN Inspected(items[v], offer[v])
                                                            ELSE Nothing]

Displays(items) == [v \in Variants |-> IF InCart(items, v) THEN Displayed(items[v], offer[v])
                                                           ELSE Nothing]

CanCheckout(items) == /\ \E v \in Variants : InCart(items, v)
                      /\ \A v \in Variants : InCart(items, v) => ~Blocked(items[v], offer[v])

\* The row after validation, the clock after it, and the view that is shown.
Revised(c) == IF Changed(carts[c].items)
              THEN [carts[c] EXCEPT !.items = Validated(@), !.revision = clock + 1]
              ELSE carts[c]
Ticks(c) == IF Changed(carts[c].items) THEN clock + 1 ELSE clock
Shown(c) == [revision |-> Revised(c).revision, lines |-> Displays(carts[c].items),
             ready |-> CanCheckout(carts[c].items)]

-------------------------------------------------------------------------------
(* Access to a cart                                                         *)

\* Whose cart a request is about: the account's, or the one in the cookie.
Bearer == IF session THEN Customer ELSE cookie

\* The cart a request by the bearer w works on is c, opened if need be.
Opens(w, c) == IF w \in Carts /\ carts[w].state = "open" THEN c = w
               ELSE c \in Guests /\ carts[c].state = "unused"

Opened(c) == IF carts[c].state = "unused"
             THEN [state |-> "open", revision |-> clock + 1, items |-> Empty]
             ELSE carts[c]

\* A new guest cart comes with its cookie.
Cookie(c) == IF carts[c].state = "unused" THEN c ELSE cookie

Slip_NoTouch(c, items) == [state |-> "open", revision |-> carts[c].revision, items |-> items]

\* Every edit of a cart touches its time.
Edited(c, items) == [state |-> "open", revision |-> clock + 1, items |-> items]

Exists(c) == carts[c].state = "open"

-------------------------------------------------------------------------------
(* Requests about a cart                                                    *)

\* A request opens the cart c of its bearer and leaves items in it.
Request(c, items) ==
    /\ Opens(Bearer, c)
    /\ clock < MaxClock
    /\ clock' = clock + 1
    /\ carts' = [carts EXCEPT ![c] = Edited(c, items)]
    /\ cookie' = Cookie(c)
    /\ UNCHANGED <<offer, session, tab, attempt, orders, repeats>>

\* The quantity a customer asks for, as far as the stock lasts.
Sellable(v, q) == /\ offer[v].sold
                  /\ offer[v].price > 0
                  /\ ValidQuantity(q, offer[v])
                  /\ ResolveStock(q, offer[v]) > 0

\* More of v than there was is what the customer has asked for in addition.
Asks(v, before, after) ==
    /\ after > before => asked[v] + after - before <= MaxAsked
    /\ asked' = [asked EXCEPT ![v] = IF after > before THEN @ + after - before ELSE @]

Put(items, v, q) ==
    [items EXCEPT ![v] = IF InCart(items, v) THEN [@ EXCEPT !.quantity = q]
                         ELSE [quantity |-> q, price |-> offer[v].price, old |-> offer[v].old]]

AddItem(c, v, q) ==
    LET items  == Opened(c).items
        wanted == items[v].quantity + q IN
    /\ Sellable(v, wanted)
    /\ Request(c, Put(items, v, ResolveStock(wanted, offer[v])))
    /\ Asks(v, items[v].quantity, ResolveStock(wanted, offer[v]))

UpdateItem(c, v, q) ==
    LET items == Opened(c).items IN
    /\ InCart(items, v)
    /\ Sellable(v, q)
    /\ Request(c, Put(items, v, ResolveStock(q, offer[v])))
    /\ Asks(v, items[v].quantity, ResolveStock(q, offer[v]))

RemoveItem(c, v) == /\ Request(c, [Opened(c).items EXCEPT ![v] = Nothing])
                    /\ UNCHANGED asked

ClearCart(c) == Request(c, Empty) /\ UNCHANGED asked

\* GET /cart, and the second half of every request above: the cart is
\* validated and shown in the tab t, unless the answer is lost.
LookAtCart(t, c, arrives) ==
    /\ Exists(c) /\ Opens(Bearer, c)
    /\ Ticks(c) <= MaxClock
    /\ carts' = [carts EXCEPT ![c] = Revised(c)]
    /\ clock' = Ticks(c)
    /\ tab' = [tab EXCEPT ![t].view = IF arrives THEN Shown(c) ELSE @]
    /\ UNCHANGED <<offer, session, cookie, attempt, orders, repeats, asked>>

-------------------------------------------------------------------------------
(* Login and the merge of the guest's cart                                  *)

Deleted(g) == [state |-> "deleted", revision |-> carts[g].revision, items |-> Empty]

Slip_KeepMine(mine, guests) ==
    [v \in Variants |-> IF InCart(mine, v) THEN mine[v] ELSE guests[v]]

\* The customer's line keeps its price snapshot, a new one takes the guest's.
Joined(mine, guests) ==
    [v \in Variants |-> IF InCart(mine, v)
                        THEN [mine[v] EXCEPT !.quantity = @ + guests[v].quantity]
                        ELSE guests[v]]

\* There is nothing to merge without a cookie that names an open cart.
Mergeable == cookie \in Guests /\ carts[cookie].state = "open"

MergeCarts(arrives) ==
    /\ session
    /\ Mergeable
    /\ clock < MaxClock
    /\ clock' = clock + 1
    /\ carts' = [carts EXCEPT ![cookie] = Deleted(cookie),
                              ![Customer] = Edited(Customer, Joined(@.items, carts[cookie].items))]
    /\ cookie' = IF arrives THEN NoCart ELSE cookie
    /\ UNCHANGED <<offer, session, tab, attempt, orders, repeats, asked>>

Login  == /\ ~session
          /\ session' = TRUE
          /\ UNCHANGED <<offer, carts, clock, cookie, tab, attempt, orders, repeats, asked>>

\* A catalogue import or an administrator changes what is offered.
ChangeOffer(v, o) ==
    /\ offer' = [offer EXCEPT ![v] = o]
    /\ UNCHANGED <<carts, clock, session, cookie, tab, attempt, orders, repeats, asked>>

-------------------------------------------------------------------------------
(* Checkout, in the browser                                                 *)

\* The request a goes out under the key k with what the tab shows.
Send(t, a, k, form) ==
    /\ attempt[a].state = "unused"
    /\ LET payload == [revision |-> tab[t].view.revision, form |-> form] IN
       /\ attempt' = [attempt EXCEPT ![a] =
                        [state |-> "sent", key |-> k, payload |-> payload,
                         shown |-> tab[t].view.lines, cart |-> Bearer]]
       /\ tab' = [tab EXCEPT ![t] = [view |-> @.view, key |-> k, payload |-> payload,
                                     waiting |-> a]]

\* The form sends the same request again under its key, a new one is first
\* checked by the server.
Resends(t, form) == /\ tab[t].key # NoKey
                    /\ tab[t].payload = [revision |-> tab[t].view.revision, form |-> form]

MaySubmit(t) == tab[t].waiting = NoAttempt /\ tab[t].view.ready

Resubmit(t, a, form) ==
    /\ MaySubmit(t)
    /\ Resends(t, form)
    /\ Send(t, a, tab[t].key, form)
    /\ UNCHANGED <<offer, carts, clock, session, cookie, orders, repeats, asked>>

\* POST /checkout/validate: the cart as the form knows it can be ordered.
Accepts(c, revision) == /\ CanCheckout(carts[c].items)
                        /\ ~Changed(carts[c].items)
                        /\ revision = Shown(c).revision

Unused(k) == /\ \A a \in Attempts : attempt[a].key # k
             /\ \A r \in repeats : r.key # k

\* The server agrees, and the request for the order goes out under a new key.
Submit(t, c, a, k, form) ==
    /\ MaySubmit(t)
    /\ ~Resends(t, form)
    /\ Exists(c) /\ Opens(Bearer, c)
    /\ Accepts(c, tab[t].view.revision)
    /\ Unused(k)
    /\ Send(t, a, k, form)
    /\ UNCHANGED <<offer, carts, clock, session, cookie, orders, repeats, asked>>

\* validateCheckoutFields: a form that was right is refused when the day of pickup
\* it names is over.
Lapses(form) == form \in Dated

\* The server's refusal commits what the validation changed.
SubmitRefused(t, c, form) ==
    /\ MaySubmit(t)
    /\ Exists(c) /\ Opens(Bearer, c)
    /\ Lapses(form) \/ ~Accepts(c, tab[t].view.revision)
    /\ Ticks(c) <= MaxClock
    /\ carts' = [carts EXCEPT ![c] = Revised(c)]
    /\ clock' = Ticks(c)
    /\ UNCHANGED <<offer, session, cookie, tab, attempt, orders, repeats, asked>>

\* The browser gives up waiting and keeps key and payload for another try.
TimeOut(t) ==
    /\ tab[t].waiting # NoAttempt
    /\ tab' = [tab EXCEPT ![t].waiting = NoAttempt]
    /\ UNCHANGED <<offer, carts, clock, session, cookie, attempt, orders, repeats, asked>>

-------------------------------------------------------------------------------
(* Checkout, in the server                                                  *)

\* What the answer to the request a does to a tab that waits for it: an order
\* or a refusal ends the use of the key, an error of the server does not.
Heard(a, answer) ==
    [t \in Tabs |->
        IF tab[t].waiting # a THEN tab[t]
        ELSE IF answer = "error" THEN [tab[t] EXCEPT !.waiting = NoAttempt]
        ELSE [view |-> tab[t].view, key |-> NoKey, payload |-> NoPayload,
              waiting |-> NoAttempt]]

\* The answer arrives or is lost.
Answer(a, answer, arrives) ==
    /\ attempt' = [attempt EXCEPT ![a] = Bare("done", @.key)]
    /\ tab' = IF arrives THEN Heard(a, answer) ELSE tab

\* The order a request asks for exists already.
Replayed(a, c) == \E o \in orders : o.cart = c /\ o.key = attempt[a].key

\* Access to the cart, the first look for an order of this key, and at the form.
OpenCheckout(a, c, arrives) ==
    /\ attempt[a].state = "sent"
    /\ Opens(attempt[a].cart, c)
    /\ carts[c].state = "unused" => clock < MaxClock
    /\ clock' = IF carts[c].state = "unused" THEN clock + 1 ELSE clock
    /\ carts' = [carts EXCEPT ![c] = Opened(c)]
    /\ cookie' = Cookie(c)
    /\ IF Replayed(a, c)
       THEN Answer(a, "order", arrives)
       ELSE \/ /\ attempt' = [attempt EXCEPT ![a].state = "opened", ![a].cart = c]
               /\ UNCHANGED tab
            \/ Lapses(attempt[a].payload.form) /\ Answer(a, "refusal", arrives)
    /\ UNCHANGED <<offer, session, orders, repeats, asked>>

\* The transaction finds an order, of whatever request (a different one is
\* refused, which ends the use of the key as well), or no cart any more.
ReplayOrder(a, arrives) ==
    LET c == attempt[a].cart IN
    /\ attempt[a].state = "opened"
    /\ ~Exists(c) \/ Replayed(a, c)
    /\ Answer(a, IF Replayed(a, c) THEN "order" ELSE "error", arrives)
    /\ UNCHANGED <<offer, carts, clock, session, cookie, orders, repeats, asked>>

\* The cart is not what the customer saw: the order is refused, what the
\* validation changed is kept.
RefuseOrder(a, arrives) ==
    LET c == attempt[a].cart IN
    /\ attempt[a].state = "opened"
    /\ Exists(c) /\ ~Replayed(a, c)
    /\ ~Accepts(c, attempt[a].payload.revision)
    /\ Ticks(c) <= MaxClock
    /\ carts' = [carts EXCEPT ![c] = Revised(c)]
    /\ clock' = Ticks(c)
    /\ Answer(a, "refusal", arrives)
    /\ UNCHANGED <<offer, session, cookie, orders, repeats, asked>>

\* What an order leaves of its cart.
Slip_CartStays(c) == carts[c]
Emptied(c) == [carts[c] EXCEPT !.items = Empty, !.revision = clock + 1]

CreateOrder(a, arrives) ==
    LET c == attempt[a].cart IN
    /\ attempt[a].state = "opened"
    /\ Exists(c) /\ ~Replayed(a, c)
    /\ Accepts(c, attempt[a].payload.revision)
    /\ clock < MaxClock
    /\ orders' = orders \cup {[cart |-> c, key |-> attempt[a].key,
                               payload |-> attempt[a].payload,
                               lines |-> Displays(carts[c].items),
                               shown |-> attempt[a].shown]}
    /\ carts' = [carts EXCEPT ![c] = Emptied(c)]
    /\ clock' = clock + 1
    /\ Answer(a, "order", arrives)
    /\ UNCHANGED <<offer, session, cookie, repeats, asked>>

-------------------------------------------------------------------------------
(* Repeating an order                                                       *)

\* What the cart holds of a variant after an order line was repeated, within
\* the rules and the stock of today; 0 if nothing can be added.
RepeatTotal(held, again, o) ==
    LET wanted == RoundUp(Greater(held + again, o.minimum), o)
        total  == IF o.backorder THEN wanted ELSE Lesser(wanted, RoundDown(o.available, o))
    IN  IF o.sold /\ o.price > 0 /\ total >= o.minimum /\ total > held THEN total ELSE 0

Added(o, v) == IF InCart(o.lines, v)
               THEN RepeatTotal(carts[Customer].items[v].quantity, o.lines[v].quantity, offer[v])
               ELSE 0

WithOrder(o) ==
    [v \in Variants |-> IF Added(o, v) > 0
                        THEN [quantity |-> Added(o, v), price |-> offer[v].price,
                              old |-> offer[v].old]
                        ELSE carts[Customer].items[v]]

Slip_NeverRepeated(k) == k \notin Keys
Repeated(k) == \E r \in repeats : r.key = k

\* The first request of a key fills the cart, the others only show it; the
\* validation that follows is the one of every request about a cart.
RepeatOrder(o, k) ==
    LET grows == \E v \in Variants : Added(o, v) > 0 IN
    /\ session
    /\ o.cart = Customer
    /\ \A r \in repeats : r.key = k => r.order = o
    /\ \A a \in Attempts : attempt[a].key # k
    /\ IF Repeated(k)
       THEN UNCHANGED <<carts, clock, repeats>>
       ELSE /\ grows => clock < MaxClock
            /\ carts' = IF grows THEN [carts EXCEPT ![Customer] = Edited(Customer, WithOrder(o))]
                                 ELSE carts
            /\ clock' = IF grows THEN clock + 1 ELSE clock
            /\ repeats' = repeats \cup {[key |-> k, order |-> o]}
    /\ asked' = IF \E r \in repeats : r.key = k THEN asked
                ELSE [v \in Variants |-> IF Added(o, v) > 0
                        THEN asked[v] + Added(o, v) - carts[Customer].items[v].quantity
                        ELSE asked[v]]
    /\ \A v \in Variants : asked'[v] <= MaxAsked
    /\ UNCHANGED <<offer, session, cookie, tab, attempt, orders>>

-------------------------------------------------------------------------------
EditCart(c) == \/ \E v \in Variants, q \in Quantities : AddItem(c, v, q) \/ UpdateItem(c, v, q)
               \/ \E v \in Variants : RemoveItem(c, v)
               \/ ClearCart(c)

Browse(t) ==
    \/ \E c \in Carts, arrives \in BOOLEAN : LookAtCart(t, c, arrives)
    \/ \E c \in Carts, a \in Attempts, k \in Keys, f \in Forms : Submit(t, c, a, k, f)
    \/ \E c \in Carts, f \in Forms : SubmitRefused(t, c, f)
    \/ \E a \in Attempts, f \in Forms : Resubmit(t, a, f)
    \/ TimeOut(t)

Serve(a) == \E arrives \in BOOLEAN :
    \/ \E c \in Carts : OpenCheckout(a, c, arrives)
    \/ ReplayOrder(a, arrives)
    \/ RefuseOrder(a, arrives)
    \/ CreateOrder(a, arrives)

Others == \/ Login
          \/ \E arrives \in BOOLEAN : MergeCarts(arrives)
          \/ \E o \in orders, k \in Keys : RepeatOrder(o, k)
          \/ \E v \in Variants, o \in Offers : ChangeOffer(v, o)

Next == \/ \E c \in Carts : EditCart(c)
        \/ \E t \in Tabs : Browse(t)
        \/ \E a \in Attempts : Serve(a)
        \/ Others

Spec == Init /\ [][Next]_vars
===============================================================================
