---------------------------- MODULE CatalogImport ----------------------------
(***************************************************************************)
(* The import of the catalogue from 1C, and the stock it brings: a batch   *)
(* replaces what the site knows of a product, and its stock balances,      *)
(* while orders take from those balances and give back.                    *)
(*                                                                         *)
(* An import is one serializable transaction, tried again after a conflict *)
(* of transactions; so are the confirmation and the return of a hold.  A   *)
(* request that is refused is no step (an import that is refused leaves a  *)
(* line in the audit log).                                                 *)
(*                                                                         *)
(* Abstracted: one product and one warehouse, as in every batch of the     *)
(* adapter; a projection (product, attribute, variant, price) is one value *)
(* with a version; versions are compared as the numbers in their names.    *)
(***************************************************************************)
EXTENDS Integers, FiniteSets

CONSTANTS
    Attributes,  \* codes of attributes
    Skus,        \* variants of the product, by their identity in 1C
    NoSku,       \* no variant
    Values,      \* contents of projections
    NoValue,     \* the projection is not there
    Batches,     \* what 1C may send
    Seeds,       \* the products the database may start with
    Sections,    \* categories of the catalogue
    Mapped,      \* the categories to which the product's group in 1C is mapped
    Holds,       \* lines of orders that reserve stock
    Pieces       \* quantities of such a line

Whole == <<"product", NoSku>>
Facts == {Whole} \cup ({"attribute"} \X Attributes) \cup ({"variant", "price"} \X Skus)

\* Version 0: the projection is not there.
Fact == [version : Nat, value : Values \cup {NoValue}]
Balance == [version : Nat, onHand : Nat, reserved : Nat, available : Nat]
NoFact == [version |-> 0, value |-> NoValue]
NoBalance == [version |-> 0, onHand |-> 0, reserved |-> 0, available |-> 0]

\* What the checks of the database ask of a balance, and a little more.
Fits(b) == b.reserved >= 0 /\ b.available >= 0 /\ b.reserved + b.available <= b.onHand

\* A batch brings the product, attributes, and variants, each with a price and
\* a balance.
IsBatch(b) ==
    /\ b.version \in Nat \ {0}
    /\ b.value \in [Facts -> Values \cup {NoValue}] /\ b.value[Whole] # NoValue
    /\ b.stock \in [Skus -> Balance]
    /\ \A s \in Skus : \/ b.stock[s] = NoBalance
                       \/ b.stock[s].version = b.version /\ Fits(b.stock[s])

ASSUME SkuNamesAssumption == NoSku \notin Skus /\ NoValue \notin Values
ASSUME BatchesAssumption == \A b \in Batches \cup Seeds : IsBatch(b)
ASSUME PiecesAssumption == Pieces \subseteq Nat \ {0}

VARIABLES
    fact,     \* rows of products, attributes, variants and prices
    balance,  \* rows of stock balances
    filed,    \* rows of product_categories: how the product is filed
    held      \* rows of stock reservations

catalogVars == <<fact, balance, filed, held>>

-------------------------------------------------------------------------------
Hold == [state : {"none", "ACTIVE", "EXPIRED"}, sku : Skus \cup {NoSku}, quantity : Nat]

CatalogTypeOK ==
    /\ fact \in [Facts -> Fact]
    /\ balance \in [Skus -> Balance]
    /\ filed \in [Sections -> {"no", "yes", "primary"}]
    /\ held \in [Holds -> Hold]

Row(b, f) == IF b.value[f] = NoValue THEN NoFact ELSE [version |-> b.version, value |-> b.value[f]]

\* The database is empty, or it has the demo product of the seed.
CatalogInit ==
    /\ \/ /\ fact = [f \in Facts |-> NoFact]
          /\ balance = [s \in Skus |-> NoBalance]
          /\ filed = [c \in Sections |-> "no"]
       \/ \E b \in Seeds :
             /\ fact = [f \in Facts |-> Row(b, f)]
             /\ balance = b.stock
             /\ filed = [c \in Sections |-> IF c \in Mapped THEN "primary" ELSE "no"]
    /\ held = [h \in Holds |-> [state |-> "none", sku |-> NoSku, quantity |-> 0]]

-------------------------------------------------------------------------------
(* Whether a batch may be applied.                                         *)

Slip_Overwrite(v, now, same) == now = 0 \/ v # now \/ same
Slip_EqualIsNewer(v, now, same) == now = 0 \/ v >= now

\* assertCatalogProjectionRevision: an older version is refused, an equal one
\* unless nothing changes.
MayFollow(v, now, same) == now = 0 \/ v > now \/ (v = now /\ same)

\* The version that speaks for a projection: its own, or the one above it when
\* it is not there.
First(v, w) == IF v # 0 THEN v ELSE w
VariantVersion(s) == First(fact[<<"variant", s>>].version, fact[Whole].version)
FactVersion(f) == First(fact[f].version,
                        IF f[1] = "price" THEN VariantVersion(f[2]) ELSE fact[Whole].version)
StockVersion(s) == First(balance[s].version, VariantVersion(s))

FactMayFollow(b, f) == MayFollow(b.version, FactVersion(f), b.value[f] = fact[f].value)
StockMayFollow(b, s) == MayFollow(b.version, StockVersion(s), b.stock[s] = balance[s])

\* An attribute or variant of this very version is missing from the batch.
Missing(b, f) == f[1] \in {"attribute", "variant"} /\ b.value[f] = NoValue
                    /\ fact[f].version = b.version

\* assertProductCanApply: a product not known yet is not compared with anything.
CanApply(b) ==
    fact[Whole].version = 0 \/
      /\ \A f \in Facts : b.value[f] # NoValue => FactMayFollow(b, f)
      /\ \A s \in Skus : b.stock[s].version # 0 => StockMayFollow(b, s)
      /\ \A f \in Facts : ~Missing(b, f)

\* upsertProduct: the group of the product in 1C adds a category, as the primary
\* one only if there is none.
File == filed' = [c \in Sections |->
                     IF c \notin Mapped \/ filed[c] # "no" THEN filed[c]
                     ELSE IF \E d \in Sections : filed[d] = "primary" THEN "yes" ELSE "primary"]

\* What the batch does not bring stays as it was.
Upserted(b) ==
    /\ fact' = [f \in Facts |-> IF b.value[f] = NoValue THEN fact[f] ELSE Row(b, f)]
    /\ balance' = [s \in Skus |-> IF b.stock[s].version = 0 THEN balance[s] ELSE b.stock[s]]
    /\ File

Import(b) ==
    /\ CanApply(b)
    /\ Upserted(b)
    /\ UNCHANGED held

-------------------------------------------------------------------------------
(* Orders take stock and give it back, whatever was imported in between.   *)

Moved(s, q) == [balance[s] EXCEPT !.reserved = @ + q, !.available = @ - q]

Confirm(h, s, q) ==
    /\ held[h].state = "none"
    /\ balance[s].version # 0
    /\ q <= balance[s].available
    /\ balance' = [balance EXCEPT ![s] = Moved(s, q)]
    /\ held' = [held EXCEPT ![h] = [state |-> "ACTIVE", sku |-> s, quantity |-> q]]
    /\ UNCHANGED <<fact, filed>>

Slip_NoCheck(s, q) == TRUE

\* Without so many pieces reserved the release is refused (STOCK_PROJECTION_INVALID).
StillReserved(s, q) == q <= balance[s].reserved

Release(h) ==
    LET s == held[h].sku
        q == held[h].quantity
    IN /\ held[h].state = "ACTIVE"
       /\ StillReserved(s, q)
       /\ balance' = [balance EXCEPT ![s] = Moved(s, -q)]
       /\ held' = [held EXCEPT ![h].state = "EXPIRED"]
       /\ UNCHANGED <<fact, filed>>

-------------------------------------------------------------------------------
CatalogNext ==
    \/ \E b \in Batches : Import(b)
    \/ \E h \in Holds, s \in Skus, q \in Pieces : Confirm(h, s, q)
    \/ \E h \in Holds : Release(h)

CatalogSpec == CatalogInit /\ [][CatalogNext]_catalogVars
==============================================================================
