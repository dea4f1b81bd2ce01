---------------------------- MODULE CatalogSearch ----------------------------
(***************************************************************************)
(* Browsing the catalogue: a visitor's query (text, category, price range, *)
(* filters and order), the page of products it gives, and the options      *)
(* offered next to it, each with the number of products behind it.         *)
(*                                                                         *)
(* The API reads the page and the counts in separate statements; an import *)
(* or an editor may change the catalogue between them and between two      *)
(* requests of the visitor.                                                *)
(*                                                                         *)
(* Abstracted: whether a product matches a text (full-text search,         *)
(* similarity, synonyms and transliteration) is part of the product, and   *)
(* so are the keys it is sorted by; prices and dates are small integers.   *)
(* Suggestions, the page of one product and recommendations are left out.  *)
(***************************************************************************)
EXTENDS Integers, FiniteSets, FiniteSetsExt

CONSTANTS
    Products,     \* ids of products
    Brands,       \* brands that are shown
    NoBrand,      \* no brand, or a hidden one
    Categories,   \* categories that are shown
    Anywhere,     \* no category is asked for
    Under,        \* for each category, those in its subtree, itself included
    AttributeValues, \* for each code of a filterable attribute, its values
    Words,        \* texts that visitors type
    NoWord,       \* no text
    Orders,       \* orders of sorting
    Versions,     \* for each product, the states it may be in
    Ranges,       \* price ranges that visitors type
    PageLimit,    \* products per page
    MaxFilters    \* bound: options a visitor chooses

Codes == DOMAIN AttributeValues
Flags == {"sale", "isNew", "isHit"}
Stocks == {"IN_STOCK", "LOW_STOCK", "BACKORDER", "OUT_OF_STOCK"}

\* Active variants, with the price and the old price of today (0: none), and what
\* its warehouses have available.
Variant == [sku : STRING, price : Nat, old : Nat, left : Nat, backorder : BOOLEAN]

\* has: values of attributes, of the product or of a variant; key: for each order
\* what the product is sorted by, the smaller the earlier.
IsProduct(x) ==
    /\ x.active \in BOOLEAN /\ x.brand \in Brands \cup {NoBrand}
    /\ x.categories \subseteq Categories
    /\ x.variants \subseteq Variant /\ IsFiniteSet(x.variants)
    /\ \A v \in x.variants : v.old # 0 => v.old > v.price /\ v.price # 0
    /\ x.marks \subseteq Flags \ {"sale"} /\ x.matches \subseteq Words
    /\ \A c \in Codes : x.has[c] \subseteq AttributeValues[c]
    /\ \A o \in Orders : x.key[o] \in Int

ASSUME SearchProductsAssumption == /\ Products \subseteq Nat /\ IsFiniteSet(Products)
                                   /\ \A p \in Products : \A x \in Versions[p] : IsProduct(x)
ASSUME SearchNamesAssumption == /\ NoBrand \notin Brands /\ Anywhere \notin Categories
                                /\ NoWord \notin Words
                                /\ Codes \cap ({"brand", "availability"} \cup Flags) = {}
ASSUME SearchBoundsAssumption == PageLimit \in Nat \ {0} /\ MaxFilters \in Nat

VARIABLES
    goods,   \* the products as the catalogue has them
    visit    \* what the visitor asks for and sees

searchVars == <<goods, visit>>

-------------------------------------------------------------------------------
\* The filters and their options.
FilterKinds == {"brand", "availability"} \cup Flags \cup Codes
OptionsOf(kind) == CASE kind = "brand" -> Brands
                     [] kind = "availability" -> Stocks
                     [] kind \in Flags -> {"true"}
                     [] OTHER -> AttributeValues[kind]

\* Options of one kind are alternatives; an empty set does not filter.
Filter == {f \in [FilterKinds -> SUBSET UNION {OptionsOf(k) : k \in FilterKinds}] :
              \A k \in FilterKinds : f[k] \subseteq OptionsOf(k)}
NoFilter == [k \in FilterKinds |-> {}]
FiltersOf(f) == UNION {{k} \X f[k] : k \in FilterKinds}

-------------------------------------------------------------------------------
\* What the shop charges is the cheapest price of the product.  Of several rows
\* with that price the database picks one, whichever it likes, and is taken to
\* pick it every time.
Prices(x) == {v.price : v \in x.variants} \ {0}
Price(x) == Min(Prices(x))
Cheapest(x) == {v \in x.variants : Prices(x) # {} /\ v.price = Price(x)}
Charged(x) == {v \in Cheapest(x) : v = CHOOSE w \in Cheapest(x) : TRUE}
Reduced(variants) == \E v \in variants : v.old > v.price

StockLeft(v) == v.left
Availability(x) ==
    LET left == MapThenSumSet(StockLeft, x.variants)
    IN CASE left > 5 -> "IN_STOCK"
         [] left \in 1..5 -> "LOW_STOCK"
         [] left = 0 /\ (\E v \in x.variants : v.backorder) -> "BACKORDER"
         [] OTHER -> "OUT_OF_STOCK"

\* A product has an option of a filter.
HasOption(x, kind, value) ==
    CASE kind = "brand" -> x.brand = value
      [] kind = "availability" -> Availability(x) = value
      [] kind = "sale" -> Reduced(Charged(x))
      [] kind \in {"isNew", "isHit"} -> kind \in x.marks
      [] OTHER -> value \in x.has[kind]

\* The conditions of a query on a product.
Accepts(q, f, x) ==
    /\ x.active /\ x.variants # {}
    /\ q.category # Anywhere => x.categories \cap Under[q.category] # {}
    /\ q.word # NoWord => q.word \in x.matches
    /\ q.range.from # 0 => Prices(x) # {} /\ Price(x) >= q.range.from
    /\ q.range.to # 0 => Prices(x) # {} /\ Price(x) <= q.range.to
    /\ \A k \in FilterKinds : f[k] # {} => \E value \in f[k] : HasOption(x, k, value)

Found(q, f) == {p \in Products : Accepts(q, f, goods[p])}

\* Products with the same key are ordered by their ids.
Slip_NoTieBreak(o, p, r) == goods[p].key[o] < goods[r].key[o]
Before(o, p, r) == \/ goods[p].key[o] < goods[r].key[o]
                   \/ goods[p].key[o] = goods[r].key[o] /\ p < r

OnPage(q, n) ==
    LET found == Found(q, q.filter)
        Place(p) == Cardinality({r \in found : Before(q.order, r, p)})
    IN {p \in found : Place(p) \in (n - 1) * PageLimit .. n * PageLimit - 1}

PageCount(total) == (total + PageLimit - 1) \div PageLimit

\* Options are counted among the products that the query finds without its own
\* filter of their kind.
Slip_AsFiltered(q, kind) == Found(q, q.filter)
Scope(q, kind) == Found(q, [q.filter EXCEPT ![kind] = {}])

\* A product counts as reduced when any of its variants is.
Counted(x, kind, value) == IF kind = "sale" THEN Reduced(x.variants) ELSE HasOption(x, kind, value)

Counts(q) == [k \in FilterKinds |->
                 [value \in OptionsOf(k) |->
                    Cardinality({p \in Scope(q, k) : Counted(goods[p], k, value)})]]

-------------------------------------------------------------------------------
Query == [category : Categories \cup {Anywhere}, word : Words \cup {NoWord},
          range : Ranges, order : Orders, filter : Filter]

\* asked; listed: the products have been read; shown: the counts as well.  calm:
\* the catalogue has stayed as it was since the first of the pages walked through;
\* walked: the products of the pages before.
SearchTypeOK ==
    /\ DOMAIN goods = Products /\ \A p \in Products : goods[p] \in Versions[p]
    /\ visit.state \in {"asked", "listed", "shown"} /\ visit.calm \in BOOLEAN
    /\ visit.query \in Query /\ visit.page \in Nat \ {0}
    /\ visit.items \subseteq Products /\ visit.walked \subseteq Products
    /\ visit.total \in Nat
    /\ \A k \in FilterKinds : \A value \in OptionsOf(k) : visit.counts[k][value] \in Nat

NoCounts == [k \in FilterKinds |-> [value \in OptionsOf(k) |-> 0]]
Asked(q, n, walked) ==
    [state |-> "asked", query |-> q, page |-> n, items |-> {}, total |-> 0, counts |-> NoCounts,
     calm |-> TRUE, walked |-> walked]

Arriving == [category : Categories \cup {Anywhere}, word : Words \cup {NoWord}, range : Ranges,
             order : Orders, filter : {NoFilter}]

SearchInit ==
    /\ goods \in {g \in [Products -> UNION {Versions[p] : p \in Products}] :
                     \A p \in Products : g[p] \in Versions[p]}
    /\ visit \in {Asked(q, 1, {}) : q \in Arriving}

-------------------------------------------------------------------------------
\* The total comes with the rows of the page: an empty page says 0.
ReadPage ==
    /\ visit.state = "asked"
    /\ LET items == OnPage(visit.query, visit.page)
       IN visit' = [visit EXCEPT !.state = "listed", !.items = items,
                                 !.total = IF items = {} THEN 0 ELSE
                                           Cardinality(Found(visit.query, visit.query.filter))]
    /\ UNCHANGED goods

ReadCounts ==
    /\ visit.state = "listed"
    /\ visit' = [visit EXCEPT !.state = "shown", !.counts = Counts(visit.query)]
    /\ UNCHANGED goods

\* The query with one more option of a filter.
Widened(q, kind, value) == [q EXCEPT !.filter = [q.filter EXCEPT ![kind] = @ \cup {value}]]

\* Options without a product are not offered.  Filters and order start at page 1.
Choose(kind, value) ==
    LET q == visit.query
    IN /\ visit.state = "shown" /\ visit.counts[kind][value] > 0 /\ value \notin q.filter[kind]
       /\ Cardinality(FiltersOf(q.filter)) < MaxFilters
       /\ visit' = Asked(Widened(q, kind, value), 1, {})
       /\ UNCHANGED goods

Unchoose(kind, value) ==
    LET f == visit.query.filter
    IN /\ visit.state = "shown" /\ value \in f[kind]
       /\ visit' = Asked([visit.query EXCEPT !.filter = [f EXCEPT ![kind] = @ \ {value}]], 1, {})
       /\ UNCHANGED goods

SortBy(o) ==
    /\ visit.state = "shown" /\ visit.query.order # o
    /\ visit' = Asked([visit.query EXCEPT !.order = o], 1, {})
    /\ UNCHANGED goods

TurnPage ==
    /\ visit.state = "shown" /\ visit.page < PageCount(visit.total)
    /\ visit' = [Asked(visit.query, visit.page + 1, visit.walked \cup visit.items)
                    EXCEPT !.calm = visit.calm]
    /\ UNCHANGED goods

\* An import, an order or an editor changes a product.
ChangeGoods(p, x) ==
    /\ goods[p] # x
    /\ goods' = [goods EXCEPT ![p] = x]
    /\ visit' = [visit EXCEPT !.calm = FALSE]

SearchNext ==
    \/ ReadPage \/ ReadCounts \/ TurnPage
    \/ \E kind \in FilterKinds : \E value \in OptionsOf(kind) : Choose(kind, value) \/ Unchoose(kind, value)
    \/ \E o \in Orders : SortBy(o)
    \/ \E p \in Products : \E x \in Versions[p] : ChangeGoods(p, x)

SearchSpec == SearchInit /\ [][SearchNext]_searchVars
==============================================================================
