------------------------------- MODULE MCSite -------------------------------
(***************************************************************************)
(* The components of the site that share no state with each other, in one  *)
(* run: each behaviour is a story about one of them, and the others rest.  *)
(***************************************************************************)
EXTENDS AccountsProperties, CatalogImportProperties, SiteContentProperties,
        CatalogSearchProperties, TLC

(* A demo database and the batches of the mock 1C, see prisma/seed.ts and  *)
(* one-c/adapters/mock-one-c.adapter.ts.                                   *)

SeedSku == "PD-1"
MockSku == "CB-811"

Stock(v, sku, onHand, reserved) ==
    [s \in Skus |-> IF s = sku THEN [version |-> v, onHand |-> onHand, reserved |-> reserved,
                                     available |-> onHand - reserved]
                               ELSE NoBalance]

DemoSeeds == {[version |-> 1,
               value |-> [f \in Facts |-> IF f = Whole THEN "v1"
                                          ELSE IF f[2] \in {"form", "purpose", SeedSku} THEN "seed"
                                          ELSE NoValue],
               stock |-> Stock(1, SeedSku, 12, 1)]}

Sent(v, value, onHand, reserved) ==
    [version |-> v,
     value |-> [f \in Facts |-> IF f \in {Whole, <<"variant", MockSku>>} THEN "v1"
                                ELSE IF f = <<"price", MockSku>> THEN value
                                ELSE IF f[2] \in {"form", "tempering"} THEN "mock"
                                ELSE NoValue],
     stock |-> Stock(v, MockSku, onHand, reserved)]

MockBatches == {Sent(1, "v1", 12, 1), Sent(2, "v2", 18, 2)}

-------------------------------------------------------------------------------
(* Three products of the catalogue: one that an editor hides and shows, one*)
(* that sells out and loses its old price, one that can only be ordered    *)
(* and whose two packs cost the same.                                      *)

Sells(sku, price, old, left, backorder) ==
    [sku |-> sku, price |-> price, old |-> old, left |-> left, backorder |-> backorder]

Bar == [active |-> TRUE, brand |-> "Callebaut", categories |-> {"couverture"},
        marks |-> {"isNew"}, matches |-> {"dark"}, has |-> [taste |-> {"dark", "milk"}],
        variants |-> {Sells("1 kg", 3, 0, 6, FALSE), Sells("5 kg", 4, 5, 0, FALSE)},
        key |-> [popular |-> 1, price |-> 3]]
Drops == [active |-> TRUE, brand |-> "Belcolade", categories |-> {"drops"},
          marks |-> {"isHit"}, matches |-> {}, has |-> [taste |-> {"dark"}],
          variants |-> {Sells("1 kg", 2, 3, 5, FALSE)}, key |-> [popular |-> 1, price |-> 2]]
Mix == [active |-> TRUE, brand |-> "Callebaut", categories |-> {"drops"},
        marks |-> {"isNew", "isHit"}, matches |-> {}, has |-> [taste |-> {"milk"}],
        variants |-> {Sells("1 kg", 2, 0, 0, TRUE), Sells("2 kg", 2, 3, 0, FALSE)},
        key |-> [popular |-> 0, price |-> 2]]

ThreeProducts == 1..3
TheirVersions == <<{Bar, [Bar EXCEPT !.active = FALSE]},
                   {Drops, [Drops EXCEPT !.variants = {Sells("1 kg", 2, 0, 0, FALSE)}]},
                   {Mix}>>
Subtrees == [chocolate |-> {"chocolate", "couverture", "drops"}, couverture |-> {"couverture"},
             drops |-> {"drops"}]
Tastes == [taste |-> {"dark", "milk"}]
PriceRanges == {[from |-> 0, to |-> 0], [from |-> 0, to |-> 2]}
-------------------------------------------------------------------------------
VARIABLE story

Stories == {"accounts", "tabs", "import", "content", "search"}

\* What rests does so in one of its initial states.
Resting ==
    /\ story # "import" => fact[Whole].version = 0
    /\ story # "content" => kind = "page"
    /\ story # "search" => /\ visit.query.category = Anywhere /\ visit.query.word = NoWord
                           /\ visit.query.range.to = 0 /\ visit.query.order = "popular"
                           /\ goods = <<Bar, Drops, Mix>>

SiteInit ==
    /\ story \in Stories
    /\ AccountsInit /\ CatalogInit /\ ContentInit /\ SearchInit
    /\ Resting

\* The pages of one customer edit an account twice; with two customers and their
\* orders it is edited once.
Edits == IF story = "tabs" THEN guest' = guest /\ \A u \in Users \ {1} : account'[u] = account[u]
                           ELSE \A u \in Users : account'[u].version <= 2

Rest(others) == UNCHANGED <<story, others>>

SiteNext ==
    \/ /\ story \in {"accounts", "tabs"} /\ (ByMail \/ ByPassword \/ ByPage) /\ Edits
       /\ Rest(<<catalogVars, contentVars, searchVars>>)
    \/ /\ story = "import" /\ CatalogNext
       /\ Rest(<<accountVars, contentVars, searchVars>>)
    \/ /\ story = "content" /\ ContentNext
       /\ Rest(<<accountVars, catalogVars, searchVars>>)
    \/ /\ story = "search" /\ SearchNext
       /\ Rest(<<accountVars, catalogVars, contentVars>>)

siteVars == <<story, accountVars, catalogVars, contentVars, searchVars>>

SiteSpec == SiteInit /\ [][SiteNext]_siteVars

-------------------------------------------------------------------------------
(* The same names serve in several components, so that one symmetry serves *)
(* all of them.                                                            *)

SiteSym == Permutations(Emails) \cup Permutations(Requests) \cup Permutations(Passwords)
==============================================================================
