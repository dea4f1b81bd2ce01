----------------------- MODULE CatalogImportProperties -----------------------
(***************************************************************************)
(* What the catalogue and the stock keep while imports and orders mix.     *)
(***************************************************************************)
EXTENDS CatalogImport, Functions

\* No balance promises more than there is in the warehouse, or goes below zero,
\* although an import overwrites the reservations that orders have made and the
\* orders return them later.
BalancesFit == \A s \in Skus : Fits(balance[s])

\* Pieces of a variant in active reservations.
Reserved(s) == SumFunctionOnSet([h \in Holds |-> held[h].quantity],
                                {h \in Holds : held[h].state = "ACTIVE" /\ held[h].sku = s})

\* What the catalogue says changes only with a newer version from 1C, for every
\* projection by itself, and as long as a balance has its version the stock
\* moves exactly as the reservations of orders do: a batch that comes again, or
\* late, takes nothing back.
VersionsSettleTheCatalog ==
    [][/\ \A f \in Facts : fact'[f] # fact[f] => fact'[f].version > fact[f].version
       /\ \A s \in Skus :
             \/ balance'[s].version > balance[s].version
             \/ /\ balance'[s].version = balance[s].version
                /\ balance'[s].onHand = balance[s].onHand
                /\ balance'[s].reserved - balance[s].reserved = Reserved(s)' - Reserved(s)
                /\ balance'[s].available - balance[s].available = Reserved(s) - Reserved(s)'
      ]_catalogVars
==============================================================================
