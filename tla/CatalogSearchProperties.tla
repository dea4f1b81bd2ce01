------------------------ MODULE CatalogSearchProperties ------------------------
(***************************************************************************)
(* What the numbers and the pages of the catalogue tell a visitor.         *)
(***************************************************************************)
EXTENDS CatalogSearch

\* The number next to an option, offered or 0, is what choosing it brings, as long
\* as the catalogue stays as it is: on its own, that many products; beside others
\* of its kind, that many more, or fewer when products may have several values of
\* an attribute.  For reduced products it is an upper bound, since they are counted
\* by any variant and found by one of the cheapest.
CountsComeTrue ==
    (visit.state = "shown" /\ visit.calm)
    => \A kind \in FilterKinds : \A value \in OptionsOf(kind) \ visit.query.filter[kind] :
          LET n == visit.counts[kind][value]
              wide == Widened(visit.query, kind, value)
              total == Cardinality(Found(wide, wide.filter))
              more == visit.total + n
          IN IF visit.query.filter[kind] = {}
             THEN total <= n /\ (kind # "sale" => total = n)
             ELSE total <= more /\ (IF kind \in Codes THEN total >= visit.total /\ total >= n
                                                      ELSE total = more)

\* Walking from the first page to the last shows every product of the result, and
\* none twice.
PagesCoverTheResult ==
    (visit.state # "asked" /\ visit.calm)
    => /\ visit.items \cap visit.walked = {}
       /\ Cardinality(visit.items) <= PageLimit
       /\ visit.page >= PageCount(visit.total)
            => visit.items \cup visit.walked = Found(visit.query, visit.query.filter)
==============================================================================
