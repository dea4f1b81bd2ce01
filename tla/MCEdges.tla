------------------------------- MODULE MCEdges -------------------------------
(***************************************************************************)
(* The edges of the system, in one run: each behaviour is a story about    *)
(* signed requests, an order e-mail, the feed of orders, the search box,   *)
(* proofs of payment, invoices or the demo data, and the others rest.      *)
(***************************************************************************)
EXTENDS OneCTransportProperties, OrderMails, OrderFeed,
        SearchBoxProperties, ProofOfPaymentProperties, DemoOrders, TLC

\* A word, the same as it is spelt in Latin letters, and a longer word that is
\* the synonym of a third.  More articles match "ca" than the list can hold.
Named(value, spellings) == [value |-> value, spellings |-> spellings]

WordSpellings == [ca |-> {"ca", "ka"}, cal |-> {"cal"}, choco |-> {"choco"}]
OneSynonym == {<<"choco", "cal">>}
CatalogEntries ==
    [SKU |-> [i \in 1..7 |-> Named(ToString(i), {"ca"})],
     PRODUCT |-> <<Named("Callebaut dark", {"ca", "cal"})>>,
     CATEGORY |-> <<Named("Callets", {"ca", "cal"})>>,
     BRAND |-> <<Named("Callebaut", {"ca", "cal"})>>,
     QUERY |-> <<Named("choc", {"choco"}), Named("choc", {"choco"})>>]
-------------------------------------------------------------------------------
VARIABLE story

Stories == {"calls", "window", "mails", "feed", "box", "proof", "invoice", "demo"}

\* What rests does so in one of its initial states.
Resting ==
    /\ story # "box" => text = ""
    /\ story # "demo" => target = "PAID"

EdgesInit ==
    /\ story \in Stories
    /\ TransportInit /\ MailInit /\ FeedInit /\ BoxInit /\ ProofInit /\ DemoInit
    /\ Resting

\* Proofs and invoices of a payment are rows of one table that have nothing to do
\* with each other, and have a story each.
Apart == IF story = "proof" THEN /\ payment'.until = payment.until
                                 /\ \A a \in Attempts : attempt'[a].file # Invoice
                            ELSE \A a \in Attempts : attempt'[a].key = NoKey

\* A call with its attempts needs little time; the window of the guard, what is
\* kept of a nonce and its end are those of one request.
Timed == IF story = "calls" THEN clock' <= 2
                            ELSE \A n \in Nonces \ {1} : sent'[n] = sent[n]

Rest(others) == UNCHANGED <<story, others>>

EdgesNext ==
    \/ /\ story \in {"calls", "window"} /\ TransportNext /\ Timed
       /\ Rest(<<mailVars, feedVars, boxVars, proofVars, demoVars>>)
    \/ /\ story = "mails" /\ MailNext
       /\ Rest(<<transportVars, feedVars, boxVars, proofVars, demoVars>>)
    \/ /\ story = "feed" /\ FeedNext
       /\ Rest(<<transportVars, mailVars, boxVars, proofVars, demoVars>>)
    \/ /\ story = "box" /\ BoxNext
       /\ Rest(<<transportVars, mailVars, feedVars, proofVars, demoVars>>)
    \/ /\ story \in {"proof", "invoice"} /\ (Submitting \/ Storing) /\ Apart
       /\ Rest(<<transportVars, mailVars, feedVars, boxVars, demoVars>>)
    \/ /\ story = "demo" /\ DemoNext
       /\ Rest(<<transportVars, mailVars, feedVars, boxVars, proofVars>>)

edgesVars == <<story, transportVars, mailVars, feedVars, boxVars, proofVars, demoVars>>

EdgesSpec == EdgesInit /\ [][EdgesNext]_edgesVars

-------------------------------------------------------------------------------
\* Two handlers (of requests, of mails, of proofs), and two contents that serve as
\* keys as well.
EdgesSym == Permutations(Handlers) \cup Permutations(Contents)
==============================================================================
