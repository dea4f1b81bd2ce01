------------------------------ MODULE OneCStream ------------------------------
(***************************************************************************)
(* What the inbox promises about the versions 1C gives to one order, with  *)
(* no jobs, workers, crashes, retries or operators: versions are accepted  *)
(* without a hole, and the order takes them over in their order, each at   *)
(* most once and none before those accepted below it.  OneCInbox           *)
(* implements this specification.                                          *)
(***************************************************************************)
EXTENDS Integers

CONSTANT Versions      \* versions 1C may give to the order

VARIABLES accepted,    \* versions the inbox has accepted
          taken        \* the last version the order took over, 0: none

streamVars == <<accepted, taken>>

Init == /\ accepted = {}
        /\ taken = 0

\* The first message of a stream may have any version; after it, only the
\* next one is accepted.
Accept(n) == /\ accepted = {} \/ n - 1 \in accepted
             /\ n \notin accepted
             /\ accepted' = accepted \cup {n}
             /\ UNCHANGED taken

Take(n) == /\ n \in accepted
           /\ n > taken
           /\ \A k \in accepted : k < n => k <= taken
           /\ taken' = n
           /\ UNCHANGED accepted

Next == \E n \in Versions : Accept(n) \/ Take(n)

Spec == Init /\ [][Next]_streamVars
==============================================================================
