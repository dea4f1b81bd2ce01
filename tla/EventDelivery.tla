---------------------------- MODULE EventDelivery ----------------------------
(***************************************************************************)
(* What the transactional outbox promises, with no relay, queue, lease,    *)
(* retry or duplicate: an event written with a business transaction is     *)
(* settled once, as delivered, which means that all its consumers took it, *)
(* or as dead.  Consumers take it in a fixed order, so that no later one   *)
(* (a mail) runs ahead of an earlier one (1C).  Outbox implements this     *)
(* specification.                                                          *)
(***************************************************************************)
CONSTANTS Events,
          Consumers,
          Before     \* Before[c]: the consumers that come before c

VARIABLES chain,     \* chain[e]: the consumers of e, fixed when it is written
          outcome,   \* outcome[e]: "open", "delivered" or "dead"
          taken      \* taken[e]: the consumers that took e

deliveryVars == <<chain, outcome, taken>>

Init == /\ chain \in [Events -> SUBSET Consumers]
        /\ outcome = [e \in Events |-> "open"]
        /\ taken = [e \in Events |-> {}]

\* A consumer may take an event that is dead already: giving up does not stop
\* a delivery under way.
Take(e, c) == /\ c \in chain[e] \ taken[e]
              /\ Before[c] \cap chain[e] \subseteq taken[e]
              /\ taken' = [taken EXCEPT ![e] = @ \cup {c}]
              /\ UNCHANGED <<chain, outcome>>

Deliver(e) == /\ outcome[e] = "open"
              /\ taken[e] = chain[e]
              /\ outcome' = [outcome EXCEPT ![e] = "delivered"]
              /\ UNCHANGED <<chain, taken>>

Bury(e) == /\ outcome[e] = "open"
           /\ outcome' = [outcome EXCEPT ![e] = "dead"]
           /\ UNCHANGED <<chain, taken>>

Settle(e) == Deliver(e) \/ Bury(e)

Next == \E e \in Events : Settle(e) \/ \E c \in chain[e] : Take(e, c)

Spec == Init /\ [][Next]_deliveryVars
==============================================================================
