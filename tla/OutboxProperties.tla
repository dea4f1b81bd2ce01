--------------------------- MODULE OutboxProperties ---------------------------
(***************************************************************************)
(* What the outbox must get right with several deliveries of one event at  *)
(* once, crashes and lost answers anywhere, and expiring leases.           *)
(***************************************************************************)
EXTENDS Outbox

\* The number of deliveries that can fail is limited, although each counts
\* from the attempts it had read and several fail at once: a row that can be
\* delivered again has attempts left, and no row exceeds the maximum.
AttemptsAreLimited ==
    \A e \in Events : /\ row[e].attempts <= MaxAttempts
                      /\ row[e].status \notin Terminal => row[e].attempts < MaxAttempts

\* No late delivery, expired lease or returning relay moves an event that is
\* settled, or sets its attempts back.
SettledStays ==
    [][\A e \in Events : /\ row[e].status \in Terminal => row'[e] = row[e]
                         /\ row'[e].attempts >= row[e].attempts]_vars

\* What the journal says was sent is what 1C stored under the key, for any
\* interleaving of deliveries that built different commands.
JournalIsTrue ==
    \A e \in Events : journal[e] # 0 => accepted[e] = journal[e]

OutcomeOf(status) == CASE status = "PUBLISHED" -> "delivered"
                       [] status = "DLQ"       -> "dead"
                       [] OTHER                -> "open"

Outcome == [e \in Events |-> OutcomeOf(row[e].status)]

Delivery == INSTANCE EventDelivery WITH chain <- Chain, outcome <- Outcome

\* The outbox implements the abstract delivery: an event is published only
\* when all its consumers took it, in their order (the mail about an order
\* goes out only after 1C has it), and what is settled is settled for good.
ImplementsDelivery == Delivery!Spec

\* No event stays open for ever, wherever its jobs are lost, its deliveries
\* fail and its leases run out: in the end it is published or a dead letter.
EveryEventIsSettled == \A e \in Events : <>(row[e].status \in Terminal)

\* docs/architecture.md:115: delivery is at-least-once, consumers are
\* idempotent.  If they were, the redelivery of a command that 1C has and the
\* journal records would be answered, and not fail as a conflict.
RedeliveryIsNoConflict ==
    \A w \in Workers : task[w].code = "CONFLICT" => journal[task[w].event] = 0

\* docs/one-c-integration.md:363: an administrator may replay a dead event.
ReplayIsQueued == \A e \in Events : replay[e] # "failed"
===============================================================================
