------------------------- MODULE OneCInboxProperties -------------------------
(***************************************************************************)
(* What the inbox must get right whatever 1C sends in whatever order, and  *)
(* wherever a worker crashes, is late or loses an answer.                  *)
(***************************************************************************)
EXTENDS OneCInbox

\* The messages the stream has taken in, and their versions.
Accepted         == {m \in Messages : job[m] \notin {"NONE", "REJECTED"}}
AcceptedVersions == {Seq[m] : m \in Accepted}

\* A message counts as APPLIED only if the order really took its version or a
\* newer one: no path through duplicates, lost answers, reclaimed jobs and
\* late workers marks a message as done that never had its effect.
AppliedIsTaken ==
    \A m \in Messages : job[m] = "APPLIED" => Seq[m] <= order.oneCVersion

\* A verdict on a message stands.  A worker whose claim was taken over may
\* still finish, with any result, but it neither undoes an APPLIED job nor
\* puts a dead letter back into the stream; only an operator's request does.
VerdictStands ==
    [][\A m \in Messages :
          job[m] \in {"APPLIED", "DLQ"} /\ job'[m] # job[m]
             => requeuing'[m] = requeuing[m] - 1]_vars

Stream == INSTANCE OneCStream WITH
             Versions <- {Seq[m] : m \in Messages},
             accepted <- AcceptedVersions,
             taken    <- order.oneCVersion

\* The inbox implements the abstract stream: it accepts one message per
\* version and leaves no hole between versions, and the order takes them over
\* in their order, never one before all accepted earlier ones are done.
ImplementsStream == Stream!Spec

\* The order of this stream, column by column.
TheOrder == {"order"}

OneC == INSTANCE OneCOrder WITH
           Orders      <- TheOrder,
           Versions    <- {Seq[m] : m \in Messages},
           Deadlines   <- {Until[m] : m \in Messages},
           exported    <- [o \in TheOrder |-> order.exported],
           status      <- [o \in TheOrder |-> order.status],
           oneCVersion <- [o \in TheOrder |-> order.oneCVersion],
           held        <- [o \in TheOrder |-> order.held],
           deadline    <- [o \in TheOrder |-> order.deadline]

\* The inbox implements what the site promises 1C, as OrderFulfilment does for
\* messages that arrive out of nowhere: although the call a worker makes was
\* chosen from an order read before, and the order has moved since, no worker
\* reserves a reserved order's goods again, prolongs or pays an order that
\* has expired or been cancelled meanwhile, or acts on one 1C does not know.
ImplementsOrder == OneC!Spec

\* Work on m has ended: it is applied, or it stands at or behind a dead letter
\* that waits for the operator.
Settled(m) ==
    \/ job[m] = "APPLIED"
    \/ \E e \in Messages : job[e] = "DLQ" /\ Seq[e] <= Seq[m]

\* No accepted message is forgotten, although its worker may crash at any
\* point or its job may wait behind others.
AcceptedIsSettled ==
    \A m \in Messages : job[m] \in Pending ~> Settled(m)

\* admin-operations.service.ts:699: a job that is neither dead nor waiting for
\* a retry "cannot safely be repeated by hand", least of all an APPLIED one.
AppliedIsNotRequeued ==
    [][\A m \in Messages : job[m] = "APPLIED" => job'[m] # "QUEUED"]_vars

\* one-c-inbox.processor.ts:51: a stale PROCESSING claim is recoverable.  If it
\* were, a message would not end as a dead letter, with all that follow it
\* waiting behind, for the reason that the order has taken it already.
StaleClaimRecovers ==
    \A m \in Messages : job[m] = "DLQ" => Seq[m] # order.oneCVersion
==============================================================================
