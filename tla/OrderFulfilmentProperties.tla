---------------------- MODULE OrderFulfilmentProperties ----------------------
(***************************************************************************)
(* What the fulfilment of orders must get right whatever the interleaving  *)
(* of 1C, managers, customers, expiry jobs and sweeps.                     *)
(***************************************************************************)
EXTENDS OrderFulfilment

\* The orders whose reservation rows are ACTIVE, and the units of v they hold,
\* one element per unit.
Holding == {o \in Orders : reservation[o] = "ACTIVE"}
HeldUnits(v) == UNION {{o} \X (1..Qty[o][v]) : o \in Holding}

\* An order that may still be paid or has been paid holds its stock until the
\* very deadline the order shows, and stock counts as expired exactly when the
\* order does.  The two rows that repeat the deadline are written by different
\* statements of confirmFromOneC and applyFromOneC.
HoldMatchesStatus ==
    \A o \in Orders :
        /\ status[o] \in PayableStatus \cup PaidStatus =>
              /\ reservation[o] = "ACTIVE"
              /\ heldUntil[o] = deadline[o]
              /\ deadline[o] > 0
        /\ reservation[o] = "EXPIRED" <=> status[o] = "RESERVATION_EXPIRED"
        /\ reservation[o] = "NONE" => deadline[o] = 0 /\ payment[o] = "NONE"

\* Order and payment, two rows with two versions, never contradict each other:
\* goods leave only against a CONFIRMED payment, a CONFIRMED payment is never
\* left on an order that is not paid, and an order is in verification only
\* with a proof to verify (a manager could neither reject nor pass it on).
PaymentMatchesStatus ==
    \A o \in Orders :
        /\ status[o] \in PaidStatus <=> payment[o] = "CONFIRMED"
        /\ status[o] = "PAYMENT_VERIFICATION" => payment[o] = "PROOF_UPLOADED"
        /\ status[o] = "AWAITING_PAYMENT" => payment[o] # "PROOF_UPLOADED"
        /\ payment[o] = "NONE" => paymentVersion[o] = 0

\* How far order o has come in the numbers that keys of this type are built of;
\* a transaction still to come builds its key from a larger number (or, for a
\* request and an expiry, from the order version itself).
KeyLimit(type, o) ==
    CASE type \in {"stock_confirmed", "reservation_extended",
                   "payment.confirmed-one-c"}          -> oneCVersion[o]
      [] type = "reservation_expiry_reminder"          -> deadline[o]
      [] type \in {"payment.details_published", "payment.proof_submitted",
                   "payment.confirmed", "payment.rejected"} -> paymentVersion[o]
      [] type = "reservation_expired"                  -> version[o] - 1
      [] OTHER                                         -> version[o]

\* The unique outbox key never stands in the way of a transaction that has
\* something new to say: no key ahead of its order is ever taken, so that a
\* confirmation, an extension, a proof or an expiry neither fails nor goes
\* unsaid because an earlier event of the same order has used its key.
OutboxKeysStayBehind ==
    \A row \in outbox : row.n <= KeyLimit(row.type, row.order)

------------------------------------------------------------------------------
\* The step moves the version of o by one, or shows nothing new of o.
VersionStep(o) ==
    \/ version'[o] = version[o] + 1
    \/ /\ version'[o] = version[o]
       /\ OnDisplay(o)' = OnDisplay(o)
       /\ paymentVersion'[o] = paymentVersion[o]
       /\ oneCVersion'[o] = oneCVersion[o]

\* The version of an order names one state of everything a manager decides on:
\* while it stays the same, neither the order nor its payment nor its deadline
\* changes, whoever acts; and it only ever grows, one by one.  This is what
\* makes  expectedVersion  a sufficient check in the admin panel.
VersionNamesState == [][\A o \in Orders : VersionStep(o)]_vars

\* If s sends a command, the page it is sent from is still true.
InformedStep(s) ==
    (screen[s] # Closed /\ screen'[s] = Closed)
        => screen[s].saw = OnDisplay(screen[s].order)

\* No manager's command takes effect on an order that changed, by anyone's
\* hand, after the manager loaded the page: what the command confirms,
\* rejects, extends or cancels is what the page showed.
StaffDecideOnWhatTheySaw == [][\A s \in Staff : InformedStep(s)]_vars

\* If the step pays o or expires o, the deadline of o allows it.
TimelyStep(o) ==
    /\ (status[o] \notin PaidStatus /\ status'[o] \in PaidStatus)
          => clock < deadline[o] /\ reservation[o] = "ACTIVE"
    /\ (status[o] # "RESERVATION_EXPIRED" /\ status'[o] = "RESERVATION_EXPIRED")
          => deadline[o] <= clock /\ payment[o] # "CONFIRMED"

\* The deadline decides between payment and expiry, whoever comes late: an
\* order is paid only before the deadline of its reservation, and is expired
\* only once that deadline has come - although a sweep works with candidates
\* and a time it read before 1C moved the deadline, and a delayed job was
\* queued for an earlier deadline.
DeadlineDecides == [][\A o \in Orders : TimelyStep(o)]_vars

\* The step takes nothing older from 1C than what o has.
ForwardStep(o) ==
    /\ oneCVersion'[o] >= oneCVersion[o]
    /\ deadline'[o] # deadline[o] => /\ deadline'[o] > deadline[o]
                                     /\ oneCVersion'[o] > oneCVersion[o]

\* Facts of 1C are taken in the order of their versions: a late message never
\* overwrites a newer one, and a reservation's deadline moves only forward and
\* only with a newer version.
OneCFactsMoveForward == [][\A o \in Orders : ForwardStep(o)]_vars

\* A step of the catalogue import.
BroughtIn == \E b \in Batches : Import(b)

\* The step moves the balance of v by what orders gain or give up of v.
AccountedStep(v) ==
    LET taken == Cardinality(HeldUnits(v)') - Cardinality(HeldUnits(v))
    IN  /\ reserved'[v] = reserved[v] + taken
        /\ available'[v] = available[v] - taken

\* The balances of a variant account for every unit that orders here hold: from
\* one import to the next, reserved has risen and available has fallen by
\* exactly the units of the reservations that became ACTIVE, and both are back
\* when those end.  Concerns the increments and decrements of confirmFromOneC
\* and releaseOrExpire; an import overwrites both columns.
StockConserved ==
    [][BroughtIn \/ \A v \in Variants : AccountedStep(v)]_vars

\* The stock an order has, as the abstract specification sees it.
StockOf(o) ==
    IF reservation[o] = "NONE" THEN "none"
    ELSE IF reservation[o] = "EXPIRED" THEN "released"
    ELSE IF status[o] \in PaidStatus THEN "sold"
    ELSE "held"

Allocation == INSTANCE StockAllocation WITH
                 Stock <- Available,
                 Deliveries <- {[v \in DOMAIN b |-> b[v].available] : b \in Batches},
                 free  <- available,
                 alloc <- [o \in Orders |-> StockOf(o)]

\* Fulfilment implements the abstract allocation of stock: all lines of an
\* order at once or none, at most one hold per order, given back in full and
\* only once, never after the sale; otherwise only an import changes what is free.
ImplementsAllocation == Allocation!Spec

OneC == INSTANCE OneCOrder WITH
           Versions <- OneCVersions,
           held     <- [o \in Orders |-> reservation[o] = "ACTIVE"]

\* Fulfilment implements what the site promises 1C: an order takes a fact of 1C
\* only in the state it fits in - goods are reserved once, before anything else
\* is known of them, and prolonged or reported paid only while reserved - and
\* whatever managers, customers and the expiry do between two facts neither
\* ends nor reopens a reservation behind 1C's back.
ImplementsOrder == OneC!Spec

\* The balance of v reports at least the units that orders here hold of it.
Covered(v) == Cardinality(HeldUnits(v)) <= reserved[v]

CoveredCandidatesExpire ==
    \A o \in Due : (\A v \in Variants : Qty[o][v] > 0 => Covered(v))
                      => CanExpire(o, clock)

UncoveringStep ==
    (\E v \in Variants : Covered(v) /\ ~Covered(v)') => BroughtIn

\* No handler of orders makes a candidate of the sweep that cannot be expired
\* and keeps its place in the limited selection for ever: a candidate is refused
\* only while a balance reports fewer units than orders here hold, and nothing
\* but an import makes a balance do that.  The sweep goes by the deadline of the
\* reserved lines and by the order's status, expire by the deadline of the
\* order, all its lines and the reserved stock.
OnlyImportsBlockExpiry == [][UncoveringStep /\ CoveredCandidatesExpire']_vars

Overdue(o) == status[o] \in PayableStatus /\ deadline[o] <= clock

\* expire refuses o with STOCK_PROJECTION_INVALID.
Refused(o) == \E v \in Variants : Qty[o][v] > reserved[v]

\* expire refuses o itself, or one of so many due orders before it that the sweep
\* does not come to o.
Blocked(o) ==
    \/ Refused(o)
    \/ /\ Cardinality({p \in Due : p < o}) >= SweepLimit
       /\ \E p \in Due : p < o /\ Refused(p)

\* An order whose reservation is overdue does not stay payable: it is expired, or
\* 1C extends it in time, even if its delayed job is lost, other overdue orders
\* fill the sweep first, or one of them cannot be expired and leaves room - but
\* not if an import brought balances that block it.
OverdueIsSettled ==
    \A o \in Orders : Overdue(o) ~> (~Overdue(o) \/ Blocked(o))

\* docs/architecture.md:94: cancellation releases the reservation atomically.
\* The code's cancel changes the status only, so this does not hold.
CancelledHoldsNoStock ==
    \A o \in Orders :
        status[o] \in CancelledStatus => reservation[o] # "ACTIVE"
==============================================================================
