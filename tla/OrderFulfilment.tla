--------------------------- MODULE OrderFulfilment ---------------------------
(***************************************************************************)
(* One order from the moment checkout stored it until it is handed over,   *)
(* cancelled or expired: the order row, its stock reservations, its one    *)
(* bank-transfer payment, the stock balances it draws on, and the outbox   *)
(* rows its transactions write.                                            *)
(*                                                                         *)
(* Actors that interleave: 1C (the ERP, whose messages the inbox applies), *)
(* managers in the admin panel, the customer, the outbox worker, the       *)
(* delayed expiry job, the periodic sweeper and the catalogue import, which*)
(* overwrites balances.  Every service method runs in one SERIALIZABLE     *)
(* transaction that first locks the order row, so a method is one action   *)
(* here; what is NOT atomic in the code - a manager deciding on a page     *)
(* loaded earlier, the sweeper expiring orders it selected earlier at a    *)
(* time it read earlier - takes several actions.                           *)
(*                                                                         *)
(* A call that the code answers with an error or as a duplicate writes     *)
(* nothing: it is a stuttering step and has no action.                     *)
(*                                                                         *)
(* Abstracted: the commercial snapshot (prices, currency, lines, warehouse *)
(* identity, external reservation id), which never changes after checkout; *)
(* a 1C message that contradicts it, or names another version of a balance *)
(* than the imported one, is refused without a write.  All of a model's    *)
(* orders are picked up from one warehouse.  CatalogImport has the versions*)
(* that an import checks before it writes.                                 *)
(*                                                                         *)
(* The operators named Slip_ do not describe the code: each is one         *)
(* definition of this module with a mistake that its code could have, kept *)
(* to show that a property notices it (README, "Mutants").                 *)
(***************************************************************************)
EXTENDS OrderStateMachine, Integers, FiniteSets

CONSTANTS
    Orders,            \* order ids; the code orders them (uuid), so numbers
    Variants,          \* product variants stocked in the pickup warehouse
    Qty,               \* Qty[o][v]: units of v in order o (0: no such line)
    Available,         \* Available[v]: units free for sale at the start
    BaseReserved,      \* BaseReserved[v]: units 1C already reserves for others
    Batches,           \* what one transaction of the catalogue import may bring:
                       \* a balance for each variant it names
    Staff,             \* managers working in the admin panel
    SweepLimit,        \* orders one sweep takes (100 in the code)
    MaxTime,           \* bound: the clock stops here
    MaxOneCVersion,    \* bound: versions 1C gives to one order
    MaxPaymentVersion  \* bound: the customer sends no proof beyond it

ASSUME OrdersAssumption ==
    /\ IsFiniteSet(Orders)
    /\ Orders \subseteq Nat \ {0}

ASSUME StockAssumption ==
    /\ Qty \in [Orders -> [Variants -> Nat]]
    /\ \A o \in Orders : \E v \in Variants : Qty[o][v] > 0
    /\ Available \in [Variants -> Nat]
    /\ BaseReserved \in [Variants -> Nat]

Balance == [available : Nat, reserved : Nat]

ASSUME BatchesAssumption ==
    \A b \in Batches : /\ DOMAIN b \subseteq Variants
                       /\ \A v \in DOMAIN b : b[v] \in Balance

ASSUME BoundsAssumption ==
    /\ SweepLimit \in Nat \ {0}
    /\ MaxTime \in Nat
    /\ MaxOneCVersion \in Nat
    /\ MaxPaymentVersion \in Nat

VARIABLES
    clock,           \* the time every  new Date()  reads
    status,          \* orders.status
    version,         \* orders.version, the optimistic lock of the admin panel
    exported,        \* orders.one_c_id is set
    oneCVersion,     \* orders.one_c_version; 0 is NULL
    deadline,        \* orders.reservation_expires_at; 0 is NULL
    reservation,     \* stock_reservations.status, the same on all lines
    heldUntil,       \* stock_reservations.expires_at, the same on all lines
    payment,         \* payments.status; "NONE": no payment row
    paymentVersion,  \* payments.version; 0: no payment row
    available,       \* stock_balances.available
    reserved,        \* stock_balances.reserved
    screen,          \* what each manager's order page shows
    sweep,           \* the sweep in progress: its time and its candidates
    outbox           \* idempotency keys of the outbox rows written so far

orderVars   == <<status, version, exported, oneCVersion, deadline>>
holdVars    == <<reservation, heldUntil>>
paymentVars == <<payment, paymentVersion>>
stockVars   == <<available, reserved>>
vars == <<clock, orderVars, holdVars, paymentVars, stockVars, screen, sweep,
          outbox>>

Times        == 0..MaxTime
Deadlines    == 1..(MaxTime + 1)     \* MaxTime + 1 is never reached
OneCVersions == 1..MaxOneCVersion

ReservationStatus == {"NONE", "ACTIVE", "EXPIRED"}
PaymentStatus     == {"NONE", "PENDING", "PROOF_UPLOADED", "REJECTED", "CONFIRMED"}
EventType ==
    {"stock_confirmation.requested", "reservation_extension.requested",
     "stock_confirmed", "reservation_extended", "reservation_expiry_reminder",
     "reservation_expired", "payment.details_published",
     "payment.proof_submitted", "payment.confirmed", "payment.confirmed-one-c",
     "payment.rejected"}

\* An outbox row is known by its idempotency key  type:order:n .
Event == [type : EventType, order : Orders, n : Nat]

------------------------------------------------------------------------------
(* What a manager's page shows of order o, and the versions it will send.  *)

Seen == [status : OrderStatus, payment : PaymentStatus, deadline : Nat]

OnDisplay(o) == [status |-> status[o], payment |-> payment[o],
                 deadline |-> deadline[o]]

Page == [order : Orders, version : Nat, paymentVersion : Nat, saw : Seen]

Closed == [order |-> 0]

NoSweep == [at |-> 0, todo |-> {}]

TypeOK ==
    /\ clock \in Times
    /\ status \in [Orders -> OrderStatus]
    /\ version \in [Orders -> Nat]
    /\ exported \in [Orders -> BOOLEAN]
    /\ oneCVersion \in [Orders -> Nat]
    /\ deadline \in [Orders -> Nat]
    /\ reservation \in [Orders -> ReservationStatus]
    /\ heldUntil \in [Orders -> Nat]
    /\ payment \in [Orders -> PaymentStatus]
    /\ paymentVersion \in [Orders -> Nat]
    /\ available \in [Variants -> Nat]
    /\ reserved \in [Variants -> Nat]
    /\ screen \in [Staff -> Page \cup {Closed}]
    /\ sweep \in [at : Times, todo : SUBSET Orders]
    /\ outbox \subseteq Event

\* Checkout stores an order in this state; the order in which orders are
\* created is not observable here, so all of them exist from the start.
Init ==
    /\ clock = 0
    /\ status = [o \in Orders |-> "AWAITING_STOCK_CONFIRMATION"]
    /\ version = [o \in Orders |-> 1]
    /\ exported = [o \in Orders |-> FALSE]
    /\ oneCVersion = [o \in Orders |-> 0]
    /\ deadline = [o \in Orders |-> 0]
    /\ reservation = [o \in Orders |-> "NONE"]
    /\ heldUntil = [o \in Orders |-> 0]
    /\ payment = [o \in Orders |-> "NONE"]
    /\ paymentVersion = [o \in Orders |-> 0]
    /\ available = Available
    /\ reserved = BaseReserved
    /\ screen = [s \in Staff |-> Closed]
    /\ sweep = NoSweep
    /\ outbox = {}

------------------------------------------------------------------------------
(* Steps shared by the services.                                           *)

Tick == /\ clock < MaxTime
        /\ clock' = clock + 1
        /\ UNCHANGED <<orderVars, holdVars, paymentVars, stockVars, screen,
                       sweep, outbox>>

Slip_AnyMove(o, to, source) ==
    /\ status' = [status EXCEPT ![o] = to]
    /\ version' = [version EXCEPT ![o] = @ + 1]

\* OrderTransitionService.transitionInTransaction
Transition(o, to, source) ==
    /\ IsOrderTransitionAllowed(status[o], to, source)
    /\ status' = [status EXCEPT ![o] = to]
    /\ version' = [version EXCEPT ![o] = @ + 1]

Slip_KeepVersion(o) == UNCHANGED <<status, version>>

BumpVersion(o) == /\ version' = [version EXCEPT ![o] = @ + 1]
                  /\ UNCHANGED status

Row(type, o, n) == [type |-> type, order |-> o, n |-> n]

\* Rows whose key says all their payload says.  The other payloads also carry
\* the order version of the transaction.
KeySaysAll == {"stock_confirmation.requested", "reservation_extension.requested",
               "reservation_expiry_reminder", "reservation_expired"}

\* OutboxService.create: a row that is there already with the same payload is
\* taken for the new one; with another payload it aborts the transaction.
Emit(rows) == /\ \A row \in rows \cap outbox : row.type \in KeySaysAll
              /\ outbox' = outbox \cup rows

\* PaymentPolicyService.assertLiveCompleteReservation
LiveReservation(o) ==
    /\ status[o] \in PayableStatus
    /\ reservation[o] = "ACTIVE"
    /\ clock < deadline[o]
    /\ clock < heldUntil[o]

------------------------------------------------------------------------------
(* Managers.  A command carries the versions of the page it was sent from; *)
(* sending it leaves the page.                                             *)

OpenOrder(s, o) ==
    /\ screen' = [screen EXCEPT ![s] =
                    [order |-> o, version |-> version[o],
                     paymentVersion |-> paymentVersion[o],
                     saw |-> OnDisplay(o)]]
    /\ UNCHANGED <<clock, orderVars, holdVars, paymentVars, stockVars, sweep,
                   outbox>>

Slip_ExpectAnyVersion(s, o) == screen[s].order = o

\* assertOrderVersion / assertPaymentVersion of a command sent from s's page
ExpectsOrder(s, o) == /\ screen[s].order = o
                      /\ screen[s].version = version[o]
ExpectsPayment(s, o) == screen[s].paymentVersion = paymentVersion[o]

LeavePage(s) == screen' = [screen EXCEPT ![s] = Closed]

\* ReservationService.requestStockConfirmation: asks 1C through the outbox.
\* The request is keyed by the order version, so a second one is answered as
\* a duplicate.
RequestStockConfirmation(s, o) ==
    /\ ExpectsOrder(s, o)
    /\ status[o] = "AWAITING_STOCK_CONFIRMATION"
    /\ exported[o]
    /\ Emit({Row("stock_confirmation.requested", o, version[o])})
    /\ LeavePage(s)
    /\ UNCHANGED <<clock, orderVars, holdVars, paymentVars, stockVars, sweep>>

\* ReservationExtensionService.request: the requested deadline is a function
\* of the current one, which the order version determines.
RequestExtension(s, o) ==
    /\ ExpectsOrder(s, o)
    /\ LiveReservation(o)
    /\ exported[o] /\ oneCVersion[o] # 0
    /\ Emit({Row("reservation_extension.requested", o, version[o])})
    /\ LeavePage(s)
    /\ UNCHANGED <<clock, orderVars, holdVars, paymentVars, stockVars, sweep>>

\* PaymentService.publishDetails: the only place that creates a payment.
PublishDetails(s, o) ==
    /\ payment[o] = "NONE"
    /\ ExpectsOrder(s, o)
    /\ LiveReservation(o)
    /\ payment' = [payment EXCEPT ![o] = "PENDING"]
    /\ paymentVersion' = [paymentVersion EXCEPT ![o] = 1]
    /\ BumpVersion(o)
    /\ Emit({Row("payment.details_published", o, 1)})
    /\ LeavePage(s)
    /\ UNCHANGED <<clock, exported, oneCVersion, deadline, holdVars, stockVars,
                   sweep>>

\* The payment row moves to  to  and its version grows by one.
MovePayment(o, to) ==
    /\ payment' = [payment EXCEPT ![o] = to]
    /\ paymentVersion' = [paymentVersion EXCEPT ![o] = @ + 1]

\* PaymentPolicyService.assertCanReveal and assertCanConfirm
CanConfirmPayment(o) ==
    /\ LiveReservation(o)
    /\ payment[o] \in {"PENDING", "PROOF_UPLOADED", "REJECTED"}

\* PaymentService.confirmPayment
ConfirmPayment(s, o) ==
    /\ ExpectsOrder(s, o)
    /\ ExpectsPayment(s, o)
    /\ CanConfirmPayment(o)
    /\ MovePayment(o, "CONFIRMED")
    /\ Transition(o, "PAID", "ADMIN")
    /\ Emit({Row("payment.confirmed", o, paymentVersion'[o])})
    /\ LeavePage(s)
    /\ UNCHANGED <<clock, exported, oneCVersion, deadline, holdVars, stockVars,
                   sweep>>

\* PaymentService.rejectPayment: does not ask whether the reservation lives.
RejectPayment(s, o) ==
    /\ ExpectsOrder(s, o)
    /\ ExpectsPayment(s, o)
    /\ status[o] = "PAYMENT_VERIFICATION"
    /\ payment[o] = "PROOF_UPLOADED"
    /\ MovePayment(o, "REJECTED")
    /\ Transition(o, "AWAITING_PAYMENT", "ADMIN")
    /\ Emit({Row("payment.rejected", o, paymentVersion'[o])})
    /\ LeavePage(s)
    /\ UNCHANGED <<clock, exported, oneCVersion, deadline, holdVars, stockVars,
                   sweep>>

\* AdminOperationsService.transition
AdminTransition(s, o) ==
    /\ ExpectsOrder(s, o)
    /\ \E target \in {"ASSEMBLING", "READY_FOR_PICKUP", "COMPLETED"} :
          Transition(o, target, "ADMIN")
    /\ LeavePage(s)
    /\ UNCHANGED <<clock, exported, oneCVersion, deadline, holdVars,
                   paymentVars, stockVars, sweep, outbox>>

\* AdminOperationsService.cancel: a status change and nothing else; the
\* reservation rows and the stock balances keep what they hold.
Cancel(s, o) ==
    /\ ExpectsOrder(s, o)
    /\ Transition(o, "CANCELLED_BY_STORE", "ADMIN")
    /\ LeavePage(s)
    /\ UNCHANGED <<clock, exported, oneCVersion, deadline, holdVars,
                   paymentVars, stockVars, sweep, outbox>>

------------------------------------------------------------------------------
(* The customer.                                                           *)

Slip_ProofAnyTime(o) == payment[o] # "NONE"

\* assertCanReveal, and the payment is not CONFIRMED
CanSendProof(o) ==
    /\ LiveReservation(o)
    /\ payment[o] \in {"PENDING", "PROOF_UPLOADED", "REJECTED"}

\* PaymentService.submitProof: every proof is a new version of the payment,
\* also while an earlier one is being verified.  A proof sent for an older
\* payment version is refused.
SubmitProof(o) ==
    /\ CanSendProof(o)
    /\ paymentVersion[o] < MaxPaymentVersion
    /\ MovePayment(o, "PROOF_UPLOADED")
    /\ \/ /\ status[o] = "AWAITING_PAYMENT"
          /\ Transition(o, "PAYMENT_VERIFICATION", "STOREFRONT")
       \/ /\ status[o] # "AWAITING_PAYMENT"
          /\ BumpVersion(o)
    /\ Emit({Row("payment.proof_submitted", o, paymentVersion'[o])})
    /\ UNCHANGED <<clock, exported, oneCVersion, deadline, holdVars, stockVars,
                   screen, sweep>>

------------------------------------------------------------------------------
(* 1C.  Its messages arrive through the inbox in any order the model can   *)
(* produce: v is the version 1C gives the order, e a deadline.             *)

\* OneCCommandService.recordOrderExport: 1C answered the exported order.
RecordOrderExport(o) ==
    /\ ~exported[o]
    /\ exported' = [exported EXCEPT ![o] = TRUE]
    /\ UNCHANGED <<clock, status, version, oneCVersion, deadline, holdVars,
                   paymentVars, stockVars, screen, sweep, outbox>>

Slip_AnyVersion(o, v) == TRUE

\* v is newer than the last version taken from 1C.
Newer(o, v) == v > oneCVersion[o]

Slip_HoldOrderOnly(o, e) == /\ deadline' = [deadline EXCEPT ![o] = e]
                            /\ UNCHANGED heldUntil
Slip_HoldRowsOnly(o, e)  == /\ heldUntil' = [heldUntil EXCEPT ![o] = e]
                            /\ UNCHANGED deadline

\* The deadline of an order is kept twice: on the order and on its lines.
HoldUntil(o, e) == /\ deadline' = [deadline EXCEPT ![o] = e]
                   /\ heldUntil' = [heldUntil EXCEPT ![o] = e]

Slip_OneLineFits(o)  == \E w \in Variants : Qty[o][w] \in 1..available[w]

\* the INSUFFICIENT_STOCK check of ReservationPolicyService
EnoughStock(o) == \A w \in Variants : Qty[o][w] <= available[w]

TakeStock(o) ==
    /\ available' = [w \in Variants |-> available[w] - Qty[o][w]]
    /\ reserved' = [w \in Variants |-> reserved[w] + Qty[o][w]]

\* ReservationService.confirmFromOneC with ReservationPolicyService
ConfirmFromOneC(o, v, e) ==
    /\ Newer(o, v)
    /\ reservation[o] # "ACTIVE"
    /\ status[o] = "AWAITING_STOCK_CONFIRMATION"
    /\ exported[o]
    /\ e > clock
    /\ EnoughStock(o)
    /\ TakeStock(o)
    /\ reservation' = [reservation EXCEPT ![o] = "ACTIVE"]
    /\ HoldUntil(o, e)
    /\ Transition(o, "AWAITING_PAYMENT", "ONE_C")
    /\ oneCVersion' = [oneCVersion EXCEPT ![o] = v]
    /\ Emit({Row("stock_confirmed", o, v),
             Row("reservation_expiry_reminder", o, e)})
    /\ UNCHANGED <<clock, exported, paymentVars, screen, sweep>>

\* ReservationExtensionService.applyFromOneC: the old deadline may have
\* passed already, as long as no one has expired the order yet.
ApplyExtensionFromOneC(o, v, e) ==
    /\ exported[o]
    /\ status[o] \in PayableStatus
    /\ reservation[o] = "ACTIVE"
    /\ oneCVersion[o] # 0
    /\ Newer(o, v)
    /\ e > deadline[o]
    /\ e > clock
    /\ HoldUntil(o, e)
    /\ oneCVersion' = [oneCVersion EXCEPT ![o] = v]
    /\ BumpVersion(o)
    /\ Emit({Row("reservation_extended", o, v),
             Row("reservation_expiry_reminder", o, e)})
    /\ UNCHANGED <<clock, exported, reservation, paymentVars, stockVars,
                   screen, sweep>>

\* PaymentService.confirmFromOneC, the payment is confirmed by 1C
ConfirmPaymentFromOneC(o, v) ==
    /\ Newer(o, v)
    /\ CanConfirmPayment(o)
    /\ MovePayment(o, "CONFIRMED")
    /\ Transition(o, "PAID", "ONE_C")
    /\ oneCVersion' = [oneCVersion EXCEPT ![o] = v]
    /\ Emit({Row("payment.confirmed-one-c", o, v)})
    /\ UNCHANGED <<clock, exported, deadline, holdVars, stockVars, screen,
                   sweep>>

\* PaymentService.confirmFromOneC, the order is PAID already: only the newer
\* 1C version is taken over.
AcknowledgePaymentFromOneC(o, v) ==
    /\ Newer(o, v)
    /\ payment[o] = "CONFIRMED"
    /\ status[o] = "PAID"
    /\ oneCVersion' = [oneCVersion EXCEPT ![o] = v]
    /\ BumpVersion(o)
    /\ UNCHANGED <<clock, exported, deadline, holdVars, paymentVars, stockVars,
                   screen, sweep, outbox>>

\* CatalogImportService: the balances of 1C replace those of the variants they
\* come with, whatever orders of this site hold of them; no order is touched.
Import(b) ==
    /\ available' = [v \in Variants |-> IF v \in DOMAIN b THEN b[v].available
                                       ELSE available[v]]
    /\ reserved' = [v \in Variants |-> IF v \in DOMAIN b THEN b[v].reserved
                                      ELSE reserved[v]]
    /\ UNCHANGED <<clock, orderVars, holdVars, paymentVars, screen, sweep,
                   outbox>>

------------------------------------------------------------------------------
(* Expiry: ReservationService.expire(order, now), called by the delayed    *)
(* job of the order and by the sweeper.                                    *)

Slip_ExpireUnchecked(o, now) ==
    reservation[o] = "ACTIVE" /\ status[o] \in PayableStatus

\* (the last condition: STOCK_PROJECTION_INVALID, the transaction rolls back)
CanExpire(o, now) ==
    /\ reservation[o] = "ACTIVE"
    /\ deadline[o] # 0 /\ deadline[o] <= now
    /\ status[o] \in PayableStatus
    /\ \A v \in Variants : Qty[o][v] <= reserved[v]

Slip_ReturnAvailableOnly(o) ==
    /\ available' = [v \in Variants |-> available[v] + Qty[o][v]]
    /\ UNCHANGED reserved

ReturnStock(o) ==
    /\ reserved' = [v \in Variants |-> reserved[v] - Qty[o][v]]
    /\ available' = [v \in Variants |-> available[v] + Qty[o][v]]

Expire(o, now) ==
    /\ CanExpire(o, now)
    /\ ReturnStock(o)
    /\ reservation' = [reservation EXCEPT ![o] = "EXPIRED"]
    /\ Transition(o, "RESERVATION_EXPIRED", "SYSTEM")
    /\ Emit({Row("reservation_expired", o, version[o])})
    /\ UNCHANGED <<clock, exported, oneCVersion, deadline, heldUntil,
                   paymentVars, screen>>

\* ReservationExpiryProcessor: the job is queued once the outbox delivered
\* stock_confirmed or reservation_extended; Redis may lose it.
ExpiryJob(o) ==
    /\ \E row \in outbox : /\ row.order = o
                           /\ row.type \in {"stock_confirmed", "reservation_extended"}
    /\ Expire(o, clock)
    /\ UNCHANGED sweep

Slip_DueInAnyStatus ==
    {o \in Orders : reservation[o] = "ACTIVE" /\ heldUntil[o] <= clock}
Slip_DueUnlessVerifying ==
    {o \in Orders : /\ reservation[o] = "ACTIVE"
                    /\ heldUntil[o] <= clock
                    /\ status[o] = "AWAITING_PAYMENT"}

\* ReservationSweeperService.sweep reads the time and the candidates ...
Due == {o \in Orders : /\ reservation[o] = "ACTIVE"
                       /\ heldUntil[o] <= clock
                       /\ status[o] \in PayableStatus}

\* (orderBy orderId, take limit)
FirstDue == {o \in Due : Cardinality({p \in Due : p < o}) < SweepLimit}

SweepSelect ==
    /\ sweep.todo = {}
    /\ Due # {}
    /\ sweep' = [at |-> clock, todo |-> FirstDue]
    /\ UNCHANGED <<clock, orderVars, holdVars, paymentVars, stockVars, screen,
                   outbox>>

\* the mistake: what expire throws is not caught
Slip_StopAtRefusal(o) ==
    /\ o \in sweep.todo
    /\ \A p \in sweep.todo : o <= p
    /\ \/ /\ sweep' = IF sweep.todo = {o} THEN NoSweep
                       ELSE [sweep EXCEPT !.todo = @ \ {o}]
          /\ Expire(o, sweep.at)
       \/ /\ ~CanExpire(o, sweep.at)
          /\ sweep' = NoSweep
          /\ UNCHANGED <<clock, orderVars, holdVars, paymentVars, stockVars,
                         screen, outbox>>

\* ... and then expires them one by one, each in a transaction of its own and
\* all at the time read at the start; a candidate that cannot be expired is
\* logged and left.
SweepExpire(o) ==
    /\ o \in sweep.todo
    /\ \A p \in sweep.todo : o <= p
    /\ sweep' = IF sweep.todo = {o} THEN NoSweep
                ELSE [sweep EXCEPT !.todo = @ \ {o}]
    /\ \/ Expire(o, sweep.at)
       \/ /\ ~CanExpire(o, sweep.at)
          /\ UNCHANGED <<clock, orderVars, holdVars, paymentVars, stockVars,
                         screen, outbox>>

------------------------------------------------------------------------------
\* A button for each command, sent with the versions that the screen shows.
StaffStep(s, o) ==
    \/ OpenOrder(s, o)
    \/ RequestStockConfirmation(s, o)
    \/ RequestExtension(s, o)
    \/ PublishDetails(s, o)
    \/ ConfirmPayment(s, o)
    \/ RejectPayment(s, o)
    \/ AdminTransition(s, o)
    \/ Cancel(s, o)

OneCStep(o) ==
    \/ RecordOrderExport(o)
    \/ \E v \in OneCVersions :
          \/ \E e \in Deadlines : \/ ConfirmFromOneC(o, v, e)
                                  \/ ApplyExtensionFromOneC(o, v, e)
          \/ ConfirmPaymentFromOneC(o, v)
          \/ AcknowledgePaymentFromOneC(o, v)

Next ==
    \/ Tick
    \/ SweepSelect
    \/ \E b \in Batches : Import(b)
    \/ \E o \in Orders :
          \/ \E s \in Staff : StaffStep(s, o)
          \/ OneCStep(o)
          \/ SubmitProof(o)
          \/ ExpiryJob(o)
          \/ SweepExpire(o)

Spec == Init /\ [][Next]_vars

\* The worker schedules a sweep periodically and runs it to its end; nothing
\* else is fair: customers, managers and 1C may never act, jobs may be lost.
FairSweeps == /\ WF_vars(SweepSelect)
              /\ WF_vars(\E o \in Orders : SweepExpire(o))

FairSpec == Spec /\ FairSweeps
==============================================================================
