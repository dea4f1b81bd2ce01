------------------------ MODULE OrderFulfilmentProofs ------------------------
(***************************************************************************)
(* Theorems about OrderFulfilment for every set of orders, variants and    *)
(* managers, every stock and every bound.                                  *)
(***************************************************************************)
EXTENDS OrderFulfilmentProperties, FiniteSetTheorems, TLAPS

------------------------------------------------------------------------------
(* The table of moves.                                                     *)

\* The moves that the actions of OrderFulfilment make, read backwards: which
\* status an order must have had.
LEMMA MovesOfTheTable ==
    ASSUME NEW from, NEW to, NEW source,
           IsOrderTransitionAllowed(from, to, source)
    PROVE  /\ from \in OrderStatus /\ to \in OrderStatus
           /\ to = "AWAITING_PAYMENT" =>
                 from \in {"AWAITING_STOCK_CONFIRMATION", "PAYMENT_VERIFICATION"}
           /\ to = "PAYMENT_VERIFICATION" => from = "AWAITING_PAYMENT"
           /\ to = "PAID" => from \in PayableStatus
           /\ to \in {"ASSEMBLING", "READY_FOR_PICKUP", "COMPLETED"} =>
                 from \in PaidStatus
           /\ to \in {"CANCELLED_BY_STORE", "RESERVATION_EXPIRED"} =>
                 from \notin PaidStatus \cup {"RESERVATION_EXPIRED"}
  BY DEF IsOrderTransitionAllowed, OrderTransitions, Move, PayableMoves,
         CancelBeforeStock, AnyInternalSource, StoreOrCustomer, StoreStaff,
         OrderStatus, PayableStatus, PaidStatus

\* What a call of Transition does to an order, and that it is a legal move.
LEMMA TransitionStep ==
    ASSUME TypeOK, NEW o \in Orders, NEW to, NEW source,
           Transition(o, to, source)
    PROVE  /\ IsOrderTransitionAllowed(status[o], to, source)
           /\ status' = [status EXCEPT ![o] = to]
           /\ version' = [version EXCEPT ![o] = @ + 1]
           /\ to \in OrderStatus
           /\ status' \in [Orders -> OrderStatus]
           /\ version' \in [Orders -> Nat]
  <1>1. to \in OrderStatus
    BY MovesOfTheTable DEF Transition
  <1> QED
    BY <1>1 DEF Transition, TypeOK

\* An outbox that takes rows of the model's orders stays an outbox.
LEMMA EmitType ==
    ASSUME TypeOK, NEW rows, rows \subseteq Event, Emit(rows)
    PROVE  outbox' \subseteq Event
  BY DEF Emit, TypeOK

\* An outbox row of a known type, of an order and with a number is an event.
LEMMA RowType ==
    ASSUME NEW type \in EventType, NEW o \in Orders, NEW n \in Nat
    PROVE  Row(type, o, n) \in Event
  BY DEF Row, Event

------------------------------------------------------------------------------
(* Type correctness.                                                       *)

\* The initial state is well typed.
LEMMA InitType == Init => TypeOK
  BY OrdersAssumption, StockAssumption, BoundsAssumption
  DEF Init, TypeOK, Times, OrderStatus, ReservationStatus, PaymentStatus, NoSweep

\* A manager's page is typed, and so is leaving it.
LEMMA StaffType ==
    ASSUME TypeOK, NEW s \in Staff, NEW o \in Orders, StaffStep(s, o)
    PROVE  TypeOK'
  <1> USE DEF TypeOK
  <1>1. CASE OpenOrder(s, o)
    <2>1. OnDisplay(o) \in Seen
      BY DEF OnDisplay, Seen
    <2>2. [order |-> o, version |-> version[o],
           paymentVersion |-> paymentVersion[o], saw |-> OnDisplay(o)] \in Page
      BY <2>1 DEF Page
    <2> QED
      BY <1>1, <2>2 DEF OpenOrder, orderVars, holdVars, paymentVars, stockVars
  <1>2. LeavePage(s) => screen' \in [Staff -> Page \cup {Closed}]
    BY DEF LeavePage
  <1>3. CASE RequestStockConfirmation(s, o)
    <2>1. {Row("stock_confirmation.requested", o, version[o])} \subseteq Event
      BY RowType DEF EventType
    <2>2. outbox' \subseteq Event
      BY <1>3, <2>1, EmitType DEF RequestStockConfirmation
    <2> QED
      BY <1>2, <1>3, <2>2
      DEF RequestStockConfirmation, orderVars, holdVars, paymentVars, stockVars
  <1>4. CASE RequestExtension(s, o)
    <2>1. {Row("reservation_extension.requested", o, version[o])} \subseteq Event
      BY RowType DEF EventType
    <2>2. outbox' \subseteq Event
      BY <1>4, <2>1, EmitType DEF RequestExtension
    <2> QED
      BY <1>2, <1>4, <2>2
      DEF RequestExtension, orderVars, holdVars, paymentVars, stockVars
  <1>5. CASE PublishDetails(s, o)
    <2>1. {Row("payment.details_published", o, 1)} \subseteq Event
      BY RowType DEF EventType
    <2>2. outbox' \subseteq Event
      BY <1>5, <2>1, EmitType DEF PublishDetails
    <2>3. /\ payment' \in [Orders -> PaymentStatus]
          /\ paymentVersion' \in [Orders -> Nat]
          /\ version' \in [Orders -> Nat]
      BY <1>5 DEF PublishDetails, BumpVersion, PaymentStatus
    <2> QED
      BY <1>2, <1>5, <2>2, <2>3
      DEF PublishDetails, BumpVersion, holdVars, stockVars
  <1>6. CASE ConfirmPayment(s, o)
    <2>1. /\ payment' \in [Orders -> PaymentStatus]
          /\ paymentVersion' \in [Orders -> Nat]
      BY <1>6 DEF ConfirmPayment, MovePayment, PaymentStatus
    <2>2. {Row("payment.confirmed", o, paymentVersion'[o])} \subseteq Event
      BY <2>1, RowType DEF EventType
    <2>3. outbox' \subseteq Event
      BY <1>6, <2>2, EmitType DEF ConfirmPayment
    <2>4. /\ status' \in [Orders -> OrderStatus]
          /\ version' \in [Orders -> Nat]
      BY <1>6, TransitionStep DEF ConfirmPayment
    <2> QED
      BY <1>2, <1>6, <2>1, <2>3, <2>4 DEF ConfirmPayment, holdVars, stockVars
  <1>7. CASE RejectPayment(s, o)
    <2>1. /\ payment' \in [Orders -> PaymentStatus]
          /\ paymentVersion' \in [Orders -> Nat]
      BY <1>7 DEF RejectPayment, MovePayment, PaymentStatus
    <2>2. {Row("payment.rejected", o, paymentVersion'[o])} \subseteq Event
      BY <2>1, RowType DEF EventType
    <2>3. outbox' \subseteq Event
      BY <1>7, <2>2, EmitType DEF RejectPayment
    <2>4. /\ status' \in [Orders -> OrderStatus]
          /\ version' \in [Orders -> Nat]
      BY <1>7, TransitionStep DEF RejectPayment
    <2> QED
      BY <1>2, <1>7, <2>1, <2>3, <2>4 DEF RejectPayment, holdVars, stockVars
  <1>8. CASE AdminTransition(s, o)
    <2>1. /\ status' \in [Orders -> OrderStatus]
          /\ version' \in [Orders -> Nat]
      BY <1>8, TransitionStep DEF AdminTransition
    <2> QED
      BY <1>2, <1>8, <2>1 DEF AdminTransition, holdVars, paymentVars, stockVars
  <1>9. CASE Cancel(s, o)
    <2>1. /\ status' \in [Orders -> OrderStatus]
          /\ version' \in [Orders -> Nat]
      BY <1>9, TransitionStep DEF Cancel
    <2> QED
      BY <1>2, <1>9, <2>1 DEF Cancel, holdVars, paymentVars, stockVars
  <1> QED
    BY <1>1, <1>3, <1>4, <1>5, <1>6, <1>7, <1>8, <1>9 DEF StaffStep

\* Lines have natural quantities.
LEMMA QtyType ==
    ASSUME NEW o \in Orders, NEW v \in Variants
    PROVE  Qty[o][v] \in Nat
  BY StockAssumption

\* A proof of payment keeps the types.
LEMMA SubmitProofType ==
    ASSUME TypeOK, NEW o \in Orders, SubmitProof(o)
    PROVE  TypeOK'
  <1> USE DEF TypeOK
  <1>1. /\ payment' \in [Orders -> PaymentStatus]
        /\ paymentVersion' \in [Orders -> Nat]
    BY DEF SubmitProof, MovePayment, PaymentStatus, CanSendProof
  <1>2. {Row("payment.proof_submitted", o, paymentVersion'[o])} \subseteq Event
    BY <1>1, RowType DEF EventType
  <1>3. outbox' \subseteq Event
    BY <1>2, EmitType DEF SubmitProof, CanSendProof
  <1>4. /\ status' \in [Orders -> OrderStatus]
        /\ version' \in [Orders -> Nat]
    <2>1. CASE Transition(o, "PAYMENT_VERIFICATION", "STOREFRONT")
      BY <2>1, TransitionStep
    <2>2. CASE BumpVersion(o)
      BY <2>2 DEF BumpVersion
    <2> QED
      BY <2>1, <2>2 DEF SubmitProof, CanSendProof
  <1> QED
    BY <1>1, <1>3, <1>4 DEF SubmitProof, holdVars, stockVars, CanSendProof

\* Every message of 1C keeps the types.
LEMMA OneCType ==
    ASSUME TypeOK, NEW o \in Orders, OneCStep(o)
    PROVE  TypeOK'
  <1> USE DEF TypeOK
  <1>1. CASE RecordOrderExport(o)
    BY <1>1 DEF RecordOrderExport, holdVars, paymentVars, stockVars
  <1>2. ASSUME NEW v \in OneCVersions, NEW e \in Deadlines, ConfirmFromOneC(o, v, e)
        PROVE  TypeOK'
    <2>1. v \in Nat /\ e \in Nat
      BY BoundsAssumption DEF OneCVersions, Deadlines
    <2>2. {Row("stock_confirmed", o, v), Row("reservation_expiry_reminder", o, e)}
              \subseteq Event
      BY <2>1, RowType DEF EventType
    <2>3. outbox' \subseteq Event
      BY <1>2, <2>2, EmitType DEF ConfirmFromOneC, Newer, EnoughStock, TakeStock
    <2>4. /\ available' \in [Variants -> Nat]
          /\ reserved' \in [Variants -> Nat]
      BY <1>2, QtyType DEF ConfirmFromOneC, Newer, EnoughStock, TakeStock
    <2>5. /\ status' \in [Orders -> OrderStatus]
          /\ version' \in [Orders -> Nat]
      BY <1>2, TransitionStep DEF ConfirmFromOneC, Newer, EnoughStock, TakeStock
    <2>6. /\ reservation' \in [Orders -> ReservationStatus]
          /\ deadline' \in [Orders -> Nat]
          /\ heldUntil' \in [Orders -> Nat]
          /\ oneCVersion' \in [Orders -> Nat]
      BY <1>2, <2>1 DEF ConfirmFromOneC, HoldUntil, ReservationStatus,
                        Newer, EnoughStock, TakeStock
    <2> QED
      BY <1>2, <2>3, <2>4, <2>5, <2>6 DEF ConfirmFromOneC, paymentVars,
                                          Newer, EnoughStock, TakeStock
  <1>3. ASSUME NEW v \in OneCVersions, NEW e \in Deadlines,
               ApplyExtensionFromOneC(o, v, e)
        PROVE  TypeOK'
    <2>1. v \in Nat /\ e \in Nat
      BY BoundsAssumption DEF OneCVersions, Deadlines
    <2>2. {Row("reservation_extended", o, v), Row("reservation_expiry_reminder", o, e)}
              \subseteq Event
      BY <2>1, RowType DEF EventType
    <2>3. outbox' \subseteq Event
      BY <1>3, <2>2, EmitType DEF ApplyExtensionFromOneC, Newer
    <2>4. /\ deadline' \in [Orders -> Nat]
          /\ heldUntil' \in [Orders -> Nat]
          /\ oneCVersion' \in [Orders -> Nat]
          /\ version' \in [Orders -> Nat]
      BY <1>3, <2>1 DEF ApplyExtensionFromOneC, HoldUntil, BumpVersion, Newer
    <2> QED
      BY <1>3, <2>3, <2>4
      DEF ApplyExtensionFromOneC, BumpVersion, paymentVars, stockVars, Newer
  <1>4. ASSUME NEW v \in OneCVersions, ConfirmPaymentFromOneC(o, v)
        PROVE  TypeOK'
    <2>1. v \in Nat
      BY BoundsAssumption DEF OneCVersions
    <2>2. {Row("payment.confirmed-one-c", o, v)} \subseteq Event
      BY <2>1, RowType DEF EventType
    <2>3. outbox' \subseteq Event
      BY <1>4, <2>2, EmitType DEF ConfirmPaymentFromOneC, Newer
    <2>4. /\ status' \in [Orders -> OrderStatus]
          /\ version' \in [Orders -> Nat]
      BY <1>4, TransitionStep DEF ConfirmPaymentFromOneC, Newer
    <2>5. /\ payment' \in [Orders -> PaymentStatus]
          /\ paymentVersion' \in [Orders -> Nat]
          /\ oneCVersion' \in [Orders -> Nat]
      BY <1>4, <2>1 DEF ConfirmPaymentFromOneC, MovePayment, PaymentStatus, Newer
    <2> QED
      BY <1>4, <2>3, <2>4, <2>5 DEF ConfirmPaymentFromOneC, holdVars, stockVars,
                                    Newer
  <1>5. ASSUME NEW v \in OneCVersions, AcknowledgePaymentFromOneC(o, v)
        PROVE  TypeOK'
    <2>1. v \in Nat
      BY BoundsAssumption DEF OneCVersions
    <2> QED
      BY <1>5, <2>1
      DEF AcknowledgePaymentFromOneC, BumpVersion, holdVars, paymentVars, stockVars,
          Newer
  <1> QED
    BY <1>1, <1>2, <1>3, <1>4, <1>5 DEF OneCStep

\* Expiring an order keeps the types: stock is only given back within reserved.
LEMMA ExpireType ==
    ASSUME TypeOK, NEW o \in Orders, NEW now, Expire(o, now)
    PROVE  /\ status' \in [Orders -> OrderStatus]
           /\ version' \in [Orders -> Nat]
           /\ reservation' \in [Orders -> ReservationStatus]
           /\ available' \in [Variants -> Nat]
           /\ reserved' \in [Variants -> Nat]
           /\ outbox' \subseteq Event
  <1> USE DEF TypeOK
  <1>1. {Row("reservation_expired", o, version[o])} \subseteq Event
    BY RowType DEF EventType
  <1>2. outbox' \subseteq Event
    BY <1>1, EmitType DEF Expire, ReturnStock
  <1>3. /\ status' \in [Orders -> OrderStatus]
        /\ version' \in [Orders -> Nat]
    BY TransitionStep DEF Expire, ReturnStock
  <1>4. /\ available' \in [Variants -> Nat]
        /\ reserved' \in [Variants -> Nat]
    BY QtyType DEF Expire, CanExpire, ReturnStock
  <1> QED
    BY <1>2, <1>3, <1>4 DEF Expire, ReservationStatus, ReturnStock

\* The job and the sweep keep the types.
LEMMA WorkerType ==
    ASSUME TypeOK, NEW o \in Orders, ExpiryJob(o) \/ SweepExpire(o)
    PROVE  TypeOK'
  <1>1. CASE ExpiryJob(o)
    BY <1>1, ExpireType DEF ExpiryJob, Expire, TypeOK, paymentVars, ReturnStock
  <1>2. CASE SweepExpire(o)
    <2>1. sweep' \in [at : Times, todo : SUBSET Orders]
      BY <1>2, BoundsAssumption DEF SweepExpire, NoSweep, TypeOK, Times
    <2>2. CASE Expire(o, sweep.at)
      BY <2>1, <2>2, ExpireType DEF Expire, TypeOK, paymentVars, ReturnStock
    <2>3. CASE UNCHANGED <<clock, orderVars, holdVars, paymentVars, stockVars,
                           screen, outbox>>
      BY <2>1, <2>3 DEF TypeOK, orderVars, holdVars, paymentVars, stockVars
    <2> QED
      BY <1>2, <2>2, <2>3 DEF SweepExpire
  <1> QED
    BY <1>1, <1>2

\* TypeOK is inductive on its own.
LEMMA NextType == TypeOK /\ [Next]_vars => TypeOK'
  <1> SUFFICES ASSUME TypeOK, [Next]_vars
               PROVE  TypeOK'
    OBVIOUS
  <1>1. CASE Tick
    BY <1>1, BoundsAssumption
    DEF Tick, TypeOK, Times, orderVars, holdVars, paymentVars, stockVars
  <1>2. CASE SweepSelect
    BY <1>2
    DEF SweepSelect, FirstDue, Due, TypeOK, orderVars, holdVars, paymentVars, stockVars
  <1>3. CASE UNCHANGED vars
    BY <1>3 DEF TypeOK, vars, orderVars, holdVars, paymentVars, stockVars
  <1>4. ASSUME NEW b \in Batches, Import(b)
        PROVE  TypeOK'
    <2>1. \A v \in DOMAIN b : b[v].available \in Nat /\ b[v].reserved \in Nat
      BY BatchesAssumption DEF Balance
    <2>2. /\ available' \in [Variants -> Nat]
          /\ reserved' \in [Variants -> Nat]
      BY <1>4, <2>1 DEF Import, TypeOK
    <2> QED
      BY <1>4, <2>2 DEF Import, TypeOK, orderVars, holdVars, paymentVars
  <1> QED
    BY <1>1, <1>2, <1>3, <1>4, StaffType, OneCType, SubmitProofType, WorkerType
    DEF Next

\* Every variable keeps its type in every behaviour.
THEOREM TypeCorrect == Spec => []TypeOK
  BY InitType, NextType, PTL DEF Spec

------------------------------------------------------------------------------
(* Order, reservation and payment rows agree.  The two invariants are only *)
(* inductive together: that an order becomes payable without a proof on    *)
(* record follows from what HoldMatchesStatus says of untouched orders.    *)

Coupling == HoldMatchesStatus /\ PaymentMatchesStatus

\* The groups of statuses do not overlap.
LEMMA StatusGroups ==
    /\ PayableStatus \cap PaidStatus = {}
    /\ "AWAITING_STOCK_CONFIRMATION" \notin PayableStatus \cup PaidStatus
    /\ "RESERVATION_EXPIRED" \notin PayableStatus \cup PaidStatus
    /\ "CANCELLED_BY_STORE" \notin PayableStatus \cup PaidStatus
  BY DEF PayableStatus, PaidStatus

\* Untouched orders hold nothing and are paid by nothing.
LEMMA InitCoupling == Init => Coupling
  BY DEF Init, Coupling, HoldMatchesStatus, PaymentMatchesStatus,
         PayableStatus, PaidStatus

\* No manager's command separates order, reservation and payment.
LEMMA StaffCoupling ==
    ASSUME TypeOK, Coupling, NEW s \in Staff, NEW o \in Orders, StaffStep(s, o)
    PROVE  Coupling'
  <1> USE DEF TypeOK, Coupling, HoldMatchesStatus, PaymentMatchesStatus
  <1>1. CASE OpenOrder(s, o)
    BY <1>1 DEF OpenOrder, orderVars, holdVars, paymentVars
  <1>2. CASE RequestStockConfirmation(s, o)
    BY <1>2 DEF RequestStockConfirmation, orderVars, holdVars, paymentVars
  <1>3. CASE RequestExtension(s, o)
    BY <1>3 DEF RequestExtension, orderVars, holdVars, paymentVars
  <1>4. CASE PublishDetails(s, o)
    <2>1. status[o] \in PayableStatus /\ reservation[o] = "ACTIVE"
      BY <1>4 DEF PublishDetails, LiveReservation
    <2> QED
      BY <1>4, <2>1, StatusGroups
      DEF PublishDetails, BumpVersion, holdVars
  <1>5. CASE ConfirmPayment(s, o)
    <2>1. /\ status[o] \in PayableStatus
          /\ reservation[o] = "ACTIVE"
          /\ payment[o] # "NONE"
      BY <1>5 DEF ConfirmPayment, CanConfirmPayment, LiveReservation
    <2>2. status' = [status EXCEPT ![o] = "PAID"]
      BY <1>5 DEF ConfirmPayment, Transition
    <2> QED
      BY <1>5, <2>1, <2>2, StatusGroups
      DEF ConfirmPayment, MovePayment, holdVars, PaidStatus
  <1>6. CASE RejectPayment(s, o)
    <2>1. status[o] = "PAYMENT_VERIFICATION" /\ payment[o] = "PROOF_UPLOADED"
      BY <1>6 DEF RejectPayment
    <2>2. status' = [status EXCEPT ![o] = "AWAITING_PAYMENT"]
      BY <1>6 DEF RejectPayment, Transition
    <2> QED
      BY <1>6, <2>1, <2>2 DEF RejectPayment, MovePayment, holdVars,
                              PayableStatus, PaidStatus
  <1>7. CASE AdminTransition(s, o)
    <2>1. PICK target \in {"ASSEMBLING", "READY_FOR_PICKUP", "COMPLETED"} :
              Transition(o, target, "ADMIN")
      BY <1>7 DEF AdminTransition
    <2>2. status[o] \in PaidStatus
      BY <2>1, MovesOfTheTable DEF Transition
    <2>3. target \in PaidStatus /\ status' = [status EXCEPT ![o] = target]
      BY <2>1 DEF Transition, PaidStatus
    <2> QED
      BY <1>7, <2>2, <2>3 DEF AdminTransition, holdVars, paymentVars,
                              PayableStatus, PaidStatus
  <1>8. CASE Cancel(s, o)
    <2>1. status[o] \notin PaidStatus \cup {"RESERVATION_EXPIRED"}
      BY <1>8, MovesOfTheTable DEF Cancel, Transition
    <2>2. status' = [status EXCEPT ![o] = "CANCELLED_BY_STORE"]
      BY <1>8 DEF Cancel, Transition
    <2> QED
      BY <1>8, <2>1, <2>2, StatusGroups
      DEF Cancel, holdVars, paymentVars
  <1> QED
    BY <1>1, <1>2, <1>3, <1>4, <1>5, <1>6, <1>7, <1>8 DEF StaffStep

\* Nor does a proof of payment ...
LEMMA SubmitProofCoupling ==
    ASSUME TypeOK, Coupling, NEW o \in Orders, SubmitProof(o)
    PROVE  Coupling'
  <1> USE DEF TypeOK, Coupling, HoldMatchesStatus, PaymentMatchesStatus
  <1>1. status[o] \in PayableStatus /\ reservation[o] = "ACTIVE"
    BY DEF SubmitProof, LiveReservation, CanSendProof
  <1>2. status' = [status EXCEPT ![o] = "PAYMENT_VERIFICATION"]
    BY <1>1 DEF SubmitProof, Transition, BumpVersion, PayableStatus, CanSendProof
  <1> QED
    BY <1>1, <1>2 DEF SubmitProof, MovePayment, holdVars, PayableStatus, PaidStatus,
                      CanSendProof

\* ... nor a message of 1C ...
LEMMA OneCCoupling ==
    ASSUME TypeOK, Coupling, NEW o \in Orders, OneCStep(o)
    PROVE  Coupling'
  <1> USE DEF TypeOK, Coupling, HoldMatchesStatus, PaymentMatchesStatus
  <1>1. CASE RecordOrderExport(o)
    BY <1>1 DEF RecordOrderExport, holdVars, paymentVars
  <1>2. ASSUME NEW v \in OneCVersions, NEW e \in Deadlines, ConfirmFromOneC(o, v, e)
        PROVE  Coupling'
    <2>1. e > 0 /\ e \in Nat
      BY BoundsAssumption DEF Deadlines
    <2>2. /\ reservation[o] = "NONE"
          /\ payment[o] = "NONE"
      BY <1>2, StatusGroups DEF ConfirmFromOneC, ReservationStatus,
                                Newer, EnoughStock, TakeStock
    <2>3. status' = [status EXCEPT ![o] = "AWAITING_PAYMENT"]
      BY <1>2 DEF ConfirmFromOneC, Transition, Newer, EnoughStock, TakeStock
    <2> QED
      BY <1>2, <2>1, <2>2, <2>3 DEF ConfirmFromOneC, HoldUntil, paymentVars,
                                    PayableStatus, PaidStatus,
                                    Newer, EnoughStock, TakeStock
  <1>3. ASSUME NEW v \in OneCVersions, NEW e \in Deadlines,
               ApplyExtensionFromOneC(o, v, e)
        PROVE  Coupling'
    <2>1. e > 0 /\ e \in Nat
      BY BoundsAssumption DEF Deadlines
    <2>2. reservation[o] = "ACTIVE"
      BY <1>3 DEF ApplyExtensionFromOneC, Newer
    <2> QED
      BY <1>3, <2>1, <2>2
      DEF ApplyExtensionFromOneC, HoldUntil, BumpVersion, paymentVars, Newer
  <1>4. ASSUME NEW v \in OneCVersions, ConfirmPaymentFromOneC(o, v)
        PROVE  Coupling'
    <2>1. /\ status[o] \in PayableStatus
          /\ reservation[o] = "ACTIVE"
          /\ payment[o] # "NONE"
      BY <1>4 DEF ConfirmPaymentFromOneC, CanConfirmPayment, LiveReservation, Newer
    <2>2. status' = [status EXCEPT ![o] = "PAID"]
      BY <1>4 DEF ConfirmPaymentFromOneC, Transition, Newer
    <2> QED
      BY <1>4, <2>1, <2>2, StatusGroups
      DEF ConfirmPaymentFromOneC, MovePayment, holdVars, PaidStatus, Newer
  <1>5. ASSUME NEW v \in OneCVersions, AcknowledgePaymentFromOneC(o, v)
        PROVE  Coupling'
    BY <1>5 DEF AcknowledgePaymentFromOneC, BumpVersion, holdVars, paymentVars,
                Newer
  <1> QED
    BY <1>1, <1>2, <1>3, <1>4, <1>5 DEF OneCStep

\* ... nor an expiry, which only payable orders reach.
LEMMA ExpireCoupling ==
    ASSUME TypeOK, Coupling, NEW o \in Orders, NEW now, Expire(o, now)
    PROVE  Coupling'
  <1> USE DEF TypeOK, Coupling, HoldMatchesStatus, PaymentMatchesStatus
  <1>1. status[o] \in PayableStatus /\ reservation[o] = "ACTIVE"
    BY DEF Expire, CanExpire, ReturnStock
  <1>2. status' = [status EXCEPT ![o] = "RESERVATION_EXPIRED"]
    BY DEF Expire, Transition, ReturnStock
  <1> QED
    BY <1>1, <1>2, StatusGroups DEF Expire, paymentVars, ReturnStock

\* Coupling is inductive relative to the types.
LEMMA NextCoupling == TypeOK /\ Coupling /\ [Next]_vars => Coupling'
  <1> SUFFICES ASSUME TypeOK, Coupling, [Next]_vars
               PROVE  Coupling'
    OBVIOUS
  <1>1. ASSUME UNCHANGED <<orderVars, holdVars, paymentVars>>
        PROVE  Coupling'
    BY <1>1 DEF Coupling, HoldMatchesStatus, PaymentMatchesStatus, orderVars,
                holdVars, paymentVars
  <1>2. CASE Tick \/ SweepSelect \/ BroughtIn \/ UNCHANGED vars
    BY <1>1, <1>2 DEF Tick, SweepSelect, BroughtIn, Import, vars
  <1>3. ASSUME NEW o \in Orders, ExpiryJob(o) \/ SweepExpire(o)
        PROVE  Coupling'
    BY <1>1, <1>3, ExpireCoupling DEF ExpiryJob, SweepExpire
  <1> QED
    BY <1>2, <1>3, StaffCoupling, OneCCoupling, SubmitProofCoupling DEF Next, BroughtIn

\* The invariant that the later theorems rest on.
LEMMA Coupled == Spec => [](TypeOK /\ Coupling)
  <1>1. Init => TypeOK /\ Coupling
    BY InitType, InitCoupling
  <1>2. (TypeOK /\ Coupling) /\ [Next]_vars => (TypeOK /\ Coupling)'
    BY NextType, NextCoupling
  <1> QED
    BY <1>1, <1>2, PTL DEF Spec

\* Payable and paid orders hold their stock until the deadline they show.
THEOREM HoldSafe == Spec => []HoldMatchesStatus
  <1>1. TypeOK /\ Coupling => HoldMatchesStatus
    BY DEF Coupling
  <1> QED
    BY <1>1, Coupled, PTL

\* Order and payment never contradict each other.
THEOREM PaymentSafe == Spec => []PaymentMatchesStatus
  <1>1. TypeOK /\ Coupling => PaymentMatchesStatus
    BY DEF Coupling
  <1> QED
    BY <1>1, Coupled, PTL

------------------------------------------------------------------------------
(* Every step of an order moves the balances by the units it takes or      *)
(* gives back.  The held units are finitely many, so that they can be      *)
(* counted; that is all the invariant needs to say.                        *)

UnitsOf(o, v) == {o} \X (1..Qty[o][v])

HeldAreFinite == \A v \in Variants : IsFiniteSet(HeldUnits(v))

\* Afterwards the held units of v can be counted still, and the step accounts
\* for those it took or gave back.
Accounts(v) == IsFiniteSet(HeldUnits(v)') /\ AccountedStep(v)

\* One element per unit: counting the pairs counts the quantity.
LEMMA UnitsCount ==
    ASSUME NEW o \in Orders, NEW v \in Variants
    PROVE  /\ IsFiniteSet(UnitsOf(o, v))
           /\ Cardinality(UnitsOf(o, v)) = Qty[o][v]
  <1> DEFINE n == Qty[o][v]
             f == [i \in 1..n |-> <<o, i>>]
  <1>1. n \in Nat
    BY QtyType
  <1>2. ASSUME NEW k \in Nat
        PROVE  IsFiniteSet(1..k) /\ Cardinality(1..k) = k
    <2>1. 1 \in Int /\ k \in Int
      OBVIOUS
    <2>2. /\ IsFiniteSet(1..k)
          /\ Cardinality(1..k) = IF 1 > k THEN 0 ELSE k - 1 + 1
      BY <2>1, FS_Interval, Zenon
    <2> QED
      BY <2>2
  <1>3. f \in Bijection(1..n, UnitsOf(o, v))
    BY DEF UnitsOf, Bijection, Injection, Surjection, IsInjective
  <1>4. ExistsBijection(1..n, UnitsOf(o, v))
    BY <1>3 DEF ExistsBijection
  <1>5. IsFiniteSet(1..n) /\ Cardinality(1..n) = n
    BY <1>1, <1>2
  <1> QED
    BY <1>4, <1>5, FS_Bijection

\* A new hold adds its units to those held.
LEMMA HoldCounted ==
    ASSUME TypeOK, NEW o \in Orders, NEW v \in Variants,
           IsFiniteSet(HeldUnits(v)), reservation[o] # "ACTIVE",
           reservation' = [reservation EXCEPT ![o] = "ACTIVE"]
    PROVE  /\ IsFiniteSet(HeldUnits(v)')
           /\ Cardinality(HeldUnits(v)') = Cardinality(HeldUnits(v)) + Qty[o][v]
  <1>1. Holding' = Holding \cup {o}
    BY DEF Holding, TypeOK
  <1>2. HeldUnits(v)' = HeldUnits(v) \cup UnitsOf(o, v)
    BY <1>1 DEF HeldUnits, UnitsOf
  <1>3. HeldUnits(v) \cap UnitsOf(o, v) = {}
    BY DEF HeldUnits, UnitsOf, Holding
  <1>4. Cardinality(HeldUnits(v) \cap UnitsOf(o, v)) = 0
    BY <1>3, FS_EmptySet
  <1>5. Cardinality(HeldUnits(v)) \in Nat /\ Qty[o][v] \in Nat
    BY FS_CardinalityType, QtyType
  <1>6. /\ IsFiniteSet(UnitsOf(o, v))
        /\ Cardinality(UnitsOf(o, v)) = Qty[o][v]
    BY UnitsCount
  <1>7. /\ IsFiniteSet(HeldUnits(v) \cup UnitsOf(o, v))
        /\ Cardinality(HeldUnits(v) \cup UnitsOf(o, v)) =
              Cardinality(HeldUnits(v)) + Cardinality(UnitsOf(o, v))
                - Cardinality(HeldUnits(v) \cap UnitsOf(o, v))
    BY <1>6, FS_Union, Zenon
  <1> QED
    BY <1>2, <1>4, <1>5, <1>6, <1>7

\* The end of a hold removes its units from those held.
LEMMA ReleaseCounted ==
    ASSUME TypeOK, NEW o \in Orders, NEW v \in Variants,
           IsFiniteSet(HeldUnits(v)), reservation[o] = "ACTIVE",
           reservation' = [reservation EXCEPT ![o] = "EXPIRED"]
    PROVE  /\ IsFiniteSet(HeldUnits(v)')
           /\ Cardinality(HeldUnits(v)') = Cardinality(HeldUnits(v)) - Qty[o][v]
  <1>1. Holding' = Holding \ {o} /\ o \in Holding
    BY DEF Holding, TypeOK
  <1>2. HeldUnits(v)' = HeldUnits(v) \ UnitsOf(o, v)
    BY <1>1 DEF HeldUnits, UnitsOf
  <1>3. HeldUnits(v) \cap UnitsOf(o, v) = UnitsOf(o, v)
    BY <1>1 DEF HeldUnits, UnitsOf
  <1>4. Cardinality(UnitsOf(o, v)) = Qty[o][v]
    BY UnitsCount
  <1>5. /\ IsFiniteSet(HeldUnits(v) \ UnitsOf(o, v))
        /\ Cardinality(HeldUnits(v) \ UnitsOf(o, v)) =
              Cardinality(HeldUnits(v)) - Cardinality(HeldUnits(v) \cap UnitsOf(o, v))
    BY FS_Difference, Zenon
  <1> QED
    BY <1>2, <1>3, <1>4, <1>5

\* Nothing is held at the start.
LEMMA InitHeld == Init => HeldAreFinite
  <1> SUFFICES ASSUME Init, NEW v \in Variants
               PROVE  IsFiniteSet(HeldUnits(v))
    BY DEF HeldAreFinite
  <1>1. HeldUnits(v) = {}
    BY DEF Init, HeldUnits, Holding
  <1> QED
    BY <1>1, FS_EmptySet

\* Giving the stock of an order back is accounted for.
LEMMA ExpireAccounts ==
    ASSUME TypeOK, HeldAreFinite, NEW o \in Orders, NEW now, Expire(o, now),
           NEW v \in Variants
    PROVE  Accounts(v)
  <1>1. /\ IsFiniteSet(HeldUnits(v)')
        /\ Cardinality(HeldUnits(v)') = Cardinality(HeldUnits(v)) - Qty[o][v]
    BY ReleaseCounted DEF Expire, CanExpire, HeldAreFinite, ReturnStock
  <1>2. /\ reserved'[v] = reserved[v] - Qty[o][v]
        /\ available'[v] = available[v] + Qty[o][v]
    BY DEF Expire, ReturnStock
  <1>3. Cardinality(HeldUnits(v)) \in Nat /\ Qty[o][v] \in Nat
    BY FS_CardinalityType, QtyType DEF HeldAreFinite
  <1>4. reserved[v] \in Nat /\ available[v] \in Nat
    BY DEF TypeOK
  <1> QED
    BY <1>1, <1>2, <1>3, <1>4 DEF Accounts, AccountedStep

\* Taking the stock of an order is accounted for.
LEMMA ConfirmAccounts ==
    ASSUME TypeOK, HeldAreFinite, NEW o \in Orders, NEW v, NEW e,
           ConfirmFromOneC(o, v, e), NEW w \in Variants
    PROVE  Accounts(w)
  <1>1. /\ IsFiniteSet(HeldUnits(w)')
        /\ Cardinality(HeldUnits(w)') = Cardinality(HeldUnits(w)) + Qty[o][w]
    BY HoldCounted DEF ConfirmFromOneC, HeldAreFinite,
                       Newer, EnoughStock, TakeStock
  <1>2. /\ reserved'[w] = reserved[w] + Qty[o][w]
        /\ available'[w] = available[w] - Qty[o][w]
    BY DEF ConfirmFromOneC, Newer, EnoughStock, TakeStock
  <1>3. Cardinality(HeldUnits(w)) \in Nat /\ Qty[o][w] \in Nat
    BY FS_CardinalityType, QtyType DEF HeldAreFinite
  <1>4. reserved[w] \in Nat /\ available[w] \in Nat
    BY DEF TypeOK
  <1> QED
    BY <1>1, <1>2, <1>3, <1>4 DEF Accounts, AccountedStep

\* A step is an import, or it accounts for every variant.
LEMMA NextAccounts ==
    ASSUME TypeOK, HeldAreFinite, [Next]_vars
    PROVE  BroughtIn \/ \A v \in Variants : Accounts(v)
  <1> SUFFICES ASSUME ~BroughtIn, NEW v \in Variants
               PROVE  Accounts(v)
    OBVIOUS
  <1>1. ASSUME UNCHANGED <<reservation, stockVars>>
        PROVE  Accounts(v)
    <2>1. HeldUnits(v)' = HeldUnits(v)
      BY <1>1 DEF HeldUnits, Holding
    <2>2. Cardinality(HeldUnits(v)) \in Nat /\ reserved[v] \in Nat /\ available[v] \in Nat
      BY FS_CardinalityType DEF HeldAreFinite, TypeOK
    <2> QED
      BY <1>1, <2>1, <2>2 DEF Accounts, AccountedStep, HeldAreFinite, stockVars
  <1>2. CASE Tick \/ SweepSelect \/ UNCHANGED vars
    BY <1>1, <1>2 DEF Tick, SweepSelect, vars, holdVars
  <1>3. ASSUME NEW o \in Orders, NEW s \in Staff, StaffStep(s, o)
        PROVE  Accounts(v)
    BY <1>1, <1>3
    DEF StaffStep, OpenOrder, RequestStockConfirmation, RequestExtension,
        PublishDetails, ConfirmPayment, RejectPayment, AdminTransition, Cancel,
        holdVars
  <1>4. ASSUME NEW o \in Orders, OneCStep(o)
        PROVE  Accounts(v)
    BY <1>1, <1>4, ConfirmAccounts
    DEF OneCStep, RecordOrderExport, ApplyExtensionFromOneC,
        ConfirmPaymentFromOneC, AcknowledgePaymentFromOneC, holdVars, Newer
  <1>5. ASSUME NEW o \in Orders, SubmitProof(o)
        PROVE  Accounts(v)
    BY <1>1, <1>5 DEF SubmitProof, holdVars, CanSendProof
  <1>6. ASSUME NEW o \in Orders, ExpiryJob(o) \/ SweepExpire(o)
        PROVE  Accounts(v)
    BY <1>1, <1>6, ExpireAccounts DEF ExpiryJob, SweepExpire, holdVars
  <1> QED
    BY <1>2, <1>3, <1>4, <1>5, <1>6 DEF Next, BroughtIn

\* An import takes nothing from any order, so what is held stays finite.
LEMMA NextHeld == TypeOK /\ HeldAreFinite /\ [Next]_vars => HeldAreFinite'
  <1> SUFFICES ASSUME TypeOK, HeldAreFinite, [Next]_vars
               PROVE  HeldAreFinite'
    OBVIOUS
  <1>1. CASE BroughtIn
    BY <1>1 DEF BroughtIn, Import, HeldAreFinite, HeldUnits, Holding, holdVars
  <1>2. CASE \A v \in Variants : Accounts(v)
    BY <1>2 DEF Accounts, HeldAreFinite
  <1> QED
    BY <1>1, <1>2, NextAccounts

\* The invariant of this section.
LEMMA Counted == Spec => [](TypeOK /\ HeldAreFinite)
  <1>1. Init => TypeOK /\ HeldAreFinite
    BY InitType, InitHeld
  <1>2. (TypeOK /\ HeldAreFinite) /\ [Next]_vars => (TypeOK /\ HeldAreFinite)'
    BY NextType, NextHeld
  <1> QED
    BY <1>1, <1>2, PTL DEF Spec

\* Between imports, reserved and available account for every unit of the ACTIVE
\* reservations, with any number of orders taking and returning stock in any
\* order.
THEOREM StockSafe == Spec => StockConserved
  <1>1. (TypeOK /\ HeldAreFinite) /\ [Next]_vars
            => [BroughtIn \/ \A v \in Variants : AccountedStep(v)]_vars
    BY NextAccounts DEF Accounts
  <1> QED
    BY <1>1, Counted, PTL DEF Spec, StockConserved

------------------------------------------------------------------------------
(* What one step may do to an order.                                       *)

\* Only the order that an action names is touched, and if it is, its version
\* moves; every number that keys are built of only grows.
StepOf(o) ==
    /\ VersionStep(o)
    /\ ForwardStep(o)
    /\ paymentVersion'[o] >= paymentVersion[o]

\* A step that leaves what a manager sees of o alone keeps pace.
LEMMA QuietStep ==
    ASSUME TypeOK, NEW o \in Orders,
           status'[o] = status[o], version'[o] = version[o],
           oneCVersion'[o] = oneCVersion[o], deadline'[o] = deadline[o],
           payment'[o] = payment[o], paymentVersion'[o] = paymentVersion[o]
    PROVE  StepOf(o)
  BY DEF TypeOK, StepOf, VersionStep, ForwardStep, OnDisplay

\* Managers' commands keep pace on every order p ...
LEMMA StaffKeepsPace ==
    ASSUME TypeOK, Coupling, NEW s \in Staff, NEW o \in Orders, StaffStep(s, o),
           NEW p \in Orders
    PROVE  StepOf(p)
  <1>1. CASE OpenOrder(s, o) \/ RequestStockConfirmation(s, o) \/ RequestExtension(s, o)
    BY <1>1, QuietStep
    DEF OpenOrder, RequestStockConfirmation, RequestExtension, orderVars, paymentVars
  <1>2. CASE PublishDetails(s, o)
    <2>1. paymentVersion[o] = 0
      BY <1>2 DEF PublishDetails, Coupling, PaymentMatchesStatus
    <2> QED
      BY <1>2, <2>1 DEF PublishDetails, BumpVersion, TypeOK, StepOf,
                        VersionStep, ForwardStep, OnDisplay
  <1>3. CASE ConfirmPayment(s, o)
    BY <1>3 DEF ConfirmPayment, Transition, MovePayment, TypeOK, StepOf,
                VersionStep, ForwardStep, OnDisplay
  <1>4. CASE RejectPayment(s, o)
    BY <1>4 DEF RejectPayment, Transition, MovePayment, TypeOK, StepOf,
                VersionStep, ForwardStep, OnDisplay
  <1>5. CASE AdminTransition(s, o)
    BY <1>5 DEF AdminTransition, Transition, paymentVars, TypeOK, StepOf,
                VersionStep, ForwardStep, OnDisplay
  <1>6. CASE Cancel(s, o)
    BY <1>6 DEF Cancel, Transition, paymentVars, TypeOK, StepOf,
                VersionStep, ForwardStep, OnDisplay
  <1> QED
    BY <1>1, <1>2, <1>3, <1>4, <1>5, <1>6 DEF StaffStep

\* ... and so do messages of 1C ...
LEMMA OneCKeepsPace ==
    ASSUME TypeOK, Coupling, NEW o \in Orders, OneCStep(o), NEW p \in Orders
    PROVE  StepOf(p)
  <1>1. CASE RecordOrderExport(o)
    BY <1>1, QuietStep DEF RecordOrderExport, paymentVars
  <1>2. ASSUME NEW v \in OneCVersions, NEW e \in Deadlines, ConfirmFromOneC(o, v, e)
        PROVE  StepOf(p)
    <2>1. v \in Nat /\ e \in Nat /\ e > 0
      BY BoundsAssumption DEF OneCVersions, Deadlines
    <2>2. deadline[o] = 0
      BY <1>2, StatusGroups
      DEF ConfirmFromOneC, Coupling, HoldMatchesStatus, TypeOK, ReservationStatus,
          Newer, EnoughStock, TakeStock
    <2> QED
      BY <1>2, <2>1, <2>2
      DEF ConfirmFromOneC, Transition, HoldUntil, paymentVars, TypeOK, StepOf,
          VersionStep, ForwardStep, OnDisplay, Newer, EnoughStock, TakeStock
  <1>3. ASSUME NEW v \in OneCVersions, NEW e \in Deadlines,
               ApplyExtensionFromOneC(o, v, e)
        PROVE  StepOf(p)
    <2>1. v \in Nat /\ e \in Nat
      BY BoundsAssumption DEF OneCVersions, Deadlines
    <2> QED
      BY <1>3, <2>1
      DEF ApplyExtensionFromOneC, BumpVersion, HoldUntil, paymentVars, TypeOK,
          StepOf, VersionStep, ForwardStep, OnDisplay, Newer
  <1>4. ASSUME NEW v \in OneCVersions, ConfirmPaymentFromOneC(o, v)
        PROVE  StepOf(p)
    <2>1. v \in Nat
      BY BoundsAssumption DEF OneCVersions
    <2> QED
      BY <1>4, <2>1
      DEF ConfirmPaymentFromOneC, Transition, MovePayment, TypeOK, StepOf,
          VersionStep, ForwardStep, OnDisplay, Newer
  <1>5. ASSUME NEW v \in OneCVersions, AcknowledgePaymentFromOneC(o, v)
        PROVE  StepOf(p)
    <2>1. v \in Nat
      BY BoundsAssumption DEF OneCVersions
    <2> QED
      BY <1>5, <2>1
      DEF AcknowledgePaymentFromOneC, BumpVersion, paymentVars, TypeOK, StepOf,
          VersionStep, ForwardStep, OnDisplay, Newer
  <1> QED
    BY <1>1, <1>2, <1>3, <1>4, <1>5 DEF OneCStep

\* ... and expiries.
LEMMA ExpireKeepsPace ==
    ASSUME TypeOK, NEW o \in Orders, NEW now, Expire(o, now), NEW p \in Orders
    PROVE  StepOf(p)
  BY DEF Expire, Transition, paymentVars, TypeOK, StepOf, VersionStep,
         ForwardStep, OnDisplay, ReturnStock

\* Every step keeps pace on every order.
LEMMA NextKeepsPace ==
    TypeOK /\ Coupling /\ [Next]_vars => \A p \in Orders : StepOf(p)
  <1> SUFFICES ASSUME TypeOK, Coupling, [Next]_vars, NEW p \in Orders
               PROVE  StepOf(p)
    OBVIOUS
  <1>1. CASE Tick \/ SweepSelect \/ BroughtIn \/ UNCHANGED vars
    BY <1>1, QuietStep DEF Tick, SweepSelect, BroughtIn, Import, vars, orderVars, paymentVars
  <1>2. ASSUME NEW o \in Orders, SubmitProof(o)
        PROVE  StepOf(p)
    BY <1>2 DEF SubmitProof, Transition, BumpVersion, MovePayment, TypeOK,
                StepOf, VersionStep, ForwardStep, OnDisplay, CanSendProof
  <1>3. ASSUME NEW o \in Orders, ExpiryJob(o) \/ SweepExpire(o)
        PROVE  StepOf(p)
    BY <1>3, ExpireKeepsPace, QuietStep
    DEF ExpiryJob, SweepExpire, orderVars, paymentVars
  <1> QED
    BY <1>1, <1>2, <1>3, StaffKeepsPace, OneCKeepsPace DEF Next, BroughtIn

\* The version of an order is a sound optimistic lock: under an unchanged
\* version nothing a manager decides on has changed.
THEOREM VersionIsALock == Spec => VersionNamesState
  <1>1. (TypeOK /\ Coupling) /\ [Next]_vars
            => [\A o \in Orders : VersionStep(o)]_vars
    BY NextKeepsPace DEF StepOf
  <1> QED
    BY <1>1, Coupled, PTL DEF Spec, VersionNamesState

\* No message of 1C takes an order back.
THEOREM OneCNeverGoesBack == Spec => OneCFactsMoveForward
  <1>1. (TypeOK /\ Coupling) /\ [Next]_vars
            => [\A o \in Orders : ForwardStep(o)]_vars
    BY NextKeepsPace DEF StepOf
  <1> QED
    BY <1>1, Coupled, PTL DEF Spec, OneCFactsMoveForward

------------------------------------------------------------------------------
(* The keys of the outbox.                                                 *)

\* The step adds  rows  to the outbox, none of them ahead of its order.
WritesBehind(rows) ==
    /\ outbox' = outbox \cup rows
    /\ \A row \in rows : row.n <= KeyLimit(row.type, row.order)'

\* An order moves ahead of the keys it has used.
LEMMA LimitGrows ==
    ASSUME TypeOK, NEW o \in Orders, StepOf(o), NEW type \in EventType,
           TypeOK'
    PROVE  /\ KeyLimit(type, o) \in Int
           /\ KeyLimit(type, o)' \in Int
           /\ KeyLimit(type, o)' >= KeyLimit(type, o)
  BY DEF KeyLimit, StepOf, VersionStep, ForwardStep, OnDisplay, TypeOK, EventType

\* A transaction that writes behind the limits keeps the outbox behind them.
LEMMA KeptRows ==
    ASSUME TypeOK, TypeOK', OutboxKeysStayBehind,
           \A o \in Orders : StepOf(o),
           NEW rows, WritesBehind(rows)
    PROVE  OutboxKeysStayBehind'
  <1> SUFFICES ASSUME NEW row \in outbox
               PROVE  row.n <= KeyLimit(row.type, row.order)'
    BY DEF OutboxKeysStayBehind, WritesBehind
  <1>1. row.type \in EventType /\ row.order \in Orders /\ row.n \in Nat
    BY DEF TypeOK, Event
  <1>2. row.n <= KeyLimit(row.type, row.order)
    BY DEF OutboxKeysStayBehind
  <1>3. /\ KeyLimit(row.type, row.order) \in Int
        /\ KeyLimit(row.type, row.order)' \in Int
        /\ KeyLimit(row.type, row.order)' >= KeyLimit(row.type, row.order)
    BY <1>1, LimitGrows
  <1> QED
    BY <1>1, <1>2, <1>3

\* Every action's own rows are within what the action makes of the order.
LEMMA StaffRows ==
    ASSUME TypeOK, TypeOK', Coupling, NEW s \in Staff, NEW o \in Orders,
           StaffStep(s, o)
    PROVE  \E rows : WritesBehind(rows)
  <1>1. CASE OpenOrder(s, o) \/ AdminTransition(s, o) \/ Cancel(s, o)
    <2>1. WritesBehind({})
      BY <1>1 DEF OpenOrder, AdminTransition, Cancel, WritesBehind
    <2> QED
      BY <2>1
  <1>2. CASE RequestStockConfirmation(s, o)
    <2>1. version'[o] = version[o]
      BY <1>2 DEF RequestStockConfirmation, orderVars
    <2>2. WritesBehind({Row("stock_confirmation.requested", o, version[o])})
      BY <1>2, <2>1 DEF RequestStockConfirmation, Emit, Row, KeyLimit, TypeOK, WritesBehind
    <2> QED
      BY <2>2
  <1>3. CASE RequestExtension(s, o)
    <2>1. version'[o] = version[o]
      BY <1>3 DEF RequestExtension, orderVars
    <2>2. WritesBehind({Row("reservation_extension.requested", o, version[o])})
      BY <1>3, <2>1 DEF RequestExtension, Emit, Row, KeyLimit, TypeOK, WritesBehind
    <2> QED
      BY <2>2
  <1>4. CASE PublishDetails(s, o)
    <2>1. paymentVersion'[o] = 1
      BY <1>4 DEF PublishDetails, TypeOK
    <2>2. WritesBehind({Row("payment.details_published", o, 1)})
      BY <1>4, <2>1 DEF PublishDetails, Emit, Row, KeyLimit, WritesBehind
    <2> QED
      BY <2>2
  <1>5. CASE ConfirmPayment(s, o)
    <2>1. paymentVersion'[o] \in Nat
      BY DEF TypeOK
    <2>2. WritesBehind({Row("payment.confirmed", o, paymentVersion'[o])})
      BY <1>5, <2>1 DEF ConfirmPayment, Emit, Row, KeyLimit, WritesBehind
    <2> QED
      BY <2>2
  <1>6. CASE RejectPayment(s, o)
    <2>1. paymentVersion'[o] \in Nat
      BY DEF TypeOK
    <2>2. WritesBehind({Row("payment.rejected", o, paymentVersion'[o])})
      BY <1>6, <2>1 DEF RejectPayment, Emit, Row, KeyLimit, WritesBehind
    <2> QED
      BY <2>2
  <1> QED
    BY <1>1, <1>2, <1>3, <1>4, <1>5, <1>6 DEF StaffStep

\* The rows of 1C's messages carry the version just taken.
LEMMA OneCRows ==
    ASSUME TypeOK, TypeOK', Coupling, NEW o \in Orders, OneCStep(o)
    PROVE  \E rows : WritesBehind(rows)
  <1>1. CASE RecordOrderExport(o) \/ \E v \in OneCVersions : AcknowledgePaymentFromOneC(o, v)
    <2>1. WritesBehind({})
      BY <1>1 DEF RecordOrderExport, AcknowledgePaymentFromOneC, WritesBehind, Newer
    <2> QED
      BY <2>1
  <1>2. ASSUME NEW v \in OneCVersions, NEW e \in Deadlines, ConfirmFromOneC(o, v, e)
        PROVE  \E rows : WritesBehind(rows)
    <2>1. v \in Nat /\ e \in Nat
      BY BoundsAssumption DEF OneCVersions, Deadlines
    <2>2. oneCVersion'[o] = v /\ deadline'[o] = e
      BY <1>2 DEF ConfirmFromOneC, HoldUntil, TypeOK, Newer, EnoughStock, TakeStock
    <2>3. WritesBehind({Row("stock_confirmed", o, v),
                         Row("reservation_expiry_reminder", o, e)})
      BY <1>2, <2>1, <2>2 DEF ConfirmFromOneC, Emit, Row, KeyLimit, WritesBehind,
                              Newer, EnoughStock, TakeStock
    <2> QED
      BY <2>3
  <1>3. ASSUME NEW v \in OneCVersions, NEW e \in Deadlines,
               ApplyExtensionFromOneC(o, v, e)
        PROVE  \E rows : WritesBehind(rows)
    <2>1. v \in Nat /\ e \in Nat
      BY BoundsAssumption DEF OneCVersions, Deadlines
    <2>2. oneCVersion'[o] = v /\ deadline'[o] = e
      BY <1>3 DEF ApplyExtensionFromOneC, HoldUntil, TypeOK, Newer
    <2>3. WritesBehind({Row("reservation_extended", o, v),
                         Row("reservation_expiry_reminder", o, e)})
      BY <1>3, <2>1, <2>2 DEF ApplyExtensionFromOneC, Emit, Row, KeyLimit, WritesBehind,
                              Newer
    <2> QED
      BY <2>3
  <1>4. ASSUME NEW v \in OneCVersions, ConfirmPaymentFromOneC(o, v)
        PROVE  \E rows : WritesBehind(rows)
    <2>1. v \in Nat
      BY BoundsAssumption DEF OneCVersions
    <2>2. oneCVersion'[o] = v
      BY <1>4 DEF ConfirmPaymentFromOneC, TypeOK, Newer
    <2>3. WritesBehind({Row("payment.confirmed-one-c", o, v)})
      BY <1>4, <2>1, <2>2 DEF ConfirmPaymentFromOneC, Emit, Row, KeyLimit, WritesBehind,
                              Newer
    <2> QED
      BY <2>3
  <1> QED
    BY <1>1, <1>2, <1>3, <1>4 DEF OneCStep

\* The row of an expiry carries the version just left.
LEMMA ExpireRows ==
    ASSUME TypeOK, TypeOK', NEW o \in Orders, NEW now, Expire(o, now)
    PROVE  \E rows : WritesBehind(rows)
  <1>1. version'[o] = version[o] + 1 /\ version[o] \in Nat
    BY DEF Expire, Transition, TypeOK, ReturnStock
  <1>2. WritesBehind({Row("reservation_expired", o, version[o])})
    BY <1>1 DEF Expire, Emit, Row, KeyLimit, WritesBehind, ReturnStock
  <1> QED
    BY <1>2

\* Keys stay behind their orders in every step.
LEMMA NextKeys ==
    TypeOK /\ Coupling /\ OutboxKeysStayBehind /\ [Next]_vars
        => OutboxKeysStayBehind'
  <1> SUFFICES ASSUME TypeOK, Coupling, OutboxKeysStayBehind, [Next]_vars
               PROVE  OutboxKeysStayBehind'
    OBVIOUS
  <1>1. TypeOK'
    BY NextType
  <1>2. \A o \in Orders : StepOf(o)
    BY NextKeepsPace
  <1>3. ASSUME UNCHANGED outbox
        PROVE  OutboxKeysStayBehind'
    <2>1. WritesBehind({})
      BY <1>3 DEF WritesBehind
    <2> QED
      BY <1>1, <1>2, <2>1, KeptRows
  <1>4. CASE Tick \/ SweepSelect \/ BroughtIn \/ UNCHANGED vars
    BY <1>3, <1>4 DEF Tick, SweepSelect, BroughtIn, Import, vars
  <1>5. ASSUME NEW o \in Orders, SubmitProof(o)
        PROVE  OutboxKeysStayBehind'
    <2>1. paymentVersion'[o] \in Nat
      BY <1>1 DEF TypeOK
    <2>2. WritesBehind({Row("payment.proof_submitted", o, paymentVersion'[o])})
      BY <1>5, <2>1 DEF SubmitProof, Emit, Row, KeyLimit, WritesBehind, CanSendProof
    <2> QED
      BY <1>1, <1>2, <2>2, KeptRows
  <1>6. ASSUME NEW o \in Orders, ExpiryJob(o) \/ SweepExpire(o)
        PROVE  OutboxKeysStayBehind'
    BY <1>1, <1>2, <1>3, <1>6, ExpireRows, KeptRows DEF ExpiryJob, SweepExpire
  <1>7. ASSUME NEW o \in Orders, NEW s \in Staff, StaffStep(s, o)
        PROVE  OutboxKeysStayBehind'
    BY <1>1, <1>2, <1>7, StaffRows, KeptRows
  <1>8. ASSUME NEW o \in Orders, OneCStep(o)
        PROVE  OutboxKeysStayBehind'
    BY <1>1, <1>2, <1>8, OneCRows, KeptRows
  <1> QED
    BY <1>4, <1>5, <1>6, <1>7, <1>8 DEF Next, BroughtIn

\* No key ahead of its order is ever taken in the outbox.
THEOREM KeysSafe == Spec => []OutboxKeysStayBehind
  <1>1. Init => OutboxKeysStayBehind
    BY DEF Init, OutboxKeysStayBehind
  <1>2. (TypeOK /\ Coupling) /\ OutboxKeysStayBehind /\ [Next]_vars
            => OutboxKeysStayBehind'
    BY NextKeys
  <1> QED
    BY <1>1, <1>2, Coupled, PTL DEF Spec

------------------------------------------------------------------------------
(* Pages of managers.                                                      *)

\* A page shows an old version or the truth.
HonestPage(s) ==
    screen[s] # Closed =>
        /\ screen[s].version <= version[screen[s].order]
        /\ screen[s].version = version[screen[s].order]
              => screen[s].saw = OnDisplay(screen[s].order)

PagesHonest == \A s \in Staff : HonestPage(s)

\* A page that is open shows one of the orders.
LEMMA OpenPage ==
    ASSUME TypeOK, NEW s \in Staff, screen[s] # Closed
    PROVE  screen[s] \in Page /\ screen[s].order \in Orders
  BY DEF TypeOK, Page

\* No open page equals a closed one: order ids are not zero.
LEMMA OpenIsNotClosed ==
    ASSUME NEW o \in Orders, NEW a, NEW b, NEW c
    PROVE  [order |-> o, version |-> a, paymentVersion |-> b, saw |-> c] # Closed
  <1>1. o # 0
    BY OrdersAssumption
  <1>2. [order |-> o, version |-> a, paymentVersion |-> b, saw |-> c].order = o
    OBVIOUS
  <1>3. Closed.order = 0
    BY DEF Closed
  <1> QED
    BY <1>1, <1>2, <1>3

\* A page left as it is stays honest, whatever the step does to its order.
LEMMA KeptPage ==
    ASSUME TypeOK, PagesHonest, \A o \in Orders : StepOf(o),
           NEW s \in Staff, screen'[s] = screen[s]
    PROVE  HonestPage(s)'
  <1> SUFFICES ASSUME screen[s] # Closed
               PROVE  HonestPage(s)'
    BY DEF HonestPage
  <1>1. PICK o \in Orders : o = screen[s].order
    BY OpenPage
  <1>2. screen[s].version \in Nat /\ version[o] \in Nat
    BY OpenPage DEF Page, TypeOK
  <1>3. VersionStep(o)
    BY DEF StepOf
  <1>4. /\ screen[s].version <= version[o]
        /\ screen[s].version = version[o] => screen[s].saw = OnDisplay(o)
    BY <1>1 DEF PagesHonest, HonestPage
  <1>5. /\ screen[s].version <= version'[o]
        /\ screen[s].version = version'[o] => screen[s].saw = OnDisplay(o)'
    BY <1>2, <1>3, <1>4 DEF VersionStep
  <1>6. /\ screen'[s].order = o
        /\ screen'[s].version = screen[s].version
        /\ screen'[s].saw = screen[s].saw
    BY <1>1
  <1> QED
    BY <1>5, <1>6 DEF HonestPage, OnDisplay

\* Pages stay honest whoever changes the order they show.
LEMMA NextPages ==
    TypeOK /\ Coupling /\ PagesHonest /\ [Next]_vars => PagesHonest'
  <1> SUFFICES ASSUME TypeOK, Coupling, PagesHonest, [Next]_vars, NEW s \in Staff
               PROVE  HonestPage(s)'
    BY DEF PagesHonest
  <1>1. \A o \in Orders : StepOf(o)
    BY NextKeepsPace
  <1>2. CASE screen'[s] = screen[s]
    BY <1>1, <1>2, KeptPage
  <1>3. ASSUME NEW o \in Orders, OpenOrder(s, o)
        PROVE  HonestPage(s)'
    <2>1. /\ screen'[s].order = o
          /\ screen'[s].version = version[o]
          /\ screen'[s].saw = OnDisplay(o)
      BY <1>3 DEF OpenOrder, TypeOK
    <2>2. /\ version'[o] = version[o] /\ version[o] \in Nat
          /\ OnDisplay(o)' = OnDisplay(o)
      BY <1>3 DEF OpenOrder, orderVars, paymentVars, OnDisplay, TypeOK
    <2> QED
      BY <2>1, <2>2 DEF HonestPage, OnDisplay
  <1>4. ASSUME NEW r \in Staff, NEW o \in Orders, StaffStep(r, o)
        PROVE  screen'[s] = screen[s] \/ screen'[s] = Closed \/ OpenOrder(s, o)
    <2>1. CASE OpenOrder(r, o)
      BY <2>1 DEF OpenOrder, TypeOK
    <2>2. CASE LeavePage(r)
      BY <2>2 DEF LeavePage, TypeOK
    <2> QED
      BY <1>4, <2>1, <2>2
      DEF StaffStep, RequestStockConfirmation, RequestExtension, PublishDetails,
          ConfirmPayment, RejectPayment, AdminTransition, Cancel
  <1>5. ASSUME NEW o \in Orders,
               OneCStep(o) \/ SubmitProof(o) \/ ExpiryJob(o) \/ SweepExpire(o)
        PROVE  screen'[s] = screen[s]
    BY <1>5 DEF OneCStep, RecordOrderExport, ConfirmFromOneC,
                ApplyExtensionFromOneC, ConfirmPaymentFromOneC,
                AcknowledgePaymentFromOneC, SubmitProof, ExpiryJob, SweepExpire,
                Expire, CanSendProof, Newer, EnoughStock, TakeStock, ReturnStock
  <1>6. CASE Tick \/ SweepSelect \/ BroughtIn \/ UNCHANGED vars
    BY <1>2, <1>6 DEF Tick, SweepSelect, BroughtIn, Import, vars
  <1>7. CASE screen'[s] = Closed
    BY <1>7 DEF HonestPage
  <1> QED
    BY <1>2, <1>3, <1>4, <1>5, <1>6, <1>7 DEF Next, BroughtIn

\* A command is only carried out from a page that shows the current version.
LEMMA NextInformed ==
    TypeOK /\ PagesHonest /\ [Next]_vars => \A s \in Staff : InformedStep(s)
  <1> SUFFICES ASSUME TypeOK, PagesHonest, [Next]_vars, NEW s \in Staff,
                      screen[s] # Closed, screen'[s] = Closed
               PROVE  screen[s].saw = OnDisplay(screen[s].order)
    BY DEF InformedStep
  <1>1. ASSUME NEW r \in Staff, NEW o \in Orders, StaffStep(r, o)
        PROVE  screen[s].saw = OnDisplay(screen[s].order)
    <2>1. CASE OpenOrder(r, o)
      <3>1. screen'[r] # Closed
        BY <2>1, OpenIsNotClosed DEF OpenOrder, TypeOK
      <3>2. r # s => screen'[s] = screen[s]
        BY <2>1 DEF OpenOrder, TypeOK
      <3> QED
        BY <3>1, <3>2
    <2>2. CASE LeavePage(r) /\ ExpectsOrder(r, o)
      <3>1. r # s => screen'[s] = screen[s]
        BY <2>2 DEF LeavePage, TypeOK
      <3>2. ExpectsOrder(s, o)
        BY <2>2, <3>1
      <3> QED
        BY <3>2 DEF ExpectsOrder, PagesHonest, HonestPage
    <2> QED
      BY <1>1, <2>1, <2>2
      DEF StaffStep, RequestStockConfirmation, RequestExtension, PublishDetails,
          ConfirmPayment, RejectPayment, AdminTransition, Cancel
  <1>2. ASSUME NEW o \in Orders,
               OneCStep(o) \/ SubmitProof(o) \/ ExpiryJob(o) \/ SweepExpire(o)
        PROVE  screen'[s] = screen[s]
    BY <1>2 DEF OneCStep, RecordOrderExport, ConfirmFromOneC,
                ApplyExtensionFromOneC, ConfirmPaymentFromOneC,
                AcknowledgePaymentFromOneC, SubmitProof, ExpiryJob, SweepExpire,
                Expire, CanSendProof, Newer, EnoughStock, TakeStock, ReturnStock
  <1>3. CASE Tick \/ SweepSelect \/ BroughtIn \/ UNCHANGED vars
    BY <1>3 DEF Tick, SweepSelect, BroughtIn, Import, vars
  <1> QED
    BY <1>1, <1>2, <1>3 DEF Next, BroughtIn

\* Every manager's command that takes effect finds the order as its page
\* showed it.
THEOREM StaffAreInformed == Spec => StaffDecideOnWhatTheySaw
  <1>1. Init => PagesHonest
    BY DEF Init, PagesHonest, HonestPage
  <1>2. (TypeOK /\ Coupling) /\ PagesHonest /\ [Next]_vars => PagesHonest'
    BY NextPages
  <1>3. (TypeOK /\ Coupling) /\ PagesHonest /\ [Next]_vars
            => [\A s \in Staff : InformedStep(s)]_vars
    BY NextInformed
  <1> QED
    BY <1>1, <1>2, <1>3, Coupled, PTL DEF Spec, StaffDecideOnWhatTheySaw

------------------------------------------------------------------------------
(* Payment before the deadline, expiry after it.                           *)

\* A sweep works with a time that has passed.
SweepInPast == sweep.at <= clock

\* The time of a sweep is never ahead of the clock.
LEMMA NextSweepInPast == TypeOK /\ SweepInPast /\ [Next]_vars => SweepInPast'
  <1> SUFFICES ASSUME TypeOK, SweepInPast, [Next]_vars
               PROVE  SweepInPast'
    OBVIOUS
  <1>1. clock \in Nat /\ sweep.at \in Nat
    BY BoundsAssumption DEF TypeOK, Times
  <1>2. CASE UNCHANGED <<clock, sweep>>
    BY <1>2 DEF SweepInPast
  <1>3. CASE Tick
    BY <1>1, <1>3 DEF Tick, SweepInPast
  <1>4. CASE SweepSelect
    BY <1>1, <1>4 DEF SweepSelect, SweepInPast
  <1>5. ASSUME NEW o \in Orders, SweepExpire(o)
        PROVE  SweepInPast'
    <2>1. clock' = clock
      BY <1>5 DEF SweepExpire, Expire, ReturnStock
    <2>2. sweep'.at \in {0, sweep.at}
      BY <1>5 DEF SweepExpire, NoSweep, TypeOK
    <2> QED
      BY <1>1, <2>1, <2>2 DEF SweepInPast
  <1>6. ASSUME NEW o \in Orders, NEW s \in Staff, StaffStep(s, o)
        PROVE  UNCHANGED <<clock, sweep>>
    BY <1>6 DEF StaffStep, OpenOrder, RequestStockConfirmation,
                RequestExtension, PublishDetails, ConfirmPayment, RejectPayment,
                AdminTransition, Cancel
  <1>7. ASSUME NEW o \in Orders, OneCStep(o) \/ SubmitProof(o) \/ ExpiryJob(o)
        PROVE  UNCHANGED <<clock, sweep>>
    BY <1>7 DEF OneCStep, RecordOrderExport, ConfirmFromOneC,
                ApplyExtensionFromOneC, ConfirmPaymentFromOneC,
                AcknowledgePaymentFromOneC, SubmitProof, ExpiryJob, Expire,
                CanSendProof, Newer, EnoughStock, TakeStock, ReturnStock
  <1>8. CASE BroughtIn
    BY <1>2, <1>8 DEF BroughtIn, Import
  <1> QED
    BY <1>2, <1>3, <1>4, <1>5, <1>6, <1>7, <1>8 DEF Next, BroughtIn, vars

\* Managers pay orders in time only and expire none.
LEMMA StaffInTime ==
    ASSUME TypeOK, NEW s \in Staff, NEW o \in Orders, StaffStep(s, o),
           NEW p \in Orders
    PROVE  TimelyStep(p)
  <1> USE DEF TypeOK, TimelyStep
  <1>1. CASE OpenOrder(s, o) \/ RequestStockConfirmation(s, o)
             \/ RequestExtension(s, o) \/ PublishDetails(s, o)
    BY <1>1 DEF OpenOrder, RequestStockConfirmation, RequestExtension,
                PublishDetails, BumpVersion, orderVars
  <1>2. CASE ConfirmPayment(s, o)
    BY <1>2, StatusGroups
    DEF ConfirmPayment, CanConfirmPayment, LiveReservation, Transition, PaidStatus
  <1>3. CASE RejectPayment(s, o)
    BY <1>3 DEF RejectPayment, Transition, PaidStatus
  <1>4. CASE AdminTransition(s, o)
    <2>1. PICK target \in {"ASSEMBLING", "READY_FOR_PICKUP", "COMPLETED"} :
              Transition(o, target, "ADMIN")
      BY <1>4 DEF AdminTransition
    <2>2. status[o] \in PaidStatus
      BY <2>1, MovesOfTheTable DEF Transition
    <2> QED
      BY <2>1, <2>2 DEF Transition, PaidStatus
  <1>5. CASE Cancel(s, o)
    BY <1>5, StatusGroups DEF Cancel, Transition
  <1> QED
    BY <1>1, <1>2, <1>3, <1>4, <1>5 DEF StaffStep

\* An expiry, at a time that has passed, hits an overdue unpaid order.
LEMMA ExpireInTime ==
    ASSUME TypeOK, Coupling, NEW o \in Orders, NEW now \in Nat, now <= clock,
           Expire(o, now), NEW p \in Orders
    PROVE  TimelyStep(p)
  <1>1. /\ status[o] \in PayableStatus
        /\ deadline[o] <= now
        /\ status' = [status EXCEPT ![o] = "RESERVATION_EXPIRED"]
    BY DEF Expire, CanExpire, Transition, ReturnStock
  <1>2. payment[o] # "CONFIRMED"
    BY <1>1, StatusGroups DEF Coupling, PaymentMatchesStatus
  <1>3. clock \in Nat /\ deadline[o] \in Nat
    BY BoundsAssumption DEF TypeOK, Times
  <1> QED
    BY <1>1, <1>2, <1>3, StatusGroups DEF TimelyStep, TypeOK

\* The deadline decides in every step.
LEMMA NextInTime ==
    TypeOK /\ Coupling /\ SweepInPast /\ [Next]_vars
        => \A p \in Orders : TimelyStep(p)
  <1> SUFFICES ASSUME TypeOK, Coupling, SweepInPast, [Next]_vars, NEW p \in Orders
               PROVE  TimelyStep(p)
    OBVIOUS
  <1>1. CASE UNCHANGED status
    BY <1>1 DEF TimelyStep
  <1>2. CASE Tick \/ SweepSelect \/ BroughtIn \/ UNCHANGED vars
    BY <1>1, <1>2 DEF Tick, SweepSelect, BroughtIn, Import, vars, orderVars
  <1>3. ASSUME NEW o \in Orders, SubmitProof(o)
        PROVE  TimelyStep(p)
    BY <1>3 DEF SubmitProof, Transition, BumpVersion, TimelyStep, TypeOK, PaidStatus,
                CanSendProof
  <1>4. ASSUME NEW o \in Orders, OneCStep(o)
        PROVE  TimelyStep(p)
    <2>1. CASE \E v \in OneCVersions : ConfirmPaymentFromOneC(o, v)
      BY <2>1, StatusGroups
      DEF ConfirmPaymentFromOneC, CanConfirmPayment, LiveReservation, Transition,
          TimelyStep, TypeOK, PaidStatus, Newer
    <2>2. CASE \E v \in OneCVersions, e \in Deadlines : ConfirmFromOneC(o, v, e)
      BY <2>2 DEF ConfirmFromOneC, Transition, TimelyStep, TypeOK, PaidStatus,
                  Newer, EnoughStock, TakeStock
    <2> QED
      BY <1>1, <1>4, <2>1, <2>2
      DEF OneCStep, RecordOrderExport, ApplyExtensionFromOneC,
          AcknowledgePaymentFromOneC, BumpVersion, Newer
  <1>5. ASSUME NEW o \in Orders, ExpiryJob(o) \/ SweepExpire(o)
        PROVE  TimelyStep(p)
    <2>1. clock \in Nat /\ sweep.at \in Nat /\ sweep.at <= clock
      BY BoundsAssumption DEF TypeOK, Times, SweepInPast
    <2>2. CASE Expire(o, clock) \/ Expire(o, sweep.at)
      BY <2>1, <2>2, ExpireInTime
    <2> QED
      BY <1>1, <1>5, <2>2 DEF ExpiryJob, SweepExpire, orderVars
  <1> QED
    BY <1>2, <1>3, <1>4, <1>5, StaffInTime DEF Next, BroughtIn

\* An order is paid only before its deadline and expired only after it.
THEOREM DeadlineSafe == Spec => DeadlineDecides
  <1>1. Init => SweepInPast
    BY DEF Init, SweepInPast, NoSweep
  <1>2. (TypeOK /\ Coupling) /\ SweepInPast /\ [Next]_vars => SweepInPast'
    BY NextSweepInPast
  <1>3. (TypeOK /\ Coupling) /\ SweepInPast /\ [Next]_vars
            => [\A o \in Orders : TimelyStep(o)]_vars
    BY NextInTime
  <1> QED
    BY <1>1, <1>2, <1>3, Coupled, PTL DEF Spec, DeadlineDecides

------------------------------------------------------------------------------
(* The refinement of StockAllocation.                                      *)

allocOf == [o \in Orders |-> StockOf(o)]

\* Steps that neither hold, nor release, nor sell are stuttering steps.
LEMMA StockOfUnchanged ==
    ASSUME TypeOK, UNCHANGED <<reservation, available>>,
           \A o \in Orders : (status'[o] \in PaidStatus) = (status[o] \in PaidStatus)
    PROVE  UNCHANGED Allocation!allocVars
  BY DEF StockOf, Allocation!allocVars

\* Paying a live order sells what it holds.
LEMMA SellRefines ==
    ASSUME TypeOK, NEW o \in Orders, LiveReservation(o),
           status' = [status EXCEPT ![o] = "PAID"],
           UNCHANGED <<reservation, available>>
    PROVE  Allocation!Sell(o)
  <1>1. StockOf(o) = "held"
    BY StatusGroups DEF LiveReservation, StockOf
  <1>2. StockOf(o)' = "sold"
    BY DEF LiveReservation, StockOf, TypeOK, PaidStatus
  <1>3. \A p \in Orders \ {o} : StockOf(p)' = StockOf(p)
    BY DEF StockOf, TypeOK
  <1>4. allocOf' = [allocOf EXCEPT ![o] = "sold"]
    BY <1>2, <1>3 DEF allocOf
  <1> QED
    BY <1>1, <1>4 DEF Allocation!Sell, allocOf

\* A confirmation of 1C is the abstract Hold.
LEMMA HoldRefines ==
    ASSUME TypeOK, Coupling, NEW o \in Orders, NEW v, NEW e, ConfirmFromOneC(o, v, e)
    PROVE  Allocation!Hold(o)
  <1>1. StockOf(o) = "none"
    BY StatusGroups DEF ConfirmFromOneC, Coupling, HoldMatchesStatus, StockOf,
                        TypeOK, ReservationStatus, Newer, EnoughStock, TakeStock
  <1>2. StockOf(o)' = "held"
    BY DEF ConfirmFromOneC, Transition, StockOf, TypeOK, PaidStatus,
           Newer, EnoughStock, TakeStock
  <1>3. \A p \in Orders \ {o} : StockOf(p)' = StockOf(p)
    BY DEF ConfirmFromOneC, Transition, StockOf, TypeOK,
           Newer, EnoughStock, TakeStock
  <1>4. allocOf' = [allocOf EXCEPT ![o] = "held"]
    BY <1>2, <1>3 DEF allocOf
  <1> QED
    BY <1>1, <1>4 DEF Allocation!Hold, allocOf, ConfirmFromOneC,
                      Newer, EnoughStock, TakeStock

\* An expiry is the abstract Release.
LEMMA ReleaseRefines ==
    ASSUME TypeOK, NEW o \in Orders, NEW now, Expire(o, now)
    PROVE  Allocation!Release(o)
  <1>1. StockOf(o) = "held"
    BY StatusGroups DEF Expire, CanExpire, StockOf, ReturnStock
  <1>2. StockOf(o)' = "released"
    BY DEF Expire, StockOf, TypeOK, ReturnStock
  <1>3. \A p \in Orders \ {o} : StockOf(p)' = StockOf(p)
    BY DEF Expire, Transition, StockOf, TypeOK, ReturnStock
  <1>4. allocOf' = [allocOf EXCEPT ![o] = "released"]
    BY <1>2, <1>3 DEF allocOf
  <1> QED
    BY <1>1, <1>4 DEF Allocation!Release, allocOf, Expire, ReturnStock

\* Managers only sell.
LEMMA StaffRefines ==
    ASSUME TypeOK, NEW s \in Staff, NEW o \in Orders, StaffStep(s, o)
    PROVE  Allocation!Next \/ UNCHANGED Allocation!allocVars
  <1>1. CASE ConfirmPayment(s, o)
    <2>1. Allocation!Sell(o)
      BY <1>1, SellRefines
      DEF ConfirmPayment, CanConfirmPayment, Transition, holdVars, stockVars
    <2> QED
      BY <2>1 DEF Allocation!Next
  <1>2. CASE OpenOrder(s, o) \/ RequestStockConfirmation(s, o)
             \/ RequestExtension(s, o) \/ PublishDetails(s, o)
    BY <1>2, StockOfUnchanged
    DEF OpenOrder, RequestStockConfirmation, RequestExtension, PublishDetails,
        BumpVersion, orderVars, holdVars, stockVars
  <1>3. CASE RejectPayment(s, o)
    BY <1>3, StockOfUnchanged
    DEF RejectPayment, Transition, holdVars, stockVars, TypeOK, PaidStatus
  <1>4. CASE AdminTransition(s, o)
    <2>1. PICK target \in {"ASSEMBLING", "READY_FOR_PICKUP", "COMPLETED"} :
              Transition(o, target, "ADMIN")
      BY <1>4 DEF AdminTransition
    <2>2. status[o] \in PaidStatus /\ target \in PaidStatus
      BY <2>1, MovesOfTheTable DEF Transition, PaidStatus
    <2>3. status' = [status EXCEPT ![o] = target]
      BY <2>1 DEF Transition
    <2> QED
      BY <1>4, <2>2, <2>3, StockOfUnchanged
      DEF AdminTransition, holdVars, stockVars, TypeOK
  <1>5. CASE Cancel(s, o)
    <2>1. status[o] \notin PaidStatus
      BY <1>5, MovesOfTheTable DEF Cancel, Transition
    <2>2. status' = [status EXCEPT ![o] = "CANCELLED_BY_STORE"]
      BY <1>5 DEF Cancel, Transition
    <2> QED
      BY <1>5, <2>1, <2>2, StatusGroups, StockOfUnchanged
      DEF Cancel, holdVars, stockVars, TypeOK
  <1> QED
    BY <1>1, <1>2, <1>3, <1>4, <1>5 DEF StaffStep

\* 1C holds and sells.
LEMMA OneCRefines ==
    ASSUME TypeOK, Coupling, NEW o \in Orders, OneCStep(o)
    PROVE  Allocation!Next \/ UNCHANGED Allocation!allocVars
  <1>1. CASE \E v \in OneCVersions, e \in Deadlines : ConfirmFromOneC(o, v, e)
    BY <1>1, HoldRefines DEF Allocation!Next
  <1>2. CASE \E v \in OneCVersions : ConfirmPaymentFromOneC(o, v)
    <2>1. Allocation!Sell(o)
      BY <1>2, SellRefines
      DEF ConfirmPaymentFromOneC, CanConfirmPayment, Transition, holdVars, stockVars,
          Newer
    <2> QED
      BY <2>1 DEF Allocation!Next
  <1>3. CASE \/ RecordOrderExport(o)
             \/ \E v \in OneCVersions, e \in Deadlines : ApplyExtensionFromOneC(o, v, e)
             \/ \E v \in OneCVersions : AcknowledgePaymentFromOneC(o, v)
    BY <1>3, StockOfUnchanged
    DEF RecordOrderExport, ApplyExtensionFromOneC, AcknowledgePaymentFromOneC,
        BumpVersion, holdVars, stockVars, Newer
  <1> QED
    BY <1>1, <1>2, <1>3 DEF OneCStep

\* An import is the abstract Restock.
LEMMA ImportRefines ==
    ASSUME TypeOK, NEW b \in Batches, Import(b)
    PROVE  \E d \in {[v \in DOMAIN c |-> c[v].available] : c \in Batches} :
              Allocation!Restock(d)
  <1> DEFINE d == [v \in DOMAIN b |-> b[v].available]
  <1>1. d \in {[v \in DOMAIN c |-> c[v].available] : c \in Batches}
    OBVIOUS
  <1>2. available' = [v \in Variants |-> IF v \in DOMAIN d THEN d[v] ELSE available[v]]
    BY DEF Import
  <1>3. \A o \in Orders : StockOf(o)' = StockOf(o)
    BY DEF Import, StockOf, orderVars, holdVars
  <1>4. Allocation!Restock(d)
    BY <1>2, <1>3 DEF Allocation!Restock
  <1> QED
    BY <1>1, <1>4

\* Every step maps to an abstract step or a stutter.
LEMMA NextRefines ==
    TypeOK /\ Coupling /\ [Next]_vars => [Allocation!Next]_(Allocation!allocVars)
  <1> SUFFICES ASSUME TypeOK, Coupling, [Next]_vars
               PROVE  Allocation!Next \/ UNCHANGED Allocation!allocVars
    OBVIOUS
  <1>1. CASE Tick \/ SweepSelect \/ UNCHANGED vars
    BY <1>1, StockOfUnchanged
    DEF Tick, SweepSelect, vars, orderVars, holdVars, stockVars
  <1>2. ASSUME NEW o \in Orders, SubmitProof(o)
        PROVE  UNCHANGED Allocation!allocVars
    <2>1. status[o] \notin PaidStatus
      BY <1>2, StatusGroups DEF SubmitProof, LiveReservation, CanSendProof
    <2>2. status' = [status EXCEPT ![o] = "PAYMENT_VERIFICATION"] \/ status' = status
      BY <1>2 DEF SubmitProof, Transition, BumpVersion, CanSendProof
    <2> QED
      BY <1>2, <2>1, <2>2, StockOfUnchanged
      DEF SubmitProof, holdVars, stockVars, TypeOK, PaidStatus, CanSendProof
  <1>3. ASSUME NEW o \in Orders, ExpiryJob(o) \/ SweepExpire(o)
        PROVE  Allocation!Next \/ UNCHANGED Allocation!allocVars
    <2>1. CASE Expire(o, clock) \/ Expire(o, sweep.at)
      BY <2>1, ReleaseRefines DEF Allocation!Next
    <2> QED
      BY <1>3, <2>1, StockOfUnchanged
      DEF ExpiryJob, SweepExpire, orderVars, holdVars, stockVars
  <1>4. ASSUME NEW b \in Batches, Import(b)
        PROVE  Allocation!Next
    BY <1>4, ImportRefines DEF Allocation!Next
  <1> QED
    BY <1>1, <1>2, <1>3, <1>4, StaffRefines, OneCRefines DEF Next

\* Fulfilment with all its actors implements the abstract allocation of stock.
THEOREM FulfilmentImplementsAllocation == Spec => ImplementsAllocation
  <1>1. Init => Allocation!Init
    BY DEF Init, Allocation!Init, StockOf
  <1>2. (TypeOK /\ Coupling) /\ [Next]_vars
            => [Allocation!Next]_(Allocation!allocVars)
    BY NextRefines
  <1> QED
    BY <1>1, <1>2, Coupled, PTL DEF Spec, ImplementsAllocation, Allocation!Spec
------------------------------------------------------------------------------
(* What the sweep selects, expire accepts, unless an import intervened.    *)

\* The units of an order that holds are among those a covered balance reports.
LEMMA CoveredIsReserved ==
    ASSUME TypeOK, HeldAreFinite, NEW o \in Orders, reservation[o] = "ACTIVE",
           NEW v \in Variants, Qty[o][v] > 0 => Covered(v)
    PROVE  Qty[o][v] <= reserved[v]
  <1>1. UnitsOf(o, v) \in SUBSET HeldUnits(v)
    BY DEF UnitsOf, HeldUnits, Holding
  <1>2. IsFiniteSet(HeldUnits(v))
    BY DEF HeldAreFinite
  <1>3. Cardinality(UnitsOf(o, v)) <= Cardinality(HeldUnits(v))
    BY <1>1, <1>2, FS_Subset
  <1>4. Cardinality(HeldUnits(v)) \in Nat
    BY <1>2, FS_CardinalityType
  <1>5. Cardinality(UnitsOf(o, v)) = Qty[o][v]
    BY UnitsCount
  <1>6. reserved[v] \in Nat /\ Qty[o][v] \in Nat
    BY QtyType DEF TypeOK
  <1> QED
    BY <1>3, <1>4, <1>5, <1>6 DEF Covered

\* The deadline of the lines is that of the order, and covered balances cover
\* every line.
LEMMA DueCanExpire ==
    ASSUME TypeOK, HoldMatchesStatus, HeldAreFinite, NEW o \in Due,
           \A v \in Variants : Qty[o][v] > 0 => Covered(v)
    PROVE  CanExpire(o, clock)
  <1>1. /\ o \in Orders
        /\ reservation[o] = "ACTIVE"
        /\ heldUntil[o] <= clock
        /\ status[o] \in PayableStatus
    BY DEF Due
  <1>2. heldUntil[o] = deadline[o] /\ deadline[o] > 0
    BY <1>1 DEF HoldMatchesStatus
  <1>3. deadline[o] # 0
    BY <1>1, <1>2 DEF TypeOK
  <1>4. \A v \in Variants : Qty[o][v] <= reserved[v]
    BY <1>1, CoveredIsReserved
  <1> QED
    BY <1>1, <1>2, <1>3, <1>4 DEF CanExpire

\* A step that is accounted for leaves a covered balance covered.
LEMMA AccountedCovers ==
    ASSUME TypeOK, HeldAreFinite, NEW v \in Variants, Accounts(v), Covered(v)
    PROVE  Covered(v)'
  <1>1. Cardinality(HeldUnits(v)) \in Nat /\ Cardinality(HeldUnits(v)') \in Nat
    BY FS_CardinalityType DEF HeldAreFinite, Accounts
  <1>2. reserved[v] \in Nat
    BY DEF TypeOK
  <1> QED
    BY <1>1, <1>2 DEF Accounts, AccountedStep, Covered

\* Each order the sweep selects can be expired, whatever the number of orders and
\* the limit of the selection, for as long as the balances report what is held
\* here, and nothing but an import makes them report less.
THEOREM SweepNeverStalls == Spec => OnlyImportsBlockExpiry
  <1>1. TypeOK /\ HoldMatchesStatus /\ HeldAreFinite => CoveredCandidatesExpire
    BY DueCanExpire DEF CoveredCandidatesExpire
  <1>2. (TypeOK /\ HeldAreFinite) /\ [Next]_vars => [UncoveringStep]_vars
    BY NextAccounts, AccountedCovers DEF UncoveringStep
  <1> QED
    BY <1>1, <1>2, Counted, HoldSafe, PTL DEF Spec, OnlyImportsBlockExpiry
------------------------------------------------------------------------------
(* The refinement of OneCOrder.                                            *)

\* The abstract order goes by the same table.
LEMMA SameTable ==
    /\ OneC!PayableStatus = PayableStatus
    /\ OneC!PaidStatus = PaidStatus
    /\ \A from, to, source :
          OneC!IsOrderTransitionAllowed(from, to, source)
             <=> IsOrderTransitionAllowed(from, to, source)
  <1>1. \A from, to, sources : OneC!Move(from, to, sources) = Move(from, to, sources)
    BY DEF OneC!Move, Move
  <1>2. OneC!OrderTransitions = OrderTransitions
    BY <1>1 DEF OneC!OrderTransitions, OrderTransitions,
       OneC!PayableMoves, PayableMoves, OneC!CancelBeforeStock, CancelBeforeStock,
       OneC!AnyInternalSource, AnyInternalSource, OneC!StoreOrCustomer,
       StoreOrCustomer, OneC!StoreStaff, StoreStaff
  <1> QED
    BY <1>2 DEF OneC!PayableStatus, PayableStatus, OneC!PaidStatus, PaidStatus,
                OneC!IsOrderTransitionAllowed, IsOrderTransitionAllowed

\* 1C has said nothing of an order without a reservation, and knows every
\* order that ever had one.
KnownTo1C ==
    \A o \in Orders : IF reservation[o] = "NONE" THEN oneCVersion[o] = 0
                                                 ELSE exported[o]

\* 1C's messages keep it: what is taken of an order is taken of a reserved one.
LEMMA OneCKnows ==
    ASSUME TypeOK, Coupling, KnownTo1C, NEW o \in Orders, OneCStep(o)
    PROVE  KnownTo1C'
  <1> USE DEF KnownTo1C, TypeOK
  <1>1. CASE RecordOrderExport(o)
    BY <1>1 DEF RecordOrderExport, holdVars
  <1>2. CASE \E v \in OneCVersions, e \in Deadlines : ConfirmFromOneC(o, v, e)
    BY <1>2 DEF ConfirmFromOneC, Newer, EnoughStock, TakeStock
  <1>3. CASE \E v \in OneCVersions, e \in Deadlines : ApplyExtensionFromOneC(o, v, e)
    BY <1>3 DEF ApplyExtensionFromOneC, Newer
  <1>4. CASE \E v \in OneCVersions : ConfirmPaymentFromOneC(o, v)
    BY <1>4 DEF ConfirmPaymentFromOneC, CanConfirmPayment, LiveReservation, Newer,
                holdVars
  <1>5. CASE \E v \in OneCVersions : AcknowledgePaymentFromOneC(o, v)
    BY <1>5 DEF AcknowledgePaymentFromOneC, Newer, holdVars, Coupling,
                HoldMatchesStatus, PaidStatus
  <1> QED
    BY <1>1, <1>2, <1>3, <1>4, <1>5 DEF OneCStep

\* Nobody else's step touches what it speaks of, but for an expiry, which ends
\* a reservation that is there.
LEMMA NextKnows == TypeOK /\ Coupling /\ KnownTo1C /\ [Next]_vars => KnownTo1C'
  <1> SUFFICES ASSUME TypeOK, Coupling, KnownTo1C, [Next]_vars
               PROVE  KnownTo1C'
    OBVIOUS
  <1>1. CASE UNCHANGED <<reservation, oneCVersion, exported>>
    BY <1>1 DEF KnownTo1C
  <1>2. ASSUME NEW o \in Orders, NEW now, Expire(o, now)
        PROVE  KnownTo1C'
    BY <1>2 DEF Expire, CanExpire, ReturnStock, KnownTo1C, TypeOK
  <1>3. CASE Tick \/ SweepSelect \/ BroughtIn \/ UNCHANGED vars
    BY <1>1, <1>3 DEF Tick, SweepSelect, BroughtIn, Import, vars, orderVars, holdVars
  <1>4. ASSUME NEW s \in Staff, NEW o \in Orders, StaffStep(s, o)
        PROVE  UNCHANGED <<reservation, oneCVersion, exported>>
    BY <1>4 DEF StaffStep, OpenOrder, RequestStockConfirmation, RequestExtension,
       PublishDetails, ConfirmPayment, RejectPayment, AdminTransition, Cancel,
       orderVars, holdVars
  <1>5. ASSUME NEW o \in Orders, SubmitProof(o)
        PROVE  UNCHANGED <<reservation, oneCVersion, exported>>
    BY <1>5 DEF SubmitProof, CanSendProof, holdVars
  <1>6. ASSUME NEW o \in Orders, ExpiryJob(o) \/ SweepExpire(o)
        PROVE  KnownTo1C'
    BY <1>1, <1>2, <1>6 DEF ExpiryJob, SweepExpire, orderVars, holdVars
  <1> QED
    BY <1>1, <1>3, <1>4, <1>5, <1>6, OneCKnows DEF Next, BroughtIn

\* A move along the table by the customer or a manager, of an order that holds
\* its stock or is cancelled.
LEMMA SiteMovesOrder ==
    ASSUME TypeOK, NEW o \in Orders, NEW to \in OneC!SiteStatus,
           NEW source \in {"ADMIN", "STOREFRONT"}, Transition(o, to, source),
           to # "CANCELLED_BY_STORE" => reservation[o] = "ACTIVE",
           UNCHANGED <<exported, oneCVersion, deadline, reservation>>
    PROVE  OneC!SiteMoves(o)
  BY SameTable DEF OneC!SiteMoves, OneC!Becomes, Transition

\* What managers do to an order.
LEMMA StaffMovesOrder ==
    ASSUME TypeOK, Coupling, NEW s \in Staff, NEW o \in Orders, StaffStep(s, o)
    PROVE  OneC!SiteMoves(o) \/ UNCHANGED OneC!sharedVars
  <1>0. /\ PayableStatus \cup PaidStatus \subseteq OneC!SiteStatus
        /\ "CANCELLED_BY_STORE" \in OneC!SiteStatus
        /\ status[o] \in PayableStatus \cup PaidStatus => reservation[o] = "ACTIVE"
    BY SameTable DEF OneC!SiteStatus, Coupling, HoldMatchesStatus
  <1>1. CASE OpenOrder(s, o) \/ RequestStockConfirmation(s, o)
             \/ RequestExtension(s, o) \/ PublishDetails(s, o)
    BY <1>1 DEF OpenOrder, RequestStockConfirmation, RequestExtension,
       PublishDetails, BumpVersion, orderVars, holdVars, OneC!sharedVars
  <1>2. CASE ConfirmPayment(s, o)
    BY <1>0, <1>2, SiteMovesOrder
    DEF ConfirmPayment, CanConfirmPayment, LiveReservation, holdVars, PaidStatus
  <1>3. CASE RejectPayment(s, o)
    BY <1>0, <1>3, SiteMovesOrder DEF RejectPayment, holdVars, PayableStatus
  <1>4. CASE AdminTransition(s, o)
    <2>1. PICK target \in {"ASSEMBLING", "READY_FOR_PICKUP", "COMPLETED"} :
              Transition(o, target, "ADMIN")
      BY <1>4 DEF AdminTransition
    <2>2. status[o] \in PaidStatus /\ target \in PaidStatus
      BY <2>1, MovesOfTheTable DEF Transition, PaidStatus
    <2> QED
      BY <1>0, <1>4, <2>1, <2>2, SiteMovesOrder DEF AdminTransition, holdVars
  <1>5. CASE Cancel(s, o)
    BY <1>0, <1>5, SiteMovesOrder DEF Cancel, holdVars
  <1> QED
    BY <1>1, <1>2, <1>3, <1>4, <1>5 DEF StaffStep

\* What a fact of 1C does to an order.
LEMMA OneCMovesOrder ==
    ASSUME TypeOK, Coupling, KnownTo1C, NEW o \in Orders, OneCStep(o)
    PROVE  OneC!OneCStep(o)
  <1>0. /\ status[o] \in PaidStatus => reservation[o] = "ACTIVE"
        /\ reservation[o] # "NONE" => exported[o]
    BY DEF Coupling, HoldMatchesStatus, KnownTo1C
  <1>1. CASE RecordOrderExport(o)
    BY <1>1 DEF RecordOrderExport, holdVars, OneC!OneCStep, OneC!Export
  <1>2. ASSUME NEW v \in OneCVersions, NEW e \in Deadlines, ConfirmFromOneC(o, v, e)
        PROVE  OneC!OneCStep(o)
    <2>1. /\ reservation[o] # "ACTIVE" /\ exported[o] /\ v > oneCVersion[o]
          /\ status[o] = "AWAITING_STOCK_CONFIRMATION"
          /\ reservation' = [reservation EXCEPT ![o] = "ACTIVE"]
          /\ status' = [status EXCEPT ![o] = "AWAITING_PAYMENT"]
          /\ oneCVersion' = [oneCVersion EXCEPT ![o] = v]
          /\ deadline' = [deadline EXCEPT ![o] = e]
          /\ UNCHANGED exported
      BY <1>2 DEF ConfirmFromOneC, Newer, EnoughStock, TakeStock, HoldUntil, Transition
    <2>2. reservation[o] = "NONE" /\ deadline[o] = 0 /\ oneCVersion[o] = 0
      BY <2>1 DEF Coupling, HoldMatchesStatus, KnownTo1C, TypeOK, ReservationStatus
    <2>3. OneC!Take(o, v)
      BY <2>1 DEF OneC!Take
    <2>4. OneC!Reserve(o, e)
      BY <2>1, <2>2 DEF OneC!Reserve, OneC!Becomes, TypeOK
    <2> QED
      BY <2>3, <2>4 DEF OneC!OneCStep
  <1>3. ASSUME NEW v \in OneCVersions, NEW e \in Deadlines,
               ApplyExtensionFromOneC(o, v, e)
        PROVE  OneC!OneCStep(o)
    <2>1. OneC!Take(o, v)
      BY <1>3 DEF ApplyExtensionFromOneC, Newer, OneC!Take
    <2>2. OneC!Prolong(o, e)
      BY <1>3, SameTable
      DEF ApplyExtensionFromOneC, Newer, HoldUntil, BumpVersion, OneC!Prolong
    <2> QED
      BY <2>1, <2>2 DEF OneC!OneCStep
  <1>4. ASSUME NEW v \in OneCVersions, ConfirmPaymentFromOneC(o, v)
        PROVE  OneC!OneCStep(o)
    <2>1. OneC!Take(o, v)
      BY <1>0, <1>4 DEF ConfirmPaymentFromOneC, CanConfirmPayment, LiveReservation,
                        Newer, OneC!Take
    <2>2. OneC!Pay(o)
      BY <1>4, SameTable
      DEF ConfirmPaymentFromOneC, CanConfirmPayment, LiveReservation, Transition,
          Newer, holdVars, OneC!Pay, OneC!Becomes
    <2> QED
      BY <2>1, <2>2 DEF OneC!OneCStep
  <1>5. ASSUME NEW v \in OneCVersions, AcknowledgePaymentFromOneC(o, v)
        PROVE  OneC!OneCStep(o)
    <2>0. status[o] = "PAID" /\ reservation[o] = "ACTIVE" /\ exported[o]
      BY <1>0, <1>5 DEF AcknowledgePaymentFromOneC, Newer, PaidStatus
    <2>1. OneC!Take(o, v)
      BY <1>5, <2>0 DEF AcknowledgePaymentFromOneC, Newer, OneC!Take
    <2>2. OneC!Pay(o)
      BY <1>5, <2>0 DEF AcknowledgePaymentFromOneC, BumpVersion, Newer, holdVars,
                        OneC!Pay, OneC!Becomes, TypeOK
    <2> QED
      BY <2>1, <2>2 DEF OneC!OneCStep
  <1> QED
    BY <1>1, <1>2, <1>3, <1>4, <1>5 DEF OneCStep

\* An expiry ends the reservation and the order.
LEMMA ExpireMovesOrder ==
    ASSUME TypeOK, NEW o \in Orders, NEW now, Expire(o, now)
    PROVE  OneC!Expire(o)
  BY SameTable DEF Expire, CanExpire, ReturnStock, Transition, OneC!Expire,
     OneC!Becomes, TypeOK

\* Every step moves orders as 1C may expect, or does not move them.
LEMMA NextMovesOrder ==
    TypeOK /\ Coupling /\ KnownTo1C /\ [Next]_vars => [OneC!Next]_(OneC!sharedVars)
  <1> SUFFICES ASSUME TypeOK, Coupling, KnownTo1C, [Next]_vars
               PROVE  OneC!Next \/ UNCHANGED OneC!sharedVars
    OBVIOUS
  <1>1. CASE Tick \/ SweepSelect \/ BroughtIn \/ UNCHANGED vars
    BY <1>1 DEF Tick, SweepSelect, BroughtIn, Import, vars, orderVars, holdVars, OneC!sharedVars
  <1>2. ASSUME NEW o \in Orders, SubmitProof(o)
        PROVE  OneC!SiteMoves(o) \/ UNCHANGED OneC!sharedVars
    <2>1. CASE Transition(o, "PAYMENT_VERIFICATION", "STOREFRONT")
      BY <1>2, <2>1, SiteMovesOrder, SameTable
      DEF SubmitProof, CanSendProof, LiveReservation, holdVars, OneC!SiteStatus,
          PayableStatus
    <2>2. CASE BumpVersion(o)
      BY <1>2, <2>2
      DEF SubmitProof, CanSendProof, BumpVersion, holdVars, OneC!sharedVars
    <2> QED
      BY <1>2, <2>1, <2>2 DEF SubmitProof, CanSendProof
  <1>3. ASSUME NEW o \in Orders, ExpiryJob(o) \/ SweepExpire(o)
        PROVE  OneC!Expire(o) \/ UNCHANGED OneC!sharedVars
    BY <1>3, ExpireMovesOrder
    DEF ExpiryJob, SweepExpire, orderVars, holdVars, OneC!sharedVars
  <1> QED
    BY <1>1, <1>2, <1>3, StaffMovesOrder, OneCMovesOrder DEF Next, BroughtIn, OneC!Next

\* Fulfilment keeps what the site promises 1C of its orders.
THEOREM FulfilmentImplementsOrder == Spec => ImplementsOrder
  <1>1. Init => OneC!Init /\ KnownTo1C
    BY DEF Init, OneC!Init, KnownTo1C
  <1>2. (TypeOK /\ Coupling) /\ KnownTo1C /\ [Next]_vars => KnownTo1C'
    BY NextKnows
  <1>3. (TypeOK /\ Coupling) /\ KnownTo1C /\ [Next]_vars
            => [OneC!Next]_(OneC!sharedVars)
    BY NextMovesOrder
  <1> QED
    BY <1>1, <1>2, <1>3, Coupled, PTL DEF Spec, ImplementsOrder, OneC!Spec
==============================================================================
