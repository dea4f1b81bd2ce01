------------------------------ MODULE DemoOrders ------------------------------
(***************************************************************************)
(* One demo order of prisma/seed.ts, which brings its rows to a target     *)
(* status one statement at a time, without a transaction.                  *)
(*                                                                         *)
(* The seeding tool may be stopped after any statement and run again,      *)
(* while the site is in use: the order's reservation may end, and the      *)
(* triggers of the database (migration 510) refuse some of the statements, *)
(* with which the run ends.                                                *)
(*                                                                         *)
(* Abstracted: what the rows say besides their status; the catalogue,      *)
(* staff and other rows the tool makes before and after.  Nobody else      *)
(* works on the order, and its deadline is not put off.                    *)
(***************************************************************************)
EXTENDS Integers, Sequences

VARIABLES
    target,    \* the status the order is to have
    status,    \* orders.status ("NONE": no row)
    hold,      \* stock_reservations.status
    paymentStatus,   \* payments.status
    history,   \* how many steps of its history are written
    late,      \* the deadline of the reservation has passed
    step,      \* the next statement of the run
    seen       \* the status and the hold that the run has read or written

demoVars == <<target, status, hold, paymentStatus, history, late, step, seen>>

-------------------------------------------------------------------------------
Path == <<"CREATED", "AWAITING_STOCK_CONFIRMATION", "AWAITING_PAYMENT", "PAYMENT_VERIFICATION",
          "PAID", "ASSEMBLING", "READY_FOR_PICKUP", "COMPLETED">>
Paid == {"PAID", "ASSEMBLING", "READY_FOR_PICKUP", "COMPLETED"}
Unreserved == {"AWAITING_STOCK_CONFIRMATION", "CANCELLED_BY_STORE"}
Targets == {"AWAITING_STOCK_CONFIRMATION", "AWAITING_PAYMENT", "PAYMENT_VERIFICATION",
            "CANCELLED_BY_STORE", "RESERVATION_EXPIRED"} \cup Paid
Payable == {"AWAITING_PAYMENT", "PAYMENT_VERIFICATION"}
NeedsPayment == Payable \cup Paid

\* statusHistory: how many steps lead to the target.
StepsTo(s) == CASE s = "CANCELLED_BY_STORE" -> 3
                [] s = "RESERVATION_EXPIRED" -> 4
                [] OTHER -> CHOOSE i \in DOMAIN Path : Path[i] = s

\* The status an order is made with.
Initial == IF target \in Paid THEN "AWAITING_PAYMENT" ELSE target

Holds == {"NONE", "ACTIVE", "EXPIRED", "CONSUMED"}
DemoTypeOK ==
    /\ target \in Targets
    /\ status \in Targets \cup {"NONE"}
    /\ hold \in Holds
    /\ paymentStatus \in {"NONE", "PENDING", "PROOF_UPLOADED", "CONFIRMED"}
    /\ history \in 0..Len(Path)
    /\ late \in BOOLEAN
    /\ step \in {"off", "order", "hold", "payment", "proof", "confirm", "settle", "consume",
                 "count", "history", "done"}
    /\ seen \in [status : Targets \cup {"NONE"}, hold : Holds]

NothingSeen == [status |-> "NONE", hold |-> "NONE"]

DemoInit ==
    /\ target \in Targets
    /\ status = "NONE" /\ hold = "NONE" /\ paymentStatus = "NONE" /\ history = 0
    /\ late = FALSE
    /\ step = "off" /\ seen = NothingSeen

-------------------------------------------------------------------------------
Goes(from, to) == step = from /\ step' = to

Run ==
    /\ step \in {"off", "done"} /\ step' = "order"
    /\ seen' = NothingSeen
    /\ UNCHANGED <<target, status, hold, paymentStatus, history, late>>

\* The order is found, or made.
FindOrder ==
    /\ Goes("order", "hold")
    /\ status' = IF status = "NONE" THEN Initial ELSE status
    /\ seen' = [seen EXCEPT !.status = status']
    /\ UNCHANGED <<target, hold, paymentStatus, history, late>>

\* So is its reservation, unless there is one, in force or not.
Slip_NoneInForce == hold # "ACTIVE"
NoHold == hold = "NONE"

FindHold ==
    /\ Goes("hold", IF target \in NeedsPayment THEN "payment" ELSE "settle")
    /\ hold' = IF target \in Unreserved \/ ~NoHold THEN hold
               ELSE IF target = "RESERVATION_EXPIRED" THEN "EXPIRED" ELSE "ACTIVE"
    /\ seen' = [seen EXCEPT !.hold = hold']
    /\ UNCHANGED <<target, status, paymentStatus, history, late>>

\* validate_payment_against_order: a payment is made or confirmed only for an
\* order that can be paid, and whose reservation is in force.
InForce == status \in Payable /\ ~late /\ hold = "ACTIVE"

FindPayment ==
    /\ Goes("payment", "proof")
    /\ IF paymentStatus = "NONE" THEN InForce /\ paymentStatus' = "PENDING" ELSE UNCHANGED paymentStatus
    /\ UNCHANGED <<target, status, hold, history, late, seen>>

SendProof ==
    /\ Goes("proof", "confirm")
    /\ paymentStatus' = IF target = "PAYMENT_VERIFICATION" /\ paymentStatus = "PENDING"
                  THEN "PROOF_UPLOADED" ELSE paymentStatus
    /\ UNCHANGED <<target, status, hold, history, late, seen>>

ConfirmPayment ==
    /\ Goes("confirm", "settle")
    /\ IF target \in Paid /\ paymentStatus # "CONFIRMED" THEN InForce /\ paymentStatus' = "CONFIRMED"
                                                   ELSE UNCHANGED paymentStatus
    /\ UNCHANGED <<target, status, hold, history, late, seen>>

\* The order takes its target status, which guard_paid_order_status allows since
\* its payment is confirmed.
Unsettled == target \in Paid /\ seen.status # target

SettleOrder ==
    /\ Goes("settle", "consume")
    /\ status' = IF Unsettled THEN target ELSE status
    /\ Unsettled => paymentStatus = "CONFIRMED"
    /\ UNCHANGED <<target, hold, paymentStatus, history, late, seen>>

\* The reservation of a completed order is used up.
UsesUp == target = "COMPLETED" /\ seen.hold = "ACTIVE"

ConsumeHold ==
    /\ Goes("consume", "count")
    /\ hold' = IF UsesUp THEN "CONSUMED" ELSE hold
    /\ UNCHANGED <<target, status, paymentStatus, history, late, seen>>

\* The history is written if there is none at all.
CountHistory ==
    /\ Goes("count", IF history = 0 THEN "history" ELSE "done")
    /\ UNCHANGED <<target, status, hold, paymentStatus, history, late, seen>>

WriteHistory ==
    /\ step = "history"
    /\ history' = history + 1
    /\ step' = IF history' = StepsTo(target) THEN "done" ELSE "history"
    /\ UNCHANGED <<target, status, hold, paymentStatus, late, seen>>

-------------------------------------------------------------------------------
\* A statement is refused, or the tool is stopped.
Stop ==
    /\ step \notin {"off", "done"} /\ step' = "off"
    /\ UNCHANGED <<target, status, hold, paymentStatus, history, late, seen>>

\* A day later the worker may end the reservation of an order that is not paid.
DayPasses ==
    /\ late' = TRUE
    /\ UNCHANGED <<target, status, hold, paymentStatus, history, step, seen>>

Expire ==
    /\ late /\ status \in Payable /\ hold = "ACTIVE"
    /\ status' = "RESERVATION_EXPIRED" /\ hold' = "EXPIRED"
    /\ UNCHANGED <<target, paymentStatus, history, late, step, seen>>

DemoNext ==
    \/ Run \/ FindOrder \/ FindHold \/ FindPayment \/ SendProof \/ ConfirmPayment
    \/ SettleOrder \/ ConsumeHold \/ CountHistory \/ WriteHistory
    \/ Stop
    \/ DayPasses
    \/ Expire

DemoSpec == DemoInit /\ [][DemoNext]_demoVars

-------------------------------------------------------------------------------
(* What a run leaves behind                                                *)

\* A run that comes to the history leaves the order as the target says, in status,
\* reservation and payment, wherever earlier runs were stopped and however long
\* ago; only an order whose reservation ended in between is left otherwise.
SeedingHeals ==
    step \in {"count", "history", "done"} =>
        \/ late /\ hold = "EXPIRED"
        \/ /\ status = target
           /\ hold = (CASE target \in Unreserved -> "NONE"
                        [] target = "COMPLETED" -> "CONSUMED"
                        [] target = "RESERVATION_EXPIRED" -> "EXPIRED"
                        [] OTHER -> "ACTIVE")
           /\ paymentStatus = (CASE target \in Paid -> "CONFIRMED"
                                 [] target = "PAYMENT_VERIFICATION" -> "PROOF_UPLOADED"
                                 [] target = "AWAITING_PAYMENT" -> "PENDING"
                                 [] OTHER -> "NONE")
==============================================================================
