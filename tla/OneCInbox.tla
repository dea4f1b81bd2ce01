------------------------------ MODULE OneCInbox ------------------------------
(***************************************************************************)
(* The inbox for the messages in which 1C reports the status of one order: *)
(* the request that stores a message, the workers that claim stored        *)
(* messages and apply them to the order, and the operator who requeues     *)
(* what they gave up on.                                                   *)
(*                                                                         *)
(* Storing a message is one SERIALIZABLE transaction.  Processing it is    *)
(* not: a worker claims the job in one transaction, reads the order and    *)
(* chooses a service, the service changes the order in a second one, and a *)
(* third statement records the result.  Between them workers crash, lose   *)
(* answers, or run so long that another worker takes their claim over.     *)
(*                                                                         *)
(* Abstracted: the identity of a message (messageId, event id, idempotency *)
(* key, payload hash) is the model value m, another payload under m's      *)
(* identity is the action ConflictingCopy.  Of the order only what the     *)
(* services compare a message with is kept; what else moves it is the      *)
(* action OthersMove.  Checks against state not kept here (the clock,      *)
(* stock, the payment row) may refuse a message at any time.  A message    *)
(* that contradicts the order's lines or warehouse, or reports a status    *)
(* the site does not take from 1C, is one of kind OTHER.                   *)
(*                                                                         *)
(* The operators named Slip_ are mistakes, see README, "Mutants".          *)
(***************************************************************************)
EXTENDS OrderStateMachine, Integers

CONSTANTS
    Messages,     \* what 1C sends about the order
    Kind,         \* Kind[m]: what m reports
    Seq,          \* Seq[m]: payload.orderVersion, the stream's sequence
    Until,        \* Until[m]: reservation.expiresAt of a RESERVED message
    Workers,      \* worker processes polling the inbox
    MaxAttempts,  \* OUTBOX_MAX_ATTEMPTS
    MaxFaults,    \* bound: crashes, lost answers and late workers
    MaxReplays    \* bound: requests of operators to requeue a job

\* What 1C says of an order: a reservation, a payment, or only a status.
Kinds == {"RESERVED", "PAID", "OTHER"}

ASSUME MessagesAssumption ==
    /\ Kind \in [Messages -> Kinds]
    /\ Seq \in [Messages -> Nat \ {0}]
    /\ Until \in [Messages -> Nat \ {0}]

ASSUME LimitsAssumption ==
    /\ MaxAttempts \in Nat \ {0}
    /\ MaxFaults \in Nat
    /\ MaxReplays \in Nat

VARIABLES
    job,        \* sync_jobs.status; "NONE": m is not stored
    attempts,   \* sync_jobs.attempts
    rejection,  \* code of the newest error of a REJECTED job
    cursor,     \* integration_cursors.current_version; 0: no row
    task,       \* what each worker is doing
    order,      \* what messages are compared with, of the order's rows
    requeuing,  \* requests to requeue a job that read but did not update it yet
    faults,     \* faults so far
    replays     \* requests to requeue so far

jobVars == <<job, attempts, rejection, cursor>>
vars == <<jobVars, task, order, requeuing, faults, replays>>

JobStatus == {"NONE", "QUEUED", "PROCESSING", "RETRY_SCHEDULED", "APPLIED",
              "REJECTED", "DLQ"}
Rejection == {"NONE", "STALE_VERSION", "VERSION_GAP", "IDEMPOTENCY_CONFLICT"}

\* A worker has claimed a job, is about to call the service that fits what it
\* read, or has its result.
Call   == {"confirm", "extend", "pay"}
Phase  == {"claimed"} \cup Call \cup {"applied", "permanent", "transient"}
Claimed == [at : Phase, msg : Messages, attempt : Nat]
Idle    == [at |-> "idle"]

\* orders.one_c_id is set, status, one_c_version (0: NULL), whether the order
\* has ACTIVE reservation rows, reservation_expires_at (0: NULL)
Order == [exported : BOOLEAN, status : OrderStatus, oneCVersion : Nat,
          held : BOOLEAN, deadline : Nat]

TypeOK ==
    /\ job \in [Messages -> JobStatus]
    /\ attempts \in [Messages -> Nat]
    /\ rejection \in [Messages -> Rejection]
    /\ cursor \in Nat
    /\ task \in [Workers -> Claimed \cup {Idle}]
    /\ order \in Order
    /\ requeuing \in [Messages -> Nat]
    /\ faults \in 0..MaxFaults
    /\ replays \in 0..MaxReplays

Init ==
    /\ job = [m \in Messages |-> "NONE"]
    /\ attempts = [m \in Messages |-> 0]
    /\ rejection = [m \in Messages |-> "NONE"]
    /\ cursor = 0
    /\ task = [w \in Workers |-> Idle]
    /\ order = [exported |-> FALSE, status |-> "AWAITING_STOCK_CONFIRMATION",
                oneCVersion |-> 0, held |-> FALSE, deadline |-> 0]
    /\ requeuing = [m \in Messages |-> 0]
    /\ faults = 0
    /\ replays = 0

Fault == /\ faults < MaxFaults
         /\ faults' = faults + 1

------------------------------------------------------------------------------
(* Storing messages: PrismaOneCInboxRepository.accept.  A repeated message *)
(* whose job is not REJECTED is answered with the stored receipt and       *)
(* writes nothing.                                                         *)

\* m continues its stream; the first message may have any sequence.
Continues(m) == cursor = 0 \/ Seq[m] = cursor + 1

Enqueue(m) == /\ job' = [job EXCEPT ![m] = "QUEUED"]
              /\ cursor' = Seq[m]

Reject(m, code) == /\ job' = [job EXCEPT ![m] = "REJECTED"]
                   /\ rejection' = [rejection EXCEPT ![m] = code]

AcceptFirstCopy(m) ==
    /\ job[m] = "NONE"
    /\ Continues(m)
    /\ Enqueue(m)
    /\ UNCHANGED <<attempts, rejection, task, order, requeuing, faults, replays>>

RejectFirstCopy(m) ==
    /\ job[m] = "NONE"
    /\ ~Continues(m)
    /\ Reject(m, IF Seq[m] <= cursor THEN "STALE_VERSION" ELSE "VERSION_GAP")
    /\ UNCHANGED <<attempts, cursor, task, order, requeuing, faults, replays>>

\* reconsiderRejected: m is sent again after the missing versions arrived.
ReconsiderRejected(m) ==
    /\ job[m] = "REJECTED"
    /\ rejection[m] = "VERSION_GAP"
    /\ Seq[m] = cursor + 1
    /\ Enqueue(m)
    /\ UNCHANGED <<attempts, rejection, task, order, requeuing, faults, replays>>

\* Another payload comes under the identity of m.  The error recorded with m
\* matters only while m is REJECTED: it hides why, so that m is never
\* reconsidered again.
ConflictingCopy(m) ==
    /\ job[m] = "REJECTED"
    /\ Reject(m, "IDEMPOTENCY_CONFLICT")
    /\ UNCHANGED <<attempts, cursor, task, order, requeuing, faults, replays>>

------------------------------------------------------------------------------
(* Processing: OneCInboxProcessor.process.                                 *)

Waiting == {"QUEUED", "RETRY_SCHEDULED"}

Slip_OpenStatus == {"QUEUED", "PROCESSING", "RETRY_SCHEDULED"}

\* Statuses that hold up the later messages of the stream.
Pending == {"QUEUED", "PROCESSING", "RETRY_SCHEDULED", "DLQ"}

HasEarlierPending(m) ==
    \E e \in Messages : job[e] \in Pending /\ Seq[e] < Seq[m]

Slip_NeverReclaim(m) == FALSE

\* The claim of m outlived its worker.
Abandoned(m) == /\ job[m] = "PROCESSING"
                /\ \A w \in Workers : task[w] # Idle => task[w].msg # m

\* The claim of m is older than OUTBOX_PROCESSING_TIMEOUT_SECONDS although its
\* worker is only slow.
Overdue(m) == job[m] = "PROCESSING" /\ ~Abandoned(m)

Claim(w, m) ==
    /\ task[w] = Idle
    /\ \/ job[m] \in Waiting /\ UNCHANGED faults
       \/ Abandoned(m) /\ UNCHANGED faults
       \/ Overdue(m) /\ Fault
    /\ ~HasEarlierPending(m)
    /\ job' = [job EXCEPT ![m] = "PROCESSING"]
    /\ attempts' = [attempts EXCEPT ![m] = @ + 1]
    /\ task' = [task EXCEPT ![w] = [at |-> "claimed", msg |-> m,
                                    attempt |-> attempts[m] + 1]]
    /\ UNCHANGED <<rejection, cursor, order, requeuing, replays>>

Holds(w, phases) == task[w] # Idle /\ task[w].at \in phases

Goto(w, phase) == task' = [task EXCEPT ![w].at = phase]

\* ReservationOneCStatusApplier.apply reads the order and chooses; a
\* reservation that is there already makes any RESERVED message an extension.
Choice(m) ==
    CASE ~order.exported         -> "permanent"
      [] order.exported /\ Kind[m] = "PAID" -> "pay"
      [] order.exported /\ Kind[m] = "OTHER" -> "permanent"
      [] order.exported /\ Kind[m] = "RESERVED" /\ ~order.held -> "confirm"
      [] order.exported /\ Kind[m] = "RESERVED" /\ order.held ->
            IF order.status \in PayableStatus /\ Until[m] > order.deadline
            THEN "extend" ELSE "permanent"

Choose(w) ==
    /\ Holds(w, {"claimed"})
    /\ Goto(w, Choice(task[w].msg))
    /\ UNCHANGED <<jobVars, order, requeuing, faults, replays>>

------------------------------------------------------------------------------
(* The services' transactions, called with what the worker chose earlier;  *)
(* the order may have moved since.                                         *)

Slip_PaidIsEnough(call, m) ==
    \/ order.oneCVersion = Seq[m] /\ order.deadline = Until[m]
    \/ call = "pay" /\ order.status \in PaidStatus

\* The order has taken this very message already: it is answered as a
\* duplicate and nothing changes.
IsDuplicate(call, m) ==
    /\ order.oneCVersion = Seq[m]
    /\ \/ call = "confirm" /\ order.deadline = Until[m]
       \/ /\ call = "extend" /\ order.deadline = Until[m]
          /\ order.status \in PayableStatus /\ order.held
       \/ call = "pay" /\ order.status = "PAID"

\* PaymentService.confirmFromOneC: the order is PAID, only the version is new.
Acknowledges(call, m) ==
    call = "pay" /\ order.status = "PAID" /\ Seq[m] > order.oneCVersion

Slip_TrustChoice(call, m) ==
    /\ Seq[m] > order.oneCVersion
    /\ call = "pay" => order.status \in PayableStatus \cup {"PAID"}

\* The part of each service's conditions that concerns the order kept here.
Accepts(call, m) ==
    /\ Seq[m] > order.oneCVersion
    /\ \/ /\ call = "confirm" /\ ~order.held
          /\ order.status = "AWAITING_STOCK_CONFIRMATION"
       \/ /\ call = "extend" /\ order.held
          /\ order.status \in PayableStatus
          /\ order.oneCVersion # 0
          /\ Until[m] > order.deadline
       \/ /\ call = "pay" /\ order.held
          /\ order.status \in PayableStatus
       \/ Acknowledges(call, m)

\* ReservationService.confirmFromOneC, ReservationExtensionService.
\* applyFromOneC or PaymentService.confirmFromOneC commits.
Apply(w) ==
    /\ Holds(w, Call)
    /\ LET call == task[w].at
           m    == task[w].msg
       IN  /\ Accepts(call, m)
           /\ order' = CASE call = "confirm" ->
                              [order EXCEPT !.status = "AWAITING_PAYMENT",
                                            !.oneCVersion = Seq[m],
                                            !.held = TRUE,
                                            !.deadline = Until[m]]
                         [] call = "extend" ->
                              [order EXCEPT !.oneCVersion = Seq[m],
                                            !.deadline = Until[m]]
                         [] call = "pay" ->
                              [order EXCEPT !.status = "PAID",
                                            !.oneCVersion = Seq[m]]
    /\ Goto(w, "applied")
    /\ UNCHANGED <<jobVars, requeuing, faults, replays>>

AnswerDuplicate(w) ==
    /\ Holds(w, Call)
    /\ IsDuplicate(task[w].at, task[w].msg)
    /\ Goto(w, "applied")
    /\ UNCHANGED <<jobVars, order, requeuing, faults, replays>>

\* The service throws a domain error, which is never retried: for what the
\* order says, or for what is not kept here.
Refuse(w) ==
    /\ Holds(w, Call)
    /\ ~IsDuplicate(task[w].at, task[w].msg)
    /\ ~Acknowledges(task[w].at, task[w].msg)
    /\ Goto(w, "permanent")
    /\ UNCHANGED <<jobVars, order, requeuing, faults, replays>>

Slip_RecordOverOthers(m, verdict) == job' = [job EXCEPT ![m] = verdict]

\* updateMany where status = PROCESSING: whoever claimed the job since.
RecordIfProcessing(m, verdict) ==
    job' = [job EXCEPT ![m] = IF @ = "PROCESSING" THEN verdict ELSE @]

\* retryDecision, with the attempt counted when the job was claimed
Verdict(phase, attempt) ==
    IF phase = "applied" THEN "APPLIED"
    ELSE IF phase = "transient" /\ attempt < MaxAttempts THEN "RETRY_SCHEDULED"
    ELSE "DLQ"

Record(w) ==
    /\ Holds(w, {"applied", "permanent", "transient"})
    /\ RecordIfProcessing(task[w].msg, Verdict(task[w].at, task[w].attempt))
    /\ task' = [task EXCEPT ![w] = Idle]
    /\ UNCHANGED <<attempts, rejection, cursor, order, requeuing, faults, replays>>

------------------------------------------------------------------------------
(* What goes wrong.                                                        *)

\* The worker dies, or fails to record its result.
Crash(w) ==
    /\ task[w] # Idle
    /\ Fault
    /\ task' = [task EXCEPT ![w] = Idle]
    /\ UNCHANGED <<jobVars, order, requeuing, replays>>

\* A database error that classifyIntegrationError takes for transient: before
\* the service commits, or after it, so that a success is not heard of.
Falter(w) ==
    /\ Holds(w, {"claimed", "applied"} \cup Call)
    /\ Fault
    /\ Goto(w, "transient")
    /\ UNCHANGED <<jobVars, order, requeuing, replays>>

------------------------------------------------------------------------------
(* The rest of the system.                                                 *)

\* AdminOperationsService.retrySyncJob checks the status of a row that it does
\* not lock, and updates the row afterwards, whatever became of it meanwhile.
\* Attempts stay what they are.
Retryable == {"DLQ", "RETRY_SCHEDULED"}

RetryJobRead(m) ==
    /\ job[m] \in Retryable
    /\ replays < MaxReplays
    /\ replays' = replays + 1
    /\ requeuing' = [requeuing EXCEPT ![m] = @ + 1]
    /\ UNCHANGED <<jobVars, task, order, faults>>

RetryJobWrite(m) ==
    /\ requeuing[m] > 0
    /\ requeuing' = [requeuing EXCEPT ![m] = @ - 1]
    /\ job' = [job EXCEPT ![m] = "QUEUED"]
    /\ UNCHANGED <<attempts, rejection, cursor, task, order, faults, replays>>

\* OneCCommandService.recordOrderExport: until then no message can be applied.
RecordOrderExport ==
    /\ ~order.exported
    /\ order' = [order EXCEPT !.exported = TRUE]
    /\ UNCHANGED <<jobVars, task, requeuing, faults, replays>>

\* Managers, the customer and the expiry move the order; an expiry ends its
\* reservation, the others leave it (OrderFulfilment).
OthersMove ==
    /\ \E to \in {"AWAITING_PAYMENT", "PAYMENT_VERIFICATION", "ASSEMBLING",
                  "READY_FOR_PICKUP", "COMPLETED", "CANCELLED_BY_STORE", "PAID"} :
          /\ \E source \in {"ADMIN", "STOREFRONT"} :
                IsOrderTransitionAllowed(order.status, to, source)
          /\ order' = [order EXCEPT !.status = to]
    /\ UNCHANGED <<jobVars, task, requeuing, faults, replays>>

Expire ==
    /\ order.held
    /\ order.status \in PayableStatus
    /\ order' = [order EXCEPT !.status = "RESERVATION_EXPIRED", !.held = FALSE]
    /\ UNCHANGED <<jobVars, task, requeuing, faults, replays>>

------------------------------------------------------------------------------
Store(m) == \/ AcceptFirstCopy(m)
            \/ RejectFirstCopy(m)
            \/ ReconsiderRejected(m)
            \/ ConflictingCopy(m)

Work(w) == \/ \E m \in Messages : Claim(w, m)
           \/ Choose(w)
           \/ Apply(w)
           \/ AnswerDuplicate(w)
           \/ Refuse(w)
           \/ Record(w)

Next ==
    \/ \E m \in Messages : Store(m) \/ RetryJobRead(m) \/ RetryJobWrite(m)
    \/ \E w \in Workers : Work(w) \/ Crash(w) \/ Falter(w)
    \/ RecordOrderExport
    \/ OthersMove
    \/ Expire

Spec == Init /\ [][Next]_vars

\* Each worker polls the inbox periodically and finishes what it claimed
\* unless it crashes.  1C, the operator and everyone else may never act.
FairSpec == Spec /\ \A w \in Workers : WF_vars(Work(w))
==============================================================================
