-------------------------------- MODULE Outbox --------------------------------
(***************************************************************************)
(* The delivery of outbox events: relays that claim due rows under a lease *)
(* and put a job into the queue, workers that run the consumers of an      *)
(* event one after another and record the result, the command consumer     *)
(* for 1C with its journal, and the administrator who replays dead events. *)
(*                                                                         *)
(* Every statement on the row, every call of 1C, every transaction of the  *)
(* journal and every message to the queue is a step of its own.  Between   *)
(* them processes crash, answers are lost, the queue forgets jobs and      *)
(* leases expire, so that one event may be in several deliveries at once;  *)
(* a worker never looks at the lease.                                      *)
(*                                                                         *)
(* Abstracted: time is the flag due (availableAt has passed), and a lease  *)
(* may expire whenever a relay starts a batch.  The facts a command to 1C  *)
(* is rebuilt from (stock versions, the order's 1C version, reservation    *)
(* versions) are one counter.  All events are of one order.                *)
(*                                                                         *)
(* The operators named Slip_ are mistakes, see README, "Mutants".          *)
(***************************************************************************)
EXTENDS Integers, Sequences

CONSTANTS
    Events,       \* the events written to the outbox
    NoEvent,      \* no event
    Written,      \* the kinds of events that are written
    Relays,       \* worker processes that poll the outbox
    Workers,      \* slots in which workers process jobs of the queue
    MaxAttempts,  \* OUTBOX_MAX_ATTEMPTS
    MaxJobs,      \* bound: jobs waiting in the queue
    MaxChanges,   \* bound: changes of the facts commands are built from
    MaxFaults     \* bound: crashes, failed calls of the queue, lost jobs

CommandEvents == {"order.created", "order.reservation_expired",
                  "order.stock_confirmation.requested",
                  "order.reservation_extension.requested"}
TimerEvents   == {"order.stock_confirmed", "order.reservation_extended"}
MailEvents    == {"order.created", "order.stock_confirmed",
                  "order.reservation_expired", "order.reservation_expiry_reminder",
                  "payment.details_published", "payment.proof_submitted",
                  "payment.confirmed", "payment.rejected"}
Kinds == CommandEvents \cup TimerEvents \cup MailEvents

ASSUME EventsAssumption == /\ NoEvent \notin Events
                           /\ Written \subseteq Kinds

ASSUME LimitsAssumption == /\ MaxAttempts \in Nat \ {0}
                           /\ MaxJobs \in Nat \ {0}
                           /\ MaxChanges \in Nat
                           /\ MaxFaults \in Nat

VARIABLES
    kind,      \* outbox_events.event_type
    row,       \* outbox_events: status, attempts, due, owner of the lease
    jobs,      \* the queue of jobs, each the id of an event
    relay,     \* the row each relay has claimed and not finished with
    task,      \* the delivery in each worker slot
    taken,     \* the consumers that took each event
    accepted,  \* the command 1C stored under the event's idempotency key
    journal,   \* the command in the event's outbound sync_jobs row
    exported,  \* orders.one_c_id is set
    facts,     \* version of the facts that commands are built from
    replay,    \* outcome of the last replay of each event
    faults     \* faults so far

deliveryVars == <<row, jobs, relay, task>>
effectVars   == <<taken, accepted, journal, exported>>
vars == <<kind, deliveryVars, effectVars, facts, replay, faults>>

-------------------------------------------------------------------------------
Consumers == {"oneC", "timer", "mail"}

\* Which consumers ApplicationOutboxHandler calls, in this order.
Chain == [e \in Events |->
            {c \in Consumers : \/ c = "oneC"  /\ kind[e] \in CommandEvents
                               \/ c = "timer" /\ kind[e] \in TimerEvents
                               \/ c = "mail"  /\ kind[e] \in MailEvents}]
Before == [c \in Consumers |-> CASE c = "oneC"  -> {}
                                 [] c = "timer" -> {"oneC"}
                                 [] c = "mail"  -> {"oneC", "timer"}]

Slip_PendingOnly == {"PENDING"}

Open     == {"PENDING", "RETRY_SCHEDULED"}
Terminal == {"PUBLISHED", "DLQ"}
OutboxStatus == Open \cup {"PROCESSING"} \cup Terminal

Row == [status : OutboxStatus, attempts : 0..MaxAttempts, due : BOOLEAN,
        owner : Relays \cup {NoEvent}]

Commands == 0..(MaxChanges + 1)      \* 0: none
Codes    == {"NONE", "UNAVAILABLE", "REFUSED", "CONFLICT"}
Steps    == {"build", "dispatch", "record", "timer", "mail", "publish"}

Task == [event : Events \cup {NoEvent}, seen : 0..MaxAttempts,
         step : Steps \cup {"idle", "failed"}, command : Commands, code : Codes]
Idle == [event |-> NoEvent, seen |-> 0, step |-> "idle", command |-> 0, code |-> "NONE"]

TypeOK ==
    /\ kind \in [Events -> Written]
    /\ row \in [Events -> Row]
    /\ jobs \in Seq(Events)
    /\ Len(jobs) <= MaxJobs
    /\ relay \in [Relays -> [event : Events \cup {NoEvent}, failed : BOOLEAN]]
    /\ task \in [Workers -> Task]
    /\ taken \in [Events -> SUBSET Consumers]
    /\ accepted \in [Events -> Commands]
    /\ journal \in [Events -> Commands]
    /\ exported \in BOOLEAN
    /\ facts \in 0..MaxChanges
    /\ replay \in [Events -> {"none", "queued", "failed"}]
    /\ faults \in 0..MaxFaults

\* Rows as the business transactions wrote them; a reminder is due later.
\* An order whose creation is not among them may have been exported before.
Init ==
    /\ kind \in [Events -> Written]
    /\ row = [e \in Events |-> [status |-> "PENDING", attempts |-> 0,
                                due |-> kind[e] # "order.reservation_expiry_reminder",
                                owner |-> NoEvent]]
    /\ jobs = <<>>
    /\ relay = [r \in Relays |-> [event |-> NoEvent, failed |-> FALSE]]
    /\ task = [w \in Workers |-> Idle]
    /\ taken = [e \in Events |-> {}]
    /\ accepted = [e \in Events |-> 0]
    /\ journal = [e \in Events |-> 0]
    /\ exported \in {b \in BOOLEAN : b => \A e \in Events : kind[e] # "order.created"}
    /\ facts = 0
    /\ replay = [e \in Events |-> "none"]
    /\ faults = 0

-------------------------------------------------------------------------------
(* The row *)

\* The database trigger: terminal rows are immutable, attempts never fall.
Raises(old, new) == \/ old.status \in Terminal
                    \/ new.attempts < old.attempts

Update(e, new) ==
    row' = IF Raises(row[e], new) THEN row ELSE [row EXCEPT ![e] = new]

Released(old, status) == [old EXCEPT !.status = status, !.owner = NoEvent]

\* availableAt passes.
BecomeDue(e) ==
    /\ row[e].status \in Open
    /\ ~row[e].due
    /\ row' = [row EXCEPT ![e].due = TRUE]
    /\ UNCHANGED <<kind, jobs, relay, task, effectVars, facts, replay, faults>>

-------------------------------------------------------------------------------
(* Relays *)

Free(r) == relay[r].event = NoEvent

\* A batch begins by taking back all leases that are too old.
ExpireLeases(r, stale) ==
    /\ Free(r)
    /\ stale # {}
    /\ \A e \in stale : row[e].status = "PROCESSING"
    /\ row' = [e \in Events |->
                 IF e \in stale THEN [Released(row[e], "RETRY_SCHEDULED") EXCEPT !.due = TRUE]
                                ELSE row[e]]
    /\ UNCHANGED <<kind, jobs, relay, task, effectVars, facts, replay, faults>>

Claim(r, e) ==
    /\ Free(r)
    /\ row[e].status \in Open
    /\ row[e].due
    /\ row' = [row EXCEPT ![e].status = "PROCESSING", ![e].owner = r]
    /\ relay' = [relay EXCEPT ![r].event = e]
    /\ UNCHANGED <<kind, jobs, task, effectVars, facts, replay, faults>>

PutJob(e) == Len(jobs) < MaxJobs /\ jobs' = Append(jobs, e)

Enqueue(r) ==
    /\ ~Free(r)
    /\ ~relay[r].failed
    /\ PutJob(relay[r].event)
    /\ relay' = [relay EXCEPT ![r].event = NoEvent]
    /\ UNCHANGED <<kind, row, task, effectVars, facts, replay, faults>>

\* queue.add rejects; the job may be in the queue all the same.
EnqueueFails(r) ==
    /\ ~Free(r)
    /\ ~relay[r].failed
    /\ faults < MaxFaults
    /\ faults' = faults + 1
    /\ UNCHANGED jobs \/ PutJob(relay[r].event)
    /\ relay' = [relay EXCEPT ![r].failed = TRUE]
    /\ UNCHANGED <<kind, row, task, effectVars, facts, replay>>

\* The relay gives the row back, if the lease is still its own.
GiveBack(r) ==
    LET e == relay[r].event IN
    /\ relay[r].failed
    /\ IF row[e].status = "PROCESSING" /\ row[e].owner = r
       THEN Update(e, [Released(row[e], "RETRY_SCHEDULED") EXCEPT !.due = TRUE])
       ELSE UNCHANGED row
    /\ relay' = [relay EXCEPT ![r] = [event |-> NoEvent, failed |-> FALSE]]
    /\ UNCHANGED <<kind, jobs, task, effectVars, facts, replay, faults>>

CrashRelay(r) ==
    /\ ~Free(r)
    /\ faults < MaxFaults
    /\ faults' = faults + 1
    /\ relay' = [relay EXCEPT ![r] = [event |-> NoEvent, failed |-> FALSE]]
    /\ UNCHANGED <<kind, row, jobs, task, effectVars, facts, replay>>

\* Redis restarts without its newest writes.
LoseJobs ==
    /\ jobs # <<>>
    /\ faults < MaxFaults
    /\ faults' = faults + 1
    /\ jobs' = <<>>
    /\ UNCHANGED <<kind, row, relay, task, effectVars, facts, replay>>

-------------------------------------------------------------------------------
(* Workers *)

Done(w) == task' = [task EXCEPT ![w] = Idle]

Goes(w, step) == task' = [task EXCEPT ![w].step = step]

Fails(w, code) ==
    task' = [task EXCEPT ![w].step = "failed", ![w].code = code, ![w].command = 0]

\* The step has its effect; the worker learns of it, or loses the answer.
GoesOrLoses(w, step) == Goes(w, step) \/ Fails(w, "UNAVAILABLE")

\* The order in which ApplicationOutboxHandler calls the consumers.
ToMail(e)  == IF "mail"  \in Chain[e] THEN "mail"  ELSE "publish"
Slip_FirstConsumerOnly(e) == "publish"
ToTimer(e) == IF "timer" \in Chain[e] THEN "timer" ELSE ToMail(e)
First(e)   == IF "oneC"  \in Chain[e] THEN "build" ELSE ToTimer(e)

At(w, step) == task[w].step = step

\* A worker takes the oldest job and reads the row; it drops the job of a row
\* that is settled or was put off.
Start(w) ==
    LET e == Head(jobs) IN
    /\ At(w, "idle")
    /\ jobs # <<>>
    /\ jobs' = Tail(jobs)
    /\ IF row[e].status \in Terminal \/ ~row[e].due
       THEN UNCHANGED task
       ELSE task' = [task EXCEPT ![w] = [Idle EXCEPT !.event = e, !.step = First(e),
                                                     !.seen = row[e].attempts]]
    /\ UNCHANGED <<kind, row, relay, effectVars, facts, replay, faults>>

\* Commands of these kinds are rebuilt from facts that change.
Rebuilt == {"order.stock_confirmation.requested", "order.reservation_extension.requested"}
Content(e) == IF kind[e] \in Rebuilt THEN facts + 1 ELSE 1

\* An export is put together from what never changes in an order.  The mapper
\* refuses nothing that the checkout accepts of a customer: both want a name, a
\* phone, an address and, of an organization, digits of the same form.
BuildExport(w) ==
    LET e == task[w].event IN
    /\ At(w, "build") /\ kind[e] = "order.created"
    /\ task' = [task EXCEPT ![w].step = "dispatch", ![w].command = Content(e)]
    /\ UNCHANGED <<kind, row, jobs, relay, effectVars, facts, replay, faults>>

\* The other commands name the order as 1C knows it.  An extension of an order
\* that 1C does not know is given up, the others are tried again.
BuildCommand(w) ==
    LET e == task[w].event IN
    /\ At(w, "build") /\ kind[e] # "order.created"
    /\ IF exported
       THEN task' = [task EXCEPT ![w].step = "dispatch", ![w].command = Content(e)]
       ELSE Fails(w, IF kind[e] = "order.reservation_extension.requested"
                     THEN "REFUSED" ELSE "UNAVAILABLE")
    /\ UNCHANGED <<kind, row, jobs, relay, effectVars, facts, replay, faults>>

Build(w) == BuildExport(w) \/ BuildCommand(w)

\* A command agrees with what is stored under its key: nothing, or its copy.
Slip_KeyDecides(stored, command) == TRUE
Agrees(stored, command) == stored \in {0, command}

\* 1C stores the first command under an idempotency key, answers its copies
\* alike and refuses any other command under the key.
Dispatch(w) ==
    LET e == task[w].event IN
    /\ At(w, "dispatch")
    /\ IF Agrees(accepted[e], task[w].command)
       THEN /\ accepted' = [accepted EXCEPT ![e] = task[w].command]
            /\ GoesOrLoses(w, "record")
       ELSE /\ Fails(w, "CONFLICT")
            /\ UNCHANGED accepted
    /\ UNCHANGED <<kind, row, jobs, relay, taken, journal, exported, facts, replay, faults>>

\* One transaction enters the command into the journal and, for an export,
\* 1C's number into the order.  Then the inbox stores the status message that
\* the answer of 1C may carry; that it fails is a lost answer of this step.
Record(w) ==
    LET e == task[w].event IN
    /\ At(w, "record")
    /\ IF Agrees(journal[e], task[w].command)
       THEN /\ journal' = [journal EXCEPT ![e] = task[w].command]
            /\ taken' = [taken EXCEPT ![e] = @ \cup {"oneC"}]
            /\ exported' = (exported \/ kind[e] = "order.created")
            /\ GoesOrLoses(w, ToTimer(e))
       ELSE /\ Fails(w, "CONFLICT")
            /\ UNCHANGED <<journal, taken, exported>>
    /\ UNCHANGED <<kind, row, jobs, relay, accepted, facts, replay, faults>>

Takes(w, c) == taken' = [taken EXCEPT ![task[w].event] = @ \cup {c}]

SetTimer(w) ==
    /\ At(w, "timer")
    /\ Takes(w, "timer")
    /\ GoesOrLoses(w, ToMail(task[w].event))
    /\ UNCHANGED <<kind, row, jobs, relay, accepted, journal, exported, facts, replay, faults>>

SendMail(w) ==
    /\ At(w, "mail")
    /\ Takes(w, "mail")
    /\ GoesOrLoses(w, "publish")
    /\ UNCHANGED <<kind, row, jobs, relay, accepted, journal, exported, facts, replay, faults>>

\* Whoever holds the lease, a delivery that is through publishes the row.
Publish(w) ==
    LET e == task[w].event
        published == [Released(row[e], "PUBLISHED") EXCEPT !.attempts = @ + 1]
    IN  /\ At(w, "publish")
        /\ IF row[e].status \in Terminal THEN UNCHANGED row ELSE Update(e, published)
        /\ Done(w) \/ Fails(w, "UNAVAILABLE")
        /\ UNCHANGED <<kind, jobs, relay, effectVars, facts, replay, faults>>

\* A step fails without effect: for now, or for good.
Falter(w) ==
    /\ task[w].step \in Steps
    /\ \E code \in {"UNAVAILABLE", "REFUSED"} : Fails(w, code)
    /\ UNCHANGED <<kind, row, jobs, relay, effectVars, facts, replay, faults>>

\* retryDecision
Slip_RetryForEver(code, nextAttempt) == code = "UNAVAILABLE"
Retries(code, nextAttempt) == code = "UNAVAILABLE" /\ nextAttempt < MaxAttempts

\* The result of a failed delivery, counted from the attempts it had read.
\* When the trigger raises, the job fails and the row stays as it is.
RecordFailure(w) ==
    LET e == task[w].event
        nextAttempt == task[w].seen + 1
        retried == [Released(row[e], "RETRY_SCHEDULED") EXCEPT !.attempts = nextAttempt]
        dead    == [Released(row[e], "DLQ") EXCEPT !.attempts = nextAttempt]
    IN  /\ At(w, "failed")
        /\ \/ row[e].status \in Terminal /\ UNCHANGED row
           \/ /\ row[e].status \notin Terminal
              /\ IF Retries(task[w].code, nextAttempt)
                 THEN \E due \in BOOLEAN : Update(e, [retried EXCEPT !.due = due])
                 ELSE Update(e, dead)
        /\ Done(w)
        /\ UNCHANGED <<kind, jobs, relay, effectVars, facts, replay, faults>>

\* The worker dies, or cannot write the result.  The queue may notice that
\* the job has stalled and hand it out once more.
CrashWorker(w) ==
    /\ ~At(w, "idle")
    /\ faults < MaxFaults
    /\ faults' = faults + 1
    /\ Done(w)
    /\ UNCHANGED jobs \/ PutJob(task[w].event)
    /\ UNCHANGED <<kind, row, relay, effectVars, facts, replay>>

-------------------------------------------------------------------------------
(* Around the outbox *)

\* Imports and messages of 1C change what commands are built from.
FactsMove ==
    /\ facts < MaxChanges
    /\ facts' = facts + 1
    /\ UNCHANGED <<kind, deliveryVars, effectVars, replay, faults>>

\* An administrator replays a dead event; when the trigger raises, the
\* transaction, with its audit record, is rolled back.
RetryOutboxEvent(e) ==
    LET pending == [Released(row[e], "PENDING") EXCEPT !.due = TRUE] IN
    /\ row[e].status = "DLQ"
    /\ Update(e, pending)
    /\ replay' = [replay EXCEPT ![e] = IF Raises(row[e], pending) THEN "failed" ELSE "queued"]
    /\ UNCHANGED <<kind, jobs, relay, task, effectVars, facts, faults>>

-------------------------------------------------------------------------------
Work(w) ==
    \/ Build(w) \/ Dispatch(w) \/ Record(w) \/ SetTimer(w)
    \/ SendMail(w) \/ Publish(w)
    \/ Falter(w) \/ RecordFailure(w)

Next ==
    \/ \E e \in Events : BecomeDue(e) \/ RetryOutboxEvent(e)
    \/ \E r \in Relays : \/ \E stale \in SUBSET Events : ExpireLeases(r, stale)
                         \/ \E e \in Events : Claim(r, e)
                         \/ Enqueue(r) \/ EnqueueFails(r) \/ GiveBack(r) \/ CrashRelay(r)
    \/ \E w \in Workers : Start(w) \/ Work(w) \/ CrashWorker(w)
    \/ LoseJobs
    \/ FactsMove

Spec == Init /\ [][Next]_vars

\* A relay polls for ever and every batch first takes back old leases, then
\* claims rows in the order in which they fell due; the queue hands out jobs
\* in order; a job in a worker ends, since every call it makes has a timeout.
FairSpec ==
    /\ Spec
    /\ \A e \in Events :
          /\ WF_vars(BecomeDue(e))
          /\ SF_vars(\E r \in Relays : Claim(r, e))
          /\ SF_vars(\E r \in Relays, stale \in SUBSET Events :
                        e \in stale /\ ExpireLeases(r, stale))
    /\ \A r \in Relays : WF_vars(Enqueue(r) \/ GiveBack(r))
    /\ WF_vars(\E w \in Workers : Start(w))
    /\ \A w \in Workers : WF_vars(Work(w))
===============================================================================
