------------------------------ MODULE OrderMails ------------------------------
(***************************************************************************)
(* One order e-mail: OrderNotificationService.handle, called for each      *)
(* delivery of an outbox event, and the row of email_logs it goes through. *)
(*                                                                         *)
(* Several workers may deliver the event at once (the lease of the first   *)
(* ended while it was still at work), each may crash, and the mail server  *)
(* may take a letter and still report an error.  The row's CHECK           *)
(* constraint, email_logs_lifecycle, refuses some of the updates.          *)
(*                                                                         *)
(* A dead letter stays dead: the database refuses to queue it again.       *)
(*                                                                         *)
(* Abstracted: what the letter says and whom it goes to; when the next     *)
(* attempt is due.                                                         *)
(***************************************************************************)
EXTENDS Integers, FiniteSets

CONSTANTS
    Mailers,      \* workers that may deliver the event
    MaxMails      \* EMAIL_MAX_ATTEMPTS

ASSUME MaxMailsAssumption == MaxMails \in Nat \ {0}
ASSUME MailersAssumption == IsFiniteSet(Mailers)

VARIABLES
    event,    \* the outbox event: open, done, or a dead letter
    wanted,   \* the customer wants it, and the order still calls for it
    letter,   \* the row of email_logs
    mailer,   \* what each worker is doing
    copies    \* letters the mail server took

mailVars == <<event, wanted, letter, mailer, copies>>

-------------------------------------------------------------------------------
Statuses == {"NONE", "PENDING", "SENDING", "SENT", "RETRY_SCHEDULED", "FAILED", "SUPPRESSED"}

\* retry: next_retry_at is set; sent: sent_at is; failed: failed_at is.
Letter == [status : Statuses, attempts : Nat, retry : BOOLEAN, sent : BOOLEAN, failed : BOOLEAN]

\* read: the attempts counted when the row was read.
Mailer == [stage : {"idle", "suppress", "record", "claim", "send", "sent", "failed"}, read : Nat]

MailTypeOK ==
    /\ event \in {"open", "done", "dead"}
    /\ wanted \in BOOLEAN
    /\ letter \in Letter
    /\ mailer \in [Mailers -> Mailer]
    /\ copies \in Nat

Idle == [stage |-> "idle", read |-> 0]

MailInit ==
    /\ event = "open" /\ wanted = TRUE
    /\ letter = [status |-> "NONE", attempts |-> 0, retry |-> FALSE, sent |-> FALSE,
                 failed |-> FALSE]
    /\ mailer = [w \in Mailers |-> Idle]
    /\ copies = 0

At(w, stage) == mailer[w].stage = stage
Turns(w, stage, read) == mailer' = [mailer EXCEPT ![w] = [stage |-> stage, read |-> read]]

\* What the constraint says of the three times.
Lifecycle(l) ==
    CASE l.status = "SENT" -> l.sent /\ ~l.retry /\ ~l.failed
      [] l.status = "RETRY_SCHEDULED" -> l.retry /\ ~l.sent /\ ~l.failed
      [] l.status = "FAILED" -> l.failed /\ ~l.sent /\ ~l.retry
      [] l.status = "SUPPRESSED" -> ~l.sent /\ ~l.retry
      [] OTHER -> ~l.sent /\ ~l.retry /\ ~l.failed

\* How a delivery ends: done, dead or open (to be retried).  An error of the
\* database that is not transient, as a refused update, is final like an error
\* that says so.  A worker whose lease ended settles nothing.
Ends(w, result) ==
    /\ event' \in {event, IF event = "open" THEN result ELSE event}
    /\ mailer' = [mailer EXCEPT ![w] = Idle]

-------------------------------------------------------------------------------
\* The relay hands the event to a worker, who reads the order and the settings
\* of its customer.
Deliver(w) ==
    /\ event = "open" /\ At(w, "idle")
    /\ Turns(w, IF wanted THEN "record" ELSE "suppress", 0)
    /\ UNCHANGED <<event, wanted, letter, copies>>

\* suppress.
Suppress(w) ==
    LET new == [letter EXCEPT !.status = "SUPPRESSED"]
    IN /\ At(w, "suppress")
       /\ \/ Lifecycle(new) /\ letter' = new /\ Ends(w, "done")
          \/ ~Lifecycle(new) /\ UNCHANGED letter /\ Ends(w, "dead")
       /\ UNCHANGED <<wanted, copies>>

\* The row is made if there is none, and read.
Slip_NoLimit(l) == FALSE
Exhausted(l) == l.attempts >= MaxMails

Record(w) ==
    LET row == IF letter.status = "NONE" THEN [letter EXCEPT !.status = "PENDING"] ELSE letter
    IN /\ At(w, "record")
       /\ letter' = row
       /\ \/ row.status \in {"SENT", "SUPPRESSED"} /\ Ends(w, "done")
          \/ /\ row.status \notin {"SENT", "SUPPRESSED"} /\ Exhausted(row)
             /\ Ends(w, "dead")
          \/ /\ row.status \notin {"SENT", "SUPPRESSED"} /\ ~Exhausted(row)
             /\ Turns(w, "claim", row.attempts) /\ UNCHANGED event
       /\ UNCHANGED <<wanted, copies>>

\* The attempt is counted before the letter goes out.
Slip_CountedLater(l) == [l EXCEPT !.status = "SENDING"]
Sending(l) == [l EXCEPT !.status = "SENDING", !.attempts = l.attempts + 1]

Claim(w) ==
    /\ At(w, "claim")
    /\ \/ /\ Lifecycle(Sending(letter))
          /\ letter' = Sending(letter)
          /\ Turns(w, "send", mailer[w].read) /\ UNCHANGED event
       \/ /\ ~Lifecycle(Sending(letter))
          /\ UNCHANGED letter /\ Ends(w, "dead")
    /\ UNCHANGED <<wanted, copies>>

\* transport.send: taken and said so, taken with an error, or not taken.
Post(w) ==
    /\ At(w, "send")
    /\ \E taken \in {0, 1}, stage \in {"sent", "failed"} :
          /\ stage = "sent" => taken = 1
          /\ copies' = copies + taken
          /\ Turns(w, stage, mailer[w].read)
    /\ UNCHANGED <<event, wanted, letter>>

\* An error of this update is taken for an error of the transport.
Finish(w) ==
    LET new == [letter EXCEPT !.status = "SENT", !.sent = TRUE, !.retry = FALSE]
    IN /\ At(w, "sent")
       /\ \/ Lifecycle(new) /\ letter' = new /\ Ends(w, "done")
          \/ UNCHANGED <<event, letter>> /\ Turns(w, "failed", mailer[w].read)
       /\ UNCHANGED <<wanted, copies>>

Fail(w) ==
    LET again == mailer[w].read + 1 < MaxMails
        new == IF again THEN [letter EXCEPT !.status = "RETRY_SCHEDULED", !.retry = TRUE]
                        ELSE [letter EXCEPT !.status = "FAILED", !.failed = TRUE]
    IN /\ At(w, "failed")
       /\ \/ /\ Lifecycle(new) /\ letter' = new
             /\ Ends(w, IF again THEN "open" ELSE "dead")
          \/ ~Lifecycle(new) /\ UNCHANGED letter /\ Ends(w, "dead")
       /\ UNCHANGED <<wanted, copies>>

-------------------------------------------------------------------------------
\* A worker dies, or loses the database; the event is delivered again.
Die(w) ==
    /\ ~At(w, "idle")
    /\ mailer' = [mailer EXCEPT ![w] = Idle]
    /\ UNCHANGED <<event, wanted, letter, copies>>

\* The customer turns the e-mails off or on, or the order moves on.
Reconsider ==
    /\ wanted' = ~wanted
    /\ UNCHANGED <<event, letter, mailer, copies>>

MailNext ==
    \/ \E w \in Mailers :
          Deliver(w) \/ Suppress(w) \/ Record(w) \/ Claim(w) \/ Post(w) \/ Finish(w)
          \/ Fail(w) \/ Die(w)
    \/ Reconsider

MailSpec == MailInit /\ [][MailNext]_mailVars

-------------------------------------------------------------------------------
(* What is promised about an order e-mail                                   *)

\* However often workers crash after the mail server took the letter, and
\* however many of them send it at once, the customer gets it no more often than
\* attempts are allowed, and once more for each other worker that had read the
\* row before the last of them was counted.
CopiesAreLimited ==
    /\ copies <= letter.attempts
    /\ letter.attempts < MaxMails + Cardinality(Mailers)
==============================================================================
