---------------------------- MODULE ProofOfPayment ----------------------------
(***************************************************************************)
(* Proofs of payment: a customer sends a file or a reference under an      *)
(* idempotency key; the API takes the key, stores and scans the file, and  *)
(* then submits the proof in one transaction.  Invoices are made on demand *)
(* and are stored the same way.                                            *)
(*                                                                         *)
(* Each of these is a separate statement or call to the object store, and  *)
(* the process may die between any two of them; other attempts, the lock   *)
(* of the key running out and the manager's changes come in between.       *)
(*                                                                         *)
(* Abstracted: reference and comment are part of what the file stands for; *)
(* of what is printed on an invoice, only the deadline of the reservation  *)
(* can change, and only that is kept;                                      *)
(* the life of the order and of its payment (module OrderFulfilment) shows *)
(* here as a version that moves and a moment after which nothing may be    *)
(* submitted.  An update of the database either takes effect or is seen to *)
(* fail.                                                                   *)
(***************************************************************************)
EXTENDS Integers, FiniteSets

CONSTANTS
    Keys,        \* idempotency keys
    NoKey,       \* no key: an invoice is asked for
    Files,       \* files that customers send
    NoFile,      \* a reference and no file
    Invoice,     \* the rendered invoice
    Documents,   \* rows of payment documents
    NoDocument,  \* no document
    Attempts,    \* requests being handled
    MaxPayment,  \* bound: versions of the payment
    MaxDeadline  \* bound: deadlines of the reservation, in their order

ASSUME ProofNamesAssumption == /\ NoKey \notin Keys
                               /\ NoFile \notin Files
                               /\ Invoice \notin Files \cup {NoFile}
                               /\ NoDocument \notin Documents
ASSUME ProofBoundsAssumption == /\ MaxPayment \in Nat \ {0}
                                /\ MaxDeadline \in Nat \ {0}

VARIABLES
    payment,    \* version of the payment, whether a proof may be submitted, and
                \* how long the goods are held
    key,        \* idempotency records
    document,   \* rows of payment documents, and whether their object is stored
    attempt,    \* what each request in progress has read
    submitted   \* proofs accepted (the rows of the audit log)

proofVars == <<payment, key, document, attempt, submitted>>

-------------------------------------------------------------------------------
Payment == [version : 1..MaxPayment, open : BOOLEAN, until : 1..MaxDeadline]

\* A request is told from another by its payload: the version it expects, and
\* what it sends.  result is the stored answer: the version it made.
KeyRecord == [state : {"none", "running", "failed", "completed"}, locked : BOOLEAN,
           file : Files \cup {NoFile}, expected : 0..MaxPayment, result : 0..MaxPayment]

\* says: the deadline that an invoice is printed with.
Document == [state : {"none", "pending", "available", "failed"},
             file : Files \cup {NoFile, Invoice}, object : BOOLEAN, says : 0..MaxDeadline]

\* checked: may be submitted; held: has the key; invoice, new: no document was
\* found; row, put: the row, the object is there; infected, removed: the scanner
\* refused the file; undo, undone: cleans up after a failure; stored: has its
\* document; failing: gives the key up; answered: has its result.
Stage == {"idle", "checked", "held", "invoice", "new", "row", "put", "infected", "removed",
          "undo", "undone", "stored", "failing", "answered"}
Attempt == [stage : Stage, key : Keys \cup {NoKey}, file : Files \cup {NoFile, Invoice},
            expected : 0..MaxPayment, document : Documents \cup {NoDocument},
            result : 0..MaxPayment, says : 0..MaxDeadline]

\* expected is the version of the payment that the customer saw.
Submission == [key : Keys, file : Files \cup {NoFile}, expected : 0..MaxPayment,
               version : 0..MaxPayment, document : Documents \cup {NoDocument}]

ProofTypeOK ==
    /\ payment \in Payment
    /\ key \in [Keys -> KeyRecord]
    /\ document \in [Documents -> Document]
    /\ attempt \in [Attempts -> Attempt]
    /\ submitted \subseteq Submission

NoAttempt == [stage |-> "idle", key |-> NoKey, file |-> NoFile, expected |-> 0,
              document |-> NoDocument, result |-> 0, says |-> 0]

ProofInit ==
    /\ payment = [version |-> 1, open |-> TRUE, until |-> 1]
    /\ key = [k \in Keys |-> [state |-> "none", locked |-> FALSE, file |-> NoFile,
                              expected |-> 0, result |-> 0]]
    /\ document = [d \in Documents |-> [state |-> "none", file |-> NoFile, object |-> FALSE,
                                        says |-> 0]]
    /\ attempt = [a \in Attempts |-> NoAttempt]
    /\ submitted = {}

-------------------------------------------------------------------------------
AtStage(a, stage) == attempt[a].stage = stage
Moves(a, stage) == attempt' = [attempt EXCEPT ![a].stage = stage]
Finds(a, stage, d) ==
    attempt' = [attempt EXCEPT ![a] = [attempt[a] EXCEPT !.stage = stage, !.document = d]]

\* The customer's page sends what it shows, under a key that it keeps until an
\* answer is good or another file is chosen.
CheckProof(a, k, f) ==
    /\ AtStage(a, "idle") /\ payment.open
    /\ attempt' = [attempt EXCEPT ![a] = [NoAttempt EXCEPT !.stage = "checked", !.key = k,
                                             !.file = f, !.expected = payment.version]]
    /\ UNCHANGED <<payment, key, document, submitted>>

SameRequest(a, k) == /\ key[k].file = attempt[a].file
                     /\ key[k].expected = attempt[a].expected

\* Takes a new key, or one whose holder has not been heard of for five minutes.
AcquireKey(a) ==
    LET k == attempt[a].key
    IN /\ AtStage(a, "checked")
       /\ \/ key[k].state = "none"
          \/ key[k].state = "running" /\ SameRequest(a, k) /\ ~key[k].locked
       /\ key' = [key EXCEPT ![k] = [state |-> "running", locked |-> TRUE,
                                     file |-> attempt[a].file,
                                     expected |-> attempt[a].expected, result |-> 0]]
       /\ Moves(a, IF attempt[a].file = NoFile THEN "stored" ELSE "held")
       /\ UNCHANGED <<payment, document, submitted>>

\* The same request was completed before: its answer is given again.
Replay(a) ==
    LET k == attempt[a].key
    IN /\ AtStage(a, "checked") /\ key[k].state = "completed" /\ SameRequest(a, k)
       /\ attempt' = [attempt EXCEPT ![a] = [attempt[a] EXCEPT !.stage = "answered",
                                                               !.result = key[k].result]]
       /\ UNCHANGED <<payment, key, document, submitted>>

LockEnds(k) ==
    /\ key[k].state = "running" /\ key[k].locked
    /\ key' = [key EXCEPT ![k].locked = FALSE]
    /\ UNCHANGED <<payment, document, attempt, submitted>>

\* The attempt is refused and does nothing more, is done, or its process dies.
Leaves(a) ==
    /\ ~AtStage(a, "idle")
    /\ attempt' = [attempt EXCEPT ![a] = NoAttempt]
    /\ UNCHANGED <<payment, key, document, submitted>>

-------------------------------------------------------------------------------
\* Documents of the file that have not failed.
Stored(f) == {d \in Documents : document[d].file = f /\ document[d].state \in {"pending", "available"}}

\* A document of the same file is used again only when it is available; one that
\* is on its way, or was left behind by a crash, is not.
Slip_OnItsWay(d) == document[d].state # "failed"
Reusable(d) == document[d].state = "available"

FindDocument(a) ==
    /\ AtStage(a, "held")
    /\ \/ Stored(attempt[a].file) = {} /\ Moves(a, "new")
       \/ \E d \in Stored(attempt[a].file) : IF Reusable(d) THEN Finds(a, "stored", d)
                                                           ELSE Moves(a, "failing")
    /\ UNCHANGED <<payment, key, document, submitted>>

\* Any file may turn out to be empty, too large, or not what it says it is.
FileRefused(a) ==
    /\ AtStage(a, "held")
    /\ Moves(a, "failing")
    /\ UNCHANGED <<payment, key, document, submitted>>

\* What an invoice is printed with, from the order as it was read.
Rendered == payment.until

\* The newest invoice is sent, whatever has changed since it was rendered;
\* without one, a new invoice is rendered, ...
AskForInvoice(a) ==
    /\ AtStage(a, "idle") /\ payment.open
    /\ LET asks == [NoAttempt EXCEPT !.file = Invoice]
           made == {d \in Documents : document[d].file = Invoice /\ document[d].state = "available"}
       IN \/ /\ made = {}
             /\ attempt' = [attempt EXCEPT ![a] = [asks EXCEPT !.stage = "invoice",
                                                               !.says = Rendered]]
          \/ \E d \in made :
                attempt' = [attempt EXCEPT ![a] = [asks EXCEPT !.stage = "answered", !.document = d]]
    /\ UNCHANGED <<payment, key, document, submitted>>

\* ... and stored, unless the very same one has been stored by now.
FindInvoice(a) ==
    /\ AtStage(a, "invoice")
    /\ \/ Moves(a, "new")
       \/ \E d \in Stored(Invoice) : /\ Reusable(d) /\ document[d].says = attempt[a].says
                                      /\ Finds(a, "answered", d)
    /\ UNCHANGED <<payment, key, document, submitted>>

\* The database keeps one invoice for a payment that has not failed.
CreateRow(a, d) ==
    /\ AtStage(a, "new") /\ document[d].state = "none"
    /\ attempt[a].file = Invoice => Stored(Invoice) = {}
    /\ document' = [document EXCEPT ![d] = [state |-> "pending", file |-> attempt[a].file,
                                            object |-> FALSE, says |-> attempt[a].says]]
    /\ Finds(a, "row", d)
    /\ UNCHANGED <<payment, key, submitted>>

\* There is such an invoice, or the payment has been confirmed.
RowRefused(a) ==
    /\ AtStage(a, "new") /\ (attempt[a].file = Invoice \/ ~payment.open)
    /\ Moves(a, "failing")
    /\ UNCHANGED <<payment, key, document, submitted>>

\* A failed call may have stored the object all the same.
PutObject(a) ==
    /\ AtStage(a, "row")
    /\ \/ Moves(a, "put") /\ document' = [document EXCEPT ![attempt[a].document].object = TRUE]
       \/ \E stored \in BOOLEAN :
             /\ Moves(a, "undo")
             /\ document' = [document EXCEPT ![attempt[a].document].object = stored]
    /\ UNCHANGED <<payment, key, submitted>>

\* The scanner has nothing against the file; an invoice is not scanned.
MarkAvailable(a) ==
    /\ AtStage(a, "put")
    /\ document' = [document EXCEPT ![attempt[a].document].state = "available"]
    /\ Moves(a, IF attempt[a].file = Invoice THEN "answered" ELSE "stored")
    /\ UNCHANGED <<payment, key, submitted>>

\* The scanner finds something, or it fails, or the database does.
ScanFails(a) ==
    /\ AtStage(a, "put")
    /\ \/ Moves(a, "undo")
       \/ attempt[a].file # Invoice /\ Moves(a, "infected")
    /\ UNCHANGED <<payment, key, document, submitted>>

\* The object goes first and the row is marked after it.  Where removing fails,
\* an infected file is cleaned up as after a failure; there, the row stays as it is.
RemoveObject(a) ==
    /\ \/ /\ AtStage(a, "infected") /\ Moves(a, "removed")
          /\ document' = [document EXCEPT ![attempt[a].document].object = FALSE]
       \/ AtStage(a, "infected") /\ Moves(a, "undo") /\ UNCHANGED document
       \/ /\ AtStage(a, "undo") /\ Moves(a, "undone")
          /\ document' = [document EXCEPT ![attempt[a].document].object = FALSE]
       \/ AtStage(a, "undo") /\ Moves(a, "failing") /\ UNCHANGED document
    /\ UNCHANGED <<payment, key, submitted>>

\* The row of a proof says "scan failed" without the time of a scan, which the
\* database refuses (payment_documents_scan_lifecycle): it stays pending.
MarkFailed(a) ==
    /\ AtStage(a, "removed") \/ AtStage(a, "undone")
    /\ document' = IF AtStage(a, "removed") \/ attempt[a].file = Invoice
                   THEN [document EXCEPT ![attempt[a].document].state = "failed"]
                   ELSE document
    /\ Moves(a, "failing")
    /\ UNCHANGED <<payment, key, submitted>>

-------------------------------------------------------------------------------
\* The transaction of a proof reads the payment again.
Slip_CheckedBefore(a) == payment.open
StillExpected(a) == payment.open /\ payment.version = attempt[a].expected

SubmitProof(a) ==
    LET k == attempt[a].key
        v == payment.version + 1
    IN /\ AtStage(a, "stored") /\ StillExpected(a) /\ v <= MaxPayment
       /\ payment' = [payment EXCEPT !.version = v]
       /\ submitted' = submitted \cup {[key |-> k, file |-> attempt[a].file,
                                        expected |-> attempt[a].expected, version |-> v,
                                        document |-> attempt[a].document]}
       /\ key' = [key EXCEPT ![k] = [state |-> "completed", locked |-> FALSE,
                                     file |-> key[k].file, expected |-> key[k].expected,
                                     result |-> v]]
       /\ attempt' = [attempt EXCEPT ![a] = [attempt[a] EXCEPT !.stage = "answered",
                                                               !.result = v]]
       /\ UNCHANGED document

\* The transaction refuses the proof, or fails.
SubmitFails(a) ==
    /\ AtStage(a, "stored") /\ Moves(a, "failing")
    /\ UNCHANGED <<payment, key, document, submitted>>

\* A key that was completed meanwhile stays completed.
FailKey(a) ==
    LET k == attempt[a].key
    IN /\ AtStage(a, "failing") /\ attempt[a].file # Invoice
       /\ key' = IF key[k].state = "running" /\ SameRequest(a, k)
                 THEN [key EXCEPT ![k] = [key[k] EXCEPT !.state = "failed", !.locked = FALSE]]
                 ELSE key
       /\ attempt' = [attempt EXCEPT ![a] = NoAttempt]
       /\ UNCHANGED <<payment, document, submitted>>

\* The manager handles the payment, or the order comes to its end.
OthersChange(open) ==
    /\ payment.open /\ payment.version < MaxPayment
    /\ payment' = [payment EXCEPT !.version = @ + 1, !.open = open]
    /\ UNCHANGED <<key, document, attempt, submitted>>

\* 1C extends the reservation: to a later deadline, and never afterwards.
ExtendReservation(until) ==
    /\ payment.open /\ until > payment.until
    /\ payment' = [payment EXCEPT !.until = until]
    /\ UNCHANGED <<key, document, attempt, submitted>>

-------------------------------------------------------------------------------
Submitting ==
    \/ \E a \in Attempts, k \in Keys, f \in Files \cup {NoFile} : CheckProof(a, k, f)
    \/ \E a \in Attempts : AcquireKey(a) \/ Replay(a) \/ Leaves(a)
                             \/ SubmitProof(a) \/ SubmitFails(a) \/ FailKey(a)
    \/ \E k \in Keys : LockEnds(k)
    \/ \E open \in BOOLEAN : OthersChange(open)
    \/ \E until \in 1..MaxDeadline : ExtendReservation(until)

Storing ==
    \/ \E a \in Attempts, d \in Documents : CreateRow(a, d)
    \/ \E a \in Attempts : \/ FindDocument(a) \/ FileRefused(a) \/ AskForInvoice(a) \/ FindInvoice(a)
                           \/ RowRefused(a) \/ PutObject(a) \/ MarkAvailable(a)
                           \/ ScanFails(a) \/ RemoveObject(a) \/ MarkFailed(a)

ProofNext == Submitting \/ Storing

ProofSpec == ProofInit /\ [][ProofNext]_proofVars
==============================================================================
