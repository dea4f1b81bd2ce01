------------------------------ MODULE EdgesProofs ------------------------------
(***************************************************************************)
(* Theorems about components at the edges of the system, each for every    *)
(* value of its constants: proofs of payment and invoices, order e-mails,  *)
(* the feed of orders, the search box, the demo data, signed requests.     *)
(***************************************************************************)
EXTENDS OneCTransportProperties, OrderMails, OrderFeed, SearchBoxProperties,
        ProofOfPaymentProperties, DemoOrders, SumTheorems

-------------------------------------------------------------------------------
(* Proofs of payment: the inductive invariant.                             *)

\* Stages at which a request has a document of its own on its way.
Owning == {"row", "put", "infected", "removed", "undo", "undone"}

\* A document that can be opened and shows what f stands for.
Opens(d, f, documents) ==
    d \in Documents /\ documents[d].state = "available" /\ documents[d].file = f

\* What holds of a request in progress: whoever asks for an invoice has no key,
\* whoever has got hold of a key sent what is kept under it, a document on its way
\* is the request's own, and one that is used was found or made available.
AttemptOK(x, keys, documents, until) ==
    x.stage # "idle" =>
        /\ x.key = NoKey => /\ x.file = Invoice
                            /\ x.says <= until
                            /\ x.stage \in Owning \cup {"invoice", "new", "failing", "answered"}
        /\ x.key # NoKey => x.file # Invoice /\ x.says = 0 /\ x.stage # "invoice"
        /\ (x.key # NoKey /\ x.stage # "checked")
              => /\ keys[x.key].state # "none"
                 /\ keys[x.key].file = x.file /\ keys[x.key].expected = x.expected
        /\ (x.key # NoKey /\ x.stage = "answered")
              => keys[x.key].state = "completed" /\ keys[x.key].result = x.result
        /\ x.stage \in Owning => /\ x.document \in Documents
                                 /\ documents[x.document].state = "pending"
                                 /\ documents[x.document].file = x.file
                                 /\ documents[x.document].says = x.says
        /\ x.stage = "put" => documents[x.document].object
        /\ (x.stage = "stored" /\ x.file # NoFile) => Opens(x.document, x.file, documents)
        /\ (x.stage = "answered" /\ x.key = NoKey) => Opens(x.document, Invoice, documents)

\* No two requests work on the upload of one document.
OwnersDiffer ==
    \A a, b \in Attempts :
        (/\ attempt[a].stage \in Owning /\ attempt[b].stage \in Owning
         /\ attempt[a].document = attempt[b].document) => a = b

\* A row that says available has its object, and promises no more than holds.
DocumentOK(y, until) ==
    /\ y.state = "available" => y.object
    /\ y.file # Invoice => y.says = 0
    /\ y.says <= until

\* A key that is completed is the key of an accepted proof.
KeyOK(k) ==
    key[k].state = "completed" => \E x \in submitted : /\ x.key = k /\ x.version = key[k].result
                                                       /\ x.file = key[k].file

\* An accepted proof completed its key at an earlier version of the payment, and
\* its file can be opened.
SubmissionOK(x) ==
    /\ key[x.key].state = "completed" /\ key[x.key].expected = x.expected
    /\ x.expected < payment.version
    /\ x.file # NoFile => Opens(x.document, x.file, document)

\* A key, and a version of the payment, is used by one accepted proof.
OneProofEach == \A x, y \in submitted : (x.key = y.key \/ x.expected = y.expected) => x = y

\* The inductive invariant of proofs and invoices.
ProofInv ==
    /\ ProofTypeOK
    /\ \A a \in Attempts : AttemptOK(attempt[a], key, document, payment.until)
    /\ OwnersDiffer
    /\ \A d \in Documents : DocumentOK(document[d], payment.until)
    /\ \A k \in Keys : KeyOK(k)
    /\ \A x \in submitted : SubmissionOK(x)
    /\ OneProofEach

\* Nothing was sent, stored or submitted.
LEMMA ProofInitInv == ProofInit => ProofInv
  <1> SUFFICES ASSUME ProofInit PROVE ProofInv
    OBVIOUS
  <1>1. ProofTypeOK
    BY ProofBoundsAssumption
    DEF ProofInit, ProofTypeOK, Payment, KeyRecord, Document, Attempt, Stage, NoAttempt
  <1>2. /\ \A a \in Attempts : AttemptOK(attempt[a], key, document, payment.until)
        /\ OwnersDiffer
    BY DEF ProofInit, AttemptOK, OwnersDiffer, Owning, NoAttempt
  <1>3. \A d \in Documents : DocumentOK(document[d], payment.until)
    BY ProofBoundsAssumption DEF ProofInit, DocumentOK
  <1>4. /\ \A k \in Keys : KeyOK(k)
        /\ \A x \in submitted : SubmissionOK(x)
        /\ OneProofEach
    BY DEF ProofInit, KeyOK, OneProofEach
  <1>5. QED BY <1>1, <1>2, <1>3, <1>4 DEF ProofInv

-------------------------------------------------------------------------------
(* What a step may do without harm.                                        *)

\* A request moves on by itself.
LEMMA AttemptMoves ==
    ASSUME ProofInv, NEW a \in Attempts, NEW x \in Attempt,
           attempt' = [attempt EXCEPT ![a] = x],
           UNCHANGED <<payment, key, document, submitted>>,
           AttemptOK(x, key, document, payment.until),
           x.stage \in Owning => /\ attempt[a].stage \in Owning
                                 /\ attempt[a].document = x.document
    PROVE  ProofInv'
  <1>1. ProofTypeOK'
    BY DEF ProofInv, ProofTypeOK
  <1>2. \A b \in Attempts : attempt'[b] = IF b = a THEN x ELSE attempt[b]
    BY DEF ProofInv, ProofTypeOK
  <1>3. \A b \in Attempts : AttemptOK(attempt'[b], key', document', payment'.until)
    BY <1>2 DEF ProofInv
  <1>4. OwnersDiffer'
    BY <1>2 DEF ProofInv, OwnersDiffer
  <1>5. /\ \A d \in Documents : DocumentOK(document'[d], payment'.until)
        /\ \A k \in Keys : KeyOK(k)'
        /\ \A s \in submitted' : SubmissionOK(s)'
        /\ OneProofEach'
    BY DEF ProofInv, KeyOK, SubmissionOK, OneProofEach
  <1>6. QED BY <1>1, <1>3, <1>4, <1>5 DEF ProofInv

\* A request works on a document of its own that is not available yet.
LEMMA DocumentMoves ==
    ASSUME ProofInv, NEW a \in Attempts, NEW x \in Attempt, NEW d \in Documents, NEW y \in Document,
           attempt' = [attempt EXCEPT ![a] = x],
           document' = [document EXCEPT ![d] = y],
           UNCHANGED <<payment, key, submitted>>,
           document[d].state # "available",
           \A b \in Attempts \ {a} : attempt[b].stage \in Owning => attempt[b].document # d,
           AttemptOK(x, key, document', payment.until),
           x.stage \in Owning => x.document = d,
           DocumentOK(y, payment.until)
    PROVE  ProofInv'
  <1>1. ProofTypeOK'
    BY DEF ProofInv, ProofTypeOK
  <1>2. /\ \A b \in Attempts : attempt'[b] = IF b = a THEN x ELSE attempt[b]
        /\ \A e \in Documents : document'[e] = IF e = d THEN y ELSE document[e]
    BY DEF ProofInv, ProofTypeOK
  <1>3. ASSUME NEW e, NEW f, Opens(e, f, document) PROVE Opens(e, f, document')
    BY <1>2, <1>3 DEF Opens
  <1>4. ASSUME NEW b \in Attempts
        PROVE  AttemptOK(attempt'[b], key', document', payment'.until)
    <2>1. CASE b = a
      BY <1>2, <2>1
    <2>2. CASE b # a
      <3>1. attempt'[b] = attempt[b] /\ AttemptOK(attempt[b], key, document, payment.until)
        BY <1>2, <2>2 DEF ProofInv
      <3>2. attempt[b].stage \in Owning
               => document'[attempt[b].document] = document[attempt[b].document]
        BY <1>2, <2>2, <3>1 DEF AttemptOK, Owning
      <3>3. attempt[b].stage = "put" => attempt[b].stage \in Owning
        BY DEF Owning
      <3>4. QED BY <1>3, <3>1, <3>2, <3>3 DEF AttemptOK
    <2>3. QED BY <2>1, <2>2
  <1>5. OwnersDiffer'
    BY <1>2 DEF ProofInv, OwnersDiffer
  <1>6. \A e \in Documents : DocumentOK(document'[e], payment'.until)
    BY <1>2 DEF ProofInv
  <1>7. /\ \A k \in Keys : KeyOK(k)'
        /\ \A s \in submitted' : SubmissionOK(s)'
        /\ OneProofEach'
    BY <1>3 DEF ProofInv, KeyOK, SubmissionOK, OneProofEach
  <1>8. QED BY <1>1, <1>4, <1>5, <1>6, <1>7 DEF ProofInv

\* A key that is not completed changes hands: what was sent under it stays.
LEMMA KeyMoves ==
    ASSUME ProofInv, NEW k \in Keys, NEW y \in KeyRecord,
           key' = [key EXCEPT ![k] = y],
           UNCHANGED <<payment, document, submitted>>,
           key[k].state # "completed", y.state \notin {"none", "completed"},
           key[k].state # "none" => y.file = key[k].file /\ y.expected = key[k].expected,
           attempt' \in [Attempts -> Attempt],
           \A b \in Attempts : \/ attempt'[b] = attempt[b]
                               \/ /\ AttemptOK(attempt'[b], key', document, payment.until)
                                  /\ attempt'[b].stage \notin Owning
    PROVE  ProofInv'
  <1>1. ProofTypeOK'
    BY DEF ProofInv, ProofTypeOK
  <1>2. \A l \in Keys : key'[l] = IF l = k THEN y ELSE key[l]
    BY DEF ProofInv, ProofTypeOK
  <1>3. ASSUME NEW b \in Attempts
        PROVE  AttemptOK(attempt'[b], key', document', payment'.until)
    <2>1. CASE attempt'[b] = attempt[b]
      <3>1. AttemptOK(attempt[b], key, document, payment.until)
            /\ attempt[b].key \in Keys \cup {NoKey}
        BY DEF ProofInv, ProofTypeOK, Attempt
      <3>2. QED BY <1>2, <2>1, <3>1 DEF AttemptOK
    <2>2. QED BY <2>1
  <1>4. OwnersDiffer'
    BY DEF ProofInv, OwnersDiffer
  <1>5. /\ \A d \in Documents : DocumentOK(document'[d], payment'.until)
        /\ \A l \in Keys : KeyOK(l)'
        /\ OneProofEach'
    BY <1>2 DEF ProofInv, KeyOK, OneProofEach
  <1>6. \A s \in submitted' : SubmissionOK(s)'
    BY <1>2 DEF ProofInv, ProofTypeOK, Submission, SubmissionOK
  <1>7. QED BY <1>1, <1>3, <1>4, <1>5, <1>6 DEF ProofInv

\* What moving a request to another stage leaves as it is.
LEMMA Restaged ==
    ASSUME NEW x \in Attempt, NEW stage \in Stage, NEW y, y = [x EXCEPT !.stage = stage]
    PROVE  /\ y \in Attempt /\ y.stage = stage
           /\ y.key = x.key /\ y.file = x.file /\ y.expected = x.expected
           /\ y.document = x.document /\ y.result = x.result /\ y.says = x.says
  BY DEF Attempt

\* So with a document, or an answer, that it was given.
LEMMA GivenDocument ==
    ASSUME NEW x \in Attempt, NEW d \in Documents, NEW y, y = [x EXCEPT !.document = d]
    PROVE  /\ y \in Attempt /\ y.document = d
           /\ y.key = x.key /\ y.file = x.file /\ y.expected = x.expected
           /\ y.stage = x.stage /\ y.result = x.result /\ y.says = x.says
  BY DEF Attempt

\* The result of a request changes.
LEMMA GivenResult ==
    ASSUME NEW x \in Attempt, NEW v \in 0..MaxPayment, NEW y, y = [x EXCEPT !.result = v]
    PROVE  /\ y \in Attempt /\ y.result = v
           /\ y.key = x.key /\ y.file = x.file /\ y.expected = x.expected
           /\ y.stage = x.stage /\ y.document = x.document /\ y.says = x.says
  BY DEF Attempt

\* No request, and a request that has not read anything yet, are right.
LEMMA NoAttemptOK ==
    /\ NoAttempt \in Attempt /\ NoAttempt.stage = "idle" /\ "idle" \notin Owning
    /\ AttemptOK(NoAttempt, key', document, payment.until)
    /\ AttemptOK(NoAttempt, key, document, payment.until)
  BY ProofBoundsAssumption DEF NoAttempt, Attempt, Stage, Owning, AttemptOK

\* A request goes on to a stage that asks nothing new of it.
LEMMA StageMoves ==
    ASSUME ProofInv, NEW a \in Attempts, attempt[a].stage \notin {"idle", "checked"},
           NEW stage \in {"new", "failing", "infected", "undo"}, Moves(a, stage),
           stage \in {"infected", "undo"} => attempt[a].stage \in Owning,
           UNCHANGED <<payment, key, document, submitted>>
    PROVE  ProofInv'
  <1>1. attempt[a] \in Attempt /\ AttemptOK(attempt[a], key, document, payment.until)
    BY DEF ProofInv, ProofTypeOK
  <1>2. PICK x : x = [attempt[a] EXCEPT !.stage = stage]
    OBVIOUS
  <1>3. /\ x \in Attempt /\ x.stage = stage
        /\ x.key = attempt[a].key /\ x.file = attempt[a].file
        /\ x.expected = attempt[a].expected /\ x.document = attempt[a].document
        /\ x.result = attempt[a].result /\ x.says = attempt[a].says
    BY <1>1, <1>2, Restaged DEF Stage
  <1>4. attempt' = [attempt EXCEPT ![a] = x]
    BY <1>2 DEF Moves
  <1>5. AttemptOK(x, key, document, payment.until)
    BY <1>1, <1>3 DEF AttemptOK, Owning
  <1>6. x.stage \in Owning => attempt[a].stage \in Owning /\ attempt[a].document = x.document
    BY <1>3 DEF Owning
  <1>7. QED BY <1>3, <1>4, <1>5, <1>6, AttemptMoves

-------------------------------------------------------------------------------
(* The steps of a proof or an invoice, one by one.                         *)

\* The page of the customer sends a proof.
LEMMA CheckKeepsInv ==
    ASSUME ProofInv, NEW a \in Attempts, NEW k \in Keys, NEW f \in Files \cup {NoFile},
           CheckProof(a, k, f)
    PROVE  ProofInv'
  <1> DEFINE bare == [NoAttempt EXCEPT !.stage = "checked"]
             keyed == [bare EXCEPT !.key = k]
             filed == [keyed EXCEPT !.file = f]
             x == [filed EXCEPT !.expected = payment.version]
  <1>1. /\ UNCHANGED <<payment, key, document, submitted>>
        /\ attempt' = [attempt EXCEPT ![a] = x]
    BY NoAttemptOK DEF CheckProof, Attempt
  <1>2. payment.version \in 0..MaxPayment
    BY ProofBoundsAssumption DEF ProofInv, ProofTypeOK, Payment
  <1>3. bare \in Attempt /\ bare.stage = "checked" /\ bare.says = 0
    BY NoAttemptOK DEF NoAttempt, Attempt, Stage
  <1> HIDE DEF bare
  <1>4. keyed \in Attempt /\ keyed.stage = "checked" /\ keyed.says = 0 /\ keyed.key = k
    BY <1>3 DEF Attempt
  <1> HIDE DEF keyed
  <1>5. /\ filed \in Attempt /\ filed.stage = "checked" /\ filed.says = 0
        /\ filed.key = k /\ filed.file = f
    BY <1>4 DEF Attempt
  <1> HIDE DEF filed
  <1>6. x \in Attempt /\ x.stage = "checked" /\ x.says = 0 /\ x.key = k /\ x.file = f
    BY <1>2, <1>5 DEF Attempt
  <1> HIDE DEF x
  <1>7. AttemptOK(x, key, document, payment.until) /\ x.stage \notin Owning
    BY <1>6, ProofNamesAssumption DEF AttemptOK, Owning
  <1>8. QED BY <1>1, <1>6, <1>7, AttemptMoves

\* Leaving, and the answer of before.
LEMMA ReplayKeepsInv ==
    ASSUME ProofInv, NEW a \in Attempts, Leaves(a) \/ Replay(a)
    PROVE  ProofInv'
  <1>1. CASE Leaves(a)
    BY <1>1, NoAttemptOK, AttemptMoves DEF Leaves
  <1>2. CASE Replay(a)
    <2>1. attempt[a] \in Attempt /\ AttemptOK(attempt[a], key, document, payment.until)
      BY DEF ProofInv, ProofTypeOK
    <2>2. AtStage(a, "checked")
      BY <1>2 DEF Replay
    <2>3. attempt[a].key \in Keys
      BY <2>1, <2>2 DEF Attempt, AttemptOK, AtStage, Owning
    <2> DEFINE k == attempt[a].key
    <2>4. /\ key[k].state = "completed" /\ key[k].file = attempt[a].file
          /\ key[k].expected = attempt[a].expected /\ key[k].result \in 0..MaxPayment
          /\ attempt' = [attempt EXCEPT ![a] = [attempt[a] EXCEPT !.stage = "answered",
                                                                  !.result = key[k].result]]
          /\ UNCHANGED <<payment, key, document, submitted>>
      BY <1>2, <2>3 DEF Replay, SameRequest, ProofInv, ProofTypeOK, KeyRecord
    <2>5. PICK v \in 0..MaxPayment : v = key[k].result
      BY <2>4
    <2>6. PICK half : half = [attempt[a] EXCEPT !.stage = "answered"]
      OBVIOUS
    <2>7. PICK x : x = [half EXCEPT !.result = v]
      OBVIOUS
    <2>8. attempt' = [attempt EXCEPT ![a] = x]
      BY <2>1, <2>4, <2>5, <2>6, <2>7 DEF Attempt
    <2>9. /\ x \in Attempt /\ x.stage = "answered" /\ x.result = v
          /\ x.key = k /\ x.file = attempt[a].file
          /\ x.expected = attempt[a].expected /\ x.says = attempt[a].says
      <3>1. /\ half \in Attempt /\ half.stage = "answered"
            /\ half.key = k /\ half.file = attempt[a].file
            /\ half.expected = attempt[a].expected /\ half.says = attempt[a].says
        BY <2>1, <2>6, Restaged DEF Stage
      <3>2. QED BY <2>7, <3>1, GivenResult
    <2>10. AttemptOK(x, key, document, payment.until) /\ x.stage \notin Owning
      BY <2>1, <2>2, <2>3, <2>4, <2>5, <2>9, ProofNamesAssumption DEF AttemptOK, AtStage, Owning
    <2>11. QED BY <2>4, <2>8, <2>9, <2>10, AttemptMoves
  <1>3. QED BY <1>1, <1>2

\* A key is taken, its lock runs out, it is given up.
LEMMA AcquireKeepsInv ==
    ASSUME ProofInv, NEW a \in Attempts, AcquireKey(a)
    PROVE  ProofInv'
  <1>1. attempt[a] \in Attempt /\ AttemptOK(attempt[a], key, document, payment.until)
    BY DEF ProofInv, ProofTypeOK
  <1>2. AtStage(a, "checked")
    BY DEF AcquireKey
  <1>3. attempt[a].key \in Keys
    BY <1>1, <1>2 DEF Attempt, AttemptOK, AtStage, Owning
  <1> DEFINE k == attempt[a].key
             y == [state |-> "running", locked |-> TRUE, file |-> attempt[a].file,
                   expected |-> attempt[a].expected, result |-> 0]
             stage == IF attempt[a].file = NoFile THEN "stored" ELSE "held"
  <1>4. /\ key' = [key EXCEPT ![k] = y]
        /\ key[k].state \in {"none", "running"}
        /\ key[k].state = "running" => SameRequest(a, k)
        /\ Moves(a, stage)
        /\ UNCHANGED <<payment, document, submitted>>
    BY DEF AcquireKey
  <1>5. y \in KeyRecord
    <2>1. attempt[a].file # Invoice
      BY <1>1, <1>2, <1>3, ProofNamesAssumption DEF AttemptOK, AtStage
    <2>2. attempt[a].file \in Files \cup {NoFile} /\ attempt[a].expected \in 0..MaxPayment
      BY <1>1, <2>1 DEF Attempt
    <2>3. QED BY <2>2, ProofBoundsAssumption DEF KeyRecord
  <1>6. PICK x : x = [attempt[a] EXCEPT !.stage = stage]
    OBVIOUS
  <1>7. /\ x \in Attempt /\ x.stage = stage
        /\ x.key = k /\ x.file = attempt[a].file
        /\ x.expected = attempt[a].expected /\ x.document = attempt[a].document
        /\ x.result = attempt[a].result /\ x.says = attempt[a].says
    BY <1>1, <1>6, Restaged DEF Stage
  <1>8. attempt' = [attempt EXCEPT ![a] = x]
    BY <1>4, <1>6 DEF Moves
  <1>9. key'[k] = y
    BY <1>3, <1>4 DEF ProofInv, ProofTypeOK
  <1>10. AttemptOK(x, key', document, payment.until) /\ x.stage \notin Owning
    BY <1>1, <1>2, <1>3, <1>7, <1>9, ProofNamesAssumption DEF AttemptOK, AtStage, Owning
  <1>11. /\ attempt' \in [Attempts -> Attempt]
         /\ \A b \in Attempts : attempt'[b] = attempt[b] \/ attempt'[b] = x
    BY <1>7, <1>8 DEF ProofInv, ProofTypeOK
  <1>12. /\ key[k].state # "completed" /\ y.state \notin {"none", "completed"}
         /\ key[k].state # "none" => y.file = key[k].file /\ y.expected = key[k].expected
    BY <1>4 DEF SameRequest
  <1> HIDE DEF y
  <1>13. QED BY <1>3, <1>4, <1>5, <1>10, <1>11, <1>12, KeyMoves

\* The end of a lock keeps the invariant.
LEMMA LockEndsKeepsInv ==
    ASSUME ProofInv, NEW k \in Keys, LockEnds(k)
    PROVE  ProofInv'
  <1> DEFINE y == [key[k] EXCEPT !.locked = FALSE]
  <1>1. key[k] \in KeyRecord /\ key[k].state = "running"
        /\ key' = [key EXCEPT ![k] = y] /\ UNCHANGED <<payment, document, attempt, submitted>>
    BY DEF LockEnds, ProofInv, ProofTypeOK
  <1>2. /\ y \in KeyRecord /\ y.state = key[k].state
        /\ y.file = key[k].file /\ y.expected = key[k].expected
    BY <1>1 DEF KeyRecord
  <1> HIDE DEF y
  <1>3. attempt' \in [Attempts -> Attempt] /\ \A b \in Attempts : attempt'[b] = attempt[b]
    BY <1>1 DEF ProofInv, ProofTypeOK
  <1>4. QED BY <1>1, <1>2, <1>3, KeyMoves

\* Giving a key up keeps the invariant.
LEMMA FailKeyKeepsInv ==
    ASSUME ProofInv, NEW a \in Attempts, FailKey(a)
    PROVE  ProofInv'
  <1> DEFINE k == attempt[a].key
             half == [key[k] EXCEPT !.state = "failed"]
             y == [half EXCEPT !.locked = FALSE]
  <1>1. /\ AtStage(a, "failing") /\ attempt[a].file # Invoice
        /\ attempt' = [attempt EXCEPT ![a] = NoAttempt]
        /\ UNCHANGED <<payment, document, submitted>>
    BY DEF FailKey
  <1>2. attempt[a] \in Attempt /\ AttemptOK(attempt[a], key, document, payment.until)
    BY DEF ProofInv, ProofTypeOK
  <1>3. k \in Keys
    BY <1>1, <1>2 DEF Attempt, AttemptOK, AtStage
  <1>4. CASE key[k].state = "running" /\ SameRequest(a, k)
    <2>1. key[k] \in KeyRecord
      BY <1>3 DEF ProofInv, ProofTypeOK
    <2>2. key' = [key EXCEPT ![k] = y]
      BY <1>4, <2>1 DEF FailKey, KeyRecord
    <2>3. half \in KeyRecord /\ half.state = "failed" /\ half.file = key[k].file
          /\ half.expected = key[k].expected
      BY <2>1 DEF KeyRecord
    <2> HIDE DEF half
    <2>4. y \in KeyRecord /\ y.state = "failed" /\ y.file = key[k].file
          /\ y.expected = key[k].expected
      BY <2>3 DEF KeyRecord
    <2> HIDE DEF y
    <2>5. /\ attempt' \in [Attempts -> Attempt]
          /\ \A b \in Attempts : attempt'[b] = attempt[b] \/ attempt'[b] = NoAttempt
      BY <1>1, NoAttemptOK DEF ProofInv, ProofTypeOK
    <2>6. QED BY <1>1, <1>3, <1>4, <2>2, <2>4, <2>5, NoAttemptOK, KeyMoves
  <1>5. CASE ~(key[k].state = "running" /\ SameRequest(a, k))
    <2>1. UNCHANGED key
      BY <1>5 DEF FailKey
    <2>2. QED BY <1>1, <2>1, NoAttemptOK, AttemptMoves
  <1>6. QED BY <1>4, <1>5

\* What a request is after it moved on, or found a document.
LEMMA MovedOf ==
    ASSUME ProofInv, NEW a \in Attempts, NEW stage \in Stage, Moves(a, stage)
    PROVE  \E x \in Attempt :
              /\ attempt' = [attempt EXCEPT ![a] = x]
              /\ x.stage = stage
              /\ x.key = attempt[a].key /\ x.file = attempt[a].file
              /\ x.expected = attempt[a].expected /\ x.document = attempt[a].document
              /\ x.result = attempt[a].result /\ x.says = attempt[a].says
  <1>1. attempt[a] \in Attempt
    BY DEF ProofInv, ProofTypeOK
  <1>2. PICK x : x = [attempt[a] EXCEPT !.stage = stage]
    OBVIOUS
  <1>3. attempt' = [attempt EXCEPT ![a] = x]
    BY <1>2 DEF Moves
  <1>4. /\ x \in Attempt /\ x.stage = stage
        /\ x.key = attempt[a].key /\ x.file = attempt[a].file
        /\ x.expected = attempt[a].expected /\ x.document = attempt[a].document
        /\ x.result = attempt[a].result /\ x.says = attempt[a].says
    BY <1>1, <1>2, Restaged
  <1>5. QED BY <1>3, <1>4

\* The request that found a document is a request with that document.
LEMMA FoundOf ==
    ASSUME ProofInv, NEW a \in Attempts, NEW stage \in Stage, NEW d \in Documents,
           Finds(a, stage, d)
    PROVE  \E x \in Attempt :
              /\ attempt' = [attempt EXCEPT ![a] = x]
              /\ x.stage = stage /\ x.document = d
              /\ x.key = attempt[a].key /\ x.file = attempt[a].file
              /\ x.expected = attempt[a].expected
              /\ x.result = attempt[a].result /\ x.says = attempt[a].says
  <1>1. attempt[a] \in Attempt
    BY DEF ProofInv, ProofTypeOK
  <1>2. PICK half : half = [attempt[a] EXCEPT !.stage = stage]
    OBVIOUS
  <1>3. PICK x : x = [half EXCEPT !.document = d]
    OBVIOUS
  <1>4. attempt' = [attempt EXCEPT ![a] = x]
    BY <1>1, <1>2, <1>3 DEF Finds, Attempt
  <1>5. /\ half \in Attempt /\ half.stage = stage
        /\ half.key = attempt[a].key /\ half.file = attempt[a].file
        /\ half.expected = attempt[a].expected
        /\ half.result = attempt[a].result /\ half.says = attempt[a].says
    BY <1>1, <1>2, Restaged
  <1>6. /\ x \in Attempt /\ x.document = d
        /\ x.key = half.key /\ x.file = half.file /\ x.expected = half.expected
        /\ x.stage = half.stage /\ x.result = half.result /\ x.says = half.says
    BY <1>3, <1>5, GivenDocument
  <1>7. QED BY <1>4, <1>5, <1>6

\* A request takes over a document that is available.
LEMMA FindingKeepsInv ==
    ASSUME ProofInv, NEW a \in Attempts, NEW d \in Documents, NEW stage \in {"stored", "answered"},
           Finds(a, stage, d), attempt[a].stage \in {"held", "invoice"},
           stage = (IF attempt[a].stage = "held" THEN "stored" ELSE "answered"),
           Opens(d, attempt[a].file, document),
           UNCHANGED <<payment, key, document, submitted>>
    PROVE  ProofInv'
  <1>1. attempt[a] \in Attempt /\ AttemptOK(attempt[a], key, document, payment.until)
    BY DEF ProofInv, ProofTypeOK
  <1>2. PICK x \in Attempt :
           /\ attempt' = [attempt EXCEPT ![a] = x]
           /\ x.stage = stage /\ x.document = d
           /\ x.key = attempt[a].key /\ x.file = attempt[a].file
           /\ x.expected = attempt[a].expected
           /\ x.result = attempt[a].result /\ x.says = attempt[a].says
    BY FoundOf DEF Stage
  <1>3. AttemptOK(x, key, document, payment.until) /\ x.stage \notin Owning
    BY <1>1, <1>2 DEF AttemptOK, Owning
  <1>4. QED BY <1>2, <1>3, AttemptMoves

\* The look for a document that is there, and the refusals, keep the invariant.
LEMMA FindKeepsInv ==
    ASSUME ProofInv, NEW a \in Attempts,
           FindDocument(a) \/ FindInvoice(a) \/ FileRefused(a) \/ RowRefused(a) \/ SubmitFails(a)
    PROVE  ProofInv'
  <1>1. CASE FileRefused(a) \/ RowRefused(a) \/ SubmitFails(a)
    BY <1>1, StageMoves DEF FileRefused, RowRefused, SubmitFails, AtStage
  <1>2. CASE FindDocument(a)
    <2>1. /\ attempt[a].stage = "held"
          /\ UNCHANGED <<payment, key, document, submitted>>
          /\ \/ Moves(a, "new") \/ Moves(a, "failing")
             \/ \E d \in Stored(attempt[a].file) : Reusable(d) /\ Finds(a, "stored", d)
      BY <1>2 DEF FindDocument, AtStage
    <2>2. CASE Moves(a, "new") \/ Moves(a, "failing")
      BY <2>1, <2>2, StageMoves
    <2>3. CASE \E d \in Stored(attempt[a].file) : Reusable(d) /\ Finds(a, "stored", d)
      <3>1. PICK d \in Stored(attempt[a].file) : Reusable(d) /\ Finds(a, "stored", d)
        BY <2>3
      <3>2. Opens(d, attempt[a].file, document)
        BY <3>1 DEF Stored, Reusable, Opens
      <3>3. QED BY <2>1, <3>1, <3>2, FindingKeepsInv DEF Opens
    <2>4. QED BY <2>1, <2>2, <2>3
  <1>3. CASE FindInvoice(a)
    <2>1. /\ attempt[a].stage = "invoice"
          /\ UNCHANGED <<payment, key, document, submitted>>
          /\ \/ Moves(a, "new")
             \/ \E d \in Stored(Invoice) : Reusable(d) /\ Finds(a, "answered", d)
      BY <1>3 DEF FindInvoice, AtStage
    <2>2. CASE Moves(a, "new")
      BY <2>1, <2>2, StageMoves
    <2>3. CASE \E d \in Stored(Invoice) : Reusable(d) /\ Finds(a, "answered", d)
      <3>1. PICK d \in Stored(Invoice) : Reusable(d) /\ Finds(a, "answered", d)
        BY <2>3
      <3>2. attempt[a].file = Invoice
        BY <2>1 DEF ProofInv, AttemptOK
      <3>3. Opens(d, attempt[a].file, document)
        BY <3>1, <3>2 DEF Stored, Reusable, Opens
      <3>4. QED BY <2>1, <3>1, <3>3, FindingKeepsInv DEF Opens
    <2>4. QED BY <2>1, <2>2, <2>3
  <1>4. QED BY <1>1, <1>2, <1>3

\* An invoice is asked for.
LEMMA AskKeepsInv ==
    ASSUME ProofInv, NEW a \in Attempts, AskForInvoice(a)
    PROVE  ProofInv'
  <1> DEFINE asks == [NoAttempt EXCEPT !.file = Invoice]
             made == {d \in Documents : document[d].file = Invoice /\ document[d].state = "available"}
  <1>1. /\ UNCHANGED <<payment, key, document, submitted>>
        /\ \/ attempt' = [attempt EXCEPT ![a] = [asks EXCEPT !.stage = "invoice", !.says = Rendered]]
           \/ \E d \in made :
                 attempt' = [attempt EXCEPT ![a] = [asks EXCEPT !.stage = "answered", !.document = d]]
    BY DEF AskForInvoice
  <1>2. asks \in Attempt /\ asks.file = Invoice /\ asks.key = NoKey
    BY ProofBoundsAssumption DEF NoAttempt, Attempt, Stage
  <1> HIDE DEF asks
  <1>3. CASE attempt' = [attempt EXCEPT ![a] = [asks EXCEPT !.stage = "invoice", !.says = Rendered]]
    <2>1. PICK half : half = [asks EXCEPT !.stage = "invoice"]
      OBVIOUS
    <2>2. PICK x : x = [half EXCEPT !.says = payment.until]
      OBVIOUS
    <2>3. attempt' = [attempt EXCEPT ![a] = x]
      BY <1>2, <1>3, <2>1, <2>2 DEF Attempt, Rendered
    <2>4. payment.until \in 0..MaxDeadline
      BY ProofBoundsAssumption DEF ProofInv, ProofTypeOK, Payment
    <2>5. half \in Attempt /\ half.stage = "invoice" /\ half.key = NoKey /\ half.file = Invoice
      BY <1>2, <2>1, Restaged DEF Stage
    <2>6. /\ x \in Attempt /\ x.stage = "invoice" /\ x.key = NoKey /\ x.file = Invoice
          /\ x.says = payment.until
      BY <2>2, <2>4, <2>5 DEF Attempt
    <2>7. AttemptOK(x, key, document, payment.until) /\ x.stage \notin Owning
      BY <2>4, <2>6 DEF AttemptOK, Owning
    <2>8. QED BY <1>1, <2>3, <2>6, <2>7, AttemptMoves
  <1>4. CASE \E d \in made :
                attempt' = [attempt EXCEPT ![a] = [asks EXCEPT !.stage = "answered", !.document = d]]
    <2>1. PICK d \in made :
             attempt' = [attempt EXCEPT ![a] = [asks EXCEPT !.stage = "answered", !.document = d]]
      BY <1>4
    <2>2. PICK half : half = [asks EXCEPT !.stage = "answered"]
      OBVIOUS
    <2>3. PICK x : x = [half EXCEPT !.document = d]
      OBVIOUS
    <2>4. attempt' = [attempt EXCEPT ![a] = x]
      BY <1>2, <2>1, <2>2, <2>3 DEF Attempt
    <2>5. /\ half \in Attempt /\ half.stage = "answered" /\ half.key = NoKey /\ half.file = Invoice
          /\ half.says = 0
      <3>1. asks.says = 0
        BY DEF asks, NoAttempt
      <3>2. QED BY <1>2, <2>2, <3>1, Restaged DEF Stage
    <2>6. /\ x \in Attempt /\ x.stage = "answered" /\ x.key = NoKey /\ x.file = Invoice
          /\ x.says = 0 /\ x.document = d
      BY <2>3, <2>5, GivenDocument
    <2>7. Opens(d, Invoice, document) /\ 0 <= payment.until
      BY ProofBoundsAssumption DEF Opens, ProofInv, ProofTypeOK, Payment
    <2>8. AttemptOK(x, key, document, payment.until) /\ x.stage \notin Owning
      BY <2>6, <2>7 DEF AttemptOK, Owning
    <2>9. QED BY <1>1, <2>4, <2>6, <2>8, AttemptMoves
  <1>5. QED BY <1>1, <1>3, <1>4

-------------------------------------------------------------------------------
(* The steps of a document.                                                *)

\* A row for it is made.
LEMMA CreateKeepsInv ==
    ASSUME ProofInv, NEW a \in Attempts, NEW d \in Documents, CreateRow(a, d)
    PROVE  ProofInv'
  <1> DEFINE y == [state |-> "pending", file |-> attempt[a].file, object |-> FALSE,
                   says |-> attempt[a].says]
  <1>1. /\ attempt[a].stage = "new" /\ document[d].state = "none"
        /\ document' = [document EXCEPT ![d] = y]
        /\ Finds(a, "row", d)
        /\ UNCHANGED <<payment, key, submitted>>
    BY DEF CreateRow, AtStage
  <1>2. attempt[a] \in Attempt /\ AttemptOK(attempt[a], key, document, payment.until)
    BY DEF ProofInv, ProofTypeOK
  <1>3. PICK x \in Attempt :
           /\ attempt' = [attempt EXCEPT ![a] = x]
           /\ x.stage = "row" /\ x.document = d
           /\ x.key = attempt[a].key /\ x.file = attempt[a].file
           /\ x.expected = attempt[a].expected
           /\ x.result = attempt[a].result /\ x.says = attempt[a].says
    BY <1>1, FoundOf DEF Stage
  <1>4. /\ y \in Document /\ y.state = "pending" /\ y.file = x.file /\ y.says = x.says
    BY <1>2, <1>3 DEF Attempt, Document
  <1>5. DocumentOK(y, payment.until)
    <2>1. payment.until \in Nat
      BY DEF ProofInv, ProofTypeOK, Payment
    <2>2. QED BY <1>1, <1>2, <1>3, <1>4, <2>1 DEF DocumentOK, AttemptOK
  <1> HIDE DEF y
  <1>6. document'[d] = y
    BY <1>1 DEF ProofInv, ProofTypeOK
  <1>7. AttemptOK(x, key, document', payment.until)
    BY <1>1, <1>2, <1>3, <1>4, <1>6 DEF AttemptOK, Owning
  <1>8. \A b \in Attempts \ {a} : attempt[b].stage \in Owning => attempt[b].document # d
    BY <1>1 DEF ProofInv, AttemptOK, Owning
  <1>9. QED BY <1>1, <1>3, <1>4, <1>5, <1>7, <1>8, DocumentMoves

\* A request changes its own document, and moves on.
LEMMA OwnDocumentMoves ==
    ASSUME ProofInv, NEW a \in Attempts, attempt[a].stage \in Owning,
           NEW y \in Document, NEW stage \in Stage,
           stage \in Owning \cup {"failing"} \/
              (y.state = "available" /\ stage = IF attempt[a].file = Invoice THEN "answered"
                                                                             ELSE "stored"),
           stage \in Owning => y.state = "pending",
           stage = "put" => y.object,
           document' = [document EXCEPT ![attempt[a].document] = y],
           Moves(a, stage),
           y.file = document[attempt[a].document].file,
           y.says = document[attempt[a].document].says,
           y.state = "available" => y.object,
           UNCHANGED <<payment, key, submitted>>
    PROVE  ProofInv'
  <1> DEFINE d == attempt[a].document
  <1>1. /\ attempt[a] \in Attempt /\ AttemptOK(attempt[a], key, document, payment.until)
        /\ d \in Documents /\ DocumentOK(document[d], payment.until)
        /\ document[d].state = "pending"
        /\ document[d].file = attempt[a].file /\ document[d].says = attempt[a].says
    BY DEF ProofInv, ProofTypeOK, AttemptOK, Owning
  <1>2. PICK x \in Attempt :
           /\ attempt' = [attempt EXCEPT ![a] = x]
           /\ x.stage = stage
           /\ x.key = attempt[a].key /\ x.file = attempt[a].file
           /\ x.expected = attempt[a].expected /\ x.document = d
           /\ x.result = attempt[a].result /\ x.says = attempt[a].says
    BY MovedOf
  <1>3. document'[d] = y
    BY <1>1 DEF ProofInv, ProofTypeOK
  <1>4. DocumentOK(y, payment.until)
    BY <1>1 DEF DocumentOK
  <1>5. AttemptOK(x, key, document', payment.until)
    BY <1>1, <1>2, <1>3 DEF AttemptOK, Owning, Opens
  <1>6. \A b \in Attempts \ {a} : attempt[b].stage \in Owning => attempt[b].document # d
    BY DEF ProofInv, OwnersDiffer
  <1>7. QED BY <1>1, <1>2, <1>4, <1>5, <1>6, DocumentMoves

\* The document of a request that has one on its way, with one field set anew.
LEMMA OwnDocument ==
    ASSUME ProofInv, NEW a \in Attempts, attempt[a].stage \in Owning
    PROVE  /\ attempt[a].document \in Documents
           /\ document[attempt[a].document] \in Document
           /\ document[attempt[a].document].state = "pending"
           /\ attempt[a].stage = "put" => document[attempt[a].document].object
  BY DEF ProofInv, ProofTypeOK, AttemptOK, Owning

\* The object of a document comes or goes.
LEMMA ObjectSet ==
    ASSUME NEW z \in Document, NEW object \in BOOLEAN, NEW y, y = [z EXCEPT !.object = object]
    PROVE  /\ y \in Document /\ (y.object <=> object)
           /\ y.state = z.state /\ y.file = z.file /\ y.says = z.says
  BY DEF Document

\* The row of a document says that the upload succeeded or failed.
LEMMA StateSet ==
    ASSUME NEW z \in Document, NEW state \in {"available", "failed"},
           NEW y, y = [z EXCEPT !.state = state]
    PROVE  /\ y \in Document /\ y.state = state
           /\ (y.object <=> z.object) /\ y.file = z.file /\ y.says = z.says
  BY DEF Document

\* The object is stored, or removed, or perhaps stored.
LEMMA ObjectMoves ==
    ASSUME ProofInv, NEW a \in Attempts, attempt[a].stage \in Owning,
           NEW object \in BOOLEAN, NEW stage \in Owning, Moves(a, stage),
           stage = "put" => object,
           document' = [document EXCEPT ![attempt[a].document].object = object],
           UNCHANGED <<payment, key, submitted>>
    PROVE  ProofInv'
  <1>1. PICK y : y = [document[attempt[a].document] EXCEPT !.object = object]
    OBVIOUS
  <1>2. document' = [document EXCEPT ![attempt[a].document] = y]
    BY <1>1
  <1>3. /\ y \in Document /\ (y.object <=> object) /\ y.state = "pending"
        /\ y.file = document[attempt[a].document].file
        /\ y.says = document[attempt[a].document].says
    BY <1>1, OwnDocument, ObjectSet
  <1>4. stage \in Stage
    BY DEF Owning, Stage
  <1>5. QED BY <1>2, <1>3, <1>4, OwnDocumentMoves

\* The row of a document is settled by the request that uploads it.
LEMMA StateMoves ==
    ASSUME ProofInv, NEW a \in Attempts, attempt[a].stage \in Owning,
           NEW state \in {"available", "failed"}, NEW stage \in {"answered", "stored", "failing"},
           Moves(a, stage),
           state = "available" =>
              /\ attempt[a].stage = "put"
              /\ stage = IF attempt[a].file = Invoice THEN "answered" ELSE "stored",
           state = "failed" => stage = "failing",
           document' = [document EXCEPT ![attempt[a].document].state = state],
           UNCHANGED <<payment, key, submitted>>
    PROVE  ProofInv'
  <1>1. PICK y : y = [document[attempt[a].document] EXCEPT !.state = state]
    OBVIOUS
  <1>2. document' = [document EXCEPT ![attempt[a].document] = y]
    BY <1>1
  <1>3. /\ y \in Document /\ y.state = state
        /\ (y.object <=> document[attempt[a].document].object)
        /\ y.file = document[attempt[a].document].file
        /\ y.says = document[attempt[a].document].says
    BY <1>1, OwnDocument, StateSet
  <1>4. stage \in Stage /\ stage \notin Owning
    BY DEF Owning, Stage
  <1>5. state = "available" => document[attempt[a].document].object
    BY OwnDocument
  <1>6. QED BY <1>2, <1>3, <1>4, <1>5, OwnDocumentMoves

\* Storing, scanning and cleaning up.
LEMMA StoringKeepsInv ==
    ASSUME ProofInv, NEW a \in Attempts,
           PutObject(a) \/ MarkAvailable(a) \/ ScanFails(a) \/ RemoveObject(a) \/ MarkFailed(a)
    PROVE  ProofInv'
  <1>1. CASE PutObject(a)
    <2>1. attempt[a].stage \in Owning /\ UNCHANGED <<payment, key, submitted>>
      BY <1>1 DEF PutObject, AtStage, Owning
    <2>2. CASE /\ Moves(a, "put")
               /\ document' = [document EXCEPT ![attempt[a].document].object = TRUE]
      BY <2>1, <2>2, ObjectMoves DEF Owning
    <2>3. ASSUME NEW stored \in BOOLEAN, Moves(a, "undo"),
                 document' = [document EXCEPT ![attempt[a].document].object = stored]
          PROVE  ProofInv'
      BY <2>1, <2>3, ObjectMoves DEF Owning
    <2>4. QED BY <1>1, <2>2, <2>3 DEF PutObject
  <1>2. CASE MarkAvailable(a)
    BY <1>2, StateMoves DEF MarkAvailable, AtStage, Owning
  <1>3. CASE ScanFails(a)
    BY <1>3, StageMoves DEF ScanFails, AtStage, Owning
  <1>4. CASE RemoveObject(a)
    <2>1. attempt[a].stage \in {"infected", "undo"} /\ UNCHANGED <<payment, key, submitted>>
      BY <1>4 DEF RemoveObject, AtStage
    <2>2. CASE /\ Moves(a, "removed") \/ Moves(a, "undone")
               /\ document' = [document EXCEPT ![attempt[a].document].object = FALSE]
      BY <2>1, <2>2, ObjectMoves DEF Owning
    <2>3. CASE (Moves(a, "undo") \/ Moves(a, "failing")) /\ UNCHANGED document
      BY <2>1, <2>3, StageMoves DEF Owning
    <2>4. QED BY <1>4, <2>2, <2>3 DEF RemoveObject
  <1>5. CASE MarkFailed(a)
    <2>1. /\ attempt[a].stage \in {"removed", "undone"} /\ Moves(a, "failing")
          /\ UNCHANGED <<payment, key, submitted>>
      BY <1>5 DEF MarkFailed, AtStage
    <2>2. CASE document' = [document EXCEPT ![attempt[a].document].state = "failed"]
      BY <2>1, <2>2, StateMoves DEF Owning
    <2>3. CASE UNCHANGED document
      BY <2>1, <2>3, StageMoves DEF Owning
    <2>4. QED BY <1>5, <2>2, <2>3 DEF MarkFailed
  <1>6. QED BY <1>1, <1>2, <1>3, <1>4, <1>5

-------------------------------------------------------------------------------
(* The steps of the payment.                                               *)

\* The proof is accepted: under no key and for no version was one before.
LEMMA SubmitKeepsInv ==
    ASSUME ProofInv, NEW a \in Attempts, SubmitProof(a)
    PROVE  ProofInv'
  <1> DEFINE k == attempt[a].key
             v == payment.version + 1
             s == [key |-> k, file |-> attempt[a].file, expected |-> attempt[a].expected,
                   version |-> v, document |-> attempt[a].document]
             y == [state |-> "completed", locked |-> FALSE,
                   file |-> key[k].file, expected |-> key[k].expected, result |-> v]
  <1>1. /\ attempt[a].stage = "stored"
        /\ payment.open /\ payment.version = attempt[a].expected
        /\ v <= MaxPayment
        /\ payment' = [payment EXCEPT !.version = v]
        /\ submitted' = submitted \cup {s}
        /\ key' = [key EXCEPT ![k] = y]
        /\ attempt' = [attempt EXCEPT ![a] = [attempt[a] EXCEPT !.stage = "answered", !.result = v]]
        /\ UNCHANGED document
    BY DEF SubmitProof, AtStage, StillExpected
  <1>2. /\ attempt[a] \in Attempt /\ AttemptOK(attempt[a], key, document, payment.until)
        /\ payment \in Payment
    BY DEF ProofInv, ProofTypeOK
  <1>3. /\ k \in Keys /\ attempt[a].file # Invoice
        /\ key[k].state # "none" /\ key[k].file = attempt[a].file
        /\ key[k].expected = attempt[a].expected
        /\ attempt[a].file # NoFile => Opens(attempt[a].document, attempt[a].file, document)
    BY <1>1, <1>2 DEF AttemptOK, Attempt, Owning
  <1>4. /\ v \in 0..MaxPayment
        /\ payment' \in Payment /\ payment'.version = v /\ payment'.until = payment.until
        /\ payment.version < v
    BY <1>1, <1>2, ProofBoundsAssumption DEF Payment
  <1>5. PICK half : half = [attempt[a] EXCEPT !.stage = "answered"]
    OBVIOUS
  <1>6. PICK x : x = [half EXCEPT !.result = v]
    OBVIOUS
  <1>7. attempt' = [attempt EXCEPT ![a] = x]
    BY <1>1, <1>2, <1>5, <1>6 DEF Attempt
  <1>8. /\ half \in Attempt /\ half.stage = "answered"
        /\ half.key = k /\ half.file = attempt[a].file
        /\ half.expected = attempt[a].expected /\ half.says = attempt[a].says
    BY <1>2, <1>5, Restaged DEF Stage
  <1>9. /\ x \in Attempt /\ x.stage = "answered" /\ x.result = v
        /\ x.key = k /\ x.file = attempt[a].file
        /\ x.expected = attempt[a].expected /\ x.says = attempt[a].says
    BY <1>4, <1>6, <1>8, GivenResult
  <1>10. y \in KeyRecord /\ s \in Submission
    BY <1>2, <1>3, <1>4 DEF KeyRecord, Submission, Attempt, ProofInv, ProofTypeOK
  <1>11. ASSUME NEW z \in submitted PROVE z.key # k /\ z.expected # attempt[a].expected
    <2>1. SubmissionOK(z) /\ z \in Submission
      BY DEF ProofInv, ProofTypeOK
    <2>2. z.expected < payment.version /\ payment.version \in Nat /\ z.expected \in Nat
      BY <1>2, <2>1 DEF SubmissionOK, Payment, Submission
    <2>3. QED BY <1>1, <1>3, <2>1, <2>2 DEF SubmissionOK
  <1>12. key[k].state # "completed"
    BY <1>3, <1>11 DEF ProofInv, KeyOK
  <1>13. \A l \in Keys : key'[l] = IF l = k THEN y ELSE key[l]
    BY <1>1 DEF ProofInv, ProofTypeOK
  <1>14. \A b \in Attempts : attempt'[b] = IF b = a THEN x ELSE attempt[b]
    BY <1>7 DEF ProofInv, ProofTypeOK
  <1>15. ProofTypeOK'
    BY <1>1, <1>4, <1>7, <1>9, <1>10 DEF ProofInv, ProofTypeOK
  <1>16. ASSUME NEW b \in Attempts
         PROVE  AttemptOK(attempt'[b], key', document', payment'.until)
    <2>1. CASE b = a
      <3>1. key'[k] = y /\ attempt'[b] = x
        BY <1>3, <1>13, <1>14, <2>1
      <3>2. x.says = 0 /\ x.key # NoKey
        BY <1>1, <1>2, <1>3, <1>9, ProofNamesAssumption DEF AttemptOK
      <3>3. QED BY <1>3, <1>9, <3>1, <3>2 DEF AttemptOK, Owning
    <2>2. CASE b # a
      <3>1. attempt'[b] = attempt[b] /\ AttemptOK(attempt[b], key, document, payment.until)
            /\ attempt[b].key \in Keys \cup {NoKey}
        BY <1>14, <2>2 DEF ProofInv, ProofTypeOK, Attempt
      <3>2. attempt[b].key # NoKey => \/ key'[attempt[b].key] = key[attempt[b].key]
                                      \/ attempt[b].key = k /\ key'[attempt[b].key] = y
        BY <1>13, <3>1
      <3>3. y.state = "completed" /\ y.file = key[k].file /\ y.expected = key[k].expected
        OBVIOUS
      <3>4. document' = document /\ payment'.until = payment.until
        BY <1>1, <1>4
      <3>5. CASE attempt[b].key = k /\ key'[attempt[b].key] = y
        <4> HIDE DEF y
        <4>1. (k # NoKey /\ attempt[b].stage # "answered") \/ attempt[b].stage = "idle"
          BY <1>3, <1>12, <3>1, <3>5, ProofNamesAssumption DEF AttemptOK
        <4>2. AttemptOK(attempt[b], key', document, payment.until)
          BY <3>1, <3>3, <3>5, <4>1 DEF AttemptOK
        <4>3. QED BY <3>1, <3>4, <4>2
      <3>6. CASE attempt[b].key # NoKey => key'[attempt[b].key] = key[attempt[b].key]
        <4>1. AttemptOK(attempt[b], key', document, payment.until)
          BY <3>1, <3>6 DEF AttemptOK
        <4>2. QED BY <3>1, <3>4, <4>1
      <3>7. QED BY <3>2, <3>5, <3>6
    <2>3. QED BY <2>1, <2>2
  <1>17. OwnersDiffer'
    BY <1>9, <1>14 DEF ProofInv, OwnersDiffer, Owning
  <1>18. \A d \in Documents : DocumentOK(document'[d], payment'.until)
    BY <1>1, <1>4 DEF ProofInv
  <1>19. ASSUME NEW l \in Keys PROVE KeyOK(l)'
    <2>1. CASE l = k
      <3>1. s \in submitted' /\ s.key = k /\ s.version = v /\ s.file = attempt[a].file
        BY <1>1
      <3>2. key'[l].result = v /\ key'[l].file = attempt[a].file
        BY <1>3, <1>13, <2>1
      <3>3. QED BY <2>1, <3>1, <3>2 DEF KeyOK
    <2>2. CASE l # k
      BY <1>1, <1>13, <2>2 DEF ProofInv, KeyOK
    <2>3. QED BY <2>1, <2>2
  <1>20. ASSUME NEW z \in submitted' PROVE SubmissionOK(z)'
    <2>1. CASE z \in submitted
      <3>1. SubmissionOK(z) /\ z \in Submission
        BY <2>1 DEF ProofInv, ProofTypeOK
      <3>2. key'[z.key] = key[z.key]
        BY <1>11, <1>13, <2>1, <3>1 DEF Submission
      <3>3. z.expected < v
        BY <1>2, <1>4, <3>1 DEF SubmissionOK, Payment, Submission
      <3>4. QED BY <1>1, <1>4, <3>1, <3>2, <3>3 DEF SubmissionOK
    <2>2. CASE z = s
      <3>1. key'[k] = y /\ y.state = "completed" /\ y.expected = attempt[a].expected
        BY <1>3, <1>13
      <3>2. s.key = k /\ s.expected = attempt[a].expected /\ s.file = attempt[a].file
            /\ s.document = attempt[a].document
        OBVIOUS
      <3>3. attempt[a].expected < v
        BY <1>1, <1>4
      <3> HIDE DEF s
      <3>4. QED BY <1>1, <1>3, <1>4, <2>2, <3>1, <3>2, <3>3 DEF SubmissionOK
    <2>3. QED BY <1>1, <2>1, <2>2
  <1>21. OneProofEach'
    BY <1>1, <1>11 DEF ProofInv, OneProofEach
  <1>22. QED BY <1>15, <1>16, <1>17, <1>18, <1>19, <1>20, <1>21 DEF ProofInv

\* The payment moves on without a proof, or the goods are held for longer.
LEMMA PaymentMoves ==
    ASSUME ProofInv, (\E open \in BOOLEAN : OthersChange(open))
                     \/ (\E until \in 1..MaxDeadline : ExtendReservation(until))
    PROVE  ProofInv'
  <1>1. /\ payment' \in Payment /\ payment \in Payment
        /\ payment.version <= payment'.version /\ payment.until <= payment'.until
        /\ UNCHANGED <<key, document, attempt, submitted>>
    <2>1. payment \in Payment
      BY DEF ProofInv, ProofTypeOK
    <2>2. ASSUME NEW open \in BOOLEAN, OthersChange(open)
          PROVE  payment' \in Payment /\ payment'.version = payment.version + 1
                 /\ payment'.until = payment.until
      <3>1. PICK half : half = [payment EXCEPT !.version = payment.version + 1]
        OBVIOUS
      <3>2. payment' = [half EXCEPT !.open = open]
        BY <2>1, <2>2, <3>1 DEF OthersChange, Payment
      <3>3. half \in Payment /\ half.version = payment.version + 1 /\ half.until = payment.until
        <4>1. payment.version + 1 \in 1..MaxPayment
          <5>1. payment.version < MaxPayment
            BY <2>2 DEF OthersChange
          <5>2. payment.version \in 1..MaxPayment
            BY <2>1 DEF Payment
          <5>3. QED BY <5>1, <5>2, ProofBoundsAssumption
        <4>2. QED BY <2>1, <3>1, <4>1 DEF Payment
      <3>4. QED BY <3>2, <3>3 DEF Payment
    <2>3. ASSUME NEW until \in 1..MaxDeadline, ExtendReservation(until)
          PROVE  payment' \in Payment /\ payment'.version = payment.version
                 /\ payment.until <= payment'.until
      <3>1. /\ until > payment.until /\ until \in 0..MaxDeadline
            /\ payment' = [payment EXCEPT !.until = until]
        BY <2>3, ProofBoundsAssumption DEF ExtendReservation
      <3>2. payment'.version = payment.version /\ payment'.until = until
        BY <2>1, <3>1 DEF Payment
      <3>3. payment.until \in Nat /\ until \in Nat
        BY <2>1, <3>1, ProofBoundsAssumption DEF Payment
      <3>4. QED BY <2>1, <3>1, <3>2, <3>3 DEF Payment
    <2>4. UNCHANGED <<key, document, attempt, submitted>>
      BY DEF OthersChange, ExtendReservation
    <2>5. payment.version \in Nat /\ payment.until \in Nat
      BY <2>1 DEF Payment
    <2>6. QED BY <2>1, <2>2, <2>3, <2>4, <2>5
  <1>2. ProofTypeOK' /\ OwnersDiffer' /\ OneProofEach' /\ \A k \in Keys : KeyOK(k)'
    BY <1>1 DEF ProofInv, ProofTypeOK, OwnersDiffer, OneProofEach, KeyOK
  <1>3. ASSUME NEW a \in Attempts PROVE AttemptOK(attempt'[a], key', document', payment'.until)
    <2>1. AttemptOK(attempt[a], key, document, payment.until) /\ attempt[a].says \in Nat
          /\ payment.until \in Nat /\ payment'.until \in Nat
      BY <1>1 DEF ProofInv, ProofTypeOK, Attempt, Payment
    <2>2. QED BY <1>1, <2>1 DEF AttemptOK
  <1>4. ASSUME NEW d \in Documents PROVE DocumentOK(document'[d], payment'.until)
    <2>1. DocumentOK(document[d], payment.until) /\ document[d].says \in Nat
          /\ payment.until \in Nat /\ payment'.until \in Nat
      BY <1>1 DEF ProofInv, ProofTypeOK, Document, Payment
    <2>2. QED BY <1>1, <2>1 DEF DocumentOK
  <1>5. ASSUME NEW x \in submitted' PROVE SubmissionOK(x)'
    <2>1. SubmissionOK(x) /\ x.expected \in Nat /\ payment.version \in Nat /\ payment'.version \in Nat
      BY <1>1 DEF ProofInv, ProofTypeOK, Submission, Payment
    <2>2. QED BY <1>1, <2>1 DEF SubmissionOK
  <1>6. QED BY <1>2, <1>3, <1>4, <1>5 DEF ProofInv

\* Every step keeps the invariant.
LEMMA ProofNextInv == ProofInv /\ [ProofNext]_proofVars => ProofInv'
  <1> SUFFICES ASSUME ProofInv, [ProofNext]_proofVars PROVE ProofInv'
    OBVIOUS
  <1>1. CASE Submitting
    BY <1>1, CheckKeepsInv, ReplayKeepsInv, AcquireKeepsInv, LockEndsKeepsInv, FailKeyKeepsInv,
       SubmitKeepsInv, FindKeepsInv, PaymentMoves DEF Submitting
  <1>2. CASE Storing
    BY <1>2, CreateKeepsInv, FindKeepsInv, AskKeepsInv, StoringKeepsInv DEF Storing
  <1>3. CASE UNCHANGED proofVars
    BY <1>3 DEF proofVars, ProofInv, ProofTypeOK, OwnersDiffer, KeyOK, SubmissionOK, OneProofEach
  <1>4. QED BY <1>1, <1>2, <1>3 DEF ProofNext

-------------------------------------------------------------------------------
(* Proofs of payment: the theorems.                                        *)

\* Payments, keys, documents and requests have their types.
THEOREM ProofTypeCorrect == ProofSpec => []ProofTypeOK
  <1>1. ProofInv => ProofTypeOK
    BY DEF ProofInv
  <1>2. QED BY <1>1, ProofInitInv, ProofNextInv, PTL DEF ProofSpec

\* One proof is accepted under a key and for a version of the payment, and every
\* request that is answered has the answer to that proof.
THEOREM ProofSubmittedOnce == ProofSpec => []ProofIsSubmittedOnce
  <1>1. ProofInv => ProofIsSubmittedOnce
    <2> SUFFICES ASSUME ProofInv PROVE ProofIsSubmittedOnce
      OBVIOUS
    <2>1. ASSUME NEW a \in Attempts, AtStage(a, "answered"), attempt[a].key # NoKey
          PROVE  \E x \in submitted : /\ x.key = attempt[a].key /\ x.version = attempt[a].result
                                      /\ x.file = attempt[a].file
      <3>1. attempt[a].key \in Keys /\ AttemptOK(attempt[a], key, document, payment.until)
        BY <2>1 DEF ProofInv, ProofTypeOK, Attempt
      <3>2. /\ key[attempt[a].key].state = "completed"
            /\ key[attempt[a].key].result = attempt[a].result
            /\ key[attempt[a].key].file = attempt[a].file
        BY <2>1, <3>1 DEF AttemptOK, AtStage
      <3>3. QED BY <3>1, <3>2 DEF ProofInv, KeyOK
    <2>2. QED BY <2>1 DEF ProofInv, OneProofEach, ProofIsSubmittedOnce
  <1>2. QED BY <1>1, ProofInitInv, ProofNextInv, PTL DEF ProofSpec

\* What was accepted, or sent as an invoice, can be opened, and no invoice says
\* that the goods are held for longer than they are.
THEOREM DocumentsSafe == ProofSpec => []DocumentsCanBeOpened
  <1>1. ProofInv => DocumentsCanBeOpened
    <2> SUFFICES ASSUME ProofInv PROVE DocumentsCanBeOpened
      OBVIOUS
    <2>1. ASSUME NEW d, NEW f, Opens(d, f, document)
          PROVE  document[d] = [state |-> "available", file |-> f, object |-> TRUE,
                                says |-> document[d].says]
      <3>1. document[d] \in Document /\ DocumentOK(document[d], payment.until)
            /\ document[d].state = "available" /\ document[d].file = f
        BY <2>1 DEF ProofInv, ProofTypeOK, Opens
      <3>2. document[d].object = TRUE
        BY <3>1 DEF DocumentOK, Document
      <3>3. QED BY <3>1, <3>2 DEF Document
    <2>2. ASSUME NEW x \in submitted, x.file # NoFile
          PROVE  /\ x.document # NoDocument
                 /\ document[x.document] = [state |-> "available", file |-> x.file,
                                            object |-> TRUE, says |-> 0]
      <3>1. Opens(x.document, x.file, document) /\ x.file # Invoice
        BY <2>2, ProofNamesAssumption DEF ProofInv, ProofTypeOK, Submission, SubmissionOK
      <3>2. document[x.document].says = 0
        BY <3>1 DEF ProofInv, DocumentOK, Opens
      <3>3. QED BY <2>1, <3>1, <3>2, ProofNamesAssumption DEF Opens
    <2>3. ASSUME NEW a \in Attempts, AtStage(a, "answered"), attempt[a].key = NoKey
          PROVE  Opens(attempt[a].document, Invoice, document)
      BY <2>3 DEF ProofInv, AttemptOK, AtStage
    <2>4. \A d \in Documents : document[d].says <= payment.until
      BY DEF ProofInv, DocumentOK
    <2>5. QED BY <2>1, <2>2, <2>3, <2>4 DEF DocumentsCanBeOpened
  <1>2. QED BY <1>1, ProofInitInv, ProofNextInv, PTL DEF ProofSpec

-------------------------------------------------------------------------------
(* Order e-mails.                                                          *)

\* Workers that have counted their attempt and not handed the letter over yet,
\* and workers that are about to count theirs.
Counted == {w \in Mailers : At(w, "send")}
Counting == {w \in Mailers : At(w, "claim")}

\* Each copy that went out or is about to was counted, and the workers about to
\* count read the row while an attempt was left.
MailInv ==
    /\ MailTypeOK
    /\ copies + Cardinality(Counted) <= letter.attempts
    /\ letter.attempts + Cardinality(Counting) < MaxMails + Cardinality(Mailers)

\* Workers can be counted.
LEMMA FewWorkers ==
    ASSUME NEW S \in SUBSET Mailers
    PROVE  /\ IsFiniteSet(S) /\ Cardinality(S) \in 0..Cardinality(Mailers)
           /\ Cardinality(Mailers) \in Nat
  <1>1. IsFiniteSet(S) /\ Cardinality(S) <= Cardinality(Mailers)
    BY MailersAssumption, FS_Subset
  <1>2. Cardinality(S) \in Nat /\ Cardinality(Mailers) \in Nat
    BY <1>1, MailersAssumption, FS_CardinalityType
  <1>3. QED BY <1>1, <1>2

\* What becomes of the two counts when a worker turns to another stage.
LEMMA WorkerTurns ==
    ASSUME MailTypeOK, NEW w \in Mailers, NEW m \in Mailer,
           mailer' = [mailer EXCEPT ![w] = m]
    PROVE  /\ Cardinality(Counted') =
                 Cardinality(Counted) - (IF At(w, "send") THEN 1 ELSE 0)
                                      + (IF m.stage = "send" THEN 1 ELSE 0)
           /\ Cardinality(Counting') =
                 Cardinality(Counting) - (IF At(w, "claim") THEN 1 ELSE 0)
                                       + (IF m.stage = "claim" THEN 1 ELSE 0)
  <1>1. \A v \in Mailers : mailer'[v] = IF v = w THEN m ELSE mailer[v]
    BY DEF MailTypeOK
  <1>2. /\ Counted' = IF m.stage = "send" THEN (Counted \ {w}) \cup {w} ELSE Counted \ {w}
        /\ Counting' = IF m.stage = "claim" THEN (Counting \ {w}) \cup {w} ELSE Counting \ {w}
    BY <1>1 DEF Counted, Counting, At
  <1>3. /\ w \in Counted <=> At(w, "send")
        /\ w \in Counting <=> At(w, "claim")
    BY DEF Counted, Counting
  <1>4. ASSUME NEW S, IsFiniteSet(S)
        PROVE  /\ Cardinality(S \ {w}) = Cardinality(S) - (IF w \in S THEN 1 ELSE 0)
               /\ Cardinality((S \ {w}) \cup {w}) = Cardinality(S \ {w}) + 1
    <2>1. Cardinality(S) \in Nat
      BY <1>4, FS_CardinalityType
    <2>2. IsFiniteSet(S \ {w})
          /\ Cardinality(S \ {w}) = IF w \in S THEN Cardinality(S) - 1 ELSE Cardinality(S)
      BY <1>4, FS_RemoveElement
    <2>3. Cardinality((S \ {w}) \cup {w}) = Cardinality(S \ {w}) + 1
      BY <2>2, FS_AddElement
    <2>4. QED BY <2>1, <2>2, <2>3
  <1> Counted \in SUBSET Mailers /\ Counting \in SUBSET Mailers
    BY DEF Counted, Counting
  <1>5. /\ Cardinality(Counted \ {w}) = Cardinality(Counted) - (IF At(w, "send") THEN 1 ELSE 0)
        /\ Cardinality((Counted \ {w}) \cup {w}) = Cardinality(Counted \ {w}) + 1
    BY <1>3, <1>4, FewWorkers
  <1>6. /\ Cardinality(Counting \ {w}) = Cardinality(Counting) - (IF At(w, "claim") THEN 1 ELSE 0)
        /\ Cardinality((Counting \ {w}) \cup {w}) = Cardinality(Counting \ {w}) + 1
    BY <1>3, <1>4, FewWorkers
  <1>7. Cardinality(Counted) \in Nat /\ Cardinality(Counting) \in Nat
    BY FewWorkers
  <1>8. QED BY <1>2, <1>5, <1>6, <1>7

\* A worker turns, to idle or elsewhere; the numbers change as they may.
LEMMA MailMoves ==
    ASSUME MailInv, NEW w \in Mailers, NEW m \in Mailer,
           mailer' = [mailer EXCEPT ![w] = m],
           event' \in {"open", "done", "dead"}, wanted' \in BOOLEAN,
           letter' \in Letter, copies' \in Nat,
           letter.attempts <= letter'.attempts,
           copies' + (IF m.stage = "send" THEN 1 ELSE 0) - letter'.attempts
              <= copies + (IF At(w, "send") THEN 1 ELSE 0) - letter.attempts,
           \/ letter'.attempts + (IF m.stage = "claim" THEN 1 ELSE 0)
                 <= letter.attempts + (IF At(w, "claim") THEN 1 ELSE 0)
           \/ letter'.attempts < MaxMails
    PROVE  MailInv'
  <1>1. MailTypeOK'
    BY DEF MailInv, MailTypeOK
  <1>2. /\ letter.attempts \in Nat /\ letter'.attempts \in Nat /\ copies \in Nat
        /\ MaxMails \in Nat
    BY MaxMailsAssumption DEF MailInv, MailTypeOK, Letter
  <1>3. /\ Cardinality(Counted) \in Nat /\ Cardinality(Counting) \in Nat
        /\ Cardinality(Counted') \in Nat
        /\ Cardinality(Counting') \in 0..Cardinality(Mailers)
        /\ Cardinality(Mailers) \in Nat
    <2>1. /\ Counted \in SUBSET Mailers /\ Counting \in SUBSET Mailers
          /\ Counted' \in SUBSET Mailers /\ Counting' \in SUBSET Mailers
      BY DEF Counted, Counting
    <2>2. QED BY <2>1, FewWorkers
  <1>4. /\ Cardinality(Counted') =
              Cardinality(Counted) - (IF At(w, "send") THEN 1 ELSE 0)
                                   + (IF m.stage = "send" THEN 1 ELSE 0)
        /\ Cardinality(Counting') =
              Cardinality(Counting) - (IF At(w, "claim") THEN 1 ELSE 0)
                                    + (IF m.stage = "claim" THEN 1 ELSE 0)
    BY WorkerTurns DEF MailInv
  <1>5. copies' + Cardinality(Counted') <= letter'.attempts
    BY <1>2, <1>3, <1>4 DEF MailInv
  <1>6. letter'.attempts + Cardinality(Counting') < MaxMails + Cardinality(Mailers)
    BY <1>2, <1>3, <1>4 DEF MailInv
  <1>7. QED BY <1>1, <1>5, <1>6 DEF MailInv

\* A worker turns to a stage at which it neither counts nor sends.
LEMMA WorkerLeaves ==
    ASSUME MailInv, NEW w \in Mailers, NEW m \in Mailer, m.stage \notin {"send", "claim"},
           mailer' = [mailer EXCEPT ![w] = m],
           event' \in {"open", "done", "dead"}, UNCHANGED wanted,
           letter' \in Letter, letter'.attempts = letter.attempts,
           copies' = copies \/ (copies' = copies + 1 /\ At(w, "send"))
    PROVE  MailInv'
  <1>1. letter.attempts \in Nat /\ copies \in Nat /\ wanted \in BOOLEAN
    BY DEF MailInv, MailTypeOK, Letter
  <1>2. /\ copies' \in Nat /\ wanted' \in BOOLEAN
        /\ letter.attempts <= letter'.attempts
    BY <1>1
  <1>3. /\ m.stage # "send" /\ m.stage # "claim"
    OBVIOUS
  <1>4. copies' + (IF m.stage = "send" THEN 1 ELSE 0) - letter'.attempts
           <= copies + (IF At(w, "send") THEN 1 ELSE 0) - letter.attempts
    BY <1>1, <1>3
  <1>5. letter'.attempts + (IF m.stage = "claim" THEN 1 ELSE 0)
           <= letter.attempts + (IF At(w, "claim") THEN 1 ELSE 0)
    BY <1>1, <1>3
  <1>6. QED BY <1>2, <1>4, <1>5, MailMoves

\* Only the customer's mind or the event changes, or nothing.
LEMMA MailRests ==
    ASSUME MailInv, UNCHANGED <<letter, mailer, copies>>,
           event' \in {"open", "done", "dead"}, wanted' \in BOOLEAN
    PROVE  MailInv'
  BY DEF MailInv, MailTypeOK, Counted, Counting, At

\* What the updates make of the row.
LEMMA Updates ==
    ASSUME NEW l \in Letter
    PROVE  /\ [l EXCEPT !.status = "SUPPRESSED"] \in Letter
           /\ [l EXCEPT !.status = "SUPPRESSED"].attempts = l.attempts
           /\ [l EXCEPT !.status = "PENDING"] \in Letter
           /\ [l EXCEPT !.status = "PENDING"].attempts = l.attempts
           /\ Sending(l) \in Letter /\ Sending(l).attempts = l.attempts + 1
           /\ [l EXCEPT !.status = "SENT", !.sent = TRUE, !.retry = FALSE] \in Letter
           /\ [l EXCEPT !.status = "SENT", !.sent = TRUE, !.retry = FALSE].attempts = l.attempts
           /\ [l EXCEPT !.status = "RETRY_SCHEDULED", !.retry = TRUE] \in Letter
           /\ [l EXCEPT !.status = "RETRY_SCHEDULED", !.retry = TRUE].attempts = l.attempts
           /\ [l EXCEPT !.status = "FAILED", !.failed = TRUE] \in Letter
           /\ [l EXCEPT !.status = "FAILED", !.failed = TRUE].attempts = l.attempts
  <1>1. [l EXCEPT !.status = "SUPPRESSED"] \in Letter
        /\ [l EXCEPT !.status = "SUPPRESSED"].attempts = l.attempts
    BY DEF Letter, Statuses
  <1>2. [l EXCEPT !.status = "PENDING"] \in Letter
        /\ [l EXCEPT !.status = "PENDING"].attempts = l.attempts
    BY DEF Letter, Statuses
  <1>3. Sending(l) \in Letter /\ Sending(l).attempts = l.attempts + 1
    <2>1. PICK half : half = [l EXCEPT !.status = "SENDING"]
      OBVIOUS
    <2>2. half \in Letter /\ half.attempts = l.attempts
      BY <2>1 DEF Letter, Statuses
    <2>3. Sending(l) = [half EXCEPT !.attempts = l.attempts + 1]
      BY <2>1 DEF Letter, Sending
    <2>4. l.attempts + 1 \in Nat
      BY DEF Letter
    <2>5. QED BY <2>2, <2>3, <2>4 DEF Letter
  <1>4. [l EXCEPT !.status = "SENT", !.sent = TRUE, !.retry = FALSE] \in Letter
        /\ [l EXCEPT !.status = "SENT", !.sent = TRUE, !.retry = FALSE].attempts = l.attempts
    BY DEF Letter, Statuses
  <1>5. [l EXCEPT !.status = "RETRY_SCHEDULED", !.retry = TRUE] \in Letter
        /\ [l EXCEPT !.status = "RETRY_SCHEDULED", !.retry = TRUE].attempts = l.attempts
    BY DEF Letter, Statuses
  <1>6. [l EXCEPT !.status = "FAILED", !.failed = TRUE] \in Letter
        /\ [l EXCEPT !.status = "FAILED", !.failed = TRUE].attempts = l.attempts
    BY DEF Letter, Statuses
  <1>7. QED BY <1>1, <1>2, <1>3, <1>4, <1>5, <1>6

\* No letter, no copy and no worker at work.
LEMMA MailInitInv == MailInit => MailInv
  <1> SUFFICES ASSUME MailInit PROVE MailInv
    OBVIOUS
  <1>1. MailTypeOK
    BY DEF MailInit, MailTypeOK, Letter, Statuses, Mailer, Idle
  <1>2. Counted = {} /\ Counting = {}
    BY DEF MailInit, Counted, Counting, At, Idle
  <1>3. Cardinality(Mailers) \in Nat
    BY MailersAssumption, FS_CardinalityType
  <1>4. letter.attempts = 0 /\ copies = 0 /\ MaxMails \in Nat \ {0}
    BY MaxMailsAssumption DEF MailInit
  <1>5. QED BY <1>1, <1>2, <1>3, <1>4, FS_EmptySet DEF MailInv

\* Every step of a delivery keeps the invariant.
LEMMA DeliveryKeepsInv ==
    ASSUME MailInv, NEW w \in Mailers,
           \/ Deliver(w) \/ Suppress(w) \/ Record(w) \/ Claim(w) \/ Post(w) \/ Finish(w)
           \/ Fail(w) \/ Die(w)
    PROVE  MailInv'
  <1>1. /\ letter \in Letter /\ letter.attempts \in Nat /\ copies \in Nat
        /\ event \in {"open", "done", "dead"} /\ wanted \in BOOLEAN
        /\ mailer[w] \in Mailer /\ mailer[w].read \in Nat /\ MaxMails \in Nat
    BY MaxMailsAssumption DEF MailInv, MailTypeOK, Letter, Mailer
  <1>2. Idle \in Mailer /\ Idle.stage = "idle"
    BY DEF Idle, Mailer
  <1>3. ASSUME NEW result \in {"open", "done", "dead"}, Ends(w, result),
               letter' \in Letter, letter'.attempts = letter.attempts,
               UNCHANGED <<wanted, copies>>
        PROVE  MailInv'
    <2>1. event' \in {"open", "done", "dead"} /\ mailer' = [mailer EXCEPT ![w] = Idle]
      BY <1>1, <1>3 DEF Ends
    <2>2. Idle.stage \notin {"send", "claim"}
      BY <1>2
    <2>3. QED BY <1>2, <1>3, <2>1, <2>2, WorkerLeaves
  <1>4. ASSUME NEW stage, NEW n \in Nat
        PROVE  [stage |-> stage, read |-> n].stage = stage
               /\ (stage \in {"idle", "suppress", "record", "claim", "send", "sent", "failed"}
                      => [stage |-> stage, read |-> n] \in Mailer)
    BY DEF Mailer
  <1>5. CASE Deliver(w)
    <2>1. PICK stage \in {"record", "suppress"} : Turns(w, stage, 0)
      BY <1>5 DEF Deliver
    <2>2. PICK m : m = [stage |-> stage, read |-> 0]
      OBVIOUS
    <2>3. m \in Mailer /\ m.stage \notin {"send", "claim"} /\ mailer' = [mailer EXCEPT ![w] = m]
      BY <1>4, <2>1, <2>2 DEF Turns
    <2>4. UNCHANGED <<event, wanted, letter, copies>>
      BY <1>5 DEF Deliver
    <2>5. QED BY <1>1, <2>3, <2>4, WorkerLeaves
  <1>6. CASE Suppress(w)
    <2>1. PICK result \in {"done", "dead"} : Ends(w, result)
      BY <1>6 DEF Suppress
    <2>2. letter' \in Letter /\ letter'.attempts = letter.attempts /\ UNCHANGED <<wanted, copies>>
      BY <1>1, <1>6, Updates DEF Suppress
    <2>3. QED BY <1>3, <2>1, <2>2
  <1>7. CASE Record(w)
    <2>1. letter' \in Letter /\ letter'.attempts = letter.attempts /\ UNCHANGED <<wanted, copies>>
      BY <1>1, <1>7, Updates DEF Record
    <2>2. CASE \E result \in {"done", "dead"} : Ends(w, result)
      BY <1>3, <2>1, <2>2
    <2>3. CASE letter'.attempts < MaxMails /\ Turns(w, "claim", letter'.attempts) /\ UNCHANGED event
      <3>1. PICK m : m = [stage |-> "claim", read |-> letter'.attempts]
        OBVIOUS
      <3>2. m \in Mailer /\ m.stage = "claim" /\ mailer' = [mailer EXCEPT ![w] = m]
        BY <1>1, <1>4, <2>1, <2>3, <3>1 DEF Turns
      <3>3. /\ letter'.attempts \in Nat /\ copies' \in Nat /\ wanted' \in BOOLEAN
            /\ event' \in {"open", "done", "dead"}
            /\ letter.attempts <= letter'.attempts
        BY <1>1, <2>1, <2>3
      <3>4. copies' + (IF m.stage = "send" THEN 1 ELSE 0) - letter'.attempts
               <= copies + (IF At(w, "send") THEN 1 ELSE 0) - letter.attempts
        BY <1>1, <2>1, <3>2
      <3>5. QED BY <2>1, <2>3, <3>2, <3>3, <3>4, MailMoves
    <2>4. \/ \E result \in {"done", "dead"} : Ends(w, result)
          \/ letter'.attempts < MaxMails /\ Turns(w, "claim", letter'.attempts) /\ UNCHANGED event
      BY <1>1, <1>7, <2>1 DEF Record, Exhausted
    <2>5. QED BY <2>2, <2>3, <2>4
  <1>8. CASE Claim(w)
    <2>1. CASE UNCHANGED letter /\ Ends(w, "dead")
      BY <1>1, <1>3, <1>8, <2>1 DEF Claim
    <2>2. CASE letter' = Sending(letter) /\ Turns(w, "send", mailer[w].read) /\ UNCHANGED event
      <3>1. PICK m : m = [stage |-> "send", read |-> mailer[w].read]
        OBVIOUS
      <3>2. m \in Mailer /\ m.stage = "send" /\ mailer' = [mailer EXCEPT ![w] = m]
        BY <1>1, <1>4, <2>2, <3>1 DEF Turns
      <3>3. letter' \in Letter /\ letter'.attempts = letter.attempts + 1
        BY <1>1, <2>2, Updates
      <3>4. At(w, "claim") /\ UNCHANGED <<wanted, copies>>
        BY <1>8 DEF Claim
      <3>5. /\ copies' \in Nat /\ wanted' \in BOOLEAN /\ event' \in {"open", "done", "dead"}
            /\ letter.attempts <= letter'.attempts
        BY <1>1, <2>2, <3>3, <3>4
      <3>6. copies' + (IF m.stage = "send" THEN 1 ELSE 0) - letter'.attempts
               <= copies + (IF At(w, "send") THEN 1 ELSE 0) - letter.attempts
        BY <1>1, <3>2, <3>3, <3>4
      <3>7. letter'.attempts + (IF m.stage = "claim" THEN 1 ELSE 0)
               <= letter.attempts + (IF At(w, "claim") THEN 1 ELSE 0)
        BY <1>1, <3>2, <3>3, <3>4
      <3>8. QED BY <3>2, <3>3, <3>5, <3>6, <3>7, MailMoves
    <2>3. QED BY <1>8, <2>1, <2>2 DEF Claim
  <1>9. CASE Post(w)
    <2>1. PICK copied \in {0, 1}, stage \in {"sent", "failed"} :
             copies' = copies + copied /\ Turns(w, stage, mailer[w].read)
      BY <1>9 DEF Post
    <2>2. PICK m : m = [stage |-> stage, read |-> mailer[w].read]
      OBVIOUS
    <2>3. m \in Mailer /\ m.stage \notin {"send", "claim"} /\ mailer' = [mailer EXCEPT ![w] = m]
      BY <1>1, <1>4, <2>1, <2>2 DEF Turns
    <2>4. At(w, "send") /\ UNCHANGED <<event, wanted, letter>>
      BY <1>9 DEF Post
    <2>5. copies' = copies \/ copies' = copies + 1
      BY <1>1, <2>1
    <2>6. QED BY <1>1, <2>3, <2>4, <2>5, WorkerLeaves
  <1>10. CASE Finish(w)
    <2>1. CASE letter' = [letter EXCEPT !.status = "SENT", !.sent = TRUE, !.retry = FALSE]
               /\ Ends(w, "done")
      BY <1>1, <1>3, <1>10, <2>1, Updates DEF Finish
    <2>2. CASE UNCHANGED <<event, letter>> /\ Turns(w, "failed", mailer[w].read)
      <3>1. PICK m : m = [stage |-> "failed", read |-> mailer[w].read]
        OBVIOUS
      <3>2. m \in Mailer /\ m.stage = "failed" /\ mailer' = [mailer EXCEPT ![w] = m]
        BY <1>1, <1>4, <2>2, <3>1 DEF Turns
      <3>3. UNCHANGED <<wanted, copies>>
        BY <1>10 DEF Finish
      <3>4. QED BY <1>1, <2>2, <3>2, <3>3, WorkerLeaves
    <2>3. QED BY <1>10, <2>1, <2>2 DEF Finish
  <1>11. CASE Fail(w)
    <2>1. PICK result \in {"open", "dead"} : Ends(w, result)
      BY <1>11 DEF Fail
    <2>2. letter' \in Letter /\ letter'.attempts = letter.attempts /\ UNCHANGED <<wanted, copies>>
      BY <1>1, <1>11, Updates DEF Fail
    <2>3. QED BY <1>3, <2>1, <2>2
  <1>12. CASE Die(w)
    <2>1. mailer' = [mailer EXCEPT ![w] = Idle] /\ UNCHANGED <<event, wanted, letter, copies>>
      BY <1>12 DEF Die
    <2>2. Idle.stage \notin {"send", "claim"}
      BY <1>2
    <2>3. QED BY <1>1, <1>2, <2>1, <2>2, WorkerLeaves
  <1>13. QED BY <1>5, <1>6, <1>7, <1>8, <1>9, <1>10, <1>11, <1>12

\* So does every other step.
LEMMA MailNextInv == MailInv /\ [MailNext]_mailVars => MailInv'
  <1> SUFFICES ASSUME MailInv, [MailNext]_mailVars PROVE MailInv'
    OBVIOUS
  <1>1. CASE Reconsider \/ UNCHANGED mailVars
    <2>1. /\ UNCHANGED <<letter, mailer, copies>>
          /\ event' \in {"open", "done", "dead"} /\ wanted' \in BOOLEAN
      BY <1>1 DEF MailInv, MailTypeOK, Reconsider, mailVars
    <2>2. QED BY <2>1, MailRests
  <1>2. QED BY <1>1, DeliveryKeepsInv DEF MailNext

\* The event, the row of the letter and the workers have their types.
THEOREM MailTypeCorrect == MailSpec => []MailTypeOK
  <1>1. MailInv => MailTypeOK
    BY DEF MailInv
  <1>2. QED BY <1>1, MailInitInv, MailNextInv, PTL DEF MailSpec

\* No copy goes out uncounted, and no more are counted than the limit allows and
\* one for each other worker at work.
THEOREM CopiesLimited == MailSpec => []CopiesAreLimited
  <1>1. MailInv => CopiesAreLimited
    <2> SUFFICES ASSUME MailInv PROVE CopiesAreLimited
      OBVIOUS
    <2>1. Counted \in SUBSET Mailers /\ Counting \in SUBSET Mailers
      BY DEF Counted, Counting
    <2>2. /\ Cardinality(Counted) \in Nat /\ Cardinality(Counting) \in Nat
          /\ Cardinality(Mailers) \in Nat
      BY <2>1, FewWorkers
    <2>3. letter.attempts \in Nat /\ copies \in Nat /\ MaxMails \in Nat
      BY MaxMailsAssumption DEF MailInv, MailTypeOK, Letter
    <2>4. QED BY <2>2, <2>3 DEF MailInv, CopiesAreLimited
  <1>2. QED BY <1>1, MailInitInv, MailNextInv, PTL DEF MailSpec

-------------------------------------------------------------------------------
(* The feed of orders.                                                     *)

\* What a request with this cursor does not find was given before.
Covered(c) == \A o \in walk.due : o \in walk.given \/ After(c, o)

\* Rows due are visible, and were given or come after both cursors.
FeedInv ==
    /\ FeedTypeOK
    /\ IsFiniteSet(Visible)
    /\ walk.due \subseteq Visible
    /\ walk.stage = "asks" => Covered(walk.cursor) /\ Covered(walk.before)
    /\ walk.stage = "ended" => walk.due \subseteq walk.given

\* The parts of a row.
LEMMA RowParts ==
    ASSUME FeedTypeOK, NEW o \in NewOrders
    PROVE  row[o].at \in Nat /\ row[o].at \in Moments /\ o \in Nat /\ o # 0
  BY FeedNumbersAssumption DEF FeedTypeOK, Row

\* The order of the feed is total, and has no cycle.
LEMMA FeedIsOrdered ==
    ASSUME FeedTypeOK, NEW o \in NewOrders, NEW p \in NewOrders
    PROVE  /\ After(Position(o), p) \/ o = p \/ After(Position(p), o)
           /\ ~After(Position(o), o)
           /\ \A q \in NewOrders :
                 After(Position(o), p) /\ After(Position(p), q) => After(Position(o), q)
  <1>1. Position(o)[1] = row[o].at /\ Position(o)[2] = o
    BY DEF Position
  <1>2. Position(p)[1] = row[p].at /\ Position(p)[2] = p
    BY DEF Position
  <1>3. row[o].at \in Nat /\ o \in Nat /\ row[p].at \in Nat /\ p \in Nat
    BY RowParts
  <1>4. ASSUME NEW q \in NewOrders, After(Position(o), p), After(Position(p), q)
        PROVE  After(Position(o), q)
    <2>1. row[q].at \in Nat /\ q \in Nat
      BY RowParts
    <2>2. QED BY <1>1, <1>2, <1>3, <1>4, <2>1 DEF After
  <1>5. QED BY <1>1, <1>2, <1>3, <1>4 DEF After

\* The rows of a page that come before a row o.
Before(c, o) == {p \in Found(c) : After(Position(p), o)}

\* A row that is found and not given on a page comes after every row of it.
LEMMA PagesAreFirst ==
    ASSUME FeedInv, NEW c \in Cursor, NEW o \in Found(c), NEW last \in Page(c), o \notin Page(c)
    PROVE  After(Position(last), o)
  <1>1. o \in NewOrders /\ last \in NewOrders /\ last \in Found(c)
    BY DEF Page, Found, Visible
  <1>2. SUFFICES ASSUME ~After(Position(last), o) PROVE FALSE
    OBVIOUS
  <1>3. o # last
    OBVIOUS
  <1>4. After(Position(o), last)
    BY <1>1, <1>2, <1>3, FeedIsOrdered DEF FeedInv
  <1>5. Before(c, o) \in SUBSET Before(c, last)
    <2> SUFFICES ASSUME NEW p \in Before(c, o) PROVE p \in Before(c, last)
      OBVIOUS
    <2>1. p \in NewOrders /\ p \in Found(c) /\ After(Position(p), o)
      BY DEF Before, Found, Visible
    <2>2. After(Position(p), last)
      BY <1>1, <1>4, <2>1, FeedIsOrdered DEF FeedInv
    <2>3. QED BY <2>1, <2>2 DEF Before
  <1>6. IsFiniteSet(Before(c, last))
    <2>1. Before(c, last) \in SUBSET Visible
      BY DEF Before, Found
    <2>2. QED BY <2>1, FS_Subset DEF FeedInv
  <1>7. /\ Cardinality(Before(c, o)) <= Cardinality(Before(c, last))
        /\ Cardinality(Before(c, o)) \in Nat /\ Cardinality(Before(c, last)) \in Nat
    BY <1>5, <1>6, FS_Subset, FS_CardinalityType
  <1>8. Cardinality(Before(c, last)) < Limit /\ ~(Cardinality(Before(c, o)) < Limit)
    BY <1>1 DEF Page, Before
  <1>9. QED BY <1>7, <1>8, LimitAssumption

\* When no more rows are found than fit on a page, all of them are on it.
LEMMA LastPageIsWhole ==
    ASSUME FeedInv, NEW c \in Cursor, Cardinality(Found(c)) <= Limit
    PROVE  Found(c) \subseteq Page(c)
  <1> SUFFICES ASSUME NEW o \in Found(c) PROVE o \in Page(c)
    OBVIOUS
  <1>1. o \in NewOrders
    BY DEF Found, Visible
  <1>2. IsFiniteSet(Found(c))
    <2>1. Found(c) \in SUBSET Visible
      BY DEF Found
    <2>2. QED BY <2>1, FS_Subset DEF FeedInv
  <1>3. Before(c, o) \in SUBSET Found(c) /\ o \notin Before(c, o)
    BY <1>1, FeedIsOrdered DEF Before, FeedInv
  <1>4. /\ Cardinality(Before(c, o)) <= Cardinality(Found(c))
        /\ Cardinality(Before(c, o)) # Cardinality(Found(c))
        /\ Cardinality(Before(c, o)) \in Nat /\ Cardinality(Found(c)) \in Nat
    BY <1>2, <1>3, FS_Subset, FS_CardinalityType
  <1>5. Cardinality(Before(c, o)) < Limit
    BY <1>4, LimitAssumption
  <1>6. QED BY <1>5 DEF Page, Before

\* The rows begin unwritten.
LEMMA FeedInitInv == FeedInit => FeedInv
  <1> SUFFICES ASSUME FeedInit PROVE FeedInv
    OBVIOUS
  <1>1. FeedTypeOK
    BY DEF FeedInit, FeedTypeOK, Row, Walk, NoWalk, Cursor
  <1>2. Visible = {} /\ walk.due = {} /\ walk.stage = "off"
    BY DEF FeedInit, Visible, NoWalk
  <1>3. QED BY <1>1, <1>2, FS_EmptySet DEF FeedInv

\* A row is written, committed or hidden: what is due stays where it is.
LEMMA RowsKeepInv ==
    ASSUME FeedInv, NEW o \in NewOrders, Write(o) \/ Commit(o) \/ Bury(o)
    PROVE  FeedInv'
  <1>1. \A p \in NewOrders : p # o => row'[p] = row[p]
    BY DEF Write, Commit, Bury, FeedInv, FeedTypeOK
  <1>2. row' \in [NewOrders -> Row] /\ moment' = moment
    <2>1. CASE Write(o)
      BY <2>1 DEF Write, FeedInv, FeedTypeOK, Row
    <2>2. CASE Commit(o)
      BY <2>2 DEF Commit, FeedInv, FeedTypeOK, Row
    <2>3. CASE Bury(o)
      BY <2>3 DEF Bury, FeedInv, FeedTypeOK, Row
    <2>4. QED BY <2>1, <2>2, <2>3
  <1>3. /\ walk' \in Walk /\ walk'.due \subseteq walk.due
        /\ walk'.stage = walk.stage /\ walk'.given = walk.given
        /\ walk'.cursor = walk.cursor /\ walk'.before = walk.before
        /\ walk'.due = IF Bury(o) THEN walk.due \ {o} ELSE walk.due
    <2>1. CASE Bury(o)
      <3>1. walk \in Walk /\ walk' = [walk EXCEPT !.due = walk.due \ {o}]
        BY <2>1 DEF FeedInv, FeedTypeOK, Bury
      <3>2. walk.due \ {o} \in SUBSET NewOrders
        BY <3>1 DEF Walk
      <3>3. QED BY <2>1, <3>1, <3>2 DEF Walk
    <2>2. CASE ~Bury(o)
      <3>1. walk' = walk
        BY <2>2 DEF Write, Commit
      <3>2. QED BY <2>2, <3>1 DEF FeedInv, FeedTypeOK
    <2>3. QED BY <2>1, <2>2
  <1>4. o \in walk'.due => o \in Visible' /\ row'[o].at = row[o].at
    <2>1. CASE Bury(o)
      BY <1>3, <2>1
    <2>2. CASE Write(o)
      <3>1. o \notin Visible
        BY <2>2 DEF Visible, Write
      <3>2. QED BY <1>3, <3>1 DEF FeedInv
    <2>3. CASE Commit(o)
      <3>1. o \notin Visible
        BY <2>3 DEF Visible, Commit
      <3>2. QED BY <1>3, <3>1 DEF FeedInv
    <2>4. QED BY <2>1, <2>2, <2>3
  <1>5. walk'.due \subseteq Visible'
    BY <1>1, <1>3, <1>4 DEF FeedInv, Visible
  <1>6. \A p \in walk'.due : row'[p].at = row[p].at
    BY <1>1, <1>3, <1>4 DEF FeedInv, Visible
  <1>7. IsFiniteSet(Visible')
    <2>1. Visible' \in SUBSET (Visible \cup {o})
      BY <1>1 DEF Visible
    <2>2. IsFiniteSet(Visible \cup {o})
      BY FS_AddElement DEF FeedInv
    <2>3. QED BY <2>1, <2>2, FS_Subset
  <1>8. /\ walk'.stage = "asks" => Covered(walk.cursor)' /\ Covered(walk.before)'
        /\ walk'.stage = "ended" => walk'.due \subseteq walk'.given
    <2>1. CASE walk.stage = "asks"
      <3>1. \A p \in walk'.due : p \in walk'.given \/ After(walk.cursor, p)'
        BY <1>3, <1>6, <2>1 DEF Covered, After, FeedInv
      <3>2. \A p \in walk'.due : p \in walk'.given \/ After(walk.before, p)'
        BY <1>3, <1>6, <2>1 DEF Covered, After, FeedInv
      <3>3. QED BY <1>3, <2>1, <3>1, <3>2 DEF Covered
    <2>2. CASE walk.stage # "asks"
      BY <1>3, <2>2 DEF FeedInv
    <2>3. QED BY <2>1, <2>2
  <1>9. QED BY <1>2, <1>3, <1>5, <1>7, <1>8 DEF FeedInv, FeedTypeOK

\* A walk begins with every visible row due.
LEMMA StartKeepsInv ==
    ASSUME FeedInv, Start
    PROVE  FeedInv'
  <1>1. walk' = [stage |-> "asks", cursor |-> Top, before |-> Top, given |-> {}, due |-> Visible]
    BY DEF Start, NoWalk
  <1>2. UNCHANGED <<row, moment>> /\ Visible' = Visible /\ Visible \subseteq NewOrders
    BY DEF Start, Visible
  <1>3. walk' \in Walk
    BY <1>1, <1>2 DEF Walk, Cursor
  <1>4. \A o \in NewOrders : After(Top, o)
    <2> SUFFICES ASSUME NEW o \in NewOrders PROVE After(Top, o)
      OBVIOUS
    <2>1. row[o].at \in Nat /\ o \in Nat /\ o # 0
      BY RowParts DEF FeedInv
    <2>2. QED BY <2>1 DEF After, Top
  <1>5. \A o \in walk'.due : After(Top, o)'
    BY <1>1, <1>2, <1>4 DEF After
  <1>6. QED BY <1>1, <1>2, <1>3, <1>5 DEF FeedInv, FeedTypeOK, Covered

\* A page is fetched, with a cursor that covers what was given.
LEMMA FetchKeepsInv ==
    ASSUME FeedInv, NEW c \in {walk.cursor, walk.before}, Fetch(c)
    PROVE  FeedInv'
  <1> DEFINE page == Page(c)
             given == walk.given \cup page
  <1>1. /\ walk \in Walk /\ c \in Cursor /\ walk.stage = "asks" /\ Covered(c)
        /\ UNCHANGED <<moment, row>>
    BY DEF FeedInv, FeedTypeOK, Fetch, Walk
  <1>2. Visible' = Visible /\ page \subseteq Visible /\ Visible \subseteq NewOrders
    BY <1>1 DEF Visible, Page, Found
  <1>3. given \in SUBSET NewOrders /\ walk.given \subseteq given /\ page \subseteq given
    BY <1>1, <1>2 DEF Walk
  <1>4. ASSUME NEW o \in walk.due, o \notin given PROVE o \in Found(c) /\ o \notin page
    BY <1>1, <1>4 DEF Covered, Found, FeedInv
  <1> HIDE DEF page, given
  <1>5. CASE /\ Cardinality(Found(c)) <= Limit
             /\ walk' = [walk EXCEPT !.stage = "ended", !.given = given]
    <2>1. PICK half : half = [walk EXCEPT !.stage = "ended"]
      OBVIOUS
    <2>2. half \in Walk /\ half.stage = "ended" /\ half.due = walk.due
      BY <1>1, <2>1 DEF Walk
    <2>3. walk' = [half EXCEPT !.given = given]
      BY <1>1, <1>5, <2>1 DEF Walk
    <2>4. walk' \in Walk /\ walk'.stage = "ended" /\ walk'.due = walk.due /\ walk'.given = given
      BY <1>3, <2>2, <2>3 DEF Walk
    <2>5. walk.due \subseteq given
      <3>1. Found(c) \subseteq page
        BY <1>1, <1>5, LastPageIsWhole DEF page
      <3>2. QED BY <1>4, <3>1
    <2>6. QED BY <1>1, <1>2, <2>4, <2>5 DEF FeedInv, FeedTypeOK
  <1>6. ASSUME NEW last \in page,
               walk' = [walk EXCEPT !.cursor = Position(last), !.before = c, !.given = given]
        PROVE  FeedInv'
    <2>1. PICK first : first = [walk EXCEPT !.cursor = Position(last)]
      OBVIOUS
    <2>2. Position(last) \in Cursor
      <3>1. last \in NewOrders
        BY <1>2
      <3>2. QED BY <3>1, RowParts DEF FeedInv, Position, Cursor
    <2>3. first \in Walk /\ first.stage = "asks" /\ first.due = walk.due
          /\ first.cursor = Position(last)
      BY <1>1, <2>1, <2>2 DEF Walk
    <2>4. PICK second : second = [first EXCEPT !.before = c]
      OBVIOUS
    <2>5. second \in Walk /\ second.stage = "asks" /\ second.due = walk.due
          /\ second.cursor = Position(last) /\ second.before = c
      BY <1>1, <2>3, <2>4 DEF Walk
    <2>6. walk' = [second EXCEPT !.given = given]
      BY <1>1, <1>6, <2>1, <2>4 DEF Walk
    <2>7. walk' \in Walk /\ walk'.stage = "asks" /\ walk'.due = walk.due /\ walk'.given = given
          /\ walk'.cursor = Position(last) /\ walk'.before = c
      BY <1>3, <2>5, <2>6 DEF Walk
    <2>8. \A o \in walk.due : o \in given \/ After(Position(last), o)
      BY <1>1, <1>4, <1>6, PagesAreFirst DEF page
    <2>9. \A o \in walk.due : o \in given \/ After(c, o)
      BY <1>1, <1>3 DEF Covered
    <2>10. \A o \in walk'.due : o \in walk'.given \/ After(Position(last), o)'
      BY <1>1, <2>7, <2>8 DEF After, Position
    <2>11. \A o \in walk'.due : o \in walk'.given \/ (row'[o].at > c[1] \/ (row'[o].at = c[1] /\ o > c[2]))
      BY <1>1, <2>7, <2>9 DEF After
    <2>12. QED BY <1>1, <1>2, <2>7, <2>10, <2>11 DEF FeedInv, FeedTypeOK, Covered, After, Position
  <1>7. QED BY <1>5, <1>6 DEF Fetch, page, given

\* Every step keeps the invariant.
LEMMA FeedNextInv == FeedInv /\ [FeedNext]_feedVars => FeedInv'
  <1> SUFFICES ASSUME FeedInv, [FeedNext]_feedVars PROVE FeedInv'
    OBVIOUS
  <1>1. CASE Later \/ UNCHANGED feedVars
    <2>1. UNCHANGED <<row, walk>> /\ moment' \in Moments
      BY <1>1 DEF Later, feedVars, FeedInv, FeedTypeOK
    <2>2. QED BY <2>1 DEF FeedInv, FeedTypeOK, Visible, Covered, After
  <1>2. CASE NextPage \/ SamePage
    <2>1. \E c \in {walk.cursor, walk.before} : Fetch(c)
      BY <1>2 DEF NextPage, SamePage
    <2>2. QED BY <2>1, FetchKeepsInv
  <1>3. QED BY <1>1, <1>2, RowsKeepInv, StartKeepsInv DEF FeedNext

\* Times, rows and walks have their types.
THEOREM FeedTypeCorrect == FeedSpec => []FeedTypeOK
  <1>1. FeedInv => FeedTypeOK
    BY DEF FeedInv
  <1>2. QED BY <1>1, FeedInitInv, FeedNextInv, PTL DEF FeedSpec

\* A walk that came to its end gave every row that was there when it began and is
\* not hidden since.
THEOREM WalksComplete == FeedSpec => []WalksAreComplete
  <1>1. FeedInv => WalksAreComplete
    BY DEF FeedInv, WalksAreComplete
  <1>2. QED BY <1>1, FeedInitInv, FeedNextInv, PTL DEF FeedSpec

-------------------------------------------------------------------------------
(* The suggestions: indices, sequences that are joined, and the fold that makes   *)
(* an answer.  A fold is computed over sets of indices, the last index first.     *)

Follows(g, S, b, rule, n) ==
    /\ g \in [0..n -> S]
    /\ g[0] = b
    /\ \A i \in 1..n : g[i] = rule[<<g[i - 1], i>>]

\* A sequence of values exists in which each follows from the one before, by a
\* rule that is given as a function.
LEMMA RecursionExists ==
    ASSUME NEW S, NEW b \in S, NEW rule \in [S \X Nat -> S], NEW n \in Nat
    PROVE  \E g : Follows(g, S, b, rule, n)
  <1> DEFINE Good(m) == \E g \in [0..m -> S] :
                            g[0] = b /\ \A i \in 1..m : g[i] = rule[<<g[i - 1], i>>]
             Bad == {m \in Nat : ~Good(m)}
  <1>1. Good(0)
    <2>1. [i \in 0..0 |-> b] \in [0..0 -> S]
      OBVIOUS
    <2>2. [i \in 0..0 |-> b][0] = b /\ \A i \in 1..0 : FALSE
      OBVIOUS
    <2>3. QED BY <2>1, <2>2
  <1>2. ASSUME NEW m \in Nat, m # 0, Good(m - 1) PROVE Good(m)
    <2>1. PICK g \in [0..(m - 1) -> S] :
             g[0] = b /\ \A i \in 1..(m - 1) : g[i] = rule[<<g[i - 1], i>>]
      BY <1>2
    <2> DEFINE h == [i \in 0..m |-> IF i = m THEN rule[<<g[m - 1], m>>] ELSE g[i]]
    <2>2. h \in [0..m -> S]
      <3>1. m - 1 \in 0..(m - 1)
        BY <1>2
      <3>2. g[m - 1] \in S
        BY <3>1
      <3>3. rule[<<g[m - 1], m>>] \in S
        BY <3>2
      <3>4. \A i \in 0..m : i # m => i \in 0..(m - 1)
        OBVIOUS
      <3>5. QED BY <3>3, <3>4
    <2>3. h[0] = b
      BY <1>2, <2>1
    <2>4. ASSUME NEW i \in 1..m PROVE h[i] = rule[<<h[i - 1], i>>]
      <3>1. i - 1 \in 0..m /\ i - 1 # m /\ i \in 0..m
        OBVIOUS
      <3>2. h[i - 1] = g[i - 1]
        BY <3>1
      <3>3. CASE i = m
        BY <3>1, <3>2, <3>3
      <3>4. CASE i # m
        <4>1. i \in 1..(m - 1)
          BY <3>4
        <4>2. QED BY <2>1, <3>1, <3>2, <3>4, <4>1
      <3>5. QED BY <3>3, <3>4
    <2> HIDE DEF h
    <2>5. QED BY <2>2, <2>3, <2>4
  <1> HIDE DEF Good
  <1>3. Bad = {}
    <2>1. SUFFICES ASSUME Bad # {} PROVE FALSE
      OBVIOUS
    <2>2. PICK m \in Bad : \A k \in Bad : m <= k
      <3>1. Bad \subseteq Nat
        OBVIOUS
      <3>2. QED BY <2>1, <3>1, Smallest
    <2>3. m # 0 /\ m \in Nat /\ ~Good(m)
      BY <1>1
    <2>4. m - 1 \in Nat /\ ~(m <= m - 1)
      BY <2>3
    <2>5. Good(m - 1)
      BY <2>2, <2>4
    <2>6. QED BY <1>2, <2>3, <2>5
  <1>4. Good(n)
    BY <1>3
  <1>5. QED BY <1>4 DEF Good, Follows

\* What holds of the first index and passes to the next one holds of all.
LEMMA IndexInduction ==
    ASSUME NEW n \in Nat, NEW P, P \subseteq 0..n, 0 \in P,
           \A i \in 1..n : i - 1 \in P => i \in P
    PROVE  P = 0..n
  <1> DEFINE Bad == (0..n) \ P
  <1>1. SUFFICES ASSUME Bad # {} PROVE FALSE
    OBVIOUS
  <1>2. PICK m \in Bad : \A k \in Bad : m <= k
    <2>1. Bad \subseteq Nat
      OBVIOUS
    <2>2. QED BY <1>1, <2>1, Smallest
  <1>3. m \in 1..n
    OBVIOUS
  <1>4. m - 1 \in 0..n /\ ~(m <= m - 1)
    BY <1>3
  <1>5. m - 1 \in P
    BY <1>2, <1>4
  <1>6. QED BY <1>3, <1>5

\* Sequences that are joined: their first ones after i steps.
Joined(f, s, n) == /\ f[1] = s[1]
                   /\ \A i \in 2..n : f[i] = f[i - 1] \o s[i]

\* FlattenSeq joins the sequences from left to right.
LEMMA FlattenSeqJoins ==
    ASSUME NEW X, NEW n \in Nat, n # 0, NEW s \in [1..n -> Seq(X)]
    PROVE  \E f \in [1..n -> Seq(X)] : Joined(f, s, n) /\ FlattenSeq(s) = f[n]
  <1> DEFINE rule == [x \in Seq(X) \X Nat |-> IF x[2] \in 1..n THEN x[1] \o s[x[2]] ELSE x[1]]
             JoinStep(f) == [i \in 1..n |-> IF i = 1 THEN s[i] ELSE f[i - 1] \o s[i]]
             h == CHOOSE f : f = JoinStep(f)
  <1>1. \A q \in Seq(X), i \in Nat : rule[<<q, i>>] = IF i \in 1..n THEN q \o s[i] ELSE q
    OBVIOUS
  <1>2. rule \in [Seq(X) \X Nat -> Seq(X)]
    OBVIOUS
  <1>3. <<>> \in Seq(X)
    OBVIOUS
  <1> HIDE DEF rule
  <1>4. PICK g : Follows(g, Seq(X), <<>>, rule, n)
    BY <1>2, <1>3, RecursionExists
  <1> DEFINE f == [i \in 1..n |-> g[i]]
  <1>5. f \in [1..n -> Seq(X)]
    BY <1>4 DEF Follows
  <1>6. \A i \in 1..n : f[i] = g[i - 1] \o s[i]
    <2>1. ASSUME NEW i \in 1..n PROVE f[i] = g[i - 1] \o s[i]
      <3>1. i - 1 \in 0..n /\ i \in Nat
        OBVIOUS
      <3>2. g[i - 1] \in Seq(X)
        BY <1>4, <3>1 DEF Follows
      <3>3. QED BY <1>1, <1>4, <3>1, <3>2 DEF Follows
    <2>2. QED BY <2>1
  <1>7. f[1] = s[1]
    <2>1. 1 \in 1..n
      OBVIOUS
    <2>2. f[1] = g[1 - 1] \o s[1] /\ s[1] \in Seq(X)
      BY <1>6, <2>1
    <2>3. g[1 - 1] = <<>>
      BY <1>4 DEF Follows
    <2>4. QED BY <2>2, <2>3
  <1>8. \A i \in 2..n : f[i] = f[i - 1] \o s[i]
    <2>1. \A i \in 2..n : i \in 1..n /\ i - 1 \in 1..n
      OBVIOUS
    <2>2. \A i \in 2..n : f[i - 1] = g[i - 1]
      BY <2>1
    <2>3. QED BY <1>6, <2>1, <2>2
  <1> HIDE DEF f
  <1>9. f = JoinStep(f)
    <2>1. \A i \in 1..n : i # 1 => i \in 2..n
      OBVIOUS
    <2>2. \A i \in 1..n : f[i] = JoinStep(f)[i]
      BY <1>7, <1>8, <2>1
    <2>3. QED BY <1>5, <2>2
  <1>10. h = JoinStep(h)
    BY <1>9
  <1>11. FlattenSeq(s) = h[n]
    <2>1. Len(s) = n /\ n # 0
      OBVIOUS
    <2>2. QED BY <2>1 DEF FlattenSeq
  <1> HIDE DEF h
  <1>12. \A i \in 1..n : h[i] = f[i]
    <2> DEFINE P == {i \in 0..n : i # 0 => h[i] = f[i]}
    <2>1. ASSUME NEW i \in 1..n, i - 1 \in P PROVE h[i] = f[i]
      <3>1. h[i] = IF i = 1 THEN s[i] ELSE h[i - 1] \o s[i]
        BY <1>10
      <3>2. f[i] = IF i = 1 THEN s[i] ELSE f[i - 1] \o s[i]
        BY <1>9
      <3>3. i # 1 => h[i - 1] = f[i - 1]
        BY <2>1
      <3>4. QED BY <3>1, <3>2, <3>3
    <2>2. \A i \in 1..n : i - 1 \in P => i \in P
      BY <2>1
    <2>3. P \subseteq 0..n /\ 0 \in P
      OBVIOUS
    <2> HIDE DEF P
    <2>4. P = 0..n
      BY <2>2, <2>3, IndexInduction
    <2>5. \A i \in 1..n : i \in P /\ i # 0
      BY <2>4
    <2>6. QED BY <2>5 DEF P
  <1>13. n \in 1..n
    OBVIOUS
  <1>14. FlattenSeq(s) = f[n]
    BY <1>11, <1>12, <1>13
  <1>15. QED BY <1>5, <1>7, <1>8, <1>14 DEF Joined

\* The first sequence comes first.
LEMMA FirstComesFirst ==
    ASSUME NEW X, NEW n \in Nat, n # 0, NEW s \in [1..n -> Seq(X)],
           NEW f \in [1..n -> Seq(X)], Joined(f, s, n)
    PROVE  Len(s[1]) <= Len(f[n]) /\ \A j \in 1..Len(s[1]) : f[n][j] = s[1][j]
  <1> DEFINE Kept(i) == Len(s[1]) <= Len(f[i]) /\ \A j \in 1..Len(s[1]) : f[i][j] = s[1][j]
             P == {i \in 0..n : i # 0 => Kept(i)}
  <1>1. s[1] \in Seq(X) /\ f[1] = s[1] /\ 1 \in 1..n
    BY DEF Joined
  <1>2. ASSUME NEW i \in 1..n, i - 1 \in P PROVE Kept(i)
    <2>1. CASE i = 1
      BY <1>1, <2>1
    <2>2. CASE i # 1
      <3>1. i - 1 \in 1..n /\ i \in 2..n
        BY <2>2
      <3>2. f[i] = f[i - 1] \o s[i] /\ f[i - 1] \in Seq(X) /\ s[i] \in Seq(X) /\ Kept(i - 1)
        <4>1. f[i] = f[i - 1] \o s[i] /\ f[i - 1] \in Seq(X) /\ s[i] \in Seq(X)
          BY <3>1 DEF Joined
        <4>2. i - 1 # 0 /\ i - 1 \in P
          BY <1>2, <3>1
        <4>3. Kept(i - 1)
          BY <4>2
        <4>4. QED BY <4>1, <4>3
      <3>3. PICK q \in Seq(X), r \in Seq(X) : q = f[i - 1] /\ r = s[i]
        BY <3>2
      <3>4. Len(q \o r) = Len(q) + Len(r) /\ \A j \in 1..Len(q) : (q \o r)[j] = q[j]
        OBVIOUS
      <3>5. PICK u \in Seq(X) : u = s[1]
        BY <1>1
      <3>6. Len(u) <= Len(q) /\ \A j \in 1..Len(u) : q[j] = u[j]
        BY <3>2, <3>3, <3>5
      <3>7. Len(u) <= Len(q \o r) /\ \A j \in 1..Len(u) : (q \o r)[j] = u[j]
        BY <3>4, <3>6
      <3>8. QED BY <3>2, <3>3, <3>5, <3>7
    <2>3. QED BY <2>1, <2>2
  <1>3. \A i \in 1..n : i - 1 \in P => i \in P
    BY <1>2
  <1>4. P \subseteq 0..n /\ 0 \in P
    OBVIOUS
  <1> HIDE DEF P
  <1>5. P = 0..n
    BY <1>3, <1>4, IndexInduction
  <1>6. n \in P /\ n # 0
    BY <1>5
  <1>7. QED BY <1>6 DEF P

\* w has at most n elements, those of the n sequences in s among them.
Gathers(w, s, n) == /\ Len(w) <= n
                    /\ \A k \in 1..n : \A j \in 1..Len(s[k]) : \E p \in 1..Len(w) : w[p] = s[k][j]

\* Joining sequences of at most one element gives at most as many elements as
\* there are sequences, and leaves none out.
LEMMA SinglesAreKept ==
    ASSUME NEW X, NEW n \in Nat, n # 0, NEW s \in [1..n -> Seq(X)],
           \A i \in 1..n : Len(s[i]) <= 1,
           NEW f \in [1..n -> Seq(X)], Joined(f, s, n)
    PROVE  Gathers(f[n], s, n)
  <1> DEFINE Kept(i) == /\ Len(f[i]) <= i
                        /\ \A k \in 1..i : \A j \in 1..Len(s[k]) :
                              \E p \in 1..Len(f[i]) : f[i][p] = s[k][j]
             P == {i \in 0..n : i # 0 => Kept(i)}
  <1>1. s[1] \in Seq(X) /\ f[1] = s[1] /\ 1 \in 1..n
    BY DEF Joined
  <1>2. ASSUME NEW i \in 1..n, i - 1 \in P PROVE Kept(i)
    <2>1. CASE i = 1
      <3>1. Len(f[1]) <= 1
        BY <1>1
      <3>2. \A k \in 1..1 : k = 1
        OBVIOUS
      <3>3. QED BY <1>1, <2>1, <3>1, <3>2
    <2>2. CASE i # 1
      <3>1. i - 1 \in 1..n /\ i \in 2..n
        BY <2>2
      <3>2. f[i] = f[i - 1] \o s[i] /\ f[i - 1] \in Seq(X) /\ s[i] \in Seq(X) /\ Kept(i - 1)
        <4>1. f[i] = f[i - 1] \o s[i] /\ f[i - 1] \in Seq(X) /\ s[i] \in Seq(X)
          BY <3>1 DEF Joined
        <4>2. i - 1 # 0 /\ i - 1 \in P
          BY <1>2, <3>1
        <4>3. Kept(i - 1)
          BY <4>2
        <4>4. QED BY <4>1, <4>3
      <3>3. PICK q \in Seq(X), r \in Seq(X) : q = f[i - 1] /\ r = s[i]
        BY <3>2
      <3>4. /\ Len(q \o r) = Len(q) + Len(r)
            /\ \A j \in 1..Len(q) : (q \o r)[j] = q[j]
            /\ \A j \in 1..Len(r) : (q \o r)[Len(q) + j] = r[j]
        OBVIOUS
      <3>5. Len(q) <= i - 1 /\ Len(r) <= 1
        BY <3>2, <3>3
      <3>6. Len(q \o r) <= i
        BY <3>4, <3>5
      <3>7. ASSUME NEW k \in 1..i, NEW j \in 1..Len(s[k])
            PROVE  \E p \in 1..Len(q \o r) : (q \o r)[p] = s[k][j]
        <4>1. CASE k = i
          <5>1. j \in 1..Len(r) /\ s[k][j] = r[j]
            BY <3>3, <4>1
          <5>2. Len(q) + j \in 1..Len(q \o r)
            BY <3>4, <5>1
          <5>3. QED BY <3>4, <5>1, <5>2
        <4>2. CASE k # i
          <5>1. k \in 1..(i - 1)
            BY <4>2
          <5>2. PICK p \in 1..Len(q) : q[p] = s[k][j]
            BY <3>2, <3>3, <5>1
          <5>3. p \in 1..Len(q \o r) /\ (q \o r)[p] = q[p]
            BY <3>4
          <5>4. QED BY <5>2, <5>3
        <4>3. QED BY <4>1, <4>2
      <3>8. f[i] = q \o r
        BY <3>2, <3>3
      <3>9. QED BY <3>6, <3>7, <3>8
    <2>3. QED BY <2>1, <2>2
  <1> HIDE DEF Kept
  <1>3. \A i \in 1..n : i - 1 \in P => i \in P
    BY <1>2
  <1>4. P \subseteq 0..n /\ 0 \in P
    OBVIOUS
  <1> HIDE DEF P
  <1>5. P = 0..n
    BY <1>3, <1>4, IndexInduction
  <1>6. n \in P /\ n # 0
    BY <1>5
  <1>7. QED BY <1>6 DEF P, Kept, Gathers

\* The last index of a set of indices.
LEMMA LastIndex ==
    ASSUME NEW n \in Nat, NEW T \in SUBSET (1..n), T # {}
    PROVE  Max(T) \in T /\ \A i \in T : i <= Max(T)
  <1> DEFINE Above == {m \in Nat : \A i \in T : i <= m}
  <1>1. n \in Above
    OBVIOUS
  <1>2. PICK m \in Above : \A k \in Above : m <= k
    <2>1. Above \subseteq Nat /\ Above # {}
      BY <1>1
    <2>2. QED BY <2>1, Smallest
  <1>3. m \in T
    <2>1. SUFFICES ASSUME m \notin T PROVE FALSE
      OBVIOUS
    <2>2. \A i \in T : i \in 1..n /\ i <= m /\ i # m
      BY <2>1
    <2>3. PICK i \in T : i \in 1..n
      OBVIOUS
    <2>4. m \in Nat /\ m - 1 \in Nat /\ ~(m <= m - 1)
      BY <2>2, <2>3
    <2>5. m - 1 \in Above
      BY <2>2, <2>4
    <2>6. QED BY <1>2, <2>4, <2>5
  <1>4. \E x \in T : \A y \in T : x >= y
    BY <1>3
  <1>5. Max(T) \in T /\ \A y \in T : Max(T) >= y
    BY <1>4 DEF Max
  <1>6. \A i \in T : i \in Int
    OBVIOUS
  <1>7. QED BY <1>5, <1>6

\* What an answer is after one more suggestion.
More(r, x) == IF Len(r) < AnswerLimit /\ ~Contains(r, x) THEN Append(r, x) ELSE r

\* The answers after each of the suggestions.
Taking(g, s, n) == /\ g[0] = <<>>
                   /\ \A i \in 1..n : g[i] = More(g[i - 1], s[i])

\* x is one of the suggestions.
Listed(x, r) == \E i \in 1..Len(r) : r[i] = x

\* An answer remains a sequence of suggestions.
LEMMA MoreIsAnswer ==
    ASSUME NEW X, NEW r \in Seq(X), NEW x \in X
    PROVE  /\ More(r, x) \in Seq(X)
           /\ Len(More(r, x)) <= Len(r) + 1
           /\ \A i \in 1..Len(r) : i \in 1..Len(More(r, x)) /\ More(r, x)[i] = r[i]
           /\ Len(r) < AnswerLimit => Listed(x, More(r, x))
  <1>1. CASE Len(r) < AnswerLimit /\ ~Contains(r, x)
    <2>1. More(r, x) = Append(r, x)
      BY <1>1 DEF More
    <2>2. /\ Append(r, x) \in Seq(X)
          /\ Len(Append(r, x)) = Len(r) + 1
          /\ \A i \in 1..Len(r) : Append(r, x)[i] = r[i]
          /\ Append(r, x)[Len(r) + 1] = x
      OBVIOUS
    <2>3. Len(r) \in Nat
      OBVIOUS
    <2>4. QED BY <2>1, <2>2, <2>3 DEF Listed
  <1>2. CASE ~(Len(r) < AnswerLimit /\ ~Contains(r, x))
    <2>1. More(r, x) = r
      BY <1>2 DEF More
    <2>2. Len(r) \in Nat
      OBVIOUS
    <2>3. QED BY <1>2, <2>1, <2>2 DEF Contains, Listed
  <1>3. QED BY <1>1, <1>2

\* The answer that is made of all suggestions.
Collected(s) ==
    FoldLeft(LAMBDA r, x : IF Len(r) < AnswerLimit /\ ~Contains(r, x) THEN Append(r, x) ELSE r,
             <<>>, s)

\* FoldLeft takes the suggestions from left to right.
LEMMA FoldTakes ==
    ASSUME NEW X, NEW n \in Nat, NEW s \in [1..n -> X]
    PROVE  \E g \in [0..n -> Seq(X)] : Taking(g, s, n) /\ Collected(s) = g[n]
  <1> DEFINE D == SUBSET (1..n)
             Result(h, T) == IF T = {} THEN <<>> ELSE More(h[T \ {Max(T)}], s[Max(T)])
             Round(h) == [T \in D |-> Result(h, T)]
             rule == [x \in [D -> Seq(X)] \X Nat |-> Round(x[1])]
             none == [T \in D |-> <<>>]
             h == CHOOSE f : f = Round(f)
  <1>1. \A T \in D : T # {} => /\ Max(T) \in T /\ Max(T) \in 1..n
                               /\ T \ {Max(T)} \in D /\ s[Max(T)] \in X
    BY LastIndex
  <1>2. \A f \in [D -> Seq(X)] : Round(f) \in [D -> Seq(X)]
    <2>1. ASSUME NEW f \in [D -> Seq(X)], NEW T \in D PROVE Result(f, T) \in Seq(X)
      <3>1. CASE T = {}
        BY <3>1
      <3>2. CASE T # {}
        <4>1. f[T \ {Max(T)}] \in Seq(X) /\ s[Max(T)] \in X
          BY <1>1, <3>2
        <4>2. More(f[T \ {Max(T)}], s[Max(T)]) \in Seq(X)
          BY <4>1, MoreIsAnswer
        <4>3. QED BY <3>2, <4>2
      <3>3. QED BY <3>1, <3>2
    <2>2. QED BY <2>1
  <1> HIDE DEF Round, D
  <1>3. rule \in [[D -> Seq(X)] \X Nat -> [D -> Seq(X)]]
    BY <1>2
  <1>4. \A f \in [D -> Seq(X)], i \in Nat : rule[<<f, i>>] = Round(f)
    OBVIOUS
  <1>5. none \in [D -> Seq(X)]
    OBVIOUS
  <1>6. \A T \in D : none[T] = <<>>
    OBVIOUS
  <1> HIDE DEF rule, none
  <1>7. PICK g : Follows(g, [D -> Seq(X)], none, rule, n)
    BY <1>3, <1>5, RecursionExists
  <1>8. /\ \A i \in 0..n : g[i] \in [D -> Seq(X)]
        /\ g[0] = none
        /\ \A i \in 1..n : g[i] = Round(g[i - 1])
    <2>1. \A i \in 1..n : i - 1 \in 0..n /\ i \in Nat
      OBVIOUS
    <2>2. QED BY <1>4, <1>7, <2>1 DEF Follows
  \* Result i rounds the answers for sets of the first i indices are right.
  <1> DEFINE Right(i) == \A T \in SUBSET (1..i) : Result(g[i], T) = g[i][T]
             P == {i \in 0..n : Right(i)}
  <1>9. 0 \in P
    <2>1. \A T \in SUBSET (1..0) : T = {}
      OBVIOUS
    <2>2. {} \in D
      BY DEF D
    <2>3. g[0][{}] = <<>>
      BY <1>6, <1>8, <2>2
    <2>4. Right(0)
      BY <2>1, <2>3
    <2> HIDE DEF Right
    <2>5. QED BY <2>4
  <1>10. ASSUME NEW i \in 1..n, i - 1 \in P PROVE Right(i)
    <2>1. SUFFICES ASSUME NEW T \in SUBSET (1..i) PROVE Result(g[i], T) = g[i][T]
      OBVIOUS
    <2>2. T \in D
      BY DEF D
    <2>3. g[i][T] = Result(g[i - 1], T)
      BY <1>8, <2>2 DEF Round
    <2>4. CASE T = {}
      BY <2>3, <2>4
    <2>5. CASE T # {}
      <3>1. PICK U : U = T \ {Max(T)}
        OBVIOUS
      <3>2. Max(T) \in T /\ \A k \in T : k <= Max(T)
        BY <2>2, <2>5, LastIndex DEF D
      <3>3. U \in SUBSET (1..(i - 1))
        <4>1. ASSUME NEW k \in U PROVE k \in 1..(i - 1)
          <5>1. k \in T /\ k # Max(T) /\ k \in 1..i /\ Max(T) \in 1..i
            BY <3>1, <3>2
          <5>2. k <= Max(T)
            BY <3>2, <5>1
          <5>3. QED BY <5>1, <5>2
        <4>2. QED BY <4>1
      <3>4. Result(g[i - 1], U) = g[i - 1][U]
        BY <1>10, <3>3
      <3>5. U \in D
        BY <2>2, <3>1 DEF D
      <3>6. g[i][U] = Result(g[i - 1], U)
        BY <1>8, <3>5 DEF Round
      <3>7. g[i][U] = g[i - 1][U]
        BY <3>4, <3>6
      <3>8. QED BY <2>3, <2>5, <3>1, <3>7
    <2>6. QED BY <2>4, <2>5
  <1> HIDE DEF Right
  <1>11. Right(n)
    <2>1. \A i \in 1..n : i - 1 \in P => i \in P
      BY <1>10
    <2>2. P \subseteq 0..n
      OBVIOUS
    <2> HIDE DEF P
    <2>3. P = 0..n
      BY <1>9, <2>1, <2>2, IndexInduction
    <2>4. n \in P
      BY <2>3
    <2>5. QED BY <2>4 DEF P
  <1>12. g[n] = Round(g[n])
    <2>1. g[n] \in [D -> Seq(X)]
      BY <1>8
    <2>2. \A T \in D : g[n][T] = Result(g[n], T)
      BY <1>11 DEF D, Right
    <2>3. QED BY <2>1, <2>2 DEF Round
  <1>13. h = Round(h)
    BY <1>12
  <1>14. Collected(s) = h[1..n]
    <2>1. DOMAIN s = 1..n
      OBVIOUS
    <2>2. QED BY <2>1 DEF Collected, FoldLeft, MapThenFoldSet, Round, More, D
  <1> HIDE DEF h
  <1> DEFINE e == [i \in 0..n |-> h[1..i]]
  <1>15. \A i \in 0..n : 1..i \in D
    BY DEF D
  <1>16. e[0] = <<>>
    <2>1. 1..0 = {} /\ 0 \in 0..n
      OBVIOUS
    <2>2. h[{}] = <<>>
      BY <1>13, <1>15, <2>1 DEF Round
    <2>3. QED BY <2>1, <2>2
  <1>17. ASSUME NEW i \in 1..n PROVE e[i] = More(e[i - 1], s[i])
    <2>1. i \in 0..n /\ i - 1 \in 0..n /\ 1..i # {} /\ i \in 1..i
      <3>1. i \in 1..i /\ i \in 0..n /\ i - 1 \in 0..n
        OBVIOUS
      <3>2. 1..i # {}
        BY <3>1
      <3>3. QED BY <3>1, <3>2
    <2>2. Max(1..i) = i
      <3>1. Max(1..i) \in 1..i /\ \A k \in 1..i : k <= Max(1..i)
        BY <1>15, <2>1, LastIndex DEF D
      <3>2. QED BY <2>1, <3>1
    <2>3. (1..i) \ {i} = 1..(i - 1)
      OBVIOUS
    <2>4. h[1..i] = More(h[1..(i - 1)], s[i])
      BY <1>13, <1>15, <2>1, <2>2, <2>3 DEF Round
    <2>5. QED BY <2>1, <2>4
  <1> DEFINE Q == {i \in 0..n : e[i] \in Seq(X)}
  <1> HIDE DEF e
  <1>18. Q = 0..n
    <2>1. 0 \in Q
      <3>1. <<>> \in Seq(X) /\ 0 \in 0..n
        OBVIOUS
      <3>2. QED BY <1>16, <3>1
    <2>2. \A i \in 1..n : i - 1 \in Q => i \in Q
      <3>1. ASSUME NEW i \in 1..n, i - 1 \in Q PROVE i \in Q
        <4>1. e[i - 1] \in Seq(X) /\ s[i] \in X
          BY <3>1
        <4>2. More(e[i - 1], s[i]) \in Seq(X)
          BY <4>1, MoreIsAnswer
        <4>3. QED BY <1>17, <4>2
      <3>2. QED BY <3>1
    <2>3. Q \subseteq 0..n
      OBVIOUS
    <2> HIDE DEF Q
    <2>4. QED BY <2>1, <2>2, <2>3, IndexInduction
  <1>19. \A i \in 0..n : e[i] \in Seq(X)
    BY <1>18
  <1>20. e \in [0..n -> Seq(X)] /\ e[n] = h[1..n]
    BY <1>19 DEF e
  <1>21. Taking(e, s, n)
    BY <1>16, <1>17 DEF Taking
  <1>22. QED BY <1>14, <1>20, <1>21

\* As long as there is room, every suggestion is taken unless it is there already.
LEMMA WhatComesFirstIsTaken ==
    ASSUME NEW X, NEW n \in Nat, NEW s \in [1..n -> X], NEW g \in [0..n -> Seq(X)], Taking(g, s, n),
           AnswerLimit \in Nat
    PROVE  \A k \in 1..n : k <= AnswerLimit => Listed(s[k], g[n])
  <1> DEFINE Held(i) == /\ Len(g[i]) <= i
                        /\ \A k \in 1..i : k <= AnswerLimit => Listed(s[k], g[i])
             P == {i \in 0..n : Held(i)}
  <1>1. ASSUME NEW i \in 1..n, Held(i - 1) PROVE Held(i)
    <2>1. i - 1 \in 0..n /\ g[i - 1] \in Seq(X) /\ s[i] \in X
      OBVIOUS
    <2>2. PICK r \in Seq(X), x \in X : r = g[i - 1] /\ x = s[i]
      BY <2>1
    <2>3. PICK q : q = More(r, x)
      OBVIOUS
    <2>4. /\ q \in Seq(X)
          /\ Len(q) <= Len(r) + 1
          /\ \A p \in 1..Len(r) : p \in 1..Len(q) /\ q[p] = r[p]
          /\ Len(r) < AnswerLimit => Listed(x, q)
      <3>1. /\ More(r, x) \in Seq(X)
            /\ Len(More(r, x)) <= Len(r) + 1
            /\ \A p \in 1..Len(r) : p \in 1..Len(More(r, x)) /\ More(r, x)[p] = r[p]
            /\ Len(r) < AnswerLimit => Listed(x, More(r, x))
        BY MoreIsAnswer
      <3>2. QED BY <2>3, <3>1
    <2>5. g[i] = q
      BY <2>2, <2>3 DEF Taking
    <2>6. Len(r) \in Nat /\ Len(q) \in Nat /\ Len(r) <= i - 1
      BY <1>1, <2>2, <2>4
    <2>7. Len(q) <= i
      BY <2>4, <2>6
    <2>8. ASSUME NEW k \in 1..i, k <= AnswerLimit PROVE Listed(s[k], q)
      <3>1. CASE k = i
        <4>1. Len(r) < AnswerLimit
          BY <2>6, <2>8, <3>1
        <4>2. QED BY <2>2, <2>4, <3>1, <4>1
      <3>2. CASE k # i
        <4>1. k \in 1..(i - 1)
          BY <3>2
        <4>2. PICK p \in 1..Len(r) : r[p] = s[k]
          BY <1>1, <2>2, <2>8, <4>1 DEF Listed
        <4>3. QED BY <2>4, <4>2 DEF Listed
      <3>3. QED BY <3>1, <3>2
    <2>9. QED BY <2>5, <2>7, <2>8
  <1>2. Held(0)
    <2>1. g[0] = <<>>
      BY DEF Taking
    <2>2. QED BY <2>1
  <1> HIDE DEF Held
  <1>3. 0 \in P /\ (\A i \in 1..n : i - 1 \in P => i \in P) /\ P \subseteq 0..n
    BY <1>1, <1>2
  <1> HIDE DEF P
  <1>4. P = 0..n
    BY <1>3, IndexInduction
  <1>5. n \in P
    BY <1>4
  <1>6. QED BY <1>5 DEF P, Held

\* The suggestion that stands for the i-th hit of the k-th kind.
Suggestion(t, k, i) == [type |-> Kinds[k], value |-> Hits(t, Kinds[k])[i].value]

\* The best hit of each kind is among the suggestions.
LEMMA BestHitsAreListed == ASSUME NEW t \in Long PROVE EachKindIsSeen(t)
  <1> DEFINE X == {Suggestion(t, k, i) : k \in 1..5, i \in 1..AnswerLimit}
             Cell(i, k) == IF i \in DOMAIN Hits(t, Kinds[k]) THEN <<Suggestion(t, k, i)>> ELSE <<>>
             Line(i) == [k \in 1..5 |-> Cell(i, k)]
             Lines == [i \in 1..AnswerLimit |-> FlattenSeq(Line(i))]
  <1>1. AnswerLimit \in Nat /\ AnswerLimit >= 5 /\ 1 \in 1..AnswerLimit
    BY BoxAssumption
  <1>2. InTurn(t) = FlattenSeq(Lines)
    BY DEF InTurn, Suggestion
  <1>3. ASSUME NEW i \in 1..AnswerLimit
        PROVE  Line(i) \in [1..5 -> Seq(X)] /\ \A k \in 1..5 : Len(Line(i)[k]) <= 1
    <2>1. ASSUME NEW k \in 1..5 PROVE Cell(i, k) \in Seq(X) /\ Len(Cell(i, k)) <= 1
      <3>1. Suggestion(t, k, i) \in X
        OBVIOUS
      <3> HIDE DEF X
      <3>2. QED BY <3>1
    <2>2. QED BY <2>1
  <1> HIDE DEF X
  <1>4. ASSUME NEW i \in 1..AnswerLimit
        PROVE  \E f \in [1..5 -> Seq(X)] : Joined(f, Line(i), 5) /\ FlattenSeq(Line(i)) = f[5]
    <2>1. PICK r : r = Line(i)
      OBVIOUS
    <2>2. r \in [1..5 -> Seq(X)]
      BY <1>3, <2>1
    <2>3. \E f \in [1..5 -> Seq(X)] : Joined(f, r, 5) /\ FlattenSeq(r) = f[5]
      <3>1. 5 \in Nat /\ 5 # 0
        OBVIOUS
      <3>2. QED BY <2>2, <3>1, FlattenSeqJoins
    <2>4. QED BY <2>1, <2>3
  <1>5. Lines \in [1..AnswerLimit -> Seq(X)]
    <2>1. ASSUME NEW i \in 1..AnswerLimit PROVE FlattenSeq(Line(i)) \in Seq(X)
      <3>1. PICK f \in [1..5 -> Seq(X)] : FlattenSeq(Line(i)) = f[5]
        BY <1>4
      <3>2. QED BY <3>1
    <2>2. QED BY <2>1
  <1>6. PICK f \in [1..AnswerLimit -> Seq(X)] :
           Joined(f, Lines, AnswerLimit) /\ FlattenSeq(Lines) = f[AnswerLimit]
    <2>1. AnswerLimit # 0
      BY <1>1
    <2> HIDE DEF Lines
    <2>2. QED BY <1>1, <1>5, <2>1, FlattenSeqJoins
  <1>7. PICK u : u = InTurn(t)
    OBVIOUS
  <1>8. PICK v : v = FlattenSeq(Line(1))
    OBVIOUS
  <1>9. Lines[1] = v
    BY <1>1, <1>8
  <1>10. u = f[AnswerLimit] /\ u \in Seq(X)
    BY <1>1, <1>2, <1>6, <1>7
  <1>11. Len(v) <= Len(u) /\ \A j \in 1..Len(v) : u[j] = v[j]
    <2>1. AnswerLimit # 0
      BY <1>1
    <2> HIDE DEF Lines
    <2>2. Len(Lines[1]) <= Len(f[AnswerLimit])
          /\ \A j \in 1..Len(Lines[1]) : f[AnswerLimit][j] = Lines[1][j]
      BY <1>1, <1>5, <1>6, <2>1, FirstComesFirst
    <2>3. QED BY <1>9, <1>10, <2>2
  <1>12. /\ v \in Seq(X) /\ Len(v) <= 5
         /\ \A k \in 1..5 : \A j \in 1..Len(Line(1)[k]) : \E p \in 1..Len(v) : v[p] = Line(1)[k][j]
    <2>1. PICK h \in [1..5 -> Seq(X)] : Joined(h, Line(1), 5) /\ v = h[5]
      BY <1>1, <1>4, <1>8
    <2>2. Line(1) \in [1..5 -> Seq(X)] /\ \A k \in 1..5 : Len(Line(1)[k]) <= 1
      BY <1>1, <1>3
    <2>3. PICK r : r = Line(1)
      OBVIOUS
    <2>4. Gathers(h[5], r, 5)
      <3>1. Joined(h, r, 5)
        BY <2>1, <2>3
      <3>2. r \in [1..5 -> Seq(X)]
        BY <2>2, <2>3
      <3>3. \A k \in 1..5 : Len(r[k]) <= 1
        BY <2>2, <2>3
      <3>4. h \in [1..5 -> Seq(X)]
        BY <2>1
      <3>5. 5 \in Nat /\ 5 # 0
        OBVIOUS
      <3>6. QED BY <3>1, <3>2, <3>3, <3>4, <3>5, SinglesAreKept
    <2>5. v = h[5] /\ v \in Seq(X)
      BY <2>1
    <2> HIDE DEF Line
    <2>6. QED BY <2>3, <2>4, <2>5 DEF Gathers
  <1>13. u \in [1..Len(u) -> X] /\ Len(u) \in Nat
    BY <1>10
  <1>14. PICK g \in [0..Len(u) -> Seq(X)] : Taking(g, u, Len(u)) /\ Answer[t] = g[Len(u)]
    <2>1. Answer[t] = Collected(u)
      BY <1>7 DEF Answer, Collected
    <2>2. \E g \in [0..Len(u) -> Seq(X)] : Taking(g, u, Len(u)) /\ Collected(u) = g[Len(u)]
      BY <1>13, FoldTakes
    <2>3. QED BY <2>1, <2>2
  <1>15. \A k \in 1..Len(u) : k <= AnswerLimit => Listed(u[k], Answer[t])
    BY <1>1, <1>13, <1>14, WhatComesFirstIsTaken
  <1>16. Answer[t] \in Seq(X)
    BY <1>13, <1>14
  <1>17. SUFFICES ASSUME NEW kind \in DOMAIN Entries, 1 \in DOMAIN Hits(t, kind)
                  PROVE  \E i \in DOMAIN Answer[t] :
                            Answer[t][i] = [type |-> kind, value |-> Hits(t, kind)[1].value]
    BY DEF EachKindIsSeen
  <1>18. PICK k \in 1..5 : kind = Kinds[k]
    BY BoxAssumption
  <1>19. Line(1)[k] = <<Suggestion(t, k, 1)>>
    BY <1>17, <1>18
  <1>20. PICK p \in 1..Len(v) : v[p] = Suggestion(t, k, 1)
    <2>1. 1 \in 1..Len(Line(1)[k]) /\ Line(1)[k][1] = Suggestion(t, k, 1)
      BY <1>19
    <2>2. PICK r : r = Line(1)[k]
      OBVIOUS
    <2>3. \A j \in 1..Len(r) : \E p \in 1..Len(v) : v[p] = r[j]
      BY <1>12, <2>2
    <2> HIDE DEF Line
    <2>4. QED BY <2>1, <2>2, <2>3
  <1>21. p \in 1..Len(u) /\ p <= AnswerLimit /\ u[p] = Suggestion(t, k, 1)
    <2>1. Len(v) \in Nat
      BY <1>12
    <2>2. QED BY <1>1, <1>11, <1>12, <1>13, <1>20, <2>1
  <1>22. Listed(Suggestion(t, k, 1), Answer[t])
    BY <1>15, <1>21
  <1>23. PICK i \in 1..Len(Answer[t]) : Answer[t][i] = Suggestion(t, k, 1)
    BY <1>22 DEF Listed
  <1>24. i \in DOMAIN Answer[t]
    BY <1>16
  <1>25. QED BY <1>18, <1>23, <1>24 DEF Suggestion

-------------------------------------------------------------------------------
(* The search box.                                                         *)

\* A request is under way for no text but the one in the box; when nothing is due
\* or under way, the list answers that text.
BoxInv ==
    /\ BoxTypeOK
    /\ flying \subseteq {text}
    /\ timer => text \in Long
    /\ (~timer /\ flying = {}) => SettledOnTheText

\* Nothing is listed, due or under way.
LEMMA BoxInitInv == BoxInit => BoxInv
  <1> SUFFICES ASSUME BoxInit PROVE BoxInv
    OBVIOUS
  <1>1. timer \in BOOLEAN /\ (timer => text \in Long)
    <2>1. timer = (text \in Long)
      BY DEF BoxInit
    <2>2. timer \in BOOLEAN
      BY <2>1
    <2>3. timer => text \in Long
      BY <2>1
    <2>4. QED BY <2>2, <2>3
  <1>2. /\ text \in Long \cup Short /\ list = <<>> /\ active = 0 /\ flying = {}
        /\ shown = FALSE /\ busy = FALSE
    BY DEF BoxInit
  <1>3. 0 \in 0..AnswerLimit
    BY BoxAssumption
  <1>4. QED BY <1>1, <1>2, <1>3 DEF BoxInv, BoxTypeOK, SettledOnTheText

\* The visitor types: the timer and the requests of another text are given up.
LEMMA TypingKeepsInv ==
    ASSUME BoxInv, NEW t \in Long \cup Short, Type(t) \/ Clear(t) \/ Open(t)
    PROVE  BoxInv'
  <1>1. text' = t /\ active' = active
    BY DEF Type, Clear, Open, Typed
  <1>2. /\ timer' \in BOOLEAN /\ flying' \subseteq {t} /\ flying' \subseteq Long
        /\ timer' => t \in Long
        /\ t # text => timer' = (t \in Long) /\ flying' = {}
        /\ t = text => UNCHANGED <<timer, flying>>
    <2>1. Typed(t)
      BY DEF Type, Clear, Open
    <2>2. CASE t = text
      BY <2>1, <2>2 DEF Typed, BoxInv, BoxTypeOK
    <2>3. CASE t # text
      <3>1. (timer' = (t \in Long)) /\ flying' = {}
        BY <2>1, <2>3 DEF Typed, StillFlying
      <3>2. timer' \in BOOLEAN
        BY <3>1
      <3>3. timer' => t \in Long
        BY <3>1
      <3>4. QED BY <2>3, <3>1, <3>2, <3>3
    <2>4. QED BY <2>2, <2>3
  <1>3. /\ list' \in {list, <<>>} /\ shown' \in BOOLEAN /\ busy' \in BOOLEAN
        /\ t \in Short => list' = <<>> /\ busy' = FALSE
        /\ t \in Long => UNCHANGED <<list, busy>>
    BY BoxAssumption DEF Type, Clear, Open, BoxInv, BoxTypeOK
  <1>4. BoxTypeOK'
    BY <1>1, <1>2, <1>3 DEF BoxInv, BoxTypeOK
  <1>5. (~timer' /\ flying' = {}) => SettledOnTheText'
    BY <1>1, <1>2, <1>3 DEF BoxInv, SettledOnTheText
  <1>6. QED BY <1>1, <1>2, <1>4, <1>5 DEF BoxInv

\* A request goes out, is answered, or fails.
LEMMA RequestsKeepInv ==
    ASSUME BoxInv, TimerFires \/ (\E t \in Long : Arrives(t) \/ Breaks(t))
    PROVE  BoxInv'
  <1>1. CASE TimerFires
    <2>1. BoxTypeOK'
      BY <1>1 DEF TimerFires, BoxInv, BoxTypeOK
    <2>2. QED BY <1>1, <2>1 DEF TimerFires, BoxInv
  <1>2. ASSUME NEW t \in Long, Arrives(t) PROVE BoxInv'
    <2>1. t = text /\ UNCHANGED <<text, timer>>
      BY <1>2 DEF Arrives, BoxInv
    <2>2. list' \in {Answer[text], <<>>} /\ busy' = FALSE
      BY <1>2, <2>1 DEF Arrives
    <2>3. BoxTypeOK'
      <3>1. /\ text' \in Long \cup Short /\ flying' \subseteq Long /\ timer' \in BOOLEAN
            /\ busy' \in BOOLEAN /\ shown' \in BOOLEAN
        BY <1>2, <2>1, <2>2 DEF Arrives, BoxInv, BoxTypeOK
      <3>2. active' \in 0..AnswerLimit
        BY <1>2, BoxAssumption DEF Arrives
      <3>3. list' \in {<<>>} \cup {Answer[u] : u \in Long}
        BY <2>1, <2>2
      <3>4. QED BY <3>1, <3>2, <3>3 DEF BoxTypeOK
    <2>4. QED BY <1>2, <2>1, <2>2, <2>3 DEF Arrives, BoxInv, SettledOnTheText
  <1>3. ASSUME NEW t \in Long, Breaks(t) PROVE BoxInv'
    <2>1. BoxTypeOK'
      BY <1>3 DEF Breaks, BoxInv, BoxTypeOK
    <2>2. QED BY <1>3, <2>1 DEF Breaks, BoxInv, SettledOnTheText
  <1>4. QED BY <1>1, <1>2, <1>3

\* Every step keeps the invariant.
LEMMA BoxNextInv == BoxInv /\ [BoxNext]_boxVars => BoxInv'
  <1> SUFFICES ASSUME BoxInv, [BoxNext]_boxVars PROVE BoxInv'
    OBVIOUS
  <1>1. CASE (\E i \in 1..AnswerLimit : Highlight(i)) \/ Hide \/ Focus \/ UNCHANGED boxVars
    <2>1. /\ UNCHANGED <<text, list, busy, timer, flying>>
          /\ active' \in 0..AnswerLimit /\ shown' \in BOOLEAN
      <3>1. active \in 0..AnswerLimit /\ shown \in BOOLEAN
        BY DEF BoxInv, BoxTypeOK
      <3>2. ASSUME NEW i \in 1..AnswerLimit PROVE i \in 0..AnswerLimit
        BY BoxAssumption
      <3>3. QED BY <1>1, <3>1, <3>2 DEF Highlight, Hide, Focus, boxVars
    <2>2. QED BY <2>1 DEF BoxInv, BoxTypeOK, SettledOnTheText
  <1>2. QED BY <1>1, TypingKeepsInv, RequestsKeepInv DEF BoxNext

\* What is typed, listed and under way has its type.
THEOREM BoxTypeCorrect == BoxSpec => []BoxTypeOK
  <1>1. BoxInv => BoxTypeOK
    BY DEF BoxInv
  <1>2. QED BY <1>1, BoxInitInv, BoxNextInv, PTL DEF BoxSpec

\* When no request is due or under way, the list answers the text in the box, the
\* best hit of each kind among it.
THEOREM BoxSafe == BoxSpec => []BoxAnswersTheText
  <1>1. BoxInv => BoxAnswersTheText
    BY BestHitsAreListed DEF BoxInv, BoxAnswersTheText, SettledOnTheText
  <1>2. QED BY <1>1, BoxInitInv, BoxNextInv, PTL DEF BoxSpec

-------------------------------------------------------------------------------
(* The demo data.                                                          *)

\* What the rows of the order may say, whatever was stopped and whatever ended.
RowsOK ==
    /\ target \in Unreserved => hold = "NONE"
    /\ hold = "CONSUMED" => target = "COMPLETED" /\ status = target
    /\ hold = "EXPIRED" => late \/ target = "RESERVATION_EXPIRED"
    /\ target = "RESERVATION_EXPIRED" => hold \in {"NONE", "EXPIRED"}
    /\ status \in {"NONE", Initial, target, "RESERVATION_EXPIRED"}
    /\ status = "RESERVATION_EXPIRED" => hold = "EXPIRED" \/ target = "RESERVATION_EXPIRED"
    /\ target \notin NeedsPayment => paymentStatus = "NONE"
    /\ paymentStatus = "PROOF_UPLOADED" => target = "PAYMENT_VERIFICATION"
    /\ paymentStatus = "CONFIRMED" => target \in Paid

\* The statements that follow others.
Closing == {"count", "history", "done"}
Settled == {"consume"} \cup Closing
Confirmed == {"settle"} \cup Settled
Uploaded == {"confirm"} \cup Confirmed
Held == {"payment", "proof"} \cup Uploaded
WithOrder == {"hold"} \cup Held

\* What a run has done by the time it is at a statement.
RunOK ==
    /\ step \in WithOrder =>
          /\ status # "NONE"
          /\ (target \in Paid /\ seen.status = target) => status = target
    /\ (step \in Held /\ target \notin Unreserved)
          => /\ hold # "NONE" /\ seen.hold # "NONE"
             /\ seen.hold # "ACTIVE" => hold = seen.hold
    /\ (step \in Held \ {"payment"} /\ target \in NeedsPayment) => paymentStatus # "NONE"
    /\ (step \in Uploaded /\ target = "PAYMENT_VERIFICATION") => paymentStatus = "PROOF_UPLOADED"
    /\ (step \in Confirmed /\ target \in Paid) => paymentStatus = "CONFIRMED"
    /\ (step \in Settled /\ target \in Paid) => status = target
    /\ (step \in Closing /\ target = "COMPLETED") => hold # "ACTIVE"
    /\ step = "history" => history < StepsTo(target)

\* The inductive invariant of the demo data.
DemoInv == DemoTypeOK /\ RowsOK /\ RunOK

\* Every target has a history of one to eight steps.
LEMMA HistoriesAreShort ==
    ASSUME NEW s \in Targets
    PROVE  StepsTo(s) \in 1..8 /\ Len(Path) = 8
  <1>1. DOMAIN Path = 1..8 /\ Len(Path) = 8
    BY DEF Path
  <1>2. CASE s \in {"CANCELLED_BY_STORE", "RESERVATION_EXPIRED"}
    BY <1>1, <1>2 DEF StepsTo
  <1>3. CASE s \notin {"CANCELLED_BY_STORE", "RESERVATION_EXPIRED"}
    <2>1. \E i \in 1..8 : Path[i] = s
      <3>1. /\ Path[2] = "AWAITING_STOCK_CONFIRMATION" /\ Path[3] = "AWAITING_PAYMENT"
            /\ Path[4] = "PAYMENT_VERIFICATION" /\ Path[5] = "PAID" /\ Path[6] = "ASSEMBLING"
            /\ Path[7] = "READY_FOR_PICKUP" /\ Path[8] = "COMPLETED"
        BY DEF Path
      <3>2. QED BY <1>3, <3>1 DEF Targets, Paid
    <2>2. StepsTo(s) = CHOOSE i \in DOMAIN Path : Path[i] = s
      BY <1>3 DEF StepsTo
    <2>3. QED BY <1>1, <2>1, <2>2
  <1>4. QED BY <1>2, <1>3

\* No row, and no run yet.
LEMMA DemoInitInv == DemoInit => DemoInv
  <1> SUFFICES ASSUME DemoInit PROVE DemoInv
    OBVIOUS
  <1>1. DemoTypeOK
    <2>1. target \in Targets
      BY DEF DemoInit
    <2>2. Len(Path) = 8
      BY <2>1, HistoriesAreShort
    <2>3. 0 \in 0..Len(Path)
      BY <2>2
    <2>4. QED BY <2>1, <2>3 DEF DemoInit, DemoTypeOK, Holds, NothingSeen
  <1>2. RowsOK /\ RunOK
    BY DEF DemoInit, RowsOK, RunOK, WithOrder, Held, Uploaded, Confirmed, Settled, Closing
  <1>3. QED BY <1>1, <1>2 DEF DemoInv

\* Every statement, and every end of the reservation, keeps the invariant.
LEMMA DemoNextInv == DemoInv /\ [DemoNext]_demoVars => DemoInv'
  <1> SUFFICES ASSUME DemoInv, [DemoNext]_demoVars PROVE DemoInv'
    OBVIOUS
  <1> USE DEF DemoInv
  <1>1. target' = target /\ Initial' = Initial
    BY DEF DemoNext, demoVars, Run, FindOrder, FindHold, FindPayment, SendProof, ConfirmPayment,
           SettleOrder, ConsumeHold, CountHistory, WriteHistory, Stop, DayPasses, Expire, Initial
  <1>2. /\ target \in Targets /\ StepsTo(target) \in 1..8 /\ Len(Path) = 8 /\ history \in 0..8
        /\ late \in BOOLEAN
    BY HistoriesAreShort DEF DemoTypeOK
  <1>3. CASE Run
    BY <1>1, <1>3
    DEF Run, NothingSeen, DemoTypeOK, Holds, RowsOK, RunOK, WithOrder, Held, Uploaded, Confirmed, Settled, Closing
  <1>4. CASE FindOrder
    <2>1. status' # "NONE" /\ status' \in Targets /\ (status # "NONE" => status' = status)
          /\ (status = "NONE" => status' = Initial)
      BY <1>2, <1>4 DEF FindOrder, DemoTypeOK, Initial, Targets
    <2>2. seen' \in [status : Targets \cup {"NONE"}, hold : Holds] /\ seen'.status = status'
      BY <1>4, <2>1 DEF FindOrder, DemoTypeOK
    <2>3. DemoTypeOK'
      BY <1>1, <1>2, <1>4, <2>1, <2>2 DEF FindOrder, Goes, DemoTypeOK
    <2>4. RowsOK'
      BY <1>1, <1>4, <2>1 DEF FindOrder, RowsOK, Initial, Paid, DemoTypeOK
    <2>5. RunOK'
      BY <1>1, <1>4, <2>1, <2>2
      DEF FindOrder, Goes, RunOK, WithOrder, Held, Uploaded, Confirmed, Settled, Closing
    <2>6. QED BY <2>3, <2>4, <2>5
  <1>5. CASE FindHold
    <2>1. /\ hold' \in Holds /\ (hold # "NONE" => hold' = hold)
          /\ hold = "NONE" => hold' \in {"NONE", "ACTIVE", "EXPIRED"}
          /\ (hold = "NONE" /\ hold' = "EXPIRED") => target = "RESERVATION_EXPIRED"
          /\ target = "RESERVATION_EXPIRED" => (hold = "NONE" => hold' = "EXPIRED")
          /\ target \in Unreserved => hold' = hold
          /\ target \notin Unreserved => hold' # "NONE"
      <3>1. hold \in Holds
        BY DEF DemoTypeOK
      <3>2. hold' = IF target \in Unreserved \/ hold # "NONE" THEN hold
                    ELSE IF target = "RESERVATION_EXPIRED" THEN "EXPIRED" ELSE "ACTIVE"
        BY <1>5 DEF FindHold, NoHold
      <3>3. target = "RESERVATION_EXPIRED" => target \notin Unreserved
        BY DEF Unreserved
      <3>4. QED BY <3>1, <3>2, <3>3 DEF Holds
    <2>2. seen' \in [status : Targets \cup {"NONE"}, hold : Holds] /\ seen'.hold = hold'
          /\ seen'.status = seen.status
      BY <1>5, <2>1 DEF FindHold, DemoTypeOK
    <2>3. step = "hold" /\ step' = (IF target \in NeedsPayment THEN "payment" ELSE "settle")
      BY <1>5 DEF FindHold, Goes
    <2>4. UNCHANGED <<target, status, paymentStatus, history, late>>
      BY <1>5 DEF FindHold
    <2>5. DemoTypeOK'
      BY <1>1, <1>2, <2>1, <2>2, <2>3, <2>4 DEF DemoTypeOK
    <2>6. RowsOK'
      BY <1>1, <2>1, <2>4 DEF RowsOK, Unreserved
    <2>7. RunOK'
      BY <1>1, <2>1, <2>2, <2>3, <2>4
      DEF RunOK, WithOrder, Held, Uploaded, Confirmed, Settled, Closing, NeedsPayment, Payable
    <2>8. QED BY <2>5, <2>6, <2>7
  <1>6. CASE FindPayment
    <2>1. /\ UNCHANGED <<target, status, hold, history, late, seen>>
          /\ step = "payment" /\ step' = "proof"
          /\ paymentStatus' # "NONE" /\ (paymentStatus # "NONE" => paymentStatus' = paymentStatus)
          /\ (paymentStatus = "NONE" => paymentStatus' = "PENDING" /\ status \in Payable)
      BY <1>6 DEF FindPayment, Goes, InForce
    <2>2. DemoTypeOK'
      BY <2>1 DEF DemoTypeOK
    <2>3. (status \in Payable) => target \in NeedsPayment
      BY DEF RowsOK, Initial, Payable, NeedsPayment
    <2>4. RowsOK'
      BY <1>1, <2>1, <2>3 DEF RowsOK
    <2>5. RunOK'
      BY <1>1, <2>1 DEF RunOK, WithOrder, Held, Uploaded, Confirmed, Settled, Closing
    <2>6. QED BY <2>2, <2>4, <2>5
  <1>7. CASE SendProof
    <2>1. /\ UNCHANGED <<target, status, hold, history, late, seen>>
          /\ step = "proof" /\ step' = "confirm"
          /\ paymentStatus' = IF target = "PAYMENT_VERIFICATION" /\ paymentStatus = "PENDING"
                              THEN "PROOF_UPLOADED" ELSE paymentStatus
      BY <1>7 DEF SendProof, Goes
    <2>2. DemoTypeOK'
      BY <2>1 DEF DemoTypeOK
    <2>3. RowsOK'
      BY <1>1, <2>1 DEF RowsOK, NeedsPayment, Payable, Paid
    <2>4. RunOK'
      BY <1>1, <2>1
      DEF RunOK, RowsOK, DemoTypeOK, WithOrder, Held, Uploaded, Confirmed, Settled, Closing,
          NeedsPayment, Payable, Paid
    <2>5. QED BY <2>2, <2>3, <2>4
  <1>8. CASE ConfirmPayment
    <2>1. /\ UNCHANGED <<target, status, hold, history, late, seen>>
          /\ step = "confirm" /\ step' = "settle"
          /\ paymentStatus' = IF target \in Paid THEN "CONFIRMED" ELSE paymentStatus
      BY <1>8 DEF ConfirmPayment, Goes
    <2>2. DemoTypeOK'
      BY <2>1 DEF DemoTypeOK
    <2>3. RowsOK'
      BY <1>1, <2>1 DEF RowsOK, NeedsPayment
    <2>4. RunOK'
      BY <1>1, <2>1
      DEF RunOK, WithOrder, Held, Uploaded, Confirmed, Settled, Closing, Paid
    <2>5. QED BY <2>2, <2>3, <2>4
  <1>9. CASE SettleOrder
    <2>1. /\ UNCHANGED <<target, hold, paymentStatus, history, late, seen>>
          /\ step = "settle" /\ step' = "consume"
          /\ status' = IF target \in Paid /\ seen.status # target THEN target ELSE status
      BY <1>9 DEF SettleOrder, Goes, Unsettled
    <2>2. DemoTypeOK'
      BY <1>1, <2>1 DEF DemoTypeOK
    <2>3. RowsOK'
      BY <1>1, <2>1 DEF RowsOK, Paid
    <2>4. step \in WithOrder /\ step \in Confirmed /\ step \in Held \ {"payment"}
          /\ step \in Uploaded
      BY <2>1 DEF WithOrder, Held, Uploaded, Confirmed
    <2>5. /\ status' # "NONE"
          /\ target \in Paid => status' = target
      BY <1>2, <2>1, <2>4 DEF RunOK, Targets, Paid
    <2>6. RunOK'
      BY <1>1, <2>1, <2>4, <2>5 DEF RunOK, Closing
    <2>7. QED BY <2>2, <2>3, <2>6
  <1>10. CASE ConsumeHold
    <2>1. /\ UNCHANGED <<target, status, paymentStatus, history, late, seen>>
          /\ step = "consume" /\ step' = "count"
          /\ hold' = IF target = "COMPLETED" /\ seen.hold = "ACTIVE" THEN "CONSUMED" ELSE hold
      BY <1>10 DEF ConsumeHold, Goes, UsesUp
    <2>2. DemoTypeOK'
      BY <1>1, <2>1 DEF DemoTypeOK, Holds
    <2>3. target = "COMPLETED" => status = target
      BY <2>1 DEF RunOK, Settled, Paid
    <2>4. RowsOK'
      BY <1>1, <2>1, <2>3 DEF RowsOK, Unreserved
    <2>5. RunOK'
      BY <1>1, <2>1
      DEF RunOK, WithOrder, Held, Uploaded, Confirmed, Settled, Closing, Unreserved
    <2>6. QED BY <2>2, <2>4, <2>5
  <1>11. CASE CountHistory
    <2>1. /\ UNCHANGED <<target, status, hold, paymentStatus, history, late, seen>>
          /\ step = "count" /\ step' = (IF history = 0 THEN "history" ELSE "done")
      BY <1>11 DEF CountHistory, Goes
    <2>2. DemoTypeOK' /\ RowsOK'
      BY <1>1, <2>1 DEF DemoTypeOK, RowsOK
    <2>3. RunOK'
      BY <1>1, <1>2, <2>1 DEF RunOK, WithOrder, Held, Uploaded, Confirmed, Settled, Closing
    <2>4. QED BY <2>2, <2>3
  <1>12. CASE WriteHistory
    <2>1. /\ UNCHANGED <<target, status, hold, paymentStatus, late, seen>>
          /\ step = "history" /\ history' = history + 1
          /\ step' = (IF history' = StepsTo(target) THEN "done" ELSE "history")
      BY <1>12 DEF WriteHistory
    <2>2. history < StepsTo(target)
      BY <2>1 DEF RunOK
    <2>3. history' \in 0..8 /\ (step' = "history" => history' < StepsTo(target))
      <3>1. PICK n \in 1..8 : n = StepsTo(target)
        BY <1>2
      <3>2. step' = (IF history' = n THEN "done" ELSE "history") /\ history < n
        BY <2>1, <2>2, <3>1
      <3>3. history' \in 0..8 /\ (step' = "history" => history' < n)
        BY <1>2, <2>1, <3>2
      <3>4. QED BY <3>1, <3>3
    <2>4. DemoTypeOK' /\ RowsOK'
      BY <1>1, <1>2, <2>1, <2>3 DEF DemoTypeOK, RowsOK
    <2>5. RunOK'
      BY <1>1, <2>1, <2>3 DEF RunOK, WithOrder, Held, Uploaded, Confirmed, Settled, Closing
    <2>6. QED BY <2>4, <2>5
  <1>13. CASE Stop \/ DayPasses \/ UNCHANGED demoVars
    <2>1. /\ UNCHANGED <<target, status, hold, paymentStatus, history, seen>>
          /\ step' \in {step, "off"} /\ (late' = late \/ late' = TRUE)
      BY <1>13 DEF Stop, DayPasses, demoVars
    <2>2. late' \in BOOLEAN /\ (late => late')
      <3>1. late' \in BOOLEAN
        BY <1>2, <2>1
      <3>2. late => late'
        BY <2>1
      <3>3. QED BY <3>1, <3>2
    <2>3. DemoTypeOK'
      BY <1>1, <2>1, <2>2 DEF DemoTypeOK
    <2>4. RowsOK'
      BY <1>1, <2>1, <2>2 DEF RowsOK
    <2>5. RunOK'
      BY <1>1, <2>1 DEF RunOK, WithOrder, Held, Uploaded, Confirmed, Settled, Closing
    <2>6. QED BY <2>3, <2>4, <2>5
  <1>14. CASE Expire
    <2>1. /\ UNCHANGED <<target, paymentStatus, history, late, step, seen>>
          /\ late /\ status \in Payable /\ hold = "ACTIVE"
          /\ status' = "RESERVATION_EXPIRED" /\ hold' = "EXPIRED"
      BY <1>14 DEF Expire
    <2>2. DemoTypeOK'
      BY <1>1, <2>1 DEF DemoTypeOK, Holds, Targets
    <2>3. RowsOK'
      BY <1>1, <2>1 DEF RowsOK
    <2>4. target \in Paid => status # target
      BY <2>1 DEF Payable, Paid
    <2>5. RunOK'
      BY <1>1, <2>1, <2>4 DEF RunOK
    <2>6. QED BY <2>2, <2>3, <2>5
  <1>15. QED
    BY <1>3, <1>4, <1>5, <1>6, <1>7, <1>8, <1>9, <1>10, <1>11, <1>12, <1>13, <1>14 DEF DemoNext

\* The order's rows and the run have their types.
THEOREM DemoTypeCorrect == DemoSpec => []DemoTypeOK
  <1>1. DemoInv => DemoTypeOK
    BY DEF DemoInv
  <1>2. QED BY <1>1, DemoInitInv, DemoNextInv, PTL DEF DemoSpec

\* A run that comes to the history left the order as its target says, unless its
\* reservation had ended.
THEOREM SeedingIsSafe == DemoSpec => []SeedingHeals
  <1>1. DemoInv => SeedingHeals
    <2> SUFFICES ASSUME DemoInv, step \in Closing, ~(late /\ hold = "EXPIRED")
                 PROVE  SeedingHeals
      BY DEF SeedingHeals, Closing
    <2>1. /\ target \in Targets /\ status \in Targets \cup {"NONE"} /\ hold \in Holds
          /\ paymentStatus \in {"NONE", "PENDING", "PROOF_UPLOADED", "CONFIRMED"}
          /\ RowsOK /\ RunOK
      BY DEF DemoInv, DemoTypeOK
    <2>2. /\ step \in WithOrder /\ step \in Held \ {"payment"} /\ step \in Uploaded
          /\ step \in Confirmed /\ step \in Settled
      BY DEF WithOrder, Held, Uploaded, Confirmed, Settled, Closing
    <2>3. status = target
      BY <2>1, <2>2 DEF RowsOK, RunOK, Initial
    <2>4. hold = (CASE target \in Unreserved -> "NONE"
                    [] target = "COMPLETED" -> "CONSUMED"
                    [] target = "RESERVATION_EXPIRED" -> "EXPIRED"
                    [] OTHER -> "ACTIVE")
      BY <2>1, <2>2 DEF RowsOK, RunOK, Unreserved, Holds
    <2>5. paymentStatus = (CASE target \in Paid -> "CONFIRMED"
                             [] target = "PAYMENT_VERIFICATION" -> "PROOF_UPLOADED"
                             [] target = "AWAITING_PAYMENT" -> "PENDING"
                             [] OTHER -> "NONE")
      BY <2>1, <2>2 DEF RowsOK, RunOK, Paid, NeedsPayment, Payable, Targets
    <2>6. QED BY <2>3, <2>4, <2>5 DEF SeedingHeals
  <1>2. QED BY <1>1, DemoInitInv, DemoNextInv, PTL DEF DemoSpec

-------------------------------------------------------------------------------
(* Signed requests between the site and 1C: the inductive invariant.       *)

\* A call in progress has a command, may try again only below the limit, and
\* waits for the answer to a request of its own command.  What it was told is true
\* of the key, or is what its last request was answered.
CallInv(c) ==
    LET k == call[c] IN
    /\ k.stage # "idle" => k.content \in Contents
    /\ k.stage \in {"sign", "pause"} => k.tries < MaxTries
    /\ k.stage = "waits" => /\ k.nonce \in Nonces
                            /\ sent[k.nonce].state # "new"
                            /\ sent[k.nonce].content = k.content
    /\ k.stage = "receipt" => taken = k.content
    /\ k.reason = "conflict" => taken \notin {NoContent, k.content}
    /\ k.reason = "replay" => /\ k.stage = "final" /\ k.nonce \in Nonces
                              /\ sent[k.nonce].answer = "replay"

\* Before its first answer a request has neither a claim nor an entry, and once
\* it was let in its nonce is kept until its time has left the window for good,
\* by a second.
RequestInv(n) ==
    /\ sent[n].state # "new" => sent[n].content \in Contents
    /\ sent[n].state # "handled" => nonce[n] = 0 /\ entered[n] = 0 /\ sent[n].answer = "none"
    /\ entered[n] # 0 => nonce[n] >= sent[n].at + Tolerance + Second

\* What a request was answered is true of the key.  One that was refused as a
\* replay when it came first was not let in, and no copy of it can be any more.
AnswerInv(n) ==
    /\ sent[n].answer = "receipt" => taken = sent[n].content
    /\ sent[n].answer = "conflict" => taken \notin {NoContent, sent[n].content}
    /\ sent[n].answer = "replay" => /\ entered[n] = 0 /\ clock > sent[n].at + Tolerance
                                    /\ \A h \in Handlers : check[h].nonce # n

\* The request was in the window when the guard read its clock.
CheckInv(h) ==
    LET k == check[h] IN
    k # Free => /\ k.nonce \in Nonces
                /\ k.now <= clock
                /\ sent[k.nonce].at <= k.now + Tolerance
                /\ k.now <= sent[k.nonce].at + Tolerance
                /\ sent[k.nonce].state = (IF k.copy THEN "handled" ELSE "out")

\* A request that comes first comes alone.
FirstIsAlone ==
    \A g, h \in Handlers :
        (check[g] # Free /\ ~check[g].copy /\ check[h].nonce = check[g].nonce) => g = h

\* The inductive invariant of signed requests.
TransportInv ==
    /\ TransportTypeOK
    /\ \A c \in Callers : CallInv(c)
    /\ \A n \in Nonces : RequestInv(n)
    /\ \A n \in Nonces : AnswerInv(n)
    /\ \A h \in Handlers : CheckInv(h)
    /\ FirstIsAlone

\* No call yet, nothing was signed.
LEMMA TransportInitInv == TransportInit => TransportInv
  BY TransportNamesAssumption, TransportTimesAssumption
  DEF TransportInit, TransportInv, TransportTypeOK, CallInv, RequestInv,
      AnswerInv, CheckInv, FirstIsAlone, Call, Request, Check, NoCall, Free

-------------------------------------------------------------------------------
(* Signed requests: the steps of calls.                                    *)

\* A step that only moves one call on, to something that is right by itself.
LEMMA CallMoves ==
    ASSUME TransportInv, NEW c \in Callers, NEW k \in Call,
           call' = [call EXCEPT ![c] = k],
           UNCHANGED <<clock, sent, nonce, check, entered, taken>>,
           k.stage # "idle" => k.content \in Contents,
           k.stage \in {"sign", "pause"} => k.tries < MaxTries,
           k.stage # "waits",
           k.stage = "receipt" => taken = k.content,
           k.reason = "conflict" => taken \notin {NoContent, k.content},
           k.reason = "replay" => /\ k.stage = "final" /\ k.nonce \in Nonces
                                  /\ sent[k.nonce].answer = "replay"
    PROVE  TransportInv'
  <1>1. TransportTypeOK'
    BY DEF TransportInv, TransportTypeOK
  <1>2. \A d \in Callers : call'[d] = IF d = c THEN k ELSE call[d]
    BY DEF TransportInv, TransportTypeOK
  <1>4. \A d \in Callers : CallInv(d)'
    BY <1>2 DEF TransportInv, CallInv
  <1>5. \A n \in Nonces : RequestInv(n)' /\ AnswerInv(n)'
    BY DEF TransportInv, RequestInv, AnswerInv
  <1>6. (\A h \in Handlers : CheckInv(h)') /\ FirstIsAlone'
    BY DEF TransportInv, CheckInv, FirstIsAlone, Free
  <1>7. QED BY <1>1, <1>4, <1>5, <1>6 DEF TransportInv

\* A call that failed waits for its next attempt, or has ended.
LEMMA FailsKeepsInv ==
    ASSUME TransportInv, NEW c \in Callers, In(c, "waits"),
           NEW reason \in {"busy", "refused", "replay", "conflict"}, Fails(c, reason),
           reason = "conflict" => taken \notin {NoContent, call[c].content},
           reason = "replay" => sent[call[c].nonce].answer = "replay",
           UNCHANGED <<clock, sent, nonce, check, entered, taken>>
    PROVE  TransportInv'
  <1> DEFINE stage == IF reason # "busy" THEN "final"
                      ELSE IF call[c].tries < MaxTries THEN "pause" ELSE "again"
             k == [call[c] EXCEPT !.reason = reason, !.stage = stage]
  <1>1. call[c] \in Call /\ call[c].content \in Contents /\ call[c].nonce \in Nonces
    BY DEF TransportInv, TransportTypeOK, CallInv, In
  <1>2. /\ k \in Call
        /\ k.stage = stage /\ k.reason = reason
        /\ k.content = call[c].content /\ k.tries = call[c].tries /\ k.nonce = call[c].nonce
    BY <1>1 DEF Call
  <1>3. call' = [call EXCEPT ![c] = k]
    BY DEF Fails
  <1> HIDE DEF k
  <1>4. QED BY <1>1, <1>2, <1>3, CallMoves

\* Every action of the adapter but the sending.
LEMMA CallingKeepsInv ==
    ASSUME TransportInv, NEW c \in Callers,
           (\E content \in Contents : Begin(c, content))
           \/ Hear(c) \/ TimeOut(c) \/ Garbled(c) \/ Resume(c) \/ Return(c)
    PROVE  TransportInv'
  <1>0. call[c] \in Call /\ CallInv(c) /\ NoCall \in Call
    BY TransportTimesAssumption DEF TransportInv, TransportTypeOK, NoCall, Call
  <1>1. ASSUME NEW content \in Contents, Begin(c, content) PROVE TransportInv'
    <2> DEFINE k == [NoCall EXCEPT !.stage = "sign", !.content = content]
    <2>1. k \in Call /\ k.stage = "sign" /\ k.content = content /\ k.tries = 0 /\ k.reason = "none"
      BY <1>0 DEF NoCall, Call
    <2>2. call' = [call EXCEPT ![c] = k] /\ UNCHANGED <<clock, sent, nonce, check, entered, taken>>
      BY <1>1 DEF Begin
    <2> HIDE DEF k
    <2>3. 0 < MaxTries
      BY TransportTimesAssumption
    <2>4. QED BY <2>1, <2>2, <2>3, CallMoves
  <1>2. ASSUME Hear(c) PROVE TransportInv'
    <2> DEFINE answer == sent[call[c].nonce].answer
    <2>1. /\ In(c, "waits") /\ answer # "none"
          /\ UNCHANGED <<clock, sent, nonce, check, entered, taken>>
          /\ IF answer = "receipt"
             THEN call' = [call EXCEPT ![c] = [call[c] EXCEPT !.stage = "receipt"]]
             ELSE Fails(c, answer)
      BY <1>2 DEF Hear
    <2>2. call[c].nonce \in Nonces /\ sent[call[c].nonce].content = call[c].content
      BY <1>0, <2>1 DEF CallInv, In
    <2>3. /\ answer \in {"receipt", "busy", "refused", "replay", "conflict"}
          /\ answer = "replay" => sent[call[c].nonce].answer = "replay"
          /\ answer = "receipt" => taken = call[c].content
          /\ answer = "conflict" => taken \notin {NoContent, call[c].content}
      BY <2>1, <2>2 DEF TransportInv, TransportTypeOK, AnswerInv, Request
    <2> HIDE DEF answer
    <2>4. CASE answer = "receipt"
      <3> DEFINE k == [call[c] EXCEPT !.stage = "receipt"]
      <3>1. /\ k \in Call /\ k.stage = "receipt" /\ k.content = call[c].content
            /\ k.reason = call[c].reason
        BY <1>0 DEF Call
      <3>2. call[c].content \in Contents /\ call' = [call EXCEPT ![c] = k]
        BY <1>0, <2>1, <2>4 DEF CallInv, In
      <3>3. call[c].reason # "replay"
            /\ (call[c].reason = "conflict" => taken \notin {NoContent, call[c].content})
        BY <1>0, <2>1 DEF CallInv, In
      <3> HIDE DEF k
      <3>4. QED BY <2>1, <2>3, <2>4, <3>1, <3>2, <3>3, CallMoves
    <2>5. CASE answer # "receipt"
      BY <2>1, <2>3, <2>5, FailsKeepsInv
    <2>6. QED BY <2>4, <2>5
  <1>3. ASSUME TimeOut(c) PROVE TransportInv'
    BY <1>3, FailsKeepsInv DEF TimeOut
  <1>4. ASSUME Garbled(c) PROVE TransportInv'
    BY <1>4, FailsKeepsInv DEF Garbled
  <1>5. ASSUME Resume(c) PROVE TransportInv'
    <2> DEFINE k == [call[c] EXCEPT !.stage = "sign"]
    <2>1. /\ k \in Call /\ k.stage = "sign" /\ k.content = call[c].content
          /\ k.reason = call[c].reason /\ k.tries = call[c].tries
      BY <1>0 DEF Call
    <2>2. call' = [call EXCEPT ![c] = k] /\ UNCHANGED <<clock, sent, nonce, check, entered, taken>>
      BY <1>5 DEF Resume
    <2>3. call[c].content \in Contents /\ call[c].tries < MaxTries
      BY <1>0, <1>5 DEF Resume, CallInv, In
    <2>4. call[c].reason # "replay"
          /\ (call[c].reason = "conflict" => taken \notin {NoContent, call[c].content})
      BY <1>0, <1>5 DEF Resume, CallInv, In
    <2> HIDE DEF k
    <2>5. QED BY <2>1, <2>2, <2>3, <2>4, CallMoves
  <1>6. ASSUME Return(c) PROVE TransportInv'
    <2>1. NoCall.stage = "idle" /\ NoCall.reason = "none"
      BY DEF NoCall
    <2>2. call' = [call EXCEPT ![c] = NoCall]
          /\ UNCHANGED <<clock, sent, nonce, check, entered, taken>>
      BY <1>6 DEF Return
    <2>3. QED BY <1>0, <2>1, <2>2, CallMoves
  <1>7. QED BY <1>1, <1>2, <1>3, <1>4, <1>5, <1>6

\* A request is signed: nobody waits for it, holds it or has claimed it.
LEMMA SendKeepsInv ==
    ASSUME TransportInv, NEW c \in Callers, NEW n \in Nonces, NEW at \in 0..(MaxTime + Drift),
           Send(c, n, at)
    PROVE  TransportInv'
  <1> DEFINE r == [content |-> call[c].content, at |-> at, state |-> "out", answer |-> "none"]
             waits == [call[c] EXCEPT !.stage = "waits"]
             signed == [waits EXCEPT !.nonce = n]
             k == [signed EXCEPT !.tries = call[c].tries + 1]
  <1>1. /\ In(c, "sign") /\ sent[n].state = "new"
        /\ sent' = [sent EXCEPT ![n] = r]
        /\ call' = [call EXCEPT ![c] = [call[c] EXCEPT !.stage = "waits", !.nonce = n,
                                                       !.tries = call[c].tries + 1]]
        /\ UNCHANGED <<clock, nonce, check, entered, taken>>
    BY DEF Send, Signs
  <1>2. call[c] \in Call /\ call[c].content \in Contents /\ call[c].tries < MaxTries
    BY <1>1 DEF TransportInv, TransportTypeOK, CallInv, In
  <1>3. call' = [call EXCEPT ![c] = k]
    BY <1>1, <1>2 DEF Call
  <1>4. /\ waits \in Call /\ waits.stage = "waits"
        /\ waits.content = call[c].content /\ waits.reason = call[c].reason
    BY <1>2 DEF Call
  <1> HIDE DEF waits
  <1>5. /\ signed \in Call /\ signed.stage = "waits" /\ signed.nonce = n
        /\ signed.content = call[c].content /\ signed.reason = call[c].reason
    BY <1>4 DEF Call
  <1> HIDE DEF signed
  <1>6. call[c].tries + 1 \in 0..MaxTries
    BY <1>2, TransportTimesAssumption DEF Call
  <1>7. /\ k \in Call /\ k.stage = "waits" /\ k.nonce = n
        /\ k.content = call[c].content /\ k.reason = call[c].reason
    BY <1>5, <1>6 DEF Call
  <1>8. r \in Request
    BY <1>2 DEF Request
  <1> HIDE DEF k
  <1>9. /\ \A d \in Callers : call'[d] = IF d = c THEN k ELSE call[d]
        /\ \A m \in Nonces : sent'[m] = IF m = n THEN r ELSE sent[m]
    BY <1>1, <1>3 DEF TransportInv, TransportTypeOK
  <1>10. TransportTypeOK'
    BY <1>1, <1>3, <1>7, <1>8 DEF TransportInv, TransportTypeOK
  <1>12. \A d \in Callers : CallInv(d)'
    <2>1. /\ sent[n].answer = "none" /\ call[c].reason # "replay"
          /\ call[c].reason = "conflict" => taken \notin {NoContent, call[c].content}
      BY <1>1 DEF TransportInv, RequestInv, CallInv, In
    <2>2. CallInv(c)'
      BY <1>1, <1>2, <1>7, <1>9, <2>1 DEF CallInv
    <2>3. ASSUME NEW d \in Callers \ {c} PROVE CallInv(d)'
      BY <1>1, <1>9, <2>1 DEF TransportInv, CallInv
    <2>4. QED BY <2>2, <2>3
  <1>13. \A m \in Nonces : RequestInv(m)' /\ AnswerInv(m)'
    BY <1>1, <1>2, <1>9 DEF TransportInv, RequestInv, AnswerInv
  <1>14. \A h \in Handlers : CheckInv(h)'
    BY <1>1, <1>9 DEF TransportInv, CheckInv
  <1>15. FirstIsAlone'
    BY <1>1 DEF TransportInv, FirstIsAlone
  <1>16. QED BY <1>10, <1>12, <1>13, <1>14, <1>15 DEF TransportInv

-------------------------------------------------------------------------------
(* Signed requests: the steps of the guard.                                *)

\* The life of a nonce is a natural number.
LEMMA TtlType == NonceTtl \in Nat /\ NonceTtl = 2 * Tolerance + Second
  BY TransportTimesAssumption DEF NonceTtl

\* Whole seconds, rounded up, are enough.
LEMMA SecondsAreEnough ==
    ASSUME NEW time \in Nat
    PROVE  WholeSeconds(time) \in Nat /\ WholeSeconds(time) >= time
  BY TransportTimesAssumption DEF WholeSeconds

\* A request that is handled was answered once; everything else that the guard
\* and what is behind it may do to it is harmless as long as it is claimed for
\* long enough when it was let in, and its answer is true.
LEMMA Resolved ==
    ASSUME TransportInv, NEW h \in Handlers, check[h] # Free,
           NEW answer \in {"receipt", "busy", "refused", "replay", "conflict"},
           Answers(h, answer),
           check' = [check EXCEPT ![h] = Free],
           UNCHANGED <<clock, call>>,
           nonce' \in [Nonces -> Nat], entered' \in [Nonces -> Nat],
           \A m \in Nonces \ {check[h].nonce} : nonce'[m] = nonce[m] /\ entered'[m] = entered[m],
           entered'[check[h].nonce] # 0
              => nonce'[check[h].nonce] >= sent[check[h].nonce].at + Tolerance + Second,
           taken' = taken \/ (taken = NoContent /\ taken' \in Contents),
           ~check[h].copy =>
              /\ answer = "replay" => /\ entered'[check[h].nonce] = 0
                                      /\ clock > sent[check[h].nonce].at + Tolerance
              /\ answer = "receipt" => taken' = sent[check[h].nonce].content
              /\ answer = "conflict" => taken' \notin {NoContent, sent[check[h].nonce].content}
    PROVE  TransportInv'
  <1> DEFINE n == check[h].nonce
             r == [sent[n] EXCEPT !.state = "handled", !.answer = answer]
  <1>1. /\ n \in Nonces /\ sent[n] \in Request /\ RequestInv(n)
        /\ sent[n].state = (IF check[h].copy THEN "handled" ELSE "out")
    BY DEF TransportInv, TransportTypeOK, CheckInv
  <1>2. /\ r \in Request /\ r.state = "handled" /\ r.answer = answer
        /\ r.content = sent[n].content /\ r.at = sent[n].at
    <2> DEFINE half == [sent[n] EXCEPT !.state = "handled"]
    <2>1. /\ half \in Request /\ half.state = "handled"
          /\ half.content = sent[n].content /\ half.at = sent[n].at
      BY <1>1 DEF Request
    <2>2. r = [half EXCEPT !.answer = answer]
      BY <1>1 DEF Request
    <2> HIDE DEF half
    <2>3. QED BY <2>1, <2>2 DEF Request
  <1>3. /\ check[h].copy => sent' = sent
        /\ ~check[h].copy => sent' = [sent EXCEPT ![n] = r]
    BY DEF Answers, Answered
  <1> HIDE DEF r
  <1>4. /\ sent' \in [Nonces -> Request]
        /\ \A m \in Nonces : /\ sent'[m].content = sent[m].content /\ sent'[m].at = sent[m].at
                             /\ m # n => sent'[m] = sent[m]
        /\ sent'[n].state = "handled"
        /\ check[h].copy => sent'[n] = sent[n]
        /\ ~check[h].copy => sent'[n].answer = answer
    BY <1>1, <1>2, <1>3 DEF TransportInv, TransportTypeOK
  <1>5. \A g \in Handlers : check'[g] = IF g = h THEN Free ELSE check[g]
    BY DEF TransportInv, TransportTypeOK
  <1>6. TransportTypeOK'
    <2>1. Free \in Check
      BY TransportTimesAssumption DEF Free, Check
    <2>2. QED BY <1>4, <2>1 DEF TransportInv, TransportTypeOK
  <1>8. \A c \in Callers : CallInv(c)'
    <2> SUFFICES ASSUME NEW c \in Callers PROVE CallInv(c)'
      OBVIOUS
    <2>1. CallInv(c)
      BY DEF TransportInv
    <2>2. \A m \in Nonces : sent[m].state # "new" => sent'[m].state # "new"
      BY <1>4
    <2>3. \A m \in Nonces : sent[m].answer = "replay" => sent'[m].answer = "replay"
      BY <1>1, <1>4 DEF RequestInv
    <2>4. /\ call[c].stage = "receipt" => taken' = call[c].content
          /\ call[c].reason = "conflict" => taken' \notin {NoContent, call[c].content}
      <3>1. call[c].content \in Contents \cup {NoContent}
        BY DEF TransportInv, TransportTypeOK, Call
      <3>2. call[c].reason = "conflict" => taken' = taken
        BY <2>1 DEF CallInv
      <3>3. QED BY <2>1, <3>1, <3>2, TransportNamesAssumption DEF CallInv
    <2>5. QED BY <1>4, <2>1, <2>2, <2>3, <2>4 DEF CallInv
  <1>9. ASSUME NEW m \in Nonces PROVE RequestInv(m)' /\ AnswerInv(m)'
    <2>1. RequestInv(m) /\ AnswerInv(m)
      BY DEF TransportInv
    <2>2. CASE m = n
      <3>1. RequestInv(m)'
        BY <1>1, <1>4, <2>1, <2>2 DEF RequestInv
      <3>2. sent[m].content \in Contents
        BY <1>1, <2>1, <2>2 DEF RequestInv
      <3>3. AnswerInv(m)'
        <4>1. \A g \in Handlers : ~check[h].copy => check'[g].nonce # n
          BY <1>1, <1>5, TransportNamesAssumption DEF TransportInv, FirstIsAlone, Free
        <4>2. check[h].copy => sent[n].answer # "replay"
          BY <2>1, <2>2 DEF AnswerInv
        <4>3. QED BY <1>1, <1>4, <2>1, <2>2, <3>2, <4>1, <4>2, TransportNamesAssumption
              DEF AnswerInv
      <3>4. QED BY <3>1, <3>3
    <2>3. CASE m # n
      <3>1. sent'[m] = sent[m] /\ nonce'[m] = nonce[m] /\ entered'[m] = entered[m]
        BY <1>4, <2>3
      <3>2. sent[m].answer # "none" => sent[m].content \in Contents
        BY <2>1, <1>4 DEF RequestInv, TransportInv, TransportTypeOK, Request
      <3>3. \A g \in Handlers : check[g].nonce # m => check'[g].nonce # m
        BY <1>5, TransportNamesAssumption DEF Free
      <3>4. QED BY <2>1, <3>1, <3>2, <3>3, TransportNamesAssumption DEF RequestInv, AnswerInv
    <2>4. QED BY <2>2, <2>3
  <1>10. \A g \in Handlers : CheckInv(g)'
    <2> SUFFICES ASSUME NEW g \in Handlers, check'[g] # Free PROVE CheckInv(g)'
      BY DEF CheckInv
    <2>1. g # h /\ check'[g] = check[g] /\ check[g] # Free /\ CheckInv(g)
      BY <1>5 DEF TransportInv
    <2>2. CASE check[g].nonce = n
      <3>1. check[h].copy \/ g = h
        BY <2>2 DEF TransportInv, FirstIsAlone
      <3>2. QED BY <1>1, <1>3, <2>1, <3>1 DEF CheckInv
    <2>3. CASE check[g].nonce # n
      BY <1>4, <2>1, <2>3 DEF CheckInv
    <2>4. QED BY <2>2, <2>3
  <1>11. FirstIsAlone'
    <2> SUFFICES ASSUME NEW f \in Handlers, NEW g \in Handlers, check'[f] # Free, ~check'[f].copy,
                        check'[g].nonce = check'[f].nonce
                 PROVE  f = g
      BY DEF FirstIsAlone
    <2>1. f # h /\ check'[f] = check[f]
      BY <1>5
    <2>2. check[f].nonce \in Nonces
      BY <2>1 DEF TransportInv, CheckInv
    <2>3. g # h /\ check'[g] = check[g]
      BY <1>5, <2>1, <2>2, TransportNamesAssumption DEF Free
    <2>4. QED BY <2>1, <2>3 DEF TransportInv, FirstIsAlone
  <1>12. QED BY <1>6, <1>8, <1>9, <1>10, <1>11 DEF TransportInv

\* A request is checked against the clock.
LEMMA ArriveKeepsInv ==
    ASSUME TransportInv, NEW h \in Handlers, NEW n \in Nonces, Arrive(h, n)
    PROVE  TransportInv'
  <1> DEFINE k == [nonce |-> n, now |-> clock, copy |-> sent[n].state = "handled"]
  <1>1. /\ check' = [check EXCEPT ![h] = k] /\ check[h] = Free /\ InWindow(n)
        /\ UNCHANGED <<clock, call, sent, nonce, entered, taken>>
        /\ \/ sent[n].state = "out" /\ \A g \in Handlers : check[g].nonce # n
           \/ sent[n].state = "handled"
    BY DEF Arrive
  <1>2. \A g \in Handlers : check'[g] = IF g = h THEN k ELSE check[g]
    BY <1>1 DEF TransportInv, TransportTypeOK
  <1>3. TransportTypeOK'
    <2>1. k \in Check
      BY DEF Check, TransportInv, TransportTypeOK
    <2>2. QED BY <1>1, <2>1 DEF TransportInv, TransportTypeOK
  <1>4. \A c \in Callers : CallInv(c)'
    BY <1>1 DEF TransportInv, CallInv
  <1>5. ASSUME NEW m \in Nonces PROVE RequestInv(m)' /\ AnswerInv(m)'
    <2>1. RequestInv(m) /\ AnswerInv(m)
      BY DEF TransportInv
    <2>2. /\ sent[n].at \in Int /\ clock \in Int /\ clock <= sent[n].at + Tolerance
      BY <1>1, TransportTimesAssumption DEF InWindow, TransportInv, TransportTypeOK, Request
    <2>3. sent[n].answer # "replay"
      BY <2>2, TransportTimesAssumption DEF TransportInv, AnswerInv
    <2>4. sent[m].answer = "replay" => \A g \in Handlers : check'[g].nonce # m
      BY <1>2, <2>1, <2>3 DEF AnswerInv
    <2>5. QED BY <1>1, <2>1, <2>4 DEF RequestInv, AnswerInv
  <1>6. \A g \in Handlers : CheckInv(g)'
    <2> SUFFICES ASSUME NEW g \in Handlers PROVE CheckInv(g)'
      OBVIOUS
    <2>1. CASE g = h
      <3>1. clock \in Int /\ clock <= clock
        BY TransportTimesAssumption DEF TransportInv, TransportTypeOK
      <3>2. /\ k.nonce \in Nonces /\ k.now = clock
            /\ sent[n].at <= clock + Tolerance /\ clock <= sent[n].at + Tolerance
            /\ sent[n].state = (IF k.copy THEN "handled" ELSE "out")
        BY <1>1 DEF InWindow
      <3>3. check'[g] = k /\ k.nonce = n
        BY <1>2, <2>1
      <3>4. QED BY <1>1, <3>1, <3>2, <3>3 DEF CheckInv
    <2>2. CASE g # h
      BY <1>1, <1>2, <2>2 DEF TransportInv, CheckInv
    <2>3. QED BY <2>1, <2>2
  <1>7. FirstIsAlone'
    <2> SUFFICES ASSUME NEW f \in Handlers, NEW g \in Handlers, check'[f] # Free, ~check'[f].copy,
                        check'[g].nonce = check'[f].nonce, f # g
                 PROVE  FALSE
      BY DEF FirstIsAlone
    <2>1. CASE f = h
      <3>1. check'[f] = k /\ check'[g] = check[g]
        BY <1>2, <2>1
      <3>2. k.nonce = n /\ (k.copy <=> sent[n].state = "handled")
        OBVIOUS
      <3> HIDE DEF k
      <3>3. sent[n].state # "handled" /\ check[g].nonce = n
        BY <3>1, <3>2
      <3>4. QED BY <1>1, <3>3
    <2>2. CASE g = h
      <3>1. check[f] # Free /\ ~check[f].copy /\ check[f].nonce = n
        BY <1>2, <2>2
      <3>2. sent[n].state = "out"
        BY <3>1 DEF TransportInv, CheckInv
      <3>3. QED BY <1>1, <3>1, <3>2
    <2>3. CASE f # h /\ g # h
      BY <1>2, <2>3 DEF TransportInv, FirstIsAlone
    <2>4. QED BY <2>1, <2>2, <2>3
  <1>8. QED BY <1>3, <1>4, <1>5, <1>6, <1>7 DEF TransportInv

\* A request that is out of the window before anything was made of it is refused.
LEMMA TooOldKeepsInv ==
    ASSUME TransportInv, NEW n \in Nonces, TooOld(n)
    PROVE  TransportInv'
  <1> DEFINE half == [sent[n] EXCEPT !.state = "handled"]
             r == [half EXCEPT !.answer = "refused"]
  <1>1. /\ sent[n].state = "out" /\ \A h \in Handlers : check[h].nonce # n
        /\ sent' = [sent EXCEPT ![n] = [sent[n] EXCEPT !.state = "handled", !.answer = "refused"]]
        /\ UNCHANGED <<clock, call, nonce, check, entered, taken>>
    BY DEF TooOld, Answered
  <1>2. sent[n] \in Request /\ RequestInv(n)
    BY DEF TransportInv, TransportTypeOK
  <1>3. sent' = [sent EXCEPT ![n] = r]
    BY <1>1, <1>2 DEF Request
  <1>4. /\ half \in Request /\ half.state = "handled"
        /\ half.content = sent[n].content /\ half.at = sent[n].at
    BY <1>2 DEF Request
  <1> HIDE DEF half
  <1>5. /\ r \in Request /\ r.state = "handled" /\ r.answer = "refused"
        /\ r.content = sent[n].content /\ r.at = sent[n].at
    BY <1>4 DEF Request
  <1> HIDE DEF r
  <1>6. \A m \in Nonces : sent'[m] = IF m = n THEN r ELSE sent[m]
    BY <1>3 DEF TransportInv, TransportTypeOK
  <1>7. TransportTypeOK'
    BY <1>1, <1>3, <1>5 DEF TransportInv, TransportTypeOK
  <1>8. FirstIsAlone'
    BY <1>1 DEF TransportInv, FirstIsAlone
  <1>9. \A c \in Callers : CallInv(c)'
    BY <1>1, <1>2, <1>5, <1>6 DEF TransportInv, CallInv, RequestInv
  <1>10. \A m \in Nonces : RequestInv(m)' /\ AnswerInv(m)'
    BY <1>1, <1>2, <1>5, <1>6 DEF TransportInv, RequestInv, AnswerInv
  <1>11. \A h \in Handlers : CheckInv(h)'
    BY <1>1, <1>6 DEF TransportInv, CheckInv
  <1>12. QED BY <1>7, <1>8, <1>9, <1>10, <1>11 DEF TransportInv

\* A request that comes first is not claimed yet.  One that was let in is claimed
\* still, unless a second has passed since the guard read its clock.
LEMMA ClaimDecides ==
    ASSUME TransportInv, NEW h \in Handlers, check[h] # Free
    PROVE  /\ check[h].nonce \in Nonces
           /\ ~Claimed(check[h].nonce) /\ entered[check[h].nonce] # 0
                 => check[h].now + Second <= clock
           /\ ~check[h].copy => ~Claimed(check[h].nonce) /\ entered[check[h].nonce] = 0
           /\ ClaimEnds(h) <= clock => clock > sent[check[h].nonce].at + Tolerance
  <1> DEFINE n == check[h].nonce
  <1>1. /\ n \in Nonces /\ RequestInv(n) /\ CheckInv(h)
        /\ sent[n] \in Request /\ nonce[n] \in Nat /\ entered[n] \in Nat
        /\ check[h].now \in Nat /\ clock \in Nat
    BY TransportTimesAssumption
    DEF TransportInv, TransportTypeOK, CheckInv, Check
  <1>2. sent[n].at \in Nat
    BY <1>1, TransportTimesAssumption DEF Request
  <1>3. ~Claimed(n) /\ entered[n] # 0 => check[h].now + Second <= clock
    BY <1>1, <1>2, TransportTimesAssumption DEF RequestInv, CheckInv, Claimed
  <1>4. ~check[h].copy => ~Claimed(n) /\ entered[n] = 0
    BY <1>1 DEF RequestInv, CheckInv, Claimed
  <1>5. ClaimEnds(h) <= clock => clock > sent[n].at + Tolerance
    BY <1>1, <1>2, TtlType, TransportTimesAssumption DEF CheckInv, ClaimEnds
  <1>6. QED BY <1>1, <1>3, <1>4, <1>5

\* How long a nonce is kept covers the window of its request.
LEMMA KeptLongEnough ==
    ASSUME TransportInv, NEW h \in Handlers, check[h] # Free,
           NEW read \in 0..MaxTime, KeepsNonce(h, read)
    PROVE  /\ nonce' \in [Nonces -> Nat]
           /\ \A m \in Nonces \ {check[h].nonce} : nonce'[m] = nonce[m]
           /\ nonce'[check[h].nonce] >= sent[check[h].nonce].at + Tolerance + Second
  <1> DEFINE n == check[h].nonce
             rest == ClaimEnds(h) - read
             until == clock + WholeSeconds(rest)
  <1>1. /\ n \in Nonces /\ CheckInv(h) /\ sent[n] \in Request /\ clock \in Nat
        /\ nonce \in [Nonces -> Nat] /\ check[h].now \in Nat
    BY TransportTimesAssumption DEF TransportInv, TransportTypeOK, CheckInv, Check
  <1>2. sent[n].at \in Nat
    BY <1>1, TransportTimesAssumption DEF Request
  <1>3. until \in Nat /\ until >= check[h].now + NonceTtl
    <2>1. /\ read \in Nat /\ read <= clock /\ rest \in Nat
          /\ ClaimEnds(h) = check[h].now + NonceTtl /\ ClaimEnds(h) \in Nat
      BY <1>1, TtlType, TransportTimesAssumption DEF KeepsNonce, ClaimEnds
    <2>2. WholeSeconds(rest) \in Nat /\ WholeSeconds(rest) >= rest
      BY <2>1, SecondsAreEnough
    <2>3. QED BY <1>1, <2>1, <2>2
  <1>4. until >= sent[n].at + Tolerance + Second
    BY <1>1, <1>2, <1>3, TtlType, TransportTimesAssumption DEF CheckInv
  <1>5. nonce' = [nonce EXCEPT ![n] = until]
    BY DEF KeepsNonce
  <1> HIDE DEF until
  <1>6. QED BY <1>1, <1>3, <1>4, <1>5

\* The second half of the guard, and what is behind it.
LEMMA DecideKeepsInv ==
    ASSUME TransportInv, NEW h \in Handlers, NEW read \in 0..MaxTime,
           Replayed(h) \/ ClaimFails(h, read) \/ LetIn(h, read)
    PROVE  TransportInv'
  <1> DEFINE n == check[h].nonce
  <1>0. check[h] # Free
    BY DEF Replayed, ClaimFails, LetIn
  <1>1. /\ n \in Nonces
        /\ ~check[h].copy => ~Claimed(n) /\ entered[n] = 0
        /\ ClaimEnds(h) <= clock => clock > sent[n].at + Tolerance
    BY <1>0, ClaimDecides
  <1>2. /\ nonce \in [Nonces -> Nat] /\ entered \in [Nonces -> Nat] /\ RequestInv(n)
    BY <1>1 DEF TransportInv, TransportTypeOK
  <1>3. ASSUME Replayed(h) PROVE TransportInv'
    <2>1. /\ Answers(h, "replay") /\ check' = [check EXCEPT ![h] = Free]
          /\ Claimed(n) \/ ClaimEnds(h) <= clock
          /\ UNCHANGED <<clock, call, nonce, entered, taken>>
      BY <1>3 DEF Replayed
    <2>2. nonce'[n] = nonce[n] /\ entered'[n] = entered[n]
      BY <2>1
    <2>3. QED BY <1>0, <1>1, <1>2, <2>1, <2>2, Resolved DEF RequestInv
  <1>4. ASSUME ClaimFails(h, read) PROVE TransportInv'
    <2>1. /\ Answers(h, "busy") /\ check' = [check EXCEPT ![h] = Free]
          /\ UNCHANGED <<clock, call, entered, taken>>
          /\ UNCHANGED nonce \/ (~Claimed(n) /\ KeepsNonce(h, read))
      BY <1>4 DEF ClaimFails
    <2>2. /\ nonce' \in [Nonces -> Nat]
          /\ \A m \in Nonces \ {n} : nonce'[m] = nonce[m]
          /\ entered'[n] # 0 => nonce'[n] >= sent[n].at + Tolerance + Second
      <3>1. CASE UNCHANGED nonce
        BY <1>2, <2>1, <3>1 DEF RequestInv
      <3>2. CASE KeepsNonce(h, read)
        BY <1>0, <3>2, KeptLongEnough
      <3>3. QED BY <2>1, <3>1, <3>2
    <2>3. /\ entered' \in [Nonces -> Nat]
          /\ \A m \in Nonces \ {n} : entered'[m] = entered[m]
      BY <1>1, <1>2, <2>1
    <2>4. QED BY <1>0, <2>1, <2>2, <2>3, Resolved
  <1>5. ASSUME LetIn(h, read) PROVE TransportInv'
    <2>1. /\ check' = [check EXCEPT ![h] = Free]
          /\ UNCHANGED <<clock, call>>
          /\ ~Claimed(n) /\ KeepsNonce(h, read)
          /\ entered' = [entered EXCEPT ![n] = entered[n] + 1]
      BY <1>5 DEF LetIn
    <2>2. /\ nonce' \in [Nonces -> Nat]
          /\ \A m \in Nonces \ {n} : nonce'[m] = nonce[m]
          /\ nonce'[n] >= sent[n].at + Tolerance + Second
      BY <1>0, <2>1, KeptLongEnough
    <2>3. /\ entered' \in [Nonces -> Nat]
          /\ \A m \in Nonces \ {n} : entered'[m] = entered[m]
      BY <1>1, <1>2, <2>1
    <2>4. taken \in Contents \cup {NoContent} /\ sent[n].content \in Contents
      <3>1. sent[n].state # "new"
        BY <1>0 DEF TransportInv, CheckInv
      <3>2. QED BY <1>2, <3>1 DEF TransportInv, TransportTypeOK, RequestInv
    <2>5. CASE Agrees(sent[n].content) /\ taken' = sent[n].content /\ Answers(h, "receipt")
      <3>1. taken' = taken \/ (taken = NoContent /\ taken' \in Contents)
        BY <2>4, <2>5 DEF Agrees
      <3>2. QED BY <1>0, <2>1, <2>2, <2>3, <2>5, <3>1, Resolved
    <2>6. CASE ~Agrees(sent[n].content) /\ UNCHANGED taken /\ Answers(h, "conflict")
      <3>1. taken' \notin {NoContent, sent[n].content}
        BY <2>6 DEF Agrees
      <3>2. QED BY <1>0, <2>1, <2>2, <2>3, <2>6, <3>1, Resolved
    <2>7. CASE \E answer \in {"busy", "refused"} : UNCHANGED taken /\ Answers(h, answer)
      BY <1>0, <2>1, <2>2, <2>3, <2>7, Resolved
    <2>8. QED BY <1>5, <2>5, <2>6, <2>7 DEF LetIn
  <1>6. QED BY <1>3, <1>4, <1>5

\* Time passes: what has left the window stays out of it.
LEMMA TickKeepsInv ==
    ASSUME TransportInv, Tick
    PROVE  TransportInv'
  <1>1. /\ clock < MaxTime /\ clock' = clock + 1
        /\ UNCHANGED <<call, sent, nonce, check, entered, taken>>
    BY DEF Tick
  <1>2. TransportTypeOK'
    BY <1>1, TransportTimesAssumption DEF TransportInv, TransportTypeOK
  <1>3. FirstIsAlone' /\ \A c \in Callers : CallInv(c)'
    BY <1>1 DEF TransportInv, FirstIsAlone, CallInv, Free
  <1>4. ASSUME NEW m \in Nonces PROVE RequestInv(m)' /\ AnswerInv(m)'
    <2>1. RequestInv(m) /\ AnswerInv(m) /\ clock \in Nat /\ sent[m].at \in Nat
      BY TransportTimesAssumption DEF TransportInv, TransportTypeOK, Request
    <2>2. QED BY <1>1, <2>1, TransportTimesAssumption DEF RequestInv, AnswerInv
  <1>5. ASSUME NEW h \in Handlers PROVE CheckInv(h)'
    <2>1. CheckInv(h) /\ clock \in Nat /\ check[h].now \in Nat
      BY TransportTimesAssumption DEF TransportInv, TransportTypeOK, Check
    <2>2. check'[h] = check[h] /\ (check[h] # Free)' = (check[h] # Free)
      BY <1>1 DEF Free
    <2>3. CASE check[h] = Free
      BY <2>2, <2>3 DEF CheckInv
    <2>4. CASE check[h] # Free
      BY <1>1, <2>1, <2>2, <2>4, TransportTimesAssumption DEF CheckInv
    <2>5. QED BY <2>3, <2>4
  <1>6. QED BY <1>2, <1>3, <1>4, <1>5 DEF TransportInv

\* Every step of the transport keeps the invariant.
LEMMA TransportNextInv == TransportInv /\ [TransportNext]_transportVars => TransportInv'
  <1> SUFFICES ASSUME TransportInv, [TransportNext]_transportVars PROVE TransportInv'
    OBVIOUS
  <1>1. CASE Calling
    BY <1>1, CallingKeepsInv, SendKeepsInv DEF Calling
  <1>2. CASE Guarding
    <2>1. ASSUME NEW h \in Handlers, Replayed(h) PROVE TransportInv'
      <3>1. 0 \in 0..MaxTime
        BY TransportTimesAssumption
      <3>2. QED BY <2>1, <3>1, DecideKeepsInv
    <2>2. QED BY <1>2, <2>1, ArriveKeepsInv, TooOldKeepsInv, DecideKeepsInv, TickKeepsInv
          DEF Guarding
  <1>3. CASE UNCHANGED transportVars
    BY <1>3 DEF transportVars, TransportInv, TransportTypeOK, CallInv,
                RequestInv, AnswerInv, CheckInv, FirstIsAlone, Free
  <1>4. QED BY <1>1, <1>2, <1>3 DEF TransportNext

-------------------------------------------------------------------------------
(* Signed requests: the theorems.                                          *)

\* Calls, requests, nonces and the guard's checks have their types, and no call
\* makes more attempts than it may.
THEOREM TransportTypeCorrect == TransportSpec => []TransportTypeOK
  <1>1. TransportInv => TransportTypeOK
    BY DEF TransportInv
  <1>2. QED BY <1>1, TransportInitInv, TransportNextInv, PTL DEF TransportSpec

\* A signed request is let in once, for any tolerance and any drift of the clocks,
\* unless a guard takes a second or longer between its two steps: the second that a
\* nonce is kept beyond both sides of the window is all that it may take.
THEOREM RequestsSafe == TransportSpec => OnlySlowGuardsReadmit
  <1> DEFINE Readmits == \A n \in Nonces :
                entered'[n] # entered[n] =>
                   entered[n] = 0 \/ \E h \in Handlers : check[h].nonce = n /\ EndsSlowly(h)
  <1>1. ASSUME TransportInv, TransportNext PROVE Readmits
    <2>1. CASE \E h \in Handlers, read \in 0..MaxTime : LetIn(h, read)
      <3>1. PICK h \in Handlers, read \in 0..MaxTime : LetIn(h, read)
        BY <2>1
      <3>2. /\ check[h] # Free /\ ~Claimed(check[h].nonce)
            /\ entered' = [entered EXCEPT ![check[h].nonce] = entered[check[h].nonce] + 1]
            /\ check' = [check EXCEPT ![h] = Free]
        BY <3>1 DEF LetIn
      <3>3. check'[h] = Free
        BY <1>1, <3>2 DEF TransportInv, TransportTypeOK
      <3>4. entered[check[h].nonce] # 0 => EndsSlowly(h)
        BY <1>1, <3>2, <3>3, ClaimDecides DEF EndsSlowly
      <3>5. QED BY <1>1, <3>2, <3>4 DEF TransportInv, TransportTypeOK
    <2>2. CASE ~\E h \in Handlers, read \in 0..MaxTime : LetIn(h, read)
      <3>1. entered' = entered
        BY <1>1, <2>2 DEF TransportNext, Calling, Guarding, Begin, Send, Hear, TimeOut, Garbled,
           Resume, Return, Arrive, TooOld, Replayed, ClaimFails, Tick
      <3>2. QED BY <3>1
    <2>3. QED BY <2>1, <2>2
  <1>2. TransportInv /\ [TransportNext]_transportVars => [Readmits]_transportVars
    BY <1>1
  <1>3. QED BY <1>2, TransportInitInv, TransportNextInv, PTL
        DEF TransportSpec, OnlySlowGuardsReadmit

\* A receipt, or a conflict, is the truth about the key, and a call that is told
\* that its request was a replay is not told so because it got through earlier.
THEOREM AnswersSafe == TransportSpec => []AnswersAreTrue
  <1>1. TransportInv => AnswersAreTrue
    BY DEF TransportInv, CallInv, AnswerInv, AnswersAreTrue
  <1>2. QED BY <1>1, TransportInitInv, TransportNextInv, PTL DEF TransportSpec
==============================================================================
