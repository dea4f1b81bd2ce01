----------------------- MODULE ProofOfPaymentProperties -----------------------
(***************************************************************************)
(* What submitting a proof promises to the customer and to the manager.    *)
(***************************************************************************)
EXTENDS ProofOfPayment

\* Retries under a key, also of an attempt that outlived its lock, submit one
\* proof, and every attempt that is answered gets the answer to that proof;
\* attempts under different keys are not accepted for the same payment.
ProofIsSubmittedOnce ==
    /\ \A x, y \in submitted : (x.key = y.key \/ x.expected = y.expected) => x = y
    /\ \A a \in Attempts :
          (AtStage(a, "answered") /\ attempt[a].key # NoKey)
          => \E x \in submitted : /\ x.key = attempt[a].key /\ x.version = attempt[a].result
                                  /\ x.file = attempt[a].file

\* A proof that was accepted with a file can be opened by the manager, and shows
\* that file; an invoice that was answered can be downloaded: failed and dying
\* uploads of the same file take nothing away.
\* An invoice is rendered once, of what was read before, and sent ever after: it
\* may lag behind an extension, but no customer has one on which the goods are held
\* for longer than they are.
DocumentsCanBeOpened ==
    /\ \A x \in submitted :
          x.file # NoFile => /\ x.document # NoDocument
                             /\ document[x.document] = [state |-> "available", file |-> x.file,
                                                        object |-> TRUE, says |-> 0]
    /\ \A a \in Attempts :
          (AtStage(a, "answered") /\ attempt[a].key = NoKey)
          => LET d == document[attempt[a].document]
             IN d = [state |-> "available", file |-> Invoice, object |-> TRUE, says |-> d.says]
    /\ \A d \in Documents : document[d].says <= payment.until
==============================================================================
