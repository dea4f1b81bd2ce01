----------------------- MODULE OneCTransportProperties -----------------------
(***************************************************************************)
(* What signed requests and calls promise to the two sides.                *)
(***************************************************************************)
EXTENDS OneCTransport

\* The guard of handler h took a second or longer from reading its clock to this
\* step, its last.
EndsSlowly(h) == check'[h] = Free /\ check[h].now + Second <= clock

\* A signed request is let in once, however often and however late it is delivered
\* again and although the sender's clock may be ahead by the whole tolerance: the
\* nonce is kept until the time in the request has left the window, and a second
\* more.  Only a guard that spends that second itself, awaiting the key and Redis
\* between reading its clock and claiming the nonce, lets a copy in again.
OnlySlowGuardsReadmit ==
    [][\A n \in Nonces :
          entered'[n] # entered[n] =>
             entered[n] = 0 \/ \E h \in Handlers : check[h].nonce = n /\ EndsSlowly(h)
      ]_transportVars

\* A receipt is for the very command that was sent, although other deliveries
\* may have sent another one under its key.  A call fails for good over the key
\* only when another command is stored, and never because an earlier attempt of
\* its own got through and the answer was lost: what is refused as a replay was
\* never let in (its guard took longer than a nonce is kept).
AnswersAreTrue ==
    \A c \in Callers :
        /\ call[c].stage = "receipt" => taken = call[c].content
        /\ call[c].reason = "conflict" => taken \notin {NoContent, call[c].content}
        /\ call[c].reason = "replay" => entered[call[c].nonce] = 0
==============================================================================
