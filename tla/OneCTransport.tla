---------------------------- MODULE OneCTransport ----------------------------
(***************************************************************************)
(* Signed requests between the shop and 1C: calls with their retries, the  *)
(* guard that lets a request in once, and the store of idempotency keys    *)
(* behind it.                                                              *)
(*                                                                         *)
(* The scheme is the same in both directions (docs/one-c-integration.md,   *)
(* 321-343).  Here the calls are those of RestOneCAdapter, the guard is    *)
(* OneCSignatureGuard, and behind it keys are kept as MockOneCAdapter      *)
(* keeps them.                                                             *)
(*                                                                         *)
(* Any answer may be lost, and the network may deliver a request again     *)
(* once it was handled.  The two clocks differ.  The guard reads its clock *)
(* first and then awaits the key and Redis: any time may pass before the   *)
(* nonce is claimed.                                                       *)
(*                                                                         *)
(* Abstracted: all requests are well-formed and signed with the shared     *)
(* key; Redis keeps its nonces, and its clock is the guard's; the caller   *)
(* never cancels (no caller passes a signal).                              *)
(***************************************************************************)
EXTENDS Integers, FiniteSets

CONSTANTS
    Callers,    \* calls in progress
    Handlers,   \* requests being handled by the guard
    Nonces,     \* one for each request that is signed, numbered
    NoNonce,    \* no request
    Contents,   \* contents of commands, all under one idempotency key
    NoContent,  \* nothing stored under the key
    MaxTries,   \* attempts of a call (3)
    Tolerance,  \* ONE_C_SIGNATURE_TOLERANCE_SECONDS
    Second,     \* a second
    Drift,      \* how far the clock of the sender may be from the guard's
    MaxTime     \* bound: the clock

ASSUME TransportNamesAssumption == NoNonce \notin Nonces /\ NoContent \notin Contents
ASSUME NoncesAssumption == Nonces \subseteq Nat
ASSUME TransportTimesAssumption == /\ Tolerance \in Nat /\ Second \in Nat \ {0}
                                   /\ Drift \in Nat
                                   /\ MaxTries \in Nat \ {0} /\ MaxTime \in Nat

VARIABLES
    clock,    \* the clock of the guard and of Redis
    call,     \* the calls, and how they ended
    sent,     \* the signed requests
    nonce,    \* when the claim on each nonce ends (0: there was none)
    check,    \* requests past the first half of the guard
    entered,  \* how often each request was let in
    taken     \* the command stored under the idempotency key

transportVars == <<clock, call, sent, nonce, check, entered, taken>>

-------------------------------------------------------------------------------
\* sign: an attempt begins; waits: its request is out; pause: before the next;
\* receipt: answered; again, final: failed, and whether a retry may help.
Call == [stage : {"idle", "sign", "waits", "pause", "receipt", "again", "final"},
         content : Contents \cup {NoContent}, tries : 0..MaxTries,
         nonce : Nonces \cup {NoNonce}, reason : {"none", "busy", "refused", "replay", "conflict"}]

\* What is signed, besides the content.  answer is what the other side made of
\* the request when it came first.
Request == [content : Contents \cup {NoContent}, at : 0..(MaxTime + Drift),
            state : {"new", "out", "handled"},
            answer : {"none", "receipt", "busy", "refused", "replay", "conflict"}]

Check == [nonce : Nonces \cup {NoNonce}, now : 0..MaxTime, copy : BOOLEAN]

TransportTypeOK ==
    /\ clock \in 0..MaxTime
    /\ call \in [Callers -> Call]
    /\ sent \in [Nonces -> Request]
    /\ nonce \in [Nonces -> Nat]
    /\ check \in [Handlers -> Check]
    /\ entered \in [Nonces -> Nat]
    /\ taken \in Contents \cup {NoContent}

NoCall == [stage |-> "idle", content |-> NoContent, tries |-> 0, nonce |-> NoNonce,
           reason |-> "none"]
Free == [nonce |-> NoNonce, now |-> 0, copy |-> FALSE]

TransportInit ==
    /\ clock = 0
    /\ call = [c \in Callers |-> NoCall]
    /\ sent = [n \in Nonces |-> [content |-> NoContent, at |-> 0, state |-> "new",
                                 answer |-> "none"]]
    /\ nonce = [n \in Nonces |-> 0]
    /\ check = [h \in Handlers |-> Free]
    /\ entered = [n \in Nonces |-> 0]
    /\ taken = NoContent

-------------------------------------------------------------------------------
(* The adapter *)

In(c, stage) == call[c].stage = stage

\* The outbox delivers an event, maybe again and with a command built anew.
Begin(c, content) ==
    /\ In(c, "idle")
    /\ call' = [call EXCEPT ![c] = [NoCall EXCEPT !.stage = "sign", !.content = content]]
    /\ UNCHANGED <<clock, sent, nonce, check, entered, taken>>

\* Every attempt is signed anew.
Slip_SignedOnce(c, n) == IF call[c].nonce = NoNonce THEN sent[n].state = "new"
                                                    ELSE n = call[c].nonce
Signs(c, n) == sent[n].state = "new"

Send(c, n, at) ==
    /\ In(c, "sign") /\ Signs(c, n)
    /\ \A m \in Nonces : m < n => sent[m].state # "new"
    /\ at <= clock + Drift /\ clock <= at + Drift
    /\ sent' = [sent EXCEPT ![n] = [content |-> call[c].content, at |-> at, state |-> "out",
                                    answer |-> "none"]]
    /\ call' = [call EXCEPT ![c] = [call[c] EXCEPT !.stage = "waits", !.nonce = n,
                                                   !.tries = call[c].tries + 1]]
    /\ UNCHANGED <<clock, nonce, check, entered, taken>>

Fails(c, reason) ==
    call' = [call EXCEPT ![c] = [call[c] EXCEPT !.reason = reason, !.stage =
                IF reason # "busy" THEN "final"
                ELSE IF call[c].tries < MaxTries THEN "pause" ELSE "again"]]

\* A good answer, or the status of an error: 429 and 5xx may be repeated.
Hear(c) ==
    LET answer == sent[call[c].nonce].answer
    IN /\ In(c, "waits") /\ answer # "none"
       /\ IF answer = "receipt"
          THEN call' = [call EXCEPT ![c] = [call[c] EXCEPT !.stage = "receipt"]]
          ELSE Fails(c, answer)
       /\ UNCHANGED <<clock, sent, nonce, check, entered, taken>>

\* The request or its answer is lost, or comes too late.
TimeOut(c) ==
    /\ In(c, "waits")
    /\ Fails(c, "busy")
    /\ UNCHANGED <<clock, sent, nonce, check, entered, taken>>

\* An answer of success that is no receipt: 1C has the command all the same.
Garbled(c) ==
    /\ In(c, "waits") /\ sent[call[c].nonce].answer = "receipt"
    /\ Fails(c, "refused")
    /\ UNCHANGED <<clock, sent, nonce, check, entered, taken>>

\* The delay before the next attempt, or the one 1C asked for, has passed.
Resume(c) ==
    /\ In(c, "pause")
    /\ call' = [call EXCEPT ![c].stage = "sign"]
    /\ UNCHANGED <<clock, sent, nonce, check, entered, taken>>

\* The call returns, or its worker stops in the middle of it.
Return(c) ==
    /\ ~In(c, "idle")
    /\ call' = [call EXCEPT ![c] = NoCall]
    /\ UNCHANGED <<clock, sent, nonce, check, entered, taken>>

-------------------------------------------------------------------------------
(* The guard *)

InWindow(n) == /\ sent[n].at <= clock + Tolerance
               /\ clock <= sent[n].at + Tolerance

\* A nonce is kept for both sides of the window, and a second more.
Slip_JustTheWindow == 2 * Tolerance
NonceTtl == 2 * Tolerance + Second

Answered(n, answer) == sent' = [sent EXCEPT ![n] = [sent[n] EXCEPT !.state = "handled",
                                                                   !.answer = answer]]

\* Only the answer to the first delivery finds its caller.
Answers(h, answer) ==
    IF check[h].copy THEN UNCHANGED sent ELSE Answered(check[h].nonce, answer)

\* The request arrives.
Arrive(h, n) ==
    /\ check[h] = Free /\ InWindow(n)
    /\ \/ sent[n].state = "out" /\ \A g \in Handlers : check[g].nonce # n
       \/ sent[n].state = "handled"
    /\ check' = [check EXCEPT ![h] = [nonce |-> n, now |-> clock,
                                      copy |-> sent[n].state = "handled"]]
    /\ UNCHANGED <<clock, call, sent, nonce, entered, taken>>

TooOld(n) ==
    /\ sent[n].state = "out" /\ ~InWindow(n) /\ \A h \in Handlers : check[h].nonce # n
    /\ Answered(n, "refused")
    /\ UNCHANGED <<clock, call, nonce, check, entered, taken>>

Claimed(n) == nonce[n] > clock

\* The claim is to end so long after the guard read its clock.  How long that is
\* from now is worked out on the way to Redis, which counts in whole seconds,
\* rounded up, from when it has the claim.
ClaimEnds(h) == check[h].now + NonceTtl

WholeSeconds(time) == Second * ((time + Second - 1) \div Second)

KeepsNonce(h, read) ==
    /\ read \in check[h].now..clock /\ read < ClaimEnds(h)
    /\ nonce' = [nonce EXCEPT ![check[h].nonce] = clock + WholeSeconds(ClaimEnds(h) - read)]

\* The nonce is claimed, or the claim would be over already.
Replayed(h) ==
    /\ check[h] # Free
    /\ Claimed(check[h].nonce) \/ ClaimEnds(h) <= clock
    /\ check' = [check EXCEPT ![h] = Free]
    /\ Answers(h, "replay")
    /\ UNCHANGED <<clock, call, nonce, entered, taken>>

\* Redis does not answer, and may have kept the nonce.
ClaimFails(h, read) ==
    /\ check[h] # Free
    /\ UNCHANGED nonce \/ (~Claimed(check[h].nonce) /\ KeepsNonce(h, read))
    /\ check' = [check EXCEPT ![h] = Free]
    /\ Answers(h, "busy")
    /\ UNCHANGED <<clock, call, entered, taken>>

\* What is stored under the key agrees with the command: nothing, or its copy.
Slip_KeyDecides(content) == TRUE
Agrees(content) == taken \in {NoContent, content}

\* The request is let in and handled: the command is taken, or it is a copy of
\* the one taken, or it is in conflict with that; or it fails behind the guard.
LetIn(h, read) ==
    LET n == check[h].nonce
    IN /\ check[h] # Free /\ ~Claimed(n)
       /\ KeepsNonce(h, read)
       /\ entered' = [entered EXCEPT ![n] = entered[n] + 1]
       /\ \/ Agrees(sent[n].content) /\ taken' = sent[n].content /\ Answers(h, "receipt")
          \/ ~Agrees(sent[n].content) /\ UNCHANGED taken /\ Answers(h, "conflict")
          \/ \E answer \in {"busy", "refused"} : UNCHANGED taken /\ Answers(h, answer)
       /\ check' = [check EXCEPT ![h] = Free]
       /\ UNCHANGED <<clock, call>>

\* Time passes, between the steps of the guard as well.
Tick ==
    /\ clock < MaxTime
    /\ clock' = clock + 1
    /\ UNCHANGED <<call, sent, nonce, check, entered, taken>>

-------------------------------------------------------------------------------
Calling ==
    \/ \E c \in Callers, content \in Contents : Begin(c, content)
    \/ \E c \in Callers, n \in Nonces, at \in 0..(MaxTime + Drift) : Send(c, n, at)
    \/ \E c \in Callers : Hear(c) \/ TimeOut(c) \/ Garbled(c) \/ Resume(c) \/ Return(c)

Guarding ==
    \/ \E h \in Handlers, n \in Nonces : Arrive(h, n)
    \/ \E n \in Nonces : TooOld(n)
    \/ \E h \in Handlers : Replayed(h)
    \/ \E h \in Handlers, read \in 0..MaxTime : ClaimFails(h, read) \/ LetIn(h, read)
    \/ Tick

TransportNext == Calling \/ Guarding

TransportSpec == TransportInit /\ [][TransportNext]_transportVars
==============================================================================
