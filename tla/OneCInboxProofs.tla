--------------------------- MODULE OneCInboxProofs ---------------------------
(***************************************************************************)
(* Theorems about OneCInbox for every set of messages, every number of     *)
(* workers and every bound on faults and replays.                          *)
(***************************************************************************)
EXTENDS OneCInboxProperties, TLAPS

------------------------------------------------------------------------------
(* What a worker's task looks like.                                        *)

\* A claim is never mistaken for idleness.
LEMMA ClaimedIsNotIdle == \A c \in Claimed : c # Idle
  BY DEF Claimed, Idle, Phase, Call

\* Moving to a phase changes nothing but the phase of that worker.
LEMMA GotoStep ==
    ASSUME TypeOK, NEW w \in Workers, NEW phase \in Phase,
           task[w] # Idle, Goto(w, phase)
    PROVE  /\ task' \in [Workers -> Claimed \cup {Idle}]
           /\ task'[w] # Idle
           /\ task'[w].at = phase
           /\ task'[w].msg = task[w].msg
           /\ \A v \in Workers : v # w => task'[v] = task[v]
           /\ task[w].msg \in Messages
  <1>1. task[w] \in Claimed
    BY DEF TypeOK
  <1>2. task' = [task EXCEPT ![w] = [task[w] EXCEPT !.at = phase]]
    BY <1>1 DEF Goto, TypeOK
  <1>3. [task[w] EXCEPT !.at = phase] \in Claimed
    BY <1>1 DEF Claimed
  <1>4. /\ [task[w] EXCEPT !.at = phase].at = phase
        /\ [task[w] EXCEPT !.at = phase].msg = task[w].msg
    BY <1>1 DEF Claimed
  <1> QED
    BY <1>1, <1>2, <1>3, <1>4, ClaimedIsNotIdle DEF TypeOK, Claimed

\* A worker in one of some phases holds a claim on one of the messages.
LEMMA HolderStep ==
    ASSUME TypeOK, NEW w \in Workers, NEW phases, Holds(w, phases)
    PROVE  /\ task[w] # Idle /\ task[w] \in Claimed
           /\ task[w].at \in Phase /\ task[w].msg \in Messages
           /\ task[w].attempt \in Nat
  BY DEF TypeOK, Holds, Claimed

------------------------------------------------------------------------------
(* Type correctness.                                                       *)

\* The initial state is well typed.
LEMMA InitType == Init => TypeOK
  BY LimitsAssumption DEF Init, TypeOK, JobStatus, Rejection, Order, OrderStatus

\* Storing a message keeps the types.
LEMMA StoreType ==
    ASSUME TypeOK, NEW m \in Messages, Store(m)
    PROVE  TypeOK'
  BY MessagesAssumption
  DEF TypeOK, Store, AcceptFirstCopy, RejectFirstCopy, ReconsiderRejected,
      ConflictingCopy, Enqueue, Reject, JobStatus, Rejection

\* What the services write keeps the order well typed.
LEMMA ApplyType ==
    ASSUME TypeOK, NEW w \in Workers, Apply(w)
    PROVE  order' \in Order
  <1> DEFINE call == task[w].at
             m    == task[w].msg
  <1>1. m \in Messages /\ Seq[m] \in Nat /\ Until[m] \in Nat /\ call \in Call
    BY HolderStep, MessagesAssumption DEF Apply, Holds
  <1>2. CASE call = "confirm"
    <2>1. order' = [order EXCEPT !.status = "AWAITING_PAYMENT",
                                 !.oneCVersion = Seq[m],
                                 !.held = TRUE, !.deadline = Until[m]]
      BY <1>2 DEF Apply
    <2> QED
      BY <1>1, <2>1 DEF TypeOK, Order, OrderStatus
  <1>3. CASE call = "extend"
    <2>1. order' = [order EXCEPT !.oneCVersion = Seq[m], !.deadline = Until[m]]
      BY <1>3 DEF Apply
    <2> QED
      BY <1>1, <2>1 DEF TypeOK, Order
  <1>4. CASE call = "pay"
    <2>1. order' = [order EXCEPT !.status = "PAID", !.oneCVersion = Seq[m]]
      BY <1>4 DEF Apply
    <2> QED
      BY <1>1, <2>1 DEF TypeOK, Order, OrderStatus
  <1> QED
    BY <1>1, <1>2, <1>3, <1>4 DEF Call

\* The verdict on a claim is a status of a job.
LEMMA VerdictType ==
    ASSUME NEW phase, NEW attempt
    PROVE  Verdict(phase, attempt) \in {"APPLIED", "RETRY_SCHEDULED", "DLQ"}
  BY DEF Verdict

\* A worker's step keeps the types.
LEMMA WorkType ==
    ASSUME TypeOK, NEW w \in Workers, Work(w)
    PROVE  TypeOK'
  <1>1. ASSUME NEW m \in Messages, Claim(w, m)
        PROVE  TypeOK'
    <2>1. attempts[m] + 1 \in Nat
      BY DEF TypeOK
    <2>2. [at |-> "claimed", msg |-> m, attempt |-> attempts[m] + 1] \in Claimed
      BY <2>1 DEF Claimed, Phase
    <2>3. faults' \in 0..MaxFaults
      BY <1>1, LimitsAssumption DEF Claim, Fault, TypeOK
    <2> QED
      BY <1>1, <2>1, <2>2, <2>3 DEF Claim, TypeOK, JobStatus
  <1>2. CASE Choose(w)
    <2>1. Choice(task[w].msg) \in Phase
      BY <1>2, HolderStep, MessagesAssumption DEF Choose, Choice, Phase, Call, Kinds, TypeOK, Order
    <2>2. task[w] # Idle
      BY <1>2 DEF Choose, Holds
    <2> QED
      BY <1>2, <2>1, <2>2, GotoStep DEF Choose, TypeOK, jobVars
  <1>3. CASE Apply(w)
    <2>1. task[w] # Idle /\ "applied" \in Phase
      BY <1>3 DEF Apply, Holds, Phase
    <2> QED
      BY <1>3, <2>1, ApplyType, GotoStep DEF Apply, TypeOK, jobVars
  <1>4. CASE AnswerDuplicate(w)
    <2>1. task[w] # Idle /\ "applied" \in Phase
      BY <1>4 DEF AnswerDuplicate, Holds, Phase
    <2> QED
      BY <1>4, <2>1, GotoStep DEF AnswerDuplicate, TypeOK, jobVars
  <1>5. CASE Refuse(w)
    <2>1. task[w] # Idle /\ "permanent" \in Phase
      BY <1>5 DEF Refuse, Holds, Phase
    <2> QED
      BY <1>5, <2>1, GotoStep DEF Refuse, TypeOK, jobVars
  <1>6. CASE Record(w)
    <2>1. Verdict(task[w].at, task[w].attempt) \in JobStatus
      BY VerdictType DEF JobStatus
    <2> QED
      BY <1>6, <2>1 DEF Record, RecordIfProcessing, TypeOK
  <1> QED
    BY <1>1, <1>2, <1>3, <1>4, <1>5, <1>6 DEF Work

\* Faults, the operator and the rest of the system keep the types.
LEMMA OthersType ==
    ASSUME TypeOK
    PROVE  /\ \A w \in Workers : Crash(w) \/ Falter(w) => TypeOK'
           /\ \A m \in Messages : RetryJobRead(m) \/ RetryJobWrite(m) => TypeOK'
           /\ RecordOrderExport \/ OthersMove \/ Expire => TypeOK'
  <1>1. ASSUME NEW w \in Workers, Crash(w)
        PROVE  TypeOK'
    BY <1>1, LimitsAssumption DEF Crash, Fault, TypeOK, jobVars
  <1>2. ASSUME NEW w \in Workers, Falter(w)
        PROVE  TypeOK'
    <2>1. task[w] # Idle /\ "transient" \in Phase
      BY <1>2 DEF Falter, Holds, Phase
    <2>2. faults' \in 0..MaxFaults
      BY <1>2, LimitsAssumption DEF Falter, Fault, TypeOK
    <2> QED
      BY <1>2, <2>1, <2>2, GotoStep DEF Falter, TypeOK, jobVars
  <1>3. ASSUME NEW m \in Messages, RetryJobRead(m)
        PROVE  TypeOK'
    BY <1>3, LimitsAssumption DEF RetryJobRead, TypeOK, jobVars
  <1>4. RecordOrderExport => TypeOK'
    BY DEF RecordOrderExport, TypeOK, Order, jobVars
  <1>5. OthersMove => TypeOK'
    BY DEF OthersMove, TypeOK, Order, OrderStatus, jobVars
  <1>6. Expire => TypeOK'
    BY DEF Expire, TypeOK, Order, OrderStatus, jobVars
  <1>7. ASSUME NEW m \in Messages, RetryJobWrite(m)
        PROVE  TypeOK'
    <2>1. requeuing[m] - 1 \in Nat
      BY <1>7 DEF RetryJobWrite, TypeOK
    <2> QED
      BY <1>7, <2>1 DEF RetryJobWrite, TypeOK, JobStatus
  <1> QED
    BY <1>1, <1>2, <1>3, <1>4, <1>5, <1>6, <1>7

\* The types are inductive by themselves.
LEMMA NextType == TypeOK /\ [Next]_vars => TypeOK'
  <1> SUFFICES ASSUME TypeOK, [Next]_vars
               PROVE  TypeOK'
    OBVIOUS
  <1>1. CASE UNCHANGED vars
    BY <1>1 DEF vars, jobVars, TypeOK
  <1>2. CASE Next
    BY <1>2, StoreType, WorkType, OthersType DEF Next
  <1> QED
    BY <1>1, <1>2

\* All variables of the inbox keep their types.
THEOREM InboxTypeCorrect == Spec => []TypeOK
  BY InitType, NextType, PTL DEF Spec

------------------------------------------------------------------------------
(* The strengthened invariant.                                             *)

\* The cursor is the version of the last accepted message.
CursorIsLast ==
    /\ \A m \in Accepted : Seq[m] <= cursor
    /\ cursor # 0 => \E m \in Accepted : Seq[m] = cursor

\* Whoever holds a claim, even one taken over long ago, holds it on a message
\* whose predecessors the order has taken, although their jobs may have been
\* requeued since.
HoldersAreNext ==
    \A w \in Workers : task[w] # Idle =>
        /\ task[w].msg \in Accepted
        /\ \A e \in Accepted : Seq[e] < Seq[task[w].msg] => Seq[e] <= order.oneCVersion

\* Whoever is about to report success does so because the order has it.
SuccessIsTaken ==
    \A w \in Workers : Holds(w, {"applied"}) => Seq[task[w].msg] <= order.oneCVersion

\* A job that an operator's request has read stays in the stream.
RequestsAreAccepted ==
    \A m \in Messages : requeuing[m] > 0 => m \in Accepted

IInv == /\ CursorIsLast
        /\ HoldersAreNext
        /\ SuccessIsTaken
        /\ AppliedIsTaken
        /\ RequestsAreAccepted

\* What one step does to the jobs: nothing accepted is rejected later, and every
\* message accepted anew has a larger version than the earlier ones.
JobStep ==
    /\ Accepted \subseteq Accepted'
    /\ \A m \in Accepted' \ Accepted :
          cursor' = Seq[m] /\ (cursor # 0 => Seq[m] > cursor)
    /\ Accepted' = Accepted => cursor' = cursor

\* The initial state has accepted nothing and claimed nothing.
LEMMA InitIInv == Init => IInv
  BY DEF Init, IInv, CursorIsLast, HoldersAreNext, SuccessIsTaken,
         AppliedIsTaken, RequestsAreAccepted, Accepted, Holds

\* Storing a message: the accepted ones grow at the end of the stream.
LEMMA StoreJobs ==
    ASSUME TypeOK, IInv, NEW m \in Messages, Store(m)
    PROVE  JobStep
  <1>0. Seq[m] \in Nat \ {0} /\ cursor \in Nat /\ job \in [Messages -> JobStatus]
    BY MessagesAssumption DEF TypeOK
  <1>1. CASE Enqueue(m) /\ (Continues(m) \/ Seq[m] = cursor + 1)
                        /\ job[m] \in {"NONE", "REJECTED"}
    <2>1. Accepted' = Accepted \cup {m}
      BY <1>0, <1>1 DEF Enqueue, Accepted
    <2>2. m \notin Accepted
      BY <1>1 DEF Accepted
    <2>3. cursor' = Seq[m] /\ (cursor # 0 => Seq[m] > cursor)
      BY <1>0, <1>1 DEF Enqueue, Continues
    <2> QED
      BY <2>1, <2>2, <2>3 DEF JobStep
  <1>2. CASE job' = [job EXCEPT ![m] = "REJECTED"] /\ UNCHANGED cursor
             /\ job[m] \in {"NONE", "REJECTED"}
    BY <1>0, <1>2 DEF JobStep, Accepted
  <1> QED
    BY <1>1, <1>2 DEF Store, AcceptFirstCopy, RejectFirstCopy,
       ReconsiderRejected, ConflictingCopy, Reject

\* A step that moves jobs among the statuses of accepted messages only.
LEMMA WithinAccepted ==
    ASSUME TypeOK, UNCHANGED cursor,
           NEW m \in Messages, NEW s \in JobStatus \ {"NONE", "REJECTED"},
           job[m] \in JobStatus \ {"NONE", "REJECTED"},
           job' = [job EXCEPT ![m] = s]
    PROVE  JobStep /\ Accepted' = Accepted
  BY DEF TypeOK, JobStep, Accepted

\* All other steps accept nothing.
LEMMA OtherJobs ==
    ASSUME TypeOK, IInv, [Next]_vars, \A m \in Messages : ~Store(m)
    PROVE  JobStep /\ Accepted' = Accepted
  <1>1. CASE UNCHANGED <<job, cursor>>
    BY <1>1 DEF JobStep, Accepted
  <1>2. ASSUME NEW w \in Workers, NEW m \in Messages, Claim(w, m)
        PROVE  JobStep /\ Accepted' = Accepted
    <2>1. job[m] \in JobStatus \ {"NONE", "REJECTED"}
      BY <1>2 DEF Claim, Waiting, Abandoned, Overdue, TypeOK
    <2> QED
      BY <1>2, <2>1, WithinAccepted DEF Claim, JobStatus
  <1>3. ASSUME NEW w \in Workers, Record(w)
        PROVE  JobStep /\ Accepted' = Accepted
    <2> DEFINE m == task[w].msg
               s == Verdict(task[w].at, task[w].attempt)
    <2>1. m \in Messages
      BY <1>3, HolderStep DEF Record
    <2>2. s \in JobStatus \ {"NONE", "REJECTED"}
      BY VerdictType DEF JobStatus
    <2>3. CASE job[m] = "PROCESSING"
      <3>1. job' = [job EXCEPT ![m] = s]
        BY <1>3, <2>1, <2>3 DEF Record, RecordIfProcessing, TypeOK
      <3> QED
        BY <1>3, <2>1, <2>2, <2>3, <3>1, WithinAccepted DEF Record, JobStatus
    <2>4. CASE job[m] # "PROCESSING"
      BY <1>1, <1>3, <2>1, <2>4 DEF Record, RecordIfProcessing, TypeOK
    <2> QED
      BY <2>3, <2>4
  <1>4. ASSUME NEW m \in Messages, RetryJobWrite(m)
        PROVE  JobStep /\ Accepted' = Accepted
    <2>1. job[m] \in JobStatus \ {"NONE", "REJECTED"}
      BY <1>4 DEF RetryJobWrite, IInv, RequestsAreAccepted, Accepted, TypeOK
    <2> QED
      BY <1>4, <2>1, WithinAccepted DEF RetryJobWrite, JobStatus
  <1> QED
    BY <1>1, <1>2, <1>3, <1>4
    DEF Next, Work, vars, jobVars, Choose, Apply, AnswerDuplicate, Refuse,
        Crash, Falter, RetryJobRead, RecordOrderExport, OthersMove, Expire

\* What one step does to the accepted messages, whichever step it is.
LEMMA EveryJobStep ==
    ASSUME TypeOK, IInv, [Next]_vars
    PROVE  JobStep
  BY StoreJobs, OtherJobs

\* The cursor stays at the end of the stream.
LEMMA CursorStep ==
    ASSUME TypeOK, IInv, JobStep, TypeOK'
    PROVE  CursorIsLast'
  <1>0. /\ \A m \in Messages : Seq[m] \in Nat \ {0}
        /\ cursor \in Nat /\ cursor' \in Nat
    BY MessagesAssumption DEF TypeOK
  <1>1. CASE Accepted' = Accepted
    BY <1>1 DEF JobStep, IInv, CursorIsLast
  <1>2. ASSUME NEW m \in Accepted' \ Accepted
        PROVE  CursorIsLast'
    <2>1. cursor' = Seq[m] /\ (cursor # 0 => Seq[m] > cursor)
      BY <1>2 DEF JobStep
    <2>2. ASSUME NEW n \in Accepted'
          PROVE  Seq[n] <= cursor'
      <3>1. CASE n \in Accepted
        <4>1. n \in Messages /\ Seq[n] <= cursor
          BY <3>1 DEF IInv, CursorIsLast, Accepted
        <4>2. m \in Messages
          BY <1>2 DEF Accepted
        <4> QED
          BY <1>0, <2>1, <4>1, <4>2
      <3>2. CASE n \notin Accepted
        <4>1. cursor' = Seq[n]
          BY <2>2, <3>2 DEF JobStep
        <4> QED
          BY <1>0, <4>1
      <3> QED
        BY <3>1, <3>2
    <2> QED
      BY <1>2, <2>1, <2>2 DEF CursorIsLast
  <1>3. Accepted \subseteq Accepted'
    BY DEF JobStep
  <1> QED
    BY <1>1, <1>2, <1>3

\* The order's version of 1C only grows, and a message a service takes or
\* recognises leaves the order at its version or beyond.
LEMMA OrderStep ==
    ASSUME TypeOK, [Next]_vars
    PROVE  /\ order.oneCVersion \in Nat /\ order'.oneCVersion \in Nat
           /\ order'.oneCVersion >= order.oneCVersion
           /\ order'.oneCVersion # order.oneCVersion =>
                 \E w \in Workers : /\ Apply(w)
                                    /\ order'.oneCVersion = Seq[task[w].msg]
                                    /\ Seq[task[w].msg] > order.oneCVersion
  <1>0. order \in Order /\ order.oneCVersion \in Nat
    BY DEF TypeOK, Order
  <1>1. CASE order'.oneCVersion = order.oneCVersion
    BY <1>0, <1>1
  <1>2. ASSUME NEW w \in Workers, Apply(w)
        PROVE  /\ order'.oneCVersion = Seq[task[w].msg]
               /\ Seq[task[w].msg] > order.oneCVersion
               /\ Seq[task[w].msg] \in Nat
    <2> DEFINE call == task[w].at
               m    == task[w].msg
    <2>1. m \in Messages /\ Seq[m] \in Nat /\ call \in Call
      BY <1>2, HolderStep, MessagesAssumption DEF Apply, Holds
    <2>2. Seq[m] > order.oneCVersion
      BY <1>2 DEF Apply, Accepts
    <2>3. CASE call = "confirm"
      <3>1. order' = [order EXCEPT !.status = "AWAITING_PAYMENT",
                                   !.oneCVersion = Seq[m],
                                   !.held = TRUE, !.deadline = Until[m]]
        BY <1>2, <2>3 DEF Apply
      <3> QED
        BY <1>0, <2>1, <2>2, <3>1 DEF Order
    <2>4. CASE call = "extend"
      <3>1. order' = [order EXCEPT !.oneCVersion = Seq[m], !.deadline = Until[m]]
        BY <1>2, <2>4 DEF Apply
      <3> QED
        BY <1>0, <2>1, <2>2, <3>1 DEF Order
    <2>5. CASE call = "pay"
      <3>1. order' = [order EXCEPT !.status = "PAID", !.oneCVersion = Seq[m]]
        BY <1>2, <2>5 DEF Apply
      <3> QED
        BY <1>0, <2>1, <2>2, <3>1 DEF Order
    <2> QED
      BY <2>1, <2>3, <2>4, <2>5 DEF Call
  <1>3. RecordOrderExport \/ OthersMove \/ Expire
           => order'.oneCVersion = order.oneCVersion
    BY <1>0 DEF RecordOrderExport, OthersMove, Expire, Order
  <1>4. (\A w \in Workers : ~Apply(w)) /\ ~(RecordOrderExport \/ OthersMove \/ Expire)
           => UNCHANGED order
    BY DEF Next, Work, Store, vars, AcceptFirstCopy, RejectFirstCopy,
           ReconsiderRejected, ConflictingCopy, Claim, Choose, AnswerDuplicate,
           Refuse, Record, Crash, Falter, RetryJobRead, RetryJobWrite
  <1> QED
    BY <1>0, <1>1, <1>2, <1>3, <1>4

\* What is accepted later comes later in the stream, so a worker whose claim
\* stays has nothing new before it.
LEMMA HolderStays ==
    ASSUME TypeOK, IInv, [Next]_vars, NEW m \in Accepted,
           \A e \in Accepted : Seq[e] < Seq[m] => Seq[e] <= order.oneCVersion
    PROVE  /\ m \in Accepted'
           /\ \A e \in Accepted' : Seq[e] < Seq[m] => Seq[e] <= order'.oneCVersion
  <1>0. /\ \A n \in Messages : Seq[n] \in Nat \ {0}
        /\ cursor \in Nat /\ m \in Messages /\ Seq[m] <= cursor
        /\ order.oneCVersion \in Nat /\ order'.oneCVersion \in Nat
        /\ order'.oneCVersion >= order.oneCVersion
    BY MessagesAssumption, OrderStep DEF TypeOK, IInv, CursorIsLast, Accepted
  <1>1. JobStep
    BY EveryJobStep
  <1>2. ASSUME NEW e \in Accepted', Seq[e] < Seq[m]
        PROVE  Seq[e] <= order'.oneCVersion
    <2>0. e \in Messages
      BY DEF Accepted
    <2>1. CASE e \in Accepted
      BY <1>0, <1>2, <2>0, <2>1
    <2>2. CASE e \notin Accepted
      <3>1. cursor # 0 => Seq[e] > cursor
        BY <1>1, <2>2 DEF JobStep
      <3> QED
        BY <1>0, <1>2, <2>0, <3>1
    <2> QED
      BY <2>1, <2>2
  <1> QED
    BY <1>1, <1>2 DEF JobStep

\* What one step does to the task of worker v: nothing, except that its owner
\* leaves it, moves within its claim, or claims the next message.
TaskStep(v) ==
    \/ task'[v] = task[v]
    \/ task'[v] = Idle
    \/ task[v] # Idle /\ task'[v] # Idle /\ task'[v].msg = task[v].msg
    \/ \E m \in Messages : Claim(v, m) /\ task'[v].msg = m /\ task'[v] # Idle

\* Every step treats the task of every worker like this.
LEMMA EveryTaskStep ==
    ASSUME TypeOK, [Next]_vars, NEW v \in Workers
    PROVE  TaskStep(v)
  <1>1. CASE UNCHANGED task
    BY <1>1 DEF TaskStep
  <1>2. ASSUME NEW w \in Workers, NEW m \in Messages, Claim(w, m)
        PROVE  TaskStep(v)
    <2>1. [at |-> "claimed", msg |-> m, attempt |-> attempts[m] + 1] \in Claimed
      BY DEF TypeOK, Claimed, Phase
    <2>2. task' = [task EXCEPT ![w] = [at |-> "claimed", msg |-> m,
                                       attempt |-> attempts[m] + 1]]
      BY <1>2 DEF Claim
    <2> QED
      BY <1>2, <2>1, <2>2, ClaimedIsNotIdle DEF TaskStep, TypeOK
  <1>3. ASSUME NEW w \in Workers, NEW phase \in Phase, task[w] # Idle,
               Goto(w, phase)
        PROVE  TaskStep(v)
    BY <1>3, GotoStep DEF TaskStep
  <1>4. ASSUME NEW w \in Workers, task' = [task EXCEPT ![w] = Idle]
        PROVE  TaskStep(v)
    BY <1>4 DEF TaskStep, TypeOK
  <1>5. ASSUME NEW w \in Workers, Choose(w)
        PROVE  TaskStep(v)
    <2>1. Choice(task[w].msg) \in Phase /\ task[w] # Idle
      BY <1>5, HolderStep, MessagesAssumption
      DEF Choose, Holds, Choice, Phase, Call, Kinds, TypeOK, Order
    <2> QED
      BY <1>3, <1>5, <2>1 DEF Choose
  <1>6. ASSUME NEW w \in Workers,
               Apply(w) \/ AnswerDuplicate(w) \/ Refuse(w) \/ Falter(w)
        PROVE  TaskStep(v)
    <2>1. /\ task[w] # Idle
          /\ \E phase \in {"applied", "permanent", "transient"} : Goto(w, phase)
      BY <1>6 DEF Apply, AnswerDuplicate, Refuse, Falter, Holds
    <2> QED
      BY <1>3, <2>1 DEF Phase
  <1> QED
    BY <1>1, <1>2, <1>4, <1>5, <1>6
    DEF Next, Work, Store, vars, jobVars, AcceptFirstCopy, RejectFirstCopy,
        ReconsiderRejected, ConflictingCopy, Record, Crash, RetryJobRead,
        RetryJobWrite, RecordOrderExport, OthersMove, Expire

\* A claim is made on a message all of whose predecessors are applied, and
\* from then on nothing comes before that message any more.
LEMMA HoldersStep ==
    ASSUME TypeOK, IInv, [Next]_vars
    PROVE  HoldersAreNext'
  <1> SUFFICES ASSUME NEW v \in Workers, task'[v] # Idle
               PROVE  /\ task'[v].msg \in Accepted'
                      /\ \A e \in Accepted' :
                            Seq[e] < Seq[task'[v].msg] => Seq[e] <= order'.oneCVersion
    BY DEF HoldersAreNext
  <1>1. CASE task[v] # Idle /\ task'[v].msg = task[v].msg
    <2>1. /\ task[v].msg \in Accepted
          /\ \A e \in Accepted :
                Seq[e] < Seq[task[v].msg] => Seq[e] <= order.oneCVersion
      BY <1>1 DEF IInv, HoldersAreNext
    <2> QED
      BY <1>1, <2>1, HolderStays
  <1>2. ASSUME NEW m \in Messages, Claim(v, m), task'[v].msg = m
        PROVE  /\ task'[v].msg \in Accepted'
               /\ \A e \in Accepted' :
                     Seq[e] < Seq[task'[v].msg] => Seq[e] <= order'.oneCVersion
    <2>1. m \in Accepted
      BY <1>2 DEF Claim, Waiting, Abandoned, Overdue, Accepted
    <2>2. \A e \in Accepted : Seq[e] < Seq[m] => job[e] = "APPLIED"
      BY <1>2 DEF Claim, HasEarlierPending, Pending, Accepted, TypeOK, JobStatus
    <2>3. \A e \in Accepted : Seq[e] < Seq[m] => Seq[e] <= order.oneCVersion
      BY <2>2 DEF IInv, AppliedIsTaken, Accepted
    <2> QED
      BY <1>2, <2>1, <2>3, HolderStays
  <1> QED
    BY <1>1, <1>2, EveryTaskStep DEF TaskStep

\* A worker that comes to report success has just seen the order at the
\* version of its message; one that already could still can.
LEMMA SuccessStep ==
    ASSUME TypeOK, IInv, [Next]_vars
    PROVE  SuccessIsTaken'
  <1>0. /\ \A m \in Messages : Seq[m] \in Nat
        /\ order.oneCVersion \in Nat /\ order'.oneCVersion \in Nat
        /\ order'.oneCVersion >= order.oneCVersion
    BY OrderStep, MessagesAssumption
  <1> SUFFICES ASSUME NEW v \in Workers, task'[v] # Idle, task'[v].at = "applied"
               PROVE  Seq[task'[v].msg] <= order'.oneCVersion
    BY DEF SuccessIsTaken, Holds
  <1>1. CASE task'[v] = task[v]
    <2>1. Holds(v, {"applied"})
      BY <1>1 DEF Holds
    <2>2. task[v].msg \in Messages /\ Seq[task[v].msg] <= order.oneCVersion
      BY <2>1, HolderStep DEF IInv, SuccessIsTaken
    <2> QED
      BY <1>0, <1>1, <2>2
  <1>2. CASE Apply(v)
    <2>1. task[v] # Idle /\ "applied" \in Phase /\ Goto(v, "applied")
      BY <1>2 DEF Apply, Holds, Phase
    <2>2. task'[v].msg = task[v].msg /\ task[v].msg \in Messages
      BY <2>1, GotoStep
    <2>3. Seq[task[v].msg] > order.oneCVersion
      BY <1>2 DEF Apply, Accepts
    <2>4. order'.oneCVersion = Seq[task[v].msg]
      <3>1. task[v].at \in Call
        BY <1>2 DEF Apply, Holds
      <3> QED
        BY <1>2, <3>1 DEF Apply, Call, TypeOK, Order
    <2> QED
      BY <1>0, <2>2, <2>4
  <1>3. CASE AnswerDuplicate(v)
    <2>1. task[v] # Idle /\ "applied" \in Phase /\ Goto(v, "applied")
      BY <1>3 DEF AnswerDuplicate, Holds, Phase
    <2>2. task'[v].msg = task[v].msg /\ task[v].msg \in Messages
      BY <2>1, GotoStep
    <2>3. Seq[task[v].msg] = order.oneCVersion
      BY <1>3 DEF AnswerDuplicate, IsDuplicate
    <2> QED
      BY <1>0, <2>2, <2>3
  <1>4. ASSUME task'[v] # task[v], ~Apply(v), ~AnswerDuplicate(v)
        PROVE  FALSE
    <2>1. ASSUME NEW m \in Messages, Claim(v, m)
          PROVE  FALSE
      <3>1. task'[v] = [at |-> "claimed", msg |-> m, attempt |-> attempts[m] + 1]
        BY <2>1 DEF Claim, TypeOK
      <3> QED
        BY <3>1
    <2>2. ASSUME Choose(v)
          PROVE  FALSE
      <3>1. /\ task[v] # Idle
            /\ Choice(task[v].msg) \in {"permanent"} \cup Call
        BY <2>2, HolderStep, MessagesAssumption
        DEF Choose, Holds, Choice, Call, Kinds, TypeOK, Order
      <3>2. task'[v].at = Choice(task[v].msg)
        BY <2>2, <3>1, GotoStep DEF Choose, Phase
      <3> QED
        BY <3>1, <3>2 DEF Call
    <2>3. ASSUME Refuse(v) \/ Falter(v)
          PROVE  FALSE
      <3>1. /\ task[v] # Idle
            /\ Goto(v, "permanent") \/ Goto(v, "transient")
        BY <2>3 DEF Refuse, Falter, Holds
      <3>2. task'[v].at \in {"permanent", "transient"}
        BY <3>1, GotoStep DEF Phase
      <3> QED
        BY <3>2
    <2>4. ASSUME Record(v) \/ Crash(v)
          PROVE  FALSE
      BY <2>4 DEF Record, Crash, TypeOK
    <2>5. ASSUME NEW w \in Workers, Work(w) \/ Crash(w) \/ Falter(w), w # v
          PROVE  FALSE
      <3>1. task' \in [Workers -> Claimed \cup {Idle}]
        BY NextType DEF TypeOK
      <3>2. \E t : task' = [task EXCEPT ![w] = t]
        BY <2>5 DEF Work, Claim, Choose, Apply, AnswerDuplicate, Refuse,
                    Record, Crash, Falter, Goto
      <3> QED
        BY <1>4, <2>5, <3>1, <3>2 DEF TypeOK
    <2> QED
      BY <1>4, <2>1, <2>2, <2>3, <2>4, <2>5
      DEF Next, Work, Store, vars, jobVars, AcceptFirstCopy, RejectFirstCopy,
          ReconsiderRejected, ConflictingCopy, RetryJobRead, RetryJobWrite, RecordOrderExport,
          OthersMove, Expire
  <1> QED
    BY <1>1, <1>2, <1>3, <1>4

\* A job becomes APPLIED only in the hands of a worker who knows that the
\* order has it.
LEMMA AppliedStep ==
    ASSUME TypeOK, IInv, [Next]_vars
    PROVE  AppliedIsTaken'
  <1>0. /\ \A m \in Messages : Seq[m] \in Nat
        /\ order.oneCVersion \in Nat /\ order'.oneCVersion \in Nat
        /\ order'.oneCVersion >= order.oneCVersion
    BY OrderStep, MessagesAssumption
  <1> SUFFICES ASSUME NEW m \in Messages, job'[m] = "APPLIED"
               PROVE  Seq[m] <= order'.oneCVersion
    BY DEF AppliedIsTaken
  <1>1. CASE job[m] = "APPLIED"
    BY <1>0, <1>1 DEF IInv, AppliedIsTaken
  <1>2. ASSUME NEW w \in Workers, Record(w), job[m] # "APPLIED"
        PROVE  Seq[m] <= order'.oneCVersion
    <2>1. m = task[w].msg /\ Verdict(task[w].at, task[w].attempt) = "APPLIED"
      BY <1>2, HolderStep DEF Record, RecordIfProcessing, TypeOK
    <2>2. task[w].at = "applied"
      BY <2>1 DEF Verdict
    <2>3. Seq[m] <= order.oneCVersion
      BY <1>2, <2>1, <2>2 DEF IInv, SuccessIsTaken, Record, Holds
    <2> QED
      BY <1>0, <2>3
  <1>3. ASSUME job[m] # "APPLIED", \A w \in Workers : ~Record(w)
        PROVE  FALSE
    BY <1>3
    DEF Next, Work, Store, vars, jobVars, AcceptFirstCopy, RejectFirstCopy,
        ReconsiderRejected, ConflictingCopy, Enqueue, Reject, Claim, Choose,
        Apply, AnswerDuplicate, Refuse, Crash, Falter, RetryJobRead, RetryJobWrite,
        RecordOrderExport, OthersMove, Expire, TypeOK
  <1> QED
    BY <1>1, <1>2, <1>3

\* An operator's request reads only jobs of the stream, and no job leaves it.
LEMMA RequestsStep ==
    ASSUME TypeOK, IInv, [Next]_vars
    PROVE  RequestsAreAccepted'
  <1>1. Accepted \subseteq Accepted'
    BY EveryJobStep DEF JobStep
  <1>2. CASE UNCHANGED requeuing
    BY <1>1, <1>2 DEF IInv, RequestsAreAccepted
  <1>3. ASSUME NEW m \in Messages, RetryJobRead(m)
        PROVE  RequestsAreAccepted'
    <2>1. m \in Accepted
      BY <1>3 DEF RetryJobRead, Retryable, Accepted
    <2> QED
      BY <1>1, <1>3, <2>1 DEF RetryJobRead, IInv, RequestsAreAccepted, TypeOK
  <1>4. ASSUME NEW m \in Messages, RetryJobWrite(m)
        PROVE  RequestsAreAccepted'
    BY <1>1, <1>4 DEF RetryJobWrite, IInv, RequestsAreAccepted, TypeOK
  <1> QED
    BY <1>2, <1>3, <1>4
    DEF Next, Work, Store, vars, AcceptFirstCopy, RejectFirstCopy,
        ReconsiderRejected, ConflictingCopy, Claim, Choose, Apply,
        AnswerDuplicate, Refuse, Record, Crash, Falter, RecordOrderExport,
        OthersMove, Expire

\* The strengthened invariant is inductive.
LEMMA NextIInv == TypeOK /\ IInv /\ [Next]_vars => IInv'
  BY NextType, EveryJobStep, CursorStep, HoldersStep, SuccessStep, AppliedStep,
     RequestsStep
  DEF IInv

\* The strengthened invariant holds.
LEMMA InboxInvariant == Spec => [](TypeOK /\ IInv)
  BY InitType, InitIInv, NextType, NextIInv, PTL DEF Spec

------------------------------------------------------------------------------
(* The theorems.                                                           *)

\* A message marked APPLIED has had its effect on the order.
THEOREM AppliedSafe == Spec => []AppliedIsTaken
  <1>1. IInv => AppliedIsTaken
    BY DEF IInv
  <1> QED
    BY <1>1, InboxInvariant, PTL

\* No worker undoes what was recorded as applied or as dead; only the request
\* of an operator does.
THEOREM VerdictsAreFinal == Spec => VerdictStands
  <1>1. TypeOK /\ [Next]_vars =>
          [\A m \in Messages :
             job[m] \in {"APPLIED", "DLQ"} /\ job'[m] # job[m]
                => requeuing'[m] = requeuing[m] - 1]_vars
    <2> SUFFICES ASSUME TypeOK, [Next]_vars, NEW m \in Messages,
                        job[m] \in {"APPLIED", "DLQ"}, job'[m] # job[m]
                 PROVE  requeuing'[m] = requeuing[m] - 1
      OBVIOUS
    <2>1. ASSUME NEW w \in Workers, Record(w)
          PROVE  FALSE
      BY <2>1 DEF Record, RecordIfProcessing, TypeOK
    <2>2. ASSUME NEW n \in Messages, RetryJobWrite(n)
          PROVE  requeuing'[m] = requeuing[m] - 1
      BY <2>2 DEF RetryJobWrite, TypeOK
    <2> QED
      BY <2>1, <2>2
      DEF Next, Work, Store, vars, jobVars, AcceptFirstCopy, RejectFirstCopy,
          ReconsiderRejected, ConflictingCopy, Enqueue, Reject, Claim, Waiting,
          Abandoned, Overdue, Choose, Apply, AnswerDuplicate, Refuse, Crash,
          Falter, RetryJobRead, RecordOrderExport, OthersMove, Expire, TypeOK
  <1> QED
    BY <1>1, InboxTypeCorrect, PTL DEF Spec, VerdictStands

\* Every step of the inbox is a step of the abstract stream or a stutter.
LEMMA StreamStep ==
    ASSUME TypeOK, IInv, [Next]_vars
    PROVE  [Stream!Next]_Stream!streamVars
  <1> DEFINE Versions == {Seq[m] : m \in Messages}
  <1>0. /\ JobStep
        /\ \A m \in Messages : Seq[m] \in Nat \ {0}
        /\ cursor \in Nat
    BY EveryJobStep, MessagesAssumption DEF TypeOK
  <1>1. CASE UNCHANGED <<AcceptedVersions, order.oneCVersion>>
    BY <1>1 DEF Stream!streamVars
  <1>2. ASSUME NEW m \in Messages, Store(m),
               AcceptedVersions' # AcceptedVersions
        PROVE  Stream!Next
    <2>1. Accepted' = Accepted \cup {m} /\ m \notin Accepted /\ Continues(m)
      BY <1>2 DEF Store, AcceptFirstCopy, RejectFirstCopy, ReconsiderRejected,
                  ConflictingCopy, Enqueue, Reject, Accepted, AcceptedVersions,
                  TypeOK, Continues
    <2>2. AcceptedVersions' = AcceptedVersions \cup {Seq[m]}
      BY <2>1 DEF AcceptedVersions, Accepted
    <2>3. Seq[m] \notin AcceptedVersions
      BY <1>2, <2>2
    <2>4. AcceptedVersions = {} \/ Seq[m] - 1 \in AcceptedVersions
      <3>1. CASE cursor = 0
        <4>1. \A n \in Accepted : FALSE
          BY <1>0, <3>1 DEF IInv, CursorIsLast, Accepted
        <4> QED
          BY <4>1 DEF AcceptedVersions
      <3>2. CASE cursor # 0
        <4>1. Seq[m] - 1 = cursor
          BY <1>0, <2>1, <3>2 DEF Continues
        <4>2. cursor \in AcceptedVersions
          BY <3>2 DEF IInv, CursorIsLast, AcceptedVersions
        <4> QED
          BY <4>1, <4>2
      <3> QED
        BY <3>1, <3>2
    <2>5. UNCHANGED order
      BY <1>2 DEF Store, AcceptFirstCopy, RejectFirstCopy, ReconsiderRejected,
                  ConflictingCopy
    <2> QED
      BY <2>2, <2>3, <2>4, <2>5 DEF Stream!Next, Stream!Accept
  <1>3. ASSUME \A m \in Messages : ~Store(m),
               order'.oneCVersion # order.oneCVersion
        PROVE  Stream!Next
    <2>1. PICK w \in Workers :
             /\ Apply(w)
             /\ order'.oneCVersion = Seq[task[w].msg]
             /\ Seq[task[w].msg] > order.oneCVersion
      BY <1>3, OrderStep
    <2> DEFINE m == task[w].msg
    <2>2. task[w] # Idle
      BY <2>1 DEF Apply, Holds
    <2>3. /\ m \in Accepted
          /\ \A e \in Accepted : Seq[e] < Seq[m] => Seq[e] <= order.oneCVersion
      BY <2>2 DEF IInv, HoldersAreNext
    <2>4. \A k \in AcceptedVersions : k < Seq[m] => k <= order.oneCVersion
      BY <2>3 DEF AcceptedVersions
    <2>5. AcceptedVersions' = AcceptedVersions
      BY <1>3, OtherJobs DEF AcceptedVersions
    <2>6. Seq[m] \in AcceptedVersions /\ Seq[m] \in Versions
      BY <2>3 DEF AcceptedVersions, Accepted
    <2> QED
      BY <2>1, <2>4, <2>5, <2>6 DEF Stream!Next, Stream!Take
  <1>4. (\A m \in Messages : ~Store(m)) => AcceptedVersions' = AcceptedVersions
    BY OtherJobs DEF AcceptedVersions
  <1>5. ASSUME NEW m \in Messages, Store(m)
        PROVE  UNCHANGED order
    BY <1>5 DEF Store, AcceptFirstCopy, RejectFirstCopy, ReconsiderRejected,
                ConflictingCopy
  <1> QED
    BY <1>1, <1>2, <1>3, <1>4, <1>5

\* The inbox implements the abstract stream of versions.
THEOREM InboxImplementsStream == Spec => ImplementsStream
  <1>1. Init => Stream!Init
    BY DEF Init, Stream!Init, AcceptedVersions, Accepted
  <1>2. TypeOK /\ IInv /\ [Next]_vars => [Stream!Next]_Stream!streamVars
    BY StreamStep
  <1> QED
    BY <1>1, <1>2, InboxInvariant, PTL DEF Spec, ImplementsStream, Stream!Spec
------------------------------------------------------------------------------
(* The refinement of OneCOrder.                                            *)

\* The abstract order goes by the same table.
LEMMA SameTable ==
    /\ OneC!PayableStatus = PayableStatus
    /\ OneC!PaidStatus = PaidStatus
    /\ \A from, to, source :
          OneC!IsOrderTransitionAllowed(from, to, source)
             <=> IsOrderTransitionAllowed(from, to, source)
  <1>1. \A from, to, sources : OneC!Move(from, to, sources) = Move(from, to, sources)
    BY DEF OneC!Move, Move
  <1>2. OneC!OrderTransitions = OrderTransitions
    BY <1>1 DEF OneC!OrderTransitions, OrderTransitions,
       OneC!PayableMoves, PayableMoves, OneC!CancelBeforeStock, CancelBeforeStock,
       OneC!AnyInternalSource, AnyInternalSource, OneC!StoreOrCustomer,
       StoreOrCustomer, OneC!StoreStaff, StoreStaff
  <1> QED
    BY <1>2 DEF OneC!PayableStatus, PayableStatus, OneC!PaidStatus, PaidStatus,
                OneC!IsOrderTransitionAllowed, IsOrderTransitionAllowed

\* Only 1C and the system make an order payable that was not.
LEMMA SiteMovesOfTheTable ==
    ASSUME NEW from, NEW to \in PayableStatus \cup PaidStatus,
           NEW source \in {"ADMIN", "STOREFRONT"},
           IsOrderTransitionAllowed(from, to, source)
    PROVE  from \in PayableStatus \cup PaidStatus
  BY DEF IsOrderTransitionAllowed, OrderTransitions, Move, PayableMoves,
         CancelBeforeStock, AnyInternalSource, StoreOrCustomer, StoreStaff,
         PayableStatus, PaidStatus

\* An order that can be paid or was paid holds its goods; one that holds goods
\* is known to 1C; and of one that waits for its stock nothing is known yet.
OrderShape ==
    /\ order.status \in PayableStatus \cup PaidStatus => order.held
    /\ order.held => order.exported
    /\ order.status = "AWAITING_STOCK_CONFIRMATION" =>
          order.oneCVersion = 0 /\ ~order.held /\ order.deadline = 0

\* A service is only called for an order that 1C knows.
CallsAreKnown == \A w \in Workers : Holds(w, Call) => order.exported

\* What a service's transaction does to the order, by the call that made it.
LEMMA ApplyMovesOrder ==
    ASSUME TypeOK, OrderShape, CallsAreKnown, NEW w \in Workers, Apply(w)
    PROVE  /\ OneC!OneCStep("order")
           /\ OrderShape'
           /\ order'.exported = order.exported
  <1> DEFINE call == task[w].at
             m    == task[w].msg
  <1>0. /\ order \in Order /\ order.exported = TRUE /\ order.oneCVersion \in Nat
        /\ m \in Messages /\ call \in Call /\ Seq[m] \in Nat /\ Until[m] \in Nat
        /\ Seq[m] > order.oneCVersion
        /\ Accepts(call, m)
    BY HolderStep, MessagesAssumption
    DEF Apply, Holds, CallsAreKnown, Accepts, TypeOK, Order
  <1>1. CASE call = "confirm"
    <2>1. /\ order' = [order EXCEPT !.status = "AWAITING_PAYMENT",
                                    !.oneCVersion = Seq[m],
                                    !.held = TRUE, !.deadline = Until[m]]
          /\ order.status = "AWAITING_STOCK_CONFIRMATION"
      BY <1>0, <1>1 DEF Apply, Accepts, Acknowledges
    <2>2. /\ order' = [exported |-> TRUE, status |-> "AWAITING_PAYMENT",
                       oneCVersion |-> Seq[m], held |-> TRUE,
                       deadline |-> Until[m]]
          /\ order.oneCVersion = 0 /\ order.held = FALSE /\ order.deadline = 0
      BY <1>0, <2>1 DEF OrderShape, Order
    <2>3. OneC!Take("order", Seq[m])
      BY <1>0, <2>2 DEF OneC!Take, TheOrder
    <2>4. OneC!Reserve("order", Until[m])
      BY <1>0, <2>1, <2>2 DEF OneC!Reserve, OneC!Becomes, TheOrder
    <2> QED
      BY <1>0, <2>2, <2>3, <2>4 DEF OneC!OneCStep, OrderShape
  <1>2. CASE call = "extend"
    <2>1. /\ order' = [order EXCEPT !.oneCVersion = Seq[m], !.deadline = Until[m]]
          /\ order.status \in PayableStatus /\ order.held
          /\ Until[m] > order.deadline
      BY <1>0, <1>2 DEF Apply, Accepts, Acknowledges
    <2>2. /\ order' = [exported |-> TRUE, status |-> order.status,
                       oneCVersion |-> Seq[m], held |-> order.held,
                       deadline |-> Until[m]]
      BY <1>0, <2>1 DEF Order
    <2>3. OneC!Take("order", Seq[m])
      BY <1>0, <2>2 DEF OneC!Take, TheOrder
    <2>4. OneC!Prolong("order", Until[m])
      BY <1>0, <2>1, <2>2, SameTable DEF OneC!Prolong, TheOrder
    <2> QED
      BY <1>0, <2>1, <2>2, <2>3, <2>4 DEF OneC!OneCStep, OrderShape, PayableStatus
  <1>3. CASE call = "pay"
    <2>1. /\ order' = [order EXCEPT !.status = "PAID", !.oneCVersion = Seq[m]]
          /\ order.status \in PayableStatus \cup {"PAID"} /\ order.held
      BY <1>0, <1>3 DEF Apply, Accepts, Acknowledges, OrderShape, PaidStatus
    <2>2. /\ order' = [exported |-> TRUE, status |-> "PAID",
                       oneCVersion |-> Seq[m], held |-> order.held,
                       deadline |-> order.deadline]
      BY <1>0, <2>1 DEF Order
    <2>3. OneC!Take("order", Seq[m])
      BY <1>0, <2>2 DEF OneC!Take, TheOrder
    <2>4. OneC!Pay("order")
      BY <1>0, <2>1, <2>2, SameTable DEF OneC!Pay, OneC!Becomes, TheOrder
    <2> QED
      BY <1>0, <2>1, <2>2, <2>3, <2>4 DEF OneC!OneCStep, OrderShape
  <1> QED
    BY <1>0, <1>1, <1>2, <1>3 DEF Call

\* What the rest of the system does to the order.
LEMMA OthersMoveOrder ==
    ASSUME TypeOK, OrderShape, RecordOrderExport \/ OthersMove \/ Expire
    PROVE  /\ OneC!Next
           /\ OrderShape'
           /\ order.exported => order'.exported
  <1>0. order \in Order
    BY DEF TypeOK
  <1>1. CASE RecordOrderExport
    <2>1. order' = [exported |-> TRUE, status |-> order.status,
                    oneCVersion |-> order.oneCVersion, held |-> order.held,
                    deadline |-> order.deadline]
          /\ order.exported = FALSE
      BY <1>0, <1>1 DEF RecordOrderExport, Order
    <2>2. OneC!Export("order")
      BY <2>1 DEF OneC!Export, TheOrder
    <2> QED
      BY <2>1, <2>2 DEF OneC!Next, OneC!OneCStep, TheOrder, OrderShape
  <1>2. CASE OthersMove
    <2>1. PICK to \in {"AWAITING_PAYMENT", "PAYMENT_VERIFICATION", "ASSEMBLING",
                       "READY_FOR_PICKUP", "COMPLETED", "CANCELLED_BY_STORE",
                       "PAID"} :
             /\ \E source \in {"ADMIN", "STOREFRONT"} :
                   IsOrderTransitionAllowed(order.status, to, source)
             /\ order' = [order EXCEPT !.status = to]
      BY <1>2 DEF OthersMove
    <2>2. order' = [exported |-> order.exported, status |-> to,
                    oneCVersion |-> order.oneCVersion, held |-> order.held,
                    deadline |-> order.deadline]
      BY <1>0, <2>1 DEF Order
    <2>3. to # "CANCELLED_BY_STORE" => order.held
      <3>1. to # "CANCELLED_BY_STORE" => to \in PayableStatus \cup PaidStatus
        BY <2>1 DEF PayableStatus, PaidStatus
      <3> QED
        BY <2>1, <3>1, SiteMovesOfTheTable DEF OrderShape
    <2>4. to \in OneC!SiteStatus
      BY <2>1, SameTable DEF OneC!SiteStatus, PayableStatus, PaidStatus
    <2>5. OneC!SiteMoves("order")
      BY <2>1, <2>2, <2>3, <2>4, SameTable DEF OneC!SiteMoves, OneC!Becomes, TheOrder
    <2>6. OrderShape'
      BY <2>1, <2>2, <2>3 DEF OrderShape, PayableStatus, PaidStatus
    <2> QED
      BY <2>2, <2>5, <2>6 DEF OneC!Next, TheOrder
  <1>3. CASE Expire
    <2>1. order' = [exported |-> order.exported, status |-> "RESERVATION_EXPIRED",
                    oneCVersion |-> order.oneCVersion, held |-> FALSE,
                    deadline |-> order.deadline]
          /\ order.held /\ order.status \in PayableStatus
      BY <1>0, <1>3 DEF Expire, Order
    <2>2. OneC!Expire("order")
      BY <2>1, SameTable DEF OneC!Expire, OneC!Becomes, TheOrder
    <2> QED
      BY <2>1, <2>2 DEF OneC!Next, TheOrder, OrderShape, PayableStatus, PaidStatus
  <1> QED
    BY <1>1, <1>2, <1>3

\* No other step touches the order.
LEMMA OrderStays ==
    ASSUME [Next]_vars, \A w \in Workers : ~Apply(w),
           ~(RecordOrderExport \/ OthersMove \/ Expire)
    PROVE  UNCHANGED order
  BY DEF Next, Work, Store, vars, AcceptFirstCopy, RejectFirstCopy,
         ReconsiderRejected, ConflictingCopy, Claim, Choose, AnswerDuplicate,
         Refuse, Record, Crash, Falter, RetryJobRead, RetryJobWrite

\* Every step moves the order as 1C may expect, or leaves it.
LEMMA OrderMoves ==
    ASSUME TypeOK, OrderShape, CallsAreKnown, [Next]_vars
    PROVE  /\ OneC!Next \/ UNCHANGED OneC!sharedVars
           /\ OrderShape'
           /\ order.exported => order'.exported
  <1>1. CASE UNCHANGED order
    BY <1>1 DEF OrderShape, OneC!sharedVars
  <1>2. ASSUME NEW w \in Workers, Apply(w)
        PROVE  OneC!Next /\ OrderShape' /\ order'.exported = order.exported
    BY <1>2, ApplyMovesOrder DEF OneC!Next, TheOrder
  <1> QED
    BY <1>1, <1>2, OthersMoveOrder, OrderStays

\* A call is chosen only once the order is exported, which it stays.
LEMMA CallsStayKnown ==
    ASSUME TypeOK, OrderShape, CallsAreKnown, [Next]_vars
    PROVE  CallsAreKnown'
  <1>0. order.exported => order'.exported
    BY OrderMoves
  <1> SUFFICES ASSUME NEW v \in Workers, task'[v] # Idle, task'[v].at \in Call
               PROVE  order'.exported
    BY DEF CallsAreKnown, Holds
  <1>1. CASE task'[v] = task[v]
    BY <1>0, <1>1 DEF CallsAreKnown, Holds
  <1>2. ASSUME NEW w \in Workers, Choose(w)
        PROVE  order'.exported
    <2>1. CASE v # w
      BY <1>1, <1>2, <2>1 DEF Choose, Goto, TypeOK
    <2>2. CASE v = w /\ ~order.exported
      <3>1. Choice(task[w].msg) = "permanent"
        BY <2>2 DEF Choice
      <3> QED
        BY <1>2, <2>2, <3>1, GotoStep, HolderStep DEF Choose, Holds, Phase, Call
    <2> QED
      BY <1>0, <2>1, <2>2
  <1>3. ASSUME NEW w \in Workers, NEW phase \in Phase \ Call, task[w] # Idle,
               Goto(w, phase)
        PROVE  order'.exported
    BY <1>1, <1>3, GotoStep DEF Phase, Call
  <1>4. ASSUME NEW w \in Workers,
               Apply(w) \/ AnswerDuplicate(w) \/ Refuse(w) \/ Falter(w)
        PROVE  order'.exported
    <2>1. /\ task[w] # Idle
          /\ \E phase \in {"applied", "permanent", "transient"} : Goto(w, phase)
      BY <1>4 DEF Apply, AnswerDuplicate, Refuse, Falter, Holds
    <2> QED
      BY <1>3, <2>1 DEF Phase, Call
  <1>5. ASSUME NEW w \in Workers, task' = [task EXCEPT ![w] = Idle]
        PROVE  order'.exported
    BY <1>1, <1>5 DEF TypeOK
  <1>6. ASSUME NEW w \in Workers, NEW m \in Messages, Claim(w, m)
        PROVE  order'.exported
    BY <1>1, <1>6 DEF Claim, Call, TypeOK
  <1> QED
    BY <1>1, <1>2, <1>4, <1>5, <1>6
    DEF Next, Work, Store, vars, jobVars, AcceptFirstCopy, RejectFirstCopy,
        ReconsiderRejected, ConflictingCopy, Record, Crash, RetryJobRead,
        RetryJobWrite, RecordOrderExport, OthersMove, Expire

\* Whatever crashes, is taken over or comes late, the inbox keeps what the site
\* promises 1C of the order.
THEOREM InboxImplementsOrder == Spec => ImplementsOrder
  <1>1. Init => OneC!Init /\ OrderShape /\ CallsAreKnown
    BY DEF Init, OneC!Init, OrderShape, CallsAreKnown, Holds, PayableStatus,
           PaidStatus
  <1>2. TypeOK /\ OrderShape /\ CallsAreKnown /\ [Next]_vars
           => OrderShape' /\ CallsAreKnown' /\ [OneC!Next]_(OneC!sharedVars)
    BY OrderMoves, CallsStayKnown
  <1> QED
    BY <1>1, <1>2, InboxTypeCorrect, PTL DEF Spec, ImplementsOrder, OneC!Spec
==============================================================================
