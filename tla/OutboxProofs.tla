----------------------------- MODULE OutboxProofs -----------------------------
(***************************************************************************)
(* Theorems about Outbox for every set of events, relays and workers and   *)
(* every bound on attempts, jobs, changes and faults.                      *)
(***************************************************************************)
EXTENDS OutboxProperties, SequenceTheorems, TLAPS

-------------------------------------------------------------------------------
(* The inductive invariant.                                                *)

\* What must be behind a delivery of e at a step, when tk took e.
Reached(e, step, tk) ==
    /\ step \in {"build", "dispatch", "record"} => "oneC" \in Chain[e]
    /\ step = "timer"   => "timer" \in Chain[e] /\ Chain[e] \cap {"oneC"} \subseteq tk
    /\ step = "mail"    => "mail" \in Chain[e] /\ Chain[e] \cap {"oneC", "timer"} \subseteq tk
    /\ step = "publish" => Chain[e] \subseteq tk

\* A delivery works on an event that had attempts left when it was read.  Its
\* step is only reached with the consumers before it done, and a command is
\* recorded only when it is what 1C stored.
TaskInv(w) ==
    LET t == task[w] IN
    t.step # "idle" =>
        /\ t.event \in Events
        /\ t.seen < MaxAttempts
        /\ t.step \in {"dispatch", "record"} => t.command # 0
        /\ t.step = "record" => accepted[t.event] = t.command
        /\ Reached(t.event, t.step, taken[t.event])

EffectInv(e) == /\ taken[e] \subseteq Chain[e]
                /\ journal[e] # 0 => accepted[e] = journal[e]

RelayInv(r) == relay[r].failed => relay[r].event \in Events

IInv == /\ TypeOK
        /\ AttemptsAreLimited
        /\ \A w \in Workers : TaskInv(w)
        /\ \A e \in Events : EffectInv(e)
        /\ \A r \in Relays : RelayInv(r)

-------------------------------------------------------------------------------
(* Where a delivery goes next.                                             *)

\* The chain of an event holds consumers only.
LEMMA ChainType == \A e \in Events : Chain[e] \in SUBSET Consumers
  BY DEF Chain, Consumers

\* After 1C and the timer comes the mail, or the end.
LEMMA ToMailReached ==
    ASSUME NEW e \in Events, NEW tk, Chain[e] \cap {"oneC", "timer"} \subseteq tk
    PROVE  ToMail(e) \in Steps /\ Reached(e, ToMail(e), tk)
  BY ChainType DEF ToMail, Reached, Steps, Consumers

\* After 1C comes the timer, the mail or the end.
LEMMA ToTimerReached ==
    ASSUME NEW e \in Events, NEW tk, Chain[e] \cap {"oneC"} \subseteq tk
    PROVE  ToTimer(e) \in Steps /\ Reached(e, ToTimer(e), tk)
  <1>1. CASE "timer" \in Chain[e]
    BY <1>1 DEF ToTimer, Reached, Steps
  <1>2. CASE "timer" \notin Chain[e]
    BY <1>2, ToMailReached DEF ToTimer
  <1> QED
    BY <1>1, <1>2

\* A delivery starts where nothing need have been done.
LEMMA FirstReached ==
    ASSUME NEW e \in Events, NEW tk
    PROVE  First(e) \in Steps /\ Reached(e, First(e), tk)
  <1>1. CASE "oneC" \in Chain[e]
    BY <1>1 DEF First, Reached, Steps
  <1>2. CASE "oneC" \notin Chain[e]
    BY <1>2, ToTimerReached DEF First
  <1> QED
    BY <1>1, <1>2

\* No step but the last answer is owed to consumers; failing owes nothing.
LEMMA FailedReached ==
    ASSUME NEW e, NEW tk
    PROVE  Reached(e, "failed", tk)
  BY DEF Reached

\* What was reached stays reached when another consumer takes the event.
LEMMA ReachedStays ==
    ASSUME NEW e, NEW step, NEW tk, NEW more, tk \subseteq more,
           Reached(e, step, tk)
    PROVE  Reached(e, step, more)
  BY DEF Reached

-------------------------------------------------------------------------------
(* The row.                                                                *)

\* How a step may move the row of e.
Moves(e) ==
    \/ row'[e] = row[e]
    \/ /\ row[e].status \notin Terminal
       /\ row'[e].attempts >= row[e].attempts
       /\ row'[e].attempts <= MaxAttempts
       /\ row'[e].status \notin Terminal => row'[e].attempts < MaxAttempts

RowsMove == /\ row' \in [Events -> Row]
            /\ \A e \in Events : Moves(e)

\* The fields of a row.
LEMMA RowFields ==
    ASSUME TypeOK, NEW e \in Events
    PROVE  /\ row[e] \in Row
           /\ row[e].attempts \in 0..MaxAttempts
           /\ row[e].attempts \in Nat
           /\ row[e].status \in OutboxStatus
  BY LimitsAssumption DEF TypeOK, Row

\* An update through the trigger moves the row as it may.
LEMMA UpdateMoves ==
    ASSUME TypeOK, NEW e \in Events, NEW new \in Row, Update(e, new),
           new.status \notin Terminal => new.attempts < MaxAttempts
    PROVE  RowsMove
  <1>1. CASE Raises(row[e], new)
    BY <1>1 DEF Update, RowsMove, Moves, TypeOK
  <1>2. CASE ~Raises(row[e], new)
    <2>1. row' = [row EXCEPT ![e] = new]
      BY <1>2 DEF Update
    <2>2. new.attempts \in 0..MaxAttempts
      BY DEF Row
    <2>3. row[e].status \notin Terminal /\ new.attempts >= row[e].attempts
      BY <1>2, <2>2, RowFields DEF Raises
    <2> QED
      BY <2>1, <2>2, <2>3, LimitsAssumption DEF RowsMove, Moves, TypeOK
  <1> QED
    BY <1>1, <1>2

\* An unchanged table moves nothing.
LEMMA SameRowsMove ==
    ASSUME TypeOK, UNCHANGED row
    PROVE  RowsMove
  BY DEF RowsMove, Moves, TypeOK

\* A delivery under way is of an event with attempts left when it was read.
LEMMA TaskFields ==
    ASSUME IInv, NEW w \in Workers, task[w].step # "idle"
    PROVE  /\ task[w] \in Task
           /\ task[w].event \in Events
           /\ task[w].seen \in Nat /\ task[w].seen < MaxAttempts
           /\ task[w].command \in Commands
           /\ Reached(task[w].event, task[w].step, taken[task[w].event])
  <1>1. TaskInv(w) /\ task[w] \in Task
    BY DEF IInv, TypeOK
  <1> QED
    BY <1>1, LimitsAssumption DEF TaskInv, Task

\* A row whose lease is given up is a row.
LEMMA ReleasedType ==
    ASSUME TypeOK, NEW e \in Events, NEW status \in OutboxStatus
    PROVE  /\ Released(row[e], status) \in Row
           /\ Released(row[e], status).status = status
           /\ Released(row[e], status).attempts = row[e].attempts
  BY RowFields DEF Released, Row

\* Making a row due, or not, changes nothing else of it.
LEMMA DueType ==
    ASSUME NEW old \in Row, NEW due \in BOOLEAN
    PROVE  /\ [old EXCEPT !.due = due] \in Row
           /\ [old EXCEPT !.due = due].status = old.status
           /\ [old EXCEPT !.due = due].attempts = old.attempts
  BY DEF Row

\* The statuses by name.
LEMMA Statuses == {"PENDING", "RETRY_SCHEDULED", "PROCESSING", "PUBLISHED", "DLQ"} = OutboxStatus
  BY DEF OutboxStatus, Open, Terminal

\* A row that goes back to be delivered again is a row.
LEMMA RetriedType ==
    ASSUME TypeOK, NEW e \in Events, NEW due \in BOOLEAN
    PROVE  LET new == [Released(row[e], "RETRY_SCHEDULED") EXCEPT !.due = due]
           IN  /\ new \in Row
               /\ new.status = "RETRY_SCHEDULED"
               /\ new.attempts = row[e].attempts
  <1>1. "RETRY_SCHEDULED" \in OutboxStatus
    BY Statuses
  <1>2. /\ Released(row[e], "RETRY_SCHEDULED") \in Row
        /\ Released(row[e], "RETRY_SCHEDULED").status = "RETRY_SCHEDULED"
        /\ Released(row[e], "RETRY_SCHEDULED").attempts = row[e].attempts
    BY <1>1, ReleasedType
  <1> QED
    BY <1>2, DueType

\* No step but those of relays and deliveries writes rows.
LEMMA RelayRows ==
    ASSUME IInv, NEW r \in Relays,
           \/ \E stale \in SUBSET Events : ExpireLeases(r, stale)
           \/ \E e \in Events : Claim(r, e)
           \/ GiveBack(r)
    PROVE  RowsMove
  <1> USE DEF IInv
  <1>1. ASSUME NEW stale \in SUBSET Events, ExpireLeases(r, stale)
        PROVE  RowsMove
    <2>1. ASSUME NEW e \in Events
          PROVE  row'[e] \in Row /\ Moves(e)
      <3>1. CASE e \in stale
        <4>1. row'[e] = [Released(row[e], "RETRY_SCHEDULED") EXCEPT !.due = TRUE]
          BY <1>1, <3>1 DEF ExpireLeases
        <4>2. row[e].status = "PROCESSING"
          BY <1>1, <3>1 DEF ExpireLeases
        <4>3. /\ row'[e] \in Row /\ row'[e].status = "RETRY_SCHEDULED"
              /\ row'[e].attempts = row[e].attempts
          BY <4>1, RetriedType
        <4> QED
          BY <4>2, <4>3, RowFields DEF Moves, AttemptsAreLimited, Terminal
      <3>2. CASE e \notin stale
        BY <1>1, <3>2, RowFields DEF ExpireLeases, Moves
      <3> QED
        BY <3>1, <3>2
    <2> QED
      BY <1>1, <2>1 DEF ExpireLeases, RowsMove
  <1>2. ASSUME NEW e \in Events, Claim(r, e)
        PROVE  RowsMove
    <2>1. row[e].status \in Open /\ row[e].attempts < MaxAttempts
      BY <1>2 DEF Claim, AttemptsAreLimited, Open, Terminal
    <2>2. row' = [row EXCEPT ![e] = [row[e] EXCEPT !.status = "PROCESSING", !.owner = r]]
      BY <1>2, RowFields DEF Claim, TypeOK, Row
    <2>3. [row[e] EXCEPT !.status = "PROCESSING", !.owner = r] \in Row
      BY RowFields DEF Row, OutboxStatus
    <2> QED
      BY <2>1, <2>2, <2>3, RowFields DEF RowsMove, Moves, Open, Terminal, TypeOK, Row
  <1>3. CASE GiveBack(r)
    <2> DEFINE e   == relay[r].event
               new == [Released(row[e], "RETRY_SCHEDULED") EXCEPT !.due = TRUE]
    <2>1. e \in Events
      BY <1>3 DEF GiveBack, RelayInv
    <2>2. CASE row[e].status = "PROCESSING" /\ row[e].owner = r
      <3>1. Update(e, new)
        BY <1>3, <2>2 DEF GiveBack
      <3>2. new \in Row /\ new.attempts = row[e].attempts
        BY <2>1, RetriedType
      <3>3. row[e].attempts < MaxAttempts
        BY <2>1, <2>2 DEF AttemptsAreLimited, Terminal
      <3> HIDE DEF new, e
      <3> QED
        BY <2>1, <3>1, <3>2, <3>3, UpdateMoves
    <2>3. CASE ~(row[e].status = "PROCESSING" /\ row[e].owner = r)
      BY <1>3, <2>3, SameRowsMove DEF GiveBack
    <2> QED
      BY <2>2, <2>3
  <1> QED
    BY <1>1, <1>2, <1>3

\* A delivery writes the row when it publishes and when it failed.
LEMMA WorkRows ==
    ASSUME IInv, NEW w \in Workers, Work(w)
    PROVE  RowsMove
  <1> DEFINE e == task[w].event
  <1>1. CASE Publish(w)
    <2> DEFINE new == [Released(row[e], "PUBLISHED") EXCEPT !.attempts = @ + 1]
    <2>1. e \in Events
      BY <1>1, TaskFields DEF Publish, At
    <2>2. CASE row[e].status \in Terminal
      BY <1>1, <2>2, SameRowsMove DEF Publish, IInv
    <2>3. CASE row[e].status \notin Terminal
      <3>1. Update(e, new)
        BY <1>1, <2>3 DEF Publish
      <3>2. row[e].attempts < MaxAttempts
        BY <2>1, <2>3 DEF IInv, AttemptsAreLimited
      <3>3. new \in Row /\ new.status = "PUBLISHED"
        BY <2>1, <3>2, ReleasedType, RowFields, LimitsAssumption
        DEF IInv, Row, OutboxStatus, Terminal
      <3> HIDE DEF new, e
      <3> QED
        BY <2>1, <3>1, <3>3, UpdateMoves DEF IInv, Terminal
    <2> QED
      BY <2>2, <2>3
  <1>2. CASE RecordFailure(w)
    <2> DEFINE n       == task[w].seen + 1
               retried == [Released(row[e], "RETRY_SCHEDULED") EXCEPT !.attempts = n]
               dead    == [Released(row[e], "DLQ") EXCEPT !.attempts = n]
    <2>1. e \in Events /\ n \in 0..MaxAttempts
      <3>1. task[w].step # "idle"
        BY <1>2 DEF RecordFailure, At
      <3> QED
        BY <3>1, TaskFields, LimitsAssumption
    <2>2. retried \in Row /\ retried.status = "RETRY_SCHEDULED" /\ retried.attempts = n
      BY <2>1, ReleasedType, RowFields DEF IInv, Row, OutboxStatus, Open
    <2>3. dead \in Row /\ dead.status = "DLQ"
      BY <2>1, ReleasedType, RowFields DEF IInv, Row, OutboxStatus, Terminal
    <2>4. CASE row[e].status \in Terminal
      BY <1>2, <2>4, SameRowsMove DEF RecordFailure, IInv
    <2>5. CASE row[e].status \notin Terminal /\ Retries(task[w].code, n)
      <3>1. PICK due \in BOOLEAN : Update(e, [retried EXCEPT !.due = due])
        BY <1>2, <2>5 DEF RecordFailure
      <3>2. /\ [retried EXCEPT !.due = due] \in Row
            /\ [retried EXCEPT !.due = due].attempts = n
        <4> HIDE DEF retried
        <4> QED
          BY <2>2, DueType
      <3>3. n < MaxAttempts
        BY <2>5 DEF Retries
      <3> HIDE DEF retried, e, n
      <3> QED
        BY <2>1, <3>1, <3>2, <3>3, UpdateMoves DEF IInv
    <2>6. CASE row[e].status \notin Terminal /\ ~Retries(task[w].code, n)
      <3>1. Update(e, dead)
        BY <1>2, <2>6 DEF RecordFailure
      <3> HIDE DEF dead, e
      <3> QED
        BY <2>1, <2>3, <3>1, UpdateMoves DEF IInv, Terminal
    <2> QED
      BY <2>4, <2>5, <2>6
  <1>3. CASE UNCHANGED row
    BY <1>3, SameRowsMove DEF IInv
  <1> QED
    BY <1>1, <1>2, <1>3
    DEF Work, Build, BuildExport, BuildCommand, Dispatch, Record, SetTimer, SendMail, Falter

\* An administrator's replay changes no row: the trigger raises.
LEMMA ReplayRows ==
    ASSUME IInv, NEW e \in Events, RetryOutboxEvent(e)
    PROVE  UNCHANGED row
  BY DEF RetryOutboxEvent, Update, Raises, Terminal

\* No step moves a row but as it may.
LEMMA NextRows ==
    ASSUME IInv, [Next]_vars
    PROVE  RowsMove
  <1>1. ASSUME NEW e \in Events, BecomeDue(e)
        PROVE  RowsMove
    <2>1. row' = [row EXCEPT ![e] = [row[e] EXCEPT !.due = TRUE]]
      BY <1>1, RowFields DEF BecomeDue, IInv, TypeOK, Row
    <2>2. /\ [row[e] EXCEPT !.due = TRUE] \in Row
          /\ [row[e] EXCEPT !.due = TRUE].status = row[e].status
          /\ [row[e] EXCEPT !.due = TRUE].attempts = row[e].attempts
      BY RowFields DEF IInv, Row
    <2>3. row[e].status \notin Terminal
      BY <1>1 DEF BecomeDue, Open, Terminal
    <2>4. row[e].attempts < MaxAttempts
      BY <2>3 DEF IInv, AttemptsAreLimited
    <2> QED
      BY <2>1, <2>2, <2>3, <2>4, RowFields DEF RowsMove, Moves, IInv, TypeOK
  <1>2. ASSUME NEW e \in Events, RetryOutboxEvent(e)
        PROVE  RowsMove
    BY <1>2, ReplayRows, SameRowsMove DEF IInv
  <1>3. ASSUME NEW w \in Workers, Work(w)
        PROVE  RowsMove
    BY <1>3, WorkRows
  <1>4. CASE UNCHANGED row
    BY <1>4, SameRowsMove DEF IInv
  <1> QED
    BY <1>1, <1>2, <1>3, <1>4, RelayRows
    DEF Next, Enqueue, EnqueueFails, CrashRelay, Start, CrashWorker, LoseJobs,
        FactsMove, vars, deliveryVars

-------------------------------------------------------------------------------
(* What consumers and 1C have.                                             *)

\* Events keep their kind, nothing taken is lost, and 1C keeps the command it
\* stored.
EffectsGrow ==
    /\ kind' = kind
    /\ \A e \in Events : /\ taken[e] \subseteq taken'[e]
                         /\ accepted[e] # 0 => accepted'[e] = accepted[e]

EffectsType == /\ taken' \in [Events -> SUBSET Consumers]
               /\ accepted' \in [Events -> Commands]
               /\ journal' \in [Events -> Commands]
               /\ exported' \in BOOLEAN

\* The chain follows from the kind.
LEMMA SameChain == kind' = kind => Chain' = Chain
  BY DEF Chain

\* A step that leaves kinds and effects alone.
LEMMA SameEffects ==
    ASSUME IInv, UNCHANGED <<kind, effectVars>>
    PROVE  EffectsGrow /\ EffectsType /\ \A e \in Events : EffectInv(e)'
  BY SameChain DEF IInv, TypeOK, effectVars, EffectsGrow, EffectsType, EffectInv

\* A consumer other than 1C takes the event of a delivery.
LEMMA TakesEffects ==
    ASSUME IInv, NEW w \in Workers, NEW c \in Consumers,
           task[w].event \in Events, c \in Chain[task[w].event],
           Takes(w, c), UNCHANGED <<kind, accepted, journal, exported>>
    PROVE  EffectsGrow /\ EffectsType /\ \A e \in Events : EffectInv(e)'
  <1>1. \A e \in Events : taken'[e] = IF e = task[w].event THEN taken[e] \cup {c} ELSE taken[e]
    BY DEF Takes, IInv, TypeOK
  <1>2. taken' \in [Events -> SUBSET Consumers]
    BY DEF Takes, IInv, TypeOK
  <1>3. \A e \in Events : taken'[e] \subseteq Chain[e]
    BY <1>1 DEF IInv, EffectInv
  <1> QED
    BY <1>1, <1>2, <1>3, SameChain
    DEF EffectsGrow, EffectsType, EffectInv, IInv, TypeOK

\* Every step lets the effects grow.
LEMMA NextEffects ==
    ASSUME IInv, [Next]_vars
    PROVE  EffectsGrow /\ EffectsType /\ \A e \in Events : EffectInv(e)'
  <1>1. ASSUME NEW w \in Workers, Dispatch(w)
        PROVE  EffectsGrow /\ EffectsType /\ \A e \in Events : EffectInv(e)'
    <2> DEFINE e == task[w].event
               c == task[w].command
    <2>1. e \in Events /\ c \in Commands
      BY <1>1, TaskFields DEF Dispatch, At
    <2>2. CASE Agrees(accepted[e], c)
      <3>1. accepted' = [accepted EXCEPT ![e] = c]
        BY <1>1, <2>2 DEF Dispatch
      <3>2. \A f \in Events : accepted[f] # 0 => accepted'[f] = accepted[f]
        BY <2>1, <2>2, <3>1 DEF Agrees, IInv, TypeOK
      <3>3. accepted' \in [Events -> Commands]
        BY <2>1, <3>1 DEF IInv, TypeOK
      <3>4. UNCHANGED <<kind, taken, journal, exported>>
        BY <1>1 DEF Dispatch
      <3>5. \A f \in Events : journal[f] # 0 => accepted[f] = journal[f]
        BY DEF IInv, EffectInv
      <3> QED
        BY <3>2, <3>3, <3>4, <3>5, SameChain
        DEF EffectsGrow, EffectsType, EffectInv, IInv, TypeOK
    <2>3. CASE ~Agrees(accepted[e], c)
      BY <1>1, <2>3, SameEffects DEF Dispatch, effectVars
    <2> QED
      BY <2>2, <2>3
  <1>2. ASSUME NEW w \in Workers, Record(w)
        PROVE  EffectsGrow /\ EffectsType /\ \A e \in Events : EffectInv(e)'
    <2> DEFINE e == task[w].event
               c == task[w].command
    <2>1. /\ e \in Events /\ c \in Commands /\ accepted[e] = c
          /\ "oneC" \in Chain[e]
      <3>1. task[w].step = "record"
        BY <1>2 DEF Record, At
      <3> QED
        BY <3>1, TaskFields DEF IInv, TaskInv, Reached
    <2>2. CASE Agrees(journal[e], c)
      <3>1. /\ journal' = [journal EXCEPT ![e] = c]
            /\ taken' = [taken EXCEPT ![e] = @ \cup {"oneC"}]
            /\ exported' = (exported \/ kind[e] = "order.created")
            /\ UNCHANGED <<kind, accepted>>
        BY <1>2, <2>2 DEF Record
      <3>2. \A f \in Events : /\ taken'[f] = IF f = e THEN taken[f] \cup {"oneC"} ELSE taken[f]
                              /\ journal'[f] = IF f = e THEN c ELSE journal[f]
        BY <2>1, <3>1 DEF IInv, TypeOK
      <3>3. \A f \in Events : EffectInv(f)'
        BY <2>1, <3>1, <3>2, SameChain DEF IInv, EffectInv
      <3>4. EffectsType
        BY <2>1, <3>1 DEF EffectsType, IInv, TypeOK, Consumers
      <3> QED
        BY <3>1, <3>2, <3>3, <3>4 DEF EffectsGrow
    <2>3. CASE ~Agrees(journal[e], c)
      BY <1>2, <2>3, SameEffects DEF Record, effectVars
    <2> QED
      BY <2>2, <2>3
  <1>3. ASSUME NEW w \in Workers, SetTimer(w)
        PROVE  EffectsGrow /\ EffectsType /\ \A e \in Events : EffectInv(e)'
    <2>1. task[w].event \in Events /\ "timer" \in Chain[task[w].event]
      BY <1>3, TaskFields DEF SetTimer, At, Reached
    <2> QED
      BY <1>3, <2>1, TakesEffects DEF SetTimer, Consumers
  <1>4. ASSUME NEW w \in Workers, SendMail(w)
        PROVE  EffectsGrow /\ EffectsType /\ \A e \in Events : EffectInv(e)'
    <2>1. task[w].event \in Events /\ "mail" \in Chain[task[w].event]
      BY <1>4, TaskFields DEF SendMail, At, Reached
    <2> QED
      BY <1>4, <2>1, TakesEffects DEF SendMail, Consumers
  <1>5. CASE UNCHANGED <<kind, effectVars>>
    BY <1>5, SameEffects
  <1> QED
    BY <1>1, <1>2, <1>3, <1>4, <1>5
    DEF Next, BecomeDue, RetryOutboxEvent, ExpireLeases, Claim, Enqueue, EnqueueFails,
        GiveBack, CrashRelay, Start, Work, Build, BuildExport, BuildCommand, Publish, Falter, RecordFailure,
        CrashWorker, LoseJobs, FactsMove, vars

-------------------------------------------------------------------------------
(* Deliveries.                                                             *)

\* What holds of a delivery that a step leaves alone still holds.
LEMMA TaskStays ==
    ASSUME IInv, EffectsGrow, EffectsType, NEW w \in Workers, task'[w] = task[w]
    PROVE  TaskInv(w)'
  <1>1. CASE task[w].step = "idle"
    BY <1>1 DEF TaskInv
  <1>2. CASE task[w].step # "idle"
    <2> DEFINE e == task[w].event
    <2>1. e \in Events /\ TaskInv(w)
      BY <1>2, TaskFields DEF IInv
    <2>2. /\ taken[e] \subseteq taken'[e]
          /\ accepted[e] # 0 => accepted'[e] = accepted[e]
          /\ Chain' = Chain
      BY <2>1, SameChain DEF EffectsGrow
    <2>3. Reached(e, task[w].step, taken'[e])
      BY <1>2, <2>1, <2>2, ReachedStays DEF TaskInv
    <2>4. Reached(e, task[w].step, taken[e])' <=> Reached(e, task[w].step, taken'[e])
      BY <2>2 DEF Reached
    <2> QED
      BY <1>2, <2>1, <2>2, <2>3 DEF TaskInv, Reached
  <1> QED
    BY <1>1, <1>2

TasksKeep == task' \in [Workers -> Task] /\ \A w \in Workers : TaskInv(w)'

\* One delivery changes, to one that the effects after the step allow.
LEMMA OneTask ==
    ASSUME IInv, EffectsGrow, EffectsType, NEW w \in Workers, NEW t \in Task,
           task' = [task EXCEPT ![w] = t],
           t.step # "idle" =>
               /\ t.event \in Events
               /\ t.seen < MaxAttempts
               /\ t.step \in {"dispatch", "record"} => t.command # 0
               /\ t.step = "record" => accepted'[t.event] = t.command
               /\ Reached(t.event, t.step, taken'[t.event])
    PROVE  TasksKeep
  <1>1. task'[w] = t /\ \A v \in Workers : v # w => task'[v] = task[v]
    BY DEF IInv, TypeOK
  <1>2. Chain' = Chain
    BY SameChain DEF EffectsGrow
  <1>3. TaskInv(w)'
    BY <1>1, <1>2 DEF TaskInv, Reached
  <1>4. \A v \in Workers : v # w => TaskInv(v)'
    BY <1>1, TaskStays
  <1> QED
    BY <1>3, <1>4 DEF TasksKeep, IInv, TypeOK

\* A worker with no delivery.
LEMMA IdleType == Idle \in Task /\ Idle.step = "idle"
  <1>1. 0 \in Commands /\ 0 \in 0..MaxAttempts
    BY LimitsAssumption DEF Commands
  <1> QED
    BY <1>1 DEF Idle, Task, Codes

\* A delivery ends.
LEMMA DoneKeeps ==
    ASSUME IInv, EffectsGrow, EffectsType, NEW w \in Workers, Done(w)
    PROVE  TasksKeep
  BY IdleType, OneTask DEF Done

\* A delivery fails.
LEMMA FailsKeeps ==
    ASSUME IInv, EffectsGrow, EffectsType, NEW w \in Workers, NEW code \in Codes,
           task[w].step # "idle", Fails(w, code)
    PROVE  TasksKeep
  <1> DEFINE t == [task[w] EXCEPT !.step = "failed", !.code = code, !.command = 0]
  <1>1. task' = [task EXCEPT ![w] = t]
    BY TaskFields DEF Fails, Task, IInv, TypeOK
  <1>2. task[w] \in Task
    BY TaskFields
  <1>3. 0 \in Commands
    BY LimitsAssumption DEF Commands
  <1>4. /\ t \in Task /\ t.step = "failed" /\ t.event = task[w].event
        /\ t.seen = task[w].seen
    BY <1>2, <1>3 DEF Task
  <1> HIDE DEF t
  <1> QED
    BY <1>1, <1>4, TaskFields, FailedReached, OneTask

\* A delivery goes to a step that it has reached.
LEMMA GoesKeeps ==
    ASSUME IInv, EffectsGrow, EffectsType, NEW w \in Workers, NEW step \in Steps,
           task[w].step # "idle", Goes(w, step),
           step # "dispatch",
           step = "record" => /\ task[w].command # 0
                              /\ accepted'[task[w].event] = task[w].command,
           Reached(task[w].event, step, taken'[task[w].event])
    PROVE  TasksKeep
  <1> DEFINE t == [task[w] EXCEPT !.step = step]
  <1>1. task' = [task EXCEPT ![w] = t]
    BY TaskFields DEF Goes, Task, IInv, TypeOK
  <1>2. /\ t \in Task /\ t.step = step /\ t.event = task[w].event
        /\ t.seen = task[w].seen /\ t.command = task[w].command
    BY TaskFields DEF Task
  <1> HIDE DEF t
  <1> QED
    BY <1>1, <1>2, TaskFields, OneTask

\* A worker starts a delivery, or drops the job.
LEMMA StartKeeps ==
    ASSUME IInv, EffectsGrow, EffectsType, NEW w \in Workers, Start(w)
    PROVE  TasksKeep
  <1> DEFINE e == Head(jobs)
             t == [Idle EXCEPT !.event = e, !.step = First(e), !.seen = row[e].attempts]
  <1>1. CASE row[e].status \in Terminal \/ ~row[e].due
    BY <1>1, TaskStays DEF Start, TasksKeep, IInv, TypeOK
  <1>2. CASE ~(row[e].status \in Terminal \/ ~row[e].due)
    <2>1. e \in Events
      BY HeadTailProperties DEF Start, IInv, TypeOK
    <2>2. task' = [task EXCEPT ![w] = t]
      BY <1>2 DEF Start
    <2>3. First(e) \in Steps /\ Reached(e, First(e), taken'[e])
      BY <2>1, FirstReached
    <2>4. row[e].attempts \in 0..MaxAttempts /\ row[e].attempts < MaxAttempts
      BY <1>2, <2>1, RowFields DEF IInv, AttemptsAreLimited
    <2>5. First(e) \notin {"dispatch", "record"}
      BY DEF First, ToTimer, ToMail
    <2>6. Idle \in Task
      BY IdleType
    <2>7. /\ t \in Task /\ t.event = e /\ t.step = First(e)
          /\ t.seen = row[e].attempts
      BY <2>1, <2>3, <2>4, <2>6 DEF Task
    <2> HIDE DEF t, e
    <2> QED
      BY <2>1, <2>2, <2>3, <2>4, <2>5, <2>7, LimitsAssumption, OneTask
  <1> QED
    BY <1>1, <1>2

\* A command is a command.
LEMMA ContentType ==
    ASSUME TypeOK, NEW e
    PROVE  Content(e) \in Commands /\ Content(e) # 0
  BY LimitsAssumption DEF Content, Commands, TypeOK

\* The steps of a delivery keep what holds of deliveries.
LEMMA WorkKeeps ==
    ASSUME IInv, EffectsGrow, EffectsType, NEW w \in Workers, Work(w)
    PROVE  TasksKeep
  <1> DEFINE e == task[w].event
  <1>1. task[w].step # "idle"
    BY DEF Work, Build, BuildExport, BuildCommand, Dispatch, Record, SetTimer, SendMail, Publish, Falter,
           RecordFailure, At, Steps
  <1>2. e \in Events /\ task[w] \in Task /\ Reached(e, task[w].step, taken[e])
    BY <1>1, TaskFields
  <1>3. "UNAVAILABLE" \in Codes /\ "REFUSED" \in Codes /\ "CONFLICT" \in Codes
    BY DEF Codes
  <1>4. CASE Build(w)
    <2>1. CASE kind[e] = "order.created" \/ exported
      <3> DEFINE t == [task[w] EXCEPT !.step = "dispatch", !.command = Content(e)]
      <3>1. task' = [task EXCEPT ![w] = t]
        BY <1>2, <1>4, <2>1 DEF Build, BuildExport, BuildCommand, IInv, TypeOK, Task
      <3>2. /\ t \in Task /\ t.event = e /\ t.step = "dispatch" /\ t.seen = task[w].seen
            /\ t.command = Content(e)
        BY <1>2, ContentType DEF IInv, Task, Steps
      <3>3. Reached(e, "dispatch", taken'[e])
        BY <1>2, <1>4 DEF Build, BuildExport, BuildCommand, At, Reached
      <3>4. task[w].seen < MaxAttempts
        BY <1>1, TaskFields
      <3>5. Content(e) # 0
        BY ContentType DEF IInv
      <3> HIDE DEF t, e
      <3> QED
        BY <1>2, <3>1, <3>2, <3>3, <3>4, <3>5, OneTask
    <2>2. CASE ~(kind[e] = "order.created" \/ exported)
      <3>1. \E code \in Codes : Fails(w, code)
        BY <1>3, <1>4, <2>2 DEF Build, BuildExport, BuildCommand
      <3> QED
        BY <1>1, <3>1, FailsKeeps
    <2> QED
      BY <2>1, <2>2
  <1>5. CASE Dispatch(w)
    <2>1. Fails(w, "CONFLICT") \/ Fails(w, "UNAVAILABLE") =>  TasksKeep
      BY <1>1, <1>3, FailsKeeps
    <2>2. CASE Goes(w, "record") /\ Agrees(accepted[e], task[w].command)
      <3>1. task[w].step = "dispatch" /\ task[w].command # 0
        BY <1>1, <1>5 DEF Dispatch, At, IInv, TaskInv
      <3>2. accepted' = [accepted EXCEPT ![e] = task[w].command]
        BY <1>5, <2>2 DEF Dispatch
      <3>3. accepted'[e] = task[w].command
        BY <1>2, <3>2 DEF IInv, TypeOK
      <3>4. Reached(e, "record", taken'[e])
        BY <1>2, <3>1 DEF Reached
      <3> QED
        BY <1>1, <2>2, <3>1, <3>3, <3>4, GoesKeeps DEF Steps
    <2> QED
      BY <1>5, <2>1, <2>2 DEF Dispatch, GoesOrLoses
  <1>6. CASE Record(w)
    <2>1. Fails(w, "CONFLICT") \/ Fails(w, "UNAVAILABLE") =>  TasksKeep
      BY <1>1, <1>3, FailsKeeps
    <2>2. CASE Goes(w, ToTimer(e)) /\ Agrees(journal[e], task[w].command)
      <3>1. "oneC" \in taken'[e]
        BY <1>2, <1>6, <2>2 DEF Record, IInv, TypeOK
      <3>2. /\ ToTimer(e) \in Steps /\ Reached(e, ToTimer(e), taken'[e])
            /\ ToTimer(e) \notin {"dispatch", "record"}
        BY <1>2, <3>1, ToTimerReached DEF ToTimer, ToMail
      <3> QED
        BY <1>1, <2>2, <3>2, GoesKeeps
    <2> QED
      BY <1>6, <2>1, <2>2 DEF Record, GoesOrLoses
  <1>7. CASE SetTimer(w)
    <2>1. CASE Goes(w, ToMail(e))
      <3>1. Chain[e] \cap {"oneC", "timer"} \subseteq taken'[e]
        BY <1>2, <1>7 DEF SetTimer, Takes, At, Reached, IInv, TypeOK
      <3>2. /\ ToMail(e) \in Steps /\ Reached(e, ToMail(e), taken'[e])
            /\ ToMail(e) \notin {"dispatch", "record"}
        BY <1>2, <3>1, ToMailReached DEF ToMail
      <3> QED
        BY <1>1, <2>1, <3>2, GoesKeeps
    <2> QED
      BY <1>1, <1>3, <1>7, <2>1, FailsKeeps DEF SetTimer, GoesOrLoses
  <1>8. CASE SendMail(w)
    <2>1. CASE Goes(w, "publish")
      <3>1. Chain[e] \subseteq taken'[e]
        BY <1>2, <1>8, ChainType DEF SendMail, Takes, At, Reached, IInv, TypeOK, Consumers
      <3>2. "publish" \in Steps /\ Reached(e, "publish", taken'[e])
        BY <3>1 DEF Reached, Steps
      <3> QED
        BY <1>1, <2>1, <3>2, GoesKeeps
    <2> QED
      BY <1>1, <1>3, <1>8, <2>1, FailsKeeps DEF SendMail, GoesOrLoses
  <1>9. CASE Publish(w)
    BY <1>1, <1>3, <1>9, DoneKeeps, FailsKeeps DEF Publish
  <1>10. CASE Falter(w)
    <2>1. \E code \in Codes : Fails(w, code)
      BY <1>3, <1>10 DEF Falter
    <2> QED
      BY <1>1, <2>1, FailsKeeps
  <1>11. CASE RecordFailure(w)
    BY <1>11, DoneKeeps DEF RecordFailure
  <1> QED
    BY <1>4, <1>5, <1>6, <1>7, <1>8, <1>9, <1>10, <1>11 DEF Work

\* Every step keeps what holds of deliveries.
LEMMA NextTasks ==
    ASSUME IInv, [Next]_vars
    PROVE  TasksKeep
  <1>1. EffectsGrow /\ EffectsType
    BY NextEffects
  <1>2. ASSUME NEW w \in Workers, CrashWorker(w)
        PROVE  TasksKeep
    BY <1>1, <1>2, DoneKeeps DEF CrashWorker
  <1>3. CASE UNCHANGED task
    BY <1>1, <1>3, TaskStays DEF TasksKeep, IInv, TypeOK
  <1> QED
    BY <1>1, <1>2, <1>3, StartKeeps, WorkKeeps
    DEF Next, BecomeDue, RetryOutboxEvent, ExpireLeases, Claim, Enqueue, EnqueueFails,
        GiveBack, CrashRelay, LoseJobs, FactsMove, vars, deliveryVars

-------------------------------------------------------------------------------
(* The rest of the state.                                                  *)

\* What is left of the type invariant once rows, effects and deliveries have
\* been dealt with.
RestType == /\ kind \in [Events -> Written]
            /\ jobs \in Seq(Events)
            /\ Len(jobs) <= MaxJobs
            /\ relay \in [Relays -> [event : Events \cup {NoEvent}, failed : BOOLEAN]]
            /\ facts \in 0..MaxChanges
            /\ replay \in [Events -> {"none", "queued", "failed"}]
            /\ faults \in 0..MaxFaults

\* A job put into the queue has room there.
LEMMA PutJobType ==
    ASSUME TypeOK, NEW e \in Events, PutJob(e)
    PROVE  jobs' \in Seq(Events) /\ Len(jobs') <= MaxJobs
  BY AppendProperties, LimitsAssumption DEF PutJob, TypeOK

\* A relay that holds a row holds one of the table.
LEMMA RelayFields ==
    ASSUME TypeOK, NEW r \in Relays
    PROVE  /\ relay[r].event \in Events \cup {NoEvent}
           /\ relay[r].failed \in BOOLEAN
           /\ ~Free(r) => relay[r].event \in Events
  BY DEF TypeOK, Free

\* A relay lets go of its row.
LEMMA RelayFreed ==
    ASSUME IInv, NEW r \in Relays,
           relay' = [relay EXCEPT ![r] = [event |-> NoEvent, failed |-> FALSE]]
    PROVE  /\ relay' \in [Relays -> [event : Events \cup {NoEvent}, failed : BOOLEAN]]
           /\ \A s \in Relays : RelayInv(s)'
  BY DEF IInv, TypeOK, RelayInv

\* A fault is counted.
LEMMA OneFault ==
    ASSUME TypeOK, faults < MaxFaults, faults' = faults + 1
    PROVE  faults' \in 0..MaxFaults
  BY LimitsAssumption DEF TypeOK

\* The steps of relays keep the types of what they write.
LEMMA RelayRest ==
    ASSUME IInv, NEW r \in Relays,
           \/ \E e \in Events : Claim(r, e)
           \/ Enqueue(r) \/ EnqueueFails(r) \/ GiveBack(r) \/ CrashRelay(r)
    PROVE  RestType' /\ \A s \in Relays : RelayInv(s)'
  <1>0. TypeOK /\ RestType /\ RelayInv(r)
    BY DEF IInv, TypeOK, RestType
  <1>1. ASSUME NEW e \in Events, Claim(r, e)
        PROVE  RestType' /\ \A s \in Relays : RelayInv(s)'
    <2>1. /\ relay' \in [Relays -> [event : Events \cup {NoEvent}, failed : BOOLEAN]]
          /\ \A s \in Relays : RelayInv(s)'
      BY <1>1 DEF Claim, IInv, TypeOK, RelayInv
    <2> QED
      BY <1>0, <1>1, <2>1 DEF Claim, RestType
  <1>2. CASE Enqueue(r)
    <2>1. ~relay[r].failed /\ relay[r].event \in Events
      BY <1>0, <1>2, RelayFields DEF Enqueue
    <2>2. jobs' \in Seq(Events) /\ Len(jobs') <= MaxJobs
      BY <1>0, <1>2, <2>1, PutJobType DEF Enqueue
    <2>3. /\ relay' \in [Relays -> [event : Events \cup {NoEvent}, failed : BOOLEAN]]
          /\ \A s \in Relays : RelayInv(s)'
      BY <1>2, <2>1 DEF Enqueue, IInv, TypeOK, RelayInv
    <2> QED
      BY <1>0, <1>2, <2>2, <2>3 DEF Enqueue, RestType
  <1>3. CASE EnqueueFails(r)
    <2>1. relay[r].event \in Events
      BY <1>0, <1>3, RelayFields DEF EnqueueFails
    <2>2. jobs' \in Seq(Events) /\ Len(jobs') <= MaxJobs
      BY <1>0, <1>3, <2>1, PutJobType DEF EnqueueFails, RestType
    <2>3. /\ relay' \in [Relays -> [event : Events \cup {NoEvent}, failed : BOOLEAN]]
          /\ \A s \in Relays : RelayInv(s)'
      BY <1>3, <2>1 DEF EnqueueFails, IInv, TypeOK, RelayInv
    <2>4. faults' \in 0..MaxFaults
      BY <1>0, <1>3, OneFault DEF EnqueueFails
    <2> QED
      BY <1>0, <1>3, <2>2, <2>3, <2>4 DEF EnqueueFails, RestType
  <1>4. CASE GiveBack(r)
    BY <1>0, <1>4, RelayFreed DEF GiveBack, RestType
  <1>5. CASE CrashRelay(r)
    BY <1>0, <1>5, RelayFreed, OneFault DEF CrashRelay, RestType
  <1> QED
    BY <1>1, <1>2, <1>3, <1>4, <1>5

\* The other steps keep them too.
LEMMA NextRest ==
    ASSUME IInv, [Next]_vars
    PROVE  RestType' /\ \A s \in Relays : RelayInv(s)'
  <1>0. TypeOK /\ RestType /\ \A s \in Relays : RelayInv(s)
    BY DEF IInv, TypeOK, RestType
  <1>1. ASSUME UNCHANGED relay
        PROVE  \A s \in Relays : RelayInv(s)'
    BY <1>0, <1>1 DEF RelayInv
  <1>2. ASSUME NEW w \in Workers, Start(w)
        PROVE  RestType' /\ \A s \in Relays : RelayInv(s)'
    <2>1. jobs' \in Seq(Events) /\ Len(jobs') = Len(jobs) - 1
      BY <1>0, <1>2, HeadTailProperties DEF Start, RestType
    <2>2. Len(jobs') <= MaxJobs
      BY <1>0, <2>1, LenProperties, LimitsAssumption DEF RestType
    <2> QED
      BY <1>0, <1>1, <1>2, <2>1, <2>2 DEF Start, RestType
  <1>3. ASSUME NEW w \in Workers, Work(w)
        PROVE  RestType' /\ \A s \in Relays : RelayInv(s)'
    <2>1. UNCHANGED <<kind, jobs, relay, facts, replay, faults>>
      BY <1>3 DEF Work, Build, BuildExport, BuildCommand, Dispatch, Record, SetTimer, SendMail, Publish, Falter,
                  RecordFailure
    <2> QED
      BY <1>0, <1>1, <2>1 DEF RestType
  <1>4. ASSUME NEW w \in Workers, CrashWorker(w)
        PROVE  RestType' /\ \A s \in Relays : RelayInv(s)'
    <2>1. task[w].event \in Events
      BY <1>4, TaskFields DEF CrashWorker, At
    <2>2. jobs' \in Seq(Events) /\ Len(jobs') <= MaxJobs
      BY <1>0, <1>4, <2>1, PutJobType DEF CrashWorker, RestType
    <2> QED
      BY <1>0, <1>1, <1>4, <2>2, OneFault DEF CrashWorker, RestType
  <1>5. CASE LoseJobs
    BY <1>0, <1>1, <1>5, OneFault, EmptySeq, LimitsAssumption DEF LoseJobs, RestType
  <1>6. CASE FactsMove
    BY <1>0, <1>1, <1>6, LimitsAssumption DEF FactsMove, RestType, deliveryVars
  <1>7. ASSUME NEW e \in Events, RetryOutboxEvent(e)
        PROVE  RestType' /\ \A s \in Relays : RelayInv(s)'
    BY <1>0, <1>1, <1>7 DEF RetryOutboxEvent, RestType
  <1>8. CASE UNCHANGED <<kind, jobs, relay, facts, replay, faults>>
    BY <1>0, <1>1, <1>8 DEF RestType
  <1> QED
    BY <1>2, <1>3, <1>4, <1>5, <1>6, <1>7, <1>8, RelayRest
    DEF Next, BecomeDue, ExpireLeases, vars, deliveryVars

-------------------------------------------------------------------------------
(* The invariant.                                                          *)

\* It holds at first.
LEMMA InitInv == Init => IInv
  <1> SUFFICES ASSUME Init PROVE IInv
    OBVIOUS
  <1>1. TypeOK
    <2>1. ASSUME NEW e \in Events
          PROVE  row[e] \in Row
      <3>1. \E due \in BOOLEAN : row[e] = [status |-> "PENDING", attempts |-> 0,
                                          due |-> due, owner |-> NoEvent]
        BY DEF Init
      <3>2. "PENDING" \in OutboxStatus /\ 0 \in 0..MaxAttempts
        BY Statuses, LimitsAssumption
      <3> QED
        BY <3>1, <3>2 DEF Row
    <2>2. row \in [Events -> Row]
      BY <2>1 DEF Init
    <2>3. jobs \in Seq(Events) /\ Len(jobs) <= MaxJobs
      BY EmptySeq, LimitsAssumption DEF Init
    <2>4. task \in [Workers -> Task]
      BY IdleType DEF Init
    <2>5. 0 \in Commands /\ facts \in 0..MaxChanges /\ faults \in 0..MaxFaults
      BY LimitsAssumption DEF Init, Commands
    <2>6. /\ taken \in [Events -> SUBSET Consumers]
          /\ accepted \in [Events -> Commands] /\ journal \in [Events -> Commands]
          /\ replay \in [Events -> {"none", "queued", "failed"}]
      BY <2>5 DEF Init
    <2>7. exported \in BOOLEAN
      BY DEF Init
    <2>8. /\ kind \in [Events -> Written]
          /\ relay \in [Relays -> [event : Events \cup {NoEvent}, failed : BOOLEAN]]
      BY DEF Init
    <2> QED
      BY <2>2, <2>3, <2>4, <2>5, <2>6, <2>7, <2>8 DEF TypeOK
  <1>2. AttemptsAreLimited
    <2>1. \A e \in Events : row[e].attempts = 0
      BY DEF Init
    <2>2. 0 <= MaxAttempts /\ 0 < MaxAttempts
      BY LimitsAssumption
    <2> QED
      BY <2>1, <2>2, Zenon DEF AttemptsAreLimited
  <1>3. \A w \in Workers : TaskInv(w)
    BY IdleType DEF Init, TaskInv
  <1>4. \A e \in Events : EffectInv(e)
    BY DEF Init, EffectInv
  <1>5. \A r \in Relays : RelayInv(r)
    BY DEF Init, RelayInv
  <1> QED
    BY <1>1, <1>2, <1>3, <1>4, <1>5 DEF IInv

\* Every step keeps it.
LEMMA NextInv ==
    ASSUME IInv, [Next]_vars
    PROVE  IInv'
  <1>1. RowsMove
    BY NextRows
  <1>2. TypeOK'
    BY <1>1, NextEffects, NextTasks, NextRest
    DEF RowsMove, EffectsType, TasksKeep, RestType, TypeOK
  <1>3. AttemptsAreLimited'
    <2>1. ASSUME NEW e \in Events
          PROVE  /\ row'[e].attempts <= MaxAttempts
                 /\ row'[e].status \notin Terminal => row'[e].attempts < MaxAttempts
      BY <1>1 DEF RowsMove, Moves, IInv, AttemptsAreLimited
    <2> QED
      BY <2>1 DEF AttemptsAreLimited
  <1> QED
    BY <1>2, <1>3, NextEffects, NextTasks, NextRest DEF TasksKeep, IInv

-------------------------------------------------------------------------------
(* Theorems.                                                               *)

\* The invariant holds in every state, whatever is lost and however many
\* deliveries of an event run at once.
THEOREM InductiveInvariant == Spec => []IInv
  <1>1. IInv /\ [Next]_vars => IInv'
    BY NextInv
  <1> QED
    BY <1>1, InitInv, PTL DEF Spec

\* Rows, jobs, leases and deliveries keep their types; in particular the
\* attempts of a row stay within the maximum.
THEOREM OutboxTypeCorrect == Spec => []TypeOK
  <1>1. IInv => TypeOK
    BY DEF IInv
  <1> QED
    BY <1>1, InductiveInvariant, PTL

\* A row that can be delivered again has attempts left.
THEOREM AttemptsSafe == Spec => []AttemptsAreLimited
  <1>1. IInv => AttemptsAreLimited
    BY DEF IInv
  <1> QED
    BY <1>1, InductiveInvariant, PTL

\* The journal holds what 1C stored under the key.
THEOREM JournalSafe == Spec => []JournalIsTrue
  <1>1. IInv => JournalIsTrue
    BY DEF IInv, EffectInv, JournalIsTrue
  <1> QED
    BY <1>1, InductiveInvariant, PTL

\* No step moves a settled row or sets attempts back.
THEOREM SettledIsFinal == Spec => SettledStays
  <1>1. ASSUME IInv, [Next]_vars
        PROVE  [\A e \in Events : /\ row[e].status \in Terminal => row'[e] = row[e]
                                  /\ row'[e].attempts >= row[e].attempts]_vars
    <2>1. ASSUME NEW e \in Events
          PROVE  /\ row[e].status \in Terminal => row'[e] = row[e]
                 /\ row'[e].attempts >= row[e].attempts
      BY <1>1, NextRows, RowFields DEF RowsMove, Moves, IInv
    <2> QED
      BY <2>1
  <1> QED
    BY <1>1, InductiveInvariant, PTL DEF Spec, SettledStays

-------------------------------------------------------------------------------
(* The outbox implements the abstract delivery.                            *)

\* No terminal status maps to open, and all others do.
LEMMA OutcomeOpen ==
    ASSUME NEW status
    PROVE  /\ OutcomeOf(status) = "open" <=> status \notin Terminal
           /\ OutcomeOf("PUBLISHED") = "delivered"
           /\ OutcomeOf("DLQ") = "dead"
  BY DEF OutcomeOf, Terminal

\* Rows that stay open have the same outcome.
LEMMA SameOutcome ==
    ASSUME \A e \in Events : \/ row'[e].status = row[e].status
                            \/ /\ row[e].status \notin Terminal
                               /\ row'[e].status \notin Terminal
    PROVE  Outcome' = Outcome
  <1>1. \A e \in Events : OutcomeOf(row'[e].status) = OutcomeOf(row[e].status)
    BY OutcomeOpen
  <1> QED
    BY <1>1 DEF Outcome

\* An update with an open row changes no outcome, one with a settled row
\* changes none or settles an open event.
LEMMA UpdateOutcome ==
    ASSUME TypeOK, NEW e \in Events, NEW new \in Row, Update(e, new)
    PROVE  \/ Outcome' = Outcome
           \/ /\ new.status \in Terminal
              /\ Outcome[e] = "open"
              /\ Outcome' = [Outcome EXCEPT ![e] = OutcomeOf(new.status)]
  <1>1. CASE Raises(row[e], new)
    BY <1>1, SameOutcome DEF Update
  <1>2. CASE ~Raises(row[e], new)
    <2>1. row[e].status \notin Terminal
      BY <1>2 DEF Raises
    <2>2. \A f \in Events : row'[f] = IF f = e THEN new ELSE row[f]
      BY <1>2 DEF Update, TypeOK
    <2>3. CASE new.status \notin Terminal
      BY <2>1, <2>2, <2>3, SameOutcome
    <2>4. CASE new.status \in Terminal
      <3>1. Outcome[e] = "open"
        BY <2>1, OutcomeOpen DEF Outcome
      <3>2. Outcome' = [f \in Events |-> OutcomeOf(row'[f].status)]
        BY DEF Outcome
      <3>3. Outcome' = [Outcome EXCEPT ![e] = OutcomeOf(new.status)]
        BY <2>2, <3>2 DEF Outcome
      <3> QED
        BY <2>4, <3>1, <3>3
    <2> QED
      BY <2>3, <2>4
  <1> QED
    BY <1>1, <1>2

\* A consumer whose predecessors are done takes the event, now or again.
LEMMA TakesDelivers ==
    ASSUME TypeOK, NEW e \in Events, NEW c \in Chain[e],
           Before[c] \cap Chain[e] \subseteq taken[e],
           taken' = [taken EXCEPT ![e] = @ \cup {c}],
           Chain' = Chain, Outcome' = Outcome
    PROVE  [Delivery!Next]_(Delivery!deliveryVars)
  <1>1. CASE c \in taken[e]
    <2>1. taken' = taken
      BY <1>1 DEF TypeOK
    <2> QED
      BY <2>1 DEF Delivery!deliveryVars
  <1>2. CASE c \notin taken[e]
    <2>1. Delivery!Take(e, c)
      BY <1>2 DEF Delivery!Take
    <2> QED
      BY <2>1 DEF Delivery!Next
  <1> QED
    BY <1>1, <1>2

\* A result that is recorded delivers the event, buries it or stutters.
LEMMA UpdateDelivers ==
    ASSUME TypeOK, NEW e \in Events, NEW new \in Row, Update(e, new),
           new.status = "PUBLISHED" => taken[e] = Chain[e],
           Chain' = Chain, taken' = taken
    PROVE  [Delivery!Next]_(Delivery!deliveryVars)
  <1>1. CASE Outcome' = Outcome
    BY <1>1 DEF Delivery!deliveryVars
  <1>2. CASE /\ new.status \in Terminal
             /\ Outcome[e] = "open"
             /\ Outcome' = [Outcome EXCEPT ![e] = OutcomeOf(new.status)]
    <2>1. CASE new.status = "PUBLISHED"
      <3>1. Outcome' = [Outcome EXCEPT ![e] = "delivered"]
        BY <1>2, <2>1, OutcomeOpen
      <3> QED
        BY <1>2, <2>1, <3>1 DEF Delivery!Deliver, Delivery!Settle, Delivery!Next
    <2>2. CASE new.status = "DLQ"
      <3>1. Outcome' = [Outcome EXCEPT ![e] = "dead"]
        BY <1>2, <2>2, OutcomeOpen
      <3> QED
        BY <1>2, <2>2, <3>1 DEF Delivery!Bury, Delivery!Settle, Delivery!Next
    <2> QED
      BY <1>2, <2>1, <2>2 DEF Terminal
  <1> QED
    BY <1>1, <1>2, UpdateOutcome

\* Every step of a delivery is one of the abstract delivery, or a stutter.
LEMMA WorkDelivers ==
    ASSUME IInv, NEW w \in Workers, Work(w), Chain' = Chain
    PROVE  [Delivery!Next]_(Delivery!deliveryVars)
  <1> DEFINE e == task[w].event
  <1>1. task[w].step # "idle"
    BY DEF Work, Build, BuildExport, BuildCommand, Dispatch, Record, SetTimer, SendMail, Publish, Falter,
           RecordFailure, At, Steps
  <1>2. /\ TypeOK /\ e \in Events /\ Reached(e, task[w].step, taken[e])
        /\ taken[e] \subseteq Chain[e]
        /\ task[w].seen \in Nat /\ task[w].seen < MaxAttempts
    BY <1>1, TaskFields DEF IInv, EffectInv
  <1>3. UNCHANGED row => Outcome' = Outcome
    BY SameOutcome
  <1>4. ASSUME UNCHANGED <<row, taken>>
        PROVE  [Delivery!Next]_(Delivery!deliveryVars)
    BY <1>3, <1>4 DEF Delivery!deliveryVars
  <1>5. CASE Record(w)
    <2>1. CASE Agrees(journal[e], task[w].command)
      <3>1. "oneC" \in Chain[e] /\ Before["oneC"] \cap Chain[e] \subseteq taken[e]
        BY <1>2, <1>5 DEF Record, At, Reached, Before, Consumers
      <3>2. taken' = [taken EXCEPT ![e] = @ \cup {"oneC"}] /\ UNCHANGED row
        BY <1>5, <2>1 DEF Record
      <3> QED
        BY <1>2, <1>3, <3>1, <3>2, TakesDelivers
    <2>2. CASE ~Agrees(journal[e], task[w].command)
      BY <1>4, <1>5, <2>2 DEF Record
    <2> QED
      BY <2>1, <2>2
  <1>6. CASE SetTimer(w)
    <2>1. "timer" \in Chain[e] /\ Before["timer"] \cap Chain[e] \subseteq taken[e]
      BY <1>2, <1>6 DEF SetTimer, At, Reached, Before, Consumers
    <2>2. taken' = [taken EXCEPT ![e] = @ \cup {"timer"}] /\ UNCHANGED row
      BY <1>6 DEF SetTimer, Takes
    <2> QED
      BY <1>2, <1>3, <2>1, <2>2, TakesDelivers
  <1>7. CASE SendMail(w)
    <2>1. "mail" \in Chain[e] /\ Before["mail"] \cap Chain[e] \subseteq taken[e]
      BY <1>2, <1>7 DEF SendMail, At, Reached, Before, Consumers
    <2>2. taken' = [taken EXCEPT ![e] = @ \cup {"mail"}] /\ UNCHANGED row
      BY <1>7 DEF SendMail, Takes
    <2> QED
      BY <1>2, <1>3, <2>1, <2>2, TakesDelivers
  <1>8. CASE Publish(w)
    <2>1. UNCHANGED taken /\ Chain[e] \subseteq taken[e]
      BY <1>2, <1>8 DEF Publish, At, Reached, effectVars
    <2>2. CASE row[e].status \in Terminal
      BY <1>4, <1>8, <2>1, <2>2 DEF Publish
    <2>3. CASE row[e].status \notin Terminal
      <3> DEFINE published == [Released(row[e], "PUBLISHED") EXCEPT !.attempts = @ + 1]
      <3>1. Update(e, published)
        BY <1>8, <2>3 DEF Publish
      <3>2. published \in Row
        <4>1. Released(row[e], "PUBLISHED") \in Row
          BY <1>2, ReleasedType, Statuses
        <4>2. Released(row[e], "PUBLISHED").attempts + 1 \in 0..MaxAttempts
          <5>1. Released(row[e], "PUBLISHED").attempts = row[e].attempts
            BY <1>2, ReleasedType, Statuses
          <5>2. row[e].attempts \in Nat /\ row[e].attempts < MaxAttempts
            BY <1>2, <2>3, RowFields DEF IInv, AttemptsAreLimited
          <5> QED
            BY <5>1, <5>2, LimitsAssumption
        <4> QED
          BY <4>1, <4>2 DEF Row
      <3>3. taken[e] = Chain[e]
        BY <1>2, <2>1
      <3> QED
        BY <1>2, <2>1, <3>1, <3>2, <3>3, UpdateDelivers
    <2> QED
      BY <2>2, <2>3
  <1>9. CASE RecordFailure(w)
    <2> DEFINE nextAttempt == task[w].seen + 1
               retried(due) == [[Released(row[e], "RETRY_SCHEDULED")
                                 EXCEPT !.attempts = nextAttempt] EXCEPT !.due = due]
               dead == [Released(row[e], "DLQ") EXCEPT !.attempts = nextAttempt]
    <2>0. nextAttempt \in 0..MaxAttempts
      BY <1>2, LimitsAssumption
    <2>1. UNCHANGED taken
      BY <1>9 DEF RecordFailure, effectVars
    <2>2. \/ UNCHANGED row
          \/ \E due \in BOOLEAN : Update(e, retried(due))
          \/ Update(e, dead)
      BY <1>9 DEF RecordFailure
    <2>3. ASSUME NEW status \in {"RETRY_SCHEDULED", "DLQ"}
          PROVE  LET new == [Released(row[e], status) EXCEPT !.attempts = nextAttempt]
                 IN  new \in Row /\ new.status = status
      <3>1. Released(row[e], status) \in Row /\ Released(row[e], status).status = status
        BY <1>2, ReleasedType, Statuses
      <3> QED
        BY <2>0, <3>1 DEF Row
    <2>4. ASSUME NEW due \in BOOLEAN
          PROVE  retried(due) \in Row /\ retried(due).status = "RETRY_SCHEDULED"
      BY <2>3, DueType
    <2>5. dead \in Row /\ dead.status = "DLQ"
      BY <2>3
    <2> HIDE DEF retried, dead
    <2> QED
      BY <1>2, <1>4, <2>1, <2>2, <2>4, <2>5, UpdateDelivers
  <1>10. CASE Build(w) \/ Dispatch(w) \/ Falter(w)
    BY <1>4, <1>10 DEF Build, BuildExport, BuildCommand, Dispatch, Falter, effectVars
  <1> QED
    BY <1>5, <1>6, <1>7, <1>8, <1>9, <1>10 DEF Work

\* So is every step of the system: relays, crashes and lost jobs do not show,
\* and neither does a replay.
LEMMA NextDelivers ==
    ASSUME IInv, [Next]_vars
    PROVE  [Delivery!Next]_(Delivery!deliveryVars)
  <1>1. TypeOK /\ Chain' = Chain
    BY NextEffects, SameChain DEF IInv, EffectsGrow
  <1>2. ASSUME NEW e \in Events, RetryOutboxEvent(e)
        PROVE  UNCHANGED <<row, taken>>
    BY <1>2 DEF RetryOutboxEvent, Update, Raises, Terminal, effectVars
  <1>3. ASSUME NEW e \in Events, BecomeDue(e)
        PROVE  Outcome' = Outcome /\ UNCHANGED taken
    <2>1. \A f \in Events : row'[f].status = row[f].status
      BY <1>1, <1>3 DEF BecomeDue, TypeOK, Row
    <2> QED
      BY <1>3, <2>1, SameOutcome DEF BecomeDue, effectVars
  <1>4. ASSUME NEW r \in Relays, NEW stale \in SUBSET Events, ExpireLeases(r, stale)
        PROVE  Outcome' = Outcome /\ UNCHANGED taken
    <2>1. ASSUME NEW f \in Events
          PROVE  \/ row'[f].status = row[f].status
                 \/ /\ row[f].status \notin Terminal
                    /\ row'[f].status \notin Terminal
      <3>1. CASE f \in stale
        <4>1. row'[f] = [Released(row[f], "RETRY_SCHEDULED") EXCEPT !.due = TRUE]
          BY <1>4, <3>1 DEF ExpireLeases
        <4>2. row'[f].status = "RETRY_SCHEDULED" /\ row[f].status = "PROCESSING"
          BY <1>1, <1>4, <3>1, <4>1, RetriedType DEF ExpireLeases
        <4> QED
          BY <4>2 DEF Terminal
      <3>2. CASE f \notin stale
        BY <1>4, <3>2 DEF ExpireLeases
      <3> QED
        BY <3>1, <3>2
    <2> QED
      BY <1>4, <2>1, SameOutcome DEF ExpireLeases, effectVars
  <1>5. ASSUME NEW r \in Relays, NEW e \in Events, Claim(r, e)
        PROVE  Outcome' = Outcome /\ UNCHANGED taken
    <2>1. row[e].status \notin Terminal
      BY <1>5 DEF Claim, Open, Terminal
    <2>2. \A f \in Events : row'[f].status = IF f = e THEN "PROCESSING" ELSE row[f].status
      BY <1>1, <1>5, RowFields DEF Claim, TypeOK, Row
    <2>3. Outcome' = Outcome
      BY <2>1, <2>2, SameOutcome DEF Terminal
    <2>4. UNCHANGED taken
      BY <1>5 DEF Claim, effectVars
    <2> QED
      BY <2>3, <2>4
  <1>6. ASSUME NEW r \in Relays, GiveBack(r)
        PROVE  [Delivery!Next]_(Delivery!deliveryVars)
    <2> DEFINE e == relay[r].event
               new == [Released(row[e], "RETRY_SCHEDULED") EXCEPT !.due = TRUE]
    <2>1. e \in Events /\ UNCHANGED taken
      BY <1>6 DEF GiveBack, IInv, RelayInv, effectVars
    <2>2. new \in Row /\ new.status = "RETRY_SCHEDULED"
      BY <1>1, <2>1, RetriedType
    <2>3. UNCHANGED row \/ Update(e, new)
      BY <1>6 DEF GiveBack
    <2>4. UNCHANGED row => Outcome' = Outcome
      BY SameOutcome
    <2> HIDE DEF new
    <2> QED
      BY <1>1, <2>1, <2>2, <2>3, <2>4, UpdateDelivers DEF Delivery!deliveryVars
  <1>7. CASE UNCHANGED <<row, taken>>
    BY <1>1, <1>7, SameOutcome DEF Delivery!deliveryVars
  <1>8. CASE Outcome' = Outcome /\ UNCHANGED taken
    BY <1>1, <1>8 DEF Delivery!deliveryVars
  <1> QED
    BY <1>1, <1>2, <1>3, <1>4, <1>5, <1>6, <1>7, <1>8, WorkDelivers
    DEF Next, Enqueue, EnqueueFails, CrashRelay, Start, CrashWorker, LoseJobs,
        FactsMove, vars, deliveryVars, effectVars

\* An event is published only when all its consumers took it, in their order,
\* and nothing settled is opened again: the outbox implements the abstract
\* delivery, for every number of deliveries at once.
THEOREM OutboxImplementsDelivery == Spec => ImplementsDelivery
  <1>1. Init => Delivery!Init
    <2> SUFFICES ASSUME Init PROVE Delivery!Init
      OBVIOUS
    <2>1. Chain \in [Events -> SUBSET Consumers]
      BY DEF Chain
    <2>2. Outcome = [e \in Events |-> "open"]
      <3>1. \A e \in Events : row[e].status = "PENDING"
        BY DEF Init
      <3>2. OutcomeOf("PENDING") = "open"
        BY OutcomeOpen DEF Terminal
      <3> QED
        BY <3>1, <3>2 DEF Outcome
    <2> QED
      BY <2>1, <2>2 DEF Init, Delivery!Init
  <1>2. IInv /\ [Next]_vars => [Delivery!Next]_(Delivery!deliveryVars)
    BY NextDelivers
  <1> QED
    BY <1>1, <1>2, InductiveInvariant, PTL DEF Spec, ImplementsDelivery, Delivery!Spec
===============================================================================
