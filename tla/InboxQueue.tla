----------------------------- MODULE InboxQueue -----------------------------
(***************************************************************************)
(* The inbound queue of the Worker: the Durable Object InboxQueue          *)
(* (worker/src/inbox-do.ts), its SQLite table `inbox`, its single alarm,   *)
(* the R2 bucket its rows point into, and the email() handler that feeds   *)
(* it (worker/src/handlers/email.ts).  Odoo is the environment: it         *)
(* answers a POST with any status of Answers, or not at all.               *)
(*                                                                         *)
(* One step is what runs between two awaits that let other events in.  An  *)
(* await of the object's own storage (getAlarm, setAlarm) closes its       *)
(* input gate, so enqueue() and retry() are one step each; an await of R2  *)
(* or of fetch() opens it, so alarm() and remove() are several.            *)
(*                                                                         *)
(* A time is the time remaining, `stored timestamp - Date.now()`; it is    *)
(* due when it is not positive.  Tick lets a unit of time pass.            *)
(***************************************************************************)
EXTENDS DeliveryPolicy, FiniteSets

CONSTANTS
    Ids,            \* the ULIDs email() mints, one per invocation
    Null,           \* SQL NULL, and a cleared alarm
    MaxAttempts,    \* config.maxAttempts
    Backoff,        \* config.backoffSeconds
    Retention,      \* config.retentionMs
    DeliveryDelay,  \* config.deliveryDelayMs
    AlarmRetry,     \* ALARM_RETRY_MS
    AlarmBatch,     \* ALARM_BATCH
    PurgeBatch,     \* PURGE_BATCH
    Answers,        \* the statuses Odoo, or what stands before it, may answer
    Faults,         \* the kinds of failure that may happen in a run
    MaxFaults,      \* bound: how many failures happen in a behaviour
    MaxLate         \* bound: lateness beyond this is not told apart

FaultKinds == {"r2", "arm", "rearm", "rpc", "crash", "config", "hand"}

ASSUME NullAssumption == Null \notin Int /\ Null \notin Ids
ASSUME PolicyAssumption == MaxAttempts \in Nat \ {0} /\ Schedule(Backoff)
ASSUME DelayAssumption ==
    Retention \in Nat /\ DeliveryDelay \in Nat /\ AlarmRetry \in Nat \ {0}
ASSUME BatchAssumption == AlarmBatch \in Nat \ {0} /\ PurgeBatch \in Nat \ {0}
ASSUME AnswersAssumption == Answers \subseteq 100..599
ASSUME BoundAssumption ==
    Faults \subseteq FaultKinds /\ MaxFaults \in Nat /\ MaxLate \in Nat

VARIABLES
    call,       \* how far the email() invocation that minted the id has come
    objects,    \* R2: the ids whose object is in the bucket
    inbox,      \* SQLite: the row of each id
    alarm,      \* the object's alarm; Null while its handler runs
    pc,         \* where alarm() is
    seen,       \* the rows processDue selected and has not dealt with yet
    cur,        \* the row being attempted
    verdict,    \* what the answer to the attempt means
    expired,    \* the rows purgeExpired selected
    healthy,    \* alarm()'s local of that name
    threw,      \* auxiliary: an attempt of this pass threw
    lapsed,     \* auxiliary: a setAlarm failed, and none of rearm()'s came since
    removing,   \* how far remove(id) has come
    configOk,   \* whether loadConfig() returns or throws ConfigError
    faults,     \* bound: failures so far
    taken,      \* history: the messages Odoo has committed
    waived      \* history: the messages an operator chose to drop

passVars == <<pc, seen, cur, verdict, expired, healthy, threw>>
alarmVars == <<alarm, lapsed>>
history == <<taken, waived>>
vars == <<call, objects, inbox, alarmVars, passVars, removing, configOk, faults,
          history>>

-----------------------------------------------------------------------------
(* Rows and times. *)

Status == {"pending", "delivered", "rejected", "dead"}
Time == Int \cup {Null}

\* The columns the protocol reads.  `missing` stands for last_error being
\* "stored message missing from R2"; an absent row has the status "absent".
Row == [status   : Status \cup {"absent"},
        attempts : Nat,
        next     : Time,        \* next_attempt_at
        purge    : Time,        \* purge_at
        missing  : BOOLEAN]

Absent == [status |-> "absent", attempts |-> 0, next |-> Null, purge |-> Null,
           missing |-> FALSE]

Due(t) == t # Null /\ t <= 0

\* t is not after u, both being times of something still to do.
NoLater(t, u) == t # Null /\ u # Null /\ t <= u

Elapse(t) == IF t = Null \/ t <= -MaxLate THEN t ELSE t - 1

Pending(id) == inbox[id].status = "pending"
Present(id) == inbox[id].status # "absent"

\* The failure of kind f happens in this step.
Fault(f) == f \in Faults /\ faults < MaxFaults /\ faults' = faults + 1
NoFault == UNCHANGED faults

-----------------------------------------------------------------------------
(* The alarm. *)

armIfNone(t) == IF alarm = Null THEN t ELSE alarm
    \* variant: never brings the alarm forward

armNoLaterThan(t) == IF alarm = Null \/ t < alarm THEN t ELSE alarm

\* armNoLaterThan(t) at the end of a handler; it may fail after the row it
\* is for was written.
Arm(t) == \/ NoFault /\ alarm' = armNoLaterThan(t) /\ UNCHANGED lapsed
          \/ Fault("arm") /\ UNCHANGED alarm /\ lapsed' = TRUE

AgendaPurges == {inbox[id].purge : id \in {i \in Ids : inbox[i].purge # Null}}
    \* variant: rearm() forgets the retries

AgendaPending == {inbox[id].next : id \in {i \in Ids : Pending(i)}}
    \* variant: rearm() forgets the purges

\* The times rearm() takes the minimum of.
Agenda == {inbox[id].next : id \in {i \in Ids : Pending(i)}}
              \cup {inbox[id].purge : id \in {i \in Ids : inbox[i].purge # Null}}

-----------------------------------------------------------------------------
(* email(): the object first, and only then its row. *)

Put(id) ==
    /\ call[id] = "none"
    /\ \/ /\ call' = [call EXCEPT ![id] = "stored"]
          /\ objects' = objects \cup {id}
          /\ NoFault
       \/ \* put() throws; the object may be in the bucket all the same
          /\ Fault("r2")
          /\ call' = [call EXCEPT ![id] = "failed"]
          /\ objects' \in {objects, objects \cup {id}}
    /\ UNCHANGED <<inbox, alarmVars, passVars, removing, configOk, history>>

\* deliveryDelayMs(): a broken config falls back to "now".
FirstAttempt == IF configOk THEN DeliveryDelay ELSE 0

Queued == [Absent EXCEPT !.status = "pending", !.next = FirstAttempt]

\* INSERT OR IGNORE; only a new row arms the alarm.
Insert(id) == inbox' = [inbox EXCEPT ![id] = IF Present(id) THEN @ ELSE Queued]
ArmedFor(id) == IF Present(id) THEN alarm ELSE armNoLaterThan(FirstAttempt)

\* enqueue(), and its reply reaching email().
Enqueue(id) ==
    /\ call[id] = "stored"
    /\ Insert(id)
    /\ \/ /\ NoFault
          /\ alarm' = ArmedFor(id) /\ UNCHANGED lapsed
          /\ call' = [call EXCEPT ![id] = "done"]
       \/ /\ ~Present(id) /\ Fault("arm")
          /\ UNCHANGED alarm /\ lapsed' = TRUE
          /\ call' = [call EXCEPT ![id] = "failed"]
    /\ UNCHANGED <<objects, passVars, removing, configOk, history>>

\* The call to the object fails on its way there or on its way back: email()
\* throws either way.
EnqueueLost(id) ==
    /\ call[id] = "stored"
    /\ Fault("rpc")
    /\ call' = [call EXCEPT ![id] = "failed"]
    /\ \/ UNCHANGED <<inbox, alarm>>
       \/ Insert(id) /\ alarm' = ArmedFor(id)
    /\ UNCHANGED lapsed
    /\ UNCHANGED <<objects, passVars, removing, configOk, history>>

-----------------------------------------------------------------------------
(* alarm(): processDue, purgeExpired and rearm, each isolated. *)

\* sel is what ORDER BY t LIMIT n selects from S (ties in any order).
SelectOldest(sel, S, t, n) ==
    /\ sel \subseteq S
    /\ Cardinality(sel) = IF Cardinality(S) < n THEN Cardinality(S) ELSE n
    /\ \A i \in sel, j \in S \ sel : NoLater(t[i], t[j])

\* The runtime starts the handler, which clears the alarm; processDue selects
\* the due rows, and loads the config only when there are any.
PassStart ==
    /\ pc = "idle" /\ Due(alarm)
    /\ alarm' = Null
    /\ LET due == {id \in Ids : Pending(id) /\ Due(inbox[id].next)}
           nexts == [id \in Ids |-> inbox[id].next]
       IN  \/ /\ due # {} /\ configOk
              /\ \E sel \in SUBSET due :
                    /\ SelectOldest(sel, due, nexts, AlarmBatch)
                    /\ seen' = [id \in Ids |-> IF id \in sel THEN inbox[id] ELSE Null]
              /\ pc' = "deliver"
              /\ UNCHANGED healthy
           \/ /\ due # {} => ~configOk
              /\ pc' = "purge"
              /\ healthy' = (due = {})
              /\ UNCHANGED seen
    /\ UNCHANGED <<call, objects, inbox, lapsed, cur, verdict, expired, threw,
                   removing, configOk, faults, history>>

\* processDue's loop has come to id: the oldest of the rows still to attempt.
Turn(id) ==
    /\ pc = "deliver" /\ seen[id] # Null
    /\ \A other \in Ids : seen[other] # Null =>
                              NoLater(seen[id].next, seen[other].next)

\* On to the next row of the batch, or to the purge.
NextRow(id) ==
    /\ seen' = [seen EXCEPT ![id] = Null]
    /\ cur' = Null /\ verdict' = "none"
    /\ pc' = IF \E other \in Ids \ {id} : seen[other] # Null
             THEN "deliver" ELSE "purge"

\* variant: a row is given up one attempt late
SettledLate(attempt, v, gone) ==
    LET outcome == IF v = "retry" /\ attempt > MaxAttempts THEN "dead" ELSE v
    IN  [status   |-> IF outcome = "retry" THEN "pending" ELSE outcome,
         attempts |-> attempt,
         next     |-> IF outcome = "retry" THEN backoffMs(Backoff, attempt) ELSE Null,
         purge    |-> IF outcome = "delivered" THEN Retention ELSE Null,
         missing  |-> gone]

\* variant: the outcome is written as the status, `retry` included
SettledRaw(attempt, v, gone) ==
    [status |-> v, attempts |-> attempt, next |-> Null, purge |-> Null,
     missing |-> gone]

\* The row settle() writes for an attempt whose verdict is v.
Settled(attempt, v, gone) ==
    LET outcome == IF v = "retry" /\ attempt >= MaxAttempts THEN "dead" ELSE v
    IN  [status   |-> IF outcome = "retry" THEN "pending" ELSE outcome,
         attempts |-> attempt,
         next     |-> IF outcome = "retry" THEN backoffMs(Backoff, attempt) ELSE Null,
         purge    |-> IF outcome = "delivered" THEN Retention ELSE Null,
         missing  |-> gone]

settleUpsert(id, v, gone) ==    \* variant: an INSERT OR REPLACE instead of the UPDATE
    inbox' = [inbox EXCEPT ![id] = Settled(seen[id].attempts + 1, v, gone)]

\* settle(): one UPDATE, guarded by the row still being pending.
settle(id, v, gone) ==
    inbox' = [inbox EXCEPT ![id] =
                 IF Pending(id) THEN Settled(seen[id].attempts + 1, v, gone) ELSE @]

GetObject(id) ==
    /\ Turn(id) /\ id \in objects
    /\ cur' = id /\ pc' = "posting"
    /\ UNCHANGED <<call, objects, inbox, alarmVars, seen, verdict, expired, healthy,
                   threw, removing, configOk, faults, history>>

ObjectMissing(id) ==
    /\ Turn(id) /\ id \notin objects
    /\ settle(id, "dead", TRUE)
    /\ NextRow(id)
    /\ UNCHANGED <<call, objects, alarmVars, expired, healthy, threw, removing,
                   configOk, faults, history>>

\* deliver() throws; processDue logs it and goes on, leaving the row as it is.
GetObjectFails(id) ==
    /\ Turn(id)
    /\ Fault("r2")
    /\ NextRow(id)
    /\ threw' = TRUE
    /\ UNCHANGED <<call, objects, inbox, alarmVars, expired, healthy, removing,
                   configOk, history>>

\* Whether Odoo has committed a message it answered with this status: with a
\* 2xx, yes; with a 3xx or a 4xx of its own, no; with anything that may come
\* from a proxy or from a request cut short, perhaps.
TakenAfter(status) ==
    LET committed == taken \cup {cur}
    IN  IF status \in 200..299 THEN {committed}
        ELSE IF status \in {NoStatus, 408, 429} \cup 500..599 THEN {taken, committed}
        ELSE {taken}

\* The POST ends, with a response or without one.
OdooAnswers(status) ==
    /\ pc = "posting"
    /\ verdict' = VerdictOf(status)
    /\ pc' = "answered"
    /\ taken' \in TakenAfter(status)
    /\ UNCHANGED <<call, objects, inbox, alarmVars, seen, cur, expired, healthy, threw,
                   removing, configOk, faults, waived>>

SettleAttempt ==
    /\ pc = "answered"
    /\ settle(cur, verdict, FALSE)
    /\ NextRow(cur)
    /\ UNCHANGED <<call, objects, alarmVars, expired, healthy, threw, removing,
                   configOk, faults, history>>

PurgeSelect ==
    /\ pc = "purge"
    /\ LET old == {id \in Ids : Due(inbox[id].purge)}
           purges == [id \in Ids |-> inbox[id].purge]
       IN  \/ /\ old # {}
              /\ \E sel \in SUBSET old : /\ SelectOldest(sel, old, purges, PurgeBatch)
                                         /\ expired' = sel
              /\ pc' = "purging"
           \/ old = {} /\ pc' = "rearm" /\ UNCHANGED expired
    /\ UNCHANGED <<call, objects, inbox, alarmVars, seen, cur, verdict, healthy, threw,
                   removing, configOk, faults, history>>

\* R2's delete of the whole batch, which may fail half way.
PurgeObjects ==
    /\ pc = "purging"
    /\ \/ /\ NoFault
          /\ objects' = objects \ expired
          /\ pc' = "purged"
          /\ UNCHANGED <<expired, healthy>>
       \/ /\ Fault("r2")
          /\ \E gone \in SUBSET expired : objects' = objects \ gone
          /\ pc' = "rearm" /\ expired' = {} /\ healthy' = FALSE
    /\ UNCHANGED <<call, inbox, alarmVars, seen, cur, verdict, threw, removing,
                   configOk, history>>

PurgeRowsUnguarded ==   \* variant: drops a row requeued in the meantime
    /\ pc = "purged"
    /\ inbox' = [id \in Ids |-> IF id \in expired THEN Absent ELSE inbox[id]]
    /\ pc' = "rearm" /\ expired' = {}
    /\ UNCHANGED <<call, objects, alarmVars, seen, cur, verdict, healthy, threw,
                   removing, configOk, faults, history>>

PurgeRows ==
    /\ pc = "purged"
    /\ inbox' = [id \in Ids |-> IF id \in expired /\ inbox[id].purge # Null
                                THEN Absent ELSE inbox[id]]
    /\ pc' = "rearm" /\ expired' = {}
    /\ UNCHANGED <<call, objects, alarmVars, seen, cur, verdict, healthy, threw,
                   removing, configOk, faults, history>>

\* A healthy pass arms for the earliest thing left to do, a failed one for a
\* minute from now.  A failure to set the alarm is only logged.
Rearm ==
    /\ pc = "rearm"
    /\ pc' = "idle" /\ healthy' = TRUE /\ threw' = FALSE
    /\ \/ /\ NoFault /\ lapsed' = FALSE
          /\ \/ healthy /\ Agenda = {} /\ alarm' = Null
             \/ /\ healthy
                /\ \E t \in Agenda : (\A u \in Agenda : NoLater(t, u)) /\ alarm' = t
             \/ ~healthy /\ alarm' = AlarmRetry
       \/ Fault("rearm") /\ UNCHANGED alarm /\ lapsed' = TRUE
    /\ UNCHANGED <<call, objects, inbox, seen, cur, verdict, expired, removing,
                   configOk, history>>

Pass ==
    \/ PassStart \/ SettleAttempt
    \/ PurgeSelect \/ PurgeObjects \/ PurgeRows \/ Rearm
    \/ \E id \in Ids : GetObject(id) \/ ObjectMissing(id) \/ GetObjectFails(id)
    \/ \E status \in Answers \cup {NoStatus} : OdooAnswers(status)

-----------------------------------------------------------------------------
(* The operator API (worker/src/handlers/ops.ts). *)

\* The UPDATE of retry() and retryAll(): a fresh attempt budget, due now.
Requeued(row) ==
    [row EXCEPT !.status = "pending", !.attempts = 0, !.next = 0, !.purge = Null]

Requeue(S) ==
    /\ inbox' = [id \in Ids |-> IF id \in S THEN Requeued(inbox[id]) ELSE inbox[id]]
    /\ Arm(0)

RetryableAny(id) == Present(id)    \* variant: requeues a pending row too

Retryable(id) == Present(id) /\ ~Pending(id)

Retry(id) ==
    /\ Retryable(id)
    /\ Requeue({id})
    /\ UNCHANGED <<call, objects, passVars, removing, configOk, history>>

RetryAll(status) ==
    LET S == {id \in Ids : inbox[id].status = status}
    IN  /\ S # {}
        /\ Requeue(S)
        /\ UNCHANGED <<call, objects, passVars, removing, configOk, history>>

RemoveStartRowFirst(id) ==      \* variant: the row before the object
    /\ Present(id) /\ removing[id] = "no"
    /\ removing' = [removing EXCEPT ![id] = "object"]
    /\ waived' = waived \cup {id}
    /\ inbox' = [inbox EXCEPT ![id] = Absent]
    /\ UNCHANGED <<call, objects, alarmVars, passVars, configOk, faults, taken>>

\* remove(): the SELECT, the object, the row.
RemoveStart(id) ==
    /\ Present(id) /\ removing[id] = "no"
    /\ removing' = [removing EXCEPT ![id] = "object"]
    /\ waived' = waived \cup {id}
    /\ UNCHANGED <<call, objects, inbox, alarmVars, passVars, configOk, faults, taken>>

RemoveObject(id) ==
    /\ removing[id] = "object"
    /\ \/ /\ NoFault
          /\ objects' = objects \ {id}
          /\ removing' = [removing EXCEPT ![id] = "row"]
       \/ /\ Fault("r2")
          /\ objects' \in {objects, objects \ {id}}
          /\ removing' = [removing EXCEPT ![id] = "no"]
    /\ UNCHANGED <<call, inbox, alarmVars, passVars, configOk, history>>

RemoveRow(id) ==
    /\ removing[id] = "row"
    /\ inbox' = [inbox EXCEPT ![id] = Absent]
    /\ removing' = [removing EXCEPT ![id] = "no"]
    /\ UNCHANGED <<call, objects, alarmVars, passVars, configOk, faults, history>>

-----------------------------------------------------------------------------
(* What happens around the object. *)

\* Someone empties the bucket by hand, or a lifecycle rule does.
HandDelete(id) ==
    /\ id \in objects
    /\ Fault("hand")
    /\ objects' = objects \ {id}
    /\ waived' = waived \cup {id}
    /\ UNCHANGED <<call, inbox, alarmVars, passVars, removing, configOk, taken>>

\* The object is evicted: its handlers die where they stand.  An alarm whose
\* handler did not return fires again, unless a new one was set meanwhile.
\* Odoo may or may not have committed a message that was being posted.
Evict ==
    /\ pc' = "idle" /\ seen' = [id \in Ids |-> Null] /\ cur' = Null
    /\ verdict' = "none" /\ expired' = {} /\ healthy' = TRUE /\ threw' = FALSE
    /\ removing' = [id \in Ids |-> "no"]
    /\ alarm' = IF pc # "idle" /\ alarm = Null THEN 0 ELSE alarm
    /\ \/ UNCHANGED taken
       \/ pc = "posting" /\ taken' = taken \cup {cur}
    /\ UNCHANGED <<call, objects, inbox, lapsed, waived>>

Crash == Fault("crash") /\ Evict /\ UNCHANGED configOk

\* A deployment evicts the object too.
BreakConfig == configOk /\ Fault("config") /\ Evict /\ configOk' = FALSE
FixConfig == ~configOk /\ NoFault /\ Evict /\ configOk' = TRUE

Aged(row) == [row EXCEPT !.next = Elapse(row.next), !.purge = Elapse(row.purge)]

Tick ==
    /\ inbox' = [id \in Ids |-> Aged(inbox[id])]
    /\ alarm' = Elapse(alarm)
    /\ UNCHANGED <<call, objects, lapsed, passVars, removing, configOk, faults, history>>

-----------------------------------------------------------------------------
Init ==
    /\ call = [id \in Ids |-> "none"]
    /\ objects = {}
    /\ inbox = [id \in Ids |-> Absent]
    /\ alarm = Null /\ lapsed = FALSE
    /\ pc = "idle" /\ seen = [id \in Ids |-> Null] /\ cur = Null
    /\ verdict = "none" /\ expired = {} /\ healthy = TRUE /\ threw = FALSE
    /\ removing = [id \in Ids |-> "no"]
    /\ configOk = TRUE
    /\ faults = 0
    /\ taken = {} /\ waived = {}

Email == \E id \in Ids : Put(id) \/ Enqueue(id) \/ EnqueueLost(id)

Operator ==
    \/ \E id \in Ids : Retry(id) \/ RemoveStart(id) \/ RemoveObject(id) \/ RemoveRow(id)
    \/ \E status \in {"dead", "rejected"} : RetryAll(status)

Platform ==
    \/ \E id \in Ids : HandDelete(id)
    \/ Crash \/ BreakConfig \/ FixConfig \/ Tick

Next == Email \/ Pass \/ Operator \/ Platform

Spec == Init /\ [][Next]_vars

\* alarm() runs when its time comes and goes on to its end: R2 answers, and
\* fetch() is cut off by AbortSignal.timeout.  Time passes, and someone fixes
\* the config.
Fairness == WF_vars(Pass) /\ WF_vars(Tick) /\ WF_vars(FixConfig)

FairSpec == Spec /\ Fairness

-----------------------------------------------------------------------------
(* What must hold. *)

\* Every variable keeps its type: the columns of a row, the locals of
\* alarm(), the answers it waits for.
TypeOK ==
    /\ call \in [Ids -> {"none", "stored", "done", "failed"}]
    /\ objects \subseteq Ids
    /\ inbox \in [Ids -> Row]
    /\ alarm \in Time /\ lapsed \in BOOLEAN
    /\ pc \in {"idle", "deliver", "posting", "answered", "purge", "purging",
               "purged", "rearm"}
    /\ seen \in [Ids -> Row \cup {Null}]
    /\ cur \in Ids \cup {Null}
    /\ verdict \in Outcome \cup {"none"}
    /\ expired \subseteq Ids
    /\ healthy \in BOOLEAN /\ threw \in BOOLEAN
    /\ removing \in [Ids -> {"no", "object", "row"}]
    /\ configOk \in BOOLEAN
    /\ faults \in Nat
    /\ taken \subseteq Ids /\ waived \subseteq Ids

\* The row and the object are both there, and nothing will purge them.
Kept(id) == inbox[id].status \in {"pending", "rejected", "dead"} /\ id \in objects

\* Once email() has returned normally, the message is in the bucket with a row
\* pointing at it, until Odoo has committed it or an operator gave it up
\* ("that ordering is the whole guarantee of this worker",
\* handlers/email.ts:24-27).
Custody ==
    \A id \in Ids : call[id] = "done" => id \in taken \cup waived \/ Kept(id)

\* A message that was queued and has no row any more has no object either:
\* remove() and purgeExpired() leave no invisible orphan in the bucket
\* (inbox-do.ts:367-368).
NoOrphan ==
    \A id \in Ids : call[id] = "done" /\ ~Present(id) => id \notin objects

\* The row processDue holds from its SELECT is still the row of the table,
\* whatever operators did while R2 and Odoo were awaited: it is gone, or it is
\* pending and due with the attempts it was read with.  settle() writes
\* attempts + 1 from that snapshot and relies on it.
SnapshotFresh ==
    \A id \in Ids : seen[id] # Null =>
        \/ ~Present(id)
        \/ /\ Pending(id) /\ Due(inbox[id].next)
           /\ inbox[id].attempts = seen[id].attempts

\* A pending row has an attempt left, and a row is dead only because it spent
\* all of them or because its object is missing (settle, inbox-do.ts:554-555).
BudgetExact ==
    \A id \in Ids :
        /\ Pending(id) => inbox[id].attempts < MaxAttempts
        /\ inbox[id].status = "dead" /\ ~inbox[id].missing =>
               inbox[id].attempts = MaxAttempts

\* A queued message whose row was removed or purged never gets a row again: an
\* attempt that ends afterwards is not recorded (settle, inbox-do.ts:538-541).
RemovedStaysRemoved ==
    [][\A id \in Ids : call[id] = "done" /\ ~Present(id) => ~Present(id)']_vars

\* The longest the alarm may be behind the work that is due: a failed pass
\* comes back after AlarmRetry, and an alarm set while a pass ran keeps the
\* runtime from repeating that pass before DeliveryDelay is over.
Slack == IF AlarmRetry < DeliveryDelay THEN DeliveryDelay ELSE AlarmRetry

\* Whenever no pass runs, the alarm is set in time for every pending row and
\* for every purge (armNoLaterThan and rearm, inbox-do.ts:422-446); a setAlarm
\* that failed is made up for by the next pass whose own one succeeds.
AlarmCovers ==
    pc = "idle" /\ ~lapsed =>
        \A t \in Agenda : alarm # Null /\ (alarm <= t \/ alarm <= Slack)

\* Every pending row is eventually delivered, parked or removed.
EveryRowSettles == \A id \in Ids : Pending(id) ~> ~Pending(id)

\* A delivered row is eventually purged, unless an operator requeues it.
DeliveredIsPurged ==
    \A id \in Ids : inbox[id].status = "delivered" ~> inbox[id].status # "delivered"

-----------------------------------------------------------------------------
(* What the repository says, and the code does not keep. *)

\* "The queue only ever points at objects it stored, so the object was deleted
\* by hand (or by a bucket lifecycle rule)" (inbox-do.ts:486-487).
MissingOnlyByHand == \A id \in Ids : inbox[id].missing => id \in waived

\* "How long to back off when the pass itself failed (config error, storage
\* error)" (inbox-do.ts:39): such a pass does not come back at once.
FailedPassBacksOff ==
    [][pc = "rearm" /\ pc' = "idle" /\ (threw \/ ~healthy) /\ alarm' # Null
          => alarm' > 0]_vars
=============================================================================
