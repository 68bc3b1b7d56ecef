-------------------------- MODULE InboxQueueProofs --------------------------
(***************************************************************************)
(* What InboxQueue keeps for every number of messages, every schedule and  *)
(* every failure: types, custody of the message, the in-flight snapshot.   *)
(***************************************************************************)
EXTENDS InboxQueue, TLAPS

USE NullAssumption, PolicyAssumption, DelayAssumption, BatchAssumption,
    AnswersAssumption, BoundAssumption

-----------------------------------------------------------------------------
(* Lemmas about the operators the actions are built from. *)

\* A valid schedule always yields a positive delay, whatever the attempt.
LEMMA BackoffPositive ==
    ASSUME NEW schedule, Schedule(schedule), NEW attempt \in Int
    PROVE  backoffMs(schedule, attempt) \in Nat \ {0}
  BY DEF Schedule, backoffMs

\* classifyStatus is one of the three outcomes, whatever it is given.
LEMMA VerdictType ==
    ASSUME NEW status \in Int
    PROVE  VerdictOf(status) \in Outcome
  BY DEF VerdictOf, classifyStatus, Outcome

\* A row settle() writes is a row of the table, and is there.
LEMMA SettledType ==
    ASSUME NEW attempt \in Nat, NEW v \in Outcome \cup {"dead"}, NEW gone \in BOOLEAN
    PROVE  /\ Settled(attempt, v, gone) \in Row
           /\ Settled(attempt, v, gone).status =
                  IF v # "retry" THEN v
                  ELSE IF attempt >= MaxAttempts THEN "dead" ELSE "pending"
           /\ Settled(attempt, v, gone).status = "pending" =>
                  Settled(attempt, v, gone).next # Null
           /\ Settled(attempt, v, gone).attempts = attempt
           /\ Settled(attempt, v, gone).missing = gone
           /\ Settled(attempt, v, gone).purge =
                  IF v = "delivered" THEN Retention ELSE Null
  <1>1. backoffMs(Backoff, attempt) \in Int
    BY BackoffPositive
  <1> QED
    BY <1>1 DEF Settled, Row, Status, Time, Outcome

\* A time stays a time, and stays NULL or not NULL, as time passes.
LEMMA ElapseType ==
    ASSUME NEW t \in Time
    PROVE  Elapse(t) \in Time /\ (Elapse(t) = Null <=> t = Null) /\ (Due(t) => Due(Elapse(t)))
  BY DEF Elapse, Time, Due

\* The columns that time and the requeue change, one row at a time.
LEMMA RowTimes ==
    ASSUME NEW row \in Row, NEW n \in Time, NEW p \in Time
    PROVE  [row EXCEPT !.next = n, !.purge = p] \in Row
  BY ZenonT(60) DEF Row

\* A row stays a row as time passes, and what was due stays due (Tick).
LEMMA RowAged ==
    ASSUME NEW row \in Row
    PROVE  /\ Aged(row) \in Row
           /\ Aged(row).status = row.status /\ Aged(row).attempts = row.attempts
           /\ Aged(row).missing = row.missing
           /\ Aged(row).next = Elapse(row.next) /\ Aged(row).purge = Elapse(row.purge)
           /\ Aged(row).next = Null <=> row.next = Null
           /\ Aged(row).purge = Null <=> row.purge = Null
           /\ Due(row.next) => Due(Aged(row).next)
  <1>1. row.next \in Time /\ row.purge \in Time
    BY DEF Row
  <1>2. /\ Elapse(row.next) \in Time /\ Elapse(row.purge) \in Time
        /\ Elapse(row.next) = Null <=> row.next = Null
        /\ Elapse(row.purge) = Null <=> row.purge = Null
        /\ Due(row.next) => Due(Elapse(row.next))
    BY <1>1, ElapseType
  <1>3. /\ Aged(row).status = row.status /\ Aged(row).attempts = row.attempts
        /\ Aged(row).missing = row.missing
        /\ Aged(row).next = Elapse(row.next) /\ Aged(row).purge = Elapse(row.purge)
    BY DEF Row, Aged
  <1>4. Elapse(row.next) \in Time /\ Elapse(row.purge) \in Time
    BY <1>2
  <1>5. Aged(row) \in Row
    <2>1. [row EXCEPT !.next = Elapse(row.next), !.purge = Elapse(row.purge)] \in Row
      BY <1>4, RowTimes, Zenon
    <2> QED
      BY <2>1, Zenon DEF Aged
  <1> QED
    BY <1>2, <1>3, <1>5

\* What the UPDATE of retry() writes is a pending row with no attempt spent
\* (inbox-do.ts:321).
LEMMA RowRequeued ==
    ASSUME NEW row \in Row
    PROVE  /\ Requeued(row) \in Row
           /\ Requeued(row).status = "pending" /\ Requeued(row).attempts = 0
           /\ Requeued(row).next = 0 /\ Requeued(row).purge = Null
           /\ Requeued(row).missing = row.missing
  <1>1. 0 \in Time /\ Null \in Time /\ "pending" \in Status \cup {"absent"} /\ 0 \in Nat
    BY DEF Time, Status
  <1>2. Requeued(row) \in Row
    BY <1>1, ZenonT(60) DEF Row, Requeued
  <1>3. /\ Requeued(row).status = "pending" /\ Requeued(row).attempts = 0
        /\ Requeued(row).next = 0 /\ Requeued(row).purge = Null
        /\ Requeued(row).missing = row.missing
    BY DEF Row, Requeued
  <1> QED
    BY <1>2, <1>3

\* A new row is pending, unattempted and not to be purged.
LEMMA RowQueued ==
    /\ Queued \in Row
    /\ Queued.status = "pending" /\ Queued.attempts = 0 /\ Queued.next = FirstAttempt
    /\ Queued.purge = Null /\ Queued.missing = FALSE
  <1>1. FirstAttempt \in Time /\ Null \in Time
    BY DEF FirstAttempt, Time
  <1>2. Queued \in Row
    BY <1>1, ZenonT(60) DEF Queued, Absent, Row, Status
  <1>3. /\ Queued.status = "pending" /\ Queued.attempts = 0 /\ Queued.next = FirstAttempt
        /\ Queued.purge = Null /\ Queued.missing = FALSE
    BY DEF Queued, Absent
  <1> QED
    BY <1>2, <1>3

\* Arming leaves a time in the alarm.
LEMMA ArmType ==
    ASSUME alarm \in Time, NEW t \in Int, Arm(t)
    PROVE  alarm' \in Time
  BY DEF Arm, armNoLaterThan, Time

\* A deleted row has neither an attempt nor a purge to come.
LEMMA AbsentType ==
    Absent \in Row /\ Absent.status = "absent" /\ Absent.purge = Null
  BY DEF Absent, Row, Status, Time

\* The rows a pass selects are rows of the table that are pending and due
\* (inbox-do.ts:453-464).
LEMMA PassStartSelects ==
    ASSUME PassStart
    PROVE  \/ seen' = seen
           \/ \E sel \in SUBSET Ids :
                 /\ \A i \in sel : Pending(i) /\ Due(inbox[i].next)
                 /\ seen' = [i \in Ids |-> IF i \in sel THEN inbox[i] ELSE Null]
  <1> DEFINE due == {i \in Ids : Pending(i) /\ Due(inbox[i].next)}
  <1>1. \/ seen' = seen
        \/ \E sel \in SUBSET due :
              seen' = [i \in Ids |-> IF i \in sel THEN inbox[i] ELSE Null]
    BY DEF PassStart
  <1>2. \A sel \in SUBSET due : /\ sel \in SUBSET Ids
                              /\ \A i \in sel : Pending(i) /\ Due(inbox[i].next)
    OBVIOUS
  <1> HIDE DEF due
  <1> QED
    BY <1>1, <1>2, Zenon

\* A pass selects rows that are pending and due.
LEMMA PassStartEffect ==
    ASSUME PassStart, NEW id \in Ids
    PROVE  \/ seen'[id] = Null
           \/ seen'[id] = seen[id]
           \/ seen'[id] = inbox[id] /\ Pending(id) /\ Due(inbox[id].next)
  BY PassStartSelects

\* What a pass selects has the type of a row of the table.
LEMMA PassStartType ==
    ASSUME PassStart, inbox \in [Ids -> Row], seen \in [Ids -> Row \cup {Null}]
    PROVE  seen' \in [Ids -> Row \cup {Null}]
  BY PassStartSelects

-----------------------------------------------------------------------------
(* Where alarm() is, and what its locals then hold. *)
LocalsOK ==
    /\ pc \in {"posting", "answered"} => cur \in Ids /\ seen[cur] # Null
    /\ pc = "answered" => verdict \in Outcome

TypeInv == TypeOK /\ LocalsOK

\* The empty queue is type correct.
LEMMA TypeInit == Init => TypeInv
  <1> SUFFICES ASSUME Init PROVE TypeInv
    OBVIOUS
  <1>1. inbox \in [Ids -> Row] /\ seen \in [Ids -> Row \cup {Null}]
    BY AbsentType DEF Init
  <1>2. alarm \in Time /\ cur \in Ids \cup {Null} /\ faults \in Nat
    BY DEF Init, Time
  <1>3. /\ healthy \in BOOLEAN /\ threw \in BOOLEAN /\ configOk \in BOOLEAN
        /\ lapsed \in BOOLEAN
    BY DEF Init
  <1> QED
    BY <1>1, <1>2, <1>3 DEF Init, TypeInv, TypeOK, LocalsOK

\* Every step keeps the types, and the locals of alarm() consistent with its
\* place (inbox-do.ts:380-621).
LEMMA TypeNext == TypeInv /\ [Next]_vars => TypeInv'
  <1> SUFFICES ASSUME TypeInv, [Next]_vars PROVE TypeInv'
    OBVIOUS
  <1> USE DEF TypeInv, TypeOK, LocalsOK, passVars, history, alarmVars
  <1>0. Fault("r2") \/ Fault("arm") \/ Fault("rearm") \/ Fault("rpc") \/ Fault("crash")
            \/ Fault("config") \/ Fault("hand") \/ NoFault \/ UNCHANGED faults
        => faults' \in Nat
    BY DEF Fault, NoFault
  <1>1. ASSUME NEW id \in Ids, Put(id) PROVE TypeInv'
    BY <1>0, <1>1 DEF Put
  <1>2. /\ FirstAttempt \in Int
        /\ \A id \in Ids : ArmedFor(id) \in Time
    BY DEF FirstAttempt, ArmedFor, armNoLaterThan, Time
  <1>3. ASSUME NEW id \in Ids, Insert(id) PROVE inbox' \in [Ids -> Row]
    BY <1>3, RowQueued DEF Insert
  <1>4. ASSUME NEW id \in Ids, Enqueue(id) PROVE TypeInv'
    <2>1. /\ Insert(id)
          /\ \/ alarm' = ArmedFor(id) /\ lapsed' = lapsed
                /\ call' = [call EXCEPT ![id] = "done"]
             \/ alarm' = alarm /\ lapsed' = TRUE
                /\ call' = [call EXCEPT ![id] = "failed"]
      BY <1>4 DEF Enqueue
    <2>2. faults' \in Nat
      BY <1>0, <1>4 DEF Enqueue
    <2>4. lapsed' \in BOOLEAN
      BY <2>1, Zenon
    <2>5. alarm' \in Time
      BY <1>2, <2>1
    <2>6. call' \in [Ids -> {"none", "stored", "done", "failed"}]
      BY <2>1
    <2>3. UNCHANGED <<objects, passVars, removing, configOk, history>>
      BY <1>4 DEF Enqueue
    <2> QED
      BY <1>3, <2>1, <2>2, <2>3, <2>4, <2>5, <2>6
  <1>5. ASSUME NEW id \in Ids, EnqueueLost(id) PROVE TypeInv'
    BY <1>0, <1>2, <1>3, <1>5 DEF EnqueueLost
  <1>6. CASE PassStart
    <2>1. seen' \in [Ids -> Row \cup {Null}]
      BY <1>6, PassStartType
    <2>2. alarm' \in Time /\ pc' \in {"deliver", "purge"} /\ healthy' \in BOOLEAN
      BY <1>6 DEF PassStart, Time
    <2> QED
      BY <1>6, <2>1, <2>2 DEF PassStart
  <1>7. ASSUME NEW id \in Ids, GetObject(id) PROVE TypeInv'
    BY <1>7 DEF GetObject, Turn
  <1>8. ASSUME NEW id \in Ids, seen[id] # Null, NextRow(id)
        PROVE  /\ seen' \in [Ids -> Row \cup {Null}] /\ cur' \in Ids \cup {Null}
               /\ verdict' \in Outcome \cup {"none"} /\ pc' \in {"deliver", "purge"}
    BY <1>8 DEF NextRow
  <1>9. ASSUME NEW id \in Ids, seen[id] # Null, NEW v \in Outcome \cup {"dead"},
               NEW gone \in BOOLEAN, settle(id, v, gone)
        PROVE  inbox' \in [Ids -> Row]
    <2>1. seen[id].attempts + 1 \in Nat
      BY <1>9 DEF Row
    <2>2. Settled(seen[id].attempts + 1, v, gone) \in Row
      BY <2>1, SettledType
    <2> QED
      BY <1>9, <2>2 DEF settle
  <1>10. ASSUME NEW id \in Ids, ObjectMissing(id) PROVE TypeInv'
    <2>1. /\ seen[id] # Null /\ settle(id, "dead", TRUE) /\ NextRow(id)
          /\ UNCHANGED <<call, objects, alarm, lapsed, expired, healthy, threw,
                         removing, configOk, faults, taken, waived>>
      BY <1>10 DEF ObjectMissing, Turn
    <2>2. inbox' \in [Ids -> Row]
      BY <1>9, <2>1
    <2>3. /\ seen' \in [Ids -> Row \cup {Null}] /\ cur' \in Ids \cup {Null}
          /\ verdict' \in Outcome \cup {"none"} /\ pc' \in {"deliver", "purge"}
      BY <1>8, <2>1
    <2> QED
      BY <2>1, <2>2, <2>3, SMTT(30)
  <1>11. ASSUME NEW id \in Ids, GetObjectFails(id) PROVE TypeInv'
    BY <1>0, <1>8, <1>11 DEF GetObjectFails, Turn
  <1>12. ASSUME NEW status \in Answers \cup {NoStatus}, OdooAnswers(status) PROVE TypeInv'
    BY <1>12, VerdictType DEF OdooAnswers, TakenAfter, NoStatus
  <1>13. CASE SettleAttempt
    <2>1. /\ cur \in Ids /\ seen[cur] # Null /\ verdict \in Outcome
          /\ settle(cur, verdict, FALSE) /\ NextRow(cur)
      BY <1>13 DEF SettleAttempt
    <2>2. inbox' \in [Ids -> Row]
      BY <1>9, <2>1
    <2>3. /\ seen' \in [Ids -> Row \cup {Null}] /\ cur' \in Ids \cup {Null}
          /\ verdict' \in Outcome \cup {"none"} /\ pc' \in {"deliver", "purge"}
      BY <1>8, <2>1
    <2> QED
      BY <1>13, <2>2, <2>3 DEF SettleAttempt
  <1>14. CASE PurgeSelect
    <2>1. expired' \subseteq Ids
      <3>1. \/ expired' = expired
            \/ \E sel \in SUBSET {id \in Ids : Due(inbox[id].purge)} : expired' = sel
        BY <1>14 DEF PurgeSelect
      <3> QED
        BY <3>1
    <2>2. /\ UNCHANGED <<call, objects, inbox, alarm, lapsed, seen, cur, verdict,
                         healthy, threw, removing, configOk, faults, taken, waived>>
          /\ pc' \in {"purging", "rearm"}
      BY <1>14 DEF PurgeSelect
    <2> QED
      BY <2>1, <2>2
  <1>15. CASE PurgeObjects
    BY <1>0, <1>15 DEF PurgeObjects
  <1>16. CASE PurgeRows
    BY <1>16, AbsentType DEF PurgeRows
  <1>17. Agenda \subseteq Time
    BY DEF Agenda, Row
  <1>18. CASE Rearm
    <2>1. alarm' \in Time
      BY <1>17, <1>18 DEF Rearm, Time
    <2>2. faults' \in Nat
      BY <1>0, <1>18 DEF Rearm
    <2> QED
      BY <1>18, <2>1, <2>2 DEF Rearm
  <1>19. ASSUME NEW S \in SUBSET Ids, Requeue(S)
         PROVE  /\ inbox' \in [Ids -> Row] /\ alarm' \in Time
                /\ lapsed' \in BOOLEAN /\ faults' \in Nat
    <2>2. inbox' \in [Ids -> Row]
      BY <1>19, RowRequeued DEF Requeue
    <2>3. alarm' \in Time
      <3>1. Arm(0) /\ alarm \in Time
        BY <1>19 DEF Requeue
      <3>2. 0 \in Int
        OBVIOUS
      <3> QED
        BY <3>1, <3>2, ArmType, Zenon
    <2> QED
      BY <1>0, <1>19, <2>2, <2>3 DEF Requeue, Arm
  <1>20. ASSUME NEW id \in Ids, Retry(id) PROVE TypeInv'
    BY <1>19, <1>20 DEF Retry
  <1>21. ASSUME NEW status \in {"dead", "rejected"}, RetryAll(status) PROVE TypeInv'
    BY <1>19, <1>21 DEF RetryAll
  <1>22. ASSUME NEW id \in Ids, RemoveStart(id) PROVE TypeInv'
    BY <1>22 DEF RemoveStart
  <1>23. ASSUME NEW id \in Ids, RemoveObject(id) PROVE TypeInv'
    BY <1>0, <1>23 DEF RemoveObject
  <1>24. ASSUME NEW id \in Ids, RemoveRow(id) PROVE TypeInv'
    BY <1>24, AbsentType DEF RemoveRow
  <1>25. ASSUME NEW id \in Ids, HandDelete(id) PROVE TypeInv'
    BY <1>0, <1>25 DEF HandDelete
  <1>26. ASSUME Evict, faults' \in Nat, configOk' \in BOOLEAN PROVE TypeInv'
    <2>1. alarm' \in Time
      BY <1>26 DEF Evict, Time
    <2> QED
      BY <1>26, <2>1, ZenonT(60) DEF Evict
  <1>27. CASE Crash \/ BreakConfig \/ FixConfig
    BY <1>0, <1>26, <1>27 DEF Crash, BreakConfig, FixConfig
  <1>28. CASE Tick
    BY <1>28, RowAged, ElapseType DEF Tick
  <1>29. CASE UNCHANGED vars
    BY <1>29 DEF vars
  <1> QED
    BY <1>1, <1>4, <1>5, <1>6, <1>7, <1>10, <1>11, <1>12, <1>13, <1>14, <1>15, <1>16,
       <1>18, <1>20, <1>21, <1>22, <1>23, <1>24, <1>25, <1>27, <1>28, <1>29
       DEF Next, Email, Pass, Operator, Platform

\* The type invariant holds in every reachable state.
THEOREM TypeCorrect == Spec => []TypeOK
  <1>1. Spec => []TypeInv
    BY TypeInit, TypeNext, PTL DEF Spec
  <1>2. TypeInv => TypeOK
    BY DEF TypeInv
  <1> QED
    BY <1>1, <1>2, PTL

-----------------------------------------------------------------------------
(* What the steps of the delivery loop do to one row. *)

\* The end of an attempt takes one row off the batch, and changes that row only
\* while it is pending.
AttemptEnds(id, other, v, gone) ==
    /\ seen'[id] = IF id = other THEN Null ELSE seen[id]
    /\ pc' \in {"deliver", "purge"} /\ verdict' = "none"
    /\ IF id = other /\ Pending(id)
       THEN /\ inbox'[id].status =
                   IF v # "retry" THEN v
                   ELSE IF seen[id].attempts + 1 >= MaxAttempts THEN "dead"
                   ELSE "pending"
            /\ inbox'[id].status = "pending" => inbox'[id].next # Null
            /\ inbox'[id].attempts = seen[id].attempts + 1
            /\ inbox'[id].missing = gone
            /\ inbox'[id].purge = IF v = "delivered" THEN Retention ELSE Null
       ELSE inbox'[id] = inbox[id]

\* What the steps of an attempt change: the row of the turn alone, and only the
\* way settle() writes it (inbox-do.ts:482-598).
LEMMA AttemptEffect ==
    ASSUME TypeInv, NEW other \in Ids, seen[other] # Null,
           NEW v \in Outcome \cup {"dead"}, NEW gone \in BOOLEAN,
           settle(other, v, gone), NextRow(other), NEW id \in Ids
    PROVE  AttemptEnds(id, other, v, gone)
  <1>t. inbox \in [Ids -> Row] /\ seen \in [Ids -> Row \cup {Null}]
    BY DEF TypeInv, TypeOK
  <1>1. seen[other].attempts + 1 \in Nat
    BY <1>t DEF Row
  <1>2. seen'[id] = IF id = other THEN Null ELSE seen[id]
    BY <1>t DEF NextRow
  <1>3. pc' \in {"deliver", "purge"} /\ verdict' = "none"
    BY DEF NextRow
  <1>4. inbox'[id] = IF id = other /\ Pending(id)
                     THEN Settled(seen[other].attempts + 1, v, gone) ELSE inbox[id]
    BY <1>t DEF settle
  <1>5. CASE id = other /\ Pending(id)
    <2>1. inbox'[id] = Settled(seen[id].attempts + 1, v, gone)
      BY <1>4, <1>5
    <2>2. seen[id].attempts + 1 \in Nat
      BY <1>1, <1>5
    <2>3. /\ inbox'[id].status =
                   IF v # "retry" THEN v
                   ELSE IF seen[id].attempts + 1 >= MaxAttempts THEN "dead"
                   ELSE "pending"
          /\ inbox'[id].status = "pending" => inbox'[id].next # Null
          /\ inbox'[id].attempts = seen[id].attempts + 1
          /\ inbox'[id].missing = gone
          /\ inbox'[id].purge = IF v = "delivered" THEN Retention ELSE Null
      BY <2>1, <2>2, SettledType
    <2> QED
      BY <1>2, <1>3, <1>5, <2>3 DEF AttemptEnds
  <1>6. CASE ~(id = other /\ Pending(id))
    BY <1>2, <1>3, <1>4, <1>6 DEF AttemptEnds
  <1> QED
    BY <1>5, <1>6

-----------------------------------------------------------------------------
(* Rows, snapshots and calls. *)

\* What is still to come to the queue has left no trace in it; an absent row
\* has nothing to purge.
ArrivalInv(id) ==
    /\ call[id] \in {"none", "stored"} =>
           /\ ~Present(id) /\ seen[id] = Null
           /\ id \notin expired /\ removing[id] = "no"
    /\ inbox[id].purge # Null => Present(id)

\* Every step keeps what a message on its way through email() has left behind
\* (email.ts:53-97).
LEMMA ArrivalNext ==
    ASSUME TypeInv, NEW id \in Ids, ArrivalInv(id), [Next]_vars
    PROVE  ArrivalInv(id)'
  <1> USE DEF ArrivalInv
  <1> USE DEF passVars, history, alarmVars, Present, Pending
  <1>t. /\ inbox \in [Ids -> Row] /\ seen \in [Ids -> Row \cup {Null}]
        /\ call \in [Ids -> {"none", "stored", "done", "failed"}]
        /\ removing \in [Ids -> {"no", "object", "row"}]
        /\ objects \subseteq Ids /\ expired \subseteq Ids
        /\ taken \subseteq Ids /\ waived \subseteq Ids
        /\ verdict \in Outcome \cup {"none"}
        /\ pc \in {"posting", "answered"} => cur \in Ids /\ seen[cur] # Null
        /\ pc = "answered" => verdict \in Outcome
    BY DEF TypeInv, TypeOK, LocalsOK
  <1>r. \A i \in Ids : seen[i] # Null => seen[i].attempts \in Nat
    BY <1>t DEF Row
  <1>1. ASSUME NEW other \in Ids, Put(other) PROVE ArrivalInv(id)'
    BY <1>t, <1>1 DEF Put
  <1>2. ASSUME NEW other \in Ids, Enqueue(other) PROVE ArrivalInv(id)'
    BY <1>t, <1>2, RowQueued DEF Enqueue, Insert
  <1>3. ASSUME NEW other \in Ids, EnqueueLost(other) PROVE ArrivalInv(id)'
    BY <1>t, <1>3, RowQueued DEF EnqueueLost, Insert
  <1>4. CASE PassStart
    <2>1. UNCHANGED <<call, objects, inbox, cur, verdict, expired, removing, history>>
          /\ pc' \in {"deliver", "purge"}
      BY <1>4 DEF PassStart
    <2> QED
      BY <1>t, <1>4, <2>1, PassStartEffect
  <1>5. ASSUME NEW other \in Ids, GetObject(other) PROVE ArrivalInv(id)'
    BY <1>t, <1>5 DEF GetObject, Turn
  <1>6. ASSUME NEW other \in Ids, ObjectMissing(other) PROVE ArrivalInv(id)'
    <2>1. /\ seen[other] # Null /\ other \notin objects
          /\ settle(other, "dead", TRUE) /\ NextRow(other)
          /\ UNCHANGED <<call, objects, expired, removing, history>>
      BY <1>6 DEF ObjectMissing, Turn
    <2>2. AttemptEnds(id, other, "dead", TRUE)
      BY <2>1, AttemptEffect
    <2> QED
      BY <1>t, <2>1, <2>2 DEF AttemptEnds
  <1>7. ASSUME NEW other \in Ids, GetObjectFails(other) PROVE ArrivalInv(id)'
    BY <1>t, <1>7 DEF GetObjectFails, Turn, NextRow
  <1>8. ASSUME NEW status \in Answers \cup {NoStatus}, OdooAnswers(status) PROVE ArrivalInv(id)'
    BY <1>t, <1>8 DEF OdooAnswers
  <1>9. CASE SettleAttempt
    <2>1. /\ cur \in Ids /\ seen[cur] # Null /\ verdict \in Outcome
          /\ settle(cur, verdict, FALSE) /\ NextRow(cur) /\ pc = "answered"
          /\ UNCHANGED <<call, objects, expired, removing, history>>
      BY <1>t, <1>9 DEF SettleAttempt
    <2>2. AttemptEnds(id, cur, verdict, FALSE)
      BY <2>1, AttemptEffect
    <2> QED
      BY <1>t, <1>r, <2>1, <2>2 DEF AttemptEnds, Outcome
  <1>10. CASE PurgeSelect
    <2>1. expired' = expired \/ \A i \in expired' : i \in Ids /\ inbox[i].purge # Null
      <3>1. \/ expired' = expired
            \/ \E sel \in SUBSET {i \in Ids : Due(inbox[i].purge)} : expired' = sel
        BY <1>10 DEF PurgeSelect
      <3> QED
        BY <3>1 DEF Due
    <2>2. UNCHANGED <<call, objects, inbox, seen, cur, verdict, removing, history>>
          /\ pc' \in {"purging", "rearm"}
      BY <1>10 DEF PurgeSelect
    <2> QED
      BY <1>t, <2>1, <2>2
  <1>11. CASE PurgeObjects
    BY <1>t, <1>11 DEF PurgeObjects
  <1>12. CASE PurgeRows
    BY <1>t, <1>12, AbsentType DEF PurgeRows
  <1>13. CASE Rearm
    BY <1>t, <1>13 DEF Rearm
  <1>14. ASSUME NEW other \in Ids, Retry(other) PROVE ArrivalInv(id)'
    BY <1>t, <1>14, RowRequeued DEF Retry, Retryable, Requeue
  <1>15. ASSUME NEW status \in {"dead", "rejected"}, RetryAll(status) PROVE ArrivalInv(id)'
    BY <1>t, <1>15, RowRequeued DEF RetryAll, Requeue
  <1>16. ASSUME NEW other \in Ids, RemoveStart(other) PROVE ArrivalInv(id)'
    BY <1>t, <1>16 DEF RemoveStart
  <1>17. ASSUME NEW other \in Ids, RemoveObject(other) PROVE ArrivalInv(id)'
    BY <1>t, <1>17 DEF RemoveObject
  <1>18. ASSUME NEW other \in Ids, RemoveRow(other) PROVE ArrivalInv(id)'
    BY <1>t, <1>18, AbsentType DEF RemoveRow
  <1>19. ASSUME NEW other \in Ids, HandDelete(other) PROVE ArrivalInv(id)'
    BY <1>t, <1>19 DEF HandDelete
  <1>20. CASE Crash
    BY <1>t, <1>20 DEF Crash, Evict
  <1>21. CASE BreakConfig
    BY <1>t, <1>21 DEF BreakConfig, Evict
  <1>22. CASE FixConfig
    BY <1>t, <1>22 DEF FixConfig, Evict
  <1>23. CASE Tick
    BY <1>t, <1>23, RowAged DEF Tick
  <1>24. CASE UNCHANGED vars
    BY <1>t, <1>24 DEF vars
  <1> HIDE DEF ArrivalInv, passVars, history, alarmVars, Present, Pending
  <1> QED
    BY <1>1, <1>2, <1>3, <1>4, <1>5, <1>6, <1>7, <1>8, <1>9, <1>10, <1>11, <1>12,
       <1>13, <1>14, <1>15, <1>16, <1>17, <1>18, <1>19, <1>20, <1>21, <1>22, <1>23, <1>24
       DEF Next, Email, Pass, Operator, Platform

-----------------------------------------------------------------------------
(* Custody. *)



\* Why custody is kept: what is stored is in the bucket, what is queued is in
\* the bucket or settled, and what is about to be purged or removed is settled.
Settling(id) == id \in taken \cup waived

CustodyInv(id) ==
    /\ call[id] = "stored" => id \in objects \/ Settling(id)
    /\ Present(id) => Settling(id) \/ Kept(id)
    /\ call[id] = "done" /\ ~Present(id) => Settling(id)
    /\ inbox[id].purge # Null => Settling(id)
    /\ id \in expired => Settling(id)
    /\ removing[id] # "no" => Settling(id)
    /\ pc = "answered" /\ verdict = "delivered" /\ cur = id => id \in taken

\* Every step keeps an accepted message until it is taken or waived.
LEMMA CustodyNext ==
    ASSUME TypeInv, NEW id \in Ids, ArrivalInv(id), CustodyInv(id), [Next]_vars
    PROVE  CustodyInv(id)'
  <1> USE DEF ArrivalInv, CustodyInv, Settling, Kept, passVars, history, alarmVars, Present, Pending
  <1>t. /\ inbox \in [Ids -> Row] /\ seen \in [Ids -> Row \cup {Null}]
        /\ call \in [Ids -> {"none", "stored", "done", "failed"}]
        /\ removing \in [Ids -> {"no", "object", "row"}]
        /\ objects \subseteq Ids /\ expired \subseteq Ids
        /\ taken \subseteq Ids /\ waived \subseteq Ids
        /\ verdict \in Outcome \cup {"none"}
        /\ pc \in {"posting", "answered"} => cur \in Ids /\ seen[cur] # Null
        /\ pc = "answered" => verdict \in Outcome
    BY DEF TypeInv, TypeOK, LocalsOK
  <1>r. \A i \in Ids : seen[i] # Null => seen[i].attempts \in Nat
    BY <1>t DEF Row
  <1>1. ASSUME NEW other \in Ids, Put(other) PROVE CustodyInv(id)'
    BY <1>t, <1>1 DEF Put
  <1>2. ASSUME NEW other \in Ids, Enqueue(other) PROVE CustodyInv(id)'
    BY <1>t, <1>2, RowQueued DEF Enqueue, Insert
  <1>3. ASSUME NEW other \in Ids, EnqueueLost(other) PROVE CustodyInv(id)'
    BY <1>t, <1>3, RowQueued DEF EnqueueLost, Insert
  <1>4. CASE PassStart
    <2>1. UNCHANGED <<call, objects, inbox, cur, verdict, expired, removing, history>>
          /\ pc' \in {"deliver", "purge"}
      BY <1>4 DEF PassStart
    <2> QED
      BY <1>t, <1>4, <2>1, PassStartEffect
  <1>5. ASSUME NEW other \in Ids, GetObject(other) PROVE CustodyInv(id)'
    BY <1>t, <1>5 DEF GetObject, Turn
  <1>6. ASSUME NEW other \in Ids, ObjectMissing(other) PROVE CustodyInv(id)'
    <2>1. /\ seen[other] # Null /\ other \notin objects
          /\ settle(other, "dead", TRUE) /\ NextRow(other)
          /\ UNCHANGED <<call, objects, expired, removing, history>>
      BY <1>6 DEF ObjectMissing, Turn
    <2>2. AttemptEnds(id, other, "dead", TRUE)
      BY <2>1, AttemptEffect
    <2> QED
      BY <1>t, <2>1, <2>2 DEF AttemptEnds
  <1>7. ASSUME NEW other \in Ids, GetObjectFails(other) PROVE CustodyInv(id)'
    BY <1>t, <1>7 DEF GetObjectFails, Turn, NextRow
  <1>8. ASSUME NEW status \in Answers \cup {NoStatus}, OdooAnswers(status) PROVE CustodyInv(id)'
    <2>1. verdict' = "delivered" => status \in 200..299
      BY <1>8 DEF OdooAnswers, VerdictOf, classifyStatus
    <2>2. /\ \A i \in Ids : i \in taken => i \in taken'
          /\ status \in 200..299 => cur \in taken'
      BY <1>t, <1>8 DEF OdooAnswers, TakenAfter
    <2>3. UNCHANGED <<call, objects, inbox, seen, cur, expired, removing, waived>>
          /\ pc' = "answered"
      BY <1>8 DEF OdooAnswers
    <2> QED
      BY <1>t, <2>1, <2>2, <2>3
  <1>9. CASE SettleAttempt
    <2>1. /\ cur \in Ids /\ seen[cur] # Null /\ verdict \in Outcome
          /\ settle(cur, verdict, FALSE) /\ NextRow(cur) /\ pc = "answered"
          /\ UNCHANGED <<call, objects, expired, removing, history>>
      BY <1>t, <1>9 DEF SettleAttempt
    <2>2. AttemptEnds(id, cur, verdict, FALSE)
      BY <2>1, AttemptEffect
    <2> QED
      BY <1>t, <1>r, <2>1, <2>2 DEF AttemptEnds, Outcome
  <1>10. CASE PurgeSelect
    <2>1. expired' = expired \/ \A i \in expired' : i \in Ids /\ inbox[i].purge # Null
      <3>1. \/ expired' = expired
            \/ \E sel \in SUBSET {i \in Ids : Due(inbox[i].purge)} : expired' = sel
        BY <1>10 DEF PurgeSelect
      <3> QED
        BY <3>1 DEF Due
    <2>2. UNCHANGED <<call, objects, inbox, seen, cur, verdict, removing, history>>
          /\ pc' \in {"purging", "rearm"}
      BY <1>10 DEF PurgeSelect
    <2> QED
      BY <1>t, <2>1, <2>2
  <1>11. CASE PurgeObjects
    BY <1>t, <1>11 DEF PurgeObjects
  <1>12. CASE PurgeRows
    BY <1>t, <1>12, AbsentType DEF PurgeRows
  <1>13. CASE Rearm
    BY <1>t, <1>13 DEF Rearm
  <1>14. ASSUME NEW other \in Ids, Retry(other) PROVE CustodyInv(id)'
    BY <1>t, <1>14, RowRequeued DEF Retry, Retryable, Requeue
  <1>15. ASSUME NEW status \in {"dead", "rejected"}, RetryAll(status) PROVE CustodyInv(id)'
    BY <1>t, <1>15, RowRequeued DEF RetryAll, Requeue
  <1>16. ASSUME NEW other \in Ids, RemoveStart(other) PROVE CustodyInv(id)'
    BY <1>t, <1>16 DEF RemoveStart
  <1>17. ASSUME NEW other \in Ids, RemoveObject(other) PROVE CustodyInv(id)'
    BY <1>t, <1>17 DEF RemoveObject
  <1>18. ASSUME NEW other \in Ids, RemoveRow(other) PROVE CustodyInv(id)'
    BY <1>t, <1>18, AbsentType DEF RemoveRow
  <1>19. ASSUME NEW other \in Ids, HandDelete(other) PROVE CustodyInv(id)'
    BY <1>t, <1>19 DEF HandDelete
  <1>20. CASE Crash
    BY <1>t, <1>20 DEF Crash, Evict
  <1>21. CASE BreakConfig
    BY <1>t, <1>21 DEF BreakConfig, Evict
  <1>22. CASE FixConfig
    BY <1>t, <1>22 DEF FixConfig, Evict
  <1>23. CASE Tick
    BY <1>t, <1>23, RowAged DEF Tick
  <1>24. CASE UNCHANGED vars
    BY <1>t, <1>24 DEF vars
  <1> HIDE DEF ArrivalInv, CustodyInv, passVars, history, alarmVars, Present, Pending
  <1> QED
    BY <1>1, <1>2, <1>3, <1>4, <1>5, <1>6, <1>7, <1>8, <1>9, <1>10, <1>11, <1>12,
       <1>13, <1>14, <1>15, <1>16, <1>17, <1>18, <1>19, <1>20, <1>21, <1>22, <1>23, <1>24
       DEF Next, Email, Pass, Operator, Platform

-----------------------------------------------------------------------------
(* The snapshot of the delivery loop, the attempt budget, orphans. *)



\* A row of the batch is absent, or as it was read; an attempt is left to it.
SnapshotInv(id) ==
    /\ seen[id] # Null =>
        /\ seen[id].attempts < MaxAttempts
        /\ \/ ~Present(id)
           \/ /\ Pending(id) /\ Due(inbox[id].next)
              /\ inbox[id].attempts = seen[id].attempts
    /\ Pending(id) => inbox[id].attempts < MaxAttempts
    /\ inbox[id].status = "dead" /\ ~inbox[id].missing =>
           inbox[id].attempts = MaxAttempts

\* Every step keeps the rows processDue holds in line with the table.
LEMMA SnapshotNext ==
    ASSUME TypeInv, NEW id \in Ids, ArrivalInv(id), SnapshotInv(id), [Next]_vars
    PROVE  SnapshotInv(id)'
  <1> USE DEF ArrivalInv, SnapshotInv, passVars, history, alarmVars, Present, Pending
  <1>t. /\ inbox \in [Ids -> Row] /\ seen \in [Ids -> Row \cup {Null}]
        /\ call \in [Ids -> {"none", "stored", "done", "failed"}]
        /\ removing \in [Ids -> {"no", "object", "row"}]
        /\ objects \subseteq Ids /\ expired \subseteq Ids
        /\ taken \subseteq Ids /\ waived \subseteq Ids
        /\ verdict \in Outcome \cup {"none"}
        /\ pc \in {"posting", "answered"} => cur \in Ids /\ seen[cur] # Null
        /\ pc = "answered" => verdict \in Outcome
    BY DEF TypeInv, TypeOK, LocalsOK
  <1>r. \A i \in Ids : seen[i] # Null => seen[i].attempts \in Nat
    BY <1>t DEF Row
  <1>1. ASSUME NEW other \in Ids, Put(other) PROVE SnapshotInv(id)'
    BY <1>t, <1>1 DEF Put
  <1>2. ASSUME NEW other \in Ids, Enqueue(other) PROVE SnapshotInv(id)'
    BY <1>t, <1>2, RowQueued DEF Enqueue, Insert
  <1>3. ASSUME NEW other \in Ids, EnqueueLost(other) PROVE SnapshotInv(id)'
    BY <1>t, <1>3, RowQueued DEF EnqueueLost, Insert
  <1>4. CASE PassStart
    <2>1. UNCHANGED <<call, objects, inbox, cur, verdict, expired, removing, history>>
          /\ pc' \in {"deliver", "purge"}
      BY <1>4 DEF PassStart
    <2> QED
      BY <1>t, <1>4, <2>1, PassStartEffect
  <1>5. ASSUME NEW other \in Ids, GetObject(other) PROVE SnapshotInv(id)'
    BY <1>t, <1>5 DEF GetObject, Turn
  <1>6. ASSUME NEW other \in Ids, ObjectMissing(other) PROVE SnapshotInv(id)'
    <2>1. /\ seen[other] # Null /\ other \notin objects
          /\ settle(other, "dead", TRUE) /\ NextRow(other)
          /\ UNCHANGED <<call, objects, expired, removing, history>>
      BY <1>6 DEF ObjectMissing, Turn
    <2>2. AttemptEnds(id, other, "dead", TRUE)
      BY <2>1, AttemptEffect
    <2> QED
      BY <1>t, <2>1, <2>2 DEF AttemptEnds
  <1>7. ASSUME NEW other \in Ids, GetObjectFails(other) PROVE SnapshotInv(id)'
    BY <1>t, <1>7 DEF GetObjectFails, Turn, NextRow
  <1>8. ASSUME NEW status \in Answers \cup {NoStatus}, OdooAnswers(status) PROVE SnapshotInv(id)'
    BY <1>t, <1>8 DEF OdooAnswers
  <1>9. CASE SettleAttempt
    <2>1. /\ cur \in Ids /\ seen[cur] # Null /\ verdict \in Outcome
          /\ settle(cur, verdict, FALSE) /\ NextRow(cur) /\ pc = "answered"
          /\ UNCHANGED <<call, objects, expired, removing, history>>
      BY <1>t, <1>9 DEF SettleAttempt
    <2>2. AttemptEnds(id, cur, verdict, FALSE)
      BY <2>1, AttemptEffect
    <2> QED
      BY <1>t, <1>r, <2>1, <2>2 DEF AttemptEnds, Outcome
  <1>10. CASE PurgeSelect
    <2>1. expired' = expired \/ \A i \in expired' : i \in Ids /\ inbox[i].purge # Null
      <3>1. \/ expired' = expired
            \/ \E sel \in SUBSET {i \in Ids : Due(inbox[i].purge)} : expired' = sel
        BY <1>10 DEF PurgeSelect
      <3> QED
        BY <3>1 DEF Due
    <2>2. UNCHANGED <<call, objects, inbox, seen, cur, verdict, removing, history>>
          /\ pc' \in {"purging", "rearm"}
      BY <1>10 DEF PurgeSelect
    <2> QED
      BY <1>t, <2>1, <2>2
  <1>11. CASE PurgeObjects
    BY <1>t, <1>11 DEF PurgeObjects
  <1>12. CASE PurgeRows
    BY <1>t, <1>12, AbsentType DEF PurgeRows
  <1>13. CASE Rearm
    BY <1>t, <1>13 DEF Rearm
  <1>14. ASSUME NEW other \in Ids, Retry(other) PROVE SnapshotInv(id)'
    BY <1>t, <1>14, RowRequeued DEF Retry, Retryable, Requeue
  <1>15. ASSUME NEW status \in {"dead", "rejected"}, RetryAll(status) PROVE SnapshotInv(id)'
    BY <1>t, <1>15, RowRequeued DEF RetryAll, Requeue
  <1>16. ASSUME NEW other \in Ids, RemoveStart(other) PROVE SnapshotInv(id)'
    BY <1>t, <1>16 DEF RemoveStart
  <1>17. ASSUME NEW other \in Ids, RemoveObject(other) PROVE SnapshotInv(id)'
    BY <1>t, <1>17 DEF RemoveObject
  <1>18. ASSUME NEW other \in Ids, RemoveRow(other) PROVE SnapshotInv(id)'
    BY <1>t, <1>18, AbsentType DEF RemoveRow
  <1>19. ASSUME NEW other \in Ids, HandDelete(other) PROVE SnapshotInv(id)'
    BY <1>t, <1>19 DEF HandDelete
  <1>20. CASE Crash
    BY <1>t, <1>20 DEF Crash, Evict
  <1>21. CASE BreakConfig
    BY <1>t, <1>21 DEF BreakConfig, Evict
  <1>22. CASE FixConfig
    BY <1>t, <1>22 DEF FixConfig, Evict
  <1>23. CASE Tick
    BY <1>t, <1>23, RowAged DEF Tick
  <1>24. CASE UNCHANGED vars
    BY <1>t, <1>24 DEF vars
  <1> HIDE DEF ArrivalInv, SnapshotInv, passVars, history, alarmVars, Present, Pending
  <1> QED
    BY <1>1, <1>2, <1>3, <1>4, <1>5, <1>6, <1>7, <1>8, <1>9, <1>10, <1>11, <1>12,
       <1>13, <1>14, <1>15, <1>16, <1>17, <1>18, <1>19, <1>20, <1>21, <1>22, <1>23, <1>24
       DEF Next, Email, Pass, Operator, Platform


\* The object goes before its row does, and a purge selects rows that exist.
OrphanInv(id) ==
    /\ call[id] = "done" /\ ~Present(id) => id \notin objects
    /\ pc = "purged" /\ id \in expired => id \notin objects
    /\ removing[id] = "row" => id \notin objects

\* Every step keeps a message whose row goes from leaving its object behind.
LEMMA OrphanNext ==
    ASSUME TypeInv, NEW id \in Ids, ArrivalInv(id), OrphanInv(id), [Next]_vars
    PROVE  OrphanInv(id)'
  <1> USE DEF ArrivalInv, OrphanInv, passVars, history, alarmVars, Present, Pending
  <1>t. /\ inbox \in [Ids -> Row] /\ seen \in [Ids -> Row \cup {Null}]
        /\ call \in [Ids -> {"none", "stored", "done", "failed"}]
        /\ removing \in [Ids -> {"no", "object", "row"}]
        /\ objects \subseteq Ids /\ expired \subseteq Ids
        /\ taken \subseteq Ids /\ waived \subseteq Ids
        /\ verdict \in Outcome \cup {"none"}
        /\ pc \in {"posting", "answered"} => cur \in Ids /\ seen[cur] # Null
        /\ pc = "answered" => verdict \in Outcome
    BY DEF TypeInv, TypeOK, LocalsOK
  <1>r. \A i \in Ids : seen[i] # Null => seen[i].attempts \in Nat
    BY <1>t DEF Row
  <1>1. ASSUME NEW other \in Ids, Put(other) PROVE OrphanInv(id)'
    BY <1>t, <1>1 DEF Put
  <1>2. ASSUME NEW other \in Ids, Enqueue(other) PROVE OrphanInv(id)'
    BY <1>t, <1>2, RowQueued DEF Enqueue, Insert
  <1>3. ASSUME NEW other \in Ids, EnqueueLost(other) PROVE OrphanInv(id)'
    BY <1>t, <1>3, RowQueued DEF EnqueueLost, Insert
  <1>4. CASE PassStart
    <2>1. UNCHANGED <<call, objects, inbox, cur, verdict, expired, removing, history>>
          /\ pc' \in {"deliver", "purge"}
      BY <1>4 DEF PassStart
    <2> QED
      BY <1>t, <1>4, <2>1, PassStartEffect
  <1>5. ASSUME NEW other \in Ids, GetObject(other) PROVE OrphanInv(id)'
    BY <1>t, <1>5 DEF GetObject, Turn
  <1>6. ASSUME NEW other \in Ids, ObjectMissing(other) PROVE OrphanInv(id)'
    <2>1. /\ seen[other] # Null /\ other \notin objects
          /\ settle(other, "dead", TRUE) /\ NextRow(other)
          /\ UNCHANGED <<call, objects, expired, removing, history>>
      BY <1>6 DEF ObjectMissing, Turn
    <2>2. AttemptEnds(id, other, "dead", TRUE)
      BY <2>1, AttemptEffect
    <2> QED
      BY <1>t, <2>1, <2>2 DEF AttemptEnds
  <1>7. ASSUME NEW other \in Ids, GetObjectFails(other) PROVE OrphanInv(id)'
    BY <1>t, <1>7 DEF GetObjectFails, Turn, NextRow
  <1>8. ASSUME NEW status \in Answers \cup {NoStatus}, OdooAnswers(status) PROVE OrphanInv(id)'
    BY <1>t, <1>8 DEF OdooAnswers
  <1>9. CASE SettleAttempt
    <2>1. /\ cur \in Ids /\ seen[cur] # Null /\ verdict \in Outcome
          /\ settle(cur, verdict, FALSE) /\ NextRow(cur) /\ pc = "answered"
          /\ UNCHANGED <<call, objects, expired, removing, history>>
      BY <1>t, <1>9 DEF SettleAttempt
    <2>2. AttemptEnds(id, cur, verdict, FALSE)
      BY <2>1, AttemptEffect
    <2> QED
      BY <1>t, <1>r, <2>1, <2>2 DEF AttemptEnds, Outcome
  <1>10. CASE PurgeSelect
    <2>1. expired' = expired \/ \A i \in expired' : i \in Ids /\ inbox[i].purge # Null
      <3>1. \/ expired' = expired
            \/ \E sel \in SUBSET {i \in Ids : Due(inbox[i].purge)} : expired' = sel
        BY <1>10 DEF PurgeSelect
      <3> QED
        BY <3>1 DEF Due
    <2>2. UNCHANGED <<call, objects, inbox, seen, cur, verdict, removing, history>>
          /\ pc' \in {"purging", "rearm"}
      BY <1>10 DEF PurgeSelect
    <2> QED
      BY <1>t, <2>1, <2>2
  <1>11. CASE PurgeObjects
    BY <1>t, <1>11 DEF PurgeObjects
  <1>12. CASE PurgeRows
    BY <1>t, <1>12, AbsentType DEF PurgeRows
  <1>13. CASE Rearm
    BY <1>t, <1>13 DEF Rearm
  <1>14. ASSUME NEW other \in Ids, Retry(other) PROVE OrphanInv(id)'
    BY <1>t, <1>14, RowRequeued DEF Retry, Retryable, Requeue
  <1>15. ASSUME NEW status \in {"dead", "rejected"}, RetryAll(status) PROVE OrphanInv(id)'
    BY <1>t, <1>15, RowRequeued DEF RetryAll, Requeue
  <1>16. ASSUME NEW other \in Ids, RemoveStart(other) PROVE OrphanInv(id)'
    BY <1>t, <1>16 DEF RemoveStart
  <1>17. ASSUME NEW other \in Ids, RemoveObject(other) PROVE OrphanInv(id)'
    BY <1>t, <1>17 DEF RemoveObject
  <1>18. ASSUME NEW other \in Ids, RemoveRow(other) PROVE OrphanInv(id)'
    BY <1>t, <1>18, AbsentType DEF RemoveRow
  <1>19. ASSUME NEW other \in Ids, HandDelete(other) PROVE OrphanInv(id)'
    BY <1>t, <1>19 DEF HandDelete
  <1>20. CASE Crash
    BY <1>t, <1>20 DEF Crash, Evict
  <1>21. CASE BreakConfig
    BY <1>t, <1>21 DEF BreakConfig, Evict
  <1>22. CASE FixConfig
    BY <1>t, <1>22 DEF FixConfig, Evict
  <1>23. CASE Tick
    BY <1>t, <1>23, RowAged DEF Tick
  <1>24. CASE UNCHANGED vars
    BY <1>t, <1>24 DEF vars
  <1> HIDE DEF ArrivalInv, OrphanInv, passVars, history, alarmVars, Present, Pending
  <1> QED
    BY <1>1, <1>2, <1>3, <1>4, <1>5, <1>6, <1>7, <1>8, <1>9, <1>10, <1>11, <1>12,
       <1>13, <1>14, <1>15, <1>16, <1>17, <1>18, <1>19, <1>20, <1>21, <1>22, <1>23, <1>24
       DEF Next, Email, Pass, Operator, Platform

\* A queued message whose row is gone gets no row again in any step.
LEMMA RemovedNext ==
    ASSUME TypeInv, NEW id \in Ids, ArrivalInv(id), [Next]_vars,
           call[id] = "done", ~Present(id)
    PROVE  ~Present(id)'
  <1> USE DEF ArrivalInv, passVars, history, alarmVars, Present, Pending
  <1>t. /\ inbox \in [Ids -> Row] /\ seen \in [Ids -> Row \cup {Null}]
        /\ call \in [Ids -> {"none", "stored", "done", "failed"}]
        /\ removing \in [Ids -> {"no", "object", "row"}]
        /\ objects \subseteq Ids /\ expired \subseteq Ids
        /\ taken \subseteq Ids /\ waived \subseteq Ids
        /\ verdict \in Outcome \cup {"none"}
        /\ pc \in {"posting", "answered"} => cur \in Ids /\ seen[cur] # Null
        /\ pc = "answered" => verdict \in Outcome
    BY DEF TypeInv, TypeOK, LocalsOK
  <1>r. \A i \in Ids : seen[i] # Null => seen[i].attempts \in Nat
    BY <1>t DEF Row
  <1>1. ASSUME NEW other \in Ids, Put(other) PROVE ~Present(id)'
    BY <1>t, <1>1 DEF Put
  <1>2. ASSUME NEW other \in Ids, Enqueue(other) PROVE ~Present(id)'
    BY <1>t, <1>2, RowQueued DEF Enqueue, Insert
  <1>3. ASSUME NEW other \in Ids, EnqueueLost(other) PROVE ~Present(id)'
    BY <1>t, <1>3, RowQueued DEF EnqueueLost, Insert
  <1>4. CASE PassStart
    <2>1. UNCHANGED <<call, objects, inbox, cur, verdict, expired, removing, history>>
          /\ pc' \in {"deliver", "purge"}
      BY <1>4 DEF PassStart
    <2> QED
      BY <1>t, <1>4, <2>1, PassStartEffect
  <1>5. ASSUME NEW other \in Ids, GetObject(other) PROVE ~Present(id)'
    BY <1>t, <1>5 DEF GetObject, Turn
  <1>6. ASSUME NEW other \in Ids, ObjectMissing(other) PROVE ~Present(id)'
    <2>1. /\ seen[other] # Null /\ other \notin objects
          /\ settle(other, "dead", TRUE) /\ NextRow(other)
          /\ UNCHANGED <<call, objects, expired, removing, history>>
      BY <1>6 DEF ObjectMissing, Turn
    <2>2. AttemptEnds(id, other, "dead", TRUE)
      BY <2>1, AttemptEffect
    <2> QED
      BY <1>t, <2>1, <2>2 DEF AttemptEnds
  <1>7. ASSUME NEW other \in Ids, GetObjectFails(other) PROVE ~Present(id)'
    BY <1>t, <1>7 DEF GetObjectFails, Turn, NextRow
  <1>8. ASSUME NEW status \in Answers \cup {NoStatus}, OdooAnswers(status) PROVE ~Present(id)'
    BY <1>t, <1>8 DEF OdooAnswers
  <1>9. CASE SettleAttempt
    <2>1. /\ cur \in Ids /\ seen[cur] # Null /\ verdict \in Outcome
          /\ settle(cur, verdict, FALSE) /\ NextRow(cur) /\ pc = "answered"
          /\ UNCHANGED <<call, objects, expired, removing, history>>
      BY <1>t, <1>9 DEF SettleAttempt
    <2>2. AttemptEnds(id, cur, verdict, FALSE)
      BY <2>1, AttemptEffect
    <2> QED
      BY <1>t, <1>r, <2>1, <2>2 DEF AttemptEnds, Outcome
  <1>10. CASE PurgeSelect
    <2>1. expired' = expired \/ \A i \in expired' : i \in Ids /\ inbox[i].purge # Null
      <3>1. \/ expired' = expired
            \/ \E sel \in SUBSET {i \in Ids : Due(inbox[i].purge)} : expired' = sel
        BY <1>10 DEF PurgeSelect
      <3> QED
        BY <3>1 DEF Due
    <2>2. UNCHANGED <<call, objects, inbox, seen, cur, verdict, removing, history>>
          /\ pc' \in {"purging", "rearm"}
      BY <1>10 DEF PurgeSelect
    <2> QED
      BY <1>t, <2>1, <2>2
  <1>11. CASE PurgeObjects
    BY <1>t, <1>11 DEF PurgeObjects
  <1>12. CASE PurgeRows
    BY <1>t, <1>12, AbsentType DEF PurgeRows
  <1>13. CASE Rearm
    BY <1>t, <1>13 DEF Rearm
  <1>14. ASSUME NEW other \in Ids, Retry(other) PROVE ~Present(id)'
    BY <1>t, <1>14, RowRequeued DEF Retry, Retryable, Requeue
  <1>15. ASSUME NEW status \in {"dead", "rejected"}, RetryAll(status) PROVE ~Present(id)'
    BY <1>t, <1>15, RowRequeued DEF RetryAll, Requeue
  <1>16. ASSUME NEW other \in Ids, RemoveStart(other) PROVE ~Present(id)'
    BY <1>t, <1>16 DEF RemoveStart
  <1>17. ASSUME NEW other \in Ids, RemoveObject(other) PROVE ~Present(id)'
    BY <1>t, <1>17 DEF RemoveObject
  <1>18. ASSUME NEW other \in Ids, RemoveRow(other) PROVE ~Present(id)'
    BY <1>t, <1>18, AbsentType DEF RemoveRow
  <1>19. ASSUME NEW other \in Ids, HandDelete(other) PROVE ~Present(id)'
    BY <1>t, <1>19 DEF HandDelete
  <1>20. CASE Crash
    BY <1>t, <1>20 DEF Crash, Evict
  <1>21. CASE BreakConfig
    BY <1>t, <1>21 DEF BreakConfig, Evict
  <1>22. CASE FixConfig
    BY <1>t, <1>22 DEF FixConfig, Evict
  <1>23. CASE Tick
    BY <1>t, <1>23, RowAged DEF Tick
  <1>24. CASE UNCHANGED vars
    BY <1>t, <1>24 DEF vars
  <1> HIDE DEF ArrivalInv, passVars, history, alarmVars, Present, Pending
  <1> QED
    BY <1>1, <1>2, <1>3, <1>4, <1>5, <1>6, <1>7, <1>8, <1>9, <1>10, <1>11, <1>12,
       <1>13, <1>14, <1>15, <1>16, <1>17, <1>18, <1>19, <1>20, <1>21, <1>22, <1>23, <1>24
       DEF Next, Email, Pass, Operator, Platform

-----------------------------------------------------------------------------
(* Safety. *)

SafetyInv ==
    /\ TypeInv
    /\ \A id \in Ids : ArrivalInv(id) /\ CustodyInv(id) /\ SnapshotInv(id) /\ OrphanInv(id)

\* The empty queue is safe.
LEMMA SafetyInit == Init => SafetyInv
  <1> SUFFICES ASSUME Init, NEW id \in Ids
               PROVE  ArrivalInv(id) /\ CustodyInv(id) /\ SnapshotInv(id) /\ OrphanInv(id)
    BY TypeInit DEF SafetyInv
  <1>1. /\ call[id] = "none" /\ inbox[id].status = "absent" /\ inbox[id].purge = Null
        /\ seen[id] = Null /\ removing[id] = "no" /\ expired = {} /\ pc = "idle"
    BY AbsentType DEF Init
  <1> QED
    BY <1>1 DEF ArrivalInv, CustodyInv, SnapshotInv, OrphanInv, Present, Pending

\* Every step keeps the queue safe.
LEMMA SafetyNext == SafetyInv /\ [Next]_vars => SafetyInv'
  BY TypeNext, ArrivalNext, CustodyNext, SnapshotNext, OrphanNext DEF SafetyInv

\* The inductive invariant holds in every reachable state.
THEOREM SafetyInvariant == Spec => []SafetyInv
  BY SafetyInit, SafetyNext, PTL DEF Spec

\* Once email() has returned normally, the message is in the bucket with a row
\* pointing at it, until Odoo has committed it or an operator gave it up:
\* CustodyInv covers every step of every handler.
THEOREM CustodyKept == Spec => []Custody
  <1>1. SafetyInv => Custody
    BY DEF SafetyInv, CustodyInv, Custody, Settling
  <1> QED
    BY <1>1, SafetyInvariant, PTL

\* The row in flight is the row of the table: SnapshotInv.
THEOREM SnapshotStaysFresh == Spec => []SnapshotFresh
  <1>1. SafetyInv => SnapshotFresh
    BY DEF SafetyInv, SnapshotInv, SnapshotFresh
  <1> QED
    BY <1>1, SafetyInvariant, PTL

\* A dead row has spent exactly its attempts, or lost its object: SnapshotInv.
THEOREM BudgetIsExact == Spec => []BudgetExact
  <1>1. SafetyInv => BudgetExact
    BY DEF SafetyInv, SnapshotInv, BudgetExact
  <1> QED
    BY <1>1, SafetyInvariant, PTL

\* No object outlives the row of a queued message: OrphanInv.
THEOREM NoOrphanLeft == Spec => []NoOrphan
  <1>1. SafetyInv => NoOrphan
    BY DEF SafetyInv, OrphanInv, NoOrphan
  <1> QED
    BY <1>1, SafetyInvariant, PTL

\* A removed or purged row is not written back by an attempt that ends later.
THEOREM RemovedRowsStayRemoved == Spec => RemovedStaysRemoved
  <1>1. SafetyInv /\ [Next]_vars =>
            [\A id \in Ids : call[id] = "done" /\ ~Present(id) => ~Present(id)']_vars
    BY RemovedNext DEF SafetyInv
  <1> QED
    BY <1>1, SafetyInvariant, PTL DEF Spec, RemovedStaysRemoved

-----------------------------------------------------------------------------
(* The alarm. *)

Covered(t) == alarm # Null /\ (alarm <= t \/ alarm <= Slack)

\* Between passes the alarm is in time for every row, unless a setAlarm failed;
\* what arms it during a pass arms it for DeliveryDelay at the latest.
AlarmInv(id) ==
    /\ Pending(id) => inbox[id].next # Null
    /\ pc = "idle" /\ ~lapsed /\ Pending(id) => Covered(inbox[id].next)
    /\ pc = "idle" /\ ~lapsed /\ inbox[id].purge # Null => Covered(inbox[id].purge)
    /\ pc # "idle" /\ alarm # Null => alarm <= DeliveryDelay

\* Time passing does not open a gap between the alarm and the work.
LEMMA CoveredAges ==
    ASSUME TypeInv, Tick, NEW t \in Int, Covered(t)
    PROVE  /\ alarm' # Null
           /\ alarm' <= Elapse(t) \/ alarm' <= Slack
  <1>1. alarm \in Int
    BY DEF TypeInv, TypeOK, Covered, Time
  <1>2. alarm' = Elapse(alarm)
    BY DEF Tick
  <1> QED
    BY <1>1, <1>2 DEF Covered, Elapse, Slack

\* Arming for t covers t, and whatever was covered.
LEMMA ArmCovers ==
    ASSUME TypeInv, NEW t \in Int, alarm' = armNoLaterThan(t)
    PROVE  /\ alarm' \in Int /\ alarm' <= t
           /\ alarm # Null => alarm' <= alarm
  BY DEF TypeInv, TypeOK, armNoLaterThan, Time

\* enqueue() and the requeues leave the alarm in time for what they wrote.
LEMMA InsertCovers ==
    ASSUME TypeInv, NEW id \in Ids, AlarmInv(id), NEW other \in Ids, Insert(other),
           alarm' = ArmedFor(other), pc' = pc, lapsed' = lapsed
    PROVE  AlarmInv(id)'
  <1>1. FirstAttempt \in Int /\ FirstAttempt <= DeliveryDelay
    BY DEF FirstAttempt
  <1>2. /\ alarm \in Time /\ inbox[id] \in Row
        /\ inbox[id].next \in Time /\ inbox[id].purge \in Time
    BY DEF TypeInv, TypeOK, Row
  <1>3. CASE Present(other)
    <2>1. inbox'[id] = inbox[id] /\ alarm' = alarm
      BY <1>3 DEF Insert, ArmedFor, TypeInv, TypeOK
    <2> QED
      BY <2>1 DEF AlarmInv, Covered, Pending
  <1>4. CASE ~Present(other)
    <2>1. alarm' \in Int /\ alarm' <= FirstAttempt /\ (alarm # Null => alarm' <= alarm)
      BY <1>1, <1>4, ArmCovers DEF ArmedFor
    <2>2. inbox'[id] = IF id = other THEN Queued ELSE inbox[id]
      BY <1>4 DEF Insert, TypeInv, TypeOK
    <2>3. CASE id = other
      BY <1>1, <2>1, <2>2, <2>3, RowQueued DEF AlarmInv, Covered, Pending
    <2>4. CASE id # other
      BY <1>1, <1>2, <2>1, <2>2, <2>4 DEF AlarmInv, Covered, Pending, Time, Slack
    <2> QED
      BY <2>3, <2>4
  <1> QED
    BY <1>3, <1>4

\* A requeue arms for now, and leaves the other rows covered (inbox-do.ts:329,
\* 353).
LEMMA RequeueCovers ==
    ASSUME TypeInv, NEW id \in Ids, AlarmInv(id), NEW S \in SUBSET Ids,
           Requeue(S), pc' = pc
    PROVE  AlarmInv(id)'
  <1>1. \/ alarm' = armNoLaterThan(0) /\ lapsed' = lapsed
        \/ alarm' = alarm /\ lapsed' = TRUE
    BY DEF Requeue, Arm
  <1>2. /\ alarm \in Time /\ inbox[id] \in Row
        /\ inbox[id].next \in Time /\ inbox[id].purge \in Time
    BY DEF TypeInv, TypeOK, Row
  <1>3. alarm' = armNoLaterThan(0) =>
            alarm' \in Int /\ alarm' <= 0 /\ (alarm # Null => alarm' <= alarm)
    BY ArmCovers
  <1>4. inbox'[id] = IF id \in S THEN Requeued(inbox[id]) ELSE inbox[id]
    BY DEF Requeue, TypeInv, TypeOK
  <1>5. ASSUME id \in S, alarm' = armNoLaterThan(0), lapsed' = lapsed
        PROVE  AlarmInv(id)'
    BY <1>2, <1>3, <1>4, <1>5, RowRequeued DEF AlarmInv, Covered, Pending
  <1>6. ASSUME id \notin S, alarm' = armNoLaterThan(0), lapsed' = lapsed
        PROVE  AlarmInv(id)'
    BY <1>2, <1>3, <1>4, <1>6 DEF AlarmInv, Covered, Pending, Time, Slack
  <1>7. ASSUME alarm' = alarm, lapsed' = TRUE
        PROVE  AlarmInv(id)'
    <2>1. Pending(id)' => inbox'[id].next # Null
      BY <1>4, <1>2, RowRequeued DEF AlarmInv, Pending
    <2> QED
      BY <1>7, <2>1 DEF AlarmInv
  <1> QED
    BY <1>1, <1>5, <1>6, <1>7

\* After an eviction the pass is repeated, or an alarm set meanwhile comes up.
LEMMA EvictCovers ==
    ASSUME TypeInv, NEW id \in Ids, AlarmInv(id), Evict
    PROVE  AlarmInv(id)'
  <1>1. pc' = "idle" /\ inbox' = inbox /\ lapsed' = lapsed
    BY DEF Evict
  <1>2. alarm \in Time /\ inbox[id].next \in Time /\ inbox[id].purge \in Time
    BY DEF TypeInv, TypeOK, Row
  <1>3. CASE pc # "idle" /\ alarm = Null
    <2>1. alarm' = 0
      BY <1>3 DEF Evict
    <2> QED
      BY <1>1, <1>2, <2>1 DEF AlarmInv, Covered, Pending, Slack
  <1>4. CASE ~(pc # "idle" /\ alarm = Null)
    <2>1. alarm' = alarm
      BY <1>4 DEF Evict
    <2> QED
      BY <1>1, <1>2, <1>4, <2>1 DEF AlarmInv, Covered, Pending, Slack, Time
  <1> QED
    BY <1>3, <1>4

\* A pass that went well arms for the first of all times, one that did not for
\* AlarmRetry.
LEMMA RearmCovers ==
    ASSUME TypeInv, NEW id \in Ids, AlarmInv(id), Rearm
    PROVE  AlarmInv(id)'
  <1>1. pc' = "idle" /\ inbox' = inbox
    BY DEF Rearm
  <1>2. inbox[id].next \in Time /\ inbox[id].purge \in Time
    BY DEF TypeInv, TypeOK, Row
  <1>3. /\ Pending(id) => inbox[id].next \in Agenda
        /\ inbox[id].purge # Null => inbox[id].purge \in Agenda
    BY DEF Agenda
  <1>4. \/ Agenda = {}
        \/ \E t \in Agenda : (\A u \in Agenda : NoLater(t, u)) /\ alarm' = t
        \/ alarm' = AlarmRetry
        \/ lapsed' = TRUE
    BY DEF Rearm
  <1>5. CASE Agenda = {}
    BY <1>1, <1>3, <1>5 DEF AlarmInv, Pending
  <1>6. CASE \E t \in Agenda : (\A u \in Agenda : NoLater(t, u)) /\ alarm' = t
    <2>1. \A u \in Agenda : alarm' # Null /\ alarm' <= u
      BY <1>6 DEF NoLater
    <2> QED
      BY <1>1, <1>3, <2>1 DEF AlarmInv, Covered, Pending
  <1>7. CASE alarm' = AlarmRetry
    BY <1>1, <1>7 DEF AlarmInv, Covered, Pending, Slack
  <1>8. CASE lapsed' = TRUE
    BY <1>1, <1>8 DEF AlarmInv, Pending
  <1> QED
    BY <1>4, <1>5, <1>6, <1>7, <1>8

\* As time passes, an alarm set in time stays so until it is due.
LEMMA AlarmTicks ==
    ASSUME TypeInv, NEW id \in Ids, AlarmInv(id), Tick
    PROVE  AlarmInv(id)'
  <1>1. alarm \in Time /\ inbox[id] \in Row
    BY DEF TypeInv, TypeOK
  <1>2. /\ inbox'[id] = Aged(inbox[id]) /\ alarm' = Elapse(alarm)
        /\ pc' = pc /\ lapsed' = lapsed
    BY DEF Tick, TypeInv, TypeOK, passVars
  <1>3. inbox[id].next \in Time /\ inbox[id].purge \in Time
    BY <1>1 DEF Row
  <1>4. /\ inbox'[id].status = inbox[id].status
        /\ inbox'[id].next = Elapse(inbox[id].next) /\ inbox'[id].purge = Elapse(inbox[id].purge)
        /\ inbox'[id].next = Null <=> inbox[id].next = Null
        /\ inbox'[id].purge = Null <=> inbox[id].purge = Null
    BY <1>1, <1>2, RowAged
  <1>5. pc = "idle" /\ ~lapsed /\ Pending(id) => Covered(inbox[id].next)'
    BY <1>3, <1>4, CoveredAges DEF AlarmInv, Covered, Time, Slack
  <1>6. pc = "idle" /\ ~lapsed /\ inbox[id].purge # Null => Covered(inbox[id].purge)'
    BY <1>3, <1>4, CoveredAges DEF AlarmInv, Covered, Time, Slack
  <1>7. pc # "idle" /\ alarm' # Null => alarm' <= DeliveryDelay
    BY <1>1, <1>2 DEF AlarmInv, Elapse, Time
  <1> QED
    BY <1>2, <1>4, <1>5, <1>6, <1>7 DEF AlarmInv, Pending

\* Every step keeps the alarm in time, or notes that setAlarm failed.
LEMMA AlarmNext ==
    ASSUME TypeInv, NEW id \in Ids, AlarmInv(id), [Next]_vars
    PROVE  AlarmInv(id)'
  <1> USE DEF AlarmInv, Covered, passVars, history, alarmVars, Present, Pending
  <1>t. /\ inbox \in [Ids -> Row] /\ seen \in [Ids -> Row \cup {Null}]
        /\ call \in [Ids -> {"none", "stored", "done", "failed"}]
        /\ removing \in [Ids -> {"no", "object", "row"}]
        /\ objects \subseteq Ids /\ expired \subseteq Ids
        /\ taken \subseteq Ids /\ waived \subseteq Ids
        /\ verdict \in Outcome \cup {"none"}
        /\ pc \in {"posting", "answered"} => cur \in Ids /\ seen[cur] # Null
        /\ pc = "answered" => verdict \in Outcome
    BY DEF TypeInv, TypeOK, LocalsOK
  <1>r. \A i \in Ids : seen[i] # Null => seen[i].attempts \in Nat
    BY <1>t DEF Row
  <1>1. ASSUME NEW other \in Ids, Put(other) PROVE AlarmInv(id)'
    BY <1>t, <1>1 DEF Put
  <1>2. ASSUME NEW other \in Ids, Enqueue(other) PROVE AlarmInv(id)'
    <2>1. /\ Insert(other) /\ pc' = pc
          /\ \/ alarm' = ArmedFor(other) /\ lapsed' = lapsed
             \/ alarm' = alarm /\ lapsed' = TRUE
      BY <1>2 DEF Enqueue
    <2>2. CASE alarm' = ArmedFor(other) /\ lapsed' = lapsed
      BY <2>1, <2>2, InsertCovers
    <2>3. CASE alarm' = alarm /\ lapsed' = TRUE
      <3>1. Queued.next # Null
        BY RowQueued DEF FirstAttempt
      <3> QED
        BY <1>t, <2>1, <2>3, <3>1 DEF Insert
    <2> QED
      BY <2>1, <2>2, <2>3
  <1>3. ASSUME NEW other \in Ids, EnqueueLost(other) PROVE AlarmInv(id)'
    <2>1. CASE UNCHANGED <<inbox, alarm>>
      BY <1>3, <2>1 DEF EnqueueLost
    <2>2. CASE Insert(other) /\ alarm' = ArmedFor(other)
      <3>1. pc' = pc /\ lapsed' = lapsed
        BY <1>3 DEF EnqueueLost
      <3> QED
        BY <2>2, <3>1, InsertCovers
    <2> QED
      BY <1>3, <2>1, <2>2 DEF EnqueueLost
  <1>4. CASE PassStart
    <2>1. inbox' = inbox /\ alarm' = Null /\ pc' \in {"deliver", "purge"}
      BY <1>4 DEF PassStart
    <2> QED
      BY <2>1
  <1>5. ASSUME NEW other \in Ids, GetObject(other) PROVE AlarmInv(id)'
    BY <1>t, <1>5 DEF GetObject, Turn
  <1>6. ASSUME NEW other \in Ids, ObjectMissing(other) PROVE AlarmInv(id)'
    <2>1. /\ seen[other] # Null /\ settle(other, "dead", TRUE) /\ NextRow(other)
          /\ pc = "deliver" /\ alarm' = alarm
      BY <1>6 DEF ObjectMissing, Turn
    <2>2. AttemptEnds(id, other, "dead", TRUE)
      BY <2>1, AttemptEffect
    <2> QED
      BY <2>1, <2>2 DEF AttemptEnds
  <1>7. ASSUME NEW other \in Ids, GetObjectFails(other) PROVE AlarmInv(id)'
    BY <1>t, <1>7 DEF GetObjectFails, Turn, NextRow
  <1>8. ASSUME NEW status \in Answers \cup {NoStatus}, OdooAnswers(status) PROVE AlarmInv(id)'
    BY <1>t, <1>8 DEF OdooAnswers
  <1>9. CASE SettleAttempt
    <2>1. /\ cur \in Ids /\ seen[cur] # Null /\ verdict \in Outcome
          /\ settle(cur, verdict, FALSE) /\ NextRow(cur)
          /\ pc = "answered" /\ alarm' = alarm
      BY <1>t, <1>9 DEF SettleAttempt
    <2>2. AttemptEnds(id, cur, verdict, FALSE)
      BY <2>1, AttemptEffect
    <2> QED
      BY <2>1, <2>2 DEF AttemptEnds, Outcome
  <1>10. CASE PurgeSelect
    <2>1. inbox' = inbox /\ alarm' = alarm /\ pc = "purge" /\ pc' \in {"purging", "rearm"}
      BY <1>10 DEF PurgeSelect
    <2> QED
      BY <2>1
  <1>11. CASE PurgeObjects
    BY <1>t, <1>11 DEF PurgeObjects
  <1>12. CASE PurgeRows
    BY <1>t, <1>12, AbsentType DEF PurgeRows
  <1>13. CASE Rearm
    BY <1>13, RearmCovers
  <1>14. ASSUME NEW other \in Ids, Retry(other) PROVE AlarmInv(id)'
    <2>1. Requeue({other}) /\ pc' = pc
      BY <1>14 DEF Retry
    <2> QED
      BY <2>1, RequeueCovers
  <1>15. ASSUME NEW status \in {"dead", "rejected"}, RetryAll(status) PROVE AlarmInv(id)'
    <2>1. pc' = pc /\ \E S \in SUBSET Ids : Requeue(S)
      BY <1>15 DEF RetryAll
    <2> QED
      BY <2>1, RequeueCovers
  <1>16. ASSUME NEW other \in Ids, RemoveStart(other) PROVE AlarmInv(id)'
    BY <1>t, <1>16 DEF RemoveStart
  <1>17. ASSUME NEW other \in Ids, RemoveObject(other) PROVE AlarmInv(id)'
    BY <1>t, <1>17 DEF RemoveObject
  <1>18. ASSUME NEW other \in Ids, RemoveRow(other) PROVE AlarmInv(id)'
    BY <1>t, <1>18, AbsentType DEF RemoveRow
  <1>19. ASSUME NEW other \in Ids, HandDelete(other) PROVE AlarmInv(id)'
    BY <1>t, <1>19 DEF HandDelete
  <1>20. CASE Crash
    BY <1>20, EvictCovers DEF Crash
  <1>21. CASE BreakConfig
    BY <1>21, EvictCovers DEF BreakConfig
  <1>22. CASE FixConfig
    BY <1>22, EvictCovers DEF FixConfig
  <1>23. CASE Tick
    BY <1>23, AlarmTicks
  <1>24. CASE UNCHANGED vars
    BY <1>t, <1>24 DEF vars
  <1> HIDE DEF AlarmInv, Covered, passVars, history, alarmVars, Present, Pending
  <1> QED
    BY <1>1, <1>2, <1>3, <1>4, <1>5, <1>6, <1>7, <1>8, <1>9, <1>10, <1>11, <1>12,
       <1>13, <1>14, <1>15, <1>16, <1>17, <1>18, <1>19, <1>20, <1>21, <1>22, <1>23, <1>24
       DEF Next, Email, Pass, Operator, Platform

AlarmSafety == TypeInv /\ \A id \in Ids : AlarmInv(id)

\* Between passes the alarm is in time for every pending row and every purge,
\* unless a write of the alarm itself failed and no pass has made up for it.
THEOREM AlarmAlwaysCovers == Spec => []AlarmCovers
  <1>1. Init => AlarmSafety
    <2> SUFFICES ASSUME Init, NEW id \in Ids PROVE AlarmInv(id)
      BY TypeInit DEF AlarmSafety
    <2>1. inbox[id].status = "absent" /\ inbox[id].purge = Null /\ pc = "idle"
      BY AbsentType DEF Init
    <2> QED
      BY <2>1 DEF AlarmInv, Pending
  <1>2. AlarmSafety /\ [Next]_vars => AlarmSafety'
    BY TypeNext, AlarmNext DEF AlarmSafety
  <1>3. AlarmSafety => AlarmCovers
    BY DEF AlarmSafety, AlarmInv, AlarmCovers, Agenda, Covered
  <1> QED
    BY <1>1, <1>2, <1>3, PTL DEF Spec
=============================================================================
