------------------------- MODULE EmailWorkerProofs --------------------------
(***************************************************************************)
(* Proofs about EmailWorker for every number of mails and ids, above all   *)
(* that it implements MailCustody.  A mail has at most one id on its way   *)
(* and, once accepted, an id whose email() returned; the invariant of the  *)
(* queue then says where that one is.                                      *)
(***************************************************************************)
EXTENDS EmailWorker, InboxQueueProofs

\* An id that was minted has its mail.  A call in progress is the one its sender
\* waits for, and a call that returned is the one its sender relies on.
CallsKnown ==
    /\ \A id \in Ids :
          /\ call[id] # "none" => mailOf[id] \in Mails
          /\ call[id] = "stored" => sender[mailOf[id]] = "transmitting"
          /\ call[id] = "done" => sender[mailOf[id]] = "accepted"
    /\ \A id, other \in Ids :
          call[id] = "stored" /\ call[other] = "stored" /\ mailOf[id] = mailOf[other]
              => id = other
    /\ \A m \in Mails : sender[m] = "accepted" => AcceptedAs(m) # {}

\* Nothing is taken before it was queued.
TakenLater == \A id \in Ids : call[id] \in {"none", "stored"} => id \notin taken

WorkerInv == SafetyInv /\ WorkerTypeOK /\ CallsKnown /\ TakenLater

-----------------------------------------------------------------------------
\* Nothing was sent yet.
LEMMA WorkerInitInv == WorkerInit => WorkerInv
<1> SUFFICES ASSUME WorkerInit PROVE WorkerInv
  OBVIOUS
<1>1. SafetyInv
  BY SafetyInit DEF WorkerInit
<1>2. WorkerTypeOK
  BY <1>1 DEF WorkerInit, WorkerTypeOK, SafetyInv, TypeInv
<1>3. CallsKnown /\ TakenLater
  BY DEF WorkerInit, Init, CallsKnown, TakenLater
<1> QED
  BY <1>1, <1>2, <1>3 DEF WorkerInv

\* What the steps behind email() do to what MailCustody looks at: they drop
\* objects, or take one message, or give one up.
QueueEffect ==
    \/ taken' = taken /\ waived' = waived /\ objects' \subseteq objects
    \/ taken' = taken \cup {cur} /\ pc = "posting" /\ waived' = waived /\ objects' = objects
    \/ /\ taken' = taken
       /\ \E id \in Ids : waived' = waived \cup {id} /\ objects' \in {objects, objects \ {id}}

LEMMA QueueSteps ==
    ASSUME Pass \/ Operator \/ Platform
    PROVE  call' = call /\ QueueEffect
<1>1. ASSUME \/ PassStart \/ SettleAttempt \/ PurgeSelect \/ PurgeRows \/ Rearm
             \/ \E id \in Ids : GetObject(id) \/ ObjectMissing(id) \/ GetObjectFails(id)
             \/ Tick
             \/ \E id \in Ids : Retry(id) \/ RemoveRow(id)
             \/ \E status \in {"dead", "rejected"} : RetryAll(status)
      PROVE  UNCHANGED <<call, objects, taken, waived>>
  BY <1>1, Zenon DEF PassStart, SettleAttempt, PurgeSelect, PurgeRows, Rearm, GetObject,
     ObjectMissing, GetObjectFails, Tick, Retry, RemoveRow, RetryAll, history
<1>2. ASSUME PurgeObjects PROVE UNCHANGED <<call, taken, waived>> /\ objects' \subseteq objects
  BY <1>2 DEF PurgeObjects, history
<1>3. ASSUME NEW id \in Ids, RemoveObject(id)
      PROVE  UNCHANGED <<call, taken, waived>> /\ objects' \subseteq objects
  BY <1>3 DEF RemoveObject, history
<1>4. ASSUME NEW id \in Ids, RemoveStart(id) \/ HandDelete(id) PROVE call' = call /\ QueueEffect
  BY <1>4, Zenon DEF RemoveStart, HandDelete, QueueEffect, history
<1>5. ASSUME NEW status, OdooAnswers(status) PROVE call' = call /\ QueueEffect
  <2>1. pc = "posting" /\ UNCHANGED <<call, objects, waived>>
    BY <1>5, Zenon DEF OdooAnswers
  <2>2. taken' = taken \/ taken' = taken \cup {cur}
    BY <1>5 DEF OdooAnswers, TakenAfter
  <2> QED
    BY <2>1, <2>2 DEF QueueEffect
<1>6. ASSUME Crash \/ BreakConfig \/ FixConfig PROVE call' = call /\ QueueEffect
  BY <1>6 DEF Crash, BreakConfig, FixConfig, Evict, QueueEffect
<1>7. UNCHANGED <<taken, waived>> /\ objects' \subseteq objects => QueueEffect
  BY Zenon DEF QueueEffect
<1>8. UNCHANGED <<objects, taken, waived>> => QueueEffect
  BY DEF QueueEffect
<1> QED
  BY <1>1, <1>2, <1>3, <1>4, <1>5, <1>6, <1>7, <1>8, Zenon DEF Pass, Operator, Platform

\* Every step of the Worker is one of the queue's.
LEMMA WorkerIsQueue == [WorkerNext]_workerVars => [Next]_vars
<1>1. ASSUME NEW m \in Mails, NEW id \in Ids, StoreMail(m, id) PROVE Next
  BY <1>1, Zenon DEF StoreMail, Next, Email
<1>2. ASSUME NEW id \in Ids, QueueMail(id) PROVE Next
  BY <1>2, Zenon DEF QueueMail, Next, Email
<1> QED
  BY <1>1, <1>2, Zenon
  DEF WorkerNext, RejectEnvelope, SenderGivesUp, Next, workerVars

\* A new message: its sender waited for no other, and none of its ids returned.
LEMMA StoreKeeps ==
    ASSUME WorkerInv, NEW m \in Mails, NEW id \in Ids, StoreMail(m, id)
    PROVE  WorkerTypeOK' /\ CallsKnown' /\ TakenLater'
<1> USE MailsAssumption
<1>1. /\ sender[m] \in {"outbox", "deferred"} /\ mailOf[id] = Null /\ call[id] = "none"
      /\ mailOf' = [mailOf EXCEPT ![id] = m] /\ taken' = taken
      /\ \/ /\ call' = [call EXCEPT ![id] = "stored"]
            /\ sender' = [sender EXCEPT ![m] = "transmitting"]
         \/ /\ call' = [call EXCEPT ![id] = "failed"]
            /\ sender' = [sender EXCEPT ![m] = "deferred"]
  <2>1. /\ sender[m] \in {"outbox", "deferred"} /\ mailOf[id] = Null /\ Put(id)
        /\ mailOf' = [mailOf EXCEPT ![id] = m]
        /\ sender' = [sender EXCEPT ![m] = IF call'[id] = "failed" THEN "deferred"
                                           ELSE "transmitting"]
    BY Zenon DEF StoreMail
  <2>2. /\ call[id] = "none" /\ taken' = taken
        /\ call' = [call EXCEPT ![id] = "stored"] \/ call' = [call EXCEPT ![id] = "failed"]
    BY <2>1, Zenon DEF Put, history
  <2>3. call \in [Ids -> {"none", "stored", "done", "failed"}]
    BY DEF WorkerInv, WorkerTypeOK, TypeOK
  <2> QED
    BY <2>1, <2>2, <2>3
<1>2. /\ call \in [Ids -> {"none", "stored", "done", "failed"}]
      /\ sender \in [Mails -> {"outbox", "transmitting", "deferred", "accepted", "bounced"}]
      /\ mailOf \in [Ids -> Mails \cup {Null}]
  BY DEF WorkerInv, WorkerTypeOK, TypeOK
<1>3. WorkerTypeOK'
  <2>1. TypeOK'
    BY SafetyNext, WorkerIsQueue, Zenon DEF WorkerInv, WorkerNext, SafetyInv, TypeInv
  <2> QED
    BY <1>1, <1>2, <2>1 DEF WorkerTypeOK
<1>4. \A other \in Ids : mailOf[other] = m => call[other] \notin {"stored", "done"}
  BY <1>1 DEF WorkerInv, CallsKnown
<1>5. CallsKnown'
  <2>1. ASSUME NEW other \in Ids
        PROVE  /\ call'[other] # "none" => mailOf'[other] \in Mails
               /\ call'[other] = "stored" => sender'[mailOf'[other]] = "transmitting"
               /\ call'[other] = "done" => sender'[mailOf'[other]] = "accepted"
    BY <1>1, <1>2, <1>4 DEF WorkerInv, CallsKnown
  <2>2. ASSUME NEW i \in Ids, NEW j \in Ids, call'[i] = "stored", call'[j] = "stored",
               mailOf'[i] = mailOf'[j]
        PROVE  i = j
    BY <1>1, <1>2, <1>4, <2>2 DEF WorkerInv, CallsKnown
  <2>3. ASSUME NEW n \in Mails, sender'[n] = "accepted" PROVE AcceptedAs(n)' # {}
    <3>1. sender[n] = "accepted" /\ n # m
      BY <1>1, <1>2, <2>3
    <3>2. PICK other \in Ids : mailOf[other] = n /\ call[other] = "done"
      BY <3>1 DEF WorkerInv, CallsKnown, AcceptedAs
    <3>3. mailOf'[other] = n /\ call'[other] = "done"
      BY <1>1, <1>2, <3>2
    <3> QED
      BY <3>3 DEF AcceptedAs
  <2> QED
    BY <2>1, <2>2, <2>3 DEF CallsKnown
<1>6. TakenLater'
  BY <1>1, <1>2 DEF WorkerInv, TakenLater
<1> QED
  BY <1>3, <1>5, <1>6

\* What the end of email() does: the call of the one id on its way ends.
QueueOutcome(id) ==
    /\ call[id] = "stored" /\ taken' = taken /\ waived' = waived /\ objects' = objects
    /\ mailOf' = mailOf
    /\ \/ /\ call' = [call EXCEPT ![id] = "done"]
          /\ sender' = [sender EXCEPT ![mailOf[id]] = "accepted"]
       \/ /\ call' = [call EXCEPT ![id] = "failed"]
          /\ sender' = [sender EXCEPT ![mailOf[id]] = "deferred"]

LEMMA QueueMailEnds ==
    ASSUME WorkerInv, NEW id \in Ids, QueueMail(id)
    PROVE  QueueOutcome(id)
<1>1. call \in [Ids -> {"none", "stored", "done", "failed"}]
  BY DEF WorkerInv, WorkerTypeOK, TypeOK
<1>2. /\ call[id] = "stored"
      /\ call' = [call EXCEPT ![id] = "done"] \/ call' = [call EXCEPT ![id] = "failed"]
      /\ taken' = taken /\ waived' = waived /\ objects' = objects
  BY Zenon DEF QueueMail, Enqueue, EnqueueLost, history
<1>3. /\ mailOf' = mailOf
      /\ sender' = [sender EXCEPT ![mailOf[id]] = IF call'[id] = "done" THEN "accepted"
                                                  ELSE "deferred"]
  BY Zenon DEF QueueMail
<1> QED
  BY <1>1, <1>2, <1>3 DEF QueueOutcome

\* email() returns or throws, and nobody else waits for that mail.
LEMMA QueueKeeps ==
    ASSUME WorkerInv, NEW id \in Ids, QueueMail(id)
    PROVE  WorkerTypeOK' /\ CallsKnown' /\ TakenLater'
<1>1. QueueOutcome(id)
  BY QueueMailEnds
<1>2. /\ call \in [Ids -> {"none", "stored", "done", "failed"}]
      /\ sender \in [Mails -> {"outbox", "transmitting", "deferred", "accepted", "bounced"}]
      /\ mailOf \in [Ids -> Mails \cup {Null}]
      /\ mailOf[id] \in Mails
  BY <1>1 DEF WorkerInv, WorkerTypeOK, TypeOK, CallsKnown, QueueOutcome
<1>3. WorkerTypeOK'
  <2>1. TypeOK'
    BY SafetyNext, WorkerIsQueue, Zenon DEF WorkerInv, WorkerNext, SafetyInv, TypeInv
  <2> QED
    BY <1>1, <1>2, <2>1 DEF WorkerTypeOK, QueueOutcome
<1>4. \A other \in Ids \ {id} :
          mailOf[other] = mailOf[id] => call[other] \notin {"stored", "done"}
  BY <1>1 DEF WorkerInv, CallsKnown, QueueOutcome
<1>5. CallsKnown'
  <2>1. ASSUME NEW other \in Ids
        PROVE  /\ call'[other] # "none" => mailOf'[other] \in Mails
               /\ call'[other] = "stored" => sender'[mailOf'[other]] = "transmitting"
               /\ call'[other] = "done" => sender'[mailOf'[other]] = "accepted"
    BY <1>1, <1>2, <1>4 DEF WorkerInv, CallsKnown, QueueOutcome
  <2>2. ASSUME NEW i \in Ids, NEW j \in Ids, call'[i] = "stored", call'[j] = "stored",
               mailOf'[i] = mailOf'[j]
        PROVE  i = j
    BY <1>1, <1>2, <2>2 DEF WorkerInv, CallsKnown, QueueOutcome
  <2>3. ASSUME NEW n \in Mails, sender'[n] = "accepted" PROVE AcceptedAs(n)' # {}
    <3>1. CASE n = mailOf[id]
      <4>1. call'[id] = "done" /\ mailOf'[id] = n
        BY <1>1, <1>2, <2>3, <3>1 DEF QueueOutcome
      <4> QED
        BY <4>1 DEF AcceptedAs
    <3>2. CASE n # mailOf[id]
      <4>1. sender[n] = "accepted"
        BY <1>1, <1>2, <2>3, <3>2 DEF QueueOutcome
      <4>2. PICK other \in Ids : mailOf[other] = n /\ call[other] = "done"
        BY <4>1 DEF WorkerInv, CallsKnown, AcceptedAs
      <4>3. mailOf'[other] = n /\ call'[other] = "done"
        BY <1>1, <1>2, <4>2 DEF QueueOutcome
      <4> QED
        BY <4>3 DEF AcceptedAs
    <3> QED
      BY <3>1, <3>2
  <2> QED
    BY <2>1, <2>2, <2>3 DEF CallsKnown
<1>6. TakenLater'
  BY <1>1, <1>2 DEF WorkerInv, TakenLater, QueueOutcome
<1> QED
  BY <1>3, <1>5, <1>6

\* Every step keeps the invariant.
LEMMA WorkerNextInv == WorkerInv /\ [WorkerNext]_workerVars => WorkerInv'
<1> SUFFICES ASSUME WorkerInv, [WorkerNext]_workerVars PROVE WorkerInv'
  OBVIOUS
<1>1. SafetyInv'
  BY SafetyNext, WorkerIsQueue DEF WorkerInv
<1>2. TypeOK'
  BY <1>1 DEF SafetyInv, TypeInv
<1>3. /\ call \in [Ids -> {"none", "stored", "done", "failed"}]
      /\ sender \in [Mails -> {"outbox", "transmitting", "deferred", "accepted", "bounced"}]
      /\ mailOf \in [Ids -> Mails \cup {Null}]
  BY DEF WorkerInv, WorkerTypeOK, TypeOK
<1>4. ASSUME NEW m \in Mails, RejectEnvelope(m) \/ SenderGivesUp(m)
      PROVE  WorkerTypeOK' /\ CallsKnown' /\ TakenLater'
  <2>1. /\ sender[m] \in {"outbox", "deferred"} /\ sender' = [sender EXCEPT ![m] = "bounced"]
        /\ call' = call /\ mailOf' = mailOf /\ taken' = taken
    BY <1>4 DEF RejectEnvelope, SenderGivesUp, vars, history
  <2>2. \A n : AcceptedAs(n)' = AcceptedAs(n)
    BY <2>1 DEF AcceptedAs
  <2>3. WorkerTypeOK'
    BY <1>2, <1>3, <2>1 DEF WorkerTypeOK
  <2> QED
    BY <1>3, <2>1, <2>2, <2>3 DEF WorkerInv, CallsKnown, TakenLater
<1>5. ASSUME Pass \/ Operator \/ Platform, UNCHANGED <<sender, mailOf>>
      PROVE  WorkerTypeOK' /\ CallsKnown' /\ TakenLater'
  <2>1. call' = call /\ QueueEffect
    BY <1>5, QueueSteps
  <2>2. \A n : AcceptedAs(n)' = AcceptedAs(n)
    BY <1>5, <2>1 DEF AcceptedAs
  <2>3. WorkerTypeOK' /\ CallsKnown'
    BY <1>2, <1>3, <1>5, <2>1, <2>2 DEF WorkerTypeOK, WorkerInv, CallsKnown
  <2>4. pc = "posting" => call[cur] \notin {"none", "stored"}
    BY DEF WorkerInv, SafetyInv, TypeInv, LocalsOK, ArrivalInv
  <2>5. TakenLater'
    BY <2>1, <2>4 DEF WorkerInv, TakenLater, QueueEffect
  <2> QED
    BY <2>3, <2>5
<1>6. ASSUME UNCHANGED workerVars PROVE WorkerTypeOK' /\ CallsKnown' /\ TakenLater'
  <2>1. call' = call /\ mailOf' = mailOf /\ taken' = taken /\ sender' = sender
    BY <1>6 DEF workerVars, vars, history
  <2>2. \A n : AcceptedAs(n)' = AcceptedAs(n)
    BY <2>1 DEF AcceptedAs
  <2> QED
    BY <1>2, <1>3, <2>1, <2>2 DEF WorkerTypeOK, WorkerInv, CallsKnown, TakenLater
<1> QED
  BY <1>1, <1>4, <1>5, <1>6, StoreKeeps, QueueKeeps, Zenon DEF WorkerNext, WorkerInv

\* The invariant holds in every reachable state.
THEOREM WorkerInvariant == WorkerSpec => []WorkerInv
  BY WorkerInitInv, WorkerNextInv, PTL DEF WorkerSpec

\* Type correctness of the Worker with the mails it is sent.
THEOREM WorkerTypeCorrect == WorkerSpec => []WorkerTypeOK
<1>1. WorkerInv => WorkerTypeOK
  BY DEF WorkerInv
<1> QED
  BY <1>1, WorkerInvariant, PTL

\* email() as the MTA drives it, with a new id for every invocation, does to the
\* queue what InboxQueue lets it do (handlers/email.ts:63-84): all that is proved
\* of InboxQueue holds here.
THEOREM QueueImplemented == WorkerSpec => Spec
<1>1. WorkerInit => Init
  BY DEF WorkerInit
<1> QED
  BY <1>1, WorkerIsQueue, PTL DEF WorkerSpec, Spec

-----------------------------------------------------------------------------
(* Custody. *)

\* Where an accepted mail is, by the invariant of the queue.
Located ==
    \A m \in Mails :
        /\ OwnerOf(m) = "sender" <=> sender[m] # "accepted"
        /\ OwnerOf(m) \in {"sender", "worker", "operator", "odoo"}
        /\ OwnerOf(m) = "worker" => CopyOf(m)
        /\ CopyOf(m) => OwnerOf(m) # "sender"

LEMMA WhereItIs == WorkerInv => Located
<1> SUFFICES ASSUME WorkerInv, NEW m \in Mails, sender[m] = "accepted",
                    AcceptedAs(m) \cap taken = {}, AcceptedAs(m) \cap waived = {}
             PROVE  AcceptedAs(m) \cap objects # {}
  BY DEF Located, OwnerOf, CopyOf
<1>1. PICK id \in Ids : mailOf[id] = m /\ call[id] = "done"
  BY DEF WorkerInv, CallsKnown, AcceptedAs
<1>2. id \in AcceptedAs(m) /\ ~Settling(id)
  BY <1>1 DEF AcceptedAs, Settling
<1>3. id \in objects
  BY <1>1, <1>2 DEF WorkerInv, SafetyInv, CustodyInv, Kept
<1> QED
  BY <1>2, <1>3

LEMMA WhereItIsNext == WorkerInv' => Located'
  BY WhereItIs, PTL

\* Nothing is taken and nobody gives a mail up: copies only go, and only those
\* that are not needed.
LEMMA DiscardStep ==
    ASSUME Located, Located',
           \A m \in Mails : OwnerOf(m)' = OwnerOf(m),
           \A m \in Mails : CopyOf(m)' => CopyOf(m)
    PROVE  Promise!CustodyNext
<1> DEFINE gone == {m \in Mails : CopyOf(m) /\ ~CopyOf(m)'}
<1>1. \A m \in gone : OwnerOf(m) \in {"odoo", "operator"}
  BY DEF Located
<1>2. \A m \in Mails : CopyOf(m)' = IF m \in gone THEN FALSE ELSE CopyOf(m)
  BY DEF CopyOf
<1>3. Promise!Discard(gone)
  BY <1>1, <1>2 DEF Promise!Discard
<1> QED
  BY <1>3 DEF Promise!CustodyNext

\* Odoo takes a message: custody of its mail goes to Odoo, unless it has it.
LEMMA TakenStep ==
    ASSUME Located, Located', NEW id \in Ids,
           UNCHANGED <<sender, mailOf, call, waived, objects>>, taken' = taken \cup {id}
    PROVE  Promise!CustodyNext
<1>1. \A n \in Mails : AcceptedAs(n)' = AcceptedAs(n) /\ CopyOf(n)' = CopyOf(n)
  BY DEF AcceptedAs, CopyOf
<1>2. CASE \E m \in Mails : /\ sender[m] = "accepted" /\ id \in AcceptedAs(m)
                            /\ AcceptedAs(m) \cap taken = {}
  <2>1. PICK m \in Mails : /\ sender[m] = "accepted" /\ id \in AcceptedAs(m)
                           /\ AcceptedAs(m) \cap taken = {}
    BY <1>2
  <2>2. OwnerOf(m) \in {"worker", "operator"}
    BY <2>1 DEF OwnerOf
  <2>3. OwnerOf(m)' = "odoo"
    BY <1>1, <2>1 DEF OwnerOf
  <2>4. \A n \in Mails \ {m} : id \notin AcceptedAs(n)
    BY <2>1 DEF AcceptedAs
  <2>5. \A n \in Mails \ {m} : OwnerOf(n)' = OwnerOf(n)
    BY <1>1, <2>4 DEF OwnerOf
  <2>6. Promise!Deliver(m)
    BY <1>1, <2>2, <2>3, <2>5 DEF Promise!Deliver
  <2> QED
    BY <2>6 DEF Promise!CustodyNext
<1>3. CASE ~\E m \in Mails : /\ sender[m] = "accepted" /\ id \in AcceptedAs(m)
                             /\ AcceptedAs(m) \cap taken = {}
  <2>1. \A n \in Mails : OwnerOf(n)' = OwnerOf(n)
    BY <1>1, <1>3 DEF OwnerOf
  <2> QED
    BY <1>1, <2>1, DiscardStep
<1> QED
  BY <1>2, <1>3

\* A message is given up: custody of its mail goes to the operator, unless Odoo
\* has it.
LEMMA WaivedStep ==
    ASSUME Located, Located', NEW id \in Ids,
           UNCHANGED <<sender, mailOf, call, taken>>, waived' = waived \cup {id},
           objects' \in {objects, objects \ {id}}
    PROVE  Promise!CustodyNext
<1>1. \A n \in Mails : AcceptedAs(n)' = AcceptedAs(n) /\ (CopyOf(n)' => CopyOf(n))
  BY DEF AcceptedAs, CopyOf
<1>2. CASE \E m \in Mails : OwnerOf(m) = "worker" /\ id \in AcceptedAs(m)
  <2>1. PICK m \in Mails : OwnerOf(m) = "worker" /\ id \in AcceptedAs(m)
    BY <1>2
  <2>2. OwnerOf(m)' = "operator"
    BY <1>1, <2>1 DEF OwnerOf
  <2>3. \A n \in Mails \ {m} : id \notin AcceptedAs(n)
    BY <2>1 DEF AcceptedAs
  <2>4. \A n \in Mails \ {m} : OwnerOf(n)' = OwnerOf(n) /\ CopyOf(n)' = CopyOf(n)
    BY <1>1, <2>3 DEF OwnerOf, CopyOf
  <2>5. CopyOf(m)' \in BOOLEAN /\ CopyOf(m)' = (CopyOf(m) /\ CopyOf(m)')
    BY <1>1 DEF CopyOf
  <2>6. Promise!GiveUp(m)
    BY <2>1, <2>2, <2>4, <2>5 DEF Promise!GiveUp
  <2> QED
    BY <2>6 DEF Promise!CustodyNext
<1>3. CASE ~\E m \in Mails : OwnerOf(m) = "worker" /\ id \in AcceptedAs(m)
  <2>1. \A n \in Mails : OwnerOf(n)' = OwnerOf(n)
    BY <1>1, <1>3 DEF OwnerOf
  <2> QED
    BY <1>1, <2>1, DiscardStep
<1> QED
  BY <1>2, <1>3

\* email() returns and the sender is told 250; or it throws, and nothing changes.
LEMMA AcceptStep ==
    ASSUME WorkerInv, Located, Located', NEW id \in Ids, QueueOutcome(id)
    PROVE  Promise!CustodyNext
<1>1. /\ call \in [Ids -> {"none", "stored", "done", "failed"}]
      /\ sender \in [Mails -> {"outbox", "transmitting", "deferred", "accepted", "bounced"}]
      /\ mailOf[id] \in Mails /\ sender[mailOf[id]] = "transmitting"
      /\ call[id] = "stored" /\ id \notin taken
      /\ UNCHANGED <<taken, waived, objects, mailOf>>
  BY DEF WorkerInv, WorkerTypeOK, TypeOK, CallsKnown, TakenLater, QueueOutcome
<1>2. \A n \in Mails \ {mailOf[id]} : AcceptedAs(n)' = AcceptedAs(n) /\ sender'[n] = sender[n]
  BY <1>1 DEF AcceptedAs, QueueOutcome
<1>3. \A n \in Mails \ {mailOf[id]} : OwnerOf(n)' = OwnerOf(n) /\ CopyOf(n)' = CopyOf(n)
  BY <1>1, <1>2 DEF OwnerOf, CopyOf
<1>4. OwnerOf(mailOf[id]) = "sender" /\ CopyOf(mailOf[id]) = FALSE
  BY <1>1 DEF OwnerOf, CopyOf
<1>5. CASE sender' = [sender EXCEPT ![mailOf[id]] = "accepted"]
  <2> DEFINE m == mailOf[id]
  <2>1. AcceptedAs(m)' = {id}
    <3>1. call' = [call EXCEPT ![id] = "done"]
      <4>1. sender'[m] = "accepted"
        BY <1>1, <1>5
      <4> QED
        BY <1>1, <4>1 DEF QueueOutcome
    <3>2. \A other \in Ids : mailOf[other] = m => call[other] # "done"
      BY <1>1 DEF WorkerInv, CallsKnown
    <3> QED
      BY <1>1, <3>1, <3>2 DEF AcceptedAs
  <2>2. OwnerOf(m)' \in {"worker", "operator"}
    BY <1>1, <1>5, <2>1 DEF OwnerOf
  <2>3. (OwnerOf(m)' = "worker" => CopyOf(m)') /\ CopyOf(m)' \in BOOLEAN
    BY <1>1 DEF Located, CopyOf
  <2>4. Promise!Accept(m)
    <3>1. [n \in Mails |-> CopyOf(n)]' = [[n \in Mails |-> CopyOf(n)] EXCEPT ![m] = CopyOf(m)']
      BY <1>1, <1>3
    <3>2. [n \in Mails |-> OwnerOf(n)]' = [[n \in Mails |-> OwnerOf(n)] EXCEPT ![m] = OwnerOf(m)']
      BY <1>1, <1>3
    <3> QED
      BY <1>1, <1>4, <2>2, <2>3, <3>1, <3>2 DEF Promise!Accept
  <2> QED
    BY <1>1, <2>4 DEF Promise!CustodyNext
<1>6. CASE sender' = [sender EXCEPT ![mailOf[id]] = "deferred"]
  <2> DEFINE m == mailOf[id]
  <2>1. sender'[m] = "deferred"
    BY <1>1, <1>6
  <2>2. OwnerOf(m)' = "sender" /\ CopyOf(m)' = FALSE
    BY <1>1, <2>1 DEF OwnerOf, CopyOf
  <2>3. \A n \in Mails : OwnerOf(n)' = OwnerOf(n) /\ CopyOf(n)' = CopyOf(n)
    BY <1>1, <1>3, <1>4, <2>2
  <2> QED
    BY <2>3, DiscardStep
<1> QED
  BY <1>5, <1>6 DEF QueueOutcome

\* The gateway implements MailCustody, whatever fails and whatever Odoo answers:
\* a sender told 250 never has to send again, and only a commit in Odoo or an
\* operator ends custody (handlers/email.ts:21-34).
THEOREM CustodyImplemented == WorkerSpec => ImplementsCustody
<1>1. WorkerInit => Promise!CustodyInit
  BY DEF WorkerInit, Promise!CustodyInit, OwnerOf, CopyOf
<1>2. WorkerInv /\ WorkerInv' /\ [WorkerNext]_workerVars
          => [Promise!CustodyNext]_<<[m \in Mails |-> OwnerOf(m)], [m \in Mails |-> CopyOf(m)]>>
  <2> SUFFICES ASSUME WorkerInv, WorkerInv', [WorkerNext]_workerVars
               PROVE  Promise!CustodyNext
    OBVIOUS
  <2>1. Located /\ Located'
    BY WhereItIs, WhereItIsNext
  <2>2. ASSUME NEW m \in Mails, RejectEnvelope(m) \/ SenderGivesUp(m)
        PROVE  Promise!CustodyNext
    <3>1. /\ sender[m] \in {"outbox", "deferred"} /\ sender' = [sender EXCEPT ![m] = "bounced"]
          /\ UNCHANGED <<call, mailOf, taken, waived, objects>>
      BY <2>2 DEF RejectEnvelope, SenderGivesUp, vars, history
    <3>2. \A n \in Mails : sender'[n] = "accepted" <=> sender[n] = "accepted"
      BY <3>1 DEF WorkerInv, WorkerTypeOK
    <3>3. \A n \in Mails : OwnerOf(n)' = OwnerOf(n) /\ CopyOf(n)' = CopyOf(n)
      BY <3>1, <3>2 DEF OwnerOf, CopyOf, AcceptedAs
    <3> QED
      BY <2>1, <3>3, DiscardStep
  <2>3. ASSUME NEW m \in Mails, NEW id \in Ids, StoreMail(m, id)
        PROVE  Promise!CustodyNext
    <3>1. /\ sender[m] \in {"outbox", "deferred"} /\ mailOf[id] = Null
          /\ mailOf' = [mailOf EXCEPT ![id] = m]
          /\ sender'[m] # "accepted" /\ \A n \in Mails \ {m} : sender'[n] = sender[n]
      BY <2>3 DEF StoreMail, WorkerInv, WorkerTypeOK
    <3>2. /\ call[id] = "none" /\ UNCHANGED <<taken, waived>>
          /\ call' = [call EXCEPT ![id] = "stored"] \/ call' = [call EXCEPT ![id] = "failed"]
          /\ objects' \in {objects, objects \cup {id}}
      BY <2>3 DEF StoreMail, Put, history
    <3>3. \A n \in Mails : AcceptedAs(n)' = AcceptedAs(n) /\ id \notin AcceptedAs(n)
      BY <3>1, <3>2 DEF AcceptedAs, WorkerInv, WorkerTypeOK, TypeOK
    <3>4. \A n \in Mails : OwnerOf(n)' = OwnerOf(n) /\ CopyOf(n)' = CopyOf(n)
      BY <3>1, <3>2, <3>3 DEF OwnerOf, CopyOf
    <3> QED
      BY <2>1, <3>4, DiscardStep
  <2>4. ASSUME NEW id \in Ids, QueueMail(id) PROVE Promise!CustodyNext
    BY <2>1, <2>4, QueueMailEnds, AcceptStep
  <2>5. ASSUME Pass \/ Operator \/ Platform, UNCHANGED <<sender, mailOf>>
        PROVE  Promise!CustodyNext
    <3>1. call' = call /\ QueueEffect
      BY <2>5, QueueSteps
    <3>2. CASE taken' = taken /\ waived' = waived /\ objects' \subseteq objects
      <4>1. \A n \in Mails : OwnerOf(n)' = OwnerOf(n) /\ (CopyOf(n)' => CopyOf(n))
        BY <2>5, <3>1, <3>2 DEF OwnerOf, CopyOf, AcceptedAs
      <4> QED
        BY <2>1, <4>1, DiscardStep
    <3>3. pc = "posting" => cur \in Ids
      BY DEF WorkerInv, SafetyInv, TypeInv, LocalsOK
    <3> QED
      BY <2>1, <2>5, <3>1, <3>2, <3>3, TakenStep, WaivedStep DEF QueueEffect
  <2>6. ASSUME UNCHANGED workerVars PROVE Promise!CustodyNext
    <3>1. \A n \in Mails : OwnerOf(n)' = OwnerOf(n) /\ CopyOf(n)' = CopyOf(n)
      BY <2>6 DEF workerVars, vars, history, OwnerOf, CopyOf, AcceptedAs
    <3> QED
      BY <2>1, <3>1, DiscardStep
  <2> QED
    BY <2>2, <2>3, <2>4, <2>5, <2>6, Zenon DEF WorkerNext
<1> QED
  BY <1>1, <1>2, WorkerInvariant, PTL
  DEF WorkerSpec, ImplementsCustody, Promise!CustodySpec, Promise!custodyVars
=============================================================================
