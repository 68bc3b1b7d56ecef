--------------------------- MODULE GatewayProofs ----------------------------
(***************************************************************************)
(* Proofs about Gateway for every number of mails, ids and requests.  The  *)
(* composition implements EmailWorker, so that what is proved of the queue *)
(* holds here too, and keeps the invariant of the webhook; what joins the  *)
(* two is that alarm() takes the answer to the message it sent.            *)
(***************************************************************************)
EXTENDS Gateway, EmailWorkerProofs

Webhook == INSTANCE OdooInboundProofs WITH None <- Null

\* What an answered request may have been answered; 0 is an answer that was lost.
AnswersKnown ==
    \A r \in Requests : phase[r] = "answered" => reply[r] \in {0, 200, 401, 404, 422, 500}

\* The request alarm() awaits carries the message of its row.
AwaitedCarries ==
    pc = "posting" =>
        /\ cur \in Ids /\ request \in Requests
        /\ phase[request] # "unsent" /\ mail[request] = mailOf[cur]

\* What was taken has a mail, and Odoo has that.
TakenHasMail == \A id \in taken : mailOf[id] \in Mails /\ InOdoo(mailOf[id])

GatewayInv ==
    /\ Webhook!WebhookInv /\ WorkerInv
    /\ AnswersKnown /\ AwaitedCarries /\ TakenHasMail

-----------------------------------------------------------------------------
\* What the proofs about OdooInbound assume.
LEMMA WebhookAssumed ==
    /\ WithMessageId \subseteq Mails /\ Unroutable \subseteq Mails /\ Ignored \subseteq Mails
    /\ Null \notin Nat /\ Null \notin Mails
    /\ MaxTries \in Nat \ {0} /\ MaxSecrets \in Nat
BY WebhookAssumption, MailsAssumption, NullAssumption

\* A request that is served keeps the invariant of the webhook, and so does the
\* administrator.
LEMMA WebhookServes ==
    /\ \A r \in Requests : Webhook!WebhookInv /\ Webhook!Serve(r) => Webhook!WebhookInv'
    /\ Webhook!WebhookInv /\ Webhook!Administer => Webhook!WebhookInv'
<1>1. \A r \in Requests : Webhook!WebhookInv /\ Webhook!Serve(r) => Webhook!WebhookInv'
  BY WebhookAssumed, Webhook!ServeKeeps
<1>2. Webhook!WebhookInv /\ Webhook!Administer => Webhook!WebhookInv'
  BY WebhookAssumed, Webhook!AdministerKeeps
<1> QED
  BY <1>1, <1>2

\* The gateway starts with a webhook that has nothing to do.
LEMMA GatewayInitKeeps == GatewayInit => GatewayInv
<1> SUFFICES ASSUME GatewayInit PROVE GatewayInv
  OBVIOUS
<1>1. server = [type |-> "cloudflare", key |-> 1, secret |-> 1, state |-> "done",
                active |-> TRUE]
  BY DEF GatewayInit, Odoo!WithCredentials
<1>2. /\ worker = [key |-> 1, secret |-> 1]
      /\ https = TRUE
      /\ phase = [r \in Requests |-> "unsent"] /\ mail = [r \in Requests |-> Null]
      /\ signed = [r \in Requests |-> [key |-> 0, secret |-> 0]]
      /\ stale = [r \in Requests |-> FALSE] /\ tries = [r \in Requests |-> 0]
      /\ snapshot = [r \in Requests |-> Null] /\ outdated = [r \in Requests |-> FALSE]
      /\ reply = [r \in Requests |-> Null] /\ posted = {}
  BY <1>1 DEF GatewayInit
<1>3. Webhook!WebhookInv
  <2>1. server \in Webhook!Server /\ worker \in Webhook!Credentials
    BY <1>1, <1>2 DEF Webhook!Server, Webhook!Credentials
  <2>2. Webhook!TypeOK
    <3>1. 0 \in 0 .. MaxTries - 1
      BY WebhookAssumption
    <3>2. [key |-> 0, secret |-> 0] \in Webhook!Credentials
      BY DEF Webhook!Credentials
    <3>3. stale \in [Requests -> BOOLEAN] /\ outdated \in [Requests -> BOOLEAN]
      BY <1>2
    <3>4. /\ tries \in [Requests -> 0 .. MaxTries - 1]
          /\ signed \in [Requests -> Webhook!Credentials]
      BY <1>2, <3>1, <3>2
    <3>5. /\ phase \in [Requests -> {"unsent", "received", "open", "answered"}]
          /\ mail \in [Requests -> Mails \cup {Null}]
          /\ reply \in [Requests -> Nat \cup {Null}]
      BY <1>2
    <3>6. snapshot \in [Requests -> (SUBSET Requests) \cup {Null}]
      BY <1>2
    <3> QED
      BY <1>2, <2>1, <3>3, <3>4, <3>5, <3>6 DEF Webhook!TypeOK
  <2>3. Webhook!SnapshotCurrent /\ Webhook!PostedIsAnswered
    BY <1>2 DEF Webhook!SnapshotCurrent, Webhook!PostedIsAnswered
  <2>4. Webhook!HasCredentials /\ Webhook!DeployedKeyStays
    BY <1>1, <1>2 DEF Webhook!HasCredentials, Webhook!DeployedKeyStays
  <2>5. Webhook!PostedOnce
    BY <1>2 DEF Webhook!PostedOnce
  <2>6. Webhook!AnswersTrue
    BY <1>2, NullAssumption DEF Webhook!AnswersTrue
  <2> QED
    BY <2>2, <2>3, <2>4, <2>5, <2>6 DEF Webhook!WebhookInv
<1>4. AnswersKnown /\ AwaitedCarries /\ TakenHasMail
  BY DEF GatewayInit, WorkerInit, Init, AnswersKnown, AwaitedCarries, TakenHasMail
<1> QED
  BY <1>3, <1>4, WorkerInitInv DEF GatewayInv, GatewayInit

\* The steps Gateway takes from OdooInbound are those of the proofs about it.
LEMMA RequestSteps ==
    ASSUME NEW r \in Requests
    PROVE  /\ \/ Odoo!Refuse(r) \/ Odoo!Open(r) \/ Odoo!Commit(r) \/ Odoo!Conflict(r)
              \/ Odoo!Fail(r) \/ Odoo!Lose(r)
              => Webhook!Serve(r)
           /\ \A m \in Mails : Odoo!Send(r, m) => Webhook!Serve(r)
<1>1. Odoo!Refuse(r) => Webhook!Refuse(r)
  BY Zenon DEF Odoo!Refuse, Webhook!Refuse, Odoo!Answer, Webhook!Answer, Odoo!FoundByKey, Webhook!FoundByKey, Odoo!verifySignature, Webhook!verifySignature, Odoo!serverVars, Webhook!serverVars
<1>2. Odoo!Open(r) => Webhook!Open(r)
  BY Zenon DEF Odoo!Open, Webhook!Open, Odoo!FoundByKey, Webhook!FoundByKey, Odoo!verifySignature, Webhook!verifySignature, Odoo!serverVars, Webhook!serverVars
<1>3. Odoo!Commit(r) => Webhook!Commit(r)
  BY Zenon DEF Odoo!Commit, Webhook!Commit, Odoo!Answer, Webhook!Answer, Odoo!Duplicate, Webhook!Duplicate, Odoo!WriteServer, Webhook!WriteServer, Odoo!serverVars, Webhook!serverVars
<1>4. Odoo!Conflict(r) => Webhook!Conflict(r)
  BY Zenon DEF Odoo!Conflict, Webhook!Conflict, Odoo!Answer, Webhook!Answer, Odoo!serverVars, Webhook!serverVars
<1>5. Odoo!Fail(r) => Webhook!Fail(r)
  BY Zenon DEF Odoo!Fail, Webhook!Fail, Odoo!Answer, Webhook!Answer, Odoo!serverVars, Webhook!serverVars
<1>6. Odoo!Lose(r) => Webhook!Lose(r)
  BY Zenon DEF Odoo!Lose, Webhook!Lose, Odoo!Answer, Webhook!Answer, Odoo!serverVars, Webhook!serverVars
<1>7. \A m \in Mails : Odoo!Send(r, m) => Webhook!Send(r, m)
  BY Zenon DEF Odoo!Send, Webhook!Send, Odoo!serverVars, Webhook!serverVars
<1> QED
  BY <1>1, <1>2, <1>3, <1>4, <1>5, <1>6, <1>7, Zenon DEF Webhook!Serve

\* So are the administrator's.
LEMMA AdministratorSteps ==
    Odoo!RegenerateSecret \/ Odoo!Confirm \/ Odoo!SetDraft \/ Odoo!DeployWorker
        => Webhook!Administer
<1>1. Odoo!RegenerateSecret => Webhook!RegenerateSecret
  BY Zenon DEF Odoo!RegenerateSecret, Webhook!RegenerateSecret, Odoo!WriteServer, Webhook!WriteServer
<1>2. Odoo!Confirm => Webhook!Confirm
  BY Zenon DEF Odoo!Confirm, Webhook!Confirm, Odoo!WriteServer, Webhook!WriteServer
<1>3. Odoo!SetDraft => Webhook!SetDraft
  BY Zenon DEF Odoo!SetDraft, Webhook!SetDraft, Odoo!WriteServer, Webhook!WriteServer
<1>4. Odoo!DeployWorker => Webhook!DeployWorker
  BY Zenon DEF Odoo!DeployWorker, Webhook!DeployWorker, Odoo!requestVars, Webhook!requestVars
<1> QED
  BY <1>1, <1>2, <1>3, <1>4, Zenon DEF Webhook!Administer

\* What a step of a request leaves of the mails, the messages and the answers.
LEMMA RequestEffect ==
    ASSUME NEW r \in Requests, Webhook!TypeOK, AnswersKnown,
           \/ Odoo!Refuse(r) \/ Odoo!Open(r) \/ Odoo!Commit(r) \/ Odoo!Conflict(r)
           \/ Odoo!Fail(r) \/ Odoo!Lose(r)
    PROVE  /\ mail' = mail /\ posted \subseteq posted'
           /\ \A q \in Requests : phase[q] # "unsent" => phase'[q] # "unsent"
           /\ AnswersKnown'
<1>1. CASE Odoo!Open(r)
  BY <1>1 DEF Odoo!Open, Webhook!TypeOK, AnswersKnown
<1>2. CASE Odoo!Conflict(r) /\ UNCHANGED reply
  BY <1>2 DEF Odoo!Conflict, Odoo!Answer, Webhook!TypeOK, AnswersKnown
<1>3. ASSUME NEW status \in {0, 200, 401, 404, 422, 500}, Odoo!Answer(r, status),
             mail' = mail, posted \subseteq posted'
      PROVE  /\ \A q \in Requests : phase[q] # "unsent" => phase'[q] # "unsent"
             /\ AnswersKnown'
  BY <1>3 DEF Odoo!Answer, Webhook!TypeOK, AnswersKnown
<1>4. CASE Odoo!Refuse(r)
  <2>1. mail' = mail /\ posted' = posted /\ (Odoo!Answer(r, 404) \/ Odoo!Answer(r, 401))
    BY <1>4, Zenon DEF Odoo!Refuse
  <2> QED
    BY <1>3, <2>1
<1>5. CASE Odoo!Commit(r)
  <2>1. mail' = mail /\ posted \subseteq posted' /\ Odoo!Answer(r, 200)
    BY <1>5 DEF Odoo!Commit
  <2> QED
    BY <1>3, <2>1
<1>6. CASE Odoo!Conflict(r) /\ ~UNCHANGED reply
  <2>1. mail' = mail /\ posted' = posted /\ Odoo!Answer(r, 500)
    BY <1>6, Zenon DEF Odoo!Conflict
  <2> QED
    BY <1>3, <2>1
<1>7. CASE Odoo!Fail(r)
  <2>1. mail' = mail /\ posted' = posted /\ (Odoo!Answer(r, 422) \/ Odoo!Answer(r, 500))
    BY <1>7, Zenon DEF Odoo!Fail
  <2> QED
    BY <1>3, <2>1
<1>8. CASE Odoo!Lose(r)
  <2>1. mail' = mail /\ posted' = posted /\ Odoo!Answer(r, 0)
    BY <1>8 DEF Odoo!Lose, Odoo!Answer
  <2> QED
    BY <1>3, <2>1
<1> QED
  BY <1>1, <1>2, <1>4, <1>5, <1>6, <1>7, <1>8

-----------------------------------------------------------------------------
(* The steps of the composition. *)

\* A step of the Worker alone keeps the invariant of the webhook.
LEMMA WebhookUntouched ==
    ASSUME UNCHANGED odooVars, Webhook!WebhookInv
    PROVE  Webhook!WebhookInv'
BY DEF odooVars, Webhook!WebhookInv, Webhook!TypeOK, Webhook!SnapshotCurrent,
       Webhook!FoundByKey, Webhook!PostedIsAnswered, Webhook!HasCredentials,
       Webhook!PostedOnce, Webhook!AnswersTrue, Webhook!DeployedKeyStays

\* A step of the Worker that sends nothing and awaits no answer.
LEMMA WorkerStepEffect ==
    ASSUME WorkerStep
    PROVE  /\ taken' = taken
           /\ pc' = "posting" => pc = "posting" /\ cur' = cur /\ request' = request
           /\ pc' = "answered" => pc = "answered" /\ cur' = cur /\ verdict' = verdict
           /\ \/ mailOf' = mailOf
              \/ \E m \in Mails, id \in Ids :
                     mailOf[id] = Null /\ mailOf' = [mailOf EXCEPT ![id] = m]
<1>1. ASSUME \/ PassStart \/ SettleAttempt \/ PurgeSelect \/ PurgeObjects \/ PurgeRows
             \/ Rearm \/ \E id \in Ids : ObjectMissing(id) \/ GetObjectFails(id)
      PROVE  pc' \notin {"posting", "answered"}
  <2>1. PassStart \/ PurgeSelect \/ PurgeObjects \/ PurgeRows \/ Rearm => pc' \notin {"posting", "answered"}
    BY DEF PassStart, PurgeSelect, PurgeObjects, PurgeRows, Rearm
  <2>2. \A id : NextRow(id) => pc' \notin {"posting", "answered"}
    BY DEF NextRow
  <2>3. SettleAttempt => pc' \notin {"posting", "answered"}
    BY <2>2, Zenon DEF SettleAttempt
  <2>4. \A id \in Ids : ObjectMissing(id) \/ GetObjectFails(id) => pc' \notin {"posting", "answered"}
    BY <2>2, Zenon DEF ObjectMissing, GetObjectFails
  <2> QED
    BY <1>1, <2>1, <2>3, <2>4
<1>2. ASSUME Operator PROVE UNCHANGED <<pc, cur, verdict>>
  BY <1>2, Zenon DEF Operator, Retry, RetryAll, RemoveStart, RemoveObject, RemoveRow, passVars
<1>3. ASSUME Platform PROVE pc' = "idle" \/ UNCHANGED <<pc, cur, verdict>>
  BY <1>3, Zenon DEF Platform, HandDelete, Tick, Crash, BreakConfig, FixConfig, Evict, passVars
<1>4. ASSUME \E m \in Mails : RejectEnvelope(m) \/ SenderGivesUp(m)
      PROVE  UNCHANGED <<taken, pc, cur, verdict, mailOf>>
  BY <1>4, Zenon DEF RejectEnvelope, SenderGivesUp, vars, passVars, history
<1>5. ASSUME NEW m \in Mails, NEW id \in Ids, StoreMail(m, id)
      PROVE  /\ UNCHANGED <<taken, pc, cur, verdict>>
             /\ mailOf[id] = Null /\ mailOf' = [mailOf EXCEPT ![id] = m]
  BY <1>5, Zenon DEF StoreMail, Put, passVars, history
<1>6. ASSUME NEW id \in Ids, QueueMail(id) PROVE UNCHANGED <<taken, pc, cur, verdict, mailOf>>
  BY <1>6, Zenon DEF QueueMail, Enqueue, EnqueueLost, passVars, history
<1>7. pc' = "posting" => request' = request
  BY DEF WorkerStep
<1>8. \/ /\ \/ PassStart \/ SettleAttempt \/ PurgeSelect \/ PurgeObjects \/ PurgeRows
            \/ Rearm \/ \E id \in Ids : ObjectMissing(id) \/ GetObjectFails(id)
            \/ Operator \/ Platform
         /\ taken' = taken /\ mailOf' = mailOf
      \/ \E m \in Mails : RejectEnvelope(m) \/ SenderGivesUp(m)
      \/ \E m \in Mails, id \in Ids : StoreMail(m, id)
      \/ \E id \in Ids : QueueMail(id)
  BY Zenon DEF WorkerStep
<1> QED
  BY <1>1, <1>2, <1>3, <1>4, <1>5, <1>6, <1>7, <1>8

\* What the Worker does in the composition it does in EmailWorker.
LEMMA WorkerSteps ==
    ASSUME GatewayInv, [GatewayNext]_gatewayVars
    PROVE  [WorkerNext]_workerVars
<1>1. ASSUME NEW id \in Ids, Post(id) PROVE WorkerNext
  BY <1>1, Zenon DEF Post, WorkerNext, Pass
<1>2. ASSUME NEW status \in Answers \cup {NoStatus}, RepliesFor(status) PROVE WorkerNext
  BY <1>2, Zenon DEF RepliesFor, WorkerNext, Pass
<1>3. Receive => WorkerNext
  <2> SUFFICES ASSUME Receive PROVE reply[request] \in Answers \cup {NoStatus}
    BY <1>2, Zenon DEF Receive
  <2>1. reply[request] \in {0, 200, 401, 404, 422, 500}
    BY DEF Receive, GatewayInv, AnswersKnown, AwaitedCarries
  <2> QED
    BY <2>1, StatusAssumption DEF NoStatus
<1>4. TimeOut => WorkerNext
  BY <1>2, Zenon DEF TimeOut
<1>5. WorkerStep => WorkerNext
  <2>1. ASSUME \/ PassStart \/ SettleAttempt \/ PurgeSelect \/ PurgeObjects \/ PurgeRows
               \/ Rearm \/ \E id \in Ids : ObjectMissing(id) \/ GetObjectFails(id)
        PROVE  Pass
    BY <2>1, Zenon DEF Pass
  <2> QED
    BY <2>1, Zenon DEF WorkerStep, WorkerNext
<1>6. Redeploy => WorkerNext
  BY Zenon DEF Redeploy, WorkerNext, Platform
<1>7. OdooStep => UNCHANGED workerVars
  BY Zenon DEF OdooStep
<1>8. UNCHANGED gatewayVars => UNCHANGED workerVars
  BY Zenon DEF gatewayVars
<1> QED
  BY <1>1, <1>3, <1>4, <1>5, <1>6, <1>7, <1>8, Zenon DEF GatewayNext

\* A mail in Odoo stays there.
LEMMA InOdooStays ==
    ASSUME NEW m, InOdoo(m), posted \subseteq posted', \A p \in posted : mail'[p] = mail[p]
    PROVE  InOdoo(m)'
BY Zenon DEF InOdoo

\* The first request of an attempt carries the mail of its row.
LEMMA PostKeeps ==
    ASSUME GatewayInv, NEW id \in Ids, Post(id)
    PROVE  Webhook!WebhookInv' /\ AnswersKnown' /\ AwaitedCarries' /\ TakenHasMail'
<1>1. PICK r \in Requests : Odoo!Send(r, mailOf[id]) /\ request' = r
  BY Zenon DEF Post
<1>2. pc' = "posting" /\ cur' = id /\ taken' = taken /\ mailOf' = mailOf /\ seen[id] # Null
  BY Zenon DEF Post, GetObject, Turn, history
<1>3. mailOf[id] \in Mails
  BY <1>2 DEF GatewayInv, WorkerInv, SafetyInv, ArrivalInv, CallsKnown, TypeInv, TypeOK
<1>4. Webhook!WebhookInv'
  BY <1>1, <1>3, RequestSteps, WebhookServes DEF GatewayInv
<1>5. /\ phase[r] = "unsent" /\ phase' = [phase EXCEPT ![r] = "received"]
      /\ mail' = [mail EXCEPT ![r] = mailOf[id]] /\ reply' = reply /\ posted' = posted
  BY <1>1 DEF Odoo!Send
<1>6. /\ phase \in [Requests -> {"unsent", "received", "open", "answered"}]
      /\ mail \in [Requests -> Mails \cup {Null}] /\ posted \subseteq Requests
      /\ \A p \in posted : phase[p] = "answered"
  BY DEF GatewayInv, Webhook!WebhookInv, Webhook!TypeOK, Webhook!PostedIsAnswered
<1>7. AnswersKnown'
  BY <1>5, <1>6 DEF GatewayInv, AnswersKnown
<1>8. AwaitedCarries'
  BY <1>1, <1>2, <1>5, <1>6 DEF AwaitedCarries
<1>9. TakenHasMail'
  <2>1. \A p \in posted : mail'[p] = mail[p]
    BY <1>5, <1>6
  <2> QED
    BY <1>2, <1>5, <2>1, InOdooStays, Zenon DEF GatewayInv, TakenHasMail
<1> QED
  BY <1>4, <1>7, <1>8, <1>9

\* The answer to the request in progress is about the message of the row.
LEMMA AnswerKeeps ==
    ASSUME GatewayInv, Receive \/ TimeOut
    PROVE  Webhook!WebhookInv' /\ AnswersKnown' /\ AwaitedCarries' /\ TakenHasMail'
<1>1. PICK status : /\ RepliesFor(status) /\ pc = "posting"
                    /\ \/ phase[request] = "answered" /\ status = reply[request]
                       \/ status = NoStatus
  BY Zenon DEF Receive, TimeOut
<1>2. UNCHANGED odooVars /\ mailOf' = mailOf /\ pc' = "answered"
  BY <1>1, Zenon DEF RepliesFor, OdooAnswers
<1>3. Webhook!WebhookInv' /\ AnswersKnown' /\ AwaitedCarries'
  BY <1>2, WebhookUntouched DEF GatewayInv, odooVars, AnswersKnown, AwaitedCarries
<1>7. /\ mail' = mail /\ posted' = posted /\ \A m : InOdoo(m) => InOdoo(m)'
      /\ \A id \in taken : mailOf[id] \in Mails /\ InOdoo(mailOf[id])
  BY <1>2 DEF odooVars, InOdoo, GatewayInv, TakenHasMail
<1>4. CASE taken' = taken
  BY <1>7, <1>2, <1>3, <1>4, Zenon DEF TakenHasMail
<1>5. CASE status \in 200..299
  <2>1. status = 200 /\ cur \in Ids /\ request \in Requests /\ mail[request] = mailOf[cur]
    BY <1>1, <1>5 DEF GatewayInv, AnswersKnown, AwaitedCarries, NoStatus
  <2>2. mailOf[cur] \in Mails
    BY <1>1, <2>1 DEF GatewayInv, AwaitedCarries, Webhook!WebhookInv, Webhook!PostedIsAnswered
  <2>3. InOdoo(mailOf[cur])
    BY <1>1, <2>1 DEF GatewayInv, Webhook!WebhookInv, Webhook!AnswersTrue, InOdoo, NoStatus
  <2>4. taken' \subseteq taken \cup {cur}
    BY <1>1 DEF RepliesFor, OdooAnswers, TakenAfter
  <2>5. \A id \in taken' : mailOf[id] \in Mails /\ InOdoo(mailOf[id])
    BY <1>7, <2>2, <2>3, <2>4
  <2> QED
    BY <1>7, <1>2, <1>3, <2>5, Zenon DEF TakenHasMail
<1>6. status \in 200..299 \/ taken' = taken
  BY <1>1, Zenon DEF RepliesFor
<1> QED
  BY <1>3, <1>4, <1>5, <1>6

\* The rest of the Worker neither asks Odoo nor hears from it.
LEMMA WorkerKeeps ==
    ASSUME GatewayInv, WorkerStep
    PROVE  Webhook!WebhookInv' /\ AnswersKnown' /\ AwaitedCarries' /\ TakenHasMail'
<1>1. UNCHANGED odooVars
  BY Zenon DEF WorkerStep
<1>2. mailOf \in [Ids -> Mails \cup {Null}] /\ Null \notin Mails
  BY MailsAssumption DEF GatewayInv, WorkerInv, WorkerTypeOK
<1>3. \A id \in Ids : mailOf[id] # Null => mailOf'[id] = mailOf[id]
  BY <1>2, WorkerStepEffect
<1>4. taken' = taken /\ taken \subseteq Ids
  BY WorkerStepEffect DEF GatewayInv, WorkerInv, WorkerTypeOK, TypeOK
<1>5. Webhook!WebhookInv' /\ AnswersKnown'
  BY <1>1, WebhookUntouched DEF GatewayInv, odooVars, AnswersKnown
<1>6. AwaitedCarries'
  <2>1. pc = "posting" => mailOf[cur] # Null
    BY <1>2 DEF GatewayInv, AwaitedCarries, Webhook!WebhookInv, Webhook!PostedIsAnswered
  <2> QED
    BY <1>1, <1>3, <2>1, WorkerStepEffect DEF GatewayInv, odooVars, AwaitedCarries
<1>7. TakenHasMail'
  BY <1>1, <1>2, <1>3, <1>4 DEF GatewayInv, odooVars, TakenHasMail, InOdoo
<1> QED
  BY <1>5, <1>6, <1>7

\* A request goes on in Odoo, or the record is edited.
LEMMA OdooKeeps ==
    ASSUME GatewayInv, OdooStep
    PROVE  Webhook!WebhookInv' /\ AnswersKnown' /\ AwaitedCarries' /\ TakenHasMail'
<1>1. UNCHANGED <<workerVars, request>>
  BY Zenon DEF OdooStep
<1>2. Webhook!TypeOK /\ AnswersKnown /\ Webhook!WebhookInv
  BY DEF GatewayInv, Webhook!WebhookInv
<1>3. CASE \E r \in Requests :
              \/ Odoo!Refuse(r) \/ Odoo!Open(r) \/ Odoo!Commit(r) \/ Odoo!Conflict(r)
              \/ Odoo!Fail(r) \/ Odoo!Lose(r)
  <2>1. Webhook!WebhookInv'
    BY <1>2, <1>3, RequestSteps, WebhookServes, Zenon
  <2>2. /\ mail' = mail /\ posted \subseteq posted'
        /\ \A q \in Requests : phase[q] # "unsent" => phase'[q] # "unsent"
        /\ AnswersKnown'
    BY <1>2, <1>3, RequestEffect, Zenon
  <2>3. AwaitedCarries'
    BY <1>1, <2>2 DEF GatewayInv, AwaitedCarries, workerVars, vars, passVars
  <2>4. TakenHasMail'
    BY <1>1, <2>2 DEF GatewayInv, TakenHasMail, workerVars, vars, history, InOdoo
  <2> QED
    BY <2>1, <2>2, <2>3, <2>4
<1>4. CASE Odoo!RegenerateSecret \/ Odoo!Confirm \/ Odoo!SetDraft
  <2>1. Webhook!WebhookInv'
    BY <1>2, <1>4, AdministratorSteps, WebhookServes
  <2>2. UNCHANGED <<mail, posted, phase, reply>>
    BY <1>4, Zenon DEF Odoo!RegenerateSecret, Odoo!Confirm, Odoo!SetDraft
  <2> QED
    BY <1>1, <2>1, <2>2 DEF GatewayInv, AnswersKnown, AwaitedCarries, TakenHasMail, InOdoo,
                            workerVars, vars, passVars, history
<1> QED
  BY <1>3, <1>4, Zenon DEF OdooStep

\* The object is evicted and awaits nothing.
LEMMA RedeployKeeps ==
    ASSUME GatewayInv, Redeploy
    PROVE  Webhook!WebhookInv' /\ AnswersKnown' /\ AwaitedCarries' /\ TakenHasMail'
<1>1. Webhook!WebhookInv'
  BY AdministratorSteps, WebhookServes DEF GatewayInv, Redeploy
<1>2. UNCHANGED <<mail, posted, phase, reply, mailOf, taken>>
  BY Zenon DEF Redeploy, Odoo!DeployWorker, Odoo!requestVars
<1>3. pc' = "idle"
  BY Zenon DEF Redeploy, Crash, Evict
<1> QED
  BY <1>1, <1>2, <1>3 DEF GatewayInv, AnswersKnown, AwaitedCarries, TakenHasMail, InOdoo

\* The invariant holds in every reachable state.
THEOREM GatewayInvariant == GatewaySpec => []GatewayInv
<1>1. GatewayInv /\ [GatewayNext]_gatewayVars => GatewayInv'
  <2> SUFFICES ASSUME GatewayInv, [GatewayNext]_gatewayVars PROVE GatewayInv'
    OBVIOUS
  <2>1. WorkerInv'
    BY WorkerSteps, WorkerNextInv DEF GatewayInv
  <2>2. CASE UNCHANGED gatewayVars
    BY <2>1, <2>2, WebhookUntouched
    DEF GatewayInv, gatewayVars, workerVars, vars, passVars, history, odooVars, attemptVars,
        AnswersKnown, AwaitedCarries, TakenHasMail, InOdoo
  <2> QED
    BY <2>1, <2>2, PostKeeps, AnswerKeeps, WorkerKeeps, OdooKeeps, RedeployKeeps, Zenon
    DEF GatewayNext, GatewayInv
<1> QED
  BY GatewayInitKeeps, <1>1, PTL DEF GatewaySpec

-----------------------------------------------------------------------------
(* Types. *)

\* Every variable keeps its type, and a request is awaited exactly while alarm()
\* is at its fetch (inbox-do.ts:494-529).
THEOREM GatewayTypeCorrect == GatewaySpec => []GatewayTypeOK
<1> DEFINE Awaited == /\ request \in Requests \cup {Null} /\ (request # Null <=> pc = "posting")
                      /\ amiss \in BOOLEAN
<1>1. GatewayInit => Awaited
  BY DEF GatewayInit, WorkerInit, Init
<1>2. Awaited /\ [GatewayNext]_gatewayVars => Awaited'
  <2> SUFFICES ASSUME Awaited, [GatewayNext]_gatewayVars PROVE Awaited'
    OBVIOUS
  <2>1. ASSUME NEW id \in Ids, Post(id) PROVE Awaited'
    <3>1. \E r \in Requests : request' = r
      BY <2>1, Zenon DEF Post
    <3>2. pc' = "posting" /\ amiss' \in BOOLEAN
      BY <2>1, Zenon DEF Post, GetObject
    <3> QED
      BY <3>1, <3>2, WebhookAssumption
  <2>2. CASE Receive \/ TimeOut
    <3>1. \E status : RepliesFor(status)
      BY <2>2, Zenon DEF Receive, TimeOut
    <3>2. request' = Null /\ amiss' = amiss /\ pc' = "answered"
      BY <3>1, Zenon DEF RepliesFor, OdooAnswers
    <3> QED
      BY <3>2
  <2>3. CASE WorkerStep
    <3>1. /\ request' = (IF pc' = "posting" THEN request ELSE Null)
          /\ amiss' = (amiss /\ pc' \in {"posting", "answered"})
      BY <2>3, Zenon DEF WorkerStep
    <3>2. pc' = "posting" => pc = "posting"
      BY <2>3, WorkerStepEffect
    <3>3. amiss' \in BOOLEAN
      BY <3>1, Zenon
    <3> QED
      BY <3>1, <3>2, <3>3
  <2>4. CASE Redeploy
    <3>1. request' = Null /\ amiss' = FALSE /\ pc' = "idle"
      BY <2>4, Zenon DEF Redeploy, Crash, Evict
    <3> QED
      BY <3>1
  <2>5. CASE OdooStep
    <3>1. request' = request /\ pc' = pc /\ amiss' \in BOOLEAN
      BY <2>5, Zenon DEF OdooStep, workerVars, vars, passVars
    <3> QED
      BY <3>1
  <2>6. CASE UNCHANGED gatewayVars
    BY <2>6 DEF gatewayVars, attemptVars, workerVars, vars, passVars
  <2> QED
    BY <2>1, <2>2, <2>3, <2>4, <2>5, <2>6 DEF GatewayNext
<1>3. GatewayInv /\ Awaited => GatewayTypeOK
  <2>1. GatewayInv => WorkerTypeOK
    BY DEF GatewayInv, WorkerInv
  <2>2. GatewayInv => Odoo!TypeOK
    BY DEF GatewayInv, Webhook!WebhookInv, Webhook!TypeOK, Odoo!TypeOK, Webhook!Server,
           Odoo!Server, Webhook!Credentials, Odoo!Credentials
  <2> QED
    BY <2>1, <2>2 DEF GatewayTypeOK
<1> HIDE DEF Awaited
<1> QED
  BY <1>1, <1>2, <1>3, GatewayInvariant, PTL DEF GatewaySpec

-----------------------------------------------------------------------------
(* What must hold. *)

\* What alarm() took for delivered, and may purge, Odoo has (inbox-do.ts:546-552,
\* main.py:80-110).
THEOREM TakenIsReallyInOdoo == GatewaySpec => []TakenIsInOdoo
<1>1. GatewayInv => TakenIsInOdoo
  BY DEF GatewayInv, TakenHasMail, TakenIsInOdoo
<1> QED
  BY GatewayInvariant, <1>1, PTL

\* A mail with a Message-Id is in Odoo once, whatever was queued, posted and
\* requeued (main.py:88-110).
THEOREM MessagesAreInOdooOnce == GatewaySpec => []OneMessageInOdoo
<1>1. GatewayInv => OneMessageInOdoo
  BY DEF GatewayInv, Webhook!WebhookInv, Webhook!PostedOnce, OneMessageInOdoo
<1> QED
  BY GatewayInvariant, <1>1, PTL

\* With the webhook for the world's answers, the Worker does what EmailWorker says.
THEOREM WorkerImplemented == GatewaySpec => ImplementsWorker
<1>1. GatewayInit => WorkerInit
  BY DEF GatewayInit
<1>2. GatewayInv /\ [GatewayNext]_gatewayVars => [WorkerNext]_workerVars
  BY WorkerSteps
<1> QED
  BY <1>1, <1>2, GatewayInvariant, PTL DEF GatewaySpec, ImplementsWorker, WorkerSpec

\* With the webhook for the world's answers the queue does what InboxQueue says:
\* rows, budget and alarm are right end to end (inbox-do.ts:199-222, 430-552).
THEOREM QueueRightEndToEnd ==
    GatewaySpec =>
        /\ [](Custody /\ SnapshotFresh /\ BudgetExact /\ NoOrphan /\ AlarmCovers)
        /\ RemovedStaysRemoved
<1>1. GatewaySpec => WorkerSpec
  BY WorkerImplemented DEF ImplementsWorker
<1>2. Spec => []SafetyInv /\ []AlarmCovers /\ RemovedStaysRemoved
  BY SafetyInvariant, AlarmAlwaysCovers, RemovedRowsStayRemoved
<1>3. Spec => []Custody /\ []SnapshotFresh /\ []BudgetExact /\ []NoOrphan
  BY CustodyKept, SnapshotStaysFresh, BudgetIsExact, NoOrphanLeft
<1> QED
  BY <1>1, <1>2, <1>3, QueueImplemented, PTL

\* The whole gateway keeps the promise to the sending MTA (handlers/email.ts:21-34).
THEOREM CustodyEndToEnd == GatewaySpec => ImplementsCustody
<1>1. GatewaySpec => WorkerSpec
  BY WorkerImplemented DEF ImplementsWorker
<1> QED
  BY <1>1, CustodyImplemented, PTL

\* The webhook answers the Worker the truth, posts a message once, keeps its key
\* and its credentials, whatever the Worker posts (main.py:61-110).
THEOREM WebhookRightEndToEnd ==
    GatewaySpec => [](/\ Odoo!AnswersTrue /\ Odoo!PostedOnce
                      /\ Odoo!DeployedKeyStays /\ Odoo!ConfirmedIsUsable)
<1>1. GatewayInv => /\ Odoo!AnswersTrue /\ Odoo!PostedOnce
                    /\ Odoo!DeployedKeyStays /\ Odoo!ConfirmedIsUsable
  <2> SUFFICES ASSUME Webhook!WebhookInv
               PROVE  /\ Odoo!AnswersTrue /\ Odoo!PostedOnce
                      /\ Odoo!DeployedKeyStays /\ Odoo!ConfirmedIsUsable
    BY DEF GatewayInv
  <2>1. Odoo!AnswersTrue /\ Odoo!PostedOnce
    BY DEF Webhook!WebhookInv, Webhook!AnswersTrue, Webhook!PostedOnce, Odoo!AnswersTrue,
           Odoo!PostedOnce
  <2>2. Odoo!DeployedKeyStays
    BY DEF Webhook!WebhookInv, Webhook!DeployedKeyStays, Odoo!DeployedKeyStays
  <2>3. Odoo!ConfirmedIsUsable
    BY DEF Webhook!WebhookInv, Webhook!HasCredentials, Odoo!ConfirmedIsUsable
  <2> QED
    BY <2>1, <2>2, <2>3
<1> QED
  BY <1>1, GatewayInvariant, PTL

\* A message is committed only on a signature that a confirmed server accepts at
\* the commit, while the Worker redeploys and requests outlive their attempt
\* (main.py:62-85, fetchmail_server.py:210-227).
THEOREM CommitsAuthorizedEndToEnd == GatewaySpec => Odoo!CommitsAuthorized
<1> DEFINE Authorized ==
        \A r \in Requests : r \in posted' \ posted =>
            Odoo!FoundByKey(signed[r].key) /\ signed[r].secret = server.secret
<1>1. GatewayInv /\ [GatewayNext]_gatewayVars => [Authorized]_(Odoo!vars)
  <2> SUFFICES ASSUME GatewayInv, [GatewayNext]_gatewayVars
               PROVE  posted' = posted \/ Authorized
    BY Zenon
  <2>1. ASSUME NEW r \in Requests, Webhook!Serve(r) PROVE Authorized
    <3>1. Webhook!Next
      BY <2>1, Zenon DEF Webhook!Next
    <3>2. \A q \in Requests : q \in posted' \ posted =>
              Webhook!FoundByKey(signed[q].key) /\ signed[q].secret = server.secret
      BY <3>1, WebhookAssumed, Webhook!CommitIsAuthorized DEF GatewayInv
    <3> QED
      BY <3>2, Zenon DEF Odoo!FoundByKey, Webhook!FoundByKey
  <2>2. ASSUME NEW id \in Ids, Post(id) PROVE posted' = posted
    BY <2>2, Zenon DEF Post, Odoo!Send
  <2>3. Receive \/ TimeOut \/ WorkerStep => posted' = posted
    BY Zenon DEF Receive, TimeOut, RepliesFor, WorkerStep, odooVars
  <2>4. Redeploy => posted' = posted
    BY Zenon DEF Redeploy, Odoo!DeployWorker
  <2>5. OdooStep => posted' = posted \/ \E r \in Requests : Webhook!Serve(r)
    <3>1. Odoo!RegenerateSecret \/ Odoo!Confirm \/ Odoo!SetDraft => posted' = posted
      BY Zenon DEF Odoo!RegenerateSecret, Odoo!Confirm, Odoo!SetDraft
    <3> QED
      BY <3>1, RequestSteps, Zenon DEF OdooStep
  <2>6. UNCHANGED gatewayVars => posted' = posted
    BY Zenon DEF gatewayVars, odooVars
  <2> QED
    BY <2>1, <2>2, <2>3, <2>4, <2>5, <2>6, Zenon DEF GatewayNext
<1> QED
  BY <1>1, GatewayInvariant, PTL DEF GatewaySpec, Odoo!CommitsAuthorized

\* An accepted mail is in Odoo, or kept, or an operator gave it up
\* (handlers/email.ts:24-27).
THEOREM NothingIsLost == GatewaySpec => []NothingLost
<1>1. GatewayInv => NothingLost
  <2> SUFFICES ASSUME GatewayInv, NEW m \in Mails, sender[m] = "accepted"
               PROVE  \/ InOdoo(m)
                      \/ \E id \in AcceptedAs(m) : id \in waived \/ Kept(id)
    BY DEF NothingLost
  <2>1. PICK id \in AcceptedAs(m) : TRUE
    BY DEF GatewayInv, WorkerInv, CallsKnown
  <2>2. id \in Ids /\ mailOf[id] = m /\ call[id] = "done"
    BY <2>1 DEF AcceptedAs
  <2>3. id \in taken \cup waived \/ Kept(id)
    BY <2>2 DEF GatewayInv, WorkerInv, SafetyInv, CustodyInv, Settling
  <2>4. id \in taken => InOdoo(m)
    BY <2>2 DEF GatewayInv, TakenHasMail
  <2> QED
    BY <2>1, <2>3, <2>4
<1> QED
  BY GatewayInvariant, <1>1, PTL

-----------------------------------------------------------------------------
(* Why a row is parked as rejected. *)

\* No request Gateway models waits until its timestamp is old.
NeverStale == \A r \in Requests : ~stale[r]

\* An attempt with nothing amiss was signed with the secret Odoo accepts.
SignedAsAccepted == pc = "posting" /\ ~amiss => Agree /\ signed[request] = worker

\* What Odoo answers to the awaited request it answers with a cause.
RefusalCaused ==
    pc = "posting" /\ phase[request] = "answered" =>
        /\ reply[request] \in {401, 404} => amiss
        /\ reply[request] = 422 => mail[request] \in Unroutable

\* The verdict settle() is about to write has the same cause.
VerdictCaused ==
    pc = "answered" /\ verdict = "rejected" => mailOf[cur] \in Unroutable \/ amiss

CauseInv == NeverStale /\ SignedAsAccepted /\ RefusalCaused /\ VerdictCaused

\* Only settle() after an answer parks a row.
LEMMA RejectedBySettle ==
    ASSUME TypeInv, WorkerStep, NEW id \in Ids,
           inbox[id].status # "rejected", inbox'[id].status = "rejected"
    PROVE  pc = "answered" /\ cur = id /\ verdict = "rejected"
<1>t. /\ inbox \in [Ids -> Row]
      /\ pc = "answered" => cur \in Ids /\ seen[cur] # Null /\ verdict \in Outcome
  BY DEF TypeInv, TypeOK, LocalsOK
<1>1. CASE SettleAttempt
  <2>1. /\ pc = "answered" /\ cur \in Ids /\ seen[cur] # Null /\ verdict \in Outcome
        /\ settle(cur, verdict, FALSE) /\ NextRow(cur)
    BY <1>t, <1>1 DEF SettleAttempt
  <2>2. AttemptEnds(id, cur, verdict, FALSE)
    BY <2>1, AttemptEffect
  <2> QED
    BY <2>1, <2>2 DEF AttemptEnds
<1>2. ASSUME NEW other \in Ids, ObjectMissing(other) PROVE FALSE
  <2>1. seen[other] # Null /\ settle(other, "dead", TRUE) /\ NextRow(other)
    BY <1>2 DEF ObjectMissing, Turn
  <2>2. AttemptEnds(id, other, "dead", TRUE)
    BY <2>1, AttemptEffect
  <2> QED
    BY <2>2 DEF AttemptEnds
<1>3. ASSUME inbox' = inbox PROVE FALSE
  BY <1>3
<1>4. CASE \/ PassStart \/ PurgeSelect \/ PurgeObjects \/ Rearm
           \/ \E other \in Ids : GetObjectFails(other)
  BY <1>3, <1>4, Zenon DEF PassStart, PurgeSelect, PurgeObjects, Rearm, GetObjectFails
<1>5. CASE PurgeRows
  BY <1>t, <1>5, AbsentType DEF PurgeRows
<1>6. CASE Operator
  <2>1. ASSUME NEW S, Requeue(S) PROVE FALSE
    BY <1>t, <2>1, RowRequeued DEF Requeue
  <2>2. ASSUME NEW other \in Ids, RemoveRow(other) PROVE FALSE
    BY <1>t, <2>2, AbsentType DEF RemoveRow
  <2> QED
    BY <1>3, <1>6, <2>1, <2>2, Zenon
    DEF Operator, Retry, RetryAll, RemoveStart, RemoveObject
<1>7. CASE Platform
  <2>1. CASE Tick
    BY <1>t, <2>1, RowAged DEF Tick
  <2> QED
    BY <1>3, <1>7, <2>1, Zenon
    DEF Platform, HandDelete, Crash, BreakConfig, FixConfig, Evict
<1>8. CASE \E m \in Mails : RejectEnvelope(m) \/ SenderGivesUp(m)
  BY <1>3, <1>8, Zenon DEF RejectEnvelope, SenderGivesUp, vars
<1>9. CASE \E m \in Mails, other \in Ids : StoreMail(m, other)
  BY <1>3, <1>9, Zenon DEF StoreMail, Put
<1>10. ASSUME NEW other \in Ids, QueueMail(other) PROVE FALSE
  <2>1. inbox' = inbox \/ Insert(other)
    BY <1>10, Zenon DEF QueueMail, Enqueue, EnqueueLost
  <2> QED
    BY <1>t, <1>3, <2>1, RowQueued DEF Insert
<1> QED
  BY <1>1, <1>2, <1>4, <1>5, <1>6, <1>7, <1>8, <1>9, <1>10, Zenon DEF WorkerStep

\* The administrator changes nothing of the requests or of the Worker.
LEMMA AdministratorEffect ==
    ASSUME Odoo!RegenerateSecret \/ Odoo!Confirm \/ Odoo!SetDraft
    PROVE  UNCHANGED <<worker, phase, mail, signed, stale, reply>>
BY Zenon DEF Odoo!RegenerateSecret, Odoo!Confirm, Odoo!SetDraft

\* A request that goes on in Odoo changes its own phase and reply only.
LEMMA ServedEffect ==
    ASSUME NEW r \in Requests,
           \/ Odoo!Refuse(r) \/ Odoo!Open(r) \/ Odoo!Commit(r) \/ Odoo!Conflict(r)
           \/ Odoo!Fail(r) \/ Odoo!Lose(r)
    PROVE  /\ UNCHANGED <<worker, mail, signed, stale>>
           /\ \E p : phase' = [phase EXCEPT ![r] = p]
           /\ \/ reply' = reply
              \/ \E status : reply' = [reply EXCEPT ![r] = status]
<1> DEFINE Others == UNCHANGED <<worker, mail, signed, stale>>
<1>1. ASSUME NEW status, Odoo!Answer(r, status)
      PROVE  /\ \E p : phase' = [phase EXCEPT ![r] = p]
             /\ \E s : reply' = [reply EXCEPT ![r] = s]
  BY <1>1, Zenon DEF Odoo!Answer
<1>2. Odoo!Open(r) => Others /\ reply' = reply /\ phase' = [phase EXCEPT ![r] = "open"]
  BY Zenon DEF Odoo!Open, Odoo!serverVars
<1>3. Odoo!Commit(r) => Others /\ Odoo!Answer(r, 200)
  BY Zenon DEF Odoo!Commit
<1>4. Odoo!Refuse(r) => Others /\ (Odoo!Answer(r, 404) \/ Odoo!Answer(r, 401))
  BY Zenon DEF Odoo!Refuse, Odoo!serverVars
<1>5. Odoo!Conflict(r) =>
          /\ Others
          /\ \/ reply' = reply /\ phase' = [phase EXCEPT ![r] = "received"]
             \/ Odoo!Answer(r, 500)
  BY Zenon DEF Odoo!Conflict, Odoo!serverVars
<1>6. Odoo!Fail(r) => Others /\ (Odoo!Answer(r, 422) \/ Odoo!Answer(r, 500))
  BY Zenon DEF Odoo!Fail, Odoo!serverVars
<1>7. Odoo!Lose(r) => Others /\ Odoo!Answer(r, 0)
  BY Zenon DEF Odoo!Lose, Odoo!serverVars, Odoo!Answer
<1>8. Others
  BY <1>2, <1>3, <1>4, <1>5, <1>6, <1>7, Zenon
<1>9. \/ reply' = reply /\ \E p : phase' = [phase EXCEPT ![r] = p]
      \/ \E status : Odoo!Answer(r, status)
  <2>1. CASE Odoo!Open(r) \/ Odoo!Conflict(r)
    BY <1>2, <1>5, <2>1, Zenon
  <2>2. CASE Odoo!Commit(r) \/ Odoo!Lose(r)
    BY <1>3, <1>7, <2>2, Zenon
  <2>3. CASE Odoo!Refuse(r)
    BY <1>4, <2>3, Zenon
  <2>4. CASE Odoo!Fail(r)
    BY <1>6, <2>4, Zenon
  <2> QED
    BY <2>1, <2>2, <2>3, <2>4, Zenon
<1> HIDE DEF Others
<1>10. /\ \E p : phase' = [phase EXCEPT ![r] = p]
       /\ reply' = reply \/ \E status : reply' = [reply EXCEPT ![r] = status]
  BY <1>1, <1>9, Zenon
<1> QED
  BY <1>8, <1>10, Zenon DEF Others

\* Odoo refuses the awaited request only with a cause.
LEMMA ServedWithCause ==
    ASSUME GatewayInv, CauseInv, pc = "posting",
           \/ Odoo!Refuse(request) \/ Odoo!Open(request) \/ Odoo!Commit(request)
           \/ Odoo!Conflict(request) \/ Odoo!Fail(request) \/ Odoo!Lose(request),
           phase'[request] = "answered"
    PROVE  /\ reply'[request] \in {401, 404} => amiss
           /\ reply'[request] = 422 => mail[request] \in Unroutable
<1>t. /\ request \in Requests /\ reply \in [Requests -> Nat \cup {Null}]
      /\ phase \in [Requests -> {"unsent", "received", "open", "answered"}]
  BY DEF GatewayInv, AwaitedCarries, Webhook!WebhookInv, Webhook!TypeOK
<1>1. CASE Odoo!Refuse(request)
  <2>1. ~(Odoo!FoundByKey(signed[request].key) /\ Odoo!verifySignature(request))
    BY <1>1, Zenon DEF Odoo!Refuse
  <2>2. ~stale[request]
    BY <1>t DEF CauseInv, NeverStale
  <2>3. ~amiss => FALSE
    BY <2>1, <2>2 DEF CauseInv, SignedAsAccepted, Agree, Odoo!verifySignature
  <2>4. reply'[request] \in {401, 404}
    BY <1>t, <1>1 DEF Odoo!Refuse, Odoo!Answer
  <2> QED
    BY <2>3, <2>4
<1>2. CASE Odoo!Open(request)
  <2>1. phase'[request] = "open"
    BY <1>t, <1>2 DEF Odoo!Open
  <2> QED
    BY <2>1
<1>3. CASE Odoo!Commit(request)
  BY <1>t, <1>3 DEF Odoo!Commit, Odoo!Answer
<1>4. CASE Odoo!Conflict(request)
  BY <1>t, <1>4 DEF Odoo!Conflict, Odoo!Answer
<1>5. CASE Odoo!Fail(request)
  BY <1>t, <1>5 DEF Odoo!Fail, Odoo!Answer
<1>6. CASE Odoo!Lose(request)
  BY <1>t, <1>6 DEF Odoo!Lose, Odoo!Answer
<1> QED
  BY <1>1, <1>2, <1>3, <1>4, <1>5, <1>6

\* A new request is signed with what the Worker has.
LEMMA PostCaused ==
    ASSUME GatewayInv, CauseInv, NEW id \in Ids, Post(id)
    PROVE  CauseInv'
<1>1. PICK r \in Requests : Odoo!Send(r, mailOf[id]) /\ request' = r
  BY Zenon DEF Post
<1>2. pc' = "posting" /\ amiss' = ~Agree
  BY Zenon DEF Post, GetObject
<1>3. /\ phase \in [Requests -> {"unsent", "received", "open", "answered"}]
      /\ signed \in [Requests -> Webhook!Credentials]
  BY DEF GatewayInv, Webhook!WebhookInv, Webhook!TypeOK
<1>4. /\ phase'[r] = "received" /\ signed'[r] = worker
      /\ UNCHANGED <<stale, server, worker>>
  BY <1>1, <1>3 DEF Odoo!Send, Odoo!serverVars
<1>5. Agree => Agree'
  BY <1>4, Zenon DEF Agree, Odoo!FoundByKey
<1> QED
  BY <1>1, <1>2, <1>4, <1>5
  DEF CauseInv, NeverStale, SignedAsAccepted, RefusalCaused, VerdictCaused

\* A refusal becomes the verdict, with its cause.
LEMMA AnswerCaused ==
    ASSUME GatewayInv, CauseInv, Receive \/ TimeOut
    PROVE  CauseInv'
<1>1. PICK status : /\ RepliesFor(status) /\ pc = "posting"
                    /\ \/ phase[request] = "answered" /\ status = reply[request]
                       \/ status = NoStatus
  BY Zenon DEF Receive, TimeOut
<1>2. /\ pc' = "answered" /\ verdict' = VerdictOf(status)
      /\ UNCHANGED <<odooVars, amiss, mailOf, cur>>
  BY <1>1, Zenon DEF RepliesFor, OdooAnswers
<1>3. VerdictOf(status) = "rejected" => mailOf[cur] \in Unroutable \/ amiss
  <2> SUFFICES ASSUME VerdictOf(status) = "rejected"
               PROVE  mailOf[cur] \in Unroutable \/ amiss
    OBVIOUS
  <2>1. status # NoStatus
    BY DEF VerdictOf
  <2>2. phase[request] = "answered" /\ status = reply[request]
    BY <1>1, <2>1
  <2>3. status \in {0, 200, 401, 404, 422, 500} /\ mail[request] = mailOf[cur]
    BY <1>1, <2>2 DEF GatewayInv, AnswersKnown, AwaitedCarries
  <2>4. status \in {401, 404, 422}
    BY <2>1, <2>3 DEF VerdictOf, classifyStatus, NoStatus
  <2> QED
    BY <1>1, <2>2, <2>3, <2>4 DEF CauseInv, RefusalCaused
<1> QED
  BY <1>2, <1>3
  DEF CauseInv, NeverStale, SignedAsAccepted, RefusalCaused, VerdictCaused, odooVars

\* Until settle() the attempt stays what it is, or ends.
LEMMA WorkerCaused ==
    ASSUME GatewayInv, CauseInv, WorkerStep
    PROVE  CauseInv'
<1>1. UNCHANGED odooVars /\ amiss' = (amiss /\ pc' \in {"posting", "answered"})
  BY Zenon DEF WorkerStep
<1>2. pc' = "posting" => pc = "posting" /\ request' = request
  BY WorkerStepEffect
<1>3. pc' = "answered" => pc = "answered" /\ cur' = cur /\ verdict' = verdict
  BY WorkerStepEffect
<1>4. pc = "answered" => mailOf'[cur] = mailOf[cur]
  <2> SUFFICES ASSUME pc = "answered" PROVE mailOf'[cur] = mailOf[cur]
    OBVIOUS
  <2>1. cur \in Ids /\ seen[cur] # Null /\ mailOf \in [Ids -> Mails \cup {Null}]
    BY DEF GatewayInv, WorkerInv, WorkerTypeOK, SafetyInv, TypeInv, LocalsOK
  <2>2. mailOf[cur] # Null
    BY <2>1, MailsAssumption
    DEF GatewayInv, WorkerInv, SafetyInv, ArrivalInv, CallsKnown, TypeInv, TypeOK
  <2> QED
    BY <2>1, <2>2, WorkerStepEffect
<1>5. Agree => Agree'
  BY <1>1, Zenon DEF odooVars, Agree, Odoo!FoundByKey
<1>10. amiss /\ pc' \in {"posting", "answered"} => amiss'
  BY <1>1, Zenon
<1>6. SignedAsAccepted'
  BY <1>1, <1>2, <1>5, <1>10 DEF CauseInv, SignedAsAccepted, odooVars
<1>7. RefusalCaused'
  <2>1. phase' = phase /\ reply' = reply /\ mail' = mail
    BY <1>1, Zenon DEF odooVars
  <2> QED
    BY <1>2, <1>10, <2>1 DEF CauseInv, RefusalCaused
<1>8. VerdictCaused'
  BY <1>3, <1>4, <1>10 DEF CauseInv, VerdictCaused
<1>9. NeverStale'
  BY <1>1 DEF CauseInv, NeverStale, odooVars
<1> QED
  BY <1>6, <1>7, <1>8, <1>9 DEF CauseInv

\* A request goes on in Odoo, or the record is edited: either leaves the secret
\* accepted or makes the attempt amiss.
LEMMA OdooCaused ==
    ASSUME GatewayInv, CauseInv, OdooStep
    PROVE  CauseInv'
<1>1. /\ UNCHANGED <<pc, cur, verdict, mailOf, request>>
      /\ amiss' = (amiss \/ (pc = "posting" /\ ~Agree'))
  BY Zenon DEF OdooStep, workerVars, vars, passVars
<1>2. UNCHANGED <<worker, mail, signed, stale>>
  BY AdministratorEffect, ServedEffect, Zenon DEF OdooStep
<1>3. NeverStale' /\ VerdictCaused'
  BY <1>1, <1>2 DEF CauseInv, NeverStale, VerdictCaused
<1>4. SignedAsAccepted'
  BY <1>1, <1>2 DEF CauseInv, SignedAsAccepted
<1>5. RefusalCaused'
  <2> SUFFICES ASSUME pc = "posting", phase'[request] = "answered"
               PROVE  /\ reply'[request] \in {401, 404} => amiss
                      /\ reply'[request] = 422 => mail[request] \in Unroutable
    BY <1>1, <1>2 DEF RefusalCaused
  <2>1. CASE phase'[request] = phase[request] /\ reply'[request] = reply[request]
    BY <2>1 DEF CauseInv, RefusalCaused
  <2>2. ASSUME NEW r \in Requests,
               \/ Odoo!Refuse(r) \/ Odoo!Open(r) \/ Odoo!Commit(r) \/ Odoo!Conflict(r)
               \/ Odoo!Fail(r) \/ Odoo!Lose(r)
        PROVE  /\ reply'[request] \in {401, 404} => amiss
               /\ reply'[request] = 422 => mail[request] \in Unroutable
    <3>1. /\ request \in Requests /\ reply \in [Requests -> Nat \cup {Null}]
          /\ phase \in [Requests -> {"unsent", "received", "open", "answered"}]
      BY DEF GatewayInv, AwaitedCarries, Webhook!WebhookInv, Webhook!TypeOK
    <3>2. CASE r = request
      BY <2>2, <3>2, ServedWithCause
    <3>3. CASE r # request
      <4>1. phase'[request] = phase[request] /\ reply'[request] = reply[request]
        BY <2>2, <3>1, <3>3, ServedEffect
      <4> QED
        BY <2>1, <4>1
    <3> QED
      BY <3>2, <3>3
  <2>3. CASE Odoo!RegenerateSecret \/ Odoo!Confirm \/ Odoo!SetDraft
    BY <2>1, <2>3, AdministratorEffect
  <2> QED
    BY <2>2, <2>3, Zenon DEF OdooStep
<1> QED
  BY <1>3, <1>4, <1>5 DEF CauseInv

\* The causes are known in every reachable state.
THEOREM CausesKnown == GatewaySpec => []CauseInv
<1>1. GatewayInit => CauseInv
  BY DEF GatewayInit, WorkerInit, Init, CauseInv, NeverStale, SignedAsAccepted,
         RefusalCaused, VerdictCaused
<1>2. GatewayInv /\ CauseInv /\ [GatewayNext]_gatewayVars => CauseInv'
  <2> SUFFICES ASSUME GatewayInv, CauseInv, [GatewayNext]_gatewayVars PROVE CauseInv'
    OBVIOUS
  <2>1. CASE UNCHANGED gatewayVars
    BY <2>1 DEF gatewayVars, workerVars, vars, passVars, odooVars, attemptVars, CauseInv,
                NeverStale, SignedAsAccepted, RefusalCaused, VerdictCaused, Agree,
                Odoo!FoundByKey
  <2>2. CASE Redeploy
    <3>1. pc' = "idle" /\ stale' = stale
      BY <2>2, Zenon DEF Redeploy, Crash, Evict, Odoo!DeployWorker, Odoo!requestVars
    <3> QED
      BY <3>1 DEF CauseInv, NeverStale, SignedAsAccepted, RefusalCaused, VerdictCaused
  <2> QED
    BY <2>1, <2>2, PostCaused, AnswerCaused, WorkerCaused, OdooCaused, Zenon
    DEF GatewayNext
<1> QED
  BY <1>1, <1>2, GatewayInvariant, PTL DEF GatewaySpec

\* A row is parked as rejected because Odoo refuses the message itself, or the
\* credentials of the Worker were not a confirmed server's (main.py:61-79, 104).
THEOREM RejectionHasCause == GatewaySpec => RejectedHasCause
<1> DEFINE Step == \A id \in Ids :
                       inbox'[id].status = "rejected" /\ inbox[id].status # "rejected" =>
                           mailOf[id] \in Unroutable \/ amiss
<1>1. GatewayInv /\ CauseInv /\ [GatewayNext]_gatewayVars => [Step]_gatewayVars
  <2> SUFFICES ASSUME GatewayInv, CauseInv, GatewayNext, NEW id \in Ids,
                      inbox'[id].status = "rejected", inbox[id].status # "rejected"
               PROVE  mailOf[id] \in Unroutable \/ amiss
    OBVIOUS
  <2>1. inbox' = inbox \/ WorkerStep
    <3>1. \A other \in Ids : Post(other) => inbox' = inbox
      BY Zenon DEF Post, GetObject
    <3>2. Receive \/ TimeOut => inbox' = inbox
      BY Zenon DEF Receive, TimeOut, RepliesFor, OdooAnswers
    <3>3. Redeploy \/ OdooStep => inbox' = inbox
      BY Zenon DEF Redeploy, Crash, Evict, OdooStep, workerVars, vars
    <3> QED
      BY <3>1, <3>2, <3>3, Zenon DEF GatewayNext
  <2>2. pc = "answered" /\ cur = id /\ verdict = "rejected"
    BY <2>1, RejectedBySettle DEF GatewayInv, WorkerInv, SafetyInv
  <2> QED
    BY <2>2 DEF CauseInv, VerdictCaused
<1> QED
  BY <1>1, GatewayInvariant, CausesKnown, PTL DEF GatewaySpec, RejectedHasCause
=============================================================================
