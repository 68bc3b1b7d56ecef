------------------------------- MODULE Gateway ------------------------------
(***************************************************************************)
(* The inbound gateway end to end: the Worker (EmailWorker, InboxQueue)    *)
(* and the Odoo webhook (OdooInbound), joined at the POST of deliver()     *)
(* (worker/src/inbox-do.ts:494-529) and at the redeployment that gives the *)
(* Worker a new secret.                                                    *)
(*                                                                         *)
(* alarm() awaits one request.  It stops waiting at its timeout, or dies   *)
(* with the object, while the request goes on in Odoo and may commit; the  *)
(* message is then posted again by another request.  Here `taken` is what  *)
(* the Worker was told: the messages a request answered with a 2xx.        *)
(***************************************************************************)
EXTENDS EmailWorker

CONSTANTS
    Requests, WithMessageId, Unroutable, Ignored, MaxTries, MaxSecrets

VARIABLES
    server, https, worker, phase, mail, signed, stale, tries,
    snapshot, outdated, reply, posted,
    request,    \* the request alarm() awaits
    amiss       \* auxiliary: the Worker's key or secret was not a confirmed
                \* server's at some time of the attempt in progress

\* The answers InboxQueue reckons with include the controller's.
ASSUME StatusAssumption == {200, 401, 404, 422, 500} \subseteq Answers

ASSUME WebhookAssumption ==
    /\ WithMessageId \subseteq Mails /\ Unroutable \subseteq Mails /\ Ignored \subseteq Mails
    /\ MaxTries \in Nat \ {0} /\ MaxSecrets \in Nat
    /\ Null \notin Requests

Odoo == INSTANCE OdooInbound WITH None <- Null

odooVars == <<server, https, worker, phase, mail, signed, stale, tries,
              snapshot, outdated, reply, posted>>
attemptVars == <<request, amiss>>
gatewayVars == <<workerVars, odooVars, attemptVars>>

-----------------------------------------------------------------------------
\* What the Worker was deployed with is what Odoo accepts.
Agree ==
    /\ Odoo!FoundByKey(worker.key)
    /\ server.secret # 0 /\ worker.secret = server.secret

PostUnread(id) ==       \* variant: a message gone from the bucket is posted empty
    /\ Turn(id)
    /\ cur' = id /\ pc' = "posting"
    /\ \E r \in Requests : Odoo!Send(r, mailOf[id]) /\ request' = r
    /\ amiss' = ~Agree
    /\ UNCHANGED <<call, objects, inbox, alarmVars, seen, verdict, expired, healthy,
                   threw, removing, configOk, faults, history, sender, mailOf>>

\* deliver() builds the request and fetches.  Unused requests are alike.
Post(id) ==
    /\ GetObject(id)
    /\ \E r \in Requests : Odoo!Send(r, mailOf[id]) /\ request' = r
    /\ amiss' = ~Agree
    /\ UNCHANGED <<sender, mailOf>>

RepliesFor(status) ==
    /\ OdooAnswers(status)
    /\ status \in 200..299 \/ taken' = taken
    /\ request' = Null
    /\ UNCHANGED <<sender, mailOf, odooVars, amiss>>

TimeOutAccepts ==       \* variant: an attempt without an answer counts as delivered
    /\ pc = "posting" /\ phase[request] # "answered"
    /\ RepliesFor(200)

\* The response to the request arrives, or the news that there is none.
Receive ==
    /\ pc = "posting" /\ phase[request] = "answered"
    /\ RepliesFor(reply[request])

\* AbortSignal.timeout(config.deliveryTimeoutMs).
TimeOut ==
    /\ pc = "posting" /\ phase[request] # "answered"
    /\ RepliesFor(NoStatus)

\* The other steps of the Worker.  One that kills alarm() drops the request.
WorkerStep ==
    /\ \/ /\ \/ PassStart \/ SettleAttempt \/ PurgeSelect \/ PurgeObjects
             \/ PurgeRows \/ Rearm
             \/ \E id \in Ids : ObjectMissing(id) \/ GetObjectFails(id)
             \/ Operator \/ Platform
          /\ taken' = taken
          /\ UNCHANGED <<sender, mailOf>>
       \/ \E m \in Mails : RejectEnvelope(m) \/ SenderGivesUp(m)
       \/ \E m \in Mails, id \in Ids : StoreMail(m, id)
       \/ \E id \in Ids : QueueMail(id)
    /\ request' = IF pc' = "posting" THEN request ELSE Null
    /\ amiss' = (amiss /\ pc' \in {"posting", "answered"})
    /\ UNCHANGED odooVars

\* A new secret reaches the Worker with a deployment, which evicts the object.
Redeploy ==
    /\ worker # [key |-> server.key, secret |-> server.secret]
    /\ Odoo!DeployWorker
    /\ Crash /\ taken' = taken
    /\ request' = Null /\ amiss' = FALSE
    /\ UNCHANGED <<sender, mailOf>>

\* The timestamp of a request the Worker awaits cannot expire: the timeout is at
\* most MAX_TIMEOUT_SECONDS (config.ts:33), well below SIGNATURE_TOLERANCE.  One
\* that nobody awaits may stop anywhere; what ends it, an old timestamp or a
\* killed process, is told to nobody.
OdooStep ==
    /\ \/ \E r \in Requests :
             \/ Odoo!Refuse(r) \/ Odoo!Open(r) \/ Odoo!Commit(r) \/ Odoo!Conflict(r)
             \/ Odoo!Fail(r)
             \/ r = request /\ Odoo!Lose(r)
       \/ Odoo!RegenerateSecret \/ Odoo!Confirm \/ Odoo!SetDraft
    /\ amiss' = (amiss \/ (pc = "posting" /\ ~Agree'))
    /\ UNCHANGED <<workerVars, request>>

\* The gateway in use: a confirmed server whose key and secret were deployed.
GatewayInit ==
    /\ WorkerInit
    /\ server = Odoo!WithCredentials(
                    [type |-> "imap", key |-> 0, secret |-> 0, state |-> "done",
                     active |-> TRUE])
    /\ https = TRUE
    /\ worker = [key |-> server.key, secret |-> server.secret]
    /\ phase = [r \in Requests |-> "unsent"]
    /\ mail = [r \in Requests |-> Null]
    /\ signed = [r \in Requests |-> [key |-> 0, secret |-> 0]]
    /\ stale = [r \in Requests |-> FALSE]
    /\ tries = [r \in Requests |-> 0]
    /\ snapshot = [r \in Requests |-> Null]
    /\ outdated = [r \in Requests |-> FALSE]
    /\ reply = [r \in Requests |-> Null]
    /\ posted = {}
    /\ request = Null /\ amiss = FALSE

GatewayNext ==
    \/ \E id \in Ids : Post(id)
    \/ Receive \/ TimeOut \/ WorkerStep \/ Redeploy \/ OdooStep

GatewaySpec == GatewayInit /\ [][GatewayNext]_gatewayVars

-----------------------------------------------------------------------------
(* What must hold. *)

GatewayTypeOK ==
    /\ WorkerTypeOK
    /\ Odoo!TypeOK
    /\ request \in Requests \cup {Null} /\ (request # Null <=> pc = "posting")
    /\ amiss \in BOOLEAN

\* Odoo has the message, or has dropped it on purpose (a bounce, a loop).
InOdoo(m) == m \in Ignored \/ \E p \in posted : mail[p] = m

\* A mail its sender was told 250 for is in Odoo, or in the bucket with a row
\* pointing at it, or an operator gave it up: whatever the interleaving of
\* purges, timeouts, redeployments and requests that outlive their attempt
\* (handlers/email.ts:24-27; main.py:80-110).
NothingLost ==
    \A m \in Mails : sender[m] = "accepted" =>
        \/ InOdoo(m)
        \/ \E id \in AcceptedAs(m) : id \in waived \/ Kept(id)

\* What the Worker takes for delivered, and purges, Odoo has: what InboxQueue
\* assumes of a 2xx holds of the webhook (inbox-do.ts:546-552; main.py:80-110).
TakenIsInOdoo == \A id \in taken : InOdoo(mailOf[id])

\* The Worker of the composition is the one of EmailWorker, whose promises hold of
\* any answers: what the webhook does stays within them.
ImplementsWorker == WorkerSpec

\* However often a mail is stored, queued, posted and requeued, Odoo has it once
\* if it has a Message-Id ("Duplicates are ignored by Message-Id",
\* mail_cloudflare/README.md:32).
OneMessageInOdoo ==
    \A p, q \in posted : mail[p] = mail[q] /\ mail[p] \in WithMessageId => p = q

\* A row is parked as rejected for a reason an operator can see: Odoo refuses
\* the message itself, or the Worker's credentials were not a confirmed server's
\* during the attempt (main.py:61-79, 104; lib/backoff.ts).  Causes outside the
\* model are clocks that differ by more than SIGNATURE_TOLERANCE, and whatever
\* stands in front of Odoo and answers with a 3xx or 4xx of its own.
RejectedHasCause ==
    [][\A id \in Ids :
           inbox'[id].status = "rejected" /\ inbox[id].status # "rejected" =>
               mailOf[id] \in Unroutable \/ amiss]_gatewayVars
=============================================================================
