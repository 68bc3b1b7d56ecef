----------------------------- MODULE EmailWorker ----------------------------
(***************************************************************************)
(* The inbound gateway as the sending MTA sees it: email()                 *)
(* (worker/src/handlers/email.ts) on top of InboxQueue.  A mail whose      *)
(* email() threw got a temporary failure and is sent again; every          *)
(* invocation of email() mints a new id, so one mail may have several.     *)
(***************************************************************************)
EXTENDS InboxQueue

CONSTANTS
    Mails,
    UnsafeMails     \* an envelope address assertHeaderSafe refuses

ASSUME MailsAssumption == UnsafeMails \subseteq Mails /\ Null \notin Mails

VARIABLES
    sender,     \* what the sending MTA knows of its mail
    mailOf      \* the mail an id was minted for

workerVars == <<vars, sender, mailOf>>

\* setReject(): a permanent failure, nothing is stored.
RejectEnvelope(m) ==
    /\ sender[m] = "outbox" /\ m \in UnsafeMails
    /\ sender' = [sender EXCEPT ![m] = "bounced"]
    /\ UNCHANGED <<vars, mailOf>>

\* email(): mint an id, store the message.  A throwing put() defers the mail.
StoreMail(m, id) ==
    /\ sender[m] \in {"outbox", "deferred"} /\ m \notin UnsafeMails
    /\ mailOf[id] = Null
    /\ Put(id)
    /\ mailOf' = [mailOf EXCEPT ![id] = m]
    /\ sender' = [sender EXCEPT ![m] = IF call'[id] = "failed" THEN "deferred"
                                       ELSE "transmitting"]

AcceptAnyway(id) ==         \* variant: email() swallows the failure to queue
    /\ Enqueue(id) \/ EnqueueLost(id)
    /\ sender' = [sender EXCEPT ![mailOf[id]] = "accepted"]
    /\ UNCHANGED mailOf

\* email() goes on to enqueue(); a failure is rethrown and defers the mail.
QueueMail(id) ==
    /\ Enqueue(id) \/ EnqueueLost(id)
    /\ sender' = [sender EXCEPT ![mailOf[id]] = IF call'[id] = "done" THEN "accepted"
                                                ELSE "deferred"]
    /\ UNCHANGED mailOf

\* The sending MTA gives a deferred mail up and tells its author.
SenderGivesUp(m) ==
    /\ sender[m] = "deferred"
    /\ sender' = [sender EXCEPT ![m] = "bounced"]
    /\ UNCHANGED <<vars, mailOf>>

WorkerInit ==
    /\ Init
    /\ sender = [m \in Mails |-> "outbox"]
    /\ mailOf = [id \in Ids |-> Null]

WorkerNext ==
    \/ \E m \in Mails : RejectEnvelope(m) \/ SenderGivesUp(m)
    \/ \E m \in Mails, id \in Ids : StoreMail(m, id)
    \/ \E id \in Ids : QueueMail(id)
    \/ (Pass \/ Operator \/ Platform) /\ UNCHANGED <<sender, mailOf>>

WorkerSpec == WorkerInit /\ [][WorkerNext]_workerVars

-----------------------------------------------------------------------------
(* The promise to the sender. *)

WorkerTypeOK ==
    /\ TypeOK
    /\ sender \in [Mails -> {"outbox", "transmitting", "deferred", "accepted", "bounced"}]
    /\ mailOf \in [Ids -> Mails \cup {Null}]

\* The invocation whose normal return accepted the mail (at most one).
AcceptedAs(m) == {id \in Ids : mailOf[id] = m /\ call[id] = "done"}

\* Who answers for the mail, and whether the bucket has it.
OwnerOf(m) ==
    IF sender[m] # "accepted" THEN "sender"
    ELSE IF AcceptedAs(m) \cap taken # {} THEN "odoo"
    ELSE IF AcceptedAs(m) \cap waived # {} THEN "operator"
    ELSE "worker"

CopyOf(m) == sender[m] = "accepted" /\ AcceptedAs(m) \cap objects # {}

Promise == INSTANCE MailCustody
               WITH owner <- [m \in Mails |-> OwnerOf(m)],
                    copy <- [m \in Mails |-> CopyOf(m)]

\* The gateway implements MailCustody: a sender told 250 never has to send
\* again, and nothing but a commit in Odoo or an operator ends custody
\* (handlers/email.ts:21-34).
ImplementsCustody == Promise!CustodySpec
=============================================================================
