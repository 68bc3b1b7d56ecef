----------------------------- MODULE OdooInbound ----------------------------
(***************************************************************************)
(* The Odoo end of the gateway: the webhook controller                     *)
(* (mail_cloudflare/controllers/main.py), the incoming mail server record  *)
(* it serves (mail_cloudflare/models/fetchmail_server.py) and the requests *)
(* of the Worker, several of which may be in progress at once: the Worker  *)
(* that timed out sends the message again while the first request runs.    *)
(*                                                                         *)
(* A request runs in one REPEATABLE READ transaction: it reads a snapshot, *)
(* and its write of the server's `date` fails when the row was written     *)
(* since; service.model.retrying then runs the controller again on a fresh *)
(* snapshot.  PostgreSQL, retrying() and message_process are modelled from *)
(* how the controller uses them.  The cron that polls other servers is the *)
(* subject of PollingCron.                                                 *)
(***************************************************************************)
EXTENDS Naturals, FiniteSets

CONSTANTS
    Requests,       \* the POSTs the Worker sends
    Mails,          \* the messages they carry
    WithMessageId,  \* those that have a Message-Id header
    Unroutable,     \* those refused with ValueError: no route, a bad envelope
    Ignored,        \* those message_process drops: bounces and loops
    MaxTries,       \* MAX_TRIES_ON_CONCURRENCY_FAILURE of retrying()
    MaxSecrets,     \* bound: how many secrets are generated
    None            \* no mail, no answer, no snapshot

ASSUME MailsAssumption ==
    WithMessageId \subseteq Mails /\ Unroutable \subseteq Mails /\ Ignored \subseteq Mails
ASSUME NoneAssumption == None \notin Nat /\ None \notin Mails
ASSUME TriesAssumption == MaxTries \in Nat \ {0} /\ MaxSecrets \in Nat

VARIABLES
    server,     \* the committed fetchmail.server row
    https,      \* whether web.base.url is an https address
    worker,     \* the URL key and the secret the Worker was deployed with
    phase,      \* where each request is
    mail,       \* the message it carries
    signed,     \* the key and the secret it was sent with
    stale,      \* whether its timestamp is outside SIGNATURE_TOLERANCE by now
    tries,      \* how often retrying() has run it
    snapshot,   \* the messages its transaction sees
    outdated,   \* whether the server row was written since it took the snapshot
    reply,      \* the status it was answered
    posted      \* the requests whose message is committed

serverVars == <<server, https, worker>>
requestVars == <<phase, mail, signed, stale, tries, snapshot, outdated, reply>>
vars == <<serverVars, requestVars, posted>>

\* Credentials are numbered as they are generated; 0 is none yet.
Credentials == [key : Nat, secret : Nat]
Server == [type   : {"imap", "cloudflare"},
           key    : Nat,
           secret : Nat,
           state  : {"draft", "done"},
           active : BOOLEAN]

-----------------------------------------------------------------------------
(* The server record. *)

\* Every write of the row makes the transactions in progress fail on theirs.
WriteServer(row) ==
    /\ server' = row
    /\ outdated' = [r \in Requests |-> phase[r] = "open" \/ outdated[r]]

\* create() and write() with server_type = "cloudflare": whatever credential is
\* missing is generated, the others are kept.
WithNewKey(row) ==      \* variant: a new key at every switch to this type
    [row EXCEPT !.type = "cloudflare", !.key = @ + 1,
                !.secret = IF @ = 0 THEN 1 ELSE @]

WithKeyOnly(row) ==     \* variant: a server without a secret stays without
    [row EXCEPT !.type = "cloudflare", !.key = IF @ = 0 THEN 1 ELSE @]

WithCredentials(row) ==
    [row EXCEPT !.type = "cloudflare",
                !.key = IF @ = 0 THEN 1 ELSE @,
                !.secret = IF @ = 0 THEN 1 ELSE @]

BecomeCloudflare ==
    /\ WriteServer(WithCredentials(server))
    /\ UNCHANGED <<https, worker, phase, mail, signed, stale, tries, snapshot,
                   reply, posted>>

BecomeImap ==
    /\ server.type = "cloudflare"
    /\ WriteServer([server EXCEPT !.type = "imap"])
    /\ UNCHANGED <<https, worker, phase, mail, signed, stale, tries, snapshot,
                   reply, posted>>

\* action_regenerate_cloudflare_webhook_secret(): the key is left alone.
RegenerateSecret ==
    /\ server.secret < MaxSecrets
    /\ WriteServer([server EXCEPT !.secret = @ + 1])
    /\ UNCHANGED <<https, worker, phase, mail, signed, stale, tries, snapshot,
                   reply, posted>>

\* button_confirm_login(): for a Cloudflare server, no network but credentials
\* and an https base URL.
Confirm ==
    /\ server.type = "cloudflare" => server.key # 0 /\ server.secret # 0 /\ https
    /\ WriteServer([server EXCEPT !.state = "done"])
    /\ UNCHANGED <<https, worker, phase, mail, signed, stale, tries, snapshot,
                   reply, posted>>

\* The core's set_draft(), and archiving or restoring the record.
SetDraft ==
    /\ server.state = "done"
    /\ WriteServer([server EXCEPT !.state = "draft"])
    /\ UNCHANGED <<https, worker, phase, mail, signed, stale, tries, snapshot,
                   reply, posted>>

ToggleActive ==
    /\ WriteServer([server EXCEPT !.active = ~@])
    /\ UNCHANGED <<https, worker, phase, mail, signed, stale, tries, snapshot,
                   reply, posted>>

ChangeBaseUrl ==
    /\ https' = ~https
    /\ UNCHANGED <<server, worker, requestVars, posted>>

\* The Worker is given the URL and the secret the form shows.
DeployWorker ==
    /\ server.type = "cloudflare"
    /\ worker' = [key |-> server.key, secret |-> server.secret]
    /\ UNCHANGED <<server, https, requestVars, posted>>

-----------------------------------------------------------------------------
(* A request. *)

\* InboxQueue.deliver() signs at the time of the attempt.
Send(r, m) ==
    /\ phase[r] = "unsent" /\ worker.key # 0
    /\ phase' = [phase EXCEPT ![r] = "received"]
    /\ mail' = [mail EXCEPT ![r] = m]
    /\ signed' = [signed EXCEPT ![r] = worker]
    /\ UNCHANGED <<serverVars, stale, tries, snapshot, outdated, reply, posted>>

\* The request waits for a worker process, or for its next try.
Expire(r) ==
    /\ phase[r] = "received" /\ ~stale[r]
    /\ stale' = [stale EXCEPT ![r] = TRUE]
    /\ UNCHANGED <<serverVars, phase, mail, signed, tries, snapshot, outdated, reply,
                   posted>>

Answer(r, status) ==
    /\ phase' = [phase EXCEPT ![r] = "answered"]
    /\ reply' = [reply EXCEPT ![r] = status]
    /\ snapshot' = [snapshot EXCEPT ![r] = None]

\* _cloudflare_find_by_key: the confirmed, active server with that key.
FoundByKey(key) ==
    /\ server.key = key
    /\ server.type = "cloudflare" /\ server.state = "done" /\ server.active

\* _cloudflare_verify_signature.
verifySignature(r) ==
    /\ server.secret # 0
    /\ ~stale[r]
    /\ signed[r].secret = server.secret

Refuse(r) ==
    /\ phase[r] = "received"
    /\ \/ ~FoundByKey(signed[r].key) /\ Answer(r, 404)
       \/ FoundByKey(signed[r].key) /\ ~verifySignature(r) /\ Answer(r, 401)
    /\ UNCHANGED <<serverVars, mail, signed, stale, tries, outdated, posted>>

\* The first query of the transaction takes the snapshot the checks pass on.
Open(r) ==
    /\ phase[r] = "received"
    /\ FoundByKey(signed[r].key) /\ verifySignature(r)
    /\ phase' = [phase EXCEPT ![r] = "open"]
    /\ snapshot' = [snapshot EXCEPT ![r] = posted]
    /\ outdated' = [outdated EXCEPT ![r] = FALSE]
    /\ UNCHANGED <<serverVars, mail, signed, stale, tries, reply, posted>>

\* message_process finds the Message-Id among the messages of the snapshot.
Duplicate(r) ==
    /\ mail[r] \in WithMessageId
    /\ \E p \in snapshot[r] : mail[p] = mail[r]

CommitWithoutDate(r) ==     \* variant: the server row is not written
    /\ phase[r] = "open" /\ mail[r] \notin Unroutable
    /\ posted' = IF Duplicate(r) \/ mail[r] \in Ignored THEN posted ELSE posted \cup {r}
    /\ Answer(r, 200)
    /\ UNCHANGED <<serverVars, mail, signed, stale, tries, outdated>>

\* _cloudflare_process_inbound and the commit: the message, and the write of
\* `date` (with write_date, so never an empty UPDATE) that lets only one of two
\* overlapping requests through.
Commit(r) ==
    /\ phase[r] = "open" /\ mail[r] \notin Unroutable
    /\ ~outdated[r]
    /\ posted' = IF Duplicate(r) \/ mail[r] \in Ignored THEN posted ELSE posted \cup {r}
    /\ WriteServer(server)
    /\ Answer(r, 200)
    /\ UNCHANGED <<https, worker, mail, signed, stale, tries>>

ConflictForever(r) ==       \* variant: one try more than retrying() makes
    /\ phase[r] = "open" /\ mail[r] \notin Unroutable
    /\ outdated[r]
    /\ \/ /\ tries[r] < MaxTries
          /\ tries' = [tries EXCEPT ![r] = @ + 1]
          /\ phase' = [phase EXCEPT ![r] = "received"]
          /\ snapshot' = [snapshot EXCEPT ![r] = None]
          /\ UNCHANGED reply
       \/ tries[r] >= MaxTries /\ Answer(r, 500) /\ UNCHANGED tries
    /\ UNCHANGED <<serverVars, mail, signed, stale, outdated, posted>>

\* The write of `date` fails: rolled back, and run again while tries are left.
\* Otherwise retrying() gives up and the answer is a 500.
Conflict(r) ==
    /\ phase[r] = "open" /\ mail[r] \notin Unroutable
    /\ outdated[r]
    /\ \/ /\ tries[r] + 1 < MaxTries
          /\ tries' = [tries EXCEPT ![r] = @ + 1]
          /\ phase' = [phase EXCEPT ![r] = "received"]
          /\ snapshot' = [snapshot EXCEPT ![r] = None]
          /\ UNCHANGED reply
       \/ tries[r] + 1 >= MaxTries /\ Answer(r, 500) /\ UNCHANGED tries
    /\ UNCHANGED <<serverVars, mail, signed, stale, outdated, posted>>

FailWithoutRollback(r) ==   \* variant: the answer returned commits what was written
    /\ phase[r] = "open"
    /\ \/ mail[r] \in Unroutable /\ Answer(r, 422)
       \/ Answer(r, 500)
    /\ posted' = posted \cup {r}
    /\ UNCHANGED <<serverVars, mail, signed, stale, tries, outdated>>

FailPermanently(r) ==       \* variant: every exception answers 422
    /\ phase[r] = "open"
    /\ Answer(r, 422)
    /\ UNCHANGED <<serverVars, mail, signed, stale, tries, outdated, posted>>

\* ValueError: rolled back, 422.  Any other exception: rolled back, 500.
Fail(r) ==
    /\ phase[r] = "open"
    /\ \/ mail[r] \in Unroutable /\ Answer(r, 422)
       \/ Answer(r, 500)
    /\ UNCHANGED <<serverVars, mail, signed, stale, tries, outdated, posted>>

\* The process is killed, or the answer does not reach the Worker in time.
Lose(r) ==
    /\ phase[r] \in {"received", "open", "answered"}
    /\ reply[r] # 0
    /\ phase' = [phase EXCEPT ![r] = "answered"]
    /\ reply' = [reply EXCEPT ![r] = 0]
    /\ snapshot' = [snapshot EXCEPT ![r] = None]
    /\ UNCHANGED <<serverVars, mail, signed, stale, tries, outdated, posted>>

-----------------------------------------------------------------------------
Init ==
    /\ server \in {WithCredentials(
                       [type |-> "imap", key |-> 0, secret |-> 0, state |-> "draft",
                        active |-> TRUE]),
                   [type |-> "imap", key |-> 0, secret |-> 0, state |-> "draft",
                    active |-> TRUE]}
    /\ https \in BOOLEAN
    /\ worker = [key |-> 0, secret |-> 0]
    /\ phase = [r \in Requests |-> "unsent"]
    /\ mail = [r \in Requests |-> None]
    /\ signed = [r \in Requests |-> [key |-> 0, secret |-> 0]]
    /\ stale = [r \in Requests |-> FALSE]
    /\ tries = [r \in Requests |-> 0]
    /\ snapshot = [r \in Requests |-> None]
    /\ outdated = [r \in Requests |-> FALSE]
    /\ reply = [r \in Requests |-> None]
    /\ posted = {}

Administer ==
    \/ BecomeCloudflare \/ BecomeImap \/ RegenerateSecret \/ Confirm \/ SetDraft
    \/ ToggleActive \/ ChangeBaseUrl \/ DeployWorker

Serve(r) ==
    \/ Expire(r) \/ Refuse(r) \/ Open(r) \/ Commit(r) \/ Conflict(r) \/ Fail(r) \/ Lose(r)
    \/ \E m \in Mails : Send(r, m)

Next == Administer \/ \E r \in Requests : Serve(r)

Spec == Init /\ [][Next]_vars

-----------------------------------------------------------------------------
(* What must hold. *)

\* Every variable keeps its type.
TypeOK ==
    /\ server \in Server
    /\ https \in BOOLEAN
    /\ worker \in Credentials
    /\ phase \in [Requests -> {"unsent", "received", "open", "answered"}]
    /\ mail \in [Requests -> Mails \cup {None}]
    /\ signed \in [Requests -> Credentials]
    /\ stale \in [Requests -> BOOLEAN]
    /\ tries \in [Requests -> 0 .. MaxTries - 1]
    /\ snapshot \in [Requests -> (SUBSET Requests) \cup {None}]
    /\ outdated \in [Requests -> BOOLEAN]
    /\ reply \in [Requests -> Nat \cup {None}]
    /\ posted \subseteq Requests

\* "Duplicates are ignored by Message-Id" (mail_cloudflare/README.md:32), also
\* when the request of a first attempt is still running as the next arrives.
PostedOnce ==
    \A p, q \in posted : mail[p] = mail[q] /\ mail[p] \in WithMessageId => p = q

\* What the Worker concludes from an answer is true: 200 means the message is
\* in Odoo or was deliberately dropped, any other status that this request
\* left nothing behind (main.py:80-110; the rows of the README's table).
AnswersTrue ==
    \A r \in Requests :
        /\ reply[r] = 200 =>
               \/ mail[r] \in Ignored
               \/ \E p \in posted : mail[p] = mail[r]
        /\ reply[r] \in {401, 404, 422, 500} => r \notin posted

\* "Requests signed with the previous secret are rejected from now on"
\* (fetchmail_server.py:221-223): a message is committed only under the secret,
\* the confirmation and the archiving of the moment of its commit.
CommitsAuthorized ==
    [][\A r \in Requests : r \in posted' \ posted =>
           FoundByKey(signed[r].key) /\ signed[r].secret = server.secret]_vars

\* The URL the Worker was deployed with stays valid, whatever types the server
\* is switched to and back (fetchmail_server.py:192-194).
DeployedKeyStays == worker.key # 0 => worker.key = server.key

\* A confirmed Cloudflare server has what its URL and its signatures need,
\* whichever way it became one (fetchmail_server.py:195-207, 245-261).
ConfirmedIsUsable ==
    server.type = "cloudflare" /\ server.state = "done" =>
        server.key # 0 /\ server.secret # 0
=============================================================================
