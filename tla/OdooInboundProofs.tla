------------------------- MODULE OdooInboundProofs --------------------------
(***************************************************************************)
(* Proofs about OdooInbound for every set of requests and messages and     *)
(* every bound.  All of it rests on one invariant, WebhookInv: what a      *)
(* transaction in progress read is still so unless the server row was      *)
(* written since, and then its own write of `date` fails.                  *)
(***************************************************************************)
EXTENDS OdooInbound, TLAPS

\* A transaction that can still commit sees the messages and the server of now;
\* one that cannot saw some of the messages.
SnapshotCurrent ==
    \A r \in Requests : phase[r] = "open" =>
        /\ snapshot[r] \subseteq posted
        /\ ~outdated[r] =>
               /\ snapshot[r] = posted
               /\ FoundByKey(signed[r].key)
               /\ signed[r].secret = server.secret

\* A request that was sent carries a message; only one that was answered has
\* posted, and only such a one has a reply.
PostedIsAnswered ==
    /\ \A r \in Requests : phase[r] # "unsent" => mail[r] \in Mails
    /\ \A r \in posted : phase[r] = "answered"
    /\ \A r \in Requests : reply[r] # None => phase[r] = "answered"

\* A Cloudflare server has its credentials.
HasCredentials == server.type = "cloudflare" => server.key # 0 /\ server.secret # 0

WebhookInv ==
    /\ TypeOK /\ SnapshotCurrent /\ PostedIsAnswered /\ HasCredentials
    /\ PostedOnce /\ AnswersTrue /\ DeployedKeyStays

-----------------------------------------------------------------------------
\* What create() and write() make of a server row is one, with credentials, and
\* a key it had before is kept (fetchmail_server.py:179-208).
LEMMA CredentialsKept ==
    ASSUME NEW row \in Server
    PROVE  /\ WithCredentials(row) \in Server
           /\ WithCredentials(row).type = "cloudflare"
           /\ WithCredentials(row).key # 0 /\ WithCredentials(row).secret # 0
           /\ row.key # 0 => WithCredentials(row).key = row.key
           /\ WithCredentials(row).state = row.state
<1> DEFINE key == IF row.key = 0 THEN 1 ELSE row.key
           secret == IF row.secret = 0 THEN 1 ELSE row.secret
<1>1. /\ key \in Nat /\ key # 0 /\ secret \in Nat /\ secret # 0
      /\ row.key # 0 => key = row.key
  BY DEF Server
<1>2. WithCredentials(row) =
          [row EXCEPT !.type = "cloudflare", !.key = key, !.secret = secret]
  BY Zenon DEF WithCredentials
<1> HIDE DEF key, secret
<1> DEFINE new == [row EXCEPT !.type = "cloudflare", !.key = key, !.secret = secret]
<1>3. new \in Server
  BY <1>1 DEF Server
<1>4. new.type = "cloudflare" /\ new.key = key /\ new.secret = secret
      /\ new.state = row.state
  BY DEF Server
<1> QED
  BY <1>1, <1>2, <1>3, <1>4

\* The webhook starts well: no request, no message.
LEMMA WebhookInit == Init => WebhookInv
<1> DEFINE new == [type |-> "imap", key |-> 0, secret |-> 0, state |-> "draft",
                   active |-> TRUE]
<1> SUFFICES ASSUME Init PROVE WebhookInv
  OBVIOUS
<1>1. new \in Server
  BY DEF Server
<1>2. server \in Server /\ HasCredentials
  <2>1. server = WithCredentials(new) \/ server = new
    BY Zenon DEF Init
  <2>2. new.type # "cloudflare"
    OBVIOUS
  <2> HIDE DEF new
  <2> QED
    BY <1>1, <2>1, <2>2, CredentialsKept DEF HasCredentials
<1>3. TypeOK
  <2>1. 0 \in 0 .. MaxTries - 1
    BY TriesAssumption
  <2>2. [key |-> 0, secret |-> 0] \in Credentials
    BY DEF Credentials
  <2>3. stale \in [Requests -> BOOLEAN] /\ outdated \in [Requests -> BOOLEAN]
    BY DEF Init
  <2>4. tries \in [Requests -> 0 .. MaxTries - 1] /\ signed \in [Requests -> Credentials]
    BY <2>1, <2>2 DEF Init
  <2>5. /\ phase \in [Requests -> {"unsent", "received", "open", "answered"}]
        /\ mail \in [Requests -> Mails \cup {None}]
        /\ reply \in [Requests -> Nat \cup {None}]
    BY DEF Init
  <2>6. snapshot \in [Requests -> (SUBSET Requests) \cup {None}]
    BY DEF Init
  <2> QED
    BY <1>2, <2>2, <2>3, <2>4, <2>5, <2>6 DEF Init, TypeOK
<1>4. SnapshotCurrent /\ PostedIsAnswered /\ DeployedKeyStays
  BY DEF Init, SnapshotCurrent, PostedIsAnswered, DeployedKeyStays
<1>5. PostedOnce /\ AnswersTrue
  BY NoneAssumption DEF Init, PostedOnce, AnswersTrue
<1> QED
  BY <1>2, <1>3, <1>4, <1>5 DEF WebhookInv

\* The marks a write of the row leaves are truth values.
LEMMA OutdatedType ==
    [r \in Requests |-> phase[r] = "open" \/ outdated[r]] \in [Requests -> BOOLEAN]
<1> SUFFICES ASSUME NEW r \in Requests
             PROVE  (phase[r] = "open" \/ outdated[r]) \in BOOLEAN
  BY Zenon
<1> QED
  BY Zenon

\* A write of the server row from outside a request fails every transaction in
\* progress, and changes nothing else a request rests on.
LEMMA AdministratorWrites ==
    ASSUME WebhookInv, NEW row \in Server, WriteServer(row),
           UNCHANGED <<https, worker, phase, mail, signed, stale, tries, snapshot,
                       reply, posted>>,
           row.type = "cloudflare" => row.key # 0 /\ row.secret # 0,
           server.key # 0 => row.key = server.key
    PROVE  WebhookInv'
<1> USE DEF WebhookInv
<1>1. outdated' \in [Requests -> BOOLEAN]
  BY OutdatedType DEF TypeOK, WriteServer
<1>2. TypeOK'
  BY <1>1 DEF TypeOK, WriteServer
<1>3. SnapshotCurrent'
  BY DEF TypeOK, WriteServer, SnapshotCurrent
<1>4. PostedIsAnswered' /\ PostedOnce' /\ AnswersTrue'
  BY DEF PostedIsAnswered, PostedOnce, AnswersTrue
<1>5. HasCredentials' /\ DeployedKeyStays'
  BY DEF WriteServer, HasCredentials, DeployedKeyStays
<1> QED
  BY <1>2, <1>3, <1>4, <1>5

\* Administration keeps the invariant.
LEMMA AdministerKeeps == WebhookInv /\ Administer => WebhookInv'
<1> SUFFICES ASSUME WebhookInv, Administer PROVE WebhookInv'
  OBVIOUS
<1> USE DEF WebhookInv
<1>0. server \in Server /\ HasCredentials /\ TypeOK
  BY DEF TypeOK
<1>1. CASE BecomeCloudflare
  BY <1>0, <1>1, CredentialsKept, AdministratorWrites DEF BecomeCloudflare
<1>2. CASE BecomeImap
  <2>1. [server EXCEPT !.type = "imap"] \in Server
    BY <1>0 DEF Server
  <2> QED
    BY <1>0, <1>2, <2>1, AdministratorWrites DEF BecomeImap, Server
<1>3. CASE RegenerateSecret
  <2> DEFINE row == [server EXCEPT !.secret = @ + 1]
  <2>1. row \in Server /\ row.secret # 0 /\ row.key = server.key /\ row.type = server.type
    BY <1>0 DEF Server
  <2> QED
    BY <1>0, <1>3, <2>1, AdministratorWrites DEF RegenerateSecret, HasCredentials
<1>4. CASE Confirm
  <2> DEFINE row == [server EXCEPT !.state = "done"]
  <2>1. row \in Server /\ row.secret = server.secret /\ row.key = server.key
        /\ row.type = server.type
    BY <1>0 DEF Server
  <2> QED
    BY <1>0, <1>4, <2>1, AdministratorWrites DEF Confirm, HasCredentials
<1>5. CASE SetDraft
  <2> DEFINE row == [server EXCEPT !.state = "draft"]
  <2>1. row \in Server /\ row.secret = server.secret /\ row.key = server.key
        /\ row.type = server.type
    BY <1>0 DEF Server
  <2> QED
    BY <1>0, <1>5, <2>1, AdministratorWrites DEF SetDraft, HasCredentials
<1>6. CASE ToggleActive
  <2> DEFINE row == [server EXCEPT !.active = ~@]
  <2>1. row \in Server /\ row.secret = server.secret /\ row.key = server.key
        /\ row.type = server.type
    BY <1>0 DEF Server
  <2> QED
    BY <1>0, <1>6, <2>1, AdministratorWrites DEF ToggleActive, HasCredentials
<1>7. CASE ChangeBaseUrl
  BY <1>7 DEF ChangeBaseUrl, requestVars, TypeOK, SnapshotCurrent, FoundByKey,
              PostedIsAnswered, HasCredentials, PostedOnce, AnswersTrue,
              DeployedKeyStays
<1>8. CASE DeployWorker
  BY <1>8 DEF DeployWorker, requestVars, TypeOK, Server, Credentials,
              SnapshotCurrent, FoundByKey, PostedIsAnswered, HasCredentials,
              PostedOnce, AnswersTrue, DeployedKeyStays
<1> QED
  BY <1>1, <1>2, <1>3, <1>4, <1>5, <1>6, <1>7, <1>8 DEF Administer

\* A request that posts nothing and leaves the server row alone keeps the
\* invariant, when what it says of itself stays true.
LEMMA QuietRequest ==
    ASSUME WebhookInv, TypeOK', NEW r \in Requests,
           UNCHANGED <<server, worker, posted>>,
           \A q \in Requests \ {r} :
               /\ phase'[q] = phase[q] /\ mail'[q] = mail[q] /\ signed'[q] = signed[q]
               /\ snapshot'[q] = snapshot[q] /\ outdated'[q] = outdated[q]
               /\ reply'[q] = reply[q],
           phase'[r] # "unsent" => mail'[r] \in Mails,
           phase'[r] = "open" =>
               /\ snapshot'[r] = posted
               /\ FoundByKey(signed'[r].key) /\ signed'[r].secret = server.secret,
           r \in posted => phase'[r] = "answered" /\ mail'[r] = mail[r],
           reply'[r] # None => phase'[r] = "answered" /\ reply'[r] # 200,
           reply'[r] \in {401, 404, 422, 500} => r \notin posted
    PROVE  WebhookInv'
<1> USE DEF WebhookInv
<1>1. SnapshotCurrent'
  BY DEF SnapshotCurrent, FoundByKey
<1>2. PostedIsAnswered'
  BY DEF PostedIsAnswered, TypeOK
<1>3. \A p \in posted : mail'[p] = mail[p]
  BY DEF TypeOK
<1>4. PostedOnce'
  BY <1>3 DEF PostedOnce
<1>5. AnswersTrue'
  <2> SUFFICES ASSUME NEW q \in Requests
               PROVE  /\ reply'[q] = 200 =>
                             mail'[q] \in Ignored \/ \E p \in posted : mail'[p] = mail'[q]
                      /\ reply'[q] \in {401, 404, 422, 500} => q \notin posted
    BY DEF AnswersTrue
  <2>1. CASE q = r
    BY <2>1, NoneAssumption
  <2>2. CASE q # r
    BY <1>3, <2>2 DEF AnswersTrue
  <2> QED
    BY <2>1, <2>2
<1>6. HasCredentials' /\ DeployedKeyStays'
  BY DEF HasCredentials, DeployedKeyStays
<1> QED
  BY <1>1, <1>2, <1>4, <1>5, <1>6

\* A commit answers 200 for a message that is in Odoo then, and posts none that
\* was there: the snapshot it decided on was still the state.
LEMMA CommitKeeps == ASSUME NEW r \in Requests, WebhookInv, Commit(r) PROVE WebhookInv'
<1> USE DEF WebhookInv
<1>1. /\ phase[r] = "open" /\ mail[r] \in Mails /\ r \notin posted
      /\ snapshot[r] = posted
  BY DEF Commit, SnapshotCurrent, PostedIsAnswered
<1>2. posted' = IF Duplicate(r) \/ mail[r] \in Ignored THEN posted ELSE posted \cup {r}
  BY Zenon DEF Commit
<1>3. /\ phase' = [phase EXCEPT ![r] = "answered"]
      /\ reply' = [reply EXCEPT ![r] = 200]
      /\ snapshot' = [snapshot EXCEPT ![r] = None]
      /\ server' = server
      /\ outdated' = [q \in Requests |-> phase[q] = "open" \/ outdated[q]]
      /\ UNCHANGED <<https, worker, mail, signed, stale, tries>>
  BY Zenon DEF Commit, Answer, WriteServer
<1>4. TypeOK'
  <2>1. outdated' \in [Requests -> BOOLEAN]
    BY <1>3, OutdatedType
  <2>2. posted' \subseteq Requests
    BY <1>2 DEF TypeOK
  <2> QED
    BY <1>3, <2>1, <2>2 DEF TypeOK
<1>5. SnapshotCurrent'
  <2> SUFFICES ASSUME NEW q \in Requests, phase'[q] = "open"
               PROVE  snapshot'[q] \subseteq posted' /\ outdated'[q]
    BY Zenon DEF SnapshotCurrent
  <2>1. q # r /\ phase[q] = "open"
    BY <1>3 DEF TypeOK
  <2>2. posted \subseteq posted'
    BY <1>2
  <2> QED
    BY <1>3, <2>1, <2>2 DEF TypeOK, SnapshotCurrent
<1>6. PostedIsAnswered'
  BY <1>1, <1>2, <1>3 DEF TypeOK, PostedIsAnswered
<1>7. PostedOnce'
  BY <1>1, <1>2, <1>3 DEF PostedOnce, Duplicate
<1>8. AnswersTrue'
  <2> SUFFICES ASSUME NEW q \in Requests
               PROVE  /\ reply'[q] = 200 =>
                             mail[q] \in Ignored \/ \E p \in posted' : mail[p] = mail[q]
                      /\ reply'[q] \in {401, 404, 422, 500} => q \notin posted'
    BY <1>3 DEF AnswersTrue
  <2>1. CASE q = r
    BY <1>1, <1>2, <1>3, <2>1 DEF Duplicate, TypeOK
  <2>2. CASE q # r
    BY <1>2, <1>3, <2>2 DEF AnswersTrue, TypeOK
  <2> QED
    BY <2>1, <2>2
<1>9. HasCredentials' /\ DeployedKeyStays'
  BY <1>3 DEF HasCredentials, DeployedKeyStays
<1> QED
  BY <1>4, <1>5, <1>6, <1>7, <1>8, <1>9

\* Every other step of a request posts nothing.
LEMMA ServeKeeps == ASSUME NEW r \in Requests, WebhookInv, Serve(r) PROVE WebhookInv'
<1> USE DEF WebhookInv
<1>0. \A status \in {401, 404, 422, 500} : Answer(r, status) =>
          /\ phase' = [phase EXCEPT ![r] = "answered"]
          /\ reply' = [reply EXCEPT ![r] = status]
          /\ snapshot' = [snapshot EXCEPT ![r] = None]
  BY DEF Answer
<1>1. CASE Expire(r)
  <2>1. TypeOK'
    BY <1>1 DEF Expire, serverVars, TypeOK
  <2> QED
    BY <1>1, <2>1 DEF Expire, serverVars, TypeOK, SnapshotCurrent, FoundByKey,
                      PostedIsAnswered, HasCredentials, PostedOnce, AnswersTrue,
                      DeployedKeyStays
<1>2. CASE Refuse(r)
  <2>1. PICK status \in {401, 404} : Answer(r, status)
    BY <1>2 DEF Refuse
  <2>2. TypeOK'
    BY <1>2, <2>1 DEF Refuse, Answer, serverVars, TypeOK
  <2>3. r \notin posted /\ mail[r] \in Mails
    BY <1>2 DEF Refuse, PostedIsAnswered
  <2> QED
    BY <1>2, <2>1, <2>2, <2>3, QuietRequest DEF Refuse, Answer, serverVars, TypeOK
<1>3. CASE Open(r)
  <2>1. TypeOK'
    BY <1>3 DEF Open, serverVars, TypeOK
  <2>2. r \notin posted /\ reply[r] = None /\ mail[r] \in Mails
    BY <1>3 DEF Open, PostedIsAnswered
  <2>3. /\ UNCHANGED <<serverVars, mail, signed, stale, tries, reply, posted>>
        /\ phase' = [phase EXCEPT ![r] = "open"]
        /\ snapshot' = [snapshot EXCEPT ![r] = posted]
        /\ outdated' = [outdated EXCEPT ![r] = FALSE]
    BY <1>3 DEF Open
  <2>4. FoundByKey(signed[r].key)' /\ (signed[r].secret = server.secret)'
    BY <1>3, <2>3 DEF Open, verifySignature, FoundByKey, serverVars
  <2>5. SnapshotCurrent'
    BY <2>3, <2>4 DEF SnapshotCurrent, FoundByKey, serverVars, TypeOK
  <2>6. PostedIsAnswered'
    BY <2>2, <2>3 DEF PostedIsAnswered, TypeOK
  <2>7. HasCredentials' /\ DeployedKeyStays'
    BY <2>3 DEF HasCredentials, DeployedKeyStays, serverVars
  <2>8. PostedOnce' /\ AnswersTrue'
    BY <2>3 DEF PostedOnce, AnswersTrue
  <2> QED
    BY <2>1, <2>5, <2>6, <2>7, <2>8
<1>4. CASE Commit(r)
  BY <1>4, CommitKeeps
<1>5. CASE Conflict(r)
  <2>1. r \notin posted /\ reply[r] = None /\ mail[r] \in Mails
    BY <1>5 DEF Conflict, PostedIsAnswered
  <2>2. CASE tries[r] + 1 < MaxTries /\ UNCHANGED reply
    <3>1. /\ phase' = [phase EXCEPT ![r] = "received"]
          /\ tries' = [tries EXCEPT ![r] = @ + 1]
          /\ snapshot' = [snapshot EXCEPT ![r] = None]
      BY <1>5, <2>2, TriesAssumption DEF Conflict, TypeOK
    <3>2. TypeOK'
      BY <1>5, <2>2, <3>1, TriesAssumption DEF Conflict, serverVars, TypeOK
    <3> QED
      BY <1>5, <2>1, <2>2, <3>1, <3>2, QuietRequest DEF Conflict, serverVars, TypeOK
  <2>3. CASE Answer(r, 500) /\ UNCHANGED tries
    <3>1. TypeOK'
      BY <1>5, <2>3 DEF Conflict, Answer, serverVars, TypeOK
    <3> QED
      BY <1>5, <2>1, <2>3, <3>1, QuietRequest DEF Conflict, Answer, serverVars, TypeOK
  <2> QED
    BY <1>5, <2>2, <2>3 DEF Conflict
<1>6. CASE Fail(r)
  <2>1. PICK status \in {422, 500} : Answer(r, status)
    BY <1>6 DEF Fail
  <2>2. TypeOK'
    BY <1>6, <2>1 DEF Fail, Answer, serverVars, TypeOK
  <2>3. r \notin posted /\ mail[r] \in Mails
    BY <1>6 DEF Fail, PostedIsAnswered
  <2> QED
    BY <1>6, <2>1, <2>2, <2>3, QuietRequest DEF Fail, Answer, serverVars, TypeOK
<1>7. CASE Lose(r)
  <2>1. TypeOK'
    BY <1>7 DEF Lose, serverVars, TypeOK
  <2> QED
    BY <1>7, <2>1, QuietRequest, NoneAssumption
    DEF Lose, serverVars, TypeOK, PostedIsAnswered
<1>8. ASSUME NEW m \in Mails, Send(r, m) PROVE WebhookInv'
  <2>1. TypeOK'
    BY <1>8 DEF Send, serverVars, TypeOK
  <2>2. r \notin posted /\ reply[r] = None
    BY <1>8 DEF Send, PostedIsAnswered
  <2> QED
    BY <1>8, <2>1, <2>2, QuietRequest DEF Send, serverVars, TypeOK
<1> QED
  BY <1>1, <1>2, <1>3, <1>4, <1>5, <1>6, <1>7, <1>8 DEF Serve

\* The invariant holds in every reachable state.
THEOREM WebhookInvariant == Spec => []WebhookInv
<1>1. WebhookInv /\ [Next]_vars => WebhookInv'
  <2>1. WebhookInv /\ Next => WebhookInv'
    BY AdministerKeeps, ServeKeeps DEF Next
  <2>2. WebhookInv /\ UNCHANGED vars => WebhookInv'
    BY DEF vars, serverVars, requestVars, WebhookInv, TypeOK, SnapshotCurrent,
           FoundByKey, PostedIsAnswered, HasCredentials, PostedOnce, AnswersTrue,
           DeployedKeyStays
  <2> QED
    BY <2>1, <2>2
<1> QED
  BY WebhookInit, <1>1, PTL DEF Spec

\* Type correctness of the webhook model.
THEOREM WebhookTypeCorrect == Spec => []TypeOK
<1>1. WebhookInv => TypeOK
  BY DEF WebhookInv
<1> QED
  BY WebhookInvariant, <1>1, PTL

\* However many requests carry a message and however they overlap, a message
\* with a Message-Id is posted once: the write of `date` (fetchmail_server.py:
\* 428-430) fails all but one of the transactions that did not see each other.
THEOREM DuplicatesIgnored == Spec => []PostedOnce
<1>1. WebhookInv => PostedOnce
  BY DEF WebhookInv
<1> QED
  BY WebhookInvariant, <1>1, PTL

\* The Worker may act on any answer it gets (main.py:80-110).
THEOREM AnswersAreTrue == Spec => []AnswersTrue
<1>1. WebhookInv => AnswersTrue
  BY DEF WebhookInv
<1> QED
  BY WebhookInvariant, <1>1, PTL

\* The deployed URL outlives every switch of the server's type
\* (fetchmail_server.py:188-208).
THEOREM DeployedKeyIsKept == Spec => []DeployedKeyStays
<1>1. WebhookInv => DeployedKeyStays
  BY DEF WebhookInv
<1> QED
  BY WebhookInvariant, <1>1, PTL

\* A confirmed Cloudflare server can be served, whichever way it became one
\* (fetchmail_server.py:195-207, 245-261).
THEOREM ConfirmedStaysUsable == Spec => []ConfirmedIsUsable
<1>1. WebhookInv => ConfirmedIsUsable
  BY DEF WebhookInv, HasCredentials, ConfirmedIsUsable
<1> QED
  BY WebhookInvariant, <1>1, PTL

\* What a step commits was signed with a secret that a confirmed server has now.
LEMMA CommitIsAuthorized ==
    ASSUME WebhookInv, Next
    PROVE  \A r \in Requests : r \in posted' \ posted =>
               FoundByKey(signed[r].key) /\ signed[r].secret = server.secret
<1> SUFFICES ASSUME NEW r \in Requests, r \in posted' \ posted
             PROVE  FoundByKey(signed[r].key) /\ signed[r].secret = server.secret
  OBVIOUS
<1>1. ASSUME NEW q \in Requests, Commit(q)
      PROVE  FoundByKey(signed[r].key) /\ signed[r].secret = server.secret
  <2>1. r = q
    BY <1>1 DEF Commit
  <2> QED
    BY <1>1, <2>1 DEF Commit, WebhookInv, SnapshotCurrent
<1>2. ASSUME NEW q \in Requests, Serve(q), ~Commit(q) PROVE UNCHANGED posted
  BY <1>2 DEF Serve, Expire, Refuse, Open, Conflict, Fail, Lose, Send
<1>3. ASSUME Administer PROVE UNCHANGED posted
  BY <1>3 DEF Administer, BecomeCloudflare, BecomeImap, RegenerateSecret, Confirm,
              SetDraft, ToggleActive, ChangeBaseUrl, DeployWorker
<1> QED
  BY <1>1, <1>2, <1>3 DEF Next

\* Once the secret is regenerated, the server archived or set to draft, no
\* message is committed on the strength of a check made before
\* (main.py:62-85, fetchmail_server.py:210-227).
THEOREM CommitsStayAuthorized == Spec => CommitsAuthorized
<1> DEFINE Authorized ==
        \A r \in Requests : r \in posted' \ posted =>
            FoundByKey(signed[r].key) /\ signed[r].secret = server.secret
<1>1. WebhookInv /\ [Next]_vars => [Authorized]_vars
  BY CommitIsAuthorized, Zenon
<1> QED
  BY WebhookInvariant, <1>1, PTL DEF Spec, CommitsAuthorized
=============================================================================
