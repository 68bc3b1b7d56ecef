--------------------------- MODULE OutgoingServer ---------------------------
(***************************************************************************)
(* The outgoing mail server record (mail_cloudflare/models/                *)
(* ir_mail_server.py): how a form or a write turns it into a Cloudflare    *)
(* server, the sessions connect() opens on it and the connection test,     *)
(* while administrators go on editing it.  Core's SMTP side, PostgreSQL    *)
(* and Cloudflare are modelled from how this code uses them; what a        *)
(* session does with one message is the subject of SendingSession.         *)
(***************************************************************************)
EXTENDS Integers

CONSTANTS
    Accounts,       \* account ids
    Tokens,         \* API tokens
    Permitted,      \* the pairs of them that may send
    Sessions,       \* sending sessions, of crons and users
    MaxEmailSizeMB, \* MAX_EMAIL_SIZE_MB
    OtherSizeMB,    \* a limit that fits an SMTP server
    MaxChanges,     \* bound: commits of the record
    Null            \* not set; no session; no test

\* A connection test: what it has read, whether it is to write the limit, whether
\* verify_token has returned, and whether the record was written since.
ConnectionTest ==
    [token : Tokens, autodetect : BOOLEAN, checked : BOOLEAN, outdated : BOOLEAN]

ASSUME RecordAssumption ==
    /\ Permitted \subseteq Accounts \X Tokens
    /\ Null \notin Accounts \cup Tokens \cup ConnectionTest
    /\ 0 < MaxEmailSizeMB /\ MaxEmailSizeMB < OtherSizeMB /\ MaxChanges \in Nat

VARIABLES
    server,     \* the committed ir.mail_server row
    chosen,     \* history: its last change made it a Cloudflare server in a form
    typed,      \* history: where a size limit was entered after that
    changes,    \* how often it was committed
    active,     \* the tokens Cloudflare considers active
    session,    \* the credentials and the fatal error of each session
    skipped,    \* history: the sessions that skipped a message
    refused,    \* history: the sessions whose own credentials were refused
    test,       \* the connection test in progress, and what it has read
    proven      \* history: the tokens Cloudflare confirmed to this run of it

serverVars == <<server, chosen, typed, changes>>
sessionVars == <<session, skipped, refused>>
testVars == <<test, proven>>
vars == <<serverVars, active, sessionVars, testVars>>

Row == [auth       : {"login", "cloudflare"},
        port       : {0, 25, 465},          \* smtp_host is there iff it is
        encryption : {"none", "ssl"},
        account    : Accounts \cup {Null},
        token      : Tokens \cup {Null},
        filter     : BOOLEAN,
        size       : {0, MaxEmailSizeMB, OtherSizeMB},
        archived   : BOOLEAN]

-----------------------------------------------------------------------------
(* Editing the record. *)

OnchangeEncryptionCore(row) ==  \* variant: core's reaction, for every server
    [row EXCEPT !.port = IF row.encryption = "ssl" THEN 465 ELSE 25]

\* _onchange_encryption: core's reaction, unless there is no SMTP endpoint.
OnchangeEncryption(row) ==
    IF row.auth = "cloudflare" THEN row
    ELSE [row EXCEPT !.port = IF row.encryption = "ssl" THEN 465 ELSE 25]

\* The authentication chosen in a form: its onchange, and core's dispatcher
\* calling the one of the encryption when that changed.
ChooseAuth(row, auth) ==
    LET picked  == [row EXCEPT !.auth = auth]
        changed == IF auth # "cloudflare" THEN picked
                   ELSE [picked EXCEPT !.port = 0, !.encryption = "none",
                                       !.size = MaxEmailSizeMB]
    IN  IF changed.encryption # row.encryption THEN OnchangeEncryption(changed)
        ELSE changed

ChooseEncryption(row, encryption) ==
    OnchangeEncryption([row EXCEPT !.encryption = encryption])

\* The size limit entered in a form, or written.
Sized(row) == {[row EXCEPT !.size = s] : s \in {0, MaxEmailSizeMB, OtherSizeMB}}

\* One input of the user.  The page with the port and the encryption is hidden
\* for a Cloudflare server (ir_mail_server_views.xml), the size limit is not.
Inputs(row) ==
    {ChooseAuth(row, auth) : auth \in {"login", "cloudflare"}}
    \cup {ChooseEncryption(row, e) : e \in IF row.auth = "cloudflare" THEN {}
                                           ELSE {"none", "ssl"}}
    \cup {[row EXCEPT !.port = p] : p \in IF row.auth = "cloudflare" THEN {} ELSE {25, 465}}
    \cup Sized(row)
    \cup {[row EXCEPT !.account = a] : a \in Accounts \cup {Null}}
    \cup {[row EXCEPT !.token = t] : t \in Tokens \cup {Null}}
    \cup {[row EXCEPT !.filter = f] : f \in BOOLEAN}

\* What an import or a call over RPC may write: no onchange runs.
Values(row) ==
    {[row EXCEPT !.auth = auth] : auth \in {"login", "cloudflare"}}
    \cup {[row EXCEPT !.account = a] : a \in Accounts \cup {Null}}
    \cup {[row EXCEPT !.token = t] : t \in Tokens \cup {Null}}
    \cup {[row EXCEPT !.filter = f] : f \in BOOLEAN}
    \cup Sized(row)
    \cup {[row EXCEPT !.archived = ~@]}

ConstrainsNoFilter(old, new) == \* variant: from_filter is not listed
    \E field \in {"auth", "account", "token"} : old[field] # new[field]

\* The fields @api.constrains lists: the check runs when one of them is written.
Constrains(old, new) ==
    \E field \in {"auth", "account", "token", "filter"} : old[field] # new[field]

CompleteButToken(row) ==    \* variant: the token is not asked for
    row.auth = "cloudflare" => row.account # Null /\ row.filter

\* _check_cloudflare_credentials.
Complete(row) ==
    row.auth = "cloudflare" => row.account # Null /\ row.token # Null /\ row.filter

\* A commit of the row; a test that has read the row before is outdated then.
Commit(row) ==
    /\ changes < MaxChanges
    /\ Constrains(server, row) => Complete(row)
    /\ server' = row
    /\ changes' = changes + 1
    /\ test' = IF test = Null THEN Null ELSE [test EXCEPT !.outdated = TRUE]

\* A form is opened, gets one or two inputs and is saved.
EditForm ==
    /\ \E first \in Inputs(server) : \E row \in Inputs(first) \cup {first} :
          /\ row # server
          /\ Commit(row)
          /\ chosen' = (server.auth # "cloudflare" /\ row.auth = "cloudflare")
          /\ typed' = (chosen' /\ row # first /\ row \in Sized(first))
    /\ UNCHANGED <<active, sessionVars, proven>>

Write ==
    /\ \E row \in Values(server) \ {server} : Commit(row)
    /\ chosen' = FALSE /\ typed' = FALSE
    /\ UNCHANGED <<active, sessionVars, proven>>

\* Somebody revokes a token or makes it active again.
ChangeToken(token) ==
    /\ active' = IF token \in active THEN active \ {token} ELSE active \cup {token}
    /\ UNCHANGED <<serverVars, sessionVars, testVars>>

-----------------------------------------------------------------------------
(* Sending. *)

\* _get_max_email_size: what mail.mail asks before it embeds attachments.
MaxEmailSize(row) ==
    IF row.auth # "cloudflare" \/ row.size # 0 THEN row.size ELSE MaxEmailSizeMB

ConnectShared(s) ==         \* variant: the fatal error is an attribute of the class
    /\ session[s] = Null /\ server.auth = "cloudflare" /\ ~server.archived
    /\ session' = [session EXCEPT ![s] =
                      [account |-> server.account, token |-> server.token,
                       fatal |-> \E o \in Sessions : session[o] # Null /\ session[o].fatal]]
    /\ UNCHANGED <<serverVars, active, skipped, refused, testVars>>

\* connect() finds a Cloudflare server, by id or by smtp_from, and hands out a
\* session with its credentials of now.  Of an archived one it raises.
Connect(s) ==
    /\ session[s] = Null /\ server.auth = "cloudflare" /\ ~server.archived
    /\ session' = [session EXCEPT ![s] = [account |-> server.account,
                                          token   |-> server.token,
                                          fatal   |-> FALSE]]
    /\ UNCHANGED <<serverVars, active, skipped, refused, testVars>>

\* send_message: posted, unless an earlier one of the session was refused.
Post(s) ==
    /\ session[s] # Null /\ ~session[s].fatal
    /\ LET accepted == /\ session[s].token \in active
                       /\ <<session[s].account, session[s].token>> \in Permitted
       IN  /\ session' = [session EXCEPT ![s].fatal = ~accepted]
           /\ refused' = IF accepted THEN refused ELSE refused \cup {s}
    /\ UNCHANGED <<serverVars, active, skipped, testVars>>

Skip(s) ==
    /\ session[s] # Null /\ session[s].fatal
    /\ skipped' = skipped \cup {s}
    /\ UNCHANGED <<serverVars, active, session, refused, testVars>>

\* quit(); the histories are those of the sessions that are open.
Quit(s) ==
    /\ session[s] # Null
    /\ session' = [session EXCEPT ![s] = Null]
    /\ skipped' = skipped \ {s} /\ refused' = refused \ {s}
    /\ UNCHANGED <<serverVars, active, testVars>>

-----------------------------------------------------------------------------
(* test_smtp_connection(). *)

StartTest ==
    /\ test = Null /\ server.auth = "cloudflare"
    /\ \E autodetect \in BOOLEAN :
          test' = [token |-> server.token, autodetect |-> autodetect,
                   checked |-> FALSE, outdated |-> FALSE]
    /\ UNCHANGED <<serverVars, active, sessionVars, proven>>

\* verify_token returns: Cloudflare says the token is active.  It may be revoked,
\* and the record be edited, from here on.
Verify ==
    /\ test # Null /\ ~test.checked
    /\ test.token \in active
    /\ test' = [test EXCEPT !.checked = TRUE]
    /\ proven' = proven \cup {test.token}
    /\ UNCHANGED <<serverVars, active, sessionVars>>

Over == test' = Null /\ proven' = {}

\* A UserError, and everything is rolled back: the token is not active,
\* Cloudflare was not reached, or core's handshake of another server failed.
TestFails ==
    /\ test # Null
    /\ Over
    /\ UNCHANGED <<serverVars, active, sessionVars>>

\* The limit is written and committed.
Detect ==
    /\ test # Null /\ test.autodetect /\ changes < MaxChanges
    /\ test.checked /\ ~test.outdated
    /\ server' = [server EXCEPT !.size = MaxEmailSizeMB]
    /\ changes' = changes + 1 /\ chosen' = FALSE /\ typed' = FALSE
    /\ Over
    /\ UNCHANGED <<active, sessionVars>>

DetectConflictChecked ==    \* variant: what was checked is not checked again
    /\ test # Null /\ test.autodetect
    /\ test.checked /\ test.outdated
    /\ test' = IF server.auth = "cloudflare"
               THEN [test EXCEPT !.token = server.token, !.outdated = FALSE]
               ELSE Null
    /\ proven' = {}
    /\ UNCHANGED <<serverVars, active, sessionVars>>

\* The row was written since the test read it: the write of the limit fails, and
\* service.model.retrying runs the whole test again, for the server of now.
DetectConflict ==
    /\ test # Null /\ test.autodetect
    /\ test.checked /\ test.outdated
    /\ test' = IF server.auth = "cloudflare"
               THEN [test EXCEPT !.token = server.token, !.checked = FALSE,
                                 !.outdated = FALSE]
               ELSE Null
    /\ proven' = {}
    /\ UNCHANGED <<serverVars, active, sessionVars>>

\* Without the detection nothing is written: the notification is about what
\* the test read.
TestPasses ==
    /\ test # Null /\ ~test.autodetect
    /\ test.checked
    /\ Over
    /\ UNCHANGED <<serverVars, active, sessionVars>>

-----------------------------------------------------------------------------
\* An SMTP server, perhaps one that was a Cloudflare server before, or a
\* Cloudflare server made over RPC.
Init ==
    /\ \E account \in Accounts \cup {Null}, token \in Tokens \cup {Null},
          encryption \in {"none", "ssl"}, auth \in {"login", "cloudflare"} :
          server = [auth |-> auth, port |-> IF encryption = "ssl" THEN 465 ELSE 25,
                    encryption |-> encryption, account |-> account, token |-> token,
                    filter |-> TRUE, size |-> OtherSizeMB, archived |-> FALSE]
    /\ Complete(server)
    /\ chosen = FALSE /\ typed = FALSE /\ changes = 0
    /\ active = Tokens
    /\ session = [s \in Sessions |-> Null]
    /\ skipped = {} /\ refused = {}
    /\ test = Null /\ proven = {}

Administer == EditForm \/ Write \/ \E token \in Tokens : ChangeToken(token)

Send == \E s \in Sessions : Connect(s) \/ Post(s) \/ Skip(s) \/ Quit(s)

Test == StartTest \/ Verify \/ TestFails \/ Detect \/ DetectConflict \/ TestPasses

Next == Administer \/ Send \/ Test

Spec == Init /\ [][Next]_vars

-----------------------------------------------------------------------------
(* What must hold. *)

\* Every variable keeps its type.
TypeOK ==
    /\ server \in Row
    /\ chosen \in BOOLEAN /\ typed \in BOOLEAN
    /\ changes \in 0 .. MaxChanges
    /\ active \subseteq Tokens
    /\ session \in [Sessions -> {Null} \cup [account : Accounts, token : Tokens,
                                             fatal : BOOLEAN]]
    /\ skipped \subseteq Sessions /\ refused \subseteq Sessions
    /\ test \in {Null} \cup ConnectionTest
    /\ proven \subseteq Tokens

\* Whichever way the record was edited, a Cloudflare server has what a send
\* needs (ir_mail_server.py:93-126), so every session gets an account, a token
\* and a filter.
CloudflareServerComplete == Complete(server)

\* A server that was made a Cloudflare server in a form has no SMTP endpoint
\* left, whatever its encryption was before, and mails too big for Cloudflare are
\* not embedded, unless the user entered another limit after the onchange had
\* set it ("leave it cleared", ir_mail_server.py:71-72; "would refuse", 131-134).
ChosenMeansCleared ==
    chosen => /\ server.port = 0 /\ server.encryption = "none"
              /\ MaxEmailSize(server) = MaxEmailSizeMB \/ typed

\* A message is only skipped when Cloudflare refused the credentials of the
\* very session it was given to, so that new credentials work at the next
\* connect() ("every later send through the same session is pointless",
\* cloudflare_api.py:123-124).
SkippedDeserved == skipped \subseteq refused

\* "Detect Max Limit" succeeds only for the token the record has at its commit,
\* and only if Cloudflare confirmed that very token in the run that commits, also
\* when the test was run again because the record was edited ("proves the token
\* is active", ir_mail_server.py:209-210).  Whether it is still active at the
\* commit nobody asks.
DetectedHonestly ==
    [][test # Null /\ test' = Null /\ changes' # changes => server'.token \in proven]_vars
=============================================================================
