------------------------ MODULE OutgoingServerProofs ------------------------
(***************************************************************************)
(* Proofs about OutgoingServer for every set of accounts, tokens and       *)
(* sessions and any number of changes.                                     *)
(***************************************************************************)
EXTENDS OutgoingServer, TLAPS

\* What a form leaves of a server that is made a Cloudflare server in it: no SMTP
\* endpoint, and Cloudflare's limit.
NoEndpoint(row) == row.port = 0 /\ row.encryption = "none"
Limited(row) == row.size = MaxEmailSizeMB

Cleared == chosen => NoEndpoint(server) /\ (Limited(server) \/ typed)

\* A session that fails fast was refused with its own credentials.
FatalDeserved == \A s \in Sessions : session[s] # Null /\ session[s].fatal => s \in refused

\* What a test that is not outdated has read is what the record says, and what it
\* has checked Cloudflare confirmed.
TestCurrent ==
    test # Null => /\ ~test.outdated => test.token = server.token
                   /\ test.checked => test.token \in proven

ServerInv ==
    /\ TypeOK /\ CloudflareServerComplete
    /\ Cleared /\ SkippedDeserved /\ FatalDeserved /\ TestCurrent

-----------------------------------------------------------------------------
(* Forms and writes. *)

\* A limit can be entered in any row.
LEMMA SizedAreRows ==
    ASSUME NEW row \in Row, NEW new \in Sized(row)
    PROVE  /\ new \in Row /\ new.auth = row.auth
           /\ NoEndpoint(row) => NoEndpoint(new)
BY DEF Sized, Row, NoEndpoint

\* A form shows a row, whatever is entered.
LEMMA InputsAreRows == ASSUME NEW row \in Row, NEW new \in Inputs(row) PROVE new \in Row
<1>1. \A r \in Row : OnchangeEncryption(r) \in Row
  BY DEF OnchangeEncryption, Row
<1>2. \A auth \in {"login", "cloudflare"} : ChooseAuth(row, auth) \in Row
  <2> SUFFICES ASSUME NEW auth \in {"login", "cloudflare"} PROVE ChooseAuth(row, auth) \in Row
    OBVIOUS
  <2> DEFINE picked  == [row EXCEPT !.auth = auth]
             changed == IF auth # "cloudflare" THEN picked
                        ELSE [picked EXCEPT !.port = 0, !.encryption = "none",
                                            !.size = MaxEmailSizeMB]
  <2>1. changed \in Row
    <3>1. picked \in Row
      BY DEF Row
    <3>2. [picked EXCEPT !.port = 0, !.encryption = "none", !.size = MaxEmailSizeMB] \in Row
      <4>1. \A p \in Row : [p EXCEPT !.port = 0] \in Row
        BY DEF Row
      <4>2. \A p \in Row : [p EXCEPT !.encryption = "none"] \in Row
        BY DEF Row
      <4>3. \A p \in Row : [p EXCEPT !.size = MaxEmailSizeMB] \in Row
        BY DEF Row
      <4> HIDE DEF picked
      <4> QED
        BY <3>1, <4>1, <4>2, <4>3
    <3> QED
      BY <3>1, <3>2
  <2>2. ChooseAuth(row, auth) \in {changed, OnchangeEncryption(changed)}
    BY DEF ChooseAuth
  <2> QED
    BY <1>1, <2>1, <2>2
<1>3. \A e \in {"none", "ssl"} : ChooseEncryption(row, e) \in Row
  <2>1. \A e \in {"none", "ssl"} : [row EXCEPT !.encryption = e] \in Row
    BY DEF Row
  <2> QED
    BY <1>1, <2>1 DEF ChooseEncryption
<1>4. /\ \A a \in Accounts \cup {Null} : [row EXCEPT !.account = a] \in Row
      /\ \A t \in Tokens \cup {Null} : [row EXCEPT !.token = t] \in Row
      /\ \A f \in BOOLEAN : [row EXCEPT !.filter = f] \in Row
  BY DEF Row
<1>5. \A p \in {25, 465} : [row EXCEPT !.port = p] \in Row
  BY DEF Row
<1>6. \A entered \in Inputs(row) \ Sized(row) : entered \in Row
  BY <1>2, <1>3, <1>4, <1>5 DEF Inputs
<1> QED
  BY <1>6, SizedAreRows

\* So is what an import or a call over RPC writes.
LEMMA ValuesAreRows == ASSUME NEW row \in Row, NEW new \in Values(row) PROVE new \in Row
<1>1. /\ \A auth \in {"login", "cloudflare"} : [row EXCEPT !.auth = auth] \in Row
      /\ \A a \in Accounts \cup {Null} : [row EXCEPT !.account = a] \in Row
      /\ \A t \in Tokens \cup {Null} : [row EXCEPT !.token = t] \in Row
  BY DEF Row
<1>2. /\ \A f \in BOOLEAN : [row EXCEPT !.filter = f] \in Row
      /\ \A b \in BOOLEAN : [row EXCEPT !.archived = b] \in Row
  BY DEF Row
<1>3. (~row.archived) \in BOOLEAN
  OBVIOUS
<1> QED
  BY <1>1, <1>2, <1>3, SizedAreRows DEF Values

\* An input that makes the row a Cloudflare server clears it, and of the inputs of
\* the same form after it only an explicit limit undoes anything.
LEMMA InputClears ==
    ASSUME NEW row \in Row, NEW new \in Inputs(row), new.auth = "cloudflare",
           row.auth = "cloudflare" => NoEndpoint(row) /\ Limited(row)
    PROVE  /\ NoEndpoint(new)
           /\ Limited(new) \/ (row.auth = "cloudflare" /\ new \in Sized(row))
<1>1. CASE \E auth \in {"login", "cloudflare"} : new = ChooseAuth(row, auth)
  BY <1>1 DEF ChooseAuth, OnchangeEncryption, NoEndpoint, Limited, Row
<1>2. CASE \E e \in {"none", "ssl"} : row.auth # "cloudflare" /\ new = ChooseEncryption(row, e)
  BY <1>2 DEF ChooseEncryption, OnchangeEncryption, Row
<1>3. CASE \/ \E a \in Accounts \cup {Null} : new = [row EXCEPT !.account = a]
           \/ \E t \in Tokens \cup {Null} : new = [row EXCEPT !.token = t]
           \/ \E f \in BOOLEAN : new = [row EXCEPT !.filter = f]
  BY <1>3 DEF NoEndpoint, Limited, Row
<1>4. CASE \E p \in {25, 465} : row.auth # "cloudflare" /\ new = [row EXCEPT !.port = p]
  BY <1>4 DEF Row
<1>5. CASE new \in Sized(row)
  BY <1>5, SizedAreRows
<1>6. \/ \E auth \in {"login", "cloudflare"} : new = ChooseAuth(row, auth)
      \/ \E e \in {"none", "ssl"} : row.auth # "cloudflare" /\ new = ChooseEncryption(row, e)
      \/ \E a \in Accounts \cup {Null} : new = [row EXCEPT !.account = a]
      \/ \E t \in Tokens \cup {Null} : new = [row EXCEPT !.token = t]
      \/ \E f \in BOOLEAN : new = [row EXCEPT !.filter = f]
      \/ \E p \in {25, 465} : row.auth # "cloudflare" /\ new = [row EXCEPT !.port = p]
      \/ new \in Sized(row)
  BY DEF Inputs
<1> QED
  BY <1>1, <1>2, <1>3, <1>4, <1>5, <1>6

\* The fields the constraint reads are those it listens to.
LEMMA CommitComplete ==
    ASSUME NEW row \in Row, server \in Row, Complete(server), Commit(row)
    PROVE  Complete(row)
BY DEF Commit, Constrains, Complete, Row

-----------------------------------------------------------------------------
(* The invariant. *)

\* A record that satisfies its constraint, and no session or test.
LEMMA ServerInit == Init => ServerInv
<1> SUFFICES ASSUME Init PROVE ServerInv
  OBVIOUS
<1>1. server \in Row
  BY DEF Init, Row
<1>2. TypeOK
  <2>1. session \in [Sessions -> {Null}] /\ changes \in 0 .. MaxChanges
    BY RecordAssumption DEF Init
  <2> QED
    BY <1>1, <2>1 DEF Init, TypeOK
<1> QED
  BY <1>2 DEF Init, ServerInv, Cleared, CloudflareServerComplete, SkippedDeserved, FatalDeserved,
              TestCurrent

\* A commit of a row keeps what is said of the record and of a test.
LEMMA CommitKeeps ==
    ASSUME ServerInv, NEW row \in Row, Commit(row),
           chosen' \in BOOLEAN, typed' \in BOOLEAN,
           chosen' => NoEndpoint(row) /\ (Limited(row) \/ typed'),
           UNCHANGED <<active, sessionVars, proven>>
    PROVE  ServerInv'
<1>1. /\ server' = row /\ changes' = changes + 1 /\ changes < MaxChanges
      /\ test' = IF test = Null THEN Null ELSE [test EXCEPT !.outdated = TRUE]
  BY DEF Commit
<1>2. Complete(row)
  BY CommitComplete DEF ServerInv, TypeOK, CloudflareServerComplete
<1>3. changes' \in 0 .. MaxChanges
  BY <1>1, RecordAssumption DEF ServerInv, TypeOK
<1>4. test' \in {Null} \cup ConnectionTest
  BY <1>1 DEF ServerInv, TypeOK, ConnectionTest
<1>5. TestCurrent'
  BY <1>1 DEF ServerInv, TypeOK, TestCurrent, ConnectionTest
<1>6. TypeOK'
  BY <1>1, <1>3, <1>4 DEF ServerInv, TypeOK, sessionVars
<1> QED
  BY <1>1, <1>2, <1>5, <1>6 DEF ServerInv, Cleared, CloudflareServerComplete,
                                SkippedDeserved,                                 FatalDeserved, sessionVars

\* Forms.
LEMMA EditFormKeeps == ServerInv /\ EditForm => ServerInv'
<1> SUFFICES ASSUME ServerInv, EditForm PROVE ServerInv'
  OBVIOUS
<1> DEFINE Saved(first, row) ==
        /\ Commit(row)
        /\ chosen' = (server.auth # "cloudflare" /\ row.auth = "cloudflare")
        /\ typed' = (chosen' /\ row # first /\ row \in Sized(first))
<1>0. PICK first \in Inputs(server) : \E row \in Inputs(first) \cup {first} : Saved(first, row)
  BY Zenon DEF EditForm
<1>1. PICK row \in Inputs(first) \cup {first} : Saved(first, row)
  BY <1>0
<1>2. server \in Row /\ first \in Row /\ row \in Row
  BY InputsAreRows DEF ServerInv, TypeOK
<1>3. chosen' \in BOOLEAN /\ typed' \in BOOLEAN
  BY <1>1, Zenon
<1>4. chosen' => NoEndpoint(row) /\ (Limited(row) \/ typed')
  <2> SUFFICES ASSUME server.auth # "cloudflare", row.auth = "cloudflare"
               PROVE  /\ NoEndpoint(row)
                      /\ Limited(row) \/ (row # first /\ row \in Sized(first))
    BY <1>1, Zenon
  <2>1. first.auth = "cloudflare" => NoEndpoint(first) /\ Limited(first)
    BY <1>2, InputClears
  <2> QED
    BY <1>1, <1>2, <2>1, InputClears
<1>5. UNCHANGED <<active, sessionVars, proven>>
  BY Zenon DEF EditForm
<1> QED
  BY <1>1, <1>2, <1>3, <1>4, <1>5, CommitKeeps, Zenon

\* Imports and calls over RPC.
LEMMA WriteKeeps == ServerInv /\ Write => ServerInv'
<1> SUFFICES ASSUME ServerInv, Write PROVE ServerInv'
  OBVIOUS
<1>1. PICK row \in Values(server) : Commit(row)
  BY Zenon DEF Write
<1>2. row \in Row
  BY <1>1, ValuesAreRows DEF ServerInv, TypeOK
<1> QED
  BY <1>1, <1>2, CommitKeeps DEF Write

\* A session is opened with complete credentials, and fails fast only after it
\* was refused.
LEMMA SendKeeps == ServerInv /\ Send => ServerInv'
<1> SUFFICES ASSUME ServerInv, NEW s \in Sessions,
                    Connect(s) \/ Post(s) \/ Skip(s) \/ Quit(s)
             PROVE  ServerInv'
  BY DEF Send
<1>1. UNCHANGED <<serverVars, active, testVars>>
  BY Zenon DEF Connect, Post, Skip, Quit
<1>2. /\ session' \in [Sessions -> {Null} \cup [account : Accounts, token : Tokens,
                                                fatal : BOOLEAN]]
      /\ skipped' \subseteq Sessions /\ refused' \subseteq Sessions
      /\ SkippedDeserved' /\ FatalDeserved'
  <2>1. CASE Connect(s)
    <3>1. [account |-> server.account, token |-> server.token, fatal |-> FALSE]
              \in [account : Accounts, token : Tokens, fatal : BOOLEAN]
      BY <2>1, RecordAssumption DEF Connect, ServerInv, CloudflareServerComplete, Complete,
                                    TypeOK, Row
    <3> QED
      BY <2>1, <3>1 DEF Connect, ServerInv, TypeOK, SkippedDeserved, FatalDeserved
  <2>2. CASE Post(s)
    BY <2>2 DEF Post, ServerInv, TypeOK, SkippedDeserved, FatalDeserved
  <2>3. CASE Skip(s)
    BY <2>3 DEF Skip, ServerInv, TypeOK, SkippedDeserved, FatalDeserved
  <2>4. CASE Quit(s)
    BY <2>4 DEF Quit, ServerInv, TypeOK, SkippedDeserved, FatalDeserved
  <2> QED
    BY <2>1, <2>2, <2>3, <2>4
<1> QED
  BY <1>1, <1>2 DEF ServerInv, TypeOK, CloudflareServerComplete, TestCurrent, serverVars,
                    testVars, Cleared, NoEndpoint, Limited

\* The connection test.
LEMMA TestKeeps == ServerInv /\ Test => ServerInv'
<1> SUFFICES ASSUME ServerInv, Test PROVE ServerInv'
  OBVIOUS
<1>1. CASE Detect
  <2>1. /\ server' = [server EXCEPT !.size = MaxEmailSizeMB] /\ changes' = changes + 1
        /\ changes < MaxChanges /\ chosen' = FALSE /\ typed' = FALSE
        /\ test' = Null /\ proven' = {} /\ UNCHANGED <<active, session, skipped, refused>>
    BY <1>1 DEF Detect, Over, sessionVars
  <2>2. server' \in Row /\ Complete(server')
    BY <2>1 DEF ServerInv, TypeOK, Row, CloudflareServerComplete, Complete
  <2>3. changes' \in 0 .. MaxChanges
    BY <2>1, RecordAssumption DEF ServerInv, TypeOK
  <2> QED
    BY <2>1, <2>2, <2>3 DEF ServerInv, TypeOK, CloudflareServerComplete, Cleared,
                            SkippedDeserved, FatalDeserved, TestCurrent
<1>2. ASSUME /\ test' \in {Null} \cup ConnectionTest
             /\ proven' \subseteq Tokens
             /\ test' # Null => /\ ~test'.outdated => test'.token = server.token
                                /\ test'.checked => test'.token \in proven'
             /\ UNCHANGED <<serverVars, active, sessionVars>>
      PROVE  ServerInv'
  BY <1>2 DEF ServerInv, TypeOK, CloudflareServerComplete, SkippedDeserved, FatalDeserved,
              TestCurrent, serverVars, sessionVars, Cleared, NoEndpoint, Limited
<1>3. server.auth = "cloudflare" => server.token \in Tokens
  BY DEF ServerInv, CloudflareServerComplete, Complete, TypeOK, Row
<1>4. CASE StartTest
  BY <1>2, <1>3, <1>4 DEF StartTest, ServerInv, TypeOK, ConnectionTest
<1>5. CASE Verify
  <2>1. /\ test # Null /\ test' = [test EXCEPT !.checked = TRUE]
        /\ proven' = proven \cup {test.token}
        /\ UNCHANGED <<serverVars, active, sessionVars>>
    BY <1>5 DEF Verify
  <2> QED
    BY <1>2, <2>1 DEF ServerInv, TypeOK, TestCurrent, ConnectionTest
<1>6. CASE DetectConflict
  BY <1>2, <1>3, <1>6 DEF DetectConflict, ServerInv, TypeOK, ConnectionTest
<1>7. CASE TestFails \/ TestPasses
  BY <1>2, <1>7 DEF TestFails, TestPasses, Over
<1> QED
  BY <1>1, <1>4, <1>5, <1>6, <1>7 DEF Test

\* The invariant holds in every reachable state.
THEOREM ServerInvariant == Spec => []ServerInv
<1>1. ServerInv /\ [Next]_vars => ServerInv'
  <2> SUFFICES ASSUME ServerInv, [Next]_vars PROVE ServerInv'
    OBVIOUS
  <2>1. CASE UNCHANGED vars
    BY <2>1 DEF ServerInv, TypeOK, CloudflareServerComplete, SkippedDeserved, FatalDeserved,
                TestCurrent, vars, serverVars, sessionVars, testVars, Cleared, NoEndpoint, Limited
  <2>2. ASSUME NEW token \in Tokens, ChangeToken(token) PROVE ServerInv'
    BY <2>2 DEF ChangeToken, ServerInv, TypeOK, CloudflareServerComplete, SkippedDeserved,
                FatalDeserved, TestCurrent, serverVars, sessionVars, testVars, Cleared, NoEndpoint, Limited
  <2> QED
    BY <2>1, <2>2, EditFormKeeps, WriteKeeps, SendKeeps, TestKeeps, Zenon DEF Next, Administer
<1> QED
  BY ServerInit, <1>1, PTL DEF Spec

-----------------------------------------------------------------------------
(* What must hold. *)

\* Type correctness of the record, its sessions and its test.
THEOREM ServerTypeCorrect == Spec => []TypeOK
<1>1. ServerInv => TypeOK
  BY DEF ServerInv
<1> QED
  BY <1>1, ServerInvariant, PTL

\* No edit makes a Cloudflare server incomplete (ir_mail_server.py:93-126).
THEOREM ServerStaysComplete == Spec => []CloudflareServerComplete
<1>1. ServerInv => CloudflareServerComplete
  BY DEF ServerInv
<1> QED
  BY <1>1, ServerInvariant, PTL

\* A form that makes a Cloudflare server leaves no SMTP endpoint and Cloudflare's
\* size limit, unless another one is entered afterwards (ir_mail_server.py:69-85,
\* 130-137).
THEOREM ChosenIsCleared == Spec => []ChosenMeansCleared
<1>1. ServerInv => ChosenMeansCleared
  BY RecordAssumption DEF ServerInv, ChosenMeansCleared, Cleared, NoEndpoint, Limited,
                          MaxEmailSize
<1> QED
  BY <1>1, ServerInvariant, PTL

\* Only a session that was refused itself skips (cloudflare_api.py:526-533).
THEOREM SkipsAreDeserved == Spec => []SkippedDeserved
<1>1. ServerInv => SkippedDeserved
  BY DEF ServerInv
<1> QED
  BY <1>1, ServerInvariant, PTL

\* A test only commits a limit after Cloudflare confirmed the token the record has
\* then, in the run that commits (ir_mail_server.py:226-238).
THEOREM DetectionIsHonest == Spec => DetectedHonestly
<1> DEFINE Honest == test # Null /\ test' = Null /\ changes' # changes => server'.token \in proven
<1>1. ServerInv /\ [Next]_vars => [Honest]_vars
  <2> SUFFICES ASSUME ServerInv, Next, test # Null, test' = Null, changes' # changes
               PROVE  server'.token \in proven
    OBVIOUS
  <2>1. CASE Detect
    BY <2>1 DEF Detect, ServerInv, TypeOK, Row, TestCurrent, ConnectionTest
  <2>2. ASSUME NEW row, Commit(row) PROVE FALSE
    <3>1. [test EXCEPT !.outdated = TRUE] \in ConnectionTest
      BY DEF ServerInv, TypeOK, ConnectionTest
    <3> QED
      BY <2>2, <3>1, RecordAssumption DEF Commit
  <2>3. CASE EditForm \/ Write
    BY <2>2, <2>3, Zenon DEF EditForm, Write
  <2>4. CASE ~Detect /\ ~EditForm /\ ~Write
    BY <2>4, Zenon DEF Next, Administer, Send, Test, ChangeToken, Connect, Post, Skip, Quit,
                       StartTest, Verify, TestFails, DetectConflict, TestPasses, serverVars
  <2> QED
    BY <2>1, <2>3, <2>4
<1> QED
  BY <1>1, ServerInvariant, PTL DEF Spec, DetectedHonestly
=============================================================================
