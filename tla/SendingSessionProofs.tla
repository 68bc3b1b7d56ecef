------------------------ MODULE SendingSessionProofs ------------------------
(***************************************************************************)
(* Proofs about SendingSession for every batch, every message and every    *)
(* limit.  What a request is of, SendRequestProofs proves.                 *)
(***************************************************************************)
EXTENDS SendingSession, SendRequestProofs

-----------------------------------------------------------------------------
(* The session. *)

\* What is posted is the request of a message that could be built, of which
\* nothing is known yet; the one before has its outcome.
InProgress ==
    IF pc = "idle" THEN request = Null /\ (cur # Null => outcome[cur] # "unsent")
    ELSE /\ cur \in Messages /\ mail \in Sendable /\ request = build_payload(mail)
         /\ reached = {}

SessionInv ==
    /\ pc \in {"idle", "posting", "backoff"} /\ cur \in Messages \cup {Null}
    /\ outcome \in [Messages -> {"unsent", "sent", "failed", "skipped"}]
    /\ copies \in Nat /\ unclear \in Nat
    /\ InProgress
    /\ FailedReachedNobody /\ CopiesExplained /\ FailsFast

\* Nothing was sent yet.
LEMMA SessionInit == Init => SessionInv
BY DEF Init, SessionInv, InProgress, FailedReachedNobody, CopiesExplained, FailsFast

\* A batch goes on with its next message.
LEMMA SendMessageKeeps == SessionInv /\ SendMessage => SessionInv'
<1> SUFFICES ASSUME SessionInv, NEW m \in Messages,
                    \/ SkipMessage(m) \/ RefuseMessage(m)
                    \/ \E shape \in Sendable : StartMessage(m, shape)
             PROVE  SessionInv'
  BY DEF SendMessage
<1>1. CASE SkipMessage(m) \/ RefuseMessage(m)
  <2>1. /\ pc = "idle" /\ outcome[m] = "unsent" /\ UNCHANGED <<call, fatal, history>>
        /\ \/ outcome' = [outcome EXCEPT ![m] = "skipped"]
           \/ outcome' = [outcome EXCEPT ![m] = "failed"]
    BY <1>1 DEF SkipMessage, RefuseMessage
  <2>2. /\ outcome' \in [Messages -> {"unsent", "sent", "failed", "skipped"}]
        /\ cur # Null => cur # m /\ outcome'[cur] = outcome[cur]
    BY <2>1 DEF SessionInv, InProgress
  <2>3. FailedReachedNobody' /\ InProgress'
    BY <2>1, <2>2 DEF SessionInv, InProgress, FailedReachedNobody, call, history
  <2> QED
    BY <2>1, <2>2, <2>3 DEF SessionInv, InProgress, CopiesExplained, FailsFast, call, history
<1>2. ASSUME NEW shape \in Sendable, StartMessage(m, shape) PROVE SessionInv'
  BY <1>2 DEF StartMessage, SessionInv, InProgress, FailedReachedNobody, CopiesExplained,
              FailsFast
<1> QED
  BY <1>1, <1>2

\* A message that ends leaves nothing in progress.
LEMMA EndKeeps ==
    ASSUME SessionInv, pc = "posting", NEW result \in {"sent", "failed"}, Ended(result),
           result = "failed" => reached' = {},
           copies' \in Nat, unclear' \in Nat, copies' <= unclear' + 1
    PROVE  SessionInv'
BY DEF SessionInv, Ended, InProgress, FailedReachedNobody, CopiesExplained, FailsFast

\* So does one that goes on after a pause, unless it is clear that Cloudflare has it.
LEMMA BackOffKeeps ==
    ASSUME SessionInv, pc = "posting", NEW wait, BackOff(wait),
           fatal' = fatal, reached' = reached,
           copies' \in Nat, unclear' \in Nat, copies' <= unclear'
    PROVE  SessionInv'
<1>1. CASE Ended("failed")
  <2>1. \A i, j \in Nat : i <= j => i <= j + 1
    OBVIOUS
  <2>2. copies' <= unclear' + 1
    BY <2>1
  <2>3. reached' = {}
    BY DEF SessionInv, InProgress
  <2> QED
    BY <1>1, <2>2, <2>3, EndKeeps
<1>2. CASE pc' = "backoff" /\ UNCHANGED <<cur, mail, request, outcome>>
  <2>1. InProgress'
    BY <1>2 DEF SessionInv, InProgress
  <2>2. FailedReachedNobody' /\ FailsFast'
    BY <1>2 DEF SessionInv, FailedReachedNobody, FailsFast
  <2>3. CopiesExplained'
    <3>1. \A i, j \in Nat : i <= j => i <= j + 0
      OBVIOUS
    <3>2. pc' # "idle" /\ copies' <= unclear' + 0
      BY <1>2, <3>1
    <3> QED
      BY <3>2 DEF CopiesExplained
  <2> QED
    BY <1>2, <2>1, <2>2, <2>3 DEF SessionInv
<1> QED
  BY <1>1, <1>2 DEF BackOff

\* Every answer of Cloudflare.
LEMMA AnswerKeeps == SessionInv /\ Answer => SessionInv'
<1> SUFFICES ASSUME SessionInv, Answer PROVE SessionInv'
  OBVIOUS
<1>1. pc = "posting" => mail \in Sendable /\ request = build_payload(mail) /\ copies <= unclear
  BY DEF SessionInv, InProgress, CopiesExplained
<1>0. pc = "posting" => reached = {}
  BY DEF SessionInv, InProgress
<1>2. ASSUME NEW told \in SUBSET RecipientsOf(request.split),
             NEW failed \in SUBSET (RecipientsOf(request.split) \cup {Null}),
             Accepted(failed, told)
      PROVE  SessionInv'
  <2> DEFINE recipients == RecipientsOf(request.split)
  <2>1. /\ pc = "posting" /\ told \subseteq recipients \ failed
        /\ copies' = copies + 1 /\ reached' = told /\ unclear' = unclear
    BY <1>2 DEF Accepted
  <2>3. NobodyReached(recipients, failed, told) => told = {}
    BY <2>1 DEF NobodyReached
  <2>4. PICK result \in {"sent", "failed"} :
            Ended(result) /\ (result = "failed" => NobodyReached(recipients, failed, told))
    BY <1>2 DEF Accepted
  <2>5. copies' \in Nat /\ unclear' \in Nat /\ copies' <= unclear' + 1
    BY <1>1, <2>1 DEF SessionInv
  <2> QED
    BY <2>1, <2>3, <2>4, <2>5, EndKeeps
<1>3. CASE Rejected \/ Unauthorized
  <2>1. pc = "posting" /\ Ended("failed") /\ UNCHANGED <<copies, unclear, reached>>
    BY <1>3 DEF Rejected, Unauthorized
  <2>2. copies' \in Nat /\ unclear' \in Nat /\ copies' <= unclear' + 1
    BY <1>1, <2>1 DEF SessionInv
  <2> QED
    BY <1>0, <2>1, <2>2, EndKeeps
<1>4. CASE Unclear
  <2>1. /\ pc = "posting" /\ BackOff(2 ^ (attempt - 1)) /\ UNCHANGED <<fatal, reached>>
        /\ unclear' = unclear + 1 /\ copies' \in {copies, copies + 1}
    BY <1>4 DEF Unclear
  <2>2. copies' \in Nat /\ unclear' \in Nat /\ copies' <= unclear'
    BY <1>1, <2>1 DEF SessionInv
  <2> QED
    BY <2>1, <2>2, BackOffKeeps
<1>5. ASSUME NEW after \in RetryAfter \cup {Null}, Throttled(after) PROVE SessionInv'
  <2>1. /\ pc = "posting" /\ UNCHANGED <<fatal, copies, unclear, reached>>
        /\ BackOff(IF after \in {Null, 0} THEN 2 ^ attempt ELSE after)
    BY <1>5 DEF Throttled
  <2>2. copies' \in Nat /\ unclear' \in Nat /\ copies' <= unclear'
    BY <1>1, <2>1 DEF SessionInv
  <2> QED
    BY <2>1, <2>2, BackOffKeeps
<1> QED
  BY <1>2, <1>3, <1>4, <1>5 DEF Answer

\* The invariant holds in every reachable state.
THEOREM SessionInvariant == Spec => []SessionInv
<1>1. SessionInv /\ [Next]_vars => SessionInv'
  <2> SUFFICES ASSUME SessionInv, [Next]_vars PROVE SessionInv'
    OBVIOUS
  <2>1. CASE Wake
    BY <2>1 DEF Wake, SessionInv, InProgress, FailedReachedNobody, CopiesExplained, FailsFast
  <2>2. CASE UNCHANGED vars
    BY <2>2 DEF vars, call, history, SessionInv, InProgress, FailedReachedNobody,
                CopiesExplained, FailsFast
  <2> QED
    BY <2>1, <2>2, SendMessageKeeps, AnswerKeeps DEF Next
<1> QED
  BY SessionInit, <1>1, PTL DEF Spec

-----------------------------------------------------------------------------
(* Attempts and pauses. *)

\* As many pauses as retries, none above its cap; the last attempt is not followed
\* by one.
PauseInv ==
    /\ attempt \in 0 .. MaxAttempts /\ delay \in 0 .. MaxRetryAfter
    /\ fatal \in BOOLEAN /\ slept \in Nat
    /\ pc = "backoff" => attempt < MaxAttempts
    /\ pc # "idle" => attempt >= 1 /\ slept <= (attempt - 1) * MaxRetryAfter
    /\ BlockedBriefly

\* A bound on pauses is never below zero.
LEMMA NoPausesYet ==
    ASSUME NEW cap \in Nat, NEW n \in Nat \ {0}
    PROVE  0 <= (n - 1) * cap
<1>1. \A k, c \in Nat : 0 <= k * c
  OBVIOUS
<1> QED
  BY <1>1

\* One pause more for one attempt more.
LEMMA PausesAdd ==
    ASSUME NEW cap \in Nat, NEW n \in Nat \ {0}, NEW s \in Nat, NEW d \in 0 .. cap,
           s <= (n - 1) * cap
    PROVE  s + d <= n * cap
<1>1. (n - 1) * cap = n * cap - cap
  OBVIOUS
<1>2. n * cap \in Int
  OBVIOUS
<1> QED
  BY <1>1, <1>2

\* A later attempt has slept at least as long.
LEMMA PausesGrow ==
    ASSUME NEW cap \in Nat, NEW n \in Nat, NEW k \in Nat, n <= k
    PROVE  n * cap <= k * cap
<1>1. PICK d \in Nat : k = n + d
  <2>1. k - n \in Nat /\ k = n + (k - n)
    OBVIOUS
  <2> QED
    BY <2>1
<1>2. d * cap \in Nat /\ n * cap \in Int
  OBVIOUS
<1>3. k * cap = n * cap + d * cap
  BY <1>1
<1> QED
  BY <1>2, <1>3

\* A message that ends leaves what it has slept.
LEMMA EndPauses ==
    ASSUME PauseInv, NEW result, Ended(result), slept' = slept, fatal' \in BOOLEAN
    PROVE  PauseInv'
BY SessionAssumption DEF PauseInv, Ended, BlockedBriefly

\* A pause is as long as asked for, up to the cap, and never negative.
LEMMA BackOffPauses ==
    ASSUME PauseInv, pc = "posting", NEW wait \in Int, BackOff(wait), slept' = slept,
           fatal' = fatal
    PROVE  PauseInv'
<1>1. CASE Ended("failed")
  BY <1>1, EndPauses DEF PauseInv
<1>2. CASE /\ attempt < MaxAttempts /\ wait >= 0
           /\ pc' = "backoff" /\ delay' = SmallerOf(wait, MaxRetryAfter)
           /\ attempt' = attempt
  <2>1. \A cap \in Nat : wait >= 0 => SmallerOf(wait, cap) \in 0 .. cap
    BY DEF SmallerOf
  <2>2. delay' \in 0 .. MaxRetryAfter
    BY <1>2, <2>1, SessionAssumption
  <2> QED
    BY <1>2, <2>2 DEF PauseInv, BlockedBriefly
<1> QED
  BY <1>1, <1>2, Zenon DEF BackOff

\* The next attempt begins after the pause.
LEMMA WakePauses == PauseInv /\ Wake => PauseInv'
<1> SUFFICES ASSUME PauseInv, Wake PROVE PauseInv'
  OBVIOUS
<1>1. /\ attempt \in 0 .. MaxAttempts /\ attempt >= 1 /\ attempt < MaxAttempts
      /\ slept \in Nat /\ slept <= (attempt - 1) * MaxRetryAfter
      /\ delay \in 0 .. MaxRetryAfter /\ MaxRetryAfter \in Nat /\ MaxAttempts \in Nat
      /\ pc' = "posting" /\ attempt' = attempt + 1 /\ delay' = 0
      /\ slept' = slept + delay /\ fatal' = fatal /\ fatal \in BOOLEAN
  BY SessionAssumption DEF PauseInv, Wake
<1>2. slept + delay <= attempt * MaxRetryAfter /\ slept + delay \in Nat
  BY <1>1, PausesAdd
<1>3. attempt * MaxRetryAfter <= (MaxAttempts - 1) * MaxRetryAfter
  <2>1. attempt \in Nat /\ MaxAttempts - 1 \in Nat /\ attempt <= MaxAttempts - 1
    BY <1>1
  <2> QED
    BY <1>1, <2>1, PausesGrow
<1>4. slept + delay <= (MaxAttempts - 1) * MaxRetryAfter
  <2>1. attempt * MaxRetryAfter \in Int /\ (MaxAttempts - 1) * MaxRetryAfter \in Int
    BY <1>1
  <2> QED
    BY <1>2, <1>3, <2>1
<1>5. \A n \in Nat : n + 1 - 1 = n
  OBVIOUS
<1>6. attempt + 1 \in 0 .. MaxAttempts /\ attempt + 1 >= 1
  BY <1>1
<1> QED
  BY <1>1, <1>2, <1>4, <1>5, <1>6 DEF PauseInv, BlockedBriefly

\* The attempts and the pauses of every message keep their bounds.
THEOREM PausesBounded == Spec => []PauseInv
<1>1. Init => PauseInv
  <2>1. 0 <= (MaxAttempts - 1) * MaxRetryAfter
    BY NoPausesYet, SessionAssumption
  <2>2. 0 \in 0 .. MaxAttempts /\ 0 \in 0 .. MaxRetryAfter
    BY SessionAssumption
  <2>3. Init => BlockedBriefly
    BY <2>1 DEF Init, BlockedBriefly
  <2>4. Init => pc = "idle" /\ attempt = 0 /\ delay = 0 /\ slept = 0 /\ fatal \in BOOLEAN
    BY DEF Init
  <2> QED
    BY <2>2, <2>3, <2>4 DEF PauseInv
<1>2. PauseInv /\ [Next]_vars => PauseInv'
  <2> SUFFICES ASSUME PauseInv, [Next]_vars PROVE PauseInv'
    OBVIOUS
  <2>1. ASSUME NEW m \in Messages, SkipMessage(m) \/ RefuseMessage(m) PROVE PauseInv'
    BY <2>1 DEF SkipMessage, RefuseMessage, call, history, PauseInv, BlockedBriefly
  <2>2. ASSUME NEW m \in Messages, NEW shape \in Sendable, StartMessage(m, shape)
        PROVE  PauseInv'
    <3>1. /\ pc' = "posting" /\ attempt' = 1 /\ delay' = 0 /\ slept' = 0
          /\ fatal' = fatal
      BY <2>2, Zenon DEF StartMessage
    <3>2. 0 <= (1 - 1) * MaxRetryAfter /\ 0 <= (MaxAttempts - 1) * MaxRetryAfter
      BY NoPausesYet, SessionAssumption
    <3> QED
      BY <3>1, <3>2, SessionAssumption DEF PauseInv, BlockedBriefly
  <2>3. ASSUME Answer PROVE PauseInv'
    <3>1. \A told, failed : Accepted(failed, told) => PauseInv'
      <4> SUFFICES ASSUME NEW told, NEW failed, Accepted(failed, told) PROVE PauseInv'
        OBVIOUS
      <4>1. /\ \E result : Ended(result)
            /\ slept' = slept /\ fatal' = fatal
        BY Zenon DEF Accepted
      <4> QED
        BY <4>1, EndPauses DEF PauseInv
    <3>2. Rejected \/ Unauthorized => PauseInv'
      <4>1. Rejected \/ Unauthorized =>
                Ended("failed") /\ slept' = slept /\ (fatal' = fatal \/ fatal' = TRUE)
        BY Zenon DEF Rejected, Unauthorized
      <4> QED
        BY <4>1, EndPauses DEF PauseInv
    <3>3. Unclear => PauseInv'
      <4> SUFFICES ASSUME Unclear PROVE PauseInv'
        OBVIOUS
      <4>1. pc = "posting" /\ BackOff(2 ^ (attempt - 1)) /\ slept' = slept /\ fatal' = fatal
        BY Zenon DEF Unclear
      <4>2. attempt - 1 \in Nat
        BY <4>1 DEF PauseInv
      <4>3. 2 ^ (attempt - 1) \in Int
        BY <4>2
      <4> QED
        BY <4>1, <4>3, BackOffPauses
    <3>4. ASSUME NEW after \in RetryAfter \cup {Null}, Throttled(after) PROVE PauseInv'
      <4> DEFINE wait == IF after \in {Null, 0} THEN 2 ^ attempt ELSE after
      <4>1. pc = "posting" /\ BackOff(wait) /\ slept' = slept /\ fatal' = fatal
        BY <3>4, Zenon DEF Throttled
      <4>2. wait \in Int
        <5>1. attempt \in Nat
          BY DEF PauseInv
        <5>2. 2 ^ attempt \in Int
          BY <5>1
        <5> QED
          BY <5>2, SessionAssumption
      <4> HIDE DEF wait
      <4> QED
        BY <4>1, <4>2, BackOffPauses
    <3> QED
      BY <2>3, <3>1, <3>2, <3>3, <3>4, Zenon DEF Answer
  <2>4. CASE UNCHANGED vars
    BY <2>4 DEF vars, call, history, PauseInv, BlockedBriefly
  <2> QED
    BY <2>1, <2>2, <2>3, <2>4, WakePauses, Zenon DEF Next, SendMessage
<1> QED
  BY <1>1, <1>2, PTL DEF Spec

\* Every variable keeps its type, and no message more attempts than MAX_ATTEMPTS
\* (cloudflare_api.py:556-597).
THEOREM SessionTypeCorrect == Spec => []TypeOK
<1>1. SessionInv /\ PauseInv => TypeOK
  BY DEF SessionInv, PauseInv, InProgress, TypeOK
<1> QED
  BY <1>1, SessionInvariant, PausesBounded, PTL

\* No message blocks the cron for longer than its retries may
\* (cloudflare_api.py:59, 583-597).
THEOREM CronBlockedBriefly == Spec => []BlockedBriefly
<1>1. PauseInv => BlockedBriefly
  BY DEF PauseInv
<1> QED
  BY <1>1, PausesBounded, PTL

-----------------------------------------------------------------------------
(* What must hold. *)

\* An error is only reported of a mail that reached nobody, whatever the answers
\* to its attempts (cloudflare_api.py:556-657).
THEOREM FailedIsUnreached == Spec => []FailedReachedNobody
<1>1. SessionInv => FailedReachedNobody
  BY DEF SessionInv
<1> QED
  BY <1>1, SessionInvariant, PTL

\* A second copy has a first attempt nobody knew the end of
\* (cloudflare_api.py:562-581).
THEOREM CopiesAreExplained == Spec => []CopiesExplained
<1>1. SessionInv => CopiesExplained
  BY DEF SessionInv
<1> QED
  BY <1>1, SessionInvariant, PTL

\* Nothing is posted once the token was refused (cloudflare_api.py:526-533).
THEOREM BatchFailsFast == Spec => []FailsFast
<1>1. SessionInv => FailsFast
  BY DEF SessionInv
<1> QED
  BY <1>1, SessionInvariant, PTL

\* Everyone of the envelope is addressed once, whatever the headers say
\* (cloudflare_api.py:150-200).
THEOREM EnvelopeIsAddressed == Spec => []AddressedOnce
<1>1. SessionInv => AddressedOnce
  <2> SUFFICES ASSUME SessionInv, request # Null
               PROVE  LET s == request.split
                      IN  /\ RecipientsOf(s) = mail.envelope
                          /\ s.to \cap s.cc = {} /\ s.to \cap s.bcc = {}
                          /\ s.cc \cap s.bcc = {}
    BY DEF AddressedOnce
  <2>1. request.split = SplitRecipients(mail)
    BY DEF SessionInv, InProgress, build_payload
  <2> QED
    BY <2>1, SplitIsPartition
<1> QED
  BY <1>1, SessionInvariant, PTL

\* Several hidden recipients stay hidden (cloudflare_api.py:186-190).
THEOREM HiddenStayApart == Spec => []HiddenApart
<1>1. SessionInv => HiddenApart
  <2> SUFFICES ASSUME SessionInv, request # Null
               PROVE  LET hidden  == mail.envelope \ (mail.to \cup mail.cc)
                          visible == request.split.to \cup request.split.cc
                      IN  hidden \cap visible # {} => Cardinality(hidden) = 1
    BY DEF HiddenApart
  <2>1. request.split = SplitRecipients(mail)
    BY DEF SessionInv, InProgress, build_payload
  <2> QED
    BY <2>1, SplitHides
<1> QED
  BY <1>1, SessionInvariant, PTL

\* No part of a message is lost or sent twice, whatever its MIME tree
\* (cloudflare_api.py:203-274).
THEOREM EveryPartSentOnce == Spec => []PartsSentOnce
<1>1. SessionInv => PartsSentOnce
  <2> SUFFICES ASSUME SessionInv, request # Null,
                      NEW i \in DOMAIN mail.parts, mail.parts[i].kind \notin Multipart
               PROVE  LET content == request.content
                          carriers == {c \in content.attachments : i \in Carried(mail.parts, c)}
                          body == content.text \cup content.html
                      IN  \/ Cardinality(carriers) + Cardinality({i} \cap body) = 1
                          \/ carriers = {} /\ mail.parts[i].blank
    BY DEF PartsSentOnce
  <2>1. mail \in Mails /\ request.content = extract_content(mail.parts)
    BY DEF SessionInv, InProgress, Sendable, build_payload
  <2>2. Tree(mail.parts)
    BY <2>1, MailsAssumption DEF WellFormed
  <2> QED
    BY <2>1, <2>2, PartIsSent
<1> QED
  BY <1>1, SessionInvariant, PTL

\* No request breaks a limit of the API, whatever the message: what was checked
\* before References were trimmed still holds of what is sent
\* (cloudflare_api.py:192-199, 321-350).
THEOREM LimitsAreKept == Spec => []WithinLimits
<1>1. SessionInv => WithinLimits
  <2> DEFINE kept == Len(request.references)
             all == Names(mail) \cup {"References"}
             size(name) == IF name = "References" THEN ReferencesSize(kept)
                           ELSE ValueSize(mail, name)
             Loop(h) == h = [s \in SUBSET all |->
                               IF s = {} THEN 0
                               ELSE (NameBytes + size(NextElement(s)))
                                    + h[s \ {NextElement(s)}]]
             total == (CHOOSE h : Loop(h))[all]
  <2> SUFFICES ASSUME SessionInv, request # Null PROVE WithinLimits
    BY DEF WithinLimits
  <2>1. mail \in Mails /\ Buildable(mail) /\ request = build_payload(mail)
    BY DEF SessionInv, InProgress, Sendable
  <2>2. WellFormed(mail)
    BY <2>1, MailsAssumption
  <2>3. /\ request.split = SplitRecipients(mail) /\ request.headers = Names(mail)
        /\ request.content = extract_content(mail.parts) /\ kept = Kept(mail)
    BY <2>1, <2>2, TrimmedIsTail DEF build_payload
  <2>4. /\ Cardinality(RecipientsOf(request.split)) \in 1 .. MaxRecipients
        /\ \A name \in all : size(name) <= MaxHeaderValueBytes
        /\ SumOver(AllLines(mail, kept), all) <= MaxHeaderBytes
        /\ Cardinality(all) <= MaxHeaderCount
    BY <2>1, <2>2, <2>3, BuildableIsWithinLimits
  <2>5. total = SumOver(AllLines(mail, kept), all)
    <3>1. IsFiniteSet(all)
      BY <2>2, HeadersAreFinite, FS_AddElement
    <3>2. ASSUME NEW h PROVE Loop(h) <=> IsSum(h, AllLines(mail, kept), all)
      <4>1. \A s \in SUBSET all : s # {} =>
                AllLines(mail, kept)[NextElement(s)] = NameBytes + size(NextElement(s))
        BY NextElementIn DEF AllLines
      <4>2. [s \in SUBSET all |-> IF s = {} THEN 0
                                  ELSE (NameBytes + size(NextElement(s)))
                                       + h[s \ {NextElement(s)}]]
            = [s \in SUBSET all |-> IF s = {} THEN 0
                                    ELSE AllLines(mail, kept)[NextElement(s)]
                                         + h[s \ {NextElement(s)}]]
        <5> HIDE DEF all, size, kept
        <5> QED
          BY <4>1
      <4> HIDE DEF all, size, kept
      <4> QED
        BY <4>2 DEF IsSum
    <3>3. Loop(CHOOSE h : Loop(h))
      <4>1. \E h : Loop(h)
        <5> HIDE DEF Loop, all, kept
        <5> QED
          BY <3>1, <3>2, SumExists
      <4> HIDE DEF Loop
      <4> QED
        BY <4>1
    <3> HIDE DEF Loop, all, kept
    <3>4. (CHOOSE h : Loop(h)) = (CHOOSE h : IsSum(h, AllLines(mail, kept), all))
      BY <3>1, <3>2, <3>3, SumIs
    <3> QED
      BY <3>4 DEF SumOver
  <2>6. request.content.text \cup request.content.html # {}
    BY <2>1, <2>3 DEF Buildable, HasBody
  <2>7. total <= MaxHeaderBytes
    BY <2>4, <2>5
  <2> QED
    BY <2>3, <2>4, <2>6, <2>7 DEF WithinLimits, MapThenSumSet, MapThenFoldSet, NextElement
<1> QED
  BY <1>1, SessionInvariant, PTL

\* The thread is cut no more than the limits ask for, and the own id is the last
\* one to go (cloudflare_api.py:295-298, 321-329).
THEOREM ThreadIsKept == Spec => []ThreadKept
<1>1. SessionInv => ThreadKept
  <2> DEFINE kept == Len(request.references)
             refs == WithOwnId(mail)
             named == \E i \in 1 .. Len(mail.references) - 1 : mail.references[i] = mail.own
  <2> SUFFICES ASSUME SessionInv, request # Null
               PROVE  /\ \/ kept = Len(refs)
                         \/ ReferencesSize(kept + 1) > MaxHeaderValueBytes
                         \/ HeaderSize(mail, kept + 1) > MaxHeaderBytes
                      /\ named \/ request.references[kept] = mail.own
    BY DEF ThreadKept
  <2>1. mail \in Mails /\ request.references = TrimReferences(mail)
    BY DEF SessionInv, InProgress, Sendable, build_payload
  <2>2. WellFormed(mail)
    BY <2>1, MailsAssumption
  <2>3. /\ kept = Kept(mail) /\ request.references[kept] = refs[Len(refs)]
    BY <2>1, <2>2, TrimmedIsTail
  <2>4. /\ Len(refs) \in Nat \ {0} /\ kept \in 1 .. Len(refs)
        /\ \A k \in kept + 1 .. Len(refs) : Oversized(mail, k)
        /\ refs[Len(refs)] # mail.own => named
    BY <2>2, <2>3, WithOwnIdType, KeptIsLargest
  <2> HIDE DEF kept, refs, named
  <2>5. kept # Len(refs) => kept + 1 \in kept + 1 .. Len(refs)
    BY <2>4
  <2> QED
    BY <2>3, <2>4, <2>5 DEF Oversized
<1> QED
  BY <1>1, SessionInvariant, PTL
=============================================================================
