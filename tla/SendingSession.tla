--------------------------- MODULE SendingSession ---------------------------
(***************************************************************************)
(* One batch of outgoing mail through a CloudflareSendingSession           *)
(* (mail_cloudflare/cloudflare_api.py): core calls send_message for one    *)
(* message after the other on the session ir.mail_server.connect()         *)
(* returned.  Cloudflare is the environment; an attempt that ends in a     *)
(* network error or a 5xx may have been accepted all the same.             *)
(***************************************************************************)
EXTENDS SendRequest

CONSTANTS
    Messages,       \* the batch
    Mails,          \* what a message of it may look like
    MaxAttempts,    \* MAX_ATTEMPTS
    MaxRetryAfter,  \* MAX_RETRY_AFTER
    RetryAfter,     \* the values of a Retry-After header
    Null            \* nothing in progress; no Retry-After header

ASSUME SessionAssumption ==
    MaxAttempts \in Nat \ {0} /\ MaxRetryAfter \in Nat /\ RetryAfter \subseteq Int

ASSUME MailsAssumption == \A shape \in Mails : WellFormed(shape)

VARIABLES
    pc,         \* where send_message is
    cur,        \* the message it last began to post
    mail,       \* what that message looks like
    request,    \* what is posted for it
    attempt,    \* _post's loop variable
    delay,      \* the back-off it is about to sleep
    fatal,      \* whether _fatal_error is set
    outcome,    \* what send_message did for each message
    slept,      \* history of cur: the back-off slept so far
    copies,     \* history of cur: how often Cloudflare accepted it
    unclear,    \* history of cur: attempts of which nobody knows whether it did
    reached     \* history of cur: whom Cloudflare said it reached

call == <<pc, cur, mail, request, attempt, delay>>
history == <<slept, copies, unclear, reached>>
vars == <<call, fatal, outcome, history>>

SmallerOf(a, b) == IF a < b THEN a ELSE b

\* The messages send_message can post: build_payload makes a request of them,
\* and it is not too big once encoded.
Sendable == {shape \in Mails : Buildable(shape) /\ ~shape.big}

-----------------------------------------------------------------------------
Ended(result) ==
    /\ pc' = "idle" /\ mail' = Null /\ request' = Null
    /\ attempt' = 0 /\ delay' = 0
    /\ UNCHANGED cur
    /\ outcome' = [outcome EXCEPT ![cur] = result]

\* send_message raises before it looks at the message: the token is known to be
\* bad ("Not retried").
SkipMessage(m) ==
    /\ pc = "idle" /\ outcome[m] = "unsent"
    /\ fatal
    /\ outcome' = [outcome EXCEPT ![m] = "skipped"]
    /\ UNCHANGED <<call, fatal, history>>

RefuseMessage(m) ==
    /\ pc = "idle" /\ outcome[m] = "unsent"
    /\ ~fatal /\ Mails # Sendable
    /\ outcome' = [outcome EXCEPT ![m] = "failed"]
    /\ UNCHANGED <<call, fatal, history>>

StartAlways(m, shape) ==        \* variant: the fatal error is not looked at
    /\ pc = "idle" /\ outcome[m] = "unsent"
    /\ pc' = "posting" /\ cur' = m /\ mail' = shape
    /\ request' = build_payload(shape)
    /\ attempt' = 1 /\ delay' = 0
    /\ slept' = 0 /\ copies' = 0 /\ unclear' = 0 /\ reached' = {}
    /\ UNCHANGED <<fatal, outcome>>

StartMessage(m, shape) ==
    /\ pc = "idle" /\ outcome[m] = "unsent"
    /\ ~fatal
    /\ pc' = "posting" /\ cur' = m /\ mail' = shape
    /\ request' = build_payload(shape)
    /\ attempt' = 1 /\ delay' = 0
    /\ slept' = 0 /\ copies' = 0 /\ unclear' = 0 /\ reached' = {}
    /\ UNCHANGED <<fatal, outcome>>

BackOffUncapped(wait) ==        \* variant: whatever Retry-After asks for
    \/ /\ attempt < MaxAttempts
       /\ pc' = "backoff" /\ delay' = wait
       /\ UNCHANGED <<cur, mail, request, attempt, outcome>>
    \/ attempt = MaxAttempts /\ Ended("failed")

\* Sleep and try again, or give up after the last attempt.  A negative
\* Retry-After makes sleep() raise.
BackOff(wait) ==
    \/ /\ attempt < MaxAttempts /\ wait >= 0
       /\ pc' = "backoff" /\ delay' = SmallerOf(wait, MaxRetryAfter)
       /\ UNCHANGED <<cur, mail, request, attempt, outcome>>
    \/ (attempt = MaxAttempts \/ wait < 0) /\ Ended("failed")

AnyoneMissed(recipients, failed, told) ==   \* variant: one failure makes it an error
    failed # {}

\* _check_recipients: whether a 200 is an error, `failed` being who bounced or
\* is suppressed and `told` whom Cloudflare says it delivered to or queued for.
NobodyReached(recipients, failed, told) ==
    failed # {} /\ (recipients \subseteq failed \/ told = {})

AcceptedRetried(failed, told) ==    \* variant: the error is raised inside the loop
    LET recipients == RecipientsOf(request.split)
    IN  /\ pc = "posting"
        /\ failed \subseteq recipients \cup {Null} /\ told \subseteq recipients \ failed
        /\ copies' = copies + 1
        /\ reached' = told
        /\ \/ ~NobodyReached(recipients, failed, told) /\ Ended("sent")
           \/ NobodyReached(recipients, failed, told) /\ BackOff(2 ^ (attempt - 1))
        /\ UNCHANGED <<fatal, slept, unclear>>

\* 200 and success.  Cloudflare need not name everyone, nor anyone: the result
\* may be missing.  It may name a failed one in a spelling nobody was addressed
\* by (Null), and names nobody both ways.
Accepted(failed, told) ==
    LET recipients == RecipientsOf(request.split)
    IN  /\ pc = "posting"
        /\ failed \subseteq recipients \cup {Null} /\ told \subseteq recipients \ failed
        /\ copies' = copies + 1
        /\ reached' = told
        /\ Ended(IF NobodyReached(recipients, failed, told) THEN "failed" ELSE "sent")
        /\ UNCHANGED <<fatal, slept, unclear>>

\* 200 without success, and every 4xx that no retry can help.
Rejected ==
    /\ pc = "posting"
    /\ Ended("failed")
    /\ UNCHANGED <<fatal, slept, copies, unclear, reached>>

\* 401 and 403.
Unauthorized ==
    /\ pc = "posting"
    /\ fatal' = TRUE
    /\ Ended("failed")
    /\ UNCHANGED <<slept, copies, unclear, reached>>

\* 429: Retry-After, or 2^attempt when it is absent, not a number or 0.
Throttled(after) ==
    /\ pc = "posting"
    /\ BackOff(IF after \in {Null, 0} THEN 2 ^ attempt ELSE after)
    /\ UNCHANGED <<fatal, slept, copies, unclear, reached>>

\* A network error, a timeout or a 5xx.
Unclear ==
    /\ pc = "posting"
    /\ BackOff(2 ^ (attempt - 1))
    /\ unclear' = unclear + 1
    /\ copies' \in {copies, copies + 1}
    /\ UNCHANGED <<fatal, slept, reached>>

Wake ==
    /\ pc = "backoff"
    /\ pc' = "posting"
    /\ attempt' = attempt + 1 /\ delay' = 0
    /\ slept' = slept + delay
    /\ UNCHANGED <<cur, mail, request, fatal, outcome, copies, unclear, reached>>

-----------------------------------------------------------------------------
Init ==
    /\ pc = "idle" /\ cur = Null /\ mail = Null /\ request = Null
    /\ attempt = 0 /\ delay = 0
    /\ fatal = FALSE
    /\ outcome = [m \in Messages |-> "unsent"]
    /\ slept = 0 /\ copies = 0 /\ unclear = 0 /\ reached = {}

SendMessage ==
    \E m \in Messages :
        \/ SkipMessage(m) \/ RefuseMessage(m)
        \/ \E shape \in Sendable : StartMessage(m, shape)

Answer ==
    \/ /\ pc = "posting"
       /\ \E told \in SUBSET RecipientsOf(request.split),
             failed \in SUBSET (RecipientsOf(request.split) \cup {Null}) :
             Accepted(failed, told)
    \/ Rejected \/ Unauthorized \/ Unclear
    \/ \E after \in RetryAfter \cup {Null} : Throttled(after)

Next == SendMessage \/ Answer \/ Wake

Spec == Init /\ [][Next]_vars

-----------------------------------------------------------------------------
(* What must hold. *)

\* Every variable keeps its type, and the attempts of a message their bound.
TypeOK ==
    /\ pc \in {"idle", "posting", "backoff"}
    /\ cur \in Messages \cup {Null}
    /\ pc # "idle" => cur \in Messages /\ request = build_payload(mail)
    /\ attempt \in 0 .. MaxAttempts
    /\ delay \in 0 .. MaxRetryAfter
    /\ fatal \in BOOLEAN
    /\ outcome \in [Messages -> {"unsent", "sent", "failed", "skipped"}]
    /\ slept \in Nat /\ copies \in Nat /\ unclear \in Nat

\* A mail that ends in an error was not said to have reached anyone, so that
\* sending it again gives a second copy to nobody unless an attempt was unclear
\* ("some reached -> warn and report success", cloudflare_api.py:633).
FailedReachedNobody == cur # Null /\ outcome[cur] = "failed" => reached = {}

\* Cloudflare gets a mail twice only when an earlier attempt ended without
\* telling whether it had it: no answer that says so is followed by a retry
\* (_post, cloudflare_api.py:562-570).
CopiesExplained == copies <= unclear + (IF pc = "idle" THEN 1 ELSE 0)

\* "Upper bound on how long one 429/5xx back-off may block the sending cron"
\* (cloudflare_api.py:59), over all the back-offs of a message.
BlockedBriefly == slept <= (MaxAttempts - 1) * MaxRetryAfter

\* "remembered as fatal so the rest of the batch fails fast"
\* (cloudflare_api.py:567): once Cloudflare refused the token, no message of
\* the batch is posted or waited for.
FailsFast == fatal => pc = "idle"

\* Everyone of the envelope is addressed, nobody else, and nobody twice
\* ("The envelope ... is the truth about who receives the mail",
\* cloudflare_api.py:153-155).
AddressedOnce ==
    request # Null =>
        LET s == request.split
        IN  /\ RecipientsOf(s) = mail.envelope
            /\ s.to \cap s.cc = {} /\ s.to \cap s.bcc = {} /\ s.cc \cap s.bcc = {}

\* Recipients in no header stay "hidden rather than exposed to each other"
\* (cloudflare_api.py:186-190).
HiddenApart ==
    request # Null =>
        LET hidden  == mail.envelope \ (mail.to \cup mail.cc)
            visible == request.split.to \cup request.split.cc
        IN  hidden \cap visible # {} => Cardinality(hidden) = 1

\* No byte of a message is lost or sent twice: every part that is not a
\* container is in the body or in exactly one attachment, an attached message
\* whole ("stopping at the rfc822 boundary keeps the attached message whole",
\* cloudflare_api.py:206-209).  Only a body of nothing but whitespace is dropped.
PartsSentOnce ==
    request # Null =>
        LET parts == mail.parts
            content == request.content
            carriers(i) == {c \in content.attachments : i \in Carried(parts, c)}
            body == content.text \cup content.html
        IN  \A i \in DOMAIN parts :
                \/ parts[i].kind \in Multipart
                \/ Cardinality(carriers(i)) + Cardinality({i} \cap body) = 1
                \/ carriers(i) = {} /\ parts[i].blank

\* No request breaks a limit of the API: recipients, header values, headers in
\* bytes and in number, a body that is not empty (cloudflare_api.py:15-28).
WithinLimits ==
    request # Null =>
        LET all == request.headers \cup {"References"}
            kept == Len(request.references)
            size(name) == IF name = "References" THEN ReferencesSize(kept)
                          ELSE ValueSize(mail, name)
            line(name) == NameBytes + size(name)
        IN  /\ Cardinality(RecipientsOf(request.split)) \in 1 .. MaxRecipients
            /\ \A name \in all : size(name) <= MaxHeaderValueBytes
            /\ MapThenSumSet(line, all) <= MaxHeaderBytes
            /\ Cardinality(all) <= MaxHeaderCount
            /\ request.content.text \cup request.content.html # {}

\* As much of the thread as fits is kept, for mail.thread to find: one more of
\* the references dropped would break a limit, and the own id, which a reply is
\* matched by, is there, except where the message named it itself before
\* others, though "never the own id" is said to be dropped (cloudflare_api.py:295-298).
ThreadKept ==
    request # Null =>
        LET kept == Len(request.references)
            named == \E i \in 1 .. Len(mail.references) - 1 : mail.references[i] = mail.own
        IN  /\ \/ kept = Len(WithOwnId(mail))
               \/ ReferencesSize(kept + 1) > MaxHeaderValueBytes
               \/ HeaderSize(mail, kept + 1) > MaxHeaderBytes
            /\ named \/ request.references[kept] = mail.own
=============================================================================
