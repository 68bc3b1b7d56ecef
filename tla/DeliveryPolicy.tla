--------------------------- MODULE DeliveryPolicy ---------------------------
(***************************************************************************)
(* The retry policy of the push to Odoo (worker/src/lib/backoff.ts): what  *)
(* an HTTP status means for the row of the queue, and how long to wait     *)
(* after a failed attempt.  Pure operators, shared by InboxQueue and by    *)
(* the end-to-end composition.                                             *)
(***************************************************************************)
EXTENDS Integers, Sequences

\* `delivered`, `retry` and `rejected` are the outcomes of backoff.ts.
Outcome == {"delivered", "retry", "rejected"}

\* No status at all is a network failure or a timeout (inbox-do.ts:514-520).
NoStatus == 0

classifyRedirectTaken(status) ==    \* variant: anything below 400 is a success
    CASE status \in 200..399                 -> "delivered"
      [] status \in {408, 429} \cup 500..599 -> "retry"
      [] OTHER                               -> "rejected"

\* 2xx delivered; 408, 429 and 5xx retry; everything else, 3xx included,
\* is rejected.
classifyStatus(status) ==
    CASE status \in 200..299                 -> "delivered"
      [] status \in {408, 429} \cup 500..599 -> "retry"
      [] OTHER                               -> "rejected"

\* deliver() calls classifyStatus only when there is a response.
VerdictOf(status) ==
    IF status = NoStatus THEN "retry" ELSE classifyStatus(status)

\* The wait after attempt number `attempt` (1-based): the last entry of the
\* schedule repeats for every attempt beyond its length.
backoffMs(schedule, attempt) ==
    IF attempt < 1 THEN schedule[1]
    ELSE IF attempt > Len(schedule) THEN schedule[Len(schedule)]
    ELSE schedule[attempt]

\* What parseSchedule lets through: a non-empty list of positive integers.
Schedule(schedule) ==
    /\ schedule \in Seq(Nat \ {0})
    /\ schedule # << >>
=============================================================================
