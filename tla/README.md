# Verification of odoo-cloudflare-email

TLA+ models of the mail gateway between Cloudflare and Odoo, checked with TLC; all that is checked,
except liveness, is also proved with TLAPS. The repository has two halves: an Email Worker in TypeScript
(`worker/`) that takes inbound mail from Cloudflare Email Routing, and an Odoo addon in Python
(`mail_cloudflare/`) that receives those mails over a webhook and sends outgoing mail over Cloudflare's
REST API.

## 1. Inventory

| Component | State it keeps | Operations | What makes it hard |
|---|---|---|---|
| Durable Object `InboxQueue` (`worker/src/inbox-do.ts`) | table `inbox` (one row per message), one alarm, the R2 objects its rows point to | `enqueue`, `retry`, `retryAll`, `remove`, `alarm` (deliver, purge, re-arm), `get`, `list` | `alarm()` and `remove()` await R2 and `fetch`, so operators and `email()` interleave with them; eviction at any await; the alarm is the only thing that keeps the queue going |
| Retry policy (`worker/src/lib/backoff.ts`) | none | `classifyStatus`, `backoffMs`, `parseSchedule` | boundaries of the status ranges and of the schedule |
| `email()` (`worker/src/handlers/email.ts`) | none of its own | reject, store in R2, enqueue, rethrow | two stores written one after the other; a lost reply; the MTA sends again |
| Operator API (`worker/src/handlers/ops.ts`) | none | routes to `retry`, `retryAll`, `remove`, `get`, `list` | reaches the queue at any moment |
| Configuration (`worker/src/config.ts`) | none | `loadConfig` throws `ConfigError` | read per pass and per enqueue; the two react differently |
| Webhook controller (`mail_cloudflare/controllers/main.py`) | the request's transaction | `inbound` | overlapping requests with one message, rollback, retries by `service.model.retrying` |
| Incoming server (`mail_cloudflare/models/fetchmail_server.py`) | type, state, active, key, secret, date; whether the polling cron is on | `create`, `write`, confirm, regenerate, `_update_cron`, `_cloudflare_find_by_key`, `_cloudflare_verify_signature`, `_cloudflare_process_inbound` | edited while requests run; edits of several servers and the running cron compete for the row of the one cron |
| Outgoing session (`mail_cloudflare/cloudflare_api.py`) | the latched fatal error | `send_message`, `_post`, `_check_recipients`, `build_payload`, `verify_token` | unclear attempts, retries, partial failure, MIME trees, limits met to the byte |
| Outgoing server (`mail_cloudflare/models/ir_mail_server.py`) | authentication, endpoint, account, token, filter, size limit | onchanges, constraint, `connect`, connection test | onchanges that trigger one another, a test or a session that outlives what it read |
| Byte and text helpers (`rfc822.ts`, `sign.ts`, `util.ts`, `http.ts`) | none | header injection, HMAC, `ulid`, `intParam` | pure |

How they interact: Email Routing calls `email()`, which puts the message into R2 and calls
`enqueue()` on the single Durable Object. `enqueue()` inserts a row and arms the alarm. The alarm
reads due rows, fetches the object and POSTs it, signed, to the controller. The controller finds the
server by the key of the URL, verifies the signature and runs `message_process` in its transaction.
The status comes back and `settle()` records it. Operators requeue and remove rows through the API;
administrators edit the server record in Odoo. The outbound direction is separate: core opens a
session per batch and calls `send_message` for each mail.

What makes each correct: a mail accepted from the MTA is never lost; no row is revived, double
counted or forgotten; the alarm never goes missing; a message repeated to Odoo is posted once; every
answer is true; a change of the secret takes effect at once; outgoing mail goes to exactly its
envelope, and a send is repeated only when that is justified. `PROJECT.json` lists the hazards line by
line, with the properties for each.

## 2. Modules

| Module | Models | Extends |
|---|---|---|
| `DeliveryPolicy` | `backoff.ts` as operators | |
| `InboxQueue` | the Durable Object, R2, `email()`'s two writes, operators, the runtime | `DeliveryPolicy` |
| `MailCustody` | the abstract promise to the sending MTA | |
| `EmailWorker` | `email()` as the MTA sees it, over `InboxQueue`; refines `MailCustody` | `InboxQueue` |
| `OdooInbound` | controller, server record, transactions, administrators | |
| `PollingCron` | `_update_cron` over several servers, overlapping edits, the running cron | |
| `Gateway` | the Worker and the webhook joined at the POST and at the deployment; refines `EmailWorker` | `EmailWorker`, instance of `OdooInbound` |
| `MimeContent` | how a MIME tree becomes text, html and attachments, as operators | |
| `SendRequest` | `build_payload`: recipients, headers and References, content, as operators | `MimeContent` |
| `SendingSession` | a batch through `CloudflareSendingSession` | `SendRequest` |
| `OutgoingServer` | the outgoing server record, its sessions, its connection test | |
| `InboxQueueProofs`, `OdooInboundProofs` | theorems | the model, `TLAPS` |
| `EmailWorkerProofs` | theorems, the refinement of `MailCustody` | `EmailWorker`, `InboxQueueProofs` |
| `GatewayProofs` | theorems, the refinement of `EmailWorker` | `Gateway`, `EmailWorkerProofs`, instance of `OdooInboundProofs` |
| `OutgoingServerProofs` | theorems | `OutgoingServer`, `TLAPS` |
| `PollingCronProofs` | theorems | `PollingCron`, `TLAPS` |
| `SendRequestProofs` | lemmas about `build_payload`: recipients, parts, sums, trimming, limits | `SendRequest`, `TLAPS` |
| `SendingSessionProofs` | theorems about requests and batches | `SendingSession`, `SendRequestProofs` |
| `MC*` | constants and symmetry for TLC | the model |

Operators whose comment says *variant* are wrong on purpose: they differ from the definition after
them by one plausible mistake, and are put in its place to show that a property notices it. No
specification uses them.

### InboxQueue

One step is what runs between two awaits that let other events in. A Durable Object's input gate is
closed while its own storage is awaited, so `enqueue()` and `retry()` are one step each (row and
alarm), except that the alarm may fail after the row is written (`Fault("arm")`). Awaits of R2 and of
`fetch` open the gate, so a pass of `alarm()` is many steps:

    PassStart -> (GetObject -> OdooAnswers -> SettleAttempt | ObjectMissing | GetObjectFails)*
              -> PurgeSelect -> PurgeObjects -> PurgeRows -> Rearm

`seen` holds the rows of `processDue`'s SELECT as they were then, `expired` the ids of
`purgeExpired`'s; `remove()` is three steps. A timestamp is modelled as the time remaining until it,
so the models need no clock: `Tick` lowers every timestamp, down to `-MaxLate`, where all rows are
simply overdue. `ORDER BY next_attempt_at, id` picks ties in any order, which makes ids symmetric.
Odoo is the environment here: any status of `Answers`, or none; `taken` is what it committed, which
a 5xx, 408, 429 or a missing answer leaves open. `lapsed` says that a `setAlarm` failed and none of
`rearm()`'s came since: the one condition of `AlarmCovers`. Failures (`r2`, `arm`, `rearm`, `rpc`, `crash`,
`config`, `hand`) are enabled per run and bounded by `MaxFaults`.

An eviction kills the handlers where they stand. The runtime runs an alarm at least once: if its
handler did not return and no alarm was set meanwhile, it fires again (`Evict`). A configuration is
broken and repaired by deployments, which evict too.

### EmailWorker and MailCustody

`EmailWorker` adds the MTA: a mail is in the outbox, in transmission, deferred (the handler threw),
accepted or bounced. `MailCustody` has only the owner of a mail and whether a copy exists; the
refinement mapping computes them from `sender`, `taken`, `waived` and `objects`. A mail may be accepted
straight into an operator's hands: its object may be deleted by hand between the put and the `enqueue()`
with which `email()` returns.

### OdooInbound

A request is received, open (its transaction has a snapshot), or answered. `Open` is atomic because
the lookup, the signature check and everything `message_process` reads see one REPEATABLE READ
snapshot. The write of `date` (with the ORM's `write_date`, so the UPDATE is never empty) conflicts
with any write of the server row since the snapshot: `WriteServer` marks the open requests as
outdated, and an outdated one cannot commit; it is run again, up to `MaxTries` times. PostgreSQL,
`retrying()` and `message_process` are external and modelled from how the controller uses them.
A signature is the secret it was made with; credentials are numbered in the order of generation.

### PollingCron

One cron polls all servers of other types; `create()` and `write()` of any server end in `_update_cron`,
which counts the confirmed ones and toggles it. An edit is a transaction with a snapshot (`seen`): `Open`,
then `Save` (the UPDATE of the server and the toggle), then `Commit` or `Rollback`. It counts its own row
and, of the others, what the snapshot shows (`Counted`). Core's `toggle()` asks for the cron's row with
NOWAIT and swallows the refusal: the row is given (`Granted`) only if nobody holds it (another edit, or
the scheduler while the job runs) and nobody has committed it since the snapshot, which REPEATABLE READ
answers with the same kind of error. A commit without the row leaves the cron as it was. An edit of a
server written meanwhile fails and is run again (`Conflict`); the webhook's and the job's writes of `date`
(`WriteDate`) cause that too, but toggle nothing.

Two histories say when the code has given up: `lost` is set by a commit that changes what is polled
without writing the cron, and `missed` is the same from the point of view of an edit in progress, whose
count is then out of date. `lost` ends when an edit that has missed nothing writes the cron.
`CronExact` says that at all other times the cron is exactly right: that a snapshot is enough to count on,
though edits of different servers never conflict with each other, is due to the one row they all want.
That it does not always hold is `cron_unpolled`.

### Gateway

`EmailWorker` lets Odoo answer anything; here an instance of `OdooInbound` answers. `Post` sends a
request with the message of the row and remembers it in `request`, `Receive` hands the reply to
`OdooAnswers`, `TimeOut` gives up on a request that goes on in Odoo; a crash forgets it. `Redeploy`
gives the Worker the secret the form shows and evicts the Durable Object. `taken` is then what the
Worker was told, no longer what it guesses. `amiss` says whether the credentials of the Worker were, at
some time of the attempt in progress, not those of a confirmed server: the only thing besides the
message itself for which a row may be parked.

A request nobody awaits any more may stop anywhere. The model gives it no step of its own for that: an
expired timestamp or a killed process changes nothing anybody can see, and a request may as well never
take another step.

### MimeContent, SendRequest and SendingSession

Addresses and header names are compared in lower case in the code and are atoms here. A MIME tree is
the sequence of its parts in the order of `walk()`, each with the places of the parts around it;
`Shown` is where `EmailMessage.get_body` looks, `Leaves` is `_iter_leaves`. Sizes of headers are numbers:
ids have one length, and so have header names, so that `HeaderSize` adds up lines as `_header_size`
does and the trimming of References stops at the same id. `big` is a payload too large once encoded.
Cloudflare answers anything; in a 200 it may name some it delivered to or queued for, and some who
bounced or are suppressed (a failed one perhaps in another spelling, which the value `Null` stands
for), or nobody at all: the result may be missing. It names nobody both ways. A `Retry-After` may be negative, and then `sleep()` raises out of `send_message`. The histories
are about the message posted last.

### OutgoingServer

A form is one step: opened, one or two inputs, each with its onchanges, saved under the constraint. The
view hides the page with port and encryption for a Cloudflare server, not the size limit, which may be
entered before or after the authentication; `typed` remembers the latter.
`ChooseAuth` is the onchange of the authentication and then, as the web client's dispatcher does, that
of the encryption if the first one changed it. `Write` is what an import or RPC writes, without
onchanges. A session copies the credentials at `connect()` and lives through edits of the record. The
connection test is three steps: it reads the token, Cloudflare confirms it (`Verify`), and with "Detect Max
Limit" the record is written and committed. In between the token may be revoked and the record be edited:
a row committed since makes the write fail, and the test is run again from the start, with `proven`, the
tokens this run had confirmed, empty.

## 3. Runs

| Run | Shows | Bounds |
|---|---|---|
| `queue_safety` | `Custody`, `NoOrphan`, `SnapshotFresh`, `BudgetExact`, `AlarmCovers`, `RemovedStaysRemoved` | two ids, two attempts, two failures of any kind, one row per pass, delivery delay above the alarm's back-off, retention above both |
| `queue_liveness` | `EveryRowSettles`, `DeliveredIsPurged` | two ids, one failure, fair |
| `worker_custody` | `ImplementsCustody` | three mails, two invocations of `email()`, one failure |
| `odoo_inbound` | `PostedOnce`, `AnswersTrue`, `CommitsAuthorized`, `DeployedKeyStays`, `ConfirmedIsUsable` | two requests, three mails, two secrets |
| `polling_cron` | `CronExact` | two servers, two edits |
| `gateway` | `NothingLost`, `TakenIsInOdoo`, `OneMessageInOdoo`, `ImplementsWorker`, `RejectedHasCause` | one mail under two ids, two requests, two secrets, one lost call or crash |
| `sending_session` | `AddressedOnce`, `HiddenApart`, `PartsSentOnce`, `WithinLimits`, `ThreadKept`, `FailedReachedNobody`, `CopiesExplained`, `BlockedBriefly`, `FailsFast` | two messages, three addresses in every combination, every MIME tree of up to four parts, headers around each limit, three attempts |
| `outgoing_server` | `CloudflareServerComplete`, `ChosenMeansCleared`, `SkippedDeserved`, `DetectedHonestly` | three commits of the record, two accounts, two tokens, two sessions |
| `queue_missing` | counterexample to inbox-do.ts:486-487 | one id, no failure at all |
| `queue_back_off` | counterexample to inbox-do.ts:39 | one id, one R2 failure |
| `queue_rearm_lost` | counterexample to email.ts:26-27 and inbox-do.ts:378 | one id, one failing `setAlarm`, fair |
| `cron_unpolled` | counterexample to test_fetchmail_server.py:211 | those of `polling_cron` |

Why the bounds are enough to be interesting: two rows are needed for one to be attempted while the
other changes, and for a batch limit of one to leave work over; two attempts to have both a retry and
an exhausted budget; two requests to overlap; three addresses to have a visible one beside two hidden
ones. The schedule has one entry and all delays are at most three units, enough for every order of the
timers. `queue_safety` with two failures includes a failure while recovering from another. In `gateway` one
mail under two ids is what a lost reply of `enqueue()` leads to, and two requests are an attempt and
the one that outlived it; three commits are a change, one that follows while a test or a session holds
what it read, and the test's own. Two servers and two edits are what it takes for one edit to count a
server that the other is changing, with the job competing for the cron's row; nothing bounds how often
they edit. What these bounds leave out, more mails, requests and edits at once, the proofs cover.

`gateway`, `polling_cron` and the outgoing runs use symmetry; `gateway` also a `VIEW`: nothing reads what an answered
request was signed with and how it ran, nor an answer nobody awaits, so states that differ only there
are one. `ImplementsWorker` and `RejectedHasCause` do not mention what the view drops.

**Fairness** (`FairSpec`): weak fairness of the pass (an alarm that is due runs, R2 answers or throws,
`fetch` is cut off by `AbortSignal.timeout`), of time, and of the repair of a broken config. Nothing is
assumed of operators, MTA or Odoo. A behaviour has finitely many failures. The liveness run takes both
rows per pass: the floor of `Tick` forgets which of two overdue rows is older, so a batch of one could
starve a row in the model although `ORDER BY` prevents that in the code. It leaves out the failures of
`setAlarm`: with `rearm` the property is false (`queue_rearm_lost`).

`AlarmCovers` is stated between passes and while no `setAlarm` has lapsed. `Slack`: after a failed pass the alarm comes back within `AlarmRetry`; and an
`enqueue()` that sets the alarm during a pass that is then evicted keeps the runtime from repeating
that pass before `DeliveryDelay` is over. Smaller values are refuted by TLC.

`CHECK_DEADLOCK FALSE` only in the sending runs: a batch ends.

## 4. Proofs

`InboxQueueProofs` proves, for every set of ids, schedule, batch size, budget and fault bound:

- `TypeCorrect`, from `TypeInv`: types, and that the locals of `alarm()` fit its place.
- `CustodyKept`, `SnapshotStaysFresh`, `BudgetIsExact`, `NoOrphanLeft`, from one inductive invariant
  `SafetyInv`, a conjunction per id of four parts. `Custody` alone is not inductive: a delivered row is
  purged, so a delivered verdict must imply `taken` (`CustodyInv`); a purge between its two awaits must
  only concern rows that are delivered or were requeued by an operator, who has then waived nothing
  but whose message was taken (`Settling`); `settle()` writes from a snapshot, so the snapshot must agree
  with the table (`SnapshotInv`), which holds because only non-pending rows can be requeued.
- `RemovedRowsStayRemoved`, an action property, from `ArrivalInv`: only `enqueue()` of a call that is
  not done inserts, and `settle()` is guarded.
- `AlarmAlwaysCovers`: every step either leaves alarm and rows, brings the alarm forward with the row
  it writes, lets time pass for both, records that its `setAlarm` failed, or is `Rearm`, which takes the
  minimum.

`OdooInboundProofs` proves all properties of the webhook from `WebhookInv`. Its heart is
`SnapshotCurrent`: a transaction that is not outdated sees exactly the messages posted and the server of
now, since every commit and every edit writes the server row. `DuplicatesIgnored` and
`CommitsStayAuthorized` follow for any number of overlapping requests.

`PollingCronProofs` proves `CronFollowsServers` for any number of servers and edits. `CronExact` alone is not
inductive: an edit that commits the cron counted in its snapshot. `CronInv` adds that a snapshot shows as
polled what is polled now unless the cron was written since or the edit has missed a change
(`SnapshotTrue`), and that the edit that holds the cron's row is current (`HolderCurrent`), which is what
the refused lock is for. So what it counted is so (`CountedIsTrue`), and a commit without the row changes
nothing that is counted, or is recorded (`UnskippedRows`).

`EmailWorkerProofs` proves `WorkerTypeCorrect` and the refinement `CustodyImplemented`. `WorkerInv` adds to
`SafetyInv` what ties a call of `email()` to its mail (`CallsKnown`: at most one call of a mail is between
its two writes, and an accepted mail has one that is done). Each step is then shown to be a step of
`MailCustody` under the mapping or to leave owner and copy alone: `TakenStep` when Odoo commits,
`WaivedStep` when an operator gives up, `DiscardStep` when a copy goes that nobody needs, `AcceptStep` when
`email()` returns.

`GatewayProofs` proves the composition for any number of mails, ids and requests. `GatewayInv` is the
webhook's invariant, the Worker's, and what joins them: the request `alarm()` awaits carries the message
of its row (`AwaitedCarries`), answers are those of the controller (`AnswersKnown`), and what was taken
is in Odoo (`TakenHasMail`). The lemmas `RequestSteps` and `AdministratorSteps` show that the steps taken
from `OdooInbound` are those its own proofs are about, so that those proofs are used, not repeated. From
it follow `NothingIsLost`, `TakenIsReallyInOdoo`, `MessagesAreInOdooOnce` and `WorkerImplemented`.

`WorkerImplemented` makes the theorems about the parts theorems about the whole: `QueueImplemented` takes
every step of the Worker to one of the queue, so `QueueRightEndToEnd` has custody, snapshots, budget,
orphans and alarm with the real webhook answering, and `CustodyEndToEnd` the promise to the MTA. The other
way round `WebhookRightEndToEnd` and `CommitsAuthorizedEndToEnd` have the webhook's own properties with
the Worker calling it, repeating itself and being redeployed. `GatewayTypeCorrect` puts the types together.

`RejectionHasCause` needs `CauseInv` besides: an attempt with nothing amiss was signed with the secret
Odoo accepts (`SignedAsAccepted`), so that a 401 or 404 means something is amiss (`RefusalCaused`), and
only `settle()` parks a row (`RejectedBySettle`).

`OutgoingServerProofs` proves every property of the outgoing record from `ServerInv`. The constraint is
inductive once it is shown that it listens to every field it reads (`CommitComplete`), over forms, imports
and the commit of a test. `ChosenIsCleared` needs that an input which makes the row a Cloudflare server
clears it and that no later input of the same form undoes that, but for the size limit the user enters
(`InputClears`). `SkipsAreDeserved` needs
that a session that fails fast was refused with its own credentials (`FatalDeserved`), and
`DetectionIsHonest` that a test which is not outdated has read what the record says and one that goes on
to write had that token confirmed (`TestCurrent`).

`SendRequestProofs` and `SendingSessionProofs` prove the outgoing half, for every batch, message and limit:

- `SessionInv` says that what is posted is `build_payload` of a message that could be built
  (`InProgress`) and counts copies against unclear outcomes. `FailedIsUnreached`, `CopiesAreExplained` and
  `BatchFailsFast` follow from it, and it carries every lemma about `build_payload` to the request in
  progress.
- `EnvelopeIsAddressed` and `HiddenStayApart`: `_split_recipients` gives a partition of the envelope
  that exposes no two hidden recipients (`SplitIsPartition`, `SplitHides`).
- `EveryPartSentOnce`, for trees of any depth: of the containers of a part only the outermost attached
  message is a leaf (`OutermostMessage`), and a body that `get_body` shows is not inside one
  (`BodyIsShown`), so a part is never in two places (`PartIsSent`).
- `LimitsAreKept` and `ThreadIsKept`: the loop over References stops at the greatest number of ids that
  fits, one at least (`KeptIsLargest`); what stays is the end of the list (`TrimmedIsTail`), which has
  the own id last (`WithOwnIdType`); and what `_header_size` adds up during the trimming is what the
  finished headers add up to, in any order (`HeaderSizeIsTotal`). So the check made before is still
  true of what is sent (`BuildableIsWithinLimits`).
- `CronBlockedBriefly` and `SessionTypeCorrect` need `PauseInv`: a message at its n-th attempt has
  slept at most n - 1 capped pauses, and none follows the last attempt.

The loop and the sum are recursive functions, `Kept` and the library's `MapThenSumSet`. What they
compute is proved by the least counterexample (`LeastNumber`, `LeastSubset`, from the library's
well-founded orders): if a claim failed somewhere, it would fail at a smallest number or set, and there
one unfolding refutes it. That there is such a function at all is proved the same way (`TrimExists`,
`SumExists`), and that it is the only one (`SumUnique`), so that the CHOOSE which defines it is known.
`SumTakes` then says that the order of adding does not matter.

The assumptions are those named in the modules (`NullAssumption`, `PolicyAssumption`, ...), which the
code's configuration checks justify: positive schedule entries (`parseSchedule`), at least one attempt.
`MailsAssumption` says of messages only what every `EmailMessage` is (`WellFormed`): finitely many
recipients, lists of headers and ids, sizes that are numbers, and parts that `walk()` visits after what
contains them. TLC evaluates it for every message of `sending_session`. `Null` stands for the absence of
a value and is therefore no request, id or message.

Only model-checked: `EveryRowSettles` and `DeliveredIsPurged`, since liveness under fairness is out of
the prover's reach. The counterexamples of section 5 are TLC's too.

## 5. What the code does differently from what it says

Four statements of comments and tests are refuted, each by a run (see `findings` in `PROJECT.json`): a
missing object blamed on a deletion by hand, the missing back-off after a storage error, the alarm lost
when re-arming fails, and the confirmed server whose toggle of the cron was given up, so that it is never
polled.

Three more are read from the code and built into the models, which is why the properties next to them
are stated as they are; no run is about them:

- `enqueue()` is called idempotent "so a retried email() invocation cannot create a second row"
  (inbox-do.ts:257-258), but every invocation mints a new id (email.ts:54): a lost reply leads to two rows
  for one mail. `OneMessageInOdoo` shows that Odoo still has it once.
- "the oldest References entries are dropped first - never the own id" (cloudflare_api.py:296-297), but an
  own id that the message named before another one is dropped like any other (lines 318, 328-330): the
  exception in `ThreadKept`.
- "Nobody reached -> raise" (cloudflare_api.py:632) and "nothing was delivered or queued, that alone is a
  failure" (tests/test_cloudflare_api.py:588-589), but a 200 that names nobody as failed is reported as
  sent, also when it names nobody as reached (lines 588, 645-646): why only a mail that *failed* is said to
  have reached nobody (`FailedReachedNobody`).

## 6. Not modelled, and plan

Not modelled: HTTP routing and tokens of the operator API, parsing of the configuration (its bounds are
the assumptions on the constants), HMAC, the bytes of headers and messages (`prependHeaders`,
`_cloudflare_prepare_message`, `asciiValue`), the text of forms and errors, logging, packaging, tests.
These have no state and no concurrency; what could be wrong in them is a matter of single strings. One
thing seen there is listed as a hazard: `asciiValue` throws for characters outside the BMP. Two hazards
of the queue have no property because nothing in the code excludes them: an object stored before a
failed `enqueue()` stays in the bucket, and rows that cannot be read may starve the rows behind them.

Done: the queue with its policy, `email()` and the promise it implements, the webhook with the record,
their composition, the polling cron, the outgoing request, session and record; proofs about each.
