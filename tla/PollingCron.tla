----------------------------- MODULE PollingCron ----------------------------
(***************************************************************************)
(* The cron that polls incoming mail servers, switched on and off by       *)
(* _update_cron (mail_cloudflare/models/fetchmail_server.py) at the end of *)
(* every create() and write() of a server, while several edits are in      *)
(* progress and the cron runs.                                             *)
(*                                                                         *)
(* An edit is a REPEATABLE READ transaction: it counts the polled servers  *)
(* in its own snapshot.  toggle() then asks for the lock of the cron's row *)
(* without waiting and gives up, silently, when another edit or the        *)
(* running cron holds it, or when the row was written since the snapshot.  *)
(* PostgreSQL, ir.cron and service.model.retrying are modelled from how    *)
(* this code uses them.  A server that is created or deleted is one that   *)
(* leaves or enters the archive.                                           *)
(***************************************************************************)
CONSTANTS
    Servers,    \* the incoming mail servers
    Edits,      \* the transactions that may be in progress at once
    Job,        \* the running cron, as holder of its row
    Null        \* nobody; no server, snapshot or row

ASSUME HolderAssumption == Job \notin Edits /\ Null \notin Edits /\ Job # Null

VARIABLES
    rows,           \* the committed fetchmail.server rows
    cron,           \* whether the committed cron is active
    lock,           \* who holds its row: nobody, an edit that wrote it, the job
    phase,          \* where each edit is
    target,         \* the server it edits
    seen,           \* its snapshot of the rows
    new,            \* the row it has written
    rowOutdated,    \* whether its server was written since the snapshot
    cronOutdated,   \* whether the cron's row was
    missed,         \* auxiliary: since the snapshot, what is polled was changed
                    \* by a commit that did not write the cron
    lost            \* auxiliary: so it was since the last edit that wrote the
                    \* cron and had missed nothing

editVars == <<phase, target, seen, new, rowOutdated, cronOutdated, missed>>
vars == <<rows, cron, lock, editVars, lost>>

Row == [type : {"imap", "cloudflare"}, state : {"draft", "done"}, active : BOOLEAN]

\* The domain of _update_cron, archived records left out.
Pollable(row) == row.state = "done" /\ row.active /\ row.type # "cloudflare"

\* What an edit counts: its snapshot with its own row.
Counted(e) ==
    \E s \in Servers : Pollable([seen[e] EXCEPT ![target[e]] = new[e]][s])

-----------------------------------------------------------------------------
(* An edit. *)

Begin(e, s) ==
    /\ phase' = [phase EXCEPT ![e] = "open"]
    /\ target' = [target EXCEPT ![e] = s]
    /\ seen' = [seen EXCEPT ![e] = rows]
    /\ rowOutdated' = [rowOutdated EXCEPT ![e] = FALSE]
    /\ cronOutdated' = [cronOutdated EXCEPT ![e] = FALSE]
    /\ missed' = [missed EXCEPT ![e] = FALSE]
    /\ UNCHANGED <<rows, cron, lock, new, lost>>

Open(e) == phase[e] = "idle" /\ \E s \in Servers : Begin(e, s)

\* What one operation writes: the type in a form, button_confirm_login or
\* set_draft, archiving or restoring, or something the cron does not count.
Changes(row) ==
    {[row EXCEPT !.type = type] : type \in {"imap", "cloudflare"}}
    \cup {[row EXCEPT !.state = state] : state \in {"draft", "done"}}
    \cup {[row EXCEPT !.active = ~@]}

GrantedUnseen(e) == lock = Null     \* variant: as in READ COMMITTED

\* toggle(): whether the lock of the cron's row can be had at once.
Granted(e) == lock = Null /\ ~cronOutdated[e]

\* write() and, at its end, _update_cron.  The UPDATE waits for an edit of the same
\* server to end.
Save(e) ==
    /\ phase[e] = "open" /\ ~rowOutdated[e]
    /\ \A f \in Edits : phase[f] = "saved" => target[f] # target[e]
    /\ \E row \in Changes(seen[e][target[e]]) : new' = [new EXCEPT ![e] = row]
    /\ phase' = [phase EXCEPT ![e] = "saved"]
    /\ lock' = IF Granted(e) THEN e ELSE lock
    /\ UNCHANGED <<rows, cron, target, seen, rowOutdated, cronOutdated, missed, lost>>

\* The UPDATE fails, and service.model.retrying runs the request again.
Conflict(e) ==
    /\ phase[e] = "open" /\ rowOutdated[e]
    /\ Begin(e, target[e])

Ended(e) ==
    /\ phase' = [phase EXCEPT ![e] = "idle"]
    /\ target' = [target EXCEPT ![e] = Null]
    /\ seen' = [seen EXCEPT ![e] = Null]
    /\ new' = [new EXCEPT ![e] = Null]

\* Whether a commit changes what is polled and leaves the cron as it is.
Skips(e) == lock # e /\ (Pollable(new[e]) # Pollable(rows[target[e]]))

Commit(e) ==
    /\ phase[e] = "saved"
    /\ rows' = [rows EXCEPT ![target[e]] = new[e]]
    /\ cron' = IF lock = e THEN Counted(e) ELSE cron
    /\ lock' = IF lock = e THEN Null ELSE lock
    /\ Ended(e)
    /\ rowOutdated' = [f \in Edits |-> rowOutdated[f] \/ target[f] = target[e]]
    /\ cronOutdated' = [f \in Edits |-> cronOutdated[f] \/ lock = e]
    /\ missed' = [f \in Edits |-> missed[f] \/ Skips(e)]
    /\ lost' = IF lock = e THEN missed[e] ELSE lost \/ Skips(e)

RollbackLocked(e) ==    \* variant: the lock is the connection's, not the transaction's
    /\ phase[e] # "idle"
    /\ Ended(e)
    /\ UNCHANGED <<rows, cron, lock, rowOutdated, cronOutdated, missed, lost>>

\* Any error, a killed process, or retrying() giving up.
Rollback(e) ==
    /\ phase[e] # "idle"
    /\ Ended(e)
    /\ lock' = IF lock = e THEN Null ELSE lock
    /\ UNCHANGED <<rows, cron, rowOutdated, cronOutdated, missed, lost>>

-----------------------------------------------------------------------------
(* The cron and the webhook. *)

\* The scheduler locks the cron's row while the job runs, and writes it (its
\* nextcall) at the end.
StartPolling ==
    /\ cron /\ lock = Null
    /\ lock' = Job
    /\ UNCHANGED <<rows, cron, editVars, lost>>

EndPolling ==
    /\ lock = Job
    /\ lock' = Null
    /\ cronOutdated' = [e \in Edits |-> TRUE]
    /\ UNCHANGED <<rows, cron, phase, target, seen, new, rowOutdated, missed, lost>>

\* The `date` of a server is written by the running cron, whose fetch_mail leaves
\* the Cloudflare servers out, or by the webhook.  The cron is not toggled: the job
\* holds it, and the webhook's context keeps _update_cron out.
WriteDate(s) ==
    /\ rows[s].state = "done" /\ rows[s].active
    /\ rows[s].type = "cloudflare" \/ lock = Job
    /\ \A f \in Edits : phase[f] = "saved" => target[f] # s
    /\ rowOutdated' = [f \in Edits |-> rowOutdated[f] \/ target[f] = s]
    /\ UNCHANGED <<rows, cron, lock, phase, target, seen, new, cronOutdated, missed, lost>>

-----------------------------------------------------------------------------
\* A database in use, whose cron is as the servers ask for.
Init ==
    /\ rows \in [Servers -> Row]
    /\ cron = (\E s \in Servers : Pollable(rows[s]))
    /\ lock = Null
    /\ phase = [e \in Edits |-> "idle"]
    /\ target = [e \in Edits |-> Null]
    /\ seen = [e \in Edits |-> Null]
    /\ new = [e \in Edits |-> Null]
    /\ rowOutdated = [e \in Edits |-> FALSE]
    /\ cronOutdated = [e \in Edits |-> FALSE]
    /\ missed = [e \in Edits |-> FALSE]
    /\ lost = FALSE

Edit(e) == Open(e) \/ Save(e) \/ Conflict(e) \/ Commit(e) \/ Rollback(e)

Next ==
    \/ \E e \in Edits : Edit(e)
    \/ \E s \in Servers : WriteDate(s)
    \/ StartPolling \/ EndPolling

Spec == Init /\ [][Next]_vars

-----------------------------------------------------------------------------
(* What must hold. *)

\* Every variable keeps its type, and only an edit that has written holds the
\* cron's row.
TypeOK ==
    /\ rows \in [Servers -> Row]
    /\ cron \in BOOLEAN
    /\ lock \in Edits \cup {Job, Null}
    /\ lock \in Edits => phase[lock] = "saved"
    /\ phase \in [Edits -> {"idle", "open", "saved"}]
    /\ target \in [Edits -> Servers \cup {Null}]
    /\ seen \in [Edits -> [Servers -> Row] \cup {Null}]
    /\ new \in [Edits -> Row \cup {Null}]
    /\ \A e \in Edits :
           /\ phase[e] # "idle" => target[e] \in Servers /\ seen[e] \in [Servers -> Row]
           /\ phase[e] = "saved" => new[e] \in Row
    /\ rowOutdated \in [Edits -> BOOLEAN]
    /\ cronOutdated \in [Edits -> BOOLEAN]
    /\ missed \in [Edits -> BOOLEAN]
    /\ lost \in BOOLEAN

\* The cron is on exactly when a confirmed server is polled ("only that one
\* counts", tests/test_fetchmail_server.py:211), however edits of different
\* servers overlap: neither may count a server as it was before the other's edit.
\* The one exception is a change whose toggle() was given up, until an edit begun
\* after it has written the cron (fetchmail_server.py:297-304).
CronExact == ~lost => (cron <=> \E s \in Servers : Pollable(rows[s]))

-----------------------------------------------------------------------------
(* What the repository says, and the code does not keep. *)

\* "a confirmed IMAP server still enables it" (tests/test_fetchmail_server.py:211).
ConfirmedIsPolled == (\E s \in Servers : Pollable(rows[s])) => cron
=============================================================================
