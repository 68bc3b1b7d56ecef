------------------------- MODULE PollingCronProofs --------------------------
(***************************************************************************)
(* Proofs about PollingCron for every set of servers and of edits.  An     *)
(* edit that may still have the cron's row has seen every change of what   *)
(* is polled, unless one was made without writing the cron; and while an   *)
(* edit has the row, no other writes it.                                   *)
(***************************************************************************)
EXTENDS PollingCron, TLAPS

\* What an edit counts as polled in its snapshot is polled now, unless the cron
\* was written since, or a change was committed without it.
SnapshotTrue ==
    \A e \in Edits : phase[e] # "idle" /\ ~cronOutdated[e] /\ ~missed[e] =>
        \A s \in Servers : Pollable(seen[e][s]) <=> Pollable(rows[s])

\* The cron's row was not written since the snapshot of the edit that has it.
HolderCurrent == lock \in Edits => ~cronOutdated[lock]

CronInv == TypeOK /\ CronExact /\ SnapshotTrue /\ HolderCurrent

-----------------------------------------------------------------------------
\* At first no edit is in progress, and the cron is as the servers ask for.
LEMMA InitCron == Init => CronInv
<1> SUFFICES ASSUME Init PROVE CronInv
  OBVIOUS
<1>1. TypeOK
  <2>1. cron \in BOOLEAN
    BY Zenon DEF Init
  <2> QED
    BY <2>1, HolderAssumption DEF Init, TypeOK
<1>2. CronExact
  BY Zenon DEF Init, CronExact
<1>3. SnapshotTrue /\ HolderCurrent
  BY HolderAssumption DEF Init, SnapshotTrue, HolderCurrent
<1> QED
  BY <1>1, <1>2, <1>3 DEF CronInv

\* What one operation writes is a row.
LEMMA ChangesAreRows == ASSUME NEW row \in Row PROVE Changes(row) \subseteq Row
BY DEF Changes, Row

-----------------------------------------------------------------------------
\* A snapshot that was just taken is true, and the holder of the cron's row has
\* written and so does not begin.
LEMMA BeginCron ==
    ASSUME CronInv, NEW e \in Edits, NEW s \in Servers, phase[e] # "saved", Begin(e, s)
    PROVE  CronInv'
<1> USE DEF CronInv
<1>1. lock # e
  BY HolderAssumption DEF TypeOK
<1>2. TypeOK'
  BY <1>1, HolderAssumption DEF TypeOK, Begin
<1>3. CronExact'
  BY DEF CronExact, Begin, Pollable
<1>4. SnapshotTrue'
  <2> SUFFICES ASSUME NEW f \in Edits, phase'[f] # "idle", ~cronOutdated'[f], ~missed'[f],
                      NEW t \in Servers
               PROVE  (Pollable(seen[f][t]) <=> Pollable(rows[t]))'
    BY DEF SnapshotTrue
  <2>1. rows' = rows
    BY DEF Begin
  <2>2. CASE f = e
    <3>1. seen'[f] = rows
      BY <2>2 DEF Begin, TypeOK
    <3> QED
      BY <2>1, <3>1 DEF Pollable
  <2>3. CASE f # e
    <3>1. /\ phase'[f] = phase[f] /\ seen'[f] = seen[f]
          /\ cronOutdated'[f] = cronOutdated[f] /\ missed'[f] = missed[f]
      BY <2>3 DEF Begin, TypeOK
    <3>2. Pollable(seen[f][t]) <=> Pollable(rows[t])
      BY <3>1, Zenon DEF SnapshotTrue
    <3> QED
      BY <2>1, <3>1, <3>2 DEF Pollable
  <2> QED
    BY <2>2, <2>3
<1>5. HolderCurrent'
  BY <1>1 DEF HolderCurrent, Begin, TypeOK
<1> QED
  BY <1>2, <1>3, <1>4, <1>5

\* An edit is granted the cron's row only when it was not written since.
LEMMA SaveCron ==
    ASSUME CronInv, NEW e \in Edits, Save(e)
    PROVE  CronInv'
<1> USE DEF CronInv
<1>1. TypeOK'
  <2>1. target[e] \in Servers /\ seen[e] \in [Servers -> Row]
    BY DEF TypeOK, Save
  <2>2. PICK row \in Changes(seen[e][target[e]]) : new' = [new EXCEPT ![e] = row]
    BY Zenon DEF Save
  <2>3. row \in Row
    BY <2>1, ChangesAreRows
  <2>4. /\ lock' \in Edits \cup {Job, Null}
        /\ lock' = e \/ lock' = lock
        /\ phase' = [phase EXCEPT ![e] = "saved"]
    BY DEF TypeOK, Save, Granted
  <2>5. ASSUME NEW f \in Edits
        PROVE  /\ phase'[f] # "idle" => target[f] \in Servers /\ seen[f] \in [Servers -> Row]
               /\ phase'[f] = "saved" => f = e \/ new[f] \in Row
    BY <2>1, <2>4 DEF TypeOK
  <2>6. ASSUME NEW f \in Edits, phase'[f] = "saved"
        PROVE  f = e \/ new'[f] \in Row
    BY <2>2, <2>5, <2>6 DEF TypeOK
  <2> QED
    BY <2>2, <2>3, <2>4, <2>5, <2>6 DEF TypeOK, Save
<1>2. CronExact'
  BY DEF CronExact, Save, Pollable
<1>3. SnapshotTrue'
  BY DEF SnapshotTrue, Save, Pollable, TypeOK
<1>4. HolderCurrent'
  BY DEF HolderCurrent, Save, Granted, TypeOK
<1> QED
  BY <1>1, <1>2, <1>3, <1>4

\* What a commit leaves polled: what its edit wrote and, of the other servers, what
\* was.
LEMMA CommittedRows ==
    ASSUME TypeOK, NEW e \in Edits, Commit(e)
    PROVE  /\ target[e] \in Servers /\ seen[e] \in [Servers -> Row] /\ new[e] \in Row
           /\ \A s \in Servers :
                  rows'[s] = IF s = target[e] THEN new[e] ELSE rows[s]
BY DEF TypeOK, Commit

\* A commit without the cron's row changes what is polled only if it skips.
LEMMA UnskippedRows ==
    ASSUME TypeOK, NEW e \in Edits, Commit(e), lock # e, ~Skips(e)
    PROVE  \A s \in Servers : Pollable(rows'[s]) <=> Pollable(rows[s])
<1>1. Pollable(new[e]) <=> Pollable(rows[target[e]])
  BY Zenon DEF Skips
<1>2. SUFFICES ASSUME NEW s \in Servers
               PROVE  Pollable(rows'[s]) <=> Pollable(rows[s])
  OBVIOUS
<1>3. CASE s = target[e]
  <2>1. rows'[s] = new[e] /\ rows[s] = rows[target[e]]
    BY <1>3, CommittedRows
  <2> QED
    BY <1>1, <2>1
<1>4. CASE s # target[e]
  <2>1. rows'[s] = rows[s]
    BY <1>4, CommittedRows
  <2> QED
    BY <2>1
<1> QED
  BY <1>3, <1>4

\* An edit that commits the cron counted the servers as they are after it, unless
\* it has missed a change.
LEMMA CountedIsTrue ==
    ASSUME TypeOK, SnapshotTrue, HolderCurrent, NEW e \in Edits, Commit(e), lock = e,
           ~missed[e]
    PROVE  Counted(e) <=> \E s \in Servers : Pollable(rows'[s])
<1> DEFINE counted == [seen[e] EXCEPT ![target[e]] = new[e]]
<1>1. \A s \in Servers : Pollable(seen[e][s]) <=> Pollable(rows[s])
  <2>1. phase[e] # "idle" /\ ~cronOutdated[e]
    BY DEF Commit, HolderCurrent
  <2> QED
    BY <2>1, Zenon DEF SnapshotTrue
<1>2. ASSUME NEW s \in Servers
      PROVE  Pollable(counted[s]) <=> Pollable(rows'[s])
  <2>1. counted[s] = IF s = target[e] THEN new[e] ELSE seen[e][s]
    BY CommittedRows
  <2>2. rows'[s] = IF s = target[e] THEN new[e] ELSE rows[s]
    BY CommittedRows
  <2> HIDE DEF counted
  <2>3. CASE s = target[e]
    BY <2>1, <2>2, <2>3
  <2>4. CASE s # target[e]
    <3>1. counted[s] = seen[e][s] /\ rows'[s] = rows[s]
      BY <2>1, <2>2, <2>4
    <3> QED
      BY <1>1, <3>1
  <2> QED
    BY <2>3, <2>4
<1>3. Counted(e) <=> \E s \in Servers : Pollable(counted[s])
  BY Zenon DEF Counted
<1> HIDE DEF counted
<1> QED
  BY <1>2, <1>3

\* A commit writes the cron as the servers ask for, or leaves what is polled as it
\* was, or is recorded as one that did neither.
LEMMA CommitCron ==
    ASSUME CronInv, NEW e \in Edits, Commit(e)
    PROVE  CronInv'
<1> USE DEF CronInv
<1>1. TypeOK'
  <2>1. rows' \in [Servers -> Row]
    BY CommittedRows DEF TypeOK, Commit
  <2>2. cron' \in BOOLEAN /\ lost' \in BOOLEAN
    <3>1. Counted(e) \in BOOLEAN
      BY Zenon DEF Counted
    <3>2. Skips(e) \in BOOLEAN
      BY Zenon DEF Skips
    <3> QED
      BY <3>1, <3>2 DEF TypeOK, Commit
  <2>3. missed' \in [Edits -> BOOLEAN]
    <3>1. \A f \in Edits : (missed[f] \/ Skips(e)) \in BOOLEAN
      BY Zenon
    <3> QED
      BY <3>1 DEF Commit
  <2>4. rowOutdated' \in [Edits -> BOOLEAN] /\ cronOutdated' \in [Edits -> BOOLEAN]
    BY DEF TypeOK, Commit
  <2>5. /\ target' \in [Edits -> Servers \cup {Null}]
        /\ seen' \in [Edits -> [Servers -> Row] \cup {Null}]
        /\ new' \in [Edits -> Row \cup {Null}]
        /\ phase' \in [Edits -> {"idle", "open", "saved"}]
    BY DEF TypeOK, Commit, Ended
  <2>6. \A f \in Edits :
            /\ phase'[f] # "idle" => target'[f] \in Servers /\ seen'[f] \in [Servers -> Row]
            /\ phase'[f] = "saved" => new'[f] \in Row
    BY DEF TypeOK, Commit, Ended
  <2>7. lock' \in Edits \cup {Job, Null} /\ (lock' \in Edits => phase'[lock'] = "saved")
    BY HolderAssumption DEF TypeOK, Commit, Ended
  <2> QED
    BY <2>1, <2>2, <2>3, <2>4, <2>5, <2>6, <2>7 DEF TypeOK
<1>2. CronExact'
  <2> SUFFICES ASSUME ~lost' PROVE cron' <=> \E s \in Servers : Pollable(rows'[s])
    BY DEF CronExact, Pollable
  <2>1. CASE lock = e
    <3>1. ~missed[e] /\ cron' = Counted(e)
      BY <2>1 DEF Commit
    <3> QED
      BY <2>1, <3>1, CountedIsTrue, Zenon
  <2>2. CASE lock # e
    <3>1. lost' = (lost \/ Skips(e)) /\ cron' = cron
      BY <2>2, Zenon DEF Commit
    <3>2. ~lost /\ ~Skips(e)
      BY <3>1, Zenon
    <3>3. cron <=> \E s \in Servers : Pollable(rows[s])
      BY <3>2, Zenon DEF CronExact
    <3> QED
      BY <2>2, <3>1, <3>2, <3>3, UnskippedRows, Zenon
  <2> QED
    BY <2>1, <2>2
<1>3. SnapshotTrue'
  <2> SUFFICES ASSUME NEW f \in Edits, phase'[f] # "idle", ~cronOutdated'[f], ~missed'[f],
                      NEW s \in Servers
               PROVE  Pollable(seen'[f][s]) <=> Pollable(rows'[s])
    BY DEF SnapshotTrue, Pollable
  <2>1. f # e /\ phase[f] # "idle" /\ seen'[f] = seen[f]
    BY DEF TypeOK, Commit, Ended
  <2>2. lock # e /\ ~cronOutdated[f]
    <3>1. cronOutdated'[f] = (cronOutdated[f] \/ lock = e)
      BY Zenon DEF Commit
    <3> QED
      BY <3>1, Zenon
  <2>3. ~missed[f] /\ ~Skips(e)
    <3>1. missed'[f] = (missed[f] \/ Skips(e))
      BY Zenon DEF Commit
    <3> QED
      BY <3>1, Zenon
  <2>4. Pollable(rows'[s]) <=> Pollable(rows[s])
    BY <2>2, <2>3, UnskippedRows
  <2>5. Pollable(seen[f][s]) <=> Pollable(rows[s])
    BY <2>1, <2>2, <2>3, Zenon DEF SnapshotTrue
  <2> QED
    BY <2>1, <2>4, <2>5
<1>4. HolderCurrent'
  BY HolderAssumption DEF HolderCurrent, TypeOK, Commit
<1> QED
  BY <1>1, <1>2, <1>3, <1>4

\* What is rolled back was not committed, and the cron's row is free again.
LEMMA RollbackCron ==
    ASSUME CronInv, NEW e \in Edits, Rollback(e)
    PROVE  CronInv'
<1> USE DEF CronInv
<1>1. TypeOK'
  BY HolderAssumption DEF TypeOK, Rollback, Ended
<1>2. CronExact'
  BY DEF CronExact, Rollback, Pollable
<1>3. SnapshotTrue'
  <2> SUFFICES ASSUME NEW f \in Edits, phase'[f] # "idle", ~cronOutdated'[f], ~missed'[f],
                      NEW s \in Servers
               PROVE  Pollable(seen'[f][s]) <=> Pollable(rows'[s])
    BY DEF SnapshotTrue, Pollable
  <2>1. /\ phase[f] # "idle" /\ seen'[f] = seen[f] /\ rows' = rows
        /\ cronOutdated' = cronOutdated /\ missed' = missed
    BY DEF TypeOK, Rollback, Ended
  <2>2. Pollable(seen[f][s]) <=> Pollable(rows[s])
    BY <2>1, Zenon DEF SnapshotTrue
  <2> QED
    BY <2>1, <2>2
<1>4. HolderCurrent'
  BY HolderAssumption DEF HolderCurrent, TypeOK, Rollback
<1> QED
  BY <1>1, <1>2, <1>3, <1>4

\* The job has the cron's row alone, and no edit has it when the job ends.
LEMMA JobCron ==
    ASSUME CronInv, StartPolling \/ EndPolling \/ \E s \in Servers : WriteDate(s)
    PROVE  CronInv'
<1> USE DEF CronInv
<1>1. CASE StartPolling
  BY <1>1, HolderAssumption
     DEF StartPolling, editVars, TypeOK, CronExact, SnapshotTrue, HolderCurrent, Pollable
<1>2. CASE EndPolling
  <2>1. TypeOK'
    BY <1>2, HolderAssumption DEF EndPolling, TypeOK
  <2>2. CronExact'
    BY <1>2 DEF EndPolling, CronExact, Pollable
  <2>3. SnapshotTrue' /\ HolderCurrent'
    BY <1>2, HolderAssumption DEF EndPolling, SnapshotTrue, HolderCurrent
  <2> QED
    BY <2>1, <2>2, <2>3
<1>3. ASSUME NEW s \in Servers, WriteDate(s) PROVE CronInv'
  <2>1. TypeOK'
    BY <1>3 DEF WriteDate, TypeOK
  <2>2. CronExact' /\ SnapshotTrue' /\ HolderCurrent'
    BY <1>3 DEF WriteDate, CronExact, SnapshotTrue, HolderCurrent, Pollable
  <2> QED
    BY <2>1, <2>2
<1> QED
  BY <1>1, <1>2, <1>3

LEMMA StepCron == CronInv /\ [Next]_vars => CronInv'
<1> SUFFICES ASSUME CronInv, [Next]_vars PROVE CronInv'
  OBVIOUS
<1>1. ASSUME NEW e \in Edits, Open(e) PROVE CronInv'
  <2>1. PICK s \in Servers : Begin(e, s)
    BY <1>1, Zenon DEF Open
  <2>2. phase[e] # "saved"
    BY <1>1 DEF Open
  <2> QED
    BY <2>1, <2>2, BeginCron
<1>2. ASSUME NEW e \in Edits, Conflict(e) PROVE CronInv'
  <2>1. phase[e] # "saved" /\ target[e] \in Servers /\ Begin(e, target[e])
    BY <1>2 DEF Conflict, CronInv, TypeOK
  <2> QED
    BY <2>1, BeginCron
<1>3. CASE UNCHANGED vars
  BY <1>3 DEF vars, editVars, CronInv, TypeOK, CronExact, SnapshotTrue, HolderCurrent,
     Pollable
<1> QED
  BY <1>1, <1>2, <1>3, SaveCron, CommitCron, RollbackCron, JobCron DEF Next, Edit

LEMMA CronInvariant == Spec => []CronInv
BY InitCron, StepCron, PTL DEF Spec

-----------------------------------------------------------------------------
\* Every variable keeps its type, and only an edit that has written its server holds
\* the cron's row (_update_cron, fetchmail_server.py:289-307).
THEOREM CronTyped == Spec => []TypeOK
<1>1. CronInv => TypeOK
  BY DEF CronInv
<1> QED
  BY <1>1, CronInvariant, PTL

\* However many edits of however many servers overlap with each other, with the
\* polling cron and with the webhook, the cron is as the servers ask for, except for
\* a change whose toggle() was given up and until a later edit has written the cron
\* (fetchmail_server.py:297-304).
THEOREM CronFollowsServers == Spec => []CronExact
<1>1. CronInv => CronExact
  BY DEF CronInv
<1> QED
  BY <1>1, CronInvariant, PTL
=============================================================================
