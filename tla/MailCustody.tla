---------------------------- MODULE MailCustody -----------------------------
(***************************************************************************)
(* What the inbound gateway promises a sending MTA: responsibility for a   *)
(* mail passes from the sender to the Worker, and from the Worker only to  *)
(* Odoo or to an operator; and while the Worker has it, a copy exists.     *)
(* EmailWorker implements this.                                            *)
(***************************************************************************)
CONSTANT Mails

VARIABLES
    owner,      \* who answers for the mail
    copy        \* whether the Worker can still produce it
custodyVars == <<owner, copy>>

CustodyInit ==
    /\ owner = [m \in Mails |-> "sender"]
    /\ copy = [m \in Mails |-> FALSE]

\* The sender gets its 250.  Without a copy, someone has given the mail up
\* already.
Accept(m) ==
    /\ owner[m] = "sender"
    /\ \E kept \in BOOLEAN :
          /\ copy' = [copy EXCEPT ![m] = kept]
          /\ \/ kept /\ owner' = [owner EXCEPT ![m] = "worker"]
             \/ owner' = [owner EXCEPT ![m] = "operator"]

\* Odoo commits the mail, even one an operator is giving up meanwhile.
Deliver(m) ==
    /\ owner[m] \in {"worker", "operator"}
    /\ owner' = [owner EXCEPT ![m] = "odoo"]
    /\ UNCHANGED copy

GiveUp(m) ==
    /\ owner[m] = "worker"
    /\ owner' = [owner EXCEPT ![m] = "operator"]
    /\ \E kept \in BOOLEAN : copy' = [copy EXCEPT ![m] = copy[m] /\ kept]

\* The copy goes when nobody needs it any more.
Discard(S) ==
    /\ \A m \in S : owner[m] \in {"odoo", "operator"}
    /\ copy' = [m \in Mails |-> IF m \in S THEN FALSE ELSE copy[m]]
    /\ UNCHANGED owner

CustodyNext ==
    \/ \E m \in Mails : Accept(m) \/ Deliver(m) \/ GiveUp(m)
    \/ \E S \in SUBSET Mails : Discard(S)

CustodySpec == CustodyInit /\ [][CustodyNext]_custodyVars
=============================================================================
