----------------------------- MODULE MCGateway ------------------------------
(* Gateway on small instances. *)
EXTENDS Gateway, TLC

MCBackoff == <<1>>

\* Nothing reads what an answered request was signed with and how it ran, nor the
\* answer nobody awaits any more: states that differ in it only are one.
Trace(r) == IF phase[r] # "answered"
            THEN <<signed[r], stale[r], tries[r], outdated[r], snapshot[r]>>
            ELSE IF r = request THEN <<reply[r]>> ELSE << >>

View == <<workerVars, attemptVars, server, https, worker, phase, mail,
          posted, [r \in Requests |-> Trace(r)]>>

Symmetry == Permutations(Ids) \cup Permutations(Requests)
=============================================================================
