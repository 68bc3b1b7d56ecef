-------------------------- MODULE MCOutgoingServer --------------------------
(* OutgoingServer on small instances. *)
EXTENDS OutgoingServer, TLC

CONSTANTS a1, a2, t1, t2

\* Each token may send for one account.
MCPermitted == {<<a1, t1>>, <<a2, t2>>}

\* The two accounts are alike, each with its token.
Swap == (a1 :> a2) @@ (a2 :> a1) @@ (t1 :> t2) @@ (t2 :> t1)

Symmetry == Permutations(Sessions) \cup {Swap}
=============================================================================
