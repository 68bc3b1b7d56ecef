--------------------------- MODULE MCPollingCron ----------------------------
(* PollingCron on small instances. *)
EXTENDS PollingCron, TLC

Symmetry == Permutations(Servers) \cup Permutations(Edits)
=============================================================================
