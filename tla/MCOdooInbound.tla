--------------------------- MODULE MCOdooInbound ----------------------------
(* OdooInbound on small instances. *)
EXTENDS OdooInbound, TLC

Symmetry == Permutations(Requests)
=============================================================================
