---------------------------- MODULE MCInboxQueue ----------------------------
(* InboxQueue on small instances. *)
EXTENDS InboxQueue, TLC

MCBackoff == <<1>>

Symmetry == Permutations(Ids)
=============================================================================
