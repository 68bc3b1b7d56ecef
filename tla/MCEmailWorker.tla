--------------------------- MODULE MCEmailWorker ----------------------------
(* EmailWorker on small instances. *)
EXTENDS EmailWorker, TLC

MCBackoff == <<1>>

\* Ties in ORDER BY are broken in any order, so ids are interchangeable.
Symmetry == Permutations(Ids)
=============================================================================
