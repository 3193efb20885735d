------------------------------ MODULE MCSessions ------------------------------
(* Instances of Sessions for TLC. *)
EXTENDS Sessions, TLC

\* Session ids are random: they may be exchanged freely.
SessionSymmetry == Permutations(SessionIds)
=============================================================================
