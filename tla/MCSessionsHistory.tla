-------------------------- MODULE MCSessionsHistory --------------------------
(* Instances of SessionsHistory for TLC. *)
EXTENDS SessionsHistory, TLC

\* Session ids are random: they may be exchanged freely.
SessionSymmetry == Permutations(SessionIds)
=============================================================================
