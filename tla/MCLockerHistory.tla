---------------------------- MODULE MCLockerHistory ----------------------------
(* Instances of LockerHistory for TLC. *)
EXTENDS LockerHistory, TLC

\* Keys may be exchanged freely: they are only compared with each other.
KeySymmetry == Permutations(Keys)
=============================================================================
