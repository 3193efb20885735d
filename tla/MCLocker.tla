------------------------------- MODULE MCLocker -------------------------------
(* Instances of Locker for TLC. *)
EXTENDS Locker
=============================================================================
