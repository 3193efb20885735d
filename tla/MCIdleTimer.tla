------------------------------ MODULE MCIdleTimer ------------------------------
(* Instances of IdleTimer for TLC. *)
EXTENDS IdleTimer
=============================================================================
