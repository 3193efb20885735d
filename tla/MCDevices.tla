------------------------------- MODULE MCDevices -------------------------------
(* Instances of DevicesHistory for TLC. *)
EXTENDS DevicesHistory

FairSpecH == SpecH /\ Fairness

\* The first device may revoke the second, which updates its own info.
FirstRevokesSecond == {<<1, 2>>}
SecondUpdatesItself == {<<2, 2>>}
=============================================================================
