------------------------------- MODULE MCProfile -------------------------------
(* Instances of ProfileHistory for TLC. *)
EXTENDS ProfileHistory, TLC

\* Pictures, and the identities of references, are only compared.
ProfileSymmetry == Permutations(Pictures) \union Permutations(Tasks) \union Permutations(Calls)
=============================================================================
