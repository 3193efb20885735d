---------------------------- MODULE MCProfileStores ----------------------------
(* An instance of ProfileStores for TLC. *)
EXTENDS ProfileStores, TLC

StoreSymmetry == Permutations(Instances) \union Permutations(Stores) \union Permutations(Calls)
=============================================================================
