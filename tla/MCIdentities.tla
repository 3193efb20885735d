----------------------------- MODULE MCIdentities -----------------------------
(* Instances of IdentitiesHistory for TLC. *)
EXTENDS IdentitiesHistory, TLC

\* Identities are hashes of DIDs and devices hashes of keys: any exchange of
\* them leaves the system the same.
HashSymmetry == Permutations(Ids) \union Permutations(Devices)
=============================================================================
