---------------------------- MODULE MCVaultCache ----------------------------
(* Small instances of VaultCache for TLC. *)
EXTENDS VaultCache, TLC

CONSTANTS i1, f1, l1, l2, main

OneItem == {i1}
OneFolder == {f1}
NoIds == {}
TwoLoaders == {l1, l2}

AllKinds == {"populate", "create", "update", "remove", "revive", "changed", "removed", "remote", "clear"}
LocalKinds == {"populate", "update", "remove", "clear"}
HealKinds == {"populate", "create", "update", "remove", "remote"}

LoaderSymmetry == Permutations(Loaders)
=============================================================================
