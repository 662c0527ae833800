----------------------------- MODULE MCAccounts -----------------------------
(* Small instances of Accounts for TLC. *)
EXTENDS Accounts, TLC

CONSTANTS a1, a2, a3

ThreeIds == {a1, a2, a3}
Everything == {"crash", "refused", "window"}
Alike == Permutations(ThreeIds)
=============================================================================
