----------------------------- MODULE MCVaultSession ----------------------------
(* Constants that TLC needs for VaultSession. *)
EXTENDS VaultSession, TLC

\* Calls are interchangeable: each chooses its operation when it is made.
CallSymmetry == Permutations(Calls)

================================================================================
