--------------------------- MODULE MCVaultRotation ---------------------------
(* Small instances of VaultRotation for TLC. *)
EXTENDS VaultRotation, TLC

(* Requests in flight are interchangeable. *)
Symmetry == Permutations(Requests)
=============================================================================
