---------------------------- MODULE MCInvitations ----------------------------
(* Small instances of Invitations for TLC. *)
EXTENDS Invitations, TLC

(* Ids and requests are interchangeable; the vaults are not: one is Anyone. *)
Symmetry ==
    Permutations(Invites) \cup Permutations(Links) \cup Permutations(Requests)
=============================================================================
