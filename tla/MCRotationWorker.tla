-------------------------- MODULE MCRotationWorker --------------------------
(* Small instances of RotationWorker for TLC. *)
EXTENDS RotationWorker
=============================================================================
