--------------------------- MODULE TwoGenerations ---------------------------
(***************************************************************************)
(* What a vault's key generations promise, whoever the members are and     *)
(* however the work is split into requests.                                *)
(*                                                                         *)
(* At any time rows are written under one generation, and at most one      *)
(* other generation is being retired.  The next one is introduced only     *)
(* when none is being retired, and a generation is destroyed only when no  *)
(* row is labelled with it.  (crypto-envelope.md, Vault key generations)   *)
(***************************************************************************)
EXTENDS Integers

CONSTANTS Items, FirstItem   \* FirstItem exists from the start

VARIABLES generation,   \* what rows are written under
          retiring,     \* the generation being retired, or None
          label         \* each row's generation, Absent if there is no row

None   == 0
Absent == {0, -1}       \* not created yet, deleted

absVars == <<generation, retiring, label>>

AbsInit ==
    /\ generation = 1
    /\ retiring = None
    /\ label = [i \in Items |-> IF i = FirstItem THEN 1 ELSE 0]

(* A new generation begins and the present one starts to retire. *)
Introduce ==
    /\ retiring = None
    /\ generation' = generation + 1
    /\ retiring' = generation
    /\ UNCHANGED label

(* Rows are written, or written again, under the present generation. *)
Write ==
    /\ \E rows \in SUBSET {i \in Items : label[i] # -1} :
          label' = [i \in Items |-> IF i \in rows THEN generation ELSE label[i]]
    /\ UNCHANGED <<generation, retiring>>

Remove ==
    /\ \E rows \in SUBSET {i \in Items : label[i] \notin Absent} :
          label' = [i \in Items |-> IF i \in rows THEN -1 ELSE label[i]]
    /\ UNCHANGED <<generation, retiring>>

(* The retiring generation is destroyed: no row needs it any more. *)
Retire ==
    /\ retiring # None
    /\ \A i \in Items : label[i] # retiring
    /\ retiring' = None
    /\ UNCHANGED <<generation, label>>

AbsNext == Introduce \/ Write \/ Remove \/ Retire

AbsSpec == AbsInit /\ [][AbsNext]_absVars
=============================================================================
