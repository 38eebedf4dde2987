----------------------------- MODULE MCBilling -----------------------------
(* Small instances of Billing for TLC. *)
EXTENDS Billing, TLC

\* Ids of one kind are interchangeable.
Symmetry == Permutations(Subs) \cup Permutations(Txns)
=============================================================================
