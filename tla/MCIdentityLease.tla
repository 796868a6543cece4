--------------------------- MODULE MCIdentityLease ---------------------------
(* Instances of IdentityLease for TLC.                                     *)
EXTENDS IdentityLease, TLC

Symmetry == Permutations(Tasks) \cup Permutations(Slots) \cup Permutations(Keys)
=============================================================================
