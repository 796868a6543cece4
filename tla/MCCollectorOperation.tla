------------------------ MODULE MCCollectorOperation ------------------------
\* Instances of CollectorOperation for TLC.
EXTENDS CollectorOperation, TLC

Symmetry == Permutations(Ops) \cup Permutations(Identities)
=============================================================================
