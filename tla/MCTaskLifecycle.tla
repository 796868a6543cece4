--------------------------- MODULE MCTaskLifecycle ---------------------------
\* Instances of TaskLifecycle for TLC.
EXTENDS TaskLifecycle, TLC

\* Workers are interchangeable; task ids are not, the queue follows their order.
Symmetry == Permutations(Workers)
=============================================================================
