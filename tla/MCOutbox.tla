------------------------------ MODULE MCOutbox ------------------------------
(* Outbox on small sets. *)
EXTENDS Outbox, TLC

CONSTANTS p1, p2, w1, w2

\* Publishers and workers are only compared for equality; events are ordered.
Symmetry == Permutations(Publisher) \cup Permutations(Worker)
=============================================================================
