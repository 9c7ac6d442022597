---------------------------- MODULE MCOnboarding ----------------------------
(* Onboarding on small sets. *)
EXTENDS Onboarding, TLC

CONSTANTS a1, a2, pilot, pro

\* Accounts are only compared for equality.
Symmetry == Permutations(Account)
=============================================================================
