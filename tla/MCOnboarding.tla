---------------------------- MODULE MCOnboarding ----------------------------
(* The slugs and the wallet's accounts are interchangeable. *)
EXTENDS Onboarding, TLC

Interchangeable == Permutations(Slugs) \cup Permutations(Accounts)
=============================================================================
