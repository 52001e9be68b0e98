---------------------------- MODULE MCReputation -----------------------------
(***************************************************************************)
(* Small instances of Reputation for TLC.                                  *)
(***************************************************************************)
EXTENDS Reputation, TLC

ServicesSym == Permutations(Services)
=============================================================================
