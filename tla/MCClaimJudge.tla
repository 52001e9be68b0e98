---------------------------- MODULE MCClaimJudge ----------------------------
(***************************************************************************)
(* Small instances of ClaimJudge for TLC.                                  *)
(***************************************************************************)
EXTENDS ClaimJudge, TLC

CONSTANTS alice, bob, s1, s2, r1, r2, c1, c2

OneSlug == [r \in Requests |-> s1]
Ones == [r \in Requests |-> 1]
Parties2 == Permutations(Parties)
=============================================================================
