------------------------------- MODULE Totals -------------------------------
(***************************************************************************)
(* Sums of amounts over a finite set, by counting: the total is how many   *)
(* units its members hold together.  Counting needs no recursion, so what  *)
(* a total does when a member changes can be proved (TotalsProofs).        *)
(***************************************************************************)
EXTENDS Naturals, FiniteSets

\* The units the members of S hold under f, each with its holder.
Units(f, S) == UNION {{x} \X (1 .. f[x]) : x \in S}

\* The sum of f[x] over the x in S.
Total(f, S) == Cardinality(Units(f, S))
=============================================================================
