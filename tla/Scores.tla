------------------------------- MODULE Scores --------------------------------
(***************************************************************************)
(* packages/sla/aggregate.js: the marketplace's ratios, integers on a      *)
(* scale of SCORE_SCALE, floored, and full marks where there is no data.   *)
(***************************************************************************)
EXTENDS Integers

SCORE_SCALE == 1000

\* Mutant: the ratio is rounded to the nearest.
Rounded(part, whole) ==
    IF whole = 0 THEN SCORE_SCALE ELSE (2 * part * SCORE_SCALE + whole) \div (2 * whole)

Ratio(part, whole) ==
    IF whole = 0 THEN SCORE_SCALE ELSE (part * SCORE_SCALE) \div whole

\* aggregateWindow: the quality of what arrived, and whether it arrived.
aggregateWindow(pass, fail, down) ==
    [conformance |-> Ratio(pass, pass + fail),
     availability |-> Ratio(pass + fail, pass + fail + down)]

\* aggregateSemantic: how often a decided dispute went for the provider.
aggregateSemantic(met, breach) == Ratio(met, met + breach)
=============================================================================
