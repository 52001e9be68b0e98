-------------------------- MODULE MCVerdiktRegistry --------------------------
(***************************************************************************)
(* Small instances of VerdiktRegistry for TLC.                             *)
(***************************************************************************)
EXTENDS VerdiktRegistry, TLC

CONSTANTS s1, s2, r1, r2, alice, bob, n1, forwarder, verdikt

\* A report of Verdikt's workflow through the forwarder.
Attested(s, r, o, p, paid) ==
    [sender |-> forwarder, workflowOwner |-> verdikt, serviceId |-> s, requestId |-> r,
     outcome |-> o, payer |-> p, paidAmount |-> paid]

\* Two services: two verdicts race for r1, one for r2 is of an amount that
\* saturates, one passes, one is of another workflow and one did not come
\* through the forwarder.
BothServicesReports ==
    { Attested(s1, r1, "FAIL", alice, 2),
      Attested(s2, r1, "DOWN", bob, 1),
      Attested(s1, r2, "FAIL", alice, 8),
      Attested(s2, r2, "PASS", bob, 1),
      [Attested(s2, r2, "FAIL", bob, 2) EXCEPT !.workflowOwner = bob],
      [Attested(s2, r2, "FAIL", bob, 2) EXCEPT !.sender = bob] }

\* One nonce signed for two recipients, one of them late.
BothServicesSigned ==
    { [payer |-> alice, recipient |-> bob, amount |-> 2, validBefore |-> 2, nonce |-> n1],
      [payer |-> alice, recipient |-> alice, amount |-> 1, validBefore |-> 3, nonce |-> n1] }
=============================================================================
