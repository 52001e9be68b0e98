----------------------------- MODULE MCPaidCall -----------------------------
(***************************************************************************)
(* Small instances of PaidCall for TLC.                                    *)
(***************************************************************************)
EXTENDS PaidCall, TLC

CONSTANTS c1, c2, s1, p1, p2, agent, provider

\* All the calls are to one service.
OneService == [c \in Calls |-> s1]

\* One agent pays, two units a payment, or one unit for the first.
OnePayer == [p \in Payments |-> agent]
TwoUnits == [p \in Payments |-> 2]
OneThenTwo == [p \in Payments |-> IF p = p1 THEN 1 ELSE 2]

\* Each call its own payment.
OwnPayment == [c \in Calls |-> IF c = c1 THEN p1 ELSE p2]
=============================================================================
