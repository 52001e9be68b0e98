---------------------------- MODULE EscrowLedger ----------------------------
(***************************************************************************)
(* What the Verdikt escrow promises, one atomic operation at a time: a     *)
(* bond per service, a credit per payer, and at most one ruling per paid   *)
(* call.  There is no call stack, no lock, no failing transfer and no      *)
(* clock here; VerdiktRegistry has all four and implements this module.    *)
(***************************************************************************)
EXTENDS Naturals

CONSTANTS
    Services,   \* service identifiers
    Requests,   \* paid calls
    Accounts,   \* addresses that own services or hold credit
    Nobody,     \* the provider of a service that was never opened
    Bond,       \* what opening a service costs, and what reinstates it
    RefundCap,  \* the most one ruling may credit
    Supply      \* all the native value there is

VARIABLES
    standing,   \* service -> "NONE", "ACTIVE", "SUSPENDED" or "DEREGISTERED"
    owner,      \* service -> the account that opened it
    bond,       \* service -> value set aside for its payers
    ruling,     \* paid call -> the refund its ruling credited, and whether it was ruled
    credit,     \* payer -> value it may still collect
    held        \* all the value the escrow holds

vars == <<standing, owner, bond, ruling, credit, held>>

Unruled == [ruled |-> FALSE, refund |-> 0]
Ruling(c) == [ruled |-> TRUE, refund |-> c]

Init ==
    /\ standing = [s \in Services |-> "NONE"]
    /\ owner = [s \in Services |-> Nobody]
    /\ bond = [s \in Services |-> 0]
    /\ ruling = [r \in Requests |-> Unruled]
    /\ credit = [p \in Accounts |-> 0]
    /\ held = 0

\* A service is opened once, by anyone, against exactly the bond.
Open(s, a) ==
    /\ standing[s] = "NONE"
    /\ standing' = [standing EXCEPT ![s] = "ACTIVE"]
    /\ owner' = [owner EXCEPT ![s] = a]
    /\ bond' = [bond EXCEPT ![s] = Bond]
    /\ held' = held + Bond
    /\ UNCHANGED <<ruling, credit>>

\* A live service can be funded; a full bond reinstates a suspended one.
Fund(s, v) ==
    /\ standing[s] \in {"ACTIVE", "SUSPENDED"}
    /\ bond' = [bond EXCEPT ![s] = @ + v]
    /\ standing' = [standing EXCEPT ![s] = IF bond[s] + v >= Bond THEN "ACTIVE" ELSE @]
    /\ held' = held + v
    /\ UNCHANGED <<owner, ruling, credit>>

\* Only an active service can be closed, for good; its bond goes to its owner.
Close(s) ==
    /\ standing[s] = "ACTIVE"
    /\ standing' = [standing EXCEPT ![s] = "DEREGISTERED"]
    /\ held' = held - bond[s]
    /\ bond' = [bond EXCEPT ![s] = 0]
    /\ UNCHANGED <<owner, ruling, credit>>

\* A call is ruled at most once; its refund moves from the bond to a payer.
Rule(r, s, p, c) ==
    /\ ~ruling[r].ruled
    /\ standing[s] \in {"ACTIVE", "SUSPENDED"}
    /\ c <= RefundCap /\ c <= bond[s]
    /\ ruling' = [ruling EXCEPT ![r] = Ruling(c)]
    /\ bond' = [bond EXCEPT ![s] = @ - c]
    /\ credit' = [credit EXCEPT ![p] = @ + c]
    /\ standing' = [standing EXCEPT ![s] = IF bond[s] = c THEN "SUSPENDED" ELSE @]
    /\ UNCHANGED <<owner, held>>

\* Credit is paid out, in part or in full.
Pay(p, v) ==
    /\ 0 < v /\ v <= credit[p]
    /\ credit' = [credit EXCEPT ![p] = @ - v]
    /\ held' = held - v
    /\ UNCHANGED <<standing, owner, bond, ruling>>

Next ==
    \/ \E s \in Services, a \in Accounts : Open(s, a)
    \/ \E s \in Services, v \in 0..Supply : Fund(s, v)
    \/ \E s \in Services : Close(s)
    \/ \E r \in Requests, s \in Services, p \in Accounts, c \in 0..RefundCap : Rule(r, s, p, c)
    \/ \E p \in Accounts, v \in 0..Supply : Pay(p, v)

Spec == Init /\ [][Next]_vars
=============================================================================
