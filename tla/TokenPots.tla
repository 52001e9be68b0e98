------------------------------ MODULE TokenPots ------------------------------
(***************************************************************************)
(* What the settlement token promises: an owner's tokens lie in disjoint   *)
(* pots, one that the owner moves and one for each custodian, which that   *)
(* custodian alone moves.  Tokens enter by minting and never leave.        *)
(***************************************************************************)
EXTENDS Naturals

CONSTANTS
    Accounts,   \* owners and custodians: any account may be either
    MintLimit,  \* the most one faucet call mints
    Supply      \* all the tokens that will be minted

VARIABLES
    free,       \* owner -> what the owner may move
    held,       \* owner -> custodian -> what that custodian may move
    minted      \* everything minted so far

Init ==
    /\ free = [o \in Accounts |-> 0]
    /\ held = [o \in Accounts |-> [c \in Accounts |-> 0]]
    /\ minted = 0

Mint(o, v) ==
    /\ v <= MintLimit
    /\ free' = [free EXCEPT ![o] = @ + v]
    /\ minted' = minted + v
    /\ UNCHANGED held

\* The owner gives away what it may move.
Give(o, to, v) ==
    /\ v <= free[o]
    /\ free' = [[free EXCEPT ![o] = @ - v] EXCEPT ![to] = @ + v]
    /\ UNCHANGED <<held, minted>>

\* The owner puts some of it at a custodian's disposal, for good.
Pledge(o, c, v) ==
    /\ v <= free[o]
    /\ free' = [free EXCEPT ![o] = @ - v]
    /\ held' = [held EXCEPT ![o][c] = @ + v]
    /\ UNCHANGED minted

\* The custodian, and nobody else, makes it somebody's to move.
Award(o, c, to, v) ==
    /\ v <= held[o][c]
    /\ held' = [held EXCEPT ![o][c] = @ - v]
    /\ free' = [free EXCEPT ![to] = @ + v]
    /\ UNCHANGED minted

Next ==
    \E o, x \in Accounts, v \in 1..Supply :
        \/ Mint(o, v)
        \/ Give(o, x, v)
        \/ Pledge(o, x, v)
        \/ \E to \in Accounts : Award(o, x, to, v)

Spec == Init /\ [][Next]_<<free, held, minted>>
=============================================================================
