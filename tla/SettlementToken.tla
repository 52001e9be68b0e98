--------------------------- MODULE SettlementToken ---------------------------
(***************************************************************************)
(* genlayer/contracts/settlement_token.py: a token whose owners can hand a *)
(* custodian the authority over part of their balance.  An escrow is not a *)
(* transfer: the balance stays the owner's, and what the owner may still   *)
(* move is recomputed from every escrow whenever it is asked for.          *)
(*                                                                         *)
(* A refused call raises and changes nothing, so a refusal is a false      *)
(* guard.  A u256 cannot overflow below Supply.                            *)
(***************************************************************************)
EXTENDS Totals

CONSTANTS
    Accounts,   \* addresses, contracts among them; any may be a custodian
    MintLimit,  \* MINT_LIMIT
    Supply      \* bound on total_supply

\* Finitely many accounts, and amounts.
ASSUME TokenAssumption == IsFiniteSet(Accounts) /\ MintLimit \in Nat /\ Supply \in Nat

VARIABLES balances, escrows, total_supply

tokenVars == <<balances, escrows, total_supply>>

TokenInit ==
    /\ balances = [a \in Accounts |-> 0]
    /\ escrows = [o \in Accounts |-> [c \in Accounts |-> 0]]
    /\ total_supply = 0

\* _escrowed_total
EscrowedTotal(owner) == Total(escrows[owner], Accounts)

\* available_of, and the guard _debit_free and escrow share
Free(owner) == balances[owner] - EscrowedTotal(owner)

Debited(owner, amount) == [balances EXCEPT ![owner] = @ - amount]

\* Mutant: the recipient's balance was read before the debit.
MovedFromStale(owner, to, amount) ==
    [Debited(owner, amount) EXCEPT ![to] = balances[to] + amount]

\* The credit reads the balances the debit left: owner and recipient may be one.
Moved(owner, to, amount) == [Debited(owner, amount) EXCEPT ![to] = @ + amount]

Mint(sender, amount) ==
    /\ 0 < amount /\ amount <= MintLimit
    /\ total_supply + amount <= Supply
    /\ balances' = [balances EXCEPT ![sender] = @ + amount]
    /\ total_supply' = total_supply + amount
    /\ UNCHANGED escrows

Transfer(sender, to, amount) ==
    /\ 0 < amount /\ amount <= Free(sender)
    /\ balances' = Moved(sender, to, amount)
    /\ UNCHANGED <<escrows, total_supply>>

Escrow(sender, custodian, amount) ==
    /\ 0 < amount /\ EscrowedTotal(sender) + amount <= balances[sender]
    /\ escrows' = [escrows EXCEPT ![sender][custodian] = @ + amount]
    /\ UNCHANGED <<balances, total_supply>>

\* Mutant: a release is not compared with what the escrow holds.
ReleasableAlways(custodian, owner, amount) == 0 < amount

Releasable(custodian, owner, amount) ==
    0 < amount /\ amount <= escrows[owner][custodian]

Release(custodian, owner, to, amount) ==
    /\ Releasable(custodian, owner, amount)
    /\ escrows' = [escrows EXCEPT ![owner][custodian] = @ - amount]
    /\ balances' = Moved(owner, to, amount)
    /\ UNCHANGED total_supply

TokenNext ==
    \E sender, x \in Accounts, amount \in 1..Supply :
        \/ Mint(sender, amount)
        \/ Transfer(sender, x, amount)
        \/ Escrow(sender, x, amount)
        \/ \E to \in Accounts : Release(sender, x, to, amount)

TokenSpec == TokenInit /\ [][TokenNext]_tokenVars

-----------------------------------------------------------------------------
\* Balances and escrows are amounts within the supply (their storage types).
TokenTypeOK ==
    /\ balances \in [Accounts -> 0..Supply]
    /\ escrows \in [Accounts -> [Accounts -> 0..Supply]]
    /\ total_supply \in 0..Supply

\* Every token minted lies in exactly one balance, whoever moves it, also when
\* an account pays itself or a custodian releases an owner's escrow to it.
SupplyAddsUp == Total(balances, Accounts) = total_supply

\* No custodian is promised what its owner no longer has: an owner's escrows
\* together never exceed its balance, so no release finds its balance short.
EscrowsAreBacked == \A o \in Accounts : EscrowedTotal(o) <= balances[o]

\* The token implements disjoint pots: the free part is the balance less all
\* escrows, and each escrow is moved by its own custodian alone.
Pots == INSTANCE TokenPots WITH
    free <- [o \in Accounts |-> Free(o)], held <- escrows, minted <- total_supply

ImplementsPots == Pots!Spec
=============================================================================
