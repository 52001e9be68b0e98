-------------------------- MODULE ClaimJudgeProofs --------------------------
(***************************************************************************)
(* Theorems about ClaimJudge and the token it pays in, for any parties,    *)
(* services, calls, clauses, amounts, windows, mint limit and supply that  *)
(* JudgeAssumption and TokenAssumption admit.                              *)
(***************************************************************************)
EXTENDS ClaimJudge, TotalsProofs

-----------------------------------------------------------------------------
\* The token by itself.

Amount == 0..Supply

\* The invariant: a balance is within the supply because all of them together
\* are the supply, and an escrow is because its owner's balance backs it.
TokenInv == TokenTypeOK /\ SupplyAddsUp /\ EscrowsAreBacked

\* A total and its members are natural numbers, and it covers each of them.
LEMMA TotalCoversMembers ==
    ASSUME NEW f \in [Accounts -> Amount]
    PROVE  Total(f, Accounts) \in Nat /\ \A a \in Accounts : f[a] \in Nat /\ f[a] <= Total(f, Accounts)
<1>1. Amounted(f, Accounts) /\ IsFiniteSet(Accounts)
  BY TokenAssumption DEF Amounted, Amount
<1>2. QED
  BY <1>1, TotalCovers

\* Replacing one member moves the total by the difference.
LEMMA TotalReplaced ==
    ASSUME NEW f \in [Accounts -> Amount], NEW g \in [Accounts -> Amount],
           NEW a \in Accounts, \A x \in Accounts \ {a} : g[x] = f[x]
    PROVE  Total(g, Accounts) = Total(f, Accounts) - f[a] + g[a]
<1>1. Amounted(f, Accounts) /\ Amounted(g, Accounts) /\ IsFiniteSet(Accounts)
  BY TokenAssumption DEF Amounted, Amount
<1>2. QED
  BY <1>1, TotalChanges

\* A debit and the credit of the same amount leave the total as it was, also
\* when both are of one account.
LEMMA MovedTotal ==
    ASSUME TokenTypeOK, SupplyAddsUp,
           NEW owner \in Accounts, NEW to \in Accounts, NEW amount \in Nat,
           amount <= balances[owner]
    PROVE  /\ Moved(owner, to, amount) \in [Accounts -> Amount]
           /\ Total(Moved(owner, to, amount), Accounts) = Total(balances, Accounts)
           /\ \A a \in Accounts \ {owner} : Moved(owner, to, amount)[a] >= balances[a]
           /\ Moved(owner, to, amount)[owner] >= balances[owner] - amount
<1> DEFINE d == Debited(owner, amount)
<1>1. balances \in [Accounts -> Amount] /\ balances[owner] - amount \in Amount
  BY TokenAssumption DEF TokenTypeOK, Amount
<1>2. d = [balances EXCEPT ![owner] = balances[owner] - amount]
  BY DEF Debited
<1> HIDE DEF d
<1>3. d \in [Accounts -> Amount] /\ d[owner] = balances[owner] - amount
      /\ \A x \in Accounts \ {owner} : d[x] = balances[x]
  BY <1>1, <1>2
<1>3a. Total(d, Accounts) = Total(balances, Accounts) - balances[owner] + (balances[owner] - amount)
  BY <1>1, <1>3, TotalReplaced
<1>4. Total(balances, Accounts) \in Nat /\ Total(balances, Accounts) <= Supply /\ balances[owner] \in Nat
  BY <1>1, TotalCoversMembers, TokenAssumption DEF TokenTypeOK, SupplyAddsUp
<1>5. Total(d, Accounts) = Total(balances, Accounts) - amount
  BY <1>3a, <1>4
<1>6. d[to] \in Nat /\ d[to] <= Total(d, Accounts)
  BY <1>3, TotalCoversMembers
<1>7. d[to] + amount \in Amount
  BY <1>4, <1>5, <1>6, TokenAssumption DEF Amount
<1>8. Moved(owner, to, amount) = [d EXCEPT ![to] = d[to] + amount]
  BY <1>3 DEF Moved, d
<1> DEFINE m == Moved(owner, to, amount)
<1> HIDE DEF m
<1>9. m \in [Accounts -> Amount] /\ m[to] = d[to] + amount
      /\ \A x \in Accounts \ {to} : m[x] = d[x]
  BY <1>3, <1>7, <1>8 DEF m
<1>9a. Total(m, Accounts) = Total(d, Accounts) - d[to] + (d[to] + amount)
  BY <1>3, <1>9, TotalReplaced
<1>10. Total(m, Accounts) = Total(balances, Accounts)
  BY <1>4, <1>5, <1>6, <1>9a
<1>11. \A a \in Accounts : d[a] \in Nat /\ balances[a] \in Nat
  BY <1>1, <1>3, TotalCoversMembers
<1>12. /\ \A a \in Accounts \ {owner} : m[a] >= balances[a]
       /\ m[owner] >= balances[owner] - amount
  BY <1>3, <1>9, <1>11
<1>13. QED
  BY <1>9, <1>10, <1>12 DEF m

\* The initial state holds nothing.
LEMMA TokenInitInv == TokenInit => TokenInv
<1> SUFFICES ASSUME TokenInit PROVE TokenInv
  OBVIOUS
<1> USE TokenAssumption DEF TokenInit
<1>1. TokenTypeOK
  BY DEF TokenTypeOK
<1>2. SupplyAddsUp
  BY TotalOfZero DEF SupplyAddsUp
<1>3. \A o \in Accounts : EscrowedTotal(o) = 0 /\ balances[o] = 0
  BY TotalOfZero DEF EscrowedTotal
<1>4. EscrowsAreBacked
  BY <1>3 DEF EscrowsAreBacked
<1>5. QED
  BY <1>1, <1>2, <1>4 DEF TokenInv

\* What an owner's escrows add up to, as the steps that leave them use it.
LEMMA EscrowedIsNat ==
    ASSUME TokenInv, NEW o \in Accounts
    PROVE  /\ escrows[o] \in [Accounts -> Amount] /\ balances[o] \in Amount
           /\ EscrowedTotal(o) \in Nat /\ EscrowedTotal(o) <= balances[o]
<1>1. escrows[o] \in [Accounts -> Amount] /\ balances[o] \in Amount
  BY DEF TokenInv, TokenTypeOK, Amount
<1>2. QED
  BY <1>1, TotalCoversMembers DEF TokenInv, EscrowsAreBacked, EscrowedTotal

LEMMA MintInv ==
    ASSUME TokenInv, NEW sender \in Accounts, NEW amount \in Nat, Mint(sender, amount)
    PROVE  TokenInv'
<1>1. balances \in [Accounts -> Amount] /\ total_supply \in Amount /\ Total(balances, Accounts) = total_supply
  BY DEF TokenInv, TokenTypeOK, SupplyAddsUp, Amount
<1>2. balances[sender] \in Nat /\ balances[sender] <= Total(balances, Accounts)
  BY <1>1, TotalCoversMembers
<1>3. balances[sender] + amount \in Amount
  BY <1>1, <1>2, TokenAssumption DEF Mint, Amount
<1>4. balances' = [balances EXCEPT ![sender] = balances[sender] + amount]
      /\ total_supply' = total_supply + amount /\ escrows' = escrows
  BY DEF Mint
<1>5. balances' \in [Accounts -> Amount]
      /\ Total(balances', Accounts) = Total(balances, Accounts) - balances[sender] + (balances[sender] + amount)
  <2>1. PICK b \in [Accounts -> Amount] : b = [balances EXCEPT ![sender] = balances[sender] + amount]
    BY <1>1, <1>3
  <2>2. b[sender] = balances[sender] + amount /\ \A x \in Accounts \ {sender} : b[x] = balances[x]
    BY <1>1, <2>1
  <2>3. Total(b, Accounts) = Total(balances, Accounts) - balances[sender] + (balances[sender] + amount)
    BY <1>1, <2>2, TotalReplaced
  <2>4. QED
    BY <1>4, <2>1, <2>3
<1>6. TokenTypeOK'
  BY <1>1, <1>4, <1>5, TokenAssumption DEF Mint, TokenTypeOK, TokenInv, Amount
<1>7. SupplyAddsUp'
  BY <1>1, <1>2, <1>4, <1>5 DEF SupplyAddsUp, Amount
<1>8. ASSUME NEW o \in Accounts PROVE Total(escrows'[o], Accounts) <= balances'[o]
  <2>1. balances'[o] \in Nat /\ balances'[o] >= balances[o]
    BY <1>1, <1>3, <1>4, <1>5 DEF Amount
  <2>2. QED
    BY <1>4, <2>1, EscrowedIsNat DEF EscrowedTotal, Amount
<1>9. QED
  BY <1>6, <1>7, <1>8 DEF TokenInv, EscrowsAreBacked, EscrowedTotal

LEMMA TransferInv ==
    ASSUME TokenInv, NEW sender \in Accounts, NEW to \in Accounts, NEW amount \in Nat,
           Transfer(sender, to, amount)
    PROVE  TokenInv'
<1>1. \A o \in Accounts : EscrowedTotal(o) \in Nat /\ EscrowedTotal(o) <= balances[o] /\ balances[o] \in Nat
  BY EscrowedIsNat, TokenAssumption DEF Amount
<1>2. amount <= balances[sender] - EscrowedTotal(sender)
  BY DEF Transfer, Free
<1>3. amount <= balances[sender]
  BY <1>1, <1>2
<1>4. /\ Moved(sender, to, amount) \in [Accounts -> Amount]
      /\ Total(Moved(sender, to, amount), Accounts) = Total(balances, Accounts)
      /\ \A a \in Accounts \ {sender} : Moved(sender, to, amount)[a] >= balances[a]
      /\ Moved(sender, to, amount)[sender] >= balances[sender] - amount
  BY <1>3, MovedTotal DEF TokenInv
<1>5. balances' = Moved(sender, to, amount) /\ escrows' = escrows /\ total_supply' = total_supply
  BY DEF Transfer
<1>6. TokenTypeOK' /\ SupplyAddsUp'
  BY <1>4, <1>5 DEF TokenInv, TokenTypeOK, SupplyAddsUp, Amount
<1>7. ASSUME NEW o \in Accounts PROVE Total(escrows'[o], Accounts) <= balances'[o]
  <2>1. balances'[o] \in Nat
    BY <1>4, <1>5, TokenAssumption DEF Amount
  <2>2. EscrowedTotal(o) <= balances'[o]
    BY <1>1, <1>2, <1>4, <1>5, <2>1
  <2>3. QED
    BY <1>5, <2>2 DEF EscrowedTotal
<1>8. QED
  BY <1>6, <1>7 DEF TokenInv, EscrowsAreBacked, EscrowedTotal

\* How one member of one owner's escrows changes all of them.
LEMMA EscrowReplaced ==
    ASSUME TokenInv, NEW o \in Accounts, NEW c \in Accounts, NEW v \in Amount,
           escrows' = [escrows EXCEPT ![o] = [escrows[o] EXCEPT ![c] = v]]
    PROVE  /\ escrows' \in [Accounts -> [Accounts -> Amount]]
           /\ Total(escrows'[o], Accounts) = EscrowedTotal(o) - escrows[o][c] + v
           /\ \A x \in Accounts \ {o} : escrows'[x] = escrows[x]
<1>1. escrows \in [Accounts -> [Accounts -> Amount]]
  BY DEF TokenInv, TokenTypeOK, Amount
<1>2. PICK g : g = [escrows[o] EXCEPT ![c] = v]
  OBVIOUS
<1>3. g \in [Accounts -> Amount] /\ g[c] = v /\ \A x \in Accounts \ {c} : g[x] = escrows[o][x]
  BY <1>1, <1>2
<1>4. Total(g, Accounts) = Total(escrows[o], Accounts) - escrows[o][c] + v
  BY <1>1, <1>3, TotalReplaced
<1>5. escrows' = [escrows EXCEPT ![o] = g]
  BY <1>1, <1>2
<1>6. QED
  BY <1>1, <1>3, <1>4, <1>5 DEF EscrowedTotal

LEMMA EscrowInv ==
    ASSUME TokenInv, NEW sender \in Accounts, NEW custodian \in Accounts, NEW amount \in Nat,
           Escrow(sender, custodian, amount)
    PROVE  TokenInv'
<1>1. escrows[sender] \in [Accounts -> Amount] /\ balances[sender] \in Amount
      /\ EscrowedTotal(sender) \in Nat
  BY EscrowedIsNat
<1>2. escrows[sender][custodian] \in Nat /\ escrows[sender][custodian] <= EscrowedTotal(sender)
  BY <1>1, TotalCoversMembers DEF EscrowedTotal
<1>3. escrows[sender][custodian] + amount \in Amount
      /\ EscrowedTotal(sender) + amount <= balances[sender]
  BY <1>1, <1>2, TokenAssumption DEF Escrow, Amount
<1>4. PICK v \in Amount : v = escrows[sender][custodian] + amount
  BY <1>3
<1>4a. escrows' = [escrows EXCEPT ![sender] = [escrows[sender] EXCEPT ![custodian] = v]]
      /\ balances' = balances /\ total_supply' = total_supply
  BY <1>1, <1>4 DEF Escrow, TokenInv, TokenTypeOK
<1>5. /\ escrows' \in [Accounts -> [Accounts -> Amount]]
      /\ Total(escrows'[sender], Accounts) = EscrowedTotal(sender) - escrows[sender][custodian]
                                       + (escrows[sender][custodian] + amount)
      /\ \A x \in Accounts \ {sender} : escrows'[x] = escrows[x]
  BY <1>4, <1>4a, EscrowReplaced
<1>6. TokenTypeOK' /\ SupplyAddsUp'
  BY <1>4a, <1>5 DEF TokenInv, TokenTypeOK, SupplyAddsUp, Amount
<1>7. ASSUME NEW o \in Accounts PROVE Total(escrows'[o], Accounts) <= balances'[o]
  <2>1. CASE o = sender
    BY <1>1, <1>2, <1>3, <1>4a, <1>5, <2>1
  <2>2. CASE o # sender
    BY <1>4a, <1>5, <2>2, EscrowedIsNat DEF EscrowedTotal
  <2>3. QED
    BY <2>1, <2>2
<1>8. QED
  BY <1>6, <1>7 DEF TokenInv, EscrowsAreBacked, EscrowedTotal

LEMMA ReleaseInv ==
    ASSUME TokenInv, NEW custodian \in Accounts, NEW owner \in Accounts, NEW to \in Accounts,
           NEW amount \in Nat, Release(custodian, owner, to, amount)
    PROVE  TokenInv'
<1>1. \A o \in Accounts : EscrowedTotal(o) \in Nat /\ EscrowedTotal(o) <= balances[o] /\ balances[o] \in Nat
  BY EscrowedIsNat, TokenAssumption DEF Amount
<1>2. escrows[owner] \in [Accounts -> Amount]
  BY EscrowedIsNat
<1>3. escrows[owner][custodian] \in Nat /\ escrows[owner][custodian] <= EscrowedTotal(owner)
  BY <1>2, TotalCoversMembers DEF EscrowedTotal
<1>4. amount <= escrows[owner][custodian] /\ amount <= balances[owner]
      /\ escrows[owner][custodian] - amount \in Amount
  BY <1>1, <1>2, <1>3, TokenAssumption DEF Release, Releasable, Amount
<1>5. /\ Moved(owner, to, amount) \in [Accounts -> Amount]
      /\ Total(Moved(owner, to, amount), Accounts) = Total(balances, Accounts)
      /\ \A a \in Accounts \ {owner} : Moved(owner, to, amount)[a] >= balances[a]
      /\ Moved(owner, to, amount)[owner] >= balances[owner] - amount
  BY <1>4, MovedTotal DEF TokenInv
<1>6. PICK v \in Amount : v = escrows[owner][custodian] - amount
  BY <1>4
<1>6a. escrows' = [escrows EXCEPT ![owner] = [escrows[owner] EXCEPT ![custodian] = v]]
      /\ balances' = Moved(owner, to, amount) /\ total_supply' = total_supply
  BY <1>2, <1>6 DEF Release, TokenInv, TokenTypeOK
<1>7. /\ escrows' \in [Accounts -> [Accounts -> Amount]]
      /\ Total(escrows'[owner], Accounts) = EscrowedTotal(owner) - escrows[owner][custodian]
                                      + (escrows[owner][custodian] - amount)
      /\ \A x \in Accounts \ {owner} : escrows'[x] = escrows[x]
  BY <1>6, <1>6a, EscrowReplaced
<1>8. TokenTypeOK' /\ SupplyAddsUp'
  BY <1>5, <1>6a, <1>7 DEF TokenInv, TokenTypeOK, SupplyAddsUp, Amount
<1>9. ASSUME NEW o \in Accounts PROVE Total(escrows'[o], Accounts) <= balances'[o]
  <2>1. balances'[o] \in Nat
    BY <1>5, <1>6a, TokenAssumption DEF Amount
  <2>2. CASE o = owner
    BY <1>1, <1>3, <1>4, <1>5, <1>6a, <1>7, <2>1, <2>2
  <2>3. CASE o # owner
    BY <1>1, <1>5, <1>6a, <1>7, <2>1, <2>3 DEF EscrowedTotal
  <2>4. QED
    BY <2>2, <2>3
<1>10. QED
  BY <1>8, <1>9 DEF TokenInv, EscrowsAreBacked, EscrowedTotal

\* Every operation of the token keeps the invariant.
LEMMA TokenStepInv ==
    ASSUME TokenInv, [TokenNext]_tokenVars
    PROVE  TokenInv'
<1>1. ASSUME NEW sender \in Accounts, NEW x \in Accounts, NEW amount \in 1..Supply,
             \/ Mint(sender, amount)
             \/ Transfer(sender, x, amount)
             \/ Escrow(sender, x, amount)
             \/ \E to \in Accounts : Release(sender, x, to, amount)
      PROVE  TokenInv'
  <2>1. amount \in Nat
    BY TokenAssumption
  <2>2. QED
    BY <1>1, <2>1, MintInv, TransferInv, EscrowInv, ReleaseInv
<1>2. CASE UNCHANGED tokenVars
  BY <1>2 DEF tokenVars, TokenInv, TokenTypeOK, SupplyAddsUp, EscrowsAreBacked, EscrowedTotal
<1>3. QED
  BY <1>1, <1>2 DEF TokenNext

\* No escrow is promised what its owner no longer has, whoever releases what.
THEOREM TokenBacked == TokenSpec => []EscrowsAreBacked
<1>1. TokenInit => TokenInv
  BY TokenInitInv
<1>2. TokenInv /\ [TokenNext]_tokenVars => TokenInv'
  BY TokenStepInv
<1>3. TokenInv => EscrowsAreBacked
  BY DEF TokenInv
<1>4. QED
  BY <1>1, <1>2, <1>3, PTL DEF TokenSpec

\* No token is created or lost but by minting (transfer, release, _debit_free).
THEOREM TokenConserved == TokenSpec => [](TokenTypeOK /\ SupplyAddsUp)
<1>1. TokenInit => TokenInv
  BY TokenInitInv
<1>2. TokenInv /\ [TokenNext]_tokenVars => TokenInv'
  BY TokenStepInv
<1>3. TokenInv => TokenTypeOK /\ SupplyAddsUp
  BY DEF TokenInv
<1>4. QED
  BY <1>1, <1>2, <1>3, PTL DEF TokenSpec
-----------------------------------------------------------------------------
\* The refinement: every operation of the token is one of the pots'.

\* What each step leaves of an owner's free part, as a number.
LEMMA FreeIsInt ==
    ASSUME TokenInv, NEW o \in Accounts
    PROVE  Free(o) \in Int /\ balances[o] \in Int /\ EscrowedTotal(o) \in Int
BY EscrowedIsNat, TokenAssumption DEF Free, Amount

LEMMA MintIsMint ==
    ASSUME TokenInv, NEW sender \in Accounts, NEW amount \in 1..Supply, Mint(sender, amount)
    PROVE  Pots!Mint(sender, amount)
<1>1. balances' = [balances EXCEPT ![sender] = balances[sender] + amount] /\ escrows' = escrows
      /\ total_supply' = total_supply + amount /\ amount <= MintLimit
  BY DEF Mint
<1>2. balances \in [Accounts -> Amount] /\ amount \in Int
  BY DEF TokenInv, TokenTypeOK, Amount
<1>3. ASSUME NEW o \in Accounts
      PROVE  (Free(o))' = IF o = sender THEN Free(o) + amount ELSE Free(o)
  BY <1>1, <1>2, FreeIsInt DEF Free, EscrowedTotal
<1>4. [o \in Accounts |-> Free(o)]' = [[o \in Accounts |-> Free(o)] EXCEPT ![sender] = @ + amount]
  BY <1>3
<1>5. QED
  BY <1>1, <1>4 DEF Pots!Mint

\* How a move of tokens between two owners shows in both balances.
LEMMA MovedShows ==
    ASSUME TokenInv, NEW owner \in Accounts, NEW to \in Accounts, NEW amount \in Int,
           NEW o \in Accounts
    PROVE  Moved(owner, to, amount)[o] =
               balances[o] - (IF o = owner THEN amount ELSE 0) + (IF o = to THEN amount ELSE 0)
<1>1. balances \in [Accounts -> Amount] /\ \A x \in Accounts : balances[x] \in Int
  BY FreeIsInt DEF TokenInv, TokenTypeOK, Amount
<1> DEFINE d == Debited(owner, amount)
<1>2. d \in [Accounts -> Int] /\ d[o] = (IF o = owner THEN balances[o] - amount ELSE balances[o])
      /\ d[to] = (IF to = owner THEN balances[to] - amount ELSE balances[to])
  BY <1>1 DEF Debited
<1> HIDE DEF d
<1>3. Moved(owner, to, amount) = [d EXCEPT ![to] = d[to] + amount]
  BY DEF Moved, d
<1>4. Moved(owner, to, amount)[o] = IF o = to THEN d[o] + amount ELSE d[o]
  BY <1>2, <1>3
<1>5. QED
  BY <1>1, <1>2, <1>4

LEMMA TransferIsGive ==
    ASSUME TokenInv, NEW sender \in Accounts, NEW to \in Accounts, NEW amount \in 1..Supply,
           Transfer(sender, to, amount)
    PROVE  Pots!Give(sender, to, amount)
<1>1. balances' = Moved(sender, to, amount) /\ escrows' = escrows /\ total_supply' = total_supply
      /\ amount <= Free(sender) /\ amount \in Int
  BY DEF Transfer
<1>2. ASSUME NEW o \in Accounts
      PROVE  (Free(o))' = Free(o) - (IF o = sender THEN amount ELSE 0) + (IF o = to THEN amount ELSE 0)
  <2>1. balances'[o] = balances[o] - (IF o = sender THEN amount ELSE 0)
                                   + (IF o = to THEN amount ELSE 0)
    BY <1>1, MovedShows
  <2>2. (Free(o))' = balances'[o] - EscrowedTotal(o)
    BY <1>1 DEF Free, EscrowedTotal
  <2>3. QED
    BY <1>1, <2>1, <2>2, FreeIsInt DEF Free
<1> DEFINE F == [o \in Accounts |-> Free(o)]
<1>3. [o \in Accounts |-> Free(o)]' = [[F EXCEPT ![sender] = @ - amount] EXCEPT ![to] = @ + amount]
  BY <1>1, <1>2, FreeIsInt
<1>4. QED
  BY <1>1, <1>3 DEF Pots!Give

LEMMA EscrowIsPledge ==
    ASSUME TokenInv, NEW sender \in Accounts, NEW custodian \in Accounts,
           NEW amount \in 1..Supply, Escrow(sender, custodian, amount)
    PROVE  Pots!Pledge(sender, custodian, amount)
<1>1. escrows \in [Accounts -> [Accounts -> Amount]]
      /\ balances' = balances /\ total_supply' = total_supply
      /\ EscrowedTotal(sender) + amount <= balances[sender] /\ amount \in Nat
  BY TokenAssumption DEF TokenInv, TokenTypeOK, Escrow, Amount
<1>2. amount <= Free(sender)
  BY <1>1, FreeIsInt DEF Free
<1>3. escrows' = [escrows EXCEPT ![sender][custodian] = @ + amount]
  BY <1>1 DEF Escrow
<1>4. EscrowedTotal(sender) \in Int /\ balances[sender] \in Amount
      /\ escrows[sender][custodian] \in Nat /\ escrows[sender][custodian] <= EscrowedTotal(sender)
  BY <1>1, EscrowedIsNat, TotalCoversMembers DEF EscrowedTotal
<1>5. PICK v \in Amount : v = escrows[sender][custodian] + amount
  BY <1>1, <1>4, TokenAssumption DEF Amount
<1>6. escrows' = [escrows EXCEPT ![sender] = [escrows[sender] EXCEPT ![custodian] = v]]
  BY <1>1, <1>5 DEF Escrow
<1>7. Total(escrows'[sender], Accounts) = EscrowedTotal(sender) - escrows[sender][custodian] + v
      /\ \A x \in Accounts \ {sender} : escrows'[x] = escrows[x]
  BY <1>6, EscrowReplaced
<1>8. ASSUME NEW o \in Accounts
      PROVE  (Free(o))' = IF o = sender THEN Free(o) - amount ELSE Free(o)
  BY <1>1, <1>4, <1>5, <1>7, FreeIsInt DEF Free, EscrowedTotal
<1>9. [o \in Accounts |-> Free(o)]' = [[o \in Accounts |-> Free(o)] EXCEPT ![sender] = @ - amount]
  BY <1>8
<1>10. QED
  BY <1>1, <1>2, <1>3, <1>9 DEF Pots!Pledge

LEMMA ReleaseIsAward ==
    ASSUME TokenInv, NEW custodian \in Accounts, NEW owner \in Accounts, NEW to \in Accounts,
           NEW amount \in 1..Supply, Release(custodian, owner, to, amount)
    PROVE  Pots!Award(owner, custodian, to, amount)
<1>1. escrows \in [Accounts -> [Accounts -> Amount]]
      /\ balances' = Moved(owner, to, amount) /\ total_supply' = total_supply
      /\ amount <= escrows[owner][custodian] /\ amount \in Nat
  BY TokenAssumption DEF TokenInv, TokenTypeOK, Release, Releasable, Amount
<1>2. escrows' = [escrows EXCEPT ![owner][custodian] = @ - amount]
  BY <1>1 DEF Release
<1>3. EscrowedTotal(owner) \in Int /\ escrows[owner][custodian] \in Amount
  BY <1>1, EscrowedIsNat
<1>4. PICK v \in Amount : v = escrows[owner][custodian] - amount
  BY <1>1, <1>3, TokenAssumption DEF Amount
<1>5. escrows' = [escrows EXCEPT ![owner] = [escrows[owner] EXCEPT ![custodian] = v]]
  BY <1>1, <1>4 DEF Release
<1>6. Total(escrows'[owner], Accounts) = EscrowedTotal(owner) - escrows[owner][custodian] + v
      /\ \A x \in Accounts \ {owner} : escrows'[x] = escrows[x]
  BY <1>5, EscrowReplaced
<1>7. ASSUME NEW o \in Accounts
      PROVE  (Free(o))' = IF o = to THEN Free(o) + amount ELSE Free(o)
  <2>1. balances'[o] = balances[o] - (IF o = owner THEN amount ELSE 0)
                                   + (IF o = to THEN amount ELSE 0)
    BY <1>1, MovedShows
  <2>2. Total(escrows'[o], Accounts) = EscrowedTotal(o) - (IF o = owner THEN amount ELSE 0)
    BY <1>3, <1>4, <1>6, FreeIsInt, TokenAssumption DEF Amount, EscrowedTotal
  <2>3. QED
    BY <1>1, <2>1, <2>2, FreeIsInt DEF Free, EscrowedTotal
<1>8. [o \in Accounts |-> Free(o)]' = [[o \in Accounts |-> Free(o)] EXCEPT ![to] = @ + amount]
  BY <1>7
<1>9. QED
  BY <1>1, <1>2, <1>8 DEF Pots!Award

\* Every operation of the token moves the pots as TokenPots allows, or not at
\* all: what an owner escrows, its custodian alone moves from then on.
THEOREM TokenImplementsPots == TokenSpec => ImplementsPots
<1> DEFINE potVars == <<[o \in Accounts |-> Free(o)], escrows, total_supply>>
<1>1. TokenInit => TokenInv /\ Pots!Init
  <2> SUFFICES ASSUME TokenInit PROVE TokenInv /\ Pots!Init
    OBVIOUS
  <2>1. \A o \in Accounts : Free(o) = 0
    BY TotalOfZero DEF TokenInit, Free, EscrowedTotal
  <2>2. QED
    BY <2>1, TokenInitInv DEF TokenInit, Pots!Init
<1>2. TokenInv /\ [TokenNext]_tokenVars => TokenInv'
  BY TokenStepInv
<1>3. TokenInv /\ [TokenNext]_tokenVars => [Pots!Next]_potVars
  <2>1. ASSUME TokenInv, NEW sender \in Accounts, NEW x \in Accounts, NEW amount \in 1..Supply,
               \/ Mint(sender, amount)
               \/ Transfer(sender, x, amount)
               \/ Escrow(sender, x, amount)
               \/ \E to \in Accounts : Release(sender, x, to, amount)
        PROVE  Pots!Next
    <3>1. CASE Mint(sender, amount)
      BY <2>1, <3>1, MintIsMint DEF Pots!Next
    <3>2. CASE Transfer(sender, x, amount)
      BY <2>1, <3>2, TransferIsGive DEF Pots!Next
    <3>3. CASE Escrow(sender, x, amount)
      BY <2>1, <3>3, EscrowIsPledge DEF Pots!Next
    <3>4. CASE \E to \in Accounts : Release(sender, x, to, amount)
      BY <2>1, <3>4, ReleaseIsAward DEF Pots!Next
    <3>5. QED
      BY <2>1, <3>1, <3>2, <3>3, <3>4
  <2>2. ASSUME UNCHANGED tokenVars PROVE UNCHANGED potVars
    BY <2>2 DEF tokenVars, Free, EscrowedTotal
  <2>3. QED
    BY <2>1, <2>2 DEF TokenNext
<1>4. QED
  BY <1>1, <1>2, <1>3, PTL DEF TokenSpec, ImplementsPots, Pots!Spec

-----------------------------------------------------------------------------
\* The judge.

\* What a slug contributes to its depositor's commitments.
Share(a) == [s \in Slugs |-> IF deposit_owner[s] = a THEN deposit_amount[s] ELSE 0]

\* Each party has committed at least what its slugs advertise.
Covered == \A a \in Parties : Total(Share(a), Slugs) <= deposit_committed[a]

\* A pending withdrawal is stamped with the bucket of the time it was asked
\* for, and nothing has funded the slug since.
StampLags ==
    \A s \in Slugs : withdrawal_requested_at[s] # 0 =>
        withdrawal_requested_at[s] = Bucketed(stakedAt[s])

JudgeInv == TokenInv /\ TypeOK /\ BooksAgree /\ StampLags /\ Covered

Outcomes == Judgments \cup {"CANCELLED"}

-----------------------------------------------------------------------------
\* The helpers.

\* A bucketed time is at most the time, and lags by less than one bucket.
LEMMA BucketedLags ==
    ASSUME NEW t \in Nat
    PROVE  Bucketed(t) \in Nat /\ Bucketed(t) <= t /\ t < Bucketed(t) + ClockBucket
<1>1. ClockBucket \in Nat /\ ClockBucket > 0
  BY JudgeAssumption
<1>2. t % ClockBucket \in 0..(ClockBucket - 1) /\ t % ClockBucket <= t
  BY <1>1
<1>3. QED
  BY <1>1, <1>2 DEF Bucketed

LEMMA EscrowOfIsNat ==
    ASSUME TypeOK, NEW a \in Parties \cup {Nobody}
    PROVE  EscrowOf(a) \in Nat
<1>1. Judge \in Accounts /\ (a # Nobody => a \in Accounts)
  BY JudgeAssumption
<1>2. QED
  BY <1>1, TokenAssumption DEF TypeOK, TokenTypeOK, EscrowOf

\* Keys is finite, so the claims of a slug or of a party can be counted.
LEMMA OpenIsFinite ==
    /\ \A s \in Slugs : IsFiniteSet(OpenOn(s)) /\ Cardinality(OpenOn(s)) \in Nat
    /\ \A a \in Parties : IsFiniteSet(OpenBy(a)) /\ Cardinality(OpenBy(a)) \in Nat
<1>1. IsFiniteSet(Keys)
  BY JudgeAssumption, FS_Product DEF Keys
<1>2. ASSUME NEW s \in Slugs PROVE OpenOn(s) \subseteq Keys
  BY DEF OpenOn
<1>3. ASSUME NEW a \in Parties PROVE OpenBy(a) \subseteq Keys
  BY DEF OpenBy
<1>4. QED
  BY <1>1, <1>2, <1>3, FS_Subset, FS_CardinalityType

\* What is emitted is added to what is in flight.
LEMMA EmitType ==
    ASSUME inFlight \in [Releases -> Nat], NEW n \in Nat, NEW out, DOMAIN out = 1..n, Emit(out)
    PROVE  inFlight' \in [Releases -> Nat]
<1>1. ASSUME NEW x \in Releases
      PROVE  Cardinality({i \in DOMAIN out : out[i] = x}) \in Nat
  <2>1. IsFiniteSet(DOMAIN out)
    BY FS_Interval
  <2>2. IsFiniteSet({i \in DOMAIN out : out[i] = x})
    BY <2>1, FS_Subset
  <2>3. QED
    BY <2>2, FS_CardinalityType
<1>2. QED
  BY <1>1 DEF Emit

\* A settlement pays out of the deposit no more than the slug's share of what
\* is there, and out of the bond no more than what is left of it.
LEMMA PlanBounds ==
    ASSUME TypeOK, NEW k \in Keys, Open(k), NEW outcome \in Outcomes
    PROVE  /\ SlugOfClaim(k) \in Slugs /\ claims[k] \in Claim
           /\ DepositAvailable(SlugOfClaim(k)) \in Nat
           /\ DepositAvailable(SlugOfClaim(k)) <= deposit_amount[SlugOfClaim(k)]
           /\ DepositAvailable(SlugOfClaim(k)) <= EscrowOf(deposit_owner[SlugOfClaim(k)])
           /\ Plan(k, outcome).compensation \in Nat /\ Plan(k, outcome).bounty \in Nat
           /\ Plan(k, outcome).from_provider \in Nat
           /\ Plan(k, outcome).from_provider <= DepositAvailable(SlugOfClaim(k))
<1>1. k[1] \in Requests /\ SlugOfClaim(k) \in Slugs /\ PaidAmount[k[1]] \in Nat
  BY JudgeAssumption DEF Keys, SlugOfClaim
<1>2. claims[k] \in Claim
  BY DEF TypeOK, Open, NoClaim
<1>3. BondAvailable(k) \in Nat
  <2>1. claims[k].claimant \in Parties /\ claims[k].bond \in Nat
    BY <1>2, JudgeAssumption DEF Claim
  <2>2. EscrowOf(claims[k].claimant) \in Nat
    BY <2>1, EscrowOfIsNat
  <2>3. QED
    BY <2>1, <2>2 DEF BondAvailable, Least
<1>4. /\ DepositAvailable(SlugOfClaim(k)) \in Nat
      /\ DepositAvailable(SlugOfClaim(k)) <= deposit_amount[SlugOfClaim(k)]
      /\ DepositAvailable(SlugOfClaim(k)) <= EscrowOf(deposit_owner[SlugOfClaim(k)])
  <2>1. deposit_owner[SlugOfClaim(k)] \in Parties \cup {Nobody}
        /\ deposit_amount[SlugOfClaim(k)] \in Nat
    BY <1>1 DEF TypeOK
  <2>2. EscrowOf(deposit_owner[SlugOfClaim(k)]) \in Nat
    BY <2>1, EscrowOfIsNat
  <2>3. QED
    BY <2>1, <2>2 DEF DepositAvailable, Least
<1>5. PICK paid \in Nat, deposit \in Nat, bond \in Nat :
          paid = PaidAmount[k[1]] /\ deposit = DepositAvailable(SlugOfClaim(k)) /\ bond = BondAvailable(k)
  BY <1>1, <1>3, <1>4
<1>6. BountyAmount \in Nat
  BY JudgeAssumption
<1>7. LET plan == SettlementFor(outcome, paid, deposit, bond)
      IN  plan.compensation \in Nat /\ plan.bounty \in Nat
          /\ plan.from_provider \in Nat /\ plan.from_provider <= deposit
  <2>1. CASE outcome = "BREACH"
    BY <1>6, <2>1 DEF SettlementFor, Least
  <2>2. CASE outcome = "MET"
    BY <1>6, <2>2 DEF SettlementFor, Least
  <2>3. CASE outcome \notin {"BREACH", "MET"}
    BY <1>6, <2>3 DEF SettlementFor, Least
  <2>4. QED
    BY <2>1, <2>2, <2>3
<1>8. QED
  BY <1>1, <1>2, <1>4, <1>5, <1>7 DEF Plan
-----------------------------------------------------------------------------
\* Every step uses the token as the token allows.

LEMMA TokenStep == [Next]_vars => [TokenNext]_tokenVars
<1> SUFFICES ASSUME [Next]_vars PROVE [TokenNext]_tokenVars
  OBVIOUS
<1>0. Parties \subseteq Accounts /\ Judge \in Accounts /\ Custodians \subseteq Accounts
      /\ Amounts \subseteq 1..Supply /\ Transferred \subseteq 1..Supply
  BY JudgeAssumption
<1>1. CASE DepositStep
  BY <1>1 DEF DepositStep, FundDeposit, RequestWithdrawal, CancelWithdrawal, WithdrawDeposit, tokenVars
<1>2. CASE ClaimStep
  <2>1. ASSUME NEW a \in Parties, NEW k \in Keys, NEW s \in Slugs, SubmitClaim(a, k[1], k[2], s)
        PROVE  UNCHANGED tokenVars
    BY <2>1 DEF SubmitClaim
  <2>2. ASSUME NEW a \in Parties, NEW k \in Keys, NEW outcome, Settle(k, outcome, a)
        PROVE  UNCHANGED tokenVars
    BY <2>2 DEF Settle
  <2>3. ASSUME NEW a \in Parties, NEW k \in Keys, ResolveClaim(a, k)
        PROVE  UNCHANGED tokenVars
    BY <2>2, <2>3 DEF ResolveClaim
  <2>4. ASSUME NEW a \in Parties, NEW k \in Keys, CancelClaim(a, k)
        PROVE  UNCHANGED tokenVars
    BY <2>2, <2>4 DEF CancelClaim
  <2>5. QED
    BY <1>2, <2>1, <2>3, <2>4 DEF ClaimStep
<1>3. ASSUME NEW x \in Releases, DeliverRelease(x) PROVE [TokenNext]_tokenVars
  <2>1. x[1] \in Accounts /\ x[2] \in Accounts /\ x[3] \in 1..Supply
    BY <1>0 DEF Releases
  <2>2. CASE Release(Judge, x[1], x[2], x[3])
    BY <1>0, <2>1, <2>2 DEF TokenNext
  <2>3. QED
    BY <1>3, <2>2 DEF DeliverRelease, tokenVars
<1>4. ASSUME NEW a \in Parties, UseToken(a) PROVE TokenNext
  <2>1. CASE \E v \in Amounts : Mint(a, v)
    BY <1>0, <2>1 DEF TokenNext
  <2>2. CASE \E v \in Amounts, c \in Custodians : Escrow(a, c, v)
    BY <1>0, <2>2 DEF TokenNext
  <2>3. CASE \E v \in Transferred, b \in Parties : Transfer(a, b, v)
    BY <1>0, <2>3 DEF TokenNext
  <2>4. CASE \E v \in Transferred, o, b \in Parties : Release(a, o, b, v)
    BY <1>0, <2>4 DEF TokenNext
  <2>5. QED
    BY <1>4, <2>1, <2>2, <2>3, <2>4 DEF UseToken
<1>5. CASE Tick \/ \E r \in Requests : WriteVerdict(r)
  BY <1>5 DEF Tick, WriteVerdict, tokenVars
<1>6. CASE UNCHANGED vars
  BY <1>6 DEF vars, tokenVars
<1>7. QED
  BY <1>1, <1>2, <1>3, <1>4, <1>5, <1>6 DEF Next

-----------------------------------------------------------------------------
\* What each operation keeps.

\* Deposits of every owner are covered after one slug's deposit changed, if
\* its owner's commitment moved with it.
LEMMA CoveredAfter ==
    ASSUME TypeOK, Covered, NEW slug \in Slugs, NEW owner \in Parties, NEW v \in Nat,
           deposit_owner'[slug] = owner, deposit_amount'[slug] = v,
           \A s \in Slugs \ {slug} : deposit_owner'[s] = deposit_owner[s]
                                      /\ deposit_amount'[s] = deposit_amount[s],
           deposit_owner[slug] = owner \/ deposit_owner[slug] = Nobody \/ deposit_amount[slug] = 0,
           \A a \in Parties \ {owner} : deposit_committed'[a] = deposit_committed[a],
           deposit_committed'[owner] >= deposit_committed[owner] - Share(owner)[slug] + v,
           deposit_committed'[owner] \in Nat
    PROVE  Covered'
<1>0. deposit_owner \in [Slugs -> Parties \cup {Nobody}] /\ deposit_amount \in [Slugs -> Nat]
      /\ deposit_committed \in [Parties -> Nat] /\ Nobody \notin Parties
  BY JudgeAssumption DEF TypeOK
<1>1. IsFiniteSet(Slugs)
  BY JudgeAssumption
<1>2. ASSUME NEW a \in Parties, a # owner
      PROVE  Total(Share(a)', Slugs) <= deposit_committed'[a]
  <2>1. Share(a)' = Share(a)
    BY <1>0, <1>2 DEF Share
  <2>2. QED
    BY <1>2, <2>1 DEF Covered
<1>3. Total(Share(owner)', Slugs) <= deposit_committed'[owner]
  <2>1. PICK f, g : f = Share(owner) /\ g = Share(owner)'
    OBVIOUS
  <2>2. Amounted(f, Slugs) /\ Amounted(g, Slugs) /\ g[slug] = v
        /\ \A s \in Slugs \ {slug} : g[s] = f[s]
    BY <1>0, <2>1 DEF Share, Amounted
  <2>3. Total(g, Slugs) = Total(f, Slugs) - f[slug] + g[slug]
    BY <1>1, <2>2, TotalChanges
  <2>4. Total(f, Slugs) \in Nat /\ f[slug] \in Nat
    BY <1>1, <2>2, TotalCovers
  <2>5. Total(f, Slugs) <= deposit_committed[owner] /\ f[slug] = Share(owner)[slug]
    BY <2>1 DEF Covered
  <2>6. Total(g, Slugs) <= deposit_committed'[owner]
    BY <1>0, <2>2, <2>3, <2>4, <2>5
  <2>7. QED
    BY <2>1, <2>6
<1>4. QED
  BY <1>2, <1>3 DEF Covered

\* A party's commitment covers each of its slugs.
LEMMA ShareIsCommitted ==
    ASSUME TypeOK, Covered, NEW a \in Parties, NEW slug \in Slugs
    PROVE  Share(a)[slug] \in Nat /\ Share(a)[slug] <= deposit_committed[a]
           /\ deposit_committed[a] \in Nat
<1>1. PICK f : f = Share(a)
  OBVIOUS
<1>2. IsFiniteSet(Slugs) /\ Amounted(f, Slugs) /\ deposit_committed[a] \in Nat
  BY <1>1, JudgeAssumption DEF TypeOK, Share, Amounted
<1>3. Total(f, Slugs) \in Nat /\ f[slug] \in Nat /\ f[slug] <= Total(f, Slugs)
  BY <1>2, TotalCovers
<1>4. QED
  BY <1>1, <1>2, <1>3 DEF Covered

\* The books on claims depend on nothing but the claims.
LEMMA BooksKept ==
    ASSUME BooksAgree, UNCHANGED claimVars
    PROVE  BooksAgree'
<1>1. \A s \in Slugs : OpenOn(s)' = OpenOn(s)
  BY DEF claimVars, OpenOn, Open, SlugOfClaim
<1>2. \A a \in Parties : OpenBy(a)' = OpenBy(a)
  BY DEF claimVars, OpenBy, Open
<1>3. QED
  BY <1>1, <1>2 DEF BooksAgree, claimVars

LEMMA FundDepositInv ==
    ASSUME JudgeInv, TokenInv', NEW sender \in Parties, NEW slug \in Slugs,
           FundDeposit(sender, slug)
    PROVE  JudgeInv'
<1>1. Share(sender)[slug] \in Nat /\ Share(sender)[slug] <= deposit_committed[sender]
      /\ deposit_committed[sender] \in Nat
  BY ShareIsCommitted DEF JudgeInv
<1>2. CommittedElsewhere(sender, slug) = deposit_committed[sender] - Share(sender)[slug]
  BY <1>1 DEF CommittedElsewhere, Share
<1>3. CommittedElsewhere(sender, slug) \in Nat
  BY <1>1, <1>2
<1>4. Allocatable(sender, slug) \in Nat
  <2>1. EscrowOf(sender) \in Nat /\ bonded[sender] \in Nat
    BY EscrowOfIsNat DEF JudgeInv, TypeOK
  <2>2. Allocatable(sender, slug) > 0
    BY DEF FundDeposit
  <2>3. QED
    BY <1>3, <2>1, <2>2 DEF Allocatable, AvailableEscrow
<1>5. TypeOK'
  <2>1. deposit_owner' \in [Slugs -> Parties \cup {Nobody}]
        /\ deposit_amount' \in [Slugs -> Nat] /\ deposit_committed' \in [Parties -> Nat]
    BY <1>3, <1>4 DEF JudgeInv, TypeOK, FundDeposit
  <2>2. withdrawal_requested_at' \in [Slugs -> 0..MaxTime] /\ stakedAt' \in [Slugs -> 0..MaxTime]
        /\ recommitted' \subseteq Parties
    BY JudgeAssumption DEF JudgeInv, TypeOK, FundDeposit, Recommit
  <2>3. QED
    BY <2>1, <2>2 DEF JudgeInv, TypeOK, FundDeposit, TokenTypeOK, tokenVars, claimVars, arcVars
<1>6. BooksAgree'
  BY BooksKept DEF JudgeInv, FundDeposit
<1>7. StampLags'
  BY DEF JudgeInv, TypeOK, StampLags, FundDeposit, Bucketed
<1>8. Covered'
  <2>1. deposit_committed' =
            [deposit_committed EXCEPT ![sender] = CommittedElsewhere(sender, slug) + Allocatable(sender, slug)]
        /\ deposit_committed \in [Parties -> Nat]
    BY DEF FundDeposit, JudgeInv, TypeOK
  <2>2. deposit_committed'[sender] = deposit_committed[sender] - Share(sender)[slug] + Allocatable(sender, slug)
        /\ deposit_committed'[sender] \in Nat
        /\ \A a \in Parties \ {sender} : deposit_committed'[a] = deposit_committed[a]
    BY <1>2, <1>3, <1>4, <2>1
  <2>3. /\ deposit_owner'[slug] = sender /\ deposit_amount'[slug] = Allocatable(sender, slug)
        /\ \A s \in Slugs \ {slug} : deposit_owner'[s] = deposit_owner[s]
                                    /\ deposit_amount'[s] = deposit_amount[s]
        /\ deposit_owner[slug] = sender \/ deposit_owner[slug] = Nobody \/ deposit_amount[slug] = 0
    BY DEF FundDeposit, Bindable, JudgeInv, TypeOK
  <2>4. PICK v \in Nat : v = Allocatable(sender, slug)
    BY <1>4
  <2>5. deposit_committed'[sender] >= deposit_committed[sender] - Share(sender)[slug] + v
    BY <1>1, <2>2, <2>4
  <2>6. QED
    BY <2>2, <2>3, <2>4, <2>5, CoveredAfter DEF JudgeInv
<1>9. QED
  BY <1>5, <1>6, <1>7, <1>8 DEF JudgeInv

LEMMA RequestWithdrawalInv ==
    ASSUME JudgeInv, TokenInv', NEW sender \in Parties, NEW slug \in Slugs,
           RequestWithdrawal(sender, slug)
    PROVE  JudgeInv'
<1>1. now \in Nat /\ now <= MaxTime /\ MaxTime \in Nat
  BY JudgeAssumption DEF JudgeInv, TypeOK
<1>2. Bucketed(now) \in 0..MaxTime
  BY <1>1, BucketedLags
<1>3. TypeOK'
  <2>1. withdrawal_requested_at' \in [Slugs -> 0..MaxTime] /\ stakedAt' \in [Slugs -> 0..MaxTime]
    BY <1>2 DEF JudgeInv, TypeOK, RequestWithdrawal
  <2>2. QED
    BY <2>1 DEF JudgeInv, TypeOK, RequestWithdrawal, TokenTypeOK, tokenVars, claimVars, arcVars
<1>4. BooksAgree'
  BY BooksKept DEF JudgeInv, RequestWithdrawal
<1>5. StampLags'
  BY DEF JudgeInv, TypeOK, StampLags, RequestWithdrawal, Bucketed
<1>6. Covered'
  BY DEF JudgeInv, Covered, Share, RequestWithdrawal
<1>7. QED
  BY <1>3, <1>4, <1>5, <1>6 DEF JudgeInv

LEMMA CancelWithdrawalInv ==
    ASSUME JudgeInv, TokenInv', NEW sender \in Parties, NEW slug \in Slugs,
           CancelWithdrawal(sender, slug)
    PROVE  JudgeInv'
<1>1. TypeOK'
  <2>1. withdrawal_requested_at' \in [Slugs -> 0..MaxTime]
    BY JudgeAssumption DEF JudgeInv, TypeOK, CancelWithdrawal
  <2>2. QED
    BY <2>1 DEF JudgeInv, TypeOK, CancelWithdrawal, TokenTypeOK, tokenVars, claimVars, arcVars, history
<1>2. BooksAgree'
  BY BooksKept DEF JudgeInv, CancelWithdrawal
<1>3. StampLags'
  BY DEF JudgeInv, TypeOK, StampLags, CancelWithdrawal, Bucketed, history
<1>4. Covered'
  BY DEF JudgeInv, Covered, Share, CancelWithdrawal
<1>5. QED
  BY <1>1, <1>2, <1>3, <1>4 DEF JudgeInv

LEMMA WithdrawDepositInv ==
    ASSUME JudgeInv, TokenInv', NEW sender \in Parties, NEW slug \in Slugs,
           WithdrawDeposit(sender, slug)
    PROVE  JudgeInv'
<1>1. Share(sender)[slug] \in Nat /\ Share(sender)[slug] <= deposit_committed[sender]
      /\ deposit_committed[sender] \in Nat
  BY ShareIsCommitted DEF JudgeInv
<1>2. Share(sender)[slug] = deposit_amount[slug] /\ deposit_owner[slug] = sender
  BY DEF WithdrawDeposit, Share
<1>3. deposit_committed' = [deposit_committed EXCEPT ![sender] = deposit_committed[sender] - Share(sender)[slug]]
  BY <1>1, <1>2 DEF WithdrawDeposit, Least
<1>4. TypeOK'
  <2>1. deposit_amount' \in [Slugs -> Nat] /\ deposit_committed' \in [Parties -> Nat]
        /\ withdrawal_requested_at' \in [Slugs -> 0..MaxTime]
    BY <1>1, <1>3, JudgeAssumption DEF JudgeInv, TypeOK, WithdrawDeposit
  <2>2. inFlight' \in [Releases -> Nat]
    <3>1. Emit(<< <<sender, sender, deposit_amount[slug]>> >>)
      BY DEF WithdrawDeposit
    <3>2. DOMAIN << <<sender, sender, deposit_amount[slug]>> >> = 1..1
      OBVIOUS
    <3>3. QED
      BY <3>1, <3>2, EmitType DEF JudgeInv, TypeOK
  <2>3. QED
    BY <2>1, <2>2 DEF JudgeInv, TypeOK, WithdrawDeposit, TokenTypeOK, tokenVars, claimVars, arcVars, history
<1>5. BooksAgree'
  BY BooksKept DEF JudgeInv, WithdrawDeposit
<1>6. StampLags'
  BY DEF JudgeInv, TypeOK, StampLags, WithdrawDeposit, Bucketed, history
<1>7. Covered'
  <2>1. deposit_committed'[sender] = deposit_committed[sender] - Share(sender)[slug] + 0
        /\ deposit_committed'[sender] \in Nat
        /\ \A a \in Parties \ {sender} : deposit_committed'[a] = deposit_committed[a]
    BY <1>1, <1>3 DEF JudgeInv, TypeOK
  <2>2. /\ deposit_owner'[slug] = sender /\ deposit_amount'[slug] = 0
        /\ \A s \in Slugs \ {slug} : deposit_owner'[s] = deposit_owner[s]
                                    /\ deposit_amount'[s] = deposit_amount[s]
    BY <1>2 DEF WithdrawDeposit, JudgeInv, TypeOK
  <2>3. deposit_committed'[sender] >= deposit_committed[sender] - Share(sender)[slug] + 0
    BY <1>1, <2>1
  <2>4. QED
    BY <1>2, <2>1, <2>2, <2>3, CoveredAfter DEF JudgeInv
<1>8. QED
  BY <1>4, <1>5, <1>6, <1>7 DEF JudgeInv
\* A claim that is filed is counted once, on its slug and for its claimant.
LEMMA SubmitClaimInv ==
    ASSUME JudgeInv, TokenInv', NEW claimant \in Parties, NEW k \in Keys, NEW slug \in Slugs,
           SubmitClaim(claimant, k[1], k[2], slug)
    PROVE  JudgeInv'
<1>1. k = <<k[1], k[2]>> /\ k[1] \in Requests /\ BondAmount \in Nat
  BY JudgeAssumption DEF Keys
<1>2. /\ claims[k] = NoClaim /\ SlugOfClaim(k) = slug
      /\ claims' = [claims EXCEPT ![k] = Filed(k[1], claimant)]
      /\ bonded' = [bonded EXCEPT ![claimant] = @ + BondAmount]
      /\ open_claims' = [open_claims EXCEPT ![slug] = @ + 1]
  BY <1>1 DEF SubmitClaim, Fileable, Eligible, WithinFilingWindow, SlugOfClaim
<1>3. Filed(k[1], claimant) \in Claim
  <2>1. now \in Nat /\ now <= MaxTime /\ MaxTime \in Nat
    BY JudgeAssumption DEF JudgeInv, TypeOK
  <2>2. Bucketed(now) \in 0..MaxTime
    BY <2>1, BucketedLags
  <2>3. QED
    BY <2>2 DEF Filed, Claim
<1>4. TypeOK'
  <2>1. claims' \in [Keys -> Claim \cup {NoClaim}]
    BY <1>2, <1>3 DEF JudgeInv, TypeOK
  <2>2. bonded' \in [Parties -> Nat] /\ open_claims' \in [Slugs -> Nat]
        /\ recommitted' \subseteq Parties
    BY <1>1, <1>2 DEF JudgeInv, TypeOK, SubmitClaim, Recommit
  <2>3. QED
    BY <2>1, <2>2 DEF JudgeInv, TypeOK, SubmitClaim, TokenTypeOK, tokenVars, depositVars, arcVars
<1>5. BooksAgree'
  <2>1. claims \in [Keys -> Claim \cup {NoClaim}] /\ open_claims \in [Slugs -> Nat]
        /\ bonded \in [Parties -> Nat]
    BY DEF JudgeInv, TypeOK
  <2>2. /\ Open(k)' /\ ~Open(k) /\ claims'[k].claimant = claimant
        /\ \A x \in Keys \ {k} : claims'[x] = claims[x]
    BY <1>2, <1>3, <2>1 DEF Open, Filed, NoClaim
  <2>3. ASSUME NEW s \in Slugs PROVE (open_claims[s] = Cardinality(OpenOn(s)))'
    <3>1. CASE s = slug
      <4>1. OpenOn(s)' = OpenOn(s) \cup {k} /\ k \notin OpenOn(s)
        BY <1>2, <2>2, <3>1 DEF OpenOn, Open, SlugOfClaim
      <4>2. Cardinality(OpenOn(s) \cup {k}) = Cardinality(OpenOn(s)) + 1
        BY <4>1, OpenIsFinite, FS_AddElement
      <4>3. open_claims'[s] = open_claims[s] + 1
        BY <1>2, <2>1, <3>1
      <4>4. QED
        BY <4>1, <4>2, <4>3 DEF JudgeInv, BooksAgree
    <3>2. CASE s # slug
      <4>1. OpenOn(s)' = OpenOn(s)
        BY <1>2, <2>2, <3>2 DEF OpenOn, Open, SlugOfClaim
      <4>2. QED
        BY <1>2, <2>1, <3>2, <4>1 DEF JudgeInv, BooksAgree
    <3>3. QED
      BY <3>1, <3>2
  <2>4. ASSUME NEW a \in Parties PROVE (bonded[a] = BondAmount * Cardinality(OpenBy(a)))'
    <3>1. CASE a = claimant
      <4>1. OpenBy(a)' = OpenBy(a) \cup {k} /\ k \notin OpenBy(a)
        BY <2>2, <3>1 DEF OpenBy, Open
      <4>2. Cardinality(OpenBy(a) \cup {k}) = Cardinality(OpenBy(a)) + 1
            /\ Cardinality(OpenBy(a)) \in Nat
        BY <4>1, OpenIsFinite, FS_AddElement
      <4>3. bonded'[a] = bonded[a] + BondAmount
        BY <1>2, <2>1, <3>1
      <4>4. PICK n \in Nat : n = Cardinality(OpenBy(a))
        BY <4>2
      <4>5. BondAmount * (n + 1) = BondAmount * n + BondAmount
        BY <1>1
      <4>6. QED
        BY <4>1, <4>2, <4>3, <4>4, <4>5 DEF JudgeInv, BooksAgree
    <3>2. CASE a # claimant
      <4>1. OpenBy(a)' = OpenBy(a)
        BY <2>2, <3>2 DEF OpenBy, Open
      <4>2. QED
        BY <1>2, <2>1, <3>2, <4>1 DEF JudgeInv, BooksAgree
    <3>3. QED
      BY <3>1, <3>2
  <2>5. QED
    BY <2>3, <2>4 DEF BooksAgree
<1>6. StampLags'
  BY DEF JudgeInv, TypeOK, StampLags, SubmitClaim, Bucketed, depositVars
<1>7. Covered'
  BY DEF JudgeInv, Covered, Share, SubmitClaim, depositVars
<1>8. QED
  BY <1>4, <1>5, <1>6, <1>7 DEF JudgeInv

\* What is booked for a settled claim is part of the plan, so it is a Claim.
LEMMA SettledClaim ==
    ASSUME JudgeInv, NEW k \in Keys, NEW outcome \in Outcomes, NEW resolver \in Parties,
           Open(k), Settle(k, outcome, resolver)
    PROVE  /\ claims'[k] \in Claim /\ claims'[k].outcome = outcome
           /\ claims' \in [Keys -> Claim \cup {NoClaim}]
           /\ \A x \in Keys \ {k} : claims'[x] = claims[x]
<1>1. PICK c \in Nat, b \in Nat : c = Plan(k, outcome).compensation /\ b = Plan(k, outcome).bounty
  BY PlanBounds DEF JudgeInv
<1>2. claims[k] \in Claim /\ claims \in [Keys -> Claim \cup {NoClaim}]
  BY PlanBounds DEF JudgeInv, TypeOK
<1>3. claims' = [claims EXCEPT ![k] =
                   [claims[k] EXCEPT !.outcome = outcome, !.compensation = c, !.bounty = b]]
  BY <1>1 DEF Settle
<1>4. [claims[k] EXCEPT !.outcome = outcome, !.compensation = c, !.bounty = b] \in Claim
  BY <1>2 DEF Claim, Outcomes
<1>5. [claims[k] EXCEPT !.outcome = outcome, !.compensation = c, !.bounty = b].outcome = outcome
  BY <1>2 DEF Claim
<1>6. QED
  BY <1>2, <1>3, <1>4, <1>5

\* A claim that is closed is uncounted once, and neither clamp is reached.
LEMMA SettleBooks ==
    ASSUME JudgeInv, NEW k \in Keys, NEW outcome \in Outcomes, NEW resolver \in Parties,
           Open(k), Settle(k, outcome, resolver)
    PROVE  BooksAgree' /\ open_claims' \in [Slugs -> Nat] /\ bonded' \in [Parties -> Nat]
<1>1. claims[k] \in Claim /\ SlugOfClaim(k) \in Slugs /\ BondAmount \in Nat
  BY PlanBounds, JudgeAssumption DEF JudgeInv
<1>2. PICK slug \in Slugs, who \in Parties : slug = SlugOfClaim(k) /\ who = claims[k].claimant
  BY <1>1 DEF Claim
<1>3. claims[k].bond = BondAmount
  BY <1>1 DEF Claim
<1>4. open_claims \in [Slugs -> Nat] /\ bonded \in [Parties -> Nat]
  BY DEF JudgeInv, TypeOK
<1>5. /\ bonded' = [bonded EXCEPT ![who] = bonded[who] - Least(BondAmount, bonded[who])]
      /\ open_claims' = [open_claims EXCEPT ![slug] = open_claims[slug] - Least(1, open_claims[slug])]
  BY <1>2, <1>3 DEF Settle
<1>6. /\ ~Open(k)' /\ \A x \in Keys \ {k} : claims'[x] = claims[x]
  BY SettledClaim DEF Open, Outcomes, Judgments
<1>7. ASSUME NEW s \in Slugs PROVE (open_claims[s] = Cardinality(OpenOn(s)))' /\ open_claims'[s] \in Nat
  <2>1. CASE s = slug
    <3>1. OpenOn(s)' = OpenOn(s) \ {k} /\ k \in OpenOn(s)
      BY <1>2, <1>6, <2>1 DEF OpenOn, Open, SlugOfClaim
    <3>2. Cardinality(OpenOn(s) \ {k}) = Cardinality(OpenOn(s)) - 1
          /\ Cardinality(OpenOn(s) \ {k}) \in Nat /\ Cardinality(OpenOn(s)) \in Nat
      BY <3>1, OpenIsFinite, FS_RemoveElement, FS_CardinalityType
    <3>3. open_claims[s] = Cardinality(OpenOn(s))
      BY DEF JudgeInv, BooksAgree
    <3>4. open_claims'[s] = open_claims[s] - 1
      BY <1>4, <1>5, <2>1, <3>2, <3>3 DEF Least
    <3>5. QED
      BY <3>1, <3>2, <3>3, <3>4
  <2>2. CASE s # slug
    <3>1. OpenOn(s)' = OpenOn(s)
      BY <1>2, <1>6, <2>2 DEF OpenOn, Open, SlugOfClaim
    <3>2. QED
      BY <1>4, <1>5, <2>2, <3>1 DEF JudgeInv, BooksAgree
  <2>3. QED
    BY <2>1, <2>2
<1>8. ASSUME NEW a \in Parties
      PROVE  (bonded[a] = BondAmount * Cardinality(OpenBy(a)))' /\ bonded'[a] \in Nat
  <2>1. CASE a = who
    <3>1. OpenBy(a)' = OpenBy(a) \ {k} /\ k \in OpenBy(a)
      BY <1>2, <1>6, <2>1 DEF OpenBy, Open
    <3>2. Cardinality(OpenBy(a) \ {k}) = Cardinality(OpenBy(a)) - 1
          /\ Cardinality(OpenBy(a) \ {k}) \in Nat /\ Cardinality(OpenBy(a)) \in Nat
      BY <3>1, OpenIsFinite, FS_RemoveElement, FS_CardinalityType
    <3>3. PICK n \in Nat : n = Cardinality(OpenBy(a) \ {k})
      BY <3>2
    <3>4. BondAmount * (n + 1) = BondAmount * n + BondAmount /\ BondAmount * n \in Nat
      BY <1>1
    <3>5. bonded[a] = BondAmount * n + BondAmount
      BY <3>2, <3>3, <3>4 DEF JudgeInv, BooksAgree
    <3>6. bonded'[a] = BondAmount * n
      BY <1>1, <1>4, <1>5, <2>1, <3>4, <3>5 DEF Least
    <3>7. QED
      BY <3>1, <3>3, <3>4, <3>6
  <2>2. CASE a # who
    <3>1. OpenBy(a)' = OpenBy(a)
      BY <1>2, <1>6, <2>2 DEF OpenBy, Open
    <3>2. QED
      BY <1>4, <1>5, <2>2, <3>1 DEF JudgeInv, BooksAgree
  <2>3. QED
    BY <2>1, <2>2
<1>9. QED
  BY <1>4, <1>5, <1>7, <1>8 DEF BooksAgree
\* What a settlement takes out of the deposit is taken out of the commitment.
LEMMA SettleDeposits ==
    ASSUME JudgeInv, NEW k \in Keys, NEW outcome \in Outcomes, NEW resolver \in Parties,
           Open(k), Settle(k, outcome, resolver)
    PROVE  Covered' /\ deposit_amount' \in [Slugs -> Nat] /\ deposit_committed' \in [Parties -> Nat]
<1>1. PICK slug \in Slugs : slug = SlugOfClaim(k)
  BY PlanBounds DEF JudgeInv
<1>2. PICK from \in Nat, available \in Nat :
          /\ from = Plan(k, outcome).from_provider /\ available = DepositAvailable(slug)
          /\ from <= available /\ available <= deposit_amount[slug]
          /\ available <= EscrowOf(deposit_owner[slug])
  BY <1>1, PlanBounds DEF JudgeInv
<1>3. deposit_amount \in [Slugs -> Nat] /\ deposit_committed \in [Parties -> Nat]
      /\ deposit_owner \in [Slugs -> Parties \cup {Nobody}]
  BY DEF JudgeInv, TypeOK
<1>4. PICK after \in Nat : after = IF from > 0 THEN available - from ELSE deposit_amount[slug]
  BY <1>2, <1>3
<1>5. /\ deposit_owner' = deposit_owner
      /\ deposit_amount'[slug] = after /\ after <= deposit_amount[slug] - from
      /\ \A s \in Slugs \ {slug} : deposit_amount'[s] = deposit_amount[s]
      /\ deposit_amount' \in [Slugs -> Nat]
  BY <1>1, <1>2, <1>3, <1>4 DEF Settle, DepositAfter
<1>6. ASSUME NEW a \in Parties
      PROVE  deposit_committed'[a] =
                 deposit_committed[a] - (IF a = deposit_owner[slug] THEN Least(from, deposit_committed[a]) ELSE 0)
  BY <1>1, <1>2 DEF Settle
<1>7. deposit_committed' \in [Parties -> Nat]
  <2>1. ASSUME NEW a \in Parties PROVE deposit_committed'[a] \in Nat
    BY <1>2, <1>3, <1>6 DEF Least
  <2>2. deposit_committed' = [a \in Parties |-> deposit_committed'[a]]
    BY DEF Settle
  <2>3. QED
    BY <2>1, <2>2
<1>8. CASE deposit_owner[slug] \in Parties
  <2>1. PICK owner \in Parties : owner = deposit_owner[slug]
    BY <1>8
  <2>2. Share(owner)[slug] = deposit_amount[slug]
    BY <2>1 DEF Share
  <2>3. Share(owner)[slug] <= deposit_committed[owner]
    BY ShareIsCommitted DEF JudgeInv
  <2>4. deposit_committed'[owner] = deposit_committed[owner] - from
    BY <1>2, <1>3, <1>6, <2>1, <2>2, <2>3 DEF Least
  <2>5. deposit_committed'[owner] >= deposit_committed[owner] - Share(owner)[slug] + after
    BY <1>2, <1>3, <1>5, <2>2, <2>4
  <2>6. \A a \in Parties \ {owner} : deposit_committed'[a] = deposit_committed[a]
    BY <1>3, <1>6, <2>1
  <2>7. Covered'
    BY <1>5, <1>7, <2>1, <2>5, <2>6, CoveredAfter DEF JudgeInv
  <2>8. QED
    BY <1>5, <1>7, <2>7
<1>9. CASE deposit_owner[slug] = Nobody
  <2>1. from = 0
    BY <1>2, <1>9 DEF EscrowOf
  <2>2. deposit_amount' = deposit_amount
    <3>1. \A s \in Slugs : deposit_amount'[s] = deposit_amount[s]
      BY <1>4, <1>5, <2>1
    <3>2. QED
      BY <1>3, <1>5, <3>1
  <2>3. \A a \in Parties : deposit_committed'[a] = deposit_committed[a]
    BY <1>3, <1>6, <1>9, JudgeAssumption
  <2>4. QED
    BY <1>5, <1>7, <2>2, <2>3 DEF JudgeInv, Covered, Share
<1>10. QED
  BY <1>3, <1>8, <1>9

LEMMA SettleInv ==
    ASSUME JudgeInv, TokenInv', NEW k \in Keys, NEW outcome \in Outcomes, NEW resolver \in Parties,
           Open(k), Settle(k, outcome, resolver)
    PROVE  JudgeInv'
<1>1. inFlight' \in [Releases -> Nat]
  <2>1. Emit(SettlementReleases(k, outcome, resolver))
    BY DEF Settle
  <2>2. DOMAIN SettlementReleases(k, outcome, resolver) = 1..4
    BY DEF SettlementReleases
  <2>3. QED
    BY <2>1, <2>2, EmitType DEF JudgeInv, TypeOK
<1>2. TypeOK'
  BY <1>1, SettledClaim, SettleBooks, SettleDeposits
     DEF JudgeInv, TypeOK, Settle, TokenTypeOK, tokenVars, arcVars, history
<1>3. StampLags'
  BY DEF JudgeInv, TypeOK, StampLags, Settle, Bucketed, history
<1>4. QED
  BY <1>2, <1>3, SettleBooks, SettleDeposits DEF JudgeInv

\* The token, the verdicts and the clock move nothing of the judge's books.
LEMMA EnvironmentInv ==
    ASSUME JudgeInv, TokenInv',
           \/ \E x \in Releases : DeliverRelease(x)
           \/ \E a \in Parties : UseToken(a)
           \/ \E r \in Requests : WriteVerdict(r)
           \/ Tick
           \/ UNCHANGED vars
    PROVE  JudgeInv'
<1>1. UNCHANGED <<depositVars, claimVars, stakedAt>>
  BY DEF DeliverRelease, UseToken, WriteVerdict, Tick, vars, judgeVars, history
<1>2. /\ inFlight' \in [Releases -> Nat] /\ refused' \subseteq Parties \X Parties
      /\ recommitted' \subseteq Parties
  <2>1. ASSUME NEW x \in Releases, DeliverRelease(x)
        PROVE  inFlight' \in [Releases -> Nat] /\ refused' \subseteq Parties \X Parties
               /\ recommitted' \subseteq Parties
    BY <2>1 DEF DeliverRelease, JudgeInv, TypeOK, Releases
  <2>2. CASE UNCHANGED <<inFlight, history>>
    BY <2>2 DEF JudgeInv, TypeOK, history
  <2>3. QED
    BY <2>1, <2>2 DEF UseToken, WriteVerdict, Tick, vars, judgeVars, history
<1>3. now' \in 0..MaxTime /\ writtenAt' \in [Requests -> 0..MaxTime]
  BY JudgeAssumption
     DEF JudgeInv, TypeOK, DeliverRelease, UseToken, WriteVerdict, Tick, vars, arcVars
<1>4. TypeOK'
  BY <1>1, <1>2, <1>3 DEF JudgeInv, TokenInv, TypeOK, depositVars, claimVars
<1>5. BooksAgree'
  BY <1>1, BooksKept DEF JudgeInv
<1>6. StampLags' /\ Covered'
  BY <1>1 DEF JudgeInv, StampLags, Covered, Share, Bucketed, depositVars
<1>7. QED
  BY <1>4, <1>5, <1>6 DEF JudgeInv

-----------------------------------------------------------------------------
\* The invariant, and what follows.

LEMMA InitInv == Init => JudgeInv
<1> SUFFICES ASSUME Init PROVE JudgeInv
  OBVIOUS
<1>1. TokenInv
  BY TokenInitInv DEF Init
<1>2. TypeOK
  BY <1>1, JudgeAssumption DEF Init, TypeOK, TokenInv
<1>3. BooksAgree
  <2>1. \A s \in Slugs : OpenOn(s) = {}
    BY DEF Init, OpenOn, Open, NoClaim
  <2>2. \A a \in Parties : OpenBy(a) = {}
    BY DEF Init, OpenBy, Open, NoClaim
  <2>3. Cardinality({}) = 0
    BY FS_EmptySet
  <2>4. BondAmount * 0 = 0
    BY JudgeAssumption
  <2>5. QED
    BY <2>1, <2>2, <2>3, <2>4 DEF BooksAgree, Init
<1>4. StampLags
  BY DEF Init, StampLags
<1>5. Covered
  <2>1. ASSUME NEW a \in Parties PROVE Total(Share(a), Slugs) <= deposit_committed[a]
    <3>1. PICK f : f = Share(a)
      OBVIOUS
    <3>2. \A s \in Slugs : f[s] = 0
      BY <3>1 DEF Share, Init
    <3>3. Total(f, Slugs) = 0
      BY <3>2, TotalOfZero
    <3>4. QED
      BY <3>1, <3>3 DEF Init
  <2>2. QED
    BY <2>1 DEF Covered
<1>6. QED
  BY <1>1, <1>2, <1>3, <1>4, <1>5 DEF JudgeInv

LEMMA StepInv == JudgeInv /\ [Next]_vars => JudgeInv'
<1> SUFFICES ASSUME JudgeInv, [Next]_vars PROVE JudgeInv'
  OBVIOUS
<1>1. TokenInv'
  BY TokenStep, TokenStepInv DEF JudgeInv
<1>2. CASE DepositStep
  BY <1>1, <1>2, FundDepositInv, RequestWithdrawalInv, CancelWithdrawalInv, WithdrawDepositInv
     DEF DepositStep
<1>3. ASSUME NEW a \in Parties, NEW k \in Keys,
             \/ \E s \in Slugs : SubmitClaim(a, k[1], k[2], s)
             \/ ResolveClaim(a, k)
             \/ CancelClaim(a, k)
      PROVE  JudgeInv'
  <2>1. CASE \E s \in Slugs : SubmitClaim(a, k[1], k[2], s)
    BY <1>1, <2>1, SubmitClaimInv
  <2>2. CASE ResolveClaim(a, k)
    BY <1>1, <2>2, SettleInv DEF ResolveClaim, Outcomes
  <2>3. CASE CancelClaim(a, k)
    BY <1>1, <2>3, SettleInv DEF CancelClaim, Outcomes
  <2>4. QED
    BY <1>3, <2>1, <2>2, <2>3
<1>4. CASE ~DepositStep /\ ~ClaimStep
  BY <1>1, <1>4, EnvironmentInv DEF Next
<1>5. QED
  BY <1>2, <1>3, <1>4 DEF ClaimStep

\* Every book has its type; in particular no subtraction goes below zero.
THEOREM JudgeTypesCorrect == Spec => []TypeOK
<1>1. JudgeInv => TypeOK
  BY DEF JudgeInv
<1>2. QED
  BY <1>1, InitInv, StepInv, PTL DEF Spec

\* open_claims and bonded, kept by clamped steps in submit_claim and _settle,
\* always count exactly the open claims.
THEOREM JudgeBooksAgree == Spec => []BooksAgree
<1>1. JudgeInv => BooksAgree
  BY DEF JudgeInv
<1>2. QED
  BY <1>1, InitInv, StepInv, PTL DEF Spec

\* What a party's slugs advertise never exceeds what deposit_committed holds
\* for it, so fund_deposit does not allocate the same escrow twice.
THEOREM JudgeCommitmentsCover == Spec => []Covered
<1>1. JudgeInv => Covered
  BY DEF JudgeInv
<1>2. QED
  BY <1>1, InitInv, StepInv, PTL DEF Spec

\* With the judge and its releases as users of the token, every escrow stays
\* backed by its owner's balance.
THEOREM JudgeKeepsTokenBacked == Spec => []EscrowsAreBacked
<1>1. JudgeInv => EscrowsAreBacked
  BY DEF JudgeInv, TokenInv
<1>2. QED
  BY <1>1, InitInv, StepInv, PTL DEF Spec

\* What the judge, its late releases and the parties do to the token moves the
\* pots as TokenPots allows: no order of theirs gives away what is pledged.
THEOREM JudgeImplementsPots == Spec => ImplementsPots
<1>1. Init => TokenInit
  BY DEF Init
<1>2. Spec => TokenSpec
  BY <1>1, TokenStep, PTL DEF Spec, TokenSpec
<1>3. QED
  BY <1>2, TokenImplementsPots

\* Which steps change a claim: filing one that is not there, and settling one
\* that is open.
LEMMA ClaimChanges ==
    ASSUME JudgeInv, [Next]_vars, NEW k \in Keys, claims[k].outcome \notin {"NONE", "OPEN"}
    PROVE  claims'[k] = claims[k]
<1>1. claims \in [Keys -> Claim \cup {NoClaim}] /\ NoClaim.outcome = "NONE"
  BY DEF JudgeInv, TypeOK, NoClaim
<1>2. ASSUME NEW a \in Parties, NEW x \in Keys, NEW s \in Slugs, SubmitClaim(a, x[1], x[2], s)
      PROVE  claims'[k] = claims[k]
  <2>1. x = <<x[1], x[2]>>
    BY DEF Keys
  <2>2. claims[x] = NoClaim /\ claims' = [claims EXCEPT ![x] = Filed(x[1], a)]
    BY <1>2, <2>1 DEF SubmitClaim, Fileable
  <2>3. QED
    BY <1>1, <2>2
<1>3. ASSUME NEW x \in Keys, NEW outcome \in Outcomes, NEW a \in Parties,
             Open(x), Settle(x, outcome, a)
      PROVE  claims'[k] = claims[k]
  BY <1>3, SettledClaim DEF Open
<1>4. CASE ClaimStep
  BY <1>2, <1>3, <1>4 DEF ClaimStep, ResolveClaim, CancelClaim, Outcomes
<1>5. CASE ~ClaimStep
  BY <1>5 DEF Next, DepositStep, FundDeposit, RequestWithdrawal, CancelWithdrawal, WithdrawDeposit,
              DeliverRelease, UseToken, WriteVerdict, Tick, vars, judgeVars, claimVars
<1>6. QED
  BY <1>4, <1>5

\* A claim that was judged or cancelled keeps its outcome and what was booked
\* for it: neither submit_claim nor a second settlement reopens it.
THEOREM JudgmentsAreFinal == Spec => JudgmentIsFinal
<1>1. JudgeInv /\ [Next]_vars =>
        [\A k \in Keys : claims[k].outcome \notin {"NONE", "OPEN"} => claims'[k] = claims[k]]_vars
  BY ClaimChanges
<1>2. QED
  BY <1>1, InitInv, StepInv, PTL DEF Spec, JudgmentIsFinal

\* Only withdraw_deposit empties a slug whose withdrawal was pending.
LEMMA OnlyWithdrawn ==
    ASSUME JudgeInv, [Next]_vars, NEW s \in Slugs,
           withdrawal_requested_at[s] # 0, withdrawal_requested_at'[s] = 0,
           deposit_amount[s] > 0, deposit_amount'[s] = 0
    PROVE  Withdrawable(s)
<1>1. withdrawal_requested_at \in [Slugs -> 0..MaxTime] /\ deposit_amount \in [Slugs -> Nat]
  BY DEF JudgeInv, TypeOK
<1>2. ASSUME NEW a \in Parties, NEW x \in Slugs,
             FundDeposit(a, x) \/ RequestWithdrawal(a, x) \/ CancelWithdrawal(a, x)
      PROVE  FALSE
  <2>1. CASE FundDeposit(a, x)
    <3>1. deposit_amount' = [deposit_amount EXCEPT ![x] = Allocatable(a, x)]
          /\ Allocatable(a, x) > 0
          /\ withdrawal_requested_at' = [withdrawal_requested_at EXCEPT ![x] = 0]
      BY <2>1 DEF FundDeposit
    <3>2. CASE x = s
      BY <1>1, <3>1, <3>2
    <3>3. CASE x # s
      BY <1>1, <3>1, <3>3
    <3>4. QED
      BY <3>2, <3>3
  <2>2. CASE RequestWithdrawal(a, x) \/ CancelWithdrawal(a, x)
    BY <1>1, <2>2 DEF RequestWithdrawal, CancelWithdrawal
  <2>3. QED
    BY <1>2, <2>1, <2>2
<1>3. ASSUME NEW a \in Parties, NEW x \in Slugs, WithdrawDeposit(a, x)
      PROVE  Withdrawable(s)
  <2>1. withdrawal_requested_at' = [withdrawal_requested_at EXCEPT ![x] = 0] /\ Withdrawable(x)
    BY <1>3 DEF WithdrawDeposit
  <2>2. x = s
    BY <1>1, <2>1
  <2>3. QED
    BY <2>1, <2>2
<1>4. CASE ~DepositStep
  <2>1. ASSUME NEW a \in Parties, NEW k \in Keys, NEW x \in Slugs, SubmitClaim(a, k[1], k[2], x)
        PROVE  UNCHANGED withdrawal_requested_at
    BY <2>1 DEF SubmitClaim, depositVars
  <2>2. ASSUME NEW a \in Parties, NEW k \in Keys, ResolveClaim(a, k) \/ CancelClaim(a, k)
        PROVE  UNCHANGED withdrawal_requested_at
    BY <2>2 DEF ResolveClaim, CancelClaim, Settle
  <2>3. CASE ClaimStep
    BY <2>1, <2>2, <2>3 DEF ClaimStep
  <2>4. CASE \E x \in Releases : DeliverRelease(x)
    BY <2>4 DEF DeliverRelease, judgeVars, depositVars
  <2>5. CASE \E a \in Parties : UseToken(a)
    BY <2>5 DEF UseToken, judgeVars, depositVars
  <2>6. CASE (\E r \in Requests : WriteVerdict(r)) \/ Tick
    BY <2>6 DEF WriteVerdict, Tick, judgeVars, depositVars
  <2>7. CASE UNCHANGED vars
    BY <2>7 DEF vars, depositVars
  <2>8. QED
    BY <1>4, <2>3, <2>4, <2>5, <2>6, <2>7 DEF Next
<1>5. CASE DepositStep
  BY <1>2, <1>3, <1>5 DEF DepositStep
<1>6. QED
  BY <1>4, <1>5

\* A deposit leaves through a withdrawal only when every call made by the time
\* it was last funded or asked back is past its filing window, with no claim
\* open: the cooldown of __init__ is twice that window, which is longer than
\* the clock's bucket lags.
THEOREM DepositsOutlastFiling == Spec => DepositOutlastsFiling
<1>1. ASSUME JudgeInv, [Next]_vars, NEW s \in Slugs,
             withdrawal_requested_at[s] # 0, withdrawal_requested_at'[s] = 0,
             deposit_amount[s] > 0, deposit_amount'[s] = 0
      PROVE  /\ OpenOn(s) = {}
             /\ \A r \in Requests :
                    (SlugOf[r] = s /\ writtenAt[r] # 0 /\ writtenAt[r] <= stakedAt[s]) =>
                        now - writtenAt[r] > FilingWindow
  <2>1. open_claims[s] = 0 /\ now - withdrawal_requested_at[s] >= Cooldown
    BY <1>1, OnlyWithdrawn DEF Withdrawable
  <2>2. OpenOn(s) = {}
    BY <1>1, <2>1, OpenIsFinite, FS_EmptySet DEF JudgeInv, BooksAgree
  <2>3. stakedAt[s] \in Nat /\ now \in Nat /\ \A r \in Requests : writtenAt[r] \in Nat
    BY JudgeAssumption, <1>1 DEF JudgeInv, TypeOK
  <2>4. PICK stamp \in Nat : stamp = withdrawal_requested_at[s] /\ stakedAt[s] < stamp + ClockBucket
    BY <1>1, <2>3, BucketedLags DEF JudgeInv, StampLags
  <2>5. Cooldown >= 2 * FilingWindow /\ ClockBucket <= FilingWindow
        /\ Cooldown \in Nat /\ FilingWindow \in Nat /\ ClockBucket \in Nat
    BY JudgeAssumption
  <2>6. ASSUME NEW r \in Requests, writtenAt[r] <= stakedAt[s]
        PROVE  now - writtenAt[r] > FilingWindow
    BY <2>1, <2>3, <2>4, <2>5, <2>6
  <2>7. QED
    BY <2>2, <2>6
<1>2. JudgeInv /\ [Next]_vars =>
        [\A s \in Slugs :
           (withdrawal_requested_at[s] # 0 /\ withdrawal_requested_at'[s] = 0
              /\ deposit_amount[s] > 0 /\ deposit_amount'[s] = 0) =>
               /\ OpenOn(s) = {}
               /\ \A r \in Requests :
                      (SlugOf[r] = s /\ writtenAt[r] # 0 /\ writtenAt[r] <= stakedAt[s]) =>
                          now - writtenAt[r] > FilingWindow]_vars
  BY <1>1
<1>3. QED
  BY <1>2, InitInv, StepInv, PTL DEF Spec, DepositOutlastsFiling

-----------------------------------------------------------------------------
\* What leaves an escrow.

LEMMA ReleasesAreFinite == IsFiniteSet(Releases)
<1> DEFINE triples == (Parties \X Parties) \X (1..Supply)
           flat == [p \in triples |-> <<p[1][1], p[1][2], p[2]>>]
<1>1. IsFiniteSet(Parties)
  <2>1. Parties \subseteq Accounts /\ IsFiniteSet(Accounts)
    BY JudgeAssumption, TokenAssumption
  <2>2. QED
    BY <2>1, FS_Subset
<1>2. IsFiniteSet(1..Supply)
  BY TokenAssumption, FS_Interval
<1>3. IsFiniteSet(triples)
  <2>1. IsFiniteSet(Parties \X Parties)
    BY <1>1, FS_Product
  <2>2. QED
    BY <1>2, <2>1, FS_Product
<1>4. flat \in Surjection(triples, Releases)
  <2>1. flat \in [triples -> Releases]
    BY DEF Releases
  <2>2. ASSUME NEW x \in Releases PROVE \E p \in triples : flat[p] = x
    <3>1. <<<<x[1], x[2]>>, x[3]>> \in triples /\ x = <<x[1], x[2], x[3]>>
      BY DEF Releases
    <3>2. flat[<<<<x[1], x[2]>>, x[3]>>] = <<x[1], x[2], x[3]>>
      BY <3>1
    <3>3. QED
      BY <3>1, <3>2
  <2>3. QED
    BY <2>1, <2>2 DEF Surjection
<1>5. QED
  BY <1>3, <1>4, FS_Surjection

Of(a) == {x \in Releases : x[1] = a}
Weight(flow) == [x \in Releases |-> x[3] * flow[x]]

LEMMA FlowIsNat ==
    ASSUME NEW flow \in [Releases -> Nat], NEW a
    PROVE  /\ IsFiniteSet(Of(a)) /\ Amounted(Weight(flow), Of(a))
           /\ Flow(flow, a) = Total(Weight(flow), Of(a)) /\ Flow(flow, a) \in Nat
<1>1. IsFiniteSet(Of(a))
  BY ReleasesAreFinite, FS_Subset DEF Of
<1>2. ASSUME NEW x \in Of(a) PROVE Weight(flow)[x] \in Nat
  <2>1. x \in Releases /\ x[3] \in Nat
    BY TokenAssumption DEF Releases, Of
  <2>2. QED
    BY <2>1 DEF Weight
<1>3. Amounted(Weight(flow), Of(a))
  BY <1>2 DEF Amounted
<1>4. Flow(flow, a) = Total(Weight(flow), Of(a))
  BY DEF Flow, Weight, Of
<1>5. QED
  BY <1>1, <1>3, <1>4, TotalIsNat

\* The part of one release that leaves a's escrow.
Part(m, a) == IF m[1] = a THEN m[3] ELSE 0

\* One release more takes at most its amount, and only from its owner.
LEMMA FlowOfOneMore ==
    ASSUME NEW f \in [Releases -> Nat], NEW g \in [Releases -> Nat], NEW m, NEW a, m[3] \in Nat,
           \A x \in Releases : g[x] = f[x] + (IF m = x THEN 1 ELSE 0)
    PROVE  /\ Flow(g, a) <= Flow(f, a) + Part(m, a)
           /\ m \in Releases => Flow(g, a) = Flow(f, a) + Part(m, a)
<1>1. PICK u, v : u = Weight(f) /\ v = Weight(g)
  OBVIOUS
<1>2. /\ IsFiniteSet(Of(a)) /\ Amounted(u, Of(a)) /\ Amounted(v, Of(a))
      /\ Flow(f, a) = Total(u, Of(a)) /\ Flow(g, a) = Total(v, Of(a))
      /\ Flow(f, a) \in Nat /\ Flow(g, a) \in Nat
  BY <1>1, FlowIsNat
<1>3. \A x \in Of(a) \ {m} : v[x] = u[x]
  BY <1>1 DEF Weight, Of
<1>4. CASE m \in Of(a)
  <2>1. m \in Releases /\ m[1] = a
    BY <1>4 DEF Of
  <2>2. PICK n \in Nat, c \in Nat : n = f[m] /\ c = m[3]
    BY <2>1
  <2>3. c * (n + 1) = c * n + c /\ c * n \in Nat
    OBVIOUS
  <2>4. u[m] = c * n /\ v[m] = c * (n + 1)
    BY <1>1, <2>1, <2>2 DEF Weight
  <2>5. Total(v, Of(a)) = Total(u, Of(a)) - u[m] + v[m]
    BY <1>2, <1>3, <1>4, TotalChanges
  <2>6. Part(m, a) = c
    BY <2>1, <2>2 DEF Part
  <2>7. QED
    BY <1>2, <2>3, <2>4, <2>5, <2>6
<1>5. CASE m \notin Of(a)
  <2>1. Total(v, Of(a)) = Total(u, Of(a))
    BY <1>3, <1>5, SameTotal
  <2>2. Part(m, a) \in Nat /\ (m \in Releases => Part(m, a) = 0)
    BY <1>5 DEF Part, Of
  <2>3. QED
    BY <1>2, <2>1, <2>2
<1>6. QED
  BY <1>4, <1>5

\* What is in flight once the first j messages of out are emitted.
Emitted(out, j) ==
    [x \in Releases |-> inFlight[x] + Cardinality({i \in 1..j : out[i] = x})]

LEMMA EmittedNext ==
    ASSUME inFlight \in [Releases -> Nat], NEW out, NEW j \in Nat, NEW a, out[j + 1][3] \in Nat
    PROVE  /\ Emitted(out, j) \in [Releases -> Nat] /\ Emitted(out, j + 1) \in [Releases -> Nat]
           /\ Flow(Emitted(out, j + 1), a) <= Flow(Emitted(out, j), a) + Part(out[j + 1], a)
<1>1. ASSUME NEW x \in Releases
      PROVE  /\ Cardinality({i \in 1..j : out[i] = x}) \in Nat
             /\ Cardinality({i \in 1..(j + 1) : out[i] = x}) =
                    Cardinality({i \in 1..j : out[i] = x}) + (IF out[j + 1] = x THEN 1 ELSE 0)
  <2>1. IsFiniteSet({i \in 1..j : out[i] = x})
    <3>1. IsFiniteSet(1..j)
      BY FS_Interval
    <3>2. {i \in 1..j : out[i] = x} \subseteq 1..j
      OBVIOUS
    <3>3. QED
      BY <3>1, <3>2, FS_Subset
  <2>2. Cardinality({i \in 1..j : out[i] = x}) \in Nat
    BY <2>1, FS_CardinalityType
  <2>3. CASE out[j + 1] = x
    <3>1. {i \in 1..(j + 1) : out[i] = x} = {i \in 1..j : out[i] = x} \cup {j + 1}
          /\ j + 1 \notin {i \in 1..j : out[i] = x}
      BY <2>3
    <3>2. QED
      BY <2>1, <2>2, <2>3, <3>1, FS_AddElement
  <2>4. CASE out[j + 1] # x
    <3>1. {i \in 1..(j + 1) : out[i] = x} = {i \in 1..j : out[i] = x}
      BY <2>4
    <3>2. QED
      BY <2>2, <2>4, <3>1
  <2>5. QED
    BY <2>3, <2>4
<1>2. PICK f, g, m : f = Emitted(out, j) /\ g = Emitted(out, j + 1) /\ m = out[j + 1]
  OBVIOUS
<1>3. f \in [Releases -> Nat] /\ g \in [Releases -> Nat]
      /\ \A x \in Releases : g[x] = f[x] + (IF m = x THEN 1 ELSE 0)
  <2>1. ASSUME NEW x \in Releases
        PROVE  f[x] \in Nat /\ g[x] \in Nat /\ g[x] = f[x] + (IF m = x THEN 1 ELSE 0)
    <3>1. f[x] = inFlight[x] + Cardinality({i \in 1..j : out[i] = x})
          /\ g[x] = inFlight[x] + Cardinality({i \in 1..(j + 1) : out[i] = x})
          /\ inFlight[x] \in Nat
      BY <1>2 DEF Emitted
    <3>2. QED
      BY <1>1, <1>2, <3>1
  <2>2. f = [x \in Releases |-> f[x]] /\ g = [x \in Releases |-> g[x]]
    BY <1>2 DEF Emitted
  <2>3. QED
    BY <2>1, <2>2
<1>4. Flow(g, a) <= Flow(f, a) + Part(m, a)
  BY <1>2, <1>3, FlowOfOneMore
<1>5. QED
  BY <1>2, <1>3, <1>4

LEMMA EmittedNothing ==
    ASSUME inFlight \in [Releases -> Nat], NEW out
    PROVE  Emitted(out, 0) = inFlight
<1>1. ASSUME NEW x \in Releases PROVE Cardinality({i \in 1..0 : out[i] = x}) = 0
  <2>1. {i \in 1..0 : out[i] = x} = {}
    OBVIOUS
  <2>2. QED
    BY <2>1, FS_EmptySet
<1>2. QED
  BY <1>1 DEF Emitted

\* A withdrawal sends one message, a settlement four.
LEMMA OneLeaves ==
    ASSUME TypeOK, NEW m, m[3] \in Nat, Emit(<<m>>), NEW a
    PROVE  LeavingFrom(a)' <= LeavingFrom(a) + Part(m, a)
<1>1. PICK out : out = <<m>>
  OBVIOUS
<1>2. DOMAIN out = 1..1 /\ out[1] = m
  BY <1>1
<1>3. inFlight \in [Releases -> Nat]
  BY DEF TypeOK
<1>4. inFlight' = Emitted(out, 0 + 1)
  BY <1>1, <1>2 DEF Emit, Emitted
<1>5. Flow(Emitted(out, 0 + 1), a) <= Flow(Emitted(out, 0), a) + Part(out[0 + 1], a)
  BY <1>2, <1>3, EmittedNext
<1>6. QED
  BY <1>2, <1>3, <1>4, <1>5, EmittedNothing DEF LeavingFrom

LEMMA FourLeave ==
    ASSUME TypeOK, NEW m1, NEW m2, NEW m3, NEW m4,
           m1[3] \in Nat, m2[3] \in Nat, m3[3] \in Nat, m4[3] \in Nat,
           Emit(<<m1, m2, m3, m4>>), NEW a
    PROVE  LeavingFrom(a)' <= LeavingFrom(a) + Part(m1, a) + Part(m2, a) + Part(m3, a) + Part(m4, a)
<1>1. PICK out : out = <<m1, m2, m3, m4>>
  OBVIOUS
<1>2. DOMAIN out = 1..4 /\ out[1] = m1 /\ out[2] = m2 /\ out[3] = m3 /\ out[4] = m4
  BY <1>1
<1>3. inFlight \in [Releases -> Nat]
  BY DEF TypeOK
<1>4. inFlight' = Emitted(out, 4) /\ Emitted(out, 0) = inFlight
  BY <1>1, <1>2, <1>3, EmittedNothing DEF Emit, Emitted
<1>5. PICK f : f = [j \in 0..4 |-> Flow(Emitted(out, j), a)]
  OBVIOUS
<1>6. \A j \in 0..4 : f[j] = Flow(Emitted(out, j), a) /\ f[j] \in Nat
  <2>1. ASSUME NEW j \in 0..3
        PROVE  Emitted(out, j) \in [Releases -> Nat] /\ Emitted(out, j + 1) \in [Releases -> Nat]
    <3>1. j \in Nat /\ out[j + 1][3] \in Nat
      BY <1>2
    <3>2. QED
      BY <1>3, <3>1, EmittedNext
  <2>2. ASSUME NEW j \in 0..4 PROVE Emitted(out, j) \in [Releases -> Nat]
    <3>1. CASE j \in 0..3
      BY <2>1, <3>1
    <3>2. CASE j = 4
      <4>1. 3 \in 0..3 /\ 3 + 1 = 4
        OBVIOUS
      <4>2. QED
        BY <2>1, <3>2, <4>1
    <3>3. QED
      BY <3>1, <3>2
  <2>3. \A j \in 0..4 : Flow(Emitted(out, j), a) \in Nat
    BY <2>2, FlowIsNat
  <2>4. QED
    BY <1>5, <2>3
<1>7. ASSUME NEW j \in 0..3 PROVE f[j + 1] <= f[j] + Part(out[j + 1], a)
  <2>1. j \in Nat /\ j \in 0..4 /\ j + 1 \in 0..4 /\ out[j + 1][3] \in Nat
    BY <1>2
  <2>2. QED
    BY <1>3, <1>6, <2>1, EmittedNext
<1>8. f[1] <= f[0] + Part(m1, a) /\ f[2] <= f[1] + Part(m2, a)
      /\ f[3] <= f[2] + Part(m3, a) /\ f[4] <= f[3] + Part(m4, a)
  <2>1. 0 \in 0..3 /\ 1 \in 0..3 /\ 2 \in 0..3 /\ 3 \in 0..3
        /\ 0 + 1 = 1 /\ 1 + 1 = 2 /\ 2 + 1 = 3 /\ 3 + 1 = 4
    OBVIOUS
  <2>2. QED
    BY <1>2, <1>7, <2>1
<1>9. /\ Part(m1, a) \in Nat /\ Part(m2, a) \in Nat /\ Part(m3, a) \in Nat /\ Part(m4, a) \in Nat
  BY DEF Part
<1>10. f[0] \in Nat /\ f[1] \in Nat /\ f[2] \in Nat /\ f[3] \in Nat /\ f[4] \in Nat
      /\ f[0] = LeavingFrom(a) /\ f[4] = LeavingFrom(a)'
  BY <1>4, <1>6 DEF LeavingFrom
<1>11. QED
  BY <1>8, <1>9, <1>10

-----------------------------------------------------------------------------
\* The escrow covers the books.

\* What a party has committed and what is leaving fit its escrow together.
\* EscrowCoversBooks names the deposits that are advertised; withdraw_deposit
\* and _settle subtract from deposit_committed, which they never exceed.
Backed(a) == EscrowOf(a) >= LeavingFrom(a) + deposit_committed[a] + bonded[a]

CommitmentsBacked ==
    /\ \A a \in Parties \ recommitted : Backed(a)
    /\ \A p \in refused : p[1] \in recommitted

LEMMA AmountsAreNat ==
    ASSUME TypeOK, NEW a \in Parties
    PROVE  EscrowOf(a) \in Nat /\ LeavingFrom(a) \in Nat
           /\ deposit_committed[a] \in Nat /\ bonded[a] \in Nat
BY EscrowOfIsNat, FlowIsNat DEF TypeOK, LeavingFrom

\* A party is backed still if its escrow did not fall and nothing was added.
LEMMA BackedStays ==
    ASSUME CommitmentsBacked, UNCHANGED <<inFlight, refused>>, recommitted \subseteq recommitted',
           \A a \in Parties \ recommitted' :
               EscrowOf(a)' >= EscrowOf(a) /\ deposit_committed'[a] = deposit_committed[a]
               /\ bonded'[a] = bonded[a],
           TypeOK, TypeOK'
    PROVE  CommitmentsBacked'
<1>1. ASSUME NEW a \in Parties \ recommitted' PROVE Backed(a)'
  <2>1. LeavingFrom(a)' = LeavingFrom(a)
    BY DEF LeavingFrom, Flow
  <2>2. EscrowOf(a)' \in Nat
    <3>1. Judge \in Accounts /\ a \in Accounts /\ Supply \in Nat /\ a # Nobody
      BY JudgeAssumption, TokenAssumption
    <3>2. QED
      BY <3>1 DEF TypeOK, TokenTypeOK, EscrowOf
  <2>3. Backed(a)
    BY DEF CommitmentsBacked
  <2>4. QED
    BY <2>1, <2>2, <2>3, AmountsAreNat DEF Backed
<1>2. QED
  BY <1>1 DEF CommitmentsBacked

\* Who commits while nothing of its escrow is leaving has nothing leaving.
LEMMA NothingLeaves ==
    ASSUME TypeOK, NEW a \in Parties, ~Leaving(a)
    PROVE  LeavingFrom(a) = 0
<1>1. PICK u : u = Weight(inFlight)
  OBVIOUS
<1>2. ASSUME NEW x \in Of(a) PROVE u[x] = 0
  <2>1. x \in Releases /\ x[3] \in Nat /\ inFlight[x] \in Nat
    BY TokenAssumption DEF TypeOK, Releases, Of
  <2>2. inFlight[x] = 0
    BY <2>1 DEF Leaving, Of
  <2>3. QED
    BY <1>1, <2>1, <2>2 DEF Weight
<1>3. Total(u, Of(a)) = 0
  BY <1>2, TotalOfZero
<1>4. QED
  BY <1>1, <1>3, FlowIsNat DEF TypeOK, LeavingFrom

\* fund_deposit allocates what is left of the escrow after everything else.
LEMMA FundDepositBacked ==
    ASSUME JudgeInv, JudgeInv', CommitmentsBacked, NEW sender \in Parties, NEW slug \in Slugs,
           FundDeposit(sender, slug)
    PROVE  CommitmentsBacked'
<1>1. ASSUME NEW a \in Parties \ recommitted' PROVE Backed(a)'
  <2>1. LeavingFrom(a)' = LeavingFrom(a) /\ EscrowOf(a)' = EscrowOf(a) /\ bonded' = bonded
    BY DEF FundDeposit, LeavingFrom, Flow, EscrowOf, tokenVars, claimVars
  <2>2. CASE a = sender
    <3>1. ~Leaving(a)
      BY <2>2 DEF FundDeposit, Recommit
    <3>2. LeavingFrom(a) = 0
      BY <3>1, NothingLeaves DEF JudgeInv
    <3>3. deposit_committed'[a] = CommittedElsewhere(a, slug) + Allocatable(a, slug)
      BY <2>2 DEF FundDeposit, JudgeInv, TypeOK
    <3>4. Share(a)[slug] \in Nat /\ deposit_committed[a] \in Nat
      BY ShareIsCommitted DEF JudgeInv
    <3>5. CommittedElsewhere(a, slug) = deposit_committed[a] - Share(a)[slug]
      BY <3>4 DEF CommittedElsewhere, Share
    <3>6. EscrowOf(a) \in Nat /\ bonded[a] \in Nat
      BY AmountsAreNat DEF JudgeInv
    <3>7. deposit_committed'[a] + bonded[a] = EscrowOf(a)
      BY <3>3, <3>4, <3>5, <3>6 DEF Allocatable, AvailableEscrow
    <3>8. deposit_committed'[a] \in Nat
      BY DEF JudgeInv, TypeOK
    <3>9. QED
      BY <2>1, <3>2, <3>6, <3>7, <3>8 DEF Backed
  <2>3. CASE a # sender
    <3>1. deposit_committed'[a] = deposit_committed[a]
      BY <2>3 DEF FundDeposit, JudgeInv, TypeOK
    <3>2. Backed(a)
      BY DEF CommitmentsBacked, FundDeposit, Recommit
    <3>3. QED
      BY <2>1, <3>1, <3>2 DEF Backed
  <2>4. QED
    BY <2>2, <2>3
<1>2. \A p \in refused' : p[1] \in recommitted'
  BY DEF CommitmentsBacked, FundDeposit, Recommit
<1>3. QED
  BY <1>1, <1>2 DEF CommitmentsBacked

\* What withdraw_deposit sends is what it takes off the commitment.
LEMMA WithdrawDepositBacked ==
    ASSUME JudgeInv, JudgeInv', CommitmentsBacked, NEW sender \in Parties, NEW slug \in Slugs,
           WithdrawDeposit(sender, slug)
    PROVE  CommitmentsBacked'
<1>1. PICK n \in Nat : n = deposit_amount[slug] /\ n <= deposit_committed[sender]
  BY ShareIsCommitted DEF JudgeInv, TypeOK, Share, WithdrawDeposit
<1>2. ASSUME NEW a \in Parties \ recommitted' PROVE Backed(a)'
  <2>1. EscrowOf(a)' = EscrowOf(a) /\ bonded' = bonded /\ recommitted' = recommitted
    BY DEF WithdrawDeposit, EscrowOf, tokenVars, claimVars, history
  <2>2. PICK m : m = <<sender, sender, n>>
    OBVIOUS
  <2>3. m[3] \in Nat /\ Emit(<<m>>) /\ Part(m, a) = IF sender = a THEN n ELSE 0
    BY <1>1, <2>2 DEF WithdrawDeposit, Part
  <2>4. LeavingFrom(a)' <= LeavingFrom(a) + Part(m, a)
    BY <2>3, OneLeaves DEF JudgeInv
  <2>5. deposit_committed'[a] = deposit_committed[a] - Part(m, a)
    BY <1>1, <2>3 DEF WithdrawDeposit, JudgeInv, TypeOK, Least
  <2>6. Backed(a)
    BY <2>1 DEF CommitmentsBacked
  <2>7. EscrowOf(a) \in Nat /\ bonded[a] \in Nat /\ deposit_committed[a] \in Nat
        /\ LeavingFrom(a) \in Nat /\ LeavingFrom(a)' \in Nat
    <3>1. LeavingFrom(a)' \in Nat
      BY FlowIsNat DEF JudgeInv, TypeOK, LeavingFrom
    <3>2. QED
      BY <3>1, AmountsAreNat DEF JudgeInv
  <2>8. QED
    BY <1>1, <2>1, <2>3, <2>4, <2>5, <2>6, <2>7 DEF Backed
<1>3. \A p \in refused' : p[1] \in recommitted'
  BY DEF CommitmentsBacked, WithdrawDeposit, history
<1>4. QED
  BY <1>2, <1>3 DEF CommitmentsBacked

\* submit_claim posts a bond that is not committed yet.
LEMMA SubmitClaimBacked ==
    ASSUME JudgeInv, JudgeInv', CommitmentsBacked, NEW claimant \in Parties, NEW k \in Keys,
           NEW slug \in Slugs, SubmitClaim(claimant, k[1], k[2], slug)
    PROVE  CommitmentsBacked'
<1>1. BondAmount \in Nat
  BY JudgeAssumption
<1>2. ASSUME NEW a \in Parties \ recommitted' PROVE Backed(a)'
  <2>1. /\ LeavingFrom(a)' = LeavingFrom(a) /\ EscrowOf(a)' = EscrowOf(a)
        /\ deposit_committed' = deposit_committed
    BY DEF SubmitClaim, LeavingFrom, Flow, EscrowOf, tokenVars, depositVars
  <2>2. Backed(a)
    BY DEF CommitmentsBacked, SubmitClaim, Recommit
  <2>3. EscrowOf(a) \in Nat /\ bonded[a] \in Nat /\ deposit_committed[a] \in Nat
    BY AmountsAreNat DEF JudgeInv
  <2>4. CASE a = claimant
    <3>1. ~Leaving(a)
      BY <2>4 DEF SubmitClaim, Recommit
    <3>2. LeavingFrom(a) = 0
      BY <3>1, NothingLeaves DEF JudgeInv
    <3>3. BondAmount > 0 => EscrowOf(a) - deposit_committed[a] - bonded[a] >= BondAmount
      BY <2>4 DEF SubmitClaim, BondPosted, AvailableEscrow
    <3>4. bonded'[a] = bonded[a] + BondAmount
      BY <2>4 DEF SubmitClaim, JudgeInv, TypeOK
    <3>5. QED
      BY <1>1, <2>1, <2>2, <2>3, <3>2, <3>3, <3>4 DEF Backed
  <2>5. CASE a # claimant
    <3>1. bonded'[a] = bonded[a]
      BY <2>5 DEF SubmitClaim, JudgeInv, TypeOK
    <3>2. QED
      BY <2>1, <2>2, <3>1 DEF Backed
  <2>6. QED
    BY <2>4, <2>5
<1>3. \A p \in refused' : p[1] \in recommitted'
  BY DEF CommitmentsBacked, SubmitClaim, Recommit
<1>4. QED
  BY <1>2, <1>3 DEF CommitmentsBacked

\* The four messages of a settlement divide what it takes from each side.
LEMMA PlanParts ==
    ASSUME TypeOK, NEW k \in Keys, Open(k), NEW outcome \in Outcomes
    PROVE  /\ claims[k].claimant \in Parties /\ claims[k].bond = BondAmount
           /\ BondAvailable(k) \in Nat /\ BondAvailable(k) <= BondAmount
           /\ Plan(k, outcome).from_consumer \in Nat
           /\ Plan(k, outcome).from_consumer <= BondAvailable(k)
           /\ Plan(k, outcome).compensation <= Plan(k, outcome).from_provider
<1>1. claims[k] \in Claim /\ PaidAmount[k[1]] \in Nat
  BY PlanBounds, JudgeAssumption DEF Keys
<1>2. claims[k].claimant \in Parties /\ claims[k].bond = BondAmount /\ BondAmount \in Nat
  BY <1>1, JudgeAssumption DEF Claim
<1>3. EscrowOf(claims[k].claimant) \in Nat
  BY <1>2, EscrowOfIsNat
<1>4. BondAvailable(k) \in Nat /\ BondAvailable(k) <= BondAmount
  BY <1>2, <1>3 DEF BondAvailable, Least
<1>5. PICK paid \in Nat, deposit \in Nat, bond \in Nat :
          paid = PaidAmount[k[1]] /\ deposit = DepositAvailable(SlugOfClaim(k)) /\ bond = BondAvailable(k)
  BY <1>1, <1>4, PlanBounds
<1>6. BountyAmount \in Nat
  BY JudgeAssumption
<1>7. LET plan == SettlementFor(outcome, paid, deposit, bond)
      IN  plan.from_consumer \in Nat /\ plan.from_consumer <= bond
          /\ plan.compensation <= plan.from_provider
  <2>1. CASE outcome = "BREACH"
    BY <1>6, <2>1 DEF SettlementFor, Least
  <2>2. CASE outcome = "MET"
    BY <1>6, <2>2 DEF SettlementFor, Least
  <2>3. CASE outcome \notin {"BREACH", "MET"}
    BY <1>6, <2>3 DEF SettlementFor, Least
  <2>4. QED
    BY <2>1, <2>2, <2>3
<1>8. QED
  BY <1>2, <1>4, <1>5, <1>7 DEF Plan

\* What _settle sends out of the deposit it takes off the commitment, and what
\* it sends out of the bond is at most the bond it takes off; provider and
\* claimant may be one.
LEMMA SettleBacked ==
    ASSUME JudgeInv, JudgeInv', CommitmentsBacked, NEW k \in Keys, NEW outcome \in Outcomes,
           NEW resolver \in Parties, Open(k), Settle(k, outcome, resolver)
    PROVE  CommitmentsBacked'
<1>1. PICK slug \in Slugs, provider \in Parties \cup {Nobody}, claimant \in Parties :
          slug = SlugOfClaim(k) /\ provider = deposit_owner[slug] /\ claimant = claims[k].claimant
  BY PlanBounds, PlanParts DEF JudgeInv, TypeOK
<1>2. PICK fp \in Nat, c \in Nat, fc \in Nat, ba \in Nat :
          /\ fp = Plan(k, outcome).from_provider /\ c = Plan(k, outcome).compensation
          /\ fc = Plan(k, outcome).from_consumer /\ ba = BondAvailable(k)
  BY PlanBounds, PlanParts DEF JudgeInv
<1>3. c <= fp /\ fc <= ba /\ ba <= BondAmount
      /\ fp <= deposit_amount[slug] /\ (provider = Nobody => fp = 0)
  <2>1. c <= fp /\ fc <= ba /\ ba <= BondAmount
    BY <1>2, PlanParts DEF JudgeInv
  <2>2. PICK d \in Nat : d = DepositAvailable(slug) /\ d <= deposit_amount[slug]
                         /\ d <= EscrowOf(provider) /\ fp <= d
    BY <1>1, <1>2, PlanBounds DEF JudgeInv
  <2>3. deposit_amount[slug] \in Nat
    BY DEF JudgeInv, TypeOK
  <2>4. QED
    BY <2>1, <2>2, <2>3 DEF EscrowOf
<1>4. PICK m1, m2, m3, m4 :
          /\ m1 = <<provider, claimant, c>> /\ m2 = <<provider, resolver, fp - c>>
          /\ m3 = <<claimant, resolver, fc>> /\ m4 = <<claimant, claimant, ba - fc>>
  OBVIOUS
<1>5. Emit(<<m1, m2, m3, m4>>)
  BY <1>1, <1>2, <1>4 DEF Settle, SettlementReleases
<1>6. BondAmount \in Nat /\ Nobody \notin Parties
  BY JudgeAssumption
<1>7. ASSUME NEW a \in Parties \ recommitted' PROVE Backed(a)'
  <2> DEFINE taken == (IF a = provider THEN fp ELSE 0)
             paid == (IF a = claimant THEN ba ELSE 0)
  <2>1. EscrowOf(a)' = EscrowOf(a) /\ recommitted' = recommitted
    BY DEF Settle, EscrowOf, tokenVars, history
  <2>2. LeavingFrom(a)' <= LeavingFrom(a) + taken + paid
    <3>1. m1[3] \in Nat /\ m2[3] \in Nat /\ m3[3] \in Nat /\ m4[3] \in Nat
      BY <1>2, <1>3, <1>4
    <3>2. LeavingFrom(a)' <= LeavingFrom(a) + Part(m1, a) + Part(m2, a) + Part(m3, a) + Part(m4, a)
      BY <1>5, <3>1, FourLeave DEF JudgeInv
    <3>3. LeavingFrom(a) \in Nat
      BY AmountsAreNat DEF JudgeInv
    <3>4. /\ Part(m1, a) = IF a = provider THEN c ELSE 0
          /\ Part(m2, a) = IF a = provider THEN fp - c ELSE 0
          /\ Part(m3, a) = IF a = claimant THEN fc ELSE 0
          /\ Part(m4, a) = IF a = claimant THEN ba - fc ELSE 0
      BY <1>4 DEF Part
    <3>5. QED
      BY <1>2, <1>3, <3>2, <3>3, <3>4
  <2>3. deposit_committed'[a] = deposit_committed[a] - taken
    <3>1. deposit_committed'[a] = deposit_committed[a]
              - (IF a = provider THEN Least(fp, deposit_committed[a]) ELSE 0)
      BY <1>1, <1>2 DEF Settle
    <3>2. deposit_committed[a] \in Nat
      BY AmountsAreNat DEF JudgeInv
    <3>3. CASE a = provider
      <4>1. Share(a)[slug] = deposit_amount[slug]
        BY <1>1, <3>3 DEF Share
      <4>2. Share(a)[slug] \in Nat /\ Share(a)[slug] <= deposit_committed[a]
        BY ShareIsCommitted DEF JudgeInv
      <4>3. fp <= deposit_committed[a]
        BY <1>3, <3>2, <4>1, <4>2
      <4>4. QED
        BY <3>1, <3>2, <3>3, <4>3 DEF Least
    <3>4. CASE a # provider
      BY <3>1, <3>2, <3>4
    <3>5. QED
      BY <3>3, <3>4
  <2>4. bonded'[a] <= bonded[a] - paid
    <3>1. bonded' = [bonded EXCEPT ![claimant] = @ - Least(BondAmount, @)]
          /\ bonded \in [Parties -> Nat]
      BY <1>1, PlanParts DEF Settle, JudgeInv, TypeOK
    <3>2. CASE a = claimant
      <4>1. k \in OpenBy(a)
        BY <1>1, <3>2 DEF OpenBy
      <4>2. Cardinality(OpenBy(a)) \in Nat /\ Cardinality(OpenBy(a)) # 0
        BY <4>1, OpenIsFinite, FS_EmptySet
      <4>3. PICK n \in Nat : n + 1 = Cardinality(OpenBy(a))
        <5>1. Cardinality(OpenBy(a)) - 1 \in Nat
          BY <4>2
        <5>2. QED
          BY <4>2, <5>1
      <4>4. bonded[a] = BondAmount * (n + 1)
        BY <4>3 DEF JudgeInv, BooksAgree
      <4>5. BondAmount * (n + 1) = BondAmount * n + BondAmount /\ BondAmount * n \in Nat
        BY <1>6
      <4>6. bonded[a] >= BondAmount /\ bonded[a] \in Nat
        BY <1>6, <3>1, <4>4, <4>5
      <4>7. bonded'[a] = bonded[a] - BondAmount
        BY <1>6, <3>1, <3>2, <4>6 DEF Least
      <4>8. QED
        BY <1>2, <1>3, <1>6, <3>2, <4>6, <4>7
    <3>3. CASE a # claimant
      BY <3>1, <3>3
    <3>4. QED
      BY <3>2, <3>3
  <2>5. Backed(a)
    BY <2>1 DEF CommitmentsBacked
  <2>6. taken \in Nat /\ paid \in Nat
    BY <1>2
  <2>7. EscrowOf(a) \in Nat /\ bonded[a] \in Nat /\ deposit_committed[a] \in Nat
        /\ LeavingFrom(a) \in Nat /\ LeavingFrom(a)' \in Nat /\ bonded'[a] \in Nat
    <3>1. LeavingFrom(a)' \in Nat /\ bonded'[a] \in Nat
      BY FlowIsNat DEF JudgeInv, TypeOK, LeavingFrom
    <3>2. QED
      BY <3>1, AmountsAreNat DEF JudgeInv
  <2> HIDE DEF taken, paid
  <2>8. QED
    BY <2>1, <2>2, <2>3, <2>4, <2>5, <2>6, <2>7 DEF Backed
<1>8. \A p \in refused' : p[1] \in recommitted'
  BY DEF CommitmentsBacked, Settle, history
<1>9. QED
  BY <1>7, <1>8 DEF CommitmentsBacked

\* A release that is executed leaves the escrow as it leaves the flow, and one
\* that is refused asked for more than the escrow that backs it.
LEMMA DeliverReleaseBacked ==
    ASSUME JudgeInv, JudgeInv', CommitmentsBacked, NEW x \in Releases, DeliverRelease(x)
    PROVE  CommitmentsBacked'
<1>1. /\ inFlight[x] > 0 /\ inFlight' = [inFlight EXCEPT ![x] = @ - 1]
      /\ inFlight \in [Releases -> Nat] /\ inFlight' \in [Releases -> Nat]
      /\ UNCHANGED <<deposit_committed, bonded, recommitted>>
  BY DEF DeliverRelease, JudgeInv, TypeOK, depositVars, claimVars
<1>2. x[1] \in Parties /\ x[2] \in Parties /\ x[3] \in Nat /\ x[3] > 0
  BY TokenAssumption DEF Releases
<1>3. ASSUME NEW a \in Parties
      PROVE  /\ LeavingFrom(a) = LeavingFrom(a)' + Part(x, a)
             /\ LeavingFrom(a) \in Nat /\ LeavingFrom(a)' \in Nat /\ Part(x, a) \in Nat
  <2>1. PICK f, g : f = inFlight' /\ g = inFlight
    OBVIOUS
  <2>2. f \in [Releases -> Nat] /\ g \in [Releases -> Nat]
        /\ \A y \in Releases : g[y] = f[y] + (IF x = y THEN 1 ELSE 0)
    BY <1>1, <2>1
  <2>3. Flow(g, a) = Flow(f, a) + Part(x, a)
    BY <1>2, <2>2, FlowOfOneMore
  <2>4. Flow(f, a) \in Nat /\ Flow(g, a) \in Nat
    BY <2>2, FlowIsNat
  <2>5. QED
    BY <1>2, <2>1, <2>3, <2>4 DEF LeavingFrom, Part
<1>4. CASE Release(Judge, x[1], x[2], x[3]) /\ UNCHANGED refused
  <2>1. ASSUME NEW a \in Parties \ recommitted' PROVE Backed(a)'
    <3>1. EscrowOf(a)' = EscrowOf(a) - Part(x, a)
      <4>1. Judge \in Accounts /\ a \in Accounts /\ x[1] \in Accounts /\ a # Nobody
        BY <1>2, JudgeAssumption
      <4>2. escrows' = [escrows EXCEPT ![x[1]][Judge] = @ - x[3]]
            /\ escrows \in [Accounts -> [Accounts -> 0..Supply]]
        BY <1>4 DEF Release, JudgeInv, TypeOK, TokenTypeOK
      <4>3. escrows[a][Judge] \in Nat
        BY <4>1, <4>2, TokenAssumption
      <4>4. CASE a = x[1]
        BY <4>1, <4>2, <4>4 DEF EscrowOf, Part
      <4>5. CASE a # x[1]
        BY <4>1, <4>2, <4>3, <4>5 DEF EscrowOf, Part
      <4>6. QED
        BY <4>4, <4>5
    <3>2. Backed(a)
      BY <1>1 DEF CommitmentsBacked
    <3>3. EscrowOf(a) \in Nat /\ deposit_committed[a] \in Nat /\ bonded[a] \in Nat
      BY AmountsAreNat DEF JudgeInv
    <3>4. QED
      BY <1>1, <1>3, <3>1, <3>2, <3>3 DEF Backed
  <2>2. QED
    BY <1>1, <1>4, <2>1 DEF CommitmentsBacked
<1>5. CASE ~Releasable(Judge, x[1], x[3]) /\ UNCHANGED tokenVars
           /\ refused' = refused \cup {<<x[1], x[2]>>}
  <2>1. ASSUME NEW a \in Parties \ recommitted' PROVE Backed(a)'
    <3>1. EscrowOf(a)' = EscrowOf(a)
      BY <1>5 DEF EscrowOf, tokenVars
    <3>2. Backed(a)
      BY <1>1 DEF CommitmentsBacked
    <3>3. EscrowOf(a) \in Nat /\ deposit_committed[a] \in Nat /\ bonded[a] \in Nat
      BY AmountsAreNat DEF JudgeInv
    <3>4. QED
      BY <1>1, <1>3, <3>1, <3>2, <3>3 DEF Backed
  <2>2. x[1] \in recommitted
    <3>1. SUFFICES ASSUME x[1] \notin recommitted PROVE FALSE
      OBVIOUS
    <3>2. Backed(x[1])
      BY <1>2, <3>1 DEF CommitmentsBacked
    <3>3. LeavingFrom(x[1]) >= x[3]
      BY <1>2, <1>3 DEF Part
    <3>4. EscrowOf(x[1]) = escrows[x[1]][Judge]
      BY <1>2, JudgeAssumption DEF EscrowOf
    <3>5. EscrowOf(x[1]) \in Nat /\ deposit_committed[x[1]] \in Nat /\ bonded[x[1]] \in Nat
      BY <1>2, AmountsAreNat DEF JudgeInv
    <3>6. x[3] <= EscrowOf(x[1])
      BY <1>2, <1>3, <3>2, <3>3, <3>5 DEF Backed
    <3>7. QED
      BY <1>2, <1>5, <3>4, <3>6 DEF Releasable
  <2>3. QED
    BY <1>1, <1>5, <2>1, <2>2 DEF CommitmentsBacked
<1>6. QED
  BY <1>4, <1>5 DEF DeliverRelease

\* Only the judge lowers what is escrowed with it.
LEMMA UseTokenBacked ==
    ASSUME JudgeInv, JudgeInv', CommitmentsBacked, NEW a \in Parties, UseToken(a)
    PROVE  CommitmentsBacked'
<1>1. UNCHANGED <<inFlight, refused, recommitted, deposit_committed, bonded>>
  BY DEF UseToken, judgeVars, history, depositVars, claimVars
<1>2. Parties \subseteq Accounts /\ Judge \in Accounts /\ a # Judge /\ Custodians \subseteq Accounts
      /\ Nobody \notin Parties /\ Amounts \subseteq Nat
  BY JudgeAssumption, TokenAssumption
<1>3. escrows \in [Accounts -> [Accounts -> 0..Supply]]
  BY DEF JudgeInv, TypeOK, TokenTypeOK
<1>4. ASSUME NEW b \in Parties PROVE escrows'[b][Judge] >= escrows[b][Judge]
  <2>1. escrows[b][Judge] \in Nat
    BY <1>2, <1>3, TokenAssumption
  <2>2. CASE UNCHANGED escrows
    BY <2>1, <2>2
  <2>3. ASSUME NEW v \in Amounts, NEW c \in Custodians, Escrow(a, c, v)
        PROVE  escrows'[b][Judge] >= escrows[b][Judge]
    <3>1. escrows' = [escrows EXCEPT ![a][c] = @ + v] /\ v \in Nat
      BY <1>2, <2>3 DEF Escrow
    <3>2. QED
      BY <1>2, <1>3, <2>1, <3>1
  <2>4. ASSUME NEW v \in Transferred, NEW o \in Parties, NEW to \in Parties, Release(a, o, to, v)
        PROVE  escrows'[b][Judge] = escrows[b][Judge]
    <3>1. escrows' = [escrows EXCEPT ![o][a] = @ - v]
      BY <2>4 DEF Release
    <3>2. QED
      BY <1>2, <1>3, <3>1
  <2>5. QED
    BY <2>1, <2>2, <2>3, <2>4 DEF UseToken, Mint, Transfer
<1>5. \A b \in Parties : EscrowOf(b)' >= EscrowOf(b)
  BY <1>2, <1>4 DEF EscrowOf
<1>6. QED
  BY <1>1, <1>5, BackedStays DEF JudgeInv

LEMMA InitBacked == Init => CommitmentsBacked
<1> SUFFICES ASSUME Init PROVE CommitmentsBacked
  OBVIOUS
<1>1. TypeOK
  BY InitInv DEF JudgeInv
<1>2. ASSUME NEW a \in Parties PROVE Backed(a)
  <2>1. LeavingFrom(a) = 0
    BY <1>1, NothingLeaves DEF Init, Leaving
  <2>2. EscrowOf(a) \in Nat /\ deposit_committed[a] = 0 /\ bonded[a] = 0
    BY <1>1, AmountsAreNat DEF Init
  <2>3. QED
    BY <2>1, <2>2 DEF Backed
<1>3. QED
  BY <1>2 DEF CommitmentsBacked, Init

LEMMA StepBacked == JudgeInv /\ CommitmentsBacked /\ [Next]_vars => CommitmentsBacked'
<1> SUFFICES ASSUME JudgeInv, CommitmentsBacked, [Next]_vars PROVE CommitmentsBacked'
  OBVIOUS
<1>1. JudgeInv'
  BY StepInv
<1>2. ASSUME UNCHANGED <<inFlight, refused, recommitted, escrows, deposit_committed, bonded>>
      PROVE  CommitmentsBacked'
  BY <1>2 DEF CommitmentsBacked, Backed, LeavingFrom, Flow, EscrowOf
<1>3. ASSUME NEW a \in Parties, NEW s \in Slugs,
             RequestWithdrawal(a, s) \/ CancelWithdrawal(a, s)
      PROVE  CommitmentsBacked'
  BY <1>2, <1>3 DEF RequestWithdrawal, CancelWithdrawal, tokenVars, claimVars, history
<1>4. CASE DepositStep
  BY <1>1, <1>3, <1>4, FundDepositBacked, WithdrawDepositBacked DEF DepositStep
<1>5. ASSUME NEW a \in Parties, NEW k \in Keys,
             \/ \E s \in Slugs : SubmitClaim(a, k[1], k[2], s)
             \/ ResolveClaim(a, k)
             \/ CancelClaim(a, k)
      PROVE  CommitmentsBacked'
  <2>1. CASE \E s \in Slugs : SubmitClaim(a, k[1], k[2], s)
    BY <1>1, <2>1, SubmitClaimBacked
  <2>2. CASE ResolveClaim(a, k)
    BY <1>1, <2>2, SettleBacked DEF ResolveClaim, Outcomes
  <2>3. CASE CancelClaim(a, k)
    BY <1>1, <2>3, SettleBacked DEF CancelClaim, Outcomes
  <2>4. QED
    BY <1>5, <2>1, <2>2, <2>3
<1>6. CASE \E x \in Releases : DeliverRelease(x)
  BY <1>1, <1>6, DeliverReleaseBacked
<1>7. CASE \E a \in Parties : UseToken(a)
  BY <1>1, <1>7, UseTokenBacked
<1>8. CASE Tick \/ (\E r \in Requests : WriteVerdict(r)) \/ UNCHANGED vars
  BY <1>2, <1>8 DEF Tick, WriteVerdict, vars, tokenVars, judgeVars, depositVars, claimVars, history
<1>9. QED
  BY <1>4, <1>5, <1>6, <1>7, <1>8 DEF Next, ClaimStep

\* Every party that has committed escrow only while none of it was leaving has
\* an escrow that covers what its slugs advertise, the bonds of its open claims
\* and every release in flight from it; the token refuses no release from it.
THEOREM EscrowsCoverTheBooks == Spec => []EscrowCoversBooks
<1>1. ASSUME JudgeInv, CommitmentsBacked PROVE EscrowCoversBooks
  <2>1. ASSUME NEW a \in Parties \ recommitted
        PROVE  EscrowOf(a) >= LeavingFrom(a) + DepositsOf(a) + bonded[a]
    <3>1. PICK f : f = Share(a)
      OBVIOUS
    <3>2. DepositsOf(a) = Total(f, Slugs)
      <4>1. PICK g, T : g = deposit_amount /\ T = {s \in Slugs : deposit_owner[s] = a}
        OBVIOUS
      <4>2. T \in SUBSET Slugs /\ (\A s \in T : f[s] = g[s]) /\ \A s \in Slugs \ T : f[s] = 0
        BY <3>1, <4>1 DEF Share
      <4>3. Total(g, T) = Total(f, Slugs)
        BY <4>2, TotalOfSome
      <4>4. QED
        BY <4>1, <4>3 DEF DepositsOf
    <3>3. IsFiniteSet(Slugs) /\ Amounted(f, Slugs)
      BY <1>1, <3>1, JudgeAssumption DEF JudgeInv, TypeOK, Share, Amounted
    <3>4. DepositsOf(a) \in Nat /\ DepositsOf(a) <= deposit_committed[a]
      BY <1>1, <3>1, <3>2, <3>3, TotalCovers DEF JudgeInv, Covered
    <3>5. Backed(a)
      BY <1>1 DEF CommitmentsBacked
    <3>6. QED
      BY <1>1, <3>4, <3>5, AmountsAreNat DEF JudgeInv, Backed
  <2>2. QED
    BY <1>1, <2>1 DEF EscrowCoversBooks, CommitmentsBacked
<1>2. QED
  BY <1>1, InitInv, StepInv, InitBacked, StepBacked, PTL DEF Spec

\* fund_deposit on a slug in dispute is its depositor's, and does not lower
\* what the slug advertises unless that escrow was committed twice.
LEMMA TopUpsDoNotLower ==
    ASSUME JudgeInv, CommitmentsBacked, NEW sender \in Parties, NEW s \in Slugs,
           FundDeposit(sender, s), OpenOn(s) # {}, deposit_owner[s] # Nobody
    PROVE  /\ deposit_owner[s] = sender /\ deposit_owner'[s] = sender
           /\ deposit_amount'[s] >= deposit_amount[s] \/ sender \in recommitted'
<1>1. open_claims[s] # 0
  <2>1. Cardinality(OpenOn(s)) # 0
    BY OpenIsFinite, FS_EmptySet
  <2>2. QED
    BY <2>1 DEF JudgeInv, BooksAgree
<1>2. deposit_owner[s] = sender /\ deposit_owner'[s] = sender
  BY <1>1 DEF FundDeposit, Bindable, JudgeInv, TypeOK
<1>3. ASSUME sender \notin recommitted' PROVE deposit_amount'[s] >= deposit_amount[s]
  <2>1. Backed(sender)
    BY <1>3 DEF CommitmentsBacked, FundDeposit, Recommit
  <2>2. deposit_amount'[s] = EscrowOf(sender) - (deposit_committed[sender] - deposit_amount[s])
                                 - bonded[sender]
    BY <1>2 DEF FundDeposit, Allocatable, AvailableEscrow, CommittedElsewhere, JudgeInv, TypeOK
  <2>3. deposit_amount[s] \in Nat
    BY DEF JudgeInv, TypeOK
  <2>4. /\ EscrowOf(sender) \in Nat /\ LeavingFrom(sender) \in Nat
        /\ deposit_committed[sender] \in Nat /\ bonded[sender] \in Nat
    BY AmountsAreNat DEF JudgeInv
  <2>5. QED
    BY <2>1, <2>2, <2>3, <2>4 DEF Backed
<1>4. QED
  BY <1>2, <1>3

\* While a claim on a slug stays open, the slug keeps its depositor, and its
\* deposit falls only through the settlement of a claim on it, unless its
\* escrow was committed again while part of it was leaving.
THEOREM DisputesKeepTheirDeposit == Spec => DisputeKeepsItsDeposit
<1> DEFINE Kept(s) ==
        (OpenOn(s) \cap OpenOn(s)' # {} /\ deposit_owner[s] # Nobody) =>
            /\ deposit_owner'[s] = deposit_owner[s]
            /\ \/ deposit_amount'[s] >= deposit_amount[s]
               \/ OpenOn(s)' # OpenOn(s)
               \/ deposit_owner[s] \in recommitted'
<1>1. ASSUME JudgeInv, CommitmentsBacked, [Next]_vars, NEW s \in Slugs PROVE Kept(s)
  <2> SUFFICES ASSUME OpenOn(s) \cap OpenOn(s)' # {}, deposit_owner[s] # Nobody
               PROVE  /\ deposit_owner'[s] = deposit_owner[s]
                      /\ \/ deposit_amount'[s] >= deposit_amount[s]
                         \/ OpenOn(s)' # OpenOn(s)
                         \/ deposit_owner[s] \in recommitted'
    OBVIOUS
  <2>1. deposit_amount[s] \in Nat /\ OpenOn(s) # {}
    BY <1>1 DEF JudgeInv, TypeOK
  <2>2. ASSUME deposit_owner'[s] = deposit_owner[s], deposit_amount'[s] = deposit_amount[s]
        PROVE  deposit_owner'[s] = deposit_owner[s] /\ deposit_amount'[s] >= deposit_amount[s]
    BY <2>1, <2>2
  <2>3. open_claims[s] # 0
    <3>1. Cardinality(OpenOn(s)) # 0
      BY <2>1, OpenIsFinite, FS_EmptySet
    <3>2. QED
      BY <1>1, <3>1 DEF JudgeInv, BooksAgree
  <2>4. ASSUME NEW a \in Parties, NEW x \in Slugs, FundDeposit(a, x)
        PROVE  deposit_owner'[s] = deposit_owner[s]
               /\ (deposit_amount'[s] >= deposit_amount[s] \/ deposit_owner[s] \in recommitted')
    <3>1. CASE x = s
      BY <1>1, <2>1, <2>4, <3>1, TopUpsDoNotLower
    <3>2. CASE x # s
      <4>1. deposit_owner'[s] = deposit_owner[s] /\ deposit_amount'[s] = deposit_amount[s]
        BY <1>1, <2>4, <3>2 DEF FundDeposit, JudgeInv, TypeOK
      <4>2. QED
        BY <2>2, <4>1
    <3>3. QED
      BY <3>1, <3>2
  <2>5. ASSUME NEW a \in Parties, NEW x \in Slugs, WithdrawDeposit(a, x)
        PROVE  deposit_owner'[s] = deposit_owner[s] /\ deposit_amount'[s] = deposit_amount[s]
    <3>1. x # s
      BY <2>3, <2>5 DEF WithdrawDeposit, Withdrawable
    <3>2. QED
      BY <1>1, <2>5, <3>1 DEF WithdrawDeposit, JudgeInv, TypeOK
  <2>6. ASSUME NEW k \in Keys, NEW outcome \in Outcomes, NEW a \in Parties,
               Open(k), Settle(k, outcome, a)
        PROVE  deposit_owner'[s] = deposit_owner[s]
               /\ (deposit_amount'[s] >= deposit_amount[s] \/ OpenOn(s)' # OpenOn(s))
    <3>1. deposit_owner' = deposit_owner
      BY <2>6 DEF Settle
    <3>2. CASE SlugOfClaim(k) = s
      <4>1. k \in OpenOn(s)
        BY <2>6, <3>2 DEF OpenOn
      <4>2. claims'[k].outcome = outcome
        BY <1>1, <2>6, SettledClaim
      <4>3. k \notin OpenOn(s)'
        BY <4>2 DEF OpenOn, Open, Outcomes, Judgments
      <4>4. QED
        BY <3>1, <4>1, <4>3
    <3>3. CASE SlugOfClaim(k) # s
      <4>1. deposit_amount'[s] = deposit_amount[s]
        BY <1>1, <2>6, <3>3 DEF Settle, JudgeInv, TypeOK
      <4>2. QED
        BY <2>2, <3>1, <4>1
    <3>4. QED
      BY <3>2, <3>3
  <2>7. CASE UNCHANGED <<deposit_owner, deposit_amount>>
    BY <2>2, <2>7
  <2>8. CASE DepositStep
    BY <2>2, <2>4, <2>5, <2>7, <2>8 DEF DepositStep, RequestWithdrawal, CancelWithdrawal
  <2>9. CASE ClaimStep
    BY <2>6, <2>7, <2>9
       DEF ClaimStep, SubmitClaim, ResolveClaim, CancelClaim, depositVars, Outcomes
  <2>10. CASE ~DepositStep /\ ~ClaimStep
    BY <1>1, <2>7, <2>10
       DEF Next, DeliverRelease, UseToken, WriteVerdict, Tick, vars, judgeVars, depositVars
  <2>11. QED
    BY <2>8, <2>9, <2>10
<1>2. JudgeInv /\ CommitmentsBacked /\ [Next]_vars => [\A s \in Slugs : Kept(s)]_vars
  BY <1>1
<1>3. QED
  BY <1>2, InitInv, StepInv, InitBacked, StepBacked, PTL DEF Spec, DisputeKeepsItsDeposit
=============================================================================
