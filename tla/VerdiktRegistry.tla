--------------------------- MODULE VerdiktRegistry ---------------------------
(***************************************************************************)
(* contracts/src/VerdiktRegistry.sol: registrar and escrow on Arc.         *)
(*                                                                         *)
(* A transaction runs alone on the chain, so an external function is one   *)
(* step, except where it hands control to foreign code: `_send` calls the  *)
(* recipient, and until that call returns the recipient may call back any  *)
(* function that does not take the lock.  `frame` is that outgoing call.   *)
(* If the recipient refuses the value the whole transaction reverts, its   *)
(* nested effects included, to the storage saved in the frame.             *)
(*                                                                         *)
(* A call that reverts leaves no trace, so a revert is a false guard.      *)
(* Events are not state and are left out, as is the clause a verdict names.*)
(***************************************************************************)
EXTENDS Totals

CONSTANTS
    ServiceIds,             \* hashes of slugs _assertValidSlug accepts
    RequestIds,             \* paid calls a report can be about
    Accounts,               \* every non-zero address that takes part
    ZeroAddress,            \* address(0)
    Nonces,                 \* nonces of withdrawal authorizations
    Signed,                 \* withdrawal authorizations payers have signed
    Reports,                \* reports some workflow's DON has signed
    FORWARDER,              \* the only caller onReport accepts
    WORKFLOW_OWNER,         \* whose workflow may write verdicts
    DEPOSIT_AMOUNT,         \* the bond, in native units
    FIXED_REFUND,           \* the most one verdict credits, in native units
    NATIVE_PER_MINOR_UNIT,  \* native units per unit of an x402 amount
    MAX_UINT,               \* type(uint256).max
    SUPPLY,                 \* all the native value there is on Arc
    MaxTime,                \* bound on block.timestamp
    NoCall                  \* no call out of the registry is in progress

Outcome == {"PASS", "FAIL", "DOWN"}
Status == {"NONE", "ACTIVE", "SUSPENDED", "DEREGISTERED"}

\* A report: who delivers it, the owner in its header, and its payload.  A
\* truncated header, or a workflow name other than the pinned one, counts as
\* another owner.
Report == [sender: Accounts \cup {FORWARDER},
           workflowOwner: Accounts \cup {WORKFLOW_OWNER}, serviceId: ServiceIds,
           requestId: RequestIds, outcome: Outcome, payer: Accounts, paidAmount: Nat]

\* What a payer signs for withdrawWithAuthorization; the contract recovers
\* `payer` from the signature.  Bytes nobody signed recover to an address that
\* is owed nothing, and revert, so they are not enumerated.
Authorization == [payer: Accounts, recipient: Accounts, amount: Nat,
                  validBefore: Nat, nonce: Nonces]

\* The constructor's requires.
ASSUME ConstructorAssumption ==
    /\ DEPOSIT_AMOUNT \in Nat \ {0}
    /\ FIXED_REFUND \in Nat \ {0}
    /\ FIXED_REFUND <= DEPOSIT_AMOUNT

\* Services, calls, accounts and signatures are finitely many, reports and
\* authorizations are well formed, and the supply fits a uint256.
ASSUME InputAssumption ==
    /\ IsFiniteSet(ServiceIds) /\ IsFiniteSet(RequestIds)
    /\ IsFiniteSet(Accounts) /\ IsFiniteSet(Signed)
    /\ ZeroAddress \notin Accounts
    /\ \A r \in Reports : r \in Report
    /\ \A a \in Signed : a \in Authorization
    /\ NATIVE_PER_MINOR_UNIT \in Nat \ {0}
    /\ MAX_UINT \in Nat /\ SUPPLY \in Nat /\ SUPPLY <= MAX_UINT
    /\ FIXED_REFUND <= MAX_UINT
    /\ MaxTime \in Nat \ {0}

Least(a, b) == IF a <= b THEN a ELSE b

VARIABLES
    services,           \* _services
    verdicts,           \* _verdicts
    owed,               \* _owed
    usedAuthorizations, \* _usedAuthorizations
    balance,            \* address(this).balance
    withdrawn,          \* history: value each payer took with withdraw()
    redeemed,           \* history: times each authorization was honoured
    lock,               \* _lock
    frame,              \* the call `_send` is making, or NoCall
    now                 \* block.timestamp

storageVars == <<services, verdicts, owed, usedAuthorizations, balance, withdrawn, redeemed>>
vars == <<services, verdicts, owed, usedAuthorizations, balance, withdrawn, redeemed,
          lock, frame, now>>

Unregistered == [provider |-> ZeroAddress, status |-> "NONE", deposit |-> 0]
Unwritten == [serviceId |-> ZeroAddress, outcome |-> "PASS", payer |-> ZeroAddress,
              paidAmount |-> 0, refundCredited |-> 0, writtenAt |-> 0]

Service == [provider: Accounts \cup {ZeroAddress}, status: Status, deposit: Nat]
Verdict == [serviceId: ServiceIds \cup {ZeroAddress}, outcome: Outcome,
            payer: Accounts \cup {ZeroAddress}, paidAmount: Nat,
            refundCredited: Nat, writtenAt: Nat]

\* Everything a reverted transaction gives back.
Storage == [services: [ServiceIds -> Service], verdicts: [RequestIds -> Verdict],
            owed: [Accounts -> Nat], usedAuthorizations: [Accounts -> SUBSET Nonces],
            balance: Nat, withdrawn: [Accounts -> Nat], redeemed: [Signed -> Nat]]

Snapshot == [services |-> services, verdicts |-> verdicts, owed |-> owed,
             usedAuthorizations |-> usedAuthorizations, balance |-> balance,
             withdrawn |-> withdrawn, redeemed |-> redeemed]

\* The call to the recipient.  Whether its code will end by accepting the
\* value is fixed when the call is made and looked at only when it returns.
Call == [to: Accounts, amount: Nat, accepts: BOOLEAN, saved: Storage]

ASSUME NoCallAssumption == NoCall \notin Call

TypeOK ==
    /\ Snapshot \in Storage
    /\ lock \in {1, 2}
    /\ frame \in Call \cup {NoCall}
    /\ now \in 1..MaxTime

Init ==
    /\ services = [s \in ServiceIds |-> Unregistered]
    /\ verdicts = [r \in RequestIds |-> Unwritten]
    /\ owed = [a \in Accounts |-> 0]
    /\ usedAuthorizations = [a \in Accounts |-> {}]
    /\ balance = 0
    /\ withdrawn = [a \in Accounts |-> 0]
    /\ redeemed = [a \in Signed |-> 0]
    /\ lock = 1
    /\ frame = NoCall
    /\ now = 1

(***************************************************************************)
(* Value leaving the registry.                                             *)
(***************************************************************************)

\* `_send`: the value moves with the call, and control is the recipient's.
Send(to, amount) ==
    IF amount = 0
    THEN UNCHANGED <<balance, lock, frame>>
    ELSE /\ amount <= balance
         /\ balance' = balance - amount
         /\ lock' = 2
         /\ \E accepts \in BOOLEAN :
              frame' = [to |-> to, amount |-> amount, accepts |-> accepts, saved |-> Snapshot]

\* The recipient accepted: the locked function ends and releases its lock.
SendReturns ==
    /\ frame # NoCall /\ frame.accepts
    /\ lock' = 1
    /\ frame' = NoCall
    /\ UNCHANGED <<storageVars, now>>

\* The recipient refused: TransferFailed reverts the whole transaction.
SendReverts ==
    /\ frame # NoCall /\ ~frame.accepts
    /\ services' = frame.saved.services
    /\ verdicts' = frame.saved.verdicts
    /\ owed' = frame.saved.owed
    /\ usedAuthorizations' = frame.saved.usedAuthorizations
    /\ balance' = frame.saved.balance
    /\ withdrawn' = frame.saved.withdrawn
    /\ redeemed' = frame.saved.redeemed
    /\ lock' = 1
    /\ frame' = NoCall
    /\ UNCHANGED now

(***************************************************************************)
(* Provider writes.                                                        *)
(***************************************************************************)

\* Value that comes in exists outside the registry first.
Affordable(v) == balance + v <= SUPPLY

\* The services once the status and the deposit of s are rewritten.
Updated(s, status, deposit) ==
    [services EXCEPT ![s] = [provider |-> @.provider, status |-> status, deposit |-> deposit]]

\* Mutants: a slug free again once its service is gone, or whenever inactive.
RegistrableAfterExit(s) == services[s].status \in {"NONE", "DEREGISTERED"}
RegistrableUnlessActive(s) == services[s].status # "ACTIVE"

Registrable(s) == services[s].status = "NONE"

Register(s, sender) ==
    /\ Registrable(s)
    /\ Affordable(DEPOSIT_AMOUNT)
    /\ services' = [services EXCEPT ![s] =
                      [provider |-> sender, status |-> "ACTIVE", deposit |-> DEPOSIT_AMOUNT]]
    /\ balance' = balance + DEPOSIT_AMOUNT
    /\ UNCHANGED <<verdicts, owed, usedAuthorizations, withdrawn, redeemed, lock, frame, now>>

\* Mutant: any dust reinstates.
ReinstatedOnDust(status, deposit) ==
    IF status = "SUSPENDED" /\ deposit > 0 THEN "ACTIVE" ELSE status

\* Only a bond back at full wakes a suspended service.
Reinstated(status, deposit) ==
    IF status = "SUSPENDED" /\ deposit >= DEPOSIT_AMOUNT THEN "ACTIVE" ELSE status

TopUp(s, value) ==
    LET deposit == services[s].deposit + value IN
    /\ services[s].status \notin {"NONE", "DEREGISTERED"}
    /\ Affordable(value)
    /\ services' = Updated(s, Reinstated(services[s].status, deposit), deposit)
    /\ balance' = balance + value
    /\ UNCHANGED <<verdicts, owed, usedAuthorizations, withdrawn, redeemed, lock, frame, now>>

\* Mutant: a suspended service may leave.
MayAlwaysDeregister(s) == services[s].status # "DEREGISTERED"

MayDeregister(s) == services[s].status = "ACTIVE"

Deregister(s, sender) ==
    /\ lock = 1
    /\ services[s].provider = sender
    /\ MayDeregister(s)
    /\ services' = Updated(s, "DEREGISTERED", 0)
    /\ Send(sender, services[s].deposit)
    /\ UNCHANGED <<verdicts, owed, usedAuthorizations, withdrawn, redeemed, now>>

(***************************************************************************)
(* Verdict entry.                                                          *)
(***************************************************************************)

AuthenticateReport(report) ==
    /\ report.sender = FORWARDER
    /\ report.workflowOwner = WORKFLOW_OWNER

\* An x402 amount in native units; the conversion saturates, it never wraps.
PaidNative(paidAmount) ==
    IF paidAmount > MAX_UINT \div NATIVE_PER_MINOR_UNIT
    THEN MAX_UINT
    ELSE paidAmount * NATIVE_PER_MINOR_UNIT

\* Mutants: no cap at the remaining deposit; a fixed penalty whatever was paid.
CreditedUncapped(outcome, paidAmount, deposit) ==
    IF outcome = "PASS" THEN 0 ELSE Least(FIXED_REFUND, PaidNative(paidAmount))
CreditedPenalty(outcome, paidAmount, deposit) ==
    IF outcome = "PASS" THEN 0 ELSE Least(deposit, FIXED_REFUND)

Credited(outcome, paidAmount, deposit) ==
    IF outcome = "PASS" THEN 0
    ELSE Least(deposit, Least(FIXED_REFUND, PaidNative(paidAmount)))

\* A drained bond suspends the service.
Drained(status, deposit) == IF status = "ACTIVE" /\ deposit = 0 THEN "SUSPENDED" ELSE status

\* Mutant: a second report for the same call is recorded too.
RecordableAgain(report) == services[report.serviceId].status \notin {"NONE", "DEREGISTERED"}

\* DUPLICATE_REQUEST, UNKNOWN_SERVICE and SERVICE_DEREGISTERED are declined
\* with an event and no change of state.
Recordable(report) ==
    /\ verdicts[report.requestId].writtenAt = 0
    /\ services[report.serviceId].status \notin {"NONE", "DEREGISTERED"}

RecordVerdict(report) ==
    LET s == report.serviceId
        credited == Credited(report.outcome, report.paidAmount, services[s].deposit)
        deposit == services[s].deposit - credited
    IN
    /\ Recordable(report)
    /\ verdicts' = [verdicts EXCEPT ![report.requestId] =
                      [serviceId |-> s, outcome |-> report.outcome, payer |-> report.payer,
                       paidAmount |-> report.paidAmount, refundCredited |-> credited,
                       writtenAt |-> now]]
    /\ owed' = [owed EXCEPT ![report.payer] = @ + credited]
    /\ services' = Updated(s, Drained(services[s].status, deposit), deposit)

OnReport(report) ==
    /\ AuthenticateReport(report)
    /\ RecordVerdict(report)
    /\ UNCHANGED <<usedAuthorizations, balance, withdrawn, redeemed, lock, frame, now>>

(***************************************************************************)
(* Payer writes.                                                           *)
(***************************************************************************)

Withdraw(sender) ==
    /\ lock = 1
    /\ owed[sender] # 0
    /\ owed' = [owed EXCEPT ![sender] = 0]
    /\ withdrawn' = [withdrawn EXCEPT ![sender] = @ + owed[sender]]
    /\ Send(sender, owed[sender])
    /\ UNCHANGED <<services, verdicts, usedAuthorizations, redeemed, now>>

\* What withdrawWithAuthorization asks of a recovered authorization.
Redeemable(auth) ==
    /\ now < auth.validBefore
    /\ auth.amount # 0
    /\ auth.nonce \notin usedAuthorizations[auth.payer]
    /\ auth.amount <= owed[auth.payer]

WithdrawWithAuthorization(auth) ==
    /\ lock = 1
    /\ Redeemable(auth)
    /\ usedAuthorizations' = [usedAuthorizations EXCEPT ![auth.payer] = @ \cup {auth.nonce}]
    /\ owed' = [owed EXCEPT ![auth.payer] = @ - auth.amount]
    /\ redeemed' = [redeemed EXCEPT ![auth] = @ + 1]
    /\ Send(auth.recipient, auth.amount)
    /\ UNCHANGED <<services, verdicts, withdrawn, now>>

\* Blocks follow each other; within a transaction the timestamp stands still.
Tick ==
    /\ frame = NoCall
    /\ now < MaxTime
    /\ now' = now + 1
    /\ UNCHANGED <<storageVars, lock, frame>>

Next ==
    \/ \E s \in ServiceIds, a \in Accounts : Register(s, a)
    \/ \E s \in ServiceIds, v \in 0..SUPPLY : TopUp(s, v)
    \/ \E s \in ServiceIds, a \in Accounts : Deregister(s, a)
    \/ \E r \in Reports : OnReport(r)
    \/ \E a \in Accounts : Withdraw(a)
    \/ \E a \in Signed : WithdrawWithAuthorization(a)
    \/ SendReturns
    \/ SendReverts
    \/ Tick

Spec == Init /\ [][Next]_vars

-----------------------------------------------------------------------------
(***************************************************************************)
(* Properties.                                                             *)
(***************************************************************************)

\* The bond and the status move together, also in the middle of a call: an
\* active service has something to refund from, a suspended one has less than
\* a full bond, and a delisted one holds nothing a nested topUp could strand.
StatusMatchesBondIn(storage) ==
    \A s \in ServiceIds :
        LET service == storage.services[s] IN
        /\ service.status = "NONE" => service = Unregistered
        /\ service.status # "NONE" => service.provider \in Accounts
        /\ service.status = "ACTIVE" => service.deposit > 0
        /\ service.status = "SUSPENDED" => service.deposit < DEPOSIT_AMOUNT
        /\ service.status = "DEREGISTERED" => service.deposit = 0

\* The same of the storage as it stands, whoever holds control.
StatusMatchesBond == StatusMatchesBondIn(Snapshot)

\* The bonds of a storage, by service.
Deposits(storage) == [s \in ServiceIds |-> storage.services[s].deposit]

\* The balance of a storage is its bonds plus its credits.
SolventIn(storage) ==
    storage.balance = Total(Deposits(storage), ServiceIds) + Total(storage.owed, Accounts)

\* The registry holds exactly the bonds plus what it owes to payers, whatever
\* the recipient of a transfer calls back into while it runs.
Solvent == SolventIn(Snapshot)

\* Whoever is paid next, the value is there: a service's bond and a payer's
\* credit can both leave, also from inside a call that is paying somebody
\* else, so that no transfer ever fails for want of funds.
EveryClaimIsCovered ==
    \A s \in ServiceIds, a \in Accounts : services[s].deposit + owed[a] <= balance

\* Value a payer has taken out of the registry so far.
CollectedIn(storage, p) ==
    storage.withdrawn[p]
    + Total([a \in Signed |-> a.amount * storage.redeemed[a]], {a \in Signed : a.payer = p})

\* The verdicts that name p as the payer, and those of calls that failed it.
VerdictsFor(storage, p) == {r \in RequestIds : storage.verdicts[r].payer = p}
FailuresFor(storage, p) == {r \in VerdictsFor(storage, p) : storage.verdicts[r].outcome # "PASS"}

\* What the verdicts credited, and what was paid for the calls they judge.
Refunds(storage) == [r \in RequestIds |-> storage.verdicts[r].refundCredited]
Prices(storage) == [r \in RequestIds |-> storage.verdicts[r].paidAmount * NATIVE_PER_MINOR_UNIT]

\* What verdicts credited to a payer is what it is owed and what it collected.
RefundsAccountedIn(storage) ==
    \A p \in Accounts :
        Total(Refunds(storage), VerdictsFor(storage, p)) = storage.owed[p] + CollectedIn(storage, p)

\* Each nonce of a payer moves value at most once, whichever of the
\* authorizations signed with it is relayed first and however often.
NonceSingleUseIn(storage) ==
    \A a \in Signed :
        /\ storage.redeemed[a] \in {0, 1}
        /\ storage.redeemed[a] = 1 => a.nonce \in storage.usedAuthorizations[a.payer]
        /\ \A b \in Signed :
             /\ b # a /\ b.payer = a.payer /\ b.nonce = a.nonce
             /\ storage.redeemed[a] = 1
             => storage.redeemed[b] = 0

\* The same of the storage as it stands, also while a recipient is called.
NonceSingleUse == NonceSingleUseIn(Snapshot)

\* Every unit credited by a verdict is either still owed or was collected, by
\* withdraw or by an authorization, exactly once; and of the authorizations a
\* payer signed with one nonce, one at most has collected, once.
RefundsAccounted == RefundsAccountedIn(Snapshot) /\ NonceSingleUseIn(Snapshot)

\* A payer never gets out more than it paid for the calls that failed: making
\* a service fail is never profitable (the contract's property 1).
NoProfitFromFailure ==
    \A p \in Accounts :
        owed[p] + CollectedIn(Snapshot, p) <= Total(Prices(Snapshot), FailuresFor(Snapshot, p))

\* A recorded verdict says what a report of the pinned workflow, delivered by
\* the forwarder, said; no other CRE user's report leaves a trace.
AttestedIn(recorded) ==
    \A r \in RequestIds :
        recorded[r].writtenAt # 0 =>
            \E report \in Reports :
                /\ report.sender = FORWARDER /\ report.workflowOwner = WORKFLOW_OWNER
                /\ report.requestId = r
                /\ report.serviceId = recorded[r].serviceId
                /\ report.outcome = recorded[r].outcome
                /\ report.payer = recorded[r].payer

\* The same of the verdicts as they stand, also while a recipient is called.
VerdictsAreAttested == AttestedIn(verdicts)

\* The storage other transactions will find: inside a call it is what the
\* transaction started from, because the recipient may still undo the rest.
Committed == IF frame = NoCall THEN Snapshot ELSE frame.saved

\* A verdict, once committed, is final: no duplicate report, refusing payer or
\* reverted transfer changes or erases it.
VerdictsFinal ==
    [][\A r \in RequestIds :
         Committed.verdicts[r].writtenAt # 0 =>
            (Committed.verdicts[r])' = Committed.verdicts[r]]_vars

\* The verdict history kept under a serviceId is one provider's: the provider
\* never changes, and a deregistered slug never comes back.
HistoryHasOneProvider ==
    [][\A s \in ServiceIds :
         LET service == Committed.services[s] IN
         /\ service.status # "NONE" => (Committed.services[s].provider)' = service.provider
         /\ service.status = "DEREGISTERED" => (Committed.services[s])' = service]_vars

\* While a service is suspended its bond only shrinks into a payer's credit,
\* unless the transaction is being undone (the contract's property 3).
ProviderCannotWalkAway ==
    [][\A s \in ServiceIds :
         LET loss == services[s].deposit - services'[s].deposit IN
         services[s].status = "SUSPENDED" /\ loss > 0 /\ ~SendReverts =>
            \E p \in Accounts : owed'[p] = owed[p] + loss]_vars

(***************************************************************************)
(* The registry implements the escrow: a transaction that will be undone   *)
(* shows nothing of what it does, any other one takes effect as it goes.   *)
(***************************************************************************)
View == IF frame # NoCall /\ ~frame.accepts THEN frame.saved ELSE Snapshot

Ledger == INSTANCE EscrowLedger WITH
    Services <- ServiceIds, Requests <- RequestIds, Nobody <- ZeroAddress,
    Bond <- DEPOSIT_AMOUNT, RefundCap <- FIXED_REFUND, Supply <- SUPPLY,
    standing <- [s \in ServiceIds |-> View.services[s].status],
    owner <- [s \in ServiceIds |-> View.services[s].provider],
    bond <- [s \in ServiceIds |-> View.services[s].deposit],
    ruling <- [r \in RequestIds |-> [ruled |-> View.verdicts[r].writtenAt # 0,
                                     refund |-> View.verdicts[r].refundCredited]],
    credit <- View.owed,
    held <- View.balance

\* Every behaviour of the registry, with its nested calls and its reverts, is
\* one of the escrow's: reentrancy shows no state a sequence of whole
\* operations could not have produced.
ImplementsLedger == Ledger!Spec
=============================================================================
