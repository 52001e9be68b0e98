------------------------ MODULE VerdiktRegistryProofs ------------------------
(***************************************************************************)
(* Proofs about VerdiktRegistry, for every value of its constants.         *)
(***************************************************************************)
EXTENDS VerdiktRegistry, TotalsProofs

\* The saved storage is an earlier state of the same accounts: verdicts and
\* providers in it are still there, and what was delisted still is.
Extends(old, new) ==
    /\ \A r \in RequestIds :
         old.verdicts[r].writtenAt # 0 => new.verdicts[r] = old.verdicts[r]
    /\ \A s \in ServiceIds :
         /\ old.services[s].status # "NONE" =>
              /\ new.services[s].provider = old.services[s].provider
              /\ new.services[s].status # "NONE"
         /\ old.services[s].status = "DEREGISTERED" => new.services[s] = old.services[s]

\* What holds of any storage the registry can be in or be sent back to.
StorageInv(storage) ==
    /\ storage \in Storage
    /\ storage.balance <= SUPPLY
    /\ StatusMatchesBondIn(storage)
    /\ NonceSingleUseIn(storage)

\* The inductive invariant.
IInv ==
    /\ StorageInv(Snapshot)
    /\ lock \in {1, 2} /\ now \in 1..MaxTime
    /\ lock = 2 <=> frame # NoCall
    /\ frame # NoCall =>
         /\ frame \in Call
         /\ StorageInv(frame.saved)
         /\ Extends(frame.saved, Snapshot)

-----------------------------------------------------------------------------
(***************************************************************************)
(* Lemmas.                                                                 *)
(***************************************************************************)

\* A credited refund is a natural number within the bond and the fixed refund.
LEMMA CreditedBounds ==
    ASSUME NEW o \in Outcome, NEW paid \in Nat, NEW deposit \in Nat
    PROVE  /\ Credited(o, paid, deposit) \in Nat
           /\ Credited(o, paid, deposit) <= deposit
           /\ Credited(o, paid, deposit) <= FIXED_REFUND
<1>1. PaidNative(paid) \in Nat
  BY InputAssumption DEF PaidNative
<1>2. QED
  BY <1>1, ConstructorAssumption DEF Credited, Least

\* A snapshot is a storage exactly when each of its fields has its type.
LEMMA SnapshotType ==
    Snapshot \in Storage <=>
        /\ services \in [ServiceIds -> Service]
        /\ verdicts \in [RequestIds -> Verdict]
        /\ owed \in [Accounts -> Nat]
        /\ usedAuthorizations \in [Accounts -> SUBSET Nonces]
        /\ balance \in Nat
        /\ withdrawn \in [Accounts -> Nat]
        /\ redeemed \in [Signed -> Nat]
BY DEF Snapshot, Storage

\* The same after a step.
LEMMA SnapshotTypeNext ==
    (Snapshot \in Storage)' <=>
        /\ services' \in [ServiceIds -> Service]
        /\ verdicts' \in [RequestIds -> Verdict]
        /\ owed' \in [Accounts -> Nat]
        /\ usedAuthorizations' \in [Accounts -> SUBSET Nonces]
        /\ balance' \in Nat
        /\ withdrawn' \in [Accounts -> Nat]
        /\ redeemed' \in [Signed -> Nat]
BY DEF Snapshot, Storage

\* The initial storage.
LEMMA InitInv == Init => IInv
<1> SUFFICES ASSUME Init PROVE IInv
  OBVIOUS
<1>1. Snapshot \in Storage
  BY SnapshotType DEF Init, Service, Verdict, Unregistered, Unwritten, Status, Outcome
<1>2. StatusMatchesBondIn(Snapshot)
  BY DEF Init, StatusMatchesBondIn, Snapshot, Unregistered
<1>3. NonceSingleUseIn(Snapshot)
  BY DEF Init, NonceSingleUseIn, Snapshot
<1>4. QED
  BY <1>1, <1>2, <1>3, InputAssumption DEF Init, IInv, StorageInv, Snapshot

\* A call that is made saves the storage the transaction started from; only
\* the balance moves with it.
LEMMA SendEffect ==
    ASSUME NEW to \in Accounts, NEW amount \in Nat, Snapshot \in Storage,
           Snapshot.balance <= SUPPLY, lock = 1, frame = NoCall, Send(to, amount)
    PROVE  /\ balance' \in 0..SUPPLY
           /\ \/ lock' = 1 /\ frame' = NoCall
              \/ lock' = 2 /\ frame' \in Call /\ frame'.saved = Snapshot
           /\ frame' # NoCall <=> lock' = 2
<1>0. balance \in 0..SUPPLY /\ SUPPLY \in Nat
  BY SnapshotType, InputAssumption DEF Snapshot
<1>1. CASE amount = 0
  BY <1>0, <1>1 DEF Send
<1>2. CASE amount # 0
  <2>1. balance' \in 0..SUPPLY /\ lock' = 2
    BY <1>0, <1>2 DEF Send
  <2>2. PICK accepts \in BOOLEAN :
          frame' = [to |-> to, amount |-> amount, accepts |-> accepts, saved |-> Snapshot]
    BY <1>2 DEF Send
  <2>3. frame' \in Call /\ frame'.saved = Snapshot
    BY <2>2 DEF Call
  <2>4. frame' # NoCall
    BY <2>3, NoCallAssumption
  <2>5. QED
    BY <2>1, <2>3, <2>4
<1>3. QED
  BY <1>1, <1>2

\* Register
LEMMA RegisterInv ==
    ASSUME NEW s \in ServiceIds, NEW a \in Accounts, StorageInv(Snapshot), Register(s, a)
    PROVE  StorageInv(Snapshot)' /\ Extends(Snapshot, Snapshot')
<1> USE ConstructorAssumption DEF Register, Registrable, StorageInv
<1>1. (Snapshot \in Storage)'
  BY SnapshotType, SnapshotTypeNext, InputAssumption DEF Service, Status
<1>2. StatusMatchesBondIn(Snapshot)'
  BY SnapshotType DEF StatusMatchesBondIn, Snapshot, Unregistered
<1>3. NonceSingleUseIn(Snapshot)'
  BY DEF NonceSingleUseIn, Snapshot
<1>4. Extends(Snapshot, Snapshot')
  BY SnapshotType DEF Extends, Snapshot
<1>5. (Snapshot.balance <= SUPPLY)'
  BY InputAssumption DEF Snapshot, Affordable
<1>6. QED
  BY <1>1, <1>2, <1>3, <1>4, <1>5

\* TopUp
LEMMA TopUpInv ==
    ASSUME NEW s \in ServiceIds, NEW v \in Nat, StorageInv(Snapshot), TopUp(s, v)
    PROVE  StorageInv(Snapshot)' /\ Extends(Snapshot, Snapshot')
<1> DEFINE deposit == services[s].deposit + v
<1> USE ConstructorAssumption DEF TopUp, Reinstated, StorageInv
<1>1. services \in [ServiceIds -> Service] /\ deposit \in Nat
  BY SnapshotType DEF Service
<1>2. services' = [services EXCEPT ![s] =
                     [provider |-> services[s].provider,
                      status |-> Reinstated(services[s].status, deposit),
                      deposit |-> deposit]]
  BY DEF Updated
<1>3. (Snapshot \in Storage)'
  <2>1. [provider |-> services[s].provider, status |-> Reinstated(services[s].status, deposit),
         deposit |-> deposit] \in Service
    BY <1>1 DEF Service, Status
  <2>2. services' \in [ServiceIds -> Service]
    BY <1>1, <1>2, <2>1
  <2>3. balance' \in Nat
    BY SnapshotType
  <2>4. QED
    BY <2>2, <2>3, SnapshotType, SnapshotTypeNext
<1>4. StatusMatchesBondIn(Snapshot)'
  <2>1. ASSUME NEW x \in ServiceIds
        PROVE  LET service == services'[x] IN
               /\ service.status = "NONE" => service = Unregistered
               /\ service.status # "NONE" => service.provider \in Accounts
               /\ service.status = "ACTIVE" => service.deposit > 0
               /\ service.status = "SUSPENDED" => service.deposit < DEPOSIT_AMOUNT
               /\ service.status = "DEREGISTERED" => service.deposit = 0
    <3>1. /\ services[x].status = "NONE" => services[x] = Unregistered
          /\ services[x].status # "NONE" => services[x].provider \in Accounts
          /\ services[x].status = "ACTIVE" => services[x].deposit > 0
          /\ services[x].status = "SUSPENDED" => services[x].deposit < DEPOSIT_AMOUNT
          /\ services[x].status = "DEREGISTERED" => services[x].deposit = 0
      BY DEF StatusMatchesBondIn, Snapshot
    <3>2. CASE x # s
      BY <1>1, <1>2, <3>1, <3>2
    <3>3. CASE x = s
      <4>1. services[s].status \in {"ACTIVE", "SUSPENDED"} /\ services[s].provider \in Accounts
        BY <1>1, <3>1, <3>3 DEF Service, Status
      <4>2. services[s].deposit \in Nat /\ deposit >= services[s].deposit
        BY <1>1 DEF Service
      <4>3. services'[s] = [provider |-> services[s].provider,
                            status |-> Reinstated(services[s].status, deposit), deposit |-> deposit]
        BY <1>1, <1>2
      <4>4. QED
        BY <1>1, <3>1, <3>3, <4>1, <4>2, <4>3
    <3>4. QED
      BY <3>2, <3>3
  <2>2. QED
    BY <2>1 DEF StatusMatchesBondIn, Snapshot
<1>5. NonceSingleUseIn(Snapshot)'
  BY DEF NonceSingleUseIn, Snapshot
<1>6. Extends(Snapshot, Snapshot')
  <2>1. verdicts' = verdicts /\ services[s].status \notin {"NONE", "DEREGISTERED"}
    OBVIOUS
  <2>2. services'[s].provider = services[s].provider
        /\ services'[s].status \in {services[s].status, "ACTIVE"}
    BY <1>1, <1>2
  <2>3. \A x \in ServiceIds \ {s} : services'[x] = services[x]
    BY <1>1, <1>2
  <2>4. QED
    BY <2>1, <2>2, <2>3, Zenon DEF Extends, Snapshot
<1>7. (Snapshot.balance <= SUPPLY)'
  BY InputAssumption DEF Snapshot, Affordable
<1>8. QED
  BY <1>3, <1>4, <1>5, <1>6, <1>7

\* Deregister
LEMMA DeregisterInv ==
    ASSUME NEW s \in ServiceIds, NEW a \in Accounts, StorageInv(Snapshot),
           balance' \in 0..SUPPLY, Deregister(s, a)
    PROVE  StorageInv(Snapshot)' /\ Extends(Snapshot, Snapshot')
<1> USE DEF Deregister, MayDeregister, StorageInv, Updated
<1>1. services \in [ServiceIds -> Service]
  BY SnapshotType
<1>2. (Snapshot \in Storage)'
  BY <1>1, SnapshotType, SnapshotTypeNext, InputAssumption DEF Service, Status
<1>3. StatusMatchesBondIn(Snapshot)'
  BY <1>1, SnapshotType DEF StatusMatchesBondIn, Snapshot, Service
<1>4. NonceSingleUseIn(Snapshot)'
  BY DEF NonceSingleUseIn, Snapshot
<1>5. Extends(Snapshot, Snapshot')
  BY <1>1, SnapshotType DEF Extends, Snapshot, Service
<1>6. (Snapshot.balance <= SUPPLY)'
  BY InputAssumption DEF Snapshot
<1>7. QED
  BY <1>2, <1>3, <1>4, <1>5, <1>6

\* OnReport
LEMMA OnReportInv ==
    ASSUME NEW report \in Reports, StorageInv(Snapshot), now \in 1..MaxTime, OnReport(report)
    PROVE  StorageInv(Snapshot)' /\ Extends(Snapshot, Snapshot')
<1> DEFINE s == report.serviceId
           r == report.requestId
           credited == Credited(report.outcome, report.paidAmount, services[s].deposit)
           deposit == services[s].deposit - credited
<1> USE DEF StorageInv
<1>1. /\ services \in [ServiceIds -> Service] /\ verdicts \in [RequestIds -> Verdict]
      /\ owed \in [Accounts -> Nat] /\ now \in Nat \ {0}
  BY SnapshotType, InputAssumption
<1>2. /\ s \in ServiceIds /\ r \in RequestIds /\ report.outcome \in Outcome
      /\ report.payer \in Accounts /\ report.paidAmount \in Nat
  BY InputAssumption DEF Report
<1>3. services[s].deposit \in Nat
  BY <1>1, <1>2 DEF Service
<1>4. credited \in Nat /\ credited <= services[s].deposit /\ deposit \in Nat
  <2> HIDE DEF s
  <2>1. credited \in Nat /\ credited <= services[s].deposit
    BY <1>2, <1>3, CreditedBounds
  <2>2. QED
    BY <1>3, <2>1
<1>5. services' = [services EXCEPT ![s] =
                     [provider |-> services[s].provider,
                      status |-> Drained(services[s].status, deposit),
                      deposit |-> deposit]]
  BY DEF OnReport, RecordVerdict, Updated
<1>6. /\ verdicts' = [verdicts EXCEPT ![r] =
                       [serviceId |-> s, outcome |-> report.outcome, payer |-> report.payer,
                        paidAmount |-> report.paidAmount, refundCredited |-> credited,
                        writtenAt |-> now]]
      /\ owed' = [owed EXCEPT ![report.payer] = @ + credited]
      /\ verdicts[r].writtenAt = 0
      /\ services[s].status \notin {"NONE", "DEREGISTERED"}
  BY DEF OnReport, RecordVerdict, Recordable
<1>7. (Snapshot \in Storage)'
  <2>1. services' \in [ServiceIds -> Service]
    BY <1>1, <1>2, <1>4, <1>5 DEF Service, Status, Drained
  <2>2. verdicts' \in [RequestIds -> Verdict]
    BY <1>1, <1>2, <1>4, <1>6 DEF Verdict
  <2>3. owed' \in [Accounts -> Nat]
    BY <1>1, <1>2, <1>4, <1>6
  <2>4. QED
    BY <2>1, <2>2, <2>3, SnapshotType, SnapshotTypeNext, InputAssumption DEF OnReport
<1>8. StatusMatchesBondIn(Snapshot)'
  <2> HIDE DEF s, deposit, credited
  <2>1. /\ services'[s].provider = services[s].provider
        /\ services'[s].status = Drained(services[s].status, deposit)
        /\ services'[s].deposit = deposit
    BY <1>1, <1>2, <1>5
  <2>2. \A x \in ServiceIds : x # s => services'[x] = services[x]
    BY <1>1, <1>2, <1>5
  <2>3. deposit <= services[s].deposit
    BY <1>3, <1>4 DEF deposit
  <2>4. services[s].status \in {"ACTIVE", "SUSPENDED"}
    BY <1>1, <1>2, <1>6 DEF Service, Status
  <2>5. QED
    BY <1>1, <1>2, <1>3, <1>4, <2>1, <2>2, <2>3, <2>4, ConstructorAssumption
       DEF StatusMatchesBondIn, Snapshot, Drained, Service
<1>9. NonceSingleUseIn(Snapshot)'
  BY DEF NonceSingleUseIn, Snapshot, OnReport
<1>10. Extends(Snapshot, Snapshot')
  BY <1>1, <1>2, <1>4, <1>5, <1>6 DEF Extends, Snapshot, Service, Drained
<1>11. (Snapshot.balance <= SUPPLY)'
  BY DEF Snapshot, OnReport
<1>12. QED
  BY <1>7, <1>8, <1>9, <1>10, <1>11

\* Withdraw
LEMMA WithdrawInv ==
    ASSUME NEW a \in Accounts, StorageInv(Snapshot), balance' \in 0..SUPPLY, Withdraw(a)
    PROVE  StorageInv(Snapshot)' /\ Extends(Snapshot, Snapshot')
<1> USE DEF Withdraw, StorageInv
<1>1. (Snapshot \in Storage)'
  BY SnapshotType, SnapshotTypeNext, InputAssumption
<1>2. StatusMatchesBondIn(Snapshot)'
  BY DEF StatusMatchesBondIn, Snapshot
<1>3. NonceSingleUseIn(Snapshot)'
  BY DEF NonceSingleUseIn, Snapshot
<1>4. Extends(Snapshot, Snapshot')
  BY DEF Extends, Snapshot
<1>5. (Snapshot.balance <= SUPPLY)'
  BY InputAssumption DEF Snapshot
<1>6. QED
  BY <1>1, <1>2, <1>3, <1>4, <1>5

\* WithdrawWithAuthorization
LEMMA AuthorizationInv ==
    ASSUME NEW a \in Signed, StorageInv(Snapshot), balance' \in 0..SUPPLY, WithdrawWithAuthorization(a)
    PROVE  StorageInv(Snapshot)' /\ Extends(Snapshot, Snapshot')
<1> USE DEF WithdrawWithAuthorization, StorageInv
<1>1. a.payer \in Accounts /\ a.amount \in Nat /\ a.nonce \in Nonces
  BY InputAssumption DEF Authorization
<1>2. /\ owed[a.payer] \in Nat /\ a.amount <= owed[a.payer]
      /\ a.nonce \notin usedAuthorizations[a.payer]
  BY <1>1, SnapshotType DEF Redeemable
<1>3. (Snapshot \in Storage)'
  BY <1>1, <1>2, SnapshotType, SnapshotTypeNext, InputAssumption
<1>4. StatusMatchesBondIn(Snapshot)'
  BY DEF StatusMatchesBondIn, Snapshot
<1>5. NonceSingleUseIn(Snapshot)'
  BY <1>1, <1>2, SnapshotType, InputAssumption DEF NonceSingleUseIn, Snapshot, Authorization
<1>6. Extends(Snapshot, Snapshot')
  BY DEF Extends, Snapshot
<1>7. (Snapshot.balance <= SUPPLY)'
  BY InputAssumption DEF Snapshot
<1>8. QED
  BY <1>3, <1>4, <1>5, <1>6, <1>7

\* Extends is reflexive and transitive.
LEMMA ExtendsRefl == \A st : Extends(st, st)
BY DEF Extends

LEMMA ExtendsTrans ==
    ASSUME NEW x, NEW y, NEW z, Extends(x, y), Extends(y, z)
    PROVE  Extends(x, z)
BY DEF Extends

\* A step that leaves the storage alone.
LEMMA SameStorage == UNCHANGED storageVars => Snapshot' = Snapshot
BY DEF storageVars, Snapshot

\* A whole operation that hands control to nobody keeps the invariant, and
\* what other transactions will find only grows.
LEMMA QuietStep ==
    ASSUME IInv, StorageInv(Snapshot)', Extends(Snapshot, Snapshot'),
           lock' = lock, frame' = frame, now' \in 1..MaxTime
    PROVE  IInv' /\ Extends(Committed, Committed')
<1>1. CASE frame = NoCall
  BY <1>1 DEF IInv, Committed
<1>2. CASE frame # NoCall
  <2>1. Extends(frame.saved, Snapshot')
    BY <1>2, ExtendsTrans DEF IInv
  <2>2. Extends(Committed, Committed')
    BY <1>2, ExtendsRefl DEF Committed
  <2>3. QED
    BY <1>2, <2>1, <2>2 DEF IInv
<1>3. QED
  BY <1>1, <1>2

\* So does a locked operation that ends by calling somebody.
LEMMA SendingStep ==
    ASSUME IInv, lock = 1, NEW to \in Accounts, NEW amount \in Nat, Send(to, amount),
           balance' \in 0..SUPPLY => StorageInv(Snapshot)' /\ Extends(Snapshot, Snapshot'),
           now' = now
    PROVE  IInv' /\ Extends(Committed, Committed')
<1>1. Snapshot \in Storage /\ Snapshot.balance <= SUPPLY /\ frame = NoCall
  BY DEF IInv, StorageInv
<1>2. /\ balance' \in 0..SUPPLY
      /\ \/ lock' = 1 /\ frame' = NoCall
         \/ lock' = 2 /\ frame' \in Call /\ frame'.saved = Snapshot
      /\ frame' # NoCall <=> lock' = 2
  BY <1>1, SendEffect
<1>3. CASE lock' = 1 /\ frame' = NoCall
  BY <1>1, <1>2, <1>3 DEF IInv, Committed
<1>4. CASE lock' = 2 /\ frame' \in Call /\ frame'.saved = Snapshot
  <2>1. Extends(Committed, Committed')
    BY <1>1, <1>2, <1>4, ExtendsRefl DEF Committed
  <2>2. QED
    BY <1>2, <1>4, <2>1 DEF IInv
<1>5. QED
  BY <1>2, <1>3, <1>4

\* The invariant is inductive and what is committed only grows: one step per
\* action.
LEMMA NextInv == IInv /\ [Next]_vars => IInv' /\ Extends(Committed, Committed')
<1> SUFFICES ASSUME IInv, [Next]_vars PROVE IInv' /\ Extends(Committed, Committed')
  OBVIOUS
<1>1. StorageInv(Snapshot) /\ now \in 1..MaxTime /\ Snapshot \in Storage
  BY DEF IInv, StorageInv
<1>2. ASSUME NEW s \in ServiceIds, NEW a \in Accounts, Register(s, a) PROVE IInv' /\ Extends(Committed, Committed')
  <2>1. StorageInv(Snapshot)' /\ Extends(Snapshot, Snapshot')
    BY <1>1, <1>2, RegisterInv
  <2>2. QED
    BY <1>1, <1>2, <2>1, QuietStep DEF Register
<1>3. ASSUME NEW s \in ServiceIds, NEW v \in 0..SUPPLY, TopUp(s, v) PROVE IInv' /\ Extends(Committed, Committed')
  <2>1. v \in Nat
    BY InputAssumption
  <2>2. StorageInv(Snapshot)' /\ Extends(Snapshot, Snapshot')
    BY <1>1, <1>3, <2>1, TopUpInv
  <2>3. QED
    BY <1>1, <1>3, <2>2, QuietStep DEF TopUp
<1>4. ASSUME NEW s \in ServiceIds, NEW a \in Accounts, Deregister(s, a) PROVE IInv' /\ Extends(Committed, Committed')
  <2>1. balance' \in 0..SUPPLY => StorageInv(Snapshot)' /\ Extends(Snapshot, Snapshot')
    BY <1>1, <1>4, DeregisterInv
  <2>2. services[s].deposit \in Nat
    BY <1>1, SnapshotType DEF Service
  <2>3. lock = 1 /\ Send(a, services[s].deposit) /\ now' = now
    BY <1>4 DEF Deregister
  <2>4. QED
    BY <2>1, <2>2, <2>3, SendingStep
<1>5. ASSUME NEW report \in Reports, OnReport(report) PROVE IInv' /\ Extends(Committed, Committed')
  <2>1. StorageInv(Snapshot)' /\ Extends(Snapshot, Snapshot')
    BY <1>1, <1>5, OnReportInv
  <2>2. QED
    BY <1>1, <1>5, <2>1, QuietStep DEF OnReport
<1>6. ASSUME NEW a \in Accounts, Withdraw(a) PROVE IInv' /\ Extends(Committed, Committed')
  <2>1. balance' \in 0..SUPPLY => StorageInv(Snapshot)' /\ Extends(Snapshot, Snapshot')
    BY <1>1, <1>6, WithdrawInv
  <2>2. owed[a] \in Nat
    BY <1>1, SnapshotType
  <2>3. lock = 1 /\ Send(a, owed[a]) /\ now' = now
    BY <1>6 DEF Withdraw
  <2>4. QED
    BY <2>1, <2>2, <2>3, SendingStep
<1>7. ASSUME NEW a \in Signed, WithdrawWithAuthorization(a) PROVE IInv' /\ Extends(Committed, Committed')
  <2>1. balance' \in 0..SUPPLY => StorageInv(Snapshot)' /\ Extends(Snapshot, Snapshot')
    BY <1>1, <1>7, AuthorizationInv
  <2>2. a.recipient \in Accounts /\ a.amount \in Nat
    BY InputAssumption DEF Authorization
  <2>3. lock = 1 /\ Send(a.recipient, a.amount) /\ now' = now
    BY <1>7 DEF WithdrawWithAuthorization
  <2>4. QED
    BY <2>1, <2>2, <2>3, SendingStep
<1>8. CASE SendReturns
  <2>1. Snapshot' = Snapshot
    BY <1>8, SameStorage DEF SendReturns
  <2>2. Extends(Committed, Committed')
    BY <1>8, <2>1 DEF SendReturns, IInv, Committed
  <2>3. QED
    BY <1>8, <2>1, <2>2 DEF SendReturns, IInv
<1>9. CASE SendReverts
  <2>1. frame \in Call /\ frame.saved \in Storage /\ StorageInv(frame.saved)
    BY <1>9 DEF SendReverts, IInv, StorageInv
  <2>2. Snapshot' = frame.saved
    BY <1>9, <2>1 DEF SendReverts, Snapshot, Storage
  <2>3. Extends(Committed, Committed')
    BY <1>9, <2>2, ExtendsRefl DEF SendReverts, Committed
  <2>4. QED
    BY <1>9, <2>1, <2>2, <2>3 DEF SendReverts, IInv
<1>10. CASE Tick
  <2>1. Snapshot' = Snapshot /\ lock' = lock /\ frame' = frame
    BY <1>10, SameStorage DEF Tick
  <2>2. now' \in 1..MaxTime
    BY <1>1, <1>10, InputAssumption DEF Tick
  <2>3. Extends(Committed, Committed')
    BY <2>1, ExtendsRefl DEF Committed
  <2>4. QED
    BY <2>1, <2>2, <2>3, <1>1 DEF IInv
<1>11. CASE UNCHANGED vars
  <2>1. Snapshot' = Snapshot
    BY <1>11, SameStorage DEF vars, storageVars
  <2>2. Extends(Committed, Committed')
    BY <1>11, <2>1, ExtendsRefl DEF vars, Committed
  <2>3. QED
    BY <1>11, <2>1, <2>2 DEF vars, IInv
<1>12. QED
  BY <1>2, <1>3, <1>4, <1>5, <1>6, <1>7, <1>8, <1>9, <1>10, <1>11 DEF Next

-----------------------------------------------------------------------------
(***************************************************************************)
(* Theorems.                                                               *)
(***************************************************************************)

\* The inductive invariant holds in every reachable state.
THEOREM Invariance == Spec => []IInv
BY InitInv, NextInv, PTL DEF Spec

\* Every variable keeps its type, so no bond or credit ever goes below zero.
THEOREM TypeCorrect == Spec => []TypeOK
<1>1. IInv => TypeOK
  BY DEF IInv, StorageInv, TypeOK
<1>2. QED
  BY <1>1, Invariance, PTL

\* Status and bond agree in every state, inside a recipient's call included.
THEOREM StatusAndBond == Spec => []StatusMatchesBond
<1>1. IInv => StatusMatchesBond
  BY DEF IInv, StorageInv, StatusMatchesBond
<1>2. QED
  BY <1>1, Invariance, PTL

\* However authorizations are replayed and interleaved, a nonce pays once.
THEOREM NoncesPayOnce == Spec => []NonceSingleUse
<1>1. IInv => NonceSingleUse
  BY DEF IInv, StorageInv, NonceSingleUse
<1>2. QED
  BY <1>1, Invariance, PTL

\* A committed verdict is never changed or erased, whatever is delivered
\* twice, refused by a recipient or undone with its transaction.
THEOREM VerdictFinality == Spec => VerdictsFinal
<1>1. IInv /\ [Next]_vars =>
        [\A r \in RequestIds :
           Committed.verdicts[r].writtenAt # 0 =>
              (Committed.verdicts[r])' = Committed.verdicts[r]]_vars
  BY NextInv DEF Extends
<1>2. QED
  BY <1>1, Invariance, PTL DEF Spec, VerdictsFinal

\* What is recorded, and what a revert would bring back, came by the forwarder
\* from the pinned workflow.
AttestedInv ==
    /\ AttestedIn(verdicts)
    /\ frame # NoCall => AttestedIn(frame.saved.verdicts)

\* A step records a report, undoes a transaction, or leaves the verdicts alone
\* and at most takes a snapshot of them.
LEMMA VerdictsMove ==
    ASSUME [Next]_vars
    PROVE  \/ \E report \in Reports : OnReport(report)
           \/ SendReverts
           \/ /\ verdicts' = verdicts
              /\ \/ frame' = frame \/ frame' = NoCall
                 \/ frame'.saved.verdicts = verdicts
<1> DEFINE Kept == /\ verdicts' = verdicts
                   /\ \/ frame' = frame \/ frame' = NoCall
                      \/ frame'.saved.verdicts = verdicts
<1>1. ASSUME NEW to, NEW amount, Send(to, amount), verdicts' = verdicts PROVE Kept
  BY <1>1 DEF Send, Snapshot
<1>2. ASSUME NEW s \in ServiceIds, NEW a \in Accounts, Register(s, a) PROVE Kept
  BY <1>2 DEF Register
<1>3. ASSUME NEW s \in ServiceIds, NEW v \in 0..SUPPLY, TopUp(s, v) PROVE Kept
  BY <1>3 DEF TopUp
<1>4. ASSUME NEW s \in ServiceIds, NEW a \in Accounts, Deregister(s, a) PROVE Kept
  <2>1. Send(a, services[s].deposit) /\ verdicts' = verdicts
    BY <1>4 DEF Deregister
  <2> QED
    BY <2>1, <1>1
<1>5. ASSUME NEW a \in Accounts, Withdraw(a) PROVE Kept
  <2>1. Send(a, owed[a]) /\ verdicts' = verdicts
    BY <1>5 DEF Withdraw
  <2> QED
    BY <2>1, <1>1
<1>6. ASSUME NEW a \in Signed, WithdrawWithAuthorization(a) PROVE Kept
  <2>1. Send(a.recipient, a.amount) /\ verdicts' = verdicts
    BY <1>6 DEF WithdrawWithAuthorization
  <2> QED
    BY <2>1, <1>1
<1>7. ASSUME SendReturns PROVE Kept
  BY <1>7 DEF SendReturns, storageVars
<1>8. ASSUME Tick PROVE Kept
  BY <1>8 DEF Tick, storageVars
<1>9. ASSUME UNCHANGED vars PROVE Kept
  BY <1>9 DEF vars
<1> HIDE DEF Kept
<1>10. \/ \E report \in Reports : OnReport(report)
       \/ SendReverts
       \/ Kept
  BY <1>2, <1>3, <1>4, <1>5, <1>6, <1>7, <1>8, <1>9 DEF Next
<1>11. QED
  BY <1>10 DEF Kept

\* A recorded report is one the forwarder brought from the pinned workflow.
LEMMA ReportAttested ==
    ASSUME IInv, AttestedIn(verdicts), NEW report \in Reports, OnReport(report)
    PROVE  AttestedIn(verdicts') /\ frame' = frame
<1>1. /\ report.sender = FORWARDER /\ report.workflowOwner = WORKFLOW_OWNER
      /\ verdicts' = [verdicts EXCEPT ![report.requestId] =
                        [serviceId |-> report.serviceId, outcome |-> report.outcome,
                         payer |-> report.payer, paidAmount |-> report.paidAmount,
                         refundCredited |-> Credited(report.outcome, report.paidAmount,
                                              services[report.serviceId].deposit),
                         writtenAt |-> now]]
      /\ frame' = frame
  BY DEF OnReport, RecordVerdict, AuthenticateReport
<1>2. DOMAIN verdicts = RequestIds /\ report.requestId \in RequestIds
  BY InputAssumption DEF IInv, StorageInv, Storage, Snapshot, Report
<1>3. QED
  BY <1>1, <1>2 DEF AttestedIn

\* Every recorded verdict is attested, through calls and reverts.
THEOREM VerdictsComeFromTheWorkflow == Spec => []VerdictsAreAttested
<1>1. Init => AttestedInv
  BY DEF Init, AttestedInv, AttestedIn, Unwritten
<1>2. IInv /\ AttestedInv /\ [Next]_vars => AttestedInv'
  <2> SUFFICES ASSUME IInv, AttestedInv, [Next]_vars PROVE AttestedInv'
    OBVIOUS
  <2>1. ASSUME NEW report \in Reports, OnReport(report) PROVE AttestedInv'
    BY <2>1, ReportAttested DEF AttestedInv
  <2>2. CASE SendReverts
    BY <2>2 DEF SendReverts, AttestedInv
  <2>3. CASE /\ verdicts' = verdicts
             /\ \/ frame' = frame \/ frame' = NoCall \/ frame'.saved.verdicts = verdicts
    BY <2>3 DEF AttestedInv
  <2>4. QED
    BY <2>1, <2>2, <2>3, VerdictsMove
<1>3. AttestedInv => VerdictsAreAttested
  BY DEF AttestedInv, VerdictsAreAttested
<1>4. QED
  BY <1>1, <1>2, <1>3, Invariance, PTL DEF Spec

\* A serviceId belongs to one provider for ever, and deregistration is final.
THEOREM OneProviderPerHistory == Spec => HistoryHasOneProvider
<1>1. IInv /\ [Next]_vars =>
        [\A s \in ServiceIds :
           LET service == Committed.services[s] IN
           /\ service.status # "NONE" => (Committed.services[s].provider)' = service.provider
           /\ service.status = "DEREGISTERED" => (Committed.services[s])' = service]_vars
  BY NextInv DEF Extends
<1>2. QED
  BY <1>1, Invariance, PTL DEF Spec, HistoryHasOneProvider

\* What a suspended service loses, outside an undone transaction, is credited.
LEMMA SuspendedLoss ==
    ASSUME IInv, Next, ~SendReverts, NEW s \in ServiceIds,
           services[s].status = "SUSPENDED", services[s].deposit - services'[s].deposit > 0
    PROVE  \E p \in Accounts : owed'[p] = owed[p] + (services[s].deposit - services'[s].deposit)
<1>1. services \in [ServiceIds -> Service] /\ owed \in [Accounts -> Nat]
  BY SnapshotType DEF IInv, StorageInv
<1>2. services[s].deposit \in Nat
  BY <1>1 DEF Service
<1>3. services'[s] # services[s]
  BY <1>2
<1>4. ASSUME NEW x \in ServiceIds, NEW a \in Accounts, Register(x, a) PROVE FALSE
  BY <1>1, <1>3, <1>4 DEF Register, Registrable
<1>5. ASSUME NEW x \in ServiceIds, NEW v \in 0..SUPPLY, TopUp(x, v) PROVE FALSE
  <2>1. CASE x = s
    BY <1>1, <1>2, <1>5, <2>1, InputAssumption DEF TopUp, Updated
  <2>2. CASE x # s
    BY <1>1, <1>3, <1>5, <2>2 DEF TopUp, Updated
  <2>3. QED
    BY <2>1, <2>2
<1>6. ASSUME NEW x \in ServiceIds, NEW a \in Accounts, Deregister(x, a) PROVE FALSE
  BY <1>1, <1>3, <1>6 DEF Deregister, MayDeregister, Updated
<1>7. ASSUME NEW report \in Reports, OnReport(report)
      PROVE  \E p \in Accounts : owed'[p] = owed[p] + (services[s].deposit - services'[s].deposit)
  <2> DEFINE credited == Credited(report.outcome, report.paidAmount, services[s].deposit)
  <2>1. report.payer \in Accounts /\ report.outcome \in Outcome /\ report.paidAmount \in Nat
    BY InputAssumption DEF Report
  <2>2. credited \in Nat
    BY <1>2, <2>1, CreditedBounds
  <2>3. report.serviceId = s
    BY <1>1, <1>3, <1>7 DEF OnReport, RecordVerdict, Updated
  <2>4. services'[s].deposit = services[s].deposit - credited
    BY <1>1, <1>7, <2>3 DEF OnReport, RecordVerdict, Updated
  <2>5. owed'[report.payer] = owed[report.payer] + credited
    BY <1>1, <1>7, <2>1, <2>3 DEF OnReport, RecordVerdict
  <2>6. QED
    BY <1>2, <2>1, <2>2, <2>4, <2>5
<1>8. ASSUME services' = services PROVE FALSE
  BY <1>3, <1>8
<1>9. QED
  BY <1>4, <1>5, <1>6, <1>7, <1>8
     DEF Next, Withdraw, WithdrawWithAuthorization, SendReturns, Tick, storageVars

\* No sequence of calls lets a suspended service take its bond away.
THEOREM NobodyWalksAway == Spec => ProviderCannotWalkAway
<1>1. IInv /\ [Next]_vars =>
        [\A s \in ServiceIds :
           LET loss == services[s].deposit - services'[s].deposit IN
           services[s].status = "SUSPENDED" /\ loss > 0 /\ ~SendReverts =>
              \E p \in Accounts : owed'[p] = owed[p] + loss]_vars
  BY SuspendedLoss
<1>2. QED
  BY <1>1, Invariance, PTL DEF Spec, ProviderCannotWalkAway

-----------------------------------------------------------------------------
(***************************************************************************)
(* The registry implements the escrow ledger.                              *)
(***************************************************************************)

\* The initial storage is the ledger's.
LEMMA LedgerInit == Init => Ledger!Init
<1> SUFFICES ASSUME Init PROVE Ledger!Init
  OBVIOUS
<1>1. View = Snapshot
  BY DEF Init, View
<1>2. \A r \in RequestIds : verdicts[r].writtenAt = 0 /\ verdicts[r].refundCredited = 0
  BY DEF Init, Unwritten
<1>3. [r \in RequestIds |-> [ruled |-> verdicts[r].writtenAt # 0,
                            refund |-> verdicts[r].refundCredited]]
       = [r \in RequestIds |-> [ruled |-> FALSE, refund |-> 0]]
  BY <1>2
<1>4. QED
  BY <1>1, <1>3 DEF Init, Ledger!Init, Snapshot, Unregistered, Ledger!Unruled

\* A step that shows nothing is a stutter of the ledger.
LEMMA LedgerStutter == View' = View => UNCHANGED Ledger!vars
BY DEF Ledger!vars

\* Register is Open, shown as it happens.
LEMMA LedgerOpen ==
    ASSUME Snapshot \in Storage, View = Snapshot, View' = Snapshot',
           NEW s \in ServiceIds, NEW a \in Accounts, Register(s, a)
    PROVE  Ledger!Open(s, a)
BY SnapshotType DEF Register, Registrable, Ledger!Open, Snapshot

\* TopUp is Fund.
LEMMA LedgerFund ==
    ASSUME Snapshot \in Storage, View = Snapshot, View' = Snapshot',
           NEW s \in ServiceIds, NEW v \in Nat, TopUp(s, v)
    PROVE  Ledger!Fund(s, v)
<1> DEFINE deposit == services[s].deposit + v
<1>1. services \in [ServiceIds -> Service] /\ services[s].status \in {"ACTIVE", "SUSPENDED"}
  BY SnapshotType DEF TopUp, Service, Status
<1>2. services' = [services EXCEPT ![s] =
                     [provider |-> services[s].provider,
                      status |-> IF deposit >= DEPOSIT_AMOUNT THEN "ACTIVE" ELSE services[s].status,
                      deposit |-> deposit]]
  BY <1>1 DEF TopUp, Updated, Reinstated
<1>3. /\ balance' = balance + v /\ UNCHANGED <<verdicts, owed>>
  BY DEF TopUp
<1>4. QED
  BY <1>1, <1>2, <1>3 DEF Ledger!Fund, Snapshot

\* Deregister is Close.
LEMMA LedgerClose ==
    ASSUME Snapshot \in Storage, View = Snapshot, View' = Snapshot',
           NEW s \in ServiceIds, NEW a \in Accounts, Deregister(s, a)
    PROVE  Ledger!Close(s)
<1>1. balance' = balance - services[s].deposit
  BY SnapshotType DEF Deregister, Send, Service
<1>2. QED
  BY <1>1, SnapshotType DEF Deregister, MayDeregister, Updated, Ledger!Close, Snapshot, Service

\* OnReport is Rule, for the refund it credits.
LEMMA LedgerRule ==
    ASSUME Snapshot \in Storage, StatusMatchesBondIn(Snapshot), now \in 1..MaxTime,
           View = Snapshot, View' = Snapshot',
           NEW report \in Reports, OnReport(report)
    PROVE  Ledger!Next
<1> DEFINE s == report.serviceId
           r == report.requestId
           p == report.payer
<1>1. /\ services \in [ServiceIds -> Service] /\ verdicts \in [RequestIds -> Verdict]
      /\ owed \in [Accounts -> Nat] /\ now # 0
  BY SnapshotType, InputAssumption
<1>2. /\ s \in ServiceIds /\ r \in RequestIds /\ report.outcome \in Outcome
      /\ p \in Accounts /\ report.paidAmount \in Nat
  BY InputAssumption DEF Report
<1>3. services[s].deposit \in Nat
  BY <1>1, <1>2 DEF Service
<1>4. PICK c \in 0..FIXED_REFUND :
        /\ c = Credited(report.outcome, report.paidAmount, services[s].deposit)
        /\ c <= services[s].deposit
  <2> HIDE DEF s
  <2> DEFINE credited == Credited(report.outcome, report.paidAmount, services[s].deposit)
  <2>1. credited \in Nat /\ credited <= services[s].deposit /\ credited <= FIXED_REFUND
    BY <1>2, <1>3, CreditedBounds
  <2> HIDE DEF credited
  <2>2. credited \in 0..FIXED_REFUND
    BY <2>1, ConstructorAssumption
  <2>3. QED
    BY <2>1, <2>2 DEF credited
<1> DEFINE deposit == services[s].deposit - c
<1>5. c \in Nat /\ c <= services[s].deposit /\ c <= FIXED_REFUND
  BY <1>4, ConstructorAssumption
<1>6. services[s].status \in {"ACTIVE", "SUSPENDED"} /\ verdicts[r].writtenAt = 0
  BY <1>1, <1>2 DEF OnReport, RecordVerdict, Recordable, Service, Status
<1>7. services' = [services EXCEPT ![s] =
                     [provider |-> services[s].provider,
                      status |-> Drained(services[s].status, deposit),
                      deposit |-> deposit]]
  BY <1>4 DEF OnReport, RecordVerdict, Updated
<1>8. Drained(services[s].status, deposit) =
        IF services[s].deposit = c THEN "SUSPENDED" ELSE services[s].status
  BY <1>3, <1>5, <1>6 DEF Drained
<1>9. /\ verdicts' = [verdicts EXCEPT ![r] =
                       [serviceId |-> s, outcome |-> report.outcome, payer |-> p,
                        paidAmount |-> report.paidAmount, refundCredited |-> c,
                        writtenAt |-> now]]
      /\ owed' = [owed EXCEPT ![p] = @ + c]
      /\ balance' = balance
  BY <1>4 DEF OnReport, RecordVerdict
<1>10. Ledger!Rule(r, s, p, c)
  <2> HIDE DEF s, r, p
  <2>1. [x \in RequestIds |-> [ruled |-> verdicts'[x].writtenAt # 0,
                                refund |-> verdicts'[x].refundCredited]]
         = [[x \in RequestIds |-> [ruled |-> verdicts[x].writtenAt # 0,
                                   refund |-> verdicts[x].refundCredited]]
              EXCEPT ![r] = [ruled |-> TRUE, refund |-> c]]
    BY <1>1, <1>2, <1>9
  <2>2. [x \in ServiceIds |-> services'[x].status]
         = [[x \in ServiceIds |-> services[x].status]
              EXCEPT ![s] = IF services[s].deposit = c THEN "SUSPENDED" ELSE services[s].status]
    BY <1>1, <1>2, <1>7, <1>8
  <2>3. [x \in ServiceIds |-> services'[x].deposit]
         = [[x \in ServiceIds |-> services[x].deposit] EXCEPT ![s] = services[s].deposit - c]
    BY <1>1, <1>2, <1>7
  <2>4. [x \in ServiceIds |-> services'[x].provider] = [x \in ServiceIds |-> services[x].provider]
    BY <1>1, <1>2, <1>7
  <2>5. QED
    BY <1>2, <1>5, <1>6, <1>9, <2>1, <2>2, <2>3, <2>4 DEF Ledger!Rule, Ledger!Ruling, Snapshot
<1>11. QED
  <2> HIDE DEF s, r, p
  <2>1. QED
    BY <1>2, <1>10 DEF Ledger!Next

\* Withdraw is Pay, for all that is owed.
LEMMA LedgerWithdraw ==
    ASSUME StorageInv(Snapshot), View = Snapshot, View' = Snapshot',
           NEW a \in Accounts, Withdraw(a)
    PROVE  Ledger!Next
<1>1. owed \in [Accounts -> Nat] /\ owed[a] \in Nat /\ owed[a] # 0
  BY SnapshotType DEF Withdraw, StorageInv
<1>2. owed[a] <= balance /\ balance' = balance - owed[a] /\ balance \in 0..SUPPLY
  BY <1>1, SnapshotType DEF Withdraw, Send, StorageInv, Snapshot
<1>3. PICK v \in 0..SUPPLY : v = owed[a]
  BY <1>1, <1>2, InputAssumption
<1>4. owed' = [owed EXCEPT ![a] = 0] /\ UNCHANGED <<services, verdicts>>
  BY DEF Withdraw
<1>5. owed[a] - v = 0 /\ 0 < v /\ v <= owed[a]
  BY <1>1, <1>3
<1>6. Ledger!Pay(a, v)
  BY <1>1, <1>2, <1>3, <1>4, <1>5 DEF Ledger!Pay, Snapshot
<1>7. QED
  BY <1>6 DEF Ledger!Next

\* WithdrawWithAuthorization is Pay, for the amount that was signed.
LEMMA LedgerRedeem ==
    ASSUME StorageInv(Snapshot), View = Snapshot, View' = Snapshot',
           NEW a \in Signed, WithdrawWithAuthorization(a)
    PROVE  Ledger!Next
<1>1. a.payer \in Accounts /\ a.amount \in Nat
  BY InputAssumption DEF Authorization
<1>2. owed \in [Accounts -> Nat] /\ a.amount # 0 /\ a.amount <= owed[a.payer]
  BY SnapshotType DEF WithdrawWithAuthorization, Redeemable, StorageInv
<1>3. a.amount <= balance /\ balance' = balance - a.amount /\ balance \in 0..SUPPLY
  BY <1>2, SnapshotType DEF WithdrawWithAuthorization, Send, StorageInv, Snapshot
<1>4. owed' = [owed EXCEPT ![a.payer] = @ - a.amount] /\ UNCHANGED <<services, verdicts>>
  BY DEF WithdrawWithAuthorization
<1>5. Ledger!Pay(a.payer, a.amount)
  BY <1>1, <1>2, <1>3, <1>4 DEF Ledger!Pay, Snapshot
<1>6. a.amount \in 0..SUPPLY
  BY <1>1, <1>3, InputAssumption
<1>7. QED
  BY <1>1, <1>5, <1>6 DEF Ledger!Next

\* A step that makes no call and ends none shows all it does or nothing.
LEMMA ViewQuiet == frame' = frame => View' = View \/ (View = Snapshot /\ View' = Snapshot')
BY DEF View

\* A locked operation shows all it does if the recipient will accept, and
\* nothing if it will refuse.
LEMMA ViewSending ==
    ASSUME IInv, lock = 1, NEW to, NEW amount, Send(to, amount)
    PROVE  View = Snapshot /\ (View' = View \/ View' = Snapshot')
<1>1. frame = NoCall /\ View = Snapshot
  BY DEF IInv, View
<1>2. CASE amount = 0
  BY <1>1, <1>2 DEF Send, View
<1>3. CASE amount # 0
  <2>1. PICK accepts \in BOOLEAN :
          frame' = [to |-> to, amount |-> amount, accepts |-> accepts, saved |-> Snapshot]
    BY <1>3 DEF Send
  <2>2. frame'.saved = Snapshot
    BY <2>1
  <2>3. QED
    BY <1>1, <2>2 DEF View
<1>4. QED
  BY <1>2, <1>3

\* Every step of the registry is a step or a stutter of the ledger.
LEMMA LedgerNext == IInv /\ [Next]_vars => [Ledger!Next]_(Ledger!vars)
<1> SUFFICES ASSUME IInv, [Next]_vars, View' # View
             PROVE  Ledger!Next
  BY LedgerStutter
<1>1. /\ StorageInv(Snapshot) /\ Snapshot \in Storage /\ StatusMatchesBondIn(Snapshot)
      /\ now \in 1..MaxTime
  BY DEF IInv, StorageInv
<1>2. ASSUME NEW s \in ServiceIds, NEW a \in Accounts, Register(s, a) PROVE Ledger!Next
  <2>1. View = Snapshot /\ View' = Snapshot'
    BY <1>2, ViewQuiet DEF Register
  <2>2. Ledger!Open(s, a)
    BY <1>1, <1>2, <2>1, LedgerOpen
  <2>3. QED
    BY <2>2 DEF Ledger!Next
<1>3. ASSUME NEW s \in ServiceIds, NEW v \in 0..SUPPLY, TopUp(s, v) PROVE Ledger!Next
  <2>1. View = Snapshot /\ View' = Snapshot' /\ v \in Nat
    BY <1>3, ViewQuiet, InputAssumption DEF TopUp
  <2>2. Ledger!Fund(s, v)
    BY <1>1, <1>3, <2>1, LedgerFund
  <2>3. QED
    BY <2>2 DEF Ledger!Next
<1>4. ASSUME NEW s \in ServiceIds, NEW a \in Accounts, Deregister(s, a) PROVE Ledger!Next
  <2>1. View = Snapshot /\ View' = Snapshot'
    BY <1>4, ViewSending DEF Deregister
  <2>2. Ledger!Close(s)
    BY <1>1, <1>4, <2>1, LedgerClose
  <2>3. QED
    BY <2>2 DEF Ledger!Next
<1>5. ASSUME NEW report \in Reports, OnReport(report) PROVE Ledger!Next
  <2>1. View = Snapshot /\ View' = Snapshot'
    BY <1>5, ViewQuiet DEF OnReport
  <2>2. QED
    BY <1>1, <1>5, <2>1, LedgerRule
<1>6. ASSUME NEW a \in Accounts, Withdraw(a) PROVE Ledger!Next
  <2>1. View = Snapshot /\ View' = Snapshot'
    BY <1>6, ViewSending DEF Withdraw
  <2>2. QED
    BY <1>1, <1>6, <2>1, LedgerWithdraw
<1>7. ASSUME NEW a \in Signed, WithdrawWithAuthorization(a) PROVE Ledger!Next
  <2>1. View = Snapshot /\ View' = Snapshot'
    BY <1>7, ViewSending DEF WithdrawWithAuthorization
  <2>2. QED
    BY <1>1, <1>7, <2>1, LedgerRedeem
<1>8. CASE SendReturns
  <2>1. Snapshot' = Snapshot
    BY <1>8, SameStorage DEF SendReturns
  <2>2. QED
    BY <1>8, <2>1 DEF SendReturns, View
<1>9. CASE SendReverts
  <2>1. frame.saved \in Storage
    BY <1>9 DEF SendReverts, IInv, StorageInv
  <2>2. Snapshot' = frame.saved
    BY <1>9, <2>1 DEF SendReverts, Snapshot, Storage
  <2>3. QED
    BY <1>9, <2>2 DEF SendReverts, View
<1>10. CASE Tick
  <2>1. Snapshot' = Snapshot /\ frame' = frame
    BY <1>10, SameStorage DEF Tick
  <2>2. QED
    BY <2>1 DEF View
<1>11. CASE UNCHANGED vars
  <2>1. Snapshot' = Snapshot /\ frame' = frame
    BY <1>11, SameStorage DEF vars, storageVars
  <2>2. QED
    BY <2>1 DEF View
<1>12. QED
  BY <1>2, <1>3, <1>4, <1>5, <1>6, <1>7, <1>8, <1>9, <1>10, <1>11 DEF Next

\* With its nested calls, refused transfers and reverts, the registry is an
\* escrow of whole operations.
THEOREM Refinement == Spec => ImplementsLedger
<1>1. Init => Ledger!Init
  BY LedgerInit
<1>2. IInv /\ [Next]_vars => [Ledger!Next]_(Ledger!vars)
  BY LedgerNext
<1>3. QED
  BY <1>1, <1>2, Invariance, PTL DEF Spec, ImplementsLedger, Ledger!Spec
-----------------------------------------------------------------------------
(***************************************************************************)
(* Solvency, and where the refunds went.                                   *)
(***************************************************************************)

\* A verdict credits nothing before it is written, nothing when the call
\* passed, and never more than was paid for the call.
FairlyCreditedIn(storage) ==
    \A r \in RequestIds :
        LET verdict == storage.verdicts[r] IN
        /\ verdict.writtenAt = 0 => verdict.refundCredited = 0
        /\ verdict.outcome = "PASS" => verdict.refundCredited = 0
        /\ verdict.refundCredited <= verdict.paidAmount * NATIVE_PER_MINOR_UNIT

\* The books of a storage balance.
BooksIn(storage) ==
    /\ SolventIn(storage)
    /\ RefundsAccountedIn(storage)
    /\ FairlyCreditedIn(storage)

\* Inductive with IInv: a transaction that is undone goes back to a storage
\* whose books balanced too.
BooksInv == BooksIn(Snapshot) /\ (frame # NoCall => BooksIn(frame.saved))

\* The refunds credited to p, by call.
RefundTo(storage, p) ==
    [r \in RequestIds |-> IF storage.verdicts[r].payer = p THEN storage.verdicts[r].refundCredited ELSE 0]

\* What p's authorizations have moved, by authorization.
Redemptions(storage) == [a \in Signed |-> a.amount * storage.redeemed[a]]
SignedBy(p) == {a \in Signed : a.payer = p}

\* A saturated conversion never exceeds the exact one.
LEMMA PaidNativeIsPaid ==
    ASSUME NEW paid \in Nat
    PROVE  /\ PaidNative(paid) \in Nat
           /\ paid * NATIVE_PER_MINOR_UNIT \in Nat
           /\ PaidNative(paid) <= paid * NATIVE_PER_MINOR_UNIT
<1> DEFINE n == NATIVE_PER_MINOR_UNIT
           q == MAX_UINT \div n
<1>1. n \in Nat \ {0} /\ MAX_UINT \in Nat
  BY InputAssumption
<1>2. q \in Nat /\ MAX_UINT < (q + 1) * n
  BY <1>1
<1>3. paid * n \in Nat
  BY <1>1
<1>4. CASE paid > q
  <2>1. paid >= q + 1
    BY <1>2, <1>4
  <2>2. paid * n >= (q + 1) * n
    BY <1>1, <1>2, <2>1
  <2>3. QED
    BY <1>1, <1>2, <1>3, <1>4, <2>2 DEF PaidNative
<1>5. CASE ~(paid > q)
  BY <1>3, <1>5 DEF PaidNative
<1>6. QED
  BY <1>4, <1>5

\* The refund of a verdict is fair.
LEMMA CreditedIsFair ==
    ASSUME NEW o \in Outcome, NEW paid \in Nat, NEW deposit \in Nat
    PROVE  /\ o = "PASS" => Credited(o, paid, deposit) = 0
           /\ Credited(o, paid, deposit) <= paid * NATIVE_PER_MINOR_UNIT
BY PaidNativeIsPaid, ConstructorAssumption DEF Credited, Least

\* The sums of a storage are of amounts.
LEMMA StorageAmounts ==
    ASSUME NEW st \in Storage
    PROVE  /\ IsFiniteSet(ServiceIds) /\ Amounted(Deposits(st), ServiceIds)
           /\ IsFiniteSet(Accounts) /\ Amounted(st.owed, Accounts)
           /\ IsFiniteSet(RequestIds) /\ Amounted(Refunds(st), RequestIds)
           /\ Amounted(Prices(st), RequestIds)
           /\ \A p \in Accounts : Amounted(RefundTo(st, p), RequestIds)
           /\ \A p \in Accounts : IsFiniteSet(SignedBy(p)) /\ Amounted(Redemptions(st), SignedBy(p))
<1>1. /\ st.services \in [ServiceIds -> Service] /\ st.owed \in [Accounts -> Nat]
      /\ st.verdicts \in [RequestIds -> Verdict] /\ st.redeemed \in [Signed -> Nat]
  BY DEF Storage
<1>2. Amounted(Deposits(st), ServiceIds) /\ Amounted(st.owed, Accounts)
  BY <1>1 DEF Amounted, Deposits, Service
<1>3. \A r \in RequestIds : st.verdicts[r].refundCredited \in Nat /\ st.verdicts[r].paidAmount \in Nat
  BY <1>1 DEF Verdict
<1>4. Amounted(Refunds(st), RequestIds) /\ \A p \in Accounts : Amounted(RefundTo(st, p), RequestIds)
  BY <1>3 DEF Amounted, Refunds, RefundTo
<1>5. Amounted(Prices(st), RequestIds)
  BY <1>3, InputAssumption DEF Amounted, Prices
<1>6. ASSUME NEW p \in Accounts PROVE IsFiniteSet(SignedBy(p)) /\ Amounted(Redemptions(st), SignedBy(p))
  <2>1. IsFiniteSet(SignedBy(p))
    BY InputAssumption, FS_Subset DEF SignedBy
  <2>2. ASSUME NEW a \in SignedBy(p) PROVE a \in Signed /\ a.amount \in Nat /\ st.redeemed[a] \in Nat
    BY <1>1, InputAssumption DEF SignedBy, Authorization
  <2>3. ASSUME NEW a \in SignedBy(p) PROVE Redemptions(st)[a] \in Nat
    BY <2>2 DEF Redemptions
  <2>4. QED
    BY <2>1, <2>3 DEF Amounted
<1>7. QED
  BY <1>2, <1>4, <1>5, <1>6, InputAssumption

\* Rewriting one service moves the bonds by what its deposit changes.
LEMMA BondsMove ==
    ASSUME NEW st \in Storage, NEW nw \in Storage, NEW s \in ServiceIds,
           \A x \in ServiceIds \ {s} : nw.services[x] = st.services[x]
    PROVE  /\ Total(Deposits(nw), ServiceIds)
               = Total(Deposits(st), ServiceIds) - st.services[s].deposit + nw.services[s].deposit
           /\ Total(Deposits(st), ServiceIds) \in Nat
           /\ st.services[s].deposit \in Nat /\ nw.services[s].deposit \in Nat
           /\ st.services[s].deposit <= Total(Deposits(st), ServiceIds)
<1>1. st.services \in [ServiceIds -> Service] /\ nw.services \in [ServiceIds -> Service]
  BY DEF Storage
<1>3. /\ Deposits(st)[s] = st.services[s].deposit /\ Deposits(nw)[s] = nw.services[s].deposit
      /\ \A x \in ServiceIds \ {s} : Deposits(nw)[x] = Deposits(st)[x]
  BY DEF Deposits
<1>4. st.services[s].deposit \in Nat /\ nw.services[s].deposit \in Nat
  BY <1>1 DEF Service
<1>5. Total(Deposits(nw), ServiceIds) = Total(Deposits(st), ServiceIds) - Deposits(st)[s] + Deposits(nw)[s]
  BY <1>3, StorageAmounts, TotalChanges
<1>6. Total(Deposits(st), ServiceIds) \in Nat /\ Deposits(st)[s] <= Total(Deposits(st), ServiceIds)
  BY StorageAmounts, TotalCovers
<1>7. QED
  BY <1>3, <1>4, <1>5, <1>6

\* Rewriting one credit moves the credits by the difference.
LEMMA CreditsMove ==
    ASSUME NEW st \in Storage, NEW nw \in Storage, NEW p \in Accounts,
           \A x \in Accounts \ {p} : nw.owed[x] = st.owed[x]
    PROVE  /\ Total(nw.owed, Accounts) = Total(st.owed, Accounts) - st.owed[p] + nw.owed[p]
           /\ Total(st.owed, Accounts) \in Nat
           /\ st.owed[p] \in Nat /\ nw.owed[p] \in Nat
           /\ st.owed[p] <= Total(st.owed, Accounts)
<1>1. st.owed \in [Accounts -> Nat] /\ nw.owed \in [Accounts -> Nat]
  BY DEF Storage
<1>3. Total(nw.owed, Accounts) = Total(st.owed, Accounts) - st.owed[p] + nw.owed[p]
  <2>1. PICK f, g : f = st.owed /\ g = nw.owed
    OBVIOUS
  <2>2. IsFiniteSet(Accounts) /\ Amounted(f, Accounts) /\ Amounted(g, Accounts)
    BY <2>1, StorageAmounts
  <2>3. \A x \in Accounts \ {p} : g[x] = f[x]
    BY <2>1
  <2>4. Total(g, Accounts) = Total(f, Accounts) - f[p] + g[p]
    BY <2>2, <2>3, TotalChanges
  <2>5. QED
    BY <2>1, <2>4
<1>4. Total(st.owed, Accounts) \in Nat /\ st.owed[p] <= Total(st.owed, Accounts)
  BY StorageAmounts, TotalCovers
<1>5. QED
  BY <1>1, <1>3, <1>4

\* The refunds of a payer, as a sum over every call.
LEMMA RefundsByCall ==
    ASSUME NEW st, NEW p \in Accounts
    PROVE  Total(Refunds(st), VerdictsFor(st, p)) = Total(RefundTo(st, p), RequestIds)
<1>1. VerdictsFor(st, p) \in SUBSET RequestIds
  BY DEF VerdictsFor
<1>2. /\ \A r \in VerdictsFor(st, p) : RefundTo(st, p)[r] = Refunds(st)[r]
      /\ \A r \in RequestIds \ VerdictsFor(st, p) : RefundTo(st, p)[r] = 0
  BY DEF VerdictsFor, RefundTo, Refunds
<1>3. QED
  BY <1>1, <1>2, TotalOfSome

\* Nothing is lost or found while verdicts and credits stay as they are.
LEMMA RefundsStay ==
    ASSUME NEW st, NEW nw, RefundsAccountedIn(st),
           nw.verdicts = st.verdicts, nw.owed = st.owed,
           nw.withdrawn = st.withdrawn, nw.redeemed = st.redeemed
    PROVE  RefundsAccountedIn(nw)
BY DEF RefundsAccountedIn, CollectedIn, Refunds, VerdictsFor

\* A verdict adds what it credits to the refunds and to the credit.
LEMMA RefundsGrow ==
    ASSUME NEW st \in Storage, NEW nw \in Storage, RefundsAccountedIn(st),
           NEW r \in RequestIds, NEW v \in Verdict, NEW p \in Accounts, v.payer = p,
           st.verdicts[r].refundCredited = 0,
           nw.verdicts[r] = v, \A x \in RequestIds \ {r} : nw.verdicts[x] = st.verdicts[x],
           nw.owed[p] = st.owed[p] + v.refundCredited,
           \A x \in Accounts \ {p} : nw.owed[x] = st.owed[x],
           nw.withdrawn = st.withdrawn, nw.redeemed = st.redeemed
    PROVE  RefundsAccountedIn(nw)
<1>1. st.verdicts \in [RequestIds -> Verdict] /\ st.owed \in [Accounts -> Nat]
      /\ v.refundCredited \in Nat
  BY DEF Storage, Verdict
<1>3. ASSUME NEW q \in Accounts
      PROVE  Total(Refunds(nw), VerdictsFor(nw, q)) = nw.owed[q] + CollectedIn(nw, q)
  <2> DEFINE gain == IF q = p THEN v.refundCredited ELSE 0
  <2>1. /\ RefundTo(st, q)[r] = 0 /\ RefundTo(nw, q)[r] = gain
        /\ \A x \in RequestIds \ {r} : RefundTo(nw, q)[x] = RefundTo(st, q)[x]
    BY DEF RefundTo
  <2>2. Total(RefundTo(nw, q), RequestIds)
            = Total(RefundTo(st, q), RequestIds) - RefundTo(st, q)[r] + RefundTo(nw, q)[r]
    BY <2>1, StorageAmounts, TotalChanges
  <2>3. Total(RefundTo(st, q), RequestIds) \in Nat
    BY StorageAmounts, TotalCovers
  <2>4. Total(RefundTo(nw, q), RequestIds) = Total(RefundTo(st, q), RequestIds) + gain
    BY <1>1, <2>1, <2>2, <2>3
  <2>5. nw.owed[q] = st.owed[q] + gain /\ CollectedIn(nw, q) = CollectedIn(st, q)
    BY <1>1 DEF CollectedIn
  <2>6. Total(RefundTo(st, q), RequestIds) = st.owed[q] + CollectedIn(st, q)
    BY RefundsByCall DEF RefundsAccountedIn
  <2>7. Total(Redemptions(st), SignedBy(q)) \in Nat /\ st.withdrawn[q] \in Nat
    BY StorageAmounts, TotalCovers DEF Storage
  <2>8. CollectedIn(st, q) \in Nat
    BY <2>7 DEF CollectedIn, Redemptions, SignedBy
  <2>9. gain \in Nat /\ st.owed[q] \in Nat
    BY <1>1
  <2>10. Total(RefundTo(nw, q), RequestIds) = nw.owed[q] + CollectedIn(nw, q)
    BY <2>4, <2>5, <2>6, <2>8, <2>9
  <2>11. QED
    BY <2>10, RefundsByCall
<1>4. QED
  BY <1>3 DEF RefundsAccountedIn

\* What a payer collects is no longer owed to it.
LEMMA RefundsWithdrawn ==
    ASSUME NEW st \in Storage, NEW nw \in Storage, RefundsAccountedIn(st), NEW p \in Accounts,
           nw.verdicts = st.verdicts, nw.redeemed = st.redeemed,
           nw.owed = [st.owed EXCEPT ![p] = 0],
           nw.withdrawn = [st.withdrawn EXCEPT ![p] = st.withdrawn[p] + st.owed[p]]
    PROVE  RefundsAccountedIn(nw)
<1>1. st.withdrawn \in [Accounts -> Nat] /\ st.owed \in [Accounts -> Nat]
  BY DEF Storage
<1>2. ASSUME NEW q \in Accounts
      PROVE  Total(Refunds(nw), VerdictsFor(nw, q)) = nw.owed[q] + CollectedIn(nw, q)
  <2> DEFINE cashed == Total(Redemptions(st), SignedBy(q))
  <2>1. cashed \in Nat
    BY StorageAmounts, TotalCovers
  <2>2. CollectedIn(st, q) = st.withdrawn[q] + cashed /\ CollectedIn(nw, q) = nw.withdrawn[q] + cashed
    BY DEF CollectedIn, Redemptions, SignedBy
  <2> HIDE DEF cashed
  <2>3. nw.owed[q] + (nw.withdrawn[q] + cashed) = st.owed[q] + (st.withdrawn[q] + cashed)
    BY <1>1, <2>1
  <2>4. Total(Refunds(nw), VerdictsFor(nw, q)) = Total(Refunds(st), VerdictsFor(st, q))
    BY DEF Refunds, VerdictsFor
  <2>5. QED
    BY <2>2, <2>3, <2>4 DEF RefundsAccountedIn
<1>3. QED
  BY <1>2 DEF RefundsAccountedIn

\* So is what an authorization moves.
LEMMA RefundsRedeemed ==
    ASSUME NEW st \in Storage, NEW nw \in Storage, RefundsAccountedIn(st), NEW auth \in Signed,
           auth.amount <= st.owed[auth.payer],
           nw.verdicts = st.verdicts, nw.withdrawn = st.withdrawn,
           nw.owed = [st.owed EXCEPT ![auth.payer] = st.owed[auth.payer] - auth.amount],
           nw.redeemed = [st.redeemed EXCEPT ![auth] = st.redeemed[auth] + 1]
    PROVE  RefundsAccountedIn(nw)
<1>1. /\ st.withdrawn \in [Accounts -> Nat] /\ st.owed \in [Accounts -> Nat]
      /\ st.redeemed \in [Signed -> Nat]
      /\ auth.payer \in Accounts /\ auth.amount \in Nat
  BY InputAssumption DEF Storage, Authorization
<1>2. /\ Redemptions(nw)[auth] = Redemptions(st)[auth] + auth.amount
      /\ \A a \in Signed \ {auth} : Redemptions(nw)[a] = Redemptions(st)[a]
      /\ Redemptions(st)[auth] \in Nat
  <2>1. nw.redeemed[auth] = st.redeemed[auth] + 1 /\ st.redeemed[auth] \in Nat
    BY <1>1
  <2>2. auth.amount * (st.redeemed[auth] + 1) = auth.amount * st.redeemed[auth] + auth.amount
        /\ auth.amount * st.redeemed[auth] \in Nat
    BY <1>1, <2>1
  <2>3. QED
    BY <1>1, <2>1, <2>2 DEF Redemptions
<1>3. ASSUME NEW q \in Accounts
      PROVE  Total(Refunds(nw), VerdictsFor(nw, q)) = nw.owed[q] + CollectedIn(nw, q)
  <2> DEFINE before == Total(Redemptions(st), SignedBy(q))
             after == Total(Redemptions(nw), SignedBy(q))
  <2>1. before \in Nat
    BY StorageAmounts, TotalCovers
  <2>2. CollectedIn(st, q) = st.withdrawn[q] + before /\ CollectedIn(nw, q) = st.withdrawn[q] + after
    BY DEF CollectedIn, Redemptions, SignedBy
  <2>3. after = before + (IF q = auth.payer THEN auth.amount ELSE 0)
    <3>1. CASE q = auth.payer
      <4>1. auth \in SignedBy(q) /\ \A a \in SignedBy(q) \ {auth} : Redemptions(nw)[a] = Redemptions(st)[a]
        BY <1>2, <3>1 DEF SignedBy
      <4>2. after = before - Redemptions(st)[auth] + Redemptions(nw)[auth]
        BY <4>1, StorageAmounts, TotalChanges
      <4>3. QED
        BY <1>1, <1>2, <2>1, <3>1, <4>2
    <3>2. CASE q # auth.payer
      <4>1. \A a \in SignedBy(q) : Redemptions(nw)[a] = Redemptions(st)[a]
        BY <1>2, <3>2 DEF SignedBy
      <4>2. after = before
        BY <4>1, SameTotal
      <4>3. QED
        BY <2>1, <3>2, <4>2
    <3>3. QED
      BY <3>1, <3>2
  <2> HIDE DEF before, after
  <2>4. nw.owed[q] = st.owed[q] - (IF q = auth.payer THEN auth.amount ELSE 0)
    BY <1>1
  <2>5. nw.owed[q] + (st.withdrawn[q] + after) = st.owed[q] + (st.withdrawn[q] + before)
    BY <1>1, <2>1, <2>3, <2>4
  <2>6. Total(Refunds(nw), VerdictsFor(nw, q)) = Total(Refunds(st), VerdictsFor(st, q))
    BY DEF Refunds, VerdictsFor
  <2>7. QED
    BY <2>2, <2>5, <2>6 DEF RefundsAccountedIn
<1>4. QED
  BY <1>3 DEF RefundsAccountedIn

\* Books that balance still do when nothing in them changes.
LEMMA BooksStay ==
    ASSUME NEW st, NEW nw, BooksIn(st),
           nw.services = st.services, nw.verdicts = st.verdicts, nw.owed = st.owed,
           nw.balance = st.balance, nw.withdrawn = st.withdrawn, nw.redeemed = st.redeemed
    PROVE  BooksIn(nw)
BY RefundsStay DEF BooksIn, SolventIn, Deposits, FairlyCreditedIn

\* A bond that enters or leaves takes the balance with it.
LEMMA BooksBond ==
    ASSUME NEW st \in Storage, NEW nw \in Storage, BooksIn(st), NEW s \in ServiceIds,
           \A x \in ServiceIds \ {s} : nw.services[x] = st.services[x],
           nw.balance = st.balance - st.services[s].deposit + nw.services[s].deposit,
           nw.verdicts = st.verdicts, nw.owed = st.owed,
           nw.withdrawn = st.withdrawn, nw.redeemed = st.redeemed
    PROVE  BooksIn(nw)
<1>1. /\ Total(Deposits(nw), ServiceIds)
             = Total(Deposits(st), ServiceIds) - st.services[s].deposit + nw.services[s].deposit
      /\ Total(Deposits(st), ServiceIds) \in Nat
      /\ st.services[s].deposit \in Nat /\ nw.services[s].deposit \in Nat
  BY BondsMove
<1>2. PICK credits : credits = Total(st.owed, Accounts)
  OBVIOUS
<1>3. credits \in Nat
  <2>1. PICK f : f = st.owed
    OBVIOUS
  <2>2. IsFiniteSet(Accounts) /\ Amounted(f, Accounts)
    BY <2>1, StorageAmounts
  <2>3. QED
    BY <1>2, <2>1, <2>2, TotalIsNat
<1>4. nw.balance = Total(Deposits(nw), ServiceIds) + credits
  BY <1>1, <1>2, <1>3 DEF BooksIn, SolventIn
<1>5. SolventIn(nw)
  BY <1>2, <1>4 DEF SolventIn
<1>6. RefundsAccountedIn(nw) /\ FairlyCreditedIn(nw)
  BY RefundsStay DEF BooksIn, FairlyCreditedIn
<1>7. QED
  BY <1>5, <1>6 DEF BooksIn

\* A credit that leaves takes the balance with it.
LEMMA SolventCredit ==
    ASSUME NEW st \in Storage, NEW nw \in Storage, SolventIn(st), NEW p \in Accounts,
           \A x \in Accounts \ {p} : nw.owed[x] = st.owed[x],
           nw.balance = st.balance - st.owed[p] + nw.owed[p], nw.services = st.services
    PROVE  SolventIn(nw)
<1>1. Deposits(nw) = Deposits(st)
  BY DEF Deposits
<1>2. /\ Total(nw.owed, Accounts) = Total(st.owed, Accounts) - st.owed[p] + nw.owed[p]
      /\ Total(st.owed, Accounts) \in Nat /\ st.owed[p] \in Nat /\ nw.owed[p] \in Nat
  BY CreditsMove
<1>3. Total(Deposits(st), ServiceIds) \in Nat
  BY StorageAmounts, TotalIsNat
<1>4. nw.balance = Total(Deposits(st), ServiceIds) + Total(nw.owed, Accounts)
  BY <1>2, <1>3 DEF SolventIn
<1>5. QED
  BY <1>1, <1>4 DEF SolventIn

\* The snapshots around a step, field by field.
LEMMA SnapshotFields ==
    /\ Snapshot.services = services /\ Snapshot.verdicts = verdicts /\ Snapshot.owed = owed
    /\ Snapshot.balance = balance /\ Snapshot.withdrawn = withdrawn /\ Snapshot.redeemed = redeemed
    /\ Snapshot'.services = services' /\ Snapshot'.verdicts = verdicts' /\ Snapshot'.owed = owed'
    /\ Snapshot'.balance = balance' /\ Snapshot'.withdrawn = withdrawn'
    /\ Snapshot'.redeemed = redeemed'
BY DEF Snapshot

\* A transfer takes its amount from the balance and saves what was there.
LEMMA SendMoves ==
    ASSUME Snapshot \in Storage, NEW to, NEW amount \in Nat, frame = NoCall, Send(to, amount)
    PROVE  /\ balance' = balance - amount
           /\ frame' # NoCall => frame'.saved = Snapshot
<1>1. balance \in Nat
  BY SnapshotType
<1>2. CASE amount = 0
  BY <1>1, <1>2 DEF Send
<1>3. CASE amount # 0
  <2>1. PICK accepts \in BOOLEAN :
          frame' = [to |-> to, amount |-> amount, accepts |-> accepts, saved |-> Snapshot]
    BY <1>3 DEF Send
  <2>2. frame'.saved = Snapshot
    BY <2>1
  <2>3. QED
    BY <1>3, <2>2 DEF Send
<1>4. QED
  BY <1>2, <1>3

\* The empty registry's books balance.
LEMMA BooksInit == Init => BooksInv
<1> SUFFICES ASSUME Init PROVE BooksInv
  OBVIOUS
<1>1. /\ services = [s \in ServiceIds |-> Unregistered] /\ owed = [a \in Accounts |-> 0]
      /\ verdicts = [r \in RequestIds |-> Unwritten] /\ balance = 0 /\ frame = NoCall
      /\ withdrawn = [a \in Accounts |-> 0] /\ redeemed = [a \in Signed |-> 0]
  BY DEF Init
<1>2. Total(Deposits(Snapshot), ServiceIds) = 0 /\ Total(owed, Accounts) = 0
  BY <1>1, SnapshotFields, TotalOfZero DEF Deposits, Unregistered
<1>3. SolventIn(Snapshot)
  BY <1>1, <1>2, SnapshotFields DEF SolventIn
<1>4. ASSUME NEW p \in Accounts
      PROVE  Total(Refunds(Snapshot), VerdictsFor(Snapshot, p)) = Snapshot.owed[p] + CollectedIn(Snapshot, p)
  <2>1. \A r \in VerdictsFor(Snapshot, p) : Refunds(Snapshot)[r] = 0
    BY <1>1, SnapshotFields DEF Refunds, VerdictsFor, Unwritten
  <2>2. \A a \in SignedBy(p) : Redemptions(Snapshot)[a] = 0
    BY <1>1, SnapshotFields, InputAssumption DEF Redemptions, SignedBy, Authorization
  <2>3. Total(Refunds(Snapshot), VerdictsFor(Snapshot, p)) = 0
        /\ Total(Redemptions(Snapshot), SignedBy(p)) = 0
    BY <2>1, <2>2, TotalOfZero
  <2>4. CollectedIn(Snapshot, p) = 0
    BY <1>1, <2>3, SnapshotFields DEF CollectedIn, Redemptions, SignedBy
  <2>5. QED
    BY <1>1, <2>3, <2>4, SnapshotFields
<1>5. FairlyCreditedIn(Snapshot)
  BY <1>1, SnapshotFields, InputAssumption DEF FairlyCreditedIn, Unwritten
<1>6. QED
  BY <1>1, <1>3, <1>4, <1>5 DEF BooksInv, BooksIn, RefundsAccountedIn

\* A bond that enters enters the balance too.
LEMMA RegisterBooks ==
    ASSUME StorageInv(Snapshot), Snapshot' \in Storage, BooksIn(Snapshot),
           NEW s \in ServiceIds, NEW a \in Accounts, Register(s, a)
    PROVE  BooksIn(Snapshot')
<1> DEFINE v == [provider |-> a, status |-> "ACTIVE", deposit |-> DEPOSIT_AMOUNT]
<1>1. Snapshot \in Storage /\ services[s].deposit = 0 /\ balance \in Nat
  BY SnapshotFields, SnapshotType DEF StorageInv, StatusMatchesBondIn, Register, Registrable, Unregistered
<1>2. /\ services'[s] = v /\ \A x \in ServiceIds \ {s} : services'[x] = services[x]
      /\ balance' = balance - services[s].deposit + v.deposit
  BY <1>1, SnapshotType, ConstructorAssumption DEF Register
<1>3. /\ \A x \in ServiceIds \ {s} : Snapshot'.services[x] = Snapshot.services[x]
      /\ Snapshot'.balance = Snapshot.balance - Snapshot.services[s].deposit + Snapshot'.services[s].deposit
      /\ Snapshot'.verdicts = Snapshot.verdicts /\ Snapshot'.owed = Snapshot.owed
      /\ Snapshot'.withdrawn = Snapshot.withdrawn /\ Snapshot'.redeemed = Snapshot.redeemed
  BY <1>2, SnapshotFields DEF Register
<1>4. QED
  BY <1>1, <1>3, BooksBond

\* So does a top-up.
LEMMA TopUpBooks ==
    ASSUME Snapshot \in Storage, Snapshot' \in Storage, BooksIn(Snapshot),
           NEW s \in ServiceIds, NEW value \in Nat, TopUp(s, value)
    PROVE  BooksIn(Snapshot')
<1> DEFINE deposit == services[s].deposit + value
           v == [provider |-> services[s].provider,
                 status |-> Reinstated(services[s].status, deposit), deposit |-> deposit]
<1>1. services \in [ServiceIds -> Service] /\ services[s].deposit \in Nat /\ balance \in Nat
  BY SnapshotType DEF Service
<1>2. /\ services'[s] = v /\ \A x \in ServiceIds \ {s} : services'[x] = services[x]
      /\ balance' = balance - services[s].deposit + v.deposit
  BY <1>1 DEF TopUp, Updated
<1>3. QED
  BY <1>2, SnapshotFields, BooksBond DEF TopUp

\* A refund moves from the bonds to the credits and the balance stays.
LEMMA OnReportBooks ==
    ASSUME Snapshot \in Storage, Snapshot' \in Storage, BooksIn(Snapshot),
           now \in 1..MaxTime, NEW report \in Reports, OnReport(report)
    PROVE  BooksIn(Snapshot')
<1> DEFINE s == report.serviceId
           p == report.payer
           r == report.requestId
           credited == Credited(report.outcome, report.paidAmount, services[s].deposit)
           deposit == services[s].deposit - credited
           v == [provider |-> services[s].provider,
                 status |-> Drained(services[s].status, deposit), deposit |-> deposit]
           ruling == [serviceId |-> s, outcome |-> report.outcome, payer |-> p,
                      paidAmount |-> report.paidAmount, refundCredited |-> credited,
                      writtenAt |-> now]
<1>1. services \in [ServiceIds -> Service] /\ s \in ServiceIds /\ p \in Accounts /\ r \in RequestIds
      /\ owed \in [Accounts -> Nat] /\ report.outcome \in Outcome /\ report.paidAmount \in Nat
      /\ verdicts \in [RequestIds -> Verdict]
  BY SnapshotType, InputAssumption DEF Report
<1>2. services[s].deposit \in Nat
  BY <1>1 DEF Service
<1>3. /\ credited \in Nat /\ credited <= services[s].deposit
      /\ report.outcome = "PASS" => credited = 0
      /\ credited <= report.paidAmount * NATIVE_PER_MINOR_UNIT
  BY <1>1, <1>2, CreditedBounds, CreditedIsFair
<1>4. /\ services' = [services EXCEPT ![s] = v]
      /\ owed' = [owed EXCEPT ![p] = owed[p] + credited]
      /\ verdicts' = [verdicts EXCEPT ![r] = ruling]
      /\ verdicts[r].writtenAt = 0
      /\ balance' = balance /\ withdrawn' = withdrawn /\ redeemed' = redeemed
  BY DEF OnReport, RecordVerdict, Recordable, Updated
<1> HIDE DEF credited, s, p, r
<1>5. v.deposit = deposit /\ ruling.payer = p /\ ruling.refundCredited = credited
      /\ ruling.outcome = report.outcome /\ ruling.paidAmount = report.paidAmount
  OBVIOUS
<1>5a. /\ services'[s] = v /\ \A x \in ServiceIds \ {s} : services'[x] = services[x]
       /\ owed'[p] = owed[p] + credited /\ \A x \in Accounts \ {p} : owed'[x] = owed[x]
  BY <1>1, <1>4
<1>6. ruling \in Verdict /\ verdicts'[r] = ruling
      /\ \A x \in RequestIds \ {r} : verdicts'[x] = verdicts[x]
  <2>1. verdicts'[r] = ruling /\ \A x \in RequestIds \ {r} : verdicts'[x] = verdicts[x]
    BY <1>1, <1>4
  <2>2. verdicts' \in [RequestIds -> Verdict]
    BY SnapshotFields DEF Storage
  <2>3. QED
    BY <1>1, <2>1, <2>2
<1> HIDE DEF v, ruling
<1>7. SolventIn(Snapshot')
  <2>1. /\ Total(Deposits(Snapshot'), ServiceIds)
               = Total(Deposits(Snapshot), ServiceIds) - services[s].deposit + v.deposit
        /\ Total(Deposits(Snapshot), ServiceIds) \in Nat
        /\ services[s].deposit <= Total(Deposits(Snapshot), ServiceIds)
    BY <1>1, <1>5a, SnapshotFields, BondsMove
  <2>2. /\ Total(owed', Accounts) = Total(owed, Accounts) - owed[p] + (owed[p] + credited)
        /\ Total(owed, Accounts) \in Nat /\ owed[p] \in Nat
    BY <1>1, <1>5a, SnapshotFields, CreditsMove
  <2>3. balance = Total(Deposits(Snapshot), ServiceIds) + Total(owed, Accounts)
    BY SnapshotFields DEF BooksIn, SolventIn
  <2>4. balance' = Total(Deposits(Snapshot'), ServiceIds) + Total(owed', Accounts)
    BY <1>2, <1>3, <1>4, <1>5, <2>1, <2>2, <2>3
  <2>5. QED
    BY <2>4, SnapshotFields DEF SolventIn
<1>8. verdicts[r].refundCredited = 0
  BY <1>1, <1>4, SnapshotFields DEF BooksIn, FairlyCreditedIn
<1>9. RefundsAccountedIn(Snapshot')
  <2>1. /\ RefundsAccountedIn(Snapshot) /\ Snapshot.verdicts[r].refundCredited = 0
        /\ Snapshot'.verdicts[r] = ruling
        /\ \A x \in RequestIds \ {r} : Snapshot'.verdicts[x] = Snapshot.verdicts[x]
        /\ Snapshot'.owed[p] = Snapshot.owed[p] + ruling.refundCredited
        /\ \A x \in Accounts \ {p} : Snapshot'.owed[x] = Snapshot.owed[x]
        /\ Snapshot'.withdrawn = Snapshot.withdrawn /\ Snapshot'.redeemed = Snapshot.redeemed
    BY <1>4, <1>5, <1>5a, <1>6, <1>8, SnapshotFields DEF BooksIn
  <2>2. QED
    BY <1>1, <1>5, <1>6, <2>1, RefundsGrow
<1>10. FairlyCreditedIn(Snapshot')
  <2>1. ruling.writtenAt # 0
    BY InputAssumption DEF ruling
  <2>2. QED
    BY <1>3, <1>5, <1>6, <2>1, SnapshotFields DEF BooksIn, FairlyCreditedIn
<1>11. QED
  BY <1>7, <1>9, <1>10 DEF BooksIn

\* A bond that is sent back is off the books before control goes with it.
LEMMA DeregisterBooks ==
    ASSUME Snapshot \in Storage, Snapshot' \in Storage, BooksIn(Snapshot), frame = NoCall,
           NEW s \in ServiceIds, NEW a \in Accounts, Deregister(s, a)
    PROVE  BooksIn(Snapshot') /\ (frame' # NoCall => frame'.saved = Snapshot)
<1> DEFINE v == [provider |-> services[s].provider, status |-> "DEREGISTERED", deposit |-> 0]
<1>1. services \in [ServiceIds -> Service] /\ services[s].deposit \in Nat /\ balance \in Nat
  BY SnapshotType DEF Service
<1>2. balance' = balance - services[s].deposit /\ (frame' # NoCall => frame'.saved = Snapshot)
  BY <1>1, SendMoves DEF Deregister
<1>3. /\ services'[s] = v /\ \A x \in ServiceIds \ {s} : services'[x] = services[x]
      /\ balance' = balance - services[s].deposit + v.deposit
  BY <1>1, <1>2 DEF Deregister, Updated
<1>4. QED
  BY <1>2, <1>3, SnapshotFields, BooksBond DEF Deregister

\* So is a credit that is withdrawn,
LEMMA WithdrawBooks ==
    ASSUME Snapshot \in Storage, Snapshot' \in Storage, BooksIn(Snapshot), frame = NoCall,
           NEW p \in Accounts, Withdraw(p)
    PROVE  BooksIn(Snapshot') /\ (frame' # NoCall => frame'.saved = Snapshot)
<1>1. owed \in [Accounts -> Nat]
  BY SnapshotType
<1>2. PICK amount \in Nat : amount = owed[p]
  BY <1>1
<1>3. owed[p] - amount = 0
  BY <1>2
<1>4. /\ owed' = [owed EXCEPT ![p] = 0] /\ owed' = [owed EXCEPT ![p] = owed[p] - amount]
      /\ withdrawn' = [withdrawn EXCEPT ![p] = withdrawn[p] + owed[p]]
      /\ services' = services /\ verdicts' = verdicts /\ redeemed' = redeemed
  BY <1>3 DEF Withdraw
<1>5. balance' = balance - amount /\ (frame' # NoCall => frame'.saved = Snapshot)
  BY <1>2, SendMoves DEF Withdraw
<1>5a. /\ owed'[p] = owed[p] - amount /\ \A x \in Accounts \ {p} : owed'[x] = owed[x]
       /\ owed[p] \in Nat /\ balance \in Nat
  BY <1>1, <1>4, SnapshotType
<1>5b. balance' = balance - owed[p] + owed'[p]
  BY <1>5, <1>5a
<1>6. SolventIn(Snapshot')
  <2>1. /\ SolventIn(Snapshot) /\ Snapshot'.services = Snapshot.services
        /\ \A x \in Accounts \ {p} : Snapshot'.owed[x] = Snapshot.owed[x]
        /\ Snapshot'.balance = Snapshot.balance - Snapshot.owed[p] + Snapshot'.owed[p]
    BY <1>4, <1>5a, <1>5b, SnapshotFields DEF BooksIn
  <2>2. QED
    BY <2>1, SolventCredit
<1>7. RefundsAccountedIn(Snapshot')
  BY <1>4, SnapshotFields, RefundsWithdrawn DEF BooksIn
<1>8. FairlyCreditedIn(Snapshot')
  BY <1>4, SnapshotFields DEF BooksIn, FairlyCreditedIn
<1>9. QED
  BY <1>5, <1>6, <1>7, <1>8 DEF BooksIn

\* in full or in part.
LEMMA AuthorizationBooks ==
    ASSUME Snapshot \in Storage, Snapshot' \in Storage, BooksIn(Snapshot), frame = NoCall,
           NEW auth \in Signed, WithdrawWithAuthorization(auth)
    PROVE  BooksIn(Snapshot') /\ (frame' # NoCall => frame'.saved = Snapshot)
<1>1. auth.payer \in Accounts /\ auth.amount \in Nat /\ auth.amount <= owed[auth.payer]
  BY InputAssumption DEF Authorization, WithdrawWithAuthorization, Redeemable
<1>2. /\ owed' = [owed EXCEPT ![auth.payer] = owed[auth.payer] - auth.amount]
      /\ redeemed' = [redeemed EXCEPT ![auth] = redeemed[auth] + 1]
      /\ services' = services /\ verdicts' = verdicts /\ withdrawn' = withdrawn
  BY DEF WithdrawWithAuthorization
<1>3. balance' = balance - auth.amount /\ (frame' # NoCall => frame'.saved = Snapshot)
  BY <1>1, SendMoves DEF WithdrawWithAuthorization
<1>3a. /\ owed'[auth.payer] = owed[auth.payer] - auth.amount
       /\ \A x \in Accounts \ {auth.payer} : owed'[x] = owed[x]
       /\ owed[auth.payer] \in Nat /\ balance \in Nat
  BY <1>1, <1>2, SnapshotType
<1>3b. balance' = balance - owed[auth.payer] + owed'[auth.payer]
  BY <1>1, <1>3, <1>3a
<1>4. SolventIn(Snapshot')
  <2>1. /\ SolventIn(Snapshot) /\ Snapshot'.services = Snapshot.services
        /\ \A x \in Accounts \ {auth.payer} : Snapshot'.owed[x] = Snapshot.owed[x]
        /\ Snapshot'.balance = Snapshot.balance - Snapshot.owed[auth.payer] + Snapshot'.owed[auth.payer]
    BY <1>2, <1>3a, <1>3b, SnapshotFields DEF BooksIn
  <2>2. QED
    BY <1>1, <2>1, SolventCredit
<1>5. RefundsAccountedIn(Snapshot')
  BY <1>1, <1>2, SnapshotFields, RefundsRedeemed DEF BooksIn
<1>6. FairlyCreditedIn(Snapshot')
  BY <1>2, SnapshotFields DEF BooksIn, FairlyCreditedIn
<1>7. QED
  BY <1>3, <1>4, <1>5, <1>6 DEF BooksIn

\* The books keep balancing: one step per action.
LEMMA BooksNext == IInv /\ BooksInv /\ [Next]_vars => BooksInv'
<1> SUFFICES ASSUME IInv, BooksInv, [Next]_vars PROVE BooksInv'
  OBVIOUS
<1>1. StorageInv(Snapshot) /\ Snapshot \in Storage /\ BooksIn(Snapshot) /\ (lock = 1 => frame = NoCall)
  BY DEF IInv, StorageInv, BooksInv
<1>2. Snapshot' \in Storage
  BY NextInv DEF IInv, StorageInv
<1> DEFINE Goal == BooksIn(Snapshot') /\ (frame' # NoCall => BooksIn(frame'.saved))
<1>3. SUFFICES Goal
  BY DEF BooksInv
<1>4. ASSUME frame' = frame, BooksIn(Snapshot') PROVE Goal
  BY <1>4 DEF BooksInv
<1>5. ASSUME BooksIn(Snapshot'), frame' # NoCall => frame'.saved = Snapshot PROVE Goal
  BY <1>1, <1>5
<1>6. ASSUME NEW s \in ServiceIds, NEW a \in Accounts, Register(s, a) PROVE Goal
  BY <1>1, <1>2, <1>4, <1>6, RegisterBooks DEF Register
<1>7. ASSUME NEW s \in ServiceIds, NEW v \in 0..SUPPLY, TopUp(s, v) PROVE Goal
  <2>1. v \in Nat
    BY InputAssumption
  <2>2. QED
    BY <1>1, <1>2, <1>4, <1>7, <2>1, TopUpBooks DEF TopUp
<1>8. ASSUME NEW s \in ServiceIds, NEW a \in Accounts, Deregister(s, a) PROVE Goal
  <2>1. frame = NoCall
    BY <1>1, <1>8 DEF Deregister
  <2>2. QED
    BY <1>1, <1>2, <1>5, <1>8, <2>1, DeregisterBooks
<1>9. ASSUME NEW report \in Reports, OnReport(report) PROVE Goal
  BY <1>1, <1>2, <1>4, <1>9, OnReportBooks DEF OnReport, IInv
<1>10. ASSUME NEW a \in Accounts, Withdraw(a) PROVE Goal
  <2>1. frame = NoCall
    BY <1>1, <1>10 DEF Withdraw
  <2>2. QED
    BY <1>1, <1>2, <1>5, <1>10, <2>1, WithdrawBooks
<1>11. ASSUME NEW a \in Signed, WithdrawWithAuthorization(a) PROVE Goal
  <2>1. frame = NoCall
    BY <1>1, <1>11 DEF WithdrawWithAuthorization
  <2>2. QED
    BY <1>1, <1>2, <1>5, <1>11, <2>1, AuthorizationBooks
<1>12. CASE SendReturns
  <2>1. Snapshot' = Snapshot /\ frame' = NoCall
    BY <1>12, SameStorage DEF SendReturns
  <2>2. QED
    BY <1>1, <2>1
<1>13. CASE SendReverts
  <2>1. BooksIn(frame.saved) /\ frame' = NoCall
    BY <1>13 DEF SendReverts, BooksInv
  <2>2. /\ services' = frame.saved.services /\ verdicts' = frame.saved.verdicts
        /\ owed' = frame.saved.owed /\ balance' = frame.saved.balance
        /\ withdrawn' = frame.saved.withdrawn /\ redeemed' = frame.saved.redeemed
    BY <1>13 DEF SendReverts
  <2>3. BooksIn(Snapshot')
    BY <2>1, <2>2, SnapshotFields, BooksStay
  <2>4. QED
    BY <2>1, <2>3
<1>14. CASE Tick \/ UNCHANGED vars
  <2>1. Snapshot' = Snapshot /\ frame' = frame
    BY <1>14, SameStorage DEF Tick, vars, storageVars
  <2>2. QED
    BY <1>1, <1>4, <2>1
<1> HIDE DEF Goal
<1>15. QED
  BY <1>6, <1>7, <1>8, <1>9, <1>10, <1>11, <1>12, <1>13, <1>14 DEF Next

\* The books always balance, in the middle of a transfer and after a revert too.
THEOREM BooksBalance == Spec => [](IInv /\ BooksInv)
<1>1. Init => IInv /\ BooksInv
  BY InitInv, BooksInit
<1>2. (IInv /\ BooksInv) /\ [Next]_vars => (IInv /\ BooksInv)'
  BY NextInv, BooksNext
<1>3. QED
  BY <1>1, <1>2, PTL DEF Spec

\* What the registry holds is what it owes.
THEOREM RegistryIsSolvent == Spec => []Solvent
<1>1. BooksInv => Solvent
  BY DEF BooksInv, BooksIn, Solvent
<1>2. QED
  BY <1>1, BooksBalance, PTL

\* Every refund a verdict credited is owed or was collected, exactly once, and
\* no nonce collects twice (onReport, withdraw, withdrawWithAuthorization).
THEOREM RefundsAreAccounted == Spec => []RefundsAccounted
<1>1. IInv /\ BooksInv => RefundsAccounted
  BY DEF IInv, StorageInv, BooksInv, BooksIn, RefundsAccounted
<1>2. QED
  BY <1>1, Invariance, BooksBalance, PTL

\* A payer's refunds never exceed what it paid for the calls that failed it.
THEOREM FailureIsNotProfitable == Spec => []NoProfitFromFailure
<1>1. ASSUME IInv, BooksInv PROVE NoProfitFromFailure
  <2>1. Snapshot \in Storage /\ RefundsAccountedIn(Snapshot) /\ FairlyCreditedIn(Snapshot)
    BY <1>1 DEF IInv, StorageInv, BooksInv, BooksIn
  <2>2. ASSUME NEW p \in Accounts
        PROVE  owed[p] + CollectedIn(Snapshot, p) <= Total(Prices(Snapshot), FailuresFor(Snapshot, p))
    <3>1. /\ Amounted(Refunds(Snapshot), VerdictsFor(Snapshot, p))
          /\ Amounted(Prices(Snapshot), FailuresFor(Snapshot, p))
          /\ IsFiniteSet(FailuresFor(Snapshot, p))
      <4>1. FailuresFor(Snapshot, p) \subseteq RequestIds /\ VerdictsFor(Snapshot, p) \subseteq RequestIds
        BY DEF FailuresFor, VerdictsFor
      <4>2. QED
        BY <2>1, <4>1, StorageAmounts, FS_Subset DEF Amounted
    <3>2. \A r \in VerdictsFor(Snapshot, p) :
              Refunds(Snapshot)[r] # 0 =>
                  r \in FailuresFor(Snapshot, p) /\ Refunds(Snapshot)[r] <= Prices(Snapshot)[r]
      BY <2>1 DEF FairlyCreditedIn, VerdictsFor, FailuresFor, Refunds, Prices
    <3>3. Total(Refunds(Snapshot), VerdictsFor(Snapshot, p)) <= Total(Prices(Snapshot), FailuresFor(Snapshot, p))
      BY <3>1, <3>2, TotalGrows
    <3>4. QED
      BY <2>1, <3>3, SnapshotFields DEF RefundsAccountedIn
  <2>3. QED
    BY <2>2 DEF NoProfitFromFailure
<1>2. QED
  BY <1>1, BooksBalance, PTL

\* A bond and a credit can always both be paid: `_send` never fails for want
\* of funds.
THEOREM ClaimsAreCovered == Spec => []EveryClaimIsCovered
<1>1. ASSUME IInv, BooksInv PROVE EveryClaimIsCovered
  <2>1. Snapshot \in Storage /\ SolventIn(Snapshot)
    BY <1>1 DEF IInv, StorageInv, BooksInv, BooksIn
  <2>2. ASSUME NEW s \in ServiceIds, NEW a \in Accounts
        PROVE  services[s].deposit + owed[a] <= balance
    <3>1. /\ Deposits(Snapshot)[s] \in Nat /\ Deposits(Snapshot)[s] <= Total(Deposits(Snapshot), ServiceIds)
          /\ Total(Deposits(Snapshot), ServiceIds) \in Nat
      BY <2>1, StorageAmounts, TotalCovers
    <3>2. owed[a] \in Nat /\ owed[a] <= Total(owed, Accounts) /\ Total(owed, Accounts) \in Nat
      BY <2>1, StorageAmounts, SnapshotFields, TotalCovers
    <3>3. QED
      BY <2>1, <3>1, <3>2, SnapshotFields DEF SolventIn, Deposits
  <2>3. QED
    BY <2>2 DEF EveryClaimIsCovered
<1>2. QED
  BY <1>1, BooksBalance, PTL
=============================================================================
